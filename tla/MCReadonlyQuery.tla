---------------------------- MODULE MCReadonlyQuery ----------------------------
(* Two callers of one statement and room for one entry per statement.           *)
EXTENDS ReadonlyQuery

CONSTANTS k1, a, b
===============================================================================
