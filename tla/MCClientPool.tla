----------------------------- MODULE MCClientPool -----------------------------
(* Three sessions of one server with two clusters and Capella. *)
EXTENDS ClientPool, TLC

CONSTANTS s1, s2, s3, prod, stage

TwoClusters == <<prod, stage>>

Interchangeable == Permutations(Lifespans)
===============================================================================
