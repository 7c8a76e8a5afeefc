------------------------------ MODULE MCLogTail ------------------------------
(* A window of one line is half a line; one of three holds all that is sent. *)
EXTENDS LogTail

MCWindows == {1, 3}
===============================================================================
