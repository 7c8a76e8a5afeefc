------------------------------ MODULE MCToolCall ------------------------------
(* Two clients and all tools; the read category is unlimited, the others limited. *)
EXTENDS ToolCall, TLC

CONSTANTS a, b

Interchangeable == Permutations(Clients)
===============================================================================
