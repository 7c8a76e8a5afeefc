----------------------------- MODULE MCAuditTrail -----------------------------
(* Three kinds of records; files that hold one large or up to three small ones. *)
EXTENDS AuditTrail

MCKinds == {[tool |-> "execute_query", success |-> TRUE, size |-> 1],
            [tool |-> "execute_query", success |-> FALSE, size |-> 2],
            [tool |-> "delete_link", success |-> TRUE, size |-> 2]}
MCRotateBytes == {0, 4}
MCDates == {2, 3}
MCRotateKeep == {-1, 1, 2}
===============================================================================
