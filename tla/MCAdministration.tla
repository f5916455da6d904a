--------------------------- MODULE MCAdministration ---------------------------
(***************************************************************************)
(* Administration with the administrator of the seeds and one account that *)
(* is made an employee or a second administrator.                          *)
(***************************************************************************)
EXTENDS Administration

CONSTANTS root, mia

Roles2 == [u \in {root, mia} |-> IF u = root THEN {"admin"} ELSE {"employee", "admin"}]
OneReset == [u \in {root, mia} |-> IF u = root THEN 0 ELSE 1]
=============================================================================
