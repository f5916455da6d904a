---------------------------- MODULE MCClaimReads ----------------------------
(* Instances of ClaimReads for TLC.                                        *)
EXTENDS ClaimReads

(* A claim of ann's, and bob, whose tokens say employee or manager.        *)
MCOwner == [c \in Claims |-> "ann"]
MCUsers == {"ann", "bob"}
Ask(kind, r) == [kind |-> kind, role |-> r, user |-> "bob"]
Detail(r) == [kind |-> "detail", role |-> r, user |-> "bob", claim |-> "c1"]
MCRequests == {Ask("summary", "employee"), Ask("summary", "manager"),
               Detail("employee"), Detail("manager"), Ask("list", "employee")}
MCPaths == {<<"manager", "finance">>}
=============================================================================
