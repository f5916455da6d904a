------------------------ MODULE MCRefreshSessions ------------------------
(* Instances of RefreshSessions for TLC.                                   *)
EXTENDS RefreshSessions, TLC

(* Tabs, families and tokens are ids that the code only compares.          *)
SessionSymmetry ==
    Permutations(Tabs) \cup Permutations(Families) \cup Permutations(Tokens)
=============================================================================
