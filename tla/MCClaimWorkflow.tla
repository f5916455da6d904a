--------------------------- MODULE MCClaimWorkflow ---------------------------
(* Small instances of the claim workflow for TLC.                          *)
EXTENDS ClaimProperties

CONSTANTS emp, mgr, fin, adm      \* the users of the instances
CONSTANTS c1, c2, s1, s2           \* their claims and request slots

(* Nobody changes role.                                                    *)
FixedRoles ==
    [u \in Users |-> CASE u = emp -> {"employee"} [] u = mgr -> {"manager"}
                       [] u = fin -> {"finance"} [] u = adm -> {"admin"}]
(* The employee may be promoted to manager while a claim is pending.       *)
PromotedEmployee ==
    [u \in Users |-> CASE u = emp -> {"employee", "manager"}
                       [] u = mgr -> {"manager"}
                       [] u = fin -> {"finance"} [] u = adm -> {"admin"}]

NoCategoryLimit == [c \in Categories |-> NoLimit]
(* One cent less than the two amounts of claim_serial together.            *)
OneLimit == [c \in Categories |-> 299]
OneMonth == [d \in Dates |-> 1]

SlotSymmetry == Permutations(Slots)
ClaimSymmetry == Permutations(Claims)
=============================================================================
