-------------------------- MODULE MCOrgProvisioning --------------------------
(***************************************************************************)
(* Bounds for TLC: two threads of one share manager, one of another.       *)
(***************************************************************************)
EXTENDS OrgProvisioning

CONSTANTS t1, t2, t3, p1, p2

TwoAndOne == [t \in {t1, t2, t3} |-> IF t = t3 THEN p2 ELSE p1]
=============================================================================
