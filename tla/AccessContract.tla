--------------------------- MODULE AccessContract ---------------------------
(***************************************************************************)
(* What the driver promises about the access to one share, whichever       *)
(* protocol carries it (WEKAFS security policies or NFS permissions).      *)
(*                                                                         *)
(*   want  what the rules last handed to update_access ask for             *)
(*   eff   what the Weka cluster lets in                                   *)
(*   debt  what no rule asks for any more but is still on the cluster:     *)
(*         revocations that are under way, or that failed and were only    *)
(*         logged                                                          *)
(*                                                                         *)
(* A grant is a client at an access level.                                 *)
(***************************************************************************)
CONSTANT Grant

VARIABLES want, eff, debt

vars == <<want, eff, debt>>

TypeOK == /\ want \in SUBSET Grant
          /\ eff  \in SUBSET Grant
          /\ debt \in SUBSET Grant

Init == want = {} /\ eff = {} /\ debt = {}

(***************************************************************************)
(* The manager hands over a new set of rules: nothing changes on the       *)
(* cluster yet, and only what was asked for before can be left to revoke.  *)
(***************************************************************************)
SetRules ==
    /\ want' \in SUBSET Grant
    /\ debt' \in SUBSET ((debt \cup want) \ want')
    /\ eff \ want' \subseteq debt'
    /\ UNCHANGED eff

(***************************************************************************)
(* The driver works on the cluster.  It grants only what a rule asks for   *)
(* or what it still owes a revocation, it takes away nothing a rule asks   *)
(* for, and it never makes the debt grow, whatever call fails.             *)
(***************************************************************************)
Work ==
    /\ debt' \in SUBSET debt
    /\ eff' \in SUBSET (want \cup debt')
    /\ eff \cap want \subseteq eff'
    /\ UNCHANGED want

Next == SetRules \/ Work

Spec == Init /\ [][Next]_vars

(***************************************************************************)
(* What the cluster carries beyond the rules is never new: it was carried  *)
(* beyond them before, or a rule asked for it until this very step.  So    *)
(* the driver's own work, on whatever path, adds nothing no rule asks for. *)
(***************************************************************************)
DebtIsOld == [][debt' \ debt \subseteq want \ want']_vars

(***************************************************************************)
(* A grant that is in force and that the rules keep asking for stays in    *)
(* force.                                                                  *)
(***************************************************************************)
KeepsWhatIsWanted == [][eff \cap want \cap want' \subseteq eff']_vars
=============================================================================
