------------------------- MODULE ShareLifecycleProofs -------------------------
(***************************************************************************)
(* Proofs about ShareLifecycle, for any snapshots, exports, units, sizes   *)
(* and number of failures.                                                 *)
(***************************************************************************)
EXTENDS ShareLifecycle, TLAPS

(***************************************************************************)
(* The inductive invariant.                                                *)
(***************************************************************************)

\* The call each place belongs to, and the share's state in it.
PlaceInv ==
    /\ pc \in {"make", "group"} =>
          call = "create" /\ status \in {"none", "error"}
    /\ pc \in {"find", "detach", "drop", "unmount", "remove"} =>
          call = "delete"
    /\ pc = "read" => call = "shrink"
    /\ pc = "resize" => call \in {"extend", "shrink"}
    /\ pc \in {"adopt", "clear"} =>
          call = "manage" /\ status = "none" /\ proto = "NFS"
    /\ pc = "take" => call = "snapshot"
    /\ pc = "untake" => call = "unsnap"
    /\ pc = "restore" => call = "revert"
    /\ pc \in {"read", "resize", "take", "restore"} => status = "available"

\* The two filesystems are never confused: an adopted share has the one that
\* was there first, a created one a later one, or it is gone.
UidInv ==
    /\ uids >= 1 /\ uid["own"] \in {0, 1} /\ uid["gen"] # 1
    /\ loc.uid = 0 => loc.name = "gen"
    /\ loc.name = "own" => loc.uid = 1 /\ uid["gen"] = 0 /\ proto = "NFS"
    /\ (loc.name = "gen" /\ loc.uid # 0) =>
          loc.uid # 1 /\ uid["gen"] \in {0, loc.uid}

\* What a call has found out, and when a share has a location.
StageInv ==
    /\ status = "none" => /\ loc.uid = 0
                          /\ pc \in {"make", "group"} \/ uid["gen"] = 0
    /\ (call = "create" /\ status = "error") => loc.uid = 0
    /\ pc \in {"make", "group"} => loc.uid = 0
    /\ status \in {"available", "unmanaged"} => loc.uid # 0
    /\ pc = "group" => found = uid["gen"] /\ found # 0
    /\ pc = "clear" => /\ found = 1 /\ uid["own"] = 1
                       /\ arg = WholeGiB(cap["own"])
    /\ pc \in {"detach", "drop", "unmount", "remove"} =>
          found # 0 /\ uid["gen"] \in {0, found}
    /\ pc \in {"read", "resize", "take", "restore"} =>
          found = loc.uid \/ (found = 0 /\ "vanished" \in odd)

\* The filesystem of an available share is there, or was deleted by hand; a
\* deleted share has none.
ThereInv ==
    /\ status = "available" => uid[loc.name] = loc.uid \/ "vanished" \in odd
    /\ status = "deleted" => uid["gen"] = 0

\* No filesystem goes from under a mount, unless by hand.
MountInv ==
    /\ mounted => uid["gen"] # 0 \/ "vanished" \in odd
    /\ pc = "remove" => ~mounted

\* Policies go before their filesystem, unless something failed.
PolicyInv ==
    /\ policies # {} => proto = "WEKAFS"
    /\ policies # {} /\ uid["gen"] = 0 =>
          "vanished" \in odd \/ "swallowed" \in odd
    /\ pc \in {"detach", "drop"} /\ lvl = "ro" =>
          "rw" \notin policies \/ "swallowed" \in odd
    /\ pc \in {"unmount", "remove"} => policies = {} \/ "swallowed" \in odd

\* A snapshot is of the share's filesystem and known to Manila, and one that
\* Manila shows available is there, unless the filesystem went by hand.
SnapInv ==
    /\ \A s \in Snap : kept[s] # 0 =>
          /\ kept[s] = loc.uid /\ uid[loc.name] = loc.uid
          /\ snap[s] \in {"available", "error"}
    /\ \A s \in Snap : snap[s] = "available" =>
          "vanished" \in odd \/ (kept[s] = loc.uid /\ loc.uid # 0)
    /\ pc = "untake" => kept[cur] \in {0, found}
    /\ pc = "restore" => snap[cur] = "available"
    /\ call = "delete" /\ pc # "idle" => NoSnapshots

\* The capacity is what the size says, also of a share that is created again.
CapInv ==
    /\ (call = "create" /\ uid["gen"] # 0 /\ loc.uid = 0) =>
          cap["gen"] = size * GiB
    /\ (status = "available" /\ uid[loc.name] = loc.uid) =>
          \/ cap[loc.name] = size * GiB
          \/ loc.name = "own" /\ size = WholeGiB(cap["own"])

\* What the check before a resizing found.
FitInv ==
    /\ (pc = "resize" /\ call = "extend") => arg > size
    /\ (pc = "resize" /\ call = "shrink" /\ "raced" \notin odd) =>
          \A n \in On(found) : used[n] <= arg * GiB

IInv ==
    /\ TypeOK /\ PlaceInv /\ UidInv /\ StageInv /\ ThereInv
    /\ MountInv /\ PolicyInv /\ SnapInv /\ CapInv /\ FitInv
    /\ LostAnswersAreAbsorbed /\ AdoptedIsClosed

-----------------------------------------------------------------------------
\* A size in GiB is a capacity of the cluster.
LEMMA SizeFits == ASSUME NEW n \in 0..MaxSize PROVE n * GiB \in Space
<1> USE GiBAssumption, BoundsAssumption
<1>1. n * GiB \in Nat /\ MaxSize * GiB \in Nat
    OBVIOUS
<1>2. n * GiB <= MaxSize * GiB
    BY <1>1
<1> QED
    BY <1>1, <1>2 DEF Space

\* Whole GiB of a capacity are a size.
LEMMA WholeFits == ASSUME NEW c \in Space PROVE WholeGiB(c) \in 0..MaxSize
<1> USE GiBAssumption, BoundsAssumption
<1>1. CASE c < GiB
    BY <1>1 DEF WholeGiB
<1>2. CASE ~(c < GiB)
    <2>1. c \in Nat /\ c <= MaxSize * GiB /\ MaxSize * GiB \in Nat
        BY DEF Space
    <2>2. (c \div GiB) \in Nat /\ (c \div GiB) * GiB <= c
        BY <2>1
    <2>3. c \div GiB <= MaxSize
        BY <2>1, <2>2
    <2> QED
        BY <1>2, <2>2, <2>3 DEF WholeGiB
<1> QED
    BY <1>1, <1>2

\* More GiB than the whole ones are more than there is.
LEMMA WholeIsBelow ==
    ASSUME NEW c \in Space, NEW n \in Nat, n > WholeGiB(c)
    PROVE  c < n * GiB
<1> USE GiBAssumption, BoundsAssumption
<1>1. c \in Nat
    BY DEF Space
<1>2. CASE c < GiB
    BY <1>1, <1>2 DEF WholeGiB
<1>3. CASE ~(c < GiB)
    <2>1. (c \div GiB) \in Nat /\ c < ((c \div GiB) + 1) * GiB
        BY <1>1
    <2>2. ((c \div GiB) + 1) * GiB <= n * GiB
        BY <1>3, <2>1 DEF WholeGiB
    <2> QED
        BY <1>1, <2>1, <2>2
<1> QED
    BY <1>2, <1>3

-----------------------------------------------------------------------------
\* The flags, and the rest of the types.
FlagsOK == keepsUid \in BOOLEAN /\ mounted \in BOOLEAN

RestOK ==
    /\ proto \in {"WEKAFS", "NFS"}
    /\ status \in {"none", "available", "error", "deleted", "unmanaged"}
    /\ size \in 0..MaxSize
    /\ loc \in [name : Name, uid : Nat]
    /\ snap \in [Snap -> {"none", "available", "error", "deleted"}]
    /\ call \in Call /\ pc \in Place
    /\ outcome \in {"fine", "raised", "error"}
    /\ arg \in 0..MaxSize /\ cur \in Snap /\ found \in Nat /\ lvl \in Level
    /\ uid \in [Name -> Nat]
    /\ cap \in [Name -> Space] /\ used \in [Name -> Space]
    /\ uids \in Nat
    /\ kept \in [Snap -> Nat] /\ saved \in [Snap -> Space]
    /\ policies \in SUBSET Level /\ attached \in SUBSET Level
    /\ exports \in SUBSET Export /\ groups \in SUBSET Export
    /\ faults \in 0..MaxFaults
    /\ odd \in SUBSET {"vanished", "raced", "swallowed"}

(***************************************************************************)
(* The type invariant in two parts: a step's flags are a matter of logic,  *)
(* the rest one of sets and numbers.                                       *)
(***************************************************************************)
LEMMA Types == TypeOK <=> FlagsOK /\ RestOK
BY DEF TypeOK, FlagsOK, RestOK

(***************************************************************************)
(* Every flag stays TRUE or FALSE.                                         *)
(***************************************************************************)
LEMMA FlagsStep ==
    TypeOK /\ [Next]_vars => FlagsOK'
<1> SUFFICES ASSUME TypeOK, [Next]_vars
             PROVE  FlagsOK'
    OBVIOUS
<1> USE DEF TypeOK, FlagsOK, Ends, fixed, local, disk, snaps, access, manager
<1>0. CASE UNCHANGED vars
    BY <1>0 DEF vars
<1>1. ASSUME NEW n \in 1..MaxSize, Create(n) PROVE FlagsOK'
    BY <1>1 DEF Create, Start
<1>2. ASSUME NEW n \in 1..MaxSize, Extend(n) PROVE FlagsOK'
    BY <1>2 DEF Extend, Start
<1>3. ASSUME NEW n \in 1..MaxSize, Shrink(n) PROVE FlagsOK'
    BY <1>3 DEF Shrink, Start
<1>4. CASE Delete
    BY <1>4 DEF Delete, Start
<1>5. CASE Manage
    BY <1>5 DEF Manage, Start
<1>6. CASE Unmanage
    BY <1>6 DEF Unmanage
<1>7. ASSUME NEW s \in Snap, Snapshot(s) PROVE FlagsOK'
    BY <1>7 DEF Snapshot, Start
<1>8. ASSUME NEW s \in Snap, Unsnap(s) PROVE FlagsOK'
    BY <1>8 DEF Unsnap, Start
<1>9. ASSUME NEW s \in Snap, Revert(s) PROVE FlagsOK'
    BY <1>9 DEF Revert, Start
<1>10. CASE Govern
    BY <1>10 DEF Govern
<1>11. CASE Remount
    BY <1>11 DEF Remount
<1>12. CASE MakeFilesystem
    BY <1>12 DEF MakeFilesystem, Answers, Answer, Fault, RaiseError, Goes,
        NewFilesystem
<1>13. CASE GroupPolicies
    BY <1>13 DEF GroupPolicies, Fault, RaiseError
<1>14. CASE FindFilesystem
    BY <1>14 DEF FindFilesystem, Goes
<1>15. CASE DetachPolicy
    BY <1>15 DEF DetachPolicy, Answers, Answer, Fault, Goes, Swallows
<1>16. CASE DropPolicy
    BY <1>16 DEF DropPolicy, Answers, Answer, Fault, Goes, Swallows
<1>17. CASE Unmount
    BY <1>17 DEF Unmount, Fault, Goes, RaiseError
<1>18. CASE RemoveFilesystem
    BY <1>18 DEF RemoveFilesystem, Answers, Answer, Fault, RaiseError, Erase,
        On
<1>19. CASE ReadUsed
    BY <1>19 DEF ReadUsed, Goes, On, RaiseError
<1>20. CASE Resize
    BY <1>20 DEF Resize, Answers, Answer, Fault, RaiseError, On
<1>21. CASE Adopt
    BY <1>21 DEF Adopt, Goes, RaiseOther
<1>22. CASE ClearExport
    BY <1>22 DEF ClearExport, Answers, Answer, Fault, Goes, Swallows, Adopted
<1>23. CASE ClearGroup
    BY <1>23 DEF ClearGroup, Answers, Answer, Fault, Goes, Swallows, Adopted
<1>24. CASE Cleared
    BY <1>24 DEF Cleared, Adopted
<1>25. CASE TakeSnapshot
    BY <1>25 DEF TakeSnapshot, Answers, Answer, Fault, RaiseError, RaiseOther,
        On
<1>26. CASE DropSnapshot
    BY <1>26 DEF DropSnapshot, Answers, Answer, Fault, RaiseError
<1>27. CASE Restore
    BY <1>27 DEF Restore, Answers, Answer, Fault, RaiseError, RaiseOther, On
<1>28. CASE Write
    BY <1>28 DEF Write, On
<1>29. CASE Vanish
    BY <1>29 DEF Vanish, Fault, Erase, On
<1>30. CASE Crash
    BY <1>30 DEF Crash, Fault
<1> QED
    BY <1>0, <1>1, <1>2, <1>3, <1>4, <1>5, <1>6, <1>7, <1>8, <1>9, <1>10,
        <1>11, <1>12, <1>13, <1>14, <1>15, <1>16, <1>17, <1>18, <1>19, <1>20,
        <1>21, <1>22, <1>23, <1>24, <1>25, <1>26, <1>27, <1>28, <1>29, <1>30
       DEF Next, Work, Manila

(***************************************************************************)
(* Every other variable keeps its type; sizes stay within the bound, and   *)
(* capacities within that many GiB.                                        *)
(***************************************************************************)
LEMMA RestStep ==
    TypeOK /\ PlaceInv /\ [Next]_vars => RestOK'
<1> SUFFICES ASSUME TypeOK, PlaceInv, [Next]_vars
             PROVE  RestOK'
    OBVIOUS
<1> USE GiBAssumption, BoundsAssumption, SizeFits, WholeFits
<1> USE DEF TypeOK, RestOK, Name, Level, Call, Place, PlaceInv, Resolve, Ends,
        fixed, local, disk, snaps, access, manager
<1>0. CASE UNCHANGED vars
    BY <1>0 DEF vars
<1>1. ASSUME NEW n \in 1..MaxSize, Create(n) PROVE RestOK'
    BY <1>1 DEF Create, Start
<1>2. ASSUME NEW n \in 1..MaxSize, Extend(n) PROVE RestOK'
    BY <1>2 DEF Extend, Start
<1>3. ASSUME NEW n \in 1..MaxSize, Shrink(n) PROVE RestOK'
    BY <1>3 DEF Shrink, Start
<1>4. CASE Delete
    BY <1>4 DEF Delete, Start
<1>5. CASE Manage
    BY <1>5 DEF Manage, Start
<1>6. CASE Unmanage
    BY <1>6 DEF Unmanage
<1>7. ASSUME NEW s \in Snap, Snapshot(s) PROVE RestOK'
    BY <1>7 DEF Snapshot, Start
<1>8. ASSUME NEW s \in Snap, Unsnap(s) PROVE RestOK'
    BY <1>8 DEF Unsnap, Start
<1>9. ASSUME NEW s \in Snap, Revert(s) PROVE RestOK'
    BY <1>9 DEF Revert, Start
<1>10. CASE Govern
    BY <1>10 DEF Govern
<1>11. CASE Remount
    BY <1>11 DEF Remount
<1>12. CASE MakeFilesystem
    BY <1>12 DEF MakeFilesystem, Answers, Answer, Fault, RaiseError, Goes,
        NewFilesystem
<1>13. CASE GroupPolicies
    BY <1>13 DEF GroupPolicies, Fault, RaiseError
<1>14. CASE FindFilesystem
    BY <1>14 DEF FindFilesystem, Goes
<1>15. CASE DetachPolicy
    <2>1. ASSUME NEW x \in Answer, Swallows(x)
          PROVE  odd' \in SUBSET {"vanished", "raced", "swallowed"}
        BY <2>1 DEF Swallows, Answer
    <2>2. odd' \in SUBSET {"vanished", "raced", "swallowed"}
        BY <2>1, <1>15, Zenon DEF DetachPolicy
    <2>3. /\ policies' \in SUBSET Level /\ attached' \in SUBSET Level
          /\ faults' \in 0..MaxFaults
        <3>1. CASE lvl \notin policies
            BY <3>1, <1>15 DEF DetachPolicy
        <3>2. CASE lvl \in policies
            <4>1. faults' = faults \/ Fault
                BY <3>2, <1>15, Zenon DEF DetachPolicy, Answers
            <4>2. faults' \in 0..MaxFaults
                BY <4>1 DEF Fault
            <4>3. policies' \subseteq policies /\ attached' \subseteq attached
                BY <3>2, <1>15 DEF DetachPolicy, Answers
            <4> QED
                BY <4>2, <4>3
        <3> QED
            BY <3>1, <3>2
    <2>4. /\ pc' \in Place /\ lvl' \in Level
          /\ UNCHANGED <<fixed, status, size, loc, snap, outcome, arg, cur>>
          /\ UNCHANGED <<found, disk, snaps, exports, groups>>
        BY <1>15 DEF DetachPolicy, Goes
    <2> QED
        BY <2>2, <2>3, <2>4
<1>16. CASE DropPolicy
    <2>1. ASSUME NEW x \in Answer, Swallows(x)
          PROVE  odd' \in SUBSET {"vanished", "raced", "swallowed"}
        BY <2>1 DEF Swallows, Answer
    <2>2. odd' \in SUBSET {"vanished", "raced", "swallowed"}
        BY <2>1, <1>16, Zenon DEF DropPolicy
    <2>3. /\ policies' \in SUBSET Level /\ attached' \in SUBSET Level
          /\ faults' \in 0..MaxFaults
        <3>1. CASE lvl \notin policies
            BY <3>1, <1>16 DEF DropPolicy
        <3>2. CASE lvl \in policies
            <4>1. faults' = faults \/ Fault
                BY <3>2, <1>16, Zenon DEF DropPolicy, Answers
            <4>2. faults' \in 0..MaxFaults
                BY <4>1 DEF Fault
            <4>3. policies' \subseteq policies /\ attached' \subseteq attached
                BY <3>2, <1>16 DEF DropPolicy, Answers
            <4> QED
                BY <4>2, <4>3
        <3> QED
            BY <3>1, <3>2
    <2>4. /\ pc' \in Place /\ lvl' \in Level
          /\ UNCHANGED <<fixed, status, size, loc, snap, outcome, arg, cur>>
          /\ UNCHANGED <<found, disk, snaps, exports, groups>>
        BY <1>16 DEF DropPolicy, Goes
    <2> QED
        BY <2>2, <2>3, <2>4
<1>17. CASE Unmount
    BY <1>17 DEF Unmount, Fault, Goes, RaiseError
<1>18. CASE RemoveFilesystem
    BY <1>18 DEF RemoveFilesystem, Answers, Answer, Fault, RaiseError, Erase,
        On, Space
<1>19. CASE ReadUsed
    BY <1>19 DEF ReadUsed, Goes, On, RaiseError
<1>20. CASE Resize
    BY <1>20 DEF Resize, Answers, Answer, Fault, RaiseError, On
<1>21. CASE Adopt
    BY <1>21 DEF Adopt, Goes, RaiseOther
<1>22. CASE ClearExport
    BY <1>22 DEF ClearExport, Answers, Answer, Fault, Goes, Swallows, Adopted
<1>23. CASE ClearGroup
    BY <1>23 DEF ClearGroup, Answers, Answer, Fault, Goes, Swallows, Adopted
<1>24. CASE Cleared
    BY <1>24 DEF Cleared, Adopted
<1>25. CASE TakeSnapshot
    BY <1>25 DEF TakeSnapshot, Answers, Answer, Fault, RaiseError, RaiseOther,
        On
<1>26. CASE DropSnapshot
    BY <1>26 DEF DropSnapshot, Answers, Answer, Fault, RaiseError
<1>27. CASE Restore
    BY <1>27 DEF Restore, Answers, Answer, Fault, RaiseError, RaiseOther, On
<1>28. CASE Write
    BY <1>28 DEF Write, On, Space
<1>29. CASE Vanish
    BY <1>29 DEF Vanish, Fault, Erase, On, Space
<1>30. CASE Crash
    BY <1>30 DEF Crash, Fault
<1> QED
    BY <1>0, <1>1, <1>2, <1>3, <1>4, <1>5, <1>6, <1>7, <1>8, <1>9, <1>10,
        <1>11, <1>12, <1>13, <1>14, <1>15, <1>16, <1>17, <1>18, <1>19, <1>20,
        <1>21, <1>22, <1>23, <1>24, <1>25, <1>26, <1>27, <1>28, <1>29, <1>30
       DEF Next, Work, Manila

(***************************************************************************)
(* A call stays within its own places, and finds the share in the state it *)
(* was made in.                                                            *)
(***************************************************************************)
LEMMA PlaceStep ==
    TypeOK /\ PlaceInv /\ [Next]_vars => PlaceInv'
<1> SUFFICES ASSUME TypeOK, PlaceInv, [Next]_vars
             PROVE  PlaceInv'
    OBVIOUS
<1> USE DEF TypeOK, Name, Level, Call, Place, PlaceInv, Ends, fixed, local,
        disk, snaps, access, manager
<1>0. CASE UNCHANGED vars
    BY <1>0 DEF vars
<1>1. ASSUME NEW n \in 1..MaxSize, Create(n) PROVE PlaceInv'
    BY <1>1 DEF Create, Start
<1>2. ASSUME NEW n \in 1..MaxSize, Extend(n) PROVE PlaceInv'
    BY <1>2 DEF Extend, Start
<1>3. ASSUME NEW n \in 1..MaxSize, Shrink(n) PROVE PlaceInv'
    BY <1>3 DEF Shrink, Start
<1>4. CASE Delete
    BY <1>4 DEF Delete, Start
<1>5. CASE Manage
    BY <1>5 DEF Manage, Start
<1>6. CASE Unmanage
    BY <1>6 DEF Unmanage
<1>7. ASSUME NEW s \in Snap, Snapshot(s) PROVE PlaceInv'
    BY <1>7 DEF Snapshot, Start
<1>8. ASSUME NEW s \in Snap, Unsnap(s) PROVE PlaceInv'
    BY <1>8 DEF Unsnap, Start
<1>9. ASSUME NEW s \in Snap, Revert(s) PROVE PlaceInv'
    BY <1>9 DEF Revert, Start
<1>10. CASE Govern
    BY <1>10 DEF Govern
<1>11. CASE Remount
    BY <1>11 DEF Remount
<1>12. CASE MakeFilesystem
    BY <1>12 DEF MakeFilesystem, Answers, Answer, Fault, RaiseError, Goes,
        NewFilesystem
<1>13. CASE GroupPolicies
    BY <1>13 DEF GroupPolicies, Fault, RaiseError
<1>14. CASE FindFilesystem
    BY <1>14 DEF FindFilesystem, Goes
<1>15. CASE DetachPolicy
    BY <1>15 DEF DetachPolicy, Answers, Answer, Fault, Goes, Swallows
<1>16. CASE DropPolicy
    BY <1>16 DEF DropPolicy, Answers, Answer, Fault, Goes, Swallows
<1>17. CASE Unmount
    BY <1>17 DEF Unmount, Fault, Goes, RaiseError
<1>18. CASE RemoveFilesystem
    BY <1>18 DEF RemoveFilesystem, Answers, Answer, Fault, RaiseError, Erase,
        On
<1>19. CASE ReadUsed
    BY <1>19 DEF ReadUsed, Goes, On, RaiseError
<1>20. CASE Resize
    BY <1>20 DEF Resize, Answers, Answer, Fault, RaiseError, On
<1>21. CASE Adopt
    BY <1>21 DEF Adopt, Goes, RaiseOther
<1>22. CASE ClearExport
    BY <1>22 DEF ClearExport, Answers, Answer, Fault, Goes, Swallows, Adopted
<1>23. CASE ClearGroup
    BY <1>23 DEF ClearGroup, Answers, Answer, Fault, Goes, Swallows, Adopted
<1>24. CASE Cleared
    BY <1>24 DEF Cleared, Adopted
<1>25. CASE TakeSnapshot
    BY <1>25 DEF TakeSnapshot, Answers, Answer, Fault, RaiseError, RaiseOther,
        On
<1>26. CASE DropSnapshot
    BY <1>26 DEF DropSnapshot, Answers, Answer, Fault, RaiseError
<1>27. CASE Restore
    BY <1>27 DEF Restore, Answers, Answer, Fault, RaiseError, RaiseOther, On
<1>28. CASE Write
    BY <1>28 DEF Write, On
<1>29. CASE Vanish
    BY <1>29 DEF Vanish, Fault, Erase, On
<1>30. CASE Crash
    BY <1>30 DEF Crash, Fault
<1> QED
    BY <1>0, <1>1, <1>2, <1>3, <1>4, <1>5, <1>6, <1>7, <1>8, <1>9, <1>10,
        <1>11, <1>12, <1>13, <1>14, <1>15, <1>16, <1>17, <1>18, <1>19, <1>20,
        <1>21, <1>22, <1>23, <1>24, <1>25, <1>26, <1>27, <1>28, <1>29, <1>30
       DEF Next, Work, Manila

(***************************************************************************)
(* A uid is given to one filesystem only, so that the share's own and      *)
(* somebody else's are not taken for each other.                           *)
(***************************************************************************)
LEMMA UidStep ==
    TypeOK /\ PlaceInv /\ UidInv /\ StageInv /\ [Next]_vars => UidInv'
<1> SUFFICES ASSUME TypeOK, PlaceInv, UidInv, StageInv, [Next]_vars
             PROVE  UidInv'
    OBVIOUS
<1> USE DEF TypeOK, Name, Level, Call, Place, PlaceInv, UidInv, StageInv,
        Ends, fixed, local, disk, snaps, access, manager
<1>0. CASE UNCHANGED vars
    BY <1>0 DEF vars
<1>1. ASSUME NEW n \in 1..MaxSize, Create(n) PROVE UidInv'
    BY <1>1 DEF Create, Start
<1>2. ASSUME NEW n \in 1..MaxSize, Extend(n) PROVE UidInv'
    BY <1>2 DEF Extend, Start
<1>3. ASSUME NEW n \in 1..MaxSize, Shrink(n) PROVE UidInv'
    BY <1>3 DEF Shrink, Start
<1>4. CASE Delete
    BY <1>4 DEF Delete, Start
<1>5. CASE Manage
    BY <1>5 DEF Manage, Start
<1>6. CASE Unmanage
    BY <1>6 DEF Unmanage
<1>7. ASSUME NEW s \in Snap, Snapshot(s) PROVE UidInv'
    BY <1>7 DEF Snapshot, Start
<1>8. ASSUME NEW s \in Snap, Unsnap(s) PROVE UidInv'
    BY <1>8 DEF Unsnap, Start
<1>9. ASSUME NEW s \in Snap, Revert(s) PROVE UidInv'
    BY <1>9 DEF Revert, Start
<1>10. CASE Govern
    BY <1>10 DEF Govern
<1>11. CASE Remount
    BY <1>11 DEF Remount
<1>12. CASE MakeFilesystem
    BY <1>12 DEF MakeFilesystem, Answers, Answer, Fault, RaiseError, Goes,
        NewFilesystem
<1>13. CASE GroupPolicies
    BY <1>13 DEF GroupPolicies, Fault, RaiseError
<1>14. CASE FindFilesystem
    BY <1>14 DEF FindFilesystem, Goes
<1>15. CASE DetachPolicy
    BY <1>15 DEF DetachPolicy, Answers, Answer, Fault, Goes, Swallows
<1>16. CASE DropPolicy
    BY <1>16 DEF DropPolicy, Answers, Answer, Fault, Goes, Swallows
<1>17. CASE Unmount
    BY <1>17 DEF Unmount, Fault, Goes, RaiseError
<1>18. CASE RemoveFilesystem
    BY <1>18 DEF RemoveFilesystem, Answers, Answer, Fault, RaiseError, Erase,
        On
<1>19. CASE ReadUsed
    BY <1>19 DEF ReadUsed, Goes, On, RaiseError
<1>20. CASE Resize
    BY <1>20 DEF Resize, Answers, Answer, Fault, RaiseError, On
<1>21. CASE Adopt
    BY <1>21 DEF Adopt, Goes, RaiseOther
<1>22. CASE ClearExport
    BY <1>22 DEF ClearExport, Answers, Answer, Fault, Goes, Swallows, Adopted
<1>23. CASE ClearGroup
    BY <1>23 DEF ClearGroup, Answers, Answer, Fault, Goes, Swallows, Adopted
<1>24. CASE Cleared
    BY <1>24 DEF Cleared, Adopted
<1>25. CASE TakeSnapshot
    BY <1>25 DEF TakeSnapshot, Answers, Answer, Fault, RaiseError, RaiseOther,
        On
<1>26. CASE DropSnapshot
    BY <1>26 DEF DropSnapshot, Answers, Answer, Fault, RaiseError
<1>27. CASE Restore
    BY <1>27 DEF Restore, Answers, Answer, Fault, RaiseError, RaiseOther, On
<1>28. CASE Write
    BY <1>28 DEF Write, On
<1>29. CASE Vanish
    BY <1>29 DEF Vanish, Fault, Erase, On
<1>30. CASE Crash
    BY <1>30 DEF Crash, Fault
<1> QED
    BY <1>0, <1>1, <1>2, <1>3, <1>4, <1>5, <1>6, <1>7, <1>8, <1>9, <1>10,
        <1>11, <1>12, <1>13, <1>14, <1>15, <1>16, <1>17, <1>18, <1>19, <1>20,
        <1>21, <1>22, <1>23, <1>24, <1>25, <1>26, <1>27, <1>28, <1>29, <1>30
       DEF Next, Work, Manila

(***************************************************************************)
(* What a call has found stays true while it runs.                         *)
(***************************************************************************)
LEMMA StageStep ==
    TypeOK /\ PlaceInv /\ UidInv /\ StageInv /\ ThereInv /\ [Next]_vars
        => StageInv'
<1> SUFFICES ASSUME TypeOK, PlaceInv, UidInv, StageInv, ThereInv, [Next]_vars
             PROVE  StageInv'
    OBVIOUS
<1> USE DEF TypeOK, Name, Level, Call, Place, PlaceInv, UidInv, StageInv,
        ThereInv, Ends, fixed, local, disk, snaps, access, manager
<1>0. CASE UNCHANGED vars
    BY <1>0 DEF vars
<1>1. ASSUME NEW n \in 1..MaxSize, Create(n) PROVE StageInv'
    BY <1>1 DEF Create, Start
<1>2. ASSUME NEW n \in 1..MaxSize, Extend(n) PROVE StageInv'
    BY <1>2 DEF Extend, Start, Resolve
<1>3. ASSUME NEW n \in 1..MaxSize, Shrink(n) PROVE StageInv'
    BY <1>3 DEF Shrink, Start, Resolve
<1>4. CASE Delete
    BY <1>4 DEF Delete, Start
<1>5. CASE Manage
    BY <1>5 DEF Manage, Start
<1>6. CASE Unmanage
    BY <1>6 DEF Unmanage
<1>7. ASSUME NEW s \in Snap, Snapshot(s) PROVE StageInv'
    BY <1>7 DEF Snapshot, Start, Resolve
<1>8. ASSUME NEW s \in Snap, Unsnap(s) PROVE StageInv'
    BY <1>8 DEF Unsnap, Start
<1>9. ASSUME NEW s \in Snap, Revert(s) PROVE StageInv'
    BY <1>9 DEF Revert, Start, Resolve
<1>10. CASE Govern
    BY <1>10 DEF Govern
<1>11. CASE Remount
    BY <1>11 DEF Remount
<1>12. CASE MakeFilesystem
    BY <1>12 DEF MakeFilesystem, Answers, Answer, Fault, RaiseError, Goes,
        NewFilesystem
<1>13. CASE GroupPolicies
    BY <1>13 DEF GroupPolicies, Fault, RaiseError
<1>14. CASE FindFilesystem
    BY <1>14 DEF FindFilesystem, Goes
<1>15. CASE DetachPolicy
    BY <1>15 DEF DetachPolicy, Answers, Answer, Fault, Goes, Swallows
<1>16. CASE DropPolicy
    BY <1>16 DEF DropPolicy, Answers, Answer, Fault, Goes, Swallows
<1>17. CASE Unmount
    BY <1>17 DEF Unmount, Fault, Goes, RaiseError
<1>18. CASE RemoveFilesystem
    BY <1>18 DEF RemoveFilesystem, Answers, Answer, Fault, RaiseError, Erase,
        On
<1>19. CASE ReadUsed
    BY <1>19 DEF ReadUsed, Goes, On, RaiseError
<1>20. CASE Resize
    BY <1>20 DEF Resize, Answers, Answer, Fault, RaiseError, On
<1>21. CASE Adopt
    BY <1>21 DEF Adopt, Goes, RaiseOther
<1>22. CASE ClearExport
    BY <1>22 DEF ClearExport, Answers, Answer, Fault, Goes, Swallows, Adopted
<1>23. CASE ClearGroup
    BY <1>23 DEF ClearGroup, Answers, Answer, Fault, Goes, Swallows, Adopted
<1>24. CASE Cleared
    BY <1>24 DEF Cleared, Adopted
<1>25. CASE TakeSnapshot
    BY <1>25 DEF TakeSnapshot, Answers, Answer, Fault, RaiseError, RaiseOther,
        On
<1>26. CASE DropSnapshot
    BY <1>26 DEF DropSnapshot, Answers, Answer, Fault, RaiseError
<1>27. CASE Restore
    BY <1>27 DEF Restore, Answers, Answer, Fault, RaiseError, RaiseOther, On
<1>28. CASE Write
    BY <1>28 DEF Write, On
<1>29. CASE Vanish
    BY <1>29 DEF Vanish, Fault, Erase, On, Fault, Erase, On
<1>30. CASE Crash
    BY <1>30 DEF Crash, Fault
<1> QED
    BY <1>0, <1>1, <1>2, <1>3, <1>4, <1>5, <1>6, <1>7, <1>8, <1>9, <1>10,
        <1>11, <1>12, <1>13, <1>14, <1>15, <1>16, <1>17, <1>18, <1>19, <1>20,
        <1>21, <1>22, <1>23, <1>24, <1>25, <1>26, <1>27, <1>28, <1>29, <1>30
       DEF Next, Work, Manila

(***************************************************************************)
(* Only a delete, or somebody by hand, removes a filesystem.               *)
(***************************************************************************)
LEMMA ThereStep ==
    TypeOK /\ PlaceInv /\ StageInv /\ ThereInv /\ [Next]_vars
        => ThereInv'
<1> SUFFICES ASSUME TypeOK, PlaceInv, StageInv, ThereInv, [Next]_vars
             PROVE  ThereInv'
    OBVIOUS
<1> USE DEF TypeOK, Name, Level, Call, Place, PlaceInv, StageInv, ThereInv,
        Ends, fixed, local, disk, snaps, access, manager
<1>0. CASE UNCHANGED vars
    BY <1>0 DEF vars
<1>1. ASSUME NEW n \in 1..MaxSize, Create(n) PROVE ThereInv'
    BY <1>1 DEF Create, Start
<1>2. ASSUME NEW n \in 1..MaxSize, Extend(n) PROVE ThereInv'
    BY <1>2 DEF Extend, Start
<1>3. ASSUME NEW n \in 1..MaxSize, Shrink(n) PROVE ThereInv'
    BY <1>3 DEF Shrink, Start
<1>4. CASE Delete
    BY <1>4 DEF Delete, Start
<1>5. CASE Manage
    BY <1>5 DEF Manage, Start
<1>6. CASE Unmanage
    BY <1>6 DEF Unmanage
<1>7. ASSUME NEW s \in Snap, Snapshot(s) PROVE ThereInv'
    BY <1>7 DEF Snapshot, Start
<1>8. ASSUME NEW s \in Snap, Unsnap(s) PROVE ThereInv'
    BY <1>8 DEF Unsnap, Start
<1>9. ASSUME NEW s \in Snap, Revert(s) PROVE ThereInv'
    BY <1>9 DEF Revert, Start
<1>10. CASE Govern
    BY <1>10 DEF Govern
<1>11. CASE Remount
    BY <1>11 DEF Remount
<1>12. CASE MakeFilesystem
    BY <1>12 DEF MakeFilesystem, Answers, Answer, Fault, RaiseError, Goes,
        NewFilesystem
<1>13. CASE GroupPolicies
    BY <1>13 DEF GroupPolicies, Fault, RaiseError
<1>14. CASE FindFilesystem
    BY <1>14 DEF FindFilesystem, Goes
<1>15. CASE DetachPolicy
    BY <1>15 DEF DetachPolicy, Answers, Answer, Fault, Goes, Swallows
<1>16. CASE DropPolicy
    BY <1>16 DEF DropPolicy, Answers, Answer, Fault, Goes, Swallows
<1>17. CASE Unmount
    BY <1>17 DEF Unmount, Fault, Goes, RaiseError
<1>18. CASE RemoveFilesystem
    BY <1>18 DEF RemoveFilesystem, Answers, Answer, Fault, RaiseError, Erase,
        On
<1>19. CASE ReadUsed
    BY <1>19 DEF ReadUsed, Goes, On, RaiseError
<1>20. CASE Resize
    BY <1>20 DEF Resize, Answers, Answer, Fault, RaiseError, On
<1>21. CASE Adopt
    BY <1>21 DEF Adopt, Goes, RaiseOther
<1>22. CASE ClearExport
    BY <1>22 DEF ClearExport, Answers, Answer, Fault, Goes, Swallows, Adopted
<1>23. CASE ClearGroup
    BY <1>23 DEF ClearGroup, Answers, Answer, Fault, Goes, Swallows, Adopted
<1>24. CASE Cleared
    BY <1>24 DEF Cleared, Adopted
<1>25. CASE TakeSnapshot
    BY <1>25 DEF TakeSnapshot, Answers, Answer, Fault, RaiseError, RaiseOther,
        On
<1>26. CASE DropSnapshot
    BY <1>26 DEF DropSnapshot, Answers, Answer, Fault, RaiseError
<1>27. CASE Restore
    BY <1>27 DEF Restore, Answers, Answer, Fault, RaiseError, RaiseOther, On
<1>28. CASE Write
    BY <1>28 DEF Write, On
<1>29. CASE Vanish
    BY <1>29 DEF Vanish, Fault, Erase, On
<1>30. CASE Crash
    BY <1>30 DEF Crash, Fault
<1> QED
    BY <1>0, <1>1, <1>2, <1>3, <1>4, <1>5, <1>6, <1>7, <1>8, <1>9, <1>10,
        <1>11, <1>12, <1>13, <1>14, <1>15, <1>16, <1>17, <1>18, <1>19, <1>20,
        <1>21, <1>22, <1>23, <1>24, <1>25, <1>26, <1>27, <1>28, <1>29, <1>30
       DEF Next, Work, Manila

(***************************************************************************)
(* A mount goes before its filesystem.                                     *)
(***************************************************************************)
LEMMA MountStep ==
    TypeOK /\ PlaceInv /\ UidInv /\ StageInv /\ MountInv /\ [Next]_vars
        => MountInv'
<1> SUFFICES ASSUME TypeOK, PlaceInv, UidInv, StageInv, MountInv, [Next]_vars
             PROVE  MountInv'
    OBVIOUS
<1> USE DEF TypeOK, Name, Level, Call, Place, PlaceInv, UidInv, StageInv,
        MountInv, Ends, fixed, local, disk, snaps, access, manager
<1>0. CASE UNCHANGED vars
    BY <1>0 DEF vars
<1>1. ASSUME NEW n \in 1..MaxSize, Create(n) PROVE MountInv'
    BY <1>1 DEF Create, Start
<1>2. ASSUME NEW n \in 1..MaxSize, Extend(n) PROVE MountInv'
    BY <1>2 DEF Extend, Start
<1>3. ASSUME NEW n \in 1..MaxSize, Shrink(n) PROVE MountInv'
    BY <1>3 DEF Shrink, Start
<1>4. CASE Delete
    BY <1>4 DEF Delete, Start
<1>5. CASE Manage
    BY <1>5 DEF Manage, Start
<1>6. CASE Unmanage
    BY <1>6 DEF Unmanage
<1>7. ASSUME NEW s \in Snap, Snapshot(s) PROVE MountInv'
    BY <1>7 DEF Snapshot, Start
<1>8. ASSUME NEW s \in Snap, Unsnap(s) PROVE MountInv'
    BY <1>8 DEF Unsnap, Start
<1>9. ASSUME NEW s \in Snap, Revert(s) PROVE MountInv'
    BY <1>9 DEF Revert, Start
<1>10. CASE Govern
    BY <1>10 DEF Govern
<1>11. CASE Remount
    BY <1>11 DEF Remount
<1>12. CASE MakeFilesystem
    BY <1>12 DEF MakeFilesystem, Answers, Answer, Fault, RaiseError, Goes,
        NewFilesystem
<1>13. CASE GroupPolicies
    BY <1>13 DEF GroupPolicies, Fault, RaiseError
<1>14. CASE FindFilesystem
    BY <1>14 DEF FindFilesystem, Goes
<1>15. CASE DetachPolicy
    BY <1>15 DEF DetachPolicy, Answers, Answer, Fault, Goes, Swallows
<1>16. CASE DropPolicy
    BY <1>16 DEF DropPolicy, Answers, Answer, Fault, Goes, Swallows
<1>17. CASE Unmount
    BY <1>17 DEF Unmount, Fault, Goes, RaiseError
<1>18. CASE RemoveFilesystem
    BY <1>18 DEF RemoveFilesystem, Answers, Answer, Fault, RaiseError, Erase,
        On
<1>19. CASE ReadUsed
    BY <1>19 DEF ReadUsed, Goes, On, RaiseError
<1>20. CASE Resize
    BY <1>20 DEF Resize, Answers, Answer, Fault, RaiseError, On
<1>21. CASE Adopt
    BY <1>21 DEF Adopt, Goes, RaiseOther
<1>22. CASE ClearExport
    BY <1>22 DEF ClearExport, Answers, Answer, Fault, Goes, Swallows, Adopted
<1>23. CASE ClearGroup
    BY <1>23 DEF ClearGroup, Answers, Answer, Fault, Goes, Swallows, Adopted
<1>24. CASE Cleared
    BY <1>24 DEF Cleared, Adopted
<1>25. CASE TakeSnapshot
    BY <1>25 DEF TakeSnapshot, Answers, Answer, Fault, RaiseError, RaiseOther,
        On
<1>26. CASE DropSnapshot
    BY <1>26 DEF DropSnapshot, Answers, Answer, Fault, RaiseError
<1>27. CASE Restore
    BY <1>27 DEF Restore, Answers, Answer, Fault, RaiseError, RaiseOther, On
<1>28. CASE Write
    BY <1>28 DEF Write, On
<1>29. CASE Vanish
    BY <1>29 DEF Vanish, Fault, Erase, On
<1>30. CASE Crash
    BY <1>30 DEF Crash, Fault
<1> QED
    BY <1>0, <1>1, <1>2, <1>3, <1>4, <1>5, <1>6, <1>7, <1>8, <1>9, <1>10,
        <1>11, <1>12, <1>13, <1>14, <1>15, <1>16, <1>17, <1>18, <1>19, <1>20,
        <1>21, <1>22, <1>23, <1>24, <1>25, <1>26, <1>27, <1>28, <1>29, <1>30
       DEF Next, Work, Manila

(***************************************************************************)
(* The policies of a share go before its filesystem, and before its mount, *)
(* unless their clean-up failed.                                           *)
(***************************************************************************)
LEMMA PolicyStep ==
    TypeOK /\ PlaceInv /\ UidInv /\ StageInv /\ ThereInv /\ PolicyInv
    /\ [Next]_vars
        => PolicyInv'
<1> SUFFICES ASSUME TypeOK, PlaceInv, UidInv, StageInv, ThereInv, PolicyInv,
        [Next]_vars
             PROVE  PolicyInv'
    OBVIOUS
<1> USE DEF TypeOK, Name, Level, Call, Place, PlaceInv, UidInv, StageInv,
        ThereInv, PolicyInv, Ends, fixed, local, disk, snaps, access, manager
<1>0. CASE UNCHANGED vars
    BY <1>0 DEF vars
<1>1. ASSUME NEW n \in 1..MaxSize, Create(n) PROVE PolicyInv'
    BY <1>1 DEF Create, Start
<1>2. ASSUME NEW n \in 1..MaxSize, Extend(n) PROVE PolicyInv'
    BY <1>2 DEF Extend, Start
<1>3. ASSUME NEW n \in 1..MaxSize, Shrink(n) PROVE PolicyInv'
    BY <1>3 DEF Shrink, Start
<1>4. CASE Delete
    BY <1>4 DEF Delete, Start
<1>5. CASE Manage
    BY <1>5 DEF Manage, Start
<1>6. CASE Unmanage
    BY <1>6 DEF Unmanage
<1>7. ASSUME NEW s \in Snap, Snapshot(s) PROVE PolicyInv'
    BY <1>7 DEF Snapshot, Start
<1>8. ASSUME NEW s \in Snap, Unsnap(s) PROVE PolicyInv'
    BY <1>8 DEF Unsnap, Start
<1>9. ASSUME NEW s \in Snap, Revert(s) PROVE PolicyInv'
    BY <1>9 DEF Revert, Start
<1>10. CASE Govern
    BY <1>10 DEF Govern
<1>11. CASE Remount
    BY <1>11 DEF Remount
<1>12. CASE MakeFilesystem
    BY <1>12 DEF MakeFilesystem, Answers, Answer, Fault, RaiseError, Goes,
        NewFilesystem
<1>13. CASE GroupPolicies
    BY <1>13 DEF GroupPolicies, Fault, RaiseError
<1>14. CASE FindFilesystem
    BY <1>14 DEF FindFilesystem, Goes
<1>15. CASE DetachPolicy
    BY <1>15 DEF DetachPolicy, Answers, Answer, Fault, Goes, Swallows
<1>16. CASE DropPolicy
    <2>1. policies' \subseteq policies /\ odd \subseteq odd'
        BY <1>16 DEF DropPolicy, Swallows, Answers, Answer
    <2>2. lvl \notin policies' \/ "swallowed" \in odd'
        <3>1. CASE lvl \notin policies
            BY <3>1, <2>1
        <3>2. CASE lvl \in policies
            <4> PICK a \in Answer :
                  /\ Answers(a, policies' = policies \ {lvl},
                                UNCHANGED policies)
                  /\ Swallows(a)
                BY <1>16, <3>2 DEF DropPolicy
            <4> QED
                BY DEF Answers, Swallows, Answer
        <3> QED
            BY <3>1, <3>2
    <2>3. /\ pc = "drop" /\ lvl' = "ro"
          /\ pc' = (IF lvl = "rw" THEN "detach" ELSE "unmount")
          /\ UNCHANGED <<proto, uid>>
        BY <1>16 DEF DropPolicy, Goes
    <2>4. PolicyInv!1' /\ PolicyInv!2'
        BY <2>1, <2>3
    <2>5. PolicyInv!3' /\ PolicyInv!4'
        BY <2>1, <2>2, <2>3
    <2> QED
        BY <2>4, <2>5
<1>17. CASE Unmount
    BY <1>17 DEF Unmount, Fault, Goes, RaiseError
<1>18. CASE RemoveFilesystem
    BY <1>18 DEF RemoveFilesystem, Answers, Answer, Fault, RaiseError, Erase,
        On
<1>19. CASE ReadUsed
    BY <1>19 DEF ReadUsed, Goes, On, RaiseError
<1>20. CASE Resize
    BY <1>20 DEF Resize, Answers, Answer, Fault, RaiseError, On
<1>21. CASE Adopt
    BY <1>21 DEF Adopt, Goes, RaiseOther
<1>22. CASE ClearExport
    BY <1>22 DEF ClearExport, Answers, Answer, Fault, Goes, Swallows, Adopted
<1>23. CASE ClearGroup
    BY <1>23 DEF ClearGroup, Answers, Answer, Fault, Goes, Swallows, Adopted
<1>24. CASE Cleared
    BY <1>24 DEF Cleared, Adopted
<1>25. CASE TakeSnapshot
    BY <1>25 DEF TakeSnapshot, Answers, Answer, Fault, RaiseError, RaiseOther,
        On
<1>26. CASE DropSnapshot
    BY <1>26 DEF DropSnapshot, Answers, Answer, Fault, RaiseError
<1>27. CASE Restore
    BY <1>27 DEF Restore, Answers, Answer, Fault, RaiseError, RaiseOther, On
<1>28. CASE Write
    BY <1>28 DEF Write, On
<1>29. CASE Vanish
    BY <1>29 DEF Vanish, Fault, Erase, On
<1>30. CASE Crash
    BY <1>30 DEF Crash, Fault
<1> QED
    BY <1>0, <1>1, <1>2, <1>3, <1>4, <1>5, <1>6, <1>7, <1>8, <1>9, <1>10,
        <1>11, <1>12, <1>13, <1>14, <1>15, <1>16, <1>17, <1>18, <1>19, <1>20,
        <1>21, <1>22, <1>23, <1>24, <1>25, <1>26, <1>27, <1>28, <1>29, <1>30
       DEF Next, Work, Manila

(***************************************************************************)
(* A snapshot belongs to the share's filesystem and appears and goes with  *)
(* its state in Manila.                                                    *)
(***************************************************************************)
LEMMA SnapStep ==
    TypeOK /\ PlaceInv /\ UidInv /\ StageInv /\ ThereInv /\ SnapInv
    /\ [Next]_vars
        => SnapInv'
<1> SUFFICES ASSUME TypeOK, PlaceInv, UidInv, StageInv, ThereInv, SnapInv,
        [Next]_vars
             PROVE  SnapInv'
    OBVIOUS
<1> USE DEF TypeOK, Name, Level, Call, Place, PlaceInv, UidInv, StageInv,
        ThereInv, SnapInv, NoSnapshots, Ends, fixed, local, disk, snaps,
        access, manager
<1>0. CASE UNCHANGED vars
    BY <1>0 DEF vars
<1>1. ASSUME NEW n \in 1..MaxSize, Create(n) PROVE SnapInv'
    BY <1>1 DEF Create, Start
<1>2. ASSUME NEW n \in 1..MaxSize, Extend(n) PROVE SnapInv'
    BY <1>2 DEF Extend, Start
<1>3. ASSUME NEW n \in 1..MaxSize, Shrink(n) PROVE SnapInv'
    BY <1>3 DEF Shrink, Start
<1>4. CASE Delete
    BY <1>4 DEF Delete, Start
<1>5. CASE Manage
    BY <1>5 DEF Manage, Start
<1>6. CASE Unmanage
    BY <1>6 DEF Unmanage
<1>7. ASSUME NEW s \in Snap, Snapshot(s) PROVE SnapInv'
    BY <1>7 DEF Snapshot, Start
<1>8. ASSUME NEW s \in Snap, Unsnap(s) PROVE SnapInv'
    BY <1>8 DEF Unsnap, Start, Resolve
<1>9. ASSUME NEW s \in Snap, Revert(s) PROVE SnapInv'
    BY <1>9 DEF Revert, Start
<1>10. CASE Govern
    BY <1>10 DEF Govern
<1>11. CASE Remount
    BY <1>11 DEF Remount
<1>12. CASE MakeFilesystem
    BY <1>12 DEF MakeFilesystem, Answers, Answer, Fault, RaiseError, Goes,
        NewFilesystem
<1>13. CASE GroupPolicies
    BY <1>13 DEF GroupPolicies, Fault, RaiseError
<1>14. CASE FindFilesystem
    BY <1>14 DEF FindFilesystem, Goes
<1>15. CASE DetachPolicy
    BY <1>15 DEF DetachPolicy, Answers, Answer, Fault, Goes, Swallows
<1>16. CASE DropPolicy
    BY <1>16 DEF DropPolicy, Answers, Answer, Fault, Goes, Swallows
<1>17. CASE Unmount
    BY <1>17 DEF Unmount, Fault, Goes, RaiseError
<1>18. CASE RemoveFilesystem
    BY <1>18 DEF RemoveFilesystem, Answers, Answer, Fault, RaiseError, Erase,
        On
<1>19. CASE ReadUsed
    BY <1>19 DEF ReadUsed, Goes, On, RaiseError
<1>20. CASE Resize
    BY <1>20 DEF Resize, Answers, Answer, Fault, RaiseError, On
<1>21. CASE Adopt
    BY <1>21 DEF Adopt, Goes, RaiseOther
<1>22. CASE ClearExport
    BY <1>22 DEF ClearExport, Answers, Answer, Fault, Goes, Swallows, Adopted
<1>23. CASE ClearGroup
    BY <1>23 DEF ClearGroup, Answers, Answer, Fault, Goes, Swallows, Adopted
<1>24. CASE Cleared
    BY <1>24 DEF Cleared, Adopted
<1>25. CASE TakeSnapshot
    BY <1>25 DEF TakeSnapshot, Answers, Answer, Fault, RaiseError, RaiseOther,
        On
<1>26. CASE DropSnapshot
    BY <1>26 DEF DropSnapshot, Answers, Answer, Fault, RaiseError
<1>27. CASE Restore
    BY <1>27 DEF Restore, Answers, Answer, Fault, RaiseError, RaiseOther, On
<1>28. CASE Write
    BY <1>28 DEF Write, On
<1>29. CASE Vanish
    BY <1>29 DEF Vanish, Fault, Erase, On
<1>30. CASE Crash
    BY <1>30 DEF Crash, Fault
<1> QED
    BY <1>0, <1>1, <1>2, <1>3, <1>4, <1>5, <1>6, <1>7, <1>8, <1>9, <1>10,
        <1>11, <1>12, <1>13, <1>14, <1>15, <1>16, <1>17, <1>18, <1>19, <1>20,
        <1>21, <1>22, <1>23, <1>24, <1>25, <1>26, <1>27, <1>28, <1>29, <1>30
       DEF Next, Work, Manila

(***************************************************************************)
(* A call that changes the size has changed the capacity before, and one   *)
(* that failed leaves the share in error.                                  *)
(***************************************************************************)
LEMMA CapStep ==
    TypeOK /\ PlaceInv /\ UidInv /\ StageInv /\ CapInv /\ [Next]_vars
        => CapInv'
<1> SUFFICES ASSUME TypeOK, PlaceInv, UidInv, StageInv, CapInv, [Next]_vars
             PROVE  CapInv'
    OBVIOUS
<1> USE GiBAssumption, BoundsAssumption
<1> USE DEF TypeOK, Name, Level, Call, Place, PlaceInv, UidInv, StageInv,
        CapInv, Ends, fixed, local, disk, snaps, access, manager
<1>0. CASE UNCHANGED vars
    BY <1>0 DEF vars
<1>1. ASSUME NEW n \in 1..MaxSize, Create(n) PROVE CapInv'
    BY <1>1 DEF Create, Start
<1>2. ASSUME NEW n \in 1..MaxSize, Extend(n) PROVE CapInv'
    BY <1>2 DEF Extend, Start
<1>3. ASSUME NEW n \in 1..MaxSize, Shrink(n) PROVE CapInv'
    BY <1>3 DEF Shrink, Start
<1>4. CASE Delete
    BY <1>4 DEF Delete, Start
<1>5. CASE Manage
    BY <1>5 DEF Manage, Start
<1>6. CASE Unmanage
    BY <1>6 DEF Unmanage
<1>7. ASSUME NEW s \in Snap, Snapshot(s) PROVE CapInv'
    BY <1>7 DEF Snapshot, Start
<1>8. ASSUME NEW s \in Snap, Unsnap(s) PROVE CapInv'
    BY <1>8 DEF Unsnap, Start
<1>9. ASSUME NEW s \in Snap, Revert(s) PROVE CapInv'
    BY <1>9 DEF Revert, Start
<1>10. CASE Govern
    BY <1>10 DEF Govern
<1>11. CASE Remount
    BY <1>11 DEF Remount
<1>12. CASE MakeFilesystem
    BY <1>12 DEF MakeFilesystem, Answers, Answer, Fault, RaiseError, Goes,
        NewFilesystem
<1>13. CASE GroupPolicies
    BY <1>13 DEF GroupPolicies, Fault, RaiseError
<1>14. CASE FindFilesystem
    BY <1>14 DEF FindFilesystem, Goes
<1>15. CASE DetachPolicy
    BY <1>15 DEF DetachPolicy, Answers, Answer, Fault, Goes, Swallows
<1>16. CASE DropPolicy
    BY <1>16 DEF DropPolicy, Answers, Answer, Fault, Goes, Swallows
<1>17. CASE Unmount
    BY <1>17 DEF Unmount, Fault, Goes, RaiseError
<1>18. CASE RemoveFilesystem
    BY <1>18 DEF RemoveFilesystem, Answers, Answer, Fault, RaiseError, Erase,
        On
<1>19. CASE ReadUsed
    BY <1>19 DEF ReadUsed, Goes, On, RaiseError
<1>20. CASE Resize
    BY <1>20 DEF Resize, Answers, Answer, Fault, RaiseError, On
<1>21. CASE Adopt
    BY <1>21 DEF Adopt, Goes, RaiseOther
<1>22. CASE ClearExport
    BY <1>22 DEF ClearExport, Answers, Answer, Fault, Goes, Swallows, Adopted
<1>23. CASE ClearGroup
    BY <1>23 DEF ClearGroup, Answers, Answer, Fault, Goes, Swallows, Adopted
<1>24. CASE Cleared
    BY <1>24 DEF Cleared, Adopted
<1>25. CASE TakeSnapshot
    BY <1>25 DEF TakeSnapshot, Answers, Answer, Fault, RaiseError, RaiseOther,
        On
<1>26. CASE DropSnapshot
    BY <1>26 DEF DropSnapshot, Answers, Answer, Fault, RaiseError
<1>27. CASE Restore
    BY <1>27 DEF Restore, Answers, Answer, Fault, RaiseError, RaiseOther, On
<1>28. CASE Write
    BY <1>28 DEF Write, On
<1>29. CASE Vanish
    BY <1>29 DEF Vanish, Fault, Erase, On
<1>30. CASE Crash
    BY <1>30 DEF Crash, Fault
<1> QED
    BY <1>0, <1>1, <1>2, <1>3, <1>4, <1>5, <1>6, <1>7, <1>8, <1>9, <1>10,
        <1>11, <1>12, <1>13, <1>14, <1>15, <1>16, <1>17, <1>18, <1>19, <1>20,
        <1>21, <1>22, <1>23, <1>24, <1>25, <1>26, <1>27, <1>28, <1>29, <1>30
       DEF Next, Work, Manila

(***************************************************************************)
(* What the check before a shrinking found holds until somebody writes.    *)
(***************************************************************************)
LEMMA FitStep ==
    TypeOK /\ PlaceInv /\ UidInv /\ FitInv /\ [Next]_vars => FitInv'
<1> SUFFICES ASSUME TypeOK, PlaceInv, UidInv, FitInv, [Next]_vars
             PROVE  FitInv'
    OBVIOUS
<1> USE GiBAssumption, BoundsAssumption
<1> USE DEF TypeOK, Name, Level, Call, Place, PlaceInv, UidInv, FitInv, On,
        Ends, fixed, local, disk, snaps, access, manager
<1>0. CASE UNCHANGED vars
    BY <1>0 DEF vars
<1>1. ASSUME NEW n \in 1..MaxSize, Create(n) PROVE FitInv'
    BY <1>1 DEF Create, Start
<1>2. ASSUME NEW n \in 1..MaxSize, Extend(n) PROVE FitInv'
    BY <1>2 DEF Extend, Start
<1>3. ASSUME NEW n \in 1..MaxSize, Shrink(n) PROVE FitInv'
    BY <1>3 DEF Shrink, Start
<1>4. CASE Delete
    BY <1>4 DEF Delete, Start
<1>5. CASE Manage
    BY <1>5 DEF Manage, Start
<1>6. CASE Unmanage
    BY <1>6 DEF Unmanage
<1>7. ASSUME NEW s \in Snap, Snapshot(s) PROVE FitInv'
    BY <1>7 DEF Snapshot, Start
<1>8. ASSUME NEW s \in Snap, Unsnap(s) PROVE FitInv'
    BY <1>8 DEF Unsnap, Start
<1>9. ASSUME NEW s \in Snap, Revert(s) PROVE FitInv'
    BY <1>9 DEF Revert, Start
<1>10. CASE Govern
    BY <1>10 DEF Govern
<1>11. CASE Remount
    BY <1>11 DEF Remount
<1>12. CASE MakeFilesystem
    BY <1>12 DEF MakeFilesystem, Answers, Answer, Fault, RaiseError, Goes,
        NewFilesystem
<1>13. CASE GroupPolicies
    BY <1>13 DEF GroupPolicies, Fault, RaiseError
<1>14. CASE FindFilesystem
    BY <1>14 DEF FindFilesystem, Goes
<1>15. CASE DetachPolicy
    BY <1>15 DEF DetachPolicy, Answers, Answer, Fault, Goes, Swallows
<1>16. CASE DropPolicy
    BY <1>16 DEF DropPolicy, Answers, Answer, Fault, Goes, Swallows
<1>17. CASE Unmount
    BY <1>17 DEF Unmount, Fault, Goes, RaiseError
<1>18. CASE RemoveFilesystem
    BY <1>18 DEF RemoveFilesystem, Answers, Answer, Fault, RaiseError, Erase
<1>19. CASE ReadUsed
    BY <1>19 DEF ReadUsed, Goes, RaiseError
<1>20. CASE Resize
    BY <1>20 DEF Resize, Answers, Answer, Fault, RaiseError
<1>21. CASE Adopt
    BY <1>21 DEF Adopt, Goes, RaiseOther
<1>22. CASE ClearExport
    BY <1>22 DEF ClearExport, Answers, Answer, Fault, Goes, Swallows, Adopted
<1>23. CASE ClearGroup
    BY <1>23 DEF ClearGroup, Answers, Answer, Fault, Goes, Swallows, Adopted
<1>24. CASE Cleared
    BY <1>24 DEF Cleared, Adopted
<1>25. CASE TakeSnapshot
    BY <1>25 DEF TakeSnapshot, Answers, Answer, Fault, RaiseError, RaiseOther
<1>26. CASE DropSnapshot
    BY <1>26 DEF DropSnapshot, Answers, Answer, Fault, RaiseError
<1>27. CASE Restore
    BY <1>27 DEF Restore, Answers, Answer, Fault, RaiseError, RaiseOther
<1>28. CASE Write
    BY <1>28 DEF Write
<1>29. CASE Vanish
    BY <1>29 DEF Vanish, Fault, Erase
<1>30. CASE Crash
    BY <1>30 DEF Crash, Fault
<1> QED
    BY <1>0, <1>1, <1>2, <1>3, <1>4, <1>5, <1>6, <1>7, <1>8, <1>9, <1>10,
        <1>11, <1>12, <1>13, <1>14, <1>15, <1>16, <1>17, <1>18, <1>19, <1>20,
        <1>21, <1>22, <1>23, <1>24, <1>25, <1>26, <1>27, <1>28, <1>29, <1>30
       DEF Next, Work, Manila

(***************************************************************************)
(* A repeated call meets what the first one did.                           *)
(***************************************************************************)
LEMMA AnswerStep ==
    TypeOK /\ PlaceInv /\ UidInv /\ StageInv /\ ThereInv /\ SnapInv
    /\ LostAnswersAreAbsorbed /\ [Next]_vars
        => LostAnswersAreAbsorbed'
<1> SUFFICES ASSUME TypeOK, PlaceInv, UidInv, StageInv, ThereInv, SnapInv,
        LostAnswersAreAbsorbed, [Next]_vars
             PROVE  LostAnswersAreAbsorbed'
    OBVIOUS
<1> USE DEF TypeOK, Name, Level, Call, Place, PlaceInv, UidInv, StageInv,
        ThereInv, SnapInv, LostAnswersAreAbsorbed, Ends, fixed, local, disk,
        snaps, access, manager
<1>0. CASE UNCHANGED vars
    BY <1>0 DEF vars
<1>1. ASSUME NEW n \in 1..MaxSize, Create(n) PROVE LostAnswersAreAbsorbed'
    BY <1>1 DEF Create, Start
<1>2. ASSUME NEW n \in 1..MaxSize, Extend(n) PROVE LostAnswersAreAbsorbed'
    BY <1>2 DEF Extend, Start
<1>3. ASSUME NEW n \in 1..MaxSize, Shrink(n) PROVE LostAnswersAreAbsorbed'
    BY <1>3 DEF Shrink, Start
<1>4. CASE Delete
    BY <1>4 DEF Delete, Start
<1>5. CASE Manage
    BY <1>5 DEF Manage, Start
<1>6. CASE Unmanage
    BY <1>6 DEF Unmanage
<1>7. ASSUME NEW s \in Snap, Snapshot(s) PROVE LostAnswersAreAbsorbed'
    BY <1>7 DEF Snapshot, Start
<1>8. ASSUME NEW s \in Snap, Unsnap(s) PROVE LostAnswersAreAbsorbed'
    BY <1>8 DEF Unsnap, Start
<1>9. ASSUME NEW s \in Snap, Revert(s) PROVE LostAnswersAreAbsorbed'
    BY <1>9 DEF Revert, Start
<1>10. CASE Govern
    BY <1>10 DEF Govern
<1>11. CASE Remount
    BY <1>11 DEF Remount
<1>12. CASE MakeFilesystem
    BY <1>12 DEF MakeFilesystem, Answers, Answer, Fault, RaiseError, Goes,
        NewFilesystem
<1>13. CASE GroupPolicies
    BY <1>13 DEF GroupPolicies, Fault, RaiseError
<1>14. CASE FindFilesystem
    BY <1>14 DEF FindFilesystem, Goes
<1>15. CASE DetachPolicy
    BY <1>15 DEF DetachPolicy, Answers, Answer, Fault, Goes, Swallows
<1>16. CASE DropPolicy
    BY <1>16 DEF DropPolicy, Answers, Answer, Fault, Goes, Swallows
<1>17. CASE Unmount
    BY <1>17 DEF Unmount, Fault, Goes, RaiseError
<1>18. CASE RemoveFilesystem
    BY <1>18 DEF RemoveFilesystem, Answers, Answer, Fault, RaiseError, Erase,
        On
<1>19. CASE ReadUsed
    BY <1>19 DEF ReadUsed, Goes, On, RaiseError
<1>20. CASE Resize
    BY <1>20 DEF Resize, Answers, Answer, Fault, RaiseError, On
<1>21. CASE Adopt
    BY <1>21 DEF Adopt, Goes, RaiseOther
<1>22. CASE ClearExport
    BY <1>22 DEF ClearExport, Answers, Answer, Fault, Goes, Swallows, Adopted
<1>23. CASE ClearGroup
    BY <1>23 DEF ClearGroup, Answers, Answer, Fault, Goes, Swallows, Adopted
<1>24. CASE Cleared
    BY <1>24 DEF Cleared, Adopted
<1>25. CASE TakeSnapshot
    BY <1>25 DEF TakeSnapshot, Answers, Answer, Fault, RaiseError, RaiseOther,
        On
<1>26. CASE DropSnapshot
    BY <1>26 DEF DropSnapshot, Answers, Answer, Fault, RaiseError
<1>27. CASE Restore
    BY <1>27 DEF Restore, Answers, Answer, Fault, RaiseError, RaiseOther, On
<1>28. CASE Write
    BY <1>28 DEF Write, On
<1>29. CASE Vanish
    BY <1>29 DEF Vanish, Fault, Erase, On
<1>30. CASE Crash
    BY <1>30 DEF Crash, Fault
<1> QED
    BY <1>0, <1>1, <1>2, <1>3, <1>4, <1>5, <1>6, <1>7, <1>8, <1>9, <1>10,
        <1>11, <1>12, <1>13, <1>14, <1>15, <1>16, <1>17, <1>18, <1>19, <1>20,
        <1>21, <1>22, <1>23, <1>24, <1>25, <1>26, <1>27, <1>28, <1>29, <1>30
       DEF Next, Work, Manila

(***************************************************************************)
(* The clearing ends with nothing left, or with an error.                  *)
(***************************************************************************)
LEMMA ClosedStep ==
    TypeOK /\ PlaceInv /\ StageInv /\ AdoptedIsClosed /\ [Next]_vars
        => AdoptedIsClosed'
<1> SUFFICES ASSUME TypeOK, PlaceInv, StageInv, AdoptedIsClosed, [Next]_vars
             PROVE  AdoptedIsClosed'
    OBVIOUS
<1> USE DEF TypeOK, Name, Level, Call, Place, PlaceInv, StageInv,
        AdoptedIsClosed, Ends, fixed, local, disk, snaps, access, manager
<1>0. CASE UNCHANGED vars
    BY <1>0 DEF vars
<1>1. ASSUME NEW n \in 1..MaxSize, Create(n) PROVE AdoptedIsClosed'
    BY <1>1 DEF Create, Start
<1>2. ASSUME NEW n \in 1..MaxSize, Extend(n) PROVE AdoptedIsClosed'
    BY <1>2 DEF Extend, Start
<1>3. ASSUME NEW n \in 1..MaxSize, Shrink(n) PROVE AdoptedIsClosed'
    BY <1>3 DEF Shrink, Start
<1>4. CASE Delete
    BY <1>4 DEF Delete, Start
<1>5. CASE Manage
    BY <1>5 DEF Manage, Start
<1>6. CASE Unmanage
    BY <1>6 DEF Unmanage
<1>7. ASSUME NEW s \in Snap, Snapshot(s) PROVE AdoptedIsClosed'
    BY <1>7 DEF Snapshot, Start
<1>8. ASSUME NEW s \in Snap, Unsnap(s) PROVE AdoptedIsClosed'
    BY <1>8 DEF Unsnap, Start
<1>9. ASSUME NEW s \in Snap, Revert(s) PROVE AdoptedIsClosed'
    BY <1>9 DEF Revert, Start
<1>10. CASE Govern
    BY <1>10 DEF Govern
<1>11. CASE Remount
    BY <1>11 DEF Remount
<1>12. CASE MakeFilesystem
    BY <1>12 DEF MakeFilesystem, Answers, Answer, Fault, RaiseError, Goes,
        NewFilesystem
<1>13. CASE GroupPolicies
    BY <1>13 DEF GroupPolicies, Fault, RaiseError
<1>14. CASE FindFilesystem
    BY <1>14 DEF FindFilesystem, Goes
<1>15. CASE DetachPolicy
    BY <1>15 DEF DetachPolicy, Answers, Answer, Fault, Goes, Swallows
<1>16. CASE DropPolicy
    BY <1>16 DEF DropPolicy, Answers, Answer, Fault, Goes, Swallows
<1>17. CASE Unmount
    BY <1>17 DEF Unmount, Fault, Goes, RaiseError
<1>18. CASE RemoveFilesystem
    BY <1>18 DEF RemoveFilesystem, Answers, Answer, Fault, RaiseError, Erase,
        On
<1>19. CASE ReadUsed
    BY <1>19 DEF ReadUsed, Goes, On, RaiseError
<1>20. CASE Resize
    BY <1>20 DEF Resize, Answers, Answer, Fault, RaiseError, On
<1>21. CASE Adopt
    BY <1>21 DEF Adopt, Goes, RaiseOther
<1>22. CASE ClearExport
    BY <1>22 DEF ClearExport, Answers, Answer, Fault, Goes, Swallows, Adopted
<1>23. CASE ClearGroup
    BY <1>23 DEF ClearGroup, Answers, Answer, Fault, Goes, Swallows, Adopted
<1>24. CASE Cleared
    BY <1>24 DEF Cleared, Adopted
<1>25. CASE TakeSnapshot
    BY <1>25 DEF TakeSnapshot, Answers, Answer, Fault, RaiseError, RaiseOther,
        On
<1>26. CASE DropSnapshot
    BY <1>26 DEF DropSnapshot, Answers, Answer, Fault, RaiseError
<1>27. CASE Restore
    BY <1>27 DEF Restore, Answers, Answer, Fault, RaiseError, RaiseOther, On
<1>28. CASE Write
    BY <1>28 DEF Write, On
<1>29. CASE Vanish
    BY <1>29 DEF Vanish, Fault, Erase, On
<1>30. CASE Crash
    BY <1>30 DEF Crash, Fault
<1> QED
    BY <1>0, <1>1, <1>2, <1>3, <1>4, <1>5, <1>6, <1>7, <1>8, <1>9, <1>10,
        <1>11, <1>12, <1>13, <1>14, <1>15, <1>16, <1>17, <1>18, <1>19, <1>20,
        <1>21, <1>22, <1>23, <1>24, <1>25, <1>26, <1>27, <1>28, <1>29, <1>30
       DEF Next, Work, Manila

-----------------------------------------------------------------------------
(***************************************************************************)
(* Nothing has happened yet: the invariant holds at first.                 *)
(***************************************************************************)
LEMMA InitInv == Init => IInv
<1> SUFFICES ASSUME Init PROVE IInv
    OBVIOUS
<1> USE GiBAssumption, BoundsAssumption DEF Init, Name, Level
<1>1. TypeOK
    <2>1. PICK there \in Space :
            /\ uid = [n \in Name |-> IF n = "own" /\ there # 0 THEN 1 ELSE 0]
            /\ cap = [n \in Name |-> IF n = "own" THEN there ELSE 0]
        BY DEF Space
    <2>2. 0 \in Space /\ there \in Space
        BY SizeFits DEF Space
    <2>3. uid \in [Name -> Nat] /\ cap \in [Name -> Space]
        BY <2>1, <2>2
    <2>4. /\ used \in [Name -> Space] /\ saved \in [Snap -> Space]
          /\ kept \in [Snap -> Nat]
          /\ snap \in [Snap -> {"none", "available", "error", "deleted"}]
        BY <2>2
    <2>5. FlagsOK
        BY Zenon DEF FlagsOK
    <2>6. RestOK
        BY <2>3, <2>4 DEF RestOK, Call, Place
    <2> QED
        BY <2>5, <2>6, Types
<1>2. PlaceInv /\ ThereInv /\ MountInv /\ PolicyInv
    BY DEF PlaceInv, ThereInv, MountInv, PolicyInv
<1>3. UidInv /\ StageInv
    BY DEF UidInv, StageInv
<1>4. SnapInv /\ CapInv /\ FitInv
    BY DEF SnapInv, CapInv, FitInv
<1>5. LostAnswersAreAbsorbed /\ AdoptedIsClosed
    BY DEF LostAnswersAreAbsorbed, AdoptedIsClosed
<1> QED
    BY <1>1, <1>2, <1>3, <1>4, <1>5 DEF IInv

(***************************************************************************)
(* Every step keeps the invariant.                                         *)
(***************************************************************************)
LEMMA StepInv == IInv /\ [Next]_vars => IInv'
<1>1. IInv /\ [Next]_vars => FlagsOK' /\ RestOK'
    BY FlagsStep, RestStep DEF IInv
<1>2. FlagsOK' /\ RestOK' => TypeOK'
    BY DEF TypeOK, FlagsOK, RestOK
<1> QED
    BY <1>1, <1>2, PlaceStep, UidStep, StageStep, ThereStep,
       MountStep, PolicyStep, SnapStep, CapStep, FitStep, AnswerStep,
       ClosedStep
       DEF IInv

(***************************************************************************)
(* So the invariant holds in every state.                                  *)
(***************************************************************************)
THEOREM Invariance == Spec => []IInv
    BY InitInv, StepInv, PTL DEF Spec

(***************************************************************************)
(* Every variable keeps its type.                                          *)
(***************************************************************************)
THEOREM TypeCorrect == Spec => []TypeOK
<1>1. IInv => TypeOK
    BY DEF IInv
<1> QED
    BY <1>1, Invariance, PTL

(***************************************************************************)
(* A share shown as deleted has left nothing: its policies go before its   *)
(* mount, and that before its filesystem, or else the delete fails.        *)
(***************************************************************************)
THEOREM DeletedLeavesNothing == Spec => []DeletedIsGone
<1>1. IInv => DeletedIsGone
    BY DEF IInv, ThereInv, MountInv, PolicyInv, DeletedIsGone
<1> QED
    BY <1>1, Invariance, PTL

(***************************************************************************)
(* An available share has the capacity Manila shows, repeated calls or not. *)
(***************************************************************************)
THEOREM CapacityFollowsSize == Spec => []SizeAgrees
<1>1. IInv => SizeAgrees
    BY DEF IInv, ThereInv, CapInv, SizeAgrees
<1> QED
    BY <1>1, Invariance, PTL

(***************************************************************************)
(* Every snapshot on the cluster is one that Manila knows.                 *)
(***************************************************************************)
THEOREM NoSnapshotIsLost == Spec => []SnapshotsAreKnown
<1>1. IInv => SnapshotsAreKnown
    BY DEF IInv, SnapInv, SnapshotsAreKnown
<1> QED
    BY <1>1, Invariance, PTL

(***************************************************************************)
(* A lost answer fails no call but create_snapshot.                        *)
(***************************************************************************)
THEOREM RepeatedCallsSucceed == Spec => []LostAnswersAreAbsorbed
<1>1. IInv => LostAnswersAreAbsorbed
    BY DEF IInv
<1> QED
    BY <1>1, Invariance, PTL

(***************************************************************************)
(* An adopted share starts with nobody let in, unless its clearing failed. *)
(***************************************************************************)
THEOREM AdoptedHasNoAccess == Spec => []AdoptedIsClosed
<1>1. IInv => AdoptedIsClosed
    BY DEF IInv
<1> QED
    BY <1>1, Invariance, PTL

(***************************************************************************)
(* No shrink takes space in use, but one that clients raced: a growing     *)
(* resizing leaves room, and a shrinking one was checked.                  *)
(***************************************************************************)
THEOREM ShrinkIsSafe == Spec => ShrinkKeepsData
<1> DEFINE Keeps == \A n \in Name :
          (cap'[n] < cap[n] /\ uid'[n] # 0 /\ used'[n] > cap'[n])
            => "raced" \in odd
<1>1. IInv /\ [Next]_vars => [Keeps]_vars
    <2> SUFFICES ASSUME IInv, [Next]_vars,
                        NEW n \in Name, cap'[n] < cap[n], uid'[n] # 0,
                        used'[n] > cap'[n]
                 PROVE  "raced" \in odd
        BY DEF Keeps
    <2> USE GiBAssumption, BoundsAssumption
    <2>1. TypeOK /\ UidInv /\ PlaceInv /\ StageInv /\ CapInv /\ FitInv
        BY DEF IInv
    <2>2. /\ cap' # cap /\ cap[n] \in Nat /\ uid \in [Name -> Nat]
          /\ cap \in [Name -> Space] /\ used \in [Name -> Space]
        BY <2>1 DEF TypeOK, Space
    <2>3. MakeFilesystem \/ RemoveFilesystem \/ Resize \/ Vanish
        BY <2>2, Zenon DEF Next, Work, Manila, Create, Extend, Shrink, Delete,
           Manage, Unmanage, Snapshot, Unsnap, Revert, Govern, Remount, Start,
           GroupPolicies, FindFilesystem, DetachPolicy, DropPolicy, Unmount,
           ReadUsed, Adopt, ClearExport, ClearGroup, Cleared, TakeSnapshot,
           DropSnapshot, Restore, Write, Crash, vars, disk
    <2>4. CASE MakeFilesystem
        <3>1. cap'[n] = cap[n] \/ used'[n] = 0
            BY <2>2, <2>4 DEF MakeFilesystem, NewFilesystem, Answers, disk
        <3>2. cap'[n] = cap[n] \/ cap'[n] \in Nat
            BY <2>1, <2>2, <2>4, SizeFits
               DEF MakeFilesystem, NewFilesystem, Answers, disk, TypeOK, Space
        <3> QED
            BY <2>2, <3>1, <3>2
    <2>5. CASE RemoveFilesystem \/ Vanish
        <3>1. cap'[n] = cap[n] \/ uid'[n] = 0
            BY <2>2, <2>5 DEF RemoveFilesystem, Vanish, Answers, Erase, disk
        <3> QED
            BY <2>2, <3>1
    <2>6. CASE Resize
        <3>1. /\ pc = "resize" /\ n \in On(found) /\ used' = used
              /\ cap'[n] = arg * GiB /\ arg \in 0..MaxSize
            BY <2>1, <2>2, <2>6 DEF Resize, Answers, TypeOK
        <3>2. /\ status = "available" /\ found = loc.uid /\ uid[n] = loc.uid
              /\ loc.uid # 0 /\ call \in {"extend", "shrink"}
            BY <2>1, <3>1 DEF PlaceInv, StageInv, On
        <3>3. CASE call = "shrink"
            BY <2>1, <2>2, <3>1, <3>3, SizeFits DEF FitInv, Space
        <3>4. CASE call = "extend"
            <4>1. n = loc.name /\ arg > size /\ size \in 0..MaxSize
                BY <2>1, <3>1, <3>2, <3>4 DEF UidInv, FitInv, TypeOK, Name
            <4>2. \/ cap[n] = size * GiB
                  \/ size = WholeGiB(cap[n])
                BY <2>1, <3>2, <4>1 DEF CapInv
            <4>3. cap[n] <= arg * GiB
                <5>1. CASE cap[n] = size * GiB
                    BY <3>1, <4>1, <5>1
                <5>2. CASE size = WholeGiB(cap[n])
                    BY <2>2, <3>1, <4>1, <5>2, WholeIsBelow
                <5> QED
                    BY <4>2, <5>1, <5>2
            <4> QED
                BY <2>2, <3>1, <4>3
        <3> QED
            BY <3>2, <3>3, <3>4
    <2> QED
        BY <2>3, <2>4, <2>5, <2>6
<1> QED
    BY <1>1, Invariance, PTL DEF Spec, ShrinkKeepsData

-----------------------------------------------------------------------------
(***************************************************************************)
(* The share looks like the contract.  What that takes besides the         *)
(* invariant: a filesystem has a capacity, and nothing is written where    *)
(* there is none; sizes asked for are positive; only a share that the      *)
(* driver created gets as far as a deletion of its filesystem.             *)
(***************************************************************************)
VolumeInv ==
    /\ \A n \in Name : uid[n] = 0 => cap[n] = 0 /\ used[n] = 0
    /\ \A n \in Name : uid[n] # 0 => cap[n] # 0
    /\ (call = "create" /\ (pc # "idle" \/ status = "error")) => size # 0
    /\ pc \in {"read", "resize"} => arg # 0
    /\ pc \in {"detach", "drop", "unmount", "remove"} => loc.name = "gen"
    /\ pc = "take" => snap[cur] = "none"

(***************************************************************************)
(* A size that is not zero is a capacity that is not zero.                 *)
(***************************************************************************)
LEMMA SizeIsRoom ==
    ASSUME NEW n \in Nat, n # 0 PROVE n * GiB \in Nat \ {0}
<1> USE GiBAssumption
<1>1. n * GiB >= GiB
    OBVIOUS
<1> QED
    BY <1>1

(***************************************************************************)
(* Which steps change a filesystem, a size, or what the manager asks for.  *)
(***************************************************************************)
LEMMA DiskFrame ==
    ASSUME [Next]_vars
    PROVE  \/ UNCHANGED <<uid, cap, used>>
           \/ MakeFilesystem \/ RemoveFilesystem \/ Resize \/ Restore
           \/ Write \/ Vanish
BY Zenon DEF Next, Work, Manila, Create, Extend, Shrink, Delete, Manage,
   Unmanage, Snapshot, Unsnap, Revert, Govern, Remount, Start, GroupPolicies,
   FindFilesystem, DetachPolicy, DropPolicy, Unmount, ReadUsed, Adopt,
   ClearExport, ClearGroup, Cleared, TakeSnapshot, DropSnapshot, Crash, vars,
   disk

(***************************************************************************)
(* The volume invariant holds at first ...                                 *)
(***************************************************************************)
LEMMA VolumeInit == Init => VolumeInv
BY GiBAssumption, BoundsAssumption DEF Init, VolumeInv, Name

(***************************************************************************)
(* ... and every step keeps it.                                            *)
(***************************************************************************)
LEMMA VolumeStep ==
    TypeOK /\ PlaceInv /\ UidInv /\ VolumeInv /\ [Next]_vars => VolumeInv'
<1> SUFFICES ASSUME TypeOK, PlaceInv, UidInv, VolumeInv, [Next]_vars
             PROVE  VolumeInv'
    OBVIOUS
<1>1. \A n \in Name : /\ uid'[n] = 0 => cap'[n] = 0 /\ used'[n] = 0
                      /\ uid'[n] # 0 => cap'[n] # 0
    <2> SUFFICES ASSUME NEW n \in Name
                 PROVE  /\ uid'[n] = 0 => cap'[n] = 0 /\ used'[n] = 0
                        /\ uid'[n] # 0 => cap'[n] # 0
        OBVIOUS
    <2> USE DEF TypeOK, VolumeInv, PlaceInv
    <2>1. CASE UNCHANGED <<uid, cap, used>>
        BY <2>1
    <2>2. CASE MakeFilesystem
        <3>1. size * GiB \in Nat \ {0}
            BY <2>2, SizeIsRoom, BoundsAssumption DEF MakeFilesystem
        <3> QED
            BY <2>2, <3>1 DEF MakeFilesystem, NewFilesystem, Answers, disk
    <2>3. CASE RemoveFilesystem \/ Vanish
        BY <2>3 DEF RemoveFilesystem, Vanish, Answers, Erase, On, disk
    <2>4. CASE Resize
        <3>1. arg * GiB \in Nat \ {0}
            BY <2>4, SizeIsRoom, BoundsAssumption DEF Resize
        <3>2. uid' = uid /\ used' = used
            BY <2>4 DEF Resize
        <3>3. cap'[n] = cap[n] \/ (cap'[n] = arg * GiB /\ n \in On(found))
            BY <2>4 DEF Resize, Answers
        <3> QED
            BY <3>1, <3>2, <3>3 DEF On
    <2>5. CASE Restore
        BY <2>5 DEF Restore, Answers, On
    <2>6. CASE Write
        BY <2>6 DEF Write, On
    <2> QED
        BY DiskFrame, <2>1, <2>2, <2>3, <2>4, <2>5, <2>6
<1>2. (call' = "create" /\ (pc' # "idle" \/ status' = "error")) => size' # 0
    <2> USE DEF VolumeInv, PlaceInv
    <2>1. CASE \E n \in 1..MaxSize : Create(n)
        BY <2>1, BoundsAssumption DEF Create, Start
    <2>2. CASE \/ \E n \in 1..MaxSize : Extend(n) \/ Shrink(n)
               \/ \E s \in Snap : Snapshot(s) \/ Unsnap(s) \/ Revert(s)
               \/ Delete \/ Manage
        BY <2>2 DEF Extend, Shrink, Snapshot, Unsnap, Revert, Delete, Manage,
           Start
    <2>3. CASE UNCHANGED <<call, pc, status, size>>
        BY <2>3
    <2>4. CASE Work \/ Crash
        <3>1. call' = call
            BY <2>4, Zenon DEF Work, MakeFilesystem, GroupPolicies,
               FindFilesystem, DetachPolicy, DropPolicy, Unmount,
               RemoveFilesystem, ReadUsed, Resize, Adopt, ClearExport,
               ClearGroup, Cleared, TakeSnapshot,
               DropSnapshot, Restore, Crash, fixed
        <3>2. pc # "idle"
            BY <2>4, Zenon DEF Work, MakeFilesystem, GroupPolicies,
               FindFilesystem, DetachPolicy, DropPolicy, Unmount,
               RemoveFilesystem, ReadUsed, Resize, Adopt, ClearExport,
               ClearGroup, Cleared, TakeSnapshot,
               DropSnapshot, Restore, Crash
        <3>3. size' = size \/ Resize \/ pc \in {"adopt", "clear"}
            BY <2>4, Zenon DEF Work, MakeFilesystem, GroupPolicies,
               FindFilesystem, DetachPolicy, DropPolicy, Unmount,
               RemoveFilesystem, ReadUsed, Adopt, ClearExport, ClearGroup,
               Cleared, TakeSnapshot,
               DropSnapshot, Restore, Crash
        <3>4. Resize => pc = "resize"
            BY DEF Resize
        <3> QED
            BY <3>1, <3>2, <3>3, <3>4
    <2>5. CASE \/ UNCHANGED vars \/ Unmanage \/ Govern \/ Remount
               \/ Write \/ Vanish
        BY <2>5 DEF vars, Unmanage, Govern, Remount, Write, Vanish, fixed,
           manager
    <2> QED
        BY <2>1, <2>2, <2>3, <2>4, <2>5 DEF Next, Manila
<1>3. pc' \in {"read", "resize"} => arg' # 0
    <2> USE DEF VolumeInv
    <2>1. CASE \E n \in 1..MaxSize : Create(n) \/ Extend(n) \/ Shrink(n)
        BY <2>1, BoundsAssumption DEF Create, Extend, Shrink, Start
    <2>2. CASE \/ \E s \in Snap : Snapshot(s) \/ Unsnap(s) \/ Revert(s)
               \/ Delete \/ Manage
        BY <2>2 DEF Snapshot, Unsnap, Revert, Delete, Manage, Start
    <2>3. CASE Work \/ Crash
        <3>1. pc' \in {"read", "resize"} => ReadUsed
            BY <2>3 DEF Work, MakeFilesystem, GroupPolicies, FindFilesystem,
               DetachPolicy, DropPolicy, Unmount, RemoveFilesystem,
               Resize, Adopt, ClearExport, ClearGroup, Cleared, TakeSnapshot,
               DropSnapshot, Restore, Crash, Goes, Ends, RaiseError,
               RaiseOther, Adopted
        <3> QED
            BY <3>1 DEF ReadUsed, local
    <2>4. CASE \/ UNCHANGED vars \/ Unmanage \/ Govern \/ Remount
               \/ Write \/ Vanish
        BY <2>4 DEF vars, Unmanage, Govern, Remount, Write, Vanish, local
    <2> QED
        BY <2>1, <2>2, <2>3, <2>4 DEF Next, Manila
<1>4. pc' \in {"detach", "drop", "unmount", "remove"} => loc'.name = "gen"
    <2> USE DEF VolumeInv
    <2>2. CASE FindFilesystem
        BY <2>2 DEF FindFilesystem, Ends, UidInv, TypeOK, Name
    <2>3. CASE Manila
        BY <2>3 DEF Manila, Create, Extend, Shrink, Delete, Manage, Unmanage,
           Snapshot, Unsnap, Revert, Govern, Remount, Start
    <2>4. CASE DetachPolicy \/ DropPolicy \/ Unmount \/ RemoveFilesystem
        BY <2>4 DEF DetachPolicy, DropPolicy, Unmount, RemoveFilesystem
    <2>5. CASE \/ MakeFilesystem \/ GroupPolicies \/ ReadUsed \/ Resize
               \/ Adopt \/ ClearExport \/ ClearGroup \/ Cleared
               \/ TakeSnapshot \/ DropSnapshot \/ Restore \/ Crash
        BY <2>5 DEF MakeFilesystem, GroupPolicies, ReadUsed, Resize, Adopt,
           ClearExport, ClearGroup, Cleared, TakeSnapshot, DropSnapshot,
           Restore, Crash, Goes, Ends, RaiseError, RaiseOther, Adopted
    <2>6. CASE UNCHANGED vars \/ Write \/ Vanish
        BY <2>6 DEF vars, Write, Vanish, manager
    <2> QED
        BY <2>2, <2>3, <2>4, <2>5, <2>6 DEF Next, Work
<1>5. pc' = "take" => snap'[cur'] = "none"
    <2> USE DEF VolumeInv
    <2>1. CASE \E s \in Snap : Snapshot(s) \/ Unsnap(s) \/ Revert(s)
        BY <2>1 DEF Snapshot, Unsnap, Revert, Start
    <2>2. CASE \/ \E n \in 1..MaxSize : Create(n) \/ Extend(n) \/ Shrink(n)
               \/ Delete \/ Manage
        BY <2>2 DEF Create, Extend, Shrink, Delete, Manage, Start
    <2>3. CASE Work \/ Crash
        BY <2>3 DEF Work, MakeFilesystem, GroupPolicies, FindFilesystem,
           DetachPolicy, DropPolicy, Unmount, RemoveFilesystem, ReadUsed,
           Resize, Adopt, ClearExport, ClearGroup, Cleared, TakeSnapshot,
           DropSnapshot, Restore, Crash, Goes, Ends, RaiseError, RaiseOther,
           Adopted
    <2>4. CASE \/ UNCHANGED vars \/ Unmanage \/ Govern \/ Remount
               \/ Write \/ Vanish
        BY <2>4 DEF vars, Unmanage, Govern, Remount, Write, Vanish, local,
           manager
    <2> QED
        BY <2>1, <2>2, <2>3, <2>4 DEF Next, Manila
<1> QED
    BY <1>1, <1>2, <1>3, <1>4, <1>5 DEF VolumeInv

(***************************************************************************)
(* The share's location names its filesystem, and no other.                *)
(***************************************************************************)
LEMMA OwnVolume ==
    ASSUME TypeOK, UidInv, NEW n \in On(loc.uid)
    PROVE  n = loc.name /\ loc.uid # 0
BY DEF TypeOK, UidInv, On, Name

(***************************************************************************)
(* A step that touches nothing of the view is a stutter of the contract.   *)
(***************************************************************************)
LEMMA ViewStutters ==
    ASSUME UNCHANGED <<status, size, loc, snap, call, cur>>,
           UNCHANGED <<cap, used, kept, saved>>,
           pc = "idle" <=> pc' = "idle",
           arg' = arg \/ call = "manage",
           "raced" \in odd <=> "raced" \in odd',
           "vanished" \in odd <=> "vanished" \in odd'
    PROVE  UNCHANGED Contract!vars
<1>1. Origin' = Origin /\ Doing' = Doing /\ Goal' = Goal
    BY DEF Origin, Doing, Goal, Created
<1>2. Room' = Room /\ Data' = Data /\ Taken' = Taken /\ Held' = Held
    BY DEF Room, Data, Taken, Held
<1>3. ("raced" \in odd)' = ("raced" \in odd)
      /\ ("vanished" \in odd)' = ("vanished" \in odd)
    OBVIOUS
<1> QED
    BY <1>1, <1>2, <1>3, Zenon DEF Contract!vars

(***************************************************************************)
(* What a call in progress ends with is what the contract's call ends with.*)
(***************************************************************************)
LEMMA EndsAlike ==
    ASSUME NEW st, NEW how, Ends(st, how), pc # "idle", call # "nothing",
           UNCHANGED <<call, cur>>, arg' = arg \/ call = "manage",
           "raced" \in odd <=> "raced" \in odd',
           "vanished" \in odd <=> "vanished" \in odd'
    PROVE  Contract!Ends(st)
<1>1. Doing = call /\ Doing' = "nothing" /\ Goal' = Goal
    BY DEF Doing, Goal, Ends
<1>2. ("raced" \in odd)' = ("raced" \in odd)
      /\ ("vanished" \in odd)' = ("vanished" \in odd)
    OBVIOUS
<1>3. IF call \in {"snapshot", "unsnap"}
      THEN snap' = [snap EXCEPT ![cur] = st] /\ UNCHANGED status
      ELSE status' = st /\ UNCHANGED snap
    BY DEF Ends
<1> QED
    BY <1>1, <1>2, <1>3, Zenon DEF Contract!Ends

(***************************************************************************)
(* A call that raises, or is cut short, having changed nothing fails.      *)
(***************************************************************************)
LEMMA FailsAlike ==
    ASSUME NEW how, Ends("error", how), pc # "idle", call \in Call,
           UNCHANGED <<call, cur, size, loc>>, arg' = arg \/ call = "manage",
           UNCHANGED <<cap, used, kept, saved>>,
           "raced" \in odd <=> "raced" \in odd',
           "vanished" \in odd <=> "vanished" \in odd'
    PROVE  Contract!Fails
<1>1. Contract!Ends("error")
    BY EndsAlike DEF Call
<1>2. Room' = Room /\ Data' = Data /\ Taken' = Taken /\ Held' = Held
      /\ Origin' = Origin
    BY DEF Room, Data, Taken, Held, Origin, Created
<1> QED
    BY <1>1, <1>2, Zenon DEF Contract!Fails, Contract!volume

(***************************************************************************)
(* The manager's calls are asked for in the same states.                   *)
(***************************************************************************)
LEMMA AskAlike ==
    ASSUME TypeOK, NEW c, NEW place, Start(c, place), place # "idle",
           arg' \in Nat, cur' \in Snap
    PROVE  Contract!Ask(c)
<1>1. Doing = "nothing" /\ Doing' = c
    BY DEF Doing, Start
<1>2. Goal' \in Nat
    BY DEF Goal
<1>3. /\ ("raced" \in odd)' = FALSE
      /\ ("vanished" \in odd)' = ("vanished" \in odd)
    BY DEF Start
<1>4. Room' = Room /\ Data' = Data /\ Taken' = Taken /\ Held' = Held
      /\ Origin' = Origin /\ status' = status /\ snap' = snap
    BY DEF Start, Room, Data, Taken, Held, Origin, Created, disk, snaps
<1> QED
    BY <1>1, <1>2, <1>3, <1>4, Zenon DEF Contract!Ask, Contract!volume

(***************************************************************************)
(* What the manager asks for is asked for in the contract.                 *)
(***************************************************************************)
LEMMA ManilaKeepsContract ==
    ASSUME TypeOK, Manila PROVE [Contract!Next]_(Contract!vars)
<1> USE DEF TypeOK
<1>1. ASSUME NEW n \in 1..MaxSize, Create(n) PROVE Contract!Next
    <2>1. Contract!Ask("create")
        BY <1>1, AskAlike DEF Create, local
    <2>2. \/ status = "none" /\ size' \in Nat \ {0}
          \/ status = "error" /\ UNCHANGED size
        BY <1>1, BoundsAssumption DEF Create
    <2> QED
        BY <2>1, <2>2, Zenon DEF Contract!Next, Contract!AskCreate
<1>2. ASSUME NEW n \in 1..MaxSize, Extend(n) PROVE Contract!Next
    <2>1. Contract!Ask("extend")
        BY <1>2, BoundsAssumption, AskAlike DEF Extend
    <2>2. status = "available" /\ Goal' > size /\ size' = size
        BY <1>2 DEF Extend, Start, Goal
    <2> QED
        BY <2>1, <2>2 DEF Contract!Next, Contract!AskResize
<1>3. ASSUME NEW n \in 1..MaxSize, Shrink(n) PROVE Contract!Next
    <2>1. Contract!Ask("shrink")
        BY <1>3, BoundsAssumption, AskAlike DEF Shrink
    <2>2. status = "available" /\ Goal' < size /\ Goal' > 0 /\ size' = size
        BY <1>3 DEF Shrink, Start, Goal
    <2> QED
        BY <2>1, <2>2 DEF Contract!Next, Contract!AskResize
<1>4. CASE Delete
    <2>1. Contract!Ask("delete")
        BY <1>4, AskAlike DEF Delete, local
    <2>2. status \in {"available", "error"} /\ NoSnapshots /\ size' = size
        BY <1>4 DEF Delete
    <2> QED
        BY <2>1, <2>2, Zenon
           DEF Contract!Next, Contract!AskDelete, Contract!NoneKnown,
               NoSnapshots
<1>5. CASE Manage
    <2>1. Contract!Ask("manage")
        BY <1>5, AskAlike DEF Manage, local
    <2> QED
        BY <1>5, <2>1, Zenon DEF Manage, Contract!Next, Contract!AskManage
<1>6. CASE Unmanage
    <2>1. Doing = "nothing" /\ Doing' = Doing /\ Goal' = Goal
          /\ Origin' = Origin
        BY <1>6 DEF Unmanage, Doing, Goal, Origin, Created, fixed, local
    <2>2. Room' = Room /\ Data' = Data /\ Taken' = Taken /\ Held' = Held
        BY <1>6 DEF Unmanage, Room, Data, Taken, Held, disk, snaps
    <2>3. /\ status = "available" /\ NoSnapshots /\ status' = "unmanaged"
          /\ UNCHANGED <<size, snap, odd, cur>>
        BY <1>6 DEF Unmanage, local
    <2> QED
        BY <2>1, <2>2, <2>3, Zenon
           DEF Contract!Next, Contract!Unmanage, Contract!NoneKnown,
               Contract!asked, Contract!volume, NoSnapshots
<1>7. ASSUME NEW s \in Snap, Snapshot(s) PROVE Contract!Next
    <2>1. Contract!Ask("snapshot")
        BY <1>7, AskAlike DEF Snapshot
    <2> QED
        BY <1>7, <2>1, Zenon
           DEF Snapshot, Contract!Next, Contract!AskSnapshot
<1>8. ASSUME NEW s \in Snap, Unsnap(s) PROVE Contract!Next
    <2>1. Contract!Ask("unsnap")
        BY <1>8, AskAlike DEF Unsnap
    <2> QED
        BY <1>8, <2>1, Zenon
           DEF Unsnap, Contract!Next, Contract!AskSnapshot
<1>9. ASSUME NEW s \in Snap, Revert(s) PROVE Contract!Next
    <2>1. Contract!Ask("revert")
        BY <1>9, AskAlike DEF Revert
    <2> QED
        BY <1>9, <2>1, Zenon
           DEF Revert, Contract!Next, Contract!AskSnapshot
<1>10. CASE Govern \/ Remount
    <2>1. UNCHANGED Contract!vars
        BY <1>10, ViewStutters DEF Govern, Remount, fixed, local, disk, snaps
    <2> QED
        BY <2>1
<1> QED
    BY <1>1, <1>2, <1>3, <1>4, <1>5, <1>6, <1>7, <1>8, <1>9, <1>10 DEF Manila

(***************************************************************************)
(* create_share: the filesystem is the effect, also of a repeated call.    *)
(***************************************************************************)
LEMMA CreateKeepsContract ==
    ASSUME IInv, VolumeInv, MakeFilesystem \/ GroupPolicies
    PROVE  [Contract!Next]_(Contract!vars)
<1> USE DEF IInv, TypeOK
<1>1. /\ call = "create" /\ pc # "idle" /\ status \in {"none", "error"}
      /\ loc.uid = 0 /\ loc.name = "gen"
      /\ call' = call /\ size' = size /\ odd' = odd /\ arg' = arg /\ cur' = cur
    BY DEF MakeFilesystem, GroupPolicies, PlaceInv, StageInv, UidInv, fixed,
       local
<1>2. CASE RaiseError /\ UNCHANGED <<loc, cap, used, kept, saved>>
    BY <1>1, <1>2, FailsAlike DEF RaiseError, Contract!Next, Call
<1>3. CASE MakeFilesystem /\ NewFilesystem /\ uid["gen"] = 0
    <2>1. Room = 0 /\ Room' = size * GiB /\ Data' = 0
        BY <1>1, <1>3
           DEF MakeFilesystem, NewFilesystem, Room, Data, VolumeInv, Name
    <2>2. Taken' = Taken /\ Held' = Held /\ Origin' = Origin /\ loc' = loc
        BY <1>3 DEF MakeFilesystem, Taken, Held, Origin, Created, snaps
    <2>3. Doing = "create"
        BY <1>1 DEF Doing
    <2>4. Contract!Provide
        BY <2>1, <2>2, Zenon DEF Contract!Provide
    <2>5. CASE Goes("group")
        <3>1. Doing' = Doing /\ Goal' = Goal /\ UNCHANGED <<status, snap>>
            BY <1>1, <2>5 DEF Goes, Doing, Goal
        <3> QED
            BY <1>1, <2>2, <2>3, <2>4, <3>1, Zenon
               DEF Contract!Next, Contract!Works, Contract!manila,
                   Contract!asked
    <2>6. CASE RaiseError
        <3>1. Contract!Ends("error")
            BY <1>1, <2>6, EndsAlike DEF RaiseError
        <3> QED
            BY <1>1, <2>2, <2>3, <2>4, <3>1, Zenon
               DEF Contract!Next, Contract!Fails, Contract!Effect
    <2> QED
        BY <1>3, <2>5, <2>6 DEF MakeFilesystem
<1>4. CASE MakeFilesystem /\ UNCHANGED disk /\ Goes("group")
    <2>1. UNCHANGED Contract!vars
        BY <1>1, <1>4, ViewStutters DEF MakeFilesystem, Goes, disk, snaps
    <2> QED
        BY <2>1
<1>5. CASE GroupPolicies /\ Ends("available", "fine")
    <2>1. Contract!Ends("available")
        BY <1>1, <1>5, EndsAlike
    <2>2. Origin' = Origin /\ Room = size * GiB /\ Room' = Room
          /\ Data' = Data /\ Taken' = Taken /\ Held' = Held
        BY <1>1, <1>5 DEF GroupPolicies, Origin, Created, Room, Data, Taken,
           Held, CapInv, StageInv, disk, snaps
    <2>3. Doing = "create"
        BY <1>1 DEF Doing
    <2> QED
        BY <1>1, <2>1, <2>2, <2>3, Zenon
           DEF Contract!Next, Contract!Created, Contract!volume
<1>6. GroupPolicies =>
          \/ Ends("available", "fine")
          \/ RaiseError /\ UNCHANGED <<loc, cap, used, kept, saved>>
    BY DEF GroupPolicies, disk, snaps
<1>7. MakeFilesystem =>
          \/ RaiseError /\ UNCHANGED <<loc, cap, used, kept, saved>>
          \/ NewFilesystem /\ uid["gen"] = 0
          \/ UNCHANGED disk /\ Goes("group")
    BY DEF MakeFilesystem, Answers, Answer, disk, snaps
<1> QED
    BY <1>2, <1>3, <1>4, <1>5, <1>6, <1>7

(***************************************************************************)
(* delete_share: what it passes on the way to the filesystem is not seen.  *)
(***************************************************************************)
LEMMA DeleteKeepsContract ==
    ASSUME IInv, VolumeInv,
           \/ FindFilesystem \/ DetachPolicy \/ DropPolicy \/ Unmount
           \/ RemoveFilesystem
    PROVE  [Contract!Next]_(Contract!vars)
<1> USE DEF IInv, TypeOK
<1>1. /\ call = "delete" /\ pc # "idle"
      /\ call' = call /\ size' = size /\ arg' = arg /\ cur' = cur /\ loc' = loc
      /\ "raced" \in odd <=> "raced" \in odd'
      /\ "vanished" \in odd <=> "vanished" \in odd'
    <2> USE DEF PlaceInv, fixed, local
    <2>1. CASE FindFilesystem \/ Unmount \/ RemoveFilesystem
        BY <2>1 DEF FindFilesystem, Unmount, RemoveFilesystem
    <2>2. odd' = odd \/ odd' = odd \cup {"swallowed"}
        BY DEF FindFilesystem, DetachPolicy, DropPolicy, Unmount,
           RemoveFilesystem, Swallows
    <2>3. CASE DetachPolicy \/ DropPolicy
        BY <2>2, <2>3 DEF DetachPolicy, DropPolicy
    <2> QED
        BY <2>1, <2>3
<1>2. Doing = "delete" /\ Origin' = Origin
    BY <1>1 DEF Doing, Origin, Created
<1>3. Taken = {} /\ Held = [s \in Snap |-> 0]
    <2>1. NoSnapshots
        BY <1>1 DEF SnapInv
    <2>2. \A s \in Snap : kept[s] = 0
        BY <2>1 DEF SnapInv, NoSnapshots
    <2> QED
        BY <2>2 DEF Taken, Held
<1>4. CASE UNCHANGED <<cap, used, kept, saved, status, snap>> /\ pc' # "idle"
    <2>1. UNCHANGED Contract!vars
        BY <1>1, <1>4, ViewStutters
    <2> QED
        BY <2>1
<1>5. CASE RaiseError /\ UNCHANGED <<cap, used, kept, saved>>
    BY <1>1, <1>5, FailsAlike DEF RaiseError, Contract!Next, Call
<1>6. CASE FindFilesystem /\ uid["gen"] = 0
    <2>1. Contract!Ends("deleted")
        BY <1>1, <1>6, EndsAlike DEF FindFilesystem
    <2>2. Room' = Room /\ Data' = Data /\ Taken' = Taken /\ Held' = Held
        BY <1>1, <1>6 DEF FindFilesystem, Room, Data, Taken, Held, disk, snaps
    <2>3. Origin = "created" => Room = 0 /\ Data = 0
        BY <1>6 DEF Origin, Created, Room, Data, VolumeInv, Name
    <2>4. Origin \in {"created", "adopted"}
        BY DEF Origin
    <2>5. Origin = "created" => Contract!Empty
        BY <1>3, <2>2, <2>3, Zenon DEF Contract!Empty
    <2> QED
        BY <1>1, <1>2, <2>1, <2>2, <2>4, <2>5, Zenon
           DEF Contract!Next, Contract!Deleted, Contract!volume
<1>7. CASE RemoveFilesystem /\ Erase(found)
    <2>1. loc.name = "gen"
        BY <1>7 DEF RemoveFilesystem, VolumeInv
    <2>2. Room' = 0 /\ Data' = 0
        BY <1>1, <1>7, <2>1
           DEF RemoveFilesystem, StageInv, Erase, On, Room, Data, VolumeInv,
               Name
    <2>3. \A s \in Snap : kept[s] = 0
        BY <1>3 DEF Taken
    <2>4. \A s \in Snap : kept'[s] = 0
        BY <1>7, <2>3 DEF Erase
    <2>5. Taken' = {} /\ Held' = [s \in Snap |-> 0]
        BY <2>4 DEF Taken, Held
    <2>6. Contract!Empty
        BY <2>2, <2>5, Zenon DEF Contract!Empty
    <2>7. Origin = "created"
        BY <2>1 DEF Origin, Created
    <2>8. CASE RaiseError
        <3>1. Contract!Ends("error")
            BY <1>1, <2>8, EndsAlike DEF RaiseError
        <3> QED
            BY <1>1, <1>2, <2>6, <2>7, <3>1, Zenon
               DEF Contract!Next, Contract!Fails, Contract!Effect
    <2>9. CASE Ends("deleted", "fine")
        <3>1. Contract!Ends("deleted")
            BY <1>1, <2>9, EndsAlike
        <3> QED
            BY <1>1, <1>2, <2>6, <2>7, <3>1, Zenon
               DEF Contract!Next, Contract!Deleted
    <2> QED
        BY <1>7, <2>8, <2>9 DEF RemoveFilesystem
<1>8. DetachPolicy \/ DropPolicy =>
          UNCHANGED <<cap, used, kept, saved, status, snap>> /\ pc' # "idle"
    BY DEF DetachPolicy, DropPolicy, Goes, disk, snaps
<1>9. Unmount =>
          \/ UNCHANGED <<cap, used, kept, saved, status, snap>> /\ pc' # "idle"
          \/ RaiseError /\ UNCHANGED <<cap, used, kept, saved>>
    BY DEF Unmount, Goes, disk, snaps
<1>10. FindFilesystem =>
          \/ UNCHANGED <<cap, used, kept, saved, status, snap>> /\ pc' # "idle"
          \/ uid["gen"] = 0
    BY DEF FindFilesystem, Goes, disk, snaps
<1>11. RemoveFilesystem =>
          \/ Erase(found)
          \/ RaiseError /\ UNCHANGED <<cap, used, kept, saved>>
    BY DEF RemoveFilesystem, Answers, disk, snaps
<1> QED
    BY <1>4, <1>5, <1>6, <1>7, <1>8, <1>9, <1>10, <1>11

(***************************************************************************)
(* extend_share and shrink_share.                                          *)
(***************************************************************************)
LEMMA ResizeKeepsContract ==
    ASSUME IInv, VolumeInv, ReadUsed \/ Resize
    PROVE  [Contract!Next]_(Contract!vars)
<1> USE GiBAssumption, BoundsAssumption DEF IInv, TypeOK
<1>1. /\ call \in {"extend", "shrink"} /\ pc \in {"read", "resize"}
      /\ status = "available" /\ arg # 0
      /\ call' = call /\ odd' = odd /\ arg' = arg /\ cur' = cur /\ loc' = loc
    BY DEF ReadUsed, Resize, PlaceInv, VolumeInv, fixed, local
<1>2. Doing = call /\ Goal = arg /\ Origin' = Origin
    BY <1>1 DEF Doing, Origin, Created, Goal
<1>3. ASSUME NEW n \in On(found)
      PROVE  n = loc.name /\ uid[n] = loc.uid /\ found = loc.uid /\ Room # 0
    BY <1>1, <1>3, OwnVolume DEF StageInv, On, Room, VolumeInv
<1>4. CASE RaiseError /\ UNCHANGED <<size, cap, used, kept, saved>>
    BY <1>1, <1>4, FailsAlike DEF RaiseError, Contract!Next, Call
<1>5. CASE ReadUsed /\ Goes("resize")
    <2>1. UNCHANGED Contract!vars
        BY <1>1, <1>5, ViewStutters DEF ReadUsed, Goes, disk, snaps
    <2> QED
        BY <2>1
<1>6. CASE ReadUsed /\ (\E n \in On(found) : used[n] > arg * GiB)
                    /\ Ends("available", "fine")
    <2>1. Contract!Ends("available")
        BY <1>1, <1>6, EndsAlike
    <2>2. Data > Goal * GiB
        BY <1>2, <1>3, <1>6 DEF Data
    <2>3. Room' = Room /\ Data' = Data /\ Taken' = Taken /\ Held' = Held
          /\ size' = size /\ call = "shrink"
        BY <1>1, <1>6
           DEF ReadUsed, Room, Data, Taken, Held, disk, snaps, PlaceInv
    <2> QED
        BY <1>2, <2>1, <2>2, <2>3, Zenon
           DEF Contract!Next, Contract!Refused, Contract!volume
<1>7. CASE Resize /\ On(found) # {} /\
           cap' = [n \in Name |-> IF n \in On(found) THEN arg * GiB
                                  ELSE cap[n]]
    <2>1. PICK n \in On(found) : TRUE
        BY <1>7
    <2>2. n = loc.name /\ uid[n] = loc.uid /\ found = loc.uid /\ Room # 0
          /\ n \in Name
        BY <1>3, <2>1 DEF On
    <2>3. Room' = Goal * GiB /\ Data' = Data /\ Taken' = Taken /\ Held' = Held
        BY <1>1, <1>2, <1>7, <2>2
           DEF Resize, Room, Data, Taken, Held, snaps
    <2>4. call = "extend" => Room' > Room
        <3> SUFFICES ASSUME call = "extend" PROVE Room' > Room
            OBVIOUS
        <3>1. pc = "resize" /\ arg > size /\ arg \in Nat /\ size \in Nat
            BY <1>7 DEF Resize, FitInv
        <3>2. Room = size * GiB \/ size = WholeGiB(Room)
            BY <1>1, <2>2 DEF CapInv, Room
        <3>3. Room' = arg * GiB /\ Room \in Space
            BY <1>2, <2>2, <2>3 DEF Room
        <3>4. CASE Room = size * GiB
            BY <3>1, <3>3, <3>4
        <3>5. CASE size = WholeGiB(Room)
            BY <3>1, <3>3, <3>5, WholeIsBelow
        <3> QED
            BY <3>2, <3>4, <3>5
    <2>5. call = "shrink" => Data <= Room' \/ "raced" \in odd
        BY <1>2, <1>7, <2>1, <2>2, <2>3 DEF Resize, FitInv, Data
    <2>6. Contract!Fit
        BY <1>2, <2>2, <2>3, <2>4, <2>5 DEF Contract!Fit
    <2>7. CASE RaiseError /\ size' = size
        <3>1. Contract!Ends("error")
            BY <1>1, <2>7, EndsAlike DEF RaiseError
        <3> QED
            BY <1>1, <1>2, <2>6, <2>7, <3>1, Zenon
               DEF Contract!Next, Contract!Fails, Contract!Effect
    <2>8. CASE Ends("available", "fine") /\ size' = arg
        <3>1. Contract!Ends("available")
            BY <1>1, <2>8, EndsAlike
        <3> QED
            BY <1>1, <1>2, <2>6, <2>8, <3>1, Zenon
               DEF Contract!Next, Contract!Resized
    <2> QED
        BY <1>7, <2>7, <2>8 DEF Resize
<1>8. ReadUsed =>
          \/ RaiseError /\ UNCHANGED <<size, cap, used, kept, saved>>
          \/ Goes("resize")
          \/ /\ \E n \in On(found) : used[n] > arg * GiB
             /\ Ends("available", "fine")
    BY DEF ReadUsed, disk, snaps
<1>9. Resize =>
          \/ RaiseError /\ UNCHANGED <<size, cap, used, kept, saved>>
          \/ On(found) # {} /\
             cap' = [n \in Name |-> IF n \in On(found) THEN arg * GiB
                                    ELSE cap[n]]
    BY DEF Resize, Answers, snaps
<1> QED
    BY <1>4, <1>5, <1>6, <1>7, <1>8, <1>9

(***************************************************************************)
(* manage_existing: the clearing is not seen, and the adoption is.         *)
(***************************************************************************)
LEMMA ManageKeepsContract ==
    ASSUME IInv, VolumeInv, Adopt \/ ClearExport \/ ClearGroup \/ Cleared
    PROVE  [Contract!Next]_(Contract!vars)
<1> USE DEF IInv, TypeOK
<1>1. /\ call = "manage" /\ pc # "idle" /\ status = "none"
      /\ call' = call /\ cur' = cur
      /\ "raced" \in odd <=> "raced" \in odd'
      /\ "vanished" \in odd <=> "vanished" \in odd'
      /\ UNCHANGED <<cap, used, kept, saved>>
    <2>1. odd' = odd \/ odd' = odd \cup {"swallowed"}
        BY DEF Adopt, ClearExport, ClearGroup, Cleared, Swallows
    <2>2. /\ call = "manage" /\ pc # "idle" /\ status = "none"
          /\ call' = call /\ cur' = cur /\ UNCHANGED <<cap, used, kept, saved>>
        BY DEF Adopt, ClearExport, ClearGroup, Cleared, PlaceInv, fixed,
           local, disk, snaps
    <2> QED
        BY <2>1, <2>2
<1>2. CASE Goes("clear") /\ UNCHANGED <<loc, size>>
    <2>1. UNCHANGED Contract!vars
        BY <1>1, <1>2, ViewStutters DEF Goes
    <2> QED
        BY <2>1
<1>3. CASE RaiseOther /\ UNCHANGED <<loc, size>>
    BY <1>1, <1>3, FailsAlike DEF RaiseOther, Contract!Next, Call
<1>4. CASE Adopted /\ pc = "clear"
    <2>1. Contract!Ends("available")
        BY <1>1, <1>4, EndsAlike DEF Adopted
    <2>2. loc.name = "gen" /\ uid["gen"] = 0 /\ uid["own"] # 0
          /\ arg = WholeGiB(cap["own"])
        BY <1>1, <1>4 DEF StageInv, UidInv
    <2>3. Room = 0 /\ Room' = cap["own"] /\ Data' = used["own"]
        BY <1>1, <1>4, <2>2 DEF Room, Data, Adopted, VolumeInv, Name
    <2>4. cap["own"] \in Nat \ {0} /\ used["own"] \in Nat
        BY <2>2, GiBAssumption, BoundsAssumption DEF VolumeInv, Name, Space
    <2>5. Taken' = Taken /\ Held' = Held
        BY <1>1 DEF Taken, Held
    <2>6. Origin' = "adopted" /\ Doing = "manage"
        BY <1>1, <1>4 DEF Adopted, Origin, Created, Doing
    <2>7. size' = Contract!WholeGiB(Room')
        BY <1>4, <2>2, <2>3, Zenon DEF Adopted, WholeGiB, Contract!WholeGiB
    <2> QED
        BY <2>1, <2>3, <2>4, <2>5, <2>6, <2>7, Zenon
           DEF Contract!Next, Contract!Adopted
<1>5. Adopt => (Goes("clear") \/ RaiseOther) /\ UNCHANGED <<loc, size>>
    BY DEF Adopt
<1>6. ClearExport \/ ClearGroup \/ Cleared =>
          \/ Goes("clear") /\ UNCHANGED <<loc, size>>
          \/ Adopted /\ pc = "clear"
    BY Zenon DEF ClearExport, ClearGroup, Cleared
<1> QED
    BY <1>2, <1>3, <1>4, <1>5, <1>6

(***************************************************************************)
(* create_snapshot, delete_snapshot and revert_to_snapshot.                *)
(***************************************************************************)
LEMMA SnapshotKeepsContract ==
    ASSUME IInv, VolumeInv, TakeSnapshot \/ DropSnapshot \/ Restore
    PROVE  [Contract!Next]_(Contract!vars)
<1> USE DEF IInv, TypeOK
<1>1. /\ call \in {"snapshot", "unsnap", "revert"} /\ pc # "idle"
      /\ UNCHANGED <<call, size, arg, odd, cur, loc, cap, uid>>
      /\ Doing = call /\ Origin' = Origin /\ Room' = Room
    BY DEF TakeSnapshot, DropSnapshot, Restore, PlaceInv, fixed, local, disk,
       Doing, Origin, Created, Room
<1>2. CASE (RaiseError \/ RaiseOther) /\ UNCHANGED <<used, kept, saved>>
    BY <1>1, <1>2, FailsAlike DEF RaiseError, RaiseOther, Contract!Next, Call
<1>3. ASSUME NEW n \in On(found), pc \in {"take", "restore"}
      PROVE  n = loc.name /\ found = loc.uid /\ found # 0 /\ Room # 0
             /\ n \in Name
    BY <1>1, <1>3, OwnVolume DEF StageInv, On, Room, VolumeInv
<1>4. ASSUME RaiseError \/ RaiseOther, Contract!Effect
      PROVE  Contract!Next
    <2>1. Contract!Ends("error")
        BY <1>1, <1>4, EndsAlike DEF RaiseError, RaiseOther
    <2> QED
        BY <1>1, <1>4, <2>1, Zenon DEF Contract!Next, Contract!Fails
<1>5. ASSUME NEW n \in On(found), TakeSnapshot,
             kept' = [kept EXCEPT ![cur] = found],
             saved' = [saved EXCEPT ![cur] = used[n]]
      PROVE  Contract!Next
    <2>1. n = loc.name /\ found # 0 /\ Room # 0 /\ call = "snapshot"
        BY <1>3, <1>5 DEF TakeSnapshot, PlaceInv
    <2>2. kept[cur] = 0
        BY <1>5 DEF TakeSnapshot, VolumeInv, SnapInv
    <2>3. Data' = Data /\ Data = used[n]
        BY <1>1, <1>5, <2>1 DEF TakeSnapshot, disk, Data
    <2>4. cur \notin Taken /\ Taken' = Taken \cup {cur}
        BY <1>5, <2>1, <2>2 DEF Taken
    <2>5. Held' = [Held EXCEPT ![cur] = Data]
        BY <1>5, <2>1, <2>2, <2>3 DEF Held
    <2>6. Contract!Copy
        BY <1>1, <2>1, <2>3, <2>4, <2>5, Zenon DEF Contract!Copy
    <2>7. CASE RaiseError \/ RaiseOther
        BY <1>1, <1>4, <2>1, <2>6, <2>7, Zenon DEF Contract!Effect
    <2>8. CASE Ends("available", "fine")
        <3>1. Contract!Ends("available")
            BY <1>1, <2>8, EndsAlike
        <3> QED
            BY <1>1, <2>1, <2>6, <3>1, Zenon
               DEF Contract!Next, Contract!Snapped
    <2> QED
        BY <1>5, <2>7, <2>8 DEF TakeSnapshot
<1>6. ASSUME DropSnapshot,
             kept' = [kept EXCEPT ![cur] = 0]
      PROVE  Contract!Next
    <2>1. call = "unsnap" /\ saved' = saved /\ Data' = Data
        BY <1>1, <1>6 DEF DropSnapshot, PlaceInv, disk, Data
    <2>2. Taken' = Taken \ {cur}
        BY <1>6 DEF Taken
    <2>3. Held' = [Held EXCEPT ![cur] = 0]
        BY <1>6, <2>1 DEF Held
    <2>4. Contract!Uncopy
        BY <1>1, <2>1, <2>2, <2>3, Zenon DEF Contract!Uncopy
    <2>5. CASE RaiseError
        BY <1>1, <1>4, <2>1, <2>4, <2>5, Zenon DEF Contract!Effect
    <2>6. CASE Ends("deleted", "fine")
        <3>1. Contract!Ends("deleted")
            BY <1>1, <2>6, EndsAlike
        <3> QED
            BY <1>1, <2>1, <2>4, <3>1, Zenon
               DEF Contract!Next, Contract!Snapped
    <2> QED
        BY <1>6, <2>5, <2>6 DEF DropSnapshot
<1>7. ASSUME NEW n \in On(found), Restore, kept[cur] = found,
             used' = [used EXCEPT ![n] = saved[cur]]
      PROVE  Contract!Next
    <2>1. n = loc.name /\ found # 0 /\ call = "revert" /\ n \in Name
        BY <1>3, <1>7 DEF Restore, PlaceInv
    <2>2. cur \in Taken /\ Held[cur] = saved[cur]
        BY <1>7, <2>1 DEF Taken, Held
    <2>3. Data' = saved[cur] /\ Taken' = Taken /\ Held' = Held
        BY <1>1, <1>7, <2>1 DEF Restore, Data, Taken, Held, snaps
    <2>4. Contract!GoBack
        BY <1>1, <2>1, <2>2, <2>3, Zenon DEF Contract!GoBack
    <2>5. CASE RaiseError \/ RaiseOther
        BY <1>1, <1>4, <2>1, <2>4, <2>5, Zenon DEF Contract!Effect
    <2>6. CASE Ends("available", "fine")
        <3>1. Contract!Ends("available")
            BY <1>1, <2>6, EndsAlike
        <3> QED
            BY <1>1, <2>1, <2>4, <3>1, Zenon
               DEF Contract!Next, Contract!Snapped
    <2> QED
        BY <1>7, <2>5, <2>6 DEF Restore
<1>8. TakeSnapshot =>
          \/ (RaiseError \/ RaiseOther) /\ UNCHANGED <<used, kept, saved>>
          \/ \E n \in On(found) : /\ kept' = [kept EXCEPT ![cur] = found]
                                  /\ saved' = [saved EXCEPT ![cur] = used[n]]
    BY DEF TakeSnapshot, Answers, disk, snaps
<1>9. DropSnapshot =>
          \/ RaiseError /\ UNCHANGED <<used, kept, saved>>
          \/ kept' = [kept EXCEPT ![cur] = 0]
    BY DEF DropSnapshot, Answers, disk, SnapInv
<1>10. Restore =>
          \/ (RaiseError \/ RaiseOther) /\ UNCHANGED <<used, kept, saved>>
          \/ /\ kept[cur] = found
             /\ \E n \in On(found) : used' = [used EXCEPT ![n] = saved[cur]]
    BY DEF Restore, Answers, snaps
<1> QED
    BY <1>2, <1>5, <1>6, <1>7, <1>8, <1>9, <1>10

(***************************************************************************)
(* What happens to a share meanwhile.                                      *)
(***************************************************************************)
LEMMA WorldKeepsContract ==
    ASSUME IInv, VolumeInv, Write \/ Vanish \/ Crash
    PROVE  [Contract!Next]_(Contract!vars)
<1> USE DEF IInv, TypeOK
<1>1. CASE Write
    <2>1. PICK n \in On(loc.uid) :
              used[n] + GiB <= cap[n] /\ used' = [used EXCEPT ![n] = @ + GiB]
        BY <1>1 DEF Write
    <2>2. n = loc.name /\ n \in Name
        BY <2>1, OwnVolume DEF On
    <2>3. Data' \in Nat /\ Data' > Data /\ Data' <= Room
        <3>1. used[n] \in Nat /\ cap[n] \in Nat
            BY <2>2, GiBAssumption, BoundsAssumption DEF Space
        <3>2. Data = used[n] /\ Data' = used[n] + GiB /\ Room = cap[n]
            BY <1>1, <2>1, <2>2 DEF Data, Room, Write, manager
        <3> QED
            BY <2>1, <3>1, <3>2, GiBAssumption
    <2>4. Data' = used'[loc.name] /\ Room' = Room /\ Taken' = Taken
          /\ Held' = Held /\ Origin' = Origin /\ Doing' = Doing /\ Goal' = Goal
        BY <1>1 DEF Write, Data, Room, Taken, Held, Origin, Created, Doing,
           Goal, manager, snaps, local
    <2>5. ("raced" \in odd)' \in {"raced" \in odd, TRUE}
          /\ ("vanished" \in odd)' = ("vanished" \in odd)
        <3>1. odd' = odd \/ odd' = odd \cup {"raced"}
            BY <1>1 DEF Write
        <3>2. /\ "vanished" \in odd' <=> "vanished" \in odd
              /\ "raced" \in odd => "raced" \in odd'
            BY <3>1
        <3>3. ("vanished" \in odd)' = ("vanished" \in odd)
            BY <3>2
        <3>4. CASE "raced" \in odd'
            <4>1. ("raced" \in odd)' = TRUE
                BY <3>4
            <4> QED
                BY <3>3, <4>1, Zenon
        <3>5. CASE "raced" \notin odd'
            <4>1. ("raced" \in odd)' = ("raced" \in odd)
                BY <3>2, <3>5
            <4> QED
                BY <3>3, <4>1, Zenon
        <3> QED
            BY <3>4, <3>5
    <2>6. UNCHANGED <<status, size, snap, cur>>
        BY <1>1 DEF Write, manager, local
    <2>7. Contract!Write
        BY <2>3, <2>4, <2>5, <2>6
           DEF Contract!Write, Contract!manila, Contract!asked
    <2> QED
        BY <2>7 DEF Contract!Next
<1>2. CASE Vanish
    <2>1. PICK n \in On(loc.uid) : TRUE
        BY <1>2 DEF Vanish
    <2>2. n = loc.name /\ loc.name \in On(loc.uid) /\ n \in Name
        BY <2>1, OwnVolume DEF On
    <2>3. Room # 0
        BY <2>2 DEF Room, VolumeInv, On
    <2>4. Room' = 0 /\ Data' = 0
        BY <1>2, <2>2 DEF Vanish, Erase, Room, Data, manager
    <2>5. \A s \in Snap : kept'[s] = 0
        BY <1>2 DEF Vanish, Erase, SnapInv
    <2>6. Taken' = {} /\ Held' = [s \in Snap |-> 0]
        BY <2>5 DEF Taken, Held
    <2>7. /\ ("vanished" \in odd)' = TRUE
          /\ ("raced" \in odd)' = ("raced" \in odd)
        BY <1>2 DEF Vanish
    <2>8. UNCHANGED <<status, size, snap, cur>> /\ Origin' = Origin
          /\ Doing' = Doing /\ Goal' = Goal
        BY <1>2 DEF Vanish, manager, local, Origin, Created, Doing, Goal
    <2> QED
        BY <2>3, <2>4, <2>6, <2>7, <2>8, Zenon
           DEF Contract!Next, Contract!Lose, Contract!Empty, Contract!manila,
               Contract!asked
<1>3. CASE Crash
    BY <1>3, FailsAlike
       DEF Crash, Contract!Next, fixed, local, disk, snaps
<1> QED
    BY <1>1, <1>2, <1>3

(***************************************************************************)
(* At first there is no share and no volume of it.                         *)
(***************************************************************************)
LEMMA ContractInit == Init => Contract!Init
<1> SUFFICES ASSUME Init PROVE Contract!Init
    OBVIOUS
<1>1. Origin = "created" /\ Doing = "nothing" /\ Goal = 0
    BY DEF Init, Origin, Created, Doing, Goal
<1>2. Room = 0 /\ Data = 0 /\ Taken = {} /\ Held = [s \in Snap |-> 0]
    BY DEF Init, Room, Data, Taken, Held, Name
<1>3. ("raced" \in odd) = FALSE /\ ("vanished" \in odd) = FALSE
    BY DEF Init
<1> QED
    BY <1>1, <1>2, <1>3, Zenon DEF Init, Contract!Init

(***************************************************************************)
(* Every step of the life cycle is one of the contract, or is not seen.    *)
(***************************************************************************)
LEMMA ContractStep ==
    IInv /\ VolumeInv /\ [Next]_vars => [Contract!Next]_(Contract!vars)
<1> SUFFICES ASSUME IInv, VolumeInv, [Next]_vars
             PROVE  [Contract!Next]_(Contract!vars)
    OBVIOUS
<1>1. CASE UNCHANGED vars
    <2>1. UNCHANGED Contract!vars
        BY <1>1, ViewStutters DEF vars
    <2> QED
        BY <2>1
<1>2. CASE Work
    BY <1>2, CreateKeepsContract, DeleteKeepsContract, ResizeKeepsContract,
       ManageKeepsContract, SnapshotKeepsContract DEF Work
<1>3. CASE Manila
    BY <1>3, ManilaKeepsContract DEF IInv
<1>4. CASE Write \/ Vanish \/ Crash
    BY <1>4, WorldKeepsContract
<1> QED
    BY <1>1, <1>2, <1>3, <1>4 DEF Next

(***************************************************************************)
(* The life cycle implements the contract (driver.py 1730).                *)
(***************************************************************************)
THEOREM KeepsContract == Spec => Implements
<1>1. IInv /\ VolumeInv /\ [Next]_vars => VolumeInv'
    BY VolumeStep DEF IInv
<1> QED
    BY <1>1, Invariance, VolumeInit, ContractInit, ContractStep, PTL
       DEF Spec, Implements, Contract!Spec

\* The inductive invariant of the contract.
Promise ==
    /\ Room \in Nat /\ Data \in Nat /\ size \in Nat /\ Goal \in Nat
    /\ Held \in [Snap -> Nat] /\ cur \in Snap /\ Taken \subseteq Snap
    /\ Room = 0 => Data = 0 /\ Taken = {}
    /\ Doing = "shrink" => Goal > 0
    /\ \A s \in Taken : snap[s] \in {"available", "error"}
    /\ snap \in [Snap -> {"none", "available", "error", "deleted"}]
    /\ Doing = "delete" => Contract!NoneKnown
    /\ status = "deleted" => /\ Doing = "nothing"
                             /\ Origin = "created" => Room = 0

\* The calls the manager makes.
Asks ==
    \/ Contract!AskCreate \/ Contract!AskManage \/ Contract!AskDelete
    \/ Contract!AskResize \/ Contract!AskSnapshot

(***************************************************************************)
(* The contract's invariant holds at first ...                             *)
(***************************************************************************)
LEMMA PromiseInit == Contract!Init => Promise
BY DEF Contract!Init, Promise

(***************************************************************************)
(* No effect leaves data or snapshots without a volume.                    *)
(***************************************************************************)
LEMMA EffectKeeps ==
    ASSUME Promise, Contract!Effect
    PROVE  /\ Room' \in Nat /\ Data' \in Nat /\ Held' \in [Snap -> Nat]
           /\ Taken' \subseteq Snap
           /\ Room' = 0 => Data' = 0 /\ Taken' = {}
           /\ \/ Taken' \subseteq Taken
              \/ Taken' = Taken \cup {cur} /\ Doing = "snapshot"
<1> USE GiBAssumption DEF Promise
<1>1. CASE Contract!Provide
    BY <1>1 DEF Contract!Provide
<1>2. CASE Contract!Empty
    BY <1>2 DEF Contract!Empty
<1>3. CASE Contract!Fit /\ Doing \in {"extend", "shrink"}
    <2>1. Room' # 0
        <3>1. CASE Doing = "extend"
            BY <1>3, <3>1 DEF Contract!Fit
        <3>2. CASE Doing = "shrink"
            BY <1>3, <3>2, SizeIsRoom DEF Contract!Fit
        <3> QED
            BY <1>3, <3>1, <3>2
    <2> QED
        BY <1>3, <2>1 DEF Contract!Fit
<1>4. CASE Contract!Copy /\ Doing = "snapshot"
    BY <1>4 DEF Contract!Copy
<1>5. CASE Contract!Uncopy
    BY <1>5 DEF Contract!Uncopy
<1>6. CASE Contract!GoBack
    BY <1>6 DEF Contract!GoBack
<1> QED
    BY <1>1, <1>2, <1>3, <1>4, <1>5, <1>6 DEF Contract!Effect

(***************************************************************************)
(* ... and every step of the contract keeps it.                            *)
(***************************************************************************)
LEMMA PromiseStep ==
    Promise /\ [Contract!Next]_(Contract!vars) => Promise'
<1> SUFFICES ASSUME Promise, [Contract!Next]_(Contract!vars)
             PROVE  Promise'
    OBVIOUS
<1> USE GiBAssumption DEF Promise
<1>1. CASE UNCHANGED Contract!vars
    BY <1>1 DEF Contract!vars, Contract!NoneKnown
<1>2. CASE Asks
    <2>1. /\ UNCHANGED <<status, Origin, snap, Room, Data, Taken, Held>>
          /\ size' \in Nat /\ Goal' \in Nat /\ cur' \in Snap
        BY <1>2 DEF Asks, Contract!AskCreate, Contract!AskManage,
           Contract!AskDelete, Contract!AskResize, Contract!AskSnapshot,
           Contract!Ask, Contract!volume
    <2>2. /\ Doing' = "shrink" => Goal' > 0
          /\ Doing' = "delete" => Contract!NoneKnown
          /\ status # "deleted"
        BY <1>2 DEF Asks, Contract!AskCreate, Contract!AskManage,
           Contract!AskDelete, Contract!AskResize, Contract!AskSnapshot,
           Contract!Ask
    <2> QED
        BY <2>1, <2>2 DEF Contract!NoneKnown
<1>3. CASE Contract!Works
    BY <1>3 DEF Contract!Works, Contract!Provide, Contract!manila,
       Contract!asked, Contract!NoneKnown
<1>4. ASSUME NEW st \in {"available", "error", "deleted"}, Contract!Ends(st)
      PROVE  /\ Goal' = Goal /\ cur' = cur /\ Doing' = "nothing"
             /\ Doing \in {"snapshot", "unsnap"} =>
                   snap' = [snap EXCEPT ![cur] = st] /\ status' = status
             /\ Doing \notin {"snapshot", "unsnap"} =>
                   snap' = snap /\ status' = st
             /\ Doing # "nothing"
    BY <1>4, Zenon DEF Contract!Ends
<1>5. CASE Contract!Fails
    <2>1. Contract!Ends("error") /\ UNCHANGED <<size, Origin>>
        BY <1>5 DEF Contract!Fails
    <2>2. /\ Room' \in Nat /\ Data' \in Nat /\ Held' \in [Snap -> Nat]
          /\ Taken' \subseteq Snap
          /\ Room' = 0 => Data' = 0 /\ Taken' = {}
          /\ \/ Taken' \subseteq Taken
             \/ Taken' = Taken \cup {cur} /\ Doing = "snapshot"
        BY <1>4, <1>5, <2>1, EffectKeeps DEF Contract!Fails, Contract!volume
    <2> QED
        BY <1>4, <2>1, <2>2
<1>6. CASE Contract!Created \/ Contract!Refused
    <2>1. /\ Contract!Ends("available") /\ Doing \in {"create", "shrink"}
          /\ UNCHANGED <<size, Origin, Room, Data, Taken, Held>>
        BY <1>6 DEF Contract!Created, Contract!Refused, Contract!volume
    <2> QED
        BY <1>4, <2>1
<1>7. CASE Contract!Deleted
    <2>1. Contract!Ends("deleted") /\ UNCHANGED <<size, Origin>>
          /\ Doing = "delete"
        BY <1>7 DEF Contract!Deleted
    <2>2. CASE Origin = "created" /\ Contract!Empty
        BY <1>4, <2>1, <2>2 DEF Contract!Empty
    <2>3. CASE Origin = "adopted" /\ UNCHANGED <<Room, Data, Taken, Held>>
        BY <1>4, <2>1, <2>3
    <2> QED
        BY <1>7, <2>2, <2>3 DEF Contract!Deleted, Contract!volume
<1>8. CASE Contract!Resized
    <2>1. /\ Contract!Ends("available") /\ Contract!Effect
          /\ UNCHANGED Origin /\ size' = Goal
          /\ Doing \in {"extend", "shrink"}
        BY <1>8 DEF Contract!Resized, Contract!Effect
    <2> QED
        BY <1>4, <2>1, EffectKeeps
<1>9. CASE Contract!Adopted
    <2>1. /\ Contract!Ends("available") /\ Doing = "manage"
          /\ Room = 0 /\ Room' \in Nat \ {0} /\ Data' \in Nat
          /\ UNCHANGED <<Taken, Held>> /\ size' = Contract!WholeGiB(Room')
        BY <1>9 DEF Contract!Adopted
    <2>2. ASSUME NEW c \in Nat PROVE c \div GiB \in Nat
        BY <2>2
    <2>3. size' \in Nat
        BY <2>1, <2>2 DEF Contract!WholeGiB
    <2> QED
        BY <1>4, <2>1, <2>3
<1>10. CASE Contract!Snapped
    <2>1. /\ UNCHANGED <<size, Origin>> /\ Contract!Effect
        BY <1>10 DEF Contract!Snapped, Contract!Effect
    <2>2. CASE Contract!Ends("available") /\ Doing \in {"snapshot", "revert"}
        <3>1. /\ Room' \in Nat /\ Data' \in Nat /\ Held' \in [Snap -> Nat]
              /\ Taken' \subseteq Snap
              /\ Room' = 0 => Data' = 0 /\ Taken' = {}
              /\ \/ Taken' \subseteq Taken
                 \/ Taken' = Taken \cup {cur} /\ Doing = "snapshot"
            BY <1>4, <2>1, <2>2, EffectKeeps
        <3> QED
            BY <1>4, <2>1, <2>2, <3>1
    <2>3. CASE /\ Contract!Ends("deleted") /\ Contract!Uncopy
               /\ Doing = "unsnap"
        BY <1>4, <2>1, <2>3 DEF Contract!Uncopy
    <2> QED
        BY <1>10, <2>2, <2>3 DEF Contract!Snapped
<1>11. CASE Contract!Unmanage
    BY <1>11 DEF Contract!Unmanage, Contract!asked, Contract!volume,
       Contract!NoneKnown
<1>12. CASE Contract!Write
    <2>1. /\ Data' \in Nat /\ Data' > Data /\ Data' <= Room
          /\ UNCHANGED <<Room, Taken, Held, status, size, Origin, snap, Doing,
                         Goal, cur>>
        BY <1>12 DEF Contract!Write, Contract!manila, Contract!asked
    <2> QED
        BY <2>1 DEF Contract!NoneKnown
<1>13. CASE Contract!Lose
    BY <1>13 DEF Contract!Lose, Contract!Empty, Contract!manila,
       Contract!asked, Contract!NoneKnown
<1> QED
    BY <1>1, <1>2, <1>3, <1>5, <1>6, <1>7, <1>8, <1>9, <1>10, <1>11, <1>12,
       <1>13 DEF Contract!Next, Asks

(***************************************************************************)
(* So the contract's invariant holds wherever the contract does.           *)
(***************************************************************************)
LEMMA PromiseKept == Spec => []Promise /\ [][Contract!Next]_(Contract!vars)
BY KeepsContract, PromiseInit, PromiseStep, PTL DEF Implements, Contract!Spec

(***************************************************************************)
(* What a step of the contract can take away.                              *)
(***************************************************************************)
LEMMA NothingElseGoes ==
    Promise /\ [Contract!Next]_(Contract!vars) =>
        /\ (Room # 0 /\ Room' = 0) =>
              Contract!Deletion \/ ("vanished" \in odd)'
        /\ Data' < Data =>
              Contract!Deletion \/ Doing = "revert" \/ ("vanished" \in odd)'
        /\ \A s \in Taken : \/ s \in Taken' /\ Held'[s] = Held[s]
                            \/ Doing = "unsnap" /\ s = cur
                            \/ ("vanished" \in odd)'
<1> SUFFICES ASSUME Promise, [Contract!Next]_(Contract!vars)
             PROVE  /\ (Room # 0 /\ Room' = 0) =>
                          Contract!Deletion \/ ("vanished" \in odd)'
                    /\ Data' < Data => \/ Contract!Deletion \/ Doing = "revert"
                                       \/ ("vanished" \in odd)'
                    /\ \A s \in Taken : \/ s \in Taken' /\ Held'[s] = Held[s]
                                        \/ Doing = "unsnap" /\ s = cur
                                        \/ ("vanished" \in odd)'
    OBVIOUS
<1> USE GiBAssumption DEF Promise
<1>1. CASE UNCHANGED <<Room, Data, Taken, Held>>
    BY <1>1
<1>2. CASE Contract!Effect
    <2>1. CASE Doing = "create" /\ Contract!Provide
        BY <2>1 DEF Contract!Provide
    <2>2. CASE Doing = "delete" /\ Origin = "created" /\ Contract!Empty
        <3>1. Taken = {}
            BY <2>2 DEF Contract!NoneKnown
        <3> QED
            BY <2>2, <3>1 DEF Contract!Deletion
    <2>3. CASE Contract!Fit /\ Doing \in {"extend", "shrink"}
        <3>1. Room' # 0
            BY <1>2, <2>3, EffectKeeps DEF Contract!Fit
        <3> QED
            BY <2>3, <3>1 DEF Contract!Fit
    <2>4. CASE Contract!Copy
        BY <2>4 DEF Contract!Copy
    <2>5. CASE Doing = "unsnap" /\ Contract!Uncopy
        BY <2>5 DEF Contract!Uncopy
    <2>6. CASE Doing = "revert" /\ Contract!GoBack
        BY <2>6 DEF Contract!GoBack
    <2> QED
        BY <1>2, <2>1, <2>2, <2>3, <2>4, <2>5, <2>6 DEF Contract!Effect
<1>3. CASE Contract!Adopted
    BY <1>3 DEF Contract!Adopted
<1>4. CASE Contract!Write
    BY <1>4 DEF Contract!Write
<1>5. CASE Contract!Lose
    BY <1>5, Zenon DEF Contract!Lose
<1>6. Asks => UNCHANGED <<Room, Data, Taken, Held>>
    BY DEF Asks, Contract!AskCreate, Contract!AskManage, Contract!AskDelete,
       Contract!AskResize, Contract!AskSnapshot, Contract!Ask, Contract!volume
<1>7. ASSUME \/ Contract!Works \/ Contract!Fails \/ Contract!Created
             \/ Contract!Deleted \/ Contract!Resized \/ Contract!Refused
             \/ Contract!Snapped \/ Contract!Unmanage
             \/ UNCHANGED Contract!vars
      PROVE  Contract!Effect \/ UNCHANGED <<Room, Data, Taken, Held>>
    BY <1>7 DEF Contract!Works, Contract!Fails, Contract!Created,
       Contract!Deleted, Contract!Resized, Contract!Refused, Contract!Snapped,
       Contract!Unmanage, Contract!Effect, Contract!volume, Contract!vars
<1> QED
    BY <1>1, <1>2, <1>3, <1>4, <1>5, <1>6, <1>7, Zenon
       DEF Contract!Next, Asks

(***************************************************************************)
(* A volume goes only with the deletion of a share the driver created.     *)
(***************************************************************************)
THEOREM VolumeIsKept == Spec => Contract!VolumeStays
<1>1. Promise /\ [Contract!Next]_(Contract!vars) =>
          [(Room # 0 /\ Room' = 0) =>
               Contract!Deletion \/ ("vanished" \in odd)']_(Contract!vars)
    BY NothingElseGoes
<1> QED
    BY <1>1, PromiseKept, PTL DEF Contract!VolumeStays

(***************************************************************************)
(* No data goes but by a deletion, by going back or by hand.               *)
(***************************************************************************)
THEOREM DataIsKept == Spec => Contract!DataStays
<1>1. Promise /\ [Contract!Next]_(Contract!vars) =>
          [Data' < Data => \/ Contract!Deletion \/ Doing = "revert"
                           \/ ("vanished" \in odd)']_(Contract!vars)
    BY NothingElseGoes
<1> QED
    BY <1>1, PromiseKept, PTL DEF Contract!DataStays

(***************************************************************************)
(* A snapshot is what it was when taken, until it is itself deleted.       *)
(***************************************************************************)
THEOREM SnapshotsAreKept == Spec => Contract!SnapshotsStay
<1>1. Promise /\ [Contract!Next]_(Contract!vars) =>
          [\A s \in Taken : \/ s \in Taken' /\ Held'[s] = Held[s]
                            \/ Doing = "unsnap" /\ s = cur
                            \/ ("vanished" \in odd)']_(Contract!vars)
    BY NothingElseGoes
<1> QED
    BY <1>1, PromiseKept, PTL DEF Contract!SnapshotsStay

(***************************************************************************)
(* A created share shown as deleted is empty.                              *)
(***************************************************************************)
THEOREM DeletedIsEmpty == Spec => Contract!DeletedIsEmpty
<1>1. Promise => (status = "deleted" /\ Origin = "created" =>
                      Room = 0 /\ Taken = {})
    BY DEF Promise
<1> QED
    BY <1>1, PromiseKept, PTL DEF Contract!DeletedIsEmpty

-----------------------------------------------------------------------------
\* How many steps a call has left at most, by the place it has reached and,
\* while policies are cleaned up, by the level that comes next; an adoption
\* clears one permission or group at a time.
StepsAt ==
    [idle |-> 0, make |-> 2, group |-> 1, find |-> 7, detach |-> 4,
     drop |-> 3, unmount |-> 2, remove |-> 1, read |-> 2, resize |-> 1,
     adopt |-> 2, clear |-> 1, take |-> 1, untake |-> 1, restore |-> 1]
StepsLeft ==
    StepsAt[pc] + IF lvl = "rw" /\ pc \in {"detach", "drop"} THEN 2 ELSE 0

\* A permission or a group of the adopted share goes, and none comes back.
ClearsOne ==
    /\ pc = "clear" /\ pc' = "clear"
    /\ exports' \in SUBSET exports /\ groups' \in SUBSET groups
    /\ exports' # exports \/ groups' # groups

(***************************************************************************)
(* A step of a call brings its end nearer.                                 *)
(***************************************************************************)
LEMMA WorkAdvances ==
    ASSUME TypeOK, Work
    PROVE  StepsLeft' < StepsLeft \/ ClearsOne
<1> USE DEF TypeOK, Place, Level, Ends, Goes, StepsAt, StepsLeft
<1>1. CASE MakeFilesystem \/ GroupPolicies
    BY <1>1 DEF MakeFilesystem, GroupPolicies, RaiseError
<1>2. CASE FindFilesystem
    BY <1>2 DEF FindFilesystem
<1>3. CASE DetachPolicy
    <2>1. pc = "detach" /\ pc' = "drop" /\ lvl' = lvl
        BY <1>3 DEF DetachPolicy, local
    <2> QED
        BY <2>1
<1>4. CASE DropPolicy
    <2>1. /\ pc = "drop" /\ lvl' = "ro"
          /\ pc' = IF lvl = "rw" THEN "detach" ELSE "unmount"
        BY <1>4 DEF DropPolicy
    <2> QED
        BY <2>1
<1>5. CASE Unmount
    BY <1>5 DEF Unmount, RaiseError, local
<1>6. CASE RemoveFilesystem
    BY <1>6 DEF RemoveFilesystem, RaiseError, local
<1>7. CASE ReadUsed
    BY <1>7 DEF ReadUsed, RaiseError, local
<1>8. CASE Resize
    BY <1>8 DEF Resize, RaiseError, local
<1>9. CASE Adopt
    BY <1>9 DEF Adopt, RaiseOther
<1>10. CASE ClearExport
    <2>1. /\ pc = "clear" /\ pc' \in {"idle", "clear"} /\ groups' = groups
          /\ \/ pc' = "idle"
             \/ \E e \in exports : exports' = exports \ {e}
        BY <1>10 DEF ClearExport, Answer, Answers, Adopted
    <2> QED
        BY <2>1 DEF ClearsOne
<1>11. CASE ClearGroup
    <2>1. /\ pc = "clear" /\ pc' \in {"idle", "clear"} /\ exports' = exports
          /\ \/ pc' = "idle"
             \/ \E g \in groups : groups' = groups \ {g}
        BY <1>11 DEF ClearGroup, Answer, Answers, Adopted
    <2> QED
        BY <2>1 DEF ClearsOne
<1>12. CASE Cleared
    BY <1>12 DEF Cleared, Adopted
<1>13. CASE TakeSnapshot
    <2>1. pc = "take" /\ pc' = "idle"
        BY <1>13, Zenon DEF TakeSnapshot, RaiseError, RaiseOther, Ends
    <2> QED
        BY <2>1
<1>14. CASE DropSnapshot
    BY <1>14 DEF DropSnapshot, RaiseError
<1>15. CASE Restore
    BY <1>15 DEF Restore, RaiseError, RaiseOther
<1> QED
    BY <1>1, <1>2, <1>3, <1>4, <1>5, <1>6, <1>7, <1>8, <1>9, <1>10, <1>11,
       <1>12, <1>13, <1>14, <1>15
       DEF Work

(***************************************************************************)
(* What happens beside a call leaves it where it is, or ends it.           *)
(***************************************************************************)
LEMMA OthersLeaveCall ==
    ASSUME [Next]_vars, ~Work, pc # "idle"
    PROVE  \/ pc' = "idle"
           \/ pc' = pc /\ lvl' = lvl /\ exports' = exports /\ groups' = groups
<1> USE DEF Ends, local, access
<1>1. ~Manila
    BY DEF Manila, Create, Extend, Shrink, Delete, Manage, Unmanage, Snapshot,
       Unsnap, Revert, Govern, Remount, Start
<1>2. CASE Write
    BY <1>2 DEF Write
<1>3. CASE Vanish
    BY <1>3 DEF Vanish
<1>4. CASE Crash
    BY <1>4 DEF Crash
<1>5. CASE UNCHANGED vars
    BY <1>5 DEF vars
<1> QED
    BY <1>1, <1>2, <1>3, <1>4, <1>5 DEF Next

\* A call that is under way comes nearer to its end with each of its steps.
CallAdvances ==
    pc # "idle" =>
        /\ StepsLeft \in 1..7
        /\ StepsLeft' <= StepsLeft
        /\ pc' = "clear" => \/ pc = "adopt"
                            \/ /\ pc = "clear"
                               /\ exports' \in SUBSET exports
                               /\ groups' \in SUBSET groups
        /\ Work => StepsLeft' < StepsLeft \/ ClearsOne

(***************************************************************************)
(* Every call has seven steps at most, beside the clearing of an adopted   *)
(* share, each step of which leaves fewer permissions or groups to clear;  *)
(* nobody else's step sends a call back.                                   *)
(***************************************************************************)
THEOREM CallsAdvance == Spec => [][CallAdvances]_vars
<1>1. TypeOK /\ TypeOK' /\ [Next]_vars => [CallAdvances]_vars
    <2> SUFFICES ASSUME TypeOK, TypeOK', [Next]_vars, pc # "idle"
                 PROVE  /\ StepsLeft \in 1..7
                        /\ StepsLeft' <= StepsLeft
                        /\ pc' = "clear" =>
                              \/ pc = "adopt"
                              \/ /\ pc = "clear"
                                 /\ exports' \in SUBSET exports
                                 /\ groups' \in SUBSET groups
                        /\ Work => StepsLeft' < StepsLeft \/ ClearsOne
        BY DEF CallAdvances
    <2>1. StepsLeft \in 1..7 /\ StepsLeft' \in 0..7
        BY DEF TypeOK, Place, StepsLeft, StepsAt
    <2>2. ClearsOne => StepsLeft' <= StepsLeft
        BY DEF ClearsOne, StepsLeft, StepsAt
    <2>3. CASE Work
        <3>1. pc' = "clear" => pc = "adopt" \/ ClearsOne
            <4> SUFFICES ASSUME pc' = "clear", ~ClearsOne
                         PROVE  pc = "adopt"
                OBVIOUS
            <4>1. pc = "adopt" \/ pc = "clear"
                BY <2>3 DEF Work, MakeFilesystem, GroupPolicies,
                   FindFilesystem, DetachPolicy, DropPolicy, Unmount,
                   RemoveFilesystem, ReadUsed, Resize, Adopt, ClearExport,
                   ClearGroup, Cleared, TakeSnapshot, DropSnapshot, Restore,
                   RaiseError, RaiseOther, Ends, Goes, Adopted
            <4>2. StepsLeft' < StepsLeft
                BY <2>3, WorkAdvances
            <4> QED
                BY <4>1, <4>2 DEF StepsLeft, StepsAt
        <3> QED
            BY <2>1, <2>2, <2>3, <3>1, WorkAdvances DEF ClearsOne
    <2>4. CASE ~Work
        BY <2>1, <2>4, OthersLeaveCall DEF StepsLeft, StepsAt
    <2> QED
        BY <2>3, <2>4
<1> QED
    BY <1>1, TypeCorrect, PTL DEF Spec

-----------------------------------------------------------------------------
\* A call other than an adoption is under way with n steps left, or is over.
Calling   == pc \notin {"idle", "adopt", "clear"}
Left(n)   == Calling /\ StepsLeft = n
Over      == pc = "idle"
CanGoOn   == Calling => ENABLED <<Work>>_vars
CallsEnd  == Calling ~> Over

(***************************************************************************)
(* A call stays where it is until it takes a step of its own, which leaves *)
(* it fewer, or until it is over.                                          *)
(***************************************************************************)
LEMMA CallingStep ==
    ASSUME TypeOK, TypeOK', [Next]_vars, NEW n \in 1..7, Left(n)
    PROVE  \/ Left(n)' /\ ~Work
           \/ \E m \in 1..7 : m < n /\ Left(m)'
           \/ Over'
<1> SUFFICES ASSUME ~Over'
             PROVE  \/ Left(n)' /\ ~Work
                    \/ \E m \in 1..7 : m < n /\ Left(m)'
    OBVIOUS
<1>1. CASE Work
    <2>1. pc' \notin {"adopt", "clear"}
        BY <1>1 DEF Work, MakeFilesystem, GroupPolicies, FindFilesystem,
           DetachPolicy, DropPolicy, Unmount, RemoveFilesystem, ReadUsed,
           Resize, Adopt, ClearExport, ClearGroup, Cleared, TakeSnapshot,
           DropSnapshot, Restore, RaiseError, RaiseOther, Ends, Goes, Left,
           Calling
    <2>2. StepsLeft' < StepsLeft
        BY <1>1, WorkAdvances DEF ClearsOne, Left, Calling
    <2>3. StepsLeft' \in 1..7
        BY <2>1 DEF TypeOK, Place, StepsLeft, StepsAt, Over
    <2> QED
        BY <2>1, <2>2, <2>3 DEF Left, Calling, Over
<1>2. CASE ~Work
    <2>1. pc' = pc /\ lvl' = lvl
        BY <1>2, OthersLeaveCall DEF Left, Calling, Over
    <2> QED
        BY <1>2, <2>1 DEF Left, Calling, StepsLeft
<1> QED
    BY <1>1, <1>2

(***************************************************************************)
(* A call that goes on comes to an end, whatever is lost, fails or         *)
(* vanishes meanwhile: no call waits for something that nobody does.       *)
(***************************************************************************)
THEOREM CallsComeBack == Spec /\ WF_vars(Work) /\ []CanGoOn => CallsEnd
<1>1. TypeOK /\ Calling => \/ Left(1) \/ Left(2) \/ Left(3) \/ Left(4)
                           \/ Left(5) \/ Left(6) \/ Left(7)
    BY DEF TypeOK, Place, Calling, Left, StepsLeft, StepsAt
<1>2. TypeOK /\ TypeOK' /\ [Next]_vars /\ Left(1) =>
          (Left(1)' /\ ~<<Work>>_vars) \/ Over'
    BY CallingStep
<1>3. TypeOK /\ TypeOK' /\ [Next]_vars /\ Left(2) =>
          (Left(2)' /\ ~<<Work>>_vars) \/ Left(1)' \/ Over'
    BY CallingStep
<1>4. TypeOK /\ TypeOK' /\ [Next]_vars /\ Left(3) =>
          (Left(3)' /\ ~<<Work>>_vars) \/ Left(1)' \/ Left(2)' \/ Over'
    BY CallingStep
<1>5. TypeOK /\ TypeOK' /\ [Next]_vars /\ Left(4) =>
          \/ Left(4)' /\ ~<<Work>>_vars
          \/ Left(1)' \/ Left(2)' \/ Left(3)' \/ Over'
    BY CallingStep
<1>6. TypeOK /\ TypeOK' /\ [Next]_vars /\ Left(5) =>
          \/ Left(5)' /\ ~<<Work>>_vars
          \/ Left(1)' \/ Left(2)' \/ Left(3)' \/ Left(4)' \/ Over'
    BY CallingStep
<1>7. TypeOK /\ TypeOK' /\ [Next]_vars /\ Left(6) =>
          \/ Left(6)' /\ ~<<Work>>_vars
          \/ Left(1)' \/ Left(2)' \/ Left(3)' \/ Left(4)' \/ Left(5)'
          \/ Over'
    BY CallingStep
<1>8. TypeOK /\ TypeOK' /\ [Next]_vars /\ Left(7) =>
          \/ Left(7)' /\ ~<<Work>>_vars
          \/ Left(1)' \/ Left(2)' \/ Left(3)' \/ Left(4)' \/ Left(5)'
          \/ Left(6)' \/ Over'
    BY CallingStep
<1>9. /\ CanGoOn /\ Left(1) => ENABLED <<Work>>_vars
      /\ CanGoOn /\ Left(2) => ENABLED <<Work>>_vars
      /\ CanGoOn /\ Left(3) => ENABLED <<Work>>_vars
      /\ CanGoOn /\ Left(4) => ENABLED <<Work>>_vars
      /\ CanGoOn /\ Left(5) => ENABLED <<Work>>_vars
      /\ CanGoOn /\ Left(6) => ENABLED <<Work>>_vars
      /\ CanGoOn /\ Left(7) => ENABLED <<Work>>_vars
    BY DEF CanGoOn, Left
<1> QED
    BY <1>1, <1>2, <1>3, <1>4, <1>5, <1>6, <1>7, <1>8, <1>9, TypeCorrect, PTL
       DEF Spec, CallsEnd
=============================================================================
