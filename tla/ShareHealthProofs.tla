-------------------------- MODULE ShareHealthProofs --------------------------
(***************************************************************************)
(* Proofs about ShareHealth, for any shares, sweeps and bounds.            *)
(***************************************************************************)
EXTENDS ShareHealth, TLAPS

(***************************************************************************)
(* The inductive invariant.                                                *)
(***************************************************************************)

\* Whoever is about to mount or unmount holds the lock of the mount point,
\* and a mount point whose lock is free stays as it is.
LockInv ==
    /\ \A c \in Checkers : cpc[c] = "mount" => lock[cur[c]] = c
    /\ \A s \in Shares : dpc[s] = "umount" => lock[s] = s

\* A sweep that looks at a share has one, and it is a WEKAFS one; one that
\* reports has none left.
CurInv ==
    \A c \in Checkers :
        IF cpc[c] \in {"find", "peek", "token", "lock", "mount"}
        THEN cur[c] \in Isolated
        ELSE cur[c] = NoOne /\ (cpc[c] = "report" => todo[c] = {})

\* What was seen under the lock still holds while the lock is held.
MountInv ==
    /\ \A s \in Shares : mounts[s] <= 1
    /\ \A c \in Checkers : cpc[c] = "mount" => mounts[cur[c]] = 0
    /\ \A s \in Shares : dpc[s] = "umount" => mounts[s] = 1

\* The list has every filesystem of the administrator that is still there
\* under its generated name, and what is reported lost is not.
LostInv ==
    \A c \in Checkers :
        /\ cpc[c] \in CheckPlaces \ {"idle", "list", "aborted"}
             => Named \ Isolated \subseteq listed[c]
        /\ lost[c] \cap Named = {}

\* A share that is being deleted is shown so.
DeletingInv == \A s \in Shares : dpc[s] # "idle" => status[s] = "deleting"

\* The WEKAFS shares a sweep is done with.
SeenInv ==
    \A c \in Checkers :
        /\ cpc[c] = "list" => todo[c] = shown[c]
        /\ cpc[c] \in CheckPlaces \ {"idle", "list", "aborted"} =>
              \A s \in (shown[c] \cap Isolated) \ (todo[c] \cup {cur[c]}) :
                  mounts[s] # 0 \/ s \in lost[c] \/ status[s] # "available"

\* A mount without a filesystem, and one that a delete did not see; an NFS
\* share has none.
CrossedInv ==
    /\ \A s \in Shares \ there :
          mounts[s] # 0 => s \in crossed \cup vanished
    /\ \A s \in Shares \ Isolated : mounts[s] = 0
    /\ \A s \in Shares :
          /\ dpc[s] = "remove" /\ mounts[s] # 0
                => s \in crossed \cup vanished
          /\ status[s] = "deleted" => s \notin Named

IInv == /\ TypeOK /\ LockInv /\ CurInv /\ MountInv
        /\ LostInv /\ DeletingInv /\ SeenInv /\ CrossedInv

(***************************************************************************)
(* Every variable keeps its type; an unmounting finds a mount.             *)
(***************************************************************************)
LEMMA TypeStep ==
    TypeOK /\ CurInv /\ MountInv /\ [Next]_vars => TypeOK'
<1> SUFFICES ASSUME TypeOK, CurInv, MountInv, [Next]_vars
             PROVE  TypeOK'
    OBVIOUS
<1> USE SharesAssumption, OwnersAssumption, BoundsAssumption
<1> USE DEF TypeOK, CheckPlaces, DeletePlaces, CurInv, MountInv, sweep, host,
        past, Goes
<1>0. CASE UNCHANGED vars
    BY <1>0 DEF vars
<1>1. ASSUME NEW c \in Checkers, StartSweep(c) PROVE TypeOK'
    BY <1>1 DEF StartSweep
<1>2. ASSUME NEW c \in Checkers, ListFilesystems(c) PROVE TypeOK'
    BY <1>2 DEF ListFilesystems, Named, Fault
<1>3. ASSUME NEW c \in Checkers, NextShare(c) PROVE TypeOK'
    BY <1>3 DEF NextShare
<1>4. ASSUME NEW c \in Checkers, FindShare(c) PROVE TypeOK'
    BY <1>4 DEF FindShare, Named, Done, NotFound, Abort, Fault
<1>5. ASSUME NEW c \in Checkers, PeekAtMounts(c) PROVE TypeOK'
    BY <1>5 DEF PeekAtMounts, Done
<1>6. ASSUME NEW c \in Checkers, WriteToken(c) PROVE TypeOK'
    BY <1>6 DEF WriteToken, Abort, Fault
<1>7. ASSUME NEW c \in Checkers, LockForMount(c) PROVE TypeOK'
    BY <1>7 DEF LockForMount, Done, Take
<1>8. ASSUME NEW c \in Checkers, MountShare(c) PROVE TypeOK'
    BY <1>8 DEF MountShare, Done, Abort, Fault, Free
<1>9. ASSUME NEW c \in Checkers, AllSeen(c) PROVE TypeOK'
    BY <1>9 DEF AllSeen
<1>10. ASSUME NEW c \in Checkers, Report(c) PROVE TypeOK'
    BY <1>10 DEF Report, Over
<1>11. ASSUME NEW c \in Checkers, Aborted(c) PROVE TypeOK'
    BY <1>11 DEF Aborted, Over
<1>12. ASSUME NEW s \in Deletable, Delete(s) PROVE TypeOK'
    BY <1>12 DEF Delete, At, Shown
<1>13. ASSUME NEW s \in Shares, FindForDelete(s) PROVE TypeOK'
    BY <1>13 DEF FindForDelete, Fault, At, Shown
<1>14. ASSUME NEW s \in Shares, PeekForDelete(s) PROVE TypeOK'
    BY <1>14 DEF PeekForDelete, At, Shown
<1>15. ASSUME NEW s \in Shares, LockForUnmount(s) PROVE TypeOK'
    BY <1>15 DEF LockForUnmount, Take, At, Shown
<1>16. ASSUME NEW s \in Shares, UnmountShare(s) PROVE TypeOK'
    BY <1>16 DEF UnmountShare, Free, Fault, At, Shown
<1>17. ASSUME NEW s \in Shares, RemoveFilesystem(s) PROVE TypeOK'
    BY <1>17 DEF RemoveFilesystem, Fault, At, Shown
<1>18. ASSUME NEW s \in Shares, Vanish(s) PROVE TypeOK'
    BY <1>18 DEF Vanish, Fault
<1>19. CASE Die
    BY <1>19 DEF Die, Fault
<1> QED
    BY <1>0, <1>1, <1>2, <1>3, <1>4, <1>5, <1>6, <1>7, <1>8, <1>9, <1>10,
        <1>11, <1>12, <1>13, <1>14, <1>15, <1>16, <1>17, <1>18, <1>19
       DEF Next, Check, DeleteStep

(***************************************************************************)
(* A sweep has a share exactly while it looks at one.                      *)
(***************************************************************************)
LEMMA CurStep ==
    TypeOK /\ CurInv /\ [Next]_vars => CurInv'
<1> SUFFICES ASSUME TypeOK, CurInv, [Next]_vars
             PROVE  CurInv'
    OBVIOUS
<1> USE SharesAssumption, OwnersAssumption, BoundsAssumption
<1> USE DEF TypeOK, CheckPlaces, DeletePlaces, CurInv, sweep, host, past, Goes
<1>0. CASE UNCHANGED vars
    BY <1>0 DEF vars
<1>1. ASSUME NEW c \in Checkers, StartSweep(c) PROVE CurInv'
    BY <1>1 DEF StartSweep
<1>2. ASSUME NEW c \in Checkers, ListFilesystems(c) PROVE CurInv'
    BY <1>2 DEF ListFilesystems, Named, Fault
<1>3. ASSUME NEW c \in Checkers, NextShare(c) PROVE CurInv'
    BY <1>3 DEF NextShare
<1>4. ASSUME NEW c \in Checkers, FindShare(c) PROVE CurInv'
    BY <1>4 DEF FindShare, Named, Done, NotFound, Abort, Fault
<1>5. ASSUME NEW c \in Checkers, PeekAtMounts(c) PROVE CurInv'
    BY <1>5 DEF PeekAtMounts, Done
<1>6. ASSUME NEW c \in Checkers, WriteToken(c) PROVE CurInv'
    BY <1>6 DEF WriteToken, Abort, Fault
<1>7. ASSUME NEW c \in Checkers, LockForMount(c) PROVE CurInv'
    BY <1>7 DEF LockForMount, Done, Take
<1>8. ASSUME NEW c \in Checkers, MountShare(c) PROVE CurInv'
    BY <1>8 DEF MountShare, Done, Abort, Fault, Free
<1>9. ASSUME NEW c \in Checkers, AllSeen(c) PROVE CurInv'
    BY <1>9 DEF AllSeen
<1>10. ASSUME NEW c \in Checkers, Report(c) PROVE CurInv'
    BY <1>10 DEF Report, Over
<1>11. ASSUME NEW c \in Checkers, Aborted(c) PROVE CurInv'
    BY <1>11 DEF Aborted, Over
<1>12. ASSUME NEW s \in Deletable, Delete(s) PROVE CurInv'
    BY <1>12 DEF Delete, At, Shown
<1>13. ASSUME NEW s \in Shares, FindForDelete(s) PROVE CurInv'
    BY <1>13 DEF FindForDelete, Fault, At, Shown
<1>14. ASSUME NEW s \in Shares, PeekForDelete(s) PROVE CurInv'
    BY <1>14 DEF PeekForDelete, At, Shown
<1>15. ASSUME NEW s \in Shares, LockForUnmount(s) PROVE CurInv'
    BY <1>15 DEF LockForUnmount, Take, At, Shown
<1>16. ASSUME NEW s \in Shares, UnmountShare(s) PROVE CurInv'
    BY <1>16 DEF UnmountShare, Free, Fault, At, Shown
<1>17. ASSUME NEW s \in Shares, RemoveFilesystem(s) PROVE CurInv'
    BY <1>17 DEF RemoveFilesystem, Fault, At, Shown
<1>18. ASSUME NEW s \in Shares, Vanish(s) PROVE CurInv'
    BY <1>18 DEF Vanish, Fault
<1>19. CASE Die
    BY <1>19 DEF Die, Fault
<1> QED
    BY <1>0, <1>1, <1>2, <1>3, <1>4, <1>5, <1>6, <1>7, <1>8, <1>9, <1>10,
        <1>11, <1>12, <1>13, <1>14, <1>15, <1>16, <1>17, <1>18, <1>19
       DEF Next, Check, DeleteStep

(***************************************************************************)
(* Nobody takes a lock that is held, or gives another's back.              *)
(***************************************************************************)
LEMMA LockStep ==
    TypeOK /\ CurInv /\ LockInv /\ [Next]_vars => LockInv'
<1> SUFFICES ASSUME TypeOK, CurInv, LockInv, [Next]_vars
             PROVE  LockInv'
    OBVIOUS
<1> USE SharesAssumption, OwnersAssumption, BoundsAssumption
<1> USE DEF TypeOK, CheckPlaces, DeletePlaces, CurInv, LockInv, sweep, host,
        past, Goes
<1>0. CASE UNCHANGED vars
    BY <1>0 DEF vars
<1>1. ASSUME NEW c \in Checkers, StartSweep(c) PROVE LockInv'
    BY <1>1 DEF StartSweep
<1>2. ASSUME NEW c \in Checkers, ListFilesystems(c) PROVE LockInv'
    BY <1>2 DEF ListFilesystems, Named, Fault
<1>3. ASSUME NEW c \in Checkers, NextShare(c) PROVE LockInv'
    BY <1>3 DEF NextShare
<1>4. ASSUME NEW c \in Checkers, FindShare(c) PROVE LockInv'
    BY <1>4 DEF FindShare, Named, Done, NotFound, Abort, Fault
<1>5. ASSUME NEW c \in Checkers, PeekAtMounts(c) PROVE LockInv'
    BY <1>5 DEF PeekAtMounts, Done
<1>6. ASSUME NEW c \in Checkers, WriteToken(c) PROVE LockInv'
    BY <1>6 DEF WriteToken, Abort, Fault
<1>7. ASSUME NEW c \in Checkers, LockForMount(c) PROVE LockInv'
    BY <1>7 DEF LockForMount, Done, Take
<1>8. ASSUME NEW c \in Checkers, MountShare(c) PROVE LockInv'
    BY <1>8 DEF MountShare, Done, Abort, Fault, Free
<1>9. ASSUME NEW c \in Checkers, AllSeen(c) PROVE LockInv'
    BY <1>9 DEF AllSeen
<1>10. ASSUME NEW c \in Checkers, Report(c) PROVE LockInv'
    BY <1>10 DEF Report, Over
<1>11. ASSUME NEW c \in Checkers, Aborted(c) PROVE LockInv'
    BY <1>11 DEF Aborted, Over
<1>12. ASSUME NEW s \in Deletable, Delete(s) PROVE LockInv'
    BY <1>12 DEF Delete, At, Shown
<1>13. ASSUME NEW s \in Shares, FindForDelete(s) PROVE LockInv'
    BY <1>13 DEF FindForDelete, Fault, At, Shown
<1>14. ASSUME NEW s \in Shares, PeekForDelete(s) PROVE LockInv'
    BY <1>14 DEF PeekForDelete, At, Shown
<1>15. ASSUME NEW s \in Shares, LockForUnmount(s) PROVE LockInv'
    BY <1>15 DEF LockForUnmount, Take, At, Shown
<1>16. ASSUME NEW s \in Shares, UnmountShare(s) PROVE LockInv'
    BY <1>16 DEF UnmountShare, Free, Fault, At, Shown
<1>17. ASSUME NEW s \in Shares, RemoveFilesystem(s) PROVE LockInv'
    BY <1>17 DEF RemoveFilesystem, Fault, At, Shown
<1>18. ASSUME NEW s \in Shares, Vanish(s) PROVE LockInv'
    BY <1>18 DEF Vanish, Fault
<1>19. CASE Die
    BY <1>19 DEF Die, Fault
<1> QED
    BY <1>0, <1>1, <1>2, <1>3, <1>4, <1>5, <1>6, <1>7, <1>8, <1>9, <1>10,
        <1>11, <1>12, <1>13, <1>14, <1>15, <1>16, <1>17, <1>18, <1>19
       DEF Next, Check, DeleteStep

(***************************************************************************)
(* Only who holds the lock mounts or unmounts.                             *)
(***************************************************************************)
LEMMA MountStep ==
    TypeOK /\ CurInv /\ LockInv /\ MountInv /\ [Next]_vars => MountInv'
<1> SUFFICES ASSUME TypeOK, CurInv, LockInv, MountInv, [Next]_vars
             PROVE  MountInv'
    OBVIOUS
<1> USE SharesAssumption, OwnersAssumption, BoundsAssumption
<1> USE DEF TypeOK, CheckPlaces, DeletePlaces, CurInv, LockInv, MountInv,
        sweep, host, past, Goes
<1>0. CASE UNCHANGED vars
    BY <1>0 DEF vars
<1>1. ASSUME NEW c \in Checkers, StartSweep(c) PROVE MountInv'
    BY <1>1 DEF StartSweep
<1>2. ASSUME NEW c \in Checkers, ListFilesystems(c) PROVE MountInv'
    BY <1>2 DEF ListFilesystems, Named, Fault
<1>3. ASSUME NEW c \in Checkers, NextShare(c) PROVE MountInv'
    BY <1>3 DEF NextShare
<1>4. ASSUME NEW c \in Checkers, FindShare(c) PROVE MountInv'
    BY <1>4 DEF FindShare, Named, Done, NotFound, Abort, Fault
<1>5. ASSUME NEW c \in Checkers, PeekAtMounts(c) PROVE MountInv'
    BY <1>5 DEF PeekAtMounts, Done
<1>6. ASSUME NEW c \in Checkers, WriteToken(c) PROVE MountInv'
    BY <1>6 DEF WriteToken, Abort, Fault
<1>7. ASSUME NEW c \in Checkers, LockForMount(c) PROVE MountInv'
    BY <1>7 DEF LockForMount, Done, Take
<1>8. ASSUME NEW c \in Checkers, MountShare(c) PROVE MountInv'
    BY <1>8 DEF MountShare, Done, Abort, Fault, Free
<1>9. ASSUME NEW c \in Checkers, AllSeen(c) PROVE MountInv'
    BY <1>9 DEF AllSeen
<1>10. ASSUME NEW c \in Checkers, Report(c) PROVE MountInv'
    BY <1>10 DEF Report, Over
<1>11. ASSUME NEW c \in Checkers, Aborted(c) PROVE MountInv'
    BY <1>11 DEF Aborted, Over
<1>12. ASSUME NEW s \in Deletable, Delete(s) PROVE MountInv'
    BY <1>12 DEF Delete, At, Shown
<1>13. ASSUME NEW s \in Shares, FindForDelete(s) PROVE MountInv'
    BY <1>13 DEF FindForDelete, Fault, At, Shown
<1>14. ASSUME NEW s \in Shares, PeekForDelete(s) PROVE MountInv'
    BY <1>14 DEF PeekForDelete, At, Shown
<1>15. ASSUME NEW s \in Shares, LockForUnmount(s) PROVE MountInv'
    BY <1>15 DEF LockForUnmount, Take, At, Shown
<1>16. ASSUME NEW s \in Shares, UnmountShare(s) PROVE MountInv'
    BY <1>16 DEF UnmountShare, Free, Fault, At, Shown
<1>17. ASSUME NEW s \in Shares, RemoveFilesystem(s) PROVE MountInv'
    BY <1>17 DEF RemoveFilesystem, Fault, At, Shown
<1>18. ASSUME NEW s \in Shares, Vanish(s) PROVE MountInv'
    BY <1>18 DEF Vanish, Fault
<1>19. CASE Die
    BY <1>19 DEF Die, Fault
<1> QED
    BY <1>0, <1>1, <1>2, <1>3, <1>4, <1>5, <1>6, <1>7, <1>8, <1>9, <1>10,
        <1>11, <1>12, <1>13, <1>14, <1>15, <1>16, <1>17, <1>18, <1>19
       DEF Next, Check, DeleteStep

(***************************************************************************)
(* Filesystems go and never come back.                                     *)
(***************************************************************************)
LEMMA LostStep ==
    TypeOK /\ CurInv /\ LostInv /\ [Next]_vars => LostInv'
<1> SUFFICES ASSUME TypeOK, CurInv, LostInv, [Next]_vars
             PROVE  LostInv'
    OBVIOUS
<1> USE SharesAssumption, OwnersAssumption, BoundsAssumption
<1> USE DEF TypeOK, CheckPlaces, DeletePlaces, CurInv, LostInv, sweep, host,
        past, Goes, Named
<1>0. CASE UNCHANGED vars
    BY <1>0 DEF vars
<1>1. ASSUME NEW c \in Checkers, StartSweep(c) PROVE LostInv'
    BY <1>1 DEF StartSweep
<1>2. ASSUME NEW c \in Checkers, ListFilesystems(c) PROVE LostInv'
    BY <1>2 DEF ListFilesystems, Fault
<1>3. ASSUME NEW c \in Checkers, NextShare(c) PROVE LostInv'
    BY <1>3 DEF NextShare
<1>4. ASSUME NEW c \in Checkers, FindShare(c) PROVE LostInv'
    BY <1>4 DEF FindShare, Done, NotFound, Abort, Fault
<1>5. ASSUME NEW c \in Checkers, PeekAtMounts(c) PROVE LostInv'
    BY <1>5 DEF PeekAtMounts, Done
<1>6. ASSUME NEW c \in Checkers, WriteToken(c) PROVE LostInv'
    BY <1>6 DEF WriteToken, Abort, Fault
<1>7. ASSUME NEW c \in Checkers, LockForMount(c) PROVE LostInv'
    BY <1>7 DEF LockForMount, Done, Take
<1>8. ASSUME NEW c \in Checkers, MountShare(c) PROVE LostInv'
    BY <1>8 DEF MountShare, Done, Abort, Fault, Free
<1>9. ASSUME NEW c \in Checkers, AllSeen(c) PROVE LostInv'
    BY <1>9 DEF AllSeen
<1>10. ASSUME NEW c \in Checkers, Report(c) PROVE LostInv'
    BY <1>10 DEF Report, Over
<1>11. ASSUME NEW c \in Checkers, Aborted(c) PROVE LostInv'
    BY <1>11 DEF Aborted, Over
<1>12. ASSUME NEW s \in Deletable, Delete(s) PROVE LostInv'
    BY <1>12 DEF Delete, At, Shown
<1>13. ASSUME NEW s \in Shares, FindForDelete(s) PROVE LostInv'
    BY <1>13 DEF FindForDelete, Fault, At, Shown
<1>14. ASSUME NEW s \in Shares, PeekForDelete(s) PROVE LostInv'
    BY <1>14 DEF PeekForDelete, At, Shown
<1>15. ASSUME NEW s \in Shares, LockForUnmount(s) PROVE LostInv'
    BY <1>15 DEF LockForUnmount, Take, At, Shown
<1>16. ASSUME NEW s \in Shares, UnmountShare(s) PROVE LostInv'
    BY <1>16 DEF UnmountShare, Free, Fault, At, Shown
<1>17. ASSUME NEW s \in Shares, RemoveFilesystem(s) PROVE LostInv'
    BY <1>17 DEF RemoveFilesystem, Fault, At, Shown
<1>18. ASSUME NEW s \in Shares, Vanish(s) PROVE LostInv'
    BY <1>18 DEF Vanish, Fault
<1>19. CASE Die
    BY <1>19 DEF Die, Fault
<1> QED
    BY <1>0, <1>1, <1>2, <1>3, <1>4, <1>5, <1>6, <1>7, <1>8, <1>9, <1>10,
        <1>11, <1>12, <1>13, <1>14, <1>15, <1>16, <1>17, <1>18, <1>19
       DEF Next, Check, DeleteStep

(***************************************************************************)
(* Nothing else changes the state of a share that is being deleted.        *)
(***************************************************************************)
LEMMA DeletingStep ==
    TypeOK /\ DeletingInv /\ [Next]_vars => DeletingInv'
<1> SUFFICES ASSUME TypeOK, DeletingInv, [Next]_vars
             PROVE  DeletingInv'
    OBVIOUS
<1> USE SharesAssumption, OwnersAssumption, BoundsAssumption
<1> USE DEF TypeOK, CheckPlaces, DeletePlaces, DeletingInv, sweep, host, past,
        Goes
<1>0. CASE UNCHANGED vars
    BY <1>0 DEF vars
<1>1. ASSUME NEW c \in Checkers, StartSweep(c) PROVE DeletingInv'
    BY <1>1 DEF StartSweep
<1>2. ASSUME NEW c \in Checkers, ListFilesystems(c) PROVE DeletingInv'
    BY <1>2 DEF ListFilesystems, Named, Fault
<1>3. ASSUME NEW c \in Checkers, NextShare(c) PROVE DeletingInv'
    BY <1>3 DEF NextShare
<1>4. ASSUME NEW c \in Checkers, FindShare(c) PROVE DeletingInv'
    BY <1>4 DEF FindShare, Named, Done, NotFound, Abort, Fault
<1>5. ASSUME NEW c \in Checkers, PeekAtMounts(c) PROVE DeletingInv'
    BY <1>5 DEF PeekAtMounts, Done
<1>6. ASSUME NEW c \in Checkers, WriteToken(c) PROVE DeletingInv'
    BY <1>6 DEF WriteToken, Abort, Fault
<1>7. ASSUME NEW c \in Checkers, LockForMount(c) PROVE DeletingInv'
    BY <1>7 DEF LockForMount, Done, Take
<1>8. ASSUME NEW c \in Checkers, MountShare(c) PROVE DeletingInv'
    BY <1>8 DEF MountShare, Done, Abort, Fault, Free
<1>9. ASSUME NEW c \in Checkers, AllSeen(c) PROVE DeletingInv'
    BY <1>9 DEF AllSeen
<1>10. ASSUME NEW c \in Checkers, Report(c) PROVE DeletingInv'
    BY <1>10 DEF Report, Over
<1>11. ASSUME NEW c \in Checkers, Aborted(c) PROVE DeletingInv'
    BY <1>11 DEF Aborted, Over
<1>12. ASSUME NEW s \in Deletable, Delete(s) PROVE DeletingInv'
    BY <1>12 DEF Delete, At, Shown
<1>13. ASSUME NEW s \in Shares, FindForDelete(s) PROVE DeletingInv'
    BY <1>13 DEF FindForDelete, Fault, At, Shown
<1>14. ASSUME NEW s \in Shares, PeekForDelete(s) PROVE DeletingInv'
    BY <1>14 DEF PeekForDelete, At, Shown
<1>15. ASSUME NEW s \in Shares, LockForUnmount(s) PROVE DeletingInv'
    BY <1>15 DEF LockForUnmount, Take, At, Shown
<1>16. ASSUME NEW s \in Shares, UnmountShare(s) PROVE DeletingInv'
    BY <1>16 DEF UnmountShare, Free, Fault, At, Shown
<1>17. ASSUME NEW s \in Shares, RemoveFilesystem(s) PROVE DeletingInv'
    BY <1>17 DEF RemoveFilesystem, Fault, At, Shown
<1>18. ASSUME NEW s \in Shares, Vanish(s) PROVE DeletingInv'
    BY <1>18 DEF Vanish, Fault
<1>19. CASE Die
    BY <1>19 DEF Die, Fault
<1> QED
    BY <1>0, <1>1, <1>2, <1>3, <1>4, <1>5, <1>6, <1>7, <1>8, <1>9, <1>10,
        <1>11, <1>12, <1>13, <1>14, <1>15, <1>16, <1>17, <1>18, <1>19
       DEF Next, Check, DeleteStep

(***************************************************************************)
(* A share that was seen to be mounted is unmounted by a delete only.      *)
(***************************************************************************)
LEMMA SeenStep ==
    TypeOK /\ CurInv /\ DeletingInv /\ SeenInv /\ [Next]_vars => SeenInv'
<1> SUFFICES ASSUME TypeOK, CurInv, DeletingInv, SeenInv, [Next]_vars
             PROVE  SeenInv'
    OBVIOUS
<1> USE SharesAssumption, OwnersAssumption, BoundsAssumption
<1> USE DEF TypeOK, CheckPlaces, DeletePlaces, CurInv, DeletingInv, SeenInv,
        sweep, host, past, Goes
<1>0. CASE UNCHANGED vars
    BY <1>0 DEF vars
<1>1. ASSUME NEW c \in Checkers, StartSweep(c) PROVE SeenInv'
    BY <1>1 DEF StartSweep
<1>2. ASSUME NEW c \in Checkers, ListFilesystems(c) PROVE SeenInv'
    BY <1>2 DEF ListFilesystems, Named, Fault
<1>3. ASSUME NEW c \in Checkers, NextShare(c) PROVE SeenInv'
    BY <1>3 DEF NextShare
<1>4. ASSUME NEW c \in Checkers, FindShare(c) PROVE SeenInv'
    BY <1>4 DEF FindShare, Named, Done, NotFound, Abort, Fault
<1>5. ASSUME NEW c \in Checkers, PeekAtMounts(c) PROVE SeenInv'
    BY <1>5 DEF PeekAtMounts, Done
<1>6. ASSUME NEW c \in Checkers, WriteToken(c) PROVE SeenInv'
    BY <1>6 DEF WriteToken, Abort, Fault
<1>7. ASSUME NEW c \in Checkers, LockForMount(c) PROVE SeenInv'
    BY <1>7 DEF LockForMount, Done, Take
<1>8. ASSUME NEW c \in Checkers, MountShare(c) PROVE SeenInv'
    BY <1>8 DEF MountShare, Done, Abort, Fault, Free
<1>9. ASSUME NEW c \in Checkers, AllSeen(c) PROVE SeenInv'
    BY <1>9 DEF AllSeen
<1>10. ASSUME NEW c \in Checkers, Report(c) PROVE SeenInv'
    BY <1>10 DEF Report, Over
<1>11. ASSUME NEW c \in Checkers, Aborted(c) PROVE SeenInv'
    BY <1>11 DEF Aborted, Over
<1>12. ASSUME NEW s \in Deletable, Delete(s) PROVE SeenInv'
    BY <1>12 DEF Delete, At, Shown
<1>13. ASSUME NEW s \in Shares, FindForDelete(s) PROVE SeenInv'
    BY <1>13 DEF FindForDelete, Fault, At, Shown
<1>14. ASSUME NEW s \in Shares, PeekForDelete(s) PROVE SeenInv'
    BY <1>14 DEF PeekForDelete, At, Shown
<1>15. ASSUME NEW s \in Shares, LockForUnmount(s) PROVE SeenInv'
    BY <1>15 DEF LockForUnmount, Take, At, Shown
<1>16. ASSUME NEW s \in Shares, UnmountShare(s) PROVE SeenInv'
    BY <1>16 DEF UnmountShare, Free, Fault, At, Shown
<1>17. ASSUME NEW s \in Shares, RemoveFilesystem(s) PROVE SeenInv'
    BY <1>17 DEF RemoveFilesystem, Fault, At, Shown
<1>18. ASSUME NEW s \in Shares, Vanish(s) PROVE SeenInv'
    BY <1>18 DEF Vanish, Fault
<1>19. CASE Die
    BY <1>19 DEF Die, Fault
<1> QED
    BY <1>0, <1>1, <1>2, <1>3, <1>4, <1>5, <1>6, <1>7, <1>8, <1>9, <1>10,
        <1>11, <1>12, <1>13, <1>14, <1>15, <1>16, <1>17, <1>18, <1>19
       DEF Next, Check, DeleteStep

(***************************************************************************)
(* A mount that a delete does not undo was made behind it.                 *)
(***************************************************************************)
LEMMA CrossedStep ==
    TypeOK /\ CurInv /\ DeletingInv /\ MountInv /\ CrossedInv
    /\ [Next]_vars => CrossedInv'
<1> SUFFICES ASSUME TypeOK, CurInv, DeletingInv, MountInv, CrossedInv,
                    [Next]_vars
             PROVE  CrossedInv'
    OBVIOUS
<1> USE SharesAssumption, OwnersAssumption, BoundsAssumption
<1> USE DEF TypeOK, CheckPlaces, DeletePlaces, CurInv, DeletingInv, MountInv,
        CrossedInv, sweep, host, past, Goes, Named
<1>0. CASE UNCHANGED vars
    BY <1>0 DEF vars
<1>1. ASSUME NEW c \in Checkers, StartSweep(c) PROVE CrossedInv'
    BY <1>1 DEF StartSweep
<1>2. ASSUME NEW c \in Checkers, ListFilesystems(c) PROVE CrossedInv'
    BY <1>2 DEF ListFilesystems, Fault
<1>3. ASSUME NEW c \in Checkers, NextShare(c) PROVE CrossedInv'
    BY <1>3 DEF NextShare
<1>4. ASSUME NEW c \in Checkers, FindShare(c) PROVE CrossedInv'
    BY <1>4 DEF FindShare, Done, NotFound, Abort, Fault
<1>5. ASSUME NEW c \in Checkers, PeekAtMounts(c) PROVE CrossedInv'
    BY <1>5 DEF PeekAtMounts, Done
<1>6. ASSUME NEW c \in Checkers, WriteToken(c) PROVE CrossedInv'
    BY <1>6 DEF WriteToken, Abort, Fault
<1>7. ASSUME NEW c \in Checkers, LockForMount(c) PROVE CrossedInv'
    BY <1>7 DEF LockForMount, Done, Take
<1>8. ASSUME NEW c \in Checkers, MountShare(c) PROVE CrossedInv'
    BY <1>8 DEF MountShare, Done, Abort, Fault, Free
<1>9. ASSUME NEW c \in Checkers, AllSeen(c) PROVE CrossedInv'
    BY <1>9 DEF AllSeen
<1>10. ASSUME NEW c \in Checkers, Report(c) PROVE CrossedInv'
    BY <1>10 DEF Report, Over
<1>11. ASSUME NEW c \in Checkers, Aborted(c) PROVE CrossedInv'
    BY <1>11 DEF Aborted, Over
<1>12. ASSUME NEW s \in Deletable, Delete(s) PROVE CrossedInv'
    BY <1>12 DEF Delete, At, Shown
<1>13. ASSUME NEW s \in Shares, FindForDelete(s) PROVE CrossedInv'
    BY <1>13 DEF FindForDelete, Fault, At, Shown
<1>14. ASSUME NEW s \in Shares, PeekForDelete(s) PROVE CrossedInv'
    BY <1>14 DEF PeekForDelete, At, Shown
<1>15. ASSUME NEW s \in Shares, LockForUnmount(s) PROVE CrossedInv'
    BY <1>15 DEF LockForUnmount, Take, At, Shown
<1>16. ASSUME NEW s \in Shares, UnmountShare(s) PROVE CrossedInv'
    BY <1>16 DEF UnmountShare, Free, Fault, At, Shown
<1>17. ASSUME NEW s \in Shares, RemoveFilesystem(s) PROVE CrossedInv'
    BY <1>17 DEF RemoveFilesystem, Fault, At, Shown
<1>18. ASSUME NEW s \in Shares, Vanish(s) PROVE CrossedInv'
    BY <1>18 DEF Vanish, Fault
<1>19. CASE Die
    BY <1>19 DEF Die, Fault
<1> QED
    BY <1>0, <1>1, <1>2, <1>3, <1>4, <1>5, <1>6, <1>7, <1>8, <1>9, <1>10,
        <1>11, <1>12, <1>13, <1>14, <1>15, <1>16, <1>17, <1>18, <1>19
       DEF Next, Check, DeleteStep

-----------------------------------------------------------------------------
(***************************************************************************)
(* Before anything is mounted, swept or deleted the invariant holds.       *)
(***************************************************************************)
LEMMA InitInv == Init => IInv
BY SharesAssumption, OwnersAssumption, BoundsAssumption
   DEF Init, IInv, TypeOK, LockInv, CurInv, MountInv, LostInv, DeletingInv,
       SeenInv, CrossedInv, CheckPlaces, DeletePlaces

(***************************************************************************)
(* Every step keeps each part of the invariant.                            *)
(***************************************************************************)
LEMMA StepInv == IInv /\ [Next]_vars => IInv'
BY TypeStep, CurStep, LockStep, MountStep, LostStep, DeletingStep, SeenStep,
   CrossedStep DEF IInv

(***************************************************************************)
(* So the invariant holds in every state.                                  *)
(***************************************************************************)
LEMMA Invariance == Spec => []IInv
BY InitInv, StepInv, PTL DEF Spec

(***************************************************************************)
(* Every variable keeps its type; in particular nothing is unmounted that  *)
(* is not mounted.                                                         *)
(***************************************************************************)
THEOREM TypeCorrect == Spec => []TypeOK
BY Invariance, PTL DEF IInv

(***************************************************************************)
(* However many sweeps and deletes meet at a mount point, it is mounted    *)
(* once at most.                                                           *)
(***************************************************************************)
THEOREM MountedOnce == Spec => []NoStackedMount
<1>1. IInv => NoStackedMount
    BY DEF IInv, MountInv, NoStackedMount
<1> QED
    BY <1>1, Invariance, PTL

(***************************************************************************)
(* No sweep reports a share lost whose filesystem is there, but for the    *)
(* adopted ones.                                                           *)
(***************************************************************************)
THEOREM LostIsGone == Spec => []NoFalseAlarm
<1>1. IInv => NoFalseAlarm
    BY DEF IInv, LostInv, NoFalseAlarm, Named
<1> QED
    BY <1>1, Invariance, PTL

(***************************************************************************)
(* A sweep that got through has seen to every WEKAFS share.                *)
(***************************************************************************)
THEOREM SweepIsComplete == Spec => []SweepMounts
<1>1. IInv => SweepMounts
    BY SharesAssumption, OwnersAssumption
       DEF IInv, SeenInv, CurInv, SweepMounts, CheckPlaces, TypeOK
<1> QED
    BY <1>1, Invariance, PTL

(***************************************************************************)
(* A deleted share is still mounted only if a check crossed the delete, or *)
(* the filesystem went first.                                              *)
(***************************************************************************)
THEOREM DeleteLeavesNoMount == Spec => []DeleteUnmounts
<1>1. IInv => DeleteUnmounts
    BY DEF IInv, TypeOK, CrossedInv, DeleteUnmounts, Named
<1> QED
    BY <1>1, Invariance, PTL

-----------------------------------------------------------------------------
(***************************************************************************)
(* Progress.  Whoever holds the lock of a mount point is about to mount or *)
(* unmount there, and nothing else; so no holder waits for another, and    *)
(* nobody who is done holds on.                                            *)
(***************************************************************************)
HeldInv ==
    \A s \in Shares : lock[s] # NoOne =>
        \/ lock[s] = s /\ dpc[s] = "umount"
        \/ \E c \in Checkers :
              lock[s] = c /\ cpc[c] = "mount" /\ cur[c] = s

(***************************************************************************)
(* Every step keeps it.                                                    *)
(***************************************************************************)
LEMMA HeldStep == IInv /\ HeldInv /\ [Next]_vars => HeldInv'
<1> SUFFICES ASSUME IInv, HeldInv, [Next]_vars PROVE HeldInv'
    OBVIOUS
<1> USE SharesAssumption, OwnersAssumption
    DEF IInv, TypeOK, LockInv, CurInv, HeldInv, Goes, Done, Abort, Free,
        Take, At, sweep, host
<1>1. ASSUME NEW c \in Checkers,
             StartSweep(c) \/ ListFilesystems(c) \/ NextShare(c)
      PROVE  HeldInv'
    BY <1>1 DEF StartSweep, ListFilesystems, NextShare
<1>2. ASSUME NEW c \in Checkers,
             FindShare(c) \/ PeekAtMounts(c) \/ WriteToken(c)
      PROVE  HeldInv'
    BY <1>2 DEF FindShare, NotFound, PeekAtMounts, WriteToken
<1>3. ASSUME NEW c \in Checkers, LockForMount(c) PROVE HeldInv'
    BY <1>3 DEF LockForMount
<1>4. ASSUME NEW c \in Checkers, MountShare(c) PROVE HeldInv'
    BY <1>4 DEF MountShare
<1>5. ASSUME NEW c \in Checkers, AllSeen(c) \/ Report(c) \/ Aborted(c)
      PROVE  HeldInv'
    BY <1>5 DEF AllSeen, Report, Aborted, Over
<1>6. ASSUME NEW s \in Shares,
             Delete(s) \/ FindForDelete(s) \/ PeekForDelete(s)
      PROVE  HeldInv'
    BY <1>6 DEF Delete, FindForDelete, PeekForDelete
<1>7. ASSUME NEW s \in Shares, LockForUnmount(s) PROVE HeldInv'
    BY <1>7 DEF LockForUnmount
<1>8. ASSUME NEW s \in Shares, UnmountShare(s) PROVE HeldInv'
    BY <1>8 DEF UnmountShare
<1>9. ASSUME NEW s \in Shares, RemoveFilesystem(s) \/ Vanish(s)
      PROVE  HeldInv'
    BY <1>9 DEF RemoveFilesystem, Vanish
<1>10. CASE Die
    BY <1>10 DEF Die
<1>11. CASE UNCHANGED vars
    BY <1>11 DEF vars
<1> QED
    BY <1>1, <1>2, <1>3, <1>4, <1>5, <1>6, <1>7, <1>8, <1>9, <1>10, <1>11
       DEF Next, Check, DeleteStep

(***************************************************************************)
(* Who holds the lock of a mount point is past waiting for it: a sweep     *)
(* that mounts, or the delete that unmounts.                               *)
(***************************************************************************)
THEOREM HoldersDoNotWait == Spec => []HeldInv
<1>1. Init => HeldInv
    BY DEF Init, HeldInv
<1> QED
    BY <1>1, HeldStep, Invariance, PTL DEF Spec

\* The parts of a sweep it has yet to finish, and what it has yet to do for
\* the share it looks at.
PartsLeft ==
    [p \in CheckPlaces |->
        CASE p = "list" -> 3
          [] p \in {"next", "find", "peek", "token", "lock", "mount"} -> 2
          [] p \in {"report", "aborted"} -> 1
          [] OTHER -> 0]

LooksLeft ==
    [p \in CheckPlaces |->
        CASE p = "find" -> 5 [] p = "peek"  -> 4 [] p = "token" -> 3
          [] p = "lock" -> 2 [] p = "mount" -> 1 [] OTHER       -> 0]

StepsLeft ==
    [p \in DeletePlaces |->
        CASE p = "find" -> 5 [] p = "peek"   -> 4 [] p = "lock" -> 3
          [] p = "umount" -> 2 [] p = "remove" -> 1 [] OTHER -> 0]

\* A part less, or a share less, or one thing less to do for the share.
Falls(c) ==
    \/ PartsLeft[cpc'[c]] < PartsLeft[cpc[c]]
    \/ /\ PartsLeft[cpc'[c]] = PartsLeft[cpc[c]]
       /\ todo'[c] \subseteq todo[c] /\ todo'[c] # todo[c]
    \/ /\ PartsLeft[cpc'[c]] = PartsLeft[cpc[c]]
       /\ todo'[c] = todo[c] /\ LooksLeft[cpc'[c]] < LooksLeft[cpc[c]]

(***************************************************************************)
(* Every step of a sweep brings its end nearer, and no step of another     *)
(* sweep or of a delete puts it off.                                       *)
(***************************************************************************)
THEOREM SweepsAdvance ==
    Spec => [][\A c \in Checkers : cpc[c] # "idle" =>
                   \/ Check(c) /\ Falls(c)
                   \/ ~Check(c) /\ UNCHANGED <<cpc[c], todo[c], cur[c]>>
                   \/ Die]_vars
<1> DEFINE Goal ==
        \A c \in Checkers : cpc[c] # "idle" =>
            \/ Check(c) /\ Falls(c)
            \/ ~Check(c) /\ UNCHANGED <<cpc[c], todo[c], cur[c]>>
            \/ Die
<1>1. ASSUME IInv, NEW c \in Checkers, cpc[c] # "idle", Check(c)
      PROVE  Falls(c)
    <2> USE <1>1 DEF IInv, TypeOK, Falls, PartsLeft, LooksLeft, CheckPlaces,
            Goes, Done, Abort
    <2>1. CASE StartSweep(c) \/ ListFilesystems(c)
        BY <2>1 DEF StartSweep, ListFilesystems
    <2>2. CASE NextShare(c)
        BY <2>2 DEF NextShare
    <2>3. CASE FindShare(c) \/ PeekAtMounts(c)
        BY <2>3 DEF FindShare, NotFound, PeekAtMounts
    <2>4. CASE WriteToken(c) \/ LockForMount(c)
        BY <2>4 DEF WriteToken, LockForMount
    <2>5. CASE MountShare(c)
        BY <2>5 DEF MountShare
    <2>6. CASE AllSeen(c) \/ Report(c) \/ Aborted(c)
        BY <2>6 DEF AllSeen, Report, Aborted, Over
    <2> QED
        BY <2>1, <2>2, <2>3, <2>4, <2>5, <2>6 DEF Check
<1>2. ASSUME IInv, NEW c \in Checkers, NEW d \in Checkers \ {c}, Check(d)
      PROVE  UNCHANGED <<cpc[c], todo[c], cur[c]>>
    BY <1>2 DEF IInv, TypeOK, Check, StartSweep, ListFilesystems, NextShare,
       FindShare, NotFound, PeekAtMounts, WriteToken, LockForMount,
       MountShare, AllSeen, Report, Aborted, Over, Goes, Done, Abort
<1>3. ASSUME NEW s \in Shares, Delete(s) \/ DeleteStep(s) \/ Vanish(s)
      PROVE  UNCHANGED sweep
    BY <1>3 DEF Delete, DeleteStep, FindForDelete, PeekForDelete,
       LockForUnmount, UnmountShare, RemoveFilesystem, Vanish
<1>4. IInv /\ [Next]_vars => [Goal]_vars
    BY <1>1, <1>2, <1>3, SharesAssumption DEF Next, sweep, vars
<1> QED
    BY <1>4, Invariance, PTL DEF Spec

(***************************************************************************)
(* A delete makes five steps at most, and no sweep and no other delete     *)
(* puts its end off.                                                       *)
(***************************************************************************)
THEOREM DeletesAdvance ==
    Spec => [][\A s \in Shares : dpc[s] # "idle" =>
                   \/ DeleteStep(s) /\ StepsLeft[dpc'[s]] < StepsLeft[dpc[s]]
                   \/ ~DeleteStep(s) /\ UNCHANGED dpc[s]
                   \/ Die]_vars
<1> DEFINE Goal ==
        \A s \in Shares : dpc[s] # "idle" =>
            \/ DeleteStep(s) /\ StepsLeft[dpc'[s]] < StepsLeft[dpc[s]]
            \/ ~DeleteStep(s) /\ UNCHANGED dpc[s]
            \/ Die
<1>1. ASSUME IInv, NEW s \in Shares, DeleteStep(s)
      PROVE  /\ StepsLeft[dpc'[s]] < StepsLeft[dpc[s]]
             /\ \A r \in Shares \ {s} : UNCHANGED dpc[r]
    BY <1>1 DEF IInv, TypeOK, StepsLeft, DeletePlaces, DeleteStep,
       FindForDelete, PeekForDelete, LockForUnmount, UnmountShare,
       RemoveFilesystem, At
<1>2. ASSUME IInv, NEW s \in Shares, NEW r \in Shares, Delete(r),
             dpc[s] # "idle"
      PROVE  UNCHANGED dpc[s]
    BY <1>2 DEF IInv, TypeOK, Delete, At
<1>3. ASSUME NEW c \in Checkers, Check(c)
      PROVE  UNCHANGED dpc
    BY <1>3 DEF Check, StartSweep, ListFilesystems, NextShare,
       FindShare, PeekAtMounts, WriteToken, LockForMount,
       MountShare, AllSeen, Report, Aborted
<1>4. ASSUME NEW s \in Shares, Vanish(s)
      PROVE  UNCHANGED dpc
    BY <1>4 DEF Vanish
<1>5. IInv /\ [Next]_vars => [Goal]_vars
    <2> SUFFICES ASSUME IInv, Next, NEW s \in Shares, dpc[s] # "idle"
                 PROVE  \/ DeleteStep(s) /\ StepsLeft[dpc'[s]]
                                              < StepsLeft[dpc[s]]
                        \/ ~DeleteStep(s) /\ UNCHANGED dpc[s]
                        \/ Die
        BY DEF vars
    <2> QED
        BY <1>1, <1>2, <1>3, <1>4, SharesAssumption DEF Next
<1> QED
    BY <1>5, Invariance, PTL DEF Spec
=============================================================================
