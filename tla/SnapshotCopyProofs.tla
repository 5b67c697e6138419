------------------------- MODULE SnapshotCopyProofs -------------------------
(***************************************************************************)
(* Proofs about SnapshotCopy, for any number of failures and crashes.      *)
(***************************************************************************)
EXTENDS SnapshotCopy, TLAPS

(***************************************************************************)
(* The inductive invariant.  That a clone shown as available is complete   *)
(* needs what the entry, the flag of the exception and the place of the    *)
(* worker say together: the entry changes only when the worker is done,    *)
(* and a worker past rsync without an exception has copied everything.     *)
(***************************************************************************)
AtWork == worker \notin {"none", "done", "dead"}

\* Before the call returns there is no thread, and no share before the call.
CallInv ==
    /\ share = "none" => call = "idle" /\ worker = "none" /\ entry = "none"
    /\ call # "idle" => share = "calling"
    /\ call \in {"filesystem", "register", "start"} => worker = "none"
    /\ call \in {"filesystem", "register"} => entry = "none"
    /\ call = "start" => entry = "creating_from_snapshot"

\* What the entry and the status tell of the copy.
CopyInv ==
    /\ AtWork => /\ entry = "creating_from_snapshot"
                 /\ share \in {"calling", "creating_from_snapshot"}
    /\ entry = "available" => copied
    /\ entry \in {"available", "error"} => worker = "done"
    /\ share = "available" => copied
    /\ worker \in {"umount_dst", "umount_src", "unpermit", "unrule",
                   "strip", "ungroup", "record"} /\ ~failing => copied

\* Which protocol takes which steps, and when the client group is there.
FlowInv ==
    /\ worker \in {"group", "rule", "permit_src", "permit_dst", "unpermit",
                   "unrule", "strip", "ungroup"} => proto = "NFS"
    /\ worker = "token" => proto = "WEKAFS"
    /\ worker \in {"none", "token", "group", "rule"} => ~hostRule
    /\ worker = "rule" => group

\* What a copy without stray effects has left on the cluster and the host.
CleanInv ==
    ~messy =>
        /\ mine = mounted
        /\ (group => groupUid) /\ (hostRule => ruleUid)
        /\ proto = "WEKAFS" => ~group /\ permits = {}
        /\ worker \in {"none", "token", "group", "rule", "permit_src",
                       "permit_dst", "mount_src"} => mounted = {}
        /\ worker = "none" => ~group /\ permits = {}
        /\ worker = "umount_src" => mounted \subseteq {"src"}
        /\ worker \in {"unpermit", "unrule", "strip", "ungroup", "record",
                       "done"} =>
              mounted = {}
        /\ worker \in {"unrule", "strip", "ungroup", "record", "done"} =>
              permits = {}
        /\ worker \in {"strip", "ungroup", "record", "done"} => ~hostRule
        /\ worker \in {"record", "done"} => ~group

IInv == TypeOK /\ CallInv /\ CopyInv /\ FlowInv /\ CleanInv
-----------------------------------------------------------------------------
(***************************************************************************)
(* An answer, good or bad, keeps the bounds.                               *)
(***************************************************************************)
LEMMA AnswerKeeps ==
    ASSUME TroubleOK, NEW ok \in BOOLEAN, NEW done \in BOOLEAN,
           Answers(ok, done) \/ CleansUp(ok, done)
    PROVE  TroubleOK'
<1>1. faults' \in 0..MaxFaults
    <2>1. faults' = faults \/ (faults < MaxFaults /\ faults' = faults + 1)
        BY DEF Answers, CleansUp, trouble
    <2> QED
        BY <2>1, MaxFaultsAssumption DEF TroubleOK
<1>2. messy' = messy \/ messy' = TRUE
    BY DEF Answers, CleansUp, trouble
<1>3. messy' \in BOOLEAN
    BY <1>2 DEF TroubleOK
<1> QED
    BY <1>1, <1>3 DEF TroubleOK

(***************************************************************************)
(* A call that answers well was carried out, and while nothing is messy    *)
(* only such a call was.                                                   *)
(***************************************************************************)
LEMMA AnswerTells ==
    ASSUME NEW ok \in BOOLEAN, NEW done \in BOOLEAN, Answers(ok, done)
    PROVE  /\ ok => done
           /\ ~messy' => ~messy /\ (done => ok)
BY DEF Answers, trouble

(***************************************************************************)
(* While nothing is messy, a clean-up call answered well.                  *)
(***************************************************************************)
LEMMA CleanUpTells ==
    ASSUME NEW ok \in BOOLEAN, NEW done \in BOOLEAN, CleansUp(ok, done)
    PROVE  ~messy' => ok /\ done /\ ~messy
BY DEF CleansUp, trouble

(***************************************************************************)
(* No more than MaxFaults calls fail and crashes happen.                   *)
(***************************************************************************)
LEMMA TroubleStep == TroubleOK /\ [Next]_vars => TroubleOK'
<1> SUFFICES ASSUME TroubleOK, [Next]_vars PROVE TroubleOK'
    OBVIOUS
<1>1. CASE UNCHANGED trouble
    BY <1>1 DEF TroubleOK, trouble
<1>2. ASSUME NEW ok \in BOOLEAN, NEW done \in BOOLEAN,
             Answers(ok, done) \/ CleansUp(ok, done)
      PROVE  TroubleOK'
    BY <1>2, AnswerKeeps
<1>3. CASE Crash
    <2>1. faults' \in 0..MaxFaults
        BY <1>3, MaxFaultsAssumption DEF Crash, TroubleOK
    <2> QED
        BY <1>3, <2>1 DEF Crash, TroubleOK
<1>4. \/ UNCHANGED trouble \/ Crash
      \/ \E ok, done \in BOOLEAN : Answers(ok, done) \/ CleansUp(ok, done)
    <2>1. CASE UNCHANGED vars
        BY <2>1 DEF vars, trouble
    <2>2. CASE Begin \/ Manager \/ Poll \/ DeleteShare
        BY <2>2 DEF Begin, Manager, CreateFilesystem, Register, StartThread,
                    Return, Poll, DeleteShare
    <2>3. CASE Worker
        BY <2>3 DEF Worker, MakeGroup, AddHost, MakeToken, Rsync, PermitSide,
                    MountSide, UmountSide, Unpermit, RemoveHost, Strip,
                    DeleteGroup,
                    Record
    <2> QED
        BY <2>1, <2>2, <2>3 DEF Next
<1> QED
    BY <1>1, <1>2, <1>3, <1>4

(***************************************************************************)
(* Types are kept: a mount is known as made only once it was made, and the *)
(* client group is there while it lists this host.                         *)
(***************************************************************************)
LEMMA TypeStep == TypeOK /\ FlowInv /\ [Next]_vars => TypeOK'
<1> SUFFICES ASSUME TypeOK /\ FlowInv, [Next]_vars PROVE TypeOK'
    OBVIOUS
<1> USE DEF TypeOK, PlacesOK, ThreadOK, ClusterOK, FlowInv, Side, local,
        access, trouble
<1>t. TroubleOK'
    BY TroubleStep
<1>0. CASE UNCHANGED vars
    BY <1>t, <1>0 DEF vars
<1>1. CASE Begin
    BY <1>t, <1>1 DEF Begin
<1>2. CASE CreateFilesystem
    BY <1>t, <1>2 DEF CreateFilesystem, Answers
<1>3. CASE Register
    BY <1>t, <1>3 DEF Register
<1>4. CASE StartThread
    BY <1>t, <1>4 DEF StartThread
<1>5. CASE Return
    BY <1>t, <1>5 DEF Return
<1>6. CASE Poll
    BY <1>t, <1>6 DEF Poll
<1>7. CASE DeleteShare
    BY <1>t, <1>7 DEF DeleteShare, Answers
<1>8. CASE Crash
    BY <1>t, <1>8 DEF Crash
<1>9. CASE MakeGroup
    <2>1. PICK ok \in BOOLEAN, done \in BOOLEAN :
             /\ worker = "group"
             /\ group' = IF done THEN TRUE ELSE group
             /\ groupUid' = IF ok THEN TRUE ELSE groupUid
             /\ worker' \in {"rule", "umount_dst"}
             /\ failing' = failing \/ failing' = TRUE
        BY <1>9 DEF MakeGroup, Raises
    <2>2. UNCHANGED <<proto, share, call, entry, ruleUid, mine, hostRule,
                      permits, mounted, copied>>
        BY <1>9 DEF MakeGroup, local, access
    <2>3. PlacesOK'
        BY <2>1, <2>2 DEF PlacesOK
    <2>4. ThreadOK'
        BY <2>1, <2>2 DEF ThreadOK
    <2>5. ClusterOK'
        BY <2>1, <2>2 DEF ClusterOK
    <2> QED
        BY <1>t, <2>3, <2>4, <2>5
<1>10. CASE AddHost
    <2>1. PICK ok \in BOOLEAN, done \in BOOLEAN :
             /\ worker = "rule"
             /\ hostRule' = IF done THEN TRUE ELSE hostRule
             /\ ruleUid' = IF ok THEN TRUE ELSE ruleUid
             /\ worker' \in {"permit_src", "umount_dst"}
             /\ failing' = failing \/ failing' = TRUE
        BY <1>10 DEF AddHost, Raises
    <2>2. UNCHANGED <<proto, share, call, entry, groupUid, mine, group,
                      permits, mounted, copied>>
        BY <1>10 DEF AddHost, local, access
    <2>3. PlacesOK'
        BY <2>1, <2>2 DEF PlacesOK
    <2>4. ThreadOK'
        BY <2>1, <2>2 DEF ThreadOK
    <2>5. ClusterOK'
        BY <2>1, <2>2 DEF ClusterOK
    <2> QED
        BY <1>t, <2>3, <2>4, <2>5
<1>11. CASE MakeToken
    BY <1>t, <1>11 DEF MakeToken, Answers
<1>12. CASE Rsync
    <2>1. PICK ok \in BOOLEAN :
             /\ worker' = "umount_dst"
             /\ copied' = IF ok THEN TRUE ELSE copied
             /\ failing' = IF ok THEN FALSE ELSE TRUE
        BY <1>12 DEF Rsync
    <2>2. UNCHANGED <<proto, share, call, entry, groupUid, ruleUid, mine,
                      group, hostRule, permits, mounted>>
        BY <1>12 DEF Rsync, local, access
    <2>3. PlacesOK'
        BY <2>1, <2>2 DEF PlacesOK
    <2>4. ThreadOK'
        BY <2>1, <2>2 DEF ThreadOK
    <2>5. ClusterOK'
        BY <2>1, <2>2 DEF ClusterOK
    <2> QED
        BY <1>t, <2>3, <2>4, <2>5
<1>13. ASSUME NEW side \in Side, PermitSide(side) PROVE TypeOK'
    <2>1. PICK ok \in BOOLEAN, done \in BOOLEAN :
             /\ permits' \subseteq permits \cup {side}
             /\ worker' \in {"permit_dst", "mount_src", "umount_dst"}
             /\ failing' = failing \/ failing' = TRUE
        BY <1>13 DEF PermitSide, Raises
    <2>2. UNCHANGED <<proto, share, call, entry, groupUid, ruleUid, mine,
                      group, hostRule, mounted, copied>>
        BY <1>13 DEF PermitSide, local, access
    <2>3. PlacesOK'
        BY <2>1, <2>2 DEF PlacesOK
    <2>4. ThreadOK'
        BY <2>1, <2>2 DEF ThreadOK
    <2>5. ClusterOK'
        BY <2>1, <2>2 DEF ClusterOK
    <2> QED
        BY <1>t, <2>3, <2>4, <2>5
<1>14. ASSUME NEW side \in Side, MountSide(side) PROVE TypeOK'
    <2>1. PICK ok \in BOOLEAN, done \in BOOLEAN :
             /\ mounted' = mounted \cup (IF done THEN {side} ELSE {})
             /\ mine' = mine \cup (IF ok THEN {side} ELSE {})
             /\ ok => done
             /\ worker' \in {"mount_dst", "rsync", "umount_dst"}
             /\ failing' = failing \/ failing' = TRUE
        BY <1>14, AnswerTells DEF MountSide, Raises
    <2>2. UNCHANGED <<proto, share, call, entry, groupUid, ruleUid, group,
                      hostRule, permits, copied>>
        BY <1>14 DEF MountSide, local, access
    <2>3. PlacesOK'
        BY <2>1, <2>2 DEF PlacesOK
    <2>4. ThreadOK'
        BY <2>1, <2>2 DEF ThreadOK
    <2>5. ClusterOK'
        BY <2>1, <2>2 DEF ClusterOK
    <2> QED
        BY <1>t, <2>3, <2>4, <2>5
<1>15. ASSUME NEW side \in Side, UmountSide(side) PROVE TypeOK'
    BY <1>t, <1>15 DEF UmountSide, CleansUp, AfterUmount
<1>16. CASE Unpermit
    BY <1>t, <1>16 DEF Unpermit, CleansUp
<1>17. CASE RemoveHost
    <2>1. PICK ok \in BOOLEAN, done \in BOOLEAN :
             /\ worker' = "strip"
             /\ \/ hostRule' = hostRule
                \/ hostRule' = IF done THEN FALSE ELSE hostRule
        BY <1>17 DEF RemoveHost
    <2>2. UNCHANGED <<proto, share, call, entry, failing, groupUid, ruleUid,
                      mine, group, permits, mounted, copied>>
        BY <1>17 DEF RemoveHost, local, access
    <2>3. PlacesOK'
        BY <2>1, <2>2 DEF PlacesOK
    <2>4. ThreadOK'
        BY <2>1, <2>2 DEF ThreadOK
    <2>5. ClusterOK'
        BY <2>1, <2>2 DEF ClusterOK
    <2> QED
        BY <1>t, <2>3, <2>4, <2>5
<1>18. CASE Strip
    <2>1. PICK ok \in BOOLEAN, done \in BOOLEAN :
             /\ worker' = "ungroup"
             /\ \/ hostRule' = hostRule
                \/ hostRule' = IF done THEN FALSE ELSE hostRule
        BY <1>18 DEF Strip
    <2>2. UNCHANGED <<proto, share, call, entry, failing, groupUid, ruleUid,
                      mine, group, permits, mounted, copied>>
        BY <1>18 DEF Strip, local, access
    <2>3. PlacesOK'
        BY <2>1, <2>2 DEF PlacesOK
    <2>4. ThreadOK'
        BY <2>1, <2>2 DEF ThreadOK
    <2>5. ClusterOK'
        BY <2>1, <2>2 DEF ClusterOK
    <2> QED
        BY <1>t, <2>3, <2>4, <2>5
<1>19. CASE DeleteGroup
    <2>1. PICK ok \in BOOLEAN, done \in BOOLEAN :
             /\ worker' = "record"
             /\ \/ group' = group
                \/ ~hostRule /\ group' = IF done THEN FALSE ELSE group
        BY <1>19 DEF DeleteGroup
    <2>2. UNCHANGED <<proto, share, call, entry, failing, groupUid, ruleUid,
                      mine, hostRule, permits, mounted, copied>>
        BY <1>19 DEF DeleteGroup, local, access
    <2>3. PlacesOK'
        BY <2>1, <2>2 DEF PlacesOK
    <2>4. ThreadOK'
        BY <2>1, <2>2 DEF ThreadOK
    <2>5. ClusterOK'
        BY <2>1, <2>2 DEF ClusterOK
    <2> QED
        BY <1>t, <2>3, <2>4, <2>5
<1>20. CASE Record
    BY <1>t, <1>20 DEF Record
<1> QED
    BY <1>0, <1>1, <1>2, <1>3, <1>4, <1>5, <1>6, <1>7, <1>8, <1>9, <1>10,
       <1>11, <1>12, <1>13, <1>14, <1>15, <1>16, <1>17, <1>18, <1>19, <1>20
       DEF Next, Manager, Worker

(***************************************************************************)
(* The call goes through its points once.                                  *)
(***************************************************************************)
LEMMA CallStep == CallInv /\ CopyInv /\ [Next]_vars => CallInv'
<1> SUFFICES ASSUME CallInv /\ CopyInv, [Next]_vars PROVE CallInv'
    OBVIOUS
<1> USE DEF CallInv, CopyInv, AtWork, local, access, trouble
<1>0. CASE UNCHANGED vars
    BY <1>0 DEF vars
<1>1. CASE Begin
    BY <1>1 DEF Begin
<1>2. CASE CreateFilesystem
    BY <1>2 DEF CreateFilesystem, Answers
<1>3. CASE Register
    BY <1>3 DEF Register
<1>4. CASE StartThread
    BY <1>4 DEF StartThread
<1>5. CASE Return
    BY <1>5 DEF Return
<1>6. CASE Poll
    BY <1>6 DEF Poll
<1>7. CASE DeleteShare
    BY <1>7 DEF DeleteShare, Answers
<1>8. CASE Crash
    BY <1>8 DEF Crash
<1>9. CASE MakeGroup
    BY <1>9 DEF MakeGroup, Answers, Raises
<1>10. CASE AddHost
    BY <1>10 DEF AddHost, Answers, Raises
<1>11. CASE MakeToken
    BY <1>11 DEF MakeToken, Answers
<1>12. CASE Rsync
    BY <1>12 DEF Rsync, Answers
<1>13. ASSUME NEW side \in Side, PermitSide(side) PROVE CallInv'
    BY <1>13 DEF PermitSide, Answers, Raises
<1>14. ASSUME NEW side \in Side, MountSide(side) PROVE CallInv'
    BY <1>14 DEF MountSide, Answers, Raises
<1>15. ASSUME NEW side \in Side, UmountSide(side) PROVE CallInv'
    BY <1>15 DEF UmountSide, CleansUp, AfterUmount
<1>16. CASE Unpermit
    BY <1>16 DEF Unpermit, CleansUp
<1>17. CASE RemoveHost
    BY <1>17 DEF RemoveHost, CleansUp
<1>18. CASE Strip
    BY <1>18 DEF Strip, CleansUp
<1>19. CASE DeleteGroup
    BY <1>19 DEF DeleteGroup, CleansUp
<1>20. CASE Record
    BY <1>20 DEF Record
<1> QED
    BY <1>0, <1>1, <1>2, <1>3, <1>4, <1>5, <1>6, <1>7, <1>8, <1>9, <1>10,
       <1>11, <1>12, <1>13, <1>14, <1>15, <1>16, <1>17, <1>18, <1>19, <1>20
       DEF Next, Manager, Worker

(***************************************************************************)
(* The entry follows the worker, and the status follows the entry.         *)
(***************************************************************************)
LEMMA CopyStep == TypeOK /\ CallInv /\ CopyInv /\ [Next]_vars => CopyInv'
<1> SUFFICES ASSUME TypeOK /\ CallInv /\ CopyInv, [Next]_vars PROVE CopyInv'
    OBVIOUS
<1> USE DEF CallInv, CopyInv, AtWork, Side, TypeOK, PlacesOK, ThreadOK,
        ClusterOK, local, access, trouble
<1>0. CASE UNCHANGED vars
    BY <1>0 DEF vars
<1>1. CASE Begin
    BY <1>1 DEF Begin
<1>2. CASE CreateFilesystem
    BY <1>2 DEF CreateFilesystem, Answers
<1>3. CASE Register
    BY <1>3 DEF Register
<1>4. CASE StartThread
    BY <1>4 DEF StartThread
<1>5. CASE Return
    BY <1>5 DEF Return
<1>6. CASE Poll
    BY <1>6 DEF Poll
<1>7. CASE DeleteShare
    BY <1>7 DEF DeleteShare, Answers
<1>8. CASE Crash
    BY <1>8 DEF Crash
<1>9. CASE MakeGroup
    BY <1>9 DEF MakeGroup, Answers, Raises
<1>10. CASE AddHost
    BY <1>10 DEF AddHost, Answers, Raises
<1>11. CASE MakeToken
    BY <1>11 DEF MakeToken, Answers
<1>12. CASE Rsync
    BY <1>12 DEF Rsync, Answers
<1>13. ASSUME NEW side \in Side, PermitSide(side) PROVE CopyInv'
    BY <1>13 DEF PermitSide, Answers, Raises
<1>14. ASSUME NEW side \in Side, MountSide(side) PROVE CopyInv'
    BY <1>14 DEF MountSide, Answers, Raises
<1>15. ASSUME NEW side \in Side, UmountSide(side) PROVE CopyInv'
    BY <1>15 DEF UmountSide, CleansUp, AfterUmount
<1>16. CASE Unpermit
    BY <1>16 DEF Unpermit, CleansUp
<1>17. CASE RemoveHost
    BY <1>17 DEF RemoveHost, CleansUp
<1>18. CASE Strip
    BY <1>18 DEF Strip, CleansUp
<1>19. CASE DeleteGroup
    BY <1>19 DEF DeleteGroup, CleansUp
<1>20. CASE Record
    BY <1>20 DEF Record
<1> QED
    BY <1>0, <1>1, <1>2, <1>3, <1>4, <1>5, <1>6, <1>7, <1>8, <1>9, <1>10,
       <1>11, <1>12, <1>13, <1>14, <1>15, <1>16, <1>17, <1>18, <1>19, <1>20
       DEF Next, Manager, Worker

(***************************************************************************)
(* Each protocol keeps to its steps.                                       *)
(***************************************************************************)
LEMMA FlowStep == TypeOK /\ CallInv /\ FlowInv /\ [Next]_vars => FlowInv'
<1> SUFFICES ASSUME TypeOK /\ CallInv /\ FlowInv, [Next]_vars PROVE FlowInv'
    OBVIOUS
<1> USE DEF FlowInv, CallInv, Side, TypeOK, PlacesOK, ThreadOK, ClusterOK,
        local, access, trouble
<1>0. CASE UNCHANGED vars
    BY <1>0 DEF vars
<1>1. CASE Begin
    BY <1>1 DEF Begin
<1>2. CASE CreateFilesystem
    BY <1>2 DEF CreateFilesystem, Answers
<1>3. CASE Register
    BY <1>3 DEF Register
<1>4. CASE StartThread
    BY <1>4 DEF StartThread
<1>5. CASE Return
    BY <1>5 DEF Return
<1>6. CASE Poll
    BY <1>6 DEF Poll
<1>7. CASE DeleteShare
    BY <1>7 DEF DeleteShare, Answers
<1>8. CASE Crash
    BY <1>8 DEF Crash
<1>9. CASE MakeGroup
    BY <1>9 DEF MakeGroup, Answers, Raises
<1>10. CASE AddHost
    BY <1>10 DEF AddHost, Answers, Raises
<1>11. CASE MakeToken
    BY <1>11 DEF MakeToken, Answers
<1>12. CASE Rsync
    BY <1>12 DEF Rsync, Answers
<1>13. ASSUME NEW side \in Side, PermitSide(side) PROVE FlowInv'
    BY <1>13 DEF PermitSide, Answers, Raises
<1>14. ASSUME NEW side \in Side, MountSide(side) PROVE FlowInv'
    BY <1>14 DEF MountSide, Answers, Raises
<1>15. ASSUME NEW side \in Side, UmountSide(side) PROVE FlowInv'
    BY <1>15 DEF UmountSide, CleansUp, AfterUmount
<1>16. CASE Unpermit
    BY <1>16 DEF Unpermit, CleansUp
<1>17. CASE RemoveHost
    BY <1>17 DEF RemoveHost, CleansUp
<1>18. CASE Strip
    BY <1>18 DEF Strip, CleansUp
<1>19. CASE DeleteGroup
    BY <1>19 DEF DeleteGroup, CleansUp
<1>20. CASE Record
    BY <1>20 DEF Record
<1> QED
    BY <1>0, <1>1, <1>2, <1>3, <1>4, <1>5, <1>6, <1>7, <1>8, <1>9, <1>10,
       <1>11, <1>12, <1>13, <1>14, <1>15, <1>16, <1>17, <1>18, <1>19, <1>20
       DEF Next, Manager, Worker

(***************************************************************************)
(* The finally block undoes what was done, step by step.                   *)
(***************************************************************************)
LEMMA CleanStep ==
    TypeOK /\ CallInv /\ FlowInv /\ CleanInv /\ [Next]_vars => CleanInv'
<1> SUFFICES ASSUME TypeOK /\ CallInv /\ FlowInv /\ CleanInv, [Next]_vars
             PROVE CleanInv'
    OBVIOUS
<1> USE DEF CleanInv, FlowInv, CallInv, TypeOK, PlacesOK, ThreadOK,
       ClusterOK, Side, local, access, trouble
<1>0. CASE UNCHANGED vars
    BY <1>0 DEF vars
<1>1. CASE Begin
    BY <1>1 DEF Begin
<1>2. CASE CreateFilesystem
    BY <1>2 DEF CreateFilesystem, Answers
<1>3. CASE Register
    BY <1>3 DEF Register
<1>4. CASE StartThread
    BY <1>4 DEF StartThread
<1>5. CASE Return
    BY <1>5 DEF Return
<1>6. CASE Poll
    BY <1>6 DEF Poll
<1>7. CASE DeleteShare
    BY <1>7 DEF DeleteShare, Answers
<1>8. CASE Crash
    BY <1>8 DEF Crash
<1>9. CASE MakeGroup
    BY <1>9 DEF MakeGroup, Answers, Raises
<1>10. CASE AddHost
    BY <1>10 DEF AddHost, Answers, Raises
<1>11. CASE MakeToken
    <2>1. PICK ok \in BOOLEAN :
             /\ ~messy' => ~messy
             /\ worker' = IF ok THEN "mount_src" ELSE "record"
        BY <1>11, AnswerTells DEF MakeToken
    <2> QED
        BY <1>11, <2>1 DEF MakeToken
<1>12. CASE Rsync
    BY <1>12 DEF Rsync, Answers
<1>13. ASSUME NEW side \in Side, PermitSide(side) PROVE CleanInv'
    BY <1>13 DEF PermitSide, Answers, Raises
<1>14. ASSUME NEW side \in Side, MountSide(side) PROVE CleanInv'
    <2>1. PICK ok \in BOOLEAN, done \in BOOLEAN :
             /\ mounted' = mounted \cup (IF done THEN {side} ELSE {})
             /\ mine' = mine \cup (IF ok THEN {side} ELSE {})
             /\ ok => done
             /\ ~messy' => ~messy /\ (done => ok)
             /\ worker' = IF ~ok THEN "umount_dst" ELSE
                          IF side = "src" THEN "mount_dst" ELSE "rsync"
        BY <1>14, AnswerTells DEF MountSide, Raises
    <2> QED
        BY <1>14, <2>1 DEF MountSide
<1>15. ASSUME NEW side \in Side, UmountSide(side) PROVE CleanInv'
    BY <1>15 DEF UmountSide, CleansUp, AfterUmount
<1>16. CASE Unpermit
    BY <1>16 DEF Unpermit, CleansUp
<1>17. CASE RemoveHost
    BY <1>17 DEF RemoveHost, CleansUp
<1>18. CASE Strip
    BY <1>18 DEF Strip, CleansUp
<1>19. CASE DeleteGroup
    BY <1>19 DEF DeleteGroup, CleansUp
<1>20. CASE Record
    BY <1>20 DEF Record
<1> QED
    BY <1>0, <1>1, <1>2, <1>3, <1>4, <1>5, <1>6, <1>7, <1>8, <1>9, <1>10,
       <1>11, <1>12, <1>13, <1>14, <1>15, <1>16, <1>17, <1>18, <1>19, <1>20
       DEF Next, Manager, Worker

(***************************************************************************)
(* The invariant holds in every state.                                     *)
(***************************************************************************)
THEOREM Invariance == Spec => []IInv
<1>1. Init => IInv
    BY MaxFaultsAssumption
       DEF Init, IInv, TypeOK, PlacesOK, ThreadOK, ClusterOK,
           TroubleOK, CallInv, CopyInv, FlowInv, CleanInv, AtWork, Side
<1>2. IInv /\ [Next]_vars => IInv'
    BY TypeStep, CallStep, CopyStep, FlowStep, CleanStep DEF IInv
<1> QED
    BY <1>1, <1>2, PTL DEF Spec

(***************************************************************************)
(* Every variable keeps its type.                                          *)
(***************************************************************************)
THEOREM TypeCorrect == Spec => []TypeOK
<1>1. IInv => TypeOK
    BY DEF IInv
<1> QED
    BY <1>1, Invariance, PTL

(***************************************************************************)
(* A clone shown as available holds the whole snapshot, whatever fails and *)
(* wherever the process dies.                                              *)
(***************************************************************************)
THEOREM AvailableHasAll == Spec => []AvailableIsComplete
<1>1. IInv => AvailableIsComplete
    BY DEF IInv, CopyInv, AvailableIsComplete
<1> QED
    BY <1>1, Invariance, PTL

(***************************************************************************)
(* No thread copies into a clone that can be used or deleted.              *)
(***************************************************************************)
THEOREM NoLateCopy == Spec => []SettledIsQuiet
<1>1. IInv => SettledIsQuiet
    BY DEF IInv, CopyInv, AtWork, SettledIsQuiet
<1> QED
    BY <1>1, Invariance, PTL

(***************************************************************************)
(* A copy that ended, well or badly, leaves no mount, permission or client *)
(* group, unless a call had an effect it did not report or cleaning up     *)
(* failed.                                                                 *)
(***************************************************************************)
THEOREM CleanupIsComplete == Spec => []LeavesNothing
<1>1. IInv => LeavesNothing
    BY DEF IInv, CleanInv, LeavesNothing
<1> QED
    BY <1>1, Invariance, PTL

-----------------------------------------------------------------------------
(***************************************************************************)
(* Liveness.  The thread passes each place once, so it comes to an end; and *)
(* a clone whose thread has ended, or died, is settled by the next poll.   *)
(***************************************************************************)

\* How many places the thread has still to pass, at most.
Ahead ==
    [w \in {"none", "token", "group", "rule", "permit_src", "permit_dst",
            "mount_src", "mount_dst", "rsync", "umount_dst", "umount_src",
            "unpermit", "unrule", "strip", "ungroup", "record", "done",
            "dead"} |->
        CASE w = "group"      -> 14 [] w = "rule"       -> 13
          [] w = "permit_src" -> 12 [] w = "permit_dst" -> 11
          [] w = "token"      -> 11 [] w = "mount_src"  -> 10
          [] w = "mount_dst"  -> 9  [] w = "rsync"      -> 8
          [] w = "umount_dst" -> 7  [] w = "umount_src" -> 6
          [] w = "unpermit"   -> 5  [] w = "unrule"     -> 4
          [] w = "strip"      -> 3  [] w = "ungroup"    -> 2
          [] w = "record"     -> 1  [] OTHER            -> 0]

Falls == /\ Ahead[worker'] \in Nat /\ Ahead[worker'] < Ahead[worker]
         /\ share' = share

Copying == share = "creating_from_snapshot"
Settled == share \in {"available", "error", "deleted"}

(***************************************************************************)
(* A thread at work has places ahead of it, and no other has.              *)
(***************************************************************************)
LEMMA AheadIsNat ==
    PlacesOK => Ahead[worker] \in 0..14 /\ (AtWork <=> Ahead[worker] > 0)
BY DEF PlacesOK, Ahead, AtWork

(***************************************************************************)
(* Every step of the thread leaves fewer ahead, whatever fails.            *)
(***************************************************************************)
LEMMA WorkerAhead ==
    TypeOK /\ Worker => Falls
<1> SUFFICES ASSUME TypeOK, Worker PROVE Falls
    OBVIOUS
<1> USE DEF TypeOK, PlacesOK, Ahead, Falls
<1>1. CASE MakeGroup
    BY <1>1 DEF MakeGroup, Raises
<1>2. CASE AddHost
    BY <1>2 DEF AddHost, Raises
<1>3. CASE MakeToken
    BY <1>3 DEF MakeToken
<1>4. CASE Rsync
    BY <1>4 DEF Rsync
<1>5. ASSUME NEW side \in Side, PermitSide(side)
      PROVE  Falls
    BY <1>5 DEF PermitSide, Raises, Side
<1>6. ASSUME NEW side \in Side, MountSide(side)
      PROVE  Falls
    BY <1>6 DEF MountSide, Raises, Side
<1>7. ASSUME NEW side \in Side, UmountSide(side)
      PROVE  Falls
    <2>1. worker' = AfterUmount(side) /\ share' = share
        BY <1>7 DEF UmountSide
    <2>2. CASE side = "src"
        BY <1>7, <2>1, <2>2 DEF UmountSide, AfterUmount
    <2>3. CASE side = "dst"
        BY <1>7, <2>1, <2>3 DEF UmountSide, AfterUmount
    <2> QED
        BY <2>2, <2>3 DEF Side
<1>8. CASE Unpermit
    <2>1. worker = "unpermit" /\ worker' \in {"unrule", "record"}
          /\ share' = share
        BY <1>8 DEF Unpermit
    <2> QED
        BY <2>1
<1>10. CASE RemoveHost
    <2>1. worker = "unrule" /\ worker' = "strip" /\ share' = share
        BY <1>10 DEF RemoveHost
    <2> QED
        BY <2>1
<1>11. CASE Strip
    <2>1. worker = "strip" /\ worker' = "ungroup" /\ share' = share
        BY <1>11 DEF Strip
    <2> QED
        BY <2>1
<1>12. CASE DeleteGroup
    <2>1. worker = "ungroup" /\ worker' = "record" /\ share' = share
        BY <1>12 DEF DeleteGroup
    <2> QED
        BY <2>1
<1>9. CASE Record
    BY <1>9 DEF Record
<1> QED
    BY <1>1, <1>2, <1>3, <1>4, <1>5, <1>6, <1>7, <1>8, <1>9, <1>10,
       <1>11, <1>12
       DEF Worker

\* A clone being created has its thread, and what that ended with can be seen.
SeenInv ==
    /\ Copying \/ call = "return" => worker # "none"
    /\ worker \in {"done", "dead"} => entry # "creating_from_snapshot"

(***************************************************************************)
(* That is kept.                                                           *)
(***************************************************************************)
LEMMA SeenStep == IInv /\ SeenInv /\ [Next]_vars => SeenInv'
<1> SUFFICES ASSUME IInv, SeenInv, [Next]_vars PROVE SeenInv'
    OBVIOUS
<1> USE DEF IInv, SeenInv, Copying, TypeOK, PlacesOK, CallInv, CopyInv, AtWork
<1>1. CASE UNCHANGED vars
    BY <1>1 DEF vars
<1>2. CASE Begin \/ Manager \/ Poll \/ DeleteShare \/ Crash
    BY <1>2 DEF Begin, Manager, CreateFilesystem, Register, StartThread,
       Return, Poll, DeleteShare, Crash
<1>3. CASE Worker
    BY <1>3 DEF Worker, MakeGroup, AddHost, MakeToken, Rsync, PermitSide,
       MountSide, UmountSide, AfterUmount, Unpermit, RemoveHost, Strip,
       DeleteGroup, Record, Raises, Side
<1> QED
    BY <1>1, <1>2, <1>3 DEF Next

(***************************************************************************)
(* A clone being created goes on being created or is settled; nobody adds to *)
(* what its thread has to do, and what the thread ended with stays.        *)
(***************************************************************************)
LEMMA CopyingGoesOn ==
    IInv /\ SeenInv /\ Copying /\ [Next]_vars =>
        \/ Settled'
        \/ /\ Copying' /\ Ahead[worker'] \in 0..Ahead[worker]
           /\ entry # "creating_from_snapshot" /\ ~AtWork =>
                  entry' # "creating_from_snapshot" /\ ~AtWork'
<1> SUFFICES ASSUME IInv, SeenInv, Copying, [Next]_vars
             PROVE  \/ Settled'
                    \/ /\ Copying' /\ Ahead[worker'] \in 0..Ahead[worker]
                       /\ entry # "creating_from_snapshot" /\ ~AtWork =>
                              entry' # "creating_from_snapshot" /\ ~AtWork'
    OBVIOUS
<1> USE DEF IInv, TypeOK, PlacesOK, Copying, Settled
<1>1. CASE UNCHANGED vars
    BY <1>1, AheadIsNat DEF vars, AtWork
<1>2. CASE Begin \/ Manager \/ DeleteShare
    BY <1>2, AheadIsNat
       DEF Begin, Manager, CreateFilesystem, Register, StartThread, Return,
           DeleteShare, CallInv, AtWork
<1>3. CASE Poll
    BY <1>3, AheadIsNat DEF Poll, AtWork
<1>4. CASE Crash
    <2>1. worker' = "dead" \/ worker' = worker
        BY <1>4 DEF Crash
    <2> QED
        BY <1>4, <2>1 DEF Crash, Ahead, AtWork
<1>5. CASE Worker
    <2>1. AtWork
        BY <1>5 DEF Worker, MakeGroup, AddHost, MakeToken, Rsync, PermitSide,
           MountSide, UmountSide, Unpermit, RemoveHost, Strip, DeleteGroup,
           Record, AtWork, Side
    <2> QED
        BY <1>5, <2>1, WorkerAhead, AheadIsNat DEF Falls
<1> QED
    BY <1>1, <1>2, <1>3, <1>4, <1>5 DEF Next

\* What enables the thread and the manager's polling.
ThreadCanWork == AtWork => ENABLED <<Worker>>_vars
PollCanSettle ==
    Copying /\ entry # "creating_from_snapshot" => ENABLED <<Poll>>_vars

\* From k places ahead, a step leaves no more, and one of the thread fewer.
At(k) == Copying /\ Ahead[worker] <= k

Down(j, k) ==
    /\ IInv /\ SeenInv /\ At(k) /\ [Next]_vars => At(k)' \/ Settled'
    /\ IInv /\ SeenInv /\ At(k) /\ <<Worker>>_vars => At(j)'
    /\ IInv /\ At(k) /\ ~AtWork => At(j)

(***************************************************************************)
(* That holds from wherever the thread stands.                             *)
(***************************************************************************)
LEMMA OneDown == ASSUME NEW j \in Nat PROVE Down(j, j + 1)
<1>1. IInv /\ SeenInv /\ At(j + 1) /\ [Next]_vars => At(j + 1)' \/ Settled'
    <2> SUFFICES ASSUME IInv, SeenInv, At(j + 1), [Next]_vars, ~Settled'
                 PROVE  At(j + 1)'
        OBVIOUS
    <2> QED
        BY CopyingGoesOn, AheadIsNat DEF At, IInv, TypeOK
<1>2. IInv /\ SeenInv /\ At(j + 1) /\ <<Worker>>_vars => At(j)'
    BY WorkerAhead, AheadIsNat DEF At, Falls, IInv, TypeOK, Copying
<1>3. IInv /\ At(j + 1) /\ ~AtWork => At(j)
    BY AheadIsNat DEF At, IInv, TypeOK
<1> QED
    BY <1>1, <1>2, <1>3 DEF Down

(***************************************************************************)
(* The thread takes at most fourteen steps, each of which leaves fewer.    *)
(***************************************************************************)
THEOREM CopyAdvances == Spec => [][Worker => Falls]_vars
<1>1. IInv /\ [Next]_vars => [Worker => Falls]_vars
    BY WorkerAhead DEF IInv
<1> QED
    BY <1>1, Invariance, PTL DEF Spec

(***************************************************************************)
(* A clone being created is shown as available or in error at last, as long *)
(* as its thread runs on and the manager polls, and each can when it should; *)
(* however many failures and crashes there are.                            *)
(***************************************************************************)
THEOREM CopySettles ==
    LiveSpec /\ []ThreadCanWork /\ []PollCanSettle => Settles
<1>1. Init => SeenInv
    BY DEF Init, SeenInv, Copying
<1>2. IInv /\ SeenInv /\ At(0) =>
          Copying /\ entry # "creating_from_snapshot" /\ ~AtWork
    BY AheadIsNat DEF At, IInv, TypeOK, SeenInv, PlacesOK, AtWork
<1>3. /\ Down(0, 1) /\ Down(1, 2) /\ Down(2, 3) /\ Down(3, 4)
      /\ Down(4, 5) /\ Down(5, 6) /\ Down(6, 7) /\ Down(7, 8)
      /\ Down(8, 9) /\ Down(9, 10) /\ Down(10, 11) /\ Down(11, 12)
      /\ Down(12, 13) /\ Down(13, 14)
    BY OneDown
<1> DEFINE Rest == Copying /\ entry # "creating_from_snapshot" /\ ~AtWork
<1>4. IInv /\ SeenInv /\ Rest /\ [Next]_vars => Rest' \/ Settled'
    BY CopyingGoesOn, AheadIsNat DEF IInv, TypeOK
<1>5. IInv /\ Rest /\ <<Poll>>_vars => Settled'
    BY DEF Poll, Settled, IInv, TypeOK, PlacesOK
<1>6. Rest => Copying /\ entry # "creating_from_snapshot"
    OBVIOUS
<1>7. IInv /\ Copying => At(14)
    BY AheadIsNat DEF At, IInv, TypeOK
<1>8. IInv /\ SeenInv /\ At(0) => Rest
    BY <1>2
<1> HIDE DEF Rest
<1> USE DEF LiveSpec, Fairness, ThreadCanWork, PollCanSettle
<1>9. LiveSpec /\ []PollCanSettle =>
          []IInv /\ []SeenInv /\ [](Rest => <>Settled)
    BY Invariance, <1>1, SeenStep, <1>4, <1>5, <1>6, PTL DEF Spec
<1>10. LiveSpec /\ []ThreadCanWork /\ []PollCanSettle =>
          [](At(14) => <>Settled)
    BY <1>3, <1>8, <1>9, PTL DEF Spec, Down
<1>11. LiveSpec /\ []ThreadCanWork /\ []PollCanSettle =>
          [](Copying => <>Settled)
    BY <1>7, <1>9, <1>10, PTL
<1> QED
    BY <1>11, PTL DEF Settles, Copying, Settled
=============================================================================
