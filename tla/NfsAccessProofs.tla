--------------------------- MODULE NfsAccessProofs ---------------------------
(***************************************************************************)
(* Proofs about NfsAccess, for any set of rules and any number of failures *)
(* and crashes.                                                            *)
(***************************************************************************)
EXTENDS NfsAccess, TLAPS

(***************************************************************************)
(* The inductive invariant.  That an active rule stays exported needs what *)
(* each loop may still reach -- rules that are asked for when applying,    *)
(* rules that are not when revoking and pruning -- and what each point of  *)
(* the work on one rule knows of its group, address and permission.        *)
(***************************************************************************)
Working == pc \notin {"idle", "down"}

\* What each loop may find in its list.
LoopInv ==
    Working =>
        /\ \A c \in dels : want[c] = "none"
        /\ phase = "apply" => \A c \in todo : want[c] # "none"
        /\ phase \in {"revoke", "prune", "groups"} =>
              \A c \in todo : want[c] = "none"
        /\ phase \in {"prune", "groups"} =>
              \A c \in stale : want[c] = "none" /\ perms[c] = "none"
        /\ phase = "groups" => \A c \in todo : perms[c] = "none"

\* Where the work on the rule cur stands.
RuleInv ==
    /\ pc \in {"group", "addr", "perm"} =>
          phase = "apply" /\ want[cur] # "none"
    /\ pc \in {"addr", "perm"} => cur \in groups
    /\ pc = "perm" => cur \in addrs
    /\ pc = "unperm" => phase \in {"revoke", "prune"} /\ want[cur] = "none"
    /\ pc \in {"strip", "ungroup"} =>
          phase \in {"revoke", "groups"} /\ want[cur] = "none"
              /\ perms[cur] = "none"

ActiveInv ==
    \A c \in Client : "active" \in {state[c], report[c]} => want[c] # "none"

\* Which rules the manager still waits for, and what the call has to report.
Settled(c) == state[c] \in {"active", "error"}

AnsweredInv ==
    /\ \A c \in Client :
          IF want[c] = "none" THEN state[c] # "queued"
                              ELSE state[c] \notin {"none", "denying"}
    /\ ~Working => report = NoAnswer
    /\ pc = "idle" =>
          \A c \in Client : state[c] \in {"none", "active", "error"}
    /\ Working =>
          \A c \in Client : want[c] # "none" =>
              \/ Settled(c) \/ report[c] # "none"
              \/ phase = "apply" /\ (c \in todo \/ (pc # "next" /\ c = cur))

\* With no failure, what the loops have not reached yet is all there is to do.
Done(c) == want[c] # "none" => Exported(c, want[c])
Gone(c) == want[c] = "none" => perms[c] = "none"

CleanInv ==
    ~dirty =>
        /\ pc # "down"
        /\ pc = "idle" => \A c \in Client : Done(c) /\ Gone(c)
        /\ Working /\ phase = "apply" =>
              \A c \in Client :
                  c \in todo \/ Done(c) \/ (c = cur /\ pc # "next")
        /\ Working /\ phase # "apply" => \A c \in Client : Done(c)
        /\ Working /\ ~sync /\ phase = "apply" =>
              \A c \in Client : c \in dels \/ Gone(c)
        /\ Working /\ phase \in {"prune", "groups"} => sync
        /\ Working /\ (phase = "prune" \/ (phase = "revoke" /\ ~sync)) =>
              \A c \in Client :
                  c \in todo \/ Gone(c) \/ (c = cur /\ pc = "unperm")
        /\ Working /\ phase = "groups" => \A c \in Client : Gone(c)

SafeInv == TypeOK /\ LoopInv /\ RuleInv /\ ActiveInv /\ AnsweredInv
               /\ PermissionHasGroup /\ ActiveIsExported
-----------------------------------------------------------------------------
(***************************************************************************)
(* An answer, good or bad, keeps the bounds.                               *)
(***************************************************************************)
LEMMA AnswersType ==
    ASSUME TypeOK, NEW ok \in BOOLEAN, NEW done \in BOOLEAN, Answers(ok, done)
    PROVE  faults' \in 0..MaxFaults /\ dirty' \in BOOLEAN
<1>1. CASE UNCHANGED trouble
    BY <1>1 DEF TypeOK, trouble
<1>2. CASE Fault
    <2>1. faults' \in 0..MaxFaults
        BY <1>2, MaxFaultsAssumption DEF TypeOK, Fault
    <2>2. dirty' \in BOOLEAN
        BY <1>2 DEF Fault
    <2> QED
        BY <2>1, <2>2
<1> QED
    BY <1>1, <1>2 DEF Answers

(***************************************************************************)
(* Types are kept: an address is in a group only while the group is there. *)
(***************************************************************************)
LEMMA TypeStep ==
    TypeOK /\ RuleInv /\ [Next]_vars => TypeOK'
<1> SUFFICES ASSUME TypeOK /\ RuleInv, [Next]_vars PROVE TypeOK'
    OBVIOUS
<1> USE MaxFaultsAssumption DEF TypeOK, ManagerTypeOK, Level, Other,
                                RuleState, PC, Phase, Answer, NoAnswer,
                                RuleInv, rules,
                                cluster, loop, trouble
<1>0. CASE UNCHANGED vars
    BY <1>0 DEF vars
<1>1. ASSUME NEW add \in SUBSET Client, NEW upd \in SUBSET Client,
             NEW del \in SUBSET Client, UpdateAccess(add, upd, del)
      PROVE  TypeOK'
    BY <1>1 DEF UpdateAccess, HandsOver
<1>2. CASE FullSync
    BY <1>2 DEF FullSync, HandsOverAll, Ruled
<1>3. CASE Crash
    BY <1>3 DEF Crash, Fault
<1>4. ASSUME NEW a \in Client, ApplyRule(a)
      PROVE  TypeOK'
    BY <1>4 DEF ApplyRule, Reach
<1>5. ASSUME NEW a \in Client, RevokeRule(a)
      PROVE  TypeOK'
    BY <1>5 DEF RevokeRule, Reach
<1>6. ASSUME NEW a \in Client, PruneRule(a)
      PROVE  TypeOK'
    BY <1>6 DEF PruneRule, Reach
<1>7. ASSUME NEW a \in Client, PruneGroup(a)
      PROVE  TypeOK'
    BY <1>7 DEF PruneGroup, Reach
<1>8. CASE ApplyDone
    BY <1>8 DEF ApplyDone
<1>9. CASE RevokeDone
    BY <1>9 DEF RevokeDone, Unbacked
<1>10. CASE PruneDone
    BY <1>10 DEF PruneDone
<1>11. CASE Return
    BY <1>11 DEF Return, Stores
<1>12. CASE Abort
    BY <1>12 DEF Abort, Fault, MarksError
<1>13. CASE MakeGroup
    <2>1. faults' \in 0..MaxFaults /\ dirty' \in BOOLEAN
        BY <1>13, AnswersType DEF MakeGroup
    <2>2. report' \in [Client -> Answer] /\ pc' \in PC
        BY <1>13 DEF MakeGroup, RuleEnds
    <2>3. /\ groups' \in SUBSET Client /\ addrs' \in SUBSET groups'
          /\ perms' \in [Client -> Level \cup {"none"}]
        BY <1>13 DEF MakeGroup
    <2> QED
        BY <1>13, <2>1, <2>2, <2>3 DEF MakeGroup, loop
<1>14. CASE AddAddr
    <2>1. faults' \in 0..MaxFaults /\ dirty' \in BOOLEAN
        BY <1>14, AnswersType DEF AddAddr
    <2>2. report' \in [Client -> Answer] /\ pc' \in PC
        BY <1>14 DEF AddAddr, RuleEnds
    <2>3. /\ groups' \in SUBSET Client /\ addrs' \in SUBSET groups'
          /\ perms' \in [Client -> Level \cup {"none"}]
        BY <1>14 DEF AddAddr
    <2> QED
        BY <1>14, <2>1, <2>2, <2>3 DEF AddAddr, loop
<1>15. CASE Permit
    <2>1. faults' \in 0..MaxFaults /\ dirty' \in BOOLEAN
        BY <1>15, AnswersType DEF Permit
    <2>2. report' \in [Client -> Answer] /\ pc' \in PC
        BY <1>15 DEF Permit, RuleEnds
    <2>3. /\ groups' \in SUBSET Client /\ addrs' \in SUBSET groups'
          /\ perms' \in [Client -> Level \cup {"none"}]
        BY <1>15 DEF Permit
    <2> QED
        BY <1>15, <2>1, <2>2, <2>3 DEF Permit, loop
<1>16. CASE Unpermit
    <2>1. faults' \in 0..MaxFaults /\ dirty' \in BOOLEAN
        BY <1>16, AnswersType DEF Unpermit
    <2>2. report' \in [Client -> Answer] /\ pc' \in PC
        BY <1>16 DEF Unpermit, RuleEnds
    <2>3. /\ groups' \in SUBSET Client /\ addrs' \in SUBSET groups'
          /\ perms' \in [Client -> Level \cup {"none"}]
        BY <1>16 DEF Unpermit
    <2> QED
        BY <1>16, <2>1, <2>2, <2>3 DEF Unpermit, loop
<1>17. CASE DeletePerm
    <2>1. faults' \in 0..MaxFaults /\ dirty' \in BOOLEAN
        BY <1>17, AnswersType DEF DeletePerm
    <2>2. report' \in [Client -> Answer] /\ pc' \in PC
        BY <1>17 DEF DeletePerm
    <2>3. /\ groups' \in SUBSET Client /\ addrs' \in SUBSET groups'
          /\ perms' \in [Client -> Level \cup {"none"}]
        BY <1>17 DEF DeletePerm
    <2>4. stale' \in SUBSET Client
        BY <1>17 DEF DeletePerm
    <2> QED
        BY <1>17, <2>1, <2>2, <2>3, <2>4 DEF DeletePerm, loop
<1>18. CASE NoPerm
    BY <1>18 DEF NoPerm, RuleEnds
<1>19. CASE Strip
    <2>1. faults' \in 0..MaxFaults /\ dirty' \in BOOLEAN
        BY <1>19, AnswersType DEF Strip
    <2>2. report' \in [Client -> Answer] /\ pc' \in PC
        BY <1>19 DEF Strip
    <2>3. /\ groups' \in SUBSET Client /\ addrs' \in SUBSET groups'
          /\ perms' \in [Client -> Level \cup {"none"}]
        BY <1>19 DEF Strip
    <2> QED
        BY <1>19, <2>1, <2>2, <2>3 DEF Strip, loop
<1>20. CASE GroupLookupFails
    BY <1>20 DEF GroupLookupFails, Fault, RuleEnds
<1>21. CASE DeleteGroup
    <2>1. faults' \in 0..MaxFaults /\ dirty' \in BOOLEAN
        BY <1>21, AnswersType DEF DeleteGroup
    <2>2. report' \in [Client -> Answer] /\ pc' \in PC
        BY <1>21 DEF DeleteGroup, RuleEnds
    <2>3. /\ groups' \in SUBSET Client /\ addrs' \in SUBSET groups'
          /\ perms' \in [Client -> Level \cup {"none"}]
        BY <1>21 DEF DeleteGroup
    <2> QED
        BY <1>21, <2>1, <2>2, <2>3 DEF DeleteGroup, loop
<1>22. CASE GroupInUse
    BY <1>22 DEF GroupInUse, RuleEnds
<1> QED
    BY <1>0, <1>1, <1>2, <1>3, <1>4, <1>5, <1>6, <1>7, <1>8, <1>9, <1>10,
       <1>11, <1>12, <1>13, <1>14, <1>15, <1>16, <1>17, <1>18, <1>19, <1>20,
       <1>21, <1>22
       DEF Next, Manage, Call

(***************************************************************************)
(* The loops reach only the rules they are meant for.                      *)
(***************************************************************************)
LEMMA LoopStep ==
    TypeOK /\ LoopInv /\ RuleInv /\ [Next]_vars => LoopInv'
<1> SUFFICES ASSUME TypeOK /\ LoopInv /\ RuleInv, [Next]_vars PROVE LoopInv'
    OBVIOUS
<1> USE DEF TypeOK, ManagerTypeOK, Level, Other, LoopInv, RuleInv, Working,
            rules, cluster, loop, trouble
<1>0. CASE UNCHANGED vars
    BY <1>0 DEF vars
<1>1. ASSUME NEW add \in SUBSET Client, NEW upd \in SUBSET Client,
             NEW del \in SUBSET Client, UpdateAccess(add, upd, del)
      PROVE  LoopInv'
    BY <1>1 DEF UpdateAccess, HandsOver
<1>2. CASE FullSync
    BY <1>2 DEF FullSync, HandsOverAll, Ruled
<1>3. CASE Crash
    BY <1>3 DEF Crash, Fault
<1>4. ASSUME NEW a \in Client, ApplyRule(a)
      PROVE  LoopInv'
    BY <1>4 DEF ApplyRule, Reach
<1>5. ASSUME NEW a \in Client, RevokeRule(a)
      PROVE  LoopInv'
    BY <1>5 DEF RevokeRule, Reach
<1>6. ASSUME NEW a \in Client, PruneRule(a)
      PROVE  LoopInv'
    BY <1>6 DEF PruneRule, Reach
<1>7. ASSUME NEW a \in Client, PruneGroup(a)
      PROVE  LoopInv'
    BY <1>7 DEF PruneGroup, Reach
<1>8. CASE ApplyDone
    BY <1>8 DEF ApplyDone
<1>9. CASE RevokeDone
    BY <1>9 DEF RevokeDone, Unbacked
<1>10. CASE PruneDone
    BY <1>10 DEF PruneDone
<1>11. CASE Return
    BY <1>11 DEF Return, Stores
<1>12. CASE Abort
    BY <1>12 DEF Abort, Fault, MarksError
<1>13. CASE MakeGroup
    BY <1>13 DEF MakeGroup, RuleEnds, Answers, Fault
<1>14. CASE AddAddr
    BY <1>14 DEF AddAddr, RuleEnds, Answers, Fault
<1>15. CASE Permit
    BY <1>15 DEF Permit, RuleEnds, Answers, Fault
<1>16. CASE Unpermit
    BY <1>16 DEF Unpermit, RuleEnds, Answers, Fault
<1>17. CASE DeletePerm
    BY <1>17 DEF DeletePerm, Answers, Fault
<1>18. CASE NoPerm
    BY <1>18 DEF NoPerm, RuleEnds
<1>19. CASE Strip
    BY <1>19 DEF Strip, Answers, Fault
<1>20. CASE GroupLookupFails
    BY <1>20 DEF GroupLookupFails, Fault, RuleEnds
<1>21. CASE DeleteGroup
    BY <1>21 DEF DeleteGroup, RuleEnds, Answers, Fault
<1>22. CASE GroupInUse
    BY <1>22 DEF GroupInUse, RuleEnds
<1> QED
    BY <1>0, <1>1, <1>2, <1>3, <1>4, <1>5, <1>6, <1>7, <1>8, <1>9, <1>10,
       <1>11, <1>12, <1>13, <1>14, <1>15, <1>16, <1>17, <1>18, <1>19, <1>20,
       <1>21, <1>22
       DEF Next, Manage, Call

(***************************************************************************)
(* Each point of the work on a rule finds what the points before it made.  *)
(***************************************************************************)
LEMMA RuleStep ==
    TypeOK /\ LoopInv /\ RuleInv /\ [Next]_vars => RuleInv'
<1> SUFFICES ASSUME TypeOK /\ LoopInv /\ RuleInv, [Next]_vars PROVE RuleInv'
    OBVIOUS
<1> USE DEF TypeOK, ManagerTypeOK, Level, Other, LoopInv, RuleInv, Working,
            rules, cluster, loop, trouble
<1>0. CASE UNCHANGED vars
    BY <1>0 DEF vars
<1>1. ASSUME NEW add \in SUBSET Client, NEW upd \in SUBSET Client,
             NEW del \in SUBSET Client, UpdateAccess(add, upd, del)
      PROVE  RuleInv'
    BY <1>1 DEF UpdateAccess, HandsOver
<1>2. CASE FullSync
    BY <1>2 DEF FullSync, HandsOverAll, Ruled
<1>3. CASE Crash
    BY <1>3 DEF Crash, Fault
<1>4. ASSUME NEW a \in Client, ApplyRule(a)
      PROVE  RuleInv'
    BY <1>4 DEF ApplyRule, Reach
<1>5. ASSUME NEW a \in Client, RevokeRule(a)
      PROVE  RuleInv'
    BY <1>5 DEF RevokeRule, Reach
<1>6. ASSUME NEW a \in Client, PruneRule(a)
      PROVE  RuleInv'
    BY <1>6 DEF PruneRule, Reach
<1>7. ASSUME NEW a \in Client, PruneGroup(a)
      PROVE  RuleInv'
    BY <1>7 DEF PruneGroup, Reach
<1>8. CASE ApplyDone
    BY <1>8 DEF ApplyDone
<1>9. CASE RevokeDone
    BY <1>9 DEF RevokeDone, Unbacked
<1>10. CASE PruneDone
    BY <1>10 DEF PruneDone
<1>11. CASE Return
    BY <1>11 DEF Return, Stores
<1>12. CASE Abort
    BY <1>12 DEF Abort, Fault, MarksError
<1>13. CASE MakeGroup
    BY <1>13 DEF MakeGroup, RuleEnds, Answers, Fault
<1>14. CASE AddAddr
    BY <1>14 DEF AddAddr, RuleEnds, Answers, Fault
<1>15. CASE Permit
    BY <1>15 DEF Permit, RuleEnds, Answers, Fault
<1>16. CASE Unpermit
    BY <1>16 DEF Unpermit, RuleEnds, Answers, Fault
<1>17. CASE DeletePerm
    BY <1>17 DEF DeletePerm, Answers, Fault
<1>18. CASE NoPerm
    BY <1>18 DEF NoPerm, RuleEnds
<1>19. CASE Strip
    BY <1>19 DEF Strip, Answers, Fault
<1>20. CASE GroupLookupFails
    BY <1>20 DEF GroupLookupFails, Fault, RuleEnds
<1>21. CASE DeleteGroup
    BY <1>21 DEF DeleteGroup, RuleEnds, Answers, Fault
<1>22. CASE GroupInUse
    BY <1>22 DEF GroupInUse, RuleEnds
<1> QED
    BY <1>0, <1>1, <1>2, <1>3, <1>4, <1>5, <1>6, <1>7, <1>8, <1>9, <1>10,
       <1>11, <1>12, <1>13, <1>14, <1>15, <1>16, <1>17, <1>18, <1>19, <1>20,
       <1>21, <1>22
       DEF Next, Manage, Call

(***************************************************************************)
(* Only a rule that is asked for is shown as active.                       *)
(***************************************************************************)
LEMMA ActiveStep ==
    TypeOK /\ RuleInv /\ ActiveInv /\ AnsweredInv /\ [Next]_vars => ActiveInv'
<1> SUFFICES ASSUME TypeOK /\ RuleInv /\ ActiveInv /\ AnsweredInv, [Next]_vars
             PROVE ActiveInv'
    OBVIOUS
<1> USE DEF TypeOK, ManagerTypeOK, RuleInv, ActiveInv, Level, Other, rules,
            cluster, loop, trouble, NoAnswer
<1>0. CASE UNCHANGED vars
    BY <1>0 DEF vars
<1>1. ASSUME NEW add \in SUBSET Client, NEW upd \in SUBSET Client,
             NEW del \in SUBSET Client, UpdateAccess(add, upd, del)
      PROVE  ActiveInv'
    <2>1. report' = NoAnswer
        BY <1>1 DEF UpdateAccess, AnsweredInv, Working
    <2> QED
        BY <1>1, <2>1 DEF UpdateAccess, HandsOver
<1>2. CASE FullSync
    BY <1>2 DEF FullSync, HandsOverAll, Ruled
<1>3. CASE Crash
    BY <1>3 DEF Crash, Fault
<1>4. ASSUME NEW a \in Client, ApplyRule(a)
      PROVE  ActiveInv'
    BY <1>4 DEF ApplyRule, Reach
<1>5. ASSUME NEW a \in Client, RevokeRule(a)
      PROVE  ActiveInv'
    BY <1>5 DEF RevokeRule, Reach
<1>6. ASSUME NEW a \in Client, PruneRule(a)
      PROVE  ActiveInv'
    BY <1>6 DEF PruneRule, Reach
<1>7. ASSUME NEW a \in Client, PruneGroup(a)
      PROVE  ActiveInv'
    BY <1>7 DEF PruneGroup, Reach
<1>8. CASE ApplyDone
    BY <1>8 DEF ApplyDone
<1>9. CASE RevokeDone
    BY <1>9 DEF RevokeDone, Unbacked
<1>10. CASE PruneDone
    BY <1>10 DEF PruneDone
<1>11. CASE Return
    <2>1. \A c \in Client :
             state'[c] = "active" => "active" \in {state[c], report[c]}
        BY <1>11 DEF Return, Stores, Answer, AnsweredInv, Working, Settled
    <2> QED
        BY <1>11, <2>1 DEF Return, Stores
<1>12. CASE Abort
    BY <1>12 DEF Abort, Fault, MarksError
<1>13. CASE MakeGroup
    BY <1>13 DEF MakeGroup, RuleEnds, Answers, Fault
<1>14. CASE AddAddr
    BY <1>14 DEF AddAddr, RuleEnds, Answers, Fault
<1>15. CASE Permit
    BY <1>15 DEF Permit, RuleEnds, Answers, Fault
<1>16. CASE Unpermit
    BY <1>16 DEF Unpermit, RuleEnds, Answers, Fault
<1>17. CASE DeletePerm
    BY <1>17 DEF DeletePerm, Answers, Fault
<1>18. CASE NoPerm
    BY <1>18 DEF NoPerm, RuleEnds
<1>19. CASE Strip
    BY <1>19 DEF Strip, Answers, Fault
<1>20. CASE GroupLookupFails
    BY <1>20 DEF GroupLookupFails, Fault, RuleEnds
<1>21. CASE DeleteGroup
    BY <1>21 DEF DeleteGroup, RuleEnds, Answers, Fault
<1>22. CASE GroupInUse
    BY <1>22 DEF GroupInUse, RuleEnds
<1> QED
    BY <1>0, <1>1, <1>2, <1>3, <1>4, <1>5, <1>6, <1>7, <1>8, <1>9, <1>10,
       <1>11, <1>12, <1>13, <1>14, <1>15, <1>16, <1>17, <1>18, <1>19, <1>20,
       <1>21, <1>22
       DEF Next, Manage, Call

(***************************************************************************)
(* A client group goes only once its permission is gone.                   *)
(***************************************************************************)
LEMMA GroupStep ==
    TypeOK /\ RuleInv /\ PermissionHasGroup /\ [Next]_vars =>
        PermissionHasGroup'
<1> SUFFICES ASSUME TypeOK /\ RuleInv /\ PermissionHasGroup, [Next]_vars
             PROVE PermissionHasGroup'
    OBVIOUS
<1> USE DEF TypeOK, ManagerTypeOK, RuleInv, PermissionHasGroup, Level, Other,
            rules, cluster, loop, trouble
<1>0. CASE UNCHANGED vars
    BY <1>0 DEF vars
<1>1. ASSUME NEW add \in SUBSET Client, NEW upd \in SUBSET Client,
             NEW del \in SUBSET Client, UpdateAccess(add, upd, del)
      PROVE  PermissionHasGroup'
    BY <1>1 DEF UpdateAccess, HandsOver
<1>2. CASE FullSync
    BY <1>2 DEF FullSync, HandsOverAll, Ruled
<1>3. CASE Crash
    BY <1>3 DEF Crash, Fault
<1>4. ASSUME NEW a \in Client, ApplyRule(a)
      PROVE  PermissionHasGroup'
    BY <1>4 DEF ApplyRule, Reach
<1>5. ASSUME NEW a \in Client, RevokeRule(a)
      PROVE  PermissionHasGroup'
    BY <1>5 DEF RevokeRule, Reach
<1>6. ASSUME NEW a \in Client, PruneRule(a)
      PROVE  PermissionHasGroup'
    BY <1>6 DEF PruneRule, Reach
<1>7. ASSUME NEW a \in Client, PruneGroup(a)
      PROVE  PermissionHasGroup'
    BY <1>7 DEF PruneGroup, Reach
<1>8. CASE ApplyDone
    BY <1>8 DEF ApplyDone
<1>9. CASE RevokeDone
    BY <1>9 DEF RevokeDone, Unbacked
<1>10. CASE PruneDone
    BY <1>10 DEF PruneDone
<1>11. CASE Return
    BY <1>11 DEF Return, Stores
<1>12. CASE Abort
    BY <1>12 DEF Abort, Fault, MarksError
<1>13. CASE MakeGroup
    BY <1>13 DEF MakeGroup, RuleEnds, Answers, Fault
<1>14. CASE AddAddr
    BY <1>14 DEF AddAddr, RuleEnds, Answers, Fault
<1>15. CASE Permit
    BY <1>15 DEF Permit, RuleEnds, Answers, Fault
<1>16. CASE Unpermit
    BY <1>16 DEF Unpermit, RuleEnds, Answers, Fault
<1>17. CASE DeletePerm
    BY <1>17 DEF DeletePerm, Answers, Fault
<1>18. CASE NoPerm
    BY <1>18 DEF NoPerm, RuleEnds
<1>19. CASE Strip
    BY <1>19 DEF Strip, Answers, Fault
<1>20. CASE GroupLookupFails
    BY <1>20 DEF GroupLookupFails, Fault, RuleEnds
<1>21. CASE DeleteGroup
    BY <1>21 DEF DeleteGroup, RuleEnds, Answers, Fault
<1>22. CASE GroupInUse
    BY <1>22 DEF GroupInUse, RuleEnds
<1> QED
    BY <1>0, <1>1, <1>2, <1>3, <1>4, <1>5, <1>6, <1>7, <1>8, <1>9, <1>10,
       <1>11, <1>12, <1>13, <1>14, <1>15, <1>16, <1>17, <1>18, <1>19, <1>20,
       <1>21, <1>22
       DEF Next, Manage, Call

(***************************************************************************)
(* An active rule stays exported: nothing is taken from a rule that is asked *)
(* for but the permission of the wrong type, and then it is not active.    *)
(***************************************************************************)
LEMMA ExportedStep ==
    TypeOK /\ RuleInv /\ ActiveInv /\ AnsweredInv /\ ActiveIsExported
    /\ [Next]_vars =>
        ActiveIsExported'
<1> SUFFICES ASSUME TypeOK, RuleInv, ActiveInv, AnsweredInv, ActiveIsExported,
                    [Next]_vars
             PROVE ActiveIsExported'
    OBVIOUS
<1> USE DEF TypeOK, ManagerTypeOK, RuleInv, ActiveInv, ActiveIsExported,
            Exported, Level, Other, rules, cluster, loop, trouble, NoAnswer
<1>0. CASE UNCHANGED vars
    BY <1>0 DEF vars
<1>1. ASSUME NEW add \in SUBSET Client, NEW upd \in SUBSET Client,
             NEW del \in SUBSET Client, UpdateAccess(add, upd, del)
      PROVE  ActiveIsExported'
    <2>1. report' = NoAnswer
        BY <1>1 DEF UpdateAccess, AnsweredInv, Working
    <2> QED
        BY <1>1, <2>1 DEF UpdateAccess, HandsOver
<1>2. CASE FullSync
    BY <1>2 DEF FullSync, HandsOverAll, Ruled
<1>3. CASE Crash
    BY <1>3 DEF Crash, Fault
<1>4. ASSUME NEW a \in Client, ApplyRule(a)
      PROVE  ActiveIsExported'
    BY <1>4 DEF ApplyRule, Reach
<1>5. ASSUME NEW a \in Client, RevokeRule(a)
      PROVE  ActiveIsExported'
    BY <1>5 DEF RevokeRule, Reach
<1>6. ASSUME NEW a \in Client, PruneRule(a)
      PROVE  ActiveIsExported'
    BY <1>6 DEF PruneRule, Reach
<1>7. ASSUME NEW a \in Client, PruneGroup(a)
      PROVE  ActiveIsExported'
    BY <1>7 DEF PruneGroup, Reach
<1>8. CASE ApplyDone
    BY <1>8 DEF ApplyDone
<1>9. CASE RevokeDone
    BY <1>9 DEF RevokeDone, Unbacked
<1>10. CASE PruneDone
    BY <1>10 DEF PruneDone
<1>11. CASE Return
    <2>1. \A c \in Client :
             state'[c] = "active" => "active" \in {state[c], report[c]}
        BY <1>11 DEF Return, Stores, Answer, AnsweredInv, Working, Settled
    <2> QED
        BY <1>11, <2>1 DEF Return, Stores
<1>12. CASE Abort
    BY <1>12 DEF Abort, Fault, MarksError
<1>13. CASE MakeGroup
    BY <1>13 DEF MakeGroup, RuleEnds, Answers, Fault
<1>14. CASE AddAddr
    BY <1>14 DEF AddAddr, RuleEnds, Answers, Fault
<1>15. CASE Permit
    BY <1>15 DEF Permit, RuleEnds, Answers, Fault
<1>16. CASE Unpermit
    BY <1>16 DEF Unpermit, RuleEnds, Answers, Fault
<1>17. CASE DeletePerm
    BY <1>17 DEF DeletePerm, Answers, Fault
<1>18. CASE NoPerm
    BY <1>18 DEF NoPerm, RuleEnds
<1>19. CASE Strip
    BY <1>19 DEF Strip, Answers, Fault
<1>20. CASE GroupLookupFails
    BY <1>20 DEF GroupLookupFails, Fault, RuleEnds
<1>21. CASE DeleteGroup
    BY <1>21 DEF DeleteGroup, RuleEnds, Answers, Fault
<1>22. CASE GroupInUse
    BY <1>22 DEF GroupInUse, RuleEnds
<1> QED
    BY <1>0, <1>1, <1>2, <1>3, <1>4, <1>5, <1>6, <1>7, <1>8, <1>9, <1>10,
       <1>11, <1>12, <1>13, <1>14, <1>15, <1>16, <1>17, <1>18, <1>19, <1>20,
       <1>21, <1>22
       DEF Next, Manage, Call

(***************************************************************************)
(* Each rule handed over has its answer, in Manila or in the report, or is *)
(* still ahead.                                                            *)
(***************************************************************************)
LEMMA AnsweredStep ==
    TypeOK /\ LoopInv /\ RuleInv /\ AnsweredInv /\ [Next]_vars => AnsweredInv'
<1> SUFFICES ASSUME TypeOK, LoopInv, RuleInv, AnsweredInv, [Next]_vars
             PROVE  AnsweredInv'
    OBVIOUS
<1> USE DEF TypeOK, ManagerTypeOK, Level, Other, LoopInv, RuleInv, Working,
            RuleState, PC, Phase, AnsweredInv, Settled, Answer, NoAnswer
<1>0. CASE UNCHANGED vars
    BY <1>0 DEF vars
<1>1. ASSUME NEW add \in SUBSET Client, NEW upd \in SUBSET Client,
             NEW del \in SUBSET Client, UpdateAccess(add, upd, del)
      PROVE  AnsweredInv'
    BY <1>1 DEF UpdateAccess, HandsOver
<1>2. CASE FullSync
    BY <1>2 DEF FullSync, HandsOverAll, Ruled
<1>3. CASE Crash
    BY <1>3 DEF Crash, rules
<1>4. ASSUME NEW a \in Client, ApplyRule(a) \/ RevokeRule(a)
      PROVE  AnsweredInv'
    BY <1>4 DEF ApplyRule, RevokeRule, Reach, rules
<1>5. ASSUME NEW a \in Client, PruneRule(a) \/ PruneGroup(a)
      PROVE  AnsweredInv'
    BY <1>5 DEF PruneRule, PruneGroup, Reach, rules
<1>6. CASE ApplyDone \/ RevokeDone \/ PruneDone
    BY <1>6 DEF ApplyDone, RevokeDone, PruneDone, rules
<1>7. CASE Return
    BY <1>7 DEF Return, Stores
<1>8. CASE Abort
    BY <1>8 DEF Abort, MarksError
<1>9. CASE MakeGroup \/ AddAddr
    BY <1>9 DEF MakeGroup, AddAddr, RuleEnds, loop
<1>10. CASE Permit \/ Unpermit
    BY <1>10 DEF Permit, Unpermit, RuleEnds, loop
<1>11. CASE DeletePerm \/ NoPerm
    BY <1>11 DEF DeletePerm, NoPerm, RuleEnds, rules, loop
<1>12. CASE Strip \/ GroupLookupFails
    BY <1>12 DEF Strip, GroupLookupFails, RuleEnds, loop
<1>13. CASE DeleteGroup \/ GroupInUse
    BY <1>13 DEF DeleteGroup, GroupInUse, RuleEnds, loop
<1> QED
    BY <1>0, <1>1, <1>2, <1>3, <1>4, <1>5, <1>6, <1>7, <1>8, <1>9, <1>10,
       <1>11, <1>12, <1>13
       DEF Next, Manage, Call

(***************************************************************************)
(* A full sync that goes well leaves exactly the rules: what a loop has not *)
(* reached is still in its list, and what it has left is as it should be.  *)
(***************************************************************************)
LEMMA CleanStep ==
    TypeOK /\ LoopInv /\ RuleInv /\ CleanInv /\ [Next]_vars => CleanInv'
<1> SUFFICES ASSUME TypeOK /\ LoopInv /\ RuleInv /\ CleanInv, [Next]_vars
             PROVE CleanInv'
    OBVIOUS
<1> USE DEF TypeOK, ManagerTypeOK, Level, Other, LoopInv, RuleInv, CleanInv,
            Working, Done, Gone, Exported, rules, cluster, loop, trouble
<1>0. CASE UNCHANGED vars
    BY <1>0 DEF vars
<1>1. ASSUME NEW add \in SUBSET Client, NEW upd \in SUBSET Client,
             NEW del \in SUBSET Client, UpdateAccess(add, upd, del)
      PROVE  CleanInv'
    BY <1>1 DEF UpdateAccess, HandsOver
<1>2. CASE FullSync
    BY <1>2 DEF FullSync, HandsOverAll, Ruled
<1>3. CASE Crash
    BY <1>3 DEF Crash, Fault
<1>4. ASSUME NEW a \in Client, ApplyRule(a)
      PROVE  CleanInv'
    BY <1>4 DEF ApplyRule, Reach
<1>5. ASSUME NEW a \in Client, RevokeRule(a)
      PROVE  CleanInv'
    BY <1>5 DEF RevokeRule, Reach
<1>6. ASSUME NEW a \in Client, PruneRule(a)
      PROVE  CleanInv'
    BY <1>6 DEF PruneRule, Reach
<1>7. ASSUME NEW a \in Client, PruneGroup(a)
      PROVE  CleanInv'
    BY <1>7 DEF PruneGroup, Reach
<1>8. CASE ApplyDone
    BY <1>8 DEF ApplyDone
<1>9. CASE RevokeDone
    BY <1>9 DEF RevokeDone, Unbacked
<1>10. CASE PruneDone
    BY <1>10 DEF PruneDone
<1>11. CASE Return
    BY <1>11 DEF Return, Stores
<1>12. CASE Abort
    BY <1>12 DEF Abort, Fault, MarksError
<1>13. CASE MakeGroup
    BY <1>13 DEF MakeGroup, RuleEnds, Answers, Fault
<1>14. CASE AddAddr
    BY <1>14 DEF AddAddr, RuleEnds, Answers, Fault
<1>15. CASE Permit
    BY <1>15 DEF Permit, RuleEnds, Answers, Fault
<1>16. CASE Unpermit
    BY <1>16 DEF Unpermit, RuleEnds, Answers, Fault
<1>17. CASE DeletePerm
    BY <1>17 DEF DeletePerm, Answers, Fault
<1>18. CASE NoPerm
    BY <1>18 DEF NoPerm, RuleEnds
<1>19. CASE Strip
    BY <1>19 DEF Strip, Answers, Fault
<1>20. CASE GroupLookupFails
    BY <1>20 DEF GroupLookupFails, Fault, RuleEnds
<1>21. CASE DeleteGroup
    BY <1>21 DEF DeleteGroup, RuleEnds, Answers, Fault
<1>22. CASE GroupInUse
    BY <1>22 DEF GroupInUse, RuleEnds
<1> QED
    BY <1>0, <1>1, <1>2, <1>3, <1>4, <1>5, <1>6, <1>7, <1>8, <1>9, <1>10,
       <1>11, <1>12, <1>13, <1>14, <1>15, <1>16, <1>17, <1>18, <1>19, <1>20,
       <1>21, <1>22
       DEF Next, Manage, Call

(***************************************************************************)
(* The invariant holds in every state.                                     *)
(***************************************************************************)
THEOREM Invariance == Spec => []SafeInv
<1>1. Init => SafeInv
    <2>1. Init => TypeOK
        <3>1. 0 \in 0..MaxFaults
            BY MaxFaultsAssumption
        <3> QED
            BY <3>1
               DEF Init, NoRules, NoAnswer, TypeOK, ManagerTypeOK, Level,
                   RuleState, Answer, PC, Phase
    <2>2. Init => LoopInv /\ RuleInv /\ ActiveInv /\ AnsweredInv
        BY DEF Init, NoRules, NoAnswer, LoopInv, RuleInv, ActiveInv,
               AnsweredInv, Working
    <2>3. Init => PermissionHasGroup /\ ActiveIsExported
        BY DEF Init, NoRules, NoAnswer, PermissionHasGroup, ActiveIsExported
    <2> QED
        BY <2>1, <2>2, <2>3 DEF SafeInv
<1>2. SafeInv /\ [Next]_vars => SafeInv'
    BY TypeStep, LoopStep, RuleStep, ActiveStep, GroupStep, ExportedStep,
       AnsweredStep
       DEF SafeInv
<1> QED
    BY <1>1, <1>2, PTL DEF Spec

(***************************************************************************)
(* Every variable keeps its type.                                          *)
(***************************************************************************)
THEOREM TypeCorrect == Spec => []TypeOK
<1>1. SafeInv => TypeOK
    BY DEF SafeInv
<1> QED
    BY <1>1, Invariance, PTL

(***************************************************************************)
(* A rule shown as active is exported at its level in every state.         *)
(***************************************************************************)
THEOREM ActiveRulesHold == Spec => []ActiveIsExported
<1>1. SafeInv => ActiveIsExported
    BY DEF SafeInv
<1> QED
    BY <1>1, Invariance, PTL

(***************************************************************************)
(* No permission names a client group that is gone.                        *)
(***************************************************************************)
THEOREM GroupsOutlivePermissions == Spec => []PermissionHasGroup
<1>1. SafeInv => PermissionHasGroup
    BY DEF SafeInv
<1> QED
    BY <1>1, Invariance, PTL

(***************************************************************************)
(* With no failure since the last full sync began, an idle share exports   *)
(* exactly what its rules ask for.                                         *)
(***************************************************************************)
THEOREM SyncIsExact == Spec => []ExactWhenClean
<1>1. Init => CleanInv
    BY DEF Init, NoRules, CleanInv, Working, Done, Gone
<1>2. SafeInv /\ CleanInv /\ [Next]_vars => CleanInv'
    BY CleanStep DEF SafeInv
<1>3. SafeInv /\ CleanInv => ExactWhenClean
    BY DEF SafeInv, TypeOK, ManagerTypeOK, CleanInv, Done, Gone, Exported,
           ExactWhenClean
<1> QED
    BY <1>1, <1>2, <1>3, Invariance, PTL DEF Spec

(***************************************************************************)
(* The driver keeps the access contract.                                   *)
(***************************************************************************)
THEOREM KeepsContract == Spec => Implements
<1>1. Init => Contract!Init
    BY DEF Init, NoRules, Contract!Init, Asked, Listed, Effective, Exported,
           Level
<1>2. SafeInv /\ SafeInv' /\ [Next]_vars => [Contract!Next]_(Contract!vars)
    <2> SUFFICES ASSUME SafeInv, SafeInv', [Next]_vars
                 PROVE  [Contract!Next]_(Contract!vars)
        OBVIOUS
    <2>1. CASE UNCHANGED <<want, groups, addrs, perms>>
        BY <2>1 DEF Contract!vars, Asked, Listed, Effective, Exported
    <2>2. ASSUME UNCHANGED <<groups, addrs, perms>>
          PROVE  Contract!SetRules
        BY <2>2 DEF Contract!SetRules, Asked, Listed, Effective, Exported
    <2>3. ASSUME UNCHANGED want,
                 \A c \in Client, l \in Level :
                    perms'[c] = l => perms[c] = l \/ want[c] = l,
                 \A c \in Client, l \in Level :
                    want[c] = l /\ Exported(c, l) =>
                        c \in groups' /\ c \in addrs' /\ perms'[c] = l
          PROVE  Contract!Work
        BY <2>3 DEF Contract!Work, Asked, Listed, Effective, Exported
    <2>4. CASE MakeGroup \/ AddAddr
        BY <2>3, <2>4 DEF MakeGroup, AddAddr, Exported, Contract!Next
    <2>5. CASE Permit \/ Unpermit
        BY <2>3, <2>5
           DEF Permit, Unpermit, Exported, Contract!Next, Other, Level,
               SafeInv, RuleInv, TypeOK, ManagerTypeOK
    <2>6. CASE DeletePerm
        BY <2>3, <2>6
           DEF DeletePerm, Exported, Contract!Next, Level, SafeInv, RuleInv,
               TypeOK, rules
    <2>7. CASE Strip \/ DeleteGroup
        BY <2>3, <2>7
           DEF Strip, DeleteGroup, Exported, Contract!Next, Level, SafeInv,
               RuleInv
    <2> QED
        BY <2>1, <2>2, <2>4, <2>5, <2>6, <2>7
           DEF Next, Manage, Call, vars, cluster, rules, UpdateAccess,
               FullSync, Crash, Reach, ApplyRule, RevokeRule, PruneRule,
               PruneGroup, ApplyDone, RevokeDone, PruneDone, Return,
               Stores, Abort, MarksError, NoPerm, GroupLookupFails,
               GroupInUse, Contract!Next
<1> QED
    BY <1>1, <1>2, Invariance, PTL DEF Spec, Implements, Contract!Spec

(***************************************************************************)
(* So what is permitted beyond the rules is never new: it was permitted    *)
(* beyond them before, or a rule asked for it until the manager handed     *)
(* over the next rules.  No path of the driver, failed or not, creates a   *)
(* permission of a type its rule does not have.                            *)
(***************************************************************************)
THEOREM NothingUnasked == Spec => Contract!DebtIsOld
<1> DEFINE Debt == Listed \ Asked
           Old  == Debt' \ Debt \subseteq Asked \ Asked'
<1>1. [Contract!Next]_(Contract!vars) => [Old]_(Contract!vars)
    BY DEF Contract!Next, Contract!SetRules, Contract!Work, Contract!vars
<1> QED
    BY <1>1, KeepsContract, PTL
       DEF Implements, Contract!Spec, Contract!DebtIsOld

(***************************************************************************)
(* And a grant that the rules go on asking for is not interrupted, neither *)
(* by new rules nor by any piece of the driver's work.                     *)
(***************************************************************************)
THEOREM WantedIsKept == Spec => Contract!KeepsWhatIsWanted
<1> DEFINE Keeps == Effective \cap Asked \cap Asked' \subseteq Effective'
<1>1. [Contract!Next]_(Contract!vars) => [Keeps]_(Contract!vars)
    BY DEF Contract!Next, Contract!SetRules, Contract!Work, Contract!vars
<1> QED
    BY <1>1, KeepsContract, PTL
       DEF Implements, Contract!Spec, Contract!KeepsWhatIsWanted

-----------------------------------------------------------------------------
(***************************************************************************)
(* Answers.  Once a call is over no rule is in transition, and a call does *)
(* come to its end: it goes through its loops in order, each loop through  *)
(* its list, and each rule through its REST calls.                         *)
(***************************************************************************)

(***************************************************************************)
(* Between two calls no rule is in transition.                             *)
(***************************************************************************)
THEOREM IdleIsAnswered ==
    Spec => [](pc = "idle" => \A c \in Client :
                                  state[c] \in {"none", "active", "error"})
<1>1. SafeInv =>
          (pc = "idle" => \A c \in Client :
                              state[c] \in {"none", "active", "error"})
    BY DEF SafeInv, AnsweredInv
<1> QED
    BY <1>1, Invariance, PTL

\* How many loops a call has yet to finish, the one that runs included, and
\* how many REST calls the rule in hand may take.
LoopsLeft ==
    CASE Working /\ phase = "apply"  -> 4
      [] Working /\ phase = "revoke" -> 3
      [] Working /\ phase = "prune"  -> 2
      [] Working /\ phase = "groups" -> 1
      [] OTHER                       -> 0

CallsLeft ==
    CASE pc = "group"             -> 4
      [] pc \in {"addr", "unperm"} -> 3
      [] pc = "strip"             -> 2
      [] pc = "perm"              ->
             IF perms[cur] = Other(want[cur]) THEN 2 ELSE 1
      [] pc = "ungroup"           -> 1
      [] OTHER                    -> 0

\* A loop less, or a rule less in the loop, or a call less for the rule.
Falls ==
    \/ LoopsLeft' < LoopsLeft
    \/ LoopsLeft' = LoopsLeft /\ todo' \subseteq todo /\ todo' # todo
    \/ LoopsLeft' = LoopsLeft /\ todo' = todo /\ CallsLeft' < CallsLeft

(***************************************************************************)
(* Every step of a call brings its end nearer: there are four loops at     *)
(* most, as many rules in one as it has to begin with, and four REST calls *)
(* for a rule.                                                             *)
(***************************************************************************)
THEOREM CallAdvances ==
    Spec => [][Call => Falls /\ LoopsLeft \in 1..4 /\ CallsLeft \in 0..4]_vars
<1>1. SafeInv /\ Call => LoopsLeft \in 1..4 /\ CallsLeft \in 0..4
    <2>1. Call => Working
        BY DEF Working, Call, ApplyRule, RevokeRule, PruneRule, PruneGroup,
           ApplyDone, RevokeDone, PruneDone, Return, Abort, MakeGroup,
           AddAddr, Permit, Unpermit, DeletePerm, NoPerm, Strip,
           GroupLookupFails, DeleteGroup, GroupInUse
    <2>2. SafeInv /\ Working => LoopsLeft \in 1..4
        BY DEF SafeInv, TypeOK, Phase, LoopsLeft
    <2>3. SafeInv => CallsLeft \in 0..4
        BY DEF SafeInv, TypeOK, PC, CallsLeft
    <2> QED
        BY <2>1, <2>2, <2>3
<1>2. SafeInv /\ Call => Falls
    <2> SUFFICES ASSUME SafeInv, Call PROVE Falls
        OBVIOUS
    <2> USE DEF SafeInv, TypeOK, ManagerTypeOK, PC, Phase, Level, LoopsLeft,
            CallsLeft, Working, Falls, RuleInv, loop
    <2>1. ASSUME NEW a \in Client, ApplyRule(a) \/ RevokeRule(a)
          PROVE  Falls
        BY <2>1 DEF ApplyRule, RevokeRule, Reach
    <2>2. ASSUME NEW a \in Client, PruneRule(a) \/ PruneGroup(a)
          PROVE  Falls
        BY <2>2 DEF PruneRule, PruneGroup, Reach
    <2>3. CASE ApplyDone \/ RevokeDone \/ PruneDone
        BY <2>3 DEF ApplyDone, RevokeDone, PruneDone
    <2>4. CASE Return \/ Abort
        BY <2>4 DEF Return, Abort
    <2>5. CASE MakeGroup \/ AddAddr
        BY <2>5 DEF MakeGroup, AddAddr, RuleEnds
    <2>6. CASE Permit
        BY <2>6 DEF Permit, RuleEnds
    <2>7. CASE Unpermit
        BY <2>7 DEF Unpermit, RuleEnds, Answers, Other
    <2>8. CASE DeletePerm \/ NoPerm
        BY <2>8 DEF DeletePerm, NoPerm, RuleEnds
    <2>9. CASE Strip \/ GroupLookupFails
        BY <2>9 DEF Strip, GroupLookupFails, RuleEnds
    <2>10. CASE DeleteGroup \/ GroupInUse
        BY <2>10 DEF DeleteGroup, GroupInUse, RuleEnds
    <2> QED
        BY <2>1, <2>2, <2>3, <2>4, <2>5, <2>6, <2>7, <2>8, <2>9, <2>10
           DEF Call
<1> QED
    BY <1>1, <1>2, Invariance, PTL DEF Spec

\* The places of the rules, and what enables the sync of one that starts.
IsIdle == pc = "idle"
IsDown == pc = "down"
SyncCanStart == pc = "down" => ENABLED <<pc = "down" /\ FullSync>>_vars

\* A rule that waits for its answer, and one that has it.
Waits(c) == state[c] \in {"queued", "denying"}
Has(c)   == \/ state[c] \in {"none", "error"}
            \/ state[c] = "active" /\ Exported(c, want[c])

(***************************************************************************)
(* Every rule handed over is answered, if each call comes to its end, as   *)
(* CallAdvances says, and the manager does not crash for ever: its restart *)
(* answers what a crash left open.                                         *)
(***************************************************************************)
THEOREM RulesAreAnswered ==
    LiveSpec /\ []SyncCanStart /\ (Working ~> ~Working) /\ <>[][~Crash]_vars
    => EveryRuleAnswered
<1> SUFFICES ASSUME NEW c \in Client
             PROVE  LiveSpec /\ []SyncCanStart /\ (Working ~> ~Working)
                    /\ <>[][~Crash]_vars => (Waits(c) ~> Has(c))
    BY DEF EveryRuleAnswered, Waits, Has
<1>1. SafeInv /\ IsIdle => Has(c)
    BY DEF SafeInv, AnsweredInv, ActiveIsExported, Has, IsIdle
<1>2. SafeInv => IsIdle \/ IsDown \/ Working
    BY DEF IsIdle, IsDown, Working
<1>3. SafeInv /\ [Next]_vars /\ [~Crash]_vars /\ Working =>
          Working' \/ IsIdle'
    <2> SUFFICES ASSUME SafeInv, [Next]_vars, [~Crash]_vars, Working, IsDown'
                 PROVE  FALSE
        BY DEF IsIdle, IsDown, Working
    <2>1. CASE UNCHANGED vars
        BY <2>1 DEF vars, Working, IsDown
    <2>2. CASE Manage
        BY <2>2 DEF Manage, UpdateAccess, FullSync, IsDown
    <2>3. CASE Call
        BY <2>3 DEF Call, IsDown, ApplyRule, RevokeRule, PruneRule,
           PruneGroup, Reach, ApplyDone, RevokeDone, PruneDone, Return,
           Abort, MakeGroup, AddAddr, Permit, Unpermit, DeletePerm, NoPerm,
           Strip, GroupLookupFails, DeleteGroup, GroupInUse, RuleEnds,
           Working
    <2> QED
        BY <2>1, <2>2, <2>3 DEF Next
<1>4. SafeInv /\ [Next]_vars /\ IsDown => IsDown' \/ Working'
    BY DEF IsDown, Working, Next, Manage, Crash, vars, UpdateAccess, FullSync,
       Call, ApplyRule, RevokeRule, PruneRule, PruneGroup, ApplyDone,
       RevokeDone, PruneDone, Return, Abort, MakeGroup, AddAddr, Permit,
       Unpermit, DeletePerm, NoPerm, Strip, GroupLookupFails, DeleteGroup,
       GroupInUse
<1>5. <<pc = "down" /\ FullSync>>_vars => Working'
    BY DEF FullSync, Working
<1>6. IsDown /\ SyncCanStart => ENABLED <<pc = "down" /\ FullSync>>_vars
    BY DEF IsDown, SyncCanStart
<1>7. IsDown => ~Working
    BY DEF IsDown, Working
<1> QED
    BY <1>1, <1>2, <1>3, <1>4, <1>5, <1>6, <1>7, Invariance, PTL
       DEF LiveSpec, Fairness, Spec
=============================================================================
