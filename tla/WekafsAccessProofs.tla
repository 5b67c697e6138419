------------------------- MODULE WekafsAccessProofs -------------------------
(***************************************************************************)
(* Proofs about WekafsAccess, for any set of addresses and any number of   *)
(* failures and crashes.                                                   *)
(***************************************************************************)
EXTENDS WekafsAccess, TLAPS

(***************************************************************************)
(* The inductive invariant.  ActiveIsEnforced alone is not inductive: that *)
(* an active rule stays in force while a policy is attached, emptied or    *)
(* deleted needs what each point of _policy_set_ip knows of its policy and *)
(* its address, and what each loop knows of the rules it has yet to reach. *)
(***************************************************************************)
Working == pc \notin {"idle", "down"}
InLoop  == pc \notin {"idle", "down", "prepare"}
Settled(a) == state[a] \in {"active", "error"}

\* A policy that does not exist lists nothing and is not attached.
PolicyInv == /\ attached \subseteq exists
             /\ \A l \in Level : l \notin exists => ips[l] = {}

\* An active rule is listed at its level only, attached or not.
ActiveInv ==
    ~grouped => \A a \in Client : "active" \in {state[a], report[a]} =>
                    /\ want[a] \in attached
                    /\ \A l \in Level : a \in ips[l] <=> l = want[a]

\* What each loop may find in its list.
LoopInv ==
    /\ pc = "prepare" => \A a \in todo : want[a] # "none"
    /\ Working => \A a \in dels : want[a] = "none"
    /\ InLoop /\ phase = "apply" => \A a \in todo : want[a] # "none"
    /\ InLoop /\ phase = "revoke" => \A a \in todo : want[a] = "none"
    /\ InLoop /\ phase = "prune" => \A a \in todo : want[a] # lvl

\* Where _policy_set_ip stands.
SetInv ==
    /\ pc \in {"put", "attach"} => phase = "apply" /\ want[cur] = lvl
    /\ pc = "attach" => lvl \in exists /\ cur \in ips[lvl]
    /\ pc \in {"take", "detach", "drop"} => want[cur] # lvl
    /\ pc \in {"take", "detach", "drop"} /\ phase = "apply" =>
          want[cur] \in attached /\ cur \in ips[want[cur]]
    /\ pc \in {"take", "detach", "drop"} /\ phase = "revoke" =>
          want[cur] = "none"
    /\ pc \in {"detach", "drop"} => ips[lvl] = {}

\* Which rules the manager still waits for.
AnsweredInv ==
    /\ \A a \in Client :
          want[a] # "none" => state[a] \notin {"none", "denying"}
    /\ \A a \in Client : state[a] = "queued" => want[a] # "none"
    /\ pc = "idle" => \A a \in Client : want[a] # "none" => Settled(a)
    /\ pc = "prepare" =>
          \A a \in Client : want[a] # "none" => a \in todo \/ Settled(a)
    /\ InLoop =>
          \A a \in Client : want[a] # "none" =>
              \/ Settled(a) \/ report[a] # "none"
              \/ phase = "apply" /\ (a \in todo \/ (pc # "next" /\ a = cur))

\* What the call has to report: of a full sync, every rule it has been through.
ReportInv ==
    /\ ~InLoop => report = NoAnswer
    /\ \A a \in Client : report[a] # "none" => want[a] # "none"
    /\ InLoop /\ phase = "prune" => sync
    /\ pc = "prepare" /\ sync =>
          \A a \in Client : want[a] # "none" => a \in todo
    /\ InLoop /\ sync =>
          \A a \in Client : want[a] # "none" =>
              \/ report[a] # "none"
              \/ phase = "apply" /\ (a \in todo \/ (pc # "next" /\ a = cur))

\* With no failure, what the loops have not reached yet is all there is to do.
Granted(a) == want[a] # "none" => a \in ips[want[a]] /\ want[a] \in attached
Right(a, l) == a \in ips[l] => want[a] = l
Now(a) == InLoop /\ pc # "next" /\ a = cur

CleanInv ==
    ~dirty /\ ~grouped =>
        /\ pc # "down"
        /\ pc = "idle" =>
              \A a \in Client : Granted(a) /\ \A l \in Level : Right(a, l)
        /\ pc = "prepare" \/ (InLoop /\ phase = "apply") =>
              \A a \in Client : a \in todo \/ Now(a) \/ Granted(a)
        /\ ~sync /\ (pc = "prepare" \/ (InLoop /\ phase = "apply")) =>
              \A a \in Client, l \in Level :
                  a \in todo \/ Now(a) \/ a \in dels \/ Right(a, l)
        /\ InLoop /\ phase # "apply" => \A a \in Client : Granted(a)
        /\ InLoop /\ ~sync /\ phase = "revoke" =>
              \A a \in Client, l \in Level :
                  \/ a \in todo \/ Right(a, l)
                  \/ Now(a) /\ (lvl = "rw" \/ l = "ro")
        /\ InLoop /\ phase = "prune" =>
              /\ sync
              /\ \A a \in Client, l \in Level :
                    \/ Right(a, l)
                    \/ lvl = "rw" /\ l = "ro"
                    \/ l = lvl /\ (a \in todo \/ Now(a))

IInv == /\ TypeOK /\ PolicyInv /\ ActiveInv
        /\ LoopInv /\ SetInv /\ AnsweredInv /\ ReportInv
-----------------------------------------------------------------------------
(***************************************************************************)
(* What a reply and the return of _policy_set_ip leave of the types.       *)
(***************************************************************************)
LEMMA AnswersType ==
    ASSUME TypeOK, NEW reply, NEW done, Answers(reply, done)
    PROVE  faults' \in 0..MaxFaults /\ dirty' \in BOOLEAN
<1>1. CASE UNCHANGED trouble
    BY <1>1 DEF TypeOK, trouble
<1>2. CASE Fault
    <2>1. faults' \in 0..MaxFaults
        BY <1>2, MaxFaultsAssumption DEF TypeOK, Fault
    <2>2. dirty' \in BOOLEAN
        BY <1>2 DEF Fault
    <2> QED
        BY <2>1, <2>2
<1> QED
    BY <1>1, <1>2 DEF Answers

(***************************************************************************)
(* However _policy_set_ip ends, the report, the point and the level are    *)
(* typed.                                                                  *)
(***************************************************************************)
LEMMA SetEndType ==
    ASSUME TypeOK, SetReturns \/ SetRaises
    PROVE  report' \in [Client -> Answer] /\ pc' \in PC /\ lvl' \in Level
BY DEF TypeOK, SetReturns, SetRaises, Reports, Answer, PC, Level

(***************************************************************************)
(* Types are kept.                                                         *)
(***************************************************************************)
LEMMA TypeStep == IInv /\ [Next]_vars => TypeOK'
<1> SUFFICES ASSUME IInv, [Next]_vars PROVE TypeOK'
    OBVIOUS
<1> USE MaxFaultsAssumption DEF IInv, TypeOK, ManagerTypeOK, Level, Other,
        RuleState, PC, Phase, Answer, NoAnswer
<1>0. CASE UNCHANGED vars
    BY <1>0 DEF vars
<1>1. ASSUME NEW add \in SUBSET Client, NEW upd \in SUBSET Client,
             NEW del \in SUBSET Client, UpdateAccess(add, upd, del)
      PROVE  TypeOK'
    BY <1>1 DEF UpdateAccess, HandsOver, rules, cluster, loop, trouble
<1>2. CASE FullSync
    BY <1>2 DEF FullSync, HandsOverAll, Ruled, rules, cluster, loop, trouble
<1>3. CASE Prepare
    BY <1>3 DEF Prepare, Enter, rules, cluster, loop, trouble
<1>4. CASE GovernedByGroup
    BY <1>4 DEF GovernedByGroup, Stores, rules, cluster, loop, trouble
<1>5. CASE GroupUnreadable
    BY <1>5 DEF GroupUnreadable, Enter, Fault, rules, cluster, loop, trouble
<1>6. CASE Abort
    BY <1>6 DEF Abort, MarksError, Fault, rules, cluster, loop, trouble
<1>7. ASSUME NEW a \in Client, ApplyRule(a) PROVE TypeOK'
    BY <1>7 DEF ApplyRule, LoopInv, InLoop, rules, cluster, loop, trouble
<1>8. ASSUME NEW a \in Client, RevokeRule(a) PROVE TypeOK'
    BY <1>8 DEF RevokeRule, rules, cluster, loop, trouble
<1>9. ASSUME NEW a \in Client, PruneAddr(a) PROVE TypeOK'
    BY <1>9 DEF PruneAddr, Stale, rules, cluster, loop, trouble
<1>10. CASE ApplyDone
    BY <1>10 DEF ApplyDone, rules, cluster, loop, trouble
<1>11. CASE RevokeDone
    BY <1>11 DEF RevokeDone, Stale, rules, cluster, loop, trouble
<1>12. CASE PruneOther
    BY <1>12 DEF PruneOther, Stale, rules, cluster, loop, trouble
<1>13. CASE Return
    BY <1>13 DEF Return, Stores, rules, cluster, loop, trouble
<1>14. CASE Put
    <2>1. faults' \in 0..MaxFaults /\ dirty' \in BOOLEAN
        BY <1>14, AnswersType DEF Put
    <2>2. report' \in [Client -> Answer] /\ pc' \in PC /\ lvl' \in Level
        <3>1. PICK reply \in Reply :
                 \/ reply = "ok" /\ pc' = "attach" /\ UNCHANGED <<report, lvl>>
                 \/ SetRaises
            BY <1>14 DEF Put
        <3> QED
            BY <3>1, SetEndType
    <2>3. ips' \in [Level -> SUBSET Client] /\ exists' \in SUBSET Level
        BY <1>14 DEF Put
    <2> QED
        BY <1>14, <2>1, <2>2, <2>3 DEF Put, loop
<1>15. CASE Attach
    <2>1. faults' \in 0..MaxFaults /\ dirty' \in BOOLEAN
        BY <1>15, AnswersType DEF Attach
    <2>2. report' \in [Client -> Answer] /\ pc' \in PC /\ lvl' \in Level
        BY <1>15, SetEndType DEF Attach, PC
    <2>3. attached' \in SUBSET Level
        BY <1>15 DEF Attach
    <2> QED
        BY <1>15, <2>1, <2>2, <2>3 DEF Attach, loop
<1>16. CASE Take
    <2>1. faults' \in 0..MaxFaults /\ dirty' \in BOOLEAN
        BY <1>16, AnswersType DEF Take
    <2>2. report' \in [Client -> Answer] /\ pc' \in PC /\ lvl' \in Level
        BY <1>16, SetEndType DEF Take
    <2>3. ips' \in [Level -> SUBSET Client]
        BY <1>16 DEF Take
    <2> QED
        BY <1>16, <2>1, <2>2, <2>3 DEF Take, loop
<1>17. CASE Detach
    <2>1. faults' \in 0..MaxFaults /\ dirty' \in BOOLEAN
        BY <1>17, AnswersType DEF Detach
    <2>2. report' \in [Client -> Answer] /\ pc' \in PC /\ lvl' \in Level
        BY <1>17, SetEndType DEF Detach
    <2>3. attached' \in SUBSET Level
        BY <1>17 DEF Detach
    <2> QED
        BY <1>17, <2>1, <2>2, <2>3 DEF Detach, loop
<1>18. CASE Drop
    <2>1. faults' \in 0..MaxFaults /\ dirty' \in BOOLEAN
        BY <1>18, AnswersType DEF Drop
    <2>2. report' \in [Client -> Answer] /\ pc' \in PC /\ lvl' \in Level
        BY <1>18, SetEndType DEF Drop
    <2>3. exists' \in SUBSET Level /\ attached' \in SUBSET Level
        BY <1>18 DEF Drop
    <2> QED
        BY <1>18, <2>1, <2>2, <2>3 DEF Drop, loop
<1>19. CASE Crash
    BY <1>19 DEF Crash, Fault, rules, cluster, loop, trouble
<1> QED
    BY <1>0, <1>1, <1>2, <1>3, <1>4, <1>5, <1>6, <1>7, <1>8, <1>9, <1>10,
       <1>11, <1>12, <1>13, <1>14, <1>15, <1>16, <1>17, <1>18, <1>19
       DEF Next, Manage, Call

(***************************************************************************)
(* A policy that is gone is empty and detached: it is created before it is *)
(* attached, and detached and deleted only with no address left.           *)
(***************************************************************************)
LEMMA PolicyStep == IInv /\ [Next]_vars => PolicyInv'
<1> SUFFICES ASSUME IInv, [Next]_vars PROVE PolicyInv'
    OBVIOUS
<1> USE DEF IInv, TypeOK, ManagerTypeOK, PolicyInv, SetInv, Level, Other
<1>0. CASE UNCHANGED vars
    BY <1>0 DEF vars
<1>1. ASSUME NEW add \in SUBSET Client, NEW upd \in SUBSET Client,
             NEW del \in SUBSET Client, UpdateAccess(add, upd, del)
      PROVE  PolicyInv'
    BY <1>1 DEF UpdateAccess, HandsOver, rules, cluster, loop, trouble
<1>2. CASE FullSync
    BY <1>2 DEF FullSync, HandsOverAll, Ruled, rules, cluster, loop, trouble
<1>3. CASE Prepare
    BY <1>3 DEF Prepare, Enter, rules, cluster, loop, trouble
<1>4. CASE GovernedByGroup
    BY <1>4 DEF GovernedByGroup, Stores, rules, cluster, loop, trouble
<1>5. CASE GroupUnreadable
    BY <1>5 DEF GroupUnreadable, Enter, Fault, rules, cluster, loop, trouble
<1>6. CASE Abort
    BY <1>6 DEF Abort, MarksError, Fault, rules, cluster, loop, trouble
<1>7. ASSUME NEW a \in Client, ApplyRule(a) PROVE PolicyInv'
    BY <1>7 DEF ApplyRule, rules, cluster, loop, trouble
<1>8. ASSUME NEW a \in Client, RevokeRule(a) PROVE PolicyInv'
    BY <1>8 DEF RevokeRule, rules, cluster, loop, trouble
<1>9. ASSUME NEW a \in Client, PruneAddr(a) PROVE PolicyInv'
    BY <1>9 DEF PruneAddr, Stale, rules, cluster, loop, trouble
<1>10. CASE ApplyDone
    BY <1>10 DEF ApplyDone, rules, cluster, loop, trouble
<1>11. CASE RevokeDone
    BY <1>11 DEF RevokeDone, Stale, rules, cluster, loop, trouble
<1>12. CASE PruneOther
    BY <1>12 DEF PruneOther, Stale, rules, cluster, loop, trouble
<1>13. CASE Return
    BY <1>13 DEF Return, Stores, rules, cluster, loop, trouble
<1>14. CASE Put
    BY <1>14
       DEF Put, Answers, Fault, Reply, SetRaises, Reports, rules, cluster,
           loop, trouble
<1>15. CASE Attach
    BY <1>15
       DEF Attach, Answers, Fault, Reply, SetRaises, Reports, rules, cluster,
           loop, trouble
<1>16. CASE Take
    BY <1>16
       DEF Take, Answers, Fault, Reply, SetRaises, SetReturns, Reports, rules,
           cluster, loop, trouble
<1>17. CASE Detach
    BY <1>17
       DEF Detach, Answers, Fault, Reply, SetRaises, Reports, rules, cluster,
           loop, trouble
<1>18. CASE Drop
    BY <1>18
       DEF Drop, Answers, Fault, Reply, SetRaises, SetReturns, Reports, rules,
           cluster, loop, trouble
<1>19. CASE Crash
    BY <1>19 DEF Crash, Fault, rules, cluster, loop, trouble
<1> QED
    BY <1>0, <1>1, <1>2, <1>3, <1>4, <1>5, <1>6, <1>7, <1>8, <1>9, <1>10,
       <1>11, <1>12, <1>13, <1>14, <1>15, <1>16, <1>17, <1>18, <1>19
       DEF Next, Manage, Call

(***************************************************************************)
(* An active rule stays listed at its level only.                          *)
(***************************************************************************)
LEMMA ActiveStep == IInv /\ [Next]_vars => ActiveInv'
<1> SUFFICES ASSUME IInv, [Next]_vars PROVE ActiveInv'
    OBVIOUS
<1> USE DEF IInv, TypeOK, ManagerTypeOK, PolicyInv, ActiveInv, SetInv,
        LoopInv, Level, Other, NoAnswer
<1>0. CASE UNCHANGED vars
    BY <1>0 DEF vars
<1>1. ASSUME NEW add \in SUBSET Client, NEW upd \in SUBSET Client,
             NEW del \in SUBSET Client, UpdateAccess(add, upd, del)
      PROVE  ActiveInv'
    <2>1. report' = NoAnswer
        BY <1>1 DEF UpdateAccess, ReportInv, InLoop
    <2> QED
        BY <1>1, <2>1 DEF UpdateAccess, HandsOver, cluster
<1>2. CASE FullSync
    BY <1>2 DEF FullSync, HandsOverAll, Ruled, rules, cluster, loop, trouble
<1>3. CASE Prepare
    BY <1>3 DEF Prepare, Enter, rules, cluster, loop, trouble
<1>4. CASE GovernedByGroup
    BY <1>4 DEF GovernedByGroup, Stores, rules, cluster, loop, trouble
<1>5. CASE GroupUnreadable
    BY <1>5 DEF GroupUnreadable, Enter, Fault, rules, cluster, loop, trouble
<1>6. CASE Abort
    BY <1>6 DEF Abort, MarksError, Fault, rules, cluster, loop, trouble
<1>7. ASSUME NEW a \in Client, ApplyRule(a) PROVE ActiveInv'
    BY <1>7 DEF ApplyRule, rules, cluster, loop, trouble
<1>8. ASSUME NEW a \in Client, RevokeRule(a) PROVE ActiveInv'
    BY <1>8 DEF RevokeRule, rules, cluster, loop, trouble
<1>9. ASSUME NEW a \in Client, PruneAddr(a) PROVE ActiveInv'
    BY <1>9 DEF PruneAddr, Stale, rules, cluster, loop, trouble
<1>10. CASE ApplyDone
    BY <1>10 DEF ApplyDone, rules, cluster, loop, trouble
<1>11. CASE RevokeDone
    BY <1>11 DEF RevokeDone, Stale, rules, cluster, loop, trouble
<1>12. CASE PruneOther
    BY <1>12 DEF PruneOther, Stale, rules, cluster, loop, trouble
<1>13. CASE Return
    <2>1. \A a \in Client :
             state'[a] = "active" => "active" \in {state[a], report[a]}
        BY <1>13 DEF Return, Stores, Answer, AnsweredInv, InLoop, Settled
    <2> QED
        BY <1>13, <2>1 DEF Return, Stores, cluster
<1>14. CASE Put
    BY <1>14
       DEF Put, Answers, Fault, Reply, SetRaises, Reports, rules, cluster,
           loop, trouble
<1>15. CASE Attach
    BY <1>15
       DEF Attach, Answers, Fault, Reply, SetRaises, Reports, rules, cluster,
           loop, trouble
<1>16. CASE Take
    BY <1>16
       DEF Take, Answers, Fault, Reply, SetRaises, SetReturns, Reports, rules,
           cluster, loop, trouble
<1>17. CASE Detach
    BY <1>17
       DEF Detach, Answers, Fault, Reply, SetRaises, Reports, rules, cluster,
           loop, trouble
<1>18. CASE Drop
    BY <1>18
       DEF Drop, Answers, Fault, Reply, SetRaises, SetReturns, Reports, rules,
           cluster, loop, trouble
<1>19. CASE Crash
    BY <1>19 DEF Crash, Fault, rules, cluster, loop, trouble
<1> QED
    BY <1>0, <1>1, <1>2, <1>3, <1>4, <1>5, <1>6, <1>7, <1>8, <1>9, <1>10,
       <1>11, <1>12, <1>13, <1>14, <1>15, <1>16, <1>17, <1>18, <1>19
       DEF Next, Manage, Call

(***************************************************************************)
(* The lists of the loops.                                                 *)
(***************************************************************************)
LEMMA LoopStep == IInv /\ [Next]_vars => LoopInv'
<1> SUFFICES ASSUME IInv, [Next]_vars PROVE LoopInv'
    OBVIOUS
<1> USE DEF IInv, TypeOK, ManagerTypeOK, LoopInv, SetInv, Level, Other,
        Working, InLoop, Phase
<1>0. CASE UNCHANGED vars
    BY <1>0 DEF vars
<1>1. ASSUME NEW add \in SUBSET Client, NEW upd \in SUBSET Client,
             NEW del \in SUBSET Client, UpdateAccess(add, upd, del)
      PROVE  LoopInv'
    BY <1>1 DEF UpdateAccess, HandsOver, rules, cluster, loop, trouble
<1>2. CASE FullSync
    BY <1>2 DEF FullSync, HandsOverAll, Ruled, rules, cluster, loop, trouble
<1>3. CASE Prepare
    BY <1>3 DEF Prepare, Enter, rules, cluster, loop, trouble
<1>4. CASE GovernedByGroup
    BY <1>4 DEF GovernedByGroup, Stores, rules, cluster, loop, trouble
<1>5. CASE GroupUnreadable
    BY <1>5 DEF GroupUnreadable, Enter, Fault, rules, cluster, loop, trouble
<1>6. CASE Abort
    BY <1>6 DEF Abort, MarksError, Fault, rules, cluster, loop, trouble
<1>7. ASSUME NEW a \in Client, ApplyRule(a) PROVE LoopInv'
    BY <1>7 DEF ApplyRule, rules, cluster, loop, trouble
<1>8. ASSUME NEW a \in Client, RevokeRule(a) PROVE LoopInv'
    BY <1>8 DEF RevokeRule, rules, cluster, loop, trouble
<1>9. ASSUME NEW a \in Client, PruneAddr(a) PROVE LoopInv'
    BY <1>9 DEF PruneAddr, Stale, rules, cluster, loop, trouble
<1>10. CASE ApplyDone
    BY <1>10 DEF ApplyDone, rules, cluster, loop, trouble
<1>11. CASE RevokeDone
    BY <1>11 DEF RevokeDone, Stale, rules, cluster, loop, trouble
<1>12. CASE PruneOther
    BY <1>12 DEF PruneOther, Stale, rules, cluster, loop, trouble
<1>13. CASE Return
    BY <1>13 DEF Return, Stores, rules, cluster, loop, trouble
<1>14. CASE Put
    BY <1>14
       DEF Put, Answers, Fault, Reply, SetRaises, Reports, rules, cluster,
           loop, trouble
<1>15. CASE Attach
    BY <1>15
       DEF Attach, Answers, Fault, Reply, SetRaises, Reports, rules, cluster,
           loop, trouble
<1>16. CASE Take
    BY <1>16
       DEF Take, Answers, Fault, Reply, SetRaises, SetReturns, Reports, rules,
           cluster, loop, trouble
<1>17. CASE Detach
    BY <1>17
       DEF Detach, Answers, Fault, Reply, SetRaises, Reports, rules, cluster,
           loop, trouble
<1>18. CASE Drop
    BY <1>18
       DEF Drop, Answers, Fault, Reply, SetRaises, SetReturns, Reports, rules,
           cluster, loop, trouble
<1>19. CASE Crash
    BY <1>19 DEF Crash, Fault, rules, cluster, loop, trouble
<1> QED
    BY <1>0, <1>1, <1>2, <1>3, <1>4, <1>5, <1>6, <1>7, <1>8, <1>9, <1>10,
       <1>11, <1>12, <1>13, <1>14, <1>15, <1>16, <1>17, <1>18, <1>19
       DEF Next, Manage, Call

(***************************************************************************)
(* The points of _policy_set_ip.                                           *)
(***************************************************************************)
LEMMA SetStep == IInv /\ [Next]_vars => SetInv'
<1> SUFFICES ASSUME IInv, [Next]_vars PROVE SetInv'
    OBVIOUS
<1> USE DEF IInv, TypeOK, ManagerTypeOK, PolicyInv, SetInv, LoopInv, Level,
        Other, Working, InLoop, Phase, PC
<1>0. CASE UNCHANGED vars
    BY <1>0 DEF vars
<1>1. ASSUME NEW add \in SUBSET Client, NEW upd \in SUBSET Client,
             NEW del \in SUBSET Client, UpdateAccess(add, upd, del)
      PROVE  SetInv'
    BY <1>1 DEF UpdateAccess, HandsOver, rules, cluster, loop, trouble
<1>2. CASE FullSync
    BY <1>2 DEF FullSync, HandsOverAll, Ruled, rules, cluster, loop, trouble
<1>3. CASE Prepare
    BY <1>3 DEF Prepare, Enter, rules, cluster, loop, trouble
<1>4. CASE GovernedByGroup
    BY <1>4 DEF GovernedByGroup, Stores, rules, cluster, loop, trouble
<1>5. CASE GroupUnreadable
    BY <1>5 DEF GroupUnreadable, Enter, Fault, rules, cluster, loop, trouble
<1>6. CASE Abort
    BY <1>6 DEF Abort, MarksError, Fault, rules, cluster, loop, trouble
<1>7. ASSUME NEW a \in Client, ApplyRule(a) PROVE SetInv'
    BY <1>7 DEF ApplyRule, rules, cluster, loop, trouble
<1>8. ASSUME NEW a \in Client, RevokeRule(a) PROVE SetInv'
    BY <1>8 DEF RevokeRule, rules, cluster, loop, trouble
<1>9. ASSUME NEW a \in Client, PruneAddr(a) PROVE SetInv'
    BY <1>9 DEF PruneAddr, Stale, rules, cluster, loop, trouble
<1>10. CASE ApplyDone
    BY <1>10 DEF ApplyDone, rules, cluster, loop, trouble
<1>11. CASE RevokeDone
    BY <1>11 DEF RevokeDone, Stale, rules, cluster, loop, trouble
<1>12. CASE PruneOther
    BY <1>12 DEF PruneOther, Stale, rules, cluster, loop, trouble
<1>13. CASE Return
    BY <1>13 DEF Return, Stores, rules, cluster, loop, trouble
<1>14. CASE Put
    BY <1>14
       DEF Put, Answers, Fault, Reply, SetRaises, Reports, rules, cluster,
           loop, trouble
<1>15. CASE Attach
    BY <1>15
       DEF Attach, Answers, Fault, Reply, SetRaises, Reports, rules, cluster,
           loop, trouble
<1>16. CASE Take
    BY <1>16
       DEF Take, Answers, Fault, Reply, SetRaises, SetReturns, Reports, rules,
           cluster, loop, trouble
<1>17. CASE Detach
    BY <1>17
       DEF Detach, Answers, Fault, Reply, SetRaises, Reports, rules, cluster,
           loop, trouble
<1>18. CASE Drop
    BY <1>18
       DEF Drop, Answers, Fault, Reply, SetRaises, SetReturns, Reports, rules,
           cluster, loop, trouble
<1>19. CASE Crash
    BY <1>19 DEF Crash, Fault, rules, cluster, loop, trouble
<1> QED
    BY <1>0, <1>1, <1>2, <1>3, <1>4, <1>5, <1>6, <1>7, <1>8, <1>9, <1>10,
       <1>11, <1>12, <1>13, <1>14, <1>15, <1>16, <1>17, <1>18, <1>19
       DEF Next, Manage, Call

(***************************************************************************)
(* Each rule handed over is settled or still ahead.                        *)
(***************************************************************************)
LEMMA AnsweredStep == IInv /\ [Next]_vars => AnsweredInv'
<1> SUFFICES ASSUME IInv, [Next]_vars PROVE AnsweredInv'
    OBVIOUS
<1> USE DEF IInv, TypeOK, ManagerTypeOK, AnsweredInv, LoopInv, SetInv,
        Level, Other, Working, InLoop, Phase, PC, Settled, RuleState,
        Answer, NoAnswer, ReportInv
<1>0. CASE UNCHANGED vars
    BY <1>0 DEF vars
<1>1. ASSUME NEW add \in SUBSET Client, NEW upd \in SUBSET Client,
             NEW del \in SUBSET Client, UpdateAccess(add, upd, del)
      PROVE  AnsweredInv'
    BY <1>1 DEF UpdateAccess, HandsOver, rules, cluster, loop, trouble
<1>2. CASE FullSync
    BY <1>2 DEF FullSync, HandsOverAll, Ruled, rules, cluster, loop, trouble
<1>3. CASE Prepare
    BY <1>3 DEF Prepare, Enter, rules, cluster, loop, trouble
<1>4. CASE GovernedByGroup
    BY <1>4 DEF GovernedByGroup, Stores, rules, cluster, loop, trouble
<1>5. CASE GroupUnreadable
    BY <1>5 DEF GroupUnreadable, Enter, Fault, rules, cluster, loop, trouble
<1>6. CASE Abort
    BY <1>6 DEF Abort, MarksError, Fault, rules, cluster, loop, trouble
<1>7. ASSUME NEW a \in Client, ApplyRule(a) PROVE AnsweredInv'
    BY <1>7 DEF ApplyRule, rules, cluster, loop, trouble
<1>8. ASSUME NEW a \in Client, RevokeRule(a) PROVE AnsweredInv'
    BY <1>8 DEF RevokeRule, rules, cluster, loop, trouble
<1>9. ASSUME NEW a \in Client, PruneAddr(a) PROVE AnsweredInv'
    BY <1>9 DEF PruneAddr, Stale, rules, cluster, loop, trouble
<1>10. CASE ApplyDone
    BY <1>10 DEF ApplyDone, rules, cluster, loop, trouble
<1>11. CASE RevokeDone
    BY <1>11 DEF RevokeDone, Stale, rules, cluster, loop, trouble
<1>12. CASE PruneOther
    BY <1>12 DEF PruneOther, Stale, rules, cluster, loop, trouble
<1>13. CASE Return
    BY <1>13 DEF Return, Stores, rules, cluster, loop, trouble
<1>14. CASE Put
    BY <1>14
       DEF Put, Answers, Fault, Reply, SetRaises, Reports, rules, cluster,
           loop, trouble
<1>15. CASE Attach
    BY <1>15
       DEF Attach, Answers, Fault, Reply, SetRaises, Reports, rules, cluster,
           loop, trouble
<1>16. CASE Take
    <2>1. /\ UNCHANGED <<want, phase, todo, cur>>
          /\ phase = "apply" => pc' \in {"next", "detach", "drop"}
          /\ pc' \in {"next", "take", "detach", "drop"}
        BY <1>16 DEF Take, SetRaises, SetReturns, Reports, loop
    <2>2. ASSUME NEW a \in Client
          PROVE  \/ report'[a] = report[a]
                 \/ a = cur /\ report'[a] # "none"
        BY <1>16 DEF Take, SetRaises, SetReturns, Reports, loop
    <2>3. phase = "apply" /\ pc' = "next" => report'[cur] # "none"
        BY <1>16 DEF Take, SetRaises, SetReturns, Reports, loop
    <2> QED
        BY <1>16, <2>1, <2>2, <2>3 DEF Take
<1>17. CASE Detach
    BY <1>17
       DEF Detach, Answers, Fault, Reply, SetRaises, Reports, rules, cluster,
           loop, trouble
<1>18. CASE Drop
    <2>1. /\ UNCHANGED <<want, phase, todo, cur>>
          /\ phase = "apply" => pc' \in {"next", "detach", "drop"}
          /\ pc' \in {"next", "take", "detach", "drop"}
        BY <1>18 DEF Drop, SetRaises, SetReturns, Reports, loop
    <2>2. ASSUME NEW a \in Client
          PROVE  \/ report'[a] = report[a]
                 \/ a = cur /\ report'[a] # "none"
        BY <1>18 DEF Drop, SetRaises, SetReturns, Reports, loop
    <2>3. phase = "apply" /\ pc' = "next" => report'[cur] # "none"
        BY <1>18 DEF Drop, SetRaises, SetReturns, Reports, loop
    <2> QED
        BY <1>18, <2>1, <2>2, <2>3 DEF Drop
<1>19. CASE Crash
    BY <1>19 DEF Crash, Fault, rules, cluster, loop, trouble
<1> QED
    BY <1>0, <1>1, <1>2, <1>3, <1>4, <1>5, <1>6, <1>7, <1>8, <1>9, <1>10,
       <1>11, <1>12, <1>13, <1>14, <1>15, <1>16, <1>17, <1>18, <1>19
       DEF Next, Manage, Call

(***************************************************************************)
(* What the call has to report so far.                                     *)
(***************************************************************************)
LEMMA ReportStep == IInv /\ [Next]_vars => ReportInv'
<1> SUFFICES ASSUME IInv, [Next]_vars PROVE ReportInv'
    OBVIOUS
<1> USE DEF IInv, TypeOK, ManagerTypeOK, AnsweredInv, LoopInv, SetInv,
        Level, Other, Working, InLoop, Phase, PC, Settled, RuleState,
        Answer, NoAnswer, ReportInv
<1>0. CASE UNCHANGED vars
    BY <1>0 DEF vars
<1>1. ASSUME NEW add \in SUBSET Client, NEW upd \in SUBSET Client,
             NEW del \in SUBSET Client, UpdateAccess(add, upd, del)
      PROVE  ReportInv'
    BY <1>1 DEF UpdateAccess, HandsOver, rules, cluster, loop, trouble
<1>2. CASE FullSync
    BY <1>2 DEF FullSync, HandsOverAll, Ruled, rules, cluster, loop, trouble
<1>3. CASE Prepare
    BY <1>3 DEF Prepare, Enter, rules, cluster, loop, trouble
<1>4. CASE GovernedByGroup
    BY <1>4 DEF GovernedByGroup, Stores, rules, cluster, loop, trouble
<1>5. CASE GroupUnreadable
    BY <1>5 DEF GroupUnreadable, Enter, Fault, rules, cluster, loop, trouble
<1>6. CASE Abort
    BY <1>6 DEF Abort, MarksError, Fault, rules, cluster, loop, trouble
<1>7. ASSUME NEW a \in Client, ApplyRule(a) PROVE ReportInv'
    BY <1>7 DEF ApplyRule, rules, cluster, loop, trouble
<1>8. ASSUME NEW a \in Client, RevokeRule(a) PROVE ReportInv'
    BY <1>8 DEF RevokeRule, rules, cluster, loop, trouble
<1>9. ASSUME NEW a \in Client, PruneAddr(a) PROVE ReportInv'
    BY <1>9 DEF PruneAddr, Stale, rules, cluster, loop, trouble
<1>10. CASE ApplyDone
    BY <1>10 DEF ApplyDone, rules, cluster, loop, trouble
<1>11. CASE RevokeDone
    BY <1>11 DEF RevokeDone, Stale, rules, cluster, loop, trouble
<1>12. CASE PruneOther
    BY <1>12 DEF PruneOther, Stale, rules, cluster, loop, trouble
<1>13. CASE Return
    BY <1>13 DEF Return, Stores, rules, cluster, loop, trouble
<1>14. CASE Put
    BY <1>14
       DEF Put, Answers, Fault, Reply, SetRaises, Reports, rules, cluster,
           loop, trouble
<1>15. CASE Attach
    BY <1>15
       DEF Attach, Answers, Fault, Reply, SetRaises, Reports, rules, cluster,
           loop, trouble
<1>16. CASE Take
    <2>1. /\ UNCHANGED <<want, phase, todo, cur>>
          /\ phase = "apply" => pc' \in {"next", "detach", "drop"}
          /\ pc' \in {"next", "take", "detach", "drop"}
        BY <1>16 DEF Take, SetRaises, SetReturns, Reports, loop
    <2>2. ASSUME NEW a \in Client
          PROVE  \/ report'[a] = report[a]
                 \/ a = cur /\ report'[a] # "none"
        BY <1>16 DEF Take, SetRaises, SetReturns, Reports, loop
    <2>3. phase = "apply" /\ pc' = "next" => report'[cur] # "none"
        BY <1>16 DEF Take, SetRaises, SetReturns, Reports, loop
    <2>4. phase # "apply" => report' = report
        BY <1>16 DEF Take, SetRaises, SetReturns, Reports
    <2>5. want[cur] # "none" \/ phase # "apply"
        BY <1>16 DEF Take
    <2>6. \A a \in Client : report'[a] # "none" => want'[a] # "none"
        BY <2>1, <2>2, <2>4, <2>5
    <2> QED
        BY <1>16, <2>1, <2>2, <2>3, <2>6 DEF Take, loop
<1>17. CASE Detach
    BY <1>17
       DEF Detach, Answers, Fault, Reply, SetRaises, Reports, rules, cluster,
           loop, trouble
<1>18. CASE Drop
    <2>1. /\ UNCHANGED <<want, phase, todo, cur>>
          /\ phase = "apply" => pc' \in {"next", "detach", "drop"}
          /\ pc' \in {"next", "take", "detach", "drop"}
        BY <1>18 DEF Drop, SetRaises, SetReturns, Reports, loop
    <2>2. ASSUME NEW a \in Client
          PROVE  \/ report'[a] = report[a]
                 \/ a = cur /\ report'[a] # "none"
        BY <1>18 DEF Drop, SetRaises, SetReturns, Reports, loop
    <2>3. phase = "apply" /\ pc' = "next" => report'[cur] # "none"
        BY <1>18 DEF Drop, SetRaises, SetReturns, Reports, loop
    <2>4. phase # "apply" => report' = report
        BY <1>18 DEF Drop, SetRaises, SetReturns, Reports
    <2>5. want[cur] # "none" \/ phase # "apply"
        BY <1>18 DEF Drop
    <2>6. \A a \in Client : report'[a] # "none" => want'[a] # "none"
        BY <2>1, <2>2, <2>4, <2>5
    <2> QED
        BY <1>18, <2>1, <2>2, <2>3, <2>6 DEF Drop, loop
<1>19. CASE Crash
    BY <1>19 DEF Crash, Fault, rules, cluster, loop, trouble
<1> QED
    BY <1>0, <1>1, <1>2, <1>3, <1>4, <1>5, <1>6, <1>7, <1>8, <1>9, <1>10,
       <1>11, <1>12, <1>13, <1>14, <1>15, <1>16, <1>17, <1>18, <1>19
       DEF Next, Manage, Call

(***************************************************************************)
(* A full sync that goes well leaves exactly the rules: what a loop has    *)
(* not reached is in its list, and what it has left is as it should be.    *)
(***************************************************************************)
LEMMA CleanStep == IInv /\ CleanInv /\ [Next]_vars => CleanInv'
<1> SUFFICES ASSUME IInv, CleanInv, [Next]_vars PROVE CleanInv'
    OBVIOUS
<1> USE DEF IInv, TypeOK, ManagerTypeOK, PolicyInv, LoopInv, SetInv,
        CleanInv, Level, Other, Working, InLoop, Granted, Right, Now
<1>0. CASE UNCHANGED vars
    BY <1>0 DEF vars
<1>1. ASSUME NEW add \in SUBSET Client, NEW upd \in SUBSET Client,
             NEW del \in SUBSET Client, UpdateAccess(add, upd, del)
      PROVE  CleanInv'
    BY <1>1 DEF UpdateAccess, HandsOver, rules, cluster, loop, trouble
<1>2. CASE FullSync
    BY <1>2 DEF FullSync, HandsOverAll, Ruled, rules, cluster, loop, trouble
<1>3. CASE Prepare
    BY <1>3 DEF Prepare, Enter, rules, cluster, loop, trouble
<1>4. CASE GovernedByGroup
    BY <1>4 DEF GovernedByGroup, Stores, rules, cluster, loop, trouble
<1>5. CASE GroupUnreadable
    BY <1>5 DEF GroupUnreadable, Enter, Fault, rules, cluster, loop, trouble
<1>6. CASE Abort
    BY <1>6 DEF Abort, MarksError, Fault, rules, cluster, loop, trouble
<1>7. ASSUME NEW a \in Client, ApplyRule(a)
      PROVE  CleanInv'
    BY <1>7 DEF ApplyRule, rules, cluster, loop, trouble
<1>8. ASSUME NEW a \in Client, RevokeRule(a)
      PROVE  CleanInv'
    BY <1>8 DEF RevokeRule, rules, cluster, loop, trouble
<1>9. ASSUME NEW a \in Client, PruneAddr(a)
      PROVE  CleanInv'
    BY <1>9 DEF PruneAddr, Stale, rules, cluster, loop, trouble
<1>10. CASE ApplyDone
    BY <1>10 DEF ApplyDone, rules, cluster, loop, trouble
<1>11. CASE RevokeDone
    BY <1>11 DEF RevokeDone, Stale, rules, cluster, loop, trouble
<1>12. CASE PruneOther
    BY <1>12 DEF PruneOther, Stale, rules, cluster, loop, trouble
<1>13. CASE Return
    BY <1>13 DEF Return, Stores, rules, cluster, loop, trouble
<1>14. CASE Put
    BY <1>14
       DEF Put, Answers, Fault, Reply, SetRaises, Reports, rules, cluster,
           loop, trouble
<1>15. CASE Attach
    BY <1>15
       DEF Attach, Answers, Fault, Reply, SetRaises, Reports, rules, cluster,
           loop, trouble
<1>16. CASE Take
    BY <1>16
       DEF Take, Answers, Fault, Reply, SetRaises, SetReturns, Reports, rules,
           cluster, loop, trouble
<1>17. CASE Detach
    BY <1>17
       DEF Detach, Answers, Fault, Reply, SetRaises, Reports, rules, cluster,
           loop, trouble
<1>18. CASE Drop
    BY <1>18
       DEF Drop, Answers, Fault, Reply, SetRaises, SetReturns, Reports, rules,
           cluster, loop, trouble
<1>19. CASE Crash
    BY <1>19 DEF Crash, Fault, rules, cluster, loop, trouble
<1> QED
    BY <1>0, <1>1, <1>2, <1>3, <1>4, <1>5, <1>6, <1>7, <1>8, <1>9, <1>10,
       <1>11, <1>12, <1>13, <1>14, <1>15, <1>16, <1>17, <1>18, <1>19
       DEF Next, Manage, Call
-----------------------------------------------------------------------------
(***************************************************************************)
(* The invariant holds at the start.                                       *)
(***************************************************************************)
LEMMA InitIInv == Init => IInv
<1> SUFFICES ASSUME Init PROVE IInv
    OBVIOUS
<1>1. TypeOK
    <2>1. /\ want \in [Client -> Level \cup {"none"}]
          /\ state \in [Client -> RuleState]
          /\ ips \in [Level -> SUBSET Client]
          /\ report \in [Client -> Answer]
        BY DEF Init, NoRules, NoAnswer, Answer, RuleState
    <2>2. faults \in 0..MaxFaults
        BY MaxFaultsAssumption DEF Init
    <2>3. grouped \in BOOLEAN /\ sync \in BOOLEAN /\ dirty \in BOOLEAN
        BY DEF Init
    <2>4. /\ exists \in SUBSET Level /\ attached \in SUBSET Level
          /\ todo \in SUBSET Client /\ dels \in SUBSET Client
          /\ pc \in PC /\ phase \in Phase /\ cur \in Client /\ lvl \in Level
        BY DEF Init, PC, Phase, Level
    <2> QED
        BY <2>1, <2>2, <2>3, <2>4 DEF TypeOK, ManagerTypeOK
<1>2. PolicyInv /\ ActiveInv
    BY DEF Init, NoRules, NoAnswer, PolicyInv, ActiveInv
<1>3. LoopInv /\ SetInv /\ AnsweredInv /\ ReportInv
    BY DEF Init, NoRules, NoAnswer, LoopInv, SetInv, AnsweredInv, ReportInv,
           Working, InLoop
<1> QED
    BY <1>1, <1>2, <1>3 DEF IInv

(***************************************************************************)
(* The strengthened invariant holds in every state.                        *)
(***************************************************************************)
THEOREM Invariance == Spec => []IInv
<1>1. IInv /\ [Next]_vars => IInv'
    BY TypeStep, PolicyStep, ActiveStep, LoopStep, SetStep, AnsweredStep,
       ReportStep
       DEF IInv
<1> QED
    BY <1>1, InitIInv, PTL DEF Spec

(***************************************************************************)
(* Every variable keeps its type.                                          *)
(***************************************************************************)
THEOREM TypeCorrect == Spec => []TypeOK
<1>1. IInv => TypeOK
    BY DEF IInv
<1> QED
    BY <1>1, Invariance, PTL

(***************************************************************************)
(* A rule the manager shows as active is in force at its level and at no   *)
(* other, in every state.                                                  *)
(***************************************************************************)
THEOREM ActiveRulesHold == Spec => []ActiveIsEnforced
<1>1. IInv => ActiveIsEnforced
    BY DEF IInv, TypeOK, ActiveInv, ActiveIsEnforced, Enforced
<1> QED
    BY <1>1, Invariance, PTL

(***************************************************************************)
(* The share is opened to its organization only when no rule is left but   *)
(* those that could not be applied.                                        *)
(***************************************************************************)
THEOREM StaysClosed == Spec => OpensOnlyWithoutRules
<1> DEFINE Opens == ~grouped /\ attached # {} /\ attached' = {} =>
                       \A a \in Client : want[a] # "none" =>
                           "error" \in {state[a], report[a]}
<1>1. IInv /\ [Next]_vars => Opens
    <2> SUFFICES ASSUME IInv, [Next]_vars, ~grouped,
                        attached # {}, attached' = {},
                        NEW a \in Client, want[a] # "none"
                 PROVE  "error" \in {state[a], report[a]}
        OBVIOUS
    <2>1. Detach \/ Drop
        BY
           DEF Next, Manage, Call, vars, cluster, loop, UpdateAccess,
               FullSync,
               Prepare, GovernedByGroup, GroupUnreadable, Abort, ApplyRule,
               RevokeRule, PruneAddr, ApplyDone, RevokeDone, PruneOther,
               Return, Put, Attach, Take, Crash
    <2>2. attached' = attached \/ attached' = attached \ {lvl}
        BY <2>1 DEF Detach, Drop
    <2>3. pc \in {"detach", "drop"}
        BY <2>1 DEF Detach, Drop
    <2>4. want[cur] \in attached => want[cur] = lvl
        BY <2>2
    <2>5. phase # "apply"
        BY <2>3, <2>4 DEF IInv, SetInv
    <2>6. state[a] \in {"active", "error"} \/ report[a] # "none"
        BY <2>3, <2>5 DEF IInv, AnsweredInv, InLoop, Settled
    <2>7. ips[lvl] = {}
        BY <2>3 DEF IInv, SetInv
    <2>8. "active" \notin {state[a], report[a]}
        BY <2>2, <2>7 DEF IInv, TypeOK, ActiveInv
    <2> QED
        BY <2>6, <2>8 DEF IInv, TypeOK, Answer
<1> QED
    BY <1>1, Invariance, PTL DEF Spec, OpensOnlyWithoutRules

(***************************************************************************)
(* With no failure since the last full sync began, the policies of an idle *)
(* share hold exactly the addresses of its rules, and are attached.        *)
(***************************************************************************)
THEOREM SyncIsExact == Spec => []ExactWhenClean
<1>1. Init => CleanInv
    BY DEF Init, NoRules, CleanInv, InLoop, Granted, Right, Now
<1>2. IInv /\ CleanInv => ExactWhenClean
    BY DEF IInv, TypeOK, ManagerTypeOK, CleanInv, Granted, Right,
           ExactWhenClean, Level
<1> QED
    BY <1>1, <1>2, CleanStep, Invariance, PTL DEF Spec

(***************************************************************************)
(* An address keeps some access from one rule set to the next, unless a    *)
(* full sync that could not apply its rule prunes what the rule had.       *)
(***************************************************************************)
THEOREM AccessIsContinuous == Spec => NoGap
<1> DEFINE Kept == ~grouped => \A a \in Client :
                      /\ Enforced(a) # {} /\ Enforced(a)' = {}
                      /\ want[a] # "none" /\ want'[a] # "none"
                      => phase = "prune" /\ report[a] = "error"
<1>1. IInv /\ [Next]_vars => Kept
    <2> SUFFICES ASSUME IInv, [Next]_vars, ~grouped, NEW a \in Client,
                        Enforced(a) # {}, Enforced(a)' = {},
                        want[a] # "none", want'[a] # "none"
                 PROVE  phase = "prune" /\ report[a] = "error"
        OBVIOUS
    <2>1. Take \/ Detach \/ Drop
        <3>1. CASE UNCHANGED <<ips, attached>>
            BY <3>1 DEF Enforced
        <3>2. CASE Put
            BY <3>2 DEF Put, Enforced, IInv, TypeOK
        <3>3. CASE Attach
            BY <3>3 DEF Attach, Enforced
        <3> QED
            BY <3>1, <3>2, <3>3
               DEF Next, Manage, Call, vars, cluster, loop, UpdateAccess,
                   FullSync, Prepare, GovernedByGroup, GroupUnreadable, Abort,
                   ApplyRule, RevokeRule, PruneAddr, ApplyDone, RevokeDone,
                   PruneOther, Return, Crash
    <2>2. CASE Detach \/ Drop
        <3>1. ips[lvl] = {} /\ ips' = ips
            BY <2>2 DEF Detach, Drop, IInv, SetInv
        <3>2. attached \ {lvl} \subseteq attached'
            BY <2>2 DEF Detach, Drop
        <3> QED
            BY <3>1, <3>2 DEF Enforced
    <2>3. CASE Take
        <3>1. /\ pc = "take" /\ attached' = attached
              /\ \A l \in Level : ips[l] \ {cur} \subseteq ips'[l]
              /\ \A l \in Level : l # lvl => ips'[l] = ips[l]
            BY <2>3 DEF Take, IInv, TypeOK
        <3>2. a = cur
            BY <3>1 DEF Enforced, IInv, TypeOK
        <3>3. phase # "apply" /\ phase # "revoke"
            BY <3>1, <3>2 DEF IInv, SetInv, Enforced, TypeOK
        <3>4. phase = "prune" /\ sync
            BY <3>1, <3>3 DEF IInv, TypeOK, Phase, ReportInv, InLoop
        <3>5. report[a] # "none"
            BY <3>1, <3>4 DEF IInv, ReportInv, InLoop
        <3>6. report[a] # "active"
            BY <3>1, <3>2 DEF IInv, SetInv, ActiveInv, TypeOK, Enforced
        <3> QED
            BY <3>4, <3>5, <3>6 DEF IInv, TypeOK, Answer
    <2> QED
        BY <2>1, <2>2, <2>3
<1> QED
    BY <1>1, Invariance, PTL DEF Spec, NoGap

(***************************************************************************)
(* The driver keeps the access contract.                                   *)
(***************************************************************************)
THEOREM KeepsContract == Spec => Implements
<1>1. Init => Contract!Init
    BY DEF Init, NoRules, Contract!Init, Asked, Listed, Effective, Level
<1>2. IInv /\ IInv' /\ [Next]_vars => [Contract!Next]_(Contract!vars)
    <2> SUFFICES ASSUME IInv, IInv', [Next]_vars
                 PROVE  [Contract!Next]_(Contract!vars)
        OBVIOUS
    <2>1. CASE UNCHANGED <<want, ips, attached>>
        BY <2>1 DEF Contract!vars, Asked, Listed, Effective
    <2>2. ASSUME UNCHANGED <<ips, attached>>
          PROVE  Contract!SetRules
        BY <2>2 DEF Contract!SetRules, Asked, Listed, Effective
    <2>3. ASSUME UNCHANGED want,
                 \A a \in Client, l \in Level :
                    /\ a \in ips'[l] => a \in ips[l] \/ want[a] = l
                    /\ want[a] = l /\ a \in ips[l] => a \in ips'[l],
                 \A a \in Client, l \in Level :
                    l \in attached /\ want[a] = l /\ a \in ips[l]
                       => l \in attached'
          PROVE  Contract!Work
        BY <2>3 DEF Contract!Work, Asked, Listed, Effective
    <2>4. CASE Put
        <3>1. want[cur] = lvl
            BY <2>4 DEF Put, IInv, SetInv
        <3> QED
            BY <2>3, <2>4, <3>1 DEF Put, Contract!Next, IInv, TypeOK
    <2>5. CASE Attach
        BY <2>3, <2>5 DEF Attach, Contract!Next
    <2>6. CASE Take
        <3>1. want[cur] # lvl
            BY <2>6 DEF Take, IInv, SetInv
        <3> QED
            BY <2>3, <2>6, <3>1 DEF Take, Contract!Next, IInv, TypeOK
    <2>7. CASE Detach \/ Drop
        <3>1. ips[lvl] = {} /\ ips' = ips /\ want' = want
            BY <2>7 DEF Detach, Drop, IInv, SetInv
        <3>2. attached \ {lvl} \subseteq attached'
            BY <2>7 DEF Detach, Drop
        <3> QED
            BY <2>3, <3>1, <3>2 DEF Contract!Next
    <2> QED
        BY <2>1, <2>2, <2>4, <2>5, <2>6, <2>7
           DEF Next, Manage, Call, vars, cluster, rules, loop, UpdateAccess,
               FullSync, Prepare, GovernedByGroup, GroupUnreadable, Abort,
               ApplyRule, RevokeRule, PruneAddr, ApplyDone, RevokeDone,
               PruneOther, Return, Crash, Contract!Next
<1> QED
    BY <1>1, <1>2, Invariance, PTL
       DEF Spec, Implements, Contract!Spec

(***************************************************************************)
(* So what the policies list beyond the rules is never new: it was listed  *)
(* beyond them before, or a rule asked for it until the manager handed     *)
(* over the next rules.  No path of the driver, failed or not, lists an    *)
(* address at a level no rule gives it.                                    *)
(***************************************************************************)
THEOREM NothingUnasked == Spec => Contract!DebtIsOld
<1> DEFINE Debt == Listed \ Asked
           Old  == Debt' \ Debt \subseteq Asked \ Asked'
<1>1. [Contract!Next]_(Contract!vars) => [Old]_(Contract!vars)
    BY DEF Contract!Next, Contract!SetRules, Contract!Work, Contract!vars
<1> QED
    BY <1>1, KeepsContract, PTL
       DEF Implements, Contract!Spec, Contract!DebtIsOld

(***************************************************************************)
(* And a grant that the rules go on asking for is not interrupted, neither *)
(* by new rules nor by any piece of the driver's work.                     *)
(***************************************************************************)
THEOREM WantedIsKept == Spec => Contract!KeepsWhatIsWanted
<1> DEFINE Keeps == Effective \cap Asked \cap Asked' \subseteq Effective'
<1>1. [Contract!Next]_(Contract!vars) => [Keeps]_(Contract!vars)
    BY DEF Contract!Next, Contract!SetRules, Contract!Work, Contract!vars
<1> QED
    BY <1>1, KeepsContract, PTL
       DEF Implements, Contract!Spec, Contract!KeepsWhatIsWanted

-----------------------------------------------------------------------------
(***************************************************************************)
(* Answers.  Once a call is over no rule is in transition, and a call does *)
(* come to its end: it goes through its loops in order, each loop through  *)
(* its list, and each rule through the calls of _policy_set_ip.            *)
(***************************************************************************)
InTransit(a) == state[a] \in {"queued", "denying"}

\* No rule is in transition between calls.
IdleInv == pc = "idle" => \A a \in Client : ~InTransit(a)

(***************************************************************************)
(* Every step keeps it.                                                    *)
(***************************************************************************)
LEMMA IdleStep == IInv /\ IdleInv /\ [Next]_vars => IdleInv'
<1> SUFFICES ASSUME IInv, IdleInv, [Next]_vars PROVE IdleInv'
    OBVIOUS
<1> USE DEF IInv, TypeOK, ManagerTypeOK, AnsweredInv, LoopInv, SetInv,
        Level, Other, Working, InLoop, Phase, PC, Settled, RuleState,
        IdleInv, InTransit, Answer
<1>0. CASE UNCHANGED vars
    BY <1>0 DEF vars
<1>1. ASSUME NEW add \in SUBSET Client, NEW upd \in SUBSET Client,
             NEW del \in SUBSET Client, UpdateAccess(add, upd, del)
      PROVE  IdleInv'
    BY <1>1 DEF UpdateAccess, HandsOver, rules, cluster, loop, trouble
<1>2. CASE FullSync
    BY <1>2 DEF FullSync, HandsOverAll, Ruled, rules, cluster, loop, trouble
<1>3. CASE Prepare \/ GroupUnreadable
    BY <1>3 DEF Prepare, GroupUnreadable, Enter
<1>4. CASE GovernedByGroup
    BY <1>4 DEF GovernedByGroup, Stores
<1>5. CASE Abort
    BY <1>5 DEF Abort, MarksError
<1>6. CASE \E a \in Client : ApplyRule(a) \/ RevokeRule(a) \/ PruneAddr(a)
    BY <1>6 DEF ApplyRule, RevokeRule, PruneAddr, rules
<1>7. CASE ApplyDone \/ RevokeDone \/ PruneOther
    BY <1>7 DEF ApplyDone, RevokeDone, PruneOther, rules
<1>8. CASE Return
    BY <1>8 DEF Return, Stores
<1>9. CASE Put \/ Attach \/ Detach
    BY <1>9 DEF Put, Attach, Detach, SetRaises
<1>10. CASE Take \/ Drop
    BY <1>10 DEF Take, Drop, SetRaises, SetReturns
<1>11. CASE Crash
    BY <1>11 DEF Crash, rules
<1> QED
    BY <1>0, <1>1, <1>2, <1>3, <1>4, <1>5, <1>6, <1>7, <1>8, <1>9, <1>10,
       <1>11
       DEF Next, Manage, Call

(***************************************************************************)
(* Between two calls no rule is in transition.                             *)
(***************************************************************************)
THEOREM IdleIsAnswered ==
    Spec => [](pc = "idle" => \A a \in Client :
                                  state[a] \in {"none", "active", "error"})
<1>1. Init => IdleInv
    BY DEF Init, NoRules, IdleInv, InTransit
<1>2. IInv /\ IdleInv =>
          (pc = "idle" => \A a \in Client :
                              state[a] \in {"none", "active", "error"})
    BY DEF IInv, TypeOK, ManagerTypeOK, RuleState, IdleInv, InTransit
<1> QED
    BY <1>1, <1>2, IdleStep, Invariance, PTL DEF Spec

\* How many loops a call has yet to finish, the one that runs included, and
\* how many calls of _policy_set_ip the rule in hand may take.
LoopsLeft ==
    CASE pc = "prepare"                             -> 5
      [] InLoop /\ phase = "apply"                  -> 4
      [] InLoop /\ phase = "revoke"                 -> 3
      [] InLoop /\ phase = "prune" /\ lvl = "rw"    -> 2
      [] InLoop /\ phase = "prune" /\ lvl = "ro"    -> 1
      [] OTHER                                      -> 0

CallsLeft ==
    LET both == IF phase = "revoke" /\ lvl = "rw" THEN 3 ELSE 0
    IN  CASE pc = "put"    -> 5
          [] pc = "attach" -> 4
          [] pc = "take"   -> both + 3
          [] pc = "detach" -> both + 2
          [] pc = "drop"   -> both + 1
          [] OTHER         -> 0

\* A loop less, or a rule less in the loop, or a call less for the rule.
Falls ==
    \/ LoopsLeft' < LoopsLeft
    \/ LoopsLeft' = LoopsLeft /\ todo' \subseteq todo /\ todo' # todo
    \/ LoopsLeft' = LoopsLeft /\ todo' = todo /\ CallsLeft' < CallsLeft

(***************************************************************************)
(* Every step of a call brings its end nearer: there are five loops at     *)
(* most, as many rules in one as it has to begin with, and six REST calls  *)
(* for a rule.                                                             *)
(***************************************************************************)
THEOREM CallAdvances ==
    Spec => [][Call => Falls /\ LoopsLeft \in 1..5 /\ CallsLeft \in 0..6]_vars
<1>1. IInv /\ Call => LoopsLeft \in 1..5 /\ CallsLeft \in 0..6
    BY DEF IInv, TypeOK, PC, Phase, Level, LoopsLeft, CallsLeft, InLoop,
       Call, Prepare, GovernedByGroup, GroupUnreadable, Abort, ApplyRule,
       RevokeRule, PruneAddr, ApplyDone, RevokeDone, PruneOther, Return,
       Put, Attach, Take, Detach, Drop
<1>2. IInv /\ Call => Falls
    <2> SUFFICES ASSUME IInv, Call PROVE Falls
        OBVIOUS
    <2> USE DEF IInv, TypeOK, PC, Phase, Level, LoopsLeft, CallsLeft, InLoop,
            Falls, loop
    <2>1. CASE Prepare \/ GroupUnreadable
        BY <2>1 DEF Prepare, GroupUnreadable, Enter
    <2>2. CASE GovernedByGroup \/ Abort
        BY <2>2 DEF GovernedByGroup, Abort
    <2>3. ASSUME NEW a \in Client, ApplyRule(a) \/ RevokeRule(a)
          PROVE  Falls
        BY <2>3 DEF ApplyRule, RevokeRule
    <2>4. ASSUME NEW a \in Client, PruneAddr(a) PROVE Falls
        BY <2>4 DEF PruneAddr
    <2>5. CASE ApplyDone \/ RevokeDone \/ PruneOther \/ Return
        BY <2>5 DEF ApplyDone, RevokeDone, PruneOther, Return
    <2>6. CASE Put \/ Attach
        BY <2>6 DEF Put, Attach, SetRaises, SetInv, Other
    <2>7. CASE Take
        BY <2>7 DEF Take, SetRaises, SetReturns, Reports
    <2>8. CASE Detach
        BY <2>8 DEF Detach, SetRaises
    <2>9. CASE Drop
        BY <2>9 DEF Drop, SetRaises, SetReturns, Reports
    <2> QED
        BY <2>1, <2>2, <2>3, <2>4, <2>5, <2>6, <2>7, <2>8, <2>9 DEF Call
<1> QED
    BY <1>1, <1>2, Invariance, PTL DEF Spec

\* The places of the rules, and what enables the sync of one that starts.
IsIdle == pc = "idle"
IsDown == pc = "down"
SyncCanStart == pc = "down" => ENABLED <<pc = "down" /\ FullSync>>_vars

\* A rule that waits for its answer, and one that has it.
Waits(a) == state[a] \in {"queued", "denying"}
Has(a)   == \/ state[a] \in {"none", "error"}
            \/ state[a] = "active" /\ InForce(a)

(***************************************************************************)
(* Every rule handed over is answered, if each call comes to its end, as   *)
(* CallAdvances says, and the manager does not crash for ever: its restart *)
(* answers what a crash left open.                                         *)
(***************************************************************************)
THEOREM RulesAreAnswered ==
    LiveSpec /\ []SyncCanStart /\ (Working ~> ~Working) /\ <>[][~Crash]_vars
    => EveryRuleAnswered
<1> SUFFICES ASSUME NEW a \in Client
             PROVE  LiveSpec /\ []SyncCanStart /\ (Working ~> ~Working)
                    /\ <>[][~Crash]_vars => (Waits(a) ~> Has(a))
    BY DEF EveryRuleAnswered, Waits, Has
<1>1. Init => IdleInv
    BY DEF Init, NoRules, IdleInv, InTransit
<1>2. IInv /\ IdleInv /\ IsIdle => Has(a)
    BY DEF IInv, TypeOK, ManagerTypeOK, RuleState, IdleInv, InTransit, Has,
       IsIdle, InForce, Enforced, ActiveInv
<1>3. IInv => IsIdle \/ IsDown \/ Working
    BY DEF IsIdle, IsDown, Working
<1>4. IInv /\ IInv' /\ [Next]_vars /\ [~Crash]_vars /\ Working =>
          Working' \/ IsIdle'
    <2> SUFFICES ASSUME IInv, IInv', [Next]_vars, [~Crash]_vars, Working,
                        IsDown'
                 PROVE  FALSE
        BY DEF IsIdle, IsDown, Working
    <2>1. CASE UNCHANGED vars
        BY <2>1 DEF vars, Working, IsDown
    <2>2. CASE Manage
        BY <2>2 DEF Manage, UpdateAccess, FullSync, IsDown
    <2>3. CASE Call
        BY <2>3 DEF Call, IsDown, Prepare, GovernedByGroup, GroupUnreadable,
           Enter, Abort, ApplyRule, RevokeRule, PruneAddr, ApplyDone,
           RevokeDone, PruneOther, Return, Put, Attach, Take, Detach, Drop,
           SetRaises, SetReturns, Reports, Working
    <2> QED
        BY <2>1, <2>2, <2>3 DEF Next
<1>5. IInv /\ IInv' /\ [Next]_vars /\ IsDown => IsDown' \/ Working'
    BY DEF IsDown, Working, Next, Manage, Crash, vars, UpdateAccess, FullSync,
       Call, Prepare, GovernedByGroup, GroupUnreadable, Abort, ApplyRule,
       RevokeRule, PruneAddr, ApplyDone, RevokeDone, PruneOther, Return, Put,
       Attach, Take, Detach, Drop
<1>6. <<pc = "down" /\ FullSync>>_vars => Working'
    BY DEF FullSync, Working
<1>7. IsDown /\ SyncCanStart => ENABLED <<pc = "down" /\ FullSync>>_vars
    BY DEF IsDown, SyncCanStart
<1>8. IsDown => ~Working
    BY DEF IsDown, Working
<1> QED
    BY <1>1, <1>2, <1>3, <1>4, <1>5, <1>6, <1>7, <1>8, IdleStep, Invariance,
        PTL
       DEF LiveSpec, Fairness, Spec
=============================================================================
