--------------------------- MODULE CiRunnerProofs ---------------------------
(***************************************************************************)
(* Proofs about CiRunner, for any patchsets and bounds.                    *)
(***************************************************************************)
EXTENDS CiRunner, SequenceTheorems, TLAPS

(***************************************************************************)
(* The inductive invariant.                                                *)
(***************************************************************************)

\* The stages in which the redeploy holds the lock.
Holding == {"update", "preflight", "stop", "teardown", "build", "start",
            "mark", "leave"}

\* Events that wait in the stream are among those that were sent.
StreamInv == Len(stream) <= events

\* The lock is the redeploy's while it is at work; a listener that it stopped
\* took all its processes with it.
LockInv ==
    /\ (lock = "redeploy") = (redeploy \in Holding)
    /\ stray => listener # "stopped"

\* A half built DevStack has the marker, or the redeploy that is about to set
\* it; or it could not be set, or the host went down before.
MarkInv ==
    /\ deploy = "half" => \/ marker \/ unmarked
                          \/ redeploy = "build"
                          \/ redeploy = "mark" /\ failed
    /\ redeploy = "start" => deploy # "half"
    /\ redeploy = "mark" => failed \/ deploy # "half"

\* A job past the marker has a DevStack that is not half built, but for one
\* that has no marker, and, once prepared, its own patchset in the tree.
JobInv ==
    /\ job \in {"prepare", "test"} => deploy # "half" \/ unmarked
    /\ job = "test" => tree = cur

\* What has no result is in hand or lost; after posting it is not in hand.
OwedInv ==
    /\ OwedIsInHand
    /\ job \in {"restore", "over"} => owed \subseteq lost

IInv == TypeOK /\ StreamInv /\ LockInv /\ MarkInv /\ JobInv /\ OwedInv

\* The flags, and the rest of the types.
FlagsOK ==
    /\ autoRun \in BOOLEAN /\ stray \in BOOLEAN /\ failed \in BOOLEAN
    /\ marker \in BOOLEAN /\ unmarked \in BOOLEAN

PlacesOK ==
    /\ listener \in {"up", "wait", "job", "late", "down", "stopped", "off"}
    /\ stream \in Seq(Patch \X Kind) /\ Len(stream) <= MaxEvents
    /\ cur \in Patch \cup {NoPatch} /\ tested \in SUBSET Patch
    /\ (cur = NoPatch) = (listener \in {"up", "down", "stopped", "off"})
    /\ job \in {"none", "start", "prepare", "test", "fail", "post",
                "restore", "over"}
    /\ (job # "none") = (listener = "job")
    /\ redeploy \in {"idle", "lock", "update", "relock", "preflight", "stop",
                     "teardown", "build", "start", "mark", "leave"}
    /\ lock \in {"free", "listener", "redeploy"}
    /\ (lock = "listener") = (listener \in {"job", "late"})
    /\ deploy \in {"good", "half", "degraded"}
    /\ tree \in Patch \cup {NoPatch}
    /\ events \in 0..MaxEvents /\ faults \in 0..MaxFaults
    /\ owed \in SUBSET Patch /\ lost \in SUBSET Patch

(***************************************************************************)
(* Every flag stays TRUE or FALSE. (Kept apart from the other variables: a *)
(* step's flags are a matter of logic, the rest one of sets and numbers.)  *)
(***************************************************************************)
LEMMA FlagsStep ==
    TypeOK /\ [Next]_vars => FlagsOK'
<1> SUFFICES ASSUME TypeOK, [Next]_vars
             PROVE  FlagsOK'
    OBVIOUS
<1> USE PatchAssumption, BoundsAssumption DEF TypeOK, FlagsOK, devstack,
        nightly, reading
<1>0. CASE UNCHANGED vars
    BY <1>0 DEF vars
<1>1. ASSUME NEW p \in Patch, NEW k \in Kind, Event(p, k)
      PROVE  FlagsOK'
    BY <1>1 DEF Event, Kind
<1>2. CASE TakeEvent
    BY <1>2 DEF TakeEvent
<1>3. CASE LockForJob
    BY <1>3 DEF LockForJob
<1>4. CASE CheckMarker
    BY <1>4 DEF CheckMarker, Phase
<1>5. CASE Prepare
    BY <1>5 DEF Prepare, Phase
<1>6. CASE RunTempest
    BY <1>6 DEF RunTempest, Phase
<1>7. CASE PostResult
    BY <1>7 DEF PostResult, Post, Fault
<1>8. CASE RestoreMaster
    BY <1>8 DEF RestoreMaster, Phase
<1>9. CASE JobEnds
    BY <1>9 DEF JobEnds, Phase, Returns
<1>10. CASE JobTimesOut
    BY <1>10 DEF JobTimesOut, Fault
<1>11. CASE PostTimeout
    BY <1>11 DEF PostTimeout, Post, Returns, Fault
<1>27. CASE JobFails
    BY <1>27 DEF JobFails, Returns, Fault
<1>12. CASE StrayEnds
    BY <1>12 DEF StrayEnds
<1>13. CASE ListenerDies
    BY <1>13 DEF ListenerDies, Fault, GoesDown
<1>14. CASE ListenerRestarts
    BY <1>14 DEF ListenerRestarts
<1>15. CASE HostDies
    BY <1>15 DEF HostDies, Fault, GoesDown
<1>16. CASE StartRedeploy
    BY <1>16 DEF StartRedeploy, Stage
<1>17. CASE LockForRedeploy
    BY <1>17 DEF LockForRedeploy, Stage
<1>18. CASE GiveUpLock
    BY <1>18 DEF GiveUpLock, Stage
<1>19. CASE SelfUpdate
    BY <1>19 DEF SelfUpdate, Stage
<1>20. CASE Preflight
    BY <1>20 DEF Preflight, Stage
<1>21. CASE StopListener
    BY <1>21 DEF StopListener, Stage, GoesDown, Fault
<1>22. CASE TearDown
    BY <1>22 DEF TearDown, Stage
<1>23. CASE Build
    BY <1>23 DEF Build, Stage
<1>24. CASE StartListener
    BY <1>24 DEF StartListener, Stage, Started, Fault
<1>25. CASE MarkOutcome
    BY <1>25 DEF MarkOutcome, Stage, Fault
<1>26. CASE Leave
    BY <1>26 DEF Leave, Stage, Started, Fault
<1> QED
    BY <1>0, <1>1, <1>2, <1>3, <1>4, <1>5, <1>6, <1>7, <1>8, <1>9, <1>10,
        <1>11, <1>12, <1>13, <1>14, <1>15, <1>16, <1>17, <1>18, <1>19, <1>20,
        <1>21, <1>22, <1>23, <1>24, <1>25, <1>26, <1>27
       DEF Next, Listen, Run, Rebuild

(***************************************************************************)
(* Every other variable keeps its type, and the listener's place goes on   *)
(* agreeing with its patchset, its job and its lock.                       *)
(***************************************************************************)
LEMMA PlacesStep ==
    TypeOK /\ StreamInv /\ LockInv /\ OwedInv /\ [Next]_vars => PlacesOK'
<1> SUFFICES ASSUME TypeOK, StreamInv, LockInv, OwedInv, [Next]_vars
             PROVE  PlacesOK'
    OBVIOUS
<1> USE PatchAssumption, BoundsAssumption DEF TypeOK, PlacesOK, devstack,
        nightly, reading
<1>0. CASE UNCHANGED vars
    BY <1>0 DEF vars
<1>1. ASSUME NEW p \in Patch, NEW k \in Kind, Event(p, k)
      PROVE  PlacesOK'
    BY <1>1 DEF Event, Kind, StreamInv
<1>2. CASE TakeEvent
    BY <1>2 DEF TakeEvent
<1>3. CASE LockForJob
    BY <1>3 DEF LockForJob
<1>4. CASE CheckMarker
    BY <1>4 DEF CheckMarker, Phase
<1>5. CASE Prepare
    BY <1>5 DEF Prepare, Phase
<1>6. CASE RunTempest
    BY <1>6 DEF RunTempest, Phase
<1>7. CASE PostResult
    BY <1>7 DEF PostResult, Post, Fault
<1>8. CASE RestoreMaster
    BY <1>8 DEF RestoreMaster, Phase
<1>9. CASE JobEnds
    BY <1>9 DEF JobEnds, Phase, Returns
<1>10. CASE JobTimesOut
    BY <1>10 DEF JobTimesOut, Fault
<1>11. CASE PostTimeout
    BY <1>11 DEF PostTimeout, Post, Returns, Fault
<1>27. CASE JobFails
    BY <1>27 DEF JobFails, Returns, Fault
<1>12. CASE StrayEnds
    BY <1>12 DEF StrayEnds
<1>13. CASE ListenerDies
    BY <1>13 DEF ListenerDies, Fault, GoesDown
<1>14. CASE ListenerRestarts
    BY <1>14 DEF ListenerRestarts
<1>15. CASE HostDies
    BY <1>15 DEF HostDies, Fault, GoesDown
<1>16. CASE StartRedeploy
    BY <1>16 DEF StartRedeploy, Stage
<1>17. CASE LockForRedeploy
    BY <1>17 DEF LockForRedeploy, Stage
<1>18. CASE GiveUpLock
    BY <1>18 DEF GiveUpLock, Stage
<1>19. CASE SelfUpdate
    BY <1>19 DEF SelfUpdate, Stage, LockInv, Holding
<1>20. CASE Preflight
    BY <1>20 DEF Preflight, Stage
<1>21. CASE StopListener
    <2>1. CASE GoesDown("stopped") /\ UNCHANGED faults
        BY <1>21, <2>1 DEF StopListener, Stage, GoesDown
    <2>2. CASE /\ Fault
               /\ UNCHANGED <<listener, stream, cur, job, stray, lock, lost>>
        BY <1>21, <2>2 DEF StopListener, Stage, Fault
    <2> QED
        BY <1>21, <2>1, <2>2 DEF StopListener
<1>22. CASE TearDown
    BY <1>22 DEF TearDown, Stage
<1>23. CASE Build
    BY <1>23 DEF Build, Stage
<1>24. CASE StartListener
    BY <1>24 DEF StartListener, Stage, Started, Fault
<1>25. CASE MarkOutcome
    BY <1>25 DEF MarkOutcome, Stage, Fault
<1>26. CASE Leave
    BY <1>26 DEF Leave, Stage, Started, Fault, LockInv, Holding
<1> QED
    BY <1>0, <1>1, <1>2, <1>3, <1>4, <1>5, <1>6, <1>7, <1>8, <1>9, <1>10,
        <1>11, <1>12, <1>13, <1>14, <1>15, <1>16, <1>17, <1>18, <1>19, <1>20,
        <1>21, <1>22, <1>23, <1>24, <1>25, <1>26, <1>27
       DEF Next, Listen, Run, Rebuild

(***************************************************************************)
(* Together: every step keeps the type invariant.                          *)
(***************************************************************************)
LEMMA TypeStep ==
    TypeOK /\ StreamInv /\ LockInv /\ OwedInv /\ [Next]_vars => TypeOK'
<1> SUFFICES ASSUME TypeOK, StreamInv, LockInv, OwedInv, [Next]_vars
             PROVE  TypeOK'
    OBVIOUS
<1>1. FlagsOK'
    BY FlagsStep
<1>2. PlacesOK'
    BY PlacesStep
<1> QED
    BY <1>1, <1>2 DEF FlagsOK, PlacesOK, TypeOK

(***************************************************************************)
(* The stream holds no more events than were sent.                         *)
(***************************************************************************)
LEMMA StreamStep ==
    TypeOK /\ StreamInv /\ [Next]_vars => StreamInv'
<1> SUFFICES ASSUME TypeOK, StreamInv, [Next]_vars
             PROVE  StreamInv'
    OBVIOUS
<1> USE PatchAssumption, BoundsAssumption DEF TypeOK, StreamInv, devstack,
        nightly, reading
<1>0. CASE UNCHANGED vars
    BY <1>0 DEF vars
<1>1. ASSUME NEW p \in Patch, NEW k \in Kind, Event(p, k)
      PROVE  StreamInv'
    BY <1>1 DEF Event, Kind
<1>2. CASE TakeEvent
    BY <1>2 DEF TakeEvent
<1>3. CASE LockForJob
    BY <1>3 DEF LockForJob
<1>4. CASE CheckMarker
    BY <1>4 DEF CheckMarker, Phase
<1>5. CASE Prepare
    BY <1>5 DEF Prepare, Phase
<1>6. CASE RunTempest
    BY <1>6 DEF RunTempest, Phase
<1>7. CASE PostResult
    BY <1>7 DEF PostResult, Post, Fault
<1>8. CASE RestoreMaster
    BY <1>8 DEF RestoreMaster, Phase
<1>9. CASE JobEnds
    BY <1>9 DEF JobEnds, Phase, Returns
<1>10. CASE JobTimesOut
    BY <1>10 DEF JobTimesOut, Fault
<1>11. CASE PostTimeout
    BY <1>11 DEF PostTimeout, Post, Returns, Fault
<1>27. CASE JobFails
    BY <1>27 DEF JobFails, Returns, Fault
<1>12. CASE StrayEnds
    BY <1>12 DEF StrayEnds
<1>13. CASE ListenerDies
    BY <1>13 DEF ListenerDies, Fault, GoesDown
<1>14. CASE ListenerRestarts
    BY <1>14 DEF ListenerRestarts
<1>15. CASE HostDies
    BY <1>15 DEF HostDies, Fault, GoesDown
<1>16. CASE StartRedeploy
    BY <1>16 DEF StartRedeploy, Stage
<1>17. CASE LockForRedeploy
    BY <1>17 DEF LockForRedeploy, Stage
<1>18. CASE GiveUpLock
    BY <1>18 DEF GiveUpLock, Stage
<1>19. CASE SelfUpdate
    BY <1>19 DEF SelfUpdate, Stage
<1>20. CASE Preflight
    BY <1>20 DEF Preflight, Stage
<1>21. CASE StopListener
    BY <1>21 DEF StopListener, Stage, GoesDown, Fault
<1>22. CASE TearDown
    BY <1>22 DEF TearDown, Stage
<1>23. CASE Build
    BY <1>23 DEF Build, Stage
<1>24. CASE StartListener
    BY <1>24 DEF StartListener, Stage, Started, Fault
<1>25. CASE MarkOutcome
    BY <1>25 DEF MarkOutcome, Stage, Fault
<1>26. CASE Leave
    BY <1>26 DEF Leave, Stage, Started, Fault
<1> QED
    BY <1>0, <1>1, <1>2, <1>3, <1>4, <1>5, <1>6, <1>7, <1>8, <1>9, <1>10,
        <1>11, <1>12, <1>13, <1>14, <1>15, <1>16, <1>17, <1>18, <1>19, <1>20,
        <1>21, <1>22, <1>23, <1>24, <1>25, <1>26, <1>27
       DEF Next, Listen, Run, Rebuild

(***************************************************************************)
(* The lock is the redeploy's exactly in its holding stages, and nobody    *)
(* takes it from the other.                                                *)
(***************************************************************************)
LEMMA LockStep ==
    TypeOK /\ LockInv /\ [Next]_vars => LockInv'
<1> SUFFICES ASSUME TypeOK, LockInv, [Next]_vars
             PROVE  LockInv'
    OBVIOUS
<1> USE PatchAssumption, BoundsAssumption DEF TypeOK, LockInv, Holding,
        devstack, nightly, reading
<1>0. CASE UNCHANGED vars
    BY <1>0 DEF vars
<1>1. ASSUME NEW p \in Patch, NEW k \in Kind, Event(p, k)
      PROVE  LockInv'
    BY <1>1 DEF Event, Kind
<1>2. CASE TakeEvent
    BY <1>2 DEF TakeEvent
<1>3. CASE LockForJob
    BY <1>3 DEF LockForJob
<1>4. CASE CheckMarker
    BY <1>4 DEF CheckMarker, Phase
<1>5. CASE Prepare
    BY <1>5 DEF Prepare, Phase
<1>6. CASE RunTempest
    BY <1>6 DEF RunTempest, Phase
<1>7. CASE PostResult
    BY <1>7 DEF PostResult, Post, Fault
<1>8. CASE RestoreMaster
    BY <1>8 DEF RestoreMaster, Phase
<1>9. CASE JobEnds
    BY <1>9 DEF JobEnds, Phase, Returns
<1>10. CASE JobTimesOut
    BY <1>10 DEF JobTimesOut, Fault
<1>11. CASE PostTimeout
    BY <1>11 DEF PostTimeout, Post, Returns, Fault
<1>27. CASE JobFails
    BY <1>27 DEF JobFails, Returns, Fault
<1>12. CASE StrayEnds
    BY <1>12 DEF StrayEnds
<1>13. CASE ListenerDies
    BY <1>13 DEF ListenerDies, Fault, GoesDown
<1>14. CASE ListenerRestarts
    BY <1>14 DEF ListenerRestarts
<1>15. CASE HostDies
    BY <1>15 DEF HostDies, Fault, GoesDown
<1>16. CASE StartRedeploy
    BY <1>16 DEF StartRedeploy, Stage
<1>17. CASE LockForRedeploy
    BY <1>17 DEF LockForRedeploy, Stage
<1>18. CASE GiveUpLock
    BY <1>18 DEF GiveUpLock, Stage
<1>19. CASE SelfUpdate
    BY <1>19 DEF SelfUpdate, Stage
<1>20. CASE Preflight
    BY <1>20 DEF Preflight, Stage
<1>21. CASE StopListener
    BY <1>21 DEF StopListener, Stage, GoesDown, Fault
<1>22. CASE TearDown
    BY <1>22 DEF TearDown, Stage
<1>23. CASE Build
    BY <1>23 DEF Build, Stage
<1>24. CASE StartListener
    BY <1>24 DEF StartListener, Stage, Started, Fault
<1>25. CASE MarkOutcome
    BY <1>25 DEF MarkOutcome, Stage, Fault
<1>26. CASE Leave
    BY <1>26 DEF Leave, Stage, Started, Fault
<1> QED
    BY <1>0, <1>1, <1>2, <1>3, <1>4, <1>5, <1>6, <1>7, <1>8, <1>9, <1>10,
        <1>11, <1>12, <1>13, <1>14, <1>15, <1>16, <1>17, <1>18, <1>19, <1>20,
        <1>21, <1>22, <1>23, <1>24, <1>25, <1>26, <1>27
       DEF Next, Listen, Run, Rebuild

(***************************************************************************)
(* A half built DevStack has a marker, or a redeploy that is about to set  *)
(* it, unless that could not be done or the host went down before.         *)
(***************************************************************************)
LEMMA MarkStep ==
    TypeOK /\ LockInv /\ MarkInv /\ [Next]_vars => MarkInv'
<1> SUFFICES ASSUME TypeOK, LockInv, MarkInv, [Next]_vars
             PROVE  MarkInv'
    OBVIOUS
<1> USE PatchAssumption, BoundsAssumption DEF TypeOK, LockInv, Holding,
        MarkInv, devstack, nightly, reading
<1>0. CASE UNCHANGED vars
    BY <1>0 DEF vars
<1>1. ASSUME NEW p \in Patch, NEW k \in Kind, Event(p, k)
      PROVE  MarkInv'
    BY <1>1 DEF Event, Kind
<1>2. CASE TakeEvent
    BY <1>2 DEF TakeEvent
<1>3. CASE LockForJob
    BY <1>3 DEF LockForJob
<1>4. CASE CheckMarker
    BY <1>4 DEF CheckMarker, Phase
<1>5. CASE Prepare
    BY <1>5 DEF Prepare, Phase
<1>6. CASE RunTempest
    BY <1>6 DEF RunTempest, Phase
<1>7. CASE PostResult
    BY <1>7 DEF PostResult, Post, Fault
<1>8. CASE RestoreMaster
    BY <1>8 DEF RestoreMaster, Phase
<1>9. CASE JobEnds
    BY <1>9 DEF JobEnds, Phase, Returns
<1>10. CASE JobTimesOut
    BY <1>10 DEF JobTimesOut, Fault
<1>11. CASE PostTimeout
    BY <1>11 DEF PostTimeout, Post, Returns, Fault
<1>27. CASE JobFails
    BY <1>27 DEF JobFails, Returns, Fault
<1>12. CASE StrayEnds
    BY <1>12 DEF StrayEnds
<1>13. CASE ListenerDies
    BY <1>13 DEF ListenerDies, Fault, GoesDown
<1>14. CASE ListenerRestarts
    BY <1>14 DEF ListenerRestarts
<1>15. CASE HostDies
    BY <1>15 DEF HostDies, Fault, GoesDown
<1>16. CASE StartRedeploy
    BY <1>16 DEF StartRedeploy, Stage
<1>17. CASE LockForRedeploy
    BY <1>17 DEF LockForRedeploy, Stage
<1>18. CASE GiveUpLock
    BY <1>18 DEF GiveUpLock, Stage
<1>19. CASE SelfUpdate
    BY <1>19 DEF SelfUpdate, Stage
<1>20. CASE Preflight
    BY <1>20 DEF Preflight, Stage
<1>21. CASE StopListener
    BY <1>21 DEF StopListener, Stage, GoesDown, Fault
<1>22. CASE TearDown
    BY <1>22 DEF TearDown, Stage
<1>23. CASE Build
    BY <1>23 DEF Build, Stage
<1>24. CASE StartListener
    BY <1>24 DEF StartListener, Stage, Started, Fault
<1>25. CASE MarkOutcome
    BY <1>25 DEF MarkOutcome, Stage, Fault
<1>26. CASE Leave
    BY <1>26 DEF Leave, Stage, Started, Fault
<1> QED
    BY <1>0, <1>1, <1>2, <1>3, <1>4, <1>5, <1>6, <1>7, <1>8, <1>9, <1>10,
        <1>11, <1>12, <1>13, <1>14, <1>15, <1>16, <1>17, <1>18, <1>19, <1>20,
        <1>21, <1>22, <1>23, <1>24, <1>25, <1>26, <1>27
       DEF Next, Listen, Run, Rebuild

(***************************************************************************)
(* A job that prepares or tests has no half built DevStack that is marked, *)
(* and one that tests has its own patchset checked out.                    *)
(***************************************************************************)
LEMMA JobStep ==
    TypeOK /\ LockInv /\ MarkInv /\ JobInv /\ [Next]_vars => JobInv'
<1> SUFFICES ASSUME TypeOK, LockInv, MarkInv, JobInv, [Next]_vars
             PROVE  JobInv'
    OBVIOUS
<1> USE PatchAssumption, BoundsAssumption DEF TypeOK, LockInv, Holding,
        MarkInv, JobInv, devstack, nightly, reading
<1>0. CASE UNCHANGED vars
    BY <1>0 DEF vars
<1>1. ASSUME NEW p \in Patch, NEW k \in Kind, Event(p, k)
      PROVE  JobInv'
    BY <1>1 DEF Event, Kind
<1>2. CASE TakeEvent
    BY <1>2 DEF TakeEvent
<1>3. CASE LockForJob
    BY <1>3 DEF LockForJob
<1>4. CASE CheckMarker
    BY <1>4 DEF CheckMarker, Phase
<1>5. CASE Prepare
    BY <1>5 DEF Prepare, Phase
<1>6. CASE RunTempest
    BY <1>6 DEF RunTempest, Phase
<1>7. CASE PostResult
    BY <1>7 DEF PostResult, Post, Fault
<1>8. CASE RestoreMaster
    BY <1>8 DEF RestoreMaster, Phase
<1>9. CASE JobEnds
    BY <1>9 DEF JobEnds, Phase, Returns
<1>10. CASE JobTimesOut
    BY <1>10 DEF JobTimesOut, Fault
<1>11. CASE PostTimeout
    BY <1>11 DEF PostTimeout, Post, Returns, Fault
<1>27. CASE JobFails
    BY <1>27 DEF JobFails, Returns, Fault
<1>12. CASE StrayEnds
    BY <1>12 DEF StrayEnds
<1>13. CASE ListenerDies
    BY <1>13 DEF ListenerDies, Fault, GoesDown
<1>14. CASE ListenerRestarts
    BY <1>14 DEF ListenerRestarts
<1>15. CASE HostDies
    BY <1>15 DEF HostDies, Fault, GoesDown
<1>16. CASE StartRedeploy
    BY <1>16 DEF StartRedeploy, Stage
<1>17. CASE LockForRedeploy
    BY <1>17 DEF LockForRedeploy, Stage
<1>18. CASE GiveUpLock
    BY <1>18 DEF GiveUpLock, Stage
<1>19. CASE SelfUpdate
    BY <1>19 DEF SelfUpdate, Stage
<1>20. CASE Preflight
    BY <1>20 DEF Preflight, Stage
<1>21. CASE StopListener
    BY <1>21 DEF StopListener, Stage, GoesDown, Fault
<1>22. CASE TearDown
    BY <1>22 DEF TearDown, Stage
<1>23. CASE Build
    BY <1>23 DEF Build, Stage
<1>24. CASE StartListener
    BY <1>24 DEF StartListener, Stage, Started, Fault
<1>25. CASE MarkOutcome
    BY <1>25 DEF MarkOutcome, Stage, Fault
<1>26. CASE Leave
    BY <1>26 DEF Leave, Stage, Started, Fault
<1> QED
    BY <1>0, <1>1, <1>2, <1>3, <1>4, <1>5, <1>6, <1>7, <1>8, <1>9, <1>10,
        <1>11, <1>12, <1>13, <1>14, <1>15, <1>16, <1>17, <1>18, <1>19, <1>20,
        <1>21, <1>22, <1>23, <1>24, <1>25, <1>26, <1>27
       DEF Next, Listen, Run, Rebuild

(***************************************************************************)
(* A patchset without a result is in hand or lost, and once its job has    *)
(* posted it is no longer owed, or lost.                                   *)
(***************************************************************************)
LEMMA OwedStep ==
    TypeOK /\ OwedInv /\ [Next]_vars => OwedInv'
<1> SUFFICES ASSUME TypeOK, OwedInv, [Next]_vars
             PROVE  OwedInv'
    OBVIOUS
<1> USE PatchAssumption, BoundsAssumption DEF TypeOK, OwedInv, OwedIsInHand,
        devstack, nightly, reading
<1>0. CASE UNCHANGED vars
    BY <1>0 DEF vars
<1>1. ASSUME NEW p \in Patch, NEW k \in Kind, Event(p, k)
      PROVE  OwedInv'
    BY <1>1 DEF Event, Kind
<1>2. CASE TakeEvent
    BY <1>2 DEF TakeEvent
<1>3. CASE LockForJob
    BY <1>3 DEF LockForJob
<1>4. CASE CheckMarker
    BY <1>4 DEF CheckMarker, Phase
<1>5. CASE Prepare
    BY <1>5 DEF Prepare, Phase
<1>6. CASE RunTempest
    BY <1>6 DEF RunTempest, Phase
<1>7. CASE PostResult
    BY <1>7 DEF PostResult, Post, Fault
<1>8. CASE RestoreMaster
    BY <1>8 DEF RestoreMaster, Phase
<1>9. CASE JobEnds
    BY <1>9 DEF JobEnds, Phase, Returns
<1>10. CASE JobTimesOut
    BY <1>10 DEF JobTimesOut, Fault
<1>11. CASE PostTimeout
    BY <1>11 DEF PostTimeout, Post, Returns, Fault
<1>27. CASE JobFails
    BY <1>27 DEF JobFails, Returns, Fault
<1>12. CASE StrayEnds
    BY <1>12 DEF StrayEnds
<1>13. CASE ListenerDies
    BY <1>13 DEF ListenerDies, Fault, GoesDown
<1>14. CASE ListenerRestarts
    BY <1>14 DEF ListenerRestarts
<1>15. CASE HostDies
    BY <1>15 DEF HostDies, Fault, GoesDown
<1>16. CASE StartRedeploy
    BY <1>16 DEF StartRedeploy, Stage
<1>17. CASE LockForRedeploy
    BY <1>17 DEF LockForRedeploy, Stage
<1>18. CASE GiveUpLock
    BY <1>18 DEF GiveUpLock, Stage
<1>19. CASE SelfUpdate
    BY <1>19 DEF SelfUpdate, Stage
<1>20. CASE Preflight
    BY <1>20 DEF Preflight, Stage
<1>21. CASE StopListener
    BY <1>21 DEF StopListener, Stage, GoesDown, Fault
<1>22. CASE TearDown
    BY <1>22 DEF TearDown, Stage
<1>23. CASE Build
    BY <1>23 DEF Build, Stage
<1>24. CASE StartListener
    BY <1>24 DEF StartListener, Stage, Started, Fault
<1>25. CASE MarkOutcome
    BY <1>25 DEF MarkOutcome, Stage, Fault
<1>26. CASE Leave
    BY <1>26 DEF Leave, Stage, Started, Fault
<1> QED
    BY <1>0, <1>1, <1>2, <1>3, <1>4, <1>5, <1>6, <1>7, <1>8, <1>9, <1>10,
        <1>11, <1>12, <1>13, <1>14, <1>15, <1>16, <1>17, <1>18, <1>19, <1>20,
        <1>21, <1>22, <1>23, <1>24, <1>25, <1>26, <1>27
       DEF Next, Listen, Run, Rebuild

-----------------------------------------------------------------------------
(***************************************************************************)
(* The listener comes up on a finished DevStack with nothing sent, held or *)
(* owed.                                                                   *)
(***************************************************************************)
LEMMA InitInv == Init => IInv
<1> SUFFICES ASSUME Init PROVE IInv
    OBVIOUS
<1> USE PatchAssumption, BoundsAssumption DEF Init
<1>1. FlagsOK
    BY DEF FlagsOK
<1>2. PlacesOK
    <2>1. stream \in Seq(Patch \X Kind) /\ Len(stream) <= MaxEvents
        BY DEF Kind
    <2> QED
        BY <2>1 DEF PlacesOK
<1>3. TypeOK
    BY <1>1, <1>2 DEF FlagsOK, PlacesOK, TypeOK
<1>4. StreamInv
    BY DEF StreamInv
<1>5. LockInv /\ MarkInv
    BY DEF LockInv, MarkInv, Holding
<1>6. JobInv /\ OwedInv
    BY DEF JobInv, OwedInv, OwedIsInHand
<1> QED
    BY <1>3, <1>4, <1>5, <1>6 DEF IInv

(***************************************************************************)
(* Every step keeps each part of the invariant.                            *)
(***************************************************************************)
LEMMA StepInv == IInv /\ [Next]_vars => IInv'
BY TypeStep, StreamStep, LockStep, MarkStep, JobStep, OwedStep DEF IInv

(***************************************************************************)
(* So the invariant holds in every state.                                  *)
(***************************************************************************)
LEMMA Invariance == Spec => []IInv
BY InitInv, StepInv, PTL DEF Spec

(***************************************************************************)
(* Every variable keeps its type; in particular the listener holds the     *)
(* lock exactly while it runs a job or winds up one that timed out.        *)
(***************************************************************************)
THEOREM TypeCorrect == Spec => []TypeOK
BY Invariance, PTL DEF IInv

(***************************************************************************)
(* A job tests its own patchset, and on no half built DevStack, unless the *)
(* redeploy that left it so could not mark it, by a failure of the write   *)
(* or the end of the host.                                                 *)
(***************************************************************************)
THEOREM TestsOwnPatchset == Spec => []TestsAreSound
<1>1. IInv => TestsAreSound
    BY DEF IInv, JobInv, TestsAreSound
<1> QED
    BY <1>1, Invariance, PTL

(***************************************************************************)
(* No job runs while DevStack is torn down or rebuilt, and no test that    *)
(* outlived its job, if the listener could be stopped.                     *)
(***************************************************************************)
THEOREM RebuildIsAlone == Spec => []RebuildsAlone
<1>1. IInv /\ redeploy \in {"teardown", "build"} => job = "none"
    BY DEF IInv, TypeOK, LockInv, Holding
<1>2. IInv => RebuildsAlone
    BY <1>1 DEF IInv, LockInv, RebuildsAlone
<1> QED
    BY <1>2, Invariance, PTL

(***************************************************************************)
(* Whoever can take the lock sees the marker of a half built DevStack,     *)
(* unless it could not be written or the host went down before.            *)
(***************************************************************************)
THEOREM BrokenDevStackIsMarked == Spec => []BrokenIsMarked
<1>1. IInv => BrokenIsMarked
    BY DEF IInv, LockInv, MarkInv, BrokenIsMarked, Holding
<1> QED
    BY <1>1, Invariance, PTL

(***************************************************************************)
(* A patchset without a result is in hand or was lost, with a listener, a  *)
(* job that broke off or a post that failed; never by being passed over.   *)
(***************************************************************************)
THEOREM NothingIsForgotten == Spec => []OwedIsInHand
<1>1. IInv => OwedIsInHand
    BY DEF IInv, OwedInv
<1> QED
    BY <1>1, Invariance, PTL

-----------------------------------------------------------------------------
(***************************************************************************)
(* Liveness.  The redeploy passes each stage once and ends with the lock   *)
(* given back; so the listener gets the lock, and the job passes each of   *)
(* its phases once.                                                        *)
(***************************************************************************)

\* How many stages the redeploy that holds the lock has yet to pass, and how
\* many phases a job.
StagesLeft ==
    [r \in {"idle", "lock", "update", "relock", "preflight", "stop",
            "teardown", "build", "start", "mark", "leave"} |->
        CASE r = "update"   -> 8 [] r = "preflight" -> 7 [] r = "stop"  -> 6
          [] r = "teardown" -> 5 [] r = "build"     -> 4 [] r = "start" -> 3
          [] r = "mark"     -> 2 [] r = "leave"     -> 1 [] OTHER       -> 0]

PhasesLeft ==
    [j \in {"none", "start", "prepare", "test", "fail", "post", "restore",
            "over"} |->
        CASE j = "start" -> 4 [] j = "prepare" -> 3 [] j = "test" -> 2
          [] j \in {"fail", "post"} -> 1 [] OTHER -> 0]

\* What enables the processes.
JobCanStart ==
    listener = "wait" /\ lock = "free" => ENABLED <<LockForJob>>_vars
RunCanGoOn ==
    job \in {"start", "prepare", "test", "fail", "post"} =>
        ENABLED <<Run>>_vars
RebuildCanGoOn == redeploy \in Holding => ENABLED <<Rebuild>>_vars
ListenCanGoOn == listener \in {"late", "down"} => ENABLED <<Listen>>_vars

(***************************************************************************)
(* Every step of a redeploy that holds the lock leaves fewer stages.       *)
(***************************************************************************)
LEMMA RebuildAdvances ==
    ASSUME TypeOK, Rebuild, redeploy \in Holding
    PROVE  /\ StagesLeft[redeploy] \in 1..8
           /\ StagesLeft[redeploy'] \in 0..(StagesLeft[redeploy] - 1)
<1> USE DEF TypeOK, Holding, StagesLeft, Stage
<1>1. CASE SelfUpdate \/ Preflight
    BY <1>1 DEF SelfUpdate, Preflight
<1>2. CASE StopListener \/ TearDown
    BY <1>2 DEF StopListener, TearDown
<1>3. CASE Build \/ StartListener
    BY <1>3 DEF Build, StartListener
<1>4. CASE MarkOutcome \/ Leave
    BY <1>4 DEF MarkOutcome, Leave
<1>5. CASE LockForRedeploy \/ GiveUpLock
    BY <1>5 DEF LockForRedeploy, GiveUpLock
<1> QED
    BY <1>1, <1>2, <1>3, <1>4, <1>5 DEF Rebuild

(***************************************************************************)
(* Nobody else touches the redeploy, but for a host that goes down; a new  *)
(* redeploy has yet to get the lock.                                       *)
(***************************************************************************)
LEMMA RebuildStep ==
    ASSUME [Next]_vars
    PROVE  \/ UNCHANGED <<redeploy, failed>>
           \/ Rebuild \/ HostDies \/ StartRedeploy
BY Zenon DEF Next, Listen, Run, Event, TakeEvent, LockForJob, CheckMarker,
   Prepare, RunTempest, PostResult, RestoreMaster, JobEnds, JobTimesOut,
   PostTimeout, JobFails, StrayEnds, ListenerDies, ListenerRestarts, nightly,
   vars

(***************************************************************************)
(* Every step of a job leaves fewer phases, until its result is posted.    *)
(***************************************************************************)
LEMMA RunAdvances ==
    ASSUME TypeOK, Run
    PROVE  /\ PhasesLeft[job'] \in Nat /\ listener' = listener /\ cur' = cur
           /\ PhasesLeft[job] > 0 => PhasesLeft[job'] < PhasesLeft[job]
<1> USE DEF TypeOK, PhasesLeft, Phase
<1>1. CASE CheckMarker
    BY <1>1 DEF CheckMarker
<1>2. CASE Prepare
    BY <1>2 DEF Prepare
<1>3. CASE RunTempest
    BY <1>3 DEF RunTempest
<1>4. CASE PostResult
    BY <1>4 DEF PostResult
<1>5. CASE RestoreMaster
    BY <1>5 DEF RestoreMaster
<1> QED
    BY <1>1, <1>2, <1>3, <1>4, <1>5 DEF Run


\* A redeploy that holds the lock and has k stages left at most.
Held(k) == redeploy \in Holding /\ StagesLeft[redeploy] <= k
GivenBack == redeploy \notin Holding

\* Patchset p has neither a result nor been lost.
Answered(p) == p \notin owed \/ p \in lost
Open(p)     == p \in owed /\ p \notin lost

Waits(p)     == Open(p) /\ listener = "wait"
Runs(p, k)   == Open(p) /\ listener = "job" /\ PhasesLeft[job] <= k
WindsUp(p)   == Open(p) /\ listener = "late"

(***************************************************************************)
(* One stage down: a redeploy that holds the lock keeps it or gives it     *)
(* back, and each of its own steps brings it nearer to that.               *)
(***************************************************************************)
StageDown(j, k) ==
    /\ IInv /\ [Next]_vars /\ Held(k) => Held(k)' \/ GivenBack'
    /\ IInv /\ <<Rebuild>>_vars /\ Held(k) => Held(j)' \/ GivenBack'

LEMMA OneStageDown ==
    ASSUME NEW j \in Nat
    PROVE  StageDown(j, j + 1)
<1>1. ASSUME IInv, Rebuild, Held(j + 1)
      PROVE  Held(j)' \/ GivenBack'
    BY <1>1, RebuildAdvances DEF IInv, Held, GivenBack
<1>2. ASSUME IInv, [Next]_vars, Held(j + 1)
      PROVE  Held(j + 1)' \/ GivenBack'
    <2>1. CASE Rebuild
        BY <1>1, <1>2, <2>1, RebuildAdvances DEF IInv, Held, GivenBack
    <2>2. CASE UNCHANGED <<redeploy, failed>>
        BY <1>2, <2>2 DEF Held
    <2>3. CASE HostDies \/ StartRedeploy
        BY <1>2, <2>3
           DEF HostDies, StartRedeploy, Stage, Held, Holding, GivenBack
    <2> QED
        BY <1>2, <2>1, <2>2, <2>3, RebuildStep
<1> QED
    BY <1>1, <1>2 DEF StageDown

(***************************************************************************)
(* No redeploy keeps the lock for ever.                                    *)
(***************************************************************************)
THEOREM LockComesBack ==
    FairSpec /\ []RebuildCanGoOn => []<>GivenBack
<1>1. IInv => GivenBack \/ Held(8)
    BY DEF IInv, TypeOK, GivenBack, Held, Holding, StagesLeft
<1>2. Held(0) => FALSE
    BY DEF Held, Holding, StagesLeft
<1>3. /\ StageDown(0, 1) /\ StageDown(1, 2) /\ StageDown(2, 3)
      /\ StageDown(3, 4) /\ StageDown(4, 5) /\ StageDown(5, 6)
      /\ StageDown(6, 7) /\ StageDown(7, 8)
    BY OneStageDown
<1>4. RebuildCanGoOn => GivenBack \/ ENABLED <<Rebuild>>_vars
    BY DEF RebuildCanGoOn, GivenBack
<1> QED
    BY <1>1, <1>2, <1>3, <1>4, Invariance, PTL
       DEF FairSpec, Spec, StageDown

-----------------------------------------------------------------------------
(***************************************************************************)
(* Whoever has patchset p in hand keeps it as it is, but for the listener  *)
(* that gets the lock, the job that goes on, and the job that times out.   *)
(***************************************************************************)
LEMMA HandStep ==
    ASSUME NEW p \in Patch, IInv, [Next]_vars, Open(p), Open(p)'
    PROVE  \/ listener' = listener /\ job' = job
           \/ Run \/ LockForJob \/ JobTimesOut
<1>1. cur = p /\ listener \in {"wait", "job", "late"}
    BY PatchAssumption DEF IInv, TypeOK, OwedInv, OwedIsInHand, Open
<1> USE <1>1
<1>2. CASE Listen
    BY <1>2 DEF Listen, TakeEvent, JobEnds, PostTimeout, ListenerRestarts,
       Phase, Post, Open, IInv, OwedInv, TypeOK
<1>3. CASE Rebuild
    BY <1>3 DEF Rebuild, LockForRedeploy, GiveUpLock, SelfUpdate, Preflight,
       StopListener, TearDown, Build, StartListener, Started, MarkOutcome,
       Leave, GoesDown, Open
<1>4. CASE ListenerDies \/ HostDies \/ StartRedeploy
    BY <1>4 DEF ListenerDies, HostDies, StartRedeploy, GoesDown, Open
<1>7. CASE JobFails \/ StrayEnds
    BY <1>7 DEF JobFails, StrayEnds, Open
<1>5. CASE \E q \in Patch, k \in Kind : Event(q, k)
    BY <1>5 DEF Event
<1>6. CASE UNCHANGED vars
    BY <1>6 DEF vars
<1> QED
    BY <1>2, <1>3, <1>4, <1>5, <1>6, <1>7 DEF Next

(***************************************************************************)
(* A patchset that waits for the lock goes on waiting until its job        *)
(* starts; LockForJob starts it.                                           *)
(***************************************************************************)
LEMMA WaitStep ==
    ASSUME NEW p \in Patch, IInv, IInv', [Next]_vars, Waits(p), Open(p)'
    PROVE  /\ Waits(p)' \/ Runs(p, 4)'
           /\ LockForJob => Runs(p, 4)'
<1>1. listener = "wait" /\ job = "none" /\ Open(p)
    BY DEF IInv, TypeOK, Waits
<1>2. CASE LockForJob
    BY <1>1, <1>2 DEF LockForJob, Runs, PhasesLeft
<1>3. CASE Run
    BY <1>1, <1>3 DEF Run, CheckMarker, Prepare, RunTempest, PostResult,
       RestoreMaster, Phase
<1>4. CASE JobTimesOut
    BY <1>1, <1>4 DEF JobTimesOut
<1>5. CASE listener' = listener /\ job' = job
    BY <1>1, <1>5 DEF Waits, LockForJob
<1> QED
    BY <1>1, <1>2, <1>3, <1>4, <1>5, HandStep

(***************************************************************************)
(* One phase down: a job goes on or times out, and each of its own steps   *)
(* leaves it a phase less.                                                 *)
(***************************************************************************)
PhaseDown(p, j, k) ==
    /\ IInv /\ IInv' /\ [Next]_vars /\ Runs(p, k) /\ Open(p)'
       => Runs(p, k)' \/ WindsUp(p)'
    /\ IInv /\ IInv' /\ <<Run>>_vars /\ Runs(p, k) /\ Open(p)' => Runs(p, j)'

LEMMA OnePhaseDown ==
    ASSUME NEW p \in Patch, NEW j \in Nat
    PROVE  PhaseDown(p, j, j + 1)
<1>1. ASSUME IInv, Runs(p, j + 1)
      PROVE  cur = p /\ listener = "job" /\ PhasesLeft[job] \in 1..(j + 1)
    BY <1>1, PatchAssumption
       DEF IInv, TypeOK, OwedInv, OwedIsInHand, Runs, Open, PhasesLeft
<1>2. ASSUME IInv, Run, Runs(p, j + 1), Open(p)'
      PROVE  Runs(p, j)'
    <2>1. PhasesLeft[job'] \in Nat /\ PhasesLeft[job'] < PhasesLeft[job]
        BY <1>1, <1>2, RunAdvances DEF IInv
    <2>2. listener' = "job"
        BY <1>1, <1>2, RunAdvances DEF IInv
    <2> QED
        BY <1>1, <1>2, <2>1, <2>2 DEF Runs
<1>3. ASSUME IInv, IInv', [Next]_vars, Runs(p, j + 1), Open(p)'
      PROVE  Runs(p, j + 1)' \/ WindsUp(p)'
    <2>1. CASE Run
        BY <1>1, <1>2, <1>3, <2>1 DEF Runs, IInv, TypeOK, PhasesLeft
    <2>2. CASE LockForJob
        BY <1>1, <1>3, <2>2 DEF LockForJob
    <2>3. CASE JobTimesOut
        BY <1>3, <2>3 DEF JobTimesOut, WindsUp
    <2>4. CASE listener' = listener /\ job' = job
        BY <1>3, <2>4 DEF Runs
    <2> QED
        BY <1>3, <2>1, <2>2, <2>3, <2>4, HandStep DEF Runs
<1> QED
    BY <1>2, <1>3 DEF PhaseDown

(***************************************************************************)
(* A job that timed out is wound up by the listener's next step.           *)
(***************************************************************************)
LEMMA WindUpStep ==
    ASSUME NEW p \in Patch, IInv, IInv', [Next]_vars, WindsUp(p), Open(p)'
    PROVE  WindsUp(p)' /\ ~Listen
<1>1. cur = p /\ listener = "late" /\ job = "none" /\ Open(p)
    BY PatchAssumption
       DEF IInv, TypeOK, OwedInv, OwedIsInHand, WindsUp, Open
<1>2. ~Listen
    BY <1>1 DEF Listen, TakeEvent, JobEnds, PostTimeout, ListenerRestarts,
       Post, Open, IInv, TypeOK
<1>3. ~Run /\ ~LockForJob /\ ~JobTimesOut
    BY <1>1 DEF Run, CheckMarker, Prepare, RunTempest, PostResult,
       RestoreMaster, Phase, LockForJob, JobTimesOut
<1> QED
    BY <1>1, <1>2, <1>3, HandStep DEF WindsUp

(***************************************************************************)
(* What is taken up gets a result or is lost: the redeploy gives the lock  *)
(* back, the listener gets it at last, and the job ends or times out.      *)
(***************************************************************************)
THEOREM EveryTriggerIsAnswered ==
    FairSpec /\ []JobCanStart /\ []RunCanGoOn /\ []RebuildCanGoOn
             /\ []ListenCanGoOn
    => TriggersAreAnswered
<1> SUFFICES ASSUME NEW p \in Patch
             PROVE  FairSpec /\ []JobCanStart /\ []RunCanGoOn
                    /\ []RebuildCanGoOn /\ []ListenCanGoOn
                    => []<>Answered(p)
    BY DEF TriggersAreAnswered, Answered
<1> DEFINE O == Open(p)
           W == Waits(p)
           L == WindsUp(p)
           R(k) == Runs(p, k)
           D(j, k) ==
               /\ IInv /\ IInv' /\ [Next]_vars /\ R(k) /\ O' => R(k)' \/ L'
               /\ IInv /\ IInv' /\ <<Run>>_vars /\ R(k) /\ O' => R(j)'
<1>1. IInv /\ O => W \/ L \/ R(4)
    BY PatchAssumption DEF IInv, TypeOK, OwedInv, OwedIsInHand, Open, Waits,
       WindsUp, Runs, PhasesLeft
<1>2. IInv /\ R(0) => FALSE
    BY PatchAssumption DEF IInv, TypeOK, OwedInv, OwedIsInHand, Open, Runs,
       PhasesLeft
<1>3. D(0, 1) /\ D(1, 2) /\ D(2, 3) /\ D(3, 4)
    <2>1. ASSUME NEW j \in Nat
          PROVE  D(j, j + 1)
        BY OnePhaseDown DEF PhaseDown
    <2> HIDE DEF D
    <2> QED
        BY <2>1
<1>4. IInv /\ IInv' /\ [Next]_vars /\ W /\ O' => W' \/ R(4)'
    BY WaitStep
<1>5. IInv /\ IInv' /\ <<LockForJob>>_vars /\ W /\ O' => R(4)'
    BY WaitStep DEF Next
<1>6. IInv /\ IInv' /\ [Next]_vars /\ L /\ O' => L' /\ ~<<Listen>>_vars
    BY WindUpStep
<1>7. IInv /\ W /\ GivenBack /\ JobCanStart => ENABLED <<LockForJob>>_vars
    BY DEF IInv, TypeOK, LockInv, Waits, GivenBack, JobCanStart
<1>8. IInv /\ R(4) /\ RunCanGoOn => ENABLED <<Run>>_vars
    BY PatchAssumption DEF IInv, TypeOK, OwedInv, OwedIsInHand, Open, Runs,
       RunCanGoOn
<1>9. L /\ ListenCanGoOn => ENABLED <<Listen>>_vars
    BY DEF WindsUp, ListenCanGoOn
<1>10. FairSpec /\ []JobCanStart /\ []RunCanGoOn /\ []RebuildCanGoOn
       /\ []ListenCanGoOn
       => (O ~> ~O)
    <2> HIDE DEF O, W, L, R
    <2> QED
        BY <1>1, <1>2, <1>3, <1>4, <1>5, <1>6, <1>7, <1>8, <1>9,
            LockComesBack, Invariance, PTL
           DEF FairSpec, Spec
<1>11. ~O => Answered(p)
    BY DEF Open, Answered
<1> HIDE DEF O
<1> QED
    BY <1>10, <1>11, PTL

-----------------------------------------------------------------------------
(***************************************************************************)
(* The listener stays stopped only while a redeploy that has stopped it    *)
(* goes on, which brings it back in the end; only a host that goes down in *)
(* that time takes the unit, and the redeploy, with it.                    *)
(***************************************************************************)
StoppedInv ==
    listener = "stopped" =>
        redeploy \in {"teardown", "build", "start", "mark", "leave"}

IsBack    == listener \notin {"stopped", "down"}
IsStopped == listener = "stopped"
IsDown    == listener = "down"

LEMMA StoppedStep ==
    ASSUME IInv, StoppedInv, [Next]_vars
    PROVE  /\ StoppedInv'
           /\ IsStopped => IsStopped' \/ IsBack' \/ HostDies
           /\ IsDown => /\ IsDown' \/ IsBack' \/ IsStopped'
                        /\ Listen => IsBack'
<1> USE DEF StoppedInv, IsBack, IsStopped, IsDown, IInv, TypeOK
<1>0. Listen /\ IsDown => listener' = "up"
    BY DEF Listen, TakeEvent, JobEnds, PostTimeout, ListenerRestarts
<1>1. CASE Listen
    BY <1>0, <1>1 DEF Listen, TakeEvent, JobEnds, PostTimeout,
       ListenerRestarts, Returns, Phase, nightly
<1>2. CASE Run
    BY <1>0, <1>2 DEF Run, CheckMarker, Prepare, RunTempest, PostResult,
       RestoreMaster, Phase, nightly
<1>3. CASE LockForJob \/ JobTimesOut \/ JobFails \/ StrayEnds
    BY <1>0, <1>3 DEF LockForJob, JobTimesOut, JobFails, Returns, StrayEnds,
       nightly
<1>4. CASE ListenerDies
    BY <1>0, <1>4 DEF ListenerDies, GoesDown, nightly
<1>5. CASE HostDies
    BY <1>0, <1>5 DEF HostDies, GoesDown
<1>6. CASE LockForRedeploy \/ GiveUpLock \/ SelfUpdate \/ Preflight
    BY <1>0, <1>6 DEF LockForRedeploy, GiveUpLock, SelfUpdate, Preflight, Stage
<1>7. CASE StopListener \/ TearDown \/ Build
    BY <1>0, <1>7 DEF StopListener, TearDown, Build, Stage, GoesDown
<1>8. CASE StartListener \/ MarkOutcome \/ Leave \/ StartRedeploy
    BY <1>0, <1>8 DEF StartListener, Started, MarkOutcome, Leave,
       StartRedeploy, Stage
<1>9. CASE \E q \in Patch, k \in Kind : Event(q, k)
    BY <1>0, <1>9 DEF Event, nightly
<1>10. CASE UNCHANGED vars
    BY <1>0, <1>10 DEF vars
<1> QED
    BY <1>0, <1>1, <1>2, <1>3, <1>4, <1>5, <1>6, <1>7, <1>8, <1>9, <1>10
       DEF Next, Rebuild

(***************************************************************************)
(* The listener never stays stopped or down: a redeploy starts it again    *)
(* however it ends, if its unit can be started, as long as the host does   *)
(* not go down for ever.                                                   *)
(***************************************************************************)
THEOREM ListenerComesBack ==
    FairSpec /\ []RebuildCanGoOn /\ []ListenCanGoOn /\ <>[][~HostDies]_vars
    => ListenerReturns
<1>1. Init => StoppedInv
    BY DEF Init, StoppedInv
<1>2. IInv /\ StoppedInv /\ [Next]_vars => StoppedInv'
    BY StoppedStep
<1>3. IInv /\ StoppedInv /\ [Next]_vars /\ [~HostDies]_vars /\ IsStopped
      => IsStopped' \/ IsBack'
    BY StoppedStep DEF vars, IsStopped
<1>4. IInv /\ StoppedInv /\ [Next]_vars /\ IsStopped
      => IsStopped' \/ IsBack' \/ IsDown'
    BY StoppedStep DEF HostDies, GoesDown, IsDown
<1>5. IInv /\ StoppedInv /\ [Next]_vars /\ IsDown
      => IsDown' \/ IsBack' \/ IsStopped'
    BY StoppedStep
<1>6. IInv /\ StoppedInv /\ <<Listen>>_vars /\ IsDown => IsBack'
    BY StoppedStep DEF Next
<1>7. StoppedInv /\ GivenBack => ~IsStopped
    BY DEF StoppedInv, GivenBack, Holding, IsStopped
<1>8. IsDown /\ ListenCanGoOn => ENABLED <<Listen>>_vars
    BY DEF IsDown, ListenCanGoOn
<1>9. IsBack \/ IsStopped \/ IsDown
    BY DEF IsBack, IsStopped, IsDown
<1>10. []<>IsBack => ListenerReturns
    BY DEF ListenerReturns, IsBack
<1> QED
    BY <1>1, <1>2, <1>3, <1>4, <1>5, <1>6, <1>7, <1>8, <1>9, <1>10,
        LockComesBack, Invariance, PTL
       DEF FairSpec, Spec
=============================================================================
