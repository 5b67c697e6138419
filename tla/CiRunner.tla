------------------------------ MODULE CiRunner ------------------------------
(***************************************************************************)
(* The third-party CI.  gerrit-listener.py reads Gerrit's event stream and *)
(* runs ci-runner.sh for one patchset after the other; full-redeploy.sh    *)
(* rebuilds DevStack every night.  They share one DevStack, kept apart by  *)
(* runner.lock, and the marker that says that the last redeploy failed.    *)
(* tested.json outlives the listener, the lock and the stream do not.      *)
(***************************************************************************)
EXTENDS Naturals, Sequences

CONSTANTS
    Patch,        \* patchsets
    NoPatch,
    MaxEvents,    \* bound: events
    MaxFaults     \* bound: failures and deaths

ASSUME PatchAssumption  == NoPatch \notin Patch
ASSUME BoundsAssumption == MaxEvents \in Nat /\ MaxFaults \in Nat

Kind == {"patchset", "recheck", "trigger"}

VARIABLES
    autoRun,    \* AUTO_RUN
    \* the listener
    listener,
    stream,     \* events that it has yet to read
    cur,        \* the patchset in hand
    tested,     \* tested.json
    \* the job
    job,
    stray,      \* tempest of a job that was killed still runs
    \* the redeploy
    redeploy,
    failed,     \* it exits with an error
    \* what they share
    lock,
    marker,     \* deploy-broken
    deploy,     \* the DevStack: good, half built, or built with warnings only
    tree,       \* the patchset in Manila's tree, NoPatch for clean master
    \* history
    events, faults,
    owed,       \* patchsets taken up, with no result posted yet
    lost,       \* those whose result will never be posted
    unmarked    \* a redeploy failed, or ended with the host, without a marker

vars == <<autoRun, listener, stream, cur, tested, job, stray, redeploy,
          failed, lock, marker, deploy, tree, events, faults, owed, lost,
          unmarked>>

TypeOK ==
    /\ autoRun \in BOOLEAN
    /\ listener \in {"up", "wait", "job", "late", "down", "stopped", "off"}
    /\ stream \in Seq(Patch \X Kind) /\ Len(stream) <= MaxEvents
    /\ cur \in Patch \cup {NoPatch} /\ tested \in SUBSET Patch
    /\ (cur = NoPatch) = (listener \in {"up", "down", "stopped", "off"})
    /\ job \in {"none", "start", "prepare", "test", "fail", "post",
                "restore", "over"}
    /\ (job # "none") = (listener = "job")
    /\ stray \in BOOLEAN
    /\ redeploy \in {"idle", "lock", "update", "relock", "preflight", "stop",
                     "teardown", "build", "start", "mark", "leave"}
    /\ failed \in BOOLEAN
    /\ lock \in {"free", "listener", "redeploy"}
    /\ (lock = "listener") = (listener \in {"job", "late"})
    /\ marker \in BOOLEAN /\ deploy \in {"good", "half", "degraded"}
    /\ tree \in Patch \cup {NoPatch}
    /\ events \in 0..MaxEvents /\ faults \in 0..MaxFaults
    /\ owed \in SUBSET Patch /\ lost \in SUBSET Patch
    /\ unmarked \in BOOLEAN

Init ==
    /\ autoRun \in BOOLEAN
    /\ listener = "up" /\ stream = <<>> /\ cur = NoPatch /\ tested = {}
    /\ job = "none" /\ stray = FALSE
    /\ redeploy = "idle" /\ failed = FALSE
    /\ lock = "free" /\ marker = FALSE /\ deploy = "good" /\ tree = NoPatch
    /\ events = 0 /\ faults = 0 /\ owed = {} /\ lost = {}
    /\ unmarked = FALSE

devstack == <<deploy, tree>>
nightly  == <<redeploy, failed, marker, unmarked>>
reading  == <<stream, tested, events>>

-----------------------------------------------------------------------------
Fault == faults < MaxFaults /\ faults' = faults + 1

\* Gerrit sends an event.  One that comes while the listener is down, or
\* between two of its connections, nobody ever sees.
Event(p, k) ==
    /\ listener \notin {"down", "stopped", "off"} /\ events < MaxEvents
    /\ events' = events + 1 /\ stream' = Append(stream, <<p, k>>)
    /\ UNCHANGED <<autoRun, listener, cur, tested, job, stray, nightly, lock,
                   devstack, faults, owed, lost>>

\* parse_event: what makes the listener run a job, and what is a recheck.
Triggers(k)  == autoRun \/ k = "trigger"
IsRecheck(k) == k # "patchset"

\* main: a recheck forgets that the patchset was tested; a tested one is
\* passed over, any other recorded as tested before its job.
TakeEvent ==
    /\ listener = "up" /\ stream # <<>>
    /\ stream' = Tail(stream)
    /\ LET p == Head(stream)[1]
           k == Head(stream)[2]
       IN IF Triggers(k) /\ (IsRecheck(k) \/ p \notin tested)
          THEN /\ listener' = "wait" /\ cur' = p
               /\ tested' = tested \cup {p}
               /\ owed' = owed \cup {p} /\ lost' = lost \ {p}
          ELSE UNCHANGED <<listener, cur, tested, owed, lost>>
    /\ UNCHANGED <<autoRun, job, stray, nightly, lock, devstack, events,
                   faults>>

\* run_job takes the lock, for however long that takes.
LockForJob ==
    /\ listener = "wait" /\ lock = "free"
    /\ lock' = "listener" /\ listener' = "job" /\ job' = "start"
    /\ UNCHANGED <<autoRun, reading, cur, stray, nightly, devstack, faults,
                   owed, lost>>

-----------------------------------------------------------------------------
\* ci-runner.sh.
Phase(from, to) == job = from /\ job' = to

\* Mutant: the marker is not looked at.
IgnoreMarker ==
    /\ Phase("start", "prepare")
    /\ UNCHANGED <<autoRun, reading, listener, cur, stray, nightly, lock,
                   devstack, faults, owed, lost>>

\* Phase 0: a broken deploy is reported, not tested.
CheckMarker ==
    /\ Phase("start", IF marker THEN "fail" ELSE "prepare")
    /\ UNCHANGED <<autoRun, reading, listener, cur, stray, nightly, lock,
                   devstack, faults, owed, lost>>

\* Phases 1 to 4: the patchset in Manila's tree; a conflict ends the job.
Prepare ==
    /\ \/ Phase("prepare", "test") /\ tree' = cur
       \/ Phase("prepare", "fail") /\ tree' \in {NoPatch, cur}
    /\ UNCHANGED <<autoRun, reading, listener, cur, stray, nightly, lock,
                   deploy, faults, owed, lost>>

\* Phases 5 and 6
RunTempest ==
    /\ Phase("test", "post")
    /\ UNCHANGED <<autoRun, reading, listener, cur, stray, nightly, lock,
                   devstack, faults, owed, lost>>

\* post-results.sh: it may fail, and nobody tries again.
Post ==
    \/ owed' = owed \ {cur} /\ UNCHANGED <<faults, lost>>
    \/ Fault /\ lost' = lost \cup {cur} /\ UNCHANGED owed

\* Phase 7, and fail()
PostResult ==
    /\ job \in {"post", "fail"} /\ job' = "restore" /\ Post
    /\ UNCHANGED <<autoRun, reading, listener, cur, stray, nightly, lock,
                   devstack>>

\* Phase 8, and fail(): the next job does not depend on it.
RestoreMaster ==
    /\ Phase("restore", "over") /\ tree' \in {tree, NoPatch}
    /\ UNCHANGED <<autoRun, reading, listener, cur, stray, nightly, lock,
                   deploy, faults, owed, lost>>

\* run_job is over: the lock is given back.
Returns == listener' = "up" /\ cur' = NoPatch /\ lock' = "free"

JobEnds ==
    /\ listener = "job" /\ Phase("over", "none") /\ Returns
    /\ UNCHANGED <<autoRun, reading, stray, nightly, devstack, faults, owed,
                   lost>>

\* After an hour ci-runner.sh is killed, but not what it started.
JobTimesOut ==
    /\ listener = "job" /\ job # "over" /\ Fault
    /\ listener' = "late" /\ job' = "none"
    /\ stray' = (stray \/ job = "test")
    /\ UNCHANGED <<autoRun, reading, cur, nightly, lock, devstack, owed, lost>>

PostTimeout ==
    /\ listener = "late" /\ Post /\ Returns
    /\ UNCHANGED <<autoRun, reading, job, stray, nightly, devstack>>

\* ci-runner.sh does not start, or dies before it is through: run_job logs
\* that, and nobody posts a result for it.
JobFails ==
    /\ listener = "job" /\ job # "over" /\ Fault
    /\ job' = "none" /\ Returns
    /\ stray' = (stray \/ job = "test")
    /\ lost' = lost \cup (owed \cap {cur})
    /\ UNCHANGED <<autoRun, reading, nightly, devstack, owed>>

StrayEnds ==
    /\ stray /\ stray' = FALSE
    /\ UNCHANGED <<autoRun, listener, reading, cur, job, nightly, lock,
                   devstack, faults, owed, lost>>

-----------------------------------------------------------------------------
(***************************************************************************)
(* The listener's unit goes down, with all the processes in it, the events *)
(* it has not read, the patchset in hand and its lock.                     *)
(***************************************************************************)
GoesDown(how) ==
    /\ listener' = how /\ stream' = <<>> /\ cur' = NoPatch
    /\ job' = "none" /\ stray' = FALSE
    /\ lock' = IF lock = "listener" THEN "free" ELSE lock
    /\ lost' = lost \cup (owed \cap {cur})

\* It dies; in the middle of save_state, it leaves a file that reads as {}.
ListenerDies ==
    /\ listener \notin {"down", "stopped", "off"} /\ Fault
    /\ GoesDown("down")
    /\ tested' \in IF listener = "up" /\ stream # <<>>
                  THEN {tested, {}} ELSE {tested}
    /\ UNCHANGED <<autoRun, nightly, devstack, events, owed>>

\* Restart=always
ListenerRestarts ==
    /\ listener = "down" /\ listener' = "up"
    /\ UNCHANGED <<autoRun, reading, cur, job, stray, nightly, lock, devstack,
                   faults, owed, lost>>

\* The host reboots; the redeploy's exit trap does not run.
HostDies ==
    /\ Fault /\ GoesDown("down")
    /\ lock' = "free" /\ redeploy' = "idle" /\ failed' = FALSE
    /\ unmarked' = (unmarked \/ redeploy \in {"build", "mark"})
    /\ UNCHANGED <<autoRun, tested, marker, devstack, events, owed>>

-----------------------------------------------------------------------------
\* full-redeploy.sh.
Stage(from, to) == redeploy = from /\ redeploy' = to

StartRedeploy ==
    /\ Stage("idle", "lock") /\ failed' = FALSE
    /\ UNCHANGED <<autoRun, listener, reading, cur, job, stray, lock, marker,
                   devstack, faults, owed, lost, unmarked>>

LockForRedeploy ==
    /\ lock = "free" /\ lock' = "redeploy"
    /\ Stage("lock", "update") \/ Stage("relock", "preflight")
    /\ UNCHANGED <<autoRun, listener, reading, cur, job, stray, failed, marker,
                   devstack, faults, owed, lost, unmarked>>

\* flock -w 1800; it exits before there is a trap.
GiveUpLock ==
    /\ lock # "free"
    /\ Stage("lock", "idle") \/ Stage("relock", "idle")
    /\ UNCHANGED <<autoRun, listener, reading, cur, job, stray, failed, lock,
                   marker, devstack, faults, owed, lost, unmarked>>

\* Mutant: the new copy inherits the lock, and waits for it.
SelfUpdateHolds ==
    /\ Stage("update", "preflight") \/ Stage("update", "relock")
    /\ UNCHANGED <<autoRun, listener, reading, cur, job, stray, failed, lock,
                   marker, devstack, faults, owed, lost, unmarked>>

\* A newer copy of the script takes its place, without the lock.
SelfUpdate ==
    /\ \/ Stage("update", "preflight") /\ UNCHANGED lock
       \/ Stage("update", "relock") /\ lock' = "free"
    /\ UNCHANGED <<autoRun, listener, reading, cur, job, stray, failed, marker,
                   devstack, faults, owed, lost, unmarked>>

\* A full disk ends it before anything is torn down.
Preflight ==
    /\ \/ Stage("preflight", "stop") /\ UNCHANGED failed
       \/ Stage("preflight", "mark") /\ failed' = TRUE
    /\ UNCHANGED <<autoRun, listener, reading, cur, job, stray, lock, marker,
                   devstack, faults, owed, lost, unmarked>>

\* Mutant: only the listener itself is stopped.
StopOnlyListener ==
    /\ Stage("stop", "teardown")
    /\ listener' = "stopped" /\ stream' = <<>> /\ cur' = NoPatch
    /\ lost' = lost \cup (owed \cap {cur})
    /\ UNCHANGED <<autoRun, job, stray, lock, tested, failed, marker, devstack,
                   events, faults, owed, unmarked>>

\* A stop that fails is ignored; a unit that is off is stopped all the same.
StopListener ==
    /\ Stage("stop", "teardown")
    /\ \/ GoesDown("stopped") /\ UNCHANGED faults
       \/ /\ listener # "off" /\ Fault
          /\ UNCHANGED <<listener, stream, cur, job, stray, lock, lost>>
    /\ UNCHANGED <<autoRun, tested, failed, marker, devstack, events, owed,
                   unmarked>>

TearDown ==
    /\ Stage("teardown", "build")
    /\ deploy' = "half" /\ tree' = NoPatch
    /\ UNCHANGED <<autoRun, listener, reading, cur, job, stray, failed, lock,
                   marker, faults, owed, lost, unmarked>>

\* stack.sh and what follows it: a failure exits, or only warns, as do those
\* of the share types, of tempest's settings and of the health gate.
Build ==
    /\ \/ /\ Stage("build", "start") /\ UNCHANGED failed
          /\ deploy' \in {"good", "degraded"}
       \/ Stage("build", "mark") /\ failed' = TRUE /\ UNCHANGED deploy
    /\ UNCHANGED <<autoRun, listener, reading, cur, job, stray, lock, marker,
                   tree, faults, owed, lost, unmarked>>

Started == listener' = IF listener = "stopped" THEN "up" ELSE listener

\* A failure of this start exits like any other.
StartListener ==
    /\ Stage("start", "mark")
    /\ \/ Started /\ UNCHANGED <<failed, faults>>
       \/ failed' = TRUE /\ Fault /\ UNCHANGED listener
    /\ UNCHANGED <<autoRun, reading, cur, job, stray, lock, marker, devstack,
                   owed, lost, unmarked>>

\* Mutant: the outcome is not recorded.
MarkNothing ==
    /\ Stage("mark", "leave") /\ unmarked' = FALSE
    /\ UNCHANGED <<autoRun, listener, reading, cur, job, stray, failed, marker,
                   lock, devstack, faults, owed, lost>>

\* cleanup, the exit trap: first the marker, which may be impossible to write
\* or to remove ...
MarkOutcome ==
    /\ Stage("mark", "leave")
    /\ \/ marker' = failed /\ unmarked' = FALSE /\ UNCHANGED faults
       \/ Fault /\ unmarked' = (unmarked \/ failed) /\ UNCHANGED marker
    /\ UNCHANGED <<autoRun, listener, reading, cur, job, stray, failed, lock,
                   devstack, owed, lost>>

\* Mutant: only a redeploy that went well brings the listener back.
LeaveStopped ==
    /\ Stage("leave", "idle") /\ lock' = "free"
    /\ UNCHANGED <<autoRun, listener, reading, cur, job, stray, failed, marker,
                   devstack, faults, owed, lost, unmarked>>

\* ... then the listener, whose start may fail unnoticed, then the lock.
Leave ==
    /\ Stage("leave", "idle") /\ lock' = "free"
    /\ \/ Started /\ UNCHANGED faults
       \/ listener = "stopped" /\ listener' = "off" /\ Fault
    /\ UNCHANGED <<autoRun, reading, cur, job, stray, failed, marker, devstack,
                   owed, lost, unmarked>>

Listen == TakeEvent \/ JobEnds \/ PostTimeout \/ ListenerRestarts

Run == CheckMarker \/ Prepare \/ RunTempest \/ PostResult \/ RestoreMaster

Rebuild ==
    \/ LockForRedeploy \/ GiveUpLock \/ SelfUpdate \/ Preflight
    \/ StopListener \/ TearDown \/ Build \/ StartListener
    \/ MarkOutcome \/ Leave

Next ==
    \/ \E p \in Patch, k \in Kind : Event(p, k)
    \/ Listen \/ LockForJob \/ Run \/ Rebuild
    \/ JobTimesOut \/ JobFails \/ StrayEnds
    \/ ListenerDies \/ HostDies \/ StartRedeploy

Spec == Init /\ [][Next]_vars

\* Every process goes on; who waits for a lock that comes free again and
\* again gets it at last.
FairSpec ==
    /\ Spec
    /\ WF_vars(Listen) /\ SF_vars(LockForJob) /\ WF_vars(Run)
    /\ WF_vars(Rebuild)

-----------------------------------------------------------------------------
(***************************************************************************)
(* A job tests its own patchset, and on no half built DevStack, unless a   *)
(* redeploy failed and could not set the marker, or ended with the host    *)
(* (ci-runner.sh 107).  It may be one that was built with warnings only:   *)
(* those leave no marker (full-redeploy.sh 117, 651).                      *)
(***************************************************************************)
TestsAreSound ==
    job = "test" => tree = cur /\ (deploy # "half" \/ unmarked)

(***************************************************************************)
(* No job runs while DevStack is torn down or rebuilt; nor does a test     *)
(* that outlived its job, if the listener could be stopped                 *)
(* (full-redeploy.sh 167).                                                 *)
(***************************************************************************)
RebuildsAlone ==
    redeploy \in {"teardown", "build"} =>
        job = "none" /\ (stray => listener # "stopped")

(***************************************************************************)
(* Whoever can run a job sees the marker if DevStack is half built,        *)
(* wherever the redeploy failed (full-redeploy.sh 112), unless the marker  *)
(* could not be written or the host went down before.                      *)
(***************************************************************************)
BrokenIsMarked ==
    (deploy = "half" /\ lock # "redeploy") => marker \/ unmarked

(***************************************************************************)
(* A patchset recorded as tested but without a result is the one in hand,  *)
(* or was lost: with a listener that was stopped or died, with a job that  *)
(* broke off, or because its result could not be posted                    *)
(* (gerrit-listener.py 243, 294).                                          *)
(***************************************************************************)
OwedIsInHand == owed \subseteq lost \cup {cur}

(***************************************************************************)
(* A redeploy brings the listener back however it ends, if its unit can be *)
(* started: it never stays stopped or down (full-redeploy.sh 106).         *)
(***************************************************************************)
ListenerReturns == []<>(listener \notin {"stopped", "down"})

(***************************************************************************)
(* What is taken up gets a result or is lost: no job and no redeploy keeps *)
(* the lock (gerrit-listener.py 205).                                      *)
(***************************************************************************)
TriggersAreAnswered ==
    \A p \in Patch : []<>(p \notin owed \/ p \in lost)
=============================================================================
