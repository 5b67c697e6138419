---------------------------- MODULE ShareHealth ----------------------------
(***************************************************************************)
(* Health checks beside deletes.  ensure_shares sweeps over the shares     *)
(* that Manila shows available, reports those whose filesystem is gone,    *)
(* and mounts the WEKAFS ones that are not mounted; delete_share unmounts  *)
(* the share and removes its filesystem.  Both look at the mounts before   *)
(* they take the lock of the mount point, and once more under it.          *)
(*                                                                         *)
(* What delete_share does to policies is in ShareLifecycle, how a check    *)
(* gets into an organization in OrgProvisioning.                           *)
(***************************************************************************)
EXTENDS Naturals, FiniteSets

CONSTANTS
    Shares,
    Isolated,    \* the WEKAFS ones; the others are NFS
    Deletable,   \* those that are ever deleted
    Checkers,    \* threads that sweep
    NoOne,
    MaxFaults    \* bound: failed calls, filesystems deleted by hand, deaths

ASSUME SharesAssumption ==
    Isolated \subseteq Shares /\ Deletable \subseteq Shares
ASSUME OwnersAssumption ==
    NoOne \notin Shares \cup Checkers /\ Shares \cap Checkers = {}
ASSUME BoundsAssumption == MaxFaults \in Nat

VARIABLES
    status,     \* of each share, as Manila shows it
    there,      \* shares that have their filesystem
    mounts,     \* wekafs mounts at each mount point, one upon another
    lock,       \* who holds the lock of each mount point
    \* each sweep
    cpc,
    shown,      \* the shares it is about
    todo,       \* those it has yet to see
    cur,        \* the one it looks at
    listed,     \* shares whose generated name is in the administrator's list
    lost,       \* shares it reports STATUS_ERROR
    \* each delete, of which a share has at most one
    dpc,
    \* history
    faults,
    crossed,    \* shares mounted while they were being deleted, or after
    vanished,   \* shares whose filesystem was deleted by hand
    adopted     \* NFS shares that Manila manages, but did not create

sweep == <<cpc, shown, todo, cur, listed, lost>>
host  == <<mounts, lock>>
past  == <<crossed, vanished, adopted>>
vars  == <<status, there, mounts, lock, cpc, shown, todo, cur, listed, lost,
           dpc, faults, crossed, vanished, adopted>>

CheckPlaces  == {"idle", "list", "next", "find", "peek", "token",
                 "lock", "mount", "report", "aborted"}
DeletePlaces == {"idle", "find", "peek", "lock", "umount", "remove"}

TypeOK ==
    /\ status \in [Shares -> {"available", "error", "deleting", "deleted"}]
    /\ there \in SUBSET Shares
    /\ mounts \in [Shares -> Nat]
    /\ lock \in [Shares -> Shares \cup Checkers \cup {NoOne}]
    /\ cpc \in [Checkers -> CheckPlaces]
    /\ shown \in [Checkers -> SUBSET Shares]
    /\ todo \in [Checkers -> SUBSET Shares]
    /\ cur \in [Checkers -> Shares \cup {NoOne}]
    /\ listed \in [Checkers -> SUBSET Shares]
    /\ lost \in [Checkers -> SUBSET Shares]
    /\ dpc \in [Shares -> DeletePlaces]
    /\ faults \in 0..MaxFaults
    /\ crossed \in SUBSET Shares /\ vanished \in SUBSET Shares
    /\ adopted \in SUBSET (Shares \ Isolated)

\* The process has just started on a host that has none of the mounts; some
\* of the shares were adopted before (manage_existing).
Init ==
    /\ status = [s \in Shares |-> "available"]
    /\ there = Shares
    /\ mounts = [s \in Shares |-> 0] /\ lock = [s \in Shares |-> NoOne]
    /\ cpc = [c \in Checkers |-> "idle"]
    /\ shown = [c \in Checkers |-> {}] /\ todo = [c \in Checkers |-> {}]
    /\ cur = [c \in Checkers |-> NoOne]
    /\ listed = [c \in Checkers |-> {}] /\ lost = [c \in Checkers |-> {}]
    /\ dpc = [s \in Shares |-> "idle"]
    /\ faults = 0 /\ crossed = {} /\ vanished = {}
    /\ adopted \in SUBSET (Shares \ Isolated)

-----------------------------------------------------------------------------
Fault == faults < MaxFaults /\ faults' = faults + 1

\* The sweep goes on; or it is done with the share it looked at.
Goes(c, place) == cpc' = [cpc EXCEPT ![c] = place]
Done(c) == Goes(c, "next") /\ cur' = [cur EXCEPT ![c] = NoOne]

\* Any exception but ShareNotFound ends the whole sweep; nothing is reported.
Abort(c) == Goes(c, "aborted") /\ cur' = [cur EXCEPT ![c] = NoOne]

\* ShareNotFound: the share is noted as lost, and the sweep goes on.
NotFound(c) == Done(c) /\ lost' = [lost EXCEPT ![c] = @ \cup {cur[c]}]

(***************************************************************************)
(* The shares with a filesystem of the name that _share_name makes of the  *)
(* share's id.  Checks and deletes look for no other name; the filesystem  *)
(* of an adopted share has kept its own, and they do not find it.          *)
(***************************************************************************)
Named == there \ adopted

Take(s, who) == lock[s] = NoOne /\ lock' = [lock EXCEPT ![s] = who]
Free(s)      == lock' = [lock EXCEPT ![s] = NoOne]

-----------------------------------------------------------------------------
(***************************************************************************)
(* ensure_shares.  The manager shows it the available shares; the driver   *)
(* first lists the filesystems that the administrator sees, by name.       *)
(***************************************************************************)
StartSweep(c) ==
    /\ cpc[c] = "idle" /\ Goes(c, "list")
    /\ shown' = [shown EXCEPT ![c] =
                    {s \in Shares : status[s] = "available"}]
    /\ todo' = [todo EXCEPT ![c] = shown'[c]]
    /\ UNCHANGED <<cur, listed, lost, status, there, host, dpc, faults, past>>

ListFilesystems(c) ==
    /\ cpc[c] = "list"
    /\ \/ /\ Goes(c, "next") /\ UNCHANGED faults
          /\ listed' = [listed EXCEPT ![c] = Named \ Isolated]
       \/ Goes(c, "aborted") /\ Fault /\ UNCHANGED listed
    /\ UNCHANGED <<shown, todo, cur, lost, status, there, host, dpc, past>>

\* Mutant: a share is looked for in the list, of whichever organization.
LookInList(c) ==
    /\ cpc[c] = "next"
    /\ \E s \in todo[c] :
          /\ todo' = [todo EXCEPT ![c] = @ \ {s}]
          /\ IF s \notin listed[c]
             THEN lost' = [lost EXCEPT ![c] = @ \cup {s}] /\ UNCHANGED cpc
             ELSE UNCHANGED <<lost, cpc>>
    /\ UNCHANGED <<cur, shown, listed, status, there, host, dpc, faults, past>>

\* The next share: the name of an NFS one is in the list, or it is lost.
NextShare(c) ==
    /\ cpc[c] = "next"
    /\ \E s \in todo[c] :
          /\ todo' = [todo EXCEPT ![c] = @ \ {s}]
          /\ IF s \in Isolated
             THEN /\ Goes(c, "find") /\ cur' = [cur EXCEPT ![c] = s]
                  /\ UNCHANGED lost
             ELSE /\ lost' = [lost EXCEPT ![c] =
                                IF s \in listed[c] THEN @ ELSE @ \cup {s}]
                  /\ UNCHANGED <<cpc, cur>>
    /\ UNCHANGED <<shown, listed, status, there, host, dpc, faults, past>>

\* Mutant: a share whose filesystem is missing is passed over.
FindQuietly(c) ==
    /\ cpc[c] = "find"
    /\ \/ Goes(c, "peek") /\ cur[c] \in Named /\ UNCHANGED <<cur, faults>>
       \/ Done(c) /\ cur[c] \notin Named /\ UNCHANGED faults
       \/ Abort(c) /\ Fault
    /\ UNCHANGED <<lost, shown, todo, listed, status, there, host, dpc, past>>

\* The lookups of the organization, which is kept as long as it has shares,
\* and of the filesystem in it.
FindShare(c) ==
    /\ cpc[c] = "find"
    /\ \/ /\ cur[c] \in Named /\ Goes(c, "peek")
          /\ UNCHANGED <<cur, lost, faults>>
       \/ cur[c] \notin Named /\ NotFound(c) /\ UNCHANGED faults
       \/ Abort(c) /\ Fault /\ UNCHANGED lost
    /\ UNCHANGED <<shown, todo, listed, status, there, host, dpc, past>>

\* is_mounted, without the lock.
PeekAtMounts(c) ==
    /\ cpc[c] = "peek"
    /\ \/ mounts[cur[c]] # 0 /\ Done(c)
       \/ mounts[cur[c]] = 0 /\ Goes(c, "token") /\ UNCHANGED cur
    /\ UNCHANGED <<shown, todo, listed, lost, status, there, host, dpc,
                   faults, past>>

\* _org_token_file
WriteToken(c) ==
    /\ cpc[c] = "token"
    /\ \/ Goes(c, "lock") /\ UNCHANGED <<cur, faults>>
       \/ Abort(c) /\ Fault
    /\ UNCHANGED <<shown, todo, listed, lost, status, there, host, dpc, past>>

\* Mutant: what was seen before the lock was taken is good enough.
TrustFirstLook(c) ==
    /\ cpc[c] = "lock" /\ Take(cur[c], c) /\ Goes(c, "mount")
    /\ UNCHANGED <<cur, shown, todo, listed, lost, status, there, mounts, dpc,
                   faults, past>>

\* Under the lock it looks at the mounts again.
LockForMount(c) ==
    /\ cpc[c] = "lock" /\ lock[cur[c]] = NoOne
    /\ \/ mounts[cur[c]] # 0 /\ Done(c) /\ UNCHANGED lock
       \/ mounts[cur[c]] = 0 /\ Goes(c, "mount") /\ Take(cur[c], c)
          /\ UNCHANGED cur
    /\ UNCHANGED <<shown, todo, listed, lost, status, there, mounts, dpc,
                   faults, past>>

\* Mutant: a mount that fails does not end the check of the share.
MountHopefully(c) ==
    /\ cpc[c] = "mount" /\ Free(cur[c])
    /\ \/ /\ cur[c] \in there /\ Done(c) /\ UNCHANGED faults
          /\ mounts' = [mounts EXCEPT ![cur[c]] = @ + 1]
          /\ crossed' = IF status[cur[c]] \in {"deleting", "deleted"}
                        THEN crossed \cup {cur[c]} ELSE crossed
       \/ /\ cur[c] \notin there /\ Done(c)
          /\ UNCHANGED <<mounts, faults, crossed>>
       \/ Done(c) /\ Fault /\ UNCHANGED <<mounts, crossed>>
    /\ UNCHANGED <<shown, todo, listed, lost, status, there, dpc, vanished,
                   adopted>>

\* A filesystem that is gone by now cannot be mounted.
MountShare(c) ==
    /\ cpc[c] = "mount" /\ Free(cur[c])
    /\ \/ /\ cur[c] \in there /\ Done(c) /\ UNCHANGED faults
          /\ mounts' = [mounts EXCEPT ![cur[c]] = @ + 1]
          /\ crossed' = IF status[cur[c]] \in {"deleting", "deleted"}
                        THEN crossed \cup {cur[c]} ELSE crossed
       \/ /\ cur[c] \notin there /\ Abort(c)
          /\ UNCHANGED <<mounts, faults, crossed>>
       \/ Abort(c) /\ Fault /\ UNCHANGED <<mounts, crossed>>
    /\ UNCHANGED <<shown, todo, listed, lost, status, there, dpc, vanished,
                   adopted>>

AllSeen(c) ==
    /\ cpc[c] = "next" /\ todo[c] = {} /\ Goes(c, "report")
    /\ UNCHANGED <<shown, todo, cur, listed, lost, status, there, host, dpc,
                   faults, past>>

\* The sweep is over, and what it knew is forgotten.
Over(c) ==
    /\ Goes(c, "idle")
    /\ cur' = [cur EXCEPT ![c] = NoOne]
    /\ shown' = [shown EXCEPT ![c] = {}] /\ todo' = [todo EXCEPT ![c] = {}]
    /\ listed' = [listed EXCEPT ![c] = {}] /\ lost' = [lost EXCEPT ![c] = {}]

\* The manager shows the lost shares in error, unless it deletes them.
Report(c) ==
    /\ cpc[c] = "report" /\ Over(c)
    /\ status' = [s \in Shares |->
                    IF s \in lost[c] /\ status[s] = "available"
                    THEN "error" ELSE status[s]]
    /\ UNCHANGED <<there, host, dpc, faults, past>>

\* An exception reaches the manager, which logs it.
Aborted(c) ==
    /\ cpc[c] = "aborted" /\ Over(c)
    /\ UNCHANGED <<status, there, host, dpc, faults, past>>

-----------------------------------------------------------------------------
\* delete_share of a share s.
At(s, from, to) == dpc[s] = from /\ dpc' = [dpc EXCEPT ![s] = to]
Shown(s, st)    == status' = [status EXCEPT ![s] = st]

Delete(s) ==
    /\ status[s] \in {"available", "error"}
    /\ At(s, "idle", "find") /\ Shown(s, "deleting")
    /\ UNCHANGED <<sweep, there, host, faults, past>>

\* Without a filesystem of its name there is nothing to do, not even to
\* unmount.
FindForDelete(s) ==
    /\ \/ /\ s \in Named
          /\ At(s, "find", IF s \in Isolated THEN "peek" ELSE "remove")
          /\ UNCHANGED <<status, faults>>
       \/ /\ s \notin Named /\ At(s, "find", "idle")
          /\ Shown(s, "deleted") /\ UNCHANGED faults
       \/ At(s, "find", "idle") /\ Shown(s, "error") /\ Fault
    /\ UNCHANGED <<sweep, there, host, past>>

PeekForDelete(s) ==
    /\ At(s, "peek", IF mounts[s] = 0 THEN "remove" ELSE "lock")
    /\ UNCHANGED <<sweep, status, there, host, faults, past>>

LockForUnmount(s) ==
    /\ lock[s] = NoOne
    /\ \/ mounts[s] = 0 /\ At(s, "lock", "remove") /\ UNCHANGED lock
       \/ mounts[s] # 0 /\ At(s, "lock", "umount") /\ Take(s, s)
    /\ UNCHANGED <<sweep, status, there, mounts, faults, past>>

\* Mutant: an exception leaves the lock taken.
UnmountLocked(s) ==
    /\ \/ /\ At(s, "umount", "remove") /\ UNCHANGED <<status, faults>>
          /\ mounts' = [mounts EXCEPT ![s] = @ - 1] /\ Free(s)
       \/ /\ At(s, "umount", "idle") /\ Shown(s, "error") /\ Fault
          /\ UNCHANGED <<mounts, lock>>
    /\ UNCHANGED <<sweep, there, past>>

\* Mutant: a mount that cannot be undone is logged, and the delete goes on.
UnmountOrNot(s) ==
    /\ At(s, "umount", "remove") /\ Free(s)
    /\ \/ mounts' = [mounts EXCEPT ![s] = @ - 1] /\ UNCHANGED faults
       \/ Fault /\ UNCHANGED mounts
    /\ UNCHANGED <<status, sweep, there, past>>

\* A lazy umount; if it fails, so does the delete.
UnmountShare(s) ==
    /\ dpc[s] = "umount" /\ Free(s)
    /\ \/ /\ At(s, "umount", "remove") /\ UNCHANGED <<status, faults>>
          /\ mounts' = [mounts EXCEPT ![s] = @ - 1]
       \/ /\ At(s, "umount", "idle") /\ Shown(s, "error") /\ Fault
          /\ UNCHANGED mounts
    /\ UNCHANGED <<sweep, there, past>>

RemoveFilesystem(s) ==
    /\ \/ /\ At(s, "remove", "idle") /\ Shown(s, "deleted")
          /\ there' = there \ {s} /\ UNCHANGED faults
       \/ /\ At(s, "remove", "idle") /\ Shown(s, "error") /\ Fault
          /\ there' \in {there, there \ {s}}
    /\ UNCHANGED <<sweep, host, past>>

-----------------------------------------------------------------------------
\* Somebody deletes a filesystem on the cluster.
Vanish(s) ==
    /\ s \in there /\ Fault
    /\ there' = there \ {s} /\ vanished' = vanished \cup {s}
    /\ UNCHANGED <<status, host, sweep, dpc, crossed, adopted>>

(***************************************************************************)
(* The process dies, with its locks, or the whole host, with its mounts    *)
(* too.  Interrupted deletes show an error when the manager is back.       *)
(***************************************************************************)
Die ==
    /\ Fault
    /\ lock' = [s \in Shares |-> NoOne]
    /\ mounts' \in {mounts, [s \in Shares |-> 0]}
    /\ cpc' = [c \in Checkers |-> "idle"]
    /\ cur' = [c \in Checkers |-> NoOne]
    /\ dpc' = [s \in Shares |-> "idle"]
    /\ status' = [s \in Shares |-> IF status[s] = "deleting" THEN "error"
                                   ELSE status[s]]
    /\ shown' = [c \in Checkers |-> {}] /\ todo' = [c \in Checkers |-> {}]
    /\ listed' = [c \in Checkers |-> {}] /\ lost' = [c \in Checkers |-> {}]
    /\ UNCHANGED <<there, past>>

Check(c) ==
    \/ StartSweep(c) \/ ListFilesystems(c) \/ NextShare(c)
    \/ FindShare(c) \/ PeekAtMounts(c) \/ WriteToken(c) \/ LockForMount(c)
    \/ MountShare(c) \/ AllSeen(c) \/ Report(c)
    \/ Aborted(c)

DeleteStep(s) ==
    \/ FindForDelete(s) \/ PeekForDelete(s) \/ LockForUnmount(s)
    \/ UnmountShare(s) \/ RemoveFilesystem(s)

Next ==
    \/ \E c \in Checkers : Check(c)
    \/ \E s \in Deletable : Delete(s)
    \/ \E s \in Shares : DeleteStep(s) \/ Vanish(s)
    \/ Die

Spec == Init /\ [][Next]_vars

\* Checks are periodic (driver.py 744), and no thread stops half-way.
FairSpec ==
    /\ Spec
    /\ \A c \in Checkers : WF_vars(Check(c))
    /\ WF_vars(\E s \in Shares : DeleteStep(s))

-----------------------------------------------------------------------------
(***************************************************************************)
(* Two checks of one share, or a check and a delete, never mount it twice  *)
(* over: one umount would then leave a mount behind (posix.py 92).         *)
(***************************************************************************)
NoStackedMount == \A s \in Shares : mounts[s] <= 1

(***************************************************************************)
(* No share the driver created is reported lost while its filesystem is    *)
(* there: a call that fails, or a list that is old by now, is not taken    *)
(* for a missing filesystem (driver.py 719, 731).  Adopted shares are left *)
(* out: every sweep that gets to one reports it lost (driver.py 739, 754). *)
(***************************************************************************)
NoFalseAlarm == \A c \in Checkers : lost[c] \cap there \subseteq adopted

(***************************************************************************)
(* After a sweep that got through, every WEKAFS share it was about is      *)
(* mounted, or reported, or on its way out (driver.py 764).                *)
(***************************************************************************)
SweepMounts ==
    \A c \in Checkers : cpc[c] = "report" =>
        \A s \in shown[c] \cap Isolated :
            mounts[s] # 0 \/ s \in lost[c] \/ status[s] # "available"

(***************************************************************************)
(* A deleted share is still mounted only if a check that was under way     *)
(* mounted it again behind the delete, or the filesystem went first        *)
(* (driver.py 667).                                                        *)
(***************************************************************************)
DeleteUnmounts ==
    \A s \in Shares :
        (status[s] = "deleted" /\ mounts[s] # 0) => s \in crossed \cup vanished

(***************************************************************************)
(* Nobody keeps a lock: a sweep and a delete come to an end, whatever      *)
(* fails in them (posix.py 93, 128).                                       *)
(***************************************************************************)
CallsEnd ==
    /\ \A c \in Checkers : []<>(cpc[c] = "idle")
    /\ \A s \in Shares : []<>(dpc[s] = "idle")

(***************************************************************************)
(* A filesystem that is gone is noticed, even though a sweep may be cut    *)
(* short by another share: a later one gets there (driver.py 731).         *)
(***************************************************************************)
GoneIsNoticed ==
    \A s \in Shares :
        []<>(s \in there \/ status[s] # "available")

(***************************************************************************)
(* driver.py 719: "A share whose filesystem is gone is reported            *)
(* STATUS_ERROR."  Here of NFS shares missing in the list, in a sweep in   *)
(* which no call to the cluster failed.                                    *)
(***************************************************************************)
GoneIsReported ==
    \A c \in Checkers :
        (cpc[c] \in {"report", "aborted"} /\ faults = Cardinality(vanished))
            => (shown[c] \ Isolated) \ listed[c] \subseteq lost[c]
=============================================================================
