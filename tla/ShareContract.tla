---------------------------- MODULE ShareContract ----------------------------
(***************************************************************************)
(* What the driver promises Manila about one share: there is one volume,   *)
(* each call has one effect on it or none, and what Manila shows is what   *)
(* the effect left.  Names, uids and export locations, repeated REST calls *)
(* and half done clean-ups have no place here; the life cycle is shown to  *)
(* look like this from outside (ShareLifecycle).                           *)
(***************************************************************************)
EXTENDS Naturals

CONSTANTS
    Snap,    \* snapshots
    GiB      \* the cluster's units in a GiB

VARIABLES
    \* the manager
    shown,   \* the status of the share
    size,    \* its size, in GiB
    origin,  \* "created" or "adopted"
    known,   \* the state of each snapshot
    doing,   \* the call under way, or "nothing"
    goal,    \* the size it is to get
    of,      \* the snapshot it is about
    \* the volume
    room,    \* its capacity, 0 if there is none
    data,    \* how much is written
    taken,   \* the snapshots of it
    held,    \* what each of them holds
    \* history
    late,    \* clients wrote when the call had checked
    gone     \* somebody deleted the volume on the cluster

manila == <<shown, size, origin, known>>
asked  == <<doing, goal, of>>
volume == <<room, data, taken, held>>
vars == <<shown, size, origin, known, doing, goal, of, room, data, taken, held,
          late, gone>>

Init ==
    /\ shown = "none" /\ size = 0 /\ origin = "created"
    /\ known = [s \in Snap |-> "none"]
    /\ doing = "nothing" /\ goal = 0 /\ of \in Snap
    /\ room = 0 /\ data = 0 /\ taken = {} /\ held = [s \in Snap |-> 0]
    /\ late = FALSE /\ gone = FALSE

-----------------------------------------------------------------------------
(***************************************************************************)
(* Manila calls the driver, for one share at a time.                       *)
(***************************************************************************)
Ask(c) ==
    /\ doing = "nothing" /\ doing' = c /\ goal' \in Nat /\ of' \in Snap
    /\ late' = FALSE
    /\ UNCHANGED <<shown, origin, known, gone>> /\ UNCHANGED volume

NoneKnown == \A s \in Snap : known[s] \in {"none", "deleted"}

AskCreate ==
    /\ Ask("create")
    /\ \/ shown = "none" /\ size' \in Nat \ {0}
       \/ shown = "error" /\ UNCHANGED size

AskManage == Ask("manage") /\ shown = "none" /\ UNCHANGED size

AskDelete ==
    /\ Ask("delete") /\ shown \in {"available", "error"} /\ NoneKnown
    /\ UNCHANGED size

AskResize ==
    /\ shown = "available"
    /\ \/ Ask("extend") /\ goal' > size
       \/ Ask("shrink") /\ goal' < size /\ goal' > 0
    /\ UNCHANGED size

AskSnapshot ==
    /\ \/ Ask("snapshot") /\ shown = "available" /\ known[of'] = "none"
       \/ Ask("revert") /\ shown = "available" /\ known[of'] = "available"
       \/ /\ Ask("unsnap") /\ shown \in {"available", "error"}
          /\ known[of'] \in {"available", "error"}
    /\ UNCHANGED size

-----------------------------------------------------------------------------
(***************************************************************************)
(* What each call does to the volume.                                      *)
(***************************************************************************)
Provide == room = 0 /\ room' = size * GiB /\ data' = 0
           /\ UNCHANGED <<taken, held>>

Empty == room' = 0 /\ data' = 0 /\ taken' = {} /\ held' = [s \in Snap |-> 0]

\* A growing volume grows; a shrinking one keeps what it holds, unless it was
\* written after the check.
Fit == /\ room # 0 /\ room' = goal * GiB
       /\ doing = "extend" => room' > room
       /\ doing = "shrink" => data <= room' \/ late
       /\ UNCHANGED <<data, taken, held>>

Copy == /\ room # 0 /\ of \notin taken
        /\ taken' = taken \cup {of} /\ held' = [held EXCEPT ![of] = data]
        /\ UNCHANGED <<room, data>>

Uncopy == /\ taken' = taken \ {of} /\ held' = [held EXCEPT ![of] = 0]
          /\ UNCHANGED <<room, data>>

GoBack == of \in taken /\ data' = held[of] /\ UNCHANGED <<room, taken, held>>

Effect ==
    \/ doing = "create" /\ Provide
    \/ doing = "delete" /\ origin = "created" /\ Empty
    \/ doing \in {"extend", "shrink"} /\ Fit
    \/ doing = "snapshot" /\ Copy
    \/ doing = "unsnap" /\ Uncopy
    \/ doing = "revert" /\ GoBack

-----------------------------------------------------------------------------
(***************************************************************************)
(* How a call ends, and what Manila shows then.                            *)
(***************************************************************************)
Ends(st) ==
    /\ doing # "nothing" /\ doing' = "nothing"
    /\ IF doing \in {"snapshot", "unsnap"}
       THEN known' = [known EXCEPT ![of] = st] /\ UNCHANGED shown
       ELSE shown' = st /\ UNCHANGED known
    /\ UNCHANGED <<goal, of, late, gone>>

\* The volume of a new share is there before the call is over.
Works == /\ doing = "create" /\ Provide
         /\ UNCHANGED <<manila, asked, late, gone>>

\* It fails, before its work or after it.
Fails == /\ Ends("error") /\ (Effect \/ UNCHANGED volume)
         /\ UNCHANGED <<size, origin>>

\* The whole GiB of an adopted volume, and one at least.
WholeGiB(c) == IF c < GiB THEN 1 ELSE c \div GiB

\* It ends well, and the volume is as asked for.
Created == /\ doing = "create" /\ room = size * GiB /\ Ends("available")
           /\ UNCHANGED <<size, origin, volume>>

Deleted == /\ doing = "delete" /\ Ends("deleted")
           /\ \/ origin = "created" /\ Empty
              \/ origin = "adopted" /\ UNCHANGED volume
           /\ UNCHANGED <<size, origin>>

Resized == /\ doing \in {"extend", "shrink"} /\ Fit /\ Ends("available")
           /\ size' = goal /\ UNCHANGED origin

\* The volume holds more than it is to be shrunk to.
Refused == /\ doing = "shrink" /\ data > goal * GiB /\ Ends("available")
           /\ UNCHANGED <<size, origin, volume>>

Adopted == /\ doing = "manage" /\ Ends("available")
           /\ origin' = "adopted" /\ size' = WholeGiB(room')
           /\ room = 0 /\ room' \in Nat \ {0} /\ data' \in Nat
           /\ UNCHANGED <<taken, held>>

Snapped == /\ \/ doing = "snapshot" /\ Copy /\ Ends("available")
              \/ doing = "unsnap" /\ Uncopy /\ Ends("deleted")
              \/ doing = "revert" /\ GoBack /\ Ends("available")
           /\ UNCHANGED <<size, origin>>

-----------------------------------------------------------------------------
\* Manila forgets the share; the volume stays.
Unmanage ==
    /\ doing = "nothing" /\ shown = "available" /\ NoneKnown
    /\ shown' = "unmanaged"
    /\ UNCHANGED <<size, origin, known, late, gone>>
    /\ UNCHANGED asked /\ UNCHANGED volume

\* Clients write.
Write ==
    /\ data' \in Nat /\ data' > data /\ data' <= room
    /\ late' \in {late, TRUE}
    /\ UNCHANGED <<room, taken, held, gone>>
    /\ UNCHANGED manila /\ UNCHANGED asked

\* Somebody deletes the volume on the cluster.
Lose ==
    /\ room # 0 /\ Empty /\ gone' = TRUE
    /\ UNCHANGED late /\ UNCHANGED manila /\ UNCHANGED asked

Next ==
    \/ AskCreate \/ AskManage \/ AskDelete \/ AskResize \/ AskSnapshot
    \/ Works \/ Fails
    \/ Created \/ Deleted \/ Resized \/ Refused \/ Adopted \/ Snapped
    \/ Unmanage \/ Write \/ Lose

Spec == Init /\ [][Next]_vars

-----------------------------------------------------------------------------
(***************************************************************************)
(* What this comes to for who keeps data on the share.  The volume goes    *)
(* with the deletion of a share that the driver created, and not with that *)
(* of an adopted one, nor when it is unmanaged, fails or is created anew.  *)
(***************************************************************************)
Deletion == doing = "delete" /\ origin = "created"

VolumeStays == [][(room # 0 /\ room' = 0) => Deletion \/ gone']_vars

(***************************************************************************)
(* Nothing written is lost, but by a deletion or by going back.            *)
(***************************************************************************)
DataStays == [][data' < data => Deletion \/ doing = "revert" \/ gone']_vars

(***************************************************************************)
(* A snapshot holds what the volume held when it was taken, until it is    *)
(* itself deleted: no call but delete_snapshot ends one.                   *)
(***************************************************************************)
SnapshotsStay ==
    [][\A s \in taken : \/ s \in taken' /\ held'[s] = held[s]
                        \/ doing = "unsnap" /\ s = of
                        \/ gone']_vars

(***************************************************************************)
(* A created share that is shown as deleted has no volume left.            *)
(***************************************************************************)
DeletedIsEmpty ==
    [](shown = "deleted" /\ origin = "created" => room = 0 /\ taken = {})
=============================================================================
