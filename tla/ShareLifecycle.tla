--------------------------- MODULE ShareLifecycle ---------------------------
(***************************************************************************)
(* The life of one share: created or adopted, resized, snapshotted,        *)
(* reverted, unmanaged or deleted.  The manager makes one call of a share  *)
(* at a time; a call is a few REST calls, each of which may fail before or *)
(* after it took effect, and the process may die between any two.          *)
(*                                                                         *)
(* A share made by create_share has the filesystem named after its id,     *)
(* "gen"; one adopted by manage_existing (NFS only) keeps the name its     *)
(* filesystem had, "own".  Manila counts in GiB, the cluster in smaller    *)
(* units.  The access rules of the share (WekafsAccess) leave it policies  *)
(* of its own, a health check (ShareHealth) a mount; both happen here      *)
(* between calls, in one step.                                             *)
(***************************************************************************)
EXTENDS Naturals

CONSTANTS
    Snap,         \* snapshots
    Export,       \* permissions an adopted filesystem had, with their groups
    GiB,          \* the cluster's units in a GiB
    MaxSize,      \* bound: the largest size, in GiB
    MaxFaults     \* bound: failures, crashes, filesystems deleted by hand

ASSUME GiBAssumption    == GiB \in Nat \ {0}
ASSUME BoundsAssumption == MaxSize \in Nat \ {0} /\ MaxFaults \in Nat

Name  == {"gen", "own"}
Level == {"rw", "ro"}
Space == 0..MaxSize * GiB

VARIABLES
    \* the manager
    proto,     \* "WEKAFS" or "NFS"
    keepsUid,  \* it hands the metadata of export locations back
    status,    \* the share's
    size,      \* the size it shows
    loc,       \* the export location: a filesystem's name and uid
    snap,      \* the state of each snapshot
    \* the call under way, or the last one
    call, pc,
    outcome,   \* "raised" or "error" (a cluster's) if it raised
    arg,       \* the new size
    cur,       \* the snapshot
    found,     \* the uid it works on
    lvl,       \* the policy that comes next
    \* the Weka cluster and the host
    uid,       \* the filesystem of each name, 0 if there is none
    cap, used, \* its capacity, and how much of it is written
    uids,      \* uids given so far
    kept,      \* the filesystem each snapshot is of, 0 if there is none
    saved,     \* what it holds
    policies, attached,  \* the share's own policies
    exports, groups,     \* permissions and client groups found by manage
    mounted,   \* on the manager's host
    \* what went wrong
    faults,
    odd        \* "vanished": the filesystem was deleted by hand; "raced":
               \* data came between the check and the shrinking; "swallowed":
               \* the driver passed over an error

manager == <<proto, keepsUid, status, size, loc, snap>>
local   == <<arg, cur, found, lvl>>
disk    == <<uid, cap, used, uids>>
snaps   == <<kept, saved>>
access  == <<policies, attached, exports, groups>>
fixed   == <<proto, keepsUid, call>>
vars == <<proto, keepsUid, status, size, loc, snap, call, pc, outcome, arg,
          cur, found, lvl, uid, cap, used, uids, kept, saved, policies,
          attached, exports, groups, mounted, faults, odd>>

Call  == {"create", "delete", "extend", "shrink", "manage", "snapshot",
          "unsnap", "revert"}
Place == {"idle", "make", "group", "find", "detach", "drop", "unmount",
          "remove", "read", "resize", "adopt", "clear", "take",
          "untake", "restore"}

TypeOK ==
    /\ proto \in {"WEKAFS", "NFS"} /\ keepsUid \in BOOLEAN
    /\ status \in {"none", "available", "error", "deleted", "unmanaged"}
    /\ size \in 0..MaxSize
    /\ loc \in [name : Name, uid : Nat]
    /\ snap \in [Snap -> {"none", "available", "error", "deleted"}]
    /\ call \in Call /\ pc \in Place
    /\ outcome \in {"fine", "raised", "error"}
    /\ arg \in 0..MaxSize /\ cur \in Snap /\ found \in Nat /\ lvl \in Level
    /\ uid \in [Name -> Nat]
    /\ cap \in [Name -> Space] /\ used \in [Name -> Space]
    /\ uids \in Nat
    /\ kept \in [Snap -> Nat] /\ saved \in [Snap -> Space]
    /\ policies \in SUBSET Level /\ attached \in SUBSET Level
    /\ exports \in SUBSET Export /\ groups \in SUBSET Export
    /\ mounted \in BOOLEAN
    /\ faults \in 0..MaxFaults
    /\ odd \in SUBSET {"vanished", "raced", "swallowed"}

\* Somebody's filesystem may be there to be adopted.
Init ==
    /\ proto \in {"WEKAFS", "NFS"} /\ keepsUid \in BOOLEAN
    /\ status = "none" /\ size = 0 /\ loc = [name |-> "gen", uid |-> 0]
    /\ snap = [s \in Snap |-> "none"]
    /\ call = "create" /\ pc = "idle" /\ outcome = "fine"
    /\ arg = 0 /\ cur \in Snap /\ found = 0 /\ lvl = "rw"
    /\ \E there \in Space :
          /\ uid = [n \in Name |-> IF n = "own" /\ there # 0 THEN 1 ELSE 0]
          /\ cap = [n \in Name |-> IF n = "own" THEN there ELSE 0]
    /\ used = [n \in Name |-> 0]
    /\ uids = 1
    /\ kept = [s \in Snap |-> 0] /\ saved = [s \in Snap |-> 0]
    /\ policies = {} /\ attached = {}
    /\ exports = Export /\ groups = Export
    /\ mounted = FALSE /\ faults = 0 /\ odd = {}

-----------------------------------------------------------------------------
Fault == faults < MaxFaults /\ faults' = faults + 1

(***************************************************************************)
(* How a REST call ends.  "ok": carried out, and answered so.  "lost":     *)
(* carried out, but the answer did not arrive and the client sent the call *)
(* again; a repeated create is answered 409 and a repeated delete 404.     *)
(* "error": answered with an error or given up after the last attempt,     *)
(* carried out or not.                                                     *)
(***************************************************************************)
Answer == {"ok", "lost", "error"}

Answers(a, done, undone) ==
    \/ a = "ok"    /\ done /\ UNCHANGED faults
    \/ a = "lost"  /\ done /\ Fault
    \/ a = "error" /\ (done \/ undone) /\ Fault

\* An error answer that the driver logs, and goes on.
Swallows(a) == odd' = IF a = "error" THEN odd \cup {"swallowed"} ELSE odd

\* The call is over; the share, or the snapshot it is about, gets a state.
Ends(st, how) ==
    /\ pc' = "idle" /\ outcome' = how
    /\ IF call \in {"snapshot", "unsnap"}
       THEN snap' = [snap EXCEPT ![cur] = st] /\ UNCHANGED status
       ELSE status' = st /\ UNCHANGED snap

\* An exception leaves the driver: the cluster's error, or another one.
RaiseError == Ends("error", "error")
RaiseOther == Ends("error", "raised")

\* The call goes on.
Goes(place) == pc' = place /\ UNCHANGED <<status, snap, outcome>>

(***************************************************************************)
(* _get_fs_uid_for_share: the uid in the metadata, unseen; else the        *)
(* generated name; else the name in the export path; 0 is ShareNotFound.   *)
(***************************************************************************)
Resolve ==
    IF keepsUid /\ loc.uid # 0 THEN loc.uid
    ELSE IF uid["gen"] # 0 THEN uid["gen"]
    ELSE IF loc.uid # 0 THEN uid[loc.name] ELSE 0

\* The names of the filesystem with that uid: one, or none.
On(u) == {n \in Name : uid[n] = u /\ u # 0}

\* A filesystem goes, and its snapshots with it.
Erase(u) ==
    /\ uid'  = [n \in Name |-> IF n \in On(u) THEN 0 ELSE uid[n]]
    /\ cap'  = [n \in Name |-> IF n \in On(u) THEN 0 ELSE cap[n]]
    /\ used' = [n \in Name |-> IF n \in On(u) THEN 0 ELSE used[n]]
    /\ kept' = [s \in Snap |-> IF kept[s] = u THEN 0 ELSE kept[s]]
    /\ UNCHANGED <<uids, saved>>

-----------------------------------------------------------------------------
\* The manager makes a call.
Start(c, place) ==
    /\ pc = "idle"
    /\ call' = c /\ pc' = place /\ outcome' = "fine"
    /\ odd' = odd \ {"raced"}
    /\ UNCHANGED <<proto, keepsUid, status, loc, snap, mounted, faults>>
    /\ UNCHANGED <<disk, snaps, access>>

\* A share that has no export location yet may be created again.
Create(n) ==
    /\ \/ status = "none" /\ size' = n
       \/ status = "error" /\ call = "create" /\ UNCHANGED size
    /\ Start("create", "make") /\ UNCHANGED local

(***************************************************************************)
(* _create_filesystem_idempotent: the filesystem of that name if there is  *)
(* one, a new one otherwise, and after a 409 the one that is there then.   *)
(***************************************************************************)
NewFilesystem ==
    /\ uids' = uids + 1
    /\ uid'  = [uid EXCEPT !["gen"] = uids + 1]
    /\ cap'  = [cap EXCEPT !["gen"] = size * GiB]
    /\ used' = [used EXCEPT !["gen"] = 0]

\* Mutant: the 409 of a repeated create is raised.
MakeFilesystemOnce ==
    /\ pc = "make"
    /\ IF uid["gen"] # 0 THEN Goes("group") /\ UNCHANGED <<disk, faults>>
       ELSE \E a \in Answer :
              /\ Answers(a, NewFilesystem, UNCHANGED disk)
              /\ \/ a = "ok" /\ Goes("group")
                 \/ a = "lost" /\ RaiseOther
                 \/ a = "error" /\ RaiseError
    /\ found' = uid'["gen"]
    /\ UNCHANGED <<fixed, odd, size, loc, arg, cur, lvl, snaps, access,
                   mounted>>

MakeFilesystem ==
    /\ pc = "make"
    /\ IF uid["gen"] # 0 THEN Goes("group") /\ UNCHANGED <<disk, faults>>
       ELSE \E a \in Answer :
              /\ Answers(a, NewFilesystem, UNCHANGED disk)
              /\ IF a = "error" THEN RaiseError ELSE Goes("group")
    /\ found' = uid'["gen"]
    /\ UNCHANGED <<fixed, odd, size, loc, arg, cur, lvl, snaps, access,
                   mounted>>

\* The shared policies of a WEKAFS share (OrgProvisioning), then the location.
GroupPolicies ==
    /\ pc = "group"
    /\ \/ /\ Ends("available", "fine") /\ UNCHANGED faults
          /\ loc' = [name |-> "gen", uid |-> found]
       \/ proto = "WEKAFS" /\ Fault /\ RaiseError /\ UNCHANGED loc
    /\ UNCHANGED <<fixed, odd, size, local, disk, snaps, access, mounted>>

-----------------------------------------------------------------------------
\* Manila deletes no share that has snapshots.
NoSnapshots == \A s \in Snap : snap[s] \in {"none", "deleted"}

Delete ==
    /\ status \in {"available", "error"} /\ NoSnapshots
    /\ Start("delete", "find") /\ UNCHANGED <<size, local>>

\* delete_share looks for the generated name and for no other.
FindFilesystem ==
    /\ pc = "find"
    /\ found' = uid["gen"] /\ lvl' = "rw"
    /\ IF uid["gen"] = 0 THEN Ends("deleted", "fine")
       ELSE Goes(IF proto = "WEKAFS" THEN "detach" ELSE "unmount")
    /\ UNCHANGED <<fixed, odd, size, loc, arg, cur, disk, snaps, access,
                   mounted,
                   faults>>

\* _cleanup_wekafs_policies: whatever fails is passed over.
DetachPolicy ==
    /\ pc = "detach" /\ Goes("drop")
    /\ IF lvl \in policies
       THEN \E a \in Answer :
              /\ Answers(a, attached' = attached \ {lvl}, UNCHANGED attached)
              /\ Swallows(a)
       ELSE UNCHANGED <<attached, faults, odd>>
    /\ UNCHANGED <<fixed, size, loc, local, disk, snaps, policies, exports,
                   groups, mounted>>

\* Mutant: only the policy of level rw is cleaned up.
DropFirst ==
    /\ pc = "drop"
    /\ IF lvl \in policies
       THEN \E a \in Answer :
              /\ Answers(a, policies' = policies \ {lvl}, UNCHANGED policies)
              /\ Swallows(a)
       ELSE UNCHANGED <<policies, faults, odd>>
    /\ Goes("unmount") /\ UNCHANGED lvl
    /\ UNCHANGED <<fixed, size, loc, arg, cur, found, disk, snaps, attached,
                   exports, groups, mounted>>

DropPolicy ==
    /\ pc = "drop"
    /\ IF lvl \in policies
       THEN \E a \in Answer :
              /\ Answers(a, policies' = policies \ {lvl}, UNCHANGED policies)
              /\ Swallows(a)
       ELSE UNCHANGED <<policies, faults, odd>>
    /\ Goes(IF lvl = "rw" THEN "detach" ELSE "unmount") /\ lvl' = "ro"
    /\ UNCHANGED <<fixed, size, loc, arg, cur, found, disk, snaps, attached,
                   exports, groups, mounted>>

\* A mount that cannot be undone fails the delete.
Unmount ==
    /\ pc = "unmount"
    /\ \/ mounted' = FALSE /\ Goes("remove") /\ UNCHANGED faults
       \/ mounted /\ Fault /\ RaiseError /\ UNCHANGED mounted
    /\ UNCHANGED <<fixed, odd, size, loc, local, disk, snaps, access>>

\* A filesystem that is gone by now is as good.
RemoveFilesystem ==
    /\ pc = "remove"
    /\ \E a \in Answer :
          /\ Answers(a, Erase(found), UNCHANGED <<disk, snaps>>)
          /\ IF a = "error" THEN RaiseError ELSE Ends("deleted", "fine")
    /\ UNCHANGED <<fixed, odd, size, loc, local, access, mounted>>

-----------------------------------------------------------------------------
Extend(n) ==
    /\ status = "available" /\ n > size
    /\ Start("extend", "resize") /\ arg' = n /\ found' = Resolve
    /\ UNCHANGED <<size, cur, lvl>>

Shrink(n) ==
    /\ status = "available" /\ n > 0 /\ n < size
    /\ Start("shrink", "read") /\ arg' = n /\ found' = Resolve
    /\ UNCHANGED <<size, cur, lvl>>

\* Mutant: what is in use is not compared.
ReadNothing ==
    /\ pc = "read" /\ Goes("resize")
    /\ UNCHANGED <<fixed, odd, size, loc, local, disk, snaps, access, mounted,
                   faults>>

\* shrink_share reads what is in use; more than the new size is refused.
ReadUsed ==
    /\ pc = "read"
    /\ \/ On(found) = {} /\ RaiseError
       \/ /\ \E n \in On(found) : used[n] > arg * GiB
          /\ Ends("available", "fine")
       \/ /\ \E n \in On(found) : used[n] <= arg * GiB
          /\ Goes("resize")
    /\ UNCHANGED <<fixed, odd, size, loc, local, disk, snaps, access, mounted,
                   faults>>

\* Mutant: a resizing that failed is shown as done.
ResizeHopes ==
    /\ pc = "resize"
    /\ \E a \in Answer :
          Answers(a, cap' = [n \in Name |-> IF n \in On(found)
                                           THEN arg * GiB ELSE cap[n]],
                     UNCHANGED cap)
    /\ Ends("available", "fine") /\ size' = arg
    /\ UNCHANGED <<fixed, odd, loc, local, uid, used, uids, snaps, access,
                   mounted>>

Resize ==
    /\ pc = "resize"
    /\ \/ On(found) = {} /\ RaiseError /\ UNCHANGED <<size, cap, faults>>
       \/ /\ On(found) # {}
          /\ \E a \in Answer :
                /\ Answers(a,
                      cap' = [n \in Name |-> IF n \in On(found) THEN arg * GiB
                                             ELSE cap[n]],
                      UNCHANGED cap)
                /\ \/ a = "error" /\ RaiseError /\ UNCHANGED size
                   \/ /\ a # "error" /\ Ends("available", "fine")
                      /\ size' = arg
    /\ UNCHANGED <<fixed, odd, loc, local, uid, used, uids, snaps, access,
                   mounted>>

-----------------------------------------------------------------------------
\* manage_existing; WEKAFS shares are turned away.
Manage ==
    /\ status = "none" /\ proto = "NFS"
    /\ Start("manage", "adopt") /\ UNCHANGED <<size, local>>

\* The size of an adopted filesystem: whole GiB, and one at least.
WholeGiB(c) == IF c < GiB THEN 1 ELSE c \div GiB

Adopt ==
    /\ pc = "adopt"
    /\ found' = uid["own"] /\ arg' = WholeGiB(cap["own"])
    /\ IF uid["own"] = 0 THEN RaiseOther ELSE Goes("clear")
    /\ UNCHANGED <<fixed, odd, size, loc, cur, lvl, disk, snaps, access,
                   mounted, faults>>

\* The share is Manila's, under the name its filesystem has.
Adopted ==
    /\ Ends("available", "fine")
    /\ loc' = [name |-> "own", uid |-> found] /\ size' = arg

\* Mutant: the first permission that is gone already ends the clearing.
ClearUntilGone ==
    /\ pc = "clear"
    /\ \E e \in exports, a \in Answer :
          /\ Answers(a, exports' = exports \ {e}, UNCHANGED exports)
          /\ Swallows(a)
          /\ IF a = "ok" THEN Goes("clear") /\ UNCHANGED <<loc, size>>
                         ELSE Adopted
    /\ UNCHANGED <<fixed, local, disk, snaps, policies, attached, groups,
                   mounted>>

(***************************************************************************)
(* _remove_all_nfs_permissions: the permissions, then their groups.  An    *)
(* error ends it, is logged, and the share is managed all the same.        *)
(***************************************************************************)
ClearExport ==
    /\ pc = "clear"
    /\ \E e \in exports, a \in Answer :
          /\ Answers(a, exports' = exports \ {e}, UNCHANGED exports)
          /\ Swallows(a)
          /\ IF a = "error" THEN Adopted
                            ELSE Goes("clear") /\ UNCHANGED <<loc, size>>
    /\ UNCHANGED <<fixed, local, disk, snaps, policies, attached, groups,
                   mounted>>

ClearGroup ==
    /\ pc = "clear" /\ exports = {}
    /\ \E g \in groups, a \in Answer :
          /\ Answers(a, groups' = groups \ {g}, UNCHANGED groups)
          /\ Swallows(a)
          /\ IF a = "error" THEN Adopted
                            ELSE Goes("clear") /\ UNCHANGED <<loc, size>>
    /\ UNCHANGED <<fixed, local, disk, snaps, policies, attached, exports,
                   mounted>>

Cleared ==
    /\ pc = "clear" /\ exports = {} /\ groups = {}
    /\ Adopted
    /\ UNCHANGED <<fixed, odd, local, disk, snaps, access, mounted, faults>>

\* unmanage does nothing: the filesystem stays, Manila forgets the share.
Unmanage ==
    /\ pc = "idle" /\ status = "available" /\ NoSnapshots
    /\ status' = "unmanaged"
    /\ UNCHANGED <<fixed, odd, size, loc, snap, pc, outcome, local, disk,
                   snaps,
                   access, mounted, faults>>

-----------------------------------------------------------------------------
Snapshot(s) ==
    /\ status = "available" /\ snap[s] = "none"
    /\ Start("snapshot", "take") /\ cur' = s /\ found' = Resolve
    /\ UNCHANGED <<size, arg, lvl>>

\* A repeated create_snapshot is answered 409, and nothing catches that.
TakeSnapshot ==
    /\ pc = "take"
    /\ \/ On(found) = {} /\ RaiseError /\ UNCHANGED <<snaps, faults>>
       \/ \E n \in On(found), a \in Answer :
            /\ Answers(a, /\ kept' = [kept EXCEPT ![cur] = found]
                          /\ saved' = [saved EXCEPT ![cur] = used[n]],
                       UNCHANGED snaps)
            /\ \/ a = "ok" /\ Ends("available", "fine")
               \/ a = "lost" /\ RaiseOther
               \/ a = "error" /\ RaiseError
    /\ UNCHANGED <<fixed, odd, size, loc, local, disk, access, mounted>>

Unsnap(s) ==
    /\ snap[s] \in {"available", "error"}
    /\ status \in {"available", "error"}
    /\ Start("unsnap", "untake") /\ cur' = s /\ found' = Resolve
    /\ UNCHANGED <<size, arg, lvl>>

\* Mutant: an error answer passes for a snapshot that is gone.
ForgetSnapshot ==
    /\ pc = "untake"
    /\ IF found = 0 \/ kept[cur] # found
       THEN Ends("deleted", "fine") /\ UNCHANGED <<kept, faults>>
       ELSE /\ Ends("deleted", "fine")
            /\ \E a \in Answer :
                  Answers(a, kept' = [kept EXCEPT ![cur] = 0], UNCHANGED kept)
    /\ UNCHANGED <<fixed, odd, size, loc, local, disk, saved, access, mounted>>

\* delete_snapshot: without the share or the snapshot there is nothing to do.
DropSnapshot ==
    /\ pc = "untake"
    /\ \/ /\ found = 0 \/ kept[cur] # found
          /\ Ends("deleted", "fine") /\ UNCHANGED <<kept, faults>>
       \/ /\ found # 0 /\ kept[cur] = found
          /\ \E a \in Answer :
                /\ Answers(a, kept' = [kept EXCEPT ![cur] = 0],
                           UNCHANGED kept)
                /\ IF a = "error" THEN RaiseError ELSE Ends("deleted", "fine")
    /\ UNCHANGED <<fixed, odd, size, loc, local, disk, saved, access, mounted>>

Revert(s) ==
    /\ status = "available" /\ snap[s] = "available"
    /\ Start("revert", "restore") /\ cur' = s /\ found' = Resolve
    /\ UNCHANGED <<size, arg, lvl>>

\* revert_to_snapshot; a filesystem that shrank since grows by nothing.
Restore ==
    /\ pc = "restore"
    /\ \/ /\ On(found) = {} \/ kept[cur] # found
          /\ RaiseOther /\ UNCHANGED <<used, faults>>
       \/ /\ kept[cur] = found
          /\ \E n \in On(found), a \in Answer :
                /\ Answers(a, used' = [used EXCEPT ![n] = saved[cur]],
                           UNCHANGED used)
                /\ IF a = "error" THEN RaiseError
                                  ELSE Ends("available", "fine")
    /\ UNCHANGED <<fixed, odd, size, loc, local, uid, cap, uids, snaps, access,
                   mounted>>

-----------------------------------------------------------------------------
\* update_access leaves policies behind, or takes them away (WekafsAccess).
Govern ==
    /\ pc = "idle" /\ status = "available" /\ proto = "WEKAFS"
    /\ policies' \in SUBSET Level /\ attached' = policies'
    /\ UNCHANGED <<fixed, odd, status, size, loc, snap, pc, outcome, local,
                   disk,
                   snaps, exports, groups, mounted, faults>>

\* A health check mounts the share (ShareHealth).
Remount ==
    /\ pc = "idle" /\ status = "available" /\ proto = "WEKAFS"
    /\ uid["gen"] # 0 /\ mounted' = TRUE
    /\ UNCHANGED <<fixed, odd, status, size, loc, snap, pc, outcome, local,
                   disk,
                   snaps, access, faults>>

\* Clients write, a GiB at a time, also while the driver is at work.
Write ==
    /\ \E n \in On(loc.uid) :
          /\ used[n] + GiB <= cap[n]
          /\ used' = [used EXCEPT ![n] = @ + GiB]
    /\ odd' = IF call = "shrink" /\ pc = "resize"
              THEN odd \cup {"raced"} ELSE odd
    /\ UNCHANGED <<manager, call, pc, outcome, local, uid, cap, uids, snaps,
                   access, mounted, faults>>

\* Somebody deletes the filesystem on the cluster.
Vanish ==
    /\ On(loc.uid) # {} /\ Fault
    /\ Erase(loc.uid) /\ odd' = odd \cup {"vanished"}
    /\ UNCHANGED <<manager, call, pc, outcome, local, access, mounted>>

\* The process dies, and the manager finds the call unfinished when it is
\* back; or a lookup fails, which ends a call where it stands.
Crash ==
    /\ pc # "idle" /\ Fault /\ Ends("error", "fine")
    /\ UNCHANGED <<fixed, odd, size, loc, local, disk, snaps, access, mounted>>

Work ==
    \/ MakeFilesystem \/ GroupPolicies
    \/ FindFilesystem \/ DetachPolicy \/ DropPolicy \/ Unmount
    \/ RemoveFilesystem
    \/ ReadUsed \/ Resize
    \/ Adopt \/ ClearExport \/ ClearGroup \/ Cleared
    \/ TakeSnapshot \/ DropSnapshot \/ Restore

Manila ==
    \/ \E n \in 1..MaxSize : Create(n) \/ Extend(n) \/ Shrink(n)
    \/ Delete \/ Manage \/ Unmanage
    \/ \E s \in Snap : Snapshot(s) \/ Unsnap(s) \/ Revert(s)
    \/ Govern \/ Remount

Next == Work \/ Manila \/ Write \/ Vanish \/ Crash

Spec == Init /\ [][Next]_vars

-----------------------------------------------------------------------------
\* The share was not adopted.
Created == loc.name = "gen"

(***************************************************************************)
(* A share that create_share made and that Manila shows as deleted has     *)
(* left no filesystem behind and no mount of one, whatever was lost,       *)
(* repeated or interrupted; and no policies, unless their clean-up failed  *)
(* or the filesystem was gone before (driver.py 625, 1599).                *)
(***************************************************************************)
DeletedIsGone ==
    (status = "deleted" /\ Created) =>
        /\ uid["gen"] = 0
        /\ mounted => "vanished" \in odd
        /\ policies # {} => odd \cap {"vanished", "swallowed"} # {}

(***************************************************************************)
(* An available share has the capacity Manila shows, whichever of the      *)
(* calls that made or resized it was repeated; one adopted and not resized *)
(* since may have a part of a GiB more, or be a single GiB that is not     *)
(* full (driver.py 689, 1376, 1786).                                       *)
(***************************************************************************)
SizeAgrees ==
    (pc = "idle" /\ status = "available" /\ "vanished" \notin odd) =>
        /\ uid[loc.name] = loc.uid
        /\ \/ cap[loc.name] = size * GiB
           \/ loc.name = "own" /\ size = WholeGiB(cap["own"])

(***************************************************************************)
(* Every snapshot on the cluster is one that Manila knows: a failed or     *)
(* interrupted create_snapshot or delete_snapshot loses none (driver.py    *)
(* 1221, 1236).                                                            *)
(***************************************************************************)
SnapshotsAreKnown ==
    \A s \in Snap : kept[s] # 0 => snap[s] \in {"available", "error"}

(***************************************************************************)
(* A lost answer alone fails no call, since the repeated one meets what    *)
(* the first did: only create_snapshot's does not (driver.py 1232, 1800).  *)
(* Else a call refuses only a filesystem that is not, or no longer, there. *)
(***************************************************************************)
LostAnswersAreAbsorbed ==
    outcome = "raised" =>
        \/ call = "snapshot" \/ "vanished" \in odd
        \/ call = "manage" /\ uid["own"] = 0

(***************************************************************************)
(* A shrink never takes space that is in use, unless clients wrote between *)
(* the check and the resizing (driver.py 696).                             *)
(***************************************************************************)
ShrinkKeepsData ==
    [][\A n \in Name :
          (cap'[n] < cap[n] /\ uid'[n] # 0 /\ used'[n] > cap'[n])
            => "raced" \in odd]_vars

(***************************************************************************)
(* An adopted filesystem is exported to nobody once Manila shows it, and   *)
(* no client group of its exports is left, unless an error ended the       *)
(* clearing; lost answers do no harm (driver.py 1377).                     *)
(***************************************************************************)
AdoptedIsClosed ==
    (status = "available" /\ loc.name = "own" /\ "swallowed" \notin odd) =>
        exports = {} /\ groups = {}

\* The share as Manila and its clients see it: one volume, that of its
\* location, with its snapshots.
Origin == IF Created THEN "created" ELSE "adopted"
Doing  == IF pc = "idle" THEN "nothing" ELSE call
Goal   == IF call \in {"extend", "shrink"} THEN arg ELSE 0
Room   == cap[loc.name]
Data   == used[loc.name]
Taken  == {s \in Snap : kept[s] # 0}
Held   == [s \in Snap |-> IF kept[s] # 0 THEN saved[s] ELSE 0]

Contract == INSTANCE ShareContract WITH
    shown <- status, origin <- Origin, known <- snap,
    doing <- Doing, goal <- Goal, of <- cur,
    room <- Room, data <- Data, taken <- Taken, held <- Held,
    late <- "raced" \in odd, gone <- "vanished" \in odd

(***************************************************************************)
(* However many REST calls a call is, and whichever of them fail, are      *)
(* repeated or are cut short, it looks like the one effect that the        *)
(* contract allows: always on the share's own filesystem, whatever its     *)
(* name, and never shown as done otherwise (driver.py 1730).               *)
(***************************************************************************)
Implements == Contract!Spec

(***************************************************************************)
(* docs/architecture.md 14: delete_share deletes the share's filesystem.   *)
(***************************************************************************)
DeleteRemovesFilesystem ==
    (status = "deleted" /\ loc.uid # 0) => On(loc.uid) = {}
=============================================================================
