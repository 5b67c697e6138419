---------------------------- MODULE SnapshotCopy ----------------------------
(***************************************************************************)
(* create_share_from_snapshot: a new filesystem, a background thread that  *)
(* copies the snapshot into it through two temporary mounts, and the       *)
(* in-memory status that get_share_status reports.                         *)
(*                                                                         *)
(* One clone is modelled: the status map is keyed by share, the temporary  *)
(* resources are named after the share, and clones have nothing else in    *)
(* common.  An NFS clone first lets this host in through a client group of *)
(* its own and two permissions, read-only on the source and read-write on  *)
(* the new filesystem; a WEKAFS clone mounts with an organization token.   *)
(***************************************************************************)
EXTENDS Naturals, FiniteSets

CONSTANT MaxFaults   \* bound: how many calls may fail, and crashes happen

ASSUME MaxFaultsAssumption == MaxFaults \in Nat

Side == {"src", "dst"}

VARIABLES
    proto,     \* share_proto
    share,     \* the status Manila shows
    call,      \* where create_share_from_snapshot stands
    entry,     \* the share's entry of _async_copies, "none" if missing
    worker,    \* where the copy thread stands
    failing,   \* an exception is on its way through the finally blocks
    groupUid,  \* the thread holds the uid of its client group
    ruleUid,   \* and the uid of the address it put into the group
    mine,      \* the mounts the thread knows it has made
    \* the Weka cluster and this host
    group,     \* the temporary client group exists
    hostRule,  \* it lists this host's address
    permits,   \* the sides it has a permission on
    mounted,   \* the sides mounted on this host
    copied,    \* the new filesystem holds the whole snapshot
    faults,    \* failures and crashes so far
    messy      \* a failed call took effect, or a clean-up call failed

local   == <<failing, groupUid, ruleUid, mine>>
access  == <<group, hostRule, permits>>
trouble == <<faults, messy>>
vars == <<proto, share, call, entry, worker, failing, groupUid, ruleUid,
          mine, group, hostRule, permits, mounted, copied, faults, messy>>

PlacesOK ==
    /\ proto \in {"NFS", "WEKAFS"}
    /\ share \in {"none", "calling", "creating_from_snapshot", "available",
                  "error", "deleted"}
    /\ call \in {"idle", "filesystem", "register", "start", "return"}
    /\ entry \in {"none", "creating_from_snapshot", "available", "error"}
    /\ worker \in {"none", "token", "group", "rule", "permit_src",
                   "permit_dst", "mount_src", "mount_dst", "rsync",
                   "umount_dst", "umount_src", "unpermit", "unrule", "strip",
                   "ungroup", "record", "done", "dead"}

ThreadOK ==
    /\ failing \in BOOLEAN
    /\ groupUid \in BOOLEAN /\ ruleUid \in BOOLEAN
    /\ mine \in SUBSET mounted

ClusterOK ==
    /\ group \in BOOLEAN
    /\ hostRule \in BOOLEAN /\ (hostRule => group)
    /\ permits \in SUBSET Side
    /\ mounted \in SUBSET Side
    /\ copied \in BOOLEAN

TroubleOK == faults \in 0..MaxFaults /\ messy \in BOOLEAN

TypeOK == PlacesOK /\ ThreadOK /\ ClusterOK /\ TroubleOK

Init ==
    /\ proto \in {"NFS", "WEKAFS"}
    /\ share = "none" /\ call = "idle" /\ entry = "none" /\ worker = "none"
    /\ failing = FALSE /\ mine = {}
    /\ groupUid = FALSE /\ ruleUid = FALSE
    /\ group = FALSE /\ hostRule = FALSE /\ permits = {} /\ mounted = {}
    /\ copied = FALSE
    /\ faults = 0 /\ messy = FALSE

-----------------------------------------------------------------------------
(***************************************************************************)
(* A REST call or a privileged command: it answers well, or it fails --    *)
(* and then it may have been carried out all the same.                     *)
(***************************************************************************)
Answers(ok, done) ==
    \/ ok /\ done /\ UNCHANGED trouble
    \/ /\ ~ok /\ faults < MaxFaults /\ faults' = faults + 1
       /\ messy' = IF done THEN TRUE ELSE messy

\* The same for a call of the finally blocks, whose failure is swallowed.
CleansUp(ok, done) ==
    \/ ok /\ done /\ UNCHANGED trouble
    \/ ~ok /\ faults < MaxFaults /\ faults' = faults + 1 /\ messy' = TRUE

-----------------------------------------------------------------------------
(***************************************************************************)
(* create_share_from_snapshot, and the manager around it.                  *)
(***************************************************************************)
Begin ==
    /\ share = "none"
    /\ share' = "calling" /\ call' = "filesystem"
    /\ UNCHANGED <<proto, entry, worker, mounted, copied>>
    /\ UNCHANGED local /\ UNCHANGED access /\ UNCHANGED trouble

\* Lookups and the new filesystem; an exception leaves the share in error.
CreateFilesystem ==
    /\ call = "filesystem"
    /\ \E ok \in BOOLEAN :
          /\ Answers(ok, ok)
          /\ call' = IF ok THEN "register" ELSE "idle"
          /\ share' = IF ok THEN share ELSE "error"
    /\ UNCHANGED <<proto, entry, worker, mounted, copied>>
    /\ UNCHANGED local /\ UNCHANGED access

Register ==
    /\ call = "register"
    /\ entry' = "creating_from_snapshot" /\ call' = "start"
    /\ UNCHANGED <<proto, share, worker, mounted, copied>>
    /\ UNCHANGED local /\ UNCHANGED access /\ UNCHANGED trouble

StartThread ==
    /\ call = "start"
    /\ worker' = IF proto = "NFS" THEN "group" ELSE "token"
    /\ call' = "return"
    /\ UNCHANGED <<proto, share, entry, mounted, copied>>
    /\ UNCHANGED local /\ UNCHANGED access /\ UNCHANGED trouble

Return ==
    /\ call = "return"
    /\ share' = "creating_from_snapshot" /\ call' = "idle"
    /\ UNCHANGED <<proto, entry, worker, mounted, copied>>
    /\ UNCHANGED local /\ UNCHANGED access /\ UNCHANGED trouble

\* Mutant: a missing entry is taken for a copy that has ended.
PollMissingDone ==
    /\ share = "creating_from_snapshot"
    /\ share' = IF entry = "none" THEN "available" ELSE entry
    /\ UNCHANGED <<proto, call, entry, worker, mounted, copied>>
    /\ UNCHANGED local /\ UNCHANGED access /\ UNCHANGED trouble

\* The manager polls get_share_status while the share is being created.
Poll ==
    /\ share = "creating_from_snapshot"
    /\ share' = IF entry = "none" THEN "error" ELSE entry
    /\ UNCHANGED <<proto, call, entry, worker, mounted, copied>>
    /\ UNCHANGED local /\ UNCHANGED access /\ UNCHANGED trouble

(***************************************************************************)
(* delete_share unmounts the share's own mount point, if it is mounted,    *)
(* and deletes the filesystem; it knows nothing of temporary mounts.  A    *)
(* failure leaves the share in error, to be deleted again.                 *)
(***************************************************************************)
DeleteShare ==
    /\ share \in {"available", "error"}
    /\ \E ok \in BOOLEAN :
          /\ Answers(ok, ok)
          /\ share' = IF ok THEN "deleted" ELSE "error"
    /\ UNCHANGED <<proto, call, entry, worker, mounted, copied>>
    /\ UNCHANGED local /\ UNCHANGED access

(***************************************************************************)
(* The process dies: its threads and its memory go, mounts and cluster     *)
(* stay.  It is started again at once.  A copy thread that was still at    *)
(* work is "dead"; one that had recorded its result remains "done".        *)
(***************************************************************************)
Crash ==
    /\ share \notin {"none", "deleted"}
    /\ faults < MaxFaults /\ faults' = faults + 1 /\ messy' = TRUE
    /\ entry' = "none" /\ call' = "idle"
    /\ worker' = IF worker \in {"none", "done"} THEN worker ELSE "dead"
    /\ failing' = FALSE /\ mine' = {}
    /\ groupUid' = FALSE /\ ruleUid' = FALSE
    /\ UNCHANGED <<proto, share, mounted, copied>> /\ UNCHANGED access

-----------------------------------------------------------------------------
(***************************************************************************)
(* _copy_snapshot_nfs up to its finally block: each step either leads to   *)
(* the next or raises.  The client group's uid is known only if its        *)
(* creation answered well.                                                 *)
(***************************************************************************)
Raises == failing' = TRUE /\ worker' = "umount_dst"

MakeGroup ==
    /\ worker = "group"
    /\ \E ok, done \in BOOLEAN :
          /\ Answers(ok, done)
          /\ group' = IF done THEN TRUE ELSE group
          /\ groupUid' = IF ok THEN TRUE ELSE groupUid
          /\ IF ok THEN worker' = "rule" /\ UNCHANGED failing ELSE Raises
    /\ UNCHANGED <<proto, share, call, entry, ruleUid, mine, hostRule,
                   permits, mounted, copied>>

AddHost ==
    /\ worker = "rule"
    /\ \E ok, done \in BOOLEAN :
          /\ Answers(ok, done)
          /\ hostRule' = IF done THEN TRUE ELSE hostRule
          /\ ruleUid' = IF ok THEN TRUE ELSE ruleUid
          /\ IF ok THEN worker' = "permit_src" /\ UNCHANGED failing ELSE Raises
    /\ UNCHANGED <<proto, share, call, entry, groupUid, mine, group, permits,
                   mounted, copied>>

PermitSide(side) ==
    /\ worker = IF side = "src" THEN "permit_src" ELSE "permit_dst"
    /\ \E ok, done \in BOOLEAN :
          /\ Answers(ok, done)
          /\ permits' = IF done THEN permits \cup {side} ELSE permits
          /\ IF ok
             THEN /\ worker' = IF side = "src" THEN "permit_dst"
                                               ELSE "mount_src"
                  /\ UNCHANGED failing
             ELSE Raises
    /\ UNCHANGED <<proto, share, call, entry, groupUid, ruleUid, mine, group,
                   hostRule, mounted, copied>>

\* _org_token_file: without a token the WEKAFS copy does not begin.
MakeToken ==
    /\ worker = "token"
    /\ \E ok \in BOOLEAN :
          /\ Answers(ok, ok)
          /\ failing' = IF ok THEN FALSE ELSE TRUE
          /\ worker' = IF ok THEN "mount_src" ELSE "record"
    /\ UNCHANGED <<proto, share, call, entry, groupUid, ruleUid, mine, mounted,
                   copied>>
    /\ UNCHANGED access

\* A mount, with all the tries of _nfs_mount_with_retry.
MountSide(side) ==
    /\ worker = IF side = "src" THEN "mount_src" ELSE "mount_dst"
    /\ \E ok, done \in BOOLEAN :
          /\ Answers(ok, done)
          /\ mounted' = IF done THEN mounted \cup {side} ELSE mounted
          /\ mine' = IF ok THEN mine \cup {side} ELSE mine
          /\ IF ok
             THEN /\ worker' = IF side = "src" THEN "mount_dst" ELSE "rsync"
                  /\ UNCHANGED failing
             ELSE Raises
    /\ UNCHANGED <<proto, share, call, entry, groupUid, ruleUid, copied>>
    /\ UNCHANGED access

\* Mutant: the copy is recorded as available before it is cleaned up.
RsyncRecords ==
    /\ worker = "rsync"
    /\ \E ok \in BOOLEAN :
          /\ Answers(ok, ok)
          /\ copied' = IF ok THEN TRUE ELSE copied
          /\ failing' = IF ok THEN FALSE ELSE TRUE
          /\ entry' = IF ok THEN "available" ELSE entry
    /\ worker' = "umount_dst"
    /\ UNCHANGED <<proto, share, call, groupUid, ruleUid, mine, mounted>>
    /\ UNCHANGED access

Rsync ==
    /\ worker = "rsync"
    /\ \E ok \in BOOLEAN :
          /\ Answers(ok, ok)
          /\ copied' = IF ok THEN TRUE ELSE copied
          /\ failing' = IF ok THEN FALSE ELSE TRUE
    /\ worker' = "umount_dst"
    /\ UNCHANGED <<proto, share, call, entry, groupUid, ruleUid, mine,
                   mounted>>
    /\ UNCHANGED access

-----------------------------------------------------------------------------
(***************************************************************************)
(* The finally block, and the exits of the WekaMount contexts: undo what   *)
(* was done, each failure logged or ignored.                               *)
(***************************************************************************)
AfterUmount(side) ==
    CASE side = "dst" -> "umount_src"
      [] side = "src" /\ proto = "NFS" -> "unpermit"
      [] OTHER -> "record"

UmountSide(side) ==
    /\ worker = IF side = "src" THEN "umount_src" ELSE "umount_dst"
    /\ \/ side \notin mine /\ UNCHANGED <<mounted, mine>> /\ UNCHANGED trouble
       \/ /\ side \in mine
          /\ \E ok, done \in BOOLEAN :
                /\ CleansUp(ok, done)
                /\ mounted' = IF done THEN mounted \ {side} ELSE mounted
          /\ mine' = mine \ {side}
    /\ worker' = AfterUmount(side)
    /\ UNCHANGED <<proto, share, call, entry, failing, groupUid, ruleUid,
                   copied>>
    /\ UNCHANGED access

\* Mutant: the source's permission alone is looked for.
UnpermitSource ==
    /\ worker = "unpermit"
    /\ \E ok, done \in BOOLEAN :
          /\ CleansUp(ok, done)
          /\ permits' = IF done THEN permits \ {"src"} ELSE permits
    /\ worker' = IF groupUid THEN "unrule" ELSE "record"
    /\ UNCHANGED <<proto, share, call, entry, mounted, copied, group,
                   hostRule>>
    /\ UNCHANGED local

\* Every permission of the group, found by the group's name.
Unpermit ==
    /\ worker = "unpermit"
    /\ \E left \in SUBSET permits, ok \in BOOLEAN :
          /\ CleansUp(ok, left = {})
          /\ permits' = left
    /\ worker' = IF groupUid THEN "unrule" ELSE "record"
    /\ UNCHANGED <<proto, share, call, entry, mounted, copied, group,
                   hostRule>>
    /\ UNCHANGED local

\* The address goes first, if its uid is known.
RemoveHost ==
    /\ worker = "unrule"
    /\ \/ ~ruleUid /\ UNCHANGED hostRule /\ UNCHANGED trouble
       \/ /\ ruleUid
          /\ \E ok, done \in BOOLEAN :
                /\ CleansUp(ok, done)
                /\ hostRule' = IF done THEN FALSE ELSE hostRule
    /\ worker' = "strip"
    /\ UNCHANGED <<proto, share, call, entry, mounted, copied, group, permits>>
    /\ UNCHANGED local

\* delete_client_group takes out whatever address the group still lists.
Strip ==
    /\ worker = "strip"
    /\ \/ ~hostRule /\ UNCHANGED hostRule /\ UNCHANGED trouble
       \/ \E ok, done \in BOOLEAN :
             /\ CleansUp(ok, done)
             /\ hostRule' = IF done THEN FALSE ELSE hostRule
    /\ worker' = "ungroup"
    /\ UNCHANGED <<proto, share, call, entry, mounted, copied, group, permits>>
    /\ UNCHANGED local

\* The cluster rejects the delete while the group lists an address.
DeleteGroup ==
    /\ worker = "ungroup"
    /\ \/ hostRule /\ UNCHANGED group /\ UNCHANGED trouble
       \/ /\ ~hostRule
          /\ \E ok, done \in BOOLEAN :
                CleansUp(ok, done) /\ group' = IF done THEN FALSE ELSE group
    /\ worker' = "record"
    /\ UNCHANGED <<proto, share, call, entry, mounted, copied, hostRule,
                   permits>>
    /\ UNCHANGED local

\* Mutant: a copy that failed is logged, and its error not recorded.
RecordSuccessOnly ==
    /\ worker = "record"
    /\ entry' = IF failing THEN entry ELSE "available"
    /\ worker' = "done"
    /\ UNCHANGED <<proto, share, call, mounted, copied>>
    /\ UNCHANGED local /\ UNCHANGED access /\ UNCHANGED trouble

\* _run_snapshot_copy records how the copy ended.
Record ==
    /\ worker = "record"
    /\ entry' = IF failing THEN "error" ELSE "available"
    /\ worker' = "done"
    /\ UNCHANGED <<proto, share, call, mounted, copied>>
    /\ UNCHANGED local /\ UNCHANGED access /\ UNCHANGED trouble

-----------------------------------------------------------------------------
Manager == CreateFilesystem \/ Register \/ StartThread \/ Return

Worker == \/ MakeGroup \/ AddHost \/ MakeToken \/ Rsync
          \/ \E side \in Side :
                PermitSide(side) \/ MountSide(side) \/ UmountSide(side)
          \/ Unpermit \/ RemoveHost \/ Strip \/ DeleteGroup \/ Record

Next == Begin \/ Manager \/ Poll \/ Worker \/ DeleteShare \/ Crash

Spec == Init /\ [][Next]_vars

\* Threads run on, and the manager polls periodically.
Fairness == WF_vars(Manager) /\ WF_vars(Worker) /\ WF_vars(Poll)

LiveSpec == Spec /\ Fairness

-----------------------------------------------------------------------------
(***************************************************************************)
(* Properties.                                                             *)
(***************************************************************************)
(***************************************************************************)
(* A clone is shown as available only with the whole snapshot in it, also  *)
(* if the process died and came back in between.                           *)
(***************************************************************************)
AvailableIsComplete == share = "available" => copied

(***************************************************************************)
(* Once a clone is shown as available or in error -- and may be used or    *)
(* deleted -- no thread copies into it any more.                           *)
(***************************************************************************)
SettledIsQuiet ==
    share \in {"available", "error", "deleted"} =>
        worker \in {"none", "done", "dead"}

(***************************************************************************)
(* A copy that has ended, well or badly, leaves no mount, no permission    *)
(* and no client group behind, unless a call failed after taking effect or *)
(* a clean-up call failed itself.                                          *)
(***************************************************************************)
LeavesNothing ==
    worker = "done" /\ ~messy => ~group /\ permits = {} /\ mounted = {}

\* A clone being created ends up available or in error, across restarts.
Settles ==
    share = "creating_from_snapshot"
        ~> share \in {"available", "error", "deleted"}

-----------------------------------------------------------------------------
(***************************************************************************)
(* "A missing entry means the process restarted mid-copy" (get_share_status*)
(* docstring): a clone polled without an entry is not one whose copy had   *)
(* ended and was recorded before the restart.                              *)
(***************************************************************************)
MissingMeansMidCopy ==
    share = "creating_from_snapshot" /\ entry = "none" => worker # "done"

(***************************************************************************)
(* "Deleting the filesystem under a stuck mount would wedge the share      *)
(* manager; fail the delete instead" (delete_share): a filesystem that is  *)
(* gone is not mounted on this host.                                       *)
(***************************************************************************)
NotDeletedUnderMount == share = "deleted" => "dst" \notin mounted
=============================================================================
