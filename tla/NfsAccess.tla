------------------------------ MODULE NfsAccess ------------------------------
(***************************************************************************)
(* Access to one NFS share: update_access and everything below it.         *)
(*                                                                         *)
(* Each IPv4 rule has a client group of its own, manila-<share8>-<access8>,*)
(* that holds the rule's address, and one export permission for the group  *)
(* on the share's filesystem.  The client gets in once group, address and  *)
(* permission are all there.  As in WekafsAccess the driver keeps no state *)
(* of its own, a lookup is part of the action of the first change it leads *)
(* to, and any call can fail before or after it took effect.               *)
(***************************************************************************)
EXTENDS AccessManager, Naturals

CONSTANT MaxFaults   \* bound: how many calls may fail, and crashes happen

ASSUME MaxFaultsAssumption == MaxFaults \in Nat

PC == {"idle", "next", "group", "addr", "perm", "unperm", "strip", "ungroup",
       "down"}
Phase == {"apply", "revoke", "prune", "groups"}

VARIABLES
    \* the Weka cluster
    groups,    \* rules whose client group exists
    addrs,     \* rules whose client group holds the rule's address
    perms,     \* the permission of each rule's group, "none" if there is none
    \* the update_access call under way
    pc,        \* the REST call that comes next
    phase,     \* which loop over rules is running
    sync,      \* the call is a full sync
    todo,      \* rules the running loop has yet to reach
    dels,      \* delete_rules
    stale,     \* prune: rules whose permission was deleted
    cur,       \* the rule being worked on
    report,    \* rule_state_map: what the call will return, if it returns
    \* what went wrong
    faults,    \* failures and crashes so far
    dirty      \* something failed since the last full sync began

rules   == <<want, state, report>>
cluster == <<groups, addrs, perms>>
loop    == <<phase, sync, todo, dels, stale, cur>>
trouble == <<faults, dirty>>
vars == <<want, state, groups, addrs, perms,
          pc, phase, sync, todo, dels, stale, cur, report, faults, dirty>>

TypeOK ==
    /\ ManagerTypeOK
    /\ groups \in SUBSET Client
    /\ addrs \in SUBSET groups
    /\ perms \in [Client -> Level \cup {"none"}]
    /\ pc \in PC
    /\ phase \in Phase
    /\ sync \in BOOLEAN
    /\ todo \in SUBSET Client
    /\ dels \in SUBSET Client
    /\ stale \in SUBSET Client
    /\ cur \in Client
    /\ report \in [Client -> Answer]
    /\ faults \in 0..MaxFaults
    /\ dirty \in BOOLEAN

Init ==
    /\ NoRules
    /\ groups = {} /\ addrs = {}
    /\ perms = [c \in Client |-> "none"]
    /\ pc = "idle" /\ phase = "apply" /\ sync = FALSE
    /\ todo = {} /\ dels = {} /\ stale = {}
    /\ cur \in Client /\ report = NoAnswer
    /\ faults = 0 /\ dirty = FALSE

-----------------------------------------------------------------------------
\* A call of the cluster: ok, or failed -- and then perhaps carried out.
Fault == faults < MaxFaults /\ faults' = faults + 1 /\ dirty' = TRUE

Answers(ok, done) ==
    \/ ok /\ done /\ UNCHANGED trouble
    \/ ~ok /\ Fault

\* Mutant: the exception of a rule is logged, and its error state forgotten.
RuleUnreported(ok) ==
    /\ pc' = "next"
    /\ report' = IF ok /\ phase = "apply"
                 THEN [report EXCEPT ![cur] = "active"] ELSE report

(***************************************************************************)
(* The work on one rule ends.  What became of a rule that was being        *)
(* applied goes into the map the call will return; when revoking and       *)
(* pruning an exception is only logged.                                    *)
(***************************************************************************)
RuleEnds(ok) ==
    /\ pc' = "next"
    /\ report' = IF phase = "apply"
                 THEN [report EXCEPT ![cur] = IF ok THEN "active" ELSE "error"]
                 ELSE report

-----------------------------------------------------------------------------
\* The share manager, and the process that runs the driver.
UpdateAccess(add, upd, del) ==
    /\ pc = "idle"
    /\ HandsOver(add, upd, del)
    /\ pc' = "next" /\ phase' = "apply" /\ sync' = FALSE
    /\ todo' = add \cup upd /\ dels' = del
    /\ UNCHANGED <<stale, cur, report>>
    /\ UNCHANGED cluster /\ UNCHANGED trouble

FullSync ==
    /\ pc \in {"idle", "down"}
    /\ HandsOverAll
    /\ pc' = "next" /\ phase' = "apply" /\ sync' = TRUE
    /\ todo' = Ruled /\ dels' = {}
    /\ dirty' = FALSE
    /\ UNCHANGED <<stale, cur, report, faults>> /\ UNCHANGED cluster

Crash ==
    /\ pc \notin {"idle", "down"}
    /\ pc' = "down" /\ report' = NoAnswer
    /\ Fault
    /\ UNCHANGED <<want, state>> /\ UNCHANGED cluster /\ UNCHANGED loop

-----------------------------------------------------------------------------
(***************************************************************************)
(* The loops: apply add_rules and update_rules, revoke delete_rules and,   *)
(* in a full sync, prune the permissions no rule backs, then the client    *)
(* groups of the permissions that went.                                    *)
(***************************************************************************)
Reach(a, point) ==
    /\ a \in todo /\ cur' = a /\ todo' = todo \ {a}
    /\ pc' = point
    /\ UNCHANGED <<phase, sync, dels, stale>>
    /\ UNCHANGED rules /\ UNCHANGED cluster /\ UNCHANGED trouble

ApplyRule(a)  == pc = "next" /\ phase = "apply" /\ Reach(a, "group")
RevokeRule(a) == pc = "next" /\ phase = "revoke" /\ Reach(a, "unperm")
PruneRule(a)  == pc = "next" /\ phase = "prune" /\ Reach(a, "unperm")
PruneGroup(a) == pc = "next" /\ phase = "groups" /\ Reach(a, "strip")

ApplyDone ==
    /\ pc = "next" /\ phase = "apply" /\ todo = {}
    /\ phase' = "revoke" /\ todo' = dels
    /\ UNCHANGED <<pc, sync, dels, stale, cur>>
    /\ UNCHANGED rules /\ UNCHANGED cluster /\ UNCHANGED trouble

\* Mutant: the permissions are compared with the rules' states.
UnbackedByState == {c \in Client : perms[c] # "none" /\ state[c] = "denying"}

\* The permissions of the filesystem whose group no rule of the sync names.
Unbacked == {c \in Client : perms[c] # "none" /\ want[c] = "none"}

RevokeDone ==
    /\ pc = "next" /\ phase = "revoke" /\ todo = {} /\ sync
    /\ phase' = "prune" /\ todo' = Unbacked /\ stale' = {}
    /\ UNCHANGED <<pc, sync, dels, cur>>
    /\ UNCHANGED rules /\ UNCHANGED cluster /\ UNCHANGED trouble

PruneDone ==
    /\ pc = "next" /\ phase = "prune" /\ todo = {}
    /\ phase' = "groups" /\ todo' = stale
    /\ UNCHANGED <<pc, sync, dels, stale, cur>>
    /\ UNCHANGED rules /\ UNCHANGED cluster /\ UNCHANGED trouble

Return ==
    /\ pc = "next" /\ todo = {}
    /\ \/ phase = "revoke" /\ ~sync
       \/ phase = "groups"
    /\ pc' = "idle"
    /\ Stores(report) /\ report' = NoAnswer
    /\ UNCHANGED cluster /\ UNCHANGED loop /\ UNCHANGED trouble

\* Listing the permissions to prune fails: the exception leaves update_access,
\* and what the loops had to report is lost.
Abort ==
    /\ pc = "next" /\ phase = "revoke" /\ todo = {} /\ sync
    /\ Fault
    /\ pc' = "idle"
    /\ MarksError /\ report' = NoAnswer
    /\ UNCHANGED cluster /\ UNCHANGED loop

-----------------------------------------------------------------------------
(***************************************************************************)
(* _apply_nfs_rule: get or create the group, add the address to it if it   *)
(* is not there, and give the group its permission.  A permission of the   *)
(* other type is deleted first and then created anew.                      *)
(***************************************************************************)
MakeGroup ==
    /\ pc = "group"
    /\ \E ok, done \in BOOLEAN :
          /\ Answers(ok, done)
          /\ groups' = IF done THEN groups \cup {cur} ELSE groups
          /\ IF ok THEN pc' = "addr" /\ UNCHANGED report ELSE RuleEnds(FALSE)
    /\ UNCHANGED <<want, state, addrs, perms>> /\ UNCHANGED loop

\* Mutant: whatever error adding the address gives is taken for "exists".
AddAddrSwallows ==
    /\ pc = "addr"
    /\ \E ok, done \in BOOLEAN :
          /\ Answers(ok, done)
          /\ addrs' = IF done THEN addrs \cup {cur} ELSE addrs
    /\ pc' = "perm"
    /\ UNCHANGED <<want, state, groups, perms, report>> /\ UNCHANGED loop

AddAddr ==
    /\ pc = "addr"
    /\ \E ok, done \in BOOLEAN :
          /\ Answers(ok, done)
          /\ addrs' = IF done THEN addrs \cup {cur} ELSE addrs
          /\ IF ok THEN pc' = "perm" /\ UNCHANGED report ELSE RuleEnds(FALSE)
    /\ UNCHANGED <<want, state, groups, perms>> /\ UNCHANGED loop

\* Mutant: every permission is created read-write.
PermitAlwaysRW ==
    /\ pc = "perm" /\ perms[cur] \in {"none", want[cur]}
    /\ \E ok, done \in BOOLEAN :
          /\ Answers(ok, done)
          /\ perms' = IF done THEN [perms EXCEPT ![cur] = "rw"] ELSE perms
          /\ RuleEnds(ok)
    /\ UNCHANGED <<want, state, groups, addrs>> /\ UNCHANGED loop

Permit ==
    /\ pc = "perm" /\ perms[cur] \in {"none", want[cur]}
    /\ \E ok, done \in BOOLEAN :
          /\ Answers(ok, done)
          /\ perms' = IF done THEN [perms EXCEPT ![cur] = want[cur]] ELSE perms
          /\ RuleEnds(ok)
    /\ UNCHANGED <<want, state, groups, addrs>> /\ UNCHANGED loop

Unpermit ==
    /\ pc = "perm" /\ perms[cur] = Other(want[cur])
    /\ \E ok, done \in BOOLEAN :
          /\ Answers(ok, done)
          /\ perms' = IF done THEN [perms EXCEPT ![cur] = "none"] ELSE perms
          /\ IF ok THEN UNCHANGED <<report, pc>> ELSE RuleEnds(FALSE)
    /\ UNCHANGED <<want, state, groups, addrs>> /\ UNCHANGED loop

-----------------------------------------------------------------------------
\* Mutant: the group goes even if its permission could not be deleted.
DeletePermAnyway ==
    /\ pc = "unperm" /\ perms[cur] # "none"
    /\ \E ok, done \in BOOLEAN :
          /\ Answers(ok, done)
          /\ perms' = IF done THEN [perms EXCEPT ![cur] = "none"] ELSE perms
          /\ stale' = IF phase = "prune" THEN stale \cup {cur} ELSE stale
    /\ pc' = IF phase = "revoke" THEN "strip" ELSE "next"
    /\ UNCHANGED <<groups, addrs, phase, sync, todo, dels, cur>>
    /\ UNCHANGED rules

(***************************************************************************)
(* _remove_nfs_rule and _prune_nfs_rules: delete the permission, then the  *)
(* client group of a permission that was found and deleted.  A rule        *)
(* without a permission is left alone, its group included.                 *)
(***************************************************************************)
DeletePerm ==
    /\ pc = "unperm" /\ perms[cur] # "none"
    /\ \E ok, done \in BOOLEAN :
          /\ Answers(ok, done)
          /\ perms' = IF done THEN [perms EXCEPT ![cur] = "none"] ELSE perms
          /\ stale' = IF ok /\ phase = "prune" THEN stale \cup {cur} ELSE stale
          /\ pc' = IF ok /\ phase = "revoke" THEN "strip" ELSE "next"
    /\ UNCHANGED <<groups, addrs, phase, sync, todo, dels, cur>>
    /\ UNCHANGED rules

NoPerm ==
    /\ pc = "unperm" /\ perms[cur] = "none"
    /\ RuleEnds(TRUE)
    /\ UNCHANGED <<want, state>> /\ UNCHANGED cluster /\ UNCHANGED loop
    /\ UNCHANGED trouble

(***************************************************************************)
(* delete_client_group, once the group was looked up by its name: take the *)
(* address out of the group, whatever comes of it, then delete the group.  *)
(* The cluster rejects the delete while an address remains.                *)
(***************************************************************************)
Strip ==
    /\ pc = "strip"
    /\ \E ok, done \in BOOLEAN :
          /\ Answers(ok, done)
          /\ addrs' = IF done THEN addrs \ {cur} ELSE addrs
    /\ pc' = "ungroup"
    /\ UNCHANGED <<want, state, groups, perms, report>> /\ UNCHANGED loop

GroupLookupFails ==
    /\ pc = "strip"
    /\ Fault
    /\ RuleEnds(FALSE)
    /\ UNCHANGED <<want, state>> /\ UNCHANGED cluster /\ UNCHANGED loop

DeleteGroup ==
    /\ pc = "ungroup" /\ cur \notin addrs
    /\ \E ok, done \in BOOLEAN :
          /\ Answers(ok, done)
          /\ groups' = IF done THEN groups \ {cur} ELSE groups
          /\ RuleEnds(ok)
    /\ UNCHANGED <<want, state, addrs, perms>> /\ UNCHANGED loop

GroupInUse ==
    /\ pc = "ungroup" /\ cur \in addrs
    /\ RuleEnds(FALSE)
    /\ UNCHANGED <<want, state>> /\ UNCHANGED cluster /\ UNCHANGED loop
    /\ UNCHANGED trouble

-----------------------------------------------------------------------------
Manage == \/ \E add, upd, del \in SUBSET Client : UpdateAccess(add, upd, del)
          \/ FullSync

Call == \/ \E a \in Client : \/ ApplyRule(a) \/ RevokeRule(a)
                             \/ PruneRule(a) \/ PruneGroup(a)
        \/ ApplyDone \/ RevokeDone \/ PruneDone \/ Return \/ Abort
        \/ MakeGroup \/ AddAddr \/ Permit \/ Unpermit
        \/ DeletePerm \/ NoPerm \/ Strip \/ GroupLookupFails
        \/ DeleteGroup \/ GroupInUse

Next == Manage \/ Call \/ Crash

Spec == Init /\ [][Next]_vars

\* A call goes on, and a manager that went down starts again and syncs.
Fairness == /\ WF_vars(Call)
            /\ WF_vars(pc = "down" /\ FullSync)

LiveSpec == Spec /\ Fairness

-----------------------------------------------------------------------------
(***************************************************************************)
(* Properties.                                                             *)
(***************************************************************************)
Exported(c, level) == c \in groups /\ c \in addrs /\ perms[c] = level

(***************************************************************************)
(* A rule the manager shows as active, or that the call under way is about *)
(* to report so, is exported at its level, at every moment: later calls    *)
(* that rework other rules, fail half way or crash do not take it away.    *)
(***************************************************************************)
ActiveIsExported ==
    \A c \in Client : "active" \in {state[c], report[c]}
                        => Exported(c, want[c])

(***************************************************************************)
(* No permission ever names a client group that is gone: the permission    *)
(* goes first, and its group only after that succeeded.                    *)
(***************************************************************************)
PermissionHasGroup == \A c \in Client : perms[c] # "none" => c \in groups

(***************************************************************************)
(* With no failure since the last full sync began, the permissions of an   *)
(* idle share are exactly its rules (update_access: a full sync must leave *)
(* the backend matching access_rules exactly).                             *)
(***************************************************************************)
ExactWhenClean ==
    pc = "idle" /\ ~dirty =>
        \A c \in Client : /\ perms[c] = want[c]
                          /\ want[c] # "none" => Exported(c, want[c])

(***************************************************************************)
(* Each rule handed over is answered, by the call or by the next start's   *)
(* sync, and answered truly: gone, in error, or active and then exported.  *)
(***************************************************************************)
EveryRuleAnswered ==
    \A c \in Client :
        state[c] \in {"queued", "denying"}
            ~> \/ state[c] \in {"none", "error"}
               \/ state[c] = "active" /\ Exported(c, want[c])

(***************************************************************************)
(* The driver keeps the access contract: the permissions no rule backs are *)
(* the debt.                                                               *)
(***************************************************************************)
Asked     == {g \in Client \X Level : want[g[1]] = g[2]}
Listed    == {g \in Client \X Level : perms[g[1]] = g[2]}
Effective == {g \in Client \X Level : Exported(g[1], g[2])}

Contract == INSTANCE AccessContract
                WITH Grant <- Client \X Level, want <- Asked,
                     eff <- Effective, debt <- Listed \ Asked

Implements == Contract!Spec

-----------------------------------------------------------------------------
(***************************************************************************)
(* A full sync "drop[s] permissions and groups no rule backs" (docstring   *)
(* of _prune_nfs_rules): after one that went well every client group left  *)
(* belongs to a rule.  The code looks for groups through permissions only. *)
(***************************************************************************)
GroupsAreBacked ==
    pc = "idle" /\ ~dirty => \A c \in groups : want[c] # "none"
=============================================================================
