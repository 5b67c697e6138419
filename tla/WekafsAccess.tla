---------------------------- MODULE WekafsAccess ----------------------------
(***************************************************************************)
(* Access to one WEKAFS share: update_access and everything below it.      *)
(*                                                                         *)
(* Each IPv4 rule of the share is an address in one of the share's two     *)
(* security policies, manila-<share8>-rw and manila-<share8>-ro; a policy  *)
(* takes effect while it is attached to the filesystem, and a share with   *)
(* no attached policy is open to its whole organization.  The driver keeps *)
(* no state of its own: it reads a policy and changes it, one REST call at *)
(* a time, and any call can fail before or after it took effect.           *)
(*                                                                         *)
(* A lookup is part of the action of the first change it leads to: the     *)
(* manager runs one update_access of a share at a time and nothing else    *)
(* writes the share's own policies, so nothing can come between them.      *)
(***************************************************************************)
EXTENDS AccessManager, Naturals

CONSTANT MaxFaults   \* bound: how many calls may fail, and crashes happen

ASSUME MaxFaultsAssumption == MaxFaults \in Nat

PC == {"idle", "prepare", "next", "put", "attach", "take", "detach", "drop",
       "down"}
Phase == {"apply", "revoke", "prune"}

VARIABLES
    grouped,   \* the share's type sets weka:security_policy_group
    \* the Weka cluster
    exists,    \* which of the share's two policies exist
    ips,       \* the addresses each policy matches
    attached,  \* the policies attached to the share's filesystem
    \* the update_access call under way
    pc,        \* the REST call that comes next
    phase,     \* which loop over rules is running
    sync,      \* the call is a full sync
    todo,      \* addresses the running loop has yet to reach
    dels,      \* addresses of delete_rules
    cur, lvl,  \* the arguments of _policy_set_ip
    report,    \* rule_state_map: what the call will return, if it returns
    \* what went wrong
    faults,    \* failures and crashes so far
    dirty      \* something failed since the last full sync began

rules   == <<want, state, grouped, report>>
cluster == <<exists, ips, attached>>
loop    == <<phase, sync, todo, dels, cur>>
trouble == <<faults, dirty>>
vars == <<want, state, grouped, exists, ips, attached,
          pc, phase, sync, todo, dels, cur, lvl, report, faults, dirty>>

TypeOK ==
    /\ ManagerTypeOK
    /\ grouped \in BOOLEAN
    /\ exists \in SUBSET Level
    /\ ips \in [Level -> SUBSET Client]
    /\ attached \in SUBSET Level
    /\ pc \in PC
    /\ phase \in Phase
    /\ sync \in BOOLEAN
    /\ todo \in SUBSET Client
    /\ dels \in SUBSET Client
    /\ cur \in Client
    /\ lvl \in Level
    /\ report \in [Client -> Answer]
    /\ faults \in 0..MaxFaults
    /\ dirty \in BOOLEAN

Init ==
    /\ NoRules
    /\ grouped \in BOOLEAN
    /\ exists = {}
    /\ ips = [l \in Level |-> {}]
    /\ attached = {}
    /\ pc = "idle" /\ phase = "apply" /\ sync = FALSE
    /\ todo = {} /\ dels = {}
    /\ cur \in Client /\ lvl = "rw" /\ report = NoAnswer
    /\ faults = 0 /\ dirty = FALSE

-----------------------------------------------------------------------------
(***************************************************************************)
(* Replies of the cluster.  "api" is an error answer, raised as            *)
(* WekaApiError; "net" is a connection lost or timed out beyond the        *)
(* client's retries, raised as the requests library's own exception.  A    *)
(* call that did not answer well may still have been carried out.          *)
(***************************************************************************)
Reply == {"ok", "api", "net"}

Fault == faults < MaxFaults /\ faults' = faults + 1 /\ dirty' = TRUE

Answers(reply, done) ==
    \/ reply = "ok" /\ done /\ UNCHANGED trouble
    \/ reply \in {"api", "net"} /\ Fault

(***************************************************************************)
(* How a call of _policy_set_ip(lvl, cur, present) ends.  Applying a rule  *)
(* makes two calls, set at the rule's level and clear at the other one;    *)
(* revoking makes two, clear at rw and clear at ro; pruning makes one.  An *)
(* exception skips the second call and is caught by the loop.  What became *)
(* of a rule that was being applied goes into the map the call will        *)
(* return; of one that was being revoked or pruned an exception is only    *)
(* logged.                                                                 *)
(***************************************************************************)
Reports(answer) ==
    report' = IF phase = "apply" THEN [report EXCEPT ![cur] = answer]
                                 ELSE report

SetReturns ==
    \/ /\ phase = "revoke" /\ lvl = "rw"
       /\ lvl' = "ro" /\ pc' = "take"
       /\ UNCHANGED report
    \/ /\ phase = "revoke" => lvl = "ro"
       /\ pc' = "next"
       /\ Reports("active")
       /\ UNCHANGED lvl

\* Mutant: the exception of a rule is logged, and its error state forgotten.
RaisesUnreported == pc' = "next" /\ UNCHANGED <<report, lvl>>

SetRaises ==
    /\ pc' = "next"
    /\ Reports("error")
    /\ UNCHANGED lvl
-----------------------------------------------------------------------------
\* Rules are added, changed and denied.
UpdateAccess(add, upd, del) ==
    /\ pc = "idle"
    /\ HandsOver(add, upd, del)
    /\ pc' = "prepare" /\ sync' = FALSE
    /\ todo' = add \cup upd /\ dels' = del
    /\ UNCHANGED <<grouped, phase, cur, lvl, report>>
    /\ UNCHANGED cluster /\ UNCHANGED trouble

(***************************************************************************)
(* A full sync hands over every rule and leaves add, delete and update     *)
(* empty: the manager asks for one when it starts, after ensure_shares.    *)
(***************************************************************************)
FullSync ==
    /\ pc \in {"idle", "down"}
    /\ pc' = "prepare" /\ sync' = TRUE
    /\ HandsOverAll
    /\ todo' = Ruled /\ dels' = {}
    /\ dirty' = FALSE
    /\ UNCHANGED <<grouped, phase, cur, lvl, report, faults>>
    /\ UNCHANGED cluster

\* The share manager's process dies in the middle of a call, which answers
\* nothing.
Crash ==
    /\ pc \notin {"idle", "down"}
    /\ pc' = "down" /\ report' = NoAnswer
    /\ Fault
    /\ UNCHANGED <<want, state, grouped, lvl>>
    /\ UNCHANGED cluster /\ UNCHANGED loop

-----------------------------------------------------------------------------
(***************************************************************************)
(* _update_wekafs_access before its loops: the organization client, the    *)
(* mount user, the share type's group and the filesystem.  The share of a  *)
(* policy group is done there, every rule accepted as it is.  Failing to   *)
(* read the share type is taken for a share without a group; any other     *)
(* failure leaves the call with nothing done.                              *)
(***************************************************************************)
Enter == pc' = "next" /\ phase' = "apply" /\ UNCHANGED <<rules, todo>>

Prepare ==
    /\ pc = "prepare" /\ ~grouped
    /\ Enter
    /\ UNCHANGED <<sync, dels, cur, lvl>>
    /\ UNCHANGED cluster /\ UNCHANGED trouble

GovernedByGroup ==
    /\ pc = "prepare" /\ grouped
    /\ pc' = "idle" /\ todo' = {}
    /\ Stores([a \in Client |-> IF a \in todo THEN "active" ELSE "none"])
    /\ UNCHANGED <<grouped, phase, sync, dels, cur, lvl, report>>
    /\ UNCHANGED cluster /\ UNCHANGED trouble

GroupUnreadable ==
    /\ pc = "prepare" /\ grouped
    /\ Enter
    /\ Fault
    /\ UNCHANGED <<sync, dels, cur, lvl>>
    /\ UNCHANGED cluster

(***************************************************************************)
(* The exception leaves update_access, before the loops or from the policy *)
(* lookup of the prune loop, and the map with it: the manager marks every  *)
(* rule in transition in error, also those the loops had applied.          *)
(***************************************************************************)
Abort ==
    /\ \/ pc = "prepare"
       \/ pc = "next" /\ phase = "revoke" /\ todo = {} /\ sync
       \/ pc = "next" /\ phase = "prune"  /\ todo = {} /\ lvl = "rw"
    /\ Fault
    /\ pc' = "idle" /\ todo' = {}
    /\ MarksError /\ report' = NoAnswer
    /\ UNCHANGED <<grouped, phase, sync, dels, cur, lvl>>
    /\ UNCHANGED cluster
-----------------------------------------------------------------------------
\* Mutant: every address of the policy is stale, the rules' own included.
StaleAll(level) == IF level \in exists THEN ips[level] ELSE {}

(***************************************************************************)
(* The loops: apply add_rules and update_rules, then revoke delete_rules,  *)
(* then, in a full sync, prune the rw and the ro policy.                   *)
(***************************************************************************)
Stale(level) == IF level \in exists
                THEN {a \in ips[level] : want[a] # level}
                ELSE {}

\* Mutant: the other level is cleared before the rule's own level is granted.
ApplyClearsFirst(a) ==
    /\ pc = "next" /\ phase = "apply" /\ a \in todo
    /\ cur' = a /\ lvl' = want[a] /\ todo' = todo \ {a}
    /\ ips' = [ips EXCEPT ![Other(want[a])] = @ \ {a}]
    /\ pc' = "put"
    /\ UNCHANGED <<phase, sync, dels, exists, attached>>
    /\ UNCHANGED rules /\ UNCHANGED trouble

ApplyRule(a) ==
    /\ pc = "next" /\ phase = "apply" /\ a \in todo
    /\ cur' = a /\ lvl' = want[a] /\ todo' = todo \ {a}
    /\ pc' = "put"
    /\ UNCHANGED <<phase, sync, dels>>
    /\ UNCHANGED rules /\ UNCHANGED cluster /\ UNCHANGED trouble

ApplyDone ==
    /\ pc = "next" /\ phase = "apply" /\ todo = {}
    /\ phase' = "revoke" /\ todo' = dels
    /\ UNCHANGED <<pc, sync, dels, cur, lvl>>
    /\ UNCHANGED rules /\ UNCHANGED cluster /\ UNCHANGED trouble

RevokeRule(a) ==
    /\ pc = "next" /\ phase = "revoke" /\ a \in todo
    /\ cur' = a /\ lvl' = "rw" /\ todo' = todo \ {a}
    /\ pc' = "take"
    /\ UNCHANGED <<phase, sync, dels>>
    /\ UNCHANGED rules /\ UNCHANGED cluster /\ UNCHANGED trouble

\* Mutant: the prune loop starts at ro and leaves rw alone.
PruneOnlyRo ==
    /\ pc = "next" /\ phase = "revoke" /\ todo = {} /\ sync
    /\ phase' = "prune" /\ lvl' = "ro" /\ todo' = Stale("ro")
    /\ UNCHANGED <<pc, sync, dels, cur>>
    /\ UNCHANGED rules /\ UNCHANGED cluster /\ UNCHANGED trouble

RevokeDone ==
    /\ pc = "next" /\ phase = "revoke" /\ todo = {} /\ sync
    /\ phase' = "prune" /\ lvl' = "rw" /\ todo' = Stale("rw")
    /\ UNCHANGED <<pc, sync, dels, cur>>
    /\ UNCHANGED rules /\ UNCHANGED cluster /\ UNCHANGED trouble

PruneAddr(a) ==
    /\ pc = "next" /\ phase = "prune" /\ a \in todo
    /\ cur' = a /\ todo' = todo \ {a}
    /\ pc' = "take"
    /\ UNCHANGED <<phase, sync, dels, lvl>>
    /\ UNCHANGED rules /\ UNCHANGED cluster /\ UNCHANGED trouble

PruneOther ==
    /\ pc = "next" /\ phase = "prune" /\ todo = {} /\ lvl = "rw"
    /\ lvl' = "ro" /\ todo' = Stale("ro")
    /\ UNCHANGED <<pc, phase, sync, dels, cur>>
    /\ UNCHANGED rules /\ UNCHANGED cluster /\ UNCHANGED trouble

\* update_access returns, and only now the manager hears of its rules.
Return ==
    /\ pc = "next" /\ todo = {}
    /\ \/ phase = "revoke" /\ ~sync
       \/ phase = "prune" /\ lvl = "ro"
    /\ pc' = "idle"
    /\ Stores(report) /\ report' = NoAnswer
    /\ UNCHANGED <<grouped, lvl>>
    /\ UNCHANGED cluster /\ UNCHANGED loop /\ UNCHANGED trouble
-----------------------------------------------------------------------------
(***************************************************************************)
(* _policy_set_ip(lvl, cur, present=True): create the policy with the      *)
(* address or add the address to it, then attach the policy.               *)
(***************************************************************************)
Put ==
    /\ pc = "put"
    /\ \E reply \in Reply, done \in BOOLEAN :
          /\ Answers(reply, done)
          /\ exists' = IF done THEN exists \cup {lvl} ELSE exists
          /\ ips' = IF done THEN [ips EXCEPT ![lvl] = @ \cup {cur}] ELSE ips
          /\ IF reply = "ok"
             THEN pc' = "attach" /\ UNCHANGED <<report, lvl>>
             ELSE SetRaises
    /\ UNCHANGED <<want, state, grouped, attached>>
    /\ UNCHANGED loop

\* Mutant: any error of the attach is taken for "already attached".
AttachSwallows ==
    /\ pc = "attach"
    /\ \E reply \in Reply, done \in BOOLEAN :
          /\ Answers(reply, done)
          /\ attached' = IF done THEN attached \cup {lvl} ELSE attached
    /\ pc' = "take" /\ lvl' = Other(lvl)
    /\ UNCHANGED <<want, state, grouped, exists, ips, report>>
    /\ UNCHANGED loop

Attach ==
    /\ pc = "attach"
    /\ \E reply \in Reply, done \in BOOLEAN :
          /\ Answers(reply, done)
          /\ attached' = IF done THEN attached \cup {lvl} ELSE attached
          /\ IF reply = "ok"
             THEN pc' = "take" /\ lvl' = Other(lvl) /\ UNCHANGED report
             ELSE SetRaises
    /\ UNCHANGED <<want, state, grouped, exists, ips>>
    /\ UNCHANGED loop

\* Mutant: the policy is detached whatever addresses are left in it.
TakeDetachesAlways ==
    /\ pc = "take"
    /\ \E reply \in Reply, done \in BOOLEAN :
          /\ Answers(reply, done)
          /\ ips' = IF done THEN [ips EXCEPT ![lvl] = @ \ {cur}] ELSE ips
          /\ \/ reply # "ok" /\ SetRaises
             \/ reply = "ok" /\ lvl \in exists
                /\ pc' = "detach" /\ UNCHANGED <<report, lvl>>
             \/ reply = "ok" /\ lvl \notin exists /\ SetReturns
    /\ UNCHANGED <<want, state, grouped, exists, attached>>
    /\ UNCHANGED loop

(***************************************************************************)
(* _policy_set_ip(lvl, cur, present=False): take the address out of the    *)
(* policy; once no address is left, detach the policy and delete it.  An   *)
(* error answer to the detach is swallowed, a broken connection is not.    *)
(***************************************************************************)
Take ==
    /\ pc = "take"
    /\ \E reply \in Reply, done \in BOOLEAN :
          /\ Answers(reply, done)
          /\ ips' = IF done THEN [ips EXCEPT ![lvl] = @ \ {cur}] ELSE ips
          /\ \/ reply # "ok" /\ SetRaises
             \/ reply = "ok" /\ lvl \in exists /\ ips[lvl] \subseteq {cur}
                /\ pc' = "detach" /\ UNCHANGED <<report, lvl>>
             \/ reply = "ok" /\ ~(lvl \in exists /\ ips[lvl] \subseteq {cur})
                /\ SetReturns
    /\ UNCHANGED <<want, state, grouped, exists, attached>>
    /\ UNCHANGED loop

Detach ==
    /\ pc = "detach"
    /\ \E reply \in Reply, done \in BOOLEAN :
          /\ Answers(reply, done)
          /\ attached' = IF done THEN attached \ {lvl} ELSE attached
          /\ IF reply = "net"
             THEN SetRaises
             ELSE pc' = "drop" /\ UNCHANGED <<report, lvl>>
    /\ UNCHANGED <<want, state, grouped, exists, ips>>
    /\ UNCHANGED loop

\* The cluster drops the attachment of a policy it deletes, or refuses.
Drop ==
    /\ pc = "drop"
    /\ \E reply \in Reply, done \in BOOLEAN :
          /\ Answers(reply, done)
          /\ exists' = IF done THEN exists \ {lvl} ELSE exists
          /\ attached' = IF done THEN attached \ {lvl} ELSE attached
          /\ IF reply = "ok" THEN SetReturns ELSE SetRaises
    /\ UNCHANGED <<want, state, grouped, ips>>
    /\ UNCHANGED loop

-----------------------------------------------------------------------------
Manage == \/ \E add, upd, del \in SUBSET Client : UpdateAccess(add, upd, del)
          \/ FullSync

Call == \/ Prepare \/ GovernedByGroup \/ GroupUnreadable \/ Abort
        \/ \E a \in Client : ApplyRule(a) \/ RevokeRule(a) \/ PruneAddr(a)
        \/ ApplyDone \/ RevokeDone \/ PruneOther \/ Return
        \/ Put \/ Attach \/ Take \/ Detach \/ Drop

Next == Manage \/ Call \/ Crash

Spec == Init /\ [][Next]_vars

(***************************************************************************)
(* A call that is under way goes on, and a manager that went down starts   *)
(* again and syncs every share it finds.                                   *)
(***************************************************************************)
Fairness == /\ WF_vars(Call)
            /\ WF_vars(pc = "down" /\ FullSync)

LiveSpec == Spec /\ Fairness
-----------------------------------------------------------------------------
(***************************************************************************)
(* Properties.                                                             *)
(***************************************************************************)
\* The levels at which the cluster lets an address in.
Enforced(a) == {l \in attached : a \in ips[l]}

(***************************************************************************)
(* A rule the manager shows as active, or that the call under way is about *)
(* to report so, is in force at its own level and at no other -- at every  *)
(* moment, also while later calls rework the same two policies, fail half  *)
(* way or crash: _policy_set_ip never detaches or deletes a policy that    *)
(* still carries somebody's rule, and a rule is put into the map as active *)
(* only after the other level was cleared.                                 *)
(***************************************************************************)
ActiveIsEnforced ==
    ~grouped =>
        \A a \in Client : "active" \in {state[a], report[a]}
                            => Enforced(a) = {want[a]}

(***************************************************************************)
(* With no failure since the last full sync began, the two policies of an  *)
(* idle share hold exactly the addresses of its rules, at their levels,    *)
(* and are attached if they hold any (update_access: a full sync must      *)
(* leave the backend matching access_rules exactly).                       *)
(***************************************************************************)
ExactWhenClean ==
    pc = "idle" /\ ~dirty /\ ~grouped =>
        \A l \in Level : /\ ips[l] = {a \in Client : want[a] = l}
                         /\ ips[l] # {} => l \in attached

(***************************************************************************)
(* An address the rules go on naming never loses its last access, also     *)
(* while its rule moves from one level to the other: the new level is      *)
(* granted before the old one is cleared.  The one exception is a full     *)
(* sync that tried to apply this very rule, failed, and went on to prune   *)
(* the level the rule had before.  The error is then only in the map of    *)
(* the call: the manager hears of it when the call returns, and never if   *)
(* it does not.                                                            *)
(***************************************************************************)
NoGap ==
    [][~grouped => \A a \in Client :
          /\ Enforced(a) # {} /\ Enforced(a)' = {}
          /\ want[a] # "none" /\ want'[a] # "none"
          => phase = "prune" /\ report[a] = "error"]_vars

(***************************************************************************)
(* A share that had a policy attached is opened to its whole organization  *)
(* only when no rule is left, or none but rules that could not be applied: *)
(* adds are applied before deletes, so replacing the last rule by another  *)
(* one passes through a share without policies only if the other one       *)
(* failed, before (the manager shows it in error) or in this very call.    *)
(***************************************************************************)
OpensOnlyWithoutRules ==
    [][~grouped /\ attached # {} /\ attached' = {} =>
          \A a \in Client :
              want[a] # "none" => "error" \in {state[a], report[a]}]_vars

(***************************************************************************)
(* No call leaves a rule in transition for ever, and no rule is answered   *)
(* untruly: each rule handed over ends up gone, in error, or active and    *)
(* then in force, by the call itself or by the sync of a restarted         *)
(* manager.                                                                *)
(***************************************************************************)
InForce(a) == grouped \/ Enforced(a) = {want[a]}

EveryRuleAnswered ==
    \A a \in Client :
        state[a] \in {"queued", "denying"}
            ~> \/ state[a] \in {"none", "error"}
               \/ state[a] = "active" /\ InForce(a)

(***************************************************************************)
(* The driver keeps the access contract: what the policies list beyond the *)
(* rules is the debt, whether or not it is in force.                       *)
(***************************************************************************)
Asked     == {g \in Client \X Level : want[g[1]] = g[2]}
Listed    == {g \in Client \X Level : g[1] \in ips[g[2]]}
Effective == {g \in Listed : g[2] \in attached}

Contract == INSTANCE AccessContract
                WITH Grant <- Client \X Level, want <- Asked,
                     eff <- Effective, debt <- Listed \ Asked

Implements == Contract!Spec

-----------------------------------------------------------------------------
(***************************************************************************)
(* What the docs say and the code does not do.                             *)
(***************************************************************************)
(***************************************************************************)
(* _policy_set_ip "detaches and deletes [the policy] once its last address *)
(* is gone", and a full sync leaves the backend matching the rules         *)
(* exactly: a policy with no address left, which shuts out every client of *)
(* a share without rules, does not outlive a full sync that went well.     *)
(***************************************************************************)
NoEmptyPolicyAttached ==
    pc = "idle" /\ ~dirty => \A l \in attached : ips[l] # {}

(***************************************************************************)
(* A share whose type names a policy group is governed by the policies of  *)
(* the group (docstring of _update_wekafs_access): no policy of its own    *)
(* grants access to it once a full sync went well.                         *)
(***************************************************************************)
GroupHasNoOwnPolicy ==
    pc = "idle" /\ ~dirty /\ grouped => attached = {}
=============================================================================
