--------------------------- MODULE OrgProvisioning ---------------------------
(***************************************************************************)
(* One project's organization on the Weka cluster: _org_client and what    *)
(* the driver keeps inside the organization for all shares of the project  *)
(* -- the mount user, the shared policy of a policy group -- and the token *)
(* file that a mount reads.                                                *)
(*                                                                         *)
(* Threads of one share manager share a lock and a cached client; other    *)
(* share managers have their own and meet the first one on the cluster and *)
(* in the token directory.  An operator or the CI deletes organizations at *)
(* any time.  Incarnations of the organization are numbered as the cluster *)
(* creates them; 0 is none.                                                *)
(*                                                                         *)
(* A call is a create_share ("create"), an update_access ("rule") or the   *)
(* ensure_shares of a share ("ensure"), as far as it concerns the          *)
(* organization.                                                           *)
(***************************************************************************)
EXTENDS Naturals

CONSTANTS
    Threads, NoThread,
    Processes,     \* share manager processes on one host
    Home,          \* the process of each thread
    MaxCalls,      \* bound: calls of one thread
    MaxTrouble     \* bound: failures, crashes and deleted organizations

ASSUME ThreadsAssumption ==
    NoThread \notin Threads /\ Home \in [Threads -> Processes]
ASSUME BoundsAssumption == MaxCalls \in Nat /\ MaxTrouble \in Nat

VARIABLES
    pc,        \* where each thread stands
    op,        \* its call
    left,      \* how many calls it has yet to make
    result,    \* how its last call ended
    saw,       \* the incarnation it last knew of
    tmp,       \* its temporary token file
    \* each process
    holder,    \* who holds _org_lock
    session,   \* the incarnation the cached client is logged in to
    opened,    \* how many clients it put in its cache
    \* the cluster and the host
    org,       \* the incarnation that exists
    made,      \* incarnations so far
    inside,    \* what it holds: the mount user, the group's policy
    file,      \* the token file
    trouble    \* what went wrong so far

cluster == <<org, made, inside>>
caches  == <<holder, session, opened>>
vars == <<pc, op, left, result, saw, tmp, holder, session, opened,
          org, made, inside, file, trouble>>

\* Where a thread stands while it holds the lock.
Provisioning == {"find", "make", "login"}
Places == {"idle", "look", "lock", "user", "lookup", "create", "attach",
           "check", "temp", "dump", "replace", "mount"} \cup Provisioning

TypeOK ==
    /\ pc \in [Threads -> Places]
    /\ op \in [Threads -> {"create", "rule", "ensure"}]
    /\ left \in [Threads -> 0..MaxCalls]
    /\ result \in [Threads -> {"none", "ok", "gone", "failed", "conflict"}]
    /\ saw \in [Threads -> 0..made]
    /\ tmp \in [Threads -> {"none", "empty", "whole"}]
    /\ holder \in [Processes -> Threads \cup {NoThread}]
    /\ session \in [Processes -> 0..made]
    /\ opened \in [Processes -> Nat]
    /\ made \in Nat /\ org \in {0, made}
    /\ inside \in SUBSET {"user", "policy"}
    /\ file \in {"none", "empty", "whole"}
    /\ trouble \in 0..MaxTrouble

Init ==
    /\ pc = [t \in Threads |-> "idle"]
    /\ op = [t \in Threads |-> "create"]
    /\ left = [t \in Threads |-> MaxCalls]
    /\ result = [t \in Threads |-> "none"]
    /\ saw = [t \in Threads |-> 0]
    /\ tmp = [t \in Threads |-> "none"]
    /\ holder = [p \in Processes |-> NoThread]
    /\ session = [p \in Processes |-> 0]
    /\ opened = [p \in Processes |-> 0]
    /\ org = 0 /\ made = 0 /\ inside = {}
    /\ file = "none" /\ trouble = 0

-----------------------------------------------------------------------------
Go(t, place) == pc' = [pc EXCEPT ![t] = place]

\* A call is over.
Ends(t, how) == Go(t, "idle") /\ result' = [result EXCEPT ![t] = how]

Trouble == trouble < MaxTrouble /\ trouble' = trouble + 1

Free(t) == holder' = [holder EXCEPT ![Home[t]] = NoThread]

\* The organization exists, and a client whose session it does not know
\* logs in again: name and password are derived, so they fit any incarnation.
InOrg(t) ==
    /\ org # 0
    /\ session' = [session EXCEPT ![Home[t]] = org]
    /\ saw' = [saw EXCEPT ![t] = org]

-----------------------------------------------------------------------------
\* The manager calls the driver.
Begin(t) ==
    /\ pc[t] = "idle" /\ left[t] > 0
    /\ \E o \in {"create", "rule", "ensure"} :
          /\ op' = [op EXCEPT ![t] = o]
          /\ Go(t, IF o = "ensure" THEN "look" ELSE "lock")
    /\ left' = [left EXCEPT ![t] = @ - 1]
    /\ result' = [result EXCEPT ![t] = "none"]
    /\ saw' = [saw EXCEPT ![t] = 0]
    /\ UNCHANGED <<tmp, file, trouble>>
    /\ UNCHANGED caches /\ UNCHANGED cluster

\* _ensure_share asks for the organization first, to create none.  If that is
\* deleted before _org_client looks for it, it is created again after all.
Look(t) ==
    /\ pc[t] = "look"
    /\ IF org # 0 THEN Go(t, "lock") /\ UNCHANGED result
                  ELSE Ends(t, "gone")
    /\ saw' = [saw EXCEPT ![t] = org]
    /\ UNCHANGED <<op, left, tmp, file, trouble>>
    /\ UNCHANGED caches /\ UNCHANGED cluster

-----------------------------------------------------------------------------
\* What follows _org_client.
After(t) ==
    [create |-> "lookup", rule |-> "user", ensure |-> "check"][op[t]]

\* Mutant: without the lock, a client is missed and opened by each thread.
LockNothing(t) ==
    /\ pc[t] = "lock"
    /\ IF session[Home[t]] # 0
       THEN Go(t, After(t)) /\ UNCHANGED holder
       ELSE Go(t, "find") /\ holder' = [holder EXCEPT ![Home[t]] = t]
    /\ UNCHANGED <<op, left, result, saw, tmp, file, trouble>>
    /\ UNCHANGED <<session, opened>> /\ UNCHANGED cluster

(***************************************************************************)
(* _org_client takes the lock and looks in the cache.  With a client there *)
(* it lets go at once; without one it keeps the lock until it has one.     *)
(***************************************************************************)
Lock(t) ==
    /\ pc[t] = "lock" /\ holder[Home[t]] = NoThread
    /\ IF session[Home[t]] # 0
       THEN Go(t, After(t)) /\ UNCHANGED holder
       ELSE Go(t, "find") /\ holder' = [holder EXCEPT ![Home[t]] = t]
    /\ UNCHANGED <<op, left, result, saw, tmp, file, trouble>>
    /\ UNCHANGED <<session, opened>> /\ UNCHANGED cluster

\* _ensure_org looks the organization up.
FindOrg(t) ==
    /\ pc[t] = "find"
    /\ Go(t, IF org # 0 THEN "login" ELSE "make")
    /\ UNCHANGED <<op, left, result, saw, tmp, file, trouble>>
    /\ UNCHANGED caches /\ UNCHANGED cluster

\* The cluster creates the organization, with nothing but its admin user.
NewOrg == /\ org = 0 /\ org' = made + 1 /\ made' = made + 1
          /\ inside' = {}

\* Mutant: "already exists" is an error like any other.
MakeOrgOnce(t) ==
    /\ pc[t] = "make"
    /\ \/ NewOrg /\ Go(t, "login") /\ UNCHANGED <<result, holder>>
       \/ org # 0 /\ Ends(t, "failed") /\ Free(t) /\ UNCHANGED cluster
    /\ UNCHANGED <<op, left, saw, tmp, file, trouble, session, opened>>

\* ... and creates it; that somebody else did is as good.
MakeOrg(t) ==
    /\ pc[t] = "make" /\ Go(t, "login")
    /\ \/ NewOrg
       \/ org # 0 /\ UNCHANGED cluster
    /\ UNCHANGED <<op, left, result, saw, tmp, file, trouble>>
    /\ UNCHANGED caches

\* for_org logs a new client in, _org_client caches it and lets go.
LoginOrg(t) ==
    /\ pc[t] = "login"
    /\ InOrg(t)
    /\ opened' = [opened EXCEPT ![Home[t]] = @ + 1]
    /\ Free(t) /\ Go(t, After(t))
    /\ UNCHANGED <<op, left, result, tmp, file, trouble>>
    /\ UNCHANGED cluster

\* The organization went between the lookup and the login.
LoginRefused(t) ==
    /\ pc[t] = "login" /\ org = 0
    /\ Ends(t, "failed") /\ Free(t)
    /\ UNCHANGED <<op, left, saw, tmp, file, trouble, session, opened>>
    /\ UNCHANGED cluster

\* A REST call of _org_client fails, and may have been carried out.
ProvisioningFails(t) ==
    /\ pc[t] \in Provisioning /\ Trouble
    /\ \/ UNCHANGED cluster
       \/ pc[t] = "make" /\ NewOrg
    /\ Ends(t, "failed") /\ Free(t)
    /\ UNCHANGED <<op, left, saw, tmp, file, session, opened>>

-----------------------------------------------------------------------------
\* update_access creates the mount user; it usually exists already.
MakeUser(t) ==
    /\ pc[t] = "user" /\ InOrg(t)
    /\ inside' = inside \cup {"user"}
    /\ Ends(t, "ok")
    /\ UNCHANGED <<op, left, tmp, file, trouble, holder, opened>>
    /\ UNCHANGED <<org, made>>

(***************************************************************************)
(* _ensure_group_policies, the end of create_share for a share whose type  *)
(* names a policy group: look the shared policy up, create it, attach it.  *)
(* A policy that somebody else created in between is answered 409, which   *)
(* nothing catches.                                                        *)
(***************************************************************************)
FindPolicy(t) ==
    /\ pc[t] = "lookup" /\ InOrg(t)
    /\ Go(t, IF "policy" \in inside THEN "attach" ELSE "create")
    /\ UNCHANGED <<op, left, result, tmp, file, trouble, holder, opened>>
    /\ UNCHANGED cluster

MakePolicy(t) ==
    /\ pc[t] = "create" /\ InOrg(t)
    /\ inside' = inside \cup {"policy"}
    /\ IF "policy" \in inside THEN Ends(t, "conflict")
                             ELSE Go(t, "attach") /\ UNCHANGED result
    /\ UNCHANGED <<op, left, tmp, file, trouble, holder, opened>>
    /\ UNCHANGED <<org, made>>

\* In another incarnation the policy's uid means nothing.
AttachPolicy(t) ==
    /\ pc[t] = "attach" /\ InOrg(t)
    /\ Ends(t, IF "policy" \in inside /\ saw[t] = org
               THEN "ok" ELSE "failed")
    /\ UNCHANGED <<op, left, tmp, file, trouble, holder, opened>>
    /\ UNCHANGED cluster

-----------------------------------------------------------------------------
\* _ensure_share looks for the filesystem; it is missing, or mounted, or not.
CheckShare(t) ==
    /\ pc[t] = "check" /\ InOrg(t)
    /\ \/ Ends(t, "gone")
       \/ Ends(t, "ok")
       \/ Go(t, "temp") /\ UNCHANGED result
    /\ UNCHANGED <<op, left, tmp, file, trouble, holder, opened>>
    /\ UNCHANGED cluster

\* Mutant: the token is written to the file itself.
MakeTempInPlace(t) ==
    /\ pc[t] = "temp" /\ Go(t, "dump")
    /\ tmp' = [tmp EXCEPT ![t] = "empty"] /\ file' = "empty"
    /\ UNCHANGED <<op, left, result, saw, trouble>>
    /\ UNCHANGED caches /\ UNCHANGED cluster

\* _org_token_file: a temporary file, the token in it, a rename.
MakeTemp(t) ==
    /\ pc[t] = "temp" /\ Go(t, "dump")
    /\ tmp' = [tmp EXCEPT ![t] = "empty"]
    /\ UNCHANGED <<op, left, result, saw, file, trouble>>
    /\ UNCHANGED caches /\ UNCHANGED cluster

DumpToken(t) ==
    /\ pc[t] = "dump" /\ Go(t, "replace")
    /\ tmp' = [tmp EXCEPT ![t] = "whole"]
    /\ UNCHANGED <<op, left, result, saw, file, trouble>>
    /\ UNCHANGED caches /\ UNCHANGED cluster

ReplaceToken(t) ==
    /\ pc[t] = "replace" /\ Go(t, "mount")
    /\ file' = tmp[t] /\ tmp' = [tmp EXCEPT ![t] = "none"]
    /\ UNCHANGED <<op, left, result, saw, trouble>>
    /\ UNCHANGED caches /\ UNCHANGED cluster

\* The mount command reads the token file; without the organization it fails.
MountShare(t) ==
    /\ pc[t] = "mount"
    /\ Ends(t, IF org # 0 THEN "ok" ELSE "failed")
    /\ UNCHANGED <<op, left, saw, tmp, file, trouble>>
    /\ UNCHANGED caches /\ UNCHANGED cluster

-----------------------------------------------------------------------------
\* Steps of a call that go through the cached client.
InTheOrg == {"user", "lookup", "create", "attach", "check"}

(***************************************************************************)
(* The organization is gone: no session is accepted, no login succeeds.    *)
(* The client stays in the cache.                                          *)
(***************************************************************************)
SessionLost(t) ==
    /\ pc[t] \in InTheOrg /\ org = 0
    /\ Ends(t, "failed")
    /\ UNCHANGED <<op, left, saw, tmp, file, trouble>>
    /\ UNCHANGED caches /\ UNCHANGED cluster

\* Mutant: any error of create_user passes for "already exists".
CallForgives(t) ==
    /\ pc[t] \in InTheOrg /\ org # 0 /\ Trouble
    /\ Ends(t, IF pc[t] = "user" THEN "ok" ELSE "failed")
    /\ saw' = [saw EXCEPT ![t] = org] /\ UNCHANGED inside
    /\ UNCHANGED <<op, left, tmp, file, org, made>>
    /\ UNCHANGED caches

\* A REST call in the organization fails, and may have been carried out.
CallFails(t) ==
    /\ pc[t] \in InTheOrg /\ org # 0 /\ Trouble
    /\ Ends(t, "failed")
    /\ \/ UNCHANGED inside
       \/ pc[t] = "user" /\ inside' = inside \cup {"user"}
       \/ pc[t] = "create" /\ inside' = inside \cup {"policy"}
    /\ UNCHANGED <<op, left, saw, tmp, file, org, made>>
    /\ UNCHANGED caches

\* The admin client's lookup fails, an OSError, a mount that fails.
StepFails(t) ==
    /\ pc[t] \in {"look", "temp", "dump", "replace", "mount"} /\ Trouble
    /\ Ends(t, "failed")
    /\ tmp' = [tmp EXCEPT ![t] = "none"]
    /\ UNCHANGED <<op, left, saw, file>>
    /\ UNCHANGED caches /\ UNCHANGED cluster

-----------------------------------------------------------------------------
\* An operator or the CI's reaper deletes the organization.
Reap ==
    /\ org # 0 /\ Trouble
    /\ org' = 0 /\ inside' = {}
    /\ UNCHANGED <<pc, op, left, result, saw, tmp, file, made>>
    /\ UNCHANGED caches

\* A share manager dies and starts again; temporary files stay behind.
Crash(p) ==
    /\ Trouble
    /\ \E t \in Threads : Home[t] = p /\ pc[t] # "idle"
    /\ pc' = [t \in Threads |-> IF Home[t] = p THEN "idle" ELSE pc[t]]
    /\ result' = [t \in Threads |->
                    IF Home[t] = p THEN "none" ELSE result[t]]
    /\ tmp' = [t \in Threads |-> IF Home[t] = p THEN "none" ELSE tmp[t]]
    /\ holder' = [holder EXCEPT ![p] = NoThread]
    /\ session' = [session EXCEPT ![p] = 0]
    /\ opened' = [opened EXCEPT ![p] = 0]
    /\ UNCHANGED <<op, left, saw, file>> /\ UNCHANGED cluster

Work(t) ==
    \/ Look(t) \/ Lock(t) \/ FindOrg(t) \/ MakeOrg(t)
    \/ LoginOrg(t) \/ LoginRefused(t) \/ ProvisioningFails(t)
    \/ MakeUser(t) \/ FindPolicy(t) \/ MakePolicy(t) \/ AttachPolicy(t)
    \/ CheckShare(t) \/ MakeTemp(t) \/ DumpToken(t) \/ ReplaceToken(t)
    \/ MountShare(t)
    \/ SessionLost(t) \/ CallFails(t) \/ StepFails(t)

Next == \/ \E t \in Threads : Begin(t) \/ Work(t)
        \/ Reap
        \/ \E p \in Processes : Crash(p)

Spec == Init /\ [][Next]_vars

-----------------------------------------------------------------------------
(***************************************************************************)
(* A process keeps one client for the organization: threads that find the  *)
(* cache empty at the same time do not each log in (driver.py 1659).       *)
(***************************************************************************)
OneClient == \A p \in Processes : opened[p] <= 1

(***************************************************************************)
(* Share managers that provision the organization at the same time do not  *)
(* fail each other: as long as no call fails, nobody crashes and no        *)
(* organization is deleted, no call fails for want of the organization     *)
(* (driver.py 1643).                                                       *)
(***************************************************************************)
RacesAreTolerated ==
    trouble = 0 => \A t \in Threads : result[t] # "failed"

(***************************************************************************)
(* A call that ended well left in the organization what it is for, as long *)
(* as that organization exists: a rule the mount user its access key is    *)
(* for, a share in a policy group the group's policy (driver.py 999, 1585).*)
(***************************************************************************)
OkMeansProvisioned ==
    \A t \in Threads :
        (pc[t] = "idle" /\ result[t] = "ok" /\ saw[t] = org) =>
            /\ op[t] = "rule" => "user" \in inside
            /\ op[t] = "create" => "policy" \in inside

(***************************************************************************)
(* A mount never reads a token file that is half written, whoever else     *)
(* replaces it and whoever dies while writing (driver.py 1696).            *)
(***************************************************************************)
NoHalfToken == \A t \in Threads : pc[t] = "mount" => file = "whole"

(***************************************************************************)
(* docs/architecture.md 111: every create operation handles a conflict by  *)
(* returning the existing resource.                                        *)
(***************************************************************************)
ConflictReturnsExisting == \A t \in Threads : result[t] # "conflict"
=============================================================================
