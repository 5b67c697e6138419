# A verification of the Weka share driver for Manila

TLA+ models of the driver in `src/manila/share/drivers/weka` and of its
third-party CI in `src/ci`, TLC runs that check them on small instances, and
TLAPS proofs that the safety results hold for every set of clients, shares,
threads or patchsets and any number of failures. Paths below are relative to
`src/`; `driver.py`, `client.py` and `posix.py` are the files of the driver's
directory.

## 1. The system

The driver runs inside Manila's share-manager process. The manager calls it
from several threads, one call of a share at a time; the driver turns each call
into a sequence of REST calls to the Weka cluster and, for some operations,
into mounts on the manager's host. It keeps almost nothing between calls: what
it has done is read back from the cluster. Every REST call may fail before or
after it took effect, and the process may die between any two of them.

| Component | State | Operations | Correct when |
|---|---|---|---|
| Access rules, WEKAFS (`driver.py` 978-1188) | two security policies per share on the cluster: existence, addresses, attachment | `update_access` with add, update and delete rules or as a full sync: apply, remove, prune through `_policy_set_ip` | an active rule is in force, a denied one ends, nobody who is still wanted loses access in between, no window in which the share is open, a full sync that goes well leaves exactly the rules |
| Access rules, NFS (`driver.py` 814-976, 1190-1203) | a client group, its address and a permission per rule | the same, through `_apply_nfs_rule`, `_remove_nfs_rule`, `_prune_nfs_rules` | an active rule is exported, a denied one ends, a full sync that goes well leaves exactly the rules, a permission always names a group that exists; a change of level does interrupt access, the old permission goes first (944-947) |
| Asynchronous snapshot copy (`driver.py` 319-623) | `_async_copies` in memory behind a lock; temporary client group, permissions, mounts | `create_share_from_snapshot`, the copy thread, `get_share_status` | a clone shown as available is complete, a settled clone is left alone, temporary resources go, every clone settles |
| Share life cycle (`driver.py` 240-318, 625-712, 1205-1480, 1730-1846) | a filesystem, its snapshots and policies on the cluster | create, delete, extend, shrink, manage, unmanage, snapshots, revert | a deleted share leaves nothing, sizes agree, no snapshot is lost, repeated calls are absorbed, no data lost on a shrink, an adopted share is closed |
| Health checks and mounts (`driver.py` 713-780, `posix.py`) | the kernel's mount table, a lock per mount point | `ensure_shares` over all shares beside `delete_share`; mount, unmount, is_mounted | one mount per mount point, a lost filesystem is noticed and no other reported (but those of adopted NFS shares, section 6), nothing stays mounted |
| REST session (`client.py` 56-400) | access and refresh token behind one lock, lockout delays | login, refresh, request with retries | no older token replaces a newer one, a refused request is sent again with a newer token, a lockout is slept out once, every request ends |
| Organization provisioning (`driver.py` 978-1003, 1566-1728, `ci/weka-org-cleanup.sh`) | a cache of organization clients behind a lock; organizations, their mount user and group policies on the cluster; token files | `_org_client`, `_ensure_org`, `_ensure_group_policies`, `_org_token_file` | share managers that provision one project do not fail each other, success is real, a process opens one client, no half-written token is read |
| Third-party CI (`ci/`) | a lock file, a broken marker, the list of tested patchsets, one DevStack | listener, job, nightly redeploy | a job tests its own patchset, on no half built DevStack, alone; every trigger is answered or lost in a way that is known; the listener comes back |
| Capacity statistics (`driver.py`, `utils.py`) | none | `_update_share_stats`, unit conversions | free never over total |
| Names and addresses (`driver.py` 50-110, 1482-1564) | none | `_share_name`, `_nfs_cg_name`, `_policy_ip`, `_cidr_to_weka_ip`, `_parse_policy_groups` | one name per object, equal addresses compare equal |
| Configuration, exceptions, stubs, devstack, tools | none of their own | | |

**Interactions.** The manager calls the driver and stores the rule states and
share states it returns. Access, life cycle, copy and provisioning all go
through the REST session; WEKAFS shares through a client scoped to their
project's organization, NFS shares through the administrator's. The copy thread
shares `_async_copies` with the polling manager, and the host's mount table
with `delete_share` and `ensure_shares`. The CI deletes organizations that the
driver may still hold a cached client for.

**What is hard here.** Operations of three to seven REST calls with an
exception possible at each; failures that are swallowed on purpose, so that the
next call meets their leavings; calls that took effect although they failed, or
whose lost answer makes the client send them twice; restarts that keep the
cluster and the mounts but lose the memory; loops whose order (adds before
deletes, grant before clear, permission before group) is all that prevents a
gap or an opening; a background thread beside a poller, a sweep beside a
delete; mounts that are looked at before their lock is taken; tokens refreshed
by several threads; shell scripts that hand a lock to their own successor.

`PROJECT.json` lists each hazard at its line with the properties that cover it,
or says why none does.

## 2. The modules

| Module | What it is |
|---|---|
| `AccessContract` | abstract specification of what the driver promises about access to one share, for either protocol: rules asked for, what the cluster lets in, and the debt of revocations under way or failed |
| `AccessManager` | the share manager as `update_access` sees it (external to the driver, modelled from how it calls): the rules, the state shown for each, and what it makes of the answers or of an exception |
| `WekafsAccess`, `WekafsAccessProofs` | `update_access` of a WEKAFS share and its proofs |
| `NfsAccess`, `NfsAccessProofs` | `update_access` of an NFS share, likewise |
| `SnapshotCopy`, `SnapshotCopyProofs` | `create_share_from_snapshot`, its thread, polling and restarts |
| `ApiSession`, `ApiSessionProofs` | one `WekaApiClient` shared by several threads: login, requests with their 401 and retry paths, the lockout delay |
| `OrgProvisioning`, `MCOrgProvisioning`, `OrgProvisioningProofs` | one project's organization, used by the threads of several share managers |
| `ShareContract` | abstract specification of what the driver promises about one share's volume: the calls of Manila, the one effect of each, all or nothing |
| `ShareLifecycle`, `ShareLifecycleProofs` | all calls of one share from creation or adoption to its end |
| `ShareHealth`, `ShareHealthProofs` | `ensure_shares` over several shares beside `delete_share`, at the mount points |
| `CiRunner`, `CiRunnerProofs` | listener, job and nightly redeploy around one DevStack |

`WekafsAccess` and `NfsAccess` extend `AccessManager` and each instantiate
`AccessContract` under a refinement mapping (`Implements`). `ShareLifecycle`
instantiates `ShareContract` in the same way.

The other modules meet at named places. `ShareLifecycle` has what
`WekafsAccess` leaves on the cluster (`Govern`) and what `ShareHealth` leaves on
the host (`Remount`) as one step each between calls; `ShareHealth` has of
`delete_share` what concerns mounts and the filesystem, `ShareLifecycle` the
whole of it; what a check does to get into an organization is in
`OrgProvisioning`. A REST call is, in all of them, what `ApiSession` makes of
it: carried out and answered, carried out and answered badly or not at all, or
not carried out.

### WekafsAccess

`exists`, `ips` and `attached` are the cluster's two policies of the share
(`manila-<share8>-rw`, `-ro`). `pc` is the REST call that comes next, `phase`
the loop that is running (apply, revoke, prune), `todo` what the loop has not
reached, `cur` and `lvl` the arguments of `_policy_set_ip`. There is one action
for each call that changes the cluster: `Put` (create or PATCH an address in),
`Attach`, `Take` (PATCH an address out), `Detach`, `Drop`. A lookup belongs to
the action of the change it decides: the manager serialises the calls of a
share and nobody else writes the share's own policies, so nothing comes between
them. A reply is `ok`, `api` (an error answer, `WekaApiError`) or `net` (a
connection lost beyond the client's retries, an exception of the requests
library); the two are caught at different places, at the detach for instance.
Any reply but `ok` comes with a choice whether the call was carried out.
`GovernedByGroup` and `GroupUnreadable` are the shares of a policy group. A
rule's client is an IPv4 address; a share has at most one rule per client.

`report` is the local `rule_state_map`. What the call finds out about a rule is
written there; Manila gets it, and shows it in `state`, when the call returns
(`Stores` of `AccessManager`). An exception or a crash loses it: then rules in
transition are in error and the others keep what was shown before. So the
manager may show a rule as active, or in error, that the running call already
knows otherwise. Two properties depend on the difference. `ActiveIsEnforced`
speaks of a rule that is shown as active or about to be. `NoGap` excepts the
prune of a full sync that has just failed to apply the rule itself, and
`OpensOnlyWithoutRules` rules that the running call has found in error, besides
those that are shown so: such a prune may take the last access of a client whose
new level could not be put, and detach the share's last policy, before anybody
has been told; and if the call breaks off there, nobody is, and only the next
full sync tries the rule again.

### NfsAccess

A rule's client group, the group's address and its permission are `groups`,
`addrs` and `perms`, by rule: the group's name contains share and rule id.
Phases are apply, revoke, prune (permissions no rule backs) and groups (client
groups of the permissions that went). Actions: `MakeGroup`, `AddAddr`,
`Permit`, `Unpermit` (a permission of the wrong type), `DeletePerm`, `Strip` and
`DeleteGroup` (the two halves of `delete_client_group`). `report` is as above.
There is no `NoGap` here: a rule whose level changes is without a permission
between `Unpermit` and `Permit`.

### SnapshotCopy

`call` is where `create_share_from_snapshot` stands, `worker` where the copy
thread stands, `entry` the share's entry in `_async_copies`, `share` what Manila
shows. The thread's local flags (`failing`, `groupUid`, `ruleUid`, `mine`) say
what its `finally` block will undo. Every step may fail, with or without
effect, and `Crash` loses the memory and the thread but neither the cluster nor
the mounts. The clean-up swallows failures; `messy` remembers that something
was left that the thread could not know of. One clone is enough: entries and
temporary resources are keyed by share.

### ApiSession

`pc` is where a thread stands in `_request`, `_refresh_or_login` and
`_do_login`; `job` tells a request from a plain `login`, which is what a new
client begins with. `access` and `refresh` are the client's two tokens, `holder`
is `_token_lock`, `used` the token a request was sent with, `got` an answer not
stored yet. Tokens are numbered as the cluster issues them. The header is built
without the lock (`Send`), so a request may go out with a token that another
thread is replacing. Each thread that was refused refreshes, also when another
thread has done so while it waited: the code does not look again under the lock,
which costs a call and is otherwise harmless, as `TokenMovesForward` and
`ResentWithNewToken` show. Time passes (`Tick`) in units that matter to the
lockout: `BackOff` is the sleep computed from the length the cluster names, with
the margin, the default and the cap of the code. What a request does on the
cluster is left to the modules that send it.

### OrgProvisioning

A thread makes one of three calls, as far as they concern the organization:
`create_share` (a client, then the shared policy of the policy group),
`update_access` (a client, then the mount user) and the check of one share in
`ensure_shares` (a lookup, a client, the token file, a mount). Each process has
one `_org_lock` and one cache entry (`holder`, `session`, `opened`); processes
meet on the cluster (`org`, `inside`) and in the token directory (`file`, with a
temporary file per thread). The lock is held through lookup, creation and login
when the cache is empty and given back at once otherwise. The organization is
numbered by incarnation: `Reap` deletes it under whoever uses it, and a call
that began in one may go on in another, with uids that mean nothing there
(`AttachPolicy`). A cached client outlives its organization: its calls fail
(`SessionLost`) until somebody else creates the project's organization anew, and
then log in again with the derived password (`InOrg`). The check looks the
organization up first and opens it then; if it is deleted in between (`Look`,
`Reap`, `Lock`, `MakeOrg`), the check creates it anew (section 6).

### ShareLifecycle

One share, one call at a time, each a path through places named after the REST
calls. `Answers` is the outcome of a call: `ok`, `lost` (carried out, the answer
lost and the call sent again by the client's retries, so that a repeated create
meets 409 and a repeated delete 404) or `error`. How a place reacts to each is
its own: `MakeFilesystem` turns the 409 into the filesystem that is there,
`TakeSnapshot` raises it, `DetachPolicy` swallows errors, `Unmount` does not.
Filesystems have a name, `gen` (from the share's id) or `own` (that of an
adopted one), and a uid that is never given twice; `Resolve` is
`_get_fs_uid_for_share`, with or without the metadata of the export location
(`keepsUid`). Capacity is counted in units of which a GiB has `GiB`, so that
`WholeGiB` (`bytes_to_gb` and the floor of one GiB) loses something. A share
whose creation failed before it had an export location can be created again;
the idempotent lookup of `_create_filesystem_idempotent` is written for that.
Clients write at any time (`Write`), somebody may delete the filesystem on the
cluster (`Vanish`), the process may die at any place (`Crash`). `odd` remembers
the circumstances under which a property promises less.

`ShareContract` knows neither REST calls nor names: a share has a volume of some
capacity (`room`), what is written on it (`data`) and its snapshots. A call is
asked for, has its one effect at most once, and ends well only after it; what a
failed call did is its effect or nothing. Under the mapping the volume is the
filesystem of the name the share has by its export location, the generated one
as long as it has none (`Room`, `Data`, `Taken`, `Held` of `ShareLifecycle`), so
that a repeated create, a lost answer
or a crash between two REST calls must look like one effect or like none. The
contract's own properties (`VolumeStays`, `DataStays`, `SnapshotsStay`,
`DeletedIsEmpty`) then hold of the driver.

### ShareHealth

Several shares, each with at most one delete under way, and several sweeps. The
mount table (`mounts`) counts the mounts at each mount point, one upon another;
`lock` is the lock of `posix.py` for each of them. Both sides look at the table
first without the lock (`PeekAtMounts`, `PeekForDelete`) and once more under it
(`LockForMount`, `LockForUnmount`). A sweep works on the list of shares it was
given and on a list of the administrator's filesystems read once, both of which
grow old while it runs; `ShareNotFound` notes a share as lost, any other
exception ends the sweep for all of them (`Abort`). `crossed` and `vanished`
are history: shares that a sweep mounted behind a delete, and filesystems that
somebody deleted by hand. An NFS share may be `adopted`: its filesystem kept its
own name, and since checks and deletes look for the generated one (`Named`),
they never find it.

### CiRunner

`listener`, `job` and `redeploy` are where `gerrit-listener.py`, `ci-runner.sh`
and `full-redeploy.sh` stand; `lock` is `runner.lock`, `marker` the
`deploy-broken` file, `tested` is `tested.json`. The DevStack is `good`, `half`
built, or `degraded` (built by a redeploy that only warned of what failed), with
a patchset in its tree. The lock and the unread events go
with the process that has them; what is on disk stays. A job that times out
leaves its tempest behind (`stray`), the listener's unit takes all its processes
with it when it is stopped (`GoesDown`). `JobFails` is a `ci-runner.sh` that
does not start or dies, of which `run_job` only makes a line in the log.
`SelfUpdate` is the redeploy that lets go of the lock to run a newer copy of
itself. What a redeploy does and ignores the result of may fail: the stop of
the listener's unit (the teardown then goes on beside it), its start by the
exit trap (the unit is then `off`), the writing or removing of the marker
(`unmarked`, if a failed redeploy is left without one). A failed start in the
script proper ends it like any other failure.

## 3. The runs

| Run | Properties | Bounds |
|---|---|---|
| `WekafsAccess_rules` | `ActiveIsEnforced`, `ExactWhenClean`, `NoGap`, `OpensOnlyWithoutRules`, `Implements`, `EveryRuleAnswered` | two clients, three failures or crashes |
| `NfsAccess_rules` | `ActiveIsExported`, `PermissionHasGroup`, `ExactWhenClean`, `Implements`, `EveryRuleAnswered` | two rules, three failures or crashes |
| `SnapshotCopy_clone` | `AvailableIsComplete`, `SettledIsQuiet`, `LeavesNothing`, `Settles` | three failures or crashes |
| `ApiSession_threads` | `NoLoginIntoLockout`, `TokenMovesForward`, `ResentWithNewToken`, `CallsEnd` | two threads, three expiries, failures or lockouts, one retry, lockouts up to one unit over the cap |
| `OrgProvisioning_threads` | `RacesAreTolerated`, `OkMeansProvisioned`, `NoHalfToken`, `OneClient` | two threads of one share manager and one of another, a call each; two failures, crashes or deletions |
| `ShareLifecycle_calls` | `DeletedIsGone`, `SizeAgrees`, `LostAnswersAreAbsorbed`, `AdoptedIsClosed`, `ShrinkKeepsData`, `Implements` | sizes up to 3 GiB of two units, one snapshot, two exports, two failures, crashes or deletions |
| `ShareHealth_sweeps` | `NoStackedMount`, `NoFalseAlarm`, `SweepMounts`, `DeleteUnmounts`, `CallsEnd`, `GoneIsNoticed` | a WEKAFS share and an NFS one, created or adopted, two sweeps, the WEKAFS share's delete, two failures, deaths or deletions |
| `CiRunner_jobs` | `TestsAreSound`, `RebuildsAlone`, `BrokenIsMarked`, `ListenerReturns`, `TriggersAreAnswered` | two patchsets, three events, two failures (of a post, a job, a `systemctl`, the marker) or deaths |
| `WekafsAccess_empty`, `SnapshotCopy_mount`, `OrgProvisioning_conflict`, `ShareLifecycle_managed` | violations, see section 6 | one failure, or none |

Type invariants are not in the runs; they are proved (`TypeCorrect` of each
proof module). So is `SnapshotsAreKnown` of `ShareLifecycle`, that every
snapshot on the cluster is one Manila knows (`NoSnapshotIsLost`).

*Why the bounds are enough.* Everything an access call does is about one
client at a time or about whether a policy carries anybody else: two clients
give one being worked on and one that must not be disturbed. Three failures
give one that leaves something behind, another or a crash that meets it, and
one more in the full sync that follows. The number of `update_access` calls and
full syncs is not bounded.

In `ApiSession` the number of calls and of tokens issued is not bounded, only
what goes wrong: one expiry refuses both threads together, another refuses one
of them again after its refresh; a lost refresh token and a lockout send one
thread into a login and the other behind it while it sleeps. One retry gives
the first, the last and no other attempt, which are the cases the loop
distinguishes.

In `OrgProvisioning` two threads meet at one lock and cache and a third meets
them on the cluster only. One call of each is enough for the races; what an
earlier call leaves behind (a cached client, an organization) another thread's
call leaves as well. Two troubles allow an organization to be deleted and its
successor to fail.

In `ShareLifecycle` calls are not bounded. Three sizes are a growth, a
shrinking and a second of either; with two units a GiB there are capacities of
a part of a GiB and of one and a half. In `ShareHealth` the sweeps are not
bounded; two of them and a delete are all that can meet at one mount point, and
the NFS share is the one that ends a sweep for the other or is missing in an
old list. In `CiRunner` one patchset is in hand while the other waits, and the
third event is a recheck of either; redeploys are not bounded. Builds that fail
or only warn are no failures of that count: any number of them may come. Two
failures give a marker that cannot be written and a death or a stop that fails
on top of it.

`CHECK_DEADLOCK FALSE` is set where a life ends: for `SnapshotCopy` (one clone
is created, used and deleted), `ShareLifecycle` (the share is deleted or
unmanaged) and `OrgProvisioning` (every thread has made its calls).

*Fairness.* `WF_vars(Call)` in the access modules: a thread inside
`update_access` runs on, and each REST call ends, since the client gives every
request a timeout and a bounded number of retries. `WF_vars(pc = "down" /\
FullSync)`: a share manager that died is started again by its service
supervisor and then syncs every share it knows. In `SnapshotCopy` the API call
and the copy thread run on, and the manager polls `get_share_status`
periodically. In `ApiSession` every thread goes on (`WF_vars(Work(t))`; each
HTTP call has a timeout, each sleep a length) and time passes. `threading.Lock`
is not fair, and none is assumed: a waiter gets the lock because the others,
with a bounded number of expiries, stop taking it. In `ShareHealth` sweeps come
periodically (`driver.py` 744) and neither they nor deletes stop half-way,
which is weak fairness of `Check(c)` and of `DeleteStep`; that a call ends is
written `[]<>` of its being over, which is the same as a leads-to from its
being under way. In `CiRunner` every process goes on; the listener's wait for
`runner.lock` has strong fairness (`SF_vars(LockForJob)`), because redeploys
come without end in the model but once a night in truth, and `flock` lets a
waiter in when the lock is given back. No fairness is assumed for new requests,
events, redeploys, failures or crashes. The bound on failures is part of the
liveness results: a process that crashes for ever answers nothing.

Each property has a mutant in `PROJECT.json`: an operator of the same module,
marked "Mutant", that changes one definition as a plausible bug would and makes
TLC find the property violated.

## 4. The proofs

All results are for any constants that meet the named assumptions of the
modules: any set of clients, threads, shares, snapshots or patchsets, any
sequence of calls, and any number of failures and crashes. The assumptions say
that the bounds are naturals, that the value for "nobody" is none of the actors
and, in `ShareHealth`, that shares and sweeps, which both own locks, are
different things. In every module one lemma per conjunct of the inductive
invariant has one step per action; the theorems follow from the invariant.

**WekafsAccess.** The invariant `IInv` is a conjunction of `TypeOK` and of what
the code knows at each point. `ActiveIsEnforced` is not inductive: that an
active rule survives a detach needs `SetInv` (a policy is only detached or
deleted when it lists nobody, an address is only taken out of a level its rule
does not ask for, and while a rule is applied it is already in force at its new
level) and `LoopInv` (which rules each loop may reach). `AnsweredInv` says
which rules the manager still waits for: a rule that is asked for and not yet
reached by the running loop cannot be denied. `ReportInv` ties `report` to the
loops: it is empty outside them, and a full sync has an answer for every rule
it is done with, or has the rule in hand. From `IInv` follow `TypeCorrect`,
`ActiveRulesHold`, `StaysClosed` (`OpensOnlyWithoutRules`),
`AccessIsContinuous` (`NoGap`) and `KeepsContract` (the refinement).
`SyncIsExact` (`ExactWhenClean`) adds `CleanInv`: with no failure, what a loop
has not reached is all that is still to be done. `NothingUnasked` and
`WantedIsKept` are what the refinement buys: the contract's own properties, of
the driver. `NothingUnasked` is `DebtIsOld` of `AccessContract`: the debt is by
the mapping what is carried and not asked for, so that it says something of
steps, not of states: a step of the driver adds to it only what a rule asked
for until that very step, never an address or a level that no rule asks for.
`CallAdvances`: with every step of a call a loop ends, or its rules get fewer,
or the REST calls on the rule in hand do; so no failure sends `update_access`
round in circles. `RulesAreAnswered` (`EveryRuleAnswered`) rests on
`IdleIsAnswered`: once a call is over, whichever way, no rule is left in a
state of transition.

**NfsAccess.** The same shape: `SafeInv` gives `TypeCorrect`, `ActiveRulesHold`,
`GroupsOutlivePermissions`, `KeepsContract`, `NothingUnasked` and
`WantedIsKept`; with `CleanInv`, `SyncIsExact`. `CallAdvances` and
`RulesAreAnswered` as there; here `AnsweredInv` is already part of the
invariant.

**SnapshotCopy.** `CopyInv` ties the entry, the exception flag and the place of
the thread together, and gives `AvailableHasAll` and `NoLateCopy`; `CleanInv`
says what is left at each point of the `finally` block, and gives
`CleanupIsComplete`. `Ahead` numbers the places of the thread, its clean-up
included: `CopyAdvances` says that each of at most 14 steps leaves fewer, and
`CopySettles` (`Settles`) goes down that number to the place where the poller
finds the result.

**ApiSession.** `LockInv` (the lock is held by the one thread that stands
inside) makes `TokenInv` inductive: an answer not stored yet is newer than the
stored token, and there is at most one. `AccessStep` then gives
`TokenNeverRegresses`, and `TokenInv` with it `RefusedGetsNewToken`. `SleepInv`
says that what is left of a lockout is covered by the sleep of the thread with
the lock, hence `LockoutIsSleptOut`. `RetryInv` bounds the attempts, and with
them `CallsAdvance` the steps of a call: 10 `MaxRetries` + 9, whatever the other
threads do. `LockIsGivenBack`: the thread with the lock goes from the refresh to
the login, perhaps sleeps, and gives the lock back on every way out.

**OrgProvisioning.** `LockInv` (who provisions holds the lock, and then nothing
is cached) makes `CacheInv` inductive, which is `OneClientOpened`. `FileInv`:
only a complete temporary file gets the name of the token file
(`TokenFileIsWhole`). `DoneInv` gives `SuccessIsReal`: success was reached in
an incarnation that the thread saw, and what it put there goes with that
incarnation only. `CalmInv` (what nobody disturbs stays) gives
`RacesDoNotFail`. `HolderIsAtWork` is the other half of `LockInv`, that nobody
holds the lock elsewhere; with it `LockIsGivenBack` goes through the three
places under the lock, where a thread waits for nobody. `CallsAdvance`: ten
steps a call, also when the organization is deleted under it.

**ShareLifecycle.** `UidInv` and `StageInv` carry the proof: a uid is given
once, so that what a call found is the share's own filesystem or none as long as
the call runs, whatever `Resolve` went by. `PlaceInv` says to which call a place
belongs; `ThereInv`, `MountInv`, `PolicyInv` and `SnapInv` in which order the
parts of a share go, hence `DeletedLeavesNothing` and `NoSnapshotIsLost`;
`CapInv` that size and capacity change together (`CapacityFollowsSize`).
`RepeatedCallsSucceed` and `AdoptedHasNoAccess` are inductive with these.
`ShrinkIsSafe` is the action property: a growing resizing leaves room, by
`CapInv` and the arithmetic of `WholeIsBelow` for an adopted share whose size is
no whole number of GiB, and a shrinking one has been checked (`FitInv`).

`KeepsContract` is the refinement, one lemma for each group of actions
(`CreateKeepsContract`, `DeleteKeepsContract`, ...): `OwnVolume` says that the
one filesystem with the share's uid is the one of its name, so that what a call
does to the filesystem it found is an effect of the contract; `VolumeInv` adds
to the invariant what that takes (nothing is written where no filesystem is,
sizes asked for are positive). `Promise` is the contract's invariant, and
`NothingElseGoes` its step; from them follow `VolumeIsKept`, `DataIsKept`,
`SnapshotsAreKept` and `DeletedIsEmpty`, which speak of the driver through the
mapping. `CallsAdvance` counts the places of a call down; the clearing of an
adopted share, which is as long as there are permissions and groups, gets
smaller with each step. `CallsComeBack` is that every other call ends.

**ShareHealth.** `LockInv` and `MountInv`: what was seen under the lock of a
mount point holds as long as the lock is held (`MountedOnce`). `LostInv`: a
filesystem that is there under its generated name is in the list, because none
comes back (`LostIsGone`, which leaves adopted shares out). `SeenInv` says of
each share a sweep is done with why (`SweepIsComplete`), `CrossedInv` of each
mount without a filesystem who made it (`DeleteLeavesNoMount`); both need
`CurInv` and `DeletingInv`. `HeldInv` (`HoldersDoNotWait`): a mount lock is
held only by the sweep or the delete that is about to mount or unmount there,
and no step there waits for another lock, so that the locks cannot deadlock.
`SweepsAdvance` and `DeletesAdvance` give both a measure that only their own
steps move.

**CiRunner.** `LockInv` ties the lock to the stages of the redeploy and says
that a listener that was stopped left no process behind: no job runs while
DevStack is rebuilt, because of the lock alone, and no stray tempest, if the
unit could be stopped (`RebuildIsAlone`). `MarkInv`: a half built DevStack has
its marker or a redeploy that is about to set it, or a redeploy could not set
it (`BrokenDevStackIsMarked`); `JobInv` follows a job from the marker to its
test (`TestsOwnPatchset`), `OwedInv` a patchset to its result or to its loss
(`NothingIsForgotten`). `LockComesBack`: a redeploy that holds `runner.lock`
has eight stages at most before it gives it back, also when it restarts itself
or fails. With it strong fairness of the listener's wait gives
`EveryTriggerIsAnswered` (`TriggersAreAnswered`): the trigger waits, runs its
stages, and is wound up, or is lost. `ListenerComesBack` (`ListenerReturns`)
goes through `StoppedInv`: a listener that is stopped has a redeploy that is to
start it. A unit whose start failed is `off`, and stays so until the next
redeploy; neither result is about it.

**Progress, and what it assumes.** The results under fairness are stated for the
modules' own fair specifications (`LiveSpec`, `FairSpec`), and where a module
states none (`OrgProvisioning`, `ShareLifecycle`) or the prover cannot take one
instance out of a quantified fairness condition (`ApiSession`), for weak
fairness of the one thread or call they are about. ENABLED is opaque to the
prover. That a step can be taken at the places where it is called for is
therefore a hypothesis with a name: `ThreadCanWork`, `PollCanSettle`,
`SyncCanStart`, `HolderCanGoOn`, `CanGoOn`, `JobCanStart`, `RunCanGoOn`,
`RebuildCanGoOn`, `ListenCanGoOn`. Each is a state predicate that TLC evaluates
as an invariant of its module; each holds on small instances, and by inspection:
every place has an action for each outcome of its REST call. Four more
hypotheses remain:

- `Working ~> ~Working` in the access modules: a call that began ends. It has
  as many steps as there are rules, and that a set of rules runs empty is an
  induction on its size; `CallAdvances` is the step of that induction. TLC finds
  it true under the modules' fairness.
- `<>[][~Crash]_vars` there: the share manager is not killed for ever. The
  models bound failures, so their behaviours meet it; the theorems hold for
  every bound.
- `<>[][~HostDies]_vars` in `ListenerComesBack`: likewise, the CI host does not
  go down again and again.
- `Asleep(t) ~> ~Asleep(t)` in `LockIsGivenBack` of `ApiSession`: a sleep comes
  to its end, an induction on its length. TLC finds it true as well.

*Only model-checked:* `CallsEnd` of `ApiSession` and of `ShareHealth` and
`GoneIsNoticed`: there several threads pass one lock that is not fair, and that
the others stop taking it is an induction on what the bounds leave them. What is
proved of them are the parts, the measures (`CallsAdvance`, `SweepsAdvance`,
`DeletesAdvance`) and the way of the locks. Of the conclusions proved under the
hypotheses above TLC checks the unconditional form, since the runs' fairness and
bounds imply the hypotheses. The violations are TLC's alone. Every safety
property of a passing run, every refinement and every action property is also
proved without further assumption.

## 5. What is not modelled

- *Concurrent calls for one share.* Manila serialises the operations of a share
  instance; the models rely on it. Health checks, copy threads and other shares
  do run beside them.
- *IPv6 and non-ip rules*, for which no access rule of the share is applied.
  IPv6 rules are skipped by both protocols without any state (`driver.py`
  828-833, 1041-1046), so that Manila goes on as if they were active. Non-ip
  rules of an NFS share are reported in error; those of a WEKAFS share are
  reported active with the mount credential and no policy (1027-1040). Access
  rules of a filesystem that disappeared (`fs_uid` None) are left out too.
- *Aliases*: two rules whose addresses differ in text and mean the same network
  (`10.0.0.5` and `10.0.0.5/32`), and two shares whose ids agree in their first
  eight characters. Clients, rules and shares are distinct values here.
- *Changes behind the driver's back*, except for deleted filesystems and
  organizations: an administrator editing policies or permissions, a share type
  whose policy group changes.
- *Reads that fail in the middle of an action*: a failed lookup is the failure
  of the change it precedes, which has the same effect in the code, except
  where it has not; those are actions of their own (`Abort`, `GroupUnreadable`,
  `GroupLookupFails`, `Crash` of `ShareLifecycle`).
- *A request that is carried out long after it was given up*: a call that
  failed took effect by then or never.
- In `SnapshotCopy`, the repeated tries of `_nfs_mount_with_retry` are one
  mount; temporary directories and the thread's address lookup are left out.
- In `ApiSession`, a client told of a lockout in words it cannot parse, or of
  one longer than the cap, sleeps for a time that has no relation to it; the
  property does not cover those. The growing delays between attempts have no
  length.
- `auth_token_payload` (`client.py` 337) reads the two tokens without the lock,
  also on the cached client that the project's threads share, so that a token
  file may get an access token and a refresh token that were never issued
  together. No model has both the refresh and the file.
- In `OrgProvisioning`, one project. `docs/known-issues.md` (11) has operators
  and the CI delete empty organizations; if a client of one is still cached,
  the project's calls fail until the share manager starts again or somebody
  else creates the organization. The model has that behaviour and no property
  against it.
- In `ShareLifecycle`, sizes that the cluster reports in hundredths of a GiB
  (`bytes_to_gb` rounds to two places before the driver cuts them); quotas of
  directories; the metadata of an export location that a user may edit.
- In `ShareHealth`, a `/proc/mounts` that cannot be read (`posix.py` 158:
  nothing counts as mounted then), mount options, and the share-path helpers of
  `posix.py`, which the driver does not call.
- In `CiRunner`, which authors the listener trusts, and what the scripts
  install.
- Components with status `not_modelled` in `PROJECT.json`. Configuration,
  exceptions, stubs, deployment scripts and CI reporting hold no state of the
  driver. Capacity statistics and the handling of names and addresses are pure
  string and number conversions without control that anything here depends on.

## 6. Where the code and its words part

Four runs show a disagreement:

1. **An emptied policy stays attached** (`WekafsAccess_empty`). One fault is
   enough: the PATCH that takes the last address out is carried out but answered
   badly, the connection breaks at the detach (which swallows error answers of
   the cluster, not lost connections), or the process dies before it. The policy
   then stays attached and empty. A full sync reaches a policy only
   through the addresses it holds (`driver.py` 1088), so it never goes, and a
   share without rules shuts everybody out.
2. **A filesystem is deleted under a temporary mount** (`SnapshotCopy_mount`)
   that outlived its thread: `delete_share` looks at the share's own mount point
   only (`driver.py` 654).
3. **The second share of a policy group fails** (`OrgProvisioning_conflict`)
   when two shares of a project are created at the same time: both find no
   policy, both create it, and the 409 of the second is not caught (`driver.py`
   1585), although `docs/architecture.md` 111 promises it for every create.
4. **Deleting an adopted share leaves its filesystem**
   (`ShareLifecycle_managed`): `delete_share` looks for the generated name only
   (`driver.py` 635), finds nothing, and reports success.

The modules state some more that TLC refutes in a few steps; no run is spent on
them:

5. *One failed read of a share type* (`GroupHasNoOwnPolicy` of `WekafsAccess`)
   gives a share that is governed by a policy group policies of its own, which
   no later call removes (`driver.py` 1557).
6. *Client groups without a permission* (`GroupsAreBacked` of `NfsAccess`) are
   never removed: groups are looked for through permissions only (`driver.py`
   870, 1193).
7. *A finished copy is given up* (`MissingMeansMidCopy` of `SnapshotCopy`): a
   missing entry is said to mean a restart in the middle of the copy, but a copy
   that had ended and was not yet polled is reported in error too (`driver.py`
   596).
8. *A lost share goes unreported* (`GoneIsReported` of `ShareHealth`) when the
   check of another share ends the sweep otherwise than with `ShareNotFound`, a
   filesystem that went between its lookup and its mount for instance
   (`driver.py` 731). `GoneIsNoticed` is what remains: a later sweep finds it.

The following no property states; the models have the behaviour, and the
properties name it where they leave it out:

9. *A health check creates an organization.* `ensure_shares` looks the
   organization up and then opens it; deleted in between, it is made anew,
   empty, although the check "must stay side-effect free" (`driver.py`
   744-746).
10. *A snapshot that exists is refused.* A POST that is sent again after a lost
    answer is answered 409, which `create_snapshot` raises (`driver.py` 1232);
    `docs/architecture.md` 111-113 promises otherwise of every create.
    `LostAnswersAreAbsorbed` leaves it out, `ShareContract` allows a failed
    call with its effect done.
11. *An adopted NFS share is always reported lost.* It keeps its filesystem's
    name, and `ensure_shares` looks for the generated one (`driver.py` 719,
    739, 754): every sweep returns `STATUS_ERROR` for it though its filesystem
    is there. `NoFalseAlarm` leaves adopted shares out.
12. *A DevStack that is not complete has no marker.* Several failures after
    stack.sh only warn (`ci/full-redeploy.sh` 359, 371, 424-426, 567-570,
    579-581, 647-653); the redeploy ends well and takes the marker away,
    although no job is to vote "over a broken DevStack" (its lines 109-112,
    `ci/ci-runner.sh` 103-106). The marker itself is written with `|| true`
    (119-122), and may be missing where the disk is full.
    `TestsAreSound` and `BrokenIsMarked` are about half built DevStacks, and
    leave out those that could not be marked.
13. *The listener may stay off.* The exit trap ignores a start that fails
    (126), and a stop that fails (169) lets the teardown go on beside a running
    listener, although a failed redeploy "never leaves the CI offline"
    (106-107).
14. *A trigger that nobody answers.* `run_job` logs an exception
    (`ci/gerrit-listener.py` 243-244) and posts nothing; the patchset stays
    recorded as tested. It is `lost` in the model, like one whose post failed.
15. *A full disk marks a good DevStack.* A redeploy that is stopped before the
    teardown sets the marker although `ci/full-redeploy.sh` 149-150 says that
    the previous DevStack goes on serving.
16. *Two jobs at once.* The tempest of a job that timed out may still run when
    the next job starts, although `run_job` promises "serial execution" (197).

## 7. Plan

Done: every module of section 2 with its runs; all safety properties, the three
refinements and most liveness properties proved. What would add most from here,
proofs first:

1. `ShareHealth`: `GoneIsNoticed` for one sweep under weak fairness of its own
   steps, with the lock of a mount point given back as in the other modules
   (`HoldersDoNotWait` is the safety half).
2. `ApiSession`: `CallsEnd` for a thread that meets a strongly fair lock.
3. An abstract specification of the clone (`SnapshotCopy`): it is asked for and
   becomes available with all of the snapshot, or ends in error with nothing
   left; likewise one of the CI (each trigger is answered once).
4. A composition of `OrgProvisioning` with `ApiSession`: the token file, a
   cached client whose tokens another thread refreshes, the torn pair of
   `auth_token_payload`, and the failing shares of a deleted organization.
5. Two shares over one cluster whose ids agree in eight characters: access
   rules and policies found by name (`driver.py` 942).
6. The runs for the divergences 9 to 16 of section 6, each with one property
   that states the promise.
7. `SnapshotCopy` beside `ShareHealth`: sweeps mount a clone that is being
   filled. Pure algorithms: address conversion, policy-group parsing, capacity.
