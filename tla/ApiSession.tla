----------------------------- MODULE ApiSession -----------------------------
(***************************************************************************)
(* WekaApiClient: the threads of a manila-share process send requests      *)
(* through one client.  They share its token pair; a request answered 401  *)
(* replaces the pair, under a lock, and is sent once more; transient       *)
(* failures are retried with growing delays; a login told that the user is *)
(* locked out sleeps before it fails.                                      *)
(*                                                                         *)
(* Tokens are numbered in the order in which the cluster issues them, and  *)
(* 0 is None.  Time passes in units of the lockout delays only; what a     *)
(* request asks for, and the delays between its attempts, are left out.    *)
(***************************************************************************)
EXTENDS Naturals

CONSTANTS
    Threads, NoThread,
    MaxRetries,   \* weka_max_api_retries
    Cap,          \* the longest sleep of a locked out login: 150 s
    Margin,       \* what a login sleeps past the lockout: 5 s
    Usual,        \* a lockout of unknown length: 125 s
    MaxLockout,   \* bound: how long a lockout may last
    MaxEvents     \* bound: expiries, failures and lockouts

ASSUME ThreadsAssumption == NoThread \notin Threads
ASSUME NumbersAssumption ==
    /\ MaxRetries \in Nat /\ Cap \in Nat /\ Margin \in Nat /\ Usual \in Nat
    /\ MaxLockout \in Nat /\ MaxEvents \in Nat

VARIABLES
    pc,           \* where each thread stands
    job,          \* it runs _request, or login
    attempt,      \* the loop variable of its _request
    used,         \* the access token of its last request
    got,          \* the token pair it was answered, not stored yet
    sleep,        \* how much longer it sleeps after a lockout
    access,       \* _access_token
    refresh,      \* _refresh_token
    holder,       \* the thread that holds _token_lock
    \* the cluster
    issued,       \* the token pairs issued so far
    live,         \* the access tokens it accepts
    liveRefresh,  \* the refresh tokens it accepts
    lockedFor,    \* how much longer the user is locked out
    told,         \* what is left of the lockout this client was told of
    events        \* expiries, failures and lockouts so far

tokens  == <<access, refresh>>
cluster == <<issued, live, liveRefresh>>
clock   == <<sleep, lockedFor, told>>
vars == <<pc, job, attempt, used, got, sleep, access, refresh, holder,
          issued, live, liveRefresh, lockedFor, told, events>>

\* Where a thread stands while it holds the lock.
Critical == {"refresh", "refreshed", "login", "logged_in", "locked"}
Pair == [access : Nat, refresh : Nat]

TypeOK ==
    /\ pc \in [Threads -> {"idle", "send", "sent", "want", "resend",
                           "resent", "backoff"} \cup Critical]
    /\ job \in [Threads -> {"request", "login"}]
    /\ attempt \in [Threads -> 0..MaxRetries]
    /\ used \in [Threads -> Nat]
    /\ got \in [Threads -> Pair]
    /\ sleep \in [Threads -> 0..Cap]
    /\ access \in Nat /\ refresh \in Nat
    /\ holder \in Threads \cup {NoThread}
    /\ issued \in Nat
    /\ live \in SUBSET (1..issued) /\ liveRefresh \in SUBSET (1..issued)
    /\ lockedFor \in 0..MaxLockout
    /\ told \in 0..Cap
    /\ events \in 0..MaxEvents

Init ==
    /\ pc = [t \in Threads |-> "idle"]
    /\ job = [t \in Threads |-> "request"]
    /\ attempt = [t \in Threads |-> 0]
    /\ used = [t \in Threads |-> 0]
    /\ got = [t \in Threads |-> [access |-> 0, refresh |-> 0]]
    /\ sleep = [t \in Threads |-> 0]
    /\ access = 0 /\ refresh = 0 /\ holder = NoThread
    /\ issued = 0 /\ live = {} /\ liveRefresh = {}
    /\ lockedFor = 0 /\ told = 0 /\ events = 0

-----------------------------------------------------------------------------
Go(t, place) == pc' = [pc EXCEPT ![t] = place]

Release == holder' = NoThread

\* One of the bounded things that go wrong outside this client.
Event == events < MaxEvents /\ events' = events + 1

\* An exception that _request retries; login lets it through.
Transient(t) ==
    Go(t, IF job[t] = "request" /\ attempt[t] < MaxRetries
          THEN "backoff" ELSE "idle")

-----------------------------------------------------------------------------
(***************************************************************************)
(* login, the first call of every client.  A failed one is repeated on a   *)
(* new client for the same user, which stands where this one stood.        *)
(***************************************************************************)
Login(t) ==
    /\ access = 0 /\ \A u \in Threads : pc[u] = "idle"
    /\ Go(t, "want") /\ job' = [job EXCEPT ![t] = "login"]
    /\ UNCHANGED <<attempt, used, got, holder, events>>
    /\ UNCHANGED tokens /\ UNCHANGED cluster /\ UNCHANGED clock

(***************************************************************************)
(* _request.  The header is built from the token of the moment, without    *)
(* the lock.                                                               *)
(***************************************************************************)
Request(t) ==
    /\ pc[t] = "idle" /\ access # 0
    /\ Go(t, "send") /\ job' = [job EXCEPT ![t] = "request"]
    /\ attempt' = [attempt EXCEPT ![t] = 0]
    /\ UNCHANGED <<used, got, holder, events>>
    /\ UNCHANGED tokens /\ UNCHANGED cluster /\ UNCHANGED clock

Send(t) ==
    /\ \/ pc[t] = "send" /\ Go(t, "sent")
       \/ pc[t] = "resend" /\ Go(t, "resent")
    /\ used' = [used EXCEPT ![t] = access]
    /\ UNCHANGED <<job, attempt, got, holder, events>>
    /\ UNCHANGED tokens /\ UNCHANGED cluster /\ UNCHANGED clock

\* A result, or an error that is not retried: either way the call ends.
Answered(t) ==
    /\ pc[t] \in {"sent", "resent"} /\ used[t] \in live
    /\ Go(t, "idle")
    /\ UNCHANGED <<job, attempt, used, got, holder, events>>
    /\ UNCHANGED tokens /\ UNCHANGED cluster /\ UNCHANGED clock

\* 401 refreshes the token the first time and raises the second time.
Refused(t) ==
    /\ used[t] \notin live
    /\ \/ pc[t] = "sent" /\ Go(t, "want")
       \/ pc[t] = "resent" /\ Go(t, "idle")
    /\ UNCHANGED <<job, attempt, used, got, holder, events>>
    /\ UNCHANGED tokens /\ UNCHANGED cluster /\ UNCHANGED clock

\* 429, 5xx, a timeout or a lost connection; or an answer cut off in the
\* middle, an exception that is not retried.
Fails(t) ==
    /\ pc[t] \in {"sent", "resent"} /\ Event
    /\ Transient(t) \/ Go(t, "idle")
    /\ UNCHANGED <<job, attempt, used, got, holder>>
    /\ UNCHANGED tokens /\ UNCHANGED cluster /\ UNCHANGED clock

Retry(t) ==
    /\ pc[t] = "backoff"
    /\ Go(t, "send") /\ attempt' = [attempt EXCEPT ![t] = @ + 1]
    /\ UNCHANGED <<job, used, got, holder, events>>
    /\ UNCHANGED tokens /\ UNCHANGED cluster /\ UNCHANGED clock

-----------------------------------------------------------------------------
(***************************************************************************)
(* _refresh_or_login, and login, under _token_lock.                        *)
(***************************************************************************)
\* Mutant of Acquire: the token is replaced without the lock.
AcquireAnyway(t) ==
    /\ pc[t] = "want"
    /\ holder' = t
    /\ Go(t, IF job[t] = "request" /\ refresh # 0
             THEN "refresh" ELSE "login")
    /\ UNCHANGED <<job, attempt, used, got, events>>
    /\ UNCHANGED tokens /\ UNCHANGED cluster /\ UNCHANGED clock

Acquire(t) ==
    /\ pc[t] = "want" /\ holder = NoThread
    /\ holder' = t
    /\ Go(t, IF job[t] = "request" /\ refresh # 0
             THEN "refresh" ELSE "login")
    /\ UNCHANGED <<job, attempt, used, got, events>>
    /\ UNCHANGED tokens /\ UNCHANGED cluster /\ UNCHANGED clock

\* The cluster issues an access token, with a refresh token or without.
Issue(t) ==
    /\ issued' = issued + 1
    /\ live' = live \cup {issued'}
    /\ \/ /\ got' = [got EXCEPT ![t] = [access  |-> issued',
                                        refresh |-> issued']]
          /\ liveRefresh' = liveRefresh \cup {issued'}
       \/ /\ got' = [got EXCEPT ![t] = [access |-> issued', refresh |-> 0]]
          /\ UNCHANGED liveRefresh

\* POST /login/refresh succeeds.
Refresh(t) ==
    /\ pc[t] = "refresh" /\ refresh \in liveRefresh
    /\ Issue(t) /\ Go(t, "refreshed")
    /\ UNCHANGED <<job, attempt, used, holder, events>>
    /\ UNCHANGED tokens /\ UNCHANGED clock

\* Mutant of RefreshFails: the failure is swallowed, and nothing follows.
RefreshGivesUp(t) ==
    /\ pc[t] = "refresh"
    /\ \/ refresh \notin liveRefresh /\ UNCHANGED events
       \/ Event
    /\ Go(t, "resend") /\ Release
    /\ UNCHANGED <<job, attempt, used, got>>
    /\ UNCHANGED tokens /\ UNCHANGED cluster /\ UNCHANGED clock

\* Any other answer, or none, leads to a full login under the same lock.
RefreshFails(t) ==
    /\ pc[t] = "refresh"
    /\ \/ refresh \notin liveRefresh /\ UNCHANGED events
       \/ Event
    /\ Go(t, "login")
    /\ UNCHANGED <<job, attempt, used, got, holder>>
    /\ UNCHANGED tokens /\ UNCHANGED cluster /\ UNCHANGED clock

\* POST /login succeeds.
LoggedIn(t) ==
    /\ pc[t] = "login" /\ lockedFor = 0
    /\ Issue(t) /\ Go(t, "logged_in")
    /\ UNCHANGED <<job, attempt, used, holder, events>>
    /\ UNCHANGED tokens /\ UNCHANGED clock

(***************************************************************************)
(* The answer is stored and the lock released.  A refresh keeps the old    *)
(* refresh token if it was given none; a login forgets it.                 *)
(***************************************************************************)
Store(t) ==
    /\ pc[t] \in {"refreshed", "logged_in"}
    /\ access' = got[t].access
    /\ refresh' = IF pc[t] = "refreshed" /\ got[t].refresh = 0
                  THEN refresh ELSE got[t].refresh
    /\ got' = [got EXCEPT ![t] = [access |-> 0, refresh |-> 0]]
    /\ Go(t, IF job[t] = "request" THEN "resend" ELSE "idle") /\ Release
    /\ UNCHANGED <<job, attempt, used, events>>
    /\ UNCHANGED cluster /\ UNCHANGED clock

\* The login is refused, which ends the call, or fails in a way to retry.
LoginFails(t) ==
    /\ pc[t] = "login" /\ Event /\ Release
    /\ Transient(t) \/ Go(t, "idle")
    /\ UNCHANGED <<job, attempt, used, got>>
    /\ UNCHANGED tokens /\ UNCHANGED cluster /\ UNCHANGED clock

\* The sleep after a lockout said to last so long; 0 if it was not said.
BackOff(duration) ==
    LET d == (IF duration = 0 THEN Usual ELSE duration) + Margin
    IN  IF d < Cap THEN d ELSE Cap

\* Mutant of LockedOut: the lock is released before the sleep.
SleepsUnlocked(t) ==
    /\ pc[t] = "login" /\ lockedFor > 0
    /\ sleep' = [sleep EXCEPT ![t] = BackOff(lockedFor)]
    /\ told' = IF lockedFor <= Cap THEN lockedFor ELSE told
    /\ Go(t, "locked") /\ Release
    /\ UNCHANGED <<job, attempt, used, got, lockedFor, events>>
    /\ UNCHANGED tokens /\ UNCHANGED cluster

(***************************************************************************)
(* 403 "locked out": sleep, holding the lock, and then fail for good.  The *)
(* client has been told of the lockout if it could parse its length and    *)
(* the cap lets it sleep that long.                                        *)
(***************************************************************************)
LockedOut(t) ==
    /\ pc[t] = "login" /\ lockedFor > 0
    /\ \/ /\ sleep' = [sleep EXCEPT ![t] = BackOff(lockedFor)]
          /\ told' = IF lockedFor <= Cap THEN lockedFor ELSE told
       \/ /\ sleep' = [sleep EXCEPT ![t] = BackOff(0)]
          /\ UNCHANGED told
    /\ Go(t, "locked")
    /\ UNCHANGED <<job, attempt, used, got, holder, lockedFor, events>>
    /\ UNCHANGED tokens /\ UNCHANGED cluster

\* Mutant of Wake: the exception leaves the lock held.
WakesWithLock(t) ==
    /\ pc[t] = "locked" /\ sleep[t] = 0
    /\ Go(t, "idle")
    /\ UNCHANGED <<job, attempt, used, got, holder, events>>
    /\ UNCHANGED tokens /\ UNCHANGED cluster /\ UNCHANGED clock

Wake(t) ==
    /\ pc[t] = "locked" /\ sleep[t] = 0
    /\ Go(t, "idle") /\ Release
    /\ UNCHANGED <<job, attempt, used, got, events>>
    /\ UNCHANGED tokens /\ UNCHANGED cluster /\ UNCHANGED clock

-----------------------------------------------------------------------------
(***************************************************************************)
(* Time and the cluster.                                                   *)
(***************************************************************************)
Less(n) == IF n = 0 THEN 0 ELSE n - 1

Tick ==
    /\ lockedFor > 0 \/ told > 0 \/ \E t \in Threads : sleep[t] > 0
    /\ lockedFor' = Less(lockedFor) /\ told' = Less(told)
    /\ sleep' = [t \in Threads |-> Less(sleep[t])]
    /\ UNCHANGED <<pc, job, attempt, used, got, holder, events>>
    /\ UNCHANGED tokens /\ UNCHANGED cluster

\* An access or a refresh token runs out, or is revoked.
Expire ==
    /\ Event
    /\ \/ \E n \in live : live' = live \ {n} /\ UNCHANGED liveRefresh
       \/ \E n \in liveRefresh :
              liveRefresh' = liveRefresh \ {n} /\ UNCHANGED live
    /\ UNCHANGED <<pc, job, attempt, used, got, holder, issued>>
    /\ UNCHANGED tokens /\ UNCHANGED clock

\* Failed logins, of this or of another process, lock the user out.
LockOut ==
    /\ Event
    /\ \E n \in 1..MaxLockout : n > lockedFor /\ lockedFor' = n
    /\ UNCHANGED <<pc, job, attempt, used, got, holder, sleep, told>>
    /\ UNCHANGED tokens /\ UNCHANGED cluster

Work(t) ==
    \/ Send(t) \/ Answered(t) \/ Refused(t) \/ Fails(t) \/ Retry(t)
    \/ Acquire(t) \/ Refresh(t) \/ RefreshFails(t) \/ LoggedIn(t)
    \/ LoginFails(t) \/ Store(t) \/ LockedOut(t) \/ Wake(t)

Next ==
    \/ \E t \in Threads : Login(t) \/ Request(t) \/ Work(t)
    \/ Tick \/ Expire \/ LockOut

(***************************************************************************)
(* A thread goes on with its call, and time passes.  The lock is not fair  *)
(* among its waiters; a call still ends because tokens cannot run out      *)
(* without end.                                                            *)
(***************************************************************************)
Fairness == WF_vars(Tick) /\ \A t \in Threads : WF_vars(Work(t))

Spec == Init /\ [][Next]_vars
FairSpec == Spec /\ Fairness

-----------------------------------------------------------------------------
(***************************************************************************)
(* Properties.                                                             *)
(***************************************************************************)

\* The stored access token is never replaced by one issued before it,
\* however the refreshes and logins of several threads overlap: what
\* _token_lock around _refresh_or_login and login is there for.
TokenMovesForward == [][access' >= access]_vars

\* A request refused with 401 is sent again with a token issued after the
\* refused one: each way out of _refresh_or_login without an exception
\* has stored a new token, and no other thread can bring the old one back.
ResentWithNewToken ==
    [][\A t \in Threads :
         pc[t] = "resend" /\ pc'[t] = "resent" => used'[t] > used[t]]_vars

\* No thread of the client sends a login into a lockout the client was told
\* of, as long as the lockout does not exceed the cap: the thread that was
\* told sleeps it out in _do_login while the others wait for the lock.
NoLoginIntoLockout == told > 0 => \A t \in Threads : pc[t] # "login"

\* Every call of the client ends: no exception leaves _token_lock held, no
\* retry goes on for ever, and a locked out login stops sleeping.
CallsEnd == \A t \in Threads : pc[t] # "idle" ~> pc[t] = "idle"
=============================================================================
