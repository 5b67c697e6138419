-------------------------- MODULE ApiSessionProofs --------------------------
(***************************************************************************)
(* Proofs about ApiSession, for any threads, numbers and bounds.           *)
(***************************************************************************)
EXTENDS ApiSession, TLAPS

(***************************************************************************)
(* The inductive invariant.                                                *)
(***************************************************************************)

\* The lock is held by the one thread that stands where it is needed.
LockInv == \A t \in Threads : pc[t] \in Critical <=> holder = t

\* No request was sent with a token newer than the stored one, a thread
\* about to send again was refused an older one, and an answer that is not
\* stored yet is newer than what is stored.
TokenInv ==
    /\ access <= issued
    /\ \A t \in Threads :
          /\ used[t] <= access
          /\ pc[t] = "resend" => used[t] < access
          /\ pc[t] \in {"refreshed", "logged_in"} =>
                got[t].access > access /\ got[t].access <= issued

\* What is left of the lockout is slept out by the thread with the lock.
SleepInv ==
    told > 0 => \E t \in Threads :
        holder = t /\ pc[t] = "locked" /\ told <= sleep[t]

\* The loop of _request goes round only while an attempt is left.
RetryInv == \A t \in Threads : pc[t] = "backoff" => attempt[t] < MaxRetries

IInv == TypeOK /\ RetryInv /\ LockInv /\ TokenInv /\ SleepInv

-----------------------------------------------------------------------------
(***************************************************************************)
(* A sleep is no longer than the cap, and as long as the lockout unless    *)
(* the cap is in the way.                                                  *)
(***************************************************************************)
LEMMA BackOffBounds ==
    ASSUME NEW d \in Nat
    PROVE  /\ BackOff(d) \in 0..Cap
           /\ d > 0 /\ d <= Cap => d <= BackOff(d)
BY NumbersAssumption DEF BackOff

(***************************************************************************)
(* Types are kept.                                                         *)
(***************************************************************************)
LEMMA TypeStep == TypeOK /\ RetryInv /\ [Next]_vars => TypeOK'
<1> SUFFICES ASSUME TypeOK, RetryInv, [Next]_vars PROVE TypeOK'
    OBVIOUS
<1> USE NumbersAssumption DEF TypeOK, Critical, tokens, cluster, clock, Go,
        Release
<1>1. ASSUME NEW t \in Threads, Login(t) \/ Request(t) PROVE TypeOK'
    <2>1. CASE Login(t)
        BY <2>1 DEF Login
    <2>2. CASE Request(t)
        BY <2>2 DEF Request
    <2> QED
        BY <1>1, <2>1, <2>2
<1>2. ASSUME NEW t \in Threads, Send(t) PROVE TypeOK'
    BY <1>2 DEF Send
<1>3. ASSUME NEW t \in Threads, Answered(t) \/ Refused(t) PROVE TypeOK'
    BY <1>3 DEF Answered, Refused
<1>4. ASSUME NEW t \in Threads, Fails(t) PROVE TypeOK'
    BY <1>4 DEF Fails, Event, Transient
<1>5. ASSUME NEW t \in Threads, Retry(t) PROVE TypeOK'
    BY <1>5 DEF Retry, RetryInv
<1>6. ASSUME NEW t \in Threads, Acquire(t) PROVE TypeOK'
    BY <1>6 DEF Acquire
<1>7. ASSUME NEW t \in Threads, Refresh(t) \/ LoggedIn(t) PROVE TypeOK'
    <2>1. /\ issued' \in Nat
          /\ live' \in SUBSET (1..issued')
          /\ liveRefresh' \in SUBSET (1..issued')
        <3>1. /\ issued' = issued + 1
              /\ live' = live \cup {issued + 1}
              /\ liveRefresh' \subseteq liveRefresh \cup {issued + 1}
            BY <1>7 DEF Refresh, LoggedIn, Issue
        <3>2. 1..issued \subseteq 1..issued + 1 /\ issued + 1 \in 1..issued + 1
            OBVIOUS
        <3> QED
            BY <3>1, <3>2
    <2>2. got' \in [Threads -> Pair]
        BY <1>7, <2>1 DEF Refresh, LoggedIn, Issue, Pair
    <2> QED
        BY <1>7, <2>1, <2>2 DEF Refresh, LoggedIn
<1>8. ASSUME NEW t \in Threads, RefreshFails(t) PROVE TypeOK'
    BY <1>8 DEF RefreshFails, Event
<1>9. ASSUME NEW t \in Threads, Store(t) PROVE TypeOK'
    BY <1>9 DEF Store, Pair
<1>10. ASSUME NEW t \in Threads, LoginFails(t) PROVE TypeOK'
    BY <1>10 DEF LoginFails, Event, Transient
<1>11. ASSUME NEW t \in Threads, LockedOut(t) PROVE TypeOK'
    BY <1>11, BackOffBounds DEF LockedOut
<1>12. ASSUME NEW t \in Threads, Wake(t) PROVE TypeOK'
    BY <1>12 DEF Wake
<1>13. CASE Tick
    BY <1>13 DEF Tick, Less
<1>14. CASE Expire \/ LockOut
    <2>1. events' \in 0..MaxEvents
        BY <1>14 DEF Expire, LockOut, Event
    <2>2. CASE Expire
        <3>1. live' \subseteq live /\ liveRefresh' \subseteq liveRefresh
            BY <2>2 DEF Expire
        <3> QED
            BY <2>1, <2>2, <3>1 DEF Expire
    <2>3. CASE LockOut
        <3>1. lockedFor' \in 0..MaxLockout
            BY <2>3 DEF LockOut
        <3> QED
            BY <2>1, <2>3, <3>1 DEF LockOut
    <2> QED
        BY <1>14, <2>2, <2>3
<1>15. CASE UNCHANGED vars
    BY <1>15 DEF vars
<1> QED
    BY <1>1, <1>2, <1>3, <1>4, <1>5, <1>6, <1>7, <1>8, <1>9, <1>10, <1>11,
       <1>12, <1>13, <1>14, <1>15 DEF Next, Work

(***************************************************************************)
(* The lock excludes: it is taken when free, and released by its holder.   *)
(***************************************************************************)
LEMMA LockStep == TypeOK /\ LockInv /\ [Next]_vars => LockInv'
<1> SUFFICES ASSUME TypeOK, LockInv, [Next]_vars PROVE LockInv'
    OBVIOUS
<1> USE ThreadsAssumption DEF TypeOK, LockInv, Critical, Go, Release
<1>1. ASSUME NEW t \in Threads, Login(t) \/ Request(t) PROVE LockInv'
    BY <1>1 DEF Login, Request
<1>2. ASSUME NEW t \in Threads,
             Send(t) \/ Answered(t) \/ Refused(t) \/ Retry(t)
      PROVE  LockInv'
    BY <1>2 DEF Send, Answered, Refused, Retry
<1>3. ASSUME NEW t \in Threads, Fails(t) PROVE LockInv'
    BY <1>3 DEF Fails, Transient
<1>4. ASSUME NEW t \in Threads, Acquire(t) PROVE LockInv'
    BY <1>4 DEF Acquire
<1>5. ASSUME NEW t \in Threads, Refresh(t) \/ LoggedIn(t) PROVE LockInv'
    BY <1>5 DEF Refresh, LoggedIn
<1>6. ASSUME NEW t \in Threads, RefreshFails(t) \/ LockedOut(t)
      PROVE  LockInv'
    BY <1>6 DEF RefreshFails, LockedOut
<1>7. ASSUME NEW t \in Threads, Store(t) \/ Wake(t) PROVE LockInv'
    BY <1>7 DEF Store, Wake
<1>8. ASSUME NEW t \in Threads, LoginFails(t) PROVE LockInv'
    BY <1>8 DEF LoginFails, Transient
<1>9. CASE Tick \/ Expire \/ LockOut
    BY <1>9 DEF Tick, Expire, LockOut
<1>10. CASE UNCHANGED vars
    BY <1>10 DEF vars
<1> QED
    BY <1>1, <1>2, <1>3, <1>4, <1>5, <1>6, <1>7, <1>8, <1>9, <1>10
       DEF Next, Work

(***************************************************************************)
(* Only Store changes the stored token, and it stores a newer one.         *)
(***************************************************************************)
LEMMA AccessStep ==
    TypeOK /\ TokenInv /\ [Next]_vars => access' = access \/ access' > access
<1> SUFFICES ASSUME TypeOK, TokenInv, [Next]_vars
             PROVE  access' = access \/ access' > access
    OBVIOUS
<1>1. ASSUME NEW t \in Threads, Store(t) PROVE access' > access
    BY <1>1 DEF Store, TokenInv
<1>2. ASSUME NEW t \in Threads, Login(t) \/ Request(t) \/ Work(t), ~Store(t)
      PROVE  access' = access
    BY <1>2 DEF tokens, Login, Request, Work, Send, Answered, Refused, Fails,
                Retry, Acquire, Refresh, RefreshFails, LoggedIn, LoginFails,
                LockedOut, Wake
<1>3. CASE Tick \/ Expire \/ LockOut
    BY <1>3 DEF tokens, Tick, Expire, LockOut
<1>4. CASE UNCHANGED vars
    BY <1>4 DEF vars
<1> QED
    BY <1>1, <1>2, <1>3, <1>4 DEF Next, Work

(***************************************************************************)
(* Token ages are kept.  Store is the step to look at: the answers of      *)
(* other threads would be overtaken by it, and the lock says that there    *)
(* are none.                                                               *)
(***************************************************************************)
LEMMA TokenStep ==
    TypeOK /\ LockInv /\ TokenInv /\ [Next]_vars => TokenInv'
<1> SUFFICES ASSUME TypeOK, LockInv, TokenInv, [Next]_vars PROVE TokenInv'
    OBVIOUS
<1> USE DEF TypeOK, TokenInv, Critical, tokens, cluster, clock, Go, Release
<1>1. ASSUME NEW t \in Threads, Login(t) \/ Request(t) PROVE TokenInv'
    BY <1>1 DEF Login, Request
<1>2. ASSUME NEW t \in Threads, Send(t) PROVE TokenInv'
    BY <1>2 DEF Send
<1>3. ASSUME NEW t \in Threads, Answered(t) \/ Refused(t) \/ Retry(t)
      PROVE  TokenInv'
    BY <1>3 DEF Answered, Refused, Retry
<1>4. ASSUME NEW t \in Threads, Fails(t) PROVE TokenInv'
    BY <1>4 DEF Fails, Transient
<1>5. ASSUME NEW t \in Threads, Acquire(t) PROVE TokenInv'
    BY <1>5 DEF Acquire
<1>6. ASSUME NEW t \in Threads, Refresh(t) \/ LoggedIn(t) PROVE TokenInv'
    <2>1. issued' = issued + 1 /\ access' = access /\ used' = used
        BY <1>6 DEF Refresh, LoggedIn, Issue
    <2>2. \E p \in Pair : p.access = issued + 1
                          /\ got' = [got EXCEPT ![t] = p]
        BY <1>6 DEF Refresh, LoggedIn, Issue, Pair
    <2>3. \E x \in {"refreshed", "logged_in"} : pc' = [pc EXCEPT ![t] = x]
        BY <1>6 DEF Refresh, LoggedIn
    <2>4. got'[t].access = issued + 1
        BY <2>2
    <2>5. \A u \in Threads : u # t => got'[u] = got[u] /\ pc'[u] = pc[u]
        BY <2>2, <2>3
    <2>6. pc'[t] # "resend"
        BY <2>3
    <2> QED
        BY <2>1, <2>4, <2>5, <2>6 DEF Pair
<1>7. ASSUME NEW t \in Threads, RefreshFails(t) \/ LockedOut(t) \/ Wake(t)
      PROVE  TokenInv'
    BY <1>7 DEF RefreshFails, LockedOut, Wake
<1>8. ASSUME NEW t \in Threads, Store(t) PROVE TokenInv'
    <2>1. /\ access' = got[t].access /\ access' > access
          /\ access' \in Nat /\ access' <= issued
        BY <1>8 DEF Store, Pair
    <2>2. used' = used /\ issued' = issued
        BY <1>8 DEF Store
    <2>3. \A u \in Threads : pc'[u] \notin {"refreshed", "logged_in"}
        BY <1>8 DEF Store, LockInv
    <2> QED
        BY <2>1, <2>2, <2>3
<1>9. ASSUME NEW t \in Threads, LoginFails(t) PROVE TokenInv'
    BY <1>9 DEF LoginFails, Transient
<1>10. CASE Tick \/ Expire \/ LockOut
    BY <1>10 DEF Tick, Expire, LockOut
<1>11. CASE UNCHANGED vars
    BY <1>11 DEF vars
<1> QED
    BY <1>1, <1>2, <1>3, <1>4, <1>5, <1>6, <1>7, <1>8, <1>9, <1>10, <1>11
       DEF Next, Work

(***************************************************************************)
(* Only a failure with attempts left makes _request wait for another one.  *)
(***************************************************************************)
LEMMA RetryStep == TypeOK /\ RetryInv /\ [Next]_vars => RetryInv'
<1> SUFFICES ASSUME TypeOK, RetryInv, [Next]_vars PROVE RetryInv'
    OBVIOUS
<1> USE DEF TypeOK, RetryInv, Go
<1>1. ASSUME NEW t \in Threads, Login(t) \/ Request(t) \/ Retry(t)
      PROVE  RetryInv'
    BY <1>1 DEF Login, Request, Retry
<1>2. ASSUME NEW t \in Threads,
             Send(t) \/ Answered(t) \/ Refused(t) \/ Acquire(t)
      PROVE  RetryInv'
    BY <1>2 DEF Send, Answered, Refused, Acquire
<1>3. ASSUME NEW t \in Threads, Fails(t) \/ LoginFails(t) PROVE RetryInv'
    BY <1>3 DEF Fails, LoginFails, Transient
<1>4. ASSUME NEW t \in Threads,
             Refresh(t) \/ LoggedIn(t) \/ RefreshFails(t)
      PROVE  RetryInv'
    BY <1>4 DEF Refresh, LoggedIn, RefreshFails
<1>5. ASSUME NEW t \in Threads, Store(t) \/ LockedOut(t) \/ Wake(t)
      PROVE  RetryInv'
    BY <1>5 DEF Store, LockedOut, Wake
<1>6. CASE Tick \/ Expire \/ LockOut
    BY <1>6 DEF Tick, Expire, LockOut
<1>7. CASE UNCHANGED vars
    BY <1>7 DEF vars
<1> QED
    BY <1>1, <1>2, <1>3, <1>4, <1>5, <1>6, <1>7 DEF Next, Work

(***************************************************************************)
(* The sleep of the thread with the lock covers what is left of the        *)
(* lockout: the clock takes as much from both, a thread wakes when nothing *)
(* is left, and nobody else can be refused a login meanwhile.              *)
(***************************************************************************)
LEMMA SleepStep ==
    TypeOK /\ LockInv /\ SleepInv /\ [Next]_vars => SleepInv'
<1> SUFFICES ASSUME TypeOK, LockInv, SleepInv, [Next]_vars, told' > 0
             PROVE  \E t \in Threads : /\ holder' = t /\ pc'[t] = "locked"
                                       /\ told' <= sleep'[t]
    BY DEF SleepInv
<1>1. ASSUME NEW t \in Threads, LockedOut(t), told' # told
      PROVE  holder' = t /\ pc'[t] = "locked" /\ told' <= sleep'[t]
    <2>1. /\ told' = lockedFor /\ lockedFor \in Nat
          /\ lockedFor > 0 /\ lockedFor <= Cap
          /\ sleep' = [sleep EXCEPT ![t] = BackOff(lockedFor)]
        BY <1>1, NumbersAssumption DEF LockedOut, TypeOK
    <2>2. holder' = t /\ pc'[t] = "locked"
        BY <1>1 DEF LockedOut, LockInv, Critical, Go, TypeOK
    <2> QED
        BY <2>1, <2>2, BackOffBounds DEF TypeOK
<1>2. CASE Tick
    <2>1. told \in Nat /\ told > 0 /\ told' = told - 1
        BY <1>2, NumbersAssumption DEF Tick, Less, TypeOK
    <2>2. PICK t \in Threads :
             holder = t /\ pc[t] = "locked" /\ told <= sleep[t]
        BY <2>1 DEF SleepInv
    <2>3. sleep[t] \in Nat /\ sleep'[t] = Less(sleep[t])
        BY <1>2, NumbersAssumption DEF Tick, TypeOK
    <2>4. told' <= sleep'[t]
        BY <2>1, <2>2, <2>3 DEF Less
    <2> QED
        BY <1>2, <2>2, <2>4 DEF Tick
<1>3. ASSUME told' = told, ~Tick
      PROVE  \E t \in Threads : /\ holder' = t /\ pc'[t] = "locked"
                                /\ told' <= sleep'[t]
    <2>1. PICK t \in Threads :
             holder = t /\ pc[t] = "locked" /\ told <= sleep[t]
        BY <1>3 DEF SleepInv
    <2>2. told \in Nat /\ sleep[t] \in Nat /\ sleep[t] > 0
        BY <1>3, <2>1, NumbersAssumption DEF TypeOK
    <2>3. holder' = holder /\ pc'[t] = pc[t] /\ sleep'[t] = sleep[t]
        <3> USE ThreadsAssumption
            DEF TypeOK, LockInv, Critical, clock, Go, Release
        <3>1. ASSUME NEW u \in Threads, Login(u) \/ Request(u) \/ Send(u)
              PROVE  holder' = holder /\ pc'[t] = pc[t]
                     /\ sleep'[t] = sleep[t]
            BY <2>1, <3>1 DEF Login, Request, Send
        <3>2. ASSUME NEW u \in Threads,
                     Answered(u) \/ Refused(u) \/ Fails(u) \/ Retry(u)
              PROVE  holder' = holder /\ pc'[t] = pc[t]
                     /\ sleep'[t] = sleep[t]
            BY <2>1, <3>2 DEF Answered, Refused, Fails, Transient, Retry
        <3>3. ASSUME NEW u \in Threads,
                     \/ Acquire(u) \/ Refresh(u) \/ RefreshFails(u)
                     \/ LoggedIn(u) \/ LoginFails(u) \/ Store(u)
                     \/ LockedOut(u)
              PROVE  FALSE
            BY <2>1, <3>3 DEF Acquire, Refresh, RefreshFails, LoggedIn,
                              LoginFails, Store, LockedOut
        <3>4. ASSUME NEW u \in Threads, Wake(u) PROVE FALSE
            BY <2>1, <2>2, <3>4 DEF Wake
        <3>5. CASE Expire \/ LockOut
            BY <3>5 DEF Expire, LockOut
        <3>6. CASE UNCHANGED vars
            BY <3>6 DEF vars
        <3> QED
            BY <1>3, <3>1, <3>2, <3>3, <3>4, <3>5, <3>6 DEF Next, Work
    <2> QED
        BY <1>3, <2>1, <2>3
<1>4. told' = told \/ Tick \/ \E t \in Threads : LockedOut(t) /\ told' # told
    <2>1. ASSUME NEW t \in Threads, Login(t) \/ Request(t) \/ Work(t),
                 ~LockedOut(t)
          PROVE  told' = told
        BY <2>1 DEF clock, Login, Request, Work, Send, Answered, Refused,
                    Fails, Retry, Acquire, Refresh, RefreshFails, LoggedIn,
                    LoginFails, Store, Wake
    <2>2. CASE Expire \/ LockOut \/ UNCHANGED vars
        BY <2>2 DEF Expire, LockOut, clock, vars
    <2> QED
        BY <2>1, <2>2 DEF Next, Work
<1> QED
    BY <1>1, <1>2, <1>3, <1>4

-----------------------------------------------------------------------------
(***************************************************************************)
(* The inductive invariant holds in every reachable state.                 *)
(***************************************************************************)
THEOREM Invariance == Spec => []IInv
<1>1. Init => IInv
    BY NumbersAssumption, ThreadsAssumption
       DEF Init, IInv, TypeOK, RetryInv, LockInv, TokenInv, SleepInv,
           Critical, Pair
<1>2. IInv /\ [Next]_vars => IInv'
    BY TypeStep, RetryStep, LockStep, TokenStep, SleepStep DEF IInv
<1> QED
    BY <1>1, <1>2, PTL DEF Spec

(***************************************************************************)
(* Every variable keeps its type: in particular _request makes no more     *)
(* than max_retries + 1 attempts.                                          *)
(***************************************************************************)
THEOREM TypeCorrect == Spec => []TypeOK
<1>1. IInv => TypeOK
    BY DEF IInv
<1> QED
    BY <1>1, Invariance, PTL

(***************************************************************************)
(* _access_token is never overwritten with an older token.                 *)
(***************************************************************************)
THEOREM TokenNeverRegresses == Spec => TokenMovesForward
<1>1. IInv /\ [Next]_vars => [access' >= access]_vars
    <2> SUFFICES ASSUME IInv, [Next]_vars PROVE access' >= access
        OBVIOUS
    <2> QED
        BY AccessStep, TypeStep DEF IInv, TypeOK
<1> QED
    BY <1>1, Invariance, PTL DEF Spec, TokenMovesForward

(***************************************************************************)
(* _request sends a refused request again with a newer token.              *)
(***************************************************************************)
THEOREM RefusedGetsNewToken == Spec => ResentWithNewToken
<1> DEFINE Resent ==
        \A t \in Threads :
            pc[t] = "resend" /\ pc'[t] = "resent" => used'[t] > used[t]
<1>1. IInv /\ [Next]_vars => [Resent]_vars
    <2> SUFFICES ASSUME IInv, [Next]_vars,
                        NEW t \in Threads,
                        pc[t] = "resend", pc'[t] = "resent"
                 PROVE  used'[t] > used[t]
        OBVIOUS
    <2>1. Send(t)
        <3> USE DEF IInv, TypeOK, Go
        <3>1. ASSUME NEW u \in Threads, Login(u) \/ Request(u) PROVE FALSE
            BY <3>1 DEF Login, Request
        <3>2. ASSUME NEW u \in Threads, Work(u), ~Send(u) PROVE FALSE
            BY <3>2 DEF Work, Answered, Refused, Fails, Transient, Retry,
                        Acquire, Refresh, RefreshFails, LoggedIn, LoginFails,
                        Store, LockedOut, Wake
        <3>3. ASSUME NEW u \in Threads, Send(u), u # t PROVE FALSE
            BY <3>3 DEF Send
        <3>4. CASE Tick \/ Expire \/ LockOut \/ UNCHANGED vars
            BY <3>4 DEF Tick, Expire, LockOut, vars
        <3> QED
            BY <3>1, <3>2, <3>3, <3>4 DEF Next
    <2> QED
        BY <2>1 DEF Send, IInv, TypeOK, TokenInv
<1> QED
    BY <1>1, Invariance, PTL DEF Spec, ResentWithNewToken

(***************************************************************************)
(* No login is on its way while a lockout the client was told of lasts.    *)
(***************************************************************************)
THEOREM LockoutIsSleptOut == Spec => []NoLoginIntoLockout
<1>1. IInv => NoLoginIntoLockout
    BY DEF IInv, LockInv, SleepInv, NoLoginIntoLockout, Critical
<1> QED
    BY <1>1, Invariance, PTL

-----------------------------------------------------------------------------
(***************************************************************************)
(* Progress.  A call makes a bounded number of steps, whatever the other   *)
(* threads do in between: each attempt passes every place once at most.    *)
(***************************************************************************)
Place ==
    [p \in {"idle", "send", "sent", "want", "resend", "resent", "backoff"}
              \cup Critical |->
        CASE p = "send"    -> 9 [] p = "sent"  -> 8 [] p = "want"   -> 7
          [] p = "refresh" -> 6 [] p = "login" -> 5
          [] p \in {"refreshed", "logged_in", "locked"} -> 4
          [] p = "resend"  -> 3 [] p = "resent" -> 2 [] p = "backoff" -> 1
          [] OTHER -> 0]

\* The most steps that the call of a thread has yet to make.
StepsLeft(t) == 10 * (MaxRetries - attempt[t]) + Place[pc[t]]

(***************************************************************************)
(* The number is bounded.                                                  *)
(***************************************************************************)
LEMMA StepsBound ==
    ASSUME NEW p \in DOMAIN Place, NEW a \in 0..MaxRetries
    PROVE  /\ Place[p] \in 0..9
           /\ 10 * (MaxRetries - a) + Place[p] \in 0..(10 * MaxRetries + 9)
<1>1. Place[p] \in 0..9
    BY DEF Place
<1> QED
    BY <1>1, NumbersAssumption

(***************************************************************************)
(* A step of a thread leaves its call fewer steps, and the others theirs.  *)
(***************************************************************************)
LEMMA WorkAdvances ==
    ASSUME TypeOK, TypeOK', RetryInv, NEW u \in Threads, Work(u)
    PROVE  /\ StepsLeft(u)' < StepsLeft(u)
           /\ \A t \in Threads \ {u} :
                  pc'[t] = pc[t] /\ attempt'[t] = attempt[t]
<1> DEFINE Fewer ==
        /\ \/ attempt' = attempt /\ Place[pc'[u]] < Place[pc[u]]
           \/ pc[u] = "backoff" /\ pc'[u] = "send"
              /\ attempt'[u] = attempt[u] + 1
        /\ \A t \in Threads \ {u} :
               pc'[t] = pc[t] /\ attempt'[t] = attempt[t]
<1>1. Fewer
    <2> USE DEF TypeOK, Critical, Go, Place
    <2>1. CASE Send(u) \/ Answered(u) \/ Refused(u)
        BY <2>1 DEF Send, Answered, Refused
    <2>2. CASE Fails(u)
        BY <2>2 DEF Fails, Transient
    <2>3. CASE Retry(u)
        BY <2>3 DEF Retry
    <2>4. CASE Acquire(u)
        BY <2>4 DEF Acquire
    <2>5. CASE Refresh(u) \/ RefreshFails(u) \/ LoggedIn(u)
        BY <2>5 DEF Refresh, RefreshFails, LoggedIn
    <2>6. CASE LoginFails(u)
        BY <2>6 DEF LoginFails, Transient
    <2>7. CASE Store(u) \/ LockedOut(u) \/ Wake(u)
        BY <2>7 DEF Store, LockedOut, Wake
    <2> QED
        BY <2>1, <2>2, <2>3, <2>4, <2>5, <2>6, <2>7 DEF Work
<1>2. attempt[u] \in 0..MaxRetries /\ Place[pc[u]] \in 0..9
    BY StepsBound DEF TypeOK, Place
<1>3. CASE attempt' = attempt /\ Place[pc'[u]] < Place[pc[u]]
    <2>1. Place[pc'[u]] \in 0..9
        BY DEF TypeOK, Place
    <2> QED
        BY <1>1, <1>2, <1>3, <2>1, NumbersAssumption DEF StepsLeft
<1>4. CASE pc[u] = "backoff" /\ pc'[u] = "send" /\ attempt'[u] = attempt[u] + 1
    BY <1>1, <1>2, <1>4, NumbersAssumption DEF StepsLeft, Place, Critical
<1> QED
    BY <1>1, <1>3, <1>4

\* A call that is under way has fewer steps left after each of its own.
CallAdvances ==
    \A t \in Threads :
        pc[t] # "idle" =>
            /\ StepsLeft(t)' <= StepsLeft(t)
            /\ StepsLeft(t) \in 0..(10 * MaxRetries + 9)
            /\ Work(t) => StepsLeft(t)' < StepsLeft(t)

(***************************************************************************)
(* Every step a thread makes in a call brings its end nearer, no other     *)
(* step puts it off, and there are 10 * MaxRetries + 9 at most: no retry   *)
(* and no refresh goes on for ever.                                        *)
(***************************************************************************)
THEOREM CallsAdvance == Spec => [][CallAdvances]_vars
<1>1. IInv /\ IInv' /\ [Next]_vars => [CallAdvances]_vars
    <2> SUFFICES ASSUME IInv, IInv', [Next]_vars,
                        NEW t \in Threads, pc[t] # "idle"
                 PROVE  /\ StepsLeft(t)' <= StepsLeft(t)
                        /\ StepsLeft(t) \in 0..(10 * MaxRetries + 9)
                        /\ Work(t) => StepsLeft(t)' < StepsLeft(t)
        BY DEF CallAdvances
    <2>1. /\ StepsLeft(t) \in 0..(10 * MaxRetries + 9)
          /\ StepsLeft(t)' \in 0..(10 * MaxRetries + 9)
        <3>1. /\ pc[t] \in DOMAIN Place /\ attempt[t] \in 0..MaxRetries
              /\ pc'[t] \in DOMAIN Place /\ attempt'[t] \in 0..MaxRetries
            BY DEF IInv, TypeOK, Place
        <3> QED
            BY <3>1, StepsBound DEF StepsLeft
    <2>2. Work(t) => StepsLeft(t)' < StepsLeft(t)
        BY WorkAdvances DEF IInv
    <2>3. Work(t) \/ (pc'[t] = pc[t] /\ attempt'[t] = attempt[t])
        <3>1. ASSUME NEW u \in Threads, Work(u)
              PROVE  Work(t) \/ (pc'[t] = pc[t] /\ attempt'[t] = attempt[t])
            BY <3>1, WorkAdvances DEF IInv
        <3>2. ASSUME NEW u \in Threads, Login(u) \/ Request(u)
              PROVE  pc'[t] = pc[t] /\ attempt'[t] = attempt[t]
            BY <3>2 DEF Login, Request, Go, IInv, TypeOK
        <3>3. CASE Tick \/ Expire \/ LockOut \/ UNCHANGED vars
            BY <3>3 DEF Tick, Expire, LockOut, vars
        <3> QED
            BY <3>1, <3>2, <3>3 DEF Next
    <2> QED
        BY <2>1, <2>2, <2>3 DEF StepsLeft
<1> QED
    BY <1>1, Invariance, PTL DEF Spec

-----------------------------------------------------------------------------
\* Where the thread that holds the lock stands: it refreshes the token, logs
\* in, sleeps out a lockout, or is about to give the lock back.
Refreshing(t) == pc[t] = "refresh"
LoggingIn(t)  == pc[t] = "login"
Asleep(t)     == pc[t] = "locked" /\ sleep[t] > 0
Closing(t)    == pc[t] \in {"refreshed", "logged_in", "locked"} /\ ~Asleep(t)
Holds(t)      == holder = t

\* What enables it.
HolderCanGoOn(t) ==
    pc[t] \in Critical /\ ~Asleep(t) => ENABLED <<Work(t)>>_vars

(***************************************************************************)
(* The holder of the lock goes on only by its own steps, towards the end;  *)
(* once awake it stays awake.                                              *)
(***************************************************************************)
LEMMA HolderStep ==
    ASSUME NEW t \in Threads, IInv, IInv', [Next]_vars
    PROVE  /\ Refreshing(t) =>
                 \/ Refreshing(t)' /\ ~Work(t)
                 \/ LoggingIn(t)' \/ Closing(t)'
           /\ LoggingIn(t) =>
                 \/ LoggingIn(t)' /\ ~Work(t)
                 \/ Asleep(t)' \/ Closing(t)' \/ ~Holds(t)'
           /\ Asleep(t) => Asleep(t)' \/ Closing(t)' \/ ~Holds(t)'
           /\ Closing(t) => (Closing(t)' /\ ~Work(t)) \/ ~Holds(t)'
<1> DEFINE Stays == pc'[t] = pc[t] /\ (sleep[t] = 0 => sleep'[t] = 0)
<1> USE DEF IInv, TypeOK
<1>1. Work(t) =>
        /\ Refreshing(t) => LoggingIn(t)' \/ Closing(t)'
        /\ LoggingIn(t) => Asleep(t)' \/ Closing(t)' \/ ~Holds(t)'
        /\ Asleep(t) => FALSE
        /\ Closing(t) => ~Holds(t)'
    <2> USE DEF Refreshing, LoggingIn, Asleep, Closing, Holds, Go, Release
    <2>1. CASE Send(t) \/ Answered(t) \/ Refused(t)
        BY <2>1 DEF Send, Answered, Refused
    <2>2. CASE Fails(t) \/ Retry(t) \/ Acquire(t)
        BY <2>2 DEF Fails, Retry, Acquire
    <2>3. CASE Refresh(t) \/ RefreshFails(t)
        BY <2>3 DEF Refresh, RefreshFails
    <2>4. CASE LoggedIn(t)
        BY <2>4 DEF LoggedIn
    <2>5. CASE LoginFails(t)
        BY <2>5, ThreadsAssumption DEF LoginFails
    <2>6. CASE LockedOut(t)
        BY <2>6 DEF LockedOut
    <2>7. CASE Store(t) \/ Wake(t)
        BY <2>7, ThreadsAssumption DEF Store, Wake
    <2> QED
        BY <2>1, <2>2, <2>3, <2>4, <2>5, <2>6, <2>7 DEF Work
<1>2. Work(t) \/ Stays \/ pc[t] = "idle"
    <2>1. ASSUME NEW u \in Threads \ {t}, Work(u)
          PROVE  Stays
        <3>1. pc'[t] = pc[t]
            BY <2>1, WorkAdvances
        <3>2. sleep' = sleep \/ LockedOut(u)
            BY <2>1 DEF Work, Send, Answered, Refused, Fails, Retry, Acquire,
               Refresh, RefreshFails, LoggedIn, LoginFails, Store, Wake, clock
        <3> QED
            BY <2>1, <3>1, <3>2 DEF LockedOut
    <2>2. ASSUME NEW u \in Threads, Login(u) \/ Request(u)
          PROVE  Stays \/ pc[t] = "idle"
        BY <2>2 DEF Login, Request, Go, clock
    <2>3. CASE Tick
        BY <2>3 DEF Tick, Less
    <2>4. CASE Expire \/ LockOut \/ UNCHANGED vars
        BY <2>4 DEF Expire, LockOut, vars, clock
    <2> QED
        BY <2>1, <2>2, <2>3, <2>4 DEF Next
<1> QED
    BY <1>1, <1>2
       DEF Refreshing, LoggingIn, Asleep, Closing, LockInv, Critical, Holds

(***************************************************************************)
(* A thread that holds the lock gives it back, if it goes on and its sleep *)
(* comes to an end: no exception and no lockout leaves the lock held.      *)
(***************************************************************************)
THEOREM LockIsGivenBack ==
    ASSUME NEW t \in Threads
    PROVE  Spec /\ WF_vars(Work(t)) /\ []HolderCanGoOn(t)
           /\ (Asleep(t) ~> ~Asleep(t))
           => (Holds(t) ~> ~Holds(t))
<1>1. IInv /\ Holds(t) =>
          Refreshing(t) \/ LoggingIn(t) \/ Asleep(t) \/ Closing(t)
    BY DEF IInv, LockInv, Critical, Holds, Refreshing, LoggingIn, Asleep,
       Closing
<1>2. IInv /\ IInv' /\ [Next]_vars /\ Refreshing(t) =>
          \/ Refreshing(t)' /\ ~<<Work(t)>>_vars
          \/ LoggingIn(t)' \/ Closing(t)'
    BY HolderStep
<1>3. IInv /\ IInv' /\ [Next]_vars /\ LoggingIn(t) =>
          \/ LoggingIn(t)' /\ ~<<Work(t)>>_vars
          \/ Asleep(t)' \/ Closing(t)' \/ ~Holds(t)'
    BY HolderStep
<1>4. IInv /\ IInv' /\ [Next]_vars /\ Asleep(t) =>
          Asleep(t)' \/ Closing(t)' \/ ~Holds(t)'
    BY HolderStep
<1>5. IInv /\ IInv' /\ [Next]_vars /\ Closing(t) =>
          (Closing(t)' /\ ~<<Work(t)>>_vars) \/ ~Holds(t)'
    BY HolderStep
<1>6. HolderCanGoOn(t) /\ (Refreshing(t) \/ LoggingIn(t) \/ Closing(t)) =>
          ENABLED <<Work(t)>>_vars
    BY DEF HolderCanGoOn, Refreshing, LoggingIn, Closing, Asleep, Critical
<1>7. Closing(t) => ~Asleep(t)
    BY DEF Closing
<1> QED
    BY <1>1, <1>2, <1>3, <1>4, <1>5, <1>6, <1>7, Invariance, PTL DEF Spec
=============================================================================
