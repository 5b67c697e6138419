------------------------ MODULE OrgProvisioningProofs ------------------------
(***************************************************************************)
(* Proofs about OrgProvisioning, for any threads, processes and bounds.    *)
(***************************************************************************)
EXTENDS OrgProvisioning, TLAPS

(***************************************************************************)
(* The inductive invariant.                                                *)
(***************************************************************************)

\* Who provisions holds the lock, and then nothing is cached.
LockInv ==
    /\ \A t \in Threads : pc[t] \in Provisioning => holder[Home[t]] = t
    /\ \A p \in Processes : holder[p] # NoThread => session[p] = 0

\* Places of a thread that has got its client.
Served == InTheOrg \cup {"temp", "dump", "replace", "mount"}

\* A process has put a client in its cache at most once, and every thread
\* past _org_client finds it there.
CacheInv ==
    /\ \A p \in Processes : opened[p] = (IF session[p] = 0 THEN 0 ELSE 1)
    /\ \A t \in Threads : pc[t] \in Served => session[Home[t]] # 0

\* Only a complete temporary file gets the name of the token file.
FileInv ==
    /\ file # "empty"
    /\ \A t \in Threads : /\ pc[t] = "replace" => tmp[t] = "whole"
                          /\ pc[t] = "mount" => file = "whole"

\* What ended well was done in an incarnation of the organization.
DoneInv ==
    \A t \in Threads :
        (pc[t] = "idle" /\ result[t] = "ok" /\ op[t] # "ensure")
            => /\ saw[t] # 0
               /\ saw[t] = org =>
                    (IF op[t] = "rule" THEN "user" ELSE "policy")
                        \in inside

\* The call that each place belongs to.
OpInv ==
    \A t \in Threads :
        /\ pc[t] \in {"lookup", "create", "attach"} => op[t] = "create"
        /\ pc[t] = "user" => op[t] = "rule"
        /\ pc[t] \in {"look", "check", "temp", "dump", "replace", "mount"}
                => op[t] = "ensure"

\* While nothing has gone wrong, the organization stays once it is there.
CalmInv ==
    trouble = 0 =>
        /\ \A p \in Processes : session[p] # 0 => org # 0
        /\ \A t \in Threads :
              /\ pc[t] = "login" => org # 0
              /\ pc[t] = "attach" =>
                    "policy" \in inside /\ saw[t] = org
              /\ result[t] # "failed"

IInv == /\ TypeOK /\ LockInv /\ CacheInv /\ FileInv
        /\ OpInv /\ DoneInv /\ CalmInv

-----------------------------------------------------------------------------
(***************************************************************************)
(* Types are kept.                                                         *)
(***************************************************************************)
LEMMA TypeStep == TypeOK /\ [Next]_vars => TypeOK'
<1> SUFFICES ASSUME TypeOK, [Next]_vars PROVE TypeOK'
    OBVIOUS
<1> USE ThreadsAssumption, BoundsAssumption DEF TypeOK, Places, Provisioning,
        InTheOrg, Go, Ends, cluster, caches
<1>0. CASE UNCHANGED vars
    BY <1>0 DEF vars
<1>1. ASSUME NEW t \in Threads, Begin(t) PROVE TypeOK'
    BY <1>1 DEF Begin
<1>2. ASSUME NEW t \in Threads, Look(t) PROVE TypeOK'
    BY <1>2 DEF Look
<1>3. ASSUME NEW t \in Threads, Lock(t) PROVE TypeOK'
    BY <1>3 DEF Lock, After
<1>4. ASSUME NEW t \in Threads, FindOrg(t) PROVE TypeOK'
    BY <1>4 DEF FindOrg
<1>5. ASSUME NEW t \in Threads, MakeOrg(t) PROVE TypeOK'
    <2>1. /\ made' \in Nat /\ org' \in {0, made'}
          /\ saw' \in [Threads -> 0..made']
          /\ session' \in [Processes -> 0..made']
        <3>1. made' \in Nat /\ made <= made' /\ org' \in {0, made'}
            BY <1>5 DEF MakeOrg, NewOrg
        <3>2. 0..made \subseteq 0..made'
            BY <3>1
        <3> QED
            BY <1>5, <3>1, <3>2 DEF MakeOrg
    <2>2. inside' \in SUBSET {"user", "policy"}
        BY <1>5 DEF MakeOrg, NewOrg
    <2> QED
        BY <1>5, <2>1, <2>2 DEF MakeOrg, NewOrg
<1>6. ASSUME NEW t \in Threads, LoginOrg(t) PROVE TypeOK'
    BY <1>6 DEF LoginOrg, InOrg, Free, After
<1>7. ASSUME NEW t \in Threads, LoginRefused(t) PROVE TypeOK'
    BY <1>7 DEF LoginRefused, Free
<1>8. ASSUME NEW t \in Threads, ProvisioningFails(t) PROVE TypeOK'
    <2>1. /\ made' \in Nat /\ org' \in {0, made'}
          /\ saw' \in [Threads -> 0..made']
          /\ session' \in [Processes -> 0..made']
        <3>1. made' \in Nat /\ made <= made' /\ org' \in {0, made'}
            BY <1>8 DEF ProvisioningFails, NewOrg, Trouble, Free
        <3>2. 0..made \subseteq 0..made'
            BY <3>1
        <3> QED
            BY <1>8, <3>1, <3>2 DEF ProvisioningFails
    <2>2. inside' \in SUBSET {"user", "policy"}
        BY <1>8 DEF ProvisioningFails, NewOrg, Trouble, Free
    <2> QED
        BY <1>8, <2>1, <2>2 DEF ProvisioningFails, NewOrg, Trouble, Free
<1>9. ASSUME NEW t \in Threads, MakeUser(t) PROVE TypeOK'
    BY <1>9 DEF MakeUser, InOrg
<1>10. ASSUME NEW t \in Threads, FindPolicy(t) PROVE TypeOK'
    BY <1>10 DEF FindPolicy, InOrg
<1>11. ASSUME NEW t \in Threads, MakePolicy(t) PROVE TypeOK'
    BY <1>11 DEF MakePolicy, InOrg
<1>12. ASSUME NEW t \in Threads, AttachPolicy(t) PROVE TypeOK'
    BY <1>12 DEF AttachPolicy, InOrg
<1>13. ASSUME NEW t \in Threads, CheckShare(t) PROVE TypeOK'
    BY <1>13 DEF CheckShare, InOrg
<1>14. ASSUME NEW t \in Threads, MakeTemp(t) PROVE TypeOK'
    BY <1>14 DEF MakeTemp
<1>15. ASSUME NEW t \in Threads, DumpToken(t) PROVE TypeOK'
    BY <1>15 DEF DumpToken
<1>16. ASSUME NEW t \in Threads, ReplaceToken(t) PROVE TypeOK'
    BY <1>16 DEF ReplaceToken
<1>17. ASSUME NEW t \in Threads, MountShare(t) PROVE TypeOK'
    BY <1>17 DEF MountShare
<1>18. ASSUME NEW t \in Threads, SessionLost(t) PROVE TypeOK'
    BY <1>18 DEF SessionLost
<1>19. ASSUME NEW t \in Threads, CallFails(t) PROVE TypeOK'
    <2>1. inside' \in SUBSET {"user", "policy"}
        BY <1>19 DEF CallFails
    <2> QED
        BY <1>19, <2>1 DEF CallFails, Trouble
<1>20. ASSUME NEW t \in Threads, StepFails(t) PROVE TypeOK'
    BY <1>20 DEF StepFails, Trouble
<1>21. CASE Reap
    <2>1. /\ made' \in Nat /\ org' \in {0, made'}
          /\ saw' \in [Threads -> 0..made']
          /\ session' \in [Processes -> 0..made']
        <3>1. made' \in Nat /\ made <= made' /\ org' \in {0, made'}
            BY <1>21 DEF Reap, Trouble
        <3>2. 0..made \subseteq 0..made'
            BY <3>1
        <3> QED
            BY <1>21, <3>1, <3>2 DEF Reap
    <2>2. inside' \in SUBSET {"user", "policy"}
        BY <1>21 DEF Reap, Trouble
    <2> QED
        BY <1>21, <2>1, <2>2 DEF Reap, Trouble
<1>22. ASSUME NEW p \in Processes, Crash(p) PROVE TypeOK'
    BY <1>22 DEF Crash, Trouble
<1> QED
    BY <1>0, <1>1, <1>2, <1>3, <1>4, <1>5, <1>6, <1>7, <1>8, <1>9, <1>10,
        <1>11, <1>12, <1>13, <1>14, <1>15, <1>16, <1>17, <1>18, <1>19, <1>20,
        <1>21, <1>22
       DEF Next, Work

(***************************************************************************)
(* The lock is held by the one thread that provisions.                     *)
(***************************************************************************)
LEMMA LockStep == TypeOK /\ LockInv /\ CacheInv /\ [Next]_vars => LockInv'
<1> SUFFICES ASSUME TypeOK, LockInv, CacheInv, [Next]_vars PROVE LockInv'
    OBVIOUS
<1> USE ThreadsAssumption, BoundsAssumption DEF TypeOK, LockInv, CacheInv,
        Places, Provisioning, InTheOrg, Served, Go, Ends, cluster, caches
<1>0. CASE UNCHANGED vars
    BY <1>0 DEF vars
<1>1. ASSUME NEW t \in Threads, Begin(t) PROVE LockInv'
    BY <1>1 DEF Begin
<1>2. ASSUME NEW t \in Threads, Look(t) PROVE LockInv'
    BY <1>2 DEF Look
<1>3. ASSUME NEW t \in Threads, Lock(t) PROVE LockInv'
    BY <1>3 DEF Lock, After
<1>4. ASSUME NEW t \in Threads, FindOrg(t) PROVE LockInv'
    BY <1>4 DEF FindOrg
<1>5. ASSUME NEW t \in Threads, MakeOrg(t) PROVE LockInv'
    BY <1>5 DEF MakeOrg, NewOrg
<1>6. ASSUME NEW t \in Threads, LoginOrg(t) PROVE LockInv'
    BY <1>6 DEF LoginOrg, InOrg, Free, After
<1>7. ASSUME NEW t \in Threads, LoginRefused(t) PROVE LockInv'
    BY <1>7 DEF LoginRefused, Free
<1>8. ASSUME NEW t \in Threads, ProvisioningFails(t) PROVE LockInv'
    BY <1>8 DEF ProvisioningFails, Trouble, NewOrg, Free
<1>9. ASSUME NEW t \in Threads, MakeUser(t) PROVE LockInv'
    BY <1>9 DEF MakeUser, InOrg
<1>10. ASSUME NEW t \in Threads, FindPolicy(t) PROVE LockInv'
    BY <1>10 DEF FindPolicy, InOrg
<1>11. ASSUME NEW t \in Threads, MakePolicy(t) PROVE LockInv'
    BY <1>11 DEF MakePolicy, InOrg
<1>12. ASSUME NEW t \in Threads, AttachPolicy(t) PROVE LockInv'
    BY <1>12 DEF AttachPolicy, InOrg
<1>13. ASSUME NEW t \in Threads, CheckShare(t) PROVE LockInv'
    BY <1>13 DEF CheckShare, InOrg
<1>14. ASSUME NEW t \in Threads, MakeTemp(t) PROVE LockInv'
    BY <1>14 DEF MakeTemp
<1>15. ASSUME NEW t \in Threads, DumpToken(t) PROVE LockInv'
    BY <1>15 DEF DumpToken
<1>16. ASSUME NEW t \in Threads, ReplaceToken(t) PROVE LockInv'
    BY <1>16 DEF ReplaceToken
<1>17. ASSUME NEW t \in Threads, MountShare(t) PROVE LockInv'
    BY <1>17 DEF MountShare
<1>18. ASSUME NEW t \in Threads, SessionLost(t) PROVE LockInv'
    BY <1>18 DEF SessionLost
<1>19. ASSUME NEW t \in Threads, CallFails(t) PROVE LockInv'
    BY <1>19 DEF CallFails, Trouble
<1>20. ASSUME NEW t \in Threads, StepFails(t) PROVE LockInv'
    BY <1>20 DEF StepFails, Trouble
<1>21. CASE Reap
    BY <1>21 DEF Reap, Trouble
<1>22. ASSUME NEW p \in Processes, Crash(p) PROVE LockInv'
    BY <1>22 DEF Crash, Trouble
<1> QED
    BY <1>0, <1>1, <1>2, <1>3, <1>4, <1>5, <1>6, <1>7, <1>8, <1>9, <1>10,
        <1>11, <1>12, <1>13, <1>14, <1>15, <1>16, <1>17, <1>18, <1>19, <1>20,
        <1>21, <1>22
       DEF Next, Work

(***************************************************************************)
(* The cache is filled once.                                               *)
(***************************************************************************)
LEMMA CacheStep == TypeOK /\ LockInv /\ CacheInv /\ [Next]_vars => CacheInv'
<1> SUFFICES ASSUME TypeOK, LockInv, CacheInv, [Next]_vars PROVE CacheInv'
    OBVIOUS
<1> USE ThreadsAssumption, BoundsAssumption DEF TypeOK, LockInv, CacheInv,
        Places, Provisioning, InTheOrg, Served, Go, Ends, cluster, caches
<1>0. CASE UNCHANGED vars
    BY <1>0 DEF vars
<1>1. ASSUME NEW t \in Threads, Begin(t) PROVE CacheInv'
    BY <1>1 DEF Begin
<1>2. ASSUME NEW t \in Threads, Look(t) PROVE CacheInv'
    BY <1>2 DEF Look
<1>3. ASSUME NEW t \in Threads, Lock(t) PROVE CacheInv'
    BY <1>3 DEF Lock, After
<1>4. ASSUME NEW t \in Threads, FindOrg(t) PROVE CacheInv'
    BY <1>4 DEF FindOrg
<1>5. ASSUME NEW t \in Threads, MakeOrg(t) PROVE CacheInv'
    BY <1>5 DEF MakeOrg, NewOrg
<1>6. ASSUME NEW t \in Threads, LoginOrg(t) PROVE CacheInv'
    BY <1>6 DEF LoginOrg, InOrg, Free, After
<1>7. ASSUME NEW t \in Threads, LoginRefused(t) PROVE CacheInv'
    BY <1>7 DEF LoginRefused, Free
<1>8. ASSUME NEW t \in Threads, ProvisioningFails(t) PROVE CacheInv'
    BY <1>8 DEF ProvisioningFails, Trouble, NewOrg, Free
<1>9. ASSUME NEW t \in Threads, MakeUser(t) PROVE CacheInv'
    BY <1>9 DEF MakeUser, InOrg
<1>10. ASSUME NEW t \in Threads, FindPolicy(t) PROVE CacheInv'
    BY <1>10 DEF FindPolicy, InOrg
<1>11. ASSUME NEW t \in Threads, MakePolicy(t) PROVE CacheInv'
    BY <1>11 DEF MakePolicy, InOrg
<1>12. ASSUME NEW t \in Threads, AttachPolicy(t) PROVE CacheInv'
    BY <1>12 DEF AttachPolicy, InOrg
<1>13. ASSUME NEW t \in Threads, CheckShare(t) PROVE CacheInv'
    BY <1>13 DEF CheckShare, InOrg
<1>14. ASSUME NEW t \in Threads, MakeTemp(t) PROVE CacheInv'
    BY <1>14 DEF MakeTemp
<1>15. ASSUME NEW t \in Threads, DumpToken(t) PROVE CacheInv'
    BY <1>15 DEF DumpToken
<1>16. ASSUME NEW t \in Threads, ReplaceToken(t) PROVE CacheInv'
    BY <1>16 DEF ReplaceToken
<1>17. ASSUME NEW t \in Threads, MountShare(t) PROVE CacheInv'
    BY <1>17 DEF MountShare
<1>18. ASSUME NEW t \in Threads, SessionLost(t) PROVE CacheInv'
    BY <1>18 DEF SessionLost
<1>19. ASSUME NEW t \in Threads, CallFails(t) PROVE CacheInv'
    BY <1>19 DEF CallFails, Trouble
<1>20. ASSUME NEW t \in Threads, StepFails(t) PROVE CacheInv'
    BY <1>20 DEF StepFails, Trouble
<1>21. CASE Reap
    BY <1>21 DEF Reap, Trouble
<1>22. ASSUME NEW p \in Processes, Crash(p) PROVE CacheInv'
    BY <1>22 DEF Crash, Trouble
<1> QED
    BY <1>0, <1>1, <1>2, <1>3, <1>4, <1>5, <1>6, <1>7, <1>8, <1>9, <1>10,
        <1>11, <1>12, <1>13, <1>14, <1>15, <1>16, <1>17, <1>18, <1>19, <1>20,
        <1>21, <1>22
       DEF Next, Work

(***************************************************************************)
(* Token files appear complete.                                            *)
(***************************************************************************)
LEMMA FileStep == TypeOK /\ FileInv /\ [Next]_vars => FileInv'
<1> SUFFICES ASSUME TypeOK, FileInv, [Next]_vars PROVE FileInv'
    OBVIOUS
<1> USE ThreadsAssumption, BoundsAssumption DEF TypeOK, FileInv, Places,
        Provisioning, InTheOrg, Served, Go, Ends, cluster, caches
<1>0. CASE UNCHANGED vars
    BY <1>0 DEF vars
<1>1. ASSUME NEW t \in Threads, Begin(t) PROVE FileInv'
    BY <1>1 DEF Begin
<1>2. ASSUME NEW t \in Threads, Look(t) PROVE FileInv'
    BY <1>2 DEF Look
<1>3. ASSUME NEW t \in Threads, Lock(t) PROVE FileInv'
    BY <1>3 DEF Lock, After
<1>4. ASSUME NEW t \in Threads, FindOrg(t) PROVE FileInv'
    BY <1>4 DEF FindOrg
<1>5. ASSUME NEW t \in Threads, MakeOrg(t) PROVE FileInv'
    BY <1>5 DEF MakeOrg, NewOrg
<1>6. ASSUME NEW t \in Threads, LoginOrg(t) PROVE FileInv'
    BY <1>6 DEF LoginOrg, InOrg, Free, After
<1>7. ASSUME NEW t \in Threads, LoginRefused(t) PROVE FileInv'
    BY <1>7 DEF LoginRefused, Free
<1>8. ASSUME NEW t \in Threads, ProvisioningFails(t) PROVE FileInv'
    BY <1>8 DEF ProvisioningFails, Trouble, NewOrg, Free
<1>9. ASSUME NEW t \in Threads, MakeUser(t) PROVE FileInv'
    BY <1>9 DEF MakeUser, InOrg
<1>10. ASSUME NEW t \in Threads, FindPolicy(t) PROVE FileInv'
    BY <1>10 DEF FindPolicy, InOrg
<1>11. ASSUME NEW t \in Threads, MakePolicy(t) PROVE FileInv'
    BY <1>11 DEF MakePolicy, InOrg
<1>12. ASSUME NEW t \in Threads, AttachPolicy(t) PROVE FileInv'
    BY <1>12 DEF AttachPolicy, InOrg
<1>13. ASSUME NEW t \in Threads, CheckShare(t) PROVE FileInv'
    BY <1>13 DEF CheckShare, InOrg
<1>14. ASSUME NEW t \in Threads, MakeTemp(t) PROVE FileInv'
    BY <1>14 DEF MakeTemp
<1>15. ASSUME NEW t \in Threads, DumpToken(t) PROVE FileInv'
    BY <1>15 DEF DumpToken
<1>16. ASSUME NEW t \in Threads, ReplaceToken(t) PROVE FileInv'
    BY <1>16 DEF ReplaceToken
<1>17. ASSUME NEW t \in Threads, MountShare(t) PROVE FileInv'
    BY <1>17 DEF MountShare
<1>18. ASSUME NEW t \in Threads, SessionLost(t) PROVE FileInv'
    BY <1>18 DEF SessionLost
<1>19. ASSUME NEW t \in Threads, CallFails(t) PROVE FileInv'
    BY <1>19 DEF CallFails, Trouble
<1>20. ASSUME NEW t \in Threads, StepFails(t) PROVE FileInv'
    BY <1>20 DEF StepFails, Trouble
<1>21. CASE Reap
    BY <1>21 DEF Reap, Trouble
<1>22. ASSUME NEW p \in Processes, Crash(p) PROVE FileInv'
    BY <1>22 DEF Crash, Trouble
<1> QED
    BY <1>0, <1>1, <1>2, <1>3, <1>4, <1>5, <1>6, <1>7, <1>8, <1>9, <1>10,
        <1>11, <1>12, <1>13, <1>14, <1>15, <1>16, <1>17, <1>18, <1>19, <1>20,
        <1>21, <1>22
       DEF Next, Work

(***************************************************************************)
(* A thread stands only where its call leads.                              *)
(***************************************************************************)
LEMMA OpStep == TypeOK /\ OpInv /\ [Next]_vars => OpInv'
<1> SUFFICES ASSUME TypeOK, OpInv, [Next]_vars PROVE OpInv'
    OBVIOUS
<1> USE ThreadsAssumption, BoundsAssumption DEF TypeOK, OpInv, Places,
        Provisioning, InTheOrg, Served, Go, Ends, cluster, caches
<1>0. CASE UNCHANGED vars
    BY <1>0 DEF vars
<1>1. ASSUME NEW t \in Threads, Begin(t) PROVE OpInv'
    BY <1>1 DEF Begin
<1>2. ASSUME NEW t \in Threads, Look(t) PROVE OpInv'
    BY <1>2 DEF Look
<1>3. ASSUME NEW t \in Threads, Lock(t) PROVE OpInv'
    BY <1>3 DEF Lock, After
<1>4. ASSUME NEW t \in Threads, FindOrg(t) PROVE OpInv'
    BY <1>4 DEF FindOrg
<1>5. ASSUME NEW t \in Threads, MakeOrg(t) PROVE OpInv'
    BY <1>5 DEF MakeOrg, NewOrg
<1>6. ASSUME NEW t \in Threads, LoginOrg(t) PROVE OpInv'
    BY <1>6 DEF LoginOrg, InOrg, Free, After
<1>7. ASSUME NEW t \in Threads, LoginRefused(t) PROVE OpInv'
    BY <1>7 DEF LoginRefused, Free
<1>8. ASSUME NEW t \in Threads, ProvisioningFails(t) PROVE OpInv'
    BY <1>8 DEF ProvisioningFails, Trouble, NewOrg, Free
<1>9. ASSUME NEW t \in Threads, MakeUser(t) PROVE OpInv'
    BY <1>9 DEF MakeUser, InOrg
<1>10. ASSUME NEW t \in Threads, FindPolicy(t) PROVE OpInv'
    BY <1>10 DEF FindPolicy, InOrg
<1>11. ASSUME NEW t \in Threads, MakePolicy(t) PROVE OpInv'
    BY <1>11 DEF MakePolicy, InOrg
<1>12. ASSUME NEW t \in Threads, AttachPolicy(t) PROVE OpInv'
    BY <1>12 DEF AttachPolicy, InOrg
<1>13. ASSUME NEW t \in Threads, CheckShare(t) PROVE OpInv'
    BY <1>13 DEF CheckShare, InOrg
<1>14. ASSUME NEW t \in Threads, MakeTemp(t) PROVE OpInv'
    BY <1>14 DEF MakeTemp
<1>15. ASSUME NEW t \in Threads, DumpToken(t) PROVE OpInv'
    BY <1>15 DEF DumpToken
<1>16. ASSUME NEW t \in Threads, ReplaceToken(t) PROVE OpInv'
    BY <1>16 DEF ReplaceToken
<1>17. ASSUME NEW t \in Threads, MountShare(t) PROVE OpInv'
    BY <1>17 DEF MountShare
<1>18. ASSUME NEW t \in Threads, SessionLost(t) PROVE OpInv'
    BY <1>18 DEF SessionLost
<1>19. ASSUME NEW t \in Threads, CallFails(t) PROVE OpInv'
    BY <1>19 DEF CallFails, Trouble
<1>20. ASSUME NEW t \in Threads, StepFails(t) PROVE OpInv'
    BY <1>20 DEF StepFails, Trouble
<1>21. CASE Reap
    BY <1>21 DEF Reap, Trouble
<1>22. ASSUME NEW p \in Processes, Crash(p) PROVE OpInv'
    BY <1>22 DEF Crash, Trouble
<1> QED
    BY <1>0, <1>1, <1>2, <1>3, <1>4, <1>5, <1>6, <1>7, <1>8, <1>9, <1>10,
        <1>11, <1>12, <1>13, <1>14, <1>15, <1>16, <1>17, <1>18, <1>19, <1>20,
        <1>21, <1>22
       DEF Next, Work

(***************************************************************************)
(* What was done lasts as long as the organization.                        *)
(***************************************************************************)
LEMMA DoneStep == TypeOK /\ OpInv /\ DoneInv /\ [Next]_vars => DoneInv'
<1> SUFFICES ASSUME TypeOK, OpInv, DoneInv, [Next]_vars PROVE DoneInv'
    OBVIOUS
<1> USE ThreadsAssumption, BoundsAssumption DEF TypeOK, OpInv, DoneInv,
        Places, Provisioning, InTheOrg, Served, Go, Ends, cluster, caches
<1>0. CASE UNCHANGED vars
    BY <1>0 DEF vars
<1>1. ASSUME NEW t \in Threads, Begin(t) PROVE DoneInv'
    BY <1>1 DEF Begin
<1>2. ASSUME NEW t \in Threads, Look(t) PROVE DoneInv'
    BY <1>2 DEF Look
<1>3. ASSUME NEW t \in Threads, Lock(t) PROVE DoneInv'
    BY <1>3 DEF Lock, After
<1>4. ASSUME NEW t \in Threads, FindOrg(t) PROVE DoneInv'
    BY <1>4 DEF FindOrg
<1>5. ASSUME NEW t \in Threads, MakeOrg(t) PROVE DoneInv'
    BY <1>5 DEF MakeOrg, NewOrg
<1>6. ASSUME NEW t \in Threads, LoginOrg(t) PROVE DoneInv'
    BY <1>6 DEF LoginOrg, InOrg, Free, After
<1>7. ASSUME NEW t \in Threads, LoginRefused(t) PROVE DoneInv'
    BY <1>7 DEF LoginRefused, Free
<1>8. ASSUME NEW t \in Threads, ProvisioningFails(t) PROVE DoneInv'
    BY <1>8 DEF ProvisioningFails, Trouble, NewOrg, Free
<1>9. ASSUME NEW t \in Threads, MakeUser(t) PROVE DoneInv'
    BY <1>9 DEF MakeUser, InOrg
<1>10. ASSUME NEW t \in Threads, FindPolicy(t) PROVE DoneInv'
    BY <1>10 DEF FindPolicy, InOrg
<1>11. ASSUME NEW t \in Threads, MakePolicy(t) PROVE DoneInv'
    BY <1>11 DEF MakePolicy, InOrg
<1>12. ASSUME NEW t \in Threads, AttachPolicy(t) PROVE DoneInv'
    BY <1>12 DEF AttachPolicy, InOrg
<1>13. ASSUME NEW t \in Threads, CheckShare(t) PROVE DoneInv'
    BY <1>13 DEF CheckShare, InOrg
<1>14. ASSUME NEW t \in Threads, MakeTemp(t) PROVE DoneInv'
    BY <1>14 DEF MakeTemp
<1>15. ASSUME NEW t \in Threads, DumpToken(t) PROVE DoneInv'
    BY <1>15 DEF DumpToken
<1>16. ASSUME NEW t \in Threads, ReplaceToken(t) PROVE DoneInv'
    BY <1>16 DEF ReplaceToken
<1>17. ASSUME NEW t \in Threads, MountShare(t) PROVE DoneInv'
    BY <1>17 DEF MountShare
<1>18. ASSUME NEW t \in Threads, SessionLost(t) PROVE DoneInv'
    BY <1>18 DEF SessionLost
<1>19. ASSUME NEW t \in Threads, CallFails(t) PROVE DoneInv'
    BY <1>19 DEF CallFails, Trouble
<1>20. ASSUME NEW t \in Threads, StepFails(t) PROVE DoneInv'
    BY <1>20 DEF StepFails, Trouble
<1>21. CASE Reap
    BY <1>21 DEF Reap, Trouble
<1>22. ASSUME NEW p \in Processes, Crash(p) PROVE DoneInv'
    BY <1>22 DEF Crash, Trouble
<1> QED
    BY <1>0, <1>1, <1>2, <1>3, <1>4, <1>5, <1>6, <1>7, <1>8, <1>9, <1>10,
        <1>11, <1>12, <1>13, <1>14, <1>15, <1>16, <1>17, <1>18, <1>19, <1>20,
        <1>21, <1>22
       DEF Next, Work

(***************************************************************************)
(* Races alone make no call fail.                                          *)
(***************************************************************************)
LEMMA CalmStep ==
    TypeOK /\ CacheInv /\ OpInv /\ CalmInv /\ [Next]_vars => CalmInv'
<1> SUFFICES ASSUME TypeOK, CacheInv, OpInv, CalmInv, [Next]_vars
             PROVE  CalmInv'
    OBVIOUS
<1> USE ThreadsAssumption, BoundsAssumption DEF TypeOK, CacheInv, OpInv,
        CalmInv, Places, Provisioning, InTheOrg, Served, Go, Ends, cluster,
        caches
<1>0. CASE UNCHANGED vars
    BY <1>0 DEF vars
<1>1. ASSUME NEW t \in Threads, Begin(t) PROVE CalmInv'
    BY <1>1 DEF Begin
<1>2. ASSUME NEW t \in Threads, Look(t) PROVE CalmInv'
    BY <1>2 DEF Look
<1>3. ASSUME NEW t \in Threads, Lock(t) PROVE CalmInv'
    BY <1>3 DEF Lock, After
<1>4. ASSUME NEW t \in Threads, FindOrg(t) PROVE CalmInv'
    BY <1>4 DEF FindOrg
<1>5. ASSUME NEW t \in Threads, MakeOrg(t) PROVE CalmInv'
    BY <1>5 DEF MakeOrg, NewOrg
<1>6. ASSUME NEW t \in Threads, LoginOrg(t) PROVE CalmInv'
    BY <1>6 DEF LoginOrg, InOrg, Free, After
<1>7. ASSUME NEW t \in Threads, LoginRefused(t) PROVE CalmInv'
    BY <1>7 DEF LoginRefused, Free
<1>8. ASSUME NEW t \in Threads, ProvisioningFails(t) PROVE CalmInv'
    BY <1>8 DEF ProvisioningFails, Trouble, NewOrg, Free
<1>9. ASSUME NEW t \in Threads, MakeUser(t) PROVE CalmInv'
    BY <1>9 DEF MakeUser, InOrg
<1>10. ASSUME NEW t \in Threads, FindPolicy(t) PROVE CalmInv'
    BY <1>10 DEF FindPolicy, InOrg
<1>11. ASSUME NEW t \in Threads, MakePolicy(t) PROVE CalmInv'
    BY <1>11 DEF MakePolicy, InOrg
<1>12. ASSUME NEW t \in Threads, AttachPolicy(t) PROVE CalmInv'
    BY <1>12 DEF AttachPolicy, InOrg
<1>13. ASSUME NEW t \in Threads, CheckShare(t) PROVE CalmInv'
    BY <1>13 DEF CheckShare, InOrg
<1>14. ASSUME NEW t \in Threads, MakeTemp(t) PROVE CalmInv'
    BY <1>14 DEF MakeTemp
<1>15. ASSUME NEW t \in Threads, DumpToken(t) PROVE CalmInv'
    BY <1>15 DEF DumpToken
<1>16. ASSUME NEW t \in Threads, ReplaceToken(t) PROVE CalmInv'
    BY <1>16 DEF ReplaceToken
<1>17. ASSUME NEW t \in Threads, MountShare(t) PROVE CalmInv'
    BY <1>17 DEF MountShare
<1>18. ASSUME NEW t \in Threads, SessionLost(t) PROVE CalmInv'
    BY <1>18 DEF SessionLost
<1>19. ASSUME NEW t \in Threads, CallFails(t) PROVE CalmInv'
    BY <1>19 DEF CallFails, Trouble
<1>20. ASSUME NEW t \in Threads, StepFails(t) PROVE CalmInv'
    BY <1>20 DEF StepFails, Trouble
<1>21. CASE Reap
    BY <1>21 DEF Reap, Trouble
<1>22. ASSUME NEW p \in Processes, Crash(p) PROVE CalmInv'
    BY <1>22 DEF Crash, Trouble
<1> QED
    BY <1>0, <1>1, <1>2, <1>3, <1>4, <1>5, <1>6, <1>7, <1>8, <1>9, <1>10,
        <1>11, <1>12, <1>13, <1>14, <1>15, <1>16, <1>17, <1>18, <1>19, <1>20,
        <1>21, <1>22
       DEF Next, Work

-----------------------------------------------------------------------------
LEMMA InitInv == Init => IInv
BY ThreadsAssumption, BoundsAssumption
   DEF Init, IInv, TypeOK, LockInv, CacheInv, FileInv, OpInv, DoneInv,
       CalmInv, Places, Provisioning, Served, InTheOrg

LEMMA StepInv == IInv /\ [Next]_vars => IInv'
BY TypeStep, LockStep, CacheStep, FileStep, OpStep, DoneStep, CalmStep
   DEF IInv

LEMMA Invariance == Spec => []IInv
BY InitInv, StepInv, PTL DEF Spec

(***************************************************************************)
(* Every variable keeps its type.                                          *)
(***************************************************************************)
THEOREM TypeCorrect == Spec => []TypeOK
BY Invariance, PTL DEF IInv

(***************************************************************************)
(* However many threads find the cache empty, a process opens one client   *)
(* for the organization.                                                   *)
(***************************************************************************)
THEOREM OneClientOpened == Spec => []OneClient
<1>1. IInv => OneClient
    BY DEF IInv, TypeOK, CacheInv, OneClient
<1> QED
    BY <1>1, Invariance, PTL

(***************************************************************************)
(* No mount reads a token file that is half written.                       *)
(***************************************************************************)
THEOREM TokenFileIsWhole == Spec => []NoHalfToken
<1>1. IInv => NoHalfToken
    BY DEF IInv, FileInv, NoHalfToken
<1> QED
    BY <1>1, Invariance, PTL

(***************************************************************************)
(* Threads and processes that provision the same organization at the same  *)
(* time do not make each other fail.                                       *)
(***************************************************************************)
THEOREM RacesDoNotFail == Spec => []RacesAreTolerated
<1>1. IInv => RacesAreTolerated
    BY DEF IInv, CalmInv, RacesAreTolerated
<1> QED
    BY <1>1, Invariance, PTL

(***************************************************************************)
(* Success means that the organization has what the call was for.          *)
(***************************************************************************)
THEOREM SuccessIsReal == Spec => []OkMeansProvisioned
<1>1. IInv => OkMeansProvisioned
    BY DEF IInv, DoneInv, OkMeansProvisioned
<1> QED
    BY <1>1, Invariance, PTL

-----------------------------------------------------------------------------
\* The other half of LockInv: who holds a lock is a thread of that process,
\* at work in the one place where it is let go.
HolderInv ==
    \A p \in Processes, t \in Threads :
        holder[p] = t => Home[t] = p /\ pc[t] \in Provisioning

(***************************************************************************)
(* Every way out of _org_client gives the lock back, a crash included.     *)
(***************************************************************************)
LEMMA HolderStep ==
    ASSUME TypeOK, LockInv, HolderInv, [Next]_vars
    PROVE  HolderInv'
<1> USE ThreadsAssumption DEF TypeOK, LockInv, HolderInv, Provisioning,
        InTheOrg, Go, Ends, cluster, caches
<1>1. CASE UNCHANGED vars \/ Reap
    BY <1>1 DEF vars, Reap
<1>2. ASSUME NEW p \in Processes, Crash(p)
      PROVE  HolderInv'
    BY <1>2 DEF Crash
<1>3. ASSUME NEW t \in Threads, Begin(t) \/ Look(t)
      PROVE  HolderInv'
    BY <1>3 DEF Begin, Look
<1>4. ASSUME NEW t \in Threads, Lock(t)
      PROVE  HolderInv'
    BY <1>4 DEF Lock
<1>5. ASSUME NEW t \in Threads, FindOrg(t) \/ MakeOrg(t)
      PROVE  HolderInv'
    BY <1>5 DEF FindOrg, MakeOrg
<1>6. ASSUME NEW t \in Threads,
             LoginOrg(t) \/ LoginRefused(t) \/ ProvisioningFails(t)
      PROVE  HolderInv'
    <2>1. holder' = [holder EXCEPT ![Home[t]] = NoThread]
        BY <1>6 DEF LoginOrg, LoginRefused, ProvisioningFails, Free
    <2>2. \A u \in Threads \ {t} : pc'[u] = pc[u]
        BY <1>6 DEF LoginOrg, LoginRefused, ProvisioningFails
    <2> QED
        BY <2>1, <2>2
<1>7. ASSUME NEW t \in Threads,
             \/ MakeUser(t) \/ FindPolicy(t) \/ MakePolicy(t)
             \/ AttachPolicy(t) \/ CheckShare(t)
      PROVE  HolderInv'
    BY <1>7 DEF MakeUser, FindPolicy, MakePolicy, AttachPolicy, CheckShare
<1>8. ASSUME NEW t \in Threads,
             \/ MakeTemp(t) \/ DumpToken(t) \/ ReplaceToken(t)
             \/ MountShare(t)
      PROVE  HolderInv'
    BY <1>8 DEF MakeTemp, DumpToken, ReplaceToken, MountShare
<1>9. ASSUME NEW t \in Threads,
             SessionLost(t) \/ CallFails(t) \/ StepFails(t)
      PROVE  HolderInv'
    BY <1>9 DEF SessionLost, CallFails, StepFails
<1> QED
    BY <1>1, <1>2, <1>3, <1>4, <1>5, <1>6, <1>7, <1>8, <1>9 DEF Next, Work

(***************************************************************************)
(* The lock is never held by a thread that is not at work under it: no     *)
(* failed lookup, creation or login returns without letting it go.         *)
(***************************************************************************)
THEOREM HolderIsAtWork == Spec => []HolderInv
<1>1. Init => HolderInv
    BY ThreadsAssumption DEF Init, HolderInv
<1>2. IInv /\ HolderInv /\ [Next]_vars => HolderInv'
    BY HolderStep DEF IInv
<1> QED
    BY <1>1, <1>2, Invariance, PTL DEF Spec

-----------------------------------------------------------------------------
\* How many steps a call has left at most, by the place it has reached.
StepsLeft ==
    [idle |-> 0, user |-> 1, lookup |-> 3, create |-> 2, attach |-> 1,
     check |-> 5, temp |-> 4, dump |-> 3, replace |-> 2, mount |-> 1,
     login |-> 6, make |-> 7, find |-> 8, lock |-> 9, look |-> 10]

(***************************************************************************)
(* A step of a thread brings its own call nearer to its end, and moves no  *)
(* other.                                                                  *)
(***************************************************************************)
LEMMA WorkAdvances ==
    ASSUME TypeOK, OpInv, NEW u \in Threads, Work(u)
    PROVE  /\ StepsLeft[pc'[u]] < StepsLeft[pc[u]]
           /\ \A t \in Threads \ {u} : pc'[t] = pc[t]
<1> USE DEF TypeOK, Provisioning, InTheOrg, Go, Ends, StepsLeft
<1>1. CASE Look(u) \/ FindOrg(u) \/ MakeOrg(u)
    BY <1>1 DEF Look, FindOrg, MakeOrg
<1>2. CASE Lock(u)
    BY <1>2 DEF Lock, After
<1>3. CASE LoginOrg(u)
    BY <1>3 DEF LoginOrg, After
<1>4. CASE LoginRefused(u) \/ ProvisioningFails(u)
    BY <1>4 DEF LoginRefused, ProvisioningFails
<1>5. CASE MakeUser(u) \/ FindPolicy(u) \/ MakePolicy(u)
    BY <1>5 DEF MakeUser, FindPolicy, MakePolicy
<1>6. CASE AttachPolicy(u) \/ CheckShare(u)
    BY <1>6 DEF AttachPolicy, CheckShare
<1>7. CASE MakeTemp(u) \/ DumpToken(u) \/ ReplaceToken(u)
    BY <1>7 DEF MakeTemp, DumpToken, ReplaceToken
<1>8. CASE MountShare(u) \/ SessionLost(u)
    BY <1>8 DEF MountShare, SessionLost
<1>9. CASE CallFails(u)
    BY <1>9 DEF CallFails
<1>10. CASE StepFails(u)
    BY <1>10 DEF StepFails
<1> QED
    BY <1>1, <1>2, <1>3, <1>4, <1>5, <1>6, <1>7, <1>8, <1>9, <1>10 DEF Work

\* A call that is under way has fewer steps left after each of its own.
CallAdvances ==
    \A t \in Threads :
        pc[t] # "idle" =>
            /\ StepsLeft[pc[t]] \in 1..10
            /\ StepsLeft[pc'[t]] <= StepsLeft[pc[t]]
            /\ Work(t) => StepsLeft[pc'[t]] < StepsLeft[pc[t]]

(***************************************************************************)
(* A call makes ten steps at most, whoever else provisions, deletes or     *)
(* recreates the organization meanwhile: nothing sends it back.            *)
(***************************************************************************)
THEOREM CallsAdvance == Spec => [][CallAdvances]_vars
<1>1. IInv /\ IInv' /\ [Next]_vars => [CallAdvances]_vars
    <2> SUFFICES ASSUME IInv, IInv', [Next]_vars,
                        NEW t \in Threads, pc[t] # "idle"
                 PROVE  /\ StepsLeft[pc[t]] \in 1..10
                        /\ StepsLeft[pc'[t]] <= StepsLeft[pc[t]]
                        /\ Work(t) => StepsLeft[pc'[t]] < StepsLeft[pc[t]]
        BY DEF CallAdvances
    <2>1. StepsLeft[pc[t]] \in 1..10 /\ StepsLeft[pc'[t]] \in 0..10
        BY DEF IInv, TypeOK, Places, Provisioning, StepsLeft
    <2>2. Work(t) => StepsLeft[pc'[t]] < StepsLeft[pc[t]]
        BY WorkAdvances DEF IInv
    <2>3. Work(t) \/ pc'[t] = pc[t] \/ pc'[t] = "idle"
        <3>1. ASSUME NEW u \in Threads \ {t}, Begin(u) \/ Work(u)
              PROVE  pc'[t] = pc[t]
            BY <3>1, WorkAdvances DEF IInv, TypeOK, Begin, Go
        <3>2. ~Begin(t)
            BY DEF Begin
        <3>3. CASE Reap \/ UNCHANGED vars
            BY <3>3 DEF Reap, vars
        <3>4. ASSUME NEW p \in Processes, Crash(p)
              PROVE  pc'[t] = pc[t] \/ pc'[t] = "idle"
            BY <3>4 DEF Crash, IInv, TypeOK
        <3> QED
            BY <3>1, <3>2, <3>3, <3>4 DEF Next
    <2> QED
        BY <2>1, <2>2, <2>3 DEF StepsLeft
<1> QED
    BY <1>1, Invariance, PTL DEF Spec

-----------------------------------------------------------------------------
\* A thread holds the lock of its process, and what enables it there.
Holds(t)         == holder[Home[t]] = t
HolderCanGoOn(t) == pc[t] \in Provisioning => ENABLED <<Work(t)>>_vars

\* The three places under the lock, in their order.
Finding(t)   == Holds(t) /\ pc[t] = "find"
Making(t)    == Holds(t) /\ pc[t] = "make"
LoggingIn(t) == Holds(t) /\ pc[t] = "login"

(***************************************************************************)
(* The holder stays where it is, or goes one place on, or lets go.         *)
(***************************************************************************)
LEMMA UnderTheLock ==
    ASSUME NEW t \in Threads, IInv, HolderInv, HolderInv', [Next]_vars
    PROVE  /\ Finding(t) => \/ Finding(t)' /\ ~Work(t)
                            \/ Making(t)' \/ LoggingIn(t)' \/ ~Holds(t)'
           /\ Making(t) => \/ Making(t)' /\ ~Work(t)
                           \/ LoggingIn(t)' \/ ~Holds(t)'
           /\ LoggingIn(t) => \/ LoggingIn(t)' /\ ~Work(t)
                              \/ ~Holds(t)'
<1> SUFFICES ASSUME pc[t] \in Provisioning, Holds(t)'
             PROVE  IF Work(t)
                    THEN \/ pc[t] = "find" /\ pc'[t] \in {"make", "login"}
                         \/ pc[t] = "make" /\ pc'[t] = "login"
                    ELSE pc'[t] = pc[t]
    BY DEF Finding, Making, LoggingIn, Provisioning, Holds
<1>1. Home[t] \in Processes /\ pc'[t] \in Provisioning
    BY ThreadsAssumption DEF HolderInv, Holds
<1>2. CASE Work(t)
    <2>1. StepsLeft[pc'[t]] < StepsLeft[pc[t]]
        BY <1>2, WorkAdvances DEF IInv
    <2> QED
        BY <1>1, <1>2, <2>1 DEF Provisioning, StepsLeft
<1>3. CASE ~Work(t)
    <2>1. ASSUME NEW u \in Threads \ {t}, Begin(u) \/ Work(u)
          PROVE  pc'[t] = pc[t]
        BY <2>1, WorkAdvances DEF IInv, TypeOK, Begin, Go
    <2>2. ~Begin(t)
        BY DEF Begin, Provisioning
    <2>3. ASSUME Reap \/ UNCHANGED vars
          PROVE  pc'[t] = pc[t]
        BY <2>3 DEF Reap, vars
    <2>4. ASSUME NEW p \in Processes, Crash(p)
          PROVE  pc'[t] = pc[t]
        BY <1>1, <2>4 DEF Crash, IInv, TypeOK, Provisioning
    <2> QED
        BY <1>3, <2>1, <2>2, <2>3, <2>4 DEF Next
<1> QED
    BY <1>2, <1>3

(***************************************************************************)
(* A thread that took the lock gives it back if it goes on: under the lock *)
(* it waits for nobody, whatever becomes of the organization meanwhile.    *)
(***************************************************************************)
THEOREM LockIsGivenBack ==
    ASSUME NEW t \in Threads
    PROVE  Spec /\ WF_vars(Work(t)) /\ []HolderCanGoOn(t)
           => (Holds(t) ~> ~Holds(t))
<1>1. HolderInv /\ Holds(t) => Finding(t) \/ Making(t) \/ LoggingIn(t)
    BY ThreadsAssumption
       DEF HolderInv, Holds, Provisioning, Finding, Making, LoggingIn
<1>2. IInv /\ HolderInv /\ HolderInv' /\ [Next]_vars /\ Finding(t) =>
          \/ Finding(t)' /\ ~<<Work(t)>>_vars
          \/ Making(t)' \/ LoggingIn(t)' \/ ~Holds(t)'
    BY UnderTheLock
<1>3. IInv /\ HolderInv /\ HolderInv' /\ [Next]_vars /\ Making(t) =>
          \/ Making(t)' /\ ~<<Work(t)>>_vars
          \/ LoggingIn(t)' \/ ~Holds(t)'
    BY UnderTheLock
<1>4. IInv /\ HolderInv /\ HolderInv' /\ [Next]_vars /\ LoggingIn(t) =>
          (LoggingIn(t)' /\ ~<<Work(t)>>_vars) \/ ~Holds(t)'
    BY UnderTheLock
<1>5. HolderCanGoOn(t) /\ (Finding(t) \/ Making(t) \/ LoggingIn(t)) =>
          ENABLED <<Work(t)>>_vars
    BY DEF HolderCanGoOn, Finding, Making, LoggingIn, Provisioning
<1> QED
    BY <1>1, <1>2, <1>3, <1>4, <1>5, HolderIsAtWork, Invariance, PTL DEF Spec
=============================================================================
