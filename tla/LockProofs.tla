----------------------------- MODULE LockProofs -----------------------------
(***************************************************************************)
(* Proofs about the lock for any number of threads, locks and failures.    *)
(* Two of them assume that the component does not fail: a waiter is on the *)
(* one list that says so, and, between two threads, no wakeup is lost.     *)
(***************************************************************************)
EXTENDS Lock, FiniteSetTheorems, TLAPS

\* sched_block takes the wake count down, so its range needs that a thread
\* that runs has a wake count of 1 or 2.
Awake == \A t \in Threads : pc[t] \notin {"asleep", "stale"} => wake_cnt[t] # 0

\* The initial state has the types of the variables.
LEMMA InitType == Init => TypeOK
<1> SUFFICES ASSUME Init PROVE TypeOK
  OBVIOUS
<1>1. Cardinality(Locks) \in Nat
  BY LockAssumption, FS_CardinalityType
<1>2. ASSUME NEW l \in Locks PROVE Cardinality({k \in Locks : k < l}) \in Nat
  <2>1. {k \in Locks : k < l} \subseteq Locks
    OBVIOUS
  <2> QED BY <2>1, LockAssumption, FS_Subset, FS_CardinalityType
<1>3. server_lock_id \in [Locks -> Nat]
  BY <1>2 DEF Init
<1>4. (CHOOSE l \in Locks : TRUE) \in Locks
  BY LockAssumption
<1>5. lk \in [Threads -> Locks]
  BY <1>4 DEF Init
<1>6. Free \in Word
  BY DEF Free, Word
<1>7. lock_id \in Nat \ {0} /\ current \subseteq Nat
  BY <1>1 DEF Init
<1>8. /\ atom \in [Locks -> Word]
      /\ held \in [Threads -> SUBSET Locks]
      /\ pc \in [Threads -> Pc]
      /\ prev \in [Threads -> Word]
      /\ call \in [Threads -> {"pretake", "take", "release"}]
  BY <1>6 DEF Init, Pc
<1>9. /\ id \in [Threads -> Nat]
      /\ blocked_on \in [Threads -> Nat]
      /\ waking \in [Threads -> SUBSET Threads]
      /\ tracked \subseteq Threads
      /\ holding_thd \in Threads \cup {NoThd}
      /\ wake_cnt \in [Threads -> 0..2]
      /\ notify \subseteq Threads
  BY DEF Init, NoId
<1>10. faults \in 0..MaxFaults
  BY LockAssumption DEF Init
<1>11. gen_zero \in BOOLEAN /\ failed \in BOOLEAN
  BY Zenon DEF Init
<1> QED BY <1>3, <1>5, <1>7, <1>8, <1>9, <1>10, <1>11 DEF TypeOK

\* A reboot preserves the types, whichever thread failed.
LEMMA RebootType ==
  ASSUME TypeOK, NEW t \in Threads, Reboot(t), faults' \in 0..MaxFaults
  PROVE  TypeOK'
<1>1. ASSUME NEW u \in Threads PROVE AfterFault(t, u) \in Pc
  BY DEF TypeOK, AfterFault, Pc
<1>2. pc' \in [Threads -> Pc]
  BY <1>1 DEF Reboot
<1> QED BY <1>2 DEF TypeOK, Reboot, client, local, NoId

\* Return preserves the types of the locals.
LEMMA ReturnType ==
  ASSUME TypeOK, NEW t \in Threads, Return(t)
  PROVE  /\ pc' \in [Threads -> Pc]
         /\ prev' \in [Threads -> Word]
         /\ id' \in [Threads -> Nat]
         /\ call' \in [Threads -> {"pretake", "take", "release"}]
         /\ lk' \in [Threads -> Locks]
<1>1. Free \in Word /\ NoId \in Nat /\ "client" \in Pc
  BY DEF Free, Word, NoId, Pc
<1> QED BY <1>1 DEF TypeOK, Return, Goto

\* The words the swaps store are words.
LEMMA WordTypes ==
  ASSUME NEW t \in Threads, NEW w \in Word
  PROVE  /\ Free \in Word
         /\ [owner |-> t, contested |-> FALSE] \in Word
         /\ [owner |-> w.owner, contested |-> TRUE] \in Word
BY DEF Word, Free

\* A step of a thread preserves the types.
LEMMA StepType ==
  ASSUME TypeOK, Awake, NEW t \in Threads, Step(t)
  PROVE  TypeOK'
<1>0. id[t] \in Nat /\ current \subseteq Nat
  BY DEF TypeOK
<1>a. /\ lk[t] \in Locks
      /\ atom \in [Locks -> Word]
      /\ prev[t] \in Word
      /\ held \in [Threads -> SUBSET Locks]
  BY DEF TypeOK
<1>b. held' = [held EXCEPT ![t] = held[t] \cup {lk[t]}] => held' \in [Threads -> SUBSET Locks]
  BY <1>a
<1> USE DEF TypeOK, Pc, ServerPc, SectionPc, client, local, server, fault, Goto
<1>1. CASE Take(t)
  <2>1. CASE Read(t)
    BY <2>1 DEF Read
  <2>2. CASE Cas(t)
    <3>1. CASE atom[lk[t]] = prev[t]
      <4>1. atom' = [atom EXCEPT ![lk[t]] = [owner |-> t, contested |-> FALSE]]
        BY <2>2, <3>1 DEF Cas
      <4>2. atom' \in [Locks -> Word]
        BY Zenon, <4>1, <1>a, WordTypes
      <4>3. Return(t) /\ held' \in [Threads -> SUBSET Locks]
        BY <2>2, <3>1, <1>b DEF Cas
      <4> QED BY <2>2, <4>2, <4>3, ReturnType DEF Cas
    <3>2. CASE ~(atom[lk[t]] = prev[t])
      BY <2>2, <3>2 DEF Cas
    <3> QED BY <3>1, <3>2
  <2>3. CASE CheckOwner(t)
    BY <2>3 DEF CheckOwner
  <2>4. CASE CheckContested(t)
    BY <2>4 DEF CheckContested
  <2>5. CASE Mark(t)
    <3>1. CASE atom[lk[t]] = prev[t]
      <4>1. atom' = [atom EXCEPT ![lk[t]] = [owner |-> prev[t].owner, contested |-> TRUE]]
        BY <2>5, <3>1 DEF Mark
      <4>2. atom' \in [Locks -> Word]
        BY Zenon, <4>1, <1>a, WordTypes
      <4> QED BY <2>5, <3>1, <4>2 DEF Mark
    <3>2. CASE ~(atom[lk[t]] = prev[t])
      BY <2>5, <3>2 DEF Mark
    <3> QED BY <3>1, <3>2
  <2>6. CASE Marked(t)
    BY <2>6 DEF Marked
  <2>7. CASE MarkedAssert(t)
    BY <2>7 DEF MarkedAssert
  <2>8. CASE Pretake(t)
    <3>1. CASE Found(t)
      <4>1. current' = current \cup {id[t]}
        BY <2>8, <3>1 DEF Pretake
      <4>2. current' \subseteq Nat
        BY Zenon, <4>1, <1>0
      <4> QED BY <2>8, <3>1, <4>2 DEF Pretake, RELEASE
    <3>2. CASE ~(Found(t))
      BY Zenon, <2>8, <3>2 DEF Pretake, RELEASE
    <3> QED BY <3>1, <3>2
  <2>9. CASE Track(t)
    BY <2>9 DEF Track, RELEASE
  <2>10. CASE TakeInvalid(t)
    BY <2>10 DEF TakeInvalid, RELEASE, NoId
  <2>11. CASE TakeMismatch(t)
    <3>1. current' = current \cup {id[t]}
      BY <2>11 DEF TakeMismatch
    <3>2. current' \subseteq Nat
      BY Zenon, <3>1, <1>0
    <3> QED BY <2>11, <3>2 DEF TakeMismatch, RELEASE
  <2>12. CASE TakeBlock(t)
    BY Zenon, <2>12 DEF TakeBlock, RELEASE
  <2>13. CASE Block(t)
    <3>1. wake_cnt' \in [Threads -> 0..2]
      BY <2>13 DEF Block, Awake
    <3> QED BY <2>13, <3>1 DEF Block
  <2>14. CASE Resume(t)
    BY <2>14 DEF Resume
  <2>15. CASE Untrack(t)
    BY Zenon, <2>15 DEF Untrack, RELEASE
  <2> QED BY Zenon, <1>1, <2>1, <2>2, <2>3, <2>4, <2>5, <2>6, <2>7, <2>8, <2>9, <2>10, <2>11, <2>12, <2>13, <2>14, <2>15 DEF Take
<1>2. CASE Release(t)
  <2>1. CASE ReleaseRead(t)
    BY <2>1 DEF ReleaseRead
  <2>2. CASE ReleaseCas(t)
    <3>1. CASE atom[lk[t]] = prev[t]
      <4>1. atom' = [atom EXCEPT ![lk[t]] = Free]
        BY <2>2, <3>1 DEF ReleaseCas
      <4>2. atom' \in [Locks -> Word]
        BY Zenon, <4>1, <1>a, WordTypes
      <4>3. Return(t) /\ held' \in [Threads -> SUBSET Locks]
        BY <2>2, <3>1 DEF ReleaseCas
      <4> QED BY <2>2, <4>2, <4>3, ReturnType DEF ReleaseCas
    <3>2. CASE ~(atom[lk[t]] = prev[t])
      BY Zenon, <2>2, <3>2 DEF ReleaseCas
    <3> QED BY <3>1, <3>2
  <2>3. CASE ReleaseZero(t)
    <3>1. atom' \in [Locks -> Word]
      BY Zenon, <2>3, <1>a, WordTypes DEF ReleaseZero
    <3> QED BY <2>3, <3>1 DEF ReleaseZero
  <2>4. CASE ReleaseNobody(t)
    BY Zenon, <2>4, ReturnType DEF ReleaseNobody, RELEASE
  <2>5. CASE ReleaseDetach(t)
    BY Zenon, <2>5 DEF ReleaseDetach, Waiting, NoId
  <2>6. CASE WakeRelease(t)
    BY <2>6 DEF WakeRelease, RELEASE
  <2>7. CASE Done(t)
    BY <2>7, ReturnType DEF Done, RELEASE
  <2>8. CASE DoneAssert(t)
    BY <2>8 DEF DoneAssert
  <2>9. CASE \E u \in Threads : WakeOne(t, u)
    <3>1. wake_cnt' \in [Threads -> 0..2]
      BY <2>9 DEF WakeOne, Wakeup
    <3>2. waking' \in [Threads -> SUBSET Threads]
      BY <2>9 DEF WakeOne
    <3> QED BY <2>9, <3>1, <3>2 DEF WakeOne
  <2>10. CASE \E u \in Threads : WakeLast(t, u)
    <3>1. wake_cnt' \in [Threads -> 0..2]
      BY <2>10 DEF WakeLast, Wakeup
    <3>2. waking' \in [Threads -> SUBSET Threads]
      BY Zenon, <2>10 DEF WakeLast
    <3> QED BY <2>10, <3>1, <3>2 DEF WakeLast
  <2> QED BY Zenon, <1>2, <2>1, <2>2, <2>3, <2>4, <2>5, <2>6, <2>7, <2>8, <2>9, <2>10 DEF Release
<1>3. CASE Recover(t)
  <2>1. CASE Invoke(t)
    BY <2>1 DEF Invoke
  <2>2. CASE Alloc(t)
    BY <2>2 DEF Alloc, RELEASE
  <2>3. CASE Cons(t)
    BY <2>3 DEF Cons
  <2>4. CASE Recovered(t)
    BY <2>4 DEF Recovered
  <2>5. CASE StaleReturn(t)
    BY <2>5 DEF StaleReturn
  <2>6. CASE TakeAssert(t)
    BY <2>6, RebootType DEF TakeAssert
  <2>7. CASE \E u \in Threads : Notify(t, u)
    <3>1. wake_cnt' \in [Threads -> 0..2]
      BY <2>7 DEF Notify, Wakeup
    <3> QED BY <2>7, <3>1 DEF Notify
  <2> QED BY Zenon, <1>3, <2>1, <2>2, <2>3, <2>4, <2>5, <2>6, <2>7 DEF Recover
<1> QED BY <1>1, <1>2, <1>3 DEF Step

\* Every step preserves the types.
LEMMA NextType == TypeOK /\ Awake /\ [Next]_vars => TypeOK'
<1> SUFFICES ASSUME TypeOK, Awake, [Next]_vars PROVE TypeOK'
  OBVIOUS
<1>1. ASSUME NEW t \in Threads, Step(t) PROVE TypeOK'
  BY <1>1, StepType
<1>2. ASSUME NEW t \in Threads, EnterStep(t) PROVE TypeOK'
  BY <1>2 DEF TypeOK, client, local, server, fault, EnterStep, Enter
<1>6. ASSUME NEW t \in Threads, LeaveLock(t) PROVE TypeOK'
  BY <1>6 DEF TypeOK, client, local, server, fault, Goto, LeaveLock, LockRelease, Pc
<1>3. ASSUME NEW t \in Threads, Fault(t) PROVE TypeOK'
  <2>1. faults' \in 0..MaxFaults
    BY <1>3, LockAssumption DEF Fault, TypeOK
  <2> QED BY <1>3, <2>1, RebootType DEF Fault
<1>4. ASSUME NEW t \in Threads, NEW l \in Locks, LockTake(t, l) PROVE TypeOK'
  BY <1>4 DEF TypeOK, client, local, server, fault, Goto, LockTake, Pc
<1>5. CASE UNCHANGED vars
  BY Zenon, <1>5 DEF TypeOK, vars, client, local, server, fault
<1> QED BY <1>1, <1>2, <1>3, <1>4, <1>5, <1>6 DEF Next, Stopped

\* Every step keeps the wake count of a thread that runs above 0.
LEMMA NextAwake == TypeOK /\ Awake /\ [Next]_vars => Awake'
<1> SUFFICES ASSUME TypeOK, Awake, [Next]_vars, NEW u \in Threads,
                    pc'[u] \notin {"asleep", "stale"}
             PROVE  wake_cnt'[u] # 0
  BY DEF Awake
<1>1. ASSUME NEW t \in Threads, Block(t) \/ Resume(t) \/ StaleReturn(t) PROVE wake_cnt'[u] # 0
  BY <1>1 DEF TypeOK, Awake, Block, Resume, StaleReturn, Goto
<1>2. ASSUME NEW v \in Threads, Wakeup(v), pc[u] \in {"asleep", "stale"} => pc'[u] = pc[u]
      PROVE  wake_cnt'[u] # 0
  BY <1>2 DEF TypeOK, Awake, Wakeup
<1>3. ASSUME NEW t \in Threads, Reboot(t) PROVE wake_cnt'[u] # 0
  <2>1. AfterFault(t, u) \notin {"asleep", "stale"}
    BY <1>3 DEF Reboot
  <2>2. pc[u] \notin {"asleep", "stale"}
    BY <2>1 DEF AfterFault, ServerPc, SectionPc
  <2> QED BY <1>3, <2>2 DEF Reboot, Awake
<1>4. ASSUME wake_cnt' = wake_cnt, pc[u] \in {"asleep", "stale"} => pc'[u] = pc[u]
      PROVE  wake_cnt'[u] # 0
  BY <1>4 DEF Awake
<1>5. CASE \E t \in Threads : Take(t) \/ Release(t) \/ Recover(t)
  <2>1. PICK t \in Threads : Take(t) \/ Release(t) \/ Recover(t)
    BY Zenon, <1>5
  <2>2. CASE Take(t)
    <3>1. CASE Read(t) \/ Cas(t) \/ CheckOwner(t) \/ CheckContested(t) \/ Mark(t) \/ Marked(t)
               \/ MarkedAssert(t)
      BY Zenon, <3>1, <1>4 DEF TypeOK, Goto, Return, Read, Cas, CheckOwner, CheckContested, Mark, Marked,
                        MarkedAssert
    <3>2. CASE Pretake(t) \/ Track(t) \/ TakeInvalid(t) \/ TakeMismatch(t) \/ TakeBlock(t)
               \/ Untrack(t)
      BY Zenon, <3>2, <1>4 DEF TypeOK, Goto, Pretake, Track, TakeInvalid, TakeMismatch, TakeBlock,
                        Untrack, InSection
    <3> QED BY Zenon, <2>2, <1>1, <3>1, <3>2 DEF Take
  <2>3. CASE Release(t)
    BY Zenon, <2>3, <1>2, <1>4 DEF Release, TypeOK, Goto, Return, ReleaseRead, ReleaseCas, ReleaseZero,
      ReleaseNobody, ReleaseDetach, WakeOne, WakeRelease, WakeLast, Done, DoneAssert, InSection
  <2>4. CASE Recover(t)
    BY <2>4, <1>1, <1>2, <1>3, <1>4 DEF Recover, TypeOK, Goto, Invoke, Alloc, Cons, Recovered,
      TakeAssert, Notify, InSection
  <2> QED BY <2>1, <2>2, <2>3, <2>4
<1>6. ASSUME NEW t \in Threads, EnterStep(t) \/ LeaveLock(t) \/ \E l \in Locks : LockTake(t, l)
      PROVE  wake_cnt'[u] # 0
  BY <1>6, <1>4 DEF TypeOK, EnterStep, Enter, LeaveLock, LockRelease, LockTake, Goto
<1>7. CASE UNCHANGED vars
  BY <1>7, <1>4 DEF vars
<1>8. ASSUME NEW t \in Threads, Fault(t) PROVE wake_cnt'[u] # 0
  BY <1>8, <1>3 DEF Fault
<1> QED BY <1>5, <1>6, <1>7, <1>8 DEF Next, Step, Stopped

\* Type correctness of the lock, its stubs and their recovery.
THEOREM TypeCorrect == Spec => []TypeOK
<1>1. Init => Awake
  BY DEF Init, Awake
<1>2. TypeOK /\ Awake /\ [Next]_vars => Awake'
  BY NextAwake
<1> QED BY InitType, NextType, <1>1, <1>2, PTL DEF Spec
-----------------------------------------------------------------------------
(* The lock word *)

\* What the swaps rest on: a thread about to swap in its own id copied a word
\* without owner, a thread in lock_release holds the lock, and the copy a
\* contended release made is still current, because nobody but the owner
\* changes a word that is marked already.
SwapInv ==
  \A t \in Threads :
    /\ pc[t] = "cas" => prev[t].owner = NoThd
    /\ pc[t] \in {"release_read", "release_cas", "release_zero"} => lk[t] \in held[t]
    /\ pc[t] = "release_zero" => prev[t].contested /\ atom[lk[t]] = prev[t]

WordInv == TypeOK /\ OwnerHolds /\ SwapInv

\* The steps of lock_take and lock_release that read or write the word.
WordPc == {"cas", "release_read", "release_cas", "release_zero"}

\* A step that leaves the words alone and brings no thread to such a step.
Quiet ==
  /\ UNCHANGED <<atom, held>>
  /\ \A u \in Threads : pc'[u] \in WordPc =>
                        pc'[u] = pc[u] /\ lk'[u] = lk[u] /\ prev'[u] = prev[u]

\* A step that gives lock l to t, and one that gives it back.
Took(t, l) == atom[l].owner = NoThd /\ held' = [held EXCEPT ![t] = @ \cup {l}]

Gave(t, l) == l \in held[t] /\ held' = [held EXCEPT ![t] = @ \ {l}]

\* A quiet step preserves what is known of the words.
LEMMA QuietStep ==
  ASSUME OwnerHolds, SwapInv, Quiet
  PROVE  OwnerHolds' /\ SwapInv'
<1>1. OwnerHolds'
  BY DEF OwnerHolds, Quiet
<1>2. SwapInv'
  BY DEF SwapInv, Quiet, WordPc
<1> QED BY <1>1, <1>2

\* Read and ReleaseRead copy the word, LockRelease starts with a lock it holds,
\* a release that finds the word marked since it was copied reads it again.
LEMMA ReadSteps ==
  ASSUME WordInv, NEW t \in Threads,
         \/ Read(t) \/ ReleaseRead(t) \/ \E l \in Locks : LockRelease(t, l)
         \/ ReleaseCas(t) /\ atom[lk[t]] # prev[t]
  PROVE  OwnerHolds' /\ SwapInv' /\ held' = held
<1>1. atom' = atom /\ held' = held
  BY Zenon DEF Read, ReleaseRead, ReleaseCas, LockRelease, client
<1>2. OwnerHolds'
  BY <1>1 DEF WordInv, OwnerHolds
<1>3. SwapInv'
  <2>1. CASE Read(t)
    BY <2>1, <1>1 DEF WordInv, SwapInv, Read, Goto, TypeOK
  <2>2. CASE ReleaseRead(t)
    BY Zenon, <2>2, <1>1 DEF WordInv, SwapInv, ReleaseRead, Goto, TypeOK
  <2>3. CASE \E l \in Locks : LockRelease(t, l)
    BY <2>3, <1>1 DEF WordInv, SwapInv, LockRelease, Goto, TypeOK
  <2>4. CASE ReleaseCas(t) /\ atom[lk[t]] # prev[t]
    BY <2>4, <1>1 DEF WordInv, SwapInv, ReleaseCas, Goto, TypeOK, local
  <2> QED BY <2>1, <2>2, <2>3, <2>4
<1> QED BY <1>1, <1>2, <1>3

\* The swap that takes the lock, when it succeeds.
LEMMA CasStep ==
  ASSUME WordInv, NEW t \in Threads, Cas(t), atom[lk[t]] = prev[t]
  PROVE  OwnerHolds' /\ SwapInv' /\ Took(t, lk[t])
<1> DEFINE l == lk[t]
<1>1. /\ l \in Locks
      /\ atom[l].owner = NoThd
      /\ atom' = [atom EXCEPT ![l] = [owner |-> t, contested |-> FALSE]]
      /\ held' = [held EXCEPT ![t] = held[t] \cup {l}]
      /\ pc' = [pc EXCEPT ![t] = "client"]
      /\ prev' = [prev EXCEPT ![t] = Free]
      /\ lk' = lk
  BY Zenon DEF WordInv, TypeOK, SwapInv, Cas, Return, Goto
<1>2. OwnerHolds'
  <2>1. /\ atom \in [Locks -> Word]
        /\ held \in [Threads -> SUBSET Locks]
    BY DEF WordInv, TypeOK
  <2>2. ASSUME NEW u \in Threads, NEW k \in Locks PROVE k \in held'[u] <=> atom'[k].owner = u
    <3>1. k \in held[u] <=> atom[k].owner = u
      BY Zenon DEF WordInv, OwnerHolds
    <3>2. CASE k = l
      BY Zenon, <1>1, <2>1, <3>1, <3>2, LockAssumption
    <3>3. CASE k # l
      BY Zenon, <1>1, <2>1, <3>1, <3>3
    <3> QED BY <3>2, <3>3
  <2> QED BY <2>2 DEF OwnerHolds
<1>3. SwapInv'
  <2> SUFFICES ASSUME NEW u \in Threads, u # t
               PROVE  /\ pc[u] = "cas" => prev[u].owner = NoThd
                      /\ pc[u] \in {"release_read", "release_cas", "release_zero"} => lk[u] \in held[u]
                      /\ pc[u] = "release_zero" => prev[u].contested /\ atom'[lk[u]] = prev[u]
    BY <1>1 DEF WordInv, TypeOK, SwapInv
  <2>1. pc[u] = "release_zero" => lk[u] # l
    <3>1. pc[u] = "release_zero" => lk[u] \in held[u]
      BY DEF WordInv, SwapInv
    <3>2. lk[u] \in held[u] => lk[u] \in Locks /\ atom[lk[u]].owner = u
      BY Zenon DEF WordInv, TypeOK, OwnerHolds
    <3>3. u # NoThd
      BY LockAssumption
    <3> QED BY Zenon, <1>1, <3>1, <3>2, <3>3
  <2> QED BY Zenon, <1>1, <2>1 DEF WordInv, TypeOK, SwapInv
<1> QED BY Zenon, <1>1, <1>2, <1>3 DEF Took

\* The swap that marks the word leaves the owner, and a word marked already.
LEMMA MarkStep ==
  ASSUME WordInv, NEW t \in Threads, Mark(t), atom[lk[t]] = prev[t]
  PROVE  OwnerHolds' /\ SwapInv' /\ held' = held
<1> DEFINE l == lk[t]
<1>1. /\ l \in Locks
      /\ atom' = [atom EXCEPT ![l] = [owner |-> atom[l].owner, contested |-> TRUE]]
      /\ held' = held
      /\ pc' = [pc EXCEPT ![t] = "marked"]
      /\ prev' = prev
      /\ lk' = lk
  BY DEF WordInv, TypeOK, Mark, Goto, local
<1>2. \A k \in Locks : atom'[k].owner = atom[k].owner
  BY <1>1 DEF WordInv, TypeOK
<1>3. OwnerHolds'
  BY Zenon, <1>1, <1>2 DEF WordInv, OwnerHolds
<1>4. atom[l].contested => atom'[l] = atom[l]
  BY Zenon, <1>1 DEF WordInv, TypeOK, Word
<1>5. SwapInv'
  <2>1. ASSUME NEW u \in Threads, pc[u] = "release_zero" PROVE atom'[lk[u]] = prev[u]
    BY Zenon, <2>1, <1>1, <1>4 DEF WordInv, TypeOK, SwapInv
  <2>2. pc'[t] = "marked" /\ \A u \in Threads : u # t => pc'[u] = pc[u]
    BY Zenon, <1>1 DEF WordInv, TypeOK
  <2> SUFFICES ASSUME NEW u \in Threads
               PROVE  /\ pc'[u] = "cas" => prev[u].owner = NoThd
                      /\ pc'[u] \in {"release_read", "release_cas", "release_zero"}
                           => lk[u] \in held[u]
                      /\ pc'[u] = "release_zero"
                           => prev[u].contested /\ atom'[lk[u]] = prev[u]
    BY Zenon, <1>1 DEF SwapInv
  <2>3. CASE u = t
    BY <2>2, <2>3
  <2>4. CASE u # t
    <3>1. pc'[u] = pc[u]
      BY Zenon, <2>2, <2>4
    <3> QED BY Zenon, <2>1, <3>1 DEF WordInv, SwapInv
  <2> QED BY Zenon, <2>3, <2>4
<1> QED BY Zenon, <1>1, <1>3, <1>5

\* The swap that frees the word, in lock_release or on its contended path.
LEMMA FreeStep ==
  ASSUME WordInv, NEW t \in Threads, atom[lk[t]] = prev[t], ReleaseCas(t) \/ ReleaseZero(t)
  PROVE  OwnerHolds' /\ SwapInv' /\ Gave(t, lk[t])
<1> DEFINE l == lk[t]
<1>1. /\ l \in Locks
      /\ l \in held[t]
      /\ atom[l].owner = t
      /\ atom' = [atom EXCEPT ![l] = Free]
      /\ held' = [held EXCEPT ![t] = held[t] \ {l}]
      /\ lk' = lk
  BY DEF WordInv, TypeOK, SwapInv, OwnerHolds, ReleaseCas, ReleaseZero, Return
<1>2. PICK p : pc' = [pc EXCEPT ![t] = p] /\ p \notin WordPc
  BY DEF ReleaseCas, ReleaseZero, Return, Goto, WordPc
<1>3. \A u \in Threads : u # t => prev'[u] = prev[u]
  BY DEF WordInv, TypeOK, ReleaseCas, ReleaseZero, Return
<1>4. OwnerHolds'
  <2>1. /\ atom \in [Locks -> Word]
        /\ held \in [Threads -> SUBSET Locks]
    BY DEF WordInv, TypeOK
  <2>2. ASSUME NEW u \in Threads, NEW k \in Locks PROVE k \in held'[u] <=> atom'[k].owner = u
    <3>1. k \in held[u] <=> atom[k].owner = u
      BY Zenon DEF WordInv, OwnerHolds
    <3>2. CASE k = l
      BY <1>1, <2>1, <3>1, <3>2, LockAssumption DEF Free
    <3>3. CASE k # l
      BY Zenon, <1>1, <2>1, <3>1, <3>3
    <3> QED BY <3>2, <3>3
  <2> QED BY <2>2 DEF OwnerHolds
<1>5. SwapInv'
  <2> SUFFICES ASSUME NEW u \in Threads, u # t
               PROVE  /\ pc[u] = "cas" => prev[u].owner = NoThd
                      /\ pc[u] \in {"release_read", "release_cas", "release_zero"} => lk[u] \in held[u]
                      /\ pc[u] = "release_zero" => prev[u].contested /\ atom'[lk[u]] = prev[u]
    <3>1. pc'[t] \notin WordPc /\ \A u \in Threads : u # t => pc'[u] = pc[u] /\ held'[u] = held[u]
      BY <1>1, <1>2 DEF WordInv, TypeOK
    <3> QED BY <1>1, <1>3, <3>1 DEF SwapInv, WordPc
  <2>1. pc[u] = "release_zero" => lk[u] # l
    BY <1>1 DEF WordInv, TypeOK, OwnerHolds, SwapInv
  <2> QED BY Zenon, <1>1, <2>1 DEF WordInv, TypeOK, SwapInv
<1> QED BY Zenon, <1>1, <1>4, <1>5 DEF Gave

\* A step of one thread to a place outside WordPc that leaves the words alone
\* is quiet.
LEMMA QuietMove ==
  ASSUME TypeOK, NEW t \in Threads, NEW p, p \notin WordPc,
         UNCHANGED <<atom, held>>, Goto(t, p),
         \A u \in Threads : u # t => lk'[u] = lk[u] /\ prev'[u] = prev[u]
  PROVE  Quiet
BY Zenon DEF Quiet, TypeOK, Goto

\* A reboot of the lock component is quiet.
LEMMA QuietReboot ==
  ASSUME TypeOK, NEW t \in Threads, Reboot(t)
  PROVE  Quiet
<1>1. ASSUME NEW u \in Threads, AfterFault(t, u) \in WordPc PROVE AfterFault(t, u) = pc[u]
  BY <1>1 DEF AfterFault, WordPc
<1> QED BY <1>1 DEF Reboot, Quiet, client, local

\* The steps of a thread that do not succeed in a swap are quiet.
LEMMA QuietSteps ==
  ASSUME TypeOK, NEW t \in Threads, Step(t),
         ~Read(t), ~ReleaseRead(t), ~ReleaseZero(t), ~ReleaseCas(t),
         Cas(t) \/ Mark(t) => atom[lk[t]] # prev[t]
  PROVE  Quiet
<1>1. CASE Take(t)
  <2>1. CASE Cas(t) \/ Mark(t)
    BY Zenon, <2>1, QuietMove DEF Cas, Mark, local, WordPc
  <2>2. CASE CheckOwner(t) \/ CheckContested(t) \/ Marked(t)
    BY Zenon, <2>2, QuietMove DEF CheckOwner, CheckContested, Marked, client, local, WordPc
  <2>3. CASE MarkedAssert(t)
    BY Zenon, <2>3 DEF MarkedAssert, client, local, Quiet
  <2>4. CASE Pretake(t) \/ Track(t) \/ TakeInvalid(t) \/ TakeMismatch(t)
    BY Zenon, <2>4, QuietMove DEF Pretake, Track, TakeInvalid, TakeMismatch, client, local, WordPc
  <2>5. CASE TakeBlock(t) \/ Block(t) \/ Resume(t) \/ Untrack(t)
    BY Zenon, <2>5, QuietMove DEF TakeBlock, Block, Resume, Untrack, client, local, WordPc
  <2> QED BY Zenon, <1>1, <2>1, <2>2, <2>3, <2>4, <2>5 DEF Take
<1>2. CASE Release(t)
  <2>1. CASE ReleaseNobody(t) \/ Done(t)
    <3>1. \A u \in Threads : u # t => prev'[u] = prev[u]
      BY <2>1 DEF ReleaseNobody, Done, Return, TypeOK
    <3> QED BY Zenon, <2>1, <3>1, QuietMove DEF ReleaseNobody, Done, Return, client, WordPc
  <2>2. CASE ReleaseDetach(t)
    BY Zenon, <2>2, QuietMove DEF ReleaseDetach, client, local, WordPc
  <2>3. CASE WakeRelease(t) \/ DoneAssert(t) \/ \E u \in Threads : WakeOne(t, u)
    BY Zenon, <2>3 DEF WakeRelease, DoneAssert, WakeOne, client, local, Quiet
  <2>4. CASE \E u \in Threads : WakeLast(t, u)
    BY Zenon, <2>4, QuietMove DEF WakeLast, client, local, WordPc
  <2> QED BY Zenon, <1>2, <2>1, <2>2, <2>3, <2>4 DEF Release
<1>3. CASE Recover(t)
  <2>1. CASE Invoke(t)
    <3>1. (IF call[t] = "take" THEN "track" ELSE call[t]) \notin WordPc
      BY DEF TypeOK, WordPc
    <3> QED BY Zenon, <2>1, <3>1, QuietMove DEF Invoke, client
  <2>2. CASE Alloc(t) \/ Cons(t) \/ Recovered(t) \/ StaleReturn(t)
    BY Zenon, <2>2, QuietMove DEF Alloc, Cons, Recovered, StaleReturn, client, local, WordPc
  <2>3. CASE TakeAssert(t)
    BY Zenon, <2>3, QuietReboot DEF TakeAssert
  <2>4. CASE \E u \in Threads : Notify(t, u)
    BY Zenon, <2>4 DEF Notify, client, local, Quiet
  <2> QED BY Zenon, <1>3, <2>1, <2>2, <2>3, <2>4 DEF Recover
<1> QED BY Zenon, <1>1, <1>2, <1>3 DEF Step

\* Every step preserves WordInv, and changes who holds what in one way only.
LEMMA NextWord ==
  ASSUME WordInv, [Next]_vars
  PROVE  /\ OwnerHolds' /\ SwapInv'
         /\ held' = held \/ \E t \in Threads, l \in Locks : Took(t, l) \/ Gave(t, l)
<1> DEFINE Goal == /\ OwnerHolds' /\ SwapInv'
                   /\ held' = held \/ \E t \in Threads, l \in Locks : Took(t, l) \/ Gave(t, l)
<1>1. ASSUME Quiet PROVE Goal
  BY <1>1, QuietStep DEF WordInv, Quiet
<1>2. ASSUME NEW t \in Threads, Step(t) PROVE Goal
  <2>0. lk[t] \in Locks
    BY Zenon DEF WordInv, TypeOK
  <2>1. CASE Read(t) \/ ReleaseRead(t) \/ (ReleaseCas(t) /\ atom[lk[t]] # prev[t])
    BY <2>1, ReadSteps
  <2>2. CASE Cas(t) /\ atom[lk[t]] = prev[t]
    BY <2>0, <2>2, CasStep
  <2>3. CASE Mark(t) /\ atom[lk[t]] = prev[t]
    BY Zenon, <2>3, MarkStep
  <2>4. CASE (ReleaseCas(t) /\ atom[lk[t]] = prev[t]) \/ ReleaseZero(t)
    <3>1. atom[lk[t]] = prev[t]
      BY <2>4 DEF ReleaseZero
    <3> QED BY <2>0, <2>4, <3>1, FreeStep
  <2>5. CASE /\ ~Read(t) /\ ~ReleaseRead(t) /\ ~ReleaseZero(t) /\ ~ReleaseCas(t)
             /\ Cas(t) \/ Mark(t) => atom[lk[t]] # prev[t]
    BY Zenon, <1>1, <1>2, <2>5, QuietSteps DEF WordInv
  <2> QED BY Zenon, <2>1, <2>2, <2>3, <2>4, <2>5
<1>3. ASSUME NEW t \in Threads, LeaveLock(t) PROVE Goal
  BY <1>3, ReadSteps DEF LeaveLock
<1>4. ASSUME NEW t \in Threads, EnterStep(t) PROVE Goal
  BY <1>1, <1>4 DEF EnterStep, Enter, client, local, Quiet
<1>5. ASSUME NEW t \in Threads, Fault(t) PROVE Goal
  BY <1>1, <1>5, QuietReboot DEF Fault, WordInv
<1>6. ASSUME NEW t \in Threads, NEW l \in Locks, LockTake(t, l) PROVE Goal
  <2>1. \A u \in Threads : u # t => lk'[u] = lk[u] /\ prev'[u] = prev[u]
    BY Zenon, <1>6 DEF LockTake, WordInv, TypeOK
  <2>2. Quiet
    BY Zenon, <1>6, <2>1, QuietMove DEF LockTake, client, WordInv, WordPc
  <2> QED BY <1>1, <2>2
<1>7. CASE UNCHANGED vars
  BY <1>1, <1>7 DEF vars, client, local, Quiet
<1> QED BY Zenon, <1>2, <1>3, <1>4, <1>5, <1>6, <1>7 DEF Next, Stopped

\* The invariant of the lock word.
LEMMA WordInvariant == Spec => []WordInv
<1>1. Init => OwnerHolds /\ SwapInv
  BY LockAssumption DEF Init, OwnerHolds, SwapInv, Free
<1>2. TypeOK' /\ WordInv /\ [Next]_vars => WordInv'
  BY NextWord DEF WordInv
<1>3. Init => WordInv
  BY <1>1, InitType DEF WordInv
<1> QED BY <1>2, <1>3, TypeCorrect, PTL DEF Spec

\* The word names the thread that holds the lock, whatever contenders, the
\* lock component and its failures do.
THEOREM OwnerAlwaysHolds == Spec => []OwnerHolds
<1>1. WordInv => OwnerHolds
  BY DEF WordInv
<1> QED BY <1>1, WordInvariant, PTL

\* The swap of lock_release_contention never fails.
THEOREM ReleaseSwapAlwaysSucceeds == Spec => []ReleaseSwapSucceeds
<1>1. WordInv => ReleaseSwapSucceeds
  BY DEF WordInv, SwapInv, ReleaseSwapSucceeds
<1> QED BY <1>1, WordInvariant, PTL

\* A step that takes or gives a lock is one of the abstract lock.
LEMMA AbstractStep ==
  ASSUME WordInv, OwnerHolds',
         held' = held \/ \E t \in Threads, l \in Locks : Took(t, l) \/ Gave(t, l)
  PROVE  Abstract!Next \/ Holders' = Holders
<1>1. CASE held' = held
  BY <1>1 DEF Holders
<1>2. ASSUME NEW t \in Threads, NEW l \in Locks, Took(t, l) PROVE Abstract!Acquire(t, l)
  <2>1. Holders[l] = {}
    <3>1. \A u \in Threads : l \in held[u] <=> atom[l].owner = u
      BY DEF WordInv, OwnerHolds
    <3> QED BY Zenon, <1>2, <3>1, LockAssumption DEF Took, Holders
  <2>2. Holders' = [Holders EXCEPT ![l] = {t}]
    <3>1. held \in [Threads -> SUBSET Locks] /\ held' = [held EXCEPT ![t] = held[t] \cup {l}]
      BY <1>2 DEF Took, WordInv, TypeOK
    <3>2. ASSUME NEW k \in Locks, k # l PROVE Holders'[k] = Holders[k]
      BY <3>1, <3>2 DEF Holders
    <3>3. Holders'[l] = {t}
      BY <3>1, <2>1 DEF Holders
    <3> QED BY Zenon, <3>2, <3>3 DEF Holders
  <2> QED BY <2>1, <2>2 DEF Abstract!Acquire
<1>3. ASSUME NEW t \in Threads, NEW l \in Locks, Gave(t, l) PROVE Abstract!Release(t, l)
  <2>1. Holders[l] = {t}
    <3>1. \A u \in Threads : l \in held[u] <=> atom[l].owner = u
      BY DEF WordInv, OwnerHolds
    <3>2. atom[l].owner = t
      BY <1>3, <3>1 DEF Gave
    <3> QED BY Zenon, <3>1, <3>2 DEF Holders
  <2>2. Holders' = [Holders EXCEPT ![l] = {}]
    <3>1. held \in [Threads -> SUBSET Locks] /\ held' = [held EXCEPT ![t] = held[t] \ {l}]
      BY <1>3 DEF Gave, WordInv, TypeOK
    <3>2. ASSUME NEW k \in Locks, k # l PROVE Holders'[k] = Holders[k]
      BY <3>1, <3>2 DEF Holders
    <3>3. Holders'[l] = {}
      BY <3>1, <2>1 DEF Holders
    <3> QED BY Zenon, <3>2, <3>3 DEF Holders
  <2> QED BY Zenon, <2>1, <2>2 DEF Abstract!Release
<1> QED BY <1>1, <1>2, <1>3 DEF Abstract!Next

\* lock_take and lock_release implement the abstract lock for any number of
\* threads and locks and any failures of the lock component.
THEOREM LockImplementsMutex == Spec => ImplementsMutex
<1>1. Init => Abstract!Init
  BY DEF Init, Abstract!Init, Holders
<1>2. WordInv /\ [Next]_vars => [Abstract!Next]_Holders
  BY NextWord, AbstractStep
<1> QED BY <1>1, <1>2, WordInvariant, PTL DEF Spec, ImplementsMutex, Abstract!Spec
-----------------------------------------------------------------------------
(* The tracking list of the server stub *)

InTake == {"take", "block", "asleep", "untrack"}

\* A step that leaves the list alone and moves no thread into or out of take.
LEMMA TrackFrame ==
  ASSUME TypeOK, TrackedInTake, NEW t \in Threads, NEW p, pc' = [pc EXCEPT ![t] = p],
         (p \in InTake /\ tracked' = tracked \cup {t}) \/ (p \notin InTake /\ tracked' = tracked \ {t})
  PROVE  TrackedInTake'
BY DEF TypeOK, TrackedInTake, InTake

\* Every step keeps the list of the server stub exact.
LEMMA NextTracked ==
  ASSUME TypeOK, TrackedInTake, [Next]_vars
  PROVE  TrackedInTake'
<1>1. ASSUME NEW t \in Threads, NEW p, Goto(t, p), tracked' = tracked, pc[t] \in InTake <=> p \in InTake
      PROVE  TrackedInTake'
  <2>1. CASE p \in InTake
    <3>1. tracked = tracked \cup {t}
      BY <1>1, <2>1 DEF TrackedInTake, InTake
    <3> QED BY Zenon, <1>1, <2>1, <3>1, TrackFrame DEF Goto
  <2>2. CASE p \notin InTake
    <3>1. tracked = tracked \ {t}
      BY <1>1, <2>2 DEF TrackedInTake, InTake
    <3> QED BY Zenon, <1>1, <2>2, <3>1, TrackFrame DEF Goto
  <2> QED BY <2>1, <2>2
<1>2. ASSUME NEW t \in Threads, Reboot(t) PROVE TrackedInTake'
  <2>1. ASSUME NEW u \in Threads PROVE AfterFault(t, u) \notin InTake
    BY DEF TypeOK, AfterFault, InTake, Pc, ServerPc, SectionPc
  <2> QED BY <1>2, <2>1 DEF Reboot, TrackedInTake, InTake
<1>3. ASSUME pc' = pc, tracked' = tracked PROVE TrackedInTake'
  BY <1>3 DEF TrackedInTake
<1>4. ASSUME NEW t \in Threads, Take(t) PROVE TrackedInTake'
  <2>1. CASE Track(t)
    BY Zenon, <2>1, TrackFrame DEF Track, Goto, InTake
  <2>2. CASE Untrack(t)
    <3>1. (IF id[t] = NoId THEN "alloc" ELSE "read") \notin InTake
      BY DEF InTake
    <3> QED BY Zenon, <2>2, <3>1, TrackFrame DEF Untrack, Goto
  <2>3. CASE Read(t) \/ Cas(t) \/ CheckOwner(t) \/ CheckContested(t) \/ Mark(t) \/ Marked(t)
             \/ MarkedAssert(t)
    BY Zenon, <2>3, <1>1, <1>3 DEF Read, Cas, Return, CheckOwner, CheckContested, Mark, Marked,
                            MarkedAssert, server, InTake
  <2>4. CASE Pretake(t) \/ TakeInvalid(t) \/ TakeMismatch(t) \/ TakeBlock(t) \/ Block(t) \/ Resume(t)
    BY <2>4, <1>1 DEF Pretake, TakeInvalid, TakeMismatch, TakeBlock, Block, Resume, InSection,
                      server, InTake
  <2> QED BY <1>4, <2>1, <2>2, <2>3, <2>4 DEF Take
<1>5. ASSUME NEW t \in Threads, Release(t) PROVE TrackedInTake'
  BY Zenon, <1>5, <1>1, <1>3 DEF Release, ReleaseRead, ReleaseCas, ReleaseZero, ReleaseNobody,
    ReleaseDetach, WakeRelease, WakeOne, WakeLast, Done, DoneAssert, Return, InSection, server, InTake
<1>6. ASSUME NEW t \in Threads, Recover(t) PROVE TrackedInTake'
  <2>1. CASE Invoke(t)
    <3>1. (IF call[t] = "take" THEN "track" ELSE call[t]) \notin InTake
      BY DEF TypeOK, InTake
    <3> QED BY <2>1, <3>1, <1>1 DEF Invoke, server, InTake
  <2>2. CASE Recovered(t) \/ StaleReturn(t) \/ Alloc(t) \/ Cons(t)
    BY Zenon, <2>2, <1>1 DEF Recovered, StaleReturn, Alloc, Cons, InSection, server, InTake
  <2>3. CASE TakeAssert(t) \/ \E u \in Threads : Notify(t, u)
    BY Zenon, <2>3, <1>2, <1>3 DEF TakeAssert, Notify, server
  <2> QED BY Zenon, <1>6, <2>1, <2>2, <2>3 DEF Recover
<1>7. ASSUME NEW t \in Threads, EnterStep(t) \/ LeaveLock(t) \/ Fault(t)
                               \/ \E l \in Locks : LockTake(t, l)
      PROVE  TrackedInTake'
  BY Zenon, <1>7, <1>1, <1>2, <1>3 DEF EnterStep, Enter, LeaveLock, LockRelease, Fault, LockTake, server, InTake
<1>8. CASE UNCHANGED vars
  BY <1>8, <1>3 DEF vars, server
<1> QED BY <1>4, <1>5, <1>6, <1>7, <1>8 DEF Next, Step, Stopped

\* The server stub tracks exactly the threads inside lock_component_take, also
\* across reboots.
THEOREM TrackedAlwaysInTake == Spec => []TrackedInTake
<1>1. Init => TrackedInTake
  BY DEF Init, TrackedInTake
<1>2. TypeOK /\ TrackedInTake /\ [Next]_vars => TrackedInTake'
  BY NextTracked
<1> QED BY <1>1, <1>2, TypeCorrect, PTL DEF Spec
-----------------------------------------------------------------------------
(* Sleeping and waking, while the lock component does not fail *)

\* t is going to sleep or sleeps, and nobody has woken it yet.
Due(t) == \/ pc[t] = "block" /\ wake_cnt[t] = 1
          \/ pc[t] = "asleep" /\ wake_cnt[t] = 0

\* Such a thread, and no other, is on the list of its lock or on the list one
\* release has detached, on one of them only: wakeups are never left over.
ListOf(t) ==
  /\ pc[t] \notin {"recover", "recover_alloc", "stale"}
  /\ pc[t] = "block" => wake_cnt[t] # 0
  /\ pc[t] \notin {"block", "asleep"} => wake_cnt[t] = 1
  /\ blocked_on[t] # NoId => Due(t) /\ blocked_on[t] = id[t]
  /\ Due(t) => blocked_on[t] # NoId \/ \E u \in Threads : t \in waking[u]
  /\ \A u \in Threads : t \in waking[u] => Due(t) /\ blocked_on[t] = NoId /\ pc[u] = "wake"
  /\ \A u, v \in Threads : t \in waking[u] /\ t \in waking[v] => u = v

\* The steps that use the id an invocation was made with.
WithId == {"pretake", "track", "take", "block", "asleep", "untrack", "release"}

\* The lock component knows the id of every invocation.
IdOf(t) ==
  /\ pc[t] \notin {"alloc", "cons"}
  /\ pc[t] \in WithId => id[t] = server_lock_id[lk[t]]

Ids ==
  /\ \A l \in Locks : server_lock_id[l] \in 1..(lock_id - 1)
  /\ \A l, k \in Locks : server_lock_id[l] = server_lock_id[k] => l = k

ListInv == TypeOK /\ Ids /\ \A t \in Threads : ListOf(t) /\ IdOf(t)

\* t has found a lock taken and has not yet looked at the word again.
Contends(t) ==
  \/ pc[t] \in {"pretake", "owner", "contested", "mark", "marked", "track", "take", "block",
                "asleep", "untrack"}
  \/ pc[t] = "call" /\ call[t] # "release"

\* t is on its way to sleep for a word it saw marked.
Committed(t) == \/ pc[t] \in {"marked", "track", "take"}
                \/ pc[t] = "call" /\ call[t] = "take"

\* The release u makes has yet to look at the list.
Releasing(u) == \/ pc[u] = "release"
                \/ pc[u] = "call" /\ call[u] = "release"

\* Somebody will look at the list of t's lock.
Pending(t) == \/ atom[lk[t]].contested
              \/ \E u \in Threads : lk[u] = lk[t] /\ Releasing(u)

ContendOf(t) ==
  /\ pc[t] \in {"read", "cas"} \/ Contends(t) => lk[t] \notin held[t]
  /\ Contends(t) => prev[t].owner # NoThd
  /\ pc[t] = "release_cas" => ~prev[t].contested
  /\ \A u \in Threads : Contends(t) /\ Contends(u) /\ lk[t] = lk[u] => t = u
  /\ Committed(t) /\ server_lock_id[lk[t]] \in current => Pending(t)
  /\ blocked_on[t] # NoId => Pending(t)

Owned == \A l \in Locks : atom[l].contested => atom[l].owner # NoThd

ContendInv == Owned /\ \A t \in Threads : ContendOf(t)

\* A step of t leaves what the other threads keep alone.
Others(t) ==
  \A u \in Threads : u # t =>
    /\ pc'[u] = pc[u] /\ lk'[u] = lk[u] /\ id'[u] = id[u] /\ call'[u] = call[u]
    /\ prev'[u] = prev[u] /\ held'[u] = held[u]

\* A step of t that leaves the lists, the wake counts and the ids alone.
Calm(t) == Others(t) /\ UNCHANGED <<blocked_on, waking, wake_cnt, server_lock_id, lock_id>>

\* Without a failure nothing is on a list when the component looks for it there.
LEMMA ListSound == ASSUME ListInv PROVE ListsSound
<1> SUFFICES ASSUME NEW t \in Threads
             PROVE  /\ InSection(t, "take") /\ Found(t) => blocked_on[t] # id[t]
                    /\ t \notin waking[t]
  BY DEF ListsSound
<1>1. ListOf(t)
  BY DEF ListInv
<1>2. pc[t] = "take" => blocked_on[t] = NoId
  BY <1>1 DEF ListOf, Due
<1>3. Found(t) => id[t] # NoId
  BY DEF Found, NoId
<1>4. t \notin waking[t]
  BY <1>1 DEF ListOf, Due
<1> QED BY <1>2, <1>3, <1>4 DEF InSection

\* A calm step of a thread that is not about to sleep or to wake others.
LEMMA ListFrame ==
  ASSUME ListInv, NEW t \in Threads, Calm(t),
         \/ pc'[t] = pc[t] /\ id'[t] = id[t]
         \/ /\ pc[t] \notin {"block", "asleep", "wake"}
            /\ pc'[t] \notin {"block", "asleep", "recover", "recover_alloc", "stale"}
  PROVE  \A u \in Threads : ListOf(u)'
<1> SUFFICES ASSUME NEW u \in Threads PROVE ListOf(u)'
  OBVIOUS
<1>1. /\ ListOf(u) /\ ListOf(t)
      /\ blocked_on' = blocked_on /\ waking' = waking /\ wake_cnt' = wake_cnt
  BY DEF ListInv, Calm
<1>2. \A v \in Threads : v # t => pc'[v] = pc[v] /\ id'[v] = id[v]
  BY DEF Calm, Others
<1>3. \A v \in Threads : pc[v] = "wake" => pc'[v] = "wake"
  BY Zenon, <1>2
<1>4. CASE pc'[u] = pc[u] /\ id'[u] = id[u]
  BY Zenon, <1>1, <1>3, <1>4 DEF ListOf, Due
<1>5. CASE ~(pc'[u] = pc[u] /\ id'[u] = id[u])
  <2>1. /\ pc[u] \notin {"block", "asleep"}
        /\ pc'[u] \notin {"block", "asleep", "recover", "recover_alloc", "stale"}
    BY <1>2, <1>5
  <2>2. blocked_on[u] = NoId /\ (\A v \in Threads : u \notin waking[v]) /\ wake_cnt[u] = 1
    BY Zenon, <1>1, <2>1 DEF ListOf, Due
  <2> QED BY Zenon, <1>1, <2>1, <2>2 DEF ListOf, Due
<1> QED BY <1>4, <1>5

\* The ids an invocation uses stay those of its lock.
LEMMA IdFrame ==
  ASSUME ListInv, NEW t \in Threads, Others(t), UNCHANGED <<server_lock_id, lock_id>>,
         pc'[t] \notin {"alloc", "cons"},
         pc'[t] \in WithId => id'[t] = server_lock_id[lk'[t]]
  PROVE  Ids' /\ \A u \in Threads : IdOf(u)'
<1>1. Ids'
  BY DEF ListInv, Ids
<1>2. ASSUME NEW u \in Threads PROVE IdOf(u)'
  <2>1. CASE u = t
    BY <2>1 DEF IdOf
  <2>2. CASE u # t
    <3>1. IdOf(u) /\ pc'[u] = pc[u] /\ lk'[u] = lk[u] /\ id'[u] = id[u]
      BY <2>2 DEF ListInv, Others
    <3> QED BY <3>1 DEF IdOf
  <2> QED BY <2>1, <2>2
<1> QED BY <1>1, <1>2

\* The lock component knows the id of an invocation.
LEMMA IdKnown ==
  ASSUME ListInv, NEW t \in Threads, pc[t] \in WithId
  PROVE  Found(t) /\ id[t] = server_lock_id[lk[t]] /\ id[t] # NoId
<1>1. id[t] = server_lock_id[lk[t]] /\ lk[t] \in Locks
  BY Zenon DEF ListInv, IdOf, TypeOK
<1>2. server_lock_id[lk[t]] \in 1..(lock_id - 1)
  BY <1>1 DEF ListInv, Ids
<1> QED BY <1>1, <1>2 DEF Found, NoId

\* Without a failure of the component nobody recovers.
LEMMA NoRecovery ==
  ASSUME ListInv, NEW t \in Threads, MaxFaults = 0
  PROVE  /\ ~TakeInvalid(t) /\ ~Alloc(t) /\ ~Cons(t) /\ ~Recovered(t) /\ ~StaleReturn(t)
         /\ ~TakeAssert(t) /\ ~Fault(t) /\ \A u \in Threads : ~Notify(t, u)
<1>1. ListOf(t) /\ IdOf(t)
  BY DEF ListInv
<1>2. ~TakeInvalid(t)
  BY Zenon, IdKnown DEF TakeInvalid, InSection, WithId
<1>3. ~Alloc(t) /\ ~Cons(t)
  BY Zenon, <1>1 DEF IdOf, Alloc, Cons, InSection
<1>4. ~Recovered(t) /\ ~StaleReturn(t) /\ \A u \in Threads : ~Notify(t, u)
  BY Zenon, <1>1 DEF ListOf, Recovered, StaleReturn, Notify
<1>5. ~TakeAssert(t)
  BY ListSound DEF ListsSound, TakeAssert
<1>6. ~Fault(t)
  BY DEF ListInv, TypeOK, Fault
<1> QED BY <1>2, <1>3, <1>4, <1>5, <1>6

\* Where t goes and what it does not touch on the way.
LEMMA MovesTo ==
  ASSUME TypeOK, NEW t \in Threads, NEW p, Goto(t, p)
  PROVE  pc'[t] = p /\ \A u \in Threads : u # t => pc'[u] = pc[u]
BY DEF TypeOK, Goto

LEMMA ReturnOthers ==
  ASSUME TypeOK, NEW t \in Threads, Return(t),
         \A u \in Threads : u # t => held'[u] = held[u]
  PROVE  pc'[t] = "client" /\ Others(t)
<1>1. pc'[t] = "client" /\ \A u \in Threads : u # t => pc'[u] = pc[u]
  BY Zenon, MovesTo DEF Return
<1>2. \A u \in Threads : u # t => prev'[u] = prev[u] /\ id'[u] = id[u]
  BY Zenon DEF Return, TypeOK
<1>3. \A u \in Threads : u # t => call'[u] = call[u] /\ lk'[u] = lk[u]
  BY Zenon DEF Return, TypeOK
<1> QED BY Zenon, <1>1, <1>2, <1>3 DEF Others

\* The steps of lock_take in client memory.
LEMMA TakeCalm ==
  ASSUME ListInv, NEW t \in Threads,
         \/ Read(t) \/ Cas(t) \/ CheckOwner(t) \/ CheckContested(t) \/ Mark(t) \/ Marked(t)
         \/ MarkedAssert(t)
  PROVE  /\ Calm(t) /\ pc[t] \notin {"block", "asleep", "wake"}
         /\ pc'[t] \in {"client", "read", "cas", "call", "contested", "mark", "marked"}
<1>1. TypeOK
  BY DEF ListInv
<1>2. CASE Read(t)
  <2>1. \A u \in Threads : u # t => prev'[u] = prev[u] /\ call'[u] = call[u]
    BY Zenon, <1>1, <1>2 DEF Read, TypeOK
  <2>2. pc'[t] \in {"cas", "call"} /\ \A u \in Threads : u # t => pc'[u] = pc[u]
    BY Zenon, <1>1, <1>2, MovesTo DEF Read
  <2> QED BY Zenon, <1>2, <2>1, <2>2 DEF Read, Calm, Others, client, server
<1>3. CASE Cas(t)
  <2>1. CASE atom[lk[t]] = prev[t]
    <3>1. Return(t) /\ \A u \in Threads : u # t => held'[u] = held[u]
      BY <1>1, <1>3, <2>1 DEF Cas, TypeOK
    <3> QED BY Zenon, <1>1, <1>3, <3>1, ReturnOthers DEF Cas, Calm, server
  <2>2. CASE atom[lk[t]] # prev[t]
    <3>1. pc'[t] = "read" /\ \A u \in Threads : u # t => pc'[u] = pc[u]
      BY Zenon, <1>1, <1>3, <2>2, MovesTo DEF Cas
    <3> QED BY Zenon, <1>3, <2>2, <3>1 DEF Cas, Calm, Others, local, server
  <2> QED BY <2>1, <2>2
<1>4. CASE CheckOwner(t)
  <2>1. pc'[t] \in {"contested", "read"} /\ \A u \in Threads : u # t => pc'[u] = pc[u]
    BY Zenon, <1>1, <1>4, MovesTo DEF CheckOwner
  <2> QED BY Zenon, <1>4, <2>1 DEF CheckOwner, Calm, Others, client, local, server
<1>5. CASE CheckContested(t) \/ Marked(t)
  <2>1. pc'[t] \in {"call", "mark"} /\ \A u \in Threads : u # t => pc'[u] = pc[u]
    BY Zenon, <1>1, <1>5, MovesTo DEF CheckContested, Marked
  <2>2. \A u \in Threads : u # t => call'[u] = call[u]
    BY Zenon, <1>1, <1>5 DEF CheckContested, Marked, TypeOK
  <2> QED BY Zenon, <1>5, <2>1, <2>2 DEF CheckContested, Marked, Calm, Others, client, server
<1>6. CASE Mark(t)
  <2>1. pc'[t] \in {"marked", "read"} /\ \A u \in Threads : u # t => pc'[u] = pc[u]
    BY Zenon, <1>1, <1>6, MovesTo DEF Mark
  <2> QED BY Zenon, <1>6, <2>1 DEF Mark, Calm, Others, local, server
<1>7. CASE MarkedAssert(t)
  BY Zenon, <1>7 DEF MarkedAssert, Calm, Others, client, local, server
<1> QED BY Zenon, <1>2, <1>3, <1>4, <1>5, <1>6, <1>7

\* The steps of lock_release in client memory, and the start of a call.
LEMMA ReleaseCalm ==
  ASSUME ListInv, NEW t \in Threads,
         \/ ReleaseRead(t) \/ ReleaseCas(t) \/ ReleaseZero(t)
         \/ \E l \in Locks : LockTake(t, l) \/ LockRelease(t, l)
  PROVE  /\ Calm(t) /\ pc[t] \notin {"block", "asleep", "wake"}
         /\ pc'[t] \in {"client", "read", "release_read", "release_cas", "release_zero", "call"}
<1>1. TypeOK
  BY Zenon DEF ListInv
<1>2. CASE ReleaseRead(t)
  <2>1. \A u \in Threads : u # t => prev'[u] = prev[u]
    BY Zenon, <1>1, <1>2 DEF ReleaseRead, TypeOK
  <2>2. pc'[t] \in {"release_zero", "release_cas"} /\ \A u \in Threads : u # t => pc'[u] = pc[u]
    BY Zenon, <1>1, <1>2, MovesTo DEF ReleaseRead
  <2> QED BY Zenon, <1>2, <2>1, <2>2 DEF ReleaseRead, Calm, Others, client, server
<1>3. CASE ReleaseCas(t)
  <2>1. CASE atom[lk[t]] = prev[t]
    <3>1. Return(t) /\ \A u \in Threads : u # t => held'[u] = held[u]
      BY Zenon, <1>1, <1>3, <2>1 DEF ReleaseCas, TypeOK
    <3> QED BY Zenon, <1>1, <1>3, <3>1, ReturnOthers DEF ReleaseCas, Calm, server
  <2>2. CASE atom[lk[t]] # prev[t]
    <3>1. pc'[t] = "release_read" /\ \A u \in Threads : u # t => pc'[u] = pc[u]
      BY Zenon, <1>1, <1>3, <2>2, MovesTo DEF ReleaseCas
    <3> QED BY Zenon, <1>3, <2>2, <3>1 DEF ReleaseCas, Calm, Others, local, server
  <2> QED BY Zenon, <2>1, <2>2
<1>4. CASE ReleaseZero(t)
  <2>1. pc'[t] = "call" /\ \A u \in Threads : u # t => pc'[u] = pc[u]
    BY Zenon, <1>1, <1>4, MovesTo DEF ReleaseZero
  <2>2. \A u \in Threads : u # t => call'[u] = call[u] /\ held'[u] = held[u]
    BY Zenon, <1>1, <1>4 DEF ReleaseZero, TypeOK
  <2> QED BY Zenon, <1>4, <2>1, <2>2 DEF ReleaseZero, Calm, Others, server
<1>5. CASE \E l \in Locks : LockTake(t, l) \/ LockRelease(t, l)
  <2>1. pc'[t] \in {"read", "release_read"} /\ \A u \in Threads : u # t => pc'[u] = pc[u]
    BY Zenon, <1>1, <1>5, MovesTo DEF LockTake, LockRelease
  <2>2. \A u \in Threads : u # t => lk'[u] = lk[u]
    BY Zenon, <1>1, <1>5 DEF LockTake, LockRelease, TypeOK
  <2> QED BY Zenon, <1>5, <2>1, <2>2 DEF LockTake, LockRelease, Calm, Others, client, server
<1> QED BY Zenon, <1>2, <1>3, <1>4, <1>5

\* The steps in the lock component that leave its lists alone, the stub's
\* invocation, and a step into the critical section.
LEMMA ServerCalm ==
  ASSUME ListInv, NEW t \in Threads,
         \/ Invoke(t) \/ Enter(t) \/ Pretake(t) \/ Track(t) \/ TakeMismatch(t) \/ Untrack(t)
         \/ ReleaseNobody(t) \/ WakeRelease(t) \/ Done(t) \/ DoneAssert(t)
  PROVE  /\ Calm(t)
         /\ \/ UNCHANGED <<pc, id, lk>>
            \/ /\ pc[t] \notin {"block", "asleep", "wake"}
               /\ pc'[t] \in {"pretake", "track", "take", "untrack", "release", "owner", "read", "client"}
               /\ pc'[t] \in WithId => id'[t] = server_lock_id[lk'[t]]
<1>1. TypeOK
  BY DEF ListInv
<1>2. CASE Invoke(t)
  <2>1. /\ pc'[t] \in {"pretake", "track", "release"}
        /\ \A u \in Threads : u # t => pc'[u] = pc[u]
    <3>1. (IF call[t] = "take" THEN "track" ELSE call[t]) \in {"pretake", "track", "release"}
      BY Zenon, <1>1 DEF TypeOK
    <3> QED BY Zenon, <1>1, <1>2, <3>1, MovesTo DEF Invoke
  <2>2. id'[t] = server_lock_id[lk[t]] /\ \A u \in Threads : u # t => id'[u] = id[u]
    BY <1>1, <1>2 DEF Invoke, TypeOK
  <2> QED BY Zenon, <1>2, <2>1, <2>2 DEF Invoke, Calm, Others, client, server
<1>3. CASE Enter(t) \/ WakeRelease(t) \/ DoneAssert(t)
  BY Zenon, <1>3 DEF Enter, WakeRelease, DoneAssert, Calm, Others, client, local, server
<1>4. CASE Pretake(t)
  <2>1. Found(t)
    BY Zenon, <1>4, IdKnown DEF Pretake, InSection, WithId
  <2>2. pc'[t] = "owner" /\ \A u \in Threads : u # t => pc'[u] = pc[u]
    BY Zenon, <1>1, <1>4, <2>1, MovesTo DEF Pretake
  <2> QED BY Zenon, <1>4, <2>2 DEF Pretake, InSection, Calm, Others, client, local, WithId
<1>5. CASE Track(t) \/ TakeMismatch(t)
  <2>1. pc[t] \in {"track", "take"} /\ id[t] = server_lock_id[lk[t]]
    BY Zenon, <1>5, IdKnown DEF Track, TakeMismatch, InSection, WithId
  <2>2. pc'[t] \in {"take", "untrack"} /\ \A u \in Threads : u # t => pc'[u] = pc[u]
    BY Zenon, <1>1, <1>5, MovesTo DEF Track, TakeMismatch
  <2> QED BY Zenon, <1>5, <2>1, <2>2 DEF Track, TakeMismatch, Calm, Others, client, local, WithId
<1>6. CASE Untrack(t)
  <2>1. pc[t] = "untrack" /\ id[t] # NoId
    BY Zenon, <1>6, IdKnown DEF Untrack, InSection, WithId
  <2>2. pc'[t] = "read" /\ \A u \in Threads : u # t => pc'[u] = pc[u]
    BY Zenon, <1>1, <1>6, <2>1, MovesTo DEF Untrack
  <2> QED BY Zenon, <1>6, <2>1, <2>2 DEF Untrack, Calm, Others, client, local, WithId
<1>7. CASE ReleaseNobody(t) \/ Done(t)
  <2>1. pc[t] \in {"release", "done"} /\ Return(t) /\ held' = held
    BY Zenon, <1>7 DEF ReleaseNobody, Done, InSection, client
  <2>2. pc'[t] = "client" /\ Others(t)
    BY Zenon, <1>1, <2>1, ReturnOthers
  <2> QED BY Zenon, <1>7, <2>1, <2>2 DEF ReleaseNobody, Done, Calm, client, server, WithId
<1> QED BY Zenon, <1>2, <1>3, <1>4, <1>5, <1>6, <1>7

\* The wake counts are 0, 1 and 2; sched_block takes a count that is not 0
\* down by one.
LEMMA Counts ==
  /\ 1 # 0 /\ 2 # 0 /\ 2 # 1
  /\ \A n \in 0..2 : n > 0 => n # 0
  /\ \A n \in 0..2 : n # 0 => (n = 1 /\ n - 1 = 0) \/ (n = 2 /\ n - 1 = 1)
<1>1. 1 # 0 /\ 2 # 0 /\ 2 # 1
  OBVIOUS
<1>2. ASSUME NEW n \in 0..2, n > 0 PROVE n # 0
  BY <1>2
<1>3. ASSUME NEW n \in 0..2, n # 0 PROVE (n = 1 /\ n - 1 = 0) \/ (n = 2 /\ n - 1 = 1)
  BY <1>3
<1> QED BY Zenon, <1>1, <1>2, <1>3

\* lock_component_take puts the thread on the list of its lock.
LEMMA ListTakeBlock ==
  ASSUME ListInv, NEW t \in Threads, TakeBlock(t)
  PROVE  /\ pc[t] = "take" /\ pc'[t] = "block" /\ Others(t)
         /\ UNCHANGED <<id, lk, server_lock_id, lock_id>>
         /\ \A u \in Threads : ListOf(u)'
<1>1. TypeOK /\ pc[t] = "take" /\ id[t] # NoId
  BY Zenon, IdKnown DEF ListInv, TakeBlock, InSection, WithId
<1>2. pc'[t] = "block" /\ \A u \in Threads : u # t => pc'[u] = pc[u]
  BY Zenon, <1>1, MovesTo DEF TakeBlock
<1>3. UNCHANGED <<id, lk, call, prev, held, server_lock_id, lock_id, waking, wake_cnt>>
  BY Zenon DEF TakeBlock, client, local
<1>4. blocked_on'[t] = id[t] /\ \A u \in Threads : u # t => blocked_on'[u] = blocked_on[u]
  BY <1>1 DEF TakeBlock, TypeOK
<1>5. \A v \in Threads : pc[v] = "wake" => pc'[v] = "wake"
  BY <1>1, <1>2
<1>6. ASSUME NEW u \in Threads PROVE ListOf(u)'
  <2>1. ListOf(u)
    BY Zenon DEF ListInv
  <2>2. CASE u = t
    <3>1. wake_cnt[t] = 1 /\ \A v \in Threads : t \notin waking[v]
      BY Zenon, <1>1, <2>1, <2>2 DEF ListOf, Due
    <3>2. pc'[u] = "block" /\ wake_cnt'[u] = 1 /\ blocked_on'[u] = id'[u] /\ id'[u] # NoId
      BY Zenon, <1>1, <1>2, <1>3, <1>4, <2>2, <3>1
    <3>3. \A v \in Threads : u \notin waking'[v]
      BY Zenon, <1>3, <2>2, <3>1
    <3>4. Due(u)'
      BY Zenon, <3>2 DEF Due
    <3>5. pc'[u] \notin {"recover", "recover_alloc", "stale"} /\ wake_cnt'[u] # 0
      BY Zenon, <3>2, Counts
    <3> QED BY Zenon, <3>2, <3>3, <3>4, <3>5 DEF ListOf
  <2>3. CASE u # t
    <3>1. pc'[u] = pc[u] /\ blocked_on'[u] = blocked_on[u]
      BY Zenon, <1>2, <1>4, <2>3
    <3>2. Due(u)' = Due(u) /\ id' = id /\ wake_cnt' = wake_cnt /\ waking' = waking
      BY Zenon, <1>3, <3>1 DEF Due
    <3> QED BY Zenon, <1>5, <2>1, <3>1, <3>2 DEF ListOf
  <2> QED BY <2>2, <2>3
<1> QED BY Zenon, <1>1, <1>2, <1>3, <1>6 DEF Others

\* sched_block, going to sleep or returning at once, and its return later.
LEMMA ListBlock ==
  ASSUME ListInv, NEW t \in Threads, Block(t) \/ Resume(t)
  PROVE  /\ pc[t] \in {"block", "asleep"} /\ pc'[t] \in {"asleep", "untrack"} /\ Others(t)
         /\ UNCHANGED <<id, lk, blocked_on, server_lock_id, lock_id>>
         /\ \A u \in Threads : ListOf(u)'
<1>1. TypeOK /\ pc[t] \in {"block", "asleep"}
  BY Zenon DEF ListInv, Block, Resume
<1>2. pc'[t] \in {"asleep", "untrack"} /\ \A u \in Threads : u # t => pc'[u] = pc[u]
  BY Zenon, <1>1, MovesTo DEF Block, Resume
<1>3. UNCHANGED <<id, lk, call, prev, held, server_lock_id, lock_id, waking, blocked_on>>
  BY Zenon DEF Block, Resume, client, local, server
<1>4. \A u \in Threads : u # t => wake_cnt'[u] = wake_cnt[u]
  BY <1>1 DEF Block, Resume, TypeOK
<1>5. \A v \in Threads : pc[v] = "wake" => pc'[v] = "wake"
  BY Zenon, <1>1, <1>2
<1>6. ListOf(t)
  BY DEF ListInv
<1>7. \/ Due(t) /\ pc'[t] = "asleep" /\ wake_cnt'[t] = 0
      \/ ~Due(t) /\ pc'[t] = "untrack" /\ wake_cnt'[t] = 1
  <2>1. wake_cnt[t] \in 0..2
    BY Zenon, <1>1 DEF TypeOK
  <2>2. CASE Block(t)
    <3>1. wake_cnt'[t] = wake_cnt[t] - 1 /\ pc[t] = "block" /\ wake_cnt[t] # 0
      BY <1>1, <1>6, <2>2 DEF Block, TypeOK, ListOf
    <3>2. pc'[t] = IF wake_cnt[t] = 2 THEN "untrack" ELSE "asleep"
      BY Zenon, <1>1, <2>2, MovesTo DEF Block
    <3>3. (wake_cnt[t] = 1 /\ wake_cnt'[t] = 0) \/ (wake_cnt[t] = 2 /\ wake_cnt'[t] = 1)
      BY Zenon, <2>1, <3>1, Counts
    <3> QED BY Zenon, <3>1, <3>2, <3>3, Counts DEF Due
  <2>3. CASE Resume(t)
    <3>1. wake_cnt'[t] = 1 /\ pc[t] = "asleep" /\ wake_cnt[t] > 0
      BY Zenon, <1>1, <2>3 DEF Resume, TypeOK
    <3>2. pc'[t] = "untrack"
      BY Zenon, <1>1, <2>3, MovesTo DEF Resume
    <3>3. wake_cnt[t] # 0
      BY Zenon, <2>1, <3>1, Counts
    <3> QED BY Zenon, <3>1, <3>2, <3>3 DEF Due
  <2> QED BY Zenon, <2>2, <2>3
<1>8. ASSUME NEW u \in Threads PROVE ListOf(u)'
  <2>1. ListOf(u)
    BY DEF ListInv
  <2>2. CASE u = t
    BY Zenon, <1>3, <1>5, <1>7, <2>1, <2>2 DEF ListOf, Due
  <2>3. CASE u # t
    <3>1. pc'[u] = pc[u] /\ wake_cnt'[u] = wake_cnt[u]
      BY <1>2, <1>4, <2>3
    <3> QED BY Zenon, <1>3, <1>5, <2>1, <3>1 DEF ListOf, Due
  <2> QED BY <2>2, <2>3
<1> QED BY Zenon, <1>1, <1>2, <1>3, <1>8 DEF Others

\* lock_component_release detaches the list.
LEMMA ListDetach ==
  ASSUME ListInv, NEW t \in Threads, ReleaseDetach(t)
  PROVE  /\ pc[t] = "release" /\ pc'[t] = "wake" /\ Others(t)
         /\ UNCHANGED <<id, lk, server_lock_id, lock_id>>
         /\ \A u \in Threads : ListOf(u)'
         /\ \A u \in Threads : blocked_on'[u] # NoId =>
                               blocked_on[u] # NoId /\ blocked_on[u] # id[t]
<1>1. TypeOK /\ pc[t] = "release" /\ id[t] # NoId
  BY Zenon, IdKnown DEF ListInv, ReleaseDetach, InSection, WithId
<1>2. pc'[t] = "wake" /\ \A u \in Threads : u # t => pc'[u] = pc[u]
  BY Zenon, <1>1, MovesTo DEF ReleaseDetach
<1>3. UNCHANGED <<id, lk, call, prev, held, server_lock_id, lock_id, wake_cnt>>
  BY Zenon DEF ReleaseDetach, client, local
<1>4. /\ waking'[t] = {u \in Threads : blocked_on[u] = id[t]}
      /\ \A v \in Threads : v # t => waking'[v] = waking[v]
  BY Zenon, <1>1 DEF ReleaseDetach, Waiting, TypeOK
<1>5. \A u \in Threads : blocked_on'[u] = IF blocked_on[u] = id[t] THEN NoId ELSE blocked_on[u]
  BY Zenon DEF ReleaseDetach, Waiting
<1>6. \A u \in Threads : u \notin waking[t]
  <2>1. \A u \in Threads : ListOf(u)
    BY DEF ListInv
  <2> QED BY <1>1, <2>1 DEF ListOf
<1>7. ASSUME NEW u \in Threads PROVE ListOf(u)'
  <2>1. ListOf(u)
    BY DEF ListInv
  <2>2. (Due(u)' <=> Due(u)) /\ pc'[u] \notin {"recover", "recover_alloc", "stale"}
        /\ (pc'[u] = "block" => wake_cnt'[u] # 0)
        /\ (pc'[u] \notin {"block", "asleep"} => wake_cnt'[u] = 1)
    <3>1. CASE u = t
      BY Zenon, <1>1, <1>2, <1>3, <2>1, <3>1 DEF ListOf, Due
    <3>2. CASE u # t
      BY Zenon, <1>2, <1>3, <2>1, <3>2 DEF ListOf, Due
    <3> QED BY Zenon, <3>1, <3>2
  <2>3. \A v \in Threads : pc[v] = "wake" => pc'[v] = "wake"
    BY Zenon, <1>1, <1>2
  <2>4. CASE blocked_on[u] = id[t]
    <3>1. /\ Due(u) /\ blocked_on'[u] = NoId /\ u \in waking'[t]
          /\ \A v \in Threads : v # t => u \notin waking'[v]
      BY Zenon, <1>1, <1>4, <1>5, <2>1, <2>4 DEF ListOf
    <3> QED BY Zenon, <1>2, <2>2, <3>1 DEF ListOf
  <2>5. CASE blocked_on[u] # id[t]
    <3>1. blocked_on'[u] = blocked_on[u] /\ \A v \in Threads : u \in waking'[v] <=> u \in waking[v]
      BY Zenon, <1>4, <1>5, <1>6, <2>5
    <3> QED BY Zenon, <1>3, <2>1, <2>2, <2>3, <3>1 DEF ListOf
  <2> QED BY Zenon, <2>4, <2>5
<1>8. \A u \in Threads : blocked_on'[u] # NoId => blocked_on[u] # NoId /\ blocked_on[u] # id[t]
  BY Zenon, <1>5
<1> QED BY Zenon, <1>1, <1>2, <1>3, <1>7, <1>8 DEF Others

\* A wakeup takes the thread off the detached list.
LEMMA ListWake ==
  ASSUME ListInv, NEW t \in Threads, NEW w \in Threads, WakeOne(t, w) \/ WakeLast(t, w)
  PROVE  /\ pc[t] = "wake" /\ pc'[t] \in {"wake", "done"} /\ Others(t)
         /\ UNCHANGED <<id, lk, blocked_on, server_lock_id, lock_id>>
         /\ \A u \in Threads : ListOf(u)'
<1>1. TypeOK /\ pc[t] = "wake" /\ w \in waking[t]
  BY Zenon DEF ListInv, WakeOne, WakeLast, InSection
<1>2. /\ pc'[t] \in {"wake", "done"} /\ \A u \in Threads : u # t => pc'[u] = pc[u]
      /\ pc'[t] = "done" => waking'[t] = {}
  BY Zenon, <1>1, MovesTo DEF WakeOne, WakeLast, TypeOK
<1>3. UNCHANGED <<id, lk, call, prev, held, server_lock_id, lock_id, blocked_on>>
  BY Zenon DEF WakeOne, WakeLast, client, local
<1>4. /\ waking'[t] = waking[t] \ {w}
      /\ \A v \in Threads : v # t => waking'[v] = waking[v]
  BY Zenon, <1>1 DEF WakeOne, WakeLast, TypeOK
<1>5. /\ wake_cnt'[w] = IF wake_cnt[w] = 2 THEN 2 ELSE wake_cnt[w] + 1
      /\ \A u \in Threads : u # w => wake_cnt'[u] = wake_cnt[u]
  BY Zenon, <1>1 DEF WakeOne, WakeLast, Wakeup, TypeOK
<1>6. ListOf(w)
  BY Zenon DEF ListInv
<1>7. Due(w) /\ w # t /\ blocked_on[w] = NoId /\ \A v \in Threads : w \notin waking'[v]
  BY Zenon, <1>1, <1>4, <1>6 DEF ListOf, Due
<1>8. ASSUME NEW u \in Threads PROVE ListOf(u)'
  <2>1. ListOf(u)
    BY DEF ListInv
  <2>2. CASE u = w
    <3>1. pc'[w] = pc[w]
      BY Zenon, <1>2, <1>7
    <3>2. \/ pc[w] = "block" /\ wake_cnt'[w] = 2
          \/ pc[w] = "asleep" /\ wake_cnt'[w] = 1
      BY <1>5, <1>7 DEF Due
    <3>4. pc'[w] \in {"block", "asleep"} /\ ~Due(w)' /\ blocked_on'[w] = NoId
      BY Zenon, <1>3, <1>7, <3>1, <3>2, Counts DEF Due
    <3>5. pc'[w] = "block" => wake_cnt'[w] # 0
      BY Zenon, <3>1, <3>2, Counts
    <3>6. pc'[w] \notin {"recover", "recover_alloc", "stale"}
      BY Zenon, <3>1, <3>2
    <3>7. ListOf(w)'
      BY Zenon, <1>7, <3>4, <3>5, <3>6 DEF ListOf
    <3> QED BY Zenon, <2>2, <3>7
  <2>3. CASE u # w
    <3>1. wake_cnt'[u] = wake_cnt[u] /\ \A v \in Threads : u \in waking'[v] <=> u \in waking[v]
      BY Zenon, <1>4, <1>5, <2>3
    <3>2. \A v \in Threads : u \in waking'[v] /\ pc[v] = "wake" => pc'[v] = "wake"
      BY Zenon, <1>2
    <3>3. /\ Due(u)' <=> Due(u)
          /\ pc'[u] \in {"block", "asleep", "recover", "recover_alloc", "stale"} => pc'[u] = pc[u]
          /\ pc'[u] \notin {"block", "asleep"} => pc[u] \notin {"block", "asleep"}
      BY Zenon, <1>1, <1>2, <3>1 DEF Due
    <3> QED BY Zenon, <1>3, <2>1, <3>1, <3>2, <3>3 DEF ListOf
  <2> QED BY <2>2, <2>3
<1> QED BY Zenon, <1>1, <1>2, <1>3, <1>8 DEF Others

\* Each lock got an id of its own when it was allocated.
LEMMA InitIds == Init => Ids
<1> SUFFICES ASSUME Init PROVE Ids
  OBVIOUS
<1> DEFINE Before(l) == {k \in Locks : k < l}
<1>1. IsFiniteSet(Locks) /\ Cardinality(Locks) \in Nat
  BY LockAssumption, FS_CardinalityType
<1>2. ASSUME NEW l \in Locks
      PROVE  IsFiniteSet(Before(l)) /\ Cardinality(Before(l)) \in 0..(Cardinality(Locks) - 1)
  <2>1. Before(l) \subseteq Locks /\ Before(l) # Locks
    BY LockAssumption
  <2>2. /\ IsFiniteSet(Before(l)) /\ Cardinality(Before(l)) <= Cardinality(Locks)
        /\ Cardinality(Before(l)) # Cardinality(Locks)
    BY <1>1, <2>1, FS_Subset
  <2>3. Cardinality(Before(l)) \in Nat
    BY Zenon, <2>2, FS_CardinalityType
  <2> QED BY <1>1, <2>2, <2>3
<1>3. ASSUME NEW l \in Locks, NEW k \in Locks, l < k
      PROVE  Cardinality(Before(l)) # Cardinality(Before(k))
  <2>1. Before(l) \subseteq Before(k) /\ Before(l) # Before(k)
    <3>1. ASSUME NEW x \in Locks, x < l PROVE x < k
      <4>1. x \in Nat /\ l \in Nat /\ k \in Nat
        BY LockAssumption
      <4> QED BY <1>3, <3>1, <4>1
    <3>2. l \in Nat /\ ~(l < l)
      BY LockAssumption
    <3>3. l \in Before(k) /\ l \notin Before(l)
      BY Zenon, <1>3, <3>2
    <3> QED BY <3>1, <3>3
  <2>2. IsFiniteSet(Before(k))
    BY <1>2
  <2> QED BY <2>1, <2>2, FS_Subset
<1>4. ASSUME NEW l \in Locks, NEW k \in Locks, l # k
      PROVE  Cardinality(Before(l)) # Cardinality(Before(k))
  <2>1. l \in Nat /\ k \in Nat
    BY LockAssumption
  <2>2. l < k \/ k < l
    BY <1>4, <2>1
  <2> QED BY <1>3, <2>2
<1>5. /\ \A l \in Locks : server_lock_id[l] = 1 + Cardinality(Before(l))
      /\ lock_id = 1 + Cardinality(Locks)
  BY DEF Init
<1> HIDE DEF Before
<1>6. ASSUME NEW l \in Locks PROVE server_lock_id[l] \in 1..(lock_id - 1)
  BY <1>1, <1>2, <1>5
<1>7. ASSUME NEW l \in Locks, NEW k \in Locks, server_lock_id[l] = server_lock_id[k]
      PROVE  l = k
  <2>1. Cardinality(Before(l)) \in Int /\ Cardinality(Before(k)) \in Int
    BY <1>2
  <2>2. Cardinality(Before(l)) = Cardinality(Before(k))
    BY <1>5, <1>7, <2>1
  <2> QED BY <1>4, <2>2
<1> QED BY <1>6, <1>7 DEF Ids

LEMMA InitList == Init => ListInv
<1> SUFFICES ASSUME Init PROVE ListInv
  OBVIOUS
<1>1. ASSUME NEW t \in Threads PROVE ListOf(t) /\ IdOf(t)
  BY Zenon DEF Init, ListOf, Due, IdOf, WithId
<1> QED BY Zenon, <1>1, InitType, InitIds DEF ListInv

\* Without a failure, every step of a thread keeps the lists and the ids sound.
LEMMA NextList ==
  ASSUME ListInv, [Next]_vars, TypeOK', MaxFaults = 0
  PROVE  ListInv'
<1> DEFINE Goal == Ids' /\ \A u \in Threads : ListOf(u)' /\ IdOf(u)'
<1> SUFFICES Goal
  BY DEF ListInv
<1>1. ASSUME NEW t \in Threads, Calm(t), pc[t] \notin {"block", "asleep", "wake"},
             pc'[t] \in {"client", "read", "cas", "call", "contested", "mark", "marked",
                         "release_read", "release_cas", "release_zero"}
      PROVE  Goal
  <2>1. \A u \in Threads : ListOf(u)'
    BY Zenon, <1>1, ListFrame
  <2>2. Ids' /\ \A u \in Threads : IdOf(u)'
    BY Zenon, <1>1, IdFrame DEF Calm, WithId
  <2> QED BY Zenon, <2>1, <2>2
<1>2. ASSUME NEW t \in Threads,
             \/ Invoke(t) \/ Enter(t) \/ Pretake(t) \/ Track(t) \/ TakeMismatch(t) \/ Untrack(t)
             \/ ReleaseNobody(t) \/ WakeRelease(t) \/ Done(t) \/ DoneAssert(t)
      PROVE  Goal
  <2>1. Calm(t) /\ IdOf(t)
    BY Zenon, <1>2, ServerCalm DEF ListInv
  <2>2. \A u \in Threads : ListOf(u)'
    BY Zenon, <1>2, <2>1, ServerCalm, ListFrame
  <2>3. Ids' /\ \A u \in Threads : IdOf(u)'
    <3>1. /\ pc'[t] \notin {"alloc", "cons"}
          /\ pc'[t] \in WithId => id'[t] = server_lock_id[lk'[t]]
      BY Zenon, <1>2, <2>1, ServerCalm DEF IdOf
    <3> QED BY Zenon, <2>1, <3>1, IdFrame DEF Calm
  <2> QED BY <2>2, <2>3
<1>3. ASSUME NEW t \in Threads,
             \/ TakeBlock(t) \/ Block(t) \/ Resume(t) \/ ReleaseDetach(t)
             \/ \E u \in Threads : WakeOne(t, u) \/ WakeLast(t, u)
      PROVE  Goal
  <2>1. /\ Others(t) /\ UNCHANGED <<id, lk, server_lock_id, lock_id>>
        /\ \A u \in Threads : ListOf(u)'
        /\ pc[t] \in {"take", "block", "asleep", "release", "wake"}
        /\ pc'[t] \in {"block", "asleep", "untrack", "wake", "done"}
        /\ pc'[t] \in WithId => pc[t] \in WithId
    BY Zenon, <1>3, ListTakeBlock, ListBlock, ListDetach, ListWake DEF WithId
  <2>2. pc'[t] \in WithId => id'[t] = server_lock_id[lk'[t]]
    BY Zenon, <2>1, IdKnown
  <2>3. Ids' /\ \A u \in Threads : IdOf(u)'
    BY Zenon, <2>1, <2>2, IdFrame
  <2> QED BY Zenon, <2>1, <2>3
<1>4. ASSUME NEW t \in Threads, Step(t) PROVE Goal
  <2>1. CASE Take(t)
    BY Zenon, <2>1, <1>1, <1>2, <1>3, TakeCalm, NoRecovery DEF Take
  <2>2. CASE Release(t)
    BY Zenon, <2>2, <1>1, <1>2, <1>3, ReleaseCalm DEF Release
  <2>3. CASE Recover(t)
    BY Zenon, <2>3, <1>2, NoRecovery DEF Recover
  <2> QED BY <1>4, <2>1, <2>2, <2>3 DEF Step
<1>5. ASSUME NEW t \in Threads, NEW l \in Locks, LockTake(t, l) \/ LockRelease(t, l) PROVE Goal
  BY Zenon, <1>5, <1>1, ReleaseCalm
<1>6. CASE UNCHANGED vars
  <2>1. /\ server_lock_id' = server_lock_id /\ lock_id' = lock_id /\ pc' = pc
        /\ wake_cnt' = wake_cnt /\ blocked_on' = blocked_on /\ id' = id /\ lk' = lk
        /\ waking' = waking
    BY Zenon, <1>6 DEF vars, client, local, server
  <2>3. Ids => Ids'
    BY Zenon, <2>1 DEF Ids
  <2>4. \A t \in Threads : Due(t)' <=> Due(t)
    BY Zenon, <2>1 DEF Due
  <2>5. \A t \in Threads : ListOf(t) => ListOf(t)'
    BY Zenon, <2>1, <2>4 DEF ListOf
  <2>6. \A t \in Threads : IdOf(t) => IdOf(t)'
    BY Zenon, <2>1 DEF IdOf
  <2> QED BY Zenon, <2>3, <2>5, <2>6 DEF ListInv
<1> QED BY <1>2, <1>4, <1>5, <1>6, NoRecovery DEF Next, EnterStep, LeaveLock, Stopped

LEMMA ListsHold ==
  ASSUME MaxFaults = 0
  PROVE  Spec => []ListInv
<1>1. ListInv /\ [Next]_vars /\ TypeOK' => ListInv'
  BY NextList
<1> QED BY <1>1, InitList, TypeCorrect, PTL DEF Spec

\* As long as the lock component does not fail, its assertions on the lists
\* hold: lock_component_take never finds the caller on the list already, and
\* lock_component_release never finds the caller on the list it has detached.
\* With one failure they do not (TakeAssert).
THEOREM ListsAlwaysSound ==
  ASSUME MaxFaults = 0
  PROVE  Spec => []ListsSound
<1>1. ListInv => ListsSound
  BY ListSound
<1> QED BY <1>1, ListsHold, PTL
-----------------------------------------------------------------------------
(* No wakeup is lost between two threads *)

\* At most two threads contend.
AtMostTwo == \A t, u, v \in Threads : t = u \/ u = v \/ t = v

\* A release that is on its way stays on its way, and so does a marked word.
LEMMA PendingKept ==
  ASSUME NEW t \in Threads, NEW u \in Threads, Others(t), lk'[u] = lk[u],
         lk[t] = lk[u] /\ Releasing(t) => lk'[t] = lk[t] /\ Releasing(t)',
         atom[lk[u]].contested =>
           atom'[lk[u]].contested \/ (lk'[t] = lk[u] /\ Releasing(t)'),
         Pending(u)
  PROVE  Pending(u)'
<1>1. CASE atom[lk[u]].contested
  BY Zenon, <1>1 DEF Pending
<1>2. ASSUME NEW v \in Threads, lk[v] = lk[u], Releasing(v) PROVE Pending(u)'
  <2>1. lk'[v] = lk[v] /\ Releasing(v)'
    BY Zenon, <1>2 DEF Others, Releasing
  <2> QED BY Zenon, <1>2, <2>1 DEF Pending
<1> QED BY Zenon, <1>1, <1>2 DEF Pending

\* What a step of t has to establish: the rest is the others' and stays.
LEMMA ContendFrame ==
  ASSUME ListInv, ContendInv, NEW t \in Threads, Others(t), server_lock_id' = server_lock_id,
         pc'[t] \in {"read", "cas"} \/ Contends(t)' => lk'[t] \notin held'[t],
         Contends(t)' => prev'[t].owner # NoThd,
         pc'[t] = "release_cas" => ~prev'[t].contested,
         \A u \in Threads : u # t /\ Contends(t)' /\ Contends(u) => lk[u] # lk'[t],
         Committed(t)' /\ server_lock_id[lk'[t]] \in current' => Pending(t)',
         blocked_on'[t] # NoId => Pending(t)',
         \A u \in Threads : u # t /\ blocked_on'[u] # NoId =>
                            blocked_on[u] # NoId /\ (Pending(u) => Pending(u)'),
         \A u \in Threads : u # t /\ Committed(u) /\ server_lock_id[lk[u]] \in current' =>
                            /\ server_lock_id[lk[u]] \in current
                            /\ Pending(u) => Pending(u)'
  PROVE  \A u \in Threads : ContendOf(u)'
<1> SUFFICES ASSUME NEW u \in Threads PROVE ContendOf(u)'
  BY Zenon
<1>1. \A v \in Threads : v # t =>
        /\ pc'[v] = pc[v] /\ lk'[v] = lk[v] /\ prev'[v] = prev[v] /\ held'[v] = held[v]
        /\ (Contends(v)' <=> Contends(v)) /\ (Committed(v)' <=> Committed(v))
  BY Zenon DEF Others, Contends, Committed
<1>2. \A v \in Threads : ContendOf(v)
  BY Zenon DEF ContendInv
<1>3. CASE u = t
  <2>1. ASSUME NEW v \in Threads, Contends(t)', Contends(v)', lk'[t] = lk'[v] PROVE t = v
    BY Zenon, <1>1, <2>1
  <2> QED BY Zenon, <1>3, <2>1 DEF ContendOf
<1>4. CASE u # t
  <2>1. /\ pc'[u] = pc[u] /\ lk'[u] = lk[u] /\ prev'[u] = prev[u] /\ held'[u] = held[u]
        /\ (Contends(u)' <=> Contends(u)) /\ (Committed(u)' <=> Committed(u))
        /\ ContendOf(u)
    BY Zenon, <1>1, <1>2, <1>4
  <2>2. ASSUME NEW v \in Threads, Contends(u)', Contends(v)', lk'[u] = lk'[v] PROVE u = v
    <3>1. CASE v = t
      BY Zenon, <1>4, <2>1, <2>2, <3>1
    <3>2. CASE v # t
      BY Zenon, <1>1, <2>1, <2>2, <3>2 DEF ContendOf
    <3> QED BY Zenon, <3>1, <3>2
  <2>3. Committed(u)' /\ server_lock_id'[lk'[u]] \in current' => Pending(u)'
    BY Zenon, <1>4, <2>1 DEF ContendOf
  <2>4. blocked_on'[u] # NoId => Pending(u)'
    BY Zenon, <1>4, <2>1 DEF ContendOf
  <2> QED BY Zenon, <2>1, <2>2, <2>3, <2>4 DEF ContendOf
<1> QED BY Zenon, <1>3, <1>4

\* A step that leaves the words and the generation alone and goes no further
\* towards sleep than t had decided to.
LEMMA ContendQuiet ==
  ASSUME ListInv, ContendInv, NEW t \in Threads, Others(t),
         UNCHANGED <<atom, held, lk, current, server_lock_id>>,
         Contends(t)' => Contends(t) /\ prev'[t] = prev[t],
         pc'[t] \in {"read", "cas"} => Contends(t),
         pc'[t] # "release_cas",
         Committed(t)' => Committed(t),
         Releasing(t) => Releasing(t)',
         \A u \in Threads : blocked_on'[u] # NoId => blocked_on[u] # NoId
  PROVE  ContendInv'
<1>1. ContendOf(t) /\ Owned
  BY Zenon DEF ContendInv
<1>2. ASSUME NEW u \in Threads, Pending(u) PROVE Pending(u)'
  BY Zenon, <1>2, PendingKept
<1>3. \A u \in Threads : u # t /\ Contends(t)' /\ Contends(u) => lk[u] # lk'[t]
  BY Zenon, <1>1 DEF ContendOf
<1>4. /\ pc'[t] \in {"read", "cas"} \/ Contends(t)' => lk'[t] \notin held'[t]
      /\ Contends(t)' => prev'[t].owner # NoThd
      /\ pc'[t] = "release_cas" => ~prev'[t].contested
  BY Zenon, <1>1 DEF ContendOf
<1>5. /\ Committed(t)' /\ server_lock_id[lk'[t]] \in current' => Pending(t)'
      /\ blocked_on'[t] # NoId => Pending(t)'
  BY Zenon, <1>1, <1>2 DEF ContendOf
<1>6. \A u \in Threads : ContendOf(u)'
  BY Zenon, <1>2, <1>3, <1>4, <1>5, ContendFrame
<1> QED BY Zenon, <1>1, <1>6 DEF ContendInv, Owned

\* The steps that neither touch the words nor the generation.
LEMMA ContendServer ==
  ASSUME ListInv, ContendInv, NEW t \in Threads,
         \/ CheckOwner(t) \/ Marked(t) \/ MarkedAssert(t) \/ Invoke(t) \/ Enter(t) \/ Track(t)
         \/ Untrack(t) \/ WakeRelease(t) \/ Done(t) \/ DoneAssert(t) \/ Block(t) \/ Resume(t)
         \/ \E u \in Threads : WakeOne(t, u) \/ WakeLast(t, u)
  PROVE  ContendInv'
<1>1. TypeOK
  BY Zenon DEF ListInv
<1>2. UNCHANGED <<atom, held, lk, current, server_lock_id, blocked_on>> /\ Others(t)
  <2>1. Others(t)
    BY Zenon, TakeCalm, ServerCalm, ListBlock, ListWake DEF Calm
  <2>2. UNCHANGED <<atom, held, server_lock_id, current, blocked_on>>
    BY Zenon DEF CheckOwner, Marked, MarkedAssert, Invoke, Enter, Track, Untrack, WakeRelease, Done,
           DoneAssert, Block, Resume, WakeOne, WakeLast, client, server
  <2>3. lk' = lk
    BY Zenon DEF CheckOwner, Marked, MarkedAssert, Invoke, Enter, Track, Untrack, WakeRelease, Done,
           DoneAssert, Block, Resume, WakeOne, WakeLast, local, Return
  <2> QED BY <2>1, <2>2, <2>3
<1> DEFINE Goal == /\ Contends(t)' => Contends(t) /\ prev'[t] = prev[t]
                   /\ pc'[t] \in {"read", "cas"} => Contends(t)
                   /\ pc'[t] # "release_cas"
                   /\ Committed(t)' => Committed(t)
                   /\ Releasing(t) => Releasing(t)'
<1>3. CASE CheckOwner(t)
  <2>1. pc[t] = "owner" /\ pc'[t] \in {"contested", "read"} /\ prev' = prev
    BY Zenon, <1>1, <1>3, MovesTo DEF CheckOwner, local
  <2>2. Goal
    BY Zenon, <2>1 DEF Contends, Committed, Releasing
  <2> QED BY Zenon, <1>2, <2>2, ContendQuiet
<1>4. CASE Marked(t)
  <2>1. pc[t] = "marked" /\ pc'[t] = "call" /\ prev' = prev /\ call'[t] = "take"
    BY Zenon, <1>1, <1>4, MovesTo DEF Marked, TypeOK
  <2>2. Goal
    BY Zenon, <2>1 DEF Contends, Committed, Releasing
  <2> QED BY Zenon, <1>2, <2>2, ContendQuiet
<1>5. CASE MarkedAssert(t) \/ Enter(t) \/ WakeRelease(t) \/ DoneAssert(t)
  <2>1. pc' = pc /\ prev' = prev /\ call' = call /\ pc[t] \notin {"read", "cas", "release_cas"}
    BY Zenon, <1>5 DEF MarkedAssert, Enter, WakeRelease, DoneAssert, InSection, SectionPc, local
  <2>2. Goal
    BY Zenon, <2>1 DEF Contends, Committed, Releasing
  <2> QED BY Zenon, <1>2, <2>2, ContendQuiet
<1>6. CASE Invoke(t)
  <2>1. /\ pc[t] = "call" /\ prev' = prev /\ call[t] \in {"pretake", "take", "release"}
        /\ pc'[t] = IF call[t] = "take" THEN "track" ELSE call[t]
    BY Zenon, <1>1, <1>6, MovesTo DEF Invoke, TypeOK
  <2>2. Goal
    BY Zenon, <2>1 DEF Contends, Committed, Releasing
  <2> QED BY Zenon, <1>2, <2>2, ContendQuiet
<1>7. CASE Track(t) \/ Untrack(t)
  <2>1. /\ \/ pc[t] = "track" /\ pc'[t] = "take"
           \/ pc[t] = "untrack" /\ pc'[t] \in {"alloc", "read"}
        /\ prev' = prev
    BY Zenon, <1>1, <1>7, MovesTo DEF Track, Untrack, InSection, local
  <2>2. Goal
    BY Zenon, <2>1 DEF Contends, Committed, Releasing
  <2> QED BY Zenon, <1>2, <2>2, ContendQuiet
<1>8. CASE Done(t)
  <2>1. pc[t] = "done" /\ pc'[t] = "client"
    BY Zenon, <1>1, <1>8, MovesTo DEF Done, Return
  <2>2. Goal
    BY Zenon, <2>1 DEF Contends, Committed, Releasing
  <2> QED BY Zenon, <1>2, <2>2, ContendQuiet
<1>9. CASE Block(t) \/ Resume(t)
  <2>1. pc[t] \in {"block", "asleep"} /\ pc'[t] \in {"asleep", "untrack"} /\ prev' = prev
    BY Zenon, <1>9, ListBlock DEF Block, Resume, local
  <2>2. Goal
    BY Zenon, <2>1 DEF Contends, Committed, Releasing
  <2> QED BY Zenon, <1>2, <2>2, ContendQuiet
<1>10. CASE \E u \in Threads : WakeOne(t, u) \/ WakeLast(t, u)
  <2>1. pc[t] = "wake" /\ pc'[t] \in {"wake", "done"}
    BY Zenon, <1>10, ListWake
  <2>2. Goal
    BY Zenon, <2>1 DEF Contends, Committed, Releasing
  <2> QED BY Zenon, <1>2, <2>2, ContendQuiet
<1> QED BY <1>3, <1>4, <1>5, <1>6, <1>7, <1>8, <1>9, <1>10

\* A thread that reads a taken word is the only one that contends for it,
\* because the other one owns it.
LEMMA ContendRead ==
  ASSUME ListInv, WordInv, ContendInv, AtMostTwo, NEW t \in Threads, Read(t)
  PROVE  ContendInv'
<1>1. /\ TypeOK /\ ContendOf(t) /\ Owned /\ pc[t] = "read" /\ lk[t] \in Locks /\ ListOf(t)
      /\ atom' = atom /\ held' = held /\ lk' = lk /\ Others(t)
      /\ UNCHANGED <<current, server_lock_id, blocked_on>>
  BY Zenon, TakeCalm DEF ListInv, ContendInv, Read, TypeOK, Calm, client, server
<1>2. /\ prev'[t] = atom[lk[t]]
      /\ pc'[t] \in {"cas", "call"}
      /\ pc'[t] = "call" => atom[lk[t]].owner # NoThd /\ call'[t] = "pretake"
  <2>1. prev'[t] = atom[lk[t]]
    BY Zenon, <1>1 DEF Read, TypeOK
  <2>2. CASE atom[lk[t]].owner = NoThd
    <3>1. pc'[t] = "cas"
      BY Zenon, <1>1, <2>2, MovesTo DEF Read
    <3> QED BY <2>1, <3>1
  <2>3. CASE atom[lk[t]].owner # NoThd
    <3>1. pc'[t] = "call" /\ call' = [call EXCEPT ![t] = "pretake"]
      BY Zenon, <1>1, <2>3, MovesTo DEF Read
    <3>2. call'[t] = "pretake"
      BY Zenon, <1>1, <3>1 DEF TypeOK
    <3> QED BY Zenon, <2>1, <2>3, <3>1, <3>2
  <2> QED BY Zenon, <2>2, <2>3
<1>3. lk[t] \notin held[t]
  BY Zenon, <1>1 DEF ContendOf
<1>4. ASSUME NEW u \in Threads, u # t, Contends(t)', Contends(u) PROVE lk[u] # lk[t]
  <2>1. atom[lk[t]].owner # NoThd /\ atom[lk[t]].owner \in Threads \cup {NoThd}
    BY Zenon, <1>1, <1>2, <1>4 DEF Contends, TypeOK, Word
  <2>2. PICK o \in Threads : atom[lk[t]].owner = o
    BY <2>1
  <2>3. lk[t] \in held[o]
    BY Zenon, <1>1, <2>2 DEF WordInv, OwnerHolds
  <2>4. o = u
    BY Zenon, <1>3, <1>4, <2>3 DEF AtMostTwo
  <2>5. lk[u] \notin held[u]
    BY Zenon, <1>4 DEF ContendInv, ContendOf
  <2> QED BY Zenon, <2>3, <2>4, <2>5
<1>5. ASSUME NEW u \in Threads, Pending(u) PROVE Pending(u)'
  BY Zenon, <1>1, <1>5, PendingKept DEF Releasing
<1>6. /\ pc'[t] \in {"read", "cas"} \/ Contends(t)' => lk'[t] \notin held'[t]
      /\ Contends(t)' => prev'[t].owner # NoThd
      /\ pc'[t] # "release_cas" /\ ~Committed(t)'
  BY Zenon, <1>1, <1>2, <1>3 DEF Contends, Committed
<1>7. blocked_on[t] = NoId
  BY Zenon, <1>1 DEF ListOf, Due
<1>8. \A u \in Threads : ContendOf(u)'
  BY Zenon, <1>1, <1>4, <1>5, <1>6, <1>7, ContendFrame
<1> QED BY Zenon, <1>1, <1>8 DEF ContendInv, Owned

\* The swap that takes the lock finds a word that is not marked.
LEMMA ContendCas ==
  ASSUME ListInv, WordInv, ContendInv, NEW t \in Threads, Cas(t)
  PROVE  ContendInv'
<1>1. /\ TypeOK /\ ContendOf(t) /\ Owned /\ pc[t] = "cas" /\ lk[t] \in Locks /\ ListOf(t)
      /\ lk' = lk /\ Others(t) /\ UNCHANGED <<current, server_lock_id, blocked_on>>
  BY Zenon, TakeCalm DEF ListInv, ContendInv, Cas, TypeOK, Calm, Return, local, server
<1>2. blocked_on[t] = NoId
  BY Zenon, <1>1 DEF ListOf, Due
<1>3. CASE atom[lk[t]] = prev[t]
  <2>1. atom[lk[t]].owner = NoThd /\ ~atom[lk[t]].contested
    BY Zenon, <1>1, <1>3 DEF WordInv, SwapInv, Owned
  <2>2. /\ pc'[t] = "client"
        /\ atom' = [atom EXCEPT ![lk[t]] = [owner |-> t, contested |-> FALSE]]
    BY Zenon, <1>1, <1>3, MovesTo DEF Cas, Return
  <2>3. \A l \in Locks : l # lk[t] => atom'[l] = atom[l]
    BY Zenon, <1>1, <2>2 DEF TypeOK
  <2>4. ~atom'[lk[t]].contested
    BY <1>1, <2>2 DEF TypeOK
  <2>5. Owned'
    BY Zenon, <1>1, <2>3, <2>4 DEF Owned
  <2>6. ASSUME NEW u \in Threads, Pending(u) PROVE Pending(u)'
    <3>1. lk[u] \in Locks
      BY Zenon, <1>1 DEF TypeOK
    <3>2. atom[lk[u]].contested => atom'[lk[u]].contested
      BY Zenon, <2>1, <2>3, <3>1
    <3> QED BY Zenon, <1>1, <2>6, <3>2, PendingKept DEF Releasing
  <2>7. ~Contends(t)' /\ ~Committed(t)'
    BY Zenon, <2>2 DEF Contends, Committed
  <2>8. \A u \in Threads : ContendOf(u)'
    BY Zenon, <1>1, <1>2, <2>2, <2>6, <2>7, ContendFrame
  <2> QED BY Zenon, <2>5, <2>8 DEF ContendInv
<1>4. CASE atom[lk[t]] # prev[t]
  <2>1. pc'[t] = "read" /\ atom' = atom /\ held' = held
    BY Zenon, <1>1, <1>4, MovesTo DEF Cas
  <2>2. ASSUME NEW u \in Threads, Pending(u) PROVE Pending(u)'
    BY Zenon, <1>1, <2>1, <2>2, PendingKept DEF Releasing
  <2>3. ~Contends(t)' /\ ~Committed(t)' /\ lk'[t] \notin held'[t]
    BY Zenon, <1>1, <2>1 DEF Contends, Committed, ContendOf
  <2>4. \A u \in Threads : ContendOf(u)'
    BY Zenon, <1>1, <1>2, <2>1, <2>2, <2>3, ContendFrame
  <2> QED BY Zenon, <1>1, <2>1, <2>4 DEF ContendInv, Owned
<1> QED BY <1>3, <1>4

\* A contender that goes on to sleep has seen the word marked, or marked it.
LEMMA ContendMark ==
  ASSUME ListInv, ContendInv, NEW t \in Threads, CheckContested(t) \/ Mark(t)
  PROVE  ContendInv'
<1>1. /\ TypeOK /\ ContendOf(t) /\ Owned /\ pc[t] \in {"contested", "mark"} /\ lk[t] \in Locks
      /\ ListOf(t) /\ lk' = lk /\ held' = held /\ prev' = prev /\ Others(t)
      /\ UNCHANGED <<current, server_lock_id, blocked_on>>
  BY Zenon, TakeCalm DEF ListInv, ContendInv, CheckContested, Mark, TypeOK, Calm, client, local, server
<1>2. blocked_on[t] = NoId /\ Contends(t) /\ ~Releasing(t)
  BY Zenon, <1>1 DEF ListOf, Due, Contends, Releasing
<1>3. pc'[t] \in {"call", "mark", "marked", "read"}
  BY Zenon, <1>1, MovesTo DEF CheckContested, Mark
<1>4. /\ \A l \in Locks : atom[l].contested => atom'[l].contested
      /\ Committed(t)' => atom'[lk[t]].contested
      /\ Owned'
  <2>1. CASE CheckContested(t)
    <3>1. atom' = atom /\ (Committed(t)' => atom[lk[t]].contested)
      <4>1. pc'[t] = IF atom[lk[t]].contested THEN "call" ELSE "mark"
        BY Zenon, <1>1, <2>1, MovesTo DEF CheckContested
      <4> QED BY Zenon, <2>1, <4>1 DEF CheckContested, Committed, client
    <3> QED BY Zenon, <1>1, <3>1 DEF Owned
  <2>2. CASE Mark(t) /\ atom[lk[t]] = prev[t]
    <3>1. atom' = [atom EXCEPT ![lk[t]] = [owner |-> prev[t].owner, contested |-> TRUE]]
      BY Zenon, <2>2 DEF Mark
    <3>2. atom'[lk[t]].contested /\ atom'[lk[t]].owner = prev[t].owner
      BY Zenon, <1>1, <3>1 DEF TypeOK
    <3>3. \A l \in Locks : l # lk[t] => atom'[l] = atom[l]
      BY Zenon, <1>1, <3>1 DEF TypeOK
    <3>4. prev[t].owner # NoThd
      BY Zenon, <1>1, <1>2 DEF ContendOf
    <3> QED BY Zenon, <1>1, <3>2, <3>3, <3>4 DEF Owned
  <2>3. CASE Mark(t) /\ atom[lk[t]] # prev[t]
    <3>1. atom' = atom /\ pc'[t] = "read"
      BY Zenon, <1>1, <2>3, MovesTo DEF Mark
    <3> QED BY Zenon, <1>1, <3>1 DEF Owned, Committed
  <2> QED BY Zenon, <2>1, <2>2, <2>3
<1>5. ASSUME NEW u \in Threads, Pending(u) PROVE Pending(u)'
  <2>1. lk[u] \in Locks
    BY <1>1 DEF TypeOK
  <2> QED BY Zenon, <1>1, <1>2, <1>4, <1>5, <2>1, PendingKept
<1>6. Committed(t)' => Pending(t)'
  BY Zenon, <1>1, <1>4 DEF Pending
<1>7. /\ lk'[t] \notin held'[t] /\ prev'[t].owner # NoThd
      /\ \A u \in Threads : u # t /\ Contends(u) => lk[u] # lk'[t]
  BY Zenon, <1>1, <1>2 DEF ContendOf
<1>8. \A u \in Threads : ContendOf(u)'
  BY Zenon, <1>1, <1>2, <1>3, <1>5, <1>6, <1>7, ContendFrame
<1> QED BY Zenon, <1>4, <1>8 DEF ContendInv

\* A call starts with the lock not held, or held for a release.
LEMMA ContendStart ==
  ASSUME ListInv, ContendInv, NEW t \in Threads, NEW l \in Locks, LockTake(t, l) \/ LockRelease(t, l)
  PROVE  ContendInv'
<1>1. /\ TypeOK /\ Owned /\ pc[t] = "client" /\ ListOf(t) /\ Others(t)
      /\ UNCHANGED <<atom, held, current, server_lock_id, blocked_on>>
  BY Zenon, ReleaseCalm DEF ListInv, ContendInv, LockTake, LockRelease, Calm, client, server
<1>2. /\ pc'[t] \in {"read", "release_read"} /\ lk'[t] = l
      /\ pc'[t] = "read" => l \notin held[t]
  <2>1. CASE LockTake(t, l)
    <3>1. pc'[t] = "read" /\ lk'[t] = l /\ \A h \in held[t] : h < l
      BY Zenon, <1>1, <2>1, MovesTo DEF LockTake, TypeOK
    <3>2. ~(l < l)
      BY LockAssumption
    <3> QED BY Zenon, <3>1, <3>2
  <2>2. CASE LockRelease(t, l)
    <3>1. pc'[t] = "release_read"
      BY Zenon, <1>1, <2>2, MovesTo DEF LockRelease
    <3>2. lk'[t] = l
      BY Zenon, <1>1, <2>2 DEF LockRelease, TypeOK
    <3> QED BY Zenon, <3>1, <3>2
  <2> QED BY Zenon, <2>1, <2>2
<1>3. blocked_on[t] = NoId /\ ~Releasing(t)
  BY Zenon, <1>1 DEF ListOf, Due, Releasing
<1>4. ASSUME NEW u \in Threads, u # t, Pending(u) PROVE Pending(u)'
  BY Zenon, <1>1, <1>3, <1>4, PendingKept DEF Others
<1>5. ~Contends(t)' /\ ~Committed(t)'
  BY Zenon, <1>2 DEF Contends, Committed
<1>6. \A u \in Threads : ContendOf(u)'
  BY Zenon, <1>1, <1>2, <1>3, <1>4, <1>5, ContendFrame
<1> QED BY <1>1, <1>6 DEF ContendInv, Owned

\* A release frees a marked word only on the path that calls the component.
LEMMA ContendFree ==
  ASSUME ListInv, ContendInv, NEW t \in Threads,
         ReleaseRead(t) \/ ReleaseCas(t) \/ ReleaseZero(t)
  PROVE  ContendInv'
<1>1. /\ TypeOK /\ ContendOf(t) /\ Owned /\ lk[t] \in Locks /\ ListOf(t) /\ Others(t) /\ lk' = lk
      /\ pc[t] \in {"release_read", "release_cas", "release_zero"}
      /\ UNCHANGED <<current, server_lock_id, blocked_on>>
  BY Zenon, ReleaseCalm DEF ListInv, ContendInv, ReleaseRead, ReleaseCas, ReleaseZero, TypeOK, Calm,
                     Return, local, server
<1>2. blocked_on[t] = NoId /\ ~Releasing(t)
  BY Zenon, <1>1 DEF ListOf, Due, Releasing
<1>3. /\ pc'[t] \in {"release_zero", "release_cas", "client", "release_read", "call"}
      /\ pc'[t] = "call" => call'[t] = "release"
      /\ pc'[t] = "release_cas" => ~prev'[t].contested
  <2>1. CASE ReleaseRead(t)
    <3>1. /\ pc'[t] = IF atom[lk[t]].contested THEN "release_zero" ELSE "release_cas"
          /\ prev'[t] = atom[lk[t]]
      BY Zenon, <1>1, <2>1, MovesTo DEF ReleaseRead, TypeOK
    <3> QED BY Zenon, <3>1
  <2>2. CASE ReleaseCas(t)
    <3>1. pc'[t] = "client" \/ pc'[t] = "release_read"
      BY Zenon, <1>1, <2>2, MovesTo DEF ReleaseCas, Return
    <3> QED BY <3>1
  <2>3. CASE ReleaseZero(t)
    <3>1. pc'[t] = "call"
      BY Zenon, <1>1, <2>3, MovesTo DEF ReleaseZero
    <3>2. call'[t] = "release"
      BY Zenon, <1>1, <2>3 DEF ReleaseZero, TypeOK
    <3> QED BY <3>1, <3>2
  <2> QED BY Zenon, <2>1, <2>2, <2>3
<1>4. /\ \A l \in Locks : atom[l].contested =>
                          atom'[l].contested \/ (l = lk[t] /\ Releasing(t)')
      /\ Owned'
  <2>1. CASE atom' = atom
    BY Zenon, <1>1, <2>1 DEF Owned
  <2>2. CASE atom' # atom
    <3>1. /\ atom' = [atom EXCEPT ![lk[t]] = Free]
          /\ ReleaseZero(t) \/ (ReleaseCas(t) /\ atom[lk[t]] = prev[t])
      BY Zenon, <2>2 DEF ReleaseRead, ReleaseCas, ReleaseZero, client
    <3>2. ~atom'[lk[t]].contested /\ \A l \in Locks : l # lk[t] => atom'[l] = atom[l]
      BY Zenon, <1>1, <3>1 DEF TypeOK, Free
    <3>3. Owned'
      BY Zenon, <1>1, <3>2 DEF Owned
    <3>4. atom[lk[t]].contested => Releasing(t)'
      <4>1. CASE ReleaseZero(t)
        BY Zenon, <1>1, <4>1, MovesTo DEF ReleaseZero, Releasing, TypeOK
      <4>2. CASE ReleaseCas(t) /\ atom[lk[t]] = prev[t]
        BY Zenon, <1>1, <4>2 DEF ReleaseCas, ContendOf
      <4> QED BY Zenon, <3>1, <4>1, <4>2
    <3> QED BY Zenon, <3>2, <3>3, <3>4
  <2> QED BY Zenon, <2>1, <2>2
<1>5. ASSUME NEW u \in Threads, Pending(u) PROVE Pending(u)'
  <2>1. lk[u] \in Locks
    BY Zenon, <1>1 DEF TypeOK
  <2> QED BY Zenon, <1>1, <1>2, <1>4, <1>5, <2>1, PendingKept
<1>6. ~Contends(t)' /\ ~Committed(t)' /\ pc'[t] \notin {"read", "cas"}
  BY Zenon, <1>3 DEF Contends, Committed
<1>7. \A u \in Threads : ContendOf(u)'
  BY Zenon, <1>1, <1>2, <1>3, <1>5, <1>6, ContendFrame
<1> QED BY Zenon, <1>4, <1>7 DEF ContendInv

\* A pretake, or a take that finds the generation changed, revalidates the
\* view of its own thread only: the other one contends for another lock.
LEMMA ContendPretake ==
  ASSUME ListInv, ContendInv, NEW t \in Threads, Pretake(t) \/ TakeMismatch(t)
  PROVE  ContendInv'
<1>1. /\ TypeOK /\ ContendOf(t) /\ Owned /\ pc[t] \in {"pretake", "take"} /\ ListOf(t)
      /\ lk[t] \in Locks /\ Others(t) /\ id[t] = server_lock_id[lk[t]] /\ Found(t)
      /\ UNCHANGED <<atom, held, lk, prev, server_lock_id, blocked_on>>
  BY Zenon, ServerCalm, IdKnown DEF ListInv, ContendInv, Pretake, TakeMismatch, InSection, TypeOK, Calm,
                             client, local, WithId
<1>2. current' = current \cup {id[t]} /\ pc'[t] \in {"owner", "untrack"}
  BY Zenon, <1>1, MovesTo DEF Pretake, TakeMismatch
<1>3. blocked_on[t] = NoId /\ Contends(t) /\ ~Releasing(t)
  BY Zenon, <1>1 DEF ListOf, Due, Contends, Releasing
<1>4. ASSUME NEW u \in Threads, Pending(u) PROVE Pending(u)'
  BY Zenon, <1>1, <1>3, <1>4, PendingKept
<1>5. ASSUME NEW u \in Threads, u # t, Committed(u), server_lock_id[lk[u]] \in current'
      PROVE  server_lock_id[lk[u]] \in current
  <2>1. lk[u] \in Locks /\ Contends(u)
    BY <1>1, <1>5 DEF TypeOK, Committed, Contends
  <2>2. lk[u] # lk[t]
    BY Zenon, <1>1, <1>3, <1>5, <2>1 DEF ContendOf
  <2>3. server_lock_id[lk[u]] # id[t]
    BY Zenon, <1>1, <2>1, <2>2 DEF ListInv, Ids
  <2> QED BY Zenon, <1>2, <1>5, <2>3
<1>6. ~Committed(t)' /\ pc'[t] # "release_cas"
  BY Zenon, <1>2 DEF Committed
<1>7. /\ lk'[t] \notin held'[t] /\ prev'[t].owner # NoThd
      /\ \A u \in Threads : u # t /\ Contends(u) => lk[u] # lk'[t]
  BY Zenon, <1>1, <1>3 DEF ContendOf
<1>8. \A u \in Threads : ContendOf(u)'
  BY Zenon, <1>1, <1>3, <1>4, <1>5, <1>6, <1>7, ContendFrame
<1> QED BY Zenon, <1>1, <1>8 DEF ContendInv, Owned

\* A thread goes to sleep only while the release that will wake it is to come.
LEMMA ContendTakeBlock ==
  ASSUME ListInv, ContendInv, NEW t \in Threads, TakeBlock(t)
  PROVE  ContendInv'
<1>1. /\ TypeOK /\ ContendOf(t) /\ Owned /\ pc[t] = "take" /\ pc'[t] = "block"
      /\ lk[t] \in Locks /\ Others(t) /\ id[t] = server_lock_id[lk[t]]
      /\ UNCHANGED <<atom, held, lk, prev, server_lock_id>> /\ id[t] \in current /\ current' = {}
      /\ \A u \in Threads : u # t => blocked_on'[u] = blocked_on[u]
  BY Zenon, ListTakeBlock, IdKnown DEF ListInv, ContendInv, TakeBlock, InSection, TypeOK, client, local,
                                WithId
<1>2. Contends(t) /\ Committed(t) /\ ~Releasing(t)
  BY Zenon, <1>1 DEF Contends, Committed, Releasing
<1>3. ASSUME NEW u \in Threads, Pending(u) PROVE Pending(u)'
  BY Zenon, <1>1, <1>2, <1>3, PendingKept
<1>4. Pending(t)'
  BY Zenon, <1>1, <1>2, <1>3 DEF ContendOf
<1>5. /\ lk'[t] \notin held'[t] /\ prev'[t].owner # NoThd
      /\ \A u \in Threads : u # t /\ Contends(u) => lk[u] # lk'[t]
  BY Zenon, <1>1, <1>2 DEF ContendOf
<1>6. \A u \in Threads : ContendOf(u)'
  BY Zenon, <1>1, <1>3, <1>4, <1>5, ContendFrame
<1> QED BY Zenon, <1>1, <1>6 DEF ContendInv, Owned

\* A release outdates every view that was not slept on yet, and leaves nobody
\* on the list of its lock.
LEMMA ContendRelease ==
  ASSUME ListInv, ContendInv, NEW t \in Threads, ReleaseNobody(t) \/ ReleaseDetach(t)
  PROVE  ContendInv'
<1>1. /\ TypeOK /\ Owned /\ pc[t] = "release" /\ pc'[t] \in {"client", "wake"} /\ ListOf(t)
      /\ Others(t) /\ id[t] = server_lock_id[lk[t]] /\ Found(t)
      /\ UNCHANGED <<atom, held, lk, server_lock_id>> /\ current' = {}
  BY Zenon, ServerCalm, ListDetach, IdKnown, MovesTo
     DEF ListInv, ContendInv, ReleaseNobody, ReleaseDetach, InSection, Return, Calm, client, local,
         WithId
<1>2. ASSUME NEW u \in Threads, blocked_on'[u] # NoId
      PROVE  blocked_on[u] # NoId /\ blocked_on[u] # id[t]
  <2>1. CASE ReleaseNobody(t)
    BY Zenon, <1>1, <1>2, <2>1 DEF ReleaseNobody, Waiting
  <2>2. CASE ReleaseDetach(t)
    BY Zenon, <1>2, <2>2, ListDetach
  <2> QED BY <2>1, <2>2
<1>3. ASSUME NEW u \in Threads, blocked_on'[u] # NoId, Pending(u) PROVE Pending(u)'
  <2>1. blocked_on[u] = id[u] /\ pc[u] \in {"block", "asleep"}
    BY Zenon, <1>2, <1>3 DEF ListInv, ListOf, Due
  <2>2. id[u] = server_lock_id[lk[u]]
    BY Zenon, <2>1, IdKnown DEF WithId
  <2>3. lk[t] # lk[u]
    BY Zenon, <1>1, <1>2, <1>3, <2>1, <2>2
  <2> QED BY Zenon, <1>1, <1>3, <2>3, PendingKept
<1>4. blocked_on'[t] = NoId
  BY Zenon, <1>1, <1>2 DEF ListOf, Due
<1>5. ~Contends(t)' /\ ~Committed(t)' /\ pc'[t] \notin {"read", "cas", "release_cas"}
  BY <1>1 DEF Contends, Committed
<1>6. \A u \in Threads : ContendOf(u)'
  BY Zenon, <1>1, <1>2, <1>3, <1>4, <1>5, ContendFrame
<1> QED BY Zenon, <1>1, <1>6 DEF ContendInv, Owned

LEMMA InitContend == Init => ContendInv
<1> SUFFICES ASSUME Init PROVE ContendInv
  OBVIOUS
<1>1. Owned
  BY DEF Init, Owned, Free
<1>2. ASSUME NEW t \in Threads
      PROVE  pc[t] = "client" /\ blocked_on[t] = NoId /\ ~Contends(t) /\ ~Committed(t)
  BY DEF Init, Contends, Committed
<1> QED BY Zenon, <1>1, <1>2 DEF ContendInv, ContendOf

LEMMA NextContend ==
  ASSUME ListInv, WordInv, ContendInv, [Next]_vars, MaxFaults = 0, AtMostTwo
  PROVE  ContendInv'
<1>1. ASSUME NEW t \in Threads, Step(t) PROVE ContendInv'
  <2>1. CASE Take(t)
    BY Zenon, <2>1, ContendServer, ContendRead, ContendCas, ContendMark, ContendPretake,
       ContendTakeBlock, NoRecovery DEF Take
  <2>2. CASE Release(t)
    BY Zenon, <2>2, ContendServer, ContendFree, ContendRelease DEF Release
  <2>3. CASE Recover(t)
    BY Zenon, <2>3, ContendServer, NoRecovery DEF Recover
  <2> QED BY <1>1, <2>1, <2>2, <2>3 DEF Step
<1>2. ASSUME NEW t \in Threads, NEW l \in Locks, LockTake(t, l) \/ LockRelease(t, l)
      PROVE  ContendInv'
  BY <1>2, ContendStart
<1>3. ASSUME NEW t \in Threads, Enter(t) PROVE ContendInv'
  BY <1>3, ContendServer
<1>4. CASE UNCHANGED vars
  <2>1. UNCHANGED <<atom, held, pc, lk, prev, call, server_lock_id, current, blocked_on>>
    BY <1>4 DEF vars, client, local, server
  <2>2. ASSUME NEW t \in Threads PROVE ContendOf(t)'
    <3>1. ContendOf(t)
      BY DEF ContendInv
    <3>2. Pending(t) => Pending(t)'
      BY <2>1 DEF Pending, Releasing
    <3>3. \A u \in Threads : (Contends(u)' <=> Contends(u)) /\ (Committed(u)' <=> Committed(u))
      BY <2>1 DEF Contends, Committed
    <3> QED BY Zenon, <2>1, <3>1, <3>2, <3>3 DEF ContendOf
  <2> QED BY <2>1, <2>2 DEF ContendInv, Owned
<1> QED BY <1>1, <1>2, <1>3, <1>4, NoRecovery DEF Next, EnterStep, LeaveLock, Stopped

\* A thread that sleeps is on a list, and the release of its lock is to come.
LEMMA SleeperWoken == ListInv /\ ContendInv => NoLostWakeup
<1> SUFFICES ASSUME ListInv, ContendInv, NEW t \in Threads, Sleeping(t)
             PROVE  WillBeWoken(t)
  BY DEF NoLostWakeup
<1>1. Due(t) /\ ListOf(t) /\ ContendOf(t)
  BY DEF Sleeping, Due, ListInv, ContendInv
<1>2. CASE \E u \in Threads : t \in waking[u]
  BY <1>2 DEF WillBeWoken
<1>3. CASE blocked_on[t] # NoId
  <2>1. Pending(t) /\ blocked_on[t] = id[t]
    BY Zenon, <1>1, <1>3 DEF ContendOf, ListOf
  <2>2. id[t] = server_lock_id[lk[t]]
    BY Zenon, IdKnown DEF Sleeping, WithId
  <2>3. ASSUME NEW u \in Threads, lk[u] = lk[t], pc[u] = "release" PROVE id[u] = blocked_on[t]
    BY <2>1, <2>2, <2>3, IdKnown DEF WithId
  <2> QED BY <2>1, <2>2, <2>3 DEF Pending, Releasing, WillBeWoken
<1> QED BY Zenon, <1>1, <1>2, <1>3 DEF ListOf

\* With two threads, any number of locks and no failure of the component, no
\* thread sleeps in lock_component_take for a lock that nobody will wake it
\* for: the generation recorded by its pretake is still current only while the
\* owner has the release to come.  A third thread breaks this by its own
\* pretake, a failure by starting the generations anew.
THEOREM NoWakeupLost ==
  ASSUME MaxFaults = 0, AtMostTwo
  PROVE  Spec => []NoLostWakeup
<1>1. ListInv /\ WordInv /\ ContendInv /\ [Next]_vars => ContendInv'
  BY NextContend
<1> QED BY <1>1, InitContend, ListsHold, WordInvariant, SleeperWoken, PTL DEF Spec
=============================================================================
