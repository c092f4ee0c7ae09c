------------------------- MODULE ProxyManagerProofs -------------------------
(****************************************************************************)
(* What holds of ProxyManager for every set of tasks and lines, every list  *)
(* and every limit of attempts.  The invariants of the module are not       *)
(* inductive: a call that is between its probe and its writes relies on     *)
(* what the probe saw, on the mutex, and on having no lease of its own.     *)
(* IInv says so.                                                            *)
(****************************************************************************)
EXTENDS ProxyManager, TLAPS

\* Inside the loop of Lease, where the mutex is held.
InLoop(t) == pc[t] \in {"probe", "take", "skip"}

\* The mutex is held by exactly the task that is in the loop.
MutexHeld == \A t \in Tasks : InLoop(t) <=> mu = t

\* In the loop a task has no lease (unlease ran and nothing was taken), and no
\* result before it returns.
NothingYet ==
  \A t \in Tasks : /\ InLoop(t) => leasesByTaskId[t] = NoHash
                   /\ pc[t] # "idle" => ret[t] = NoHash

\* What the probe saw still holds when the lease is written.
ProbeIsFresh ==
  \A t \in Tasks :
    pc[t] = "take" => /\ slot[t] < Len(proxies)
                      /\ leases[proxies[slot[t] + 1]] = NoTask

\* The loop leaves by GiveUp before the attempts exceed the limit.
AttemptsBelow ==
  \A t \in Tasks : /\ pc[t] = "probe" => attempts[t] < MaxAttempts
                   /\ pc[t] \in {"take", "skip"} => attempts[t] >= 1

\* The cursor starts at the first slot the list will have.
CursorAtStart == Len(proxies) = 0 /\ ~panicked => index = 0

IInv ==
  /\ TypeOK
  /\ MutexHeld
  /\ LeasesMirror
  /\ NothingYet
  /\ ProbeIsFresh
  /\ UseIsOnRecord
  /\ AttemptsBelow
  /\ CursorInRange
  /\ CursorAtStart

----------------------------------------------------------------------------
(* The cursor.                                                              *)

\* The cursor stays in a list that has slots: from a slot of the list the wrap
\* by equality leads to a slot of the list.
LEMMA NextIndexInRange ==
  ASSUME NEW n \in Nat, NEW i \in Nat, i < n
  PROVE  NextIndex(i, n) \in Nat /\ NextIndex(i, n) < n
  BY DEF NextIndex

----------------------------------------------------------------------------
(* Types.                                                                   *)

\* Every step of the program keeps the types of the variables.
LEMMA TypeStep ==
  TypeOK /\ AttemptsBelow /\ ProbeIsFresh /\ [Next]_vars => TypeOK'
<1> SUFFICES ASSUME TypeOK, AttemptsBelow, ProbeIsFresh, [Next]_vars
             PROVE  TypeOK'
  OBVIOUS
<1> USE HashAssumption, PartsAssumption, MaxAttemptsAssumption DEF TypeOK
<1>1. ASSUME NEW line \in Lines, AddProxy(line)
      PROVE  TypeOK'
  BY <1>1 DEF AddProxy, local
<1>2. ASSUME NEW line \in Lines, AddProxyPanics(line)
      PROVE  TypeOK'
  BY <1>2 DEF AddProxyPanics, shared, local
<1>3. ASSUME NEW t \in Tasks, Lease(t)
      PROVE  TypeOK'
  BY <1>3 DEF Lease, shared
<1>4. ASSUME NEW t \in Tasks, Enter(t)
      PROVE  TypeOK'
  BY <1>4 DEF Enter, Unlocked, unlease
<1>5. ASSUME NEW t \in Tasks, Probe(t)
      PROVE  TypeOK'
  <2>1. attempts' \in [Tasks -> 0 .. MaxAttempts]
    BY <1>5 DEF Probe, AttemptsBelow
  <2>2. index' \in Nat
    BY <1>5 DEF Probe, NextIndex
  <2> QED
    BY <1>5, <2>1, <2>2 DEF Probe
<1>6. ASSUME NEW t \in Tasks, LeasePanics(t)
      PROVE  TypeOK'
  BY <1>6 DEF LeasePanics, NextIndex, local
<1>7. ASSUME NEW t \in Tasks, Take(t)
      PROVE  TypeOK'
  <2>1. proxies[slot[t] + 1] \in Hashes
    BY <1>7 DEF Take, ProbeIsFresh
  <2> QED
    BY <1>7, <2>1 DEF Take, Return
<1>8. ASSUME NEW t \in Tasks, Skip(t)
      PROVE  TypeOK'
  BY <1>8 DEF Skip, shared
<1>9. ASSUME NEW t \in Tasks, GiveUp(t)
      PROVE  TypeOK'
  BY <1>9 DEF GiveUp, Return
<1>10. CASE UNCHANGED vars
  BY <1>10 DEF vars, shared, local
<1> QED
  BY <1>1, <1>2, <1>3, <1>4, <1>5, <1>6, <1>7, <1>8, <1>9, <1>10
     DEF Next, Alive, InCall, Dead

----------------------------------------------------------------------------
(* The inductive invariant.                                                 *)

\* The program starts in it.
LEMMA IInvInit == Init => IInv
<1> SUFFICES ASSUME Init
             PROVE  IInv
  OBVIOUS
<1> USE SentinelAssumption DEF Init
<1>1. TypeOK
  <2>1. proxies \in Seq(Hashes) /\ index \in Nat
    OBVIOUS
  <2>2. leases \in [Hashes -> Tasks \cup {NoTask}] /\ mu \in Tasks \cup {NoTask}
    OBVIOUS
  <2>3. attempts \in [Tasks -> 0 .. MaxAttempts] /\ slot \in [Tasks -> Nat]
    BY MaxAttemptsAssumption
  <2>4. pc \in [Tasks -> {"idle", "lock", "probe", "take", "skip"}]
    OBVIOUS
  <2>5. /\ leasesByTaskId \in [Tasks -> Hashes \cup {NoHash}]
        /\ ret \in [Tasks -> Hashes \cup {NoHash, LeaseError}]
    OBVIOUS
  <2> QED
    BY <2>1, <2>2, <2>3, <2>4, <2>5 DEF TypeOK
<1>2. MutexHeld /\ NothingYet /\ ProbeIsFresh /\ AttemptsBelow
  BY DEF MutexHeld, InLoop, NothingYet, ProbeIsFresh, AttemptsBelow
<1>3. LeasesMirror /\ UseIsOnRecord
  BY DEF LeasesMirror, UseIsOnRecord, Uses
<1>4. CursorInRange /\ CursorAtStart
  BY DEF CursorInRange, CursorAtStart
<1> QED
  BY <1>1, <1>2, <1>3, <1>4 DEF IInv

\* A new slot at the end of the list moves no other slot, and leaves the
\* cursor where it is.
LEMMA AddProxyKeeps ==
  ASSUME IInv, NEW line \in Lines, AddProxy(line), ~panicked, TypeOK'
  PROVE  IInv'
<1> USE HashAssumption DEF IInv, TypeOK, AddProxy, local
<1>1. UNCHANGED <<index, leases, leasesByTaskId, mu, pc, attempts, slot, ret, panicked>>
  OBVIOUS
<1>2. /\ Len(proxies') = Len(proxies) + 1
      /\ \A i \in 1 .. Len(proxies) : proxies'[i] = proxies[i]
  OBVIOUS
<1>3. MutexHeld' /\ LeasesMirror' /\ NothingYet' /\ UseIsOnRecord' /\ AttemptsBelow'
  BY <1>1 DEF MutexHeld, InLoop, LeasesMirror, NothingYet, UseIsOnRecord, Uses,
              AttemptsBelow
<1>4. ProbeIsFresh'
  BY <1>1, <1>2 DEF ProbeIsFresh
<1>5. CursorInRange' /\ CursorAtStart'
  BY <1>1, <1>2 DEF CursorInRange, CursorAtStart
<1> QED
  BY <1>3, <1>4, <1>5

\* A call that starts gives up its last result before anything else.
LEMMA LeaseKeeps ==
  ASSUME IInv, NEW t \in Tasks, Lease(t), TypeOK'
  PROVE  IInv'
<1> USE DEF IInv, TypeOK, Lease, shared
<1>1. MutexHeld' /\ LeasesMirror'
  BY DEF MutexHeld, InLoop, LeasesMirror
<1>2. NothingYet'
  BY DEF NothingYet, InLoop
<1>3. UseIsOnRecord'
  BY DEF UseIsOnRecord, Uses
<1>4. ProbeIsFresh' /\ AttemptsBelow' /\ CursorInRange' /\ CursorAtStart'
  BY DEF ProbeIsFresh, AttemptsBelow, CursorInRange, CursorAtStart
<1> QED
  BY <1>1, <1>2, <1>3, <1>4

\* unlease takes the caller's entry out of both maps and touches no entry of
\* another task: the mirror says whose entry it deletes.
LEMMA EnterKeeps ==
  ASSUME IInv, NEW t \in Tasks, Enter(t), TypeOK'
  PROVE  IInv'
<1> USE SentinelAssumption DEF IInv, TypeOK, Enter, Unlocked
<1>1. \A u \in Tasks : ~InLoop(u)
  BY DEF MutexHeld
<1>2. MutexHeld'
  BY <1>1 DEF MutexHeld, InLoop
<1>3. LeasesMirror'
  BY DEF LeasesMirror, unlease
<1>4. NothingYet'
  BY <1>1 DEF NothingYet, InLoop, unlease
<1>5. ProbeIsFresh' /\ AttemptsBelow'
  BY <1>1, MaxAttemptsAssumption DEF ProbeIsFresh, AttemptsBelow, InLoop
<1>6. UseIsOnRecord'
  BY DEF UseIsOnRecord, Uses, LeasesMirror, unlease
<1>7. CursorInRange' /\ CursorAtStart'
  BY DEF CursorInRange, CursorAtStart
<1> QED
  BY <1>2, <1>3, <1>4, <1>5, <1>6, <1>7

\* A probe moves the cursor inside the list and remembers a slot it found
\* free, or found leased.
LEMMA ProbeKeeps ==
  ASSUME IInv, NEW t \in Tasks, Probe(t), TypeOK'
  PROVE  IInv'
<1> USE DEF IInv, TypeOK, Probe
<1>1. MutexHeld' /\ LeasesMirror' /\ NothingYet' /\ UseIsOnRecord'
  BY DEF MutexHeld, InLoop, LeasesMirror, NothingYet, UseIsOnRecord, Uses
<1>2. ProbeIsFresh'
  BY DEF ProbeIsFresh
<1>3. AttemptsBelow'
  BY DEF AttemptsBelow
<1>4. CursorInRange' /\ CursorAtStart'
  BY NextIndexInRange DEF CursorInRange, CursorAtStart
<1> QED
  BY <1>1, <1>2, <1>3, <1>4

\* A read out of range ends the process.
LEMMA LeasePanicsKeeps ==
  ASSUME IInv, NEW t \in Tasks, LeasePanics(t), TypeOK'
  PROVE  IInv'
<1> USE DEF IInv, TypeOK, LeasePanics, local
<1>1. proxies = <<>>
  BY DEF CursorInRange
<1>2. MutexHeld' /\ LeasesMirror' /\ NothingYet' /\ UseIsOnRecord' /\ AttemptsBelow'
  BY DEF MutexHeld, InLoop, LeasesMirror, NothingYet, UseIsOnRecord, Uses,
         AttemptsBelow
<1>3. ProbeIsFresh' /\ CursorInRange' /\ CursorAtStart'
  BY <1>1 DEF ProbeIsFresh, CursorInRange, CursorAtStart
<1> QED
  BY <1>2, <1>3

\* The free proxy goes to a task that has none, so both maps gain one entry
\* and remain inverse.
LEMMA TakeKeeps ==
  ASSUME IInv, NEW t \in Tasks, Take(t), TypeOK'
  PROVE  IInv'
<1> USE SentinelAssumption DEF IInv, TypeOK, Take
<1> DEFINE h == proxies[slot[t] + 1]
<1>1. /\ h \in Hashes
      /\ leases[h] = NoTask
      /\ leasesByTaskId[t] = NoHash
      /\ leases' = [leases EXCEPT ![h] = t]
      /\ leasesByTaskId' = [leasesByTaskId EXCEPT ![t] = h]
  BY DEF ProbeIsFresh, NothingYet, InLoop
<1>2. mu = t /\ \A u \in Tasks : InLoop(u) => u = t
  BY DEF MutexHeld, InLoop
<1>3. /\ pc' = [pc EXCEPT ![t] = "idle"]
      /\ mu' = NoTask
      /\ ret'[t] \in {h, LeaseError}
      /\ \A u \in Tasks \ {t} : ret'[u] = ret[u]
      /\ UNCHANGED <<proxies, index, panicked>>
  BY DEF Return
<1> HIDE DEF h, Take
<1>4. MutexHeld'
  BY <1>2, <1>3 DEF MutexHeld, InLoop
<1>5. LeasesMirror'
  BY <1>1 DEF LeasesMirror
<1>6. NothingYet' /\ ProbeIsFresh'
  BY <1>2, <1>3 DEF NothingYet, ProbeIsFresh, InLoop
<1>7. UseIsOnRecord'
  BY <1>1, <1>3 DEF UseIsOnRecord, Uses, LeasesMirror
<1>8. AttemptsBelow'
  BY <1>2, <1>3 DEF AttemptsBelow, InLoop
<1>9. CursorInRange' /\ CursorAtStart'
  BY <1>3 DEF CursorInRange, CursorAtStart
<1> QED
  BY <1>4, <1>5, <1>6, <1>7, <1>8, <1>9

\* The loop goes on below the limit of attempts.
LEMMA SkipKeeps ==
  ASSUME IInv, NEW t \in Tasks, Skip(t), TypeOK'
  PROVE  IInv'
<1> USE DEF IInv, TypeOK, Skip, Exhausted, shared
<1>1. MutexHeld' /\ LeasesMirror' /\ NothingYet' /\ UseIsOnRecord'
  BY DEF MutexHeld, InLoop, LeasesMirror, NothingYet, UseIsOnRecord, Uses
<1>2. ProbeIsFresh' /\ CursorInRange' /\ CursorAtStart'
  BY DEF ProbeIsFresh, CursorInRange, CursorAtStart
<1>3. AttemptsBelow'
  BY MaxAttemptsAssumption DEF AttemptsBelow
<1> QED
  BY <1>1, <1>2, <1>3

\* A call that gives up leaves the maps as unlease left them.
LEMMA GiveUpKeeps ==
  ASSUME IInv, NEW t \in Tasks, GiveUp(t), TypeOK'
  PROVE  IInv'
<1> USE SentinelAssumption DEF IInv, TypeOK, GiveUp, Return
<1>1. mu = t /\ \A u \in Tasks : InLoop(u) => u = t
  BY DEF MutexHeld, InLoop
<1>2. MutexHeld' /\ LeasesMirror'
  BY <1>1 DEF MutexHeld, InLoop, LeasesMirror
<1>3. NothingYet' /\ ProbeIsFresh' /\ AttemptsBelow'
  BY <1>1 DEF NothingYet, ProbeIsFresh, AttemptsBelow, InLoop
<1>4. UseIsOnRecord' /\ CursorInRange' /\ CursorAtStart'
  BY DEF UseIsOnRecord, Uses, CursorInRange, CursorAtStart
<1> QED
  BY <1>2, <1>3, <1>4

\* Every step of the program preserves it.
LEMMA IInvStep == IInv /\ [Next]_vars => IInv'
<1> SUFFICES ASSUME IInv, [Next]_vars
             PROVE  IInv'
  OBVIOUS
<1>1. TypeOK'
  BY TypeStep DEF IInv
<1>2. CASE UNCHANGED vars
  BY <1>1, <1>2
     DEF vars, shared, local, IInv, MutexHeld, InLoop, LeasesMirror, NothingYet,
         ProbeIsFresh, UseIsOnRecord, Uses, AttemptsBelow, CursorInRange,
         CursorAtStart
<1>3. ASSUME NEW line \in Lines, AddProxyPanics(line)
      PROVE  IInv'
  BY <1>1, <1>3
     DEF AddProxyPanics, shared, local, IInv, MutexHeld, InLoop, LeasesMirror,
         NothingYet, ProbeIsFresh, UseIsOnRecord, Uses, AttemptsBelow,
         CursorInRange, CursorAtStart
<1> QED
  BY <1>1, <1>2, <1>3, AddProxyKeeps, LeaseKeeps, EnterKeeps, ProbeKeeps,
     LeasePanicsKeeps, TakeKeeps, SkipKeeps, GiveUpKeeps
     DEF Next, Alive, InCall, Dead

----------------------------------------------------------------------------
(* What follows for every behaviour.                                        *)

\* The inductive invariant holds in every reachable state.
THEOREM Inductive == Spec => []IInv
<1>1. Init => IInv
  BY IInvInit
<1>2. IInv /\ [Next]_vars => IInv'
  BY IInvStep
<1> QED
  BY <1>1, <1>2, PTL DEF Spec

\* Every variable keeps its type; the attempts never exceed the limit.
THEOREM TypeCorrect == Spec => []TypeOK
<1>1. IInv => TypeOK
  BY DEF IInv
<1> QED
  BY <1>1, Inductive, PTL

\* leases and leasesByTaskId are inverse to each other after every step.
THEOREM MirrorHolds == Spec => []LeasesMirror
<1>1. IInv => LeasesMirror
  BY DEF IInv
<1> QED
  BY <1>1, Inductive, PTL

\* A proxy in use is on record for the task that uses it.
THEOREM UseHolds == Spec => []UseIsOnRecord
<1>1. IInv => UseIsOnRecord
  BY DEF IInv
<1> QED
  BY <1>1, Inductive, PTL

\* No two tasks use the same proxy at the same time.
THEOREM Exclusion == Spec => []ExclusiveUse
<1>1. IInv => ExclusiveUse
  BY DEF IInv, UseIsOnRecord, ExclusiveUse
<1> QED
  BY <1>1, Inductive, PTL

\* The cursor stays in the list.
THEOREM CursorHolds == Spec => []CursorInRange
<1>1. IInv => CursorInRange
  BY DEF IInv
<1> QED
  BY <1>1, Inductive, PTL
=============================================================================
