----------------------- MODULE ProxyManagerWalkProofs -----------------------
(****************************************************************************)
(* Two results that need more than the state of the maps: that the error of *)
(* Lease is truthful for lists the walk can cover (ErrorOnlyWhenFull), and  *)
(* that the manager implements the abstract pool (LeasePool).               *)
(****************************************************************************)
EXTENDS ProxyManagerProofs

\* Slot i is one of the k slots before slot c, going backwards round the list.
Behind(i, c, k) ==
  \/ c - i \in 1 .. k
  \/ c + Len(proxies) - i \in 1 .. k

\* Every slot a call has walked over was found leased and still is: nobody
\* else can write the maps, and the call itself writes them only to return.
\* In "take" the slot found free is the one after the walked ones.
Walked ==
  \A t \in Tasks : \A i \in 0 .. Len(proxies) - 1 :
    /\ pc[t] \in {"probe", "skip"} /\ Behind(i, index, attempts[t])
         => leases[proxies[i + 1]] # NoTask
    /\ pc[t] = "take" /\ Behind(i, slot[t], attempts[t] - 1)
         => leases[proxies[i + 1]] # NoTask

----------------------------------------------------------------------------
(* The ring.                                                                *)

\* As many steps as there are slots cover the list, wherever they end.
LEMMA AllBehind ==
  ASSUME TypeOK, NEW c \in 0 .. Len(proxies) - 1, NEW k \in Nat,
         NEW i \in 0 .. Len(proxies) - 1, Len(proxies) <= k
  PROVE  Behind(i, c, k)
<1>1. Len(proxies) \in Nat
  BY DEF TypeOK
<1> QED
  BY <1>1 DEF Behind

\* One step less covers all but the slot where they end.
LEMMA OthersBehind ==
  ASSUME TypeOK, NEW c \in 0 .. Len(proxies) - 1, NEW k \in Nat,
         NEW i \in 0 .. Len(proxies) - 1, i # c, Len(proxies) <= k + 1
  PROVE  Behind(i, c, k)
<1>1. Len(proxies) \in Nat
  BY DEF TypeOK
<1> QED
  BY <1>1 DEF Behind

\* A step of the cursor puts the slot it leaves behind it, and no other.
LEMMA BehindNext ==
  ASSUME TypeOK, NEW c \in 0 .. Len(proxies) - 1, NEW k \in Nat,
         NEW i \in 0 .. Len(proxies) - 1,
         Behind(i, NextIndex(c, Len(proxies)), k + 1)
  PROVE  i = c \/ Behind(i, c, k)
<1>1. Len(proxies) \in Nat
  BY DEF TypeOK
<1> QED
  BY <1>1 DEF Behind, NextIndex

----------------------------------------------------------------------------
(* The walk.                                                                *)

\* Nothing has been walked over at the start.
LEMMA WalkedInit == Init => Walked
  BY DEF Init, Walked

\* A probe extends the walk by the slot it saw leased, or ends it at the slot
\* it saw free.
LEMMA WalkedProbe ==
  ASSUME IInv, Walked, NEW t \in Tasks, Probe(t)
  PROVE  Walked'
<1> USE DEF IInv, TypeOK
<1>1. /\ index \in 0 .. Len(proxies) - 1
      /\ attempts[t] \in Nat
      /\ Len(proxies) \in Nat
      /\ pc[t] = "probe"
  BY MaxAttemptsAssumption DEF Probe
<1>2. /\ index' = NextIndex(index, Len(proxies))
      /\ attempts'[t] = attempts[t] + 1
      /\ slot'[t] = index
      /\ pc'[t] = IF leases[proxies[index + 1]] = NoTask THEN "take" ELSE "skip"
      /\ UNCHANGED <<proxies, leases>>
      /\ \A u \in Tasks \ {t} : pc'[u] = pc[u]
  BY DEF Probe
<1>3. \A u \in Tasks : InLoop(u) => u = t
  BY <1>1 DEF MutexHeld, InLoop
<1> SUFFICES ASSUME NEW u \in Tasks, NEW i \in 0 .. Len(proxies) - 1
             PROVE  /\ pc'[u] \in {"probe", "skip"}
                         /\ Behind(i, index, attempts[u])'
                       => leases[proxies[i + 1]] # NoTask
                    /\ pc'[u] = "take" /\ Behind(i, slot[u], attempts[u] - 1)'
                       => leases[proxies[i + 1]] # NoTask
  BY <1>2 DEF Walked
<1>4. CASE u # t
  BY <1>2, <1>3, <1>4 DEF InLoop
<1>5. CASE u = t /\ pc'[t] = "skip"
  <2>1. leases[proxies[index + 1]] # NoTask
    BY <1>2, <1>5
  <2>2. Behind(i, index, attempts[t])'
          => Behind(i, NextIndex(index, Len(proxies)), attempts[t] + 1)
    BY <1>2 DEF Behind
  <2>3. Behind(i, index, attempts[t])' => i = index \/ Behind(i, index, attempts[t])
    BY <1>1, <2>2, BehindNext
  <2> QED
    BY <1>1, <1>5, <2>1, <2>3 DEF Walked
<1>6. CASE u = t /\ pc'[t] = "take"
  <2>1. Behind(i, slot[t], attempts[t] - 1)' => Behind(i, index, attempts[t])
    BY <1>1, <1>2 DEF Behind
  <2> QED
    BY <1>1, <1>6, <2>1 DEF Walked
<1> QED
  BY <1>2, <1>4, <1>5, <1>6

\* No other step disturbs the walk.
LEMMA WalkedStep == IInv /\ Walked /\ [Next]_vars => Walked'
<1> SUFFICES ASSUME IInv, Walked, [Next]_vars
             PROVE  Walked'
  OBVIOUS
<1> USE DEF IInv, TypeOK
<1>1. ASSUME NEW line \in Lines, AddProxy(line)
      PROVE  Walked'
  <2>1. \A u \in Tasks : pc[u] \notin {"probe", "take", "skip"}
    BY <1>1, SentinelAssumption DEF AddProxy, Unlocked, MutexHeld, InLoop
  <2> QED
    BY <1>1, <2>1 DEF AddProxy, local, Walked
<1>2. ASSUME NEW line \in Lines, AddProxyPanics(line)
      PROVE  Walked'
  BY <1>2 DEF AddProxyPanics, shared, local, Walked, Behind
<1>3. ASSUME NEW t \in Tasks, Lease(t)
      PROVE  Walked'
  BY <1>3 DEF Lease, shared, Walked, Behind
<1>4. ASSUME NEW t \in Tasks, Enter(t)
      PROVE  Walked'
  <2>1. \A u \in Tasks : pc[u] \notin {"probe", "take", "skip"}
    BY <1>4, SentinelAssumption DEF Enter, Unlocked, MutexHeld, InLoop
  <2>2. /\ attempts'[t] = 0
        /\ pc'[t] = "probe"
        /\ \A u \in Tasks \ {t} : pc'[u] = pc[u]
    BY <1>4 DEF Enter, Unlocked
  <2> QED
    BY <2>1, <2>2 DEF Walked, Behind
<1>5. ASSUME NEW t \in Tasks, Probe(t)
      PROVE  Walked'
  BY <1>5, WalkedProbe
<1>6. ASSUME NEW t \in Tasks, LeasePanics(t)
      PROVE  Walked'
  <2>1. Len(proxies') = 0
    BY <1>6 DEF LeasePanics, CursorInRange
  <2> QED
    BY <2>1 DEF Walked
<1>7. ASSUME NEW t \in Tasks, Take(t) \/ GiveUp(t)
      PROVE  Walked'
  <2>1. pc[t] \in {"take", "skip"} /\ pc' = [pc EXCEPT ![t] = "idle"]
    BY <1>7 DEF Take, GiveUp, Return
  <2>2. \A u \in Tasks : pc'[u] \notin {"probe", "take", "skip"}
    BY <2>1 DEF MutexHeld, InLoop
  <2> QED
    BY <2>2 DEF Walked
<1>8. ASSUME NEW t \in Tasks, Skip(t)
      PROVE  Walked'
  BY <1>8 DEF Skip, shared, Walked, Behind
<1>9. CASE UNCHANGED vars
  BY <1>9 DEF vars, shared, local, Walked, Behind
<1> QED
  BY <1>1, <1>2, <1>3, <1>4, <1>5, <1>6, <1>7, <1>8, <1>9
     DEF Next, Alive, InCall, Dead

----------------------------------------------------------------------------
(* The error of Lease.                                                      *)

\* What ErrorOnlyWhenFull says of one call.
FullWhenError(t) ==
  /\ pc[t] # "idle"
  /\ ret'[t] = LeaseError
  /\ Len(proxies) <= MaxAttempts
  => \A i \in 1 .. Len(proxies) :
       /\ leases'[proxies[i]] # NoTask
       /\ Len(proxies) < MaxAttempts => leases'[proxies[i]] # t

\* A call that gives up has walked over the whole list.
LEMMA GiveUpFull ==
  ASSUME IInv, Walked, NEW t \in Tasks, GiveUp(t)
  PROVE  FullWhenError(t)
<1> USE DEF IInv, TypeOK
<1>1. /\ pc[t] = "skip"
      /\ attempts[t] = MaxAttempts
      /\ leases' = leases
      /\ leasesByTaskId[t] = NoHash
  BY DEF GiveUp, Exhausted, NothingYet, InLoop
<1> SUFFICES ASSUME Len(proxies) <= MaxAttempts, NEW i \in 1 .. Len(proxies)
             PROVE  leases[proxies[i]] # NoTask /\ leases[proxies[i]] # t
  BY <1>1 DEF FullWhenError
<1>2. /\ i - 1 \in 0 .. Len(proxies) - 1
      /\ index \in 0 .. Len(proxies) - 1
      /\ proxies[i] \in Hashes
  BY DEF CursorInRange
<1>3. Behind(i - 1, index, MaxAttempts)
  BY <1>2, AllBehind, MaxAttemptsAssumption
<1>4. leases[proxies[(i - 1) + 1]] # NoTask
  BY <1>1, <1>2, <1>3 DEF Walked
<1>5. leases[proxies[i]] # t
  BY <1>1, <1>2, SentinelAssumption DEF LeasesMirror
<1> QED
  BY <1>4, <1>5

\* A call that takes a proxy on its last attempt has walked over all the
\* others, and the list is as long as the attempts: in a shorter list the
\* last attempt comes back to a slot it has found leased.
LEMMA TakeFull ==
  ASSUME IInv, Walked, NEW t \in Tasks, Take(t)
  PROVE  FullWhenError(t)
<1> USE MaxAttemptsAssumption, SentinelAssumption DEF IInv, TypeOK
<1> DEFINE h == proxies[slot[t] + 1]
<1>1. /\ pc[t] = "take"
      /\ slot[t] \in 0 .. Len(proxies) - 1
      /\ h \in Hashes
      /\ leases[h] = NoTask
      /\ leases' = [leases EXCEPT ![h] = t]
      /\ ret'[t] = IF attempts[t] = MaxAttempts THEN LeaseError ELSE h
  BY DEF Take, Return, Exhausted, ProbeIsFresh
<1> SUFFICES ASSUME ret'[t] = LeaseError, Len(proxies) <= MaxAttempts,
                    NEW i \in 1 .. Len(proxies)
             PROVE  /\ leases'[proxies[i]] # NoTask
                    /\ Len(proxies) < MaxAttempts => leases'[proxies[i]] # t
  BY DEF FullWhenError
<1>2. attempts[t] = MaxAttempts
  BY <1>1
<1>3. i - 1 \in 0 .. Len(proxies) - 1 /\ proxies[i] \in Hashes
  OBVIOUS
<1>4. ASSUME Len(proxies) < MaxAttempts
      PROVE  FALSE
  <2>1. Behind(slot[t], slot[t], MaxAttempts - 1)
    BY <1>1, <1>4, AllBehind
  <2> QED
    BY <1>1, <1>2, <2>1 DEF Walked
<1>5. CASE i - 1 = slot[t]
  BY <1>1, <1>3, <1>4, <1>5
<1>6. CASE i - 1 # slot[t]
  <2> DEFINE k == MaxAttempts - 1
  <2>0. k \in Nat /\ Len(proxies) <= k + 1
    OBVIOUS
  <2> HIDE DEF k
  <2>1. Behind(i - 1, slot[t], k)
    BY <1>1, <1>3, <1>6, <2>0, OthersBehind
  <2>2. leases[proxies[(i - 1) + 1]] # NoTask
    BY <1>1, <1>2, <1>3, <2>1 DEF Walked, k
  <2> QED
    BY <1>1, <1>3, <1>4, <2>2
<1> QED
  BY <1>5, <1>6

\* No step makes a call end with an untruthful error.
LEMMA ErrorStep ==
  ASSUME IInv, Walked, [Next]_vars, NEW t \in Tasks
  PROVE  FullWhenError(t)
<1> SUFFICES ASSUME pc[t] # "idle", ret'[t] = LeaseError
             PROVE  FullWhenError(t)
  BY DEF FullWhenError
<1> USE DEF IInv, TypeOK
<1>1. ret[t] # LeaseError
  BY SentinelAssumption DEF NothingYet
<1>2. ret' # ret
  BY <1>1
<1>3. PICK u \in Tasks : Lease(u) \/ Take(u) \/ GiveUp(u)
  BY <1>2 DEF Next, Alive, InCall, Dead, vars, local, AddProxy, AddProxyPanics,
              Enter, Probe, LeasePanics, Skip
<1>4. ~Lease(u)
  BY <1>1, SentinelAssumption DEF Lease
<1>5. u = t
  BY <1>1, <1>3, <1>4 DEF Take, GiveUp, Return
<1> QED
  BY <1>3, <1>4, <1>5, TakeFull, GiveUpFull

\* A call ends with the error only when every proxy of the list is leased, and
\* leased by other tasks if the list is shorter than the attempts.
THEOREM ErrorTruthful == Spec => ErrorOnlyWhenFull
<1>1. Spec => []Walked
  <2>1. Init => Walked
    BY WalkedInit
  <2>2. IInv /\ Walked /\ [Next]_vars => Walked'
    BY WalkedStep
  <2> QED
    BY <2>1, <2>2, Inductive, PTL DEF Spec
<1>2. IInv /\ Walked /\ [Next]_vars =>
        [\A t \in Tasks :
           /\ pc[t] # "idle"
           /\ ret'[t] = LeaseError
           /\ Len(proxies) <= MaxAttempts
           => \A i \in 1 .. Len(proxies) :
                /\ leases'[proxies[i]] # NoTask
                /\ Len(proxies) < MaxAttempts => leases'[proxies[i]] # t]_vars
  BY ErrorStep DEF FullWhenError
<1> QED
  BY <1>1, <1>2, Inductive, PTL DEF Spec, ErrorOnlyWhenFull

----------------------------------------------------------------------------
(* The abstract pool.                                                       *)

\* The callers inside a call, as the pool sees them.
Asking == {t \in Tasks : pc[t] # "idle"}

\* The empty manager is an empty pool.
LEMMA PoolInit == Init => Pool!Init
  BY DEF Init, Pool!Init

\* Every step of the manager is a step of the pool, or one the pool does not
\* see.
LEMMA PoolStep == IInv /\ [Next]_vars => [Pool!Next]_(Pool!vars)
<1> SUFFICES ASSUME IInv, [Next]_vars
             PROVE  Pool!Next \/ UNCHANGED <<leases, ret, Asking>>
  BY DEF Pool!vars, Asking
<1> USE SentinelAssumption DEF IInv, TypeOK
<1>1. ASSUME NEW line \in Lines, AddProxy(line) \/ AddProxyPanics(line)
      PROVE  UNCHANGED <<leases, ret, Asking>>
  BY <1>1 DEF AddProxy, AddProxyPanics, shared, local, Asking
<1>2. ASSUME NEW t \in Tasks, Lease(t)
      PROVE  Pool!Ask(t)
  BY <1>2 DEF Lease, shared, Pool!Ask
<1>3. ASSUME NEW t \in Tasks, Enter(t)
      PROVE  Pool!Release(t)
  <2>1. t \in Asking /\ Asking' = Asking /\ UNCHANGED ret
    BY <1>3 DEF Enter, Unlocked, Asking
  <2>2. \A h \in Hashes : h = leasesByTaskId[t] <=> leases[h] = t
    BY DEF LeasesMirror
  <2>3. leases' = [h \in Hashes |-> IF leases[h] = t THEN NoTask ELSE leases[h]]
    BY <1>3, <2>2 DEF Enter, Unlocked, unlease
  <2> QED
    BY <2>1, <2>3 DEF Pool!Release, Asking
<1>4. ASSUME NEW t \in Tasks, Probe(t) \/ LeasePanics(t) \/ Skip(t)
      PROVE  UNCHANGED <<leases, ret, Asking>>
  BY <1>4 DEF Probe, LeasePanics, Skip, shared, local, Asking
<1>5. ASSUME NEW t \in Tasks, Take(t)
      PROVE  Pool!Grant(t)
  <2> DEFINE h == proxies[slot[t] + 1]
  <2>1. h \in Hashes /\ leases[h] = NoTask
    BY <1>5 DEF Take, ProbeIsFresh
  <2>2. \A g \in Hashes : leases[g] # t
    BY <1>5 DEF Take, NothingYet, InLoop, LeasesMirror
  <2>3. t \in Asking /\ Asking' = Asking \ {t}
    BY <1>5 DEF Take, Return, Asking
  <2>4. /\ leases' = [leases EXCEPT ![h] = t]
        /\ ret' \in {[ret EXCEPT ![t] = a] : a \in {h, LeaseError}}
    BY <1>5 DEF Take, Return
  <2> HIDE DEF h
  <2> QED
    BY <2>1, <2>2, <2>3, <2>4 DEF Pool!Grant, Asking
<1>6. ASSUME NEW t \in Tasks, GiveUp(t)
      PROVE  Pool!Refuse(t)
  <2>1. \A g \in Hashes : leases[g] # t
    BY <1>6 DEF GiveUp, NothingYet, InLoop, LeasesMirror
  <2> QED
    BY <1>6, <2>1 DEF GiveUp, Return, Pool!Refuse
<1>7. CASE UNCHANGED vars
  BY <1>7 DEF vars, shared, local, Asking
<1> QED
  BY <1>1, <1>2, <1>3, <1>4, <1>5, <1>6, <1>7
     DEF Next, Alive, InCall, Dead, Pool!Next

\* The manager is a pool that gives an item to one task at a time.
THEOREM Refinement == Spec => ImplementsPool
<1>1. Init => Pool!Init
  BY PoolInit
<1>2. IInv /\ [Next]_vars => [Pool!Next]_(Pool!vars)
  BY PoolStep
<1> QED
  BY <1>1, <1>2, Inductive, PTL DEF Spec, ImplementsPool, Pool!PoolSpec
=============================================================================
