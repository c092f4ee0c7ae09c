---------------------------- MODULE ProxyManager ----------------------------
(****************************************************************************)
(* The pool of leased proxies (proxymanager.go): AddProxy and Lease, one    *)
(* step per access to the shared fields, under the manager's mutex.  Tasks  *)
(* call Lease from their own goroutines; a call takes the mutex, takes back *)
(* the caller's old lease, then walks the list from a shared cursor until   *)
(* it finds a proxy whose hash nobody leases or has tried MaxAttempts.      *)
(*                                                                          *)
(* A proxy is its hash (the md5 of its line: two equal lines are two slots  *)
(* with the same hash); host, port and credentials are left out, except     *)
(* that the number of ":"-separated parts decides whether AddProxy panics.  *)
(* A panic in any goroutine is the end of the process: `panicked`.          *)
(*                                                                          *)
(* A definition whose name starts with Faulty is the definition after it    *)
(* with a plausible mistake: no behaviour uses it, it shows that a property *)
(* notices the mistake.                                                     *)
(****************************************************************************)
EXTENDS Integers, Sequences

CONSTANTS Tasks,       \* task ids that call Lease
          Lines,       \* lines AddProxy may be given
          Hashes,      \* md5 sums of those lines
          Hash,        \* the md5 of each line
          Parts,       \* how many ":"-separated parts each line has
          MaxAttempts, \* probes one call makes before it gives up (5 in the code)
          MaxProxies,  \* bound on the length of the list (not in the code)
          NoTask,      \* an absent entry of leases
          NoHash,      \* an absent entry of leasesByTaskId; a call in progress
          LeaseError   \* the error Lease returns

ASSUME HashAssumption == Hash \in [Lines -> Hashes]
ASSUME PartsAssumption == Parts \in [Lines -> Nat \ {0}]
ASSUME MaxAttemptsAssumption == MaxAttempts \in Nat \ {0}
ASSUME MaxProxiesAssumption == MaxProxies \in Nat
ASSUME SentinelAssumption ==
  /\ NoTask \notin Tasks
  /\ NoHash \notin Hashes
  /\ LeaseError \notin Hashes
  /\ NoHash # LeaseError

VARIABLES
  proxies,         \* pm.proxies, as the sequence of the proxies' hashes
  index,           \* pm.index, counting from 0 as the code does
  leases,          \* pm.leases: hash -> task
  leasesByTaskId,  \* pm.leasesByTaskId: task -> hash
  mu,              \* the task that holds pm.mu, or NoTask
  pc,              \* where each task is in Lease
  attempts,        \* the local variable of each task's call
  slot,            \* the local variable i of each task's call
  ret,             \* what each task's last call returned
  panicked         \* the process has died

shared == <<proxies, index, leases, leasesByTaskId, mu>>
local == <<pc, attempts, slot, ret>>
vars == <<shared, local, panicked>>

TypeOK ==
  /\ proxies \in Seq(Hashes)
  /\ index \in Nat
  /\ leases \in [Hashes -> Tasks \cup {NoTask}]
  /\ leasesByTaskId \in [Tasks -> Hashes \cup {NoHash}]
  /\ mu \in Tasks \cup {NoTask}
  /\ pc \in [Tasks -> {"idle", "lock", "probe", "take", "skip"}]
  /\ attempts \in [Tasks -> 0 .. MaxAttempts]
  /\ slot \in [Tasks -> Nat]
  /\ ret \in [Tasks -> Hashes \cup {NoHash, LeaseError}]
  /\ panicked \in BOOLEAN

Init ==
  /\ proxies = <<>>
  /\ index = 0
  /\ leases = [h \in Hashes |-> NoTask]
  /\ leasesByTaskId = [t \in Tasks |-> NoHash]
  /\ mu = NoTask
  /\ pc = [t \in Tasks |-> "idle"]
  /\ attempts = [t \in Tasks |-> 0]
  /\ slot = [t \in Tasks |-> 0]
  /\ ret = [t \in Tasks |-> NoHash]
  /\ panicked = FALSE

----------------------------------------------------------------------------
FaultyUnlocked == TRUE  \* no mutex

Unlocked == mu = NoTask

(* AddProxy.  It has no step in which another goroutine could see a partial *)
(* effect, so it is one action, possible while nobody holds the mutex.      *)

\* parts[1] is read of every line and parts[3] of every line with more than
\* two parts: lines with one or three parts are out of range.
WellFormed(line) == Parts[line] \notin {1, 3}

AddProxy(line) ==
  /\ Unlocked
  /\ WellFormed(line)
  /\ Len(proxies) < MaxProxies
  /\ proxies' = Append(proxies, Hash[line])
  /\ UNCHANGED <<index, leases, leasesByTaskId, mu, local, panicked>>

AddProxyPanics(line) ==
  /\ Unlocked
  /\ ~WellFormed(line)
  /\ panicked' = TRUE
  /\ UNCHANGED <<shared, local>>

----------------------------------------------------------------------------
(* Lease.                                                                   *)

\* The call itself: the caller waits for the mutex and its last result is no
\* longer used.
Lease(t) ==
  /\ pc[t] = "idle"
  /\ pc' = [pc EXCEPT ![t] = "lock"]
  /\ ret' = [ret EXCEPT ![t] = NoHash]
  /\ UNCHANGED <<shared, attempts, slot, panicked>>

FaultyUnlease(t) ==  \* forgets the entry of leases
  /\ leases' = leases
  /\ leasesByTaskId' = [leasesByTaskId EXCEPT ![t] = NoHash]

\* unlease: delete from a Go map ignores a key that is not there, so a task
\* without a lease changes nothing.
unlease(t) ==
  /\ leases' = [h \in Hashes |->
                  IF h = leasesByTaskId[t] THEN NoTask ELSE leases[h]]
  /\ leasesByTaskId' = [leasesByTaskId EXCEPT ![t] = NoHash]

Enter(t) ==
  /\ pc[t] = "lock"
  /\ Unlocked
  /\ mu' = t
  /\ unlease(t)
  /\ attempts' = [attempts EXCEPT ![t] = 0]
  /\ pc' = [pc EXCEPT ![t] = "probe"]
  /\ UNCHANGED <<proxies, index, slot, ret, panicked>>

FaultyNextIndex(i, n) == IF i = n THEN 0 ELSE i + 1  \* wraps one slot late

\* The cursor after slot i of a list of n: it wraps only when it lands on n.
NextIndex(i, n) == IF i + 1 = n THEN 0 ELSE i + 1

\* One turn of the loop up to the test of leases.
Probe(t) ==
  /\ pc[t] = "probe"
  /\ index < Len(proxies)
  /\ slot' = [slot EXCEPT ![t] = index]
  /\ attempts' = [attempts EXCEPT ![t] = @ + 1]
  /\ index' = NextIndex(index, Len(proxies))
  /\ pc' = [pc EXCEPT ![t] =
              IF leases[proxies[index + 1]] = NoTask THEN "take" ELSE "skip"]
  /\ UNCHANGED <<proxies, leases, leasesByTaskId, mu, ret, panicked>>

\* proxies[i] of a slot that does not exist.
LeasePanics(t) ==
  /\ pc[t] = "probe"
  /\ index >= Len(proxies)
  /\ index' = NextIndex(index, Len(proxies))
  /\ panicked' = TRUE
  /\ UNCHANGED <<proxies, leases, leasesByTaskId, mu, local>>

FaultyReturn(t, r) ==  \* without the deferred Unlock
  /\ ret' = [ret EXCEPT ![t] = r]
  /\ pc' = [pc EXCEPT ![t] = "idle"]
  /\ attempts' = [attempts EXCEPT ![t] = 0]
  /\ slot' = [slot EXCEPT ![t] = 0]
  /\ UNCHANGED mu

\* The call returns r and its deferred Unlock runs; its locals are gone.
Return(t, r) ==
  /\ ret' = [ret EXCEPT ![t] = r]
  /\ pc' = [pc EXCEPT ![t] = "idle"]
  /\ attempts' = [attempts EXCEPT ![t] = 0]
  /\ slot' = [slot EXCEPT ![t] = 0]
  /\ mu' = NoTask

FaultyExhaustedEarly(t) == attempts[t] >= MaxAttempts - 1

FaultyExhaustedLate(t) == attempts[t] > MaxAttempts

Exhausted(t) == attempts[t] = MaxAttempts

\* The proxy is free: lease it.  The attempts are counted after that, so a
\* lease taken on the last attempt is returned together with the error, and
\* the caller looks at the error first.
Take(t) ==
  /\ pc[t] = "take"
  /\ LET h == proxies[slot[t] + 1]
     IN  /\ leasesByTaskId' = [leasesByTaskId EXCEPT ![t] = h]
         /\ leases' = [leases EXCEPT ![h] = t]
         /\ Return(t, IF Exhausted(t) THEN LeaseError ELSE h)
  /\ UNCHANGED <<proxies, index, panicked>>

\* The proxy is leased: try the next one unless this was the last attempt.
Skip(t) ==
  /\ pc[t] = "skip"
  /\ ~Exhausted(t)
  /\ pc' = [pc EXCEPT ![t] = "probe"]
  /\ UNCHANGED <<shared, attempts, slot, ret, panicked>>

GiveUp(t) ==
  /\ pc[t] = "skip"
  /\ Exhausted(t)
  /\ Return(t, LeaseError)
  /\ UNCHANGED <<proxies, index, leases, leasesByTaskId, panicked>>

\* The steps of a call that has started.
InCall(t) ==
  \/ Probe(t)
  \/ LeasePanics(t)
  \/ Take(t)
  \/ Skip(t)
  \/ GiveUp(t)

Alive ==
  \/ \E line \in Lines : AddProxy(line) \/ AddProxyPanics(line)
  \/ \E t \in Tasks : Lease(t) \/ Enter(t) \/ InCall(t)

\* The process is gone: nothing happens any more.
Dead == panicked /\ UNCHANGED vars

Next == (~panicked /\ Alive) \/ Dead

\* A goroutine that can run is eventually run.  A goroutine that waits for a
\* sync.Mutex gets it although others keep taking it: after one millisecond of
\* waiting the mutex hands itself over in FIFO order (starvation mode), hence
\* strong fairness of Enter.  Nobody is obliged to call Lease or AddProxy.
Fairness ==
  \A t \in Tasks : /\ SF_vars(~panicked /\ Enter(t))
                   /\ WF_vars(~panicked /\ InCall(t))

Spec == Init /\ [][Next]_vars /\ Fairness

----------------------------------------------------------------------------
(* Properties.                                                              *)

\* A task is outside Lease with a proxy that it was given: it sends its
\* requests through it.
Uses(t, h) == pc[t] = "idle" /\ ret[t] = h

\* The two maps of the manager are inverse to each other whenever they are
\* not between the two writes: unlease finds through leasesByTaskId every
\* entry of leases it has to delete.
LeasesMirror ==
  \A t \in Tasks, h \in Hashes : leases[h] = t <=> leasesByTaskId[t] = h

\* A task that uses a proxy is the one the manager has on record for it: no
\* other task's call has taken the lease away or reused it.
UseIsOnRecord ==
  \A t \in Tasks, h \in Hashes :
    Uses(t, h) => leases[h] = t /\ leasesByTaskId[t] = h

\* No two tasks send requests through the same proxy at the same time, even
\* when the list has the same line twice.
ExclusiveUse ==
  \A t, u \in Tasks : \A h \in Hashes : Uses(t, h) /\ Uses(u, h) => t = u

\* The shared cursor points into the list whenever the list has a slot,
\* although the wrap test is an equality and AddProxy grows the list between
\* calls.
CursorInRange == Len(proxies) > 0 => index < Len(proxies)

\* The error is truthful when the list is no longer than the attempts a call
\* makes: at the moment a call ends with the error every proxy of the list is
\* leased, although the walk began at a cursor that other tasks moved.  If the
\* list is shorter than that, they are all leased by other tasks.
ErrorOnlyWhenFull ==
  [][\A t \in Tasks :
       /\ pc[t] # "idle"
       /\ ret'[t] = LeaseError
       /\ Len(proxies) <= MaxAttempts
       => \A i \in 1 .. Len(proxies) :
            /\ leases'[proxies[i]] # NoTask
            /\ Len(proxies) < MaxAttempts => leases'[proxies[i]] # t]_vars

\* Every call of Lease returns, unless the process dies: the loop ends, and
\* the mutex goes round.
LeaseReturns == \A t \in Tasks : pc[t] # "idle" ~> (pc[t] = "idle" \/ panicked)

\* The manager is a pool that gives an item to one task at a time.
Pool == INSTANCE LeasePool
          WITH holder <- leases, answer <- ret,
               asking <- {t \in Tasks : pc[t] # "idle"}

ImplementsPool == Pool!PoolSpec

\* What the text of the error (proxymanager.go:129) tells the caller: the call
\* did not find an unleased proxy, so the caller holds none.
ErrorMeansNoLease ==
  \A t \in Tasks : ret[t] = LeaseError => leasesByTaskId[t] = NoHash
==============================================================================
