-------------------------- MODULE TaskHandlerProofs --------------------------
(****************************************************************************)
(* Safety of the running program, for every set of tasks and proxies and    *)
(* every size of the buffers: requests go through a proxy that is leased to *)
(* the task, entries are made with the captcha of their own iteration, and  *)
(* main outlives the handlers it started.                                   *)
(****************************************************************************)
EXTENDS TaskHandler, FiniteSetTheorems, SequenceTheorems, TLAPS

\* The places of a handler between the answer of Lease and the end of the
\* iteration: InFlight(t) says that t is at one of them.
Flight == {"attempt", "page", "script", "sensor", "await", "submit", "result",
           "lost", "won", "winner", "notify"}

\* A task is inside Lease only where the handler calls it, and has no answer
\* then; it has one when it is back.  A proxy that was the answer is on record
\* for the task, whatever the others lease and give up meanwhile.
PoolAgrees ==
  \A t \in Tasks :
    /\ t \in asking => pc[t] = "leasing" /\ answer[t] = NoHash
    /\ pc[t] = "leasing" /\ t \notin asking => answer[t] # NoHash
    /\ answer[t] \in Hashes => holder[answer[t]] = t

\* The handlers that have started and not ended.
Live == {t \in Tasks : pc[t] \notin {"off", "exited"}}

HandlersCounted == wg = Cardinality(Live)

\* No handler runs before main starts it; when main waits, none is left to start.
MainInOrder ==
  /\ \A t \in Tasks : pc[t] # "off" => t \in added /\ main # "adding"
  /\ main \in {"waiting", "flushing", "done"} => \A t \in added : pc[t] # "off"

\* A handler inside an iteration has counted it.
InRound ==
  \A t \in Tasks : pc[t] \notin {"off", "top", "exited"} => iterations[t] \in Rounds

\* The channel of an iteration holds nothing but what its own goroutine sends.
ChannelsSeparate ==
  \A t \in Tasks, k \in Rounds :
    \A i \in 1 .. Len(captchas[t][k]) : captchas[t][k][i] \in {Token(t, k), Empty}

\* What the steps of main, of the pool and of a handler's life rely on.
Control ==
  /\ PoolAgrees
  /\ OwnsProxyInFlight
  /\ HandlersCounted
  /\ MainInOrder
  /\ WaitCoversHandlers
  /\ InRound

\* What the way of a token relies on.
Data ==
  /\ ChannelsSeparate
  /\ SubmitsFreshCaptcha

IInv == TypeOK /\ Control /\ Data

----------------------------------------------------------------------------
(* Lemmas about the operators and the counter.                              *)

\* The contents of a buffered channel: the sequences no longer than the buffer.
LEMMA BoundedSeqMeaning ==
  ASSUME NEW S, NEW n \in Nat
  PROVE  BoundedSeq(S, n) = {s \in Seq(S) : Len(s) <= n}
<1>1. ASSUME NEW s \in BoundedSeq(S, n) PROVE s \in Seq(S) /\ Len(s) <= n
  <2>1. PICK m \in 0 .. n : s \in [1 .. m -> S]
    BY <1>1 DEF BoundedSeq, SeqOf
  <2> QED
    BY <2>1, SeqDef
<1>2. ASSUME NEW s \in Seq(S), Len(s) <= n PROVE s \in BoundedSeq(S, n)
  <2>1. Len(s) \in 0 .. n /\ s \in [1 .. Len(s) -> S]
    BY <1>2, LenProperties
  <2> QED
    BY <2>1 DEF BoundedSeq, SeqOf
<1> QED
  BY <1>1, <1>2

\* A send into a channel with room keeps it within its buffer.
LEMMA AppendBounded ==
  ASSUME NEW S, NEW n \in Nat, NEW s \in BoundedSeq(S, n), Len(s) < n, NEW e \in S
  PROVE  /\ Append(s, e) \in BoundedSeq(S, n)
         /\ Len(s) \in Nat /\ Len(Append(s, e)) = Len(s) + 1
         /\ \A i \in 1 .. Len(s) : Append(s, e)[i] = s[i]
         /\ Append(s, e)[Len(s) + 1] = e
<1>1. s \in Seq(S)
  BY BoundedSeqMeaning
<1>2. /\ Append(s, e) \in Seq(S) /\ Len(Append(s, e)) = Len(s) + 1 /\ Len(s) \in Nat
      /\ \A i \in 1 .. Len(s) : Append(s, e)[i] = s[i]
      /\ Append(s, e)[Len(s) + 1] = e
  BY <1>1, AppendProperties, LenProperties
<1>3. Append(s, e) \in {q \in Seq(S) : Len(q) <= n}
  BY <1>2
<1>4. BoundedSeq(S, n) = {q \in Seq(S) : Len(q) <= n}
  BY BoundedSeqMeaning, Zenon
<1> QED
  BY <1>2, <1>3, <1>4

\* A receive takes the first element of the channel.
LEMMA TailBounded ==
  ASSUME NEW S, NEW n \in Nat, NEW s \in BoundedSeq(S, n), s # <<>>
  PROVE  /\ Head(s) \in S /\ Head(s) = s[1] /\ Len(s) \in Nat \ {0}
         /\ Tail(s) \in BoundedSeq(S, n)
         /\ Len(Tail(s)) = Len(s) - 1
         /\ \A i \in 1 .. Len(Tail(s)) : Tail(s)[i] = s[i + 1]
<1>1. s \in Seq(S) /\ Len(s) <= n
  BY BoundedSeqMeaning
<1>2. Len(s) \in Nat \ {0}
  BY <1>1, EmptySeq
<1>3. /\ Head(s) \in S /\ Tail(s) \in Seq(S) /\ Len(Tail(s)) = Len(s) - 1
      /\ \A i \in 1 .. Len(Tail(s)) : Tail(s)[i] = s[i + 1]
  BY <1>1, HeadTailProperties
<1>4. Tail(s) \in BoundedSeq(S, n)
  <2>1. Tail(s) \in {q \in Seq(S) : Len(q) <= n}
    BY <1>1, <1>2, <1>3
  <2>2. BoundedSeq(S, n) = {q \in Seq(S) : Len(q) <= n}
    BY BoundedSeqMeaning, Zenon
  <2> QED
    BY <2>1, <2>2
<1>5. Head(s) = s[1]
  BY <1>1, <1>2, SMT
<1> QED
  BY <1>1, <1>2, <1>3, <1>4, <1>5

\* There are no more live handlers than tasks.
LEMMA LiveFinite ==
  /\ IsFiniteSet(Live) /\ Cardinality(Live) \in Nat
  /\ Cardinality(Live) <= Cardinality(Tasks) /\ Cardinality(Tasks) \in Nat
<1>1. Live \subseteq Tasks
  BY DEF Live
<1> QED
  BY <1>1, TasksAssumption, FS_Subset, FS_CardinalityType

\* A handler that starts is counted, ...
LEMMA LiveGrows ==
  ASSUME NEW t \in Tasks, t \notin Live, Live' = Live \cup {t}
  PROVE  Cardinality(Live)' = Cardinality(Live) + 1 /\ Cardinality(Live)' <= Cardinality(Tasks)
<1>1. Live \subseteq Tasks /\ Live \cup {t} \subseteq Tasks
  BY DEF Live
<1>2. IsFiniteSet(Live)
  BY <1>1, TasksAssumption, FS_Subset
<1>3. Cardinality(Live \cup {t}) = Cardinality(Live) + 1
  BY <1>2, FS_AddElement
<1>4. Cardinality(Live \cup {t}) <= Cardinality(Tasks)
  BY <1>1, TasksAssumption, FS_Subset
<1> QED
  BY <1>3, <1>4

\* ... one that ends is not.
LEMMA LiveShrinks ==
  ASSUME NEW t \in Live, Live' = Live \ {t}
  PROVE  Cardinality(Live)' = Cardinality(Live) - 1 /\ Cardinality(Live) > 0
<1>1. IsFiniteSet(Live) /\ Cardinality(Live) \in Nat
  BY LiveFinite
<1>2. Cardinality(Live \ {t}) = Cardinality(Live) - 1
  BY <1>1, FS_RemoveElement
<1>3. Cardinality(Live) # 0
  BY <1>1, FS_EmptySet
<1> QED
  BY <1>1, <1>2, <1>3

----------------------------------------------------------------------------
(* Init, and the steps of main and the task manager.                        *)

\* At the start nothing is added, leased or sent.
LEMMA InitInv == Init => IInv
<1> SUFFICES ASSUME Init PROVE IInv
  OBVIOUS
<1>1. <<>> \in BoundedSeq(Captchas, CaptchaBuffer) /\ <<>> \in BoundedSeq(StatKinds, StatsBuffer)
  <2>1. ASSUME NEW S, NEW n \in Nat PROVE <<>> \in BoundedSeq(S, n)
    <3>1. BoundedSeq(S, n) = {q \in Seq(S) : Len(q) <= n}
      BY BoundedSeqMeaning, Zenon
    <3>2. <<>> \in Seq(S) /\ Len(<<>>) = 0
      OBVIOUS
    <3> QED
      BY <3>1, <3>2
  <2> QED
    BY <2>1, BufferAssumption
<1>2. TypeOK
  <2>1. Cardinality(Tasks) \in Nat
    BY LiveFinite
  <2>2. captchas \in [Tasks -> [Rounds -> BoundedSeq(Captchas, CaptchaBuffer)]]
    BY <1>1 DEF Init
  <2>3. stats \in BoundedSeq(StatKinds, StatsBuffer)
    BY <1>1 DEF Init
  <2>4. solver \in [Tasks -> [Rounds -> {"off", "solving", "solved", "failed", "sent", "late"}]]
    BY DEF Init
  <2>5. Pool!TypeOK
    BY DEF Init, Pool!Init, Pool!TypeOK
  <2>6. sensors \in [Tasks -> 0 .. MaxSensor] /\ iterations \in [Tasks -> 0 .. MaxIterations]
    BY SensorAssumption, IterationsAssumption DEF Init
  <2>7. wg \in 0 .. Cardinality(Tasks)
    BY <2>1 DEF Init
  <2> QED
    BY <2>2, <2>3, <2>4, <2>5, <2>6, <2>7 DEF Init, TypeOK
<1>3. Live = {} /\ Cardinality({}) = 0
  BY FS_EmptySet DEF Init, Live
<1>4. Control
  BY <1>3, SentinelAssumption
  DEF Init, Control, PoolAgrees, OwnsProxyInFlight, InFlight, HandlersCounted, MainInOrder,
      WaitCoversHandlers, InRound, Pool!Init
<1>5. Data
  BY DEF Init, Data, ChannelsSeparate, SubmitsFreshCaptcha
<1> QED
  BY <1>2, <1>4, <1>5 DEF IInv

\* A step that moves no handler and no lease disturbs nothing they rely on.
LEMMA StandsStill ==
  ASSUME Control, UNCHANGED <<managerVars, pc, iterations, poolVars>>
  PROVE  Control'
BY DEF Control, PoolAgrees, OwnsProxyInFlight, InFlight, HandlersCounted, Live, MainInOrder,
       WaitCoversHandlers, InRound, managerVars, poolVars

\* The map of tasks grows only while no handler exists.
LEMMA AddTaskInv == ASSUME IInv, NEW t \in Tasks, AddTask(t) PROVE IInv'
<1>1. TypeOK'
  BY DEF IInv, TypeOK, AddTask, Pool!TypeOK, iterationVars, captchaVars, statsVars, poolVars
<1>2. Control'
  BY DEF IInv, Control, PoolAgrees, OwnsProxyInFlight, InFlight, HandlersCounted, Live,
         MainInOrder, WaitCoversHandlers, InRound, AddTask, iterationVars, poolVars
<1>3. Data'
  BY DEF IInv, Data, ChannelsSeparate, SubmitsFreshCaptcha, AddTask, iterationVars, captchaVars
<1> QED
  BY <1>1, <1>2, <1>3 DEF IInv

\* main goes on to Wait when every task it added has its handler.
LEMMA MainInv == ASSUME IInv, AllAdded \/ AllStarted \/ OutputFlushed PROVE IInv'
<1> USE DEF AllAdded, AllStarted, OutputFlushed
<1>1. TypeOK'
  BY DEF IInv, TypeOK, Pool!TypeOK, iterationVars, captchaVars, statsVars, poolVars
<1>2. Control'
  BY DEF IInv, Control, PoolAgrees, OwnsProxyInFlight, InFlight, HandlersCounted, Live,
         MainInOrder, WaitCoversHandlers, InRound, iterationVars, poolVars
<1>3. Data'
  BY DEF IInv, Data, ChannelsSeparate, SubmitsFreshCaptcha, iterationVars, captchaVars
<1> QED
  BY <1>1, <1>2, <1>3 DEF IInv

\* A handler is counted before it runs.
LEMMA StartTaskInv == ASSUME IInv, NEW t \in Tasks, StartTask(t) PROVE IInv'
<1>1. t \notin Live /\ Live' = Live \cup {t}
  BY DEF IInv, TypeOK, StartTask, Live
<1>2. wg' = Cardinality(Live)' /\ wg' \in 0 .. Cardinality(Tasks)
  BY <1>1, LiveGrows, LiveFinite DEF IInv, Control, HandlersCounted, StartTask
<1>3. TypeOK'
  BY <1>2 DEF IInv, TypeOK, StartTask, Pool!TypeOK, captchaVars, statsVars, poolVars
<1>4. Control'
  BY <1>2 DEF IInv, TypeOK, Control, PoolAgrees, OwnsProxyInFlight, InFlight, HandlersCounted,
              MainInOrder, WaitCoversHandlers, InRound, StartTask, poolVars
<1>5. Data'
  BY DEF IInv, TypeOK, Data, ChannelsSeparate, SubmitsFreshCaptcha, StartTask, captchaVars
<1> QED
  BY <1>3, <1>4, <1>5 DEF IInv

\* Cancelling a context changes nothing a handler has.
LEMMA StopTaskInv == ASSUME IInv, NEW t \in Tasks, StopTask(t) PROVE IInv'
<1>1. TypeOK'
  BY DEF IInv, TypeOK, StopTask, Pool!TypeOK, iterationVars, captchaVars, statsVars, poolVars
<1>2. Control'
  BY DEF IInv, Control, PoolAgrees, OwnsProxyInFlight, InFlight, HandlersCounted, Live,
         MainInOrder, WaitCoversHandlers, InRound, StopTask, iterationVars, poolVars
<1>3. Data'
  BY DEF IInv, Data, ChannelsSeparate, SubmitsFreshCaptcha, StopTask, iterationVars, captchaVars
<1> QED
  BY <1>1, <1>2, <1>3 DEF IInv

\* When the counter is zero no handler is left, and none is still to come.
LEMMA WaitReturnsInv == ASSUME IInv, WaitReturns PROVE IInv'
<1>1. Live = {}
  <2>1. Cardinality(Live) = 0
    BY DEF IInv, Control, HandlersCounted, WaitReturns
  <2> QED
    BY <2>1, LiveFinite, FS_EmptySet
<1>2. \A t \in added : pc[t] = "exited"
  BY <1>1 DEF IInv, TypeOK, Control, MainInOrder, Live, WaitReturns
<1>3. TypeOK'
  BY DEF IInv, TypeOK, WaitReturns, Pool!TypeOK, iterationVars, captchaVars, statsVars, poolVars
<1>4. Control'
  BY <1>2
  DEF IInv, Control, PoolAgrees, OwnsProxyInFlight, InFlight, HandlersCounted, Live,
      MainInOrder, WaitCoversHandlers, InRound, WaitReturns, iterationVars, poolVars
<1>5. Data'
  BY DEF IInv, Data, ChannelsSeparate, SubmitsFreshCaptcha, WaitReturns, iterationVars, captchaVars
<1> QED
  BY <1>3, <1>4, <1>5 DEF IInv

----------------------------------------------------------------------------
(* The life of a handler, and the pool.                                     *)

\* What TypeOK says of the variables of a handler.
HandlerTyped ==
  /\ pc \in [Tasks -> {"off", "top", "leasing", "attempt", "page", "script",
                       "sensor", "await", "submit", "result", "lost", "won",
                       "winner", "notify", "exited"}]
  /\ iterations \in [Tasks -> 0 .. MaxIterations]
  /\ sensors \in [Tasks -> 0 .. MaxSensor]
  /\ timer \in [Tasks -> {"off", "armed", "fired"}]
  /\ captcha1 \in [Tasks -> Captchas \cup {NoCaptcha}]

\* A handler that leaves its loop gives its count back.
LEMMA ExitInv == ASSUME IInv, NEW t \in Tasks, Exit(t) PROVE IInv'
<1>1. t \in Live /\ Live' = Live \ {t}
  BY DEF IInv, TypeOK, Exit, Goto, Live
<1>2. wg' = Cardinality(Live)' /\ wg' \in 0 .. Cardinality(Tasks)
  BY <1>1, LiveShrinks, LiveFinite DEF IInv, Control, HandlersCounted, Exit
<1>3. TypeOK'
  BY <1>2 DEF IInv, TypeOK, Exit, Goto, Pool!TypeOK, captchaVars, statsVars, poolVars
<1>4. Control'
  BY <1>2 DEF IInv, TypeOK, Control, PoolAgrees, OwnsProxyInFlight, InFlight, HandlersCounted,
              MainInOrder, WaitCoversHandlers, InRound, Exit, Goto, poolVars
<1>5. Data'
  BY DEF IInv, TypeOK, Data, ChannelsSeparate, SubmitsFreshCaptcha, Exit, Goto, captchaVars
<1> QED
  BY <1>3, <1>4, <1>5 DEF IInv

\* A call of Lease voids the task's answer; the lease itself stays on record.
LEMMA CallLeaseInv == ASSUME IInv, NEW t \in Tasks, CallLease(t) PROVE IInv'
<1>1. Live' = Live
  BY DEF IInv, TypeOK, CallLease, Live
<1>2. iterations'[t] \in Rounds
  BY IterationsAssumption DEF IInv, TypeOK, CallLease, Rounds
<1>3. TypeOK'
  BY <1>2 DEF IInv, TypeOK, CallLease, Pool!Ask, Pool!TypeOK, managerVars, captchaVars,
              statsVars, Rounds
<1>4. PoolAgrees'
  BY SentinelAssumption DEF IInv, TypeOK, Control, PoolAgrees, CallLease, Pool!Ask, Pool!TypeOK
<1>5. OwnsProxyInFlight'
  BY DEF IInv, TypeOK, Control, OwnsProxyInFlight, InFlight, CallLease, Pool!Ask, Pool!TypeOK
<1>6. HandlersCounted' /\ MainInOrder' /\ WaitCoversHandlers'
  BY <1>1 DEF IInv, TypeOK, Control, HandlersCounted, MainInOrder, WaitCoversHandlers,
              CallLease, managerVars
<1>7. InRound'
  BY <1>2 DEF IInv, TypeOK, Control, InRound, CallLease
<1>8. Data'
  BY DEF IInv, TypeOK, Data, ChannelsSeparate, SubmitsFreshCaptcha, CallLease, captchaVars
<1> QED
  BY <1>3, <1>4, <1>5, <1>6, <1>7, <1>8 DEF IInv, Control

\* What the pool does for one task takes no proxy from another: it takes back
\* what the caller held and gives out what nobody holds.
LEMMA PoolKeepsLeases ==
  ASSUME IInv, NEW t \in Tasks, Pool!Release(t) \/ Pool!Grant(t) \/ Pool!Refuse(t), UNCHANGED pc
  PROVE  Pool!TypeOK' /\ PoolAgrees' /\ \A u \in Tasks \ {t} : answer'[u] = answer[u]
<1>1. CASE Pool!Release(t)
  BY <1>1, SentinelAssumption DEF IInv, TypeOK, Control, PoolAgrees, Pool!Release, Pool!TypeOK
<1>2. CASE Pool!Refuse(t)
  BY <1>2, SentinelAssumption DEF IInv, TypeOK, Control, PoolAgrees, Pool!Refuse, Pool!TypeOK
<1>3. CASE Pool!Grant(t)
  <2> PICK h \in Hashes :
        /\ holder[h] = NoTask
        /\ holder' = [holder EXCEPT ![h] = t]
        /\ answer' \in {[answer EXCEPT ![t] = a] : a \in {h, LeaseError}}
    BY <1>3 DEF Pool!Grant
  <2> PICK a \in {h, LeaseError} : answer' = [answer EXCEPT ![t] = a]
    OBVIOUS
  <2>1. asking' = asking \ {t} /\ t \in asking
    BY <1>3 DEF Pool!Grant
  <2>2. Pool!TypeOK'
    BY <2>1 DEF IInv, TypeOK, Pool!TypeOK
  <2>3. \A u \in Tasks \ {t} : answer'[u] = answer[u]
    BY DEF IInv, TypeOK, Pool!TypeOK
  <2>4. answer'[t] = a
    BY DEF IInv, TypeOK, Pool!TypeOK
  <2>5. \A u \in Tasks \ {t} : answer[u] \in Hashes => answer[u] # h
    BY SentinelAssumption DEF IInv, Control, PoolAgrees
  <2>6. PoolAgrees'
    BY <2>1, <2>3, <2>4, <2>5, SentinelAssumption
    DEF IInv, TypeOK, Control, PoolAgrees, Pool!TypeOK
  <2> QED
    BY <2>2, <2>3, <2>6
<1> QED
  BY <1>1, <1>2, <1>3

\* Nor from a handler that sends requests: it is not the caller.
LEMMA LeaseRunsInv == ASSUME IInv, NEW t \in Tasks, LeaseRuns(t) PROVE IInv'
<1>1. Pool!TypeOK' /\ PoolAgrees' /\ \A u \in Tasks \ {t} : answer'[u] = answer[u]
  BY PoolKeepsLeases DEF LeaseRuns, iterationVars
<1>2. t \in asking
  BY DEF LeaseRuns, Pool!Release, Pool!Grant, Pool!Refuse
<1>3. TypeOK'
  BY <1>1 DEF IInv, TypeOK, LeaseRuns, managerVars, iterationVars, captchaVars, statsVars
<1>4. OwnsProxyInFlight'
  BY <1>1, <1>2 DEF IInv, TypeOK, Control, PoolAgrees, OwnsProxyInFlight, InFlight, LeaseRuns,
                    iterationVars
<1>5. HandlersCounted' /\ MainInOrder' /\ WaitCoversHandlers' /\ InRound'
  BY DEF IInv, Control, HandlersCounted, Live, MainInOrder, WaitCoversHandlers, InRound,
         LeaseRuns, managerVars, iterationVars
<1>6. Data'
  BY DEF IInv, Data, ChannelsSeparate, SubmitsFreshCaptcha, LeaseRuns, iterationVars, captchaVars
<1> QED
  BY <1>1, <1>3, <1>4, <1>5, <1>6 DEF IInv, Control

\* A handler that is inside an iteration and not inside Lease may go on to any
\* other place of the iteration if Lease gave it a proxy, and to the next.
LEMMA HandlerMoves ==
  ASSUME IInv, NEW t \in Tasks, NEW label \in Flight \cup {"top"},
         pc[t] \in Flight \cup {"leasing"}, t \notin asking,
         label # "top" => answer[t] \in Hashes,
         pc' = [pc EXCEPT ![t] = label],
         UNCHANGED <<managerVars, poolVars, iterations>>
  PROVE  Control'
<1> USE DEF Flight
<1>1. pc'[t] = label /\ \A u \in Tasks \ {t} : pc'[u] = pc[u]
  BY DEF IInv, TypeOK
<1>2. Live' = Live
  BY <1>1 DEF Live
<1>3. PoolAgrees'
  BY <1>1 DEF IInv, Control, PoolAgrees, poolVars
<1>4. OwnsProxyInFlight'
  BY <1>1 DEF IInv, Control, PoolAgrees, OwnsProxyInFlight, InFlight, poolVars
<1>5. HandlersCounted'
  BY <1>2 DEF IInv, Control, HandlersCounted, managerVars
<1>6. MainInOrder' /\ WaitCoversHandlers'
  BY <1>1 DEF IInv, TypeOK, Control, MainInOrder, WaitCoversHandlers, managerVars
<1>7. InRound'
  BY <1>1 DEF IInv, Control, InRound
<1> QED
  BY <1>3, <1>4, <1>5, <1>6, <1>7 DEF Control

\* An iteration that ends leaves nothing to the next but the lease.
LEMMA ContinueInv ==
  ASSUME IInv, NEW t \in Tasks, Continue(t), UNCHANGED <<managerVars, poolVars>>,
         pc[t] \in Flight \cup {"leasing"}, t \notin asking
  PROVE  HandlerTyped' /\ Control' /\ SubmitsFreshCaptcha'
<1>1. Control'
  BY HandlerMoves DEF Continue
<1>2. HandlerTyped'
  BY SensorAssumption DEF IInv, TypeOK, HandlerTyped, Continue
<1>3. SubmitsFreshCaptcha'
  BY DEF IInv, TypeOK, Data, SubmitsFreshCaptcha, Continue
<1> QED
  BY <1>1, <1>2, <1>3

\* A step to any other place keeps the captcha; only the wait for it leads to
\* the submission.
LEMMA GotoInv ==
  ASSUME IInv, NEW t \in Tasks, NEW label \in Flight \ {"submit"}, Goto(t, label),
         UNCHANGED <<managerVars, poolVars>>,
         pc[t] \in Flight \cup {"leasing"}, t \notin asking, answer[t] \in Hashes,
         label = "result" => pc[t] = "submit"
  PROVE  HandlerTyped' /\ Control' /\ SubmitsFreshCaptcha'
<1>1. Control'
  BY HandlerMoves DEF Goto
<1>2. HandlerTyped'
  BY DEF IInv, TypeOK, HandlerTyped, Goto, Flight
<1>3. SubmitsFreshCaptcha'
  BY DEF IInv, TypeOK, Data, SubmitsFreshCaptcha, Goto, Flight
<1> QED
  BY <1>1, <1>2, <1>3

----------------------------------------------------------------------------
(* The steps of an iteration.                                               *)

\* Inside an iteration a handler is outside Lease, and has a proxy.
LEMMA InsideIteration ==
  ASSUME IInv, NEW t \in Tasks, pc[t] \in Flight
  PROVE  t \notin asking /\ answer[t] \in Hashes /\ iterations[t] \in Rounds
BY DEF IInv, Control, PoolAgrees, OwnsProxyInFlight, InFlight, InRound, Flight

\* What a handler does without a channel keeps the channels as they are.
LEMMA QuietStep ==
  ASSUME IInv, HandlerTyped', Control', SubmitsFreshCaptcha',
         UNCHANGED <<managerVars, captchaVars, statsVars, poolVars, panicked>>
  PROVE  IInv'
<1>1. TypeOK'
  BY DEF IInv, TypeOK, HandlerTyped, Pool!TypeOK, managerVars, captchaVars, statsVars, poolVars
<1>2. ChannelsSeparate'
  BY DEF IInv, Data, ChannelsSeparate, captchaVars
<1> QED
  BY <1>1, <1>2 DEF IInv, Data

\* After an error of Lease the iteration is over; without one the handler has
\* the proxy.
LEMMA LeaseReturnedInv == ASSUME IInv, NEW t \in Tasks, LeaseReturned(t) PROVE IInv'
<1> USE DEF LeaseReturned
<1>1. CASE Continue(t)
  BY <1>1, ContinueInv, QuietStep
<1>2. CASE answer[t] # LeaseError /\ Goto(t, "attempt")
  <2>1. answer[t] \in Hashes
    BY <1>2 DEF IInv, TypeOK, Pool!TypeOK, Control, PoolAgrees
  <2>2. HandlerTyped' /\ Control' /\ SubmitsFreshCaptcha'
    BY <1>2, <2>1, GotoInv DEF Flight
  <2> QED
    BY <2>2, QuietStep
<1> QED
  BY <1>1, <1>2

\* A request ends the iteration or leads on.
LEMMA RequestInv ==
  ASSUME IInv, NEW t \in Tasks, NEW from \in Flight, NEW labels \in SUBSET (Flight \ {"submit"}),
         "result" \in labels => from = "submit", Request(t, from, labels)
  PROVE  IInv'
<1>1. t \notin asking /\ answer[t] \in Hashes
  BY InsideIteration DEF Request
<1>2. CASE Continue(t)
  BY <1>1, <1>2, ContinueInv, QuietStep DEF Request
<1>3. ASSUME NEW label \in labels, Goto(t, label) PROVE IInv'
  <2>1. HandlerTyped' /\ Control' /\ SubmitsFreshCaptcha'
    BY <1>1, <1>3, GotoInv DEF Request
  <2> QED
    BY <2>1, QuietStep DEF Request
<1> QED
  BY <1>2, <1>3 DEF Request

\* The requests of an iteration.
LEMMA RequestsInv ==
  ASSUME IInv, NEW t \in Tasks, GetPage(t) \/ GetScript(t) \/ Submit(t) \/ GetResult(t)
  PROVE  IInv'
<1>1. CASE GetPage(t)
  BY <1>1, RequestInv DEF GetPage, Flight
<1>2. CASE GetScript(t)
  BY <1>2, RequestInv DEF GetScript, Flight
<1>3. CASE Submit(t)
  BY <1>3, RequestInv DEF Submit, Flight
<1>4. CASE GetResult(t)
  BY <1>4, RequestInv DEF GetResult, Flight
<1> QED
  BY <1>1, <1>2, <1>3, <1>4

\* A turn of the sensor loop.
LEMMA SensorInv == ASSUME IInv, NEW t \in Tasks, Sensor(t) PROVE IInv'
<1>1. t \notin asking /\ answer[t] \in Hashes
  BY InsideIteration DEF Sensor, Flight
<1>2. UNCHANGED <<managerVars, captchaVars, statsVars, poolVars, panicked>> /\ pc[t] = "sensor"
  BY DEF Sensor
<1>3. CASE Goto(t, "await")
  <2>1. HandlerTyped' /\ Control' /\ SubmitsFreshCaptcha'
    BY <1>1, <1>2, <1>3, GotoInv DEF Flight
  <2> QED
    BY <1>2, <2>1, QuietStep
<1>4. CASE Continue(t)
  BY <1>1, <1>2, <1>4, ContinueInv, QuietStep DEF Flight
<1>5. CASE /\ sensors[t] + 1 < MaxSensor
           /\ sensors' = [sensors EXCEPT ![t] = @ + 1]
           /\ UNCHANGED <<pc, iterations, timer, captcha1>>
  <2>1. HandlerTyped'
    BY <1>5, SensorAssumption DEF IInv, TypeOK, HandlerTyped
  <2>2. Control'
    BY <1>2, <1>5, StandsStill DEF IInv
  <2>3. SubmitsFreshCaptcha'
    BY <1>5 DEF IInv, Data, SubmitsFreshCaptcha
  <2> QED
    BY <1>2, <2>1, <2>2, <2>3, QuietStep
<1> QED
  BY <1>3, <1>4, <1>5 DEF Sensor

\* The timer ends the wait, and the webhook the iteration.
LEMMA TimedOutInv == ASSUME IInv, NEW t \in Tasks, TimedOut(t) \/ Notify(t) PROVE IInv'
<1>1. t \notin asking /\ pc[t] \in Flight
  BY InsideIteration DEF TimedOut, Notify, Flight
<1>2. HandlerTyped' /\ Control' /\ SubmitsFreshCaptcha'
  BY <1>1, ContinueInv DEF TimedOut, Notify
<1> QED
  BY <1>2, QuietStep DEF TimedOut, Notify

\* A report is one of the kinds the title counts.
LEMMA SendTyped ==
  ASSUME IInv, NEW kind \in StatKinds, Send(kind)
  PROVE  stats' \in BoundedSeq(StatKinds, StatsBuffer) /\ title' \in [StatKinds -> Nat]
BY AppendBounded, BufferAssumption DEF IInv, TypeOK, Send

\* What a handler does with the stats channel keeps the captchas as they are.
LEMMA ReportStep ==
  ASSUME IInv, HandlerTyped', Control', SubmitsFreshCaptcha',
         NEW kind \in StatKinds, Send(kind),
         UNCHANGED <<managerVars, captchaVars, poolVars, panicked>>
  PROVE  IInv'
<1>1. TypeOK'
  BY SendTyped DEF IInv, TypeOK, HandlerTyped, Pool!TypeOK, managerVars, captchaVars, poolVars
<1>2. ChannelsSeparate'
  BY DEF IInv, Data, ChannelsSeparate, captchaVars
<1> QED
  BY <1>1, <1>2 DEF IInv, Data

\* The entry and the winner are reported from inside the iteration.
LEMMA ReportInv ==
  ASSUME IInv, NEW t \in Tasks, ReportEntry(t) \/ ReportWinner(t)
  PROVE  IInv'
<1>1. /\ t \notin asking /\ answer[t] \in Hashes /\ pc[t] \in {"lost", "won", "winner"}
      /\ pc[t] \in Flight
  BY InsideIteration DEF ReportEntry, ReportWinner, Flight
<1>2. UNCHANGED <<managerVars, captchaVars, poolVars, panicked>>
  BY DEF ReportEntry, ReportWinner
<1>3. PICK kind \in StatKinds : Send(kind)
  BY DEF ReportEntry, ReportWinner, StatKinds
<1>4. HandlerTyped' /\ Control' /\ SubmitsFreshCaptcha'
  <2>1. CASE Continue(t)
    BY <1>1, <1>2, <2>1, ContinueInv
  <2>2. ASSUME NEW label \in {"winner", "notify"}, Goto(t, label)
        PROVE  HandlerTyped' /\ Control' /\ SubmitsFreshCaptcha'
    BY <1>1, <1>2, <2>2, GotoInv DEF Flight
  <2> QED
    BY <2>1, <2>2 DEF ReportEntry, ReportWinner
<1> QED
  BY <1>2, <1>3, <1>4, ReportStep

\* The attempt is reported, and its captcha goroutine and its timer begin.
LEMMA AttemptInv == ASSUME IInv, NEW t \in Tasks, Attempt(t) PROVE IInv'
<1>1. t \notin asking /\ answer[t] \in Hashes /\ iterations[t] \in Rounds
  BY InsideIteration DEF Attempt, Flight
<1>2. Control'
  BY <1>1, HandlerMoves DEF Attempt, Flight
<1>3. stats' \in BoundedSeq(StatKinds, StatsBuffer) /\ title' \in [StatKinds -> Nat]
  BY SendTyped DEF Attempt, StatKinds
<1>4. TypeOK'
  BY <1>1, <1>3 DEF IInv, TypeOK, Attempt, Pool!TypeOK, managerVars, poolVars
<1>5. Data'
  BY DEF IInv, TypeOK, Data, ChannelsSeparate, SubmitsFreshCaptcha, Attempt
<1> QED
  BY <1>2, <1>4, <1>5 DEF IInv

----------------------------------------------------------------------------
(* The way of a token.                                                      *)

\* What an iteration receives comes from its own channel: its own token.
LEMMA ReceiveInv == ASSUME IInv, NEW t \in Tasks, Receive(t) PROVE IInv'
<1> DEFINE k == iterations[t]
           c == captchas[t][k]
<1>1. t \notin asking /\ answer[t] \in Hashes /\ k \in Rounds /\ pc[t] = "await"
  BY InsideIteration DEF Receive, Flight
<1>2. /\ c \in BoundedSeq(Captchas, CaptchaBuffer) /\ c # <<>>
      /\ captchas' = [captchas EXCEPT ![t][k] = Tail(@)]
  BY <1>1 DEF IInv, TypeOK, Receive, Channel
<1> HIDE DEF c
<1>3. /\ Head(c) \in Captchas /\ Head(c) = c[1] /\ Len(c) \in Nat \ {0}
      /\ Tail(c) \in BoundedSeq(Captchas, CaptchaBuffer)
      /\ Len(Tail(c)) = Len(c) - 1
      /\ \A i \in 1 .. Len(Tail(c)) : Tail(c)[i] = c[i + 1]
  BY <1>2, TailBounded, BufferAssumption
<1>4. \A i \in 1 .. Len(c) : c[i] \in {Token(t, k), Empty}
  BY <1>1 DEF IInv, Data, ChannelsSeparate, c
<1>5. captchas' \in [Tasks -> [Rounds -> BoundedSeq(Captchas, CaptchaBuffer)]]
  BY <1>1, <1>2, <1>3 DEF IInv, TypeOK, c
<1>6. ChannelsSeparate'
  <2>1. \A i \in 1 .. Len(Tail(c)) : Tail(c)[i] \in {Token(t, k), Empty}
    BY <1>3, <1>4
  <2>2. ASSUME NEW u \in Tasks, NEW m \in Rounds
        PROVE  \A i \in 1 .. Len(captchas'[u][m]) : captchas'[u][m][i] \in {Token(u, m), Empty}
    <3>1. CASE u = t /\ m = k
      <4>1. captchas'[u][m] = Tail(c)
        BY <1>1, <1>2, <3>1 DEF IInv, TypeOK, c
      <4> QED
        BY <2>1, <3>1, <4>1
    <3>2. CASE ~(u = t /\ m = k)
      <4>1. captchas'[u][m] = captchas[u][m]
        BY <1>1, <1>2, <3>2 DEF IInv, TypeOK
      <4> QED
        BY <4>1 DEF IInv, Data, ChannelsSeparate
    <3> QED
      BY <3>1, <3>2
  <2> QED
    BY <2>2 DEF ChannelsSeparate, Token
<1>7. HandlerTyped' /\ Control' /\ SubmitsFreshCaptcha'
  <2>1. CASE Continue(t)
    BY <1>1, <2>1, ContinueInv DEF Receive, Flight
  <2>2. CASE /\ Head(c) # Empty
             /\ captcha1' = [captcha1 EXCEPT ![t] = Head(c)]
             /\ pc' = [pc EXCEPT ![t] = "submit"]
             /\ UNCHANGED <<iterations, sensors, timer>>
    <3>1. Control'
      BY <1>1, <2>2, HandlerMoves DEF Receive, Flight
    <3>2. HandlerTyped'
      BY <1>3, <2>2 DEF IInv, TypeOK, HandlerTyped
    <3>3. Head(c) = Token(t, k)
      BY <1>3, <1>4, <2>2
    <3>4. SubmitsFreshCaptcha'
      BY <2>2, <3>3 DEF IInv, TypeOK, Data, SubmitsFreshCaptcha, Token
    <3> QED
      BY <3>1, <3>2, <3>4
  <2> QED
    BY <2>1, <2>2 DEF Receive, Channel, c
<1>8. TypeOK'
  BY <1>5, <1>7 DEF IInv, TypeOK, HandlerTyped, Receive, Pool!TypeOK, managerVars, statsVars,
                    poolVars
<1> QED
  BY <1>6, <1>7, <1>8 DEF IInv, Data

\* The goroutine of an iteration sends over that iteration's channel.
LEMMA DeliverInv ==
  ASSUME IInv, NEW t \in Tasks, NEW k \in Rounds, Deliver(t, k)
  PROVE  IInv'
<1> DEFINE c == captchas[t][k]
           e == IF solver[t][k] = "solved" THEN Token(t, k) ELSE Empty
<1>1. /\ c \in BoundedSeq(Captchas, CaptchaBuffer) /\ Len(c) < CaptchaBuffer
      /\ captchas' = [captchas EXCEPT ![t][k] = Append(@, e)]
  BY DEF IInv, TypeOK, Deliver, Channel
<1>2. e \in Captchas /\ e \in {Token(t, k), Empty}
  BY DEF Captchas, Tokens, Token
<1> HIDE DEF c, e
<1>3. /\ Append(c, e) \in BoundedSeq(Captchas, CaptchaBuffer)
      /\ Len(c) \in Nat /\ Len(Append(c, e)) = Len(c) + 1
      /\ \A i \in 1 .. Len(c) : Append(c, e)[i] = c[i]
      /\ Append(c, e)[Len(c) + 1] = e
  BY <1>1, <1>2, AppendBounded, BufferAssumption
<1>4. captchas'[t][k] = Append(c, e)
  BY <1>1 DEF IInv, TypeOK, c
<1>5. captchas' \in [Tasks -> [Rounds -> BoundedSeq(Captchas, CaptchaBuffer)]]
  BY <1>1, <1>3 DEF IInv, TypeOK, c
<1>6. \A i \in 1 .. Len(captchas'[t][k]) : captchas'[t][k][i] \in {Token(t, k), Empty}
  <2>1. \A i \in 1 .. Len(c) : c[i] \in {Token(t, k), Empty}
    BY DEF IInv, Data, ChannelsSeparate, c
  <2> QED
    BY <1>2, <1>3, <1>4, <2>1
<1>7. ChannelsSeparate'
  <2>1. ASSUME NEW u \in Tasks, NEW m \in Rounds
        PROVE  \A i \in 1 .. Len(captchas'[u][m]) : captchas'[u][m][i] \in {Token(u, m), Empty}
    <3>1. CASE u = t /\ m = k
      BY <1>6, <3>1
    <3>2. CASE ~(u = t /\ m = k)
      <4>1. captchas'[u][m] = captchas[u][m]
        BY <1>1, <3>2 DEF IInv, TypeOK
      <4> QED
        BY <4>1 DEF IInv, Data, ChannelsSeparate
    <3> QED
      BY <3>1, <3>2
  <2> QED
    BY <2>1 DEF ChannelsSeparate, Token
<1>8. TypeOK'
  BY <1>5 DEF IInv, TypeOK, Deliver, Pool!TypeOK, managerVars, iterationVars, statsVars, poolVars
<1>9. Control'
  BY StandsStill DEF IInv, Deliver, iterationVars
<1>10. SubmitsFreshCaptcha'
  BY DEF IInv, Data, SubmitsFreshCaptcha, Deliver, iterationVars
<1> QED
  BY <1>7, <1>8, <1>9, <1>10 DEF IInv, Data

\* The timer, the solver, the stats goroutine and the end of the process touch
\* neither a handler nor a channel of captchas.
LEMMA AroundInv ==
  ASSUME IInv, \/ ShowTitle
               \/ \E t \in Tasks : \/ FireTimer(t) \/ PagePanics(t) \/ NotifyPanics(t)
                                   \/ \E k \in Rounds : Solve(t, k)
  PROVE  IInv'
<1>1. UNCHANGED <<managerVars, pc, iterations, captcha1, captchas, poolVars>>
  BY DEF ShowTitle, FireTimer, PagePanics, NotifyPanics, Solve, iterationVars, captchaVars
<1>2. Control'
  BY <1>1, StandsStill DEF IInv
<1>3. Data'
  BY <1>1 DEF IInv, Data, ChannelsSeparate, SubmitsFreshCaptcha
<1>4. TypeOK'
  <2>1. CASE ShowTitle
    <3>1. Head(stats) \in StatKinds /\ stats' \in BoundedSeq(StatKinds, StatsBuffer)
      BY <2>1, TailBounded, BufferAssumption DEF IInv, TypeOK, ShowTitle
    <3> QED
      BY <2>1, <3>1 DEF IInv, TypeOK, ShowTitle, Pool!TypeOK, managerVars, iterationVars,
                        captchaVars, poolVars
  <2>2. ASSUME NEW t \in Tasks, FireTimer(t) PROVE TypeOK'
    BY <2>2 DEF IInv, TypeOK, FireTimer, Pool!TypeOK, managerVars, captchaVars, statsVars, poolVars
  <2>3. ASSUME NEW t \in Tasks, PagePanics(t) \/ NotifyPanics(t) PROVE TypeOK'
    BY <2>3 DEF IInv, TypeOK, PagePanics, NotifyPanics, Pool!TypeOK, managerVars, iterationVars,
                captchaVars, statsVars, poolVars
  <2>4. ASSUME NEW t \in Tasks, NEW k \in Rounds, Solve(t, k) PROVE TypeOK'
    <3>1. PICK r \in {"solved", "failed"} : solver' = [solver EXCEPT ![t][k] = r]
      BY <2>4 DEF Solve
    <3>2. solver' \in [Tasks -> [Rounds -> {"off", "solving", "solved", "failed", "sent", "late"}]]
      BY <3>1 DEF IInv, TypeOK
    <3> QED
      BY <2>4, <3>2 DEF IInv, TypeOK, Solve, Pool!TypeOK, managerVars, iterationVars, statsVars,
                        poolVars
  <2> QED
    BY <2>1, <2>2, <2>3, <2>4
<1> QED
  BY <1>2, <1>3, <1>4 DEF IInv

----------------------------------------------------------------------------
(* The theorems.                                                            *)

\* Every step keeps the inductive invariant.
LEMMA IInvStep == IInv /\ [Next]_vars => IInv'
<1> SUFFICES ASSUME IInv, [Next]_vars PROVE IInv'
  OBVIOUS
<1>1. CASE UNCHANGED vars
  <2>1. TypeOK'
    BY <1>1 DEF IInv, TypeOK, Pool!TypeOK, vars, managerVars, iterationVars, captchaVars,
                statsVars, poolVars
  <2>2. Control'
    BY <1>1, StandsStill DEF IInv, vars, iterationVars
  <2>3. Data'
    BY <1>1 DEF IInv, Data, ChannelsSeparate, SubmitsFreshCaptcha, vars, iterationVars, captchaVars
  <2> QED
    BY <2>1, <2>2, <2>3 DEF IInv
<1>2. CASE MainSteps
  BY <1>2, MainInv, StartTaskInv, WaitReturnsInv DEF MainSteps
<1>3. CASE ShowTitle
  BY <1>3, AroundInv
<1>4. ASSUME NEW t \in Tasks, AddTask(t) \/ StopTask(t) PROVE IInv'
  BY <1>4, AddTaskInv, StopTaskInv
<1>5. ASSUME NEW t \in Tasks, LocalSteps(t) PROVE IInv'
  BY <1>5, ExitInv, CallLeaseInv, LeaseReturnedInv, AttemptInv, ReceiveInv, TimedOutInv, ReportInv
  DEF LocalSteps
<1>6. ASSUME NEW t \in Tasks, PeerSteps(t) PROVE IInv'
  BY <1>6, RequestsInv, SensorInv, TimedOutInv, AroundInv DEF PeerSteps
<1>7. ASSUME NEW t \in Tasks, LeaseRuns(t) \/ FireTimer(t) PROVE IInv'
  BY <1>7, LeaseRunsInv, AroundInv
<1>8. ASSUME NEW t \in Tasks, NEW k \in Rounds, Solve(t, k) \/ Deliver(t, k) PROVE IInv'
  BY <1>8, AroundInv, DeliverInv
<1> QED
  BY <1>1, <1>2, <1>3, <1>4, <1>5, <1>6, <1>7, <1>8 DEF Next, Running

\* The inductive invariant holds in every reachable state.
THEOREM Invariance == Spec => []IInv
<1> QED
  BY InitInv, IInvStep, PTL DEF Spec

\* Every variable keeps its type; in particular the counter of the WaitGroup is
\* never negative, which Go answers with a panic.
THEOREM TypeCorrect == Spec => []TypeOK
<1>1. IInv => TypeOK
  BY DEF IInv
<1> QED
  BY <1>1, Invariance, PTL

\* A handler that sends requests (taskHandler after Lease) sends them through a
\* proxy the pool has on record for it.
THEOREM OwnsProxy == Spec => []OwnsProxyInFlight
<1>1. IInv => OwnsProxyInFlight
  BY DEF IInv, Control
<1> QED
  BY <1>1, Invariance, PTL

\* An entry is submitted with the captcha that was solved for this very
\* iteration, however late the answers of earlier ones come.
THEOREM FreshCaptcha == Spec => []SubmitsFreshCaptcha
<1>1. IInv => SubmitsFreshCaptcha
  BY DEF IInv, Data
<1> QED
  BY <1>1, Invariance, PTL

\* main gets past Wait only after the handlers of all tasks it added.
THEOREM WaitCovers == Spec => []WaitCoversHandlers
<1>1. IInv => WaitCoversHandlers
  BY DEF IInv, Control
<1> QED
  BY <1>1, Invariance, PTL

\* No two handlers that are inside an iteration have the same proxy: what the
\* pool's record means for the requests.
THEOREM NoSharedProxy ==
  Spec => [](\A t, u \in Tasks : InFlight(t) /\ InFlight(u) /\ answer[t] = answer[u] => t = u)
<1>1. IInv => (\A t, u \in Tasks : InFlight(t) /\ InFlight(u) /\ answer[t] = answer[u] => t = u)
  BY DEF IInv, Control, OwnsProxyInFlight
<1> QED
  BY <1>1, Invariance, PTL
==============================================================================
