----------------------------- MODULE TaskHandler -----------------------------
(****************************************************************************)
(* The running program: main adds tasks to the task manager, starts them    *)
(* and waits for them (taskmanager.go and the end of sinkgo-culvers.go);    *)
(* each task runs taskHandler in a goroutine of its own, one iteration      *)
(* after another; each iteration starts a goroutine that asks the captcha   *)
(* solver for a token and a timer that bounds the wait for it; all          *)
(* iterations report to one goroutine that adds up the console title.       *)
(*                                                                          *)
(* The proxies come from a LeasePool, which ProxyManager is proved to       *)
(* implement.  A request to a peer is one step that succeeds or fails; what *)
(* it sends, and the waits between requests, are left out.  A captcha token *)
(* is the iteration that asked for it.  A panic in any goroutine is the end *)
(* of the process.                                                          *)
(*                                                                          *)
(* A definition whose name starts with Faulty is the definition after it    *)
(* with a plausible mistake: no behaviour uses it, it shows that a property *)
(* notices the mistake.                                                     *)
(****************************************************************************)
EXTENDS Integers, Sequences, FiniteSets, SequencesExt

CONSTANTS Tasks,          \* the tasks the configuration may ask for
          Hashes,         \* the proxies
          NoTask, NoHash, LeaseError,  \* see LeasePool
          Empty,          \* the empty string, sent when the solver fails
          NoCaptcha,      \* captcha1 before anything is received
          MaxSensor,      \* turns of the sensor loop (66 in the code)
          CaptchaBuffer,  \* capacity of an iteration's captchas channel (2)
          StatsBuffer,    \* capacity of the stats channel (10 in the code)
          Webhook,        \* the configured webhook: "none", "valid" or "malformed"
          MaxIterations   \* bound on the iterations of a task (not in the code)

ASSUME TasksAssumption == IsFiniteSet(Tasks)
ASSUME SentinelAssumption ==
  /\ NoTask \notin Tasks
  /\ {NoHash, LeaseError} \cap Hashes = {} /\ NoHash # LeaseError
ASSUME BufferAssumption == CaptchaBuffer \in Nat \ {0} /\ StatsBuffer \in Nat \ {0}
ASSUME SensorAssumption == MaxSensor \in Nat \ {0}
ASSUME IterationsAssumption == MaxIterations \in Nat \ {0}
ASSUME WebhookAssumption == Webhook \in {"none", "valid", "malformed"}

VARIABLES
  main,        \* where main is
  added,       \* tm.tasks
  cancelled,   \* the tasks whose context is cancelled
  wg,          \* the counter of tm.WaitGroup
  pc,          \* where each task's handler is
  iterations,  \* the handler's local variable of that name
  sensors,     \* turns of the sensor loop in this iteration
  timer,       \* timeoutCh of this iteration
  captcha1,    \* what this iteration received from its captchas channel
  solver,      \* where the captcha goroutine of each iteration is
  captchas,    \* the captchas channel of each iteration
  stats,       \* the stats channel
  title,       \* the totals the console title shows
  holder, answer, asking,  \* the proxy pool
  panicked     \* the process has died

Pool == INSTANCE LeasePool

managerVars == <<main, added, cancelled, wg>>
iterationVars == <<pc, iterations, sensors, timer, captcha1>>
captchaVars == <<solver, captchas>>
statsVars == <<stats, title>>
poolVars == <<holder, answer, asking>>
vars == <<managerVars, iterationVars, captchaVars, statsVars, poolVars, panicked>>

Rounds == 1 .. MaxIterations
Token(t, k) == [task |-> t, round |-> k]
Tokens == [task : Tasks, round : Rounds]
Captchas == Tokens \cup {Empty}

StatKinds == {"Attempts", "Entered", "Winner"}

TypeOK ==
  /\ main \in {"adding", "starting", "waiting", "flushing", "done"}
  /\ added \subseteq Tasks
  /\ cancelled \subseteq added
  /\ wg \in 0 .. Cardinality(Tasks)
  /\ pc \in [Tasks -> {"off", "top", "leasing", "attempt", "page", "script",
                       "sensor", "await", "submit", "result", "lost", "won",
                       "winner", "notify", "exited"}]
  /\ iterations \in [Tasks -> 0 .. MaxIterations]
  /\ sensors \in [Tasks -> 0 .. MaxSensor]
  /\ timer \in [Tasks -> {"off", "armed", "fired"}]
  /\ captcha1 \in [Tasks -> Captchas \cup {NoCaptcha}]
  /\ solver \in [Tasks -> [Rounds -> {"off", "solving", "solved", "failed",
                                      "sent", "late"}]]
  /\ captchas \in [Tasks -> [Rounds -> BoundedSeq(Captchas, CaptchaBuffer)]]
  /\ stats \in BoundedSeq(StatKinds, StatsBuffer)
  /\ title \in [StatKinds -> Nat]
  /\ Pool!TypeOK
  /\ panicked \in BOOLEAN

Init ==
  /\ main = "adding"
  /\ added = {}
  /\ cancelled = {}
  /\ wg = 0
  /\ pc = [t \in Tasks |-> "off"]
  /\ iterations = [t \in Tasks |-> 0]
  /\ sensors = [t \in Tasks |-> 0]
  /\ timer = [t \in Tasks |-> "off"]
  /\ captcha1 = [t \in Tasks |-> NoCaptcha]
  /\ solver = [t \in Tasks |-> [k \in Rounds |-> "off"]]
  /\ captchas = [t \in Tasks |-> [k \in Rounds |-> <<>>]]
  /\ stats = <<>>
  /\ title = [s \in StatKinds |-> 0]
  /\ Pool!Init
  /\ panicked = FALSE

----------------------------------------------------------------------------
(* The task manager, and main, which calls it.                              *)

\* main reads the concurrency from the watched configuration before every
\* turn of its loop, so the loop may end after any number of tasks.
AddTask(t) ==
  /\ main = "adding"
  /\ t \notin added
  /\ added' = added \cup {t}
  /\ UNCHANGED <<main, cancelled, wg, iterationVars, captchaVars, statsVars,
                 poolVars, panicked>>

AllAdded ==
  /\ main = "adding"
  /\ main' = "starting"
  /\ UNCHANGED <<added, cancelled, wg, iterationVars, captchaVars, statsVars,
                 poolVars, panicked>>

FaultyStartTask(t) ==  \* the handler is not counted
  /\ main = "starting"
  /\ t \in added
  /\ pc[t] = "off"
  /\ pc' = [pc EXCEPT ![t] = "top"]
  /\ UNCHANGED <<managerVars, iterations, sensors, timer, captcha1,
                 captchaVars, statsVars, poolVars, panicked>>

\* StartTasks visits the map in any order; the counter goes up before the
\* goroutine exists.
StartTask(t) ==
  /\ main = "starting"
  /\ t \in added
  /\ pc[t] = "off"
  /\ wg' = wg + 1
  /\ pc' = [pc EXCEPT ![t] = "top"]
  /\ UNCHANGED <<main, added, cancelled, iterations, sensors, timer, captcha1,
                 captchaVars, statsVars, poolVars, panicked>>

AllStarted ==
  /\ main = "starting"
  /\ \A t \in added : pc[t] # "off"
  /\ main' = "waiting"
  /\ UNCHANGED <<added, cancelled, wg, iterationVars, captchaVars, statsVars,
                 poolVars, panicked>>

\* Offered to whoever uses the manager (main never calls it): any moment, any
\* task the map has.  A second call changes nothing.
StopTask(t) ==
  /\ t \in added \ cancelled
  /\ cancelled' = cancelled \cup {t}
  /\ UNCHANGED <<main, added, wg, iterationVars, captchaVars, statsVars,
                 poolVars, panicked>>

\* WaitGroup.Wait returns and main closes the output channel.
WaitReturns ==
  /\ main = "waiting"
  /\ wg = 0
  /\ main' = "flushing"
  /\ UNCHANGED <<added, cancelled, wg, iterationVars, captchaVars, statsVars,
                 poolVars, panicked>>

\* The output goroutine leaves its range and hands its flag to main, which
\* ends, and with it the process.
OutputFlushed ==
  /\ main = "flushing"
  /\ main' = "done"
  /\ UNCHANGED <<added, cancelled, wg, iterationVars, captchaVars, statsVars,
                 poolVars, panicked>>

----------------------------------------------------------------------------
(* taskHandler: one iteration.                                              *)

\* `continue`, or the end of the loop's body: the variables of the iteration
\* go out of scope, among them its timer and its captchas channel.
Continue(t) ==
  /\ pc' = [pc EXCEPT ![t] = "top"]
  /\ sensors' = [sensors EXCEPT ![t] = 0]
  /\ timer' = [timer EXCEPT ![t] = "off"]
  /\ captcha1' = [captcha1 EXCEPT ![t] = NoCaptcha]
  /\ UNCHANGED iterations

Goto(t, label) ==
  /\ pc' = [pc EXCEPT ![t] = label]
  /\ UNCHANGED <<iterations, sensors, timer, captcha1>>

FaultyExit(t) ==  \* without wg.Done
  /\ pc[t] = "top"
  /\ t \in cancelled
  /\ Goto(t, "exited")
  /\ UNCHANGED <<managerVars, captchaVars, statsVars, poolVars, panicked>>

\* The context is cancelled: the loop ends and the deferred wg.Done runs.  The
\* proxy is not given back.
Exit(t) ==
  /\ pc[t] = "top"
  /\ t \in cancelled
  /\ Goto(t, "exited")
  /\ wg' = wg - 1
  /\ UNCHANGED <<main, added, cancelled, captchaVars, statsVars, poolVars, panicked>>

\* The next iteration begins with a call of Lease.
CallLease(t) ==
  /\ pc[t] = "top"
  /\ t \notin cancelled
  /\ iterations[t] < MaxIterations
  /\ iterations' = [iterations EXCEPT ![t] = @ + 1]
  /\ pc' = [pc EXCEPT ![t] = "leasing"]
  /\ Pool!Ask(t)
  /\ UNCHANGED <<managerVars, sensors, timer, captcha1, captchaVars, statsVars,
                 panicked>>

LeaseRuns(t) ==
  /\ Pool!Release(t) \/ Pool!Grant(t) \/ Pool!Refuse(t)
  /\ UNCHANGED <<managerVars, iterationVars, captchaVars, statsVars, panicked>>

FaultyLeaseReturned(t) ==  \* the error is logged and forgotten
  /\ pc[t] = "leasing"
  /\ t \notin asking
  /\ Goto(t, "attempt")
  /\ UNCHANGED <<managerVars, captchaVars, statsVars, poolVars, panicked>>

LeaseReturned(t) ==
  /\ pc[t] = "leasing"
  /\ t \notin asking
  /\ \/ answer[t] = LeaseError /\ Continue(t)
     \/ answer[t] # LeaseError /\ Goto(t, "attempt")
  /\ UNCHANGED <<managerVars, captchaVars, statsVars, poolVars, panicked>>

FaultySend(kind) ==  \* does not wait for room
  /\ stats' = Append(stats, kind)
  /\ UNCHANGED title

\* A send on the stats channel blocks while its buffer is full.
Send(kind) ==
  /\ Len(stats) < StatsBuffer
  /\ stats' = Append(stats, kind)
  /\ UNCHANGED title

\* The attempt is reported, then the captcha goroutine is started with a
\* channel made for this iteration, then the timer, before any request.
Attempt(t) ==
  /\ pc[t] = "attempt"
  /\ Send("Attempts")
  /\ solver' = [solver EXCEPT ![t][iterations[t]] = "solving"]
  /\ timer' = [timer EXCEPT ![t] = "armed"]
  /\ pc' = [pc EXCEPT ![t] = "page"]
  /\ UNCHANGED <<managerVars, iterations, sensors, captcha1, captchas, poolVars,
                 panicked>>

\* A request that fails, is answered with another status than 200, or whose
\* body lacks what the next step needs, ends the iteration; after any other
\* the handler goes on at one of labels.
Request(t, from, labels) ==
  /\ pc[t] = from
  /\ Continue(t) \/ \E label \in labels : Goto(t, label)
  /\ UNCHANGED <<managerVars, captchaVars, statsVars, poolVars, panicked>>

\* The page must have the url of the script and a cid.
GetPage(t) == Request(t, "page", {"script"})

\* A page with exactly one cid: the check is for none, the read is of the
\* second.
PagePanics(t) ==
  /\ pc[t] = "page"
  /\ panicked' = TRUE
  /\ UNCHANGED <<managerVars, iterationVars, captchaVars, statsVars, poolVars>>

GetScript(t) == Request(t, "script", {"sensor"})

\* What refreshAbck may return: it fails when the Akamai solver or the request
\* does, and describes a cookie that is not strong then.
RefreshAbck == {d \in [failed : BOOLEAN, strong : BOOLEAN] : d.failed => ~d.strong}

\* A turn of the sensor loop: a strong cookie ends it, and an error counts as a
\* turn like any other.  Without a strong cookie after the last turn the
\* iteration is over.
Sensor(t) ==
  /\ pc[t] = "sensor"
  /\ \E desc \in RefreshAbck :
       \/ desc.strong /\ Goto(t, "await")
       \/ /\ ~desc.strong /\ sensors[t] + 1 < MaxSensor
          /\ sensors' = [sensors EXCEPT ![t] = @ + 1]
          /\ UNCHANGED <<pc, iterations, timer, captcha1>>
       \/ ~desc.strong /\ sensors[t] + 1 = MaxSensor /\ Continue(t)
  /\ UNCHANGED <<managerVars, captchaVars, statsVars, poolVars, panicked>>

FaultyChannel(k) == 1  \* one channel for all iterations

\* Which channel the goroutines of iteration k talk over: one of its own.
Channel(k) == k

\* The select on the captchas channel and the timer takes a case that is
\* ready, either one when both are.  The empty string ends the iteration.
Receive(t) ==
  /\ pc[t] = "await"
  /\ LET c == Channel(iterations[t])
     IN  /\ captchas[t][c] # <<>>
         /\ captchas' = [captchas EXCEPT ![t][c] = Tail(@)]
         /\ \/ Head(captchas[t][c]) = Empty /\ Continue(t)
            \/ /\ Head(captchas[t][c]) # Empty
               /\ captcha1' = [captcha1 EXCEPT ![t] = Head(captchas[t][c])]
               /\ pc' = [pc EXCEPT ![t] = "submit"]
               /\ UNCHANGED <<iterations, sensors, timer>>
  /\ UNCHANGED <<managerVars, solver, statsVars, poolVars, panicked>>

FaultyTimedOut(t) ==  \* the loss of the timer is logged, the wait goes on
  /\ pc[t] = "await"
  /\ timer[t] = "fired"
  /\ timer' = [timer EXCEPT ![t] = "off"]
  /\ UNCHANGED <<managerVars, pc, iterations, sensors, captcha1, captchaVars,
                 statsVars, poolVars, panicked>>

TimedOut(t) ==
  /\ pc[t] = "await"
  /\ timer[t] = "fired"
  /\ Continue(t)
  /\ UNCHANGED <<managerVars, captchaVars, statsVars, poolVars, panicked>>

\* The entry, with captcha1; its answer names the page of the result.
Submit(t) == Request(t, "submit", {"result"})

\* That page tells a winner from a loser.
GetResult(t) == Request(t, "result", {"lost", "won"})

FaultyReportEntry(t) ==  \* only losers are reported as entered
  /\ \/ pc[t] = "lost" /\ Send("Entered") /\ Continue(t)
     \/ pc[t] = "won" /\ UNCHANGED statsVars /\ Goto(t, "winner")
  /\ UNCHANGED <<managerVars, captchaVars, poolVars, panicked>>

\* The entry is reported whatever its result.
ReportEntry(t) ==
  /\ Send("Entered")
  /\ \/ pc[t] = "lost" /\ Continue(t)
     \/ pc[t] = "won" /\ Goto(t, "winner")
  /\ UNCHANGED <<managerVars, captchaVars, poolVars, panicked>>

\* The winner is reported and its page written to a file, best effort.
ReportWinner(t) ==
  /\ pc[t] = "winner"
  /\ Send("Winner")
  /\ \/ Webhook = "none" /\ Continue(t)
     \/ Webhook # "none" /\ Goto(t, "notify")
  /\ UNCHANGED <<managerVars, captchaVars, poolVars, panicked>>

\* The answer of the webhook is ignored.
Notify(t) ==
  /\ pc[t] = "notify"
  /\ Webhook = "valid"
  /\ Continue(t)
  /\ UNCHANGED <<managerVars, captchaVars, statsVars, poolVars, panicked>>

\* No request can be built for a malformed webhook; its error is ignored and
\* the missing request dereferenced.
NotifyPanics(t) ==
  /\ pc[t] = "notify"
  /\ Webhook = "malformed"
  /\ panicked' = TRUE
  /\ UNCHANGED <<managerVars, iterationVars, captchaVars, statsVars, poolVars>>

----------------------------------------------------------------------------
(* The goroutines around the handler.                                       *)

FireTimer(t) ==
  /\ timer[t] = "armed"
  /\ timer' = [timer EXCEPT ![t] = "fired"]
  /\ UNCHANGED <<managerVars, pc, iterations, sensors, captcha1, captchaVars,
                 statsVars, poolVars, panicked>>

\* The solver answers the goroutine of iteration k, in that iteration or long
\* after it, or never.
Solve(t, k) ==
  /\ solver[t][k] = "solving"
  /\ solver' = [solver EXCEPT ![t][k] = "solved"]
                \/ solver' = [solver EXCEPT ![t][k] = "failed"]
  /\ UNCHANGED <<managerVars, iterationVars, captchas, statsVars, poolVars,
                 panicked>>

\* In time for the timer of the iteration that asked.
InTime(t, k) == iterations[t] = k /\ timer[t] = "armed"

FaultyDeliver(t, k) ==  \* over a channel without a buffer
  /\ solver[t][k] \in {"solved", "failed"}
  /\ iterations[t] = k /\ pc[t] = "await"
  /\ captchas' = [captchas EXCEPT ![t][Channel(k)] =
                    Append(@, IF solver[t][k] = "solved" THEN Token(t, k) ELSE Empty)]
  /\ solver' = [solver EXCEPT ![t][k] = IF InTime(t, k) THEN "sent" ELSE "late"]
  /\ UNCHANGED <<managerVars, iterationVars, statsVars, poolVars, panicked>>

\* The goroutine sends the token, or the empty string for an error (a solution
\* that is empty looks the same), and ends.
\* Whether the timer still ran is remembered ("sent" or "late") for
\* TimeoutIsTruthful only.
Deliver(t, k) ==
  /\ solver[t][k] \in {"solved", "failed"}
  /\ Len(captchas[t][Channel(k)]) < CaptchaBuffer
  /\ captchas' = [captchas EXCEPT ![t][Channel(k)] =
                    Append(@, IF solver[t][k] = "solved" THEN Token(t, k) ELSE Empty)]
  /\ solver' = [solver EXCEPT ![t][k] = IF InTime(t, k) THEN "sent" ELSE "late"]
  /\ UNCHANGED <<managerVars, iterationVars, statsVars, poolVars, panicked>>

\* The stats goroutine adds one report to the totals and shows them.
ShowTitle ==
  /\ stats # <<>>
  /\ title' = [title EXCEPT ![Head(stats)] = @ + 1]
  /\ stats' = Tail(stats)
  /\ UNCHANGED <<managerVars, iterationVars, captchaVars, poolVars, panicked>>

----------------------------------------------------------------------------
MainSteps == AllAdded \/ AllStarted \/ WaitReturns \/ OutputFlushed
             \/ \E t \in Tasks : StartTask(t)

\* The steps of a handler that wait for no peer.
LocalSteps(t) ==
  \/ Exit(t) \/ CallLease(t) \/ LeaseReturned(t)
  \/ Attempt(t) \/ Receive(t) \/ TimedOut(t)
  \/ ReportEntry(t) \/ ReportWinner(t)

\* The steps of a handler that wait for a peer; http.Client has no Timeout.
PeerSteps(t) ==
  \/ GetPage(t) \/ PagePanics(t) \/ GetScript(t) \/ Sensor(t)
  \/ Submit(t) \/ GetResult(t) \/ Notify(t) \/ NotifyPanics(t)

Running ==
  \/ MainSteps
  \/ ShowTitle
  \/ \E t \in Tasks :
       \/ AddTask(t) \/ StopTask(t)
       \/ LocalSteps(t) \/ PeerSteps(t) \/ LeaseRuns(t) \/ FireTimer(t)
       \/ \E k \in Rounds : Solve(t, k) \/ Deliver(t, k)

\* main has returned or a goroutine has panicked: the process is gone.
Ended == panicked \/ main = "done"

Next == (~Ended /\ Running) \/ (Ended /\ UNCHANGED vars)

\* Goroutines that can run do, the timer fires, a call of Lease returns
\* (LeaseReturns of ProxyManager), and the stats channel is read.  Nothing is
\* assumed of the peers, the solver or whoever stops tasks.
Fairness ==
  /\ WF_vars(~Ended /\ MainSteps)
  /\ WF_vars(~Ended /\ ShowTitle)
  /\ \A t \in Tasks :
       /\ WF_vars(~Ended /\ LocalSteps(t))
       /\ WF_vars(~Ended /\ FireTimer(t))
       /\ WF_vars(~Ended /\ LeaseRuns(t))
       /\ \A k \in Rounds : WF_vars(~Ended /\ Deliver(t, k))

Spec == Init /\ [][Next]_vars /\ Fairness

----------------------------------------------------------------------------
(* Properties.                                                              *)

\* Between the answer of Lease and the end of the iteration.
InFlight(t) == pc[t] \in {"attempt", "page", "script", "sensor", "await",
                          "submit", "result", "lost", "won", "winner", "notify"}

\* A handler that sends requests sends them through a proxy the pool has on
\* record for it: never after an error, never through one given to another.
OwnsProxyInFlight ==
  \A t \in Tasks :
    InFlight(t) => answer[t] \in Hashes /\ holder[answer[t]] = t

\* The captcha an entry is submitted with was solved for this very iteration:
\* an answer that came too late for its own is never used by a later one.
SubmitsFreshCaptcha ==
  \A t \in Tasks :
    pc[t] \in {"submit", "result"} => captcha1[t] = Token(t, iterations[t])

\* main gets past Wait, and closes the output channel, only after the handler
\* of every task it added has ended.
WaitCoversHandlers ==
  main \in {"flushing", "done"} => \A t \in added : pc[t] = "exited"

\* The title never shows more winners than entries, nor more entries than
\* attempts, although many tasks report over one channel.
TitleOrder ==
  title["Winner"] <= title["Entered"] /\ title["Entered"] <= title["Attempts"]

\* A handler does not wait for a captcha for ever, even if the solver never
\* answers: the timer ends the wait.
AwaitEnds ==
  \A t \in Tasks : pc[t] = "await" ~> (pc[t] # "await" \/ Ended)

\* A captcha goroutine that has its answer gets rid of it and ends, even if
\* its iteration is over and nobody will ever receive.
RequesterEnds ==
  \A t \in Tasks, k \in Rounds :
    solver[t][k] \in {"solved", "failed"} ~> (solver[t][k] \in {"sent", "late"} \/ Ended)

\* Every request is answered or fails in the end, which the code leaves to the
\* peers.
PeersAnswer == \A t \in Tasks : WF_vars(~Ended /\ PeerSteps(t))

\* If the peers answer, stopping every task ends the run: each handler finishes
\* its iteration and leaves, whatever the solver does, and main returns.
StoppedRunEnds ==
  PeersAnswer => ((main = "waiting" /\ added \subseteq cancelled) ~> Ended)

\* What the log says when the timer wins (sinkgo-culvers.go:683): the captcha
\* failed to return within the timeout.
TimeoutIsTruthful ==
  [][\A t \in Tasks : TimedOut(t) => solver[t][iterations[t]] # "sent"]_vars
==============================================================================
