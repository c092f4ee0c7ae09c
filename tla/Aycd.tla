-------------------------------- MODULE Aycd --------------------------------
(****************************************************************************)
(* The AutoSolve client (pkg/captcha/aycd.go): captcha goroutines call      *)
(* SolveRecaptcha at the same time; each registers an unbuffered channel    *)
(* under a fresh task id in the response map of the service, sends its      *)
(* request and waits, for ever or, in SolveWithTimeout, until a timer fires *)
(* (the program itself calls Solve only).  The answers come back through    *)
(* the callbacks of a listener: OnTokenResponse under the service's mutex,  *)
(* OnTokenCancelResponse without it.                                        *)
(*                                                                          *)
(* The AutoSolve library is not part of the repository.  What is assumed of *)
(* it: an API key has one session, a session has one listener, the last one *)
(* set, and calls its callbacks one after another; a request that was sent  *)
(* may be answered with a token and may be cancelled, each at most once, in *)
(* any order, or not at all.                                                *)
(*                                                                          *)
(* A definition whose name starts with Faulty is the definition after it    *)
(* with a plausible mistake: no behaviour uses it, it shows that a property *)
(* notices the mistake.                                                     *)
(****************************************************************************)
EXTENDS Naturals

CONSTANTS Requests,      \* the calls of SolveRecaptcha, named by their task ids
          Timed,         \* those that wait in SolveWithTimeout
          Main,          \* the call of Initialize at the start of the program
          NoCall,        \* a free mutex, an absent request
          StartFails,    \* whether Connect may fail
          SecondAnswers  \* whether a request may be both answered and cancelled

ASSUME CallAssumption == Main \notin Requests /\ NoCall \notin Requests \cup {Main}
ASSUME TimedAssumption == Timed \subseteq Requests
ASSUME SwitchAssumption == StartFails \in BOOLEAN /\ SecondAnswers \in BOOLEAN

Callers == Requests \cup {Main}

\* A service object is named by the caller whose initialize made it.
Services == Callers
NoService == NoCall

VARIABLES
  initialized,  \* a.initialized
  service,      \* a.service
  listener,     \* the service whose listener the session calls
  pc,           \* where each call is
  used,         \* the service each call registered with (s in Solve)
  result,       \* what each call returned
  responseMap,  \* the task ids in the response map of each service
  mu,           \* who holds the mutex of each service: a call or "listener"
  inbox,        \* the answers on their way to the session
  answers,      \* every answer the peer has given
  lpc,          \* where the listener's callback is
  lservice,     \* the service of the running callback
  target,       \* the request it answers
  todo,         \* the cancelled requests it has still to look up
  panicked      \* the process has died

initVars == <<initialized, service, listener>>
callVars == <<pc, used, result>>
mapVars == <<responseMap, mu>>
peerVars == <<inbox, answers>>
callbackVars == <<lpc, lservice, target, todo>>
vars == <<initVars, callVars, mapVars, peerVars, callbackVars, panicked>>

Answers == [kind : {"token", "cancel"}, requests : SUBSET Requests]

TypeOK ==
  /\ initialized \in BOOLEAN
  /\ service \in Services \cup {NoService}
  /\ listener \in Services \cup {NoService}
  /\ pc \in [Callers -> {"call", "connect", "open", "flag", "publish", "solve",
                         "lock", "register", "send", "wait", "done"}]
  /\ used \in [Callers -> Services \cup {NoService}]
  /\ result \in [Callers -> {"none", "ready", "token", "cancelled", "timeout", "error"}]
  /\ responseMap \in [Services -> SUBSET Requests]
  /\ mu \in [Services -> Callers \cup {NoCall, "listener"}]
  /\ inbox \subseteq Answers
  /\ answers \subseteq Answers
  /\ lpc \in {"idle", "tokenLock", "tokenSend", "tokenDelete", "cancel", "cancelSend"}
  /\ lservice \in Services \cup {NoService}
  /\ target \in Requests \cup {NoCall}
  /\ todo \subseteq Requests
  /\ panicked \in BOOLEAN

FaultyNoResponses == [s \in {} |-> {}]  \* a nil map

NoResponses == [s \in Services |-> {}]

Init ==
  /\ initialized = FALSE
  /\ service = NoService /\ listener = NoService
  /\ pc = [c \in Callers |-> IF c = Main THEN "connect" ELSE "call"]
  /\ used = [c \in Callers |-> NoService]
  /\ result = [c \in Callers |-> "none"]
  /\ responseMap = NoResponses
  /\ mu = [s \in Services |-> NoCall]
  /\ inbox = {} /\ answers = {}
  /\ lpc = "idle" /\ lservice = NoService /\ target = NoCall /\ todo = {}
  /\ panicked = FALSE

\* A step inside SolveRecaptcha, and its return.
Goto(c, label) ==
  pc' = [pc EXCEPT ![c] = label] /\ UNCHANGED <<used, result>>
Return(c, r) ==
  /\ pc' = [pc EXCEPT ![c] = "done"]
  /\ result' = [result EXCEPT ![c] = r]
  /\ UNCHANGED used

Panic ==
  /\ panicked' = TRUE
  /\ UNCHANGED <<initVars, callVars, mapVars, peerVars, callbackVars>>

----------------------------------------------------------------------------
(* initialize, which neither a mutex nor a sync.Once guards.                *)

FaultyStarted == TRUE  \* Initialize in a goroutine of its own

\* main's Initialize has returned before any task starts.
Started == pc[Main] = "done"

\* main ignores the error of its Initialize; a call that finds the solver not
\* initialized tries again, together with every other call that does.
CheckInitialized(c) ==
  /\ pc[c] = "call"
  /\ Started
  /\ Goto(c, IF initialized THEN "solve" ELSE "connect")
  /\ UNCHANGED <<initVars, mapVars, peerVars, callbackVars, panicked>>

\* Connect sets its listener before it knows whether the session opens.
Connect(c) ==
  /\ pc[c] = "connect"
  /\ Goto(c, "open")
  /\ listener' = c
  /\ UNCHANGED <<initialized, service, mapVars, peerVars, callbackVars, panicked>>

Open(c) ==
  /\ pc[c] = "open"
  /\ Goto(c, "flag")
  /\ UNCHANGED <<initVars, mapVars, peerVars, callbackVars, panicked>>

ConnectFails(c) ==
  /\ StartFails
  /\ pc[c] \in {"connect", "open"}
  /\ Return(c, "error")
  /\ UNCHANGED <<initVars, mapVars, peerVars, callbackVars, panicked>>

\* The flag goes up before the service is there.
SetInitialized(c) ==
  /\ pc[c] = "flag"
  /\ initialized' = TRUE
  /\ Goto(c, "publish")
  /\ UNCHANGED <<service, listener, mapVars, peerVars, callbackVars, panicked>>

SetService(c) ==
  /\ pc[c] = "publish"
  /\ service' = c
  /\ IF c = Main THEN Return(c, "ready") ELSE Goto(c, "solve")
  /\ UNCHANGED <<initialized, listener, mapVars, peerVars, callbackVars, panicked>>

----------------------------------------------------------------------------
(* Solve.                                                                   *)

Solve(c) ==
  /\ pc[c] = "solve"
  /\ service # NoService
  /\ used' = [used EXCEPT ![c] = service]
  /\ pc' = [pc EXCEPT ![c] = "lock"]
  /\ UNCHANGED <<initVars, result, mapVars, peerVars, callbackVars, panicked>>

\* A nil service is dereferenced.
SolvePanics(c) ==
  /\ pc[c] = "solve"
  /\ service = NoService
  /\ Panic

Lock(c) ==
  /\ pc[c] = "lock"
  /\ mu[used[c]] = NoCall
  /\ mu' = [mu EXCEPT ![used[c]] = c]
  /\ Goto(c, "register")
  /\ UNCHANGED <<initVars, responseMap, peerVars, callbackVars, panicked>>

\* The write of the map, under way since Lock, ends with the mutex released.
Register(c) ==
  /\ pc[c] = "register"
  /\ responseMap' = [responseMap EXCEPT ![used[c]] = @ \cup {c}]
  /\ mu' = [mu EXCEPT ![used[c]] = NoCall]
  /\ Goto(c, "send")
  /\ UNCHANGED <<initVars, peerVars, callbackVars, panicked>>

\* The error of Send is ignored: the call waits in any case.
Send(c) ==
  /\ pc[c] = "send"
  /\ Goto(c, "wait")
  /\ UNCHANGED <<initVars, mapVars, peerVars, callbackVars, panicked>>

\* The select takes the timer: the entry of the call stays in the map.
TimeOut(c) ==
  /\ c \in Timed
  /\ pc[c] = "wait"
  /\ Return(c, "timeout")
  /\ UNCHANGED <<initVars, mapVars, peerVars, callbackVars, panicked>>

----------------------------------------------------------------------------
(* The peer (external).                                                     *)

Sent(r) == pc[r] = "wait" \/ result[r] \in {"token", "cancelled", "timeout"}

AnsweredBy(r, kind) == \E m \in answers : m.kind = kind /\ r \in m.requests

Answer(kind, rs) ==
  /\ rs # {}
  /\ kind = "token" => \E r \in rs : rs = {r}
  /\ \A r \in rs : /\ Sent(r)
                   /\ ~AnsweredBy(r, kind)
                   /\ SecondAnswers \/ ~\E k \in {"token", "cancel"} : AnsweredBy(r, k)
  /\ answers' = answers \cup {[kind |-> kind, requests |-> rs]}
  /\ inbox' = inbox \cup {[kind |-> kind, requests |-> rs]}
  /\ UNCHANGED <<initVars, callVars, mapVars, callbackVars, panicked>>

----------------------------------------------------------------------------
(* The callbacks of the listener, which run on the goroutine of the session.*)

\* The session calls OnTokenResponse or OnTokenCancelResponse.
Callback(m) ==
  /\ lpc = "idle"
  /\ inbox' = inbox \ {m}
  /\ lservice' = listener
  /\ \/ m.kind = "token" /\ lpc' = "tokenLock" /\ target' \in m.requests /\ todo' = {}
     \/ m.kind = "cancel" /\ lpc' = "cancel" /\ target' = NoCall /\ todo' = m.requests
  /\ UNCHANGED <<initVars, callVars, mapVars, answers, panicked>>

\* No channel is registered under the task id: the token is dropped.
TokenDropped ==
  /\ lpc = "tokenLock"
  /\ mu[lservice] = NoCall
  /\ target \notin responseMap[lservice]
  /\ lpc' = "idle" /\ target' = NoCall
  /\ UNCHANGED <<initVars, callVars, mapVars, peerVars, lservice, todo, panicked>>

TokenLocked ==
  /\ lpc = "tokenLock"
  /\ mu[lservice] = NoCall
  /\ target \in responseMap[lservice]
  /\ mu' = [mu EXCEPT ![lservice] = "listener"]
  /\ lpc' = "tokenSend"
  /\ UNCHANGED <<initVars, callVars, responseMap, peerVars, lservice, target, todo, panicked>>

\* A send on an unbuffered channel waits until the call receives.
TokenSent ==
  /\ lpc = "tokenSend"
  /\ pc[target] = "wait"
  /\ Return(target, "token")
  /\ lpc' = "tokenDelete"
  /\ UNCHANGED <<initVars, mapVars, peerVars, lservice, target, todo, panicked>>

FaultyUnregister == UNCHANGED responseMap

Unregister == responseMap' = [responseMap EXCEPT ![lservice] = @ \ {target}]

FaultyUnlock == UNCHANGED mu

Unlock == mu' = [mu EXCEPT ![lservice] = NoCall]

TokenDeleted ==
  /\ lpc = "tokenDelete"
  /\ Unregister
  /\ Unlock
  /\ lpc' = "idle" /\ target' = NoCall
  /\ UNCHANGED <<initVars, callVars, peerVars, lservice, todo, panicked>>

\* The map is read without the mutex, and the entry stays.
CancelReads(r) ==
  /\ lpc = "cancel"
  /\ todo' = todo \ {r}
  /\ \/ r \in responseMap[lservice] /\ lpc' = "cancelSend" /\ target' = r
     \/ r \notin responseMap[lservice] /\ UNCHANGED <<lpc, target>>
  /\ UNCHANGED <<initVars, callVars, mapVars, peerVars, lservice, panicked>>

\* The Go runtime may notice that the map is being written meanwhile, and
\* kills the process.
CancelRaces ==
  /\ lpc = "cancel"
  /\ todo # {}
  /\ \E c \in Callers : pc[c] = "register" /\ used[c] = lservice
  /\ Panic

FaultyCancelSent ==  \* takes the cancellation for an answer
  /\ lpc = "cancelSend"
  /\ pc[target] = "wait"
  /\ Return(target, "token")
  /\ lpc' = "cancel" /\ target' = NoCall
  /\ UNCHANGED <<initVars, mapVars, peerVars, lservice, todo, panicked>>

CancelSent ==
  /\ lpc = "cancelSend"
  /\ pc[target] = "wait"
  /\ Return(target, "cancelled")
  /\ lpc' = "cancel" /\ target' = NoCall
  /\ UNCHANGED <<initVars, mapVars, peerVars, lservice, todo, panicked>>

CancelEnds ==
  /\ lpc = "cancel"
  /\ todo = {}
  /\ lpc' = "idle"
  /\ UNCHANGED <<initVars, callVars, mapVars, peerVars, lservice, target, todo, panicked>>

----------------------------------------------------------------------------
CallSteps(c) ==
  \/ CheckInitialized(c) \/ Connect(c) \/ Open(c) \/ ConnectFails(c)
  \/ SetInitialized(c) \/ SetService(c)
  \/ Solve(c) \/ SolvePanics(c) \/ Lock(c) \/ Register(c) \/ Send(c) \/ TimeOut(c)

CallbackSteps ==
  \/ \E m \in inbox : Callback(m)
  \/ TokenDropped \/ TokenLocked \/ TokenSent \/ TokenDeleted
  \/ \E r \in todo : CancelReads(r)
  \/ CancelRaces \/ CancelSent \/ CancelEnds

PeerSteps == \E kind \in {"token", "cancel"}, rs \in SUBSET Requests : Answer(kind, rs)

Next ==
  /\ ~panicked
  /\ PeerSteps \/ CallbackSteps \/ \E c \in Callers : CallSteps(c)

\* Goroutines that can run do; the peer need not answer.
Fairness ==
  /\ WF_vars(~panicked /\ CallbackSteps)
  /\ \A c \in Callers : WF_vars(~panicked /\ CallSteps(c))

Spec == Init /\ [][Next]_vars /\ Fairness

----------------------------------------------------------------------------
(* Properties.                                                              *)

\* A call that has returned while its entry was still in the map.
LeftEntry(r) == result[r] \in {"cancelled", "timeout"}

\* The response map does not keep requests for ever, with two exceptions: an
\* entry is of a call that is waiting or about to, or about to be deleted, or
\* it is what a request that was cancelled or timed out left behind.
EntriesArePending ==
  \A s \in Services : \A r \in responseMap[s] :
    /\ used[r] = s
    /\ \/ pc[r] \in {"send", "wait"}
       \/ lpc = "tokenDelete" /\ target = r
       \/ LeftEntry(r)

\* The callback, and with it the mutex of the service and every later call, can
\* only get stuck on a request that was cancelled or timed out before: any other
\* request the listener sends to has not returned.
StuckOnlyOnLeftEntry ==
  lpc \in {"tokenSend", "cancelSend"} =>
    pc[target] \in {"send", "wait"} \/ LeftEntry(target)

\* A call only meets a missing service, and kills the process, when main's own
\* Initialize failed and was ignored: after a good start the flag and the
\* service are never seen apart.
NilServiceOnlyAfterFailedStart ==
  [][\A c \in Callers : SolvePanics(c) => result[Main] = "error"]_vars

\* Likewise a token is never dropped while its request waits for it, unless
\* main's Initialize failed: the calls that made up for it each set their own
\* listener, and the answer arrives at another service than the one asked.
TokenLostOnlyAfterFailedStart ==
  [][TokenDropped /\ pc[target] = "wait" => result[Main] = "error"]_vars

\* The client is a captcha solver, whatever fails and however answers,
\* cancellations, timeouts and concurrent starts interleave: a call returns once,
\* and no token that was not the answer to its own request.
Solver == INSTANCE CaptchaSolver
            WITH Calls <- Requests,
                 asked <- {r \in Requests : Sent(r)},
                 solved <- {r \in Requests : AnsweredBy(r, "token")},
                 ret <- [r \in Requests |-> IF result[r] \in {"none", "token"} THEN result[r]
                                            ELSE "error"]

ImplementsSolver == Solver!SolverSpec

\* A request that is answered or cancelled, once, returns, however many others
\* are under way.
AnsweredReturns ==
  \A r \in Requests :
    AnsweredBy(r, "token") \/ AnsweredBy(r, "cancel") ~> (pc[r] = "done" \/ panicked)
=============================================================================
