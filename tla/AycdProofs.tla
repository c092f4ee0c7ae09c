------------------------------ MODULE AycdProofs ------------------------------
(****************************************************************************)
(* The AutoSolve client, for every number of concurrent calls: what stays   *)
(* in the response map, whom the listener may wait for, what a good start   *)
(* is worth, and that the client keeps the contract of a captcha solver.    *)
(****************************************************************************)
EXTENDS Aycd, TLAPS

\* Nobody asks for a captcha before main's Initialize has returned, and until
\* then the listener is the one main has set.
MainStarts ==
  /\ pc[Main] \in {"connect", "open", "flag", "publish", "done"}
  /\ pc[Main] # "done" =>
       /\ service = NoService /\ answers = {} /\ lpc = "idle"
       /\ \A r \in Requests : pc[r] = "call" /\ used[r] = NoService
  /\ pc[Main] \in {"open", "flag", "publish"} => listener = Main
  /\ pc[Main] = "publish" => initialized
  /\ pc[Main] = "done" => result[Main] \in {"ready", "error"}

\* A call has a result when it has returned, and a service from Solve on; who
\* has or has made a service has set a listener before.
Phases ==
  \A c \in Callers :
    /\ result[c] = "none" <=> pc[c] # "done"
    /\ \/ pc[c] \in {"lock", "register", "send", "wait"}
       \/ result[c] \in {"token", "cancelled", "timeout"}
       => used[c] # NoService
    /\ \/ used[c] # NoService \/ service # NoService
       \/ pc[c] \in {"open", "flag", "publish"}
       => listener # NoService

\* After a good start no call starts anything again: there is one service, one
\* listener, and they are main's.
GoodStart ==
  result[Main] = "ready" =>
    /\ initialized /\ service = Main /\ listener = Main
    /\ lpc # "idle" => lservice = Main
    /\ \A r \in Requests : /\ pc[r] \notin {"connect", "open", "flag", "publish"}
                           /\ used[r] \in {NoService, Main}

\* A call that waits for its answer is registered with the service it asked.
Registered ==
  \A r \in Requests : pc[r] \in {"send", "wait"} => r \in responseMap[used[r]]

\* Only requests that were sent are answered.
AnswersAsked ==
  /\ inbox \subseteq answers
  /\ \A m \in answers : m.requests # {} /\ \A r \in m.requests : Sent(r)

\* The callback works for a service, and while it is on its way to deliver or
\* to delete, the entry of its request is in the map of that service.
CallbackAgrees ==
  /\ lpc # "idle" => lservice # NoService
  /\ lpc \in {"tokenLock", "tokenSend", "tokenDelete", "cancelSend"} => target \in Requests
  /\ lpc \in {"tokenSend", "tokenDelete", "cancelSend"} => target \in responseMap[lservice]
  /\ lpc \in {"tokenLock", "tokenSend"} => AnsweredBy(target, "token")
  /\ lpc = "tokenDelete" => result[target] = "token"

Starts == MainStarts /\ Phases /\ GoodStart
Entries == Registered /\ EntriesArePending
Callbacks == AnswersAsked /\ CallbackAgrees

IInv == TypeOK /\ Starts /\ Entries /\ Callbacks

\* A call looks at the flag only after main's start.
LEMMA CheckInitializedInv == ASSUME IInv, NEW c \in Callers, CheckInitialized(c) PROVE IInv'
<1> USE CallAssumption DEF Callers, Services, NoService, IInv, Starts, MainStarts, Phases,
        CheckInitialized, Goto, initVars, mapVars, peerVars, callbackVars
<1>1. c \in Requests /\ pc[Main] = "done"
  BY DEF Started
<1>2. TypeOK'
  BY DEF TypeOK
<1>3. Starts'
  BY <1>1 DEF GoodStart
<1>4. Entries'
  BY DEF Entries, Registered, EntriesArePending, LeftEntry
<1>5. AnswersAsked'
  BY DEF Callbacks, AnswersAsked, Sent
<1>6. CallbackAgrees'
  BY DEF Callbacks, CallbackAgrees, AnsweredBy
<1> QED
  BY <1>2, <1>3, <1>4, <1>5, <1>6 DEF Callbacks

\* A start sets its listener first.
LEMMA ConnectInv == ASSUME IInv, NEW c \in Callers, Connect(c) PROVE IInv'
<1> USE CallAssumption DEF Callers, Services, NoService, IInv, Starts, MainStarts, Phases,
        Connect, Goto, mapVars, peerVars, callbackVars
<1>1. TypeOK'
  BY DEF TypeOK
<1>2. Starts'
  BY DEF GoodStart
<1>3. Entries'
  BY DEF Entries, Registered, EntriesArePending, LeftEntry
<1>4. AnswersAsked'
  BY DEF Callbacks, AnswersAsked, Sent
<1>5. CallbackAgrees'
  BY DEF Callbacks, CallbackAgrees, AnsweredBy
<1> QED
  BY <1>1, <1>2, <1>3, <1>4, <1>5 DEF Callbacks

\* The session opens.
LEMMA OpenInv == ASSUME IInv, NEW c \in Callers, Open(c) PROVE IInv'
<1> USE CallAssumption DEF Callers, Services, NoService, IInv, Starts, MainStarts, Phases,
        Open, Goto, initVars, mapVars, peerVars, callbackVars
<1>1. TypeOK'
  BY DEF TypeOK
<1>2. Starts'
  BY DEF GoodStart
<1>3. Entries'
  BY DEF Entries, Registered, EntriesArePending, LeftEntry
<1>4. AnswersAsked'
  BY DEF Callbacks, AnswersAsked, Sent
<1>5. CallbackAgrees'
  BY DEF Callbacks, CallbackAgrees, AnsweredBy
<1> QED
  BY <1>1, <1>2, <1>3, <1>4, <1>5 DEF Callbacks

\* The flag goes up.
LEMMA SetInitializedInv == ASSUME IInv, NEW c \in Callers, SetInitialized(c) PROVE IInv'
<1> USE CallAssumption DEF Callers, Services, NoService, IInv, Starts, MainStarts, Phases,
        SetInitialized, Goto, mapVars, peerVars, callbackVars
<1>1. TypeOK'
  BY DEF TypeOK
<1>2. Starts'
  BY DEF GoodStart
<1>3. Entries'
  BY DEF Entries, Registered, EntriesArePending, LeftEntry
<1>4. AnswersAsked'
  BY DEF Callbacks, AnswersAsked, Sent
<1>5. CallbackAgrees'
  BY DEF Callbacks, CallbackAgrees, AnsweredBy
<1> QED
  BY <1>1, <1>2, <1>3, <1>4, <1>5 DEF Callbacks

\* A start that fails leaves no entry.
LEMMA ConnectFailsInv == ASSUME IInv, NEW c \in Callers, ConnectFails(c) PROVE IInv'
<1> USE CallAssumption DEF Callers, Services, NoService, IInv, Starts, MainStarts, Phases,
        ConnectFails, Return, initVars, mapVars, peerVars, callbackVars
<1>1. TypeOK'
  BY DEF TypeOK
<1>2. Starts'
  BY DEF TypeOK, GoodStart
<1>3. Entries'
  BY DEF Entries, Registered, EntriesArePending, LeftEntry
<1>4. AnswersAsked'
  BY DEF Callbacks, AnswersAsked, Sent
<1>5. CallbackAgrees'
  BY DEF Callbacks, CallbackAgrees, AnsweredBy
<1> QED
  BY <1>1, <1>2, <1>3, <1>4, <1>5 DEF Callbacks

\* main's service is there when Initialize returns.
LEMMA SetMainServiceInv == ASSUME IInv, SetService(Main) PROVE IInv'
<1> USE CallAssumption DEF Callers, Services, NoService, IInv, Starts, MainStarts, Phases,
        SetService, Goto, Return, mapVars, peerVars, callbackVars
<1>1. TypeOK'
  BY DEF TypeOK
<1>2. Starts'
  BY DEF TypeOK, GoodStart
<1>3. Entries'
  BY DEF TypeOK, Entries, Registered, EntriesArePending
<1>4. AnswersAsked'
  BY DEF Callbacks, AnswersAsked
<1>5. CallbackAgrees'
  BY DEF CallbackAgrees
<1> QED
  BY <1>1, <1>2, <1>3, <1>4, <1>5 DEF Callbacks

\* A call that has started a service goes on to use one.
LEMMA SetServiceInv == ASSUME IInv, NEW c \in Requests, SetService(c) PROVE IInv'
<1> USE CallAssumption DEF Callers, Services, NoService, IInv, Starts, MainStarts, Phases,
        SetService, Goto, Return, mapVars, peerVars, callbackVars
<1>1. TypeOK'
  BY DEF TypeOK
<1>2. Starts'
  BY DEF TypeOK, GoodStart
<1>3. Registered'
  BY DEF TypeOK, Entries, Registered
<1>4. EntriesArePending'
  <2> SUFFICES ASSUME NEW s \in Services, NEW r \in responseMap'[s]
               PROVE  /\ used'[r] = s
                      /\ \/ pc'[r] \in {"send", "wait"}
                         \/ lpc' = "tokenDelete" /\ target' = r
                         \/ LeftEntry(r)'
    BY DEF EntriesArePending
  <2>1. r \in responseMap[s] =>
          /\ used[r] = s
          /\ \/ pc[r] \in {"send", "wait"}
             \/ lpc = "tokenDelete" /\ target = r
             \/ LeftEntry(r)
    BY DEF Entries, EntriesArePending
  <2> QED
    BY <2>1 DEF TypeOK, LeftEntry
<1>5. AnswersAsked'
  BY DEF TypeOK, Callbacks, AnswersAsked, Answers, Sent
<1>6. CallbackAgrees'
  BY DEF Callbacks, CallbackAgrees, AnsweredBy
<1> QED
  BY <1>1, <1>2, <1>3, <1>4, <1>5, <1>6 DEF Entries, Callbacks

\* A call takes the service it finds.
LEMMA SolveInv == ASSUME IInv, NEW c \in Callers, Solve(c) PROVE IInv'
<1> USE CallAssumption DEF Callers, Services, NoService, IInv, Starts, MainStarts, Phases,
        Solve, initVars, mapVars, peerVars, callbackVars
<1>1. TypeOK'
  BY DEF TypeOK
<1>2. Starts'
  BY DEF TypeOK, GoodStart
<1>3. Entries'
  BY DEF Entries, Registered, EntriesArePending, LeftEntry, Callbacks, CallbackAgrees
<1>4. AnswersAsked'
  BY DEF Callbacks, AnswersAsked, Sent
<1>5. CallbackAgrees'
  BY DEF Callbacks, CallbackAgrees, AnsweredBy
<1> QED
  BY <1>1, <1>2, <1>3, <1>4, <1>5 DEF Callbacks

\* It takes the mutex.
LEMMA LockInv == ASSUME IInv, NEW c \in Callers, Lock(c) PROVE IInv'
<1> USE CallAssumption DEF Callers, Services, NoService, IInv, Starts, MainStarts, Phases,
        Lock, Goto, initVars, peerVars, callbackVars
<1>1. TypeOK'
  BY DEF TypeOK
<1>2. Starts'
  BY DEF GoodStart
<1>3. Entries'
  BY DEF Entries, Registered, EntriesArePending, LeftEntry
<1>4. AnswersAsked'
  BY DEF Callbacks, AnswersAsked, Sent
<1>5. CallbackAgrees'
  BY DEF Callbacks, CallbackAgrees, AnsweredBy
<1> QED
  BY <1>1, <1>2, <1>3, <1>4, <1>5 DEF Callbacks

\* It registers, with the service it will ask.
LEMMA RegisterInv == ASSUME IInv, NEW c \in Callers, Register(c) PROVE IInv'
<1> USE CallAssumption DEF Callers, Services, NoService, IInv, Starts, MainStarts, Phases,
        Register, Goto, initVars, peerVars, callbackVars
<1>1. c \in Requests /\ used[c] \in Services
  BY DEF TypeOK
<1>2. TypeOK'
  BY DEF TypeOK
<1>3. Starts'
  BY DEF GoodStart
<1>4. Registered'
  BY DEF TypeOK, Entries, Registered
<1>5. EntriesArePending'
  <2> SUFFICES ASSUME NEW s \in Services, NEW r \in responseMap'[s]
               PROVE  /\ used'[r] = s
                      /\ \/ pc'[r] \in {"send", "wait"}
                         \/ lpc' = "tokenDelete" /\ target' = r
                         \/ LeftEntry(r)'
    BY DEF EntriesArePending
  <2>1. r \in Requests /\ (r \in responseMap[s] \/ (r = c /\ s = used[c]))
    BY <1>1 DEF TypeOK
  <2>2. r \in responseMap[s] =>
          /\ used[r] = s
          /\ \/ pc[r] \in {"send", "wait"}
             \/ lpc = "tokenDelete" /\ target = r
             \/ LeftEntry(r)
    BY DEF Entries, EntriesArePending
  <2> QED
    BY <2>2 DEF TypeOK, LeftEntry
<1>6. AnswersAsked'
  BY DEF Callbacks, AnswersAsked, Sent
<1>7. CallbackAgrees'
  BY DEF Callbacks, CallbackAgrees, AnsweredBy
<1> QED
  BY <1>2, <1>3, <1>4, <1>5, <1>6, <1>7 DEF Entries, Callbacks

\* It asks, and is registered then.
LEMMA SendInv == ASSUME IInv, NEW c \in Callers, Send(c) PROVE IInv'
<1> USE CallAssumption DEF Callers, Services, NoService, IInv, Starts, MainStarts, Phases,
        Send, Goto, initVars, mapVars, peerVars, callbackVars
<1>1. TypeOK'
  BY DEF TypeOK
<1>2. Starts'
  BY DEF GoodStart
<1>3. Entries'
  BY DEF Entries, Registered, EntriesArePending, LeftEntry
<1>4. AnswersAsked'
  BY DEF Callbacks, AnswersAsked, Sent
<1>5. CallbackAgrees'
  BY DEF Callbacks, CallbackAgrees, AnsweredBy
<1> QED
  BY <1>1, <1>2, <1>3, <1>4, <1>5 DEF Callbacks

\* A timeout leaves the entry behind.
LEMMA TimeOutInv == ASSUME IInv, NEW c \in Callers, TimeOut(c) PROVE IInv'
<1> USE CallAssumption DEF Callers, Services, NoService, IInv, Starts, MainStarts, Phases,
        TimeOut, Return, initVars, mapVars, peerVars, callbackVars
<1>1. TypeOK'
  BY DEF TypeOK
<1>2. Starts'
  BY DEF TypeOK, GoodStart
<1>3. Entries'
  BY DEF TypeOK, Entries, Registered, EntriesArePending, LeftEntry
<1>4. AnswersAsked'
  BY DEF TypeOK, Callbacks, AnswersAsked, Sent
<1>5. CallbackAgrees'
  BY DEF Callbacks, CallbackAgrees, AnsweredBy
<1> QED
  BY <1>1, <1>2, <1>3, <1>4, <1>5 DEF Callbacks

\* The end of the process changes nothing else.
LEMMA PanicInv == ASSUME IInv, Panic PROVE IInv'
<1> USE CallAssumption DEF Callers, Services, NoService, IInv, Starts, MainStarts, Phases,
        Panic, initVars, callVars, mapVars, peerVars, callbackVars
<1>1. TypeOK'
  BY DEF TypeOK
<1>2. Starts'
  BY DEF GoodStart
<1>3. Entries'
  BY DEF Entries, Registered, EntriesArePending, LeftEntry
<1>4. AnswersAsked'
  BY DEF Callbacks, AnswersAsked, Sent
<1>5. CallbackAgrees'
  BY DEF Callbacks, CallbackAgrees, AnsweredBy
<1> QED
  BY <1>1, <1>2, <1>3, <1>4, <1>5 DEF Callbacks

\* A callback runs for an answer to requests that were sent, so there is a service.
LEMMA CallbackInv == ASSUME IInv, NEW m \in inbox, Callback(m) PROVE IInv'
<1> USE CallAssumption DEF Callers, Services, NoService, IInv, Starts, MainStarts, Phases,
        Callback, initVars, callVars, mapVars
<1>1. m \in answers /\ m \in Answers /\ m.requests # {} /\ \A r \in m.requests : Sent(r)
  BY DEF TypeOK, Callbacks, AnswersAsked
<1>2. listener # NoService /\ pc[Main] = "done"
  BY <1>1 DEF Answers, Sent
<1>3. TypeOK'
  BY DEF TypeOK, Answers
<1>4. Starts'
  BY <1>2 DEF GoodStart
<1>5. Registered'
  BY DEF Entries, Registered
<1>6. EntriesArePending'
  BY DEF Entries, EntriesArePending, LeftEntry
<1>7. AnswersAsked'
  BY DEF Callbacks, AnswersAsked, Sent
<1>8. CallbackAgrees'
  BY <1>1, <1>2 DEF CallbackAgrees, AnsweredBy, Answers
<1> QED
  BY <1>3, <1>4, <1>5, <1>6, <1>7, <1>8 DEF Entries, Callbacks

\* A token that nobody waits for ends its callback.
LEMMA TokenDroppedInv == ASSUME IInv, TokenDropped PROVE IInv'
<1> USE CallAssumption DEF Callers, Services, NoService, IInv, Starts, MainStarts, Phases,
        TokenDropped, initVars, callVars, mapVars, peerVars
<1>1. TypeOK'
  BY DEF TypeOK
<1>2. Starts'
  BY DEF GoodStart
<1>3. Entries'
  BY DEF Entries, Registered, EntriesArePending, LeftEntry
<1>4. AnswersAsked'
  BY DEF Callbacks, AnswersAsked, Sent
<1>5. CallbackAgrees'
  BY DEF CallbackAgrees
<1> QED
  BY <1>1, <1>2, <1>3, <1>4, <1>5 DEF Callbacks

\* A cancellation ends when all its requests were looked up.
LEMMA CancelEndsInv == ASSUME IInv, CancelEnds PROVE IInv'
<1> USE CallAssumption DEF Callers, Services, NoService, IInv, Starts, MainStarts, Phases,
        CancelEnds, initVars, callVars, mapVars, peerVars
<1>1. TypeOK'
  BY DEF TypeOK
<1>2. Starts'
  BY DEF GoodStart
<1>3. Entries'
  BY DEF Entries, Registered, EntriesArePending, LeftEntry
<1>4. AnswersAsked'
  BY DEF Callbacks, AnswersAsked, Sent
<1>5. CallbackAgrees'
  BY DEF CallbackAgrees
<1> QED
  BY <1>1, <1>2, <1>3, <1>4, <1>5 DEF Callbacks

\* The token's request is found in the map of the callback's service.
LEMMA TokenLockedInv == ASSUME IInv, TokenLocked PROVE IInv'
<1> USE CallAssumption DEF Callers, Services, NoService, IInv, Starts, MainStarts, Phases,
        TokenLocked, initVars, callVars, peerVars
<1>1. TypeOK'
  BY DEF TypeOK
<1>2. Starts'
  BY DEF GoodStart
<1>3. Entries'
  BY DEF Entries, Registered, EntriesArePending, LeftEntry
<1>4. AnswersAsked'
  BY DEF Callbacks, AnswersAsked, Sent
<1>5. CallbackAgrees'
  BY DEF Callbacks, CallbackAgrees, AnsweredBy
<1> QED
  BY <1>1, <1>2, <1>3, <1>4, <1>5 DEF Callbacks

\* A call that receives its token returns with its entry about to be deleted.
LEMMA TokenSentInv == ASSUME IInv, TokenSent PROVE IInv'
<1> USE CallAssumption DEF Callers, Services, NoService, IInv, Starts, MainStarts, Phases,
        TokenSent, Return, initVars, mapVars, peerVars
<1>1. TypeOK'
  BY DEF TypeOK
<1>2. Starts'
  BY DEF TypeOK, GoodStart
<1>3. Entries'
  BY DEF Entries, Registered, EntriesArePending, LeftEntry
<1>4. AnswersAsked'
  BY DEF TypeOK, Callbacks, AnswersAsked, Sent
<1>5. CallbackAgrees'
  BY DEF TypeOK, Callbacks, CallbackAgrees
<1> QED
  BY <1>1, <1>2, <1>3, <1>4, <1>5 DEF Callbacks

\* The entry that is deleted is the only one of its request.
LEMMA TokenDeletedInv == ASSUME IInv, TokenDeleted PROVE IInv'
<1> USE CallAssumption DEF Callers, Services, NoService, IInv, Starts, MainStarts, Phases,
        TokenDeleted, Unlock, Unregister, initVars, callVars, peerVars
<1>1. lservice \in Services /\ used[target] = lservice
  BY DEF TypeOK, Entries, EntriesArePending, Callbacks, CallbackAgrees
<1>2. TypeOK'
  BY DEF TypeOK
<1>3. Starts'
  BY DEF GoodStart
<1>4. Registered'
  BY DEF Entries, Registered, Callbacks, CallbackAgrees
<1>5. EntriesArePending'
  <2> SUFFICES ASSUME NEW s \in Services, NEW r \in responseMap'[s]
               PROVE  /\ used'[r] = s
                      /\ \/ pc'[r] \in {"send", "wait"}
                         \/ lpc' = "tokenDelete" /\ target' = r
                         \/ LeftEntry(r)'
    BY DEF EntriesArePending
  <2>1. r \in Requests /\ (r \in responseMap[s] /\ ~(r = target /\ s = lservice))
    BY <1>1 DEF TypeOK
  <2>2. r \in responseMap[s] =>
          /\ used[r] = s
          /\ \/ pc[r] \in {"send", "wait"}
             \/ lpc = "tokenDelete" /\ target = r
             \/ LeftEntry(r)
    BY DEF Entries, EntriesArePending
  <2> QED
    BY <1>1, <2>1, <2>2 DEF LeftEntry
<1>6. AnswersAsked'
  BY DEF Callbacks, AnswersAsked, Sent
<1>7. CallbackAgrees'
  BY DEF CallbackAgrees
<1> QED
  BY <1>2, <1>3, <1>4, <1>5, <1>6, <1>7 DEF Entries, Callbacks

\* A cancelled request is found in the map, or there is nobody to tell.
LEMMA CancelReadsInv == ASSUME IInv, NEW r \in todo, CancelReads(r) PROVE IInv'
<1> USE CallAssumption DEF Callers, Services, NoService, IInv, Starts, MainStarts, Phases,
        CancelReads, initVars, callVars, mapVars, peerVars
<1>1. TypeOK'
  BY DEF TypeOK
<1>2. Starts'
  BY DEF GoodStart
<1>3. Entries'
  BY DEF Entries, Registered, EntriesArePending, LeftEntry
<1>4. AnswersAsked'
  BY DEF Callbacks, AnswersAsked, Sent
<1>5. CallbackAgrees'
  <2>1. CASE r \in responseMap[lservice] /\ lpc' = "cancelSend" /\ target' = r
    BY DEF TypeOK, Callbacks, CallbackAgrees
  <2>2. CASE UNCHANGED <<lpc, target>>
    BY <2>2 DEF Callbacks, CallbackAgrees
  <2> QED
    BY <2>1, <2>2
<1> QED
  BY <1>1, <1>2, <1>3, <1>4, <1>5 DEF Callbacks

\* A call that is cancelled leaves its entry behind.
LEMMA CancelSentInv == ASSUME IInv, CancelSent PROVE IInv'
<1> USE CallAssumption DEF Callers, Services, NoService, IInv, Starts, MainStarts, Phases,
        CancelSent, Return, initVars, mapVars, peerVars
<1>1. TypeOK'
  BY DEF TypeOK
<1>2. Starts'
  BY DEF TypeOK, GoodStart
<1>3. Entries'
  BY DEF TypeOK, Entries, Registered, EntriesArePending, LeftEntry
<1>4. AnswersAsked'
  BY DEF TypeOK, Callbacks, AnswersAsked, Sent
<1>5. CallbackAgrees'
  BY DEF Callbacks, CallbackAgrees
<1> QED
  BY <1>1, <1>2, <1>3, <1>4, <1>5 DEF Callbacks

\* The peer answers requests that were sent, so main has started.
LEMMA AnswerInv ==
  ASSUME IInv, NEW kind \in {"token", "cancel"}, NEW rs \in SUBSET Requests, Answer(kind, rs)
  PROVE  IInv'
<1> USE CallAssumption DEF Callers, Services, NoService
<1> DEFINE m == [kind |-> kind, requests |-> rs]
<1>1. /\ rs # {} /\ \A r \in rs : Sent(r)
      /\ answers' = answers \cup {m} /\ inbox' = inbox \cup {m}
      /\ UNCHANGED <<initVars, callVars, mapVars, callbackVars, panicked>>
  BY DEF Answer
<1>2. m \in Answers /\ m.requests = rs /\ m.kind = kind
  BY DEF Answers
<1> HIDE DEF m
<1>3. pc[Main] = "done"
  BY <1>1 DEF IInv, Starts, MainStarts, Phases, Sent
<1>4. TypeOK'
  BY <1>1, <1>2 DEF IInv, TypeOK, initVars, callVars, mapVars, callbackVars
<1>5. Starts'
  BY <1>1, <1>3 DEF IInv, Starts, MainStarts, Phases, GoodStart, initVars, callVars,
     callbackVars
<1>6. Entries'
  BY <1>1 DEF IInv, Entries, Registered, EntriesArePending, LeftEntry, callVars, mapVars,
     callbackVars
<1>7. AnswersAsked'
  BY <1>1, <1>2 DEF IInv, Callbacks, AnswersAsked, Sent, callVars
<1>8. CallbackAgrees'
  BY <1>1 DEF IInv, Callbacks, CallbackAgrees, AnsweredBy, callVars, mapVars, callbackVars
<1> QED
  BY <1>4, <1>5, <1>6, <1>7, <1>8 DEF IInv, Callbacks

\* At the start nothing is registered and nothing answered.
LEMMA InitInv == Init => IInv
<1> SUFFICES ASSUME Init PROVE IInv
  OBVIOUS
<1> USE CallAssumption DEF Init, Callers, Services, NoService, NoResponses
<1>1. TypeOK
  BY DEF TypeOK
<1>2. Starts
  BY DEF Starts, MainStarts, Phases, GoodStart
<1>3. Entries
  BY DEF Entries, Registered, EntriesArePending
<1>4. Callbacks
  BY DEF Callbacks, AnswersAsked, CallbackAgrees
<1> QED
  BY <1>1, <1>2, <1>3, <1>4 DEF IInv

----------------------------------------------------------------------------
(* The theorems.                                                            *)

\* Every step keeps the inductive invariant.
LEMMA IInvStep == IInv /\ [Next]_vars => IInv'
<1> SUFFICES ASSUME IInv, [Next]_vars PROVE IInv'
  OBVIOUS
<1>1. CASE UNCHANGED vars
  <2> USE DEF vars, initVars, callVars, mapVars, peerVars, callbackVars
  <2>1. TypeOK'
    BY <1>1 DEF IInv, TypeOK
  <2>2. Starts'
    BY <1>1 DEF IInv, Starts, MainStarts, Phases, GoodStart
  <2>3. Entries'
    BY <1>1 DEF IInv, Entries, Registered, EntriesArePending, LeftEntry
  <2>4. Callbacks'
    BY <1>1 DEF IInv, Callbacks, AnswersAsked, CallbackAgrees, AnsweredBy, Sent
  <2> QED
    BY <2>1, <2>2, <2>3, <2>4 DEF IInv
<1>2. CASE PeerSteps
  BY <1>2, AnswerInv DEF PeerSteps
<1>3. CASE CallbackSteps
  BY <1>3, CallbackInv, TokenDroppedInv, TokenLockedInv, TokenSentInv, TokenDeletedInv,
     CancelReadsInv, CancelSentInv, CancelEndsInv, PanicInv DEF CallbackSteps, CancelRaces
<1>4. ASSUME NEW c \in Callers, CallSteps(c) PROVE IInv'
  <2>1. CASE SetService(c)
    BY <2>1, SetMainServiceInv, SetServiceInv DEF Callers
  <2>2. CASE SolvePanics(c)
    BY <2>2, PanicInv DEF SolvePanics
  <2> QED
    BY <1>4, <2>1, <2>2, CheckInitializedInv, ConnectInv, OpenInv, ConnectFailsInv,
       SetInitializedInv, SolveInv, LockInv, RegisterInv, SendInv, TimeOutInv DEF CallSteps
<1> QED
  BY <1>1, <1>2, <1>3, <1>4 DEF Next

\* The inductive invariant holds in every reachable state.
THEOREM Invariance == Spec => []IInv
<1> QED
  BY InitInv, IInvStep, PTL DEF Spec

\* Every variable keeps its type.
THEOREM TypeCorrect == Spec => []TypeOK
<1>1. IInv => TypeOK
  BY DEF IInv
<1> QED
  BY <1>1, Invariance, PTL

\* What stays in the response map (aycd.go) is of a call that waits or is about
\* to, or about to be deleted, or was left behind by a cancellation or a timeout.
THEOREM EntriesPending == Spec => []EntriesArePending
<1>1. IInv => EntriesArePending
  BY DEF IInv, Entries
<1> QED
  BY <1>1, Invariance, PTL

\* The listener waits for ever, with the mutex of the service in its hands, only
\* for a request that was cancelled or timed out before.
THEOREM StuckOnlyOnLeft == Spec => []StuckOnlyOnLeftEntry
<1>1. IInv => StuckOnlyOnLeftEntry
  BY DEF IInv, TypeOK, Entries, EntriesArePending, Callbacks, CallbackAgrees,
     StuckOnlyOnLeftEntry
<1> QED
  BY <1>1, Invariance, PTL

\* A nil service is met, and kills the process, only if main's Initialize failed.
THEOREM NilServiceOnlyAfterFailure == Spec => NilServiceOnlyAfterFailedStart
<1>1. IInv /\ [Next]_vars => [\A c \in Callers : SolvePanics(c) => result[Main] = "error"]_vars
  <2> SUFFICES ASSUME IInv, NEW c \in Callers, SolvePanics(c) PROVE result[Main] = "error"
    OBVIOUS
  <2>1. pc[c] = "solve" /\ service = NoService
    BY DEF SolvePanics
  <2>2. pc[Main] = "done"
    BY <2>1 DEF IInv, Starts, MainStarts, Callers
  <2> QED
    BY <2>1, <2>2, CallAssumption DEF IInv, Starts, MainStarts, GoodStart, NoService
<1> QED
  BY <1>1, Invariance, PTL DEF Spec, NilServiceOnlyAfterFailedStart

\* A token of a request that waits for it is dropped only if main's Initialize
\* failed: otherwise the request is registered where the answer arrives.
THEOREM TokenLostOnlyAfterFailure == Spec => TokenLostOnlyAfterFailedStart
<1>1. IInv /\ [Next]_vars => [TokenDropped /\ pc[target] = "wait" => result[Main] = "error"]_vars
  <2> SUFFICES ASSUME IInv, TokenDropped, pc[target] = "wait" PROVE result[Main] = "error"
    OBVIOUS
  <2>1. target \in Requests /\ target \in responseMap[used[target]] /\ used[target] # NoService
    BY DEF IInv, Entries, Registered, Callbacks, CallbackAgrees, TokenDropped, Starts, Phases,
       Callers
  <2>2. target \notin responseMap[lservice]
    BY DEF TokenDropped
  <2>3. pc[Main] = "done"
    BY <2>1 DEF IInv, Starts, MainStarts
  <2> QED
    BY <2>1 DEF IInv, Starts, MainStarts, GoodStart, TokenDropped
<1> QED
  BY <1>1, Invariance, PTL DEF Spec, TokenLostOnlyAfterFailedStart

----------------------------------------------------------------------------
(* The contract of a captcha solver.                                        *)

\* What the contract sees of a result, ...
Seen(r) == IF r \in {"none", "token"} THEN r ELSE "error"

\* ... and its variables, as ImplementsSolver maps them.
askedBar == {r \in Requests : Sent(r)}
solvedBar == {r \in Requests : AnsweredBy(r, "token")}
retBar == [r \in Requests |-> Seen(result[r])]

\* A step that sends no request, answers none and returns from none is not seen.
LEMMA Unseen ==
  ASSUME \A r \in Requests : (Sent(r)' <=> Sent(r)) /\ result'[r] = result[r], UNCHANGED answers
  PROVE  UNCHANGED Solver!vars
<1>1. askedBar' = askedBar
  BY DEF askedBar
<1>2. solvedBar' = solvedBar
  BY DEF solvedBar, AnsweredBy
<1>3. retBar' = retBar
  BY DEF retBar
<1> QED
  BY <1>2 DEF Solver!vars, solvedBar

\* A step inside a call, other than the sending of its request, is not seen.
LEMMA GotoUnseen ==
  ASSUME IInv, NEW c \in Callers, NEW label \in {"open", "flag", "publish", "solve", "connect",
                                                 "lock", "register", "send"},
         pc[c] \notin {"wait", "done"}, pc' = [pc EXCEPT ![c] = label], UNCHANGED <<result, answers>>
  PROVE  UNCHANGED Solver!vars
<1>1. \A r \in Requests : Sent(r)' <=> Sent(r)
  BY DEF Sent
<1> QED
  BY <1>1, Unseen

\* A call that returns gives a token or an error to a goroutine that has none;
\* its request stays asked.
LEMMA ReturnGives ==
  ASSUME IInv, NEW c \in Requests, NEW a \in {"token", "cancelled", "timeout", "error"},
         Return(c, a), UNCHANGED answers, pc[c] # "done",
         a = "error" <=> pc[c] # "wait",
         a = "token" => AnsweredBy(c, "token")
  PROVE  Solver!Next
<1>1. askedBar' = askedBar
  <2>1. \A r \in Requests : Sent(r)' <=> Sent(r)
    BY DEF IInv, TypeOK, Starts, Phases, Return, Sent
  <2> QED
    BY <2>1 DEF askedBar
<1>2. solvedBar' = solvedBar
  BY DEF solvedBar, AnsweredBy
<1>3. retBar' = [retBar EXCEPT ![c] = Seen(a)]
  BY DEF IInv, TypeOK, Return, retBar, Callers
<1>4. retBar[c] = "none"
  BY DEF IInv, Starts, Phases, retBar, Seen, Callers
<1>5. CASE a = "token"
  <2>1. c \in solvedBar /\ Seen(a) = "token"
    BY <1>5 DEF solvedBar, Seen
  <2>2. Solver!GiveToken(c)
    BY <1>1, <1>2, <1>3, <1>4, <2>1 DEF Solver!GiveToken, askedBar, solvedBar, retBar, Seen
  <2> QED
    BY <2>2 DEF Solver!Next
<1>6. CASE a # "token"
  <2>1. Seen(a) = "error"
    BY <1>6 DEF Seen
  <2>2. Solver!GiveError(c)
    BY <1>1, <1>2, <1>3, <1>4, <2>1 DEF Solver!GiveError, askedBar, solvedBar, retBar, Seen
  <2> QED
    BY <2>2 DEF Solver!Next
<1> QED
  BY <1>5, <1>6

\* The request is sent once.
LEMMA SendAsks == ASSUME IInv, NEW c \in Callers, Send(c) PROVE Solver!Next
<1>1. c \in Requests /\ ~Sent(c) /\ result[c] = "none"
  BY DEF IInv, Starts, MainStarts, Phases, Send, Sent, Callers
<1>2. askedBar' = askedBar \cup {c}
  BY <1>1 DEF IInv, TypeOK, Send, Goto, Sent, askedBar
<1>3. solvedBar' = solvedBar /\ retBar' = retBar
  BY DEF Send, Goto, peerVars, solvedBar, AnsweredBy, retBar
<1>4. c \notin askedBar /\ retBar[c] = "none"
  BY <1>1 DEF askedBar, retBar, Seen
<1>5. Solver!Ask(c)
  BY <1>2, <1>3, <1>4 DEF Solver!Ask, askedBar, solvedBar, retBar, Seen
<1> QED
  BY <1>1, <1>5 DEF Solver!Next

\* A token of the peer is the solution of one request that was sent; a
\* cancellation is not seen before it is delivered.
LEMMA AnswerSolves ==
  ASSUME NEW kind \in {"token", "cancel"}, NEW rs \in SUBSET Requests, Answer(kind, rs)
  PROVE  Solver!Next \/ UNCHANGED Solver!vars
<1>1. askedBar' = askedBar /\ retBar' = retBar
  BY DEF Answer, callVars, askedBar, Sent, retBar
<1>2. \A r \in Requests : AnsweredBy(r, "token")' <=>
                            AnsweredBy(r, "token") \/ (kind = "token" /\ r \in rs)
  <2> DEFINE m == [kind |-> kind, requests |-> rs]
  <2>1. answers' = answers \cup {m}
    BY DEF Answer
  <2>2. m.kind = kind /\ m.requests = rs
    OBVIOUS
  <2> HIDE DEF m
  <2> QED
    BY <2>1, <2>2 DEF AnsweredBy
<1>3. CASE kind = "token"
  <2> PICK r \in rs : rs = {r}
    BY <1>3 DEF Answer
  <2>1. r \in Requests /\ r \in askedBar
    BY DEF Answer, askedBar
  <2>2. solvedBar' = solvedBar \cup {r}
    BY <1>2, <1>3, <2>1 DEF solvedBar
  <2>3. Solver!Solve(r)
    BY <1>1, <2>1, <2>2 DEF Solver!Solve, askedBar, solvedBar, retBar, Seen
  <2> QED
    BY <2>1, <2>3 DEF Solver!Next
<1>4. CASE kind = "cancel"
  <2>1. solvedBar' = solvedBar
    BY <1>2, <1>4 DEF solvedBar
  <2> QED
    BY <1>1, <2>1 DEF Solver!vars, askedBar, solvedBar, retBar, Seen
<1> QED
  BY <1>3, <1>4

\* The steps of a call: it asks, it gives, or it is not seen.
LEMMA CallSeen ==
  ASSUME IInv, NEW c \in Callers, CallSteps(c)
  PROVE  Solver!Next \/ UNCHANGED Solver!vars
<1>1. CASE \/ CheckInitialized(c) \/ Connect(c) \/ Open(c) \/ SetInitialized(c)
           \/ Solve(c) \/ Lock(c) \/ Register(c)
  BY <1>1, GotoUnseen DEF CheckInitialized, Connect, Open, SetInitialized, Solve, Lock,
     Register, Goto, peerVars
<1>2. CASE ConnectFails(c) /\ c \in Requests
  BY <1>2, ReturnGives DEF ConnectFails, peerVars
<1>3. CASE SetService(c) /\ c \in Requests
  BY <1>3, CallAssumption, GotoUnseen DEF SetService, Goto, peerVars
<1>4. CASE (ConnectFails(c) \/ SetService(c)) /\ c = Main
  <2>1. \A r \in Requests : pc'[r] = pc[r] /\ result'[r] = result[r]
    BY <1>4, CallAssumption DEF IInv, TypeOK, ConnectFails, SetService, Return, Callers
  <2> QED
    BY <1>4, <2>1, Unseen DEF ConnectFails, SetService, peerVars, Sent
<1>5. CASE SolvePanics(c)
  BY <1>5, Unseen DEF SolvePanics, Panic, callVars, peerVars, Sent
<1>6. CASE Send(c)
  BY <1>6, SendAsks
<1>7. CASE TimeOut(c)
  BY <1>7, TimedAssumption, ReturnGives DEF TimeOut, peerVars
<1> QED
  BY <1>1, <1>2, <1>3, <1>4, <1>5, <1>6, <1>7 DEF CallSteps, Callers

\* The steps of a callback: it delivers, or it is not seen.
LEMMA CallbackSeen ==
  ASSUME IInv, CallbackSteps
  PROVE  Solver!Next \/ UNCHANGED Solver!vars
<1>1. CASE TokenSent
  <2>1. target \in Requests /\ AnsweredBy(target, "token")
    BY <1>1 DEF IInv, Callbacks, CallbackAgrees, TokenSent
  <2> QED
    BY <1>1, <2>1, ReturnGives DEF TokenSent, peerVars
<1>2. CASE CancelSent
  <2>1. target \in Requests
    BY <1>2 DEF IInv, Callbacks, CallbackAgrees, CancelSent
  <2> QED
    BY <1>2, <2>1, ReturnGives DEF CancelSent, peerVars
<1>3. CASE ~TokenSent /\ ~CancelSent
  <2>1. UNCHANGED <<callVars, answers>>
    BY <1>3 DEF CallbackSteps, Callback, TokenDropped, TokenLocked, TokenDeleted, CancelReads,
       CancelRaces, CancelEnds, Panic, peerVars
  <2> QED
    BY <2>1, Unseen DEF callVars, Sent
<1> QED
  BY <1>1, <1>2, <1>3

\* The AutoSolve client implements the contract of a captcha solver: each call
\* returns at most once, and a token only of an answer to its own request,
\* whatever fails, is cancelled, times out or starts at the same time.
THEOREM Refinement == Spec => ImplementsSolver
<1>1. Init => Solver!Init
  <2> SUFFICES ASSUME Init PROVE Solver!Init
    OBVIOUS
  <2>1. askedBar = {} /\ solvedBar = {} /\ retBar = [r \in Requests |-> "none"]
    BY DEF Init, askedBar, Sent, solvedBar, AnsweredBy, retBar, Seen, Callers
  <2> QED
    BY <2>1 DEF Solver!Init, askedBar, solvedBar, retBar, Seen
<1>2. IInv /\ [Next]_vars => [Solver!Next]_(Solver!vars)
  <2> SUFFICES ASSUME IInv, [Next]_vars
               PROVE  Solver!Next \/ UNCHANGED Solver!vars
    OBVIOUS
  <2>1. CASE PeerSteps
    BY <2>1, AnswerSolves DEF PeerSteps
  <2>2. CASE CallbackSteps
    BY <2>2, CallbackSeen
  <2>3. CASE \E c \in Callers : CallSteps(c)
    BY <2>3, CallSeen
  <2>4. CASE UNCHANGED vars
    BY <2>4, Unseen DEF vars, callVars, peerVars, Sent
  <2> QED
    BY <2>1, <2>2, <2>3, <2>4 DEF Next
<1> QED
  BY <1>1, <1>2, Invariance, PTL DEF Spec, ImplementsSolver, Solver!SolverSpec
==============================================================================
