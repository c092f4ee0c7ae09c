----------------------------- MODULE ImapProofs -----------------------------
(****************************************************************************)
(* The cursor of the mail reader skips no mail, and the cache answers with  *)
(* the newest one, for every number and kind of mails and addresses.        *)
(****************************************************************************)
EXTENDS Imap, TLAPS

\* The search between its answer and the last message.
Fetching == pc \in {"fetch", "receive"}

\* Nothing is known before Start has read the next uid, and no message is left
\* over from an earlier turn.
Beginning ==
  /\ pc \in {"idle", "open"} => first = 0 /\ lastUid = 0 /\ cache = EmptyCache
  /\ messages # {} => pc \in {"receive", "dead"}

\* The cursor lies between the start and the end of the mailbox.
CursorBetween == first <= lastUid /\ lastUid <= Len(mailbox) + 1

\* What was found has no gap up to its last number.
FoundComplete ==
  Fetching =>
    \A u \in Arrived :
      mailbox[u].wanted /\ lastUid <= u /\ (\E v \in found : u <= v) => u \in found

\* When only the last message is missing, the others have been looked into.
LastCompletes ==
  pc = "receive" =>
    \A l \in messages : IsLast(l) =>
      \A u \in found : lastUid <= u /\ u \notin messages => u \in processed

\* A fetch without an error delivers all that was found.
FetchCompletes ==
  pc = "receive" /\ ~fetchErr =>
    \A u \in found : u < lastUid \/ \E v \in messages : u <= v

\* What was looked into on this connection lies before the cursor, or before
\* every message of the batch that is still to come.
SeenBefore ==
  connected =>
    \A u \in seen :
      \/ u < lastUid
      \/ /\ pc \in {"receive", "dead"}
         /\ u \in found
         /\ \A v \in messages : u < v

IInv ==
  /\ TypeOK
  /\ Beginning
  /\ CursorBetween
  /\ FoundComplete
  /\ LastCompletes
  /\ FetchCompletes
  /\ SeenBefore
  /\ NoMailSkipped
  /\ AnswersAreNew
  /\ AnswerIsNewest


----------------------------------------------------------------------------
USE MaxUidAssumption, AddressAssumption, MailAssumption
USE DEF Fetching, Arrived, Uids, Get, EmptyCache, turn, history

\* At the start nothing has been looked into and nothing is cached.
LEMMA InitInv == Init => IInv
<1> SUFFICES ASSUME Init PROVE IInv
  OBVIOUS
<1>1. mailbox \in Seq(Mails) /\ Len(mailbox) <= MaxUid
  <2>1. CASE mailbox = <<>>
    BY <2>1
  <2>2. CASE \E m \in Mails : mailbox = <<m>>
    BY <2>2
  <2> QED
    BY <2>1, <2>2 DEF Init
<1>2. TypeOK
  <2>1. cache \in [Addresses -> {0} \cup Arrived]
    BY DEF Init
  <2>2. {lastUid, first} \subseteq 0 .. MaxUid + 1
    BY DEF Init
  <2>3. connected \in BOOLEAN /\ fetchErr \in BOOLEAN
    BY DEF Init
  <2>4. pc = "idle" /\ found = {} /\ messages = {} /\ processed = {} /\ seen = {}
    BY DEF Init
  <2> QED
    BY <1>1, <2>1, <2>2, <2>3, <2>4 DEF TypeOK
<1>3. AnswersAreNew
  BY DEF Init, AnswersAreNew
<1>4. NoMailSkipped
  <2> SUFFICES ASSUME NEW u \in Arrived, u < lastUid PROVE FALSE
    BY DEF NoMailSkipped
  <2> QED
    BY <1>1 DEF Init
<1> QED
  BY <1>1, <1>2, <1>3, <1>4 DEF Init, IInv, Beginning, CursorBetween,
      FoundComplete, LastCompletes, FetchCompletes, SeenBefore,
      AnswerIsNewest

\* A new connection empties the cache, and with it what the answers rest on.
LEMMA ConnectInv == IInv /\ Connect => IInv'
  BY DEF Connect, IInv, TypeOK, Beginning, CursorBetween, FoundComplete,
      LastCompletes, FetchCompletes, SeenBefore, NoMailSkipped,
      AnswersAreNew, AnswerIsNewest, IsLast, Answers

\* A refused connection leaves the reader unconnected, with all it had.
LEMMA ConnectFailsInv == IInv /\ ConnectFails => IInv'
  BY DEF ConnectFails, IInv, TypeOK, Beginning, CursorBetween, FoundComplete,
      LastCompletes, FetchCompletes, SeenBefore, NoMailSkipped,
      AnswersAreNew, AnswerIsNewest, IsLast, Answers

\* A reader that is connected goes on.
LEMMA StillConnectedInv == IInv /\ StillConnected => IInv'
  BY DEF StillConnected, IInv, TypeOK, Beginning, CursorBetween,
      FoundComplete, LastCompletes, FetchCompletes, SeenBefore,
      NoMailSkipped, AnswersAreNew, AnswerIsNewest, IsLast, Answers

\* The cursor begins behind the last mail of the mailbox.
LEMMA OpenInv == IInv /\ Open => IInv'
  BY DEF Open, IInv, TypeOK, Beginning, CursorBetween, FoundComplete,
      LastCompletes, FetchCompletes, SeenBefore, NoMailSkipped,
      AnswersAreNew, AnswerIsNewest, IsLast, Answers

\* The process ends at the first Select.
LEMMA OpenPanicsInv == IInv /\ OpenPanics => IInv'
  BY DEF OpenPanics, IInv, TypeOK, Beginning, CursorBetween, FoundComplete,
      LastCompletes, FetchCompletes, SeenBefore, NoMailSkipped,
      AnswersAreNew, AnswerIsNewest, IsLast, Answers

\* Selecting the mailbox changes nothing the invariant is about.
LEMMA SelectInv == IInv /\ Select => IInv'
  BY DEF Select, IInv, TypeOK, Beginning, CursorBetween, FoundComplete,
      LastCompletes, FetchCompletes, SeenBefore, NoMailSkipped,
      AnswersAreNew, AnswerIsNewest, IsLast, Answers

\* A failed Select loses the connection and no mail.
LEMMA SelectFailsInv == IInv /\ SelectFails => IInv'
  BY DEF SelectFails, IInv, TypeOK, Beginning, CursorBetween, FoundComplete,
      LastCompletes, FetchCompletes, SeenBefore, NoMailSkipped,
      AnswersAreNew, AnswerIsNewest, IsLast, Answers

\* The search finds every wanted mail from the cursor on.
LEMMA SearchInv == IInv /\ Search => IInv'
  BY DEF Search, Results, IInv, TypeOK, Beginning, CursorBetween,
      FoundComplete, LastCompletes, FetchCompletes, SeenBefore,
      NoMailSkipped, AnswersAreNew, AnswerIsNewest, IsLast, Answers

\* A failed search ends the turn.
LEMMA SearchFailsInv == IInv /\ SearchFails => IInv'
  BY DEF SearchFails, IInv, TypeOK, Beginning, CursorBetween, FoundComplete,
      LastCompletes, FetchCompletes, SeenBefore, NoMailSkipped,
      AnswersAreNew, AnswerIsNewest, IsLast, Answers

\* All that was found is still to be delivered.
LEMMA FetchInv == IInv /\ Fetch => IInv'
<1> SUFFICES ASSUME IInv, Fetch PROVE IInv'
  OBVIOUS
<1>1. TypeOK'
  BY DEF Fetch, IInv, TypeOK
<1>2. Beginning'
  BY DEF Fetch, IInv, TypeOK, Beginning
<1>3. CursorBetween'
  BY DEF Fetch, IInv, TypeOK, CursorBetween
<1>4. FoundComplete'
  BY DEF Fetch, IInv, TypeOK, FoundComplete
<1>5. LastCompletes'
  BY DEF Fetch, IInv, TypeOK, LastCompletes
<1>6. FetchCompletes'
  BY DEF Fetch, IInv, TypeOK, FetchCompletes
<1>7. SeenBefore'
  BY DEF Fetch, IInv, TypeOK, SeenBefore
<1>8. NoMailSkipped'
  BY DEF Fetch, IInv, TypeOK, NoMailSkipped
<1>9. AnswersAreNew'
  BY DEF Fetch, IInv, TypeOK, AnswersAreNew
<1>10. AnswerIsNewest'
  BY DEF Fetch, IInv, TypeOK, AnswerIsNewest, Answers
<1> QED
  BY <1>1, <1>2, <1>3, <1>4, <1>5, <1>6, <1>7, <1>8, <1>9, <1>10 DEF IInv

\* When the fetch stops early the last message is among the missing ones, or
\* none is.
LEMMA FetchFailsInv == IInv /\ FetchFails => IInv'
<1> SUFFICES ASSUME IInv, FetchFails PROVE IInv'
  OBVIOUS
<1>1. TypeOK'
  BY DEF FetchFails, IInv, TypeOK
<1>2. Beginning'
  BY DEF FetchFails, IInv, TypeOK, Beginning
<1>3. CursorBetween'
  BY DEF FetchFails, IInv, TypeOK, CursorBetween
<1>4. FoundComplete'
  BY DEF FetchFails, IInv, TypeOK, FoundComplete
<1>5. LastCompletes'
  BY DEF FetchFails, IInv, TypeOK, LastCompletes, IsLast, FoundComplete
<1>6. FetchCompletes'
  BY DEF FetchFails, IInv, TypeOK, FetchCompletes
<1>7. SeenBefore'
  BY DEF FetchFails, IInv, TypeOK, SeenBefore
<1>8. NoMailSkipped'
  BY DEF FetchFails, IInv, TypeOK, NoMailSkipped
<1>9. AnswersAreNew'
  BY DEF FetchFails, IInv, TypeOK, AnswersAreNew
<1>10. AnswerIsNewest'
  BY DEF FetchFails, IInv, TypeOK, AnswerIsNewest, Answers
<1> QED
  BY <1>1, <1>2, <1>3, <1>4, <1>5, <1>6, <1>7, <1>8, <1>9, <1>10 DEF IInv

\* What is looked into but not yet behind the cursor remains only after an
\* error, which takes the connection with it.
LEMMA FetchEndsInv == IInv /\ FetchEnds => IInv'
<1> SUFFICES ASSUME IInv, FetchEnds PROVE IInv'
  OBVIOUS
<1>1. TypeOK'
  BY DEF FetchEnds, IInv, TypeOK
<1>2. Beginning'
  BY DEF FetchEnds, IInv, TypeOK, Beginning
<1>3. CursorBetween'
  BY DEF FetchEnds, IInv, TypeOK, CursorBetween
<1>4. FoundComplete'
  BY DEF FetchEnds, IInv, TypeOK, FoundComplete
<1>5. LastCompletes'
  BY DEF FetchEnds, IInv, TypeOK, LastCompletes
<1>6. FetchCompletes'
  BY DEF FetchEnds, IInv, TypeOK, FetchCompletes
<1>7. SeenBefore'
  BY DEF FetchEnds, IInv, TypeOK, SeenBefore, FetchCompletes
<1>8. NoMailSkipped'
  BY DEF FetchEnds, IInv, TypeOK, NoMailSkipped
<1>9. AnswersAreNew'
  BY DEF FetchEnds, IInv, TypeOK, AnswersAreNew
<1>10. AnswerIsNewest'
  BY DEF FetchEnds, IInv, TypeOK, AnswerIsNewest, Answers
<1> QED
  BY <1>1, <1>2, <1>3, <1>4, <1>5, <1>6, <1>7, <1>8, <1>9, <1>10 DEF IInv

\* The last mail of the mailbox, found though it is older, is passed over.
LEMMA SkipOldInv == ASSUME NEW u, IInv, SkipOld(u) PROVE IInv'
<1>1. TypeOK'
  BY DEF SkipOld, Received, IsNew, IInv, TypeOK
<1>2. Beginning'
  BY DEF SkipOld, Received, IsNew, IInv, TypeOK, Beginning
<1>3. CursorBetween'
  BY DEF SkipOld, Received, IsNew, IInv, TypeOK, CursorBetween
<1>4. FoundComplete'
  BY DEF SkipOld, Received, IsNew, IInv, TypeOK, FoundComplete
<1>5. LastCompletes'
  BY DEF SkipOld, Received, IsNew, IInv, TypeOK, LastCompletes, IsLast
<1>6. FetchCompletes'
  BY DEF SkipOld, Received, IsNew, IInv, TypeOK, FetchCompletes
<1>7. SeenBefore'
  BY DEF SkipOld, Received, IsNew, IInv, TypeOK, SeenBefore
<1>8. NoMailSkipped'
  BY DEF SkipOld, Received, IsNew, IInv, TypeOK, NoMailSkipped
<1>9. AnswersAreNew'
  BY DEF SkipOld, Received, IsNew, IInv, TypeOK, AnswersAreNew
<1>10. AnswerIsNewest'
  BY DEF SkipOld, IInv, TypeOK, AnswerIsNewest, Answers
<1> QED
  BY <1>1, <1>2, <1>3, <1>4, <1>5, <1>6, <1>7, <1>8, <1>9, <1>10 DEF IInv

\* Messages come in ascending order: the cursor passes the last of a batch when
\* the others have been looked into, and the cache only moves to newer mails.
LEMMA ProcessInv == ASSUME NEW u, IInv, Process(u) PROVE IInv'
<1>1. TypeOK'
  BY DEF Process, Received, IsNew, Cursor, IInv, TypeOK
<1>2. Beginning'
  BY DEF Process, Received, IsNew, Cursor, IInv, TypeOK, Beginning
<1>3. CursorBetween'
  BY DEF Process, Received, IsNew, Cursor, IInv, TypeOK, CursorBetween
<1>4. FoundComplete'
  BY DEF Process, Received, IsNew, Cursor, IInv, TypeOK, FoundComplete
<1>5. LastCompletes'
  <2> SUFFICES ASSUME pc' = "receive", NEW l \in messages', IsLast(l)',
                      NEW w \in found', lastUid' <= w, w \notin messages'
               PROVE  w \in processed'
    BY DEF LastCompletes
  <2>1. ~IsLast(u)
    BY DEF Process, Received, IsLast, IInv, TypeOK
  <2>2. lastUid <= w /\ (w \in messages => w = u) /\ IsLast(l) /\ l \in messages
    BY <2>1 DEF Process, Cursor, IsLast
  <2> QED
    BY <2>2 DEF IInv, LastCompletes, Process
<1>6. FetchCompletes'
  BY DEF Process, Received, IsNew, Cursor, IInv, TypeOK, FetchCompletes,
      IsLast
<1>7. SeenBefore'
  BY DEF Process, Received, IsNew, Cursor, IInv, TypeOK, SeenBefore
<1>8. NoMailSkipped'
  BY DEF Process, Received, IsNew, Cursor, IInv, TypeOK, NoMailSkipped,
      IsLast, FoundComplete, LastCompletes
<1>9. AnswersAreNew'
  BY DEF Process, Received, IsNew, Cursor, IInv, TypeOK, AnswersAreNew,
      Answers, CursorBetween
<1>10. AnswerIsNewest'
  <2>1. /\ u \in Nat /\ u # 0 /\ connected' = connected
        /\ cache' = [a \in Addresses |-> IF Answers(u, a) THEN u ELSE cache[a]]
        /\ seen' = seen \cup {u}
    BY DEF Process, Received, IInv, TypeOK
  <2>2. \A w, a : Answers(w, a)' = Answers(w, a)
    BY DEF Process, Answers
  <2>3. ASSUME connected PROVE \A w \in seen : w < u
    BY <2>3 DEF Process, Received, IsNew, IInv, TypeOK, SeenBefore
  <2>4. ASSUME connected, NEW a \in Addresses
        PROVE  /\ cache[a] # 0 => cache[a] \in seen /\ Answers(cache[a], a)
               /\ \A w \in seen : Answers(w, a) => w <= cache[a]
    BY <2>4 DEF IInv, AnswerIsNewest
  <2>5. seen \subseteq Arrived
    BY DEF IInv, TypeOK
  <2> SUFFICES ASSUME connected, NEW a \in Addresses
               PROVE  /\ cache'[a] # 0 => cache'[a] \in seen' /\ Answers(cache'[a], a)
                      /\ \A w \in seen' : Answers(w, a) => w <= cache'[a]
    BY <2>1, <2>2 DEF AnswerIsNewest
  <2>6. CASE Answers(u, a)
    BY <2>1, <2>3, <2>5, <2>6
  <2>7. CASE ~Answers(u, a)
    BY <2>1, <2>4, <2>7
  <2> QED
    BY <2>6, <2>7
<1> QED
  BY <1>1, <1>2, <1>3, <1>4, <1>5, <1>6, <1>7, <1>8, <1>9, <1>10 DEF IInv

\* The process ends at a mail that cannot be read.
LEMMA ProcessDiesInv == ASSUME NEW u, IInv, ProcessDies(u) PROVE IInv'
  BY DEF ProcessDies, IInv, TypeOK, Beginning, CursorBetween, FoundComplete,
      LastCompletes, FetchCompletes, SeenBefore, NoMailSkipped,
      AnswersAreNew, AnswerIsNewest, IsLast, Answers

\* A mail that arrives lies behind the cursor and behind all that was found.
LEMMA ArriveInv == IInv /\ Arrive => IInv'
<1> SUFFICES ASSUME IInv, Arrive PROVE IInv'
  OBVIOUS
<1> PICK m \in Mails : mailbox' = Append(mailbox, m)
  BY DEF Arrive
<1>0. /\ mailbox' \in Seq(Mails) /\ Len(mailbox') = Len(mailbox) + 1
      /\ \A u \in Arrived : mailbox'[u] = mailbox[u]
      /\ Len(mailbox) \in Nat
      /\ lastUid \in Nat /\ first \in Nat /\ lastUid <= Len(mailbox) + 1
      /\ found \subseteq Arrived /\ messages \subseteq found
      /\ processed \subseteq Arrived /\ seen \subseteq processed
      /\ cache \in [Addresses -> {0} \cup Arrived]
  BY DEF IInv, TypeOK, CursorBetween
<1>1. TypeOK'
  BY <1>0 DEF Arrive, IInv, TypeOK
<1>2. Beginning'
  BY <1>0 DEF Arrive, IInv, TypeOK, Beginning
<1>3. CursorBetween'
  BY <1>0 DEF Arrive, IInv, TypeOK, CursorBetween
<1>4. FoundComplete'
  <2> SUFFICES ASSUME Fetching', NEW u \in Arrived', mailbox'[u].wanted,
                      lastUid' <= u, NEW v \in found', u <= v
               PROVE  u \in found'
    BY DEF FoundComplete
  <2>1. pc' = pc /\ found' = found /\ lastUid' = lastUid
    BY DEF Arrive
  <2>2. u \in Arrived
    BY <1>0, <2>1
  <2> QED
    BY <1>0, <2>1, <2>2 DEF IInv, FoundComplete
<1>5. LastCompletes'
  BY <1>0 DEF Arrive, IInv, TypeOK, LastCompletes, IsLast
<1>6. FetchCompletes'
  BY <1>0 DEF Arrive, IInv, TypeOK, FetchCompletes
<1>7. SeenBefore'
  BY <1>0 DEF Arrive, IInv, TypeOK, SeenBefore
<1>8. NoMailSkipped'
  <2> SUFFICES ASSUME pc' # "dead", NEW u \in Arrived', first' <= u,
                      u < lastUid', mailbox'[u].wanted
               PROVE  u \in processed'
    BY DEF NoMailSkipped
  <2>1. pc' = pc /\ first' = first /\ lastUid' = lastUid /\ processed' = processed
    BY DEF Arrive
  <2>2. u \in Arrived
    BY <1>0, <2>1
  <2> QED
    BY <1>0, <2>1, <2>2 DEF IInv, NoMailSkipped
<1>9. AnswersAreNew'
  <2> SUFFICES ASSUME NEW a \in Addresses, cache'[a] # 0
               PROVE  first' <= cache'[a] /\ Lower[mailbox'[cache'[a]].to] = a
    BY DEF AnswersAreNew
  <2>1. cache' = cache /\ first' = first /\ cache[a] \in Arrived
    BY <1>0 DEF Arrive
  <2> QED
    BY <1>0, <2>1 DEF IInv, AnswersAreNew
<1>10. AnswerIsNewest'
  <2>1. connected' = connected /\ cache' = cache /\ seen' = seen
    BY DEF Arrive
  <2>2. \A u \in Arrived, a \in Addresses : Answers(u, a)' = Answers(u, a)
    BY <1>0 DEF Answers
  <2>3. seen \subseteq Arrived
    BY <1>0
  <2> SUFFICES ASSUME connected, NEW a \in Addresses
               PROVE  /\ cache[a] # 0 => cache[a] \in seen /\ Answers(cache[a], a)'
                      /\ \A u \in seen : Answers(u, a)' => u <= cache[a]
    BY <2>1 DEF AnswerIsNewest
  <2> QED
    BY <1>0, <2>1, <2>2, <2>3 DEF IInv, AnswerIsNewest
<1> QED
  BY <1>1, <1>2, <1>3, <1>4, <1>5, <1>6, <1>7, <1>8, <1>9, <1>10 DEF IInv

\* Nothing happens.
LEMMA StutterInv == IInv /\ UNCHANGED vars => IInv'
  BY DEF vars, IInv, TypeOK, Beginning, CursorBetween, FoundComplete,
      LastCompletes, FetchCompletes, SeenBefore, NoMailSkipped,
      AnswersAreNew, AnswerIsNewest, IsLast, Answers

\* Every step keeps the inductive invariant.
LEMMA IInvStep == IInv /\ [Next]_vars => IInv'
<1> SUFFICES ASSUME IInv, [Next]_vars PROVE IInv'
  OBVIOUS
<1>1. CASE Connect
  BY <1>1, ConnectInv
<1>2. CASE Reads
  BY <1>2, SelectInv, SearchInv, FetchInv DEF Reads
<1>3. CASE Fails
  BY <1>3, ConnectFailsInv, OpenPanicsInv, SelectFailsInv, SearchFailsInv,
     FetchFailsInv DEF Fails
<1>4. CASE \E u \in messages : Handle(u)
  BY <1>4, SkipOldInv, ProcessInv, ProcessDiesInv DEF Handle
<1>5. CASE Local
  BY <1>4, <1>5, StillConnectedInv, OpenInv, FetchEndsInv DEF Local
<1>6. CASE Arrive
  BY <1>6, ArriveInv
<1>7. CASE UNCHANGED vars
  BY <1>7, StutterInv
<1> QED
  BY <1>1, <1>2, <1>3, <1>5, <1>6, <1>7 DEF Next

\* It holds in every state of every behaviour.
LEMMA Invariance == Spec => []IInv
<1> QED
  BY InitInv, IInvStep, PTL DEF Spec

----------------------------------------------------------------------------
\* Whatever mails arrive and whatever fails, the variables keep their types:
\* the uids in the cache and in the answers are those of mails that arrived.
THEOREM TypeCorrect == Spec => []TypeOK
<1>1. IInv => TypeOK
  BY DEF IInv
<1> QED
  BY <1>1, Invariance, PTL

\* Failed commands, aborted fetches and new connections make the reader fetch
\* mails again, and never pass one over.
THEOREM SkipsNoMail == Spec => []NoMailSkipped
<1>1. IInv => NoMailSkipped
  BY DEF IInv
<1> QED
  BY <1>1, Invariance, PTL

\* What Get returns came after Start and for the address that was asked for.
THEOREM NewAnswers == Spec => []AnswersAreNew
<1>1. IInv => AnswersAreNew
  BY DEF IInv
<1> QED
  BY <1>1, Invariance, PTL

\* While the connection holds, Get returns the newest code received on it.
THEOREM NewestAnswer == Spec => []AnswerIsNewest
<1>1. IInv => AnswerIsNewest
  BY DEF IInv
<1> QED
  BY <1>1, Invariance, PTL
=============================================================================
