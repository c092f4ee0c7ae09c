-------------------------------- MODULE Imap --------------------------------
(****************************************************************************)
(* The mail reader (pkg/imap/imap.go).  Start polls a mailbox for the mails *)
(* that arrived after it was called, looks for a code in each and caches it *)
(* under the addressee; Get reads the cache.  The loop runs in one          *)
(* goroutine; every command to the server may fail, and a failure is        *)
(* answered by a new connection, which brings a new and empty cache.        *)
(*                                                                          *)
(* The server and ristretto are not part of the repository: mails are       *)
(* numbered as they arrive and stay, a search answers "n:*" with the mails  *)
(* from n on and with the last mail in any case, a fetch delivers the mails *)
(* asked for in order or fails after some of them, and the cache holds what *)
(* was put in it.                                                           *)
(*                                                                          *)
(* A definition whose name starts with Faulty is the definition after it    *)
(* with a plausible mistake: no behaviour uses it, it shows that a property *)
(* notices the mistake.                                                     *)
(****************************************************************************)
EXTENDS Naturals, Sequences

CONSTANTS
  Mails,     \* the mails that may arrive: [to, wanted, parts, intact]
  Addresses, \* the addresses, in every spelling
  Lower,     \* the lower-case spelling of each address
  MaxUid     \* bound on the mails of the mailbox

ASSUME MaxUidAssumption == MaxUid \in Nat \ {0}
ASSUME AddressAssumption ==
  Lower \in [Addresses -> Addresses] /\ \A a \in Addresses : Lower[Lower[a]] = Lower[a]
\* wanted: the caller's criteria select it.  parts: which inline parts match
\* the caller's pattern.  intact: it has a body that can be read and a To.
ASSUME MailAssumption ==
  Mails \subseteq [to: Addresses, wanted: BOOLEAN, parts: Seq(BOOLEAN), intact: BOOLEAN]

VARIABLES
  mailbox,   \* the mails at the server; a mail's uid is its position
  connected, \* i.connected: the last command did not fail
  cache,     \* i.cache: the uid of the mail whose code is cached, 0 for none
  lastUid,   \* i.lastUid: the uid to search from
  pc,        \* where the goroutine of Start is
  found,     \* uids: the answer to the search
  messages,  \* those the fetch has still to deliver, in ascending order
  fetchErr,  \* the fetch ends with an error
  first,     \* history: the value lastUid began with
  processed, \* history: the mails that were looked into
  seen       \* history: those of them since the cache was made

vars == <<mailbox, connected, cache, lastUid, pc, found, messages, fetchErr,
          first, processed, seen>>
turn == <<found, messages, fetchErr>>
history == <<first, processed, seen>>

Uids == 1 .. MaxUid
Arrived == 1 .. Len(mailbox)
EmptyCache == [a \in Addresses |-> 0]

TypeOK ==
  /\ mailbox \in Seq(Mails) /\ Len(mailbox) <= MaxUid
  /\ connected \in BOOLEAN
  /\ cache \in [Addresses -> {0} \cup Arrived]
  /\ lastUid \in 0 .. MaxUid + 1
  /\ pc \in {"idle", "open", "turn", "select", "search", "fetch", "receive", "dead"}
  /\ found \subseteq Arrived /\ messages \subseteq found
  /\ fetchErr \in BOOLEAN
  /\ first \in 0 .. MaxUid + 1
  /\ processed \subseteq Arrived /\ seen \subseteq processed

\* New has connected, or has returned its error with the reader.
Init ==
  /\ mailbox \in {<<>>} \cup {<<m>> : m \in Mails}
  /\ connected \in BOOLEAN
  /\ cache = EmptyCache
  /\ lastUid = 0
  /\ pc = "idle"
  /\ found = {} /\ messages = {} /\ fetchErr = FALSE
  /\ first = 0 /\ processed = {} /\ seen = {}

\* What a caller gets for the address as it spells it.
Get(email) == cache[email]

----------------------------------------------------------------------------
(* Connecting, from Start and from the loop.                                *)

Connect ==
  /\ pc \in {"idle", "turn"} /\ ~connected
  /\ connected' = TRUE
  /\ cache' = EmptyCache
  /\ seen' = {}
  /\ pc' = IF pc = "idle" THEN "open" ELSE "select"
  /\ UNCHANGED <<mailbox, lastUid, turn, first, processed>>

FaultyConnectFails ==  \* the loop returns the error as well
  /\ pc \in {"idle", "turn"} /\ ~connected
  /\ pc' = "idle"
  /\ UNCHANGED <<mailbox, connected, cache, lastUid, turn, history>>

\* Start returns the error, and may be called again; the loop ignores it and
\* goes on with the client and the cache it had.
ConnectFails ==
  /\ pc \in {"idle", "turn"} /\ ~connected
  /\ pc' = IF pc = "idle" THEN "idle" ELSE "select"
  /\ UNCHANGED <<mailbox, connected, cache, lastUid, turn, history>>

StillConnected ==
  /\ pc \in {"idle", "turn"} /\ connected
  /\ pc' = IF pc = "idle" THEN "open" ELSE "select"
  /\ UNCHANGED <<mailbox, connected, cache, lastUid, turn, history>>

\* The next uid of the mailbox is where the search begins.
Open ==
  /\ pc = "open"
  /\ lastUid' = Len(mailbox) + 1
  /\ first' = Len(mailbox) + 1
  /\ pc' = "turn"
  /\ UNCHANGED <<mailbox, connected, cache, turn, processed, seen>>

\* The error of the first Select is not looked at, its status is.
OpenPanics ==
  /\ pc = "open"
  /\ pc' = "dead"
  /\ UNCHANGED <<mailbox, connected, cache, lastUid, turn, history>>

----------------------------------------------------------------------------
(* A turn of the loop.                                                      *)

Select ==
  /\ pc = "select"
  /\ pc' = "search"
  /\ UNCHANGED <<mailbox, connected, cache, lastUid, turn, history>>

SelectFails ==
  /\ pc = "select"
  /\ connected' = FALSE
  /\ pc' = "turn"
  /\ UNCHANGED <<mailbox, cache, lastUid, turn, history>>

\* The answer of the server to "UID lastUid:*" and the caller's criteria.
Results ==
  {u \in Arrived : mailbox[u].wanted /\ (u >= lastUid \/ u = Len(mailbox))}

\* The greatest number of the answer.
IsLast(u) == u \in found /\ \A v \in found : v <= u

FaultySearch ==  \* the cursor moves on when the mails are found
  /\ pc = "search"
  /\ found' = Results
  /\ lastUid' = IF Results = {} THEN lastUid ELSE Len(mailbox) + 1
  /\ pc' = IF Results = {} THEN "turn" ELSE "fetch"
  /\ UNCHANGED <<mailbox, connected, cache, messages, fetchErr, history>>

Search ==
  /\ pc = "search"
  /\ found' = Results
  /\ pc' = IF Results = {} THEN "turn" ELSE "fetch"
  /\ UNCHANGED <<mailbox, connected, cache, lastUid, messages, fetchErr, history>>

\* A search that fails has no results; it is no reason to connect again.
SearchFails ==
  /\ pc = "search"
  /\ pc' = "turn"
  /\ UNCHANGED <<mailbox, connected, cache, lastUid, turn, history>>

Fetch ==
  /\ pc = "fetch"
  /\ messages' = found
  /\ fetchErr' = FALSE
  /\ pc' = "receive"
  /\ UNCHANGED <<mailbox, connected, cache, lastUid, found, history>>

\* The connection is lost, or the server gives up, after some messages or all.
FetchFails ==
  /\ pc = "fetch"
  /\ messages' \in {{u \in found : u < n} : n \in 1 .. MaxUid + 1}
  /\ fetchErr' = TRUE
  /\ pc' = "receive"
  /\ UNCHANGED <<mailbox, connected, cache, lastUid, found, history>>

----------------------------------------------------------------------------
(* The messages of a fetch.                                                 *)

\* The next message the channel gives.
Received(u) ==
  /\ pc = "receive"
  /\ u \in messages /\ \A v \in messages : u <= v

FaultyIsNew(u) == TRUE  \* takes the answer of the server as it is
IsNew(u) == u >= lastUid

SkipOld(u) ==
  /\ Received(u)
  /\ ~IsNew(u)
  /\ messages' = messages \ {u}
  /\ UNCHANGED <<mailbox, connected, cache, lastUid, pc, found, fetchErr, history>>

FaultyCursor(u) == IF IsLast(u) THEN u + 2 ELSE lastUid  \* off by one
\* The cursor moves at the last message of the search, before it is looked into.
Cursor(u) == IF IsLast(u) THEN u + 1 ELSE lastUid

\* Leaving at the first match leaves the switch and not the loop over the
\* parts: the last inline part decides.
HasCode(parts) == parts # <<>> /\ parts[Len(parts)]

\* The mail with the number u has a code for the address a.
Answers(u, a) == HasCode(mailbox[u].parts) /\ Lower[mailbox[u].to] = a

Process(u) ==
  /\ Received(u)
  /\ IsNew(u)
  /\ mailbox[u].intact
  /\ lastUid' = Cursor(u)
  /\ cache' = [a \in Addresses |-> IF Answers(u, a) THEN u ELSE cache[a]]
  /\ processed' = processed \cup {u}
  /\ seen' = seen \cup {u}
  /\ messages' = messages \ {u}
  /\ UNCHANGED <<mailbox, connected, pc, found, fetchErr, first>>

\* No body, a part that cannot be read, no addressee: the process ends.
ProcessDies(u) ==
  /\ Received(u)
  /\ IsNew(u)
  /\ ~mailbox[u].intact
  /\ pc' = "dead"
  /\ UNCHANGED <<mailbox, connected, cache, lastUid, turn, history>>

FaultyFetchEnds ==  \* the error of the fetch is not taken for a lost connection
  /\ pc = "receive" /\ messages = {}
  /\ pc' = "turn"
  /\ UNCHANGED <<mailbox, connected, cache, lastUid, turn, history>>

FetchEnds ==
  /\ pc = "receive" /\ messages = {}
  /\ connected' = (connected /\ ~fetchErr)
  /\ pc' = "turn"
  /\ UNCHANGED <<mailbox, cache, lastUid, turn, history>>

----------------------------------------------------------------------------
\* The server (external).
Arrive ==
  /\ Len(mailbox) < MaxUid
  /\ pc # "dead"
  /\ mailbox' \in {Append(mailbox, m) : m \in Mails}
  /\ UNCHANGED <<connected, cache, lastUid, pc, turn, history>>

Reads == Select \/ Search \/ Fetch
Fails == ConnectFails \/ OpenPanics \/ SelectFails \/ SearchFails \/ FetchFails
Handle(u) == SkipOld(u) \/ Process(u) \/ ProcessDies(u)
Local == StillConnected \/ Open \/ FetchEnds \/ \E u \in messages : Handle(u)

Next == Connect \/ Reads \/ Fails \/ Local \/ Arrive

\* The loop never stops (nothing is ever sent on stopCh).  The network is not
\* down for ever: a command sent again and again succeeds at some time.
Fairness ==
  /\ WF_vars(Local)
  /\ WF_vars(pc # "idle" /\ (Connect \/ Reads \/ Fails))
  /\ SF_vars(pc = "turn" /\ Connect)
  /\ SF_vars(Select)
  /\ SF_vars(Search)
  /\ SF_vars(Fetch)

Spec == Init /\ [][Next]_vars /\ Fairness

----------------------------------------------------------------------------
(* Properties.                                                              *)

\* The cursor leaves no mail behind: every mail that arrived since Start and
\* lies before it was looked into, whatever failed in between.
NoMailSkipped ==
  pc # "dead" =>
    \A u \in Arrived : first <= u /\ u < lastUid /\ mailbox[u].wanted => u \in processed

\* Get answers with a mail that came after Start and was sent to the address
\* asked for: the last mail of the mailbox, which the search finds though it is
\* older, is not answered with.
AnswersAreNew ==
  \A a \in Addresses : Get(a) # 0 =>
    /\ first <= Get(a)
    /\ Lower[mailbox[Get(a)].to] = a

\* As long as no command failed, the answer for an address is the newest code
\* received since the connection was made: a batch that is fetched again after
\* it failed does not bring back an older one.
AnswerIsNewest ==
  connected =>
    \A a \in Addresses :
      /\ Get(a) # 0 => Get(a) \in seen /\ Answers(Get(a), a)
      /\ \A u \in seen : Answers(u, a) => u <= Get(a)

\* Every mail that arrives once Start has begun is looked into.
MailProcessed ==
  \A u \in Uids :
    (0 < first /\ first <= u /\ u \in Arrived /\ mailbox[u].wanted)
      ~> (u \in processed \/ pc = "dead")
==============================================================================
