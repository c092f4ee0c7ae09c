------------------------------- MODULE Akamai -------------------------------
(****************************************************************************)
(* The solvers of pkg/akamai.  One solver serves all tasks.  In every       *)
(* iteration a task gives it the url and the contents of the script of the  *)
(* page it has read, then asks it for sensor data until it is content.      *)
(* What a solver remembers between the calls lies in plain fields that the  *)
(* tasks read and write without a mutex (Relentless has one, and holds it   *)
(* in a part of a call).                                                    *)
(*                                                                          *)
(* A string is two words, the data and the length, stored and loaded one at *)
(* a time and in the order the compiler likes: a race mixes the halves of   *)
(* two strings.  A string with a length and no data kills the reader.       *)
(*                                                                          *)
(* The script of a page is named by the task and the round that read it.    *)
(* The services answer or fail (they are not part of the repository).       *)
(*                                                                          *)
(* A definition whose name starts with Faulty is the definition after it    *)
(* with a plausible mistake: no behaviour uses it, it shows that a property *)
(* notices the mistake.                                                     *)
(****************************************************************************)
EXTENDS Naturals

CONSTANTS
  Tasks,      \* the task handlers
  MaxRounds   \* bound on the iterations of a task

ASSUME MaxRoundsAssumption == MaxRounds \in Nat \ {0}

VARIABLES
  provider,    \* the solver main has chosen
  mem,         \* its fields scriptUrl, scriptContent(s), stringContentHash, baseUrl
               \* and userAgent
  config,      \* Relentless.config is not empty (only its length is ever read)
  mu,          \* Relentless.mu: the task that holds it, or Free
  initialized, \* Hawk.initialized
  known,       \* Hawk's service knows the script of a page
  pc,          \* where each task is
  round,       \* the iterations each task has begun
  half,        \* the words of the current load or store that are done
  reg,         \* the string each task has loaded for a request
  answer,      \* what generateConfig returns is not empty
  fetches,     \* history: the configs each task has fetched, up to 2 or a failure
  failed,      \* history: a config was not fetched, or was empty
  refused,     \* history: a service answered Hawk with something else
  panicked     \* the process has died

strings == <<mem, reg, half>>
relentless == <<config, mu, answer, fetches, failed>>
hawk == <<initialized, known, refused>>
vars == <<provider, strings, relentless, hawk, pc, round, panicked>>

Providers == {"flash", "fdis", "relentless", "hawk", "hyper", "solar"}
Cells == {"url", "contents", "hash", "base", "agent"}
Halves == {"data", "len"}
None == <<>>
Free == <<>>
Scripts == {None} \cup (Tasks \X (1 .. MaxRounds))
Strings == [Halves -> Scripts]
Empty == [h \in Halves |-> None]

\* A string whose text does not matter.
Text == <<CHOOSE t \in Tasks : TRUE, 1>>

Between == {"page", "call"}
Storing == {"setUrl", "setContents", "hashLoad", "hashStore", "setAgent"}
Calling == {"check", "setBase", "base", "url", "hash", "config", "lock", "recheck", "reread",
            "encode", "fetch", "keep", "init", "sum", "postSum", "body", "postBody", "flag", "agent",
            "post"}

TypeOK ==
  /\ provider \in Providers
  /\ mem \in [Cells -> Strings]
  /\ config \in BOOLEAN /\ mu \in {Free} \cup {<<t>> : t \in Tasks}
  /\ initialized \in BOOLEAN /\ known \in BOOLEAN
  /\ pc \in [Tasks -> Between \cup Storing \cup Calling]
  /\ round \in [Tasks -> 0 .. MaxRounds]
  /\ half \in [Tasks -> (SUBSET Halves) \ {Halves}]
  /\ reg \in [Tasks -> Strings]
  /\ answer \in [Tasks -> BOOLEAN] /\ fetches \in [Tasks -> 0 .. 2]
  /\ {failed, refused, panicked} \subseteq BOOLEAN

Init ==
  /\ provider \in Providers
  /\ mem = [c \in Cells |-> Empty]
  /\ config = FALSE /\ mu = Free
  /\ initialized = FALSE /\ known = FALSE
  /\ pc = [t \in Tasks |-> "page"]
  /\ round = [t \in Tasks |-> 0]
  /\ half = [t \in Tasks |-> {}]
  /\ reg = [t \in Tasks |-> Empty]
  /\ answer = [t \in Tasks |-> FALSE]
  /\ fetches = [t \in Tasks |-> 0]
  /\ failed = FALSE /\ refused = FALSE /\ panicked = FALSE

GoTo(t, labels) == pc' \in {[pc EXCEPT ![t] = l] : l \in labels}

\* The call of the solver is over; the task calls again or reads the page again.
Return(t) == GoTo(t, Between)

----------------------------------------------------------------------------
(* Words.                                                                   *)

LastHalf(t, h) == half[t] \cup {h} = Halves

DoHalf(t, h, labels) ==
  IF LastHalf(t, h) THEN half' = [half EXCEPT ![t] = {}] /\ GoTo(t, labels)
                    ELSE half' = [half EXCEPT ![t] = @ \cup {h}] /\ UNCHANGED pc

Store(t, cell, string, labels) ==
  \E h \in Halves \ half[t] :
    /\ mem' = [mem EXCEPT ![cell][h] = string]
    /\ DoHalf(t, h, labels)
    /\ UNCHANGED <<provider, relentless, hawk, round, reg, panicked>>

Load(t, cell, labels) ==
  \E h \in Halves \ half[t] :
    /\ reg' = [reg EXCEPT ![t][h] = mem[cell][h]]
    /\ DoHalf(t, h, labels)
    /\ panicked' = (LastHalf(t, h) /\ reg'[t].data = None /\ reg'[t].len # None)
    /\ UNCHANGED <<provider, relentless, hawk, round, mem>>

Only(t) == UNCHANGED <<provider, strings, hawk, round, panicked>>

----------------------------------------------------------------------------
(* What a task tells the solver.                                            *)

FaultyReadPage(t) ==  \* goes on to the script before it has the page
  /\ pc[t] = "page" /\ round[t] < MaxRounds
  /\ GoTo(t, {"setUrl"})
  /\ UNCHANGED <<provider, strings, relentless, hawk, round, panicked>>

\* An iteration begins; the page names the script.
ReadPage(t) ==
  /\ pc[t] = "page" /\ round[t] < MaxRounds
  /\ round' = [round EXCEPT ![t] = @ + 1]
  /\ GoTo(t, {"setUrl"})
  /\ UNCHANGED <<provider, strings, relentless, hawk, panicked>>

FaultyWithScriptUrl(t) ==  \* keeps the url it has
  /\ pc[t] = "setUrl"
  /\ IF provider \in {"flash", "fdis"} /\ mem.url = Empty
     THEN Store(t, "url", <<t, round[t]>>, {"setContents", "page"})
     ELSE /\ GoTo(t, {"setContents", "page"})
          /\ UNCHANGED <<provider, strings, relentless, hawk, round, panicked>>

\* Relentless and Hawk store an url nobody reads.  The page may turn out to lack
\* a cid, or the script may not be served.
WithScriptUrl(t) ==
  /\ pc[t] = "setUrl"
  /\ IF provider \in {"flash", "fdis"}
     THEN Store(t, "url", <<t, round[t]>>, {"setContents", "page"})
     ELSE /\ GoTo(t, {"setContents", "page"})
          /\ UNCHANGED <<provider, strings, relentless, hawk, round, panicked>>

\* Hyper goes on to the hash.
WithScriptContents(t) ==
  /\ pc[t] = "setContents"
  /\ CASE provider = "hyper" -> Store(t, "contents", <<t, round[t]>>, {"hashLoad"})
       [] provider \in {"relentless", "hawk"} -> Store(t, "contents", <<t, round[t]>>, {"call"})
       [] OTHER -> /\ GoTo(t, {"call"})
                   /\ UNCHANGED <<provider, strings, relentless, hawk, round, panicked>>

\* The field is read again, which another task may have written since.
LoadForHash(t) == pc[t] = "hashLoad" /\ Load(t, "contents", {"hashStore"})
\* The hash is named by the data it is the hash of.
StoreHash(t) == pc[t] = "hashStore" /\ Store(t, "hash", reg[t].data, {"call"})

\* GenerateUserAgent (the program does not call it).  Of what the solvers store
\* Hawk alone reads the field: a name its service has answered with.
GenerateUserAgent(t) ==
  /\ pc[t] = "call" /\ provider = "hawk"
  /\ GoTo(t, {"setAgent"})
  /\ UNCHANGED <<provider, strings, relentless, hawk, round, panicked>>

StoreAgent(t) == pc[t] = "setAgent" /\ Store(t, "agent", Text, {"call"})

----------------------------------------------------------------------------
(* GenerateSensorData: what each solver does first.                         *)

Entry == [flash |-> "url", fdis |-> "check", relentless |-> "config", hawk |-> "init",
          hyper |-> "hash", solar |-> "post"]

GenerateSensorData(t) ==
  /\ pc[t] = "call"
  /\ GoTo(t, {Entry[provider]})
  /\ Only(t) /\ UNCHANGED relentless

\* Flash and Fdis put the url into the request, Hyper the hash.
LoadUrl(t) == pc[t] = "url" /\ Load(t, "url", {"post"})
LoadHash(t) == pc[t] = "hash" /\ Load(t, "hash", {"post"})

\* The request for sensor data, answered or not.
Post(t) ==
  /\ pc[t] = "post"
  /\ Return(t)
  /\ reg' = [reg EXCEPT ![t] = Empty]
  /\ UNCHANGED <<provider, mem, half, hawk, relentless, round, panicked>>

----------------------------------------------------------------------------
(* Fdis: the base url of the first call is kept.                            *)

CheckBase(t) ==
  /\ pc[t] = "check"
  /\ GoTo(t, {IF mem.base.len = None THEN "setBase" ELSE "base"})
  /\ Only(t) /\ UNCHANGED relentless

StoreBase(t) == pc[t] = "setBase" /\ Store(t, "base", Text, {"base"})
LoadBase(t) == pc[t] = "base" /\ Load(t, "base", {"url"})

----------------------------------------------------------------------------
(* Relentless: the config of the first call is kept.                        *)

CheckConfig(t) ==
  /\ pc[t] = "config"
  /\ GoTo(t, {IF config THEN "post" ELSE "lock"})
  /\ Only(t) /\ UNCHANGED relentless

Lock(t) ==
  /\ pc[t] = "lock" /\ mu = Free
  /\ mu' = <<t>>
  /\ GoTo(t, {"recheck"})
  /\ Only(t) /\ UNCHANGED <<config, answer, fetches, failed>>

Recheck(t) ==
  /\ pc[t] = "recheck"
  /\ GoTo(t, {IF config THEN "reread" ELSE "encode"})
  /\ Only(t) /\ UNCHANGED relentless

FaultyReread(t) ==  \* returns none when another task was faster
  /\ pc[t] = "reread"
  /\ mu' = Free
  /\ GoTo(t, {"keep"})
  /\ Only(t) /\ UNCHANGED <<config, answer, fetches, failed>>

\* What is returned is read once more.
Reread(t) ==
  /\ pc[t] = "reread"
  /\ answer' = [answer EXCEPT ![t] = config]
  /\ mu' = Free
  /\ GoTo(t, {"keep"})
  /\ Only(t) /\ UNCHANGED <<config, fetches, failed>>

LoadForConfig(t) == pc[t] = "encode" /\ Load(t, "contents", {"fetch"})

FetchConfig(t) ==
  /\ pc[t] = "fetch"
  /\ answer' = [answer EXCEPT ![t] = TRUE]
  /\ fetches' = [fetches EXCEPT ![t] = IF @ < 2 /\ ~failed THEN @ + 1 ELSE @]
  /\ mu' = Free
  /\ GoTo(t, {"keep"})
  /\ Only(t) /\ UNCHANGED <<config, failed>>

FaultyFetchConfigFails(t) ==  \* returns without giving the mutex back
  /\ pc[t] = "fetch"
  /\ answer' = [answer EXCEPT ![t] = FALSE]
  /\ failed' = TRUE
  /\ GoTo(t, {"keep"})
  /\ Only(t) /\ UNCHANGED <<config, fetches, mu>>

\* An empty config is like none.
FetchConfigFails(t) ==
  /\ pc[t] = "fetch"
  /\ answer' = [answer EXCEPT ![t] = FALSE]
  /\ failed' = TRUE
  /\ mu' = Free
  /\ GoTo(t, {"keep"})
  /\ Only(t) /\ UNCHANGED <<config, fetches>>

FaultyKeepConfig(t) ==  \* forgets to keep it
  /\ pc[t] = "keep"
  /\ GoTo(t, {"post"})
  /\ Only(t) /\ UNCHANGED relentless

\* Outside the mutex, and whatever became of the error.
KeepConfig(t) ==
  /\ pc[t] = "keep"
  /\ config' = answer[t]
  /\ answer' = [answer EXCEPT ![t] = FALSE]
  /\ GoTo(t, {"post"})
  /\ Only(t) /\ UNCHANGED <<mu, fetches, failed>>

----------------------------------------------------------------------------
(* Hawk: the script is made known once, by the first call.                  *)

HawkOnly(t) == UNCHANGED <<provider, strings, relentless, round, panicked>>

CheckInitialized(t) ==
  /\ pc[t] = "init"
  /\ GoTo(t, {IF initialized THEN "agent" ELSE "sum"})
  /\ HawkOnly(t) /\ UNCHANGED hawk

LoadForSum(t) == pc[t] = "sum" /\ Load(t, "contents", {"postSum"})

FaultySumUnknown(t) ==  \* flags the script before it is sent
  /\ pc[t] = "postSum"
  /\ initialized' = TRUE
  /\ GoTo(t, {"body"})
  /\ HawkOnly(t) /\ UNCHANGED <<known, refused>>

SumUnknown(t) ==
  /\ pc[t] = "postSum"
  /\ GoTo(t, {"body"})
  /\ HawkOnly(t) /\ UNCHANGED hawk

\* Every answer but "false" is taken for yes.
SumKnown(t) ==
  /\ pc[t] = "postSum"
  /\ \/ known' = TRUE /\ UNCHANGED refused
     \/ refused' = TRUE /\ UNCHANGED known
  /\ GoTo(t, {"flag"})
  /\ HawkOnly(t) /\ UNCHANGED initialized

LoadForBody(t) == pc[t] = "body" /\ Load(t, "contents", {"postBody"})

\* The answer is printed and not looked at.
BodySent(t) ==
  /\ pc[t] = "postBody"
  /\ \/ known' = TRUE /\ UNCHANGED refused
     \/ refused' = TRUE /\ UNCHANGED known
  /\ GoTo(t, {"flag"})
  /\ HawkOnly(t) /\ UNCHANGED initialized

InitializeFails(t) ==
  /\ pc[t] \in {"postSum", "postBody"}
  /\ Return(t)
  /\ HawkOnly(t) /\ UNCHANGED hawk

SetInitialized(t) ==
  /\ pc[t] = "flag"
  /\ initialized' = TRUE
  /\ GoTo(t, {"agent"})
  /\ HawkOnly(t) /\ UNCHANGED <<known, refused>>

\* The request names the user agent, or none.
LoadAgent(t) == pc[t] = "agent" /\ Load(t, "agent", {"post"})

----------------------------------------------------------------------------
Setters(t) ==
  \/ WithScriptUrl(t) \/ WithScriptContents(t) \/ LoadForHash(t) \/ StoreHash(t)
  \/ GenerateUserAgent(t) \/ StoreAgent(t)
FdisSteps(t) == CheckBase(t) \/ StoreBase(t) \/ LoadBase(t)
RelentlessSteps(t) ==
  \/ CheckConfig(t) \/ Lock(t) \/ Recheck(t) \/ Reread(t) \/ LoadForConfig(t)
  \/ FetchConfig(t) \/ FetchConfigFails(t) \/ KeepConfig(t)
HawkSteps(t) ==
  \/ CheckInitialized(t) \/ LoadForSum(t) \/ SumUnknown(t) \/ SumKnown(t)
  \/ LoadForBody(t) \/ BodySent(t) \/ InitializeFails(t) \/ SetInitialized(t)
  \/ LoadAgent(t)
TaskSteps(t) ==
  \/ ReadPage(t) \/ Setters(t)
  \/ GenerateSensorData(t) \/ LoadUrl(t) \/ LoadHash(t) \/ Post(t)
  \/ FdisSteps(t) \/ RelentlessSteps(t) \/ HawkSteps(t)

Next == ~panicked /\ \E t \in Tasks : TaskSteps(t)

\* Goroutines are scheduled, every request is answered or fails (the code sets
\* no timeout), and a mutex is handed over to the longest waiter.
Fairness ==
  \A t \in Tasks : WF_vars(~panicked /\ TaskSteps(t)) /\ SF_vars(~panicked /\ Lock(t))

Spec == Init /\ [][Next]_vars /\ Fairness

----------------------------------------------------------------------------
(* Properties.                                                              *)

\* A request that is about to be sent with a string of the shared fields.
Sending(t) ==
  \/ pc[t] \in {"fetch", "postSum", "postBody"}
  \/ pc[t] = "post" /\ provider \in {"flash", "fdis", "hyper"}

\* What a request names as the script is never empty, and no word of it comes
\* from a page its task has read before the current one: it is the script of
\* the current page, or one another task has stored since.  (Hyper does not keep
\* the second half: see the README.)
SendsCurrentScript ==
  \A t \in Tasks : Sending(t) =>
    \A h \in Halves :
      /\ reg[t][h] # None
      /\ provider # "hyper" /\ reg[t][h][1] = t => reg[t][h][2] = round[t]

\* A string with a length and no data can only be met in the fields that are
\* stored once in a while by some call, the base url of Fdis and the user agent of
\* Hawk: the others are read by tasks that have stored them themselves.
OnlyLazyFieldsPanic ==
  [][panicked' => \E t \in Tasks : pc[t] \in {"base", "agent"}]_vars

\* As long as no fetch failed, no task fetches the config of Relentless twice
\* (two tasks may both fetch it: it is stored outside the mutex).
ConfigFetchedOnce == ~failed => \A t \in Tasks : fetches[t] <= 1

\* A config that is kept is lost only after a fetch of some task has failed: what a
\* task stores late, outside the mutex, over what another has kept is as good.
ConfigLostOnlyAfterFailure == [][config /\ ~config' => failed]_vars

\* Hawk asks for sensor data once its service knows a script, unless the service
\* has given an answer the code does not look at.
InitializedMeansKnown == initialized => known \/ refused

\* Every call of a solver returns: none waits for the mutex for ever.
CallsReturn ==
  \A t \in Tasks : pc[t] \in Calling ~> (pc[t] \in Between \/ panicked)
==============================================================================
