----------------------------- MODULE AkamaiProofs -----------------------------
(****************************************************************************)
(* The Akamai solvers, for every number of tasks and rounds: what the       *)
(* requests name as the script although the words of the shared strings mix,*)
(* how often Relentless fetches its config, what Hawk knows when it asks,   *)
(* and where a torn string can be met.                                      *)
(****************************************************************************)
EXTENDS Akamai, TLAPS

UrlProviders == {"flash", "fdis"}
ContentsProviders == {"relentless", "hawk", "hyper"}

\* Where a task can be in the solver that was chosen.
Places ==
  [flash |-> {"url"},
   fdis |-> {"check", "setBase", "base", "url"},
   relentless |-> {"config", "lock", "recheck", "reread", "encode", "fetch", "keep"},
   hawk |-> {"setAgent", "init", "sum", "postSum", "body", "postBody", "flag", "agent"},
   hyper |-> {"hashLoad", "hashStore", "hash"},
   solar |-> {}]

\* Where it loads or stores a string, word by word.
Wording(p) ==
  {"hashLoad", "hashStore", "setAgent", "setBase", "base", "url", "hash", "encode", "sum", "body",
   "agent"}
    \cup (IF p \in UrlProviders THEN {"setUrl"} ELSE {})
    \cup (IF p \in ContentsProviders THEN {"setContents"} ELSE {})

\* A task is in the solver that was chosen, has begun an iteration unless it is
\* about to, and is in the middle of a string only where it loads or stores one.
InPlace ==
  \A t \in Tasks :
    /\ pc[t] \in {"page", "setUrl", "setContents", "call", "post"} \cup Places[provider]
    /\ pc[t] # "page" => round[t] # 0
    /\ half[t] # {} => pc[t] \in Wording(provider)

\* A word that is not empty, and not from a page t has read before its current.
Current(t, word) == word # None /\ (word[1] = t => word[2] = round[t])

\* A word that a task stores of its page is current until it reads the next,
\* whatever others store meanwhile.
CellsCurrent ==
  \A t \in Tasks :
    /\ provider \in UrlProviders =>
         \A h \in Halves :
           \/ pc[t] = "page"
           \/ pc[t] = "setUrl" /\ h \notin half[t]
           \/ Current(t, mem.url[h])
    /\ provider \in ContentsProviders =>
         \A h \in Halves :
           \/ pc[t] \in {"page", "setUrl"}
           \/ pc[t] = "setContents" /\ h \notin half[t]
           \/ Current(t, mem.contents[h])

\* The hash is there when the task has stored one.
HashStored ==
  \A t \in Tasks : provider = "hyper" =>
    \A h \in Halves :
      \/ pc[t] \in {"page", "setUrl", "setContents", "hashLoad"}
      \/ pc[t] = "hashStore" /\ h \notin half[t]
      \/ mem.hash[h] # None

\* What a task has loaded for a request, word by word and then as a whole.
LoadsCurrent ==
  \A t \in Tasks : \A h \in Halves :
    /\ \/ pc[t] \in {"hashLoad", "url", "encode", "sum", "body"} /\ h \in half[t]
       \/ pc[t] \in {"hashStore", "fetch", "postSum", "postBody"}
       \/ pc[t] = "post" /\ provider \in UrlProviders
       => Current(t, reg[t][h])
    /\ \/ pc[t] = "hash" /\ h \in half[t]
       \/ pc[t] = "post" /\ provider = "hyper"
       => reg[t][h] # None

Words == InPlace /\ CellsCurrent /\ HashStored /\ LoadsCurrent

\* Until a fetch fails, a config that is kept is not lost, so who has fetched one
\* meets it.
ConfigStays ==
  ~failed => \A t \in Tasks :
    /\ pc[t] = "reread" => config
    /\ pc[t] = "keep" => answer[t]
    /\ fetches[t] # 0 => config \/ pc[t] = "keep"
    /\ pc[t] \in {"encode", "fetch"} => fetches[t] = 0
    /\ fetches[t] <= 1

\* The flag goes up after an answer.
FlagAfterAnswer ==
  \A t \in Tasks : pc[t] = "flag" => known \/ refused

History == ConfigStays /\ FlagAfterAnswer /\ InitializedMeansKnown

IInv == TypeOK /\ Words /\ History

----------------------------------------------------------------------------
(* Words.                                                                   *)

\* Where a task is, by the solver.
LEMMA PlacesOf ==
  /\ Places["flash"] = {"url"} /\ Places["fdis"] = {"check", "setBase", "base", "url"}
  /\ Places["relentless"] = {"config", "lock", "recheck", "reread", "encode", "fetch", "keep"}
  /\ Places["hawk"] = {"setAgent", "init", "sum", "postSum", "body", "postBody", "flag", "agent"}
  /\ Places["hyper"] = {"hashLoad", "hashStore", "hash"} /\ Places["solar"] = {}
BY DEF Places

\* The script of a page is current for every task: for the one that has read the
\* page because it is the current page, for the others because it is not theirs.
LEMMA OwnScript ==
  ASSUME TypeOK, NEW t \in Tasks, round[t] # 0
  PROVE  /\ <<t, round[t]>> \in Scripts
         /\ \A u \in Tasks : Current(u, <<t, round[t]>>)
BY MaxRoundsAssumption DEF TypeOK, Scripts, None, Current

\* A text is a word that is not empty.
LEMMA TextWord == ASSUME NEW t \in Tasks PROVE Text \in Scripts
BY MaxRoundsAssumption DEF Text, Scripts

\* What is current stays so until the task reads its next page.
LEMMA StaysCurrent ==
  ASSUME NEW t \in Tasks, round'[t] = round[t], NEW word
  PROVE  Current(t, word)' <=> Current(t, word)
BY DEF Current

\* What is current is not empty.
LEMMA CurrentThere == ASSUME NEW t, NEW word, Current(t, word) PROVE word # None
BY DEF Current

\* A word done is the last, and the task goes on, or it is the first.
LEMMA HalfDone ==
  ASSUME TypeOK, NEW t \in Tasks, NEW h \in Halves \ half[t], NEW labels, DoHalf(t, h, labels)
  PROVE  \/ /\ half[t] \cup {h} = Halves /\ half' = [half EXCEPT ![t] = {}]
            /\ \E l \in labels : pc' = [pc EXCEPT ![t] = l]
         \/ /\ half[t] = {} /\ half' = [half EXCEPT ![t] = {h}]
            /\ UNCHANGED pc
BY DEF TypeOK, DoHalf, LastHalf, GoTo, Halves

\* The words that are stored: each task stores its own script, and what it stores
\* of it is current, for itself and for the others.
LEMMA StoreWords ==
  ASSUME TypeOK, Words, NEW t \in Tasks, NEW cell \in Cells, NEW string, NEW labels,
         Store(t, cell, string, labels),
         \/ /\ pc[t] = "setUrl" /\ cell = "url" /\ provider \in UrlProviders
            /\ string = <<t, round[t]>> /\ labels = {"setContents", "page"}
         \/ /\ pc[t] = "setContents" /\ cell = "contents" /\ provider \in ContentsProviders
            /\ string = <<t, round[t]>>
            /\ labels = IF provider = "hyper" THEN {"hashLoad"} ELSE {"call"}
         \/ /\ pc[t] = "hashStore" /\ cell = "hash" /\ string = reg[t].data /\ labels = {"call"}
         \/ pc[t] = "setAgent" /\ cell = "agent" /\ string = Text /\ labels = {"call"}
         \/ pc[t] = "setBase" /\ cell = "base" /\ string = Text /\ labels = {"base"}
  PROVE  TypeOK' /\ Words'
<1> USE PlacesOf DEF UrlProviders, ContentsProviders
<1>1. PICK h \in Halves \ half[t] :
      /\ mem' = [mem EXCEPT ![cell][h] = string]
      /\ DoHalf(t, h, labels)
      /\ UNCHANGED <<provider, relentless, hawk, round, reg, panicked>>
  BY DEF Store
<1>2. \/ /\ half[t] \cup {h} = Halves /\ half' = [half EXCEPT ![t] = {}]
         /\ \E l \in labels : pc' = [pc EXCEPT ![t] = l]
      \/ /\ half[t] = {} /\ half' = [half EXCEPT ![t] = {h}]
         /\ UNCHANGED pc
  BY <1>1, HalfDone
<1>3. /\ string \in Scripts
      /\ cell \in {"url", "contents"} => \A u \in Tasks : Current(u, string)
      /\ cell = "hash" => string # None
  <2>1. CASE cell \in {"url", "contents"}
    BY <2>1, OwnScript DEF Words, InPlace
  <2>2. CASE cell = "hash"
    <3>1. reg[t].data \in Scripts
      BY DEF TypeOK, Strings, Halves
    <3>2. Current(t, reg[t].data)
      BY <2>2 DEF Words, LoadsCurrent, Halves
    <3> QED
      BY <2>2, <3>1, <3>2, CurrentThere
  <2>3. CASE cell \in {"agent", "base"}
    BY <2>3, TextWord
  <2> QED
    BY <2>1, <2>2, <2>3 DEF Cells
<1>4. \A c \in Cells : \A g \in Halves :
        mem'[c][g] = IF c = cell /\ g = h THEN string ELSE mem[c][g]
  BY <1>1 DEF TypeOK, Strings
<1>5. /\ \A u \in Tasks : u # t => pc'[u] = pc[u] /\ half'[u] = half[u]
      /\ \/ half'[t] = {} /\ pc'[t] \in labels /\ \A g \in Halves : g = h \/ g \in half[t]
         \/ half'[t] = {h} /\ half[t] = {} /\ pc'[t] = pc[t]
  BY <1>2 DEF TypeOK
<1>6. TypeOK'
  <2>1. mem' \in [Cells -> Strings]
    BY <1>1, <1>3 DEF TypeOK, Strings
  <2>2. half' \in [Tasks -> (SUBSET Halves) \ {Halves}]
    BY <1>2 DEF TypeOK, Halves
  <2>3. pc' \in [Tasks -> Between \cup Storing \cup Calling]
    BY <1>2 DEF TypeOK, Between, Storing, Calling
  <2> QED
    BY <1>1, <2>1, <2>2, <2>3 DEF TypeOK, relentless, hawk
<1>7. InPlace'
  <2>1. provider \in Providers
    BY DEF TypeOK
  <2>2. pc'[t] \in {"page", "setUrl", "setContents", "call", "post"} \cup Places[provider]
    BY <1>5, <2>1 DEF Words, InPlace, Providers
  <2>3. pc[t] \in Wording(provider)
    BY <2>1 DEF Wording
  <2> QED
    BY <1>1, <1>5, <2>2, <2>3 DEF Words, InPlace
<1>8. \A u \in Tasks : \A word : Current(u, word)' <=> Current(u, word)
  BY <1>1, StaysCurrent
<1>9. CellsCurrent'
  <2> SUFFICES ASSUME NEW u \in Tasks, NEW g \in Halves
               PROVE  /\ provider \in UrlProviders =>
                           \/ pc'[u] = "page"
                           \/ pc'[u] = "setUrl" /\ g \notin half'[u]
                           \/ Current(u, mem'["url"][g])
                      /\ provider \in ContentsProviders =>
                           \/ pc'[u] \in {"page", "setUrl"}
                           \/ pc'[u] = "setContents" /\ g \notin half'[u]
                           \/ Current(u, mem'["contents"][g])
    BY <1>1, <1>8 DEF CellsCurrent
  <2>1. /\ provider \in UrlProviders =>
             \/ pc[u] = "page"
             \/ pc[u] = "setUrl" /\ g \notin half[u]
             \/ Current(u, mem["url"][g])
        /\ provider \in ContentsProviders =>
             \/ pc[u] \in {"page", "setUrl"}
             \/ pc[u] = "setContents" /\ g \notin half[u]
             \/ Current(u, mem["contents"][g])
    BY DEF Words, CellsCurrent
  <2>2. /\ mem'["url"][g] = IF cell = "url" /\ g = h THEN string ELSE mem["url"][g]
        /\ mem'["contents"][g] = IF cell = "contents" /\ g = h THEN string ELSE mem["contents"][g]
    BY <1>4 DEF Cells
  <2>3. CASE u # t
    BY <1>3, <1>5, <2>1, <2>2, <2>3
  <2>4. CASE u = t
    BY <1>3, <1>5, <2>1, <2>2, <2>4
  <2> QED
    BY <2>3, <2>4
<1>10. HashStored'
  BY <1>1, <1>3, <1>4, <1>5 DEF Words, HashStored, InPlace, Cells
<1>11. LoadsCurrent'
  <2>1. \A u \in Tasks : \A g \in Halves : reg'[u][g] = reg[u][g]
    BY <1>1
  <2> QED
    BY <1>1, <1>5, <1>8, <2>1 DEF Words, LoadsCurrent, InPlace
<1> QED
  BY <1>6, <1>7, <1>9, <1>10, <1>11 DEF Words

\* The words that are loaded: a task that loads its script or the hash has stored
\* it, so no word of it is empty, and of its own only the current one is there.
LEMMA LoadWords ==
  ASSUME TypeOK, Words, NEW t \in Tasks, NEW cell \in Cells, NEW label, Load(t, cell, {label}),
         \/ pc[t] = "hashLoad" /\ cell = "contents" /\ label = "hashStore"
         \/ pc[t] = "encode" /\ cell = "contents" /\ label = "fetch"
         \/ pc[t] = "sum" /\ cell = "contents" /\ label = "postSum"
         \/ pc[t] = "body" /\ cell = "contents" /\ label = "postBody"
         \/ pc[t] = "url" /\ cell = "url" /\ label = "post"
         \/ pc[t] = "hash" /\ cell = "hash" /\ label = "post"
         \/ pc[t] = "base" /\ cell = "base" /\ label = "url"
         \/ pc[t] = "agent" /\ cell = "agent" /\ label = "post"
  PROVE  TypeOK' /\ Words' /\ (panicked' => pc[t] \in {"base", "agent"})
<1> USE PlacesOf DEF UrlProviders, ContentsProviders
<1>1. PICK h \in Halves \ half[t] :
      /\ reg' = [reg EXCEPT ![t][h] = mem[cell][h]]
      /\ DoHalf(t, h, {label})
      /\ panicked' = (LastHalf(t, h) /\ reg'[t].data = None /\ reg'[t].len # None)
      /\ UNCHANGED <<provider, relentless, hawk, round, mem>>
  BY DEF Load
<1>2. \/ /\ half[t] \cup {h} = Halves /\ half' = [half EXCEPT ![t] = {}]
         /\ pc' = [pc EXCEPT ![t] = label]
      \/ /\ half[t] = {} /\ half' = [half EXCEPT ![t] = {h}]
         /\ UNCHANGED pc
  BY <1>1, HalfDone
<1>3. /\ mem[cell][h] \in Scripts
      /\ \A u \in Tasks : \A g \in Halves :
           reg'[u][g] = IF u = t /\ g = h THEN mem[cell][h] ELSE reg[u][g]
  BY <1>1 DEF TypeOK, Strings
<1>4. /\ \A u \in Tasks : u # t => pc'[u] = pc[u] /\ half'[u] = half[u]
      /\ \/ half'[t] = {} /\ pc'[t] = label /\ \A g \in Halves : g = h \/ g \in half[t]
         \/ half'[t] = {h} /\ half[t] = {} /\ pc'[t] = pc[t]
  BY <1>2 DEF TypeOK
<1>5. TypeOK'
  <2>1. reg' \in [Tasks -> Strings]
    BY <1>1, <1>3 DEF TypeOK, Strings
  <2>2. half' \in [Tasks -> (SUBSET Halves) \ {Halves}]
    BY <1>2 DEF TypeOK, Halves
  <2>3. pc' \in [Tasks -> Between \cup Storing \cup Calling]
    BY <1>2 DEF TypeOK, Between, Storing, Calling
  <2>4. panicked' \in BOOLEAN
    BY <1>1
  <2> QED
    BY <1>1, <2>1, <2>2, <2>3, <2>4 DEF TypeOK, relentless, hawk
<1>6. provider \in Providers /\ pc[t] \in Places[provider]
  BY DEF TypeOK, Words, InPlace
<1>7. InPlace'
  <2>1. label \in {"page", "setUrl", "setContents", "call", "post"} \cup Places[provider]
    BY <1>6 DEF Providers
  <2>2. pc[t] \in Wording(provider)
    BY DEF Wording
  <2> QED
    BY <1>1, <1>4, <2>1, <2>2 DEF Words, InPlace
<1>8. \A u \in Tasks : \A word : Current(u, word)' <=> Current(u, word)
  BY <1>1, StaysCurrent
<1>9. CellsCurrent'
  BY <1>1, <1>4, <1>8 DEF Words, CellsCurrent
<1>10. HashStored'
  BY <1>1, <1>4 DEF Words, HashStored
<1>11. /\ cell \in {"url", "contents"} => Current(t, mem[cell][h])
       /\ cell = "hash" => mem[cell][h] # None
  BY <1>6 DEF Words, CellsCurrent, HashStored, Providers
<1>12. LoadsCurrent'
  <2> SUFFICES ASSUME NEW u \in Tasks, NEW g \in Halves
               PROVE  /\ \/ /\ pc'[u] \in {"hashLoad", "url", "encode", "sum", "body"}
                            /\ g \in half'[u]
                         \/ pc'[u] \in {"hashStore", "fetch", "postSum", "postBody"}
                         \/ pc'[u] = "post" /\ provider \in {"flash", "fdis"}
                         => Current(u, reg'[u][g])
                      /\ \/ pc'[u] = "hash" /\ g \in half'[u]
                         \/ pc'[u] = "post" /\ provider = "hyper"
                         => reg'[u][g] # None
    BY <1>1, <1>8 DEF LoadsCurrent
  <2>1. /\ \/ pc[u] \in {"hashLoad", "url", "encode", "sum", "body"} /\ g \in half[u]
           \/ pc[u] \in {"hashStore", "fetch", "postSum", "postBody"}
           \/ pc[u] = "post" /\ provider \in {"flash", "fdis"}
           => Current(u, reg[u][g])
        /\ \/ pc[u] = "hash" /\ g \in half[u]
           \/ pc[u] = "post" /\ provider = "hyper"
           => reg[u][g] # None
    BY DEF Words, LoadsCurrent
  <2>2. CASE u # t
    BY <1>3, <1>4, <2>1, <2>2
  <2>3. CASE u = t
    BY <1>3, <1>4, <1>6, <1>11, <2>1, <2>3 DEF Providers
  <2> QED
    BY <2>2, <2>3
<1>13. ASSUME panicked' PROVE pc[t] \in {"base", "agent"}
  <2>1. half'[t] = {} /\ pc'[t] = label /\ reg'[t]["data"] = None
    <3>1. half[t] \cup {h} = Halves /\ reg'[t].data = None
      BY <1>1, <1>13 DEF LastHalf
    <3>2. half[t] # {}
      BY <3>1 DEF Halves
    <3> QED
      BY <1>2, <3>1, <3>2 DEF TypeOK
  <2>2. ASSUME pc[t] \notin {"base", "agent"} PROVE FALSE
    <3>1. \/ pc[t] \in {"hashLoad", "url", "encode", "sum", "body"} /\ Current(t, reg'[t]["data"])
          \/ pc[t] = "hash" /\ reg'[t]["data"] # None
      BY <1>3, <1>4, <1>11, <2>1, <2>2 DEF Words, LoadsCurrent, Halves
    <3> QED
      BY <2>1, <3>1, CurrentThere
  <2> QED
    BY <2>2
<1> QED
  BY <1>5, <1>7, <1>9, <1>10, <1>12, <1>13 DEF Words

\* Between its loads and stores a task goes on without a string.
LEMMA MoveWords ==
  ASSUME TypeOK, Words, NEW t \in Tasks, NEW label \in Between \cup Storing \cup Calling,
         pc' = [pc EXCEPT ![t] = label], UNCHANGED <<provider, strings, round>>,
         pc[t] # "page", pc[t] \notin Wording(provider),
         label \in {"page", "setContents", "call", "post"} \cup Places[provider],
         label \notin {"hashStore", "fetch", "postSum", "postBody"},
         label = "post" => provider \notin {"flash", "fdis", "hyper"},
         pc[t] = "setUrl" => label \in {"setContents", "page"},
         pc[t] = "setContents" => label = "call"
  PROVE  pc' \in [Tasks -> Between \cup Storing \cup Calling] /\ Words'
<1> USE DEF strings
<1>1. pc' \in [Tasks -> Between \cup Storing \cup Calling]
  BY DEF TypeOK
<1>2. half[t] = {}
  BY DEF Words, InPlace
<1>3. pc'[t] = label /\ \A u \in Tasks : u # t => pc'[u] = pc[u]
  BY DEF TypeOK
<1>4. InPlace'
  BY <1>2, <1>3 DEF Words, InPlace
<1>5. \A u \in Tasks : \A word : Current(u, word)' <=> Current(u, word)
  BY StaysCurrent
<1>6. CellsCurrent'
  BY <1>2, <1>3, <1>5 DEF Words, CellsCurrent, Wording, UrlProviders, ContentsProviders
<1>7. HashStored'
  BY <1>2, <1>3 DEF Words, HashStored, Wording, ContentsProviders
<1>8. LoadsCurrent'
  BY <1>2, <1>3, <1>5 DEF Words, LoadsCurrent, UrlProviders
<1> QED
  BY <1>1, <1>4, <1>6, <1>7, <1>8 DEF Words

----------------------------------------------------------------------------
(* What the services have been asked, and the steps.                        *)

\* A step that neither asks for the config nor comes back with one, and leaves
\* the flags alone, keeps the history.
LEMMA HistoryKept ==
  ASSUME TypeOK, History, NEW t \in Tasks, NEW label, UNCHANGED <<relentless, hawk>>,
         pc' = pc \/ pc' = [pc EXCEPT ![t] = label], pc[t] # "keep",
         label \notin {"reread", "keep", "encode", "flag"},
         label = "fetch" => pc[t] = "encode"
  PROVE  History'
<1> USE DEF relentless, hawk
<1>1. \A u \in Tasks : pc'[u] = pc[u] \/ (u = t /\ pc'[u] = label)
  BY DEF TypeOK
<1>2. ConfigStays'
  BY <1>1 DEF History, ConfigStays
<1>3. FlagAfterAnswer'
  BY <1>1 DEF History, FlagAfterAnswer
<1>4. InitializedMeansKnown'
  BY DEF History, InitializedMeansKnown
<1> QED
  BY <1>2, <1>3, <1>4 DEF History

\* A store keeps the history.
LEMMA StoreHistory ==
  ASSUME IInv, NEW t \in Tasks, NEW cell, NEW string, NEW labels, Store(t, cell, string, labels),
         labels \subseteq {"page", "setContents", "call", "hashLoad", "base"}, pc[t] # "keep"
  PROVE  History'
<1>1. /\ UNCHANGED <<relentless, hawk>>
      /\ pc' = pc \/ \E l \in labels : pc' = [pc EXCEPT ![t] = l]
  BY DEF Store, DoHalf, GoTo
<1> QED
  BY <1>1, HistoryKept DEF IInv

\* So does a load.
LEMMA LoadHistory ==
  ASSUME IInv, NEW t \in Tasks, NEW cell, NEW label, Load(t, cell, {label}),
         label \in {"hashStore", "url", "post", "postSum", "postBody", "fetch"},
         label = "fetch" => pc[t] = "encode", pc[t] # "keep"
  PROVE  History'
<1>1. /\ UNCHANGED <<relentless, hawk>>
      /\ pc' = pc \/ pc' = [pc EXCEPT ![t] = label]
  BY DEF Load, DoHalf, GoTo
<1> QED
  BY <1>1, HistoryKept DEF IInv

\* A step to another place keeps all, ...
LEMMA Moves ==
  ASSUME IInv, NEW t \in Tasks, NEW label,
         pc' = [pc EXCEPT ![t] = label],
         UNCHANGED <<provider, strings, relentless, hawk, round, panicked>>,
         pc[t] \notin {"page", "keep"}, pc[t] \notin Wording(provider),
         label \in {"page", "setContents", "call", "post"} \cup Places[provider],
         label \notin {"hashStore", "fetch", "postSum", "postBody", "reread", "keep", "encode",
                       "flag"},
         label = "post" => provider \notin {"flash", "fdis", "hyper"},
         pc[t] = "setUrl" => label \in {"setContents", "page"},
         pc[t] = "setContents" => label = "call"
  PROVE  IInv'
<1>1. label \in Between \cup Storing \cup Calling
  <2>1. provider \in Providers
    BY DEF IInv, TypeOK
  <2> QED
    BY <2>1, PlacesOf DEF Providers, Between, Storing, Calling
<1>2. pc' \in [Tasks -> Between \cup Storing \cup Calling] /\ Words'
  BY <1>1, MoveWords DEF IInv
<1>3. TypeOK'
  BY <1>2 DEF IInv, TypeOK, strings, relentless, hawk
<1>4. History'
  BY HistoryKept DEF IInv
<1> QED
  BY <1>2, <1>3, <1>4 DEF IInv

\* ... and a step of the solver the words.
LEMMA MovesWords ==
  ASSUME IInv, NEW t \in Tasks, NEW label \in Calling \cup Between,
         pc' = [pc EXCEPT ![t] = label], UNCHANGED <<provider, strings, round>>,
         pc[t] \in Calling \ {"post", "base", "url", "hash", "encode", "sum", "body", "agent",
                            "setBase"},
         \/ label \in {"page", "call"} \cup Places[provider]
         \/ label = "post" /\ provider \notin {"flash", "fdis", "hyper"},
         label \notin {"fetch", "postSum", "postBody"}
  PROVE  pc' \in [Tasks -> Between \cup Storing \cup Calling] /\ Words'
<1>1. pc[t] \notin Wording(provider) /\ pc[t] \notin {"page", "setUrl", "setContents"}
  BY DEF Calling, Wording
<1>2. label \notin {"hashStore", "fetch", "postSum", "postBody"}
  BY DEF Calling, Between
<1>3. /\ label \in {"page", "setContents", "call", "post"} \cup Places[provider]
      /\ label = "post" => provider \notin {"flash", "fdis", "hyper"}
  BY PlacesOf DEF IInv, TypeOK, Providers
<1>4. label \in Between \cup Storing \cup Calling
  OBVIOUS
<1> QED
  BY <1>1, <1>2, <1>3, <1>4, MoveWords DEF IInv

\* The next page: what the task has stored and loaded of the last is forgotten.
LEMMA ReadPageInv == ASSUME IInv, NEW t \in Tasks, ReadPage(t) PROVE IInv'
<1> USE DEF strings
<1>1. /\ pc[t] = "page" /\ round[t] < MaxRounds
      /\ round' = [round EXCEPT ![t] = round[t] + 1]
      /\ pc' = [pc EXCEPT ![t] = "setUrl"]
      /\ UNCHANGED <<provider, strings, relentless, hawk, panicked>>
  BY DEF ReadPage, GoTo
<1>2. round[t] \in 0 .. MaxRounds
  BY DEF IInv, TypeOK
<1>3. round[t] + 1 \in 0 .. MaxRounds /\ round[t] + 1 # 0
  BY <1>1, <1>2, MaxRoundsAssumption
<1>4. TypeOK'
  BY <1>1, <1>3 DEF IInv, TypeOK, Storing, relentless, hawk
<1>5. half[t] = {}
  BY <1>1 DEF IInv, Words, InPlace, Wording
<1>6. /\ pc'[t] = "setUrl" /\ round'[t] # 0
      /\ \A u \in Tasks : u # t => pc'[u] = pc[u] /\ round'[u] = round[u]
  BY <1>1, <1>3 DEF IInv, TypeOK
<1>7. InPlace'
  BY <1>1, <1>5, <1>6 DEF IInv, Words, InPlace
<1>8. \A u \in Tasks : u # t => \A word : Current(u, word)' <=> Current(u, word)
  BY <1>6, StaysCurrent
<1>9. CellsCurrent'
  BY <1>1, <1>5, <1>6, <1>8 DEF IInv, Words, CellsCurrent
<1>10. HashStored'
  BY <1>1, <1>5, <1>6 DEF IInv, Words, HashStored
<1>11. LoadsCurrent'
  BY <1>1, <1>5, <1>6, <1>8 DEF IInv, Words, LoadsCurrent
<1>12. History'
  <2>1. UNCHANGED <<relentless, hawk>> /\ pc[t] # "keep" /\ "setUrl" # "fetch"
    BY <1>1
  <2>2. "setUrl" \notin {"reread", "keep", "encode", "flag"}
    OBVIOUS
  <2> QED
    BY <1>1, <2>1, <2>2, HistoryKept, Zenon DEF IInv
<1> QED
  BY <1>4, <1>7, <1>9, <1>10, <1>11, <1>12 DEF IInv, Words

\* What a task tells the solver.
LEMMA SettersInv == ASSUME IInv, NEW t \in Tasks, Setters(t) PROVE IInv'
<1> USE DEF Cells, UrlProviders, ContentsProviders
<1>1. CASE WithScriptUrl(t) /\ provider \in {"flash", "fdis"}
  <2>1. pc[t] = "setUrl" /\ Store(t, "url", <<t, round[t]>>, {"setContents", "page"})
    BY <1>1 DEF WithScriptUrl
  <2> QED
    BY <1>1, <2>1, StoreWords, StoreHistory DEF IInv
<1>2. CASE WithScriptUrl(t) /\ provider \notin {"flash", "fdis"}
  <2>1. pc[t] = "setUrl" /\ UNCHANGED <<provider, strings, relentless, hawk, round, panicked>>
    BY <1>2 DEF WithScriptUrl
  <2>2. PICK l \in {"setContents", "page"} : pc' = [pc EXCEPT ![t] = l]
    BY <1>2 DEF WithScriptUrl, GoTo
  <2>3. pc[t] \notin Wording(provider)
    BY <1>2, <2>1 DEF Wording
  <2> QED
    BY <2>1, <2>2, <2>3, Moves
<1>3. CASE WithScriptContents(t) /\ provider \in ContentsProviders
  <2>1. /\ pc[t] = "setContents"
        /\ Store(t, "contents", <<t, round[t]>>,
                 IF provider = "hyper" THEN {"hashLoad"} ELSE {"call"})
    BY <1>3 DEF WithScriptContents
  <2> QED
    BY <1>3, <2>1, StoreWords, StoreHistory DEF IInv
<1>4. CASE WithScriptContents(t) /\ provider \notin ContentsProviders
  <2>1. /\ pc[t] = "setContents" /\ pc' = [pc EXCEPT ![t] = "call"]
        /\ UNCHANGED <<provider, strings, relentless, hawk, round, panicked>>
    BY <1>4 DEF WithScriptContents, GoTo
  <2>2. pc[t] \notin Wording(provider)
    BY <1>4, <2>1 DEF Wording
  <2> QED
    BY <2>1, <2>2, Moves
<1>5. CASE LoadForHash(t)
  BY <1>5, LoadWords, LoadHistory DEF LoadForHash, IInv
<1>6. CASE StoreHash(t)
  BY <1>6, StoreWords, StoreHistory DEF StoreHash, IInv
<1>7. CASE GenerateUserAgent(t)
  <2>1. /\ pc[t] = "call" /\ provider = "hawk" /\ pc' = [pc EXCEPT ![t] = "setAgent"]
        /\ UNCHANGED <<provider, strings, relentless, hawk, round, panicked>>
    BY <1>7 DEF GenerateUserAgent, GoTo
  <2> QED
    BY <2>1, PlacesOf, Moves DEF Wording
<1>8. CASE StoreAgent(t)
  BY <1>8, StoreWords, StoreHistory DEF StoreAgent, IInv
<1> QED
  BY <1>1, <1>2, <1>3, <1>4, <1>5, <1>6, <1>7, <1>8 DEF Setters

\* The call begins: with a load of what the task has stored, or in the solver.
LEMMA GenerateSensorDataInv == ASSUME IInv, NEW t \in Tasks, GenerateSensorData(t) PROVE IInv'
<1>1. /\ pc[t] = "call" /\ pc' = [pc EXCEPT ![t] = Entry[provider]]
      /\ UNCHANGED <<provider, strings, relentless, hawk, round, panicked>>
  BY DEF GenerateSensorData, GoTo, Only
<1>2. provider \in Providers
  BY DEF IInv, TypeOK
<1>3. /\ Entry[provider] \in {"url", "check", "config", "init", "hash", "post"}
      /\ Entry[provider] \in {"post"} \cup Places[provider]
      /\ Entry[provider] = "post" => provider = "solar"
  BY <1>2, PlacesOf DEF Entry, Providers
<1> QED
  BY <1>1, <1>3, Moves DEF Wording

\* The request for sensor data ends the call.
LEMMA PostInv == ASSUME IInv, NEW t \in Tasks, Post(t) PROVE IInv'
<1>1. /\ pc[t] = "post" /\ reg' = [reg EXCEPT ![t] = Empty]
      /\ UNCHANGED <<provider, mem, half, hawk, relentless, round, panicked>>
  BY DEF Post
<1>2. PICK l \in Between : pc' = [pc EXCEPT ![t] = l]
  BY DEF Post, Return, GoTo
<1>3. /\ half[t] = {} /\ pc'[t] \in {"page", "call"}
      /\ \A u \in Tasks : u # t => pc'[u] = pc[u] /\ reg'[u] = reg[u]
  BY <1>1, <1>2 DEF IInv, TypeOK, Words, InPlace, Wording, Between
<1>4. TypeOK'
  BY <1>1, <1>2 DEF IInv, TypeOK, Strings, Scripts, Empty, relentless, hawk
<1>5. InPlace'
  BY <1>1, <1>3 DEF IInv, Words, InPlace
<1>6. \A u \in Tasks : \A word : Current(u, word)' <=> Current(u, word)
  BY <1>1, StaysCurrent
<1>7. CellsCurrent'
  BY <1>1, <1>3, <1>6 DEF IInv, Words, CellsCurrent
<1>8. HashStored'
  BY <1>1, <1>3 DEF IInv, Words, HashStored
<1>9. LoadsCurrent'
  BY <1>1, <1>3, <1>6 DEF IInv, Words, LoadsCurrent
<1>10. History'
  BY <1>1, <1>2, HistoryKept DEF IInv, Between
<1> QED
  BY <1>4, <1>5, <1>7, <1>8, <1>9, <1>10 DEF IInv, Words

\* Fdis.
LEMMA FdisInv == ASSUME IInv, NEW t \in Tasks, FdisSteps(t) PROVE IInv'
<1> USE DEF Cells
<1>1. CASE CheckBase(t)
  <2>1. PICK l \in {"setBase", "base"} : pc' = [pc EXCEPT ![t] = l]
    BY <1>1 DEF CheckBase, GoTo
  <2>2. /\ pc[t] = "check"
        /\ UNCHANGED <<provider, strings, relentless, hawk, round, panicked>>
    BY <1>1 DEF CheckBase, Only
  <2>3. provider = "fdis"
    BY <2>2, PlacesOf DEF IInv, TypeOK, Words, InPlace, Providers
  <2> QED
    BY <2>1, <2>2, <2>3, PlacesOf, Moves DEF Wording
<1>2. CASE StoreBase(t)
  BY <1>2, StoreWords, StoreHistory DEF StoreBase, IInv
<1>3. CASE LoadBase(t)
  BY <1>3, LoadWords, LoadHistory DEF LoadBase, IInv
<1> QED
  BY <1>1, <1>2, <1>3 DEF FdisSteps

\* Relentless: a config that a task has fetched is there when it calls again,
\* unless one could not be fetched, and was overwritten with none.
LEMMA RelentlessInv == ASSUME IInv, NEW t \in Tasks, RelentlessSteps(t) PROVE IInv'
<1> USE DEF Cells
<1>1. CASE LoadForConfig(t)
  BY <1>1, LoadWords, LoadHistory DEF LoadForConfig, IInv
<1>2. CASE CheckConfig(t) \/ Lock(t) \/ Recheck(t) \/ Reread(t) \/ FetchConfig(t)
           \/ FetchConfigFails(t) \/ KeepConfig(t)
  <2>1. /\ pc[t] \in {"config", "lock", "recheck", "reread", "fetch", "keep"}
        /\ UNCHANGED <<provider, strings, hawk, round, panicked>>
    BY <1>2 DEF CheckConfig, Lock, Recheck, Reread, FetchConfig, FetchConfigFails, KeepConfig, Only
  <2>2. provider = "relentless"
    BY <2>1, PlacesOf DEF IInv, TypeOK, Words, InPlace, Providers
  <2>3. PICK l \in {"post", "lock", "recheck", "reread", "encode", "keep"} :
          pc' = [pc EXCEPT ![t] = l]
    BY <1>2 DEF CheckConfig, Lock, Recheck, Reread, FetchConfig, FetchConfigFails, KeepConfig, GoTo
  <2>4. l \in Places[provider] \/ l = "post"
    BY <2>2, PlacesOf
  <2>5. pc' \in [Tasks -> Between \cup Storing \cup Calling] /\ Words'
    BY <2>1, <2>2, <2>3, <2>4, MovesWords DEF Calling, Between
  <2>6. TypeOK'
    <3>1. CASE CheckConfig(t) \/ Recheck(t)
      BY <2>1, <2>5, <3>1 DEF IInv, TypeOK, strings, hawk, relentless, CheckConfig, Recheck
    <3>2. CASE Lock(t)
      BY <2>1, <2>5, <3>2 DEF IInv, TypeOK, strings, hawk, Lock
    <3>3. CASE Reread(t)
      BY <2>1, <2>5, <3>3 DEF IInv, TypeOK, strings, hawk, Reread
    <3>4. CASE FetchConfig(t)
      BY <2>1, <2>5, <3>4 DEF IInv, TypeOK, strings, hawk, FetchConfig
    <3>5. CASE FetchConfigFails(t)
      BY <2>1, <2>5, <3>5 DEF IInv, TypeOK, strings, hawk, FetchConfigFails
    <3>6. CASE KeepConfig(t)
      BY <2>1, <2>5, <3>6 DEF IInv, TypeOK, strings, hawk, KeepConfig
    <3> QED
      BY <1>2, <3>1, <3>2, <3>3, <3>4, <3>5, <3>6
  <2>7. ConfigStays'
    <3> USE DEF IInv, TypeOK, History, ConfigStays
    <3>1. CASE CheckConfig(t)
      BY <3>1 DEF CheckConfig, GoTo, relentless
    <3>2. CASE Lock(t)
      BY <3>2 DEF Lock, GoTo
    <3>3. CASE Recheck(t)
      BY <3>3 DEF Recheck, GoTo, relentless
    <3>4. CASE Reread(t)
      BY <3>4 DEF Reread, GoTo
    <3>5. CASE FetchConfig(t)
      BY <3>5 DEF FetchConfig, GoTo
    <3>6. CASE FetchConfigFails(t)
      BY <3>6 DEF FetchConfigFails
    <3>7. CASE KeepConfig(t)
      BY <3>7 DEF KeepConfig, GoTo
    <3> QED
      BY <1>2, <3>1, <3>2, <3>3, <3>4, <3>5, <3>6, <3>7
  <2>8. FlagAfterAnswer' /\ InitializedMeansKnown'
    BY <2>1, <2>3 DEF IInv, TypeOK, History, FlagAfterAnswer, InitializedMeansKnown, hawk
  <2> QED
    BY <2>5, <2>6, <2>7, <2>8 DEF IInv, History
<1> QED
  BY <1>1, <1>2 DEF RelentlessSteps

\* Hawk: the flag goes up after an answer, that the script is known or another.
LEMMA HawkInv == ASSUME IInv, NEW t \in Tasks, HawkSteps(t) PROVE IInv'
<1> USE DEF Cells
<1>1. CASE LoadForSum(t)
  BY <1>1, LoadWords, LoadHistory DEF LoadForSum, IInv
<1>2. CASE LoadForBody(t)
  BY <1>2, LoadWords, LoadHistory DEF LoadForBody, IInv
<1>3. CASE LoadAgent(t)
  BY <1>3, LoadWords, LoadHistory DEF LoadAgent, IInv
<1>4. CASE CheckInitialized(t) \/ SumUnknown(t) \/ SumKnown(t) \/ BodySent(t)
           \/ InitializeFails(t) \/ SetInitialized(t)
  <2>1. /\ pc[t] \in {"init", "postSum", "postBody", "flag"}
        /\ UNCHANGED <<provider, strings, relentless, round, panicked>>
    BY <1>4 DEF CheckInitialized, SumUnknown, SumKnown, BodySent, InitializeFails, SetInitialized,
                HawkOnly
  <2>2. provider = "hawk"
    BY <2>1, PlacesOf DEF IInv, TypeOK, Words, InPlace, Providers
  <2>3. PICK l \in {"agent", "sum", "body", "flag", "page", "call"} : pc' = [pc EXCEPT ![t] = l]
    BY <1>4 DEF CheckInitialized, SumUnknown, SumKnown, BodySent, InitializeFails, SetInitialized,
                GoTo, Return, Between
  <2>4. l \in {"page", "call"} \cup Places[provider]
    BY <2>2, PlacesOf
  <2>5. pc' \in [Tasks -> Between \cup Storing \cup Calling] /\ Words'
    BY <2>1, <2>2, <2>3, <2>4, MovesWords DEF Calling, Between
  <2>6. TypeOK'
    BY <1>4, <2>1, <2>5 DEF IInv, TypeOK, strings, hawk, relentless, CheckInitialized, SumUnknown,
                            SumKnown, BodySent, InitializeFails, SetInitialized
  <2>7. ConfigStays'
    BY <2>1, <2>3 DEF IInv, TypeOK, History, ConfigStays, relentless
  <2>8. FlagAfterAnswer' /\ InitializedMeansKnown'
    <3> USE DEF IInv, TypeOK, History, FlagAfterAnswer, InitializedMeansKnown
    <3>1. CASE CheckInitialized(t)
      BY <3>1 DEF CheckInitialized, GoTo, hawk
    <3>2. CASE SumUnknown(t)
      BY <3>2 DEF SumUnknown, GoTo, hawk
    <3>3. CASE SumKnown(t)
      BY <3>3 DEF SumKnown
    <3>4. CASE BodySent(t)
      BY <3>4 DEF BodySent
    <3>5. CASE InitializeFails(t)
      BY <3>5 DEF InitializeFails, Return, Between, GoTo, hawk
    <3>6. CASE SetInitialized(t)
      BY <3>6 DEF SetInitialized, GoTo
    <3> QED
      BY <1>4, <3>1, <3>2, <3>3, <3>4, <3>5, <3>6
  <2> QED
    BY <2>5, <2>6, <2>7, <2>8 DEF IInv, History
<1> QED
  BY <1>1, <1>2, <1>3, <1>4 DEF HawkSteps

\* At the start no task has read a page.
LEMMA InitInv == Init => IInv
<1> SUFFICES ASSUME Init PROVE IInv
  OBVIOUS
<1>1. TypeOK
  <2>1. Empty \in Strings
    BY DEF Empty, Strings, Scripts
  <2>2. 0 \in 0 .. MaxRounds
    BY MaxRoundsAssumption
  <2>3. {} \in (SUBSET Halves) \ {Halves}
    BY DEF Halves
  <2>4. half \in [Tasks -> (SUBSET Halves) \ {Halves}]
    BY <2>3 DEF Init
  <2>5. /\ mem \in [Cells -> Strings] /\ reg \in [Tasks -> Strings]
        /\ round \in [Tasks -> 0 .. MaxRounds]
    BY <2>1, <2>2 DEF Init
  <2>6. /\ pc \in [Tasks -> Between \cup Storing \cup Calling]
        /\ answer \in [Tasks -> BOOLEAN] /\ fetches \in [Tasks -> 0 .. 2]
    BY DEF Init, Between
  <2> QED
    BY <2>4, <2>5, <2>6 DEF Init, TypeOK
<1>2. Words
  BY DEF Init, Words, InPlace, CellsCurrent, HashStored, LoadsCurrent
<1>3. History
  BY DEF Init, History, ConfigStays, FlagAfterAnswer, InitializedMeansKnown
<1> QED
  BY <1>1, <1>2, <1>3 DEF IInv

----------------------------------------------------------------------------
(* The theorems.                                                            *)

\* Every step keeps the inductive invariant.
LEMMA IInvStep == IInv /\ [Next]_vars => IInv'
<1> SUFFICES ASSUME IInv, [Next]_vars PROVE IInv'
  OBVIOUS
<1>1. CASE UNCHANGED vars
  <2> USE DEF vars, strings, relentless, hawk
  <2>1. TypeOK'
    BY <1>1 DEF IInv, TypeOK
  <2>2. Words'
    BY <1>1 DEF IInv, Words, InPlace, CellsCurrent, HashStored, LoadsCurrent, Current
  <2>3. History'
    BY <1>1 DEF IInv, History, ConfigStays, FlagAfterAnswer, InitializedMeansKnown
  <2> QED
    BY <2>1, <2>2, <2>3 DEF IInv
<1>2. ASSUME NEW t \in Tasks, TaskSteps(t) PROVE IInv'
  <2>1. CASE LoadUrl(t)
    BY <2>1, LoadWords, LoadHistory DEF LoadUrl, Cells, IInv
  <2>2. CASE LoadHash(t)
    BY <2>2, LoadWords, LoadHistory DEF LoadHash, Cells, IInv
  <2> QED
    BY <1>2, <2>1, <2>2, ReadPageInv, SettersInv, GenerateSensorDataInv, PostInv, FdisInv,
       RelentlessInv, HawkInv DEF TaskSteps
<1> QED
  BY <1>1, <1>2 DEF Next

\* The inductive invariant holds in every reachable state.
THEOREM Invariance == Spec => []IInv
<1> QED
  BY InitInv, IInvStep, PTL DEF Spec

\* Every variable keeps its type.
THEOREM TypeCorrect == Spec => []TypeOK
<1>1. IInv => TypeOK
  BY DEF IInv
<1> QED
  BY <1>1, Invariance, PTL

\* Although the tasks write the fields of one solver without a mutex, and the
\* words of their strings mix, no request names an empty script, and none names
\* one of a page its task has left behind.
THEOREM SendsCurrent == Spec => []SendsCurrentScript
<1>1. IInv => SendsCurrentScript
  BY PlacesOf DEF IInv, TypeOK, Words, InPlace, LoadsCurrent, SendsCurrentScript, Sending, Current,
                  UrlProviders, Providers
<1> QED
  BY <1>1, Invariance, PTL

\* As long as no fetch failed no task fetches the config of Relentless twice,
\* although it is stored outside the mutex.
THEOREM FetchedOnce == Spec => []ConfigFetchedOnce
<1>1. IInv => ConfigFetchedOnce
  BY DEF IInv, History, ConfigStays, ConfigFetchedOnce
<1> QED
  BY <1>1, Invariance, PTL

\* Only KeepConfig writes the config, and as long as no fetch failed what it
\* stores is one: the task has fetched it, or has met it under the mutex.
THEOREM LostOnlyAfterFailure == Spec => ConfigLostOnlyAfterFailure
<1>1. IInv /\ [Next]_vars => [config /\ ~config' => failed]_vars
  <2> SUFFICES ASSUME IInv, config, ~config', NEW t \in Tasks, TaskSteps(t)
               PROVE  failed
    BY DEF Next
  <2>1. KeepConfig(t)
    BY DEF TaskSteps, ReadPage, Setters, FdisSteps, RelentlessSteps, HawkSteps, WithScriptUrl,
           WithScriptContents, LoadForHash, StoreHash, GenerateUserAgent, StoreAgent, Store, Load,
           GenerateSensorData, LoadUrl, LoadHash, Post, CheckBase, StoreBase, LoadBase, CheckConfig,
           Lock, Recheck, Reread, LoadForConfig, FetchConfig, FetchConfigFails, CheckInitialized,
           LoadForSum, SumUnknown, SumKnown, LoadForBody, BodySent, InitializeFails,
           SetInitialized, LoadAgent, Only, HawkOnly, relentless
  <2> QED
    BY <2>1 DEF KeepConfig, IInv, History, ConfigStays
<1> QED
  BY <1>1, Invariance, PTL DEF Spec, ConfigLostOnlyAfterFailure

\* When Hawk's flag is up its service knows a script, or has given an answer the
\* code does not look at.
THEOREM InitializedKnown == Spec => []InitializedMeansKnown
<1>1. IInv => InitializedMeansKnown
  BY DEF IInv, History
<1> QED
  BY <1>1, Invariance, PTL

\* A torn string kills the process only where it is loaded from a field that not
\* every call stores: the base url of Fdis and the user agent of Hawk.
THEOREM OnlyLazyPanic == Spec => OnlyLazyFieldsPanic
<1>1. IInv /\ [Next]_vars => [panicked' => \E t \in Tasks : pc[t] \in {"base", "agent"}]_vars
  <2> SUFFICES ASSUME IInv, ~panicked, panicked', NEW t \in Tasks, TaskSteps(t)
               PROVE  \E u \in Tasks : pc[u] \in {"base", "agent"}
    BY DEF Next
  <2>1. \/ LoadForHash(t) \/ LoadForConfig(t) \/ LoadForSum(t) \/ LoadForBody(t)
        \/ LoadUrl(t) \/ LoadHash(t) \/ LoadBase(t) \/ LoadAgent(t)
    BY DEF TaskSteps, ReadPage, Setters, FdisSteps, RelentlessSteps, HawkSteps, WithScriptUrl,
           WithScriptContents, StoreHash, GenerateUserAgent, StoreAgent, Store, GenerateSensorData,
           Post, CheckBase, StoreBase, CheckConfig, Lock, Recheck, Reread, FetchConfig,
           FetchConfigFails, KeepConfig, CheckInitialized, SumUnknown, SumKnown, BodySent,
           InitializeFails, SetInitialized, Only, HawkOnly
  <2>2. pc[t] \in {"base", "agent"}
    BY <2>1, LoadWords DEF IInv, Cells, LoadForHash, LoadForConfig, LoadForSum, LoadForBody,
                           LoadUrl, LoadHash, LoadBase, LoadAgent
  <2> QED
    BY <2>2
<1> QED
  BY <1>1, Invariance, PTL DEF Spec, OnlyLazyFieldsPanic
=============================================================================
