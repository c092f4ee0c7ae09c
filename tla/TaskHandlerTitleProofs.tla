------------------------ MODULE TaskHandlerTitleProofs ------------------------
(****************************************************************************)
(* The console title, for every number of tasks and every size of the stats *)
(* channel: at no moment does it show more winners than entries, nor more   *)
(* entries than attempts.                                                   *)
(****************************************************************************)
EXTENDS TaskHandlerProofs

\* How many of the first n elements of a sequence are of the kind.
Count(s, kind, n) == Cardinality({i \in 1 .. n : s[i] = kind})

\* What the title will show of a kind after it has taken n more reports.
Shown(kind, n) == title[kind] + Count(stats, kind, n)

\* After every report that is on its way the title is in order.
Ordered ==
  \A n \in 0 .. Len(stats) : /\ Shown("Winner", n) <= Shown("Entered", n)
                             /\ Shown("Entered", n) <= Shown("Attempts", n)

\* The handlers that have reported the attempt of their iteration and have not
\* reported its entry, ...
Trying == {t \in Tasks : pc[t] \in {"page", "script", "sensor", "await", "submit",
                                    "result", "lost", "won"}}

\* ... and those that have reported the entry of a winner.
Winning == {t \in Tasks : pc[t] = "winner"}

\* What has been reported covers what these may still report.
Covered ==
  /\ Shown("Entered", Len(stats)) + Cardinality(Trying) <= Shown("Attempts", Len(stats))
  /\ Shown("Winner", Len(stats)) + Cardinality(Winning) <= Shown("Entered", Len(stats))

TitleInv == Ordered /\ Covered

----------------------------------------------------------------------------
(* Counting the reports of a kind.                                          *)

\* A count is a natural number, and zero of no elements.
LEMMA CountType ==
  ASSUME NEW s, NEW kind, NEW n \in Nat
  PROVE  /\ IsFiniteSet({i \in 1 .. n : s[i] = kind})
         /\ Count(s, kind, n) \in Nat /\ Count(s, kind, 0) = 0
<1>1. ASSUME NEW m \in Nat PROVE IsFiniteSet({i \in 1 .. m : s[i] = kind})
  <2>1. IsFiniteSet(1 .. m) /\ {i \in 1 .. m : s[i] = kind} \in SUBSET (1 .. m)
    BY FS_Interval
  <2> QED
    BY <2>1, FS_Subset
<1>2. {i \in 1 .. 0 : s[i] = kind} = {}
  OBVIOUS
<1> QED
  BY <1>1, <1>2, FS_CardinalityType, FS_EmptySet DEF Count

\* One more element counts if it is of the kind.
LEMMA CountNext ==
  ASSUME NEW s, NEW kind, NEW n \in Nat
  PROVE  Count(s, kind, n + 1) = Count(s, kind, n) + (IF s[n + 1] = kind THEN 1 ELSE 0)
<1> DEFINE A == {i \in 1 .. n : s[i] = kind}
           B == {i \in 1 .. n + 1 : s[i] = kind}
<1>1. IsFiniteSet(A) /\ Cardinality(A) \in Nat
  BY CountType DEF Count
<1>2. n + 1 \notin A /\ B = IF s[n + 1] = kind THEN A \cup {n + 1} ELSE A
  OBVIOUS
<1> HIDE DEF A, B
<1>3. Cardinality(B) = Cardinality(A) + (IF s[n + 1] = kind THEN 1 ELSE 0)
  BY <1>1, <1>2, FS_AddElement
<1> QED
  BY <1>3 DEF Count, A, B

\* Sequences that agree on the first n elements have the same count of them.
LEMMA CountSame ==
  ASSUME NEW s, NEW r, NEW kind, NEW n \in Nat, \A i \in 1 .. n : r[i] = s[i]
  PROVE  Count(r, kind, n) = Count(s, kind, n)
<1>1. {i \in 1 .. n : r[i] = kind} = {i \in 1 .. n : s[i] = kind}
  OBVIOUS
<1> QED
  BY <1>1 DEF Count

\* The first element counts for one, if it is of the kind; the others count as
\* they do without it.
LEMMA CountShift ==
  ASSUME NEW s, NEW r, NEW kind, NEW n \in Nat, \A i \in 1 .. n : r[i] = s[i + 1]
  PROVE  Count(s, kind, n + 1) = Count(r, kind, n) + (IF s[1] = kind THEN 1 ELSE 0)
<1> DEFINE A == {i \in 1 .. n : r[i] = kind}
           B == {i \in 2 .. n + 1 : s[i] = kind}
           C == {i \in 1 .. n + 1 : s[i] = kind}
           f == [i \in A |-> i + 1]
<1>1. IsFiniteSet(A) /\ Cardinality(A) \in Nat
  BY CountType DEF Count
<1>2. f \in Bijection(A, B)
  <2>1. f \in [A -> B]
    OBVIOUS
  <2>2. \A i, j \in A : f[i] = f[j] => i = j
    OBVIOUS
  <2>3. ASSUME NEW j \in B PROVE \E i \in A : f[i] = j
    <3>1. j - 1 \in A /\ f[j - 1] = j
      OBVIOUS
    <3> QED
      BY <3>1
  <2> QED
    BY <2>1, <2>2, <2>3 DEF Bijection, Injection, Surjection, IsInjective
<1>3. 1 \notin B /\ C = IF s[1] = kind THEN B \cup {1} ELSE B
  OBVIOUS
<1> HIDE DEF A, B, C, f
<1>4. IsFiniteSet(B) /\ Cardinality(B) = Cardinality(A)
  BY <1>1, <1>2, FS_Bijection DEF ExistsBijection
<1>5. Cardinality(B \cup {1}) = Cardinality(B) + 1
  BY <1>3, <1>4, FS_AddElement
<1>6. Cardinality(C) = Cardinality(A) + (IF s[1] = kind THEN 1 ELSE 0)
  BY <1>1, <1>3, <1>4, <1>5
<1> QED
  BY <1>6 DEF Count, A, C

\* What the title will show is a number.
LEMMA ShownType ==
  ASSUME TypeOK, NEW kind \in StatKinds, NEW n \in Nat
  PROVE  Shown(kind, n) \in Nat /\ Shown(kind, 0) = title[kind]
<1>1. title[kind] \in Nat
  BY DEF TypeOK
<1>2. Count(stats, kind, n) \in Nat /\ Count(stats, kind, 0) = 0
  BY CountType
<1> QED
  BY <1>1, <1>2 DEF Shown

\* A set of tasks is finite; adding and taking one task changes its size by one.
LEMMA TasksCounted ==
  ASSUME NEW S \in SUBSET Tasks
  PROVE  /\ IsFiniteSet(S) /\ Cardinality(S) \in Nat
         /\ \A t \in Tasks \ S : Cardinality(S \cup {t}) = Cardinality(S) + 1
         /\ \A t \in S : Cardinality(S \ {t}) = Cardinality(S) - 1 /\ Cardinality(S) > 0
         /\ \A T \in SUBSET S : Cardinality(T) \in Nat /\ Cardinality(T) <= Cardinality(S)
<1>1. IsFiniteSet(S) /\ Cardinality(S) \in Nat
  BY TasksAssumption, FS_Subset, FS_CardinalityType
<1>2. ASSUME NEW t \in Tasks \ S PROVE Cardinality(S \cup {t}) = Cardinality(S) + 1
  BY <1>1, FS_AddElement
<1>3. ASSUME NEW t \in S PROVE Cardinality(S \ {t}) = Cardinality(S) - 1 /\ Cardinality(S) > 0
  BY <1>1, FS_RemoveElement, FS_EmptySet
<1>4. ASSUME NEW T \in SUBSET S PROVE Cardinality(T) \in Nat /\ Cardinality(T) <= Cardinality(S)
  BY <1>1, FS_Subset, FS_CardinalityType
<1> QED
  BY <1>1, <1>2, <1>3, <1>4

----------------------------------------------------------------------------
(* Reports are sent and shown.                                              *)

\* A report that is sent is shown after all that are on their way.
LEMMA SendCounts ==
  ASSUME TypeOK, NEW kind \in StatKinds, Send(kind)
  PROVE  /\ Len(stats) \in Nat /\ Len(stats)' = Len(stats) + 1
         /\ \A k \in StatKinds, n \in 0 .. Len(stats) : Shown(k, n)' = Shown(k, n)
         /\ \A k \in StatKinds :
              Shown(k, Len(stats))' = Shown(k, Len(stats)) + (IF k = kind THEN 1 ELSE 0)
<1>1. /\ Len(stats) \in Nat /\ Len(stats') = Len(stats) + 1 /\ title' = title
      /\ \A i \in 1 .. Len(stats) : stats'[i] = stats[i]
      /\ stats'[Len(stats) + 1] = kind
  BY AppendBounded, BufferAssumption DEF TypeOK, Send
<1>2. ASSUME NEW k \in StatKinds, NEW n \in 0 .. Len(stats) PROVE Shown(k, n)' = Shown(k, n)
  <2>1. Count(stats', k, n) = Count(stats, k, n)
    BY <1>1, CountSame
  <2> QED
    BY <1>1, <2>1 DEF Shown, Count
<1>3. ASSUME NEW k \in StatKinds
      PROVE  Shown(k, Len(stats))' = Shown(k, Len(stats)) + (IF k = kind THEN 1 ELSE 0)
  <2>1. Count(stats', k, Len(stats) + 1)
          = Count(stats', k, Len(stats)) + (IF k = kind THEN 1 ELSE 0)
    BY <1>1, CountNext
  <2>2. Count(stats', k, Len(stats)) = Count(stats, k, Len(stats))
    BY <1>1, CountSame
  <2>3. Shown(k, Len(stats))' = title[k] + Count(stats', k, Len(stats) + 1)
    BY <1>1 DEF Shown, Count
  <2>4. title[k] \in Nat /\ Count(stats, k, Len(stats)) \in Nat
    BY <1>1, CountType DEF TypeOK
  <2> QED
    BY <2>1, <2>2, <2>3, <2>4 DEF Shown
<1> QED
  BY <1>1, <1>2, <1>3

\* A report that is shown moves from the channel to the totals.
LEMMA ShowCounts ==
  ASSUME TypeOK, ShowTitle
  PROVE  /\ Len(stats) \in Nat \ {0} /\ Len(stats)' = Len(stats) - 1
         /\ \A k \in StatKinds, n \in 0 .. Len(stats) - 1 : Shown(k, n)' = Shown(k, n + 1)
<1>1. /\ Len(stats) \in Nat \ {0} /\ Len(stats') = Len(stats) - 1
      /\ stats[1] \in StatKinds /\ title' = [title EXCEPT ![stats[1]] = @ + 1]
      /\ \A i \in 1 .. Len(stats') : stats'[i] = stats[i + 1]
  BY TailBounded, BufferAssumption DEF TypeOK, ShowTitle
<1>2. ASSUME NEW k \in StatKinds, NEW n \in 0 .. Len(stats) - 1
      PROVE  Shown(k, n)' = Shown(k, n + 1)
  <2>1. Count(stats, k, n + 1) = Count(stats', k, n) + (IF stats[1] = k THEN 1 ELSE 0)
    <3>1. n \in Nat /\ \A i \in 1 .. n : stats'[i] = stats[i + 1]
      BY <1>1
    <3> QED
      BY <3>1, CountShift
  <2>2. title'[k] = title[k] + (IF stats[1] = k THEN 1 ELSE 0) /\ title[k] \in Nat
    BY <1>1 DEF TypeOK
  <2>3. Count(stats', k, n) \in Nat
    <3>1. n \in Nat
      BY <1>1
    <3> QED
      BY <3>1, CountType
  <2>4. Shown(k, n)' = title'[k] + Count(stats', k, n)
    BY DEF Shown, Count
  <2> QED
    BY <2>1, <2>2, <2>3, <2>4 DEF Shown
<1> QED
  BY <1>1, <1>2

----------------------------------------------------------------------------
(* The title stays in order.                                                *)

\* The title starts with nothing.
LEMMA TitleInit == Init => TitleInv
<1> SUFFICES ASSUME Init PROVE TitleInv
  OBVIOUS
<1>1. Len(stats) = 0 /\ Trying = {} /\ Winning = {}
  BY DEF Init, Trying, Winning
<1>2. \A k \in StatKinds : Shown(k, 0) = 0
  <2>1. \A k \in StatKinds : title[k] = 0 /\ Count(stats, k, 0) = 0
    BY CountType DEF Init
  <2> QED
    BY <2>1 DEF Shown
<1>3. Cardinality({}) = 0
  BY FS_EmptySet
<1> QED
  BY <1>1, <1>2, <1>3 DEF TitleInv, Ordered, Covered, StatKinds

\* A step without a report may only end attempts.
LEMMA QuietTitle ==
  ASSUME TypeOK, TitleInv, UNCHANGED statsVars, Trying' \subseteq Trying, Winning' \subseteq Winning
  PROVE  TitleInv'
<1>1. \A k, n : Shown(k, n)' = Shown(k, n)
  BY DEF statsVars, Shown, Count
<1>2. Len(stats)' = Len(stats) /\ Len(stats) \in Nat
  <2>1. stats \in Seq(StatKinds)
    BY BoundedSeqMeaning, BufferAssumption DEF TypeOK
  <2> QED
    BY <2>1 DEF statsVars
<1>3. Ordered'
  BY <1>1, <1>2 DEF TitleInv, Ordered
<1>4. Covered'
  <2>1. /\ Cardinality(Trying)' \in Nat /\ Cardinality(Trying)' <= Cardinality(Trying)
        /\ Cardinality(Winning)' \in Nat /\ Cardinality(Winning)' <= Cardinality(Winning)
        /\ Cardinality(Trying) \in Nat /\ Cardinality(Winning) \in Nat
    BY TasksCounted DEF Trying, Winning
  <2>2. \A k \in StatKinds : Shown(k, Len(stats)) \in Nat
    BY <1>2, ShownType
  <2>3. \A k \in StatKinds : Shown(k, Len(stats))' = Shown(k, Len(stats))
    BY <1>1, <1>2
  <2> QED
    BY <2>1, <2>2, <2>3 DEF TitleInv, Covered, StatKinds
<1> QED
  BY <1>3, <1>4 DEF TitleInv

\* A report keeps the order of all that will be shown if the larger total is
\* strictly larger before the smaller one goes up.
LEMMA SendOrdered ==
  ASSUME TypeOK, TitleInv, NEW kind \in StatKinds, Send(kind),
         kind = "Entered" => Cardinality(Trying) > 0,
         kind = "Winner" => Cardinality(Winning) > 0
  PROVE  Ordered'
<1>1. /\ Len(stats) \in Nat /\ Len(stats)' = Len(stats) + 1
      /\ \A k \in StatKinds, n \in 0 .. Len(stats) : Shown(k, n)' = Shown(k, n)
      /\ \A k \in StatKinds :
           Shown(k, Len(stats))' = Shown(k, Len(stats)) + (IF k = kind THEN 1 ELSE 0)
  BY SendCounts
<1>2. \A k \in StatKinds : Shown(k, Len(stats)) \in Nat
  BY <1>1, ShownType
<1>3. Cardinality(Trying) \in Nat /\ Cardinality(Winning) \in Nat
  BY TasksCounted DEF Trying, Winning
<1>4. /\ Shown("Winner", Len(stats))' <= Shown("Entered", Len(stats))'
      /\ Shown("Entered", Len(stats))' <= Shown("Attempts", Len(stats))'
  <2>1. /\ Shown("Winner", Len(stats)) <= Shown("Entered", Len(stats))
        /\ Shown("Entered", Len(stats)) <= Shown("Attempts", Len(stats))
        /\ kind = "Entered" => Shown("Entered", Len(stats)) < Shown("Attempts", Len(stats))
        /\ kind = "Winner" => Shown("Winner", Len(stats)) < Shown("Entered", Len(stats))
    BY <1>2, <1>3 DEF TitleInv, Covered, StatKinds
  <2> QED
    BY <1>1, <1>2, <2>1 DEF StatKinds
<1>5. ASSUME NEW n \in 0 .. Len(stats)
      PROVE  /\ Shown("Winner", n)' <= Shown("Entered", n)'
             /\ Shown("Entered", n)' <= Shown("Attempts", n)'
  BY <1>1 DEF TitleInv, Ordered, StatKinds
<1> QED
  BY <1>1, <1>4, <1>5 DEF Ordered

\* The report of an attempt comes before the handler has anything else to
\* report.
LEMMA AttemptTitle == ASSUME TypeOK, TitleInv, NEW t \in Tasks, Attempt(t) PROVE TitleInv'
<1>1. t \notin Trying /\ Trying' = Trying \cup {t} /\ Winning' = Winning
  BY DEF TypeOK, Attempt, Trying, Winning
<1>2. Cardinality(Trying)' = Cardinality(Trying) + 1 /\ Cardinality(Trying) \in Nat
  BY <1>1, TasksCounted DEF Trying
<1>3. Ordered'
  BY SendOrdered DEF Attempt, StatKinds
<1>4. \A k \in StatKinds :
        /\ Shown(k, Len(stats)) \in Nat
        /\ Shown(k, Len(stats))' = Shown(k, Len(stats)) + (IF k = "Attempts" THEN 1 ELSE 0)
  BY SendCounts, ShownType DEF Attempt, StatKinds
<1>5. Covered'
  BY <1>1, <1>2, <1>4 DEF TitleInv, Covered, StatKinds
<1> QED
  BY <1>3, <1>5 DEF TitleInv

\* The report of an entry uses up an attempt, and a winner has one to report.
LEMMA EntryTitle == ASSUME TypeOK, TitleInv, NEW t \in Tasks, ReportEntry(t) PROVE TitleInv'
<1>1. /\ t \in Trying /\ Trying' = Trying \ {t}
      /\ t \notin Winning /\ (Winning' = Winning \/ Winning' = Winning \cup {t})
  BY DEF TypeOK, ReportEntry, Continue, Goto, Trying, Winning
<1>2. /\ Cardinality(Trying)' = Cardinality(Trying) - 1 /\ Cardinality(Trying) > 0
      /\ Cardinality(Winning)' <= Cardinality(Winning) + 1
      /\ Cardinality(Trying) \in Nat /\ Cardinality(Winning) \in Nat
      /\ Cardinality(Winning)' \in Nat
  <2>1. /\ Cardinality(Trying)' = Cardinality(Trying) - 1 /\ Cardinality(Trying) > 0
        /\ Cardinality(Trying) \in Nat
    BY <1>1, TasksCounted DEF Trying
  <2>2. Cardinality(Winning) \in Nat /\ Cardinality(Winning \cup {t}) = Cardinality(Winning) + 1
    BY <1>1, TasksCounted DEF Winning
  <2>3. \/ Cardinality(Winning)' = Cardinality(Winning)
        \/ Cardinality(Winning)' = Cardinality(Winning) + 1
    BY <1>1, <2>2
  <2> QED
    BY <2>1, <2>2, <2>3
<1>3. Ordered'
  BY <1>2, SendOrdered DEF ReportEntry, StatKinds
<1>4. \A k \in StatKinds :
        /\ Shown(k, Len(stats)) \in Nat
        /\ Shown(k, Len(stats))' = Shown(k, Len(stats)) + (IF k = "Entered" THEN 1 ELSE 0)
  BY SendCounts, ShownType DEF ReportEntry, StatKinds
<1>5. Covered'
  BY <1>2, <1>4 DEF TitleInv, Covered, StatKinds
<1> QED
  BY <1>3, <1>5 DEF TitleInv

\* The report of a winner uses up an entry.
LEMMA WinnerTitle == ASSUME TypeOK, TitleInv, NEW t \in Tasks, ReportWinner(t) PROVE TitleInv'
<1>1. t \in Winning /\ Winning' = Winning \ {t} /\ Trying' = Trying
  BY DEF TypeOK, ReportWinner, Continue, Goto, Trying, Winning
<1>2. /\ Cardinality(Winning)' = Cardinality(Winning) - 1 /\ Cardinality(Winning) > 0
      /\ Cardinality(Winning) \in Nat /\ Cardinality(Trying) \in Nat
  BY <1>1, TasksCounted DEF Trying, Winning
<1>3. Ordered'
  BY <1>2, SendOrdered DEF ReportWinner, StatKinds
<1>4. \A k \in StatKinds :
        /\ Shown(k, Len(stats)) \in Nat
        /\ Shown(k, Len(stats))' = Shown(k, Len(stats)) + (IF k = "Winner" THEN 1 ELSE 0)
  BY SendCounts, ShownType DEF ReportWinner, StatKinds
<1>5. Covered'
  BY <1>1, <1>2, <1>4 DEF TitleInv, Covered, StatKinds
<1> QED
  BY <1>3, <1>5 DEF TitleInv

\* A report that is shown changes only where it is counted.
LEMMA ShowTitleTitle == ASSUME TypeOK, TitleInv, ShowTitle PROVE TitleInv'
<1>1. /\ Len(stats) \in Nat \ {0} /\ Len(stats)' = Len(stats) - 1
      /\ \A k \in StatKinds, n \in 0 .. Len(stats) - 1 : Shown(k, n)' = Shown(k, n + 1)
  BY ShowCounts
<1>2. Ordered'
  BY <1>1 DEF TitleInv, Ordered, StatKinds
<1>3. Trying' = Trying /\ Winning' = Winning
  BY DEF ShowTitle, iterationVars, Trying, Winning
<1>4. \A k \in StatKinds : Shown(k, Len(stats))' = Shown(k, Len(stats))
  BY <1>1
<1>5. Covered'
  BY <1>3, <1>4 DEF TitleInv, Covered, StatKinds
<1> QED
  BY <1>2, <1>5 DEF TitleInv

\* The other steps of a handler report nothing, and lead neither into the tries
\* nor to a winner.
LEMMA HandlerTitle ==
  ASSUME TypeOK, TitleInv, NEW t \in Tasks,
         \/ StartTask(t) \/ Exit(t) \/ CallLease(t) \/ LeaseReturned(t) \/ Receive(t) \/ TimedOut(t)
         \/ GetPage(t) \/ GetScript(t) \/ Sensor(t) \/ Submit(t) \/ GetResult(t) \/ Notify(t)
  PROVE  TitleInv'
<1> USE DEF Goto, Continue
<1>1. UNCHANGED statsVars
  BY DEF StartTask, Exit, CallLease, LeaseReturned, Receive, TimedOut, GetPage, GetScript, Sensor,
         Submit, GetResult, Notify, Request
<1>2. Trying' \subseteq Trying /\ Winning' \subseteq Winning
  <2>1. CASE StartTask(t) \/ Exit(t) \/ CallLease(t) \/ LeaseReturned(t) \/ TimedOut(t) \/ Notify(t)
    BY <2>1 DEF TypeOK, StartTask, Exit, CallLease, LeaseReturned, TimedOut, Notify, Trying, Winning
  <2>2. CASE Receive(t) \/ Sensor(t)
    BY <2>2 DEF TypeOK, Receive, Sensor, Trying, Winning
  <2>3. CASE GetPage(t) \/ GetScript(t) \/ Submit(t) \/ GetResult(t)
    BY <2>3 DEF TypeOK, GetPage, GetScript, Submit, GetResult, Request, Trying, Winning
  <2> QED
    BY <2>1, <2>2, <2>3
<1> QED
  BY <1>1, <1>2, QuietTitle

\* Nor does any step that moves no handler.
LEMMA OtherTitle ==
  ASSUME TypeOK, TitleInv, UNCHANGED <<statsVars, pc>>
  PROVE  TitleInv'
<1>1. Trying' \subseteq Trying /\ Winning' \subseteq Winning
  BY DEF Trying, Winning
<1> QED
  BY <1>1, QuietTitle

\* Every step keeps the title in order.
LEMMA TitleStep == TypeOK /\ TitleInv /\ [Next]_vars => TitleInv'
<1> SUFFICES ASSUME TypeOK, TitleInv, [Next]_vars PROVE TitleInv'
  OBVIOUS
<1>1. CASE UNCHANGED vars
  BY <1>1, OtherTitle DEF vars, iterationVars
<1>2. CASE AllAdded \/ AllStarted \/ WaitReturns \/ OutputFlushed
  BY <1>2, OtherTitle DEF AllAdded, AllStarted, WaitReturns, OutputFlushed, iterationVars
<1>3. CASE ShowTitle
  BY <1>3, ShowTitleTitle
<1>4. ASSUME NEW t \in Tasks,
             \/ AddTask(t) \/ StopTask(t) \/ LeaseRuns(t) \/ FireTimer(t) \/ PagePanics(t)
             \/ NotifyPanics(t) \/ \E k \in Rounds : Solve(t, k) \/ Deliver(t, k)
      PROVE  TitleInv'
  <2>1. UNCHANGED <<statsVars, pc>>
    BY <1>4 DEF AddTask, StopTask, LeaseRuns, FireTimer, PagePanics, NotifyPanics, Solve, Deliver,
                iterationVars
  <2> QED
    BY <2>1, OtherTitle
<1>5. ASSUME NEW t \in Tasks, StartTask(t) \/ LocalSteps(t) \/ PeerSteps(t) PROVE TitleInv'
  BY <1>4, <1>5, AttemptTitle, EntryTitle, WinnerTitle, HandlerTitle DEF LocalSteps, PeerSteps
<1> QED
  BY <1>1, <1>2, <1>3, <1>4, <1>5 DEF Next, Running, MainSteps

\* The totals of the console title (the stats goroutine of taskHandler's
\* reports) never show more winners than entries, nor more entries than
\* attempts, however the reports of the tasks mix in the channel.
THEOREM TitleOrdered == Spec => []TitleOrder
<1>1. TypeOK /\ TitleInv => TitleOrder
  <2> SUFFICES ASSUME TypeOK, TitleInv PROVE TitleOrder
    OBVIOUS
  <2>1. Len(stats) \in Nat
    <3>1. stats \in Seq(StatKinds)
      BY BoundedSeqMeaning, BufferAssumption DEF TypeOK
    <3> QED
      BY <3>1
  <2>2. \A k \in StatKinds : Shown(k, 0) = title[k]
    BY ShownType
  <2> QED
    BY <2>1, <2>2 DEF TitleInv, Ordered, TitleOrder, StatKinds
<1> QED
  BY <1>1, TitleInit, TitleStep, TypeCorrect, PTL DEF Spec
==============================================================================
