-------------------------- MODULE CaptchaPollProofs --------------------------
(****************************************************************************)
(* The polling clients keep the contract of a captcha solver, for every     *)
(* number of calls.                                                         *)
(****************************************************************************)
EXTENDS CaptchaPoll, TLAPS

\* A call has no job before it created one and no result before it is done.
NothingYet ==
  \A c \in Calls :
    /\ pc[c] = "create" => job[c] = "none"
    /\ pc[c] # "done" => ret[c] = "none"

IInv ==
  /\ TypeOK
  /\ NothingYet

\* Before the first request no call has a job or a result.
LEMMA InitInv == Init => IInv
  BY DEF Init, IInv, TypeOK, NothingYet

\* A call that returns one of the results the client may give keeps the
\* invariant.
LEMMA ReturnInv ==
  ASSUME IInv, NEW c \in Calls, NEW results,
         results \subseteq {"token", "empty"} \cup Errors,
         Return(c, results)
  PROVE  IInv'
<1> PICK r \in results : ret' = [ret EXCEPT ![c] = r]
  BY DEF Return
<1>1. TypeOK'
  BY DEF IInv, TypeOK, Return
<1>2. NothingYet'
  BY DEF IInv, TypeOK, NothingYet, Return
<1> QED
  BY <1>1, <1>2 DEF IInv

\* The creation of a job keeps it, accepted, refused or without an id.
LEMMA CreateInv ==
  ASSUME IInv, NEW c \in Calls,
         CreateFails(c) \/ CreateAccepted(c) \/ CreateWithoutId(c)
  PROVE  IInv'
<1>1. CASE CreateFails(c)
  BY <1>1, ReturnInv DEF CreateFails
<1>2. CASE CreateAccepted(c)
  BY <1>2 DEF CreateAccepted, IInv, TypeOK, NothingYet
<1>3. CASE CreateWithoutId(c)
  BY <1>3 DEF CreateWithoutId, IInv, TypeOK, NothingYet
<1> QED
  BY <1>1, <1>2, <1>3

\* A turn of the loop keeps it, whether it ends the call or goes round.
LEMMA PollInv ==
  ASSUME IInv, NEW c \in Calls,
         Sleep(c) \/ PollFails(c) \/ PollNotReady(c) \/ PollRefused(c)
           \/ PollReady(c) \/ PollPanics(c)
  PROVE  IInv'
<1>1. CASE PollFails(c)
  BY <1>1, ReturnInv DEF PollFails, Errors
<1>2. CASE PollRefused(c)
  BY <1>2, ReturnInv DEF PollRefused, Errors
<1>3. CASE PollReady(c)
  BY <1>3, ReturnInv DEF PollReady
<1>4. CASE Sleep(c) \/ PollNotReady(c)
  BY <1>4 DEF Sleep, PollNotReady, IInv, TypeOK, NothingYet
<1>5. CASE PollPanics(c)
  BY <1>5 DEF PollPanics, IInv, TypeOK, NothingYet
<1> QED
  BY <1>1, <1>2, <1>3, <1>4, <1>5

\* A job that ends was worked on: it belongs to a call that has created it.
LEMMA JobEndsInv == ASSUME IInv, NEW c \in Calls, JobEnds(c) PROVE IInv'
  BY DEF JobEnds, IInv, TypeOK, NothingYet

\* Every step keeps the inductive invariant.
LEMMA IInvStep == IInv /\ [Next]_vars => IInv'
<1> SUFFICES ASSUME IInv, [Next]_vars PROVE IInv'
  OBVIOUS
<1>1. ASSUME NEW c \in Calls, CallSteps(c) PROVE IInv'
  BY <1>1, CreateInv, PollInv DEF CallSteps
<1>2. ASSUME NEW c \in Calls, JobEnds(c) PROVE IInv'
  BY <1>2, JobEndsInv
<1>3. CASE UNCHANGED vars
  BY <1>3 DEF vars, IInv, TypeOK, NothingYet
<1> QED
  BY <1>1, <1>2, <1>3 DEF Next

\* It holds in every state of every behaviour.
LEMMA Invariance == Spec => []IInv
<1> QED
  BY InitInv, IInvStep, PTL DEF Spec

----------------------------------------------------------------------------
\* Calls, jobs and results stay what they are declared to be.
THEOREM TypeCorrect == Spec => []TypeOK
<1>1. IInv => TypeOK
  BY DEF IInv
<1> QED
  BY <1>1, Invariance, PTL

----------------------------------------------------------------------------
(* The refinement: CreateAccepted and CreateWithoutId ask, JobEnds may solve, *)
(* what returns gives the token or the error.                                *)

\* What the contract sees of a call's return.
Seen(r) == IF r \in Errors THEN "error" ELSE IF r = "none" THEN "none" ELSE "token"

askedBar == {c \in Calls : job[c] # "none"}
solvedBar == {c \in Calls : job[c] = "ready"}
retBar == [c \in Calls |-> Seen(ret[c])]

\* A call that returns gives a token or an error to a goroutine that has none.
LEMMA ReturnGives ==
  ASSUME IInv, NEW c \in Calls, pc[c] # "done", NEW results,
         results \subseteq {"token", "empty"} \cup Errors,
         results \subseteq Errors \/ job[c] = "ready",
         Return(c, results)
  PROVE  Solver!Next
<1> USE DEF Seen, Errors
<1> PICK r \in results : ret' = [ret EXCEPT ![c] = r]
  BY DEF Return
<1>1. askedBar' = askedBar /\ solvedBar' = solvedBar
  BY DEF Return, askedBar, solvedBar
<1>2. retBar' = [retBar EXCEPT ![c] = Seen(r)]
  BY DEF IInv, TypeOK, retBar
<1>3. retBar[c] = "none"
  BY DEF IInv, NothingYet, retBar
<1>4. CASE r \in Errors
  <2>1. Solver!GiveError(c)
    BY <1>1, <1>2, <1>3, <1>4 DEF Solver!GiveError, askedBar, solvedBar, retBar
  <2> QED
    BY <2>1 DEF Solver!Next
<1>5. CASE r \notin Errors
  <2>1. c \in solvedBar /\ Seen(r) = "token"
    BY <1>5 DEF solvedBar
  <2>2. Solver!GiveToken(c)
    BY <1>1, <1>2, <1>3, <2>1 DEF Solver!GiveToken, askedBar, solvedBar, retBar
  <2> QED
    BY <2>2 DEF Solver!Next
<1> QED
  BY <1>4, <1>5

\* A job that is created is a request put to the service.
LEMMA CreateAsks ==
  ASSUME IInv, NEW c \in Calls, pc[c] = "create", UNCHANGED ret,
         NEW state \in {"working", "failed"}, job' = [job EXCEPT ![c] = state]
  PROVE  Solver!Next
<1>1. askedBar' = askedBar \cup {c} /\ solvedBar' = solvedBar /\ retBar' = retBar
  BY DEF IInv, TypeOK, NothingYet, askedBar, solvedBar, retBar
<1>2. retBar[c] = "none" /\ c \notin askedBar
  BY DEF IInv, NothingYet, askedBar, retBar, Seen, Errors
<1>3. Solver!Ask(c)
  BY <1>1, <1>2 DEF Solver!Ask, askedBar, solvedBar, retBar, Seen
<1> QED
  BY <1>3 DEF Solver!Next

\* A job that ends is solved, or has failed, which the contract does not see.
LEMMA JobEndsSolves ==
  ASSUME IInv, NEW c \in Calls, JobEnds(c)
  PROVE  Solver!Next \/ UNCHANGED Solver!vars
<1> PICK end \in {"ready", "failed"} : job' = [job EXCEPT ![c] = end]
  BY DEF JobEnds
<1>1. askedBar' = askedBar /\ retBar' = retBar /\ c \in askedBar
  BY DEF JobEnds, IInv, TypeOK, askedBar, retBar
<1>2. CASE end = "ready"
  <2>1. solvedBar' = solvedBar \cup {c}
    BY <1>2 DEF IInv, TypeOK, solvedBar
  <2>2. Solver!Solve(c)
    BY <1>1, <2>1 DEF Solver!Solve, askedBar, solvedBar, retBar, Seen
  <2> QED
    BY <2>2 DEF Solver!Next
<1>3. CASE end = "failed"
  <2>1. solvedBar' = solvedBar
    BY <1>3 DEF JobEnds, IInv, TypeOK, solvedBar
  <2> QED
    BY <1>1, <2>1 DEF Solver!vars, askedBar, solvedBar, retBar, Seen
<1> QED
  BY <1>2, <1>3

\* Steps that change neither a job nor a result are not seen.
LEMMA OthersUnseen ==
  ASSUME UNCHANGED <<job, ret>> PROVE UNCHANGED Solver!vars
  BY DEF Solver!vars

\* Both clients implement the contract of a captcha solver: one return for
\* each call, and no token without a solution of the call's own job.
THEOREM Refinement == Spec => ImplementsSolver
<1>1. Init => Solver!Init
  BY DEF Init, Solver!Init, Errors
<1>2. IInv /\ [Next]_vars => [Solver!Next]_(Solver!vars)
  <2> SUFFICES ASSUME IInv, [Next]_vars
               PROVE  Solver!Next \/ UNCHANGED Solver!vars
    OBVIOUS
  <2>1. ASSUME NEW c \in Calls, CallSteps(c)
        PROVE  Solver!Next \/ UNCHANGED Solver!vars
    <3>1. CASE CreateFails(c)
      BY <3>1, ReturnGives DEF CreateFails
    <3>2. CASE CreateAccepted(c)
      BY <3>2, CreateAsks DEF CreateAccepted
    <3>3. CASE CreateWithoutId(c)
      BY <3>3, CreateAsks, OthersUnseen DEF CreateWithoutId
    <3>4. CASE Sleep(c) \/ PollNotReady(c) \/ PollPanics(c)
      BY <3>4, OthersUnseen DEF Sleep, PollNotReady, PollPanics
    <3>5. CASE PollFails(c)
      BY <3>5, ReturnGives DEF PollFails, Errors
    <3>6. CASE PollRefused(c)
      BY <3>6, ReturnGives DEF PollRefused, Errors
    <3>7. CASE PollReady(c)
      BY <3>7, ReturnGives DEF PollReady
    <3> QED
      BY <2>1, <3>1, <3>2, <3>3, <3>4, <3>5, <3>6, <3>7 DEF CallSteps
  <2>2. CASE \E c \in Calls : JobEnds(c)
    BY <2>2, JobEndsSolves
  <2>3. CASE UNCHANGED vars
    BY <2>3, OthersUnseen DEF vars
  <2> QED
    BY <2>1, <2>2, <2>3 DEF Next
<1> QED
  BY <1>1, <1>2, Invariance, PTL DEF Spec, ImplementsSolver, Solver!SolverSpec
==============================================================================
