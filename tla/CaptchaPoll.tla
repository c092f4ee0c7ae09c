----------------------------- MODULE CaptchaPoll -----------------------------
(****************************************************************************)
(* The two solvers that poll (pkg/captcha/2captcha.go and capmon.go):       *)
(* SolveRecaptcha creates a job at the provider and asks for its result     *)
(* until there is one.  The two are the same loop; they differ in what they *)
(* do with an answer that lacks a field and in which errors they call       *)
(* retryable.  Every captcha goroutine makes a call of its own.             *)
(*                                                                          *)
(* The provider is not part of the repository: a job it accepts is worked   *)
(* on, possibly for ever, and ends ready or failed; a job id it never gave  *)
(* out is a failed job.  2captcha.com is taken to say CAPCHA_NOT_READY only *)
(* of a job it works on, and either service to give a solution only of a    *)
(* job that is ready; nothing more is assumed of what they say of a job.    *)
(*                                                                          *)
(* A definition whose name starts with Faulty is the definition after it    *)
(* with a plausible mistake: no behaviour uses it, it shows that a property *)
(* notices the mistake.                                                     *)
(****************************************************************************)
CONSTANTS Calls  \* the calls of SolveRecaptcha, each for a version it supports

VARIABLES
  solver,   \* the configured solver, "2cap" or "capmon"
  pc,       \* where each call is
  job,      \* the job of each call at the provider
  ret,      \* what each call returned
  panicked  \* the process has died

vars == <<solver, pc, job, ret, panicked>>

Errors == {"retryable", "final"}

TypeOK ==
  /\ solver \in {"2cap", "capmon"}
  /\ pc \in [Calls -> {"create", "sleep", "poll", "done"}]
  /\ job \in [Calls -> {"none", "working", "ready", "failed"}]
  /\ ret \in [Calls -> {"none", "token", "empty"} \cup Errors]
  /\ panicked \in BOOLEAN

Init ==
  /\ solver \in {"2cap", "capmon"}
  /\ pc = [c \in Calls |-> "create"]
  /\ job = [c \in Calls |-> "none"]
  /\ ret = [c \in Calls |-> "none"]
  /\ panicked = FALSE

Return(c, results) ==
  /\ pc' = [pc EXCEPT ![c] = "done"]
  /\ ret' \in {[ret EXCEPT ![c] = r] : r \in results}
  /\ UNCHANGED <<solver, job, panicked>>

----------------------------------------------------------------------------
(* The creation of the job.                                                 *)

\* Refused or not sent: final.  An answer that cannot be read: retryable.
CreateFails(c) ==
  /\ pc[c] = "create"
  /\ Return(c, Errors)

CreateAccepted(c) ==
  /\ pc[c] = "create"
  /\ pc' = [pc EXCEPT ![c] = "sleep"]
  /\ job' = [job EXCEPT ![c] = "working"]
  /\ UNCHANGED <<solver, ret, panicked>>

\* An acceptance without an id: 2captcha.go reads a part that is not there (as
\* it does of the request itself, when the key in its url does not parse);
\* capmon.go goes on with the id 0.
CreateWithoutId(c) ==
  /\ pc[c] = "create"
  /\ \/ solver = "2cap" /\ panicked' = TRUE /\ UNCHANGED <<pc, job>>
     \/ /\ solver = "capmon"
        /\ pc' = [pc EXCEPT ![c] = "sleep"]
        /\ job' = [job EXCEPT ![c] = "failed"]
        /\ UNCHANGED panicked
  /\ UNCHANGED <<solver, ret>>

----------------------------------------------------------------------------
(* The loop.                                                                *)

Sleep(c) ==
  /\ pc[c] = "sleep"
  /\ pc' = [pc EXCEPT ![c] = "poll"]
  /\ UNCHANGED <<solver, job, ret, panicked>>

\* A request that fails is retryable for 2captcha.go and final for capmon.go;
\* an answer that cannot be read is retryable for both.
PollFails(c) ==
  /\ pc[c] = "poll"
  /\ Return(c, {"retryable"} \cup IF solver = "capmon" THEN {"final"} ELSE {})

\* Nothing counts the turns.  2captcha.go goes round when the job is said to be
\* worked on, capmon.go at every answer that has no error id and any status but
\* "ready", or none: also when the job has ended.
PollNotReady(c) ==
  /\ pc[c] = "poll"
  /\ solver = "2cap" => job[c] = "working"
  /\ pc' = [pc EXCEPT ![c] = "sleep"]
  /\ UNCHANGED <<solver, job, ret, panicked>>

FaultyPollRefused(c) ==  \* takes the error for "not ready"
  /\ pc[c] = "poll"
  /\ pc' = [pc EXCEPT ![c] = "sleep"]
  /\ UNCHANGED <<solver, job, ret, panicked>>

\* The error the provider names, whatever became of the job: for 2captcha.go
\* every text that is neither "not ready" nor a solution, for capmon.go an
\* error id.
PollRefused(c) ==
  /\ pc[c] = "poll"
  /\ Return(c, IF solver = "2cap" THEN {"retryable"} ELSE {"final"})

FaultyPollStatus(c) ==  \* returns the status, not the solution
  /\ pc[c] = "poll"
  /\ job[c] = "ready"
  /\ Return(c, {job[c]})

FaultyPollReady(c) ==  \* does not look at the status
  /\ pc[c] = "poll"
  /\ Return(c, {"token"})

\* The solution of a ready job, which may be the empty string: the text after
\* "OK|" is not looked at, and capmon.go takes it for a solution that is missing.
PollReady(c) ==
  /\ pc[c] = "poll"
  /\ job[c] = "ready"
  /\ Return(c, {"token", "empty"})

\* 2captcha.go reads a part that is not there when the answer has none.
PollPanics(c) ==
  /\ pc[c] = "poll"
  /\ job[c] = "ready"
  /\ solver = "2cap"
  /\ panicked' = TRUE
  /\ UNCHANGED <<solver, pc, job, ret>>

----------------------------------------------------------------------------
\* The provider (external).
JobEnds(c) ==
  /\ job[c] = "working"
  /\ job' \in {[job EXCEPT ![c] = end] : end \in {"ready", "failed"}}
  /\ UNCHANGED <<solver, pc, ret, panicked>>

CallSteps(c) ==
  \/ CreateFails(c) \/ CreateAccepted(c) \/ CreateWithoutId(c)
  \/ Sleep(c)
  \/ PollFails(c) \/ PollNotReady(c) \/ PollRefused(c) \/ PollReady(c) \/ PollPanics(c)

Next == ~panicked /\ \E c \in Calls : CallSteps(c) \/ JobEnds(c)

\* Every request to the provider is answered or fails (the code sets no
\* timeout); the jobs need not end.
Fairness == \A c \in Calls : WF_vars(~panicked /\ CallSteps(c))

Spec == Init /\ [][Next]_vars /\ Fairness

----------------------------------------------------------------------------
(* Properties.                                                              *)

\* Either client is a captcha solver.
Solver == INSTANCE CaptchaSolver
            WITH asked <- {c \in Calls : job[c] # "none"},
                 solved <- {c \in Calls : job[c] = "ready"},
                 ret <- [c \in Calls |-> IF ret[c] \in Errors THEN "error"
                                         ELSE IF ret[c] = "none" THEN "none" ELSE "token"]

\* The two clients keep the contract the handlers rely on: a call returns once,
\* and no token without a solution of its own job.
ImplementsSolver == Solver!SolverSpec

\* A call whose job has ended at the provider returns, unless it is one of
\* capmon.go and is answered again and again with no error id and a status that
\* is not "ready", the only answer to an ended job that keeps a loop going.
EndedJobReturns ==
  \A c \in Calls :
    \/ job[c] \in {"ready", "failed"} ~> (pc[c] = "done" \/ panicked)
    \/ []<><<solver = "capmon" /\ job[c] # "working" /\ PollNotReady(c)>>_vars

\* What the comment over both loops says (2captcha.go:53, capmon.go:60): there
\* is a bailout, so a call that polls returns whatever becomes of the job.
PollBailsOut ==
  \A c \in Calls : pc[c] = "poll" ~> (pc[c] = "done" \/ panicked)
==============================================================================
