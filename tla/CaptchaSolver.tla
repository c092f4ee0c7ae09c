--------------------------- MODULE CaptchaSolver ---------------------------
(****************************************************************************)
(* What a captcha solver promises to the goroutines that call its           *)
(* SolveRecaptcha, whichever service stands behind it (Aycd and CaptchaPoll *)
(* here, a step of the environment in TaskHandler): a call may be refused   *)
(* at any time and may never end, but it returns once, and it returns a     *)
(* token only if its own request was put to the service and the service has *)
(* solved it.  What the service does after the return changes nothing.      *)
(****************************************************************************)
CONSTANTS Calls  \* the calls of SolveRecaptcha

VARIABLES
  asked,   \* the calls whose request the service has
  solved,  \* the requests it has solved
  ret      \* what each call has returned

vars == <<asked, solved, ret>>

TypeOK ==
  /\ asked \subseteq Calls
  /\ solved \subseteq asked
  /\ ret \in [Calls -> {"none", "token", "error"}]

Init ==
  /\ asked = {}
  /\ solved = {}
  /\ ret = [c \in Calls |-> "none"]

Ask(c) ==
  /\ ret[c] = "none" /\ c \notin asked
  /\ asked' = asked \cup {c}
  /\ UNCHANGED <<solved, ret>>

\* The service has a solution, perhaps when nobody waits for it any more.
Solve(c) ==
  /\ c \in asked
  /\ solved' = solved \cup {c}
  /\ UNCHANGED <<asked, ret>>

GiveToken(c) ==
  /\ ret[c] = "none" /\ c \in solved
  /\ ret' = [ret EXCEPT ![c] = "token"]
  /\ UNCHANGED <<asked, solved>>

\* Refused, cancelled, timed out, or not understood, solved or not.
GiveError(c) ==
  /\ ret[c] = "none"
  /\ ret' = [ret EXCEPT ![c] = "error"]
  /\ UNCHANGED <<asked, solved>>

Next == \E c \in Calls : Ask(c) \/ Solve(c) \/ GiveToken(c) \/ GiveError(c)

SolverSpec == Init /\ [][Next]_vars
==============================================================================
