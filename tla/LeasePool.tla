------------------------------ MODULE LeasePool ------------------------------
(****************************************************************************)
(* What a pool of leased items promises to the tasks that call its Lease,   *)
(* whatever the data structures behind it (ProxyManager here): a caller     *)
(* gives up what it holds, the pool then hands it an item nobody holds, or  *)
(* answers with an error.  An item has at most one holder because `holder`  *)
(* is a function of the item; a task has at most one item because it gives  *)
(* up the old one inside the same call.                                     *)
(****************************************************************************)
CONSTANTS Tasks,       \* the callers
          Hashes,      \* the identities of the items in the pool
          NoTask,      \* holder of an item nobody holds
          NoHash,      \* a call without an answer yet
          LeaseError   \* the answer of a call that found nothing

VARIABLES holder,  \* who holds each item
          answer,  \* what the last call of each task was answered
          asking   \* the tasks inside a call

vars == <<holder, answer, asking>>

TypeOK ==
  /\ holder \in [Hashes -> Tasks \cup {NoTask}]
  /\ answer \in [Tasks -> Hashes \cup {NoHash, LeaseError}]
  /\ asking \subseteq Tasks

Init ==
  /\ holder = [h \in Hashes |-> NoTask]
  /\ answer = [t \in Tasks |-> NoHash]
  /\ asking = {}

\* A task asks for an item: its previous answer is void from here on.
Ask(t) ==
  /\ t \notin asking
  /\ asking' = asking \cup {t}
  /\ answer' = [answer EXCEPT ![t] = NoHash]
  /\ UNCHANGED holder

\* The pool takes back what a task that is asking held.
Release(t) ==
  /\ t \in asking
  /\ holder' = [h \in Hashes |-> IF holder[h] = t THEN NoTask ELSE holder[h]]
  /\ UNCHANGED <<answer, asking>>

\* An item nobody holds is given to t, which holds nothing else.  The answer
\* may still be an error: the item is then stranded until t asks again.
Grant(t) ==
  /\ t \in asking
  /\ t \notin {holder[h] : h \in Hashes}
  /\ \E h \in Hashes :
       /\ holder[h] = NoTask
       /\ holder' = [holder EXCEPT ![h] = t]
       /\ answer' \in {[answer EXCEPT ![t] = a] : a \in {h, LeaseError}}
  /\ asking' = asking \ {t}

\* The call ends with an error; t holds nothing then either.
Refuse(t) ==
  /\ t \in asking
  /\ t \notin {holder[h] : h \in Hashes}
  /\ answer' = [answer EXCEPT ![t] = LeaseError]
  /\ asking' = asking \ {t}
  /\ UNCHANGED holder

Next == \E t \in Tasks : Ask(t) \/ Release(t) \/ Grant(t) \/ Refuse(t)

PoolSpec == Init /\ [][Next]_vars
==============================================================================
