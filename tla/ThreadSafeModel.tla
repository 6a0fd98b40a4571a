-------------------------- MODULE ThreadSafeModel ---------------------------
(***************************************************************************)
(* What a Model wrapped in a MutexModel promises its threads: the content  *)
(* changes in single steps, never below an open iterator, and an iterator  *)
(* delivers statements of the content it was opened on, each at most once. *)
(***************************************************************************)
CONSTANTS
  Statements,   \* statements the model may hold
  Iterators,    \* iterator objects
  Closed        \* marks an iterator that is not open

VARIABLES
  content,      \* the statements in the model
  pending       \* per iterator: the statements it still has to deliver

vars == <<content, pending>>

Init ==
  /\ content = {}
  /\ pending = [i \in Iterators |-> Closed]

Write ==
  /\ \A i \in Iterators : pending[i] = Closed
  /\ content' \in SUBSET Statements
  /\ UNCHANGED pending

Open(i) ==
  /\ pending[i] = Closed
  /\ pending' = [pending EXCEPT ![i] = content]
  /\ UNCHANGED content

Deliver(i) ==
  /\ pending[i] # Closed
  /\ \E s \in pending[i] : pending' = [pending EXCEPT ![i] = @ \ {s}]
  /\ UNCHANGED content

Close(i) ==
  /\ pending[i] # Closed
  /\ pending' = [pending EXCEPT ![i] = Closed]
  /\ UNCHANGED content

Next == Write \/ \E i \in Iterators : Open(i) \/ Deliver(i) \/ Close(i)

Spec == Init /\ [][Next]_vars
=============================================================================
