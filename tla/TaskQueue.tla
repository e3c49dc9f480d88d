------------------------------ MODULE TaskQueue ------------------------------
(***************************************************************************)
(* What an EventLoop promises to the threads that hand it functors: every  *)
(* functor submitted is run once, in the order of submission, by one       *)
(* thread, until the loop stops.  Functors submitted too late to be run    *)
(* before the stop stay in todo for ever.                                  *)
(***************************************************************************)
EXTENDS Sequences

CONSTANT Functors

VARIABLES todo,     \* functors handed over and not started yet, oldest first
          done,     \* functors started, oldest first
          stopped   \* the loop has returned

vars == <<todo, done, stopped>>

Init ==
  /\ todo = <<>>
  /\ done = <<>>
  /\ stopped = FALSE

\* Some thread, the loop's own included, hands over a functor.
Submit(f) ==
  /\ todo' = Append(todo, f)
  /\ UNCHANGED <<done, stopped>>

\* The loop's thread starts the oldest functor.
Run ==
  /\ ~stopped
  /\ todo # <<>>
  /\ done' = Append(done, Head(todo))
  /\ todo' = Tail(todo)
  /\ UNCHANGED stopped

Stop ==
  /\ ~stopped
  /\ stopped' = TRUE
  /\ UNCHANGED <<todo, done>>

Next ==
  \/ \E f \in Functors : Submit(f)
  \/ Run
  \/ Stop

Spec == Init /\ [][Next]_vars
==============================================================================
