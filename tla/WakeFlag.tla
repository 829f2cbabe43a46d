------------------------------ MODULE WakeFlag ------------------------------
(***************************************************************************)
(* What util/futures/signal.rs promises to its users: a flag that senders  *)
(* raise and that every receiver waiting on it is certain to find raised,  *)
(* however its wait and the raising are interleaved.                       *)
(*                                                                         *)
(*   latched = TRUE    signal::{Sender, Receiver}: a one-shot future, once *)
(*                     raised the flag stays up and each receiver          *)
(*                     completes exactly once.                             *)
(*   latched = FALSE   pulse::{Sender, Receiver}: a stream, receiving an   *)
(*                     item lowers the flag; raising a raised flag adds    *)
(*                     nothing.                                            *)
(*                                                                         *)
(* Signal.tla is the mechanism (an atomic, a mutex, a list of tasks) and   *)
(* is shown to implement this module; FileInput.tla uses the pulse through *)
(* the actions below.                                                      *)
(***************************************************************************)
CONSTANT Receivers

VARIABLES
  latched,  \* which of the two it is
  up,       \* the flag
  seen      \* latched: the receivers that have completed

flagVars == <<latched, up, seen>>

Init ==
  /\ latched \in BOOLEAN
  /\ up = FALSE
  /\ seen = {}

\* Sender::signal
Raise ==
  /\ up' = TRUE
  /\ latched' = latched
  /\ seen' = seen

\* Receiver::poll answers Ready
Take(r) ==
  /\ up
  /\ r \notin seen
  /\ up' = latched
  /\ seen' = IF latched THEN seen \union {r} ELSE seen
  /\ latched' = latched

Next == Raise \/ \E r \in Receivers : Take(r)

\* Raising is up to the users; a raised flag is taken.
Spec == Init /\ [][Next]_flagVars /\ \A r \in Receivers : WF_flagVars(Take(r))
=============================================================================
