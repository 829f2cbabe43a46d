------------------------------- MODULE Fanout -------------------------------
(***************************************************************************)
(* What a pipeline promises while nothing in it fails: each event that an  *)
(* input hands over reaches, once, every output of the one group it is     *)
(* routed to, and the outputs of a group all see the same events in the    *)
(* same order.  How many filter graphs work side by side, where the queues *)
(* are and how long they get does not show, except in the order in which   *)
(* events reach a group.                                                   *)
(*                                                                         *)
(* Pipeline.tla is shown to implement this module.                         *)
(***************************************************************************)
EXTENDS Naturals, Sequences

CONSTANTS
  Events,
  Outputs,
  Routes,   \* <<event, output>>: the outputs of the group the event belongs to, if any
  Peers     \* <<output, output>>: they are in one group

VARIABLES
  accepted,   \* the events handed over so far
  got         \* what each output has received

fanoutVars == <<accepted, got>>

Init ==
  /\ accepted = {}
  /\ got = [o \in Outputs |-> <<>>]

Accept(e) ==
  /\ e \notin accepted
  /\ accepted' = accepted \union {e}
  /\ UNCHANGED got

Received(o) == {got[o][k] : k \in DOMAIN got[o]}

\* The next event of o, unless a peer got another one in its place.
Deliver(o, e) ==
  /\ e \in accepted
  /\ <<e, o>> \in Routes
  /\ e \notin Received(o)
  /\ \A p \in Outputs : <<o, p>> \in Peers /\ Len(got[p]) > Len(got[o]) =>
        got[p][Len(got[o]) + 1] = e
  /\ got' = [got EXCEPT ![o] = Append(@, e)]
  /\ UNCHANGED accepted

Next ==
  \/ \E e \in Events : Accept(e)
  \/ \E o \in Outputs, e \in Events : Deliver(o, e)

Spec ==
  /\ Init
  /\ [][Next]_fanoutVars
  /\ \A o \in Outputs : WF_fanoutVars(\E e \in Events : Deliver(o, e))
=============================================================================
