------------------------------ MODULE Outputs -------------------------------
(***************************************************************************)
(* The outputs: the stdout sink with its encoder, and the null sink        *)
(* (component/output, component/encoder/debug.rs).  futures' Forward       *)
(* offers a sink the event at the head of its queue, and offers it again   *)
(* after NotReady.                                                         *)
(***************************************************************************)
EXTENDS Naturals, Sequences

CONSTANT Outputs   \* outputs of the group: a subset of {"stdout", "null"}

ASSUME OutputsAssumption == Outputs \subseteq {"stdout", "null"}

VARIABLES
  outQueue,  \* the queue of each output
  first,     \* EncoderImpl.first of stdout
  refused,   \* history: the head of stdout's queue was offered before
  printed,   \* history: what stdout has printed: [event, separated, again]
  swallowed  \* history: the events null has got

outputVars == <<outQueue, first, refused, printed, swallowed>>

InitOutputs ==
  /\ outQueue = [o \in Outputs |-> <<>>]
  /\ first = TRUE
  /\ refused = FALSE
  /\ printed = <<>>
  /\ swallowed = <<>>

Offered(o) == o \in Outputs /\ outQueue[o] # <<>>

Pop(o) == outQueue' = [outQueue EXCEPT ![o] = Tail(@)]

\* Mutant of Encode: `first` is not cleared.
EncodeAlways == UNCHANGED first

\* encode puts a line feed before every event but the first it is called for.
Encode == first' = FALSE

PrintEvent ==
  /\ Offered("stdout")
  /\ Encode
  /\ printed' = Append(printed, [event     |-> Head(outQueue["stdout"]),
                                 separated |-> ~first,
                                 again     |-> refused])
  /\ refused' = FALSE
  /\ Pop("stdout")
  /\ UNCHANGED swallowed

\* blocking() answers NotReady when too many threads block: the event is encoded, and given
\* back.
Refuse ==
  /\ Offered("stdout")
  /\ Encode
  /\ refused' = TRUE
  /\ UNCHANGED <<outQueue, printed, swallowed>>

Swallow ==
  /\ Offered("null")
  /\ swallowed' = Append(swallowed, Head(outQueue["null"]))
  /\ Pop("null")
  /\ UNCHANGED <<first, refused, printed>>

-----------------------------------------------------------------------------
\* Every event is printed apart from the one before it.  The very first one has a line feed
\* before it exactly if the sink had refused it (stdout.rs:63-71, debug.rs:43-49).
EventsApart ==
  \A j \in DOMAIN printed : printed[j].separated <=> j > 1 \/ printed[j].again
=============================================================================
