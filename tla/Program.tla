------------------------------ MODULE Program -------------------------------
(***************************************************************************)
(* The program of main.rs: inputs that retry and count (Inputs), copies of *)
(* a regex filter behind one queue (Events), and the outputs (Outputs).    *)
(* Between them stands what Pipeline shows of the graph: a copy hands each *)
(* event once to the queue of every output.                                *)
(***************************************************************************)
EXTENDS Inputs, Outputs

CONSTANTS Copies, NoEvent

VARIABLES
  patterns,  \* the order of the filter's patterns, the same for its clones
  busy       \* the event that a copy of the filter works on

vars == <<inputVars, outputVars, patterns, busy>>

Init ==
  /\ InitInputs
  /\ InitOutputs
  /\ patterns \in PatternOrders
  /\ busy = [c \in Copies |-> NoEvent]

\* The filter of a copy answers one event for each.
Filter(c) ==
  /\ busy[c] = NoEvent
  /\ inQueue # <<>>
  /\ LET event == Head(inQueue)
     IN  busy' = [busy EXCEPT
           ![c] = [event EXCEPT !.fields = Filtered(patterns, event.fields)]]
  /\ inQueue' = Tail(inQueue)
  /\ UNCHANGED <<requests, counters, opened, spawned, tasks, sent, outputVars, patterns>>

Broadcast(c) ==
  /\ busy[c] # NoEvent
  /\ outQueue' = [o \in Outputs |-> Append(outQueue[o], busy[c])]
  /\ busy' = [busy EXCEPT ![c] = NoEvent]
  /\ UNCHANGED <<inputVars, first, refused, printed, swallowed, patterns>>

InputTasks == StartInputs \/ \E k \in DOMAIN requests : InputStep(k) \/ InputFails(k)

Sinks == PrintEvent \/ Refuse \/ Swallow

Next ==
  \/ InputTasks /\ UNCHANGED <<outputVars, patterns, busy>>
  \/ Sinks /\ UNCHANGED <<inputVars, patterns, busy>>
  \/ \E c \in Copies : Filter(c) \/ Broadcast(c)

\* The tasks run, timers fire, and a sink that may block at last prints.  Nothing has to
\* fail, and no sink has to refuse.
Fairness ==
  /\ WF_vars(StartInputs /\ UNCHANGED <<outputVars, patterns, busy>>)
  /\ \A k \in DOMAIN Contents :
       WF_vars(InputStep(k) /\ UNCHANGED <<outputVars, patterns, busy>>)
  /\ \A c \in Copies : WF_vars(Filter(c) \/ Broadcast(c))
  /\ WF_vars(PrintEvent /\ UNCHANGED <<inputVars, patterns, busy>>)
  /\ WF_vars(Swallow /\ UNCHANGED <<inputVars, patterns, busy>>)

Spec == Init /\ [][Next]_vars /\ Fairness

-----------------------------------------------------------------------------
\* The events that any input has put into the queue.
Sent == UNION {ToSet(sent[k]) : k \in DOMAIN sent}

\* The queue is bounded; each task is where its history says, and each input that has been
\* set up has its counter.
TypeOK ==
  /\ InputTypes
  /\ patterns \in PatternOrders
  /\ first \in BOOLEAN
  /\ refused => Offered("stdout")
  /\ \A c \in Copies : busy[c] # NoEvent => \E event \in Sent : event.of = busy[c].of

\* What an output has got are events that were sent, none of them twice, each with its own
\* fields and the captures the filter is configured for (regex.rs:80-112, stdout.rs:60-76).
Intact(events) ==
  /\ \A j, k \in DOMAIN events : events[j].of = events[k].of => j = k
  /\ \A j \in DOMAIN events :
       \E event \in Sent :
         event.of = events[j].of /\ AsConfigured(patterns, event.fields, events[j].fields)

PrintedIntact == Intact([j \in DOMAIN printed |-> printed[j].event])

\* Errors only delay: every event of every input is printed, and swallowed, in the end
\* (retry.rs:34-58, stdout.rs:67-70).
EverythingComesOut ==
  LET total == SumFunction([k \in DOMAIN requests |-> Len(Contents[k])])
  IN  <>[](Len(printed) = total /\ Len(swallowed) = total)
=============================================================================
