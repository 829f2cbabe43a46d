------------------------------ MODULE Pipeline ------------------------------
(***************************************************************************)
(* pipeline.rs: the tasks that PipelineBuilder::start spawns and the       *)
(* queues between them.                                                    *)
(*                                                                         *)
(*   inputs -> in_queue -> filter graphs -> group queue -> broadcast       *)
(*                                                      -> output queues   *)
(*                                                      -> outputs         *)
(*                                                                         *)
(* The node tree is given by its tasks: start_graph spawns one for each    *)
(* Switch and one for each OutputGroup, and a Filters node only maps the   *)
(* stream that the task below it reads.  Each of the filter_concurrency    *)
(* copies of the graph has all of these tasks; the copies compete for the  *)
(* events of in_queue and share the group queues.                          *)
(*                                                                         *)
(* The channels are external.  A Sender of futures::sync::mpsc has a slot  *)
(* of its own besides the buffer, so one cloned for a single message, as   *)
(* the switch and the broadcast do, is accepted even by a full queue; and  *)
(* a sender or receiver left alone finds out when it next uses the queue.  *)
(***************************************************************************)
EXTENDS Naturals, SequencesExt

CONSTANTS
  Inputs,
  NEvents,     \* bound: how many events an input's stream has
  Copies,      \* the filter graphs: filter_concurrency of them
  Tasks,       \* nodes of the tree that are tasks
  Root,        \* the one that reads in_queue
  Branches,    \* task -> its branches in order; none: the node is an OutputGroup
  Verdict,     \* task -> event number -> its branch's predicate: "yes", "no", "error"
  ChainLength, \* task -> how many filters are between it and the task above
  Groups,
  GroupOf,     \* OutputGroup task -> group
  Outputs,
  OutputsOf,   \* group -> its outputs in order
  InCapacity,  \* in_queue_capacity
  Capacity,    \* filter_concurrency, as the capacity of the group queues
  MayFail,     \* filters and sinks fail, and so does starting them
  NoEvent

ASSUME PipelineAssumption ==
  /\ NEvents \in Nat
  /\ Root \in Tasks
  /\ Branches \in [Tasks -> Seq(Tasks)]
  /\ ChainLength \in [Tasks -> Nat]
  /\ OutputsOf \in [Groups -> Seq(Outputs) \ {<<>>}]
  /\ InCapacity \in Nat \ {0, 1}
  /\ Capacity \in Nat \ {0}
  /\ MayFail \in BOOLEAN

Leaves == {t \in Tasks : Branches[t] = <<>>}

Children(t) == {Branches[t][k] : k \in DOMAIN Branches[t]}

\* What hangs below a task in the node tree.
Below(t) ==
  {u \in Tasks : \A S \in SUBSET Tasks :
     Children(t) \union UNION {Children(v) : v \in S} \subseteq S => u \in S}

\* A Node owns the nodes below it, and an OutputGroup its outputs.
ASSUME TreeAssumption ==
  /\ \A t, u \in Tasks : t # u => Children(t) \cap Children(u) = {}
  /\ \A t \in Tasks : Root \notin Children(t) /\ t \notin Below(t)

ASSUME GroupAssumption ==
  /\ GroupOf \in [Leaves -> Groups]
  /\ \A t, u \in Leaves : GroupOf[t] = GroupOf[u] => t = u
  /\ \A o \in Outputs : \E g \in Groups : \E k \in DOMAIN OutputsOf[g] : OutputsOf[g][k] = o
  /\ \A g, h \in Groups : \A j \in DOMAIN OutputsOf[g], k \in DOMAIN OutputsOf[h] :
       OutputsOf[g][j] = OutputsOf[h][k] => g = h /\ j = k

Events == [input : Inputs, seq : 1 .. NEvents]

ASSUME EventAssumption == NoEvent \notin Events

VARIABLES
  fetched,   \* input: how many events its stream has yielded, as its metric counts them
  outgoing,  \*   the one not yet in in_queue
  ist,       \*   running | ended
  inq,       \* in_queue
  tst,       \* graph task, per copy: starting | running | ended
  chan,      \*   the channel it reads; the root reads in_queue
  holding,   \*   the event it is about to hand on
  chain,     \*   how many filters its chain still has
  groupq,    \* the queue of an output group
  bst,       \* broadcast task of a group: running | ended
  sending,   \*   the event it is broadcasting
  left,      \*   the outputs it has yet to send it to
  outq,      \* the queue of an output
  ost,       \* output task: starting | running | ended | failed
  got,       \*   history: what its sink has taken
  accepted,  \* history: the events put into in_queue
  via,       \*   the copy of the graph an event went through
  passed     \*   <<event, task>>: how many filters of the task's chain it went through

inputVars == <<fetched, outgoing, ist, accepted>>
graphVars == <<tst, chan, holding, chain, via, passed>>
outputVars == <<bst, sending, left, outq, ost, got>>
vars == <<inputVars, inq, graphVars, groupq, outputVars>>

Init ==
  /\ fetched = [i \in Inputs |-> 0]
  /\ outgoing = [i \in Inputs |-> NoEvent]
  /\ ist = [i \in Inputs |-> "running"]
  /\ inq = <<>>
  /\ tst = [ct \in Copies \X Tasks |-> "starting"]
  /\ chan = [ct \in Copies \X Tasks |-> <<>>]
  /\ holding = [ct \in Copies \X Tasks |-> NoEvent]
  /\ chain = [ct \in Copies \X Tasks |-> ChainLength[ct[2]]]
  /\ groupq = [g \in Groups |-> <<>>]
  /\ bst = [g \in Groups |-> "running"]
  /\ sending = [g \in Groups |-> NoEvent]
  /\ left = [g \in Groups |-> <<>>]
  /\ outq = [o \in Outputs |-> <<>>]
  /\ ost = [o \in Outputs |-> "starting"]
  /\ got = [o \in Outputs |-> <<>>]
  /\ accepted = {}
  /\ via = [e \in Events |-> {}]
  /\ passed = [et \in Events \X Tasks |-> 0]

-----------------------------------------------------------------------------
(* Inputs: start_inputs                                                    *)

\* The stream's next event, counted by inspect.
Fetch(i) ==
  /\ ist[i] = "running"
  /\ outgoing[i] = NoEvent
  /\ fetched[i] < NEvents
  /\ fetched' = [fetched EXCEPT ![i] = @ + 1]
  /\ outgoing' = [outgoing EXCEPT ![i] = [input |-> i, seq |-> fetched'[i]]]
  /\ UNCHANGED <<ist, inq, accepted>>

InQueueHasReceiver == \E c \in Copies : tst[<<c, Root>>] # "ended"

\* Mutant of Enqueue: a full queue that has lost its receivers is waited for.
EnqueueWaits(i) ==
  /\ outgoing[i] # NoEvent
  /\ Len(inq) < InCapacity
  /\ inq' = Append(inq, outgoing[i])
  /\ accepted' = accepted \union {outgoing[i]}
  /\ outgoing' = [outgoing EXCEPT ![i] = NoEvent]
  /\ UNCHANGED <<fetched, ist>>

\* forward: the queue takes the event, or has lost its receivers.
Enqueue(i) ==
  /\ outgoing[i] # NoEvent
  /\ outgoing' = [outgoing EXCEPT ![i] = NoEvent]
  /\ \/ /\ InQueueHasReceiver
        /\ Len(inq) < InCapacity
        /\ inq' = Append(inq, outgoing[i])
        /\ accepted' = accepted \union {outgoing[i]}
        /\ UNCHANGED ist
     \/ /\ ~InQueueHasReceiver
        /\ ist' = [ist EXCEPT ![i] = "ended"]
        /\ UNCHANGED <<inq, accepted>>
  /\ UNCHANGED fetched

InputEnd(i) ==
  /\ ist[i] = "running"
  /\ outgoing[i] = NoEvent
  /\ fetched[i] = NEvents
  /\ ist' = [ist EXCEPT ![i] = "ended"]
  /\ UNCHANGED <<fetched, outgoing, inq, accepted>>

Input(i) ==
  /\ Fetch(i) \/ Enqueue(i) \/ InputEnd(i)
  /\ UNCHANGED <<graphVars, groupq, outputVars>>

-----------------------------------------------------------------------------
(* The filter graphs: start, start_graph, chain_filters                    *)

\* join_all of the filters' starts: the copy's tasks are spawned, or none of them is.
StartGraph(c) ==
  /\ tst[<<c, Root>>] = "starting"
  /\ \E result \in IF MayFail THEN {"running", "ended"} ELSE {"running"} :
       tst' = [ct \in Copies \X Tasks |-> IF ct[1] = c THEN result ELSE tst[ct]]
  /\ UNCHANGED <<inq, chan, holding, chain, via, passed, groupq>>

\* The task ends: what it was reading, and what it held, is gone.
Ends(c, t) ==
  /\ tst' = [tst EXCEPT ![<<c, t>>] = "ended"]
  /\ chan' = [chan EXCEPT ![<<c, t>>] = <<>>]
  /\ holding' = [holding EXCEPT ![<<c, t>>] = NoEvent]

Ready(c, t) == tst[<<c, t>>] = "running" /\ holding[<<c, t>>] = NoEvent

\* The next event of the stream, filtered.  The first event drains all filters but one
\* out of the chain.
Pull(c, t) ==
  LET source == IF t = Root THEN inq ELSE chan[<<c, t>>]
      e      == Head(source)
  IN  /\ Ready(c, t)
      /\ source # <<>>
      /\ holding' = [holding EXCEPT ![<<c, t>>] = e]
      /\ IF t = Root
           THEN inq' = Tail(inq) /\ UNCHANGED chan
           ELSE chan' = [chan EXCEPT ![<<c, t>>] = Tail(@)] /\ UNCHANGED inq
      /\ passed' = [passed EXCEPT ![<<e, t>>] = chain[<<c, t>>]]
      /\ chain' = [chain EXCEPT ![<<c, t>>] = IF @ > 1 THEN 1 ELSE @]
      /\ via' = [via EXCEPT ![e] = {c}]
      /\ UNCHANGED <<tst, groupq>>

\* A filter answers an error: map_err, and the task is over.
FilterFails(c, t) ==
  /\ MayFail
  /\ tst[<<c, t>>] = "running"
  /\ holding[<<c, t>>] # NoEvent
  /\ ChainLength[t] > 0
  /\ Ends(c, t)
  /\ UNCHANGED <<inq, chain, via, passed, groupq>>

Parent(t) == CHOOSE p \in Tasks : \E k \in DOMAIN Branches[p] : Branches[p][k] = t

\* All the senders of what the task reads are gone.
SourceClosed(c, t) ==
  IF t = Root
    THEN inq = <<>> /\ \A i \in Inputs : ist[i] = "ended"
    ELSE chan[<<c, t>>] = <<>> /\ tst[<<c, Parent(t)>>] = "ended"

TaskEnd(c, t) ==
  /\ Ready(c, t)
  /\ SourceClosed(c, t)
  /\ Ends(c, t)
  /\ UNCHANGED <<inq, chain, via, passed, groupq>>

\* The branch that gets the event: the first whose predicate does not say no, if it says
\* yes.
Taker(t, e) ==
  {Branches[t][k] : k \in {j \in DOMAIN Branches[t] :
     /\ Verdict[Branches[t][j]][e.seq] = "yes"
     /\ \A i \in 1 .. j - 1 : Verdict[Branches[t][i]][e.seq] = "no"}}

\* Switch: an event that no branch wants, or whose predicate fails, is dropped.
Switch(c, t) ==
  LET e == holding[<<c, t>>]
  IN  /\ t \notin Leaves
      /\ e # NoEvent
      /\ \/ /\ Taker(t, e) = {}
            /\ holding' = [holding EXCEPT ![<<c, t>>] = NoEvent]
            /\ UNCHANGED <<tst, chan>>
         \/ \E b \in Taker(t, e) :
              \/ /\ tst[<<c, b>>] # "ended"
                 /\ chan' = [chan EXCEPT ![<<c, b>>] = Append(@, e)]
                 /\ holding' = [holding EXCEPT ![<<c, t>>] = NoEvent]
                 /\ UNCHANGED tst
              \/ /\ tst[<<c, b>>] = "ended"
                 /\ Ends(c, t)
      /\ UNCHANGED <<inq, chain, via, passed, groupq>>

\* The senders of a group's queue: the OutputGroup tasks that are not over.
Feeders(g) == {ct \in Copies \X Leaves : GroupOf[ct[2]] = g /\ tst[ct] # "ended"}

\* Mutant of Forward: the event jumps the group's queue.
ForwardAtFront(c, t) ==
  LET g == GroupOf[t]
  IN  /\ t \in Leaves
      /\ holding[<<c, t>>] # NoEvent
      /\ Len(groupq[g]) < Capacity + Cardinality(Feeders(g))
      /\ groupq' = [groupq EXCEPT ![g] = <<holding[<<c, t>>]>> \o @]
      /\ holding' = [holding EXCEPT ![<<c, t>>] = NoEvent]
      /\ UNCHANGED <<tst, chan, inq, chain, via, passed>>

\* forward: the group's queue takes the event, or its receiver is gone.
Forward(c, t) ==
  LET e == holding[<<c, t>>]
      g == GroupOf[t]
  IN  /\ t \in Leaves
      /\ e # NoEvent
      /\ \/ /\ bst[g] = "running"
            /\ Len(groupq[g]) < Capacity + Cardinality(Feeders(g))
            /\ groupq' = [groupq EXCEPT ![g] = Append(@, e)]
            /\ holding' = [holding EXCEPT ![<<c, t>>] = NoEvent]
            /\ UNCHANGED <<tst, chan>>
         \/ /\ bst[g] = "ended"
            /\ Ends(c, t)
            /\ UNCHANGED groupq
      /\ UNCHANGED <<inq, chain, via, passed>>

Task(c, t) == Pull(c, t) \/ TaskEnd(c, t) \/ Switch(c, t) \/ Forward(c, t)

Start(c) == StartGraph(c) /\ UNCHANGED <<inputVars, outputVars>>

Run(c, t) == Task(c, t) /\ UNCHANGED <<inputVars, outputVars>>

Fail(c, t) == FilterFails(c, t) /\ UNCHANGED <<inputVars, outputVars>>

-----------------------------------------------------------------------------
(* Output groups: start_output_group                                       *)

\* Mutant of Broadcast: the last output is left out.
BroadcastAllButLast(g) ==
  /\ bst[g] = "running"
  /\ sending[g] = NoEvent
  /\ groupq[g] # <<>>
  /\ sending' = [sending EXCEPT ![g] = Head(groupq[g])]
  /\ left' = [left EXCEPT ![g] = Front(OutputsOf[g])]
  /\ groupq' = [groupq EXCEPT ![g] = Tail(@)]
  /\ UNCHANGED <<bst, outq, ost, got>>

\* for_each: the next event, to be sent to every output.
Broadcast(g) ==
  /\ bst[g] = "running"
  /\ sending[g] = NoEvent
  /\ groupq[g] # <<>>
  /\ sending' = [sending EXCEPT ![g] = Head(groupq[g])]
  /\ left' = [left EXCEPT ![g] = OutputsOf[g]]
  /\ groupq' = [groupq EXCEPT ![g] = Tail(@)]
  /\ UNCHANGED <<bst, outq, ost, got>>

BroadcasterEnds(g) ==
  /\ bst' = [bst EXCEPT ![g] = "ended"]
  /\ sending' = [sending EXCEPT ![g] = NoEvent]
  /\ left' = [left EXCEPT ![g] = <<>>]
  /\ groupq' = [groupq EXCEPT ![g] = <<>>]

\* Mutant of SendOne: an output that has not started misses the event.
SendIfStarted(g) ==
  /\ sending[g] # NoEvent
  /\ LET o == Head(left[g])
     IN  outq' = IF ost[o] = "running" THEN [outq EXCEPT ![o] = Append(@, sending[g])]
                 ELSE outq
  /\ left' = [left EXCEPT ![g] = Tail(@)]
  /\ sending' = [sending EXCEPT ![g] = IF left'[g] = <<>> THEN NoEvent ELSE @]
  /\ UNCHANGED <<bst, groupq, ost, got>>

\* FuturesUnordered: one of the sends.  When an output's queue has lost its receiver
\* the others do not get the event either, unless they have it already.
SendOne(g) ==
  /\ sending[g] # NoEvent
  /\ LET o == Head(left[g])
     IN  \/ /\ ost[o] \in {"starting", "running"}
            /\ outq' = [outq EXCEPT ![o] = Append(@, sending[g])]
            /\ left' = [left EXCEPT ![g] = Tail(@)]
            /\ sending' = [sending EXCEPT ![g] = IF Tail(left[g]) = <<>> THEN NoEvent ELSE @]
            /\ UNCHANGED <<bst, groupq>>
         \/ /\ ost[o] \in {"ended", "failed"}
            /\ BroadcasterEnds(g)
            /\ UNCHANGED outq
  /\ UNCHANGED <<ost, got>>

\* All senders of the group's queue are gone.
BroadcastEnd(g) ==
  /\ bst[g] = "running"
  /\ sending[g] = NoEvent
  /\ groupq[g] = <<>>
  /\ Feeders(g) = {}
  /\ BroadcasterEnds(g)
  /\ UNCHANGED <<outq, ost, got>>

StartOutput(o) ==
  /\ ost[o] = "starting"
  /\ ost' = [ost EXCEPT ![o] = "running"]
  /\ UNCHANGED <<outq, got>>

\* forward: the sink takes the next event.
Deliver(o) ==
  /\ ost[o] = "running"
  /\ outq[o] # <<>>
  /\ got' = [got EXCEPT ![o] = Append(@, Head(outq[o]))]
  /\ outq' = [outq EXCEPT ![o] = Tail(@)]
  /\ UNCHANGED ost

\* The output does not start, or its sink fails: the receiver is dropped.
OutputFails(o) ==
  /\ MayFail
  /\ ost[o] \in {"starting", "running"}
  /\ ost' = [ost EXCEPT ![o] = "failed"]
  /\ outq' = [outq EXCEPT ![o] = <<>>]
  /\ UNCHANGED got

InGroup(o, g) == \E k \in DOMAIN OutputsOf[g] : OutputsOf[g][k] = o

OutputEnd(o) ==
  /\ ost[o] = "running"
  /\ outq[o] = <<>>
  /\ \A g \in Groups : InGroup(o, g) => bst[g] = "ended"
  /\ ost' = [ost EXCEPT ![o] = "ended"]
  /\ UNCHANGED <<outq, got>>

Output(o) == StartOutput(o) \/ Deliver(o) \/ OutputEnd(o)

Broadcaster(g) ==
  /\ Broadcast(g) \/ SendOne(g) \/ BroadcastEnd(g)
  /\ UNCHANGED <<inputVars, inq, graphVars>>

Sink(o) == Output(o) /\ UNCHANGED <<inputVars, inq, graphVars, groupq, bst, sending, left>>

SinkFails(o) ==
  /\ OutputFails(o)
  /\ UNCHANGED <<inputVars, inq, graphVars, groupq, bst, sending, left>>

-----------------------------------------------------------------------------
Next ==
  \/ \E i \in Inputs : Input(i)
  \/ \E c \in Copies : Start(c) \/ \E t \in Tasks : Run(c, t) \/ Fail(c, t)
  \/ \E g \in Groups : Broadcaster(g)
  \/ \E o \in Outputs : Sink(o) \/ SinkFails(o)

\* The executor polls every task that can go on; nothing has to fail.
Fairness ==
  /\ \A i \in Inputs : WF_vars(Input(i))
  /\ \A c \in Copies : WF_vars(Start(c)) /\ \A t \in Tasks : WF_vars(Run(c, t))
  /\ \A g \in Groups : WF_vars(Broadcaster(g))
  /\ \A o \in Outputs : WF_vars(Sink(o))

Spec == Init /\ [][Next]_vars /\ Fairness

-----------------------------------------------------------------------------
OrNone == Events \union {NoEvent}

\* Types; a task holds an event only while it runs, and a broadcaster has outputs left
\* to send to exactly while it has an event.
TypeOK ==
  /\ fetched \in [Inputs -> 0 .. NEvents]
  /\ outgoing \in [Inputs -> OrNone]
  /\ ist \in [Inputs -> {"running", "ended"}]
  /\ inq \in Seq(Events)
  /\ tst \in [Copies \X Tasks -> {"starting", "running", "ended"}]
  /\ chan \in [Copies \X Tasks -> Seq(Events)]
  /\ holding \in [Copies \X Tasks -> OrNone]
  /\ chain \in [Copies \X Tasks -> Nat]
  /\ groupq \in [Groups -> Seq(Events)]
  /\ bst \in [Groups -> {"running", "ended"}]
  /\ sending \in [Groups -> OrNone]
  /\ left \in [Groups -> Seq(Outputs)]
  /\ outq \in [Outputs -> Seq(Events)]
  /\ ost \in [Outputs -> {"starting", "running", "ended", "failed"}]
  /\ got \in [Outputs -> Seq(Events)]
  /\ accepted \subseteq Events
  /\ via \in [Events -> SUBSET Copies]
  /\ passed \in [Events \X Tasks -> Nat]
  /\ \A ct \in Copies \X Tasks : holding[ct] # NoEvent => tst[ct] = "running"
  /\ \A g \in Groups : sending[g] = NoEvent <=> left[g] = <<>>

AreInGroup(o, p, g) == InGroup(o, g) /\ InGroup(p, g)

\* The outputs of a group are never out of step, failures or not: of what two of them
\* took, one is the beginning of the other (pipeline.rs:313-324).
OutputsAgree ==
  \A g \in Groups : \A o, p \in Outputs :
    AreInGroup(o, p, g) =>
      \A k \in DOMAIN got[o] \cap DOMAIN got[p] : got[o][k] = got[p][k]

\* Of the events of one input, those that went through the same copy of the graph get to
\* an output in the order of the input, and none twice; copies may overtake each other.
SameCopyInOrder ==
  \A o \in Outputs : \A j, k \in DOMAIN got[o] :
    LET d == got[o][j]
        e == got[o][k]
    IN  j < k /\ d.input = e.input /\ via[d] = via[e] => d.seq < e.seq

\* Whatever fails, and however far it cascades, when the inputs have ended every task
\* does: none waits for ever for a queue that nobody reads or fills.
Terminates ==
  <>(/\ \A i \in Inputs : ist[i] = "ended"
     /\ \A ct \in Copies \X Tasks : tst[ct] = "ended"
     /\ \A g \in Groups : bst[g] = "ended"
     /\ \A o \in Outputs : ost[o] \in {"ended", "failed"})

\* The line that pipeline.rs:269-270 wants rewritten "with less allocations" chains all the
\* filters of the node: an event that was filtered at all went through each of them.
AllFiltersApplied ==
  \A e \in Events, t \in Tasks : passed[<<e, t>>] \in {0, ChainLength[t]}

\* The tasks an event gets to from the root.
Reached(e) ==
  {t \in Tasks : \A S \in SUBSET Tasks :
     {Root} \union UNION {Taker(u, e) : u \in S} \subseteq S => t \in S}

Routes ==
  UNION {{e} \X {o \in Outputs : \E t \in Reached(e) \cap Leaves : InGroup(o, GroupOf[t])} :
           e \in Events}

Peers ==
  UNION {{o} \X {p \in Outputs : \E g \in Groups : AreInGroup(o, p, g)} : o \in Outputs}

\* While nothing fails the pipeline is a fan-out.
FanOut == INSTANCE Fanout

\* Each accepted event gets, once, to every output it is routed to, and nowhere else; the
\* outputs of a group get the same events in the same order.
ImplementsFanout == FanOut!Spec

\* Failures lose events, or keep them from some outputs, but what is delivered is still what a
\* fan-out may deliver (pipeline.rs:201-324).
FailsSafely == FanOut!Init /\ [][FanOut!Next]_<<accepted, got>>
=============================================================================
