--------------------------- MODULE PipelineProofs ---------------------------
(***************************************************************************)
(* Proofs about Pipeline.tla, for any tree of nodes, any number of inputs, *)
(* copies, groups and outputs, and with failures anywhere: the types, that *)
(* the outputs of a group agree, that events which share a copy of the     *)
(* graph keep their order, and the safety half of the refinement of        *)
(* Fanout.tla.  That everything ends, or is delivered, depends on fairness *)
(* and stays with TLC.                                                     *)
(***************************************************************************)
EXTENDS Pipeline, SequenceTheorems, TLAPS

In(e, s) == \E k \in DOMAIN s : s[k] = e

\* d does not overtake e, or does not if they went through the same copy of the graph.
Before(d, e) == d.input = e.input => d.seq < e.seq

BeforeInCopy(d, e, v) == d.input = e.input /\ v[d] = v[e] => d.seq < e.seq

Sorted(s) == \A j, k \in DOMAIN s : j < k => Before(s[j], s[k])

SortedInCopy(s, v) == \A j, k \in DOMAIN s : j < k => BeforeInCopy(s[j], s[k], v)

\* The event is with the task of that copy.
AtTask(e, c, t) == holding[<<c, t>>] = e \/ In(e, chan[<<c, t>>])

\* What an output gets: what it took, what waits for it, and what is being broadcast, unless
\* it has that already or is gone.
Alive(o) == ost[o] \in {"starting", "running"}

Waits(o, g) == Alive(o) /\ In(o, left[g])

Flow(o, g) ==
  (got[o] \o outq[o]) \o (IF Waits(o, g) THEN <<sending[g]>> ELSE <<>>)

\* The event has left the filter graphs for that group.
Beyond(d, g) ==
  \/ In(d, groupq[g])
  \/ sending[g] = d
  \/ \E o \in Outputs : InGroup(o, g) /\ In(d, Flow(o, g))

\* The tasks of a copy start together.
StartTogether ==
  \A c \in Copies, t \in Tasks : tst[<<c, t>>] = "starting" <=> tst[<<c, Root>>] = "starting"

TypeInv == TypeOK /\ StartTogether

-----------------------------------------------------------------------------
(* Inputs *)

\* An input hands over one event after the other.
OutgoingIsNext ==
  \A i \in Inputs : outgoing[i] # NoEvent => outgoing[i] = [input |-> i, seq |-> fetched[i]]

AcceptedInOrder ==
  \A e \in accepted :
    /\ e.seq <= fetched[e.input]
    /\ outgoing[e.input] # NoEvent => e.seq < fetched[e.input]

\* Whatever is in the pipeline was accepted.
AllAccepted ==
  /\ \A e \in Events : In(e, inq) => e \in accepted
  /\ \A e \in Events, c \in Copies, t \in Tasks : AtTask(e, c, t) => e \in accepted
  /\ \A e \in Events, g \in Groups : Beyond(e, g) => e \in accepted

\* The queue is in order, and whatever has left it came before what is in it.
QueueInOrder ==
  /\ Sorted(inq)
  /\ \A d, e \in Events : In(e, inq) =>
       /\ \A c \in Copies, t \in Tasks : AtTask(d, c, t) => Before(d, e)
       /\ \A g \in Groups : Beyond(d, g) => Before(d, e)

(* The graph *)

RootReadsQueue == \A c \in Copies : chan[<<c, Root>>] = <<>>

\* A task has the events that were routed to it, in order.
TasksInOrder ==
  \A c \in Copies, t \in Tasks :
    /\ Sorted(chan[<<c, t>>])
    /\ \A d, e \in Events : holding[<<c, t>>] = d /\ In(e, chan[<<c, t>>]) => Before(d, e)
    /\ \A e \in Events : AtTask(e, c, t) => via[e] = {c} /\ t \in Reached(e)

\* Events overtake each other only in different branches.
TreeInOrder ==
  \A c \in Copies, p \in Tasks : \A t \in Below(p) : \A d, e \in Events :
    AtTask(d, c, t) /\ AtTask(e, c, p) => Before(d, e)

LeavesInOrder ==
  \A c \in Copies, t \in Leaves, p \in Tasks : p = t \/ t \in Below(p) =>
    \A d, e \in Events :
      Beyond(d, GroupOf[t]) /\ via[d] = {c} /\ AtTask(e, c, p) => Before(d, e)

(* The groups *)

Routed ==
  \A g \in Groups, d \in Events :
    Beyond(d, g) => \E t \in Leaves : t \in Reached(d) /\ GroupOf[t] = g

\* The outputs left are the last ones of the list.
LeftIsSuffix ==
  \A g \in Groups :
    /\ Len(left[g]) <= Len(OutputsOf[g])
    /\ \A k \in 1 .. Len(left[g]) :
         left[g][k] = OutputsOf[g][Len(OutputsOf[g]) - Len(left[g]) + k]

GroupsInOrder ==
  \A g \in Groups :
    /\ SortedInCopy(groupq[g], via)
    /\ \A d, e \in Events : sending[g] = d /\ In(e, groupq[g]) => BeforeInCopy(d, e, via)
    /\ \A o \in Outputs : InGroup(o, g) =>
         /\ SortedInCopy(Flow(o, g), via)
         /\ \A d, e \in Events : In(d, Flow(o, g)) /\ In(e, groupq[g]) => BeforeInCopy(d, e, via)

\* The outputs of a group get the same; while the broadcaster runs, those that are alive
\* have got as much as any.
FlowsAgree ==
  \A g \in Groups : \A o, p \in Outputs : AreInGroup(o, p, g) =>
    /\ \A k \in DOMAIN Flow(o, g) \cap DOMAIN Flow(p, g) : Flow(o, g)[k] = Flow(p, g)[k]
    /\ bst[g] = "running" /\ Alive(o) => Len(Flow(p, g)) <= Len(Flow(o, g))

InputInv == OutgoingIsNext /\ AcceptedInOrder /\ AllAccepted /\ QueueInOrder
GraphInv == RootReadsQueue /\ TasksInOrder /\ TreeInOrder /\ LeavesInOrder
GroupInv == Routed /\ LeftIsSuffix /\ GroupsInOrder /\ FlowsAgree

IInv == TypeInv /\ InputInv /\ GraphInv /\ GroupInv

-----------------------------------------------------------------------------
(* Sequences *)

LEMMA InTail ==
  ASSUME NEW S, NEW s \in Seq(S), s # <<>>
  PROVE  /\ Tail(s) \in Seq(S)
         /\ Head(s) \in S
         /\ In(Head(s), s)
         /\ \A e : In(e, s) <=> e = Head(s) \/ In(e, Tail(s))
<1>1. /\ Len(s) \in Nat \ {0}
      /\ DOMAIN s = 1 .. Len(s)
      /\ Head(s) = s[1]
      /\ Tail(s) \in Seq(S)
      /\ Len(Tail(s)) = Len(s) - 1
      /\ DOMAIN Tail(s) = 1 .. Len(s) - 1
      /\ \A k \in 1 .. Len(s) - 1 : Tail(s)[k] = s[k + 1]
  OBVIOUS
<1>2. ASSUME NEW e, In(e, s) PROVE e = Head(s) \/ In(e, Tail(s))
  <2>1. PICK k \in DOMAIN s : s[k] = e
    BY <1>2 DEF In
  <2>2. CASE k = 1
    BY <2>1, <2>2, <1>1
  <2>3. CASE k # 1
    <3>1. k - 1 \in 1 .. Len(s) - 1 /\ (k - 1) + 1 = k
      BY <2>3, <1>1
    <3> QED
      BY <3>1, <2>1, <1>1 DEF In
  <2> QED
    BY <2>2, <2>3
<1>3. ASSUME NEW e, In(e, Tail(s)) PROVE In(e, s)
  <2>1. PICK k \in 1 .. Len(s) - 1 : Tail(s)[k] = e
    BY <1>3, <1>1 DEF In
  <2> QED
    BY <2>1, <1>1 DEF In
<1>4. In(Head(s), s)
  BY <1>1 DEF In
<1> QED
  BY <1>1, <1>2, <1>3, <1>4

LEMMA InAppend ==
  ASSUME NEW S, NEW s \in Seq(S), NEW x \in S
  PROVE  /\ Append(s, x) \in Seq(S)
         /\ \A e : In(e, Append(s, x)) <=> e = x \/ In(e, s)
<1>1. /\ Len(s) \in Nat
      /\ DOMAIN s = 1 .. Len(s)
      /\ Append(s, x) \in Seq(S)
      /\ DOMAIN Append(s, x) = 1 .. Len(s) + 1
      /\ \A k \in 1 .. Len(s) : Append(s, x)[k] = s[k]
      /\ Append(s, x)[Len(s) + 1] = x
  OBVIOUS
<1> QED
  BY <1>1 DEF In

LEMMA InEmpty == \A e : ~In(e, <<>>)
BY DEF In

LEMMA SortedTail ==
  ASSUME NEW S, NEW s \in Seq(S), s # <<>>, Sorted(s)
  PROVE  /\ Sorted(Tail(s))
         /\ \A e : In(e, Tail(s)) => Before(Head(s), e)
<1>1. /\ Len(s) \in Nat \ {0}
      /\ DOMAIN s = 1 .. Len(s)
      /\ Head(s) = s[1]
      /\ DOMAIN Tail(s) = 1 .. Len(s) - 1
      /\ \A k \in 1 .. Len(s) - 1 : Tail(s)[k] = s[k + 1]
  OBVIOUS
<1> QED
  BY <1>1 DEF Sorted, In

LEMMA SortedAppend ==
  ASSUME NEW S, NEW s \in Seq(S), NEW x \in S, Sorted(s),
         \A e \in S : In(e, s) => Before(e, x)
  PROVE  Sorted(Append(s, x))
<1>1. /\ Len(s) \in Nat
      /\ DOMAIN s = 1 .. Len(s)
      /\ DOMAIN Append(s, x) = 1 .. Len(s) + 1
      /\ \A k \in 1 .. Len(s) : Append(s, x)[k] = s[k] /\ s[k] \in S
      /\ Append(s, x)[Len(s) + 1] = x
  OBVIOUS
<1> QED
  BY <1>1 DEF Sorted, In

LEMMA SortedInCopyTail ==
  ASSUME NEW S, NEW v, NEW s \in Seq(S), s # <<>>, SortedInCopy(s, v)
  PROVE  /\ SortedInCopy(Tail(s), v)
         /\ \A e : In(e, Tail(s)) => BeforeInCopy(Head(s), e, v)
<1>1. /\ Len(s) \in Nat \ {0}
      /\ DOMAIN s = 1 .. Len(s)
      /\ Head(s) = s[1]
      /\ DOMAIN Tail(s) = 1 .. Len(s) - 1
      /\ \A k \in 1 .. Len(s) - 1 : Tail(s)[k] = s[k + 1]
  OBVIOUS
<1> QED
  BY <1>1 DEF SortedInCopy, In

LEMMA SortedInCopyAppend ==
  ASSUME NEW S, NEW v, NEW s \in Seq(S), NEW x \in S, SortedInCopy(s, v),
         \A e \in S : In(e, s) => BeforeInCopy(e, x, v)
  PROVE  SortedInCopy(Append(s, x), v)
<1>1. /\ Len(s) \in Nat
      /\ DOMAIN s = 1 .. Len(s)
      /\ DOMAIN Append(s, x) = 1 .. Len(s) + 1
      /\ \A k \in 1 .. Len(s) : Append(s, x)[k] = s[k] /\ s[k] \in S
      /\ Append(s, x)[Len(s) + 1] = x
  OBVIOUS
<1> QED
  BY <1>1 DEF SortedInCopy, In

-----------------------------------------------------------------------------
(* Types *)

LEMMA Constants ==
  /\ NEvents \in Nat
  /\ NoEvent \notin Events
  /\ Root \in Tasks
  /\ \A t \in Tasks : Branches[t] \in Seq(Tasks)
  /\ \A t \in Tasks : ChainLength[t] \in Nat
  /\ \A t \in Leaves : t \in Tasks /\ GroupOf[t] \in Groups
  /\ \A g \in Groups : OutputsOf[g] \in Seq(Outputs) /\ OutputsOf[g] # <<>>
BY PipelineAssumption, GroupAssumption, EventAssumption DEF Leaves

LEMMA InitType == Init => TypeInv
<1> SUFFICES ASSUME Init PROVE TypeInv
  OBVIOUS
<1>1. TypeOK
  BY Constants DEF Init, TypeOK, OrNone
<1>2. StartTogether
  BY Constants DEF Init, StartTogether
<1> QED
  BY <1>1, <1>2 DEF TypeInv

LEMMA TakerIsTask ==
  ASSUME NEW t \in Tasks, NEW e
  PROVE  Taker(t, e) \subseteq Tasks \cap Children(t)
BY Constants DEF Taker, Children

LEMMA EndsType ==
  ASSUME TypeOK, NEW c \in Copies, NEW t \in Tasks, Ends(c, t)
  PROVE  /\ tst' \in [Copies \X Tasks -> {"starting", "running", "ended"}]
         /\ chan' \in [Copies \X Tasks -> Seq(Events)]
         /\ holding' \in [Copies \X Tasks -> OrNone]
         /\ \A ct \in Copies \X Tasks : holding'[ct] # NoEvent => tst'[ct] = "running"
BY DEF TypeOK, Ends, OrNone

LEMMA InputType ==
  ASSUME TypeOK, NEW i \in Inputs, Input(i)
  PROVE  TypeOK'
<1> USE Constants DEF TypeOK, OrNone, Input, graphVars, outputVars
<1>1. CASE Fetch(i)
  <2>1. [input |-> i, seq |-> fetched[i] + 1] \in Events
    BY <1>1 DEF Fetch, Events
  <2> QED
    BY <1>1, <2>1 DEF Fetch
<1>2. CASE Enqueue(i)
  <2>1. outgoing[i] \in Events
    BY <1>2 DEF Enqueue
  <2>2. Append(inq, outgoing[i]) \in Seq(Events)
    BY <2>1
  <2>3. /\ fetched' = fetched
        /\ outgoing' \in [Inputs -> Events \union {NoEvent}]
        /\ inq' \in Seq(Events)
        /\ ist' \in [Inputs -> {"running", "ended"}]
        /\ accepted' \subseteq Events
    BY <1>2, <2>1, <2>2 DEF Enqueue
  <2> QED
    BY <2>3
<1>3. CASE InputEnd(i)
  BY <1>3 DEF InputEnd
<1> QED
  BY <1>1, <1>2, <1>3

LEMMA TaskType ==
  ASSUME TypeOK, NEW c \in Copies, NEW t \in Tasks, Run(c, t) \/ Fail(c, t)
  PROVE  TypeOK'
<1> USE Constants DEF Run, Fail, Task, inputVars, outputVars
<1>1. CASE Pull(c, t)
  <2> DEFINE source == IF t = Root THEN inq ELSE chan[<<c, t>>]
             e      == Head(source)
  <2>1. source \in Seq(Events) /\ source # <<>>
    BY <1>1 DEF Pull, TypeOK
  <2>2. e \in Events /\ Tail(source) \in Seq(Events)
    BY <2>1, InTail
  <2>3. tst[<<c, t>>] = "running"
    BY <1>1 DEF Pull, Ready
  <2> QED
    BY <1>1, <2>2, <2>3, ZenonT(60) DEF Pull, TypeOK, OrNone
<1>2. CASE TaskEnd(c, t)
  BY <1>2, EndsType DEF TaskEnd, TypeOK
<1>3. CASE FilterFails(c, t)
  BY <1>3, EndsType DEF FilterFails, TypeOK
<1>4. CASE Switch(c, t)
  <2> DEFINE e == holding[<<c, t>>]
  <2>1. e \in Events
    BY <1>4 DEF Switch, TypeOK, OrNone
  <2>2. CASE Taker(t, e) = {} /\ holding' = [holding EXCEPT ![<<c, t>>] = NoEvent]
                /\ UNCHANGED <<tst, chan>>
    BY <1>4, <2>2 DEF Switch, TypeOK, OrNone
  <2>3. ASSUME NEW b \in Taker(t, e),
               chan' = [chan EXCEPT ![<<c, b>>] = Append(@, e)],
               holding' = [holding EXCEPT ![<<c, t>>] = NoEvent], UNCHANGED tst
        PROVE  TypeOK'
    <3>1. b \in Tasks
      BY TakerIsTask
    <3>2. Append(chan[<<c, b>>], e) \in Seq(Events)
      BY <2>1, <3>1 DEF TypeOK
    <3> QED
      BY <1>4, <2>3, <3>1, <3>2 DEF Switch, TypeOK, OrNone
  <2>4. CASE Ends(c, t)
    BY <1>4, <2>4, EndsType, ZenonT(60) DEF Switch, TypeOK
  <2> QED
    BY <1>4, <2>2, <2>3, <2>4 DEF Switch
<1>5. CASE Forward(c, t)
  <2> DEFINE e == holding[<<c, t>>]
             g == GroupOf[t]
  <2>1. e \in Events /\ g \in Groups
    BY <1>5 DEF Forward, TypeOK, OrNone
  <2>2. CASE groupq' = [groupq EXCEPT ![g] = Append(@, e)]
                /\ holding' = [holding EXCEPT ![<<c, t>>] = NoEvent] /\ UNCHANGED <<tst, chan>>
    <3>1. Append(groupq[g], e) \in Seq(Events)
      BY <2>1 DEF TypeOK
    <3> QED
      BY <1>5, <2>1, <2>2, <3>1 DEF Forward, TypeOK, OrNone
  <2>3. CASE Ends(c, t) /\ UNCHANGED groupq
    <3>1. UNCHANGED <<inq, chain, via, passed, fetched, outgoing, ist, accepted>>
      BY <1>5 DEF Forward
    <3>2. UNCHANGED <<bst, sending, left, outq, ost, got>>
      OBVIOUS
    <3> QED
      BY <2>3, <3>1, <3>2, EndsType DEF TypeOK
  <2> QED
    BY <1>5, <2>2, <2>3 DEF Forward
<1> QED
  BY <1>1, <1>2, <1>3, <1>4, <1>5

LEMMA StartType ==
  ASSUME TypeInv, NEW c \in Copies, Start(c)
  PROVE  TypeOK' /\ StartTogether'
<1>1. PICK result \in {"running", "ended"} :
        tst' = [ct \in Copies \X Tasks |-> IF ct[1] = c THEN result ELSE tst[ct]]
  BY DEF Start, StartGraph
<1>2. UNCHANGED <<inputVars, inq, chan, holding, chain, via, passed, groupq, outputVars>>
  BY DEF Start, StartGraph
<1>3. tst[<<c, Root>>] = "starting" /\ \A t \in Tasks : tst[<<c, t>>] = "starting"
  BY Constants DEF Start, StartGraph, TypeInv, StartTogether
<1>4. \A ct \in Copies \X Tasks : holding[ct] # NoEvent => tst'[ct] = tst[ct]
  <2> SUFFICES ASSUME NEW d \in Copies, NEW t \in Tasks, holding[<<d, t>>] # NoEvent
               PROVE  tst'[<<d, t>>] = tst[<<d, t>>]
    OBVIOUS
  <2>1. d # c
    BY <1>3 DEF TypeInv, TypeOK
  <2> QED
    BY <2>1, <1>1
<1>5. TypeOK'
  BY <1>1, <1>2, <1>4 DEF TypeInv, TypeOK, inputVars, outputVars
<1>6. StartTogether'
  BY <1>1, Constants DEF TypeInv, StartTogether
<1> QED
  BY <1>5, <1>6

LEMMA BroadcasterType ==
  ASSUME TypeOK, NEW g \in Groups, Broadcaster(g)
  PROVE  TypeOK'
<1> USE Constants DEF Broadcaster, inputVars, graphVars
<1>0. ASSUME BroadcasterEnds(g), UNCHANGED <<outq, ost, got>>
      PROVE  TypeOK'
  BY <1>0 DEF BroadcasterEnds, TypeOK, OrNone
<1>1. CASE Broadcast(g)
  <2>1. Head(groupq[g]) \in Events /\ Tail(groupq[g]) \in Seq(Events)
    BY <1>1, InTail DEF Broadcast, TypeOK
  <2> QED
    BY <1>1, <2>1 DEF Broadcast, TypeOK, OrNone
<1>2. CASE SendOne(g)
  <2>1. sending[g] \in Events /\ left[g] \in Seq(Outputs) /\ left[g] # <<>>
    BY <1>2 DEF SendOne, TypeOK, OrNone
  <2> DEFINE o == Head(left[g])
  <2>2. o \in Outputs /\ Tail(left[g]) \in Seq(Outputs)
    BY <2>1, InTail
  <2>3. CASE BroadcasterEnds(g) /\ UNCHANGED outq
    BY <1>0, <1>2, <2>3 DEF SendOne
  <2>4. CASE /\ outq' = [outq EXCEPT ![o] = Append(@, sending[g])]
             /\ left' = [left EXCEPT ![g] = Tail(@)]
             /\ sending' =
                  [sending EXCEPT ![g] = IF Tail(left[g]) = <<>> THEN NoEvent ELSE @]
             /\ UNCHANGED <<bst, groupq>>
    <3>1. Append(outq[o], sending[g]) \in Seq(Events)
      BY <2>1, <2>2 DEF TypeOK
    <3> QED
      BY <1>2, <2>1, <2>2, <2>4, <3>1 DEF SendOne, TypeOK, OrNone
  <2> QED
    BY <1>2, <2>3, <2>4 DEF SendOne
<1>3. CASE BroadcastEnd(g)
  BY <1>0, <1>3 DEF BroadcastEnd
<1> QED
  BY <1>1, <1>2, <1>3

LEMMA OutputType ==
  ASSUME TypeOK, NEW o \in Outputs, Sink(o) \/ SinkFails(o)
  PROVE  TypeOK'
<1> USE Constants DEF Sink, SinkFails, Output, inputVars, graphVars, TypeOK
<1>1. CASE StartOutput(o)
  BY <1>1 DEF StartOutput
<1>2. CASE Deliver(o)
  <2>1. Head(outq[o]) \in Events /\ Tail(outq[o]) \in Seq(Events)
    BY <1>2, InTail DEF Deliver
  <2>2. Append(got[o], Head(outq[o])) \in Seq(Events)
    BY <2>1
  <2> QED
    BY <1>2, <2>1, <2>2 DEF Deliver
<1>3. CASE OutputEnd(o)
  BY <1>3, SMTT(30) DEF OutputEnd
<1>4. CASE OutputFails(o)
  BY <1>4 DEF OutputFails
<1> QED
  BY <1>1, <1>2, <1>3, <1>4

\* Only a task that runs can end.
LEMMA TaskStart ==
  ASSUME TypeInv, NEW c \in Copies, NEW t \in Tasks, Run(c, t) \/ Fail(c, t)
  PROVE  StartTogether'
<1>1. CASE UNCHANGED tst
  BY <1>1 DEF TypeInv, StartTogether
<1>2. CASE tst' = [tst EXCEPT ![<<c, t>>] = "ended"] /\ tst[<<c, t>>] = "running"
  <2>1. \A d \in Copies, u \in Tasks : tst'[<<d, u>>] = "starting" <=> tst[<<d, u>>] = "starting"
    BY <1>2 DEF TypeInv, TypeOK
  <2> QED
    BY <2>1, Constants DEF TypeInv, StartTogether
<1>3. holding[<<c, t>>] # NoEvent => tst[<<c, t>>] = "running"
  BY DEF TypeInv, TypeOK
<1> QED
  BY <1>1, <1>2, <1>3
  DEF Run, Fail, Task, Pull, TaskEnd, FilterFails, Switch, Forward, Ends, Ready

LEMMA NextType == TypeInv /\ [Next]_vars => TypeInv'
<1> SUFFICES ASSUME TypeInv, [Next]_vars PROVE TypeInv'
  OBVIOUS
<1>t. TypeOK
  BY DEF TypeInv
<1>1. ASSUME UNCHANGED tst PROVE StartTogether'
  BY <1>1 DEF TypeInv, StartTogether
<1>2. ASSUME NEW i \in Inputs, Input(i) PROVE TypeInv'
  BY <1>1, <1>2, <1>t, InputType DEF TypeInv, Input, graphVars
<1>3. ASSUME NEW c \in Copies, Start(c) PROVE TypeInv'
  BY <1>3, StartType DEF TypeInv
<1>4. ASSUME NEW c \in Copies, NEW t \in Tasks, Run(c, t) \/ Fail(c, t) PROVE TypeInv'
  BY <1>4, <1>t, TaskType, TaskStart DEF TypeInv
<1>5. ASSUME NEW g \in Groups, Broadcaster(g) PROVE TypeInv'
  BY <1>1, <1>5, <1>t, BroadcasterType DEF TypeInv, Broadcaster, graphVars
<1>6. ASSUME NEW o \in Outputs, Sink(o) \/ SinkFails(o) PROVE TypeInv'
  BY <1>1, <1>6, <1>t, OutputType DEF TypeInv, Sink, SinkFails, graphVars
<1>7. CASE UNCHANGED vars
  BY <1>1, <1>7, <1>t DEF vars, inputVars, graphVars, outputVars, TypeOK, TypeInv
<1> QED
  BY <1>2, <1>3, <1>4, <1>5, <1>6, <1>7 DEF Next

\* Type correctness, that a task which holds an event runs included.
THEOREM TypeCorrect == Spec => []TypeOK
<1>1. Init => TypeInv
  BY InitType
<1>2. TypeInv /\ [Next]_vars => TypeInv'
  BY NextType
<1>3. TypeInv => TypeOK
  BY DEF TypeInv
<1> QED
  BY <1>1, <1>2, <1>3, PTL DEF Spec

-----------------------------------------------------------------------------
(* The tree *)

LEMMA ChildrenAreTasks == \A t \in Tasks : Children(t) \subseteq Tasks
BY Constants DEF Children

LEMMA ChildBelow ==
  ASSUME NEW p \in Tasks, NEW b \in Children(p)
  PROVE  b \in Below(p)
BY ChildrenAreTasks DEF Below

LEMMA BelowDown ==
  ASSUME NEW p \in Tasks, NEW t \in Below(p), NEW b \in Children(t)
  PROVE  b \in Below(p)
<1>1. t \in Tasks /\ b \in Tasks
  BY ChildrenAreTasks DEF Below
<1>2. ASSUME NEW S \in SUBSET Tasks, Children(p) \union UNION {Children(v) : v \in S} \subseteq S
      PROVE  b \in S
  <2>1. t \in S
    BY <1>2 DEF Below
  <2> QED
    BY <1>2, <2>1
<1> QED
  BY <1>1, <1>2 DEF Below

LEMMA BelowChild ==
  ASSUME NEW p \in Tasks, NEW b \in Children(p)
  PROVE  Below(b) \subseteq Below(p)
<1> SUFFICES ASSUME NEW u \in Below(b), NEW S \in SUBSET Tasks,
                    Children(p) \union UNION {Children(v) : v \in S} \subseteq S
             PROVE  u \in Tasks /\ u \in S
  BY DEF Below
<1>1. Children(b) \union UNION {Children(v) : v \in S} \subseteq S
  OBVIOUS
<1> QED
  BY <1>1 DEF Below

\* A task has one parent, and is below the same tasks as it.
LEMMA BelowParent ==
  ASSUME NEW p \in Tasks, NEW q \in Tasks, NEW b \in Children(q), b \in Below(p)
  PROVE  q = p \/ q \in Below(p)
<1> SUFFICES ASSUME q # p, q \notin Below(p) PROVE FALSE
  OBVIOUS
<1> DEFINE S == Below(p) \ {b}
<1>1. S \in SUBSET Tasks
  BY DEF Below
<1>2. Children(p) \subseteq S
  BY ChildBelow, TreeAssumption
<1>3. ASSUME NEW v \in S PROVE Children(v) \subseteq S
  <2>1. v \in Tasks /\ v # q
    BY DEF Below
  <2>2. b \notin Children(v)
    BY <2>1, TreeAssumption
  <2> QED
    BY <2>2, BelowDown
<1>4. Children(p) \union UNION {Children(v) : v \in S} \subseteq S
  BY <1>2, <1>3
<1> QED
  BY <1>1, <1>4 DEF Below

LEMMA RootOnTop == \A p \in Tasks : Root \notin Below(p)
<1> SUFFICES ASSUME NEW p \in Tasks PROVE Root \notin Below(p)
  OBVIOUS
<1> DEFINE S == Tasks \ {Root}
<1>1. \A v \in Tasks : Children(v) \subseteq S
  BY ChildrenAreTasks, TreeAssumption
<1>2. Children(p) \union UNION {Children(v) : v \in S} \subseteq S
  BY <1>1
<1> QED
  BY <1>2 DEF Below

LEMMA RootReached == \A e : Root \in Reached(e)
BY Constants DEF Reached

LEMMA TakerReached ==
  ASSUME NEW e, NEW t \in Reached(e), NEW b \in Taker(t, e)
  PROVE  b \in Reached(e)
<1>1. t \in Tasks /\ b \in Tasks
  BY TakerIsTask DEF Reached
<1> SUFFICES ASSUME NEW S \in SUBSET Tasks, {Root} \union UNION {Taker(u, e) : u \in S} \subseteq S
             PROVE  b \in S
  BY <1>1 DEF Reached
<1>2. t \in S
  BY DEF Reached
<1> QED
  BY <1>2

-----------------------------------------------------------------------------
(* What a step leaves alone *)

LEMMA BeforeIsStrict == \A e \in Events : ~Before(e, e)
BY Constants DEF Before, Events

LEMMA AtTaskSame ==
  ASSUME UNCHANGED <<holding, chan>>
  PROVE  \A e, c, t : AtTask(e, c, t)' <=> AtTask(e, c, t)
BY DEF AtTask

LEMMA FlowSame ==
  ASSUME UNCHANGED <<sending, left, outq, ost, got>>
  PROVE  \A o, g : Flow(o, g)' = Flow(o, g)
BY DEF Flow, Waits, Alive

LEMMA BeyondSame ==
  ASSUME UNCHANGED <<groupq, sending, left, outq, ost, got>>
  PROVE  \A d, g : Beyond(d, g)' <=> Beyond(d, g)
<1>1. \A o, g : Flow(o, g)' = Flow(o, g)
  BY FlowSame
<1> QED
  BY <1>1 DEF Beyond

LEMMA FlowType ==
  ASSUME TypeOK
  PROVE  \A o \in Outputs, g \in Groups : Flow(o, g) \in Seq(Events)
<1> SUFFICES ASSUME NEW o \in Outputs, NEW g \in Groups PROVE Flow(o, g) \in Seq(Events)
  OBVIOUS
<1>1. got[o] \o outq[o] \in Seq(Events)
  BY DEF TypeOK
<1>2. Waits(o, g) => sending[g] \in Events
  BY InEmpty DEF TypeOK, OrNone, Waits
<1>3. Waits(o, g) => <<sending[g]>> \in Seq(Events)
  BY <1>2
<1>4. <<>> \in Seq(Events)
  OBVIOUS
<1> QED
  BY <1>1, <1>3, <1>4, ConcatProperties DEF Flow

-----------------------------------------------------------------------------
(* Groups that a step of the graph does not touch *)

LEMMA InGroups ==
  ASSUME NEW g \in Groups, NEW d
  PROVE  /\ In(d, groupq[g]) => Beyond(d, g)
         /\ sending[g] = d => Beyond(d, g)
         /\ \A o \in Outputs : InGroup(o, g) /\ In(d, Flow(o, g)) => Beyond(d, g)
BY DEF Beyond

LEMMA SameCopies ==
  ASSUME NEW s \in Seq(Events), NEW v, NEW w, SortedInCopy(s, v),
         \A d \in Events : In(d, s) => w[d] = v[d]
  PROVE  SortedInCopy(s, w)
<1>1. \A k \in DOMAIN s : In(s[k], s) /\ s[k] \in Events
  BY DEF In
<1> QED
  BY <1>1 DEF SortedInCopy, BeforeInCopy

LEMMA GroupsUntouched ==
  ASSUME TypeOK, GroupInv, UNCHANGED <<groupq, outputVars>>,
         \A d \in Events, g \in Groups : Beyond(d, g) => via'[d] = via[d]
  PROVE  GroupInv'
<1>1. \A o, g : Flow(o, g)' = Flow(o, g)
  BY FlowSame DEF outputVars
<1>2. \A d, g : Beyond(d, g)' <=> Beyond(d, g)
  BY BeyondSame DEF outputVars
<1>3. UNCHANGED <<groupq, bst, sending, left, outq, ost, got>>
  BY DEF outputVars
<1>4. Routed' /\ LeftIsSuffix'
  BY <1>2, <1>3 DEF GroupInv, Routed, LeftIsSuffix
<1>5. FlowsAgree'
  BY <1>1, <1>3 DEF GroupInv, FlowsAgree, Alive
<1>6. GroupsInOrder'
  <2> SUFFICES ASSUME NEW g \in Groups
               PROVE  /\ SortedInCopy(groupq[g], via')
                      /\ \A d, e \in Events : sending[g] = d /\ In(e, groupq[g]) =>
                           BeforeInCopy(d, e, via')
                      /\ \A o \in Outputs : InGroup(o, g) =>
                           /\ SortedInCopy(Flow(o, g), via')
                           /\ \A d, e \in Events :
                                In(d, Flow(o, g)) /\ In(e, groupq[g]) => BeforeInCopy(d, e, via')
    BY <1>1, <1>3 DEF GroupsInOrder
  <2>1. SortedInCopy(groupq[g], via')
    <3>1. groupq[g] \in Seq(Events) /\ SortedInCopy(groupq[g], via)
      BY DEF TypeOK, GroupInv, GroupsInOrder
    <3>2. \A d \in Events : In(d, groupq[g]) => via'[d] = via[d]
      BY InGroups
    <3> QED
      BY <3>1, <3>2, SameCopies
  <2>2. ASSUME NEW d \in Events, NEW e \in Events, sending[g] = d, In(e, groupq[g])
        PROVE  BeforeInCopy(d, e, via')
    <3>1. via'[d] = via[d] /\ via'[e] = via[e]
      BY <2>2, InGroups
    <3> QED
      BY <2>2, <3>1 DEF GroupInv, GroupsInOrder, BeforeInCopy
  <2>3. ASSUME NEW o \in Outputs, InGroup(o, g) PROVE SortedInCopy(Flow(o, g), via')
    <3>1. Flow(o, g) \in Seq(Events) /\ SortedInCopy(Flow(o, g), via)
      BY <2>3, FlowType DEF GroupInv, GroupsInOrder
    <3>2. \A d \in Events : In(d, Flow(o, g)) => via'[d] = via[d]
      BY <2>3, InGroups
    <3> QED
      BY <3>1, <3>2, SameCopies
  <2>4. ASSUME NEW o \in Outputs, InGroup(o, g), NEW d \in Events, NEW e \in Events,
               In(d, Flow(o, g)), In(e, groupq[g])
        PROVE  BeforeInCopy(d, e, via')
    <3>1. via'[d] = via[d] /\ via'[e] = via[e]
      BY <2>4, InGroups
    <3> QED
      BY <2>4, <3>1 DEF GroupInv, GroupsInOrder, BeforeInCopy
  <2> QED
    BY <2>1, <2>2, <2>3, <2>4
<1> QED
  BY <1>4, <1>5, <1>6 DEF GroupInv

-----------------------------------------------------------------------------
(* Steps that only lose events *)

LEMMA LosesOnly ==
  ASSUME IInv, UNCHANGED <<inputVars, inq, via>>,
         \A d \in Events, c \in Copies, t \in Tasks : AtTask(d, c, t)' => AtTask(d, c, t),
         \A d \in Events, g \in Groups : Beyond(d, g)' => Beyond(d, g),
         \A c \in Copies, t \in Tasks :
           /\ chan'[<<c, t>>] \in {chan[<<c, t>>], <<>>}
           /\ holding'[<<c, t>>] \in {holding[<<c, t>>], NoEvent}
  PROVE  InputInv' /\ GraphInv' /\ Routed'
<1> USE DEF IInv, InputInv, GraphInv, GroupInv
<1>1. OutgoingIsNext'
  BY DEF OutgoingIsNext, inputVars
<1>2. AcceptedInOrder'
  BY DEF AcceptedInOrder, inputVars
<1>3. AllAccepted'
  BY DEF AllAccepted, inputVars
<1>4. QueueInOrder'
  BY DEF QueueInOrder
<1>5. RootReadsQueue'
  BY Constants DEF RootReadsQueue
<1>6. TasksInOrder'
  <2>1. Sorted(<<>>)
    BY DEF Sorted
  <2> SUFFICES ASSUME NEW c \in Copies, NEW t \in Tasks
               PROVE  /\ Sorted(chan'[<<c, t>>])
                      /\ \A d, e \in Events :
                           holding'[<<c, t>>] = d /\ In(e, chan'[<<c, t>>]) => Before(d, e)
                      /\ \A e \in Events : AtTask(e, c, t)' => via[e] = {c} /\ t \in Reached(e)
    BY DEF TasksInOrder
  <2>2. /\ Sorted(chan[<<c, t>>])
        /\ \A d, e \in Events :
             holding[<<c, t>>] = d /\ In(e, chan[<<c, t>>]) => Before(d, e)
        /\ \A e \in Events : AtTask(e, c, t) => via[e] = {c} /\ t \in Reached(e)
    BY DEF TasksInOrder
  <2>3. Sorted(chan'[<<c, t>>])
    BY <2>1, <2>2
  <2>4. ASSUME NEW d \in Events, NEW e \in Events, holding'[<<c, t>>] = d, In(e, chan'[<<c, t>>])
        PROVE  holding[<<c, t>>] = d /\ In(e, chan[<<c, t>>])
    BY <2>4, InEmpty, Constants
  <2> QED
    BY <2>2, <2>3, <2>4
<1>7. TreeInOrder'
  <2>1. \A p \in Tasks : Below(p) \subseteq Tasks
    BY DEF Below
  <2> QED
    BY <2>1 DEF TreeInOrder
<1>8. LeavesInOrder'
  BY Constants DEF LeavesInOrder
<1>9. Routed'
  BY DEF Routed
<1> QED
  BY <1>1, <1>2, <1>3, <1>4, <1>5, <1>6, <1>7, <1>8, <1>9

-----------------------------------------------------------------------------
(* The inputs *)

LEMMA GraphUntouched ==
  ASSUME GraphInv, UNCHANGED <<graphVars, groupq, outputVars>>
  PROVE  GraphInv'
<1>1. \A e, c, t : AtTask(e, c, t)' <=> AtTask(e, c, t)
  BY AtTaskSame DEF graphVars
<1>2. \A d, g : Beyond(d, g)' <=> Beyond(d, g)
  BY BeyondSame DEF outputVars
<1>3. UNCHANGED <<chan, holding, via>>
  BY DEF graphVars
<1> QED
  BY <1>1, <1>2, <1>3
  DEF GraphInv, RootReadsQueue, TasksInOrder, TreeInOrder, LeavesInOrder

\* An input hands over its events in order: what it is about to hand over comes after all it
\* has handed over.
LEMMA OutgoingIsLast ==
  ASSUME TypeOK, OutgoingIsNext, AcceptedInOrder,
         NEW i \in Inputs, outgoing[i] # NoEvent, NEW d \in accepted
  PROVE  Before(d, outgoing[i])
<1>1. outgoing[i] = [input |-> i, seq |-> fetched[i]]
  BY DEF OutgoingIsNext
<1>2. d.input = i => d.seq < fetched[i]
  BY DEF AcceptedInOrder
<1> QED
  BY <1>1, <1>2 DEF Before

LEMMA FetchStep ==
  ASSUME TypeOK, InputInv, NEW i \in Inputs, Fetch(i), UNCHANGED <<graphVars, groupq, outputVars>>
  PROVE  InputInv'
<1>1. \A e, c, t : AtTask(e, c, t)' <=> AtTask(e, c, t)
  BY AtTaskSame DEF graphVars
<1>2. \A d, g : Beyond(d, g)' <=> Beyond(d, g)
  BY BeyondSame DEF outputVars
<1>3. UNCHANGED <<inq, accepted>>
  BY DEF Fetch
<1>4. AllAccepted' /\ QueueInOrder'
  BY <1>1, <1>2, <1>3 DEF InputInv, AllAccepted, QueueInOrder
<1>5. /\ fetched' = [fetched EXCEPT ![i] = @ + 1]
      /\ outgoing' = [outgoing EXCEPT ![i] = [input |-> i, seq |-> fetched[i] + 1]]
  BY DEF Fetch, TypeOK
<1>6. OutgoingIsNext'
  BY <1>5 DEF InputInv, OutgoingIsNext, TypeOK
<1>7. AcceptedInOrder'
  <2>1. \A e \in accepted : e.input \in Inputs /\ e.seq \in Nat
    BY Constants DEF TypeOK, Events
  <2>2. \A j \in Inputs : /\ fetched[j] \in Nat
                          /\ fetched'[j] = IF j = i THEN fetched[j] + 1 ELSE fetched[j]
                          /\ j # i => outgoing'[j] = outgoing[j]
    BY <1>5, Constants DEF TypeOK
  <2> QED
    BY <1>3, <2>1, <2>2 DEF InputInv, AcceptedInOrder
<1> QED
  BY <1>4, <1>6, <1>7 DEF InputInv

LEMMA EnqueueStep ==
  ASSUME TypeOK, InputInv, NEW i \in Inputs, Enqueue(i),
         UNCHANGED <<graphVars, groupq, outputVars>>
  PROVE  InputInv'
<1> DEFINE x == outgoing[i]
<1>1. \A e, c, t : AtTask(e, c, t)' <=> AtTask(e, c, t)
  BY AtTaskSame DEF graphVars
<1>2. \A d, g : Beyond(d, g)' <=> Beyond(d, g)
  BY BeyondSame DEF outputVars
<1>3. /\ x # NoEvent /\ x \in Events
      /\ outgoing' = [outgoing EXCEPT ![i] = NoEvent]
      /\ UNCHANGED fetched
  BY DEF Enqueue, TypeOK, OrNone
<1>4. x = [input |-> i, seq |-> fetched[i]] /\ fetched[i] \in Nat
  BY <1>3, Constants DEF InputInv, OutgoingIsNext, TypeOK
<1>5. OutgoingIsNext'
  BY <1>3 DEF InputInv, OutgoingIsNext, TypeOK
<1>6. \A e \in accepted \union {x} :
        /\ e.seq <= fetched[e.input]
        /\ outgoing'[e.input] # NoEvent => e.seq < fetched[e.input]
  <2>1. ASSUME NEW e \in accepted
        PROVE  /\ e.seq <= fetched[e.input]
               /\ outgoing'[e.input] # NoEvent => e.seq < fetched[e.input]
    <3>1. e.input \in Inputs
      BY DEF TypeOK, Events
    <3>2. outgoing'[e.input] # NoEvent => outgoing[e.input] # NoEvent
      BY <3>1, <1>3 DEF TypeOK
    <3> QED
      BY <3>2 DEF InputInv, AcceptedInOrder
  <2>2. x.seq <= fetched[x.input] /\ outgoing'[x.input] = NoEvent
    BY <1>3, <1>4 DEF TypeOK
  <2> QED
    BY <2>1, <2>2
<1>7. CASE inq' = Append(inq, x) /\ accepted' = accepted \union {x}
  <2>1. AcceptedInOrder'
    BY <1>3, <1>6, <1>7 DEF AcceptedInOrder
  <2>2. inq \in Seq(Events) /\ inq' = Append(inq, x)
    BY <1>7 DEF TypeOK
  <2>3. /\ Append(inq, x) \in Seq(Events)
        /\ \A e : In(e, inq') <=> e = x \/ In(e, inq)
    BY <2>2, <1>3, InAppend
  <2>4. AllAccepted'
    BY <1>1, <1>2, <1>7, <2>3 DEF InputInv, AllAccepted
  <2>5. \A d \in accepted : Before(d, x)
    BY <1>3, OutgoingIsLast DEF InputInv
  <2>6. Sorted(inq')
    <3>1. \A d \in Events : In(d, inq) => Before(d, x)
      BY <2>5 DEF InputInv, AllAccepted
    <3> QED
      BY <3>1, <2>2, <1>3, SortedAppend DEF InputInv, QueueInOrder
  <2>7. QueueInOrder'
    BY <1>1, <1>2, <2>3, <2>5, <2>6 DEF InputInv, AllAccepted, QueueInOrder
  <2> QED
    BY <1>5, <2>1, <2>4, <2>7 DEF InputInv
<1>8. CASE UNCHANGED <<inq, accepted>>
  <2>1. AcceptedInOrder'
    BY <1>3, <1>6, <1>8 DEF AcceptedInOrder
  <2>2. AllAccepted' /\ QueueInOrder'
    BY <1>1, <1>2, <1>8 DEF InputInv, AllAccepted, QueueInOrder
  <2> QED
    BY <1>5, <2>1, <2>2 DEF InputInv
<1> QED
  BY <1>7, <1>8 DEF Enqueue

LEMMA InputStep ==
  ASSUME IInv, NEW i \in Inputs, Input(i)
  PROVE  InputInv' /\ GraphInv' /\ GroupInv'
<1>1. UNCHANGED <<graphVars, groupq, outputVars>>
  BY DEF Input
<1>2. TypeOK /\ InputInv /\ GraphInv /\ GroupInv
  BY DEF IInv, TypeInv
<1>3. GraphInv' /\ GroupInv'
  <2>1. via' = via
    BY <1>1 DEF graphVars
  <2> QED
    BY <1>1, <1>2, <2>1, GraphUntouched, GroupsUntouched
<1>4. CASE InputEnd(i)
  <2>1. \A e, c, t : AtTask(e, c, t)' <=> AtTask(e, c, t)
    BY <1>1, AtTaskSame DEF graphVars
  <2>2. \A d, g : Beyond(d, g)' <=> Beyond(d, g)
    BY <1>1, BeyondSame DEF outputVars
  <2>3. InputInv'
    BY <1>2, <1>4, <2>1, <2>2
    DEF InputEnd, InputInv, OutgoingIsNext, AcceptedInOrder, AllAccepted, QueueInOrder
  <2> QED
    BY <1>3, <2>3
<1> QED
  BY <1>1, <1>2, <1>3, <1>4, FetchStep, EnqueueStep DEF Input

-----------------------------------------------------------------------------
(* The graph: tasks that end, and events dropped *)

LEMMA GraphLoses ==
  ASSUME IInv, UNCHANGED <<inputVars, inq, via, groupq, outputVars>>,
         \A c \in Copies, t \in Tasks :
           /\ chan'[<<c, t>>] \in {chan[<<c, t>>], <<>>}
           /\ holding'[<<c, t>>] \in {holding[<<c, t>>], NoEvent}
  PROVE  InputInv' /\ GraphInv' /\ GroupInv'
<1>1. \A d \in Events, c \in Copies, t \in Tasks : AtTask(d, c, t)' => AtTask(d, c, t)
  BY InEmpty, Constants DEF AtTask
<1>2. \A d, g : Beyond(d, g)' <=> Beyond(d, g)
  BY BeyondSame DEF outputVars
<1>3. GroupInv'
  BY GroupsUntouched DEF IInv, TypeInv
<1> QED
  BY <1>1, <1>2, <1>3, LosesOnly

LEMMA EndsLoses ==
  ASSUME IInv, NEW c \in Copies, NEW t \in Tasks, Ends(c, t),
         UNCHANGED <<inputVars, inq, via, groupq, outputVars>>
  PROVE  InputInv' /\ GraphInv' /\ GroupInv'
<1>1. \A d \in Copies, u \in Tasks :
        /\ chan'[<<d, u>>] \in {chan[<<d, u>>], <<>>}
        /\ holding'[<<d, u>>] \in {holding[<<d, u>>], NoEvent}
  BY DEF Ends, IInv, TypeInv, TypeOK
<1> QED
  BY <1>1, GraphLoses

-----------------------------------------------------------------------------
(* The graph: Pull *)

LEMMA PullAtRoot ==
  ASSUME IInv, NEW c \in Copies, Pull(c, Root), UNCHANGED <<inputVars, outputVars>>
  PROVE  InputInv' /\ GraphInv' /\ GroupInv'
<1> DEFINE x == Head(inq)
<1> USE DEF IInv, InputInv, GraphInv, TypeInv
<1>1. /\ inq # <<>> /\ inq' = Tail(inq)
      /\ holding[<<c, Root>>] = NoEvent
      /\ holding' = [holding EXCEPT ![<<c, Root>>] = x]
      /\ via' = [via EXCEPT ![x] = {c}]
      /\ UNCHANGED <<chan, groupq>>
  BY DEF Pull, Ready
<1>2. /\ x \in Events /\ In(x, inq)
      /\ \A e : In(e, inq) <=> e = x \/ In(e, Tail(inq))
      /\ Sorted(Tail(inq))
      /\ \A e : In(e, Tail(inq)) => Before(x, e)
  BY <1>1, InTail, SortedTail DEF TypeOK, QueueInOrder
<1>3. \A d \in Events, g \in Groups :
        /\ Beyond(d, g)' <=> Beyond(d, g)
        /\ Beyond(d, g) => Before(d, x) /\ d # x
  BY <1>1, <1>2, BeyondSame, BeforeIsStrict DEF outputVars, QueueInOrder
<1>4. \A d \in Events, e \in Copies, t \in Tasks :
        /\ AtTask(d, e, t) => Before(d, x) /\ d # x
        /\ AtTask(d, e, t)' => AtTask(d, e, t) \/ (d = x /\ e = c /\ t = Root)
  <2>1. \A d \in Events, e \in Copies, t \in Tasks : AtTask(d, e, t) => Before(d, x) /\ d # x
    BY <1>2, BeforeIsStrict DEF QueueInOrder
  <2>2. \A d \in Events, e \in Copies, t \in Tasks :
          AtTask(d, e, t)' => AtTask(d, e, t) \/ (d = x /\ e = c /\ t = Root)
    BY <1>1, Constants DEF AtTask, TypeOK
  <2> QED
    BY <2>1, <2>2
<1>5. via'[x] = {c} /\ \A d \in Events : d # x => via'[d] = via[d]
  BY <1>1, <1>2 DEF TypeOK
<1>6. OutgoingIsNext' /\ AcceptedInOrder'
  BY DEF inputVars, OutgoingIsNext, AcceptedInOrder
<1>7. AllAccepted'
  <2>1. accepted' = accepted /\ x \in accepted
    BY <1>2 DEF inputVars, AllAccepted
  <2> QED
    BY <2>1, <1>1, <1>2, <1>3, <1>4 DEF AllAccepted
<1>8. QueueInOrder'
  BY <1>1, <1>2, <1>3, <1>4 DEF QueueInOrder
<1>9. RootReadsQueue'
  BY <1>1 DEF RootReadsQueue
<1>10. TasksInOrder'
  <2>1. \A e \in Copies, t \in Tasks :
          /\ holding'[<<e, t>>] = (IF e = c /\ t = Root THEN x ELSE holding[<<e, t>>])
          /\ chan'[<<e, t>>] = chan[<<e, t>>]
          /\ chan[<<e, Root>>] = <<>>
    BY <1>1 DEF TypeOK, RootReadsQueue
  <2>2. \A e \in Copies, t \in Tasks :
          /\ Sorted(chan'[<<e, t>>])
          /\ \A d, f \in Events : holding'[<<e, t>>] = d /\ In(f, chan'[<<e, t>>]) => Before(d, f)
    <3>1. \A e \in Copies, t \in Tasks :
            /\ Sorted(chan[<<e, t>>])
            /\ \A d, f \in Events : holding[<<e, t>>] = d /\ In(f, chan[<<e, t>>]) => Before(d, f)
      BY DEF TasksInOrder
    <3>2. \A e \in Copies, f \in Events : ~In(f, chan[<<e, Root>>])
      BY <2>1, InEmpty, Constants
    <3> QED
      BY <2>1, <3>1, <3>2
  <2>3. \A d \in Events, e \in Copies, t \in Tasks :
          AtTask(d, e, t)' => via'[d] = {e} /\ t \in Reached(d)
    BY <1>4, <1>5, RootReached, ZenonT(60) DEF TasksInOrder
  <2> QED
    BY <2>2, <2>3 DEF TasksInOrder
<1>11. TreeInOrder'
  <2>1. \A p \in Tasks : \A t \in Below(p) : t \in Tasks /\ t # Root
    BY RootOnTop DEF Below
  <2> QED
    BY <2>1, <1>4 DEF TreeInOrder
<1>12. LeavesInOrder'
  BY <1>3, <1>4, <1>5, Constants DEF LeavesInOrder
<1>13. GroupInv'
  <2>1. UNCHANGED <<groupq, outputVars>>
    BY <1>1
  <2>2. \A d \in Events, g \in Groups : Beyond(d, g) => via'[d] = via[d]
    BY <1>3, <1>5
  <2> QED
    BY <2>1, <2>2, GroupsUntouched
<1> QED
  BY <1>6, <1>7, <1>8, <1>9, <1>10, <1>11, <1>12, <1>13

LEMMA PullBelow ==
  ASSUME IInv, NEW c \in Copies, NEW t \in Tasks, t # Root, Pull(c, t),
         UNCHANGED <<inputVars, outputVars>>
  PROVE  InputInv' /\ GraphInv' /\ GroupInv'
<1> DEFINE q == chan[<<c, t>>]
           x == Head(q)
<1> USE DEF IInv, InputInv, GraphInv, TypeInv
<1>1. /\ q # <<>>
      /\ holding[<<c, t>>] = NoEvent
      /\ holding' = [holding EXCEPT ![<<c, t>>] = x]
      /\ chan' = [chan EXCEPT ![<<c, t>>] = Tail(q)]
      /\ via' = [via EXCEPT ![x] = {c}]
      /\ UNCHANGED <<inq, groupq>>
  BY DEF Pull, Ready
<1>2. q \in Seq(Events) /\ Sorted(q)
  BY DEF TypeOK, TasksInOrder
<1>3. /\ x \in Events /\ In(x, q)
      /\ \A e : In(e, q) <=> e = x \/ In(e, Tail(q))
      /\ Sorted(Tail(q))
      /\ \A e : In(e, Tail(q)) => Before(x, e)
  BY <1>1, <1>2, InTail, SortedTail
<1>4. via' = via
  <2>1. via[x] = {c}
    BY <1>3 DEF AtTask, TasksInOrder
  <2> QED
    BY <2>1, <1>1 DEF TypeOK
<1>5. \A d \in Events, e \in Copies, u \in Tasks : AtTask(d, e, u)' <=> AtTask(d, e, u)
  <2> SUFFICES ASSUME NEW d \in Events, NEW e \in Copies, NEW u \in Tasks
               PROVE  AtTask(d, e, u)' <=> AtTask(d, e, u)
    OBVIOUS
  <2>1. CASE e = c /\ u = t
    <3>1. holding'[<<e, u>>] = x /\ chan'[<<e, u>>] = Tail(q)
      BY <2>1, <1>1 DEF TypeOK
    <3>2. holding[<<e, u>>] = NoEvent /\ chan[<<e, u>>] = q
      BY <2>1, <1>1
    <3> QED
      BY <3>1, <3>2, <1>3, Constants DEF AtTask
  <2>2. CASE ~(e = c /\ u = t)
    BY <2>2, <1>1 DEF AtTask, TypeOK
  <2> QED
    BY <2>1, <2>2
<1>6. \A d, g : Beyond(d, g)' <=> Beyond(d, g)
  BY <1>1, BeyondSame DEF outputVars
<1>7. InputInv'
  BY <1>1, <1>5, <1>6
  DEF inputVars, OutgoingIsNext, AcceptedInOrder, AllAccepted, QueueInOrder
<1>8. RootReadsQueue'
  BY <1>1, Constants DEF RootReadsQueue, TypeOK
<1>9. TasksInOrder'
  <2> SUFFICES ASSUME NEW e \in Copies, NEW u \in Tasks
               PROVE  /\ Sorted(chan'[<<e, u>>])
                      /\ \A d, f \in Events :
                           holding'[<<e, u>>] = d /\ In(f, chan'[<<e, u>>]) => Before(d, f)
    BY <1>4, <1>5 DEF TasksInOrder
  <2>1. CASE e = c /\ u = t
    <3>1. holding'[<<e, u>>] = x /\ chan'[<<e, u>>] = Tail(q)
      BY <2>1, <1>1 DEF TypeOK
    <3> QED
      BY <3>1, <1>3
  <2>2. CASE ~(e = c /\ u = t)
    BY <2>2, <1>1 DEF TasksInOrder, TypeOK
  <2> QED
    BY <2>1, <2>2
<1>10. TreeInOrder' /\ LeavesInOrder'
  <2>1. \A p \in Tasks : Below(p) \subseteq Tasks
    BY DEF Below
  <2> QED
    BY <2>1, <1>4, <1>5, <1>6, Constants DEF TreeInOrder, LeavesInOrder
<1>11. GroupInv'
  BY <1>1, <1>4, GroupsUntouched
<1> QED
  BY <1>7, <1>8, <1>9, <1>10, <1>11

-----------------------------------------------------------------------------
(* The graph: Switch *)

LEMMA SwitchPasses ==
  ASSUME IInv, NEW c \in Copies, NEW t \in Tasks, NEW x \in Events, holding[<<c, t>>] = x,
         NEW b \in Taker(t, x),
         chan' = [chan EXCEPT ![<<c, b>>] = Append(@, x)],
         holding' = [holding EXCEPT ![<<c, t>>] = NoEvent],
         UNCHANGED <<inq, via, groupq, inputVars, outputVars>>
  PROVE  InputInv' /\ GraphInv' /\ GroupInv'
<1> USE DEF IInv, InputInv, GraphInv, TypeInv
<1>1. /\ b \in Tasks /\ b \in Children(t) /\ b # Root
      /\ b \in Below(t) /\ b # t /\ b \notin Below(b) /\ t \notin Below(t)
      /\ Below(b) \subseteq Below(t)
  <2>1. b \in Tasks /\ b \in Children(t)
    BY TakerIsTask
  <2> QED
    BY <2>1, TreeAssumption, ChildBelow, BelowChild
<1>2. /\ chan[<<c, b>>] \in Seq(Events)
      /\ \A e : In(e, Append(chan[<<c, b>>], x)) <=> e = x \/ In(e, chan[<<c, b>>])
  BY <1>1, InAppend DEF TypeOK
<1>3. \A e \in Copies, u \in Tasks :
        /\ holding'[<<e, u>>] = (IF e = c /\ u = t THEN NoEvent ELSE holding[<<e, u>>])
        /\ chan'[<<e, u>>] = (IF e = c /\ u = b THEN Append(chan[<<c, b>>], x)
                              ELSE chan[<<e, u>>])
  BY <1>1 DEF TypeOK
<1>4. AtTask(x, c, t)
  BY DEF AtTask
<1>5. \A d \in Events, e \in Copies, u \in Tasks :
        AtTask(d, e, u)' => AtTask(d, e, u) \/ (d = x /\ e = c /\ u = b)
  <2> SUFFICES ASSUME NEW d \in Events, NEW e \in Copies, NEW u \in Tasks, AtTask(d, e, u)'
               PROVE  AtTask(d, e, u) \/ (d = x /\ e = c /\ u = b)
    OBVIOUS
  <2>1. holding'[<<e, u>>] = d \/ In(d, chan'[<<e, u>>])
    BY DEF AtTask
  <2>2. CASE holding'[<<e, u>>] = d
    <3>1. holding[<<e, u>>] = d
      BY <1>3, <2>2, Constants
    <3> QED
      BY <3>1 DEF AtTask
  <2>3. CASE In(d, chan'[<<e, u>>])
    BY <1>2, <1>3, <2>3 DEF AtTask
  <2> QED
    BY <2>1, <2>2, <2>3
<1>6. \A d \in Events : AtTask(d, c, t)' => Before(x, d)
  <2>1. \A d \in Events : AtTask(d, c, t)' => In(d, chan[<<c, t>>])
    BY <1>1, <1>3, Constants DEF AtTask
  <2> QED
    BY <2>1 DEF TasksInOrder
<1>7. \A d, g : Beyond(d, g)' <=> Beyond(d, g)
  BY BeyondSame DEF outputVars
<1>8. InputInv'
  BY <1>4, <1>5, <1>7
  DEF inputVars, OutgoingIsNext, AcceptedInOrder, AllAccepted, QueueInOrder
<1>9. RootReadsQueue'
  BY <1>1, <1>3, Constants DEF RootReadsQueue
<1>10. via[x] = {c} /\ b \in Reached(x)
  BY <1>4, TakerReached DEF TasksInOrder
<1>11. TasksInOrder'
  <2>1. \A d \in Events : AtTask(d, c, b) => Before(d, x)
    BY <1>1, <1>4 DEF TreeInOrder
  <2>2. \A e \in Copies, u \in Tasks :
          /\ Sorted(chan[<<e, u>>])
          /\ \A d, f \in Events : holding[<<e, u>>] = d /\ In(f, chan[<<e, u>>]) => Before(d, f)
    BY DEF TasksInOrder
  <2>3. Sorted(Append(chan[<<c, b>>], x))
    <3>1. \A d \in Events : In(d, chan[<<c, b>>]) => Before(d, x)
      BY <2>1 DEF AtTask
    <3> QED
      BY <1>1, <1>2, <2>2, <3>1, SortedAppend
  <2> SUFFICES ASSUME NEW e \in Copies, NEW u \in Tasks
               PROVE  /\ Sorted(chan'[<<e, u>>])
                      /\ \A d, f \in Events :
                           holding'[<<e, u>>] = d /\ In(f, chan'[<<e, u>>]) => Before(d, f)
                      /\ \A f \in Events : AtTask(f, e, u)' => via[f] = {e} /\ u \in Reached(f)
    BY DEF TasksInOrder
  <2>4. Sorted(chan'[<<e, u>>])
    BY <1>3, <2>2, <2>3
  <2>5. ASSUME NEW d \in Events, NEW f \in Events, holding'[<<e, u>>] = d, In(f, chan'[<<e, u>>])
        PROVE  Before(d, f)
    <3>1. holding[<<e, u>>] = d
      BY <1>3, <2>5, Constants
    <3>2. In(f, chan[<<e, u>>]) \/ (f = x /\ e = c /\ u = b)
      BY <1>2, <1>3, <2>5, SMTT(30)
    <3> QED
      BY <3>1, <3>2, <2>1, <2>2 DEF AtTask
  <2>6. ASSUME NEW f \in Events, AtTask(f, e, u)' PROVE via[f] = {e} /\ u \in Reached(f)
    <3>1. AtTask(f, e, u) => via[f] = {e} /\ u \in Reached(f)
      BY DEF TasksInOrder
    <3> QED
      BY <1>5, <1>10, <2>6, <3>1
  <2> QED
    BY <2>4, <2>5, <2>6
<1>12. TreeInOrder'
  <2> SUFFICES ASSUME NEW e \in Copies, NEW p \in Tasks, NEW u \in Below(p),
                      NEW d \in Events, NEW f \in Events, AtTask(d, e, u)', AtTask(f, e, p)'
               PROVE  Before(d, f)
    BY DEF TreeInOrder
  <2>0. u \in Tasks
    BY DEF Below
  <2>1. CASE AtTask(d, e, u) /\ AtTask(f, e, p)
    BY <2>1 DEF TreeInOrder
  <2>2. CASE d = x /\ e = c /\ u = b
    <3>1. p = t \/ t \in Below(p)
      BY <2>2, <1>1, BelowParent
    <3>2. CASE p = t
      BY <2>2, <3>2, <1>6
    <3>3. CASE t \in Below(p)
      <4>1. p # b
        BY <2>2, <1>1
      <4>2. AtTask(f, e, p)
        BY <4>1, <1>5
      <4> QED
        BY <2>2, <3>3, <4>2, <1>4 DEF TreeInOrder
    <3> QED
      BY <3>1, <3>2, <3>3
  <2>3. CASE f = x /\ e = c /\ p = b
    <3>1. u \in Below(t) /\ u # b
      BY <2>3, <1>1
    <3>2. AtTask(d, e, u)
      BY <3>1, <2>0, <1>5
    <3> QED
      BY <2>3, <3>1, <3>2, <1>4 DEF TreeInOrder
  <2> QED
    BY <2>0, <2>1, <2>2, <2>3, <1>5
<1>13. LeavesInOrder'
  <2> SUFFICES ASSUME NEW e \in Copies, NEW u \in Leaves, NEW p \in Tasks, p = u \/ u \in Below(p),
                      NEW d \in Events, NEW f \in Events,
                      Beyond(d, GroupOf[u]), via[d] = {e}, AtTask(f, e, p)'
               PROVE  Before(d, f)
    BY <1>7 DEF LeavesInOrder
  <2>1. CASE AtTask(f, e, p)
    BY <2>1 DEF LeavesInOrder
  <2>2. CASE f = x /\ e = c /\ p = b
    <3>1. u \in Below(t)
      BY <2>2, <1>1
    <3> QED
      BY <2>2, <3>1, <1>4 DEF LeavesInOrder
  <2> QED
    BY <2>1, <2>2, <1>5
<1>14. GroupInv'
  BY GroupsUntouched
<1> QED
  BY <1>8, <1>9, <1>11, <1>12, <1>13, <1>14

-----------------------------------------------------------------------------
(* The graph: Forward *)

LEMMA ForwardPasses ==
  ASSUME IInv, NEW c \in Copies, NEW t \in Leaves, NEW x \in Events, holding[<<c, t>>] = x,
         groupq' = [groupq EXCEPT ![GroupOf[t]] = Append(@, x)],
         holding' = [holding EXCEPT ![<<c, t>>] = NoEvent],
         UNCHANGED <<inq, via, chan, inputVars, outputVars>>
  PROVE  InputInv' /\ GraphInv' /\ GroupInv'
<1> DEFINE h == GroupOf[t]
<1> USE DEF IInv, InputInv, GraphInv, GroupInv, TypeInv
<1>1. t \in Tasks /\ h \in Groups
  BY Constants
<1>2. /\ groupq[h] \in Seq(Events)
      /\ \A e : In(e, Append(groupq[h], x)) <=> e = x \/ In(e, groupq[h])
  BY <1>1, InAppend DEF TypeOK
<1>3. /\ \A g \in Groups : groupq'[g] = (IF g = h THEN Append(groupq[h], x) ELSE groupq[g])
      /\ \A e \in Copies, u \in Tasks :
           holding'[<<e, u>>] = (IF e = c /\ u = t THEN NoEvent ELSE holding[<<e, u>>])
  BY <1>1 DEF TypeOK
<1>4. AtTask(x, c, t)
  BY DEF AtTask
<1>5. \A d \in Events, e \in Copies, u \in Tasks : AtTask(d, e, u)' => AtTask(d, e, u)
  BY <1>3, Constants DEF AtTask
<1>6. UNCHANGED <<sending, left, outq, ost, got, bst>> /\ \A o, g : Flow(o, g)' = Flow(o, g)
  BY FlowSame DEF outputVars
<1>7. \A d \in Events, g \in Groups : Beyond(d, g)' <=> Beyond(d, g) \/ (d = x /\ g = h)
  BY <1>2, <1>3, <1>6 DEF Beyond
<1>8. InputInv'
  BY <1>4, <1>5, <1>7, <1>1
  DEF inputVars, OutgoingIsNext, AcceptedInOrder, AllAccepted, QueueInOrder
<1>9. via[x] = {c} /\ t \in Reached(x)
  BY <1>1, <1>4 DEF TasksInOrder
<1>10. RootReadsQueue' /\ TasksInOrder'
  <2>1. \A e \in Copies, u \in Tasks, d, f \in Events :
          holding'[<<e, u>>] = d => holding[<<e, u>>] = d
    BY <1>3, Constants
  <2> QED
    BY <2>1, <1>5 DEF RootReadsQueue, TasksInOrder
<1>11. TreeInOrder'
  <2>1. \A p \in Tasks : Below(p) \subseteq Tasks
    BY DEF Below
  <2> QED
    BY <2>1, <1>5 DEF TreeInOrder
<1>12. LeavesInOrder'
  <2> SUFFICES ASSUME NEW e \in Copies, NEW u \in Leaves, NEW p \in Tasks, p = u \/ u \in Below(p),
                      NEW d \in Events, NEW f \in Events,
                      Beyond(d, GroupOf[u])', via[d] = {e}, AtTask(f, e, p)'
               PROVE  Before(d, f)
    BY DEF LeavesInOrder
  <2>1. AtTask(f, e, p)
    BY <1>5
  <2>2. CASE Beyond(d, GroupOf[u])
    BY <2>1, <2>2 DEF LeavesInOrder
  <2>3. CASE d = x /\ GroupOf[u] = h
    <3>1. u = t /\ e = c
      BY <2>3, <1>9, GroupAssumption
    <3>2. CASE p = t
      <4>1. In(f, chan[<<c, t>>])
        BY <3>1, <3>2, <1>1, <1>3, Constants DEF AtTask
      <4> QED
        BY <2>3, <4>1, <1>1 DEF TasksInOrder
    <3>3. CASE t \in Below(p)
      BY <2>1, <2>3, <3>1, <3>3, <1>4 DEF TreeInOrder
    <3> QED
      BY <3>1, <3>2, <3>3
  <2> QED
    BY <2>2, <2>3, <1>7, Constants
<1>13. Routed' /\ LeftIsSuffix'
  BY <1>6, <1>7, <1>9 DEF Routed, LeftIsSuffix
<1>14. FlowsAgree'
  BY <1>6 DEF FlowsAgree, Alive
<1>15. \A d \in Events : Beyond(d, h) => BeforeInCopy(d, x, via)
  <2> SUFFICES ASSUME NEW d \in Events, Beyond(d, h), via[d] = via[x] PROVE Before(d, x)
    BY DEF BeforeInCopy, Before
  <2> QED
    BY <1>1, <1>4, <1>9 DEF LeavesInOrder
<1>16. GroupsInOrder'
  <2> SUFFICES ASSUME NEW g \in Groups
               PROVE  /\ SortedInCopy(groupq'[g], via)
                      /\ \A d, e \in Events : sending[g] = d /\ In(e, groupq'[g]) =>
                           BeforeInCopy(d, e, via)
                      /\ \A o \in Outputs : InGroup(o, g) =>
                           /\ SortedInCopy(Flow(o, g), via)
                           /\ \A d, e \in Events :
                                In(d, Flow(o, g)) /\ In(e, groupq'[g]) => BeforeInCopy(d, e, via)
    BY <1>6 DEF GroupsInOrder
  <2>1. SortedInCopy(groupq'[g], via)
    <3>1. SortedInCopy(groupq[g], via)
      BY DEF GroupsInOrder
    <3>2. \A d \in Events : In(d, groupq[h]) => BeforeInCopy(d, x, via)
      BY <1>1, <1>15, InGroups
    <3>3. g = h => SortedInCopy(Append(groupq[h], x), via)
      BY <1>2, <3>1, <3>2, SortedInCopyAppend
    <3> QED
      BY <1>3, <3>1, <3>3
  <2>2. \A e \in Events : In(e, groupq'[g]) => In(e, groupq[g]) \/ (e = x /\ g = h)
    BY <1>2, <1>3
  <2>3. ASSUME NEW d \in Events, NEW e \in Events, In(e, groupq'[g]),
               sending[g] = d \/ \E o \in Outputs : InGroup(o, g) /\ In(d, Flow(o, g))
        PROVE  BeforeInCopy(d, e, via)
    <3>1. CASE In(e, groupq[g])
      BY <2>3, <3>1 DEF GroupsInOrder
    <3>2. CASE e = x /\ g = h
      BY <2>3, <3>2, <1>15 DEF Beyond
    <3> QED
      BY <2>2, <2>3, <3>1, <3>2
  <2>4. \A o \in Outputs : InGroup(o, g) => SortedInCopy(Flow(o, g), via)
    BY DEF GroupsInOrder
  <2> QED
    BY <2>1, <2>3, <2>4
<1> QED
  BY <1>8, <1>10, <1>11, <1>12, <1>13, <1>14, <1>16

-----------------------------------------------------------------------------
(* The graph: all of it *)

LEMMA GraphStep ==
  ASSUME IInv, NEW c \in Copies, NEW t \in Tasks, Run(c, t) \/ Fail(c, t)
  PROVE  InputInv' /\ GraphInv' /\ GroupInv'
<1> DEFINE x == holding[<<c, t>>]
<1>1. UNCHANGED <<inputVars, outputVars>>
  BY DEF Run, Fail
<1>2. CASE Pull(c, t)
  BY <1>1, <1>2, PullAtRoot, PullBelow
<1>3. CASE TaskEnd(c, t) \/ FilterFails(c, t)
  BY <1>1, <1>3, EndsLoses DEF TaskEnd, FilterFails
<1>4. CASE Switch(c, t)
  <2>1. x \in Events
    BY <1>4 DEF Switch, IInv, TypeInv, TypeOK, OrNone
  <2>2. UNCHANGED <<inq, via, groupq>>
    BY <1>4 DEF Switch
  <2>3. CASE holding' = [holding EXCEPT ![<<c, t>>] = NoEvent] /\ UNCHANGED <<tst, chan>>
    <3>1. \A d \in Copies, u \in Tasks :
            /\ chan'[<<d, u>>] \in {chan[<<d, u>>], <<>>}
            /\ holding'[<<d, u>>] \in {holding[<<d, u>>], NoEvent}
      BY <2>3 DEF IInv, TypeInv, TypeOK
    <3> QED
      BY <1>1, <2>2, <3>1, GraphLoses
  <2>4. ASSUME NEW b \in Taker(t, x), chan' = [chan EXCEPT ![<<c, b>>] = Append(@, x)],
               holding' = [holding EXCEPT ![<<c, t>>] = NoEvent]
        PROVE  InputInv' /\ GraphInv' /\ GroupInv'
    BY <1>1, <2>1, <2>2, <2>4, SwitchPasses
  <2>5. CASE Ends(c, t)
    BY <1>1, <2>2, <2>5, EndsLoses
  <2> QED
    BY <1>4, <2>3, <2>4, <2>5 DEF Switch
<1>5. CASE Forward(c, t)
  <2>1. x \in Events /\ t \in Leaves
    BY <1>5 DEF Forward, IInv, TypeInv, TypeOK, OrNone
  <2>2. UNCHANGED <<inq, via>>
    BY <1>5 DEF Forward
  <2>3. CASE /\ groupq' = [groupq EXCEPT ![GroupOf[t]] = Append(@, x)]
             /\ holding' = [holding EXCEPT ![<<c, t>>] = NoEvent]
             /\ UNCHANGED chan
    BY <1>1, <2>1, <2>2, <2>3, ForwardPasses
  <2>4. CASE Ends(c, t) /\ UNCHANGED groupq
    BY <1>1, <2>2, <2>4, EndsLoses
  <2> QED
    BY <1>5, <2>3, <2>4 DEF Forward
<1> QED
  BY <1>2, <1>3, <1>4, <1>5 DEF Run, Fail, Task

LEMMA StartStep ==
  ASSUME IInv, NEW c \in Copies, Start(c)
  PROVE  InputInv' /\ GraphInv' /\ GroupInv'
<1>1. UNCHANGED <<inputVars, inq, via, chan, holding, groupq, outputVars>>
  BY DEF Start, StartGraph
<1> QED
  BY <1>1, GraphLoses

-----------------------------------------------------------------------------
(* More about sequences *)

\* s is the beginning of t.
Starts(s, t) == Len(s) <= Len(t) /\ \A k \in 1 .. Len(s) : s[k] = t[k]

LEMMA StartsItself ==
  ASSUME NEW S, NEW s \in Seq(S)
  PROVE  Starts(s, s)
BY LenProperties DEF Starts

LEMMA ConcatStarts ==
  ASSUME NEW S, NEW s \in Seq(S), NEW t \in Seq(S)
  PROVE  Starts(s, s \o t)
BY ConcatProperties, LenProperties DEF Starts

\* The first of b goes to the end of a.
LEMMA MoveHead ==
  ASSUME NEW S, NEW a \in Seq(S), NEW b \in Seq(S), b # <<>>
  PROVE  Append(a, Head(b)) \o Tail(b) = a \o b
<1>1. Head(b) \in S /\ Tail(b) \in Seq(S) /\ <<Head(b)>> \in Seq(S)
  BY InTail
<1>2. <<Head(b)>> \o Tail(b) = b
  <2> DEFINE h == <<Head(b)>>
  <2>1. Len(h) = 1 /\ h[1] = Head(b) /\ Head(b) = b[1] /\ h \in Seq(S)
    BY <1>1
  <2>2. /\ Len(b) \in Nat \ {0}
        /\ Len(Tail(b)) = Len(b) - 1
        /\ \A i \in 1 .. Len(b) - 1 : Tail(b)[i] = b[i + 1]
    BY HeadTailProperties, EmptySeq
  <2> HIDE DEF h
  <2>3. /\ h \o Tail(b) \in Seq(S)
        /\ Len(h \o Tail(b)) = Len(b)
        /\ \A i \in 1 .. Len(b) :
             (h \o Tail(b))[i] = IF i <= 1 THEN h[i] ELSE Tail(b)[i - 1]
    <3>1. /\ h \o Tail(b) \in Seq(S)
          /\ Len(h \o Tail(b)) = Len(h) + Len(Tail(b))
          /\ \A i \in 1 .. Len(h) + Len(Tail(b)) :
               (h \o Tail(b))[i] = IF i <= Len(h) THEN h[i] ELSE Tail(b)[i - Len(h)]
      BY <1>1, <2>1, ConcatProperties
    <3>2. Len(h) + Len(Tail(b)) = Len(b) /\ Len(h) = 1
      BY <2>1, <2>2
    <3> QED
      BY <3>1, <3>2
  <2>4. \A i \in 1 .. Len(b) : (h \o Tail(b))[i] = b[i]
    <3> SUFFICES ASSUME NEW i \in 1 .. Len(b) PROVE (h \o Tail(b))[i] = b[i]
      OBVIOUS
    <3>1. CASE i = 1
      BY <2>1, <2>2, <2>3, <3>1
    <3>2. CASE i # 1
      <4>1. i - 1 \in 1 .. Len(b) - 1 /\ (i - 1) + 1 = i /\ ~(i <= 1)
        BY <2>2, <3>2
      <4> QED
        BY <2>2, <2>3, <4>1
    <3> QED
      BY <3>1, <3>2
  <2>5. h \o Tail(b) = b
    <3> DEFINE hb == h \o Tail(b)
    <3>1. hb \in Seq(S) /\ Len(hb) = Len(b) /\ \A i \in 1 .. Len(hb) : hb[i] = b[i]
      BY <2>3, <2>4
    <3> HIDE DEF hb
    <3>2. hb = b
      BY <3>1, SeqEqual
    <3> QED
      BY <3>2 DEF hb
  <2> QED
    BY <2>5 DEF h
<1>3. (a \o <<Head(b)>>) \o Tail(b) = a \o (<<Head(b)>> \o Tail(b))
  BY <1>1, ConcatAssociative
<1> QED
  BY <1>1, <1>2, <1>3, AppendIsConcat

LEMMA AppendInside ==
  ASSUME NEW S, NEW a \in Seq(S), NEW b \in Seq(S), NEW x \in S
  PROVE  a \o Append(b, x) = (a \o b) \o <<x>>
<1>1. <<x>> \in Seq(S)
  OBVIOUS
<1> QED
  BY <1>1, AppendIsConcat, ConcatAssociative

LEMMA AppendAgrees ==
  ASSUME NEW S, NEW s \in Seq(S), NEW t \in Seq(S), NEW x \in S,
         \A k \in DOMAIN s \cap DOMAIN t : s[k] = t[k]
  PROVE  /\ Len(t) <= Len(s) =>
              \A k \in DOMAIN Append(s, x) \cap DOMAIN t : Append(s, x)[k] = t[k]
         /\ Len(t) = Len(s) =>
              \A k \in DOMAIN Append(s, x) \cap DOMAIN Append(t, x) :
                Append(s, x)[k] = Append(t, x)[k]
<1>1. /\ Len(s) \in Nat
      /\ DOMAIN s = 1 .. Len(s)
      /\ DOMAIN Append(s, x) = 1 .. Len(s) + 1
      /\ \A i \in 1 .. Len(s) : Append(s, x)[i] = s[i]
      /\ Append(s, x)[Len(s) + 1] = x
  OBVIOUS
<1>2. /\ Len(t) \in Nat
      /\ DOMAIN t = 1 .. Len(t)
      /\ DOMAIN Append(t, x) = 1 .. Len(t) + 1
      /\ \A i \in 1 .. Len(t) : Append(t, x)[i] = t[i]
      /\ Append(t, x)[Len(t) + 1] = x
  OBVIOUS
<1> DEFINE sx == Append(s, x)
           tx == Append(t, x)
<1> HIDE DEF sx, tx
<1>3. /\ DOMAIN sx = 1 .. Len(s) + 1 /\ DOMAIN tx = 1 .. Len(t) + 1
      /\ \A i \in 1 .. Len(s) : sx[i] = s[i]
      /\ \A i \in 1 .. Len(t) : tx[i] = t[i]
      /\ sx[Len(s) + 1] = x /\ tx[Len(t) + 1] = x
  BY <1>1, <1>2 DEF sx, tx
<1>4. \A k \in 1 .. Len(s) : k \in 1 .. Len(t) => s[k] = t[k]
  BY <1>1, <1>2
<1>5. Len(t) <= Len(s) => \A k \in DOMAIN sx \cap DOMAIN t : sx[k] = t[k]
  <2> SUFFICES ASSUME Len(t) <= Len(s), NEW k \in 1 .. Len(t) PROVE sx[k] = t[k]
    BY <1>2
  <2>1. k \in 1 .. Len(s)
    BY <1>1, <1>2
  <2> QED
    BY <1>3, <1>4, <2>1
<1>6. Len(t) = Len(s) => \A k \in DOMAIN sx \cap DOMAIN tx : sx[k] = tx[k]
  <2> SUFFICES ASSUME Len(t) = Len(s), NEW k \in 1 .. Len(s) + 1 PROVE sx[k] = tx[k]
    BY <1>3
  <2>1. CASE k \in 1 .. Len(s)
    BY <1>3, <1>4, <2>1
  <2>2. CASE k = Len(s) + 1
    BY <1>3, <2>2
  <2> QED
    BY <1>1, <2>1, <2>2
<1> QED
  BY <1>5, <1>6 DEF sx, tx

LEMMA StartsAt ==
  ASSUME NEW S, NEW s \in Seq(S), NEW t \in Seq(S), Starts(s, t), NEW k \in DOMAIN s
  PROVE  k \in DOMAIN t /\ t[k] = s[k]
<1>1. /\ Len(s) \in Nat /\ Len(t) \in Nat /\ Len(s) <= Len(t)
      /\ DOMAIN s = 1 .. Len(s) /\ DOMAIN t = 1 .. Len(t)
      /\ \A i \in 1 .. Len(s) : s[i] = t[i]
  BY LenProperties DEF Starts
<1> QED
  BY <1>1

LEMMA StartsIn ==
  ASSUME NEW S, NEW s \in Seq(S), NEW t \in Seq(S), Starts(s, t)
  PROVE  /\ \A e : In(e, s) => In(e, t)
         /\ \A v : SortedInCopy(t, v) => SortedInCopy(s, v)
<1>1. /\ Len(s) \in Nat /\ Len(t) \in Nat /\ Len(s) <= Len(t)
      /\ DOMAIN s = 1 .. Len(s) /\ DOMAIN t = 1 .. Len(t)
      /\ \A k \in 1 .. Len(s) : s[k] = t[k]
  BY LenProperties DEF Starts
<1>2. \A k \in DOMAIN s : k \in DOMAIN t /\ s[k] = t[k]
  BY <1>1
<1> QED
  BY <1>2 DEF In, SortedInCopy

LEMMA QueuedIsFirst ==
  ASSUME TypeOK, NEW o \in Outputs, NEW g \in Groups
  PROVE  Starts(got[o] \o outq[o], Flow(o, g))
<1> DEFINE s == got[o] \o outq[o]
<1>1. s \in Seq(Events)
  BY DEF TypeOK
<1>2. Waits(o, g) => <<sending[g]>> \in Seq(Events)
  BY InEmpty DEF TypeOK, OrNone, Waits
<1>3. CASE Waits(o, g)
  BY <1>1, <1>2, <1>3, ConcatStarts DEF Flow
<1>4. CASE ~Waits(o, g)
  BY <1>1, <1>4, ConcatEmptySeq, StartsItself DEF Flow
<1> QED
  BY <1>3, <1>4

-----------------------------------------------------------------------------
(* The outputs: steps that move events on or lose them *)

LEMMA OutputsLose ==
  ASSUME IInv, TypeOK', UNCHANGED <<inputVars, inq, graphVars>>,
         \A g \in Groups :
           /\ groupq'[g] \in {groupq[g], <<>>}
           /\ sending'[g] \in {sending[g], NoEvent}
           /\ bst'[g] = "running" => bst[g] = "running"
           /\ \A o \in Outputs : InGroup(o, g) =>
                /\ Starts(Flow(o, g)', Flow(o, g))
                /\ bst'[g] = "running" /\ Alive(o)' =>
                     Alive(o) /\ Len(Flow(o, g)') = Len(Flow(o, g))
  PROVE  InputInv' /\ GraphInv' /\ Routed' /\ GroupsInOrder' /\ FlowsAgree'
<1>1. \A o \in Outputs, g \in Groups : Flow(o, g) \in Seq(Events)
  BY FlowType DEF IInv, TypeInv
<1>2. \A o \in Outputs, g \in Groups : Flow(o, g)' \in Seq(Events)
  <2>1. (TypeOK => \A o \in Outputs, g \in Groups : Flow(o, g) \in Seq(Events))'
    BY FlowType, PTL
  <2> QED
    BY <2>1
<1>3. \A g \in Groups, o \in Outputs : InGroup(o, g) =>
        /\ \A d : In(d, Flow(o, g)') => In(d, Flow(o, g))
        /\ \A v : SortedInCopy(Flow(o, g), v) => SortedInCopy(Flow(o, g)', v)
  BY <1>1, <1>2, StartsIn
<1>4. \A g \in Groups : \A d : In(d, groupq'[g]) => In(d, groupq[g])
  BY InEmpty
<1>5. \A d \in Events, g \in Groups : Beyond(d, g)' => Beyond(d, g)
  <2> SUFFICES ASSUME NEW d \in Events, NEW g \in Groups, Beyond(d, g)' PROVE Beyond(d, g)
    OBVIOUS
  <2>1. \/ In(d, groupq'[g])
        \/ sending'[g] = d
        \/ \E o \in Outputs : InGroup(o, g) /\ In(d, Flow(o, g)')
    BY DEF Beyond
  <2>2. CASE In(d, groupq'[g])
    BY <2>2, <1>4 DEF Beyond
  <2>3. CASE sending'[g] = d
    BY <2>3, Constants DEF Beyond
  <2>4. CASE \E o \in Outputs : InGroup(o, g) /\ In(d, Flow(o, g)')
    BY <2>4, <1>3 DEF Beyond
  <2> QED
    BY <2>1, <2>2, <2>3, <2>4
<1>6. \A d \in Events, c \in Copies, t \in Tasks : AtTask(d, c, t)' => AtTask(d, c, t)
  BY AtTaskSame DEF graphVars
<1>7. InputInv' /\ GraphInv' /\ Routed'
  BY <1>5, <1>6, LosesOnly DEF graphVars
<1>8. via' = via
  BY DEF graphVars
<1>9. GroupsInOrder'
  <2>0. SortedInCopy(<<>>, via)
    BY DEF SortedInCopy
  <2> SUFFICES ASSUME NEW g \in Groups
               PROVE  /\ SortedInCopy(groupq'[g], via)
                      /\ \A d, e \in Events : sending'[g] = d /\ In(e, groupq'[g]) =>
                           BeforeInCopy(d, e, via)
                      /\ \A o \in Outputs : InGroup(o, g) =>
                           /\ SortedInCopy(Flow(o, g)', via)
                           /\ \A d, e \in Events :
                                In(d, Flow(o, g)') /\ In(e, groupq'[g]) => BeforeInCopy(d, e, via)
    BY <1>8 DEF GroupsInOrder
  <2>1. SortedInCopy(groupq'[g], via)
    BY <2>0 DEF IInv, GroupInv, GroupsInOrder
  <2>2. \A d \in Events : sending'[g] = d => sending[g] = d
    BY Constants
  <2>3. \A d, e \in Events : sending[g] = d /\ In(e, groupq[g]) => BeforeInCopy(d, e, via)
    BY DEF IInv, GroupInv, GroupsInOrder
  <2>4. ASSUME NEW o \in Outputs, InGroup(o, g)
        PROVE  /\ SortedInCopy(Flow(o, g)', via)
               /\ \A d, e \in Events :
                    In(d, Flow(o, g)') /\ In(e, groupq'[g]) => BeforeInCopy(d, e, via)
    <3>1. /\ SortedInCopy(Flow(o, g), via)
          /\ \A d, e \in Events : In(d, Flow(o, g)) /\ In(e, groupq[g]) => BeforeInCopy(d, e, via)
      BY <2>4 DEF IInv, GroupInv, GroupsInOrder
    <3> QED
      BY <1>3, <1>4, <2>4, <3>1
  <2> QED
    BY <1>4, <2>1, <2>2, <2>3, <2>4
<1>10. FlowsAgree'
  <2> SUFFICES ASSUME NEW g \in Groups, NEW o \in Outputs, NEW p \in Outputs, AreInGroup(o, p, g)
               PROVE  /\ \A k \in DOMAIN Flow(o, g)' \cap DOMAIN Flow(p, g)' :
                           Flow(o, g)'[k] = Flow(p, g)'[k]
                      /\ bst'[g] = "running" /\ Alive(o)' =>
                           Len(Flow(p, g)') <= Len(Flow(o, g)')
    BY DEF FlowsAgree
  <2>1. /\ \A k \in DOMAIN Flow(o, g) \cap DOMAIN Flow(p, g) : Flow(o, g)[k] = Flow(p, g)[k]
        /\ bst[g] = "running" /\ Alive(o) => Len(Flow(p, g)) <= Len(Flow(o, g))
    BY DEF IInv, GroupInv, FlowsAgree
  <2>2. InGroup(o, g) /\ InGroup(p, g)
    BY DEF AreInGroup
  <2>3. \A k \in DOMAIN Flow(o, g)' : k \in DOMAIN Flow(o, g) /\ Flow(o, g)'[k] = Flow(o, g)[k]
    BY <1>1, <1>2, <2>2, LenProperties DEF Starts
  <2>4. \A k \in DOMAIN Flow(p, g)' : k \in DOMAIN Flow(p, g) /\ Flow(p, g)'[k] = Flow(p, g)[k]
    BY <1>1, <1>2, <2>2, LenProperties DEF Starts
  <2>5. ASSUME bst'[g] = "running", Alive(o)' PROVE Len(Flow(p, g)') <= Len(Flow(o, g)')
    <3>1. Len(Flow(p, g)') <= Len(Flow(p, g))
      BY <2>2 DEF Starts
    <3>2. Len(Flow(p, g)) <= Len(Flow(o, g))
      BY <2>1, <2>2, <2>5
    <3>3. Len(Flow(o, g)') = Len(Flow(o, g))
      BY <2>2, <2>5
    <3>4. Len(Flow(p, g)') \in Nat /\ Len(Flow(p, g)) \in Nat /\ Len(Flow(o, g)) \in Nat
      BY <1>1, <1>2, LenProperties
    <3> QED
      BY <3>1, <3>2, <3>3, <3>4
  <2> QED
    BY <2>1, <2>3, <2>4, <2>5
<1> QED
  BY <1>7, <1>9, <1>10

\* The broadcaster is over: what it had is lost to the outputs that do not have it yet.
LEMMA BroadcasterEndsStep ==
  ASSUME IInv, TypeOK', NEW g \in Groups, BroadcasterEnds(g), UNCHANGED <<outq, ost, got>>,
         UNCHANGED <<inputVars, inq, graphVars>>
  PROVE  InputInv' /\ GraphInv' /\ GroupInv'
<1> USE DEF IInv, TypeInv
<1>1. \A h \in Groups :
        /\ groupq'[h] = (IF h = g THEN <<>> ELSE groupq[h])
        /\ sending'[h] = (IF h = g THEN NoEvent ELSE sending[h])
        /\ left'[h] = (IF h = g THEN <<>> ELSE left[h])
        /\ bst'[h] = (IF h = g THEN "ended" ELSE bst[h])
  BY DEF BroadcasterEnds, TypeOK
<1>2. \A o : Alive(o)' <=> Alive(o)
  BY DEF Alive
<1>3. \A h \in Groups, o \in Outputs : h # g => Flow(o, h)' = Flow(o, h)
  BY <1>1, <1>2 DEF Flow, Waits
<1>4. \A h \in Groups, o \in Outputs : Starts(Flow(o, h)', Flow(o, h))
  <2> SUFFICES ASSUME NEW h \in Groups, NEW o \in Outputs PROVE Starts(Flow(o, h)', Flow(o, h))
    OBVIOUS
  <2>1. CASE h # g
    BY <2>1, <1>3, FlowType, StartsItself
  <2>2. CASE h = g
    <3> DEFINE s == got[o] \o outq[o]
    <3>1. s \in Seq(Events)
      BY DEF TypeOK
    <3>2. ~Waits(o, h)'
      BY <1>1, <2>2, InEmpty DEF Waits
    <3>3. Flow(o, h)' = s
      BY <3>1, <3>2, ConcatEmptySeq DEF Flow
    <3> QED
      BY <3>3, QueuedIsFirst
  <2> QED
    BY <2>1, <2>2
<1>5. \A h \in Groups : bst'[h] = "running" => h # g /\ bst[h] = "running"
  BY <1>1
<1>6. InputInv' /\ GraphInv' /\ Routed' /\ GroupsInOrder' /\ FlowsAgree'
  BY <1>1, <1>2, <1>3, <1>4, <1>5, OutputsLose
<1>7. LeftIsSuffix'
  <2> SUFFICES ASSUME NEW h \in Groups
               PROVE  /\ Len(left'[h]) <= Len(OutputsOf[h])
                      /\ \A k \in 1 .. Len(left'[h]) :
                           left'[h][k] = OutputsOf[h][Len(OutputsOf[h]) - Len(left'[h]) + k]
    BY DEF LeftIsSuffix
  <2>1. CASE h # g
    BY <1>1, <2>1, ZenonT(60) DEF GroupInv, LeftIsSuffix
  <2>2. CASE h = g
    <3>1. Len(left'[h]) = 0 /\ Len(OutputsOf[h]) \in Nat
      BY <1>1, <2>2, Constants
    <3> QED
      BY <3>1
  <2> QED
    BY <2>1, <2>2
<1> QED
  BY <1>6, <1>7 DEF GroupInv

-----------------------------------------------------------------------------
(* The outputs: SendOne *)

LEMMA SuffixTail ==
  ASSUME NEW S, NEW l \in Seq(S), NEW list \in Seq(S), l # <<>>, Len(l) <= Len(list),
         \A k \in 1 .. Len(l) : l[k] = list[Len(list) - Len(l) + k],
         \A j, k \in DOMAIN list : list[j] = list[k] => j = k
  PROVE  /\ In(Head(l), list)
         /\ ~In(Head(l), Tail(l))
         /\ Len(Tail(l)) <= Len(list)
         /\ \A k \in 1 .. Len(Tail(l)) : Tail(l)[k] = list[Len(list) - Len(Tail(l)) + k]
<1>1. /\ Len(l) \in Nat \ {0}
      /\ Head(l) = l[1]
      /\ Len(Tail(l)) = Len(l) - 1
      /\ DOMAIN Tail(l) = 1 .. Len(l) - 1
      /\ \A k \in 1 .. Len(l) - 1 : Tail(l)[k] = l[k + 1]
  OBVIOUS
<1>2. Len(list) \in Nat /\ DOMAIN list = 1 .. Len(list)
  OBVIOUS
<1>3. PICK n \in Nat : n = Len(list) - Len(l)
  <2>1. Len(list) - Len(l) \in Nat
    BY <1>1, <1>2
  <2> QED
    BY <2>1
<1>4. \A k \in 1 .. Len(l) : n + k \in DOMAIN list /\ l[k] = list[n + k]
  BY <1>1, <1>2, <1>3
<1>5. In(Head(l), list)
  BY <1>1, <1>4 DEF In
<1>6. ~In(Head(l), Tail(l))
  <2> SUFFICES ASSUME NEW k \in 1 .. Len(l) - 1, l[k + 1] = l[1] PROVE FALSE
    BY <1>1 DEF In
  <2>1. k + 1 \in 1 .. Len(l) /\ 1 \in 1 .. Len(l)
    BY <1>1
  <2>2. n + (k + 1) = n + 1
    BY <2>1, <1>4
  <2> QED
    BY <2>2, <1>3
<1>7. ASSUME NEW k \in 1 .. Len(Tail(l))
      PROVE  Tail(l)[k] = list[Len(list) - Len(Tail(l)) + k]
  <2>1. k \in 1 .. Len(l) - 1 /\ k + 1 \in 1 .. Len(l)
    BY <1>1
  <2>2. Len(list) - Len(Tail(l)) + k = n + (k + 1)
    BY <1>1, <1>2, <1>3
  <2>3. Tail(l)[k] = list[n + (k + 1)]
    BY <2>1, <1>1, <1>4
  <2> QED
    BY <2>2, <2>3
<1>8. Len(Tail(l)) <= Len(list)
  BY <1>1, <1>2
<1> QED
  BY <1>5, <1>6, <1>7, <1>8

LEMMA FlowKeeps ==
  ASSUME NEW o, NEW g, got'[o] = got[o], outq'[o] = outq[o], Waits(o, g)' <=> Waits(o, g),
         Waits(o, g)' => sending'[g] = sending[g]
  PROVE  Flow(o, g)' = Flow(o, g)
<1>1. CASE Waits(o, g)
  BY <1>1 DEF Flow
<1>2. CASE ~Waits(o, g)
  BY <1>2 DEF Flow
<1> QED
  BY <1>1, <1>2

\* The event is moved from what waits for the output to its queue.
LEMMA SendOneStep ==
  ASSUME IInv, TypeOK', NEW g \in Groups, NEW x \in Events, sending[g] = x,
         NEW o, o = Head(left[g]), Alive(o),
         outq' = [outq EXCEPT ![o] = Append(@, x)],
         left' = [left EXCEPT ![g] = Tail(@)],
         sending' = [sending EXCEPT ![g] = IF Tail(left[g]) = <<>> THEN NoEvent ELSE @],
         UNCHANGED <<bst, groupq, ost, got, inputVars, inq, graphVars>>
  PROVE  InputInv' /\ GraphInv' /\ GroupInv'
<1> USE DEF IInv, TypeInv, GroupInv
<1> DEFINE l == left[g]
           list == OutputsOf[g]
<1>1. l \in Seq(Outputs) /\ l # <<>>
  BY Constants DEF TypeOK
<1>2. /\ o \in Outputs
      /\ \A p : In(p, l) <=> p = o \/ In(p, Tail(l))
  BY <1>1, InTail
<1>3. /\ list \in Seq(Outputs)
      /\ \A j, k \in DOMAIN list : list[j] = list[k] => j = k
  BY Constants, GroupAssumption
<1>4. Len(l) <= Len(list) /\ \A k \in 1 .. Len(l) : l[k] = list[Len(list) - Len(l) + k]
  BY DEF LeftIsSuffix
<1> HIDE DEF l, list
<1>5. /\ In(o, list)
      /\ ~In(o, Tail(l))
      /\ Len(Tail(l)) <= Len(list)
      /\ \A k \in 1 .. Len(Tail(l)) : Tail(l)[k] = list[Len(list) - Len(Tail(l)) + k]
  <2>1. o = Head(l)
    BY DEF l
  <2> QED
    BY <2>1, <1>1, <1>3, <1>4, SuffixTail
<1>6. InGroup(o, g)
  BY <1>5 DEF InGroup, In, list
<1>7. /\ \A h \in Groups : h # g => left'[h] = left[h] /\ sending'[h] = sending[h]
      /\ left'[g] = Tail(l)
      /\ sending'[g] = (IF Tail(l) = <<>> THEN NoEvent ELSE x)
      /\ \A p \in Outputs : outq'[p] = (IF p = o THEN Append(outq[o], x) ELSE outq[p])
      /\ \A p : Alive(p)' <=> Alive(p)
  BY <1>2 DEF TypeOK, Alive, l
<1>8. \A h \in Groups, p \in Outputs : InGroup(p, h) => Flow(p, h)' = Flow(p, h)
  <2> SUFFICES ASSUME NEW h \in Groups, NEW p \in Outputs, InGroup(p, h)
               PROVE  Flow(p, h)' = Flow(p, h)
    OBVIOUS
  <2>1. CASE h # g
    <3>1. p # o
      BY <2>1, <1>6, GroupAssumption DEF InGroup
    <3>2. left'[h] = left[h] /\ sending'[h] = sending[h] /\ outq'[p] = outq[p]
          /\ got'[p] = got[p] /\ (Alive(p)' <=> Alive(p))
      BY <2>1, <3>1, <1>7
    <3>3. Waits(p, h)' <=> Waits(p, h)
      BY <3>2 DEF Waits
    <3> QED
      BY <3>2, <3>3, FlowKeeps
  <2>2. CASE h = g /\ p # o
    <3>1. Waits(p, h)' <=> Waits(p, h)
      BY <2>2, <1>2, <1>7 DEF Waits, l
    <3>2. Waits(p, h)' => sending'[h] = sending[h]
      BY <2>2, <1>7, InEmpty DEF Waits
    <3>3. outq'[p] = outq[p] /\ got'[p] = got[p]
      BY <2>2, <1>7
    <3> QED
      BY <3>1, <3>2, <3>3, FlowKeeps
  <2>3. CASE h = g /\ p = o
    <3>1. Waits(o, g) /\ ~Waits(o, g)'
      BY <1>2, <1>5, <1>7 DEF Waits, l
    <3>2. got[o] \in Seq(Events) /\ outq[o] \in Seq(Events) /\ Append(outq[o], x) \in Seq(Events)
      <4>1. got[o] \in Seq(Events) /\ outq[o] \in Seq(Events)
        BY <1>2 DEF TypeOK
      <4> QED
        BY <4>1
    <3>3. Flow(o, g) = (got[o] \o outq[o]) \o <<x>>
      BY <3>1 DEF Flow
    <3>4. Flow(o, g)' = (got[o] \o Append(outq[o], x)) \o <<>>
      BY <3>1, <1>2, <1>7 DEF Flow
    <3>5. (got[o] \o Append(outq[o], x)) \o <<>> = got[o] \o Append(outq[o], x)
      BY <3>2, ConcatProperties, ConcatEmptySeq
    <3>6. got[o] \o Append(outq[o], x) = (got[o] \o outq[o]) \o <<x>>
      <4> DEFINE a == got[o]
                 b == outq[o]
      <4>1. a \in Seq(Events) /\ b \in Seq(Events)
        BY <3>2
      <4> HIDE DEF a, b
      <4>2. a \o Append(b, x) = (a \o b) \o <<x>>
        BY <4>1, AppendInside
      <4> QED
        BY <4>2 DEF a, b
    <3> QED
      BY <2>3, <3>3, <3>4, <3>5, <3>6
  <2> QED
    BY <2>1, <2>2, <2>3
<1>9. \A h \in Groups, p \in Outputs : InGroup(p, h) => Starts(Flow(p, h)', Flow(p, h))
  BY <1>8, FlowType, StartsItself
<1>10. \A h \in Groups : sending'[h] \in {sending[h], NoEvent}
  BY <1>7
<1>11. InputInv' /\ GraphInv' /\ Routed' /\ GroupsInOrder' /\ FlowsAgree'
  BY <1>7, <1>8, <1>9, <1>10, OutputsLose
<1>12. LeftIsSuffix'
  <2> SUFFICES ASSUME NEW h \in Groups
               PROVE  /\ Len(left'[h]) <= Len(OutputsOf[h])
                      /\ \A k \in 1 .. Len(left'[h]) :
                           left'[h][k] = OutputsOf[h][Len(OutputsOf[h]) - Len(left'[h]) + k]
    BY DEF LeftIsSuffix
  <2>1. CASE h # g
    BY <1>7, <2>1, ZenonT(60) DEF LeftIsSuffix
  <2>2. CASE h = g
    <3>1. left'[h] = Tail(l) /\ OutputsOf[h] = list
      BY <2>2, <1>7 DEF list
    <3> QED
      BY <3>1, <1>5
  <2> QED
    BY <2>1, <2>2
<1> QED
  BY <1>11, <1>12

-----------------------------------------------------------------------------
(* The outputs: Broadcast *)

\* Every output of the group that is alive gets the event.
LEMMA BroadcastStep ==
  ASSUME IInv, TypeOK', NEW g \in Groups, Broadcast(g), UNCHANGED <<inputVars, inq, graphVars>>
  PROVE  InputInv' /\ GraphInv' /\ GroupInv'
<1> DEFINE q == groupq[g]
           x == Head(q)
<1> USE DEF IInv, TypeInv, GroupInv
<1>1. /\ bst[g] = "running" /\ sending[g] = NoEvent /\ left[g] = <<>>
      /\ q # <<>> /\ q \in Seq(Events)
      /\ UNCHANGED <<bst, outq, ost, got, via>>
  BY DEF Broadcast, TypeOK, graphVars
<1>2. /\ x \in Events
      /\ \A e : In(e, q) <=> e = x \/ In(e, Tail(q))
      /\ SortedInCopy(Tail(q), via)
      /\ \A e : In(e, Tail(q)) => BeforeInCopy(x, e, via)
  BY <1>1, InTail, SortedInCopyTail DEF GroupsInOrder
<1>3. /\ \A h \in Groups : h # g => /\ groupq'[h] = groupq[h] /\ sending'[h] = sending[h]
                                    /\ left'[h] = left[h]
      /\ groupq'[g] = Tail(q) /\ sending'[g] = x /\ left'[g] = OutputsOf[g]
      /\ \A o : Alive(o)' <=> Alive(o)
  BY DEF Broadcast, TypeOK, Alive
<1>4. \A h \in Groups, o \in Outputs : h # g => Flow(o, h)' = Flow(o, h)
  BY <1>1, <1>3 DEF Flow, Waits
<1>5. \A o \in Outputs : InGroup(o, g) =>
        /\ Alive(o) => Flow(o, g)' = Append(Flow(o, g), x)
        /\ ~Alive(o) => Flow(o, g)' = Flow(o, g)
  <2> SUFFICES ASSUME NEW o \in Outputs, InGroup(o, g)
               PROVE  /\ Alive(o) => Flow(o, g)' = Append(Flow(o, g), x)
                      /\ ~Alive(o) => Flow(o, g)' = Flow(o, g)
    OBVIOUS
  <2> DEFINE s == got[o] \o outq[o]
  <2>1. s \in Seq(Events)
    BY DEF TypeOK
  <2>2. ~Waits(o, g) /\ (Waits(o, g)' <=> Alive(o))
    BY <1>1, <1>3, InEmpty DEF Waits, InGroup, In
  <2>3. Flow(o, g) = s
    BY <2>1, <2>2, ConcatEmptySeq DEF Flow
  <2>4. Flow(o, g)' = s \o (IF Alive(o) THEN <<x>> ELSE <<>>)
    BY <1>1, <1>3, <2>2 DEF Flow
  <2>5. s \o <<>> = s /\ s \o <<x>> = Append(s, x)
    BY <1>2, <2>1, ConcatEmptySeq, AppendIsConcat
  <2> QED
    BY <2>3, <2>4, <2>5
<1>6. \A o \in Outputs : Flow(o, g) \in Seq(Events)
  BY FlowType
<1>7. \A o \in Outputs : InGroup(o, g) => \A d : In(d, Flow(o, g)') => d = x \/ In(d, Flow(o, g))
  BY <1>2, <1>5, <1>6, InAppend
<1>8. \A d \in Events, h \in Groups : Beyond(d, h)' => Beyond(d, h)
  <2> SUFFICES ASSUME NEW d \in Events, NEW h \in Groups, Beyond(d, h)' PROVE Beyond(d, h)
    OBVIOUS
  <2>1. \/ In(d, groupq'[h])
        \/ sending'[h] = d
        \/ \E o \in Outputs : InGroup(o, h) /\ In(d, Flow(o, h)')
    BY DEF Beyond
  <2>2. CASE h # g
    BY <2>1, <2>2, <1>3, <1>4 DEF Beyond
  <2>3. CASE h = g
    <3>1. In(d, q) \/ \E o \in Outputs : InGroup(o, g) /\ In(d, Flow(o, g))
      BY <2>1, <2>3, <1>2, <1>3, <1>7
    <3> QED
      BY <2>3, <3>1 DEF Beyond
  <2> QED
    BY <2>2, <2>3
<1>9. InputInv' /\ GraphInv' /\ Routed'
  <2>1. \A d \in Events, c \in Copies, t \in Tasks : AtTask(d, c, t)' => AtTask(d, c, t)
    BY AtTaskSame DEF graphVars
  <2> QED
    BY <2>1, <1>8, LosesOnly DEF graphVars
<1>10. LeftIsSuffix'
  <2> SUFFICES ASSUME NEW h \in Groups
               PROVE  /\ Len(left'[h]) <= Len(OutputsOf[h])
                      /\ \A k \in 1 .. Len(left'[h]) :
                           left'[h][k] = OutputsOf[h][Len(OutputsOf[h]) - Len(left'[h]) + k]
    BY DEF LeftIsSuffix
  <2>1. CASE h # g
    BY <1>3, <2>1 DEF LeftIsSuffix
  <2>2. CASE h = g
    <3>1. left'[h] = OutputsOf[h] /\ Len(OutputsOf[h]) \in Nat
      BY <1>3, <2>2, Constants
    <3> QED
      BY <3>1
  <2> QED
    BY <2>1, <2>2
<1>11. GroupsInOrder'
  <2> SUFFICES ASSUME NEW h \in Groups
               PROVE  /\ SortedInCopy(groupq'[h], via)
                      /\ \A d, e \in Events : sending'[h] = d /\ In(e, groupq'[h]) =>
                           BeforeInCopy(d, e, via)
                      /\ \A o \in Outputs : InGroup(o, h) =>
                           /\ SortedInCopy(Flow(o, h)', via)
                           /\ \A d, e \in Events :
                                In(d, Flow(o, h)') /\ In(e, groupq'[h]) => BeforeInCopy(d, e, via)
    BY <1>1 DEF GroupsInOrder
  <2>1. CASE h # g
    BY <1>3, <1>4, <2>1 DEF GroupsInOrder
  <2>2. CASE h = g
    <3>1. ASSUME NEW o \in Outputs, InGroup(o, g)
          PROVE  /\ SortedInCopy(Flow(o, g)', via)
                 /\ \A d, e \in Events :
                      In(d, Flow(o, g)') /\ In(e, Tail(q)) => BeforeInCopy(d, e, via)
      <4>1. /\ SortedInCopy(Flow(o, g), via)
            /\ \A d, e \in Events : In(d, Flow(o, g)) /\ In(e, q) => BeforeInCopy(d, e, via)
        BY <3>1 DEF GroupsInOrder
      <4>2. \A d \in Events : In(d, Flow(o, g)) => BeforeInCopy(d, x, via)
        BY <4>1, <1>2
      <4>3. SortedInCopy(Append(Flow(o, g), x), via)
        BY <4>1, <4>2, <1>2, <1>6, SortedInCopyAppend
      <4>4. SortedInCopy(Flow(o, g)', via)
        BY <4>1, <4>3, <3>1, <1>5
      <4>5. \A d, e \in Events : In(d, Flow(o, g)') /\ In(e, Tail(q)) => BeforeInCopy(d, e, via)
        BY <4>1, <3>1, <1>2, <1>7
      <4> QED
        BY <4>4, <4>5
    <3> QED
      BY <2>2, <3>1, <1>2, <1>3
  <2> QED
    BY <2>1, <2>2
<1>12. FlowsAgree'
  <2> SUFFICES ASSUME NEW h \in Groups, NEW o \in Outputs, NEW p \in Outputs, AreInGroup(o, p, h)
               PROVE  /\ \A k \in DOMAIN Flow(o, h)' \cap DOMAIN Flow(p, h)' :
                           Flow(o, h)'[k] = Flow(p, h)'[k]
                      /\ bst'[h] = "running" /\ Alive(o)' =>
                           Len(Flow(p, h)') <= Len(Flow(o, h)')
    BY DEF FlowsAgree
  <2>1. CASE h # g
    BY <1>1, <1>3, <1>4, <2>1 DEF FlowsAgree
  <2>2. CASE h = g
    <3> DEFINE s == Flow(o, g)
               t == Flow(p, g)
    <3>1. /\ s \in Seq(Events) /\ t \in Seq(Events)
          /\ \A k \in DOMAIN s \cap DOMAIN t : s[k] = t[k]
          /\ \A k \in DOMAIN t \cap DOMAIN s : t[k] = s[k]
          /\ Alive(o) => Len(t) <= Len(s)
          /\ Alive(p) => Len(s) <= Len(t)
      BY <2>2, <1>1, <1>6 DEF FlowsAgree, AreInGroup
    <3>2. /\ Flow(o, h)' = (IF Alive(o) THEN Append(s, x) ELSE s)
          /\ Flow(p, h)' = (IF Alive(p) THEN Append(t, x) ELSE t)
      BY <2>2, <1>5 DEF AreInGroup
    <3> HIDE DEF s, t
    <3>3. Len(s) \in Nat /\ Len(t) \in Nat /\ Len(Append(s, x)) = Len(s) + 1
          /\ Len(Append(t, x)) = Len(t) + 1
      BY <3>1, <1>2
    <3>4. CASE Alive(o) /\ Alive(p)
      BY <3>1, <3>2, <3>3, <3>4, <1>2, AppendAgrees
    <3>5. CASE Alive(o) /\ ~Alive(p)
      BY <3>1, <3>2, <3>3, <3>5, <1>2, AppendAgrees
    <3>6. CASE ~Alive(o) /\ Alive(p)
      <4>1. \A k \in DOMAIN Append(t, x) \cap DOMAIN s : Append(t, x)[k] = s[k]
        BY <3>1, <3>6, <1>2, AppendAgrees
      <4> QED
        BY <3>2, <3>6, <4>1, <1>3
    <3>7. CASE ~Alive(o) /\ ~Alive(p)
      BY <3>1, <3>2, <3>7, <1>3
    <3> QED
      BY <3>4, <3>5, <3>6, <3>7
  <2> QED
    BY <2>1, <2>2
<1> QED
  BY <1>9, <1>10, <1>11, <1>12

-----------------------------------------------------------------------------
(* The outputs: all of them *)

LEMMA BroadcasterStep ==
  ASSUME IInv, TypeOK', NEW g \in Groups, Broadcaster(g)
  PROVE  InputInv' /\ GraphInv' /\ GroupInv'
<1>1. UNCHANGED <<inputVars, inq, graphVars>>
  BY DEF Broadcaster
<1>2. CASE Broadcast(g)
  BY <1>1, <1>2, BroadcastStep
<1>3. CASE SendOne(g)
  <2> DEFINE o == Head(left[g])
             x == sending[g]
  <2>1. x \in Events
    BY <1>3 DEF SendOne, IInv, TypeInv, TypeOK, OrNone
  <2>2. CASE /\ Alive(o)
             /\ outq' = [outq EXCEPT ![o] = Append(@, x)]
             /\ left' = [left EXCEPT ![g] = Tail(@)]
             /\ sending' = [sending EXCEPT ![g] = IF Tail(left[g]) = <<>> THEN NoEvent ELSE @]
             /\ UNCHANGED <<bst, groupq>>
    <3>1. UNCHANGED <<ost, got>>
      BY <1>3 DEF SendOne
    <3> QED
      BY <1>1, <2>1, <2>2, <3>1, SendOneStep
  <2>3. CASE BroadcasterEnds(g) /\ UNCHANGED outq
    <3>1. UNCHANGED <<ost, got>>
      BY <1>3 DEF SendOne
    <3> QED
      BY <1>1, <2>3, <3>1, BroadcasterEndsStep
  <2> QED
    BY <1>3, <2>2, <2>3 DEF SendOne, Alive
<1>4. CASE BroadcastEnd(g)
  BY <1>1, <1>4, BroadcasterEndsStep DEF BroadcastEnd
<1> QED
  BY <1>2, <1>3, <1>4 DEF Broadcaster

\* An output only takes what is queued for it, or is gone.
LEMMA SinkStep ==
  ASSUME IInv, TypeOK', NEW o \in Outputs, Sink(o) \/ SinkFails(o)
  PROVE  InputInv' /\ GraphInv' /\ GroupInv'
<1> USE DEF IInv, TypeInv
<1>1. UNCHANGED <<inputVars, inq, graphVars, groupq, bst, sending, left>>
  BY DEF Sink, SinkFails
<1>2. \A p \in Outputs : p # o =>
        got'[p] = got[p] /\ outq'[p] = outq[p] /\ (Alive(p)' <=> Alive(p))
  BY DEF Sink, SinkFails, Output, StartOutput, Deliver, OutputEnd, OutputFails, Alive, TypeOK
<1>3. \A p \in Outputs, g \in Groups : p # o => Flow(p, g)' = Flow(p, g)
  <2> SUFFICES ASSUME NEW p \in Outputs, NEW g \in Groups, p # o PROVE Flow(p, g)' = Flow(p, g)
    OBVIOUS
  <2>1. Waits(p, g)' <=> Waits(p, g)
    BY <1>1, <1>2 DEF Waits
  <2> QED
    BY <1>1, <1>2, <2>1, FlowKeeps
<1>4. got[o] \in Seq(Events) /\ outq[o] \in Seq(Events) /\ got[o] \o outq[o] \in Seq(Events)
  BY DEF TypeOK
<1>5. CASE /\ got'[o] \o outq'[o] = got[o] \o outq[o]
           /\ Alive(o)' <=> Alive(o)
  <2>1. \A g \in Groups : Flow(o, g)' = Flow(o, g)
    BY <1>1, <1>5 DEF Flow, Waits
  <2>2. \A p \in Outputs, g \in Groups : Starts(Flow(p, g)', Flow(p, g))
    BY <1>3, <2>1, FlowType, StartsItself
  <2>3. \A p \in Outputs : Alive(p)' <=> Alive(p)
    BY <1>2, <1>5
  <2>4. InputInv' /\ GraphInv' /\ Routed' /\ GroupsInOrder' /\ FlowsAgree'
    BY <1>1, <1>3, <2>1, <2>2, <2>3, OutputsLose
  <2> QED
    BY <1>1, <2>4 DEF GroupInv, LeftIsSuffix
<1>6. CASE ~Alive(o)' /\ got'[o] = got[o] /\ outq'[o] = <<>>
  <2>1. \A g \in Groups : Starts(Flow(o, g)', Flow(o, g))
    <3> SUFFICES ASSUME NEW g \in Groups PROVE Starts(Flow(o, g)', Flow(o, g))
      OBVIOUS
    <3>1. Flow(o, g)' = got[o]
      <4>1. Flow(o, g)' = (got[o] \o <<>>) \o <<>>
        BY <1>6 DEF Flow, Waits
      <4> QED
        BY <4>1, <1>4, ConcatEmptySeq
    <3>2. \E s \in Seq(Events) : Flow(o, g) = got[o] \o s
      <4>1. Waits(o, g) => <<sending[g]>> \in Seq(Events)
        BY InEmpty DEF TypeOK, OrNone, Waits
      <4>2. CASE Waits(o, g)
        <5> DEFINE a == got[o]
                   b == outq[o]
                   u == <<sending[g]>>
        <5>0. a \in Seq(Events) /\ b \in Seq(Events) /\ u \in Seq(Events)
          BY <1>4, <4>1, <4>2
        <5>1. Flow(o, g) = a \o (b \o u)
          <6>1. Flow(o, g) = (a \o b) \o u
            BY <4>2 DEF Flow
          <6> HIDE DEF a, b, u
          <6> QED
            BY <5>0, <6>1, ConcatAssociative
        <5> QED
          BY <5>0, <5>1, ConcatProperties
      <4>3. CASE ~Waits(o, g)
        BY <1>4, <4>3, ConcatEmptySeq DEF Flow
      <4> QED
        BY <4>2, <4>3
    <3> QED
      BY <1>4, <3>1, <3>2, ConcatStarts
  <2>2. \A p \in Outputs, g \in Groups : Starts(Flow(p, g)', Flow(p, g))
    BY <1>3, <2>1, FlowType, StartsItself
  <2>3. \A p \in Outputs, g \in Groups : Alive(p)' => Alive(p) /\ Flow(p, g)' = Flow(p, g)
    BY <1>2, <1>3, <1>6
  <2>4. InputInv' /\ GraphInv' /\ Routed' /\ GroupsInOrder' /\ FlowsAgree'
    BY <1>1, <2>2, <2>3, OutputsLose
  <2> QED
    BY <1>1, <2>4 DEF GroupInv, LeftIsSuffix
<1>7. CASE StartOutput(o)
  <2>1. Alive(o)' /\ Alive(o) /\ got'[o] = got[o] /\ outq'[o] = outq[o]
    BY <1>7 DEF StartOutput, Alive, TypeOK
  <2> QED
    BY <1>5, <2>1
<1>8. CASE Deliver(o)
  <2>1. /\ outq[o] # <<>> /\ Alive(o) /\ Alive(o)'
        /\ got'[o] = Append(got[o], Head(outq[o]))
        /\ outq'[o] = Tail(outq[o])
    BY <1>8 DEF Deliver, Alive, TypeOK
  <2>2. got'[o] \o outq'[o] = got[o] \o outq[o]
    BY <1>4, <2>1, MoveHead
  <2> QED
    BY <1>5, <2>1, <2>2
<1>9. CASE OutputEnd(o)
  <2>1. ~Alive(o)' /\ got'[o] = got[o] /\ outq'[o] = <<>>
    BY <1>9 DEF OutputEnd, Alive, TypeOK
  <2> QED
    BY <1>6, <2>1
<1>10. CASE OutputFails(o)
  <2>1. ~Alive(o)' /\ got'[o] = got[o] /\ outq'[o] = <<>>
    BY <1>10 DEF OutputFails, Alive, TypeOK
  <2> QED
    BY <1>6, <2>1
<1> QED
  BY <1>7, <1>8, <1>9, <1>10 DEF Sink, SinkFails, Output

-----------------------------------------------------------------------------
LEMMA InitInv == Init => IInv
<1> SUFFICES ASSUME Init PROVE IInv
  OBVIOUS
<1>1. /\ \A i \in Inputs : outgoing[i] = NoEvent
      /\ inq = <<>>
      /\ \A c \in Copies, t \in Tasks : chan[<<c, t>>] = <<>> /\ holding[<<c, t>>] = NoEvent
      /\ \A g \in Groups : groupq[g] = <<>> /\ sending[g] = NoEvent /\ left[g] = <<>>
      /\ \A o \in Outputs : outq[o] = <<>> /\ got[o] = <<>>
      /\ accepted = {}
  BY DEF Init
<1>2. \A e \in Events, c \in Copies, t \in Tasks : ~AtTask(e, c, t)
  BY <1>1, InEmpty, Constants DEF AtTask
<1>3. \A o \in Outputs, g \in Groups : Flow(o, g) = <<>>
  <2>1. \A o \in Outputs, g \in Groups : ~Waits(o, g)
    BY <1>1, InEmpty DEF Waits
  <2>2. (<<>> \o <<>>) \o <<>> = <<>>
    OBVIOUS
  <2> QED
    BY <1>1, <2>1, <2>2 DEF Flow
<1>4. \A e \in Events, g \in Groups : ~Beyond(e, g)
  BY <1>1, <1>3, InEmpty, Constants DEF Beyond
<1>5. Sorted(<<>>) /\ \A v : SortedInCopy(<<>>, v)
  BY DEF Sorted, SortedInCopy
<1>6. InputInv
  BY <1>1, <1>2, <1>4, <1>5, InEmpty
  DEF InputInv, OutgoingIsNext, AcceptedInOrder, AllAccepted, QueueInOrder
<1>7. GraphInv
  <2>1. \A p \in Tasks : Below(p) \subseteq Tasks
    BY DEF Below
  <2>2. TasksInOrder
    BY <1>1, <1>2, <1>5, InEmpty DEF TasksInOrder
  <2> QED
    BY <2>1, <2>2, <1>1, <1>2, Constants DEF GraphInv, RootReadsQueue, TreeInOrder, LeavesInOrder
<1>8. Routed /\ GroupsInOrder /\ FlowsAgree
  <2>1. GroupsInOrder
    BY <1>1, <1>3, <1>5, InEmpty DEF GroupsInOrder
  <2>2. FlowsAgree
    BY <1>3 DEF FlowsAgree, AreInGroup
  <2> QED
    BY <1>4, <2>1, <2>2 DEF Routed
<1>9. LeftIsSuffix
  <2> SUFFICES ASSUME NEW g \in Groups
               PROVE  /\ Len(left[g]) <= Len(OutputsOf[g])
                      /\ \A k \in 1 .. Len(left[g]) :
                           left[g][k] = OutputsOf[g][Len(OutputsOf[g]) - Len(left[g]) + k]
    BY DEF LeftIsSuffix
  <2>1. Len(left[g]) = 0 /\ Len(OutputsOf[g]) \in Nat
    BY <1>1, Constants
  <2> QED
    BY <2>1
<1> QED
  BY <1>6, <1>7, <1>8, <1>9, InitType DEF IInv, GroupInv

LEMMA NextInv == IInv /\ [Next]_vars => IInv'
<1> SUFFICES ASSUME IInv, [Next]_vars PROVE IInv'
  OBVIOUS
<1>t. TypeInv' /\ TypeOK'
  BY NextType DEF IInv, TypeInv
<1> SUFFICES InputInv' /\ GraphInv' /\ GroupInv'
  BY <1>t DEF IInv
<1>1. ASSUME NEW i \in Inputs, Input(i) PROVE InputInv' /\ GraphInv' /\ GroupInv'
  BY <1>1, InputStep
<1>2. ASSUME NEW c \in Copies, Start(c) PROVE InputInv' /\ GraphInv' /\ GroupInv'
  BY <1>2, StartStep
<1>3. ASSUME NEW c \in Copies, NEW t \in Tasks, Run(c, t) \/ Fail(c, t)
      PROVE  InputInv' /\ GraphInv' /\ GroupInv'
  BY <1>3, GraphStep
<1>4. ASSUME NEW g \in Groups, Broadcaster(g) PROVE InputInv' /\ GraphInv' /\ GroupInv'
  BY <1>4, <1>t, BroadcasterStep
<1>5. ASSUME NEW o \in Outputs, Sink(o) \/ SinkFails(o) PROVE InputInv' /\ GraphInv' /\ GroupInv'
  BY <1>5, <1>t, SinkStep
<1>6. CASE UNCHANGED vars
  BY <1>6, GraphLoses DEF vars, graphVars
<1> QED
  BY <1>1, <1>2, <1>3, <1>4, <1>5, <1>6 DEF Next

LEMMA AlwaysInv == Spec => []IInv
<1>1. Init => IInv
  BY InitInv
<1>2. IInv /\ [Next]_vars => IInv'
  BY NextInv
<1> QED
  BY <1>1, <1>2, PTL DEF Spec

-----------------------------------------------------------------------------
(* What an output took is the beginning of what it gets *)

LEMMA GotIsFirst ==
  ASSUME TypeOK, NEW o \in Outputs, NEW g \in Groups, NEW k \in DOMAIN got[o]
  PROVE  k \in DOMAIN Flow(o, g) /\ Flow(o, g)[k] = got[o][k]
<1> DEFINE a == got[o]
           b == outq[o]
           s == a \o b
<1>1. a \in Seq(Events) /\ b \in Seq(Events) /\ k \in DOMAIN a
  BY DEF TypeOK
<1>2. Starts(s, Flow(o, g)) /\ Flow(o, g) \in Seq(Events)
  BY QueuedIsFirst, FlowType
<1> HIDE DEF a, b
<1>3. s \in Seq(Events) /\ Starts(a, s)
  BY <1>1, ConcatProperties, ConcatStarts
<1> HIDE DEF s
<1>4. k \in DOMAIN s /\ s[k] = a[k]
  BY <1>1, <1>3, StartsAt
<1>5. k \in DOMAIN Flow(o, g) /\ Flow(o, g)[k] = s[k]
  BY <1>2, <1>3, <1>4, StartsAt
<1> QED
  BY <1>4, <1>5 DEF a

LEMMA QueuedIsNext ==
  ASSUME TypeOK, NEW o \in Outputs, NEW g \in Groups, outq[o] # <<>>
  PROVE  /\ Len(got[o]) + 1 \in DOMAIN Flow(o, g)
         /\ Flow(o, g)[Len(got[o]) + 1] = Head(outq[o])
<1> DEFINE a == got[o]
           b == outq[o]
           k == Len(a) + 1
<1>1. a \in Seq(Events) /\ b \in Seq(Events) /\ b # <<>>
  BY DEF TypeOK
<1>2. Starts(a \o b, Flow(o, g)) /\ Flow(o, g) \in Seq(Events)
  BY QueuedIsFirst, FlowType
<1> HIDE DEF a, b
<1>3. Len(a) \in Nat /\ Len(b) \in Nat \ {0} /\ Head(b) = b[1]
  BY <1>1
<1>4. /\ a \o b \in Seq(Events)
      /\ Len(a \o b) = Len(a) + Len(b)
      /\ \A i \in 1 .. Len(a) + Len(b) : (a \o b)[i] = IF i <= Len(a) THEN a[i] ELSE b[i - Len(a)]
  BY <1>1, ConcatProperties
<1>5. k \in 1 .. Len(a) + Len(b) /\ ~(k <= Len(a)) /\ k - Len(a) = 1
  BY <1>3
<1>6. (a \o b)[k] = Head(b)
  BY <1>3, <1>4, <1>5
<1>7. k \in 1 .. Len(Flow(o, g)) /\ Flow(o, g)[k] = Head(b)
  BY <1>2, <1>3, <1>4, <1>5, <1>6, LenProperties DEF Starts
<1> QED
  BY <1>2, <1>7, LenProperties DEF a, b

-----------------------------------------------------------------------------
\* Of what two outputs of a group took, one is the beginning of the other, with any number
\* of outputs and whatever fails: both took theirs from one flow (pipeline.rs:313-324).
THEOREM OutputsAlwaysAgree == Spec => []OutputsAgree
<1>1. IInv => OutputsAgree
  <2> SUFFICES ASSUME IInv, NEW g \in Groups, NEW o \in Outputs, NEW p \in Outputs,
                      AreInGroup(o, p, g), NEW k \in DOMAIN got[o] \cap DOMAIN got[p]
               PROVE  got[o][k] = got[p][k]
    BY DEF OutputsAgree
  <2>1. /\ k \in DOMAIN Flow(o, g) /\ Flow(o, g)[k] = got[o][k]
        /\ k \in DOMAIN Flow(p, g) /\ Flow(p, g)[k] = got[p][k]
    BY GotIsFirst DEF IInv, TypeInv
  <2> QED
    BY <2>1 DEF IInv, GroupInv, FlowsAgree
<1> QED
  BY <1>1, AlwaysInv, PTL

\* Events of one input that share a copy of the graph never overtake each other, on any tree
\* and with any number of copies, and no output takes one twice (pipeline.rs:201-324).
THEOREM CopiesKeepOrder == Spec => []SameCopyInOrder
<1>1. IInv => SameCopyInOrder
  <2> SUFFICES ASSUME IInv, NEW o \in Outputs, NEW j \in DOMAIN got[o], NEW k \in DOMAIN got[o],
                      j < k
               PROVE  BeforeInCopy(got[o][j], got[o][k], via)
    BY DEF SameCopyInOrder, BeforeInCopy
  <2>1. PICK g \in Groups : InGroup(o, g)
    BY GroupAssumption DEF InGroup
  <2>2. /\ j \in DOMAIN Flow(o, g) /\ Flow(o, g)[j] = got[o][j]
        /\ k \in DOMAIN Flow(o, g) /\ Flow(o, g)[k] = got[o][k]
    BY GotIsFirst DEF IInv, TypeInv
  <2>3. SortedInCopy(Flow(o, g), via)
    BY <2>1 DEF IInv, GroupInv, GroupsInOrder
  <2> QED
    BY <2>2, <2>3 DEF SortedInCopy
<1> QED
  BY <1>1, AlwaysInv, PTL

-----------------------------------------------------------------------------
(* The refinement of Fanout *)

\* An event is accepted once: it comes after all that were accepted from its input.
LEMMA EnqueueRefines ==
  ASSUME IInv, NEW i \in Inputs, Enqueue(i), UNCHANGED got
  PROVE  [FanOut!Next]_<<accepted, got>>
<1> DEFINE x == outgoing[i]
<1>1. x \in Events /\ x # NoEvent
  BY DEF Enqueue, IInv, TypeInv, TypeOK, OrNone
<1>2. \A d \in accepted : Before(d, x)
  BY <1>1, OutgoingIsLast DEF IInv, TypeInv, InputInv
<1>3. x \notin accepted
  BY <1>1, <1>2, BeforeIsStrict
<1>4. accepted' = accepted \union {x} \/ UNCHANGED accepted
  BY DEF Enqueue
<1>5. accepted' = accepted \union {x} => FanOut!Accept(x)
  BY <1>3 DEF FanOut!Accept
<1> QED
  BY <1>1, <1>4, <1>5 DEF FanOut!Next

\* What an output takes was accepted and routed to it, is new to it, and is what its peers
\* took in its place.
LEMMA DeliverRefines ==
  ASSUME IInv, NEW o \in Outputs, Deliver(o), UNCHANGED accepted
  PROVE  FanOut!Next
<1> USE DEF IInv, TypeInv
<1> DEFINE x == Head(outq[o])
           n == Len(got[o])
<1>1. outq[o] # <<>> /\ outq[o] \in Seq(Events) /\ got[o] \in Seq(Events) /\ n \in Nat
  BY DEF Deliver, TypeOK
<1>2. x \in Events
  BY <1>1, InTail
<1>3. \A g \in Groups : n + 1 \in DOMAIN Flow(o, g) /\ Flow(o, g)[n + 1] = x
  BY <1>1, QueuedIsNext
<1>4. \A g \in Groups : InGroup(o, g) => Beyond(x, g)
  BY <1>3 DEF Beyond, In
<1>5. PICK g \in Groups : InGroup(o, g)
  BY GroupAssumption DEF InGroup
<1>6. x \in accepted
  BY <1>2, <1>4, <1>5 DEF InputInv, AllAccepted
<1>7. <<x, o>> \in Routes
  <2>1. PICK t \in Leaves : t \in Reached(x) /\ GroupOf[t] = g
    BY <1>2, <1>4, <1>5 DEF GroupInv, Routed
  <2> QED
    BY <2>1, <1>2, <1>5 DEF Routes
<1>8. x \notin FanOut!Received(o)
  <2> SUFFICES ASSUME NEW k \in DOMAIN got[o], got[o][k] = x PROVE FALSE
    BY DEF FanOut!Received
  <2>1. k \in DOMAIN Flow(o, g) /\ Flow(o, g)[k] = x /\ k < n + 1
    BY <1>1, GotIsFirst
  <2>2. SortedInCopy(Flow(o, g), via)
    BY <1>5 DEF GroupInv, GroupsInOrder
  <2>3. BeforeInCopy(x, x, via)
    BY <1>3, <2>1, <2>2, <1>1 DEF SortedInCopy
  <2> QED
    BY <2>3, <1>2, BeforeIsStrict DEF BeforeInCopy, Before
<1>9. ASSUME NEW p \in Outputs, <<o, p>> \in Peers, Len(got[p]) > n
      PROVE  got[p][n + 1] = x
  <2>1. PICK h \in Groups : AreInGroup(o, p, h)
    BY <1>9 DEF Peers
  <2>2. n + 1 \in DOMAIN got[p]
    BY <1>1, <1>9 DEF TypeOK
  <2>3. n + 1 \in DOMAIN Flow(p, h) /\ Flow(p, h)[n + 1] = got[p][n + 1]
    BY <2>2, GotIsFirst
  <2> QED
    BY <1>3, <2>1, <2>3 DEF GroupInv, FlowsAgree
<1>10. got' = [got EXCEPT ![o] = Append(@, x)]
  BY DEF Deliver
<1>11. FanOut!Deliver(o, x)
  BY <1>6, <1>7, <1>8, <1>9, <1>10 DEF FanOut!Deliver
<1> QED
  BY <1>2, <1>11 DEF FanOut!Next

LEMMA StepRefines ==
  ASSUME IInv, [Next]_vars
  PROVE  [FanOut!Next]_<<accepted, got>>
<1>1. ASSUME NEW i \in Inputs, Input(i) PROVE [FanOut!Next]_<<accepted, got>>
  <2>1. UNCHANGED got
    BY <1>1 DEF Input, outputVars
  <2> QED
    BY <1>1, <2>1, EnqueueRefines DEF Input, Fetch, InputEnd
<1>2. ASSUME NEW c \in Copies, Start(c) \/ \E t \in Tasks : Run(c, t) \/ Fail(c, t)
      PROVE  UNCHANGED <<accepted, got>>
  BY <1>2 DEF Start, Run, Fail, inputVars, outputVars
<1>3. ASSUME NEW g \in Groups, Broadcaster(g) PROVE UNCHANGED <<accepted, got>>
  BY <1>3 DEF Broadcaster, Broadcast, SendOne, BroadcastEnd, inputVars
<1>4. ASSUME NEW o \in Outputs, Sink(o) \/ SinkFails(o)
      PROVE  [FanOut!Next]_<<accepted, got>>
  <2>1. UNCHANGED accepted
    BY <1>4 DEF Sink, SinkFails, inputVars
  <2>2. Deliver(o) \/ UNCHANGED got
    BY <1>4 DEF Sink, SinkFails, Output, StartOutput, OutputEnd, OutputFails
  <2> QED
    BY <2>1, <2>2, DeliverRefines
<1>5. CASE UNCHANGED vars
  BY <1>5 DEF vars, inputVars, outputVars
<1> QED
  BY <1>1, <1>2, <1>3, <1>4, <1>5 DEF Next

\* The safety half of the refinement: for any tree of nodes, and whatever fails, an output
\* takes only accepted events that are routed to its group, none twice, and in the order of
\* its peers (pipeline.rs:201-324).
THEOREM DeliversAsFanout == Spec => FailsSafely
<1>1. Init => FanOut!Init
  BY DEF Init, FanOut!Init
<1>2. IInv /\ [Next]_vars => [FanOut!Next]_<<accepted, got>>
  BY StepRefines
<1> QED
  BY <1>1, <1>2, AlwaysInv, PTL DEF Spec, FailsSafely
=============================================================================
