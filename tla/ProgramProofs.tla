--------------------------- MODULE ProgramProofs ----------------------------
(***************************************************************************)
(* Proofs about Program.tla, for any configuration, any contents of the    *)
(* inputs, any number of copies of the filter and any failures: the types, *)
(* that inputs count what they take, that printed events stand apart, and  *)
(* that none is printed twice.  That everything comes out depends on       *)
(* fairness and stays with TLC.                                            *)
(***************************************************************************)
EXTENDS Program, EventsProofs, TLAPS

\* The frames that there are, as <<input, number>>, and the events that are made of them.
Frames == UNION {{k} \X (1 .. Len(Contents[k])) : k \in 1 .. Len(Contents)}

EventOf(f) == [of |-> f, fields |-> FileFields(Contents[f[1]][f[2]])]

FilteredEvent(f) ==
  [of |-> f, fields |-> Filtered(patterns, FileFields(Contents[f[1]][f[2]]))]

Raw == {EventOf(f) : f \in Frames}

Clean == {FilteredEvent(f) : f \in Frames}

Task ==
  [pc : TaskSteps, retry : [attempt : Nat, delay : Nat], next : Nat \ {0}, failures : Nat]

TypeInv ==
  /\ requests \in Requests
  /\ opened \in Nat
  /\ spawned \in Nat
  /\ tasks \in [DOMAIN requests -> Task]
  /\ sent \in [DOMAIN requests -> Seq(Raw)]
  /\ inQueue \in Seq(Raw)
  /\ patterns \in PatternOrders
  /\ busy \in [Copies -> Clean \union {NoEvent}]
  /\ outQueue \in [Outputs -> Seq(Clean)]
  /\ printed \in Seq([event : Clean, separated : BOOLEAN, again : BOOLEAN])
  /\ first \in BOOLEAN
  /\ refused \in BOOLEAN

\* start() is one counter ahead of the tasks at most.
StartInv ==
  /\ spawned <= opened
  /\ opened <= spawned + 1
  /\ opened <= Len(requests)

\* Each task is where its history says, and no counter is missing.
TaskInv ==
  \A k \in DOMAIN requests :
    /\ tasks[k].pc = "unborn" <=> k > spawned
    /\ tasks[k].pc = "unborn" => tasks[k].next = 1
    /\ tasks[k].pc = "sending" => tasks[k].next <= Len(Contents[k])
    /\ tasks[k].pc # "panicked"
    /\ tasks[k].next = Len(sent[k]) + 1
    /\ tasks[k].next <= Len(Contents[k]) + 1
    /\ \A n \in 1 .. Len(sent[k]) : sent[k][n] = EventOf(<<k, n>>)

CounterInv ==
  /\ DOMAIN counters = {Id(k) : k \in 1 .. opened}
  /\ \A k \in 1 .. opened : ~Clashes(k) => counters[Id(k)] = Taken(k)

\* A handler that has not given up has doubled its pause with every error.
Pause(n) == IF Doubled[n] < MaxDelay THEN Doubled[n] ELSE MaxDelay

PauseInv ==
  \A k \in DOMAIN requests : tasks[k].pc # "ended" =>
    /\ tasks[k].retry.attempt = tasks[k].failures
    /\ tasks[k].retry.delay = Pause(tasks[k].failures)

InputInv == StartInv /\ TaskInv /\ CounterInv /\ Len(inQueue) <= Capacity

\* The sink's encoder has seen an event exactly if one is printed or was refused.
SinkInv ==
  /\ first <=> printed = <<>> /\ ~refused
  /\ refused => Offered("stdout")
  /\ EventsApart

\* Where an event is on its way to stdout: with a copy, in the queue, or printed.
Working == [c \in {d \in Copies : busy[d] # NoEvent} |-> busy[c]]

Waiting == IF "stdout" \in Outputs THEN outQueue["stdout"] ELSE <<>>

PrintedEvents == [j \in DOMAIN printed |-> printed[j].event]

Origins(f) == {f[j].of : j \in DOMAIN f}

Distinct(f) == \A j, k \in DOMAIN f : f[j].of = f[k].of => j = k

SentFrames == {f \in Frames : f[1] \in DOMAIN requests /\ f[2] < tasks[f[1]].next}

\* Every event is in one place, once.
OnceInv ==
  /\ Distinct(inQueue) /\ Distinct(Working) /\ Distinct(Waiting) /\ Distinct(PrintedEvents)
  /\ Origins(inQueue) \intersect Origins(Working) = {}
  /\ Origins(inQueue) \intersect Origins(Waiting) = {}
  /\ Origins(inQueue) \intersect Origins(PrintedEvents) = {}
  /\ Origins(Working) \intersect Origins(Waiting) = {}
  /\ Origins(Working) \intersect Origins(PrintedEvents) = {}
  /\ Origins(Waiting) \intersect Origins(PrintedEvents) = {}
  /\ Origins(inQueue) \union Origins(Working) \union Origins(Waiting)
       \union Origins(PrintedEvents) \subseteq SentFrames

IInv == TypeInv /\ InputInv /\ PauseInv /\ SinkInv /\ OnceInv

-----------------------------------------------------------------------------
(* Sequences and origins *)

LEMMA TakeHead ==
  ASSUME NEW S, NEW s \in Seq(S), s # <<>>, Distinct(s)
  PROVE  /\ Head(s) \in S
         /\ Tail(s) \in Seq(S)
         /\ Len(Tail(s)) = Len(s) - 1
         /\ Distinct(Tail(s))
         /\ Origins(Tail(s)) = Origins(s) \ {Head(s).of}
         /\ Head(s).of \in Origins(s)
<1>1. /\ Len(s) \in Nat \ {0}
      /\ DOMAIN s = 1 .. Len(s)
      /\ Head(s) = s[1]
      /\ Head(s) \in S
      /\ Tail(s) \in Seq(S)
      /\ Len(Tail(s)) = Len(s) - 1
      /\ DOMAIN Tail(s) = 1 .. Len(s) - 1
      /\ \A j \in 1 .. Len(s) - 1 : Tail(s)[j] = s[j + 1]
  BY HeadTailProperties, LenProperties, EmptySeq
<1>2. ASSUME NEW j \in DOMAIN Tail(s), NEW k \in DOMAIN Tail(s), Tail(s)[j].of = Tail(s)[k].of
      PROVE  j = k
  <2>1. j + 1 \in DOMAIN s /\ k + 1 \in DOMAIN s /\ s[j + 1].of = s[k + 1].of
    BY <1>1, <1>2
  <2> QED BY <2>1, <1>1 DEF Distinct
<1>3. ASSUME NEW x \in Origins(Tail(s))
      PROVE  x \in Origins(s) /\ x # Head(s).of
  <2>1. PICK j \in DOMAIN Tail(s) : x = Tail(s)[j].of
    BY DEF Origins
  <2>2. j + 1 \in DOMAIN s /\ x = s[j + 1].of /\ j + 1 # 1 /\ 1 \in DOMAIN s
    BY <2>1, <1>1
  <2> QED BY <2>2, <1>1 DEF Origins, Distinct
<1>4. ASSUME NEW x \in Origins(s), x # Head(s).of
      PROVE  x \in Origins(Tail(s))
  <2>1. PICK j \in DOMAIN s : x = s[j].of
    BY DEF Origins
  <2>2. j # 1
    BY <2>1, <1>1, <1>4
  <2>3. j - 1 \in DOMAIN Tail(s) /\ x = Tail(s)[j - 1].of
    BY <2>1, <2>2, <1>1
  <2> QED BY <2>3 DEF Origins
<1>5. Head(s).of \in Origins(s)
  BY <1>1 DEF Origins
<1> QED BY <1>1, <1>2, <1>3, <1>4, <1>5 DEF Distinct

LEMMA PutLast ==
  ASSUME NEW S, NEW s \in Seq(S), NEW e \in S
  PROVE  /\ Append(s, e) \in Seq(S)
         /\ Append(s, e) # <<>>
         /\ Len(Append(s, e)) = Len(s) + 1
         /\ Origins(Append(s, e)) = Origins(s) \union {e.of}
         /\ Distinct(s) /\ e.of \notin Origins(s) => Distinct(Append(s, e))
<1>1. /\ Len(s) \in Nat
      /\ DOMAIN s = 1 .. Len(s)
      /\ Append(s, e) \in Seq(S)
      /\ Append(s, e) # <<>>
      /\ Len(Append(s, e)) = Len(s) + 1
      /\ DOMAIN Append(s, e) = 1 .. Len(s) + 1
      /\ \A j \in 1 .. Len(s) : Append(s, e)[j] = s[j]
      /\ Append(s, e)[Len(s) + 1] = e
  BY AppendProperties, LenProperties
<1>2. ASSUME NEW x \in Origins(Append(s, e))
      PROVE  x \in Origins(s) \union {e.of}
  BY <1>1 DEF Origins
<1>3. ASSUME NEW x \in Origins(s) \union {e.of}
      PROVE  x \in Origins(Append(s, e))
  <2>1. CASE x = e.of
    <3>1. Len(s) + 1 \in DOMAIN Append(s, e)
      BY <1>1
    <3> QED BY <2>1, <3>1, <1>1 DEF Origins
  <2>2. CASE x \in Origins(s)
    <3>1. PICK j \in DOMAIN s : x = s[j].of
      BY <2>2 DEF Origins
    <3>2. j \in DOMAIN Append(s, e) /\ x = Append(s, e)[j].of
      BY <3>1, <1>1
    <3> QED BY <3>2 DEF Origins
  <2> QED BY <2>1, <2>2
<1>4. ASSUME Distinct(s), e.of \notin Origins(s)
      PROVE  Distinct(Append(s, e))
  <2>1. \A j \in DOMAIN s : s[j].of # e.of
    BY <1>4 DEF Origins
  <2> QED BY <1>1, <1>4, <2>1 DEF Distinct
<1> QED BY <1>1, <1>2, <1>3, <1>4

\* Every event has the frame it was made of.
LEMMA Frame ==
  /\ \A f \in Frames : /\ EventOf(f) \in Raw /\ EventOf(f).of = f
                       /\ EventOf(f).fields = FileFields(Contents[f[1]][f[2]])
                       /\ FilteredEvent(f) \in Clean /\ FilteredEvent(f).of = f
  /\ \A e \in Raw : e.of \in Frames /\ e = EventOf(e.of)
  /\ \A e \in Clean : e.of \in Frames /\ e = FilteredEvent(e.of)
BY DEF Raw, Clean, EventOf, FilteredEvent

LEMMA FrameNumbers ==
  ASSUME NEW k \in DOMAIN Contents, NEW n \in 1 .. Len(Contents[k])
  PROVE  <<k, n>> \in Frames
<1>1. k \in 1 .. Len(Contents)
  BY RequestsAssumption
<1> QED BY <1>1 DEF Frames

LEMMA FrameContents ==
  ASSUME NEW f \in Frames
  PROVE  Contents[f[1]][f[2]] \in Lines
<1>1. Len(Contents) \in Nat /\ DOMAIN Contents = 1 .. Len(Contents)
  BY RequestsAssumption, LenProperties
<1>2. f[1] \in 1 .. Len(Contents) /\ f[2] \in 1 .. Len(Contents[f[1]])
  BY DEF Frames
<1>3. Contents[f[1]] \in Seq(Lines)
  BY <1>1, <1>2, RequestsAssumption, ElementOfSeq
<1> QED BY <1>2, <1>3, ElementOfSeq

\* The inputs are numbered, and each has contents.
LEMMA Numbered ==
  ASSUME requests \in Requests
  PROVE  /\ Len(requests) \in Nat
         /\ DOMAIN requests = 1 .. Len(requests)
         /\ requests \in Seq(Range(requests))
         /\ \A k \in DOMAIN requests : k \in DOMAIN Contents /\ Len(Contents[k]) \in Nat
<1>1. /\ Len(requests) \in Nat
      /\ DOMAIN requests = 1 .. Len(requests)
      /\ Len(requests) <= Len(Contents)
      /\ requests \in Seq(Range(requests))
  BY RequestsAssumption, LenProperties
<1>2. Len(Contents) \in Nat /\ DOMAIN Contents = 1 .. Len(Contents)
  BY RequestsAssumption, LenProperties
<1>3. \A k \in DOMAIN Contents : Contents[k] \in Seq(Lines)
  BY RequestsAssumption, ElementOfSeq, <1>2
<1>4. \A k \in DOMAIN Contents : Len(Contents[k]) \in Nat
  BY <1>3, LenProperties
<1> QED BY <1>1, <1>2, <1>4

-----------------------------------------------------------------------------
(* Names *)

\* The inputs of that name up to the k-th.
Namesakes(k, name) == {i \in 1 .. k : requests[i].name = name}

LEMMA GeneratedId ==
  ASSUME requests \in Requests, NEW k \in DOMAIN requests, requests[k].id = Generated
  PROVE  Id(k) = <<requests[k].name, 1 + Cardinality(Namesakes(k - 1, requests[k].name))>>
<1> DEFINE before == SubSeq(requests, 1, k - 1)
<1>1. /\ Len(requests) \in Nat
      /\ DOMAIN requests = 1 .. Len(requests)
      /\ requests \in Seq(Range(requests))
  BY Numbered
<1>2. DOMAIN before = 1 .. k - 1 /\ \A i \in 1 .. k - 1 : before[i] = requests[i]
  BY <1>1, SubSeqProperties
<1>3. {i \in DOMAIN before : before[i].name = requests[k].name}
        = Namesakes(k - 1, requests[k].name)
  BY <1>2 DEF Namesakes
<1>4. Id(k) = GenId(before, requests[k].name)
  BY DEF Id
<1> HIDE DEF before
<1> QED BY <1>3, <1>4 DEF GenId

\* Generated ids differ: a later one of the same name has a larger number.
LEMMA LaterIdDiffers ==
  ASSUME requests \in Requests,
         NEW j \in DOMAIN requests, NEW k \in DOMAIN requests, j < k,
         requests[j].id = Generated, requests[k].id = Generated
  PROVE  Id(j) # Id(k)
<1> SUFFICES ASSUME Id(j) = Id(k) PROVE FALSE
  OBVIOUS
<1> DEFINE name == requests[k].name
           A == Namesakes(j - 1, name)
           B == Namesakes(k - 1, name)
<1>1. DOMAIN requests = 1 .. Len(requests) /\ Len(requests) \in Nat
  BY Numbered
<1>2. /\ requests[j].name = name
      /\ 1 + Cardinality(A) = 1 + Cardinality(B)
  BY GeneratedId
<1>3. IsFiniteSet(B)
  <2>1. IsFiniteSet(1 .. k - 1)
    BY <1>1, FS_Interval
  <2> QED BY <2>1, FS_Subset DEF Namesakes
<1>4. A \subseteq B /\ j \in B /\ j \notin A
  BY <1>1, <1>2 DEF Namesakes
<1>5. IsFiniteSet(A) /\ Cardinality(A) < Cardinality(B)
  <2>1. IsFiniteSet(A) /\ Cardinality(A) <= Cardinality(B)
    BY <1>3, <1>4, FS_Subset
  <2>2. A # B
    BY <1>4
  <2>3. Cardinality(A) # Cardinality(B)
    BY <1>3, <1>4, <2>2, FS_Subset
  <2>4. Cardinality(A) \in Nat /\ Cardinality(B) \in Nat
    BY <2>1, <1>3, FS_CardinalityType
  <2> QED BY <2>1, <2>3, <2>4
<1>6. Cardinality(A) \in Nat /\ Cardinality(B) \in Nat
  BY <1>3, <1>5, FS_CardinalityType
<1> QED BY <1>2, <1>5, <1>6

\* Two inputs have the same id only when somebody chose it.
LEMMA SameIdClashes ==
  ASSUME requests \in Requests,
         NEW j \in DOMAIN requests, NEW k \in DOMAIN requests, j # k, Id(j) = Id(k)
  PROVE  Clashes(j) /\ Clashes(k)
<1>1. j < k \/ k < j
  BY Numbered
<1>2. requests[j].id # Generated \/ requests[k].id # Generated
  BY <1>1, LaterIdDiffers
<1> QED BY <1>2 DEF Clashes

-----------------------------------------------------------------------------
(* The initial states *)

LEMMA InitTypeInv == Init => TypeInv
<1> SUFFICES ASSUME Init PROVE TypeInv
  OBVIOUS
<1> USE DEF Init, InitInputs, InitOutputs
<1>1. tasks \in [DOMAIN requests -> Task]
  <2>1. Unborn \in Task
    BY InputsAssumption DEF Unborn, Task, TaskSteps, NewRetry
  <2> QED BY <2>1
<1>2. sent \in [DOMAIN requests -> Seq(Raw)] /\ outQueue \in [Outputs -> Seq(Clean)]
  BY EmptySeq
<1>3. inQueue \in Seq(Raw) /\ printed \in Seq([event : Clean, separated : BOOLEAN, again : BOOLEAN])
  BY EmptySeq
<1> QED BY <1>1, <1>2, <1>3 DEF TypeInv

LEMMA InitInputInv == Init => InputInv
<1> SUFFICES ASSUME Init PROVE InputInv
  OBVIOUS
<1> USE DEF Init, InitInputs
<1>1. /\ Len(requests) \in Nat
      /\ DOMAIN requests = 1 .. Len(requests)
      /\ \A k \in DOMAIN requests : Len(Contents[k]) \in Nat
  BY Numbered
<1>2. StartInv
  BY <1>1 DEF StartInv
<1>3. TaskInv
  BY <1>1, EmptySeq DEF TaskInv, Unborn
<1>4. CounterInv
  BY EmptySeq DEF CounterInv
<1>5. Len(inQueue) <= Capacity
  BY InputsAssumption, EmptySeq
<1> QED BY <1>2, <1>3, <1>4, <1>5 DEF InputInv

LEMMA InitSinkInv == Init => SinkInv
BY EmptySeq DEF Init, InitOutputs, SinkInv, EventsApart

LEMMA InitOnceInv == Init => OnceInv
<1> SUFFICES ASSUME Init PROVE OnceInv
  OBVIOUS
<1>1. \A f : DOMAIN f = {} => Distinct(f) /\ Origins(f) = {}
  BY DEF Distinct, Origins
<1>2. DOMAIN inQueue = {} /\ DOMAIN Waiting = {} /\ DOMAIN PrintedEvents = {}
  BY EmptySeq DEF Init, InitInputs, InitOutputs, Waiting, PrintedEvents
<1>3. DOMAIN Working = {}
  BY DEF Init, Working
<1> QED BY <1>1, <1>2, <1>3 DEF OnceInv

-----------------------------------------------------------------------------
(* Types *)

\* What every step leaves as it is.
LEMMA Fixed ==
  ASSUME Next
  PROVE  requests' = requests /\ patterns' = patterns /\ Clean' = Clean
<1>1. requests' = requests /\ patterns' = patterns
  BY DEF Next, InputTasks, StartInputs, SetCounter, SpawnTask, InputStep, InputFails,
         StartFails, StreamFails, Fails, StartDone, WaitOver, Fetch, Enqueue, StreamEnds,
         Sinks, PrintEvent, Refuse, Swallow, Filter, Broadcast, inputVars, outputVars
<1> QED BY <1>1 DEF Clean, FilteredEvent

LEMMA RetriedType ==
  ASSUME NEW retry \in [attempt : Nat, delay : Nat]
  PROVE  Retried(retry) \in [attempt : Nat, delay : Nat]
<1>1. MaxDelay \in Nat /\ retry.attempt + 1 \in Nat /\ 2 * retry.delay \in Nat
  BY InputsAssumption
<1> QED BY <1>1 DEF Retried

LEMMA TaskType ==
  ASSUME NEW t \in Task
  PROVE  /\ [t EXCEPT !.pc = "streaming", !.next = @ + 1] \in Task
         /\ [t EXCEPT !.pc = "streaming", !.retry = NewRetry, !.failures = 0] \in Task
<1>1. NewRetry \in [attempt : Nat, delay : Nat]
  BY InputsAssumption DEF NewRetry
<1>2. t.next + 1 \in Nat \ {0}
  BY DEF Task
<1>3. "streaming" \in TaskSteps
  BY DEF TaskSteps
<1> QED BY <1>1, <1>2, <1>3 DEF Task

LEMMA TasksKeepTypes ==
  ASSUME TypeInv, StartInv, InputTasks
  PROVE  tasks' \in [DOMAIN requests -> Task]
<1> USE DEF TypeInv
<1>1. ASSUME NEW k \in DOMAIN requests, NEW pc \in TaskSteps
      PROVE  [tasks EXCEPT ![k].pc = pc] \in [DOMAIN requests -> Task]
  BY <1>1 DEF Task
<1>2. CASE SetCounter
  BY <1>2 DEF SetCounter
<1>3. CASE SpawnTask
  <2>1. spawned < opened /\ opened <= Len(requests) /\ spawned \in Nat /\ opened \in Nat
    BY <1>3 DEF SpawnTask, StartInv
  <2>2. Len(requests) \in Nat /\ DOMAIN requests = 1 .. Len(requests)
    BY Numbered
  <2>3. spawned + 1 \in DOMAIN requests
    BY <2>1, <2>2
  <2> QED BY <1>1, <1>3, <2>3 DEF SpawnTask, TaskSteps
<1>4. ASSUME NEW k \in DOMAIN requests, InputStep(k)
      PROVE  tasks' \in [DOMAIN requests -> Task]
  <2>1. CASE StartDone(k)
    <3>1. [tasks[k] EXCEPT !.pc = "streaming", !.retry = NewRetry, !.failures = 0] \in Task
      BY TaskType
    <3>2. tasks' = [tasks EXCEPT ![k] = [tasks[k] EXCEPT !.pc = "streaming", !.retry = NewRetry,
                                                         !.failures = 0]]
      BY <2>1 DEF StartDone
    <3> QED BY <3>1, <3>2
  <2>2. CASE WaitOver(k)
    BY <1>1, <2>2 DEF WaitOver, GoTo, TaskSteps
  <2>3. CASE Fetch(k)
    BY <1>1, <2>3 DEF Fetch, GoTo, TaskSteps
  <2>4. CASE Enqueue(k)
    <3>1. [tasks[k] EXCEPT !.pc = "streaming", !.next = @ + 1] \in Task
      BY TaskType
    <3>2. tasks' = [tasks EXCEPT ![k] = [tasks[k] EXCEPT !.pc = "streaming", !.next = @ + 1]]
      BY <2>4 DEF Enqueue
    <3> QED BY <3>1, <3>2
  <2>5. CASE StreamEnds(k)
    BY <1>1, <2>5 DEF StreamEnds, GoTo, TaskSteps
  <2> QED BY <1>4, <2>1, <2>2, <2>3, <2>4, <2>5 DEF InputStep
<1>5. ASSUME NEW k \in DOMAIN requests, InputFails(k)
      PROVE  tasks' \in [DOMAIN requests -> Task]
  <2>1. PICK pause \in {"startWait", "streamWait"} : Fails(k, pause)
    BY <1>5 DEF InputFails, StartFails, StreamFails
  <2> DEFINE retry == tasks[k].retry
             failed == [pc       |-> IF GivesUp(retry) THEN "ended" ELSE pause,
                        retry    |-> IF GivesUp(retry) THEN retry ELSE Retried(retry),
                        next     |-> tasks[k].next,
                        failures |-> tasks[k].failures + 1]
  <2>2. tasks' = [tasks EXCEPT ![k] = failed]
    BY <2>1 DEF Fails
  <2>3. /\ retry \in [attempt : Nat, delay : Nat]
        /\ tasks[k].next \in Nat \ {0}
        /\ tasks[k].failures + 1 \in Nat
    BY <1>5 DEF Task
  <2>4. Retried(retry) \in [attempt : Nat, delay : Nat]
    BY <2>3, RetriedType
  <2>5. failed \in Task
    BY <2>3, <2>4 DEF Task, TaskSteps
  <2> HIDE DEF failed
  <2> QED BY <2>2, <2>5
<1> QED BY <1>2, <1>3, <1>4, <1>5 DEF InputTasks, StartInputs

\* The frame an input sends next.
LEMMA NextFrame ==
  ASSUME TypeInv, TaskInv, NEW k \in DOMAIN requests, tasks[k].pc = "sending"
  PROVE  <<k, tasks[k].next>> \in Frames
<1>1. tasks[k].next \in 1 .. Len(Contents[k])
  BY Numbered DEF TypeInv, Task, TaskInv
<1> QED BY <1>1, Numbered, FrameNumbers DEF TypeInv

LEMMA EnqueuedEvent ==
  ASSUME TypeInv, TaskInv, NEW k \in DOMAIN requests, Enqueue(k)
  PROVE  /\ EventOf(<<k, tasks[k].next>>) \in Raw
         /\ EventOf(<<k, tasks[k].next>>).of = <<k, tasks[k].next>>
         /\ inQueue' = Append(inQueue, EventOf(<<k, tasks[k].next>>))
         /\ sent' = [sent EXCEPT ![k] = Append(@, EventOf(<<k, tasks[k].next>>))]
<1>1. <<k, tasks[k].next>> \in Frames
  BY NextFrame DEF Enqueue
<1>2. EventOf(<<k, tasks[k].next>>)
        = [of |-> <<k, tasks[k].next>>, fields |-> FileFields(Contents[k][tasks[k].next])]
  BY DEF EventOf
<1> QED BY <1>1, <1>2, Frame DEF Enqueue

LEMMA FilteredHead ==
  ASSUME TypeInv, Distinct(inQueue), NEW c \in Copies, Filter(c)
  PROVE  /\ Head(inQueue) \in Raw
         /\ FilteredEvent(Head(inQueue).of) \in Clean
         /\ FilteredEvent(Head(inQueue).of).of = Head(inQueue).of
         /\ busy' = [busy EXCEPT ![c] = FilteredEvent(Head(inQueue).of)]
<1> DEFINE e == Head(inQueue)
<1>1. e \in Raw
  BY TakeHead DEF TypeInv, Filter
<1>2. /\ e.of \in Frames
      /\ e.fields = FileFields(Contents[e.of[1]][e.of[2]])
      /\ e = [of |-> e.of, fields |-> e.fields]
      /\ FilteredEvent(e.of) \in Clean
      /\ FilteredEvent(e.of).of = e.of
  BY <1>1, Frame DEF EventOf
<1>3. busy' = [busy EXCEPT ![c] = [e EXCEPT !.fields = Filtered(patterns, e.fields)]]
  BY DEF Filter
<1> HIDE DEF e
<1>4. [e EXCEPT !.fields = Filtered(patterns, e.fields)] = FilteredEvent(e.of)
  BY <1>2 DEF FilteredEvent
<1> QED BY <1>1, <1>2, <1>3, <1>4 DEF e

LEMMA PrintedEntry ==
  ASSUME TypeInv, PrintEvent
  PROVE  /\ "stdout" \in Outputs /\ outQueue["stdout"] # <<>>
         /\ Head(outQueue["stdout"]) \in Clean
         /\ [event |-> Head(outQueue["stdout"]), separated |-> ~first, again |-> refused]
              \in [event : Clean, separated : BOOLEAN, again : BOOLEAN]
<1>1. "stdout" \in Outputs /\ outQueue["stdout"] # <<>> /\ outQueue["stdout"] \in Seq(Clean)
  BY DEF PrintEvent, Offered, TypeInv
<1>2. Head(outQueue["stdout"]) \in Clean
  BY <1>1, HeadTailProperties
<1> QED BY <1>1, <1>2 DEF TypeInv

LEMMA StepTypeInv ==
  ASSUME TypeInv, StartInv, TaskInv, OnceInv, [Next]_vars
  PROVE  TypeInv'
<1> USE DEF TypeInv
<1>1. CASE UNCHANGED vars
  BY <1>1 DEF vars, inputVars, outputVars, Clean, FilteredEvent
<1>2. CASE Next
  <2> USE Fixed
  <2>1. CASE InputTasks /\ UNCHANGED <<outputVars, patterns, busy>>
    <3>1. tasks' \in [DOMAIN requests -> Task]
      BY <2>1, TasksKeepTypes
    <3>2. opened' \in Nat /\ spawned' \in Nat
      <4>1. CASE StartInputs
        BY <4>1 DEF StartInputs, SetCounter, SpawnTask
      <4>2. CASE \E k \in DOMAIN requests : InputStep(k) \/ InputFails(k)
        BY <4>2 DEF InputStep, InputFails, StartFails, StreamFails, Fails, StartDone, WaitOver,
           Fetch, Enqueue, StreamEnds
      <4> QED BY <2>1, <4>1, <4>2 DEF InputTasks
    <3>3. inQueue' \in Seq(Raw) /\ sent' \in [DOMAIN requests -> Seq(Raw)]
      <4>1. ASSUME NEW k \in DOMAIN requests, Enqueue(k)
            PROVE  inQueue' \in Seq(Raw) /\ sent' \in [DOMAIN requests -> Seq(Raw)]
        <5>1. EventOf(<<k, tasks[k].next>>) \in Raw
          BY <4>1, EnqueuedEvent
        <5>2. /\ Append(inQueue, EventOf(<<k, tasks[k].next>>)) \in Seq(Raw)
              /\ Append(sent[k], EventOf(<<k, tasks[k].next>>)) \in Seq(Raw)
          BY <5>1, <4>1, PutLast
        <5> QED BY <5>2, <4>1, EnqueuedEvent
      <4>2. CASE ~ \E k \in DOMAIN requests : Enqueue(k)
        BY <2>1, <4>2 DEF InputTasks, StartInputs, SetCounter, SpawnTask, InputStep, InputFails,
           StartFails, StreamFails, Fails, StartDone, WaitOver, Fetch, StreamEnds
      <4> QED BY <4>1, <4>2
    <3>4. /\ Raw' = Raw
          /\ UNCHANGED <<outQueue, first, refused, printed, patterns, busy>>
      BY <2>1 DEF Raw, EventOf, outputVars
    <3> QED BY <1>2, <3>1, <3>2, <3>3, <3>4
  <2>2. CASE Sinks /\ UNCHANGED <<inputVars, patterns, busy>>
    <3> USE <2>2, <1>2
    <3>1. UNCHANGED <<requests, opened, spawned, tasks, sent, inQueue, patterns, busy>>
      BY DEF inputVars
    <3>2. CASE PrintEvent
      <4> DEFINE entry == [event     |-> Head(outQueue["stdout"]),
                           separated |-> ~first,
                           again     |-> refused]
      <4>1. "stdout" \in Outputs /\ outQueue["stdout"] # <<>> /\ Distinct(outQueue["stdout"])
        BY <3>2 DEF PrintEvent, Offered, OnceInv, Waiting
      <4>2. Tail(outQueue["stdout"]) \in Seq(Clean)
        BY <4>1, TakeHead
      <4>3. entry \in [event : Clean, separated : BOOLEAN, again : BOOLEAN]
        BY <3>2, PrintedEntry
      <4>4. printed' = Append(printed, entry)
        BY <3>2 DEF PrintEvent
      <4> HIDE DEF entry
      <4>5. printed' \in Seq([event : Clean, separated : BOOLEAN, again : BOOLEAN])
        BY <4>3, <4>4, AppendProperties
      <4>6. outQueue' \in [Outputs -> Seq(Clean)]
        BY <4>2, <3>2 DEF PrintEvent, Pop
      <4>7. first' \in BOOLEAN /\ refused' \in BOOLEAN
        BY <3>2 DEF PrintEvent, Encode
      <4> QED BY <3>1, <4>5, <4>6, <4>7 
    <3>3. CASE Refuse
      BY <3>1, <3>3 DEF Refuse, Encode
    <3>4. CASE Swallow
      <4>1. "null" \in Outputs /\ outQueue["null"] # <<>>
        BY <3>4 DEF Swallow, Offered
      <4>2. Tail(outQueue["null"]) \in Seq(Clean)
        BY <4>1, HeadTailProperties
      <4>3. outQueue' \in [Outputs -> Seq(Clean)]
        BY <4>2, <3>4 DEF Swallow, Pop
      <4> QED BY <3>1, <3>4, <4>3 DEF Swallow
    <3> QED BY <3>2, <3>3, <3>4 DEF Sinks
  <2>3. ASSUME NEW c \in Copies, Filter(c)
        PROVE  TypeInv'
    <3>1. busy' \in [Copies -> Clean \union {NoEvent}]
      BY <2>3, FilteredHead DEF OnceInv
    <3>2. inQueue' \in Seq(Raw)
      BY <2>3, TakeHead DEF Filter, OnceInv
    <3>3. UNCHANGED <<requests, opened, spawned, tasks, sent, patterns, outQueue, first, refused,
                      printed>>
      BY <2>3 DEF Filter, outputVars
    <3> QED BY <1>2, <3>1, <3>2, <3>3
  <2>4. ASSUME NEW c \in Copies, Broadcast(c)
        PROVE  TypeInv'
    <3>1. busy[c] \in Clean
      BY <2>4 DEF Broadcast
    <3>2. \A o \in Outputs : Append(outQueue[o], busy[c]) \in Seq(Clean)
      BY <3>1, PutLast
    <3>3. outQueue' \in [Outputs -> Seq(Clean)] /\ busy' \in [Copies -> Clean \union {NoEvent}]
      BY <3>2, <2>4 DEF Broadcast
    <3>4. UNCHANGED <<requests, opened, spawned, tasks, sent, inQueue, patterns, first, refused,
                      printed>>
      BY <2>4 DEF Broadcast, inputVars
    <3> QED BY <1>2, <3>3, <3>4
  <2> QED BY <1>2, <2>1, <2>2, <2>3, <2>4 DEF Next
<1> QED BY <1>1, <1>2

-----------------------------------------------------------------------------
(* Inputs *)

LEMMA SameIds ==
  ASSUME requests' = requests
  PROVE  \A k : Id(k)' = Id(k) /\ Clashes(k)' = Clashes(k)
<1>1. \A k : Id(k)' = Id(k)
  BY DEF Id
<1> QED BY <1>1 DEF Clashes

\* An input that starts, waits, fails or ends takes nothing and sends nothing.
LEMMA QuietStep ==
  ASSUME TypeInv, InputInv, NEW k \in DOMAIN requests,
         UNCHANGED <<requests, counters, opened, spawned, inQueue, sent>>,
         tasks[k].pc \notin {"unborn", "sending"},
         tasks'[k].pc \notin {"unborn", "sending", "panicked"},
         tasks'[k].next = tasks[k].next,
         \A j \in DOMAIN requests \ {k} : tasks'[j] = tasks[j]
  PROVE  InputInv'
<1> USE DEF InputInv
<1>1. StartInv'
  BY DEF StartInv
<1>2. TaskInv'
  <2> SUFFICES ASSUME NEW j \in DOMAIN requests
               PROVE  /\ tasks'[j].pc = "unborn" <=> j > spawned
                      /\ tasks'[j].pc = "unborn" => tasks'[j].next = 1
                      /\ tasks'[j].pc = "sending" => tasks'[j].next <= Len(Contents[j])
                      /\ tasks'[j].pc # "panicked"
                      /\ tasks'[j].next = Len(sent[j]) + 1
                      /\ tasks'[j].next <= Len(Contents[j]) + 1
                      /\ \A n \in 1 .. Len(sent[j]) : sent[j][n] = EventOf(<<j, n>>)
    BY DEF TaskInv, EventOf
  <2>1. CASE j = k
    BY <2>1 DEF TaskInv
  <2>2. CASE j # k
    BY <2>2 DEF TaskInv
  <2> QED BY <2>1, <2>2
<1>3. CounterInv'
  <2>1. \A j \in DOMAIN requests : Taken(j)' = Taken(j)
    BY DEF Taken
  <2>2. 1 .. opened \subseteq DOMAIN requests
    BY Numbered DEF TypeInv, StartInv
  <2> QED BY <2>1, <2>2, SameIds DEF CounterInv
<1> QED BY <1>1, <1>2, <1>3

LEMMA SetCounterKeeps ==
  ASSUME TypeInv, InputInv, SetCounter
  PROVE  InputInv'
<1> USE DEF InputInv
<1>1. /\ opened \in Nat /\ spawned \in Nat /\ opened = spawned /\ opened < Len(requests)
      /\ opened' = opened + 1
      /\ UNCHANGED <<requests, spawned, tasks, inQueue, sent>>
  BY DEF SetCounter, TypeInv
<1>2. Len(requests) \in Nat /\ DOMAIN requests = 1 .. Len(requests)
  BY Numbered DEF TypeInv
<1> DEFINE new == opened + 1
<1>3. new \in DOMAIN requests /\ 1 .. opened \subseteq DOMAIN requests /\ new \notin 1 .. opened
  BY <1>1, <1>2
<1>4. StartInv'
  BY <1>1, <1>2 DEF StartInv
<1>5. TaskInv'
  BY <1>1 DEF TaskInv, EventOf
<1>6. counters' = [id \in DOMAIN counters \union {Id(new)} |->
                    IF id = Id(new) THEN 0 ELSE counters[id]]
  BY DEF SetCounter
<1>7. DOMAIN counters' = {Id(new)} \union DOMAIN counters
  BY <1>6
<1>8. counters'[Id(new)] = 0
  BY <1>6
<1>9. \A id \in DOMAIN counters : id # Id(new) => counters'[id] = counters[id]
  BY <1>6
<1>10. 1 .. opened' = 1 .. opened \union {new}
  BY <1>1
<1>11. CounterInv'
  <2>1. DOMAIN counters' = {Id(j) : j \in 1 .. opened'}
    BY <1>7, <1>10 DEF CounterInv
  <2>2. ASSUME NEW j \in 1 .. opened', ~Clashes(j)
        PROVE  counters'[Id(j)] = Taken(j)
    <3>1. CASE j = new
      <4>1. tasks[new].pc = "unborn" /\ tasks[new].next = 1 /\ tasks[new].next = Len(sent[new]) + 1
        BY <1>1, <1>3 DEF TaskInv
      <4>2. Len(sent[new]) \in Nat
        BY <1>3, LenProperties DEF TypeInv
      <4> QED BY <3>1, <4>1, <4>2, <1>8 DEF Taken
    <3>2. CASE j \in 1 .. opened
      <4>1. Id(j) # Id(new)
        BY <3>2, <2>2, <1>3, SameIdClashes DEF TypeInv
      <4>2. Id(j) \in DOMAIN counters /\ counters[Id(j)] = Taken(j)
        BY <3>2, <2>2 DEF CounterInv
      <4> QED BY <4>1, <4>2, <1>9
    <3> QED BY <3>1, <3>2, <1>10
  <2>3. \A j : Taken(j)' = Taken(j)
    BY <1>1 DEF Taken
  <2> QED BY <1>1, <2>1, <2>2, <2>3, SameIds DEF CounterInv
<1> QED BY <1>1, <1>4, <1>5, <1>11

LEMMA SpawnTaskKeeps ==
  ASSUME TypeInv, InputInv, SpawnTask
  PROVE  InputInv'
<1> USE DEF InputInv
<1>1. /\ opened \in Nat /\ spawned \in Nat /\ opened = spawned + 1 /\ spawned' = spawned + 1
      /\ opened <= Len(requests)
      /\ UNCHANGED <<requests, counters, opened, inQueue, sent>>
  BY DEF SpawnTask, TypeInv, StartInv
<1>2. Len(requests) \in Nat /\ DOMAIN requests = 1 .. Len(requests)
  BY Numbered DEF TypeInv
<1> DEFINE new == spawned + 1
<1>3. new \in DOMAIN requests
  BY <1>1, <1>2
<1>4. tasks' = [tasks EXCEPT ![new].pc = "starting"]
  BY DEF SpawnTask
<1>5. /\ tasks'[new].pc = "starting" /\ tasks'[new].next = tasks[new].next
      /\ \A j \in DOMAIN requests \ {new} : tasks'[j] = tasks[j]
  BY <1>3, <1>4 DEF TypeInv, Task
<1>6. StartInv'
  BY <1>1 DEF StartInv
<1>7. tasks[new].pc = "unborn"
  BY <1>1, <1>3 DEF TaskInv
<1>8. TaskInv'
  <2> SUFFICES ASSUME NEW j \in DOMAIN requests
               PROVE  /\ tasks'[j].pc = "unborn" <=> j > spawned'
                      /\ tasks'[j].pc = "unborn" => tasks'[j].next = 1
                      /\ tasks'[j].pc = "sending" => tasks'[j].next <= Len(Contents[j])
                      /\ tasks'[j].pc # "panicked"
                      /\ tasks'[j].next = Len(sent[j]) + 1
                      /\ tasks'[j].next <= Len(Contents[j]) + 1
                      /\ \A n \in 1 .. Len(sent[j]) : sent[j][n] = EventOf(<<j, n>>)
    BY <1>1 DEF TaskInv, EventOf
  <2>1. CASE j = new
    BY <2>1, <1>1, <1>5, <1>3 DEF TaskInv
  <2>2. CASE j # new
    BY <2>2, <1>1, <1>2, <1>5 DEF TaskInv
  <2> QED BY <2>1, <2>2
<1>9. CounterInv'
  <2>1. \A j \in DOMAIN requests : Taken(j)' = Taken(j)
    BY <1>1, <1>5, <1>7 DEF Taken
  <2>2. 1 .. opened \subseteq DOMAIN requests
    BY <1>1, <1>2
  <2> QED BY <1>1, <2>1, <2>2, SameIds DEF CounterInv
<1> QED BY <1>1, <1>6, <1>8, <1>9

\* An input that runs has its counter.
LEMMA FetchKeeps ==
  ASSUME TypeInv, InputInv, NEW k \in DOMAIN requests, Fetch(k)
  PROVE  InputInv'
<1> USE DEF InputInv
<1>1. /\ tasks[k].pc = "streaming" /\ tasks[k].next <= Len(Contents[k])
      /\ UNCHANGED <<requests, opened, spawned, inQueue, sent>>
  BY DEF Fetch
<1>2. Len(requests) \in Nat /\ DOMAIN requests = 1 .. Len(requests)
  BY Numbered DEF TypeInv
<1>3. k \in 1 .. opened
  BY <1>1, <1>2 DEF TaskInv, StartInv, TypeInv
<1>4. Id(k) \in DOMAIN counters
  BY <1>3 DEF CounterInv
<1>5. /\ tasks' = [tasks EXCEPT ![k].pc = "sending"]
      /\ counters' = [counters EXCEPT ![Id(k)] = @ + 1]
  BY <1>4 DEF Fetch, GoTo
<1>6. /\ tasks'[k].pc = "sending" /\ tasks'[k].next = tasks[k].next
      /\ \A j \in DOMAIN requests \ {k} : tasks'[j] = tasks[j]
  BY <1>5 DEF TypeInv, Task
<1>7. StartInv'
  BY <1>1 DEF StartInv
<1>8. TaskInv'
  <2> SUFFICES ASSUME NEW j \in DOMAIN requests
               PROVE  /\ tasks'[j].pc = "unborn" <=> j > spawned
                      /\ tasks'[j].pc = "unborn" => tasks'[j].next = 1
                      /\ tasks'[j].pc = "sending" => tasks'[j].next <= Len(Contents[j])
                      /\ tasks'[j].pc # "panicked"
                      /\ tasks'[j].next = Len(sent[j]) + 1
                      /\ tasks'[j].next <= Len(Contents[j]) + 1
                      /\ \A n \in 1 .. Len(sent[j]) : sent[j][n] = EventOf(<<j, n>>)
    BY <1>1 DEF TaskInv, EventOf
  <2>1. CASE j = k
    BY <2>1, <1>1, <1>6 DEF TaskInv
  <2>2. CASE j # k
    BY <2>2, <1>6 DEF TaskInv
  <2> QED BY <2>1, <2>2
<1>9. CounterInv'
  <2>1. 1 .. opened \subseteq DOMAIN requests
    BY <1>2 DEF TypeInv, StartInv
  <2>2. DOMAIN counters' = {Id(j) : j \in 1 .. opened}
    BY <1>5 DEF CounterInv
  <2>3. ASSUME NEW j \in 1 .. opened, ~Clashes(j)
        PROVE  counters'[Id(j)] = Taken(j)'
    <3>1. CASE j = k
      <4>1. counters[Id(k)] = Taken(k)
        BY <2>3, <3>1 DEF CounterInv
      <4>2. Taken(k) = Len(sent[k]) + 0 /\ Taken(k)' = Len(sent[k]) + 1 /\ Len(sent[k]) \in Nat
        BY <1>1, <1>6, LenProperties DEF Taken, TypeInv
      <4> QED BY <3>1, <4>1, <4>2, <1>4, <1>5
    <3>2. CASE j # k
      <4>1. Id(j) # Id(k)
        BY <3>2, <2>1, <2>3, SameIdClashes DEF TypeInv
      <4>2. counters'[Id(j)] = Taken(j)
        BY <4>1, <1>4, <1>5, <2>3 DEF CounterInv
      <4>3. Taken(j)' = Taken(j)
        BY <3>2, <2>1, <1>1, <1>6 DEF Taken
      <4> QED BY <4>2, <4>3
    <3> QED BY <3>1, <3>2
  <2> QED BY <1>1, <2>2, <2>3, SameIds DEF CounterInv
<1> QED BY <1>1, <1>7, <1>8, <1>9

LEMMA EnqueueKeeps ==
  ASSUME TypeInv, InputInv, NEW k \in DOMAIN requests, Enqueue(k)
  PROVE  InputInv'
<1> USE DEF InputInv
<1> DEFINE n == tasks[k].next
           event == EventOf(<<k, n>>)
<1>1. /\ tasks[k].pc = "sending" /\ Len(inQueue) < Capacity
      /\ UNCHANGED <<requests, counters, opened, spawned>>
  BY DEF Enqueue
<1>2. /\ event \in Raw
      /\ inQueue' = Append(inQueue, event)
      /\ sent' = [sent EXCEPT ![k] = Append(@, event)]
  BY EnqueuedEvent
<1>3. n \in Nat /\ n <= Len(Contents[k]) /\ Len(Contents[k]) \in Nat /\ n = Len(sent[k]) + 1
  BY <1>1, Numbered DEF TypeInv, Task, TaskInv
<1>4. tasks' = [tasks EXCEPT ![k] = [tasks[k] EXCEPT !.pc = "streaming", !.next = n + 1]]
  BY DEF Enqueue
<1>5. tasks[k] \in Task /\ tasks \in [DOMAIN requests -> Task]
  BY DEF TypeInv
<1> HIDE DEF n, event
<1>6. /\ tasks'[k].pc = "streaming" /\ tasks'[k].next = n + 1
      /\ \A j \in DOMAIN requests \ {k} : tasks'[j] = tasks[j]
  BY <1>4, <1>5 DEF Task
<1>7. /\ sent'[k] = Append(sent[k], event)
      /\ \A j \in DOMAIN requests \ {k} : sent'[j] = sent[j]
  BY <1>2 DEF TypeInv
<1>8. /\ Len(sent[k]) \in Nat
      /\ Len(sent'[k]) = Len(sent[k]) + 1
      /\ \A m \in 1 .. Len(sent[k]) : sent'[k][m] = sent[k][m]
      /\ sent'[k][Len(sent[k]) + 1] = event
  BY <1>2, <1>7, AppendProperties, LenProperties DEF TypeInv
<1>9. Len(inQueue') <= Capacity
  <2>1. Len(inQueue') = Len(inQueue) + 1 /\ Len(inQueue) \in Nat
    BY <1>2, AppendProperties, LenProperties DEF TypeInv
  <2> QED BY <1>1, <2>1, InputsAssumption
<1>10. StartInv'
  BY <1>1 DEF StartInv
<1>11. TaskInv'
  <2> SUFFICES ASSUME NEW j \in DOMAIN requests
               PROVE  /\ tasks'[j].pc = "unborn" <=> j > spawned
                      /\ tasks'[j].pc = "unborn" => tasks'[j].next = 1
                      /\ tasks'[j].pc = "sending" => tasks'[j].next <= Len(Contents[j])
                      /\ tasks'[j].pc # "panicked"
                      /\ tasks'[j].next = Len(sent'[j]) + 1
                      /\ tasks'[j].next <= Len(Contents[j]) + 1
                      /\ \A m \in 1 .. Len(sent'[j]) : sent'[j][m] = EventOf(<<j, m>>)
    BY <1>1 DEF TaskInv, EventOf
  <2>1. CASE j = k
    <3>1. ~(k > spawned)
      BY <1>1 DEF TaskInv
    <3>2. /\ tasks'[k].next = Len(sent'[k]) + 1
          /\ tasks'[k].next <= Len(Contents[k]) + 1
      BY <1>3, <1>6, <1>8
    <3>3. ASSUME NEW m \in 1 .. Len(sent'[k])
          PROVE  sent'[k][m] = EventOf(<<k, m>>)
      <4>1. CASE m = Len(sent[k]) + 1
        BY <4>1, <1>3, <1>8 DEF event
      <4>2. CASE m \in 1 .. Len(sent[k])
        BY <4>2, <1>8 DEF TaskInv
      <4> QED BY <4>1, <4>2, <1>8
    <3> QED BY <2>1, <3>1, <3>2, <3>3, <1>6
  <2>2. CASE j # k
    <3>1. tasks'[j] = tasks[j] /\ sent'[j] = sent[j]
      BY <2>2, <1>6, <1>7
    <3>2. /\ tasks[j].pc = "unborn" <=> j > spawned
          /\ tasks[j].pc = "unborn" => tasks[j].next = 1
          /\ tasks[j].pc = "sending" => tasks[j].next <= Len(Contents[j])
          /\ tasks[j].pc # "panicked"
          /\ tasks[j].next = Len(sent[j]) + 1
          /\ tasks[j].next <= Len(Contents[j]) + 1
          /\ \A m \in 1 .. Len(sent[j]) : sent[j][m] = EventOf(<<j, m>>)
      BY DEF TaskInv
    <3> QED BY <3>1, <3>2
  <2> QED BY <2>1, <2>2
<1>12. CounterInv'
  <2>1. Taken(k) = Len(sent[k]) + 1 /\ Taken(k)' = Len(sent[k]) + 1 + 0
    BY <1>1, <1>6, <1>8 DEF Taken
  <2>2. ASSUME NEW j \in DOMAIN requests
        PROVE  Taken(j)' = Taken(j)
    <3>1. CASE j = k
      BY <3>1, <2>1, <1>8
    <3>2. CASE j # k
      BY <3>2, <1>6, <1>7 DEF Taken
    <3> QED BY <3>1, <3>2
  <2>3. 1 .. opened \subseteq DOMAIN requests
    BY Numbered DEF TypeInv, StartInv
  <2> QED BY <1>1, <2>2, <2>3, SameIds DEF CounterInv
<1> QED BY <1>9, <1>10, <1>11, <1>12

LEMMA StepInputInv ==
  ASSUME TypeInv, InputInv, OnceInv, [Next]_vars
  PROVE  InputInv'
<1>1. ASSUME UNCHANGED <<requests, counters, opened, spawned, tasks, sent>>,
             Len(inQueue') <= Capacity
      PROVE  InputInv'
  <2>1. \A j : Taken(j)' = Taken(j)
    BY <1>1 DEF Taken
  <2>2. CounterInv'
    BY <1>1, <2>1, SameIds DEF InputInv, CounterInv
  <2>3. StartInv' /\ TaskInv'
    BY <1>1 DEF InputInv, StartInv, TaskInv, EventOf
  <2> QED BY <1>1, <2>2, <2>3 DEF InputInv
<1>2. CASE UNCHANGED vars
  BY <1>1, <1>2 DEF vars, inputVars, InputInv
<1>3. CASE InputTasks
  <2>1. CASE SetCounter \/ SpawnTask
    BY <2>1, SetCounterKeeps, SpawnTaskKeeps
  <2>2. ASSUME NEW k \in DOMAIN requests, InputStep(k)
        PROVE  InputInv'
    <3>1. CASE StartDone(k)
      BY <3>1, QuietStep, ZenonT(60) DEF StartDone, TypeInv, Task
    <3>2. CASE WaitOver(k)
      BY <3>2, QuietStep DEF WaitOver, GoTo, TypeInv, Task
    <3>3. CASE Fetch(k)
      BY <3>3, FetchKeeps
    <3>4. CASE Enqueue(k)
      BY <3>4, EnqueueKeeps
    <3>5. CASE StreamEnds(k)
      BY <3>5, QuietStep DEF StreamEnds, GoTo, TypeInv, Task
    <3> QED BY <2>2, <3>1, <3>2, <3>3, <3>4, <3>5 DEF InputStep
  <2>3. ASSUME NEW k \in DOMAIN requests, InputFails(k)
        PROVE  InputInv'
    <3>1. PICK pause \in {"startWait", "streamWait"} :
            Fails(k, pause) /\ tasks[k].pc \in {"starting", "streaming"}
      BY <2>3 DEF InputFails, StartFails, StreamFails
    <3> DEFINE failed == [pc       |-> IF GivesUp(tasks[k].retry) THEN "ended" ELSE pause,
                          retry    |-> IF GivesUp(tasks[k].retry) THEN tasks[k].retry
                                       ELSE Retried(tasks[k].retry),
                          next     |-> tasks[k].next,
                          failures |-> tasks[k].failures + 1]
    <3>2. tasks' = [tasks EXCEPT ![k] = failed]
      BY <3>1 DEF Fails
    <3>3. failed.pc \in {"ended", "startWait", "streamWait"} /\ failed.next = tasks[k].next
      BY <3>1
    <3> HIDE DEF failed
    <3>4. /\ tasks'[k] = failed
          /\ \A j \in DOMAIN requests \ {k} : tasks'[j] = tasks[j]
      BY <3>2 DEF TypeInv
    <3>5. UNCHANGED <<requests, counters, opened, spawned, inQueue, sent>>
      BY <3>1 DEF Fails
    <3> QED BY <3>1, <3>3, <3>4, <3>5, QuietStep
  <2> QED BY <1>3, <2>1, <2>2, <2>3 DEF InputTasks, StartInputs
<1>4. CASE UNCHANGED inputVars
  BY <1>1, <1>4 DEF inputVars, InputInv
<1>5. ASSUME NEW c \in Copies, Filter(c)
      PROVE  InputInv'
  <2>1. Len(Tail(inQueue)) = Len(inQueue) - 1 /\ Len(inQueue) \in Nat
    BY <1>5, TakeHead, LenProperties DEF Filter, TypeInv, OnceInv
  <2>2. Len(inQueue') <= Capacity
    BY <2>1, <1>5, InputsAssumption DEF Filter, InputInv
  <2> QED BY <1>1, <1>5, <2>2 DEF Filter
<1> QED BY <1>2, <1>3, <1>4, <1>5 DEF Next, Broadcast

-----------------------------------------------------------------------------
(* Pauses *)

LEMMA DoubledIs ==
  /\ Doubled[0] = InitialDelay
  /\ \A n \in Nat : Doubled[n] \in Nat /\ Doubled[n + 1] = 2 * Doubled[n]
<1> DEFINE step == [x \in Nat \X Nat |-> 2 * x[2]]
           IsDoubled(g) == g = [n \in Nat |-> IF n = 0 THEN InitialDelay ELSE 2 * g[n - 1]]
<1>1. InitialDelay \in Nat
  BY InputsAssumption
<1>2. step \in Steps(Nat)
  BY DEF Steps
<1>3. PICK h \in [Nat -> Nat] : IsDefinedBy(h, InitialDelay, step)
  <2> HIDE DEF step
  <2> QED BY <1>1, <1>2, Recursion
<1>4. h[0] = InitialDelay /\ \A n \in Nat : h[n + 1] = 2 * h[n]
  BY <1>3 DEF IsDefinedBy
<1>5. IsDoubled(h)
  <2>1. ASSUME NEW n \in Nat, n # 0
        PROVE  h[n] = 2 * h[n - 1]
    <3>1. n - 1 \in Nat /\ (n - 1) + 1 = n
      BY <2>1
    <3> QED BY <3>1, <1>4
  <2>2. h = [n \in Nat |-> h[n]]
    OBVIOUS
  <2> QED BY <2>1, <2>2, <1>4
<1>6. Doubled = CHOOSE g : IsDoubled(g)
  BY DEF Doubled
<1>7. IsDoubled(Doubled)
  BY <1>5, <1>6
<1>8. Doubled = [n \in Nat |-> IF n = 0 THEN InitialDelay ELSE 2 * Doubled[n - 1]]
  BY <1>7
<1>9. Doubled[0] = InitialDelay /\ \A n \in Nat : Doubled[n + 1] = 2 * Doubled[n]
  <2>1. \A n \in Nat : n + 1 \in Nat /\ n + 1 # 0 /\ (n + 1) - 1 = n
    OBVIOUS
  <2> QED BY <1>8, <2>1
<1> DEFINE T == {n \in Nat : Doubled[n] \in Nat}
<1>10. 0 \in T /\ \A n \in T : n + 1 \in T
  BY <1>1, <1>9
<1>11. \A n \in Nat : n \in T
  <2> HIDE DEF T
  <2> QED BY <1>10, Induct DEF T
<1> QED BY <1>9, <1>11

LEMMA PauseAfterRetry ==
  ASSUME NEW retry, NEW n \in Nat, retry.delay = Pause(n)
  PROVE  Retried(retry).delay = Pause(n + 1)
<1>1. Doubled[n] \in Nat /\ Doubled[n + 1] = 2 * Doubled[n] /\ MaxDelay \in Nat
  BY DoubledIs, InputsAssumption
<1>2. Retried(retry).delay = IF 2 * retry.delay < MaxDelay THEN 2 * retry.delay ELSE MaxDelay
  BY DEF Retried
<1>3. retry.delay = IF Doubled[n] < MaxDelay THEN Doubled[n] ELSE MaxDelay
  BY DEF Pause
<1>4. Pause(n + 1) = IF 2 * Doubled[n] < MaxDelay THEN 2 * Doubled[n] ELSE MaxDelay
  BY <1>1 DEF Pause
<1>5. CASE Doubled[n] < MaxDelay
  BY <1>2, <1>3, <1>4, <1>5
<1>6. CASE ~(Doubled[n] < MaxDelay)
  <2>1. ~(2 * MaxDelay < MaxDelay) /\ ~(2 * Doubled[n] < MaxDelay)
    BY <1>1, <1>6
  <2> QED BY <1>2, <1>3, <1>4, <1>6, <2>1
<1> QED BY <1>5, <1>6

LEMMA PauseOfNew == NewRetry.attempt = 0 /\ NewRetry.delay = Pause(0)
<1>1. InitialDelay \in Nat /\ MaxDelay \in Nat /\ InitialDelay <= MaxDelay
  BY InputsAssumption
<1>2. Doubled[0] = InitialDelay
  BY DoubledIs
<1> QED BY <1>1, <1>2 DEF NewRetry, Pause

LEMMA InitPauseInv == Init => PauseInv
BY PauseOfNew DEF Init, InitInputs, PauseInv, Unborn

LEMMA StepPauseInv ==
  ASSUME TypeInv, InputInv, PauseInv, [Next]_vars
  PROVE  PauseInv'
<1> USE DEF PauseInv
<1>1. requests' = requests /\ tasks \in [DOMAIN requests -> Task]
  BY Fixed DEF vars, inputVars, TypeInv
<1>2. CASE tasks' = tasks
  BY <1>1, <1>2
<1>3. ASSUME NEW k \in DOMAIN requests, NEW pc, tasks[k].pc # "ended",
             tasks' = [tasks EXCEPT ![k].pc = pc]
      PROVE  PauseInv'
  BY <1>1, <1>3 DEF Task
<1>4. CASE SpawnTask
  <2>1. spawned + 1 \in DOMAIN requests /\ spawned + 1 > spawned
    <3>1. spawned < opened /\ opened <= Len(requests) /\ spawned \in Nat /\ opened \in Nat
      BY <1>4 DEF SpawnTask, InputInv, StartInv, TypeInv
    <3>2. Len(requests) \in Nat /\ DOMAIN requests = 1 .. Len(requests)
      BY Numbered DEF TypeInv
    <3> QED BY <3>1, <3>2
  <2>2. tasks[spawned + 1].pc = "unborn"
    BY <2>1 DEF InputInv, TaskInv
  <2> QED BY <1>3, <1>4, <2>1, <2>2 DEF SpawnTask
<1>5. ASSUME NEW k \in DOMAIN requests, InputStep(k)
      PROVE  PauseInv'
  <2>1. CASE StartDone(k)
    BY <1>1, <2>1, PauseOfNew DEF StartDone, Task
  <2>2. CASE WaitOver(k)
    BY <1>3, <2>2 DEF WaitOver, GoTo
  <2>3. CASE Fetch(k)
    BY <1>3, <2>3 DEF Fetch, GoTo
  <2>4. CASE Enqueue(k)
    BY <1>1, <2>4 DEF Enqueue, Task
  <2>5. CASE StreamEnds(k)
    BY <1>3, <2>5 DEF StreamEnds, GoTo
  <2> QED BY <1>5, <2>1, <2>2, <2>3, <2>4, <2>5 DEF InputStep
<1>6. ASSUME NEW k \in DOMAIN requests, InputFails(k)
      PROVE  PauseInv'
  <2>1. PICK pause \in {"startWait", "streamWait"} :
          Fails(k, pause) /\ tasks[k].pc \in {"starting", "streaming"}
    BY <1>6 DEF InputFails, StartFails, StreamFails
  <2> DEFINE retry == tasks[k].retry
             n == tasks[k].failures
             failed == [pc       |-> IF GivesUp(retry) THEN "ended" ELSE pause,
                        retry    |-> IF GivesUp(retry) THEN retry ELSE Retried(retry),
                        next     |-> tasks[k].next,
                        failures |-> n + 1]
  <2>2. tasks' = [tasks EXCEPT ![k] = failed]
    BY <2>1 DEF Fails
  <2>3. retry.attempt = n /\ retry.delay = Pause(n) /\ n \in Nat
    BY <2>1, <1>1 DEF Task
  <2>4. Retried(retry).attempt = n + 1 /\ Retried(retry).delay = Pause(n + 1)
    BY <2>3, PauseAfterRetry DEF Retried
  <2>5. failed.pc # "ended" =>
          failed.retry.attempt = failed.failures /\ failed.retry.delay = Pause(failed.failures)
    BY <2>4
  <2> HIDE DEF failed
  <2> QED BY <1>1, <2>2, <2>5
<1>7. CASE InputTasks
  BY <1>2, <1>4, <1>5, <1>6, <1>7 DEF InputTasks, StartInputs, SetCounter
<1>8. CASE ~InputTasks
  BY <1>2, <1>8 DEF Next, Filter, Broadcast, vars, inputVars
<1> QED BY <1>7, <1>8

-----------------------------------------------------------------------------
(* Outputs *)

LEMMA StepSinkInv ==
  ASSUME TypeInv, SinkInv, [Next]_vars
  PROVE  SinkInv'
<1> USE DEF SinkInv
<1>1. CASE UNCHANGED outputVars
  BY <1>1 DEF outputVars, Offered, EventsApart
<1>2. CASE PrintEvent
  <2> DEFINE entry == [event     |-> Head(outQueue["stdout"]),
                       separated |-> ~first,
                       again     |-> refused]
  <2>1. printed' = Append(printed, entry) /\ first' = FALSE /\ refused' = FALSE
    BY <1>2 DEF PrintEvent, Encode
  <2>2. /\ entry.separated = ~first /\ entry.again = refused /\ refused \in BOOLEAN
        /\ entry \in [event : Clean, separated : BOOLEAN, again : BOOLEAN]
    BY <1>2, PrintedEntry DEF TypeInv
  <2> HIDE DEF entry
  <2>3. /\ Len(printed) \in Nat
        /\ DOMAIN printed = 1 .. Len(printed)
        /\ printed = <<>> <=> Len(printed) = 0
        /\ DOMAIN printed' = 1 .. Len(printed) + 1
        /\ printed' # <<>>
        /\ \A j \in 1 .. Len(printed) : printed'[j] = printed[j]
        /\ printed'[Len(printed) + 1] = entry
    BY <2>1, <2>2, AppendProperties, LenProperties, EmptySeq DEF TypeInv
  <2>4. ASSUME NEW j \in DOMAIN printed'
        PROVE  printed'[j].separated <=> j > 1 \/ printed'[j].again
    <3>1. CASE j \in 1 .. Len(printed)
      BY <3>1, <2>3 DEF EventsApart
    <3>2. CASE j = Len(printed) + 1
      <4>1. entry.separated <=> Len(printed) # 0 \/ refused
        BY <2>2, <2>3
      <4>2. j > 1 <=> Len(printed) # 0
        BY <3>2, <2>3
      <4> QED BY <3>2, <4>1, <4>2, <2>2, <2>3
    <3> QED BY <3>1, <3>2, <2>3
  <2>5. EventsApart'
    BY <2>4 DEF EventsApart
  <2> QED BY <2>1, <2>3, <2>5
<1>3. CASE Refuse
  BY <1>3 DEF Refuse, Encode, Offered, EventsApart
<1>4. CASE Swallow
  <2>1. UNCHANGED <<first, refused, printed>>
    BY <1>4 DEF Swallow
  <2>2. "stdout" \in Outputs => outQueue'["stdout"] = outQueue["stdout"]
    BY <1>4 DEF Swallow, Pop, TypeInv
  <2> QED BY <2>1, <2>2 DEF Offered, EventsApart
<1>5. ASSUME NEW c \in Copies, Filter(c)
      PROVE  SinkInv'
  BY <1>1, <1>5 DEF Filter
<1>6. ASSUME NEW c \in Copies, Broadcast(c)
      PROVE  SinkInv'
  <2>1. UNCHANGED <<first, refused, printed>>
    BY <1>6 DEF Broadcast
  <2>2. busy[c] \in Clean
    BY <1>6 DEF Broadcast, TypeInv
  <2>3. "stdout" \in Outputs => outQueue'["stdout"] # <<>>
    BY <2>2, <1>6, PutLast DEF Broadcast, TypeInv
  <2> QED BY <2>1, <2>3 DEF Offered, EventsApart
<1> QED BY <1>1, <1>2, <1>3, <1>4, <1>5, <1>6 DEF Next, Sinks, vars

-----------------------------------------------------------------------------
(* Every event is in one place *)

\* A task only ever moves forward.
LEMMA SentFramesGrow ==
  ASSUME TypeInv, TaskInv, [Next]_vars
  PROVE  SentFrames \subseteq SentFrames'
<1>1. requests' = requests
  BY Fixed DEF vars, inputVars
<1>2. ASSUME NEW k \in DOMAIN requests
      PROVE  tasks[k].next <= tasks'[k].next /\ tasks[k].next \in Nat /\ tasks'[k].next \in Nat
  <2>0. tasks[k] \in Task /\ tasks[k].next \in Nat /\ tasks \in [DOMAIN requests -> Task]
    BY DEF TypeInv, Task
  <2>1. CASE tasks' = tasks
    BY <2>0, <2>1
  <2>2. CASE SpawnTask
    BY <2>0, <2>2 DEF SpawnTask, Task
  <2>3. ASSUME NEW j \in DOMAIN requests, InputStep(j)
        PROVE  tasks'[k].next = tasks[k].next \/ tasks'[k].next = tasks[k].next + 1
    <3>1. CASE StartDone(j)
      BY <2>0, <3>1 DEF StartDone, Task
    <3>2. CASE WaitOver(j)
      BY <2>0, <3>2 DEF WaitOver, GoTo, Task
    <3>3. CASE Fetch(j)
      <4>1. PICK pc \in {"sending", "panicked"} : GoTo(j, pc)
        BY <3>3 DEF Fetch
      <4> QED BY <2>0, <4>1 DEF GoTo, Task
    <3>4. CASE Enqueue(j)
      BY <2>0, <3>4 DEF Enqueue, Task
    <3>5. CASE StreamEnds(j)
      BY <2>0, <3>5 DEF StreamEnds, GoTo, Task
    <3> QED BY <2>3, <3>1, <3>2, <3>3, <3>4, <3>5 DEF InputStep
  <2>4. ASSUME NEW j \in DOMAIN requests, InputFails(j)
        PROVE  tasks'[k].next = tasks[k].next
    BY <2>0, <2>4 DEF InputFails, StartFails, StreamFails, Fails
  <2>5. CASE InputTasks
    BY <2>0, <2>1, <2>2, <2>3, <2>4, <2>5 DEF InputTasks, StartInputs, SetCounter
  <2>6. CASE ~InputTasks
    BY <2>1, <2>6 DEF Next, Sinks, Filter, Broadcast, vars, inputVars
  <2> QED BY <2>5, <2>6
<1>3. ASSUME NEW f \in SentFrames
      PROVE  f \in SentFrames'
  <2>1. f \in Frames /\ f[1] \in DOMAIN requests /\ f[2] < tasks[f[1]].next /\ f[2] \in Nat
    BY Numbered DEF SentFrames, Frames, TypeInv
  <2>2. f[2] < tasks'[f[1]].next
    BY <2>1, <1>2
  <2> QED BY <2>1, <2>2, <1>1 DEF SentFrames, Frames
<1> QED BY <1>3

LEMMA StepOnceInv ==
  ASSUME TypeInv, TaskInv, OnceInv, [Next]_vars
  PROVE  OnceInv'
<1> DEFINE In == Origins(inQueue)
           Wo == Origins(Working)
           Wa == Origins(Waiting)
           Pr == Origins(PrintedEvents)
<1>1. SentFrames \subseteq SentFrames'
  BY SentFramesGrow
<1>2. ASSUME UNCHANGED <<inQueue, busy, printed>>, Waiting' = Waiting
      PROVE  OnceInv'
  <2>1. Working' = Working /\ PrintedEvents' = PrintedEvents
    BY <1>2 DEF Working, PrintedEvents
  <2>2. /\ Distinct(inQueue)' = Distinct(inQueue)
        /\ Distinct(Working)' = Distinct(Working)
        /\ Distinct(Waiting)' = Distinct(Waiting)
        /\ Distinct(PrintedEvents)' = Distinct(PrintedEvents)
        /\ Origins(inQueue)' = Origins(inQueue)
        /\ Origins(Working)' = Origins(Working)
        /\ Origins(Waiting)' = Origins(Waiting)
        /\ Origins(PrintedEvents)' = Origins(PrintedEvents)
    BY <1>2, <2>1 DEF Distinct, Origins
  <2> QED BY <1>1, <2>2 DEF OnceInv
<1>3. CASE UNCHANGED vars
  BY <1>2, <1>3 DEF vars, inputVars, outputVars, Waiting
<1>4. ASSUME NEW k \in DOMAIN requests, Enqueue(k), UNCHANGED <<outputVars, busy>>
      PROVE  OnceInv'
  <2> DEFINE new == <<k, tasks[k].next>>
  <2>1. /\ EventOf(new) \in Raw /\ EventOf(new).of = new
        /\ inQueue' = Append(inQueue, EventOf(new))
    BY <1>4, EnqueuedEvent
  <2>2. new \in Frames
    BY <1>4, NextFrame DEF Enqueue
  <2>3. new \notin SentFrames
    BY DEF SentFrames, TypeInv, Task
  <2>4. new \in SentFrames'
    <3>1. tasks'[k].next = tasks[k].next + 1 /\ tasks[k].next \in Nat
      BY <1>4 DEF Enqueue, TypeInv, Task
    <3>2. new[1] = k /\ new[2] = tasks[k].next /\ requests' = requests
      BY <1>4 DEF Enqueue
    <3> HIDE DEF new
    <3>3. new \in Frames' /\ new[1] \in DOMAIN requests' /\ new[2] < tasks'[new[1]].next
      BY <2>2, <3>1, <3>2 DEF Frames
    <3> QED BY <3>3 DEF SentFrames
  <2>5. Working' = Working /\ PrintedEvents' = PrintedEvents /\ Waiting' = Waiting
    BY <1>4 DEF Working, PrintedEvents, Waiting, outputVars
  <2> HIDE DEF new
  <2>6. new \notin In
    BY <2>3 DEF OnceInv
  <2>7. Origins(inQueue') = In \union {new} /\ Distinct(inQueue')
    BY <2>1, <2>6, PutLast DEF TypeInv, OnceInv
  <2>8. /\ Distinct(inQueue)' = Distinct(inQueue')
        /\ Distinct(Working)' = Distinct(Working)
        /\ Distinct(Waiting)' = Distinct(Waiting)
        /\ Distinct(PrintedEvents)' = Distinct(PrintedEvents)
        /\ Origins(inQueue)' = Origins(inQueue')
        /\ Origins(Working)' = Origins(Working)
        /\ Origins(Waiting)' = Origins(Waiting)
        /\ Origins(PrintedEvents)' = Origins(PrintedEvents)
    BY <2>5 DEF Distinct, Origins
  <2> QED BY <1>1, <2>3, <2>4, <2>7, <2>8 DEF OnceInv
<1>5. CASE InputTasks /\ UNCHANGED <<outputVars, patterns, busy>>
  <2>1. ASSUME ~ \E k \in DOMAIN requests : Enqueue(k)
        PROVE  inQueue' = inQueue
    BY <1>5, <2>1 DEF InputTasks, StartInputs, SetCounter, SpawnTask, InputStep, InputFails,
           StartFails, StreamFails, Fails, StartDone, WaitOver, Fetch, StreamEnds
  <2> QED BY <1>2, <1>4, <1>5, <2>1 DEF outputVars, Waiting
<1>6. CASE PrintEvent /\ UNCHANGED <<inputVars, patterns, busy>>
  <2> DEFINE e == Head(outQueue["stdout"])
             entry == [event |-> e, separated |-> ~first, again |-> refused]
  <2>1. /\ "stdout" \in Outputs /\ outQueue["stdout"] # <<>> /\ outQueue["stdout"] \in Seq(Clean)
        /\ Waiting = outQueue["stdout"] /\ Distinct(Waiting)
        /\ Waiting' = Tail(outQueue["stdout"])
    BY <1>6 DEF PrintEvent, Offered, Waiting, TypeInv, Pop, OnceInv
  <2>2. /\ e \in Clean
        /\ Distinct(Waiting')
        /\ Origins(Waiting') = Wa \ {e.of}
        /\ e.of \in Wa
    BY <2>1, TakeHead
  <2>3. printed' = Append(printed, entry)
    BY <1>6 DEF PrintEvent
  <2>4. /\ entry.event = e
        /\ entry \in [event : Clean, separated : BOOLEAN, again : BOOLEAN]
    BY <1>6, PrintedEntry
  <2> HIDE DEF e, entry
  <2>5. PrintedEvents \in Seq(Clean) /\ PrintedEvents' = Append(PrintedEvents, e)
    <3>1. /\ Len(printed) \in Nat /\ DOMAIN printed = 1 .. Len(printed)
          /\ DOMAIN printed' = 1 .. Len(printed) + 1
          /\ \A j \in 1 .. Len(printed) : printed'[j] = printed[j]
          /\ printed'[Len(printed) + 1] = entry
      BY <2>3, <2>4, AppendProperties, LenProperties DEF TypeInv
    <3>0. \A j \in 1 .. Len(printed) : printed[j].event \in Clean
      <4>1. printed \in Seq([event : Clean, separated : BOOLEAN, again : BOOLEAN])
        BY DEF TypeInv
      <4>2. \A j \in 1 .. Len(printed) :
              printed[j] \in [event : Clean, separated : BOOLEAN, again : BOOLEAN]
        BY <4>1, ElementOfSeq
      <4> QED BY <4>2
    <3>2. PrintedEvents \in Seq(Clean) /\ Len(PrintedEvents) = Len(printed)
      BY <3>0, <3>1, IsASeq DEF PrintedEvents
    <3>3. PrintedEvents' \in Seq(Clean) /\ Len(PrintedEvents') = Len(printed) + 1
      <4>1. PrintedEvents' = [j \in 1 .. Len(printed) + 1 |-> printed'[j].event]
        BY <3>1 DEF PrintedEvents
      <4>2. \A j \in 1 .. Len(printed) + 1 : printed'[j].event \in Clean
        BY <3>0, <3>1, <2>2, <2>4
      <4> HIDE DEF PrintedEvents
      <4> QED BY <4>1, <4>2, <3>1, IsASeq
    <3>4. \A j \in 1 .. Len(printed) + 1 : PrintedEvents'[j] = Append(PrintedEvents, e)[j]
      BY <3>1, <3>2, <2>2, <2>4, AppendProperties DEF PrintedEvents
    <3>5. /\ Append(PrintedEvents, e) \in Seq(Clean)
          /\ Len(Append(PrintedEvents, e)) = Len(printed) + 1
      BY <2>2, <3>2, AppendProperties
    <3> QED BY <3>1, <3>2, <3>3, <3>4, <3>5, SeqEqual
  <2>6. e.of \notin Pr
    BY <2>2 DEF OnceInv
  <2>7. Origins(PrintedEvents') = Pr \union {e.of} /\ Distinct(PrintedEvents')
    BY <2>2, <2>5, <2>6, PutLast DEF OnceInv
  <2>8. inQueue' = inQueue /\ Working' = Working
    BY <1>6 DEF inputVars, Working
  <2>9. /\ Distinct(inQueue)' = Distinct(inQueue)
        /\ Distinct(Working)' = Distinct(Working)
        /\ Distinct(Waiting)' = Distinct(Waiting')
        /\ Distinct(PrintedEvents)' = Distinct(PrintedEvents')
        /\ Origins(inQueue)' = Origins(inQueue)
        /\ Origins(Working)' = Origins(Working)
        /\ Origins(Waiting)' = Origins(Waiting')
        /\ Origins(PrintedEvents)' = Origins(PrintedEvents')
    BY <2>8 DEF Distinct, Origins
  <2> QED BY <1>1, <2>2, <2>7, <2>9 DEF OnceInv
<1>7. CASE (Refuse \/ Swallow) /\ UNCHANGED <<inputVars, patterns, busy>>
  <2>1. "stdout" \in Outputs => outQueue'["stdout"] = outQueue["stdout"]
    BY <1>7 DEF Refuse, Swallow, Pop, TypeInv
  <2>2. printed' = printed /\ Waiting' = Waiting
    BY <1>7, <2>1 DEF Refuse, Swallow, Waiting
  <2> QED BY <1>2, <1>7, <2>2 DEF inputVars
<1>8. ASSUME NEW c \in Copies, Filter(c)
      PROVE  OnceInv'
  <2> DEFINE f == Head(inQueue).of
             e == FilteredEvent(f)
  <2>1. /\ e.of = f /\ busy' = [busy EXCEPT ![c] = e] /\ busy[c] = NoEvent
        /\ busy \in [Copies -> Clean \union {NoEvent}]
    BY <1>8, FilteredHead DEF OnceInv, Filter, TypeInv
  <2>2. /\ f \in In
        /\ Distinct(inQueue')
        /\ Origins(inQueue') = In \ {f}
    BY <1>8, TakeHead DEF Filter, TypeInv, OnceInv
  <2>3. Waiting' = Waiting /\ PrintedEvents' = PrintedEvents
    BY <1>8 DEF Filter, outputVars, Waiting, PrintedEvents
  <2>4. f \notin Wo
    BY <2>2 DEF OnceInv
  <2> HIDE DEF f, e
  <2>5. /\ DOMAIN Working' \subseteq DOMAIN Working \union {c}
        /\ c \notin DOMAIN Working
        /\ DOMAIN Working \subseteq DOMAIN Working'
        /\ \A d \in DOMAIN Working : Working'[d] = Working[d]
        /\ c \in DOMAIN Working' => Working'[c] = e
    BY <2>1, <1>8 DEF Working
  <2>6. \A d \in DOMAIN Working : Working[d].of \in Wo
    BY DEF Origins
  <2>7. Distinct(Working') /\ Origins(Working') \subseteq Wo \union {f}
    <3>1. Distinct(Working)
      BY DEF OnceInv
    <3> HIDE DEF Wo
    <3> QED BY <2>1, <2>4, <2>5, <2>6, <3>1 DEF Distinct, Origins
  <2>8. /\ Distinct(inQueue)' = Distinct(inQueue')
        /\ Distinct(Working)' = Distinct(Working')
        /\ Distinct(Waiting)' = Distinct(Waiting)
        /\ Distinct(PrintedEvents)' = Distinct(PrintedEvents)
        /\ Origins(inQueue)' = Origins(inQueue')
        /\ Origins(Working)' = Origins(Working')
        /\ Origins(Waiting)' = Origins(Waiting)
        /\ Origins(PrintedEvents)' = Origins(PrintedEvents)
    BY <2>3 DEF Distinct, Origins
  <2> QED BY <1>1, <2>2, <2>7, <2>8 DEF OnceInv
<1>9. ASSUME NEW c \in Copies, Broadcast(c)
      PROVE  OnceInv'
  <2> DEFINE e == busy[c]
  <2>1. /\ busy' = [busy EXCEPT ![c] = NoEvent] /\ e # NoEvent /\ e \in Clean
        /\ busy \in [Copies -> Clean \union {NoEvent}]
        /\ c \in DOMAIN Working /\ Working[c] = e
    BY <1>9 DEF Broadcast, TypeInv, Working
  <2>2. inQueue' = inQueue /\ PrintedEvents' = PrintedEvents
    BY <1>9 DEF Broadcast, inputVars, PrintedEvents
  <2>3. /\ DOMAIN Working' = DOMAIN Working \ {c}
        /\ \A d \in DOMAIN Working' : Working'[d] = Working[d]
    BY <2>1 DEF Working
  <2>4. e.of \in Wo /\ Distinct(Working)
    BY <2>1 DEF Origins, OnceInv
  <2> HIDE DEF e
  <2>5. Distinct(Working') /\ Origins(Working') \subseteq Wo \ {e.of}
    BY <2>1, <2>3, <2>4 DEF Distinct, Origins
  <2>6. Waiting \in Seq(Clean) /\ Distinct(Waiting)
    BY EmptySeq DEF Waiting, TypeInv, OnceInv
  <2>7. e.of \notin Wa
    BY <2>4 DEF OnceInv
  <2>8. Distinct(Waiting') /\ Origins(Waiting') \subseteq Wa \union {e.of}
    <3>1. CASE "stdout" \in Outputs
      <4>1. Waiting' = Append(Waiting, e)
        BY <3>1, <1>9 DEF Waiting, Broadcast, e
      <4> QED BY <4>1, <2>1, <2>6, <2>7, PutLast
    <3>2. CASE "stdout" \notin Outputs
      BY <3>2, <2>6 DEF Waiting, Origins
    <3> QED BY <3>1, <3>2
  <2>9. /\ Distinct(inQueue)' = Distinct(inQueue)
        /\ Distinct(Working)' = Distinct(Working')
        /\ Distinct(Waiting)' = Distinct(Waiting')
        /\ Distinct(PrintedEvents)' = Distinct(PrintedEvents)
        /\ Origins(inQueue)' = Origins(inQueue)
        /\ Origins(Working)' = Origins(Working')
        /\ Origins(Waiting)' = Origins(Waiting')
        /\ Origins(PrintedEvents)' = Origins(PrintedEvents)
    BY <2>2 DEF Distinct, Origins
  <2> QED BY <1>1, <2>4, <2>5, <2>8, <2>9 DEF OnceInv
<1> QED BY <1>3, <1>5, <1>6, <1>7, <1>8, <1>9 DEF Next, Sinks

-----------------------------------------------------------------------------
(* The specification *)

LEMMA Inductive == Spec => []IInv
<1>1. Init => IInv
  BY InitTypeInv, InitInputInv, InitPauseInv, InitSinkInv, InitOnceInv DEF IInv
<1>2. IInv /\ [Next]_vars => IInv'
  BY StepTypeInv, StepInputInv, StepPauseInv, StepSinkInv, StepOnceInv DEF IInv, InputInv
<1> QED BY <1>1, <1>2, PTL DEF Spec

LEMMA MinOfTwo ==
  ASSUME NEW a \in Nat, NEW b \in Nat
  PROVE  Min({a, b}) = IF a <= b THEN a ELSE b
BY DEF Min

LEMMA SentFramesAreSent ==
  ASSUME TypeInv, TaskInv, NEW f \in SentFrames
  PROVE  EventOf(f) \in Sent /\ EventOf(f).of = f
<1>1. f \in Frames /\ f[1] \in DOMAIN requests /\ f[2] < tasks[f[1]].next
  BY DEF SentFrames
<1>2. f[2] \in Nat \ {0} /\ f = <<f[1], f[2]>>
  BY <1>1, Numbered DEF Frames, TypeInv
<1>3. /\ sent[f[1]] \in Seq(Raw)
      /\ Len(sent[f[1]]) \in Nat
      /\ DOMAIN sent[f[1]] = 1 .. Len(sent[f[1]])
      /\ DOMAIN sent = DOMAIN requests
  BY <1>1, LenProperties DEF TypeInv
<1>4. f[2] \in 1 .. Len(sent[f[1]])
  BY <1>1, <1>2, <1>3 DEF TaskInv
<1>5. sent[f[1]][f[2]] = EventOf(f)
  BY <1>1, <1>2, <1>4 DEF TaskInv
<1>6. EventOf(f) \in ToSet(sent[f[1]])
  BY <1>3, <1>4, <1>5 DEF ToSet
<1> QED BY <1>1, <1>3, <1>6, Frame DEF Sent

\* The types: the queue is bounded, each task is where its history says, each input that is
\* set up has its counter, and a copy of the filter only ever holds an event that an input
\* has sent (pipeline.rs:160-214, stdout.rs:60-76).
THEOREM TypeCorrect == Spec => []TypeOK
<1>1. IInv => TypeOK
  <2> SUFFICES ASSUME IInv PROVE TypeOK
    OBVIOUS
  <2> USE DEF IInv, TypeInv, InputInv
  <2>1. InputTypes
    <3>1. opened \in spawned .. Min({spawned + 1, Len(requests)})
      <4>1. Len(requests) \in Nat
        BY Numbered
      <4> HIDE DEF TypeInv
      <4>2. opened \in Nat /\ spawned \in Nat
        BY DEF TypeInv
      <4>3. Min({spawned + 1, Len(requests)})
              = IF spawned + 1 <= Len(requests) THEN spawned + 1 ELSE Len(requests)
        BY <4>1, <4>2, MinOfTwo
      <4> QED BY <4>1, <4>2, <4>3 DEF StartInv
    <3>2. DOMAIN tasks = DOMAIN requests
      OBVIOUS
    <3>3. \A k \in DOMAIN requests : tasks[k].pc \in TaskSteps
      BY DEF Task
    <3> QED BY <3>1, <3>2, <3>3 DEF InputTypes, TaskInv, CounterInv
  <2>2. ASSUME NEW c \in Copies, busy[c] # NoEvent
        PROVE  \E event \in Sent : event.of = busy[c].of
    <3>1. busy[c].of \in Origins(Working)
      BY <2>2 DEF Working, Origins
    <3>2. busy[c].of \in SentFrames
      BY <3>1 DEF OnceInv
    <3> QED BY <3>2, SentFramesAreSent
  <2> QED BY <2>1, <2>2 DEF TypeOK, SinkInv
<1> QED BY <1>1, Inductive, PTL

\* Every input has counted exactly what it took from its stream unless somebody has chosen
\* its id for another one, and no task misses its counter (pipeline.rs:107-121, 174-196).
THEOREM CountersAlwaysExact == Spec => []CountersExact
<1>1. IInv => CountersExact
  <2> SUFFICES ASSUME IInv, NEW k \in DOMAIN requests
               PROVE  /\ tasks[k].pc # "panicked"
                      /\ k <= opened /\ ~Clashes(k) => counters[Id(k)] = Taken(k)
    BY DEF CountersExact
  <2>1. tasks[k].pc # "panicked"
    BY DEF IInv, InputInv, TaskInv
  <2>2. k <= opened => k \in 1 .. opened
    BY Numbered DEF IInv, TypeInv
  <2> QED BY <2>1, <2>2 DEF IInv, InputInv, CounterInv
<1> QED BY <1>1, Inductive, PTL

\* Every printed event is set apart from the one before it, refused or not
\* (stdout.rs:63-71, debug.rs:43-49).
THEOREM EventsStayApart == Spec => []EventsApart
<1>1. IInv => EventsApart
  BY DEF IInv, SinkInv
<1> QED BY <1>1, Inductive, PTL

\* What stdout prints was sent by an input, once, and has its own fields and the captures the
\* filter is configured for, whatever fails on the way (regex.rs:80-112, stdout.rs:60-76).
THEOREM PrintedAlwaysIntact == Spec => []PrintedIntact
<1>1. IInv => PrintedIntact
  <2> SUFFICES ASSUME IInv PROVE Intact(PrintedEvents)
    BY DEF PrintedIntact, PrintedEvents
  <2>1. \A j, k \in DOMAIN PrintedEvents : PrintedEvents[j].of = PrintedEvents[k].of => j = k
    BY DEF IInv, OnceInv, Distinct
  <2>2. ASSUME NEW j \in DOMAIN PrintedEvents
        PROVE  \E event \in Sent :
                 /\ event.of = PrintedEvents[j].of
                 /\ AsConfigured(patterns, event.fields, PrintedEvents[j].fields)
    <3> DEFINE e == PrintedEvents[j]
    <3>1. e \in Clean
      <4>1. j \in DOMAIN printed /\ e = printed[j].event
        BY DEF PrintedEvents
      <4>2. printed[j] \in [event : Clean, separated : BOOLEAN, again : BOOLEAN]
        BY <4>1, ElementOfSeq, LenProperties DEF IInv, TypeInv
      <4> QED BY <4>1, <4>2
    <3>2. e.of \in SentFrames
      BY DEF IInv, OnceInv, Origins
    <3> HIDE DEF e
    <3>3. e.of \in Frames /\ e = FilteredEvent(e.of)
      BY <3>1, Frame
    <3>4. EventOf(e.of) \in Sent /\ EventOf(e.of).of = e.of
      BY <3>2, SentFramesAreSent DEF IInv, InputInv
    <3> DEFINE line == Contents[e.of[1]][e.of[2]]
    <3>5. line \in Lines
      BY <3>3, FrameContents
    <3> HIDE DEF line
    <3>6. /\ EventOf(e.of).fields = FileFields(line)
          /\ e.fields = Filtered(patterns, FileFields(line))
      BY <3>3 DEF EventOf, FilteredEvent, line
    <3>7. AsConfigured(patterns, EventOf(e.of).fields, e.fields)
      BY <3>5, <3>6, FilterAsConfigured DEF IInv, TypeInv
    <3> QED BY <3>4, <3>7 DEF e
  <2> QED BY <2>1, <2>2 DEF Intact
<1> QED BY <1>1, Inductive, PTL
\* As long as a handler has not given up, its next pause after n errors is InitialDelay doubled
\* n times or MaxDelay, whichever is less (retry.rs:34-58).
THEOREM PausesAlwaysFollowFailures == Spec => []PausesFollowFailures
<1>1. IInv => PausesFollowFailures
  <2> SUFFICES ASSUME IInv, NEW k \in DOMAIN requests, tasks[k].pc # "ended"
               PROVE  /\ tasks[k].retry.attempt = tasks[k].failures
                      /\ tasks[k].retry.delay = Min({Doubled[tasks[k].failures], MaxDelay})
    BY DEF PausesFollowFailures, IInv, TypeInv
  <2>1. tasks[k].failures \in Nat
    BY DEF IInv, TypeInv, Task
  <2>2. Doubled[tasks[k].failures] \in Nat /\ MaxDelay \in Nat
    BY <2>1, DoubledIs, InputsAssumption
  <2>3. Min({Doubled[tasks[k].failures], MaxDelay}) = Pause(tasks[k].failures)
    BY <2>2, MinOfTwo DEF Pause
  <2> QED BY <2>3 DEF IInv, PauseInv
<1> QED BY <1>1, Inductive, PTL

=============================================================================
