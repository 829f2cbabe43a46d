------------------------------- MODULE Inputs -------------------------------
(***************************************************************************)
(* The inputs of a pipeline: the builder that names them, the counters of  *)
(* metric.rs, and the task of each input, which starts it and then its     *)
(* stream under RetryErrorHandler (pipeline.rs, retry.rs).                 *)
(*                                                                         *)
(* A task: unborn -> starting -> streaming -> sending -> streaming ...     *)
(* until the stream ends; startWait and streamWait are the pauses after an *)
(* error.  start() sets up one input after the other while the tasks it    *)
(* has spawned run already.                                                *)
(***************************************************************************)
EXTENDS Events

CONSTANTS
  Requests,     \* what the builder may be called with: sequences of [name, id]
  Generated,    \* no id is given
  Contents,     \* the lines that the stream of the k-th input is made of
  Capacity,     \* in_queue_capacity
  InitialDelay,
  MaxDelay,
  MaxAttempts,  \* of RetryErrorHandler; the pipeline gives NoLimit
  NoLimit,
  MaxErrors     \* bound: failures that the handlers in use have seen

ASSUME InputsAssumption ==
  /\ Capacity \in Nat \ {0, 1}
  /\ {InitialDelay, MaxDelay} \subseteq Nat \ {0}
  /\ InitialDelay <= MaxDelay
  /\ MaxAttempts \in Nat \union {NoLimit}
  /\ MaxErrors \in Nat

\* Every input that may be configured has a stream of lines.
ASSUME RequestsAssumption ==
  /\ Contents \in Seq(Seq(Lines))
  /\ \A r \in Requests : r \in Seq(Range(r)) /\ Len(r) <= Len(Contents)

VARIABLES
  requests,  \* the calls of PipelineBuilder::input
  counters,  \* Metrics.values: the counters that are there, by input id
  opened,    \* how many inputs have their counter,
  spawned,   \*   and their task
  tasks,     \* the k-th task: [pc, retry, next, failures]
  inQueue,   \* in_queue
  sent       \* history: the events that each task put into inQueue

inputVars == <<requests, counters, opened, spawned, tasks, inQueue, sent>>

\* Mutant of GenId: the inputs of the same name are not counted.
GenFirstId(before, name) == <<name, 1>>

\* "name-i"
GenId(before, name) == <<name, 1 + Cardinality({k \in DOMAIN before : before[k].name = name})>>

\* PipelineBuilder.inputs: the k-th one gets its id when it is added.
Id(k) ==
  IF requests[k].id = Generated
    THEN GenId(SubSeq(requests, 1, k - 1), requests[k].name)
    ELSE requests[k].id

\* RetryErrorHandler::new
NewRetry == [attempt |-> 0, delay |-> InitialDelay]

\* Mutant of GivesUp: no limit is taken for a limit of no attempts.
GivesUpAtOnce(retry) == MaxAttempts = NoLimit \/ retry.attempt = MaxAttempts

GivesUp(retry) == retry.attempt = MaxAttempts

\* Mutant of Retried: the delay has no upper limit.
RetriedWithoutLimit(retry) == [attempt |-> retry.attempt + 1, delay |-> 2 * retry.delay]

\* RetryErrorHandler::handle, when it does not give up.
Retried(retry) ==
  [attempt |-> retry.attempt + 1,
   delay   |-> IF 2 * retry.delay < MaxDelay THEN 2 * retry.delay ELSE MaxDelay]

Unborn == [pc |-> "unborn", retry |-> NewRetry, next |-> 1, failures |-> 0]

InitInputs ==
  /\ requests \in Requests
  /\ counters = <<>>
  /\ opened = 0
  /\ spawned = 0
  /\ tasks = [k \in DOMAIN requests |-> Unborn]
  /\ inQueue = <<>>
  /\ sent = [k \in DOMAIN requests |-> <<>>]

-----------------------------------------------------------------------------
(* start_inputs                                                            *)

\* Metrics::set, which replaces a counter of the same name.
SetCounter ==
  /\ opened = spawned
  /\ opened < Len(requests)
  /\ opened' = opened + 1
  /\ counters' = [id \in DOMAIN counters \union {Id(opened + 1)} |->
                   IF id = Id(opened + 1) THEN 0 ELSE counters[id]]
  /\ UNCHANGED <<requests, spawned, tasks, inQueue, sent>>

SpawnTask ==
  /\ spawned < opened
  /\ spawned' = spawned + 1
  /\ tasks' = [tasks EXCEPT ![spawned + 1].pc = "starting"]
  /\ UNCHANGED <<requests, counters, opened, inQueue, sent>>

-----------------------------------------------------------------------------
(* The task of the k-th input                                              *)

GoTo(k, pc) == tasks' = [tasks EXCEPT ![k].pc = pc]

\* An error, which the task's handler answers with a pause, or with the end of the task.
Fails(k, pause) ==
  /\ SumFunction([j \in DOMAIN tasks |-> tasks[j].failures]) < MaxErrors
  /\ tasks' = [tasks EXCEPT
       ![k] = [pc       |-> IF GivesUp(@.retry) THEN "ended" ELSE pause,
               retry    |-> IF GivesUp(@.retry) THEN @.retry ELSE Retried(@.retry),
               next     |-> @.next,
               failures |-> @.failures + 1]]
  /\ UNCHANGED <<requests, counters, opened, spawned, inQueue, sent>>

StartFails(k) == tasks[k].pc = "starting" /\ Fails(k, "startWait")

\* The stream gets a handler of its own.
StartDone(k) ==
  /\ tasks[k].pc = "starting"
  /\ tasks' = [tasks EXCEPT ![k].pc = "streaming", ![k].retry = NewRetry, ![k].failures = 0]
  /\ UNCHANGED <<requests, counters, opened, spawned, inQueue, sent>>

\* The pause is over: the timer of futures_retry.
WaitOver(k) ==
  /\ tasks[k].pc \in {"startWait", "streamWait"}
  /\ GoTo(k, IF tasks[k].pc = "startWait" THEN "starting" ELSE "streaming")
  /\ UNCHANGED <<requests, counters, opened, spawned, inQueue, sent>>

StreamFails(k) == tasks[k].pc = "streaming" /\ Fails(k, "streamWait")

\* The next event is counted before it is sent on.  A counter that is not there is a panic.
Fetch(k) ==
  /\ tasks[k].pc = "streaming"
  /\ tasks[k].next <= Len(Contents[k])
  /\ IF Id(k) \in DOMAIN counters
       THEN GoTo(k, "sending") /\ counters' = [counters EXCEPT ![Id(k)] = @ + 1]
       ELSE GoTo(k, "panicked") /\ UNCHANGED counters
  /\ UNCHANGED <<requests, opened, spawned, inQueue, sent>>

\* Mutant of Enqueue: a full queue does not make the task wait.
EnqueueAlways(k) ==
  /\ tasks[k].pc = "sending"
  /\ LET n     == tasks[k].next
         event == [of |-> <<k, n>>, fields |-> FileFields(Contents[k][n])]
     IN  /\ inQueue' = Append(inQueue, event)
         /\ sent' = [sent EXCEPT ![k] = Append(@, event)]
  /\ tasks' = [tasks EXCEPT ![k].pc = "streaming", ![k].next = @ + 1]
  /\ UNCHANGED <<requests, counters, opened, spawned>>

Enqueue(k) ==
  /\ tasks[k].pc = "sending"
  /\ Len(inQueue) < Capacity
  /\ LET n     == tasks[k].next
         event == [of |-> <<k, n>>, fields |-> FileFields(Contents[k][n])]
     IN  /\ inQueue' = Append(inQueue, event)
         /\ sent' = [sent EXCEPT ![k] = Append(@, event)]
  /\ tasks' = [tasks EXCEPT ![k].pc = "streaming", ![k].next = @ + 1]
  /\ UNCHANGED <<requests, counters, opened, spawned>>

StreamEnds(k) ==
  /\ tasks[k].pc = "streaming"
  /\ tasks[k].next > Len(Contents[k])
  /\ GoTo(k, "ended")
  /\ UNCHANGED <<requests, counters, opened, spawned, inQueue, sent>>

InputStep(k) == StartDone(k) \/ WaitOver(k) \/ Fetch(k) \/ Enqueue(k) \/ StreamEnds(k)

InputFails(k) == StartFails(k) \/ StreamFails(k)

StartInputs == SetCounter \/ SpawnTask

-----------------------------------------------------------------------------
TaskSteps ==
  {"unborn", "starting", "startWait", "streaming", "streamWait", "sending", "ended",
   "panicked"}

InputTypes ==
  /\ requests \in Requests
  /\ opened \in spawned .. Min({spawned + 1, Len(requests)})
  /\ \A k \in DOMAIN tasks :
       /\ tasks[k].pc \in TaskSteps
       /\ tasks[k].pc = "unborn" <=> k > spawned
       /\ tasks[k].next = Len(sent[k]) + 1
       /\ tasks[k].next <= Len(Contents[k]) + 1
  /\ Len(inQueue) <= Capacity
  /\ DOMAIN counters = {Id(k) : k \in 1 .. opened}

\* The events a task has taken from its stream.
Taken(k) == Len(sent[k]) + IF tasks[k].pc = "sending" THEN 1 ELSE 0

\* Somebody has chosen an id that another input has as well.
Clashes(k) ==
  \E j \in DOMAIN requests \ {k} :
    Id(j) = Id(k) /\ (requests[j].id # Generated \/ requests[k].id # Generated)

\* An input counts exactly the events it has taken, unless somebody chose the same id for
\* another one: generated ids do not collide, and no task looks for its counter in vain
\* (pipeline.rs:107-121, 174-196, metric.rs:44-72).
CountersExact ==
  \A k \in DOMAIN requests :
    /\ tasks[k].pc # "panicked"
    /\ k <= opened /\ ~Clashes(k) => counters[Id(k)] = Taken(k)

\* The pause before the n-th retry if there were no limit.
Doubled[n \in Nat] == IF n = 0 THEN InitialDelay ELSE 2 * Doubled[n - 1]

\* The pause after an error doubles with every error up to the limit, over the whole life of
\* the stream: no event that came through in between makes it shorter (retry.rs:34-58).
PausesFollowFailures ==
  \A k \in DOMAIN tasks : tasks[k].pc # "ended" =>
    /\ tasks[k].retry.attempt = tasks[k].failures
    /\ tasks[k].retry.delay = Min({Doubled[tasks[k].failures], MaxDelay})
=============================================================================
