------------------------------- MODULE Signal -------------------------------
(***************************************************************************)
(* The wake-up protocol of util/futures/signal.rs: an AtomicBool, a mutex  *)
(* over the list of tasks to wake, and poll()'s check / register / check   *)
(* again.  The two public flavours differ only in the Poller: signal()     *)
(* loads the flag, pulse() swaps it back to false.                         *)
(*                                                                         *)
(* A receiver stands for the executor task that polls it.  The executor    *)
(* (tokio-threadpool) is external and modelled by the four states it keeps *)
(* for a task; a wake-up that arrives while the task runs makes it run     *)
(* again.                                                                  *)
(*                                                                         *)
(* Every access to the flag is Ordering::Relaxed, so a check may read an   *)
(* old FALSE.  The only thing that orders the flag for a receiver is the   *)
(* mutex: a sender sets the flag before it locks, so a receiver that       *)
(* registers after the sender's critical section reads the new value.      *)
(* Hence the first check may always miss, the second one only while some   *)
(* sender is between its compare-and-swap and the mutex.                   *)
(***************************************************************************)
CONSTANTS
  Senders,     \* threads inside Sender::signal
  Receivers,   \* tasks that poll a Receiver
  NoSender     \* the mutex is free

ASSUME SignalAssumption == NoSender \notin Senders

VARIABLES
  pulse,       \* TRUE: made by pulse(), FALSE: by signal()
  signalled,   \* Signal.signalled
  lock,        \* who drains waiting_receivers; its other critical sections are one step
  waiting,     \* Signal.waiting_receivers: at most one entry per task
  spc,         \* sender:   idle | notify (swapped, not yet locked) | drain
  rpc,         \* receiver: parked | check | register | recheck | unregister
               \*           | pending (poll answers NotReady) | work | done
  task         \* executor: idle | scheduled | running | notified

vars == <<pulse, signalled, lock, waiting, spc, rpc, task>>

TaskStates == {"idle", "scheduled", "running", "notified"}

PollSteps ==
  {"parked", "check", "register", "recheck", "unregister", "pending", "work", "done"}

\* signal::Receiver can be cloned, pulse::Receiver cannot: one of the tasks has it, and the
\* others never poll.
Init ==
  /\ pulse \in BOOLEAN
  /\ signalled = FALSE
  /\ lock = NoSender
  /\ waiting = {}
  /\ spc = [s \in Senders |-> "idle"]
  /\ \E users \in SUBSET Receivers :
       /\ IF pulse THEN \E r \in Receivers : users = {r} ELSE users = Receivers
       /\ rpc = [r \in Receivers |-> IF r \in users THEN "parked" ELSE "done"]
       /\ task = [r \in Receivers |-> IF r \in users THEN "scheduled" ELSE "running"]

-----------------------------------------------------------------------------
(* Sender::signal                                                          *)

\* Task::notify on a task in state t.
Woken(t) ==
  CASE t = "idle"    -> "scheduled"
    [] t = "running" -> "notified"
    [] OTHER         -> t

\* Mutant of Swap: the flag is raised, and nobody told.
SwapOnly(s) ==
  /\ spc[s] = "idle"
  /\ ~signalled
  /\ signalled' = TRUE
  /\ UNCHANGED <<pulse, lock, waiting, spc, rpc, task>>

\* compare_and_swap(false, true).  When it finds the flag up already signal() returns:
\* a step that changes nothing.
Swap(s) ==
  /\ spc[s] = "idle"
  /\ ~signalled
  /\ signalled' = TRUE
  /\ spc' = [spc EXCEPT ![s] = "notify"]
  /\ UNCHANGED <<pulse, lock, waiting, rpc, task>>

\* Mutant of LockWaiting: a sender does not wait for the mutex.
DrainUnlocked(s) ==
  /\ spc[s] = "notify"
  /\ lock' = s
  /\ spc' = [spc EXCEPT ![s] = "drain"]
  /\ UNCHANGED <<pulse, signalled, waiting, rpc, task>>

LockWaiting(s) ==
  /\ spc[s] = "notify"
  /\ lock = NoSender
  /\ lock' = s
  /\ spc' = [spc EXCEPT ![s] = "drain"]
  /\ UNCHANGED <<pulse, signalled, waiting, rpc, task>>

\* One turn of `for task in tasks.drain(..)`.
NotifyOne(s, r) ==
  /\ spc[s] = "drain"
  /\ r \in waiting
  /\ waiting' = waiting \ {r}
  /\ task' = [task EXCEPT ![r] = Woken(@)]
  /\ UNCHANGED <<pulse, signalled, lock, spc, rpc>>

Unlock(s) ==
  /\ spc[s] = "drain"
  /\ waiting = {}
  /\ lock' = NoSender
  /\ spc' = [spc EXCEPT ![s] = "idle"]
  /\ UNCHANGED <<pulse, signalled, waiting, rpc, task>>

-----------------------------------------------------------------------------
(* Signal::poll, called by Receiver::poll                                  *)

\* Poller::poll finds the flag up: a load for signal(), a swap for pulse().
Observe ==
  /\ signalled
  /\ signalled' = ~pulse

\* A one-shot future is not polled again; a stream is, when its item is dealt with.
AfterReady == IF pulse THEN "work" ELSE "done"

GoTo(r, step) == rpc' = [rpc EXCEPT ![r] = step]

Check(r) ==
  /\ rpc[r] = "check"
  /\ \/ Observe /\ GoTo(r, AfterReady)
     \/ UNCHANGED signalled /\ GoTo(r, "register")
  /\ UNCHANGED <<pulse, lock, waiting, spc, task>>

\* Mutant of Register: the flag is not checked again.
RegisterOnly(r) ==
  /\ rpc[r] = "register"
  /\ lock = NoSender
  /\ waiting' = waiting \union {r}
  /\ GoTo(r, "pending")
  /\ UNCHANGED <<pulse, signalled, lock, spc, task>>

Register(r) ==
  /\ rpc[r] = "register"
  /\ lock = NoSender
  /\ waiting' = waiting \union {r}
  /\ GoTo(r, "recheck")
  /\ UNCHANGED <<pulse, signalled, lock, spc, task>>

\* The second check can miss a raised flag only before the raiser has the mutex.
MayMiss == ~signalled \/ \E s \in Senders : spc[s] = "notify"

Recheck(r) ==
  /\ rpc[r] = "recheck"
  /\ \/ Observe /\ GoTo(r, "unregister")
     \/ MayMiss /\ UNCHANGED signalled /\ GoTo(r, "pending")
  /\ UNCHANGED <<pulse, lock, waiting, spc, task>>

Unregister(r) ==
  /\ rpc[r] = "unregister"
  /\ lock = NoSender
  /\ waiting' = waiting \ {r}
  /\ GoTo(r, AfterReady)
  /\ UNCHANGED <<pulse, signalled, lock, spc, task>>

-----------------------------------------------------------------------------
(* The executor and the task around the receiver (external)                *)

Run(r) ==
  /\ rpc[r] = "parked"
  /\ task[r] = "scheduled"
  /\ task' = [task EXCEPT ![r] = "running"]
  /\ GoTo(r, "check")
  /\ UNCHANGED <<pulse, signalled, lock, waiting, spc>>

Park(r) ==
  /\ rpc[r] = "pending"
  /\ task' = [task EXCEPT ![r] = IF @ = "notified" THEN "scheduled" ELSE "idle"]
  /\ GoTo(r, "parked")
  /\ UNCHANGED <<pulse, signalled, lock, waiting, spc>>

\* The task handles an item, perhaps over several polls that never reach the
\* receiver: a wake-up that came in the meantime may be used up.
FinishWork(r) ==
  /\ rpc[r] = "work"
  /\ \E t \in {task[r], "running"} : task' = [task EXCEPT ![r] = t]
  /\ GoTo(r, "check")
  /\ UNCHANGED <<pulse, signalled, lock, waiting, spc>>

\* Something else the task waits for is ready: the timer select()ed with the pulse.
OtherWakeUp(r) ==
  /\ rpc[r] = "parked"
  /\ task[r] = "idle"
  /\ task' = [task EXCEPT ![r] = Woken(@)]
  /\ UNCHANGED <<pulse, signalled, lock, waiting, spc, rpc>>

-----------------------------------------------------------------------------
SenderStep(s) == LockWaiting(s) \/ Unlock(s) \/ \E r \in Receivers : NotifyOne(s, r)

Poll(r) == Check(r) \/ Register(r) \/ Recheck(r) \/ Unregister(r)

ReceiverStep(r) == Poll(r) \/ Run(r) \/ Park(r) \/ FinishWork(r)

Next ==
  \/ \E s \in Senders : Swap(s) \/ SenderStep(s)
  \/ \E r \in Receivers : ReceiverStep(r) \/ OtherWakeUp(r)

\* A signal() that has begun ends, a scheduled task runs and a poll returns; nobody
\* has to signal and nothing else has to wake the task.
Fairness ==
  /\ \A s \in Senders : WF_vars(SenderStep(s))
  /\ \A r \in Receivers : WF_vars(ReceiverStep(r))

Spec == Init /\ [][Next]_vars /\ Fairness

-----------------------------------------------------------------------------
\* Types, with the two facts that tie them together: the mutex holder is the one
\* sender that drains, and a task is idle or scheduled exactly between its polls.
TypeOK ==
  /\ pulse \in BOOLEAN
  /\ signalled \in BOOLEAN
  /\ lock \in Senders \union {NoSender}
  /\ waiting \subseteq Receivers
  /\ spc \in [Senders -> {"idle", "notify", "drain"}]
  /\ rpc \in [Receivers -> PollSteps]
  /\ task \in [Receivers -> TaskStates]
  /\ \A s \in Senders : spc[s] = "drain" <=> lock = s
  /\ \A r \in Receivers : rpc[r] = "parked" <=> task[r] \in {"idle", "scheduled"}

\* A task that answers, or has answered, NotReady and that nothing has woken since.
Asleep(r) ==
  /\ rpc[r] \in {"pending", "parked"}
  /\ task[r] \in {"idle", "running"}

Notifying == \E s \in Senders : spc[s] \in {"notify", "drain"}

\* No wake-up is lost: a task asleep under a raised flag is still in the list, and the
\* sender that will drain the list is on its way.  Otherwise the task would sleep until
\* something unrelated woke it (signal.rs, poll and signal).
NoLostWakeup ==
  \A r \in Receivers : signalled /\ Asleep(r) => r \in waiting /\ Notifying

\* A receiver has taken the flag as soon as one of its checks observes it.
Completed ==
  IF pulse THEN {} ELSE {r \in Receivers : rpc[r] \in {"unregister", "done"}}

\* The mechanism implements the flag that never loses a wake-up.
Flag == INSTANCE WakeFlag WITH latched <- ~pulse, up <- signalled, seen <- Completed

\* Every raised flag is taken by every receiver waiting for it, for both flavours.
ImplementsWakeFlag == Flag!Spec
=============================================================================
