---------------------------- MODULE SignalProofs ----------------------------
(***************************************************************************)
(* Proofs about Signal.tla, for any number of senders and receivers and    *)
(* for both flavours: the types, that no wake-up is lost, and the safety   *)
(* half of the refinement of WakeFlag.tla.  That a raised flag is taken in *)
(* the end depends on fairness and stays with TLC.                         *)
(***************************************************************************)
EXTENDS Signal, TLAPS

\* What NoLostWakeup rests on: between registering and being woken a receiver is in the
\* list.  poll() relies on it when it answers NotReady without looking at the list again.
Registered ==
  \A r \in Receivers :
    rpc[r] \in {"recheck", "pending", "parked"} /\ task[r] \in {"idle", "running"}
      => r \in waiting

IInv == TypeOK /\ Registered /\ NoLostWakeup

-----------------------------------------------------------------------------
LEMMA InitTasks ==
  ASSUME Init
  PROVE  /\ rpc \in [Receivers -> {"parked", "done"}]
         /\ task \in [Receivers -> {"scheduled", "running"}]
         /\ \A r \in Receivers : rpc[r] = "parked" <=> task[r] = "scheduled"
         /\ ~pulse => \A r \in Receivers : rpc[r] = "parked"
<1>1. PICK users \in SUBSET Receivers :
        /\ IF pulse THEN \E r \in Receivers : users = {r} ELSE users = Receivers
        /\ rpc = [r \in Receivers |-> IF r \in users THEN "parked" ELSE "done"]
        /\ task = [r \in Receivers |-> IF r \in users THEN "scheduled" ELSE "running"]
  BY DEF Init
<1> QED
  BY <1>1

LEMMA InitType == Init => TypeOK
<1> SUFFICES ASSUME Init PROVE TypeOK
  OBVIOUS
<1>1. pulse \in BOOLEAN /\ signalled = FALSE /\ lock = NoSender /\ waiting = {}
  BY DEF Init
<1>2. spc = [s \in Senders |-> "idle"]
  BY DEF Init
<1> QED
  BY <1>1, <1>2, InitTasks, SignalAssumption DEF TypeOK, TaskStates, PollSteps

LEMMA NextType == TypeOK /\ [Next]_vars => TypeOK'
<1> SUFFICES ASSUME TypeOK, [Next]_vars PROVE TypeOK'
  OBVIOUS
<1> USE SignalAssumption DEF TypeOK, TaskStates, PollSteps
<1>1. ASSUME NEW s \in Senders, Swap(s) PROVE TypeOK'
  BY <1>1 DEF Swap
<1>2. ASSUME NEW s \in Senders, LockWaiting(s) PROVE TypeOK'
  BY <1>2 DEF LockWaiting
<1>3. ASSUME NEW s \in Senders, Unlock(s) PROVE TypeOK'
  BY <1>3 DEF Unlock
<1>4. ASSUME NEW s \in Senders, NEW r \in Receivers, NotifyOne(s, r) PROVE TypeOK'
  BY <1>4 DEF NotifyOne, Woken
<1>5. ASSUME NEW r \in Receivers, Check(r) PROVE TypeOK'
  BY <1>5 DEF Check, Observe, GoTo, AfterReady
<1>6. ASSUME NEW r \in Receivers, Register(r) PROVE TypeOK'
  BY <1>6 DEF Register, GoTo
<1>7. ASSUME NEW r \in Receivers, Recheck(r) PROVE TypeOK'
  BY <1>7 DEF Recheck, Observe, GoTo
<1>8. ASSUME NEW r \in Receivers, Unregister(r) PROVE TypeOK'
  BY <1>8 DEF Unregister, GoTo, AfterReady
<1>9. ASSUME NEW r \in Receivers, Run(r) PROVE TypeOK'
  BY <1>9 DEF Run, GoTo
<1>10. ASSUME NEW r \in Receivers, Park(r) PROVE TypeOK'
  BY <1>10 DEF Park, GoTo
<1>11. ASSUME NEW r \in Receivers, FinishWork(r) PROVE TypeOK'
  BY <1>11 DEF FinishWork, GoTo
<1>12. ASSUME NEW r \in Receivers, OtherWakeUp(r) PROVE TypeOK'
  BY <1>12 DEF OtherWakeUp, Woken
<1>13. CASE UNCHANGED vars
  BY <1>13 DEF vars
<1> QED
  BY <1>1, <1>2, <1>3, <1>4, <1>5, <1>6, <1>7, <1>8, <1>9, <1>10, <1>11, <1>12, <1>13
  DEF Next, SenderStep, ReceiverStep, Poll

\* Type correctness, the exclusive drain of signal.rs:93-98 included: the sender that
\* drains the list is the one that holds its mutex.
THEOREM TypeCorrect == Spec => []TypeOK
<1>1. Init => TypeOK
  BY InitType
<1>2. TypeOK /\ [Next]_vars => TypeOK'
  BY NextType
<1> QED
  BY <1>1, <1>2, PTL DEF Spec

-----------------------------------------------------------------------------
LEMMA InitInv == Init => IInv
<1> SUFFICES ASSUME Init PROVE IInv
  OBVIOUS
<1>1. ~signalled
  BY DEF Init
<1>2. \A r \in Receivers : rpc[r] = "parked" => task[r] = "scheduled"
  BY InitTasks
<1>3. \A r \in Receivers : rpc[r] \in {"parked", "done"}
  BY InitTasks
<1> QED
  BY <1>1, <1>2, <1>3, InitType DEF IInv, Registered, NoLostWakeup

LEMMA NextInv == IInv /\ [Next]_vars => IInv'
<1> SUFFICES ASSUME IInv, [Next]_vars PROVE Registered' /\ NoLostWakeup'
  BY NextType DEF IInv
<1>t. TypeOK /\ TypeOK'
  BY NextType DEF IInv
<1> USE <1>t DEF IInv, TypeOK, TaskStates, PollSteps, Registered, NoLostWakeup, Asleep,
                 Notifying
<1>1. ASSUME NEW s \in Senders, Swap(s) PROVE Registered' /\ NoLostWakeup'
  \* The flag goes up: whoever is asleep is registered, and s will come to drain.
  BY <1>1 DEF Swap
<1>2. ASSUME NEW s \in Senders, LockWaiting(s) PROVE Registered' /\ NoLostWakeup'
  BY <1>2 DEF LockWaiting
<1>3. ASSUME NEW s \in Senders, Unlock(s) PROVE Registered' /\ NoLostWakeup'
  \* Nobody is left in the list, so nobody is asleep under a raised flag.
  BY <1>3 DEF Unlock
<1>4. ASSUME NEW s \in Senders, NEW r \in Receivers, NotifyOne(s, r)
      PROVE  Registered' /\ NoLostWakeup'
  <2>1. task'[r] \notin {"idle", "running"}
    BY <1>4 DEF NotifyOne, Woken
  <2>2. \A q \in Receivers \ {r} : task'[q] = task[q] /\ (q \in waiting' <=> q \in waiting)
    BY <1>4 DEF NotifyOne
  <2> QED
    BY <1>4, <2>1, <2>2 DEF NotifyOne
<1>5. ASSUME NEW r \in Receivers, Check(r) PROVE Registered' /\ NoLostWakeup'
  BY <1>5 DEF Check, Observe, GoTo, AfterReady
<1>6. ASSUME NEW r \in Receivers, Register(r) PROVE Registered' /\ NoLostWakeup'
  BY <1>6 DEF Register, GoTo
<1>7. ASSUME NEW r \in Receivers, Recheck(r) PROVE Registered' /\ NoLostWakeup'
  BY <1>7 DEF Recheck, Observe, GoTo, MayMiss
<1>8. ASSUME NEW r \in Receivers, Unregister(r) PROVE Registered' /\ NoLostWakeup'
  BY <1>8 DEF Unregister, GoTo, AfterReady
<1>9. ASSUME NEW r \in Receivers, Run(r) PROVE Registered' /\ NoLostWakeup'
  BY <1>9 DEF Run, GoTo
<1>10. ASSUME NEW r \in Receivers, Park(r) PROVE Registered' /\ NoLostWakeup'
  BY <1>10 DEF Park, GoTo
<1>11. ASSUME NEW r \in Receivers, FinishWork(r) PROVE Registered' /\ NoLostWakeup'
  BY <1>11 DEF FinishWork, GoTo
<1>12. ASSUME NEW r \in Receivers, OtherWakeUp(r) PROVE Registered' /\ NoLostWakeup'
  BY <1>12 DEF OtherWakeUp, Woken
<1>13. CASE UNCHANGED vars
  BY <1>13 DEF vars
<1> QED
  BY <1>1, <1>2, <1>3, <1>4, <1>5, <1>6, <1>7, <1>8, <1>9, <1>10, <1>11, <1>12, <1>13
  DEF Next, SenderStep, ReceiverStep, Poll

\* No wake-up is lost (signal.rs:69-111), for any number of senders and receivers.
THEOREM WakeupsAreNotLost == Spec => []NoLostWakeup
<1>1. Init => IInv
  BY InitInv
<1>2. IInv /\ [Next]_vars => IInv'
  BY NextInv
<1>3. IInv => NoLostWakeup
  BY DEF IInv
<1> QED
  BY <1>1, <1>2, <1>3, PTL DEF Spec

-----------------------------------------------------------------------------
\* The history of the abstract flag moves only when a check observes the flag.
LEMMA CompletedMoves ==
  ASSUME NEW r \in Receivers, NEW step \in PollSteps, rpc \in [Receivers -> PollSteps],
         UNCHANGED pulse, GoTo(r, step),
         rpc[r] \notin {"unregister", "done"}
  PROVE  Completed' = IF step \in {"unregister", "done"} /\ ~pulse
                      THEN Completed \union {r} ELSE Completed
BY DEF Completed, GoTo, PollSteps

LEMMA CompletedStays ==
  ASSUME NEW r \in Receivers, rpc \in [Receivers -> PollSteps], UNCHANGED pulse,
         GoTo(r, AfterReady),
         rpc[r] = "unregister"
  PROVE  Completed' = Completed
BY DEF Completed, GoTo, PollSteps, AfterReady

\* Each step of a poll or of signal() raises the abstract flag, takes it or leaves it.
LEMMA StepRefines ==
  ASSUME TypeOK, [Next]_vars
  PROVE  [Flag!Next]_(Flag!flagVars)
<1> USE DEF Flag!Next, Flag!flagVars
<1>t. /\ rpc \in [Receivers -> PollSteps]
      /\ signalled \in BOOLEAN
      /\ pulse \in BOOLEAN
  BY SignalAssumption DEF TypeOK
<1>s. \A step \in {"check", "register", "recheck", "unregister", "pending", "parked",
                   "work", "done"} : step \in PollSteps
  BY DEF PollSteps
<1>1. ASSUME NEW s \in Senders, Swap(s) PROVE Flag!Raise
  BY <1>1 DEF Swap, Flag!Raise, Completed
<1>2. ASSUME NEW r \in Receivers, NEW step \in {"unregister", AfterReady},
             UNCHANGED pulse, Observe, GoTo(r, step), rpc[r] \in {"check", "recheck"}
      PROVE  Flag!Take(r)
  <2>1. Completed' = IF pulse THEN Completed ELSE Completed \union {r}
    BY <1>2, <1>t, <1>s, CompletedMoves, ZenonT(60) DEF AfterReady, Completed
  <2>2. r \notin Completed
    BY <1>2 DEF Completed
  <2>3. signalled /\ signalled' = ~pulse
    BY <1>2 DEF Observe
  <2> QED
    BY <1>2, <1>t, <2>1, <2>2, <2>3 DEF Flag!Take
<1>3. ASSUME NEW r \in Receivers, UNCHANGED <<pulse, signalled>>,
             NEW step \in {"check", "register", "recheck", "pending", "parked"},
             GoTo(r, step), rpc[r] \notin {"unregister", "done"}
      PROVE  UNCHANGED Flag!flagVars
  BY <1>3, <1>t, <1>s, CompletedMoves
<1>4. ASSUME NEW r \in Receivers, Check(r) PROVE Flag!Take(r) \/ UNCHANGED Flag!flagVars
  BY <1>2, <1>3, <1>4 DEF Check
<1>5. ASSUME NEW r \in Receivers, Recheck(r) PROVE Flag!Take(r) \/ UNCHANGED Flag!flagVars
  BY <1>2, <1>3, <1>5 DEF Recheck
<1>6. ASSUME NEW r \in Receivers, Unregister(r) PROVE UNCHANGED Flag!flagVars
  BY <1>6, <1>t, CompletedStays DEF Unregister
<1>7. ASSUME NEW r \in Receivers, Register(r) \/ Run(r) \/ Park(r) \/ FinishWork(r)
      PROVE  UNCHANGED Flag!flagVars
  BY <1>3, <1>7 DEF Register, Run, Park, FinishWork
<1>8. ASSUME UNCHANGED <<pulse, signalled, rpc>> PROVE UNCHANGED Flag!flagVars
  BY <1>8 DEF Completed
<1>9. CASE UNCHANGED vars
  BY <1>8, <1>9 DEF vars
<1> QED
  BY <1>1, <1>4, <1>5, <1>6, <1>7, <1>8, <1>9
  DEF Next, SenderStep, ReceiverStep, Poll, LockWaiting, NotifyOne, Unlock, OtherWakeUp

\* Whatever signal.rs does, its users see a flag that is raised and taken: no receiver
\* completes before the flag went up, none completes twice, and only a pulse's receiver
\* lowers the flag.
THEOREM RefinesFlagSafety == Spec => Flag!Init /\ [][Flag!Next]_(Flag!flagVars)
<1>1. Init => Flag!Init
  <2> SUFFICES ASSUME Init PROVE Flag!Init
    OBVIOUS
  <2>1. pulse \in BOOLEAN /\ signalled = FALSE
    BY DEF Init
  <2>2. Completed = {}
    BY InitTasks DEF Completed
  <2> QED
    BY <2>1, <2>2 DEF Flag!Init
<1>2. TypeOK /\ [Next]_vars => [Flag!Next]_(Flag!flagVars)
  BY StepRefines
<1> QED
  BY <1>1, <1>2, TypeCorrect, PTL DEF Spec
=============================================================================
