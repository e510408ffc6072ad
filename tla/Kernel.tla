------------------------------- MODULE Kernel -------------------------------
(***************************************************************************)
(* Tasks, interrupts and the queues of FreeRTOS they meet at: queue.c over *)
(* the scheduler of module Scheduler, and the wrappers of arch/freertos    *)
(* through which the protocol stack calls it.                              *)
(*                                                                         *)
(* The running task moves in steps that end where interrupts are enabled   *)
(* again: each critical section of a call is a step, and between two steps *)
(* the tick or a device interrupt may come.  Interrupts do not switch      *)
(* tasks: configUSE_PREEMPTION is 0, and no handler of the repository asks *)
(* for it.                                                                 *)
(***************************************************************************)
EXTENDS Scheduler, FiniteSets

CONSTANTS
  Kind,         \* Kind[q]: "queue", "semaphore" (items of size 0) or "mutex"
  Length,       \* Length[q]: uxLength
  Item,         \* what tasks and interrupts send
  May,          \* May[t]: the calls task t makes: <<call, queue or task, ticks>>
  Started,      \* the tasks created before the scheduler starts
  DeviceSends,  \* queues that an interrupt sends to
  DeviceReads,  \* queues that an interrupt receives from
  IsrBound,     \* interrupts and ticks taken in while the scheduler is suspended
  Slack         \* how long a task may be kept waiting after its time is up

ASSUME KernelAssumption ==
  /\ Length \in [Queue -> Nat \ {0}]
  /\ Kind \in [Queue -> {"queue", "semaphore", "mutex"}]
  /\ \A q \in Queue : Kind[q] = "mutex" => Length[q] = 1
  /\ Slack \in Nat
  /\ \A t \in Task : \A m \in May[t] : m[3] = MaxDelay \/ m[3] \in 0..MaxDelay - Slack
  /\ IdleTask \in Started /\ Started \subseteq Task

VARIABLES
  kern,     \* the scheduler's static variables, and the event lists of the queues
  queue,    \* queue[q]: the rest of the xQUEUE
  call,     \* call[t]: the program point of task t and the locals of its call
  left      \* left[t]: ticks left of the time t asked for (history)

vars == <<kern, queue, call, left>>

queueUNLOCKED == -1
queueLOCKED_UNMODIFIED == 0

Ticks == {m[3] : m \in UNION {May[t] : t \in Task}}
Caller == Task \ {IdleTask}
NoCall == [pc |-> "run", then |-> None, op |-> None, q |-> None, ticks |-> 0,
           entryTimeSet |-> FALSE, since |-> [overflows |-> 0, tick |-> 0], item |-> None]

\* The task the scheduler starts with.
First == CHOOSE t \in Started : \A u \in Started : Priority[u] <= Priority[t]

Init ==
  /\ kern = [tick |-> 0, overflows |-> 0, pendedTicks |-> 0, nextUnblock |-> MaxDelay,
             suspended |-> 0, yieldPending |-> FALSE,
             current |-> First, top |-> Priority[First],
             ready |-> [p \in Level |-> SetToSeq({t \in Started : Priority[t] = p}) \o <<End>>],
             delayed |-> <<>>, overflowDelayed |-> <<>>, suspendedTasks |-> {},
             pendingReady |-> <<>>, waitingTermination |-> <<>>,
             senders |-> [q \in Queue |-> <<>>], receivers |-> [q \in Queue |-> <<>>],
             prio |-> Priority, basePrio |-> Priority, wake |-> [t \in Task |-> 0]]
  /\ queue = [q \in Queue |-> [buf |-> [i \in 0..Length[q] - 1 |-> None],
                               writeTo |-> 0, readFrom |-> Length[q] - 1,
                               waiting |-> IF Kind[q] = "queue" THEN 0 ELSE 1,
                               rxLock |-> queueUNLOCKED, txLock |-> queueUNLOCKED,
                               holder |-> None]]
  /\ call = [t \in Task |-> IF t \in Started THEN NoCall ELSE [NoCall EXCEPT !.pc = "absent"]]
  /\ left = [t \in Task |-> 0]

-----------------------------------------------------------------------------
(* The storage of a queue *)

prvCopyDataToQueue(q, Q, x, position) ==
  LET m == Length[q]
      counted == [Q EXCEPT !.waiting = @ + 1, !.holder = None]
  IN  IF Kind[q] # "queue" THEN counted
      ELSE IF position = "back"
           THEN [counted EXCEPT !.buf[Q.writeTo] = x, !.writeTo = (@ + 1) % m]
           ELSE [counted EXCEPT !.buf[Q.readFrom] = x, !.readFrom = (@ - 1) % m]

\* Mutant: the position is read before it moves.
ReadPosition_Before(q, Q) == Q.readFrom

\* The position prvCopyDataFromQueue reads, and leaves pcReadFrom at.
ReadPosition(q, Q) == IF Kind[q] = "queue" THEN (Q.readFrom + 1) % Length[q] ELSE Q.readFrom

\* The place of an item that was taken is never read again, and is cleared here.
Taken(q, Q, holder) ==
  [Q EXCEPT !.readFrom = ReadPosition(q, Q), !.waiting = @ - 1,
            !.buf[ReadPosition(q, Q)] = None,
            !.holder = IF Kind[q] = "mutex" THEN holder ELSE @]

Fits(q) == queue[q].waiting < Length[q]
IsEmpty(q) == queue[q].waiting = 0

\* The effect of giving back a mutex on its holder.
Disinherited(k, q) == IF Kind[q] = "mutex" THEN vTaskPriorityDisinherit(k, queue[q].holder) ELSE k

\* Wake the first task of an event list, if there is one, and yield to it if need be.
WakeAndYield(k, list) ==
  IF list = <<>> THEN k
  ELSE YieldIf(Outranks(k, Head(list)), xTaskRemoveFromEventList(k, Head(list)))

-----------------------------------------------------------------------------
(* One attempt of the running task t at the call c: the first critical section   *)
(* of xQueueGenericSend and xQueueGenericReceive                                 *)

\* Nothing to do yet: give up, or go on to block, noting the time at the first attempt.
NotYet(t, c) ==
  /\ IF c.ticks = 0
     THEN call' = [call EXCEPT ![t] = NoCall] /\ left' = [left EXCEPT ![t] = 0]
     ELSE /\ call' = [call EXCEPT ![t] =
               [c EXCEPT !.pc = "suspend", !.entryTimeSet = TRUE,
                         !.since = IF c.entryTimeSet THEN @ ELSE vTaskSetTimeOutState(kern)]]
          /\ left' = IF ~c.entryTimeSet /\ c.ticks # MaxDelay
                     THEN [left EXCEPT ![t] = c.ticks] ELSE left
  /\ UNCHANGED <<kern, queue>>

Done(t, c, x) ==
  /\ call' = [call EXCEPT ![t] = [NoCall EXCEPT !.op = c.op, !.q = c.q, !.item = x]]
  /\ left' = [left EXCEPT ![t] = 0]

AttemptSend(t, c, position) ==
  \/ /\ Fits(c.q)
     /\ LET k == Disinherited(kern, c.q) IN kern' = WakeAndYield(k, k.receivers[c.q])
     /\ queue' = [queue EXCEPT ![c.q] = prvCopyDataToQueue(c.q, @, c.item, position)]
     /\ Done(t, c, None)
  \/ ~Fits(c.q) /\ NotYet(t, c)

AttemptReceive(t, c) ==
  \/ /\ ~IsEmpty(c.q)
     /\ kern' = WakeAndYield(kern, kern.senders[c.q])
     /\ queue' = [queue EXCEPT ![c.q] = Taken(c.q, @, t)]
     /\ Done(t, c, queue[c.q].buf[ReadPosition(c.q, queue[c.q])])
  \/ IsEmpty(c.q) /\ NotYet(t, c)

AttemptPeek(t, c) ==
  \/ /\ ~IsEmpty(c.q)
     /\ kern' = WakeAndYield(kern, kern.receivers[c.q])
     /\ Done(t, c, queue[c.q].buf[ReadPosition(c.q, queue[c.q])])
     /\ UNCHANGED queue
  \/ IsEmpty(c.q) /\ NotYet(t, c)

Attempt(t, c) ==
  \/ c.op = "send" /\ AttemptSend(t, c, "back")
  \/ c.op = "sendFront" /\ AttemptSend(t, c, "front")
  \/ c.op = "receive" /\ AttemptReceive(t, c)
  \/ c.op = "peek" /\ AttemptPeek(t, c)

-----------------------------------------------------------------------------
(* What a task calls *)

Running(t, pc) == kern.current = t /\ call[t].pc = pc

Calls(t, op, q, ticks, x) ==
  /\ Running(t, "run")
  /\ <<op, q, ticks>> \in May[t]
  /\ Attempt(t, [NoCall EXCEPT !.op = op, !.q = q, !.ticks = ticks, !.item = x])

csp_queue_enqueue(t, q, x, ticks) == Kind[q] = "queue" /\ Calls(t, "send", q, ticks, x)

csp_queue_dequeue(t, q, ticks) == Kind[q] = "queue" /\ Calls(t, "receive", q, ticks, None)

xQueueSendToFront(t, q, x, ticks) == Kind[q] = "queue" /\ Calls(t, "sendFront", q, ticks, x)

xQueuePeek(t, q, ticks) == Kind[q] = "queue" /\ Calls(t, "peek", q, ticks, None)

\* Also csp_mutex_lock; no task locks a mutex it holds.
csp_bin_sem_wait(t, q, ticks) ==
  /\ Kind[q] # "queue" /\ queue[q].holder # t
  /\ Calls(t, "receive", q, ticks, None)

\* Also csp_mutex_unlock, which only the holder calls.
csp_bin_sem_post(t, q) ==
  /\ Kind[q] = "mutex" => queue[q].holder = t
  /\ Kind[q] # "queue"
  /\ Calls(t, "send", q, 0, None)

taskYIELD(t) ==
  /\ Running(t, "run") /\ <<"yield", None, 0>> \in May[t]
  /\ kern' = vTaskSwitchContext(kern)
  /\ call' = [call EXCEPT ![t] = NoCall]
  /\ UNCHANGED <<queue, left>>

vTaskDelay(t, ticks) ==
  /\ Running(t, "run") /\ <<"delay", None, ticks>> \in May[t]
  /\ kern' = DelayCurrent(vTaskSuspendAll(kern), ticks)
  /\ call' = [call EXCEPT ![t] =
                [NoCall EXCEPT !.pc = "resume", !.then = "yield", !.op = "delay", !.ticks = ticks]]
  /\ left' = [left EXCEPT ![t] = ticks]
  /\ UNCHANGED queue

\* xTaskGenericCreate; the memory for the task is there.
csp_thread_create(t, u) ==
  /\ Running(t, "run") /\ <<"create", u, 0>> \in May[t]
  /\ call[u].pc = "absent"
  /\ LET made == prvAddTaskToReadyList(
                   [kern EXCEPT !.prio[u] = Priority[u], !.basePrio[u] = Priority[u],
                                !.wake[u] = 0], u)
     IN  kern' = YieldIf(kern.prio[t] < Priority[u], made)
  /\ call' = [call EXCEPT ![u] = NoCall, ![t] = NoCall]
  /\ UNCHANGED <<queue, left>>

\* A task deletes itself (csp_thread_exit), or another that waits for no queue; neither
\* holds a mutex.
vTaskDelete(t, u) ==
  /\ Running(t, "run") /\ <<"delete", u, 0>> \in May[t]
  /\ call[u].pc # "absent" /\ call[u].pc # "deleted"
  /\ call[u].pc = "run" \/ call[u].op = "delay"
  /\ \A q \in Queue : queue[q].holder # u
  /\ LET gone == [RemoveGenericItem(RemoveEventItem(kern, u), u)
                    EXCEPT !.waitingTermination = Append(@, u)]
     IN  kern' = YieldIf(u = t, gone)
  /\ call' = [call EXCEPT ![t] = NoCall, ![u] = [NoCall EXCEPT !.pc = "deleted"]]
  /\ left' = [left EXCEPT ![u] = 0]
  /\ UNCHANGED queue

-----------------------------------------------------------------------------
(* The way a call goes to sleep, and on *)

GoTo(t, pc) == call' = [call EXCEPT ![t].pc = pc]

Retry(t) == Running(t, "try") /\ Attempt(t, call[t])

Suspend(t) ==
  /\ Running(t, "suspend") /\ GoTo(t, "lock")
  /\ kern' = vTaskSuspendAll(kern)
  /\ UNCHANGED <<queue, left>>

prvLockQueue(t) ==
  /\ Running(t, "lock") /\ GoTo(t, "check")
  /\ queue' = [queue EXCEPT
       ![call[t].q].rxLock = IF @ = queueUNLOCKED THEN queueLOCKED_UNMODIFIED ELSE @,
       ![call[t].q].txLock = IF @ = queueUNLOCKED THEN queueLOCKED_UNMODIFIED ELSE @]
  /\ UNCHANGED <<kern, left>>

Sends(t) == call[t].op \in {"send", "sendFront"}

\* Mutant: the queue is not looked at again once it is locked.
MustWait_Not(t) == TRUE

MustWait(t) == IF Sends(t) THEN ~Fits(call[t].q) ELSE IsEmpty(call[t].q)

\* xTaskCheckForTimeOut, which also counts the time gone by, and prvIsQueueFull or
\* prvIsQueueEmpty.
Check(t) ==
  LET c == call[t] IN
  /\ Running(t, "check")
  /\ call' = [call EXCEPT ![t] =
       IF xTaskCheckForTimeOut(kern, c.since, c.ticks)
       THEN [c EXCEPT !.pc = "unlockTx", !.then = "fail"]
       ELSE [c EXCEPT !.ticks = IF @ = MaxDelay THEN @ ELSE @ - Elapsed(kern, c.since),
                      !.since = IF c.ticks = MaxDelay THEN @ ELSE vTaskSetTimeOutState(kern),
                      !.pc = IF MustWait(t) THEN "place" ELSE "unlockTx",
                      !.then = IF MustWait(t) THEN "yield" ELSE "try"]]
  /\ UNCHANGED <<kern, queue, left>>

\* vTaskPriorityInherit for a mutex, and vTaskPlaceOnEventList.
Place(t) ==
  LET q == call[t].q
      k == IF Kind[q] = "mutex" THEN vTaskPriorityInherit(kern, queue[q].holder) ELSE kern
      placed == IF Sends(t) THEN [k EXCEPT !.senders[q] = ByPriority(k, @)]
                ELSE [k EXCEPT !.receivers[q] = ByPriority(k, @)]
  IN  /\ Running(t, "place") /\ GoTo(t, "unlockTx")
      /\ kern' = BlockCurrent(placed, call[t].ticks)
      /\ UNCHANGED <<queue, left>>

\* prvUnlockQueue wakes a waiting task for every item that came while the queue was locked...
WakeEach(k, list) == FoldLeft(xTaskRemoveFromEventList, k, list)

WakeUpTo(k, n, list) ==
  WakeEach(k, SubSeq(list, 1, IF n < Len(list) THEN n ELSE Len(list)))

Unlock(t) ==
  LET q == call[t].q IN
  /\ Running(t, "unlockTx") /\ GoTo(t, "unlockRx")
  /\ kern' = WakeUpTo(kern, queue[q].txLock, kern.receivers[q])
  /\ queue' = [queue EXCEPT ![q].txLock = queueUNLOCKED]
  /\ UNCHANGED left

\* ... and, in a second critical section, for every item taken out.
UnlockRx(t) ==
  LET q == call[t].q IN
  /\ Running(t, "unlockRx") /\ GoTo(t, "resume")
  /\ kern' = WakeUpTo(kern, queue[q].rxLock, kern.senders[q])
  /\ queue' = [queue EXCEPT ![q].rxLock = queueUNLOCKED]
  /\ UNCHANGED left

AfterYield(t) == IF call[t].op = "delay" THEN "delayed" ELSE "try"

\* xTaskResumeAll; a task that has gone to sleep yields unless that has already been done.
Resume(t) ==
  LET c == call[t] IN
  /\ Running(t, "resume")
  /\ kern' = xTaskResumeAll(kern)
  /\ \/ /\ c.then = "fail"
        /\ call' = [call EXCEPT ![t] = NoCall]
        /\ left' = [left EXCEPT ![t] = 0]
     \/ /\ c.then = "try"
        /\ GoTo(t, "try")
        /\ UNCHANGED left
     \/ /\ c.then = "yield"
        /\ GoTo(t, IF Resumed(kern).yieldPending THEN AfterYield(t) ELSE "yield")
        /\ UNCHANGED left
  /\ UNCHANGED queue

Yield(t) ==
  /\ Running(t, "yield") /\ GoTo(t, AfterYield(t))
  /\ kern' = vTaskSwitchContext(kern)
  /\ UNCHANGED <<queue, left>>

\* The task runs again after vTaskDelay, and its call ends.
Delayed(t) ==
  /\ Running(t, "delayed")
  /\ call' = [call EXCEPT ![t] = NoCall]
  /\ left' = [left EXCEPT ![t] = 0]
  /\ UNCHANGED <<kern, queue>>

-----------------------------------------------------------------------------
(* The idle task *)

Idle ==
  /\ Running(IdleTask, "run") /\ kern.waitingTermination = <<>>
  /\ kern' = vTaskSwitchContext(kern)
  /\ UNCHANGED <<queue, call, left>>

IdleSuspend ==
  /\ Running(IdleTask, "run") /\ kern.waitingTermination # <<>>
  /\ kern' = vTaskSuspendAll(kern)
  /\ GoTo(IdleTask, "idleResume")
  /\ UNCHANGED <<queue, left>>

IdleResume ==
  /\ Running(IdleTask, "idleResume") /\ GoTo(IdleTask, "reap")
  /\ kern' = xTaskResumeAll(kern)
  /\ UNCHANGED <<queue, left>>

\* prvCheckTasksWaitingTermination: the memory of a deleted task is free again.
Reap ==
  /\ Running(IdleTask, "reap")
  /\ kern' = [kern EXCEPT !.waitingTermination = Tail(@)]
  /\ call' = [call EXCEPT ![IdleTask] = NoCall,
                          ![Head(kern.waitingTermination)] = [NoCall EXCEPT !.pc = "absent"]]
  /\ UNCHANGED <<queue, left>>

-----------------------------------------------------------------------------
(* Interrupts *)

Waiting(t) == call[t].pc \notin {"run", "absent", "deleted"}
Timed(t) == t # IdleTask /\ Waiting(t) /\ call[t].ticks # MaxDelay

\* The tick.  No task is kept from the processor until the counter has gone round: Slack.
\* While the scheduler is suspended a tick is only counted, and xTaskResumeAll is the first
\* to look at the count: the ticks of the suspension come just before it.
vPortTickISR ==
  /\ kern.suspended > 0 => /\ call[kern.current].pc \in {"resume", "idleResume"}
                           /\ kern.pendedTicks < IsrBound
  /\ \A t \in Task : left[t] > -Slack
  /\ kern' = xTaskIncrementTick(kern)
  /\ left' = [t \in Task |-> IF Timed(t) THEN left[t] - 1 ELSE left[t]]
  /\ UNCHANGED <<queue, call>>

WakeFromISR(list) ==
  kern' = IF list = <<>> THEN kern ELSE xTaskRemoveFromEventList(kern, Head(list))

SendFromISR(q, x) ==
  LET Q == queue[q] IN
  /\ q \in DeviceSends /\ Fits(q)
  /\ \/ /\ Q.txLock = queueUNLOCKED
        /\ queue' = [queue EXCEPT ![q] = prvCopyDataToQueue(q, @, x, "back")]
        /\ WakeFromISR(kern.receivers[q])
     \/ /\ Q.txLock # queueUNLOCKED /\ Q.txLock < IsrBound
        /\ queue' = [queue EXCEPT ![q] = [prvCopyDataToQueue(q, Q, x, "back")
                                            EXCEPT !.txLock = @ + 1]]
        /\ UNCHANGED kern
  /\ UNCHANGED <<call, left>>

ReceiveFromISR(q) ==
  LET Q == queue[q] IN
  /\ q \in DeviceReads /\ ~IsEmpty(q)
  /\ \/ /\ Q.rxLock = queueUNLOCKED
        /\ queue' = [queue EXCEPT ![q] = Taken(q, @, None)]
        /\ WakeFromISR(kern.senders[q])
     \/ /\ Q.rxLock # queueUNLOCKED /\ Q.rxLock < IsrBound
        /\ queue' = [queue EXCEPT ![q] = [Taken(q, Q, None) EXCEPT !.rxLock = @ + 1]]
        /\ UNCHANGED kern
  /\ UNCHANGED <<call, left>>

-----------------------------------------------------------------------------
UserCall(t) ==
  \/ \E q \in Queue, ticks \in Ticks, x \in Item :
       csp_queue_enqueue(t, q, x, ticks) \/ xQueueSendToFront(t, q, x, ticks)
  \/ \E q \in Queue, ticks \in Ticks :
       \/ csp_queue_dequeue(t, q, ticks) \/ xQueuePeek(t, q, ticks)
       \/ csp_bin_sem_wait(t, q, ticks)
  \/ \E q \in Queue : csp_bin_sem_post(t, q)
  \/ \E ticks \in Ticks : vTaskDelay(t, ticks)
  \/ taskYIELD(t)
  \/ \E u \in Caller : csp_thread_create(t, u) \/ vTaskDelete(t, u)

InCall(t) ==
  \/ Retry(t) \/ Suspend(t) \/ prvLockQueue(t) \/ Check(t) \/ Place(t)
  \/ Unlock(t) \/ UnlockRx(t) \/ Resume(t) \/ Yield(t) \/ Delayed(t)

TaskStep(t) == UserCall(t) \/ InCall(t)

IdleStep == Idle \/ IdleSuspend \/ IdleResume \/ Reap

Interrupt ==
  \/ vPortTickISR
  \/ \E q \in Queue : ReceiveFromISR(q) \/ \E x \in Item : SendFromISR(q, x)

Next ==
  \/ \E t \in Caller : TaskStep(t)
  \/ IdleStep
  \/ Interrupt

Spec == Init /\ [][Next]_vars

-----------------------------------------------------------------------------
(* Properties *)

TaskOrNone == Task \cup {None}
Pc == {"run", "try", "suspend", "lock", "check", "place", "unlockTx", "unlockRx", "resume",
       "yield", "delayed", "idleResume", "reap", "absent", "deleted"}

\* Every member of the scheduler's variables, of the queues and of the calls keeps its type.
TypeOK ==
  /\ kern.tick \in 0..MaxDelay /\ kern.overflows \in 0..OverflowMod - 1
  /\ kern.nextUnblock \in 0..MaxDelay /\ kern.suspended \in 0..1
  /\ kern.current \in Task /\ kern.top \in Level
  /\ \A q \in Queue : /\ queue[q].waiting \in 0..Length[q]
                      /\ queue[q].writeTo \in 0..Length[q] - 1
                      /\ queue[q].readFrom \in 0..Length[q] - 1
                      /\ queue[q].holder \in TaskOrNone
  /\ call \in [Task -> [pc : Pc, then : {None, "try", "fail", "yield"},
                        op : {None, "send", "sendFront", "receive", "peek", "delay"},
                        q : Queue \cup {None}, ticks : 0..MaxDelay,
                        entryTimeSet : BOOLEAN,
                        since : [overflows : 0..OverflowMod - 1, tick : 0..MaxDelay],
                        item : Item \cup {None}]]
  /\ left \in [Task -> -Slack..MaxDelay]

\* Every member keeps its type.  The list that a task is in, if any, is the one for its
\* state: ready at its present priority, delayed, suspended, or waiting for the idle task to
\* free it; it waits at one queue at most, and at none once it is ready again.  A task in
\* two lists corrupts both, since its one list item links them.
OnePlace ==
  LET Times(l, t) == Cardinality({i \in 1..Len(l) : l[i] = t})
      Places(t) == (IF t \in kern.suspendedTasks THEN 1 ELSE 0)
                   + Times(kern.delayed \o kern.overflowDelayed \o kern.waitingTermination
                           \o kern.ready[kern.prio[t]], t)
      Events(t) == Cardinality({q \in Queue : Contains(kern.senders[q], t)})
                   + Cardinality({q \in Queue : Contains(kern.receivers[q], t)})
                   + Times(kern.pendingReady, t)
  IN  TypeOK /\ \A t \in Task :
        /\ Places(t) = IF call[t].pc = "absent" THEN 0 ELSE 1
        /\ Events(t) <= 1
        /\ \A p \in Level \ {kern.prio[t]} : ~Contains(kern.ready[p], t)
        /\ Contains(kern.ready[kern.prio[t]], t) => Events(t) = 0

\* Tasks that sleep in no event list and will attempt their call on q again before they
\* look at the clock.
Retriers(q, ops) ==
  {t \in Task : /\ call[t].q = q /\ call[t].op \in ops
                /\ call[t].pc \in {"try", "unlockTx", "unlockRx", "resume", "yield"}
                /\ call[t].then # "fail"
                /\ ~Contains(kern.senders[q], t) /\ ~Contains(kern.receivers[q], t)}

Pending(lock) == IF lock = queueUNLOCKED THEN 0 ELSE lock

\* While a task sleeps for an item, every item in the queue has a task that was woken for it
\* and will come for it, or will wake one when the queue is unlocked; and so for room.  It
\* could be lost between the test for an empty queue and the sleep, where interrupts send
\* to a locked queue, or between the two halves of prvUnlockQueue.
NoLostWakeup ==
  \A q \in Queue :
    /\ kern.receivers[q] # <<>> =>
         queue[q].waiting <= Cardinality(Retriers(q, {"receive", "peek"}))
                             + Pending(queue[q].txLock)
    /\ kern.senders[q] # <<>> =>
         Length[q] - queue[q].waiting <= Cardinality(Retriers(q, {"send", "sendFront"}))
                                         + Pending(queue[q].rxLock)

TicksToWake(t) ==
  IF Contains(kern.delayed, t) THEN kern.wake[t] - kern.tick
  ELSE kern.wake[t] + TickMod - kern.tick

\* The delayed lists are in order, xNextTaskUnblockTime does not hide the head, and the
\* current list is empty when the counter goes round, as taskSWITCH_DELAYED_LISTS asserts.
DelayedInOrder ==
  /\ \A l \in {kern.delayed, kern.overflowDelayed} :
       \A i \in 1..Len(l) - 1 : kern.wake[l[i]] <= kern.wake[l[i + 1]]
  /\ kern.delayed # <<>> => /\ kern.nextUnblock <= kern.wake[Head(kern.delayed)]
                            /\ kern.wake[Head(kern.delayed)] > kern.tick

\* A task in a delayed list is woken when its time is up by the real clock, not a tick
\* earlier or later, whatever was interrupted, however often it was woken in between, and
\* when the tick counter goes round; no call fails for time before its time is up; and the
\* delayed lists are what the tick interrupt takes them for.
SleepsToTheTick ==
  /\ DelayedInOrder
  /\ \A t \in Task :
       /\ Contains(kern.delayed, t) \/ Contains(kern.overflowDelayed, t) =>
            TicksToWake(t) = left[t] + kern.pendedTicks
       /\ call[t].then = "fail" => left[t] <= 0

\* A task that gets the processor has the highest priority of all that are ready.
RunsHighest ==
  [][kern'.current # kern.current =>
       \A p \in Level : p > kern'.prio[kern'.current] => kern'.ready[p] = <<End>>]_vars

-----------------------------------------------------------------------------
(* Priority inheritance *)

Mutexes == {m \in Queue : Kind[m] = "mutex"}

\* A raised priority ends with the mutex it was raised for.
RaisedOnlyByMutex ==
  \A t \in Task : kern.prio[t] # kern.basePrio[t] =>
    /\ kern.prio[t] > kern.basePrio[t]
    /\ \E m \in Mutexes : queue[m].holder = t

\* While a task sleeps for a mutex, the holder has at least its priority, so that no task
\* between the two keeps the holder, and the waiting task, from the processor; and no task
\* has more than its own priority for any other reason.
Inherited ==
  /\ \A m \in Mutexes : queue[m].holder # None =>
       \A i \in 1..Len(kern.receivers[m]) :
         kern.prio[queue[m].holder] >= kern.prio[kern.receivers[m][i]]
  /\ RaisedOnlyByMutex

CanYield == {t \in Caller : <<"yield", None, 0>> \in May[t]}

\* The processor does not stop within a call; tasks cooperate, each yields or blocks again
\* and again; a mutex whose holder keeps making calls is given back; and time goes on.
Fairness ==
  /\ \A t \in Task : []<>(kern.current # t \/ call[t].pc = "run")
  /\ \A t \in CanYield : SF_vars(taskYIELD(t))
  /\ \A t \in Caller \ CanYield : []<>~Running(t, "run")
  /\ \A m \in Mutexes : \/ <>[]~(\E t \in Caller : Running(t, "run") /\ queue[m].holder = t)
                         \/ []<>(queue[m].holder = None)
  /\ WF_vars(Idle \/ IdleSuspend)
  /\ []<>(kern.tick = 0) /\ []<>(kern.tick # 0)

FairSpec == Spec /\ Fairness

WaitsFor(t, m) == Waiting(t) /\ call[t].op = "receive" /\ call[t].q = m

Highest == {t \in Caller : \A u \in Task \ {t} : Priority[u] < Priority[t]}

\* The task of the highest priority gets a mutex it waits for, or its time is up, though
\* tasks of a middle priority never block.
HighestGetsMutex ==
  \A t \in Highest, m \in Mutexes : WaitsFor(t, m) ~> ~WaitsFor(t, m)

=============================================================================
