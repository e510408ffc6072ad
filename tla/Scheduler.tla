------------------------------ MODULE Scheduler ------------------------------
(***************************************************************************)
(* The scheduler of FreeRTOS as the board's FreeRTOSConfig.h builds it     *)
(* (cooperative, mutexes on): the lists of list.c and the functions of     *)
(* tasks.c that move tasks between them, as operators on a record k of the *)
(* kernel's static variables.                                              *)
(*                                                                         *)
(* A circular list whose pxIndex moves (the ready lists) is the sequence   *)
(* that starts after pxIndex and ends with it; End stands for the list's   *)
(* end marker.  All other lists keep pxIndex at the end marker and are     *)
(* plain sequences.                                                        *)
(***************************************************************************)
EXTENDS Integers, Sequences, SequencesExt

CONSTANTS
  Task,         \* every task, the idle task and those not yet created included
  IdleTask,     \* the idle task
  Priority,     \* Priority[t]: the priority a task is created with
  Queue,        \* queues, semaphores and mutexes
  TickMod,      \* xTickCount counts modulo TickMod (2^32)
  OverflowMod   \* xNumOfOverflows counts modulo OverflowMod (2^32)

ASSUME SchedulerAssumption ==
  /\ IsFiniteSet(Task) /\ IdleTask \in Task
  /\ Priority \in [Task -> Nat]
  /\ Priority[IdleTask] = 0
  /\ TickMod \in Nat /\ TickMod > 2
  /\ OverflowMod \in Nat /\ OverflowMod > 1

End == "xListEnd"
None == "NULL"

ASSUME MarkersAssumption == End \notin Task /\ None \notin Task

MaxDelay == TickMod - 1         \* portMAX_DELAY
Level == {Priority[t] : t \in Task}

-----------------------------------------------------------------------------
(* list.c *)

\* Before pxIndex, that is, last in turn.
vListInsertEnd(l, t) == Front(l) \o <<t, Last(l)>>

\* How many elements at the head of s satisfy P.
Leading(s, P(_)) ==
  CHOOSE n \in 0..Len(s) :
    /\ \A i \in 1..n : P(s[i])
    /\ n < Len(s) => ~P(s[n + 1])

\* After all elements whose value is not greater: equal values in order of arrival.
vListInsert(s, t, value(_)) ==
  InsertAt(s, Leading(s, LAMBDA u : value(u) <= value(t)) + 1, t)

\* pxIndex moves to the next entry, over the end marker.
NextEntry(l) ==
  LET turned == Append(Tail(l), Head(l))
  IN  IF Last(turned) = End THEN Append(Tail(turned), Head(turned)) ELSE turned

-----------------------------------------------------------------------------
(* tasks.c: ready lists and the choice of the next task *)

\* Mutant: uxTopReadyPriority is not raised.
prvAddTaskToReadyList_NoTop(k, t) == [k EXCEPT !.ready[k.prio[t]] = vListInsertEnd(@, t)]

\* Mutant: uxTopReadyPriority is set to a priority that may be lower.
prvAddTaskToReadyList_Lower(k, t) ==
  [k EXCEPT !.top = k.prio[t], !.ready[k.prio[t]] = vListInsertEnd(@, t)]

prvAddTaskToReadyList(k, t) ==
  [k EXCEPT !.top = IF k.prio[t] > @ THEN k.prio[t] ELSE @,
            !.ready[k.prio[t]] = vListInsertEnd(@, t)]

Outranks(k, t) == k.prio[t] >= k.prio[k.current]

\* The highest level with a ready task, searched from uxTopReadyPriority down.
taskSELECT_HIGHEST_PRIORITY_TASK(k) ==
  LET top == CHOOSE p \in Level : /\ p <= k.top /\ k.ready[p] # <<End>>
                                  /\ \A r \in Level : r > p /\ r <= k.top => k.ready[r] = <<End>>
      turned == NextEntry(k.ready[top])
  IN  [k EXCEPT !.top = top, !.ready[top] = turned, !.current = Last(turned)]

vTaskSwitchContext(k) ==
  IF k.suspended > 0
  THEN [k EXCEPT !.yieldPending = TRUE]
  ELSE taskSELECT_HIGHEST_PRIORITY_TASK([k EXCEPT !.yieldPending = FALSE])

YieldIf(cond, k) == IF cond THEN vTaskSwitchContext(k) ELSE k

\* uxListRemove of a task's generic list item, from the state list that holds it.  Its
\* value counts only in the delayed lists, and is 0 elsewhere.
RemoveGenericItem(k, t) ==
  [k EXCEPT !.ready = [p \in Level |-> RemoveFirst(@[p], t)],
            !.delayed = RemoveFirst(@, t),
            !.overflowDelayed = RemoveFirst(@, t),
            !.suspendedTasks = @ \ {t},
            !.wake[t] = 0]

\* uxListRemove of its event list item, when it is in a list.
RemoveEventItem(k, t) ==
  [k EXCEPT !.senders = [q \in Queue |-> RemoveFirst(@[q], t)],
            !.receivers = [q \in Queue |-> RemoveFirst(@[q], t)],
            !.pendingReady = RemoveFirst(@, t)]

\* Mutant: a task whose time is up stays in the list of the queue it waited for.
MakeReady_KeepEvent(k, t) == prvAddTaskToReadyList(RemoveGenericItem(k, t), t)

MakeReady(k, t) ==
  prvAddTaskToReadyList(RemoveGenericItem(RemoveEventItem(k, t), t), t)

-----------------------------------------------------------------------------
(* tasks.c: time *)

taskSWITCH_DELAYED_LISTS(k) ==
  [k EXCEPT !.delayed = k.overflowDelayed,
            !.overflowDelayed = k.delayed,
            !.overflows = (@ + 1) % OverflowMod,
            !.nextUnblock = IF k.overflowDelayed = <<>> THEN MaxDelay
                            ELSE k.wake[Head(k.overflowDelayed)]]

\* The loop of xTaskIncrementTick over the head of the delayed list.
EachReady(k, list) == FoldLeft(MakeReady, k, list)

UnblockDue(k) ==
  LET due  == Leading(k.delayed, LAMBDA t : k.wake[t] <= k.tick)
      woke == EachReady(k, SubSeq(k.delayed, 1, due))
  IN  [woke EXCEPT !.nextUnblock = IF woke.delayed = <<>> THEN MaxDelay
                                   ELSE woke.wake[Head(woke.delayed)]]

xTaskIncrementTick(k) ==
  IF k.suspended > 0
  THEN [k EXCEPT !.pendedTicks = @ + 1]
  ELSE LET counted  == [k EXCEPT !.tick = (@ + 1) % TickMod]
           switched == IF counted.tick = 0 THEN taskSWITCH_DELAYED_LISTS(counted) ELSE counted
       IN  IF switched.tick >= switched.nextUnblock THEN UnblockDue(switched) ELSE switched

ByWake(k, list, t) == vListInsert(list, t, LAMBDA u : k.wake[u])

\* Mutant: xNextTaskUnblockTime is not brought forward.
prvAddCurrentTaskToDelayedList_Quiet(k, timeToWake) ==
  LET t == k.current
      w == [k EXCEPT !.wake[t] = timeToWake]
  IN  IF timeToWake < k.tick
      THEN [w EXCEPT !.overflowDelayed = ByWake(w, @, t)]
      ELSE [w EXCEPT !.delayed = ByWake(w, @, t)]

prvAddCurrentTaskToDelayedList(k, timeToWake) ==
  LET t == k.current
      w == [k EXCEPT !.wake[t] = timeToWake]
  IN  IF timeToWake < k.tick
      THEN [w EXCEPT !.overflowDelayed = ByWake(w, @, t)]
      ELSE [w EXCEPT !.delayed = ByWake(w, @, t),
                     !.nextUnblock = IF timeToWake < @ THEN timeToWake ELSE @]

\* The running task leaves its ready list and sleeps for the given ticks.
DelayCurrent(k, ticks) ==
  prvAddCurrentTaskToDelayedList(RemoveGenericItem(k, k.current), (k.tick + ticks) % TickMod)

SuspendCurrent(k) ==
  [RemoveGenericItem(k, k.current) EXCEPT !.suspendedTasks = @ \cup {k.current}]

\* vTaskPlaceOnEventList, after the event item has gone into the event list.
BlockCurrent(k, ticks) == IF ticks = MaxDelay THEN SuspendCurrent(k) ELSE DelayCurrent(k, ticks)

ByPriority(k, list) == vListInsert(list, k.current, LAMBDA t : -k.prio[t])

vTaskSetTimeOutState(k) == [overflows |-> k.overflows, tick |-> k.tick]

\* Mutant: the tick counter is compared as if it did not go round.
Elapsed_NoWrap(k, since) == IF k.tick >= since.tick THEN k.tick - since.tick ELSE 0

Elapsed(k, since) == (k.tick - since.tick) % TickMod

xTaskCheckForTimeOut(k, since, ticks) ==
  /\ ticks # MaxDelay
  /\ \/ k.overflows # since.overflows /\ k.tick >= since.tick
     \/ Elapsed(k, since) >= ticks

-----------------------------------------------------------------------------
(* tasks.c: suspending the scheduler and waking tasks *)

vTaskSuspendAll(k) == [k EXCEPT !.suspended = @ + 1]

\* Its two loops: over the tasks that became ready, and over the ticks.
PendedReady(k) ==
  LET ready(j, t) == [MakeReady(j, t) EXCEPT !.yieldPending = @ \/ Outranks(j, t)]
  IN  FoldLeft(ready, k, k.pendingReady)

PendedTicks(k) ==
  LET tick(j, i) == [xTaskIncrementTick(j) EXCEPT !.pendedTicks = @ - 1]
  IN  FoldLeft(tick, k, [i \in 1..k.pendedTicks |-> i])

\* The state xTaskResumeAll reaches before it yields, if yieldPending is then set.
Resumed(k) == PendedTicks(PendedReady([k EXCEPT !.suspended = @ - 1]))

\* xTaskResumeAll outside of a nested suspension, which the queues never make.
xTaskResumeAll(k) ==
  LET r == Resumed(k) IN YieldIf(r.yieldPending, r)

\* xTaskRemoveFromEventList for the head t of an event list.
xTaskRemoveFromEventList(k, t) ==
  LET removed == RemoveEventItem(k, t)
      woken   == IF k.suspended = 0 THEN MakeReady(removed, t)
                 ELSE [removed EXCEPT !.pendingReady = Append(@, t)]
  IN  [woken EXCEPT !.yieldPending = @ \/ Outranks(k, t)]

-----------------------------------------------------------------------------
(* tasks.c: priority inheritance *)

\* Mutant: no inheritance.
vTaskPriorityInherit_Not(k, holder) == k

\* Mutant: the priority of the holder is raised, but not its ready list changed.
vTaskPriorityInherit_InPlace(k, holder) ==
  IF holder = None THEN k
  ELSE [k EXCEPT !.prio[holder] = IF @ >= k.prio[k.current] THEN @ ELSE k.prio[k.current]]

\* The holder of a mutex runs with the priority of the task about to wait for it.
vTaskPriorityInherit(k, holder) ==
  IF holder = None THEN k
  ELSE IF k.prio[holder] >= k.prio[k.current] THEN k
  ELSE LET raised == [k EXCEPT !.prio[holder] = k.prio[k.current]]
       IN  IF Contains(k.ready[k.prio[holder]], holder)
           THEN prvAddTaskToReadyList(RemoveGenericItem(raised, holder), holder)
           ELSE raised

\* Mutant: the priority is never given back.
vTaskPriorityDisinherit_Not(k, holder) == k

vTaskPriorityDisinherit(k, holder) ==
  IF holder = None THEN k
  ELSE IF k.prio[holder] = k.basePrio[holder] THEN k
  ELSE prvAddTaskToReadyList(
         [RemoveGenericItem(k, holder) EXCEPT !.prio[holder] = k.basePrio[holder]], holder)

=============================================================================
