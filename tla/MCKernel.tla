------------------------------ MODULE MCKernel ------------------------------
(* Model-checking instances of Kernel. *)
EXTENDS KernelQueue

CONSTANTS a, b, idle, high, middle, low, mutex, mail

Tasks == {a, b, idle}
Priorities == [t \in Tasks |-> CASE t = a -> 2 [] t = b -> 1 [] t = idle -> 0]
QueueKind == (fifo :> "queue")
QueueLength == (fifo :> 2)
Forever == 3
Program ==
  (a :> {<<"receive", fifo, 2>>, <<"peek", fifo, 0>>})
  @@ (b :> {<<"send", fifo, Forever>>, <<"sendFront", fifo, 0>>, <<"receive", fifo, Forever>>})
  @@ (idle :> {})

\* No action and no property tells the items apart.
Interchangeable == Permutations(Item)

-----------------------------------------------------------------------------
(* Three tasks and a mutex *)

MutexTasks == {high, middle, low, idle}
MutexPriorities ==
  (high :> 3) @@ (middle :> 2) @@ (low :> 1) @@ (idle :> 0)
MutexKind == (mutex :> "mutex") @@ (mail :> "queue")
MutexLength == (mutex :> 1) @@ (mail :> 1)
MutexProgram ==
  (high :> {<<"receive", mutex, Forever>>, <<"send", mutex, 0>>,
            <<"delete", high, 0>>})
  @@ (middle :> {<<"yield", None, 0>>, <<"send", mail, Forever>>})
  @@ (low :> {<<"receive", mutex, 2>>, <<"send", mutex, 0>>, <<"delay", None, 2>>,
              <<"create", high, 0>>})
  @@ (idle :> {})

=============================================================================
