--------------------------- MODULE I2CDirectorProofs ---------------------------
(***************************************************************************)
(* Proofs about I2CDirector, for every number of requests.                 *)
(*                                                                         *)
(* TransferAsked is not inductive: a state may have as many transfers as   *)
(* requests and still be about to transfer.  Credit excludes it: a request *)
(* that stands has not been spent, except on the transfer in progress.     *)
(***************************************************************************)
EXTENDS I2CDirector, TLAPS

\* A standing request is unspent, and a transfer is due only for one.
Credit ==
    /\ requested = MASTER /\ pc # "transfer" => transfers < asked
    /\ pc = "mode" /\ current = MASTER /\ master => requested = MASTER

IInv == TypeOK /\ DriverMatches /\ TransferAsked /\ Credit

\* The initial states, also the one that hangs at once.
LEMMA InitIInv == Init => IInv
<1> SUFFICES ASSUME Init PROVE IInv
  OBVIOUS
<1>1. 0 \in 0 .. MaxRequests
  BY DirectorAssumption
<1>2. pc \in {"check", "hung"}
  BY Zenon DEF Init
<1>3. TypeOK
  BY <1>1, <1>2, Zenon DEF Init, TypeOK, Points
<1>4. DriverMatches
  <2>1. ~master
    BY Zenon DEF Init
  <2>2. pc # "read" /\ pc # "transfer"
    BY <1>2
  <2>3. QED
    BY <2>1, <2>2, Zenon DEF DriverMatches
<1>5. TransferAsked
  BY DEF Init, TransferAsked
<1>6. Credit
  <2>1. requested # MASTER /\ pc # "mode"
    BY <1>2 DEF Init, MASTER, SLAVE
  <2>2. QED
    BY <2>1, Zenon DEF Credit
<1>7. QED
  BY <1>3, <1>4, <1>5, <1>6 DEF IInv

\* Entering a mode, from the top of the loop without a switch or from the yield
\* after one.
LEMMA EnterModeIInv ==
  ASSUME IInv, EnterMode, pc \in {"check", "mode"}, pc = "check" => requested = current
  PROVE  IInv'
<1>1. CASE current = SLAVE
  BY <1>1, DirectorAssumption DEF EnterMode, IInv, TypeOK, DriverMatches, TransferAsked,
     Credit, MASTER, SLAVE, Points
<1>2. CASE current = MASTER /\ master
  <2>1. requested = MASTER /\ transfers < asked
    BY <1>2 DEF IInv, Credit
  <2>2. QED
    BY <1>2, <2>1, DirectorAssumption DEF EnterMode, IInv, TypeOK, DriverMatches,
       TransferAsked, Credit, MASTER, SLAVE, Points
<1>3. CASE current = MASTER /\ ~master
  BY <1>3, DirectorAssumption DEF EnterMode, IInv, TypeOK, DriverMatches, TransferAsked,
     Credit, MASTER, SLAVE, Points
<1>4. QED
  BY <1>1, <1>2, <1>3 DEF EnterMode

\* Every step of the director, of the bus and of a requesting task.
LEMMA NextIInv == IInv /\ [Next]_vars => IInv'
<1> SUFFICES ASSUME IInv, [Next]_vars PROVE IInv'
  OBVIOUS
<1> USE DirectorAssumption DEF IInv, TypeOK, DriverMatches, TransferAsked, Credit, MASTER,
    SLAVE, Points
<1>1. CASE Stay
  BY <1>1, EnterModeIInv DEF Stay
<1>2. CASE Resume
  BY <1>2, EnterModeIInv DEF Resume
<1>3. CASE SwitchToSlave
  BY <1>3 DEF SwitchToSlave
<1>4. CASE SwitchToMaster
  <2>1. CASE master'
    BY <1>4, <2>1 DEF SwitchToMaster
  <2>2. CASE ~master'
    BY <1>4, <2>2 DEF SwitchToMaster
  <2>3. QED
    BY <2>1, <2>2
<1>5. CASE TransferDone
  BY <1>5 DEF TransferDone
<1>6. CASE Command
  BY <1>6 DEF Command
<1>7. CASE Request
  BY <1>7 DEF Request, Running
<1>8. CASE UNCHANGED vars
  BY <1>8 DEF vars
<1>9. QED
  BY <1>1, <1>2, <1>3, <1>4, <1>5, <1>6, <1>7, <1>8 DEF Next, Director

\* The invariant holds of every behaviour.
LEMMA Invariant == Spec => []IInv
  BY InitIInv, NextIInv, PTL DEF Spec

\* The driver the director is blocked in is the one that is started, and never
\* are both (initHalSlave, initHalMaster, the calls of multimasterDirector).
THEOREM DriverMatchesThm == Spec => []DriverMatches
<1>1. IInv => DriverMatches
  BY DEF IInv
<1>2. QED
  BY <1>1, Invariant, PTL

\* The node never seizes the bus more often than it was asked to
\* (multimasterDirector's line 233 against localSchedule).
THEOREM TransferAskedThm == Spec => []TransferAsked
<1>1. IInv => TransferAsked
  BY DEF IInv
<1>2. QED
  BY <1>1, Invariant, PTL

=============================================================================
