------------------------------ MODULE I2CDirector ------------------------------
(***************************************************************************)
(* The I2C mode manager (Tests/I2CmultiMasterTest.c): one peripheral, two  *)
(* HAL drivers for it, a task that switches between them, and the tasks    *)
(* that ask for master mode.                                               *)
(*                                                                         *)
(* The scheduler is cooperative, so a task runs from one blocking call or  *)
(* taskYIELD to the next: that is one action.  The HAL drivers are modelled*)
(* from their headers: a start may fail, a read of the slave driver waits  *)
(* for another master's command, a transfer ends by itself (it has a       *)
(* timeout) and either call returns at once when its driver is stopped.    *)
(***************************************************************************)
EXTENDS Naturals

CONSTANT MaxRequests   \* bound: requests for master mode

ASSUME DirectorAssumption == MaxRequests \in Nat

VARIABLES
    requested,  \* I2CModeRequested
    current,    \* I2CModeCurrent
    master,     \* the master driver is started
    slave,      \* the slave driver is started
    pc,         \* where the director task gave up the processor
    asked,      \* history: requests made
    transfers   \* history: transfers put on the bus

vars == <<requested, current, master, slave, pc, asked, transfers>>

MASTER == "MASTER_MODE"
SLAVE == "SLAVE_MODE"

\* check: the top of the loop.  mode: the taskYIELD after a switch.  read and
\* transfer: blocked in the driver.  hung: TRACE_FATAL, which never returns and
\* lets no other task run.
Points == {"check", "mode", "read", "transfer", "hung"}

Running == pc # "hung"

-----------------------------------------------------------------------------
Init ==
    /\ requested = SLAVE /\ current = SLAVE
    /\ master = FALSE
    /\ asked = 0 /\ transfers = 0
    /\ slave \in BOOLEAN
    /\ pc = IF slave THEN "check" ELSE "hung"

\* One call of halSlaveTest or mastermodeWriteReadProcess, up to where it blocks
\* or, when the driver is stopped, to the end of the loop's body.
EnterMode ==
    /\ \/ /\ current = SLAVE
          /\ pc' = IF slave THEN "read" ELSE "check"
          /\ UNCHANGED <<requested, transfers>>
       \/ /\ current = MASTER /\ master
          /\ pc' = "transfer"
          /\ transfers' = transfers + 1
          /\ UNCHANGED requested
       \/ /\ current = MASTER /\ ~master
          /\ pc' = "check"
          /\ requested' = SLAVE
          /\ UNCHANGED transfers
    /\ UNCHANGED <<current, master, slave, asked>>

\* No switch is due: the loop goes on to the mode's call without yielding.
Stay == pc = "check" /\ requested = current /\ EnterMode

\* The loop after the yield of a switch.
Resume == pc = "mode" /\ EnterMode

\* initHalSlave.
SwitchToSlave ==
    /\ pc = "check" /\ requested # current /\ requested = SLAVE
    /\ master' = FALSE
    /\ \/ slave' = TRUE /\ current' = SLAVE /\ pc' = "mode"
       \/ pc' = "hung" /\ UNCHANGED <<slave, current>>
    /\ UNCHANGED <<requested, asked, transfers>>

\* Bug: the slave driver is not stopped.
SwitchToMaster_NoStop ==
    /\ pc = "check" /\ requested # current /\ requested = MASTER
    /\ master' \in BOOLEAN
    /\ requested' = IF master' THEN requested ELSE SLAVE
    /\ current' = MASTER
    /\ pc' = "mode"
    /\ UNCHANGED <<slave, asked, transfers>>

\* Bug: the mode stays slave when the master driver does not start, although
\* the slave driver was stopped.
SwitchToMaster_StayOnError ==
    /\ pc = "check" /\ requested # current /\ requested = MASTER
    /\ slave' = FALSE
    /\ master' \in BOOLEAN
    /\ requested' = IF master' THEN requested ELSE SLAVE
    /\ current' = IF master' THEN MASTER ELSE current
    /\ pc' = "mode"
    /\ UNCHANGED <<asked, transfers>>

\* initHalMaster: when I2C_start fails slave mode is asked for, and the mode
\* becomes master all the same.
SwitchToMaster ==
    /\ pc = "check" /\ requested # current /\ requested = MASTER
    /\ slave' = FALSE
    /\ master' \in BOOLEAN
    /\ requested' = IF master' THEN requested ELSE SLAVE
    /\ current' = MASTER
    /\ pc' = "mode"
    /\ UNCHANGED <<asked, transfers>>

\* Bug: slave mode is asked for after either call, not after a transfer only.
Command_Clear ==
    /\ pc = "read"
    /\ pc' = "check"
    /\ requested' = SLAVE
    /\ UNCHANGED <<current, master, slave, asked, transfers>>

\* Another master sends a command; halSlaveTest returns and the loop yields.
Command ==
    /\ pc = "read"
    /\ pc' = "check"
    /\ UNCHANGED <<requested, current, master, slave, asked, transfers>>

\* Bug: the transfer leaves the request standing.
TransferDone_Keep ==
    /\ pc = "transfer"
    /\ pc' = "check"
    /\ UNCHANGED <<requested, current, master, slave, asked, transfers>>

\* I2C_writeRead returns, whatever its result, and slave mode is asked for.
TransferDone ==
    /\ pc = "transfer"
    /\ requested' = SLAVE
    /\ pc' = "check"
    /\ UNCHANGED <<current, master, slave, asked, transfers>>

\* localSchedule, "the stand in for some other task".
Request ==
    /\ Running /\ asked < MaxRequests
    /\ requested' = MASTER
    /\ asked' = asked + 1
    /\ UNCHANGED <<current, master, slave, pc, transfers>>

Director == Stay \/ Resume \/ SwitchToSlave \/ SwitchToMaster \/ TransferDone

Next == Director \/ Command \/ Request

Spec == Init /\ [][Next]_vars

\* The director is scheduled again after a yield, and a transfer times out.  Nothing
\* is assumed of the bus: another master need not send a command, ever.
FairSpec == Spec /\ WF_vars(Director)

-----------------------------------------------------------------------------
\* Types; and there are never more transfers than requests may be made.
TypeOK ==
    /\ requested \in {MASTER, SLAVE} /\ current \in {MASTER, SLAVE}
    /\ master \in BOOLEAN /\ slave \in BOOLEAN
    /\ pc \in Points
    /\ asked \in 0 .. MaxRequests /\ transfers \in 0 .. MaxRequests

\* The two drivers never share the peripheral, and the call the director is
\* blocked in belongs to the driver that is started, in the mode the flag says:
\* whatever start failed and whoever asked for what during the yields.
DriverMatches ==
    /\ ~(master /\ slave)
    /\ pc = "read" => slave /\ current = SLAVE
    /\ pc = "transfer" => master /\ current = MASTER

\* The bus is seized only for a request: a request that comes during a transfer,
\* or in the yield after one, never yields two transfers.
TransferAsked == transfers <= asked

\* Master mode without a driver: I2C_start failed.
StartFailed == current = MASTER /\ ~master

\* A wish for master mode that the director has still to answer.
Wish == requested = MASTER /\ pc # "transfer" /\ ~StartFailed

\* "We stay in slave mode until a separate task wishes to go to master mode" (line
\* 263): a wish leads to a transfer that starts after it, or to a failed start, and
\* nothing else clears it.  Two exceptions, which the comment does not make: a wish
\* made during a transfer, or before slave mode is back after a failed start, is
\* cleared (line 233), and on a quiet bus the director stays in I2Cslave_read (line 73).
WishServed ==
    \A n \in 0 .. MaxRequests :
        (Wish /\ transfers = n) ~> (transfers > n \/ StartFailed \/ [](pc = "read"))

\* Requests stop at MaxRequests, and after the last the node listens again, with no
\* wish left over unless no command comes any more: no failure of I2C_start and no late
\* request leaves it in master mode or idle.
ListensAgain ==
    \/ []<>(pc = "read" /\ requested = SLAVE)
    \/ <>[](pc = "read")
    \/ <>(pc = "hung")

=============================================================================
