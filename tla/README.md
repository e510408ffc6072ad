# Formal models of the CuSAT command and data handling software

The repository holds the flight-software prototype of a CubeSat's on-board
computer (ISIS iOBC, AT91SAM9G20, FreeRTOS): a firmware in `src/hal-demo/src`
that runs a copy of the CubeSat Space Protocol library (libcsp 1.6, in
`cspSrc/`), tests and demos of the board's drivers, and the vendored HAL,
FreeRTOS and upstream libcsp. The models here are of the firmware: of the
protocol stack it compiles, with the options of `csp_autoconfig` (RDP, CRC32 and
HMAC on; XTEA, QoS, promiscuous mode and duplicate filter off), of the task
that shares the I2C controller, and of the FreeRTOS kernel in `src/hal/freertos`,
as its `FreeRTOSConfig.h` builds it, on which all of it runs.

Everything is checked with TLC on the instances named below, and the theorems
are proved with TLAPS for every value of the constants.

    tlc -workers 2 -config Node.cfg MCNode.tla
    tlapm RdpProofs.tla

## 1. Inventory

| Part | Source | State it keeps | Operations | Hard behaviour |
|---|---|---|---|---|
| FreeRTOS kernel | `hal/freertos/src/tasks.c`, `queue.c`, `list.c` | ready, delayed and event lists, tick counter, ring buffers and lock counts of the queues | send, receive, peek, their interrupt forms, delay, create, delete, tick, idle task | interrupts in the middle of a call, overflow of the tick counter, tasks in two lists, priority inheritance |
| RDP transport | `transport/csp_rdp.c` | per connection: state, six sequence numbers, retransmission and out-of-order queue, closers | connect, new_packet, check_timeouts, send, check_ack, close | 16-bit wrap, loss, duplication, reordering, half-open peers, two tasks closing one slot |
| Connections | `csp_conn.c`, `csp_io.c` | the slots `arr_conn`, last slot given, last ephemeral port | connect, accept, read, send, close, transaction | reuse of slots and ports while packets of the last owner are on the way |
| Router | `csp_route.c`, `csp_qfifo.c`, `csp_port.c` | input queue, bound sockets | route_work | full queues, who frees a packet on each of a dozen exits |
| Datagrams | `transport/csp_udp.c`, `csp_io.c` | the queue of a connection, the backlog of a socket | udp_new_packet, recvfrom, sendto | hand-over of a new connection to a task, exactly once |
| Buffers | `csp_buffer.c` | the pool, reference counts | get, free, clone | exhaustion, double free, leak |
| CAN interface | `interfaces/csp_if_can.c`, `csp_if_can_pbuf.c` | frame counter, five reassembly elements | tx, rx, pbuf new/find/free | interleaved senders, lost frames, identifier wrap, rounding of the remain field |
| I2C director | `Tests/I2CmultiMasterTest.c` | requested and current mode, driver state | director loop, localSchedule | blocking reads, requests made during a transfer, driver start failures |
| KISS interface | `interfaces/csp_if_kiss.c` | receive state machine, transmit lock | rx, tx | two senders on one line, lost bytes, ends of frames taken for starts, overlong frames |
| I2C interface | `interfaces/csp_if_i2c.c`, `drivers/i2c/i2c.c` | a frame per transfer | tx, rx | unfinished in the repository |
| Loopback, bridge | `csp_if_lo.c`, `csp_bridge.c` | none | tx, work | none of their own |
| Routing table | `rtable/*.c` | routes | find, set, load | longest-prefix ties, partly applied text |
| Small file protocol | `csp_sfp.c` | none between calls but a flag of the connection | send, recv | lost fragments, several transfers and ordinary messages on one connection, seven exits |
| Duplicate filter, promiscuous mode | `csp_dedup.c`, `csp_promisc.c` | ring of checksums, a queue | is_duplicate, add | timestamp overflow; both are off in the build |
| Services | `csp_service_handler.c`, `csp_services.c` | none | ping, ps, memfree, cmp, reboot | who frees the request |
| Checksums and crypto | `csp_crc32.c`, `crypto/*` | none | pure functions | |
| OS layer | `arch/freertos/*` | none | queue, semaphore, thread | conversion of time, otherwise that of the kernel |
| Task sequencer | `Tests/TaskSequenceTimeTest.c` | none | create a task that starts after a delay | unsigned delay arithmetic |
| UART demo | `Demo/demo_uart.c` | two buffers | callback and task | buffer handed over between callback and task |
| SD demo, component tests | `Demo/demo_sd.c`, `Tests/*.c`, `main.c` | none | menu loops over HAL calls | |

How they interact. A task calls `csp_send`, which gives the packet to an interface
(or, for the node itself, to the loopback interface), or to RDP first. Interfaces
write received packets to the router's queue. The router task takes one packet at
a time and forwards it, or hands it to a connection-less socket, to an existing
connection, or to a new connection that it puts into a socket's backlog. A service
task accepts connections from the backlog, reads, replies and closes. The router
also calls `csp_rdp_check_timeouts` on every open connection. A packet buffer is
owned by exactly one of these places at a time.

The scheduler. `FreeRTOSConfig.h` sets `configUSE_PREEMPTION` to 0, so a task runs
until it blocks or yields, and a TLA+ step of the modules of the protocol stack is
what a task does between two such points. The library was written for preemptive
systems too; its unlocked read-modify-writes (`closed_by`, `cfp_frame_id`) cannot be
hit in this build. What those modules take for granted of the kernel, that a queue is
a bounded sequence, that a blocked task is woken by the next item or by its timeout,
and that a mutex reaches the task that waits for it, is what the module `Kernel`
checks of the kernel's code, where the interrupts do come between any two critical
sections.

What makes each part correct is stated as properties in its module; the hazards of
`PROJECT.json` name the line where each could go wrong and the properties that
would notice.

## 2. Modules

| Module | Models | Runs |
|---|---|---|
| `Scheduler` | lists, tick, delays, suspension and inheritance of `tasks.c` and `list.c`, as operators | through `Kernel` |
| `Kernel`, `MCKernel` | tasks and interrupts at the queues, semaphores and mutexes of `queue.c` | `Kernel`, `KernelMutex` |
| `KernelQueue` | one queue of `Kernel` as its users see it, through the refinement mapping | `Kernel` |
| `MessageQueue` | the abstract promise: a bounded sequence, every call at once | `Kernel` |
| `KernelProofs` | the ring buffer implements the bounded sequence, the lists of the kernel are sound, the best task runs and no wake-up is lost, for every instance | |
| `RdpSeq` | the comparisons of wrapping sequence numbers | through `Rdp` |
| `Rdp` | one RDP connection: client, server, their routers, a lossy link | `Rdp*` |
| `RdpStream` | the abstract promise: a gap-free stream in each direction | `RdpTransfer` |
| `MCRdp` | constants of the instances | `Rdp*` |
| `RdpProofs` | types, ownership of the slot, what numbers and queues have to do with what was sent, and the refinement of `RdpStream`, for every instance | |
| `RdpPairProofs` | what the two ends know of each other: agreement, window, retransmission, resets | |
| `Node`, `MCNode` | router, queues, connection pool, datagrams, buffers and tasks of one node | `Node` |
| `NodeProofs` | owners of buffers and slots, where packets go, how late a reply can be, for every instance | |
| `CanFrag`, `MCCanFrag` | fragmentation and reassembly over CAN | `CanFrag` |
| `CanFragProofs` | what is reassembled and what arrives, for every instance | |
| `Kiss`, `MCKiss` | framing on a serial line that loses bytes | `Kiss` |
| `KissProofs` | what arrives, where it is stored, and that frames are found again, for every instance | |
| `I2CDirector` | the I2C mode manager | `I2CDirector` |
| `I2CDirectorProofs` | exclusion of the drivers and one transfer per request | |
| `Sfp`, `MCSfp` | the small fragmentation protocol over a lossy connection | `Sfp` |
| `SfpProofs` | types, placement and origin of the bytes, release of the memory, for every instance | |

Operators named `X_Something`, marked "Mutant", are plausible bugs of
`X`. Putting one in the place of `X` violates the property that
`PROJECT.json` pairs with it, which shows that the property says something about
the code.

### Scheduler, Kernel and MessageQueue

`kern` is a record of the static variables of `tasks.c` and of the event lists of the
queues; `Scheduler` has one operator on it for each function or macro. `queue[q]` is the
rest of the `xQUEUE`: the ring buffer with its two positions, the count, the two lock
counts, the holder. `call[t]` is the program point of a task within the call it makes,
with the locals of `xQueueGenericSend` and `xQueueGenericReceive`. `left[t]` is history: the
time the task asked for, less the ticks that the timer has really made.

* A call starts with `csp_queue_enqueue`, `csp_queue_dequeue`, `csp_bin_sem_wait`,
  `csp_bin_sem_post`, `xQueueSendToFront`, `xQueuePeek`, `vTaskDelay`, `taskYIELD`,
  `csp_thread_create` or `vTaskDelete`, which do the first critical section. A call that
  must wait goes on through `Suspend`, `prvLockQueue`, `Check`, `Place`, `Unlock`,
  `UnlockRx`, `Resume`, `Yield` and back to `Retry`: each step ends where interrupts are
  enabled again.
* `vPortTickISR`, `SendFromISR` and `ReceiveFromISR` come between any two steps. A tick
  while the scheduler is suspended is only counted, and the count is looked at in
  `xTaskResumeAll` alone, so the ticks of a suspension are taken just before it.
* `Idle`, `IdleSuspend`, `IdleResume` and `Reap` are the idle task with
  `prvCheckTasksWaitingTermination`.
* Abstractions: the circular ready list is a sequence that starts behind `pxIndex`; the
  place of an item that was taken is cleared; memory for tasks does not run out; a task
  that holds a mutex is not deleted, nor one that waits for a queue; no task takes a
  second mutex. With two mutexes `Inherited` would not hold: the first one given back
  takes away the priority that was inherited for the other
  (`vTaskPriorityDisinherit` knows nothing of the other), and an event list is not sorted
  again when a task in it inherits a priority, as queue.c:131 says of its order.

A queue of the module refines `MessageQueue` (`QueueOfMessages` in `KernelQueue`): `items` is
read out of the ring buffer, and `got` is what the last call of each task brought. Several
readers may forget what they got in one step (`Forget`), since deleting a task ends its
call together with the call that deletes it.

### Rdp

`conn[n]` is the `csp_conn_t` of node n with its `rdp` member; `net` is the set of
packets in flight; `user`, `retry`, `tx_wait` and `backlog` are the user tasks and
what they share with the router. `sent`, `accepted` and `lost` are history.

* Calls of a user task: `Connect`, `ConnectTimeout`, `ConnectDone`,
  `ConnectRetry`, `ConnectFailed` (`csp_connect` and `csp_rdp_connect`, split where
  it waits on the semaphore), `Accept`, `Send`, `Read` (with the
  `csp_rdp_check_ack` it makes), `Close`.
* `csp_rdp_check_timeouts` is `ConnectionTimeout`, `CloseWaitTimeout` and
  `MessageTimeout`, one for each of its outcomes; whether a clock comparison holds
  is a free choice, so every value of the timeouts is covered.
* `csp_route_work` and `csp_rdp_new_packet`: one action for each exit, with the
  checks that precede it in its guard. `RecvInOrder` includes the flush of the
  out-of-order queue and the acknowledgement that follows.
* Abstractions: a payload is the number of the message; both RDP queues are sets
  (the code scans them whole); `rand()` returns the members of `Rand` in turn;
  failure to get a buffer for a control message is its loss; `csp_send` is atomic
  once it has room in the window; client and server use the same pair of ports
  every time they connect. Sequence numbers are exact 16-bit numbers, and the
  instances start next to the wrap. `OldSeq` is what other connections may have
  left in the server's slot: a reset sent for an unknown connection carries it.

### Node

`conn` is `arr_conn`; `queue[s]` is the backlog or, for a connection-less socket,
the packet queue; `qfifo` the router's queue; `packet` maps each buffer in use to
the packet in it; `task[t]` the task's program point with the connection and the
buffer it holds. `Connect` … `Finish` are the steps of
`csp_transaction_w_opts`; `Accept` … `ServerClose` the loop of `task_server`;
`RecvFrom` and `SendtoReply` the connection-less service; `Forward` …
`Reject` the exits of `csp_route_work`. `UdpNewPacket` is the whole of
`csp_udp_new_packet`, with the close when the backlog is full.

Which free buffer is taken is immaterial, and the smallest is. Slots of sockets are
not counted in `ConnMax`. A forwarded packet always ends as a freed buffer. The
port search of `csp_connect` never ends when it starts at the lowest port and all
are taken; `NodeAssumption` asks for more ports than connections, which the default
configuration has (39 and 10), and the loop is recorded as a hazard. `call`, in
packets and tasks, is history: it tells a reply from a late reply to another
transaction.

### CanFrag

A task sends its packet frame by frame, and frames of different tasks interleave
since `tx_func` may block. A frame reaches the receiver at once or is lost: the bus
keeps order. Bytes are intervals of the packet they come from. `IdCount` and
`RemainCount` stand for the widths of the identifier and remain fields (1024 and
256); with two identifiers they come round within the instance. `origin` is history:
the node and the running number of each packet, from which `RoundsApart` says which
packets share an identifier. `SrcOf` is the source address of the frames, one for each node: the
code takes `packet->id.src` (csp_if_can.c:196), which is the node's own address for
what the node originates, and the originator's for a packet it forwards. Identifiers
are counted by the interface that transmits, so if the same originator's packets
reached a bus through two interfaces, the pair of address and identifier would no longer
name one interface's counter; such topologies are not modelled. The age of a reassembly element is a free choice at the place where
`csp_can_pbuf_new` looks at it. `damaged` is history: packets whose loss the
environment explains (a lost frame, a failed transmission, no buffer, no element,
ageing), so that `Complete` can ask for all the others.

### Kiss

`tx`, `lock` and `wire` are the sending tasks, the mutex of the interface and the
bytes of the current call of `tx_func`; `rx` is the receive half of
`csp_kiss_interface_data_t`. `csp_kiss_tx` is `Lock`, `SendSymbol` and `SendStop`, one
step for each call of the driver, or `LockTimeout`; `csp_kiss_rx` takes one byte in
each of `SkipByte` … `SkipFrame`, one action for each mode and exit, all behind the
length check `Checked`. A byte is a symbol; the packet it was sent for is history, which
`Intact` reads to say where the header and the data of a delivered packet come from.
The checksum is one symbol for each data, so collisions and damaged bits are not
modelled, and it contains no byte that needs an escape; the header is one such symbol
too. `Other` names the byte values that mean nothing to the protocol; the instance needs
none, the proofs allow any. `damaged` is history, as in `CanFrag`.

### I2CDirector

`requested` and `current` are the two flags, `master` and `slave` the drivers, `pc`
the point where the director gave up the processor. The HAL is external and taken
from its headers: `I2C_start` may fail; `I2Cslave_read` waits for data without a
timeout and returns at once when the driver is stopped; a transfer ends by itself.
`hung` is the `TRACE_FATAL` of `initHalSlave`, an endless loop that, without
preemption, stops every task.

### Sfp

`item`, `count` and `flags` are the sender: what is sent on the connection one after the
other, blobs through `csp_sfp_send` and ordinary messages through `csp_send`, and whether
the connection has `CSP_FFRAG`. `queue` is the receive queue of the connection. `data`,
`datasize` and `data_offset` are the locals of `csp_sfp_recv_fp`, with one action for
each of its exits (`RejectHeader`, `RejectOffset`, `NoMemory`, `RejectSize`,
`RejectEmpty`, `Timeout`, and `Store`, which also returns the blob). A byte is named by
its item and its place there. `buffers` and `heap` count what is in use; `returned` and
`damaged` are history.

`CSP_FFRAG` is set at csp_sfp.c:101 and never cleared, so an ordinary message that follows
a transfer may be taken for a fragment when its last eight bytes, any of `Tails`, look
like a header; `Unmixed` and `Contained` except it (`Lookalike`). A header that
announces 0 bytes is left out of `Tails`, since what `csp_malloc(0)` returns is not
specified. `Unmixed` also excepts two transfers of the same size of which one lost its
tail and the next its head: nothing in the header tells them apart, and
`csp_sfp_recv` returns the halves joined. (libcsp's doc/mtu.rst:19 says "If a chunk is
missing the SFP client will abort the reception".) `Contained` says how far damage goes:
never further than the next item.

## 3. Runs

Passing runs.

| Run | States | Question |
|---|---|---|
| `Kernel` | 1.0 million | Two tasks of different priority and an interrupt that sends, at one queue of two places: is every task in the lists its state asks for (`OnePlace`), is no wake-up lost (`NoLostWakeup`), does every sleeper wake on its tick (`SleepsToTheTick`), does the task of the highest priority run (`RunsHighest`), is the queue a queue (`QueueOfMessages`, a refinement)? |
| `KernelMutex` | 151 000 | Three tasks, a mutex and a mailbox; one task deletes itself and is created again: does the holder inherit, and no longer than it must (`Inherited`), and does the task of the highest priority get the mutex or its timeout (`HighestGetsMutex`)? |
| `RdpTransfer` | about 10^6 | Four messages, window 2, three packets in flight, no close: is each direction the stream of `RdpStream` (`ReliableStream`, a refinement), is no unacknowledged message forgotten (`NothingForgotten`), does the sender stay in the window (`WindowRespected`)? |
| `RdpClose` | 370 000 | A user's queue as short as the window, closes by either side, timeouts, a full backlog, and a second server connection whose initial sequence number lies near the first one: do two open ends agree (`Synchronised`), is what the user gets a prefix of what was sent (`StreamInOrder`), does `rcv_cur` count it (`StreamAccounted`), does a RST end a connection only after all its data (`RstAfterData`)? |
| `RdpReconnect` | 2.2 million | Three client and two server connections in the same slots while packets of the earlier ones are in flight: the half-open exchanges, and `ConnectRetry` (`HandleValid`, `NoOrphan`). |
| `RdpLive` | 24 000 | Delivery, reopening of the window, return of the slot, under fairness. |
| `Node` | 299 000 | Two clients, a connection service, a connection-less service, a foreign packet; all queues of length one, two buffers, two slots, three ephemeral ports, three transactions. |
| `CanFrag` | 487 000 | Three packets from three tasks on two nodes, two identifiers, two reassembly elements, all lengths at which the number of frames or the last frame changes, too long ones included: is what is delivered one whole packet (`Intact`, but for two damaged packets of one identifier), is what was not damaged delivered (`Complete`), do elements and buffers agree (`OneBuffer`)? |
| `Kiss` | 408 000 | Two tasks, three packets with escaped bytes or of the maximal length, five lost bytes, one buffer: is what arrives the data of one packet, and in order (`Intact`), are the frames found again (`Resync`), is a buffer given away never written, and no buffer beyond its end but for one byte (`Held`)? |
| `I2CDirector` | 323 | Six requests at any moment, on a bus that may fall silent: do the drivers exclude each other (`DriverMatches`), is the bus seized only on request (`TransferAsked`), is every request answered that the code does not clear or leave waiting (`WishServed`), does the node listen again (`ListensAgain`)? |
| `Sfp` | 20 000 | Five blobs, three of one size, and two ordinary messages over a queue of two packets: is every byte in its place (`Placed`), of one blob (`Unmixed`), is damage contained (`Contained`), is all memory freed (`Balanced`)? |

Type invariants are part of an invariant of the same run where they are not listed by
themselves: of `OnePlace`, `OneOwner`, `OneBuffer` and `Held`; those of `Rdp`,
`I2CDirector` and `Sfp` are proved.

The runs of the kernel check deadlock: there is always a tick or the idle task. In the
others it is not checked: the clients and the number of messages are bounded, so
every instance stops when the work is done; whether it stops with everything
delivered or returned is what `Delivered`, `SlotReclaimed`, `Drained` and
`ListensAgain` ask.

Bounds, and why they suffice. In `Kernel` the tick counter counts modulo 4 and its
overflows modulo 2, so that both go round; timeouts are 2 ticks or for ever; `Slack` keeps a
task whose time is up from waiting so long for the processor that the counter passes it
by, which with 2^32 ticks takes 49 days; `IsrBound` limits the items and the ticks that
come in one suspension to two, enough for two pended ticks to pass the overflow and for
a lock count above one. Two places make the ring go round with items left in it.
Its two items are interchangeable (`SYMMETRY`): the kernel copies them and never looks at
them, no definition chooses one, and the run checks no liveness. In
`Rdp` `MaxSend`, the length of `Rand` and
`NetBound` bound the work: four messages in a window of two send the window twice
round with every pattern of loss, reordering and duplication of three packets; the
first sequence number is 65534, so that the wrap is met by the second message.
When `NetBound` packets are in flight an earlier one is lost, which the link may do
anyway. In `Node` each queue holds one element: the router's queue, the backlog and the
queue of the connection-less socket are met full, and the pools of buffers and slots
exhausted. The receive queue of a connection is not, since a client sends one request on
each connection and the one foreign packet comes once; that a second packet finds it full,
or finds a connection already passed on, is covered by the theorems alone, which hold
for any traffic. Three transactions with three ports bring the ports round.
In `CanFrag` three packets suffice for one element to be taken over by a second
packet while a third is on the bus, and two identifiers for the third packet to have
that of the first. In `Kiss` five losses take away the end of one
frame and the start of the next with bytes of both left over, and the third packet
shows whether the receiver has recovered. In `I2CDirector` requests coalesce in a flag,
and six of them meet every program point more than once. In `Sfp` blobs of 3, 4 and 5
bytes with an mtu of 2 have two and three fragments, the last one full or not; two of
the same size follow each other directly, and one follows at a distance with messages
between.

Violation. This run shows a behaviour of the code that contradicts what the repository
says of it.

| Run | Property | What happens |
|---|---|---|
| `RdpLoss` | `NoAckedLoss` | `csp_rdp_rx_queue_flush` (csp_rdp.c:323) drops the packet when the user's queue is full and advances `rcv_cur` all the same: an acknowledged message is lost and its buffer leaks. The other runs keep the drop in `lost`, and say exactly what else holds. `RdpTransfer` has a queue long enough never to drop. |

Other such behaviours are exceptions written into the properties of passing runs, so that
what holds beside them is checked. `RstAfterData`: `seq_nr == (rcv_cur + 1)` without a
cast (csp_rdp.c:631) ignores a RST in sequence when `rcv_cur` is 65535. `Intact` of
`CanFrag`: a stale reassembly element takes frames of a later packet that has the same
identifier, 1024 packets later, and elements after the first free one are never aged. `Unmixed` of
`Sfp`: see there. `WishServed` of `I2CDirector` and `Held` of `Kiss`: see below.

Two more, without runs of their own. In SYN_SENT every SYN/ACK is accepted
(csp_rdp.c:701), also one of an earlier connection from the same port, and then the
ends do not agree: `Synchronised` holds in `RdpClose`, where the client connects
once, and fails when it connects twice. And with `DelayedAcks = FALSE` and window 1
`WindowReopens` fails, since a reordered old acknowledgement moves `snd_una` back
(csp_rdp.c:812) when there is nothing left to retransmit. The firmware uses
delayed acknowledgements, whose timer repairs it; that is what `RdpLive` shows.

What `I2CDirector` does not promise. The comment at I2CmultiMasterTest.c:263 says "We stay in
slave mode until a separate task wishes to go to master mode". The code answers such a
wish with a transfer or a failed `I2C_start`, with two exceptions that `WishServed` states.
The flag is looked at only when `I2Cslave_read` returns (line 73), so on a bus where no
other master sends a command the node never leaves slave mode. And line 233 clears the flag
after every call in master mode: a wish that came during a transfer is lost, and so is
one that came between a failed start and the return to slave mode, since the transfer it
leads to has no driver. Without either exception TLC refutes the property. Elsewhere no wish is
lost, however the yields fall.

What `Kiss` does not promise. `max_rx_length` (csp_if_kiss.c:231) is exactly the room in a
buffer, and the check at line 93 lets a byte through while the length is not greater than
that: a byte that comes when the buffer is full is written behind its end (lines
184, 192, 196), where, with data sizes that leave no padding, the next buffer of the pool has
its reference count. `InBuffer` is the exact limit: never a second such byte, for the next one
throws the frame away before it is looked at. The run meets this: `Len(rx.data) <= max_rx_length` by
itself is violated there, when a lost end of frame joins two packets. The checksum leaves out the header
(csp_if_kiss.c:158), so when bytes of two packets are lost the first header may
arrive with the data of the second; and a lost end of frame costs the next packet
too, whose first FEND ends the joined frame. `Intact` and `Resync` say exactly this
much and no more.

## 4. Fairness

`Rdp`: `RouterFairness` is weak fairness of the router's timeouts, since
`csp_route_work` calls `csp_rdp_check_timeouts` after every packet or
`FIFO_TIMEOUT`, and of the task woken by the semaphore. `LinkFairness` is
strong fairness of arrival: the link may lose packets but not every copy of what is
sent again and again. Nothing is assumed of users; `Delivered` asks for delivery only
while both ends are open, and `SlotReclaimed` only for slots no user holds.

`Node`: weak fairness of each task and of the router. The scheduler runs ready tasks of
equal priority in turn, and `csp_read` and `csp_accept` have timeouts.
`Inject` (the other node) and the choice between answering and not answering are
free.

`I2CDirector`: weak fairness of the director (a yield returns, a transfer times out).
Nothing is assumed of the other masters on the bus, which may never send a command; the
properties say what then happens.

`KernelMutex`: without preemption nothing follows unless tasks cooperate, and
`Fairness` says what that means: the processor does not stop within a call; each task
blocks or yields again and again; the holder of a mutex that keeps making calls gives
it back; and time goes on. It is stated by state formulas where that suffices, which
spares TLC the evaluation of ENABLED. The middle task may yield for ever without
blocking: it is the inheritance that lets the holder run in spite of it.

`CanFrag`, `Kiss` and `Sfp` have safety properties only.

## 5. Proofs

`RdpProofs` (from `RdpAssumption` alone):

* `TypeCorrect`: `Spec => []TypeOK`. Every member of every connection and packet
  keeps its type, sequence numbers within 16 bits, for every window, queue length
  and list of initial sequence numbers.
* `HandlesValid`: `Spec => []HandleValid`. No slot goes back to the pool while a user
  task holds its handle or will be given it by `csp_accept`.
* `NoOrphans`: `Spec => []NoOrphan`. A slot in use that no user will close is one that the
  router knows it must close.

The last two are not inductive. The invariant is `IInv == TypeOK /\ Started /\
Ownership`. `Started` says that a connection has drawn an initial sequence number.
`Ownership` splits the slots in use: a handle that a user holds belongs to a slot
without a socket that USERSPACE has not closed (`InUse`), and all other slots have
the socket or that mark (`InRouter`). `Shape` ties both to the RDP state (a socket
only in SYN_RCVD, closers only in CLOSE_WAIT): without it the last step of a
close, which frees the slot when all three closers have signed, would not be known
to come after the user's. The proof first types each helper, then each group of
actions, then shows for the same groups that ownership is kept; most steps change
neither owner nor state and go through one lemma (`Kept`).

`I2CDirectorProofs` (from `DirectorAssumption`): `DriverMatchesThm` and
`TransferAskedThm`. The second needs `Credit`: a request that stands is unspent
unless the transfer in progress is its own, and a transfer is entered only with a
standing request.

The streams, on the same invariant and `JInv == IInv /\ Bounds /\ Packets /\ Ends`:

* `InOrderDelivery` and `AckAccounted`: `StreamInOrder` and `StreamAccounted` hold of
  every behaviour, with connections closed, opened again and lost at any point.
* `StreamRefinement`: both directions implement `RdpStream`. Every step of the module
  submits a message, gives the next one to the user, begins another stream, or maps to a
  stutter.

`Packets` and the queues in `Ends` say that what carries a sequence number carries the
message that number stands for; `Ends` says that what the user was given and what was
dropped are together an unbroken run of the peer's messages that ends at `rcv_cur`. Two
hypotheses cannot be done without. `DistinctNumbers`: no two messages of one node have the
same 16-bit number. The code draws initial numbers with `rand()`, compares nothing else and
does not bound how long a packet stays on its way, so a packet of an earlier connection
with a number that comes again is taken; within one connection it means fewer than 65536
messages. `[]NoAckedLoss`, in the refinement alone: `csp_rdp_rx_queue_flush` does drop
acknowledged messages when the user's queue is full, as the run `RdpLoss` shows.

`RdpPairProofs`, on top of `JInv`: `OpenEndsAgree` (`Synchronised`), `WindowIsKept`
(`WindowRespected`), `NothingIsForgotten` (`NothingForgotten`) and `ResetsAfterData`
(`RstAfterData`), for every window, queue length, number of packets in flight and list of
initial numbers, with losses, duplicates, closes by either side and a server that accepts
again. They speak of both ends and of the link at once, and none is inductive. There are
three invariants.

* `HInv`, the handshake. Before `csp_connect` there is nothing in flight (`Untouched`);
  until the SYN/ACK has come the client's queues and all packets belong to the handshake
  and acknowledge the client's initial number (`Calling`); until the server has answered
  it has sent nothing (`Unanswered`). So the ACK on which the server opens, which it does
  check, comes from a client that has taken the server's number from this SYN/ACK.
* `PairInv`: two open ends talk to each other (`Paired`), and then for each `Direction`:
  an acknowledgement on its way counts messages that its sender has (`Heard`), so
  `snd_una` is never ahead of the peer (`Based`), however old the acknowledgements are that
  move it; hence `csp_rdp_is_conn_ready_for_tx` keeps the sender within a window of the peer.
  What an EACK lists has been stored (`Listed`), so that what leaves the retransmission
  queue is at the peer (`Safe`). `Paired` also holds when the server is still in SYN_RCVD or the
  client has opened alone: an invariant of two open ends could not say what the packets
  are that the handshake leaves behind.
* `Rsts`: the number of a RST comes from the slot of another connection, or is the next one
  of a connection on which nothing is sent any more (`Final`). A RST in sequence is therefore
  behind all the data.

Most of the steps (timeouts, acknowledgements, resets, closes, packets out of order) draw
no number, submit nothing and deliver nothing. `CalmStep` says what such a step may do to
one connection and what it may send; each of these actions is shown to be calm, and the
invariants are shown once to survive a calm step. The others (connecting, accepting the
SYN, the SYN/ACK, `csp_send`, delivery in order) are taken one by one.

The hypotheses, which the runs named satisfy (`MCRdp` assumes those that all satisfy):

* `SeparateNumbers`, which implies `DistinctNumbers`: the initial numbers too are different
  from all others. Otherwise the acknowledgement of an initial number is taken for
  that of a message.
* `HalfRange`: at most 32768 messages on a connection. `csp_rdp_check_ack` and the flush compare with
  `csp_rdp_seq_before`, which is right up to half the range only. `ResetsAfterData` does
  without it.
* `ConnectsOnce`: the client calls `csp_connect` once, as in `RdpTransfer`, `RdpClose`, `RdpLive` and
  `RdpLoss`. Without it a SYN/ACK of an earlier connection is accepted (csp_rdp.c:701), the
  ends do not agree, and the RST that resolves the half-open connection ends it with data
  on the way. Under it `csp_rdp_connect` never finds the half-open server it retries for; that
  exchange is the matter of `RdpReconnect`.
* `SlotsApart`, for `ResetsAfterData`: the number that another connection has left in the
  server's slot, and that a RST for an unknown connection carries, is not by chance the next one.

`NodeProofs` (from `NodeAssumption`, for every number of buffers, slots, ports and tasks and
every length of the queues): `BuffersHaveOneOwner`, `ConnectionsHaveOneHolder`,
`ConnectionsUnambiguous`, `PacketsAddressed` and `RepliesFresh`. The run's properties count
owners; the invariant says instead who they are (`BuffersOwned`, `ConnsHeld`: the places a
buffer or a slot can be in are disjoint and together make up what is in use), what a task
at each program point holds (`Phase`), and that an open connection has been posted to its
socket and a closed one is empty (`SlotOK`). `NoAmbiguity` is kept because `csp_connect`
takes a port that no open connection uses, and the router opens a connection only on a
bound port and after `csp_conn_find` found none. Lemmas say that moving a buffer from one
place to another keeps it in exactly one, and each exit of `csp_route_work` and each step
of a task is such a move.

`RepliesFresh` (`ReplyFresh`) rests on a second invariant, `Fresh`. `Gone(p)` is the set of
ephemeral ports that the search has passed since it returned p, or that are in use. A call
is `Old` when `Gone` of its port has at most one member for each call since, and one for
each other connection: every step of the search adds at most one port that is not in
use, and a port that is returned again is one for which all others are gone. `Fresh` says
this of the call of every request and reply in a buffer and of every call under way, and
that a packet on the port of a call is of that call or `Rounds` calls older (`Apart`). The
theorem has the hypothesis `ServicePorts`: clients call ports that `csp_bind` accepts. It is
needed: two clients of one node that call each other's ephemeral ports read each other's
requests as replies, since `csp_conn_find` finds the connection of the one for the request
of the other.

`CanFragProofs` (from the assumptions on the constants): `OneBufferThm`, `IntactThm` and
`CompleteThm`. The
invariant says of a reassembly element that it holds a gap-free run of its packet from the
first byte on, ending on a frame boundary, with as many frames to come as `remain` says,
or else a recorded mixture (`Holding`); and that element and sender agree on an undamaged
packet (`InStep`), which is what makes the next frame fit. `Results` is the same of what
was delivered.

`KernelProofs` (from the assumptions of `Kernel` and `KernelQueue`): `QueueRefinement`, that
every queue used as one, of any length, with any tasks and interrupts, implements
`MessageQueue`. The invariant `Queues` says that `pcReadFrom` and `pcWriteTo` stay in
the ring and are apart by the number of items (`RingInvariant`); `TaskCalls` that what a
call is about to copy is an item. The proof shows that the four ways to copy an item in or
out each do to the sequence what the abstract operation does, that event lists, locks and
the scheduler do nothing to it, and then takes the steps one by one.

The same module proves `TasksInOnePlace` (`OnePlace`) and `HighestRuns` (`RunsHighest`), for any
set of tasks and priorities, from `KernelInvariant`. Neither property is inductive: an
interrupt that finds a task in an event list moves it, and a call that resumes the
scheduler chooses among the ready tasks. `KInv` adds:

* `KOk`: every list is a list without repetition, of tasks (`KernRec`, `Lists`); the ready list of
  a level has its end marker and the tasks of that priority, and none is ready above
  `uxTopReadyPriority` (`ReadyOK`), without which the search from it down would miss the
  best task; the state lists are disjoint (`OneList`), and so are the event lists (`OneEvent`);
  a task in an event list is asleep, which is what makes moving it to a ready list
  sound in an interrupt, in `prvUnlockQueue` and in the tick alike.
* `Places` and `Turn`: the lists are those of the program points; only the running task is
  within a step of its call (`Away`), the scheduler is suspended exactly at the points
  between `vTaskSuspendAll` and `xTaskResumeAll` (`Held`), the running task is ready unless it
  is on its way to yield (`Going`), and nothing is left in `xPendingReadyList` while the
  scheduler runs. `IdleOK`: the idle task never leaves its ready list, so that there is always
  a task to choose.

`NoWakeupLost` (`NoLostWakeup`) needs more than `KInv`. That the items of a queue are
no more than the tasks that come for them is not kept by the steps of a task that goes to
sleep: it is for a moment in the event list though it was counted nowhere. `Waking` says
of each side of a queue (`Side`: the receivers and the items, or the senders and the places), for any
number of tasks that wait, come, or are interrupted:

* those in the event list are themselves on their way back (`Comers`): they have not
  given up, and will look at the queue again whoever wakes them;
* while one waits, what there is does not exceed the comers that wait no more and what
  the lock has counted;
* a task about to enter the list (`Placing`) found nothing at its second look, and what has
  come since the lock has counted, for the queue is then locked (`Guarded`).

`Served` says what an attempt may do to a side: take one, give up at an empty side, or
add one and wake somebody; `SideServed` that this keeps the inequality, by counting the woken
task in place of the one that leaves. Peeking needs it too: it takes nothing, and wakes
another. `SideUnlocked` is the same for `prvUnlockQueue`, which wakes as many as the
lock has counted or all that wait, one half of the queue at a time. The tick wakes tasks
whose time is up, and these still try once more.

The loops of the kernel are folds over lists of any length. `UpTo` and `Least` derive
induction up to a number from the well-foundedness of the natural numbers, as a fact about
sets; `StepsOfSets` and `StepsInOrder` show from it that a fold takes its steps one by one in
order, and then `EachReadySteps`, `WakeEachSteps`, `PendedReadySteps` and `PendedTicksSteps` say so of the four
loops. Most steps only make tasks ready (`Calm`) or change the running task for the best
(`Switched`); these are shown once to keep the invariant, and each call is taken apart into
them. The proof needs that there are finitely many tasks and that the two markers are not
tasks (`MarkersAssumption`).

`KissProofs` (from `KissAssumption`, for every number of senders, every length of header,
checksum and buffer, all data, and any number of bytes lost): `HeldThm`, `IntactThm` and
`ResyncThm`. `HeldThm` includes the exact limit of what is stored (`InBuffer`): within the
buffer, or one byte past its end while the frame is unfinished, never more. `Senders` and `Line` say which bytes are on the line, given how much of the
frame the holder of the lock has sent; `Contents` that the bytes stored are of packets in
the order sent; `Recent` that a frame under way has bytes of damaged packets and of the
last one only, all newer than anything delivered: hence at most one delivery for each
packet. `Follows` is what `Resync` needs: while an undamaged packet arrives, the receiver has
stored exactly what has arrived of it, unless the packet before it was damaged, and then
it may have more (the end of that frame was lost) or be waiting for a frame. `IntactThm`
rests on the checksum: the last byte stored is the checksum of the data before it, so the
data are those of the packet it was sent for. It takes as given that checksums tell data
apart.

`SfpProofs` (from `SfpAssumption`, for every list of blobs and messages, every mtu and
every length of the queue): `TypeCorrect`, `PlacedThm`, `BalancedThm`, `UnmixedThm` and
`ContainedThm`. `Placed` speaks of what was returned, and is kept only
because what is being put together is itself the start of a blob: the invariant adds
`Building` (the pieces are contiguous, of blobs of `datasize` bytes, and end at
`data_offset`, short of `datasize`), that every fragment of a blob in the queue says its
size, and `Sending` (something is left of the blob being sent). The lemmas on sequences
say what appending a piece does to contiguity and size; one lemma for each exit of
`csp_sfp_recv_fp` follows from them. The last two theorems need `Flow` beside it: what was
put together last, the packets in the queue and the place of the sender follow each
other, and what is left out between two neighbours is damaged; and a blob that must
arrive is still to be sent, queued from its start, being put together, or returned.

Only model-checked:

* Every liveness property: fairness and ENABLED are outside the prover's reach.
* `SleepsToTheTick` and `Inherited` of `Kernel`. The first takes the order of the delayed lists
  and the arithmetic of a tick counter that goes round, the second holds only with one
  mutex (section 2); both would extend `KInv`.
* `NoAckedLoss` of `Rdp` is refuted, and `Synchronised` and its companions are theorems only
  while the client connects once: a SYN/ACK of an earlier connection is accepted
  (section 3).

## 6. Not modelled, and why

* Checksums, HMAC, encryption, formatting, statistics counters: functions of payload
  bytes or outputs; the security check is the one bit "has a valid HMAC".
* Duplicate filter, promiscuous mode, QoS: not compiled in.
* The I2C interface of libcsp: unfinished (its receive thread is started with NULL
  arguments).
* SD card demo, component tests, the menu of `main.c`: loops over HAL calls without
  state shared between tasks.
* Of the kernel: overwriting sends, the reset of a queue in use, `vTaskDelayUntil`,
  `vTaskPrioritySet`, suspending single tasks, recursive mutexes, queue sets, software
  timers, co-routines and the heap. The firmware uses none of them but the heap.
* HAL, Arduino sketches, upstream libcsp: vendored drivers and tables of registers,
  which are most of the repository's lines, modelled by what the firmware sees of them.
* Interleavings inside the steps of a task: excluded by the scheduler, see section 1.

## 7. Plan

Order of the work; the first seven are done.

1. `Rdp` with `RdpStream` and its first proofs: the transport carries commands.
2. `Node`: the pools and queues every packet passes.
3. `CanFrag`: the bus between the subsystems.
4. `I2CDirector` with its proofs.
5. `Kiss`: the receive state machine and the transmit lock.
6. `Kernel` with `MessageQueue`: what all the others stand on.
7. `Sfp` with its proofs: fragmentation over a connection.
8. `Rtable`: longest-prefix lookup and `csp_rtable_load` against a reference
   definition over small tables.
9. `Sequencer`: the delay arithmetic modulo 2^32 of the task sequencer; `Uart`: the
   hand-over of buffers between callback and task.
10. `RdpNode`: RDP connections in the pool of `Node`, to meet the NULL that a discarded
    close leaves in a reused slot, and buffer exhaustion in the transport.

Abstract specifications worth stating: a once-only, in-order datagram channel for
`CanFrag`; a set of free and owned resources for the pools of `Node`.

Theorems next: `SleepsToTheTick` of `Kernel`, on top of `KInv`.
