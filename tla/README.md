# Verification of the Zynq-7000 FreeRTOS firmware

TLA+ models of the firmware in `src/`: a FreeRTOS V10.3.1 kernel on one
Cortex-A9 core, the FreeRTOS+TCP stack above it, and an application that moves
frames between that core, a second core, a DSP and an FPGA through rings in
shared memory and an AXI DMA engine.

The models are checked with TLC on small instances (the `.cfg` files), and the
theorems in the `*Proofs` modules are proved with TLAPS for every value of the
constants. `PROJECT.json` lists runs, mutants, hazards, findings and theorems,
and maps each definition to the lines of the source it models.

    tlc -workers 2 -config kq_receivers.cfg MCKernelQueue.tla
    tlapm SchedulerProofs.tla

Contents: [the system](#the-system), [the modules](#the-modules),
[the runs](#the-runs), [what was found](#what-was-found),
[the proofs](#the-proofs), [what is not modelled](#what-is-not-modelled),
[the plan](#the-plan).

## The system

One core runs the kernel, the network stack and the application as tasks and
interrupt handlers. The configuration (`FreeRTOSConfig.h`) matters to the models:
preemption and time slicing are on, there are 7 priorities with the selection by
a bit map, ticks are 32 bits wide, tickless idle and co-routines are off,
mutexes, recursive mutexes, counting semaphores, queue sets and timers are on,
and `configASSERT` calls `vAssertCalled`, which enters a critical section and
never leaves it: a failed assertion stops the system. A configuration constant
is 0 for DHCP and for co-routines, which compile to nothing.

| part | state it keeps | operations | how it interacts | what makes it hard, and what must hold |
|---|---|---|---|---|
| Scheduler (`tasks.c`) | ready lists and their bit map, two delayed lists that change places when the tick count wraps, suspended, pending and termination lists, `xTickCount`, `xPendedTicks`, `xNextTaskUnblockTime`, `uxSchedulerSuspended` | delay, suspend, resume, abort a delay, create, delete, change a priority, notify, catch up ticks, the tick, the switch | called by every other part; event lists belong to the queues, the lists of ready and delayed tasks to it | interrupts while the scheduler is suspended, the wrap of the tick count, caches of what is in the lists. Delays are exact, the highest ready task runs, no tick and no wake-up is lost |
| Queues and semaphores (`queue.c`) | a ring of items, two event lists, two lock counts of type int8_t | send, receive, peek, reset, from tasks and from interrupts | blocks and wakes tasks; the event queue of the IP task, the command queue of the timers and every semaphore are queues | a task is between its look at the queue and the event list when an interrupt comes. FIFO, no wake-up is lost, time-outs end |
| Mutexes (`queue.c`, `tasks.c`) | the holder, the recursive count, how many a task holds, base and current priority | take, give, recursive forms, inherit, withdraw after a time-out | change the ready lists of the scheduler | nesting, and time-outs that race with giving. Priority inversion is bounded, what was inherited is given back |
| Software timers (`timers.c`) | two lists of timers around the wrap, a command queue | start, reset, stop, change the period, delete, expire | a task at the highest priority, commands through a queue | commands read after the wrap that were sent before it; a timer that expires while its command waits. Each expiry is called once, in time |
| Event groups (`event_groups.c`) | bits, an unordered event list | set, clear, wait, sync | wakes all matching waiters with the scheduler suspended; sockets wait in them | bits cleared by one waiter before another looks; time-out against set. A waiter returns the bits it was woken for |
| Stream and message buffers (`stream_buffer.c`) | head and tail, trigger level, one waiter on each side | send, receive, reset, from interrupts | wake by task notifications | one writer and one reader without a lock: the order of copy and update. Bytes in order, no partial message, no lost wake-up |
| Heap (`heap_4.c`) | an ordered list of free blocks | malloc, free | with the scheduler suspended; tasks, queues, network buffers | splitting, coalescing, the allocated bit. Blocks are disjoint, memory is conserved |
| Lists and port (`list.c`, `port.c`, `portASM.S`) | list links; interrupt mask, nesting, context | insert, remove; critical sections, switch, tick timer | the base of the kernel | assembler and registers; taken for what they promise |
| Rings between the cores (`app/queue/hub_queue.c`) | per ring: two positions at its end, and units with a start flag, a type, a length and a payload | nine writers and readers | the other core, the DSP and the FPGA read and write the same uncached memory | no lock: every access can interleave. Frames come out once, in order and whole |
| AXI DMA (`app/dma/`) | a flag for each direction and one for errors, the engine | `TxDMA`, `RxDMA`, two handlers | the reader of the FPGA rings calls `TxDMA` and spins on the flag the handler sets | errors and resets of one direction during a transfer of the other. Success means the transfer ended |
| Application (`main.c`, `freeRTOS_user.c`, `freeRTOSIP_user.c`, `FreeRTOS_tick_config.c`) | one flag that the tasks were created, one socket | the network event hook, the receiving task, the counting task, the hooks | sockets | the event may come again; the socket may fail. Every zero-copy buffer is released once |
| IP task (`FreeRTOS_IP.c`, UDP, ICMP) | an event queue, network state, timers | events: receive, transmit, network down, ARP, TCP and bind and close of sockets | runs at priority 5; all others send it events | a lost event keeps its buffer. Each buffer has one owner |
| Network buffers (`BufferAllocation_2.c`) | a list of 2048 free descriptors and a counting semaphore | get, release, from tasks and interrupts | the driver, sockets and the IP task | the semaphore is taken before the list is read. Count and list agree, no descriptor is handed out twice |
| Ethernet driver (`x_emacpsif_dma.c`, `_hw.c`, `NetworkInterface.c`) | 8 descriptors in each direction shared with the DMA, a semaphore of free ones, event flags | send, clean up, receive, errors | interrupt handlers notify the driver's task, which sends events to the IP task | hardware and task own descriptors in turn; a full ring; a notification lost between test and wait |
| ARP (`FreeRTOS_ARP.c`) | a cache of 6 entries with ages | look up, refresh, age, send requests | the IP task and the driver | replacement and retries at the limits. One entry per address |
| UDP and sockets (`FreeRTOS_Sockets.c`) | bound lists, received packets, an event group for each socket | bind, send, receive, select, close | user tasks and the IP task share a socket | close against receive, time-outs, packets refused when the list is full |
| TCP connection (`FreeRTOS_TCP_IP.c`) | the state of each connection | handshake, data, close, time-outs | sockets, window, IP task | simultaneous close, retries, a child socket that dies before it is accepted |
| TCP window (`FreeRTOS_TCP_WIN.c`) | segments in four queues, sequence numbers modulo 2^32 | add, send, acknowledge, receive | the connection and its stream buffers | wrap, duplicates, overlaps, the pool of 240 segments. The stream is the bytes sent |
| DNS (`FreeRTOS_DNS.c`) | a cache of 4 entries | look up, ask, answer queries and take announcements of neighbours | a task looks up through a UDP socket, the IP task serves neighbours | a cache shared without a lock, replaced and expired rows, late answers. A name resolves to what was answered last |
| PHY (`phyHandling.c`, `x_emacpsif_physpeed.c`) | the link state and a timer | poll | the driver's task | polling only |
| DHCP, co-routines, board support, `Debug/` | | | | switched off, or generated |

The functions of the kernel that the firmware itself calls are a small part of it:
`vTaskDelayUntil` (the counting task), notifications (the Ethernet handlers and the
stream buffers), queues, semaphores, event groups and the scheduler's suspension (the
network stack). Nobody calls `xTaskAbortDelay`, `vTaskSuspend`, `vTaskResume` or
`xTaskCatchUpTicks`; they are modelled because the kernel promises them to any
application. In `main()` the calls of `QueueInit` and of the DMA's initialisation,
and the creation of the Rx and Tx tasks, are commented out; the rings and the DMA
driver are modelled as their functions are written.

## The modules

    BoundedQueue   <-- KernelQueue <-- MCKernelQueue      KernelQueue <-- KernelQueueProofs
    Scheduler      <-- MCScheduler                        Scheduler   <-- SchedulerProofs
    KernelMutex    <-- MCKernelMutex                      KernelMutex <-- KernelMutexProofs
    TimerService, EventGroup, StreamBuffer, Heap4, MCKernelMutex <-- MCKernelServices
    TimerService                                  <-- TimerProofs
    EventGroup, StreamBuffer, Heap4               <-- KernelServicesProofs
    FrameChannel   <-- HubRing     <-- MCHubRing
    HubMemory      <-- HubRing, HubForward
    HubForward, AxiDma, IpTask <-- MCLinks
    ArpCache, NetworkBuffers, EmacDriver, NetChecksum, UdpSockets <-- MCNetwork
    ArpCache, NetworkBuffers, IpTask, TcpConnection, NetChecksum <-- NetworkProofs
    UdpSockets, EmacDriver, NameService, HubRing, AxiDma <-- DatagramProofs
    TcpWindow, TcpConnection, NameService <-- MCTcp       TcpWindow <-- WindowProofs

In all of them a step is what the code does without another actor in between: a
critical section, a stretch that touches nothing another actor touches, or, for
memory shared with another core, one access. Operators that a comment calls "a wrong
variant" are no part of any specification; they are what a plausible
mistake would make of the definition below them, and `PROJECT.json` names the
property that notices it.

`MCKernelServices`, `MCLinks`, `MCNetwork` and `MCTcp` put modules side by side
that share no variable: `part` says which one a behaviour runs, and the others keep
their initial states. `MCHubRing` has one ring in two sizes, one to a behaviour. Where the components do interact in the code, the module of
one contains what it needs of the other: `EmacDriver` has the IP task as far as it takes
and gives frames, `UdpSockets` the events it serves, `EventGroup` the calls that
interrupts defer to the timer task, `TcpConnection` the queue of events and the answers
of the window (a packet says whether its data fits, what it acknowledges and whether it
completes the stream), `NameService` the responses the IP task stores.

### KernelQueue: one queue, its tasks and its interrupts

`queue.c` with what a blocking call goes through in `tasks.c`.

- State: the ring (`storage`, `pcWriteTo`, `pcReadFrom`, `uxMessagesWaiting`), the
  lock counts `cRxLock` and `cTxLock` with the width they have in the code
  (`Int8`), the event lists as sets from which `First` takes the highest priorities,
  `xPendingReadyList`, the `suspender` of the scheduler, `xPendedTicks`, and for
  each task where it is in its call (`pc`), the call, whether its time is up, its
  `ucDelayAborted`, and its buffer.
- Actions of a task: `Start`; `TrySend`, `TryReceive`, `TryPeek` and `Reset` are the
  critical section at the head of the loop; `SuspendAll`, `LockQueue`,
  `CheckForTimeOut`, `TestQueue`, `PlaceOnEventList`, `UnlockTx`, `UnlockRx` and
  `ResumeAll` are the way to the event list, and `Recheck` the last look of a
  receiver that timed out. `AbortDelay` is `xTaskAbortDelay`.
- Actions from outside: `IncrementTick`, `SendFromISR`, `ReceiveFromISR`.
- Which ready task runs is left open, so one instance covers every assignment
  of priorities and every time slicing.

`BoundedQueue` is what a queue promises: a sequence of at most `uxLength` items
to which an item is added at either end or replaces the only one, from which the
first is taken, and which can be emptied. `IsBoundedQueue` maps the ring onto it.

### Scheduler: time, readiness and what is held back

`tasks.c` without event lists and mutexes.

- State: `where` is the list that a task's `xStateListItem` is in and `wake` its
  value; `pending` is `xPendingReadyList`; the rest has the names of the code. `left`,
  `lag` and `held` are history that no step reads: the ticks a delayed task has still
  to wait, the ticks since its last wake time, and what `vTaskSuspend` holds.
- Calls: `Delay`; `Start` and `DelayUntil` (with the wrap of each of the three times);
  `Await` and `Awaited` for `ulTaskNotifyTake` and `xTaskNotifyWait`; `Notify`;
  `Suspend`, `Suspended`, `Resume`; `PrioritySet`; `Abort`, `AbortLook`,
  `AbortLookAgain` and `Aborted` (`eTaskGetState` looks twice); `CatchUp`,
  `CatchUpLoad` and `CatchUpStore` (it adds with interrupts enabled); `Create` and
  `Created`; `DeleteItself`, `DeleteOther`, and `Clean` of the idle task; `Yield`.
- `ResumeAll`, `PendedTick` and `Resumed` are the one critical section of
  `xTaskResumeAll`, taken in steps between which no interrupt comes.
- Interrupts: `Tick`, `TickPended` (the scheduler is suspended), `ResumeFromISR`,
  `NotifyFromISR`.
- A switch happens only where the code asks for it (`SwitchIf`), to a task of the
  highest list whose bit is set; which of that list is left open, since round robin
  only decides between equals. A failed assertion leaves no task running
  (`pxCurrentTCB = NoTask`).
- Assumed of the application: it makes no blocking call with the scheduler suspended,
  and does not use the handle of a task that deleted itself.

### KernelMutex: mutexes and priority inheritance

- State: holder, count and waiting list of each mutex (a sequence, because its
  order is fixed when a task joins it and not changed with priorities), base and current priority and
  `uxMutexesHeld` of each task, the ready lists with their bit map, the running task.
- Actions: `BeginTake`, `TakeAgain` (a recursive mutex), `Obtain`, `NotFree`, `Block`
  with `xTaskPriorityInherit`, `LookAgain`, `TimedOut`, `DisinheritAfterTimeout`,
  `Give`, `GiveInner`, `Delay`, `IncrementTick`.
- A switch happens only where the code asks for one; this is what
  `OutrankedAfterTimeoutOnly` and the violated `HighestRuns` are about.
- Assumed: a task does not take a non-recursive mutex it already holds, and gives
  only mutexes it holds; the idle task uses none.

### HubMemory, HubRing, FrameChannel: the rings between the cores

`HubMemory` is the memory of a ring: a function from positions to the units that
were written there; what is written across a unit makes its content `Corrupt`.

`HubRing` has one writer and one reader on different processors. The writer:
`BeginWrite`, `MarkEnd` and `Rewind` (the closing marker, and position 0),
`ComparePositions` and `CheckSpace`, `CopyPayload`, `WriteTypeAndLen`,
`SetStartFlag`, `AdvanceWrite`. The reader: `BeginRead`, `LookAtFlag`, `LookAtType`, `TakePayload`, `ReopenEnd`,
`ClearStartFlag`, `AdvanceRead`. `ChecksSpace` and `ClearsFlag` choose between the
variants of the code: writers towards the DSP and the FPGA do not look for room, and
some readers do not clear the flag. `FrameChannel` is what a ring should be, a FIFO
of frames, and `IsFrameChannel` the refinement.

### HubForward: the way to the FPGA

`Offer` puts a frame at the head of the ring from CPU 0, `Forward` is a call of
`lwip_readFromARM`, which puts it into the first ring with room and closes those
before, `PassOver` is a call of
`lwip_readFromFPGAPriBuf` that goes past a unit which is not valid, `Transmit` and
`TransmitFails` one that hands a frame to `TxDMA`, with its two answers. Both functions run on one core
in one loop, so a call is a step. `sent` counts how often the unit at each position was handed over since
anything was written over its header, so that a unit that is sent twice in a row, or again a round later, is noticed.

### AxiDma: the DMA driver

For each direction a call is `Clear` (of the flag), `StartTransfer` and `Finish`; the
engine has `Complete`, `Fail` and `ResetIsDone`; a handler is `ReadAndAck`, then
`HandleError` and `PollReset`, or `HandleCompletion`. The engine is modelled from
how the driver uses it. `TxDMA` ignores its argument: the copy of the data into the
transfer buffer is commented out, and whatever is at `TX_BUFFER_BASE` is sent.

### TimerService: software timers

The service task's loop is `StartService`, then `FindsWrap` and what follows it: it samples
the time, switches the lists when the count has wrapped, calls what has expired and
reloads it, blocks, takes a command and applies it. Commands come from tasks and
interrupts, ticks at any time. History: `armed` and `due`, which timers run and how long
they still have. Bounds: `MaxLate`, the ticks by which the task may be behind; a timer that
reloads is neither stopped nor deleted (a START the task sends itself may stand behind
a queued STOP, and starts the timer again, or behind a DELETE), and only one timer is switched
between its modes.

### EventGroup, StreamBuffer, Heap4

`EventGroup`: with the scheduler suspended setting, clearing, waiting, synchronising and
deleting are one step each; the return from a wait is a later one, and what an interrupt
asks for is done by the timer task. `StreamBuffer`: one writer and one reader, tasks or
interrupts, that interleave wherever one can preempt the other; the look at the buffer, the
wait, the writing or reading of a length and of data and the wake-up are steps of
their own. A reader whose buffer is too small for the message puts the length back (`PutBack`), and
`AskLength` is `xStreamBufferNextMessageLengthBytes`, which moves the tail forward and back too.
`SetTriggerLevel` comes at any time, also while the reader sleeps: it wakes no one, so a reader sleeps on beside a buffer that has
reached a level that was lowered meanwhile, until the next write (`levelLowered` marks this case, which `NoWakeUpLost` excepts).
It accepts a level of `StreamLength` too (`stream_buffer.c:456` compares with the length of the array), which `stream_buffer.h:738`
calls not valid and no buffer ever reaches. `Heap4`: `Malloc`, and `vPortFree` in two steps, because the allocated bit is cleared
before the scheduler is suspended.

### ArpCache, NetworkBuffers, EmacDriver, NetChecksum, UdpSockets

- `ArpCache`: frames of hosts, packets to hosts (`SendPacket` with the look-up and, without an
  answer, the request), ageing, clearing. Addresses move between devices. `Refreshed` is what the one loop of
  `vARPRefreshCacheEntry` finds: a row of both addresses at once, the last row of the address (`IpRow`), the last of the device
  (`MacRows`), or the oldest; of two different rows that of the device is used and that of the address cleared.
- `NetworkBuffers`: any number of tasks get and release; semaphore, list and memory are
  separate steps.
- `EmacDriver`: the rings of descriptors, the position of the MAC in each, the handlers,
  the EMAC task and the IP task. `isr_events` is read and written in two steps.
- `NetChecksum`: `usGenerateChecksum`, `usGenerateProtocolChecksum` and the reply to a ping as
  operators, on bytes of 16 values. A step makes the packet a byte, or four,
  longer. The assumption of the module says what the code's 256 values and 64 Kbytes give: the number of values is even, and
  the sum of a packet is below that of a word, so that three foldings leave nothing to carry.
- `UdpSockets`: the calls of the API step by step, the IP task's part of
  each as one step, and the loop of the application's receiving task.

### IpTask, NameService

`IpTask` is the event queue, the ARP and the TCP timer, the sleep, the flag that asks for a look
at the TCP sockets, and the interface that is initialised again until there is a
link. A timer is what was left of it at the task's last look (`ulRemainingTime`) and the ticks since then (`elapsed`); the look
(`CheckTCPTimer`), the computation of the sleep (`CalculateSleepTime`) and the call that blocks (`GoToSleep`) are steps between which
ticks pass, and the sleep is computed from what was left at the look. `NameService` is `FreeRTOS_gethostbyname`: cache, socket, attempts, answers; each
access of the task to the cache is a step (`Find`, `CheckAge`, `TakeAddress`, `StoreField`,
`AdvanceEntry`, `WrapEntry`), and between any two of them the IP task, whose priority is higher, may store the
response of a neighbour (`NbnsResponse`), all at once. One task calls at a time. `Races` lists what the task cannot bear to be stored
at each of its steps: a name it has read the time for, the row it has found or fills, and any new row while it fills one;
`raced` remembers that it happened. A message is its identifier, its records (an address, another
type, cut off) and its lifetime.

### TcpWindow, TcpConnection

`TcpWindow` is one direction of an established connection with both ends: the stream of the
sender, its segments in three queues, what it sends when (`SendSegment`), the receiver with
what it stored ahead, acknowledgements and selective acknowledgements, retransmission by
time-out and by repeated acknowledgements, keep-alive, and a network that loses, repeats and
reorders. Sequence numbers wrap. A byte is the number of its place, so a byte that comes
to a wrong place is noticed.

`TcpConnection` is the rest: the states of the sockets of a listener and of a client, what
`vTCPStateChange` does when they change, the timers, the events and bits that wake the users, the
queue of events, and the calls `listen`, `accept`, `connect`, `recv`, `send`, `shutdown` and
`closesocket` step by step. Peers send any packet at any time. The state that is looked
at in `vTCPStateChange` is the old one, as the code has it (line 1587). `eFIN_WAIT_2`,
`eCLOSING` and `eTIME_WAIT` are never entered. A user uses a socket after it was
connected; the IP task has the higher priority, so its handling of one event is a step; the
write of the bit field in `shutdown` is a read and a write.

## The runs

Deadlock is checked in `hr_ring` and `hr_full_looks_empty` only. Elsewhere the model may
rightly stop: a failed assertion has stopped the system, every task is blocked for good, or the
bounded calls, packets and interrupts are used up.

| run | instance | states | what it shows |
|---|---|---|---|
| `kq_receivers` | length 2; a sender, a receiver, a task that peeks, resets and aborts; interrupts that send | 3.4 M | the queue is a FIFO (`IsBoundedQueue`); a receiver never sleeps beside an item without a wake-up under way (`ReceiverNotForgotten`), whenever the interrupt comes |
| `kq_live` | length 1; two tasks; interrupts that overwrite and receive | 82 k | under fairness nobody sleeps for ever beside items or slots, and finite waits end |
| `sc_tasks` | the idle task, a periodic one and one above it; the tick count wraps every 4 ticks; one tick may be pended; handlers notify one task and resume the other | 566 k | delays and periods are exact across the wrap, the bits of the ready lists are exact, a task that was notified does not wait, no tick is lost, the assertions hold |
| `ks_services` | two timers on a count that wraps every 5 ticks; three tasks on three bits; a ring of 5 bytes as a stream and as messages, some too long for their reader, whose trigger level changes at any time; a heap of 30 bytes; idle and three priorities on one recursive mutex of depth 2, with every block time | 2.3 M | no timer is lost or early and the service task does not sleep past one; no waiter of an event group is forgotten and nobody leaves a meeting early; the stream is in order and no wake-up of a write or a read is lost; blocks partition the heap; the holder of a mutex runs at exactly the priority it should, what it inherited is given back, inversion is bounded |
| `hr_ring` | a ring of 52 bytes with frames of 2 and 10 bytes, and one of 51 with frames of 2; two payloads | 1.3 M | for frames whose units are multiples of 8 bytes the ring is a FIFO channel, whatever the processors do between two accesses, and with frames of one size also where three bytes are left behind the last unit and no closing marker fits; a polling reader gets everything |
| `links` | two rings of 22 and 26 bytes, frames of 2 and 4 bytes; both directions of the DMA, errors in both, two polls of the reset; an event queue of 2 and two timers of period 2 | 120 k | a reader, lapped or refused by the DMA, hands each unit over once until something is written over its header; success is reported only for a transfer that completed; until the first error every call returns; the IP task sleeps past the end of its TCP timer by no more than the ticks that came between its look at the timer and the call that blocks it, the network comes up, requests whose event was dropped are served |
| `nw_services` | 2 rows of the ARP cache, 3 addresses, 2 devices; 3 descriptors, 2 tasks; 2 transmit and 2 receive descriptors; packets of up to 4 quads and a tail; 2 sockets, 2 ports, 2 buffers | 573 k | a row answers with the last address heard, as old as it says, and no address or device has two; list, semaphore and descriptors agree; checksums are the one's complement sums at every alignment and a receiver accepts what was sent; datagrams reach their user once and in order; no buffer is lost |
| `tcp_services` | 4 bytes in segments of 2 across the wrap of the numbers, 2 packets and 1 acknowledgement under way; a listener with a backlog of 2 and two peers, a client; three names, one of them too long, a cache of 2, two attempts | 1.2 M | bytes come out in order and once, none is forgotten before it has arrived; the listener counts its clients right; nobody who waits is forgotten; names are resolved to what was answered last, as long as it is valid, while the IP task stores what neighbours announce between any two accesses, until it meets what the task has in hand |
| `hr_full_looks_empty`, `nw_lost_event`, `dns_mixed`, `ks_message_put_back` | | | counterexamples, see below |

Why the bounds are enough. In `KernelQueue` a length of 2 tells front, back,
full, partly filled and empty apart and makes both positions wrap; three tasks give two waiters on one side
and one actor to disturb them, and a lock count of 2 is more than the waiters that are left
when one of two has been served. In `Scheduler` a tick range of 4 makes every delay cross the wrap
sooner or later, and one pended tick is enough to cross it with the scheduler suspended; the proofs remove both bounds.
In `KernelMutex` three priorities above idle are needed for inversion, and depth 2
for a give that is not the last. In `HubRing` the 44 bytes in front of the positions hold two long units, or one and three short ones, or five short ones,
and a tail of 4 bytes that gets a marker, so that every way to meet the end of the ring with a marker occurs; but units are multiples of 8 bytes, and never leave a tail of 3 bytes
or less. That is what the ring with 43 bytes for them is for (`ring = "short"` in `MCHubRing`), with frames of one size; other sizes, and sizes mixed in that ring, are the subject of the counterexamples.
In `HubForward` rings of 14 and 18 bytes hold one or two frames, a lapped reader is out of step with the units in
them, and two sizes of frames make it find old lengths. In `AxiDma` the state is finite as it is; `MaxPolls` is the time-out of the driver.
In `TimerService` a period spans the wrap at every value of the count, and `MaxLate` lets a timer be late by
more than its period. In `EventGroup` two tasks meet again and again while a third waits for the same
bits, clears some, sets another or deletes the group. A ring of 5 bytes is full with one message and its
length, or with 4 bytes; a length of one byte that is put back is safe in it, since messages and room are even
numbers of bytes and the byte makes room for no further message; in the 6 bytes of `ks_message_put_back` it does. The heap holds up to five blocks, so a block that is freed meets
free neighbours on both sides, on one and on none. In `ArpCache` there is one address more than rows, in
`NetworkBuffers` one descriptor more than tasks (so that the list is empty while one is passed on), and bytes of 16
values make carries in packets of a few quads. In `TcpWindow` two segments lose their order, are
repeated and retransmitted, and the stream of the receiver is shorter than what is written and read, so it
wraps as the numbers do; `MaxTransmits` bounds a counter of which the code uses the first values only.
In `TcpConnection` a backlog of 2 has one client accepted, lost or refused
while another comes. Peers of the client send what its state makes a difference of (`MCPackets`,
`ClientBound`). In `NameService` two names and two rows, one of which a neighbour also stores,
make rows evicted, expired and filled again; a name that a neighbour announces may be the one asked for or not.

Fairness. `KernelQueue!FairSpec` is strong fairness of each task's steps and
of the tick that ends its wait: the kernel runs each task again and again only if the
application leaves it time, which the two liveness properties therefore
assume, not more: a task that blocks in the queue needs a wake-up that is no part
of the fairness. `HubRing!FairSpec` is weak fairness of the reader, which the
code polls in a loop, and of a write once begun; a writer need never begin one.
`MCLinks!LinksSpec` is strong fairness of the calls (the task runs again and again) and
of taking an interrupt (handlers of both directions share one processor), and weak fairness of the engine: a transfer that
was started ends, in success or not, and a reset ends. A reset need not end within the driver's polls.
`IpTask` has weak fairness of the IP task and of the tick, since the task has a high priority and blocks only
with a time-out; of a task that asks, which runs when others block; and strong fairness
of a link that is found: each attempt may fail, not all of them. That the network comes
up is claimed only where others do not fill the queue again before each of the moments at which the task
posts its own event.

Symmetry is used where a run has invariants only, over model values that the instance treats alike
(`Interchangeable`).

Bounds that are not of the code, besides those above: `MaxLock` (interrupts while a queue is locked),
`MaxPended` (ticks while the scheduler is suspended), `DeferredLimit` (calls in the queue of the timers),
`MaxDatagrams`, `MaxInFlight` and `MaxAcks` (packets in the network), `MaxSeconds`, `MaxInbox` and
`MaxKept` of `NameService`. The code has no bound on the first two; `kq_lock_count_wraps.cfg` shows
what happens beyond 127 of the first.

## What was found

Four disagreements between the code and what its comments say are runs of the project:

| run | property | what happens |
|---|---|---|
| `hr_full_looks_empty` | `UnreadIntact` | the test for room comes after the wrap, and equal positions mean empty: a full ring looks empty and unread frames are overwritten (`hub_queue.c:456`) |
| `ks_message_put_back` | `MessageLeftInBuffer` | a reader whose buffer is too small moves the tail past the length of the message and back (`stream_buffer.c:934`, `:948`). A writer that preempts it between the two sees the length as free space and may fill the ring, which then looks empty: the message that "will be left in the message buffer" (`message_buffer.h:469`) is gone, with all others |
| `nw_lost_event` | `SentFramesNoticed` | `isr_events &= ~...` is a read and a write between which an interrupt sets a bit: the event is lost, and a frame that was sent is not reclaimed until another one is (`NetworkInterface.c:358`) |
| `dns_mixed` | `LookupIsOfItsName` | a look-up "Returns the IPv4 address if present" (`FreeRTOS_DNS.h:87`) for the indicated name; but rows and index are shared with the IP task without a lock. It may store a neighbour's response between a task's comparison of the name and its read of the address, or between its storing of the name and of the address (`FreeRTOS_DNS.c:1524`), and a name that nobody announced gets a neighbour's address |

Further configurations are kept beside the runs; each gives a counterexample to
the property it names, and documents a limit of the code:

| configuration | property | the limit |
|---|---|---|
| `kq_stale_abort` | `MaxDelayNeverFails` | `ucDelayAborted` survives a wait that succeeded; the next call with `portMAX_DELAY` fails at once, although "the task should block indefinitely, and therefore never time out" (`tasks.c:3301`) |
| `kq_reset_forgets` | `SenderNotForgotten` | a reset wakes one sender; a second one goes on sleeping beside free slots |
| `kq_lock_count_wraps` | `ReceiverNotForgotten` | 128 interrupts during one lock wrap the int8_t count, and wake-ups are lost |
| `ad_error_hangs` | `CallsReturn` | after an error nothing sets the flag the call spins on |
| `km_stale_ready_bit` | `TopListNotEmpty` | `vTaskPriorityDisinheritAfterTimeout` resets the bit of the new priority (`tasks.c:4254`); the selection then asserts. Needs two mutexes |

Others need only a change of a listed configuration:

| change | property that then fails | the limit |
|---|---|---|
| `kq_stale_abort` | `AbortEndsTheWait` | a wait that is aborted while its item is being taken blocks again |
| `km_stale_ready_bit` with `Tasks = {idle, low, other, mid, high}`, `MutexRequests <- Chain` | `HeadIsHighest` | with two mutexes, a waiting list is not sorted again when a waiter inherits |
| `ks_services` with `Recursive = {}` | `HighestRuns` | a holder that gives a mutex while a low task waits and a high one has timed out drops below the latter and goes on running (`queue.c:801`) |
| the same | `NoInheritanceAtZero` | the assertion that nothing was inherited fails for a waiter that times out, finds the mutex free and has it taken away before it looks again |
| `sc_tasks` with `Calls <- PeriodOfH`, `Interrupts <- NoHandlers` | `PeriodKeptAfterEarlyWake` | after an aborted `vTaskDelayUntil` the next ones return at once until the time is caught up |
| `sc_tasks` with `Calls <- CatchingUp`, `NoHandlers` | `TicksCaughtUp` | a tick between the load and the store of `xTaskCatchUpTicks` is lost |
| `sc_tasks` with `Calls <- ForEver`, `NoHandlers` | `UnlimitedWaitIsNotified` | `vTaskResume` ends a wait without limit for a notification |
| `sc_tasks` with `Calls <- ForEverHeldBack`, `Interrupts <- ResumeAndNotify` | `AssertionsHold` | a waiting task resumed, then notified from interrupts while the scheduler is suspended fails an assertion |
| `ks_services` with `INIT TimersOnly`, `TimerCalls <- MCOneShots` | `ExpiredIsDormant` | a one-shot timer that expires as the lists are switched, or is started late, keeps its active bit (`timers.c:905`), and `xTimerIsTimerActive` says for ever that it runs |
| `ks_services` | `WokenAtItsLevel` | lowering the trigger level wakes no one: the reader sleeps on beside a buffer that has reached it (`stream_buffer.c:441`) |
| `hr_ring` with `ChecksSpace = FALSE`, `Payloads = {d1}` | `UnreadIntact` | writers that do not look for room overwrite unread frames |
| `hr_ring` with `BUF_SIZE = 51` | `IsFrameChannel` | at a short tail the reader goes back to the start without comparing the positions again (`hub_queue.c:709`); it takes the frame there before the writer has advanced its position, then no longer meets the writer and reads old bytes as units |
| `hr_ring` with `BUF_SIZE = 48`, `MAX_DATA_UNIT_LEN = 16`, `Lengths = {2}`, `ClearsFlag = FALSE` | `IsFrameChannel` | a reader that does not clear the flag may deliver a frame again |
| `links` | `SentInOrder` | after being lapped the reader sends newer frames before older ones |
| `links` with `Rings = {1}`, `ReadTail = 6`, `Lengths = {2, 6}` | `ReaderStaysInRing` | with two sizes of frames, a closing marker with an old length takes the reader out of the ring |
| `nw_services` | `LengthsKept` | the address of a received frame is handed back to the MAC before its flags are cleared, so a frame may get the length 0 (`x_emacpsif_dma.c:418`) |
| `nw_services` | `PingRepliesValid` | the reply to a ping adds `htons(0x0801)` instead of 9 where the sum overflows (`FreeRTOS_IP.c:1757`): some replies have a wrong checksum |
| `nw_services` with `PayloadLengths = {0, 1}` | `BuffersAccountedFor` | the application releases a buffer only when the datagram has bytes (`freeRTOSIP_user.c:275`); an empty one is never released |
| `links` | `AskedBeforeSleep` | the request for a look at the TCP sockets can be overwritten by the restart of the timer while the task goes to sleep; it is served a period later |
| `tcp_services` with `TxWindow = 2`, `RxWindow = 2` | `SentWithinWindow` | the test for room compares without regard to the wrap (`FreeRTOS_TCP_WIN.c:1160`): more is sent than the window allows |
| `tcp_services` with `WindowNextResegmented` for `WindowNext` | `NoSegmentLeftBehind` | a peer that divides its data anew when it sends again leaves a stored segment behind, and no FIN is accepted |
| `tcp_services` | `ConnectEnds` | `connect` sleeps on when the peer refuses: only an established connection sets its bit |
| `tcp_services` | `OrphansTemporary` | a client that answers SYN+ACK with something else than an ACK leaves its socket where the hang protection does not look, though it "may become an orphan temporarily" (`FreeRTOS_TCP_IP.c:3287`) |
| `tcp_services` with `Reconnects = TRUE` | `BeginsClean` | a second `connect` starts with the FIN bits of the first connection |
| `tcp_services` | `SendEnds` | `send` does not look at the state after it was woken, and sleeps on a closed socket |
| `tcp_services` with `ListenerCloses = TRUE` | `ClientsAccountedFor` | clients queued for a listener that is closed refer to a deleted socket |
| `dns_mixed` | `EntryInTable` | the IP task comes in between the increment of the index and its comparison with the size, stores beyond the table and leaves the index there (`FreeRTOS_DNS.c:1530`) |
| `tcp_services` with `SecondsRange = 2`, `MaxSeconds = 2` | `NamesResolvedRight` | after 49 days the seconds wrap and rows that have expired are valid again |
| `tcp_services` | `NameBuffersComeBack` | the copy in which an NBNS query is answered is not released (`FreeRTOS_DNS.c:1381`), nor an answer without bytes (`:640`) |

Not properties, but met while modelling: `vPortGetHeapStats` walks off the list of a heap that is completely
allocated; `uxMinimumFreeNetworkBuffers` is updated without a lock; `emacps_check_errors` never advances
`xErrorTail`; between the writing of a length and of its data a message buffer
holds the length alone, which the assertion at `stream_buffer.c:848` says it never does; the application compares the result of `bind` with
-1 while it is -EINVAL (`freeRTOSIP_user.c:254`); a FIN is not sent again by itself; a close event that finds the
queue full leaks a client that was reset; names of 16 characters and more are never resolved;
`FreeRTOSIPConfig.h:86` says late DNS replies are stored, which is so with call-backs only.

## The proofs

TLAPS checks some 35000 obligations. Each invariant was checked with TLC before it was proved. What a theorem says
holds for every value of the constants that the named assumptions of the modules allow; what it assumes beyond
them is said below.

**KernelQueueProofs.** For every set of tasks, length, priorities and calls:

- `TypeCorrect`: `TypeOK`. The positions stay on the ring and
  `0 <= uxMessagesWaiting <= uxLength`, which needs that a sender only writes where
  there is room and that `Forward` and `Backward` stay on the ring.
- `WakeUpsNotLost`: no wake-up of a receiver is lost (`ReceiverNotForgotten`), when
  `MaxLock <= 127`, that is when interrupts cannot overflow a lock count. The
  property is not inductive: a receiver that saw the queue empty is not yet in the
  event list, and an item may come meanwhile. The strengthening is
  `Control` (the scheduler has one suspender, the queue is locked exactly on its
  way from `LockQueue` to the unlocking, each event list holds the tasks of its kind, and
  a task that is not in the ready lists is where it can be woken) and `PlacedInTime` (what arrived since
  the look at the queue is counted in `cTxLock`, so that unlocking delivers it). Then: a receiver in
  the event list beside an item has either as many woken receivers on
  their way as there are items, or a count in the lock.
- `SenderWakeUpsNotLost`: the same of senders, with `SenderPlacedInTime` and `cRxLock`. It needs
  that no task resets the queue: `xQueueGenericReset` wakes one sender although it frees every
  slot (`kq_reset_forgets`).
- `ImplementsBoundedQueue`: `Spec => IsBoundedQueue`. The sequence that the ring stands for starts behind
  `pcReadFrom`; `PositionsAgree` says that it ends at `pcWriteTo`. Each way to copy an item in (back, front, overwrite) or out
  becomes an operation on the sequence, any other step leaves it as it is.

**SchedulerProofs.** For every set of tasks, repertoire of calls and handlers, and
every tick range of at least two:

- `TypeCorrect`, with one lemma per action.
- `DelaysAreExact` and `UnblockTimeIsNotLate`: the conjunction of the
  two is inductive with the types. `DelaysExact` alone is not: that no delayed task
  oversleeps a tick depends on `xNextTaskUnblockTime`, which most removals leave as it
  is, being no later than the first wake time.
- `RetiredListIsEmpty`: the assertion in `taskSWITCH_DELAYED_LISTS`, from the same
  invariant: at the last tick before the wrap every task of the current list is due.
- `ReadyPrioritiesAreExact`: `uxTopReadyPriority` has exactly the bits of the non-empty
  lists, by an invariant per priority.
- `NotifiedTasksAreWoken` rests on `RunInv` (the scheduler is suspended exactly between two steps of the
  running task that hold it, nobody else is there, and nothing is pending otherwise) and on
  `NotifiedInv`: a task that is about to wait and is no longer waiting was notified, and is on its way to a ready list.
- `OnlyANotificationFails`, without premises: a switch finds a ready task in the highest list and the list retired at the wrap is empty, so
  only the third of the modelled assertions can stop the system, that a notified task is in no event list, and only for a task that waits
  for a notification while it is in `xPendingReadyList`.
- `AssertionsDoHold`: none of the three fails if no handler resumes a task that may wait without limit for a
  notification (`NoWaiterIsResumed`, a premise of the theorem); the table above shows the third failing otherwise. `PendingInv` says that then no task in
  `xPendingReadyList` waits, `CountInv` that the two counters of tasks are the sizes of what they count.
- `NoTickIsLost`, from the types alone: each tick interrupt makes `xTickCount` and the pended ticks together exactly one more, and no other
  step changes their sum, the replay of pended ticks included, except the store of `xTaskCatchUpTicks`. This adds what was asked for if no tick came
  since its load; a tick that did is lost (`TicksCaughtUp` in the table above), and the theorem says nothing of it.
- `PeriodsAreKept`, from `LagInv`: the last wake time and `lag` make the tick count, give or take one wrap.

**KernelMutexProofs.** For every set of tasks and mutexes, recursive or not, in
any nesting and with any time-outs: `StateIsTyped`, `CountsAreExact` (which no run checks) and `InheritanceIsReturned`,
from `MutexInv`: the types of holders, counts and priorities, `HolderAndCounts`, and
`InheritanceEnds`. The last needs the second: an inherited priority is given back
when `uxMutexesHeld` reaches zero, so the count must be the number of mutexes held.

For one mutex (`Mutexes = {m}`), and any tasks, priorities and block times: `InheritanceIsExact`,
`ReadyListsAreExact` and `InversionIsBounded`. With two mutexes `HeadIsHighest` and `TopListNotEmpty`
have counterexamples (`km_stale_ready_bit`), so one is all that can be proved. `OneInv` has five parts: the ready lists and their bits are exact;
each task is where its step needs it to be; the waiting list is in order of priority; the holder has exactly what it was lent, by
a task that waits or is about to withdraw; and the running task is below neither the holder nor a task that was
woken and has not run yet. A withdrawal resets the wrong bit when the holder leaves an empty list behind; with one mutex
it never does, because a task whose priority the holder was lent, and which is about to withdraw, stays in that list.

**KernelServicesProofs.**

- `EventGroup`, for every set of tasks and bits: `NobodyIsForgotten`, and `AnswersDoHold`, that who was released for its bits
  returns bits that meet its condition. `ReleasedRightly` carries the latter from the release to the return,
  which is a later step. `MeetingIsHeld` is about a rendezvous with `xEventGroupSync`: `MeetingInv` says that all participants
  have passed the same number of rounds, that who waits has arrived once more, that a bit that is set is that of a
  participant who waits, and that nobody of the meeting times out. The premise `MeetingCalls(bit)`, each participant
  sets its own bit, waits for all without limit, and nobody else sets them, holds in `ks_services`; with a time-out, or an outsider
  that sets a bit, the rounds no longer agree.
- `Heap4`, for every size and alignment: `HeapIsAlwaysPartitioned`. `HeapInv` keeps a block that is being freed apart from the
  allocated ones, because its bit is cleared before the scheduler is suspended. `IsSplice` describes what
  inserting, merging with either neighbour or both, and splitting a block do to the list. The minimum ever free is no more than what is free, which
  `HeapIsPartitioned` says of it too.
- `StreamBuffer`, for every length, sizes of messages and reads and trigger level: `StreamStaysInOrder` and `StreamWakesUp`.
  `StreamInv` follows head and tail as positions that never wrap (`Holds(t, h, c)`: the ring holds the bytes `t .. h - 1` of an
  infinite sequence `c`), so that a byte has one position for ever. `Contents` says what those bytes are: the numbers of the stream, or
  messages one after another with their lengths (`Messages`), the last one without its data while the writer is between
  the two. `SpaceIsThere` says that what the writer saw as free is still so when it writes, `WaitsAreKnown` that who sleeps
  is known to the other side. The premise `NothingPutBack` says that readers have room for every message and nobody asks for
  the length of the next: `ks_message_put_back` shows what happens otherwise. Trigger levels are set at any time; what `StreamWakesUp` leaves
  out is the reader that sleeps while the level is lowered to what is there.

**TimerProofs.** `TimersAreListedExactly` and `BlocksNoLonger`, for every set of timers, periods, length of the queue, range of
the tick counter and `MaxLate`. That every listed value is the wrapped time of expiry is not inductive: whether a value belongs before or
after the next wrap depends on which list it is in and on which wraps the lists have been switched for. `TimesInv` counts those that they
have not (`Turn`: one the task has not noticed, one for which it is switching) and says that a timer of the current list expires `due`
ticks from now on that count, one of the overflow list a turn later, and that the latter lies at least
`MaxLate` ticks before the last look at the time, which is why a wait until the wrap is short enough. `ClockInv` bounds the time since that look,
so that no turn of the counter is missed while a timer is listed. `ArmedInv` says that who runs is listed or has a start queued,
`ReceivedInv` that a command that found the counter wrapped keeps its age while the lists are switched, `QueueInv` that nothing follows a
delete. The premise `OneShotsAreDeleted`, a timer whose memory is given back on deletion never reloads, is needed: the START that the task
sends itself for a reload may stand behind a DELETE, and refers to a timer that is gone. Stopping a timer that
reloads is covered by the theorems, although the run leaves it out.

**NetworkProofs.**

- `PoolIsConsistent`, for any number of descriptors and tasks. Semaphore and list change at different moments,
  so `PoolInv` counts the tasks between the two, and says that a descriptor in hand has its owner.
- `AnswersStayFresh`, for any size of the ARP cache. An address has one row and a device has one, and each needs the other: of a row of the address
  and another of the device the former is cleared and the latter used, which leaves one of both only if there was no third.
  So `vARPRefreshCacheEntry`, which looks on behind the row of the address for one of the device, finds the same rows in whatever order they
  lie in the table.
- `IpTaskWakesInTime`, for any queue and periods. `IpInv` adds that an interface that is down is about to be initialised
  (`DownNoticed`), and follows the sleep from the look at the timer to the wait (`SleepsWithTimer`): it is no longer than what was left at the look,
  and at the call it exceeds what is left by the ticks since then, which pass for both while the task is blocked.
- `ClientsStayAccountedFor`, for every set of sockets, packets, backlog and length of the queue. The property counts sockets, but what
  keeps the count right is who may delete one. `ConnectionInv` says that a socket is deleted at most once and by nobody who is not
  meant to: who has an event to be closed in the queue has it once, and belongs to no user (`ClosingsOK`, over the sockets `W` that
  users own); one that nobody has accepted is on its way to be connected, is
  connected, or closed (`SocketOK`, by its `bPassQueued` and `bPassAccept`); the count of the listener is that
  of its living children (`CountOK`); and what `FreeRTOS_accept` is offered is acceptable, and asked for when it is missing (`OfferOK`).
  The handlers of the IP task are long chains of helpers, each of which may delete the socket it works on, so the lemmas say of each helper that
  it takes a host that is sound to one that is (`HostOK`), and whether the socket is still there (`Ready`, `Stays`). The premise, the listener is not
  closed, is needed, as the table above shows.
- `AttentionIsPaid`, for the same constants and under the same premise: no socket with something to do is forgotten, and nobody sleeps over what has
  happened. Inductive together with `ConnectionInv` is `AttentionInv`: a socket that is not the listener has `usTimeout` set
  whenever it is due (`Attended`), the listener has no event its user was not told of, what a user owns is a socket it may use (`Held`), and
  each step of a call still relies on something (`WaitOK`): before it sleeps, that what it waits for is not there, or was told, or
  will be. Of a handler of the IP task the lemmas say what it may change of a socket without a word: whatever a user may wait for
  comes with its event (`Told`, `Heard`), from before the handler to its end (`Since`).
- `ChecksumsAreRight`, for every even number of values of a byte, every packet up to the bound, every alignment and seed. A one's
  complement sum knows a number but for multiples of `HalfBase - 1`, and whether it is 0, so `Same` relates numbers that agree in both: it is kept by
  sums (`SameAdds`), by a factor `ByteBase` (`SameTimes`), by a folding (`Folding`) and by a carry that is counted apart from what it carries (`WordAdded`),
  a swap is such a factor (`Swapping`), and it is equality for what fits into a halfword (`SameAmongHalves`). `Counts` says of the sum so far which bytes it stands for; both loops keep it
  (`SummedCounts`, `AddedCounts`), from a halfword or byte in front of the words (`StartCounts`) to the bytes behind them (`RestCounts`). An
  inverted byte changes the sum by an odd number times 1 or `ByteBase`, which is too small to be a multiple of `HalfBase - 1` (`FlipCounts`):
  this is where the number of values has to be even.

**DatagramProofs.**

- `SumFunction` of the library, a fold in an order nobody knows, is characterised first: `SumTakesOut` says that any element may be
  added last (by a smallest set for which it were otherwise), `SumChanges`, `SumAppend` and `SumTail` what a change of one
  element, one more and one less at the ends of a sequence do to a sum.
- `DatagramsAreReceived`, for any sockets, users, ports, lengths and sizes of the queue. `UdpInv` says of each socket and its user
  what each step of a call still relies on (`OwnOK`): who waits for a datagram, or selects, is told when one is there, has asked the IP task, or is
  about to; that a socket has at most one request in the queue of the IP task, and its user waits for it (`RequestsAwaited`);
  that what arrived is what was handed over and then what is queued (`InOrder`), and that a port has one socket (`OnePort`).
- `NoBufferIsLost`, for any number of sockets: the free buffers, those in the events of each kind and those that sockets and users hold
  add up to the pool (`BuffersInv`). The premise, no datagram is empty, is needed: `prvUDPRXTask` does not release the
  buffer of one that is, as the table above shows.
- `DescriptorsStayInStep`, for any sizes of the two rings, the pool and the queue. `RingOK(r, k, a, m)` counts positions from `txTail` on: of `k`
  descriptors that were filled the MAC has sent the first `m`, and `txHead` is `a` behind. That `emacps_check_tx` never takes back the one being
  filled, which is marked as used too, follows because it is then the only one in use and lies at the head (`DriverReclaims`).
- `NamesStayRight`, for any size of the cache, names, answers and neighbours, and with the IP task in between any two accesses. `NameInv` says that a row with a lifetime is what was told last for its
  name, except the one that is about to be overwritten (`RowOK`), that no row is younger than the call that looks it up (without
  which a neighbour's response, stored with the lifetime 0, could pass for a valid one), that a name has one row (`OneRowEach`), and what the
  task has found or stored so far member by member (`CallOK`). It holds until `raced`, that is until the IP task has stored at one of the points of `Races`, which name what `CallOK` relies on; that those points
  are no more than needed is not proved, and `dns_mixed` shows what happens at two of them. The premise, seconds that have not wrapped, is needed: the table above has the
  counterexample.
- `PositionsAreProtected`, of `HubRing`, for every size of ring and of frames, both kinds of writer and whatever the reader does: no
  frame is written over the two positions at the end of the ring. The invariant `WriterInv` follows the frame in hand through the
  writer's steps.
- Of `AxiDma`, for any channels and limit on polls, `TypeCorrect`, and `SuccessIsReal`: a call returns success only for a transfer
  that completed. The invariant says that a flag that is set while its call waits belongs to the transfer in hand, and so
  does an interrupt status with the handler.

**WindowProofs.** `StreamArrivesInOrder` and `SenderTracksEveryByte`, of `TcpWindow`, for every size of the two streams, the segments and their
pool, the windows and the sequence numbers, and wherever these wrap. Neither property is inductive alone: what the receiver may
read depends on what the packets in the network carry, this on what the segments of the sender refer to, and what the sender forgets
on what the acknowledgements in the network say the receiver has. `WindowInv` has six parts:

- `SenderOK`: the segments partition the bytes that were taken over and not acknowledged, and refer to them by the position of their
  place (`SegmentsOK`); each is in one queue, once, until it was reported (`QueuesOK`); and the stream holds these bytes (`Holds`) between
  positions that are the places of what was acknowledged and written, modulo its length (`Filled`).
- `ReceiverOK`: the stream of the receiver holds every byte from the first unread one to the one it expects, and those of the segments that it
  stores, which lie ahead of that one, within its length, and do not overlap in part (`Spread`).
- The sender is never ahead of the receiver, a packet carries the bytes that its number says (`PacketOK`), and an acknowledgement
  mentions only what arrived (`AckOK`), in its turn or as a reported range.
- `Sound`: the ends of all that was sent or stored, the number that the receiver expects and every number in an
  acknowledgement (`Marks`) cut none of the sender's segments (`Matches`) and none of the ranges sent or stored (`Split`). It is why
  an acknowledged or reported range covers whole segments, so that their lengths add up to it (`LengthsAddUp`), and why a packet never
  overlaps a stored one in part. It holds because the sender lets a segment grow only before it is sent: `pxHeadSegment` is the last
  one and lies behind all marks.

A sequence number stands for a place in the stream (`Place`). The assumption of the module, a stream of less than half as many bytes as there are
numbers, makes every comparison of `FreeRTOS_TCP_WIN.c` one of places (`Compares`), and circular buffers are reduced to places by a few
lemmas about remainders (`RingSum`, `RingDistance`, `RingFree`). `StepsDo` says where `RxSteps` leads, by induction over its steps, and
`ThoseKeeps` what leaving some members out does to a queue.

Assumptions are the `ASSUME`s of the modules (named, and evaluated by TLC in each
run) and the premises named above. Some exist for the proofs alone: that `"pool"` is no task of `NetworkBuffers`, that a heap has
room for one block header, that `MaxSleep` of `IpTask`, `MaxSeconds` of `NameService`, `FrameNumbers` of `EmacDriver` and the bounds of `TcpWindow` are numbers, that there are
finitely many sockets, and that the names of the sockets and tasks of `TcpConnection` differ.

The library's induction theorems take an operator as a parameter, which the installed provers cannot instantiate; where a proof
needs induction over numbers, it takes the least counterexample (`LeastExists`), whose existence follows from what is
known of finite intervals.

Only model-checked:

- the liveness properties (`Live` and the leads-to properties): fairness and `ENABLED` are out of the prover's reach;
- `IsFrameChannel`, which holds for certain sizes of rings and frames only, and `SentOnce`.

## What is not modelled

- The port layer: assembler, registers and the tick timer. The models take from it
  that critical sections are not interrupted and that a switch asked for inside one
  happens at its end.
- Generated code and board support, build output (`Debug/`), the polling of the PHY and
  the vendor's speed negotiation.
- DHCP, co-routines, outgoing pings, signals and call-backs: switched off, they compile to nothing.
- Formatting, traces, statistics, run-time counters, and the format of TCP options and of names in messages.
- The order of tasks of equal priority (round robin), left open everywhere.
- The initialisation that runs before the scheduler starts and in nobody's presence.
- Recovery from errors of the MAC, and the mapping of uncached memory.
- Failures of `malloc` for the streams of a TCP socket, at which the code resets or closes the connection (`FreeRTOS_Sockets.c:2955`,
  `FreeRTOS_TCP_IP.c:2209`): `TcpConnection` stores data whenever there is room.
- The time between the call of `FreeRTOS_closesocket` and the handling of its event in which a UDP socket is still a member of its set: `UdpSockets` takes it out when the
  event is posted, since its user may not use it, nor select on it, any more.
- Time-outs of socket calls of TCP: they are unlimited by default, and nobody sets them.
- In the kernel: queue sets, peeking from interrupts and the registry; the other actions of a notification;
  a base priority that changes while a mutex is held.

## The plan

What a continuation would do, in this order:

1. `UnreadIntact` of `HubRing` for writers that look for room, under the condition that it
   does not wrap onto the reader, and with it the refinement of `FrameChannel`.
2. A byte channel that `TcpWindow` and `StreamBuffer` refine, in place of the history in their properties.
3. `EmacDriver` with the descriptors of `NetworkBuffers` in place of its counter, and `TcpConnection` with the window in place
   of the answers that packets bring along.
4. Queue sets and the remaining functions of `queue.c`; base priorities that change
   while a mutex is held, in `KernelMutex`; the link timer of `phyHandling.c`.

The runs stay few: components that share nothing are checked side by side in one run, on the smallest instances
in which their hazards occur.
