# A specification of the LPC1768 Ethernet firmware

The repository is the firmware of a board with an NXP LPC1768: a driver for the
on-chip Ethernet controller (`ExtiDrive/emac.c`), lwIP 1.3.1 with the port that
connects it to the driver (`lwip-1.3.1/port/ethernetif.c`), a UDP echo service,
a "hello" sender and an (unstarted) TCP server (`App/TCP_server.c`). There is no
operating system: lwIP is built with `NO_SYS` 1, received frames are processed
to the end inside `ENET_IRQHandler`, and the main loop uses the same stack to
send. `SYS_LIGHTWEIGHT_PROT` is 0 (`lwipopts.h:31`), so `SYS_ARCH_PROTECT` is
empty and nothing keeps the two apart except that the main loop does not run
while the handler does. All paths below are relative to
`src/LPC1768_MC_LWIP/`.

This directory holds TLA+ models of that firmware, configurations that check
them with TLC, and proofs checked by TLAPS. `PROJECT.json` lists every run, the
properties it checks, the source lines of every definition, the hazards of the
code and the proved theorems.

## The system

| Component | State | Operations | What makes it correct |
|---|---|---|---|
| Receive path (`emac.c`, `LPC17xx_it.c`, `ethernetif.c`) | descriptor ring of 4, `RxProduceIndex`, `RxConsumeIndex`, status words, `IntStatus`, `gRxBuf` | controller stores and raises; `ENET_IRQHandler` polls, clears, reads one frame per RX_DONE | frames reach lwIP once and in order; a full ring is always read again; the copy stays in its buffer |
| Transmit path (`emac.c`, `ethernetif.c`) | ring of 3, `TxProduceIndex`, `TxConsumeIndex`, `gTxBuf` | `low_level_output` gathers and copies; controller sends | what is sent is one whole frame; order; nothing queued is forgotten; a refused frame is reported |
| Echo service and hello sender (`TCP_server.c`, `main.c`) | `flag`, the control block of the service, one of `zzsend` while it sends | `send` from the main loop, `udp_echo_recv` from the handler | datagrams are answered; hello after two quiet rounds, and always again |
| UDP control blocks (`udp.c`, `memp.c`) | list `udp_pcbs`, the blocks' addresses and flags, the pool `MEMP_UDP_PCB` | `udp_new`, `udp_bind`, `udp_connect`, `udp_send`, `udp_disconnect`, `udp_remove` (main loop), `udp_input` (handler) | the list stays a list and holds who is bound; no block is lost |
| Main program and bring-up (`main.c`, `netconf.c`, `netif.c`, `ethernetif.c`, `emac.c`) | what has been set up, PHY and controller registers, the interrupt enable | `LwIP_Init`, `netif_add` with `ethernetif_init`, `low_level_init` and its retry, `EMAC_Init` with its polls of the PHY, `udp_echo_init` | the handler, enabled in the middle of it, finds what it uses; bring-up ends; a missing link is noticed |
| RS-485 and serial port (`MAX485.c`, `uart.c`) | direction pin, THR and shift register of UART2 | polled sending between two delays | the board drives the bus until the last bit is out, and leaves it to others afterwards |
| ARP (`etharp.c`) | ARP table with states, ages and queued packets, the cached index, the pool of queue elements | output, query, learning from IP and ARP, lookup, timer | one entry per address; packets go out in order to where the host was heard last; none is lost without being freed |
| IP fragments (`ip_frag.c`) | list of datagrams in reassembly, the count of their pbufs, the pool of list elements | `ip_reass`, `ip_reass_tmr`, giving up the oldest, `ip_frag` | what is delivered is whole; what is complete is delivered; counts and list stay exact |
| Heap (`mem.c`) | block list, `lfree` | `mem_malloc`, `mem_free`, `mem_realloc`, from the main loop and the handler | blocks tile the heap; no block is given twice |
| Packet buffers (`pbuf.c`) | chains, reference counts, lengths | allocation, references, chaining, trimming, headers, copying | freed exactly when nobody has a reference; total lengths add up |
| TCP server (`TCP_server.c`), lwIP's IP, ICMP and TCP, periodic tasks, LCD, CMSIS, unbuilt parts | | | not modelled, reasons below and in `PROJECT.json` |

How the parts meet: the controller's DMA shares the rings and index registers
with the driver and runs in parallel with everything; the handler calls
`LwIP_Pkt_Handle` -> `ethernetif_input` -> `netif->input` -> `udp_input` ->
`udp_echo_recv` -> `udp_sendto` -> `low_level_output`; the main loop calls `send`
-> `zzsend` -> `udp_*` -> `low_level_output`. The behaviours that are hard to test
are those of three actors on shared memory without locks: the controller
against the driver (an interrupt between a read and a clear, a refilled
descriptor), the handler in the middle of a call of the main loop (lists,
buffers, `flag`, the heap), and rings at their limits.

## The modules

| Module | Models |
|---|---|
| `FrameFifo` | what both data paths promise: a bounded FIFO that never duplicates or reorders frames |
| `EmacRx` | the receive path |
| `EmacRxProofs` | theorems about `EmacRx` |
| `EmacTx` | the transmit path |
| `EmacTxProofs` | theorems about `EmacTx` |
| `UdpHello` | the application and the UDP control blocks |
| `UdpHelloProofs` | theorems about `UdpHello` |
| `MemAllocator` | what the heap promises: blocks that do not overlap and stay in place |
| `MemHeap` | lwIP's heap for one caller at a time |
| `MemHeapIrq` | the heap shared by the main loop and the handler |
| `MemHeapProofs` | theorems about `MemHeapIrq` |
| `Pbuf` | packet buffers, one call after the other |
| `PbufProofs` | theorems about `Pbuf` |
| `Etharp` | the ARP table and the packets that wait in it |
| `EtharpProofs` | theorems about `Etharp` |
| `IpReass` | reassembly of IP datagrams |
| `IpFrag` | how a datagram is cut |
| `IpReassProofs` | theorems about `IpReass` and `IpFrag` |
| `Board` | the main program: bring-up against the first frames, then the announcements on RS-485 |
| `BoardProofs` | theorems about `Board` |
| `MC_EmacRx`, `MC_EmacTx`, `MC_UdpHello`, `MC_MemHeapIrq`, `MC_Pbuf`, `MC_IpReass`, `MC_Board` | instances for TLC; where one adds nothing its constants are in the configurations. `MC_IpReass` composes `IpReass` and `IpFrag` |

A definition whose name starts with `Mut` is a plausible bug, kept next to the
definition it replaces; `PROJECT.json` pairs each with a property that must
detect it.

### EmacRx

A frame is its number in the order of arrival. Variables are the registers and
arrays of the code (`rxProduce`, `rxConsume`, `rxBuf`, `rxStat`, `intStatus`),
the position `pc` of the handler, its local `status`, and `gRxBuf`. Because the
controller works in parallel, each access of the handler to a register or to
the ring is one action:

| Action | Code |
|---|---|
| `RxStore`, `RxRaise`, `RxOverrun`, `TxDone` | the controller (external). Storing and raising are apart, so that the handler may see the frame before the interrupt |
| `IrqEnter`, `IrqPoll` | entry and the `while` condition of `ENET_IRQHandler` |
| `IrqClear` | `IntClear = status` and the test for RX_DONE |
| `CheckFrame` | `low_level_input` up to the decision to read, to drop or that there is nothing |
| `ReadPacketBuffer` | `EMAC_ReadPacketBuffer` |
| `UpdateRxConsumeIndex` | the release, on all paths that call it |
| `Input`, `InputNoMemory` | `pbuf_alloc` succeeds and `netif->input` is called, or returns NULL |

The length of a frame is computed as in the code, in 16 bits from the size field
(`FrameLength`). Checksums and addresses are left out: no decision of the driver
depends on them.

### EmacTx

A frame is its number and consists of `Segments` pbufs; `gTxBuf`, every fragment
of `tx_buf` and what is on the wire are modelled by the frame each segment came
from, so that a mixture is visible. `Callers` may be the main loop and the
handler; `MayRun` says that the main loop stands still while the handler is in
`low_level_output` and that nothing else keeps them apart.

| Action | Code |
|---|---|
| `Call` | `low_level_output` is called |
| `Gather` | one `memcpy` of its loop |
| `ReadConsumeIndex`, `CheckTransmitIndex` | `EMAC_CheckTransmitIndex`; -1 for the register minus 1 when that is 2^32 - 1 |
| `ChooseSlot`, `WritePacketBuffer` | `EMAC_WritePacketBuffer`, one segment per step |
| `ReadProduceIndex`, `UpdateTxProduceIndex` | the increment of `TxProduceIndex` |
| `Return` | `ERR_OK`, whatever `ethernet_send` returned |
| `DmaRead`, `DmaDone` | the controller (external) reads segment by segment while the driver writes |

`MaxWaiting` describes the environment, not the code: a frame is offered only
while fewer frames wait in the ring. The runs and theorems about whole frames
assume `MaxWaiting < NumTxFrag`; `tx_burst`, `tx_room` and `tx_errok` drop that.
The early return of `ethernet_send` for length 0 is left out: every frame of the
stack has a header.

### UdpHello

One action per access of the main loop to what it shares with the handler:
`flag++` is a read (`ReadFlag`) and a write (`WriteFlag`). `udp_bind` is its walk to
the end of the list (`BindStart`, `BindLoop`, with `rebind`), the assignments of address,
port and link (`UdpBind`), and that of the head (`BindLink`). `udp_connect` is three
assignments (`UdpConnect`), the walk that looks for `pcb` (`ConnectStart`,
`ConnectLoop`), and, if it comes to the end, the link (`Relink`) and the head
(`RelinkHead`). `udp_disconnect` is three steps; `udp_remove` is `RemoveTest`,
`UnlinkHead`, `Scan` and `Unlink`. The handler runs to its end between two such steps and
is one action, `Datagram`: the search of `udp_input` (`Visited`, `PerfectMatch`,
`Unconnected`, `MoveToFront`) and `udp_echo_recv` with the `send` it calls
(`Deliver`). Where the list is closed to a ring (`Endless`) and holds no perfect match,
that search does not end: `DatagramHangs` sets `hung`, and the main loop does not run any
more. `udp_pcbs` is not volatile, so wherever a function has read it and reads it again it
takes the value read before (`first`, or the one tested) or the present one. `relinked` is
history: `udp_connect` has linked a block, which was on the list all the while.
`memp_free` writes its link over `local_ip`, the first
field of a block, which is why `UdpFree` changes `local`. Addresses are model
values. The pbufs that `zzsend` allocates are not modelled here (`Pbuf` follows
pbufs, `MemHeap` the heap below them), nor are checksums and headers. In an empty pool
`UdpNew` is disabled, where the code would go on with NULL: `PoolSound` says it
never comes to that.

### MemHeap and MemHeapIrq

Addresses and sizes are in words of `MEM_ALIGNMENT` bytes. `headers` is the set of
addresses of the `struct mem` on the list, `next`, `prev` and `used` are its fields,
`lfree` the variable of that name; `held` is history, the size granted for each
block. `Malloc`, `Free` (with `PlugHoles`) and `Realloc` are the three functions; a
request that gets NULL changes nothing and is no step. What was a header before a
merge is forgotten, since nothing reads it. `held` maps each block to one of
`MemAllocator`, which shows that no operation touches a block it was not called
for.

`MemHeapIrq` splits the main loop's calls: `StartMalloc`, `SearchFinds`,
`SearchGoesOn` and `SearchEnds` are the loop of `mem_malloc`, `TakeBlock` the split
and `used = 1`, `AdvanceLfree` the rest; `StartFree` is `mem_free` up to `plug_holes`,
`FinishFree` that. Between two of them `Handler` may call any function of the heap
to its end: `mem_malloc` for an ARP request and for a packet that waits for an
answer, `mem_free` when that has been sent, `mem_realloc` if it shortens a pbuf of
the heap. Nothing keeps it out: `sys_arch_sem_wait`, the semaphore `mem_malloc` waits
for, is empty in this port (`sys.h:56`). Two history variables record what it
overlapped with. `overlapped`: it ran during the present search of `mem_malloc`.
`torn`: it ran where it can do harm, which is between finding a block, taking it and
moving `lfree`, between clearing `used` and plugging the holes, or so that the block the
search was at ceased to be a header. What a torn call makes of the list is not
followed, the model ends there (`Ended`); the properties say what holds until then, and
`TakenIsFree` what becomes of the first such call.

### Pbuf

`live` is the set of pbufs that are allocated, of the three kinds the stack uses
(`PBUF_POOL`, `PBUF_ROM`/`PBUF_REF` and `PBUF_RAM`); `next`, `ref`, `len` and `tot` are
the fields, `room` the space before `payload`. `held` is history: the references
clients have, one from each allocation and each `pbuf_ref`, given up by `pbuf_free`
or handed on by `pbuf_cat`. Each function is one action. `pbuf_free`'s walk is
`Survivor` (the first pbuf down the chain that somebody else refers to), `Unref` and
`Dealloc`; the loop of `pbuf_copy` is `CopyStart` and `CopyStep`, which records what
went where. Clients are assumed to change only packets that are theirs, as the
head of the module says; the code asks for the same in its comments.

### Etharp

`table` is `arp_table`, with the packets on an entry's queue as a sequence, `cached`
is `etharp_cached_entry`, which the code keeps as an index that nothing ever resets,
`freeQ` the free elements of `MEMP_ARP_QUEUE`. `find_entry` is `FindEntry` (`Found` with
the cache, `Victim` for what is recycled), `update_arp_entry` is `Update`, shared by
`IpInput` and `ArpInput`, and `etharp_query` is `Query` with `Enqueue`, where the copy
may fail as well as the pool. A packet is its number, `last` and `heard` are history
from which order and destination are judged. `etharp_query` returns `ERR_OK` also for a
packet it dropped for want of memory, where its comments (`etharp.c:992`, `997`) say
that the result is `ERR_MEM` "through initialization"; its callers ignore it.

### IpReass and IpFrag

An element of `MEMP_REASSDATA` is on the list of datagrams or in the pool's free list;
both use its first field as the link, so that one `next` models both, and an
element that is freed while it is still on the list shows. The functions of the list
(`Dequeue`, `FreeDatagram`, `RemoveOldest`, `EnqueueNew`) are operators on a record of
the state, called in the order of the code by `Reass` and by `Tmr`. `Thrown` and `Valid`
are what the walk over a datagram's fragments decides: they look where the code
looks, and not where it does not. `prev`, which `ip_reass_remove_oldest_datagram`
computes wrongly, is computed as it does. Where an element has been freed and is on the
list still, the list is broken (`~Apart`); what would follow is not modelled, the model
ends there (`Ended`). `BreaksInTheMiddle` says which steps lead there, and the other
properties what holds in all others. `Tmr` may be taken at any time or never.

`IpFrag` is `ip_frag`'s arithmetic: offsets, lengths, and the flag of each fragment,
also for a datagram that is a fragment itself. `MC_IpReass` cuts its datagrams with
it, one of them again for a network with smaller frames. `Pieces` says what it makes of
a datagram, and `LastCompletes` is about any fragments of which it holds; that it holds of
what `ip_frag` cuts `MC_IpReass` assumes of its constants, so that TLC evaluates it, and
`CutsArePieces` proves.

### Board

`pc` is the place of main from `LwIP_Init` to its endless loop, `ready` what it has set
up. `Frame` is the handler with a frame of one of three kinds; it may run from the
moment `low_level_init` calls `NVIC_EnableIRQ`, which is inside `netif_add`. `answer` is
what becomes of the frame: `broken` if the handler uses what is not there, `dropped`
if lwIP has no place for it yet. The PHY is external: a poll sees any value. The
loops of `emac.c` that are meant to fail when `tout` is 0 test it where it never is;
`ResetWait` and `LinkWait` end as the code does, successfully.

Time on the serial line is counted in bits. `Delay` is a bit of `TDelay`; `Shift` is a
bit that goes out while main waits for THR, or while the handler delays main. The
handler never makes a delay shorter. That `DelayTime` is at least two bytes
(`TimeAssumption`) is the one number the code's `TDelay(10000)` has to satisfy: 10000
passes of a loop over a volatile counter take about 100000 cycles, 1 ms at 100 MHz,
and two bytes at 115200 baud take 0.17 ms (at 9600 baud they would take 2.1 ms, and
the delay would not do).

## The runs

| Run | Bounds | Question |
|---|---|---|
| `rx_ring` | ring of 4 (the real `EMAC_NUM_RX_FRAG`), 6 frames, three status words at the limits, fairness | `RingHoldsNewest`, `HandedInOrder`, `NeverWedged`, `CopyFits`, `ImplementsFifo`, `RingDrains` |
| `tx_paced` | ring of 3 (the real `EMAC_NUM_TX_FRAG`), 6 frames of 2 pbufs, one caller that leaves a descriptor free, fairness | `WholeFrames`, `ImplementsFifo`, `EveryQueuedSent` |
| `tx_room` | ring of 3, no pacing | violates `SlotAvailable` |
| `tx_preempt` | main loop and handler, 3 frames | violates `WholeFrames` |
| `udp_all` | 3 control blocks, 4 datagrams from 4 kinds of sender, fairness of the main loop | `TypeOK`, `ListIntact`, `PoolSound`, `HelloNeedsQuiet`, `MissedOnlyWhileBound`, `HelloComes` |
| `heap_shared` | 21 words, requests of 1, 4 and 7, the handler between any two steps | `StaysTiled`, `HeldStayUsed`, `SoundBetweenCalls`, `NullMeansFull`, `ImplementsAllocator` |
| `pbuf_all` | two pool buffers, one reference, one block of the heap; up to 3 references held | `RefsCounted`, `LiveIsReachable`, `TotalsAdd`, `CopyWhole` |
| `arp_all` | a table of 2 for 3 hosts with 2 hardware addresses, 2 queue elements, 2 packets | `TypeOK`, `OneEntryPerAddress`, `ElementsAccounted`, `SentInOrder`, `SentToLatest` |
| `reass_all` | 4 datagrams in 10 fragments, one cut in two ways, for 3 elements and 6 pbufs | `CompleteIsWhole`, `PbufsCounted`, `ListSound`, `BreaksInTheMiddle`, `OwnIsKept`, `LastCompletes` |
| `reass_holes` | one datagram of 4 fragments | violates `CompleteIsWhole` |
| `board_all` | strings of 1 and 4 bytes of 3 bits, a delay of 6 bits, 2 polls, fairness | `DrivenWhileSending`, `HandlerFindsAll`, `WholeStrings`, `KeepsAnnouncing` |
| `board_link` | the same | violates `SuccessMeansLink` |

Why the bounds are enough. The rings are the real ones in `rx_ring` and all `tx_`
runs; six frames take both indices round the ring once and past the wrap-around
with the ring full and empty. Of the status words one is not read for its error, one
is the longest that is read, and one has a size whose 16-bit length wraps. Two pbufs
per frame are what `zzsend` sends (payload and headers are chained), and the smallest
number for which frames can mix. `MEMP_UDP_PCB` has 6 elements; the main loop never
holds more than one besides the echo service's, so a third one is the first that can
be confused with it, and the list never has more than two. The senders are the peer
from the port hello is sent to, the peer from another port, another host, and a host
with source port 0, which equals the remote port of an unconnected block. Four
datagrams reach every step of the main loop before, in and after one sending of
hello, and each reordering of the list of two twice; two of them make `udp_connect` link
its block again, and the other two come to the broken list. `flag` is capped at 3
(`MaxFlag`): only `flag > 1` is tested.

The heap's header and smallest block are the real ones, 8 and 12 bytes as 2 and 3
words. 21 words are up to four blocks, enough for a block between two others, in
use or free, of which the outer ones are not the ends of the heap. One request is
below the minimum (1), and a free block is for a later request an exact fit, a near
fit that is not split (7 words of space for 4), or split, also with nothing to
spare (8 words, two merged blocks of 3, for 3).

Four pbufs make a chain of three with one that is shared, by a client or by a second
chain that ends in it; the buffers of the pool are two units long, so that packets
fill one, end in the middle of one or at its end. A table of two ARP entries is full
with one host left over; the timer's limits are 3 and 2 instead of 240 and 2, so that
entries expire, and expire later than pending ones. In the reassembly three elements (5
in the code) are the first number for which the list has an element between two others,
which is where `ip_reass_remove_oldest_datagram` goes wrong; a fourth datagram meets an
empty pool, and a fragment that exceeds the count makes one of the others be given up
before that. Two of the datagrams are cut alike, and no property tells them apart: hence the
symmetry. An element may live for two calls of the timer, so that they expire one after
the other. A byte of 3 bits and a delay of exactly two bytes are the
tightest times allowed, so that a bit too few would show.

The `tx_` runs set `CHECK_DEADLOCK FALSE`: the system stops when `MaxFrames` frames
have been sent. The others never stop (TX_DONE, RX_OVERRUN, the main loop, ARP
packets, fragments and the clients of memory go on). Where a model ends because the code
has broken what it works on (`torn` in `MemHeapIrq`, a list that is not `Apart` in
`IpReass`, a handler that is `hung` in `UdpHello`) it stutters.

Fairness. `EmacRx`: weak fairness of the handler (the processor serves an enabled
interrupt and executes the handler) and of `RxRaise` (the controller raises the
interrupt of a stored frame); none for arrivals. `EmacTx`: weak fairness of the
controller, which sends what is in the ring; none for the callers. `UdpHello`:
weak fairness of the main loop, which runs when the handler does not; none for
datagrams, of which there are finitely many. `Board`: weak fairness of main, of the
serial line, and strong fairness of reading the PHY's identifiers right, which is to
say that there is a PHY: without one `low_level_init` tries for ever. The other modules
state no fairness. Of the timers of `Etharp` and `IpReass` least of all:
`LwIP_Periodic_Handle` is never called, nor is `ip_reass_tmr` called by anything it calls, so
in the firmware a packet may wait for ever and an incomplete datagram be held until another
one pushes it out. The timers are actions that may be taken or not, so that the safety
properties hold with and without them, and nothing is claimed of what expires.

Further configurations, for runs by hand:

| Configuration | Shows |
|---|---|
| `EmacTx_burst.cfg` | without pacing, past the full ring that looks empty, what is sent is still in order (`SentInOrder` holds) |
| `EmacRx_stranded.cfg` | `IdleMeansEmpty` is refuted: frames stay in the ring while the handler is idle |
| `EmacTx_errok.cfg` | `OkMeansQueued` is refuted: a refused frame is reported as sent |
| `UdpHello_missed.cfg` | `EveryDatagramEchoed` is refuted: a datagram goes to hello's block |
| `UdpHello_relink.cfg` | `AddedIfAbsent` is refuted: `udp_connect` links a block that is on the list |
| `MemHeapIrq_preempt.cfg` | `TakenIsFree` is refuted: the handler takes a block that the main loop's search has found |
| `IpReass_list.cfg` | `StaysApart` is refuted with three elements: a datagram is given up and stays on the list |

## What the code does otherwise than it says

Four are runs that TLC refutes; `PROJECT.json` quotes the sentence.

1. `tx_room`: `EMAC_CheckTransmitIndex` compares with `TxConsumeIndex - 1` without
   wrapping, so a full ring with consume index 0 passes for one with room, and
   the next produce index makes the ring look empty (`emac.c:843`).
2. `tx_preempt`: the protection named in `low_level_output`'s comment is compiled
   out; a frame of the main loop goes out with bytes of the handler's
   (`ethernetif.c:182`).
3. `reass_holes`: a fragment that is put between two others is not compared with the
   one before it, and "if still valid, all fragments are received" (`ip_frag.c:434`)
   is not so: a datagram is delivered with a hole (`ip_frag.c:358`).
4. `board_link`: the loops that wait for the PHY never report a time-out:
   `EMAC_Init` succeeds without a link (`emac.c:543`, against `emac.c:325`).
   `KeepsAnnouncing` shows that the board comes up nevertheless.

The others are found with the further configurations:

5. `EmacRx_stranded.cfg`: two frames that arrive before the handler reads `IntStatus`
   share one RX_DONE, and the handler reads one frame per RX_DONE. The second stays in
   the ring until another frame comes (`LPC17xx_it.c:13`, against `emac.c:818`).
6. `EmacTx_errok.cfg`: `low_level_output` returns `ERR_OK` for a refused frame
   (`ethernetif.c:193`, against `ethernetif.c:165`).
7. `UdpHello_missed.cfg`: while hello is sent, its control block is bound to the echo
   service's port and gets datagrams that nobody answers (`TCP_server.c:412`).
   `MissedOnlyWhileBound` shows that, as long as finding 10 has not struck, this is the
   only time. `udp_bind` does not refuse
   the port: its test for `ERR_USE` is compiled out (`udp.c:596`).
8. `MemHeapIrq_preempt.cfg`: `mem_malloc` waits for a semaphore to "protect the heap
   from concurrent access" (`mem.c:510`), and the port's semaphore is empty: the handler
   takes the block that the main loop's search has just found (`sys.h:56`).
   `heap_shared` shows that until a call is torn apart like this the heap is sound.
9. `IpReass_list.cfg`: `ip_reass_remove_oldest_datagram` takes the last element but one
   for the one before the oldest (`ip_frag.c:238`), against the assertion
   `prev->next == ipr` (`ip_frag.c:164`), which is compiled out. If the oldest is neither
   the first nor the last, it is freed and stays on the list. `BreaksInTheMiddle` shows that
   the list does not break in any other way.
10. `UdpHello_relink.cfg`: `udp_connect` links a block that its walk did not meet, "PCB not
   yet on the list, add PCB now" (`udp.c:717`), though it is on the list: a datagram from
   source port 0 has moved the echo service's block to the front and, while the walk stood
   there, one from the peer's hello port has moved zzsend's block before it. Then
   `pcb->next = udp_pcbs` is `pcb` itself (`udp.c:718`); the echo service is off the list,
   and the next datagram without a perfect match never leaves the loop of `udp_input`.
   `NeverRelinked` proves that it takes a datagram of both kinds.

By reading alone: `netif->mtu` is 1536, more than `IP_FRAG_MAX_MTU` (1500, `opt.h:443`),
which sizes the static buffer of `ip_frag`, and with the Ethernet header more than
`gTxBuf` holds.

## What is proved

The theorems hold for every value of the constants that satisfies the modules'
assumptions (`NumRxFrag` and `NumTxFrag` at least 2, status words with an 11-bit
size field, a packet buffer of whole words, at least one segment, strings that are not
empty, a delay of at least two byte times, at least one poll of the PHY, at least two UDP
control blocks, a heap with room for a header and a block, headers and requests that are
not empty, addresses of hosts that differ from the special ones, `ARP_MAXPENDING` at
most `ARP_MAXAGE`, finitely many pbufs, each of one kind, pool buffers longer than one
unit, fragments that are not empty and of which none is a whole datagram, and at least one
reassembly element).

`EmacRxProofs` proves of `EmacRx`, without further conditions, `TypeCorrect`,
`RingContents` (`RingHoldsNewest`), `InOrder` (`HandedInOrder`), `NoLostWakeup`
(`NeverWedged`), `CopyInBounds` (`CopyFits`) and `Refinement` (`ImplementsFifo`). The
inductive invariant `IInv` adds to the properties: what the handler knows at each
place (`HandlerInv`: at `copy` and `release` the ring is not empty and the frame in
`gRxBuf` is the oldest one; at `input` it is the last one released) and that all
frames handed up are older (`HandedInv`). Without them neither `HandedInOrder` nor
`RingHoldsNewest` is preserved by the release of a descriptor. `StoreRing` and
`ReleaseRing` are the two facts about the ring that everything rests on: a store
appends to `Queue` and a release takes its head.

`EmacTxProofs` proves `TypeCorrect` of `EmacTx` for any callers at any pace: even
when the test of `EMAC_CheckTransmitIndex` is overtaken, no index leaves the ring.
The others assume `Paced(c)`: `c` is the only caller and `MaxWaiting < NumTxFrag`.
Findings 1 and 2 are why: without it they are false. They are `FramesWhole`
(`WholeFrames`), `FramesInOrder` (`SentInOrder`) and `Refinement` (`ImplementsFifo`).
The inductive invariant `TxInv` says that a caller that holds a frame found two
descriptors free and that only the controller has moved since (`IndexInv`), that
`gTxBuf` and the descriptor at the produce index are filled up to the segment
the caller is at (`FrameInv`), that the descriptors in use hold the frames queued
last (`RingInv`), that what the controller has read is the start of the oldest
(`DmaInv`) and that the i-th frame sent is frame i (`SentInv`). The refinement maps
publishing to `Accept`, the first segment read to `Take`, the end of a frame to
`HandUp`, and everything else to a stutter.

`BoardProofs` proves of `Board` `TypeCorrect`, `BusDriven` (`DrivenWhileSending`),
`StringsWhole` (`WholeStrings`) and `HandlerReady` (`HandlerFindsAll`), for strings of any
number and length and any times with `DelayTime >= 2 * ByteTime`. The invariant `IInv` has
two parts. `SerialInv` is about the line: outside the writing of a string and the delay
after it the transmitter is empty; in that delay it holds no more than what the rest
of the delay suffices for; and the bytes of the string are out, in THR or the shift
register, or not written yet. Its core is the lemma `BitShifts`: whatever the
transmitter holds is empty one bit earlier after each bit, also when the handler, not
main, let that bit pass. `BootInv` is what main has set up before each of its places.

`MemHeapProofs` proves of `MemHeapIrq` `TypeCorrect`, `ListSound` (`StaysTiled`),
`ClientsKeepTheirBlocks` (`HeldStayUsed`), `CallsRestore` (`SoundBetweenCalls`),
`NullOnlyIfFull` (`NullMeansFull`) and `ImplementsAllocatorOfBlocks`
(`ImplementsAllocator`), for a heap of any size and any requests, with the handler between
any two steps of the main loop. They hold until it tears a call apart (`torn`), which the
properties name; after that the code promises none of them, as `MemHeapIrq_preempt.cfg`
shows. `NullOnlyIfFull` speaks of searches the handler did not run in: if it did, it may
have freed a block behind the search. The inductive invariant is `UntilTorn`. The
parts of the inductive invariant beside the properties are: `next` and `prev` agree
(`Linked`); at each place inside a call the block the main loop is at is where that
place needs it (`Places`); no two free blocks are neighbours, except the one `mem_free`
is about to join with its neighbours (`Plugged`); `lfree` is the lowest free block, except
where a call has yet to correct it (`Lowest`); and what the search of `mem_malloc` has
passed has no room, if the handler was not there (`Searched`). `Cut` and `Merge` are the two facts about
the list: what `mem_malloc` does when it splits a block, and what `plug_holes` does when it
joins two. The refinement maps the taking of a block to `Give`, the clearing of its
`used` to `TakeBack`, a shrinking `mem_realloc` to `Shrink`, and all else to a stutter.

`UdpHelloProofs` proves of `UdpHello` `TypeCorrect`, `PoolNeverEmpty` (`PoolSound`),
`ListAlwaysIntact` (`ListIntact`), `HelloOnlyAfterQuiet` (`HelloNeedsQuiet`),
`MissedOnlyThen` (`MissedOnlyWhileBound`) and `NeverRelinked`, for any datagrams and a pool
of any size. Two of the properties hold until `udp_connect` links a block (`relinked`), which
is finding 10; `NeverRelinked` says that it never does where no datagram has source
port 0 or none comes from the port hello is sent to. The parts of the invariant that hold
also afterwards are which blocks are in the pool and at which places `zzsend` has one of its
own (`PoolInv`, `PcbInv`), what the address fields hold (`FieldInv`; when `udp_bind` or
`udp_remove` changes the list zzsend's block has no remote address, so that no datagram moves it
to the front at that moment), and what `flag` and the echoes since say of each other
(`FlagInv`). `UntilRelink` is what holds until then: where on the list that block is, and how
far each walk has come (`ListInv`). `ListIntact`
is about a walk, a recursive function; as there are at most two blocks on the list,
the lemma `Walk` unfolds it, after showing that the function exists by the
least number of steps for which it would not.

`EtharpProofs` proves of `Etharp` `TypeCorrect` (`TypeOK`), `OneEntry`
(`OneEntryPerAddress`), `ToLatest` (`SentToLatest`), `NoElementLost`
(`ElementsAccounted`) and `InOrder` (`SentInOrder`), for a table of any size. The invariant adds to the first that every
entry in use is a host's, and says for the second that a stable entry has the
address its host last claimed. The latter is preserved, though a frame whose sender
finds no place in the table changes nothing there, because such a sender has no
entry. `FindEntryIs` is the fact everything rests on: an address that is found is found
in its only entry, and one that is not gets an entry of the table or an error. The elements
of the queues are counted with a sum over the table; the proof takes it apart one entry
at a time, as every action changes the queues of one entry, except the timer, which goes
through all of them.

`PbufProofs` proves of `Pbuf` `ReferencesExact` (`RefsCounted`), `TotalsExact`
(`TotalsAdd`), `LiveExact` (`LiveIsReachable`) and `CopiesAreWhole` (`CopyWhole`), for any
number of pbufs of each kind, any lengths and any size of pool buffers. The invariant adds
to the first two that links go from one live pbuf to another (`LinksLive`), that a live
pbuf is referred to (`Referred`), and `Acyclic`: of any set of pbufs one has a link that
leads out of the set. The last is what takes the place of an induction along a
chain. `Lowest` is that induction: of the pbufs for which something fails, one has a link
to a pbuf for which it does not. `AllReached` uses it to show that the walks of
`pbuf_free` and of `pbuf_realloc`, which are recursive functions, exist and arrive where
they should. `LiveExact` follows by counting: a live pbuf no client reaches
would be linked from another such pbuf, so that the links would map a part of these onto
all of them. In `CopiesAreWhole` the loop of `pbuf_copy` is a function of the number of its
passes (`Iterated`); its invariant `Sound` says that what is copied so far is the same in
both packets, and the pbufs left of the two together decrease with every pass.

`IpReassProofs` proves of `IpReass` `TypeCorrect` (`TypeOK`), `CountExact` (`PbufsCounted`),
`ListExact` (`ListSound`), `BreaksThereOnly` (`BreaksInTheMiddle`), `OwnKept` (`OwnIsKept`) and
`LastPieceCompletes` (`LastCompletes`), for any fragments and any number of reassembly
elements. `DequeueRight` says that an element is taken off the list properly if the element
before it is given, and `DequeueWrong` that with the last but one given, as
`ip_reass_remove_oldest_datagram` does (finding 9), any element but the first and the last stays
on the list. `BreaksThereOnly` is what follows for the whole of the code: the list breaks only
when a datagram in the middle is given up for a fragment of another one. The model ends in
such a state, and the invariant `IInv` says nothing of the list
there (`Sound`). Otherwise it says which sequences the list and the pool are (`Lists`),
that every datagram holds fragments of its own, sorted by their offsets, and knows of its last
one (`InOrder`), and that the count is the sum over all elements (`DataOK`). `Reduced` is what
the loop that gives up datagrams keeps: the datagram the fragment belongs to is as it was, and
if the list is broken, the element freed last was `Loose`, in the middle and of another
datagram. `LastPieceCompletes` needs that fragments are put where they belong
(`PlaceIs`, `InsertSorted`) and that sorted pieces of one datagram adjoin (`PiecesAdjoin`).

`DeliveredWhole` proves `CompleteIsWhole` for the fragments it can be relied on for: none goes
beyond or into the last fragment of its datagram (`EndsOnce`), and there is no room for a
missing one before two that adjoin (`NoneBetween`), as in datagrams of up to three fragments.
The fragments of `reass_all` are such (`MixedIsSimple`, which TLC evaluates); a datagram of
four is not, and there the property is false (finding 3). The walk does not compare the
new fragment with the one before it unless it is the last of the list, so two facts carry the
proof: what adjoins behind it leaves no room before it (`ValidWhole`), and the length that was
noted is the end of a fragment that is held (`EndHeld`, kept by `InOrder`), also where the one
that told it was thrown away as a repetition (`ThrownEnds`).

Of `IpFrag` it proves `CutIsWhole`: for any length, offset and MTU with room for eight bytes
the fragments fit, start at multiples of eight, leave neither gap nor overlap, and have
`IP_MF` except at the end of the datagram; so they are what `LastCompletes` speaks of
(`CutsArePieces`). The loops of both modules (the walk along a list, the giving up of
datagrams, the timer, the cutting) are functions of the number of their passes: `Iterated`
shows that such a function exists, and `Along` carries an invariant from pass to pass.

Only model-checked: the liveness properties `RingDrains`, `EveryQueuedSent`, `HelloComes` and
`KeepsAnnouncing` (liveness under fairness and ENABLED are beyond the prover). Every safety
property of the passing runs is stated by a theorem, two under conditions on the constants that the
theorem names: `CompleteIsWhole`, as above, and those of `EmacTx` for one paced caller. Where
the code breaks a property (findings 8, 9 and 10) the property says until when it holds.
Nothing else is assumed; no module declares a RECURSIVE operator.

## What is not modelled, and the plan

Not modelled:

- lwIP's IP input and output, ICMP and checksums (`ip.c`, `icmp.c`, `inet_chksum.c`):
  a packet passes through without leaving any state behind.
- TCP and the TCP server: `tcp_echoserver_init` is never called and nothing else
  listens, so that `tcp_input` answers every segment with a reset.
- the periodic tasks themselves, which are never called; their timers are actions.
- the preemption of `pbuf_*` and `etharp_*` by the handler. Main and handler do not
  share pbufs, but they share the ARP table: a packet of main's may be queued on an
  entry the handler has just confirmed, and wait there until it expires, if it does.
- `udp_bind` to an ephemeral port, checksums, header construction, statistics.
- the LCD (fixed delays, written once), CMSIS, and the files that are in the
  repository and not in the build or compiled to nothing (`httpd.c`, `tftpserver.c`,
  SNMP, IPv6, PPP, DHCP, DNS, AutoIP, IGMP, the sequential API). These are by far the
  greater part of the source lines.

Left in the plan, the most important first:

1. `EtharpIrq`: main's `etharp_query` step by step against the handler, as `MemHeapIrq`
   does for the heap, with "no queued packets should exist on stable entries"
   (`etharp.c:371`) as the property to judge it by.
2. A composition of `EmacTx` and `UdpHello` in which the handler's answer and hello share
   `gTxBuf`.
3. The buffers of `ip_frag` and the packets that ARP copies from them.
