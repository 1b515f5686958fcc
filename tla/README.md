# Verification of the FPGA query accelerator

The repository is a small database on a DE2 board. A client sends an HTTP request
with a table name, a limit and an SQL text. The firmware (Nios II, uC/OS-II,
NicheStack) reads the table from an SD card, compiles the query into 32-bit
instructions, streams the rows through a hardware pipeline that filters, limits
and aggregates them, and answers with the rows it drained, or with a count or a
sum. This directory holds TLA+ models of the hardware, the firmware and the parts of
the network stack they depend on, the TLC runs that check them on small instances, and
TLAPS proofs that hold for every size.

`src/` paths are abbreviated below: *firmware* is
`src/ProjetoFinal/DE2_NET/software/nios`, *stack* is
`src/ProjetoFinal/DE2_NET/software/nios_bsp/iniche/src`.

## 1. Inventory

| Component | Source | State it keeps | Operations | What makes it correct |
|---|---|---|---|---|
| FIFO | `vhdl/FIFO.vhd` | memory, two pointers, occupancy, output register | clock edge with read/write enables, reset | a bounded queue; pointers and counter never drift |
| Pipeline | `vhdl/pipeline.vhd`, `whereFilter`, `limit`, `count`, `sum` | two FIFOs, loaded instructions, four pipeline stages, accumulators | clock edge, reset | every row that is read is judged once; done comes after the last row |
| Slave | `ip/user_hw/user_hw.v` | control pulses, data and instruction registers, sticky EOF flag | bus write, status/data read | pulses last one cycle; a reset clears everything |
| Query driver | firmware `network_tasks.c` (`process_request`, `compile_and_send_instructions`, `feed_source_to_hardware`, `drain_output_words`, `build_success_body`) | bytes sent, captured rows, stall counter | clear, load program, feed, drain, signal EOF, poll, reply | the answer is the query's answer; nothing lost; always ends |
| Network tasks | `network_tasks.c` (`rx_task`, `tx_task`, response functions) | published socket, pending request, semaphore, shared response buffer | accept, check, recv, parse, publish, pend, process, send, close | one query at a time, right request, one response each, no socket leak, every request answered |
| Request/SQL parsing | `network_tasks.c` | none beyond the request | scanning of TABLE=, SQL=, LIMIT=, fragments, WHERE | the parsed query is the one written |
| Table loading | `network_tasks.c` (`load_table_from_sd`) | one static file buffer | read, fall back to the bare name, check header, clip row count | the rows are the file's rows |
| SD card protocol | firmware `sd_driver.c` (`sd_init`, `sd_read_sector`) | card type | command and answer, retries, block read | the sector asked for, or an error |
| FAT reader | `sd_driver.c` (`sd_read_file`) | geometry, cluster, bytes read | find the boot record, scan directories, follow cluster chains | the right file, its bytes in order, an end |
| Ethernet driver | firmware `dm9000a.c`, stack `net/pktalloc.c`, `net/q.c`, `ip/ipnet.c` | chip registers, receive queue, buffers | reset, interrupt, send, receive, buffer allocation | registers and frames are not mixed up, buffers not lost, nothing stuck |
| Start-up, DHCP client | firmware `main.c`, `mac_ip_utils.c`, stack `misclib/dhcsetup.c`, `net/dhcpclnt.c` | client state, lease, interface address | discover, request, renew, rebind, expire, time out | the address in use is a granted one within its lease; the servers start |
| Socket waits | stack `misclib/tk_crnos.c`, `nios2/osportco.c`, `tcp/socket*.c`, `UCOSII/src/os_sem.c` | table of sleeping tasks, semaphores, NET_RESID | sleep, time out, wake up, lock | a call that can return does |
| PC tools, test benches, old versions, other BSP parts, generated HDL | see `PROJECT.json` | - | - | not modelled |

How they interact. `rx_task` (priority 10, the higher one) hands a request to
`tx_task` (priority 11) through `pending_request`, `current_client_socket` and
`query_ready_sem`; both format text in `http_response_body`. `tx_task` loads the table
through the FAT reader, which calls `sd_read_sector` for every sector, and drives the
slave by memory-mapped writes and reads. The slave and the pipeline share the CPU's
clock, so the timing between bus accesses and pipeline stages matters. Both tasks call
the sockets of NicheStack, which put them to sleep with `tcp_sleep` until `tk_netmain`
wakes them for a packet that the Ethernet interrupt has queued. `tk_netmain` and
`tk_nettick` run the DHCP client between them, without a lock.

The hard behaviours: rows in flight when the end of the input is signalled; flags
that are stale when they are used; a pipeline without back-pressure; what one query
leaves behind for the next; tasks and interrupts that preempt each other at any point;
requests that arrive in pieces; card answers and sectors that are lost; replies that
come late; wake-ups that race with timeouts. `PROJECT.json` lists each with its line
under `hazards`.

## 2. Modules

| Module | Models | Notes |
|---|---|---|
| `BoundedQueue` | what a FIFO promises | abstract specification, also used as the FIFOs of the pipeline |
| `FIFO`, `MCFIFO` | `FIFO.vhd` | implements `BoundedQueue` |
| `Instructions` | the instruction word: packing in C, slicing in VHDL | arithmetic on the 32-bit word |
| `Pipeline` | `pipeline.vhd` and its stages | one operator per clocked process, one variable per register |
| `UserHw` | `user_hw.v` | `HwClock` is one edge of the shared clock |
| `QueryEngine` | what a query should return | abstract specification |
| `Accelerator`, `MCAccelerator` | the query driver on top of `UserHw` | composes driver, slave and pipeline; implements `QueryEngine` |
| `NetworkTasks`, `MCNetworkTasks` | the two tasks | |
| `BlockDevice` | what `sd_read_sector` promises | abstract specification |
| `SdCard`, `MCSdCard` | `sd_init`, `sd_read_sector` and the card | implements `BlockDevice` |
| `FatVolume` | how a PC lays out a FAT16 or FAT32 volume | the sectors of a volume; external |
| `SdFiles`, `MCSdFiles` | `load_table_from_sd` and `sd_read_file` | over the sectors of a `FatVolume` |
| `Dm9000a`, `MCDm9000a` | chip, interrupt handler, senders, buffers, `tk_netmain` | |
| `DhcpClient`, `MCDhcp` | start-up and the DHCP client | |
| `SocketWait`, `MCSocketWait` | `tcp_sleep`, `tcp_wakeup`, the lock and the semaphores | |
| `FIFO_proofs`, `Accelerator_proofs`, `NetworkTasks_proofs`, `SdCard_proofs`, `SdFiles_proofs`, `Dm9000a_proofs`, `DhcpClient_proofs`, `SocketWait_proofs` | | section 4 |

### FIFO
The three `if` blocks of the VHDL process are `WritePort`, `ReadPort` and
`Occupancy`; `Clock` applies them to the values before the edge. `Reset` leaves the
memory alone, as the code does. `Contents` reads the queue out of the circular
buffer, and is the refinement mapping.

### Pipeline and UserHw
A row is a function from column to byte; the slices of the 32-bit word are its
values. Registers that nothing reads (`count_active`, `sum_active`, `read_prev`, the
occupancy ports) are left out. `limit_val_reg` and `count_col_idx` survive the reset,
as in the code. The software reset is asynchronous: it acts on the edge that sets
`sw_rst` and on the one that clears it. The limit counter has its eight bits
(`% 256`), the accumulators `ACC_MOD` (2^32 on the board, a smaller power of two in
the runs, which do not come near it), and `sum` subtracts 48 modulo 256.

### Accelerator
Every step is one clock cycle. The firmware is a program counter `pc` over its bus
accesses; between two accesses any number of `Idle` cycles may pass (other
instructions, preemption, `OSTimeDlyHMSM`). A write takes one cycle, a read is held
`READ_WAIT` cycles and sampled in the next, which is what `user_hw_hw.tcl` declares
(`readWaitTime 1`, `writeWaitTime 0`). Two writes never fall in consecutive cycles:
`write_pulse` would merge them, and the model assumes that the CPU does not do it.
This is the one assumption about the bus that the sources do not state.

A query is a record: its table, limit, whether its text has the COUNT( or SUM( in capitals that
`parse_request_body` looks for before it caps the limit (`capitals`; the aggregate itself is
recognised in any spelling, and `MCAccelerator` has queries `Respelt`), conditions, aggregate and
column (-1 for a
column the schema does not have; `find_column_index` returns no other, and
`load_table_schema_from_buf` refuses a header with more columns than a row has bytes).
`Program` is the sequence of instructions the
compiler sends, including the part that has been sent when it fails. `captured`
counts rows where the code counts bytes (a row is one word, as
`load_table_schema_from_buf` enforces). `source_read_word` cannot fail: the table's
size was computed from the same buffer.

`QueryEngine` says what the board promises for a query that fits its instructions
(`Representable`: a limit and values of eight bits, known operators, sums without text and
within the accumulator): the matching rows in order up to the limit, their number or their sum.
The rows that pass are a recursive function of the number of rows looked at (`PassingOf`), which
is the form the proof needs; TLC compares it with the plain definition, the first rows of those
that match, for the queries of every run (`PassingIsFirstMatching` in `MCAccelerator`). The
engine includes the one way the code has of giving less: `Stalls` describes exactly the queries
whose limit is reached with more rows left than the input FIFO holds, which are answered without
rows. That this is not what the tests expect is a finding, not part of the engine's promise (see
runs `limit_stall` and below).

### NetworkTasks
One step is one access to shared state or one socket call. `tx_task` runs only while
`rx_task` is blocked (`RxBlocked`): in `accept` or `recv` with nothing to take, or in
`send`. A request is its client and whether all of it was received; what
`process_request` does to the hardware is one step with the outcomes it can have. The
response buffer has `BodySize` chunks of text, each marked with the client it was
written for, which is enough to see one client's text in another's answer. The stack
(`Connect`, `Arrive`, `Close`) is that of NicheStack as the tasks see it: `soisconnected` puts
connections into the backlog, `tcp_input` appends a request whole, in two parts, or not at all,
and `t_socketclose` frees the socket.

### SdCard
One step is one command with its answer: the bytes that `sd_cmd` shifts in and out, and its
polling, are a set of possible answers, with `R1_NONE` (0xFF) for none. The card is external:
its kind (none, v1, v2, SDHC), its state and whether the last command was CMD55. The answer to
CMD8 may also be damaged in its check pattern, which ends `sd_init`. When the answer of a
command in `Losable` is lost the card may have obeyed or not. `initialised` is what `sd_init`
returned; `main` ignores it but for a message, and `sd_read_sector` does not know it. An address
wraps at `ADDR_MOD` (2^32); that the volume of a byte-addressed card lies below is an
assumption, `AddressAssumption`.

### FatVolume and SdFiles
`FatVolume` builds the image of a volume: partition table, boot record, FAT copies, root
directory, clusters. A sector holds a few entries, FAT links or data cells. `SdFiles` is
the reader: each step is one `sd_read_sector` and what the code does with its contents,
including every early return. It may fail `MaxFaults` times. Names are records (six
letters, two more, the rest, the extension), which is as much as `to83` and
`to83_alias_guess` tell apart; `to83` and the alias are computed, not looked up.
A FAT32 volume whose root cluster is below 2 has no root directory for the scan (`ScanSectors`,
volume `Rootless`). The two early returns of `load_table_from_sd` for a name that is refused or too
long are not taken: `parse_request_body` has refused the one, and the other does not fit a
request's name.
`sd_file_buffer` is static and keeps the cells of the load before, which is why the
clipping of the row count matters. `SdFiles` relies on `BlockDevice`: a sector is right
or an error.

### Dm9000a
The tasks' accesses to the index and the data register are separate steps, and the
handler may run between them. A sender masks the chip's interrupt with its first access, to
IMR, and unmasks it with its last, to IMR too, so the handler can come between index and
data only there; and the last register the handler itself selects is IMR, which is why the
sender's data still goes to the right register (`Selected`). The chip goes on receiving and
transmitting in between. `TransmitPacket` is the sequence `Order` of register accesses.
Buffers are counted in the two queues of `pktalloc.c`; `pk_alloc` is two steps, since its
test of the queue is outside of the lock that `getq` takes. Its branch for more than
`bigbufsiz` bytes is never taken, as an Ethernet frame fits a large buffer, nor is the error
return after `alt_irq_register`, whose interrupt number is a constant. Frames the driver does not
understand make it reset the chip (`GoesWrong`, `IsrReset`).

### DhcpClient
`tk_netmain` runs `dhc_setup` and the handler of replies, in one step each; `tk_nettick` runs
`dhc_second`, and since its priority is lower, `tk_netmain` may run while it is in the middle of
a send, between two tests of the state, or between the three assignments of a restart
(RESTARTING, `dhc_resetip`, INIT). In that window a DHCP reply leads to INIT (the bad state of
`dhc_upcall`), and a BOOTP reply binds an address that `dhc_resetip` then clears: this is why
`AcknowledgedAddress` and `ReadyWithAddress` leave out the place `reset`, where only the last
assignment of the restart is to come. `lease` is what the timers go by: the lease of the last
ACK, or the `DHC_INFINITY` that a BOOTP reply puts into `t1`. Time is counted in ages of the
last packet, the lease and the set-up. A lease of zero counts as one of a second, since the
client looks at it once in a second. Replies are delivered in order, and may be lost, late, of
an earlier transaction, from another server, or plain BOOTP.

### SocketWait
A step is one access to the table or to a semaphore. A task runs when no application task of
higher priority is ready; one between two calls does not count as ready, since whether it
computes or waits for something else is not modelled. Two tasks of the stack wake the others:
`tk_netmain` for what arrives (`Deliver`), and `tk_nettick`, which signals the listening socket
twice a second whether or not there is a connection (`tcp_slowtimo`). `OSSemPost` hands
NET_RESID to the waiting task of highest priority. Time-outs race with wake-ups, entries stay
behind, tokens are taken by the wrong task, and a full table makes `tcp_sleep` yield. What a
call waits for is counted in `avail`, and each event has one task that waits for it, as in the
firmware.

## 3. Runs

| Run | Module / cfg | Result | What it shows |
|---|---|---|---|
| `fifo` | `MCFIFO` | passes | circular buffer = bounded queue, depth 3 (not a power of two, both pointers wrap) |
| `single` | `MCAccelerator` | passes | one query, all tables of up to four rows over two rows, limits 0, 1, 2, 5, three WHERE clauses, all aggregates: nothing lost in or out, done after the last row, engine implemented |
| `sequence` | `MCAccelerator`, `MCSequence.cfg` | passes | two queries one after the other out of ten chosen to leave something behind (stalled, refused halfway, limit, conditions, EOF flag): no influence, both answered |
| `tasks` | `MCNetworkTasks` | passes | three clients, one of them malformed: hand-over, sockets, responses, liveness |
| `sd_card` | `MCSdCard` | passes | every kind of card, lost answers: the card is addressed as it counts, a failed `sd_init` reads nothing, block device implemented, every call returns |
| `sd_files` | `MCSdFiles` | passes | two loads on seven volumes, plain, partitioned, damaged, without a root directory and unformatted, with up to two failing sectors: right table without errors, only own rows with them, an end |
| `ethernet` | `MCDm9000a` | passes | two senders, handler and `tk_netmain`: registers, frames, order, buffers; every frame is taken, every packet handled, every send returns |
| `dhcp` | `MCDhcp` | passes | two servers, lost, late and stale replies: the granted address within its lease, an address when the stack is ready, the servers start |
| `socket_wait` | `MCSocketWait` | passes | two tasks, three events, two entries: calls return although wake-ups are lost, and tokens do not pile up |
| `limit_stall` | `MCAccelerator`, `MCLimitStall.cfg` | violated | LIMIT reached early on a long table: 200 OK with no rows |
| `shared_body` | `MCNetworkTasks`, `MCSharedBody.cfg` | violated | a 503 text ends up in another client's answer |
| `truncated` | `MCSdFiles`, `MCTruncated.cfg` | violated | a FAT sector that cannot be read ends the file early, without an error |

Further configurations, each with one counterexample, are listed in section 5.

Bounds. FIFOs of two words are filled, emptied and stalled by tables of three to five
rows; the board's are 128 deep, and everything proved below is independent of the
depth. Two comparison units and `WHERE_MAX` 2 let a third condition be one too many
(4 and 5 on the board). `QUERY_MAX_ROWS` is 3 in `single`, so that the cap on the limit
and a full capture buffer both happen with four rows, and 256 elsewhere. `STALL_MAX`
stands for 5000000 retries: 3 is enough for the timeouts to fire, and large enough
that the wait loop does not time out on a pipeline that works. `MaxQueries` bounds the
number of queries; two show what one leaves to the next, since every query starts
with the same reset. Three clients let one be served, one be turned away and one
wait. Deadlock is allowed in the tasks' runs, where all clients are gone in the end.

`sd_card`: sectors of two bytes, four of them and a request beyond the last; three
attempts at ACMD41 instead of 2000. `sd_files`: sectors of two data cells, three directory
entries or two FAT links make directories, chains and FATs longer than a sector; the
buffer of six cells is smaller than one of the files; two faults let both the first file
and its fallback fail; two loads show what stays in the buffer. `ethernet`: one small and
one large buffer run out; two frames and two sends are the least with an order; one fault
resets the chip. `dhcp`: two tries and a time-out of three seconds keep the order of
the board's values (4 tries, 4 seconds doubled each time, 130 seconds), a lease of nine is long
enough for renewing, rebinding and expiring to be distinct; one reply in flight is
enough for a late or stale one, as it may stay on its way. (That a BOOTP reply is undone during a
restart happens in the run; that `dhc_setup` sees it, the exception of `ReadyWithAddress`, takes
two replies in flight and a longer set-up.) `socket_wait`: a table of two
entries (20 on the board) is full as soon as one is left behind. Where the system comes to
rest with all bounds used up (`sd_files`, `dhcp`) deadlock is not checked.

Fairness. `Accelerator!FairSpec`: the clock runs (weak fairness of `Next`), and the firmware
does not idle for ever in the middle of a query (weak fairness of `Firmware`): `tx_task` never
blocks there, it only sleeps for bounded times. `NetworkTasks!FairSpec`: a task that can run is
eventually run; clients need not do anything. There are finitely many clients, so `rx_task`
cannot keep `tx_task` from running for ever, which a steady stream of connections could do on
the board. `SdCard`, `SdFiles`: the driver polls and never blocks, so it goes on (weak
fairness); no card has to answer. `Dm9000a`: the chip transmits what it is asked to, the handler
runs, every task gets its turn; no frame has to arrive. `DhcpClient`: time passes and the tasks
run; no server has to answer, but a reply that has arrived is handled. `SocketWait`: strong
fairness for a task's steps, because the task of higher priority disables them whenever it is
awake, and it sleeps again and again; seconds pass, and a task of the stack that has the lock
gives it back. `EveryCallReturns` has a premise, `Quiet`: from some time on no more packets
arrive, and `tcp_slowtimo`, which goes on for ever, comes while the tasks are at rest, half a
second being long compared with their steps. Under endless traffic `tk_netmain` may take the
lock each time before the task gets it.

Every property has a mutant, an operator named after the definition it replaces and
marked `Mutant:` in the module, that models a plausible mistake in the code and
violates the property. The type invariants of `Dm9000a`, `DhcpClient` and `SocketWait` are
stated in the modules and proved, but are not part of the runs.

## 4. Proofs

All for arbitrary constants under the named ASSUMEs of the modules.

**FIFO_proofs** (`DepthAssumption`, `ZeroAssumption`). The inductive invariant is
`TypeOK /\ PointersAgree`: the write pointer is `count` words after the read pointer.
`TypeCorrect`, `PointersAlwaysAgree`, and `Refinement`: each edge maps to the
corresponding edge of `BoundedQueue`, by what append, tail and head do to `Contents`.
`Pipeline` uses `BoundedQueue` for its FIFOs, so this is what connects the two levels.

**Accelerator_proofs** (`PipelineAssumption`, `AcceleratorAssumption`,
`QueriesAssumption`). `NoRowMeetsDoneHolds` and `NoInputDroppedHolds`. The invariant
`IndInv` says where words can be at each point of the firmware's program: the DIN_VALID
pulse is over before the status read that follows can end (`PulseTiming`, where the
wait state of reads is needed); hence, unless the limit is reached, a word is in the
input FIFO only in the cycle after its pulse (`FifoTransient`), and when the EOF flag
is set the last word has left the first stage or is stuck behind the limit
(`EofAfterLast`); so the done token is behind the last row (`DoneAfterLast`).
`RoomForWord` carries the observation of the full flag to the write it allows.
`HwEffect` is what any clock edge does to the input side, proved once; every action of
the firmware is then a lemma. Neither property is inductive alone: each speaks of
registers that were set several cycles before.

`NoOutputDroppedHolds` is about the other side: the pipeline cannot be stopped, so what
keeps a row from meeting a full output FIFO is that the firmware drains it between two
words. `OutInv` says that there is one row on its way at most (`OneOnTheWay`), that it has
arrived before the next word is written, because a status read and two writes take
longer (`Arrived`), and how many words the output FIFO holds during and after a drain
(`Occupancy`): never more than two. Hence the hypothesis `FIFO_DEPTH > 1`; with one word
TLC finds the row that is lost. `TypeCorrect` bounds the registers by their widths and the
firmware's counters and capture buffer by their limits; it needs that the words on the
bus are instructions that `Program` has encoded, whose fields are cut to their bits.

`EngineImplemented`: the machine implements `QueryEngine`, cycle by cycle. Its hypotheses
(`Fits`) are FIFOs of at least two words (the board has 128), `STALL_MAX` of at least two
(5000000), and that every query is `Representable`. The code enforces the last only in
part, and what happens otherwise is known: `MCLimit256` and `MCTextSum` are
counterexamples, an unknown operator is compiled as equality, and a value beyond a byte is
cut. TLC evaluates `Representable` for the queries of the passing runs
(`QueriesRepresentable`), so the hypotheses are met there. There is no hypothesis on the
timing beyond the model's own, and none that excludes stalls or refused queries.

The invariant `EngInv` counts rows. `Judged` is the number of rows of the table that the
limit stage has seen, which can be read off the registers: all that were sent, but for the
one on its way or for those stuck behind a limit. The fetcher holds the words of the program
sent so far (`Fetched`, and decoding undoes encoding); the row on its way is the last one
sent (`Stream`); so the limit counter is the number of rows that pass among those judged, and
the limit is hit at the row that reaches it (`Counted`); the rows that passed are the one
in the limit stage, those in the output FIFO, and those taken before, in this order, and the
accumulators are theirs (`Delivered`); the capture buffer holds those taken, up to its size
(`Stores`). `Full` and `Waits` are about the two loops: a full input FIFO is seen only
behind a limit that is hit, and the done token has advanced by one stage at each access of
the wait. `Answered` is where they end: nothing moves and all rows that pass are counted. Every
part was checked by TLC on the instances of `single` and `sequence` before it was proved.
One lemma per action shows that it keeps `EngInv`, from one lemma per stage of the pipeline;
then each action maps to `Start`, `Deliver`, `Refuse`, `Finish`, `GiveUp`, `AnswerStalled` or
to nothing. `RowsAccounted` is the invariant itself. `WaitSucceeds`: for such queries the
wait loop never times out, the only time-out is that of the feed loop behind a limit.

What the engine's recursive functions compute is proved by induction over a set of
numbers (`Induction`, from the well-foundedness of the naturals through `LeastNat`), which needs
no operator parameter: `Recursion` gives the function, `PassingRec` and `SumsRec` its equations.

**NetworkTasks_proofs** (`ClientsAssumption`). `HandOverHolds`, `RequestOfClientHolds`,
`SocketsHeldHolds`, `OneResponseHolds`, `TypeCorrect`. The invariant adds that the
socket is still free when `rx_task` comes to publish (`StillFree`: only `rx_task` sets
it, so its early test stays valid across the blocking `recv`), that the stored request
is the one about to be published (`Stored`), that the sockets in use are open
(`HeldOpen`), and that a client that is still to be answered has been sent nothing
(`Unanswered`).

**SdCard_proofs** (`CardAssumption`, `AddressAssumption`). `TypeCorrect`,
`AddressingHolds`, `NothingReadHolds` and `Refinement` (`sd_read_sector` implements
`BlockDevice`), for every medium, sector size, set of requests and number of attempts, any
card or none, with any answers lost but those to CMD0, ACMD41 and CMD58 (`Answered`, a
hypothesis of the theorems and not of the module). The invariant adds to the properties what
`sd_init` knows at each place (`Identified`: only a card that is not SDHC comes to CMD16,
only a card that is there comes to CMD58), that a card which has not been initialised is
still in the idle state and refuses CMD17 (`Refuses`), and that the block under way is the one
that was asked for (`Calls`). The latter rests on `AddressOfSector`: the card's
division undoes the driver's multiplication when nothing wraps. Each of the three answers is
needed: `MCWarmRestart`, its variant for ACMD41 and `MCOcrLost` are the counterexamples without it.

**SdFiles_proofs** (`SizesAssumption`; `MediaAssumption`: the fields of every sector,
whatever it is used for, are numbers, entries, links or cells). `TypesHold`:
whatever the medium says and whichever sectors fail, the copy stays within
`sd_file_buffer`. `OwnRowsHold`: the rows that are handed to the query are first rows of one
file with the table's name. Its hypothesis `LaidOut` is what a PC leaves on a medium (the
links lead along a file's clusters, whose sectors hold its cells in order); it is stated
over the sectors only, and TLC evaluates it for the volumes of the run (`FilesLaidOut` in
`MCSdFiles`), the damaged ones included. The invariant `Copies` says that the cells up to
`bytes_read` are those of one candidate file, and that the cluster at hand is the j-th of
its chain, where j fits what has been copied, unless all that fits is copied.
The header's row count is clipped to these cells (`RowsOfFile`), so nothing that an earlier
load left in the buffer is among the rows.

`RightTableHolds`: as long as no sector fails, the table that is handed on is the designated
one, to the last row that fits, and there is none only when none is on the medium. It adds the
hypothesis `Searchable`, again over the sectors only: a boot record where the driver looks for
it exactly when the medium is formatted; directories that list their files before the end mark
and no others, along clusters that are on the medium; and `NamesTell`, that the 8.3 name and the
guessed alias of a table are the short names of the files that have its name and of no others. A
PC gives no such guarantee for long names that begin alike: `MCSimilarNames` is the
counterexample without `NamesTell`, and `MCHighClusters` the one without the 16-bit first
clusters that `FileLaidOut` asks for. TLC evaluates `Searchable` on the media of `MCSdFiles`,
which satisfy it but for the one without a root directory: among them an unformatted one, one
with a partition table, one whose file's chain and one whose directory's chain leads back. The
invariant `Search` says where a search is that has met no fault: what comes earlier in the order
of the search (suffixed before bare, root before `/tables`) does not exist; no entry of the
directory before the sector at hand stops the scan (`ScanAt`); what is copied is the file that
is sought, the cluster is one of its own, and the copy is over only when all that fits is copied
(`Follows`). From `Copies` alone this does not follow: that the scan has not passed by an entry
is about the sectors already left behind.

**Dm9000a_proofs** (`BufsAssumption`, `TasksAssumption`), for any number of senders,
buffers, frames and faults. `IndexRegisterSafe` (`Selected`): the invariant `Index` is that
one task at a time is inside the driver (`OneSender`) and that between its accesses to IMR the
interrupt is masked and no handler runs (`Masked`). `FramesAreWhole` (`OwnFrame`) follows along
`Transmission`, which ties what is in the chip's TX memory and length registers to the place of
the sender. `NeverNullPacket` (`NoPanic`) needs that only `tk_netmain` takes from the queue, so
what it saw is still true when it dequeues (`Sure`); `PacketsInOrder` (`InOrder`), that the frames
in the chip are younger than those queued, and these than those handled (`Ordered`), across
resets of the chip. `BuffersAccounted` (`NoBufferLost`) counts the buffers in the free lists, in the
queue and in the hands of the handler, the senders and `tk_netmain`. `TypesHold`.

**DhcpClient_proofs** (`DhcpAssumption`), for any servers, addresses and leases, any time-outs
and any number of replies on their way. `AddressIsGranted` (`AcknowledgedAddress`),
`KeptUntilExpiry` (`ExpiresWhenDue`), `AddressWhenReady` (`ReadyWithAddress`), `LeaseNotOverrun`
(`LeaseRespected`), `TypesHold`. The client does not check the transaction of an ACK, so the
first has to follow the replies: an ACK on its way to a client that asks is for the address it
asks for, and a fresh offer is the last reply and comes to a client that is not asking
(`Queue`); that replies stay in order is what this rests on. `Control` ties the client's state
to the set-up and to the place of `tk_nettick`: while it restarts the client is not renewing or
rebinding, so that what `dhc_resetip` clears is nothing those states rely on. `Ages` bounds the
age of a lease in each state: BOUND, RENEWING and REBINDING are left in this order, one in a
second, which is where the one second of `LeaseRespected` comes from.

**SocketWait_proofs** (`WaitAssumption`), for any number of tasks, events and entries.
`TokensDoNotPileUp` (`TokensBounded`): the invariant counts tokens together with the entries
that will become tokens. `OneInside`: whoever looks at the sockets has the lock, so two
tasks, or a task and one of the stack, never do at the same time, however `OSSemPost` hands the
lock on. `TypesHold`.

Only model-checked: that the engine's `PassingOf` selects what `SelectSeq` and a cut would,
since no prover knows `SelectSeq`; that the media which `FatVolume` builds are `LaidOut` and
`Searchable`, evaluated for the volumes of the run; and all liveness, which is out of the
prover's reach.

## 5. Findings and further counterexamples

The first three are runs, and `PROJECT.json` quotes the lines that disagree. The others
are reproduced with `tlc -config <cfg> <module>`, after the change of constants that some rows
name; each cfg checks one property, which states what the quoted line says and which TLC finds
violated.

1. `limit_stall`. After the limit is reached the pipeline stops reading while the firmware
   goes on feeding; with more rows left than the FIFO holds the query times out and its
   rows are thrown away. On the board this takes a table with more than 128 rows after the
   last one returned, and a client with a timeout gives up long before the firmware.
2. `shared_body`. `rx_task` formats its error texts in the buffer from which `tx_task`
   answers.
3. `truncated`. `fat16_next` and `fat32_next` return the end of the chain when the FAT sector
   cannot be read, so a table is shorter than its file, without an error.

| cfg | Module | Property | The code | What is said |
|---|---|---|---|---|
| `MCLimit256` | `MCAccelerator` | `MatchesGabarito` | LIMIT 256 is masked to 0 (`network_tasks.c:339`) and gives one row | `fpga_test.py:108`: `matched[:limit]` |
| `MCLimit256` with `Queries <- LimitedAggregateQueries` | `MCAccelerator` | `MatchesGabarito` | COUNT and SUM come after the limit stage (`pipeline.vhd:326`) | `fpga_test.py:100`: counted over all matches |
| `MCTextSum` | `MCAccelerator` | `SumsOverDigits` | only the first row is checked for text (`network_tasks.c:458`) | `network_tasks.c:461`: a column with text is refused |
| `MCSplitRequest` | `MCNetworkTasks` | `WholeRequests` | a request is taken from a single `recv` (`network_tasks.c:1325`) | `RELATORIO_FINAL.md:65`: "rx_task recebe a mensagem" |
| `MCOcrLost` | `MCSdCard` | `Addressing` | the R1 of CMD58 is not looked at (`sd_driver.c:309`): without an answer an SDSC card is taken for SDHC | `sd_driver.h:29`: "Retorna 1 em sucesso, 0 em falha." |
| `MCWarmRestart` | `MCSdCard` | `NothingReadUninitialised` | after CMD0 was not answered, a card still in use is read with `g_card_type` 0 (`sd_driver.c:255`) | `main.c:60`: "Consultas de tabela falharao." |
| `MCWarmRestart` with `Losable <- MCLosableReady` | `MCSdCard` | `NothingReadUninitialised` | the same when the answer of the last ACMD41 is lost | as above |
| `MCSimilarNames` | `MCSdFiles` | `RightTable` | the alias always ends in ~1 (`sd_driver.c:559`): one of two similar names is opened for the other | `sd_driver.c:535`: a guess of the alias BASE~1.EXT |
| `MCSimilarNames` with `Volumes <- BriefVolumes`, `Tables <- BriefTables` | `MCSdFiles` | `RightTable` | ~1 is written at position 6 also after a shorter name, which is not found | `sd_driver.c:535-537` |
| `MCHighClusters` | `MCSdFiles` | `RightTable` | only 16 bits of the first cluster are read (`sd_driver.c:648`) | `sd_driver.h:17`: "Suporta FAT16 e FAT32." |
| `MCFallback` | `MCSdFiles` | `OnlyWhenNotFound` | a read error too leads to the bare name (`network_tasks.c:690`) | `network_tasks.c:689`: "Se nao encontrou, tenta sem sufixo" |
| `MCAllocRace` | `MCDm9000a` | `FailsOnlyWhenNoneLeft` | the interrupt takes the last small buffer after `pk_alloc` has counted it (`pktalloc.c:273`) | `pktalloc.c:254`: "0 if the request cannot be satisfied" |
| `MCFallbackMask` | `MCDhcp` | `StaticFallback` | the fallback restores the address and not mask and gateway (`dhcsetup.c:150`) | `mac_ip_utils.c:34`: "garante fallback estatico se houver timeout" |
| `MCRebind` | `MCDhcp` | `RebindsElsewhere` | another server's ACK is discarded while rebinding too (`dhcpclnt.c:351`) | `dhcpclnt.c:1294`: "lease this IP from some other server" |
| `MCUndoneBind` | `MCDhcp` | `ExpiredAddressCleared` | a bind during a send is overwritten by SELECTING (`dhcpclnt.c:1175`), and nobody watches the lease | `dhcpclnt.h:89-92`: "the IP address of the interface should be cleared" |
| `MCHaltRace` | `MCDhcp` | `HaltStops` | the state that `dhc_halt` has set is overwritten when `dhc_second` goes on (`dhcpclnt.c:1175`) | `dhcpclnt.c:1319`: "stop dhcp all client activity" |
| `MCLateReset` | `MCDhcp` | `GrantedIsKept` | an ACK between two tests of `dhc_second` (`dhcpclnt.c:1217`): the address is taken away again | `dhcpclnt.h:75-77` |
| `MCMissedWakeup` | `MCSocketWait` | `NobodyMissed` | a task that has timed out clears its entry without the lock (`tk_crnos.c:114`), or takes another's token; the event is noticed only at the next time-out | `tk_crnos.c`: "Wake up any tasks that might be waiting on this event." |

## 6. Not modelled, and the plan

Of the firmware and the hardware that were written for this project everything that keeps
state across a step is modelled, but for:

- character-level scanning of the request and the SQL text: the query is parsed;
- `dm9ka_close`, `dm9ka_stats` and the set-up of the PHY; `get_mac_addr`;
- `send` is taken to send everything; the code does not look at its result;
- a frame that is received while the chip is reset is lost, as it is on the board.

Most of the repository is not the project's own: `nios_bsp` (the HAL, uC/OS-II, NicheStack
with its FTP, DNS, SNMP, file system and menus), the generated Qsys system and the Terasic
cores are some 125000 of its 130000 lines. Of these, the DHCP client, packet buffers and queue,
the demultiplexer, the sleep and wake-up of sockets and the semaphores are modelled, because
the firmware's behaviour depends on them; TCP itself (`tcp_in.c`, `tcp_out.c`) is represented
by what it delivers to the sockets, and the parts that the firmware does not call (FTP, DNS,
SNMP, menus, virtual file system) or that keep no state of their own (register definitions,
generated headers) are not modelled. PC tools, test benches and superseded files are not
part of the program on the board.

Next, in this order:

1. `Parsing`: the request and WHERE scanners over short token sequences, checked against the
   query they stand for.
2. The composition of `SdFiles` with `SdCard` in place of `BlockDevice`.
