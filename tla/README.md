# TLA+ development for wspace_client_scout

The client of a vehicular white-space network. Base stations send it batches of
packets over a lossy long-range radio, coded so that any k of the n packets of a
batch suffice; a second copy of some packets comes over a cellular link. The
client puts the packets back in order, writes them to a TUN device, and tells the
controller, over the cellular link, which packets it still misses (data
acknowledgements, which cause retransmissions) and how lossy the radio is (raw
acknowledgements). Paths below are relative to the repository; the program is in
`src/src`.

## The system

| Part | State | Operations | Used by |
|---|---|---|---|
| `RxDataBuf` / `BasicBuf` (`wspace_asym_util`) | ring of `BUF_SIZE` slots (status, sequence number, time stamp, length), `head_pt_`, `tail_pt_`, a queue lock, a lock per slot, three condition variables | `EnqueuePkt`, `DequeuePkt`, `FindNackSeqNum` | `RxRcvAth`, `RxRcvCell` / `RxWriteTun` / `RxCreateDataAck` |
| `BatchInfo` (`wspace_asym_util`) | id of the batch, last number before it, `decoding_done_`, time of the last packet and time left | `SetBatchInfo`, `UpdateTimeLeft`, `set_decoding_done` / `GetBatchID`, `GetBatchInfo` | `RxRcvAth` / `RxCreateDataAck` |
| `RxRawBuf` (`wspace_asym_util`) | `end_seq_`, `pkt_cnt_`, queue of losses with their `send_cnt_` | `PushPkts` / `PopPktStatus` | `RxRcvAth` / `RxCreateRawAck` |
| `AckPkt` (`wspace_asym_util`) | header, 16-bit relative numbers of the losses | `Init`, `PushNack`, `ParseNack` | both acknowledgement threads |
| `CodeInfo` (`wspace_asym_util`) | coding packets of a batch, their indices, k, n, lengths | `SetCodeInfo`, `PushPkt`, `DecodeBatch`, `PopPkt` | `RxRcvAth` |
| `OriginalSeqContext` (`wspace_client_scout`) | highest original number forwarded | `need_update` | `RxWriteTun` of every radio |
| `BaseStationContext` | id of the serving base station | get, set | `RxRcvAth`, `RxParseGPS` |
| Erasure code (`fec`) | static tables of the field, an encoding matrix per code | `fec_new`, `fec_encode`, `fec_decode` | `CodeInfo`, in the `RxRcvAth` of every radio |
| `Tun` | the TUN device, UDP sockets | `Read` (an error is the length -1), `Write` (asserts) | all threads that receive or send |
| `GPSParser` | pipe from `gpspipe`, last readings | `GetGPSReadings`, `ParseLine`, `GetValue` | `RxParseGPS` |
| options | ids, addresses, intervals, `-A` per radio | the constructor of `WspaceClient` | `main` |
| headers | wire layouts | get, set, assertions | all threads |

Each radio has a `RadioContext` (one of each of the first three, and a decoder) and
four threads: `RxRcvAth`, `RxWriteTun`, `RxCreateDataAck`, `RxCreateRawAck`. Three
threads are common: `RxRcvCell`, which feeds the `RxDataBuf` of the radio a cellular
copy belongs to, `RxSendCell` and `RxParseGPS`. They interact only through the
objects above; everything blocks on their locks and condition variables.

What is hard, and what makes each part correct:

- **RxDataBuf.** Four threads and two levels of locks. `DequeuePkt` lets go of the
  queue while it waits for a packet; `EnqueuePkt`, when a packet is more than a lap
  ahead ("wrap around"), moves both pointers and resets every slot *without* the
  slots' locks; `FindNackSeqNum` works on copies of the pointers. Correct means: the
  window is well formed; packets come out in order and at most once; no packet of an
  earlier lap takes the place of a newer one; nothing acknowledged is missing;
  only a packet waited for is given up; nobody sleeps for ever.
- **BatchInfo.** Read by `FindNackSeqNum` in two calls, written in between; the clock
  decides whether a batch counts as decoded.
- **RxRawBuf.** Correct means: what it reports is true, each packet is counted once,
  the unsigned arithmetic does not wrap, and the losses fit in an `AckPkt`.
- **AckPkt.** What `ParseNack` returns is what was pushed.
- **RxRcvAth with CodeInfo.** Each packet of a batch is handed over exactly once under
  its own number, whether early or after decoding, and the assertions hold.
- **Erasure code.** Any k of the n packets give the k native ones back, for every order of
  arrival; the tables that all radios share are right when they are used.
- **Devices.** A failed read returns the length -1, 65535 in 16 bits, and leaves the packet before in the
  buffer, which is then gone through again: that length must not be handed on with a packet, nor
  end the client. (It does get into the time left for a batch, which may become longer by it but never too short.)
  The assertions on a packet hold for
  every packet the base stations may send. A GPS reading is newer than the last in all its parts, its time and
  position are whole, and it has a speed. The options mean what they say in whatever order they are given.
- **OriginalSeqContext, several radios.** No packet goes to TUN twice, and those of one radio
  go in order (over all radios order is not guaranteed: the check and the write are two
  steps); no radio suppresses the acknowledgements of another (`batch_id_prev` is static).

`PROJECT.json` lists the hazards with their lines.

## Modules

| Module | What it is |
|---|---|
| `BatchInfo` | the object of that name: state and one action per method |
| `RxDataBuf` | the ring with its threads: state, actions, safety properties; extends `BatchInfo` |
| `RxDataBufDelivery`, `InOrderDelivery` | abstract: what a reordering buffer promises; `RxDataBuf` implements it, for a sender within the ring |
| `RxDataBufLive` | fairness and liveness of the same system |
| `MCRxDataBuf` | for TLC |
| `RxDataBufOrderProofs` | types, window, order of delivery, no stale slot, no lost `fill_cond_` signal, the blocked slot |
| `RxDataBufDeliveryProofs` | the refinement of `InOrderDelivery`; no lost `element_avail_cond_` signal; acknowledgements are sound and read as they were meant |
| `AckPkt`, `AckPktProofs` | the acknowledgement packet: operators; that it reads back what was put in |
| `RxRawBuf`, `MCRxRawBuf`, `RxRawBufProofs` | the log of raw packets: model, for TLC, proofs; extends `AckPkt` |
| `CodeInfo` | the decoder: operators on a record |
| `BatchReceive`, `MCBatchReceive`, `BatchReceiveProofs` | `RxRcvAth` with its decoder: model, for TLC, proofs (with those about `BatchDecode`); extends `BatchInfo` and `CodeInfo` |
| `Radios`, `MCRadios`, `RadiosProofs` | several radios with what they share: model, for TLC, proofs |
| `BatchStream` | abstract: what `RxRcvAth` promises to the buffers of its radio; `BatchReceive` implements it |
| `Fec`, `FecProofs` | the erasure code: operators, for any `GF_BITS`; that the tables make a field, that the inversions invert, that any k packets decode |
| `BatchDecode` | `BatchReceive` and `Fec` together: the packets computed, not taken for granted |
| `FecInit` | the tables of `Fec` as two radios initialise them at the same time |
| `GPSParser` | the object of that name with the pipe it reads, and `RxParseGPS` |
| `Options` | the command line: what the constructor makes of it, and what it means |
| `Client`, `MCClient`, `ClientProofs` | the threads at their devices: `Tun`, `RxRcvAth`, `RxRcvCell`, `RxSendCell`, failed reads and failed assertions: model, for TLC, proofs (with those about `GPSParser` and `Options`); extends `Options` |

### RxDataBuf

Variables are the members of `BasicBuf` (`head`, `tail`, `status`, `seqnum`), the owner
of the queue lock (`qlock`) and of each slot's (`elock`), the threads asleep on each
condition variable (`fillWait`, `emptyWait`, `availWait`), and one record of locals for
each call in progress (`enq`, `deq`, `ack`), whose field `pc` says where it is.
`batch_id_prev` is the static variable of `FindNackSeqNum`. `due` is the clock as
`FindNackSeqNum` reads it: whether the slot that is kBlock has waited `block_time`.
`last_out` is a history variable. A packet is its sequence number: contents and lengths
are copied under the slot's lock and decide nothing.

A step is what a thread does between two points where another thread can see the
difference. Taking the queue lock or a slot's lock starts a step. A critical section
that touches one slot under its lock is one step, unless it contains a write which
somebody makes or reads without that lock: so `EnqueueReset` resets one slot at a time
and needs no slot lock; `AckVisit` / `AckDrop` / `AckLabel` (the reading of the status,
the two writes) are three steps with the slot locked in between; `DequeueBlock` and
`DequeueWait` are separate because the queue is released before the slot. A slot's lock
that is taken and released within one step appears only as the guard that it is free.

| Action | Code |
|---|---|
| `EnqueueCall`, `Sent` | the packets `RxRcvAth` and `RxRcvCell` hand over |
| `EnqueueLock` | lock, test for full, stale packets (`wspace_asym_util.cc` 122-143) |
| `EnqueueFull` | give up the awaited packet, sleep on `empty_cond_` (123-138) |
| `EnqueueStore` | the slot's critical section and what follows (143-171) |
| `EnqueueReset` | wrap-around, one slot at a time, then the signals (169-180) |
| `EnqueueClear` | clearing of delivered slots, then the new tail (181-193) |
| `DequeueLock` ... `DequeueDrop` | `DequeuePkt` (196-267) |
| `AckGetBatchID` ... `AckGiveUp` | `FindNackSeqNum` (269-359) |
| `SendDataAck` | `RxCreateDataAck` takes the result (`wspace_client_scout.cc` 333-344) |
| `NewBatch`, `PacketOfBatch`, `BatchDecoded` | `RxRcvAth` between two enqueues (237-295) |
| `BatchTimeOut` | the clock passes the time left for the batch |
| `SpuriousWakeup` | `pthread_cond_wait` returns without a signal |
| `Aborted` | an `assert` failed: the process is gone |

`pthread_cond_signal` removes one thread from the set of those asleep; the thread
goes on only once it has the mutex again. `BatchInit` leaves the clock's answer open,
because the constructor does not initialise the times.

**Environment.** `Sent` is what the two producers may hand over: `RxRcvAth` packets of
announced batches, retransmissions included, in any order; `RxRcvCell` anything, at any
time, also twice. `MAX_AHEAD` limits how far past `head_pt_` they run. The sender itself
is not part of the repository: runs with a large `MAX_AHEAD` let it run a lap ahead, runs
with `MAX_AHEAD = BUF_SIZE` keep it within the ring.

**The acknowledgement.** When `FindNackSeqNum` is done, `ack.nacks` is what
`RxCreateDataAck` pushes into an `AckPkt`; `DataNacksParse` says that `ParseNack` returns the
same numbers. A relative number has `REL_SIZE` values (2^16 in the code). The acknowledgement holds at
most `ACK_WINDOW - 1` nacks (`TooMany`), of which those in the window lie within `BUF_SIZE`, so that two are at most
`BUF_SIZE + ACK_WINDOW - 3` apart: in the run `wrap` that is 3, and `REL_SIZE` is 4, the least that suffices.

### InOrderDelivery

The promise, with no ring, no locks and no clock: packets are settled one after the other,
each delivered if it is there (`Deliver`) and skipped if it is not and a later one is waiting
(`Skip`); what was accepted (`Accept`) is never thrown away. The refinement mapping of
`RxDataBufDelivery` is `settled <- head`, `pending <-` the numbers of the slots that are
kOccupiedNew, `last <- last_out`, `CAPACITY <- BUF_SIZE`. Two things in the code break the
promise, and both are excluded as hypotheses: a wrap-around discards what is in the ring
(`MAX_AHEAD <= BUF_SIZE`), and an acknowledgement with too many nacks gives up slots from a
list gathered earlier (`AckOverflow` never happens).

### RxRawBuf

Both methods hold the buffer's lock throughout, so each is one action: `PushPkts`
(cases `PushStale`, `PushFits`, `PushOverflow`), `PopPktStatus`, `PopSleep`, and
`SendRawAck`, in which `RxCreateRawAck` copies the losses and may find the packet full.
The queue of losses is a function from their numbers, ascending, to `send_cnt_`.
`max_send_cnt` is option `-A`, chosen at the start and constant from then on.

### AckPkt

Operators, since each thread fills a packet of its own: `PushNacks` makes the header and
the set of relative numbers, `ParseNack` is what the controller does with them. A relative
number has `REL_SIZE` values (2^16 in the code, 5 for TLC, so that it can overflow). Nacks
are pushed in increasing order by both threads, which is why the first is the least.

### BatchReceive, CodeInfo and BatchStream

`RxRcvAth` is one thread and its decoder is its own; between packets it is at `receive`, and
the other places of `pc` are the points where a call of `EnqueuePkt` or of `BatchInfo` lets
others act. The decoder is the record of `CodeInfo`'s members; a packet is its coding index,
so that a row of `pkts` says which packet its buffer really holds. `ShuffleStep` is one
round of `shuffle`'s loop. The matrix arithmetic is abstracted here: if the k rows
hold what their indices say, and the indices differ, the missing native packets come out,
and otherwise nothing that can be told. `BatchDecode` checks just that, with `Fec`. `handed`
records the calls of `EnqueuePkt` for the batch, `arrived` the packets of the batch that reached the thread, `last_seq` the number of
the last call.

| Action | Code (`wspace_client_scout.cc`) |
|---|---|
| `NewBatch` | first packet of a new batch: decoder and `BatchInfo` set up, packet pushed (237-259) |
| `UsefulPkt`, `RepeatedPkt`, `IgnoredPkt` | another packet of the batch; one that came before; one of an older or decoded batch (222-259) |
| `EarlyEnqueue` | native packets are handed over at once (266-274) |
| `NotYet`, `NothingToDecode`, `Decode` | fewer than k packets; k native ones; k of which some are combinations (276-279) |
| `LateEnqueue`, `LateSkip`, `LateEnd` | the loop over the decoded packets (280-290) |
| `Finish` | the batch is declared decoded (294-295) |
| `OthersStep` | the clock and `RxCreateDataAck` read `BatchInfo` |

The air may lose, repeat and reorder packets of a batch, and drop whole batches. Three
things are assumed of the base station, whose code is not in the repository: the packets of
a batch agree on k, n and the start number, batch ids increase, and a packet has a payload.
The first two are what `SetHeader` is called with (`wspace_asym_util.cc:481`);
`1 <= k <= n` and `ind < n` are asserted by both ends.

`BatchStream` is the abstract specification: `AnnounceBatch` (ids increase, the number below
the batch does not go back), `HandOver` (a call of `EnqueuePkt` after its batch was announced,
less than `MAX_BATCH_SIZE` past it), `FinishBatch`, and the clock. `BatchReceive` has the same
variables of `BatchInfo` and `last_seq`, so the refinement mapping is the identity on them.
It is what `RxDataBuf` takes for granted of `RxRcvAth`: `NewBatch` and `Sent` there.

### Fec, BatchDecode and FecInit

`Fec` is `fec.cc` as operators: the tables `generate_gf` and `init_mul_table` leave, `matmul`,
`invert_mat` with its choice of pivots and its swapping back of columns, `invert_vdm`, and
`fec_new`, `fec_encode`, `fec_decode`. An element of the field is the set of its bits that are 1, so
that exclusive or is the symmetric difference. Loop unrolling, the table of products
and the copies of rows are left out. `BatchDecode` runs it on what the decoder of `BatchReceive`
holds at the moment it decodes; packets are the unit packets, which suffice because the code is linear
(`AnyKPacketsDecode` proves it for packets of any contents and length).
`GF_BITS` is 8 in the code and 3 for TLC, which has room for the 5 coded packets. `gf_mul` is curried, a table of
tables as in the code. `PrimitiveAssumption` says that the polynomial of the field is primitive: every element but 0
is a power of its root. TLC evaluates it in every run of the code; it was evaluated for `GF_BITS = 8` and the
polynomial of the source too (which needs a Java stack of some hundred megabytes).

`FecInit` has the same tables as variables and one step per loop of `generate_gf` and
`init_mul_table` (one per round where two threads can be in the loop together). The accesses are
not synchronised, so the program has more behaviours still; those modelled suffice for the finding.

### Client, GPSParser and Options

`Client` is what the threads do at their devices, one step per round of a loop: what other
threads share with them during a round is modelled in the modules above, and only
`bs_context_` is left. `RxRcvAth` and `RxRcvCell` keep one packet buffer over the rounds, so a failed
read, which is the length 65535 (`Minus1`), shows them the last packet again. Before the first
packet the buffer is uninitialised: the thread leaves it aside or fails an assertion, nondeterministically.

Packets on the air and over the cellular link may be of any type, client, base station, batch and index, with and
without payload, and with a header that `ParseHeader` asserts against (`Bad`); only one that ends within its header is
left out. A round in which an assertion fails ends the program and leaves the rest as it was, since what it wrote
before the assertion makes no difference any more. `RxRcvCell`'s way through the null pointer of a radio that
does not exist counts as such a failure. `handed` records the length that arrived and the length that was passed on.
`fault` records, independently of the assertions, that something came which the client does not stand, as
`AthProper` and `CellProper` describe it.
`time_left_` is computed with the length of a packet as its duration; the rate and the constants added are left out.
After a failed read that length is 65535, and while the packet's batch is not decoded it is used
(`wspace_client_scout.cc:221, 254`): `RxCreateDataAck` then waits for packets of that length before it counts the batch
as over. `TimeLeftEnough` says that the time left is never too short: a batch acknowledged too early has packets
reported as lost that are still to come.

| Action | Code (`wspace_client_scout.cc`) |
|---|---|
| `RxRcvAth`, `RxRcvAthFails` | a packet or a failed read at the radio's socket (190-261) |
| `RxRcvCell`, `RxRcvCellFails` | the same at the cellular socket (384-409) |
| `RxSendCell`, `RxSendCellFails` | from the TUN device to the controller; the read or the write fails (411-422) |
| `ReadsNothing` | a read returns 0, which `Tun::Read` asserts against |

In `GPSParser`, a line of `gpspipe` is the sequence of its phrases, one key each, in the order `gpsd` writes them,
and `DeviceWrites` adds one to the pipe. `RxParseGPS` reads the pipe and parses what it got (424-439, `gps_parser.cc`).
A read may end at any byte (`Reads`): between phrases, before or behind their comma, in a key, or in a value, which then
is a number cut short (`whole` is FALSE); what is left in the pipe starts there. `SplitLine`, `IsValidLine`,
`GetValue` and `ParseLine` are the methods, with the ends of lines, which separate nothing: the last phrase of a
line and the first of the next are one phrase. A value is the number of its report; what `atof`
makes of its text is left out. `ReadingWhole` leaves the speed out: a read that ends in the digits of the
speed finds all keys, and the speed is logged as far as it came.

`Options` computes what a command line does by applying `Option` to one option after the other, as the
constructor's loop does. `Respected` says what it should mean without the loop's state. The command lines
considered are a constant.

### Radios

Every variable but the shared ones (`max_seq`, `batch_id_prev`, the history `written`) is a
function from radios. Of a radio's `RxDataBuf` only its promise is left, which `RxDataBuf`
checks in detail: a queue of packets that come out one by one (`Enqueue`, `Dequeue`), and a
packet wakes whoever sleeps on `fill_cond_` (`Awake`). A packet is its original sequence number, or
`NotForTun`; copies may come by several radios and in any order. `NeedUpdate` (a critical
section of `OriginalSeqContext`) and `WriteTun` are two steps, because the lock is released in
between. `RxCreateDataAck` is cut down to the accesses to the batch id, the clock and
`batch_id_prev`; the variable is read at `AckTest` under the lock of one radio's queue, and tested
and stored at `AckStartBatch` and `AckStore` under none. `acked` is a history variable: the last
batch for which a whole acknowledgement was prepared.

| Action | Code |
|---|---|
| `NewBatch`, `BatchOver`, `Enqueue` | what the producers and the clock do to the radio (`wspace_client_scout.cc` 237-250, `wspace_asym_util.cc` 683-704, 154-193) |
| `Dequeue`, `NeedUpdate`, `WriteTun` | `RxWriteTun` (`wspace_client_scout.cc` 310-321, 46-55) |
| `AckGetBatchID`, `AckTest`, `AckInfo`, `AckStartBatch`, `AckStore` | `FindNackSeqNum` (`wspace_asym_util.cc` 280-317) |

### Definitions named `Bug_...`

They stand in front of the definition they are a faulty version of (a dropped condition,
an off-by-one, a missing reset) and are used by nothing. `PROJECT.json` ("mutants") says
which property fails when one is put in place.

## Runs

| Run | Constants | Shows |
|---|---|---|
| `overrun` | ring 2, both producers, numbers to 3, one batch, 2 nacks | types, window, order of delivery, no lost `fill_cond_` signal: with full buffer, wrap-around, nack overflow and failing assertion reachable (3.2 M states) |
| `wrap` | ring 3, sender beyond the ring, numbers to 5, one batch, 3 nacks, 4 relative numbers, spurious wake-ups | kBlock is always the head, the queue is never found empty in mid-call, no stale slot, acknowledgements are read as they were meant (7.3 M states) |
| `inwindow` | ring 3, sender within the ring, numbers to 4, two batches | acknowledgements are sound, nothing is lost or given up wrongly, refinement of `InOrderDelivery` (2.8 M states) |
| `live` | ring 3, sender within the ring, numbers to 3, one batch | while packets wait in the buffer `RxWriteTun` gets on, `EnqueuePkt` returns (0.2 M states) |
| `report` | window 3, numbers to 8, losses reported once or twice, 5 relative numbers | the raw log and its acknowledgement, and that reports keep coming (17 000 states) |
| `batch` | up to 4 native of 5 coded packets, two batches, start numbers to 3, field of 8 elements | `RxRcvAth` with its decoder and the erasure code: assertions, every packet once and right, any k suffice, refinement of `BatchStream` (0.2 M states) |
| `radios` | two radios, one batch each, original numbers to 2, one packet waiting per radio | nothing is written to TUN twice, one radio's packets in order, no sleep before an acknowledgement |
| `client` | one radio of two base stations, three batches with k = 2, n = 3, two clients, payloads of length 0 to 2, 16 values of a `uint16`; command lines of up to four options beyond those needed; four GPS reports of four kinds | lengths, what ends the client, the time left for a batch, options; beside them GPS readings, wherever reads end (0.5 M states) |
| `firstbatch`, `lostwakeup`, `shared`, `fecrace` | as small as shows the case | the findings below |

The bounds are small and deliberate. Two or three slots make a ring whose every
boundary (first, last, full, one lap, one past a lap) is reached with sequence numbers
into the second lap; more slots add slots that behave like the middle one. One more producer
than one matters for `empty_cond_` and is in `overrun`. Two batches are needed for the
two readings of the batch id and are in `inwindow`. `UINT_MAX` only has to be larger than
every number in use; `RingAssumption` says so. Four native and one combined packet give
`shuffle` cycles of every length up to four, and batches with none, some and only native
packets missing; the second batch may overlap the first, which is a retransmission.
In `radios` two radios suffice for every race on the shared variables (each step involves one
radio and a shared variable); a second batch per radio would multiply the states by a hundred
and is covered by the proofs; the radios are interchangeable, which the run uses as symmetry.
In `report` the numbers span more than one acknowledgement and more than `REL_SIZE`.
In `client` one radio suffices, since the threads share nothing but `bs_id`, which nothing
depends on; 16 is larger than every length plus the headers, and 65535 is to the code what
15 is here. Three batches let the indices of one be repeated in the next and run over in the third, should the decoder not
be cleared. `MCClient` explores `GPSParser` beside `Client`, one of the two moving in each behaviour: no property speaks of
both. Four reports allow readings that are put together from pieces of three, with one before.
In `wrap` the sender may lose the ring's packets and those past it, so that the nacks of both fill an acknowledgement.
Deadlock is checked in every run but `client`: only a failed assertion (`Aborted`) or an exit
(`Exited`) stops the program, and these stutter; in `client` a failed assertion is the end, and the
GPS device stops after `MaxReport` reports.

**Fairness** (`RxDataBufLive`). Threads are scheduled and get a mutex they ask for again
and again: strong fairness on the steps of each call, without which no program with
pthread mutexes makes progress. The clock advances (`BatchTimeOut`; and, when
`FindNackSeqNum` reads it again and again, it eventually finds the blocked packet
overdue). A batch has finitely many packets, so its clock is restarted finitely often.
The callers are not fair: nothing obliges the sender to send. `PendingDelivered` does not
presume that it does: either the ring is empty again and again or `head_pt_` moves on again and again.
In `RxRawBuf`, `RawFairSpec` is weak fairness of `RxCreateRawAck`; `RawReports` promises a report
only while enough packets are counted, since the log starts anew when it is full.

### Findings

Each is a run that TLC ends with a counterexample; `PROJECT.json` quotes the lines.

1. `firstbatch`: `assert(end_pt < tail_pt)` (`wspace_asym_util.cc:321`) fails if
   `FindNackSeqNum` runs after the first batch is announced and before its first packet
   is enqueued: `tail_pt - 1` is then the largest `uint32`.
2. `lostwakeup`: a wrap-around between `DequeuePkt`'s unlocking of the queue and its sleep
   resets the slot and signals before anybody sleeps; `RxWriteTun` then sleeps on a slot
   that is no longer kBlock.
3. `shared`: `batch_id_prev` is shared by the radios, whose batches are numbered
   independently: a batch of one radio makes a batch of another with the same or a smaller id
   count as acknowledged, and its `RxCreateDataAck` sleeps on it if its buffer is empty. (With a
   single radio the second reading of the batch id, line 315, can do the same to the batch
   that starts just then.)
4. `fecrace`: the static tables of `fec.cc` are initialised on the first call of `fec_new`, without a
   lock; when the `RxRcvAth` of two radios decode their first batches together, `gf_exp[GF_BITS]`
   is toggled twice per bit and stays wrong, and `test_gf`'s checks fail.

The second needs a packet more than `BUF_SIZE` ahead of `head_pt_`: `inwindow` shows
that a sender that avoids this does not meet it. The same unlocked reset can fall between
`FindNackSeqNum`'s reading of kBlock and its writing of kDrop, and the slot it gives up is then one
nobody waits for; `inwindow` (`OnlyBlockedDropped`) and the theorem `BlockedDropped` exclude that for
the sender within the ring. With too many nacks `FindNackSeqNum` gives up
every slot on its list without looking again (349-356), also one that was filled meanwhile. No
comment or test promises otherwise, so neither is listed as a finding. `RawNackFits` is a statement
about `max_send_cnt_ = 1`: with option `-A 2` the losses of two windows can fill an acknowledgement,
and `RxCreateRawAck` exits (`wspace_client_scout.cc:368`).

## Proofs

Proved by TLAPS for every value of the constants that satisfies `RingAssumption`,
`ThreadAssumption`, `AckPktAssumption`, `RawAssumption`, `CodeInfoAssumption`, `BatchAssumption`, `RadiosAssumption`,
`FecAssumption`, `PrimitiveAssumption`, `DecodeAssumption`, `ClientAssumption` or `OptionsAssumption` (positive sizes; no
sequence number close to 2^32; a packet and its header are shorter than 2^16; the polynomial of the field is
primitive, and no more packets are coded than it has elements, `GF_SIZE + 1`, beyond which `fec_new` fails; the
Ethernet port is below those of the radios; nothing about the sender). Theorems about the sender within the ring say so in
their hypotheses: `MAX_AHEAD <= BUF_SIZE`, and no `AckOverflow` in the behaviour.

The ring (`RxDataBufOrderProofs`, `RxDataBufDeliveryProofs`):

- `TypeCorrect`: `Spec => []TypeOK`.
- `WindowCorrect`, `DequeueFindsPacket`: `WindowInv` and `DequeueNotEmpty`. Neither is
  inductive: `WIInv` adds who is inside the queue's critical section (`QLockInv`) and what
  `EnqueuePkt` has established there (`EnqInv`: the packet is ahead of `head_pt_`, and not
  by more than a lap once it clears slots). `RxWriteTun` alone moves `head_pt_` forward and
  a wrap-around sets it one below the tail, so the queue it found filled stays filled.
- `DeliveredInOrder`: `Spec => DeliverInOrder`. The invariant `OrderInv` adds: each slot's
  lock is held by the thread at work on it (`ELockInv`, `GiveUpInv`); a slot is labelled only
  with numbers that belong there (`SeqnumOwn`); `RxWriteTun`, inside, looks at the slot of
  `head_pt_` (`HeadSlot`); and every occupied slot holds a number above `head_pt_`, within a
  lap, unless a wrap-around has yet to reset it, and `last_out <= head_pt_`
  (`OccupiedInv`). Numbers less than a lap apart have different slots (`Seq2IndDiffer`,
  proved from `%` and `\div`), so the packet delivered at `head_pt_` is exactly the next one.
- `NoStaleSlot`: `NoStaleRead`, from `OrderInv` and `ReadInv`, which says how far the clearing
  of delivered slots has got.
- `FillNotLost`: `Spec => []NoLostFill`. `RxWriteTun` and `RxCreateDataAck` sleep on one condition variable and a
  signal wakes one of them. `FillInv` says who may sleep where, and that while `RxWriteTun` sleeps although the
  queue is not empty, either the other has been woken and has yet to pass the signal on, or a wrap-around
  has yet to come to its signals.
- `BlockedSlot`: `Spec => []BlockedIsHead`. `BlockInv`: the only blocked slot that is not about to be reset is the
  one of `head_pt_`, and `RxWriteTun` is at work on it. Reaching the next slot therefore means
  that the last one is no longer blocked.
- `DataNacksAreRead`: `Spec => []DataNacksParse`, for any sender. `AckInv` says what the walk of `FindNackSeqNum` knows although
  both pointers move on: its nacks lie within the window it copied, and those past its end
  are fewer than `ACK_WINDOW`, and fewer by one with a nack in the window (`InReach`). `ParsePushed` (`AckPktProofs`) is the arithmetic, as for `RawNacksParse`.
- `ImplementsDelivery`, with `DuplicatesIgnored` and `BlockedDropped`: under `MAX_AHEAD <= BUF_SIZE`,
  `Spec /\ [][~AckOverflow]_vars` implies `InOrderDelivery`. `NearInv` adds to `OrderInv` that nobody is in the
  reset loop (`Near`), that occupied slots are ahead of `head_pt_` (`Ahead`), that the last packet
  of the ring is there, so that a skip always has a later packet waiting (`TailHere`,
  `NewTailHere`), and that a slot about to be given up is still kBlock (`DropBlocked`). Every step of
  `EnqueuePkt` is then an `Accept` or a stutter (`EnqueueAccepts`), and every step of `DequeuePkt` a
  `Deliver`, a `Skip` or a stutter (`DequeueDelivers`).
- `AvailNotLost`: `NoLostAvail` for the same sender. `AvailInv`: between `DequeuePkt`'s look at the slot and its sleep the
  slot stays locked, and so blocked; and whoever unblocks it has yet to signal. Here the
  hypothesis is needed: a wrap-around resets the slot without its lock (finding 2).
- `AckIsSound`: `AckSound` for the same sender. A packet below the end of an acknowledgement is nacked or `Settled`:
  passed by `head_pt_`, in the ring, or given up as the next one. `CoverInv` carries that along the walk of
  `FindNackSeqNum` (`Covered`: all that is behind it), whose copies of the pointers are out of date, and
  relates those copies to the pointers, to the end of the batch and to the end of the walk. `DropIsHead` says
  that only the next slot is ever given up, so a packet once settled remains so (`ReadInv`: no
  slot passes for one of a lap ago).

The raw log and the acknowledgement packet (`RxRawBufProofs`, `AckPktProofs`):

- `RawTypes`: `RawSpec => []RawTypeOK`, with the bounds of the count and of the reports per loss.
- `RawAckSoundness`, `RawAckDisjoint`, `RawNacksFit`: the properties of
  the raw log. `RawIInv` adds that the log accounts for every packet it counts and that older
  losses were reported at least as often as newer ones: that is why removing a prefix of the
  queue is enough. `RawNacksFit` is about `max_send_cnt_ = 1`.
- `RawNacksParse`: what the controller parses is what was reported, if `max_send_cnt_` windows
  of losses span no more than a relative number holds. `SpanInv` bounds the span of the
  queue; `ParsePushed` (`AckPktProofs`) is the arithmetic. In the code 2^16 is far larger.

`RxRcvAth` with its decoder (`BatchReceiveProofs`):

- `ReceiveAsserts`, `ReceiveImplementsStream`: `RxRcvAth` never fails an assertion and
  implements `BatchStream`. `Control` is the inductive invariant: the decoder belongs to the
  batch announced, holds fewer than k packets while more are wanted, and during the loop
  after decoding has given out exactly as many packets as the loop has passed.
- `ReceiveDecodedHanded`: a batch declared decoded was handed over whole. `Handing` adds that
  the early packets differ from each other (each is among the decoder's indices, a new one
  is not) and that all below the loop's position are handed over. If all k are native,
  a counting argument (`AllEarly`, from `FS_Injection`) shows that they are the whole batch.
- `ReceiveHandsRight`: `ReceiveSpec => []HandedRight`, for every k, n and order of arrival. The heart is
  `ShuffleRight`: from any k different indices `shuffle` meets no conflict and, after at most 2k rounds, every
  native packet is in the row of its number. A round either passes a row or brings one more native
  packet home (`SwapHome`), of which at most k can be (`HomeBound`); `ShuffleRound` says that until the end
  the rows passed and the packets at home are together no fewer than the rounds. The induction over
  rounds is `NatInduct`, from the well-foundedness of `<` (the library's own induction theorem takes an
  operator). It applies because the rounds are a recursive function.
  The inductive invariant is `Correct`: while the decoder is filled, its rows hold what their indices
  say and the indices differ, and during the late loop each row holds its own packet (`PacketsOK`); what
  arrived is no more than what is counted, and its native packets were handed over (`ArrivedOK`);
  each call of `EnqueuePkt` so far was right, and different from the others (`CallsOK`).
- `ReceiveAnyKSuffice`, `ReceiveTypes`: `AnyKSuffice` and `ReceiveTypeOK`, from the same invariant. The batch is decoded once
  k packets arrived, because the decoder counts each of them and fewer than k leave it undecoded.

The erasure code (`FecProofs`, and with the decoder in `BatchReceiveProofs`), for every width of the field up to 16
bits, every k and n, and packets of any contents and length:

- `FieldLaws`, `Distributes`, `InverseIs`: the table `generate_gf` and `init_mul_table` leave makes a field. Elements
  other than 0 are the powers of the root, each once, because the polynomial is primitive; so the product by
  logarithms is commutative and associative, has 1 and inverses, and no divisors of 0. That it distributes over exclusive
  or comes from multiplication by the root alone (a shift, with the polynomial taken off if a bit goes over the top),
  which is linear, by induction over the powers.
- `TablesAreRight`: `gf_mul` is the product of polynomials, reduced; `TablesMultiply` states the same of the
  powers. `Value` is a polynomial's value at the root, which reduction keeps.
- `InvertMatReports`: `invert_mat` reports exactly the matrices that take a vector other than 0 to 0 (`Singular`), and otherwise
  what it returns, times its argument, is the identity. `Progress` is kept by its rounds: for some order p of the rows,
  the matrix so far solves the system y = m x with the unknowns of the columns used so far exchanged for right-hand
  sides (`Solved`), and undoing the exchanges of columns recorded so far undoes p (`PutsBack`).
- `VdmInverse`: `invert_vdm` divides the product of all `x - p[a]` by each factor (Horner's rule, `Divide`) and scales the quotient by
  its value at that factor's root. The loop that multiplies the factors leaves the constant term at 0, which
  is right because `p[0]` is 0 (`CoefficientsHaveRoots`), as it is for `fec_new`.
- `AnyKPacketsDecode`: any k different rows of the encoding matrix have no vector other than 0 in their kernel (such a
  vector would be a polynomial of degree below k with k roots, `RootTheorem`), so `build_decode_matrix` never fails, and
  what `fec_decode` computes is what `fec_encode` was given. Its hypothesis, that a native packet is in the row of its number,
  is what `ShuffleRight` proves of `shuffle`.
- `ReceiveDecodeRecovers`, `ReceiveInvertsMatrices`, `ReceiveTablesMultiply`: `DecodeRecovers`, `InvertsMatrices` and
  `TablesMultiply` of `ReceiveSpec`. `PacketsOK` had to be strengthened: every index the decoder holds is below n. This
  discharges what `BatchReceive` takes for granted of decoding: k rows that hold what their indices say
  give the native packets.

Several radios (`RadiosProofs`):

- `RadiosTypes`: `RadiosSpec => []RadiosTypeOK`.
- `RadiosWrittenOnce`, `RadiosInOrder`: for any number of radios and packets. `Claimed` is what makes
  them inductive: `max_seq` bounds all that was written or is about to be, and what a thread
  is about to write is newer than all its own radio has written.
- `RadiosSleepAfterAck`: `PrevVouched` says that whatever stands in `batch_id_prev` was announced by a
  radio that has acknowledged a whole batch.

The devices (`ClientProofs`):

- `LengthsKept`: `ClientSpec => []LengthKept`. `Kept` adds `Left`: the coded packet that the buffer of `RxRcvAth` keeps
  is of no more use to it: its batch is decoded or older, or its index known. So a failed read,
  which shows it once more with the length -1, gets no further than the time left; nothing else protects `RxRcvAth`.
- `EndsOnFault`: `ClientSpec => []EndsOnlyOnFault`. From the same invariant: what the buffers keep are packets on which no
  assertion failed, and none fails when they are seen again; and while the decoder wants packets it holds fewer
  than k of the n indices, so that it has room (`CanPush`).
- `TimesLeft`: `ClientSpec => []TimeLeftEnough`. A packet of a batch that is not decoded after it was wanted when it came
  (`StaysUndecoded`), so that the time left was computed from it, with its length or the longer one of a failed read.
- `ReadingsNewer`, `ReadingsWhole`: `GPSSpec` implies `ReadingsAdvance` and `[]ReadingWhole`. `PipeOK`:
  in the pipe, the phrases of one key stand in the order of their reports, and all are newer than the reading
  kept (`InOrder`). `GetValue` takes the first phrase of a key, and what a read leaves in the pipe is behind what it
  took (`KeyRead`). A speed stands behind the time and the position of its report, unless a read ended in between, and
  then what is left of that line begins with no TPV (`Before`). So if the last phrase read was cut and it was
  the time or the position, the line has no speed or does not count (`PositionRead`). `ReadSplits` says what a
  read may return, `LeftInOrder` and `LeftLines` that what it leaves is as before.
- `OptionsHaveEffect`: `ClientSpec => []OptionsRespected`, for command lines of any length with any options, unknown ones
  included. `Means` relates the loop's record after i options to the first i options: it has refused one exactly if one of
  them is to be refused (`OkTo`), and otherwise holds the ids of all -s, an address if some -S lists one, and for
  every radio the count of the last -A behind its last -s (`CountTo`). `OptionMeans` is one option, `LoopMeans` the
  induction. `PortsDiffer`: a radio named twice gets the port of its last position, so ports stay different.

Every safety and action property of a passing run is proved. Only model-checked are the liveness properties,
which are out of the provers' reach (`PendingDelivered`, `EnqueueReturns`, `RawReports`), and the properties
that do not hold: `TestGf`, `AssertEndPt` and `NewBatchAcked` (findings 4, 1 and 3); `NoLostAvail` holds only under the
hypotheses of `AvailNotLost` (finding 2). `FecInit`, whose threads race on the tables, has no theorem.

## Not modelled

- `TxSendBuf` and the methods of `BasicBuf` and `RxDataBuf` that no thread of the client calls
  (`AcquireHeadLock`, `AcquireTailLock`, `WaitWakeAck`, ...), `EncodeBatch` and `UdpSocket`, which the base station
  or nothing uses; `InformServerAddr`; a fixed GPS speed (`ConfigSpeed(true)`).
- Pure input and output: opening the TUN device and the sockets, wire layouts of the headers, the GPS log
  file, what is printed, the numbers `atof` makes of a report. Of the headers, what the threads ask of them is in `Client`.
- `TIME` and the pthread wrappers: mutexes are owners, condition variables sets of threads, the clock
  is a nondeterministic bit.
- Contents of packets, except in `Fec` and `BatchDecode`. Wrap-around of sequence numbers at 2^32 is excluded by
  assumption: the code does not handle it. The base station, the controller and a restart of either.

## Plan

Done: `BatchInfo`, `RxDataBuf` with its acknowledgements and liveness, implementing
`InOrderDelivery`; `RxRawBuf` with `AckPkt` and liveness; `BatchReceive` with `CodeInfo` and `Fec`,
implementing `BatchStream`; `Radios`; `FecInit`; `Client` with `Options`; `GPSParser`; proofs of all safety
and action properties. Left, out of the provers' reach or beyond what the repository says:

1. Liveness of `RxDataBuf` with a sender that obeys the acknowledgements, instead of one bound.
2. A theorem about `FecInit` for radios that initialise the tables one after the other.
