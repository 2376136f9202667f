# Verification of SpectaProbe-Gx

SpectaProbe is a passive network probe. It captures the Diameter traffic of a mobile
core (Gx and Gy over TCP, S6a over SCTP), matches each request with its answer and
writes one CSV line (an "XDR") for each pair. This directory holds TLA+ modules
translated from its C++ source, TLC configurations that check them on small instances,
and TLAPS proofs for every value of the constants.

* [1 The system](#1-the-system)
* [2 Modules](#2-modules)
* [3 Runs](#3-runs)
* [4 Fairness and timing](#4-fairness-and-timing)
* [5 Proofs](#5-proofs)
* [6 Findings and divergences](#6-findings-and-divergences)
* [7 What is not modelled](#7-what-is-not-modelled)
* [8 Plan](#8-plan)

To check one run: `tlc -config MCHandOver.cfg HandOver.tla`; to check the proofs of one
module: `tlapm HandOver_proofs.tla`.

## 1 The system

The probe is a pipeline of threads. Between any two stages is a shared array of maps
without a lock, indexed by a **time slot**: a writer puts what it has in second *s* into
slot *(s + 1) mod 10*, and a reader empties the slots up to the current second. A writer
and a reader that both keep the time are thus never in the same slot. In the pipeline
there are no mutexes, no condition variables and, apart from two of the queues that have
a `busy` flag, nothing else that keeps threads apart. Only the log has locks.

    NIC --> listener --PKTStore[intf][router][t]--> router (decode)
        --GXSMStore / S6ASMStore[sm][intf][router][t]--> session manager (match)
        --GXFlusher / S6AFlusher[sm][t]--> flusher (CSV line)
        --GXXdrWriter / S6AXdrWriter[t]--> XDR writer --> file

    timer thread: writes CURRENT_EPOCH_SEC, CURRENT_MIN, ... for all of them
    main thread : creates them, indicates day changes, exits
    admin port  : pause, resume, re-read the configuration file
    statistics, monitors: read everybody's counters and maps
    log         : called by every thread, written by a thread of its own

| Component | State it keeps | Operations | Hard because | Correct if |
|---|---|---|---|---|
| Gx session matching (`GxInterface`) | for Gx and Gy each: map identifier → pool index, bitmap of used indices, pool of sessions | process a request or an answer, flush, release, clean up | second keys (application, session key) are read back from the pool entry; pool limit; uninitialised pointer when it is full | map, bitmap and pool agree; records pair messages of one identifier, each reported once, none vanishing; half sessions end |
| S6a session matching (`S6aInterface`) | the same, one table | the same | the same | it is matching by identifier, whatever the pool does |
| Hand-over queues (`PacketRouter::copyMsgObj`, `*SessionManager`) | map, count, busy flag by router and slot | store; poll, snapshot, take, clear | test and use of the flag are apart; count read before the flag is set; the slot macro reads the clock twice | threads never meet in a slot; messages arrive in order, once, none refused |
| Packet ring (`EthernetSource`, `PacketRouter::processQueue`) | pre-allocated buffers, count, busy by router and slot | capture and deal; decode | buffers written in place; two clocks; round-robin with head-of-line drop | packets come out whole and in order; nothing dropped while there is room |
| Solarflare listener (`PacketListener`) | buffers lent to the card, list of them linked through themselves | post a buffer, handle an event, consume packets | an event says that a buffer is begun, not which; the slot is that of the card's time stamp | every packet is read once and in order |
| Bandwidth (`BWData`) | volume in two buckets by parity of the minute | add; report at the change of the minute | reset and re-use of the bucket | a report is the volume of exactly one minute |
| Decoding (`EthernetParser`, `TCPParser`, `SctpParser`, `GxParser`, `S6aParser`) | one `MPacket` per router with a map of Diameter entries | parse layers, loop over messages, walk through attributes and groups of attributes | stale entries; loops ended by lengths; codes, lengths and offsets kept in 16 bits | messages come out faithful, attribute for attribute; every loss has a reason; the loops end, but for packets that can be named |
| Records (`GxInterface`, `GxFlusher` and the same in S6a) | the fields of a session | copy from request, copy from answer, print | pool entries and `MPacket` entries are used again | a column has what this request or answer gave |
| Names (`DiameterGlobal`) | maps from codes to names | fill; look up, which inserts | filled again by a thread, looked up by several | a code is written with its own name |
| Flusher, XDR writer | flush map and XDR map by slot, without flags | store; build the line; write | count and map size handled by two threads; writing switched off and on | order kept, written once, in bounded time, nothing lost unaccounted for |
| Timer (`glbTimer`) and file names | eight global time variables | write all; read five | torn reads across a change of the minute or the hour | a file's name is never behind the second it is for |
| Configuration (`GConfig`, `refreshConfig`) | settings in `IPGlobal` | read by words; re-read | comments are read too; order of lines | the program runs with what the file says; buffers suffice |
| Lifecycle (`SpectaProbe::start`, `main`, `AdminPortReader`) | running flags, thread handles, packet counters | start, wait, indicate the day, end | signals and commands at any moment; unlocked counters | traffic meets a complete pipeline; a signal ends the program; counters are of today |
| Monitors and statistics (`EthernetSource`, `InterfaceMonitor`, `ProbeStats`, `ProbeStatsLog`) | previous counts; loop counters | rate by second; sum up and print | everything read changes meanwhile; ints, and a clock that is set | a rate shows packets of its second; a row shows its own manager's numbers |
| Log (`utility/log`) | mutex and level; queue with mutex and condition; a thread | log a line; flush | lost wake-ups; stamps given by the callers; `exit` two seconds after the last line, or sooner after one more signal | lines come out once, in order of their stamps, the last one too if it has its two seconds |
| Log library (`SafeQueue`, `critical.h`) | queue; values with locks | push, pop, timed pop, try, top; assign, read, wait | unlock of what is not held; references handed out; deadlines | exclusion, no lost wake-up |
| Utilities (`StringManip`, `ProbeUtility`, `IpAddress`) | none; address objects keep bytes, text and validity | conversions | ends of texts, widths of numbers, inverses | what is coded can be read back |

`PROJECT.json` lists the components with what is and is not modelled of each, and the
hazards of the code, line by line, with the properties that watch them.

## 2 Modules

Each module's definitions are mapped to lines of the source in `PROJECT.json`, "map".
Definitions called *Faulty variant* are the same operation with a plausible bug; a
property is trusted only because one of them violates it.

### The pipeline

**SessionTable, GxSessions** (`GxInterface.cpp`). `SessionTable` has the data of one
table: `tab.sess` is the `std::map`, `tab.bits` the bitmap, `tab.pool` the session
structures, each abstracted to the request and the answer copied into it. `GxSessions`
has two of them. The thread of the session manager runs all handlers, so a handler is a
step: `Complete` (identifier known: copy, flush, release), `Open` (identifier new: scan
for a free index), `PoolFull` (pool exhausted), `ScanForever` (the scan finds nothing),
`Cleanup` (Gx pass, then Gy pass). Release goes through the application and the key
stored *in the entry*, as in the code, and not through those of the message in hand.
`PoolFull` writes through a pointer the code never set; the outcomes are a crash or a
write into any session of either pool, and `wild` records that this has happened.

**S6aSessions, DiameterMatching** (`S6aInterface.cpp`). The same with one table, where
release uses the local index. `DiameterMatching` is the abstract specification:
identifiers wait for a counterpart, the second message reports, a wait may be given up,
and at capacity a message may be lost or mixed up with another session.
`ImplementsMatching` maps `waiting` to the live sessions.

**TimeSlots, HandOver** (`IPGlobal.h:85-87`, `PacketRouter.cpp:188-245`,
`GxSessionManager.cpp:43-124`, and the same in S6a). `TimeSlots` has the three slot
macros; `WriteIndex(sec, again)` takes the two readings of the clock as two arguments.
`HandOver` has several routers and one session manager, and **one step for each access
to shared memory**: the build is `-O0` (`probe.mk`), so the accesses of the source are
those of the program. `count++` is `LoadCount` and `StoreCount`. Index 10 is the first
slot of the next router's row, as the arrays are contiguous: `Cell`. History variables:
`late` (messages a router was more than a second late with), `astray` (an index out of
range was used), `clash` (two threads were inside one `unordered_map`, which is
undefined behaviour that the model does not carry on through). Nothing limits how late a
router may be but `MaxStall`; the properties speak of the routers that were not.

**PktRing** (`EthernetSource.cpp:133-256`, `PacketRouter.cpp:53-162`, `BWData.cpp`, the
slot of `PacketListener.cpp:119`). The listener's clock is `real` (gettimeofday), a
packet of the Solarflare card has its stamp, off by up to `MaxDrift`, the router's is
`now` (the timer's variable), behind by up to `MaxSkew`. A packet buffer has a head and
a body, written and read in separate steps. The bandwidth buckets are updated by the
router's own steps.

**PackedStream** (`PacketListener.cpp`). The listener posts buffers and links them into
a list through a pointer to the last link (`Post`), at the start one by one, those not
yet posted being `fresh`, and later each when it has been read; the card fills them in
the order of posting and raises events that give the number of packets and whether a new
buffer is begun. Card and event queue are external.

**Decode** (the parsers, `PacketRouter::*_distributetoSM`). A packet is what its parser
reads at each offset of the payload (`body`), a message or chunk header or nothing of the
kind; where the sender's messages or chunks begin is kept beside it (`starts`), for the
properties alone. The parser follows the offsets and lengths *it* keeps, of 16 bits:
`Kept` is what is left of the 24 bits of a Gx message's length, and the offset into an
SCTP packet wraps at `Width` and does not count the padding after a chunk, which `Size`,
the sender's step, does. The loops are one step a round, so that one that goes round for
ever does so in the model (`ParseSctp` back at an offset it has been at), and a message
whose attributes do not end keeps the router in `LoopOverAvps` ("trapped"). An attribute
set is abstracted to the offset and packet of the message it came from, which is enough
to see an attribute of one message turn up in another.

**Avp** (`GxParser.cpp`, `S6aParser.cpp`, the attribute loops and handlers). One
message, read by words of four bytes: padding rounds every attribute to a word, so no
loop position is ever inside one. A stack of loops stands for the grouped attributes,
each copied into a buffer of its own. Codes and lengths are kept in 16 bits. `attrs` is
what the handlers have stored. The flags are not looked at, as in the code.

**Record** (the resets in `IPGlobal.h`, `GxGlobal.h`, `S6aGlobal.h`; the copies in
`GxInterface.cpp`, `S6aInterface.cpp`; the columns of `GxFlusher.cpp`). A value is the
number of the message that gave it. Messages are full or bare, so that what a bare one
leaves alone shows. A column is copied from the attribute of its own name, but for the
six of `AttributeOf`.

**Names** (`DiameterGlobal.cpp`; the `operator[]` look-ups of the flushers and
`S6aParser.cpp`). A look-up of an unknown code inserts (`Looked`); two threads in one map
while one inserts is undefined behaviour, recorded in `damaged` for each table.

**XdrPath** (`GxInterface.cpp:351-362`, `GxFlusher.cpp`, `GxXdrWriter.cpp`, and the same
in S6a). The two hops behind the session managers. The increment of a count and the
insertion at it are one step; `Apart`, which is part of `InOrder` there, is what makes
that sound, because no other thread is in the cell between them.

**FileName** (`glbTimer.cpp`, `GxXdrWriter.cpp:41-54`). The timer writes six global
variables in the order of the source, the writer reads five, after the short sleep the
source has for this purpose, once for each slot it has to catch up with. A second may
begin at any time (`Tick`), and the sleep ends whenever it does; `wr.woke` remembers
whether it outlasted the pass of the timer that woke the writer. Units are shortened (two
seconds to the minute, and so on) so that every carry happens.

### Around it

**Config** (`GConfig.cpp`, `IPGlobal.cpp`, `SpectaProbe.cpp:617-640`,
`EthernetSource.cpp:245-256`, `AdminPortReader.cpp:66-143`). One setting for each kind
of getter; a list longer than its array is cut (`Overlay`), where the code writes on
behind it, so the files have none. `MCConfig` enumerates files. `PlainFile` says which files the proof is about.

**Lifecycle** (`SpectaProbe.cpp:196-515`, `Main.cpp`, `AdminPortReader.cpp`,
`EthernetSource.cpp:60-175`). The main thread's program counter with everything that may
happen around it. Counters are loaded and stored in separate steps; `rx[i]` is the set
of days whose packets counter *i* still holds.

**Monitor** (`EthernetSource.cpp`, `InterfaceMonitor.cpp`, the change of the day in
`SpectaProbe.cpp:480-498`). Counters of interfaces, resets and the rates computed from
them, in numbers with a width (`IntRange`). `Passed` is the difference of two counts, of
ints in the Ethernet monitor: where it is beyond an int it begins again, or is right if
the compiler widens first, and either may come. `Elapsed` has the milliseconds that pass
by the clock between two passes, which may be few, or negative when the clock is set
back; a pass with none of them divides by zero (`PassAtOnce`). Bytes go the way of
packets.

**Stats** (`ProbeStats.cpp`, `ProbeStatsLog.cpp`). One of the two threads with its
frequency; the numbers are read one by one, and `overtaken` records that one changed
meanwhile.

**Log, Channel** (`utility/log`). `Log` has the callers (lock, stamp, push: lock the
queue, append, signal, unlock; unlock), the flush thread (lock, wait with a time-out,
take, write) and the main thread that opens the log before it starts others and exits
two seconds after its last line (`Exit`), or at once when one more SIGTERM or SIGINT is
handled on its thread and ends the sleep early (`CutShort`). `Channel` is the abstract specification of a queue
between threads. Only the program's use is modelled: opened and given its level once;
closing, reopening and cascading are never called, rotation is commented out.

**Queue, Locks** (`SafeQueue.h`, `critical.h`). The library behind the log with *all*
its operations, the ones the probe does not call included, since they are what it
promises its users. The mutex is a plain one: an unlock frees it, whoever calls.

**Text, Bytes, Address** (`StringManip.cpp`, `MPctime.cpp`; `ProbeUtility.cpp`, the TCP
options of `EthernetParser.cpp:242-267`, the lists of `GConfig.cpp:675-697`;
`IpAddress.cpp`). Pure functions, one operator each, checked against their inverses and
definitions on every input of a small domain, which is the set of initial states;
`Address` has objects with constructors, copies and assignments.

**Parts, MCParts.** `Parts` has the parts that share no state with one another
(`FileName`, `Record`, `Names`, `PackedStream`, `Monitor`, `Stats`, `Address`, `Queue`,
`Locks`), each under a name of its own, and what each promises; `Parts_proofs` proves it.
`MCParts` adds `Text` and `Bytes`, whose recursive operators keep them out of reach of
the proofs, and puts all behind one next-state relation: the initial state chooses a
part, and only that part moves. `MCStart` does the same for `Lifecycle` and `Config`,
with the files that `MCConfig` enumerates. `MCGxSessions`, `MCS6aSessions`, `MCDecode`,
`MCAvp` and `MCConfig` give values to constants that a configuration file cannot express;
the other configurations use their module directly.

How the modules compose: each hop of the pipeline is a module of its own, and what one
module takes from outside is what the one before it delivers. `PackedStream` and the
listener of `PktRing` deliver packets in order; `PktRing` hands whole ones to `Decode`;
`Decode` and `Avp` say which messages and which attributes come out of one. `HandOver`
delivers each router's messages in order and once (`InOrder`), which is what
`GxSessions` processes as `seen` and `Record` as its messages; `GxSessions` appends to
`flushed` one by one, which is what `XdrPath` begins with in `Flush`. A single composed
state machine would multiply the clocks of the hops and be out of reach of TLC without
showing more, as the hops share nothing but the clock.

## 3 Runs

| Run | Module, configuration | Properties | Shows |
|---|---|---|---|
| `gx_sessions` | `MCGxSessions` | `TablesConsistent`, `RecordsSound`, `NothingVanishes`, `NotDroppedEarly`, `HalfSessionsEnd` | Two identifiers compete for a pool of one entry in each application, with retransmissions, late answers, reuse after a flush or a cleanup and stamps behind and ahead of the clock: tables agree, records are right, nothing vanishes, until the pool is exhausted and a pointer is lost. |
| `s6a_pool` | `MCS6aSessions` | `TableStaysSound`, `ImplementsMatching` | Three identifiers compete for a pool of two entries: the S6a table stays sound for ever, and with its pool and scan hidden it implements matching by identifier. |
| `hand_over` | `HandOver`, `MCHandOver.cfg` | `Apart`, `InOrder`, `NeverRefused`, `LateHarmsOnlyLate`, `EachIsProcessed` | Two routers, held up for up to two seconds, and a session manager without a lock between them: no queue is shared with a router in time, none of its messages is lost, repeated, reordered or refused, except through a slot number out of range; a late router harms only the messages it was late with. |
| `hand_over_index` | `HandOver`, `MCHandOverIndex.cfg` | `SlotInRange` | The slot macro reads the clock twice; a second that begins in between yields a slot number one beyond the arrays. |
| `xdr_path` | `XdrPath`, `MCXdrPath.cfg` | `InOrder`, `Latency`, `Conserved` | Two session managers, flusher and writer, with the writing switched off and on for more than a lap of the ring: no map is shared, lines keep their order and are in the file in bounded time unless switched off, none is written twice or lost unaccounted for. |
| `pkt_ring` | `PktRing`, `MCPktRing.cfg` | `Intact`, `MinutesApart`, `RefusedMeansAllFull` | A listener and two routers on three clocks: packets come out whole and in order, none overruns its slot, dealing in turn wastes no room, and each minute's bandwidth counts that minute. |
| `decode` | `MCDecode` | `Faithful`, `GxLossExplained`, `PacketDone` | Segments and SCTP packets of up to three messages of every kind, among them lengths beyond 16 bits, chunks that lead back and attributes without an end, one packet after the other through one `MPacket`: what comes out, what is lost and why, and which packets alone may keep the router. |
| `avp` | `MCAvp` | `DecodesTree`, `EndsUnlessMisled` | Messages encoded from trees of attributes, and bodies of arbitrary words: an encoded message comes out attribute for attribute, and decoding ends unless an attribute's length is zero or more than is left. |
| `start` | `MCStart` | `ReadyBeforeTraffic`, `JoinDefined`, `TodayOnly`, `StopsWhenAsked`, `AsWritten`, `BuffersForAll` | Start, two changes of the day, operator commands and signals in any order: traffic meets a complete pipeline, counters belong to the day, and a signal ends the program. Every file of up to four lines out of fifteen, comments that name settings among them, loaded and reloaded: the program starts and goes on with what the file says, and no listener may fill more buffers than there are. |
| `log` | `Log`, `MCLog.cfg` | `StampsInOrder`, `LastLineWritten`, `ImplementsChannel`, `LogIsLive` | A worker and the main thread log while the flush thread writes: lines come out once and in the order of their stamps, no wake-up is lost, and the last line is in the file when the main thread has slept its two seconds; cut short by a signal it may be lost. |
| `file_name` | `FileName`, `MCFileName.cfg` | `NameIsAMoment` | After a sleep that was long enough a second begins while the writer reads the time: the name of the file is that of no moment. |
| `parts` | `MCParts` | `NameNotBehind`, `ColumnsOfPair`, `NamesHold`, `PacketsInOrder`, `StatisticsHold`, `UtilitiesHold`, `LibraryLocksHold` | The parts that share no state, one at a time: file names, columns of a record, tables of names, the card's buffers, rates and printed tables, functions on texts, bytes and addresses, the library's queue and locks. |

The properties, by what they are about:

* *Tables.* `TablesConsistent`, `TableStaysSound`: bitmap, map and pool agree. In Gx
  only until a write through the uninitialised pointer (it changes application or key of
  an entry and the release then frees the wrong one); in S6a for ever, because the
  release does not depend on what the entry says.
* *Records.* `RecordsSound` is `RecordsMatchMessages` (no record mixes conversations)
  and `PairsAreAdjacent` (none is paired across another message of its identifier) and
  `ReportedOnce`. With `NothingVanishes`, `NotDroppedEarly` and `HalfSessionsEnd` it
  says what is true of the code and not more: a retransmitted request flushes a record
  without an answer, and a late answer opens a session of its own; but no message is
  ever in two records and none is gone without a trace. `ColumnsOfPair`: nothing an
  earlier user of a pool entry or of the `MPacket` left shows in a column; the
  exceptions (an S6a message shows attributes of an earlier chunk of its packet; a
  column never filled) are part of it. `NamesHold`: a code's name is its own whoever
  looked it up before, and which tables two threads can damage.
* *Slots.* `Apart`, `InOrder`, `NeverRefused`, `LateHarmsOnlyLate`, `EachIsProcessed` of
  `HandOver`; `Intact`, `RefusedMeansAllFull`, `MinutesApart` of `PktRing`, where
  `Intact` contains `Apart`; `InOrder` (with `Apart` and that nothing is written twice),
  `Latency`, `Conserved` of `XdrPath`; `PacketsInOrder`.
* *Decoding.* `Faithful` for a segment: no message shows another's attributes, and only
  after a message of 65536 bytes or more may something come out that the sender did not
  begin a message with. For an SCTP packet: what is distributed is of this packet, and
  is its last chunk while the parser is `InStep` with the sender (no chunk is padded
  before another, none goes beyond 16 bits). `GxLossExplained`. `PacketDone`: only a
  packet that is `Misled` (attributes without an end, or a chunk that takes the offset
  past 65535) may keep its router. `DecodesTree`, `EndsUnlessMisled`.
* *Log.* `ImplementsChannel`, `StampsInOrder`, `LogIsLive`, `LastLineWritten`;
  `LibraryLocksHold` for the library.
* *Others.* `NameNotBehind`: minute, hour and day of a file's name are of moments since
  the polled second, the hour not before the minute and the day not before the hour.
  `AsWritten`, `BuffersForAll`; `ReadyBeforeTraffic`,
  `JoinDefined`, `TodayOnly`, `StopsWhenAsked`; `StatisticsHold`, `UtilitiesHold`.

Bounds, and why they are enough:

* `gx_sessions`: a pool of one entry for two identifiers is full and empty again and
  again, and both applications are needed for a release that could go to the other
  table; four messages are a retransmission, a pair and a late answer of one identifier;
  a timeout of zero and a clock of three seconds let sessions expire before, between and
  after them. The constraint `Defined` ends a behaviour at the first write through the
  lost pointer. `s6a_pool` has three identifiers, two entries and five messages, so that
  the free-index scan wraps. `GxSessions_proofs` and `S6aSessions_proofs` remove these
  bounds.
* Rings of three slots instead of ten (five in `pkt_ring`): the smallest for which the
  lag of one second (lag, skew and drift there) is allowed, so that a ring of ten is
  looser. In `pkt_ring` four slots are too few: with a drift of one, `Apart` fails. The
  bound *Slots ≥ lag + skew + drift + 2* is tight. Time runs to more than the ring, so
  every slot is used again. `HandOver_proofs` removes this bound for `Apart`,
  `NeverRefused`, `InOrder` and `LateHarmsOnlyLate`.
* Two routers show the row overflow of a slot number out of range and the two maps of
  one session manager; two managers share one flusher. A stall of two seconds is what it
  takes for a router to meet the session manager.
* `xdr_path`: two toggles (off and on) within eight seconds are more than a lap of the
  ring spent with the writing off.
* `pkt_ring`: a cap below the number of buffers; a minute of two seconds, so that three
  minutes pass.
* `decode`: bodies of up to three messages out of seven kinds (six in SCTP packets), complete or cut off, and
  one packet after any other, which is what stale entries need. Besides, by hand: messages
  of 65536 bytes and 0, 24 or 48 more, with another message where the parser goes on;
  chunks that lead back to the first for ever, or once into the middle of one; a padded
  chunk before another, with a message where the parser looks; attributes without an end
  in each place of a message; payloads without a message.
* `avp`: trees of up to two attributes, groups nested up to three deep, and all bodies
  of three to five words over the codes and lengths that matter, which holds every
  ill-formed length next to a well-formed one.
* `start`: two interfaces for the reset of each other's counters, two day changes,
  two commands; all files of up to four lines out of fifteen, three of them comments.
* `log`: one worker beside the main thread, two lines each, of which one level is not
  logged; three seconds, so that the exit meets lines still queued.
* `parts`: a clock from 14 to 17 carries every field of the shortened calendar but the
  year, with a second left before and after, so that the timer's passes overlap the writer's reads; four messages
  for two identifiers and two pool entries use an entry a second time; three buffers of
  two packets are posted and read one and a half times round; counters of width 4
  overflow, with a second of four milliseconds and a clock that is set back, stands still
  or goes on; strings of up to three of 17 characters, among them every one that is
  special to some coding, and septets up to eight long; three threads and two pushes at
  the queue, so that two wait for one element.

`CHECK_DEADLOCK FALSE` is said where time or the number of messages is bounded, or the
program has ended or a router is trapped: the model stops there and nothing more is
claimed. `log` is checked
for deadlock.

## 4 Fairness and timing

Threads are scheduled by the operating system. All loops of the pipeline poll with
`usleep` and never block on each other, so weak fairness of each thread's steps is what
the code has. `HandOver!FairSpec` asks for it of the routers *while they are storing*,
of the session manager and of the clock; not of traffic. `GxSessions!FairSpec` asks for
it of the cleanup and the clock; `MCStart!StartSpec`, as `Lifecycle!FairSpec`, of the main thread, the workers
becoming ready and the statistics thread; `Decode!DecodeFairSpec` and `Avp!FairSpec` of the
router with a packet in hand. `Log!FairSpec` asks weak fairness of the flush thread and
of callers inside a call, and strong fairness of getting the mutex of the queue: the
flush thread takes it again and again, and a caller must get it at some time, which a
mutex of the system gives. No action outside the program (messages, commands, signals,
midnight) is fair.

The ring is correct only with assumptions on time that the code does not enforce. The
models name them: `MaxStall` (seconds that begin between a writer's reading of the clock
and its last write), `MaxLag` (seconds a reader is behind), `MaxSkew` (seconds the timer
thread is behind the real clock), `MaxDrift` (the card's clock). `Tick` respects them;
within them everything is nondeterministic. `hand_over` has a stall of 2, in which a
router meets the session manager in its slot, and shows what is lost then: only what was
late. A reader that is a whole lap behind skips it silently; `MaxLag + 2 <= Slots`
excludes that. `Log!Tick` assumes that a second does not end before the lines that were
queued when it began are written. `FileName` and `Monitor` assume
nothing: seconds begin, and the clock goes on or back, whenever they like.

## 5 Proofs

Eight modules hold proofs; all are checked by TLAPS to the last leaf.

| Theorem | Says |
|---|---|
| `GxSessions_proofs!TypeCorrect` | types, in every reachable state, also after a write through the uninitialised pointer |
| `GxSessions_proofs!Consistent` | `Spec => []TablesConsistent` |
| `GxSessions_proofs!ScanTerminates` | `Spec => []ScanFindsEntry`: the size test leaves a clear bit |
| `GxSessions_proofs!RecordsAreSound` | `Spec => []RecordsSound` |
| `GxSessions_proofs!NothingIsLost` | `Spec => []NothingVanishes` |
| `GxSessions_proofs!DroppedOnlyWhenOverdue` | `Spec => NotDroppedEarly`, an action property |
| `S6aSessions_proofs!TypeCorrect`, `Sound`, `ScanTerminates` | types, `TableStaysSound` without the proviso, the scan |
| `S6aSessions_proofs!Implements` | `Spec => Matching!Spec`, the refinement `ImplementsMatching` |
| `HandOver_proofs!TypeCorrect` | types, under any timing |
| `HandOver_proofs!SlotsKeepApart` | `Timely` implies `Spec => []Apart` |
| `HandOver_proofs!BusyNeverRefuses` | `Timely` implies `Spec => []NeverRefused` |
| `HandOver_proofs!ProcessedInOrder`, `OnlyLateAreHarmed` | `Timely` implies `Spec => []InOrder`, `Spec => []LateHarmsOnlyLate` |
| `Packets_proofs!TypeCorrect`, `PacketsIntact` | `Timely` implies types and ranges, `Spec => []Intact` |
| `Packets_proofs!RefusedOnlyWhenFull` | `Timely` implies `Spec => RefusedMeansAllFull`, an action property |
| `Packets_proofs!MinutesKeptApart` | `Timely` and `MinutesSeen` imply `Spec => []MinutesApart` |
| `Packets_proofs!DecodeTypes`, `DecodesFaithfully`, `DecodeLossExplained` | `DecodeSpec` implies types, `[]Faithful`, `[]GxLossExplained` |
| `Output_proofs!XdrTypes`, `XdrInOrder` | `InTime` implies types, `XdrSpec => []InOrder` |
| `Output_proofs!XdrLatency`, `XdrConserved` | `InTime` implies `XdrSpec => []Latency`, `XdrSpec => []Conserved` |
| `Parts_proofs!StreamPacketsInOrder` | `BuffersNamed` implies `Spec => []PacketsInOrder`, of `PackedStream` |
| `Parts_proofs!ColumnsAlways` | `Spec => []ColumnsOfPair`, of `Record` |
| `Parts_proofs!NamesAlways` | `Spec => []NamesHold`, of `Names` |
| `Parts_proofs!NamesNotBehind` | `BoundsNamed` implies `Spec => []NameNotBehind`, of `FileName` |
| `Parts_proofs!Statistics` | `RangeNamed` and `SomeOfEach` imply `Spec => []StatisticsHold`, of `Monitor` and `Stats` |
| `Parts_proofs!LibraryLocks` | `ThreadsNamed` and `UsersNamed` imply `Spec => []LibraryLocksHold`, of `Queue` and `Locks` |
| `Parts_proofs!AddressesAlways` | `Spec => []AddressHolds`, of `Address` |
| `Parts_proofs!BuffersSuffice` | `ConfigSpec => []BuffersForAll`, of `Config` |
| `Parts_proofs!ReadAsWritten` | `ConfigSpec => []AsWritten`, of `Config`, if every text is a `PlainFile` |
| `Parts_proofs!TypeCorrect`, `TrafficFindsThreads`, `JoinIsDefined`, `CountersAreOfToday` | types, `ReadyBeforeTraffic`, `JoinDefined`, `TodayOnly` |
| `Output_proofs!TypeCorrect`, `StampsStayInOrder`, `LastLineIsWritten` | types, `StampsInOrder`, `LastLineWritten` |
| `Output_proofs!Implements` | `Spec => ToFile!Spec`, the refinement `ImplementsChannel` |

They assume only the named assumptions on the constants (`TableAssumption`,
`GxAssumption`, `SlotsAssumption`, `HandOverAssumption`, `PktRingAssumption`,
`XdrPathAssumption`, `DecodeAssumption`, `ConfigAssumption`, `TextsAssumption`,
`LifecycleAssumption`, `LogAssumption`), and the theorems of the slots a hypothesis on the timing, `Timely` or
`InTime`; TLC evaluates the assumptions on the runs, and the values of `xdr_path` and
`pkt_ring` meet the hypotheses. The theorems about `Parts` are each about the
specification of one instance (`Rec!Spec`, `Str!Spec`, ...), in `Parts_proofs`, which also
has `Lifecycle` and `Config`; what they ask of the constants is named
in each part (`BuffersNamed`: no buffer is the null pointer; `ThreadsNamed`,
`UsersNamed`: the name for "nobody" is nobody's, and a second has fractions; `RangeNamed`,
`SomeOfEach`: there is a number, a manager, a queue at all; `BoundsNamed`: the first second
is a natural number) and is what
`PartsAssumption` has TLC evaluate. `ReadAsWritten` has the hypothesis `PlainFile` of each text: a
line is a name and a value, and the value is not a name itself; and where a comment has
the name of a setting, no list follows it, and no number but 0 that of a plugin's
setting. `probe.config` is such a file (36 lines of two words; `PROBE_ID` in a comment
is followed by a colon), and so is every file of the run (`FilesArePlain`); with
another file a number in a comment stays where no line sets it again. The theorems about `Record`, `Names` and `Address` assume
nothing.

* **Tables.** `SessionTable_proofs` has the lemmas on one table: opening a session at a
  free index and releasing a live one keep `TableSound` and `HalfOpen`. The scan theorem
  is a counting argument: with distinct keys at distinct indices the number of used bits
  is the number of live keys, so a map smaller than the pool leaves a bit clear.
  `TablesConsistent` is inductive together with the types. For the Gx cleanup each pass
  is shown to release exactly the overdue keys of its own table, because
  `EntryIsKeysSession` says that application and key stored in an entry are those it is
  found by.
* **Records.** With the tables consistent each handler can be seen from the keys alone
  (`CompleteView`, `OpenView`, `CleanupView`). Then `Waiting` is inductive: a live
  session holds one message, and it is the last one processed of its application and
  key. This is why a record made from a session and the message in hand pairs neighbours
  (`RecordsRight`), and why an overwritten message has an equal later one
  (`NothingVanishes`). `Once`, for "no message is in two records", does not need the
  tables: a pool entry gets only new messages, and is emptied when its record is made.
* **Slots.** `Apart` is not inductive. The invariant is `Timing`: the types and
  `ReaderBehind` (the session manager's position is that of a second not after the
  clock, and behind by at most `MaxLag`; its slot is that second modulo `Slots`),
  `WriterAhead` (the slot of a storing router is one past the second it read, and unless
  the router is late the clock is at most one past that) and `BusyIsInWork` (a busy flag
  is set only on the queue the session manager is working on). With `Timely == MaxLag +
  2 <= Slots` a writer's second + 1 and a reader's second differ by at least one and by
  less than `Slots`, so their residues differ (`TimeSlots_proofs`); then a router in
  time never finds its slot busy.
* **Order.** `ProcessedInOrder` adds `Progress` (facts by program counter) and `Queued`:
  for a router that was never late there is a numbering `B` of the seconds, such that
  the queue of second *p* holds messages *B[p]*, *B[p] + 1*, ... (`Filled`), consecutive
  queues hold consecutive messages (`Linked`), the first begins with the next message to
  process (`Reached`), the last ends with the last one stored (`Closed`), the queue
  being emptied is past its writer (`Passed`) and the cell a router is in is its own
  (`Storing`). Every step then moves one of the ends.
* **Late routers.** No such numbering survives a router that comes late: its count may be
  taken back, an entry overwritten, a queue left over for the next lap. What does survive
  is `Sorted`, for every router and with no bound on how late it is. A message is
  *settled* once it has been stored in time. A count falls only when the session manager
  resets it (`Counted`), so a late router writes behind all that is due (`Due`), where no
  settled message is (`Placed`); the message being stored is nowhere but where it was
  copied to (`Copied`); and every settled message has been processed or is in a queue of
  the window (`Kept`), those in the queues in the order of seconds and indices
  (`Ordered`), those processed in order and before the others (`Gone`). `~clash` in
  `LateHarmsOnlyLate` is not needed for this: it is there because two threads inside one
  `unordered_map` are undefined behaviour, which no model goes on from.
* **Packet ring.** Here two clocks meet: the listener writes for the second of the
  packet, taken from the system or from the card, the routers read by the timer thread's
  second. `Timely` says that the listener handles a packet within the second after its
  own, that each of the two clocks is at most one second off, and that the routers'
  lag, both clocks' errors and two more seconds fit into the ring; a clock that is two
  seconds off puts a packet where a router is at work already. `Steady` is the invariant of types and places: `RoutersBehind` and
  `ListenerAhead` as for the queues, and `WorkMarked` (a busy flag is set only on the
  slot its router is emptying, whose count is that of the packets left in it).
  `Delivered` adds the numbering `B` of the seconds, as in **Order**, for packets whose
  head and body are written and read one after the other. `Balanced` says that in the
  slot being filled the routers' counts differ by at most one and decrease in the order
  of the turns; so the router whose turn it is has the smallest, and if that one is full
  all are.
* **Minutes.** `Metered`: the two volumes of a router hold the packets of its minute and
  of the one before, by parity, and the report those of the minute before them. It
  needs that a router's minute is one of a second between its current one and now, hence
  that it is late by less than a minute (`MinutesSeen`); the run has minutes of a few
  seconds.
* **Decoding.** `DecodeAssumption` says of a packet that the sender's messages follow one
  another through its payload, and no more: their number, lengths and applications are
  any, and so is what can be read between their beginnings. The inductive invariant is
  `Decoding`: the packet is proper; the parser is at an offset of 16 bits (`Parsing`). Of
  a segment (`Segment`), offset and what is left add up to the payload; each message so
  far is in the entry of its number as it came (`Good`, `Full`), none of them one that
  ends the loop (`Stops`), and its offset is the one where the sender began a message,
  or a length of 65536 or more is among the segment's (`InPlace`, `Long`); when the loop
  has ended, nothing is left or less than the last message was long (`Emptied`), or what
  the parser looked at ended it (`Stopped`). Of an SCTP packet (`Bundle`) the entry has
  an identifier and attributes only of this packet, wherever the offset has wrapped to;
  while the parser is `InStep`, it is at the beginning of a chunk (`AtChunk`), and no
  data chunk lies between that of the entry and it (`Latest`). What is stored is dealt
  from the entries (`Given`). A lost message is then behind the end of the loop, and the
  ways to end are the reasons of `GxLossExplained`; a message as long as 65536 bytes is
  itself longer than any payload.
* **XDR path.** `InTime == MaxStall <= 1 /\ MaxLag + 2 <= Slots`: a session manager and
  the flusher store by the end of the second after the one they took the slot from, and
  the flusher and the writer are at most `Slots - 2` seconds behind. The code enforces
  neither; without the first a line is put into the slot that is being emptied. The
  invariant is `Whole == Steady /\ Kept /\ Once /\ Tracking`. `Steady` has the types, the
  places of the readers and the writers as in **Slots** (`ReadersBehind`,
  `WritersAhead`; `Apart` follows from them) and that the indices in a map are
  consecutive, those already taken out left off (`Dense`). `Kept` is `Conserved` with
  the line in the flusher's hand accounted for. `Once`: no record is twice in the XDR
  maps and the file. `Tracking` sees each ring of slots as the row of everything ever
  put into it: the reader is at some place of the row, and what is in the slots is the
  rest of it, second by second (`Chain`, with the entry's second as `D`). For a session
  manager the row is its sessions *1, 2, ...* (`Sorted`), of which the flusher has passed
  on the first *T[s]*, and nothing beyond is in an XDR map or the file (`Past`); this is
  why a line stored is new. For the XDR maps, while writing is on, it begins with the
  file (`Filed`); in it each session comes after the one before it of its manager, and
  was put for a second near its end (`Lined`), and all that the flusher has passed on is
  there (`AllLined`). `InOrder` is then the beginning of that row. `Latency` follows
  because an entry not taken yet was put for the reader's second or a later one
  (`ChainAhead`), in each of the two rings.
* **The card's buffers.** Two parties count the same buffers from different ends, and the
  events that join them name none. `InStream` says that there is one row `R` of all
  buffers ever posted, with the number of the first packet in each (`First`), and three
  places in it: what the listener reads, what the card fills, the next free place.
  What the card has queued (`Queued`) and what the linked list holds (`Listed`) are
  parts of that row, a buffer not between two of the places is in neither, and a buffer
  in the row more than once is there for a packet only where it was posted last
  (`Lasting`). The events, too, are a row, each beginning where the one before ends
  (`Follows`, `Announced`), so that they tile the packets not yet read (`Placed`,
  `Reads`). Each action moves one of the places or an end.
* **Columns.** What an attribute should be is put as a relation (`IsGiver`) that a step
  can be proved to keep: a new message is its giver, or leaves the one there was
  (`NextGiver`). `EntryGiven` says this of every attribute in the entry of the `MPacket`,
  so that a message without an attribute shows the default or an earlier chunk's, never
  an earlier packet's. Processing is then a function of the session and what the message
  gives (`Processes`, `ColumnAfter`), an open session is what one message makes of a
  blank one (`TableGiven`), and a record what a second makes of that (`RecordsGiven`).
  That these are the columns the reference names is shown column by column in classes,
  for the four orders of requests and responses (`ColumnsExpected`).
* **Names.** `NamesInv`: all tables are `Whole` from the start on, that is, they have all
  known codes, and what is inserted is blank. Two threads ask for the same table only of
  applications, whose codes are known, or in the three tables (`TwoAsk`).
* **File names.** The variables show two passes of the timer, the current one up to the
  variable it has come to and the one before behind it (`WrittenSince`). The timer writes
  day, hour and minute, the writer reads minute, hour and day: what has been read is of
  moments in order, none ahead of what the variables still to be read show
  (`ReadInOrder`). A write or a new pass only makes the variables newer, a read takes the
  moment its variable shows. The pass before is not older than the polled second, unless
  the pass of that second goes on, which is what `wr.woke` excludes.
* **Figures.** `MonitorInv`: a count shows a number of packets before the monitor's last
  pass and those since (`Before`), or has begun again and the monitor's last count was
  not negative (`Begun`), unless a reset was undone or met a count beyond an int
  (`CountsHold`); an addition modulo the width of an int never gains more than is added
  (`ModMoves`), so a difference that fits into an int is never more than the packets
  since, and a rate that fits is a quotient that C truncates towards zero. `StatsInv`: the reader
  has the sum of the numbers it has come to, provided nothing changed since
  (`PrintedSoFar`, `LoggedSoFar`), and a manager's count is right, one too many until its
  next look-up, or behind in the middle of a cleanup (`CountedSessions`). A sum over any
  number of managers is a recursive function; `TotalSums` and `TotalsCompare` are
  inductions over it.
* **Library.** `QueueInv`: whoever is inside holds the mutex, the elements are
  consecutive numbers, and nobody sleeps on a queue that is not empty; all as long as no
  foreign mutex was freed. `LocksInv`: who is between a lock and its unlock has the lock,
  alone unless it shares it (`OneHolder`); the two words of a value differ only while the
  holder is assigning, and a reader's copies only if it read without the lock (`Worded`);
  who sleeps on a value that has changed is about to be told (`Told`).
* **Addresses.** `AddressHolds` is inductive with the domain of the objects.
* **Refinements.** `S6aSessions_proofs!Implements` maps `Open` to `Start`, `Complete` to
  `Report`, `Cleanup` to `GiveUp`, `PoolFull` to `Lose` or `MixUp`, and the clock to a
  stutter. It needs soundness of the table as invariant: otherwise a release could end
  another identifier's wait. `Output_proofs!Implements` needs `Flow`: what has been pushed
  is what has been written, what the flush thread has in hand and the queue, in this
  order.
* **Log.** `Safe` (types and who holds which mutex) and `Ordered` (a caller with a
  stamped line holds the mutex of the log, so no later stamp is pushed before) give the
  order of stamps; `Settled` (what was queued when main began to sleep is due at the
  first tick and written at the second) gives the last line. An end that a signal brings
  forward is an end of its own (`cutShort`), of which nothing is proved.
* **Lifecycle.** For each property the invariant says what the main thread's program
  counter implies of the threads, the traffic switch and the counters; `TodayOnly` needs
  that a count loaded before a reset is stored by a listener that has not noticed the
  new day yet.
* **Buffers.** The inductive invariant is `Typed /\ Sized`: what has been allocated and
  capped so far is what the settings give now, since no setting that enters changes
  after the start, and `((p ÷ r) ÷ 100) * c <= p ÷ r` for `c <= 100`.
* **The file.** `Laid` numbers the words of a file line by line, so that what is left to
  read is a place in a line (`ReadsOn`). `Understood` says of each element of each
  setting that it is what the lines read so far say (`ByLines`), or that a comment has
  disturbed it and a later line will undo this (`Disturbed`). A plugin's settings keep
  their defaults while its flag is off: the flags are final when the first other line is
  read, and a comment read before has no number but 0 for them. At the end nothing is
  disturbed any more and what all the lines say is `Meant`; reading the file again starts
  from there and comes back to it.

Only model-checked: `DecodesTree` and `EndsUnlessMisled` of `Avp`, and `UtilitiesHold`,
of which only the part about addresses is proved. `Avp` and `Text` are written with
recursive operators and `Bytes` with the bits of numbers, which the provers do not have.
The rows of `Tracking` and of
`InStream` are bound by quantifiers over functions on all naturals, which TLC cannot
enumerate: it checks what follows from them. Liveness under fairness (`EachIsProcessed`,
`HalfSessionsEnd`, `PacketDone`, `EndsUnlessMisled`, `StopsWhenAsked`, `LogIsLive`) is
out of the prover's reach, as is `ENABLED`. The induction theorems of the library take an
operator as parameter and cannot be used. Induction on numbers is had from a least
counterexample instead, by the well-founded order of the naturals (`NatLeast`, `Upwards`
in `Parts_proofs`). It is enough for a recursive function on numbers, `Total`.

Types of the proved modules are proved and therefore not among the properties of the
runs.

## 6 Findings and divergences

Two runs are expected to fail. In `hand_over_index` the slot macro evaluates its
argument twice and the argument is a variable another thread writes. If the second
advances from …8 to …9 between the readings, the index is 10 and the arrays have ten
elements (`GxGlobal.cpp:17-19`). For a router but the last it is the first slot of the
next router's row: the message is found there a second or more later under another
router's name, and one of the two is overwritten. For the last one it is beyond the row.
`GxFlusher.cpp:126` and `S6aFlusher.cpp:199` have the same call; `GxInterface.cpp:353`
takes a copy first and is safe. All other runs are stated with `astray`, so that they
speak of what holds otherwise.

In `file_name` it is the sleep of `GxXdrWriter.cpp:48`, of which the comment says "Just to
eliminate racing condition at 00 sec". It makes the writer wait for the pass of the timer
that woke it. But then the writer reads minute, hour, day, month and year one by one, and
the next second may begin before it is through: the sleep has no upper end, and a writer
with a backlog sleeps and reads once for each slot while the timer goes on. With the
minute read before and the hour after a full hour, the name is that of no moment. What
holds is `NameNotBehind`, since the order of the reads is the reverse of that of the
writes: such a name is ahead of the time, up to an hour or a day, and never behind it.

Known, and without a run of their own, as nothing in the repository states the contrary;
the properties are stated so that they hold beside them.

Start, settings, end:

* `config/probe.config` calls `PPS_PER_INTERFACE` a capacity *per router* of 1 to
  1,000,000; the code divides it by the number of routers, and a share below 100 gives a
  cap of 0: no packet is ever accepted (`EthernetSource.cpp:249`).
* `SpectaProbe.cpp:464` says ten seconds and sleeps twenty; `GxSessionManager.cpp:64`
  says 100 ms and sleeps fifty. No property depends on it.
* A `PAUSE` given during the start is overwritten (`SpectaProbe.cpp:470`).
* Statistics switched on by a reload lead to the join of a thread that was never created
  (`SpectaProbe.cpp:506`); `JoinDefined` says that this is the only way.
* Fewer router numbers than interfaces end the program by a division by zero.
* One more SIGTERM or SIGINT, handled on the main thread, ends the `sleep(2)` of
  `SpectaProbe.cpp:514` early, and lines still queued are lost (`CutShort`).
* `SpectaProbe.cpp:515` calls `exit(0)`: the orderly shutdown written after it (stopping
  and joining the listeners, routers and managers) is never reached, so the pipeline is
  not drained and what it still holds is lost.

Packets that keep a router, or lead it astray (`Misled`, `InStep`, `Long` in `Decode`):

* The offset into an SCTP packet has 16 bits (`SctpParser.cpp:58,78`). A chunk of 4 bytes
  before one of 65532 brings it back to 12, and the loop goes round for ever; with other
  lengths it comes out in the middle of a chunk, or decodes one again. It also does not
  count the padding after a chunk whose length is not a multiple of four.
* The length of a Gx message keeps 16 of its 24 bits (`GxParser.cpp:100`): a message of
  65536 + *k* bytes is taken for one of *k*, and what follows is read out of its middle.
* An attribute of length zero is decoded for ever (`GxParser.cpp:149`; in the S6a parser
  only in a group of attributes).

Columns and attributes:

* The column of `gx_QosClassIdentifier` (`GxFlusher.cpp:95`) is always 0:
  `GxParser.cpp:479-484` writes `gx_qosUpgrade` in its place. The session's `answer` is
  always 0. `GxFlusher.cpp:85` has `==` where an assignment is meant.
* The name of a result code is that of the code modulo 65536. Of two S6a feature lists,
  bits are appended, and the first giver is what is named; one list of identifier 2
  alone names nothing.
* An attribute code above 65535 loses its upper half. Texts of vendor attributes come
  out four bytes too long. `fn_getUserInfo` does not look at the length of its
  attribute. Gx keeps two digits of a three-digit MNC. The initial "NA" of an event
  trigger is kept as a prefix.

Statistics and monitors:

* After 2^31 packets an Ethernet count is negative, and a reset shows as a rate; the
  difference is one of ints (`EthernetSource.cpp:398`) and may itself begin again, as a
  negative rate. A reset that meets an addition brings the old count back. Where the
  clock is set back between two passes, a rate is negative. `RatesHold` names them all
  (`Regular`). Two passes within a millisecond by the clock, after a sleep that a signal
  or a step of the clock made that short, divide by zero (`EthernetSource.cpp:398`,
  `InterfaceMonitor.cpp:61`; `PassAtOnce`).
* The running time counts days of 84,600 seconds. Every interface is printed with the
  name of interface 0. `LOG_STATS_FREQ_SEC` 0 logs every second, while
  `PRINT_STATS_FREQ_SEC` 0 prints never.
* The number of active sessions printed is that of the map or one more; the number
  "cleaned" is of the last cleanup only.

Library code, mostly not called by the probe:

* `SafeQueue::trypop` on an empty queue unlocks twice, and may so free another thread's
  mutex (`doubled`); `pop(long)` takes milliseconds times 1000 for nanoseconds, and
  waits once only; `element()` returns a pointer that is used after the unlock;
  `mutexed::operator()` hands out a reference without the lock. A deadline of exactly a
  second's fractions is refused by the system and counts as expired (`Deadline`).
* Base64 never reports an invalid character: `(char)0x80` is negative and never equals
  `0x80`. `total_trim` of an empty text reads and writes before the buffer. `itoa` is
  short of room in radix 2 for *n* ≤ −2^30. Packed septets get a NUL appended when seven
  are left of eight. A URL that does not begin with `http://` comes back from a WAP push
  with the bytes 0B 03.
* `ipToLong` returns 1 on an error, which is also 0.0.0.1, and reads past texts of fewer
  than four numbers. `getByteToHex` returns a local array, which 3200 bytes overflow.
  `getPrevIndex(0)` is 65535. `matchIP` with 32 bits shifts by the width.
  `IPv6Address::Zero` is built from a text of 16 groups and is invalid, where
  `IpAddress.h:265` speaks of the zero value; assigning to an IPv6 address makes it
  valid, whatever is assigned.

## 7 What is not modelled

* `Solarflare headers`: the vendor's library. `Second S6a parser`: a file the build
  leaves out.
* Wording and layout of lines and tables; file and socket calls, apart from what they
  order; thread affinity and wrappers of library calls.
* The protocol filter of the listeners: the packets of the models are those that pass.
  The clamp of the TCP payload (`TCPParser.cpp:42`) beyond what `Decode` says of
  lengths.
* Handlers of attributes that are not in the table (`ALL_APN`, `APN_CONFIG`): never
  reached.
* The schedule of the cleanup (`SCAN_FREQ`): `GxSessions` lets it come at any time.
* Lags of a whole lap of the ring. The code then skips a lap silently.
* Undefined behaviour beyond the step it happens in: `clash`, `damaged`, writes beyond
  the arrays.
* The bytes of buffers that are reused by attributes of fixed size: `Avp` stops at the
  access (`wild`, `crashed`).

## 8 Plan

Done, in this order: session tables (Gx, then S6a with its abstract specification),
hand-over queues, XDR path, packet ring, file names, decoding, lifecycle, configuration;
the log as a channel, attributes, columns, names, the card's buffers, monitors and
statistics, utilities and the library's locks; proofs of the tables, the records, the
refinements, the slots and the order in them (with late routers too), the packet ring,
decoding, the XDR path, the buffers, the life cycle and the log; of the configuration as
written, the card's buffers, the columns of a record, names, file names, figures, addresses and the library's locks.

What could still be added, in order of importance:

1. A fault model for a session manager that is a whole lap behind, and for pauses of the
   routers longer than a lap.
2. `ImplementsMatching` for Gx, up to the first write through the lost pointer.
