------------------------------- MODULE Parts -------------------------------
(* The parts of the program that share no state with one another, each     *)
(* instantiated under a name of its own, and what each promises: one part  *)
(* is looked at at a time.                                                 *)

CONSTANTS
  Slots, FirstSecond, MaxTime,                 \* FileName
  HopByHopIds, Pool, MaxMsgs,                  \* Record
  UnknownRat, UnknownCommand,                  \* Names
  Bufs, PerBuf, MaxPkts,                       \* PackedStream
  Monitored, IntRange, Elapsed, MaxCount, MaxDayChanges,   \* Monitor
  Threads, MaxPush,                            \* Queue
  Users, MaxSets, Second,                      \* Locks, Second in Monitor too
  Objects, Addresses,                          \* Address
  Managers, Queues, Frequencies, MaxStored, MaxOpen  \* Stats

VARIABLES
  part,   \* the part that takes steps
  real, global, timer, wr,
  proto, seen, entry, decoded, pool, table, records,
  names, managed, inside, answer, damaged,
  fresh, posted, filling, memory, events, arrived, head, next, tail, current,
  iter, todo, consumed,
  kind, pkts, indication, adding, prev, rate, counted, since, revived, beyond,
  changes, alive,
  lock, items, size, at, call, number, taken, doubled,
  style, holders, words, sets, does, phase, copy, waiter,
  class, object, zeroed, cleared,
  thread, setting, loopCnt, queue, open, active, doing, reader

Fil == INSTANCE FileName
Rec == INSTANCE Record
Nam == INSTANCE Names
Str == INSTANCE PackedStream
Mon == INSTANCE Monitor WITH Interfaces <- Monitored, rx <- pkts
Que == INSTANCE Queue
Lck == INSTANCE Locks
Adr == INSTANCE Address
Sta == INSTANCE Stats

-----------------------------------------------------------------------------
(* The properties are those of the modules, see there.                     *)

(* FileName: the name of a file is not behind its second.                 *)
NameNotBehind == part = "file name" => Fil!NameNotBehind

(* Record: the columns of a record come from its own messages. *)
ColumnsOfPair == part = "record" => Rec!ColumnsOfPair

(* Names: codes are written with their own names. *)
NamesHold == part = "names" => Nam!NamesHold

(* PackedStream: packets are read once and in order. *)
PacketsInOrder == part = "packed stream" => Str!PacketsInOrder

(* Monitor, Stats: a rate shows packets between two passes only, a table   *)
(* the messages and sessions of the managers it names.                     *)
StatisticsHold ==
  /\ part = "monitor" => Mon!RatesHold
  /\ part = "stats" => Sta!TablesHold

(* Queue, Locks: the log library's queue and locks exclude, wake and       *)
(* deliver as they promise.                                                *)
LibraryLocksHold ==
  /\ part = "queue" => Que!QueueHolds
  /\ part = "locks" => Lck!LocksHold
=============================================================================
