------------------------------ MODULE MCParts ------------------------------
(* Parts checked in one run, with two more that are calculations: the      *)
(* initial state chooses a part, and only that part takes steps, the       *)
(* variables of the others are empty.                                      *)
EXTENDS Parts, Integers, Sequences

CONSTANTS
  Chars, Length, Septets, SeptetLength,        \* Text
  Bits, MaxOptions                             \* Bytes

VARIABLES text, options

Txt == INSTANCE Text
Byt == INSTANCE Bytes

ASSUME PartsAssumption ==
  Fil!BoundsNamed /\ Str!BuffersNamed /\ PerBuf \in Nat /\ Que!ThreadsNamed /\ Lck!UsersNamed
  /\ Mon!RangeNamed /\ Sta!SomeOfEach

(* The clock may be set back or not move, and a signal may cut a sleep     *)
(* short: milliseconds between two passes of a monitor, four to a second.  *)
Millis == {-1, 0, 3}

PartNames == {"file name", "record", "names", "packed stream", "monitor", "text",
          "bytes", "queue", "locks", "address", "stats"}

(* The variables of each. *)
fileNameVars == <<real, global, timer, wr>>
recordVars  == <<proto, seen, entry, decoded, pool, table, records>>
namesVars   == <<names, managed, inside, answer, damaged>>
streamVars  == <<fresh, posted, filling, memory, events, arrived, head, next, tail,
                 current, iter, todo, consumed>>
monitorVars == <<kind, pkts, indication, adding, prev, rate, counted, since,
                 revived, beyond, changes, alive>>
queueVars   == <<lock, items, size, at, call, number, taken, doubled>>
locksVars   == <<style, holders, words, sets, does, phase, copy, waiter>>
addressVars == <<class, object, zeroed, cleared>>
statsVars   == <<thread, setting, loopCnt, queue, open, active, doing, reader>>

-----------------------------------------------------------------------------
PartsInit ==
  /\ part \in PartNames
  /\ IF part = "file name" THEN Fil!Init
     ELSE real = << >> /\ global = << >> /\ timer = << >> /\ wr = << >>
  /\ IF part = "record" THEN Rec!Init
     ELSE /\ proto = << >> /\ seen = << >> /\ entry = << >> /\ decoded = << >>
          /\ pool = << >> /\ table = << >> /\ records = << >>
  /\ IF part = "names" THEN Nam!Init
     ELSE /\ names = << >> /\ managed = << >> /\ inside = << >> /\ answer = << >>
          /\ damaged = << >>
  /\ IF part = "packed stream" THEN Str!Init
     ELSE /\ fresh = << >> /\ posted = << >> /\ filling = << >> /\ memory = << >> /\ events = << >>
          /\ arrived = << >> /\ head = << >> /\ next = << >> /\ tail = << >>
          /\ current = << >> /\ iter = << >> /\ todo = << >> /\ consumed = << >>
  /\ IF part = "monitor" THEN Mon!Init
     ELSE /\ kind = << >> /\ pkts = << >> /\ indication = << >> /\ adding = << >>
          /\ prev = << >> /\ rate = << >> /\ counted = << >> /\ since = << >>
          /\ revived = << >> /\ beyond = << >> /\ changes = << >>
          /\ alive = << >>
  /\ IF part = "text" THEN Txt!TextInit
     ELSE text = << >>
  /\ IF part = "bytes" THEN Byt!BytesInit
     ELSE options = << >>
  /\ IF part = "queue" THEN Que!Init
     ELSE /\ lock = << >> /\ items = << >> /\ size = << >> /\ at = << >>
          /\ call = << >> /\ number = << >> /\ taken = << >> /\ doubled = << >>
  /\ IF part = "locks" THEN Lck!Init
     ELSE /\ style = << >> /\ holders = << >> /\ words = << >> /\ sets = << >>
          /\ does = << >> /\ phase = << >> /\ copy = << >> /\ waiter = << >>
  /\ IF part = "address" THEN Adr!Init
     ELSE /\ class = << >> /\ object = << >> /\ zeroed = << >> /\ cleared = << >>
  /\ IF part = "stats" THEN Sta!Init
     ELSE /\ thread = << >> /\ setting = << >> /\ loopCnt = << >> /\ queue = << >>
          /\ open = << >> /\ active = << >> /\ doing = << >> /\ reader = << >>

(* p takes no step. *)
Idle(p) ==
  CASE p = "file name"     -> UNCHANGED fileNameVars
    [] p = "record"        -> UNCHANGED recordVars
    [] p = "names"         -> UNCHANGED namesVars
    [] p = "packed stream" -> UNCHANGED streamVars
    [] p = "monitor"       -> UNCHANGED monitorVars
    [] p = "text"          -> UNCHANGED text
    [] p = "bytes"         -> UNCHANGED options
    [] p = "queue"         -> UNCHANGED queueVars
    [] p = "locks"         -> UNCHANGED locksVars
    [] p = "address"       -> UNCHANGED addressVars
    [] p = "stats"         -> UNCHANGED statsVars

Only(p) == part = p /\ part' = p /\ \A other \in PartNames \ {p} : Idle(other)

(* Text and Bytes are calculations: every input is an initial state. *)
PartsNext ==
  \/ Only("file name") /\ Fil!Next
  \/ Only("record") /\ Rec!Next
  \/ Only("names") /\ Nam!Next
  \/ Only("packed stream") /\ Str!Next
  \/ Only("monitor") /\ Mon!Next
  \/ Only("queue") /\ Que!Next
  \/ Only("locks") /\ Lck!Next
  \/ Only("address") /\ Adr!Next
  \/ Only("stats") /\ Sta!Next

PartsSpec == PartsInit /\ [][PartsNext]_<<part, fileNameVars, recordVars, namesVars, streamVars,
               monitorVars, text, options, queueVars, locksVars, addressVars, statsVars>>

-----------------------------------------------------------------------------
(* Text, Bytes, Address: the functions on texts, bytes and addresses are   *)
(* what their names say, with the exceptions stated.                       *)
UtilitiesHold ==
  /\ part = "text" => Txt!TextHolds
  /\ part = "bytes" => Byt!BytesHold
  /\ part = "address" => Adr!AddressHolds
=============================================================================
