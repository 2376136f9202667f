---------------------------- MODULE Parts_proofs ------------------------------
(***************************************************************************)
(* However many interfaces are listened to, and whatever signals, commands *)
(* and midnights come when: traffic meets a complete pipeline, the join at *)
(* the end is one of a thread there is, and counters hold the day's        *)
(* packets.  Whatever the configuration says before that, no listener may  *)
(* fill more buffers than the main thread has allocated; and the settings  *)
(* are what the lines of the file say.  And of the parts (Parts), one      *)
(* after the other: the log library's queue and locks, the tables of       *)
(* names, the packet counters, the statistics, the address objects, the    *)
(* time files are named after, the card's buffers and the columns of a     *)
(* record.                                                                 *)
(***************************************************************************)
EXTENDS Lifecycle, Config, Parts, FiniteSetTheorems, SequenceTheorems,
        WellFoundedInduction, TLAPS

(* A set of natural numbers has a least one; and what holds of 0, and of   *)
(* each number's successor with it, holds of all of them up to N.          *)
LEMMA NatLeast ==
  ASSUME NEW T, T \subseteq Nat, T # {}
  PROVE  \E x \in T : \A y \in T : x <= y
<1>1. PICK R : R = OpToRel(<, Nat)
  OBVIOUS
<1>2. IsWellFoundedOn(R, Nat)
  BY <1>1, NatLessThanWellFounded
<1>3. PICK x \in T : \A y \in T : <<y, x>> \notin R
  BY <1>2, WFMin
<1>4. ASSUME NEW y \in T  PROVE  x <= y
  <2>1. x \in Nat /\ y \in Nat
    OBVIOUS
  <2>2. <<y, x>> \notin R
    BY <1>3
  <2>3. R = {ss \in Nat \X Nat : ss[1] < ss[2]}
    BY <1>1, Zenon DEF OpToRel
  <2>4. ASSUME y < x  PROVE  <<y, x>> \in R
    BY <2>1, <2>3, <2>4
  <2> QED  BY <2>1, <2>2, <2>4
<1> QED  BY <1>3, <1>4

LEMMA Upwards ==
  ASSUME NEW N \in Nat, NEW S, 0 \in S, \A n \in 0 .. N - 1 : n \in S => n + 1 \in S
  PROVE  0 .. N \subseteq S
<1> DEFINE T == {n \in 0 .. N : n \notin S}
<1> SUFFICES ASSUME T # {}  PROVE FALSE
  OBVIOUS
<1>1. PICK x \in T : \A y \in T : x <= y
  <2>1. T \subseteq Nat
    OBVIOUS
  <2> HIDE DEF T
  <2> QED  BY <2>1, NatLeast
<1>2. x \in 0 .. N /\ x \notin S /\ x # 0
  OBVIOUS
<1>3. x - 1 \in 0 .. N - 1 /\ (x - 1) + 1 = x /\ ~(x <= x - 1)
  BY <1>2
<1>4. x - 1 \in S
  BY <1>1, <1>3
<1> QED  BY <1>2, <1>3, <1>4
-----------------------------------------------------------------------------
Starting == {"boot", "create", "wait"}
AfterStats == {"lull", "loop", "pass", "tell", "join", "exited", "undefined"}

(* Types, with what they rest on: no listener is told of a day that the    *)
(* main thread has not noticed.                                            *)
Typed ==
  /\ main \in [pc : Starting \cup {"stats"} \cup AfterStats, n : Nat, lastday : Nat]
  /\ TypeOK
  /\ \A i \in Interface : told[i] <= main.lastday
  /\ main.pc = "tell" => /\ main.n \in Interface
                         /\ \A i \in Interface : i >= main.n => told[i] < main.lastday

(* Workers are created one after the other, each when the one before is    *)
(* ready.                                                                  *)
OneByOne ==
  /\ main.pc \in Starting => main.n \in 1 .. 6
  /\ main.pc = "boot" => main.n = 1
  /\ \A k \in 1 .. 6 :
       /\ main.pc \in {"boot", "create"} => worker[Workers[k]] = IF k < main.n THEN "ready" ELSE "off"
       /\ main.pc = "wait" => /\ k < main.n => worker[Workers[k]] = "ready"
                              /\ k = main.n => worker[Workers[k]] # "off"
                              /\ k > main.n => worker[Workers[k]] = "off"
       /\ main.pc \notin Starting => worker[Workers[k]] = "ready"

(* Packets come from listeners. *)
FromListeners ==
  /\ \A i \in Interface : lst[i].pc = "count" => worker["listener"] # "off"
  /\ pushed => worker["listener"] # "off"

Pipeline == Typed /\ OneByOne /\ FromListeners

LEMMA WorkerNames ==
  /\ Len(Workers) = 6 /\ Worker = {Workers[k] : k \in 1 .. 6}
  /\ \A j, k \in 1 .. 6 : Workers[j] = Workers[k] => j = k
  /\ Workers[6] = "listener"
<1>1. Len(Workers) = 6 /\ DOMAIN Workers = 1 .. 6
  BY DEF Workers
<1>2. /\ Workers[1] = "timer" /\ Workers[2] = "manager" /\ Workers[3] = "flusher"
      /\ Workers[4] = "writer" /\ Workers[5] = "router" /\ Workers[6] = "listener"
  BY DEF Workers
<1>3. \A k \in 1 .. 6 : k = 1 \/ k = 2 \/ k = 3 \/ k = 4 \/ k = 5 \/ k = 6
  OBVIOUS
<1> QED  BY <1>1, <1>2, <1>3 DEF Worker

-----------------------------------------------------------------------------
LEMMA TypedInit == Init => Typed
<1> SUFFICES ASSUME Init PROVE Typed
  OBVIOUS
<1>1. main \in [pc : Starting \cup {"stats"} \cup AfterStats, n : Nat, lastday : Nat]
  BY DEF Init, Starting, AfterStats
<1>2. main.lastday = 0 /\ main.pc = "boot" /\ day = 0 /\ told = [i \in Interface |-> 0]
  BY DEF Init
<1>3. TypeOK
  <2>1. {} \in SUBSET (0 .. day)
    OBVIOUS
  <2>2. lst \in [Interface -> [pc : {"idle", "count"}, loaded : SUBSET (0 .. day)]]
    BY <2>1 DEF Init, Idle
  <2>3. day \in 0 .. MaxDays /\ told \in [Interface -> 0 .. day]
    BY <1>2, LifecycleAssumption
  <2>4. rx \in [Interface -> SUBSET (0 .. day)] /\ dayChange \in [Interface -> BOOLEAN]
    BY <2>1 DEF Init
  <2>5. worker \in [Worker -> {"off", "started", "ready"}] /\ main.lastday \in 0 .. day
    BY <1>2 DEF Init
  <2> QED  BY <2>2, <2>3, <2>4, <2>5 DEF Init, TypeOK
<1> QED  BY <1>1, <1>2, <1>3 DEF Typed

(* The steps of the main thread. *)
LEMMA MainTyped == ASSUME Typed, Main PROVE Typed'
<1> USE DEF Typed, TypeOK, settings, counters, history, Starting, AfterStats
<1>1. CASE Boot
  BY <1>1 DEF Boot
<1>2. CASE Create
  BY <1>2 DEF Create
<1>3. CASE Await
  <2>1. \/ main' = [main EXCEPT !.pc = "create", !.n = @ + 1]
        \/ main' = [main EXCEPT !.pc = "stats"]
    BY <1>3 DEF Await
  <2> DEFINE k == main.n + 1
  <2>0. k \in Nat /\ (main' = [main EXCEPT !.pc = "create", !.n = k] \/ main' = [main EXCEPT !.pc = "stats"])
    BY <2>1
  <2> HIDE DEF k
  <2>2. /\ main' \in [pc : Starting \cup {"stats"} \cup AfterStats, n : Nat, lastday : Nat]
        /\ main'.lastday = main.lastday /\ main'.pc # "tell"
    BY <2>0
  <2> QED  BY <1>3, <2>2 DEF Await
<1>4. CASE CreateStats
  BY <1>4 DEF CreateStats
<1>5. CASE LetIn
  <2>1. main' = [main EXCEPT !.pc = "loop", !.lastday = day] /\ day \in Nat
    BY <1>5, LifecycleAssumption DEF LetIn
  <2>2. /\ main' \in [pc : Starting \cup {"stats"} \cup AfterStats, n : Nat, lastday : Nat]
        /\ main'.lastday = day /\ main'.pc # "tell"
    BY <2>1
  <2>3. day \in 0 .. day /\ \A i \in Interface : told[i] <= day
    BY <2>1
  <2> QED  BY <1>5, <2>2, <2>3 DEF LetIn
<1>6. CASE GoOn \/ SameDay
  BY <1>6 DEF GoOn, SameDay
<1>7. CASE NewDay
  <2>1. main' = [main EXCEPT !.pc = "tell", !.lastday = day, !.n = 0] /\ day \in Nat
    BY <1>7, LifecycleAssumption DEF NewDay
  <2>2. main.lastday < day /\ 0 \in Interface
    BY <1>7, LifecycleAssumption DEF NewDay, Interface
  <2>3. \A i \in Interface : told[i] < day
    BY <2>1, <2>2
  <2>4. /\ main' \in [pc : Starting \cup {"stats"} \cup AfterStats, n : Nat, lastday : Nat]
        /\ main'.lastday = day /\ main'.n = 0
    BY <2>1
  <2>5. day \in 0 .. day /\ \A i \in Interface : told[i] <= day
    BY <2>1
  <2> QED  BY <1>7, <2>2, <2>3, <2>4, <2>5 DEF NewDay
<1>8. CASE Tell
  <2>1. told' = [told EXCEPT ![main.n] = @ + 1] /\ main.n \in Interface
    BY <1>8 DEF Tell
  <2>2. told[main.n] + 1 \in 0 .. day /\ told[main.n] + 1 <= main.lastday
    BY <1>8, <2>1 DEF Tell
  <2>3. /\ told' \in [Interface -> 0 .. day]
        /\ \A i \in Interface : told'[i] <= main.lastday
        /\ \A i \in Interface : i >= main.n + 1 => told'[i] < main.lastday
    BY <1>8, <2>1, <2>2 DEF Tell, Interface
  <2>4. /\ main' = [main EXCEPT !.n = @ + 1] /\ main.n + 1 \in Interface
        \/ main' = [main EXCEPT !.pc = "loop"]
    BY <1>8, <2>1, LifecycleAssumption DEF Tell, Interface
  <2> QED  BY <1>8, <2>1, <2>3, <2>4 DEF Tell
<1>9. CASE Leave \/ Join
  BY <1>9 DEF Leave, Join
<1> QED  BY <1>1, <1>2, <1>3, <1>4, <1>5, <1>6, <1>7, <1>8, <1>9 DEF Main

LEMMA TypedStep == ASSUME Typed, [Next]_vars PROVE Typed'
<1> USE DEF Typed, TypeOK, settings, counters, history
<1>1. CASE Main
  BY <1>1, MainTyped
<1>2. ASSUME NEW w \in Worker, Ready(w) PROVE Typed'
  BY <1>2 DEF Ready
<1>3. CASE StatsEnd
  BY <1>3 DEF StatsEnd
<1>4. ASSUME NEW i \in Interface, Packet(i) PROVE Typed'
  <2>1. AfterReset(i) \in [Interface -> SUBSET (0 .. day)]
    BY DEF AfterReset
  <2>2. rx' \in [Interface -> SUBSET (0 .. day)] /\ dayChange' \in [Interface -> BOOLEAN]
    BY <1>4, <2>1 DEF Packet
  <2>3. lst' \in [Interface -> [pc : {"idle", "count"}, loaded : SUBSET (0 .. day)]]
    BY <1>4, <2>2 DEF Packet
  <2> QED  BY <1>4, <2>2, <2>3 DEF Packet
<1>5. ASSUME NEW i \in Interface, Count(i) PROVE Typed'
  <2>1. lst[i].loaded \cup {told[i]} \in SUBSET (0 .. day)
    OBVIOUS
  <2>2. rx' \in [Interface -> SUBSET (0 .. day)]
    BY <1>5, <2>1 DEF Count
  <2>3. lst' \in [Interface -> [pc : {"idle", "count"}, loaded : SUBSET (0 .. day)]]
    BY <1>5 DEF Count, Idle
  <2> QED  BY <1>5, <2>2, <2>3 DEF Count
<1>6. CASE Signal
  BY <1>6 DEF Signal
<1>7. CASE Command
  BY <1>7 DEF Command
<1>8. CASE Midnight
  <2>1. day' = day + 1 /\ day' \in 0 .. MaxDays /\ 0 .. day \subseteq 0 .. day'
    BY <1>8, LifecycleAssumption DEF Midnight
  <2>2. told \in [Interface -> 0 .. day'] /\ rx \in [Interface -> SUBSET (0 .. day')]
    BY <2>1
  <2>3. lst \in [Interface -> [pc : {"idle", "count"}, loaded : SUBSET (0 .. day')]]
    <3>1. [pc : {"idle", "count"}, loaded : SUBSET (0 .. day)]
            \subseteq [pc : {"idle", "count"}, loaded : SUBSET (0 .. day')]
      BY <2>1
    <3> QED  BY <3>1
  <2> QED  BY <1>8, <2>1, <2>2, <2>3 DEF Midnight
<1>9. CASE UNCHANGED vars
  BY <1>9 DEF vars
<1> QED  BY <1>1, <1>2, <1>3, <1>4, <1>5, <1>6, <1>7, <1>8, <1>9 DEF Next

(* The variables have their types in every reachable state.                *)
THEOREM TypeCorrect == Spec => []TypeOK
<1>1. Init => Typed
  BY TypedInit
<1>2. Typed /\ [Next]_vars => Typed'
  BY TypedStep
<1>3. Typed => TypeOK
  BY DEF Typed
<1> QED  BY <1>1, <1>2, <1>3, PTL DEF Spec

-----------------------------------------------------------------------------
(* Traffic meets a complete pipeline. *)

LEMMA PipelineInit == Init => Pipeline
<1> SUFFICES ASSUME Init PROVE Pipeline
  OBVIOUS
<1>1. \A k \in 1 .. 6 : ~(k < 1) /\ worker[Workers[k]] = "off"
  BY WorkerNames DEF Init
<1>2. OneByOne
  BY <1>1 DEF Init, OneByOne, Starting
<1>3. FromListeners
  BY DEF Init, FromListeners, Idle
<1> QED  BY <1>2, <1>3, TypedInit DEF Pipeline

(* What OneByOne says of one worker. *)
LEMMA MainOneByOne == ASSUME Pipeline, Main PROVE OneByOne'
<1> USE DEF Pipeline, OneByOne, Starting
<1>0. /\ worker \in [Worker -> {"off", "started", "ready"}] /\ main.n \in Nat
      /\ main \in [pc : Starting \cup {"stats"} \cup AfterStats, n : Nat, lastday : Nat]
      /\ \A k \in 1 .. 6 : Workers[k] \in Worker
  BY WorkerNames DEF Typed, TypeOK
<1>1. CASE Boot
  <2>1. main'.pc = "create" /\ main'.n = main.n /\ worker' = worker
    BY <1>0, <1>1 DEF Boot
  <2> QED  BY <1>1, <2>1 DEF Boot
<1>2. CASE Create
  <2>1. /\ main'.pc = "wait" /\ main'.n = main.n /\ main.n \in 1 .. 6
        /\ worker' = [worker EXCEPT ![Workers[main.n]] = "started"]
    BY <1>0, <1>2 DEF Create
  <2>2. worker'[Workers[main.n]] = "started"
    BY <1>0, <2>1
  <2>3. \A k \in 1 .. 6 : k # main.n => worker'[Workers[k]] = worker[Workers[k]]
    BY <1>0, <2>1, WorkerNames
  <2> QED  BY <1>2, <2>1, <2>2, <2>3 DEF Create
<1>3. CASE Await
  <2>1. /\ main.pc = "wait" /\ main.n \in 1 .. 6 /\ worker' = worker
        /\ worker[Workers[main.n]] = "ready"
    BY <1>3 DEF Await
  <2>2. CASE main.n < 6
    <3>1. main'.pc = "create" /\ main'.n = main.n + 1
      BY <1>0, <1>3, <2>2, WorkerNames DEF Await
    <3>2. \A k \in 1 .. 6 : worker[Workers[k]] = IF k < main.n + 1 THEN "ready" ELSE "off"
      BY <2>1
    <3> QED  BY <2>1, <2>2, <3>1, <3>2
  <2>3. CASE ~(main.n < 6)
    <3>1. main'.pc = "stats"
      BY <1>0, <1>3, <2>3, WorkerNames DEF Await
    <3>2. \A k \in 1 .. 6 : worker[Workers[k]] = "ready"
      BY <2>1, <2>3
    <3> QED  BY <2>1, <3>1, <3>2
  <2> QED  BY <2>2, <2>3
<1>4. CASE CreateStats \/ LetIn \/ GoOn \/ SameDay \/ NewDay \/ Tell \/ Leave \/ Join
  <2>1. main.pc \notin {"boot", "create", "wait"} /\ main'.pc \notin {"boot", "create", "wait"} /\ worker' = worker
    <3>1. CASE CreateStats \/ LetIn \/ GoOn \/ SameDay \/ NewDay
      BY <1>0, <3>1 DEF CreateStats, LetIn, GoOn, SameDay, NewDay
    <3>2. CASE Tell
      BY <1>0, <3>2 DEF Tell
    <3>3. CASE Leave \/ Join
      BY <1>0, <3>3 DEF Leave, Join
    <3> QED  BY <1>4, <3>1, <3>2, <3>3
  <2> QED  BY <2>1
<1> QED  BY <1>1, <1>2, <1>3, <1>4 DEF Main

(* What has been started stays started. *)
LEMMA StaysOn ==
  ASSUME Pipeline, [Next]_vars, worker["listener"] # "off"
  PROVE  worker'["listener"] # "off"
<1>1. worker \in [Worker -> {"off", "started", "ready"}]
  BY DEF Pipeline, Typed, TypeOK
<1>2. CASE Main
  <2>1. worker' = worker \/ worker' = [worker EXCEPT ![Workers[main.n]] = "started"]
    BY <1>2 DEF Main, Boot, Create, Await, CreateStats, LetIn, GoOn, SameDay, NewDay, Tell, Leave, Join
  <2> QED  BY <1>1, <2>1, WorkerNames
<1>3. ASSUME NEW w \in Worker, Ready(w) PROVE worker'["listener"] # "off"
  BY <1>1, <1>3 DEF Ready
<1>4. CASE UNCHANGED worker
  BY <1>4
<1> QED  BY <1>2, <1>3, <1>4 DEF Next, StatsEnd, Packet, Count, Signal, Command, Midnight, vars

LEMMA PipelineStep == ASSUME Pipeline, [Next]_vars PROVE Pipeline'
<1>0. Typed'
  BY TypedStep DEF Pipeline
<1>t. worker \in [Worker -> {"off", "started", "ready"}]
  BY DEF Pipeline, Typed, TypeOK
<1>1. OneByOne'
  <2>1. CASE Main
    BY <2>1, MainOneByOne
  <2>2. ASSUME NEW w \in Worker, Ready(w) PROVE OneByOne'
    <3>1. /\ worker[w] = "started" /\ main' = main
          /\ worker' = [worker EXCEPT ![w] = "ready"]
      BY <2>2 DEF Ready
    <3>2. \A k \in 1 .. 6 : worker'[Workers[k]] = IF Workers[k] = w THEN "ready" ELSE worker[Workers[k]]
      BY <1>t, <3>1, WorkerNames
    <3>3. \A k \in 1 .. 6 : worker[Workers[k]] # "started" => worker'[Workers[k]] = worker[Workers[k]]
      BY <3>1, <3>2
    <3>4. \A k \in 1 .. 6 : worker[Workers[k]] = "started" => worker'[Workers[k]] \in {"started", "ready"}
      BY <3>2
    <3> QED  BY <3>1, <3>3, <3>4 DEF Pipeline, OneByOne
  <2>3. CASE UNCHANGED <<main, worker>>
    BY <2>3 DEF Pipeline, OneByOne
  <2> QED  BY <2>1, <2>2, <2>3 DEF Next, StatsEnd, Packet, Count, Signal, Command, Midnight, vars
<1>2. FromListeners'
  <2>1. CASE UNCHANGED <<lst, pushed>>
    BY <2>1, StaysOn DEF Pipeline, FromListeners
  <2>2. ASSUME NEW i \in Interface, Packet(i) PROVE FromListeners'
    <3>1. worker["listener"] # "off" /\ worker' = worker
      BY <2>2 DEF Packet
    <3> QED  BY <3>1 DEF FromListeners
  <2>3. ASSUME NEW i \in Interface, Count(i) PROVE FromListeners'
    <3>1. worker["listener"] # "off" /\ worker' = worker
      BY <2>3 DEF Count, Pipeline, FromListeners
    <3> QED  BY <3>1 DEF FromListeners
  <2>4. CASE Main \/ StatsEnd \/ Signal \/ Command \/ Midnight \/ \E w \in Worker : Ready(w)
    <3>1. UNCHANGED <<lst, pushed>>
      BY <2>4 DEF Main, Boot, Create, Await, CreateStats, LetIn, GoOn, SameDay, NewDay, Tell, Leave, Join,
                  StatsEnd, Signal, Command, Midnight, Ready, counters, history
    <3> QED  BY <2>1, <3>1
  <2>5. CASE UNCHANGED vars
    BY <2>1, <2>5 DEF vars, counters, history
  <2> QED  BY <2>2, <2>3, <2>4, <2>5 DEF Next
<1> QED  BY <1>0, <1>1, <1>2 DEF Pipeline

LEMMA PipelineReady == Pipeline => ReadyBeforeTraffic
<1> SUFFICES ASSUME Pipeline, pushed, NEW w \in Worker, w # "listener" PROVE worker[w] = "ready"
  BY DEF ReadyBeforeTraffic
<1>1. PICK k \in 1 .. 6 : Workers[k] = w
  BY WorkerNames
<1>2. k < 6 /\ worker[Workers[6]] # "off" /\ 6 \in 1 .. 6
  BY <1>1, WorkerNames DEF Pipeline, FromListeners
<1>3. main.n \in Nat
  BY DEF Pipeline, Typed
<1>4. CASE main.pc \in {"boot", "create"}
  BY <1>1, <1>2, <1>3, <1>4 DEF Pipeline, OneByOne
<1>5. CASE main.pc = "wait"
  BY <1>1, <1>2, <1>3, <1>5 DEF Pipeline, OneByOne
<1>6. CASE main.pc \notin Starting
  BY <1>1, <1>6 DEF Pipeline, OneByOne
<1> QED  BY <1>4, <1>5, <1>6 DEF Starting

(* No packet is put into the pipeline before every thread behind the       *)
(* listeners is at work: the wait for each thread does it, whatever is     *)
(* resumed or reloaded in the meantime.                                    *)
THEOREM TrafficFindsThreads == Spec => []ReadyBeforeTraffic
<1>1. Init => Pipeline
  BY PipelineInit
<1>2. Pipeline /\ [Next]_vars => Pipeline'
  BY PipelineStep
<1> QED  BY <1>1, <1>2, PipelineReady, PTL DEF Spec

-----------------------------------------------------------------------------
(* The thread that is joined exists. *)

(* Before the thread of statistics may have been created it is not there;  *)
(* after, it is there if statistics are on, unless a reload put them on.   *)
StatsAccounted ==
  /\ main.pc = "undefined" => reloaded
  /\ main.pc \in AfterStats => (printStats /\ stats = "none" => reloaded)
  /\ main.pc = "join" => (stats = "none" => reloaded)

LEMMA StatsAccountedStep ==
  ASSUME Typed, Typed', StatsAccounted, [Next]_vars
  PROVE  StatsAccounted'
<1> USE DEF StatsAccounted
<1>0. /\ main \in [pc : Starting \cup {"stats"} \cup AfterStats, n : Nat, lastday : Nat]
      /\ printStats \in BOOLEAN /\ printStats' \in BOOLEAN
      /\ stats \in {"none", "running", "ended"}
  BY DEF Typed, TypeOK
<1>1. CASE Boot \/ Create \/ Await
  <2>1. main'.pc \in {"create", "wait", "stats"}
    BY <1>0, <1>1 DEF Boot, Create, Await
  <2> QED  BY <2>1 DEF AfterStats
<1>2. CASE CreateStats
  <2>1. main'.pc = "lull" /\ (printStats => stats' = "running") /\ printStats' = printStats
    BY <1>0, <1>2 DEF CreateStats, settings
  <2> QED  BY <2>1 DEF AfterStats
<1>3. CASE LetIn \/ GoOn \/ SameDay \/ NewDay \/ Tell
  <2>1. /\ main.pc \in AfterStats /\ main'.pc \notin {"join", "undefined"}
        /\ UNCHANGED <<printStats, stats, reloaded>>
    <3>1. CASE LetIn \/ GoOn \/ SameDay \/ NewDay
      BY <1>0, <3>1 DEF LetIn, GoOn, SameDay, NewDay, AfterStats, settings, history
    <3>2. CASE Tell
      BY <1>0, <3>2 DEF Tell, AfterStats, settings, history
    <3> QED  BY <1>3, <3>1, <3>2
  <2> QED  BY <2>1
<1>4. CASE Leave
  <2>1. /\ main.pc = "loop" /\ main'.pc # "undefined" /\ (main'.pc = "join" => printStats)
        /\ UNCHANGED <<printStats, stats, reloaded>>
    BY <1>0, <1>4 DEF Leave, history
  <2> QED  BY <2>1 DEF AfterStats
<1>5. CASE Join
  <2>1. /\ main.pc = "join" /\ stats # "running" /\ main'.pc # "join"
        /\ main'.pc = "undefined" => stats # "ended"
        /\ UNCHANGED <<printStats, stats, reloaded>>
    BY <1>0, <1>5 DEF Join, settings, history
  <2> QED  BY <1>0, <2>1 DEF AfterStats
<1>6. CASE StatsEnd
  <2>1. main' = main /\ stats' = "ended" /\ reloaded' = reloaded
    BY <1>6 DEF StatsEnd, history
  <2> QED  BY <2>1
<1>7. CASE Command
  <2>1. /\ main' = main /\ stats' = stats
        /\ \/ printStats' = printStats /\ reloaded' = reloaded
           \/ reloaded' = (reloaded \/ (printStats' /\ ~printStats))
    BY <1>7 DEF Command
  <2>2. (reloaded => reloaded') /\ (printStats' /\ ~printStats => reloaded')
    <3>1. CASE printStats' = printStats /\ reloaded' = reloaded
      BY <3>1
    <3>2. CASE reloaded' = (reloaded \/ (printStats' /\ ~printStats))
      BY <3>2, Zenon
    <3> QED  BY <2>1, <3>1, <3>2
  <2>3. main'.pc = main.pc /\ stats' = stats
    BY <2>1
  <2> HIDE DEF StatsAccounted
  <2>4. (main.pc = "undefined" => reloaded) /\ (main.pc = "join" => (stats = "none" => reloaded))
    BY DEF StatsAccounted
  <2>5. main.pc \in AfterStats => (printStats' /\ stats = "none" => reloaded')
    BY <2>2, Zenon DEF StatsAccounted
  <2> QED  BY <2>2, <2>3, <2>4, <2>5 DEF StatsAccounted
<1>8. CASE UNCHANGED <<main, printStats, stats, reloaded>>
  BY <1>8
<1>9. CASE \/ \E w \in Worker : Ready(w)
           \/ \E i \in Interface : Packet(i) \/ Count(i)
           \/ Signal \/ Midnight \/ UNCHANGED vars
  <2>1. UNCHANGED <<main, printStats, stats, reloaded>>
    <3>1. ASSUME NEW w \in Worker, Ready(w) PROVE UNCHANGED <<main, printStats, stats, reloaded>>
      BY <3>1 DEF Ready, settings, history
    <3>2. ASSUME NEW i \in Interface, Packet(i) \/ Count(i)
          PROVE  UNCHANGED <<main, printStats, stats, reloaded>>
      BY <3>2 DEF Packet, Count, settings, history
    <3>3. CASE Signal \/ Midnight
      BY <3>3 DEF Signal, Midnight, settings, history
    <3>4. CASE UNCHANGED vars
      BY <3>4 DEF vars, settings, history
    <3> QED  BY <1>9, <3>1, <3>2, <3>3, <3>4
  <2> QED  BY <1>8, <2>1
<1> QED  BY <1>1, <1>2, <1>3, <1>4, <1>5, <1>6, <1>7, <1>9 DEF Next, Main

(* The program ends with the join of a thread that was never created only  *)
(* if the operator has switched statistics on by a reload.                 *)
THEOREM JoinIsDefined == Spec => []JoinDefined
<1>1. Init => Typed /\ StatsAccounted
  <2>1. Init => StatsAccounted
    BY DEF Init, StatsAccounted, AfterStats
  <2> QED  BY <2>1, TypedInit
<1>2. Typed /\ StatsAccounted /\ [Next]_vars => (Typed /\ StatsAccounted)'
  BY TypedStep, StatsAccountedStep
<1>3. StatsAccounted => JoinDefined
  BY DEF StatsAccounted, JoinDefined
<1> QED  BY <1>1, <1>2, <1>3, PTL DEF Spec

-----------------------------------------------------------------------------
(* Counters hold the packets of the day. *)

(* So does a counter that has been loaded and is not stored yet.           *)
LoadedToday ==
  \A i \in Interface :
    ~dayChange[i] /\ lst[i].pc = "count" => lst[i].loaded \subseteq {told[i]}

Today == Typed /\ TodayOnly /\ LoadedToday

LEMMA TodayStep == ASSUME Today, [Next]_vars PROVE TodayOnly' /\ LoadedToday'
<1> USE DEF Today
<1>0. /\ told \in [Interface -> 0 .. day] /\ dayChange \in [Interface -> BOOLEAN]
      /\ rx \in [Interface -> SUBSET (0 .. day)]
      /\ lst \in [Interface -> [pc : {"idle", "count"}, loaded : SUBSET (0 .. day)]]
  BY DEF Typed, TypeOK
<1>1. ASSUME NEW i \in Interface, Packet(i) PROVE TodayOnly' /\ LoadedToday'
  <2>1. /\ rx' = AfterReset(i) /\ told' = told
        /\ dayChange' = [dayChange EXCEPT ![i] = FALSE]
        /\ lst' = [lst EXCEPT ![i] = [pc |-> "count", loaded |-> rx'[i]]]
    BY <1>1 DEF Packet
  <2>2. \A j \in Interface : rx'[j] = {} \/ (rx'[j] = rx[j] /\ ~dayChange[i])
    BY <2>1 DEF AfterReset
  <2>3. \A j \in Interface : ~dayChange'[j] => rx'[j] \subseteq {told[j]}
    BY <1>0, <2>1, <2>2 DEF TodayOnly
  <2>4. \A j \in Interface : ~dayChange'[j] /\ lst'[j].pc = "count" => lst'[j].loaded \subseteq {told[j]}
    <3> SUFFICES ASSUME NEW j \in Interface, ~dayChange'[j], lst'[j].pc = "count"
                 PROVE  lst'[j].loaded \subseteq {told[j]}
      OBVIOUS
    <3>1. CASE j = i
      <4>1. lst'[j].loaded = rx'[j]
        BY <1>0, <2>1, <3>1
      <4> QED  BY <2>3, <4>1
    <3>2. CASE j # i
      <4>1. lst'[j] = lst[j] /\ dayChange'[j] = dayChange[j]
        BY <1>0, <2>1, <3>2
      <4> QED  BY <4>1 DEF LoadedToday
    <3> QED  BY <3>1, <3>2
  <2> QED  BY <2>1, <2>3, <2>4 DEF TodayOnly, LoadedToday
<1>2. ASSUME NEW i \in Interface, Count(i) PROVE TodayOnly' /\ LoadedToday'
  <2>1. /\ lst[i].pc = "count" /\ UNCHANGED <<dayChange, told>>
        /\ rx' = [rx EXCEPT ![i] = lst[i].loaded \cup {told[i]}]
        /\ lst' = [lst EXCEPT ![i] = Idle]
    BY <1>2 DEF Count
  <2>2. ~dayChange[i] => rx'[i] \subseteq {told[i]}
    BY <1>0, <2>1 DEF LoadedToday
  <2>3. TodayOnly'
    BY <1>0, <2>1, <2>2 DEF TodayOnly
  <2>4. \A j \in Interface : lst'[j] = lst[j] \/ lst'[j].pc = "idle"
    BY <1>0, <2>1 DEF Idle
  <2> QED  BY <2>1, <2>3, <2>4 DEF LoadedToday
<1>3. CASE Tell
  <2>1. /\ dayChange' = [dayChange EXCEPT ![main.n] = TRUE]
        /\ told' = [told EXCEPT ![main.n] = @ + 1]
        /\ UNCHANGED <<rx, lst>>
    BY <1>3 DEF Tell
  <2>2. \A j \in Interface : ~dayChange'[j] => ~dayChange[j] /\ told'[j] = told[j]
    BY <1>0, <2>1
  <2> QED  BY <2>1, <2>2 DEF TodayOnly, LoadedToday
<1>4. CASE UNCHANGED <<dayChange, told, rx, lst>>
  BY <1>4 DEF TodayOnly, LoadedToday
<1>5. CASE \/ Boot \/ Create \/ Await \/ CreateStats \/ LetIn \/ GoOn \/ SameDay \/ NewDay
           \/ Leave \/ Join
           \/ \E w \in Worker : Ready(w)
           \/ StatsEnd \/ Signal \/ Command \/ Midnight \/ UNCHANGED vars
  <2>1. UNCHANGED <<dayChange, told, rx, lst>>
    <3>1. CASE Boot \/ Create \/ Await \/ CreateStats \/ LetIn \/ GoOn \/ SameDay \/ NewDay \/ Leave \/ Join
      BY <3>1 DEF Boot, Create, Await, CreateStats, LetIn, GoOn, SameDay, NewDay, Leave, Join, counters
    <3>2. ASSUME NEW w \in Worker, Ready(w) PROVE UNCHANGED <<dayChange, told, rx, lst>>
      BY <3>2 DEF Ready, counters
    <3>3. CASE StatsEnd \/ Signal \/ Command \/ Midnight
      BY <3>3 DEF StatsEnd, Signal, Command, Midnight, counters
    <3>4. CASE UNCHANGED vars
      BY <3>4 DEF vars, counters
    <3> QED  BY <1>5, <3>1, <3>2, <3>3, <3>4
  <2> QED  BY <1>4, <2>1
<1> QED  BY <1>1, <1>2, <1>3, <1>5 DEF Next, Main

(* Once a listener has seen the day change, its counter holds only packets *)
(* of the day, though any listener resets the counters of all, between a   *)
(* load and a store of the others.                                         *)
THEOREM CountersAreOfToday == Spec => []TodayOnly
<1>1. Init => Today
  <2>1. Init => TodayOnly /\ LoadedToday
    BY DEF Init, TodayOnly, LoadedToday, Idle
  <2> QED  BY <2>1, TypedInit DEF Today
<1>2. Today /\ [Next]_vars => Today'
  BY TypedStep, TodayStep DEF Today
<1>3. Today => TodayOnly
  BY DEF Today
<1> QED  BY <1>1, <1>2, <1>3, PTL DEF Spec

-----------------------------------------------------------------------------
(* The buffers, as the configuration has them. *)

(* The percentage is taken of whole hundreds, which are no more than what  *)
(* they are taken from.                                                    *)
LEMMA CapBounded ==
  ASSUME NEW q \in Nat, NEW c \in Nat, c <= 100
  PROVE  (q \div 100) * c <= q /\ (q \div 100) * c \in Nat
<1> DEFINE h == q \div 100
<1>1. h \in Nat /\ 100 * h <= q
  BY SMT
<1>2. \A x \in Nat : x * c <= x * 100 /\ x * c \in Nat
  BY SMT
<1>3. h * c <= h * 100 /\ h * c \in Nat
  BY <1>1, <1>2
<1>4. h * 100 = 100 * h
  BY <1>1, SMT
<1> HIDE DEF h
<1>5. h * c <= q
  BY <1>1, <1>3, <1>4, SMT
<1> QED  BY <1>3, <1>5 DEF h

LEMMA QuotientNat ==
  ASSUME NEW p \in Nat, NEW r \in Nat \ {0}
  PROVE  p \div r \in Nat
  BY SMT

-----------------------------------------------------------------------------
(* What the file and the settings hold are natural numbers. *)
ReadTyped ==
  /\ fp \in Seq(Word)
  /\ set \in [Settings -> [Intf -> Nat]]
  /\ intf \in Nat
  /\ text \in Texts

(* An interface set up has the buffers its settings ask for, and these do  *)
(* not change any more; a listener that has started was given them before. *)
Started == {"listen", "up", "reload"}

Divided(i) == Routers(i) > 0 /\ buffers[i] = Pps(i) \div Routers(i)

Sized ==
  /\ buffers \in [Intf -> Nat] /\ cap \in [Intf -> Nat]
  /\ pc = "load" => intf = 0
  /\ pc = "allocate" => \A i \in Intf : i < intf => Divided(i)
  /\ pc \in Started => \A i \in Intf : i < NoOfInterfaces => Divided(i)
  /\ \A i \in Intf :
       cap[i] = 0 \/ (pc \in Started /\ i < NoOfInterfaces /\ cap[i] = Allowed(i))

Configured == ReadTyped /\ Sized

LEMMA StoredSeq ==
  ASSUME NEW k \in Settings, NEW v, v.nums \in Seq(Nat)
  PROVE  Stored(k, v) \in Seq(Nat)
<1>1. NumberValue(v) \in Nat
  BY HeadTailProperties DEF NumberValue
<1>2. FlagValue(v) \in Nat
  BY DEF FlagValue
<1>3. Len(v.nums) \in Nat
  OBVIOUS
<1>4. One(k, v) \in Nat
  BY <1>1, <1>2, <1>3 DEF One
<1>5. \A x \in Nat : <<x>> \in Seq(Nat)
  BY SMT
<1> QED  BY <1>4, <1>5 DEF Stored

LEMMA OverlayType ==
  ASSUME NEW old \in [Intf -> Nat], NEW new \in Seq(Nat)
  PROVE  Overlay(old, new) \in [Intf -> Nat]
<1> SUFFICES ASSUME NEW i \in Intf
             PROVE  (IF i < Len(new) THEN new[i + 1] ELSE old[i]) \in Nat
  BY DEF Overlay
<1>1. i \in Nat
  BY ConfigAssumption DEF Intf, ConfigAssumption
<1>2. i < Len(new) => i + 1 \in 1 .. Len(new)
  BY <1>1, SMT
<1> QED  BY <1>2

LEMMA DefaultType == Default \in [Settings -> [Intf -> Nat]]
<1>1. ASSUME NEW k \in Settings, NEW i \in Intf
      PROVE  Default[k][i] \in Nat
  <2>1. Default[k][i] \in {DefaultPps, DefaultCap, 1, 0}
    BY DEF Default, DefaultOf
  <2> QED  BY <2>1, ConfigAssumption DEF ConfigAssumption
<1> QED  BY <1>1 DEF Default

-----------------------------------------------------------------------------
LEMMA ConfigInitial == ConfigInit => Configured
<1> SUFFICES ASSUME ConfigInit PROVE Configured
  OBVIOUS
<1>1. ReadTyped
  BY DefaultType, TextsAssumption DEF ConfigInit, ReadTyped, TextsAssumption
<1>2. Sized
  BY ConfigAssumption DEF ConfigInit, Sized, Intf, ConfigAssumption, Started
<1> QED  BY <1>1, <1>2 DEF Configured

(* Reading a setting stores natural numbers, and it leaves alone what the  *)
(* buffers were computed from, once the program has started.               *)
LEMMA ReadingKeeps ==
  ASSUME ReadTyped, ReadSetting
  PROVE  /\ ReadTyped'
         /\ pc = "reload" =>
              \A k \in Counts \cup Lists : set'[k] = set[k]
         /\ pc' \in {pc, "exited"} /\ (pc = "reload" => pc' = pc)
<1> USE DEF ReadTyped
<1> DEFINE k     == Head(fp).word
           value == IF Len(fp) > 1 THEN fp[2] ELSE NoWord
           new   == Stored(k, value)
<1>1. fp \in Seq(Word) /\ fp # <<>> /\ k \in Settings
  BY DEF ReadSetting, LookedFor, Reloadable, Settings, Numbers
<1>2. value.nums \in Seq(Nat)
  <2>1. CASE Len(fp) > 1
    <3>1. value = fp[2] /\ 2 \in 1 .. Len(fp)
      BY <2>1, <1>1, LenProperties
    <3>2. fp[2] \in Word
      BY <1>1, <3>1, ElementOfSeq
    <3> QED  BY <3>1, <3>2 DEF Word
  <2>2. CASE ~(Len(fp) > 1)
    BY <2>2, EmptySeq DEF NoWord
  <2> QED  BY <2>1, <2>2
<1> HIDE DEF value
<1>3. new \in Seq(Nat)
  BY <1>1, <1>2, StoredSeq
<1>4. Overlay(set[k], new) \in [Intf -> Nat]
  BY <1>1, <1>3, OverlayType
<1>5. /\ set' = [set EXCEPT ![k] = Overlay(set[k], new)]
      /\ pc' = IF TooManyRouters(k, new) THEN "exited" ELSE pc
      /\ pc = "reload" => k \in Reloadable
  BY DEF ReadSetting, value, LookedFor
<1> HIDE DEF k, new
<1>6. set' \in [Settings -> [Intf -> Nat]]
  BY <1>4, <1>5
<1>7. fp' \in Seq(Word)
  <2>1. CASE Len(fp) > 1
    <3>1. Tail(fp) \in Seq(Word) /\ Len(Tail(fp)) = Len(fp) - 1
      BY <1>1, HeadTailProperties
    <3>2. Len(Tail(fp)) # 0
      <4>1. \A n \in Nat : n > 1 => n - 1 # 0
        BY SMT
      <4>2. Len(fp) \in Nat
        BY <1>1, LenProperties
      <4> QED  BY <2>1, <3>1, <4>1, <4>2, Zenon
    <3>3. Tail(Tail(fp)) \in Seq(Word)
      BY <3>1, <3>2, EmptySeq, HeadTailProperties
    <3> QED  BY <2>1, <3>3 DEF ReadSetting
  <2>2. CASE ~(Len(fp) > 1)
    <3>1. <<>> \in Seq(Word)
      OBVIOUS
    <3> QED  BY <2>2, <3>1 DEF ReadSetting
  <2> QED  BY <2>1, <2>2
<1>8. ReadTyped'
  BY <1>6, <1>7 DEF ReadSetting
<1>9. pc = "reload" => \A s \in Counts \cup Lists : set'[s] = set[s]
  BY <1>5 DEF Counts, Lists, Reloadable, GxSettings, Settings, Numbers
<1>10. pc = "reload" => ~TooManyRouters(k, new)
  BY <1>5 DEF TooManyRouters, Reloadable, GxSettings
<1> QED  BY <1>5, <1>8, <1>9, <1>10

LEMMA ReadTypedStep == Configured /\ [ConfigNext]_configVars => ReadTyped'
<1> SUFFICES ASSUME ReadTyped, Sized, [ConfigNext]_configVars PROVE ReadTyped'
  BY DEF Configured
<1>1. CASE ReadSetting
  BY <1>1, ReadingKeeps
<1> USE DEF ReadTyped
<1>2. CASE SkipWord
  BY <1>2, HeadTailProperties DEF SkipWord
<1>3. CASE EndOfFile
  BY <1>3 DEF EndOfFile
<1>4. CASE Allocate
  BY <1>4 DEF Allocate
<1>5. CASE Allocated
  BY <1>5 DEF Allocated
<1>6. CASE Listen
  BY <1>6 DEF Listen
<1>7. CASE Reload
  BY <1>7, TextsAssumption DEF Reload, TextsAssumption
<1>8. CASE UNCHANGED configVars
  BY <1>8 DEF configVars
<1> QED  BY <1>1, <1>2, <1>3, <1>4, <1>5, <1>6, <1>7, <1>8 DEF ConfigNext

LEMMA SettingsNat ==
  ASSUME ReadTyped, NEW i \in Intf
  PROVE  /\ Pps(i) \in Nat /\ Routers(i) \in Nat
         /\ set["PPS_CAP_PERCENTAGE"][i] \in Nat
  BY DEF ReadTyped, Pps, Routers, Settings, Lists

LEMMA AllowedNat ==
  ASSUME ReadTyped, NEW i \in Intf, Divided(i)
  PROVE  /\ buffers[i] \in Nat /\ Allowed(i) \in Nat
         /\ set["PPS_CAP_PERCENTAGE"][i] <= 100 => Allowed(i) <= buffers[i]
<1> DEFINE q == Pps(i) \div Routers(i)
           c == set["PPS_CAP_PERCENTAGE"][i]
<1>1. q \in Nat /\ c \in Nat /\ Routers(i) > 0
  BY SettingsNat, QuotientNat DEF Divided
<1>2. Allowed(i) = (q \div 100) * c /\ buffers[i] = q
  BY DEF Allowed, Divided
<1> HIDE DEF q, c
<1>3. q \div 100 \in Nat
  BY <1>1, SMT
<1>4. (q \div 100) * c \in Nat
  BY <1>1, <1>3, SMT
<1>5. c <= 100 => (q \div 100) * c <= q
  BY <1>1, CapBounded
<1> QED  BY <1>1, <1>2, <1>4, <1>5 DEF c

LEMMA SizedStep == Configured /\ [ConfigNext]_configVars => Sized'
<1> SUFFICES ASSUME ReadTyped, Sized, [ConfigNext]_configVars PROVE Sized'
  BY DEF Configured
<1>1. CASE ReadSetting
  <2>1. UNCHANGED <<intf, buffers, cap>> /\ pc \in {"load", "reload"}
    BY <1>1 DEF ReadSetting, Reading
  <2>2. CASE pc = "load"
    <3>1. pc' \in {"load", "exited"}
      BY <1>1, <2>2, ReadingKeeps
    <3> QED  BY <2>1, <2>2, <3>1 DEF Sized, Started
  <2>3. CASE pc = "reload"
    <3>1. pc' = "reload" /\ \A k \in Counts \cup Lists : set'[k] = set[k]
      BY <1>1, <2>3, ReadingKeeps
    <3>2. /\ NoOfInterfaces' = NoOfInterfaces
          /\ \A i \in Intf : /\ Pps(i)' = Pps(i) /\ Routers(i)' = Routers(i)
                                 /\ set'["PPS_CAP_PERCENTAGE"][i] = set["PPS_CAP_PERCENTAGE"][i]
      BY <3>1 DEF NoOfInterfaces, Pps, Routers, Counts, Lists
    <3>3. \A i \in Intf : Allowed(i)' = Allowed(i) /\ Divided(i)' = Divided(i)
      BY <2>1, <3>2 DEF Allowed, Divided
    <3> QED  BY <2>1, <2>3, <3>1, <3>2, <3>3 DEF Sized, Started
  <2> QED  BY <2>1, <2>2, <2>3
<1>2. CASE SkipWord \/ UNCHANGED configVars
  BY <1>2 DEF SkipWord, configVars, Sized, Divided, Allowed, Pps, Routers, NoOfInterfaces
<1>3. CASE EndOfFile
  <2>1. \A i \in Intf : /\ Allowed(i)' = Allowed(i) /\ Divided(i)' = Divided(i)
                           /\ NoOfInterfaces' = NoOfInterfaces /\ ~(i < 0)
    BY <1>3, ConfigAssumption
    DEF EndOfFile, Divided, Allowed, Pps, Routers, NoOfInterfaces, Intf, ConfigAssumption
  <2> QED  BY <1>3, <2>1 DEF EndOfFile, Reading, Sized, Started
<1>4. CASE Allocate
  <2>1. UNCHANGED <<set, cap>> /\ pc = "allocate"
    BY <1>4 DEF Allocate
  <2>2. CASE pc' = "crashed"
    BY <1>4, <2>1, <2>2 DEF Allocate, Sized, Started
  <2>3. CASE pc' # "crashed"
    <3> DEFINE q == Pps(intf) \div Routers(intf)
    <3>1. /\ Routers(intf) > 0 /\ intf' = intf + 1 /\ pc' = pc
          /\ buffers' = [buffers EXCEPT ![intf] = q]
      BY <1>4, <2>3 DEF Allocate
    <3>2. intf \in Intf => q \in Nat
      BY <3>1, SettingsNat, QuotientNat
    <3> HIDE DEF q
    <3>3. buffers' \in [Intf -> Nat]
      BY <3>1, <3>2 DEF Sized
    <3>4. ASSUME NEW i \in Intf, i < intf'
          PROVE  Divided(i)'
      <4>1. Routers(i)' = Routers(i) /\ Pps(i)' = Pps(i)
        BY <2>1 DEF Routers, Pps
      <4>2. CASE i = intf
        <5>1. buffers'[i] = q
          BY <3>1, <4>2 DEF Sized
        <5> QED  BY <3>1, <4>1, <4>2, <5>1 DEF Divided, q
      <4>3. CASE i # intf
        <5>1. i < intf
          BY <3>1, <3>4, <4>3, ConfigAssumption DEF Intf, ReadTyped, ConfigAssumption
        <5>2. buffers'[i] = buffers[i]
          BY <3>1, <4>3 DEF Sized
        <5> QED  BY <2>1, <4>1, <5>1, <5>2 DEF Sized, Divided
      <4> QED  BY <4>2, <4>3
    <3>5. pc' = "allocate" /\ cap' = cap
      BY <2>1, <3>1
    <3> QED  BY <2>1, <3>3, <3>4, <3>5 DEF Sized, Started
  <2> QED  BY <2>2, <2>3
<1>5. CASE Allocated
  <2>1. \A i \in Intf : /\ Allowed(i)' = Allowed(i) /\ Divided(i)' = Divided(i)
                           /\ NoOfInterfaces' = NoOfInterfaces
    BY <1>5 DEF Allocated, Divided, Allowed, Pps, Routers, NoOfInterfaces
  <2> QED  BY <1>5, <2>1 DEF Allocated, Sized, Started
<1>6. CASE Listen
  <2>1. /\ UNCHANGED <<set, buffers>> /\ pc = "listen" /\ pc' \in {"listen", "up"}
        /\ cap' = cap \/ (intf < NoOfInterfaces /\ cap' = [cap EXCEPT ![intf] = Allowed(intf)])
    BY <1>6 DEF Listen
  <2>2. \A i \in Intf : /\ Allowed(i)' = Allowed(i) /\ Divided(i)' = Divided(i)
                           /\ NoOfInterfaces' = NoOfInterfaces
    BY <2>1 DEF Divided, Allowed, Pps, Routers, NoOfInterfaces
  <2>3. intf \in Intf /\ intf < NoOfInterfaces => Allowed(intf) \in Nat
    BY <2>1, AllowedNat DEF Sized, Started
  <2>4. cap' \in [Intf -> Nat]
    BY <2>1, <2>3 DEF Sized
  <2>5. \A i \in Intf : cap'[i] = cap[i] \/ (i < NoOfInterfaces /\ cap'[i] = Allowed(i))
    BY <2>1 DEF Sized
  <2> QED  BY <2>1, <2>2, <2>4, <2>5 DEF Sized, Started
<1>7. CASE Reload
  BY <1>7 DEF Reload, Sized, Divided, Allowed, Pps, Routers, NoOfInterfaces, Started
<1> QED  BY <1>1, <1>2, <1>3, <1>4, <1>5, <1>6, <1>7 DEF ConfigNext

(* No listener may fill a buffer that does not exist, while the percentage *)
(* in the configuration is one: the limit of EthernetSource::start against *)
(* the loop of SpectaProbe::initialize_pkt_repo.                           *)
THEOREM BuffersSuffice == ConfigSpec => []BuffersForAll
<1>1. Configured /\ [ConfigNext]_configVars => Configured'
  BY ReadTypedStep, SizedStep DEF Configured
<1>2. Configured => BuffersForAll
  <2> SUFFICES ASSUME Configured, NEW i \in Intf, set["PPS_CAP_PERCENTAGE"][i] <= 100
               PROVE  cap[i] <= buffers[i]
    BY DEF BuffersForAll
  <2>1. CASE cap[i] = 0
    BY <2>1 DEF Configured, Sized
  <2>2. CASE pc \in Started /\ i < NoOfInterfaces /\ cap[i] = Allowed(i)
    BY <2>2, AllowedNat DEF Configured, Sized
  <2> QED  BY <2>1, <2>2 DEF Configured, Sized
<1> QED  BY ConfigInitial, <1>1, <1>2, PTL DEF ConfigSpec
-----------------------------------------------------------------------------
(* The words of a file, line by line.                                      *)

(* g has what FlattenSeq makes of the first sequences of s, n of them.     *)
Flattens(g, s, n) ==
  g = [i \in 1 .. n |-> IF i = 1 THEN s[i] ELSE g[i - 1] \o s[i]]

LEMMA FlattensExist ==
  ASSUME NEW s, NEW N \in Nat
  PROVE  \E g : Flattens(g, s, N)
<1> DEFINE S == {n \in 0 .. N : \E g : Flattens(g, s, n)}
<1>1. 0 \in S
  <2> DEFINE g == [i \in 1 .. 0 |-> s[i]]
  <2>1. Flattens(g, s, 0)
    BY DEF Flattens
  <2> QED  BY <2>1
<1>2. ASSUME NEW n \in 0 .. N - 1, n \in S  PROVE n + 1 \in S
  <2>1. PICK g : Flattens(g, s, n)
    BY <1>2
  <2> DEFINE h == [i \in 1 .. n + 1 |-> IF i = 1 THEN s[i] ELSE g[i - 1] \o s[i]]
  <2>0. n \in Nat
    OBVIOUS
  <2>2. ASSUME NEW i \in 1 .. n  PROVE h[i] = g[i]
    <3>1. i \in 1 .. n + 1
      BY <2>0
    <3>2. h[i] = IF i = 1 THEN s[i] ELSE g[i - 1] \o s[i]
      BY <3>1
    <3>3. g[i] = IF i = 1 THEN s[i] ELSE g[i - 1] \o s[i]
      BY <2>1 DEF Flattens
    <3> QED  BY <3>2, <3>3
  <2>3. ASSUME NEW i \in 1 .. n + 1, i # 1  PROVE h[i] = h[i - 1] \o s[i]
    <3>1. i - 1 \in 1 .. n
      BY <2>0, <2>3
    <3> QED  BY <2>2, <2>3, <3>1
  <2>4. ASSUME NEW i \in 1 .. n + 1  PROVE h[i] = IF i = 1 THEN s[i] ELSE h[i - 1] \o s[i]
    BY <2>3
  <2>5. h = [i \in 1 .. n + 1 |-> h[i]]
    OBVIOUS
  <2> HIDE DEF h
  <2>6. Flattens(h, s, n + 1)
    BY <2>4, <2>5 DEF Flattens
  <2> QED  BY <2>6
<1> HIDE DEF S
<1>3. N \in S
  <2>1. 0 .. N \subseteq S
    BY <1>1, <1>2, Upwards
  <2> QED  BY <2>1
<1> QED  BY <1>3 DEF S

(* The row of what is flattened of s so far.                               *)
LEMMA FlattenedSoFar ==
  ASSUME NEW D, NEW s \in Seq(Seq(D))
  PROVE  \E P : /\ P \in [0 .. Len(s) -> Seq(D)]
                /\ P[0] = <<>> /\ P[Len(s)] = FlattenSeq(s)
                /\ \A n \in 1 .. Len(s) : P[n] = P[n - 1] \o s[n]
<1> DEFINE N == Len(s)
<1>1. N \in Nat /\ \A n \in 1 .. N : s[n] \in Seq(D)
  OBVIOUS
<1>2. CASE N = 0
  <2> DEFINE P == [n \in 0 .. N |-> <<>>]
  <2>1. s = <<>>
    BY <1>2, EmptySeq
  <2>2. FlattenSeq(s) = <<>>
    BY <1>2, <2>1 DEF FlattenSeq
  <2>3. P \in [0 .. N -> Seq(D)] /\ P[0] = <<>> /\ P[N] = FlattenSeq(s)
    BY <1>2, <2>2
  <2>4. \A n \in 1 .. N : P[n] = P[n - 1] \o s[n]
    BY <1>2
  <2> QED  BY <2>3, <2>4
<1>3. CASE N # 0
  <2> DEFINE F(g) == g = [i \in 1 .. N |-> IF i = 1 THEN s[i] ELSE g[i - 1] \o s[i]]
             f == CHOOSE g : F(g)
  <2>1. \E g : F(g)
    BY <1>1, FlattensExist DEF Flattens
  <2>2. F(f)
    BY <2>1
  <2>3. FlattenSeq(s) = f[N]
    BY <1>3 DEF FlattenSeq
  <2> HIDE DEF f
  <2>4. \A i \in 1 .. N : f[i] = IF i = 1 THEN s[i] ELSE f[i - 1] \o s[i]
    BY <2>2
  <2> DEFINE P == [n \in 0 .. N |-> IF n = 0 THEN <<>> ELSE f[n]]
  <2>5. P[0] = <<>> /\ P[N] = FlattenSeq(s)
    BY <1>1, <1>3, <2>3
  <2>6. ASSUME NEW n \in 1 .. N  PROVE P[n] = P[n - 1] \o s[n]
    <3>1. n - 1 \in 0 .. N /\ n \in 0 .. N /\ n # 0
      BY <1>1
    <3>2. CASE n = 1
      <4>1. P[n] = s[1] /\ P[n - 1] = <<>>
        BY <2>4, <3>1, <3>2
      <4>2. s[1] \in Seq(D)
        BY <1>1, <3>2
      <4>3. <<>> \o s[1] = s[1]
        BY <4>2, ConcatEmptySeq
      <4> QED  BY <3>2, <4>1, <4>3
    <3>3. CASE n # 1
      <4>1. P[n - 1] = f[n - 1] /\ P[n] = f[n]
        BY <3>1, <3>3
      <4> QED  BY <2>4, <3>3, <4>1
    <3> QED  BY <3>2, <3>3
  <2> HIDE DEF P, N
  <2>7. ASSUME NEW n \in 0 .. N - 1, n \in {k \in 0 .. N : P[k] \in Seq(D)}
        PROVE  n + 1 \in {k \in 0 .. N : P[k] \in Seq(D)}
    <3>1. n + 1 \in 1 .. N /\ (n + 1) - 1 = n /\ n + 1 \in 0 .. N
      BY <1>1
    <3>2. P[n + 1] = P[n] \o s[n + 1] /\ P[n] \in Seq(D) /\ s[n + 1] \in Seq(D)
      BY <1>1, <2>6, <2>7, <3>1
    <3>3. P[n + 1] \in Seq(D)
      BY <3>2, ConcatProperties
    <3> QED  BY <3>1, <3>3
  <2>8. 0 \in {k \in 0 .. N : P[k] \in Seq(D)}
    <3>1. 0 \in 0 .. N
      BY <1>1
    <3>2. <<>> \in Seq(D)
      OBVIOUS
    <3> QED  BY <2>5, <3>1, <3>2
  <2>9. 0 .. N \subseteq {k \in 0 .. N : P[k] \in Seq(D)}
    BY <1>1, <2>7, <2>8, Upwards
  <2>10. P = [k \in 0 .. N |-> P[k]]
    BY DEF P
  <2>11. P \in [0 .. N -> Seq(D)]
    BY <2>9, <2>10
  <2> QED  BY <2>5, <2>6, <2>11 DEF N
<1> QED  BY <1>2, <1>3

(* Where the lines of a file begin among its words: off[n] words come      *)
(* before line n + 1.                                                      *)
Laid(off, file) ==
  /\ off \in [0 .. Len(file) -> Nat] /\ off[0] = 0 /\ off[Len(file)] = Len(Words(file))
  /\ \A n \in 1 .. Len(file) : off[n] = off[n - 1] + Len(file[n].words)
  /\ \A n \in 1 .. Len(file) : \A w \in 1 .. Len(file[n].words) :
       /\ off[n - 1] + w <= off[Len(file)]
       /\ Words(file)[off[n - 1] + w] = file[n].words[w]

LEMMA FilesAreLaid ==
  ASSUME NEW file, PlainFile(file)
  PROVE  \E off : Laid(off, file)
<1> DEFINE N == Len(file)
           s == [n \in DOMAIN file |-> file[n].words]
<1>1. file \in Seq([comment : BOOLEAN, words : Seq(Word)])
  BY DEF PlainFile
<1>2. N \in Nat /\ DOMAIN file = 1 .. N /\ \A n \in 1 .. N : file[n].words \in Seq(Word)
  <2>1. N \in Nat /\ DOMAIN file = 1 .. N
    BY <1>1, LenProperties
  <2>2. ASSUME NEW n \in 1 .. N  PROVE file[n].words \in Seq(Word)
    <3>1. file[n] \in [comment : BOOLEAN, words : Seq(Word)]
      BY <1>1, ElementOfSeq
    <3> QED  BY <3>1
  <2> QED  BY <2>1, <2>2
<1>3. s \in Seq(Seq(Word)) /\ Len(s) = N /\ \A n \in 1 .. N : s[n] = file[n].words
  BY <1>2
<1>4. Words(file) = FlattenSeq(s)
  BY DEF Words
<1> HIDE DEF s, N
<1>5. PICK P : /\ P \in [0 .. N -> Seq(Word)]
               /\ P[0] = <<>> /\ P[N] = Words(file)
               /\ \A n \in 1 .. N : P[n] = P[n - 1] \o s[n]
  <2>1. \E P : /\ P \in [0 .. Len(s) -> Seq(Word)]
                /\ P[0] = <<>> /\ P[Len(s)] = FlattenSeq(s)
                /\ \A n \in 1 .. Len(s) : P[n] = P[n - 1] \o s[n]
    <3>1. s \in Seq(Seq(Word))
      BY <1>3
    <3>2. \A t \in Seq(Seq(Word)) :
            \E P : /\ P \in [0 .. Len(t) -> Seq(Word)]
                   /\ P[0] = <<>> /\ P[Len(t)] = FlattenSeq(t)
                   /\ \A n \in 1 .. Len(t) : P[n] = P[n - 1] \o t[n]
      BY FlattenedSoFar
    <3> QED  BY <3>1, <3>2, Zenon
  <2> QED  BY <1>3, <1>4, <2>1
<1> DEFINE off == [n \in 0 .. N |-> Len(P[n])]
<1>6. off \in [0 .. N -> Nat] /\ off[0] = 0 /\ off[N] = Len(Words(file))
  BY <1>2, <1>5
<1>7. ASSUME NEW n \in 1 .. N
      PROVE  /\ n - 1 \in 0 .. N /\ n \in 0 .. N
             /\ P[n - 1] \in Seq(Word) /\ P[n] \in Seq(Word) /\ s[n] \in Seq(Word)
             /\ off[n - 1] = Len(P[n - 1]) /\ off[n] = Len(P[n])
             /\ Len(P[n]) = Len(P[n - 1]) + Len(s[n])
             /\ \A j \in 1 .. Len(P[n]) :
                  P[n][j] = IF j <= Len(P[n - 1]) THEN P[n - 1][j] ELSE s[n][j - Len(P[n - 1])]
  <2>1. n - 1 \in 0 .. N /\ n \in 0 .. N
    BY <1>2
  <2>2. P[n - 1] \in Seq(Word) /\ P[n] \in Seq(Word) /\ s[n] \in Seq(Word)
    BY <1>2, <1>3, <1>5, <2>1
  <2>3. P[n] = P[n - 1] \o s[n]
    BY <1>5
  <2>4. off[n - 1] = Len(P[n - 1]) /\ off[n] = Len(P[n])
    BY <2>1
  <2> HIDE DEF off
  <2>5. /\ Len(P[n]) = Len(P[n - 1]) + Len(s[n])
        /\ \A j \in 1 .. Len(P[n - 1]) + Len(s[n]) :
             (P[n - 1] \o s[n])[j] = IF j <= Len(P[n - 1]) THEN P[n - 1][j] ELSE s[n][j - Len(P[n - 1])]
    BY <2>2, <2>3, ConcatProperties
  <2> QED  BY <2>1, <2>2, <2>3, <2>4, <2>5
<1> HIDE DEF off
<1> DEFINE S == {n \in 0 .. N : \A m \in 1 .. n : \A w \in 1 .. Len(s[m]) :
                   off[m - 1] + w \in 1 .. Len(P[n]) /\ P[n][off[m - 1] + w] = s[m][w]}
<1>8. 0 \in S
  BY <1>2
<1>9. ASSUME NEW n \in 0 .. N - 1, n \in S  PROVE n + 1 \in S
  <2>1. n \in Nat /\ n + 1 \in 1 .. N /\ n + 1 \in 0 .. N /\ (n + 1) - 1 = n
    BY <1>2
  <2>2. /\ P[n] \in Seq(Word) /\ P[n + 1] \in Seq(Word) /\ s[n + 1] \in Seq(Word)
        /\ off[n] = Len(P[n]) /\ Len(P[n + 1]) = Len(P[n]) + Len(s[n + 1])
        /\ \A j \in 1 .. Len(P[n + 1]) :
             P[n + 1][j] = IF j <= Len(P[n]) THEN P[n][j] ELSE s[n + 1][j - Len(P[n])]
    BY <1>7, <2>1
  <2>3. Len(P[n]) \in Nat /\ Len(s[n + 1]) \in Nat
    BY <2>2
  <2>4. ASSUME NEW m \in 1 .. n + 1, NEW w \in 1 .. Len(s[m])
        PROVE  off[m - 1] + w \in 1 .. Len(P[n + 1]) /\ P[n + 1][off[m - 1] + w] = s[m][w]
    <3>1. CASE m = n + 1
      <4>1. off[m - 1] = Len(P[n]) /\ w \in 1 .. Len(s[n + 1])
        BY <2>1, <2>2, <3>1
      <4>2. /\ Len(P[n]) + w \in 1 .. Len(P[n]) + Len(s[n + 1])
            /\ ~(Len(P[n]) + w <= Len(P[n])) /\ (Len(P[n]) + w) - Len(P[n]) = w
        <5>1. \A a, b \in Nat : \A j \in 1 .. b : a + j \in 1 .. a + b /\ ~(a + j <= a) /\ (a + j) - a = j
          BY SMT
        <5> QED  BY <2>3, <4>1, <5>1
      <4> QED  BY <2>2, <3>1, <4>1, <4>2
    <3>2. CASE m # n + 1
      <4>1. m \in 1 .. n
        BY <2>1, <3>2
      <4>2. off[m - 1] + w \in 1 .. Len(P[n]) /\ P[n][off[m - 1] + w] = s[m][w]
        BY <1>9, <4>1
      <4>3. off[m - 1] + w <= Len(P[n]) /\ off[m - 1] + w \in 1 .. Len(P[n + 1])
        <5>1. \A a, b \in Nat : \A j \in 1 .. a : j <= a /\ j \in 1 .. a + b
          BY SMT
        <5> QED  BY <2>2, <2>3, <4>2, <5>1
      <4> QED  BY <2>2, <4>2, <4>3
    <3> QED  BY <3>1, <3>2
  <2> QED  BY <2>1, <2>4
<1>10. N \in S
  <2> HIDE DEF S
  <2>1. 0 .. N \subseteq S
    BY <1>2, <1>8, <1>9, Upwards
  <2> QED  BY <1>2, <2>1
<1>11. Laid(off, file)
  <2>1. ASSUME NEW n \in 1 .. N
        PROVE  off[n] = off[n - 1] + Len(file[n].words)
    BY <1>3, <1>7
  <2>2. ASSUME NEW n \in 1 .. N, NEW w \in 1 .. Len(file[n].words)
        PROVE  /\ off[n - 1] + w <= off[N]
               /\ Words(file)[off[n - 1] + w] = file[n].words[w]
    <3>1. off[n - 1] + w \in 1 .. Len(P[N]) /\ P[N][off[n - 1] + w] = s[n][w]
      BY <1>3, <1>10
    <3>2. off[N] = Len(P[N]) /\ Len(P[N]) \in Nat
      BY <1>5, <1>6
    <3>3. P[N][off[n - 1] + w] = Words(file)[off[n - 1] + w]
      BY <1>5
    <3>4. s[n][w] = file[n].words[w]
      BY <1>3
    <3>5. \A b \in Nat : \A x \in 1 .. b : x <= b
      OBVIOUS
    <3>6. off[n - 1] + w <= off[N]
      BY <3>1, <3>2, <3>5, Zenon
    <3> QED  BY <3>1, <3>3, <3>4, <3>6, Zenon
  <2> QED  BY <1>6, <2>1, <2>2 DEF Laid, N
<1> QED  BY <1>11

-----------------------------------------------------------------------------
(* What a setting has become, after m lines.                               *)

(* The last of the first m lines that gives the element a value gives v.   *)
ByLines(k, i, m, v) ==
  \/ v = Default[k][i] /\ \A n \in Reaching(k, i) : n > m
  \/ \E n \in Reaching(k, i) : /\ n <= m /\ v = Stored(k, text[n].words[2])[i + 1]
                               /\ \A o \in Reaching(k, i) : o <= m => o <= n

(* A comment that names the setting, up to the line being read, and no     *)
(* line behind it has set it yet.                                          *)
Disturbed(k, m) ==
  \E n \in DOMAIN text :
    /\ n <= m + 1 /\ text[n].comment
    /\ \E w \in DOMAIN text[n].words : text[n].words[w].word = k
    /\ \A o \in LinesOf(k) : o <= n \/ o > m

(* Element i of k is v, when m lines have been read.                       *)
Kept(k, i, m, v, p, r) ==
  IF PluginOff(k) THEN r > 0 \/ v = Default[k][i]
  ELSE \/ v = Meant(k, i)
       \/ /\ p = "reload" => k \in Reloadable
          /\ ByLines(k, i, m, v) \/ (i = 0 /\ Disturbed(k, m))

LEMMA LineFacts ==
  ASSUME PlainFile(text)
  PROVE  /\ Len(text) \in Nat /\ DOMAIN text = 1 .. Len(text)
         /\ \A n \in DOMAIN text :
              /\ text[n].words \in Seq(Word) /\ Len(text[n].words) \in Nat \ {0}
              /\ ~text[n].comment =>
                   /\ Len(text[n].words) = 2 /\ Head(text[n].words) = text[n].words[1]
                   /\ text[n].words[2].word \notin Settings
                   /\ text[n].words[2].nums # <<>>
<1>1. text \in Seq([comment : BOOLEAN, words : Seq(Word)])
  BY DEF PlainFile
<1>2. Len(text) \in Nat /\ DOMAIN text = 1 .. Len(text)
  BY <1>1, LenProperties
<1>3. ASSUME NEW n \in DOMAIN text
      PROVE  text[n].words \in Seq(Word) /\ Len(text[n].words) \in Nat \ {0}
  <2>1. text[n] \in [comment : BOOLEAN, words : Seq(Word)]
    BY <1>1, <1>2, ElementOfSeq
  <2>2. text[n].words \in Seq(Word) /\ text[n].words # <<>>
    BY <2>1 DEF PlainFile
  <2> QED  BY <2>2, EmptySeq
<1>4. ASSUME NEW n \in DOMAIN text, ~text[n].comment
      PROVE  /\ Len(text[n].words) = 2 /\ Head(text[n].words) = text[n].words[1]
             /\ text[n].words[2].word \notin Settings
             /\ text[n].words[2].nums # <<>>
  <2>1. PlainLine(text[n].words)
    BY <1>4 DEF PlainFile
  <2> QED  BY <1>3, <2>1 DEF PlainLine
<1> QED  BY <1>2, <1>3, <1>4

LEMMA WordFacts ==
  ASSUME NEW line \in Seq(Word), NEW w \in 1 .. Len(line)
  PROVE  line[w] \in Word /\ line[w].nums \in Seq(Nat)
<1>1. line[w] \in Word
  BY ElementOfSeq
<1> QED  BY <1>1 DEF Word

LEMMA ReachingLines ==
  ASSUME NEW k, NEW i, NEW n \in Reaching(k, i)
  PROVE  n \in LinesOf(k) /\ n \in DOMAIN text
BY DEF Reaching, LinesOf

(* In the end the lines have said what is meant.                           *)
LEMMA LinesSayMeant ==
  ASSUME PlainFile(text), NEW k, NEW i, NEW v, ByLines(k, i, Len(text), v)
  PROVE  v = Meant(k, i)
<1>1. \A n \in Reaching(k, i) : n \in Nat /\ n <= Len(text) /\ ~(n > Len(text))
  BY ReachingLines, LineFacts
<1>2. CASE Reaching(k, i) = {}
  BY <1>2 DEF ByLines, Meant
<1>3. CASE Reaching(k, i) # {}
  <2>1. PICK n \in Reaching(k, i) : /\ v = Stored(k, text[n].words[2])[i + 1]
                                    /\ \A o \in Reaching(k, i) : o <= n
    BY <1>1, <1>3 DEF ByLines
  <2>2. \A x \in Reaching(k, i) : (\A o \in Reaching(k, i) : x >= o) => x = n
    BY <1>1, <2>1
  <2>3. \A o \in Reaching(k, i) : n >= o
    BY <1>1, <2>1
  <2>4. Max(Reaching(k, i)) = n
    BY <2>2, <2>3 DEF Max
  <2> QED  BY <1>3, <2>1, <2>4 DEF Meant
<1> QED  BY <1>2, <1>3

(* A line that does not set k leaves it as it is.                          *)
LEMMA OtherLine ==
  ASSUME PlainFile(text), NEW m \in 0 .. Len(text) - 1, NEW k, NEW i, NEW v, NEW p, NEW r,
         m + 1 \notin LinesOf(k), Kept(k, i, m, v, p, r)
  PROVE  Kept(k, i, m + 1, v, p, r)
<1>1. m \in Nat /\ m + 1 \in DOMAIN text
  BY LineFacts
<1>2. \A o \in LinesOf(k) : o \in Nat /\ o # m + 1
  BY LineFacts DEF LinesOf
<1>3. \A o \in Reaching(k, i) : o \in Nat /\ o # m + 1
  BY <1>2, ReachingLines
<1>4. ByLines(k, i, m, v) => ByLines(k, i, m + 1, v)
  <2>1. \A o \in Reaching(k, i) : (o <= m <=> o <= m + 1) /\ (o > m <=> o > m + 1)
    BY <1>1, <1>3
  <2> QED  BY <2>1 DEF ByLines
<1>5. Disturbed(k, m) => Disturbed(k, m + 1)
  <2>1. \A o \in LinesOf(k) : o > m <=> o > m + 1
    BY <1>1, <1>2
  <2>2. \A o \in DOMAIN text : o <= m + 1 => o <= (m + 1) + 1
    BY <1>1, LineFacts
  <2> QED  BY <2>1, <2>2 DEF Disturbed
<1> QED  BY <1>4, <1>5 DEF Kept

(* Nor does one that does not reach element i.                             *)
LEMMA NotReached ==
  ASSUME PlainFile(text), NEW m \in 0 .. Len(text) - 1, NEW k, NEW i, NEW v,
         m + 1 \notin Reaching(k, i), ByLines(k, i, m, v)
  PROVE  ByLines(k, i, m + 1, v)
<1>1. \A o \in Reaching(k, i) : o \in Nat /\ o # m + 1
  BY ReachingLines, LineFacts
<1>2. \A o \in Reaching(k, i) : (o <= m <=> o <= m + 1) /\ (o > m <=> o > m + 1)
  BY <1>1, LineFacts
<1> QED  BY <1>2 DEF ByLines

LEMMA FlagsAreNoPlugin ==
  ASSUME NEW g \in Flags
  PROVE  /\ g \in Settings /\ ~PluginOff(g) /\ g \notin Lists /\ g \notin Counts
         /\ Default[g][0] = 0
<1>1. 0 \in Intf
  BY ConfigAssumption DEF ConfigAssumption, Intf
<1>2. g \in Settings /\ DefaultOf(g) = 0
  BY DEF Flags, Settings, DefaultOf
<1> QED  BY <1>1, <1>2 DEF Flags, PluginOff, GxSettings, S6aSettings, Lists, Counts, Default

(* The line of another setting stands behind all flags: they are known.    *)
LEMMA FlagKnown ==
  ASSUME PlainFile(text), FlagsFirst, HarmlessComments,
         NEW m \in 0 .. Len(text) - 1, ~text[m + 1].comment,
         text[m + 1].words[1].word \notin Flags,
         NEW g \in Flags, NEW v, NEW p, NEW r, Kept(g, 0, m, v, p, r)
  PROVE  v = Meant(g, 0)
<1>1. m \in Nat /\ m + 1 \in DOMAIN text
  BY LineFacts
<1>2. \A f \in Flags : m + 1 \notin LinesOf(f)
  BY <1>1, LineFacts DEF LinesOf
<1>3. ASSUME NEW o \in LinesOf(g)  PROVE o \in Nat /\ o <= m /\ o <= Len(text)
  <2>1. o \in DOMAIN text /\ o \in 1 .. Len(text) /\ o # m + 1
    BY <1>2, LineFacts DEF LinesOf
  <2>2. ~(m + 1 < o)
    BY <1>1, <1>2, <1>3, <2>1 DEF FlagsFirst
  <2> QED  BY <1>1, <2>1, <2>2
<1>4. ByLines(g, 0, m, v) => ByLines(g, 0, Len(text), v)
  <2>1. \A o \in Reaching(g, 0) : o <= m /\ o <= Len(text) /\ ~(o > m)
    BY <1>1, <1>3, ReachingLines
  <2> QED  BY <2>1 DEF ByLines
<1>5. ~Disturbed(g, m)
  <2> SUFFICES ASSUME NEW n \in DOMAIN text, text[n].comment,
                      NEW w \in DOMAIN text[n].words, text[n].words[w].word = g,
                      \A o \in LinesOf(g) : o <= n \/ o > m
               PROVE  FALSE
    BY DEF Disturbed
  <2>1. PICK o \in LinesOf(g) : o > n
    BY FlagsAreNoPlugin DEF HarmlessComments
  <2>2. n \in Nat
    BY LineFacts
  <2> QED  BY <1>1, <1>3, <2>1, <2>2
<1> QED  BY <1>4, <1>5, LinesSayMeant, FlagsAreNoPlugin DEF Kept

LEMMA MeantFlag ==
  ASSUME NEW g \in Flags
  PROVE  Meant(g, 0) \in {0, 1}
<1>1. ASSUME NEW x  PROVE Stored(g, x)[0 + 1] \in {0, 1}
  <2>1. Stored(g, x) = <<FlagValue(x)>>
    BY FlagsAreNoPlugin DEF Stored, One
  <2> QED  BY <2>1 DEF FlagValue
<1>2. Default[g][0] = 0
  BY FlagsAreNoPlugin
<1>3. \/ Meant(g, 0) = Default[g][0]
      \/ Meant(g, 0) = Stored(g, text[Max(Reaching(g, 0))].words[2])[0 + 1]
  BY DEF Meant
<1> QED  BY <1>1, <1>2, <1>3

LEMMA PluginDefault ==
  ASSUME NEW k, PluginOff(k)
  PROVE  /\ k \in GxSettings \cup S6aSettings /\ k \in Settings /\ k \notin Flags \cup Counts \cup Lists
         /\ \A i \in Intf : Default[k][i] = 0
<1>1. k \in GxSettings \cup S6aSettings
  BY DEF PluginOff
<1>2. k \in Settings /\ DefaultOf(k) = 0 /\ k \notin Flags \cup Counts \cup Lists
  BY <1>1 DEF GxSettings, S6aSettings, Settings, Numbers, DefaultOf, Flags, Counts, Lists
<1> QED  BY <1>1, <1>2 DEF Default

(* A line that sets k: element by element, it says what is meant so far.   *)
LEMMA LineSets ==
  ASSUME PlainFile(text), NEW m \in 0 .. Len(text) - 1, NEW k \in Settings, m + 1 \in LinesOf(k),
         NEW i \in Intf, NEW old \in [Intf -> Nat], NEW p, NEW r,
         Kept(k, i, m, old[i], p, r),
         p = "reload" => k \in Reloadable, PluginOff(k) => r > 0
  PROVE  Kept(k, i, m + 1, Overlay(old, Stored(k, text[m + 1].words[2]))[i], p, r)
<1> DEFINE new == Stored(k, text[m + 1].words[2])
<1>1. m \in Nat /\ m + 1 \in DOMAIN text /\ ~text[m + 1].comment
  BY LineFacts DEF LinesOf
<1>2. text[m + 1].words[2].nums \in Seq(Nat) /\ text[m + 1].words[2].nums # <<>>
  <2>1. text[m + 1].words \in Seq(Word) /\ 2 \in 1 .. Len(text[m + 1].words)
    BY <1>1, LineFacts
  <2> QED  BY <1>1, <2>1, LineFacts, WordFacts
<1>3. new \in Seq(Nat) /\ Len(new) \in Nat /\ Len(new) > 0
  <2>1. new \in Seq(Nat)
    BY <1>2, StoredSeq
  <2>2. new # <<>>
    BY <1>2 DEF Stored
  <2> QED  BY <2>1, <2>2, EmptySeq
<1>4. i \in Nat
  BY ConfigAssumption DEF Intf, ConfigAssumption
<1>5. Overlay(old, new)[i] = IF i < Len(new) THEN new[i + 1] ELSE old[i]
  BY DEF Overlay
<1>6. CASE PluginOff(k)
  BY <1>6 DEF Kept
<1>7. CASE ~PluginOff(k) /\ i < Len(new)
  <2>1. m + 1 \in Reaching(k, i)
    BY <1>7 DEF Reaching
  <2>2. \A o \in Reaching(k, i) : o <= m + 1 => o <= m + 1
    OBVIOUS
  <2>3. m + 1 <= m + 1
    BY <1>1
  <2>4. ByLines(k, i, m + 1, new[i + 1])
    BY <2>1, <2>2, <2>3 DEF ByLines
  <2> QED  BY <1>5, <1>7, <2>4 DEF Kept
<1>8. CASE ~PluginOff(k) /\ ~(i < Len(new))
  <2>1. m + 1 \notin Reaching(k, i)
    BY <1>8 DEF Reaching
  <2>2. i # 0
    BY <1>3, <1>4, <1>8
  <2>3. old[i] = Meant(k, i) \/ ByLines(k, i, m + 1, old[i])
    BY <1>8, <2>1, <2>2, NotReached DEF Kept
  <2> QED  BY <1>5, <1>8, <2>3 DEF Kept
<1> QED  BY <1>6, <1>7, <1>8

(* A comment that names k disturbs its first element at most, and leaves a *)
(* plugin's setting at 0.                                                  *)
LEMMA CommentSets ==
  ASSUME PlainFile(text), NEW m \in 0 .. Len(text) - 1, text[m + 1].comment, NEW k \in Settings,
         NEW w \in DOMAIN text[m + 1].words, w < Len(text[m + 1].words),
         text[m + 1].words[w].word = k,
         NEW i \in Intf, NEW old \in [Intf -> Nat], NEW p, NEW r,
         Kept(k, i, m, old[i], p, r), p = "reload" => k \in Reloadable
  PROVE  Kept(k, i, m, Overlay(old, Stored(k, text[m + 1].words[w + 1]))[i], p, r)
<1> DEFINE x   == text[m + 1].words[w + 1]
           new == Stored(k, x)
<1>1. m \in Nat /\ m + 1 \in DOMAIN text
  BY LineFacts
<1>2. Len(new) <= 1 /\ (k \in GxSettings \cup S6aSettings => NumberValue(x) = 0)
  BY <1>1 DEF PlainFile, PlainComment
<1>3. i \in Nat
  BY ConfigAssumption DEF Intf, ConfigAssumption
<1>4. Overlay(old, new)[i] = IF i < Len(new) THEN new[i + 1] ELSE old[i]
  BY DEF Overlay
<1>5. Len(new) \in Nat
  <2>1. w + 1 \in 1 .. Len(text[m + 1].words) /\ text[m + 1].words \in Seq(Word)
    BY <1>1, LineFacts, LenProperties
  <2>2. x.nums \in Seq(Nat)
    BY <2>1, WordFacts
  <2> QED  BY <2>2, StoredSeq, LenProperties
<1>6. CASE ~(i < Len(new))
  BY <1>4, <1>6
<1>7. CASE i < Len(new)
  <2>1. i = 0
    BY <1>2, <1>3, <1>5, <1>7
  <2>2. CASE PluginOff(k)
    <3>1. new = <<NumberValue(x)>> /\ NumberValue(x) = 0
      BY <1>2, <2>2, PluginDefault DEF Stored, One
    <3>2. new[i + 1] = 0
      BY <2>1, <3>1
    <3> QED  BY <1>4, <1>7, <2>2, <3>2, PluginDefault DEF Kept
  <2>3. CASE ~PluginOff(k)
    <3>1. \A o \in LinesOf(k) : o <= m + 1 \/ o > m
      BY <1>1, LineFacts DEF LinesOf
    <3>2. m + 1 <= m + 1
      BY <1>1
    <3>3. Disturbed(k, m)
      BY <1>1, <3>1, <3>2 DEF Disturbed
    <3> QED  BY <2>1, <2>3, <3>3 DEF Kept
  <2> QED  BY <2>2, <2>3
<1> QED  BY <1>6, <1>7

(* At the end of the file no comment has the last word.                    *)
LEMMA AllRead ==
  ASSUME PlainFile(text), HarmlessComments, NEW k \in Settings, NEW i, NEW v, NEW p, NEW r,
         Kept(k, i, Len(text), v, p, r)
  PROVE  IF PluginOff(k) THEN r > 0 \/ v = Default[k][i] ELSE v = Meant(k, i)
<1>1. ~Disturbed(k, Len(text))
  <2> SUFFICES ASSUME NEW n \in DOMAIN text, text[n].comment,
                      NEW w \in DOMAIN text[n].words, text[n].words[w].word = k,
                      \A o \in LinesOf(k) : o <= n \/ o > Len(text)
               PROVE  FALSE
    BY DEF Disturbed
  <2>1. PICK o \in LinesOf(k) : o > n
    BY DEF HarmlessComments
  <2>2. n \in Nat /\ o \in 1 .. Len(text) /\ Len(text) \in Nat
    BY LineFacts DEF LinesOf
  <2> QED  BY <2>1, <2>2
<1> QED  BY <1>1, LinesSayMeant DEF Kept

-----------------------------------------------------------------------------
(* Reading, word by word.                                                  *)

(* s is what is left of the file behind m lines and w words of the next.   *)
At(s, off, m, w) ==
  /\ m \in 0 .. Len(text) /\ w \in Nat
  /\ IF m < Len(text) THEN w < Len(text[m + 1].words) ELSE w = 0
  /\ Len(s) = off[Len(text)] - (off[m] + w)
  /\ \A j \in 1 .. Len(s) : s[j] = Words(text)[off[m] + w + j]

(* The value in a line is only come to where its name is not looked for.   *)
Skipped(m, w, p) ==
  m < Len(text) /\ ~text[m + 1].comment /\ w = 1 =>
    LET k == text[m + 1].words[1].word
    IN  IF p = "reload" THEN k \notin Reloadable ELSE k \in Settings => PluginOff(k)

(* st are the settings after what has been read, s is what is left.        *)
ReadsOn(s, st, p, r) ==
  \E off, m, w :
    /\ Laid(off, text) /\ At(s, off, m, w) /\ Skipped(m, w, p)
    /\ \A k \in Settings : \A i \in Intf : Kept(k, i, m, st[k][i], p, r)

Settled(st, r) ==
  \A k \in Settings : \A i \in Intf :
    IF PluginOff(k) THEN r > 0 \/ st[k][i] = Default[k][i] ELSE st[k][i] = Meant(k, i)

LEMMA AtWord ==
  ASSUME PlainFile(text), NEW off, Laid(off, text), NEW s \in Seq(Word), NEW m, NEW w,
         At(s, off, m, w), m < Len(text)
  PROVE  /\ s # <<>> /\ Head(s) = text[m + 1].words[w + 1]
         /\ w + 1 \in DOMAIN text[m + 1].words
         /\ w + 1 < Len(text[m + 1].words) =>
              Len(s) > 1 /\ s[2] = text[m + 1].words[w + 2]
<1> DEFINE N == Len(text)
           line == text[m + 1].words
<1>1. N \in Nat /\ m \in 0 .. N - 1 /\ m + 1 \in 1 .. N /\ (m + 1) - 1 = m /\ w \in Nat
  BY LineFacts DEF At
<1>2. line \in Seq(Word) /\ Len(line) \in Nat /\ w < Len(line) /\ DOMAIN line = 1 .. Len(line)
  BY <1>1, LineFacts, LenProperties DEF At
<1>3. off[m] \in Nat /\ off[N] \in Nat
  BY <1>1 DEF Laid
<1>4. \A x \in 1 .. Len(line) : off[m] + x <= off[N] /\ Words(text)[off[m] + x] = line[x]
  BY <1>1 DEF Laid
<1>5. Len(s) = off[N] - (off[m] + w) /\ \A j \in 1 .. Len(s) : s[j] = Words(text)[off[m] + w + j]
  BY DEF At
<1> HIDE DEF N, line
<1>6. w + 1 \in 1 .. Len(line)
  BY <1>1, <1>2
<1>7. Len(s) >= 1 /\ Len(s) \in Nat
  <2>1. off[m] + (w + 1) <= off[N]
    BY <1>4, <1>6
  <2> QED  BY <1>1, <1>3, <1>5, <2>1
<1>8. s # <<>> /\ Head(s) = s[1]
  BY <1>7
<1>9. s[1] = line[w + 1]
  <2>1. 1 \in 1 .. Len(s) /\ off[m] + w + 1 = off[m] + (w + 1)
    <3>1. \A a, b \in Nat : a + b + 1 = a + (b + 1)
      BY SMT
    <3>2. 1 \in 1 .. Len(s)
      BY <1>7
    <3> QED  BY <1>1, <1>3, <3>1, <3>2
  <2>2. s[1] = Words(text)[off[m] + w + 1]
    BY <1>5, <2>1, Zenon
  <2> QED  BY <1>4, <1>6, <2>1, <2>2
<1>10. ASSUME w + 1 < Len(line)  PROVE Len(s) > 1 /\ s[2] = line[w + 2]
  <2>1. w + 2 \in 1 .. Len(line)
    BY <1>1, <1>2, <1>10
  <2>2. off[m] + (w + 2) <= off[N]
    BY <1>4, <2>1
  <2>3. Len(s) > 1 /\ 2 \in 1 .. Len(s)
    BY <1>1, <1>3, <1>5, <2>2
  <2>4. s[2] = Words(text)[off[m] + w + 2]
    BY <1>5, <2>3
  <2>5. off[m] + w + 2 = off[m] + (w + 2)
    BY <1>1, <1>3
  <2> QED  BY <1>4, <2>1, <2>3, <2>4, <2>5
<1> QED  BY <1>2, <1>6, <1>8, <1>9, <1>10 DEF N, line

LEMMA AtEnd ==
  ASSUME PlainFile(text), NEW off, Laid(off, text), NEW s \in Seq(Word), NEW m, NEW w,
         At(s, off, m, w)
  PROVE  s = <<>> <=> m = Len(text)
<1>0. Len(text) \in Nat /\ m \in 0 .. Len(text)
  BY LineFacts DEF At
<1>1. CASE m < Len(text)
  <2>1. m # Len(text)
    BY <1>0, <1>1
  <2> QED  BY <1>1, <2>1, AtWord
<1>2. CASE ~(m < Len(text))
  <2>1. m = Len(text)
    BY <1>0, <1>2
  <2>2. w = 0 /\ off[m] \in Nat
    BY <1>0, <1>2 DEF At, Laid
  <2>3. Len(s) = 0
    BY <2>1, <2>2 DEF At
  <2> QED  BY <2>1, <2>3, EmptySeq
<1> QED  BY <1>1, <1>2

(* One or two words on, in the same line. *)
LEMMA Onward ==
  ASSUME PlainFile(text), NEW off, Laid(off, text), NEW s \in Seq(Word), NEW m, NEW w,
         At(s, off, m, w), m < Len(text),
         NEW c \in {1, 2}, w + c <= Len(text[m + 1].words),
         NEW t \in Seq(Word), Len(t) = Len(s) - c, \A j \in 1 .. Len(t) : t[j] = s[j + c]
  PROVE  IF w + c < Len(text[m + 1].words) THEN At(t, off, m, w + c) ELSE At(t, off, m + 1, 0)
<1> DEFINE N == Len(text)
           line == text[m + 1].words
<1>1. N \in Nat /\ m \in 0 .. N - 1 /\ m + 1 \in 1 .. N /\ (m + 1) - 1 = m /\ w \in Nat /\ c \in Nat
  BY LineFacts DEF At
<1>2. Len(line) \in Nat /\ Len(t) \in Nat /\ Len(s) \in Nat
  BY <1>1, LineFacts, LenProperties
<1>3. off[m] \in Nat /\ off[N] \in Nat /\ off[m + 1] = off[m] + Len(line)
  <2>1. m \in 0 .. N /\ N \in 0 .. N
    BY <1>1
  <2>2. off[m] \in Nat /\ off[N] \in Nat
    BY <2>1 DEF Laid
  <2>3. off[m + 1] = off[(m + 1) - 1] + Len(line)
    BY <1>1 DEF Laid
  <2> QED  BY <1>1, <2>2, <2>3
<1>4. Len(s) = off[N] - (off[m] + w) /\ \A j \in 1 .. Len(s) : s[j] = Words(text)[off[m] + w + j]
  BY DEF At
<1>5. Len(t) = off[N] - (off[m] + (w + c))
  BY <1>1, <1>2, <1>3, <1>4
<1>6. ASSUME NEW j \in 1 .. Len(t)  PROVE t[j] = Words(text)[off[m] + (w + c) + j]
  <2>1. j + c \in 1 .. Len(s) /\ off[m] + w + (j + c) = off[m] + (w + c) + j
    BY <1>1, <1>2, <1>3
  <2> QED  BY <1>4, <2>1
<1>7. CASE w + c < Len(line)
  <2>1. w + c \in Nat /\ m \in 0 .. N /\ m < N
    BY <1>1
  <2> QED  BY <1>5, <1>6, <1>7, <2>1 DEF At
<1>8. CASE ~(w + c < Len(line))
  <2>1. w + c = Len(line)
    BY <1>1, <1>2, <1>8
  <2>2. off[m + 1] + 0 = off[m] + (w + c)
    BY <1>1, <1>3, <2>1
  <2>3. m + 1 < N => 0 < Len(text[(m + 1) + 1].words)
    <3>1. m + 1 < N => (m + 1) + 1 \in DOMAIN text
      BY <1>1, LineFacts
    <3>2. \A n \in DOMAIN text : 0 < Len(text[n].words)
      BY LineFacts
    <3> QED  BY <3>1, <3>2
  <2>4. m + 1 \in 0 .. N
    BY <1>1
  <2>5. \A j \in 1 .. Len(t) : t[j] = Words(text)[off[m + 1] + 0 + j]
    BY <1>6, <2>2
  <2> HIDE DEF N
  <2>6. At(t, off, m + 1, 0)
    BY <1>5, <2>2, <2>3, <2>4, <2>5 DEF At, N
  <2> QED  BY <1>8, <2>6
<1> QED  BY <1>7, <1>8

LEMMA LineBegins ==
  ASSUME NEW off, Laid(off, text), NEW t, NEW m, At(t, off, m, 0), NEW st, NEW p, NEW r,
         \A k \in Settings : \A i \in Intf : Kept(k, i, m, st[k][i], p, r)
  PROVE  ReadsOn(t, st, p, r)
<1>1. Skipped(m, 0, p)
  BY DEF Skipped
<1> QED  BY <1>1 DEF ReadsOn

(* Where a line is read, the flags tell which plugins are off. *)
LEMMA FlagsGovern ==
  ASSUME PlainFile(text), FlagsFirst, HarmlessComments,
         NEW m \in 0 .. Len(text) - 1, ~text[m + 1].comment,
         NEW st, NEW p, NEW r, \A g \in Flags : Kept(g, 0, m, st[g][0], p, r),
         NEW k, k = text[m + 1].words[1].word
  PROVE  PluginOff(k) <=> \/ k \in GxSettings /\ st["GX_PROBE"][0] # 1
                          \/ k \in S6aSettings /\ st["S6A_PROBE"][0] # 1
<1>1. CASE k \in Flags
  BY <1>1 DEF Flags, PluginOff, GxSettings, S6aSettings
<1>2. CASE k \notin Flags
  <2>1. ASSUME NEW g \in Flags
        PROVE  st[g][0] = Meant(g, 0) /\ Meant(g, 0) \in {0, 1}
    BY <1>2, FlagKnown, MeantFlag
  <2>2. "GX_PROBE" \in Flags /\ "S6A_PROBE" \in Flags
    BY DEF Flags
  <2>3. /\ st["GX_PROBE"][0] # 1 <=> Meant("GX_PROBE", 0) = 0
        /\ st["S6A_PROBE"][0] # 1 <=> Meant("S6A_PROBE", 0) = 0
    BY <2>1, <2>2
  <2> QED  BY <2>3 DEF PluginOff
<1> QED  BY <1>1, <1>2

(* A word that is not looked for. *)
LEMMA SkipReads ==
  ASSUME PlainFile(text), FlagsFirst, HarmlessComments, ReadTyped, SkipWord,
         ReadsOn(fp, set, pc, reloads)
  PROVE  ReadsOn(fp', set', pc', reloads')
<1>1. PICK off, m, w :
        /\ Laid(off, text) /\ At(fp, off, m, w) /\ Skipped(m, w, pc)
        /\ \A k \in Settings : \A i \in Intf : Kept(k, i, m, set[k][i], pc, reloads)
  BY DEF ReadsOn
<1>2. /\ pc \in {"load", "reload"} /\ fp # <<>> /\ ~LookedFor(Head(fp).word) /\ fp' = Tail(fp)
      /\ set' = set /\ pc' = pc /\ reloads' = reloads
  BY DEF SkipWord, Reading
<1>3. fp \in Seq(Word)
  BY DEF ReadTyped
<1>4. Len(text) \in Nat /\ m \in 0 .. Len(text) /\ m # Len(text) /\ w \in Nat
  <2>1. fp = <<>> <=> m = Len(text)
    BY <1>1, <1>3, AtEnd
  <2>2. Len(text) \in Nat
    BY LineFacts
  <2>3. m \in 0 .. Len(text) /\ w \in Nat
    BY <1>1, <2>2 DEF At
  <2> QED  BY <1>2, <2>1, <2>2, <2>3
<1>5. m < Len(text) /\ m \in 0 .. Len(text) - 1 /\ m + 1 \in DOMAIN text
  <2>1. m < Len(text) /\ m \in 0 .. Len(text) - 1 /\ m + 1 \in 1 .. Len(text)
    BY <1>4
  <2> QED  BY <2>1, LineFacts
<1> DEFINE line == text[m + 1].words
<1>6. /\ Head(fp) = line[w + 1] /\ w + 1 \in DOMAIN line
      /\ line \in Seq(Word) /\ DOMAIN line = 1 .. Len(line) /\ Len(line) \in Nat
  BY <1>1, <1>3, <1>5, AtWord, LineFacts, LenProperties
<1>7. /\ fp' \in Seq(Word) /\ Len(fp') = Len(fp) - 1
      /\ \A j \in 1 .. Len(fp') : fp'[j] = fp[j + 1]
  BY <1>2, <1>3, HeadTailProperties
<1>8. w + 1 <= Len(line)
  BY <1>4, <1>6
<1>9. IF w + 1 < Len(line) THEN At(fp', off, m, w + 1) ELSE At(fp', off, m + 1, 0)
  BY <1>1, <1>3, <1>5, <1>7, <1>8, Onward
<1>10. ASSUME text[m + 1].comment
       PROVE  ReadsOn(fp', set', pc', reloads')
  <2>1. CASE w + 1 < Len(line)
    <3>1. Skipped(m, w + 1, pc)
      BY <1>10 DEF Skipped
    <3> QED  BY <1>1, <1>2, <1>9, <2>1, <3>1 DEF ReadsOn
  <2>2. CASE ~(w + 1 < Len(line))
    <3>1. \A k : m + 1 \notin LinesOf(k)
      BY <1>10 DEF LinesOf
    <3>2. \A k \in Settings : \A i \in Intf : Kept(k, i, m + 1, set[k][i], pc, reloads)
      BY <1>1, <1>5, <3>1, OtherLine
    <3> QED  BY <1>1, <1>2, <1>9, <2>2, <3>2, LineBegins
  <2> QED  BY <2>1, <2>2
<1>11. ASSUME ~text[m + 1].comment
       PROVE  ReadsOn(fp', set', pc', reloads')
  <2> DEFINE key == line[1].word
  <2>1. Len(line) = 2 /\ Head(line) = line[1]
    BY <1>5, <1>11, LineFacts
  <2>2. CASE w = 0
    <3>1. At(fp', off, m, 1)
      BY <1>9, <2>1, <2>2
    <3>2. ~LookedFor(key)
      BY <1>2, <1>6, <2>2
    <3>3. Skipped(m, 1, pc)
      <4>1. CASE pc = "reload"
        BY <3>2, <4>1 DEF Skipped, LookedFor
      <4>2. CASE pc = "load"
        <5>1. ASSUME key \in Settings  PROVE PluginOff(key)
          <6>1. \/ key \in GxSettings /\ set["GX_PROBE"][0] # 1
                \/ key \in S6aSettings /\ set["S6A_PROBE"][0] # 1
            BY <3>2, <4>2, <5>1 DEF LookedFor
          <6>2. \A g \in Flags : Kept(g, 0, m, set[g][0], pc, reloads)
            BY <1>1, FlagsAreNoPlugin, ConfigAssumption DEF Intf, ConfigAssumption
          <6> QED  BY <1>5, <1>11, <6>1, <6>2, FlagsGovern
        <5> QED  BY <4>2, <5>1 DEF Skipped
      <4> QED  BY <1>2, <4>1, <4>2
    <3> QED  BY <1>1, <1>2, <3>1, <3>3 DEF ReadsOn
  <2>3. CASE w # 0
    <3>1. w = 1 /\ At(fp', off, m + 1, 0)
      BY <1>4, <1>6, <1>9, <2>1, <2>3
    <3>2. ASSUME NEW k \in Settings, NEW i \in Intf
          PROVE  Kept(k, i, m + 1, set[k][i], pc, reloads)
      <4>1. Kept(k, i, m, set[k][i], pc, reloads)
        BY <1>1
      <4>2. CASE k = key /\ PluginOff(k)
        BY <4>1, <4>2 DEF Kept
      <4>3. CASE k = key /\ ~PluginOff(k)
        <5>1. pc = "reload" /\ k \notin Reloadable
          BY <1>1, <1>5, <1>11, <3>1, <4>3 DEF Skipped
        <5> QED  BY <4>1, <4>3, <5>1 DEF Kept
      <4>4. CASE k # key
        <5>1. m + 1 \notin LinesOf(k)
          BY <2>1, <4>4 DEF LinesOf
        <5> QED  BY <1>5, <4>1, <5>1, OtherLine
      <4> QED  BY <4>2, <4>3, <4>4
    <3> QED  BY <1>1, <1>2, <3>1, <3>2, LineBegins
  <2> QED  BY <2>2, <2>3
<1> QED  BY <1>10, <1>11

(* The name of a setting and its value. *)
LEMMA SettingReads ==
  ASSUME PlainFile(text), FlagsFirst, HarmlessComments, ReadTyped, ReadSetting,
         ReadsOn(fp, set, pc, reloads), pc = "reload" => reloads > 0
  PROVE  ReadsOn(fp', set', pc, reloads)
<1>1. PICK off, m, w :
        /\ Laid(off, text) /\ At(fp, off, m, w) /\ Skipped(m, w, pc)
        /\ \A k \in Settings : \A i \in Intf : Kept(k, i, m, set[k][i], pc, reloads)
  BY DEF ReadsOn
<1> DEFINE key   == Head(fp).word
           value == IF Len(fp) > 1 THEN fp[2] ELSE NoWord
<1>2. /\ pc \in {"load", "reload"} /\ fp # <<>> /\ LookedFor(key)
      /\ set' = [set EXCEPT ![key] = Overlay(@, Stored(key, value))]
      /\ fp' = IF Len(fp) > 1 THEN Tail(Tail(fp)) ELSE <<>>
  BY DEF ReadSetting, Reading
<1>3. fp \in Seq(Word) /\ set \in [Settings -> [Intf -> Nat]]
  BY DEF ReadTyped
<1>4. Len(text) \in Nat /\ m \in 0 .. Len(text) /\ m # Len(text) /\ w \in Nat
  <2>1. fp # <<>>
    BY <1>2
  <2>2. m # Len(text)
    BY <1>1, <1>3, <2>1, AtEnd
  <2> QED  BY <1>1, <2>2, LineFacts DEF At
<1>5. m < Len(text) /\ m \in 0 .. Len(text) - 1 /\ m + 1 \in DOMAIN text
  <2>1. m < Len(text) /\ m \in 0 .. Len(text) - 1 /\ m + 1 \in 1 .. Len(text)
    BY <1>4
  <2> QED  BY <2>1, LineFacts
<1> DEFINE line == text[m + 1].words
<1>6. /\ Head(fp) = line[w + 1] /\ w + 1 \in DOMAIN line
      /\ line \in Seq(Word) /\ DOMAIN line = 1 .. Len(line) /\ Len(line) \in Nat
  BY <1>1, <1>3, <1>5, AtWord, LineFacts, LenProperties
<1>7. key \in Settings /\ (pc = "reload" => key \in Reloadable) /\ key = line[w + 1].word
  BY <1>2, <1>6 DEF LookedFor, Reloadable, Settings, Numbers
(* The value is in the same line. *)
<1>8. w + 1 < Len(line) /\ (~text[m + 1].comment => w = 0 /\ Len(line) = 2)
  <2>1. CASE text[m + 1].comment
    BY <1>5, <1>6, <1>7, <2>1 DEF HarmlessComments
  <2>2. CASE ~text[m + 1].comment
    <3>1. Len(line) = 2 /\ line[2].word \notin Settings
      BY <1>5, <2>2, LineFacts
    <3>2. w + 1 # 2
      BY <1>7, <3>1
    <3> QED  BY <1>4, <1>6, <3>1, <3>2
  <2> QED  BY <2>1, <2>2
<1>9. Len(fp) > 1 /\ value = line[w + 2]
  <2>1. Len(fp) > 1 /\ fp[2] = line[w + 2]
    BY <1>1, <1>3, <1>5, <1>8, AtWord
  <2> QED  BY <2>1
<1> DEFINE new == Stored(key, line[w + 2])
<1>10. set' = [set EXCEPT ![key] = Overlay(set[key], new)]
  BY <1>2, <1>9
<1>11. fp' \in Seq(Word) /\ Len(fp') = Len(fp) - 2 /\ \A j \in 1 .. Len(fp') : fp'[j] = fp[j + 2]
  <2>1. /\ Tail(fp) \in Seq(Word) /\ Len(Tail(fp)) = Len(fp) - 1 /\ Len(fp) \in Nat
        /\ \A j \in 1 .. Len(Tail(fp)) : Tail(fp)[j] = fp[j + 1]
    BY <1>2, <1>3, HeadTailProperties, LenProperties
  <2> DEFINE q == Tail(fp)
  <2>2. q \in Seq(Word) /\ Len(q) = Len(fp) - 1 /\ \A j \in 1 .. Len(q) : q[j] = fp[j + 1]
    BY <2>1
  <2>3. fp' = Tail(q)
    BY <1>2, <1>9
  <2> HIDE DEF q
  <2>4. Len(q) # 0
    BY <1>9, <2>1, <2>2
  <2>5. q # <<>>
    BY <2>4, EmptySeq
  <2>6. /\ Tail(q) \in Seq(Word) /\ Len(Tail(q)) = Len(q) - 1
        /\ \A j \in 1 .. Len(Tail(q)) : Tail(q)[j] = q[j + 1]
    BY <2>2, <2>5, HeadTailProperties
  <2>7. ASSUME NEW j \in 1 .. Len(Tail(q))  PROVE Tail(q)[j] = fp[j + 2]
    <3>1. j \in Nat /\ j + 1 \in 1 .. Len(q) /\ (j + 1) + 1 = j + 2
      BY <2>1, <2>2, <2>6
    <3> QED  BY <2>2, <2>6, <3>1
  <2>8. Len(Tail(q)) = Len(fp) - 2
    <3>1. \A a \in Nat : (a - 1) - 1 = a - 2
      BY SMT
    <3>2. Len(Tail(q)) = (Len(fp) - 1) - 1 /\ Len(fp) \in Nat
      BY <2>1, <2>2, <2>6
    <3> QED  BY <3>1, <3>2
  <2> QED  BY <2>3, <2>6, <2>7, <2>8
<1>12. w + 2 <= Len(line)
  BY <1>4, <1>6, <1>8
<1>13. IF w + 2 < Len(line) THEN At(fp', off, m, w + 2) ELSE At(fp', off, m + 1, 0)
  BY <1>1, <1>3, <1>5, <1>11, <1>12, Onward
<1>14. /\ set[key] \in [Intf -> Nat] /\ set'[key] = Overlay(set[key], new)
       /\ \A k \in Settings : k # key => set'[k] = set[k]
  BY <1>3, <1>7, <1>10
<1> HIDE DEF key, value, new
<1>15. ASSUME text[m + 1].comment
       PROVE  ReadsOn(fp', set', pc, reloads)
  <2>1. ASSUME NEW k \in Settings, NEW i \in Intf
        PROVE  Kept(k, i, m, set'[k][i], pc, reloads)
    <3>1. Kept(k, i, m, set[k][i], pc, reloads)
      BY <1>1
    <3>2. CASE k # key
      BY <1>14, <3>1, <3>2
    <3>3. CASE k = key
      <4>1. (w + 1) + 1 = w + 2
        BY <1>4
      <4>2. Kept(key, i, m, Overlay(set[key], Stored(key, line[(w + 1) + 1]))[i], pc, reloads)
        BY <1>5, <1>6, <1>7, <1>8, <1>14, <1>15, <3>1, <3>3, CommentSets
      <4> QED  BY <1>14, <3>3, <4>1, <4>2 DEF new
    <3> QED  BY <3>2, <3>3
  <2>2. CASE w + 2 < Len(line)
    <3>1. Skipped(m, w + 2, pc)
      BY <1>15 DEF Skipped
    <3> QED  BY <1>1, <1>13, <2>1, <2>2, <3>1 DEF ReadsOn
  <2>3. CASE ~(w + 2 < Len(line))
    <3>1. \A k : m + 1 \notin LinesOf(k)
      BY <1>15 DEF LinesOf
    <3>2. \A k \in Settings : \A i \in Intf : Kept(k, i, m + 1, set'[k][i], pc, reloads)
      BY <1>5, <2>1, <3>1, OtherLine
    <3> QED  BY <1>1, <1>13, <2>3, <3>2, LineBegins
  <2> QED  BY <2>2, <2>3
<1>16. ASSUME ~text[m + 1].comment
       PROVE  ReadsOn(fp', set', pc, reloads)
  <2>1. w = 0 /\ Len(line) = 2 /\ Head(line) = line[1] /\ key = line[1].word /\ new = Stored(key, line[2])
    BY <1>5, <1>7, <1>8, <1>16, LineFacts DEF new
  <2>2. At(fp', off, m + 1, 0)
    BY <1>13, <2>1
  <2>3. m + 1 \in LinesOf(key)
    BY <1>5, <1>16, <2>1 DEF LinesOf
  <2>4. PluginOff(key) => reloads > 0
    <3>1. CASE pc = "load"
      <4>1. /\ key \in GxSettings => set["GX_PROBE"][0] = 1
            /\ key \in S6aSettings => set["S6A_PROBE"][0] = 1
        BY <1>2, <3>1 DEF LookedFor, key
      <4>2. \A g \in Flags : Kept(g, 0, m, set[g][0], pc, reloads)
        BY <1>1, FlagsAreNoPlugin, ConfigAssumption DEF Intf, ConfigAssumption
      <4> QED  BY <1>5, <1>16, <2>1, <4>1, <4>2, FlagsGovern
    <3> QED  BY <1>2, <3>1
  <2>5. ASSUME NEW k \in Settings, NEW i \in Intf
        PROVE  Kept(k, i, m + 1, set'[k][i], pc, reloads)
    <3>1. Kept(k, i, m, set[k][i], pc, reloads)
      BY <1>1
    <3>2. CASE k = key
      BY <1>5, <1>7, <1>14, <2>1, <2>3, <2>4, <3>1, <3>2, LineSets
    <3>3. CASE k # key
      <4>1. m + 1 \notin LinesOf(k)
        BY <2>1, <3>3 DEF LinesOf
      <4> QED  BY <1>5, <1>14, <3>1, <3>3, <4>1, OtherLine
    <3> QED  BY <3>2, <3>3
  <2> QED  BY <1>1, <2>2, <2>5, LineBegins
<1> QED  BY <1>15, <1>16

-----------------------------------------------------------------------------
(* What stands in every state, for a file whose comments do no harm.       *)
Understood ==
  /\ pc = "reload" => reloads > 0
  /\ reloads \in Nat
  /\ FlagsFirst /\ HarmlessComments =>
       /\ pc \in {"load", "reload"} => ReadsOn(fp, set, pc, reloads)
       /\ pc \in {"allocate", "listen", "up"} => Settled(set, reloads)

LEMMA TextStays ==
  ASSUME text' = text
  PROVE  /\ FlagsFirst' <=> FlagsFirst
         /\ HarmlessComments' <=> HarmlessComments
         /\ ReadsOn(fp', set', pc', reloads') => ReadsOn(fp, set, pc, reloads)'
         /\ Settled(set', reloads') => Settled(set, reloads)'
<1>1. \A k : LinesOf(k)' = LinesOf(k)
  BY DEF LinesOf
<1>2. \A k, i : Reaching(k, i)' = Reaching(k, i)
  BY <1>1 DEF Reaching
<1>3. \A k, i : Meant(k, i)' = Meant(k, i)
  BY <1>2 DEF Meant
<1>4. \A k : PluginOff(k)' <=> PluginOff(k)
  BY <1>3 DEF PluginOff
<1>5. FlagsFirst' <=> FlagsFirst
  BY <1>1 DEF FlagsFirst
<1>6. HarmlessComments' <=> HarmlessComments
  BY <1>1 DEF HarmlessComments
<1>7. Settled(set', reloads') => Settled(set, reloads)'
  BY <1>3, <1>4 DEF Settled
<1>8. ASSUME ReadsOn(fp', set', pc', reloads')  PROVE ReadsOn(fp, set, pc, reloads)'
  <2>1. PICK off, m, w :
          /\ Laid(off, text) /\ At(fp', off, m, w) /\ Skipped(m, w, pc')
          /\ \A k \in Settings : \A i \in Intf : Kept(k, i, m, set'[k][i], pc', reloads')
    BY <1>8 DEF ReadsOn
  <2>2. Laid(off, text)'
    BY <2>1 DEF Laid
  <2>3. At(fp, off, m, w)'
    BY <2>1 DEF At
  <2>4. Skipped(m, w, pc)'
    BY <1>4, <2>1 DEF Skipped
  <2>5. ASSUME NEW k \in Settings, NEW i \in Intf
        PROVE  Kept(k, i, m, set[k][i], pc, reloads)'
    <3>1. Kept(k, i, m, set'[k][i], pc', reloads')
      BY <2>1
    <3>2. ByLines(k, i, m, set'[k][i]) => ByLines(k, i, m, set[k][i])'
      BY <1>2 DEF ByLines
    <3>3. Disturbed(k, m) => Disturbed(k, m)'
      BY <1>1 DEF Disturbed
    <3> QED  BY <1>3, <1>4, <3>1, <3>2, <3>3 DEF Kept
  <2> QED  BY <2>2, <2>3, <2>4, <2>5 DEF ReadsOn
<1> QED  BY <1>5, <1>6, <1>7, <1>8

LEMMA ReadingBegins ==
  ASSUME PlainFile(text), Words(text) \in Seq(Word), NEW st, NEW p, NEW r,
         \A k \in Settings : \A i \in Intf : Kept(k, i, 0, st[k][i], p, r)
  PROVE  ReadsOn(Words(text), st, p, r)
<1>1. PICK off : Laid(off, text)
  BY FilesAreLaid
<1>2. Len(text) \in Nat /\ (0 < Len(text) => 0 < Len(text[0 + 1].words))
  BY LineFacts
<1>3. off[0] = 0 /\ off[Len(text)] = Len(Words(text)) /\ Len(Words(text)) \in Nat
  BY <1>1 DEF Laid
<1>4. Len(Words(text)) = off[Len(text)] - (off[0] + 0)
  BY <1>3
<1>5. \A j \in 1 .. Len(Words(text)) : Words(text)[j] = Words(text)[off[0] + 0 + j]
  BY <1>3
<1>6. At(Words(text), off, 0, 0)
  BY <1>2, <1>4, <1>5 DEF At
<1> QED  BY <1>1, <1>6, LineBegins

LEMMA UnderstoodStep ==
  ASSUME PlainFile(text), Words(text) \in Seq(Word), ReadTyped, Understood, [ConfigNext]_configVars
  PROVE  Understood'
<1>1. text' = text
  BY DEF ConfigNext, ReadSetting, SkipWord, EndOfFile, Allocate, Allocated, Listen, Reload, configVars
<1>2. reloads' \in Nat /\ (pc' = "reload" => reloads' > 0)
  <2>1. CASE Reload
    BY <2>1 DEF Reload, Understood
  <2>2. CASE ~Reload
    BY <2>2 DEF ConfigNext, ReadSetting, SkipWord, EndOfFile, Allocate, Allocated, Listen, configVars, Understood
  <2> QED  BY <2>1, <2>2
<1>3. ASSUME FlagsFirst, HarmlessComments
      PROVE  /\ pc' \in {"load", "reload"} => ReadsOn(fp', set', pc', reloads')
             /\ pc' \in {"allocate", "listen", "up"} => Settled(set', reloads')
  <2>1. /\ pc \in {"load", "reload"} => ReadsOn(fp, set, pc, reloads)
        /\ pc \in {"allocate", "listen", "up"} => Settled(set, reloads)
        /\ pc = "reload" => reloads > 0
    BY <1>3 DEF Understood
  <2>2. CASE ReadSetting
    <3>1. pc \in {"load", "reload"} /\ pc' \in {pc, "exited"} /\ reloads' = reloads
      BY <2>2 DEF ReadSetting, Reading
    <3>2. ReadsOn(fp', set', pc, reloads)
      BY <1>3, <2>1, <2>2, <3>1, SettingReads
    <3> QED  BY <3>1, <3>2
  <2>3. CASE SkipWord
    <3>1. pc \in {"load", "reload"} /\ pc' = pc
      BY <2>3 DEF SkipWord, Reading
    <3> QED  BY <1>3, <2>1, <2>3, <3>1, SkipReads
  <2>4. CASE EndOfFile
    <3>1. /\ pc \in {"load", "reload"} /\ pc' \in {"allocate", "up"} /\ fp = <<>>
          /\ set' = set /\ reloads' = reloads
      BY <2>4 DEF EndOfFile, Reading
    <3>2. PICK off, m, w :
            /\ Laid(off, text) /\ At(fp, off, m, w)
            /\ \A k \in Settings : \A i \in Intf : Kept(k, i, m, set[k][i], pc, reloads)
      BY <2>1, <3>1 DEF ReadsOn
    <3>3. fp \in Seq(Word)
      BY DEF ReadTyped
    <3>4. m = Len(text)
      <4>1. fp = <<>> <=> m = Len(text)
        BY <3>2, <3>3, AtEnd
      <4> QED  BY <3>1, <4>1
    <3>5. Settled(set, reloads)
      BY <1>3, <3>2, <3>4, AllRead DEF Settled
    <3> QED  BY <3>1, <3>5
  <2>5. CASE Allocate \/ Allocated \/ Listen \/ UNCHANGED configVars
    <3>1. /\ set' = set /\ reloads' = reloads
          /\ pc' \in {"allocate", "listen", "up"} => pc \in {"allocate", "listen", "up"}
          /\ pc' \in {"load", "reload"} => pc' = pc /\ fp' = fp
      BY <2>5 DEF Allocate, Allocated, Listen, configVars
    <3> QED  BY <2>1, <3>1
  <2>6. CASE Reload
    <3>1. /\ pc = "up" /\ pc' = "reload" /\ reloads' > 0 /\ set' = set /\ fp' = Words(text)
      BY <1>2, <2>6 DEF Reload
    <3>2. ASSUME NEW k \in Settings, NEW i \in Intf
          PROVE  Kept(k, i, 0, set'[k][i], pc', reloads')
      BY <2>1, <3>1 DEF Settled, Kept
    <3>3. ReadsOn(Words(text), set', pc', reloads')
      BY <3>2, ReadingBegins
    <3> QED  BY <3>1, <3>3
  <2> QED  BY <2>2, <2>3, <2>4, <2>5, <2>6 DEF ConfigNext
<1> QED  BY <1>1, <1>2, <1>3, TextStays DEF Understood

LEMMA UnderstoodInit ==
  ASSUME PlainFile(text), Words(text) \in Seq(Word), ConfigInit
  PROVE  Understood
<1>1. fp = Words(text) /\ set = Default /\ pc = "load" /\ reloads = 0
  BY DEF ConfigInit
<1>2. ASSUME NEW k \in Settings, NEW i \in Intf
      PROVE  Kept(k, i, 0, set[k][i], pc, reloads)
  <2>1. \A n \in Reaching(k, i) : n > 0
    BY ReachingLines, LineFacts
  <2>2. ByLines(k, i, 0, Default[k][i])
    BY <2>1 DEF ByLines
  <2> QED  BY <1>1, <2>2 DEF Kept
<1>3. ReadsOn(fp, set, pc, reloads)
  BY <1>1, <1>2, ReadingBegins
<1> QED  BY <1>1, <1>3 DEF Understood

(* Whatever file of plain lines is read: the program starts with what its  *)
(* last lines say, although it reads the comments too and learns only on   *)
(* the way which plugins are on; and reading it again changes nothing.     *)
THEOREM ReadAsWritten ==
  ASSUME \A file \in Texts : PlainFile(file)
  PROVE  ConfigSpec => []AsWritten
<1> DEFINE Inv == ReadTyped /\ Understood
<1>1. ConfigInit => Inv
  <2> SUFFICES ASSUME ConfigInit PROVE Inv
    OBVIOUS
  <2>1. ReadTyped
    BY ConfigInitial DEF Configured
  <2>2. PlainFile(text) /\ Words(text) \in Seq(Word)
    BY <2>1, TextsAssumption DEF ReadTyped, TextsAssumption
  <2> QED  BY <2>1, <2>2, UnderstoodInit
<1>2. Configured /\ Inv /\ [ConfigNext]_configVars => Inv'
  <2> SUFFICES ASSUME Configured, ReadTyped, Understood, [ConfigNext]_configVars PROVE Inv'
    OBVIOUS
  <2>1. ReadTyped'
    BY ReadTypedStep
  <2>2. PlainFile(text) /\ Words(text) \in Seq(Word)
    BY TextsAssumption DEF ReadTyped, TextsAssumption
  <2> QED  BY <2>1, <2>2, UnderstoodStep
<1>3. Inv => AsWritten
  BY DEF Understood, Settled, AsWritten
<1>4. Configured /\ [ConfigNext]_configVars => Configured'
  BY ReadTypedStep, SizedStep DEF Configured
<1> QED  BY ConfigInitial, <1>1, <1>2, <1>3, <1>4, PTL DEF ConfigSpec
-----------------------------------------------------------------------------
(* The log library's queue (Queue).                                        *)
QueuePlaces ==
  {"idle", "lock", "inside", "second try", "unlock", "asleep", "awake", "cleanup", "gone"}
QueueTyped ==
  /\ lock \in Threads \cup {Que!NoOne}
  /\ items \in Seq(Nat) /\ size \in Int /\ number \in Nat /\ taken \in Nat
  /\ at \in [Threads -> QueuePlaces]
  /\ doubled \in BOOLEAN

(* What QueueHolds says, in two parts: who is in the queue, and what it is. *)
Alone == \A t \in Threads : at[t] \in {"inside", "second try", "unlock"} => lock = t
Numbered ==
  /\ size = Len(items)
  /\ \A n \in 1 .. Len(items) : items[n] = taken + n
  /\ taken + Len(items) = number
  /\ items # <<>> => \A t \in Threads : at[t] # "asleep"
QueueInv == QueueTyped /\ (~doubled => Alone /\ Numbered)

LEMMA QueueBegins ==
  ASSUME Que!Init  PROVE  QueueInv
<1>1. /\ lock = Que!NoOne /\ items = <<>> /\ size = 0 /\ at = [t \in Threads |-> "idle"]
      /\ number = 0 /\ taken = 0 /\ doubled = FALSE
  BY DEF Que!Init
<1>2. at \in [Threads -> QueuePlaces]
  BY <1>1 DEF QueuePlaces
<1>3. items \in Seq(Nat) /\ Len(items) = 0
  BY <1>1
<1>4. QueueTyped
  <2>1. lock \in Threads \cup {Que!NoOne}
    BY <1>1, Zenon
  <2>2. size \in Int /\ number \in Nat /\ taken \in Nat
    BY <1>1
  <2>3. doubled \in BOOLEAN
    BY <1>1, Zenon
  <2> QED  BY <1>2, <1>3, <2>1, <2>2, <2>3 DEF QueueTyped
<1>5. Alone
  BY <1>1 DEF Alone
<1>6. Numbered
  BY <1>1, <1>3 DEF Numbered
<1> QED  BY <1>4, <1>5, <1>6 DEF QueueInv

(* The steps that touch neither the mutex nor the elements. *)
LEMMA QueueMoves ==
  ASSUME QueueInv, NEW t \in Threads, NEW to, at' = [at EXCEPT ![t] = to],
         to \in QueuePlaces \ {"inside", "second try", "asleep"},
         at[t] \in {"inside", "second try"} \/ to # "unlock",
         UNCHANGED <<lock, items, size, number, taken, doubled>>
  PROVE  QueueInv'
<1>1. QueueTyped'
  BY DEF QueueInv, QueueTyped
<1>2. ~doubled => Alone'
  BY DEF QueueInv, QueueTyped, Alone
<1>3. ~doubled => Numbered'
  BY DEF QueueInv, QueueTyped, Numbered
<1> QED  BY <1>1, <1>2, <1>3 DEF QueueInv

(* The steps that get the mutex. *)
LEMMA QueueLocks ==
  ASSUME Que!ThreadsNamed, QueueInv, NEW t \in Threads, lock = Que!NoOne, lock' = t,
         NEW to \in {"inside", "second try"}, at' = [at EXCEPT ![t] = to],
         UNCHANGED <<items, size, number, taken, doubled>>
  PROVE  QueueInv'
<1>1. QueueTyped'
  BY DEF QueueInv, QueueTyped, QueuePlaces
<1>2. ~doubled => Alone'
  BY DEF QueueInv, QueueTyped, Alone, Que!ThreadsNamed
<1>3. ~doubled => Numbered'
  BY DEF QueueInv, QueueTyped, Numbered
<1> QED  BY <1>1, <1>2, <1>3 DEF QueueInv

(* The steps that give it up: unlock, the wait for an element, the end of  *)
(* trypop.                                                                 *)
LEMMA QueueUnlocks ==
  ASSUME Que!ThreadsNamed, QueueInv, NEW t \in Threads, lock' = Que!NoOne,
         at[t] \in {"inside", "unlock"},
         NEW to \in {"idle", "asleep", "cleanup"}, at' = [at EXCEPT ![t] = to],
         to = "asleep" => items = <<>>,
         UNCHANGED <<items, size, number, taken, doubled>>
  PROVE  QueueInv'
<1>1. QueueTyped'
  BY DEF QueueInv, QueueTyped, QueuePlaces
<1>2. ~doubled => Alone'
  BY DEF QueueInv, QueueTyped, Alone, Que!ThreadsNamed
<1>3. ~doubled => Numbered'
  BY DEF QueueInv, QueueTyped, Numbered
<1> QED  BY <1>1, <1>2, <1>3 DEF QueueInv

(* A wake-up reaches all who sleep: none is left who could be needed. *)
LEMMA QueuePushed ==
  ASSUME QueueInv, NEW t \in Threads, Que!Push(t)
  PROVE  QueueInv'
<1>0. /\ at[t] = "inside" /\ items' = Append(items, number + 1) /\ size' = size + 1
      /\ number' = number + 1 /\ UNCHANGED <<lock, taken, doubled>>
      /\ at' = [u \in Threads |-> IF u = t THEN "unlock"
                                  ELSE IF at[u] = "asleep" THEN "awake" ELSE at[u]]
  BY DEF Que!Push, Que!WakeAll
<1>1. /\ items \in Seq(Nat) /\ size \in Int /\ number \in Nat /\ taken \in Nat
      /\ at \in [Threads -> QueuePlaces] /\ lock \in Threads \cup {Que!NoOne} /\ doubled \in BOOLEAN
  BY DEF QueueInv, QueueTyped
<1>2. /\ items' \in Seq(Nat) /\ Len(items') = Len(items) + 1 /\ Len(items) \in Nat
      /\ \A n \in 1 .. Len(items) : (items')[n] = items[n]
      /\ (items')[Len(items) + 1] = number + 1
  BY <1>0, <1>1, AppendProperties
<1>3. at' \in [Threads -> QueuePlaces] /\ \A u \in Threads : (at')[u] # "asleep"
  BY <1>0, <1>1 DEF QueuePlaces
<1>4. QueueTyped'
  <2>1. items' \in Seq(Nat) /\ size' \in Int /\ number' \in Nat /\ taken' \in Nat
    BY <1>0, <1>1, <1>2
  <2> QED  BY <1>0, <1>1, <1>3, <2>1 DEF QueueTyped
<1>5. ASSUME ~doubled  PROVE  Alone' /\ Numbered'
  <2>1. Alone /\ Numbered
    BY <1>5 DEF QueueInv
  <2>2. Alone'
    BY <1>0, <1>1, <2>1 DEF Alone
  <2>3. size' = Len(items') /\ taken' + Len(items') = number'
    <3>1. size = Len(items) /\ taken + Len(items) = number /\ taken \in Nat
      BY <1>1, <2>1 DEF Numbered
    <3>2. /\ size' = size + 1 /\ number' = number + 1 /\ taken' = taken
          /\ Len(items') = Len(items) + 1 /\ Len(items) \in Nat
      BY <1>0, <1>2
    <3> QED  BY <3>1, <3>2
  <2>4. ASSUME NEW n \in 1 .. Len(items')  PROVE  (items')[n] = taken' + n
    <3>1. CASE n = Len(items) + 1
      <4>1. number + 1 = taken + (Len(items) + 1)
        <5>1. taken + Len(items) = number /\ taken \in Nat /\ Len(items) \in Nat
          BY <1>1, <1>2, <2>1 DEF Numbered
        <5> QED  BY <5>1
      <4> QED  BY <1>0, <1>2, <3>1, <4>1
    <3>2. CASE n # Len(items) + 1
      <4>1. n \in 1 .. Len(items)
        BY <1>2, <3>2
      <4>2. items[n] = taken + n
        BY <2>1, <4>1 DEF Numbered
      <4> QED  BY <1>0, <1>2, <4>1, <4>2
    <3> QED  BY <3>1, <3>2
  <2> QED  BY <1>3, <2>2, <2>3, <2>4 DEF Numbered
<1> QED  BY <1>0, <1>4, <1>5 DEF QueueInv

LEMMA QueueTaken ==
  ASSUME QueueInv, NEW t \in Threads, Que!Take(t)
  PROVE  QueueInv'
<1>0. /\ at[t] \in {"inside", "second try"} /\ items # <<>> /\ items' = Tail(items)
      /\ size' = size - 1 /\ taken' = Head(items) /\ at' = [at EXCEPT ![t] = "unlock"]
      /\ UNCHANGED <<lock, number, doubled>>
  BY DEF Que!Take
<1>1. /\ items \in Seq(Nat) /\ size \in Int /\ number \in Nat /\ taken \in Nat
      /\ at \in [Threads -> QueuePlaces] /\ lock \in Threads \cup {Que!NoOne} /\ doubled \in BOOLEAN
  BY DEF QueueInv, QueueTyped
<1>2. /\ items' \in Seq(Nat) /\ Len(items') = Len(items) - 1 /\ Len(items) \in Nat /\ Len(items) > 0
      /\ \A n \in 1 .. Len(items) - 1 : (items')[n] = items[n + 1]
      /\ taken' = items[1] /\ taken' \in Nat
  <2>1. items \in Seq(Nat) /\ items # <<>> /\ items' = Tail(items) /\ taken' = Head(items)
    BY <1>0, <1>1
  <2>2. /\ items' \in Seq(Nat) /\ Len(items') = Len(items) - 1
        /\ \A n \in 1 .. Len(items) - 1 : (items')[n] = items[n + 1]
        /\ taken' \in Nat
    BY <2>1, HeadTailProperties
  <2>3. Len(items) \in Nat /\ Len(items) > 0 /\ taken' = items[1]
    BY <2>1
  <2> QED  BY <2>2, <2>3
<1>3. at' \in [Threads -> QueuePlaces]
  BY <1>0, <1>1 DEF QueuePlaces
<1>4. QueueTyped'
  <2>1. size \in Int /\ size' = size - 1
    BY <1>0, <1>1
  <2>2. size' \in Int
    BY <2>1
  <2>3. /\ lock' \in Threads \cup {Que!NoOne} /\ number' \in Nat /\ doubled' \in BOOLEAN
    BY <1>0, <1>1
  <2> QED  BY <1>2, <1>3, <2>2, <2>3 DEF QueueTyped
<1>5. ASSUME ~doubled  PROVE  Alone' /\ Numbered'
  <2>1. Alone /\ Numbered
    BY <1>5 DEF QueueInv
  <2>2. Alone'
    BY <1>0, <1>1, <2>1 DEF Alone
  <2>3. taken' = taken + 1
    BY <1>1, <1>2, <2>1 DEF Numbered
  <2>4. size' = Len(items') /\ taken' + Len(items') = number'
    <3>1. size = Len(items) /\ taken + Len(items) = number /\ taken \in Nat
      BY <1>1, <2>1 DEF Numbered
    <3>2. /\ size' = size - 1 /\ number' = number /\ Len(items') = Len(items) - 1
          /\ Len(items) \in Nat
      BY <1>0, <1>2
    <3> QED  BY <2>3, <3>1, <3>2
  <2>5. ASSUME NEW n \in 1 .. Len(items')  PROVE  (items')[n] = taken' + n
    <3>1. n + 1 \in 1 .. Len(items) /\ n \in 1 .. Len(items) - 1
      BY <1>2
    <3>2. (items')[n] = items[n + 1]
      BY <1>2, <3>1
    <3>3. items[n + 1] = taken + (n + 1)
      BY <2>1, <3>1 DEF Numbered
    <3>4. taken \in Nat /\ n \in Nat
      BY <1>1, <3>1
    <3> QED  BY <2>3, <3>2, <3>3, <3>4
  <2>6. \A u \in Threads : (at')[u] # "asleep"
    BY <1>0, <1>1, <2>1 DEF Numbered
  <2> QED  BY <2>2, <2>4, <2>5, <2>6 DEF Numbered
<1> QED  BY <1>0, <1>4, <1>5 DEF QueueInv

LEMMA QueueCleared ==
  ASSUME QueueInv, NEW t \in Threads, Que!Clear(t)
  PROVE  QueueInv'
<1>0. /\ at[t] = "inside" /\ items' = <<>> /\ size' = 0 /\ taken' = number
      /\ at' = [at EXCEPT ![t] = "unlock"] /\ UNCHANGED <<lock, number, doubled>>
  BY DEF Que!Clear
<1>1. QueueTyped'
  <2>1. at' \in [Threads -> QueuePlaces]
    BY <1>0 DEF QueueInv, QueueTyped, QueuePlaces
  <2>2. items' \in Seq(Nat) /\ size' \in Int
    BY <1>0
  <2>3. /\ lock' \in Threads \cup {Que!NoOne} /\ number' \in Nat /\ taken' \in Nat
        /\ doubled' \in BOOLEAN
    BY <1>0 DEF QueueInv, QueueTyped
  <2> QED  BY <2>1, <2>2, <2>3 DEF QueueTyped
<1>2. ~doubled => Alone'
  BY <1>0 DEF QueueInv, QueueTyped, Alone
<1>3. Numbered'
  <2>1. number \in Nat /\ Len(items') = 0 /\ items' = <<>>
    BY <1>0 DEF QueueInv, QueueTyped
  <2> QED  BY <1>0, <2>1 DEF Numbered
<1> QED  BY <1>0, <1>1, <1>2, <1>3 DEF QueueInv

(* The second unlock of trypop does no harm while nobody has the mutex; if *)
(* somebody has, nothing is said any more.                                 *)
LEMMA QueueCleanedUp ==
  ASSUME Que!ThreadsNamed, QueueInv, NEW t \in Threads, Que!Cleanup(t)
  PROVE  QueueInv'
<1>0. /\ at[t] = "cleanup" /\ lock' = Que!NoOne /\ doubled' = (doubled \/ lock # Que!NoOne)
      /\ at' = [at EXCEPT ![t] = "idle"] /\ UNCHANGED <<items, size, number, taken>>
  BY DEF Que!Cleanup
<1>1. QueueTyped'
  <2>1. at' \in [Threads -> QueuePlaces] /\ doubled' \in BOOLEAN
    BY <1>0 DEF QueueInv, QueueTyped, QueuePlaces
  <2> QED  BY <1>0, <2>1 DEF QueueInv, QueueTyped
<1>2. ASSUME ~doubled'  PROVE  Alone' /\ Numbered'
  <2>1. lock = Que!NoOne /\ Alone /\ Numbered
    BY <1>0, <1>2 DEF QueueInv
  <2>2. Alone'
    BY <1>0, <2>1 DEF QueueInv, QueueTyped, Alone
  <2>3. Numbered'
    BY <1>0, <2>1 DEF QueueInv, QueueTyped, Numbered
  <2> QED  BY <2>2, <2>3
<1> QED  BY <1>1, <1>2 DEF QueueInv

LEMMA QueueKeeps ==
  ASSUME Que!ThreadsNamed, QueueInv, [Que!Next]_(Que!vars)
  PROVE  QueueInv'
<1>1. CASE UNCHANGED Que!vars
  BY <1>1 DEF Que!vars, QueueInv, QueueTyped, Alone, Numbered
<1>2. ASSUME NEW t \in Threads,
             \/ Que!Begin(t) \/ Que!Lock(t) \/ Que!Push(t) \/ Que!Take(t) \/ Que!Top(t)
             \/ Que!Clear(t) \/ Que!Wait(t) \/ Que!TimeUp(t) \/ Que!LockAgain(t) \/ Que!GiveUp(t)
             \/ Que!Unlock(t) \/ Que!TryEmpty(t) \/ Que!Cleanup(t) \/ Que!Cancel(t)
      PROVE  QueueInv'
  <2>1. CASE Que!Begin(t)
    BY <2>1, QueueMoves DEF Que!Begin, QueuePlaces
  <2>2. CASE Que!Lock(t)
    BY <2>2, QueueLocks DEF Que!Lock
  <2>3. CASE Que!Push(t)
    BY <2>3, QueuePushed
  <2>4. CASE Que!Take(t)
    BY <2>4, QueueTaken
  <2>5. CASE Que!Top(t)
    BY <2>5, QueueMoves DEF Que!Top, QueuePlaces
  <2>6. CASE Que!Clear(t)
    BY <2>6, QueueCleared
  <2>7. CASE Que!Wait(t)
    BY <2>7, QueueUnlocks DEF Que!Wait
  <2>8. CASE Que!TimeUp(t)
    BY <2>8, QueueMoves DEF Que!TimeUp, QueuePlaces
  <2>9. CASE Que!LockAgain(t)
    <3>1. PICK to : to = IF call[t] = "pop in time" THEN "second try" ELSE "inside"
      OBVIOUS
    <3> QED  BY <2>9, <3>1, QueueLocks DEF Que!LockAgain
  <2>10. CASE Que!GiveUp(t)
    BY <2>10, QueueMoves DEF Que!GiveUp, QueuePlaces
  <2>11. CASE Que!Unlock(t)
    BY <2>11, QueueUnlocks DEF Que!Unlock
  <2>12. CASE Que!TryEmpty(t)
    BY <2>12, QueueUnlocks DEF Que!TryEmpty
  <2>13. CASE Que!Cleanup(t)
    BY <2>13, QueueCleanedUp
  <2>14. CASE Que!Cancel(t)
    BY <2>14, QueueMoves DEF Que!Cancel, QueuePlaces
  <2> QED  BY <1>2, <2>1, <2>2, <2>3, <2>4, <2>5, <2>6, <2>7, <2>8, <2>9, <2>10, <2>11, <2>12,
              <2>13, <2>14
<1> QED  BY <1>1, <1>2 DEF Que!Next

(* As long as trypop has unlocked no other thread's mutex, the queue is    *)
(* one: for any number of threads and elements.                            *)
LEMMA QueueAlways ==
  ASSUME Que!ThreadsNamed  PROVE  Que!Spec => []Que!QueueHolds
<1>1. Que!Init => QueueInv
  BY QueueBegins
<1>2. QueueInv /\ [Que!Next]_(Que!vars) => QueueInv'
  BY QueueKeeps
<1>3. QueueInv => Que!QueueHolds
  <2> SUFFICES ASSUME QueueInv, ~doubled
               PROVE  /\ \A t \in Threads : at[t] \in {"inside", "second try", "unlock"} => lock = t
                      /\ size = Len(items)
                      /\ \A n \in DOMAIN items : items[n] = taken + n
                      /\ taken + Len(items) = number
                      /\ items # <<>> => \A t \in Threads : at[t] # "asleep"
    BY DEF Que!QueueHolds
  <2>1. DOMAIN items = 1 .. Len(items)
    BY DEF QueueInv, QueueTyped
  <2> QED  BY <2>1 DEF QueueInv, Alone, Numbered
<1> QED  BY <1>1, <1>2, <1>3, PTL DEF Que!Spec

-----------------------------------------------------------------------------
(* The locks of the log library (Locks).                                   *)
LockPlaces ==
  {"idle", "lock", "first", "second", "copy", "copy second", "unlock", "done", "notify"}
LocksTyped ==
  /\ style \in {"mutexed", "waitlocked", "rwlocked"}
  /\ holders \in [exclusive : SUBSET (Users \cup {"waiter"}), shared : SUBSET Users]
  /\ words \in Nat \X Nat /\ sets \in Nat
  /\ does \in [Users -> Lck!Does] /\ phase \in [Users -> LockPlaces]
  /\ copy \in [Users -> Nat \X Nat]
  /\ waiter \in [at : {"idle", "test", "asleep", "awake"}, saw : Nat, expired : BOOLEAN]
  /\ waiter.at # "idle" => style = "waitlocked"

(* What a user does at a place it can be at. *)
Placed ==
  \A u \in Users : /\ phase[u] \in {"second", "notify"} => does[u] = "assign"
                   /\ phase[u] \in {"copy", "copy second"} => does[u] # "assign"

(* Who is between a lock and its unlock has the lock, and alone unless it  *)
(* shares it.                                                              *)
UnderLock(u) ==
  phase[u] \in {"first", "second", "unlock"} \/ (phase[u] = "copy second" /\ does[u] # "read")
HasLock(u) == IF Lck!Shares(u) THEN u \in holders.shared ELSE holders.exclusive = {u}
OneHolder ==
  /\ \A u \in Users : UnderLock(u) => HasLock(u)
  /\ waiter.at = "test" => holders.exclusive = {"waiter"}
  /\ holders.exclusive = {} \/ (holders.shared = {} /\ \E x : holders.exclusive = {x})

(* The words are equal but in the middle of an assignment, and so are the  *)
(* two that a reader under a lock has copied.                              *)
WordedAt(u) ==
  /\ does[u] = "assign" => copy[u][1] = copy[u][2]
  /\ phase[u] = "second" => words[1] = copy[u][1]
  /\ phase[u] = "copy second" /\ does[u] # "read" => copy[u][1] = words[1]
  /\ phase[u] \in {"unlock", "done"} /\ does[u] # "read" => copy[u][1] = copy[u][2]
Worded ==
  /\ \A u \in Users : WordedAt(u)
  /\ (\A u \in Users : phase[u] # "second") => words[1] = words[2]

(* Who sleeps on a value that has changed is about to be told. *)
Told ==
  waiter.at = "asleep" /\ words[1] # waiter.saw =>
    \E u \in Users : does[u] = "assign" /\ phase[u] \in {"second", "unlock", "notify"}

LocksInv == LocksTyped /\ Placed /\ OneHolder /\ Worded /\ Told

LEMMA LocksBegin ==
  ASSUME Lck!Init  PROVE  LocksInv
<1>1. LocksTyped
  BY DEF Lck!Init, LocksTyped, LockPlaces, Lck!Does
<1>2. Placed
  BY DEF Lck!Init, Placed
<1>3. OneHolder
  BY DEF Lck!Init, OneHolder, UnderLock
<1>4. Worded
  BY DEF Lck!Init, Worded, WordedAt
<1>5. Told
  BY DEF Lck!Init, Told
<1> QED  BY <1>1, <1>2, <1>3, <1>4, <1>5 DEF LocksInv

(* A step of a user, at a place it comes from and a place it goes to. *)
LEMMA LocksKeepTypes ==
  ASSUME LocksTyped, [Lck!Next]_(Lck!vars)
  PROVE  LocksTyped'
<1> USE DEF Lck!Go
<1>1. CASE UNCHANGED Lck!vars
  BY <1>1 DEF Lck!vars, LocksTyped
<1>2. ASSUME NEW u \in Users, Lck!Start(u)  PROVE  LocksTyped'
  <2>1. /\ UNCHANGED <<style, holders, words, waiter>>
        /\ phase' = [phase EXCEPT ![u] = "lock"]
    BY <1>2 DEF Lck!Start
  <2>2. PICK what \in Lck!Does :
          /\ does' = [does EXCEPT ![u] = what]
          /\ sets' = IF what = "assign" THEN sets + 1 ELSE sets
          /\ copy' = [copy EXCEPT ![u] = IF what = "assign" THEN <<sets', sets'>> ELSE <<0, 0>>]
    BY <1>2 DEF Lck!Start
  <2>3. sets' \in Nat
    BY <2>2 DEF LocksTyped
  <2>4. copy' \in [Users -> Nat \X Nat]
    BY <2>2, <2>3 DEF LocksTyped
  <2>5. does' \in [Users -> Lck!Does]
    BY <2>2 DEF LocksTyped
  <2>6. phase' \in [Users -> LockPlaces]
    BY <2>1 DEF LocksTyped, LockPlaces
  <2> QED  BY <2>1, <2>3, <2>4, <2>5, <2>6 DEF LocksTyped
<1>3. ASSUME NEW u \in Users, Lck!Acquire(u)  PROVE  LocksTyped'
  BY <1>3 DEF Lck!Acquire, Lck!Held, LocksTyped, LockPlaces
<1>4. ASSUME NEW u \in Users, Lck!TryFails(u) \/ Lck!Finish(u)  PROVE  LocksTyped'
  BY <1>4 DEF Lck!TryFails, Lck!Finish, LocksTyped, LockPlaces
<1>5. ASSUME NEW u \in Users, Lck!AssignFirst(u) \/ Lck!AssignSecond(u)  PROVE  LocksTyped'
  <2>1. words \in Nat \X Nat /\ copy[u] \in Nat \X Nat
    BY DEF LocksTyped
  <2>2. words' = <<copy[u][1], words[2]>> \/ words' = <<words[1], copy[u][2]>>
    BY <1>5 DEF Lck!AssignFirst, Lck!AssignSecond
  <2>3. words' \in Nat \X Nat
    BY <2>1, <2>2
  <2>4. phase' \in [Users -> LockPlaces]
    BY <1>5 DEF Lck!AssignFirst, Lck!AssignSecond, LocksTyped, LockPlaces
  <2>5. UNCHANGED <<style, holders, sets, does, copy, waiter>>
    BY <1>5 DEF Lck!AssignFirst, Lck!AssignSecond
  <2> QED  BY <2>3, <2>4, <2>5 DEF LocksTyped
<1>6. ASSUME NEW u \in Users, Lck!TakeReference(u) \/ Lck!Release(u)  PROVE  LocksTyped'
  <2>1. /\ holders' = Lck!Released(u)
        /\ UNCHANGED <<style, words, sets, does, copy, waiter>>
    BY <1>6 DEF Lck!TakeReference, Lck!Release
  <2>2. holders' \in [exclusive : SUBSET (Users \cup {"waiter"}), shared : SUBSET Users]
    BY <2>1 DEF Lck!Released, LocksTyped
  <2>3. phase' \in [Users -> LockPlaces]
    BY <1>6 DEF Lck!TakeReference, Lck!Release, LocksTyped, LockPlaces
  <2> QED  BY <2>1, <2>2, <2>3 DEF LocksTyped
<1>7. ASSUME NEW u \in Users, Lck!CopyFirst(u)  PROVE  LocksTyped'
  BY <1>7 DEF Lck!CopyFirst, LocksTyped, LockPlaces
<1>8. ASSUME NEW u \in Users, Lck!CopySecond(u)  PROVE  LocksTyped'
  BY <1>8 DEF Lck!CopySecond, LocksTyped, LockPlaces
<1>9. ASSUME NEW u \in Users, Lck!Notify(u)  PROVE  LocksTyped'
  BY <1>9 DEF Lck!Notify, LocksTyped, LockPlaces
<1>10. CASE Lck!WaiterLocks
  BY <1>10 DEF Lck!WaiterLocks, LocksTyped
<1>11. CASE Lck!WaiterSleeps
  BY <1>11 DEF Lck!WaiterSleeps, Lck!Released, LocksTyped
<1>12. CASE Lck!WaiterLeaves
  BY <1>12 DEF Lck!WaiterLeaves, Lck!Released, LocksTyped
<1>13. CASE Lck!WaiterTimesOut
  BY <1>13 DEF Lck!WaiterTimesOut, LocksTyped
<1> QED  BY <1>1, <1>2, <1>3, <1>4, <1>5, <1>6, <1>7, <1>8, <1>9, <1>10, <1>11, <1>12, <1>13
         DEF Lck!Next

(* A step of one user leaves the others where they are, with what they do  *)
(* and what they have copied.                                              *)
OthersStay(u) ==
  \A v \in Users \ {u} : (phase')[v] = phase[v] /\ (does')[v] = does[v] /\ (copy')[v] = copy[v]

(* The places a step of a user leads from and to. *)
Moves(u, from, to) == phase[u] = from /\ (phase')[u] = to

LEMMA LocksGo ==
  ASSUME LocksTyped, NEW u \in Users, NEW to, Lck!Go(u, to)
  PROVE  (phase')[u] = to /\ \A v \in Users \ {u} : (phase')[v] = phase[v]
  BY DEF LocksTyped, Lck!Go

LEMMA LocksCopy ==
  ASSUME LocksTyped, NEW u \in Users, NEW words2, copy' = [copy EXCEPT ![u] = words2]
  PROVE  (copy')[u] = words2 /\ \A v \in Users \ {u} : (copy')[v] = copy[v]
  BY DEF LocksTyped

(* What a step of each kind does, of what the invariant speaks of. *)
LEMMA StartDoes ==
  ASSUME LocksTyped, NEW u \in Users, Lck!Start(u)
  PROVE  /\ OthersStay(u) /\ Moves(u, "idle", "lock")
         /\ style' = style /\ holders' = holders /\ words' = words /\ waiter' = waiter
         /\ (does')[u] = "assign" => (copy')[u][1] = (copy')[u][2]
<1>1. /\ phase[u] = "idle" /\ Lck!Go(u, "lock")
      /\ style' = style /\ holders' = holders /\ words' = words /\ waiter' = waiter
  BY DEF Lck!Start
<1>2. PICK what, given : /\ does' = [does EXCEPT ![u] = what]
                         /\ copy' = [copy EXCEPT ![u] = given]
                         /\ what = "assign" => given = <<sets', sets'>>
  <2>1. PICK what : /\ does' = [does EXCEPT ![u] = what]
                    /\ copy' = [copy EXCEPT ![u] = IF what = "assign" THEN <<sets', sets'>>
                                                   ELSE <<0, 0>>]
    BY DEF Lck!Start
  <2>2. PICK given : given = IF what = "assign" THEN <<sets', sets'>> ELSE <<0, 0>>
    OBVIOUS
  <2>3. copy' = [copy EXCEPT ![u] = given] /\ (what = "assign" => given = <<sets', sets'>>)
    BY <2>1, <2>2
  <2> QED  BY <2>1, <2>3
<1>3. (copy')[u] = given /\ \A v \in Users \ {u} : (copy')[v] = copy[v]
  BY <1>2, LocksCopy
<1>4. (does')[u] = what /\ \A v \in Users \ {u} : (does')[v] = does[v]
  BY <1>2 DEF LocksTyped
<1>5. (phase')[u] = "lock" /\ \A v \in Users \ {u} : (phase')[v] = phase[v]
  BY <1>1, LocksGo
<1>6. (does')[u] = "assign" => (copy')[u][1] = (copy')[u][2]
  BY <1>2, <1>3, <1>4
<1> QED  BY <1>1, <1>3, <1>4, <1>5, <1>6 DEF OthersStay, Moves

LEMMA AcquireDoes ==
  ASSUME LocksTyped, NEW u \in Users, Lck!Acquire(u)
  PROVE  /\ OthersStay(u) /\ Moves(u, "lock", "first")
         /\ style' = style /\ does' = does /\ words' = words /\ waiter' = waiter /\ copy' = copy
         /\ Lck!MayLock(u) /\ holders' = Lck!Held(u)
<1>1. /\ phase[u] = "lock" /\ Lck!Go(u, "first")
      /\ style' = style /\ does' = does /\ words' = words /\ waiter' = waiter /\ copy' = copy
      /\ Lck!MayLock(u) /\ holders' = Lck!Held(u)
  BY DEF Lck!Acquire
<1>2. (phase')[u] = "first" /\ \A v \in Users \ {u} : (phase')[v] = phase[v]
  BY <1>1, LocksGo
<1> QED  BY <1>1, <1>2 DEF OthersStay, Moves

LEMMA TryFailsDoes ==
  ASSUME LocksTyped, NEW u \in Users, Lck!TryFails(u)
  PROVE  /\ OthersStay(u) /\ Moves(u, "lock", "idle")
         /\ style' = style /\ does' = does /\ holders' = holders /\ words' = words /\ waiter' = waiter /\ copy' = copy
<1>1. /\ phase[u] = "lock" /\ Lck!Go(u, "idle")
      /\ style' = style /\ does' = does /\ holders' = holders /\ words' = words /\ waiter' = waiter /\ copy' = copy
  BY DEF Lck!TryFails
<1>2. (phase')[u] = "idle" /\ \A v \in Users \ {u} : (phase')[v] = phase[v]
  BY <1>1, LocksGo
<1> QED  BY <1>1, <1>2 DEF OthersStay, Moves

LEMMA AssignFirstDoes ==
  ASSUME LocksTyped, NEW u \in Users, Lck!AssignFirst(u)
  PROVE  /\ OthersStay(u) /\ Moves(u, "first", "second")
         /\ style' = style /\ does' = does /\ holders' = holders /\ waiter' = waiter /\ copy' = copy
         /\ does[u] = "assign" /\ words' = <<copy[u][1], words[2]>>
<1>1. /\ phase[u] = "first" /\ Lck!Go(u, "second")
      /\ style' = style /\ does' = does /\ holders' = holders /\ waiter' = waiter /\ copy' = copy
      /\ does[u] = "assign" /\ words' = <<copy[u][1], words[2]>>
  BY DEF Lck!AssignFirst
<1>2. (phase')[u] = "second" /\ \A v \in Users \ {u} : (phase')[v] = phase[v]
  BY <1>1, LocksGo
<1> QED  BY <1>1, <1>2 DEF OthersStay, Moves

LEMMA AssignSecondDoes ==
  ASSUME LocksTyped, NEW u \in Users, Lck!AssignSecond(u)
  PROVE  /\ OthersStay(u) /\ Moves(u, "second", "unlock")
         /\ style' = style /\ does' = does /\ holders' = holders /\ waiter' = waiter /\ copy' = copy
         /\ does[u] = "assign" /\ words' = <<words[1], copy[u][2]>>
<1>1. /\ phase[u] = "second" /\ Lck!Go(u, "unlock")
      /\ style' = style /\ does' = does /\ holders' = holders /\ waiter' = waiter /\ copy' = copy
      /\ does[u] = "assign" /\ words' = <<words[1], copy[u][2]>>
  BY DEF Lck!AssignSecond
<1>2. (phase')[u] = "unlock" /\ \A v \in Users \ {u} : (phase')[v] = phase[v]
  BY <1>1, LocksGo
<1> QED  BY <1>1, <1>2 DEF OthersStay, Moves

LEMMA TakeReferenceDoes ==
  ASSUME LocksTyped, NEW u \in Users, Lck!TakeReference(u)
  PROVE  /\ OthersStay(u) /\ Moves(u, "first", "copy")
         /\ style' = style /\ does' = does /\ words' = words /\ waiter' = waiter /\ copy' = copy
         /\ does[u] = "read" /\ holders' = Lck!Released(u)
<1>1. /\ phase[u] = "first" /\ Lck!Go(u, "copy")
      /\ style' = style /\ does' = does /\ words' = words /\ waiter' = waiter /\ copy' = copy
      /\ does[u] = "read" /\ holders' = Lck!Released(u)
  BY DEF Lck!TakeReference, Lck!Outside
<1>2. (phase')[u] = "copy" /\ \A v \in Users \ {u} : (phase')[v] = phase[v]
  BY <1>1, LocksGo
<1> QED  BY <1>1, <1>2 DEF OthersStay, Moves

LEMMA CopyFirstDoes ==
  ASSUME LocksTyped, NEW u \in Users, Lck!CopyFirst(u)
  PROVE  /\ OthersStay(u) /\ Moves(u, IF does[u] = "read" THEN "copy" ELSE "first", "copy second")
         /\ style' = style /\ does' = does /\ holders' = holders /\ words' = words /\ waiter' = waiter
         /\ does[u] # "assign"
         /\ (copy')[u][1] = words[1]
<1>1. /\ phase[u] = (IF does[u] = "read" THEN "copy" ELSE "first") /\ Lck!Go(u, "copy second")
      /\ style' = style /\ does' = does /\ holders' = holders /\ words' = words /\ waiter' = waiter
      /\ does[u] # "assign"
      /\ copy' = [copy EXCEPT ![u] = <<words[1], 0>>]
  BY DEF Lck!CopyFirst, Lck!Outside
<1>2. (phase')[u] = "copy second" /\ \A v \in Users \ {u} : (phase')[v] = phase[v]
  BY <1>1, LocksGo
<1>3. (copy')[u] = <<words[1], 0>> /\ \A v \in Users \ {u} : (copy')[v] = copy[v]
  BY <1>1, LocksCopy
<1>4. (copy')[u][1] = words[1]
  BY <1>3
<1> QED  BY <1>1, <1>2, <1>3, <1>4 DEF OthersStay, Moves

LEMMA CopySecondDoes ==
  ASSUME LocksTyped, NEW u \in Users, Lck!CopySecond(u)
  PROVE  /\ OthersStay(u) /\ Moves(u, "copy second", IF does[u] = "read" THEN "done" ELSE "unlock")
         /\ style' = style /\ does' = does /\ holders' = holders /\ words' = words /\ waiter' = waiter
         /\ (copy')[u][1] = copy[u][1] /\ (copy')[u][2] = words[2]
<1>1. /\ phase[u] = "copy second" /\ Lck!Go(u, IF does[u] = "read" THEN "done" ELSE "unlock")
      /\ style' = style /\ does' = does /\ holders' = holders /\ words' = words /\ waiter' = waiter
      /\ copy' = [copy EXCEPT ![u] = <<copy[u][1], words[2]>>]
  BY DEF Lck!CopySecond, Lck!Outside, LocksTyped
<1>2. (phase')[u] = (IF does[u] = "read" THEN "done" ELSE "unlock") /\ \A v \in Users \ {u} : (phase')[v] = phase[v]
  BY <1>1, LocksGo
<1>3. (copy')[u] = <<copy[u][1], words[2]>> /\ \A v \in Users \ {u} : (copy')[v] = copy[v]
  BY <1>1, LocksCopy
<1>4. (copy')[u][1] = copy[u][1] /\ (copy')[u][2] = words[2]
  BY <1>3
<1>5. \A v \in Users \ {u} : (copy')[v] = copy[v]
  BY <1>3
<1> QED  BY <1>1, <1>2, <1>4, <1>5 DEF OthersStay, Moves

LEMMA ReleaseDoes ==
  ASSUME LocksTyped, NEW u \in Users, Lck!Release(u)
  PROVE  /\ OthersStay(u) /\ Moves(u, "unlock", IF does[u] # "assign" THEN "done"
                                 ELSE IF style = "waitlocked" THEN "notify" ELSE "idle")
         /\ style' = style /\ does' = does /\ words' = words /\ waiter' = waiter /\ copy' = copy
         /\ holders' = Lck!Released(u)
<1>1. /\ phase[u] = "unlock" /\ Lck!Go(u, IF does[u] # "assign" THEN "done"
                                 ELSE IF style = "waitlocked" THEN "notify" ELSE "idle")
      /\ style' = style /\ does' = does /\ words' = words /\ waiter' = waiter /\ copy' = copy
      /\ holders' = Lck!Released(u)
  BY DEF Lck!Release
<1>2. (phase')[u] = (IF does[u] # "assign" THEN "done"
                                 ELSE IF style = "waitlocked" THEN "notify" ELSE "idle") /\ \A v \in Users \ {u} : (phase')[v] = phase[v]
  BY <1>1, LocksGo
<1> QED  BY <1>1, <1>2 DEF OthersStay, Moves

LEMMA FinishDoes ==
  ASSUME LocksTyped, NEW u \in Users, Lck!Finish(u)
  PROVE  /\ OthersStay(u) /\ Moves(u, "done", "idle")
         /\ style' = style /\ does' = does /\ holders' = holders /\ words' = words /\ waiter' = waiter /\ copy' = copy
<1>1. /\ phase[u] = "done" /\ Lck!Go(u, "idle")
      /\ style' = style /\ does' = does /\ holders' = holders /\ words' = words /\ waiter' = waiter /\ copy' = copy
  BY DEF Lck!Finish
<1>2. (phase')[u] = "idle" /\ \A v \in Users \ {u} : (phase')[v] = phase[v]
  BY <1>1, LocksGo
<1> QED  BY <1>1, <1>2 DEF OthersStay, Moves

LEMMA NotifyDoes ==
  ASSUME LocksTyped, NEW u \in Users, Lck!Notify(u)
  PROVE  /\ OthersStay(u) /\ Moves(u, "notify", "idle")
         /\ style' = style /\ does' = does /\ holders' = holders /\ words' = words /\ copy' = copy
         /\ waiter' = IF waiter.at = "asleep" THEN [waiter EXCEPT !.at = "awake"] ELSE waiter
<1>1. /\ phase[u] = "notify" /\ Lck!Go(u, "idle")
      /\ style' = style /\ does' = does /\ holders' = holders /\ words' = words /\ copy' = copy
      /\ waiter' = IF waiter.at = "asleep" THEN [waiter EXCEPT !.at = "awake"] ELSE waiter
  BY DEF Lck!Notify
<1>2. (phase')[u] = "idle" /\ \A v \in Users \ {u} : (phase')[v] = phase[v]
  BY <1>1, LocksGo
<1> QED  BY <1>1, <1>2 DEF OthersStay, Moves

LEMMA LocksKeepPlaces ==
  ASSUME LocksTyped, Placed, [Lck!Next]_(Lck!vars)
  PROVE  Placed'
<1>1. CASE UNCHANGED Lck!vars
  BY <1>1 DEF Lck!vars, Placed
<1>2. ASSUME NEW u \in Users, Lck!Start(u)  PROVE  Placed'
  BY <1>2, StartDoes DEF OthersStay, Moves, Placed
<1>3. ASSUME NEW u \in Users, Lck!Acquire(u)  PROVE  Placed'
  BY <1>3, AcquireDoes DEF OthersStay, Moves, Placed
<1>4. ASSUME NEW u \in Users, Lck!TryFails(u)  PROVE  Placed'
  BY <1>4, TryFailsDoes DEF OthersStay, Moves, Placed
<1>5. ASSUME NEW u \in Users, Lck!AssignFirst(u)  PROVE  Placed'
  BY <1>5, AssignFirstDoes DEF OthersStay, Moves, Placed
<1>6. ASSUME NEW u \in Users, Lck!AssignSecond(u)  PROVE  Placed'
  BY <1>6, AssignSecondDoes DEF OthersStay, Moves, Placed
<1>7. ASSUME NEW u \in Users, Lck!TakeReference(u)  PROVE  Placed'
  BY <1>7, TakeReferenceDoes DEF OthersStay, Moves, Placed
<1>8. ASSUME NEW u \in Users, Lck!CopyFirst(u)  PROVE  Placed'
  BY <1>8, CopyFirstDoes DEF OthersStay, Moves, Placed
<1>9. ASSUME NEW u \in Users, Lck!CopySecond(u)  PROVE  Placed'
  BY <1>9, CopySecondDoes DEF OthersStay, Moves, Placed
<1>10. ASSUME NEW u \in Users, Lck!Release(u)  PROVE  Placed'
  BY <1>10, ReleaseDoes DEF OthersStay, Moves, Placed
<1>11. ASSUME NEW u \in Users, Lck!Finish(u)  PROVE  Placed'
  BY <1>11, FinishDoes DEF OthersStay, Moves, Placed
<1>12. ASSUME NEW u \in Users, Lck!Notify(u)  PROVE  Placed'
  BY <1>12, NotifyDoes DEF OthersStay, Moves, Placed
<1>13. CASE Lck!WaiterLocks
  BY <1>13 DEF Lck!WaiterLocks, Placed
<1>14. CASE Lck!WaiterSleeps
  BY <1>14 DEF Lck!WaiterSleeps, Placed
<1>15. CASE Lck!WaiterLeaves
  BY <1>15 DEF Lck!WaiterLeaves, Placed
<1>16. CASE Lck!WaiterTimesOut
  BY <1>16 DEF Lck!WaiterTimesOut, Placed
<1> QED  BY <1>1, <1>2, <1>3, <1>4, <1>5, <1>6, <1>7, <1>8, <1>9, <1>10, <1>11, <1>12, <1>13, <1>14, <1>15, <1>16
         DEF Lck!Next

(* Who has the lock, when no step of it is a lock or an unlock. *)
LEMMA HolderMoves ==
  ASSUME OneHolder, style' = style, holders' = holders,
         (waiter').at = "test" => waiter.at = "test",
         \A v \in Users : UnderLock(v)' => UnderLock(v) /\ (does')[v] = does[v]
  PROVE  OneHolder'
<1>1. ASSUME NEW v \in Users, UnderLock(v)'  PROVE  HasLock(v)'
  <2>1. HasLock(v) /\ (does')[v] = does[v]
    BY <1>1 DEF OneHolder
  <2> QED  BY <2>1 DEF HasLock, Lck!Shares
<1>2. (waiter').at = "test" => holders.exclusive = {"waiter"}
  BY DEF OneHolder
<1>3. holders.exclusive = {} \/ (holders.shared = {} /\ \E x : holders.exclusive = {x})
  BY DEF OneHolder
<1> QED  BY <1>1, <1>2, <1>3 DEF OneHolder

(* An unlock by x, who was in it: the others keep what they had. *)
LEMMA HolderReleases ==
  ASSUME LocksTyped, OneHolder, NEW x, style' = style, holders' = Lck!Released(x),
         (waiter').at = "test" => waiter.at = "test" /\ x # "waiter",
         \A v \in Users : UnderLock(v)' => UnderLock(v) /\ (does')[v] = does[v] /\ v # x
  PROVE  OneHolder'
<1>1. holders.exclusive \ {x} = (holders').exclusive /\ holders.shared \ {x} = (holders').shared
  BY DEF Lck!Released
<1>2. ASSUME NEW v \in Users, UnderLock(v)'  PROVE  HasLock(v)'
  <2>1. HasLock(v) /\ (does')[v] = does[v] /\ v # x
    BY <1>2 DEF OneHolder
  <2>2. CASE Lck!Shares(v)
    <3>1. v \in holders.shared /\ Lck!Shares(v)'
      BY <2>1, <2>2 DEF HasLock, Lck!Shares
    <3>2. v \in (holders').shared
      BY <1>1, <2>1, <3>1
    <3> QED  BY <3>1, <3>2 DEF HasLock
  <2>3. CASE ~Lck!Shares(v)
    <3>1. holders.exclusive = {v} /\ ~Lck!Shares(v)'
      BY <2>1, <2>3 DEF HasLock, Lck!Shares
    <3>2. (holders').exclusive = {v}
      BY <1>1, <2>1, <3>1
    <3> QED  BY <3>1, <3>2 DEF HasLock
  <2> QED  BY <2>2, <2>3
<1>3. ASSUME (waiter').at = "test"  PROVE  (holders').exclusive = {"waiter"}
  <2>1. holders.exclusive = {"waiter"} /\ x # "waiter"
    BY <1>3 DEF OneHolder
  <2> QED  BY <1>1, <2>1
<1>4. (holders').exclusive = {} \/ ((holders').shared = {} /\ \E y : (holders').exclusive = {y})
  <2>1. CASE holders.exclusive = {}
    BY <1>1, <2>1
  <2>2. CASE holders.shared = {} /\ \E y : holders.exclusive = {y}
    <3>1. PICK y : holders.exclusive = {y}
      BY <2>2
    <3> QED  BY <1>1, <2>2, <3>1
  <2> QED  BY <2>1, <2>2 DEF OneHolder
<1> QED  BY <1>2, <1>3, <1>4 DEF OneHolder

(* A lock: nobody is under the lock that it would exclude. *)
LEMMA HolderAcquires ==
  ASSUME Lck!UsersNamed, LocksTyped, OneHolder, NEW u \in Users, Lck!Acquire(u)
  PROVE  OneHolder'
<1>1. /\ OthersStay(u) /\ Moves(u, "lock", "first")
      /\ style' = style /\ does' = does /\ waiter' = waiter
      /\ Lck!MayLock(u) /\ holders' = Lck!Held(u)
  BY AcquireDoes
<1>2. CASE Lck!Shares(u)
  <2>1. holders.exclusive = {}
    BY <1>1, <1>2 DEF Lck!MayLock
  <2>2. (holders').exclusive = {} /\ (holders').shared = holders.shared \cup {u}
    BY <1>1, <1>2, <2>1 DEF Lck!Held, LocksTyped
  <2>3. ASSUME NEW v \in Users, UnderLock(v)'  PROVE  HasLock(v)'
    <3>1. CASE v = u
      <4>1. Lck!Shares(u)'
        BY <1>1, <1>2 DEF Lck!Shares
      <4> QED  BY <2>2, <3>1, <4>1 DEF HasLock
    <3>2. CASE v # u
      <4>1. UnderLock(v)
        BY <1>1, <2>3, <3>2 DEF UnderLock, OthersStay
      <4>2. HasLock(v)
        BY <4>1 DEF OneHolder
      <4>3. Lck!Shares(v) /\ v \in holders.shared
        BY <2>1, <4>2 DEF HasLock
      <4>4. Lck!Shares(v)'
        BY <1>1, <4>3 DEF Lck!Shares
      <4> QED  BY <2>2, <4>3, <4>4 DEF HasLock
    <3> QED  BY <3>1, <3>2
  <2>4. waiter.at # "test"
    BY <2>1 DEF OneHolder
  <2> QED  BY <1>1, <2>2, <2>3, <2>4 DEF OneHolder
<1>3. CASE ~Lck!Shares(u)
  <2>1. holders.exclusive = {} /\ holders.shared = {}
    BY <1>1, <1>3 DEF Lck!MayLock, Lck!Free
  <2>2. (holders').exclusive = {u} /\ (holders').shared = {}
    BY <1>1, <1>3, <2>1 DEF Lck!Held, LocksTyped
  <2>3. ASSUME NEW v \in Users, UnderLock(v)'  PROVE  HasLock(v)'
    <3>1. CASE v = u
      <4>1. ~Lck!Shares(u)'
        BY <1>1, <1>3 DEF Lck!Shares
      <4> QED  BY <2>2, <3>1, <4>1 DEF HasLock
    <3>2. CASE v # u
      <4>1. UnderLock(v)
        BY <1>1, <2>3, <3>2 DEF UnderLock, OthersStay
      <4>2. HasLock(v)
        BY <4>1 DEF OneHolder
      <4> QED  BY <2>1, <4>2 DEF HasLock
    <3> QED  BY <3>1, <3>2
  <2>4. waiter.at # "test"
    BY <2>1 DEF OneHolder
  <2> QED  BY <1>1, <2>2, <2>3, <2>4 DEF OneHolder
<1> QED  BY <1>2, <1>3

LEMMA LocksKeepHolder ==
  ASSUME Lck!UsersNamed, LocksTyped, Placed, OneHolder, [Lck!Next]_(Lck!vars)
  PROVE  OneHolder'
<1>1. CASE UNCHANGED Lck!vars
  <2>1. /\ style' = style /\ holders' = holders /\ waiter' = waiter /\ phase' = phase
        /\ does' = does
    BY <1>1 DEF Lck!vars
  <2> QED  BY <2>1, HolderMoves DEF UnderLock
<1>2. ASSUME NEW u \in Users, Lck!Start(u)  PROVE  OneHolder'
  <2>1. OthersStay(u) /\ style' = style /\ holders' = holders
    BY <1>2, StartDoes
  <2>2. (waiter').at = "test" => waiter.at = "test"
    BY <1>2, StartDoes
  <2>3. UnderLock(u)' => UnderLock(u) /\ (does')[u] = does[u]
    BY <1>2, StartDoes DEF Moves, UnderLock
  <2>4. \A v \in Users : UnderLock(v)' => UnderLock(v) /\ (does')[v] = does[v]
    BY <2>1, <2>3 DEF OthersStay, UnderLock
  <2> QED  BY <2>1, <2>2, <2>4, HolderMoves
<1>3. ASSUME NEW u \in Users, Lck!Acquire(u)  PROVE  OneHolder'
  BY <1>3, HolderAcquires
<1>4. ASSUME NEW u \in Users, Lck!TryFails(u)  PROVE  OneHolder'
  <2>1. OthersStay(u) /\ style' = style /\ holders' = holders
    BY <1>4, TryFailsDoes
  <2>2. (waiter').at = "test" => waiter.at = "test"
    BY <1>4, TryFailsDoes
  <2>3. UnderLock(u)' => UnderLock(u) /\ (does')[u] = does[u]
    BY <1>4, TryFailsDoes DEF Moves, UnderLock
  <2>4. \A v \in Users : UnderLock(v)' => UnderLock(v) /\ (does')[v] = does[v]
    BY <2>1, <2>3 DEF OthersStay, UnderLock
  <2> QED  BY <2>1, <2>2, <2>4, HolderMoves
<1>5. ASSUME NEW u \in Users, Lck!AssignFirst(u)  PROVE  OneHolder'
  <2>1. OthersStay(u) /\ style' = style /\ holders' = holders
    BY <1>5, AssignFirstDoes
  <2>2. (waiter').at = "test" => waiter.at = "test"
    BY <1>5, AssignFirstDoes
  <2>3. UnderLock(u)' => UnderLock(u) /\ (does')[u] = does[u]
    BY <1>5, AssignFirstDoes DEF Moves, UnderLock
  <2>4. \A v \in Users : UnderLock(v)' => UnderLock(v) /\ (does')[v] = does[v]
    BY <2>1, <2>3 DEF OthersStay, UnderLock
  <2> QED  BY <2>1, <2>2, <2>4, HolderMoves
<1>6. ASSUME NEW u \in Users, Lck!AssignSecond(u)  PROVE  OneHolder'
  <2>1. OthersStay(u) /\ style' = style /\ holders' = holders
    BY <1>6, AssignSecondDoes
  <2>2. (waiter').at = "test" => waiter.at = "test"
    BY <1>6, AssignSecondDoes
  <2>3. UnderLock(u)' => UnderLock(u) /\ (does')[u] = does[u]
    BY <1>6, AssignSecondDoes DEF Moves, UnderLock
  <2>4. \A v \in Users : UnderLock(v)' => UnderLock(v) /\ (does')[v] = does[v]
    BY <2>1, <2>3 DEF OthersStay, UnderLock
  <2> QED  BY <2>1, <2>2, <2>4, HolderMoves
<1>7. ASSUME NEW u \in Users, Lck!TakeReference(u)  PROVE  OneHolder'
  <2>1. /\ OthersStay(u) /\ phase[u] # (phase')[u] /\ (phase')[u] \notin {"first", "second", "unlock"}
        /\ ((phase')[u] = "copy second" => does[u] = "read")
        /\ style' = style /\ does' = does /\ waiter' = waiter /\ holders' = Lck!Released(u)
    BY <1>7, TakeReferenceDoes DEF Moves
  <2>2. \A v \in Users : UnderLock(v)' => UnderLock(v) /\ (does')[v] = does[v] /\ v # u
    BY <2>1 DEF OthersStay, UnderLock
  <2>3. u # "waiter"
    BY DEF Lck!UsersNamed
  <2> QED  BY <2>1, <2>2, <2>3, HolderReleases
<1>8. ASSUME NEW u \in Users, Lck!CopyFirst(u)  PROVE  OneHolder'
  <2>1. OthersStay(u) /\ style' = style /\ holders' = holders
    BY <1>8, CopyFirstDoes
  <2>2. (waiter').at = "test" => waiter.at = "test"
    BY <1>8, CopyFirstDoes
  <2>3. UnderLock(u)' => UnderLock(u) /\ (does')[u] = does[u]
    BY <1>8, CopyFirstDoes DEF Moves, UnderLock
  <2>4. \A v \in Users : UnderLock(v)' => UnderLock(v) /\ (does')[v] = does[v]
    BY <2>1, <2>3 DEF OthersStay, UnderLock
  <2> QED  BY <2>1, <2>2, <2>4, HolderMoves
<1>9. ASSUME NEW u \in Users, Lck!CopySecond(u)  PROVE  OneHolder'
  <2>1. OthersStay(u) /\ style' = style /\ holders' = holders
    BY <1>9, CopySecondDoes
  <2>2. (waiter').at = "test" => waiter.at = "test"
    BY <1>9, CopySecondDoes
  <2>3. UnderLock(u)' => UnderLock(u) /\ (does')[u] = does[u]
    BY <1>9, CopySecondDoes DEF Moves, UnderLock
  <2>4. \A v \in Users : UnderLock(v)' => UnderLock(v) /\ (does')[v] = does[v]
    BY <2>1, <2>3 DEF OthersStay, UnderLock
  <2> QED  BY <2>1, <2>2, <2>4, HolderMoves
<1>10. ASSUME NEW u \in Users, Lck!Release(u)  PROVE  OneHolder'
  <2>1. /\ OthersStay(u) /\ phase[u] # (phase')[u] /\ (phase')[u] \notin {"first", "second", "unlock"}
        /\ ((phase')[u] = "copy second" => does[u] = "read")
        /\ style' = style /\ does' = does /\ waiter' = waiter /\ holders' = Lck!Released(u)
    BY <1>10, ReleaseDoes DEF Moves
  <2>2. \A v \in Users : UnderLock(v)' => UnderLock(v) /\ (does')[v] = does[v] /\ v # u
    BY <2>1 DEF OthersStay, UnderLock
  <2>3. u # "waiter"
    BY DEF Lck!UsersNamed
  <2> QED  BY <2>1, <2>2, <2>3, HolderReleases
<1>11. ASSUME NEW u \in Users, Lck!Finish(u)  PROVE  OneHolder'
  <2>1. OthersStay(u) /\ style' = style /\ holders' = holders
    BY <1>11, FinishDoes
  <2>2. (waiter').at = "test" => waiter.at = "test"
    BY <1>11, FinishDoes
  <2>3. UnderLock(u)' => UnderLock(u) /\ (does')[u] = does[u]
    BY <1>11, FinishDoes DEF Moves, UnderLock
  <2>4. \A v \in Users : UnderLock(v)' => UnderLock(v) /\ (does')[v] = does[v]
    BY <2>1, <2>3 DEF OthersStay, UnderLock
  <2> QED  BY <2>1, <2>2, <2>4, HolderMoves
<1>12. ASSUME NEW u \in Users, Lck!Notify(u)  PROVE  OneHolder'
  <2>1. OthersStay(u) /\ style' = style /\ holders' = holders
    BY <1>12, NotifyDoes
  <2>2. (waiter').at = "test" => waiter.at = "test"
    BY <1>12, NotifyDoes DEF LocksTyped
  <2>3. UnderLock(u)' => UnderLock(u) /\ (does')[u] = does[u]
    BY <1>12, NotifyDoes DEF Moves, UnderLock
  <2>4. \A v \in Users : UnderLock(v)' => UnderLock(v) /\ (does')[v] = does[v]
    BY <2>1, <2>3 DEF OthersStay, UnderLock
  <2> QED  BY <2>1, <2>2, <2>4, HolderMoves
<1>13. CASE Lck!WaiterLocks
  <2>1. /\ holders.exclusive = {} /\ holders.shared = {} /\ style' = style /\ does' = does
        /\ phase' = phase /\ holders' = [holders EXCEPT !.exclusive = {"waiter"}]
    BY <1>13 DEF Lck!WaiterLocks, Lck!Free
  <2>2. (holders').exclusive = {"waiter"} /\ (holders').shared = {}
    BY <2>1 DEF LocksTyped
  <2>3. ASSUME NEW v \in Users  PROVE  ~UnderLock(v)'
    <3>1. ~UnderLock(v)
      BY <2>1 DEF OneHolder, HasLock
    <3> QED  BY <2>1, <3>1 DEF UnderLock
  <2> QED  BY <2>2, <2>3 DEF OneHolder
<1>14. CASE Lck!WaiterSleeps
  <2>1. /\ style' = style /\ does' = does /\ phase' = phase /\ holders' = Lck!Released("waiter")
        /\ (waiter').at # "test"
    BY <1>14 DEF Lck!WaiterSleeps, LocksTyped
  <2>2. \A v \in Users : UnderLock(v)' => UnderLock(v) /\ (does')[v] = does[v] /\ v # "waiter"
    BY <2>1 DEF UnderLock, Lck!UsersNamed
  <2> QED  BY <2>1, <2>2, HolderReleases
<1>15. CASE Lck!WaiterLeaves
  <2>1. /\ style' = style /\ does' = does /\ phase' = phase /\ holders' = Lck!Released("waiter")
        /\ (waiter').at # "test"
    BY <1>15 DEF Lck!WaiterLeaves, LocksTyped
  <2>2. \A v \in Users : UnderLock(v)' => UnderLock(v) /\ (does')[v] = does[v] /\ v # "waiter"
    BY <2>1 DEF UnderLock, Lck!UsersNamed
  <2> QED  BY <2>1, <2>2, HolderReleases
<1>16. CASE Lck!WaiterTimesOut
  <2>1. /\ style' = style /\ does' = does /\ phase' = phase /\ holders' = holders
        /\ (waiter').at # "test"
    BY <1>16 DEF Lck!WaiterTimesOut, LocksTyped
  <2>2. \A v \in Users : UnderLock(v)' => UnderLock(v) /\ (does')[v] = does[v]
    BY <2>1 DEF UnderLock
  <2> QED  BY <2>1, <2>2, HolderMoves
<1> QED  BY <1>1, <1>2, <1>3, <1>4, <1>5, <1>6, <1>7, <1>8, <1>9, <1>10, <1>11, <1>12, <1>13, <1>14, <1>15, <1>16
         DEF Lck!Next

(* Two are under a lock together only to read. *)
LEMMA TogetherToRead ==
  ASSUME OneHolder, NEW u \in Users, NEW v \in Users, u # v, UnderLock(u), UnderLock(v)
  PROVE  does[u] # "assign" /\ does[v] # "assign"
  BY DEF OneHolder, HasLock, Lck!Shares

(* A step of u that leaves the words alone: only u has to be looked at. *)
LEMMA WordedMoves ==
  ASSUME Worded, NEW u \in Users, OthersStay(u), words' = words,
         phase[u] # "second", (phase')[u] # "second", WordedAt(u)'
  PROVE  Worded'
<1>1. ASSUME NEW v \in Users  PROVE  WordedAt(v)'
  <2>1. CASE v = u
    BY <2>1
  <2>2. CASE v # u
    BY <2>2 DEF OthersStay, WordedAt, Worded
  <2> QED  BY <2>1, <2>2
<1>2. ASSUME \A v \in Users : (phase')[v] # "second"  PROVE  words[1] = words[2]
  <2>1. \A v \in Users : phase[v] # "second"
    BY <1>2 DEF OthersStay
  <2> QED  BY <2>1 DEF Worded
<1> QED  BY <1>1, <1>2 DEF Worded

(* An assignment: whoever else has copied a word had no lock. *)
LEMMA WordedAssigns ==
  ASSUME LocksTyped, Placed, OneHolder, Worded, NEW u \in Users, OthersStay(u), UnderLock(u),
         does[u] = "assign", NEW v \in Users \ {u}
  PROVE  WordedAt(v)' /\ (phase')[v] # "second"
<1>1. phase[v] # "second"
  BY TogetherToRead DEF Placed, UnderLock
<1>2. ~(phase[v] = "copy second" /\ does[v] # "read")
  BY TogetherToRead DEF UnderLock
<1>3. WordedAt(v)
  BY DEF Worded
<1> QED  BY <1>1, <1>2, <1>3 DEF OthersStay, WordedAt

LEMMA LocksKeepWords ==
  ASSUME LocksTyped, Placed, OneHolder, Worded, [Lck!Next]_(Lck!vars)
  PROVE  Worded'
<1>1. CASE UNCHANGED Lck!vars
  BY <1>1 DEF Lck!vars, Worded, WordedAt
<1>2. ASSUME NEW u \in Users, Lck!Start(u)  PROVE  Worded'
  <2>1. OthersStay(u) /\ words' = words /\ phase[u] # "second" /\ (phase')[u] # "second"
    BY <1>2, StartDoes DEF Moves
  <2>2. WordedAt(u)
    BY DEF Worded
  <2>3. WordedAt(u)'
    BY <1>2, <2>2, StartDoes DEF Moves, WordedAt
  <2> QED  BY <2>1, <2>3, WordedMoves
<1>3. ASSUME NEW u \in Users, Lck!Acquire(u)  PROVE  Worded'
  <2>1. OthersStay(u) /\ words' = words /\ phase[u] # "second" /\ (phase')[u] # "second"
    BY <1>3, AcquireDoes DEF Moves
  <2>2. WordedAt(u)
    BY DEF Worded
  <2>3. WordedAt(u)'
    BY <1>3, <2>2, AcquireDoes DEF Moves, WordedAt
  <2> QED  BY <2>1, <2>3, WordedMoves
<1>4. ASSUME NEW u \in Users, Lck!TryFails(u)  PROVE  Worded'
  <2>1. OthersStay(u) /\ words' = words /\ phase[u] # "second" /\ (phase')[u] # "second"
    BY <1>4, TryFailsDoes DEF Moves
  <2>2. WordedAt(u)
    BY DEF Worded
  <2>3. WordedAt(u)'
    BY <1>4, <2>2, TryFailsDoes DEF Moves, WordedAt
  <2> QED  BY <2>1, <2>3, WordedMoves
<1>5. ASSUME NEW u \in Users, Lck!AssignFirst(u)  PROVE  Worded'
  <2>1. /\ OthersStay(u) /\ phase[u] = "first" /\ (phase')[u] = "second" /\ does' = does
        /\ copy' = copy /\ does[u] = "assign" /\ words' = <<copy[u][1], words[2]>>
    BY <1>5, AssignFirstDoes DEF Moves
  <2>2. WordedAt(u)
    BY DEF Worded
  <2>3. \A v \in Users \ {u} : WordedAt(v)' /\ (phase')[v] # "second"
    BY <2>1, WordedAssigns DEF UnderLock
  <2>4. WordedAt(u)'
    BY <2>1, <2>2 DEF WordedAt
  <2> QED  BY <2>1, <2>3, <2>4 DEF Worded
<1>6. ASSUME NEW u \in Users, Lck!AssignSecond(u)  PROVE  Worded'
  <2>1. /\ OthersStay(u) /\ phase[u] = "second" /\ (phase')[u] = "unlock" /\ does' = does
        /\ copy' = copy /\ does[u] = "assign" /\ words' = <<words[1], copy[u][2]>>
    BY <1>6, AssignSecondDoes DEF Moves
  <2>2. WordedAt(u)
    BY DEF Worded
  <2>3. \A v \in Users \ {u} : WordedAt(v)' /\ (phase')[v] # "second"
    BY <2>1, WordedAssigns DEF UnderLock
  <2>4. words[1] = copy[u][1] /\ copy[u][1] = copy[u][2]
    BY <2>1, <2>2 DEF WordedAt
  <2>5. WordedAt(u)' /\ (words')[1] = (words')[2]
    BY <2>1, <2>4 DEF WordedAt
  <2> QED  BY <2>3, <2>5 DEF Worded
<1>7. ASSUME NEW u \in Users, Lck!TakeReference(u)  PROVE  Worded'
  <2>1. OthersStay(u) /\ words' = words /\ phase[u] # "second" /\ (phase')[u] # "second"
    BY <1>7, TakeReferenceDoes DEF Moves
  <2>2. WordedAt(u)
    BY DEF Worded
  <2>3. WordedAt(u)'
    BY <1>7, <2>2, TakeReferenceDoes DEF Moves, WordedAt
  <2> QED  BY <2>1, <2>3, WordedMoves
<1>8. ASSUME NEW u \in Users, Lck!CopyFirst(u)  PROVE  Worded'
  <2>1. OthersStay(u) /\ words' = words /\ phase[u] # "second" /\ (phase')[u] # "second"
    BY <1>8, CopyFirstDoes DEF Moves
  <2>2. WordedAt(u)
    BY DEF Worded
  <2>3. WordedAt(u)'
    BY <1>8, <2>2, CopyFirstDoes DEF Moves, WordedAt
  <2> QED  BY <2>1, <2>3, WordedMoves
<1>9. ASSUME NEW u \in Users, Lck!CopySecond(u)  PROVE  Worded'
  <2>1. OthersStay(u) /\ words' = words /\ phase[u] # "second" /\ (phase')[u] # "second"
    BY <1>9, CopySecondDoes DEF Moves
  <2>2. /\ phase[u] = "copy second" /\ does' = does /\ does[u] # "assign"
        /\ (phase')[u] = (IF does[u] = "read" THEN "done" ELSE "unlock")
        /\ (copy')[u][1] = copy[u][1] /\ (copy')[u][2] = words[2]
    BY <1>9, CopySecondDoes DEF Moves, Placed
  <2>3. ASSUME does[u] # "read"  PROVE  copy[u][1] = words[2]
    <3>1. UnderLock(u)
      BY <2>2, <2>3 DEF UnderLock
    <3>2. ASSUME NEW v \in Users  PROVE  phase[v] # "second"
      BY <2>1, <3>1, TogetherToRead DEF Placed, UnderLock
    <3>3. words[1] = words[2] /\ copy[u][1] = words[1]
      BY <2>2, <2>3, <3>2 DEF Worded, WordedAt
    <3> QED  BY <3>3
  <2>4. WordedAt(u)'
    BY <2>2, <2>3 DEF WordedAt
  <2> QED  BY <2>1, <2>4, WordedMoves
<1>10. ASSUME NEW u \in Users, Lck!Release(u)  PROVE  Worded'
  <2>1. OthersStay(u) /\ words' = words /\ phase[u] # "second" /\ (phase')[u] # "second"
    BY <1>10, ReleaseDoes DEF Moves
  <2>2. WordedAt(u)
    BY DEF Worded
  <2>3. WordedAt(u)'
    BY <1>10, <2>2, ReleaseDoes DEF Moves, WordedAt
  <2> QED  BY <2>1, <2>3, WordedMoves
<1>11. ASSUME NEW u \in Users, Lck!Finish(u)  PROVE  Worded'
  <2>1. OthersStay(u) /\ words' = words /\ phase[u] # "second" /\ (phase')[u] # "second"
    BY <1>11, FinishDoes DEF Moves
  <2>2. WordedAt(u)
    BY DEF Worded
  <2>3. WordedAt(u)'
    BY <1>11, <2>2, FinishDoes DEF Moves, WordedAt
  <2> QED  BY <2>1, <2>3, WordedMoves
<1>12. ASSUME NEW u \in Users, Lck!Notify(u)  PROVE  Worded'
  <2>1. OthersStay(u) /\ words' = words /\ phase[u] # "second" /\ (phase')[u] # "second"
    BY <1>12, NotifyDoes DEF Moves
  <2>2. WordedAt(u)
    BY DEF Worded
  <2>3. WordedAt(u)'
    BY <1>12, <2>2, NotifyDoes DEF Moves, WordedAt
  <2> QED  BY <2>1, <2>3, WordedMoves
<1>13. CASE Lck!WaiterLocks \/ Lck!WaiterSleeps \/ Lck!WaiterLeaves \/ Lck!WaiterTimesOut
  <2>1. words' = words /\ does' = does /\ phase' = phase /\ copy' = copy
    BY <1>13 DEF Lck!WaiterLocks, Lck!WaiterSleeps, Lck!WaiterLeaves, Lck!WaiterTimesOut
  <2> QED  BY <2>1 DEF Worded, WordedAt
<1> QED  BY <1>1, <1>2, <1>3, <1>4, <1>5, <1>6, <1>7, <1>8, <1>9, <1>10, <1>11, <1>12, <1>13
         DEF Lck!Next

LEMMA LocksKeepTold ==
  ASSUME LocksTyped, Placed, Told, [Lck!Next]_(Lck!vars)
  PROVE  Told'
<1>1. CASE UNCHANGED Lck!vars
  BY <1>1 DEF Lck!vars, Told
<1>2. ASSUME NEW u \in Users, Lck!Start(u)  PROVE  Told'
  BY <1>2, StartDoes DEF OthersStay, Moves, Told
<1>3. ASSUME NEW u \in Users, Lck!Acquire(u)  PROVE  Told'
  BY <1>3, AcquireDoes DEF OthersStay, Moves, Told
<1>4. ASSUME NEW u \in Users, Lck!TryFails(u)  PROVE  Told'
  BY <1>4, TryFailsDoes DEF OthersStay, Moves, Told
<1>5. ASSUME NEW u \in Users, Lck!AssignFirst(u)  PROVE  Told'
  BY <1>5, AssignFirstDoes DEF OthersStay, Moves, Told
<1>6. ASSUME NEW u \in Users, Lck!AssignSecond(u)  PROVE  Told'
  BY <1>6, AssignSecondDoes DEF OthersStay, Moves, Told
<1>7. ASSUME NEW u \in Users, Lck!TakeReference(u)  PROVE  Told'
  BY <1>7, TakeReferenceDoes DEF OthersStay, Moves, Told
<1>8. ASSUME NEW u \in Users, Lck!CopyFirst(u)  PROVE  Told'
  BY <1>8, CopyFirstDoes DEF OthersStay, Moves, Told
<1>9. ASSUME NEW u \in Users, Lck!CopySecond(u)  PROVE  Told'
  BY <1>9, CopySecondDoes DEF OthersStay, Moves, Told
<1>10. ASSUME NEW u \in Users, Lck!Release(u)  PROVE  Told'
  BY <1>10, ReleaseDoes DEF OthersStay, Moves, Told, LocksTyped
<1>11. ASSUME NEW u \in Users, Lck!Finish(u)  PROVE  Told'
  BY <1>11, FinishDoes DEF OthersStay, Moves, Told
<1>12. ASSUME NEW u \in Users, Lck!Notify(u)  PROVE  Told'
  BY <1>12, NotifyDoes DEF OthersStay, Moves, Told, LocksTyped
<1>13. CASE Lck!WaiterLocks
  BY <1>13 DEF Lck!WaiterLocks, Told, LocksTyped
<1>14. CASE Lck!WaiterSleeps
  BY <1>14 DEF Lck!WaiterSleeps, Told, LocksTyped
<1>15. CASE Lck!WaiterLeaves
  BY <1>15 DEF Lck!WaiterLeaves, Told, LocksTyped
<1>16. CASE Lck!WaiterTimesOut
  BY <1>16 DEF Lck!WaiterTimesOut, Told, LocksTyped
<1> QED  BY <1>1, <1>2, <1>3, <1>4, <1>5, <1>6, <1>7, <1>8, <1>9, <1>10, <1>11, <1>12, <1>13, <1>14, <1>15, <1>16
         DEF Lck!Next

(* Of a deadline's fractions. *)
LEMMA DeadlineAccepted ==
  ASSUME Lck!UsersNamed, NEW fraction \in 0 .. Second - 1, NEW wait \in 0 .. 2 * Second
  PROVE  Lck!Deadline(fraction, wait).fraction < Second <=> fraction + wait # Second
<1>1. PICK sum : sum = fraction + wait
  OBVIOUS
<1>2. sum \in Nat /\ Second \in Nat /\ Second > 0
  BY <1>1 DEF Lck!UsersNamed
<1>3. sum % Second < Second
  BY <1>2
<1>4. Lck!Deadline(fraction, wait).fraction = IF sum > Second THEN sum % Second ELSE sum
  BY <1>1 DEF Lck!Deadline
<1> QED  BY <1>1, <1>2, <1>3, <1>4

LEMMA LocksAlways ==
  ASSUME Lck!UsersNamed  PROVE  Lck!Spec => []Lck!LocksHold
<1>1. Lck!Init => LocksInv
  BY LocksBegin
<1>2. LocksInv /\ [Lck!Next]_(Lck!vars) => LocksInv'
  BY LocksKeepTypes, LocksKeepPlaces, LocksKeepHolder, LocksKeepWords, LocksKeepTold DEF LocksInv
<1>3. LocksInv => Lck!LocksHold
  <2> SUFFICES ASSUME LocksInv  PROVE  Lck!LocksHold
    OBVIOUS
  <2>1. \A u \in Users : phase[u] = "done" /\ does[u] # "read" => copy[u][1] = copy[u][2]
    BY DEF LocksInv, Worded, WordedAt
  <2>2. ASSUME holders.exclusive # {}
        PROVE  holders.shared = {} /\ Cardinality(holders.exclusive) = 1
    BY <2>2, FS_Singleton DEF LocksInv, OneHolder
  <2>3. waiter.at = "asleep" /\ words[1] # waiter.saw =>
          \E u \in Users : does[u] = "assign" /\ phase[u] \in {"second", "unlock", "notify"}
    BY DEF LocksInv, Told
  <2>4. \A fraction \in 0 .. Second - 1, wait \in 0 .. 2 * Second :
          Lck!Deadline(fraction, wait).fraction < Second <=> fraction + wait # Second
    BY DeadlineAccepted
  <2>5. Lck!Cardinality(holders.exclusive) = Cardinality(holders.exclusive)
    BY DEF Lck!Cardinality, Cardinality
  <2> QED  BY <2>1, <2>2, <2>3, <2>4, <2>5 DEF Lck!LocksHold
<1> QED  BY <1>1, <1>2, <1>3, PTL DEF Lck!Spec

-----------------------------------------------------------------------------
(* For any number of threads, of elements and of assignments: until trypop *)
(* frees the mutex of another thread, SafeQueue gives out its elements in  *)
(* order, once, and nobody sleeps while there is one; an assignment under  *)
(* any of the three locks is alone with the value, a reader that keeps its *)
(* lock sees no half of one, and who waits for a change is told of it.     *)
THEOREM LibraryLocks ==
  ASSUME Que!ThreadsNamed, Lck!UsersNamed
  PROVE  Que!Spec /\ Lck!Spec => []LibraryLocksHold
<1>1. Que!Spec => []Que!QueueHolds
  BY QueueAlways
<1>2. Lck!Spec => []Lck!LocksHold
  BY LocksAlways
<1> QED  BY <1>1, <1>2, PTL DEF LibraryLocksHold
-----------------------------------------------------------------------------
(* The tables of names (Names).                                            *)
NameOf(t, c) == IF c \in Nam!Known[t] THEN c ELSE Nam!Blank

(* A table that is whole: it has every code that has a name, and what a    *)
(* lookup has inserted is blank.                                           *)
Whole(map, t) ==
  Nam!Known[t] \subseteq DOMAIN map /\ \A c \in DOMAIN map : map[c] = NameOf(t, c)

LookingUp == {"GxFlusher", "S6aFlusher", "Router"}
IsAsked(th) ==
  inside[th] = Nam!Outside
    \/ \E t \in Nam!Asks(th) : \E c \in Nam!Codes(t) : inside[th] = [table |-> t, code |-> Nam!Key(t, c)]

AskedByTwo == {"resultCode", "ratType", "commandCodeType"}

AnswerIsName == answer.table # "none" => answer.name = NameOf(answer.table, answer.code)

NamesInv ==
  /\ DOMAIN names = Nam!Table /\ \A t \in Nam!Table : Whole(names[t], t)
  /\ DOMAIN inside = LookingUp /\ \A th \in LookingUp : IsAsked(th)
  /\ AnswerIsName
  /\ damaged \subseteq AskedByTwo

LEMMA TableIs ==
  Nam!Table = {"resultCode", "ratType", "eventTrigger", "appType", "commandCodeType", "msgType",
               "apnIndicator", "feature_1", "feature_2"}
  BY DEF Nam!Table, Nam!Known

LEMMA AsksTables ==
  ASSUME NEW th \in LookingUp  PROVE  Nam!Asks(th) \subseteq Nam!Table /\ "none" \notin Nam!Asks(th)
  BY TableIs DEF Nam!Asks, LookingUp

(* What two threads look up in one table is an application, whose code has *)
(* a name, or in one of the three tables.                                  *)
LEMMA TwoAsk ==
  ASSUME NEW th \in LookingUp, NEW other \in LookingUp \ {th},
         NEW t \in Nam!Asks(th) \cap Nam!Asks(other), t \notin AskedByTwo
  PROVE  t = "appType"
  BY TableIs DEF Nam!Asks, LookingUp, AskedByTwo

LEMMA ApplicationKnown ==
  ASSUME NEW c \in Nam!Codes("appType")  PROVE  Nam!Key("appType", c) \in Nam!Known["appType"]
<1>1. c \in {16777238, 16777251}
  BY DEF Nam!Codes
<1>2. Nam!Key("appType", c) = c
  BY DEF Nam!Key
<1>3. Nam!Known["appType"] = {4, 16777238, 16777302, 16777251}
  BY DEF Nam!Known
<1> QED  BY <1>1, <1>2, <1>3

LEMMA InsertedWhole ==
  ASSUME NEW map, NEW t, Whole(map, t) \/ DOMAIN map = {}
  PROVE  Whole(Nam!Insert(map, Nam!Known[t]), t)
<1>1. /\ DOMAIN Nam!Insert(map, Nam!Known[t]) = DOMAIN map \cup Nam!Known[t]
      /\ \A c \in DOMAIN map \cup Nam!Known[t] :
           Nam!Insert(map, Nam!Known[t])[c] = IF c \in DOMAIN map THEN map[c] ELSE c
  BY DEF Nam!Insert
<1>2. ASSUME NEW c \in DOMAIN map \cup Nam!Known[t]
      PROVE  Nam!Insert(map, Nam!Known[t])[c] = NameOf(t, c)
  BY <1>1 DEF Whole, NameOf
<1> QED  BY <1>1, <1>2 DEF Whole

LEMMA LookedWhole ==
  ASSUME NEW map, NEW t, NEW c, Whole(map, t)
  PROVE  Whole(Nam!Looked(map, c), t) /\ Nam!Looked(map, c)[c] = NameOf(t, c)
<1>1. /\ DOMAIN Nam!Looked(map, c) = DOMAIN map \cup {c}
      /\ \A d \in DOMAIN map \cup {c} :
           Nam!Looked(map, c)[d] = IF d \in DOMAIN map THEN map[d] ELSE Nam!Blank
  BY DEF Nam!Looked
<1>2. ASSUME NEW d \in DOMAIN map \cup {c}  PROVE  Nam!Looked(map, c)[d] = NameOf(t, d)
  BY <1>1 DEF Whole, NameOf
<1> QED  BY <1>1, <1>2 DEF Whole

LEMMA NamesBegin ==
  ASSUME Nam!Init  PROVE  NamesInv
<1>1. DOMAIN names = Nam!Table
  BY DEF Nam!Init
<1>2. ASSUME NEW t \in Nam!Table  PROVE  Whole(names[t], t)
  <2>1. names[t] = Nam!Insert(Nam!NoNames[t], Nam!Known[t])
    BY DEF Nam!Init, Nam!FilledByMain
  <2>2. DOMAIN Nam!NoNames[t] = {}
    BY DEF Nam!NoNames
  <2> QED  BY <2>1, <2>2, InsertedWhole
<1>3. DOMAIN inside = LookingUp /\ \A th \in LookingUp : IsAsked(th)
  BY DEF Nam!Init, LookingUp, IsAsked
<1>4. AnswerIsName
  BY DEF Nam!Init, AnswerIsName, Nam!NoAnswer
<1>5. damaged \subseteq AskedByTwo
  BY DEF Nam!Init
<1> QED  BY <1>1, <1>2, <1>3, <1>4, <1>5 DEF NamesInv

LEMMA LookupEnds ==
  ASSUME NamesInv, NEW th \in LookingUp, Nam!EndLookup(th)
  PROVE  NamesInv'
<1>1. PICK t, c : t = inside[th].table /\ c = inside[th].code
  OBVIOUS
<1>2. /\ t # "none" /\ inside' = [inside EXCEPT ![th] = Nam!Outside]
      /\ \/ /\ Nam!Clash(th) \/ t \in damaged
            /\ damaged' = damaged \cup {t} /\ names' = names /\ answer' = answer
         \/ /\ ~(Nam!Clash(th) \/ t \in damaged)
            /\ names' = [names EXCEPT ![t] = Nam!Looked(names[t], c)]
            /\ answer' = [table |-> t, code |-> c, name |-> (names')[t][c]]
            /\ damaged' = damaged
  BY <1>1 DEF Nam!EndLookup
<1>3. t \in Nam!Asks(th) /\ t \in Nam!Table
  BY <1>1, <1>2, AsksTables DEF NamesInv, IsAsked, Nam!Outside
<1>4. DOMAIN (inside') = LookingUp /\ \A other \in LookingUp : IsAsked(other)'
  BY <1>2 DEF NamesInv, IsAsked
<1>5. CASE Nam!Clash(th) \/ t \in damaged
  <2>1. damaged' = damaged \cup {t} /\ names' = names /\ answer' = answer
    BY <1>2, <1>5
  <2>2. ASSUME Nam!Clash(th), t \notin AskedByTwo  PROVE  FALSE
    <3>1. PICK other \in LookingUp \ {th} :
            /\ inside[other].table = inside[th].table
            /\ \E u \in {th, other} : inside[u].code \notin DOMAIN names[inside[u].table]
      BY <2>2 DEF Nam!Clash, NamesInv
    <3>2. PICK u \in {th, other} : inside[u].code \notin DOMAIN names[inside[u].table]
      BY <3>1
    <3>3. inside[other].table = t /\ inside[u].table = t
      BY <1>1, <3>1, <3>2
    <3>4. /\ \E d \in Nam!Codes(t) : inside[u].code = Nam!Key(t, d)
          /\ t \in Nam!Asks(other)
      BY <1>2, <3>3 DEF NamesInv, IsAsked, Nam!Outside
    <3>5. t = "appType"
      BY <1>3, <2>2, <3>4, TwoAsk
    <3>6. inside[u].code \in Nam!Known[t]
      BY <3>4, <3>5, ApplicationKnown
    <3>7. Nam!Known[t] \subseteq DOMAIN names[t]
      BY <1>3 DEF NamesInv, Whole
    <3> QED  BY <3>2, <3>3, <3>6, <3>7
  <2>3. t \in AskedByTwo
    BY <1>5, <2>2 DEF NamesInv
  <2>4. AnswerIsName'
    BY <2>1 DEF NamesInv, AnswerIsName
  <2> QED  BY <1>4, <2>1, <2>3, <2>4 DEF NamesInv
<1>6. CASE ~(Nam!Clash(th) \/ t \in damaged)
  <2>1. /\ names' = [names EXCEPT ![t] = Nam!Looked(names[t], c)] /\ damaged' = damaged
        /\ answer' = [table |-> t, code |-> c, name |-> (names')[t][c]]
    BY <1>2, <1>6
  <2>2. /\ DOMAIN (names') = Nam!Table /\ (names')[t] = Nam!Looked(names[t], c)
        /\ \A s \in Nam!Table \ {t} : (names')[s] = names[s]
    BY <1>3, <2>1 DEF NamesInv
  <2>3. Whole((names')[t], t) /\ (names')[t][c] = NameOf(t, c)
    BY <1>3, <2>2, LookedWhole DEF NamesInv
  <2>4. \A s \in Nam!Table : Whole((names')[s], s)
    BY <2>2, <2>3 DEF NamesInv
  <2>5. AnswerIsName'
    BY <2>1, <2>3 DEF AnswerIsName
  <2> QED  BY <1>4, <2>1, <2>2, <2>4, <2>5 DEF NamesInv
<1> QED  BY <1>5, <1>6

LEMMA NamesKeep ==
  ASSUME NamesInv, [Nam!Next]_(Nam!vars)
  PROVE  NamesInv'
<1>1. CASE UNCHANGED Nam!vars
  BY <1>1 DEF Nam!vars, NamesInv, IsAsked, AnswerIsName
<1>2. CASE Nam!Manage
  <2>1. /\ names' = Nam!Fill(Nam!FilledByManager)
        /\ inside' = inside /\ answer' = answer /\ damaged' = damaged
    BY <1>2 DEF Nam!Manage
  <2>2. DOMAIN (names') = Nam!Table
    BY <2>1 DEF Nam!Fill
  <2>3. ASSUME NEW t \in Nam!Table  PROVE  Whole((names')[t], t)
    <3>1. (names')[t] = names[t] \/ (names')[t] = Nam!Insert(names[t], Nam!Known[t])
      BY <2>1 DEF Nam!Fill
    <3> QED  BY <3>1, InsertedWhole DEF NamesInv
  <2> QED  BY <2>1, <2>2, <2>3 DEF NamesInv, IsAsked, AnswerIsName
<1>3. ASSUME NEW th \in LookingUp, Nam!BeginLookup(th)  PROVE  NamesInv'
  <2>1. PICK t \in Nam!Asks(th) \ damaged : \E c \in Nam!Codes(t) :
          inside' = [inside EXCEPT ![th] = [table |-> t, code |-> Nam!Key(t, c)]]
    BY <1>3 DEF Nam!BeginLookup
  <2>2. names' = names /\ damaged' = damaged /\ answer' = Nam!NoAnswer
    BY <1>3 DEF Nam!BeginLookup
  <2>3. DOMAIN (inside') = LookingUp /\ \A other \in LookingUp : IsAsked(other)'
    BY <2>1 DEF NamesInv, IsAsked
  <2>4. AnswerIsName'
    BY <2>2 DEF AnswerIsName, Nam!NoAnswer
  <2> QED  BY <2>2, <2>3, <2>4 DEF NamesInv
<1>4. ASSUME NEW th \in LookingUp, Nam!EndLookup(th)  PROVE  NamesInv'
  BY <1>4, LookupEnds
<1> QED  BY <1>1, <1>2, <1>3, <1>4 DEF Nam!Next, NamesInv

(* Whatever code is in no table, and whoever looked it up before: a code   *)
(* of the tables is written with its own name and every other one blank,   *)
(* and only three tables can be written by two threads at once.            *)
THEOREM NamesAlways == Nam!Spec => []NamesHold
<1>1. Nam!Init => NamesInv
  BY NamesBegin
<1>2. NamesInv /\ [Nam!Next]_(Nam!vars) => NamesInv'
  BY NamesKeep
<1>3. NamesInv => NamesHold
  BY DEF NamesInv, AnswerIsName, NameOf, AskedByTwo, NamesHold, Nam!NamesHold
<1> QED  BY <1>1, <1>2, <1>3, PTL DEF Nam!Spec
-----------------------------------------------------------------------------
(* The packet counters and the monitor's rates (Monitor).                  *)
(* What passes a count that is as it was, increased by d: never more than  *)
(* d, although an int may begin again.                                     *)
LEMMA DivRange ==
  ASSUME NEW a \in Nat, IntRange \in Nat, IntRange > 0
  PROVE  /\ a \div IntRange \in Int /\ a % IntRange \in 0 .. IntRange - 1
         /\ a = IntRange * (a \div IntRange) + (a % IntRange)
  BY Z3

LEMMA ModMoves ==
  ASSUME NEW a \in Nat, NEW d \in Nat, IntRange \in Nat, IntRange > 0
  PROVE  (a + d) % IntRange <= (a % IntRange) + d
<1>1. PICK q1 \in Int, r1 \in Int : a = IntRange * q1 + r1 /\ r1 = a % IntRange
  <2>1. /\ a \div IntRange \in Int /\ a % IntRange \in Int
        /\ a = IntRange * (a \div IntRange) + (a % IntRange)
    BY DivRange
  <2> QED  BY <2>1
<1>2. PICK q2 \in Int, r2 \in Int : a + d = IntRange * q2 + r2 /\ r2 = (a + d) % IntRange
  <2>1. a + d \in Nat
    OBVIOUS
  <2> QED  BY <2>1, DivRange
<1>3. r1 \in 0 .. IntRange - 1 /\ r2 \in 0 .. IntRange - 1
  BY <1>1, <1>2, DivRange, a + d \in Nat
<1>4. ASSUME q2 < q1  PROVE  r2 <= r1 + d
  <2>1. PICK z \in Int : z = q1 - q2 /\ z >= 1
    BY <1>4
  <2>2. IntRange * z >= IntRange
    BY <2>1, Z3
  <2>3. IntRange * z = IntRange * q1 - IntRange * q2
    BY <2>1, Z3
  <2> QED  BY <1>1, <1>2, <1>3, <2>2, <2>3, Z3
<1>5. ASSUME q2 >= q1  PROVE  r2 <= r1 + d
  <2>1. PICK z \in Int : z = q2 - q1 /\ z >= 0
    BY <1>5
  <2>2. IntRange * z >= 0
    BY <2>1, Z3
  <2>3. IntRange * z = IntRange * q2 - IntRange * q1
    BY <2>1, Z3
  <2> QED  BY <1>1, <1>2, <1>3, <2>2, <2>3, Z3
<1> QED  BY <1>1, <1>2, <1>4, <1>5

(* A count of the monitor is what it shows of the packets before its pass  *)
(* and those since; or the counter has begun again, with no more than the  *)
(* packets since, and the monitor's last count was not negative.           *)
Before(i) == \E b \in Nat : pkts[i] = b + since[i].now /\ prev[i] = Mon!Narrow(b)
Begun(i) == pkts[i] <= since[i].now /\ prev[i] >= 0

(* Up to the two exceptions a listener stores to the counter it loaded.    *)
CountsHold(i) ==
  ~revived[i] /\ ~beyond[i] =>
    /\ adding[i] = Mon!None \/ adding[i] = pkts[i]
    /\ Before(i) \/ Begun(i)

MonitorTyped ==
  /\ kind \in {"ethernet", "solarflare"}
  /\ pkts \in [Mon!Interface -> Nat] /\ prev \in [Mon!Interface -> Int]
  /\ adding \in [Mon!Interface -> Nat \cup {Mon!None}]
  /\ since \in [Mon!Interface -> [last : Nat, now : Nat, took : Int]]
  /\ rate \in [Mon!Interface -> Int]
  /\ revived \in [Mon!Interface -> BOOLEAN] /\ beyond \in [Mon!Interface -> BOOLEAN]

Undisturbed(i) == kind = "solarflare" => ~revived[i] /\ ~beyond[i] /\ prev[i] >= 0
RateHolds(i) ==
  Mon!Regular(i) =>
    rate[i] >= 0 /\ rate[i] * since[i].took <= since[i].last * Second

MonitorInv ==
  /\ MonitorTyped
  /\ \A i \in Mon!Interface : CountsHold(i) /\ Undisturbed(i) /\ RateHolds(i)

LEMMA Narrows ==
  ASSUME kind \in {"ethernet", "solarflare"}, IntRange \in Nat, IntRange > 0, NEW n \in Nat
  PROVE  /\ Mon!Narrow(n) \in Int /\ Mon!Narrow(n) <= n
         /\ kind = "solarflare" => Mon!Narrow(n) = n
         /\ \A d \in Nat : Mon!Narrow(n + d) <= Mon!Narrow(n) + d
<1>1. PICK h : h = IntRange \div 2 /\ h \in Nat
  BY Z3
<1>2. Mon!Narrow(n) = IF kind = "ethernet" THEN ((n + h) % IntRange) - h ELSE n
  BY <1>1 DEF Mon!Narrow, Mon!AsInt
<1>3. (n + h) % IntRange \in 0 .. IntRange - 1 /\ (n + h) % IntRange <= n + h
  <2>1. n + h \in Nat
    BY <1>1
  <2> QED  BY <2>1, Z3
<1>4. ASSUME NEW d \in Nat  PROVE  Mon!Narrow(n + d) <= Mon!Narrow(n) + d
  <2>1. Mon!Narrow(n + d) = IF kind = "ethernet" THEN (((n + d) + h) % IntRange) - h ELSE n + d
    BY <1>1 DEF Mon!Narrow, Mon!AsInt
  <2>2. (n + d) + h = (n + h) + d /\ n + h \in Nat
    BY <1>1
  <2>3. ((n + h) + d) % IntRange <= ((n + h) % IntRange) + d
    BY <2>2, ModMoves
  <2>4. ((n + h) + d) % IntRange \in 0 .. IntRange - 1
    <3>1. (n + h) + d \in Nat
      BY <2>2
    <3> QED  BY <3>1, DivRange
  <2> QED  BY <1>1, <1>2, <1>3, <2>1, <2>2, <2>3, <2>4
<1> QED  BY <1>1, <1>2, <1>3, <1>4

(* What fits into an int is kept.                                          *)
LEMMA NarrowFits ==
  ASSUME IntRange \in Nat, IntRange > 0, NEW n \in Nat, NEW h, h = IntRange \div 2, n < h
  PROVE  Mon!AsInt(n) = n /\ Mon!Narrow(n) = n
<1>1. Mon!AsInt(n) = ((n + h) % IntRange) - h
  BY DEF Mon!AsInt
<1>2. h \in Nat /\ h + h <= IntRange
  BY Z3
<1>3. n + h \in Nat /\ n + h < IntRange
  BY <1>2
<1>4. (n + h) % IntRange = n + h
  <2>1. \A k \in Nat : k < IntRange => k % IntRange = k
    BY Z3
  <2> QED  BY <1>3, <2>1
<1>5. Mon!AsInt(n) = n
  BY <1>1, <1>2, <1>4
<1> QED  BY <1>5 DEF Mon!Narrow

LEMMA MonitorBegins ==
  ASSUME Mon!RangeNamed, Mon!Init  PROVE  MonitorInv
<1>1. MonitorTyped
  BY DEF Mon!Init, MonitorTyped, Mon!RangeNamed
<1>2. ASSUME NEW i \in Mon!Interface
      PROVE  CountsHold(i) /\ Undisturbed(i) /\ RateHolds(i)
  <2>1. rate[i] = 0 /\ since[i].last = 0 /\ since[i].took = Second /\ Second \in Nat
    BY DEF Mon!Init, Mon!RangeNamed
  <2>2. RateHolds(i)
    BY <2>1 DEF RateHolds
  <2> QED  BY <2>2 DEF Mon!Init, CountsHold, Begun, Undisturbed
<1> QED  BY <1>1, <1>2 DEF MonitorInv

(* A packet's load: counters are cleared, of which an Ethernet listener    *)
(* may just hold the old count of another, and one that shows a negative   *)
(* count.                                                                  *)
LEMMA LoadKeeps ==
  ASSUME MonitorInv, NEW i \in Mon!Interface, Mon!Load(i)
  PROVE  MonitorInv'
<1>1. /\ adding[i] = Mon!None
      /\ pkts' = [j \in Mon!Interface |-> IF j \in Mon!Cleared(i) THEN 0 ELSE pkts[j]]
      /\ revived' = [j \in Mon!Interface |->
           revived[j] \/ (j \in Mon!Cleared(i) /\ adding[j] # Mon!None)]
      /\ beyond' = [j \in Mon!Interface |-> beyond[j] \/ (j \in Mon!Cleared(i) /\ prev[j] < 0)]
      /\ adding' = [adding EXCEPT ![i] = (pkts')[i]]
      /\ kind' = kind /\ prev' = prev /\ rate' = rate /\ since' = since
  BY DEF Mon!Load
<1>2. MonitorTyped'
  <2>1. pkts' \in [Mon!Interface -> Nat]
    BY <1>1 DEF MonitorInv, MonitorTyped
  <2>2. adding' \in [Mon!Interface -> Nat \cup {Mon!None}]
    BY <1>1, <2>1 DEF MonitorInv, MonitorTyped
  <2>3. revived' \in [Mon!Interface -> BOOLEAN] /\ beyond' \in [Mon!Interface -> BOOLEAN]
    BY <1>1 DEF MonitorInv, MonitorTyped
  <2> QED  BY <1>1, <2>1, <2>2, <2>3 DEF MonitorInv, MonitorTyped
<1>3. ASSUME NEW j \in Mon!Interface
      PROVE  CountsHold(j)' /\ Undisturbed(j)' /\ RateHolds(j)'
  <2>1. CountsHold(j) /\ Undisturbed(j) /\ RateHolds(j)
    BY DEF MonitorInv
  <2>2. /\ (revived')[j] <=> (revived[j] \/ (j \in Mon!Cleared(i) /\ adding[j] # Mon!None))
        /\ (beyond')[j] <=> (beyond[j] \/ (j \in Mon!Cleared(i) /\ prev[j] < 0))
        /\ (pkts')[j] = IF j \in Mon!Cleared(i) THEN 0 ELSE pkts[j]
    BY <1>1
  <2>3. (adding')[j] = IF j = i THEN (pkts')[j] ELSE adding[j]
    BY <1>1 DEF MonitorInv, MonitorTyped
  <2>4. prev[j] \in Int /\ since[j].now \in Nat /\ pkts[j] \in Nat
    BY DEF MonitorInv, MonitorTyped
  <2>5. RateHolds(j)'
    <3>1. Mon!Regular(j)' => Mon!Regular(j)
      BY <1>1, <2>2, Zenon DEF Mon!Regular
    <3> QED  BY <1>1, <2>1, <3>1 DEF RateHolds
  <2>6. Undisturbed(j)'
    <3>1. SUFFICES ASSUME kind = "solarflare"  PROVE  ~(revived')[j] /\ ~(beyond')[j] /\ prev[j] >= 0
      BY <1>1 DEF Undisturbed
    <3>2. j \in Mon!Cleared(i) => j = i
      BY <3>1 DEF Mon!Cleared
    <3>3. prev[j] >= 0 /\ ~revived[j] /\ ~beyond[j]
      BY <2>1, <3>1 DEF Undisturbed
    <3>4. ~(j \in Mon!Cleared(i) /\ adding[j] # Mon!None) /\ ~(j \in Mon!Cleared(i) /\ prev[j] < 0)
      BY <1>1, <2>4, <3>2, <3>3
    <3> QED  BY <2>2, <3>3, <3>4, Zenon
  <2>7. ASSUME ~(revived')[j], ~(beyond')[j]
        PROVE  /\ (adding')[j] = Mon!None \/ (adding')[j] = (pkts')[j]
               /\ Before(j)' \/ Begun(j)'
    <3>1. /\ adding[j] = Mon!None \/ adding[j] = pkts[j]
          /\ Before(j) \/ Begun(j)
      BY <2>1, <2>2, <2>7 DEF CountsHold
    <3>2. CASE j \in Mon!Cleared(i)
      <4>1. (pkts')[j] = 0 /\ adding[j] = Mon!None /\ prev[j] >= 0
        <5>1. ~(j \in Mon!Cleared(i) /\ adding[j] # Mon!None) /\ ~(j \in Mon!Cleared(i) /\ prev[j] < 0)
          BY <2>2, <2>7, Zenon
        <5>2. (pkts')[j] = 0
          BY <2>2, <3>2
        <5> QED  BY <2>4, <3>2, <5>1, <5>2
      <4>2. Begun(j)'
        BY <1>1, <2>4, <4>1 DEF Begun
      <4> QED  BY <2>3, <4>1, <4>2
    <3>3. CASE j \notin Mon!Cleared(i)
      <4>1. (pkts')[j] = pkts[j]
        BY <2>2, <3>3
      <4>2. Before(j)' \/ Begun(j)'
        BY <1>1, <3>1, <4>1 DEF Before, Begun, Mon!Narrow, Mon!AsInt
      <4> QED  BY <2>3, <3>1, <4>1, <4>2
    <3> QED  BY <3>2, <3>3
  <2> QED  BY <2>5, <2>6, <2>7 DEF CountsHold
<1> QED  BY <1>2, <1>3 DEF MonitorInv

LEMMA StoreKeeps ==
  ASSUME MonitorInv, NEW i \in Mon!Interface, Mon!Store(i)
  PROVE  MonitorInv'
<1>1. PICK n \in Nat :
        /\ pkts' = [pkts EXCEPT ![i] = adding[i] + n]
        /\ since' = [since EXCEPT ![i].now = @ + n]
  <2>1. PICK n \in IF kind = "ethernet" THEN {1} ELSE 1 .. 2 :
          /\ pkts' = [pkts EXCEPT ![i] = adding[i] + n]
          /\ since' = [since EXCEPT ![i].now = @ + n]
    BY DEF Mon!Store
  <2>2. n \in Nat
    OBVIOUS
  <2> QED  BY <2>1, <2>2
<1>2. /\ adding[i] # Mon!None /\ adding' = [adding EXCEPT ![i] = Mon!None]
      /\ kind' = kind /\ prev' = prev /\ rate' = rate /\ revived' = revived /\ beyond' = beyond
  BY DEF Mon!Store
<1>3. adding[i] \in Nat /\ pkts[i] \in Nat /\ since[i] \in [last : Nat, now : Nat, took : Int] /\ prev[i] \in Int
  BY <1>2 DEF MonitorInv, MonitorTyped
<1>4. /\ (pkts')[i] = adding[i] + n /\ (adding')[i] = Mon!None
      /\ \A j \in Mon!Interface \ {i} : (pkts')[j] = pkts[j] /\ (adding')[j] = adding[j]
  BY <1>1, <1>2 DEF MonitorInv, MonitorTyped
<1>5. /\ (since')[i].now = since[i].now + n /\ (since')[i].last = since[i].last
      /\ (since')[i].took = since[i].took
      /\ (since')[i] \in [last : Nat, now : Nat, took : Int]
      /\ \A j \in Mon!Interface \ {i} : (since')[j] = since[j]
  BY <1>1, <1>3 DEF MonitorInv, MonitorTyped
<1>6. MonitorTyped'
  <2>1. pkts' \in [Mon!Interface -> Nat]
    BY <1>1, <1>3 DEF MonitorInv, MonitorTyped
  <2>2. adding' \in [Mon!Interface -> Nat \cup {Mon!None}]
    BY <1>2 DEF MonitorInv, MonitorTyped
  <2>3. since' \in [Mon!Interface -> [last : Nat, now : Nat, took : Int]]
    BY <1>1, <1>3 DEF MonitorInv, MonitorTyped
  <2> QED  BY <1>2, <2>1, <2>2, <2>3 DEF MonitorInv, MonitorTyped
<1>7. CountsHold(i)' /\ Undisturbed(i)' /\ RateHolds(i)'
  <2>1. CountsHold(i) /\ Undisturbed(i) /\ RateHolds(i)
    BY DEF MonitorInv
  <2>2. ASSUME ~revived[i], ~beyond[i]  PROVE  Before(i)' \/ Begun(i)'
    <3>1. adding[i] = pkts[i] /\ (Before(i) \/ Begun(i))
      BY <1>2, <2>1, <2>2 DEF CountsHold
    <3>2. CASE Before(i)
      <4>1. PICK b \in Nat : pkts[i] = b + since[i].now /\ prev[i] = Mon!Narrow(b)
        BY <3>2 DEF Before
      <4>2. (pkts')[i] = b + (since')[i].now
        BY <1>3, <1>4, <1>5, <3>1, <4>1
      <4>3. (prev')[i] = Mon!Narrow(b)'
        BY <1>2, <4>1 DEF Mon!Narrow, Mon!AsInt
      <4> QED  BY <4>2, <4>3 DEF Before
    <3>3. CASE Begun(i)
      <4>1. (pkts')[i] <= (since')[i].now /\ (prev')[i] >= 0
        BY <1>2, <1>3, <1>4, <1>5, <3>1, <3>3 DEF Begun
      <4> QED  BY <4>1 DEF Begun
    <3> QED  BY <3>1, <3>2, <3>3
  <2>3. CountsHold(i)'
    BY <1>2, <1>4, <2>2 DEF CountsHold
  <2>4. RateHolds(i)'
    <3>1. Mon!Regular(i)' <=> Mon!Regular(i)
      BY <1>2, <1>5 DEF Mon!Regular
    <3> QED  BY <1>2, <1>5, <2>1, <3>1 DEF RateHolds
  <2> QED  BY <1>2, <2>1, <2>3, <2>4 DEF Undisturbed
<1>8. ASSUME NEW j \in Mon!Interface \ {i}
      PROVE  CountsHold(j)' /\ Undisturbed(j)' /\ RateHolds(j)'
  <2>1. CountsHold(j) /\ Undisturbed(j) /\ RateHolds(j)
    BY DEF MonitorInv
  <2>2. (pkts')[j] = pkts[j] /\ (adding')[j] = adding[j] /\ (since')[j] = since[j]
    BY <1>4, <1>5
  <2>3. RateHolds(j)'
    BY <1>2, <2>1, <2>2 DEF RateHolds, Mon!Regular
  <2> QED  BY <1>2, <2>1, <2>2, <2>3 DEF CountsHold, Before, Begun, Undisturbed, Mon!Narrow,
                                        Mon!AsInt
<1> QED  BY <1>6, <1>7, <1>8 DEF MonitorInv

(* The rate of d packets in took milliseconds, when it fits into an int.   *)
LEMMA RateOf ==
  ASSUME IntRange \in Nat, IntRange > 0, Second \in Nat, kind \in {"ethernet", "solarflare"},
         NEW s \in Nat, NEW d \in 0 .. s, NEW took \in Int, took > 0,
         s * Second < took * (IntRange \div 2)
  PROVE  /\ Mon!AsInt(Mon!Quotient(d * Second, took)) >= 0
         /\ Mon!AsInt(Mon!Quotient(d * Second, took)) * took <= s * Second
<1>1. PICK n : n = d * Second /\ n \in Nat /\ n <= s * Second
  <2>1. d * Second \in Nat /\ d * Second <= s * Second
    <3>1. PICK k \in Nat : k = s - d
      OBVIOUS
    <3>2. d \in Nat /\ s = d + k
      BY <3>1
    <3>3. d * Second \in Nat /\ k * Second \in Nat /\ s * Second = d * Second + k * Second
      BY <3>2, Z3
    <3> QED  BY <3>3
  <2> QED  BY <2>1
<1>2. PICK q : q = n \div took /\ q \in Nat /\ q * took <= n
  <2>1. n \div took \in Nat /\ (n \div took) * took <= n
    BY <1>1, Z3
  <2> QED  BY <2>1
<1>3. Mon!Quotient(d * Second, took) = q
  <2>1. ~(n < 0) /\ ~(took < 0) /\ n \in Int
    BY <1>1
  <2>2. Mon!Magnitude(n) = n /\ Mon!Magnitude(took) = took
    BY <2>1 DEF Mon!Magnitude
  <2>3. (n < 0) = (took < 0)
    BY <2>1
  <2> QED  BY <1>1, <1>2, <2>2, <2>3 DEF Mon!Quotient
<1>4. PICK h : h = IntRange \div 2 /\ h \in Nat
  BY Z3
<1>5. q < h
  <2> SUFFICES ASSUME q >= h  PROVE  FALSE
    BY <1>2, <1>4
  <2>1. h * took <= q * took
    <3>1. PICK k \in Nat : k = q - h
      BY <1>2, <1>4
    <3>2. q * took = h * took + k * took /\ k * took >= 0 /\ h * took \in Int /\ k * took \in Int
      BY <1>2, <1>4, <3>1, Z3
    <3> QED  BY <3>2
  <2>2. h * took = took * h /\ h * took \in Int /\ q * took \in Int /\ s * Second \in Int
    BY <1>2, <1>4, Z3
  <2>3. s * Second < took * h
    BY <1>4
  <2> QED  BY <1>1, <1>2, <2>1, <2>2, <2>3
<1>6. Mon!AsInt(q) = q
  BY <1>2, <1>4, <1>5, NarrowFits
<1>7. q * took \in Int /\ s * Second \in Int
  BY <1>2, Z3
<1> QED  BY <1>1, <1>2, <1>3, <1>6, <1>7

(* A pass of the monitor. *)
LEMMA PassKeeps ==
  ASSUME Mon!RangeNamed, MonitorInv, NEW i \in Mon!Interface, Mon!Pass(i)
  PROVE  MonitorInv'
<1>1. PICK now : now = Mon!Narrow(pkts[i])
  OBVIOUS
<1>2. PICK took \in Elapsed \ {0}, passed \in Mon!Passed(prev[i], now) :
        /\ rate' = [rate EXCEPT ![i] = Mon!AsInt(Mon!Quotient(passed * Second, took))]
        /\ since' = [since EXCEPT ![i] = [last |-> since[i].now, now |-> 0, took |-> took]]
  BY <1>1 DEF Mon!Pass
<1>20. /\ prev' = [prev EXCEPT ![i] = now]
       /\ kind' = kind /\ pkts' = pkts /\ adding' = adding /\ revived' = revived /\ beyond' = beyond
  BY <1>1 DEF Mon!Pass
<1>3. pkts[i] \in Nat /\ prev[i] \in Int /\ since[i].now \in Nat /\ kind \in {"ethernet", "solarflare"}
  BY DEF MonitorInv, MonitorTyped
<1>4. IntRange \in Nat /\ IntRange > 0 /\ Second \in Nat /\ Second > 0 /\ took \in Int
  BY DEF Mon!RangeNamed
<1>5. now \in Int /\ now <= pkts[i] /\ (kind = "solarflare" => now = pkts[i])
  BY <1>1, <1>3, <1>4, Narrows
<1>6. passed \in Int
  <2>1. now < prev[i] => passed = 0
    BY DEF Mon!Passed
  <2>2. ASSUME ~(now < prev[i])  PROVE  passed \in Int
    <3>1. now - prev[i] \in Nat
      BY <1>3, <1>5, <2>2
    <3>2. passed = now - prev[i] \/ passed = Mon!Narrow(now - prev[i])
      BY <2>2 DEF Mon!Passed
    <3>3. PICK n \in Nat : n = now - prev[i]
      BY <3>1
    <3> QED  BY <1>3, <1>4, <3>2, <3>3, Narrows
  <2> QED  BY <2>1, <2>2
<1>60. PICK v : v = Mon!AsInt(Mon!Quotient(passed * Second, took)) /\ v \in Int
  <2>1. PICK n : n = passed * Second /\ n \in Int
    BY <1>4, <1>6, Z3
  <2>2. Mon!Magnitude(n) \in Nat /\ Mon!Magnitude(took) \in Nat \ {0}
    BY <1>4, <2>1 DEF Mon!Magnitude
  <2>3. Mon!Magnitude(n) \div Mon!Magnitude(took) \in Int
    <3>1. PICK x \in Nat, y \in Nat \ {0} : x = Mon!Magnitude(n) /\ y = Mon!Magnitude(took)
      BY <2>2
    <3>2. x \div y \in Int
      BY Z3
    <3> QED  BY <3>1, <3>2
  <2>4. Mon!Quotient(n, took) \in Int
    BY <2>3 DEF Mon!Quotient
  <2>5. \A m \in Int : Mon!AsInt(m) \in Int
    <3> TAKE m \in Int
    <3>1. PICK h : h = IntRange \div 2 /\ h \in Nat
      BY <1>4, Z3
    <3>2. (m + h) % IntRange \in Int
      <4>1. m + h \in Int
        BY <3>1
      <4> QED  BY <1>4, <4>1, Z3
    <3> QED  BY <3>1, <3>2 DEF Mon!AsInt
  <2> QED  BY <2>1, <2>4, <2>5
<1>7. MonitorTyped'
  <2>1. rate' \in [Mon!Interface -> Int]
    BY <1>2, <1>60 DEF MonitorInv, MonitorTyped
  <2>2. prev' \in [Mon!Interface -> Int]
    BY <1>5, <1>20 DEF MonitorInv, MonitorTyped
  <2>3. since' \in [Mon!Interface -> [last : Nat, now : Nat, took : Int]]
    BY <1>2, <1>3, <1>4 DEF MonitorInv, MonitorTyped
  <2> QED  BY <1>20, <2>1, <2>2, <2>3 DEF MonitorInv, MonitorTyped
<1>8. /\ (rate')[i] = v /\ (prev')[i] = now
      /\ (since')[i].last = since[i].now /\ (since')[i].now = 0 /\ (since')[i].took = took
      /\ \A j \in Mon!Interface \ {i} :
           (rate')[j] = rate[j] /\ (prev')[j] = prev[j] /\ (since')[j] = since[j]
  BY <1>2, <1>20, <1>60 DEF MonitorInv, MonitorTyped
<1>9. CountsHold(i) /\ Undisturbed(i)
  BY DEF MonitorInv
<1>10. RateHolds(i)'
  <2> SUFFICES ASSUME Mon!Regular(i)'  PROVE  v >= 0 /\ v * took <= since[i].now * Second
    BY <1>8 DEF RateHolds
  <2>1. /\ took > 0
        /\ since[i].now * Second < took * (IntRange \div 2)
        /\ kind = "ethernet" => since[i].now < IntRange \div 2
    BY <1>8, <1>20 DEF Mon!Regular
  <2>2. ~revived[i] /\ ~beyond[i]
    <3>1. CASE kind = "ethernet"
      BY <1>8, <1>20, <3>1, Zenon DEF Mon!Regular
    <3>2. CASE kind = "solarflare"
      BY <1>9, <3>2, Zenon DEF Undisturbed
    <3> QED  BY <1>3, <3>1, <3>2
  <2>3. ASSUME ~(now < prev[i])  PROVE  now - prev[i] \in 0 .. since[i].now
    <3>1. CASE Before(i)
      <4>1. PICK b \in Nat : pkts[i] = b + since[i].now /\ prev[i] = Mon!Narrow(b)
        BY <3>1 DEF Before
      <4>2. now <= prev[i] + since[i].now
        BY <1>1, <1>3, <1>4, <4>1, Narrows
      <4> QED  BY <1>3, <1>5, <2>3, <4>2
    <3>2. CASE Begun(i)
      BY <1>3, <1>5, <2>3, <3>2 DEF Begun
    <3> QED  BY <1>9, <2>2, <3>1, <3>2 DEF CountsHold
  <2>4. passed \in 0 .. since[i].now
    <3>1. CASE now < prev[i]
      BY <1>3, <3>1 DEF Mon!Passed
    <3>2. CASE ~(now < prev[i])
      <4>1. PICK n \in 0 .. since[i].now : n = now - prev[i]
        BY <2>3, <3>2
      <4>2. passed = n \/ passed = Mon!Narrow(n)
        BY <3>2, <4>1 DEF Mon!Passed
      <4>3. n \in Nat
        BY <1>3
      <4>4. Mon!Narrow(n) = n
        <5>1. CASE kind = "solarflare"
          BY <5>1 DEF Mon!Narrow
        <5>2. CASE kind = "ethernet"
          <6>1. PICK h : h = IntRange \div 2 /\ h \in Nat
            BY <1>4, Z3
          <6>2. n < h
            BY <1>3, <2>1, <4>3, <5>2, <6>1
          <6> QED  BY <1>4, <4>3, <6>1, <6>2, NarrowFits
        <5> QED  BY <1>3, <5>1, <5>2
      <4> QED  BY <4>2, <4>4
    <3> QED  BY <3>1, <3>2
  <2> QED  BY <1>3, <1>4, <1>60, <2>1, <2>4, RateOf
<1>11. Undisturbed(i)'
  BY <1>3, <1>5, <1>8, <1>9, <1>20 DEF Undisturbed
<1>12. CountsHold(i)'
  <2>1. (prev')[i] = Mon!Narrow(pkts[i])'
    BY <1>1, <1>8, <1>20 DEF Mon!Narrow, Mon!AsInt
  <2>2. Before(i)'
    BY <1>3, <1>8, <1>20, <2>1 DEF Before
  <2> QED  BY <1>9, <1>20, <2>2 DEF CountsHold
<1>13. ASSUME NEW j \in Mon!Interface \ {i}
      PROVE  CountsHold(j)' /\ Undisturbed(j)' /\ RateHolds(j)'
  <2>1. CountsHold(j) /\ Undisturbed(j) /\ RateHolds(j)
    BY DEF MonitorInv
  <2>2. RateHolds(j)'
    BY <1>8, <1>20, <2>1 DEF RateHolds, Mon!Regular
  <2> QED  BY <1>8, <1>20, <2>1, <2>2 DEF CountsHold, Before, Begun, Undisturbed, Mon!Narrow, Mon!AsInt
<1> QED  BY <1>7, <1>10, <1>11, <1>12, <1>13 DEF MonitorInv

(* For any number of interfaces and packets and any width of a count: a    *)
(* rate shows no packets but those between two passes and is not negative, *)
(* up to the exceptions RatesHold names.                                   *)
LEMMA RatesAlways ==
  ASSUME Mon!RangeNamed
  PROVE  Mon!Spec => []Mon!RatesHold
<1>1. Mon!Init => MonitorInv
  BY MonitorBegins
<1>2. MonitorInv /\ [Mon!Next]_(Mon!vars) => MonitorInv'
  <2> SUFFICES ASSUME MonitorInv, [Mon!Next]_(Mon!vars)  PROVE  MonitorInv'
    OBVIOUS
  <2>1. CASE UNCHANGED Mon!vars
    BY <2>1 DEF Mon!vars, Mon!seen, MonitorInv, MonitorTyped, CountsHold, Before, Begun, Undisturbed,
                RateHolds, Mon!Regular, Mon!Narrow, Mon!AsInt
  <2>2. CASE Mon!DayChange
    <3>1. /\ kind' = kind /\ pkts' = pkts /\ adding' = adding /\ prev' = prev /\ rate' = rate
          /\ since' = since /\ revived' = revived /\ beyond' = beyond
      BY <2>2 DEF Mon!DayChange
    <3> QED  BY <3>1 DEF MonitorInv, MonitorTyped, CountsHold, Before, Begun, Undisturbed,
                         RateHolds, Mon!Regular, Mon!Narrow, Mon!AsInt
  <2>3. CASE Mon!PassAtOnce
    <3>1. /\ kind' = kind /\ pkts' = pkts /\ adding' = adding /\ prev' = prev /\ rate' = rate
          /\ since' = since /\ revived' = revived /\ beyond' = beyond
      BY <2>3 DEF Mon!PassAtOnce, Mon!seen
    <3> QED  BY <3>1 DEF MonitorInv, MonitorTyped, CountsHold, Before, Begun, Undisturbed,
                         RateHolds, Mon!Regular, Mon!Narrow, Mon!AsInt
  <2> QED  BY <2>1, <2>2, <2>3, LoadKeeps, StoreKeeps, PassKeeps DEF Mon!Next
<1>3. MonitorInv => Mon!RatesHold
  BY DEF MonitorInv, RateHolds, Mon!RatesHold
<1> QED  BY <1>1, <1>2, <1>3, PTL DEF Mon!Spec
-----------------------------------------------------------------------------
(* The statistics' tables (Stats).                                         *)
(* The sums of the first numbers of f, up to n of them: s has them. *)
Sums(s, f, n) ==
  /\ s \in [0 .. n -> Int] /\ s[0] = 0
  /\ \A k \in 1 .. n : s[k] = s[k - 1] + f[k - 1]

OfIntegers(f, n) == \A k \in 0 .. n - 1 : f[k] \in Int

LEMMA SumsExist ==
  ASSUME NEW f, NEW n \in Nat, OfIntegers(f, n)
  PROVE  \E s : Sums(s, f, n)
<1>1. PICK T : T = {k \in 0 .. n : ~\E s : Sums(s, f, k)}
  OBVIOUS
<1>2. ASSUME T # {}  PROVE  FALSE
  <2>1. PICK k \in T : \A j \in T : k <= j
    <3>1. T \subseteq Nat
      BY <1>1
    <3> QED  BY <1>2, <3>1, NatLeast
  <2>2. k \in 0 .. n /\ ~\E s : Sums(s, f, k)
    BY <1>1, <2>1
  <2>3. k # 0
    <3>1. PICK s : s = [j \in 0 .. 0 |-> 0]
      OBVIOUS
    <3>2. Sums(s, f, 0)
      BY <3>1 DEF Sums
    <3> QED  BY <2>2, <3>2
  <2>4. k - 1 \in 0 .. n /\ k - 1 \notin T
    <3>1. k - 1 \in 0 .. n
      BY <2>2, <2>3
    <3>2. k - 1 \in T => k <= k - 1
      BY <2>1
    <3> QED  BY <2>2, <3>1, <3>2
  <2>5. PICK s : Sums(s, f, k - 1)
    BY <1>1, <2>4
  <2>6. PICK z : z = [j \in 0 .. k |-> IF j = k THEN s[k - 1] + f[k - 1] ELSE s[j]]
    OBVIOUS
  <2>7. s[k - 1] \in Int /\ f[k - 1] \in Int
    BY <2>2, <2>3, <2>4, <2>5 DEF Sums, OfIntegers
  <2>8. /\ \A j \in 0 .. k - 1 : z[j] = s[j] /\ s[j] \in Int
        /\ z[k] = s[k - 1] + f[k - 1]
    BY <2>2, <2>3, <2>5, <2>6 DEF Sums
  <2>9. z \in [0 .. k -> Int]
    BY <2>2, <2>6, <2>7, <2>8
  <2>10. z[0] = 0
    BY <2>2, <2>3, <2>5, <2>8 DEF Sums
  <2>11. ASSUME NEW j \in 1 .. k  PROVE  z[j] = z[j - 1] + f[j - 1]
    <3>1. CASE j = k
      BY <2>2, <2>3, <2>8, <3>1
    <3>2. CASE j # k
      <4>1. j \in 1 .. k - 1 /\ j \in 0 .. k - 1 /\ j - 1 \in 0 .. k - 1
        BY <2>2, <3>2
      <4>2. s[j] = s[j - 1] + f[j - 1]
        BY <2>5, <4>1 DEF Sums
      <4> QED  BY <2>8, <4>1, <4>2
    <3> QED  BY <3>1, <3>2
  <2>12. Sums(z, f, k)
    BY <2>9, <2>10, <2>11 DEF Sums
  <2> QED  BY <2>2, <2>12
<1>3. n \notin T
  BY <1>2
<1> QED  BY <1>1, <1>3

(* If each number of g is at most that of f, or one more, so are the sums, *)
(* by as many as there are numbers.                                        *)
LEMMA SumsCompare ==
  ASSUME NEW f, NEW g, NEW n \in Nat, NEW m \in Nat, NEW s, NEW z, NEW e \in {0, 1},
         Sums(s, f, n), Sums(z, g, m), OfIntegers(f, n), OfIntegers(g, m),
         \A k \in Nat : k < n /\ k < m => g[k] <= f[k] + e,
         NEW k \in Nat, k <= n, k <= m
  PROVE  z[k] <= s[k] + e * k
<1>1. PICK T : T = {j \in Nat : j <= n /\ j <= m /\ ~(z[j] <= s[j] + e * j)}
  OBVIOUS
<1>2. ASSUME T # {}  PROVE  FALSE
  <2>1. PICK j \in T : \A i \in T : j <= i
    <3>1. T \subseteq Nat
      BY <1>1
    <3> QED  BY <1>2, <3>1, NatLeast
  <2>2. j \in Nat /\ j <= n /\ j <= m /\ ~(z[j] <= s[j] + e * j)
    BY <1>1, <2>1
  <2>3. j # 0
    BY <2>2 DEF Sums
  <2>4. PICK i : i = j - 1 /\ i \in Nat /\ i <= n /\ i <= m /\ i < n /\ i < m /\ j = i + 1
    BY <2>2, <2>3
  <2>5. z[i] <= s[i] + e * i
    <3>1. i \notin T
      BY <2>1, <2>4
    <3> QED  BY <1>1, <2>4, <3>1
  <2>6. s[j] = s[i] + f[i] /\ z[j] = z[i] + g[i]
    BY <2>2, <2>3, <2>4 DEF Sums
  <2>7. s[i] \in Int /\ z[i] \in Int /\ f[i] \in Int /\ g[i] \in Int
    BY <2>4 DEF Sums, OfIntegers
  <2>8. g[i] <= f[i] + e
    BY <2>4
  <2>9. e * j = e * i + e
    BY <2>4
  <2>10. e * i \in Int
    BY <2>4
  <2> QED  BY <2>2, <2>5, <2>6, <2>7, <2>8, <2>9, <2>10
<1>3. k \notin T
  BY <1>2
<1> QED  BY <1>1, <1>3

LEMMA TotalSums ==
  ASSUME NEW f, NEW n \in Nat, OfIntegers(f, n)
  PROVE  \E s : Sums(s, f, n) /\ Sta!Total(f, n) = s[n]
<1>1. PICK z : Sums(z, f, n)
  BY SumsExist
<1>2. z = [k \in 0 .. n |-> IF k = 0 THEN 0 ELSE z[k - 1] + f[k - 1]]
  BY <1>1 DEF Sums
<1>3. PICK s : /\ s = [k \in 0 .. n |-> IF k = 0 THEN 0 ELSE s[k - 1] + f[k - 1]]
               /\ Sta!Total(f, n) = s[n]
  BY <1>2, Zenon DEF Sta!Total
<1>4. PICK T : T = {k \in 0 .. n : s[k] # z[k]}
  OBVIOUS
<1>5. ASSUME T # {}  PROVE  FALSE
  <2>1. PICK k \in T : \A j \in T : k <= j
    <3>1. T \subseteq Nat
      BY <1>4
    <3> QED  BY <1>5, <3>1, NatLeast
  <2>2. k \in 0 .. n /\ s[k] # z[k]
    BY <1>4, <2>1
  <2>3. k # 0
    BY <1>2, <1>3, <2>2
  <2>4. PICK j : j = k - 1 /\ j \in 0 .. n /\ j < k
    BY <2>2, <2>3
  <2>5. s[j] = z[j]
    <3>1. j \notin T
      BY <2>1, <2>2, <2>4
    <3> QED  BY <1>4, <2>4, <3>1
  <2>6. s[k] = s[j] + f[j] /\ z[k] = z[j] + f[j]
    BY <1>2, <1>3, <2>2, <2>3, <2>4
  <2> QED  BY <2>2, <2>5, <2>6
<1>6. s = z
  <2>1. \A k \in 0 .. n : s[k] = z[k]
    BY <1>4, <1>5
  <2>2. DOMAIN s = 0 .. n /\ DOMAIN z = 0 .. n /\ s = [k \in DOMAIN s |-> s[k]] /\ z = [k \in DOMAIN z |-> z[k]]
    BY <1>2, <1>3
  <2> QED  BY <2>1, <2>2
<1> QED  BY <1>1, <1>3, <1>6

(* A sum and the next one. *)
LEMMA TotalGoesOn ==
  ASSUME NEW f, NEW n \in Nat, OfIntegers(f, n + 1)
  PROVE  Sta!Total(f, n) \in Int /\ Sta!Total(f, n + 1) = Sta!Total(f, n) + f[n]
<1>1. OfIntegers(f, n) /\ f[n] \in Int
  BY DEF OfIntegers
<1>2. PICK s : Sums(s, f, n) /\ Sta!Total(f, n) = s[n]
  BY <1>1, TotalSums
<1>3. PICK m : m = n + 1 /\ m \in Nat /\ n <= m
  OBVIOUS
<1>4. PICK z : Sums(z, f, m) /\ Sta!Total(f, m) = z[m]
  BY <1>3, TotalSums
<1>5. z[n] <= s[n] + 0 * n /\ s[n] <= z[n] + 0 * n
  <2>1. \A k \in Nat : k < n => f[k] <= f[k] + 0
    BY <1>1 DEF OfIntegers
  <2>2. OfIntegers(f, m)
    BY <1>3
  <2>3. z[n] <= s[n] + 0 * n
    BY <1>1, <1>2, <1>3, <1>4, <2>1, <2>2, SumsCompare
  <2>4. s[n] <= z[n] + 0 * n
    BY <1>1, <1>2, <1>3, <1>4, <2>1, <2>2, SumsCompare
  <2> QED  BY <2>3, <2>4
<1>6. s[n] \in Int /\ z[n] \in Int
  BY <1>2, <1>3, <1>4 DEF Sums
<1>7. s[n] = z[n]
  BY <1>5, <1>6
<1>8. z[m] = z[n] + f[n]
  BY <1>3, <1>4 DEF Sums
<1> QED  BY <1>2, <1>3, <1>4, <1>6, <1>7, <1>8

LEMMA TotalOfNone ==
  ASSUME NEW f  PROVE  Sta!Total(f, 0) = 0
<1>1. PICK s : Sums(s, f, 0) /\ Sta!Total(f, 0) = s[0]
  <2>1. OfIntegers(f, 0)
    BY DEF OfIntegers
  <2> QED  BY <2>1, TotalSums
<1> QED  BY <1>1 DEF Sums

LEMMA TotalsCompare ==
  ASSUME NEW f, NEW g, NEW n \in Nat, NEW e \in {0, 1}, OfIntegers(f, n), OfIntegers(g, n),
         \A k \in Nat : k < n => g[k] <= f[k] + e
  PROVE  Sta!Total(g, n) <= Sta!Total(f, n) + e * n
<1>1. PICK s : Sums(s, f, n) /\ Sta!Total(f, n) = s[n]
  BY TotalSums
<1>2. PICK z : Sums(z, g, n) /\ Sta!Total(g, n) = z[n]
  BY TotalSums
<1>3. z[n] <= s[n] + e * n
  BY <1>1, <1>2, SumsCompare
<1> QED  BY <1>1, <1>2, <1>3

-----------------------------------------------------------------------------
(* A manager's count is right, or one too many until its next lookup, or   *)
(* behind in the middle of a cleanup.                                      *)
CountedSessions(sm) ==
  /\ open[sm] \in Nat /\ active[sm] \in Nat /\ open[sm] <= active[sm]
  /\ doing[sm] = "flush" => active[sm] = open[sm]
  /\ doing[sm] = "nothing" => active[sm] <= open[sm] + 1

(* How far the reader is in its table, if nothing has changed. *)
PrintedSoFar ==
  /\ reader.at = "sum" => reader.cnt = Sta!Total(queue[reader.sm], reader.q)
  /\ reader.at = "sum" /\ reader.q > 0 => reader.shown = active[reader.sm]
  /\ reader.at = "shown" => /\ reader.cnt = Sta!Total(queue[reader.sm], Queues)
                            /\ reader.shown = active[reader.sm]
LoggedSoFar ==
  /\ reader.at = "sum" => reader.shown = Sta!Total(active, reader.sm)
  /\ reader.at = "shown" => reader.shown = Sta!Total(active, Managers)

ReaderTyped ==
  /\ thread \in {"print", "log"}
  /\ reader \in [at : {"asleep", "sum", "shown"}, sm : Sta!Manager, q : Sta!Queue, cnt : Int,
                  shown : Int, overtaken : BOOLEAN]
  /\ reader.at = "asleep" => reader = Sta!Asleep
  /\ thread = "print" /\ reader.at = "shown" => reader.q = 0

CountersTyped ==
  /\ queue \in [Sta!Manager -> [Sta!Queue -> Nat]]
  /\ DOMAIN open = Sta!Manager /\ DOMAIN active = Sta!Manager
  /\ doing \in [Sta!Manager -> {"nothing", "flush", "cleanup"}]

StatsInv ==
  /\ ReaderTyped /\ CountersTyped
  /\ \A sm \in Sta!Manager : CountedSessions(sm)
  /\ ~reader.overtaken => (thread = "print" => PrintedSoFar) /\ (thread = "log" => LoggedSoFar)

LEMMA StatsBegin ==
  ASSUME Sta!SomeOfEach, Sta!Init  PROVE  StatsInv
<1>1. reader = Sta!Asleep /\ thread \in {"print", "log"}
  BY DEF Sta!Init
<1>2. ReaderTyped
  BY <1>1 DEF ReaderTyped, Sta!Asleep, Sta!Manager, Sta!Queue, Sta!SomeOfEach
<1>3. CountersTyped
  BY DEF Sta!Init, CountersTyped
<1>4. \A sm \in Sta!Manager : CountedSessions(sm)
  BY DEF Sta!Init, CountedSessions
<1> QED  BY <1>1, <1>2, <1>3, <1>4 DEF StatsInv, Sta!Asleep, PrintedSoFar, LoggedSoFar

(* A change of a counter: the reader is asleep, or what it sums up is not  *)
(* spoken of any more.                                                     *)
LEMMA OvertakenKeeps ==
  ASSUME StatsInv, Sta!Overtake, thread' = thread
  PROVE  /\ ReaderTyped'
         /\ ~(reader').overtaken => (thread = "print" => PrintedSoFar)' /\ (thread = "log" => LoggedSoFar)'
<1>1. reader' = [reader EXCEPT !.overtaken = (reader.at # "asleep")]
  BY DEF Sta!Overtake
<1>2. reader \in [at : {"asleep", "sum", "shown"}, sm : Sta!Manager, q : Sta!Queue, cnt : Int,
                  shown : Int, overtaken : BOOLEAN]
  BY DEF StatsInv, ReaderTyped
<1>3. /\ (reader').at = reader.at /\ (reader').q = reader.q
      /\ (reader').overtaken = (reader.at # "asleep")
      /\ reader' \in [at : {"asleep", "sum", "shown"}, sm : Sta!Manager, q : Sta!Queue, cnt : Int,
                       shown : Int, overtaken : BOOLEAN]
  BY <1>1, <1>2
<1>4. ASSUME reader.at = "asleep"  PROVE  reader' = Sta!Asleep
  <2>1. reader = Sta!Asleep
    BY <1>4 DEF StatsInv, ReaderTyped
  <2> QED  BY <1>1, <1>4, <2>1 DEF Sta!Asleep
<1>5. ReaderTyped'
  BY <1>3, <1>4 DEF StatsInv, ReaderTyped, Sta!Asleep, Sta!Manager, Sta!Queue
<1> QED  BY <1>3, <1>5 DEF PrintedSoFar, LoggedSoFar

LEMMA CountersKeep ==
  ASSUME StatsInv, NEW sm \in Sta!Manager,
         \/ \E q \in Sta!Queue : Sta!Exchange(sm, q)
         \/ Sta!Lookup(sm) \/ Sta!Flush(sm) \/ Sta!CleanOne(sm) \/ Sta!CleanEnd(sm)
  PROVE  StatsInv'
<1>1. Sta!Overtake /\ thread' = thread
  BY DEF Sta!Exchange, Sta!Lookup, Sta!Flush, Sta!CleanOne, Sta!CleanEnd, Sta!Released
<1>2. CountersTyped'
  <2>1. CASE \E q \in Sta!Queue : Sta!Exchange(sm, q)
    BY <2>1 DEF Sta!Exchange, StatsInv, CountersTyped
  <2>2. CASE Sta!Lookup(sm)
    BY <2>2 DEF Sta!Lookup, StatsInv, CountersTyped
  <2>3. CASE Sta!Flush(sm)
    BY <2>3 DEF Sta!Flush, Sta!Released, StatsInv, CountersTyped
  <2>4. CASE Sta!CleanOne(sm)
    BY <2>4 DEF Sta!CleanOne, Sta!Released, StatsInv, CountersTyped
  <2>5. CASE Sta!CleanEnd(sm)
    BY <2>5 DEF Sta!CleanEnd, StatsInv, CountersTyped
  <2> QED  BY <2>1, <2>2, <2>3, <2>4, <2>5
<1>3. ASSUME NEW m \in Sta!Manager  PROVE  CountedSessions(m)'
  <2> USE DEF CountedSessions, StatsInv, CountersTyped
  <2>1. CASE \E q \in Sta!Queue : Sta!Exchange(sm, q)
    BY <2>1 DEF Sta!Exchange
  <2>2. CASE Sta!Lookup(sm)
    BY <2>2 DEF Sta!Lookup
  <2>3. CASE Sta!Flush(sm)
    BY <2>3 DEF Sta!Flush, Sta!Released
  <2>4. CASE Sta!CleanOne(sm)
    BY <2>4 DEF Sta!CleanOne, Sta!Released
  <2>5. CASE Sta!CleanEnd(sm)
    BY <2>5 DEF Sta!CleanEnd
  <2> QED  BY <2>1, <2>2, <2>3, <2>4, <2>5
<1> QED  BY <1>1, <1>2, <1>3, OvertakenKeeps DEF StatsInv

(* A step of the thread changes only itself. *)
LEMMA ReaderKeeps ==
  ASSUME StatsInv, ReaderTyped',
         queue' = queue, open' = open, active' = active, doing' = doing,
         ~(reader').overtaken => (thread = "print" => PrintedSoFar)' /\ (thread = "log" => LoggedSoFar)'
  PROVE  StatsInv'
  BY DEF StatsInv, CountersTyped, CountedSessions

LEMMA SecondKeeps ==
  ASSUME Sta!SomeOfEach, StatsInv, Sta!SleptSecond  PROVE  StatsInv'
<1>1. /\ thread' = thread /\ queue' = queue /\ open' = open /\ active' = active /\ doing' = doing
      /\ \E due \in BOOLEAN : reader' = [reader EXCEPT !.at = IF due THEN "sum" ELSE @]
      /\ reader = Sta!Asleep
  BY DEF Sta!SleptSecond, StatsInv, ReaderTyped
<1>2. reader' = Sta!Asleep \/ reader' = [Sta!Asleep EXCEPT !.at = "sum"]
  BY <1>1 DEF Sta!Asleep
<1>3. 0 \in Sta!Manager /\ 0 \in Sta!Queue
  BY DEF Sta!Manager, Sta!Queue, Sta!SomeOfEach
<1>4. ReaderTyped'
  BY <1>1, <1>2, <1>3 DEF StatsInv, ReaderTyped, Sta!Asleep, Sta!Manager, Sta!Queue
<1>5. PrintedSoFar' /\ LoggedSoFar'
  BY <1>2, TotalOfNone DEF PrintedSoFar, LoggedSoFar, Sta!Asleep
<1> QED  BY <1>1, <1>4, <1>5, ReaderKeeps
LEMMA SumQueueKeeps ==
  ASSUME Sta!SomeOfEach, StatsInv, Sta!SumQueue  PROVE  StatsInv'
<1>1. /\ thread = "print" /\ reader.at = "sum"
      /\ thread' = thread /\ queue' = queue /\ open' = open /\ active' = active /\ doing' = doing
      /\ reader' = [reader EXCEPT !.cnt = @ + queue[reader.sm][reader.q],
                                  !.shown = IF reader.q = 0 THEN active[reader.sm] ELSE @,
                                  !.q = (@ + 1) % Queues,
                                  !.at = IF reader.q = Queues - 1 THEN "shown" ELSE @]
  BY DEF Sta!SumQueue, Sta!Go
<1>2. reader \in [at : {"asleep", "sum", "shown"}, sm : Sta!Manager, q : Sta!Queue, cnt : Int,
                  shown : Int, overtaken : BOOLEAN]
  BY DEF StatsInv, ReaderTyped
<1>3. PICK q, row : q = reader.q /\ row = queue[reader.sm]
  OBVIOUS
<1>4. q \in 0 .. Queues - 1 /\ Queues \in Nat /\ Queues > 0 /\ row \in [0 .. Queues - 1 -> Nat]
  BY <1>2, <1>3 DEF Sta!Queue, Sta!SomeOfEach, StatsInv, CountersTyped
<1>5. (q + 1) % Queues = IF q = Queues - 1 THEN 0 ELSE q + 1
  BY <1>4
<1>6. active[reader.sm] \in Nat
  BY <1>2 DEF StatsInv, CountedSessions
<1>7. /\ (reader').cnt = reader.cnt + row[q]
      /\ (reader').shown = IF q = 0 THEN active[reader.sm] ELSE reader.shown
      /\ (reader').q = (q + 1) % Queues
      /\ (reader').at = IF q = Queues - 1 THEN "shown" ELSE "sum"
      /\ (reader').sm = reader.sm /\ (reader').overtaken = reader.overtaken
  BY <1>1, <1>2, <1>3
<1>8. reader' \in [at : {"asleep", "sum", "shown"}, sm : Sta!Manager, q : Sta!Queue, cnt : Int,
                   shown : Int, overtaken : BOOLEAN]
  <2>1. (reader').cnt \in Int
    BY <1>2, <1>4, <1>7
  <2>2. (reader').shown \in Int
    BY <1>2, <1>6, <1>7
  <2>3. (reader').q \in Sta!Queue
    BY <1>4, <1>5, <1>7 DEF Sta!Queue
  <2>4. DOMAIN (reader') = {"at", "sm", "q", "cnt", "shown", "overtaken"} /\ reader' = [x \in DOMAIN (reader') |-> (reader')[x]]
    BY <1>1, <1>2
  <2> QED  BY <1>2, <1>7, <2>1, <2>2, <2>3, <2>4
<1>9. ReaderTyped'
  <2>1. (reader').at # "asleep"
    BY <1>7
  <2>2. (reader').at = "shown" => (reader').q = 0
    BY <1>5, <1>7
  <2> QED  BY <1>1, <1>8, <2>1, <2>2 DEF ReaderTyped
<1>10. ASSUME ~(reader').overtaken  PROVE  PrintedSoFar'
  <2>1. reader.cnt = Sta!Total(row, q) /\ (q > 0 => reader.shown = active[reader.sm])
    BY <1>1, <1>3, <1>7, <1>10 DEF StatsInv, PrintedSoFar
  <2>2. Sta!Total(row, q + 1) = Sta!Total(row, q) + row[q]
    <3>1. OfIntegers(row, q + 1) /\ q \in Nat
      BY <1>4 DEF OfIntegers
    <3> QED  BY <3>1, TotalGoesOn
  <2>3. (reader').cnt = Sta!Total(row, q + 1)
    BY <1>7, <2>1, <2>2
  <2>4. (reader').shown = active[reader.sm]
    BY <1>4, <1>7, <2>1
  <2>5. (queue')[(reader').sm] = row /\ (active')[(reader').sm] = active[reader.sm]
    BY <1>1, <1>3, <1>7
  <2>6. CASE q = Queues - 1
    <3>1. (reader').at = "shown" /\ (reader').cnt = Sta!Total(row, Queues)
      BY <1>4, <1>7, <2>3, <2>6
    <3> QED  BY <2>4, <2>5, <3>1 DEF PrintedSoFar, Sta!Total
  <2>7. CASE q # Queues - 1
    <3>1. (reader').at = "sum" /\ (reader').cnt = Sta!Total(row, (reader').q)
      BY <1>5, <1>7, <2>3, <2>7
    <3> QED  BY <2>4, <2>5, <3>1 DEF PrintedSoFar, Sta!Total
  <2> QED  BY <2>6, <2>7
<1> QED  BY <1>1, <1>9, <1>10, ReaderKeeps

LEMMA RowDoneKeeps ==
  ASSUME Sta!SomeOfEach, StatsInv, Sta!RowDone  PROVE  StatsInv'
<1>1. /\ thread = "print" /\ reader.at = "shown"
      /\ thread' = thread /\ queue' = queue /\ open' = open /\ active' = active /\ doing' = doing
      /\ reader' = IF reader.sm = Managers - 1 THEN Sta!Asleep ELSE Sta!NextRow(reader)
  BY DEF Sta!RowDone, Sta!Go
<1>2. /\ reader \in [at : {"asleep", "sum", "shown"}, sm : Sta!Manager, q : Sta!Queue, cnt : Int,
                     shown : Int, overtaken : BOOLEAN]
      /\ reader.q = 0
  BY <1>1 DEF StatsInv, ReaderTyped
<1>3. CASE reader.sm = Managers - 1
  <2>1. reader' = Sta!Asleep
    BY <1>1, <1>3
  <2>2. 0 \in Sta!Manager /\ 0 \in Sta!Queue
    BY DEF Sta!Manager, Sta!Queue, Sta!SomeOfEach
  <2>3. ReaderTyped'
    <3>1. reader' \in [at : {"asleep", "sum", "shown"}, sm : Sta!Manager, q : Sta!Queue, cnt : Int,
                     shown : Int, overtaken : BOOLEAN]
      BY <2>1, <2>2 DEF Sta!Asleep
    <3>2. (reader').at # "shown"
      BY <2>1 DEF Sta!Asleep
    <3> QED  BY <1>1, <2>1, <3>1, <3>2 DEF ReaderTyped, Sta!Asleep
  <2>4. PrintedSoFar' /\ LoggedSoFar'
    BY <2>1 DEF PrintedSoFar, LoggedSoFar, Sta!Asleep
  <2> QED  BY <1>1, <2>3, <2>4, ReaderKeeps
<1>4. CASE reader.sm # Managers - 1
  <2>0. PICK m : m = reader.sm + 1
    OBVIOUS
  <2>1. reader' = [reader EXCEPT !.sm = m, !.at = "sum", !.cnt = 0, !.overtaken = FALSE]
    BY <1>1, <1>4, <2>0 DEF Sta!NextRow
  <2>2. m \in Sta!Manager
    BY <1>2, <1>4, <2>0 DEF Sta!Manager, Sta!SomeOfEach
  <2>3. ReaderTyped'
    <3>0. reader \in [at : {"asleep", "sum", "shown"}, sm : Sta!Manager, q : Sta!Queue, cnt : Int,
                     shown : Int, overtaken : BOOLEAN]
      BY <1>2
    <3>1. reader' \in [at : {"asleep", "sum", "shown"}, sm : Sta!Manager, q : Sta!Queue, cnt : Int,
                     shown : Int, overtaken : BOOLEAN]
      <4>1. /\ (reader').at = "sum" /\ (reader').sm = m /\ (reader').q = reader.q
            /\ (reader').cnt = 0 /\ (reader').shown = reader.shown /\ (reader').overtaken = FALSE
        BY <2>1, <3>0
      <4>2. reader.q \in Sta!Queue /\ reader.shown \in Int
        BY <3>0
      <4>3. /\ DOMAIN (reader') = {"at", "sm", "q", "cnt", "shown", "overtaken"}
            /\ reader' = [x \in DOMAIN (reader') |-> (reader')[x]]
        BY <2>1, <3>0
      <4>4. /\ (reader').at \in {"asleep", "sum", "shown"} /\ (reader').sm \in Sta!Manager
            /\ (reader').q \in Sta!Queue /\ (reader').cnt \in Int /\ (reader').shown \in Int
        BY <2>2, <4>1, <4>2
      <4>5. (reader').overtaken \in BOOLEAN
        BY <4>1
      <4> QED  BY <4>3, <4>4, <4>5
    <3>2. (reader').at = "sum"
      BY <1>2, <2>1
    <3> QED  BY <1>1, <3>1, <3>2 DEF ReaderTyped, Sta!Manager, Sta!Queue
  <2>4. (reader').at = "sum" /\ (reader').cnt = 0 /\ (reader').q = 0
    BY <1>2, <2>1
  <2>5. PrintedSoFar'
    BY <2>4, TotalOfNone DEF PrintedSoFar
  <2> QED  BY <1>1, <2>3, <2>5, ReaderKeeps
<1> QED  BY <1>3, <1>4

LEMMA SumActiveKeeps ==
  ASSUME Sta!SomeOfEach, StatsInv, Sta!SumActive  PROVE  StatsInv'
<1>1. /\ thread = "log" /\ reader.at = "sum"
      /\ thread' = thread /\ queue' = queue /\ open' = open /\ active' = active /\ doing' = doing
      /\ reader' = [reader EXCEPT !.shown = @ + active[reader.sm],
                                  !.sm = (@ + 1) % Managers,
                                  !.at = IF reader.sm = Managers - 1 THEN "shown" ELSE @]
  BY DEF Sta!SumActive, Sta!Go
<1>2. reader \in [at : {"asleep", "sum", "shown"}, sm : Sta!Manager, q : Sta!Queue, cnt : Int,
                  shown : Int, overtaken : BOOLEAN]
  BY DEF StatsInv, ReaderTyped
<1>3. PICK m : m = reader.sm
  OBVIOUS
<1>4. m \in 0 .. Managers - 1 /\ Managers \in Nat /\ Managers > 0
  BY <1>2, <1>3 DEF Sta!Manager, Sta!SomeOfEach
<1>5. (m + 1) % Managers = IF m = Managers - 1 THEN 0 ELSE m + 1
  BY <1>4
<1>6. \A k \in 0 .. Managers - 1 : active[k] \in Nat
  BY DEF StatsInv, CountedSessions, Sta!Manager
<1>7. /\ (reader').shown = reader.shown + active[m]
      /\ (reader').sm = (m + 1) % Managers
      /\ (reader').at = IF m = Managers - 1 THEN "shown" ELSE "sum"
      /\ (reader').overtaken = reader.overtaken
  BY <1>1, <1>2, <1>3
<1>8. ReaderTyped'
  <2>1. (m + 1) % Managers \in Sta!Manager
    BY <1>4, <1>5 DEF Sta!Manager
  <2>2. reader.shown + active[m] \in Int
    BY <1>2, <1>4, <1>6
  <2>3. reader' \in [at : {"asleep", "sum", "shown"}, sm : Sta!Manager, q : Sta!Queue, cnt : Int,
                     shown : Int, overtaken : BOOLEAN]
    BY <1>1, <1>2, <1>3, <2>1, <2>2
  <2>4. (reader').at # "asleep" /\ thread # "print"
    BY <1>1, <1>7
  <2> QED  BY <1>1, <2>3, <2>4 DEF ReaderTyped
<1>9. ASSUME ~(reader').overtaken  PROVE  LoggedSoFar'
  <2>1. reader.shown = Sta!Total(active, m)
    BY <1>1, <1>3, <1>7, <1>9 DEF StatsInv, LoggedSoFar
  <2>2. Sta!Total(active, m + 1) = Sta!Total(active, m) + active[m]
    <3>1. OfIntegers(active, m + 1) /\ m \in Nat
      BY <1>4, <1>6 DEF OfIntegers
    <3> QED  BY <3>1, TotalGoesOn
  <2>3. (reader').shown = Sta!Total(active, m + 1)
    BY <1>7, <2>1, <2>2
  <2>4. CASE m = Managers - 1
    <3>1. (reader').at = "shown" /\ (reader').shown = Sta!Total(active, Managers)
      BY <1>4, <1>7, <2>3, <2>4
    <3> QED  BY <1>1, <3>1 DEF LoggedSoFar, Sta!Total
  <2>5. CASE m # Managers - 1
    <3>1. (reader').at = "sum" /\ (reader').shown = Sta!Total(active, (reader').sm)
      BY <1>5, <1>7, <2>3, <2>5
    <3> QED  BY <1>1, <3>1 DEF LoggedSoFar, Sta!Total
  <2> QED  BY <2>4, <2>5
<1> QED  BY <1>1, <1>8, <1>9, ReaderKeeps

LEMMA LineDoneKeeps ==
  ASSUME Sta!SomeOfEach, StatsInv, Sta!LineDone  PROVE  StatsInv'
<1>1. /\ thread = "log" /\ thread' = thread /\ queue' = queue /\ open' = open /\ active' = active
      /\ doing' = doing /\ reader' = Sta!Asleep
  BY DEF Sta!LineDone, Sta!Go
<1>2. 0 \in Sta!Manager /\ 0 \in Sta!Queue
  BY DEF Sta!Manager, Sta!Queue, Sta!SomeOfEach
<1>3. ReaderTyped'
  BY <1>1, <1>2 DEF ReaderTyped, Sta!Asleep, Sta!Manager, Sta!Queue
<1>4. PrintedSoFar' /\ LoggedSoFar'
  BY <1>1 DEF PrintedSoFar, LoggedSoFar, Sta!Asleep
<1> QED  BY <1>1, <1>3, <1>4, ReaderKeeps

LEMMA StatsKeep ==
  ASSUME Sta!SomeOfEach, StatsInv, [Sta!Next]_(Sta!vars)  PROVE  StatsInv'
<1>1. CASE UNCHANGED Sta!vars
  <2>1. /\ thread' = thread /\ reader' = reader
        /\ queue' = queue /\ open' = open /\ active' = active /\ doing' = doing
    BY <1>1 DEF Sta!vars
  <2>2. ReaderTyped'
    BY <2>1 DEF StatsInv, ReaderTyped, Sta!Asleep, Sta!Manager, Sta!Queue
  <2>3. ~(reader').overtaken => (thread = "print" => PrintedSoFar)' /\ (thread = "log" => LoggedSoFar)'
    BY <2>1 DEF StatsInv, PrintedSoFar, LoggedSoFar, Sta!Total
  <2> QED  BY <2>1, <2>2, <2>3, ReaderKeeps
<1>2. CASE Sta!Reload
  <2>1. /\ thread' = thread /\ reader' = reader
        /\ queue' = queue /\ open' = open /\ active' = active /\ doing' = doing
    BY <1>2 DEF Sta!Reload
  <2>2. ReaderTyped'
    BY <2>1 DEF StatsInv, ReaderTyped, Sta!Asleep, Sta!Manager, Sta!Queue
  <2>3. ~(reader').overtaken => (thread = "print" => PrintedSoFar)' /\ (thread = "log" => LoggedSoFar)'
    BY <2>1 DEF StatsInv, PrintedSoFar, LoggedSoFar, Sta!Total
  <2> QED  BY <2>1, <2>2, <2>3, ReaderKeeps
<1> QED  BY <1>1, <1>2, CountersKeep, SecondKeeps, SumQueueKeeps, RowDoneKeeps, SumActiveKeeps,
            LineDoneKeeps DEF Sta!Next

LEMMA TablesAlways ==
  ASSUME Sta!SomeOfEach  PROVE  Sta!Spec => []Sta!TablesHold
<1>1. Sta!Init => StatsInv
  BY StatsBegin
<1>2. StatsInv /\ [Sta!Next]_(Sta!vars) => StatsInv'
  BY StatsKeep
<1>3. StatsInv => Sta!TablesHold
  <2> SUFFICES ASSUME StatsInv, reader.at = "shown", ~reader.overtaken  PROVE  Sta!TablesHold
    BY DEF Sta!TablesHold
  <2>1. thread \in {"print", "log"} /\ reader.sm \in Sta!Manager
    BY DEF StatsInv, ReaderTyped
  <2>2. CASE thread = "print"
    <3>1. PrintedSoFar /\ CountedSessions(reader.sm) /\ doing[reader.sm] \in {"nothing", "flush", "cleanup"}
      BY <2>1, <2>2 DEF StatsInv, CountersTyped
    <3>2. /\ reader.cnt = Sta!Total(queue[reader.sm], Queues)
          /\ reader.shown >= open[reader.sm]
          /\ reader.shown <= open[reader.sm] + 1 \/ doing[reader.sm] = "cleanup"
      BY <3>1 DEF PrintedSoFar, CountedSessions
    <3> QED  BY <2>2, <3>2 DEF Sta!TablesHold
  <2>3. CASE thread = "log"
    <3>1. LoggedSoFar
      BY <2>3 DEF StatsInv
    <3>2. reader.shown = Sta!Total(active, Managers)
      BY <3>1 DEF LoggedSoFar
    <3>3. Managers \in Nat /\ Sta!Manager = 0 .. Managers - 1
      BY DEF Sta!SomeOfEach, Sta!Manager
    <3>4. \A k \in 0 .. Managers - 1 : CountedSessions(k) /\ doing[k] \in {"nothing", "flush", "cleanup"}
      BY <3>3 DEF StatsInv, CountersTyped
    <3>5. OfIntegers(open, Managers) /\ OfIntegers(active, Managers)
      BY <3>4 DEF OfIntegers, CountedSessions
    <3>6. Sta!Total(open, Managers) <= Sta!Total(active, Managers) + 0 * Managers
      <4>1. \A k \in Nat : k < Managers => open[k] <= active[k] + 0
        BY <3>3, <3>4 DEF CountedSessions
      <4> QED  BY <3>3, <3>5, <4>1, TotalsCompare
    <3>7. ASSUME \A k \in 0 .. Managers - 1 : doing[k] # "cleanup"
          PROVE  Sta!Total(active, Managers) <= Sta!Total(open, Managers) + 1 * Managers
      <4>1. \A k \in Nat : k < Managers => active[k] <= open[k] + 1
        BY <3>3, <3>4, <3>7 DEF CountedSessions
      <4> QED  BY <3>3, <3>5, <4>1, TotalsCompare
    <3>8. Sta!Total(open, Managers) \in Int /\ Sta!Total(active, Managers) \in Int
      <4>1. PICK s : Sums(s, open, Managers) /\ Sta!Total(open, Managers) = s[Managers]
        BY <3>3, <3>5, TotalSums
      <4>2. PICK z : Sums(z, active, Managers) /\ Sta!Total(active, Managers) = z[Managers]
        BY <3>3, <3>5, TotalSums
      <4> QED  BY <3>3, <4>1, <4>2 DEF Sums
    <3>9. reader.shown >= Sta!Total(open, Managers)
      BY <3>2, <3>3, <3>6, <3>8
    <3>10. \/ reader.shown <= Sta!Total(open, Managers) + Managers
           \/ \E k \in Sta!Manager : doing[k] = "cleanup"
      BY <3>2, <3>3, <3>7, <3>8
    <3> QED  BY <2>3, <3>9, <3>10 DEF Sta!TablesHold
  <2> QED  BY <2>1, <2>2, <2>3
<1> QED  BY <1>1, <1>2, <1>3, PTL DEF Sta!Spec

-----------------------------------------------------------------------------
(* For any width of an int, and any number of interfaces, session          *)
(* managers, queues and frequencies of the print: a rate is not negative,  *)
(* and above the packets of its second only where a listener's store has   *)
(* undone a reset or a count beyond an int was reset; a row or line during *)
(* whose sum nothing has changed shows its own manager's messages, and at  *)
(* most one session too many for each manager, but in a cleanup.           *)
THEOREM Statistics ==
  ASSUME Mon!RangeNamed, Sta!SomeOfEach
  PROVE  Mon!Spec /\ Sta!Spec => []StatisticsHold
<1>1. Mon!Spec => []Mon!RatesHold
  BY RatesAlways
<1>2. Sta!Spec => []Sta!TablesHold
  BY TablesAlways
<1> QED  BY <1>1, <1>2, PTL DEF StatisticsHold

-----------------------------------------------------------------------------
(* The objects that keep an address (Address).                             *)
(* An address is read as it is written. *)
ReadsAsWritten(o) ==
  object[o].valid /\ o \notin zeroed /\ ~(class = "IPv6Address" /\ o \in cleared) =>
    object[o].text = object[o].addr
AddressInv ==
  DOMAIN object = Objects /\ \A o \in Objects : ReadsAsWritten(o)

LEMMA AddressKeeps ==
  ASSUME AddressInv, [Adr!Next]_(Adr!vars)  PROVE  AddressInv'
<1>1. CASE UNCHANGED Adr!vars
  BY <1>1 DEF Adr!vars, AddressInv, ReadsAsWritten
<1> SUFFICES ASSUME NEW o \in Objects,
                    \/ Adr!Make(o) \/ Adr!MakeOfBadText(o)
                    \/ \E other \in Objects : Adr!Copy(o, other) \/ Adr!Assign(o, other)
             PROVE  AddressInv'
  BY <1>1 DEF Adr!Next
<1> USE DEF AddressInv, ReadsAsWritten
<1>2. CASE Adr!Make(o)
  BY <1>2 DEF Adr!Make
<1>3. CASE Adr!MakeOfBadText(o)
  BY <1>3 DEF Adr!MakeOfBadText
<1>4. ASSUME NEW other \in Objects, Adr!Copy(o, other)  PROVE  AddressInv'
  BY <1>4 DEF Adr!Copy, Adr!Copied, Adr!Inherits
<1>5. ASSUME NEW other \in Objects, Adr!Assign(o, other)  PROVE  AddressInv'
  <2>1. /\ object' = [object EXCEPT ![o] =
             [addr  |-> IF o = other THEN 0 ELSE object[other].addr,
              text  |-> object[other].text,
              valid |-> class = "IPv6Address" \/ object[other].valid]]
        /\ zeroed' = (IF o = other THEN zeroed \cup {o} ELSE Adr!Inherits(zeroed, o, other))
        /\ cleared' = (IF object[other].valid THEN Adr!Inherits(cleared, o, other) ELSE cleared \cup {o})
        /\ class' = class
    BY <1>5 DEF Adr!Assign, Adr!ValidOnce
  <2>2. CASE o = other
    <3>1. o \in zeroed' /\ zeroed \subseteq zeroed'
      BY <2>1, <2>2
    <3>2. \A p \in Objects \ {o} : (object')[p] = object[p] /\ (p \in cleared <=> p \in cleared')
      BY <2>1 DEF Adr!Inherits
    <3> QED  BY <2>1, <3>1, <3>2
  <2>3. CASE o # other
    <3>1. \A p \in Objects \ {o} : /\ (object')[p] = object[p] /\ (p \in cleared <=> p \in cleared')
                                  /\ (p \in zeroed <=> p \in zeroed')
      BY <2>1, <2>3 DEF Adr!Inherits
    <3>2. /\ (object')[o].text = object[other].text /\ (object')[o].addr = object[other].addr
          /\ o \notin zeroed' => other \notin zeroed
          /\ (object')[o].valid <=> class = "IPv6Address" \/ object[other].valid
          /\ o \notin cleared' => other \notin cleared /\ object[other].valid
      BY <2>1, <2>3 DEF Adr!Inherits
    <3>3. ReadsAsWritten(other)
      OBVIOUS
    <3> QED  BY <2>1, <3>1, <3>2, <3>3
  <2> QED  BY <2>2, <2>3
<1> QED  BY <1>2, <1>3, <1>4, <1>5

(* Whatever is copied and assigned: the text of a valid object is that of  *)
(* its address, up to the exceptions AddressHolds names.                   *)
THEOREM AddressesAlways == Adr!Spec => []Adr!AddressHolds
<1>1. Adr!Init => AddressInv
  BY DEF Adr!Init, AddressInv, ReadsAsWritten
<1>2. AddressInv /\ [Adr!Next]_(Adr!vars) => AddressInv'
  BY AddressKeeps
<1>3. AddressInv => Adr!AddressHolds
  BY DEF AddressInv, ReadsAsWritten, Adr!AddressHolds
<1> QED  BY <1>1, <1>2, <1>3, PTL DEF Adr!Spec
-----------------------------------------------------------------------------
(* The minute a file is named after (FileName).                            *)
(* The second whose value the k-th variable has, p being the second of the *)
(* pass before the current one.                                            *)
Shown(k, p) == IF k <= timer.done THEN timer.t ELSE p

(* The fields the timer has come to are those of its pass, the others are  *)
(* still those of the pass before, which is not of an earlier second than  *)
(* the one the writer polled, unless the pass of that second goes on.      *)
WrittenSince(p) ==
  /\ p \in Nat /\ FirstSecond <= p /\ p <= timer.t
  /\ wr.cur < timer.t => wr.cur <= p
  /\ \A k \in 1 .. 6 : global[Fil!WriteOrder[k]] = Fil!Moment(Shown(k, p))[Fil!WriteOrder[k]]

From == IF wr.woke = "after" THEN wr.cur ELSE FirstSecond

(* What has been read of minute, hour and day is of moments m, h and d in  *)
(* order, none ahead of what the variables to be read next show.           *)
ReadInOrder(p, m, h, d) ==
  /\ From <= m /\ m <= h /\ h <= d
  /\ m <= Shown(4, p) /\ h <= Shown(3, p) /\ d <= Shown(2, p)
  /\ Len(wr.name) >= 1 => wr.name[1] = Fil!Moment(m).min
  /\ Len(wr.name) >= 2 => wr.name[2] = Fil!Moment(h).hour
  /\ Len(wr.name) >= 3 => wr.name[3] = Fil!Moment(d).day

ReadSince(p) ==
  wr.pc = "read" =>
    /\ wr.name \in Seq(Int) /\ Len(wr.name) <= 5
    /\ wr.woke = "after" => (timer.t = wr.cur => timer.done = 6)
    /\ \E m, h, d \in Nat : ReadInOrder(p, m, h, d)
    /\ Len(wr.name) >= 4 =>
         \E t \in Nat : From <= t /\ t <= timer.t /\ wr.name[4] = Fil!Moment(t).month
    /\ Len(wr.name) >= 5 =>
         \E t \in Nat : From <= t /\ t <= timer.t /\ wr.name[5] = Fil!Moment(t).year

TimesTyped ==
  /\ timer = [t |-> timer.t, done |-> timer.done]
  /\ wr = [pc |-> wr.pc, last |-> wr.last, cur |-> wr.cur, name |-> wr.name,
            woke |-> wr.woke]
  /\ FirstSecond \in Nat /\ real \in Nat /\ timer.t \in Nat /\ timer.done \in 0 .. 6 /\ wr.cur \in Nat
  /\ FirstSecond <= wr.cur /\ wr.cur <= timer.t /\ timer.t <= real
  /\ DOMAIN global = Fil!Field

FileNameInv == TimesTyped /\ \E p \in Nat : WrittenSince(p) /\ ReadSince(p)

LEMMA Orders ==
  /\ Len(Fil!WriteOrder) = 6 /\ DOMAIN Fil!WriteOrder = 1 .. 6
  /\ Len(Fil!ReadOrder) = 5 /\ DOMAIN Fil!ReadOrder = 1 .. 5
  /\ Fil!Field = {"epoch", "day", "hour", "min", "month", "year"}
  /\ Fil!WriteOrder[1] = "epoch" /\ Fil!WriteOrder[2] = "day" /\ Fil!WriteOrder[3] = "hour"
  /\ Fil!WriteOrder[4] = "min" /\ Fil!WriteOrder[5] = "month" /\ Fil!WriteOrder[6] = "year"
  /\ Fil!ReadOrder[1] = "min" /\ Fil!ReadOrder[2] = "hour" /\ Fil!ReadOrder[3] = "day"
  /\ Fil!ReadOrder[4] = "month" /\ Fil!ReadOrder[5] = "year"
  /\ \A n \in 1 .. 5 : Fil!ReadOrder[n] \in Fil!Field
  /\ \A j, k \in 1 .. 6 : Fil!WriteOrder[j] = Fil!WriteOrder[k] => j = k
  /\ \A f \in Fil!Field : \E k \in 1 .. 6 : Fil!WriteOrder[k] = f
<1>1. /\ Len(Fil!WriteOrder) = 6 /\ DOMAIN Fil!WriteOrder = 1 .. 6
      /\ Fil!WriteOrder[1] = "epoch" /\ Fil!WriteOrder[2] = "day" /\ Fil!WriteOrder[3] = "hour"
      /\ Fil!WriteOrder[4] = "min" /\ Fil!WriteOrder[5] = "month" /\ Fil!WriteOrder[6] = "year"
  BY DEF Fil!WriteOrder
<1>2. /\ Len(Fil!ReadOrder) = 5 /\ DOMAIN Fil!ReadOrder = 1 .. 5
      /\ Fil!ReadOrder[1] = "min" /\ Fil!ReadOrder[2] = "hour" /\ Fil!ReadOrder[3] = "day"
      /\ Fil!ReadOrder[4] = "month" /\ Fil!ReadOrder[5] = "year"
  BY DEF Fil!ReadOrder
<1>3. \A k \in 1 .. 6 : k = 1 \/ k = 2 \/ k = 3 \/ k = 4 \/ k = 5 \/ k = 6
  OBVIOUS
<1>4. Fil!Field = {"epoch", "day", "hour", "min", "month", "year"}
  BY <1>1, <1>3 DEF Fil!Field
<1>5. \A n \in 1 .. 5 : n = 1 \/ n = 2 \/ n = 3 \/ n = 4 \/ n = 5
  OBVIOUS
<1>6. \A n \in 1 .. 5 : Fil!ReadOrder[n] \in Fil!Field
  BY <1>2, <1>4, <1>5
<1>7. \A j, k \in 1 .. 6 : Fil!WriteOrder[j] = Fil!WriteOrder[k] => j = k
  BY <1>1, <1>3
<1>8. \A f \in Fil!Field : \E k \in 1 .. 6 : Fil!WriteOrder[k] = f
  BY <1>1, <1>4
<1> QED  BY <1>1, <1>2, <1>4, <1>6, <1>7, <1>8

LEMMA MomentField ==
  ASSUME NEW t \in Nat, NEW f \in Fil!Field  PROVE  Fil!Moment(t)[f] \in Int
<1>1. Fil!Unit[f] \in {1, 2, 4, 8, 16, 32}
  BY Orders DEF Fil!Unit
<1>2. Fil!Moment(t)[f] = t \div Fil!Unit[f]
  BY DEF Fil!Moment
<1>3. ASSUME NEW u \in {1, 2, 4, 8, 16, 32}  PROVE  t \div u \in Int
  BY Z3
<1> QED  BY <1>1, <1>2, <1>3

(* What is read keeps its place while the variables only get newer.        *)
LEMMA ReadKeeps ==
  ASSUME TimesTyped, NEW p \in Nat, NEW q \in Nat, ReadSince(p), wr' = wr,
         timer'.t \in Nat, timer.t <= timer'.t, Shown(2, p) <= Shown(2, q)', Shown(3, p) <= Shown(3, q)',
         Shown(4, p) <= Shown(4, q)', timer'.t = timer.t => timer.done <= timer'.done,
         timer'.done \in 0 .. 6, Shown(2, q)' \in Nat, Shown(3, q)' \in Nat, Shown(4, q)' \in Nat
  PROVE  ReadSince(q)'
<1> SUFFICES ASSUME wr.pc = "read"  PROVE  ReadSince(q)'
  BY DEF ReadSince
<1>0. /\ timer.t \in Nat /\ timer.done \in 0 .. 6 /\ wr.cur \in Nat /\ wr.cur <= timer.t
      /\ FirstSecond \in Nat
  BY DEF TimesTyped
<1>1. /\ wr.name \in Seq(Int) /\ Len(wr.name) <= 5
      /\ wr.woke = "after" => (timer.t = wr.cur => timer.done = 6)
  BY DEF ReadSince
<1>2. wr.woke = "after" => (timer'.t = wr.cur => timer'.done = 6)
  <2> SUFFICES ASSUME wr.woke = "after", timer'.t = wr.cur  PROVE  timer'.done = 6
    OBVIOUS
  <2>1. timer.t = wr.cur
    <3>1. timer.t <= timer'.t /\ timer'.t \in Nat
      OBVIOUS
    <3> QED  BY <1>0, <3>1
  <2>2. timer.done = 6 /\ timer.done <= timer'.done /\ timer'.done \in 0 .. 6
    BY <1>1, <2>1
  <2> QED  BY <2>2
<1>3. PICK m \in Nat, h \in Nat, d \in Nat : ReadInOrder(p, m, h, d)
  BY DEF ReadSince
<1>4. Shown(2, p) \in Nat /\ Shown(3, p) \in Nat /\ Shown(4, p) \in Nat
  BY <1>0 DEF Shown
<1>5. m <= Shown(4, q)' /\ h <= Shown(3, q)' /\ d <= Shown(2, q)'
  <2>1. m <= Shown(4, p) /\ h <= Shown(3, p) /\ d <= Shown(2, p)
    BY <1>3 DEF ReadInOrder
  <2>2. /\ Shown(2, p) <= Shown(2, q)' /\ Shown(3, p) <= Shown(3, q)' /\ Shown(4, p) <= Shown(4, q)'
        /\ Shown(2, q)' \in Nat /\ Shown(3, q)' \in Nat /\ Shown(4, q)' \in Nat
    OBVIOUS
  <2>3. \A x, y, z \in Nat : x <= y /\ y <= z => x <= z
    OBVIOUS
  <2> QED  BY <1>4, <2>1, <2>2, <2>3
<1>6. From' = From /\ From \in Nat
  BY DEF From, TimesTyped
<1>7. ReadInOrder(q, m, h, d)'
  BY <1>3, <1>5, <1>6 DEF ReadInOrder
<1>8. Len(wr.name) >= 4 =>
        \E t \in Nat : From <= t /\ t <= timer'.t /\ wr.name[4] = Fil!Moment(t).month
  <2> SUFFICES ASSUME Len(wr.name) >= 4
               PROVE  \E t \in Nat : From <= t /\ t <= timer'.t /\ wr.name[4] = Fil!Moment(t).month
    OBVIOUS
  <2>1. PICK t \in Nat : From <= t /\ t <= timer.t /\ wr.name[4] = Fil!Moment(t).month
    BY DEF ReadSince
  <2>2. t <= timer'.t
    <3>1. \A x, y, z \in Nat : x <= y /\ y <= z => x <= z
      OBVIOUS
    <3> QED  BY <1>0, <2>1, <3>1
  <2> QED  BY <2>1, <2>2
<1>9. Len(wr.name) >= 5 =>
        \E t \in Nat : From <= t /\ t <= timer'.t /\ wr.name[5] = Fil!Moment(t).year
  <2> SUFFICES ASSUME Len(wr.name) >= 5
               PROVE  \E t \in Nat : From <= t /\ t <= timer'.t /\ wr.name[5] = Fil!Moment(t).year
    OBVIOUS
  <2>1. PICK t \in Nat : From <= t /\ t <= timer.t /\ wr.name[5] = Fil!Moment(t).year
    BY DEF ReadSince
  <2>2. t <= timer'.t
    <3>1. \A x, y, z \in Nat : x <= y /\ y <= z => x <= z
      OBVIOUS
    <3> QED  BY <1>0, <2>1, <3>1
  <2> QED  BY <2>1, <2>2
<1> QED  BY <1>1, <1>2, <1>6, <1>7, <1>8, <1>9 DEF ReadSince

(* The oldest moment a name may be of is shown by every variable.          *)
LEMMA NoneBehind ==
  ASSUME TimesTyped, NEW p \in Nat, WrittenSince(p), NEW k \in 1 .. 6,
         wr.woke = "after" => (timer.t = wr.cur => timer.done = 6)
  PROVE  From <= Shown(k, p) /\ Shown(k, p) <= timer.t /\ Shown(k, p) \in Nat
  BY DEF From, Shown, TimesTyped, WrittenSince

LEMMA EpochValue ==
  ASSUME NEW t \in Nat  PROVE  Fil!Moment(t)["epoch"] = t
<1>1. "epoch" \in Fil!Field /\ Fil!Unit["epoch"] = 1
  BY Orders DEF Fil!Unit
<1>2. Fil!Moment(t)["epoch"] = t \div 1
  BY <1>1 DEF Fil!Moment
<1>3. t \div 1 = t
  BY Z3
<1> QED  BY <1>2, <1>3

(* One field is read.                                                      *)
LEMMA ReadStep ==
  ASSUME TimesTyped, NEW p \in Nat, WrittenSince(p), ReadSince(p), Fil!Read
  PROVE  ReadSince(p)'
<1>1. PICK n, v : n = Len(wr.name) + 1 /\ v = global[Fil!ReadOrder[n]]
  OBVIOUS
<1>2. /\ wr.pc = "read" /\ Len(wr.name) < 5 /\ wr'.name = Append(wr.name, v)
      /\ wr'.cur = wr.cur /\ wr'.woke = wr.woke
      /\ real' = real /\ global' = global /\ timer' = timer
  BY <1>1, Orders DEF Fil!Read, TimesTyped
<1>3. wr.name \in Seq(Int)
  BY <1>2 DEF ReadSince
<1>30. wr.woke = "after" => (timer.t = wr.cur => timer.done = 6)
  BY <1>2 DEF ReadSince
<1>4. n \in 1 .. 5 /\ Len(wr.name) = n - 1
  <2>1. Len(wr.name) \in Nat
    BY <1>3
  <2>2. n = Len(wr.name) + 1 /\ Len(wr.name) < 5
    BY <1>1, <1>2
  <2> QED  BY <2>1, <2>2
<1>5. /\ n = 1 => v = Fil!Moment(Shown(4, p)).min
      /\ n = 2 => v = Fil!Moment(Shown(3, p)).hour
      /\ n = 3 => v = Fil!Moment(Shown(2, p)).day
      /\ n = 4 => v = Fil!Moment(Shown(5, p)).month
      /\ n = 5 => v = Fil!Moment(Shown(6, p)).year
  BY <1>1, Orders DEF WrittenSince
<1>6. \A k \in 1 .. 6 : From <= Shown(k, p) /\ Shown(k, p) <= timer.t /\ Shown(k, p) \in Nat
  BY <1>30, NoneBehind
<1>7. v \in Int
  <2>1. \A f \in Fil!Field : \A t \in Nat : Fil!Moment(t)[f] \in Int
    BY MomentField
  <2>2. "min" \in Fil!Field /\ "hour" \in Fil!Field /\ "day" \in Fil!Field
        /\ "month" \in Fil!Field /\ "year" \in Fil!Field
    BY Orders
  <2>3. n = 1 \/ n = 2 \/ n = 3 \/ n = 4 \/ n = 5
    BY <1>4
  <2>4. /\ Shown(2, p) \in Nat /\ Shown(3, p) \in Nat /\ Shown(4, p) \in Nat /\ Shown(5, p) \in Nat
        /\ Shown(6, p) \in Nat
    BY <1>6
  <2> QED  BY <1>5, <2>1, <2>2, <2>3, <2>4
<1>8. /\ wr'.name \in Seq(Int) /\ Len(wr'.name) = n
      /\ \A j \in 1 .. n : wr'.name[j] = IF j = n THEN v ELSE wr.name[j]
  BY <1>1, <1>2, <1>3, <1>7
<1>9. From' = From /\ From \in Nat /\ \A k \in 1 .. 6 : Shown(k, p)' = Shown(k, p)
  BY <1>2 DEF From, Shown, TimesTyped
<1>10. Shown(4, p) <= Shown(3, p) /\ Shown(3, p) <= Shown(2, p)
  BY DEF Shown, TimesTyped, WrittenSince
<1>11. \E m, h, d \in Nat : ReadInOrder(p, m, h, d)'
  <2>1. PICK m \in Nat, h \in Nat, d \in Nat : ReadInOrder(p, m, h, d)
    BY <1>2 DEF ReadSince
  <2>2. /\ Shown(4, p) \in Nat /\ Shown(3, p) \in Nat /\ Shown(2, p) \in Nat
        /\ Shown(4, p)' = Shown(4, p) /\ Shown(3, p)' = Shown(3, p) /\ Shown(2, p)' = Shown(2, p)
        /\ From <= Shown(4, p)
    BY <1>6, <1>9
  <2>3. CASE n = 1
    <3>1. ReadInOrder(p, Shown(4, p), Shown(3, p), Shown(2, p))'
      <4>1. wr'.name[1] = v
        BY <1>8, <2>3
      <4> QED  BY <1>5, <1>8, <1>9, <1>10, <2>2, <2>3, <4>1 DEF ReadInOrder
    <3> QED  BY <2>2, <3>1
  <2>4. CASE n = 2
    <3>1. ReadInOrder(p, m, Shown(3, p), Shown(2, p))'
      <4>1. wr'.name[1] = wr.name[1] /\ wr'.name[2] = v
        BY <1>8, <2>4
      <4> QED  BY <1>1, <1>5, <1>8, <1>9, <1>10, <2>1, <2>2, <2>4, <4>1 DEF ReadInOrder
    <3> QED  BY <2>2, <3>1
  <2>5. CASE n = 3
    <3>1. ReadInOrder(p, m, h, Shown(2, p))'
      <4>1. wr'.name[1] = wr.name[1] /\ wr'.name[2] = wr.name[2] /\ wr'.name[3] = v
            /\ Len(wr.name) = 2
        BY <1>4, <1>8, <2>5
      <4>2. /\ From <= m /\ m <= h /\ m <= Shown(4, p) /\ h <= Shown(3, p)
            /\ wr.name[1] = Fil!Moment(m).min /\ wr.name[2] = Fil!Moment(h).hour
        BY <2>1, <4>1 DEF ReadInOrder
      <4>3. h <= Shown(2, p)
        BY <1>10, <2>2, <4>2
      <4>4. v = Fil!Moment(Shown(2, p)).day
        BY <1>5, <2>5
      <4>5. Shown(2, p) <= Shown(2, p)
        BY <2>2
      <4> QED  BY <1>9, <2>2, <4>1, <4>2, <4>3, <4>4, <4>5 DEF ReadInOrder
    <3> QED  BY <2>2, <3>1
  <2>6. CASE n \in {4, 5}
    <3>1. /\ wr'.name[1] = wr.name[1] /\ wr'.name[2] = wr.name[2] /\ wr'.name[3] = wr.name[3]
          /\ Len(wr.name) >= 3
      BY <1>4, <1>8, <2>6
    <3>2. ReadInOrder(p, m, h, d)'
      <4>1. /\ From <= m /\ m <= h /\ h <= d
            /\ m <= Shown(4, p) /\ h <= Shown(3, p) /\ d <= Shown(2, p)
        BY <2>1 DEF ReadInOrder
      <4>2. Len(wr.name) >= 1 /\ Len(wr.name) >= 2
        BY <1>4, <2>6
      <4>3. /\ wr.name[1] = Fil!Moment(m).min /\ wr.name[2] = Fil!Moment(h).hour
            /\ wr.name[3] = Fil!Moment(d).day
        BY <2>1, <3>1, <4>2 DEF ReadInOrder
      <4> QED  BY <1>9, <2>2, <3>1, <4>1, <4>3 DEF ReadInOrder
    <3> QED  BY <3>2
  <2> QED  BY <1>4, <2>3, <2>4, <2>5, <2>6
<1>12. Len(wr'.name) >= 4 =>
         \E t \in Nat : From <= t /\ t <= timer.t /\ wr'.name[4] = Fil!Moment(t).month
  <2>1. CASE n = 4
    <3>1. wr'.name[4] = v /\ Shown(5, p) \in Nat /\ From <= Shown(5, p) /\ Shown(5, p) <= timer.t
      BY <1>6, <1>8, <2>1
    <3> QED  BY <1>5, <2>1, <3>1
  <2>2. CASE n = 5
    <3>1. wr'.name[4] = wr.name[4] /\ Len(wr.name) >= 4
      BY <1>1, <1>3, <1>8, <2>2
    <3> QED  BY <1>2, <3>1 DEF ReadSince
  <2> QED  BY <1>4, <1>8, <2>1, <2>2
<1>13. Len(wr'.name) >= 5 =>
         \E t \in Nat : From <= t /\ t <= timer.t /\ wr'.name[5] = Fil!Moment(t).year
  <2>1. CASE n = 5
    <3>1. Shown(6, p) \in Nat /\ From <= Shown(6, p) /\ Shown(6, p) <= timer.t
      BY <1>6
    <3>2. wr'.name[5] = v
      BY <1>8, <2>1
    <3> QED  BY <1>5, <2>1, <3>1, <3>2
  <2> QED  BY <1>4, <1>8, <2>1
<1>14. wr'.woke = "after" => (timer'.t = wr'.cur => timer'.done = 6)
  BY <1>2, <1>30
<1>15. wr'.name \in Seq(Int) /\ Len(wr'.name) <= 5
  BY <1>4, <1>8
<1> QED  BY <1>2, <1>9, <1>11, <1>12, <1>13, <1>14, <1>15 DEF ReadSince

LEMMA FileNameKeeps ==
  ASSUME FileNameInv, [Fil!Next]_(Fil!vars)  PROVE  FileNameInv'
<1>0. TimesTyped
  BY DEF FileNameInv
<1>00. PICK p \in Nat : WrittenSince(p) /\ ReadSince(p)
  BY DEF FileNameInv
<1>1. CASE UNCHANGED Fil!vars
  <2>1. real' = real /\ global' = global /\ timer' = timer /\ wr' = wr
    BY <1>1 DEF Fil!vars
  <2>2. TimesTyped' /\ WrittenSince(p)'
    BY <1>0, <1>00, <2>1 DEF TimesTyped, WrittenSince, Shown
  <2>3. \A k \in 1 .. 6 : Shown(k, p)' = Shown(k, p) /\ Shown(k, p) \in Nat
    BY <1>0, <2>1 DEF Shown, TimesTyped
  <2>4. ReadSince(p)'
    <3>1. /\ timer'.t \in Nat /\ timer.t <= timer'.t /\ timer.done <= timer'.done
          /\ timer'.done \in 0 .. 6
      BY <1>0, <2>1 DEF TimesTyped
    <3>2. /\ Shown(2, p) <= Shown(2, p)' /\ Shown(3, p) <= Shown(3, p)'
          /\ Shown(4, p) <= Shown(4, p)' /\ Shown(2, p)' \in Nat /\ Shown(3, p)' \in Nat
          /\ Shown(4, p)' \in Nat
      BY <2>3
    <3> QED  BY <1>0, <1>00, <2>1, <3>1, <3>2, ReadKeeps
  <2> QED  BY <2>2, <2>4 DEF FileNameInv
<1>2. CASE Fil!TimerPass
  <2>1. /\ timer.done = 6 /\ timer.t # real /\ timer'.t = real /\ timer'.done = 0
        /\ timer' = [t |-> real, done |-> 0]
        /\ real' = real /\ global' = global /\ wr' = wr
    BY <1>2, Orders DEF Fil!TimerPass
  <2>2. timer.t \in Nat /\ real \in Nat /\ timer.t < real /\ wr.cur \in Nat /\ FirstSecond \in Nat
        /\ wr.cur <= timer.t /\ FirstSecond <= timer.t
    BY <1>0, <2>1 DEF TimesTyped
  <2>3. TimesTyped'
    BY <1>0, <2>1, <2>2 DEF TimesTyped
  <2>4. PICK q \in Nat : q = timer.t
    BY <2>2
  <2>5. ASSUME NEW k \in 1 .. 6  PROVE  Shown(k, p) = q /\ Shown(k, q)' = q
    <3>1. Shown(k, p) = q
      BY <2>1, <2>4 DEF Shown
    <3>2. ~(k <= timer'.done)
      BY <2>1
    <3> QED  BY <3>1, <3>2 DEF Shown
  <2>6. WrittenSince(q)'
    <3>1. \A k \in 1 .. 6 : global'[Fil!WriteOrder[k]]
                              = Fil!Moment(Shown(k, q)')[Fil!WriteOrder[k]]
      BY <1>00, <2>1, <2>5 DEF WrittenSince
    <3> QED  BY <2>1, <2>2, <2>4, <3>1 DEF WrittenSince
  <2>7. ReadSince(q)'
    <3>1. /\ Shown(2, p) <= Shown(2, q)' /\ Shown(3, p) <= Shown(3, q)'
          /\ Shown(4, p) <= Shown(4, q)' /\ Shown(2, q)' \in Nat
          /\ Shown(3, q)' \in Nat /\ Shown(4, q)' \in Nat
      BY <2>5
    <3>2. timer'.t \in Nat /\ timer.t <= timer'.t /\ timer'.t # timer.t /\ timer'.done \in 0 .. 6
      BY <2>1, <2>2
    <3> QED  BY <1>0, <1>00, <2>1, <3>1, <3>2, ReadKeeps
  <2> QED  BY <2>3, <2>6, <2>7 DEF FileNameInv
<1>3. CASE Fil!TimerWrite
  <2>1. PICK k : k = timer.done + 1
    OBVIOUS
  <2>2. /\ timer.done < 6 /\ timer'.t = timer.t /\ timer'.done = k
        /\ timer' = [timer EXCEPT !.done = timer.done + 1]
        /\ real' = real /\ wr' = wr
        /\ global' = [global EXCEPT ![Fil!WriteOrder[k]] = Fil!Moment(timer.t)[Fil!WriteOrder[k]]]
    BY <1>0, <1>3, <2>1, Orders DEF Fil!TimerWrite, TimesTyped
  <2>3. timer.done \in 0 .. 5 /\ k \in 1 .. 6
    BY <1>0, <2>1, <2>2 DEF TimesTyped
  <2>4. TimesTyped'
    BY <1>0, <2>2, <2>3 DEF TimesTyped
  <2>5. \A j \in 1 .. 6 : Shown(j, p)' = IF j = k THEN timer.t ELSE Shown(j, p)
    BY <2>1, <2>2, <2>3 DEF Shown
  <2>6. ASSUME NEW j \in 1 .. 6
        PROVE  global'[Fil!WriteOrder[j]] = Fil!Moment(Shown(j, p)')[Fil!WriteOrder[j]]
    <3>1. Fil!WriteOrder[j] \in Fil!Field /\ Fil!WriteOrder[k] \in Fil!Field
      BY <2>3, Orders DEF Fil!Field
    <3>2. CASE j = k
      BY <1>0, <2>2, <2>5, <3>1, <3>2 DEF TimesTyped
    <3>3. CASE j # k
      <4>1. Fil!WriteOrder[j] # Fil!WriteOrder[k]
        BY <2>3, <3>3, Orders
      <4>2. global'[Fil!WriteOrder[j]] = global[Fil!WriteOrder[j]]
        BY <1>0, <2>2, <3>1, <4>1 DEF TimesTyped
      <4> QED  BY <1>00, <2>5, <3>3, <4>2 DEF WrittenSince
    <3> QED  BY <3>2, <3>3
  <2>7. WrittenSince(p)'
    BY <1>00, <2>2, <2>6 DEF WrittenSince
  <2>8. ReadSince(p)'
    <3>1. \A j \in 1 .. 6 : Shown(j, p) \in Nat /\ Shown(j, p)' \in Nat /\ Shown(j, p) <= Shown(j, p)'
      BY <1>0, <1>00, <2>5 DEF Shown, WrittenSince, TimesTyped
    <3>2. timer'.t \in Nat /\ timer.t <= timer'.t /\ timer.done <= timer'.done /\ timer'.done \in 0 .. 6
      BY <1>0, <2>1, <2>2, <2>3 DEF TimesTyped
    <3> QED  BY <1>0, <1>00, <2>2, <3>1, <3>2, ReadKeeps
  <2> QED  BY <2>4, <2>7, <2>8 DEF FileNameInv
<1>4. CASE Fil!Poll
  <2>1. /\ wr.pc = "poll" /\ wr'.pc = "sleep" /\ wr'.cur = global.epoch
        /\ wr' = [wr EXCEPT !.pc = "sleep", !.cur = global.epoch]
        /\ wr'.woke = wr.woke
        /\ real' = real /\ global' = global /\ timer' = timer
    BY <1>0, <1>4 DEF Fil!Poll, TimesTyped
  <2>2. global.epoch = Shown(1, p)
    <3>1. global.epoch = Fil!Moment(Shown(1, p)).epoch
      BY <1>00, Orders DEF WrittenSince
    <3>2. Shown(1, p) \in Nat
      BY <1>0 DEF Shown, TimesTyped
    <3> QED  BY <3>1, <3>2, EpochValue
  <2>3. TimesTyped'
    <3>1. wr'.cur \in Nat /\ FirstSecond <= wr'.cur /\ wr'.cur <= timer.t
      BY <1>0, <1>00, <2>1, <2>2 DEF TimesTyped, WrittenSince, Shown
    <3>2. wr' = [pc |-> wr'.pc, last |-> wr'.last, cur |-> wr'.cur, name |-> wr'.name,
                 woke |-> wr'.woke]
      BY <1>0, <2>1 DEF TimesTyped
    <3> QED  BY <1>0, <2>1, <3>1, <3>2 DEF TimesTyped
  <2>4. WrittenSince(p)'
    BY <1>0, <1>00, <2>1, <2>2 DEF TimesTyped, WrittenSince, Shown
  <2>5. ReadSince(p)'
    BY <2>1 DEF ReadSince
  <2> QED  BY <2>3, <2>4, <2>5 DEF FileNameInv
<1>5. CASE Fil!Wake
  <2>1. /\ wr'.pc = "read" /\ wr'.name = <<>> /\ wr'.cur = wr.cur /\ wr'.last = wr.last
        /\ wr'.woke = "after" => (timer.t = wr.cur => timer.done = 6)
        /\ wr' = [wr EXCEPT !.pc = "read", !.name = <<>>,
                            !.woke = IF timer.t = wr.cur /\ timer.done < 6
                                     THEN "before" ELSE "after"]
        /\ real' = real /\ global' = global /\ timer' = timer
    BY <1>0, <1>5, Orders DEF Fil!Wake, TimesTyped
  <2>2. TimesTyped'
    BY <1>0, <2>1 DEF TimesTyped
  <2>3. WrittenSince(p)'
    BY <1>00, <2>1 DEF WrittenSince, Shown
  <2>4. \A k \in 1 .. 6 : From' <= Shown(k, p) /\ Shown(k, p) \in Nat /\ Shown(k, p)' = Shown(k, p)
    BY <1>0, <1>00, <2>1 DEF From, Shown, TimesTyped, WrittenSince
  <2>5. Shown(4, p) <= Shown(3, p) /\ Shown(3, p) <= Shown(2, p)
    BY <1>0, <1>00 DEF Shown, TimesTyped, WrittenSince
  <2>6. ReadInOrder(p, Shown(4, p), Shown(3, p), Shown(2, p))'
    BY <2>1, <2>4, <2>5 DEF ReadInOrder
  <2>7. ReadSince(p)'
    BY <2>1, <2>4, <2>6 DEF ReadSince
  <2> QED  BY <2>2, <2>3, <2>7 DEF FileNameInv
<1>6. CASE Fil!Read
  <2>1. /\ wr'.pc = wr.pc /\ wr'.last = wr.last /\ wr'.cur = wr.cur /\ wr'.woke = wr.woke
        /\ wr' = [pc |-> wr'.pc, last |-> wr'.last, cur |-> wr'.cur, name |-> wr'.name,
                  woke |-> wr'.woke]
        /\ real' = real /\ global' = global /\ timer' = timer
    BY <1>0, <1>6 DEF Fil!Read, TimesTyped
  <2>2. TimesTyped' /\ WrittenSince(p)'
    BY <1>0, <1>00, <2>1 DEF TimesTyped, WrittenSince, Shown
  <2>3. ReadSince(p)'
    BY <1>0, <1>00, <1>6, ReadStep
  <2> QED  BY <2>2, <2>3 DEF FileNameInv
<1>7. CASE Fil!WriteFile
  <2>1. /\ wr'.pc \in {"poll", "sleep"} /\ wr'.cur = wr.cur /\ wr'.woke = wr.woke
        /\ wr' = [pc |-> wr'.pc, last |-> wr'.last, cur |-> wr'.cur, name |-> wr'.name,
                  woke |-> wr'.woke]
        /\ real' = real /\ global' = global /\ timer' = timer
    BY <1>0, <1>7 DEF Fil!WriteFile, TimesTyped
  <2>2. TimesTyped' /\ WrittenSince(p)' /\ ReadSince(p)'
    BY <1>0, <1>00, <2>1 DEF TimesTyped, WrittenSince, ReadSince, Shown
  <2> QED  BY <2>2 DEF FileNameInv
<1>8. CASE Fil!Tick
  <2>1. real' = real + 1 /\ global' = global /\ timer' = timer /\ wr' = wr
    BY <1>8 DEF Fil!Tick
  <2>2. TimesTyped'
    BY <1>0, <2>1 DEF TimesTyped
  <2>3. WrittenSince(p)' /\ ReadSince(p)'
    BY <1>00, <2>1 DEF WrittenSince, ReadSince, ReadInOrder, Shown, From
  <2> QED  BY <2>2, <2>3 DEF FileNameInv
<1> QED  BY <1>1, <1>2, <1>3, <1>4, <1>5, <1>6, <1>7, <1>8 DEF Fil!Next

(* Whenever seconds begin and whatever the writer has left to do: minute,  *)
(* hour and day of a file's name are of moments since the second it is     *)
(* for, in this order, although the timer writes six variables one by one  *)
(* and the writer reads five of them.                                      *)
THEOREM NamesNotBehind ==
  ASSUME Fil!BoundsNamed  PROVE  Fil!Spec => []NameNotBehind
<1>1. ASSUME Fil!Init  PROVE  FileNameInv
  <2>1. /\ real = FirstSecond /\ global = Fil!Moment(FirstSecond)
        /\ timer = [t |-> FirstSecond, done |-> 6] /\ FirstSecond \in Nat
        /\ wr = [pc |-> "poll", last |-> Fil!ReadIndex(FirstSecond), cur |-> FirstSecond,
                 name |-> <<>>, woke |-> "after"]
    BY <1>1, Orders DEF Fil!Init, Fil!BoundsNamed
  <2>2. DOMAIN global = Fil!Field
    BY <2>1 DEF Fil!Moment
  <2>3. TimesTyped
    BY <2>1, <2>2 DEF TimesTyped
  <2>4. WrittenSince(FirstSecond)
    BY <2>1 DEF WrittenSince, Shown
  <2>5. ReadSince(FirstSecond)
    BY <2>1 DEF ReadSince
  <2> QED  BY <2>1, <2>3, <2>4, <2>5 DEF FileNameInv
<1>2. FileNameInv /\ [Fil!Next]_(Fil!vars) => FileNameInv'
  BY FileNameKeeps
<1>3. ASSUME FileNameInv  PROVE  NameNotBehind
  <2> SUFFICES ASSUME Fil!NameComplete
      PROVE  /\ \E m, h, d \in Fil!Since :
                  /\ m <= h /\ h <= d
                  /\ wr.name[1] = Fil!Moment(m).min
                  /\ wr.name[2] = Fil!Moment(h).hour
                  /\ wr.name[3] = Fil!Moment(d).day
             /\ \E t \in Fil!Since : wr.name[4] = Fil!Moment(t).month
             /\ \E t \in Fil!Since : wr.name[5] = Fil!Moment(t).year
    BY Zenon DEF NameNotBehind, Fil!NameNotBehind
  <2>1. TimesTyped
    BY <1>3 DEF FileNameInv
  <2>2. PICK p \in Nat : WrittenSince(p) /\ ReadSince(p)
    BY <1>3 DEF FileNameInv
  <2>3. wr.pc = "read" /\ Len(wr.name) = 5
    BY Orders DEF Fil!NameComplete
  <2>4. /\ wr.name \in Seq(Int)
        /\ wr.woke = "after" => (timer.t = wr.cur => timer.done = 6)
    BY <2>2, <2>3 DEF ReadSince
  <2>5. Fil!Since = From .. real /\ From \in Nat
    BY <2>1 DEF Fil!Since, From, TimesTyped
  <2>6. \A k \in 1 .. 6 : Shown(k, p) \in Nat /\ Shown(k, p) <= real
    BY <2>1, <2>2 DEF Shown, TimesTyped, WrittenSince
  <2>7. PICK m \in Nat, h \in Nat, d \in Nat : ReadInOrder(p, m, h, d)
    BY <2>2, <2>3 DEF ReadSince
  <2>8. m \in From .. real /\ h \in From .. real /\ d \in From .. real
    <3>1. /\ Shown(2, p) \in Nat /\ Shown(2, p) <= real
      BY <2>6
    <3>2. From <= m /\ m <= h /\ h <= d /\ d <= Shown(2, p)
      BY <2>7 DEF ReadInOrder
    <3> QED  BY <2>1, <2>5, <3>1, <3>2 DEF TimesTyped
  <2>9. PICK t4 \in Nat : From <= t4 /\ t4 <= timer.t /\ wr.name[4] = Fil!Moment(t4).month
    <3>1. Len(wr.name) >= 4
      BY <2>3
    <3> QED  BY <2>2, <2>3, <3>1 DEF ReadSince
  <2>10. PICK t5 \in Nat : From <= t5 /\ t5 <= timer.t /\ wr.name[5] = Fil!Moment(t5).year
    BY <2>2, <2>3 DEF ReadSince
  <2>11. t4 \in From .. real /\ t5 \in From .. real
    <3>1. timer.t \in Nat /\ real \in Nat /\ timer.t <= real
      BY <2>1 DEF TimesTyped
    <3>2. \A t \in Nat : From <= t /\ t <= timer.t => t \in From .. real
      BY <2>5, <3>1
    <3> QED  BY <2>9, <2>10, <3>2
  <2> QED  BY <2>3, <2>5, <2>7, <2>8, <2>9, <2>10, <2>11 DEF ReadInOrder
<1> QED  BY <1>1, <1>2, <1>3, PTL DEF Fil!Spec
-----------------------------------------------------------------------------
(* The Solarflare listener (PackedStream).                                 *)
(* The inductive invariant of PackedStream, which its variables do not say *)
(* alone.                                                                  *)
(*                                                                         *)
(* R is the row of buffers in the order of their posting, from 1, First    *)
(* the number of packets that came before the ones in each.  The listener  *)
(* reads buffer c of the row, the card fills buffer f, p are posted.  Of   *)
(* q events h have been handled: event k ends packet S[k], in buffer G[k]. *)
Rowed(R, c, f, p) ==
  /\ R \in [Nat -> Bufs \cup {Str!Null}] /\ c \in Nat /\ f \in Nat /\ p \in Nat
  /\ c <= f /\ f <= p
  /\ R[0] = Str!Null /\ \A g \in 1 .. p : R[g] \in Bufs
  /\ \A i, j \in c .. p : R[i] = R[j] => i = j
  /\ fresh \subseteq Bufs /\ \A g \in c .. p : R[g] \notin fresh

(* The list l is the row from the buffer after the listener's. *)
Listed(l, R, c, p) ==
  /\ l.head = IF c = p THEN Str!Null ELSE R[c + 1]
  /\ l.tail = IF c = p THEN Str!HeadLink ELSE R[p]
  /\ l.next \in [Bufs -> Bufs \cup {Str!Null}]
  /\ \A g \in c + 1 .. p : l.next[R[g]] = IF g = p THEN Str!Null ELSE R[g + 1]

(* The row, or a count, with one more. *)
Extended(R, p, b) == [R EXCEPT ![p + 1] = b]

(* The card may fill the row from the buffer after its own. *)
Queued(R, f, p) ==
  /\ filling = R[f]
  /\ posted \in Seq(Bufs) /\ Len(posted) = p - f
  /\ \A i \in 1 .. p - f : posted[i] = R[f + i]

(* No packet from the listener's buffer on has been overwritten. *)
Lasting(R, First, c, f) ==
  /\ First \in [Nat -> Nat]
  /\ memory \in [Bufs -> Seq(Nat)]
  /\ \A g \in c .. f : g > 0 =>
       \A i \in 1 .. Len(memory[R[g]]) : memory[R[g]][i] = First[g] + i
  /\ arrived \in Nat
  /\ arrived = IF f = 0 THEN 0 ELSE First[f] + Len(memory[R[f]])

(* What event e, the k-th, ends. *)
Follows(S, G, k, e) ==
  /\ G[k] > 0 /\ G[k] = IF e.next THEN G[k - 1] + 1 ELSE G[k - 1]
  /\ S[k] = S[k - 1] + e.pkts

(* The events that wait are those of the packets that wait. *)
Announced(S, G, c, f, h, q) ==
  /\ S \in [Nat -> Nat] /\ G \in [Nat -> Nat] /\ h \in Nat /\ q \in Nat /\ h <= q
  /\ events \in Seq([next : BOOLEAN, pkts : Nat]) /\ Len(events) = q - h
  /\ G[h] = c /\ G[q] = f
  /\ S[h] = Len(consumed) + todo /\ S[q] = arrived
  /\ \A j, k \in h .. q : j <= k => G[j] <= G[k]
  /\ \A k \in h + 1 .. q : Follows(S, G, k, events[k - h])

(* An event never ends beyond its buffer, and one that opens a buffer      *)
(* begins with the buffer's first packet.                                  *)
EventsPlaced(R, First, S, G, h, q) ==
  \A k \in h + 1 .. q :
    /\ events[k - h].next => S[k - 1] = First[G[k]]
    /\ S[k] <= First[G[k]] + Len(memory[R[G[k]]])

Reads(R, First, c) ==
  /\ current = R[c]
  /\ consumed \in Seq(Nat) /\ \A n \in 1 .. Len(consumed) : consumed[n] = n
  /\ iter \in Nat /\ todo \in Nat
  /\ c = 0 => todo = 0 /\ Len(consumed) = 0
  /\ c > 0 => First[c] + iter = Len(consumed) /\ iter + todo <= Len(memory[R[c]])

Stream(R, First, S, G, c, f, p, h, q) ==
  /\ Rowed(R, c, f, p)
  /\ Listed(Str!TheList, R, c, p)
  /\ Queued(R, f, p)
  /\ Lasting(R, First, c, f)
  /\ Announced(S, G, c, f, h, q)
  /\ EventsPlaced(R, First, S, G, h, q)
  /\ Reads(R, First, c)

InStream == \E R, First, S, G, c, f, p, h, q : Stream(R, First, S, G, c, f, p, h, q)

LEMMA NullNoLink == Str!Null # Str!HeadLink
  BY DEF Str!Null, Str!HeadLink

LEMMA StreamBegins ==
  ASSUME Str!BuffersNamed, Str!Init PROVE InStream
<1> DEFINE R == [g \in Nat |-> Str!Null]  Zero == [g \in Nat |-> 0]
<1>1. Rowed(R, 0, 0, 0) /\ Listed(Str!TheList, R, 0, 0) /\ Queued(R, 0, 0)
  BY DEF Str!Init, Str!NewList, Str!TheList, Rowed, Listed, Queued, Str!BuffersNamed
<1>2. Lasting(R, Zero, 0, 0) /\ Reads(R, Zero, 0)
  BY DEF Str!Init, Lasting, Reads
<1>3. Announced(Zero, Zero, 0, 0, 0, 0) /\ EventsPlaced(R, Zero, Zero, Zero, 0, 0)
  BY DEF Str!Init, Announced, EventsPlaced
<1> QED  BY <1>1, <1>2, <1>3 DEF Stream, InStream

LEMMA RowExtended ==
  ASSUME NEW R, NEW c, NEW f, NEW p, Rowed(R, c, f, p), NEW b \in Bufs
  PROVE  /\ Extended(R, p, b) \in [Nat -> Bufs \cup {Str!Null}] /\ Extended(R, p, b)[p + 1] = b
         /\ \A g \in 0 .. p : Extended(R, p, b)[g] = R[g]
  BY DEF Rowed, Extended

(* Put appends to the row, Get takes its first. *)
LEMMA PutAtEnd ==
  ASSUME Str!BuffersNamed, NEW R, NEW c, NEW f, NEW p, Rowed(R, c, f, p),
         NEW l, Listed(l, R, c, p),
         NEW b \in Bufs, \A g \in c + 1 .. p : R[g] # b
  PROVE  Listed(Str!Put(l, b), Extended(R, p, b), c, p + 1)
<1>q. PICK Q : Q = Extended(R, p, b)
  OBVIOUS
<1>0. /\ Q \in [Nat -> Bufs \cup {Str!Null}] /\ Q[p + 1] = b
      /\ \A g \in 0 .. p : Q[g] = R[g]
      /\ \A g \in c + 1 .. p : R[g] \in Bufs
      /\ c \in Nat /\ p \in Nat /\ c <= p
  <2>1. /\ Q \in [Nat -> Bufs \cup {Str!Null}] /\ Q[p + 1] = b
        /\ \A g \in 0 .. p : Q[g] = R[g]
    BY <1>q, RowExtended
  <2>2. c \in Nat /\ p \in Nat /\ c <= p /\ \A g \in c + 1 .. p : R[g] \in Bufs
    BY DEF Rowed
  <2> QED  BY <2>1, <2>2
<1>m. PICK m : m = Str!Put(l, b)
  OBVIOUS
<1>1. m.tail = b /\ m.head = Q[c + 1]
  <2>1. CASE c = p
    BY <1>0, <1>m, <2>1 DEF Str!Put, Listed
  <2>2. CASE c < p
    BY <1>0, <1>m, <2>2, NullNoLink DEF Str!Put, Listed, Rowed, Str!BuffersNamed
  <2> QED  BY <1>0, <2>1, <2>2
<1>2. m.next = [x \in Bufs |-> IF x = b THEN Str!Null ELSE IF x = l.tail THEN b ELSE l.next[x]]
  BY <1>m DEF Str!Put
<1>3. m.next \in [Bufs -> Bufs \cup {Str!Null}]
  BY <1>2 DEF Listed
<1>4. ASSUME NEW g \in c + 1 .. p + 1
      PROVE  m.next[Q[g]] = IF g = p + 1 THEN Str!Null ELSE Q[g + 1]
  <2>1. CASE g = p + 1
    BY <1>0, <1>2, <2>1
  <2>2. CASE g = p
    <3>1. Q[g] = l.tail /\ Q[g] # b /\ Q[g] \in Bufs
      BY <1>0, <2>2 DEF Listed
    <3> QED  BY <1>0, <1>2, <2>2, <3>1
  <2>3. CASE g < p
    <3>1. Q[g] # l.tail /\ Q[g] # b /\ Q[g] \in Bufs
      BY <1>0, <2>3 DEF Listed, Rowed
    <3>2. Q[g + 1] = R[g + 1] /\ l.next[R[g]] = R[g + 1] /\ Q[g] = R[g]
      BY <1>0, <2>3 DEF Listed
    <3> QED  BY <1>0, <1>2, <2>3, <3>1, <3>2
  <2> QED  BY <1>0, <2>1, <2>2, <2>3
<1> QED  BY <1>0, <1>1, <1>3, <1>4, <1>m, <1>q DEF Listed

LEMMA GetFirst ==
  ASSUME Str!BuffersNamed, NEW R, NEW c \in Nat, NEW p \in Nat, c < p,
         \A g \in c + 1 .. p : R[g] \in Bufs,
         NEW l, Listed(l, R, c, p)
  PROVE  l.head = R[c + 1] /\ Listed(Str!Get(l), R, c + 1, p)
<1>1. l.head = R[c + 1] /\ R[c + 1] \in Bufs /\ R[c + 1] # Str!Null /\ c \in Nat /\ p \in Nat
  BY DEF Listed, Str!BuffersNamed
<1>m. PICK m : m = Str!Get(l)
  OBVIOUS
<1>2. l.next[R[c + 1]] = IF c + 1 = p THEN Str!Null ELSE R[c + 2]
  BY <1>1 DEF Listed
<1>3. c + 1 < p => R[c + 2] # Str!Null
  BY <1>1 DEF Str!BuffersNamed
<1>4. m.next = l.next /\ m.head = l.next[R[c + 1]]
      /\ m.tail = IF l.next[R[c + 1]] = Str!Null THEN Str!HeadLink ELSE l.tail
  BY <1>1, <1>m DEF Str!Get
<1> QED  BY <1>1, <1>2, <1>3, <1>4, <1>m DEF Listed

(* A buffer that is posted is the last the card comes to. *)
LEMMA QueuedAppended ==
  ASSUME NEW R, NEW f \in Nat, NEW p \in Nat, f <= p, Queued(R, f, p),
         NEW b \in Bufs, posted' = Append(posted, b), filling' = filling,
         NEW Q, NEW t, t = p + 1, Q[t] = b, \A g \in 0 .. p : Q[g] = R[g]
  PROVE  Queued(Q, f, t)'
<1>1. /\ posted \in Seq(Bufs) /\ Len(posted) = p - f /\ \A i \in 1 .. p - f : posted[i] = R[f + i]
      /\ filling = R[f]
  BY DEF Queued
<1>2. /\ posted' \in Seq(Bufs) /\ Len(posted') = t - f
      /\ \A i \in 1 .. p - f : (posted')[i] = posted[i]
      /\ (posted')[t - f] = b
  <2>1. /\ posted' \in Seq(Bufs) /\ Len(posted') = Len(posted) + 1
        /\ \A i \in 1 .. Len(posted) : (posted')[i] = posted[i]
        /\ (posted')[Len(posted) + 1] = b
    <3>1. posted \in Seq(Bufs)
      BY <1>1
    <3> QED  BY <3>1, AppendProperties
  <2> QED  BY <1>1, <2>1
<1>3. ASSUME NEW i \in 1 .. t - f  PROVE  (posted')[i] = Q[f + i]
  <2>1. CASE i = t - f
    BY <1>2, <2>1
  <2>2. CASE i < t - f
    <3>1. i \in 1 .. p - f /\ f + i \in 0 .. p
      BY <2>2
    <3> QED  BY <1>1, <1>2, <3>1
  <2>3. t - f \in Nat /\ i \in Nat /\ (i = t - f \/ i < t - f)
    <3>1. t \in Nat /\ t - f \in Nat /\ i \in Nat /\ i <= t - f
      OBVIOUS
    <3> QED  BY <3>1
  <2> QED  BY <2>1, <2>2, <2>3
<1>4. filling' = Q[f]
  BY <1>1
<1> QED  BY <1>2, <1>3, <1>4 DEF Queued

(* start posts a buffer, which was not in the row. *)
LEMMA PostKeeps ==
  ASSUME Str!BuffersNamed, InStream, Str!Post
  PROVE  InStream'
<1>s. PICK R, First, S, G, c, f, p, h, q : Stream(R, First, S, G, c, f, p, h, q)
  BY DEF InStream
<1>1. PICK b \in fresh : /\ fresh' = fresh \ {b} /\ posted' = Append(posted, b)
                         /\ Str!ListBecomes(Str!Put(Str!TheList, b))
  BY DEF Str!Post
<1>2. UNCHANGED <<filling, memory, events, arrived, current, iter, todo, consumed>>
  BY DEF Str!Post
<1>r. Rowed(R, c, f, p)
  BY <1>s DEF Stream
<1>l. Listed(Str!TheList, R, c, p) /\ Queued(R, f, p)
  BY <1>s DEF Stream
<1>f. Lasting(R, First, c, f) /\ Reads(R, First, c)
  BY <1>s DEF Stream
<1>a. Announced(S, G, c, f, h, q) /\ EventsPlaced(R, First, S, G, h, q)
  BY <1>s DEF Stream
<1>3. b \in Bufs /\ b # Str!Null /\ \A g \in c .. p : R[g] # b
  BY <1>r DEF Rowed, Str!BuffersNamed
<1>q. PICK Q : Q = Extended(R, p, b)
  OBVIOUS
<1>n. c \in Nat /\ f \in Nat /\ p \in Nat /\ c <= f /\ f <= p
  BY <1>r DEF Rowed
<1>4. /\ Q \in [Nat -> Bufs \cup {Str!Null}] /\ Q[p + 1] = b
      /\ \A g \in 0 .. p : Q[g] = R[g]
  BY <1>q, <1>3, <1>r, RowExtended
<1>5. Rowed(Q, c, f, p + 1)'
  <2>1. c <= f /\ f <= p + 1 /\ Q[0] = Str!Null /\ \A g \in 1 .. p + 1 : Q[g] \in Bufs
    BY <1>r, <1>3, <1>4 DEF Rowed
  <2>2. \A i, j \in c .. p + 1 : Q[i] = Q[j] => i = j
    BY <1>r, <1>3, <1>4 DEF Rowed
  <2>3. fresh' \subseteq Bufs /\ \A g \in c .. p + 1 : Q[g] \notin fresh'
    BY <1>r, <1>1, <1>3, <1>4 DEF Rowed
  <2> QED  BY <1>4, <1>n, <2>1, <2>2, <2>3 DEF Rowed
<1>6. Listed(Str!TheList, Q, c, p + 1)'
  <2>1. \A g \in c + 1 .. p : R[g] # b
    BY <1>3, <1>n
  <2>2. Listed(Str!Put(Str!TheList, b), Q, c, p + 1)
    BY <1>r, <1>l, <1>3, <1>q, <2>1, PutAtEnd
  <2>3. Listed(Str!TheList', Q, c, p + 1)
    BY <1>1, <2>2 DEF Str!ListBecomes, Str!TheList, Listed
  <2> QED  BY <2>3 DEF Listed
<1>7. Queued(Q, f, p + 1)'
  <2>1. PICK t : t = p + 1
    OBVIOUS
  <2>2. Queued(Q, f, t)'
    BY <1>1, <1>2, <1>l, <1>3, <1>4, <1>n, <2>1, QueuedAppended
  <2> QED  BY <2>1, <2>2
<1>8. Lasting(Q, First, c, f)' /\ Reads(Q, First, c)'
  <2>1. \A g \in c .. f : Q[g] = R[g]
    BY <1>4, <1>n
  <2>2. Lasting(Q, First, c, f)'
    <3>1. Q[f] = R[f]
      BY <1>4, <1>n
    <3>2. \A g \in c .. f : g > 0 =>
            \A i \in 1 .. Len(memory[Q[g]]) : memory[Q[g]][i] = First[g] + i
      BY <1>f, <2>1 DEF Lasting
    <3> QED  BY <1>f, <1>2, <3>1, <3>2 DEF Lasting
  <2>3. Reads(Q, First, c)'
    BY <1>f, <1>2, <1>n, <2>1 DEF Reads
  <2> QED  BY <2>2, <2>3
<1>9. Announced(S, G, c, f, h, q)'
  BY <1>a, <1>2 DEF Announced
<1>10. EventsPlaced(Q, First, S, G, h, q)'
  <2>1. \A k \in h + 1 .. q : G[k] \in 0 .. p
    <3>1. ASSUME NEW k \in h + 1 .. q  PROVE  G[k] \in Nat /\ G[k] <= G[q] /\ G[q] = f
      <4>1. /\ G \in [Nat -> Nat] /\ h \in Nat /\ q \in Nat /\ h <= q /\ G[q] = f
            /\ \A i, j \in h .. q : i <= j => G[i] <= G[j]
        BY <1>a DEF Announced
      <4>2. k \in h .. q /\ q \in h .. q /\ k <= q /\ k \in Nat
        BY <4>1
      <4> QED  BY <4>1, <4>2
    <3> QED  BY <1>n, <3>1
  <2>2. \A k \in h + 1 .. q : Q[G[k]] = R[G[k]]
    BY <1>4, <2>1
  <2> QED  BY <1>a, <1>2, <2>2 DEF EventsPlaced
<1>11. Stream(Q, First, S, G, c, f, p + 1, h, q)'
  BY <1>5, <1>6, <1>7, <1>8, <1>9, <1>10 DEF Stream
<1> QED  BY <1>11 DEF InStream

(* The events that wait are for the buffers from the listener's to the     *)
(* card's.                                                                 *)
LEMMA EventsBetween ==
  ASSUME NEW S, NEW G, NEW c \in Nat, NEW f \in Nat, NEW h, NEW q, Announced(S, G, c, f, h, q)
  PROVE  /\ h \in Nat /\ q \in Nat /\ h <= q /\ G \in [Nat -> Nat]
         /\ \A k \in h .. q : G[k] \in c .. f
         /\ \A k \in h + 1 .. q : G[k] > 0
<1>1. /\ G \in [Nat -> Nat] /\ h \in Nat /\ q \in Nat /\ h <= q /\ G[h] = c /\ G[q] = f
      /\ \A i, j \in h .. q : i <= j => G[i] <= G[j]
  BY DEF Announced
<1>2. \A k \in h + 1 .. q : G[k] > 0
  BY DEF Announced, Follows
<1>3. ASSUME NEW k \in h .. q  PROVE  G[k] \in c .. f
  <2>1. h \in h .. q /\ q \in h .. q /\ h <= k /\ k <= q /\ k \in Nat
    BY <1>1
  <2> QED  BY <1>1, <2>1
<1> QED  BY <1>1, <1>2, <1>3

(* The card announces the packets it has put into buffer g of the row. *)
Announces(e, f, g, a) ==
  /\ e \in [next : BOOLEAN, pkts : Nat] /\ events' = Append(events, e)
  /\ arrived \in Nat /\ a = arrived + e.pkts /\ arrived' = a
  /\ g = (IF e.next THEN f + 1 ELSE f) /\ g > 0
  /\ UNCHANGED <<consumed, todo>>

(* The new event is the last of those that wait. *)
LEMMA EventLast ==
  ASSUME NEW S, NEW G, NEW c, NEW f, NEW h, NEW q, Announced(S, G, c, f, h, q),
         NEW e, NEW g, NEW a, Announces(e, f, g, a)
  PROVE  /\ events' \in Seq([next : BOOLEAN, pkts : Nat]) /\ Len(events') = q + 1 - h
         /\ \A k \in h + 1 .. q : events'[k - h] = events[k - h]
         /\ events'[q + 1 - h] = e
<1>0. /\ h \in Nat /\ q \in Nat /\ h <= q
      /\ events \in Seq([next : BOOLEAN, pkts : Nat]) /\ Len(events) = q - h
  BY DEF Announced
<1>1. PICK E : E = [next : BOOLEAN, pkts : Nat]
  OBVIOUS
<1>2. events \in Seq(E) /\ e \in E /\ events' = Append(events, e)
  BY <1>0, <1>1 DEF Announces
<1>3. /\ events' \in Seq(E) /\ Len(events') = Len(events) + 1
      /\ \A i \in 1 .. Len(events) : events'[i] = events[i]
      /\ events'[Len(events) + 1] = e
  BY <1>2, AppendProperties
<1>4. \A k \in h + 1 .. q : k - h \in 1 .. Len(events)
  BY <1>0
<1>5. Len(events) + 1 = q + 1 - h
  BY <1>0
<1> QED  BY <1>1, <1>3, <1>4, <1>5

(* So the events that wait still are those of the packets that wait. *)
LEMMA EventAdded ==
  ASSUME NEW S, NEW G, NEW c \in Nat, NEW f \in Nat, NEW h, NEW q, Announced(S, G, c, f, h, q),
         NEW e, NEW g, NEW a, Announces(e, f, g, a)
  PROVE  Announced(Extended(S, q, a), Extended(G, q, g), c, g, h, q + 1)'
<1>0. /\ S \in [Nat -> Nat] /\ G \in [Nat -> Nat] /\ h \in Nat /\ q \in Nat /\ h <= q
      /\ events \in Seq([next : BOOLEAN, pkts : Nat]) /\ Len(events) = q - h
      /\ G[h] = c /\ G[q] = f /\ S[h] = Len(consumed) + todo /\ S[q] = arrived
  BY DEF Announced
<1>1. /\ \A i, j \in h .. q : i <= j => G[i] <= G[j]
      /\ \A k \in h + 1 .. q : Follows(S, G, k, events[k - h])
  BY DEF Announced
<1>2. \A k \in h .. q : G[k] \in c .. f
  BY EventsBetween
<1>3. a \in Nat /\ g \in Nat /\ f <= g /\ e.pkts \in Nat
  BY DEF Announces
<1>t. S \in [Nat -> Nat] /\ G \in [Nat -> Nat] /\ q \in Nat
  BY DEF Announced
<1>s. PICK T : T = Extended(S, q, a)
  OBVIOUS
<1>g. PICK H : H = Extended(G, q, g)
  OBVIOUS
<1>4. /\ T \in [Nat -> Nat] /\ T[q + 1] = a /\ \A k \in 0 .. q : T[k] = S[k]
      /\ H \in [Nat -> Nat] /\ H[q + 1] = g /\ \A k \in 0 .. q : H[k] = G[k]
  <2>1. T \in [Nat -> Nat] /\ T[q + 1] = a /\ \A k \in 0 .. q : T[k] = S[k]
    BY <1>t, <1>3, <1>s DEF Extended
  <2>2. H \in [Nat -> Nat] /\ H[q + 1] = g /\ \A k \in 0 .. q : H[k] = G[k]
    BY <1>t, <1>3, <1>g DEF Extended
  <2> QED  BY <2>1, <2>2
<1>5. /\ events' \in Seq([next : BOOLEAN, pkts : Nat]) /\ Len(events') = q + 1 - h
      /\ \A k \in h + 1 .. q : events'[k - h] = events[k - h]
      /\ events'[q + 1 - h] = e
  BY EventLast
<1>6. \A i, j \in h .. q + 1 : i <= j => H[i] <= H[j]
  <2>1. SUFFICES ASSUME NEW i \in h .. q + 1, NEW j \in h .. q + 1, i <= j
                 PROVE  H[i] <= H[j]
    OBVIOUS
  <2>2. CASE j = q + 1
    <3>1. CASE i = q + 1
      <4>1. H[i] = g /\ H[j] = g
        BY <1>4, <2>2, <3>1
      <4> QED  BY <1>3, <4>1
    <3>2. CASE i < q + 1
      <4>1. i \in h .. q /\ i \in 0 .. q
        BY <1>0, <3>2
      <4>2. H[i] = G[i] /\ H[j] = g /\ G[i] \in c .. f
        BY <1>2, <1>4, <2>2, <4>1
      <4> QED  BY <1>3, <4>2
    <3> QED  BY <1>0, <3>1, <3>2
  <2>3. CASE j < q + 1
    <3>1. i \in h .. q /\ j \in h .. q /\ i \in 0 .. q /\ j \in 0 .. q
      BY <1>0, <2>1, <2>3
    <3> QED  BY <1>1, <1>4, <2>1, <3>1
  <2> QED  BY <1>0, <2>2, <2>3
<1>7. ASSUME NEW k \in h + 1 .. q + 1
      PROVE  Follows(T, H, k, events'[k - h])
  <2>1. CASE k = q + 1
    <3>1. H[k] = g /\ T[k] = a /\ H[k - 1] = f /\ T[k - 1] = arrived /\ events'[k - h] = e
      BY <1>0, <1>4, <1>5, <2>1
    <3> QED  BY <3>1 DEF Announces, Follows
  <2>2. CASE k < q + 1
    <3>1. k \in h + 1 .. q /\ k \in 0 .. q /\ k - 1 \in 0 .. q
      BY <1>0, <2>2
    <3>2. events'[k - h] = events[k - h]
      BY <1>5, <3>1
    <3>3. H[k] = G[k] /\ H[k - 1] = G[k - 1] /\ T[k] = S[k] /\ T[k - 1] = S[k - 1]
      BY <1>4, <3>1
    <3> QED  BY <1>1, <3>1, <3>2, <3>3 DEF Follows
  <2> QED  BY <1>0, <2>1, <2>2
<1>8. /\ H[h] = c /\ H[q + 1] = g /\ h <= q + 1 /\ q + 1 \in Nat /\ h \in Nat
      /\ T[h] = Len(consumed') + todo' /\ T[q + 1] = arrived'
  BY <1>0, <1>4 DEF Announces
<1>9. Announced(T, H, c, g, h, q + 1)'
  <2>r. PICK r : r = q + 1
    OBVIOUS
  <2>1. T \in [Nat -> Nat] /\ H \in [Nat -> Nat] /\ h \in Nat /\ r \in Nat /\ h <= r
    BY <1>4, <1>8, <2>r
  <2>2. events' \in Seq([next : BOOLEAN, pkts : Nat]) /\ Len(events') = r - h
    <3>1. events' \in Seq([next : BOOLEAN, pkts : Nat])
      BY <1>5
    <3>2. Len(events') = r - h
      <4>1. Len(events') = q + 1 - h
        BY <1>5
      <4>2. q \in Nat /\ h \in Nat /\ r = q + 1
        BY <1>t, <1>8, <2>r
      <4> QED  BY <4>1, <4>2
    <3> QED  BY <3>1, <3>2
  <2>3. \A k \in h + 1 .. r : Follows(T, H, k, (events')[k - h])
    BY <1>7, <2>r
  <2>4. \A i, j \in h .. r : i <= j => H[i] <= H[j]
    BY <1>6, <2>r
  <2>5. H[h] = c /\ H[r] = g /\ T[h] = Len(consumed') + todo' /\ T[r] = arrived'
    BY <1>8, <2>r
  <2>6. Announced(T, H, c, g, h, r)'
    BY <2>1, <2>2, <2>3, <2>4, <2>5 DEF Announced
  <2> QED  BY <2>6, <2>r
<1> QED  BY <1>9, <1>s, <1>g

(* The card's buffer grows, and no other one that is still of interest. *)
LEMMA ArriveKeeps ==
  ASSUME PerBuf \in Nat, InStream, Str!Arrive
  PROVE  InStream'
<1>s. PICK R, First, S, G, c, f, p, h, q : Stream(R, First, S, G, c, f, p, h, q)
  BY DEF InStream
<1>r. Rowed(R, c, f, p) /\ Listed(Str!TheList, R, c, p) /\ Queued(R, f, p)
  BY <1>s DEF Stream
<1>f. Lasting(R, First, c, f) /\ Reads(R, First, c)
  BY <1>s DEF Stream
<1>a. Announced(S, G, c, f, h, q) /\ EventsPlaced(R, First, S, G, h, q)
  BY <1>s DEF Stream
<1>1. filling # Str!Null
  BY DEF Str!Arrive
<1>3. UNCHANGED <<fresh, posted, filling, head, next, tail, current, iter, todo, consumed>>
  BY DEF Str!Arrive, Str!list
<1>n. c \in Nat /\ f \in Nat /\ p \in Nat /\ c <= f /\ f <= p
  BY <1>r DEF Rowed
<1>5. f > 0 /\ filling = R[f] /\ R[f] \in Bufs
  BY <1>1, <1>r, <1>n DEF Rowed, Queued
<1>6. /\ First \in [Nat -> Nat] /\ memory \in [Bufs -> Seq(Nat)]
      /\ arrived \in Nat /\ arrived = First[f] + Len(memory[R[f]])
      /\ \A g \in c .. f : g > 0 =>
           \A i \in 1 .. Len(memory[R[g]]) : memory[R[g]][i] = First[g] + i
  <2>1. /\ First \in [Nat -> Nat] /\ memory \in [Bufs -> Seq(Nat)] /\ arrived \in Nat
        /\ arrived = IF f = 0 THEN 0 ELSE First[f] + Len(memory[R[f]])
    BY <1>f DEF Lasting
  <2>2. \A g \in c .. f : g > 0 =>
          \A i \in 1 .. Len(memory[R[g]]) : memory[R[g]][i] = First[g] + i
    BY <1>f DEF Lasting
  <2>3. arrived = First[f] + Len(memory[R[f]])
    BY <1>5, <1>n, <2>1
  <2> QED  BY <2>1, <2>2, <2>3
<1>2. PICK n :
        /\ n \in Nat /\ n > 0
        /\ memory' = [memory EXCEPT ![filling] = @ \o [i \in 1 .. n |-> arrived + i]]
        /\ events' = Append(events, [next |-> FALSE, pkts |-> n])
        /\ arrived' = arrived + n
  <2>1. Len(memory[filling]) \in Nat
    BY <1>5, <1>6
  <2>2. \A n \in 1 .. PerBuf - Len(memory[filling]) : n \in Nat /\ n > 0
    BY <2>1
  <2> QED  BY <2>2 DEF Str!Arrive
<1>4. n \in Nat /\ n > 0
  BY <1>2
<1>m. PICK M : M = [i \in 1 .. n |-> arrived + i]
  OBVIOUS
<1>7. M \in Seq(Nat) /\ Len(M) = n /\ \A i \in 1 .. n : M[i] = arrived + i
  <2>1. M \in [1 .. n -> Nat]
    <3>0. arrived \in Nat /\ n \in Nat
      BY <1>4, <1>6
    <3>1. \A i \in 1 .. n : arrived + i \in Nat
      BY <3>0
    <3> QED  BY <1>m, <3>1
  <2>2. Len(M) = n /\ M \in Seq(Nat)
    BY <1>4, <2>1
  <2> QED  BY <1>m, <2>2
<1>8. /\ memory[R[f]] \o M \in Seq(Nat)
      /\ Len(memory[R[f]] \o M) = Len(memory[R[f]]) + n
      /\ \A i \in 1 .. Len(memory[R[f]]) : (memory[R[f]] \o M)[i] = memory[R[f]][i]
      /\ \A i \in 1 .. n : (memory[R[f]] \o M)[Len(memory[R[f]]) + i] = arrived + i
  <2>1. PICK m : m = memory[R[f]]
    OBVIOUS
  <2>2. m \in Seq(Nat) /\ Len(m) \in Nat
    BY <1>5, <1>6, <2>1
  <2>3. /\ m \o M \in Seq(Nat) /\ Len(m \o M) = Len(m) + n
        /\ \A i \in 1 .. Len(m) + n : (m \o M)[i] = IF i <= Len(m) THEN m[i] ELSE M[i - Len(m)]
    BY <2>2, <1>7, ConcatProperties
  <2>4. \A i \in 1 .. Len(m) : (m \o M)[i] = m[i]
    BY <1>4, <2>2, <2>3
  <2>5. \A i \in 1 .. n : (m \o M)[Len(m) + i] = arrived + i
    <3>1. SUFFICES ASSUME NEW i \in 1 .. n  PROVE  (m \o M)[Len(m) + i] = arrived + i
      OBVIOUS
    <3>2. Len(m) + i \in 1 .. Len(m) + n /\ ~(Len(m) + i <= Len(m)) /\ Len(m) + i - Len(m) = i
      BY <1>4, <2>2
    <3>3. (m \o M)[Len(m) + i] = M[i]
      BY <2>3, <3>2
    <3> QED  BY <1>7, <3>3
  <2> QED  BY <2>1, <2>3, <2>4, <2>5
<1>9. /\ memory' \in [Bufs -> Seq(Nat)]
      /\ memory'[R[f]] = memory[R[f]] \o M
      /\ \A b \in Bufs : b # R[f] => memory'[b] = memory[b]
  BY <1>2, <1>5, <1>6, <1>8, <1>m
<1>10. \A b \in Bufs : Len(memory[b]) \in Nat /\ Len(memory[b]) <= Len(memory'[b])
  <2>1. \A b \in Bufs : Len(memory[b]) \in Nat
    BY <1>6
  <2>2. Len(memory[R[f]]) <= Len(memory'[R[f]])
    BY <1>4, <1>5, <1>8, <1>9, <2>1
  <2>3. \A b \in Bufs : b # R[f] => Len(memory[b]) <= Len(memory'[b])
    BY <1>9, <2>1
  <2> QED  BY <2>1, <2>2, <2>3
<1>now. arrived' = First[f] + Len(memory'[R[f]]) /\ arrived' \in Nat
  <2>1. First[f] \in Nat /\ Len(memory[R[f]]) \in Nat
    BY <1>5, <1>6, <1>n, <1>10
  <2>2. Len(memory'[R[f]]) = Len(memory[R[f]]) + n
    BY <1>8, <1>9
  <2>3. arrived' = First[f] + Len(memory[R[f]]) + n
    BY <1>2, <1>6
  <2>4. First[f] + Len(memory[R[f]]) + n = First[f] + Len(memory'[R[f]])
    BY <1>4, <2>1, <2>2
  <2>5. First[f] + Len(memory[R[f]]) + n \in Nat
    BY <1>4, <2>1
  <2> QED  BY <2>3, <2>4, <2>5
<1>11. Lasting(R, First, c, f)'
  <2>1. ASSUME NEW g \in c .. f, g > 0, NEW i \in 1 .. Len(memory'[R[g]])
        PROVE  memory'[R[g]][i] = First[g] + i
    <3>1. CASE g = f
      <4>1. CASE i \in 1 .. Len(memory[R[f]])
        BY <1>6, <1>8, <1>9, <2>1, <3>1, <4>1, <1>n
      <4>2. CASE i \notin 1 .. Len(memory[R[f]])
        <5>1. PICK k, m : m = Len(memory[R[f]]) /\ k = i - m
          OBVIOUS
        <5>2. m \in Nat /\ Len(memory'[R[f]]) = m + n /\ First[g] \in Nat /\ arrived = First[g] + m
          <6>1. m \in Nat /\ Len(memory'[R[f]]) = m + n
            BY <1>5, <1>8, <1>9, <1>10, <5>1
          <6>2. g \in Nat /\ First[g] \in Nat /\ arrived = First[g] + m
            BY <1>6, <1>n, <3>1, <5>1
          <6> QED  BY <6>1, <6>2
        <5>3. i \in 1 .. m + n /\ i \notin 1 .. m
          BY <3>1, <4>2, <5>1, <5>2
        <5>4. k \in 1 .. n /\ i = m + k
          BY <1>4, <5>1, <5>2, <5>3
        <5>5. memory'[R[g]][i] = arrived + k
          BY <1>8, <1>9, <3>1, <5>1, <5>4
        <5> QED  BY <1>4, <5>2, <5>4, <5>5
      <4> QED  BY <4>1, <4>2
    <3>2. CASE g # f
      <4>1. R[g] # R[f] /\ R[g] \in Bufs
        BY <1>r, <1>n, <2>1, <3>2 DEF Rowed
      <4> QED  BY <1>6, <1>9, <2>1, <4>1
    <3> QED  BY <3>1, <3>2
  <2>2. arrived' = First[f] + Len(memory'[R[f]]) /\ arrived' \in Nat
    BY <1>now
  <2>3. arrived' = IF f = 0 THEN 0 ELSE First[f] + Len(memory'[R[f]])
    BY <1>5, <1>n, <2>2
  <2> QED  BY <1>6, <1>9, <2>1, <2>2, <2>3 DEF Lasting
<1>x. PICK a, e : a = arrived + n /\ e = [next |-> FALSE, pkts |-> n]
  OBVIOUS
<1>ann. Announces(e, f, f, a)
  BY <1>2, <1>3, <1>4, <1>5, <1>6, <1>x DEF Announces
<1>12. Announced(Extended(S, q, a), Extended(G, q, f), c, f, h, q + 1)'
  BY <1>a, <1>n, <1>ann, EventAdded
<1>13. EventsPlaced(R, First, Extended(S, q, a), Extended(G, q, f), h, q + 1)'
  <2>t. S \in [Nat -> Nat] /\ G \in [Nat -> Nat] /\ q \in Nat /\ h \in Nat /\ h <= q
        /\ events \in Seq([next : BOOLEAN, pkts : Nat]) /\ Len(events) = q - h
    BY <1>a DEF Announced
  <2>s. PICK T, H, r : T = Extended(S, q, a) /\ H = Extended(G, q, f) /\ r = q + 1
    OBVIOUS
  <2>1. /\ T[r] = a /\ \A k \in 0 .. q : T[k] = S[k]
        /\ H[r] = f /\ \A k \in 0 .. q : H[k] = G[k]
    BY <2>t, <2>s, <1>n, <1>4, <1>6, <1>x DEF Extended
  <2>2. \A k \in h + 1 .. q : G[k] \in c .. f /\ G[k] > 0
    BY <1>a, <1>n, EventsBetween
  <2>e. /\ \A k \in h + 1 .. q : (events')[k - h] = events[k - h]
        /\ (events')[r - h] = e
    <3>1. /\ \A k \in h + 1 .. q : (events')[k - h] = events[k - h]
          /\ (events')[q + 1 - h] = e
      BY <1>a, <1>ann, EventLast
    <3>2. q + 1 - h = r - h
      BY <2>t, <2>s
    <3> QED  BY <3>1, <3>2
  <2>5. \A g \in 1 .. f : c <= g => R[g] \in Bufs
    BY <1>r, <1>n DEF Rowed
  <2>3. ASSUME NEW k \in h + 1 .. r
        PROVE  /\ (events')[k - h].next => T[k - 1] = First[H[k]]
               /\ T[k] <= First[H[k]] + Len((memory')[R[H[k]]])
    <3>1. CASE k = r
      <4>1. ~ (events')[k - h].next
        BY <1>x, <2>e, <3>1
      <4>2. T[k] = First[H[k]] + Len((memory')[R[H[k]]])
        BY <1>now, <1>x, <1>2, <2>1, <3>1
      <4>3. T[k] \in Nat
        <5>1. T[k] = a
          BY <2>1, <3>1
        <5>2. a \in Nat
          <6>1. arrived \in Nat /\ n \in Nat
            BY <1>4, <1>6
          <6> QED  BY <1>x, <6>1
        <5> QED  BY <5>1, <5>2
      <4> QED  BY <4>1, <4>2, <4>3
    <3>2. CASE k # r
      <4>1. k \in h + 1 .. q /\ k \in 0 .. q /\ k - 1 \in 0 .. q
        BY <2>t, <2>s, <3>2
      <4>2. /\ events[k - h].next => S[k - 1] = First[G[k]]
            /\ S[k] <= First[G[k]] + Len(memory[R[G[k]]])
        BY <1>a, <4>1 DEF EventsPlaced
      <4>3. (events')[k - h] = events[k - h] /\ T[k] = S[k] /\ H[k] = G[k] /\ T[k - 1] = S[k - 1]
        BY <2>1, <2>e, <4>1
      <4>4. R[G[k]] \in Bufs /\ G[k] \in Nat
        BY <2>2, <2>5, <4>1, <1>n
      <4>5. Len(memory[R[G[k]]]) <= Len((memory')[R[G[k]]]) /\ Len(memory[R[G[k]]]) \in Nat
             /\ Len((memory')[R[G[k]]]) \in Nat /\ First[G[k]] \in Nat /\ S[k] \in Nat
        <5>1. Len(memory[R[G[k]]]) <= Len((memory')[R[G[k]]]) /\ Len(memory[R[G[k]]]) \in Nat
          BY <1>10, <4>4
        <5>2. Len((memory')[R[G[k]]]) \in Nat
          BY <1>9, <4>4
        <5>3. First[G[k]] \in Nat /\ S[k] \in Nat
          <6>1. First \in [Nat -> Nat] /\ S \in [Nat -> Nat] /\ h \in Nat /\ q \in Nat
            BY <1>6, <2>t
          <6> QED  BY <6>1, <4>1, <4>4
        <5> QED  BY <5>1, <5>2, <5>3
      <4>6. S[k] <= First[G[k]] + Len((memory')[R[G[k]]])
        <5>1. PICK s, x, m, w : /\ s = S[k] /\ x = First[G[k]] /\ m = Len(memory[R[G[k]]])
                                /\ w = Len((memory')[R[G[k]]])
          OBVIOUS
        <5>2. s \in Nat /\ x \in Nat /\ m \in Nat /\ w \in Nat /\ s <= x + m /\ m <= w
          BY <4>2, <4>5, <5>1
        <5>3. s <= x + w
          BY <5>2
        <5> QED  BY <5>1, <5>3
      <4> QED  BY <4>2, <4>3, <4>6
    <3> QED  BY <3>1, <3>2
  <2>4. EventsPlaced(R, First, T, H, h, r)'
    BY <2>3 DEF EventsPlaced
  <2> QED  BY <2>4, <2>s
<1>14. Reads(R, First, c)'
  <2>1. /\ current = R[c]
        /\ consumed \in Seq(Nat) /\ \A k \in 1 .. Len(consumed) : consumed[k] = k
        /\ iter \in Nat /\ todo \in Nat
        /\ c = 0 => todo = 0 /\ Len(consumed) = 0
        /\ c > 0 => First[c] + iter = Len(consumed) /\ iter + todo <= Len(memory[R[c]])
    BY <1>f DEF Reads
  <2>2. c > 0 => R[c] \in Bufs
    BY <1>r, <1>n DEF Rowed
  <2>3. c > 0 => iter + todo <= Len((memory')[R[c]])
    <3>1. SUFFICES ASSUME c > 0  PROVE  iter + todo <= Len((memory')[R[c]])
      OBVIOUS
    <3>2. Len(memory[R[c]]) <= Len((memory')[R[c]]) /\ Len(memory[R[c]]) \in Nat
          /\ Len((memory')[R[c]]) \in Nat /\ iter + todo \in Nat
      BY <1>9, <1>10, <2>1, <2>2, <3>1
    <3> QED  BY <2>1, <3>1, <3>2
  <2> QED  BY <1>3, <2>1, <2>3 DEF Reads
<1>15. Rowed(R, c, f, p)' /\ Listed(Str!TheList, R, c, p)' /\ Queued(R, f, p)'
  <2>1. Rowed(R, c, f, p)'
    BY <1>r, <1>3 DEF Rowed
  <2>2. Listed(Str!TheList, R, c, p)'
    <3>1. Str!TheList' = Str!TheList
      BY <1>3 DEF Str!TheList
    <3>2. Listed(Str!TheList', R, c, p)
      BY <1>r, <3>1
    <3> QED  BY <3>2 DEF Listed
  <2>3. Queued(R, f, p)'
    BY <1>r, <1>3 DEF Queued
  <2> QED  BY <2>1, <2>2, <2>3
<1>16. PICK T, H, r : T = Extended(S, q, a) /\ H = Extended(G, q, f) /\ r = q + 1
  OBVIOUS
<1>17. Stream(R, First, T, H, c, f, p, h, r)'
  <2>1. Announced(T, H, c, f, h, r)' /\ EventsPlaced(R, First, T, H, h, r)'
    BY <1>12, <1>13, <1>16
  <2> QED  BY <1>11, <1>14, <1>15, <2>1 DEF Stream
<1> QED  BY <1>17 DEF InStream

(* The card begins the next buffer of the row, which nobody waits for. *)
LEMMA ArriveInNextKeeps ==
  ASSUME PerBuf \in Nat, InStream, Str!ArriveInNext
  PROVE  InStream'
<1>s. PICK R, First, S, G, c, f, p, h, q : Stream(R, First, S, G, c, f, p, h, q)
  BY DEF InStream
<1>r. Rowed(R, c, f, p) /\ Listed(Str!TheList, R, c, p) /\ Queued(R, f, p)
  BY <1>s DEF Stream
<1>f. Lasting(R, First, c, f) /\ Reads(R, First, c)
  BY <1>s DEF Stream
<1>a. Announced(S, G, c, f, h, q) /\ EventsPlaced(R, First, S, G, h, q)
  BY <1>s DEF Stream
<1>2. PICK n :
        /\ n \in Nat /\ n > 0
        /\ memory' = [memory EXCEPT ![filling'] = [i \in 1 .. n |-> arrived + i]]
        /\ events' = Append(events, [next |-> TRUE, pkts |-> n])
        /\ arrived' = arrived + n
  <2>1. \A n \in 1 .. PerBuf : n \in Nat /\ n > 0
    OBVIOUS
  <2> QED  BY <2>1 DEF Str!ArriveInNext
<1>3. /\ UNCHANGED <<fresh, head, next, tail, current, iter, todo, consumed>>
      /\ posted # <<>> /\ filling' = Head(posted) /\ posted' = Tail(posted)
  BY DEF Str!ArriveInNext, Str!list
<1>n. c \in Nat /\ f \in Nat /\ p \in Nat /\ c <= f /\ f <= p
  BY <1>r DEF Rowed
<1>4. n \in Nat /\ n > 0
  BY <1>2
<1>5. /\ posted \in Seq(Bufs) /\ Len(posted) = p - f
      /\ \A i \in 1 .. p - f : posted[i] = R[f + i]
  BY <1>r DEF Queued
<1>z. PICK z : z = f + 1
  OBVIOUS
<1>6. z \in Nat /\ f < z /\ z <= p
  <2>1. Len(posted) > 0
    BY <1>3, <1>5
  <2> QED  BY <2>1, <1>5, <1>n, <1>z
<1>7. /\ posted' \in Seq(Bufs) /\ Len(posted') = p - z /\ filling' = R[z]
      /\ \A i \in 1 .. p - z : (posted')[i] = R[z + i]
  <2>1. /\ posted' \in Seq(Bufs) /\ Len(posted') = Len(posted) - 1
        /\ \A i \in 1 .. Len(posted) - 1 : (posted')[i] = posted[i + 1]
        /\ filling' = posted[1]
    BY <1>3, <1>5, HeadTailProperties
  <2>2. 1 \in 1 .. p - f /\ p - z = p - f - 1
    BY <1>6, <1>n, <1>z
  <2>3. filling' = R[z] /\ Len(posted') = p - z
    BY <2>1, <2>2, <1>5, <1>z
  <2>4. ASSUME NEW i \in 1 .. p - z  PROVE  (posted')[i] = R[z + i]
    <3>1. i + 1 \in 1 .. p - f /\ i \in 1 .. p - f - 1 /\ f + (i + 1) = z + i
      BY <1>6, <1>n, <1>z
    <3>2. (posted')[i] = posted[i + 1]
      BY <2>1, <1>5, <3>1
    <3>3. posted[i + 1] = R[f + (i + 1)]
      BY <1>5, <3>1
    <3> QED  BY <3>1, <3>2, <3>3
  <2> QED  BY <2>1, <2>3, <2>4
<1>8. R[z] \in Bufs /\ \A g \in c .. f : R[g] # R[z]
  BY <1>r, <1>6, <1>n DEF Rowed
<1>9. /\ First \in [Nat -> Nat] /\ memory \in [Bufs -> Seq(Nat)] /\ arrived \in Nat
  BY <1>f DEF Lasting
<1>10. \A g \in c .. f : g > 0 =>
         R[g] \in Bufs /\ \A i \in 1 .. Len(memory[R[g]]) : memory[R[g]][i] = First[g] + i
  <2>1. \A g \in c .. f : g > 0 =>
          \A i \in 1 .. Len(memory[R[g]]) : memory[R[g]][i] = First[g] + i
    BY <1>f DEF Lasting
  <2>2. \A g \in c .. f : g > 0 => R[g] \in Bufs
    BY <1>r, <1>n DEF Rowed
  <2> QED  BY <2>1, <2>2
<1>m. PICK M : M = [i \in 1 .. n |-> arrived + i]
  OBVIOUS
<1>11. M \in Seq(Nat) /\ Len(M) = n /\ \A i \in 1 .. n : M[i] = arrived + i
  <2>1. \A i \in 1 .. n : arrived + i \in Nat
    BY <1>4, <1>9
  <2>2. M \in [1 .. n -> Nat]
    BY <1>m, <2>1
  <2>3. Len(M) = n /\ M \in Seq(Nat)
    BY <1>4, <2>2
  <2> QED  BY <1>m, <2>3
<1>12. /\ memory' \in [Bufs -> Seq(Nat)] /\ (memory')[R[z]] = M
       /\ \A b \in Bufs : b # R[z] => (memory')[b] = memory[b]
  BY <1>2, <1>7, <1>8, <1>9, <1>11, <1>m
<1>x. PICK a, e : a = arrived + n /\ e = [next |-> TRUE, pkts |-> n]
  OBVIOUS
<1>13. a \in Nat /\ arrived' = a /\ a = arrived + n
  BY <1>2, <1>4, <1>9, <1>x
<1>F. PICK I : I = Extended(First, f, arrived)
  OBVIOUS
<1>14. I \in [Nat -> Nat] /\ I[z] = arrived /\ \A g \in 0 .. f : I[g] = First[g]
  <2>1. First \in [Nat -> Nat] /\ arrived \in Nat
    BY <1>9
  <2> QED  BY <2>1, <1>n, <1>z, <1>F DEF Extended
<1>ann. Announces(e, f, z, a)
  <2>1. z > 0 /\ z = f + 1 /\ arrived \in Nat
    BY <1>n, <1>z, <1>9
  <2> QED  BY <1>2, <1>3, <1>4, <2>1, <1>x DEF Announces
<1>15. PICK T, H, r : T = Extended(S, q, a) /\ H = Extended(G, q, z) /\ r = q + 1
  OBVIOUS
<1>16. Announced(T, H, c, z, h, r)'
  BY <1>a, <1>n, <1>ann, <1>15, EventAdded
<1>17. Lasting(R, I, c, z)'
  <2>1. ASSUME NEW g \in c .. z, g > 0, NEW i \in 1 .. Len((memory')[R[g]])
        PROVE  (memory')[R[g]][i] = I[g] + i
    <3>1. CASE g = z
      BY <1>11, <1>12, <1>14, <3>1
    <3>2. CASE g # z
      <4>1. g \in c .. f /\ g \in 0 .. f
        BY <1>n, <1>z, <3>2
      <4>2. (memory')[R[g]] = memory[R[g]] /\ I[g] = First[g]
        BY <1>8, <1>10, <1>12, <1>14, <2>1, <4>1
      <4> QED  BY <1>10, <2>1, <4>1, <4>2
    <3> QED  BY <3>1, <3>2
  <2>2. arrived' = IF z = 0 THEN 0 ELSE I[z] + Len((memory')[R[z]])
    BY <1>6, <1>11, <1>12, <1>13, <1>14, <1>n
  <2> QED  BY <1>12, <1>13, <1>14, <2>1, <2>2 DEF Lasting
<1>18. EventsPlaced(R, I, T, H, h, r)'
  <2>t. /\ S \in [Nat -> Nat] /\ G \in [Nat -> Nat] /\ q \in Nat /\ h \in Nat /\ h <= q
        /\ S[q] = arrived
    BY <1>a DEF Announced
  <2>1. /\ T[r] = a /\ \A k \in 0 .. q : T[k] = S[k]
        /\ H[r] = z /\ \A k \in 0 .. q : H[k] = G[k]
    BY <2>t, <1>15, <1>6, <1>13 DEF Extended
  <2>2. \A k \in h + 1 .. q : G[k] \in c .. f /\ G[k] > 0
    BY <1>a, <1>n, EventsBetween
  <2>e. /\ \A k \in h + 1 .. q : (events')[k - h] = events[k - h]
        /\ (events')[r - h] = e
    <3>1. /\ \A k \in h + 1 .. q : (events')[k - h] = events[k - h]
          /\ (events')[q + 1 - h] = e
      BY <1>a, <1>ann, EventLast
    <3>2. q + 1 - h = r - h
      BY <2>t, <1>15
    <3> QED  BY <3>1, <3>2
  <2>3. ASSUME NEW k \in h + 1 .. r
        PROVE  /\ (events')[k - h].next => T[k - 1] = I[H[k]]
               /\ T[k] <= I[H[k]] + Len((memory')[R[H[k]]])
    <3>1. CASE k = r
      <4>1. k - 1 = q
        BY <2>t, <1>15, <3>1
      <4>2. T[k - 1] = I[H[k]]
        BY <2>t, <2>1, <1>14, <3>1, <4>1
      <4>3. T[k] = a /\ I[H[k]] + Len((memory')[R[H[k]]]) = a
        BY <2>1, <1>11, <1>12, <1>13, <1>14, <3>1
      <4> QED  BY <4>2, <4>3, <1>13
    <3>2. CASE k # r
      <4>1. k \in h + 1 .. q /\ k \in 0 .. q /\ k - 1 \in 0 .. q
        BY <2>t, <1>15, <3>2
      <4>2. /\ events[k - h].next => S[k - 1] = First[G[k]]
            /\ S[k] <= First[G[k]] + Len(memory[R[G[k]]])
        BY <1>a, <4>1 DEF EventsPlaced
      <4>3. (events')[k - h] = events[k - h] /\ T[k] = S[k] /\ H[k] = G[k] /\ T[k - 1] = S[k - 1]
        BY <2>1, <2>e, <4>1
      <4>4. (memory')[R[G[k]]] = memory[R[G[k]]] /\ I[G[k]] = First[G[k]]
        <5>1. G[k] \in c .. f /\ G[k] > 0 /\ G[k] \in 0 .. f
          BY <2>2, <4>1, <1>n
        <5> QED  BY <5>1, <1>8, <1>10, <1>12, <1>14
      <4> QED  BY <4>2, <4>3, <4>4
    <3> QED  BY <3>1, <3>2
  <2> QED  BY <2>3 DEF EventsPlaced
<1>19. Reads(R, I, c)'
  <2>1. /\ current = R[c]
        /\ consumed \in Seq(Nat) /\ \A k \in 1 .. Len(consumed) : consumed[k] = k
        /\ iter \in Nat /\ todo \in Nat
        /\ c = 0 => todo = 0 /\ Len(consumed) = 0
        /\ c > 0 => First[c] + iter = Len(consumed) /\ iter + todo <= Len(memory[R[c]])
    BY <1>f DEF Reads
  <2>2. c > 0 => (memory')[R[c]] = memory[R[c]] /\ I[c] = First[c]
    <3>1. c \in c .. f /\ c \in 0 .. f
      BY <1>n
    <3> QED  BY <3>1, <1>8, <1>10, <1>12, <1>14
  <2> QED  BY <1>3, <2>1, <2>2 DEF Reads
<1>20. Rowed(R, c, z, p)' /\ Listed(Str!TheList, R, c, p)' /\ Queued(R, z, p)'
  <2>1. Rowed(R, c, z, p)'
    BY <1>r, <1>3, <1>6, <1>n DEF Rowed
  <2>2. Listed(Str!TheList, R, c, p)'
    <3>1. Str!TheList' = Str!TheList
      BY <1>3 DEF Str!TheList
    <3>2. Listed(Str!TheList', R, c, p)
      BY <1>r, <3>1
    <3> QED  BY <3>2 DEF Listed
  <2>3. Queued(R, z, p)'
    BY <1>7 DEF Queued
  <2> QED  BY <2>1, <2>2, <2>3
<1>21. Stream(R, I, T, H, c, z, p, h, r)'
  BY <1>16, <1>17, <1>18, <1>19, <1>20 DEF Stream
<1> QED  BY <1>21 DEF InStream

(* The listener takes an event: the next one that was announced. *)
Takes ==
  /\ todo = 0 /\ events # <<>> /\ events' = Tail(events) /\ todo' = Head(events).pkts
  /\ consumed' = consumed /\ arrived' = arrived

Taken(S, G, c, h, q, y) ==
  /\ y \in Nat /\ h \in Nat /\ q \in Nat /\ y = h + 1 /\ y <= q /\ y \in h + 1 .. q
  /\ Head(events) \in [next : BOOLEAN, pkts : Nat]
  /\ Head(events) = events[y - h] /\ Follows(S, G, y, Head(events))
  /\ G[y - 1] = c /\ S[y - 1] = Len(consumed)
  /\ \A k \in y + 1 .. q : (events')[k - y] = events[k - h]

LEMMA EventTaken ==
  ASSUME NEW S, NEW G, NEW c \in Nat, NEW f \in Nat, NEW h, NEW q, Announced(S, G, c, f, h, q),
         NEW y \in Nat, h < y, y <= h + 1, Takes
  PROVE  Taken(S, G, c, h, q, y) /\ Announced(S, G, G[y], f, y, q)'
<1>0. /\ S \in [Nat -> Nat] /\ G \in [Nat -> Nat] /\ h \in Nat /\ q \in Nat /\ h <= q
      /\ events \in Seq([next : BOOLEAN, pkts : Nat]) /\ Len(events) = q - h
      /\ G[h] = c /\ G[q] = f /\ S[h] = Len(consumed) + todo /\ S[q] = arrived
  BY DEF Announced
<1>1. /\ \A i, j \in h .. q : i <= j => G[i] <= G[j]
      /\ \A k \in h + 1 .. q : Follows(S, G, k, events[k - h])
  BY DEF Announced
<1>2. y \in Nat /\ h < y /\ y - 1 = h /\ y - h = 1 /\ y = h + 1
  BY <1>0
<1>3. /\ Len(events) > 0 /\ Head(events) \in [next : BOOLEAN, pkts : Nat]
      /\ Head(events) = events[1]
      /\ events' \in Seq([next : BOOLEAN, pkts : Nat]) /\ Len(events') = Len(events) - 1
      /\ \A i \in 1 .. Len(events) - 1 : (events')[i] = events[i + 1]
  <2>1. PICK E : E = [next : BOOLEAN, pkts : Nat]
    OBVIOUS
  <2>2. events \in Seq(E) /\ events # <<>> /\ events' = Tail(events)
    BY <1>0, <2>1 DEF Takes
  <2>3. /\ Len(events) > 0 /\ Head(events) \in E /\ Head(events) = events[1]
        /\ events' \in Seq(E) /\ Len(events') = Len(events) - 1
        /\ \A i \in 1 .. Len(events) - 1 : (events')[i] = events[i + 1]
    BY <2>2, HeadTailProperties
  <2> QED  BY <2>1, <2>3
<1>4. y <= q /\ y \in h + 1 .. q /\ Len(events') = q - y
  <2>1. Len(events) = q - h /\ q - h > 0
    BY <1>0, <1>3
  <2> QED  BY <2>1, <1>0, <1>2, <1>3
<1>5. Head(events) = events[y - h] /\ Follows(S, G, y, Head(events))
  <2>1. Follows(S, G, y, events[y - h])
    BY <1>1, <1>4
  <2>2. Head(events) = events[y - h]
    BY <1>2, <1>3
  <2> QED  BY <2>1, <2>2
<1>6. ASSUME NEW k \in y + 1 .. q  PROVE  (events')[k - y] = events[k - h] /\ k \in h + 1 .. q
  <2>1. k - y \in 1 .. q - h - 1 /\ k - y + 1 = k - h /\ k \in h + 1 .. q
    BY <1>0, <1>2
  <2>2. k - y \in 1 .. Len(events) - 1
    BY <1>0, <2>1
  <2>3. (events')[k - y] = events[k - y + 1]
    BY <1>3, <2>2
  <2> QED  BY <2>1, <2>3
<1>7. G[y - 1] = c /\ S[y - 1] = Len(consumed) /\ S[h] \in Nat
  <2>1. S[h] = Len(consumed) + 0 /\ S[h] \in Nat
    BY <1>0 DEF Takes
  <2>2. Len(consumed) = S[h]
    BY <2>1
  <2> QED  BY <1>0, <1>2, <2>1, <2>2
<1>8. S[y] = Len(consumed') + todo' /\ S[q] = arrived'
  <2>1. S[y] = S[y - 1] + Head(events).pkts
    BY <1>5 DEF Follows
  <2> QED  BY <1>0, <1>7, <2>1 DEF Takes
<1>9. Announced(S, G, G[y], f, y, q)'
  <2>1. \A k \in y + 1 .. q : Follows(S, G, k, (events')[k - y])
    BY <1>1, <1>6
  <2>2. \A i, j \in y .. q : i <= j => G[i] <= G[j]
    BY <1>0, <1>1, <1>2
  <2>3. /\ S \in [Nat -> Nat] /\ G \in [Nat -> Nat] /\ y \in Nat /\ q \in Nat /\ y <= q
        /\ events' \in Seq([next : BOOLEAN, pkts : Nat]) /\ Len(events') = q - y
        /\ G[y] = G[y] /\ G[q] = f
    BY <1>0, <1>2, <1>3, <1>4
  <2> QED  BY <1>8, <2>1, <2>2, <2>3 DEF Announced
<1> QED  BY <1>0, <1>2, <1>3, <1>4, <1>5, <1>6, <1>7, <1>9 DEF Taken

(* What is said of the buffers still of interest is said of a row that     *)
(* agrees with the old one on them.                                        *)
LEMMA RowChanged ==
  ASSUME NEW R, NEW Q, NEW First, NEW c \in Nat, NEW d \in Nat, NEW f \in Nat, c <= d, d <= f,
         Lasting(R, First, c, f), \A g \in d .. f : Q[g] = R[g], UNCHANGED <<memory, arrived>>
  PROVE  Lasting(Q, First, d, f)'
<1>1. /\ First \in [Nat -> Nat] /\ memory' \in [Bufs -> Seq(Nat)] /\ arrived' \in Nat
  BY DEF Lasting
<1>2. \A g \in c .. f : g > 0 =>
        \A i \in 1 .. Len(memory[R[g]]) : memory[R[g]][i] = First[g] + i
  BY DEF Lasting
<1>3. ASSUME NEW g \in d .. f, g > 0, NEW i \in 1 .. Len((memory')[Q[g]])
      PROVE  (memory')[Q[g]][i] = First[g] + i
  <2>1. g \in c .. f /\ Q[g] = R[g]
    OBVIOUS
  <2> QED  BY <1>2, <1>3, <2>1
<1>4. arrived' = IF f = 0 THEN 0 ELSE First[f] + Len((memory')[Q[f]])
  <2>1. arrived = IF f = 0 THEN 0 ELSE First[f] + Len(memory[R[f]])
    BY DEF Lasting
  <2>2. Q[f] = R[f]
    OBVIOUS
  <2> QED  BY <2>1, <2>2
<1> QED  BY <1>1, <1>3, <1>4 DEF Lasting

(* The listener goes on to the next buffer exactly when an event says so,  *)
(* and posts the one it has read behind all others.                        *)
LEMMA HandleKeeps ==
  ASSUME Str!BuffersNamed, InStream, Str!Handle
  PROVE  InStream'
<1>s. PICK R, First, S, G, c, f, p, h, q : Stream(R, First, S, G, c, f, p, h, q)
  BY DEF InStream
<1>r. Rowed(R, c, f, p) /\ Listed(Str!TheList, R, c, p) /\ Queued(R, f, p)
  BY <1>s DEF Stream
<1>f. Lasting(R, First, c, f)
  BY <1>s DEF Stream
<1>d. Reads(R, First, c)
  BY <1>s DEF Stream
<1>a. Announced(S, G, c, f, h, q) /\ EventsPlaced(R, First, S, G, h, q)
  BY <1>s DEF Stream
<1>n. c \in Nat /\ f \in Nat /\ p \in Nat /\ c <= f /\ f <= p
  BY <1>r DEF Rowed
<1>1. /\ todo = 0 /\ events # <<>> /\ todo' = Head(events).pkts /\ events' = Tail(events)
      /\ UNCHANGED <<fresh, filling, memory, arrived, consumed>>
  BY DEF Str!Handle
<1>y. PICK y, e : y = h + 1 /\ e = Head(events)
  OBVIOUS
<1>2. /\ y \in Nat /\ h \in Nat /\ q \in Nat /\ h < y /\ y <= q /\ y \in h + 1 .. q
      /\ e \in [next : BOOLEAN, pkts : Nat]
      /\ e = events[y - h] /\ Follows(S, G, y, e)
      /\ G[y - 1] = c /\ S[y - 1] = Len(consumed)
      /\ \A k \in y + 1 .. q : (events')[k - y] = events[k - h]
      /\ Announced(S, G, G[y], f, y, q)'
  <2>0. Announced(S, G, c, f, h, q) /\ h \in Nat
    BY <1>a DEF Announced
  <2>1. y \in Nat /\ h < y /\ y <= h + 1 /\ Takes
    BY <1>1, <1>y, <2>0 DEF Takes
  <2>2. Taken(S, G, c, h, q, y) /\ Announced(S, G, G[y], f, y, q)'
    BY <1>n, <2>0, <2>1, EventTaken
  <2> QED  BY <1>y, <2>1, <2>2 DEF Taken
<1>3. /\ G[y] \in c .. f /\ G[y] > 0
      /\ \A k \in y .. q : G[k] \in c .. f /\ G[k] > 0 /\ k \in h + 1 .. q
  <2>1. \A k \in h + 1 .. q : G[k] \in c .. f /\ G[k] > 0
    <3>1. /\ h \in Nat /\ q \in Nat /\ h <= q
          /\ \A k \in h .. q : G[k] \in c .. f
          /\ \A k \in h + 1 .. q : G[k] > 0
      BY <1>a, <1>n, EventsBetween
    <3> QED  BY <3>1
  <2>2. \A k \in y .. q : k \in h + 1 .. q
    BY <1>2, <1>y
  <2> QED  BY <1>2, <2>1, <2>2
<1>4. /\ e.next => S[y - 1] = First[G[y]]
      /\ S[y] <= First[G[y]] + Len(memory[R[G[y]]])
      /\ S[y] = S[y - 1] + e.pkts /\ G[y] = IF e.next THEN G[y - 1] + 1 ELSE G[y - 1]
      /\ e.pkts \in Nat
  BY <1>2, <1>a DEF EventsPlaced, Follows
<1>5. /\ current = R[c] /\ consumed \in Seq(Nat) /\ \A n \in 1 .. Len(consumed) : consumed[n] = n
      /\ iter \in Nat
      /\ c > 0 => First[c] + iter = Len(consumed) /\ iter + todo <= Len(memory[R[c]])
  BY <1>d DEF Reads
<1>6. First \in [Nat -> Nat] /\ memory \in [Bufs -> Seq(Nat)]
  BY <1>f DEF Lasting
<1>7. \A g \in 1 .. p : R[g] \in Bufs /\ R[g] # Str!Null
  BY <1>r DEF Rowed, Str!BuffersNamed
<1>8. CASE ~ e.next
  <2>1. UNCHANGED <<posted, current, head, next, tail, iter>>
    BY <1>8, <1>y DEF Str!Handle, Str!list
  <2>2. G[y] = c /\ c > 0
    BY <1>2, <1>3, <1>4, <1>8
  <2>3. Reads(R, First, c)'
    <3>1. PICK m : m = Len(memory[R[c]])
      OBVIOUS
    <3>2. m \in Nat /\ First[c] \in Nat /\ First[c] + iter = Len(consumed)
      <4>1. R[c] \in Bufs
        BY <1>7, <1>n, <2>2
      <4>2. m \in Nat /\ First[c] \in Nat
        BY <1>6, <1>n, <3>1, <4>1
      <4> QED  BY <1>5, <2>2, <4>2
    <3>3. First[c] + iter + e.pkts <= First[c] + m
      BY <1>2, <1>4, <2>2, <3>1, <3>2
    <3>4. iter + e.pkts <= m
      <4>1. iter \in Nat /\ e.pkts \in Nat
        BY <1>4, <1>5
      <4> QED  BY <3>2, <3>3, <4>1
    <3> QED  BY <1>1, <1>4, <1>5, <1>y, <2>1, <2>2, <3>1, <3>2, <3>4 DEF Reads
  <2>4. Rowed(R, c, f, p)' /\ Listed(Str!TheList, R, c, p)' /\ Queued(R, f, p)'
    <3>1. Rowed(R, c, f, p)'
      BY <1>r, <1>1 DEF Rowed
    <3>2. Listed(Str!TheList', R, c, p)
      BY <1>r, <2>1 DEF Str!TheList
    <3>3. Queued(R, f, p)'
      BY <1>r, <1>1, <2>1 DEF Queued
    <3> QED  BY <3>1, <3>2, <3>3 DEF Listed
  <2>5. Lasting(R, First, c, f)'
    BY <1>f, <1>1, <1>n, RowChanged
  <2>6. EventsPlaced(R, First, S, G, y, q)'
    <3>1. ASSUME NEW k \in y + 1 .. q
          PROVE  /\ (events')[k - y].next => S[k - 1] = First[G[k]]
                 /\ S[k] <= First[G[k]] + Len((memory')[R[G[k]]])
      <4>1. k \in h + 1 .. q
        BY <1>2, <1>y
      <4> QED  BY <1>a, <1>1, <1>2, <4>1 DEF EventsPlaced
    <3> QED  BY <3>1 DEF EventsPlaced
  <2>7. Announced(S, G, c, f, y, q)'
    BY <1>2, <2>2
  <2>8. Stream(R, First, S, G, c, f, p, y, q)'
    BY <2>3, <2>4, <2>5, <2>6, <2>7 DEF Stream
  <2> QED  BY <2>8 DEF InStream
<1>9. CASE e.next
  <2>d. PICK d : d = c + 1
    OBVIOUS
  <2>1. G[y] = d /\ d \in Nat /\ c < d /\ d <= f /\ d <= p
    BY <1>2, <1>3, <1>4, <1>9, <1>n, <2>d
  <2>l. PICK l : l = IF current = Str!Null THEN Str!TheList ELSE Str!Put(Str!TheList, current)
    OBVIOUS
  <2>2. /\ posted' = IF current = Str!Null THEN posted ELSE Append(posted, current)
        /\ current' = l.head /\ Str!ListBecomes(Str!Get(l)) /\ iter' = 0
    BY <1>9, <1>y, <2>l DEF Str!Handle
  <2>3. \E Q, t :
          /\ t \in Nat /\ p <= t /\ Listed(l, Q, c, t) /\ Rowed(Q, d, f, t)'
          /\ Queued(Q, f, t)' /\ \A g \in d .. f : Q[g] = R[g]
    <3>1. CASE c = 0
      <4>1. l = Str!TheList /\ posted' = posted
        BY <1>5, <1>r, <2>2, <2>l, <3>1 DEF Rowed
      <4>2. Listed(l, R, c, p)
        BY <1>r, <4>1
      <4>3. Rowed(R, d, f, p)'
        BY <1>r, <1>1, <1>n, <2>1 DEF Rowed
      <4>4. Queued(R, f, p)'
        BY <1>r, <1>1, <4>1 DEF Queued
      <4> QED  BY <1>n, <4>2, <4>3, <4>4
    <3>2. CASE c > 0
      <4>q. PICK Q, t : Q = Extended(R, p, current) /\ t = p + 1
        OBVIOUS
      <4>1. current \in Bufs /\ current # Str!Null /\ current = R[c]
        BY <1>5, <1>7, <1>n, <3>2
      <4>2. l = Str!Put(Str!TheList, current) /\ posted' = Append(posted, current)
        BY <2>2, <2>l, <4>1
      <4>3. /\ Q \in [Nat -> Bufs \cup {Str!Null}] /\ Q[t] = current
            /\ \A g \in 0 .. p : Q[g] = R[g]
        BY <1>r, <4>1, <4>q, RowExtended
      <4>4. \A g \in c + 1 .. p : R[g] # current
        BY <1>r, <1>n, <4>1 DEF Rowed
      <4>5. Listed(l, Q, c, t)
        BY <1>r, <4>1, <4>2, <4>4, <4>q, PutAtEnd
      <4>6. Rowed(Q, d, f, t)'
        <5>1. /\ R[0] = Str!Null /\ \A g \in 1 .. p : R[g] \in Bufs
              /\ \A i, j \in c .. p : R[i] = R[j] => i = j
              /\ fresh \subseteq Bufs /\ \A g \in c .. p : R[g] \notin fresh
          BY <1>r DEF Rowed
        <5>2. Q[0] = Str!Null /\ \A g \in 1 .. t : Q[g] \in Bufs
          BY <1>n, <4>1, <4>3, <4>q, <5>1
        <5>3. \A i, j \in d .. t : Q[i] = Q[j] => i = j
          BY <1>n, <2>1, <2>d, <4>1, <4>3, <4>4, <4>q, <5>1
        <5>4. fresh' \subseteq Bufs /\ \A g \in d .. t : Q[g] \notin fresh'
          <6>1. fresh' = fresh
            BY <1>1
          <6>2. ASSUME NEW g \in d .. t  PROVE  Q[g] \notin fresh
            <7>1. CASE g = t
              BY <4>1, <4>3, <5>1, <7>1, <1>n
            <7>2. CASE g # t
              <8>1. g \in c .. p /\ g \in 0 .. p
                BY <1>n, <2>1, <4>q, <7>2
              <8> QED  BY <4>3, <5>1, <8>1
            <7> QED  BY <7>1, <7>2
          <6> QED  BY <5>1, <6>1, <6>2
        <5> QED  BY <1>n, <2>1, <4>3, <4>q, <5>2, <5>3, <5>4 DEF Rowed
      <4>7. Queued(Q, f, t)'
        BY <1>r, <1>1, <1>n, <4>1, <4>2, <4>3, <4>q, QueuedAppended
      <4>8. \A g \in d .. f : Q[g] = R[g]
        BY <1>n, <2>1, <4>3
      <4> QED  BY <1>n, <4>5, <4>6, <4>7, <4>8, <4>q
    <3> QED  BY <1>n, <3>1, <3>2
  <2>4. PICK Q, t :
          /\ t \in Nat /\ p <= t /\ Listed(l, Q, c, t) /\ Rowed(Q, d, f, t)'
          /\ Queued(Q, f, t)' /\ \A g \in d .. f : Q[g] = R[g]
    BY <2>3
  <2>5. l.head = Q[d] /\ Listed(Str!Get(l), Q, d, t)
    <3>1. \A g \in c + 1 .. t : Q[g] \in Bufs
      BY <2>4, <2>d, <1>n DEF Rowed
    <3>2. c < t
      BY <1>n, <2>1, <2>4
    <3> QED  BY <1>n, <2>4, <2>d, <3>1, <3>2, GetFirst
  <2>6. Listed(Str!TheList, Q, d, t)'
    <3>1. Listed(Str!TheList', Q, d, t)
      BY <2>2, <2>5 DEF Str!ListBecomes, Str!TheList, Listed
    <3> QED  BY <3>1 DEF Listed
  <2>7. Lasting(Q, First, d, f)'
    BY <1>f, <1>1, <1>n, <2>1, <2>4, RowChanged
  <2>8. EventsPlaced(Q, First, S, G, y, q)'
    <3>1. ASSUME NEW k \in y + 1 .. q
          PROVE  /\ (events')[k - y].next => S[k - 1] = First[G[k]]
                 /\ S[k] <= First[G[k]] + Len((memory')[Q[G[k]]])
      <4>1. k \in h + 1 .. q /\ k \in y .. q
        BY <1>2, <1>y
      <4>2. G[k] \in d .. f
        <5>1. Announced(S, G, d, f, y, q)'
          BY <1>2, <2>1
        <5>2. /\ G \in [Nat -> Nat] /\ G[y] = d /\ G[q] = f
              /\ \A i, j \in y .. q : i <= j => G[i] <= G[j]
          BY <5>1 DEF Announced
        <5>3. y \in y .. q /\ q \in y .. q /\ y <= k /\ k <= q /\ k \in Nat
          BY <1>2, <4>1
        <5>4. d <= G[k] /\ G[k] <= f /\ G[k] \in Nat
          BY <4>1, <5>2, <5>3
        <5> QED  BY <1>n, <2>1, <5>4
      <4>3. (events')[k - y] = events[k - h] /\ Q[G[k]] = R[G[k]]
        BY <1>2, <2>4, <4>2
      <4> QED  BY <1>a, <1>1, <4>1, <4>3 DEF EventsPlaced
    <3> QED  BY <3>1 DEF EventsPlaced
  <2>9. Reads(Q, First, d)'
    <3>1. PICK m : m = Len(memory[R[d]])
      OBVIOUS
    <3>2. m \in Nat /\ First[d] \in Nat /\ First[d] = Len(consumed) /\ Q[d] = R[d]
      <4>1. R[d] \in Bufs /\ Q[d] = R[d]
        BY <1>7, <1>n, <2>1, <2>4
      <4>2. m \in Nat /\ First[d] \in Nat
        BY <1>6, <2>1, <3>1, <4>1
      <4>3. First[d] = Len(consumed)
        BY <1>4, <1>9, <1>2, <2>1
      <4> QED  BY <4>1, <4>2, <4>3
    <3>3. First[d] + e.pkts <= First[d] + m
      BY <1>2, <1>4, <2>1, <3>1, <3>2
    <3>4. e.pkts <= m
      BY <1>4, <3>2, <3>3
    <3>5. d > 0 /\ current' = Q[d] /\ iter' = 0 /\ todo' = e.pkts
      BY <1>1, <1>y, <1>n, <2>1, <2>2, <2>5
    <3>6. First[d] + iter' = Len(consumed') /\ iter' + todo' <= Len((memory')[Q[d]])
      BY <1>1, <1>4, <3>1, <3>2, <3>4, <3>5
    <3>7. iter' \in Nat /\ todo' \in Nat
      BY <1>4, <3>5
    <3> QED  BY <1>1, <1>5, <2>1, <3>5, <3>6, <3>7 DEF Reads
  <2>10. Stream(Q, First, S, G, d, f, t, y, q)'
    BY <1>2, <2>1, <2>4, <2>6, <2>7, <2>8, <2>9 DEF Stream
  <2> QED  BY <2>10 DEF InStream
<1> QED  BY <1>8, <1>9

(* The listener passes a packet to consume_packet. *)
LEMMA ConsumeKeeps ==
  ASSUME Str!BuffersNamed, InStream, Str!Consume
  PROVE  InStream'
<1>s. PICK R, First, S, G, c, f, p, h, q : Stream(R, First, S, G, c, f, p, h, q)
  BY DEF InStream
<1>r. Rowed(R, c, f, p) /\ Listed(Str!TheList, R, c, p) /\ Queued(R, f, p)
  BY <1>s DEF Stream
<1>f. Lasting(R, First, c, f)
  BY <1>s DEF Stream
<1>d. Reads(R, First, c)
  BY <1>s DEF Stream
<1>a. Announced(S, G, c, f, h, q) /\ EventsPlaced(R, First, S, G, h, q)
  BY <1>s DEF Stream
<1>n. c \in Nat /\ f \in Nat /\ p \in Nat /\ c <= f /\ f <= p
  BY <1>r DEF Rowed
<1>1. /\ todo > 0 /\ iter' = iter + 1 /\ todo' = todo - 1
      /\ consumed' = Append(consumed,
           IF current # Str!Null /\ iter < Len(memory[current])
           THEN memory[current][iter + 1] ELSE 0)
  BY DEF Str!Consume
<1>2. UNCHANGED <<fresh, posted, filling, memory, events, arrived, head, next, tail, current>>
  BY DEF Str!Consume, Str!card, Str!list
<1>3. /\ current = R[c] /\ consumed \in Seq(Nat) /\ \A n \in 1 .. Len(consumed) : consumed[n] = n
      /\ iter \in Nat /\ todo \in Nat
      /\ c = 0 => todo = 0
      /\ c > 0 => First[c] + iter = Len(consumed) /\ iter + todo <= Len(memory[R[c]])
  BY <1>d DEF Reads
<1>4. c > 0 /\ R[c] \in Bufs /\ R[c] # Str!Null
  <2>1. c > 0
    BY <1>1, <1>3, <1>n
  <2> QED  BY <2>1, <1>n, <1>r DEF Rowed, Str!BuffersNamed
<1>m. PICK m : m = Len(memory[R[c]])
  OBVIOUS
<1>5. /\ m \in Nat /\ First[c] \in Nat
      /\ \A i \in 1 .. m : memory[R[c]][i] = First[c] + i
  <2>1. /\ First \in [Nat -> Nat] /\ memory \in [Bufs -> Seq(Nat)]
        /\ \A g \in c .. f : g > 0 =>
             \A i \in 1 .. Len(memory[R[g]]) : memory[R[g]][i] = First[g] + i
    BY <1>f DEF Lasting
  <2> QED  BY <2>1, <1>4, <1>m, <1>n
<1>6. First[c] + iter = Len(consumed) /\ iter < m /\ iter + todo <= m
  BY <1>1, <1>3, <1>4, <1>5, <1>m
<1>7. consumed' = Append(consumed, Len(consumed) + 1)
  <2>1. memory[R[c]][iter + 1] = First[c] + (iter + 1)
    BY <1>3, <1>5, <1>6
  <2>2. memory[R[c]][iter + 1] = Len(consumed) + 1
    <3>1. Len(consumed) = First[c] + iter /\ First[c] \in Nat /\ iter \in Nat
      BY <1>3, <1>5, <1>6
    <3>2. First[c] + (iter + 1) = Len(consumed) + 1
      BY <3>1
    <3> QED  BY <2>1, <3>2
  <2>3. current # Str!Null /\ iter < Len(memory[current])
    BY <1>3, <1>4, <1>6, <1>m
  <2> QED  BY <1>1, <1>3, <2>2, <2>3
<1>8. /\ consumed' \in Seq(Nat) /\ Len(consumed') = Len(consumed) + 1
      /\ \A n \in 1 .. Len(consumed') : (consumed')[n] = n
  <2>1. Len(consumed) \in Nat /\ Len(consumed) + 1 \in Nat
    BY <1>3
  <2>2. /\ consumed' \in Seq(Nat) /\ Len(consumed') = Len(consumed) + 1
        /\ \A n \in 1 .. Len(consumed) : (consumed')[n] = consumed[n]
        /\ (consumed')[Len(consumed) + 1] = Len(consumed) + 1
    BY <1>3, <1>7, <2>1, AppendProperties
  <2> QED  BY <1>3, <2>1, <2>2
<1>9. Reads(R, First, c)'
  <2>1. First[c] + iter' = Len(consumed') /\ iter' + todo' <= m /\ iter' \in Nat /\ todo' \in Nat
    <3>1. First[c] \in Nat /\ iter \in Nat /\ todo \in Nat /\ m \in Nat
      BY <1>3, <1>5
    <3>2. Len(consumed') = First[c] + iter + 1
      BY <1>6, <1>8
    <3> QED  BY <1>1, <1>6, <3>1, <3>2
  <2> QED  BY <1>2, <1>3, <1>4, <1>8, <1>m, <1>n, <2>1 DEF Reads
<1>10. Announced(S, G, c, f, h, q)'
  <2>1. /\ S \in [Nat -> Nat] /\ G \in [Nat -> Nat] /\ h \in Nat /\ q \in Nat /\ h <= q
        /\ events \in Seq([next : BOOLEAN, pkts : Nat]) /\ Len(events) = q - h
        /\ G[h] = c /\ G[q] = f /\ S[h] = Len(consumed) + todo /\ S[q] = arrived
    BY <1>a DEF Announced
  <2>2. /\ \A i, j \in h .. q : i <= j => G[i] <= G[j]
        /\ \A k \in h + 1 .. q : Follows(S, G, k, (events')[k - h])
    BY <1>a, <1>2 DEF Announced
  <2>3. Len(consumed') + todo' = Len(consumed) + todo
    <3>1. Len(consumed) \in Nat
      BY <1>3
    <3> QED  BY <1>1, <1>3, <1>8, <3>1
  <2> QED  BY <1>2, <2>1, <2>2, <2>3 DEF Announced
<1>11. EventsPlaced(R, First, S, G, h, q)'
  BY <1>a, <1>2 DEF EventsPlaced
<1>12. Rowed(R, c, f, p)' /\ Listed(Str!TheList, R, c, p)' /\ Queued(R, f, p)'
  <2>1. Rowed(R, c, f, p)'
    BY <1>r, <1>2 DEF Rowed
  <2>2. Listed(Str!TheList', R, c, p)
    BY <1>r, <1>2 DEF Str!TheList
  <2>3. Queued(R, f, p)'
    BY <1>r, <1>2 DEF Queued
  <2> QED  BY <2>1, <2>2, <2>3 DEF Listed
<1>13. Lasting(R, First, c, f)'
  BY <1>f, <1>2, <1>n, RowChanged
<1>14. Stream(R, First, S, G, c, f, p, h, q)'
  BY <1>9, <1>10, <1>11, <1>12, <1>13 DEF Stream
<1> QED  BY <1>14 DEF InStream

LEMMA StreamStutters ==
  ASSUME InStream, UNCHANGED Str!vars  PROVE InStream'
<1>s. PICK R, First, S, G, c, f, p, h, q : Stream(R, First, S, G, c, f, p, h, q)
  BY DEF InStream
<1>1. UNCHANGED <<fresh, posted, filling, memory, events, arrived, head, next, tail, current,
                  iter, todo, consumed>>
  BY DEF Str!vars, Str!card, Str!list
<1>2. Rowed(R, c, f, p)'
  BY <1>s, <1>1 DEF Stream, Rowed
<1>3. Listed(Str!TheList, R, c, p)'
  BY <1>s, <1>1 DEF Stream, Listed, Str!TheList
<1>4. Queued(R, f, p)'
  BY <1>s, <1>1 DEF Stream, Queued
<1>5. Lasting(R, First, c, f)'
  BY <1>s, <1>1 DEF Stream, Lasting
<1>6. Announced(S, G, c, f, h, q)'
  BY <1>s, <1>1 DEF Stream, Announced
<1>7. EventsPlaced(R, First, S, G, h, q)' /\ Reads(R, First, c)'
  BY <1>s, <1>1 DEF Stream, EventsPlaced, Reads
<1>8. Stream(R, First, S, G, c, f, p, h, q)'
  BY <1>2, <1>3, <1>4, <1>5, <1>6, <1>7 DEF Stream
<1> QED  BY <1>8 DEF InStream

(* What the listener has passed to consume_packet is what arrived, once    *)
(* and in order: whatever buffers there are, however many packets they     *)
(* hold, and however far the card is ahead of the listener.                *)
THEOREM StreamPacketsInOrder ==
  ASSUME Str!BuffersNamed, PerBuf \in Nat
  PROVE  Str!Spec => []PacketsInOrder
<1>1. Str!Init => InStream
  BY StreamBegins
<1>2. InStream /\ [Str!Next]_(Str!vars) => InStream'
  <2> SUFFICES ASSUME InStream, [Str!Next]_(Str!vars)  PROVE InStream'
    OBVIOUS
  <2>1. CASE Str!Post
    BY <2>1, PostKeeps
  <2>2. CASE Str!Arrive
    BY <2>2, ArriveKeeps
  <2>3. CASE Str!ArriveInNext
    BY <2>3, ArriveInNextKeeps
  <2>4. CASE Str!Handle
    BY <2>4, HandleKeeps
  <2>5. CASE Str!Consume
    BY <2>5, ConsumeKeeps
  <2>6. CASE UNCHANGED Str!vars
    BY <2>6, StreamStutters
  <2> QED  BY <2>1, <2>2, <2>3, <2>4, <2>5, <2>6 DEF Str!Next
<1>3. InStream => PacketsInOrder
  <2> SUFFICES ASSUME InStream  PROVE Str!PacketsInOrder
    BY DEF PacketsInOrder
  <2>1. consumed \in Seq(Nat) /\ \A n \in 1 .. Len(consumed) : consumed[n] = n
    BY DEF InStream, Stream, Reads
  <2> QED  BY <2>1 DEF Str!PacketsInOrder
<1> QED  BY <1>1, <1>2, <1>3, PTL DEF Str!Spec
-----------------------------------------------------------------------------
(* The columns of a record (Record).                                       *)
(* The columns by the rule that the reference has for them.                *)
OfRequestItself == {"StartTime", "request", "addresses", "command"}
OfResponseOnly == {"resultCode", "validityTime", "volumeQuotaThreshold", "bearerCtrlMode",
                   "failedAvp", "errorMsg"}
OfEither == {"msisdn", "maxReqBwDl", "maxReqBwUl"}
OfLast == {"ccTotalOctets", "featureListId"}
Never == {"apnConfigIndicator", "visitedNwIdentifier"}
WithARule ==
  OfRequestItself \cup OfResponseOnly \cup OfEither \cup OfLast \cup Never
    \cup {"EndTime", "answer", "appId", "eventTrigger", "reqFeatureList", "rspFeatureList"}

LEMMA GxColumn ==
  ASSUME proto = "gx", NEW c \in Rec!Columns
  PROVE  \/ c \in OfRequestItself /\ c \in Rec!Request /\ c \notin Rec!Response
         \/ c \in {"EndTime", "answer"} \cup (OfResponseOnly \ {"failedAvp", "errorMsg"}) \cup {"qosClassIdentifier"}
              /\ c \in Rec!Response /\ c \notin Rec!Request
         \/ c \in {"appId", "ccTotalOctets"} /\ c \in Rec!Request /\ c \in Rec!Response
         \/ c \in OfEither /\ c \in Rec!Request /\ c \notin Rec!Response
         \/ c = "eventTrigger"
         \/ /\ c \notin WithARule /\ c # "qosClassIdentifier"
            /\ c \in Rec!Request /\ c \notin Rec!Response
  BY DEF Rec!Columns, Rec!GxColumns, Rec!Request, Rec!Response, Rec!GxRequest, Rec!GxResponse, Rec!Start, Rec!End,
     OfRequestItself, OfResponseOnly, OfEither, OfLast, Never, WithARule

LEMMA S6aColumn ==
  ASSUME proto = "s6a", NEW c \in Rec!Columns
  PROVE  \/ c \in OfRequestItself \cup {"reqFeatureList"} /\ c \in Rec!Request /\ c \notin Rec!Response
         \/ c \in {"EndTime", "answer", "rspFeatureList", "resultCode", "failedAvp", "errorMsg"} \cup OfEither
              /\ c \in Rec!Response /\ c \notin Rec!Request
         \/ c \in {"appId", "featureListId"} /\ c \in Rec!Request /\ c \in Rec!Response
         \/ c \in Never /\ c \notin Rec!Request /\ c \notin Rec!Response
         \/ /\ c \notin WithARule /\ c # "qosClassIdentifier"
            /\ c \in Rec!Request /\ c \notin Rec!Response
  BY DEF Rec!Columns, Rec!S6aColumns, Rec!Request, Rec!Response, Rec!S6aRequest, Rec!S6aResponse, Rec!Start, Rec!End,
     OfRequestItself, OfResponseOnly, OfEither, OfLast, Never, WithARule

LEMMA Renamed ==
  ASSUME NEW c
  PROVE  /\ c \in {"StartTime", "EndTime"} => Rec!AttributeOf(c) = "time"
         /\ c \in {"request", "answer"} => Rec!AttributeOf(c) = "reqRspFlag"
         /\ c \in {"reqFeatureList", "rspFeatureList"} => Rec!AttributeOf(c) = "featureList"
         /\ c \notin {"StartTime", "EndTime", "request", "answer", "reqFeatureList", "rspFeatureList"} =>
              Rec!AttributeOf(c) = c
  BY DEF Rec!AttributeOf

LEMMA CopiesAttributes ==
  ASSUME proto \in {"gx", "s6a"}, NEW c \in Rec!Request \cup Rec!Response \cup Rec!KeptOnce
  PROVE  Rec!AttributeOf(c) \in Rec!Attributes
<1>1. CASE proto = "gx"
  <2>1. c \in Rec!GxRequest \cup Rec!GxResponse \cup {"eventTrigger"}
    BY <1>1 DEF Rec!Request, Rec!Response, Rec!KeptOnce
  <2>2. Rec!AttributeOf(c) \in Rec!Header \cup Rec!Common \cup Rec!GXAVP
    BY <2>1, Renamed DEF Rec!GxRequest, Rec!GxResponse, Rec!Start, Rec!End,
       Rec!Header, Rec!Common, Rec!GXAVP
  <2> QED  BY <1>1, <2>2 DEF Rec!Attributes, Rec!AvpMap
<1>2. CASE proto = "s6a"
  <2>1. c \in Rec!S6aRequest \cup Rec!S6aResponse
    BY <1>2 DEF Rec!Request, Rec!Response, Rec!KeptOnce
  <2>2. Rec!AttributeOf(c) \in Rec!Header \cup Rec!Common \cup Rec!S6AAVP
    BY <2>1, Renamed DEF Rec!S6aRequest, Rec!S6aResponse, Rec!Start, Rec!End,
       Rec!Header, Rec!Common, Rec!S6AAVP
  <2> QED  BY <1>2, <2>2 DEF Rec!Attributes, Rec!AvpMap
<1> QED  BY <1>1, <1>2

LEMMA ApartAttributes ==
  /\ Rec!Common \cap Rec!S6AAVP = {} /\ Rec!Header \cap Rec!S6AAVP = {}
  /\ Rec!Header \cap Rec!GXAVP = {} /\ Rec!Header \cap Rec!Common = {}
  /\ "reqRspFlag" \in Rec!Header /\ "ratType" \in Rec!Common
  /\ "apnConfigIndicator" \in Rec!S6AAVP /\ "apnConfigIndicator" \in Rec!NeverStored
  BY DEF Rec!Common, Rec!S6AAVP, Rec!GXAVP, Rec!Header, Rec!NeverStored

(* What a column that has no rule of its own should hold. *)
LEMMA ExpectedPlain ==
  ASSUME NEW rec, NEW c, c \notin WithARule, ~(c = "ratType" /\ proto = "s6a")
  PROVE  Rec!Expected(rec, c) = Rec!FromMessage(Rec!LastOf(rec, TRUE), c)
  BY DEF Rec!Expected, WithARule, OfRequestItself, OfResponseOnly, OfEither, OfLast, Never

-----------------------------------------------------------------------------
(* Who has given an attribute, as a relation. *)
IsGiver(id, a, v) ==
  IF a \in Rec!NeverStored \/ Rec!Givers(id, a) = {} THEN v = 0
  ELSE /\ v \in Rec!Givers(id, a)
       /\ \A n \in Rec!Givers(id, a) : IF a = "featureList" THEN v <= n ELSE n <= v

LEMMA GiverIs ==
  ASSUME NEW id \in Nat, NEW a, NEW v, IsGiver(id, a, v)  PROVE  Rec!Giver(id, a) = v
<1>1. CASE a \in Rec!NeverStored \/ Rec!Givers(id, a) = {}
  BY <1>1 DEF IsGiver, Rec!Giver
<1>2. CASE ~(a \in Rec!NeverStored \/ Rec!Givers(id, a) = {})
  <2> DEFINE Extreme(m) == \A n \in Rec!Givers(id, a) : IF a = "featureList" THEN m <= n ELSE n <= m
  <2>1. v \in Rec!Givers(id, a) /\ Extreme(v)
    BY <1>2 DEF IsGiver
  <2>2. \A m \in Rec!Givers(id, a) : m \in Int
    BY DEF Rec!Givers
  <2>3. \A m \in Rec!Givers(id, a) : Extreme(m) => m = v
    BY <2>1, <2>2
  <2> HIDE DEF Extreme
  <2>4. (CHOOSE m \in Rec!Givers(id, a) : Extreme(m)) = v
    BY <2>1, <2>3
  <2>5. Rec!Giver(id, a) = CHOOSE m \in Rec!Givers(id, a) : Extreme(m)
    BY <1>2 DEF Rec!Giver, Extreme
  <2> QED  BY <2>4, <2>5
<1> QED  BY <1>1, <1>2

(* A message without the attribute leaves the giver; one with it becomes   *)
(* the giver, unless a feature list was there before.                      *)
LEMMA NextGiver ==
  ASSUME NEW id \in Nat, NEW a, NEW v, IsGiver(id, a, v), NEW w, NEW full, full \in BOOLEAN,
         NEW S, S = Rec!Givers(id, a) \cup (IF full THEN {id + 1} ELSE {}),
         a \notin Rec!NeverStored,
         w = IF full /\ ~(a = "featureList" /\ v # 0) THEN id + 1 ELSE v
  PROVE  IF S = {} THEN w = 0
         ELSE w \in S /\ \A n \in S : IF a = "featureList" THEN w <= n ELSE n <= w
<1>1. \A m \in Rec!Givers(id, a) : m \in 1 .. id
  BY DEF Rec!Givers
<1>2. CASE Rec!Givers(id, a) = {}
  <2>1. v = 0
    BY <1>2 DEF IsGiver
  <2> QED  BY <1>2, <2>1
<1>3. CASE Rec!Givers(id, a) # {}
  <2>1. /\ v \in Rec!Givers(id, a)
        /\ \A n \in Rec!Givers(id, a) : IF a = "featureList" THEN v <= n ELSE n <= v
    BY <1>3 DEF IsGiver
  <2>2. v # 0 /\ v \in 1 .. id
    BY <1>1, <2>1
  <2> QED  BY <1>1, <1>3, <2>1, <2>2
<1> QED  BY <1>2, <1>3

(* What a message gives, and what a column is after it. *)
Given(id, a) ==
  IF a = "reqRspFlag" THEN IF seen[id].request THEN id ELSE 0
  ELSE IF a \in Rec!Header THEN id ELSE Rec!Giver(id, a)

Written(m) == IF seen[m].request THEN Rec!Request ELSE Rec!Response

ColumnAfter(v, m, c) ==
  IF c \in Rec!KeptOnce THEN IF v = 0 THEN Given(m, c) ELSE v
  ELSE IF c \in Written(m) THEN Given(m, Rec!AttributeOf(c))
  ELSE IF proto = "s6a" /\ ~seen[m].request /\ c = "ratType" /\ Given(m, c) # 0 THEN Given(m, c)
  ELSE v

AfterOne(m) == [c \in Rec!Columns |-> ColumnAfter(0, m, c)]
AfterTwo(m, n) == [c \in Rec!Columns |-> ColumnAfter(ColumnAfter(0, m, c), n, c)]

-----------------------------------------------------------------------------
(* The history of messages grows at its end only, and what a message has   *)
(* given is not changed by a later one.                                    *)
Messages == Seq([key : HopByHopIds, request : BOOLEAN, full : BOOLEAN, packet : Nat])

LEMMA HistoryStays ==
  ASSUME seen \in Messages, NEW x, seen' = Append(seen, x) \/ seen' = seen,
         NEW m \in 1 .. Len(seen)
  PROVE  seen'[m] = seen[m]
  BY DEF Messages

LEMMA GivenStays ==
  ASSUME seen \in Messages, NEW x, seen' = Append(seen, x) \/ seen' = seen,
         NEW m \in 1 .. Len(seen), NEW a
  PROVE  /\ Rec!Givers(m, a)' = Rec!Givers(m, a) /\ Rec!Giver(m, a)' = Rec!Giver(m, a)
         /\ Given(m, a)' = Given(m, a)
<1>1. \A j \in 1 .. m : seen'[j] = seen[j]
  <2>1. \A j \in 1 .. m : j \in 1 .. Len(seen)
    BY DEF Messages
  <2> QED  BY <2>1, HistoryStays
<1>2. m \in 1 .. m
  BY DEF Messages
<1>3. Rec!Givers(m, a)' = Rec!Givers(m, a)
  BY <1>1, <1>2 DEF Rec!Givers
<1>4. Rec!Giver(m, a)' = Rec!Giver(m, a)
  BY <1>3 DEF Rec!Giver
<1> QED  BY <1>1, <1>2, <1>3, <1>4 DEF Given

LEMMA AfterStays ==
  ASSUME seen \in Messages, NEW x, seen' = Append(seen, x) \/ seen' = seen, proto' = proto,
         NEW m \in 1 .. Len(seen), NEW n \in 1 .. Len(seen)
  PROVE  AfterOne(m)' = AfterOne(m) /\ AfterTwo(m, n)' = AfterTwo(m, n)
<1>1. Rec!Columns' = Rec!Columns
  BY DEF Rec!Columns
<1>2. ASSUME NEW v, NEW c, NEW k \in 1 .. Len(seen)
      PROVE  ColumnAfter(v, k, c)' = ColumnAfter(v, k, c)
  <2>1. /\ Rec!KeptOnce' = Rec!KeptOnce /\ Rec!Request' = Rec!Request
        /\ Rec!Response' = Rec!Response
    BY DEF Rec!KeptOnce, Rec!Request, Rec!Response
  <2>2. seen'[k] = seen[k]
    BY HistoryStays
  <2>3. Written(k)' = Written(k)
    BY <2>1, <2>2 DEF Written
  <2>4. /\ Given(k, c)' = Given(k, c)
        /\ Given(k, Rec!AttributeOf(c))' = Given(k, Rec!AttributeOf(c))
    BY GivenStays DEF Rec!AttributeOf
  <2> QED  BY <2>1, <2>2, <2>3, <2>4 DEF ColumnAfter
<1> QED  BY <1>1, <1>2 DEF AfterOne, AfterTwo

-----------------------------------------------------------------------------
(* Two messages make the columns the reference expects.                    *)
LastAsked(m, n) == IF seen[n].request THEN n ELSE IF seen[m].request THEN m ELSE 0
LastAnswered(m, n) == IF ~seen[n].request THEN n ELSE IF ~seen[m].request THEN m ELSE 0

LEMMA LastOfTwo ==
  ASSUME seen \in Messages, NEW m \in 1 .. Len(seen), NEW n \in 1 .. Len(seen), m < n,
         NEW rec, rec.msgs = <<m, n>>
  PROVE  /\ Rec!LastOf(rec, TRUE) = LastAsked(m, n)
         /\ Rec!LastOf(rec, FALSE) = LastAnswered(m, n)
<1>1. seen[m].request \in BOOLEAN /\ seen[n].request \in BOOLEAN /\ m \in Nat /\ n \in Nat
  <2> DEFINE OneMessage == [key : HopByHopIds, request : BOOLEAN, full : BOOLEAN, packet : Nat]
  <2>1. ASSUME NEW r \in OneMessage  PROVE  r.request \in BOOLEAN
    OBVIOUS
  <2> HIDE DEF OneMessage
  <2>2. seen \in Seq(OneMessage)
    BY DEF Messages, OneMessage
  <2>3. seen[m] \in OneMessage /\ seen[n] \in OneMessage /\ m \in Nat /\ n \in Nat
    BY <2>2
  <2> QED  BY <2>1, <2>3
<1>2. rec.msgs[1] = m /\ rec.msgs[2] = n
  OBVIOUS
<1>3. ASSUME NEW flag \in BOOLEAN,
             NEW mine, mine = {k \in {m, n} : seen[k].request = flag}
      PROVE  (IF mine = {} THEN 0 ELSE CHOOSE k \in mine : \A j \in mine : j <= k)
               = IF seen[n].request = flag THEN n ELSE IF seen[m].request = flag THEN m ELSE 0
  <2> DEFINE Latest(k) == \A j \in mine : j <= k
  <2>1. CASE seen[n].request = flag
    <3>1. n \in mine /\ Latest(n)
      BY <1>1, <1>3, <2>1
    <3>2. \A k \in mine : Latest(k) => k = n
      BY <1>1, <1>3, <3>1
    <3> HIDE DEF Latest
    <3>3. (CHOOSE k \in mine : Latest(k)) = n
      BY <3>1, <3>2
    <3> QED  BY <2>1, <3>1, <3>3 DEF Latest
  <2>2. CASE seen[n].request # flag /\ seen[m].request = flag
    <3>1. mine = {m}
      BY <1>3, <2>2
    <3>2. Latest(m) /\ \A k \in mine : k = m
      BY <1>1, <3>1
    <3> HIDE DEF Latest
    <3>3. (CHOOSE k \in mine : Latest(k)) = m
      BY <3>1, <3>2
    <3> QED  BY <2>2, <3>1, <3>3 DEF Latest
  <2>3. CASE seen[n].request # flag /\ seen[m].request # flag
    <3>1. mine = {}
      BY <1>3, <2>3
    <3> QED  BY <2>3, <3>1
  <2> QED  BY <2>1, <2>2, <2>3
<1>4. Rec!LastOf(rec, TRUE) = IF seen[n].request = TRUE THEN n ELSE IF seen[m].request = TRUE THEN m ELSE 0
  BY <1>2, <1>3 DEF Rec!LastOf
<1>5. Rec!LastOf(rec, FALSE) = IF seen[n].request = FALSE THEN n ELSE IF seen[m].request = FALSE THEN m ELSE 0
  BY <1>2, <1>3 DEF Rec!LastOf
<1> QED  BY <1>1, <1>4, <1>5 DEF LastAsked, LastAnswered

(* The column of an attribute without a rule of its own. *)
LEMMA TwoColumn ==
  ASSUME NEW m, NEW n, NEW c, c \notin Rec!KeptOnce, ~(c = "ratType" /\ proto = "s6a"),
         NEW v, v = ColumnAfter(ColumnAfter(0, m, c), n, c),
         NEW a, a = Rec!AttributeOf(c), m # 0, n # 0
  PROVE  /\ c \in Rec!Request /\ c \notin Rec!Response =>
              v = IF LastAsked(m, n) = 0 THEN 0 ELSE Given(LastAsked(m, n), a)
         /\ c \notin Rec!Request /\ c \in Rec!Response =>
              v = IF LastAnswered(m, n) = 0 THEN 0 ELSE Given(LastAnswered(m, n), a)
         /\ c \in Rec!Request /\ c \in Rec!Response => v = Given(n, a)
         /\ c \notin Rec!Request /\ c \notin Rec!Response => v = 0
  BY DEF ColumnAfter, Written, LastAsked, LastAnswered

LEMMA PlainNames ==
  ASSUME NEW c \in Rec!Columns, c \notin {"time", "reqRspFlag"},
         c \notin OfRequestItself \cup {"EndTime", "answer", "appId"}
  PROVE  c \notin Rec!Header
  BY DEF Rec!Header, OfRequestItself

LEMMA ColumnNames ==
  ASSUME NEW c \in Rec!Columns
  PROVE  c \notin {"time", "reqRspFlag"}
  BY DEF Rec!Columns, Rec!GxColumns, Rec!GxRequest, Rec!GxResponse, Rec!S6aColumns,
     Rec!S6aRequest, Rec!S6aResponse, Rec!Start, Rec!End

LEMMA TypesOfAsked ==
  ASSUME NEW m, NEW n
  PROVE  /\ LastAsked(m, n) # 0 => seen[LastAsked(m, n)].request
         /\ LastAnswered(m, n) # 0 => ~seen[LastAnswered(m, n)].request
  BY DEF LastAsked, LastAnswered

LEMMA ColumnsExpected ==
  ASSUME proto \in {"gx", "s6a"}, seen \in Messages,
         NEW m \in 1 .. Len(seen), NEW n \in 1 .. Len(seen), m < n,
         NEW rec, rec.msgs = <<m, n>>, NEW c \in Rec!Columns
  PROVE  ColumnAfter(ColumnAfter(0, m, c), n, c) = Rec!Expected(rec, c)
<1>1. PICK v, a, req, ans :
        /\ v = ColumnAfter(ColumnAfter(0, m, c), n, c) /\ a = Rec!AttributeOf(c)
        /\ req = LastAsked(m, n) /\ ans = LastAnswered(m, n)
  OBVIOUS
<1>2. Rec!LastOf(rec, TRUE) = req /\ Rec!LastOf(rec, FALSE) = ans
  BY <1>1, LastOfTwo
<1>3. rec.msgs[1] = m /\ rec.msgs[2] = n /\ m # 0 /\ n # 0
  BY DEF Messages
<1>4. ASSUME c \notin Rec!KeptOnce, ~(c = "ratType" /\ proto = "s6a")
      PROVE  /\ c \in Rec!Request /\ c \notin Rec!Response =>
                  v = IF req = 0 THEN 0 ELSE Given(req, a)
             /\ c \notin Rec!Request /\ c \in Rec!Response =>
                  v = IF ans = 0 THEN 0 ELSE Given(ans, a)
             /\ c \in Rec!Request /\ c \in Rec!Response => v = Given(n, a)
             /\ c \notin Rec!Request /\ c \notin Rec!Response => v = 0
  BY <1>1, <1>3, <1>4, TwoColumn
<1>5. c \notin {"time", "reqRspFlag"}
  BY ColumnNames
<1>6. c \in Rec!KeptOnce <=> proto = "gx" /\ c = "eventTrigger"
  BY DEF Rec!KeptOnce
<1>7. /\ req # 0 => seen[req].request
      /\ ans # 0 => ~seen[ans].request
  BY <1>1, TypesOfAsked
<1>8. CASE c \in OfRequestItself
  <2>1. c \in Rec!Request /\ c \notin Rec!Response
    BY <1>8 DEF Rec!Request, Rec!Response, Rec!GxRequest, Rec!GxResponse, Rec!S6aRequest,
       Rec!S6aResponse, Rec!Start, Rec!End, OfRequestItself
  <2>2. v = IF req = 0 THEN 0 ELSE Given(req, a)
    BY <1>4, <1>6, <1>8, <2>1 DEF OfRequestItself
  <2>3. /\ c = "StartTime" => a = "time"
        /\ c = "request" => a = "reqRspFlag"
        /\ c \in {"addresses", "command"} => a = c
    BY <1>1, Renamed
  <2>4. req # 0 => Given(req, a) = req
    BY <1>7, <1>8, <2>3 DEF Given, Rec!Header, OfRequestItself
  <2>5. Rec!Expected(rec, c) = req
    BY <1>2, <1>8 DEF Rec!Expected, OfRequestItself
  <2> QED  BY <1>1, <2>2, <2>4, <2>5
<1>9. CASE c = "EndTime"
  <2>1. c \notin Rec!Request /\ c \in Rec!Response
    BY <1>9 DEF Rec!Request, Rec!Response, Rec!GxRequest, Rec!GxResponse, Rec!S6aRequest,
       Rec!S6aResponse, Rec!Start, Rec!End
  <2>2. v = IF ans = 0 THEN 0 ELSE Given(ans, "time")
    BY <1>1, <1>4, <1>6, <1>9, <2>1, Renamed
  <2>3. Given(ans, "time") = ans
    BY DEF Given, Rec!Header
  <2>4. Rec!Expected(rec, c) = ans
    BY <1>2, <1>9 DEF Rec!Expected
  <2> QED  BY <1>1, <2>2, <2>3, <2>4
<1>10. CASE c = "answer"
  <2>1. c \notin Rec!Request /\ c \in Rec!Response
    BY <1>10 DEF Rec!Request, Rec!Response, Rec!GxRequest, Rec!GxResponse, Rec!S6aRequest,
       Rec!S6aResponse, Rec!Start, Rec!End
  <2>2. v = IF ans = 0 THEN 0 ELSE Given(ans, "reqRspFlag")
    BY <1>1, <1>4, <1>6, <1>10, <2>1, Renamed
  <2>3. ans # 0 => Given(ans, "reqRspFlag") = 0
    BY <1>7 DEF Given
  <2>4. Rec!Expected(rec, c) = 0
    BY <1>10 DEF Rec!Expected
  <2> QED  BY <1>1, <2>2, <2>3, <2>4
<1>11. CASE c = "appId"
  <2>1. c \in Rec!Request /\ c \in Rec!Response
    BY <1>11 DEF Rec!Request, Rec!Response, Rec!GxRequest, Rec!GxResponse, Rec!S6aRequest,
       Rec!S6aResponse, Rec!Start, Rec!End
  <2>2. v = Given(n, "appId")
    BY <1>1, <1>4, <1>6, <1>11, <2>1, Renamed
  <2>3. Given(n, "appId") = n
    BY DEF Given, Rec!Header
  <2>4. Rec!Expected(rec, c) = n
    BY <1>3, <1>11 DEF Rec!Expected
  <2> QED  BY <1>1, <2>2, <2>3, <2>4
<1>12. ASSUME c \notin OfRequestItself \cup {"EndTime", "answer", "appId"}
       PROVE  v = Rec!Expected(rec, c)
  <2>1. c \notin Rec!Header /\ c # "reqRspFlag"
    BY <1>5, <1>12, PlainNames
  <2>2. a = IF c \in {"reqFeatureList", "rspFeatureList"} THEN "featureList" ELSE c
    BY <1>1, <1>12, Renamed DEF OfRequestItself
  <2>3. \A k : Given(k, a) = Rec!Giver(k, a) /\ Given(k, c) = Rec!Giver(k, c)
    BY <2>1, <2>2 DEF Given, Rec!Header
  <2>4. CASE proto = "gx"
    <3>1. CASE c = "eventTrigger"
      <4>1. Given(m, c) = Rec!Giver(m, c) /\ Given(n, c) = Rec!Giver(n, c)
        BY <2>3
      <4>2. v = IF Given(m, c) = 0 THEN Given(n, c) ELSE Given(m, c)
        BY <1>1, <1>6, <2>4, <3>1 DEF ColumnAfter
      <4>3. Rec!Expected(rec, c) = IF Rec!Giver(m, c) # 0 THEN Rec!Giver(m, c) ELSE Rec!Giver(n, c)
        BY <1>3, <3>1 DEF Rec!Expected
      <4> QED  BY <4>1, <4>2, <4>3
    <3>2. CASE c \in OfResponseOnly \ {"failedAvp", "errorMsg"} /\ c \in Rec!Response /\ c \notin Rec!Request
      <4>1. v = IF ans = 0 THEN 0 ELSE Rec!Giver(ans, c)
        BY <1>4, <1>6, <2>2, <2>3, <2>4, <3>2 DEF OfResponseOnly
      <4>2. Rec!Expected(rec, c) = Rec!FromMessage(ans, c)
        BY <1>2, <3>2 DEF Rec!Expected, OfResponseOnly
      <4> QED  BY <4>1, <4>2 DEF Rec!FromMessage
    <3>3. CASE c = "qosClassIdentifier" /\ c \in Rec!Response /\ c \notin Rec!Request
      <4>1. v = IF ans = 0 THEN 0 ELSE Rec!Giver(ans, c)
        BY <1>4, <1>6, <2>2, <2>3, <2>4, <3>3
      <4>2. Rec!Expected(rec, c) = Rec!FromMessage(req, c)
        BY <1>2, <3>3, ExpectedPlain DEF WithARule, OfRequestItself, OfResponseOnly, OfEither, OfLast, Never
      <4>3. Rec!Giver(ans, c) = 0 /\ Rec!Giver(req, c) = 0
        BY <3>3 DEF Rec!Giver, Rec!NeverStored
      <4> QED  BY <4>1, <4>2, <4>3 DEF Rec!FromMessage
    <3>4. CASE c = "ccTotalOctets" /\ c \in Rec!Request /\ c \in Rec!Response
      <4>1. v = Rec!Giver(n, c)
        BY <1>4, <1>6, <2>2, <2>3, <2>4, <3>4
      <4>2. Rec!Expected(rec, c) = Rec!Giver(n, c)
        BY <1>3, <3>4 DEF Rec!Expected
      <4> QED  BY <4>1, <4>2
    <3>5. CASE c \in OfEither /\ c \in Rec!Request /\ c \notin Rec!Response
      <4>1. v = IF req = 0 THEN 0 ELSE Rec!Giver(req, c)
        BY <1>4, <1>6, <2>2, <2>3, <2>4, <3>5 DEF OfEither
      <4>2. Rec!Expected(rec, c) = Rec!FromMessage(req, c)
        BY <1>2, <2>4, <3>5 DEF Rec!Expected, OfEither
      <4> QED  BY <4>1, <4>2 DEF Rec!FromMessage
    <3>6. CASE c \notin WithARule /\ c \in Rec!Request /\ c \notin Rec!Response
      <4>1. v = IF req = 0 THEN 0 ELSE Rec!Giver(req, c)
        BY <1>4, <1>6, <2>2, <2>3, <2>4, <3>6 DEF WithARule
      <4>2. Rec!Expected(rec, c) = Rec!FromMessage(req, c)
        BY <1>2, <2>4, <3>6, ExpectedPlain
      <4> QED  BY <4>1, <4>2 DEF Rec!FromMessage
    <3> QED  BY <1>12, <2>4, <3>1, <3>2, <3>3, <3>4, <3>5, <3>6, GxColumn
  <2>5. CASE proto = "s6a"
    <3>1. CASE c = "ratType"
      <4>1. Given(m, c) = Rec!Giver(m, c) /\ Given(n, c) = Rec!Giver(n, c)
        BY <2>3
      <4>2. c \in Rec!Request /\ c \notin Rec!Response /\ a = c /\ c \notin Rec!KeptOnce
        BY <1>6, <2>2, <2>5, <3>1 DEF Rec!Request, Rec!Response, Rec!S6aRequest, Rec!S6aResponse,
           Rec!Start, Rec!End
      <4>3. v = IF seen[n].request THEN Given(n, c)
                ELSE IF Given(n, c) # 0 THEN Given(n, c) ELSE Given(m, c)
        BY <1>1, <2>5, <3>1, <4>2 DEF ColumnAfter, Written
      <4>4. Rec!Expected(rec, c) = IF seen[n].request \/ Rec!Giver(n, c) # 0
                                   THEN Rec!Giver(n, c) ELSE Rec!Giver(m, c)
        BY <1>3, <2>5, <3>1 DEF Rec!Expected
      <4> QED  BY <4>1, <4>3, <4>4
    <3>2. CASE c = "reqFeatureList" /\ c \in Rec!Request /\ c \notin Rec!Response
      <4>1. v = IF req = 0 THEN 0 ELSE Rec!Giver(req, "featureList")
        BY <1>4, <1>6, <2>2, <2>3, <2>5, <3>2
      <4>2. Rec!Expected(rec, c) = Rec!FromMessage(req, "featureList")
        BY <1>2, <3>2 DEF Rec!Expected
      <4> QED  BY <4>1, <4>2 DEF Rec!FromMessage
    <3>3. CASE c = "rspFeatureList" /\ c \in Rec!Response /\ c \notin Rec!Request
      <4>1. v = IF ans = 0 THEN 0 ELSE Rec!Giver(ans, "featureList")
        BY <1>4, <1>6, <2>2, <2>3, <2>5, <3>3
      <4>2. Rec!Expected(rec, c) = Rec!FromMessage(ans, "featureList")
        BY <1>2, <3>3 DEF Rec!Expected
      <4> QED  BY <4>1, <4>2 DEF Rec!FromMessage
    <3>4. CASE c \in {"resultCode", "failedAvp", "errorMsg"} \cup OfEither
                 /\ c \in Rec!Response /\ c \notin Rec!Request
      <4>1. v = IF ans = 0 THEN 0 ELSE Rec!Giver(ans, c)
        BY <1>4, <1>6, <2>2, <2>3, <2>5, <3>4 DEF OfEither
      <4>2. Rec!Expected(rec, c) = Rec!FromMessage(ans, c)
        BY <1>2, <2>5, <3>4 DEF Rec!Expected, OfEither
      <4> QED  BY <4>1, <4>2 DEF Rec!FromMessage
    <3>5. CASE c = "featureListId" /\ c \in Rec!Request /\ c \in Rec!Response
      <4>1. v = Rec!Giver(n, c)
        BY <1>4, <1>6, <2>2, <2>3, <2>5, <3>5
      <4>2. Rec!Expected(rec, c) = Rec!Giver(n, c)
        BY <1>3, <3>5 DEF Rec!Expected
      <4> QED  BY <4>1, <4>2
    <3>6. CASE c \in Never /\ c \notin Rec!Request /\ c \notin Rec!Response
      <4>1. v = 0
        BY <1>4, <1>6, <2>5, <3>6 DEF Never
      <4>2. Rec!Expected(rec, c) = 0
        BY <3>6 DEF Rec!Expected, Never
      <4> QED  BY <4>1, <4>2
    <3>7. CASE c \notin WithARule /\ c # "ratType" /\ c \in Rec!Request /\ c \notin Rec!Response
      <4>1. v = IF req = 0 THEN 0 ELSE Rec!Giver(req, c)
        BY <1>4, <1>6, <2>2, <2>3, <2>5, <3>7 DEF WithARule
      <4>2. Rec!Expected(rec, c) = Rec!FromMessage(req, c)
        BY <1>2, <3>7, ExpectedPlain
      <4> QED  BY <4>1, <4>2 DEF Rec!FromMessage
    <3> QED  BY <1>12, <2>5, <3>1, <3>2, <3>3, <3>4, <3>5, <3>6, <3>7, S6aColumn
  <2> QED  BY <2>4, <2>5
<1> QED  BY <1>1, <1>8, <1>9, <1>10, <1>11, <1>12

-----------------------------------------------------------------------------
(* The history: a packet is numbered after its first message.              *)
HistoryTyped ==
  /\ proto \in {"gx", "s6a"} /\ seen \in Messages
  /\ \A m \in 1 .. Len(seen) : seen[m].packet \in Nat /\ seen[m].packet <= m

(* The entry of the MPacket holds what the last message gives, and of      *)
(* attributes it does not give what an earlier chunk has given.            *)
AttributeGiven(a) ==
  IF a \in Rec!Header THEN entry.attrs[a] = Given(Len(seen), a)
  ELSE IsGiver(Len(seen), a, entry.attrs[a])

EntryGiven ==
  /\ entry = [msg |-> Len(seen), attrs |-> entry.attrs]
  /\ DOMAIN entry.attrs = Rec!Attributes
  /\ entry.attrs = [a \in Rec!Attributes |-> entry.attrs[a]]
  /\ decoded => Len(seen) > 0
  /\ Len(seen) > 0 => \A a \in Rec!Attributes : AttributeGiven(a)

(* An open session is that of one message, and has columns of its own. *)
HalfOf(k, m) ==
  /\ table[k] = [at |-> table[k].at, msgs |-> <<m>>]
  /\ decoded => m < Len(seen)
  /\ pool[table[k].at] = AfterOne(m)
TableGiven ==
  /\ pool = [i \in Pool |-> pool[i]]
  /\ table = [k \in DOMAIN table |-> table[k]]
  /\ \A k \in DOMAIN table : table[k].at \in Pool /\ \E m \in 1 .. Len(seen) : HalfOf(k, m)
  /\ \A j, k \in DOMAIN table : table[j].at = table[k].at => j = k

RecordsGiven ==
  \A rec \in records : \E m, n \in 1 .. Len(seen) :
    m < n /\ rec = [msgs |-> <<m, n>>, cols |-> AfterTwo(m, n)]

RecordInv == HistoryTyped /\ EntryGiven /\ TableGiven /\ RecordsGiven

LEMMA MessageFields ==
  ASSUME HistoryTyped, NEW m \in 1 .. Len(seen)
  PROVE  seen[m].request \in BOOLEAN /\ seen[m].full \in BOOLEAN /\ m \in Nat /\ m # 0
<1> DEFINE OneMessage == [key : HopByHopIds, request : BOOLEAN, full : BOOLEAN, packet : Nat]
<1>1. ASSUME NEW r \in OneMessage  PROVE  r.request \in BOOLEAN /\ r.full \in BOOLEAN
  OBVIOUS
<1> HIDE DEF OneMessage
<1>2. seen \in Seq(OneMessage)
  BY DEF HistoryTyped, Messages, OneMessage
<1>3. seen[m] \in OneMessage /\ m \in Nat /\ m # 0
  BY <1>2
<1> QED  BY <1>1, <1>3

(* Processing a message is overwriting the columns by what it gives. *)
LEMMA Processes ==
  ASSUME HistoryTyped, EntryGiven, decoded, NEW session
  PROVE  Rec!Processed(session, Rec!Copied(entry))
           = [c \in Rec!Columns |-> ColumnAfter(session[c], Len(seen), c)]
<1>1. PICK id, body, attrs : id = Len(seen) /\ body = Rec!Copied(entry) /\ attrs = entry.attrs
  OBVIOUS
<1>2. body = [msg |-> id, attrs |-> attrs]
  <2>1. entry = [msg |-> id, attrs |-> attrs] /\ attrs = [a \in Rec!Attributes |-> attrs[a]]
    BY <1>1 DEF EntryGiven
  <2>2. [entry EXCEPT !.attrs = [a \in Rec!Attributes |-> attrs[a]]]
          = [msg |-> id, attrs |-> [a \in Rec!Attributes |-> attrs[a]]]
    BY <2>1
  <2>3. body = [entry EXCEPT !.attrs = [a \in Rec!Attributes |-> attrs[a]]]
    BY <1>1 DEF Rec!Copied, Rec!Attributes
  <2> QED  BY <2>1, <2>2, <2>3
<1>3. id \in 1 .. Len(seen) /\ id \in Nat /\ seen[id].request \in BOOLEAN
  <2>1. id \in 1 .. Len(seen)
    BY <1>1 DEF EntryGiven, HistoryTyped, Messages
  <2> QED  BY <2>1, MessageFields
<1>4. ASSUME NEW a \in Rec!Attributes  PROVE  attrs[a] = Given(id, a)
  <2>1. AttributeGiven(a)
    BY <1>1, <1>3 DEF EntryGiven
  <2>2. CASE a \in Rec!Header
    BY <1>1, <2>1, <2>2 DEF AttributeGiven
  <2>3. CASE a \notin Rec!Header
    <3>1. IsGiver(id, a, attrs[a])
      BY <1>1, <2>1, <2>3 DEF AttributeGiven
    <3>2. Rec!Giver(id, a) = attrs[a]
      BY <1>3, <3>1, GiverIs
    <3> QED  BY <2>3, <3>2, ApartAttributes DEF Given
  <2> QED  BY <2>2, <2>3
<1>5. proto = "s6a" => attrs["apnConfigIndicator"] = 0
  <2>1. proto = "s6a" => "apnConfigIndicator" \in Rec!Attributes
    BY ApartAttributes DEF Rec!Attributes, Rec!AvpMap
  <2>2. "apnConfigIndicator" \notin Rec!Header
    BY ApartAttributes
  <2>3. Rec!Giver(id, "apnConfigIndicator") = 0
    BY ApartAttributes DEF Rec!Giver
  <2> QED  BY <1>4, <2>1, <2>2, <2>3, ApartAttributes DEF Given
<1>6. \A c \in Rec!Request \cup Rec!Response \cup Rec!KeptOnce :
        attrs[Rec!AttributeOf(c)] = Given(id, Rec!AttributeOf(c))
  BY <1>4, CopiesAttributes DEF HistoryTyped
<1>7. \A c \in Rec!KeptOnce : Rec!AttributeOf(c) = c
  BY Renamed DEF Rec!KeptOnce
<1>8. ASSUME NEW cols, cols = Rec!Request \/ cols = Rec!Response
      PROVE  Rec!Overwrite(session, body, cols) =
               [c \in Rec!Columns |->
                  IF c \in Rec!KeptOnce THEN IF session[c] = 0 THEN Given(id, c) ELSE session[c]
                  ELSE IF c \in cols THEN Given(id, Rec!AttributeOf(c)) ELSE session[c]]
  <2>1. body.attrs = attrs
    BY <1>2
  <2>2. \A c \in Rec!KeptOnce : attrs[c] = Given(id, c)
    BY <1>6, <1>7
  <2>3. \A c \in cols : attrs[Rec!AttributeOf(c)] = Given(id, Rec!AttributeOf(c))
    BY <1>6, <1>8
  <2> HIDE <1>8
  <2> QED  BY <2>1, <2>2, <2>3 DEF Rec!Overwrite
<1>9. CASE seen[id].request
  <2>1. Rec!Processed(session, body) = Rec!processRequest(session, body)
    BY <1>2, <1>9 DEF Rec!Processed
  <2>2. Rec!processRequest(session, body) = Rec!Overwrite(session, body, Rec!Request)
    BY <1>2, <1>5 DEF Rec!processRequest
  <2>3. \A c : Written(id) = Rec!Request /\ ColumnAfter(session[c], id, c) =
                  IF c \in Rec!KeptOnce THEN IF session[c] = 0 THEN Given(id, c) ELSE session[c]
                  ELSE IF c \in Rec!Request THEN Given(id, Rec!AttributeOf(c)) ELSE session[c]
    BY <1>9 DEF ColumnAfter, Written
  <2> QED  BY <1>1, <1>8, <2>1, <2>2, <2>3
<1>10. CASE ~seen[id].request
  <2>1. Rec!Processed(session, body) = Rec!processResponse(session, body)
    BY <1>2, <1>10 DEF Rec!Processed
  <2>2. PICK updated : updated = Rec!Overwrite(session, body, Rec!Response)
    OBVIOUS
  <2>3. updated = [c \in Rec!Columns |->
                  IF c \in Rec!KeptOnce THEN IF session[c] = 0 THEN Given(id, c) ELSE session[c]
                  ELSE IF c \in Rec!Response THEN Given(id, Rec!AttributeOf(c)) ELSE session[c]]
    BY <1>8, <2>2
  <2>4. \A c : ColumnAfter(session[c], id, c) =
                  IF c \in Rec!KeptOnce THEN IF session[c] = 0 THEN Given(id, c) ELSE session[c]
                  ELSE IF c \in Rec!Response THEN Given(id, Rec!AttributeOf(c))
                  ELSE IF proto = "s6a" /\ c = "ratType" /\ Given(id, c) # 0 THEN Given(id, c)
                  ELSE session[c]
    BY <1>10 DEF ColumnAfter, Written
  <2>5. CASE proto = "gx"
    <3>1. Rec!processResponse(session, body) = updated
      BY <2>2, <2>5 DEF Rec!processResponse
    <3>2. \A c : ColumnAfter(session[c], id, c) =
                  IF c \in Rec!KeptOnce THEN IF session[c] = 0 THEN Given(id, c) ELSE session[c]
                  ELSE IF c \in Rec!Response THEN Given(id, Rec!AttributeOf(c)) ELSE session[c]
      BY <2>4, <2>5
    <3> QED  BY <1>1, <2>1, <2>3, <3>1, <3>2
  <2>6. CASE proto = "s6a"
    <3>1. /\ "ratType" \in Rec!Columns /\ "apnConfigIndicator" \in Rec!Columns
          /\ "ratType" \notin Rec!Response /\ Rec!KeptOnce = {} /\ "ratType" \in Rec!Attributes
      BY <2>6, ApartAttributes DEF Rec!Columns, Rec!S6aColumns, Rec!Response, Rec!S6aRequest, Rec!S6aResponse,
         Rec!Start, Rec!End, Rec!KeptOnce, Rec!Attributes
    <3>2. updated["ratType"] = session["ratType"]
      BY <2>3, <3>1
    <3>3. attrs["ratType"] = Given(id, "ratType")
      BY <1>4, <3>1
    <3>4. PICK rat : rat = IF Given(id, "ratType") # 0 THEN Given(id, "ratType") ELSE session["ratType"]
      OBVIOUS
    <3>5. PICK apn : apn = updated["apnConfigIndicator"]
      OBVIOUS
    <3>6. Rec!processResponse(session, body)
            = [updated EXCEPT !["ratType"] = rat, !["apnConfigIndicator"] = apn]
      <4>1. Rec!processResponse(session, body) =
              [updated EXCEPT
                 !["ratType"] = IF attrs["ratType"] # 0 THEN attrs["ratType"] ELSE updated["ratType"],
                 !["apnConfigIndicator"] =
                    IF updated["apnConfigIndicator"] = 0 THEN attrs["apnConfigIndicator"]
                    ELSE updated["apnConfigIndicator"]]
        BY <1>2, <2>2, <2>6, Zenon DEF Rec!processResponse
      <4> QED  BY <1>5, <2>6, <3>2, <3>3, <3>4, <3>5, <4>1
    <3>7. DOMAIN updated = Rec!Columns /\ updated = [c \in Rec!Columns |-> updated[c]]
      BY <2>3
    <3>8. Rec!processResponse(session, body)
            = [c \in Rec!Columns |-> IF c = "ratType" THEN rat ELSE updated[c]]
      BY <3>1, <3>5, <3>6, <3>7
    <3>9. ASSUME NEW c \in Rec!Columns
          PROVE  ColumnAfter(session[c], id, c) = IF c = "ratType" THEN rat ELSE updated[c]
      BY <2>3, <2>4, <2>6, <3>1, <3>4
    <3> QED  BY <1>1, <2>1, <3>8, <3>9
  <2> QED  BY <2>5, <2>6 DEF HistoryTyped
<1> QED  BY <1>9, <1>10

-----------------------------------------------------------------------------
(* What a new message leaves in the entry; x is what was there before it.  *)
LEMMA AppendedMessage ==
  ASSUME HistoryTyped, NEW m, m \in [key : HopByHopIds, request : BOOLEAN, full : BOOLEAN, packet : Nat],
         seen' = Append(seen, m), NEW id, id = Len(seen) + 1, m.packet <= id, proto' = proto
  PROVE  /\ id \in Nat /\ id \in 1 .. id /\ Len(seen') = id /\ Len(seen) \in Nat
         /\ seen'[id] = m /\ \A j \in 1 .. id - 1 : seen'[j] = seen[j]
         /\ HistoryTyped'
<1> DEFINE OneMessage == [key : HopByHopIds, request : BOOLEAN, full : BOOLEAN, packet : Nat]
<1>1. m \in OneMessage /\ m.packet \in Nat
  OBVIOUS
<1> HIDE DEF OneMessage
<1>2. seen \in Seq(OneMessage) /\ (seen' \in Messages <=> seen' \in Seq(OneMessage))
  BY DEF HistoryTyped, Messages, OneMessage
<1>3. /\ Len(seen) \in Nat /\ Len(seen') = id /\ seen' \in Seq(OneMessage) /\ seen'[id] = m
      /\ \A j \in 1 .. Len(seen) : seen'[j] = seen[j]
  BY <1>1, <1>2
<1>4. /\ id \in Nat /\ id \in 1 .. id /\ 1 .. id - 1 = 1 .. Len(seen)
      /\ \A j \in 1 .. id : j = id \/ j \in 1 .. Len(seen)
  BY <1>3
<1>5. \A j \in 1 .. Len(seen') : seen'[j].packet \in Nat /\ seen'[j].packet <= j
  BY <1>1, <1>3, <1>4 DEF HistoryTyped
<1>6. HistoryTyped'
  BY <1>2, <1>3, <1>5 DEF HistoryTyped
<1> QED  BY <1>3, <1>4, <1>6

LEMMA DecodesHeader ==
  ASSUME NEW id, NEW m, NEW attrs, NEW a \in Rec!Header
  PROVE  Rec!Decoded(id, m, attrs).attrs[a] = IF a = "reqRspFlag" THEN IF m.request THEN id ELSE 0 ELSE id
<1>1. a \in Rec!Attributes
  BY DEF Rec!Attributes
<1>2. Rec!Decoded(id, m, attrs).attrs[a] =
        CASE a = "reqRspFlag" -> IF m.request THEN id ELSE 0
          [] a \in Rec!Header \ {"reqRspFlag"} -> id
          [] a \notin Rec!Header /\ Rec!Stores(m, a, attrs) -> id
          [] OTHER -> attrs[a]
  BY <1>1, Zenon DEF Rec!Decoded
<1> QED  BY <1>2, Zenon

LEMMA DecodesBody ==
  ASSUME NEW id, NEW m, NEW attrs, NEW a \in Rec!Attributes, a \notin Rec!Header
  PROVE  Rec!Decoded(id, m, attrs).attrs[a] = IF Rec!Stores(m, a, attrs) THEN id ELSE attrs[a]
<1>1. a # "reqRspFlag" /\ a \notin Rec!Header \ {"reqRspFlag"}
  BY ApartAttributes
<1>2. Rec!Decoded(id, m, attrs).attrs[a] =
        CASE a = "reqRspFlag" -> IF m.request THEN id ELSE 0
          [] a \in Rec!Header \ {"reqRspFlag"} -> id
          [] a \notin Rec!Header /\ Rec!Stores(m, a, attrs) -> id
          [] OTHER -> attrs[a]
  BY Zenon DEF Rec!Decoded
<1> QED  BY <1>1, <1>2, Zenon

LEMMA EntryOf ==
  ASSUME HistoryTyped, NEW m, m \in [key : HopByHopIds, request : BOOLEAN, full : BOOLEAN, packet : Nat],
         seen' = Append(seen, m), m.packet <= Len(seen) + 1, proto' = proto,
         NEW attrs, entry' = Rec!Decoded(Len(seen'), m, attrs),
         \A a \in Rec!Attributes : a \notin Rec!Header => AttributeGiven(a)'
  PROVE  EntryGiven'
<1>1. PICK id : id = Len(seen) + 1
  OBVIOUS
<1>2. id \in Nat /\ id > 0 /\ Len(seen') = id /\ seen'[id] = m
  BY <1>1, AppendedMessage
<1>3. Rec!Attributes' = Rec!Attributes
  BY DEF Rec!Attributes, Rec!AvpMap
<1>4. /\ entry'.msg = id /\ DOMAIN entry'.attrs = Rec!Attributes
      /\ entry' = [msg |-> id, attrs |-> entry'.attrs]
      /\ entry'.attrs = [a \in Rec!Attributes |-> entry'.attrs[a]]
  <2>1. PICK f : /\ Rec!Decoded(id, m, attrs) = [msg |-> id, attrs |-> f]
                 /\ DOMAIN f = Rec!Attributes /\ f = [a \in Rec!Attributes |-> f[a]]
    <3> DEFINE Value(a) == CASE a = "reqRspFlag" -> IF m.request THEN id ELSE 0
                             [] a \in Rec!Header \ {"reqRspFlag"} -> id
                             [] a \notin Rec!Header /\ Rec!Stores(m, a, attrs) -> id
                             [] OTHER -> attrs[a]
               F == [a \in Rec!Attributes |-> Value(a)]
    <3>1. Rec!Decoded(id, m, attrs) = [msg |-> id, attrs |-> F]
      BY Zenon DEF Rec!Decoded
    <3> HIDE DEF Value
    <3>2. DOMAIN F = Rec!Attributes /\ F = [a \in Rec!Attributes |-> F[a]]
      OBVIOUS
    <3> HIDE DEF F
    <3> QED  BY <3>1, <3>2, Zenon
  <2> QED  BY <1>2, <2>1
<1>5. ASSUME NEW a \in Rec!Attributes, a \in Rec!Header  PROVE  AttributeGiven(a)'
  <2>1. entry'.attrs[a] = IF a = "reqRspFlag" THEN IF m.request THEN id ELSE 0 ELSE id
    BY <1>2, <1>5, DecodesHeader
  <2>2. Given(id, a)' = IF a = "reqRspFlag" THEN IF m.request THEN id ELSE 0 ELSE id
    BY <1>2, <1>5 DEF Given, Rec!Header
  <2>3. Given(Len(seen), a)' = Given(id, a)'
    BY <1>2
  <2>4. a \in Rec!Header' <=> a \in Rec!Header
    BY DEF Rec!Header
  <2> QED  BY <1>5, <2>1, <2>2, <2>3, <2>4 DEF AttributeGiven
<1> QED  BY <1>2, <1>3, <1>4, <1>5 DEF EntryGiven

LEMMA GivenNext ==
  ASSUME NEW id, Len(seen') = id, NEW a, a \notin Rec!Header,
         NEW w, w = entry'.attrs[a], NEW S, S = Rec!Givers(id, a)',
         IF a \in Rec!NeverStored \/ S = {} THEN w = 0
         ELSE w \in S /\ \A n \in S : IF a = "featureList" THEN w <= n ELSE n <= w
  PROVE  AttributeGiven(a)'
<1>1. Rec!Givers(Len(seen), a)' = S
  BY DEF Rec!Givers
<1> QED  BY <1>1 DEF AttributeGiven, IsGiver, Rec!NeverStored, Rec!Header

LEMMA NewPacketKeeps ==
  ASSUME HistoryTyped, EntryGiven, Rec!NewPacket  PROVE  HistoryTyped' /\ EntryGiven'
<1>1. PICK id : id = Len(seen) + 1
  OBVIOUS
<1>2. PICK m \in Rec!Message(id) :
        seen' = Append(seen, m) /\ entry' = Rec!Decoded(Len(seen'), m, [a \in Rec!Attributes |-> 0])
  BY <1>1 DEF Rec!NewPacket
<1>3. proto' = proto /\ decoded' = TRUE
  BY DEF Rec!NewPacket
<1>4. id \in Nat
  BY <1>1 DEF HistoryTyped, Messages
<1>5. /\ m \in [key : HopByHopIds, request : BOOLEAN, full : BOOLEAN, packet : Nat]
      /\ m.packet = id /\ m.full \in BOOLEAN
  BY <1>4 DEF Rec!Message
<1>6. /\ id \in 1 .. id /\ Len(seen') = id /\ seen'[id] = m
      /\ \A j \in 1 .. id - 1 : seen'[j] = seen[j]
      /\ HistoryTyped'
  BY <1>1, <1>2, <1>3, <1>4, <1>5, AppendedMessage
<1>7. ASSUME NEW a \in Rec!Attributes, a \notin Rec!Header  PROVE  AttributeGiven(a)'
  <2>1. \A j \in 1 .. id : j = id \/ (j \in 1 .. id - 1 /\ seen'[j].packet # id)
    BY <1>1, <1>4, <1>6 DEF HistoryTyped
  <2>2. Rec!Givers(id, a)' = IF m.full THEN {id} ELSE {}
    BY <1>4, <1>5, <1>6, <2>1 DEF Rec!Givers
  <2>3. entry'.attrs[a] = IF a \notin Rec!NeverStored /\ m.full THEN id ELSE 0
    <3>1. Rec!Decoded(id, m, [b \in Rec!Attributes |-> 0]).attrs[a] =
            IF Rec!Stores(m, a, [b \in Rec!Attributes |-> 0]) THEN id ELSE [b \in Rec!Attributes |-> 0][a]
      BY <1>7, DecodesBody
    <3>2. Rec!Stores(m, a, [b \in Rec!Attributes |-> 0]) <=> a \notin Rec!NeverStored /\ m.full
      BY DEF Rec!Stores
    <3> QED  BY <1>2, <1>6, <3>1, <3>2
  <2> QED  BY <1>4, <1>6, <1>7, <2>2, <2>3, GivenNext
<1>8. EntryGiven'
  BY <1>1, <1>2, <1>3, <1>4, <1>5, <1>7, EntryOf
<1> QED  BY <1>6, <1>8

LEMMA NextChunkKeeps ==
  ASSUME HistoryTyped, EntryGiven, Rec!NextChunk  PROVE  HistoryTyped' /\ EntryGiven'
<1>1. PICK last, id : last = Len(seen) /\ id = Len(seen) + 1
  OBVIOUS
<1>2. PICK m \in Rec!Message(seen[last].packet) :
        seen' = Append(seen, m) /\ entry' = Rec!Decoded(Len(seen'), m, Rec!ResetBody(entry.attrs))
  BY <1>1 DEF Rec!NextChunk
<1>3. proto' = proto /\ proto = "s6a" /\ decoded /\ decoded' = decoded
  BY DEF Rec!NextChunk
<1>4. id \in Nat /\ last \in 1 .. Len(seen) /\ last \in Nat /\ id = last + 1
  BY <1>1, <1>3 DEF HistoryTyped, Messages, EntryGiven
<1>5. /\ m \in [key : HopByHopIds, request : BOOLEAN, full : BOOLEAN, packet : Nat]
      /\ m.packet = seen[last].packet /\ m.full \in BOOLEAN /\ m.packet <= id
  <2>1. seen[last].packet \in Nat /\ seen[last].packet <= last
    BY <1>4 DEF HistoryTyped
  <2>2. m.packet = seen[last].packet /\ m.full \in BOOLEAN
    BY DEF Rec!Message
  <2>3. m \in [key : HopByHopIds, request : BOOLEAN, full : BOOLEAN, packet : Nat]
    BY <2>1 DEF Rec!Message
  <2> QED  BY <1>4, <2>1, <2>2, <2>3
<1>6. /\ id \in 1 .. id /\ Len(seen') = id /\ seen'[id] = m
      /\ \A j \in 1 .. id - 1 : seen'[j] = seen[j]
      /\ HistoryTyped'
  BY <1>1, <1>2, <1>3, <1>5, AppendedMessage
<1>7. ASSUME NEW a \in Rec!Attributes, a \notin Rec!Header  PROVE  AttributeGiven(a)'
  <2>1. PICK attrs, v, w : attrs = Rec!ResetBody(entry.attrs) /\ v = attrs[a] /\ w = entry'.attrs[a]
    OBVIOUS
  <2>2. v = IF a \in Rec!S6AAVP THEN entry.attrs[a] ELSE 0
    BY <1>3, <2>1 DEF Rec!ResetBody, Rec!AvpMap
  <2>3. w = IF a \notin Rec!NeverStored /\ m.full /\ ~(a = "featureList" /\ v # 0) THEN id ELSE v
    <3>1. w = IF Rec!Stores(m, a, attrs) THEN id ELSE v
      BY <1>2, <1>6, <1>7, <2>1, DecodesBody
    <3> QED  BY <2>1, <3>1 DEF Rec!Stores
  <2>4. IsGiver(last, a, entry.attrs[a])
    BY <1>1, <1>3, <1>7 DEF EntryGiven, AttributeGiven
  <2>5. PICK S : S = Rec!Givers(id, a)'
    OBVIOUS
  <2>6. IF a \in Rec!NeverStored \/ S = {} THEN w = 0
        ELSE w \in S /\ \A n \in S : IF a = "featureList" THEN w <= n ELSE n <= w
    <3>1. CASE a \in Rec!S6AAVP
      <4>1. \A j \in 1 .. id : j = id \/ (j \in 1 .. last /\ seen'[j] = seen[j])
        BY <1>4, <1>6
      <4>2. \A j \in 1 .. last : j \in 1 .. id /\ j # id
        BY <1>4
      <4>3. S = Rec!Givers(last, a) \cup (IF m.full THEN {last + 1} ELSE {})
        BY <1>4, <1>5, <1>6, <2>5, <3>1, <4>1, <4>2 DEF Rec!Givers, Rec!S6AAVP
      <4>4. CASE a \in Rec!NeverStored
        <5>1. v = 0
          BY <2>2, <2>4, <3>1, <4>4 DEF IsGiver
        <5> QED  BY <2>3, <4>4, <5>1
      <4>5. CASE a \notin Rec!NeverStored
        <5>1. IsGiver(last, a, v)
          BY <2>2, <2>4, <3>1
        <5>2. w = IF m.full /\ ~(a = "featureList" /\ v # 0) THEN last + 1 ELSE v
          BY <1>4, <2>3, <4>5
        <5>3. PICK full \in BOOLEAN : full = m.full
          BY <1>5
        <5>4. S = Rec!Givers(last, a) \cup (IF full THEN {last + 1} ELSE {})
          BY <4>3, <5>3
        <5>5. w = IF full /\ ~(a = "featureList" /\ v # 0) THEN last + 1 ELSE v
          BY <5>2, <5>3
        <5>6. last \in Nat
          BY <1>4
        <5>7. IF S = {} THEN w = 0
              ELSE w \in S /\ \A n \in S : IF a = "featureList" THEN w <= n ELSE n <= w
          BY <4>5, <5>1, <5>4, <5>5, <5>6, NextGiver
        <5> QED  BY <4>5, <5>7
      <4> QED  BY <4>4, <4>5
    <3>2. CASE a \notin Rec!S6AAVP
      <4>1. S = IF m.full THEN {id} ELSE {}
        BY <1>5, <1>6, <2>5, <3>2 DEF Rec!Givers, Rec!S6AAVP
      <4>2. v = 0
        BY <2>2, <3>2
      <4> QED  BY <1>4, <2>3, <4>1, <4>2
    <3> QED  BY <3>1, <3>2
  <2> QED  BY <1>6, <1>7, <2>1, <2>5, <2>6, GivenNext
<1>8. EntryGiven'
  BY <1>1, <1>2, <1>3, <1>5, <1>7, EntryOf
<1> QED  BY <1>6, <1>8

-----------------------------------------------------------------------------
(* Sessions and records.                                                   *)

(* A new message leaves sessions and records as they were. *)
LEMMA ArrivalKeeps ==
  ASSUME HistoryTyped, EntryGiven, TableGiven, RecordsGiven, Rec!NewPacket \/ Rec!NextChunk
  PROVE  TableGiven' /\ RecordsGiven'
<1>1. /\ proto' = proto /\ pool' = pool /\ table' = table /\ records' = records
      /\ \E x : seen' = Append(seen, x)
  BY DEF Rec!NewPacket, Rec!NextChunk
<1>2. PICK x : seen' = Append(seen, x)
  BY <1>1
<1>3. seen \in Messages /\ Len(seen) \in Nat /\ Len(seen') = Len(seen) + 1
  BY <1>2 DEF HistoryTyped, Messages
<1>4. \A m \in 1 .. Len(seen) : m \in 1 .. Len(seen') /\ m < Len(seen')
  BY <1>3
<1>5. ASSUME NEW k, NEW m \in 1 .. Len(seen), HalfOf(k, m)  PROVE  HalfOf(k, m)'
  <2>1. AfterOne(m)' = AfterOne(m)
    BY <1>1, <1>2, <1>3, AfterStays
  <2> QED  BY <1>1, <1>4, <1>5, <2>1 DEF HalfOf
<1>6. TableGiven'
  <2>1. ASSUME NEW k \in DOMAIN table
        PROVE  table'[k].at \in Pool /\ \E m \in 1 .. Len(seen') : HalfOf(k, m)'
    <3>1. table[k].at \in Pool
      BY DEF TableGiven
    <3>2. PICK m \in 1 .. Len(seen) : HalfOf(k, m)
      BY DEF TableGiven
    <3> QED  BY <1>1, <1>4, <1>5, <3>1, <3>2
  <2> QED  BY <1>1, <2>1 DEF TableGiven
<1>7. RecordsGiven'
  <2>1. ASSUME NEW rec \in records
        PROVE  \E m, n \in 1 .. Len(seen') :
                 m < n /\ rec = [msgs |-> <<m, n>>, cols |-> AfterTwo(m, n)']
    <3>1. PICK m \in 1 .. Len(seen), n \in 1 .. Len(seen) :
            m < n /\ rec = [msgs |-> <<m, n>>, cols |-> AfterTwo(m, n)]
      BY DEF RecordsGiven
    <3>2. AfterTwo(m, n)' = AfterTwo(m, n)
      BY <1>1, <1>2, <1>3, AfterStays
    <3> QED  BY <1>4, <3>1, <3>2
  <2> QED  BY <1>1, <2>1 DEF RecordsGiven
<1> QED  BY <1>6, <1>7

(* Where the messages stay, so does what they make of columns. *)
LEMMA SameHistory ==
  ASSUME HistoryTyped, seen' = seen, proto' = proto
  PROVE  /\ HistoryTyped'
         /\ \A m, n \in 1 .. Len(seen) : AfterOne(m)' = AfterOne(m) /\ AfterTwo(m, n)' = AfterTwo(m, n)
<1>1. HistoryTyped'
  BY DEF HistoryTyped
<1>2. ASSUME NEW m \in 1 .. Len(seen), NEW n \in 1 .. Len(seen)
      PROVE  AfterOne(m)' = AfterOne(m) /\ AfterTwo(m, n)' = AfterTwo(m, n)
  BY AfterStays DEF HistoryTyped
<1> QED  BY <1>1, <1>2

LEMMA SameEntry ==
  ASSUME HistoryTyped, EntryGiven, seen' = seen, proto' = proto, entry' = entry, decoded' => decoded
  PROVE  EntryGiven'
<1>1. Rec!Attributes' = Rec!Attributes
  BY DEF Rec!Attributes, Rec!AvpMap
<1>2. ASSUME NEW a, AttributeGiven(a)  PROVE  AttributeGiven(a)'
  BY <1>2 DEF AttributeGiven, Given, IsGiver, Rec!Giver, Rec!Givers, Rec!Header, Rec!NeverStored, Rec!S6AAVP
<1> QED  BY <1>1, <1>2 DEF EntryGiven

LEMMA OpenKeeps ==
  ASSUME HistoryTyped, EntryGiven, TableGiven, RecordsGiven, Rec!Open
  PROVE  TableGiven' /\ RecordsGiven'
<1>1. PICK body, key, id : body = Rec!Copied(entry) /\ key = seen[entry.msg].key /\ id = Len(seen)
  OBVIOUS
<1>2. entry.msg = id /\ decoded
  BY <1>1 DEF EntryGiven, Rec!Open
<1>3. /\ proto' = proto /\ seen' = seen /\ records' = records /\ key \notin DOMAIN table
      /\ decoded' = FALSE
  BY <1>1 DEF Rec!Open
<1>4. PICK i \in Pool :
        /\ \A k \in DOMAIN table : table[k].at # i
        /\ pool' = [pool EXCEPT ![i] = Rec!Processed(Rec!ResetSession(pool[i]), body)]
        /\ table' = [k \in DOMAIN table \cup {key} |->
                       IF k = key THEN [at |-> i, msgs |-> <<entry.msg>>] ELSE table[k]]
  <2>1. \E i \in Pool \ {table[k].at : k \in DOMAIN table} :
          /\ pool' = [pool EXCEPT ![i] = Rec!Processed(Rec!ResetSession(@), Rec!Copied(entry))]
          /\ table' = [k \in DOMAIN table \cup {seen[entry.msg].key} |->
                         IF k = seen[entry.msg].key THEN [at |-> i, msgs |-> <<entry.msg>>]
                         ELSE table[k]]
    BY DEF Rec!Open
  <2>2. PICK i \in Pool \ {table[k].at : k \in DOMAIN table} :
          /\ pool' = [pool EXCEPT ![i] = Rec!Processed(Rec!ResetSession(pool[i]), Rec!Copied(entry))]
          /\ table' = [k \in DOMAIN table \cup {seen[entry.msg].key} |->
                         IF k = seen[entry.msg].key THEN [at |-> i, msgs |-> <<entry.msg>>]
                         ELSE table[k]]
    BY <2>1
  <2>3. i \in Pool /\ \A k \in DOMAIN table : table[k].at # i
    BY <2>2, Zenon
  <2>4. pool' = [pool EXCEPT ![i] = Rec!Processed(Rec!ResetSession(pool[i]), body)]
    BY <1>1, <2>2
  <2>5. table' = [k \in DOMAIN table \cup {key} |->
                    IF k = key THEN [at |-> i, msgs |-> <<entry.msg>>] ELSE table[k]]
    BY <1>1, <2>2
  <2> QED  BY <2>3, <2>4, <2>5, Zenon
<1>5. id \in 1 .. Len(seen)
  BY <1>1, <1>2 DEF EntryGiven, HistoryTyped, Messages
<1>6. Rec!Processed(Rec!ResetSession(pool[i]), body) = AfterOne(id)
  <2>1. PICK session : session = Rec!ResetSession(pool[i])
    OBVIOUS
  <2>2. \A c \in Rec!Columns : session[c] = 0
    BY <2>1 DEF Rec!ResetSession
  <2>3. Rec!Processed(session, body) = [c \in Rec!Columns |-> ColumnAfter(session[c], id, c)]
    BY <1>1, <1>2, Processes
  <2> QED  BY <2>1, <2>2, <2>3 DEF AfterOne
<1>7. \A m \in 1 .. Len(seen) : AfterOne(m)' = AfterOne(m)
  BY <1>3, SameHistory
<1>8. DOMAIN pool = Pool
  BY DEF TableGiven
<1>9. ASSUME NEW k \in DOMAIN table
      PROVE  table'[k] = table[k] /\ table[k].at \in Pool /\ table'[k].at # i
             /\ \E m \in 1 .. Len(seen) : HalfOf(k, m)'
  <2>1. table'[k] = table[k] /\ table[k].at \in Pool /\ table[k].at # i
    BY <1>3, <1>4, <1>9 DEF TableGiven
  <2>2. pool'[table[k].at] = pool[table[k].at]
    BY <1>4, <1>8, <2>1
  <2>3. PICK m \in 1 .. Len(seen) : HalfOf(k, m)
    BY DEF TableGiven
  <2>4. HalfOf(k, m)'
    BY <1>3, <1>7, <2>1, <2>2, <2>3 DEF HalfOf
  <2> QED  BY <2>1, <2>4
<1>10. table'[key].at = i /\ HalfOf(key, id)'
  <2>1. table'[key] = [at |-> i, msgs |-> <<id>>]
    BY <1>2, <1>4
  <2>2. pool'[i] = AfterOne(id)
    BY <1>4, <1>6, <1>8
  <2> QED  BY <1>3, <1>5, <1>7, <2>1, <2>2 DEF HalfOf
<1>11. DOMAIN table' = DOMAIN table \cup {key} /\ table' = [k \in DOMAIN table' |-> table'[k]]
  BY <1>4
<1>12. pool' = [j \in Pool |-> pool'[j]]
  BY <1>4, <1>8
<1>13. \A k \in DOMAIN table' : table'[k].at \in Pool /\ \E m \in 1 .. Len(seen') : HalfOf(k, m)'
  <2>1. key \in DOMAIN table' => table'[key].at \in Pool /\ \E m \in 1 .. Len(seen') : HalfOf(key, m)'
    BY <1>3, <1>5, <1>10
  <2>2. \A k \in DOMAIN table : table'[k].at \in Pool /\ \E m \in 1 .. Len(seen') : HalfOf(k, m)'
    BY <1>3, <1>9
  <2> QED  BY <1>11, <2>1, <2>2
<1>14. \A j, k \in DOMAIN table' : table'[j].at = table'[k].at => j = k
  <2>1. \A j, k \in DOMAIN table : table'[j].at = table'[k].at => j = k
    BY <1>9 DEF TableGiven
  <2>2. \A k \in DOMAIN table : table'[k].at # table'[key].at
    BY <1>9, <1>10
  <2> QED  BY <1>11, <2>1, <2>2
<1>15. RecordsGiven'
  BY <1>3, SameHistory DEF RecordsGiven
<1> QED  BY <1>11, <1>12, <1>13, <1>14, <1>15 DEF TableGiven

LEMMA ReleaseKeeps ==
  ASSUME HistoryTyped, TableGiven, seen' = seen, proto' = proto, decoded' => decoded,
         NEW key \in DOMAIN table, Rec!Release(key)
  PROVE  TableGiven'
<1>1. PICK i : i = table[key].at
  OBVIOUS
<1>2. /\ pool' = [pool EXCEPT ![i] = Rec!ResetSession(pool[i])]
      /\ table' = [k \in DOMAIN table \ {key} |-> table[k]]
  BY <1>1 DEF Rec!Release
<1>3. DOMAIN pool = Pool
  BY DEF TableGiven
<1>4. \A m \in 1 .. Len(seen) : AfterOne(m)' = AfterOne(m)
  BY SameHistory
<1>5. DOMAIN table' = DOMAIN table \ {key} /\ table' = [k \in DOMAIN table' |-> table'[k]]
      /\ \A k \in DOMAIN table' : k \in DOMAIN table /\ k # key /\ table'[k] = table[k]
  BY <1>2
<1>6. ASSUME NEW k \in DOMAIN table'
      PROVE  table'[k].at \in Pool /\ \E m \in 1 .. Len(seen') : HalfOf(k, m)'
  <2>1. table'[k] = table[k] /\ table[k].at \in Pool /\ table[k].at # i
    BY <1>1, <1>5 DEF TableGiven
  <2>2. pool'[table[k].at] = pool[table[k].at]
    BY <1>2, <1>3, <2>1
  <2>3. PICK m \in 1 .. Len(seen) : HalfOf(k, m)
    BY <1>5 DEF TableGiven
  <2>4. HalfOf(k, m)'
    BY <1>4, <2>1, <2>2, <2>3 DEF HalfOf
  <2> QED  BY <2>1, <2>4
<1>7. pool' = [j \in Pool |-> pool'[j]]
  BY <1>2, <1>3
<1>8. \A j, k \in DOMAIN table' : table'[j].at = table'[k].at => j = k
  BY <1>5 DEF TableGiven
<1> QED  BY <1>5, <1>6, <1>7, <1>8 DEF TableGiven

LEMMA FlushKeeps ==
  ASSUME HistoryTyped, EntryGiven, TableGiven, RecordsGiven, Rec!Flush
  PROVE  TableGiven' /\ RecordsGiven'
<1>1. PICK body, key, id, i :
        /\ body = Rec!Copied(entry) /\ key = seen[entry.msg].key /\ id = Len(seen)
        /\ i = table[key].at
  OBVIOUS
<1>2. entry.msg = id /\ decoded
  BY <1>1 DEF EntryGiven, Rec!Flush
<1>3. PICK line : line = Rec!Processed(pool[i], body)
  OBVIOUS
<1>4. /\ key \in DOMAIN table /\ Rec!Release(key) /\ proto' = proto /\ seen' = seen
      /\ records' = records \cup {[msgs |-> Append(table[key].msgs, id), cols |-> line]}
      /\ decoded' = FALSE
  BY <1>1, <1>2, <1>3 DEF Rec!Flush
<1>5. id \in 1 .. Len(seen)
  BY <1>1, <1>2 DEF EntryGiven, HistoryTyped, Messages
<1>6. PICK m \in 1 .. Len(seen) : HalfOf(key, m)
  BY <1>4 DEF TableGiven
<1>7. m < id /\ table[key].msgs = <<m>> /\ pool[i] = AfterOne(m)
  BY <1>1, <1>2, <1>6 DEF HalfOf
<1>8. line = AfterTwo(m, id)
  <2>1. PICK session : session = pool[i]
    OBVIOUS
  <2>2. \A c \in Rec!Columns : session[c] = ColumnAfter(0, m, c)
    BY <1>7, <2>1 DEF AfterOne
  <2>3. line = [c \in Rec!Columns |-> ColumnAfter(session[c], id, c)]
    BY <1>1, <1>2, <1>3, <2>1, Processes
  <2> QED  BY <2>2, <2>3 DEF AfterTwo
<1>9. Append(<<m>>, id) = <<m, id>>
  <2>1. PICK s, t : s = Append(<<m>>, id) /\ t = <<m, id>>
    OBVIOUS
  <2>2. m \in Int /\ id \in Int
    BY <1>5 DEF HistoryTyped, Messages
  <2>3. s \in Seq(Int) /\ t \in Seq(Int) /\ Len(s) = 2 /\ Len(t) = 2
    BY <2>1, <2>2
  <2>4. s[1] = m /\ s[2] = id /\ t[1] = m /\ t[2] = id
    BY <2>1, <2>2
  <2>5. \A j \in 1 .. 2 : j = 1 \/ j = 2
    OBVIOUS
  <2>6. s = t
    BY <2>3, <2>4, <2>5
  <2> QED  BY <2>1, <2>6
<1>10. RecordsGiven'
  <2>1. \A k, n \in 1 .. Len(seen) : AfterTwo(k, n)' = AfterTwo(k, n)
    BY <1>4, SameHistory
  <2>2. ASSUME NEW rec \in records'
        PROVE  \E k, n \in 1 .. Len(seen) : k < n /\ rec = [msgs |-> <<k, n>>, cols |-> AfterTwo(k, n)]
    <3>1. CASE rec \in records
      BY <3>1 DEF RecordsGiven
    <3>2. CASE rec = [msgs |-> <<m, id>>, cols |-> AfterTwo(m, id)]
      BY <1>5, <1>7, <3>2
    <3> QED  BY <1>4, <1>7, <1>8, <1>9, <3>1, <3>2
  <2> QED  BY <1>4, <2>1, <2>2 DEF RecordsGiven
<1> QED  BY <1>4, <1>10, ReleaseKeeps

LEMMA RecordKeeps ==
  ASSUME RecordInv, [Rec!Next]_(Rec!vars)  PROVE  RecordInv'
<1>1. HistoryTyped /\ EntryGiven /\ TableGiven /\ RecordsGiven
  BY DEF RecordInv
<1>2. CASE Rec!NewPacket
  BY <1>1, <1>2, NewPacketKeeps, ArrivalKeeps DEF RecordInv
<1>3. CASE Rec!NextChunk
  BY <1>1, <1>3, NextChunkKeeps, ArrivalKeeps DEF RecordInv
<1>4. CASE Rec!Open
  <2>1. seen' = seen /\ proto' = proto /\ entry' = entry /\ (decoded' => decoded)
    BY <1>4 DEF Rec!Open
  <2> QED  BY <1>1, <1>4, <2>1, SameHistory, SameEntry, OpenKeeps DEF RecordInv
<1>5. CASE Rec!Flush
  <2>1. seen' = seen /\ proto' = proto /\ entry' = entry /\ (decoded' => decoded)
    BY <1>5 DEF Rec!Flush
  <2> QED  BY <1>1, <1>5, <2>1, SameHistory, SameEntry, FlushKeeps DEF RecordInv
<1>6. CASE Rec!Cleanup
  <2>1. PICK key \in DOMAIN table : Rec!Release(key)
    BY <1>6 DEF Rec!Cleanup
  <2>2. /\ seen' = seen /\ proto' = proto /\ entry' = entry /\ (decoded' => decoded)
        /\ records' = records
    BY <1>6 DEF Rec!Cleanup
  <2>3. RecordsGiven'
    BY <1>1, <2>2, SameHistory DEF RecordsGiven
  <2> QED  BY <1>1, <2>1, <2>2, <2>3, SameHistory, SameEntry, ReleaseKeeps DEF RecordInv
<1>7. CASE UNCHANGED Rec!vars
  <2>1. /\ seen' = seen /\ proto' = proto /\ entry' = entry /\ (decoded' => decoded)
        /\ decoded' = decoded /\ pool' = pool /\ table' = table /\ records' = records
    BY <1>7 DEF Rec!vars
  <2>2. RecordsGiven'
    BY <1>1, <2>1, SameHistory DEF RecordsGiven
  <2>3. \A m \in 1 .. Len(seen) : AfterOne(m)' = AfterOne(m)
    BY <1>1, <2>1, SameHistory
  <2>4. ASSUME NEW k, NEW m \in 1 .. Len(seen), HalfOf(k, m)  PROVE  HalfOf(k, m)'
    BY <2>1, <2>3, <2>4 DEF HalfOf
  <2>5. TableGiven'
    BY <1>1, <2>1, <2>4 DEF TableGiven
  <2> QED  BY <1>1, <2>1, <2>2, <2>5, SameHistory, SameEntry DEF RecordInv
<1> QED  BY <1>2, <1>3, <1>4, <1>5, <1>6, <1>7 DEF Rec!Next

(* For any number of identifiers, pool entries and messages, of both       *)
(* protocols: every column of a record has what the message it belongs to  *)
(* gave, or the default.  Nothing an earlier user of the pool entry or of  *)
(* the MPacket has left gets into a record, but for attributes of an       *)
(* earlier chunk of the same S6a packet, as the reference says.            *)
THEOREM ColumnsAlways == Rec!Spec => []ColumnsOfPair
<1>1. ASSUME Rec!Init  PROVE  RecordInv
  <2>1. /\ proto \in {"gx", "s6a"} /\ seen = <<>> /\ ~decoded /\ records = {}
        /\ entry = [msg |-> 0, attrs |-> [a \in Rec!Attributes |-> 0]]
        /\ pool = [i \in Pool |-> [c \in Rec!Columns |-> 0]] /\ table = <<>>
    BY <1>1 DEF Rec!Init
  <2>2. HistoryTyped
    BY <2>1 DEF HistoryTyped, Messages
  <2>3. EntryGiven
    BY <2>1 DEF EntryGiven
  <2>4. pool = [i \in Pool |-> pool[i]]
    BY <2>1
  <2>5. DOMAIN table = {} /\ table = [k \in DOMAIN table |-> table[k]]
    BY <2>1
  <2>6. TableGiven
    BY <2>4, <2>5 DEF TableGiven
  <2> QED  BY <2>1, <2>2, <2>3, <2>6 DEF RecordInv, RecordsGiven
<1>2. RecordInv /\ [Rec!Next]_(Rec!vars) => RecordInv'
  BY RecordKeeps
<1>3. ASSUME RecordInv  PROVE  ColumnsOfPair
  <2> SUFFICES ASSUME NEW rec \in records, NEW c \in Rec!Columns
               PROVE  rec.cols[c] = Rec!Expected(rec, c)
    BY DEF ColumnsOfPair, Rec!ColumnsOfPair
  <2>1. HistoryTyped /\ RecordsGiven
    BY <1>3 DEF RecordInv
  <2>2. PICK m \in 1 .. Len(seen), n \in 1 .. Len(seen) :
          m < n /\ rec = [msgs |-> <<m, n>>, cols |-> AfterTwo(m, n)]
    BY <2>1 DEF RecordsGiven
  <2>3. rec.msgs = <<m, n>> /\ rec.cols[c] = ColumnAfter(ColumnAfter(0, m, c), n, c)
    BY <2>2 DEF AfterTwo
  <2> QED  BY <2>1, <2>2, <2>3, ColumnsExpected DEF HistoryTyped
<1> QED  BY <1>1, <1>2, <1>3, PTL DEF Rec!Spec
=============================================================================
