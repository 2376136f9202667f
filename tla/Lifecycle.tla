----------------------------- MODULE Lifecycle -----------------------------
(***************************************************************************)
(* The main thread of the probe: it creates the threads of the pipeline    *)
(* one after the other and waits for each, lets the packets in, tells the  *)
(* listeners when the day has changed, and on a signal stops the printing  *)
(* of statistics and exits.  Around it: the signal handler, the operator's *)
(* commands, the statistics thread and the Ethernet listeners with their   *)
(* packet counters, which are loaded and stored without a lock.            *)
(*                                                                         *)
(* One thread of each kind stands for all of its kind, except listeners.   *)
(***************************************************************************)
EXTENDS Integers, Sequences

CONSTANTS
  Interfaces,   \* NO_OF_INTERFACES, all of them Ethernet
  MaxDays,      \* bound: changes of the day
  MaxCommands   \* bound: commands of the operator

ASSUME LifecycleAssumption ==
  /\ Interfaces \in Nat \ {0}
  /\ MaxDays \in Nat /\ MaxCommands \in Nat

Interface == 0 .. Interfaces - 1

(* The order of creation. *)
Workers == <<"timer", "manager", "flusher", "writer", "router", "listener">>
Worker == {Workers[n] : n \in DOMAIN Workers}

VARIABLES
  main,         \* the main thread: pc, and how many workers are up or days set
  worker,       \* each worker: "off", "started" or "ready", isRepositoryInitialized
  running,      \* IPGlobal::PROBE_RUNNING_STATUS
  processing,   \* IPGlobal::PACKET_PROCESSING
  printStats,   \* IPGlobal::PRINT_STATS
  statsRunning, \* IPGlobal::PROBE_STATS_RUNNING_STATUS
  stats,        \* the statistics thread: "none", "running" or "ended"
  day,          \* IPGlobal::CURRENT_DAY
  dayChange,    \* PKT_LISTENER_DAYCHANGE_INDICATION
  rx,           \* n_rx_pkts_<i>: the days whose packets the counter holds
  lst,          \* each listener: between two packets, or with the counter loaded
  told,         \* history: the day changes indicated to each listener
  pushed,       \* history: a packet has been put into the pipeline
  asked,        \* history: a signal came that the program must obey
  reloaded,     \* history: statistics have been switched on by a reload
  commands      \* history: commands given

settings == <<running, processing, printStats, statsRunning>>
counters == <<dayChange, rx, lst, told>>
history == <<pushed, asked, reloaded, commands>>
vars == <<main, worker, settings, stats, day, counters, history>>

Idle == [pc |-> "idle", loaded |-> {}]

Init ==
  /\ main = [pc |-> "boot", n |-> 1, lastday |-> 0]
  /\ worker = [w \in Worker |-> "off"]
  /\ running = TRUE /\ processing = FALSE
  /\ printStats \in BOOLEAN
  /\ statsRunning = TRUE
  /\ stats = "none"
  /\ day = 0
  /\ dayChange = [i \in Interface |-> FALSE]
  /\ rx = [i \in Interface |-> {}]
  /\ lst = [i \in Interface |-> Idle]
  /\ told = [i \in Interface |-> 0]
  /\ pushed = FALSE /\ asked = FALSE /\ reloaded = FALSE /\ commands = 0

-----------------------------------------------------------------------------
(* The main thread. *)

(* main: the signal handler has been installed before. *)
Boot ==
  /\ main.pc = "boot"
  /\ running' = TRUE
  /\ main' = [main EXCEPT !.pc = "create"]
  /\ UNCHANGED <<worker, processing, printStats, statsRunning, stats, day, counters, history>>

(* Before the routers are created, packets are kept out. *)
Create ==
  /\ main.pc = "create"
  /\ worker' = [worker EXCEPT ![Workers[main.n]] = "started"]
  /\ processing' = IF Workers[main.n] = "router" THEN FALSE ELSE processing
  /\ main' = [main EXCEPT !.pc = "wait"]
  /\ UNCHANGED <<running, printStats, statsRunning, stats, day, counters, history>>

(* Faulty variant: the main thread does not wait for the worker.           *)
AwaitNothing ==
  /\ main.pc = "wait"
  /\ main' = IF main.n < Len(Workers) THEN [main EXCEPT !.pc = "create", !.n = @ + 1]
             ELSE [main EXCEPT !.pc = "stats"]
  /\ UNCHANGED <<worker, settings, stats, day, counters, history>>

Await ==
  /\ main.pc = "wait"
  /\ worker[Workers[main.n]] = "ready"
  /\ main' = IF main.n < Len(Workers) THEN [main EXCEPT !.pc = "create", !.n = @ + 1]
             ELSE [main EXCEPT !.pc = "stats"]
  /\ UNCHANGED <<worker, settings, stats, day, counters, history>>

(* Faulty variant: the thread is only created while the probe is running.  *)
CreateStatsIfRunning ==
  /\ main.pc = "stats"
  /\ stats' = IF printStats /\ running THEN "running" ELSE stats
  /\ main' = [main EXCEPT !.pc = "lull"]
  /\ UNCHANGED <<worker, settings, day, counters, history>>

CreateStats ==
  /\ main.pc = "stats"
  /\ stats' = IF printStats THEN "running" ELSE stats
  /\ main' = [main EXCEPT !.pc = "lull"]
  /\ UNCHANGED <<worker, settings, day, counters, history>>

(* After twenty seconds the packets are let in, whatever has been said in  *)
(* the meantime.                                                           *)
LetIn ==
  /\ main.pc = "lull"
  /\ processing' = TRUE
  /\ main' = [main EXCEPT !.pc = "loop", !.lastday = day]
  /\ UNCHANGED <<worker, running, printStats, statsRunning, stats, day, counters, history>>

(* The loop's condition, before it sleeps. *)
GoOn ==
  /\ main.pc = "loop"
  /\ running
  /\ main' = [main EXCEPT !.pc = "pass"]
  /\ UNCHANGED <<worker, settings, stats, day, counters, history>>

(* The day is looked at in one pass of thirteen only. *)
SameDay ==
  /\ main.pc = "pass"
  /\ main' = [main EXCEPT !.pc = "loop"]
  /\ UNCHANGED <<worker, settings, stats, day, counters, history>>

NewDay ==
  /\ main.pc = "pass"
  /\ main.lastday # day
  /\ main' = [main EXCEPT !.pc = "tell", !.lastday = day, !.n = 0]
  /\ UNCHANGED <<worker, settings, stats, day, counters, history>>

Tell ==
  /\ main.pc = "tell"
  /\ dayChange' = [dayChange EXCEPT ![main.n] = TRUE]
  /\ told' = [told EXCEPT ![main.n] = @ + 1]
  /\ main' = IF main.n + 1 < Interfaces THEN [main EXCEPT !.n = @ + 1] ELSE [main EXCEPT !.pc = "loop"]
  /\ UNCHANGED <<worker, settings, stats, day, rx, lst, history>>

(* Faulty variant: the statistics thread is joined but not told to end.    *)
LeaveUntold ==
  /\ main.pc = "loop"
  /\ ~running
  /\ main' = [main EXCEPT !.pc = IF printStats THEN "join" ELSE "exited"]
  /\ UNCHANGED <<worker, settings, stats, day, counters, history>>

(* Out of the loop: the statistics thread is told to end if statistics are *)
(* printed now.                                                            *)
Leave ==
  /\ main.pc = "loop"
  /\ ~running
  /\ main' = [main EXCEPT !.pc = IF printStats THEN "join" ELSE "exited"]
  /\ statsRunning' = IF printStats THEN FALSE ELSE statsRunning
  /\ UNCHANGED <<worker, running, processing, printStats, stats, day, counters, history>>

(* pthread_join and delete, undefined if the thread was never created. *)
Join ==
  /\ main.pc = "join"
  /\ stats # "running"
  /\ main' = [main EXCEPT !.pc = IF stats = "ended" THEN "exited" ELSE "undefined"]
  /\ UNCHANGED <<worker, settings, stats, day, counters, history>>

Main == Boot \/ Create \/ Await \/ CreateStats \/ LetIn \/ GoOn \/ SameDay \/ NewDay \/ Tell \/ Leave \/ Join

-----------------------------------------------------------------------------
(* The other threads. *)

Alive == main.pc \notin {"exited", "undefined"}

Ready(w) ==
  /\ Alive
  /\ worker[w] = "started"
  /\ worker' = [worker EXCEPT ![w] = "ready"]
  /\ UNCHANGED <<main, settings, stats, day, counters, history>>

StatsEnd ==
  /\ Alive
  /\ stats = "running" /\ ~statsRunning
  /\ stats' = "ended"
  /\ UNCHANGED <<main, worker, settings, day, counters, history>>

(* Faulty variant: the indication is taken back without a reset.           *)
AfterResetForgetting(i) == rx

(* resetCounters: the counters of all interfaces. *)
AfterReset(i) == IF dayChange[i] THEN [j \in Interface |-> {}] ELSE rx

(* packetReaderCallback and addCounters, as far as loading the counter. *)
Packet(i) ==
  /\ Alive
  /\ worker["listener"] # "off"
  /\ lst[i] = Idle
  /\ rx' = AfterReset(i)
  /\ dayChange' = [dayChange EXCEPT ![i] = FALSE]
  /\ lst' = [lst EXCEPT ![i] = [pc |-> "count", loaded |-> rx'[i]]]
  /\ UNCHANGED <<main, worker, settings, stats, day, told, history>>

(* The counter is stored, and the packet goes into the pipeline or not. *)
Count(i) ==
  /\ Alive
  /\ lst[i].pc = "count"
  /\ rx' = [rx EXCEPT ![i] = lst[i].loaded \cup {told[i]}]
  /\ lst' = [lst EXCEPT ![i] = Idle]
  /\ pushed' = (pushed \/ processing)
  /\ UNCHANGED <<main, worker, settings, stats, day, dayChange, told, asked, reloaded, commands>>

-----------------------------------------------------------------------------
(* What comes from outside. *)

(* sig_handler: a signal before main sets PROBE_RUNNING_STATUS is lost. *)
Signal ==
  /\ Alive
  /\ running' = FALSE /\ processing' = FALSE
  /\ asked' = (asked \/ main.pc # "boot")
  /\ UNCHANGED <<main, worker, printStats, statsRunning, stats, day, counters, pushed, reloaded, commands>>

(* AdminPortReader::run and refreshConfig, once its thread is there. *)
Command ==
  /\ main.pc \in {"stats", "lull", "loop", "pass", "tell", "join"}
  /\ commands < MaxCommands
  /\ commands' = commands + 1
  /\ \/ /\ processing' \in BOOLEAN
        /\ UNCHANGED <<printStats, reloaded>>
     \/ /\ processing' \in BOOLEAN /\ printStats' \in BOOLEAN
        /\ reloaded' = (reloaded \/ (printStats' /\ ~printStats))
  /\ UNCHANGED <<main, worker, running, statsRunning, stats, day, counters, pushed, asked>>

Midnight ==
  /\ Alive
  /\ day < MaxDays
  /\ worker["timer"] = "ready"
  /\ day' = day + 1
  /\ UNCHANGED <<main, worker, settings, stats, counters, history>>

Next ==
  \/ Main
  \/ \E w \in Worker : Ready(w)
  \/ StatsEnd
  \/ \E i \in Interface : Packet(i) \/ Count(i)
  \/ Signal \/ Command \/ Midnight

Spec == Init /\ [][Next]_vars

(* The threads of the program run. *)
FairSpec ==
  Spec /\ WF_vars(Main) /\ WF_vars(StatsEnd) /\ \A w \in Worker : WF_vars(Ready(w))

-----------------------------------------------------------------------------
(* Types of the variables. *)
TypeOK ==
  /\ worker \in [Worker -> {"off", "started", "ready"}]
  /\ running \in BOOLEAN /\ processing \in BOOLEAN /\ printStats \in BOOLEAN
  /\ statsRunning \in BOOLEAN
  /\ stats \in {"none", "running", "ended"}
  /\ day \in 0 .. MaxDays /\ main.lastday \in 0 .. day
  /\ told \in [Interface -> 0 .. day]
  /\ dayChange \in [Interface -> BOOLEAN]
  /\ rx \in [Interface -> SUBSET (0 .. day)]
  /\ lst \in [Interface -> [pc : {"idle", "count"}, loaded : SUBSET (0 .. day)]]

(* The first packet put into the pipeline finds every thread behind it at  *)
(* work, whatever the operator resumes or reloads during the start.        *)
ReadyBeforeTraffic ==
  pushed => \A w \in Worker \ {"listener"} : worker[w] = "ready"

(* The shutdown joins the statistics thread only if it has been created,   *)
(* unless a reload has switched statistics on.                             *)
JoinDefined == main.pc = "undefined" => reloaded

(* Once a listener has taken note of a day change, its counters hold no    *)
(* packet of the days before, whichever interface made the reset.          *)
TodayOnly ==
  \A i \in Interface : ~dayChange[i] => rx[i] \subseteq {told[i]}

(* A signal ends the program, in whatever state it is received. *)
StopsWhenAsked == asked ~> ~Alive
=============================================================================
