------------------------------- MODULE Stats -------------------------------
(***************************************************************************)
(* The statistics that are printed and logged: two threads, ProbeStats and *)
(* ProbeStatsLog, look every so many seconds at the numbers of messages in *)
(* the queues and of open sessions, which the routers and the session      *)
(* managers go on changing.  The two do not meet: a behaviour has one of    *)
(* them.  One slot and one application stand for all.                      *)
(* How the running time is written is in Bytes, the rates are in Monitor.  *)
(***************************************************************************)
EXTENDS Naturals

CONSTANTS
  Managers,     \* number of session managers
  Queues,       \* queues of each: interfaces times routers
  Frequencies,  \* values of the two settings, 0 among them
  MaxStored,    \* bound: messages in a queue
  MaxOpen       \* bound: sessions open at a manager, below the pool's size

VARIABLES
  thread,    \* which of the two: "print" or "log"
  setting,   \* PRINT_STATS and the thread's ..._STATS_FREQ_SEC: [on, every]
  loopCnt,   \* printloopCnt
  queue,     \* gx_msg_cnt_sm_i_r_t of the slot
  open,      \* the size of each manager's gxSessionMap
  active,    \* Stats::activeGxSessions
  doing,     \* what each manager is in: "nothing", "flush" or "cleanup"
  reader     \* the thread in its table: [at, sm, q, cnt, shown, overtaken];
             \* overtaken is history: a number has changed since the row began

vars == <<thread, setting, loopCnt, queue, open, active, doing, reader>>

SomeOfEach == Managers \in Nat \ {0} /\ Queues \in Nat \ {0} /\ Frequencies \subseteq Nat

Manager == 0 .. Managers - 1
Queue == 0 .. Queues - 1

(* The sum of the first n of a table. *)
Total(f, n) ==
  LET sum[k \in 0 .. n] == IF k = 0 THEN 0 ELSE sum[k - 1] + f[k - 1]
  IN  sum[n]

Asleep == [at |-> "asleep", sm |-> 0, q |-> 0, cnt |-> 0, shown |-> 0, overtaken |-> FALSE]

Init ==
  /\ thread \in {"print", "log"} /\ loopCnt = 0
  /\ setting \in [on : {TRUE}, every : Frequencies]
  /\ queue = [sm \in Manager |-> [q \in Queue |-> 0]]
  /\ open = [sm \in Manager |-> 0] /\ active = open
  /\ doing = [sm \in Manager |-> "nothing"]
  /\ reader = Asleep

-----------------------------------------------------------------------------
(* A change while a table is made. *)
Overtake == reader' = [reader EXCEPT !.overtaken = reader.at # "asleep"]

(* A router stores a message, a session manager takes all of a queue.      *)
Exchange(sm, q) ==
  /\ \/ queue[sm][q] < MaxStored /\ queue' = [queue EXCEPT ![sm][q] = @ + 1]
     \/ queue[sm][q] > 0 /\ queue' = [queue EXCEPT ![sm][q] = 0]
  /\ Overtake
  /\ UNCHANGED <<thread, setting, loopCnt, open, active, doing>>

(* getGxSession counts the sessions, with the one just opened, before the  *)
(* second message of one releases it.                                      *)
Lookup(sm) ==
  /\ doing[sm] = "nothing"
  /\ \/ /\ open[sm] < MaxOpen /\ open' = [open EXCEPT ![sm] = @ + 1]
        /\ UNCHANGED doing
     \/ /\ open[sm] > 0 /\ UNCHANGED open
        /\ doing' = [doing EXCEPT ![sm] = "flush"]
  /\ active' = [active EXCEPT ![sm] = open'[sm]]
  /\ Overtake
  /\ UNCHANGED <<thread, setting, loopCnt, queue>>

Released(sm) ==
  /\ open[sm] > 0 /\ open' = [open EXCEPT ![sm] = @ - 1]
  /\ Overtake
  /\ UNCHANGED <<thread, setting, loopCnt, queue, active>>

Flush(sm) ==
  doing[sm] = "flush" /\ Released(sm) /\ doing' = [doing EXCEPT ![sm] = "nothing"]

(* timeOutCleanGxGySession counts when it has released what it found.      *)
CleanOne(sm) ==
  doing[sm] # "flush" /\ Released(sm) /\ doing' = [doing EXCEPT ![sm] = "cleanup"]

CleanEnd(sm) ==
  /\ doing[sm] # "flush" /\ doing' = [doing EXCEPT ![sm] = "nothing"]
  /\ active' = [active EXCEPT ![sm] = open[sm]]
  /\ Overtake
  /\ UNCHANGED <<thread, setting, loopCnt, queue, open>>

(* The operator has the settings read again. *)
Reload ==
  /\ setting' \in [on : BOOLEAN, every : Frequencies]
  /\ UNCHANGED <<thread, loopCnt, queue, open, active, doing, reader>>

-----------------------------------------------------------------------------
(* A second of the thread: the printer counts it only while printing is on *)
(* and its frequency is not 0, the logger always, every one with 0.        *)
SleptSecond ==
  LET due == loopCnt + 1 >= setting.every
  IN  /\ reader.at = "asleep"
      /\ thread = "print" => setting.on /\ setting.every > 0
      /\ loopCnt' = IF due THEN 0 ELSE loopCnt + 1
      /\ reader' = [reader EXCEPT !.at = IF due THEN "sum" ELSE @]
      /\ UNCHANGED <<thread, setting, queue, open, active, doing>>

Go(r) == reader' = r /\ UNCHANGED <<thread, setting, loopCnt, queue, open, active, doing>>

(* printGxSessionStoreStats: a row for each manager, with its sessions and *)
(* the messages of its queues, summed up one by one in t_cnt.              *)
SumQueue ==
  /\ thread = "print" /\ reader.at = "sum"
  /\ Go([reader EXCEPT !.cnt = @ + queue[reader.sm][reader.q],
                       !.shown = IF reader.q = 0 THEN active[reader.sm] ELSE @,
                       !.q = (@ + 1) % Queues,
                       !.at = IF reader.q = Queues - 1 THEN "shown" ELSE @])

(* Faulty variant: t_cnt goes on to the next manager's row.                *)
NextRowSummingOn(r) == [r EXCEPT !.sm = @ + 1, !.at = "sum", !.overtaken = FALSE]

NextRow(r) == [r EXCEPT !.sm = @ + 1, !.at = "sum", !.cnt = 0, !.overtaken = FALSE]

RowDone ==
  /\ thread = "print" /\ reader.at = "shown"
  /\ Go(IF reader.sm = Managers - 1 THEN Asleep ELSE NextRow(reader))

(* printSessionCleanUpStats: one line with the sessions of all managers.   *)
SumActive ==
  /\ thread = "log" /\ reader.at = "sum"
  /\ Go([reader EXCEPT !.shown = @ + active[reader.sm],
                       !.sm = (@ + 1) % Managers,
                       !.at = IF reader.sm = Managers - 1 THEN "shown" ELSE @])

LineDone == thread = "log" /\ reader.at = "shown" /\ Go(Asleep)

Next ==
  \/ \E sm \in Manager :
       \/ \E q \in Queue : Exchange(sm, q)
       \/ Lookup(sm) \/ Flush(sm) \/ CleanOne(sm) \/ CleanEnd(sm)
  \/ Reload \/ SleptSecond
  \/ SumQueue \/ RowDone \/ SumActive \/ LineDone

Spec == Init /\ [][Next]_vars

-----------------------------------------------------------------------------
(* What a row or a line shows is true if nothing has changed since it was  *)
(* begun: the messages of the row's own manager and no other's, and of the *)
(* sessions the number, or one too many for each manager that has flushed  *)
(* one since; more only in the middle of a cleanup.                        *)
TablesHold ==
  reader.at = "shown" /\ ~reader.overtaken =>
    IF thread = "print"
    THEN LET size == open[reader.sm]
         IN  /\ reader.cnt = Total(queue[reader.sm], Queues)
             /\ reader.shown >= size
             /\ reader.shown <= size + 1 \/ doing[reader.sm] = "cleanup"
    ELSE LET size == Total(open, Managers)
         IN  /\ reader.shown >= size
             /\ reader.shown <= size + Managers \/ \E sm \in Manager : doing[sm] = "cleanup"
=============================================================================
