-------------------------------- MODULE Log --------------------------------
(***************************************************************************)
(* The log of the probe (utility/log): any thread logs a line under the    *)
(* mutex of the log, which puts it into a queue with a mutex and a         *)
(* condition of its own; one thread takes the lines out and writes them.   *)
(* The main thread opens the log before it starts the others and ends the  *)
(* program two seconds after its last line (SpectaProbe.cpp), or as soon   *)
(* as the next signal to end it comes (Main.cpp).                          *)
(***************************************************************************)
EXTENDS Integers, Sequences, SequencesExt

CONSTANTS
    Workers,    \* the threads that log, besides the main thread
    LogLevels,  \* what LOG_LEVEL may be
    LineLevels, \* levels of lines
    MaxLines,   \* bound: lines a thread logs
    MaxClock    \* bound: seconds

Main    == "main"
Flusher == "flusher"
NoOne   == "none"
Callers == Workers \cup {Main}
Lines   == [from : Callers, no : 1..MaxLines, stamp : 0..MaxClock]

ASSUME LogAssumption ==
    /\ Main \notin Workers /\ Flusher \notin Workers /\ NoOne \notin Workers
    /\ LogLevels \subseteq Nat /\ LineLevels \subseteq Nat \ {0}
    /\ MaxLines \in Nat \ {0} /\ MaxClock \in Nat

VARIABLES
    stage,    \* where the main thread is
    pc,       \* where each thread is
    mutex,    \* Log::_mutex: its owner, or no one
    qlock,    \* SafeQueue::_mutex
    asleep,   \* the flush thread waits for the condition of the queue
    stream,   \* Log::_stream is open
    level,    \* Log::_level
    queue,    \* SafeQueue::_q
    text,     \* the line each thread is busy with
    asked,    \* what a caller's call was made with: its level, the level of the log
    logged,   \* number of calls of each caller
    clock,    \* the time of day, in seconds
    due,      \* history: how many lines were in the queue's history a second ago
    asleepAt, \* when the main thread called sleep(2)
    pushed,   \* history: lines that went into the queue
    handled   \* history: lines the flush thread was done with

vars == <<stage, pc, mutex, qlock, asleep, stream, level, queue, text, asked, logged,
          clock, due, asleepAt, pushed, handled>>

callerVars  == <<text, asked, logged>>
mainVars    == <<stage, stream, level, clock, due, asleepAt>>

NoLine == [from |-> Main, no |-> 1, stamp |-> 0]

TypeOK ==
    /\ stage \in {"open", "level", "running", "last", "sleeping", "exited", "cutShort"}
    /\ pc \in [Callers \cup {Flusher} ->
                 {"idle", "lock", "test", "lockQueue", "push", "unlock",
                  "pop", "check", "wait", "write"}]
    /\ mutex \in Callers \cup {Flusher, NoOne} /\ qlock \in Callers \cup {Flusher, NoOne}
    /\ asleep \in BOOLEAN /\ stream \in BOOLEAN /\ level \in Nat
    /\ queue \in Seq(Lines) /\ pushed \in Seq(Lines) /\ handled \in Seq(Lines)
    /\ text \in [Callers \cup {Flusher} -> Lines]
    /\ asked \in [Callers -> [line : Nat, log : Nat]]
    /\ logged \in [Callers -> 0..MaxLines]
    /\ clock \in 0..MaxClock /\ due \in Nat /\ asleepAt \in 0..MaxClock

Init ==
    /\ stage = "open"
    /\ pc = [t \in Callers \cup {Flusher} |-> IF t = Flusher THEN "pop" ELSE "idle"]
    /\ mutex = NoOne /\ qlock = NoOne
    /\ asleep = FALSE /\ stream = FALSE /\ level = 4
    /\ queue = << >> /\ pushed = << >> /\ handled = << >>
    /\ text = [t \in Callers \cup {Flusher} |-> NoLine]
    /\ asked = [c \in Callers |-> [line |-> 0, log |-> 0]]
    /\ logged = [c \in Callers |-> 0]
    /\ clock = 0 /\ due = 0 /\ asleepAt = 0

-----------------------------------------------------------------------------
(* The main thread opens the log and sets its level before it starts any  *)
(* other thread but the flush thread, which sleeps: there is nobody to     *)
(* meet in the mutex, so each is a step. An open that fails leaves the     *)
(* stream NULL and unlocks a mutex that nobody holds once more.            *)
Open ==
    /\ stage = "open"
    /\ stage' = "level"
    /\ stream' \in BOOLEAN
    /\ UNCHANGED <<pc, mutex, qlock, asleep, level, queue, callerVars, clock, due, asleepAt, pushed, handled>>

SetLevel ==
    /\ stage = "level"
    /\ stage' = "running"
    /\ level' \in LogLevels
    /\ UNCHANGED <<pc, mutex, qlock, asleep, stream, queue, callerVars, clock, due, asleepAt, pushed, handled>>

(* "Shutdown Completed." is the main thread's last line. *)
LastLine ==
    /\ stage = "running" /\ pc[Main] = "idle" /\ logged[Main] < MaxLines
    /\ stage' = "last"
    /\ UNCHANGED <<pc, mutex, qlock, asleep, stream, level, queue, callerVars, clock, due, asleepAt, pushed, handled>>

Sleep ==
    /\ stage = "last" /\ pc[Main] = "idle" /\ logged[Main] = MaxLines
    /\ stage' = "sleeping"
    /\ asleepAt' = clock
    /\ UNCHANGED <<pc, mutex, qlock, asleep, stream, level, queue, callerVars, clock, due, pushed, handled>>

(* Faulty variant: the program ends without the sleep. *)
SleepOverAtOnce == clock >= asleepAt

(* The time is up: exit() ends all threads where they are. *)
SleepOver == clock >= asleepAt + 2

Exit ==
    /\ stage = "sleeping" /\ SleepOver
    /\ stage' = "exited"
    /\ UNCHANGED <<pc, mutex, qlock, asleep, stream, level, queue, callerVars, clock, due, asleepAt, pushed, handled>>

(* One more SIGTERM or SIGINT, handled on the main thread: the handler     *)
(* sets what is set already, sleep() returns early and exit() follows.     *)
CutShort ==
    /\ stage = "sleeping"
    /\ stage' = "cutShort"
    /\ UNCHANGED <<pc, mutex, qlock, asleep, stream, level, queue, callerVars, clock, due, asleepAt, pushed, handled>>

-----------------------------------------------------------------------------
(* Log::operator() of any thread. *)

(* The cascade test: levels are powers of two, so the mask test is that of *)
(* one bit.                                                                *)
Passes(line, log) == line >= log \/ (log \div line) % 2 = 1

MayCall(c) ==
    \/ c = Main /\ (stage = "last" \/ (stage = "running" /\ logged[c] < MaxLines - 1))
    \/ c # Main /\ stage \in {"running", "last", "sleeping"}

(* A call reads the level of the log without its mutex. *)
Call(c) ==
    /\ MayCall(c) /\ pc[c] = "idle" /\ logged[c] < MaxLines
    /\ \E l \in LineLevels : asked' = [asked EXCEPT ![c] = [line |-> l, log |-> level]]
    /\ logged' = [logged EXCEPT ![c] = IF stage = "last" /\ c = Main THEN MaxLines ELSE @ + 1]
    /\ pc' = [pc EXCEPT ![c] = "lock"]
    /\ UNCHANGED <<mutex, qlock, asleep, queue, text, mainVars, pushed, handled>>

(* Faulty variant: the lock is not waited for. *)
LockMutexBarging(c) ==
    /\ pc[c] = "lock"
    /\ mutex' = c
    /\ pc' = [pc EXCEPT ![c] = "test"]
    /\ UNCHANGED <<qlock, asleep, queue, callerVars, mainVars, pushed, handled>>

LockMutex(c) ==
    /\ pc[c] = "lock" /\ mutex = NoOne
    /\ mutex' = c
    /\ pc' = [pc EXCEPT ![c] = "test"]
    /\ UNCHANGED <<qlock, asleep, queue, callerVars, mainVars, pushed, handled>>

(* No stream, or a level that does not pass: nothing happens. *)
Reject(c) ==
    /\ pc[c] = "test"
    /\ ~(stream /\ Passes(asked[c].line, asked[c].log))
    /\ pc' = [pc EXCEPT ![c] = "unlock"]
    /\ UNCHANGED <<mutex, qlock, asleep, queue, callerVars, mainVars, pushed, handled>>

(* header(): the line gets its time stamp. *)
Header(c) ==
    /\ pc[c] = "test"
    /\ stream /\ Passes(asked[c].line, asked[c].log)
    /\ text' = [text EXCEPT ![c] = [from |-> c, no |-> logged[c], stamp |-> clock]]
    /\ pc' = [pc EXCEPT ![c] = "lockQueue"]
    /\ UNCHANGED <<mutex, qlock, asleep, queue, asked, logged, mainVars, pushed, handled>>

LockQueue(c) ==
    /\ pc[c] = "lockQueue" /\ qlock = NoOne
    /\ qlock' = c
    /\ pc' = [pc EXCEPT ![c] = "push"]
    /\ UNCHANGED <<mutex, asleep, queue, callerVars, mainVars, pushed, handled>>

(* Faulty variants: the flush thread is not woken; the line overtakes the others. *)
PushSilently(c) ==
    /\ pc[c] = "push"
    /\ queue' = Append(queue, text[c])
    /\ pushed' = Append(pushed, text[c])
    /\ qlock' = NoOne
    /\ pc' = [pc EXCEPT ![c] = "unlock"]
    /\ UNCHANGED <<mutex, asleep, callerVars, mainVars, handled>>

PushFront(c) ==
    /\ pc[c] = "push"
    /\ queue' = <<text[c]>> \o queue
    /\ pushed' = Append(pushed, text[c])
    /\ asleep' = FALSE
    /\ qlock' = NoOne
    /\ pc' = [pc EXCEPT ![c] = "unlock"]
    /\ UNCHANGED <<mutex, callerVars, mainVars, handled>>

(* push_back, broadcast, and the unlocking of the queue. *)
Push(c) ==
    /\ pc[c] = "push"
    /\ queue' = Append(queue, text[c])
    /\ pushed' = Append(pushed, text[c])
    /\ asleep' = FALSE
    /\ qlock' = NoOne
    /\ pc' = [pc EXCEPT ![c] = "unlock"]
    /\ UNCHANGED <<mutex, callerVars, mainVars, handled>>

Unlock(c) ==
    /\ pc[c] = "unlock"
    /\ mutex' = NoOne
    /\ pc' = [pc EXCEPT ![c] = "idle"]
    /\ UNCHANGED <<qlock, asleep, queue, callerVars, mainVars, pushed, handled>>

-----------------------------------------------------------------------------
(* Log::_flush: pop() of the queue, then the line under the log's mutex. *)
flusherVars == <<callerVars, mainVars, pushed>>

PopLock ==
    /\ pc[Flusher] = "pop" /\ qlock = NoOne
    /\ qlock' = Flusher
    /\ pc' = [pc EXCEPT ![Flusher] = "check"]
    /\ UNCHANGED <<mutex, asleep, queue, flusherVars, handled>>

(* The queue is empty: pthread_cond_timedwait releases it and sleeps. *)
Wait ==
    /\ pc[Flusher] = "check" /\ queue = << >>
    /\ qlock' = NoOne
    /\ asleep' = TRUE
    /\ pc' = [pc EXCEPT ![Flusher] = "wait"]
    /\ UNCHANGED <<mutex, queue, flusherVars, handled>>

(* Half an hour is over, or it wakes up for no reason. *)
TimeOut ==
    /\ pc[Flusher] = "wait" /\ asleep
    /\ asleep' = FALSE
    /\ UNCHANGED <<pc, mutex, qlock, queue, flusherVars, handled>>

Wake ==
    /\ pc[Flusher] = "wait" /\ ~asleep /\ qlock = NoOne
    /\ qlock' = Flusher
    /\ pc' = [pc EXCEPT ![Flusher] = "check"]
    /\ UNCHANGED <<mutex, asleep, queue, flusherVars, handled>>

TakeLine ==
    /\ pc[Flusher] = "check" /\ queue # << >>
    /\ text' = [text EXCEPT ![Flusher] = Head(queue)]
    /\ queue' = Tail(queue)
    /\ qlock' = NoOne
    /\ pc' = [pc EXCEPT ![Flusher] = "lock"]
    /\ UNCHANGED <<mutex, asleep, asked, logged, mainVars, pushed, handled>>

FlushLock ==
    /\ pc[Flusher] = "lock" /\ mutex = NoOne
    /\ mutex' = Flusher
    /\ pc' = [pc EXCEPT ![Flusher] = "write"]
    /\ UNCHANGED <<qlock, asleep, queue, flusherVars, handled>>

(* Written if there is a stream, deleted, and the mutex is released. *)
WriteLine ==
    /\ pc[Flusher] = "write"
    /\ handled' = Append(handled, text[Flusher])
    /\ mutex' = NoOne
    /\ pc' = [pc EXCEPT ![Flusher] = "pop"]
    /\ UNCHANGED <<qlock, asleep, queue, flusherVars>>

-----------------------------------------------------------------------------
(* The clock. A second does not end before the lines that were in the      *)
(* queue when it began are written: the flush thread is not starved and    *)
(* the disk keeps up.                                                      *)
Tick ==
    /\ clock < MaxClock
    /\ Len(handled) >= due
    /\ clock' = clock + 1
    /\ due' = Len(pushed)
    /\ UNCHANGED <<stage, pc, mutex, qlock, asleep, stream, level, queue, callerVars, asleepAt, pushed, handled>>

CallerSteps(c) == \/ Call(c) \/ LockMutex(c) \/ Reject(c) \/ Header(c)
                  \/ LockQueue(c) \/ Push(c) \/ Unlock(c)
FlusherSteps   == PopLock \/ Wait \/ Wake \/ TakeLine \/ FlushLock \/ WriteLine

Running == stage \notin {"exited", "cutShort"}

(* TRUE in the end: the program has exited, and nothing moves any more. *)
Ended == ~Running /\ UNCHANGED vars

Next ==
    \/ Running /\ (Open \/ SetLevel \/ LastLine \/ Sleep \/ Exit \/ CutShort)
    \/ Running /\ (Tick \/ TimeOut \/ FlusherSteps)
    \/ Running /\ \E c \in Callers : CallerSteps(c)
    \/ Ended

Spec == Init /\ [][Next]_vars

(* A thread that can take its next step does so in the end, and a caller    *)
(* gets the mutex of the queue although the flush thread may take it again *)
(* and again. The other mutex needs no more, as a thread makes MaxLines    *)
(* calls. Nothing makes a thread log, and nothing makes the program end.   *)
FairSpec ==
    /\ Spec
    /\ WF_vars(Running /\ FlusherSteps)
    /\ \A c \in Callers : /\ WF_vars(Running /\ CallerSteps(c) /\ pc[c] # "idle")
                          /\ SF_vars(Running /\ LockQueue(c))

-----------------------------------------------------------------------------
(* The log is a channel: lines come out one at a time, each once, in the   *)
(* order in which they were logged, whatever the threads do.               *)
ToFile == INSTANCE Channel WITH Items <- Lines, in <- pushed, out <- handled
ImplementsChannel == ToFile!Spec

(* The lines of the file are in the order of their time stamps, although   *)
(* the threads stamp them: header() runs under the mutex that orders them. *)
StampsInOrder ==
    \A i, j \in DOMAIN pushed : i < j => pushed[i].stamp <= pushed[j].stamp

(* A call that has begun ends, and what it logged is written: no thread    *)
(* waits for a mutex for ever, and the flush thread sleeps through no      *)
(* line, without counting on its time-out.                                 *)
LogIsLive ==
    []Running =>
        []<>((\A c \in Callers : pc[c] = "idle") /\ Len(handled) = Len(pushed))

(* When the program has ended after the two seconds it sleeps, the main    *)
(* thread's last line and all that was logged before it are written. An    *)
(* end that another signal brings forward promises nothing: sleep() is all *)
(* there is, nothing flushes the queue, and the lines in it are lost.      *)
LastLineWritten ==
    stage = "exited" =>
        \A i \in DOMAIN pushed :
            pushed[i].from = Main /\ pushed[i].no = MaxLines => i <= Len(handled)
=============================================================================
