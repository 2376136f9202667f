------------------------------- MODULE Queue -------------------------------
(***************************************************************************)
(* SafeQueue, the queue of the log library, used by any number of threads  *)
(* with all its operations (the log itself uses push and pop).  Its mutex  *)
(* is a plain one: an unlock frees it, whoever calls it.                   *)
(***************************************************************************)
EXTENDS Naturals, Sequences

CONSTANTS
  Threads,
  MaxPush    \* bound: elements pushed

VARIABLES
  lock,     \* _mutex: its owner, or NoOne
  items,    \* _q; an element is its number
  size,     \* _size
  at,       \* where each thread is in its call
  call,     \* the operation of each thread
  number,   \* history: elements pushed
  taken,    \* history: the last element taken, or cleared
  doubled   \* history: trypop has unlocked the mutex of another thread

vars == <<lock, items, size, at, call, number, taken, doubled>>

NoOne == "no one"
ThreadsNamed == NoOne \notin Threads

(* push_nl, pop_nl and clear_nl are the same between the caller's lock and *)
(* unlock.                                                                 *)
Waiting == {"pop", "top"}
Call == Waiting \cup {"push", "pop in time", "trypop", "clear"}

Init ==
  /\ lock = NoOne
  /\ items = <<>> /\ size = 0
  /\ at = [t \in Threads |-> "idle"]
  /\ call = [t \in Threads |-> "push"]
  /\ number = 0 /\ taken = 0
  /\ doubled = FALSE

-----------------------------------------------------------------------------
Begin(t) ==
  /\ at[t] = "idle"
  /\ \E op \in Call : call' = [call EXCEPT ![t] = op]
  /\ at' = [at EXCEPT ![t] = "lock"]
  /\ UNCHANGED <<lock, items, size, number, taken, doubled>>

Lock(t) ==
  /\ at[t] = "lock" /\ lock = NoOne
  /\ lock' = t
  /\ at' = [at EXCEPT ![t] = "inside"]
  /\ UNCHANGED <<items, size, call, number, taken, doubled>>

(* Faulty variant: push wakes one of those who wait.                       *)
WakeOne(t) ==
  LET asleep == {u \in Threads : at[u] = "asleep"}
  IN  IF asleep = {} THEN at' = [at EXCEPT ![t] = "unlock"]
      ELSE \E u \in asleep : at' = [at EXCEPT ![t] = "unlock", ![u] = "awake"]

(* pthread_cond_broadcast, and on to the unlock. *)
WakeAll(t) ==
  at' = [u \in Threads |-> IF u = t THEN "unlock" ELSE IF at[u] = "asleep" THEN "awake" ELSE at[u]]

Push(t) ==
  /\ at[t] = "inside" /\ call[t] = "push" /\ number < MaxPush
  /\ items' = Append(items, number + 1)
  /\ size' = size + 1
  /\ number' = number + 1
  /\ WakeAll(t)
  /\ UNCHANGED <<lock, call, taken, doubled>>

(* pop, a pop with a time, trypop: the first element. *)
Take(t) ==
  /\ \/ at[t] = "inside" /\ call[t] \in {"pop", "pop in time", "trypop"}
     \/ at[t] = "second try"
  /\ items # <<>>
  /\ items' = Tail(items)
  /\ size' = size - 1
  /\ taken' = Head(items)
  /\ at' = [at EXCEPT ![t] = "unlock"]
  /\ UNCHANGED <<lock, call, number, doubled>>

Top(t) ==
  /\ at[t] = "inside" /\ call[t] = "top" /\ items # <<>>
  /\ at' = [at EXCEPT ![t] = "unlock"]
  /\ UNCHANGED <<lock, items, size, call, number, taken, doubled>>

Clear(t) ==
  /\ at[t] = "inside" /\ call[t] = "clear"
  /\ items' = <<>> /\ size' = 0
  /\ taken' = number
  /\ at' = [at EXCEPT ![t] = "unlock"]
  /\ UNCHANGED <<lock, call, number, doubled>>

(* An empty queue: the mutex is given up for the time of the wait.         *)
Wait(t) ==
  /\ at[t] = "inside" /\ call[t] \in Waiting \cup {"pop in time"} /\ items = <<>>
  /\ lock' = NoOne
  /\ at' = [at EXCEPT ![t] = "asleep"]
  /\ UNCHANGED <<items, size, call, number, taken, doubled>>

(* The time is up, or for no reason. *)
TimeUp(t) ==
  /\ at[t] = "asleep"
  /\ at' = [at EXCEPT ![t] = "awake"]
  /\ UNCHANGED <<lock, items, size, call, number, taken, doubled>>

(* The loop tests again; a pop with a time does not wait twice.            *)
LockAgain(t) ==
  /\ at[t] = "awake" /\ lock = NoOne
  /\ lock' = t
  /\ at' = [at EXCEPT ![t] = IF call[t] = "pop in time" THEN "second try" ELSE "inside"]
  /\ UNCHANGED <<items, size, call, number, taken, doubled>>

(* TimeOutException. *)
GiveUp(t) ==
  /\ at[t] = "second try" /\ items = <<>>
  /\ at' = [at EXCEPT ![t] = "unlock"]
  /\ UNCHANGED <<lock, items, size, call, number, taken, doubled>>

Unlock(t) ==
  /\ at[t] = "unlock"
  /\ lock' = NoOne
  /\ at' = [at EXCEPT ![t] = "idle"]
  /\ UNCHANGED <<items, size, call, number, taken, doubled>>

(* trypop of an empty queue unlocks and returns out of the scope of the    *)
(* cleanup handler ...                                                     *)
TryEmpty(t) ==
  /\ at[t] = "inside" /\ call[t] = "trypop" /\ items = <<>>
  /\ lock' = NoOne
  /\ at' = [at EXCEPT ![t] = "cleanup"]
  /\ UNCHANGED <<items, size, call, number, taken, doubled>>

(* ... whose destructor unlocks once more. *)
Cleanup(t) ==
  /\ at[t] = "cleanup"
  /\ lock' = NoOne
  /\ doubled' = (doubled \/ lock # NoOne)
  /\ at' = [at EXCEPT ![t] = "idle"]
  /\ UNCHANGED <<items, size, call, number, taken>>

(* Thread::cancel in a wait, which takes the mutex for the cleanup handler *)
(* to free it.                                                             *)
Cancel(t) ==
  /\ at[t] = "asleep" /\ lock = NoOne
  /\ at' = [at EXCEPT ![t] = "gone"]
  /\ UNCHANGED <<lock, items, size, call, number, taken, doubled>>

Next ==
  \E t \in Threads :
    \/ Begin(t) \/ Lock(t) \/ Push(t) \/ Take(t) \/ Top(t) \/ Clear(t) \/ Wait(t) \/ TimeUp(t)
    \/ LockAgain(t) \/ GiveUp(t) \/ Unlock(t) \/ TryEmpty(t) \/ Cleanup(t) \/ Cancel(t)

Spec == Init /\ [][Next]_vars

-----------------------------------------------------------------------------
(* As long as no trypop has unlocked the mutex of another thread, one      *)
(* thread at a time is in the queue, the size is that of the queue, the    *)
(* elements come out once and in the order they went in, and nobody sleeps *)
(* while there is something to take, not even when it was top that woke.   *)
QueueHolds ==
  ~doubled =>
    /\ \A t \in Threads : at[t] \in {"inside", "second try", "unlock"} => lock = t
    /\ size = Len(items)
    /\ \A n \in DOMAIN items : items[n] = taken + n
    /\ taken + Len(items) = number
    /\ items # <<>> => \A t \in Threads : at[t] # "asleep"
=============================================================================
