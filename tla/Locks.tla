------------------------------- MODULE Locks -------------------------------
(***************************************************************************)
(* The locks of the log library around a value of two words: mutexed,      *)
(* waitlocked and rwlocked, which lock for an assignment, but hand out a   *)
(* reference to the value when it is read, and the lockers that hold a     *)
(* lock for a whole scope.  A waiter, under its locker, waits until the    *)
(* value is no longer what it was, with or without a time limit.           *)
(***************************************************************************)
EXTENDS Integers, FiniteSets

CONSTANTS
  Users,     \* threads that assign and read
  MaxSets,   \* bound: assignments
  Second     \* a second, in units of the clock

VARIABLES
  style,     \* which of the three: "mutexed", "waitlocked", "rwlocked"
  holders,   \* who has the lock, "exclusive" or "shared"
  words,     \* the value: the number of an assignment, twice
  sets,      \* assignments begun
  does,      \* what each user is doing
  phase,     \* where it is in it
  copy,      \* the words a reader has copied, or an assignment is given
  waiter     \* the thread that waits: [at, saw, expired]; saw is what it tested

vars == <<style, holders, words, sets, does, phase, copy, waiter>>

(* The waiter is none of them; a second has a length. *)
UsersNamed == "waiter" \notin Users /\ Second \in Nat \ {0}

(* A user, by the locker it uses: assignment and read are operator ().     *)
Does == {"assign", "read", "locked read", "try"}

Init ==
  /\ style \in {"mutexed", "waitlocked", "rwlocked"}
  /\ holders = [exclusive |-> {}, shared |-> {}]
  /\ words = <<0, 0>> /\ sets = 0
  /\ does = [u \in Users |-> "read"]
  /\ phase = [u \in Users |-> "idle"]
  /\ copy = [u \in Users |-> <<0, 0>>]
  /\ waiter = [at |-> "idle", saw |-> 0, expired |-> FALSE]

Free == holders.exclusive = {} /\ holders.shared = {}
Shares(u) == style = "rwlocked" /\ does[u] \in {"read", "locked read", "try"}
MayLock(u) == IF Shares(u) THEN holders.exclusive = {} ELSE Free

Held(u) ==
  IF Shares(u) THEN [holders EXCEPT !.shared = @ \cup {u}] ELSE [holders EXCEPT !.exclusive = {u}]
Released(u) == [exclusive |-> holders.exclusive \ {u}, shared |-> holders.shared \ {u}]

Go(u, to) == phase' = [phase EXCEPT ![u] = to]

-----------------------------------------------------------------------------
Start(u) ==
  /\ phase[u] = "idle"
  /\ \E what \in Does :
       /\ what = "assign" => sets < MaxSets
       /\ does' = [does EXCEPT ![u] = what]
       /\ sets' = IF what = "assign" THEN sets + 1 ELSE sets
       /\ copy' = [copy EXCEPT ![u] = IF what = "assign" THEN <<sets', sets'>> ELSE <<0, 0>>]
  /\ Go(u, "lock")
  /\ UNCHANGED <<style, holders, words, waiter>>

(* lock, rdlock, wrlock; the locker's constructor. *)
Acquire(u) ==
  /\ phase[u] = "lock" /\ MayLock(u)
  /\ holders' = Held(u)
  /\ Go(u, "first")
  /\ UNCHANGED <<style, words, sets, does, copy, waiter>>

(* trylock and its like throw, and the locker is not constructed.          *)
TryFails(u) ==
  /\ phase[u] = "lock" /\ does[u] = "try" /\ ~MayLock(u)
  /\ Go(u, "idle")
  /\ UNCHANGED <<style, holders, words, sets, does, copy, waiter>>

(* operator () (const T&): one word, then the other. *)
AssignFirst(u) ==
  /\ phase[u] = "first" /\ does[u] = "assign"
  /\ words' = <<copy[u][1], words[2]>>
  /\ Go(u, "second")
  /\ UNCHANGED <<style, holders, sets, does, copy, waiter>>

AssignSecond(u) ==
  /\ phase[u] = "second" /\ does[u] = "assign"
  /\ words' = <<words[1], copy[u][2]>>
  /\ Go(u, "unlock")
  /\ UNCHANGED <<style, holders, sets, does, copy, waiter>>

(* Faulty variant: a locker that unlocks when it is constructed.           *)
OutsideAlways(u) == TRUE

(* operator () (): locks and unlocks, and the caller copies what it has    *)
(* been given a reference to.                                              *)
Outside(u) == does[u] = "read"

TakeReference(u) ==
  /\ phase[u] = "first" /\ does[u] # "assign" /\ Outside(u)
  /\ holders' = Released(u)
  /\ Go(u, "copy")
  /\ UNCHANGED <<style, words, sets, does, copy, waiter>>

CopyFirst(u) ==
  /\ phase[u] = IF Outside(u) THEN "copy" ELSE "first"
  /\ does[u] # "assign"
  /\ copy' = [copy EXCEPT ![u] = <<words[1], 0>>]
  /\ Go(u, "copy second")
  /\ UNCHANGED <<style, holders, words, sets, does, waiter>>

CopySecond(u) ==
  /\ phase[u] = "copy second"
  /\ copy' = [copy EXCEPT ![u] = <<@[1], words[2]>>]
  /\ Go(u, IF Outside(u) THEN "done" ELSE "unlock")
  /\ UNCHANGED <<style, holders, words, sets, does, waiter>>

Release(u) ==
  /\ phase[u] = "unlock"
  /\ holders' = Released(u)
  /\ Go(u, IF does[u] # "assign" THEN "done" ELSE IF style = "waitlocked" THEN "notify" ELSE "idle")
  /\ UNCHANGED <<style, words, sets, does, copy, waiter>>

Finish(u) ==
  /\ phase[u] = "done"
  /\ Go(u, "idle")
  /\ UNCHANGED <<style, holders, words, sets, does, copy, waiter>>

(* waitlocked's assignment signals after it has unlocked. *)
Notify(u) ==
  /\ phase[u] = "notify"
  /\ waiter' = IF waiter.at = "asleep" THEN [waiter EXCEPT !.at = "awake"] ELSE waiter
  /\ Go(u, "idle")
  /\ UNCHANGED <<style, holders, words, sets, does, copy>>

-----------------------------------------------------------------------------
(* The waiter: a locker, and waitLocked until the value has changed.       *)
WaiterLocks ==
  /\ style = "waitlocked" /\ waiter.at \in {"idle", "awake"} /\ Free
  /\ holders' = [holders EXCEPT !.exclusive = {"waiter"}]
  /\ waiter' = [waiter EXCEPT !.at = "test"]
  /\ UNCHANGED <<style, words, sets, does, phase, copy>>

WaiterSleeps ==
  /\ waiter.at = "test" /\ words[1] = waiter.saw /\ ~waiter.expired
  /\ holders' = Released("waiter")
  /\ waiter' = [waiter EXCEPT !.at = "asleep"]
  /\ UNCHANGED <<style, words, sets, does, phase, copy>>

(* The value has changed, or the time is up: the locker is destroyed.      *)
WaiterLeaves ==
  /\ waiter.at = "test" /\ (words[1] # waiter.saw \/ waiter.expired)
  /\ holders' = Released("waiter")
  /\ waiter' = [at |-> "idle", saw |-> words[1], expired |-> FALSE]
  /\ UNCHANGED <<style, words, sets, does, phase, copy>>

(* pthread_cond_timedwait comes back with an error, or for no reason.      *)
WaiterTimesOut ==
  /\ waiter.at = "asleep"
  /\ \E expired \in BOOLEAN : waiter' = [waiter EXCEPT !.at = "awake", !.expired = expired]
  /\ UNCHANGED <<style, holders, words, sets, does, phase, copy>>

Next ==
  \/ \E u \in Users :
       \/ Start(u) \/ Acquire(u) \/ TryFails(u) \/ AssignFirst(u) \/ AssignSecond(u) \/ TakeReference(u)
       \/ CopyFirst(u) \/ CopySecond(u) \/ Release(u) \/ Finish(u) \/ Notify(u)
  \/ WaiterLocks \/ WaiterSleeps \/ WaiterLeaves \/ WaiterTimesOut

Spec == Init /\ [][Next]_vars

-----------------------------------------------------------------------------
(* The time a wait ends: of the fractions of a second only a sum beyond a  *)
(* second is carried over.                                                 *)
Deadline(fraction, wait) ==
  LET sum == fraction + wait
  IN  IF sum > Second THEN [sec |-> sum \div Second, fraction |-> sum % Second]
      ELSE [sec |-> 0, fraction |-> sum]

(* An assignment is alone with the value, a reader that keeps its lock     *)
(* never sees half of one; only operator () can.  Whoever waits for a      *)
(* change is told of it.  A deadline is one the system accepts, unless its *)
(* fractions make exactly a second.                                        *)
LocksHold ==
  /\ \A u \in Users :
       phase[u] = "done" /\ does[u] # "read" => copy[u][1] = copy[u][2]
  /\ holders.exclusive = {} \/ (holders.shared = {} /\ Cardinality(holders.exclusive) = 1)
  /\ waiter.at = "asleep" /\ words[1] # waiter.saw =>
       \E u \in Users : does[u] = "assign" /\ phase[u] \in {"second", "unlock", "notify"}
  /\ \A fraction \in 0 .. Second - 1, wait \in 0 .. 2 * Second :
       Deadline(fraction, wait).fraction < Second <=> fraction + wait # Second
=============================================================================
