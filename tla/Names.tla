------------------------------- MODULE Names -------------------------------
(***************************************************************************)
(* The tables from Diameter codes to names.  Main fills them before it     *)
(* starts a thread, the first Gx session manager fills four of them again, *)
(* and the flushers and the S6a parser look codes up with operator[],      *)
(* which inserts a code it does not find: a lookup that may write to a map *)
(* other threads are looking into.                                         *)
(*                                                                         *)
(* The name of a code is the code itself, Blank that of one a lookup has   *)
(* inserted.                                                               *)
(***************************************************************************)
EXTENDS Integers

CONSTANTS
  UnknownRat, UnknownCommand   \* codes that are in no table

VARIABLES
  names,     \* diameterStaticMap: table to codes to names
  managed,   \* GxSessionManager 0 has filled its tables and lets itself be used
  inside,    \* thread to the lookup it is in, [table, code], or Outside
  answer,    \* the last lookup that ended, [table, code, name]
  damaged    \* tables that were written while another thread was in them

vars == <<names, managed, inside, answer, damaged>>

Blank == -2

Outside == [table |-> "none", code |-> 0]
NoAnswer == [table |-> "none", code |-> 0, name |-> Blank]

-----------------------------------------------------------------------------
(* The codes with a name, as DiameterGlobal has them. *)
Known ==
  [resultCode |->
     {1001, 2001, 2002, 4012, 5030, 5420, 5421} \cup 3001 .. 3010 \cup 4001 .. 4003 \cup 5001 .. 5017,
   ratType |-> -1 .. 4 \cup {6} \cup 1000 .. 1004 \cup 2000 .. 2003,
   eventTrigger |-> 0 .. 7 \cup 11 .. 30 \cup 33 .. 37 \cup {39, 40} \cup 42 .. 48,
   appType |-> {4, 16777238, 16777302, 16777251},
   commandCodeType |-> {258, 272} \cup 316 .. 323,
   msgType |-> {0, 1},
   apnIndicator |-> {-1, 0, 1},
   feature_1 |-> 0 .. 31,
   feature_2 |-> 0 .. 31]

Table == DOMAIN Known

(* std::map::insert: a code that is there keeps its name. *)
Insert(map, codes) ==
  [c \in DOMAIN map \cup codes |-> IF c \in DOMAIN map THEN map[c] ELSE c]

NoNames == [t \in Table |-> [c \in {} |-> 0]]

Fill(tables) == [t \in Table |-> IF t \in tables THEN Insert(names[t], Known[t]) ELSE names[t]]

(* Faulty variant: the tables the Gx plugin uses, and no others.           *)
FilledForGx == {"appType", "commandCodeType", "eventTrigger", "ratType", "resultCode"}

(* SpectaProbe::initializeDiameter *)
FilledByMain == Table

FilledByManager == {"appType", "eventTrigger", "ratType", "resultCode"}

Init ==
  /\ names = [t \in Table |-> IF t \in FilledByMain THEN Insert(NoNames[t], Known[t]) ELSE NoNames[t]]
  /\ managed = FALSE
  /\ inside = [th \in {"GxFlusher", "S6aFlusher", "Router"} |-> Outside]
  /\ answer = NoAnswer
  /\ damaged = {}

(* A lookup that inserts while another is in the same map. *)
Clash(thread) ==
  \E other \in DOMAIN inside \ {thread} :
    /\ inside[other].table = inside[thread].table
    /\ \E t \in {thread, other} : inside[t].code \notin DOMAIN names[inside[t].table]

-----------------------------------------------------------------------------
(* GxSessionManager::run of instance 0, before the probe lets packets in.  *)
Manage ==
  /\ ~managed
  /\ names' = Fill(FilledByManager)
  /\ managed' = TRUE
  /\ UNCHANGED <<inside, answer, damaged>>

(* Keys are narrower than the codes: 16 bits of a result code, and 16 with *)
(* a sign of a RAT type, whose default is -1.                              *)
Key(table, code) ==
  CASE table = "resultCode" -> code % 65536
    [] table = "ratType" -> ((code + 32768) % 65536) - 32768
    [] OTHER -> code

(* What a session may have, of each kind one.  The result code is 0 if no  *)
(* answer gave one; Gx keeps the default of the RAT type as 65535.         *)
(* Positions in a list of features go beyond 31 if the same list came      *)
(* twice.                                                                  *)
Codes(table) ==
  CASE table = "resultCode" -> {0, 65536 + 2001}
    [] table = "ratType" -> {65535, UnknownRat}
    [] table = "appType" -> {16777238, 16777251}
    [] table = "commandCodeType" -> {316, UnknownCommand}
    [] table = "msgType" -> {0, 1}
    [] table = "apnIndicator" -> {-1}
    [] table \in {"feature_1", "feature_2"} -> {31, 32}

(* The S6a parser names the command of whatever it is given, before it     *)
(* looks at the application.                                               *)
Asks(thread) ==
  CASE thread = "GxFlusher" -> {"appType", "ratType", "resultCode"}
    [] thread = "S6aFlusher" -> Table \ {"eventTrigger"}
    [] thread = "Router" -> {"commandCodeType"}

BeginLookup(thread) ==
  /\ managed /\ inside[thread] = Outside
  /\ \E t \in Asks(thread) \ damaged : \E c \in Codes(t) :
       inside' = [inside EXCEPT ![thread] = [table |-> t, code |-> Key(t, c)]]
  /\ answer' = NoAnswer
  /\ UNCHANGED <<names, managed, damaged>>

(* std::map::operator[] inserts a code it does not find. *)
Looked(map, code) ==
  [c \in DOMAIN map \cup {code} |-> IF c \in DOMAIN map THEN map[c] ELSE Blank]

(* The end of a lookup: what happens in a damaged map is anybody's guess. *)
EndLookup(thread) ==
  LET t == inside[thread].table
      c == inside[thread].code
  IN  /\ t # "none"
      /\ inside' = [inside EXCEPT ![thread] = Outside]
      /\ IF Clash(thread) \/ t \in damaged
         THEN /\ damaged' = damaged \cup {t}
              /\ UNCHANGED <<names, answer>>
         ELSE /\ names' = [names EXCEPT ![t] = Looked(@, c)]
              /\ answer' = [table |-> t, code |-> c, name |-> names'[t][c]]
              /\ UNCHANGED damaged
      /\ UNCHANGED managed

Next == Manage \/ \E th \in DOMAIN inside : BeginLookup(th) \/ EndLookup(th)

Spec == Init /\ [][Next]_vars

-----------------------------------------------------------------------------
(* A code of the tables is written with its own name, every other one      *)
(* blank, whoever looked it up before; and only the tables of which        *)
(* unknown codes are looked up by two threads can be damaged, never those  *)
(* of applications, message types, APN indicators and features.  A line    *)
(* without an answer has the unknown result code 0.                        *)
NamesHold ==
  /\ answer.table # "none" =>
       answer.name = IF answer.code \in Known[answer.table] THEN answer.code ELSE Blank
  /\ damaged \subseteq {"resultCode", "ratType", "commandCodeType"}
=============================================================================
