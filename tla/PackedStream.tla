---------------------------- MODULE PackedStream ----------------------------
(***************************************************************************)
(* The Solarflare listener and the buffers it shares with the card.  The   *)
(* listener posts buffers; the card fills them in the order of posting,    *)
(* several packets to a buffer, and raises events that say how many        *)
(* packets have come and whether they begin a new buffer, not which one.   *)
(* The listener finds out with a list of its own of what it has posted,    *)
(* linked through the buffers and appended to at a pointer to the last     *)
(* link.                                                                   *)
(*                                                                         *)
(* The card and its event queue are the vendor's library, modelled from    *)
(* how the listener uses it.                                               *)
(***************************************************************************)
EXTENDS Naturals, Sequences

CONSTANTS
  Bufs,      \* the buffers, cfg_max_fill of them
  PerBuf,    \* packets that fit into a buffer
  MaxPkts    \* bound: packets

VARIABLES
  fresh,      \* buffers start has not posted yet
  posted,     \* external: ef_vi_receive_post, what the card may fill, in order
  filling,    \* external: the buffer the card is filling, or Null
  memory,     \* each buffer's packets; a packet is its number
  events,     \* external: the event queue, [next, pkts]
  arrived,    \* packets the card has received
  head, next, tail,       \* posted_bufs, the links, posted_bufs_tail
  current,    \* current_buf
  iter,       \* ps_pkt_iter: packets of the current buffer passed
  todo,       \* packets of the event at hand still to be consumed
  consumed    \* history: what consume_packet was given

card == <<posted, filling, memory, events, arrived>>
list == <<head, next, tail>>
vars == <<fresh, card, list, current, iter, todo, consumed>>

Null == "NULL"
HeadLink == "posted_bufs"   \* tail points to the head, not to a buffer's link

(* The address of a buffer is neither. *)
BuffersNamed == Null \notin Bufs /\ HeadLink \notin Bufs

-----------------------------------------------------------------------------
(* posted_buf_put and posted_buf_get, on a list [head, next, tail].        *)

(* Faulty variant: the buffer is put before the others.                    *)
PutFirst(l, b) ==
  [l EXCEPT !.head = b, !.next[b] = l.head, !.tail = IF l.head = Null THEN b ELSE @]

Put(l, b) ==
  [head |-> IF l.tail = HeadLink THEN b ELSE l.head,
   next |-> [x \in Bufs |-> IF x = b THEN Null ELSE IF x = l.tail THEN b ELSE l.next[x]],
   tail |-> b]

Get(l) ==
  IF l.head = Null THEN l
  ELSE [l EXCEPT !.head = l.next[l.head],
                 !.tail = IF l.next[l.head] = Null THEN HeadLink ELSE @]

NewList == [head |-> Null, next |-> [b \in Bufs |-> Null], tail |-> HeadLink]

Init ==
  /\ fresh = Bufs
  /\ posted = <<>> /\ filling = Null
  /\ memory = [b \in Bufs |-> <<>>]
  /\ events = <<>> /\ arrived = 0
  /\ head = NewList.head /\ next = NewList.next /\ tail = NewList.tail
  /\ current = Null /\ iter = 0 /\ todo = 0
  /\ consumed = <<>>

TheList == [head |-> head, next |-> next, tail |-> tail]
ListBecomes(l) == head' = l.head /\ next' = l.next /\ tail' = l.tail

-----------------------------------------------------------------------------
(* start posts one buffer after the other, and adds the filter that lets   *)
(* packets in when it has posted all.                                      *)
Post ==
  /\ \E b \in fresh :
       /\ fresh' = fresh \ {b}
       /\ posted' = Append(posted, b)
       /\ ListBecomes(Put(TheList, b))
  /\ UNCHANGED <<filling, memory, events, arrived, current, iter, todo, consumed>>

(* The card puts packets into the buffer it is filling ... *)
Arrive ==
  /\ filling # Null
  /\ \E n \in 1 .. PerBuf - Len(memory[filling]) :
       /\ arrived + n <= MaxPkts
       /\ memory' = [memory EXCEPT ![filling] = @ \o [i \in 1 .. n |-> arrived + i]]
       /\ events' = Append(events, [next |-> FALSE, pkts |-> n])
       /\ arrived' = arrived + n
  /\ UNCHANGED <<fresh, posted, filling, list, current, iter, todo, consumed>>

(* ... and goes on to the next one, if there is one, when that is full.    *)
ArriveInNext ==
  /\ fresh = {} /\ posted # <<>>
  /\ filling # Null => Len(memory[filling]) = PerBuf
  /\ filling' = Head(posted) /\ posted' = Tail(posted)
  /\ \E n \in 1 .. PerBuf :
       /\ arrived + n <= MaxPkts
       /\ memory' = [memory EXCEPT ![filling'] = [i \in 1 .. n |-> arrived + i]]
       /\ events' = Append(events, [next |-> TRUE, pkts |-> n])
       /\ arrived' = arrived + n
  /\ UNCHANGED <<fresh, list, current, iter, todo, consumed>>

(* handle_rx_ps, until the loop over the packets.  The buffer that has     *)
(* been read is posted again, to the card and to the list.                 *)
Handle ==
  /\ todo = 0 /\ events # <<>>
  /\ LET full == IF current = Null THEN TheList ELSE Put(TheList, current)
     IN  IF Head(events).next
         THEN /\ posted' = IF current = Null THEN posted ELSE Append(posted, current)
              /\ current' = full.head
              /\ ListBecomes(Get(full))
              /\ iter' = 0
         ELSE UNCHANGED <<posted, current, list, iter>>
  /\ todo' = Head(events).pkts
  /\ events' = Tail(events)
  /\ UNCHANGED <<fresh, filling, memory, arrived, consumed>>

(* consume_packet; what it does with the packet is in PktRing. *)
Consume ==
  /\ todo > 0
  /\ consumed' = Append(consumed,
       IF current # Null /\ iter < Len(memory[current]) THEN memory[current][iter + 1] ELSE 0)
  /\ iter' = iter + 1 /\ todo' = todo - 1
  /\ UNCHANGED <<fresh, card, list, current>>

Next == Post \/ Arrive \/ ArriveInNext \/ Handle \/ Consume

Spec == Init /\ [][Next]_vars

-----------------------------------------------------------------------------
(* The listener is given every packet that arrived, once and in order:     *)
(* its list, appended to at the end, always begins with the buffer the     *)
(* card went on to, and the card overwrites no packet still to be read.    *)
PacketsInOrder == \A n \in DOMAIN consumed : consumed[n] = n
=============================================================================
