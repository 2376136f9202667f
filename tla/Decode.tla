------------------------------- MODULE Decode -------------------------------
(***************************************************************************)
(* What a router makes of a packet: the layers below IPv4 are stripped,    *)
(* the Diameter messages of a TCP segment are decoded one after the other  *)
(* into the entries of msgObj->Diameter, the data chunks of an SCTP packet *)
(* all into entry 0, and the entries of a wanted application are stored    *)
(* for a session manager.  One MPacket serves all packets of a router.     *)
(*                                                                         *)
(* A packet is what its parser reads at each offset of its payload.  The   *)
(* parser follows the lengths it keeps, of 16 bits; where the sender's     *)
(* messages or chunks begin is said beside, for the properties to compare. *)
(***************************************************************************)
EXTENDS Integers, Sequences, FiniteSets

CONSTANTS
  GX, GY, SY, S6A,  \* application identifiers
  NoApp,            \* no application identifier decoded
  Instances,        \* session managers
  Segments,         \* the TCP packets that may arrive
  Bundles           \* the SCTP packets that may arrive

Width          == 256 * 256  \* values of a uint16_t
DiameterHeader == 20
SctpHeader     == 12

(* The header of an SCTP chunk, and a Diameter header: in the chunk at     *)
(* this offset, or itself there.  A message without a header has another   *)
(* version; one with endless attributes has one among them whose length    *)
(* does not lead on, such as zero.                                         *)
Readings ==
  [data : BOOLEAN, chunk : 0 .. Width - 1,
   header : BOOLEAN, length : 0 .. 256 * Width - 1, app : {GX, GY, SY, S6A, NoApp}, hop : Nat,
   avps : {"none", "some", "endless"}]

(* Where nothing of the kind is to be read. *)
Nothing ==
  [data |-> FALSE, chunk |-> 0, header |-> FALSE, length |-> 0, app |-> NoApp, hop |-> 0, avps |-> "none"]

ReadAt(p, o) == IF o \in DOMAIN p.body THEN p.body[o] ELSE Nothing

(* Where a parser begins; and how far the sender's next message or chunk   *)
(* is, zero when that cannot be told. Chunks are padded to four bytes.     *)
First(p) == IF p.transport = "gx" THEN 0 ELSE SctpHeader
Size(p, r) ==
  IF p.transport = "gx" THEN IF r.header THEN r.length ELSE 0
                        ELSE ((r.chunk + 3) \div 4) * 4

(* What may arrive: "starts" are the offsets of the sender's messages or   *)
(* chunks within the payload, and each follows from the one before.        *)
IsPacket(p) ==
  /\ p.transport \in {"gx", "s6a"} /\ p.payload \in 0 .. Width - 1
  /\ \A o \in DOMAIN p.body : o \in Nat /\ p.body[o] \in Readings
  /\ p.starts \in Seq(Nat)
  /\ First(p) < p.payload => p.starts # <<>> /\ p.starts[1] = First(p)
  /\ \A k \in DOMAIN p.starts :
       /\ p.starts[k] < p.payload
       /\ \A j \in 1 .. k - 1 : p.starts[j] < p.starts[k]
       /\ LET size == Size(p, ReadAt(p, p.starts[k]))
          IN  size = 0 \/ IF k < Len(p.starts) THEN p.starts[k + 1] = p.starts[k] + size
                                               ELSE p.starts[k] + size >= p.payload

ASSUME DecodeAssumption ==
  /\ Instances \in Nat \ {0}
  /\ {GX, GY} \cap {SY, S6A} = {} /\ NoApp \notin {GX, GY, S6A}
  /\ \A p \in Segments : IsPacket(p) /\ p.transport = "gx"
  /\ \A p \in Bundles : IsPacket(p) /\ p.transport = "s6a"

VARIABLES
  pc,        \* what the router does: "idle", "gx", "s6a", "distribute"; or "trapped"
  pkt,       \* the packet in hand
  even,      \* whether its number is even, to tell it from the one before
  Diameter,  \* msgObj->Diameter, by chunkNo + 1
  offset,    \* where the parser is: offset, or sctp_chunk_offset
  left,      \* totalGxLen
  at,        \* chunkNo + 1
  stored     \* what the session managers got of this packet, by entry

decodeVars == <<pc, pkt, even, Diameter, offset, left, at, stored>>

(* Where a datum comes from: what is at offset o of this packet or of the  *)
(* one before; from nowhere, in an entry just constructed.                 *)
Nowhere == <<>>
Mine(o) == <<even, o>>

(* _DiameterBody(): all fields and attributes empty.                       *)
NewEntry == [app |-> NoApp, hop |-> 0, from |-> Nowhere, avps |-> Nowhere]

(* _DiameterBody::reset clears the application identifier before it tests  *)
(* it, so the attributes of either kind stay.                              *)
ResetEntry(entry) == [NewEntry EXCEPT !.avps = entry.avps]

DecodeInit ==
  /\ pc = "idle"
  /\ pkt = [transport |-> "none", layers |-> <<>>, body |-> <<>>, payload |-> 0, starts |-> <<>>]
  /\ even = TRUE
  /\ Diameter = <<>>
  /\ offset = 0 /\ left = 0 /\ at = 1
  /\ stored = <<>>

-----------------------------------------------------------------------------
(* parse8021QPacket: any number of tags, then IPv4, itself or in PPPoE.    *)
UnderVlan(layers) ==
  \E n \in 0 .. Len(layers) :
    /\ \A k \in 1 .. n : layers[k] = "8021Q"
    /\ SubSeq(layers, n + 1, Len(layers)) \in {<<"IP">>, <<"PPPoE", "IP">>}

(* EthernetParser::parsePacket: one MPLS label at most.                    *)
ReachesIp(layers) ==
  \/ layers \in {<<"IP">>, <<"MPLS", "IP">>}
  \/ layers # <<>> /\ Head(layers) = "8021Q" /\ UnderVlan(Tail(layers))

(* Faulty variant: MPacket::reset leaves the messages of the last packet.  *)
ArriveUncleared(p) ==
  /\ pc = "idle"
  /\ pkt' = p
  /\ even' = ~even
  /\ offset' = First(p) /\ left' = p.payload /\ at' = 1
  /\ stored' = <<>>
  /\ pc' = IF ReachesIp(p.layers) THEN p.transport ELSE "idle"
  /\ UNCHANGED Diameter

(* decodePacket up to the parser of the transport layer.                   *)
Arrive(p) ==
  /\ pc = "idle"
  /\ pkt' = p
  /\ even' = ~even
  /\ Diameter' = <<>>
  /\ offset' = First(p) /\ left' = p.payload /\ at' = 1
  /\ stored' = <<>>
  /\ pc' = IF ReachesIp(p.layers) THEN p.transport ELSE "idle"

-----------------------------------------------------------------------------
(* The message or chunk the parser looks at; gx_Length = getLength()       *)
(* keeps 16 of the 24 bits of a message's length.                          *)
Message == ReadAt(pkt, offset)
Kept(r) == r.length % Width

(* decodeAVP looks for attributes in what is longer than a header.         *)
Brings(r)  == r.avps # "none" /\ Kept(r) > DiameterHeader
Endless(r) == r.avps = "endless" /\ Kept(r) > DiameterHeader

(* std::map's operator[]. *)
EntryAt(n) == IF n \in DOMAIN Diameter THEN Diameter[n] ELSE NewEntry
Put(n, entry) == [k \in DOMAIN Diameter \cup {n} |-> IF k = n THEN entry ELSE Diameter[k]]

(* What the functions called for the message's attributes store; what is   *)
(* not in the message stays as it was.                                     *)
Attributes(entry) == IF Brings(Message) THEN Mine(offset) ELSE entry.avps

Decoded(entry) ==
  [entry EXCEPT !.app = Message.app, !.hop = Message.hop, !.from = Mine(offset),
                !.avps = Attributes(entry)]

(* The S6a parser has attributes of its own, to the same effect.           *)
S6aDecoded(entry) == Decoded(entry)

(* decodeHeader gives up after the application identifier.                 *)
HeaderOnly(entry) == [entry EXCEPT !.app = Message.app, !.from = Mine(offset)]

GxHeader == Message.header /\ Kept(Message) # 0 /\ Kept(Message) <= left

(* parseDiameterChunk: the entry it leaves, and the length it returns. *)
GxChunk ==
  LET entry == ResetEntry(EntryAt(at))
  IN  IF ~GxHeader THEN [entry |-> entry, length |-> 0]
      ELSE IF Message.app \in {SY, S6A} THEN [entry |-> HeaderOnly(entry), length |-> 0]
      ELSE [entry |-> Decoded(entry), length |-> Kept(Message)]

GxEndless == GxHeader /\ Message.app \notin {SY, S6A} /\ Endless(Message)

(* Faulty variant: what is left must be longer than the last message.      *)
GoesOnIfLonger(rest, length) == rest > 0 /\ rest > length /\ length # 0

GoesOn(rest, length) == rest > 0 /\ rest >= length /\ length # 0

(* One round of the loop of parseGxPacket.                                 *)
ParseGx ==
  /\ pc = "gx"
  /\ left > 0 /\ ~GxEndless
  /\ Diameter' = Put(at, GxChunk.entry)
  /\ offset' = (offset + GxChunk.length) % Width
  /\ left' = left - GxChunk.length
  /\ at' = at + 1
  /\ pc' = IF GoesOn(left', GxChunk.length) THEN "gx" ELSE "distribute"
  /\ UNCHANGED <<pkt, even, stored>>

(* A segment or packet without payload. *)
NoPayload ==
  /\ \/ pc = "gx" /\ left = 0
     \/ pc = "s6a" /\ offset >= pkt.payload
  /\ pc' = "distribute"
  /\ UNCHANGED <<pkt, even, Diameter, offset, left, at, stored>>

S6aHeader == Message.header /\ Kept(Message) # 0

(* S6aParser::parseDiameterChunk into entry 0. *)
S6aChunk(entry) ==
  IF ~S6aHeader THEN ResetEntry(entry)
  ELSE IF Message.app # S6A THEN HeaderOnly(ResetEntry(entry))
  ELSE S6aDecoded(ResetEntry(entry))

HasData == Message.chunk # 0 /\ Message.data
S6aEndless == HasData /\ S6aHeader /\ Message.app = S6A /\ Endless(Message)

(* Faulty variant: a chunk without a length does not end the loop.         *)
ParseSctpForLength ==
  /\ pc = "s6a"
  /\ offset < pkt.payload /\ ~S6aEndless
  /\ Diameter' = IF Message.data THEN Put(1, S6aChunk(EntryAt(1))) ELSE Diameter
  /\ offset' = (offset + Message.chunk) % Width
  /\ pc' = IF offset' < pkt.payload THEN "s6a" ELSE "distribute"
  /\ UNCHANGED <<pkt, even, left, at, stored>>

(* One round of the loop of parseSctpPacket: chunks that carry no data are *)
(* passed over, one without a length ends the loop. The offset has 16      *)
(* bits, and does not count the padding of a chunk.                        *)
ParseSctp ==
  /\ pc = "s6a"
  /\ offset < pkt.payload /\ ~S6aEndless
  /\ Diameter' = IF HasData THEN Put(1, S6aChunk(EntryAt(1))) ELSE Diameter
  /\ offset' = (offset + Message.chunk) % Width
  /\ pc' = IF Message.chunk # 0 /\ offset' < pkt.payload THEN "s6a" ELSE "distribute"
  /\ UNCHANGED <<pkt, even, left, at, stored>>

(* The loop over the attributes of a message does not end: decodeAVP of    *)
(* the Gx parser, or that of a group of attributes of either.              *)
LoopOverAvps ==
  /\ \/ pc = "gx" /\ left > 0 /\ GxEndless
     \/ pc = "s6a" /\ offset < pkt.payload /\ S6aEndless
  /\ Diameter' = Put(at, Decoded(ResetEntry(EntryAt(at))))
  /\ pc' = "trapped"
  /\ UNCHANGED <<pkt, even, offset, left, at, stored>>

Wanted(entry) ==
  entry.hop > 0 /\ entry.app \in IF pkt.transport = "gx" THEN {GX, GY} ELSE {S6A}

Manager(entry) == entry.hop % Instances

(* Gx_distributetoSM, S6a_distributetoSM: by chunk number.                 *)
Distribute ==
  /\ pc = "distribute"
  /\ stored' = [n \in {k \in DOMAIN Diameter : Wanted(Diameter[k])} |->
                  [sm |-> Manager(Diameter[n]), entry |-> Diameter[n]]]
  /\ pc' = "idle"
  /\ UNCHANGED <<pkt, even, Diameter, offset, left, at>>

Step == ParseGx \/ NoPayload \/ ParseSctp \/ LoopOverAvps \/ Distribute

DecodeNext == (\E p \in Segments \cup Bundles : Arrive(p)) \/ Step

DecodeSpec == DecodeInit /\ [][DecodeNext]_decodeVars

(* The router's thread goes on with the packet in hand.                    *)
DecodeFairSpec == DecodeSpec /\ WF_decodeVars(Step)

-----------------------------------------------------------------------------
(* Types of the variables. *)
Source == {Nowhere} \cup (BOOLEAN \X Nat)
Entry == [app : {GX, GY, SY, S6A, NoApp}, hop : Nat, from : Source, avps : Source]

DecodeTypeOK ==
  /\ pc \in {"idle", "gx", "s6a", "distribute", "trapped"}
  /\ Diameter \in Seq(Entry)
  /\ offset \in 0 .. Width - 1 /\ left \in 0 .. Width - 1
  /\ \A n \in DOMAIN stored : stored[n] \in [sm : 0 .. Instances - 1, entry : Entry]
  /\ pkt.transport = "s6a" => Len(Diameter) <= 1

(* What the parser reads where the sender's message or chunk k begins.     *)
Sent(k) == ReadAt(pkt, pkt.starts[k])

(* The messages of a segment come out in their order, each once, and with  *)
(* the attributes of that very message, whatever the MPacket held before;  *)
(* no length, as it is kept, reaches beyond the payload: what is left does *)
(* not become negative, which without a sign is a huge length.  Only after *)
(* a message of 65536 bytes or more, whose length is not kept, may         *)
(* something come out that the sender did not begin a message with.        *)
GxFaithful ==
  pkt.transport = "gx" =>
    /\ left \in 0 .. pkt.payload
    /\ \A n \in DOMAIN stored :
         LET entry == stored[n].entry
             o     == entry.from[2]
         IN  /\ entry.from # Nowhere /\ entry.from = Mine(o)
             /\ entry.hop = ReadAt(pkt, o).hop
             /\ entry.avps = IF Brings(ReadAt(pkt, o)) THEN Mine(o) ELSE Nowhere
             /\ o + Kept(ReadAt(pkt, o)) <= pkt.payload
             /\ IF n \in DOMAIN pkt.starts THEN o = pkt.starts[n]
                ELSE \E k \in DOMAIN pkt.starts : Sent(k).length >= Width

(* The parser's way through the chunks is the sender's: no chunk is padded *)
(* before another, none reaches beyond what 16 bits can tell.              *)
InStep ==
  \A k \in DOMAIN pkt.starts :
    LET end == pkt.starts[k] + Sent(k).chunk
    IN  end < Width /\ (Sent(k).chunk % 4 = 0 \/ end >= pkt.payload)

(* Of an SCTP packet one entry comes out, of this packet, its attributes   *)
(* perhaps of an earlier chunk but never of an earlier packet; and while   *)
(* the parser keeps in step it is the last data chunk, or the last before  *)
(* a chunk without a length.                                               *)
S6aLastChunk ==
  pkt.transport = "s6a" =>
    \A n \in DOMAIN stored :
      LET entry == stored[n].entry
      IN  /\ n = 1
          /\ entry.from # Nowhere /\ entry.from[1] = even
          /\ entry.avps # Nowhere => entry.avps[1] = even
          /\ InStep =>
               /\ \E k \in DOMAIN pkt.starts : entry.from[2] = pkt.starts[k]
               /\ \A k \in DOMAIN pkt.starts :
                    pkt.starts[k] > entry.from[2] /\ Sent(k).data => \E z \in 1 .. k : Sent(z).chunk = 0

(* What is distributed is what the packet at hand carried, of both paths.  *)
Faithful == GxFaithful /\ S6aLastChunk

Headed(n) == Sent(n).header /\ Sent(n).length # 0

Asked(n) == Headed(n) /\ Sent(n).hop > 0 /\ Sent(n).app \in {GX, GY}

(* Every message of a segment that is done with is stored but for four     *)
(* reasons: it is cut off, one before it lacks a header or a length, one   *)
(* before it is of another application that ends the loop, or one before   *)
(* it is longer than all that follows it.                                  *)
GxLossExplained ==
  pc = "idle" /\ pkt.transport = "gx" /\ ReachesIp(pkt.layers) =>
    \A n \in DOMAIN pkt.starts :
      Asked(n) =>
        \/ n \in DOMAIN stored
        \/ pkt.starts[n] + Sent(n).length > pkt.payload
        \/ \E k \in 1 .. n - 1 : ~Headed(k) \/ Sent(k).app \in {SY, S6A}
        \/ \E k \in 1 .. n - 1 : Sent(k).length > pkt.payload - pkt.starts[k + 1]

(* What a packet must hold to keep its router: attributes without an end,  *)
(* or a chunk that takes the 16-bit offset back towards the beginning.     *)
Misled ==
  \E o \in DOMAIN pkt.body :
    \/ Endless(pkt.body[o])
    \/ pkt.transport = "s6a" /\ o < pkt.payload /\ o + pkt.body[o].chunk >= Width

(* Every other packet is done with: no payload keeps the router in a loop. *)
PacketDone == pc # "idle" ~> (pc = "idle" \/ Misled)
=============================================================================
