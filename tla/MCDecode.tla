------------------------------ MODULE MCDecode ------------------------------
(* Instances of Decode for TLC: packets of up to three messages, and some  *)
(* that lead the parser astray.                                            *)
EXTENDS Decode, TLC

GxMsg(app, hop, length, avps, header) ==
  [Nothing EXCEPT !.app = app, !.hop = hop, !.length = length, !.avps = avps, !.header = header]

GxMessages ==
  {GxMsg(GX, 1, 24, "some", TRUE), GxMsg(GX, 2, 48, "none", TRUE), GxMsg(GY, 3, 72, "some", TRUE),
   GxMsg(GX, 0, 20, "some", TRUE), GxMsg(SY, 4, 24, "none", TRUE),
   GxMsg(GX, 5, 24, "some", FALSE), GxMsg(GX, 6, 0, "none", TRUE)}

(* A chunk, of the given length, with a message in it. *)
Chunk(data, chunk, app, hop, avps, header) ==
  [data |-> data, chunk |-> chunk, header |-> header, length |-> 24, app |-> app, hop |-> hop, avps |-> avps]

Chunks ==
  {Chunk(TRUE, 40, S6A, 1, "some", TRUE), Chunk(TRUE, 36, S6A, 2, "none", TRUE),
   Chunk(TRUE, 40, GX, 3, "none", TRUE), Chunk(TRUE, 40, S6A, 4, "some", FALSE),
   Chunk(FALSE, 16, S6A, 5, "some", FALSE), Chunk(TRUE, 0, S6A, 6, "none", TRUE)}

UpTo3(S) == UNION {[1 .. n -> S] : n \in 1 .. 3}

(* Where the items of a sequence begin, and where the last one ends; one   *)
(* without a length takes 24 bytes here.                                   *)
Begins(first, items, size(_)) ==
  LET b[k \in 1 .. Len(items) + 1] ==
        IF k = 1 THEN first
        ELSE b[k - 1] + IF size(items[k - 1]) = 0 THEN 24 ELSE size(items[k - 1])
  IN  b

Layout(b, items) == [o \in {b[k] : k \in DOMAIN items} |-> items[CHOOSE k \in DOMAIN items : b[k] = o]]

Packet(transport, layers, first, items, size(_), cut) ==
  LET b == Begins(first, items, size)
  IN  [transport |-> transport, layers |-> layers, body |-> Layout(b, items),
       payload |-> b[Len(items) + 1] - cut, starts |-> SubSeq(b, 1, Len(items))]

GxLength(r) == r.length
ChunkLength(r) == r.chunk

Segment(layers, items, cut) == Packet("gx", layers, 0, items, GxLength, cut)
Bundle(items, cut) == Packet("s6a", <<"IP">>, SctpHeader, items, ChunkLength, cut)

AGx  == GxMsg(GX, 1, 24, "some", TRUE)
AS6a == Chunk(TRUE, 40, S6A, 1, "some", TRUE)

(* A message that is 65536 bytes longer than it is taken for, another one  *)
(* at the place where its attributes go on; and one with endless ones.     *)
LongSegment(kept) ==
  [transport |-> "gx", layers |-> <<"IP">>, payload |-> 48, starts |-> <<0>>,
   body |-> (0 :> GxMsg(GX, 7, Width + kept, "some", TRUE)) @@ (24 :> AGx)]

OddSegments ==
  {LongSegment(24), LongSegment(48), LongSegment(0),
   Segment(<<"IP">>, <<AGx, GxMsg(GX, 8, 24, "endless", TRUE), AGx>>, 0),
   Segment(<<"IP">>, <<GxMsg(SY, 8, 24, "endless", TRUE)>>, 0),
   [transport |-> "gx", layers |-> <<"IP">>, payload |-> 0, starts |-> <<>>, body |-> <<>>]}

(* Chunks without end: back to the first for ever, or to the middle of one *)
(* once; one that is padded; endless attributes; and no chunk at all.      *)
Bytes(body, payload, starts) ==
  [transport |-> "s6a", layers |-> <<"IP">>, body |-> body, payload |-> payload, starts |-> starts]

OddBundles ==
  {Bytes((12 :> Chunk(FALSE, 4, S6A, 1, "none", FALSE)) @@ (16 :> Chunk(FALSE, 65532, S6A, 1, "none", FALSE)),
         100, <<12, 16>>),
   Bytes((12 :> AS6a) @@ (52 :> Chunk(TRUE, 65496, S6A, 2, "none", TRUE)), 100, <<12, 52>>),
   Bytes((12 :> AS6a) @@ (52 :> Chunk(TRUE, 65508, S6A, 2, "none", TRUE))
           @@ (24 :> Chunk(TRUE, 80, S6A, 3, "none", TRUE)), 100, <<12, 52>>),
   Bytes((12 :> Chunk(FALSE, 18, S6A, 1, "none", FALSE)) @@ (32 :> AS6a)
           @@ (30 :> Chunk(TRUE, 60, S6A, 9, "some", TRUE)), 72, <<12, 32>>),
   Bundle(<<AS6a, Chunk(TRUE, 40, S6A, 8, "endless", TRUE)>>, 0),
   Bytes(<<>>, 8, <<>>)}

MCSegments ==
  {Segment(<<"IP">>, items, cut) : items \in UpTo3(GxMessages), cut \in {0, 4}}
    \cup {Segment(layers, <<AGx>>, 0) :
            layers \in {<<"8021Q", "8021Q", "IP">>, <<"8021Q", "PPPoE", "IP">>,
                        <<"MPLS", "IP">>, <<"MPLS", "MPLS", "IP">>}}
    \cup OddSegments

MCBundles ==
  {Bundle(items, cut) : items \in UpTo3(Chunks), cut \in {0, 4}} \cup OddBundles
=============================================================================
