------------------------------- MODULE MCAvp -------------------------------
(* Instances of Avp for TLC: messages encoded from trees of attributes, and *)
(* bodies of arbitrary words.                                               *)
EXTENDS Avp

Leaf(code, vendor, size, data, says) ==
  [code |-> code, vendor |-> vendor, size |-> size, data |-> data, kids |-> <<>>, says |-> says]
Nodes(code, vendor, kids, says) ==
  [code |-> code, vendor |-> vendor, size |-> 0, data |-> <<>>, kids |-> kids, says |-> says]
Num(code, vendor, attr, n) == Leaf(code, vendor, 4, <<n>>, attr :> n)
Txt(code, vendor, attr, size, data) == Leaf(code, vendor, size, data, attr :> [len |-> size, words |-> data])
Mute(code, vendor, n) == Leaf(code, vendor, 4, <<n>>, <<>>)

(* The encoding of Diameter: code, length, vendor id, data, padding.       *)
RECURSIVE Encode(_)
Encode(nodes) ==
  IF nodes = <<>> THEN <<>>
  ELSE LET node   == Head(nodes)
           inside == Encode(node.kids)
           header == IF node.vendor THEN 12 ELSE 8
       IN  <<node.code, header + node.size + 4 * Len(inside)>>
             \o (IF node.vendor THEN <<10415>> ELSE <<>>) \o node.data \o inside
             \o Encode(Tail(nodes))

Bytes(a, b, c, d) == a * 16777216 + b * 65536 + c * 256 + d

(* Mcc 404, network code 45 or 451, area 7, cell 9. *)
Plmn(third) == <<Bytes(0, 4, 4 + 16 * third, 84) * 256, Bytes(0, 7, 0, 9)>>
Location(type, third, says) ==
  Leaf(22, TRUE, 8, <<Bytes(type, 4, 4 + 16 * third, 84), Bytes(0, 7, 0, 9)>>,
       "mcc" :> 404 @@ "mnc" :> 45 @@ "lac" :> 7 @@ says)

Subscription(type, data, says) ==
  Nodes(443, FALSE, <<Mute(450, FALSE, type), Leaf(444, FALSE, 6, data, <<>>)>>, says)
Digits == [len |-> 6, words |-> <<31, 32>>]

Equipment(size, data, says) ==
  Nodes(458, FALSE, <<Mute(459, FALSE, 0), Leaf(460, FALSE, size, data, <<>>)>>, says)

GxNodes ==
  {Txt(263, FALSE, "sessionId", 5, <<11, 12>>), Txt(909, TRUE, "rai", 3, <<21>>),
   Txt(18, TRUE, "sgsnMccMnc", 4, <<22>>), Num(416, FALSE, "ccReqType", 1),
   Num(268, FALSE, "resultCode", 70001), Mute(296, FALSE, 3),
   Num(1032, TRUE, "ratType", 1004),
   Leaf(1032, TRUE, 4, <<65535>>, "ratType" :> -1),
   Leaf(295, FALSE, 4, <<9>>, "terminationCause" :> 0),
   Leaf(421, FALSE, 8, <<1, 77>>, "ccTotalOctets" :> 77),
   Leaf(1006, TRUE, 4, <<2>>, "eventTrigger" :> 2), Leaf(1006, TRUE, 4, <<13>>, "eventTrigger" :> 13),
   Leaf(21, TRUE, 1, <<Bytes(6, 0, 0, 0)>>, "ratType" :> 6),
   Leaf(6, TRUE, 4, <<16909060>>, "sgsnAddress" :> 16909060),
   Location(0, 15, "cellId" :> 9 @@ "userLocationInfo" :> <<404, 45, 7, 9>>),
   Location(1, 1, "sac" :> 9 @@ "userLocationInfo" :> <<404, 451, 7, 9>>),
   Leaf(5, TRUE, 17, <<0, 0, 0, Bytes(0, 51, 70, 56), Bytes(48, 0, 0, 0)>>,
        "maxReqBwUl" :> 63 @@ "maxReqBwDl" :> 576),
   Subscription(0, <<31, 32>>, "msisdn" :> Digits), Subscription(1, <<31, 32>>, "imsi" :> Digits),
   Subscription(2, <<31, 32>>, <<>>),
   Nodes(443, FALSE, <<Leaf(444, FALSE, 6, <<31, 32>>, <<>>), Mute(450, FALSE, 0)>>, <<>>),
   Equipment(16, <<1, 2, 3, 4>>, "imei" :> [len |-> 16, words |-> <<1, 2, 3, 4>>]),
   Equipment(8, <<1, 2>>, "imei" :> [len |-> 16, words |-> <<1, 2>>]),
   Nodes(1016, TRUE, <<Num(516, TRUE, "maxReqBwUl", 64), Num(515, TRUE, "maxReqBwDl", 128),
                       Num(1028, TRUE, "qosUpgrade", 8)>>, <<>>),
   Nodes(456, FALSE, <<Nodes(431, FALSE, <<Leaf(421, FALSE, 8, <<0, 78>>, "ccTotalOctets" :> 78)>>, <<>>),
                       Num(448, FALSE, "validityTime", 600)>>, <<>>),
   Nodes(873, TRUE, <<Nodes(874, TRUE, <<Num(1027, TRUE, "ipCanType", 5)>>, <<>>)>>, <<>>),
   Nodes(431, FALSE, <<>>, <<>>)}

(* Attribute 8 by the application; a code above 65535 loses its upper half.*)
GxOnly == {Leaf(8, FALSE, 4, <<16909061>>, "framedIP" :> 16909061),
           Leaf(65536 + 268, FALSE, 4, <<5>>, "resultCode" :> 5)}
GyOnly == {Txt(8, TRUE, "3gppImsiMccMnc", 6, <<41, 42>>)}

Feature(id, list) ==
  Nodes(628, TRUE, <<Num(629, TRUE, "featureListId", id),
                     Leaf(630, TRUE, 4, <<list>>, "featureList" :> <<id, list>>)>>, <<>>)

S6aNodes ==
  {Txt(1, FALSE, "imsi", 7, <<51, 52>>), Txt(600, TRUE, "visitedNwIdentifier", 2, <<53>>),
   Num(268, FALSE, "resultCode", 2002), Mute(296, FALSE, 3),
   Leaf(1493, TRUE, 4, <<65537>>, "imsVoiceOverPsSessionFlag" :> 1),
   Leaf(1407, TRUE, 3, <<Plmn(15)[1]>>, "mcc" :> 404 @@ "mnc" :> 45),
   Leaf(1407, TRUE, 3, <<Plmn(1)[1]>>, "mcc" :> 404 @@ "mnc" :> 451),
   Leaf(1433, TRUE, 5, <<61, 62>>, <<>>),
   Leaf(701, TRUE, 5, <<Bytes(18, 52, 86, 120), Bytes(33, 0, 0, 0)>>,
        "msisdn" :> <<33, 67, 101, 135, 18>> @@ "resultCode" :> 2001),
   Feature(1, 100), Feature(2, 200),
   Nodes(1401, TRUE, <<Txt(1402, TRUE, "imei", 14, <<71, 72, 73, 74>>)>>, <<>>),
   Nodes(1400, TRUE, <<Num(1424, TRUE, "subscriberStatus", 1),
                       Nodes(1435, TRUE, <<Num(515, TRUE, "maxReqBwDl", 32)>>, <<>>),
                       Num(516, TRUE, "maxReqBwUl", 16)>>, <<>>)}

UpTo2(S) == {<<a>> : a \in S} \cup {<<a, b>> : a \in S, b \in S}

Tree(proto, app, tree) ==
  LET words == Encode(tree)
  IN  [proto |-> proto, version |-> 1, app |-> app, length |-> 20 + 4 * Len(words),
       left |-> 20 + 4 * Len(words), words |-> words, tree |-> tree]

(* Bodies of any words: codes without a function, of a text, of a group    *)
(* that stops at zero and of one that does not, and odd lengths.           *)
Words(proto, n) == [1 .. n -> IF proto = "gx" THEN {0, 8, 10, 20, 263, 456, 65532} ELSE {0, 8, 12, 1400, 1435, 65533}]
Raw(proto, app, n, length) ==
  {[proto |-> proto, version |-> 1, app |-> app, length |-> length, left |-> 40, words |-> words,
    tree |-> <<>>] : words \in Words(proto, n)}

Headers ==
  {[proto |-> proto, version |-> version, app |-> app, length |-> length, left |-> 28,
    words |-> <<268, 12, 3>>, tree |-> <<>>] :
     proto \in {"gx", "s6a"}, version \in {0, 1}, app \in {GX, GY, SY, S6A}, length \in {0, 12, 28, 32, 65536}}

(* fn_getUserInfo in an attribute of its own length. *)
SubTypes ==
  {[proto |-> "gx", version |-> 1, app |-> GX, length |-> 52, left |-> 52,
    words |-> <<443, 20, 450, len, type, code, 12, data, 0>>, tree |-> <<>>] :
     len \in {0, 8, 12, 45}, type \in {0, 1, 2}, code \in {444, 450, 8}, data \in {0, 1}}

MCMessages ==
  {Tree("gx", GX, tree) : tree \in UpTo2(GxNodes \cup GxOnly)}
    \cup {Tree("gx", GY, tree) : tree \in UpTo2(GyOnly \cup {Num(448, FALSE, "validityTime", 1)})}
    \cup {Tree("s6a", S6A, tree) : tree \in UpTo2(S6aNodes)}
    \cup {Tree("s6a", S6A, <<Feature(1, 1), Feature(2, 2), Feature(1, 3)>>)}
    \cup Raw("gx", GX, 4, 36) \cup Raw("s6a", S6A, 4, 36)
    \cup Raw("gx", GX, 3, 28) \cup Raw("s6a", S6A, 5, 40)
    \cup Headers \cup SubTypes
=============================================================================
