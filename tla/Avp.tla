-------------------------------- MODULE Avp --------------------------------
(***************************************************************************)
(* How GxParser and S6aParser walk through the attributes (AVPs) of one    *)
(* Diameter message.  The body is read in words of four bytes: a code, the *)
(* flags and the length, a vendor id if the attribute is one of a vendor,  *)
(* and the data, padded to a word.  A code and a length are kept in 16     *)
(* bits.  An attribute that groups others is copied into a buffer of its   *)
(* own, which is walked through the same way before its parent goes on.    *)
(* The flags are never looked at: the table says which codes have a vendor.*)
(***************************************************************************)
EXTENDS Integers, Sequences, SequencesExt, TLC

CONSTANTS
  GX, GY, SY, S6A,  \* application identifiers
  Unknown,          \* a word or byte behind the end of a buffer
  Messages          \* the messages that may come: [proto, version, app, length, left, words, tree]

VARIABLES
  msg,     \* the message
  pc,      \* "header", "avps", "userInfo" (in fn_getUserInfo), "done";
           \* "trapped": the same attribute is decoded for ever;
           \* "wild": memory behind the packet or a buffer was used;
           \* "crashed": a copy of a negative number of bytes
  frames,  \* the buffers being walked through, the innermost last
  sub,     \* offset and subscriberType of fn_getUserInfo
  attrs    \* what has been stored in msgObj->Diameter[chunkNo], by attribute

vars == <<msg, pc, frames, sub, attrs>>

uint16(n) == n % 65536
int16(n) == IF uint16(n) < 32768 THEN uint16(n) ELSE uint16(n) - 65536

(* Faulty variant: the length is taken as it is. *)
Unpadded(n) == uint16(n)

(* paddingAVP: the next multiple of four, in 16 bits.                      *)
paddingAVP(n) == uint16(((n + 3) \div 4) * 4)

-----------------------------------------------------------------------------
(* The buffer being walked through, and words and bytes in it.             *)
Top == Last(frames)

Word(o) == IF o + 4 <= Top.size THEN msg.words[((Top.base + o) \div 4) + 1] ELSE Unknown
Bits(n, shift, width) == (n \div 2^shift) % 2^width
ByteAt(o) == Bits(Word(o - (o % 4)), 8 * (3 - (o % 4)), 8)

(* Code and length of the attribute at the index, as decodeElement reads   *)
(* them, and by how much the index moves on.                               *)
avpCode == uint16(Word(Top.index))
AVPLen == uint16(Word(Top.index + 4))
StepLen == paddingAVP(AVPLen)
Body == Top.index + 8

-----------------------------------------------------------------------------
(* The tables: what the function of a code does.  Text and Number store    *)
(* what stands skip bytes after the header, Group walks through it.        *)
Text(attr, skip) == [kind |-> "text", attr |-> attr, skip |-> skip]
Number(attr, skip) == [kind |-> "number", attr |-> attr, skip |-> skip, need |-> skip + 4]
Group(skip, stops) == [kind |-> "group", skip |-> skip, stops |-> stops]
Other(kind, need) == [kind |-> kind, need |-> need]

GxIdentity ==
  263 :> Text("sessionId", 0) @@ 443 :> [kind |-> "userInfo"] @@ 416 :> Number("ccReqType", 0) @@
  295 :> Other("terminationCause", 4) @@ 264 :> Text("originHost", 0) @@
  293 :> Text("destinationHost", 0) @@ 1021 :> Number("bearerOperation", 4) @@
  1027 :> Number("ipCanType", 4) @@ 1032 :> Number("ratType", 4) @@ 21 :> Other("3gppRatType", 8) @@
  8 :> [kind |-> "byApplication"]

GxBearer ==
  458 :> Other("userEquipment", 12) @@ 268 :> Number("resultCode", 0) @@
  1024 :> Number("networkReqSupported", 4) @@ 1000 :> Number("bearerUsage", 4) @@
  1006 :> Other("eventTrigger", 8) @@ 30 :> Text("callingStationId", 0) @@
  6 :> Other("sgsnAddress", 8) @@ 909 :> Text("rai", 4) @@ 22 :> Other("userLocInfo", 12)

(* The class identifier goes where the upgrade goes. *)
GxQos ==
  1030 :> Number("qosUpgrade", 4) @@ 1016 :> Group(4, FALSE) @@ 1028 :> Number("qosUpgrade", 4) @@
  515 :> Number("maxReqBwDl", 4) @@ 516 :> Number("maxReqBwUl", 4) @@
  1025 :> Number("guarantedBrDl", 4) @@ 1026 :> Number("guarantedBrUl", 4) @@
  1023 :> Number("bearerCtrlMode", 4)

GxCharging ==
  456 :> Group(0, FALSE) @@ 18 :> Text("sgsnMccMnc", 4) @@ 455 :> Number("multipleSerInd", 0) @@
  461 :> Text("serviceContextId", 0) @@ 431 :> Group(0, FALSE) @@ 421 :> Other("ccTotalOctets", 8) @@
  448 :> Number("validityTime", 0) @@ 869 :> Number("volumeQuotaThreshold", 4) @@
  285 :> Number("reAuthRequestType", 0) @@ 873 :> Group(4, FALSE) @@
  5 :> Other("negotiatedQos", 24) @@ 874 :> Group(4, FALSE)

gxAVPType == GxIdentity @@ GxBearer @@ GxQos @@ GxCharging

S6aIdentity ==
  263 :> Text("sessionId", 0) @@ 1 :> Text("imsi", 0) @@ 1407 :> Other("visitedPlmn", 8) @@
  264 :> Text("originHost", 0) @@ 293 :> Text("destinationHost", 0) @@ 268 :> Number("resultCode", 0) @@
  1032 :> Number("ratType", 4) @@ 1405 :> Number("ulrFlags", 4) @@ 1401 :> Group(4, FALSE) @@
  1402 :> Text("imei", 4) @@ 279 :> Number("failedAvp", 0) @@ 1615 :> Number("srvccSupportFlag", 4) @@
  1492 :> Number("imsVoiceOverPsSessionFlag", 4) @@ 1493 :> Number("imsVoiceOverPsSessionFlag", 4) @@
  281 :> Text("errorMsg", 0) @@ 1420 :> Number("cancelType", 4)

(* fn_getSubscriptionData leaves its loop at a length of zero, the other   *)
(* groups do not; fn_getSubscriptionDataStnSr stores nothing.              *)
S6aSubscription ==
  1400 :> Group(4, TRUE) @@ 1433 :> [kind |-> "none"] @@ 600 :> Text("visitedNwIdentifier", 4) @@
  493 :> Text("serviceSelection", 0) @@ 628 :> Group(4, FALSE) @@ 629 :> Number("featureListId", 4) @@
  630 :> Other("featureList", 8) @@ 1424 :> Number("subscriberStatus", 4) @@ 701 :> Other("msisdn", 12) @@
  1435 :> Group(4, FALSE) @@ 515 :> Number("maxReqBwDl", 4) @@ 516 :> Number("maxReqBwUl", 4)

s6aAVPType == S6aIdentity @@ S6aSubscription

FramedIpOrImsiMccMnc ==
  CASE msg.app = GX -> Other("framedIP", 4)
    [] msg.app = GY -> Text("3gppImsiMccMnc", 4)
    [] OTHER -> [kind |-> "none"]

Handler ==
  LET table == IF msg.proto = "gx" THEN gxAVPType ELSE s6aAVPType
  IN  IF avpCode \notin DOMAIN table THEN [kind |-> "none"]
      ELSE IF table[avpCode].kind = "byApplication" THEN FramedIpOrImsiMccMnc
      ELSE table[avpCode]

-----------------------------------------------------------------------------
(* What the functions make of the data.                                    *)

(* getAVPValue: n bytes from o on, by the words they stand in.             *)
getAVPValue(n, o) ==
  IF n <= 0 THEN [len |-> 0, words |-> <<>>]
  ELSE [len |-> n, words |-> [k \in 1 .. (n + 3) \div 4 |-> Word(o + 4 * (k - 1))]]

Narrow ==
  {"ccReqType", "networkReqSupported", "bearerOperation", "ipCanType", "bearerUsage",
   "bearerCtrlMode", "srvccSupportFlag", "imsVoiceOverPsSessionFlag", "cancelType",
   "subscriberStatus", "featureListId"}

(* The number as the member of its width holds it. *)
Held(attr, n) ==
  IF attr = "ratType" THEN int16(n) ELSE IF attr \in Narrow THEN uint16(n) ELSE n

Stored(attr, default) == IF attr \in DOMAIN attrs THEN attrs[attr] ELSE default

TerminationCause(o) ==
  "terminationCause" :> (IF uint16(Word(o)) \in 1 .. 8 THEN uint16(Word(o)) ELSE 0)

(* fn_getUserEquipment goes by the place, not by the codes: a type, then   *)
(* 16 digits as they are, or 8 bytes as hexadecimal digits.                *)
UserEquipment(o) ==
  LET len == uint16(Word(o + 16)) - 8
  IN  IF Word(o + 8) # 0 THEN <<>>
      ELSE "imei" :> (CASE len = 16 -> getAVPValue(16, o + 20)
                        [] len = 8 -> [len |-> 16, words |-> <<Word(o + 20), Word(o + 24)>>]
                        [] OTHER -> getAVPValue(0, o))

(* Digits of the country and network codes, two to a byte. *)
Mcc(o) == 100 * (ByteAt(o) % 16) + 10 * (ByteAt(o) \div 16) + (ByteAt(o + 1) % 16)
Mnc2(o) == 10 * (ByteAt(o + 2) % 16) + (ByteAt(o + 2) \div 16)
Mnc3rd(o) == ByteAt(o + 1) \div 16
Short(o) == 256 * ByteAt(o) + ByteAt(o + 1)

(* fn_gxGet3GppUserLocInfo, getUserLocInfo: the network code is stored     *)
(* before its third digit is looked at, the text has all digits.  Whether  *)
(* a code of all ones gets another digit is left to the stack.             *)
UserLocInfo(o, garbage) ==
  LET long == \/ Mnc3rd(o + 1) # 15
              \/ garbage /\ ByteAt(o + 1) = 255 /\ ByteAt(o + 2) = 255 /\ ByteAt(o + 3) = 255
      full == IF long THEN 10 * Mnc2(o + 1) + Mnc3rd(o + 1) ELSE Mnc2(o + 1)
      area == CASE ByteAt(o) = 0 -> "cellId" :> Short(o + 6)
                [] ByteAt(o) = 1 -> "sac" :> Short(o + 6)
                [] OTHER -> <<>>
  IN  "userLocationInfo" :> <<Mcc(o + 1), full, Short(o + 4), Short(o + 6)>> @@
      "lac" :> Short(o + 4) @@ "mcc" :> Mcc(o + 1) @@ "mnc" :> Mnc2(o + 1) @@ area

(* getMccMnc of the S6a parser.                                            *)
VisitedPlmn(o) ==
  "mcc" :> Mcc(o) @@
  "mnc" :> (IF Mnc3rd(o) # 15 THEN 100 * (ByteAt(o + 2) % 16) + 10 * (ByteAt(o + 2) \div 16) + Mnc3rd(o)
            ELSE Mnc2(o))

(* Two characters read as a hexadecimal number, 0 if the first is no digit *)
HexDigit(c) ==
  CASE c \in 48 .. 57 -> c - 48 [] c \in 65 .. 70 -> c - 55 [] c \in 97 .. 102 -> c - 87 [] OTHER -> -1
Hex(c, d) ==
  IF HexDigit(c) < 0 THEN 0 ELSE IF HexDigit(d) < 0 THEN HexDigit(c) ELSE 16 * HexDigit(c) + HexDigit(d)

getMaxBitRate(o) ==
  LET final == Hex(ByteAt(o), ByteAt(o + 1))
  IN  CASE final \in 1 .. 63 -> final
        [] final \in 64 .. 127 -> 64 + (final - 64) * 8
        [] final \in 128 .. 254 -> 576 + (final - 128) * 64
        [] OTHER -> 0

(* The bits of a list go to the list of the identifier that came last.     *)
FeatureList(o) ==
  LET id    == Stored("featureListId", 0)
      lists == Stored("featureList", <<>>)
      bits  == IF id \in DOMAIN lists THEN lists[id] ELSE <<>>
  IN  "featureList" :> (id :> Append(bits, Word(o)) @@ lists)

(* fn_getMsisdn: five bytes with their halves swapped, and a result code.  *)
Msisdn(o) ==
  "msisdn" :> [k \in 1 .. 5 |-> 16 * (ByteAt(o + k - 1) % 16) + (ByteAt(o + k - 1) \div 16)] @@
  "resultCode" :> 2001

(* The functions that are not just a text or a number; o is the offset     *)
(* they are called with.                                                   *)
Special(kind, o, garbage) ==
  CASE kind = "terminationCause" -> TerminationCause(o)
    [] kind = "3gppRatType" -> "ratType" :> ByteAt(o + 4)
    [] kind = "framedIP" -> "framedIP" :> Word(o)
    [] kind = "userEquipment" -> UserEquipment(o)
    [] kind = "eventTrigger" -> "eventTrigger" :> Append(Stored("eventTrigger", <<>>), uint16(Word(o + 4)))
    [] kind = "sgsnAddress" -> "sgsnAddress" :> Word(o + 4)
    [] kind = "userLocInfo" -> UserLocInfo(o + 4, garbage)
    [] kind = "ccTotalOctets" -> "ccTotalOctets" :> Word(o + 4)
    [] kind = "negotiatedQos" -> "maxReqBwUl" :> getMaxBitRate(o + 17) @@ "maxReqBwDl" :> getMaxBitRate(o + 19)
    [] kind = "visitedPlmn" -> VisitedPlmn(o + 4)
    [] kind = "featureList" -> FeatureList(o + 4)
    [] kind = "msisdn" -> Msisdn(o + 4)

-----------------------------------------------------------------------------
Init ==
  /\ msg \in Messages
  /\ pc = "header"
  /\ frames = <<>>
  /\ sub = [at |-> 0, type |-> -1]
  /\ attrs = <<>>

(* decodeHeader: the offset it returns is 0, or 1, which is not 0, for     *)
(* another version; then length is still 0 and there is nothing to decode. *)
GxHeader ==
  /\ msg.version = 1
  /\ uint16(msg.length) # 0 /\ uint16(msg.length) <= msg.left
  /\ msg.app \notin {SY, S6A}

S6aHeader ==
  /\ msg.version = 1
  /\ uint16(msg.length) # 0
  /\ msg.app = S6A

(* The loop of decodeAVP ends before the length less the 20 bytes of the   *)
(* header; S6aParser's also at an attribute of length zero.                *)
decodeHeader ==
  /\ pc = "header"
  /\ IF IF msg.proto = "gx" THEN GxHeader ELSE S6aHeader
     THEN /\ frames' = <<[base |-> 0, size |-> 4 * Len(msg.words), limit |-> uint16(msg.length) - 20,
                          index |-> 0, stops |-> msg.proto = "s6a", step |-> 0]>>
          /\ pc' = "avps"
     ELSE pc' = "done" /\ UNCHANGED frames
  /\ UNCHANGED <<msg, sub, attrs>>

(* The memory the function needs. *)
Needed ==
  IF Handler.kind \in {"none", "text", "group", "userInfo"} THEN 0
  ELSE IF Handler.kind = "userEquipment" /\ Body + 12 <= Top.size /\ Word(Body + 8) = 0 THEN 20
  ELSE Handler.need

Inside == pc = "avps" /\ Top.index < Top.limit
Readable == Body <= Top.size /\ Body + Needed <= Top.size

(* At an attribute all of which that is needed can be read. *)
Walking == Inside /\ Readable

(* Faulty variant: a length of zero ends no loop. *)
NeverStops(fs, step) ==
  /\ frames' = [fs EXCEPT ![Len(fs)].index = uint16(@ + step)]
  /\ pc' = IF step > 0 THEN "avps" ELSE "trapped"

(* Back in the loop of the innermost buffer: the index moves on; a length  *)
(* of zero ends the loop, or comes again and again.                        *)
MoveOn(fs, step) ==
  IF step > 0 THEN frames' = [fs EXCEPT ![Len(fs)].index = uint16(@ + step)] /\ pc' = "avps"
  ELSE IF Last(fs).stops THEN frames' = [fs EXCEPT ![Len(fs)].index = Last(fs).limit] /\ pc' = "avps"
  ELSE frames' = fs /\ pc' = "trapped"

(* decodeElement with a function that stores attributes, or none. *)
Stores(assignment) ==
  /\ Walking
  /\ attrs' = assignment @@ attrs
  /\ MoveOn(frames, StepLen)
  /\ UNCHANGED <<msg, sub>>

SkipAvp == Walking /\ Handler.kind = "none" /\ Stores(<<>>)

TextAvp ==
  /\ Walking /\ Handler.kind = "text"
  /\ Stores(Handler.attr :> getAVPValue(AVPLen - 8, Body + Handler.skip))

NumberAvp ==
  /\ Walking /\ Handler.kind = "number"
  /\ Stores(Handler.attr :> Held(Handler.attr, Word(Body + Handler.skip)))

SpecialAvp ==
  /\ Walking /\ Handler.kind \notin {"none", "text", "number", "group", "userInfo"}
  /\ \E garbage \in BOOLEAN : Stores(Special(Handler.kind, Body, garbage))

(* fn_getQoSInformation and the like: malloc, memcpy and the loop. *)
GroupAvp ==
  /\ Walking /\ Handler.kind = "group"
  /\ LET start == Body + Handler.skip
         size  == AVPLen - 8 - Handler.skip
     IN  CASE size < 0 -> pc' = "crashed" /\ UNCHANGED frames
           [] size >= 0 /\ start + size > Top.size -> pc' = "wild" /\ UNCHANGED frames
           [] OTHER ->
                /\ frames' = Append(frames, [base |-> Top.base + start, size |-> size, limit |-> size,
                                             index |-> 0, stops |-> Handler.stops, step |-> StepLen])
                /\ UNCHANGED pc
  /\ UNCHANGED <<msg, sub, attrs>>

(* The end of a group: free, and on with the buffer it stands in. *)
EndGroup ==
  /\ pc = "avps" /\ Len(frames) > 1 /\ Top.index >= Top.limit
  /\ MoveOn(Front(frames), Top.step)
  /\ UNCHANGED <<msg, sub, attrs>>

EndMessage ==
  /\ pc = "avps" /\ Len(frames) = 1 /\ Top.index >= Top.limit
  /\ pc' = "done"
  /\ UNCHANGED <<msg, frames, sub, attrs>>

(* A header or a number that lies behind the buffer. *)
BehindBuffer ==
  /\ Inside /\ ~Readable
  /\ pc' = "wild"
  /\ UNCHANGED <<msg, frames, sub, attrs>>

-----------------------------------------------------------------------------
(* fn_getUserInfo: from the type to the data by goto, whatever lies        *)
(* between and however long the whole attribute is.                        *)
EnterUserInfo ==
  /\ Walking /\ Handler.kind = "userInfo"
  /\ sub' = [at |-> Body, type |-> -1]
  /\ pc' = "userInfo"
  /\ UNCHANGED <<msg, frames, attrs>>

SubLen == uint16(Word(sub.at + 4))
SubReadable == sub.at + 8 <= Top.size /\ (Word(sub.at) = 450 => sub.at + 12 <= Top.size)

(* The type, 0 for an MSISDN and 1 for an IMSI, keeps the loop going.      *)
SubscriptionType ==
  /\ pc = "userInfo" /\ SubReadable
  /\ SubLen <= 44 /\ Word(sub.at) = 450 /\ int16(Word(sub.at + 8)) <= 1
  /\ sub' = [at |-> uint16(sub.at + paddingAVP(SubLen)), type |-> int16(Word(sub.at + 8))]
  /\ pc' = IF paddingAVP(SubLen) = 0 THEN "trapped" ELSE "userInfo"
  /\ UNCHANGED <<msg, frames, attrs>>

(* The data, or anything else, ends it. *)
SubscriptionEnds ==
  /\ pc = "userInfo" /\ SubReadable
  /\ SubLen > 44 \/ Word(sub.at) # 450 \/ int16(Word(sub.at + 8)) > 1
  /\ attrs' =
       IF SubLen <= 44 /\ Word(sub.at) = 444 /\ sub.type \in {0, 1}
       THEN (IF sub.type = 0 THEN "msisdn" ELSE "imsi") :> getAVPValue(SubLen - 8, sub.at + 8) @@ attrs
       ELSE attrs
  /\ MoveOn(frames, StepLen)
  /\ UNCHANGED <<msg, sub>>

SubscriptionWild ==
  /\ pc = "userInfo" /\ ~SubReadable
  /\ pc' = "wild"
  /\ UNCHANGED <<msg, frames, sub, attrs>>

-----------------------------------------------------------------------------
Next ==
  \/ decodeHeader
  \/ SkipAvp \/ TextAvp \/ NumberAvp \/ SpecialAvp
  \/ GroupAvp \/ EndGroup \/ EndMessage \/ BehindBuffer
  \/ EnterUserInfo \/ SubscriptionType \/ SubscriptionEnds \/ SubscriptionWild

Spec == Init /\ [][Next]_vars

(* The router's thread goes on decoding. *)
FairSpec == Spec /\ WF_vars(Next)

-----------------------------------------------------------------------------
(* The reference: a message that was encoded from a tree of attributes,    *)
(* each saying something of its own (node.says), perhaps with others in it *)
(* (node.kids).  What is said last, in reading order, is what counts.      *)
RECURSIVE Sayings(_)
Sayings(nodes) ==
  IF nodes = <<>> THEN <<>>
  ELSE <<Head(nodes).says>> \o Sayings(Head(nodes).kids) \o Sayings(Tail(nodes))

Said(attr) == SelectSeq(Sayings(msg.tree), LAMBDA says : attr \in DOMAIN says)

(* What is kept of what was said of an attribute: event triggers and       *)
(* feature lists add up, of the others the last one stays.                 *)
Kept(attr) ==
  LET said == [n \in DOMAIN Said(attr) |-> Said(attr)[n][attr]]
  IN  CASE attr = "eventTrigger" -> said
        [] attr = "featureList" ->
             [id \in {said[n][1] : n \in DOMAIN said} |->
                LET mine == SelectSeq(said, LAMBDA pair : pair[1] = id) IN [n \in DOMAIN mine |-> mine[n][2]]]
        [] OTHER -> Last(said)

(* Texts of a vendor come out four bytes too long: the vendor id is        *)
(* skipped, and counted as a part of the text.                             *)
VendorTexts == {"3gppImsiMccMnc", "rai", "sgsnMccMnc", "visitedNwIdentifier"}
                  \cup (IF msg.proto = "s6a" THEN {"imei"} ELSE {})

Agrees(attr) ==
  IF attr \in VendorTexts
  THEN /\ attrs[attr].len = Kept(attr).len + 4
       /\ IsPrefix(Kept(attr).words, attrs[attr].words)
  ELSE attrs[attr] = Kept(attr)

(* A message encoded from a tree is decoded to its end, without using      *)
(* memory it does not own for a code, a length or a number, and what is    *)
(* stored is what the attributes say, those inside groups included: no     *)
(* more, no less, and for an attribute that comes twice the last one.      *)
DecodesTree ==
  msg.tree # <<>> =>
    /\ pc \notin {"trapped", "wild", "crashed"}
    /\ pc = "done" =>
         /\ DOMAIN attrs = UNION {DOMAIN says : says \in Range(Sayings(msg.tree))}
         /\ \A attr \in DOMAIN attrs : Agrees(attr)

(* An attribute whose length is more than is left of its buffer, or which  *)
(* is padded to zero in a loop that does not end there.                    *)
Misleading ==
  \/ pc = "userInfo" /\ SubReadable /\ SubLen = 0
  \/ /\ Walking
     /\ AVPLen > Top.limit - Top.index \/ (StepLen = 0 /\ ~Top.stops)

(* Decoding ends, by a return or a crash, unless the message has such an   *)
(* attribute: lengths shorter than the header of an attribute, groups that *)
(* do not add up and zero lengths where they are caught do not keep the    *)
(* router in a loop.                                                       *)
EndsUnlessMisled == <>(pc \in {"done", "wild", "crashed"} \/ Misleading)
=============================================================================
