------------------------------- MODULE Bytes -------------------------------
(***************************************************************************)
(* Small functions of the probe without state: the options of a TCP        *)
(* header, hexadecimal text, rings of hours, minutes and ten-second        *)
(* ranges, networks, lists in a line of text, the running time.  The       *)
(* variable is what the first of them is tried on.                         *)
(***************************************************************************)
EXTENDS Integers, SequencesExt, Bitwise

CONSTANTS
  Bits,       \* of an address, 32 in the build
  MaxOptions  \* bound: options of a header

VARIABLE options

EOL == 0  NOP == 1  TIMESTAMP == 8   \* TCPOPT_...

(* Options as senders encode them, and two that no one should send.        *)
Stamp == <<TIMESTAMP, 10, 1, 2, 3, 4, 5, 6, 7, 8>>
Options ==
  {<<NOP>>, <<EOL>>, <<2, 4, 5, 180>>, <<4, 2>>, Stamp, <<TIMESTAMP, 6, 1, 2, 3, 4>>,
   <<5, 0>>, <<5>>, <<30, 40>>}

BytesInit == options \in BoundedSeq(Options, MaxOptions)

(* A header is a multiple of four bytes long. *)
Padded == LET s == FlattenSeq(options) IN s \o [i \in 1 .. (-Len(s)) % 4 |-> EOL]

-----------------------------------------------------------------------------
(* ProbeUtility::parseTcpTimeStamp, from a position with len bytes left;   *)
(* `last' is the last position it has looked at.                           *)
RECURSIVE Walk(_, _, _)
Walk(s, at, len) ==
  LET none(last) == [found |-> FALSE, tsval |-> <<>>, tsecr |-> <<>>, last |-> last]
      opLen      == s[at + 1]
  IN  IF len = 0 THEN none(at - 1)
      ELSE IF s[at] = EOL THEN none(at)
      ELSE IF s[at] = NOP THEN Walk(s, at + 1, len - 1)
      ELSE IF opLen < 2 \/ opLen > len THEN none(at + 1)
      ELSE IF s[at] = TIMESTAMP /\ opLen = 10
           THEN [found |-> TRUE, tsval |-> SubSeq(s, at + 2, at + 5), tsecr |-> SubSeq(s, at + 6, at + 9),
                 last |-> at + 9]
      ELSE Walk(s, at + opLen, len - opLen)

(* What follows the header in memory begins with any byte. *)
parseTcpTimeStamp(header, following) == Walk(Append(header, following), 1, Len(header))

(* The first stamp, unless something ends the list before it; one byte of *)
(* an option may be read beyond the header.                               *)
StampsFound ==
  \A following \in {0, 1, 2, 255} :
    LET header == Padded
        ends   == SelectInSeq(options, LAMBDA o : o \in {<<EOL>>, <<5, 0>>, <<5>>, <<30, 40>>})
        stamp  == SelectInSeq(options, LAMBDA o : o = Stamp)
        result == parseTcpTimeStamp(header, following)
    IN  /\ result.last <= Len(header) + 1
        /\ stamp # 0 /\ (ends = 0 \/ stamp < ends) =>
             result.found /\ result.tsval = <<1, 2, 3, 4>> /\ result.tsecr = <<5, 6, 7, 8>>
        /\ result.found => result.last <= Len(header) /\ stamp # 0

-----------------------------------------------------------------------------
(* Hexadecimal text. *)
HexLkp2(n) == IF n < 10 THEN 48 + n ELSE 55 + n
Byte2Hex(b) == <<HexLkp2(b \div 16), HexLkp2(b % 16)>>
Hex2Byte(n1, n2) ==
  LET digit(c) == IF c \in 48 .. 57 THEN c - 48 ELSE (IF c \in 97 .. 122 THEN c - 32 ELSE c) - 55
  IN  16 * digit(n1) + digit(n2)

(* An address as "C0.A8.01.02", and back to its four bytes. *)
Long2IPHex(address) ==
  Byte2Hex(address[1]) \o <<46>> \o Byte2Hex(address[2]) \o <<46>> \o Byte2Hex(address[3]) \o <<46>>
    \o Byte2Hex(address[4])
ExtractIP(s) ==
  <<Hex2Byte(s[1], s[2]), Hex2Byte(s[4], s[5]), Hex2Byte(s[7], s[8]), Hex2Byte(s[10], s[11])>>

(* Only lower case digits count, others hold their place. *)
HextoDigits(s) ==
  LET digit(c) == IF c \in 48 .. 57 THEN c - 48 ELSE IF c \in 97 .. 102 THEN c - 87 ELSE 0
  IN  FoldLeft(LAMBDA sum, i : sum + digit(s[Len(s) + 1 - i]) * 16 ^ (i - 1), 0, [i \in DOMAIN s |-> i])

getLength(packet, offset) ==
  LET lower(n) == IF n < 10 THEN 48 + n ELSE 87 + n
      text == FlattenSeq([i \in 1 .. 3 |-> <<lower(packet[offset + i] \div 16), lower(packet[offset + i] % 16)>>])
  IN  HextoDigits(text)

HexReturns ==
  /\ \A b \in 0 .. 255 : Hex2Byte(Byte2Hex(b)[1], Byte2Hex(b)[2]) = b
  /\ \A a \in {<<192, 168, 1, 2>>, <<10, 255, 0, 250>>} : ExtractIP(Long2IPHex(a)) = a
  /\ \A a, b, c \in {0, 1, 10, 171, 255} : getLength(<<9, a, b, c>>, 1) = 65536 * a + 256 * b + c

-----------------------------------------------------------------------------
(* Addresses as text, a character by its code; the text begins anew.       *)
Dot == 46
Decimal(n) ==
  IF n < 10 THEN <<48 + n>> ELSE IF n < 100 THEN <<48 + (n \div 10), 48 + (n % 10)>>
  ELSE <<48 + (n \div 100), 48 + ((n \div 10) % 10), 48 + (n % 10)>>
LowerHex(b) == [i \in 1 .. 2 |-> LET d == IF i = 1 THEN b \div 16 ELSE b % 16
                               IN  IF d < 10 THEN 48 + d ELSE 87 + d]

(* The texts of what is between dots, with a dot behind the first three.   *)
Joined(texts) == FlattenSeq([i \in DOMAIN texts |-> IF i < 4 THEN Append(texts[i], Dot) ELSE texts[i]])

getIPHex(numbers) == Joined([i \in DOMAIN numbers |-> LowerHex(numbers[i])])
fillIP(numbers) ==
  Joined([i \in DOMAIN numbers |->
            [k \in 1 .. 3 - Len(Decimal(numbers[i])) |-> 48] \o Decimal(numbers[i])])
ExtractIP4Address(address) == Joined([i \in 1 .. 4 |-> Decimal(address[i])])

(* Groups of four digits, for whole prefixes of 64 to 128 bits only. *)
ExtractIP6Prefix(packet, start, end) ==
  IF end \notin {8, 10, 12, 14, 16} THEN <<>>
  ELSE FlattenSeq([i \in 1 .. end |->
         LowerHex(packet[start + i]) \o (IF i % 2 = 0 /\ i < end THEN <<58>> ELSE <<>>)])

(* Up to four numbers, each ended by any one character, which is skipped;  *)
(* a text that ends before the fourth is read beyond its end.              *)
RECURSIVE Octets(_, _)
Octets(s, n) ==
  LET stop   == SelectInSeq(s, LAMBDA c : c \notin 48 .. 57)
      length == IF stop = 0 THEN Len(s) ELSE stop - 1
      number == FoldLeft(LAMBDA v, c : 10 * v + (c - 48), 0, SubSeq(s, 1, length))
  IN  IF n = 0 THEN <<>>
      ELSE IF length = 0 \/ number >= 256 THEN <<-1>>
      ELSE <<number>> \o Octets(SubSeq(s, length + 2, Len(s)), n - 1)

(* An error is the number 1. *)
ipToLong(s) ==
  LET octets == Octets(s, 4)
  IN  IF Last(octets) = -1 THEN 1 ELSE FoldLeft(LAMBDA v, o : v * 256 + o, 0, octets)

(* The characters getByteToHex writes: a line number of ten for 16 bytes,  *)
(* two for a byte, and a blank or an end of the line behind every second.  *)
DumpLength(len) == 10 * ((len + 15) \div 16) + 2 * len + len \div 2

(* The texts hold the address: every number read back from the decimal     *)
(* one, a text that is none is 1, as is 0.0.0.1; a prefix is cut where it  *)
(* should; a dump of 3200 bytes is one character too long for its buffer.  *)
AddressesReturn ==
  /\ \A a \in [1 .. 4 -> {0, 1, 9, 10, 99, 100, 127}] :
       /\ ipToLong(ExtractIP4Address(a)) = ((a[1] * 256 + a[2]) * 256 + a[3]) * 256 + a[4]
       /\ ipToLong(fillIP(a)) = ipToLong(ExtractIP4Address(a))
       /\ Len(fillIP(a)) = 15
       /\ ExtractIP(getIPHex(a)) = a
  /\ \A s \in {<<>>, <<Dot>>, <<97>>, Decimal(256), <<49, Dot, Dot, 49>>, <<49, Dot, 50, 53, 54>>} :
       ipToLong(s) = 1
  /\ \A end \in 1 .. 16 :
       LET packet == [i \in 1 .. 17 |-> 16 * (i % 16) + 11]
           prefix == ExtractIP6Prefix(packet, 1, end)
           whole  == ExtractIP6Prefix(packet, 1, 16)
       IN  IF end < 8 \/ end % 2 = 1 THEN prefix = <<>>
           ELSE IsPrefix(prefix, whole) /\ Len(prefix) = 2 * end + end \div 2 - 1
  /\ \A len \in 0 .. 4000 : DumpLength(len) + 1 <= 10000 <=> len < 3200

-----------------------------------------------------------------------------
(* Rings, in 16 bits. *)
Ring(n, last) == IF n > last THEN 0 ELSE n
getHourToProcess(lastProcessed) == Ring(lastProcessed + 1, 23)
getMinToProcess(lastProcessed) == Ring(lastProcessed + 1, 59)
getSecRangeToProcess(lastProcessed) == Ring(lastProcessed + 1, 59) \div 10
getProcessIndex(prevIndex) == Ring(prevIndex + 1, 5)
getNextSecRange(current) == Ring(current + 1, 5)
getCurrentSecRange(second) == second \div 10

Back(n, last) == IF n < 0 THEN last ELSE n
getPreviousHour(hour) == Back(hour - 1, 23)
getPreviousMin(minute) == Back(minute - 1, 59)
getPreviousSecRange(second) == Back(second \div 10 - 1, 5)

(* Unsigned, so that it is never below 0. *)
getPrevIndex(index) == (index + 65535) % 65536

(* Every ring can be gone round both ways, except that of the index, which *)
(* goes back from 0 to 65535.                                              *)
RingsTurn ==
  /\ \A h \in 0 .. 23 : getHourToProcess(getPreviousHour(h)) = h /\ getPreviousHour(getHourToProcess(h)) = h
  /\ \A m \in 0 .. 59 :
       /\ getMinToProcess(getPreviousMin(m)) = m /\ getPreviousMin(getMinToProcess(m)) = m
       /\ getSecRangeToProcess(m) = getCurrentSecRange((m + 1) % 60)
       /\ getNextSecRange(getPreviousSecRange(m)) = getCurrentSecRange(m)
  /\ \A i \in 0 .. 5 :
       getPrevIndex(getProcessIndex(i)) = IF i = 5 THEN 65535 ELSE i

-----------------------------------------------------------------------------
(* Networks: the mask is ~(~0 >> num_bits).  A shift by all bits is        *)
(* undefined; the build's processor shifts by none.                        *)
All == 2 ^ Bits - 1
Mask(num_bits) == All - (All \div 2 ^ (num_bits % Bits))
matchIP(address, net, num_bits) == (address & Mask(num_bits)) = (net & Mask(num_bits))
matchIPs(src, dst, net, num_bits) == matchIP(src, net, num_bits) \/ matchIP(dst, net, num_bits)

(* An address is in a network if the first bits agree; a network of all    *)
(* bits, one address, contains every address.                              *)
NetworksMatch ==
  \A a, net \in 0 .. All : \A n \in 0 .. Bits :
    matchIP(a, net, n) <=> n = Bits \/ a \div 2 ^ (Bits - n) = net \div 2 ^ (Bits - n)

-----------------------------------------------------------------------------
(* split, with getline: nothing follows a delimiter at the end.            *)
RECURSIVE split(_, _)
split(s, delimiter) ==
  LET at == SelectInSeq(s, LAMBDA c : c = delimiter)
  IN  IF s = <<>> THEN <<>>
      ELSE IF at = 0 THEN <<s>>
      ELSE <<SubSeq(s, 1, at - 1)>> \o split(SubSeq(s, at + 1, Len(s)), delimiter)

SplitsJoin ==
  \A s \in BoundedSeq({"a", ","}, 4) :
    LET parts  == split(s, ",")
        joined == FlattenSeq([i \in DOMAIN parts |-> parts[i] \o <<",">>])
    IN  joined = IF s = <<>> \/ Last(s) = "," THEN s ELSE Append(s, ",")

-----------------------------------------------------------------------------
(* The running time ProbeStats prints.  *)
SecondsOfDay == 84600
RunTime(t) ==
  LET dd == t \div SecondsOfDay
      hh == (t - dd * SecondsOfDay) \div 3600
      mm == (t - (dd * SecondsOfDay + hh * 3600)) \div 60
  IN  [dd |-> dd, hh |-> hh, mm |-> mm, ss |-> t - (dd * SecondsOfDay + hh * 3600 + mm * 60)]

(* It adds up, with days that are half an hour short. *)
TimesAddUp ==
  \A t \in {0, 59, 3600, 84599, 84600, 86400, 90000, 169200, 31536000} :
    LET r == RunTime(t)
    IN  /\ r.dd * 84600 + r.hh * 3600 + r.mm * 60 + r.ss = t
        /\ r.hh \in 0 .. 23 /\ r.mm \in 0 .. 59 /\ r.ss \in 0 .. 59
        /\ r.hh = 23 => r.mm < 30

-----------------------------------------------------------------------------
(* The functions are what their names say, apart from what is stated.      *)
BytesHold ==
  /\ StampsFound
  /\ options = <<>> => HexReturns /\ AddressesReturn /\ RingsTurn /\ NetworksMatch /\ SplitsJoin /\ TimesAddUp
=============================================================================
