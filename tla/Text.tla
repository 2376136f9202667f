-------------------------------- MODULE Text --------------------------------
(***************************************************************************)
(* StringManip, the string functions of the log library: codings and their *)
(* inverses, trimming, headers, numbers, and the difference of two times.  *)
(* They have no state; the variable is the string they are tried on.       *)
(*                                                                         *)
(* A string is a sequence of bytes other than NUL.                         *)
(***************************************************************************)
EXTENDS Integers, SequencesExt, Bitwise

CONSTANTS
  Chars, Length,        \* strings to try: up to Length of Chars ...
  Septets, SeptetLength \* ... and of Septets, for the 7-bit coding

VARIABLE text

TextInit == text \in BoundedSeq(Chars, Length) \cup BoundedSeq(Septets, SeptetLength)

Error == <<-1>>       \* an exception

(* Parts of ASCII. *)
Tab == 9       Newline == 10  Return == 13   Blank == 32  Quote == 34  Percent == 37
Ampersand == 38  Apostrophe == 39  Plus == 43  Slash == 47  Colon == 58  Semicolon == 59
Less == 60     Equals == 61   Greater == 62  Backslash == 92  LowerX == 120
Open == 123    Close == 125

Digits == 48 .. 57
Upper == 65 .. 90
Lower == 97 .. 122

(* The concatenation of Code(c) for every c of s. *)
Each(s, Code(_)) == FoldLeft(LAMBDA out, c : out \o Code(c), <<>>, s)

(* find: where part begins in s, from a position on, or 0. *)
Find(s, part, from) ==
  LET at == {i \in from .. Len(s) - Len(part) + 1 : SubSeq(s, i, i + Len(part) - 1) = part}
  IN  IF at = {} THEN 0 ELSE CHOOSE i \in at : \A j \in at : i <= j

From(s, i) == SubSeq(s, i, Len(s))
Before(s, i) == SubSeq(s, 1, i - 1)

-----------------------------------------------------------------------------
(* Hexadecimal digits. *)
uchar2HexDigit(c) ==
  LET digit(n) == IF n < 10 THEN 48 + n ELSE 55 + n
  IN  <<digit(c \div 16), digit(c % 16)>>

hexDigit2uchar(c) ==
  CASE c \in Digits -> c - 48
    [] c \in 65 .. 70 -> c - 55
    [] c \in 97 .. 102 -> c - 87
    [] OTHER -> -1

(* Any two characters are a byte to it. *)
hexToChar(first, second) ==
  LET char(c) == IF c > 127 THEN c - 256 ELSE c
      digit(c) == IF char(c) >= 65 THEN (c & 223) - 55 ELSE char(c) - 48
  IN  (16 * digit(first) + digit(second)) % 256

toHex(s) == Each(s, uchar2HexDigit)

hex2bin(s) ==
  IF Len(s) % 2 # 0 \/ \E i \in DOMAIN s : hexDigit2uchar(s[i]) = -1 THEN Error
  ELSE [i \in 1 .. Len(s) \div 2 |-> 16 * hexDigit2uchar(s[2 * i - 1]) + hexDigit2uchar(s[2 * i])]

-----------------------------------------------------------------------------
(* URLs, printable text, XML. *)

(* Faulty variant: only spaces are coded. *)
URLencodeSpaces(s) == Each(s, LAMBDA c : IF c = Blank THEN <<Plus>> ELSE <<c>>)

URLencode(s) ==
  Each(s, LAMBDA c :
    IF c = Blank THEN <<Plus>>
    ELSE IF c \in Digits \cup Upper \cup Lower THEN <<c>>
    ELSE <<Percent>> \o uchar2HexDigit(c))

RECURSIVE URLdecode(_)
URLdecode(s) ==
  IF s = <<>> THEN <<>>
  ELSE IF Head(s) = Plus THEN <<Blank>> \o URLdecode(Tail(s))
  ELSE IF Head(s) # Percent THEN <<Head(s)>> \o URLdecode(Tail(s))
  ELSE IF Len(s) < 3 THEN s
  ELSE <<hexToChar(s[2], s[3])>> \o URLdecode(From(s, 4))

makePrintable(s) ==
  Each(s, LAMBDA c :
    IF c = Backslash THEN <<Backslash, Backslash>>
    ELSE IF c \in 32 .. 126 THEN <<c>>
    ELSE <<Backslash, LowerX>> \o uchar2HexDigit(c))

(* An escape that is not complete is dropped. *)
RECURSIVE unescapePrintable(_)
unescapePrintable(s) ==
  LET onto(out, rest) == IF rest = Error THEN Error ELSE out \o rest
  IN  IF s = <<>> THEN <<>>
      ELSE IF Head(s) # Backslash THEN onto(<<Head(s)>>, unescapePrintable(Tail(s)))
      ELSE IF Len(s) = 1 THEN <<>>
      ELSE IF s[2] # LowerX THEN onto(<<s[2]>>, unescapePrintable(From(s, 3)))
      ELSE IF Len(s) > 2 /\ hexDigit2uchar(s[3]) = -1 THEN Error
      ELSE IF Len(s) > 3 /\ hexDigit2uchar(s[4]) = -1 THEN Error
      ELSE IF Len(s) < 4 THEN <<>>
      ELSE onto(<<16 * hexDigit2uchar(s[3]) + hexDigit2uchar(s[4])>>, unescapePrintable(From(s, 5)))

(* The digits of a number; char buff[32] has room for 31 of them, with the sign. *)
RECURSIVE Numeral(_, _)
Numeral(n, radix) ==
  LET digit == IF n % radix < 10 THEN 48 + (n % radix) ELSE 55 + (n % radix)
  IN  IF n = 0 THEN <<>> ELSE Append(Numeral(n \div radix, radix), digit)

itoa(n, radix) ==
  IF n = 0 THEN <<48>> ELSE IF n < 0 THEN <<45>> \o Numeral(-n, radix) ELSE Numeral(n, radix)

(* "%02d" *)
TwoDigits(n) == IF n < 10 THEN <<48>> \o itoa(n, 10) ELSE itoa(n, 10)

Entity(c) ==
  <<Ampersand>> \o
  (CASE c = Ampersand -> <<97, 109, 112>>
     [] c = Less -> <<108, 116>>
     [] c = Greater -> <<103, 116>>
     [] c = Quote -> <<113, 117, 111, 116>>
     [] c = Apostrophe -> <<97, 112, 111, 115>>
     [] OTHER -> <<35>> \o TwoDigits(c)) \o <<Semicolon>>

Markup == {Ampersand, Less, Greater, Quote, Apostrophe}

Escaped(c, simple) ==
  IF c \in Markup \/ (~simple /\ (c < 32 \/ c > 127)) THEN Entity(c) ELSE <<c>>

escapeXML(s, simple) == Each(s, LAMBDA c : Escaped(c, simple))

-----------------------------------------------------------------------------
(* Trimming, case, repeated characters. *)
RECURSIVE TrimFront(_, _), TrimEnd(_, _), StripFront(_, _), StripEnd(_, _), compress(_, _)
TrimFront(s, blanks) == IF s # <<>> /\ s[1] \in blanks THEN TrimFront(Tail(s), blanks) ELSE s
TrimEnd(s, blanks) == IF s # <<>> /\ Last(s) \in blanks THEN TrimEnd(Front(s), blanks) ELSE s

trim(s) == TrimEnd(TrimFront(s, {Blank, Tab}), {Blank, Tab})

(* With two pointers that stop where they meet. *)
StripFront(s, blanks) == IF Len(s) > 1 /\ s[1] \in blanks THEN StripFront(Tail(s), blanks) ELSE s
StripEnd(s, blanks) == IF Len(s) > 1 /\ Last(s) \in blanks THEN StripEnd(Front(s), blanks) ELSE s

total_trim(s) ==
  LET white == {Blank, Tab, Newline, Return}
      rest  == StripEnd(StripFront(s, white), white)
  IN  IF Len(rest) = 1 /\ rest[1] \in white THEN <<>> ELSE rest

tolower(s) == [i \in DOMAIN s |-> IF s[i] \in Upper THEN s[i] + 32 ELSE s[i]]
toupper(s) == [i \in DOMAIN s |-> IF s[i] \in Lower THEN s[i] - 32 ELSE s[i]]

compress(s, c) ==
  LET at == Find(s, <<c, c>>, 1)
  IN  IF at = 0 THEN s ELSE compress(RemoveAt(s, at), c)

(* "Name: value".  The colon is looked for in the line, and used in the    *)
(* trimmed line; substr throws when it begins beyond the end.              *)
parseHdrLine(line, lower) ==
  LET rem == trim(line)
      pos == Find(line, <<Colon>>, 1)
      key(s) == IF lower THEN tolower(s) ELSE s
  IN  IF pos = 0 THEN <<key(rem), <<>>>>
      ELSE IF pos > Len(rem) THEN Error
      ELSE <<key(trim(Before(rem, pos))), trim(From(rem, pos + 1))>>

-----------------------------------------------------------------------------
(* Pairs of bytes, 7-bit text, Base64. *)

(* Of an odd number of bytes the last is swapped with what follows them.   *)
hton_16(s) == [i \in DOMAIN s |-> IF i % 2 = 0 THEN s[i - 1] ELSE IF i = Len(s) THEN 0 ELSE s[i + 1]]

IA5_decode(s) ==
  LET step(acc, c) ==
        LET septet == ((c * 2 ^ acc.left) % 128) + acc.over
            over   == c \div 2 ^ (7 - acc.left)
        IN  IF acc.left = 6
            THEN [out |-> acc.out \o <<septet, over>>, left |-> 0, over |-> 0]
            ELSE [out |-> Append(acc.out, septet), left |-> acc.left + 1, over |-> over]
  IN  FoldLeft(step, [out |-> <<>>, left |-> 0, over |-> 0], s).out

IA5_encode(s) ==
  LET after(i) == IF i < Len(s) THEN s[i + 1] % 128 ELSE 0
      step(acc, i) ==
        IF acc.left = 7 THEN [acc EXCEPT !.left = 0, !.char = after(i)]
        ELSE [out |-> Append(acc.out, (acc.char + after(i) * 2 ^ (7 - acc.left)) % 256),
              left |-> acc.left + 1, char |-> after(i) \div 2 ^ (acc.left + 1)]
  IN  IF s = <<>> THEN Error
      ELSE FoldLeft(step, [out |-> <<>>, left |-> 0, char |-> s[1] % 128], [i \in DOMAIN s |-> i]).out

base64encode(n) ==
  CASE n < 26 -> 65 + n
    [] n \in 26 .. 51 -> 71 + n
    [] n \in 52 .. 61 -> n - 4
    [] n = 62 -> Plus
    [] n = 63 -> Slash

(* Other characters have (char)0x80 in a table of int. *)
base64decode(c) ==
  IF c = Equals THEN 0
  ELSE LET n == {i \in 0 .. 63 : base64encode(i) = c} IN IF n = {} THEN -128 ELSE CHOOSE i \in n : TRUE

RECURSIVE Base64Encode(_), Base64Decode(_)
Base64Encode(s) ==
  LET byte(i) == IF i <= Len(s) THEN s[i] ELSE 0
      sextets == <<byte(1) \div 4, (byte(1) % 4) * 16 + byte(2) \div 16,
                   (byte(2) % 16) * 4 + byte(3) \div 64, byte(3) % 64>>
      code    == [i \in 1 .. 4 |-> IF i - 1 <= Len(s) THEN base64encode(sextets[i]) ELSE Equals]
  IN  IF s = <<>> THEN <<>> ELSE IF Len(s) < 4 THEN code ELSE code \o Base64Encode(From(s, 4))

(* Four at a time of what is not white space; at the end, NULs. *)
Base64Decode(str) ==
  LET s      == SelectSeq(str, LAMBDA c : c \notin {Blank} \cup 9 .. 13)
      char(i) == IF i <= Len(s) THEN s[i] ELSE 0
      in      == [i \in 1 .. 4 |-> base64decode(char(i))]
      low(n)  == n % 256
      out     == <<low(in[1] * 4) | low(in[2] \div 16), low(in[2] * 16) | low(in[3] \div 4),
                   low(in[3] * 64) | low(in[4])>>
      rest    == Base64Decode(From(s, 5))
  IN  IF s = <<>> THEN <<>>
      ELSE IF \E i \in 1 .. 4 : in[i] = 128 THEN Error
      ELSE IF char(3) = Equals THEN SubSeq(out, 1, 1)
      ELSE IF char(4) = Equals THEN SubSeq(out, 1, 2)
      ELSE IF rest = Error THEN Error ELSE out \o rest

-----------------------------------------------------------------------------
(* Macros and tags. *)
RECURSIVE expandMacros(_, _, _)
expandMacros(s, chrMacros, strMacros) ==
  LET rest(i) == expandMacros(From(s, i), chrMacros, strMacros)
      close   == Find(s, <<Close>>, 3)
      key     == SubSeq(s, 3, close - 1)
  IN  IF s = <<>> THEN <<>>
      ELSE IF Head(s) # Percent THEN <<Head(s)>> \o rest(2)
      ELSE IF Len(s) = 1 THEN s
      ELSE IF s[2] # Open
           THEN (IF s[2] \in DOMAIN chrMacros THEN chrMacros[s[2]] ELSE <<s[2]>>) \o rest(3)
      ELSE IF close = 0 THEN <<>>
      ELSE (IF key \in DOMAIN strMacros THEN strMacros[key] ELSE <<>>) \o rest(close + 1)

(* Without a ">" the search for the closing tag begins at the front.       *)
getTagValue(s, tag) ==
  LET plain  == Find(s, <<Less>> \o tag \o <<Greater>>, 1)
      opened == IF plain # 0 THEN plain ELSE Find(s, <<Less>> \o tag \o <<Blank>>, 1)
      begin  == Find(s, <<Greater>>, opened) + 1
      end    == Find(s, <<Less, Slash>> \o tag \o <<Greater>>, begin)
  IN  IF opened = 0 \/ end = 0 THEN <<>> ELSE SubSeq(s, begin, end - 1)

-----------------------------------------------------------------------------
(* A WAP push, as the bytes its hexadecimal text stands for. *)
Http == <<104, 116, 116, 112, 58, 47, 47>>
Https == <<104, 116, 116, 112, 115, 58, 47, 47>>
Www == <<119, 119, 119, 46>>

match(s, part) == IsPrefix(part, s)

createWAPPush(url, descr) ==
  LET http == match(url, Http)
      src  == IF http THEN From(url, 8) ELSE url
  IN  <<6, 5, 4, 11, 132, 35, 240, 1, 6, 1, 174, 2, 5, 106, 0, 69, 198>>
        \o <<IF http THEN 12 ELSE 11, 3>> \o src \o <<0, 8, 1, 3>> \o descr \o <<0, 1, 1>>

(* What follows the first of some bytes; past the end, substr throws.      *)
Past(s, bytes) ==
  LET at == SelectInSeq(s, LAMBDA c : c \in bytes) IN IF at = 0 THEN Error ELSE From(s, at + 1)
UpTo(s, byte) == Before(s, Find(s, <<byte>>, 1))
Begins(s, bytes) == s # <<>> /\ Head(s) \in bytes

(* A date that tells its length is skipped, that of the expiry is not: its *)
(* length is appended to what it is compared with.                         *)
PastCreated(s) ==
  IF ~Begins(s, {10}) THEN s
  ELSE IF ~Begins(Tail(s), {195}) THEN Tail(s)
  ELSE LET date == From(s, 3)
       IN  IF Begins(date, {7}) THEN From(date, 9) ELSE IF Begins(date, {4}) THEN From(date, 6) ELSE date

PastExpires(s) ==
  IF ~Begins(s, {16}) THEN s ELSE IF Begins(Tail(s), {195}) THEN From(s, 3) ELSE Tail(s)

getWapURLAndText(s) ==
  LET tag    == Past(s, {198})
      scheme == IF Begins(tag, 12 .. 15) THEN <<Http, Http \o Www, Https, Https \o Www>>[tag[1] - 11] ELSE <<>>
      body   == IF Begins(tag, 12 .. 15) THEN Tail(tag) ELSE tag
      host   == IF Begins(body, {3}) THEN Tail(body) ELSE body
      next   == Past(host, {0})
      domain == IF Begins(next, 133 .. 136)
                THEN <<<<46, 99, 111, 109, 47>>, <<46, 101, 100, 117, 47>>, <<46, 110, 101, 116, 47>>,
                       <<46, 111, 114, 103, 47>>>>[next[1] - 132]
                ELSE <<>>
      path   == IF Begins(next, 133 .. 136) THEN Tail(next) ELSE next
      dates  == IF Begins(path, {3}) THEN Past(Tail(path), {0}) ELSE path
      end    == Past(PastExpires(PastCreated(dates)), {1})
  IN  IF tag = Error THEN <<<<>>, <<>>>>
      ELSE IF Error \in {next, dates, end} \/ (Begins(end, {3}) /\ Past(end, {0}) = Error) THEN Error
      ELSE <<scheme \o UpTo(host, 0) \o domain \o (IF Begins(path, {3}) THEN UpTo(Tail(path), 0) ELSE <<>>),
             IF Begins(end, {3}) THEN UpTo(Tail(end), 0) ELSE <<>>>>

-----------------------------------------------------------------------------
(* timeval_substract: times are [sec, usec]; C rounds towards zero.        *)
Micro == 1000000
Towards0(n, d) == IF n < 0 THEN -((-n) \div d) ELSE n \div d

timeval_substract(x, y) ==
  LET Carry(t, n) == [sec |-> t.sec + n, usec |-> t.usec - Micro * n]
      y1 == IF x.usec < y.usec THEN Carry(y, (y.usec - x.usec) \div Micro + 1) ELSE y
      y2 == IF x.usec - y1.usec > Micro THEN Carry(y1, -Towards0(y1.usec - x.usec, Micro)) ELSE y1
  IN  [sec |-> x.sec - y2.sec, usec |-> x.usec - y2.usec, negative |-> x.sec < y2.sec]

-----------------------------------------------------------------------------
(* References. *)

(* What is left without the blanks at either end.  *)
Core(s, blanks) ==
  LET first == SelectInSeq(s, LAMBDA c : c \notin blanks)
  IN  IF first = 0 THEN <<>> ELSE SubSeq(s, first, SelectLastInSeq(s, LAMBDA c : c \notin blanks))

Collapsed(s, c) ==
  LET kept == SelectSeq([i \in DOMAIN s |-> i], LAMBDA i : ~(i > 1 /\ s[i] = c /\ s[i - 1] = c))
  IN  [i \in DOMAIN kept |-> s[kept[i]]]

NumberOf(digits, radix) ==
  FoldLeft(LAMBDA n, c : radix * n + (IF c \in Digits THEN c - 48 ELSE c - 55), 0, digits)

-----------------------------------------------------------------------------
CodingsInvert ==
  /\ URLdecode(URLencode(text)) = text
  /\ hex2bin(toHex(text)) = text
  /\ unescapePrintable(makePrintable(text)) = text
  /\ Base64Decode(Base64Encode(text)) = text
  /\ Base64Decode(Each(Base64Encode(text), LAMBDA c : <<c, Newline>>)) = text
  /\ Len(text) % 2 = 0 => hton_16(hton_16(text)) = text
  /\ LET septets == [i \in DOMAIN text |-> text[i] % 128]
         nul     == IF Len(text) % 8 = 7 THEN <<0>> ELSE <<>>
     IN  text # <<>> => IA5_decode(IA5_encode(septets)) = septets \o nul
  /\ \A simple \in BOOLEAN :
       \A i, j \in DOMAIN text :
         IsPrefix(Escaped(text[i], simple), Escaped(text[j], simple)) => text[i] = text[j]

(* Base64 takes every character of ASCII for one of its own. *)
NothingRejected ==
  (\A i \in DOMAIN text : text[i] < 128) => Base64Decode(text) # Error

TrimsMaximally ==
  /\ trim(text) = Core(text, {Blank, Tab})
  /\ total_trim(text) = Core(text, {Blank, Tab, Newline, Return})
  /\ compress(text, Blank) = Collapsed(text, Blank)

(* A blank before the name moves the end of the name, and may throw.       *)
HeadersSplit ==
  LET pos == Find(text, <<Colon>>, 1)
      core(s) == Core(s, {Blank, Tab})
  IN  \/ pos = 0 /\ parseHdrLine(text, FALSE) = <<core(text), <<>>>>
      \/ pos > 0 /\ text[1] \in {Blank, Tab}
      \/ /\ pos > 0
         /\ parseHdrLine(text, TRUE) = <<tolower(core(Before(text, pos))), core(From(text, pos + 1))>>

(* A doubled "%" is a "%"; a name is replaced, and one without an end      *)
(* takes the rest of the text with it.                                     *)
MacrosExpand ==
  LET doubled == Each(text, LAMBDA c : IF c = Percent THEN <<c, c>> ELSE <<c>>)
      macro   == [k \in {text} |-> <<Colon>>]
  IN  /\ expandMacros(doubled, [k \in {} |-> <<>>], macro) = text
      /\ ~Contains(text, Close) =>
           /\ expandMacros(<<Percent, Open>> \o text \o <<Close>>, [k \in {} |-> <<>>], macro) = <<Colon>>
           /\ expandMacros(<<Percent, Open>> \o text, [k \in {} |-> <<>>], macro) = <<>>

(* The value of a tag ends before the first closing tag, begins after the  *)
(* ">" of the first opening tag.                                           *)
TagsFound ==
  LET tag   == <<65>>
      close == <<Less, Slash, 65, Greater>>
      whole == <<Less, 65, Greater>> \o text \o close
  IN  /\ getTagValue(whole, tag) = Before(text \o close, Find(text \o close, close, 1))
      /\ LET given == <<Less, 65, Blank>> \o text \o close
             end   == Find(given, <<Greater>>, 1)
         IN  Find(given, <<Less, 65, Greater>>, 1) = 0 /\ Find(given, close, end + 1) # 0 =>
               getTagValue(given, tag) = SubSeq(given, end + 1, Find(given, close, end + 1) - 1)

(* An address that does not begin with http:// comes back with two bytes   *)
(* of the message before it.                                               *)
PushesReturn ==
  /\ getWapURLAndText(createWAPPush(Http \o text, text)) = <<Http \o text, text>>
  /\ getWapURLAndText(createWAPPush(text, text)) = <<<<11, 3>> \o text, text>>

(* The buffer of itoa is too short for a negative binary number of 31      *)
(* digits.                                                                 *)
NumbersReturn ==
  \A n \in {0, 1, 9, 35, 36, 255, 1073741823, 1073741824, 2147483647} : \A radix \in {2, 10, 16, 36} :
    /\ NumberOf(itoa(n, radix), radix) = n
    /\ n > 0 => itoa(-n, radix) = <<45>> \o itoa(n, radix)
    /\ Len(itoa(-n, radix)) > 31 <=> radix = 2 /\ n >= 1073741824

(* Of times with less than a second of microseconds. *)
TimesSubtract ==
  \A x, y \in [sec : 0 .. 2, usec : {0, 1, 500000, 999999}] :
    LET d == timeval_substract(x, y)
    IN  /\ d.usec \in 0 .. Micro - 1
        /\ d.sec * Micro + d.usec = (x.sec * Micro + x.usec) - (y.sec * Micro + y.usec)
        /\ d.negative <=> d.sec < 0

(* What is coded, escaped or packed can be read back, what is trimmed,     *)
(* split or found is what its name says, apart from the exceptions stated. *)
TextHolds ==
  /\ CodingsInvert /\ NothingRejected /\ TrimsMaximally /\ HeadersSplit
  /\ MacrosExpand /\ TagsFound /\ PushesReturn
  /\ text = <<>> => NumbersReturn /\ TimesSubtract
=============================================================================
