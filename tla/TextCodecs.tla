----------------------------- MODULE TextCodecs -----------------------------
(***************************************************************************)
(* The codecs of bytes and characters: base 16 and 64, UUID strings, URL    *)
(* escapes, UTF-8 and UTF-16, numbers and versions. A byte is a number, a   *)
(* digit of a text is its value, and what is no digit is a number from 64.  *)
(* An output is what fits into the room given, its NUL counted. Then dates  *)
(* and times as text.                                                       *)
(***************************************************************************)
EXTENDS Integers, Sequences, FiniteSets, SequencesExt

NUL == -1
Dash == 64
Pad == 65
Plus == 66
LetterX == 67
Failed == <<-1>>

(* What a writer with room for size characters leaves: the text and a NUL, or as
   much of the text as fits. *)
Written(text, size) == SubSeq(Append(text, NUL), 1, IF size <= Len(text) THEN size ELSE Len(text) + 1)

-----------------------------------------------------------------------------

NQBase16Encode(bytes) == FlattenSeq([i \in DOMAIN bytes |-> <<bytes[i] \div 16, bytes[i] % 16>>])

(* The length is right although a character is not a digit; then it fails. *)
NQBase16Decode(text) ==
  IF Len(text) % 2 = 1 \/ \E i \in DOMAIN text : text[i] \notin 0 .. 15 THEN Failed
  ELSE [i \in 1 .. Len(text) \div 2 |-> text[2 * i - 1] * 16 + text[2 * i]]

(* A UUID: 16 bytes, with separators before the 5th, 7th, 9th and 11th. *)
NQ_UUID_STRING_SIZE == 36
NQUUID_sprintf(uuid) ==
  FlattenSeq([i \in DOMAIN uuid |-> (IF i \in {5, 7, 9, 11} THEN <<Dash>> ELSE << >>) \o NQBase16Encode(<<uuid[i]>>)])

NQUUID_parse2(text) ==
  IF Len(text) # NQ_UUID_STRING_SIZE \/ \E i \in DOMAIN text : (text[i] = Dash) # (i \in {9, 14, 19, 24}) THEN Failed
  ELSE NQBase16Decode(SelectSeq(text, LAMBDA c : c # Dash))

(* Random bytes become version 4, whatever they were. *)
NQUUID_initAsCanonical(random) == [random EXCEPT ![7] = 64 + (@ % 16), ![9] = 128 + (@ % 64)]

-----------------------------------------------------------------------------

(* Six bits each, from groups of three bytes; pad says whether "=" fills the last. *)
NQBase64EncodeEx(bytes, pad) ==
  LET Bit(i) == (IF i \div 8 < Len(bytes) THEN bytes[i \div 8 + 1] \div 2 ^ (7 - (i % 8)) ELSE 0) % 2
      digits == [d \in 1 .. (8 * Len(bytes) + 5) \div 6 |->
                   FoldLeft(LAMBDA n, b : 2 * n + Bit(6 * (d - 1) + b), 0, <<0, 1, 2, 3, 4, 5>>)]
  IN digits \o (IF pad THEN [i \in 1 .. (2 * Len(bytes)) % 3 |-> Pad] ELSE << >>)

Base64Length(n, pad) == ((n + 2) \div 3) * 4 - (IF ~pad /\ n % 3 # 0 THEN 3 - (n % 3) ELSE 0)

(* What stands for the last digits. With padding nobody asks whether the bits
   left over are zero; without it a lone digit 0 stands for nothing. *)
NQBase64DecodeEx(text, pad) ==
  LET last == IF text = << >> THEN << >> ELSE SubSeq(text, (4 * ((Len(text) - 1) \div 4)) + 1, Len(text))
      firsts == Len(text) - Len(last)
      digits == SelectSeq(text, LAMBDA c : c # Pad)
      tail == SelectSeq(last, LAMBDA c : c # Pad)
      spare == CASE Len(tail) = 1 -> tail[1] % 64 [] Len(tail) = 2 -> tail[2] % 16 [] Len(tail) = 3 -> tail[3] % 4 [] OTHER -> 0
      good == /\ \A i \in DOMAIN digits : digits[i] \in 0 .. 63
              /\ \A i \in 1 .. firsts : text[i] # Pad
              /\ last = tail \o [i \in 1 .. Len(last) - Len(tail) |-> Pad]
              /\ Len(last) = Len(tail) \/ pad
              /\ IF pad THEN Len(last) \in {0, 4} /\ Len(tail) # 1 /\ (last # << >> => tail # << >>) ELSE spare = 0
      Bit(i) == (digits[i \div 6 + 1] \div 2 ^ (5 - (i % 6))) % 2
  IN IF ~good THEN Failed
     ELSE [n \in 1 .. (6 * Len(digits)) \div 8 |-> FoldLeft(LAMBDA v, b : 2 * v + Bit(8 * (n - 1) + b), 0, <<0, 1, 2, 3, 4, 5, 6, 7>>)]

-----------------------------------------------------------------------------

(* A character of a URL is itself, or one of the two digits that stand for it
   after a "%". "a" is unreserved, "e'" is not ASCII. *)
Plain(c) == <<"", c>>
Percent == Plain("%")
Escaped(char) == <<Percent, <<"high digit", char[2]>>, <<"low digit", char[2]>>>>

UrlEncode(text, plusAsSpace) ==
  FlattenSeq([i \in DOMAIN text |->
    IF plusAsSpace /\ text[i] = Plain(" ") THEN <<Plain("+")>> ELSE IF text[i] = Plain("a") THEN <<text[i]>> ELSE Escaped(text[i])])

(* "%" stands for itself if no two digits follow. *)
UrlDecode(text, plusAsSpace) ==
  LET Starts(i) == i >= 1 /\ text[i] = Percent /\ i + 2 <= Len(text) /\ text[i + 1][1] # "" /\ text[i + 2][1] # ""
      Inside(i) == Starts(i - 1) \/ Starts(i - 2)
      Char(i) == IF Inside(i) THEN << >>
                 ELSE IF Starts(i) THEN <<Plain(text[i + 1][2])>>
                 ELSE IF plusAsSpace /\ text[i] = Plain("+") THEN <<Plain(" ")>> ELSE <<text[i]>>
  IN IF \E i \in DOMAIN text : ~Inside(i) /\ text[i] = Plain("e'") THEN <<Plain("")>> ELSE FlattenSeq([i \in DOMAIN text |-> Char(i)])

-----------------------------------------------------------------------------

NonUChar == -1
Limits8 == <<2 ^ 7, 2 ^ 11, 2 ^ 16, 2 ^ 21, 2 ^ 26>>
NQUCharSize8(c) == 1 + Cardinality({ i \in DOMAIN Limits8 : c >= Limits8[i] })
Lead8 == <<0, 192, 224, 240, 248, 252>>

(* Nothing, if the character is none or there is no room for all of it. *)
NQUCharPush8(c, room) ==
  LET n == NQUCharSize8(c)
  IN IF c < 0 \/ n > room THEN << >>
     ELSE [i \in 1 .. n |-> IF i = 1 THEN Lead8[n] + c \div 64 ^ (n - 1) ELSE 128 + ((c \div 64 ^ (n - i)) % 64)]

(* The size the first byte promises; 0 for what begins no character. *)
UChar8Size(b) ==
  IF b < 128 THEN 1 ELSE IF b < 192 \/ b >= 254 THEN 0
  ELSE CHOOSE n \in 2 .. 6 : b >= Lead8[n] /\ (n = 6 \/ b < Lead8[n + 1])

(* Longer forms than needed are taken too. *)
NQUCharNext8(bytes) ==
  LET n == IF bytes = << >> THEN 0 ELSE UChar8Size(bytes[1])
  IN IF n = 0 \/ n > Len(bytes) \/ \E i \in 2 .. n : bytes[i] \notin 128 .. 191 THEN [char |-> NonUChar, size |-> 0]
     ELSE [char |-> FoldLeft(LAMBDA v, b : v * 64 + (b % 64), bytes[1] - Lead8[n], SubSeq(bytes, 2, n)), size |-> n]

NQUCharSize16(c) == IF c \in 0 .. 65535 THEN 1 ELSE IF c \in 65536 .. 1114111 THEN 2 ELSE 0

(* The two halves of a larger character are written as they are. *)
NQUCharPush16(c, room) ==
  LET n == NQUCharSize16(c)
  IN IF n > room THEN << >>
     ELSE CASE n = 0 -> << >> [] n = 1 -> <<c>> [] n = 2 -> <<(c \div 1024) % 1024, c % 1024>>

IsHighSurrogate16(u) == u \in 55296 .. 56319
IsLowSurrogate16(u) == u \in 56320 .. 57343

(* Of the surrogates, the bits that are the same in all of them are taken. *)
NQUCharNext16(units) ==
  IF units = << >> \/ IsLowSurrogate16(units[1]) THEN [char |-> NonUChar, size |-> 0]
  ELSE IF ~IsHighSurrogate16(units[1]) THEN [char |-> units[1], size |-> 1]
  ELSE IF Len(units) < 2 \/ ~IsLowSurrogate16(units[2]) THEN [char |-> NonUChar, size |-> 0]
  ELSE [char |-> 55296 * 1024 + 56320, size |-> 2]

(* Character by character until one is wrong. Take is what is done with one; the
   place is behind it already. *)
Walk(input, NextChar(_), Take(_, _)) ==
  LET Step(st, i) ==
        LET c == NextChar(SubSeq(input, i, Len(input)))
        IN IF st.stopped \/ i # st.next THEN st
           ELSE IF c.size = 0 THEN [st EXCEPT !.ok = FALSE, !.stopped = TRUE]
           ELSE Take([st EXCEPT !.next = @ + c.size], c.char)
  IN FoldLeft(Step, [next |-> 1, output |-> << >>, length |-> 0, count |-> 0, ascii |-> TRUE, ok |-> TRUE, stopped |-> FALSE],
              [i \in DOMAIN input |-> i])

(* A character that is written if it still fits, and counted in any case. *)
Convert(st, char, pushed) ==
  [st EXCEPT !.output = IF st.ok THEN @ \o pushed ELSE @, !.ok = @ /\ pushed # << >>,
             !.count = @ + 1, !.ascii = @ /\ char < 128]

(* A character the other form has a size for is counted, any other ends it. *)
Calculate(st, char, size) ==
  IF size = 0 THEN [st EXCEPT !.ok = FALSE, !.stopped = TRUE]
  ELSE [st EXCEPT !.length = @ + size, !.count = @ + 1, !.ascii = @ /\ char < 128]

(* The result and NQUnicodeInfo. *)
Info(st, utf8Size, utf16Size) ==
  [ok |-> st.ok, utf8Size |-> utf8Size, utf16Size |-> utf16Size, utf32Size |-> st.count, isAllASCII |-> st.ascii]

NQCalculateUTF8Info(bytes) ==
  LET st == Walk(bytes, NQUCharNext8, LAMBDA s, c : Calculate(s, c, NQUCharSize16(c))) IN Info(st, st.next - 1, st.length)
NQCalculateUTF16Info(units) ==
  LET st == Walk(units, NQUCharNext16, LAMBDA s, c : Calculate(s, c, NQUCharSize8(c))) IN Info(st, st.length, st.next - 1)

(* size is the room; a NUL follows if there is some left. *)
NQConvertUTF8ToUTF16(bytes, size) ==
  LET st == Walk(bytes, NQUCharNext8, LAMBDA s, c : Convert(s, c, NQUCharPush16(c, size - Len(s.output))))
  IN [memory |-> Written(st.output, size), info |-> Info(st, st.next - 1, Len(st.output))]
NQConvertUTF16ToUTF8(units, size) ==
  LET st == Walk(units, NQUCharNext16, LAMBDA s, c : Convert(s, c, NQUCharPush8(c, size - Len(s.output))))
  IN [memory |-> Written(st.output, size), info |-> Info(st, Len(st.output), st.next - 1)]

-----------------------------------------------------------------------------

(* NQCStrToInt32 and the other three: text is digits, "-", "+", "x" and other
   characters; w the width. The sum wraps, and only a sum that got smaller (or
   changed its sign) ends the number; that a signed sum wraps is what compilers make
   of it. base 0: as the prefix says. *)
Wrap(n, w, signed) == LET m == n % 2 ^ w IN IF signed /\ m >= 2 ^ (w - 1) THEN m - 2 ^ w ELSE m

StrToNum(text, base, w, signed) ==
  LET At(i) == IF i <= Len(text) THEN text[i] ELSE NUL
      minus == signed /\ At(1) = Dash
      first == IF signed /\ At(1) \in {Dash, Plus} THEN 2 ELSE 1
      zero == At(first) = 0
      hex == zero /\ At(first + 1) = LetterX
      actual == IF base # 0 THEN base ELSE IF ~zero THEN 10 ELSE IF hex THEN 16 ELSE 8
      from == IF hex THEN first + 2 ELSE IF zero THEN first + 1 ELSE first
      Step(st, i) ==
        LET sum == Wrap(st.value * actual + At(i), w, signed)
            ends == At(i) \notin 0 .. actual - 1
              \/ IF ~signed THEN st.value > sum ELSE IF minus THEN Wrap(-sum, w, TRUE) > 0 ELSE sum < 0
        IN IF st.stopped THEN st ELSE IF ends THEN [st EXCEPT !.stopped = TRUE, !.end = i] ELSE [st EXCEPT !.value = sum]
      result == FoldLeft(Step, [value |-> 0, stopped |-> FALSE, end |-> Len(text) + 1],
                         [k \in 1 .. Len(text) - from + 1 |-> from + k - 1])
  IN IF hex /\ actual # 16 THEN [value |-> 0, end |-> first + 1]
     ELSE [value |-> IF minus THEN Wrap(-result.value, w, TRUE) ELSE result.value, end |-> result.end]

-----------------------------------------------------------------------------

(* A version has up to four parts, UNDEFINED behind the last; given none it is 0. *)
UNDEFINED == -1
NQVersion_init(parts) == [i \in 1 .. 4 |-> IF i <= Len(parts) THEN parts[i] ELSE IF i = 1 THEN 0 ELSE UNDEFINED]
NQVersion_setValue(version, i, value) ==
  [k \in 1 .. 4 |-> IF k = i THEN value ELSE IF version[i] = UNDEFINED /\ k < i /\ version[k] = UNDEFINED
                       /\ (\A j \in k .. i : version[j] = UNDEFINED) THEN 0 ELSE version[k]]

NQVersion_cmp(a, b) ==
  LET Differs(i) == \/ a[i] = UNDEFINED /\ b[i] = UNDEFINED
                    \/ a[i] = UNDEFINED /\ b[i] \notin {UNDEFINED, 0}
                    \/ b[i] = UNDEFINED /\ a[i] \notin {UNDEFINED, 0}
                    \/ a[i] # UNDEFINED /\ b[i] # UNDEFINED /\ a[i] # b[i]
      i == CHOOSE k \in 1 .. 4 : Differs(k) /\ \A j \in 1 .. k - 1 : ~Differs(j)
  IN IF \A k \in 1 .. 4 : ~Differs(k) THEN 0 ELSE IF a[i] = b[i] THEN 0 ELSE IF a[i] < b[i] THEN -1 ELSE 1

-----------------------------------------------------------------------------

(* What is decoded from what was encoded is what it was, and the length is the one
   that was promised; without padding, what decodes is the one text that encodes
   it, but for a lone digit 0. (Base16.c, Base64.c, UUID.c.) *)
BytesRoundTrip(bytes) ==
  /\ NQBase16Decode(NQBase16Encode(bytes)) = bytes
  /\ \A pad \in BOOLEAN :
       LET text == NQBase64EncodeEx(bytes, pad)
       IN /\ Len(text) = Base64Length(Len(bytes), pad)
          /\ NQBase64DecodeEx(text, pad) = bytes
          /\ NQBase64DecodeEx(text, ~pad) \in {bytes, Failed}
          /\ \A n \in 0 .. Len(text) + 1 : LET left == Written(text, n) IN Len(left) <= n /\ IsPrefix(left, Append(text, NUL))
  /\ Len(bytes) = 16 => \A uuid \in {bytes, NQUUID_initAsCanonical(bytes)} :
       Len(NQUUID_sprintf(uuid)) = NQ_UUID_STRING_SIZE /\ NQUUID_parse2(NQUUID_sprintf(uuid)) = uuid

Base64Strict(text) ==
  LET bytes == NQBase64DecodeEx(text, FALSE) IN bytes # Failed => NQBase64EncodeEx(bytes, FALSE) = text \/ Last(text) = 0

UrlRoundTrip(text) == \A plus \in BOOLEAN : UrlDecode(UrlEncode(text, plus), plus) = text

(* Every character survives UTF-8, and UTF-16 if it has one unit; with less room
   than its size nothing is written. *)
CharRoundTrip(c) ==
  /\ \A room \in 0 .. 7 :
       NQUCharPush8(c, room) = IF room < NQUCharSize8(c) THEN << >> ELSE NQUCharPush8(c, NQUCharSize8(c))
  /\ NQUCharNext8(NQUCharPush8(c, 6)) = [char |-> c, size |-> NQUCharSize8(c)]
  /\ NQUCharSize16(c) = 1 /\ ~IsHighSurrogate16(c) /\ ~IsLowSurrogate16(c) =>
       NQUCharNext16(NQUCharPush16(c, 1)) = [char |-> c, size |-> 1]

(* A text of such characters comes back whatever the room was, a part of it if there
   was too little, and the lengths calculated first are the lengths written: with
   that room and one more it ends with a NUL. (UTF.c.) *)
UtfRoundTrip(units) ==
  LET promised == NQCalculateUTF16Info(units)
  IN \A size \in 0 .. promised.utf8Size + 1 :
       LET there == NQConvertUTF16ToUTF8(units, size)
           bytes == SubSeq(there.memory, 1, there.info.utf8Size)
           back == NQConvertUTF8ToUTF16(bytes, Len(units) + 1)
           whole == size >= promised.utf8Size
       IN /\ there.info.ok = whole /\ there.info.utf16Size = Len(units) /\ there.info.utf32Size = Len(units)
          /\ whole => there.info = promised
          /\ size > promised.utf8Size => there.memory = Append(bytes, NUL)
          /\ Len(there.memory) <= size
          /\ back.info = NQCalculateUTF8Info(bytes) /\ back.info.ok
          /\ Last(back.memory) = NUL /\ IsPrefix(Front(back.memory), units)
          /\ whole => Front(back.memory) = units /\ back.info = promised

(* A number that fits is read as it is, up to the first character that is none of
   its digits. (CStrToNum.c.) *)
ReadsNumber(text, base, w, signed) ==
  LET read == StrToNum(text, base, w, signed)
      minus == signed /\ text # << >> /\ text[1] = Dash
      digits == IF signed /\ text # << >> /\ text[1] \in {Dash, Plus} THEN Tail(text) ELSE text
      n == CHOOSE k \in 0 .. Len(digits) : (k = Len(digits) \/ digits[k + 1] \notin 0 .. base - 1) /\ \A j \in 1 .. k : digits[j] \in 0 .. base - 1
      value == FoldLeft(LAMBDA v, d : v * base + d, 0, SubSeq(digits, 1, n))
      fits == value < (IF signed THEN 2 ^ (w - 1) ELSE 2 ^ w)
      prefixed == Len(digits) > 1 /\ digits[1] = 0 /\ digits[2] = LetterX
  IN base # 0 /\ fits /\ ~prefixed => read = [value |-> IF minus THEN -value ELSE value, end |-> Len(text) - Len(digits) + n + 1]

(* Versions are in order part by part, what is missing being 0, as long as none is
   missing before the last; setting a part leaves none out. (Version.c.) *)
Filled(version) == [i \in 1 .. 4 |-> IF version[i] = UNDEFINED THEN 0 ELSE version[i]]
NoGaps(version) == \A i \in 2 .. 4 : version[i] # UNDEFINED => version[i - 1] # UNDEFINED
VersionsOrdered(a, b) ==
  LET before(x, y) == \E i \in 1 .. 4 : x[i] < y[i] /\ \A j \in 1 .. i - 1 : x[j] = y[j]
  IN /\ NQVersion_cmp(a, b) = -1 <=> before(Filled(a), Filled(b))
     /\ NQVersion_cmp(a, b) = 0 <=> Filled(a) = Filled(b)
     /\ \A i \in 1 .. 4 : /\ NoGaps(NQVersion_setValue(a, i, 1))
                         /\ a[i] = UNDEFINED => NQVersion_cmp(NQVersion_setValue(a, i, 0), a) = 0

-----------------------------------------------------------------------------

(* Time.c: milliseconds since 1970 as a date and as text, and the forms the system
   calls take. A time is not negative; it is given as the day and the milliseconds of
   the day. A text is a sequence of ASCII codes. *)

DaysOf4Years == 1461
LeapDays == <<-1, 30, 59, 90, 120, 151, 181, 212, 243, 273, 304, 334, 365>>
Days == <<-1, 30, 58, 89, 119, 150, 180, 211, 242, 272, 303, 333, 364>>

(* The year of the four whose third is the leap year, and the day it begins with. *)
YearOf4(day) == IF day < 365 THEN 0 ELSE IF day < 730 THEN 1 ELSE IF day < 1096 THEN 2 ELSE 3
Before == <<0, 365, 730, 1096>>

nq_gmtimems(time) ==
  LET rest == time.day % DaysOf4Years
      year == YearOf4(rest)
      yday == rest - Before[year + 1]
      mdays == IF year = 2 THEN LeapDays ELSE Days
      month == CHOOSE m \in 1 .. 12 : mdays[m + 1] >= yday /\ \A k \in 1 .. m - 1 : mdays[k + 1] < yday
  IN [year |-> 70 + 4 * (time.day \div DaysOf4Years) + year, yday |-> yday, mon |-> month - 1, mday |-> yday - mdays[month],
      wday |-> (time.day + 4) % 7, hour |-> time.ms \div 3600000, min |-> (time.ms \div 60000) % 60,
      sec |-> (time.ms \div 1000) % 60, msec |-> time.ms % 1000]

Padded(width, value) == [i \in 1 .. width |-> 48 + ((value \div 10 ^ (width - i)) % 10)]
Char == [dash |-> <<45>>, point |-> <<46>>, colon |-> <<58>>, space |-> <<32>>, T |-> <<84>>, Z |-> <<90>>]

(* The formats that are a date or a time of day. *)
NQTimeMsFormat(time, format) ==
  LET tm == nq_gmtimems(time)
      date == <<Padded(4, tm.year + 1900), Padded(2, tm.mon + 1), Padded(2, tm.mday)>>
      clock == <<Padded(2, tm.hour), Padded(2, tm.min), Padded(2, tm.sec)>>
      Joined(parts, by) == parts[1] \o by \o parts[2] \o by \o parts[3]
  IN CASE format = "RFC2445TZ" -> Joined(date, << >>) \o Char.T \o Joined(clock, << >>) \o Char.Z
       [] format = "RFC3339" -> Joined(date, Char.dash) \o Char.space \o Joined(clock, Char.colon)
       [] format = "RFC3339_TIME" -> Joined(clock, Char.colon)
       [] format = "RFC3339_TIMEMS" -> Joined(clock, Char.colon) \o Char.point \o Padded(3, tm.msec)

(* Milliseconds of either sign: NULL, here << >>, waits without an end. *)
NQTimeMsToTimeVal(time) == IF time < 0 THEN << >> ELSE <<time \div 1000, (time % 1000) * 1000>>
NQTimeMsToTimeSpec(time) == IF time < 0 THEN << >> ELSE <<time \div 1000, (time % 1000) * 1000000>>
NQTimeValToTimeMs(tv) == IF tv = << >> THEN -1 ELSE tv[1] * 1000 + tv[2] \div 1000
NQTimeSpecToTimeMs(ts) == IF ts = << >> THEN -1 ELSE ts[1] * 1000 + ts[2] \div 1000000

-----------------------------------------------------------------------------

NQIsLeapYear(y) == y % 4 = 0 /\ (y % 100 # 0 \/ y % 400 = 0)
MonthLength(y, mon) == IF mon = 1 THEN (IF NQIsLeapYear(y) THEN 29 ELSE 28) ELSE IF mon \in {3, 5, 8, 10} THEN 30 ELSE 31
YearLength(y) == IF NQIsLeapYear(y) THEN 366 ELSE 365
Total(lengths) == FoldLeft(LAMBDA a, b : a + b, 0, lengths)

(* The date is the one that the lengths of the years and months before it make, as
   NQIsLeapYear counts them, the day after has the next weekday, and the clock is
   inside of its day. It holds to February 2100, which nq_gmtimems takes for a leap
   year. (Time.c: nq_gmtimems.) *)
DateIsRight(time) ==
  LET tm == nq_gmtimems(time)
      y == tm.year + 1900
      inYear == Total([m \in 1 .. tm.mon |-> MonthLength(y, m - 1)]) + tm.mday - 1
  IN /\ tm.mday \in 1 .. MonthLength(y, tm.mon) /\ inYear = tm.yday
     /\ Total([k \in 1 .. y - 1970 |-> YearLength(1969 + k)]) + inYear = time.day
     /\ nq_gmtimems([time EXCEPT !.day = @ + 1]).wday = (tm.wday + 1) % 7
     /\ tm.hour \in 0 .. 23 /\ tm.min \in 0 .. 59 /\ ((tm.hour * 60 + tm.min) * 60 + tm.sec) * 1000 + tm.msec = time.ms

(* Texts of dates sort as the times do, over the end of a month, a year and a
   century. (Time.c: NQTimeMsFormat.) *)
TextsSort(a, b) ==
  LET Less(s, t) == \E i \in DOMAIN s : s[i] < t[i] /\ \A j \in 1 .. i - 1 : s[j] = t[j]
  IN a.day < b.day => \A format \in {"RFC2445TZ", "RFC3339"} : Less(NQTimeMsFormat(a, format), NQTimeMsFormat(b, format))

(* A timeout survives its way to a system call and back, and none of them turns
   into a wait without end, or the other way round. (Time.c: NQTimeMsToTimeVal,
   NQTimeValToTimeMs and those of timespec.) *)
TimeoutsKeep(time) ==
  LET expected == IF time < 0 THEN -1 ELSE time
  IN /\ NQTimeValToTimeMs(NQTimeMsToTimeVal(time)) = expected /\ NQTimeSpecToTimeMs(NQTimeMsToTimeSpec(time)) = expected
     /\ time >= 0 => NQTimeMsToTimeVal(time)[2] < 1000000 /\ NQTimeMsToTimeSpec(time)[2] < 1000000000
=============================================================================
