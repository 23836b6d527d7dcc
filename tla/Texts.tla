------------------------------- MODULE Texts -------------------------------
(***************************************************************************)
(* What the library does with texts: the helpers of webutil.cpp, and the   *)
(* formats of the Stash and of BufferFiller (EtherCard.cpp).  A text is    *)
(* the sequence of its ASCII codes without the zero at its end, and has no *)
(* & = / % + or space in SampleChars.                                      *)
(***************************************************************************)
EXTENDS Response
LOCAL INSTANCE SequencesExt

CONSTANTS
  PageBytes,    \* bytes of a Stash in a page of the chip: 63
  StashLengths  \* lengths of the sample Stashes
ASSUME PageAssumption == PageBytes \in Nat /\ PageBytes > 3 /\ StashLengths \subseteq Nat

Percent == 37
And == 38
Plus == 43
Equal == 61
Digits == 48 .. 57
At(text, k) == IF k > Len(text) THEN 0 ELSE text[k]

----------------------------------------------------------------------------
(* webutil.cpp *)

\* The place behind "key=", or 0.  k is how much of the key has matched; the
\* character behind a whole match that is not `=' is not looked at again.
\* Mutant: what has matched is kept when a character does not.
NoMatch_Kept(k) == k
NoMatch(k) == 1
Ends(c) == c \in {0, Space, Lf}
FindKey(str, key) ==
  LET find[i \in 1 .. Len(str) + 2, k \in 1 .. Len(key)] ==
        IF Ends(At(str, i)) THEN 0
        ELSE IF str[i] # key[k] THEN find[i + 1, NoMatch(k)]
        ELSE IF k < Len(key) THEN find[i + 1, k + 1]
        ELSE IF At(str, i + 1) = Equal THEN i + 2 ELSE find[i + 2, 1]
  IN find[1, 1]
\* Its value, or <<>>: the code tells a missing value from an empty one by
\* whether it has written to strbuf.
findKeyVal(str, maxlen, key) ==
  LET from == FindKey(str, key)
      to == CHOOSE j \in from - 1 .. Len(str) :
              /\ Ends(At(str, j + 1)) \/ At(str, j + 1) = And
              /\ \A i \in from .. j : ~Ends(str[i]) /\ str[i] # And
  IN IF from = 0 THEN <<>>
     ELSE SubSeq(str, from, IF to < from + maxlen - 2 THEN to ELSE from + maxlen - 2)

Params == [name : Texts \ {<<>>}, value : {t \in Texts : Len(t) < MaxText}]
HttpLine(params) ==
  <<63>> \o FlattenSeq([k \in DOMAIN params |->
                          (IF k = 1 THEN <<>> ELSE <<And>>) \o params[k].name \o <<Equal>> \o params[k].value])
         \o <<Space, 72, Lf>>

\* Of two parameters, the value of the one that has the name searched for is
\* found, shortened to what has room, or nothing, if there is none -- unless
\* the name of an earlier one ends with it.
KeyValFound ==
  \A p, q \in Params, key \in Texts \ {<<>>}, maxlen \in {1, 2, 9} :
    LET hits == SelectSeq(<<p, q>>, LAMBDA param : param.name = key)
        want == IF hits = <<>> THEN <<>> ELSE hits[1].value
    IN (\A param \in {p, q} : param.name = key \/ ~IsSuffix(key, param.name)) =>
         findKeyVal(HttpLine(<<p, q>>), maxlen, key) = SubSeq(want, 1, IF Len(want) < maxlen THEN Len(want) ELSE maxlen - 1)

h2int(c) ==
  IF c \in Digits THEN c - 48
  ELSE IF c \in 97 .. 102 THEN c - 87 ELSE IF c \in 65 .. 70 THEN c - 55 ELSE 0
Hex(n, ten) == IF n > 9 THEN n - 10 + ten ELSE n + 48
\* The letters begin at `a'.
int2h(c) == <<Hex(c \div 16, 97), Hex(c % 16, 97)>>

isalnum(c) == c \in Digits \cup (65 .. 90) \cup (97 .. 122)
UrlChar(c) == IF c = Space THEN <<Plus>> ELSE IF isalnum(c) THEN <<c>> ELSE <<Percent>> \o int2h(c)
urlEncode(str) == FlattenSeq([k \in DOMAIN str |-> UrlChar(str[k])])

\* Both characters after a `%' are taken, whatever they are.
urlDecode(urlbuf) ==
  LET decode[k \in 1 .. Len(urlbuf) + 3] ==
        IF k > Len(urlbuf) THEN <<>>
        ELSE IF urlbuf[k] = Percent
          THEN <<16 * h2int(At(urlbuf, k + 1)) + h2int(At(urlbuf, k + 2))>> \o decode[k + 3]
        ELSE <<IF urlbuf[k] = Plus THEN Space ELSE urlbuf[k]>> \o decode[k + 1]
  IN decode[1]

\* Any text comes back as it was.
UrlReadsBack ==
  \A str \in BoundedSeq(SampleChars \cup {1, Lf, Space, Percent, Plus, 200, 255}, MaxText + 1) :
    urlDecode(urlEncode(str)) = str

numeral[n \in Nat] == IF n > 9 THEN Append(numeral[n \div 10], 48 + (n % 10)) ELSE <<n + 48>>
\* The digits from k on; where the text was cut, at the next dot, they end.
atoi(str, k) ==
  LET digits == SelectInSubSeq(str, k, Len(str), LAMBDA c : c \notin Digits)
  IN FoldLeft(LAMBDA n, c : 10 * n + c - 48, 0, SubSeq(str, k, IF digits = 0 THEN Len(str) ELSE digits - 1))
Numerals(bytes, base) ==
  [k \in DOMAIN bytes |-> IF base = 10 THEN numeral[bytes[k]]
                          ELSE IF bytes[k] < 16 THEN <<Hex(bytes[k], 97)>> ELSE int2h(bytes[k])]
makeNetStr(bytes, separator, base) ==
  Tail(FlattenSeq([k \in DOMAIN bytes |-> <<separator>> \o Numerals(bytes, base)[k]]))

\* start is where the number began, 0 before its first digit.
ParseChar(str, acc, k) ==
  LET start == IF acc.start = 0 /\ str[k] \in Digits THEN k ELSE acc.start
  IN IF str[k] # Dot \/ Len(acc.bytes) = 4 THEN [acc EXCEPT !.start = start]
     ELSE [start |-> 0, bytes |-> Append(acc.bytes, atoi(str, start) % 256)]
\* The address, if the text had three dots.
parseIp(str) ==
  LET acc == FoldLeftDomain(LAMBDA a, k : ParseChar(str, a, k), [start |-> 0, bytes |-> <<>>], str)
  IN IF Len(acc.bytes) # 3 THEN <<>> ELSE Append(acc.bytes, atoi(str, acc.start) % 256)

\* An address that was written out is read back as the same.
IpReadsBack ==
  \A ip \in [1 .. 4 -> {0, 9, 10, 99, 100, 255}] : parseIp(makeNetStr(ip, Dot, 10)) = ip

----------------------------------------------------------------------------
(* EtherCard.cpp: a format is a sequence of characters and of letters, with *)
(* their arguments, that follow a `$'.  An argument is a number, a string   *)
(* with the 0 at its end and what lies behind it in memory, or a Stash.     *)

Lit(c) == [letter |-> "", arg |-> c, text |-> <<c>>]
\* text: what the item is to say.
Dollar(letter, arg, text) == [letter |-> letter, arg |-> arg, text |-> text]

wtoa(n) == Append(numeral[n], 0)
strlen(str) == SelectInSeq(str, LAMBDA c : c = 0) - 1

\* A Stash as put() fills it, with no 0 among its bytes: its pages, as far as
\* they are used, and the count of those that are full.
Header == <<0, 0, 0>>
put(stash, c) ==
  LET last == Len(stash.pages)
      full == Len(stash.pages[last]) + 1 = PageBytes
      written == [stash EXCEPT !.pages[last] = Append(@, c)]
  IN IF full THEN [written EXCEPT !.pages = Append(@, <<>>), !.count = @ + 1] ELSE written
StashOf(text) == FoldLeft(put, [count |-> 0, pages |-> <<Header>>], text)
tail(stash) == Len(stash.pages[Len(stash.pages)])
\* Mutant: the header is counted.
size_WithHeader(stash) == PageBytes * stash.count + tail(stash)
size(stash) == PageBytes * stash.count + tail(stash) - Len(Header)

\* get(): the byte at a place, 0 at the end, and the place after it.
Place(curr, offs) == [curr |-> curr, offs |-> offs]
get(stash, at) ==
  LET last == Len(stash.pages)
  IN IF at.curr = last /\ at.offs >= tail(stash) THEN [c |-> 0, next |-> at]
     ELSE [c |-> stash.pages[at.curr][at.offs + 1],
           next |-> IF at.offs + 1 >= PageBytes /\ at.curr # last THEN Place(at.curr + 1, 0)
                    ELSE Place(at.curr, at.offs + 1)]

\* prepare(): the format's own length, and for each letter that of its argument
\* without `$' and letter.  A letter it does not know has an argument, too.
arglen(item) ==
  CASE item.letter = "D" -> strlen(wtoa(item.arg))
    [] item.letter \in {"S", "F", "E"} -> strlen(item.arg)
    [] item.letter = "H" -> size(item.arg)
    [] OTHER -> 0
FormatLen(fmt) == FoldLeft(LAMBDA n, item : n + IF item.letter = "" THEN 1 ELSE 2, 0, fmt)
prepare(fmt) ==
  FoldLeft(LAMBDA n, item : IF item.letter = "" THEN n ELSE n + arglen(item) - 2, FormatLen(fmt), fmt)

\* The character extract() reads next of an argument; 0 for an unknown letter.
Begin(letter) == IF letter = "H" THEN Place(1, Len(Header)) ELSE Place(1, 0)
Read(item, ptr) ==
  LET next == [ptr EXCEPT !.offs = @ + 1]
  IN CASE item.letter = "D" -> [c |-> wtoa(item.arg)[next.offs], next |-> next]
       [] item.letter \in {"S", "F", "E"} -> [c |-> item.arg[next.offs], next |-> next]
       [] item.letter = "H" -> get(item.arg, ptr)
       [] OTHER -> [c |-> 0, next |-> ptr]

\* extract()'s loop.  It begins with the format each time and counts in i what
\* it reads, but writes only what lies behind offset.  mode is "@" where the
\* format is read, else the letter whose argument is; fmt counts the items.
Counts(s, c, offset) ==
  [s EXCEPT !.out = IF s.i >= offset THEN Append(@, c) ELSE @, !.i = @ + 1]
ReadsFormat(s, item, offset) ==
  LET t == [s EXCEPT !.fmt = @ + 1]
  IN IF item.letter = "" THEN Counts(t, item.arg, offset)
     ELSE [t EXCEPT !.mode = item.letter, !.ptr = Begin(item.letter)]
ReadsArgument(s, item, offset) ==
  LET r == Read(item, s.ptr)
  IN IF r.c = 0 THEN [s EXCEPT !.mode = "@"] ELSE Counts([s EXCEPT !.ptr = r.next], r.c, offset)
extract(fmt, offset, count) ==
  LET loop[s \in [fmt : Nat, mode : STRING, ptr : [curr : Nat, offs : Nat], i : Nat, out : Seq(Nat)]] ==
        IF s.i >= offset + count \/ (s.mode = "@" /\ s.fmt > Len(fmt)) THEN s.out
        ELSE IF s.mode = "@" THEN loop[ReadsFormat(s, fmt[s.fmt], offset)]
        ELSE loop[ReadsArgument(s, fmt[s.fmt - 1], offset)]
  IN loop[[fmt |-> 1, mode |-> "@", ptr |-> Begin("@"), i |-> 0, out |-> <<>>]]

\* emit_p(), the same for a buffer.  Its $H are two digits with letters from
\* `A'; a letter it does not know, as in $$, is written itself (here arg).
ltoa(n) == IF n < 0 THEN <<45>> \o numeral[-n] ELSE numeral[n]
Emitted(item) ==
  CASE item.letter = "D" -> numeral[item.arg]
    [] item.letter = "L" -> ltoa(item.arg)
    [] item.letter = "H" -> <<Hex((item.arg % 256) \div 16, 65), Hex(item.arg % 16, 65)>>
    [] item.letter \in {"S", "F", "E"} -> SubSeq(item.arg, 1, strlen(item.arg))
    [] OTHER -> <<item.arg>>
emit_p(buffer, fmt) == FoldLeft(LAMBDA text, item : text \o Emitted(item), buffer, fmt)

Numbers == {Dollar("D", n, numeral[n]) : n \in {0, 10, 65535}}
Strings ==
  {Dollar("S", text \o <<0, 98>>, text) : text \in {<<>>, <<97, 49>>}}
  \cup {Dollar(l, <<97, 0>>, <<97>>) : l \in {"F", "E"}}
\* Stashes that end before, with and behind a page; letters extract() does not
\* know, one of them its own "@".
Sent == {Dollar("H", StashOf(text), text) :
           text \in {[k \in 1 .. n |-> 100 + k] : n \in StashLengths}}
Unknown == {Dollar(l, 7, <<>>) : l \in {"T", "@"}}
FormatsOf(items) == UNION {[1 .. n -> items] : n \in 0 .. 3}
Says(fmt) == FlattenSeq([k \in DOMAIN fmt |-> fmt[k].text])

\* A message is what its format says, also if it is taken in two pieces, and as
\* long as prepare() has counted before it is made, for the headers.
LengthPrepared ==
  \A fmt \in FormatsOf({Lit(47)} \cup Numbers \cup Strings \cup Sent \cup Unknown) :
    LET n == prepare(fmt)
    IN /\ n = Len(Says(fmt)) /\ extract(fmt, 0, n + 1) = Says(fmt)
       /\ \A cut \in 0 .. n : extract(fmt, 0, cut) \o extract(fmt, cut, n - cut) = Says(fmt)

\* A buffer and a Stash are filled with the same text from a format both know,
\* behind what is there; and what $H and $L write can be read.
BufferFilled ==
  /\ \A fmt \in FormatsOf({Lit(47)} \cup Numbers \cup Strings) :
       emit_p(<<Space>>, fmt) = <<Space>> \o extract(fmt, 0, prepare(fmt))
  /\ \A n \in {0, 9, 10, 159, 160, 255, 256, 65535} :
       urlDecode(<<Percent>> \o emit_p(<<>>, <<Dollar("H", n, <<>>)>>)) = <<n % 256>>
  /\ \A n \in {-32768, -10, -1, 0, 65536} :
       LET text == emit_p(<<>>, <<Dollar("L", n, <<>>)>>)
       IN atoi(text, IF n < 0 THEN 2 ELSE 1) = IF n < 0 THEN -n ELSE n
=============================================================================
