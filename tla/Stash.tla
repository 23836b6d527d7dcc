------------------------------- MODULE Stash -------------------------------
(***************************************************************************)
(* Stash (EtherCard.cpp): strings kept in chains of pages of the chip's    *)
(* memory, seen through one page buffer for writing and one for reading.   *)
(* A call runs to its end before the next begins; what can go wrong is     *)
(* their order, and which of the three copies of a page is the new one.    *)
(***************************************************************************)
EXTENDS Integers, FiniteSetsExt

CONSTANTS
  Stashes,  \* the Stash objects of the sketch
  Pages,    \* pages of the chip's memory: 56
  Next63,   \* the offset of a page's link to the next: 63
  MaxPuts   \* bound: bytes put into a stash

ASSUME StashAssumption ==
  /\ Pages \in 2 .. 99 /\ Next63 \in 4 .. 99 /\ MaxPuts \in Nat

VARIABLES
  map,     \* the free pages
  mem,     \* w: bufs[0], for writing; r: bufs[1], for reading; chip: the pages
  obj,     \* the fields of each object
  phase,   \* history, of each stash: none, writing, saved or prepared
  puts,    \* history: bytes put into it
  pos      \* history: bytes got from it since create()
vars == <<map, mem, obj, phase, puts, pos>>

sizeofHeader == 3  \* count, first, last: offsets 0, 1 and 2 of the first page
Tail == Next63 - 1 \* the offset of tail, which the last byte of a full page takes
NoPage == 255
Page == [0 .. Next63 -> Nat]

\* The i-th byte put into a stash: never 0, and another for each.
Char(i) == 100 + i

allocBlock == IF map = {} THEN 0 ELSE Min(map)
\* What initMap leaves free: page 0 is prepare()'s.
initMap == 1 .. Pages - 1

\* load(0, blk): the page written so far goes to the chip first.
\* Mutant: only a page other than the first is written back.
LoadW_LosesFirst(m, blk) ==
  IF blk = m.w.bnum THEN m
  ELSE LET c == IF m.w.bnum = 1 THEN m.chip ELSE [m.chip EXCEPT ![m.w.bnum] = m.w.bytes]
       IN [w |-> [bnum |-> blk, bytes |-> c[blk]], chip |-> c,
           r |-> IF blk = m.r.bnum THEN [m.r EXCEPT !.bnum = NoPage] ELSE m.r]
LoadW(m, blk) ==
  IF blk = m.w.bnum THEN m
  ELSE LET c == [m.chip EXCEPT ![m.w.bnum] = m.w.bytes]
       IN [w |-> [bnum |-> blk, bytes |-> c[blk]], chip |-> c,
           r |-> IF blk = m.r.bnum THEN [m.r EXCEPT !.bnum = NoPage] ELSE m.r]

\* load(1, blk): the write buffer holds the newest of its page.
LoadR(m, blk) ==
  CASE blk = m.r.bnum -> m
    [] blk # m.r.bnum /\ blk = m.w.bnum -> [m EXCEPT !.r = m.w]
    [] OTHER -> [m EXCEPT !.r = [bnum |-> blk, bytes |-> m.chip[blk]]]

\* An object before create(), which sets all of its fields.
NewStash == [count |-> 0, first |-> 0, last |-> 0, curr |-> 0, offs |-> 0]

\* At power-on: what the links in the chip hold is not known.
Init ==
  /\ map = initMap
  /\ \E link \in 0 .. Pages - 1 :
       mem = LET zero == [i \in 0 .. Next63 |-> 0]
             IN [w |-> [bnum |-> 0, bytes |-> zero], r |-> [bnum |-> 0, bytes |-> zero],
                 chip |-> [b \in 0 .. Pages - 1 |-> [zero EXCEPT ![Next63] = link]]]
  /\ obj = [s \in Stashes |-> NewStash]
  /\ phase = [s \in Stashes |-> "none"]
  /\ puts = [s \in Stashes |-> 0] /\ pos = [s \in Stashes |-> 0]

\* The newest copy of a page.
Newest(b) == IF b = mem.w.bnum THEN mem.w.bytes ELSE mem.chip[b]

freeCount == Cardinality(map)
\* The sketch sees to it that there is room: with none, put() goes on in page 0.
HasRoom(s) == freeCount > 0 \/ Newest(obj[s].last)[Tail] < Tail

----------------------------------------------------------------------------
(* Writing.                                                                *)

create(s) ==
  /\ phase[s] = "none" /\ freeCount > 0
  /\ LET blk == allocBlock
         m == LoadW(mem, blk)
         b == [m.w.bytes EXCEPT ![0] = 0, ![1] = blk, ![2] = blk,
                                ![Tail] = sizeofHeader, ![Next63] = 0]
     IN /\ map' = map \ {blk}
        /\ mem' = LoadR([m EXCEPT !.w.bytes = b], blk)
        /\ obj' = [obj EXCEPT ![s] = [count |-> mem'.r.bytes[0], first |-> mem'.r.bytes[1],
                      last |-> mem'.r.bytes[2], curr |-> blk, offs |-> sizeofHeader]]
  /\ phase' = [phase EXCEPT ![s] = "writing"]
  /\ UNCHANGED <<puts, pos>>

\* The byte goes to the last page; when it fills it, the chain gets another.
\* Mutant: the new page's link is not cleared.
put_KeepsLink(s) ==
  /\ phase[s] \in {"writing", "saved"} /\ puts[s] < MaxPuts /\ HasRoom(s)
  /\ LET m == LoadW(mem, obj[s].last)
         t == m.w.bytes[Tail]
         b == [m.w.bytes EXCEPT ![t] = Char(puts[s] + 1)]
         next == allocBlock
         full == LoadW([m EXCEPT !.w.bytes = [b EXCEPT ![Next63] = next]], next)
     IN IF t + 1 <= Tail
        THEN /\ mem' = [m EXCEPT !.w.bytes = [b EXCEPT ![Tail] = t + 1]]
             /\ UNCHANGED <<map, obj>>
        ELSE /\ mem' = [full EXCEPT !.w.bytes = [full.w.bytes EXCEPT ![Tail] = 0]]
             /\ map' = map \ {next}
             /\ obj' = [obj EXCEPT ![s].last = next, ![s].count = (obj[s].count + 1) % 256]
  /\ phase' = [phase EXCEPT ![s] = "writing"]
  /\ puts' = [puts EXCEPT ![s] = @ + 1]
  /\ UNCHANGED pos
put(s) ==
  /\ phase[s] \in {"writing", "saved"} /\ puts[s] < MaxPuts /\ HasRoom(s)
  /\ LET m == LoadW(mem, obj[s].last)
         t == m.w.bytes[Tail]
         b == [m.w.bytes EXCEPT ![t] = Char(puts[s] + 1)]
         next == allocBlock
         full == LoadW([m EXCEPT !.w.bytes = [b EXCEPT ![Next63] = next]], next)
     IN IF t + 1 <= Tail
        THEN /\ mem' = [m EXCEPT !.w.bytes = [b EXCEPT ![Tail] = t + 1]]
             /\ UNCHANGED <<map, obj>>
        ELSE /\ mem' = [full EXCEPT !.w.bytes = [full.w.bytes EXCEPT ![Tail] = 0, ![Next63] = 0]]
             /\ map' = map \ {next}
             /\ obj' = [obj EXCEPT ![s].last = next, ![s].count = (obj[s].count + 1) % 256]
  /\ phase' = [phase EXCEPT ![s] = "writing"]
  /\ puts' = [puts EXCEPT ![s] = @ + 1]
  /\ UNCHANGED pos

\* Mutant: the read buffer keeps its copy of the first page.
save_KeepsCopy(s) ==
  /\ phase[s] = "writing"
  /\ LET m == LoadW(mem, obj[s].first)
     IN mem' = [m EXCEPT !.w.bytes = [@ EXCEPT ![0] = obj[s].count, ![1] = obj[s].first,
                                               ![2] = obj[s].last]]
  /\ phase' = [phase EXCEPT ![s] = "saved"]
  /\ UNCHANGED <<map, obj, puts, pos>>
\* The object's header goes to the first page; load(1, 0) makes the read
\* buffer forget that page.
save(s) ==
  /\ phase[s] = "writing"
  /\ LET m == LoadW(mem, obj[s].first)
         saved == [m EXCEPT !.w.bytes = [@ EXCEPT ![0] = obj[s].count, ![1] = obj[s].first,
                                                  ![2] = obj[s].last]]
     IN mem' = IF saved.r.bnum = obj[s].first THEN LoadR(saved, 0) ELSE saved
  /\ phase' = [phase EXCEPT ![s] = "saved"]
  /\ UNCHANGED <<map, obj, puts, pos>>

----------------------------------------------------------------------------
(* Reading.                                                                *)

\* What get() returns: 0 at the end.
Got(s) ==
  LET o == obj[s]
      b == LoadR(mem, o.curr).r.bytes
  IN IF o.curr = o.last /\ o.offs >= b[Tail] THEN 0 ELSE b[o.offs]

get(s) ==
  /\ phase[s] = "saved"
  /\ mem' = LoadR(mem, obj[s].curr)
  /\ IF Got(s) = 0 THEN UNCHANGED <<obj, pos>>
     ELSE /\ pos' = [pos EXCEPT ![s] = @ + 1]
          /\ LET o == [obj[s] EXCEPT !.offs = @ + 1]
             IN obj' = [obj EXCEPT ![s] =
                  IF o.offs >= Next63 /\ o.curr # o.last
                  THEN [o EXCEPT !.curr = mem'.r.bytes[Next63], !.offs = 0] ELSE o]
  /\ UNCHANGED <<map, phase, puts>>

Link(chip, b) == IF b = 0 THEN 0 ELSE chip[b][Next63]
\* The k-th page of the chain from b by the given links, 0 beyond its end.
ChainBy(chip, b) ==
  LET page[k \in 0 .. Pages] == IF k = 0 THEN b ELSE Link(chip, page[k - 1]) IN page
PagesOf(chip, b) == {ChainBy(chip, b)[k] : k \in 0 .. Pages} \ {0}
Chain(s) == PagesOf([b \in 0 .. Pages - 1 |-> Newest(b)], obj[s].first)

\* size() by a Stash opened for the page fd, as prepare() has it for $H.
Size(fd) ==
  LET h == LoadR(mem, fd).r.bytes
      tail == IF h[2] = mem.w.bnum THEN mem.w.bytes[Tail]
              ELSE LoadR(LoadR(mem, fd), h[2]).r.bytes[Tail]
  IN Next63 * h[0] + tail - sizeofHeader

\* The byte extract() sends i-th for a $H: its page, and its place there.
Sent(fd, i) ==
  LET n == i - 1 + sizeofHeader
      m == LoadR(mem, fd)
      blk == ChainBy([b \in 0 .. Pages - 1 |-> LoadR(m, b).r.bytes], fd)[n \div Next63]
  IN LoadR(m, blk).r.bytes[n % Next63]

\* prepare() for a format with one $H; page 0 holds the arguments.
prepare(s) ==
  /\ phase[s] = "saved" /\ \A t \in Stashes : phase[t] # "prepared"
  /\ mem' = LoadR(LoadW(mem, 0), obj[s].first)
  /\ phase' = [phase EXCEPT ![s] = "prepared"]
  /\ UNCHANGED <<map, obj, puts, pos>>

\* release() by the object, or by cleanup() when the request is sent.  It
\* follows the links in the chip: see the README for the call left out.
release(s) ==
  /\ \/ phase[s] = "saved" /\ mem.w.bnum # obj[s].first /\ UNCHANGED mem
     \/ phase[s] = "prepared" /\ mem' = LoadR(LoadW(mem, 0), obj[s].first)
  /\ map' = map \cup PagesOf(mem'.chip, obj[s].first)
  /\ phase' = [phase EXCEPT ![s] = "none"]
  /\ obj' = [obj EXCEPT ![s] = NewStash]
  /\ puts' = [puts EXCEPT ![s] = 0] /\ pos' = [pos EXCEPT ![s] = 0]

Next == \E s \in Stashes :
  create(s) \/ put(s) \/ save(s) \/ get(s) \/ prepare(s) \/ release(s)

Spec == Init /\ [][Next]_vars

----------------------------------------------------------------------------
Live == {s \in Stashes : phase[s] # "none"}

\* Types; page 0 is never handed out as free.
Memory ==
  [w : [bnum : 0 .. Pages - 1, bytes : Page], r : [bnum : 0 .. Pages - 1 \cup {NoPage}, bytes : Page],
   chip : [0 .. Pages - 1 -> Page]]
Object ==
  [count : 0 .. 255, first : 0 .. Pages - 1, last : 0 .. Pages - 1, curr : 0 .. Pages - 1,
   offs : 0 .. Next63]
TypeOK ==
  /\ map \subseteq initMap /\ mem \in Memory /\ obj \in [Stashes -> Object]
  /\ phase \in [Stashes -> {"none", "writing", "saved", "prepared"}]
  /\ {puts, pos} \subseteq [Stashes -> 0 .. MaxPuts] /\ \A s \in Stashes : pos[s] <= puts[s]

\* Whatever the order of creating, writing, sending and releasing, no page is
\* in two stashes or in one and free, and none is lost, though release()
\* follows links in pages that were used before.
PagesAccounted ==
  /\ TypeOK
  /\ \A s \in Live : Chain(s) \cap map = {}
  /\ \A s, t \in Live : s # t => Chain(s) \cap Chain(t) = {}
  /\ map \cup UNION {Chain(s) : s \in Live} = initMap

\* After save(), get() goes on with the next byte that was put, and returns 0
\* after the last: neither page buffer serves an old copy, whichever stashes
\* were written and read in between.
GetsNext ==
  \A s \in Live : phase[s] \in {"saved", "prepared"} =>
    Got(s) = IF pos[s] = puts[s] THEN 0 ELSE Char(pos[s] + 1)

\* What prepare() counts for a saved stash is what was put into it, and
\* extract() sends those bytes in their order.
SendsAll ==
  \A s \in Live : phase[s] \in {"saved", "prepared"} =>
    /\ Size(obj[s].first) = puts[s]
    /\ \A i \in 1 .. puts[s] : Sent(obj[s].first, i) = Char(i)
=============================================================================
