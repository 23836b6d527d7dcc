---------------------------- MODULE StashProofs ----------------------------
(***************************************************************************)
(* What Stash promises for every number of stashes, pages and bytes in a   *)
(* page.  The invariant gives each stash the chain of its pages and says,  *)
(* of the newest copy of each, what it links to and which bytes it has,    *)
(* and of the two buffers, which old copy they may still have, and when.   *)
(***************************************************************************)
EXTENDS Stash, FiniteSetTheorems, TLAPS

----------------------------------------------------------------------------
(* Numbers and chains.                                                     *)

\* The constants as the provers need them.
LEMMA Numbers ==
  /\ Pages \in Nat /\ Pages >= 2 /\ Pages <= 99
  /\ Next63 \in Nat /\ Next63 >= 4
  /\ Tail \in Nat /\ Tail = Next63 - 1 /\ sizeofHeader = 3 /\ NoPage = 255
  /\ initMap = 1 .. Pages - 1 /\ MaxPuts \in Nat
  BY StashAssumption DEF Tail, sizeofHeader, NoPage, initMap

\* Chosen by the order of the sets of smaller numbers.
LEMMA Least ==
  ASSUME NEW n \in Nat, NEW T, T \subseteq 0 .. n, T # {}
  PROVE  \E x \in T : \A y \in T : x <= y
  <1> DEFINE S == 0 .. n
             R == StrictSubsetOrdering(S)
             I == {0 .. x : x \in T}
  <1>1. IsWellFoundedOn(R, SUBSET S)
    <2>1. IsFiniteSet(S)
      BY FS_Interval
    <2>2. FiniteSubsetsOf(S) = SUBSET S
      BY <2>1, FS_FiniteSubsetsOfFinite
    <2>3. IsWellFoundedOn(R, FiniteSubsetsOf(S))
      BY FS_StrictSubsetOrderingWellFounded
    <2> QED  BY <2>2, <2>3
  <1>2. I \subseteq SUBSET S /\ I # {}
    <2>1. \A x \in T : 0 .. x \subseteq S
      OBVIOUS
    <2>2. \A x \in T : 0 .. x \in I
      OBVIOUS
    <2> HIDE DEF S
    <2> QED  BY <2>1, <2>2, Zenon
  <1>3. PICK J \in I : \A K \in I : <<K, J>> \notin R
    <2> HIDE DEF S, R, I
    <2> QED  BY <1>1, <1>2, WFMin
  <1>4. PICK x \in T : J = 0 .. x
    OBVIOUS
  <1>5. ASSUME NEW y \in T  PROVE x <= y
    <2> SUFFICES ASSUME y < x  PROVE FALSE
      OBVIOUS
    <2>1. 0 .. y \subseteq 0 .. x /\ x \in 0 .. x /\ x \notin 0 .. y
      OBVIOUS
    <2>2. 0 .. y \in SUBSET S /\ 0 .. x \in SUBSET S /\ 0 .. y \in I
      OBVIOUS
    <2>3. <<0 .. y, 0 .. x>> \in R
      BY <2>1, <2>2 DEF StrictSubsetOrdering
    <2> QED  BY <1>3, <1>4, <2>2, <2>3
  <1> QED  BY <1>5

\* While a page is free, the page allocBlock() gives is a free one.
LEMMA Allocated == ASSUME map \subseteq initMap, freeCount > 0  PROVE allocBlock \in map
  <1>1. map # {}
    BY FS_EmptySet DEF freeCount
  <1>2. map \subseteq 0 .. Pages /\ Pages \in Nat
    BY Numbers
  <1>3. \E x \in map : \A y \in map : x <= y
    BY <1>1, <1>2, Least
  <1> QED  BY <1>1, <1>3 DEF allocBlock, Min

\* What ChainBy(), and with it size(), extract() and release(), comes to.
LEMMA ChainIs ==
  ASSUME NEW c, NEW b, NEW p \in [0 .. Pages -> 0 .. Pages - 1], p[0] = b,
         \A k \in 1 .. Pages : p[k] = Link(c, p[k - 1])
  PROVE  ChainBy(c, b) = p
  <1> DEFINE Steps(q) == [k \in 0 .. Pages |-> IF k = 0 THEN b ELSE Link(c, q[k - 1])]
             g == ChainBy(c, b)
  <1>1. p = Steps(p)
    <2>1. \A k \in 0 .. Pages : k = 0 \/ k \in 1 .. Pages
      BY Numbers
    <2> QED  BY <2>1
  <1>2. g = CHOOSE q : q = Steps(q)
    BY DEF ChainBy
  <1>3. g = Steps(g)
    <2> HIDE DEF Steps, g
    <2> QED  BY <1>1, <1>2
  <1> HIDE DEF g
  <1>4. \A k \in 0 .. Pages : g[k] = p[k]
    <2> DEFINE T == {k \in 0 .. Pages : g[k] # p[k]}
    <2> SUFFICES ASSUME T # {}  PROVE FALSE
      OBVIOUS
    <2>1. PICK x \in T : \A y \in T : x <= y
      BY Numbers, Least
    <2>2. x \in 1 .. Pages
      BY <1>3, Numbers
    <2>3. x - 1 \in 0 .. Pages /\ ~(x <= x - 1)
      BY <2>2, Numbers
    <2>4. x - 1 \notin T
      BY <2>1, <2>3, Zenon
    <2>5. g[x] = Link(c, g[x - 1])
      BY <1>3, <2>2
    <2> QED  BY <2>2, <2>3, <2>4, <2>5
  <1>5. g = [k \in 0 .. Pages |-> g[k]]
    BY <1>3
  <1> QED  BY <1>4, <1>5 DEF g
----------------------------------------------------------------------------
(* The inductive invariant.  Each stash has its chain p of pages, which    *)
(* ends in zeros; all is said of the newest copies of the pages.           *)

Chains == [0 .. Pages -> 0 .. Pages - 1]
Mem(m, b) == IF b = m.w.bnum THEN m.w.bytes ELSE m.chip[b]
Own(o, p) == {p[k] : k \in 0 .. o.count}

Linked(m, o, p) ==
  /\ o.count \in 0 .. Pages - 2
  /\ \A k \in 0 .. Pages : p[k] # 0 <=> k <= o.count
  /\ p[0] = o.first /\ p[o.count] = o.last
  /\ \A k \in 0 .. o.count : Mem(m, p[k])[Next63] = p[k + 1]
  /\ \A j, k \in 0 .. o.count : p[j] = p[k] => j = k

\* All that was put in is in its place; the last page is filled to its tail.
Filled(m, o, p, n) ==
  /\ Mem(m, o.last)[Tail] < Next63
  /\ n + 3 = Next63 * o.count + Mem(m, o.last)[Tail]
  /\ \A k \in 0 .. o.count, x \in 0 .. Tail :
       Next63 * k + x - 2 \in 1 .. n => Mem(m, p[k])[x] = Char(Next63 * k + x - 2)

Headed(m, o, ph) ==
  ph \in {"saved", "prepared"} =>
    LET h == Mem(m, o.first) IN h[0] = o.count /\ h[1] = o.first /\ h[2] = o.last

ReadTo(o, p, i) ==
  o.offs < Next63 /\ \E k \in 0 .. o.count : o.curr = p[k] /\ i + 3 = Next63 * k + o.offs

\* Written is the last page, or the first, saved; an old copy is read of none
\* but the first page, and that only until it is saved.
Buffered(m, o, p, ph) ==
  /\ m.w.bnum \in Own(o, p) =>
       (ph = "writing" /\ m.w.bnum = o.last) \/ (ph = "saved" /\ m.w.bnum = o.first)
  /\ m.r.bnum \in Own(o, p) =>
       \/ ph = "writing" /\ m.r.bnum = o.first
       \/ m.r.bytes = Mem(m, m.r.bnum) /\ (ph = "writing" => m.r.bnum # o.last)

Kept(m, o, p, ph, n, i) ==
  /\ Linked(m, o, p) /\ Filled(m, o, p, n) /\ Headed(m, o, ph) /\ ReadTo(o, p, i)
  /\ Buffered(m, o, p, ph)

\* No page is in two chains, or in one and free, and none is lost.
Apart(pg) ==
  /\ \A s \in Live : Own(obj[s], pg[s]) \cap map = {}
  /\ \A s, t \in Live : s # t => Own(obj[s], pg[s]) \cap Own(obj[t], pg[t]) = {}
  /\ \A b \in initMap : b \in map \/ \E s \in Live : b \in Own(obj[s], pg[s])

Holds(pg) ==
  /\ TypeOK /\ Apart(pg) /\ \A s \in Stashes : phase[s] = "none" => puts[s] = 0 /\ pos[s] = 0
  /\ mem.w.bnum = 0 \/ \E s \in Live : mem.w.bnum \in Own(obj[s], pg[s])
  /\ \A s \in Live : Kept(mem, obj[s], pg[s], phase[s], puts[s], pos[s])
StashInv == \E pg \in [Stashes -> Chains] : Holds(pg)

----------------------------------------------------------------------------
(* The page buffers.                                                       *)

\* The parts of the memory have their types, and every page has a newest copy.
LEMMA MemTypes ==
  ASSUME NEW m \in Memory
  PROVE  /\ m.w \in [bnum : 0 .. Pages - 1, bytes : Page]
         /\ m.r \in [bnum : 0 .. Pages - 1 \cup {NoPage}, bytes : Page]
         /\ m.w.bnum \in 0 .. Pages - 1 /\ m.w.bytes \in Page
         /\ m.r.bnum \in 0 .. Pages - 1 \cup {NoPage} /\ m.r.bytes \in Page
         /\ m.chip \in [0 .. Pages - 1 -> Page]
         /\ \A b \in 0 .. Pages - 1 : Mem(m, b) \in Page
  BY DEF Memory, Mem

\* load(0, blk) changes no page; the read buffer has forgotten the page loaded.
LEMMA LoadsW ==
  ASSUME NEW m \in Memory, NEW blk \in 0 .. Pages - 1, NEW n, n = LoadW(m, blk)
  PROVE  /\ n \in Memory /\ n.w.bnum = blk /\ n.w.bytes = Mem(m, blk)
         /\ \A b \in 0 .. Pages - 1 : Mem(n, b) = Mem(m, b)
         /\ n.r = m.r \/ n.r.bnum = NoPage
         /\ blk = m.w.bnum => n = m
         /\ blk # m.w.bnum => n.r.bnum # blk /\ n.chip[m.w.bnum] = m.w.bytes
         /\ \A b \in 0 .. Pages - 1 : b # blk => n.chip[b] = Mem(m, b)
  <1>1. CASE blk = m.w.bnum
    BY <1>1 DEF LoadW, Mem
  <1>2. CASE blk # m.w.bnum
    <2> DEFINE c == [m.chip EXCEPT ![m.w.bnum] = m.w.bytes]
               r == IF blk = m.r.bnum THEN [m.r EXCEPT !.bnum = NoPage] ELSE m.r
    <2>1. n = [w |-> [bnum |-> blk, bytes |-> c[blk]], chip |-> c, r |-> r]
      BY <1>2 DEF LoadW
    <2>2. /\ c \in [0 .. Pages - 1 -> Page] /\ c[m.w.bnum] = m.w.bytes
          /\ \A b \in 0 .. Pages - 1 : c[b] = Mem(m, b)
      BY MemTypes DEF Mem
    <2>3. /\ r \in [bnum : 0 .. Pages - 1 \cup {NoPage}, bytes : Page]
          /\ r = m.r \/ r.bnum = NoPage
          /\ r.bnum # blk
      <3>1. blk # NoPage
        BY Numbers
      <3> QED  BY <3>1, MemTypes
    <2> HIDE DEF c, r
    <2>4. /\ n.w.bnum = blk /\ n.w.bytes = c[blk] /\ n.chip = c /\ n.r = r
      BY <2>1
    <2>5. n \in Memory
      BY <2>1, <2>2, <2>3 DEF Memory
    <2>6. \A b \in 0 .. Pages - 1 : Mem(n, b) = c[b]
      BY <2>4 DEF Mem
    <2> QED  BY <1>2, <2>2, <2>3, <2>4, <2>5, <2>6
  <1> QED  BY <1>1, <1>2

Written(m, y) == [m EXCEPT !.w.bytes = y]
\* The write buffer is changed in place.
LEMMA Writes ==
  ASSUME NEW m \in Memory, NEW y \in Page, NEW n, n = Written(m, y)
  PROVE  /\ n \in Memory /\ n.w.bnum = m.w.bnum /\ n.w.bytes = y /\ n.r = m.r
         /\ \A b \in 0 .. Pages - 1 : Mem(n, b) = IF b = m.w.bnum THEN y ELSE Mem(m, b)
  BY DEF Written, Memory, Mem

\* load(1, blk) changes no page; the read buffer has the newest copy of blk,
\* unless it had one before.
LEMMA LoadsR ==
  ASSUME NEW m \in Memory, NEW blk \in 0 .. Pages - 1, NEW n, n = LoadR(m, blk)
  PROVE  /\ n \in Memory /\ n.w = m.w /\ n.chip = m.chip /\ n.r.bnum = blk
         /\ n.r.bytes = IF blk = m.r.bnum THEN m.r.bytes ELSE Mem(m, blk)
         /\ \A b : Mem(n, b) = Mem(m, b)
  <1>1. CASE blk = m.r.bnum
    BY <1>1 DEF LoadR, Mem
  <1>2. CASE blk # m.r.bnum /\ blk = m.w.bnum
    BY <1>2 DEF LoadR, Mem, Memory
  <1>3. CASE blk # m.r.bnum /\ blk # m.w.bnum
    <2>1. n = [m EXCEPT !.r = [bnum |-> blk, bytes |-> m.chip[blk]]]
      BY <1>3 DEF LoadR
    <2>2. m.chip[blk] \in Page
      BY MemTypes
    <2>3. n = [w |-> m.w, r |-> [bnum |-> blk, bytes |-> m.chip[blk]], chip |-> m.chip]
      BY <2>1 DEF Memory
    <2>4. n.w = m.w /\ n.chip = m.chip /\ n.r.bnum = blk /\ n.r.bytes = m.chip[blk]
      BY <2>3
    <2>5. n \in Memory
      BY <2>2, <2>3, MemTypes DEF Memory
    <2> QED  BY <1>3, <2>4, <2>5 DEF Mem
  <1> QED  BY <1>1, <1>2, <1>3

----------------------------------------------------------------------------
(* What one call leaves alone.                                             *)

\* A stash none of whose pages has changed is kept as it was; the buffers may
\* have moved on to pages of others.
LEMMA Untouched ==
  ASSUME NEW m, NEW m2, NEW o, NEW p, NEW ph, NEW n, NEW i,
         Kept(m, o, p, ph, n, i),
         \A b \in Own(o, p) : Mem(m2, b) = Mem(m, b),
         m2.w.bnum \notin Own(o, p) \/ m2.w.bnum = m.w.bnum,
         m2.r.bnum \notin Own(o, p) \/ m2.r = m.r
  PROVE  Kept(m2, o, p, ph, n, i)
  <1>0. o.count \in 0 .. o.count /\ 0 \in 0 .. o.count
    BY Numbers DEF Kept, Linked
  <1>1. o.first \in Own(o, p) /\ o.last \in Own(o, p) /\ \A k \in 0 .. o.count : p[k] \in Own(o, p)
    BY <1>0 DEF Kept, Linked, Own
  <1>2. Linked(m2, o, p)
    BY <1>1 DEF Kept, Linked
  <1>3. Filled(m2, o, p, n)
    BY <1>1 DEF Kept, Filled
  <1>4. Headed(m2, o, ph) /\ ReadTo(o, p, i)
    BY <1>1 DEF Kept, Headed
  <1>5. Buffered(m2, o, p, ph)
    BY <1>1 DEF Kept, Buffered
  <1> QED  BY <1>2, <1>3, <1>4, <1>5 DEF Kept

\* The pages of a stash are neither free nor another's.
Mine(pg, s) == IF s \in Live THEN Own(obj[s], pg[s]) ELSE {}

\* A call for s is right when it leaves the pages of the others alone, takes
\* and gives only its own and free ones, and keeps its own chain as it should.
LEMMA StepOf ==
  ASSUME NEW pg \in [Stashes -> Chains], Holds(pg), NEW s \in Stashes, NEW p \in Chains,
         NEW o, NEW ph, NEW n, NEW i,
         obj' = [obj EXCEPT ![s] = o], phase' = [phase EXCEPT ![s] = ph],
         puts' = [puts EXCEPT ![s] = n], pos' = [pos EXCEPT ![s] = i],
         ph = "none" => n = 0 /\ i = 0,
         ph # "none" => Kept(mem', o, p, ph, n, i),
         map' \subseteq initMap, mem' \in Memory, o \in Object,
         ph \in {"none", "writing", "saved", "prepared"}, n \in 0 .. MaxPuts, i \in 0 .. n,
         NEW new, new = IF ph = "none" THEN {} ELSE Own(o, p),
         new \cap map' = {}, map' \cup new = map \cup Mine(pg, s),
         \A b \in initMap : b \in map \cup Mine(pg, s) \/ Mem(mem', b) = Mem(mem, b),
         \/ mem'.w.bnum \in {0} \cup new
         \/ mem'.w.bnum = mem.w.bnum /\ mem.w.bnum \notin Mine(pg, s),
         mem'.r = mem.r \/ mem'.r.bnum \in {0, NoPage} \cup map \cup Mine(pg, s)
  PROVE  StashInv'
  <1> DEFINE pg2 == [pg EXCEPT ![s] = p]
  <1>1. pg2 \in [Stashes -> Chains] /\ pg2[s] = p /\ \A t \in Stashes : t # s => pg2[t] = pg[t]
    OBVIOUS
  <1>2. /\ obj'[s] = o /\ phase'[s] = ph /\ puts'[s] = n /\ pos'[s] = i
        /\ \A t \in Stashes : t # s => /\ obj'[t] = obj[t] /\ phase'[t] = phase[t]
                                       /\ puts'[t] = puts[t] /\ pos'[t] = pos[t]
    BY DEF Holds, TypeOK
  <1>3. /\ s \in Live' <=> ph # "none"
        /\ \A t \in Stashes : t # s => (t \in Live' <=> t \in Live)
        /\ Live \subseteq Stashes /\ Live' \subseteq Stashes
    BY <1>2 DEF Live
  <1> HIDE DEF pg2
  <1>4. \A t \in Live : Own(obj[t], pg[t]) \subseteq initMap
    <2> SUFFICES ASSUME NEW t \in Live, NEW k \in 0 .. obj[t].count
                 PROVE  pg[t][k] \in initMap
      BY DEF Own
    <2>1. Linked(mem, obj[t], pg[t]) /\ t \in Stashes
      BY <1>3 DEF Holds, Kept
    <2>2. pg[t] \in Chains
      BY <2>1
    <2>3. k \in 0 .. Pages
      BY <2>1, Numbers DEF Linked
    <2>4. pg[t][k] \in 0 .. Pages - 1
      BY <2>2, <2>3 DEF Chains
    <2>5. k <= obj[t].count
      BY <2>1 DEF Linked
    <2>6. pg[t][k] # 0
      BY <2>1, <2>3, <2>5 DEF Linked
    <2> QED  BY <2>4, <2>6, Numbers
  <1>5. NoPage \notin initMap /\ 0 \notin initMap
    BY Numbers
  \* The others.
  <1>6. ASSUME NEW t \in Live, t # s
        PROVE  /\ Own(obj[t], pg[t]) \cap (map \cup Mine(pg, s)) = {}
               /\ Own(obj[t], pg[t]) \cap new = {}
    <2>1. Own(obj[t], pg[t]) \cap map = {} /\ Own(obj[t], pg[t]) \cap Mine(pg, s) = {}
      BY <1>6 DEF Holds, Apart, Mine
    <2> QED  BY <2>1
  <1>7. ASSUME NEW t \in Live, t # s
        PROVE  Kept(mem', obj[t], pg[t], phase[t], puts[t], pos[t])
    <2> DEFINE own == Own(obj[t], pg[t])
    <2>1. Kept(mem, obj[t], pg[t], phase[t], puts[t], pos[t])
      BY DEF Holds
    <2>2. own \subseteq initMap /\ own \cap (map \cup Mine(pg, s)) = {} /\ own \cap new = {}
      BY <1>4, <1>6, <1>7
    <2> HIDE DEF own
    <2>3. \A b \in own : Mem(mem', b) = Mem(mem, b)
      BY <2>2
    <2>4. mem'.w.bnum \notin own \/ mem'.w.bnum = mem.w.bnum
      BY <1>5, <2>2
    <2>5. mem'.r.bnum \notin own \/ mem'.r = mem.r
      BY <1>5, <2>2
    <2> QED  BY <2>1, <2>3, <2>4, <2>5, Untouched DEF own
  <1>8. \A t \in Live' : Kept(mem', obj'[t], pg2[t], phase'[t], puts'[t], pos'[t])
    <2> SUFFICES ASSUME NEW t \in Live'
                 PROVE  Kept(mem', obj'[t], pg2[t], phase'[t], puts'[t], pos'[t])
      OBVIOUS
    <2>1. CASE t = s
      BY <1>1, <1>2, <1>3, <2>1
    <2>2. CASE t # s
      BY <1>1, <1>2, <1>3, <1>7, <2>2
    <2> QED  BY <2>1, <2>2
  <1>9. /\ s \in Live' => Own(obj'[s], pg2[s]) = new
        /\ s \notin Live' => new = {}
        /\ \A t \in Live' : t # s => t \in Live /\ Own(obj'[t], pg2[t]) = Own(obj[t], pg[t])
        /\ \A t \in Live : t # s => t \in Live'
    BY <1>1, <1>2, <1>3
  <1>10. Apart(pg2)'
    <2>1. \A t \in Live' : Own(obj'[t], pg2[t]) \cap map' = {}
      BY <1>6, <1>9
    <2>2. \A t, u \in Live' : t # u => Own(obj'[t], pg2[t]) \cap Own(obj'[u], pg2[u]) = {}
      <3> SUFFICES ASSUME NEW t \in Live', NEW u \in Live', t # u
                   PROVE  Own(obj'[t], pg2[t]) \cap Own(obj'[u], pg2[u]) = {}
        OBVIOUS
      <3>1. CASE t = s
        BY <1>6, <1>9, <3>1
      <3>2. CASE u = s
        BY <1>6, <1>9, <3>2
      <3>3. CASE t # s /\ u # s
        BY <1>9, <3>3 DEF Holds, Apart
      <3> QED  BY <3>1, <3>2, <3>3
    <2>3. \A b \in initMap : b \in map' \/ \E t \in Live' : b \in Own(obj'[t], pg2[t])
      <3> SUFFICES ASSUME NEW b \in initMap, b \notin map'
                   PROVE  \E t \in Live' : b \in Own(obj'[t], pg2[t])
        OBVIOUS
      <3>1. CASE b \in new
        BY <1>9, <3>1
      <3>2. CASE b \notin new
        <4>1. b \notin map /\ b \notin Mine(pg, s)
          BY <3>2
        <4>2. PICK t \in Live : b \in Own(obj[t], pg[t])
          BY <4>1 DEF Holds, Apart
        <4>3. t # s
          BY <4>1, <4>2 DEF Mine
        <4> QED  BY <1>9, <4>2, <4>3
      <3> QED  BY <3>1, <3>2
    <2> QED  BY <2>1, <2>2, <2>3 DEF Apart
  <1>11. mem'.w.bnum = 0 \/ \E t \in Live' : mem'.w.bnum \in Own(obj'[t], pg2[t])
    <2>1. CASE mem'.w.bnum \in {0} \cup new
      BY <1>9, <2>1
    <2>2. CASE mem'.w.bnum = mem.w.bnum /\ mem.w.bnum \notin Mine(pg, s)
      <3>1. mem.w.bnum = 0 \/ \E t \in Live : mem.w.bnum \in Own(obj[t], pg[t])
        BY DEF Holds
      <3>2. \A t \in Live : mem.w.bnum \in Own(obj[t], pg[t]) => t # s
        BY <2>2 DEF Mine
      <3> QED  BY <1>9, <2>2, <3>1, <3>2
    <2> QED  BY <2>1, <2>2
  <1>12. \A t \in Stashes : phase'[t] = "none" => puts'[t] = 0 /\ pos'[t] = 0
    BY <1>2 DEF Holds
  <1>13. TypeOK'
    <2>1. /\ obj \in [Stashes -> Object]
          /\ phase \in [Stashes -> {"none", "writing", "saved", "prepared"}]
          /\ puts \in [Stashes -> 0 .. MaxPuts] /\ pos \in [Stashes -> 0 .. MaxPuts]
          /\ \A t \in Stashes : pos[t] <= puts[t]
      BY DEF Holds, TypeOK
    <2>2. i \in 0 .. MaxPuts
      BY Numbers
    <2>3. /\ obj' \in [Stashes -> Object]
          /\ phase' \in [Stashes -> {"none", "writing", "saved", "prepared"}]
          /\ puts' \in [Stashes -> 0 .. MaxPuts] /\ pos' \in [Stashes -> 0 .. MaxPuts]
      BY <2>1, <2>2
    <2>4. \A t \in Stashes : pos'[t] <= puts'[t]
      BY <1>2, <2>1
    <2> QED  BY <2>3, <2>4 DEF TypeOK
  <1>14. Holds(pg2)'
    BY <1>8, <1>10, <1>11, <1>12, <1>13 DEF Holds
  <1> QED  BY <1>1, <1>14 DEF StashInv

\* The same for a call that leaves the stash alive.
LEMMA StepLive ==
  ASSUME NEW pg \in [Stashes -> Chains], Holds(pg), NEW s \in Stashes, NEW p \in Chains,
         NEW o \in Object, NEW ph \in {"writing", "saved", "prepared"},
         NEW n \in 0 .. MaxPuts, NEW i \in 0 .. n,
         obj' = [obj EXCEPT ![s] = o], phase' = [phase EXCEPT ![s] = ph],
         puts' = [puts EXCEPT ![s] = n], pos' = [pos EXCEPT ![s] = i],
         Kept(mem', o, p, ph, n, i), mem' \in Memory,
         map' \subseteq initMap, Own(o, p) \cap map' = {},
         map' \cup Own(o, p) = map \cup Mine(pg, s),
         \A b \in initMap : b \in map \cup Mine(pg, s) \/ Mem(mem', b) = Mem(mem, b),
         \/ mem'.w.bnum \in {0} \cup Own(o, p)
         \/ mem'.w.bnum = mem.w.bnum /\ mem.w.bnum \notin Mine(pg, s),
         mem'.r = mem.r \/ mem'.r.bnum \in {0, NoPage} \cup map \cup Mine(pg, s)
  PROVE  StashInv'
  <1>1. ph # "none" /\ ph \in {"none", "writing", "saved", "prepared"}
    OBVIOUS
  <1>2. Own(o, p) = IF ph = "none" THEN {} ELSE Own(o, p)
    BY <1>1
  <1> QED  BY <1>1, <1>2, StepOf

----------------------------------------------------------------------------
(* A stash at rest.                                                        *)

\* What is needed of the products k * 63.
LEMMA Products ==
  ASSUME NEW k \in Nat, NEW c \in Nat, NEW n \in Nat
  PROVE  /\ n * k \in Nat /\ n * 0 = 0 /\ n * (c + 1) = n * c + n
         /\ k < c => n * k + n <= n * c
  <1>1. n * k \in Nat /\ n * 0 = 0 /\ n * (c + 1) = n * c + n
    BY Z3
  <1>2. ASSUME k < c  PROVE n * k + n <= n * c
    <2>1. PICK d \in Nat : c = k + 1 + d
      <3>1. c - k - 1 \in Nat /\ c = k + 1 + (c - k - 1)
        BY <1>2
      <3> QED  BY <3>1
    <2>2. n * c = n * k + n + n * d /\ n * d \in Nat
      BY <2>1
    <2> QED  BY <1>1, <2>2
  <1> QED  BY <1>1, <1>2

\* The pages of a chain are pages that are handed out, none of them page 0.
LEMMA ChainFacts ==
  ASSUME NEW m \in Memory, NEW o \in Object, NEW p \in Chains, Linked(m, o, p)
  PROVE  /\ o.count \in Nat /\ o.count + 1 \in 0 .. Pages /\ Own(o, p) \subseteq initMap
         /\ \A k \in 0 .. o.count : k \in 0 .. Pages /\ p[k] \in Own(o, p) /\ k + 1 \in 0 .. Pages
         /\ 0 \in 0 .. o.count /\ o.count \in 0 .. o.count
         /\ o.first \in Own(o, p) /\ o.last \in Own(o, p) /\ p[o.count + 1] = 0
         /\ 0 \notin Own(o, p) /\ NoPage \notin Own(o, p)
  <1>1. /\ o.count \in Nat /\ o.count + 1 \in 0 .. Pages
        /\ \A k \in 0 .. o.count : k \in 0 .. Pages /\ k + 1 \in 0 .. Pages
        /\ 0 \in 0 .. o.count /\ o.count \in 0 .. o.count
    BY Numbers DEF Linked
  <1>2. \A k \in 0 .. o.count : p[k] \in Own(o, p)
    BY DEF Own
  <1>3. Own(o, p) \subseteq initMap
    <2> SUFFICES ASSUME NEW k \in 0 .. o.count  PROVE p[k] \in initMap
      BY DEF Own
    <2>1. p[k] \in 0 .. Pages - 1
      BY <1>1 DEF Chains
    <2>2. k <= o.count
      BY <1>1
    <2>3. p[k] # 0
      BY <1>1, <2>2 DEF Linked
    <2> QED  BY <2>1, <2>3, Numbers
  <1>4. ~(o.count + 1 <= o.count)
    BY <1>1
  <1>5. p[o.count + 1] = 0
    BY <1>1, <1>4 DEF Linked
  <1>6. 0 \notin initMap /\ NoPage \notin initMap
    BY Numbers
  <1> QED  BY <1>1, <1>2, <1>3, <1>5, <1>6 DEF Linked

\* What the invariant says of one live stash.
LEMMA LiveFacts ==
  ASSUME NEW pg \in [Stashes -> Chains], Holds(pg), NEW s \in Stashes, phase[s] # "none"
  PROVE  /\ s \in Live /\ mem \in Memory /\ obj[s] \in Object /\ pg[s] \in Chains
         /\ Kept(mem, obj[s], pg[s], phase[s], puts[s], pos[s]) /\ Linked(mem, obj[s], pg[s])
         /\ Mine(pg, s) = Own(obj[s], pg[s]) /\ Own(obj[s], pg[s]) \cap map = {}
         /\ map \subseteq initMap /\ puts[s] \in 0 .. MaxPuts /\ pos[s] \in 0 .. puts[s]
         /\ phase[s] \in {"writing", "saved", "prepared"}
         /\ puts[s] \in Nat /\ pos[s] \in Nat
  <1>1. s \in Live
    BY DEF Live
  <1>2. /\ mem \in Memory /\ obj[s] \in Object /\ pg[s] \in Chains /\ map \subseteq initMap
        /\ puts[s] \in 0 .. MaxPuts /\ pos[s] \in 0 .. MaxPuts /\ pos[s] <= puts[s]
        /\ phase[s] \in {"writing", "saved", "prepared"}
    BY DEF Holds, TypeOK
  <1>3. puts[s] \in Nat /\ pos[s] \in 0 .. puts[s] /\ pos[s] \in Nat
    BY <1>2, Numbers
  <1>4. Kept(mem, obj[s], pg[s], phase[s], puts[s], pos[s])
    BY <1>1 DEF Holds
  <1> QED  BY <1>1, <1>2, <1>3, <1>4 DEF Kept, Holds, Apart, Mine

\* A saved stash is read in its newest state.
LEMMA ReadsNewest ==
  ASSUME NEW m \in Memory, NEW o \in Object, NEW p \in Chains, NEW ph, NEW n, NEW i,
         Kept(m, o, p, ph, n, i), ph # "writing", NEW b \in Own(o, p)
  PROVE  b \in 0 .. Pages - 1 /\ LoadR(m, b).r.bytes = Mem(m, b)
  <1>1. b \in 0 .. Pages - 1
    BY ChainFacts, Numbers DEF Kept
  <1>2. b = m.r.bnum => m.r.bytes = Mem(m, b)
    BY DEF Kept, Buffered
  <1> QED  BY <1>1, <1>2, LoadsR

\* Where get() goes on: at the end, or at the next byte.
LEMMA ReadPlace ==
  ASSUME NEW m \in Memory, NEW o \in Object, NEW p \in Chains, NEW ph, NEW n \in Nat,
         NEW i \in 0 .. n, Kept(m, o, p, ph, n, i)
  PROVE  \E k \in 0 .. o.count :
           /\ o.curr = p[k] /\ o.offs \in 0 .. Tail /\ i + 3 = Next63 * k + o.offs
           /\ o.curr = o.last <=> k = o.count
           /\ o.curr = o.last /\ o.offs >= Mem(m, o.curr)[Tail] <=> i = n
           /\ i < n => Mem(m, o.curr)[o.offs] = Char(i + 1)
  <1>0. Linked(m, o, p) /\ Filled(m, o, p, n) /\ ReadTo(o, p, i)
    BY DEF Kept
  <1>1. PICK k \in 0 .. o.count : o.curr = p[k] /\ i + 3 = Next63 * k + o.offs
    BY <1>0 DEF ReadTo
  <1>2. o.offs \in Nat /\ o.offs < Next63 /\ o.offs \in 0 .. Tail
    BY <1>0, Numbers DEF ReadTo, Object
  <1>3. k \in Nat /\ o.count \in Nat /\ o.count \in 0 .. o.count /\ o.last = p[o.count]
    BY <1>0, ChainFacts DEF Linked
  <1>4. o.curr = o.last <=> k = o.count
    BY <1>0, <1>1, <1>3 DEF Linked
  <1> DEFINE t == Mem(m, o.last)[Tail]
  <1>5. t \in Nat /\ n + 3 = Next63 * o.count + t /\ t < Next63
    <2>1. o.last \in 0 .. Pages - 1 /\ Tail \in 0 .. Next63
      BY Numbers DEF Object
    <2>2. Mem(m, o.last) \in Page
      BY <2>1, MemTypes
    <2> QED  BY <1>0, <2>1, <2>2 DEF Filled, Page
  <1> HIDE DEF t
  <1>6. PICK a \in Nat : a = Next63 * k
    BY <1>3, Numbers, Products
  <1>7. PICK c \in Nat : c = Next63 * o.count
    BY <1>3, Numbers, Products
  <1>8. k < o.count => a + Next63 <= c
    BY <1>3, <1>6, <1>7, Numbers, Products
  <1>9. i \in Nat /\ i <= n
    OBVIOUS
  <1>10. k # o.count => i < n
    <2>1. k # o.count => k < o.count
      BY <1>1, <1>3
    <2>2. i + 3 = a + o.offs /\ n + 3 = c + t
      BY <1>1, <1>5, <1>6, <1>7
    <2> QED  BY <1>2, <1>5, <1>8, <1>9, <2>1, <2>2, Numbers
  <1>11. k = o.count => (o.offs >= t <=> i = n)
    <2>1. k = o.count => i + 3 = c + o.offs /\ n + 3 = c + t
      BY <1>1, <1>5, <1>7
    <2> QED  BY <1>2, <1>5, <1>9, <2>1
  <1>12. i < n => Mem(m, o.curr)[o.offs] = Char(i + 1)
    <2>1. Next63 * k + o.offs - 2 = i + 1
      BY <1>1, <1>2, <1>6, <1>9
    <2>2. i < n => i + 1 \in 1 .. n
      BY <1>9
    <2>3. o.offs \in 0 .. Tail /\ o.curr = p[k]
      BY <1>1, <1>2
    <2> QED  BY <1>0, <2>1, <2>2, <2>3 DEF Filled
  <1>13. o.curr = o.last /\ o.offs >= Mem(m, o.curr)[Tail] <=> i = n
    BY <1>4, <1>10, <1>11 DEF t
  <1> QED  BY <1>1, <1>2, <1>4, <1>12, <1>13

\* What get() returns, of a stash that is saved.
LEMMA GotIs ==
  ASSUME NEW pg \in [Stashes -> Chains], Holds(pg), NEW s \in Stashes,
         phase[s] \in {"saved", "prepared"}
  PROVE  Got(s) = IF pos[s] = puts[s] THEN 0 ELSE Char(pos[s] + 1)
  <1>1. /\ mem \in Memory /\ obj[s] \in Object /\ pg[s] \in Chains
        /\ Kept(mem, obj[s], pg[s], phase[s], puts[s], pos[s])
        /\ puts[s] \in Nat /\ pos[s] \in 0 .. puts[s]
    BY LiveFacts
  <1>2. PICK k \in 0 .. obj[s].count :
           /\ obj[s].curr = pg[s][k]
           /\ obj[s].curr = obj[s].last /\ obj[s].offs >= Mem(mem, obj[s].curr)[Tail]
                <=> pos[s] = puts[s]
           /\ pos[s] < puts[s] => Mem(mem, obj[s].curr)[obj[s].offs] = Char(pos[s] + 1)
    BY <1>1, ReadPlace
  <1>3. obj[s].curr \in Own(obj[s], pg[s])
    BY <1>2 DEF Own
  <1>4. LoadR(mem, obj[s].curr).r.bytes = Mem(mem, obj[s].curr)
    BY <1>1, <1>3, ReadsNewest
  <1>5. pos[s] # puts[s] => pos[s] < puts[s]
    BY <1>1
  <1> QED  BY <1>2, <1>4, <1>5 DEF Got

----------------------------------------------------------------------------
(* The calls, one at a time.                                               *)

\* Loading a page of a saved stash into the read buffer changes nothing of it.
LEMMA ReadKeeps ==
  ASSUME NEW m \in Memory, NEW o \in Object, NEW p \in Chains, NEW ph, NEW n, NEW i,
         Kept(m, o, p, ph, n, i), ph # "writing", NEW b \in Own(o, p), NEW m2, m2 = LoadR(m, b)
  PROVE  /\ Kept(m2, o, p, ph, n, i) /\ m2 \in Memory /\ m2.w = m.w /\ m2.r.bnum = b
         /\ m2.r.bytes = Mem(m, b) /\ \A c : Mem(m2, c) = Mem(m, c)
  <1>1. b \in 0 .. Pages - 1 /\ m2.r.bytes = Mem(m, b)
    BY ReadsNewest
  <1>2. m2 \in Memory /\ m2.w = m.w /\ m2.r.bnum = b /\ \A c : Mem(m2, c) = Mem(m, c)
    BY <1>1, LoadsR
  <1>3. Linked(m2, o, p) /\ Filled(m2, o, p, n) /\ Headed(m2, o, ph) /\ ReadTo(o, p, i)
    BY <1>2 DEF Kept, Linked, Filled, Headed
  <1>4. Buffered(m2, o, p, ph)
    BY <1>1, <1>2 DEF Kept, Buffered
  <1> QED  BY <1>1, <1>2, <1>3, <1>4 DEF Kept

\* Only curr and offs are get()'s.
LEMMA MovesOn ==
  ASSUME NEW m, NEW o, NEW o2, NEW p, NEW ph, NEW n, NEW i, NEW j,
         Kept(m, o, p, ph, n, i), o2.count = o.count, o2.first = o.first, o2.last = o.last,
         ReadTo(o2, p, j)
  PROVE  Kept(m, o2, p, ph, n, j) /\ Own(o2, p) = Own(o, p)
  <1>1. Own(o2, p) = Own(o, p)
    BY DEF Own
  <1>2. Linked(m, o2, p) /\ Filled(m, o2, p, n)
    BY DEF Kept, Linked, Filled
  <1>3. Headed(m, o2, ph) /\ Buffered(m, o2, p, ph)
    BY <1>1 DEF Kept, Headed, Buffered
  <1> QED  BY <1>1, <1>2, <1>3 DEF Kept

\* curr and offs keep their types.
LEMMA Moved ==
  ASSUME NEW o \in Object, NEW c \in 0 .. Pages - 1, NEW x \in 0 .. Next63
  PROVE  [o EXCEPT !.curr = c, !.offs = x] \in Object
  BY DEF Object

\* get(): curr stays on the chain, and offs on the next byte to get.
LEMMA GetKeeps ==
  ASSUME NEW pg \in [Stashes -> Chains], Holds(pg), NEW s \in Stashes, get(s)
  PROVE  StashInv'
  <1> DEFINE o == obj[s]
             p == pg[s]
  <1>1. phase[s] = "saved" /\ mem' = LoadR(mem, o.curr) /\ UNCHANGED <<map, phase, puts>>
    BY DEF get
  <1>2. /\ s \in Live /\ mem \in Memory /\ o \in Object /\ p \in Chains
        /\ Kept(mem, o, p, phase[s], puts[s], pos[s]) /\ Linked(mem, o, p)
        /\ Mine(pg, s) = Own(o, p) /\ Own(o, p) \cap map = {} /\ map \subseteq initMap
        /\ puts[s] \in 0 .. MaxPuts /\ puts[s] \in Nat /\ pos[s] \in 0 .. puts[s] /\ pos[s] \in Nat
    BY <1>1, LiveFacts
  <1> HIDE DEF o, p
  <1>3. PICK k \in 0 .. o.count :
           /\ o.curr = p[k] /\ o.offs \in 0 .. Tail /\ pos[s] + 3 = Next63 * k + o.offs
           /\ o.curr = o.last <=> k = o.count
           /\ o.curr = o.last /\ o.offs >= Mem(mem, o.curr)[Tail] <=> pos[s] = puts[s]
    BY <1>2, ReadPlace
  <1>4. o.curr \in Own(o, p)
    BY <1>3 DEF Own
  <1>5. /\ Kept(mem', o, p, phase[s], puts[s], pos[s]) /\ mem' \in Memory /\ mem'.w = mem.w
        /\ mem'.r.bnum = o.curr /\ mem'.r.bytes = Mem(mem, o.curr)
        /\ \A c : Mem(mem', c) = Mem(mem, c)
    BY <1>1, <1>2, <1>4, ReadKeeps
  <1>6. Got(s) = IF pos[s] = puts[s] THEN 0 ELSE Char(pos[s] + 1)
    BY <1>1, GotIs
  <1>7. Got(s) = 0 <=> pos[s] = puts[s]
    BY <1>2, <1>6 DEF Char
  \* What is left to show of the new object and the count of bytes got.
  <1>8. ASSUME NEW o2 \in Object, NEW j \in 0 .. puts[s], ReadTo(o2, p, j),
               o2.count = o.count, o2.first = o.first, o2.last = o.last,
               obj' = [obj EXCEPT ![s] = o2], pos' = [pos EXCEPT ![s] = j]
        PROVE  StashInv'
    <2>1. Kept(mem', o2, p, phase[s], puts[s], j) /\ Own(o2, p) = Own(o, p)
      BY <1>5, <1>8, MovesOn
    <2>2. phase' = [phase EXCEPT ![s] = "saved"] /\ puts' = [puts EXCEPT ![s] = puts[s]]
      <3>1. /\ phase \in [Stashes -> {"none", "writing", "saved", "prepared"}]
            /\ puts \in [Stashes -> 0 .. MaxPuts]
        BY DEF Holds, TypeOK
      <3> QED  BY <1>1, <3>1
    <2>3. \/ mem'.w.bnum \in {0} \cup Own(o2, p)
          \/ mem'.w.bnum = mem.w.bnum /\ mem.w.bnum \notin Mine(pg, s)
      BY <1>2, <1>5, <2>1
    <2>4. \A b \in initMap : b \in map \cup Mine(pg, s) \/ Mem(mem', b) = Mem(mem, b)
      BY <1>5
    <2>5. mem'.r.bnum \in Mine(pg, s)
      BY <1>2, <1>4, <1>5
    <2>6. /\ map' \subseteq initMap /\ Own(o2, p) \cap map' = {}
          /\ map' \cup Own(o2, p) = map \cup Mine(pg, s)
      BY <1>1, <1>2, <2>1
    <2>7. /\ Kept(mem', o2, p, "saved", puts[s], j) /\ mem' \in Memory
          /\ puts[s] \in 0 .. MaxPuts /\ p \in Chains
      BY <1>1, <1>2, <1>5, <2>1
    <2> QED  BY <1>8, <2>2, <2>3, <2>4, <2>5, <2>6, <2>7, StepLive
  <1>9. CASE Got(s) = 0
    <2>1. obj' = [obj EXCEPT ![s] = o] /\ pos' = [pos EXCEPT ![s] = pos[s]]
      <3>1. obj \in [Stashes -> Object] /\ pos \in [Stashes -> 0 .. MaxPuts]
        BY DEF Holds, TypeOK
      <3>2. UNCHANGED <<obj, pos>>
        BY <1>9 DEF get
      <3> QED  BY <3>1, <3>2 DEF o
    <2>2. ReadTo(o, p, pos[s])
      BY <1>2 DEF Kept
    <2> QED  BY <1>2, <1>8, <2>1, <2>2
  <1>10. CASE Got(s) # 0
    <2> DEFINE o1 == [o EXCEPT !.offs = @ + 1]
    <2>1. pos' = [pos EXCEPT ![s] = pos[s] + 1] /\ pos[s] + 1 \in 0 .. puts[s]
      BY <1>2, <1>7, <1>10 DEF get
    <2>2. obj' = [obj EXCEPT ![s] =
                    IF o1.offs >= Next63 /\ o1.curr # o1.last
                    THEN [o1 EXCEPT !.curr = mem'.r.bytes[Next63], !.offs = 0] ELSE o1]
      BY <1>10 DEF get, o
    <2>3. /\ o1.count = o.count /\ o1.first = o.first /\ o1.last = o.last /\ o1.curr = o.curr
          /\ o1.offs = o.offs + 1
      BY <1>2 DEF Object
    <2>4. o1 \in Object
      <3>1. o.offs + 1 \in 0 .. Next63
        BY <1>3, Numbers
      <3> QED  BY <1>2, <3>1 DEF Object
    <2>5. k \in Nat /\ o.count \in Nat /\ k <= o.count
      BY <1>2, ChainFacts
    <2> HIDE DEF o1
    <2>6. CASE o1.offs >= Next63 /\ o1.curr # o1.last
      <3> DEFINE o2 == [o1 EXCEPT !.curr = p[k + 1], !.offs = 0]
      <3>1. k # o.count /\ k + 1 \in 0 .. o.count
        BY <1>3, <2>3, <2>5, <2>6
      <3>2. mem'.r.bytes[Next63] = p[k + 1]
        BY <1>2, <1>3, <1>5 DEF Linked
      <3>3. p[k + 1] \in 0 .. Pages - 1
        BY <1>2, <3>1, ChainFacts DEF Chains
      <3>4. /\ o2.count = o.count /\ o2.first = o.first /\ o2.last = o.last
            /\ o2.curr = p[k + 1] /\ o2.offs = 0
        BY <2>3, <2>4 DEF Object
      <3>5. o2 \in Object
        <4>1. 0 \in 0 .. Next63
          BY Numbers
        <4> HIDE DEF o2
        <4> QED  BY <2>4, <3>3, <4>1, Moved DEF o2
      <3>6. pos[s] + 1 + 3 = Next63 * (k + 1) + 0
        <4>1. o.offs + 1 = Next63
          BY <1>3, <2>3, <2>6, Numbers
        <4>2. Next63 * (k + 1) = Next63 * k + Next63 /\ Next63 * k \in Nat
          BY <2>5, Numbers, Products
        <4>3. PICK a \in Nat : a = Next63 * k
          BY <4>2
        <4>4. pos[s] + 3 = a + o.offs /\ Next63 * (k + 1) = a + Next63
          BY <1>3, <4>2, <4>3
        <4>5. pos[s] \in Nat /\ o.offs \in Nat /\ Next63 \in Nat /\ pos[s] + 3 = a + o.offs
          BY <1>2, <1>3, <4>4, Numbers
        <4>6. pos[s] + 1 + 3 = (a + Next63) + 0
          BY <4>1, <4>3, <4>5
        <4> QED  BY <4>4, <4>6, Zenon
      <3>7. ReadTo(o2, p, pos[s] + 1)
        <4>1. o2.offs < Next63
          BY <3>4, Numbers
        <4>2. \E x \in 0 .. o.count : o2.curr = p[x] /\ pos[s] + 1 + 3 = Next63 * x + o2.offs
          BY <3>1, <3>4, <3>6, Zenon
        <4> QED  BY <3>4, <4>1, <4>2, Zenon DEF ReadTo
      <3>8. obj' = [obj EXCEPT ![s] = o2]
        BY <2>2, <2>6, <3>2
      <3> HIDE DEF o2
      <3> QED  BY <1>8, <2>1, <3>4, <3>5, <3>7, <3>8
    <2>7. CASE ~(o1.offs >= Next63 /\ o1.curr # o1.last)
      <3>1. o1.offs < Next63
        <4>1. CASE o.curr = o.last
          <5>1. ~(o.offs >= Mem(mem, o.curr)[Tail])
            BY <1>3, <1>7, <1>10, <4>1
          <5>2. Mem(mem, o.curr)[Tail] < Next63
            BY <1>2, <4>1 DEF Kept, Filled
          <5>3. Mem(mem, o.curr)[Tail] \in Nat
            <6>1. o.curr \in 0 .. Pages - 1 /\ Tail \in 0 .. Next63
              BY <1>2, Numbers DEF Object
            <6>2. Mem(mem, o.curr) \in Page
              BY <1>2, <6>1, MemTypes
            <6> QED  BY <6>1, <6>2 DEF Page
          <5> QED  BY <1>3, <2>3, <5>1, <5>2, <5>3, Numbers
        <4>2. CASE o.curr # o.last
          BY <1>3, <2>3, <2>7, <4>2, Numbers
        <4> QED  BY <4>1, <4>2
      <3>2. pos[s] + 1 + 3 = Next63 * k + (o.offs + 1)
        <4>1. Next63 * k \in Nat
          BY <2>5, Numbers, Products
        <4> QED  BY <1>2, <1>3, <4>1
      <3>3. ReadTo(o1, p, pos[s] + 1)
        BY <1>3, <2>3, <3>1, <3>2 DEF ReadTo
      <3>4. obj' = [obj EXCEPT ![s] = o1]
        BY <2>2, <2>7
      <3> QED  BY <1>8, <2>1, <2>3, <2>4, <3>3, <3>4
    <2> QED  BY <2>6, <2>7
  <1> QED  BY <1>9, <1>10

\* Any copy of the links of a stash's pages leads along its chain.
LEMMA ChainFollows ==
  ASSUME NEW m \in Memory, NEW o \in Object, NEW p \in Chains, Linked(m, o, p),
         NEW c, \A b \in Own(o, p) : c[b][Next63] = Mem(m, b)[Next63]
  PROVE  ChainBy(c, o.first) = p /\ PagesOf(c, o.first) = Own(o, p)
  <1>1. p \in [0 .. Pages -> 0 .. Pages - 1] /\ p[0] = o.first
    BY DEF Chains, Linked
  <1>2. ASSUME NEW k \in 1 .. Pages  PROVE p[k] = Link(c, p[k - 1])
    <2>1. k - 1 \in 0 .. Pages /\ k \in 0 .. Pages /\ (k - 1) + 1 = k
      BY Numbers
    <2>2. CASE k - 1 \in 0 .. o.count
      <3>1. p[k - 1] \in Own(o, p) /\ p[k - 1] # 0
        BY <2>2, ChainFacts
      <3>2. Mem(m, p[k - 1])[Next63] = p[k]
        BY <2>1, <2>2 DEF Linked
      <3> QED  BY <3>1, <3>2 DEF Link
    <2>3. CASE k - 1 \notin 0 .. o.count
      <3>1. ~(k - 1 <= o.count) /\ ~(k <= o.count)
        BY <2>1, <2>3, ChainFacts
      <3>2. p[k - 1] = 0 /\ p[k] = 0
        BY <2>1, <3>1 DEF Linked
      <3> QED  BY <3>2 DEF Link
    <2> QED  BY <2>2, <2>3
  <1>3. ChainBy(c, o.first) = p
    BY <1>1, <1>2, ChainIs
  <1>4. {p[k] : k \in 0 .. Pages} \ {0} = Own(o, p)
    <2>1. \A k \in 0 .. Pages : p[k] # 0 => k \in 0 .. o.count
      BY ChainFacts DEF Linked
    <2>2. \A k \in 0 .. o.count : k \in 0 .. Pages /\ p[k] # 0
      BY ChainFacts
    <2> QED  BY <2>1, <2>2 DEF Own
  <1> QED  BY <1>3, <1>4 DEF PagesOf

\* release(): exactly the stash's own pages are free again.
LEMMA ReleaseKeeps ==
  ASSUME NEW pg \in [Stashes -> Chains], Holds(pg), NEW s \in Stashes, release(s)
  PROVE  StashInv'
  <1> DEFINE o == obj[s]
             p == pg[s]
  <1>0. phase[s] \in {"saved", "prepared"}
    BY DEF release
  <1>1. /\ s \in Live /\ mem \in Memory /\ o \in Object /\ p \in Chains
        /\ Kept(mem, o, p, phase[s], puts[s], pos[s]) /\ Linked(mem, o, p)
        /\ Mine(pg, s) = Own(o, p) /\ Own(o, p) \cap map = {} /\ map \subseteq initMap
    BY <1>0, LiveFacts
  <1>2. /\ map' = map \cup PagesOf(mem'.chip, o.first)
        /\ phase' = [phase EXCEPT ![s] = "none"] /\ obj' = [obj EXCEPT ![s] = NewStash]
        /\ puts' = [puts EXCEPT ![s] = 0] /\ pos' = [pos EXCEPT ![s] = 0]
    BY DEF release
  <1> HIDE DEF o, p
  <1>3. Own(o, p) \subseteq initMap /\ o.first \in Own(o, p) /\ 0 \notin Own(o, p)
    BY <1>1, ChainFacts
  \* All copies are in the chip.
  <1>4. /\ mem' \in Memory /\ \A b \in 0 .. Pages - 1 : Mem(mem', b) = Mem(mem, b)
        /\ \A b \in Own(o, p) : mem'.chip[b] = Mem(mem, b)
        /\ mem'.w.bnum = 0 \/ (mem'.w.bnum = mem.w.bnum /\ mem.w.bnum \notin Own(o, p))
        /\ mem'.r = mem.r \/ mem'.r.bnum \in Own(o, p)
    <2>1. CASE phase[s] = "saved" /\ mem.w.bnum # o.first /\ UNCHANGED mem
      <3>1. mem.w.bnum \notin Own(o, p)
        BY <1>1, <2>1 DEF Kept, Buffered
      <3>2. \A b \in Own(o, p) : mem.chip[b] = Mem(mem, b)
        BY <3>1 DEF Mem
      <3> QED  BY <1>1, <2>1, <3>1, <3>2
    <2>2. CASE phase[s] = "prepared" /\ mem' = LoadR(LoadW(mem, 0), o.first)
      <3> DEFINE m == LoadW(mem, 0)
      <3>1. 0 \in 0 .. Pages - 1 /\ o.first \in 0 .. Pages - 1
        BY <1>1, Numbers DEF Object
      <3>2. /\ m \in Memory /\ m.w.bnum = 0 /\ \A b \in 0 .. Pages - 1 : Mem(m, b) = Mem(mem, b)
            /\ \A b \in 0 .. Pages - 1 : b # 0 => m.chip[b] = Mem(mem, b)
        BY <1>1, <3>1, LoadsW
      <3>3. mem' = LoadR(m, o.first)
        BY <2>2
      <3> HIDE DEF m
      <3>4. /\ mem' \in Memory /\ mem'.w = m.w /\ mem'.chip = m.chip /\ mem'.r.bnum = o.first
            /\ \A b : Mem(mem', b) = Mem(m, b)
        BY <3>1, <3>2, <3>3, LoadsR
      <3>5. \A b \in Own(o, p) : b \in 0 .. Pages - 1 /\ b # 0
        BY <1>3, Numbers
      <3> QED  BY <1>3, <3>2, <3>4, <3>5
    <2> QED  BY <2>1, <2>2 DEF release, o
  <1>5. PagesOf(mem'.chip, o.first) = Own(o, p)
    BY <1>1, <1>4, ChainFollows
  <1>6. NewStash \in Object
    BY Numbers DEF NewStash, Object
  <1>7. map' \subseteq initMap /\ map' \cup {} = map \cup Mine(pg, s) /\ {} \cap map' = {}
    BY <1>1, <1>2, <1>3, <1>5
  <1>8. \A b \in initMap : b \in map \cup Mine(pg, s) \/ Mem(mem', b) = Mem(mem, b)
    BY <1>4, Numbers
  <1>9. /\ \/ mem'.w.bnum \in {0} \cup {}
           \/ mem'.w.bnum = mem.w.bnum /\ mem.w.bnum \notin Mine(pg, s)
        /\ mem'.r = mem.r \/ mem'.r.bnum \in {0, NoPage} \cup map \cup Mine(pg, s)
    BY <1>1, <1>4
  <1>10. 0 \in 0 .. MaxPuts /\ 0 \in 0 .. 0 /\ p \in Chains /\ mem' \in Memory
    BY <1>1, <1>4, Numbers
  <1>11. PICK none : none = "none"
    OBVIOUS
  <1>12. /\ phase' = [phase EXCEPT ![s] = none] /\ none \in {"none", "writing", "saved", "prepared"}
         /\ {} = IF none = "none" THEN {} ELSE Own(NewStash, p)
         /\ none # "none" => Kept(mem', NewStash, p, none, 0, 0)
    BY <1>2, <1>11
  <1>13. /\ obj' = [obj EXCEPT ![s] = NewStash] /\ puts' = [puts EXCEPT ![s] = 0]
         /\ pos' = [pos EXCEPT ![s] = 0]
    BY <1>2
  <1> QED  BY <1>6, <1>7, <1>8, <1>9, <1>10, <1>12, <1>13, StepOf

\* prepare(): page 0 is loaded for writing, so all pages are in the chip.
LEMMA PrepareKeeps ==
  ASSUME NEW pg \in [Stashes -> Chains], Holds(pg), NEW s \in Stashes, prepare(s)
  PROVE  StashInv'
  <1> DEFINE o == obj[s]
             p == pg[s]
             m == LoadW(mem, 0)
  <1>0. /\ phase[s] = "saved" /\ mem' = LoadR(m, o.first)
        /\ phase' = [phase EXCEPT ![s] = "prepared"] /\ UNCHANGED <<map, obj, puts, pos>>
    BY DEF prepare
  <1>1. /\ s \in Live /\ mem \in Memory /\ o \in Object /\ p \in Chains
        /\ Kept(mem, o, p, "saved", puts[s], pos[s]) /\ Linked(mem, o, p)
        /\ Mine(pg, s) = Own(o, p) /\ Own(o, p) \cap map = {} /\ map \subseteq initMap
        /\ puts[s] \in 0 .. MaxPuts /\ pos[s] \in 0 .. puts[s]
    BY <1>0, LiveFacts
  <1>2. /\ obj' = [obj EXCEPT ![s] = o] /\ puts' = [puts EXCEPT ![s] = puts[s]]
        /\ pos' = [pos EXCEPT ![s] = pos[s]]
    <2>1. /\ obj \in [Stashes -> Object] /\ puts \in [Stashes -> 0 .. MaxPuts]
          /\ pos \in [Stashes -> 0 .. MaxPuts]
      BY DEF Holds, TypeOK
    <2> QED  BY <1>0, <2>1
  <1> HIDE DEF o, p
  <1>3. /\ Own(o, p) \subseteq initMap /\ o.first \in Own(o, p)
        /\ 0 \notin Own(o, p) /\ NoPage \notin Own(o, p)
    BY <1>1, ChainFacts
  <1>4. /\ m \in Memory /\ m.w.bnum = 0 /\ (m.r = mem.r \/ m.r.bnum = NoPage)
        /\ \A b \in 0 .. Pages - 1 : Mem(m, b) = Mem(mem, b)
    <2>1. 0 \in 0 .. Pages - 1
      BY Numbers
    <2> QED  BY <1>1, <2>1, LoadsW
  <1> HIDE DEF m
  <1>5. Kept(m, o, p, "saved", puts[s], pos[s])
    <2>1. \A b \in Own(o, p) : Mem(m, b) = Mem(mem, b)
      BY <1>3, <1>4, Numbers
    <2>2. m.w.bnum \notin Own(o, p) /\ (m.r.bnum \notin Own(o, p) \/ m.r = mem.r)
      BY <1>3, <1>4
    <2> QED  BY <1>1, <2>1, <2>2, Untouched
  <1>6. Kept(m, o, p, "prepared", puts[s], pos[s])
    BY <1>3, <1>4, <1>5 DEF Kept, Headed, Buffered
  <1>7. /\ Kept(mem', o, p, "prepared", puts[s], pos[s]) /\ mem' \in Memory /\ mem'.w = m.w
        /\ mem'.r.bnum = o.first /\ \A c : Mem(mem', c) = Mem(m, c)
    BY <1>0, <1>1, <1>3, <1>4, <1>6, ReadKeeps
  <1>8. \A b \in initMap : b \in map \cup Mine(pg, s) \/ Mem(mem', b) = Mem(mem, b)
    BY <1>4, <1>7, Numbers
  <1>9. /\ map' \subseteq initMap /\ Own(o, p) \cap map' = {}
        /\ map' \cup Own(o, p) = map \cup Mine(pg, s)
    BY <1>0, <1>1
  <1>10. mem'.w.bnum \in {0} \cup Own(o, p) /\ mem'.r.bnum \in Mine(pg, s)
    BY <1>1, <1>3, <1>4, <1>7
  <1> QED  BY <1>0, <1>1, <1>2, <1>7, <1>8, <1>9, <1>10, StepLive

\* The first page with the header written into it; the rest is as it was.
WithHeader(z, o) == [z EXCEPT ![0] = o.count, ![1] = o.first, ![2] = o.last]
\* The header takes offsets 0 to 2 and leaves tail and link alone.
LEMMA HeaderWritten ==
  ASSUME NEW z \in Page, NEW o \in Object, NEW y, y = WithHeader(z, o)
  PROVE  /\ y \in Page /\ y[0] = o.count /\ y[1] = o.first /\ y[2] = o.last
         /\ \A x \in 0 .. Next63 : x >= 3 => y[x] = z[x]
         /\ y[Tail] = z[Tail] /\ y[Next63] = z[Next63]
  <1>1. o.count \in Nat /\ o.first \in Nat /\ o.last \in Nat
    <2>1. o.count \in 0 .. 255 /\ o.first \in 0 .. Pages - 1 /\ o.last \in 0 .. Pages - 1
      BY DEF Object
    <2> QED  BY <2>1
  <1>2. {0, 1, 2, Tail, Next63} \subseteq 0 .. Next63 /\ Tail >= 3 /\ Next63 >= 3
    BY Numbers
  <1>3. y \in Page /\ y[0] = o.count /\ y[1] = o.first /\ y[2] = o.last
    BY <1>1, <1>2 DEF Page, WithHeader
  <1>4. \A x \in 0 .. Next63 : x >= 3 => y[x] = z[x]
    BY DEF Page, WithHeader
  <1> QED  BY <1>2, <1>3, <1>4

\* Of the bytes put, those of the first page are behind the header.
LEMMA BehindHeader ==
  ASSUME NEW m, NEW o, NEW p, Linked(m, o, p), NEW k \in 0 .. o.count, NEW x \in 0 .. Tail,
         NEW n, Next63 * k + x - 2 \in 1 .. n, p[k] = o.first
  PROVE  x >= 3 /\ x \in 0 .. Next63
  <1>1. k = 0
    BY Numbers DEF Linked
  <1>2. Next63 * k = 0
    BY <1>1, Numbers, Products
  <1> QED  BY <1>2, Numbers

\* save(): the read buffer has no old copy of the first page any more.
LEMMA SaveKeeps ==
  ASSUME NEW pg \in [Stashes -> Chains], Holds(pg), NEW s \in Stashes, save(s)
  PROVE  StashInv'
  <1> DEFINE o == obj[s]
             p == pg[s]
             m == LoadW(mem, o.first)
             y == WithHeader(m.w.bytes, o)
             saved == Written(m, y)
  <1>0. /\ phase[s] = "writing"
        /\ mem' = IF saved.r.bnum = o.first THEN LoadR(saved, 0) ELSE saved
        /\ phase' = [phase EXCEPT ![s] = "saved"] /\ UNCHANGED <<map, obj, puts, pos>>
    BY DEF save, WithHeader, Written
  <1>1. /\ s \in Live /\ mem \in Memory /\ o \in Object /\ p \in Chains
        /\ Kept(mem, o, p, "writing", puts[s], pos[s]) /\ Linked(mem, o, p)
        /\ Mine(pg, s) = Own(o, p) /\ Own(o, p) \cap map = {} /\ map \subseteq initMap
        /\ puts[s] \in 0 .. MaxPuts /\ pos[s] \in 0 .. puts[s]
    BY <1>0, LiveFacts
  <1>2. /\ obj' = [obj EXCEPT ![s] = o] /\ puts' = [puts EXCEPT ![s] = puts[s]]
        /\ pos' = [pos EXCEPT ![s] = pos[s]]
    <2>1. /\ obj \in [Stashes -> Object] /\ puts \in [Stashes -> 0 .. MaxPuts]
          /\ pos \in [Stashes -> 0 .. MaxPuts]
      BY DEF Holds, TypeOK
    <2> QED  BY <1>0, <2>1
  <1> HIDE DEF o, p
  <1>3. /\ Own(o, p) \subseteq initMap /\ o.first \in Own(o, p) /\ o.last \in Own(o, p)
        /\ 0 \notin Own(o, p) /\ NoPage \notin Own(o, p)
        /\ \A k \in 0 .. o.count : p[k] \in Own(o, p)
    BY <1>1, ChainFacts
  <1>4. o.first \in 0 .. Pages - 1 /\ 0 \in 0 .. Pages - 1
    BY Numbers, <1>1 DEF Object
  <1>5. /\ m \in Memory /\ m.w.bnum = o.first /\ m.w.bytes = Mem(mem, o.first)
        /\ \A b \in 0 .. Pages - 1 : Mem(m, b) = Mem(mem, b)
        /\ m.r = mem.r \/ m.r.bnum = NoPage
    BY <1>1, <1>4, LoadsW
  <1>6. PICK z \in Page : z = m.w.bytes
    BY <1>5, MemTypes
  <1> HIDE DEF m
  <1>7. /\ y \in Page /\ y[0] = o.count /\ y[1] = o.first /\ y[2] = o.last
        /\ \A x \in 0 .. Next63 : x >= 3 => y[x] = z[x]
        /\ y[Tail] = z[Tail] /\ y[Next63] = z[Next63]
    <2>1. y = WithHeader(z, o)
      BY <1>6
    <2> HIDE DEF y
    <2> QED  BY <1>1, <2>1, HeaderWritten
  <1> HIDE DEF y
  <1>8. /\ saved \in Memory /\ saved.w.bnum = o.first /\ saved.w.bytes = y /\ saved.r = m.r
        /\ \A b \in 0 .. Pages - 1 : Mem(saved, b) = IF b = o.first THEN y ELSE Mem(mem, b)
    <2>1. /\ saved \in Memory /\ saved.w.bnum = m.w.bnum /\ saved.w.bytes = y /\ saved.r = m.r
          /\ \A b \in 0 .. Pages - 1 : Mem(saved, b) = IF b = m.w.bnum THEN y ELSE Mem(m, b)
      BY <1>5, <1>7, Writes
    <2> QED  BY <1>5, <2>1
  <1> HIDE DEF saved
  <1>9. /\ mem' \in Memory /\ mem'.w.bnum = o.first
        /\ \A b \in 0 .. Pages - 1 : Mem(mem', b) = IF b = o.first THEN y ELSE Mem(mem, b)
        /\ \/ mem'.r = mem.r /\ mem'.r.bnum # o.first
           \/ mem'.r.bnum \in {0, NoPage}
    <2>1. CASE saved.r.bnum = o.first
      <3>1. mem' = LoadR(saved, 0)
        BY <1>0, <2>1
      <3>2. /\ mem' \in Memory /\ mem'.w = saved.w /\ mem'.r.bnum = 0
            /\ \A b : Mem(mem', b) = Mem(saved, b)
        BY <1>4, <1>8, <3>1, LoadsR
      <3> QED  BY <1>8, <3>2
    <2>2. CASE saved.r.bnum # o.first
      BY <1>0, <1>5, <1>8, <2>2
    <2> QED  BY <2>1, <2>2
  \* Every page has its link and tail as before, the first page its data too.
  <1>10. ASSUME NEW b \in Own(o, p)
         PROVE  /\ Mem(mem', b)[Next63] = Mem(mem, b)[Next63]
                /\ Mem(mem', b)[Tail] = Mem(mem, b)[Tail]
                /\ \A x \in 0 .. Next63 : b # o.first \/ x >= 3 => Mem(mem', b)[x] = Mem(mem, b)[x]
    <2>1. b \in 0 .. Pages - 1
      BY <1>3, Numbers
    <2> QED  BY <1>5, <1>6, <1>7, <1>9, <2>1
  <1>11. Linked(mem', o, p)
    BY <1>1, <1>3, <1>10 DEF Linked
  <1>12. Filled(mem', o, p, puts[s])
    <2>1. Mem(mem', o.last)[Tail] = Mem(mem, o.last)[Tail]
      BY <1>3, <1>10
    <2>2. ASSUME NEW k \in 0 .. o.count, NEW x \in 0 .. Tail, Next63 * k + x - 2 \in 1 .. puts[s]
          PROVE  Mem(mem', p[k])[x] = Char(Next63 * k + x - 2)
      <3>1. Mem(mem, p[k])[x] = Char(Next63 * k + x - 2)
        BY <1>1, <2>2 DEF Kept, Filled
      <3>2. p[k] # o.first \/ x >= 3
        BY <1>1, <2>2, BehindHeader
      <3>3. x \in 0 .. Next63 /\ p[k] \in Own(o, p)
        BY <1>3, Numbers
      <3> QED  BY <1>10, <3>1, <3>2, <3>3
    <2> QED  BY <1>1, <2>1, <2>2 DEF Kept, Filled
  <1>13. Headed(mem', o, "saved")
    BY <1>4, <1>7, <1>9 DEF Headed
  <1>14. Buffered(mem', o, p, "saved")
    <2>1. ASSUME mem'.r.bnum \in Own(o, p)  PROVE mem'.r.bytes = Mem(mem', mem'.r.bnum)
      <3>1. mem'.r = mem.r /\ mem'.r.bnum # o.first
        BY <1>3, <1>9, <2>1
      <3>2. mem.r.bytes = Mem(mem, mem.r.bnum)
        BY <1>1, <2>1, <3>1 DEF Kept, Buffered
      <3>3. mem'.r.bnum \in 0 .. Pages - 1
        BY <1>3, <2>1, Numbers
      <3> QED  BY <1>9, <3>1, <3>2, <3>3
    <2> QED  BY <1>9, <2>1 DEF Buffered
  <1>15. Kept(mem', o, p, "saved", puts[s], pos[s])
    BY <1>1, <1>11, <1>12, <1>13, <1>14 DEF Kept
  <1>16. \A b \in initMap : b \in map \cup Mine(pg, s) \/ Mem(mem', b) = Mem(mem, b)
    <2>1. ASSUME NEW b \in initMap, b # o.first  PROVE Mem(mem', b) = Mem(mem, b)
      <3>1. b \in 0 .. Pages - 1
        BY Numbers
      <3> QED  BY <1>9, <2>1, <3>1
    <2>2. o.first \in Mine(pg, s)
      BY <1>1, <1>3
    <2> QED  BY <2>1, <2>2
  <1>17. /\ map' \subseteq initMap /\ Own(o, p) \cap map' = {}
         /\ map' \cup Own(o, p) = map \cup Mine(pg, s)
    BY <1>0, <1>1
  <1>18. /\ mem'.w.bnum \in {0} \cup Own(o, p)
         /\ mem'.r = mem.r \/ mem'.r.bnum \in {0, NoPage} \cup map \cup Mine(pg, s)
    BY <1>3, <1>9
  <1>19. /\ phase' = [phase EXCEPT ![s] = "saved"] /\ mem' \in Memory
         /\ o \in Object /\ p \in Chains
    BY <1>0, <1>1, <1>9
  <1> QED  BY <1>1, <1>2, <1>15, <1>16, <1>17, <1>18, <1>19, StepLive

\* A new page of a new stash: its header, its tail and no link.
NewPage(z, blk) ==
  [z EXCEPT ![0] = 0, ![1] = blk, ![2] = blk, ![Tail] = sizeofHeader, ![Next63] = 0]
\* The new page has what create() writes, the tail at the first data byte.
LEMMA NewPageIs ==
  ASSUME NEW z \in Page, NEW blk \in 0 .. Pages - 1, NEW y, y = NewPage(z, blk)
  PROVE  /\ y \in Page /\ y[0] = 0 /\ y[1] = blk /\ y[2] = blk
         /\ y[Tail] = 3 /\ y[Next63] = 0
  <1>1. blk \in Nat /\ {0, 1, 2, Tail, Next63} \subseteq 0 .. Next63
    BY Numbers
  <1>2. Tail \notin {0, 1, 2, Next63} /\ Next63 \notin {0, 1, 2} /\ sizeofHeader = 3
    BY Numbers
  <1> QED  BY <1>1, <1>2 DEF Page, NewPage

\* A stash of one new page is kept as it should be.
LEMMA NewIsKept ==
  ASSUME NEW m, NEW blk \in initMap, NEW y \in Page, Mem(m, blk) = y, y[Tail] = 3, y[Next63] = 0,
         m.w.bnum = blk, m.r.bnum = blk, NEW o \in Object,
         o.count = 0, o.first = blk, o.last = blk, o.curr = blk, o.offs = 3,
         NEW p \in Chains, p[0] = blk, \A k \in 1 .. Pages : p[k] = 0
  PROVE  Kept(m, o, p, "writing", 0, 0) /\ Own(o, p) = {blk}
  <1>1. p[1] = 0 /\ blk # 0
    BY Numbers
  <1>2. \A k \in 0 .. Pages : p[k] # 0 <=> k <= 0
    <2>1. \A k \in 0 .. Pages : (k = 0 /\ k <= 0) \/ (k \in 1 .. Pages /\ ~(k <= 0))
      <3>1. Pages \in Nat
        BY Numbers
      <3> QED  BY <3>1
    <2> QED  BY <1>1, <2>1
  <1>3. 0 .. 0 = {0} /\ 0 + 1 = 1 /\ 0 \in 0 .. Pages - 2
    BY Numbers
  <1>4. Own(o, p) = {blk}
    <2>1. Own(o, p) = {p[k] : k \in {0}}
      BY <1>3 DEF Own
    <2> QED  BY <2>1
  <1>5. Linked(m, o, p)
    <2>1. o.count \in 0 .. Pages - 2 /\ \A k \in 0 .. Pages : p[k] # 0 <=> k <= o.count
      BY <1>2, <1>3
    <2>2. \A k \in 0 .. o.count : k = 0
      BY <1>3
    <2>3. Mem(m, p[0])[Next63] = p[0 + 1] /\ p[o.count] = o.last
      BY <1>1, <1>3
    <2> QED  BY <2>1, <2>2, <2>3 DEF Linked
  <1>6. Next63 * 0 = 0 /\ 3 < Next63 /\ 0 + 3 = 0 + 3
    BY Numbers, Products
  <1>7. Filled(m, o, p, 0)
    <2>1. Mem(m, o.last)[Tail] = 3 /\ 0 + 3 = Next63 * o.count + 3
      BY <1>1, <1>6
    <2>2. \A v : v \notin 1 .. 0
      OBVIOUS
    <2> QED  BY <1>6, <2>1, <2>2 DEF Filled
  <1>8. ReadTo(o, p, 0)
    BY <1>3, <1>6 DEF ReadTo
  <1>9. Headed(m, o, "writing") /\ Buffered(m, o, p, "writing")
    BY <1>1, <1>4 DEF Headed, Buffered
  <1> QED  BY <1>4, <1>5, <1>7, <1>8, <1>9 DEF Kept

\* create(): the page taken is in neither buffer, and becomes the chain.
LEMMA CreateKeeps ==
  ASSUME NEW pg \in [Stashes -> Chains], Holds(pg), NEW s \in Stashes, create(s)
  PROVE  StashInv'
  <1> DEFINE blk == allocBlock
             m == LoadW(mem, blk)
             y == NewPage(m.w.bytes, blk)
             n == Written(m, y)
             p == [k \in 0 .. Pages |-> IF k = 0 THEN blk ELSE 0]
             o == [count |-> 0, first |-> blk, last |-> blk, curr |-> blk, offs |-> 3]
  <1>1. /\ phase[s] = "none" /\ freeCount > 0 /\ map' = map \ {blk} /\ mem' = LoadR(n, blk)
        /\ obj' = [obj EXCEPT ![s] = [count |-> mem'.r.bytes[0], first |-> mem'.r.bytes[1],
                     last |-> mem'.r.bytes[2], curr |-> blk, offs |-> sizeofHeader]]
        /\ phase' = [phase EXCEPT ![s] = "writing"] /\ UNCHANGED <<puts, pos>>
    BY DEF create, NewPage, Written
  <1>2. mem \in Memory /\ map \subseteq initMap /\ Mine(pg, s) = {} /\ puts[s] = 0 /\ pos[s] = 0
    BY <1>1 DEF Holds, TypeOK, Mine, Live
  <1>3. puts' = [puts EXCEPT ![s] = 0] /\ pos' = [pos EXCEPT ![s] = 0]
    <2>1. puts \in [Stashes -> 0 .. MaxPuts] /\ pos \in [Stashes -> 0 .. MaxPuts]
      BY DEF Holds, TypeOK
    <2> QED  BY <1>1, <1>2, <2>1
  <1>4. blk \in map /\ blk \in initMap /\ blk \in 0 .. Pages - 1 /\ blk # 0
    <2>1. blk \in map
      BY <1>1, <1>2, Allocated
    <2> QED  BY <1>2, <2>1, Numbers
  <1> HIDE DEF blk
  <1>5. blk # mem.w.bnum
    BY <1>4 DEF Holds, Apart
  <1>6. /\ m \in Memory /\ m.w.bnum = blk /\ m.r.bnum # blk
        /\ \A b \in 0 .. Pages - 1 : Mem(m, b) = Mem(mem, b)
    BY <1>2, <1>4, <1>5, LoadsW
  <1> HIDE DEF m
  <1>7. y \in Page /\ y[0] = 0 /\ y[1] = blk /\ y[2] = blk /\ y[Tail] = 3 /\ y[Next63] = 0
    BY <1>4, <1>6, MemTypes, NewPageIs
  <1> HIDE DEF y
  <1>8. /\ n \in Memory /\ n.w.bnum = blk /\ n.w.bytes = y /\ n.r = m.r
        /\ \A b \in 0 .. Pages - 1 : Mem(n, b) = IF b = blk THEN y ELSE Mem(mem, b)
    <2>1. /\ n \in Memory /\ n.w.bnum = m.w.bnum /\ n.w.bytes = y /\ n.r = m.r
          /\ \A b \in 0 .. Pages - 1 : Mem(n, b) = IF b = m.w.bnum THEN y ELSE Mem(m, b)
      BY <1>6, <1>7, Writes
    <2> QED  BY <1>6, <2>1
  <1> HIDE DEF n
  <1>9. /\ mem' \in Memory /\ mem'.w.bnum = blk /\ mem'.r.bnum = blk /\ mem'.r.bytes = y
        /\ \A b \in 0 .. Pages - 1 : Mem(mem', b) = IF b = blk THEN y ELSE Mem(mem, b)
    <2>1. /\ mem' \in Memory /\ mem'.w = n.w /\ mem'.r.bnum = blk
          /\ mem'.r.bytes = IF blk = n.r.bnum THEN n.r.bytes ELSE Mem(n, blk)
          /\ \A b : Mem(mem', b) = Mem(n, b)
      BY <1>1, <1>4, <1>8, LoadsR
    <2> QED  BY <1>4, <1>6, <1>8, <2>1
  <1>10. obj' = [obj EXCEPT ![s] = o]
    BY <1>1, <1>7, <1>9, Numbers
  <1>11. o \in Object /\ p \in Chains
    <2>1. 0 \in 0 .. 255 /\ 3 \in 0 .. Next63 /\ 0 \in 0 .. Pages - 1
      BY Numbers
    <2> QED  BY <1>4, <2>1 DEF Object, Chains
  <1>12. Mem(mem', blk) = y
    BY <1>4, <1>9
  <1>12a. /\ o.count = 0 /\ o.first = blk /\ o.last = blk /\ o.curr = blk /\ o.offs = 3
          /\ p[0] = blk /\ \A k \in 1 .. Pages : p[k] = 0
    BY Numbers
  <1> HIDE DEF o, p
  <1>13. Kept(mem', o, p, "writing", 0, 0) /\ Own(o, p) = {blk}
    BY <1>4, <1>7, <1>9, <1>11, <1>12, <1>12a, NewIsKept
  <1>14. /\ map' \subseteq initMap /\ Own(o, p) \cap map' = {}
         /\ map' \cup Own(o, p) = map \cup Mine(pg, s)
    BY <1>1, <1>2, <1>4, <1>13
  <1>15. \A b \in initMap : b \in map \cup Mine(pg, s) \/ Mem(mem', b) = Mem(mem, b)
    BY <1>4, <1>9, Numbers
  <1>16. mem'.w.bnum \in {0} \cup Own(o, p) /\ mem'.r.bnum \in {0, NoPage} \cup map \cup Mine(pg, s)
    BY <1>4, <1>9, <1>13
  <1>17. 0 \in 0 .. MaxPuts /\ 0 \in 0 .. 0
    BY Numbers
  <1>18. phase' = [phase EXCEPT ![s] = "writing"] /\ mem' \in Memory
    BY <1>1, <1>9
  <1> QED  BY <1>3, <1>10, <1>11, <1>13, <1>14, <1>15, <1>16, <1>17, <1>18, StepLive

\* What the write buffer has when put() comes to the last page, and what may
\* still be in the read buffer.
AtLast(m1, m, o, p) ==
  /\ m1 \in Memory /\ m1.w.bnum = o.last /\ m1.w.bytes = Mem(m, o.last) /\ m1.w.bytes \in Page
  /\ \A b \in 0 .. Pages - 1 : Mem(m1, b) = Mem(m, b)
  /\ m1.r = m.r \/ m1.r.bnum = NoPage
  /\ m1.r.bnum \in Own(o, p) =>
       m1.r.bnum = o.first \/ (m1.r.bytes = Mem(m, m1.r.bnum) /\ m1.r.bnum # o.last)
\* load(0, last) brings that about.
LEMMA LastLoaded ==
  ASSUME NEW m \in Memory, NEW o \in Object, NEW p \in Chains, NEW ph \in {"writing", "saved"},
         NEW n \in Nat, NEW i, Kept(m, o, p, ph, n, i), NEW m1, m1 = LoadW(m, o.last)
  PROVE  AtLast(m1, m, o, p)
  <1>1. o.last \in 0 .. Pages - 1 /\ o.last \in Own(o, p) /\ NoPage \notin Own(o, p)
    BY ChainFacts DEF Kept, Object
  <1>2. /\ m1 \in Memory /\ m1.w.bnum = o.last /\ m1.w.bytes = Mem(m, o.last)
        /\ \A b \in 0 .. Pages - 1 : Mem(m1, b) = Mem(m, b)
        /\ m1.r = m.r \/ m1.r.bnum = NoPage
        /\ o.last # m.w.bnum => m1.r.bnum # o.last
    BY <1>1, LoadsW
  <1>3. ASSUME m1.r.bnum \in Own(o, p)
        PROVE  m1.r.bnum = o.first \/ (m1.r.bytes = Mem(m, m1.r.bnum) /\ m1.r.bnum # o.last)
    <2>1. m1.r = m.r
      BY <1>1, <1>2, <1>3
    <2>2. CASE ph = "writing"
      BY <1>3, <2>1, <2>2 DEF Kept, Buffered
    <2>3. CASE ph = "saved"
      BY <1>1, <1>2, <1>3, <2>1, <2>3 DEF Kept, Buffered
    <2> QED  BY <2>2, <2>3
  <1>4. m1.w.bytes \in Page
    BY <1>2, MemTypes
  <1> QED  BY <1>2, <1>3, <1>4 DEF AtLast

\* The tail is the place of the next byte.
LEMMA TailIs ==
  ASSUME NEW m \in Memory, NEW o \in Object, NEW p, NEW n \in Nat, Filled(m, o, p, n),
         NEW t, t = Mem(m, o.last)[Tail]
  PROVE  t \in 0 .. Tail /\ n + 3 = Next63 * o.count + t
  <1>1. o.last \in 0 .. Pages - 1 /\ Tail \in 0 .. Next63
    BY Numbers DEF Object
  <1>2. Mem(m, o.last) \in Page
    BY <1>1, MemTypes
  <1>3. t \in Nat
    BY <1>1, <1>2 DEF Page
  <1>4. t < Next63 /\ n + 3 = Next63 * o.count + t
    BY DEF Filled
  <1> QED  BY <1>3, <1>4, Numbers

\* Which byte is where: before the last page all have their places already, in
\* it those before the tail.
LEMMA Places ==
  ASSUME NEW c \in Nat, NEW n \in Nat, NEW t \in 0 .. Tail, n + 3 = Next63 * c + t,
         NEW k \in Nat, NEW x \in 0 .. Tail
  PROVE  /\ Next63 * k + x - 2 \in Int
         /\ k < c => Next63 * k + x - 2 <= n
         /\ k = c => Next63 * k + x - 2 = n + 1 + x - t
         /\ k = c + 1 => Next63 * k + x - 2 = n + 1 + x - t + Next63
  <1>1. PICK a \in Nat : a = Next63 * k
    BY Numbers, Products
  <1>2. PICK b \in Nat : b = Next63 * c
    BY Numbers, Products
  <1>3. (k < c => a + Next63 <= b) /\ (k = c => a = b) /\ (k = c + 1 => a = b + Next63)
    BY <1>1, <1>2, Numbers, Products
  <1>4. n + 3 = b + t
    BY <1>2
  <1>5. x \in Nat /\ t \in Nat /\ Next63 \in Nat /\ x < Next63 /\ x <= Tail /\ t <= Tail
    BY Numbers
  <1>6. /\ a + x - 2 \in Int
        /\ k < c => a + x - 2 <= n
        /\ k = c => a + x - 2 = n + 1 + x - t
        /\ k = c + 1 => a + x - 2 = n + 1 + x - t + Next63
    BY <1>3, <1>4, <1>5
  <1> QED  BY <1>1, <1>6

\* The last page, z before, with the next byte in it.
WithByte(z, t, n) == [[z EXCEPT ![t] = Char(n + 1)] EXCEPT ![Tail] = t + 1]
HasByte(y, z, t, n) ==
  /\ y \in Page /\ y[t] = Char(n + 1) /\ y[Tail] = t + 1 /\ y[Next63] = z[Next63]
  /\ \A x \in 0 .. Tail : x # t /\ x # Tail => y[x] = z[x]
\* put() into a page below its tail writes such a page.
LEMMA ByteWritten ==
  ASSUME NEW z \in Page, NEW t \in 0 .. Tail, t # Tail, NEW n \in Nat
  PROVE  HasByte(WithByte(z, t, n), z, t, n)
  <1>1. /\ {t, Tail, Next63} \subseteq 0 .. Next63 /\ Tail # Next63 /\ t # Next63
        /\ \A x \in 0 .. Tail : x \in 0 .. Next63
    BY Numbers
  <1>2. Char(n + 1) \in Nat /\ t + 1 \in Nat
    BY DEF Char
  <1> QED  BY <1>1, <1>2 DEF Page, WithByte, HasByte

\* put() into a page that has room.
LEMMA PutHere ==
  ASSUME NEW m \in Memory, NEW o \in Object, NEW p \in Chains, NEW ph \in {"writing", "saved"},
         NEW n \in Nat, NEW i, Kept(m, o, p, ph, n, i), NEW m1, AtLast(m1, m, o, p),
         NEW t, t = Mem(m, o.last)[Tail], t # Tail, NEW m2 \in Memory, NEW y,
         HasByte(y, m1.w.bytes, t, n), m2 = Written(m1, y)
  PROVE  /\ Kept(m2, o, p, "writing", n + 1, i)
         /\ \A b \in 0 .. Pages - 1 : b = o.last \/ Mem(m2, b) = Mem(m, b)
         /\ m2.w.bnum = o.last /\ (m2.r = m.r \/ m2.r.bnum = NoPage)
  <1>1. /\ m1 \in Memory /\ m1.w.bnum = o.last /\ m1.w.bytes = Mem(m, o.last)
        /\ m1.w.bytes \in Page
        /\ \A b \in 0 .. Pages - 1 : Mem(m1, b) = Mem(m, b)
        /\ m1.r = m.r \/ m1.r.bnum = NoPage
        /\ m1.r.bnum \in Own(o, p) =>
             m1.r.bnum = o.first \/ (m1.r.bytes = Mem(m, m1.r.bnum) /\ m1.r.bnum # o.last)
    BY DEF AtLast
  <1>2. Linked(m, o, p) /\ Filled(m, o, p, n)
    BY DEF Kept
  <1>3. t \in 0 .. Tail /\ n + 3 = Next63 * o.count + t
    BY <1>2, TailIs
  <1>4. /\ y \in Page /\ y[t] = Char(n + 1) /\ y[Tail] = t + 1
        /\ y[Next63] = m1.w.bytes[Next63]
        /\ \A x \in 0 .. Tail : x # t /\ x # Tail => y[x] = m1.w.bytes[x]
    BY DEF HasByte
  <1>5. /\ m2.w.bnum = o.last /\ m2.r = m1.r
        /\ \A b \in 0 .. Pages - 1 : Mem(m2, b) = IF b = o.last THEN y ELSE Mem(m, b)
    <2>1. /\ m2.w.bnum = m1.w.bnum /\ m2.r = m1.r
          /\ \A b \in 0 .. Pages - 1 : Mem(m2, b) = IF b = m1.w.bnum THEN y ELSE Mem(m1, b)
      BY <1>1, <1>4, Writes
    <2> QED  BY <1>1, <2>1
  <1>6. /\ \A b \in Own(o, p) : b \in 0 .. Pages - 1
        /\ o.last \in Own(o, p) /\ o.count \in Nat
        /\ \A k \in 0 .. o.count : p[k] \in Own(o, p) /\ k \in Nat /\ k <= o.count
        /\ o.count \in 0 .. o.count /\ p[o.count] = o.last
    BY <1>2, ChainFacts, Numbers DEF Linked
  <1>7. \A b \in Own(o, p) : Mem(m2, b)[Next63] = Mem(m, b)[Next63]
    BY <1>1, <1>4, <1>5, <1>6
  <1>8. Linked(m2, o, p)
    BY <1>2, <1>6, <1>7 DEF Linked
  <1>9. Mem(m2, o.last) = y
    BY <1>5, <1>6
  <1>10. ASSUME NEW k \in 0 .. o.count, NEW x \in 0 .. Tail, Next63 * k + x - 2 \in 1 .. n + 1
         PROVE  Mem(m2, p[k])[x] = Char(Next63 * k + x - 2)
    <2>1. PICK v \in Int : v = Next63 * k + x - 2
      BY <1>3, <1>6, Places
    <2>2. v \in 1 .. n => Mem(m, p[k])[x] = Char(v)
      BY <1>2, <2>1 DEF Filled
    <2>3. (k < o.count => v <= n) /\ (k = o.count => v = n + 1 + x - t)
      BY <1>3, <1>6, <2>1, Places
    <2>4. v \in 1 .. n + 1
      BY <1>10, <2>1
    <2>5. CASE k = o.count
      <3>1. x <= t /\ x # Tail /\ (x # t => v \in 1 .. n) /\ (x = t => v = n + 1)
        <4>1. v = n + 1 + x - t /\ v >= 1 /\ v <= n + 1
          BY <2>3, <2>4, <2>5
        <4>2. t \in Int /\ x \in Int /\ t <= Tail /\ Tail \in Int
          BY <1>3, Numbers
        <4>3. x <= t
          BY <4>1, <4>2
        <4> QED  BY <4>1, <4>2, <4>3
      <3>2. x = t => Mem(m2, p[k])[x] = Char(v)
        BY <1>4, <1>6, <1>9, <2>5, <3>1
      <3>3. x # t => Mem(m2, p[k])[x] = Char(v)
        BY <1>1, <1>4, <1>6, <1>9, <2>2, <2>5, <3>1
      <3> QED  BY <2>1, <3>2, <3>3
    <2>6. CASE k # o.count
      <3>1. v \in 1 .. n
        BY <1>6, <2>3, <2>4, <2>6
      <3>2. p[k] # o.last
        BY <1>2, <1>6, <2>6 DEF Linked
      <3>3. Mem(m2, p[k]) = Mem(m, p[k])
        BY <1>5, <1>6, <3>2
      <3> QED  BY <2>1, <2>2, <3>1, <3>3
    <2> QED  BY <2>5, <2>6
  <1>11. Filled(m2, o, p, n + 1)
    <2>1. Mem(m2, o.last)[Tail] = t + 1
      BY <1>4, <1>9
    <2>2. t + 1 < Next63
      BY <1>3, Numbers
    <2>3. (n + 1) + 3 = Next63 * o.count + (t + 1)
      <3>1. PICK c \in Nat : c = Next63 * o.count
        BY <1>6, Numbers, Products
      <3>2. n + 3 = c + t /\ t \in Nat
        BY <1>3, <3>1
      <3>3. (n + 1) + 3 = c + (t + 1)
        BY <3>2
      <3> QED  BY <3>1, <3>3
    <2> QED  BY <1>10, <2>1, <2>2, <2>3 DEF Filled
  <1>12. Headed(m2, o, "writing") /\ ReadTo(o, p, i)
    BY DEF Headed, Kept
  <1>13. Buffered(m2, o, p, "writing")
    <2>1. ASSUME m2.r.bnum \in Own(o, p), m2.r.bnum # o.first
          PROVE  m2.r.bytes = Mem(m2, m2.r.bnum) /\ m2.r.bnum # o.last
      BY <1>1, <1>5, <1>6, <2>1
    <2> QED  BY <1>5, <2>1 DEF Buffered
  <1> QED  BY <1>1, <1>5, <1>8, <1>11, <1>12, <1>13 DEF Kept

\* While a page is free, a chain has fewer than all of them.
LEMMA RoomLeft ==
  ASSUME NEW m \in Memory, NEW o \in Object, NEW p \in Chains, Linked(m, o, p),
         NEW next \in initMap, next \notin Own(o, p)
  PROVE  o.count + 1 \in 0 .. Pages - 2
  <1> DEFINE S == 0 .. o.count + 1
             T == 1 .. Pages - 1
             f == [k \in S |-> IF k = o.count + 1 THEN next ELSE p[k]]
  <1>1. /\ o.count \in Nat /\ o.count <= Pages - 2 /\ Pages \in Nat /\ Own(o, p) \subseteq T
        /\ next \in T
    BY ChainFacts, Numbers DEF Linked
  <1>2. \A k \in S : k = o.count + 1 \/ k \in 0 .. o.count
    BY <1>1
  <1>3. \A k \in 0 .. o.count : k # o.count + 1 /\ k \in S /\ p[k] \in Own(o, p)
    BY <1>1, ChainFacts
  <1>4. f \in [S -> T]
    BY <1>1, <1>2, <1>3
  <1>5. /\ IsFiniteSet(S) /\ Cardinality(S) = o.count + 2
        /\ IsFiniteSet(T) /\ Cardinality(T) = Pages - 1
    <2>1. o.count + 1 \in Int /\ Pages - 1 \in Int /\ 0 \in Int /\ 1 \in Int
      BY <1>1
    <2>2. /\ IsFiniteSet(S) /\ IsFiniteSet(T)
          /\ Cardinality(S) = IF 0 > o.count + 1 THEN 0 ELSE (o.count + 1) - 0 + 1
          /\ Cardinality(T) = IF 1 > Pages - 1 THEN 0 ELSE (Pages - 1) - 1 + 1
      BY <2>1, FS_Interval
    <2>3. Pages >= 2
      BY Numbers
    <2> HIDE DEF S, T
    <2> QED  BY <1>1, <2>2, <2>3
  <1>6. \A j, k \in S : f[j] = f[k] => j = k
    <2>1. \A j, k \in 0 .. o.count : p[j] = p[k] => j = k
      BY DEF Linked
    <2>2. \A k \in 0 .. o.count : p[k] # next
      BY <1>3
    <2> QED  BY <1>2, <1>3, <2>1, <2>2
  <1> HIDE DEF S, T, f
  <1>7. ~(Cardinality(T) < Cardinality(S))
    <2> SUFFICES ASSUME Cardinality(T) < Cardinality(S)  PROVE FALSE
      OBVIOUS
    <2>1. \E j, k \in S : j # k /\ f[j] = f[k]
      BY <1>4, <1>5, FS_PigeonHole
    <2> QED  BY <1>6, <2>1
  <1> QED  BY <1>1, <1>5, <1>7

\* The last page, z before, full, and the page that follows it.
Filled63(z, next, n) == [[z EXCEPT ![Tail] = Char(n + 1)] EXCEPT ![Next63] = next]
Emptied(z) == [z EXCEPT ![Tail] = 0, ![Next63] = 0]
IsFull(y, z, next, n) ==
  /\ y \in Page /\ y[Tail] = Char(n + 1) /\ y[Next63] = next
  /\ \A x \in 0 .. Tail : x # Tail => y[x] = z[x]
IsEmpty(z) == z \in Page /\ z[Tail] = 0 /\ z[Next63] = 0
\* put() into the last place of a page writes such pages.
LEMMA FullWritten ==
  ASSUME NEW z \in Page, NEW next \in 0 .. Pages - 1, NEW n \in Nat
  PROVE  IsFull(Filled63(z, next, n), z, next, n) /\ IsEmpty(Emptied(z))
  <1>1. /\ {Tail, Next63} \subseteq 0 .. Next63 /\ Tail # Next63
        /\ \A x \in 0 .. Tail : x \in 0 .. Next63 /\ x # Next63
    BY Numbers
  <1>2. Char(n + 1) \in Nat /\ next \in Nat
    BY Numbers DEF Char
  <1> QED  BY <1>1, <1>2 DEF Page, Filled63, IsFull, Emptied, IsEmpty

\* The pages are the same up to the last; that one is full, the next is new.
Grown(m, m2, o, n, next) ==
  /\ \A b \in 0 .. Pages - 1 : b = o.last \/ b = next \/ Mem(m2, b) = Mem(m, b)
  /\ IsFull(Mem(m2, o.last), Mem(m, o.last), next, n) /\ IsEmpty(Mem(m2, next))

\* With the new page the chain is one longer and holds one byte more.
LEMMA ChainGrows ==
  ASSUME NEW m \in Memory, NEW o \in Object, NEW p \in Chains, Linked(m, o, p),
         NEW n \in Nat, Filled(m, o, p, n), Mem(m, o.last)[Tail] = Tail,
         NEW next \in initMap, next \notin Own(o, p), NEW m2, Grown(m, m2, o, n, next),
         NEW o2 \in Object, o2.count = o.count + 1, o2.first = o.first, o2.last = next,
         NEW p2 \in Chains, p2[o.count + 1] = next,
         \A k \in 0 .. Pages : k # o.count + 1 => p2[k] = p[k]
  PROVE  /\ Linked(m2, o2, p2) /\ Filled(m2, o2, p2, n + 1)
         /\ Own(o2, p2) = Own(o, p) \cup {next}
         /\ \A k \in 0 .. o.count : k \in 0 .. o2.count /\ p2[k] = p[k]
  <1> DEFINE c == o.count
  <1>1. /\ c + 1 \in 0 .. Pages - 2 /\ c \in Nat /\ c \in 0 .. c /\ c + 1 \in Nat
        /\ c + 1 \in 0 .. c + 1 /\ Pages \in Nat
    <2>1. c + 1 \in 0 .. Pages - 2
      BY RoomLeft
    <2>2. c \in Nat /\ Pages \in Nat
      BY Numbers, ChainFacts
    <2> HIDE DEF c
    <2> QED  BY <2>1, <2>2
  <1>2. /\ \A k \in 0 .. c :
             /\ k \in 0 .. Pages /\ k + 1 \in 0 .. Pages /\ k # c + 1 /\ k \in 0 .. c + 1
             /\ k \in Nat /\ p[k] \in Own(o, p) /\ p[k] # next
        /\ \A k \in 0 .. c + 1 : k = c + 1 \/ k \in 0 .. c
        /\ p[c] = o.last /\ o.last \in Own(o, p) /\ Own(o, p) \subseteq 0 .. Pages - 1
    <2>1. /\ \A k \in 0 .. c : k \in 0 .. Pages /\ p[k] \in Own(o, p) /\ k + 1 \in 0 .. Pages
          /\ o.last \in Own(o, p) /\ Own(o, p) \subseteq initMap
      BY ChainFacts
    <2>2. p[c] = o.last
      BY DEF Linked
    <2> HIDE DEF c
    <2>3. \A k \in 0 .. c : k # c + 1 /\ k \in 0 .. c + 1 /\ k \in Nat
      BY <1>1
    <2>4. \A k \in 0 .. c + 1 : k = c + 1 \/ k \in 0 .. c
      BY <1>1
    <2>5. Own(o, p) \subseteq 0 .. Pages - 1
      BY <2>1, Numbers
    <2> QED  BY <2>1, <2>2, <2>3, <2>4, <2>5
  <1>3. \A k \in 0 .. c : p2[k] = p[k]
    BY <1>2
  <1> HIDE DEF c
  <1>4. Own(o2, p2) = Own(o, p) \cup {next}
    <2>1. Own(o2, p2) = {p2[k] : k \in 0 .. c + 1} /\ Own(o, p) = {p[k] : k \in 0 .. c}
      BY DEF Own, c
    <2>2. p2[c + 1] = next
      BY DEF c
    <2> QED  BY <1>1, <1>2, <1>3, <2>1, <2>2
  <1>5. \A k \in 0 .. c : k # c => p[k] # o.last
    BY <1>1, <1>2 DEF Linked, c
  <1>6. ASSUME NEW k \in 0 .. c, k # c  PROVE Mem(m2, p[k]) = Mem(m, p[k])
    BY <1>2, <1>5, <1>6 DEF Grown
  <1>7. Linked(m2, o2, p2)
    <2>1. \A k \in 0 .. Pages : p2[k] # 0 <=> k <= c + 1
      <3> SUFFICES ASSUME NEW k \in 0 .. Pages  PROVE p2[k] # 0 <=> k <= c + 1
        OBVIOUS
      <3>1. CASE k = c + 1
        BY <1>1, <3>1, Numbers DEF c
      <3>2. CASE k # c + 1
        <4>1. p2[k] = p[k] /\ (p[k] # 0 <=> k <= c)
          BY <3>2 DEF Linked, c
        <4>2. k <= c <=> k <= c + 1
          BY <1>1, <3>2
        <4> QED  BY <4>1, <4>2
      <3> QED  BY <3>1, <3>2
    <2>2. p2[0] = o.first
      <3>1. 0 \in 0 .. c
        BY <1>1
      <3> QED  BY <1>3, <3>1 DEF Linked
    <2>3. \A k \in 0 .. c + 1 : Mem(m2, p2[k])[Next63] = p2[k + 1]
      <3> SUFFICES ASSUME NEW k \in 0 .. c + 1  PROVE Mem(m2, p2[k])[Next63] = p2[k + 1]
        OBVIOUS
      <3>1. CASE k = c + 1
        <4>1. Mem(m2, p2[k])[Next63] = 0
          BY <3>1 DEF Grown, IsEmpty, c
        <4>2. k + 1 \in 0 .. Pages /\ ~(k + 1 <= c) /\ k + 1 # c + 1
          BY <1>1, <3>1
        <4>3. p2[k + 1] = p[k + 1] /\ p[k + 1] = 0
          BY <4>2 DEF Linked, c
        <4> QED  BY <4>1, <4>3
      <3>2. CASE k = c
        <4>1. p2[k] = o.last
          BY <1>1, <1>2, <1>3, <3>2
        <4>2. Mem(m2, o.last)[Next63] = next
          BY DEF Grown, IsFull
        <4>3. p2[k + 1] = next
          BY <3>2 DEF c
        <4> QED  BY <4>1, <4>2, <4>3
      <3>3. CASE k \in 0 .. c /\ k # c
        <4>1. k + 1 \in 0 .. c
          BY <1>1, <3>3
        <4>2. Mem(m, p[k])[Next63] = p[k + 1]
          BY <3>3 DEF Linked, c
        <4> QED  BY <1>3, <1>6, <3>3, <4>1, <4>2
      <3> QED  BY <1>2, <3>1, <3>2, <3>3
    <2>4. \A j, k \in 0 .. c + 1 : p2[j] = p2[k] => j = k
      <3>1. \A j, k \in 0 .. c : p[j] = p[k] => j = k
        BY DEF Linked, c
      <3>2. p2[c + 1] = next
        BY DEF c
      <3> QED  BY <1>2, <1>3, <3>1, <3>2
    <2>5. o2.count = c + 1 /\ p2[o2.count] = o2.last
      BY DEF c
    <2> QED  BY <1>1, <2>1, <2>2, <2>3, <2>4, <2>5 DEF Linked
  <1>8. Tail \in 0 .. Tail /\ n + 3 = Next63 * c + Tail
    BY TailIs DEF c
  <1>9. ASSUME NEW k \in 0 .. c + 1, NEW x \in 0 .. Tail, Next63 * k + x - 2 \in 1 .. n + 1
        PROVE  Mem(m2, p2[k])[x] = Char(Next63 * k + x - 2)
    <2>0. k \in Nat
      BY <1>1
    <2>1. PICK v \in Int : v = Next63 * k + x - 2
      BY <1>1, <1>8, <2>0, Places
    <2>2. /\ k < c => v <= n
          /\ k = c => v = n + 1 + x - Tail
          /\ k = c + 1 => v = n + 1 + x - Tail + Next63
      BY <1>1, <1>8, <2>0, <2>1, Places
    <2>3. v \in 1 .. n + 1 /\ x \in Int /\ x >= 0 /\ x <= Tail /\ Tail \in Int /\ Tail = Next63 - 1
      BY <1>9, <2>1, Numbers
    <2>4. k # c + 1
      BY <2>2, <2>3, Numbers
    <2>5. k \in 0 .. c /\ p2[k] = p[k]
      BY <1>2, <1>3, <2>4
    <2>6. v \in 1 .. n => Mem(m, p[k])[x] = Char(v)
      BY <2>1, <2>5 DEF Filled, c
    <2>7. CASE k = c /\ x = Tail
      <3>1. v = n + 1
        BY <2>2, <2>3, <2>7
      <3> QED  BY <1>2, <2>1, <2>5, <2>7, <3>1 DEF Grown, IsFull
    <2>8. CASE k = c /\ x # Tail
      <3>1. v \in 1 .. n
        BY <2>2, <2>3, <2>8
      <3> QED  BY <1>2, <2>1, <2>5, <2>6, <2>8, <3>1 DEF Grown, IsFull
    <2>9. CASE k # c
      <3>1. k < c
        BY <1>1, <2>5, <2>9
      <3>2. v \in 1 .. n
        BY <2>2, <2>3, <3>1
      <3> QED  BY <1>6, <2>1, <2>5, <2>6, <2>9, <3>2
    <2> QED  BY <2>7, <2>8, <2>9
  <1>10. Filled(m2, o2, p2, n + 1)
    <2>1. Mem(m2, o2.last)[Tail] = 0 /\ 0 < Next63
      BY Numbers DEF Grown, IsEmpty
    <2>2. (n + 1) + 3 = Next63 * (c + 1) + 0
      <3>1. PICK a \in Nat : a = Next63 * c
        BY <1>1, Numbers, Products
      <3>2. n + 3 = a + Tail /\ Next63 * (c + 1) = a + Next63
        BY <1>1, <1>8, <3>1, Numbers, Products
      <3>3. (n + 1) + 3 = (a + Next63) + 0
        BY <3>1, <3>2, Numbers
      <3> QED  BY <3>2, <3>3, Zenon
    <2> QED  BY <1>9, <2>1, <2>2 DEF Filled, c
  <1> QED  BY <1>2, <1>3, <1>4, <1>7, <1>10 DEF c

\* What put() does to the buffers when the last page is full: that page gets
\* its last byte and its link, and the next is loaded and emptied.
LEMMA LastLinked ==
  ASSUME NEW m \in Memory, NEW o \in Object, NEW p \in Chains, Linked(m, o, p), NEW n \in Nat,
         NEW m1, AtLast(m1, m, o, p), NEW next \in initMap, next \notin Own(o, p),
         NEW y, IsFull(y, m1.w.bytes, next, n), NEW m2, m2 = Written(m1, y),
         NEW m3, m3 = LoadW(m2, next)
  PROVE  /\ m3 \in Memory /\ m3.w.bnum = next /\ m3.w.bytes \in Page /\ m3.r.bnum # next
         /\ m3.r = m1.r \/ m3.r.bnum = NoPage
         /\ \A b \in 0 .. Pages - 1 : Mem(m3, b) = IF b = o.last THEN y ELSE Mem(m, b)
  <1>1. /\ m1 \in Memory /\ m1.w.bnum = o.last
        /\ \A b \in 0 .. Pages - 1 : Mem(m1, b) = Mem(m, b)
    BY DEF AtLast
  <1>2. y \in Page
    BY DEF IsFull
  <1>3. /\ m2 \in Memory /\ m2.w.bnum = m1.w.bnum /\ m2.r = m1.r
        /\ \A b \in 0 .. Pages - 1 : Mem(m2, b) = IF b = m1.w.bnum THEN y ELSE Mem(m1, b)
    BY <1>1, <1>2, Writes
  <1>4. next \in 0 .. Pages - 1 /\ next # m2.w.bnum
    BY <1>1, <1>3, Numbers, ChainFacts
  <1>5. /\ m3 \in Memory /\ m3.w.bnum = next /\ m3.w.bytes = Mem(m2, next)
        /\ \A b \in 0 .. Pages - 1 : Mem(m3, b) = Mem(m2, b)
        /\ m3.r = m2.r \/ m3.r.bnum = NoPage
        /\ next # m2.w.bnum => m3.r.bnum # next
    BY <1>3, <1>4, LoadsW
  <1>6. m3.w.bytes \in Page
    BY <1>5, MemTypes
  <1>7. \A b \in 0 .. Pages - 1 : Mem(m3, b) = IF b = o.last THEN y ELSE Mem(m, b)
    BY <1>1, <1>3, <1>5
  <1> QED  BY <1>3, <1>4, <1>5, <1>6, <1>7

\* The new page is emptied: put() is done with the buffers.
LEMMA PageAdded ==
  ASSUME NEW m \in Memory, NEW o \in Object, NEW p \in Chains, Linked(m, o, p), NEW n \in Nat,
         NEW m1, AtLast(m1, m, o, p), NEW next \in initMap, next \notin Own(o, p),
         NEW y, IsFull(y, m1.w.bytes, next, n), NEW m3 \in Memory, m3.w.bnum = next,
         m3.r.bnum # next, m3.r = m1.r \/ m3.r.bnum = NoPage,
         \A b \in 0 .. Pages - 1 : Mem(m3, b) = IF b = o.last THEN y ELSE Mem(m, b),
         NEW z, IsEmpty(z), NEW m4, m4 = Written(m3, z)
  PROVE  /\ m4 \in Memory /\ m4.w.bnum = next /\ (m4.r = m.r \/ m4.r.bnum = NoPage)
         /\ Grown(m, m4, o, n, next) /\ m4.r.bnum # next
         /\ m4.r.bnum \in Own(o, p) =>
              m4.r.bnum = o.first \/ (m4.r.bytes = Mem(m, m4.r.bnum) /\ m4.r.bnum # o.last)
  <1>1. /\ m1.w.bytes = Mem(m, o.last) /\ (m1.r = m.r \/ m1.r.bnum = NoPage)
        /\ m1.r.bnum \in Own(o, p) =>
             m1.r.bnum = o.first \/ (m1.r.bytes = Mem(m, m1.r.bnum) /\ m1.r.bnum # o.last)
    BY DEF AtLast
  <1>2. z \in Page
    BY DEF IsEmpty
  <1>3. /\ m4 \in Memory /\ m4.w.bnum = m3.w.bnum /\ m4.r = m3.r
        /\ \A b \in 0 .. Pages - 1 : Mem(m4, b) = IF b = m3.w.bnum THEN z ELSE Mem(m3, b)
    BY <1>2, Writes
  <1>4. /\ next \in 0 .. Pages - 1 /\ o.last # next /\ NoPage \notin Own(o, p)
        /\ o.last \in 0 .. Pages - 1
    BY Numbers, ChainFacts DEF Object
  <1>5. /\ Mem(m4, next) = z /\ Mem(m4, o.last) = y
        /\ \A b \in 0 .. Pages - 1 : b = o.last \/ b = next \/ Mem(m4, b) = Mem(m, b)
    BY <1>3, <1>4
  <1>6. Grown(m, m4, o, n, next)
    BY <1>1, <1>5 DEF Grown
  <1>7. m4.r.bnum # next /\ (m4.r = m1.r \/ m4.r.bnum = NoPage)
    BY <1>3
  <1> QED  BY <1>1, <1>3, <1>4, <1>6, <1>7

\* put() into the last place of a page.
LEMMA PutGrows ==
  ASSUME NEW m \in Memory, NEW o \in Object, NEW p \in Chains, NEW ph \in {"writing", "saved"},
         NEW n \in Nat, NEW i, Kept(m, o, p, ph, n, i), Mem(m, o.last)[Tail] = Tail,
         NEW next \in initMap, next \notin Own(o, p), NEW m4 \in Memory, m4.w.bnum = next,
         Grown(m, m4, o, n, next), m4.r.bnum # next,
         m4.r.bnum \in Own(o, p) =>
           m4.r.bnum = o.first \/ (m4.r.bytes = Mem(m, m4.r.bnum) /\ m4.r.bnum # o.last),
         NEW o2 \in Object, o2.count = o.count + 1, o2.first = o.first, o2.last = next,
         o2.curr = o.curr, o2.offs = o.offs,
         NEW p2 \in Chains, p2[o.count + 1] = next,
         \A k \in 0 .. Pages : k # o.count + 1 => p2[k] = p[k]
  PROVE  Kept(m4, o2, p2, "writing", n + 1, i) /\ Own(o2, p2) = Own(o, p) \cup {next}
  <1>1. Linked(m, o, p) /\ Filled(m, o, p, n) /\ ReadTo(o, p, i)
    BY DEF Kept
  <1>2. /\ Linked(m4, o2, p2) /\ Filled(m4, o2, p2, n + 1)
        /\ Own(o2, p2) = Own(o, p) \cup {next}
        /\ \A k \in 0 .. o.count : k \in 0 .. o2.count /\ p2[k] = p[k]
    BY <1>1, ChainGrows
  <1>3. ReadTo(o2, p2, i)
    BY <1>1, <1>2 DEF ReadTo
  <1>4. Headed(m4, o2, "writing")
    BY DEF Headed
  <1>5. Buffered(m4, o2, p2, "writing")
    <2>1. ASSUME m4.r.bnum \in Own(o2, p2), m4.r.bnum # o2.first
          PROVE  m4.r.bytes = Mem(m4, m4.r.bnum) /\ m4.r.bnum # o2.last
      <3>1. m4.r.bnum \in Own(o, p) /\ m4.r.bnum # o.last /\ m4.r.bytes = Mem(m, m4.r.bnum)
        BY <1>2, <2>1
      <3>2. m4.r.bnum \in 0 .. Pages - 1
        BY <1>1, <3>1, ChainFacts, Numbers
      <3> QED  BY <3>1, <3>2 DEF Grown
    <2> QED  BY <2>1 DEF Buffered
  <1> QED  BY <1>2, <1>3, <1>4, <1>5 DEF Kept

\* put(): into the page where it has room, else with a page more.
LEMMA PutKeeps ==
  ASSUME NEW pg \in [Stashes -> Chains], Holds(pg), NEW s \in Stashes, put(s)
  PROVE  StashInv'
  <1> DEFINE o == obj[s]
             p == pg[s]
             n == puts[s]
             m == LoadW(mem, o.last)
             t == m.w.bytes[Tail]
             next == allocBlock
             m3 == LoadW(Written(m, Filled63(m.w.bytes, next, n)), next)
  <1>0. phase[s] \in {"writing", "saved"}
    BY DEF put
  <1>1. /\ n < MaxPuts /\ HasRoom(s)
        /\ \/ /\ t + 1 <= Tail /\ mem' = Written(m, WithByte(m.w.bytes, t, n))
              /\ UNCHANGED <<map, obj>>
           \/ /\ t = Tail
              /\ mem' = Written(m3, Emptied(m3.w.bytes)) /\ map' = map \ {next}
              /\ obj' = [obj EXCEPT ![s].last = next, ![s].count = (o.count + 1) % 256]
           \/ ~(t + 1 <= Tail) /\ t # Tail
        /\ phase' = [phase EXCEPT ![s] = "writing"]
        /\ puts' = [puts EXCEPT ![s] = n + 1] /\ UNCHANGED pos
    <2>1. t # Tail \/ t = Tail
      OBVIOUS
    <2> QED  BY <2>1 DEF put, Written, WithByte, Emptied, Filled63
  <1>2. /\ s \in Live /\ mem \in Memory /\ o \in Object /\ p \in Chains
        /\ Kept(mem, o, p, phase[s], n, pos[s]) /\ Linked(mem, o, p)
        /\ Mine(pg, s) = Own(o, p) /\ Own(o, p) \cap map = {} /\ map \subseteq initMap
        /\ n \in 0 .. MaxPuts /\ pos[s] \in 0 .. n /\ n \in Nat
    BY <1>0, LiveFacts
  <1>3. /\ obj \in [Stashes -> Object] /\ pos \in [Stashes -> 0 .. MaxPuts]
        /\ obj = [obj EXCEPT ![s] = o] /\ pos = [pos EXCEPT ![s] = pos[s]]
    BY DEF Holds, TypeOK
  <1>4. n + 1 \in 0 .. MaxPuts /\ pos[s] \in 0 .. n + 1
    <2>1. n \in Nat /\ n < MaxPuts /\ MaxPuts \in Nat /\ pos[s] \in 0 .. n
      BY <1>1, <1>2, Numbers
    <2> HIDE DEF n
    <2> QED  BY <2>1
  <1> HIDE DEF o, p, n
  <1>5. PICK ph \in {"writing", "saved"} : ph = phase[s]
    BY <1>0
  <1>5a. /\ Kept(mem, o, p, ph, n, pos[s]) /\ mem \in Memory
         /\ o \in Object /\ p \in Chains /\ n \in Nat
    BY <1>2, <1>5
  <1>6a. AtLast(m, mem, o, p)
    BY <1>5, <1>5a, LastLoaded
  <1>6. m.w.bytes = Mem(mem, o.last) /\ m.w.bytes \in Page
    BY <1>6a DEF AtLast
  <1>7. t \in 0 .. Tail /\ t = Mem(mem, o.last)[Tail]
    BY <1>2, <1>6, TailIs DEF Kept
  <1>8. o.last \in Own(o, p) /\ o.last \in initMap
    BY <1>2, ChainFacts
  <1>9. CASE t # Tail
    <2>1. mem' = Written(m, WithByte(m.w.bytes, t, n)) /\ UNCHANGED <<map, obj>>
      BY <1>1, <1>7, <1>9, Numbers
    <2>2. HasByte(WithByte(m.w.bytes, t, n), m.w.bytes, t, n)
      BY <1>2, <1>6, <1>7, <1>9, ByteWritten
    <2>3. PICK y \in Page, t1 \in 0 .. Tail, m1 \in Memory :
            /\ mem' = Written(m1, y) /\ AtLast(m1, mem, o, p) /\ HasByte(y, m1.w.bytes, t1, n)
            /\ t1 = Mem(mem, o.last)[Tail] /\ t1 # Tail
      <3>1. WithByte(m.w.bytes, t, n) \in Page
        BY <2>2 DEF HasByte
      <3>2. m \in Memory
        BY <1>6a DEF AtLast
      <3> HIDE DEF m, t
      <3> QED  BY <1>6a, <1>7, <1>9, <2>1, <2>2, <3>1, <3>2, Zenon
    <2> HIDE DEF m, t, m3, next
    <2>8. mem' \in Memory
      BY <2>3, Writes
    <2>9. /\ Kept(mem', o, p, "writing", n + 1, pos[s])
          /\ \A b \in 0 .. Pages - 1 : b = o.last \/ Mem(mem', b) = Mem(mem, b)
          /\ mem'.w.bnum = o.last /\ (mem'.r = mem.r \/ mem'.r.bnum = NoPage)
      BY <1>5, <1>5a, <2>3, <2>8, PutHere
    <2>10. /\ map' \subseteq initMap /\ Own(o, p) \cap map' = {}
           /\ map' \cup Own(o, p) = map \cup Mine(pg, s)
      BY <1>2, <2>1
    <2>11. /\ mem'.w.bnum \in {0} \cup Own(o, p)
           /\ mem'.r = mem.r \/ mem'.r.bnum \in {0, NoPage} \cup map \cup Mine(pg, s)
           /\ \A b \in initMap : b \in map \cup Mine(pg, s) \/ Mem(mem', b) = Mem(mem, b)
      BY <1>2, <1>8, <2>9, Numbers
    <2>12. /\ obj' = [obj EXCEPT ![s] = o] /\ pos' = [pos EXCEPT ![s] = pos[s]]
           /\ phase' = [phase EXCEPT ![s] = "writing"] /\ puts' = [puts EXCEPT ![s] = n + 1]
      BY <1>1, <1>3, <2>1
    <2> QED  BY <1>2, <1>4, <2>8, <2>9, <2>10, <2>11, <2>12, StepLive
  <1>10. CASE t = Tail
    <2> DEFINE o2 == [o EXCEPT !.last = next, !.count = o.count + 1]
               p2 == [p EXCEPT ![o.count + 1] = next]
    <2>1. /\ mem' = Written(m3, Emptied(m3.w.bytes)) /\ map' = map \ {next}
          /\ obj' = [obj EXCEPT ![s].last = next, ![s].count = (o.count + 1) % 256]
      BY <1>1, <1>10, Numbers
    <2>2. Mem(mem, o.last)[Tail] = Tail
      BY <1>7, <1>10
    <2>3. freeCount > 0
      BY <1>1, <2>2, Numbers DEF HasRoom, Newest, Mem, o
    <2>4. next \in map /\ next \in initMap /\ next \notin Own(o, p)
      BY <1>2, <2>3, Allocated
    <2> HIDE DEF m, t, next
    <2>5. /\ mem' \in Memory /\ mem'.w.bnum = next /\ (mem'.r = mem.r \/ mem'.r.bnum = NoPage)
          /\ Grown(mem, mem', o, n, next)
          /\ mem'.r.bnum \in Own(o, p) =>
               \/ mem'.r.bnum = o.first
               \/ mem'.r.bytes = Mem(mem, mem'.r.bnum) /\ mem'.r.bnum # o.last
          /\ mem'.r.bnum # next
      <3> DEFINE y == Filled63(m.w.bytes, next, n)
                 m2 == Written(m, y)
                 z == Emptied(m3.w.bytes)
      <3>1. IsFull(y, m.w.bytes, next, n)
        BY <1>2, <1>6, <2>4, FullWritten, Numbers
      <3>2. m3 = LoadW(m2, next) /\ mem' = Written(m3, z)
        BY <2>1
      <3> HIDE DEF m3, z, m2, y
      <3>3. m2 = Written(m, y)
        BY DEF m2
      <3>4. /\ m3 \in Memory /\ m3.w.bnum = next /\ m3.w.bytes \in Page /\ m3.r.bnum # next
            /\ m3.r = m.r \/ m3.r.bnum = NoPage
            /\ \A b \in 0 .. Pages - 1 : Mem(m3, b) = IF b = o.last THEN y ELSE Mem(mem, b)
        BY <1>2, <1>6a, <2>4, <3>1, <3>2, <3>3, LastLinked
      <3>5. IsEmpty(z)
        BY <2>4, <3>4, FullWritten, Numbers DEF z
      <3>6. /\ mem \in Memory /\ o \in Object /\ p \in Chains /\ Linked(mem, o, p) /\ n \in Nat
            /\ next \in initMap /\ next \notin Own(o, p)
        BY <1>2, <2>4
      <3>7. mem' = Written(m3, z)
        BY <3>2
      <3> HIDE DEF o2, p2
      <3> QED  BY <1>6a, <3>1, <3>4, <3>5, <3>6, <3>7, PageAdded
    <2>6. o.count + 1 \in 0 .. Pages - 2 /\ o.count + 1 \in 0 .. Pages
      BY <1>2, <2>4, RoomLeft, ChainFacts
    <2>7. (o.count + 1) % 256 = o.count + 1 /\ o.count + 1 \in 0 .. 255
      <3>1. PICK c \in Nat : c = o.count + 1
        BY <2>6
      <3>2. c <= 97
        BY <2>6, <3>1, Numbers
      <3>3. c % 256 = c
        BY <3>2
      <3> QED  BY <3>1, <3>2, <3>3
    <2>8. obj' = [obj EXCEPT ![s] = o2]
      <3>1. obj' = [obj EXCEPT ![s].last = next, ![s].count = o.count + 1]
        BY <2>1, <2>7
      <3> QED  BY <1>3, <3>1 DEF o
    <2>9. /\ o2 \in Object /\ o2.count = o.count + 1 /\ o2.first = o.first /\ o2.last = next
          /\ o2.curr = o.curr /\ o2.offs = o.offs
      <3>1. next \in 0 .. Pages - 1
        BY <2>4, Numbers
      <3>2. /\ o2.count = o.count + 1 /\ o2.first = o.first /\ o2.last = next
            /\ o2.curr = o.curr /\ o2.offs = o.offs
        BY <1>2 DEF Object
      <3>3. o2 \in Object
        BY <1>2, <2>7, <3>1 DEF Object
      <3> QED  BY <3>2, <3>3
    <2>10. /\ p2 \in Chains /\ p2[o.count + 1] = next
           /\ \A k \in 0 .. Pages : k # o.count + 1 => p2[k] = p[k]
      <3>1. next \in 0 .. Pages - 1
        BY <2>4, Numbers
      <3> QED  BY <1>2, <2>6, <3>1 DEF Chains
    <2> HIDE DEF o2, p2, m3
    <2>11. Kept(mem', o2, p2, "writing", n + 1, pos[s]) /\ Own(o2, p2) = Own(o, p) \cup {next}
      BY <1>2, <1>5, <2>2, <2>4, <2>5, <2>9, <2>10, PutGrows
    <2>12. /\ map' \subseteq initMap /\ Own(o2, p2) \cap map' = {}
           /\ map' \cup Own(o2, p2) = map \cup Mine(pg, s)
      BY <1>2, <2>1, <2>4, <2>11
    <2>13. \A b \in initMap : b \in map \cup Mine(pg, s) \/ Mem(mem', b) = Mem(mem, b)
      BY <1>2, <1>8, <2>4, <2>5, Numbers DEF Grown
    <2>14. /\ mem'.w.bnum \in {0} \cup Own(o2, p2)
           /\ mem'.r = mem.r \/ mem'.r.bnum \in {0, NoPage} \cup map \cup Mine(pg, s)
      BY <2>5, <2>11
    <2>15. /\ pos' = [pos EXCEPT ![s] = pos[s]]
           /\ phase' = [phase EXCEPT ![s] = "writing"] /\ puts' = [puts EXCEPT ![s] = n + 1]
      BY <1>1, <1>3
    <2> QED
      BY <1>2, <1>4, <2>5, <2>8, <2>9, <2>10, <2>11, <2>12, <2>13, <2>14, <2>15, StepLive
  <1> QED  BY <1>9, <1>10

\* Every step keeps the invariant.
LEMMA StashStep == ASSUME StashInv, [Next]_vars  PROVE StashInv'
  <1>1. PICK pg \in [Stashes -> Chains] : Holds(pg)
    BY DEF StashInv
  <1>2. ASSUME NEW s \in Stashes, create(s)  PROVE StashInv'
    BY <1>1, <1>2, CreateKeeps
  <1>3. ASSUME NEW s \in Stashes, put(s)  PROVE StashInv'
    BY <1>1, <1>3, PutKeeps
  <1>4. ASSUME NEW s \in Stashes, save(s)  PROVE StashInv'
    BY <1>1, <1>4, SaveKeeps
  <1>5. ASSUME NEW s \in Stashes, get(s)  PROVE StashInv'
    BY <1>1, <1>5, GetKeeps
  <1>6. ASSUME NEW s \in Stashes, prepare(s)  PROVE StashInv'
    BY <1>1, <1>6, PrepareKeeps
  <1>7. ASSUME NEW s \in Stashes, release(s)  PROVE StashInv'
    BY <1>1, <1>7, ReleaseKeeps
  <1>8. CASE UNCHANGED vars
    <2>1. Holds(pg)'
      BY <1>1, <1>8 DEF vars, Holds, TypeOK, Apart, Live
    <2> QED  BY <1>1, <2>1 DEF StashInv
  <1> QED  BY <1>2, <1>3, <1>4, <1>5, <1>6, <1>7, <1>8 DEF Next

\* At power-on no stash is live and all pages are free.
LEMMA StashStart == Init => StashInv
  <1> SUFFICES ASSUME Init  PROVE StashInv
    OBVIOUS
  <1> DEFINE zero == [i \in 0 .. Next63 |-> 0]
  <1>1. PICK link \in 0 .. Pages - 1 :
          mem = [w |-> [bnum |-> 0, bytes |-> zero], r |-> [bnum |-> 0, bytes |-> zero],
                 chip |-> [b \in 0 .. Pages - 1 |-> [zero EXCEPT ![Next63] = link]]]
    BY DEF Init
  <1>2. /\ 0 \in 0 .. Pages - 1 /\ link \in Nat /\ 0 \in 0 .. 255
        /\ 0 \in 0 .. Next63 /\ 0 \in 0 .. MaxPuts
    BY Numbers
  <1>3. zero \in Page
    BY DEF Page
  <1>4. [zero EXCEPT ![Next63] = link] \in Page
    BY <1>2, <1>3 DEF Page
  <1> HIDE DEF zero
  <1>5. PICK z : z = [zero EXCEPT ![Next63] = link]
    OBVIOUS
  <1>6. mem \in Memory /\ mem.w.bnum = 0
    <2>1. /\ [b \in 0 .. Pages - 1 |-> z] \in [0 .. Pages - 1 -> Page]
      BY <1>4, <1>5
    <2>2. mem = [w |-> [bnum |-> 0, bytes |-> zero], r |-> [bnum |-> 0, bytes |-> zero],
                 chip |-> [b \in 0 .. Pages - 1 |-> z]]
      BY <1>1, <1>5
    <2> QED  BY <1>2, <1>3, <2>1, <2>2 DEF Memory
  <1>7. NewStash \in Object
    BY <1>2 DEF NewStash, Object
  <1>8. /\ \A s \in Stashes : phase[s] = "none" /\ puts[s] = 0 /\ pos[s] = 0
        /\ map = initMap /\ Live = {}
    BY DEF Init, Live
  <1>9. TypeOK
    BY <1>2, <1>6, <1>7, <1>8 DEF Init, TypeOK
  <1> DEFINE none == [s \in Stashes |-> [k \in 0 .. Pages |-> 0]]
  <1>10. none \in [Stashes -> Chains]
    BY <1>2 DEF Chains
  <1> HIDE DEF none
  <1>11. Apart(none)
    BY <1>8 DEF Apart
  <1>12. Holds(none)
    BY <1>6, <1>8, <1>9, <1>11 DEF Holds
  <1> QED  BY <1>10, <1>12 DEF StashInv

\* The invariant holds in every reachable state.
LEMMA StashHolds == Spec => []StashInv
  <1>1. StashInv /\ [Next]_vars => StashInv'
    BY StashStep
  <1> QED  BY <1>1, StashStart, PTL DEF Spec

----------------------------------------------------------------------------
(* What the invariant says of the calls.                                   *)

\* The chains that the links give are those of the invariant.
LEMMA AccountsHold == StashInv => PagesAccounted
  <1> SUFFICES ASSUME StashInv  PROVE PagesAccounted
    OBVIOUS
  <1>1. PICK pg \in [Stashes -> Chains] : Holds(pg)
    BY DEF StashInv
  <1>2. ASSUME NEW s \in Live  PROVE Chain(s) = Own(obj[s], pg[s])
    <2> DEFINE c == [b \in 0 .. Pages - 1 |-> Newest(b)]
    <2>1. s \in Stashes /\ phase[s] # "none"
      BY DEF Live
    <2>2. mem \in Memory /\ obj[s] \in Object /\ pg[s] \in Chains /\ Linked(mem, obj[s], pg[s])
      BY <1>1, <2>1, LiveFacts
    <2>3. \A b \in Own(obj[s], pg[s]) : b \in 0 .. Pages - 1
      BY <2>2, ChainFacts, Numbers
    <2>4. \A b \in Own(obj[s], pg[s]) : c[b][Next63] = Mem(mem, b)[Next63]
      BY <2>3 DEF Newest, Mem
    <2> HIDE DEF c
    <2>5. PagesOf(c, obj[s].first) = Own(obj[s], pg[s])
      BY <2>2, <2>4, ChainFollows
    <2> QED  BY <2>5 DEF Chain, c
  <1>3. \A s \in Live : Own(obj[s], pg[s]) \subseteq initMap
    <2> SUFFICES ASSUME NEW s \in Live  PROVE Own(obj[s], pg[s]) \subseteq initMap
      OBVIOUS
    <2>1. s \in Stashes /\ phase[s] # "none"
      BY DEF Live
    <2>2. mem \in Memory /\ obj[s] \in Object /\ pg[s] \in Chains /\ Linked(mem, obj[s], pg[s])
      BY <1>1, <2>1, LiveFacts
    <2> QED  BY <2>2, ChainFacts
  <1>4. TypeOK /\ map \subseteq initMap
    BY <1>1 DEF Holds, TypeOK
  <1>5. /\ \A s \in Live : Chain(s) \cap map = {}
        /\ \A s, t \in Live : s # t => Chain(s) \cap Chain(t) = {}
    BY <1>1, <1>2 DEF Holds, Apart
  <1>6. map \cup UNION {Chain(s) : s \in Live} = initMap
    BY <1>1, <1>2, <1>3, <1>4 DEF Holds, Apart
  <1> QED  BY <1>4, <1>5, <1>6 DEF PagesAccounted

\* get() of each saved stash goes on where it was.
LEMMA NextIsGot == StashInv => GetsNext
  BY GotIs DEF StashInv, GetsNext, Live

\* size(), from the header and the tail of the last page.
LEMMA SizeIs ==
  ASSUME NEW pg \in [Stashes -> Chains], Holds(pg), NEW s \in Stashes,
         phase[s] \in {"saved", "prepared"}
  PROVE  Size(obj[s].first) = puts[s]
  <1> DEFINE o == obj[s]
             p == pg[s]
             h == LoadR(mem, o.first).r.bytes
             tail == IF h[2] = mem.w.bnum THEN mem.w.bytes[Tail]
                     ELSE LoadR(LoadR(mem, o.first), h[2]).r.bytes[Tail]
  <1>1. /\ mem \in Memory /\ o \in Object /\ p \in Chains /\ puts[s] \in Nat
        /\ Kept(mem, o, p, phase[s], puts[s], pos[s]) /\ Linked(mem, o, p)
    BY LiveFacts
  <1>2. Size(obj[s].first) = Next63 * h[0] + tail - sizeofHeader
    BY DEF Size
  <1>3. PICK ph : ph = phase[s] /\ ph \in {"saved", "prepared"}
    OBVIOUS
  <1> HIDE DEF o, p, tail, h
  <1>4. o.first \in Own(o, p) /\ o.last \in Own(o, p) /\ o.count \in Nat
    BY <1>1, ChainFacts
  <1>5. Kept(mem, o, p, ph, puts[s], pos[s]) /\ ph # "writing"
    BY <1>1, <1>3
  <1>6. h = Mem(mem, o.first)
    BY <1>1, <1>4, <1>5, ReadsNewest DEF h
  <1>7. h[0] = o.count /\ h[2] = o.last
    BY <1>3, <1>5, <1>6 DEF Kept, Headed
  <1>8. PICK m2 : m2 = LoadR(mem, o.first)
    OBVIOUS
  <1>9. Kept(m2, o, p, ph, puts[s], pos[s]) /\ m2 \in Memory /\ \A c : Mem(m2, c) = Mem(mem, c)
    BY <1>1, <1>4, <1>5, <1>8, ReadKeeps
  <1>10. LoadR(m2, o.last).r.bytes = Mem(mem, o.last)
    BY <1>1, <1>4, <1>5, <1>9, ReadsNewest
  <1>11. tail = Mem(mem, o.last)[Tail]
    BY <1>7, <1>8, <1>10 DEF tail, Mem
  <1>12. tail \in 0 .. Tail /\ puts[s] + 3 = Next63 * o.count + tail
    BY <1>1, <1>11, TailIs DEF Kept
  <1>13. PICK a \in Nat : a = Next63 * o.count
    BY <1>4, Numbers, Products
  <1>14. puts[s] = a + tail - 3
    BY <1>1, <1>12, <1>13
  <1> QED  BY <1>2, <1>7, <1>13, <1>14, Numbers

\* A place in a stash is a page and a place in that page.
LEMMA Divided ==
  ASSUME NEW n \in Nat
  PROVE  \E k \in Nat, x \in 0 .. Tail :
           k = n \div Next63 /\ x = n % Next63 /\ n = Next63 * k + x
  <1>1. Next63 \in Nat /\ Next63 > 0
    BY Numbers
  <1>2. n \div Next63 \in Nat /\ n % Next63 \in 0 .. Next63 - 1
    BY <1>1
  <1>3. PICK k \in Nat, x \in 0 .. Next63 - 1 : k = n \div Next63 /\ x = n % Next63
    BY <1>2
  <1>4. n = Next63 * k + x
    <2>1. k \in Int /\ x \in Int
      BY <1>1, <1>3
    <2> QED  BY <1>1, <1>3, <2>1
  <1>5. x \in 0 .. Tail
    BY <1>3 DEF Tail
  <1> QED  BY <1>3, <1>4, <1>5, Zenon

\* The byte at a place of the stash is the one that was put there.
LEMMA SentIs ==
  ASSUME NEW pg \in [Stashes -> Chains], Holds(pg), NEW s \in Stashes,
         phase[s] \in {"saved", "prepared"}, NEW i \in 1 .. puts[s]
  PROVE  Sent(obj[s].first, i) = Char(i)
  <1> DEFINE o == obj[s]
             p == pg[s]
             n == i - 1 + sizeofHeader
             m == LoadR(mem, o.first)
             c == [b \in 0 .. Pages - 1 |-> LoadR(m, b).r.bytes]
  <1>1. /\ mem \in Memory /\ o \in Object /\ p \in Chains /\ puts[s] \in Nat
        /\ Kept(mem, o, p, phase[s], puts[s], pos[s]) /\ Linked(mem, o, p)
    BY LiveFacts
  <1>2. Sent(obj[s].first, i) = LoadR(m, ChainBy(c, o.first)[n \div Next63]).r.bytes[n % Next63]
    BY DEF Sent
  <1>3. PICK ph : ph = phase[s] /\ ph \in {"saved", "prepared"}
    OBVIOUS
  <1>4. n \in Nat /\ n = i + 2 /\ i \in Nat /\ i <= puts[s]
    BY <1>1, Numbers
  <1> HIDE DEF o, p, n
  <1>5. PICK k \in Nat, x \in 0 .. Tail :
          k = n \div Next63 /\ x = n % Next63 /\ n = Next63 * k + x
    BY <1>4, Divided, Zenon
  <1>6. o.first \in Own(o, p) /\ o.count \in Nat
    BY <1>1, ChainFacts
  <1>7. Kept(mem, o, p, ph, puts[s], pos[s]) /\ ph # "writing"
    BY <1>1, <1>3
  <1>8. Kept(m, o, p, ph, puts[s], pos[s]) /\ m \in Memory
    BY <1>1, <1>6, <1>7, ReadKeeps
  <1> HIDE DEF m
  <1>9. Linked(m, o, p) /\ Filled(m, o, p, puts[s])
    BY <1>8 DEF Kept
  <1>10. \A b \in Own(o, p) : b \in 0 .. Pages - 1 /\ LoadR(m, b).r.bytes = Mem(m, b)
    BY <1>1, <1>7, <1>8, ReadsNewest
  <1>11. \A b \in Own(o, p) : c[b][Next63] = Mem(m, b)[Next63]
    BY <1>10
  <1> HIDE DEF c
  <1>12. ChainBy(c, o.first) = p
    BY <1>1, <1>8, <1>9, <1>11, ChainFollows
  <1>13. k \in 0 .. o.count
    <2> DEFINE t == Mem(m, o.last)[Tail]
    <2>1. t \in 0 .. Tail /\ puts[s] + 3 = Next63 * o.count + t
      BY <1>1, <1>8, <1>9, TailIs
    <2> HIDE DEF t
    <2>2. PICK a \in Nat : a = Next63 * k
      BY <1>5, Numbers, Products
    <2>3. PICK b \in Nat : b = Next63 * o.count
      BY <1>6, Numbers, Products
    <2>4. o.count < k => b + Next63 <= a
      BY <1>5, <1>6, <2>2, <2>3, Numbers, Products
    <2>5. i + 2 = a + x /\ puts[s] + 3 = b + t
      BY <1>4, <1>5, <2>1, <2>2, <2>3
    <2>6. ~(o.count < k)
      BY <1>1, <1>4, <1>5, <2>1, <2>4, <2>5, Numbers
    <2> QED  BY <1>5, <1>6, <2>6
  <1>14. p[k] \in Own(o, p)
    BY <1>13 DEF Own
  <1>15. Next63 * k + x - 2 = i
    <2>1. PICK a \in Nat : a = Next63 * k
      BY <1>5, Numbers, Products
    <2>2. a + x = i + 2
      BY <1>4, <1>5, <2>1
    <2> QED  BY <1>4, <1>5, <2>1, <2>2
  <1>16. Mem(m, p[k])[x] = Char(i)
    BY <1>5, <1>9, <1>13, <1>15 DEF Filled
  <1> QED  BY <1>2, <1>5, <1>10, <1>12, <1>14, <1>16

\* Size and bytes together.
LEMMA AllIsSent == StashInv => SendsAll
  BY SizeIs, SentIs DEF StashInv, SendsAll, Live

----------------------------------------------------------------------------
(* The theorems.                                                           *)

\* allocBlock(), freeBlock() and release() (EtherCard.cpp): whatever the order of
\* the calls, no page is in two stashes, or in one and free, and none is lost.
THEOREM PagesStayAccounted == Spec => []PagesAccounted
  BY StashHolds, AccountsHold, PTL

\* get() after save(): the next byte that was put, and 0 after the last, from
\* whichever of the two buffers or the chip has the newest copy of its page.
THEOREM GetGoesOn == Spec => []GetsNext
  BY StashHolds, NextIsGot, PTL

\* prepare(), length() and extract() for a $H: the size counted is the number
\* of bytes put, and those are what is sent, in their order.
THEOREM StashIsSent == Spec => []SendsAll
  BY StashHolds, AllIsSent, PTL
=============================================================================
