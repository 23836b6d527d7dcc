--------------------------- MODULE ServersProofs ----------------------------
(***************************************************************************)
(* A TCP server that keeps no connection, and a page read in order all the *)
(* same, for every number of peers, parts and repetitions; and the UDP     *)
(* listeners, which obey the last pause or resume, for any set of ports;   *)
(* and the arithmetic of the packets, the search for an answer's body and  *)
(* that for the address in a DNS answer, for any sample and any length.    *)
(***************************************************************************)
EXTENDS Servers, SequenceTheorems, FiniteSetTheorems, TLAPS

----------------------------------------------------------------------------
(* The numbers of packets.                                                 *)

\* A set of numbers that is not empty has a least one.
LEMMA Least ==
  ASSUME NEW n \in Nat, NEW T, T \subseteq 0 .. n, T # {}
  PROVE  \E x \in T : \A y \in T : x <= y
  <1> DEFINE S == 0 .. n
             R == StrictSubsetOrdering(S)
             I == {0 .. x : x \in T}
  <1>1. IsWellFoundedOn(R, SUBSET S)
    <2>1. IsFiniteSet(S)
      BY FS_Interval
    <2>2. FiniteSubsetsOf(S) = SUBSET S
      BY <2>1, FS_FiniteSubsetsOfFinite
    <2>3. IsWellFoundedOn(R, FiniteSubsetsOf(S))
      BY FS_StrictSubsetOrderingWellFounded
    <2> QED  BY <2>2, <2>3
  <1>2. I \subseteq SUBSET S /\ I # {}
    <2>1. \A x \in T : 0 .. x \subseteq S
      OBVIOUS
    <2>2. \A x \in T : 0 .. x \in I
      OBVIOUS
    <2> HIDE DEF S
    <2> QED  BY <2>1, <2>2, Zenon
  <1>3. PICK J \in I : \A K \in I : <<K, J>> \notin R
    <2> HIDE DEF S, R, I
    <2> QED  BY <1>1, <1>2, WFMin
  <1>4. PICK x \in T : J = 0 .. x
    OBVIOUS
  <1>5. ASSUME NEW y \in T  PROVE x <= y
    <2> SUFFICES ASSUME y < x  PROVE FALSE
      OBVIOUS
    <2>1. 0 .. y \subseteq 0 .. x /\ x \in 0 .. x /\ x \notin 0 .. y
      OBVIOUS
    <2>2. 0 .. y \in SUBSET S /\ 0 .. x \in SUBSET S /\ 0 .. y \in I
      OBVIOUS
    <2>3. <<0 .. y, 0 .. x>> \in R
      BY <2>1, <2>2 DEF StrictSubsetOrdering
    <2> QED  BY <1>3, <1>4, <2>2, <2>3
  <1> QED  BY <1>5

\* Division with a remainder.
LEMMA Divided ==
  ASSUME NEW d \in Nat, d > 0, NEW a \in Nat
  PROVE  a \div d \in Nat /\ a % d \in 0 .. d - 1 /\ a = d * (a \div d) + (a % d)
  OBVIOUS

\* There is one way to divide with a remainder.
LEMMA OneRemainder ==
  ASSUME NEW d \in Nat, d > 0, NEW q \in Int, NEW r \in 0 .. d - 1,
         NEW k \in Int, NEW e \in 0 .. d - 1, d * q + r = d * k + e
  PROVE  q = k /\ r = e
  <1>1. ASSUME NEW x \in Int, x >= 1  PROVE d * x >= d
    BY <1>1
  <1>2. d * (q - k) = e - r /\ d * (k - q) = r - e
    OBVIOUS
  <1>3. ~(q - k >= 1) /\ ~(k - q >= 1)
    <2>1. q - k \in Int /\ k - q \in Int
      OBVIOUS
    <2>2. e - r < d /\ r - e < d
      OBVIOUS
    <2> QED  BY <1>1, <1>2, <2>1, <2>2
  <1>4. q = k
    BY <1>3
  <1> QED  BY <1>4

\* A multiple of the divisor makes no difference to the remainder.
LEMMA SameRemainder ==
  ASSUME NEW d \in Nat, d > 0, NEW a \in Nat, NEW q \in Nat
  PROVE  (a + d * q) % d = a % d
  <1>1. PICK b \in Nat : b = a + d * q
    OBVIOUS
  <1>b. b \div d \in Nat /\ b % d \in 0 .. d - 1 /\ b = d * (b \div d) + (b % d)
    BY Divided, Zenon
  <1>2. PICK u \in Nat, v \in 0 .. d - 1 : v = b % d /\ b = d * u + v
    BY <1>b, Zenon
  <1>a. a \div d \in Nat /\ a % d \in 0 .. d - 1 /\ a = d * (a \div d) + (a % d)
    BY Divided, Zenon
  <1>3. PICK x \in Nat, y \in 0 .. d - 1 : y = a % d /\ a = d * x + y
    BY <1>a, Zenon
  <1>4. d * u + v = d * (x + q) + y
    <2>1. d * (x + q) = d * x + d * q /\ d * x \in Nat /\ d * q \in Nat
      OBVIOUS
    <2> QED  BY <1>1, <1>2, <1>3, <2>1
  <1>5. v = y
    BY <1>4, OneRemainder
  <1> QED  BY <1>1, <1>2, <1>3, <1>5

LEMMA WordIs == Word \in Nat /\ Word > 2 /\ Byte \in Nat /\ Byte > 2 /\ Word = Byte * Byte
  BY DEF Word, Byte

\* fill_checksum's loop computes the remainder modulo 2^16 - 1, but for a sum
\* above 0 never gives 0: 2^16 - 1 in place of it.
Folded(sum) == IF sum = 0 THEN 0 ELSE 1 + ((sum - 1) % (Word - 1))
\* A turn of the loop makes the sum smaller and keeps the remainder.
LEMMA Turn ==
  ASSUME NEW sum \in Nat, Word <= sum, NEW less, less = (sum % Word) + (sum \div Word)
  PROVE  less \in Nat /\ less < sum /\ Folded(less) = Folded(sum)
  <1>2. PICK d \in Nat : d = Word - 1 /\ d > 1
    BY WordIs
  <1>0. PICK q \in Nat, r \in 0 .. d : sum = Word * q + r /\ less = r + q
    <2>1. /\ sum \div Word \in Nat /\ sum % Word \in 0 .. Word - 1
          /\ sum = Word * (sum \div Word) + (sum % Word)
      BY Divided, WordIs
    <2>2. sum % Word \in 0 .. d
      BY <1>2, <2>1
    <2> QED  BY <2>1, <2>2
  <1>1. sum = (d + 1) * q + r /\ less = r + q /\ Word = d + 1
    BY <1>0, <1>2, WordIs
  <1>3. sum = less + d * q
    BY <1>1
  <1>4. q > 0
    <2> SUFFICES ASSUME q = 0  PROVE FALSE
      OBVIOUS
    <2>1. d * q = 0
      BY <1>2
    <2> QED  BY <1>1, <1>3, <2>1, WordIs
  <1>5. d * q > 0
    BY <1>2, <1>4
  <1>6. less \in Nat /\ less > 0 /\ less < sum
    BY <1>1, <1>3, <1>4, <1>5
  <1>7. PICK a \in Nat : a = less - 1
    BY <1>6
  <1>8. (a + d * q) % d = a % d
    <2>1. d > 0
      BY <1>2
    <2> QED  BY <2>1, SameRemainder, Zenon
  <1>9. sum - 1 = a + d * q /\ sum # 0
    <2>1. PICK l \in Nat, m \in Int : l = less /\ m = d * q
      BY <1>6
    <2>2. sum = l + m /\ a = l - 1 /\ l < sum
      BY <1>3, <1>6, <1>7, <2>1, Zenon
    <2>3. sum - 1 = a + m /\ sum # 0
      BY <2>2
    <2> QED  BY <2>1, <2>3, Zenon
  <1> QED  BY <1>2, <1>6, <1>7, <1>8, <1>9 DEF Folded

\* A sum that needs no turn.
LEMMA NoTurn == ASSUME NEW sum \in Nat, sum < Word  PROVE Folded(sum) = sum
  <1>1. PICK d \in Nat : d = Word - 1 /\ d > 1
    BY WordIs
  <1>2. CASE sum # 0
    <2>1. PICK a \in 0 .. d - 1 : a = sum - 1
      BY <1>1, <1>2, WordIs
    <2>2. a % d = a
      BY <1>1
    <2> QED  BY <1>1, <1>2, <2>1, <2>2 DEF Folded
  <1> QED  BY <1>2 DEF Folded

\* There is such a function, so that fold is one.
LEMMA FoldExists ==
  fold = [sum \in Nat |-> IF sum < Word THEN sum ELSE fold[(sum % Word) + (sum \div Word)]]
  <1> DEFINE g == [sum \in Nat |-> Folded(sum)]
  <1>1. ASSUME NEW sum \in Nat
        PROVE  g[sum] = IF sum < Word THEN sum ELSE g[(sum % Word) + (sum \div Word)]
    <2>1. CASE sum < Word
      BY <2>1, NoTurn
    <2>2. CASE Word <= sum
      <3>1. PICK less : less = (sum % Word) + (sum \div Word)
        OBVIOUS
      <3>2. less \in Nat /\ Folded(less) = Folded(sum)
        BY <2>2, <3>1, Turn
      <3>3. g[sum] = g[less]
        BY <3>2
      <3>4. ~(sum < Word)
        BY <2>2, WordIs
      <3> HIDE DEF g
      <3> QED  BY <3>1, <3>3, <3>4, Zenon
    <2> QED  BY <2>1, <2>2, WordIs
  <1>2. g = [sum \in Nat |-> IF sum < Word THEN sum ELSE g[(sum % Word) + (sum \div Word)]]
    <2>1. g = [sum \in Nat |-> g[sum]]
      OBVIOUS
    <2> HIDE DEF g
    <2> QED  BY <1>1, <2>1
  <1> HIDE DEF g
  <1> QED  BY <1>2 DEF fold

LEMMA FoldIs == ASSUME NEW sum \in Nat  PROVE fold[sum] = Folded(sum)
  <1> DEFINE T == {x \in 0 .. sum : fold[x] # Folded(x)}
  <1> SUFFICES ASSUME T # {}  PROVE FALSE
    OBVIOUS
  <1>1. PICK x \in T : \A y \in T : x <= y
    <2>1. T \subseteq 0 .. sum
      OBVIOUS
    <2> HIDE DEF T
    <2> QED  BY <2>1, Least
  <1>2. x \in Nat /\ fold[x] = IF x < Word THEN x ELSE fold[(x % Word) + (x \div Word)]
    BY FoldExists
  <1>3. CASE x < Word
    BY <1>2, <1>3, NoTurn
  <1>4. CASE Word <= x
    <2>1. PICK less : less = (x % Word) + (x \div Word)
      OBVIOUS
    <2>2. less \in Nat /\ less < x /\ Folded(less) = Folded(x)
      BY <1>2, <1>4, <2>1, Turn
    <2>3. ~(x < Word)
      BY <1>2, <1>4, WordIs
    <2>4. fold[x] = fold[less]
      BY <1>2, <2>1, <2>3, Zenon
    <2>5. fold[less] = Folded(less)
      BY <1>1, <2>2
    <2> QED  BY <2>2, <2>4, <2>5
  <1> QED  BY <1>2, <1>3, <1>4, WordIs

\* A sum is folded to all ones if it is a multiple of 2^16 - 1 above 0, and to
\* what the checksum makes such a multiple of.
LEMMA AllOnes ==
  ASSUME NEW sum \in Nat, NEW d \in Nat, d = Word - 1
  PROVE  /\ fold[sum] \in 0 .. d
         /\ fold[sum] = d <=> \E q \in Nat : sum = d * q + d
         /\ \E q \in Nat : sum + (d - fold[sum]) = d * q + d
  <1>0. d > 1
    BY WordIs
  <1>1. CASE sum = 0
    <2>1. fold[sum] = 0
      BY <1>1, FoldIs DEF Folded
    <2>2. ASSUME NEW q \in Nat  PROVE d * q + d # 0
      <3>1. d * q >= 0
        OBVIOUS
      <3> QED  BY <1>0, <3>1
    <2>3. sum + (d - fold[sum]) = d * 0 + d
      BY <1>1, <2>1
    <2> QED  BY <1>0, <1>1, <2>1, <2>2, <2>3
  <1>2. CASE sum # 0
    <2>1. PICK a \in Nat : a = sum - 1
      BY <1>2
    <2>2. PICK q \in Nat, r \in 0 .. d - 1 : r = a % d /\ a = d * q + r
      <3>1. a \div d \in Nat /\ a % d \in 0 .. d - 1 /\ a = d * (a \div d) + (a % d)
        <4>1. d > 0
          BY <1>0
        <4> QED  BY <4>1, Divided, Zenon
      <3> QED  BY <3>1
    <2>3. fold[sum] = 1 + r
      BY <1>2, <2>1, <2>2, FoldIs DEF Folded
    <2>4. sum = d * q + r + 1
      BY <2>1, <2>2
    <2>5. ASSUME NEW k \in Nat, sum = d * k + d  PROVE 1 + r = d
      <3>1. d * q + r = d * k + (d - 1)
        BY <2>4, <2>5
      <3>2. d - 1 \in 0 .. d - 1
        BY <1>0
      <3>3. r = d - 1
        BY <1>0, <3>1, <3>2, OneRemainder
      <3> QED  BY <3>3
    <2>6. ASSUME 1 + r = d  PROVE sum = d * q + d
      BY <2>4, <2>6
    <2>7. sum + (d - (1 + r)) = d * q + d
      BY <2>4
    <2> QED  BY <1>0, <2>3, <2>5, <2>6, <2>7
  <1> QED  BY <1>1, <1>2
\* Sums of the first terms of a series.
IsSum(g, n, w) ==
  g \in [0 .. n -> Nat] /\ g[0] = 0 /\ \A k \in 1 .. n : g[k] = g[k - 1] + w[k]
LEMMA SumsExist == ASSUME NEW n \in Nat, NEW w \in [1 .. n -> Nat]  PROVE \E g : IsSum(g, n, w)
  <1> DEFINE T == {m \in 0 .. n : ~\E g : IsSum(g, m, w)}
  <1> SUFFICES ASSUME T # {}  PROVE FALSE
    <2>1. n \in 0 .. n
      OBVIOUS
    <2> QED  BY <2>1, Zenon
  <1>1. PICK m \in T : \A y \in T : m <= y
    <2>1. T \subseteq 0 .. n
      OBVIOUS
    <2> HIDE DEF T
    <2> QED  BY <2>1, Least
  <1>2. CASE m = 0
    <2>1. IsSum([k \in 0 .. 0 |-> 0], 0, w)
      BY DEF IsSum
    <2> QED  BY <1>2, <2>1
  <1>3. CASE m # 0
    <2>1. m - 1 \in 0 .. n /\ m - 1 \notin T /\ m \in 1 .. n
      BY <1>1, <1>3
    <2>2. PICK g : IsSum(g, m - 1, w)
      BY <2>1
    <2> DEFINE h == [k \in 0 .. m |-> IF k = m THEN g[m - 1] + w[m] ELSE g[k]]
    <2>3. g \in [0 .. m - 1 -> Nat] /\ g[0] = 0 /\ \A k \in 1 .. m - 1 : g[k] = g[k - 1] + w[k]
      BY <2>2 DEF IsSum
    <2>4. h \in [0 .. m -> Nat] /\ h[0] = 0
      BY <2>1, <2>3
    <2>5. ASSUME NEW k \in 1 .. m  PROVE h[k] = h[k - 1] + w[k]
      BY <2>1, <2>3
    <2> HIDE DEF h
    <2>6. IsSum(h, m, w)
      BY <2>4, <2>5 DEF IsSum
    <2> QED  BY <2>6
  <1> QED  BY <1>2, <1>3

\* What a byte adds to a sum.
Terms(bytes) == [k \in 1 .. Len(bytes) |-> (IF k % 2 = 1 THEN Byte ELSE 1) * bytes[k]]
LEMMA TermsAre ==
  ASSUME NEW bytes \in Seq(Nat)
  PROVE  Terms(bytes) \in [1 .. Len(bytes) -> Nat]
  <1>1. \A a, b \in Nat : a * b \in Nat
    OBVIOUS
  <1>2. ASSUME NEW k \in 1 .. Len(bytes)
        PROVE  (IF k % 2 = 1 THEN Byte ELSE 1) * bytes[k] \in Nat
    <2>1. bytes[k] \in Nat
      OBVIOUS
    <2>2. (IF k % 2 = 1 THEN Byte ELSE 1) \in Nat
      BY WordIs
    <2> QED  BY <1>1, <2>1, <2>2, Zenon
  <1> QED  BY <1>2, Zenon DEF Terms

LEMMA PairSumIs ==
  ASSUME NEW bytes \in Seq(Nat)
  PROVE  \E g : IsSum(g, Len(bytes), Terms(bytes)) /\ PairSum(bytes) = g[Len(bytes)]
  <1>1. PICK n \in Nat : n = Len(bytes)
    OBVIOUS
  <1> DEFINE w == Terms(bytes)
             F(f) == [k \in 0 .. Len(bytes) |->
                        IF k = 0 THEN 0 ELSE f[k - 1] + (IF k % 2 = 1 THEN Byte ELSE 1) * bytes[k]]
             s == CHOOSE f : f = F(f)
  <1>2. w \in [1 .. n -> Nat]
    BY <1>1, TermsAre
  <1>3. \A k \in 1 .. n : w[k] = (IF k % 2 = 1 THEN Byte ELSE 1) * bytes[k]
    BY <1>1 DEF Terms
  <1>4. PairSum(bytes) = s[n]
    BY <1>1 DEF PairSum
  <1> HIDE DEF w
  <1>5. PICK g : IsSum(g, n, w)
    BY <1>2, SumsExist
  <1>6. g = F(g)
    <2>1. g \in [0 .. n -> Nat] /\ g[0] = 0 /\ \A k \in 1 .. n : g[k] = g[k - 1] + w[k]
      BY <1>5 DEF IsSum
    <2>2. ASSUME NEW k \in 0 .. n
          PROVE  g[k] = IF k = 0 THEN 0 ELSE g[k - 1] + (IF k % 2 = 1 THEN Byte ELSE 1) * bytes[k]
      <3>1. CASE k = 0
        BY <2>1, <3>1
      <3>2. CASE k # 0
        <4>1. k \in 1 .. n
          BY <3>2
        <4> QED  BY <1>3, <2>1, <3>2, <4>1, Zenon
      <3> QED  BY <3>1, <3>2
    <2>3. g = [k \in 0 .. n |-> g[k]]
      BY <2>1
    <2> QED  BY <1>1, <2>2, <2>3, Zenon
  <1>7. s = F(s)
    <2> HIDE DEF F
    <2> QED  BY <1>6, Zenon
  <1> HIDE DEF s
  <1>8. \A k \in 0 .. n : s[k] = g[k]
    <2> DEFINE T == {k \in 0 .. n : s[k] # g[k]}
    <2> SUFFICES ASSUME T # {}  PROVE FALSE
      OBVIOUS
    <2>1. PICK k \in T : \A y \in T : k <= y
      <3>1. T \subseteq 0 .. n
        OBVIOUS
      <3> HIDE DEF T
      <3> QED  BY <3>1, Least
    <2>2. k \in 0 .. n /\ s[k] # g[k] /\ (k # 0 => k - 1 \in 0 .. n /\ k - 1 \notin T)
      BY <2>1
    <2>3. k # 0 => s[k - 1] = g[k - 1]
      BY <2>2
    <2>4. s[k] = (IF k = 0 THEN 0 ELSE s[k - 1] + (IF k % 2 = 1 THEN Byte ELSE 1) * bytes[k])
      BY <1>1, <1>7, <2>2, Zenon
    <2>5. g[k] = (IF k = 0 THEN 0 ELSE g[k - 1] + (IF k % 2 = 1 THEN Byte ELSE 1) * bytes[k])
      BY <1>1, <1>6, <2>2, Zenon
    <2> QED  BY <2>2, <2>3, <2>4, <2>5, Zenon
  <1>9. n \in 0 .. n
    OBVIOUS
  <1> QED  BY <1>1, <1>4, <1>5, <1>8, <1>9 DEF w
\* Two neighbouring terms that are larger make all sums behind them larger.
Larger(h, v, g, w, n, at, a, b) ==
  /\ w \in [1 .. n -> Nat] /\ v \in [1 .. n -> Nat] /\ at \in 1 .. n - 1 /\ a \in Nat /\ b \in Nat
  /\ IsSum(g, n, w) /\ IsSum(h, n, v)
  /\ v[at] = w[at] + a /\ v[at + 1] = w[at + 1] + b
  /\ \A k \in 1 .. n : k # at /\ k # at + 1 => v[k] = w[k]
LEMMA LargerTerms ==
  ASSUME NEW n \in Nat, NEW h, NEW v, NEW g, NEW w, NEW at, NEW a, NEW b, Larger(h, v, g, w, n, at, a, b)
  PROVE  h[n] = g[n] + a + b
  <1>a. /\ w \in [1 .. n -> Nat] /\ v \in [1 .. n -> Nat] /\ at \in 1 .. n - 1 /\ a \in Nat /\ b \in Nat
        /\ v[at] = w[at] + a /\ v[at + 1] = w[at + 1] + b
        /\ \A k \in 1 .. n : k # at /\ k # at + 1 => v[k] = w[k]
    BY DEF Larger
  <1> DEFINE More(k) == IF k < at THEN 0 ELSE IF k = at THEN a ELSE a + b
             T == {k \in 0 .. n : h[k] # g[k] + More(k)}
  <1>0. n \in 0 .. n /\ More(n) = a + b
    BY <1>a
  <1>1. /\ g \in [0 .. n -> Nat] /\ h \in [0 .. n -> Nat] /\ g[0] = 0 /\ h[0] = 0
        /\ \A k \in 1 .. n : g[k] = g[k - 1] + w[k] /\ h[k] = h[k - 1] + v[k]
    BY DEF Larger, IsSum
  <1>2. T = {}
    <2> SUFFICES ASSUME T # {}  PROVE FALSE
      OBVIOUS
    <2>1. PICK k \in T : \A y \in T : k <= y
      <3>1. T \subseteq 0 .. n
        OBVIOUS
      <3> HIDE DEF T
      <3> QED  BY <3>1, Least
    <2>2. k \in 0 .. n /\ h[k] # g[k] + More(k)
      OBVIOUS
    <2>3. k # 0
      BY <1>1, <1>a, <2>2
    <2>4. k \in 1 .. n /\ k - 1 \in 0 .. n /\ h[k - 1] = g[k - 1] + More(k - 1)
      BY <2>1, <2>2, <2>3
    <2>5. g[k] = g[k - 1] + w[k] /\ h[k] = h[k - 1] + v[k]
      BY <1>1, <2>4
    <2>6. /\ More(k) \in Nat /\ More(k - 1) \in Nat
          /\ v[k] = w[k] + (More(k) - More(k - 1)) /\ w[k] \in Nat
      <3>1. w[k] \in Nat /\ v[k] \in Nat
        BY <1>a, <2>4
      <3>2. CASE k = at
        BY <1>a, <2>4, <3>1, <3>2
      <3>3. CASE k = at + 1
        BY <1>a, <2>4, <3>1, <3>3
      <3>4. CASE k # at /\ k # at + 1
        <4>1. v[k] = w[k]
          BY <1>a, <2>4, <3>4
        <4>2. More(k) = More(k - 1) /\ More(k) \in Nat
          <5>1. k \in Int /\ at \in Int /\ k - 1 # at /\ a + b \in Nat
            BY <1>a, <2>4, <3>4
          <5>2. (k < at <=> k - 1 < at) /\ k # at
            BY <3>4, <5>1
          <5> QED  BY <5>1, <5>2
        <4> HIDE DEF More
        <4> QED  BY <3>1, <4>1, <4>2
      <3> QED  BY <3>2, <3>3, <3>4
    <2>7. g[k - 1] \in Nat
      BY <1>1, <2>4
    <2> HIDE DEF More, T
    <2>8. PICK x \in Nat, y \in Nat, p \in Nat, q \in Nat :
            x = More(k) /\ y = More(k - 1) /\ p = g[k - 1] /\ q = w[k]
      BY <2>6, <2>7
    <2>9. h[k] = (p + y) + (q + (x - y)) /\ g[k] = p + q
      BY <2>4, <2>5, <2>6, <2>8, Zenon
    <2>10. h[k] = g[k] + x
      BY <2>9
    <2> QED  BY <2>2, <2>8, <2>10, Zenon
  <1>3. h[n] = g[n] + More(n)
    <2> HIDE DEF More
    <2> QED  BY <1>0, <1>2
  <1>4. g[n] \in Nat
    BY <1>0, <1>1
  <1> HIDE DEF More, T
  <1>5. h[n] = g[n] + (a + b) /\ a \in Nat /\ b \in Nat
    BY <1>0, <1>3, <1>a, Zenon
  <1> QED  BY <1>4, <1>5

\* A packet whose checksum is 0, and the same with a checksum.
IsFilled(blank, full, at, ck) ==
  /\ blank \in Seq(Nat) /\ full \in Seq(Nat) /\ Len(full) = Len(blank)
  /\ blank[at] = 0 /\ blank[at + 1] = 0
  /\ full[at] = ck \div Byte /\ full[at + 1] = ck % Byte
  /\ \A k \in 1 .. Len(blank) : k # at /\ k # at + 1 => full[k] = blank[k]

LEMMA FilledSum ==
  ASSUME NEW blank, NEW full, NEW at \in Nat, at % 2 = 1, NEW ck \in Nat,
         at < Len(blank), IsFilled(blank, full, at, ck)
  PROVE  /\ PairSum(full) = PairSum(blank) + ck
         /\ PairSum(blank) \in Nat
  <1>1. PICK n \in Nat : n = Len(blank) /\ n = Len(full)
    BY DEF IsFilled
  <1>2. PICK w, v : w = Terms(blank) /\ v = Terms(full)
    OBVIOUS
  <1>3. w \in [1 .. n -> Nat] /\ v \in [1 .. n -> Nat]
    BY <1>1, <1>2, TermsAre DEF IsFilled
  <1>4. PICK g : IsSum(g, n, w) /\ PairSum(blank) = g[n]
    BY <1>1, <1>2, PairSumIs DEF IsFilled
  <1>5. PICK h : IsSum(h, n, v) /\ PairSum(full) = h[n]
    BY <1>1, <1>2, PairSumIs DEF IsFilled
  <1>6. at \in 1 .. n /\ at + 1 \in 1 .. n /\ at \in 1 .. n - 1 /\ ~((at + 1) % 2 = 1)
    BY <1>1
  <1>7. PICK x \in Nat, y \in Nat : ck = Byte * x + y /\ full[at] = x /\ full[at + 1] = y
    <2>1. /\ ck \div Byte \in Nat /\ ck % Byte \in 0 .. Byte - 1
          /\ ck = Byte * (ck \div Byte) + (ck % Byte)
      BY Divided, WordIs
    <2> QED  BY <2>1 DEF IsFilled
  <1>8. \A k \in 1 .. n : /\ w[k] = (IF k % 2 = 1 THEN Byte ELSE 1) * blank[k]
                          /\ v[k] = (IF k % 2 = 1 THEN Byte ELSE 1) * full[k]
    BY <1>1, <1>2, Zenon DEF Terms
  <1>9. w[at] = 0 /\ w[at + 1] = 0 /\ v[at] = Byte * x /\ v[at + 1] = y
    <2>1. /\ w[at] = (IF at % 2 = 1 THEN Byte ELSE 1) * blank[at]
          /\ w[at + 1] = (IF (at + 1) % 2 = 1 THEN Byte ELSE 1) * blank[at + 1]
          /\ v[at] = (IF at % 2 = 1 THEN Byte ELSE 1) * full[at]
          /\ v[at + 1] = (IF (at + 1) % 2 = 1 THEN Byte ELSE 1) * full[at + 1]
      BY <1>6, <1>8, Zenon
    <2>2. /\ w[at] = Byte * 0 /\ w[at + 1] = 1 * 0 /\ v[at] = Byte * x /\ v[at + 1] = 1 * y
      BY <1>6, <1>7, <2>1, Zenon DEF IsFilled
    <2> QED  BY <1>7, <2>2, WordIs
  <1>10. \A k \in 1 .. n : k # at /\ k # at + 1 => v[k] = w[k]
    <2> SUFFICES ASSUME NEW k \in 1 .. n, k # at, k # at + 1  PROVE v[k] = w[k]
      OBVIOUS
    <2>1. full[k] = blank[k]
      BY <1>1 DEF IsFilled
    <2> QED  BY <1>8, <2>1, Zenon
  <1>11. PICK a \in Nat : a = Byte * x
    BY WordIs
  <1>12. h[n] = g[n] + a + y
    <2>1. v[at] = w[at] + a /\ v[at + 1] = w[at + 1] + y
      BY <1>9, <1>11
    <2>2. Larger(h, v, g, w, n, at, a, y)
      BY <1>3, <1>4, <1>5, <1>6, <1>10, <2>1, Zenon DEF Larger
    <2> QED  BY <2>2, LargerTerms
  <1>13. g[n] \in Nat
    BY <1>4 DEF IsSum
  <1> QED  BY <1>4, <1>5, <1>7, <1>11, <1>12, <1>13

LEMMA SeqIsFunction ==
  ASSUME NEW s \in Seq(Nat)
  PROVE  s \in [1 .. Len(s) -> Nat]
  OBVIOUS

\* The checksum is the complement of the sum, so that adding it gives all ones,
\* whatever the packet and wherever the checksum.
LEMMA ChecksumWorks ==
  ASSUME NEW bytes \in Seq(Nat), NEW type \in 0 .. 2, NEW at \in 1 .. Len(bytes) - 1, at % 2 = 1,
         NEW blank, blank = WithChecksum(bytes, at, 0)
  PROVE  Verifies(WithChecksum(blank, at, fill_checksum(blank, type)), type)
  <1>1. PICK n \in Nat : n = Len(bytes) /\ n >= 2
    OBVIOUS
  <1>2. Start(type, n) \in Nat
    BY <1>1 DEF Start
  <1>3. 0 \div Byte = 0 /\ 0 % Byte = 0
    BY WordIs
  <1>4. /\ blank \in Seq(Nat) /\ Len(blank) = n /\ blank[at] = 0 /\ blank[at + 1] = 0
    BY <1>1, <1>3 DEF WithChecksum
  <1>5. ASSUME NEW ck \in Nat  PROVE IsFilled(blank, WithChecksum(blank, at, ck), at, ck)
    <2>1. ck \div Byte \in Nat /\ ck % Byte \in Nat
      BY Divided, WordIs
    <2>2. PICK x \in Nat, y \in Nat : x = ck \div Byte /\ y = ck % Byte
      BY <2>1
    <2> DEFINE full == [blank EXCEPT ![at] = x, ![at + 1] = y]
    <2>3. /\ full \in Seq(Nat) /\ Len(full) = Len(blank) /\ full[at] = x /\ full[at + 1] = y
          /\ \A k \in 1 .. Len(blank) : k # at /\ k # at + 1 => full[k] = blank[k]
      <3>1. blank \in [1 .. n -> Nat] /\ at \in 1 .. n /\ at + 1 \in 1 .. n /\ at # at + 1
        <4>1. at \in 1 .. n /\ at + 1 \in 1 .. n /\ at # at + 1
          BY <1>1
        <4>2. blank \in [1 .. n -> Nat]
          <5>1. blank \in [1 .. Len(blank) -> Nat]
            BY <1>4, SeqIsFunction, Zenon
          <5> QED  BY <1>4, <5>1, Zenon
        <4> QED  BY <4>1, <4>2, Zenon
      <3>2. /\ full \in [1 .. n -> Nat] /\ full[at] = x /\ full[at + 1] = y
            /\ \A k \in 1 .. n : k # at /\ k # at + 1 => full[k] = blank[k]
        BY <3>1
      <3>3. full \in Seq(Nat) /\ Len(full) = n
        <4> HIDE DEF full
        <4> QED  BY <3>2
      <3> QED  BY <1>4, <3>2, <3>3
    <2>4. full = WithChecksum(blank, at, ck)
      BY <2>2 DEF WithChecksum
    <2> HIDE DEF full
    <2> QED  BY <1>4, <2>2, <2>3, <2>4, Zenon DEF IsFilled
  <1>6. PICK sum : sum = Start(type, n) + PairSum(blank)
    OBVIOUS
  <1>7. PairSum(blank) \in Nat
    <2>1. IsFilled(blank, WithChecksum(blank, at, 0), at, 0)
      BY <1>5
    <2>2. at \in Nat /\ at < Len(blank) /\ 0 \in Nat
      BY <1>1, <1>4
    <2> QED  BY <2>1, <2>2, FilledSum, Zenon
  <1>8. sum \in Nat
    BY <1>2, <1>6, <1>7
  <1>9. PICK d \in Nat : d = Word - 1
    BY WordIs
  <1>10. PICK ck \in Nat : ck = d - fold[sum]
    <2>1. fold[sum] \in 0 .. d
      BY <1>8, <1>9, AllOnes, Zenon
    <2> QED  BY <2>1
  <1>11. fill_checksum(blank, type) = ck
    BY <1>4, <1>6, <1>9, <1>10 DEF fill_checksum
  <1>12. PICK full : full = WithChecksum(blank, at, ck)
    OBVIOUS
  <1>13. Len(full) = n /\ PairSum(full) = PairSum(blank) + ck
    <2>1. IsFilled(blank, full, at, ck)
      BY <1>5, <1>12
    <2>2. at \in Nat /\ at < Len(blank)
      BY <1>1, <1>4
    <2>3. PairSum(full) = PairSum(blank) + ck
      BY <2>1, <2>2, FilledSum, Zenon
    <2> QED  BY <1>4, <2>1, <2>3 DEF IsFilled
  <1>14. PICK all \in Nat : all = sum + ck /\ all = Start(type, n) + PairSum(full)
    <2>1. PICK a \in Nat, b \in Nat : a = Start(type, n) /\ b = PairSum(blank)
      BY <1>2, <1>7
    <2>2. sum = a + b /\ PairSum(full) = b + ck
      BY <1>6, <1>13, <2>1, Zenon
    <2>3. sum + ck = a + (b + ck) /\ sum + ck \in Nat
      BY <2>2
    <2> QED  BY <2>1, <2>2, <2>3, Zenon
  <1>15. fold[all] = d
    <2>1. \E q \in Nat : all = d * q + d
      <3>1. \E q \in Nat : sum + (d - fold[sum]) = d * q + d
        BY <1>8, <1>9, AllOnes, Zenon
      <3> QED  BY <1>10, <1>14, <3>1, Zenon
    <2> QED  BY <1>9, <2>1, AllOnes, Zenon
  <1> QED  BY <1>9, <1>11, <1>12, <1>13, <1>14, <1>15 DEF Verifies

\* The checksum fill_checksum puts into a packet verifies.
LEMMA ChecksumsVerify == ChecksumVerifies
  <1> SUFFICES ASSUME NEW bytes \in Messages, NEW type \in 0 .. 2,
                      NEW at \in 1 .. Len(bytes) - 1, at % 2 = 1
               PROVE  LET blank == WithChecksum(bytes, at, 0)
                      IN Verifies(WithChecksum(blank, at, fill_checksum(blank, type)), type)
    BY DEF ChecksumVerifies
  <1>1. bytes \in Seq(Nat)
    <2>1. PICK n \in 2 .. MaxMessage : bytes \in [1 .. n -> SampleBytes]
      BY DEF Messages
    <2>2. n \in Nat /\ SampleBytes \subseteq Nat
      BY PacketsAssumption
    <2>3. bytes \in [1 .. n -> Nat]
      BY <2>1, <2>2
    <2> QED  BY <2>2, <2>3
  <1> QED  BY <1>1, ChecksumWorks
\* A message of six bytes, as the samples of pings are.
Six(a, b, c, d, e, f) == Byte * a + b + Byte * c + d + Byte * e + f
IsSix(bytes, a, b, c, d, e, f) == {a, b, c, d, e, f} \subseteq Nat /\ bytes = <<a, b, c, d, e, f>>
LEMMA SumOfSix ==
  ASSUME NEW a, NEW b, NEW c, NEW d, NEW e, NEW f, NEW bytes, IsSix(bytes, a, b, c, d, e, f)
  PROVE  /\ bytes \in Seq(Nat) /\ Len(bytes) = 6
         /\ PairSum(bytes) = Six(a, b, c, d, e, f)
         /\ PairSum(bytes) \in Nat
  <1> a \in Nat /\ b \in Nat /\ c \in Nat /\ d \in Nat /\ e \in Nat /\ f \in Nat
    BY DEF IsSix
  <1>0. /\ bytes \in Seq(Nat) /\ Len(bytes) = 6 /\ bytes[1] = a /\ bytes[2] = b /\ bytes[3] = c
        /\ bytes[4] = d /\ bytes[5] = e /\ bytes[6] = f
    BY DEF IsSix
  <1>1. PICK w : w = Terms(bytes)
    OBVIOUS
  <1>2. PICK g : IsSum(g, 6, w) /\ PairSum(bytes) = g[6]
    BY <1>0, <1>1, PairSumIs
  <1>3. \A k \in 1 .. 6 : w[k] = (IF k % 2 = 1 THEN Byte ELSE 1) * bytes[k]
    BY <1>0, <1>1 DEF Terms
  <1>4. /\ 1 % 2 = 1 /\ ~(2 % 2 = 1) /\ 3 % 2 = 1 /\ ~(4 % 2 = 1) /\ 5 % 2 = 1 /\ ~(6 % 2 = 1)
        /\ 1 \in 1 .. 6 /\ 2 \in 1 .. 6 /\ 3 \in 1 .. 6 /\ 4 \in 1 .. 6 /\ 5 \in 1 .. 6 /\ 6 \in 1 .. 6
    OBVIOUS
  <1>5. /\ w[1] = Byte * a /\ w[3] = Byte * c /\ w[5] = Byte * e
        /\ w[2] = 1 * b /\ w[4] = 1 * d /\ w[6] = 1 * f
    BY <1>0, <1>3, <1>4, Zenon
  <1>6. PICK x \in Nat, y \in Nat, z \in Nat : x = Byte * a /\ y = Byte * c /\ z = Byte * e
    <2>1. \A k \in Nat : Byte * k \in Nat
      BY WordIs
    <2> QED  BY <2>1
  <1>7. w[1] = x /\ w[2] = b /\ w[3] = y /\ w[4] = d /\ w[5] = z /\ w[6] = f
    <2>1. \A k \in Nat : 1 * k = k
      OBVIOUS
    <2> QED  BY <1>5, <1>6, <2>1, Zenon
  <1>8. /\ g[0] = 0 /\ g[1] = g[0] + x /\ g[2] = g[1] + b /\ g[3] = g[2] + y
        /\ g[4] = g[3] + d /\ g[5] = g[4] + z /\ g[6] = g[5] + f
    <2>1. g[0] = 0 /\ \A k \in 1 .. 6 : g[k] = g[k - 1] + w[k]
      BY <1>2 DEF IsSum
    <2>2. 1 - 1 = 0 /\ 2 - 1 = 1 /\ 3 - 1 = 2 /\ 4 - 1 = 3 /\ 5 - 1 = 4 /\ 6 - 1 = 5
      OBVIOUS
    <2> QED  BY <1>4, <1>7, <2>1, <2>2, Zenon
  <1>9. g[6] = x + b + y + d + z + f /\ g[6] \in Nat
    BY <1>8
  <1> QED  BY <1>0, <1>2, <1>6, <1>9, Zenon DEF Six

\* A ping's checksum verifies, and its bytes say how the reply's sum differs.
IsEcho(r, r0, id, b) ==
  /\ id \in 0 .. 255 /\ b \in 0 .. 255
  /\ r0 = <<8, 0, 0, 0, id, b>> /\ r = WithChecksum(r0, 3, fill_checksum(r0, 0))
LEMMA EchoReply ==
  ASSUME NEW id \in Nat, NEW b \in Nat, NEW r0, NEW r, IsEcho(r, r0, id, b)
  PROVE  Verifies(make_echo_reply_from_request(r), 0) <=> ~(r[3] > 255 - 8 /\ r[4] = 255)
  <1>0. r0 = <<8, 0, 0, 0, id, b>> /\ r = WithChecksum(r0, 3, fill_checksum(r0, 0))
    BY DEF IsEcho
  <1>1. PICK d \in Nat : d = Word - 1 /\ d > Byte /\ Byte \in 256 .. 256
    BY DEF Word, Byte
  <1>2. r0 \in Seq(Nat) /\ Len(r0) = 6 /\ PairSum(r0) \in Nat
    <2>1. IsSix(r0, 8, 0, 0, 0, id, b)
      BY <1>0 DEF IsSix
    <2> QED  BY <2>1, SumOfSix, Zenon
  <1>3. \A bytes \in Seq(Nat) : Verifies(bytes, 0) <=> fold[PairSum(bytes)] = d
    <2>1. Start(0, 6) = 0 /\ \A n \in Nat : Start(0, n) = 0
      BY DEF Start
    <2> SUFFICES ASSUME NEW bytes \in Seq(Nat)  PROVE Verifies(bytes, 0) <=> fold[PairSum(bytes)] = d
      OBVIOUS
    <2>2. PICK g : IsSum(g, Len(bytes), Terms(bytes)) /\ PairSum(bytes) = g[Len(bytes)]
      BY PairSumIs
    <2>3. PairSum(bytes) \in Nat
      BY <2>2 DEF IsSum
    <2>4. 0 + PairSum(bytes) = PairSum(bytes)
      BY <2>3
    <2>5. Start(0, Len(bytes)) = 0
      BY <2>1
    <2> QED  BY <1>1, <2>4, <2>5, Zenon DEF Verifies
  <1>4. PICK ck \in 0 .. d : ck = fill_checksum(r0, 0) /\ ck = d - fold[PairSum(r0)]
    <2>1. fold[PairSum(r0)] \in 0 .. d
      BY <1>1, <1>2, AllOnes, Zenon
    <2>2. Start(0, 6) + PairSum(r0) = PairSum(r0)
      BY <1>2 DEF Start
    <2>3. fill_checksum(r0, 0) = d - fold[PairSum(r0)]
      BY <1>1, <1>2, <2>2, Zenon DEF fill_checksum
    <2> QED  BY <2>1, <2>3
  <1>5. PICK x \in 0 .. Byte - 1, y \in 0 .. Byte - 1 : x = ck \div Byte /\ y = ck % Byte /\ ck = Byte * x + y
    <2>1. /\ ck \div Byte \in Nat /\ ck % Byte \in 0 .. Byte - 1
          /\ ck = Byte * (ck \div Byte) + (ck % Byte)
      BY Divided, WordIs
    <2>2. PICK x \in Nat, y \in 0 .. Byte - 1 : x = ck \div Byte /\ y = ck % Byte /\ ck = Byte * x + y
      BY <2>1, Zenon
    <2>3. x < Byte
      <3> SUFFICES ASSUME x >= Byte  PROVE FALSE
        BY WordIs
      <3>1. Byte * x >= Byte * Byte
        BY WordIs
      <3> QED  BY <1>1, <2>2, <3>1, WordIs
    <2>4. x \in 0 .. Byte - 1
      BY <2>3, WordIs
    <2> QED  BY <2>2, <2>4, Zenon
  <1>6. r = <<8, 0, x, y, id, b>>
    <2>1. r = [r0 EXCEPT ![3] = x, ![3 + 1] = y]
      BY <1>0, <1>4, <1>5, Zenon DEF WithChecksum
    <2>2. PICK t : t = <<8, 0, 0, 0, id, b>>
      OBVIOUS
    <2>3. [t EXCEPT ![3] = x, ![3 + 1] = y] = <<8, 0, x, y, id, b>>
      BY <2>2
    <2> QED  BY <1>0, <2>1, <2>2, <2>3, Zenon
  <1>7. PICK sum \in Nat : /\ sum = Byte * 8 + Byte * x + y + Byte * id + b
                           /\ \E q \in Nat : sum = d * q + d
    <2>1. IsSix(r, 8, 0, x, y, id, b)
      BY <1>6, WordIs DEF IsSix
    <2>2. r \in Seq(Nat) /\ PairSum(r) \in Nat /\ PairSum(r) = Six(8, 0, x, y, id, b)
      BY <2>1, SumOfSix, Zenon
    <2>3. Six(8, 0, x, y, id, b) = Byte * 8 + Byte * x + y + Byte * id + b
      BY WordIs DEF Six
    <2>4. Verifies(r, 0)
      <3>1. r0 = WithChecksum(r0, 3, 0)
        <4>1. 0 \div Byte = 0 /\ 0 % Byte = 0
          BY WordIs
        <4>2. PICK t : t = <<8, 0, 0, 0, id, b>>
          OBVIOUS
        <4>3. t = [t EXCEPT ![3] = 0, ![3 + 1] = 0]
          BY <4>2
        <4> QED  BY <1>0, <4>1, <4>2, <4>3, Zenon DEF WithChecksum
      <3>2. 3 \in 1 .. Len(r0) - 1 /\ 3 % 2 = 1 /\ 0 \in 0 .. 2
        BY <1>2
      <3> QED  BY <1>0, <1>2, <3>1, <3>2, ChecksumWorks, Zenon
    <2>5. fold[PairSum(r)] = d
      BY <1>3, <2>2, <2>4
    <2>6. \E q \in Nat : PairSum(r) = d * q + d
      BY <1>1, <2>2, <2>5, AllOnes, Zenon
    <2> QED  BY <2>2, <2>3, <2>6, Zenon
  <1>8. PICK q \in Nat : sum = d * q + d
    BY <1>7
  <1> DEFINE s == make_echo_reply_from_request(r)
  <1>9. ASSUME NEW u \in Nat, NEW v \in Nat, s = <<0, 0, u, v, id, b>>
        PROVE  /\ Six(0, 0, u, v, id, b) \in Nat
               /\ Verifies(s, 0) <=> \E k \in Nat : Six(0, 0, u, v, id, b) = d * k + d
    <2> HIDE DEF s
    <2>a. {0, 0, u, v, id, b} \subseteq Nat
      OBVIOUS
    <2>1. IsSix(s, 0, 0, u, v, id, b)
      BY <1>9, <2>a, Zenon DEF IsSix
    <2>2. s \in Seq(Nat) /\ PairSum(s) \in Nat /\ PairSum(s) = Six(0, 0, u, v, id, b)
      BY <2>1, SumOfSix, Zenon
    <2>5. fold[PairSum(s)] = d <=> \E k \in Nat : PairSum(s) = d * k + d
      <3>1. PICK p \in Nat : p = PairSum(s)
        BY <2>2, Zenon
      <3>2. fold[p] = d <=> \E k \in Nat : p = d * k + d
        BY <1>1, AllOnes, Zenon
      <3> QED  BY <3>1, <3>2, Zenon
    <2>6. Verifies(s, 0) <=> fold[PairSum(s)] = d
      BY <1>3, <2>2, Zenon
    <2>7. Verifies(s, 0) <=> \E k \in Nat : PairSum(s) = d * k + d
      BY <2>5, <2>6, Zenon
    <2> QED  BY <2>2, <2>7, Zenon
  <1>10. CASE x <= 255 - 8
    <2>1. s = <<0, 0, x + 8, y, id, b>> /\ x + 8 \in Nat
      BY <1>1, <1>6, <1>10 DEF make_echo_reply_from_request
    <2>2. Six(0, 0, x + 8, y, id, b) = sum
      BY <1>7, WordIs DEF Six
    <2>3. Verifies(s, 0)
      <3>1. y \in Nat
        BY WordIs
      <3> QED  BY <1>8, <1>9, <2>1, <2>2, <3>1, Zenon
    <2> QED  BY <1>6, <1>10, <2>3
  <1>11. CASE x > 255 - 8 /\ y # 255
    <2>1. s = <<0, 0, x - 248, y + 1, id, b>> /\ x - 248 \in Nat /\ y + 1 \in Nat /\ y + 1 > 0
      BY <1>1, <1>6, <1>11 DEF make_echo_reply_from_request
    <2>2. Six(0, 0, x - 248, y + 1, id, b) = sum - d
      BY <1>1, <1>7, WordIs DEF Six
    <2>3. Six(0, 0, x - 248, y + 1, id, b) > 0
      BY <1>1, <2>1 DEF Six
    <2>4. q # 0
      BY <1>8, <2>2, <2>3
    <2>5. sum - d = d * (q - 1) + d /\ q - 1 \in Nat
      BY <1>8, <2>4
    <2>6. Verifies(s, 0)
      <3> HIDE DEF s
      <3>1. Verifies(s, 0) <=> \E k \in Nat : Six(0, 0, x - 248, y + 1, id, b) = d * k + d
        BY <1>9, <2>1, Zenon
      <3>2. \E k \in Nat : sum - d = d * k + d
        BY <2>5, Zenon
      <3> QED  BY <2>2, <3>1, <3>2, Zenon
    <2> QED  BY <1>6, <1>11, <2>6
  <1>12. CASE x > 255 - 8 /\ y = 255
    <2>1. PICK u \in Nat, v \in Nat : u = x - 248 /\ v = 0 /\ s = <<0, 0, u, v, id, b>>
      BY <1>1, <1>6, <1>12 DEF make_echo_reply_from_request
    <2>2. Six(0, 0, u, v, id, b) = sum - d - Byte
      BY <1>1, <1>7, <1>12, <2>1, WordIs DEF Six
    <2>3. ASSUME NEW k \in Nat, sum - d - Byte = d * k + d  PROVE FALSE
      <3>1. d * (k + 1) + Byte = d * q + 0
        BY <1>1, <1>8, <2>3
      <3>2. Byte = 0
        BY <1>1, <3>1, OneRemainder
      <3> QED  BY <1>1, <3>2
    <2>4. ~Verifies(s, 0)
      <3> HIDE DEF s
      <3>1. Verifies(s, 0) <=> \E k \in Nat : Six(0, 0, u, v, id, b) = d * k + d
        <4>1. s = <<0, 0, u, v, id, b>>
          BY <2>1
        <4> QED  BY <1>9, <4>1, Zenon
      <3>2. ~\E k \in Nat : Six(0, 0, u, v, id, b) = d * k + d
        BY <2>2, <2>3
      <3> QED  BY <3>1, <3>2, Zenon
    <2> QED  BY <1>6, <1>12, <2>4
  <1> QED  BY <1>10, <1>11, <1>12

LEMMA EchoRepliesVerify == EchoReplyVerifies
  <1> SUFFICES ASSUME NEW r \in EchoRequests
               PROVE  Verifies(make_echo_reply_from_request(r), 0) <=> ~(r[3] > 255 - 8 /\ r[4] = 255)
    BY DEF EchoReplyVerifies
  <1>1. PICK r0 \in {8} \X {0} \X {0} \X {0} \X (0 .. 255) \X SampleBytes :
          r = WithChecksum(r0, 3, fill_checksum(r0, 0))
    BY DEF EchoRequests
  <1>2. PICK id \in 0 .. 255, b \in SampleBytes : r0 = <<8, 0, 0, 0, id, b>>
    OBVIOUS
  <1>3. b \in 0 .. 255
    BY PacketsAssumption
  <1>4. id \in Nat /\ b \in Nat /\ IsEcho(r, r0, id, b)
    BY <1>1, <1>2, <1>3 DEF IsEcho
  <1> QED  BY <1>4, EchoReply

\* What division with a remainder gives of a sum made that way.
IsDivision(s, d, q, r) ==
  /\ s \in Nat /\ d \in Nat /\ d > 0 /\ q \in Nat /\ r \in 0 .. d - 1
  /\ s = d * q + r
LEMMA Quotients ==
  ASSUME NEW s, NEW d, NEW q, NEW r, IsDivision(s, d, q, r)
  PROVE  s \div d = q /\ s % d = r
  <1>0. d \in Nat /\ d > 0 /\ q \in Nat /\ r \in 0 .. d - 1
    BY DEF IsDivision
  <1>1. PICK t \in Nat : t = s /\ t = d * q + r
    BY Zenon DEF IsDivision
  <1>2. t \div d \in Nat /\ t % d \in 0 .. d - 1 /\ t = d * (t \div d) + (t % d)
    BY <1>0, Divided, Zenon
  <1>3. PICK k \in Nat, e \in 0 .. d - 1 : k = t \div d /\ e = t % d /\ t = d * k + e
    BY <1>2, Zenon
  <1>4. d * q + r = d * k + e
    BY <1>1, <1>3, Zenon
  <1>5. q = k /\ r = e
    BY <1>0, <1>4, OneRemainder
  <1> QED  BY <1>1, <1>3, <1>5, Zenon

\* The two bytes of a number of sixteen bits.
LEMMA HighAndLow ==
  ASSUME NEW x \in Nat, x < Word
  PROVE  \E q \in 0 .. Byte - 1, m \in 0 .. Byte - 1 : q = x \div Byte /\ m = x % Byte /\ x = Byte * q + m
  <1>1. x \div Byte \in Nat /\ x % Byte \in 0 .. Byte - 1 /\ x = Byte * (x \div Byte) + (x % Byte)
    BY Divided, WordIs
  <1>2. PICK q \in Nat, m \in 0 .. Byte - 1 : q = x \div Byte /\ m = x % Byte /\ x = Byte * q + m
    BY <1>1, Zenon
  <1>3. x = Byte * q + m
    BY <1>2
  <1>4. q < Byte
    <2> SUFFICES ASSUME q >= Byte  PROVE FALSE
      BY WordIs
    <2>1. Byte * q >= Byte * Byte
      BY WordIs
    <2> QED  BY <1>3, <2>1, WordIs
  <1>5. q \in 0 .. Byte - 1
    BY <1>4, WordIs
  <1> QED  BY <1>2, <1>5, Zenon

\* What is carried into a byte does not overflow with it.
LEMMA NoOverflow ==
  ASSUME NEW q \in 0 .. Byte - 1, NEW x \in 0 .. Byte - 1
  PROVE  StepByte(q, x) = q + x /\ q + x \in Nat /\ q + x < Word
  <1>1. q + x \in Nat /\ q + x < Byte + Byte
    BY WordIs
  <1>2. Byte + Byte <= Word
    <2>1. Byte * 2 <= Byte * Byte
      BY WordIs
    <2> QED  BY <2>1, WordIs
  <1>3. PICK w \in Nat, t \in Nat : w = Word /\ t = q + x /\ t < w
    BY <1>1, <1>2, WordIs
  <1>4. t % w = t
    BY <1>3
  <1> QED  BY <1>3, <1>4, Zenon DEF StepByte

\* step_seq adds rel to a number of four bytes.
LEMMA StepSeqWorks ==
  ASSUME NEW seq \in (0 .. Byte - 1) \X (0 .. Byte - 1) \X (0 .. Byte - 1) \X (0 .. Byte - 1),
         NEW rel \in Nat, rel + seq[4] < Word, NEW cp
  PROVE  LET ack == step_seq(seq, seq, rel, cp).ack
             sum == Low(seq) + rel
         IN /\ Low(ack) = sum % (Byte * Word)
            /\ ack[1] = (seq[1] + (sum \div (Byte * Word))) % Byte
  <1>0. PICK top \in 0 .. Byte - 1, b \in 0 .. Byte - 1, c \in 0 .. Byte - 1, d \in 0 .. Byte - 1 :
          seq = <<top, b, c, d>>
    OBVIOUS
  <1>a. seq[1] = top /\ seq[2] = b /\ seq[3] = c /\ seq[4] = d
    BY <1>0
  <1>b. rel + d < Word
    BY <1>a
  <1>1. StepByte(rel, d) = rel + d /\ rel + d \in Nat
    <2>1. PICK w \in Nat, t \in Nat : w = Word /\ t = rel + d /\ t < w
      BY <1>b, WordIs
    <2>2. t % w = t
      BY <2>1
    <2> QED  BY <2>1, <2>2, Zenon DEF StepByte
  <1>2. PICK q4 \in 0 .. Byte - 1, m4 \in 0 .. Byte - 1 :
          q4 = (rel + d) \div Byte /\ m4 = (rel + d) % Byte /\ rel + d = Byte * q4 + m4
    BY <1>1, <1>b, HighAndLow, Zenon
  <1>3. PICK q3 \in 0 .. Byte - 1, m3 \in 0 .. Byte - 1 :
          q3 = (q4 + c) \div Byte /\ m3 = (q4 + c) % Byte /\ q4 + c = Byte * q3 + m3
    BY NoOverflow, HighAndLow, Zenon
  <1>4. PICK q2 \in 0 .. Byte - 1, m2 \in 0 .. Byte - 1 :
          q2 = (q3 + b) \div Byte /\ m2 = (q3 + b) % Byte /\ q3 + b = Byte * q2 + m2
    BY NoOverflow, HighAndLow, Zenon
  <1>5. PICK ack : ack = <<(q2 + top) % Byte, m2, m3, m4>>
    OBVIOUS
  <1>6. step_seq(seq, seq, rel, cp).ack = ack
    <2>2. StepByte(q4, c) = q4 + c /\ StepByte(q3, b) = q3 + b /\ StepByte(q2, top) = q2 + top
      BY NoOverflow, Zenon
    <2>3. step_seq(seq, seq, rel, cp).ack =
            <<StepByte(StepByte(StepByte(StepByte(rel, d) \div Byte, c) \div Byte, b) \div Byte, top) % Byte,
              StepByte(StepByte(StepByte(rel, d) \div Byte, c) \div Byte, b) % Byte,
              StepByte(StepByte(rel, d) \div Byte, c) % Byte, StepByte(rel, d) % Byte>>
      BY <1>a, Zenon DEF step_seq
    <2> QED  BY <1>1, <1>2, <1>3, <1>4, <1>5, <2>2, <2>3, Zenon
  <1>7. Low(ack) = Word * m2 + Byte * m3 + m4 /\ Low(seq) = Word * b + Byte * c + d
    BY <1>5, <1>a DEF Low
  <1>8. PICK low \in Nat : low = Word * m2 + Byte * m3 + m4 /\ low < Byte * Word
    <2>1. Word * m2 \in Nat /\ Byte * m3 \in Nat
      BY WordIs
    <2>2. Byte * m3 <= Byte * (Byte - 1) /\ Word * m2 <= Word * (Byte - 1)
      BY WordIs
    <2>3. Byte * (Byte - 1) = Word - Byte /\ Word * (Byte - 1) = Byte * Word - Word
      BY WordIs
    <2>4. PICK u \in Nat, v \in Nat, z \in Nat : u = Word * m2 /\ v = Byte * m3 /\ z = Byte * Word
      BY <2>1, WordIs
    <2>5. u <= z - Word /\ v <= Word - Byte /\ m4 < Byte
      BY <2>2, <2>3, <2>4, WordIs
    <2>6. u + v + m4 \in Nat /\ u + v + m4 < z
      BY <2>5, WordIs
    <2> QED  BY <2>4, <2>6, Zenon
  <1>9. Low(seq) + rel = (Byte * Word) * q2 + low
    <2>1. rel + d = Byte * q4 + m4 /\ q4 + c = Byte * q3 + m3 /\ q3 + b = Byte * q2 + m2
      BY <1>2, <1>3, <1>4
    <2>2. d = Byte * q4 + m4 - rel /\ c = Byte * q3 + m3 - q4 /\ b = Byte * q2 + m2 - q3
      BY <2>1, WordIs
    <2>3. Byte * c = Word * q3 + Byte * m3 - Byte * q4
      BY <2>2, WordIs
    <2>4. Word * b = (Byte * Word) * q2 + Word * m2 - Word * q3
      BY <2>2, WordIs
    <2> QED  BY <1>7, <1>8, <2>2, <2>3, <2>4, WordIs
  <1>10. PICK n \in Nat, s \in Nat : n = Byte * Word /\ n > 0 /\ s = Low(seq) + rel /\ s = n * q2 + low /\ low \in 0 .. n - 1
    <2>1. Byte * Word \in Nat /\ Byte * Word > 0
      BY WordIs
    <2>2. (Byte * Word) * q2 \in Nat
      BY <2>1
    <2>3. Low(seq) + rel \in Nat
      BY <1>9, <2>2
    <2> QED  BY <1>8, <1>9, <2>1, <2>3
  <1>11. s \div n = q2 /\ s % n = low
    <2>1. q2 \in Nat
      BY WordIs
    <2>2. n > 0 /\ s = n * q2 + low /\ low \in 0 .. n - 1
      BY <1>10, Zenon
    <2>3. IsDivision(s, n, q2, low)
      BY <2>1, <2>2, Zenon DEF IsDivision
    <2> QED  BY <2>3, Quotients, Zenon
  <1>12. ack[1] = (top + q2) % Byte
    <2>1. q2 + top = top + q2
      BY WordIs
    <2>2. ack[1] = (q2 + top) % Byte
      BY <1>5
    <2> QED  BY <2>1, <2>2
  <1> QED  BY <1>6, <1>7, <1>8, <1>10, <1>11, <1>12, <1>a, Zenon

LEMMA StepSeqsAdd == StepSeqAdds
  <1>1. SampleBytes \subseteq 0 .. Byte - 1
    BY PacketsAssumption DEF Byte
  <1>2. Rels \subseteq Nat
    <2>1. Word \in Nat /\ Word >= 256
      BY DEF Word, Byte
    <2>2. Word - 256 \in Nat /\ Word - 255 \in Nat /\ Word - 1 \in Nat
      BY <2>1
    <2>3. {0, 1, 4, 550, 1460} \subseteq Nat
      OBVIOUS
    <2>4. Rels = {0, 1, 4, 550, 1460} \cup {Word - 256, Word - 255, Word - 1}
      BY DEF Rels
    <2> QED  BY <2>2, <2>3, <2>4
  <1>3. ASSUME NEW top \in SampleBytes, NEW b \in SampleBytes, NEW c \in SampleBytes,
               NEW d \in SampleBytes, NEW rel \in Rels, rel + d < Word
        PROVE  LET seq == <<top, b, c, d>>
                   ack == step_seq(seq, seq, rel, TRUE).ack
                   sum == Low(seq) + rel
               IN /\ Low(ack) = sum % (Byte * Word)
                  /\ ack[1] = (top + (sum \div (Byte * Word))) % Byte
    <2>1. /\ top \in 0 .. Byte - 1 /\ b \in 0 .. Byte - 1 /\ c \in 0 .. Byte - 1
          /\ d \in 0 .. Byte - 1 /\ rel \in Nat
      BY <1>1, <1>2, Zenon
    <2>2. PICK seq : seq = <<top, b, c, d>>
      OBVIOUS
    <2>4. /\ seq \in (0 .. Byte - 1) \X (0 .. Byte - 1) \X (0 .. Byte - 1) \X (0 .. Byte - 1)
          /\ seq[1] = top /\ seq[4] = d
      BY <2>1, <2>2
    <2>3. /\ Low(step_seq(seq, seq, rel, TRUE).ack) = (Low(seq) + rel) % (Byte * Word)
          /\ step_seq(seq, seq, rel, TRUE).ack[1] = (top + ((Low(seq) + rel) \div (Byte * Word))) % Byte
      BY <1>3, <2>1, <2>4, StepSeqWorks, Zenon
    <2> QED  BY <2>2, <2>3, Zenon
  <1> QED  BY <1>3, Zenon DEF StepSeqAdds

\* Checksums verify, of packets of any length and of replies to pings, and the
\* numbers of an answer are added right, in every state of the servers.
THEOREM NumbersAlwaysAddUp == ServersSpec => []NumbersAddUp
  <1>1. NumbersAddUp
    BY ChecksumsVerify, EchoRepliesVerify, StepSeqsAdd DEF NumbersAddUp
  <1> QED  BY <1>1, PTL

----------------------------------------------------------------------------
(* The body of an answer.                                                  *)

\* s is a, b and c one after the other.
Joined(s, a, b, c) ==
  /\ Len(s) = Len(a) + Len(b) + Len(c)
  /\ \A n \in 1 .. Len(a) : s[n] = a[n]
  /\ \A n \in 1 .. Len(b) : s[Len(a) + n] = b[n]
  /\ \A n \in 1 .. Len(c) : s[Len(a) + Len(b) + n] = c[n]

LEMMA ThreeParts ==
  ASSUME NEW S, NEW a \in Seq(S), NEW b \in Seq(S), NEW c \in Seq(S)
  PROVE  a \o b \o c \in Seq(S) /\ Joined(a \o b \o c, a, b, c)
  <1> DEFINE d == a \o b
  <1>1. /\ d \in Seq(S) /\ Len(d) = Len(a) + Len(b)
        /\ \A x \in 1 .. Len(a) + Len(b) : d[x] = IF x <= Len(a) THEN a[x] ELSE b[x - Len(a)]
    BY ConcatProperties
  <1> HIDE DEF d
  <1>2. /\ d \o c \in Seq(S) /\ Len(d \o c) = Len(d) + Len(c)
        /\ \A x \in 1 .. Len(d) + Len(c) : (d \o c)[x] = IF x <= Len(d) THEN d[x] ELSE c[x - Len(d)]
    <2>1. d \in Seq(S)
      BY <1>1
    <2> QED  BY <2>1, ConcatProperties
  <1>3. \A n \in 1 .. Len(a) : (d \o c)[n] = a[n]
    BY <1>1, <1>2
  <1>4. \A n \in 1 .. Len(b) : (d \o c)[Len(a) + n] = b[n]
    BY <1>1, <1>2
  <1>5. \A n \in 1 .. Len(c) : (d \o c)[Len(a) + Len(b) + n] = c[n]
    BY <1>1, <1>2
  <1> QED  BY <1>1, <1>2, <1>3, <1>4, <1>5 DEF d, Joined

\* What the search rests on of all that comes before the body: where its blank
\* line is, and that a space is only between the status and its text.
IsHead(pre, h, status) ==
  /\ pre[h - 3] = Cr /\ pre[h - 2] = Lf /\ pre[h - 1] = Cr /\ pre[h] = Lf
  /\ \A k \in 1 .. (h - 4) : pre[k] # Cr \/ pre[k + 2] # Cr
  /\ \A k \in 1 .. h : pre[k] = Space => k = 4
  /\ IF status = Ok200 THEN \A x \in 1 .. 6 : pre[x] = Ok200[x] ELSE pre[1] # Ok200[1]

LEMMA HeadOfAnswer ==
  ASSUME NEW status \in Statuses, NEW header \in Headers
  PROVE  /\ status \o header \o Blank \in Seq(Nat)
         /\ Len(status \o header \o Blank) \in 9 .. 13
         /\ IsHead(status \o header \o Blank, Len(status \o header \o Blank), status)
  <1> DEFINE pre == status \o header \o Blank
  <1>1. /\ status \in Seq(Nat) /\ status[1] \in Nat /\ status[2] = 48 /\ status[4] = 32
        /\ \/ /\ status = Ok200 /\ Len(status) = 6
              /\ status[1] = 50 /\ status[3] = 48 /\ status[5] = 79 /\ status[6] = 75
           \/ /\ status # Ok200 /\ Len(status) = 5
              /\ status[1] = 52 /\ status[3] = 52 /\ status[5] = 78
    <2>1. Ok200 # <<52, 48, 52, Space, 78>>
      <3>1. Ok200[1] = 50 /\ <<52, 48, 52, Space, 78>>[1] = 52
        BY DEF Ok200
      <3> QED
        BY <3>1
    <2>2. CASE status = Ok200
      BY <2>2 DEF Ok200, Space
    <2>3. CASE status = <<52, 48, 52, Space, 78>>
      BY <2>1, <2>3 DEF Space
    <2> QED
      BY <2>2, <2>3 DEF Statuses
  <1>2. /\ header \in Seq(Nat)
        /\ \/ Len(header) = 0
           \/ Len(header) = 3 /\ header[1] = 13 /\ header[2] = 10 /\ header[3] = 65
    <2>1. CASE header = <<>>
      BY <2>1
    <2>2. CASE header = <<Cr, Lf, 65>>
      BY <2>2 DEF Cr, Lf
    <2> QED
      BY <2>1, <2>2 DEF Headers
  <1>3. /\ Blank \in Seq(Nat) /\ Len(Blank) = 4
        /\ Blank[1] = 13 /\ Blank[2] = 10 /\ Blank[3] = 13 /\ Blank[4] = 10
    BY DEF Blank, Cr, Lf
  <1>4. /\ pre \in Seq(Nat) /\ Len(pre) = Len(status) + Len(header) + 4
        /\ \A n \in 1 .. Len(status) : pre[n] = status[n]
        /\ \A n \in 1 .. Len(header) : pre[Len(status) + n] = header[n]
        /\ \A n \in 1 .. 4 : pre[Len(status) + Len(header) + n] = Blank[n]
    <2>1. status \in Seq(Nat) /\ header \in Seq(Nat) /\ Blank \in Seq(Nat) /\ Len(Blank) = 4
      BY <1>1, <1>2, <1>3
    <2>2. pre \in Seq(Nat) /\ Joined(pre, status, header, Blank)
      BY <2>1, ThreeParts
    <2> HIDE DEF pre
    <2> QED
      BY <2>1, <2>2 DEF Joined
  <1> SUFFICES pre \in Seq(Nat) /\ Len(pre) \in 9 .. 13 /\ IsHead(pre, Len(pre), status)
    OBVIOUS
  <1> HIDE DEF pre
  <1>5. CASE Len(status) = 6 /\ Len(header) = 0
    <2>1. Len(pre) = 10
      BY <1>4, <1>5
    <2>2. pre[1] = 50 /\ pre[2] = 48 /\ pre[3] = 48 /\ pre[4] = 32 /\ pre[5] = 79 /\ pre[6] = 75
      BY <1>1, <1>4, <1>5
    <2>4. pre[7] = 13 /\ pre[8] = 10 /\ pre[9] = 13 /\ pre[10] = 10
      BY <1>3, <1>4, <1>5
    <2>5. \A k \in 1 .. (10 - 4) : pre[k] # 13 \/ pre[k + 2] # 13
      BY <2>2, <2>4
    <2>6. \A k \in 1 .. 10 : pre[k] = 32 => k = 4
      BY <2>2, <2>4
    <2>7. \A x \in 1 .. 6 : pre[x] = Ok200[x]
      BY <1>1, <1>5, <2>2 DEF Ok200, Space
    <2>8. status = Ok200
      BY <1>1, <1>5
    <2>9. IsHead(pre, 10, status)
      BY <2>4, <2>5, <2>6, <2>7, <2>8 DEF IsHead, Cr, Lf, Space
    <2>10. IsHead(pre, Len(pre), status)
      BY <2>1, <2>9, Zenon
    <2>11. pre \in Seq(Nat)
      BY <1>4
    <2>12. Len(pre) \in 9 .. 13
      BY <2>1
    <2> QED
      BY <2>10, <2>11, <2>12, Zenon
  <1>6. CASE Len(status) = 6 /\ Len(header) = 3
    <2>1. Len(pre) = 13
      BY <1>4, <1>6
    <2>2. pre[1] = 50 /\ pre[2] = 48 /\ pre[3] = 48 /\ pre[4] = 32 /\ pre[5] = 79 /\ pre[6] = 75
      BY <1>1, <1>4, <1>6
    <2>3. pre[7] = 13 /\ pre[8] = 10 /\ pre[9] = 65
      BY <1>1, <1>2, <1>4, <1>6
    <2>4. pre[10] = 13 /\ pre[11] = 10 /\ pre[12] = 13 /\ pre[13] = 10
      BY <1>3, <1>4, <1>6
    <2>5. \A k \in 1 .. (13 - 4) : pre[k] # 13 \/ pre[k + 2] # 13
      BY <2>2, <2>3, <2>4
    <2>6. \A k \in 1 .. 13 : pre[k] = 32 => k = 4
      <3>1. \A k \in 1 .. 6 : pre[k] = 32 => k = 4
        BY <2>2
      <3>2. \A k \in 7 .. 13 : pre[k] # 32
        BY <2>3, <2>4
      <3>3. ASSUME NEW k \in 1 .. 13, pre[k] = 32  PROVE k = 4
        <4>1. k \in 1 .. 6 \/ k \in 7 .. 13
          OBVIOUS
        <4> QED
          BY <3>1, <3>2, <3>3, <4>1, Zenon
      <3> QED
        BY <3>3
    <2>7. \A x \in 1 .. 6 : pre[x] = Ok200[x]
      BY <1>1, <1>6, <2>2 DEF Ok200, Space
    <2>8. status = Ok200
      BY <1>1, <1>6
    <2>9. IsHead(pre, 13, status)
      BY <2>4, <2>5, <2>6, <2>7, <2>8 DEF IsHead, Cr, Lf, Space
    <2>10. IsHead(pre, Len(pre), status)
      BY <2>1, <2>9, Zenon
    <2>11. pre \in Seq(Nat)
      BY <1>4
    <2>12. Len(pre) \in 9 .. 13
      BY <2>1
    <2> QED
      BY <2>10, <2>11, <2>12, Zenon
  <1>7. CASE Len(status) = 5 /\ Len(header) = 0
    <2>1. Len(pre) = 9
      BY <1>4, <1>7
    <2>2. pre[1] = 52 /\ pre[2] = 48 /\ pre[3] = 52 /\ pre[4] = 32 /\ pre[5] = 78
      BY <1>1, <1>4, <1>7
    <2>4. pre[6] = 13 /\ pre[7] = 10 /\ pre[8] = 13 /\ pre[9] = 10
      BY <1>3, <1>4, <1>7
    <2>5. \A k \in 1 .. (9 - 4) : pre[k] # 13 \/ pre[k + 2] # 13
      BY <2>2, <2>4
    <2>6. \A k \in 1 .. 9 : pre[k] = 32 => k = 4
      BY <2>2, <2>4
    <2>7. pre[1] # Ok200[1]
      BY <1>1, <1>7, <2>2 DEF Ok200, Space
    <2>8. status # Ok200
      BY <1>1, <1>7
    <2>9. IsHead(pre, 9, status)
      BY <2>4, <2>5, <2>6, <2>7, <2>8 DEF IsHead, Cr, Lf, Space
    <2>10. IsHead(pre, Len(pre), status)
      BY <2>1, <2>9, Zenon
    <2>11. pre \in Seq(Nat)
      BY <1>4
    <2>12. Len(pre) \in 9 .. 13
      BY <2>1
    <2> QED
      BY <2>10, <2>11, <2>12, Zenon
  <1>8. CASE Len(status) = 5 /\ Len(header) = 3
    <2>1. Len(pre) = 12
      BY <1>4, <1>8
    <2>2. pre[1] = 52 /\ pre[2] = 48 /\ pre[3] = 52 /\ pre[4] = 32 /\ pre[5] = 78
      BY <1>1, <1>4, <1>8
    <2>3. pre[6] = 13 /\ pre[7] = 10 /\ pre[8] = 65
      BY <1>1, <1>2, <1>4, <1>8
    <2>4. pre[9] = 13 /\ pre[10] = 10 /\ pre[11] = 13 /\ pre[12] = 10
      BY <1>3, <1>4, <1>8
    <2>5. \A k \in 1 .. (12 - 4) : pre[k] # 13 \/ pre[k + 2] # 13
      BY <2>2, <2>3, <2>4
    <2>6. \A k \in 1 .. 12 : pre[k] = 32 => k = 4
      <3>1. \A k \in 1 .. 5 : pre[k] = 32 => k = 4
        BY <2>2
      <3>2. \A k \in 6 .. 12 : pre[k] # 32
        BY <2>3, <2>4
      <3> QED
        BY <3>1, <3>2
    <2>7. pre[1] # Ok200[1]
      BY <1>1, <1>8, <2>2 DEF Ok200, Space
    <2>8. status # Ok200
      BY <1>1, <1>8
    <2>9. IsHead(pre, 12, status)
      BY <2>4, <2>5, <2>6, <2>7, <2>8 DEF IsHead, Cr, Lf, Space
    <2>10. IsHead(pre, Len(pre), status)
      BY <2>1, <2>9, Zenon
    <2>11. pre \in Seq(Nat)
      BY <1>4
    <2>12. Len(pre) \in 9 .. 13
      BY <2>1
    <2> QED
      BY <2>10, <2>11, <2>12, Zenon
  <1> QED
    BY <1>1, <1>2, <1>5, <1>6, <1>7, <1>8

\* What is read of a text that was cut short.
LEMMA CutText ==
  ASSUME NEW S, NEW s \in Seq(S), NEW n \in 0 .. Len(s)
  PROVE  /\ Len(SubSeq(s, 1, n)) = n
         /\ \A x \in 1 .. n : SubSeq(s, 1, n)[x] = s[x]
  <1>1. \A x \in 1 .. n : s[x] \in S
    BY ElementOfSeq, LenProperties
  <1>2. n \in Int /\ n >= 0
    BY LenProperties
  <1> QED
    BY <1>1, <1>2, SubSeqProperties

LEMMA Straddles ==
  ASSUME NEW h \in Int, NEW k \in Int, k <= h, k + 5 > h
  PROVE  h - k + 1 \in 1 .. 6 /\ k + (h - k + 1) - 1 = h
  OBVIOUS

LEMMA Shifted ==
  ASSUME NEW h \in Nat, NEW n \in Nat, NEW m \in Int, m >= 1, NEW x \in 1 .. 6, m + h <= n - 5,
         NEW a, NEW b, \A j \in 1 .. n : j > h => a[j] = b[j - h]
  PROVE  a[m + h + x - 1] = b[m + x - 1]
  <1>1. PICK j \in 1 .. n : j = m + h + x - 1 /\ j > h /\ j - h = m + x - 1
    OBVIOUS
  <1>2. a[j] = b[j - h]
    BY <1>1
  <1> QED
    BY <1>1, <1>2

\* The body is found behind the h characters of pre, of the first n.
FoundBehind(pre, text, h, status, n) ==
  find_response(SubSeq(pre \o text, 1, n)) =
    IF n > h /\ (status = Ok200 \/ is_200(SubSeq(text, 1, n - h))) THEN h ELSE -1

LEMMA BodyIsFound ==
  ASSUME NEW S, NEW pre \in Seq(S), NEW text \in Seq(S), NEW h \in 9 .. 13, NEW status,
         Len(pre) = h, IsHead(pre, h, status),
         NEW n \in 0 .. Len(pre \o text)
  PROVE  FoundBehind(pre, text, h, status, n)
  <1>a. pre[h - 3] = Cr /\ pre[h - 2] = Lf /\ pre[h - 1] = Cr /\ pre[h] = Lf
    BY DEF IsHead
  <1>b. \A k \in 1 .. (h - 4) : pre[k] # Cr \/ pre[k + 2] # Cr
    BY DEF IsHead
  <1>c. \A k \in 1 .. h : pre[k] = Space => k = 4
    BY DEF IsHead
  <1>d. status = Ok200 => \A x \in 1 .. 6 : pre[x] = Ok200[x]
    BY DEF IsHead
  <1>e. status # Ok200 => pre[1] # Ok200[1]
    BY DEF IsHead
  <1> DEFINE a == SubSeq(pre \o text, 1, n)
             b == SubSeq(text, 1, n - h)
  <1>1. Len(text) \in Nat /\ n \in 0 .. (h + Len(text))
    BY ConcatProperties, LenProperties
  <1>2. /\ \A x \in 1 .. h : (pre \o text)[x] = pre[x]
        /\ \A x \in (h + 1) .. (h + Len(text)) : (pre \o text)[x] = text[x - h]
    BY <1>1, ConcatProperties
  <1>3. Len(a) = n /\ \A x \in 1 .. n : a[x] = (pre \o text)[x]
    BY CutText, ConcatProperties
  <1>4. ASSUME n > h  PROVE Len(b) = n - h /\ \A x \in 1 .. (n - h) : b[x] = text[x]
    BY <1>1, <1>4, CutText
  <1> HIDE DEF a, b
  <1>5. /\ \A x \in 1 .. n : x <= h => a[x] = pre[x]
        /\ \A x \in 1 .. n : x > h => a[x] = b[x - h]
    <2> SUFFICES ASSUME NEW x \in 1 .. n
                 PROVE  (x <= h => a[x] = pre[x]) /\ (x > h => a[x] = b[x - h])
      OBVIOUS
    <2>1. x \in Int /\ h \in Int /\ n \in Int /\ n <= h + Len(text)
      BY <1>1
    <2>2. x <= h => x \in 1 .. h
      BY <2>1
    <2>3. x > h => n > h /\ x \in (h + 1) .. (h + Len(text)) /\ x - h \in 1 .. (n - h)
      BY <1>1, <2>1
    <2> QED
      BY <1>2, <1>3, <1>4, <2>2, <2>3
  <1>6. Len(Blank) = 4 /\ Blank[1] = Cr /\ Blank[2] = Lf /\ Blank[3] = Cr /\ Blank[4] = Lf
    BY DEF Blank
  <1>7. Len(Ok200) = 6 /\ Ok200[4] = Space /\ \A x \in 1 .. 6 : Ok200[x] # Lf
    BY DEF Ok200, Lf, Space
  <1>8. \A k \in Found(a, Blank) : k \in 1 .. (n - 4) /\ k >= h - 3
    <2> SUFFICES ASSUME NEW k \in 1 .. (n - 4), a[k] = Cr, a[k + 2] = Cr, k <= h - 4
                 PROVE  FALSE
      <3>1. ASSUME NEW k \in Found(a, Blank)
            PROVE  k \in 1 .. (n - 4) /\ a[k] = Cr /\ a[k + 2] = Cr
        <4>1. k \in 1 .. (n - 4) /\ \A x \in 1 .. 4 : a[k + x - 1] = Blank[x]
          BY <1>3, <1>6 DEF Found, Tried
        <4>2. 1 \in 1 .. 4 /\ 3 \in 1 .. 4 /\ k + 1 - 1 = k /\ k + 3 - 1 = k + 2
          BY <4>1
        <4> QED
          BY <1>6, <4>1, <4>2
      <3>2. \A k \in 1 .. (n - 4) : k <= h - 4 \/ k >= h - 3
        BY <1>1
      <3> QED
        BY <3>1, <3>2
    <2>0. k \in 1 .. (h - 4) /\ k \in 1 .. n /\ k + 2 \in 1 .. n /\ k <= h /\ k + 2 <= h
      BY <1>1
    <2>1. a[k] = pre[k] /\ a[k + 2] = pre[k + 2] /\ k \in 1 .. (h - 4)
      BY <2>0, <1>5
    <2> QED
      BY <2>1, <1>b
  <1>9. ASSUME n > h  PROVE h - 3 \in Found(a, Blank)
    <2>1. h - 3 \in 1 .. (n - 4) /\ a[h - 3] = Cr /\ a[h - 2] = Lf /\ a[h - 1] = Cr /\ a[h] = Lf
      <3>1. /\ h - 3 \in 1 .. n /\ h - 2 \in 1 .. n /\ h - 1 \in 1 .. n /\ h \in 1 .. n
            /\ h - 3 <= h /\ h - 2 <= h /\ h - 1 <= h /\ h <= h
        BY <1>1, <1>9
      <3>2. a[h - 3] = pre[h - 3] /\ a[h - 2] = pre[h - 2] /\ a[h - 1] = pre[h - 1] /\ a[h] = pre[h]
        BY <3>1, <1>5
      <3>3. h - 3 \in 1 .. (n - 4)
        BY <1>1, <1>9
      <3> QED
        BY <3>2, <3>3, <1>a
    <2>2. \A x \in 1 .. 4 : a[h - 3 + x - 1] = Blank[x]
      BY <1>6, <2>1
    <2> QED
      BY <1>3, <1>6, <2>1, <2>2 DEF Found, Tried
  <1>10. ASSUME n > h  PROVE is_200(a) <=> (status = Ok200 \/ is_200(b))
    <2>1. ASSUME status = Ok200  PROVE 1 \in Found(a, Ok200)
      <3>1. \A x \in 1 .. 6 : a[1 + x - 1] = Ok200[x]
        <4> SUFFICES ASSUME NEW x \in 1 .. 6
                     PROVE  a[x] = Ok200[x]
          <5>1. \A x \in 1 .. 6 : 1 + x - 1 = x
            OBVIOUS
          <5> QED
            BY <5>1, Zenon
        <4>1. x \in 1 .. n /\ x <= h
          BY <1>1, <1>10
        <4> QED
          BY <4>1, <1>5, <1>d, <2>1
      <3>2. 1 \in 1 .. (Len(a) - Len(Ok200))
        BY <1>1, <1>3, <1>7, <1>10
      <3>3. \A x \in 1 .. Len(Ok200) : a[1 + x - 1] = Ok200[x]
        BY <1>7, <3>1, Zenon
      <3> QED
        BY <3>2, <3>3, Zenon DEF Found, Tried
    <2>2. ASSUME NEW k \in Found(b, Ok200)  PROVE k + h \in Found(a, Ok200)
      <3>1. k \in Int /\ k >= 1 /\ k + h <= n - 6 /\ n \in Nat /\ h \in Nat
        <4>1. k \in 1 .. (Len(b) - Len(Ok200))
          BY Zenon DEF Found, Tried
        <4>2. Len(b) = n - h /\ Len(Ok200) = 6 /\ n \in Nat /\ h \in Nat
          BY <1>1, <1>4, <1>7, <1>10
        <4> QED
          BY <4>1, <4>2
      <3>2. \A x \in 1 .. 6 : b[k + x - 1] = Ok200[x]
        BY <1>7 DEF Found
      <3>3. k + h <= n - 5 /\ k + h \in 1 .. (n - 6)
        BY <3>1
      <3>4. \A x \in 1 .. 6 : a[k + h + x - 1] = b[k + x - 1]
        BY <1>5, <3>1, <3>3, Shifted
      <3>5. \A x \in 1 .. 6 : a[k + h + x - 1] = Ok200[x]
        BY <3>2, <3>4
      <3> QED
        BY <1>3, <1>7, <3>3, <3>5 DEF Found, Tried
    <2>3. ASSUME NEW k \in Found(a, Ok200)  PROVE status = Ok200 \/ is_200(b)
      <3>1. k \in 1 .. (n - 6) /\ \A x \in 1 .. 6 : a[k + x - 1] = Ok200[x]
        BY <1>3, <1>7 DEF Found, Tried
      <3>2. CASE k + 5 <= h
        <4>1. a[k] = pre[k] /\ a[k + 3] = pre[k + 3] /\ k + 3 \in 1 .. h
          <5>1. k \in 1 .. n /\ k <= h /\ k + 3 \in 1 .. n /\ k + 3 <= h
            BY <1>1, <3>1, <3>2
          <5> QED
            BY <1>5, <5>1
        <4>2. a[k + 3] = Space /\ a[k] = Ok200[1]
          <5>1. a[k + 4 - 1] = Ok200[4] /\ a[k + 1 - 1] = Ok200[1]
            BY <3>1
          <5> QED
            BY <1>7, <3>1, <5>1
        <4>3. k = 1
          <5>1. k + 3 = 4
            BY <1>c, <4>1, <4>2
          <5> QED
            BY <3>1, <5>1
        <4> QED
          BY <4>1, <4>2, <4>3, <1>e
      <3>3. CASE k <= h /\ k + 5 > h
        <4>1. a[h] = Lf
          <5>1. h \in 1 .. n /\ h <= h
            BY <1>1, <1>10
          <5> QED
            BY <1>5, <5>1, <1>a
        <4>2. h - k + 1 \in 1 .. 6 /\ k + (h - k + 1) - 1 = h
          <5>1. k \in Int /\ k <= h /\ k + 5 > h
            BY <3>1, <3>3
          <5> QED
            BY <5>1, Straddles
        <4> QED
          BY <1>7, <3>1, <4>1, <4>2
      <3>4. CASE k > h
        <4> PICK m \in Int : k = m + h
          <5>1. k \in Int /\ h \in Int
            BY <3>1
          <5>2. k - h \in Int /\ k = k - h + h
            BY <5>1
          <5> QED
            BY <5>2
        <4>1. m >= 1 /\ m + h <= n - 5 /\ m \in 1 .. (n - h - 6) /\ n \in Nat /\ h \in Nat
          BY <1>1, <3>1, <3>4
        <4>2. \A x \in 1 .. 6 : b[m + x - 1] = Ok200[x]
          <5>1. \A x \in 1 .. 6 : a[m + h + x - 1] = b[m + x - 1]
            BY <1>5, <4>1, Shifted
          <5> QED
            BY <3>1, <5>1
        <4>3. m \in Found(b, Ok200)
          BY <1>4, <1>7, <1>10, <4>1, <4>2 DEF Found, Tried
        <4> QED
          BY <4>3 DEF is_200
      <3> QED
        BY <1>1, <3>1, <3>2, <3>3, <3>4
    <2> QED
      BY <2>1, <2>2, <2>3 DEF is_200
  <1>11. find_response(a) = IF n > h /\ (status = Ok200 \/ is_200(b)) THEN h ELSE -1
    <2>1. CASE n > h
      <3>1. (CHOOSE k \in Found(a, Blank) : \A j \in Found(a, Blank) : k <= j) = h - 3
        <4>1. \A j \in Found(a, Blank) : h - 3 <= j
          BY <1>8
        <4>2. \A k \in Found(a, Blank) : (\A j \in Found(a, Blank) : k <= j) => k = h - 3
          BY <1>8, <1>9, <2>1
        <4> QED
          BY <1>9, <2>1, <4>1, <4>2
      <3>2. h - 3 - 1 + 4 = h
        OBVIOUS
      <3> QED
        BY <1>6, <1>9, <1>10, <2>1, <3>1, <3>2 DEF find_response
    <2>2. CASE ~(n > h)
      <3>1. Found(a, Blank) = {}
        BY <1>1, <1>8, <2>2
      <3> QED
        BY <2>2, <3>1 DEF find_response
    <2> QED
      BY <2>1, <2>2
  <1> QED
    BY <1>11 DEF FoundBehind, a, b

LEMMA BodySearch == BodyFound
  <1> SUFFICES ASSUME NEW status \in Statuses,
                      NEW header \in Headers,
                      NEW text \in Texts \cup {Ok200, Ok200 \o <<Dot>>, Blank \o <<Dot>>}
               PROVE  LET answer == status \o header \o Blank \o text
                          head == Len(answer) - Len(text)
                      IN \A n \in 0 .. Len(answer) :
                           find_response(SubSeq(answer, 1, n)) =
                             IF n > head /\ (status = Ok200 \/ is_200(SubSeq(text, 1, n - head)))
                             THEN head ELSE -1
    BY DEF BodyFound
  <1> DEFINE S == SampleChars \cup Nat
             pre == status \o header \o Blank
             answer == pre \o text
             head == Len(answer) - Len(text)
  <1>1. pre \in Seq(Nat) /\ Len(pre) \in 9 .. 13 /\ IsHead(pre, Len(pre), status)
    BY HeadOfAnswer, Zenon
  <1>2. text \in Seq(S)
    <2>1. CASE text \in Texts
      <3>1. PICK m \in 0 .. MaxText : text \in [1 .. m -> SampleChars]
        BY <2>1 DEF Texts
      <3>2. m \in Nat /\ text \in [1 .. m -> S]
        BY <3>1, TextAssumption
      <3> QED
        BY <3>2
    <2>2. CASE text \in {Ok200, Ok200 \o <<Dot>>, Blank \o <<Dot>>}
      <3>1. Ok200 \in Seq(Nat) /\ Blank \in Seq(Nat) /\ <<Dot>> \in Seq(Nat)
        BY DEF Ok200, Blank, Dot, Cr, Lf, Space
      <3>2. text \in Seq(Nat)
        <4>1. Ok200 \o <<Dot>> \in Seq(Nat) /\ Blank \o <<Dot>> \in Seq(Nat)
          BY <3>1, ConcatProperties
        <4> QED
          BY <2>2, <3>1, <4>1
      <3> QED
        BY <3>2, SeqMonotonic
    <2> QED
      BY <2>1, <2>2
  <1>3. pre \in Seq(S)
    BY <1>1, SeqMonotonic
  <1> HIDE DEF S, pre
  <1>4. head = Len(pre)
    BY <1>2, <1>3, ConcatProperties, LenProperties
  <1>5. ASSUME NEW n \in 0 .. Len(answer)
        PROVE  find_response(SubSeq(answer, 1, n)) =
                 IF n > Len(pre) /\ (status = Ok200 \/ is_200(SubSeq(text, 1, n - Len(pre))))
                 THEN Len(pre) ELSE -1
    <2>1. PICK h \in 9 .. 13 : h = Len(pre)
      BY <1>1
    <2>2. IsHead(pre, h, status) /\ Len(pre) = h /\ n \in 0 .. Len(pre \o text)
      BY <1>1, <2>1, Zenon
    <2>3. FoundBehind(pre, text, h, status, n)
      BY <1>2, <1>3, <2>2, BodyIsFound, Zenon
    <2> QED
      BY <2>1, <2>3, Zenon DEF FoundBehind
  <1> HIDE DEF answer, head
  <1>6. \A n \in 0 .. Len(answer) :
          find_response(SubSeq(answer, 1, n)) =
            IF n > head /\ (status = Ok200 \/ is_200(SubSeq(text, 1, n - head)))
            THEN head ELSE -1
    BY <1>4, <1>5
  <1> QED
    BY <1>6 DEF answer, head, pre

\* An answer that has come so far, cut anywhere: its body is found exactly when
\* the status is 200 and a byte of the body is there, or the body itself says so
\* (find_response, is_200), for every alphabet and length of the body, in every
\* state of the servers.
THEOREM BodiesAreFound == ServersSpec => []BodiesFound
  <1>1. BodiesFound
    BY BodySearch DEF BodiesFound
  <1> QED  BY <1>1, PTL

----------------------------------------------------------------------------
(* The address in a DNS answer.                                            *)

\* f is the first n of seqs one after the other, the k-th behind off[k - 1].
IsFlat(f, seqs, n, off, S) ==
  /\ f \in Seq(S) /\ Len(f) = off[n]
  /\ \A k \in 1 .. n : off[k] <= Len(f) /\ \A x \in 1 .. Len(seqs[k]) : f[off[k - 1] + x] = seqs[k][x]
Lengths(seqs) == [k \in 1 .. Len(seqs) |-> Len(seqs[k])]

LEMMA Offsets ==
  ASSUME NEW S, NEW seqs \in Seq(Seq(S)), NEW off, IsSum(off, Len(seqs), Lengths(seqs)),
         NEW k \in 1 .. Len(seqs)
  PROVE  /\ seqs[k] \in Seq(S) /\ Len(seqs[k]) \in Nat
         /\ off[0] = 0 /\ off[k] \in Nat /\ off[k - 1] \in Nat /\ off[k] = off[k - 1] + Len(seqs[k])
  <1>1. seqs[k] \in Seq(S) /\ Len(seqs[k]) \in Nat
    BY LenProperties
  <1>2. /\ off \in [0 .. Len(seqs) -> Nat] /\ off[0] = 0
        /\ off[k] = off[k - 1] + Lengths(seqs)[k]
    BY DEF IsSum
  <1>3. Lengths(seqs)[k] = Len(seqs[k])
    BY DEF Lengths
  <1>4. k \in 0 .. Len(seqs) /\ k - 1 \in 0 .. Len(seqs)
    OBVIOUS
  <1> QED
    BY <1>1, <1>2, <1>3, <1>4

\* The first, and one more behind those before it.
LEMMA FlatBegins ==
  ASSUME NEW S, NEW seqs \in Seq(Seq(S)), NEW off, IsSum(off, Len(seqs), Lengths(seqs)), Len(seqs) # 0
  PROVE  IsFlat(seqs[1], seqs, 1, off, S)
  <1>1. 1 \in 1 .. Len(seqs)
    OBVIOUS
  <1>2. /\ seqs[1] \in Seq(S) /\ Len(seqs[1]) \in Nat /\ off[0] = 0
        /\ off[1] = off[1 - 1] + Len(seqs[1])
    BY <1>1, Offsets
  <1>3. off[1] = Len(seqs[1])
    BY <1>2
  <1>4. ASSUME NEW k \in 1 .. 1  PROVE k = 1
    BY <1>4
  <1>5. \A x \in 1 .. Len(seqs[1]) : 1 - 1 = 0 /\ 0 + x = x
    OBVIOUS
  <1>6. ASSUME NEW k \in 1 .. 1
        PROVE  off[k] <= Len(seqs[1]) /\ \A x \in 1 .. Len(seqs[k]) : seqs[1][off[k - 1] + x] = seqs[k][x]
    BY <1>2, <1>3, <1>4, <1>5
  <1> QED
    BY <1>2, <1>3, <1>6 DEF IsFlat

\* Places in two sequences one behind the other.
LEMMA Behind1 ==
  ASSUME NEW l \in Nat, NEW c \in Nat, NEW x \in 1 .. c
  PROVE  l + x \in 1 .. l + c /\ l + x - l = x /\ ~(l + x <= l)
  OBVIOUS
LEMMA Before1 ==
  ASSUME NEW l \in Nat, NEW c \in Nat, NEW a \in Nat, NEW d \in Nat, NEW x \in 1 .. d, a + d <= l
  PROVE  a + x \in 1 .. l + c /\ a + x <= l
  OBVIOUS

LEMMA FlatGrows ==
  ASSUME NEW S, NEW seqs \in Seq(Seq(S)), NEW off, IsSum(off, Len(seqs), Lengths(seqs)),
         NEW m \in 2 .. Len(seqs), NEW f, IsFlat(f, seqs, m - 1, off, S)
  PROVE  IsFlat(f \o seqs[m], seqs, m, off, S)
  <1> DEFINE b == seqs[m]
             h == f \o b
  <1>1. /\ b \in Seq(S) /\ Len(b) \in Nat
        /\ off[m] \in Nat /\ off[m - 1] \in Nat /\ off[m] = off[m - 1] + Len(b)
    <2>1. m \in 1 .. Len(seqs)
      OBVIOUS
    <2> QED
      BY <2>1, Offsets
  <1>2. /\ f \in Seq(S) /\ Len(f) = off[m - 1]
        /\ \A k \in 1 .. m - 1 : /\ off[k] <= Len(f)
                                 /\ \A x \in 1 .. Len(seqs[k]) : f[off[k - 1] + x] = seqs[k][x]
    BY DEF IsFlat
  <1> HIDE DEF b
  <1>3. /\ h \in Seq(S) /\ Len(h) = Len(f) + Len(b)
        /\ \A j \in 1 .. Len(f) + Len(b) : h[j] = IF j <= Len(f) THEN f[j] ELSE b[j - Len(f)]
    <2>1. f \in Seq(S) /\ b \in Seq(S)
      BY <1>1, <1>2
    <2> QED
      BY <2>1, ConcatProperties
  <1> HIDE DEF h
  <1>4. ASSUME NEW k \in 1 .. m
        PROVE  off[k] <= Len(h) /\ \A x \in 1 .. Len(seqs[k]) : h[off[k - 1] + x] = seqs[k][x]
    <2>1. CASE k = m
      <3>1. ASSUME NEW x \in 1 .. Len(b)  PROVE h[off[m - 1] + x] = b[x]
        <4>1. Len(f) \in Nat /\ Len(b) \in Nat /\ off[m - 1] = Len(f)
          BY <1>1, <1>2, Zenon
        <4>2. Len(f) + x \in 1 .. Len(f) + Len(b) /\ Len(f) + x - Len(f) = x /\ ~(Len(f) + x <= Len(f))
          BY <4>1, Behind1
        <4>3. h[Len(f) + x] = b[Len(f) + x - Len(f)]
          BY <1>3, <4>2
        <4> QED
          BY <4>1, <4>2, <4>3, Zenon
      <3>2. off[m] <= Len(h)
        BY <1>1, <1>2, <1>3
      <3> QED
        BY <2>1, <3>1, <3>2 DEF b
    <2>2. CASE k # m
      <3>1. k \in 1 .. m - 1 /\ k \in 1 .. Len(seqs)
        BY <2>2
      <3>2. /\ off[k] <= Len(f) /\ Len(seqs[k]) \in Nat
            /\ off[k] \in Nat /\ off[k - 1] \in Nat /\ off[k] = off[k - 1] + Len(seqs[k])
        BY <1>2, <3>1, Offsets
      <3>3. ASSUME NEW x \in 1 .. Len(seqs[k])  PROVE h[off[k - 1] + x] = seqs[k][x]
        <4>1. Len(f) \in Nat /\ Len(b) \in Nat /\ off[k - 1] + Len(seqs[k]) <= Len(f)
          BY <1>1, <1>2, <3>2, Zenon
        <4>2. off[k - 1] + x \in 1 .. Len(f) + Len(b) /\ off[k - 1] + x <= Len(f)
          BY <3>2, <4>1, Before1
        <4>3. h[off[k - 1] + x] = f[off[k - 1] + x]
          BY <1>3, <4>2, Zenon
        <4> QED
          BY <1>2, <3>1, <4>3, Zenon
      <3>4. off[k] <= Len(h)
        <4>1. Len(f) \in Nat /\ Len(b) \in Nat /\ Len(h) = Len(f) + Len(b)
          BY <1>1, <1>2, <1>3, Zenon
        <4>2. off[k] <= Len(f) + Len(b)
          BY <3>2, <4>1
        <4> QED
          BY <4>1, <4>2, Zenon
      <3> QED
        BY <3>3, <3>4
    <2> QED
      BY <2>1, <2>2
  <1>5. Len(h) = off[m]
    BY <1>1, <1>2, <1>3
  <1> QED
    BY <1>3, <1>4, <1>5 DEF IsFlat, h, b

\* FlattenSeq is a recursive function; that there is one follows as above.
LEMMA FlattensAll ==
  ASSUME NEW S, NEW seqs \in Seq(Seq(S)), Len(seqs) # 0
  PROVE  \E f : /\ FlattenSeq(seqs) = f[Len(seqs)]
                /\ \A k \in 1 .. Len(seqs) : f[k] = IF k = 1 THEN seqs[k] ELSE f[k - 1] \o seqs[k]
  <1> DEFINE R(f, m) == [k \in 1 .. m |-> IF k = 1 THEN seqs[k] ELSE f[k - 1] \o seqs[k]]
             T == {m \in 0 .. Len(seqs) : ~\E f : f = R(f, m)}
             chosen == CHOOSE f : f = R(f, Len(seqs))
  <1>1. T = {}
    <2> SUFFICES ASSUME T # {}  PROVE FALSE
      OBVIOUS
    <2>1. PICK m \in T : \A y \in T : m <= y
      <3> HIDE DEF R
      <3>1. T \subseteq 0 .. Len(seqs)
        BY Zenon
      <3>2. Len(seqs) \in Nat
        BY LenProperties
      <3> HIDE DEF T
      <3> QED
        BY <3>1, <3>2, Least
    <2>2. CASE m = 0
      <3>1. [k \in 1 .. 0 |-> 0] = R([k \in 1 .. 0 |-> 0], 0)
        OBVIOUS
      <3> QED
        BY <2>2, <3>1
    <2>3. CASE m # 0
      <3>1. m - 1 \in 0 .. Len(seqs) /\ m - 1 \notin T /\ m \in Nat
        <4>1. T \subseteq 0 .. Len(seqs) /\ Len(seqs) \in Nat
          <5> HIDE DEF R
          <5>1. T \subseteq 0 .. Len(seqs)
            BY Zenon
          <5> QED
            BY <5>1, LenProperties
        <4> HIDE DEF T
        <4>2. ~(m <= m - 1) /\ m - 1 \in 0 .. Len(seqs) /\ m \in Nat
          BY <2>3, <4>1
        <4> QED
          BY <2>1, <4>2
      <3>2. PICK f : f = R(f, m - 1)
        BY <3>1
      <3>3. ASSUME NEW k \in 1 .. m, k # 1  PROVE R(f, m)[k - 1] = f[k - 1]
        <4>1. k - 1 \in 1 .. m - 1 /\ k - 1 \in 1 .. m
          BY <3>1, <3>3
        <4>2. f[k - 1] = R(f, m - 1)[k - 1]
          BY <3>2
        <4> QED
          BY <4>1, <4>2
      <3>4. R(f, m) = R(R(f, m), m)
        <4> DEFINE h == R(f, m)
        <4>1. \A k \in 1 .. m : k # 1 => h[k - 1] = f[k - 1]
          BY <3>3
        <4> HIDE DEF h
        <4>2. R(h, m) = R(f, m)
          BY <4>1
        <4> QED
          BY <4>2 DEF h
      <3> QED
        BY <2>1, <3>4
    <2> QED
      BY <2>2, <2>3
  <1>2. \E f : f = R(f, Len(seqs))
    <2>1. Len(seqs) \in 0 .. Len(seqs)
      OBVIOUS
    <2> QED
      BY <1>1, <2>1
  <1>3. chosen = R(chosen, Len(seqs))
    BY <1>2
  <1>4. FlattenSeq(seqs) = chosen[Len(seqs)]
    BY DEF FlattenSeq
  <1> HIDE DEF chosen
  <1>5. \A k \in 1 .. Len(seqs) : chosen[k] = IF k = 1 THEN seqs[k] ELSE chosen[k - 1] \o seqs[k]
    BY <1>3
  <1> QED
    BY <1>4, <1>5

\* So FlattenSeq puts them one after the other.
LEMMA FlatIs ==
  ASSUME NEW S, NEW seqs \in Seq(Seq(S))
  PROVE  \E off : /\ IsSum(off, Len(seqs), Lengths(seqs))
                  /\ IsFlat(FlattenSeq(seqs), seqs, Len(seqs), off, S)
  <1>1. PICK off : IsSum(off, Len(seqs), Lengths(seqs))
    <2>1. Lengths(seqs) \in [1 .. Len(seqs) -> Nat] /\ Len(seqs) \in Nat
      BY LenProperties DEF Lengths
    <2> QED
      BY <2>1, SumsExist
  <1>2. CASE Len(seqs) = 0
    <2>1. FlattenSeq(seqs) = seqs
      BY <1>2 DEF FlattenSeq
    <2>2. seqs \in Seq(S)
      <3>1. seqs = <<>>
        BY <1>2, EmptySeq
      <3> QED
        BY <3>1
    <2>3. off[0] = 0
      BY <1>1 DEF IsSum
    <2>4. IsFlat(seqs, seqs, 0, off, S)
      BY <1>2, <2>2, <2>3 DEF IsFlat
    <2> QED
      BY <1>1, <1>2, <2>1, <2>4
  <1>3. CASE Len(seqs) # 0
    <2>1. PICK f : /\ FlattenSeq(seqs) = f[Len(seqs)]
                   /\ \A k \in 1 .. Len(seqs) : f[k] = IF k = 1 THEN seqs[k] ELSE f[k - 1] \o seqs[k]
      BY <1>3, FlattensAll
    <2> DEFINE T == {k \in 1 .. Len(seqs) : ~IsFlat(f[k], seqs, k, off, S)}
    <2>2. T = {}
      <3> SUFFICES ASSUME T # {}  PROVE FALSE
        OBVIOUS
      <3>1. PICK k \in T : \A y \in T : k <= y
        <4>1. T \subseteq 0 .. Len(seqs) /\ Len(seqs) \in Nat
          OBVIOUS
        <4> HIDE DEF T
        <4> QED
          BY <4>1, Least
      <3>2. CASE k = 1
        <4>0. 1 \in 1 .. Len(seqs)
          BY <1>3, LenProperties
        <4>1. f[1] = seqs[1]
          BY <2>1, <4>0
        <4> QED
          BY <1>1, <1>3, <3>1, <3>2, <4>1, FlatBegins
      <3>3. CASE k # 1
        <4>1. k - 1 \in 1 .. Len(seqs) /\ k \in 2 .. Len(seqs) /\ k - 1 \notin T
          BY <3>1, <3>3
        <4>2. IsFlat(f[k - 1], seqs, k - 1, off, S)
          BY <4>1
        <4>3. f[k] = f[k - 1] \o seqs[k]
          BY <2>1, <3>3
        <4>4. IsFlat(f[k - 1] \o seqs[k], seqs, k, off, S)
          BY <1>1, <4>1, <4>2, FlatGrows
        <4> QED
          BY <4>3, <4>4
      <3> QED
        BY <3>2, <3>3
    <2>3. Len(seqs) \in 1 .. Len(seqs)
      BY <1>3
    <2>4. IsFlat(f[Len(seqs)], seqs, Len(seqs), off, S)
      BY <2>2, <2>3
    <2> QED
      BY <1>1, <2>1, <2>4
  <1> QED
    BY <1>2, <1>3

\* Where a name ends is behind where it begins.
LEMMA NameEndsBehind ==
  ASSUME NEW msg \in Seq(Nat), NEW p \in Nat
  PROVE  NameEnd(msg, p) \in Nat /\ NameEnd(msg, p) > p
  <1> DEFINE zeros == {k \in p + 1 .. Len(msg) : msg[k] = 0}
  <1>0. Len(msg) \in Nat
    BY LenProperties
  <1>1. CASE p > Len(msg) \/ msg[p] >= 64
    BY <1>0, <1>1 DEF NameEnd
  <1>2. CASE ~(p > Len(msg)) /\ ~(msg[p] >= 64)
    <2>1. CASE zeros = {}
      <3>1. NameEnd(msg, p) = Len(msg) + 1
        BY <1>2, <2>1 DEF NameEnd
      <3> QED
        BY <1>0, <1>2, <3>1
    <2>2. CASE zeros # {}
      <3> DEFINE least == CHOOSE k \in zeros : \A j \in zeros : k <= j
      <3>1. NameEnd(msg, p) = 1 + least
        BY <1>2, <2>2 DEF NameEnd
      <3>2. zeros \subseteq 0 .. Len(msg)
        BY <1>0
      <3>3. zeros \subseteq p + 1 .. Len(msg)
        OBVIOUS
      <3> HIDE DEF zeros
      <3>4. \E k \in zeros : \A j \in zeros : k <= j
        BY <1>0, <2>2, <3>2, Least
      <3>5. least \in zeros
        BY <3>4
      <3> HIDE DEF least
      <3>6. least \in p + 1 .. Len(msg)
        BY <3>3, <3>5
      <3> QED
        BY <1>0, <3>1, <3>6
    <2> QED
      BY <2>1, <2>2
  <1> QED
    BY <1>1, <1>2

\* A turn of the search, and where the next one begins.
Behind(msg, q) == NameEnd(msg, q) + msg[NameEnd(msg, q) + 9] + 10
FindTurn(msg, g, q) ==
  IF TooShort(msg, NameEnd(msg, q)) THEN <<>>
  ELSE IF msg[NameEnd(msg, q) + 1] = 1 /\ msg[NameEnd(msg, q) + 9] = 4
    THEN SubSeq(msg, NameEnd(msg, q) + 10, NameEnd(msg, q) + 13)
  ELSE g[Behind(msg, q)]

LEMMA FurtherOn ==
  ASSUME NEW t \in Nat, NEW q \in Nat, NEW m \in Nat, t > q  PROVE t + m + 10 \in Nat /\ t + m + 10 > q
  OBVIOUS

LEMMA TurnGoesOn ==
  ASSUME NEW msg \in Seq(Nat), NEW q \in Nat
  PROVE  IF q >= Len(msg) THEN TooShort(msg, NameEnd(msg, q))
         ELSE ~TooShort(msg, NameEnd(msg, q)) => Behind(msg, q) \in Nat /\ Behind(msg, q) > q
  <1>1. PICK t \in Nat : t = NameEnd(msg, q) /\ t > q
    BY NameEndsBehind
  <1>2. Len(msg) \in Nat
    BY LenProperties
  <1>3. CASE q >= Len(msg)
    BY <1>1, <1>2, <1>3 DEF TooShort
  <1>4. ASSUME ~(q >= Len(msg)), ~TooShort(msg, t)
        PROVE  Behind(msg, q) \in Nat /\ Behind(msg, q) > q
    <2>1. t + 9 \in 1 .. Len(msg)
      BY <1>1, <1>2, <1>4 DEF TooShort
    <2>2. msg[t + 9] \in Nat
      BY <2>1
    <2>3. Behind(msg, q) = t + msg[t + 9] + 10
      BY <1>1, Zenon DEF Behind
    <2> QED
      <3> DEFINE m == msg[t + 9]
                 b == Behind(msg, q)
      <3>1. m \in Nat /\ b = t + m + 10 /\ t > q
        BY <1>1, <2>2, <2>3, Zenon
      <3> HIDE DEF m, b
      <3>2. b \in Nat /\ b > q
        BY <3>1, FurtherOn
      <3> QED
        BY <3>2 DEF b
  <1> QED
    BY <1>1, <1>3, <1>4

\* There is such a function: the search goes on upwards only, and not behind
\* the end.
LEMMA FindExists ==
  ASSUME NEW msg \in Seq(Nat)
  PROVE  \E find : find = [q \in Nat |-> FindTurn(msg, find, q)]
  <1> DEFINE P(m, g) == /\ g = [q \in Nat |-> g[q]]
                        /\ \A q \in Nat : q + m >= Len(msg) => g[q] = FindTurn(msg, g, q)
             T == {m \in 0 .. Len(msg) : ~\E g : P(m, g)}
  <1>0. Len(msg) \in Nat
    BY LenProperties
  <1>1. T = {}
    <2> SUFFICES ASSUME T # {}  PROVE FALSE
      OBVIOUS
    <2>0. T \subseteq 0 .. Len(msg)
      <3> HIDE DEF P
      <3> QED
        BY Zenon
    <2>1. PICK m \in T : \A y \in T : m <= y
      <3> HIDE DEF T
      <3> QED
        BY <1>0, <2>0, Least
    <2>2. CASE m = 0
      <3> DEFINE g == [q \in Nat |-> <<>>]
      <3>1. ASSUME NEW q \in Nat, q + 0 >= Len(msg)  PROVE g[q] = FindTurn(msg, g, q)
        <4>1. q >= Len(msg)
          BY <1>0, <3>1
        <4>2. TooShort(msg, NameEnd(msg, q))
          BY <4>1, TurnGoesOn
        <4> QED
          BY <4>2 DEF FindTurn
      <3>2. P(0, g)
        BY <3>1
      <3> QED
        BY <2>1, <2>2, <3>2
    <2>3. CASE m # 0
      <3>1. m \in Nat /\ m - 1 \in 0 .. Len(msg) /\ ~(m <= m - 1)
        BY <1>0, <2>0, <2>1, <2>3
      <3>2. m - 1 \notin T
        BY <2>1, <3>1, Zenon
      <3>3. PICK g : P(m - 1, g)
        BY <3>1, <3>2
      <3> DEFINE h == [q \in Nat |-> FindTurn(msg, g, q)]
      <3>4. ASSUME NEW q \in Nat, q + m >= Len(msg)  PROVE h[q] = FindTurn(msg, h, q)
        <4>1. CASE TooShort(msg, NameEnd(msg, q))
          BY <4>1 DEF FindTurn
        <4>2. CASE ~TooShort(msg, NameEnd(msg, q))
          <5>1. Behind(msg, q) \in Nat /\ Behind(msg, q) > q
            BY <4>2, TurnGoesOn
          <5>2. Behind(msg, q) + (m - 1) >= Len(msg)
            BY <1>0, <3>1, <3>4, <5>1
          <5>3. g[Behind(msg, q)] = FindTurn(msg, g, Behind(msg, q))
            BY <3>3, <5>1, <5>2
          <5>4. h[Behind(msg, q)] = g[Behind(msg, q)]
            BY <5>1, <5>3
          <5>5. h[q] = FindTurn(msg, g, q)
            OBVIOUS
          <5> HIDE DEF h
          <5>6. FindTurn(msg, h, q) = FindTurn(msg, g, q)
            BY <5>4, Zenon DEF FindTurn
          <5> QED
            BY <5>5, <5>6
        <4> QED
          BY <4>1, <4>2
      <3>5. h = [q \in Nat |-> h[q]]
        OBVIOUS
      <3> HIDE DEF h
      <3>6. P(m, h)
        BY <3>4, <3>5
      <3> QED
        BY <2>1, <3>6
    <2> QED
      BY <2>2, <2>3
  <1>2. PICK g : P(Len(msg), g)
    <2>1. Len(msg) \in 0 .. Len(msg)
      BY <1>0
    <2> HIDE DEF P
    <2> QED
      BY <1>1, <2>1
  <1>3. \A q \in Nat : g[q] = FindTurn(msg, g, q)
    BY <1>0, <1>2
  <1>4. g = [q \in Nat |-> g[q]]
    BY <1>2
  <1>5. [q \in Nat |-> g[q]] = [q \in Nat |-> FindTurn(msg, g, q)]
    BY <1>3
  <1> QED
    BY <1>4, <1>5

\* The search is that function.
LEMMA SearchIs ==
  ASSUME NEW msg \in Seq(Nat)
  PROVE  \E find : /\ \A q \in Nat : find[q] = FindTurn(msg, find, q)
                   /\ \A p : FindA(msg, p) = find[p]
  <1> DEFINE find == CHOOSE f : f = [q \in Nat |-> FindTurn(msg, f, q)]
  <1>1. find = [q \in Nat |-> FindTurn(msg, find, q)]
    BY FindExists
  <1>2. ASSUME NEW p  PROVE FindA(msg, p) = find[p]
    BY DEF FindA, FindTurn, Behind
  <1> HIDE DEF find
  <1>3. \A q \in Nat : find[q] = FindTurn(msg, find, q)
    BY <1>1
  <1> QED
    BY <1>2, <1>3

\* A name: no byte of it is 0 but the last, and the first is not a pointer's.
IsName(owner) ==
  /\ Len(owner) >= 2 /\ owner[1] < 64 /\ owner[Len(owner)] = 0
  /\ \A k \in 1 .. Len(owner) - 1 : owner[k] # 0

LEMMA NamePlaces ==
  ASSUME NEW p \in Int, NEW o \in Int, NEW l \in Int, p >= 1, o >= 2, p + o <= l
  PROVE  /\ 1 \in 1 .. o /\ p - 1 + 1 = p /\ ~(p > l) /\ o \in 1 .. o
         /\ p - 1 + o = p + o - 1 /\ p + o - 1 \in p + 1 .. l
         /\ p + o - 1 \in Int
  OBVIOUS
LEMMA Antisymmetric ==
  ASSUME NEW a \in Int, NEW b \in Int, a <= b, b <= a  PROVE a = b
  OBVIOUS

\* A pointer and a whole name end where they are written to end.
LEMMA OwnerEnds ==
  ASSUME NEW msg \in Seq(Nat), NEW p \in 1 .. Len(msg), NEW owner \in Seq(Nat),
         owner = <<192, 12>> \/ IsName(owner), p + Len(owner) <= Len(msg),
         \A k \in 1 .. Len(owner) : msg[p - 1 + k] = owner[k]
  PROVE  NameEnd(msg, p) = p + Len(owner)
  <1>0. Len(msg) \in Nat /\ p \in Nat
    BY LenProperties
  <1>1. CASE owner = <<192, 12>>
    <2>1. Len(owner) = 2 /\ owner[1] = 192
      BY <1>1
    <2>2. msg[p - 1 + 1] = 192
      BY <2>1
    <2>3. p - 1 + 1 = p /\ ~(p > Len(msg))
      BY <1>0
    <2>4. msg[p] >= 64
      BY <2>2, <2>3
    <2> QED
      BY <2>1, <2>3, <2>4 DEF NameEnd
  <1>2. CASE IsName(owner)
    <2> DEFINE zeros == {k \in p + 1 .. Len(msg) : msg[k] = 0}
    <2>1. PICK o \in Nat : /\ o = Len(owner) /\ o >= 2 /\ owner[1] < 64 /\ owner[o] = 0
                           /\ \A k \in 1 .. o - 1 : owner[k] # 0
      <3>1. Len(owner) \in Nat
        BY LenProperties
      <3>2. /\ Len(owner) >= 2 /\ owner[1] < 64 /\ owner[Len(owner)] = 0
            /\ \A k \in 1 .. Len(owner) - 1 : owner[k] # 0
        BY <1>2, Zenon DEF IsName
      <3> QED
        BY <3>1, <3>2
    <2>0. p \in Int /\ o \in Int /\ p >= 1 /\ p + o <= Len(msg) /\ Len(msg) \in Int
      BY <1>0, <2>1
    <2>p. /\ 1 \in 1 .. o /\ p - 1 + 1 = p /\ ~(p > Len(msg)) /\ o \in 1 .. o
          /\ p - 1 + o = p + o - 1 /\ p + o - 1 \in p + 1 .. Len(msg)
          /\ p + o - 1 \in Int
      <3>1. o >= 2
        BY <2>1
      <3> QED
        BY <2>0, <3>1, NamePlaces
    <2>2. msg[p] < 64 /\ ~(p > Len(msg))
      <3>1. msg[p - 1 + 1] = owner[1]
        BY <2>1, <2>p, Zenon
      <3> QED
        BY <2>1, <2>p, <3>1, Zenon
    <2>3. p + o - 1 \in p + 1 .. Len(msg) /\ msg[p + o - 1] = 0
      <3>1. o \in 1 .. Len(owner)
        BY <2>1, <2>p, Zenon
      <3>2. msg[p - 1 + o] = owner[o]
        BY <3>1, Zenon
      <3> QED
        BY <2>1, <2>p, <3>2, Zenon
    <2>4. ASSUME NEW k \in p + 1 .. Len(msg), k < p + o - 1  PROVE msg[k] # 0
      <3>1. PICK j \in 1 .. o - 1 : k = p - 1 + j
        <4>1. k - p + 1 \in 1 .. o - 1 /\ k = p - 1 + (k - p + 1)
          BY <1>0, <2>1, <2>4
        <4> QED
          BY <4>1
      <3>2. j \in 1 .. o
        BY <2>1
      <3> QED
        BY <2>1, <3>1, <3>2
    <2>5. p + o - 1 \in zeros
      BY <2>3
    <2>6. zeros \subseteq p + 1 .. Len(msg) /\ \A k \in zeros : msg[k] = 0
      OBVIOUS
    <2>7. NameEnd(msg, p) = 1 + CHOOSE k \in zeros : \A j \in zeros : k <= j
      <3>1. ~(msg[p] >= 64)
        <4>1. msg[p] \in Nat
          OBVIOUS
        <4> QED
          BY <2>2, <4>1
      <3>2. zeros # {}
        BY <2>5
      <3> QED
        BY <2>2, <3>1, <3>2 DEF NameEnd
    <2> HIDE DEF zeros
    <2>8. \A j \in zeros : p + o - 1 <= j
      <3>1. ASSUME NEW j \in zeros  PROVE j \in Int /\ ~(j < p + o - 1)
        <4>1. j \in p + 1 .. Len(msg) /\ msg[j] = 0
          BY <2>6, Zenon
        <4>2. j \in Int
          BY <4>1
        <4> QED
          BY <2>4, <4>1, <4>2, Zenon
      <3> QED
        BY <2>0, <2>1, <3>1
    <2>9. ASSUME NEW k \in zeros, \A j \in zeros : k <= j  PROVE k = p + o - 1
      <3>1. k <= p + o - 1 /\ p + o - 1 <= k /\ k \in Int
        <4>1. k \in Int
          BY <2>6
        <4>2. k <= p + o - 1
          BY <2>5, <2>9
        <4> QED
          BY <2>8, <4>1, <4>2
      <3>2. p + o - 1 \in Int
        BY <2>0
      <3> QED
        BY <3>1, <3>2, Antisymmetric, Zenon
    <2>10. (CHOOSE k \in zeros : \A j \in zeros : k <= j) = p + o - 1
      BY <2>5, <2>8, <2>9
    <2>11. 1 + (p + o - 1) = p + o
      BY <2>0, <2>1
    <2> QED
      BY <2>1, <2>7, <2>10, <2>11, Zenon
  <1> QED
    BY <1>1, <1>2

\* A record is at p.
RecordAt(msg, p, r) ==
  /\ p \in 1 .. Len(msg) /\ p + Len(r.owner) + 9 + Len(r.data) <= Len(msg)
  /\ NameEnd(msg, p) = p + Len(r.owner)
  /\ msg[p + Len(r.owner) + 1] = r.type /\ msg[p + Len(r.owner) + 9] = Len(r.data)
  /\ \A x \in 1 .. Len(r.data) : msg[p + Len(r.owner) + 9 + x] = r.data[x]

IsRecord(r) ==
  /\ r.owner \in Seq(Nat) /\ Len(r.owner) >= 2 /\ (r.owner = <<192, 12>> \/ IsName(r.owner))
  /\ r.type \in {1, 5} /\ r.data \in Seq(Nat) /\ (r.type = 1 => Len(r.data) = 4)

\* What a record is in the packet.
IsWritten(w, r) ==
  /\ w \in Seq(Nat) /\ Len(w) = Len(r.owner) + 10 + Len(r.data)
  /\ Len(r.owner) \in Nat /\ Len(r.data) \in Nat /\ Len(r.owner) >= 2
  /\ \A k \in 1 .. Len(r.owner) : w[k] = r.owner[k]
  /\ w[Len(r.owner) + 2] = r.type /\ w[Len(r.owner) + 10] = Len(r.data)
  /\ \A x \in 1 .. Len(r.data) : w[Len(r.owner) + 10 + x] = r.data[x]

\* A record is written so.
LEMMA WrittenIs == ASSUME NEW r, IsRecord(r), NEW w, w = Written(r)  PROVE IsWritten(w, r)
  <1> DEFINE mid == <<0, r.type, 0, 1, 0, 0, 1, 44, 0, Len(r.data)>>
  <1>1. /\ r.owner \in Seq(Nat) /\ r.data \in Seq(Nat) /\ Len(r.owner) \in Nat /\ Len(r.data) \in Nat
        /\ Len(r.owner) >= 2 /\ r.type \in Nat
    BY LenProperties DEF IsRecord
  <1>2. mid \in Seq(Nat) /\ Len(mid) = 10 /\ mid[2] = r.type /\ mid[10] = Len(r.data)
    BY <1>1
  <1> HIDE DEF mid
  <1>3. r.owner \o mid \o r.data \in Seq(Nat) /\ Joined(r.owner \o mid \o r.data, r.owner, mid, r.data)
    BY <1>1, <1>2, ThreeParts
  <1>4. w = r.owner \o mid \o r.data
    BY DEF Written, mid
  <1>5. w \in Seq(Nat) /\ Joined(w, r.owner, mid, r.data)
    BY <1>3, <1>4, Zenon
  <1>6. /\ Len(w) = Len(r.owner) + Len(mid) + Len(r.data)
        /\ \A k \in 1 .. Len(r.owner) : w[k] = r.owner[k]
        /\ \A k \in 1 .. Len(mid) : w[Len(r.owner) + k] = mid[k]
        /\ \A k \in 1 .. Len(r.data) : w[Len(r.owner) + Len(mid) + k] = r.data[k]
    BY <1>5, Zenon DEF Joined
  <1>7. 2 \in 1 .. Len(mid) /\ 10 \in 1 .. Len(mid)
    BY <1>2
  <1>8. w[Len(r.owner) + 2] = r.type /\ w[Len(r.owner) + 10] = Len(r.data)
    BY <1>2, <1>6, <1>7, Zenon
  <1>9. \A x \in 1 .. Len(r.data) : w[Len(r.owner) + 10 + x] = r.data[x]
    BY <1>2, <1>6, Zenon
  <1> QED
    BY <1>1, <1>2, <1>5, <1>6, <1>8, <1>9, Zenon DEF IsWritten

LEMMA RecordPlaces ==
  ASSUME NEW p \in Int, NEW o \in Nat, NEW d \in Nat, NEW l \in Int, p >= 1, o >= 2, p + (o + 10 + d) <= l + 1
  PROVE  /\ p \in 1 .. l /\ p + o <= l /\ p + o + 9 + d <= l
         /\ o + 2 \in 1 .. o + 10 + d /\ p - 1 + (o + 2) = p + o + 1
         /\ o + 10 \in 1 .. o + 10 + d /\ p - 1 + (o + 10) = p + o + 9
         /\ \A k \in 1 .. o : k \in 1 .. o + 10 + d
         /\ \A x \in 1 .. d : o + 10 + x \in 1 .. o + 10 + d /\ p - 1 + (o + 10 + x) = p + o + 9 + x
  OBVIOUS

\* A written record is a record at its place.
LEMMA RecordLies ==
  ASSUME NEW msg \in Seq(Nat), NEW p \in Nat, p >= 1, NEW r, IsRecord(r), NEW w, w = Written(r),
         p + Len(w) <= Len(msg) + 1, \A x \in 1 .. Len(w) : msg[p - 1 + x] = w[x]
  PROVE  RecordAt(msg, p, r)
  <1> DEFINE o == Len(r.owner)
             d == Len(r.data)
  <1>1. /\ w \in Seq(Nat) /\ Len(w) = o + 10 + d /\ o \in Nat /\ d \in Nat /\ o >= 2
        /\ \A k \in 1 .. o : w[k] = r.owner[k]
        /\ w[o + 2] = r.type /\ w[o + 10] = d
        /\ \A x \in 1 .. d : w[o + 10 + x] = r.data[x]
    <2>1. IsWritten(w, r)
      BY WrittenIs
    <2> QED
      BY <2>1, Zenon DEF IsWritten
  <1> HIDE DEF o, d
  <1>2. /\ p \in 1 .. Len(msg) /\ p + o <= Len(msg) /\ p + o + 9 + d <= Len(msg)
        /\ o + 2 \in 1 .. o + 10 + d /\ p - 1 + (o + 2) = p + o + 1
        /\ o + 10 \in 1 .. o + 10 + d /\ p - 1 + (o + 10) = p + o + 9
        /\ \A k \in 1 .. o : k \in 1 .. o + 10 + d
        /\ \A x \in 1 .. d : o + 10 + x \in 1 .. o + 10 + d /\ p - 1 + (o + 10 + x) = p + o + 9 + x
    <2>1. p \in Int /\ p >= 1 /\ Len(msg) \in Int
      BY LenProperties
    <2>2. p + (o + 10 + d) <= Len(msg) + 1
      BY <1>1, Zenon
    <2> DEFINE l == Len(msg)
    <2>3. l \in Int /\ p + (o + 10 + d) <= l + 1
      BY <2>1, <2>2, Zenon
    <2>4. o \in Nat /\ d \in Nat /\ o >= 2
      BY <1>1, Zenon
    <2> HIDE DEF l
    <2>5. /\ p \in 1 .. l /\ p + o <= l /\ p + o + 9 + d <= l
          /\ o + 2 \in 1 .. o + 10 + d /\ p - 1 + (o + 2) = p + o + 1
          /\ o + 10 \in 1 .. o + 10 + d /\ p - 1 + (o + 10) = p + o + 9
          /\ \A k \in 1 .. o : k \in 1 .. o + 10 + d
          /\ \A x \in 1 .. d : o + 10 + x \in 1 .. o + 10 + d /\ p - 1 + (o + 10 + x) = p + o + 9 + x
      BY <2>1, <2>3, <2>4, RecordPlaces
    <2> QED
      BY <2>5 DEF l
  <1>3. \A x \in 1 .. o + 10 + d : msg[p - 1 + x] = w[x]
    BY <1>1, Zenon
  <1>4. NameEnd(msg, p) = p + o
    <2>1. \A k \in 1 .. Len(r.owner) : msg[p - 1 + k] = r.owner[k]
      BY <1>1, <1>2, <1>3, Zenon DEF o
    <2>2. p + Len(r.owner) <= Len(msg) /\ r.owner \in Seq(Nat) /\ (r.owner = <<192, 12>> \/ IsName(r.owner))
      BY <1>2, Zenon DEF o, IsRecord
    <2>3. NameEnd(msg, p) = p + Len(r.owner)
      BY <1>2, <2>1, <2>2, OwnerEnds
    <2>4. o = Len(r.owner)
      BY DEF o
    <2> QED
      BY <2>3, <2>4
  <1>5. msg[p + o + 1] = r.type /\ msg[p + o + 9] = d
    <2>1. msg[p - 1 + (o + 2)] = w[o + 2] /\ msg[p - 1 + (o + 10)] = w[o + 10]
      BY <1>2, <1>3, Zenon
    <2>2. msg[p + o + 1] = w[o + 2] /\ msg[p + o + 9] = w[o + 10]
      BY <1>2, <2>1, Zenon
    <2> QED
      BY <1>1, <2>2, Zenon
  <1>6. ASSUME NEW x \in 1 .. d  PROVE msg[p + o + 9 + x] = r.data[x]
    <2>1. msg[p - 1 + (o + 10 + x)] = w[o + 10 + x]
      BY <1>2, <1>3, Zenon
    <2> QED
      BY <1>1, <1>2, <2>1, Zenon
  <1> QED
    BY <1>2, <1>4, <1>5, <1>6, Zenon DEF RecordAt, o, d

\* The data of the first record of type A behind the k-th.
AddressesBehind(records, n, k) == {m \in k + 1 .. n : records[m].type = 1}
FirstBehind(records, n, k) ==
  IF AddressesBehind(records, n, k) = {} THEN <<>>
  ELSE records[CHOOSE m \in AddressesBehind(records, n, k) :
                 \A j \in AddressesBehind(records, n, k) : m <= j].data

\* The first behind the k-th is the next, or the first behind that.
LEMMA FirstOne ==
  ASSUME NEW n \in Nat, NEW records, NEW k \in 0 .. n - 1
  PROVE  FirstBehind(records, n, k) =
           IF records[k + 1].type = 1 THEN records[k + 1].data ELSE FirstBehind(records, n, k + 1)
  <1> DEFINE as == AddressesBehind(records, n, k)
  <1>0. k + 1 \in k + 1 .. n /\ k \in Nat /\ k + 1 \in Int
    OBVIOUS
  <1>1. CASE records[k + 1].type = 1
    <2>1. k + 1 \in as
      BY <1>0, <1>1 DEF AddressesBehind
    <2>2. \A j \in as : j \in Int /\ k + 1 <= j
      BY DEF AddressesBehind
    <2>3. FirstBehind(records, n, k) = records[CHOOSE m \in as : \A j \in as : m <= j].data
      BY <2>1 DEF FirstBehind
    <2> HIDE DEF as
    <2>4. ASSUME NEW m \in as, \A j \in as : m <= j  PROVE m = k + 1
      BY <1>0, <2>1, <2>2, <2>4, Antisymmetric, Zenon
    <2>5. (CHOOSE m \in as : \A j \in as : m <= j) = k + 1
      BY <2>1, <2>2, <2>4
    <2> QED
      BY <1>1, <2>3, <2>5, Zenon
  <1>2. CASE records[k + 1].type # 1
    <2>1. as = AddressesBehind(records, n, k + 1)
      <3>1. ASSUME NEW m \in k + 1 .. n, records[m].type = 1  PROVE m \in k + 1 + 1 .. n
        BY <1>0, <1>2, <3>1
      <3>2. \A m \in k + 1 + 1 .. n : m \in k + 1 .. n
        BY <1>0
      <3> QED
        BY <3>1, <3>2 DEF AddressesBehind
    <2>2. FirstBehind(records, n, k) = FirstBehind(records, n, k + 1)
      BY <2>1 DEF FirstBehind
    <2> QED
      BY <1>2, <2>2
  <1> QED
    BY <1>1, <1>2

LEMMA NoneBehind == ASSUME NEW n \in Nat, NEW records  PROVE FirstBehind(records, n, n) = <<>>
  <1>1. n + 1 .. n = {}
    OBVIOUS
  <1> QED
    BY <1>1 DEF FirstBehind, AddressesBehind

\* One turn at a record.
LEMMA RecordTurn ==
  ASSUME NEW msg \in Seq(Nat), NEW p \in Nat, NEW r, IsRecord(r), RecordAt(msg, p, r), NEW find
  PROVE  FindTurn(msg, find, p) =
           IF r.type = 1 THEN r.data
           ELSE IF TooShort(msg, p + Len(r.owner)) THEN <<>>
           ELSE find[p + Len(r.owner) + Len(r.data) + 10]
  <1>0. Len(msg) \in Nat
    BY LenProperties
  <1> DEFINE o == Len(r.owner)
             d == Len(r.data)
             t == p + o
  <1>1. o \in Nat /\ d \in Nat /\ (r.type = 1 => d = 4) /\ r.data \in Seq(Nat) /\ t \in Nat
    BY LenProperties DEF IsRecord
  <1>2. /\ NameEnd(msg, p) = t /\ t + 9 + d <= Len(msg)
        /\ msg[t + 1] = r.type /\ msg[t + 9] = d
        /\ \A y \in 1 .. d : msg[t + 9 + y] = r.data[y]
    BY Zenon DEF RecordAt
  <1>d. d = Len(r.data) /\ o = Len(r.owner) /\ t = p + o
    OBVIOUS
  <1> HIDE DEF o, d, t
  <1>3. CASE r.type = 1
    <2>1. d = 4 /\ t + 13 <= Len(msg)
      <3>1. d = 4
        BY <1>1, <1>3, Zenon
      <3>2. t + 9 + 4 <= Len(msg)
        BY <1>2, <3>1, Zenon
      <3> QED
        BY <1>0, <1>1, <3>1, <3>2
    <2>2. ~TooShort(msg, t)
      BY <1>0, <1>1, <2>1 DEF TooShort
    <2>3. FindTurn(msg, find, p) = SubSeq(msg, t + 10, t + 13)
      BY <1>2, <1>3, <2>1, <2>2 DEF FindTurn
    <2>4. SubSeq(msg, t + 10, t + 13) = r.data
      <3>1. t + 10 \in 1 .. Len(msg) + 1 /\ t + 13 \in t + 10 - 1 .. Len(msg) /\ t + 13 - (t + 10) + 1 = 4
        BY <1>0, <1>1, <2>1
      <3> DEFINE cut == SubSeq(msg, t + 10, t + 13)
      <3>2. /\ cut \in Seq(Nat) /\ Len(cut) = t + 13 - (t + 10) + 1
            /\ \A y \in 1 .. t + 13 - (t + 10) + 1 : cut[y] = msg[t + 10 + y - 1]
        BY <1>1, <3>1, SubSeqProperties
      <3> HIDE DEF cut
      <3>3. ASSUME NEW y \in 1 .. 4  PROVE cut[y] = r.data[y]
        <4>1. t + 10 + y - 1 = t + 9 + y /\ y \in 1 .. t + 13 - (t + 10) + 1
          BY <1>1, <3>1
        <4>2. cut[y] = msg[t + 10 + y - 1]
          BY <3>2, <4>1, Zenon
        <4>3. msg[t + 9 + y] = r.data[y]
          BY <1>2, <2>1, Zenon
        <4> QED
          BY <4>1, <4>2, <4>3, Zenon
      <3>4. Len(r.data) = 4 /\ Len(cut) = 4
        BY <1>d, <2>1, <3>1, <3>2, Zenon
      <3>5. cut = r.data
        BY <1>1, <3>2, <3>3, <3>4, SeqEqual
      <3> QED
        BY <3>5 DEF cut
    <2> QED
      BY <1>3, <2>3, <2>4, Zenon
  <1>4. CASE r.type # 1
    <2>1. Behind(msg, p) = p + o + d + 10
      BY <1>2, <1>d, Zenon DEF Behind
    <2>2. FindTurn(msg, find, p) = IF TooShort(msg, t) THEN <<>> ELSE find[Behind(msg, p)]
      BY <1>2, <1>4, Zenon DEF FindTurn
    <2> QED
      BY <1>d, <1>4, <2>1, <2>2, Zenon
  <1> QED
    BY <1>3, <1>4

\* The records lie one behind the other, up to the end, the k-th at start[k - 1].
Laid(msg, start, records, n) ==
  /\ start \in [0 .. n -> Nat] /\ start[n] = Len(msg) + 1
  /\ \A k \in 1 .. n : /\ IsRecord(records[k]) /\ RecordAt(msg, start[k - 1], records[k])
                       /\ start[k] = start[k - 1] + Len(records[k].owner) + Len(records[k].data) + 10

LEMMA RecordHas ==
  ASSUME NEW r, IsRecord(r)
  PROVE  Len(r.owner) \in Nat /\ Len(r.data) \in Nat /\ ~(Len(r.owner) < 2)
  BY LenProperties DEF IsRecord

LEMMA LaidAt ==
  ASSUME NEW msg, NEW n \in Nat, NEW records, NEW start, Laid(msg, start, records, n), NEW k \in 0 .. n - 1
  PROVE  /\ IsRecord(records[k + 1]) /\ RecordAt(msg, start[k], records[k + 1])
         /\ start[k] \in Nat /\ start[k + 1] \in Nat
         /\ start[k + 1] = start[k] + Len(records[k + 1].owner) + Len(records[k + 1].data) + 10
  <1>1. k + 1 \in 1 .. n /\ k + 1 - 1 = k /\ k \in 0 .. n /\ k + 1 \in 0 .. n
    OBVIOUS
  <1>2. start \in [0 .. n -> Nat]
    BY Zenon DEF Laid
  <1>3. /\ IsRecord(records[k + 1]) /\ RecordAt(msg, start[k + 1 - 1], records[k + 1])
        /\ start[k + 1] = start[k + 1 - 1] + Len(records[k + 1].owner) + Len(records[k + 1].data) + 10
    <2>1. \A m \in 1 .. n : /\ IsRecord(records[m]) /\ RecordAt(msg, start[m - 1], records[m])
                            /\ start[m] = start[m - 1] + Len(records[m].owner) + Len(records[m].data) + 10
      BY Zenon DEF Laid
    <2> QED
      BY <1>1, <2>1
  <1>4. start[k] \in Nat /\ start[k + 1] \in Nat
    BY <1>1, <1>2
  <1> QED
    BY <1>1, <1>3, <1>4, Zenon

\* No record fits in so little.
LEMMA ShortByLess ==
  ASSUME NEW a \in Nat, NEW b \in Nat, NEW o \in Nat, NEW d \in Nat, NEW u \in Nat, NEW v \in Nat,
         NEW l \in Nat, b = a + o + d + 10, b + u + 9 + v <= l, a + o + 14 > l + 1
  PROVE  u < 2
  OBVIOUS

\* Behind a record that is short of the end by less than a record, none follows.
LEMMA LastIsShort ==
  ASSUME NEW msg \in Seq(Nat), NEW n \in Nat, NEW records, NEW start, Laid(msg, start, records, n),
         NEW k \in 0 .. n - 1, TooShort(msg, start[k] + Len(records[k + 1].owner))
  PROVE  k + 1 = n
  <1> SUFFICES ASSUME k + 1 # n  PROVE FALSE
    OBVIOUS
  <1>0. Len(msg) \in Nat
    BY LenProperties
  <1>1. k + 1 \in 0 .. n - 1
    OBVIOUS
  <1> DEFINE r == records[k + 1]
             s == records[k + 1 + 1]
  <1>2. /\ IsRecord(r) /\ start[k] \in Nat /\ start[k + 1] \in Nat
        /\ start[k + 1] = start[k] + Len(r.owner) + Len(r.data) + 10
    BY LaidAt
  <1>3. IsRecord(s) /\ RecordAt(msg, start[k + 1], s)
    BY <1>1, LaidAt
  <1> HIDE DEF s
  <1>4. /\ Len(r.owner) \in Nat /\ Len(r.data) \in Nat
        /\ Len(s.owner) \in Nat /\ Len(s.data) \in Nat /\ ~(Len(s.owner) < 2)
    <2> HIDE DEF r
    <2> QED
      BY <1>2, <1>3, RecordHas
  <1>5. start[k + 1] + Len(s.owner) + 9 + Len(s.data) <= Len(msg)
    BY <1>3, Zenon DEF RecordAt
  <1>6. start[k] + Len(r.owner) + 14 > Len(msg) + 1
    BY Zenon DEF TooShort
  <1> HIDE DEF r
  <1> QED
    BY <1>0, <1>2, <1>4, <1>5, <1>6, ShortByLess

IsFind(msg, find) == \A q \in Nat : find[q] = FindTurn(msg, find, q)

\* From the first of n records on, the first address is found.
LEMMA FirstIsFound ==
  ASSUME NEW msg \in Seq(Nat), NEW n \in Nat, NEW records, NEW start, Laid(msg, start, records, n),
         NEW find, IsFind(msg, find)
  PROVE  find[start[0]] = FirstBehind(records, n, 0)
  <1> DEFINE T == {x \in 0 .. n : find[start[n - x]] # FirstBehind(records, n, n - x)}
  <1>0. Len(msg) \in Nat
    BY LenProperties
  <1>1. T = {}
    <2> SUFFICES ASSUME T # {}  PROVE FALSE
      OBVIOUS
    <2>0. T \subseteq 0 .. n
      OBVIOUS
    <2>1. PICK x \in T : \A y \in T : x <= y
      <3> HIDE DEF T
      <3> QED
        BY <2>0, Least
    <2>2. CASE x = 0
      <3>1. start[n] \in Nat /\ start[n] = Len(msg) + 1 /\ start[n] >= Len(msg)
        BY <1>0 DEF Laid
      <3>2. TooShort(msg, NameEnd(msg, start[n]))
        BY <3>1, TurnGoesOn
      <3>3. find[start[n]] = <<>>
        BY <3>1, <3>2, Zenon DEF FindTurn, IsFind
      <3>4. FirstBehind(records, n, n) = <<>>
        BY NoneBehind
      <3>5. n - x = n
        BY <2>2
      <3>6. find[start[n - x]] = FirstBehind(records, n, n - x)
        BY <3>3, <3>4, <3>5, Zenon
      <3> QED
        BY <2>1, <3>6
    <2>3. CASE x # 0
      <3>1. PICK k \in 0 .. n - 1 : k = n - x
        BY <2>0, <2>1, <2>3
      <3>2. find[start[k + 1]] = FirstBehind(records, n, k + 1)
        <4>1. x - 1 \in 0 .. n /\ ~(x <= x - 1) /\ n - (x - 1) = k + 1
          BY <2>0, <2>1, <2>3, <3>1
        <4>2. x - 1 \notin T
          BY <2>1, <4>1, Zenon
        <4>3. find[start[n - (x - 1)]] = FirstBehind(records, n, n - (x - 1))
          BY <4>1, <4>2
        <4> QED
          BY <4>1, <4>3, Zenon
      <3>3. /\ start[k] \in Nat /\ IsRecord(records[k + 1]) /\ RecordAt(msg, start[k], records[k + 1])
            /\ start[k + 1] = start[k] + Len(records[k + 1].owner) + Len(records[k + 1].data) + 10
        BY LaidAt
      <3> DEFINE r == records[k + 1]
      <3>4. find[start[k]] = FindTurn(msg, find, start[k])
        BY <3>3, Zenon DEF IsFind
      <3>5. find[start[k]] =
              IF r.type = 1 THEN r.data
              ELSE IF TooShort(msg, start[k] + Len(r.owner)) THEN <<>>
              ELSE find[start[k + 1]]
        <4> HIDE DEF r
        <4>1. IsRecord(r) /\ RecordAt(msg, start[k], r) /\ start[k + 1] = start[k] + Len(r.owner) + Len(r.data) + 10
          BY <3>3 DEF r
        <4>2. FindTurn(msg, find, start[k]) =
                IF r.type = 1 THEN r.data
                ELSE IF TooShort(msg, start[k] + Len(r.owner)) THEN <<>>
                ELSE find[start[k] + Len(r.owner) + Len(r.data) + 10]
          <5>1. start[k] \in Nat /\ IsRecord(r) /\ RecordAt(msg, start[k], r)
            BY <3>3, <4>1, Zenon
          <5> DEFINE p == start[k]
          <5> HIDE DEF p
          <5>2. FindTurn(msg, find, p) =
                  IF r.type = 1 THEN r.data
                  ELSE IF TooShort(msg, p + Len(r.owner)) THEN <<>>
                  ELSE find[p + Len(r.owner) + Len(r.data) + 10]
            BY <5>1, RecordTurn DEF p
          <5> QED
            BY <5>2 DEF p
        <4>3. find[start[k] + Len(r.owner) + Len(r.data) + 10] = find[start[k + 1]]
          BY <4>1, Zenon
        <4> QED
          BY <3>4, <4>2, <4>3, Zenon
      <3>6. FirstBehind(records, n, k) = IF r.type = 1 THEN r.data ELSE FirstBehind(records, n, k + 1)
        BY FirstOne
      <3>7. ASSUME TooShort(msg, start[k] + Len(r.owner))  PROVE FirstBehind(records, n, k + 1) = <<>>
        <4>1. k + 1 = n
          BY <3>7, LastIsShort
        <4> QED
          BY <4>1, NoneBehind
      <3> HIDE DEF r
      <3>8. find[start[k]] = FirstBehind(records, n, k)
        BY <3>2, <3>5, <3>6, <3>7
      <3>9. find[start[n - x]] = FirstBehind(records, n, n - x)
        BY <3>1, <3>8, Zenon
      <3> QED
        BY <2>1, <3>9
    <2> QED
      BY <2>2, <2>3
  <1>2. n \in 0 .. n /\ n - n = 0
    OBVIOUS
  <1>3. find[start[n - n]] = FirstBehind(records, n, n - n)
    BY <1>1, <1>2
  <1> QED
    BY <1>2, <1>3, Zenon

Octets == 0 .. 255
Letters == 1 .. 255
LEMMA OctetsAreNumbers == Octets \subseteq Nat /\ Letters \subseteq Nat
  BY DEF Octets, Letters

LEMMA SomeName ==
  HostName \in Seq(Seq(Letters)) /\ Len(HostName) \in Nat /\ Len(HostName) >= 1 /\ Len(HostName[1]) \in 1 .. 63
  <1>1. HostName \in Seq(Seq(Letters)) /\ HostName # <<>>
    BY DnsAssumption, Zenon DEF Letters
  <1>2. Len(HostName) \in Nat /\ Len(HostName) # 0
    BY <1>1, LenProperties, EmptySeq
  <1>3. 1 \in DOMAIN HostName
    BY <1>1, <1>2, LenProperties
  <1>4. Len(HostName[1]) \in 1 .. 63
    BY <1>3, DnsAssumption, Zenon
  <1> QED
    BY <1>1, <1>2, <1>4

\* A number in front of a sequence, and one behind it.
LEMMA InFront ==
  ASSUME NEW S, NEW x \in S, NEW b \in Seq(S)
  PROVE  <<x>> \o b \in Seq(S) /\ Len(<<x>> \o b) = 1 + Len(b) /\ (<<x>> \o b)[1] = x
  <1>1. <<x>> \in Seq(S) /\ Len(<<x>>) = 1 /\ <<x>>[1] = x
    OBVIOUS
  <1> DEFINE a == <<x>>
  <1> HIDE DEF a
  <1>2. /\ a \o b \in Seq(S) /\ Len(a \o b) = Len(a) + Len(b)
        /\ \A k \in 1 .. Len(a) + Len(b) : (a \o b)[k] = IF k <= Len(a) THEN a[k] ELSE b[k - Len(a)]
    BY <1>1, ConcatProperties DEF a
  <1>3. Len(a) = 1 /\ a[1] = x /\ Len(b) \in Nat
    BY <1>1, LenProperties DEF a
  <1>4. 1 \in 1 .. Len(a) + Len(b) /\ 1 <= Len(a)
    BY <1>3
  <1>5. (a \o b)[1] = a[1]
    BY <1>2, <1>4, Zenon
  <1> QED
    BY <1>2, <1>3, <1>5 DEF a

LEMMA AtTheEnd ==
  ASSUME NEW S, NEW f \in Seq(S), NEW x \in S, NEW l, l = f \o <<x>>
  PROVE  /\ l \in Seq(S) /\ Len(l) = Len(f) + 1 /\ l[Len(f) + 1] = x
         /\ \A k \in 1 .. Len(f) : l[k] = f[k]
  <1> DEFINE b == <<x>>
  <1>1. b \in Seq(S) /\ Len(b) = 1 /\ b[1] = x
    OBVIOUS
  <1>0. Len(f) \in Nat
    BY LenProperties
  <1>l. l = f \o b
    OBVIOUS
  <1> HIDE DEF b
  <1>2. /\ l \in Seq(S) /\ Len(l) = Len(f) + Len(b)
        /\ \A k \in 1 .. Len(f) + Len(b) : l[k] = IF k <= Len(f) THEN f[k] ELSE b[k - Len(f)]
    BY <1>1, <1>l, ConcatProperties
  <1>3. 1 \in 1 .. 1 /\ Len(f) + 1 \in 1 .. Len(f) + 1 /\ Len(f) + 1 - Len(f) = 1 /\ ~(Len(f) + 1 <= Len(f))
    BY <1>0
  <1>4. l[Len(f) + 1] = x
    <2>1. Len(f) + 1 \in 1 .. Len(f) + Len(b)
      BY <1>1, <1>3, Zenon
    <2>2. l[Len(f) + 1] = b[Len(f) + 1 - Len(f)]
      BY <1>2, <1>3, <2>1
    <2> QED
      BY <1>1, <1>3, <2>2, Zenon
  <1>5. ASSUME NEW k \in 1 .. Len(f)  PROVE l[k] = f[k]
    <2>1. k \in 1 .. Len(f) + Len(b) /\ k <= Len(f)
      BY <1>0, <1>1
    <2> QED
      BY <1>2, <2>1, Zenon
  <1> QED
    BY <1>1, <1>2, <1>4, <1>5

\* Bytes are numbers, and a label's length is one that is neither 0 nor a pointer's.
LEMMA BytesAreNumbers ==
  ASSUME NEW s, s \in Seq(Letters) \/ s \in Seq(Octets)  PROVE s \in Seq(Nat)
  <1>1. CASE s \in Seq(Letters)
    BY <1>1, OctetsAreNumbers, SeqMonotonic
  <1>2. CASE s \in Seq(Octets)
    BY <1>2, OctetsAreNumbers, SeqMonotonic
  <1> QED
    BY <1>1, <1>2, Zenon
LEMMA LabelLength == ASSUME NEW n \in 1 .. 63  PROVE n \in Letters /\ 1 + n >= 2 /\ n < 64
  BY DEF Letters
LEMMA NoZero == ASSUME NEW n \in Letters  PROVE n # 0
  BY DEF Letters
LEMMA FourBytes == ASSUME NEW S, NEW d \in [1 .. 4 -> S]  PROVE d \in Seq(S) /\ Len(d) = 4
  <1> DEFINE n == 4
  <1>1. n \in Nat /\ d \in [1 .. n -> S]
    OBVIOUS
  <1> HIDE DEF n
  <1>2. d \in Seq(S) /\ Len(d) = n
    BY <1>1
  <1> QED
    BY <1>2 DEF n

\* The name as it is written.
LEMMA LabelsAre == Labels(HostName) \in Seq(Nat) /\ IsName(Labels(HostName))
  <1> DEFINE seqs == [k \in DOMAIN HostName |-> <<Len(HostName[k])>> \o HostName[k]]
             f == FlattenSeq(seqs)
             zero == <<0>>
  <1>1. ASSUME NEW k \in DOMAIN HostName
        PROVE  <<Len(HostName[k])>> \o HostName[k] \in Seq(Letters) /\ Len(<<Len(HostName[k])>> \o HostName[k]) >= 2
               /\ (<<Len(HostName[k])>> \o HostName[k])[1] = Len(HostName[k])
    <2>1. Len(HostName[k]) \in 1 .. 63 /\ HostName[k] \in Seq(Letters)
      <3>1. HostName \in Seq(Seq(Letters)) /\ k \in 1 .. Len(HostName)
        BY SomeName, LenProperties
      <3>2. HostName[k] \in Seq(Letters)
        BY <3>1, ElementOfSeq
      <3> QED
        BY <3>2, DnsAssumption, Zenon
    <2>2. Len(HostName[k]) \in Letters /\ 1 + Len(HostName[k]) >= 2
      <3> DEFINE n == Len(HostName[k])
      <3>1. n \in 1 .. 63
        BY <2>1
      <3> HIDE DEF n
      <3>2. n \in Letters /\ 1 + n >= 2
        BY <3>1, LabelLength
      <3> QED
        BY <3>2 DEF n
    <2>3. /\ <<Len(HostName[k])>> \o HostName[k] \in Seq(Letters)
          /\ Len(<<Len(HostName[k])>> \o HostName[k]) = 1 + Len(HostName[k])
          /\ (<<Len(HostName[k])>> \o HostName[k])[1] = Len(HostName[k])
      <3> DEFINE n == Len(HostName[k])
                 b == HostName[k]
      <3>1. n \in Letters /\ b \in Seq(Letters)
        BY <2>1, <2>2, Zenon
      <3> HIDE DEF n, b
      <3>2. <<n>> \o b \in Seq(Letters) /\ Len(<<n>> \o b) = 1 + Len(b) /\ (<<n>> \o b)[1] = n
        BY <3>1, InFront
      <3> QED
        BY <3>2, Zenon DEF n, b
    <2> QED
      BY <2>2, <2>3, Zenon
  <1>2. /\ seqs \in Seq(Seq(Letters)) /\ Len(seqs) = Len(HostName) /\ Len(seqs) >= 1
        /\ Len(seqs[1]) >= 2 /\ seqs[1][1] = Len(HostName[1])
    <2>1. DOMAIN HostName = 1 .. Len(HostName) /\ Len(HostName) \in Nat /\ 1 \in DOMAIN HostName
      BY SomeName, LenProperties
    <2>2. seqs \in [1 .. Len(HostName) -> Seq(Letters)]
      BY <1>1, <2>1
    <2>3. seqs[1] = <<Len(HostName[1])>> \o HostName[1]
      BY <2>1
    <2>4. Len(seqs[1]) >= 2 /\ seqs[1][1] = Len(HostName[1])
      BY <1>1, <2>1, <2>3, Zenon
    <2> HIDE DEF seqs
    <2>5. seqs \in Seq(Seq(Letters)) /\ Len(seqs) = Len(HostName)
      <3> DEFINE S == Seq(Letters)
                 n == Len(HostName)
      <3>1. n \in Nat /\ seqs \in [1 .. n -> S]
        BY <2>1, <2>2
      <3> HIDE DEF S, n
      <3>2. seqs \in Seq(S) /\ Len(seqs) = n
        BY <3>1
      <3> QED
        BY <3>2 DEF S, n
    <2> QED
      BY <2>4, <2>5, SomeName
  <1> HIDE DEF seqs
  <1>3. PICK off : IsSum(off, Len(seqs), Lengths(seqs)) /\ IsFlat(f, seqs, Len(seqs), off, Letters)
    BY <1>2, FlatIs
  <1>4. f \in Seq(Letters) /\ Len(f) \in Nat /\ Len(f) >= 2 /\ f[1] = Len(HostName[1])
    <2>1. f \in Seq(Letters) /\ Len(f) \in Nat
      BY <1>3, LenProperties DEF IsFlat
    <2>2. 1 \in 1 .. Len(seqs) /\ 1 \in 1 .. Len(seqs[1]) /\ 1 - 1 = 0 /\ 0 + 1 = 1
      BY <1>2, LenProperties
    <2>3. off[0] = 0 /\ off[1] \in Nat /\ off[1] = off[1 - 1] + Len(seqs[1]) /\ Len(seqs[1]) \in Nat
      BY <1>2, <1>3, <2>2, Offsets
    <2>4. off[1] <= Len(f) /\ f[off[1 - 1] + 1] = seqs[1][1]
      BY <1>3, <2>2 DEF IsFlat
    <2>5. off[1] = Len(seqs[1])
      BY <2>3
    <2>6. Len(f) >= 2
      BY <1>2, <2>1, <2>3, <2>4, <2>5
    <2>7. f[1] = seqs[1][1]
      BY <2>2, <2>3, <2>4, Zenon
    <2> QED
      BY <1>2, <2>1, <2>6, <2>7, Zenon
  <1>5. Labels(HostName) = f \o zero
    BY DEF Labels, seqs
  <1> HIDE DEF f
  <1> DEFINE l == f \o zero
  <1>6. f \in Seq(Nat)
    BY <1>4, BytesAreNumbers
  <1>8. /\ l \in Seq(Nat) /\ Len(l) = Len(f) + 1 /\ l[Len(f) + 1] = 0
        /\ \A k \in 1 .. Len(f) : l[k] = f[k]
    <2>1. 0 \in Nat
      OBVIOUS
    <2> QED
      BY <1>6, <2>1, AtTheEnd
  <1>9. l[Len(l)] = 0
    BY <1>8
  <1> HIDE DEF l
  <1>10. \A k \in 1 .. Len(l) - 1 : l[k] # 0
    <2>1. Len(l) - 1 = Len(f)
      BY <1>4, <1>8
    <2>2. ASSUME NEW k \in 1 .. Len(f)  PROVE l[k] # 0
      <3>1. f[k] \in Letters
        BY <1>4, ElementOfSeq
      <3>2. l[k] = f[k]
        BY <1>8
      <3> QED
        BY <3>1, <3>2, NoZero, Zenon
    <2> QED
      BY <2>1, <2>2
  <1>11. l[1] < 64
    <2>1. 1 \in 1 .. Len(f)
      BY <1>4
    <2>2. Len(HostName[1]) < 64
      BY SomeName, LabelLength, Zenon
    <2>3. l[1] = f[1]
      BY <1>8, <2>1
    <2> QED
      BY <1>4, <2>2, <2>3
  <1>12. Len(l) >= 2
    BY <1>4, <1>8
  <1>13. IsName(l)
    BY <1>8, <1>9, <1>10, <1>11, <1>12 DEF IsName
  <1> QED
    BY <1>5, <1>8, <1>13 DEF l

\* What servers answer are records.
LEMMA RecordsAre == ASSUME NEW r \in Records  PROVE IsRecord(r)
  <1>1. r.owner \in Seq(Nat) /\ Len(r.owner) >= 2 /\ (r.owner = <<192, 12>> \/ IsName(r.owner))
    <2>1. r.owner = <<192, 12>> \/ r.owner = Labels(HostName)
      BY DEF Records, Owners
    <2>2. CASE r.owner = <<192, 12>>
      BY <2>2
    <2>3. CASE r.owner = Labels(HostName)
      BY <2>3, LabelsAre DEF IsName
    <2> QED
      BY <2>1, <2>2, <2>3
  <1>2. CASE r.type = 1 /\ r.data \in Addresses
    <2> DEFINE d == r.data
    <2>1. d \in [1 .. 4 -> Octets]
      BY <1>2, DnsAssumption, Zenon DEF Octets
    <2> HIDE DEF d
    <2>2. d \in Seq(Octets) /\ Len(d) = 4
      BY <2>1, FourBytes
    <2>3. d \in Seq(Nat)
      BY <2>2, BytesAreNumbers
    <2> QED
      BY <1>1, <1>2, <2>2, <2>3 DEF IsRecord, d
  <1>3. CASE r.type = 5 /\ r.data \in Aliases
    <2>1. r.data \in Seq(Octets)
      BY <1>3, DnsAssumption, Zenon DEF Octets
    <2>2. r.data \in Seq(Nat)
      BY <2>1, BytesAreNumbers
    <2> QED
      BY <1>1, <1>3, <2>2 DEF IsRecord
  <1> QED
    BY <1>2, <1>3 DEF Records

\* The beginning of the answer: its length is its first byte.
LEMMA AnswerBegins ==
  LET req == [dnsRequest(HostName, 7) EXCEPT ![3] = 129, ![4] = 128]
  IN req \in Seq(Nat) /\ Len(req) \in Nat /\ Len(req) >= 12 /\ req[1] = Len(req) /\ req[4] = 128
  <1> DEFINE tail == <<0, 1, 0, 1>>
             question == Labels(HostName) \o tail
             head == <<12 + Len(question), 7, 1, 0, 0, 1, 0, 0, 0, 0, 0, 0>>
             whole == head \o question
             req == [whole EXCEPT ![3] = 129, ![4] = 128]
  <1>1. question \in Seq(Nat) /\ Len(question) \in Nat
    <2>1. tail \in Seq(Nat)
      OBVIOUS
    <2> HIDE DEF tail
    <2>2. question \in Seq(Nat)
      BY <2>1, LabelsAre, ConcatProperties
    <2> HIDE DEF question
    <2> QED
      BY <2>2, LenProperties
  <1> HIDE DEF question
  <1>2. head \in Seq(Nat) /\ Len(head) = 12 /\ head[1] = 12 + Len(question)
    BY <1>1
  <1> HIDE DEF head
  <1>3. whole \in Seq(Nat) /\ Len(whole) = 12 + Len(question) /\ whole[1] = 12 + Len(question)
    <2>1. /\ whole \in Seq(Nat) /\ Len(whole) = Len(head) + Len(question)
          /\ \A k \in 1 .. Len(head) + Len(question) : whole[k] = IF k <= Len(head) THEN head[k] ELSE question[k - Len(head)]
      BY <1>1, <1>2, ConcatProperties
    <2>2. 1 \in 1 .. Len(head) + Len(question) /\ 1 <= Len(head)
      BY <1>1, <1>2
    <2> HIDE DEF whole
    <2> QED
      BY <1>1, <1>2, <2>1, <2>2
  <1> HIDE DEF whole
  <1>4. /\ req \in Seq(Nat) /\ Len(req) = Len(whole) /\ req[1] = whole[1] /\ req[4] = 128
    <2>1. whole \in [1 .. Len(whole) -> Nat] /\ 1 \in 1 .. Len(whole) /\ 3 \in 1 .. Len(whole) /\ 4 \in 1 .. Len(whole)
      BY <1>1, <1>3
    <2>2. req \in [1 .. Len(whole) -> Nat] /\ req[1] = whole[1] /\ req[4] = 128
      BY <2>1
    <2> HIDE DEF req
    <2>3. Len(whole) \in Nat
      BY <1>3, LenProperties
    <2> QED
      BY <2>2, <2>3
  <1>5. dnsRequest(HostName, 7) = whole
    BY DEF dnsRequest, whole, head, question
  <1> HIDE DEF req
  <1>6. req \in Seq(Nat) /\ Len(req) \in Nat /\ Len(req) >= 12 /\ req[1] = Len(req) /\ req[4] = 128
    BY <1>1, <1>3, <1>4
  <1> QED
    BY <1>5, <1>6 DEF req

LEMMA TwoParts ==
  ASSUME NEW S, NEW a \in Seq(S), NEW b \in Seq(S), NEW h, h = a \o b
  PROVE  /\ h \in Seq(S) /\ Len(h) = Len(a) + Len(b) /\ Len(a) \in Nat /\ Len(b) \in Nat
         /\ \A x \in 1 .. Len(a) : h[x] = a[x]
         /\ \A x \in 1 .. Len(b) : h[Len(a) + x] = b[x]
  <1>0. Len(a) \in Nat /\ Len(b) \in Nat
    BY LenProperties
  <1>1. /\ h \in Seq(S) /\ Len(h) = Len(a) + Len(b)
        /\ \A k \in 1 .. Len(a) + Len(b) : h[k] = IF k <= Len(a) THEN a[k] ELSE b[k - Len(a)]
    BY ConcatProperties
  <1>2. ASSUME NEW x \in 1 .. Len(a)  PROVE h[x] = a[x]
    BY <1>0, <1>1
  <1>3. ASSUME NEW x \in 1 .. Len(b)  PROVE h[Len(a) + x] = b[x]
    <2>1. Len(a) + x \in 1 .. Len(a) + Len(b) /\ Len(a) + x - Len(a) = x /\ ~(Len(a) + x <= Len(a))
      BY <1>0, Behind1
    <2>2. h[Len(a) + x] = b[Len(a) + x - Len(a)]
      BY <1>1, <2>1
    <2> QED
      BY <2>1, <2>2, Zenon
  <1> QED
    BY <1>0, <1>1, <1>2, <1>3

LEMMA FlatPlaces ==
  ASSUME NEW l \in Nat, NEW a \in Nat, NEW b \in Nat, NEW c \in Nat, NEW w \in Nat, b = a + w, b <= c,
         NEW p, p = l + 1 + a
  PROVE  /\ p \in Nat /\ p >= 1 /\ p + w <= l + c + 1
         /\ \A x \in 1 .. w : p - 1 + x = l + (a + x) /\ a + x \in 1 .. c
  OBVIOUS
LEMMA Turned == ASSUME NEW l \in Nat, NEW c \in Nat  PROVE l + 1 + c = l + c + 1
  OBVIOUS
LEMMA NextStart ==
  ASSUME NEW l \in Nat, NEW a \in Nat, NEW b \in Nat, NEW w \in Nat, NEW o \in Nat, NEW d \in Nat,
         b = a + w, w = o + 10 + d
  PROVE  l + 1 + b = l + 1 + a + o + d + 10
  OBVIOUS

AreWritten(seqs, records, n) ==
  /\ seqs \in Seq(Seq(Nat)) /\ Len(seqs) = n
  /\ \A k \in 1 .. n : IsRecord(records[k]) /\ seqs[k] = Written(records[k])
Follow(msg, req, f) == msg = req \o f
AreStarts(start, l, off, n) == start = [k \in 0 .. n |-> l + 1 + off[k]]

\* So the records lie one behind the other behind the query.
LEMMA LaidInAnswer ==
  ASSUME NEW req \in Seq(Nat), NEW n \in Nat, NEW records, NEW seqs, AreWritten(seqs, records, n),
         NEW off, IsSum(off, n, Lengths(seqs)), NEW f, IsFlat(f, seqs, n, off, Nat),
         NEW msg, Follow(msg, req, f), NEW start, AreStarts(start, Len(req), off, n)
  PROVE  Laid(msg, start, records, n)
  <1>1. /\ f \in Seq(Nat) /\ Len(f) = off[n]
        /\ \A k \in 1 .. n : off[k] <= Len(f) /\ \A x \in 1 .. Len(seqs[k]) : f[off[k - 1] + x] = seqs[k][x]
    BY Zenon DEF IsFlat
  <1>2. /\ msg \in Seq(Nat) /\ Len(msg) = Len(req) + Len(f) /\ Len(req) \in Nat /\ Len(f) \in Nat
        /\ \A x \in 1 .. Len(f) : msg[Len(req) + x] = f[x]
    <2>1. f \in Seq(Nat)
      BY <1>1, Zenon
    <2> QED
      BY <2>1, TwoParts DEF Follow
  <1>5. off \in [0 .. n -> Nat]
    BY DEF IsSum
  <1>6. start \in [0 .. n -> Nat] /\ start[n] = Len(msg) + 1
    <2>1. \A k \in 0 .. n : Len(req) + 1 + off[k] \in Nat
      BY <1>2, <1>5
    <2>2. n \in 0 .. n
      OBVIOUS
    <2>3. Len(req) + 1 + off[n] = Len(msg) + 1
      <3>1. Len(req) + 1 + Len(f) = Len(req) + Len(f) + 1
        BY <1>2, Turned
      <3> QED
        BY <1>1, <1>2, <3>1, Zenon
    <2> QED
      BY <2>1, <2>2, <2>3 DEF AreStarts
  <1>7. ASSUME NEW k \in 1 .. n
        PROVE  /\ IsRecord(records[k]) /\ RecordAt(msg, start[k - 1], records[k])
               /\ start[k] = start[k - 1] + Len(records[k].owner) + Len(records[k].data) + 10
    <2> DEFINE r == records[k]
               w == seqs[k]
               p == Len(req) + 1 + off[k - 1]
    <2>1. IsRecord(r) /\ w = Written(r) /\ seqs \in Seq(Seq(Nat)) /\ Len(seqs) = n
      BY Zenon DEF AreWritten
    <2>2. Len(w) \in Nat /\ off[k] \in Nat /\ off[k - 1] \in Nat /\ off[k] = off[k - 1] + Len(w)
      BY <2>1, Offsets
    <2>3. off[k] <= Len(f) /\ \A x \in 1 .. Len(w) : f[off[k - 1] + x] = w[x]
      BY <1>1
    <2>4. start[k - 1] = p /\ start[k] = Len(req) + 1 + off[k]
      <3>1. k - 1 \in 0 .. n /\ k \in 0 .. n
        OBVIOUS
      <3> QED
        BY <3>1 DEF AreStarts
    <2> HIDE DEF r, w
    <2>d. p = Len(req) + 1 + off[k - 1]
      OBVIOUS
    <2> HIDE DEF p
    <2>5. /\ p \in Nat /\ p >= 1 /\ p + Len(w) <= Len(req) + Len(f) + 1
          /\ \A x \in 1 .. Len(w) : p - 1 + x = Len(req) + (off[k - 1] + x) /\ off[k - 1] + x \in 1 .. Len(f)
      <3> DEFINE l == Len(req)
                 a == off[k - 1]
                 b == off[k]
                 c == Len(f)
                 v == Len(w)
      <3>1. l \in Nat /\ a \in Nat /\ b \in Nat /\ c \in Nat /\ v \in Nat /\ b = a + v /\ b <= c
        BY <1>2, <2>2, <2>3, Zenon
      <3>p. p = l + 1 + a
        BY <2>d
      <3> HIDE DEF l, a, b, c, v
      <3>3. /\ p \in Nat /\ p >= 1 /\ p + v <= l + c + 1
            /\ \A x \in 1 .. v : p - 1 + x = l + (a + x) /\ a + x \in 1 .. c
        BY <3>1, <3>p, FlatPlaces
      <3> QED
        BY <3>3 DEF l, a, c, v
    <2>6. ASSUME NEW x \in 1 .. Len(w)  PROVE msg[p - 1 + x] = w[x]
      <3>1. p - 1 + x = Len(req) + (off[k - 1] + x) /\ off[k - 1] + x \in 1 .. Len(f)
        BY <2>5, Zenon
      <3>2. msg[Len(req) + (off[k - 1] + x)] = f[off[k - 1] + x]
        BY <1>2, <3>1, Zenon
      <3> QED
        BY <2>3, <3>1, <3>2, Zenon
    <2>7. RecordAt(msg, p, r)
      <3>1. p + Len(w) <= Len(msg) + 1
        BY <1>2, <2>5, Zenon
      <3> QED
        BY <1>2, <2>1, <2>5, <2>6, <3>1, RecordLies
    <2>8. Len(w) = Len(r.owner) + 10 + Len(r.data) /\ Len(r.owner) \in Nat /\ Len(r.data) \in Nat
      BY <2>1, WrittenIs DEF IsWritten
    <2>9. start[k] = start[k - 1] + Len(r.owner) + Len(r.data) + 10
      <3> DEFINE l == Len(req)
                 a == off[k - 1]
                 b == off[k]
                 u == Len(w)
                 o == Len(r.owner)
                 d == Len(r.data)
      <3>1. /\ l \in Nat /\ a \in Nat /\ b \in Nat /\ u \in Nat /\ o \in Nat /\ d \in Nat
            /\ b = a + u /\ u = o + 10 + d
        BY <1>2, <2>2, <2>8, Zenon
      <3> HIDE DEF l, a, b, u, o, d
      <3>2. l + 1 + b = l + 1 + a + o + d + 10
        BY <3>1, NextStart
      <3> QED
        BY <2>4, <2>d, <3>2, Zenon DEF l, a, b, o, d
    <2> QED
      BY <2>1, <2>4, <2>7, <2>9, Zenon DEF r
  <1> QED
    BY <1>6, <1>7, Zenon DEF Laid

\* The property itself.
LEMMA AddressFound == DnsFindsAddress
  <1> SUFFICES ASSUME NEW n \in 0 .. MaxRecords, NEW records \in [1 .. n -> Records]
               PROVE  LET as == {k \in DOMAIN records : records[k].type = 1}
                      IN checkForDnsAnswer(Answer(records)) =
                           IF as = {} THEN <<>> ELSE records[CHOOSE k \in as : \A j \in as : k <= j].data
    BY DEF DnsFindsAddress
  <1> DEFINE req == [dnsRequest(HostName, 7) EXCEPT ![3] = 129, ![4] = 128]
             seqs == [k \in 1 .. n |-> Written(records[k])]
             f == FlattenSeq(seqs)
             msg == req \o f
  <1>0. n \in Nat /\ 1 .. n = 0 + 1 .. n /\ DOMAIN records = 1 .. n
    BY DnsAssumption
  <1>n. n \in Nat
    BY <1>0
  <1>1. req \in Seq(Nat) /\ Len(req) \in Nat /\ Len(req) >= 12 /\ req[1] = Len(req) /\ req[4] = 128
    BY AnswerBegins
  <1>2. ASSUME NEW k \in 1 .. n  PROVE IsRecord(records[k]) /\ Written(records[k]) \in Seq(Nat)
    <2>1. IsRecord(records[k])
      BY RecordsAre
    <2> QED
      BY <2>1, WrittenIs DEF IsWritten
  <1>3. seqs \in Seq(Seq(Nat)) /\ Len(seqs) = n /\ \A k \in 1 .. n : seqs[k] = Written(records[k])
    <2>1. seqs \in [1 .. n -> Seq(Nat)] /\ \A k \in 1 .. n : seqs[k] = Written(records[k])
      BY <1>2
    <2> DEFINE S == Seq(Nat)
    <2> HIDE DEF S, seqs
    <2>2. seqs \in Seq(S) /\ Len(seqs) = n
      BY <1>0, <2>1 DEF S
    <2> QED
      BY <2>1, <2>2 DEF S
  <1>4. Answer(records) = msg
    BY <1>0, Zenon DEF Answer
  <1> HIDE DEF req, seqs
  <1>5. PICK off : IsSum(off, n, Lengths(seqs)) /\ IsFlat(f, seqs, n, off, Nat)
    BY <1>3, FlatIs
  <1> HIDE DEF f
  <1> DEFINE start == [k \in 0 .. n |-> Len(req) + 1 + off[k]]
  <1>m. msg = req \o f
    OBVIOUS
  <1>s. start = [k \in 0 .. n |-> Len(req) + 1 + off[k]]
    OBVIOUS
  <1> HIDE DEF msg, start
  <1>6. Laid(msg, start, records, n)
    <2>1. AreWritten(seqs, records, n)
      BY <1>2, <1>3, Zenon DEF AreWritten
    <2>2. AreStarts(start, Len(req), off, n)
      BY <1>s, Zenon DEF AreStarts
    <2>3. req \in Seq(Nat) /\ Follow(msg, req, f)
      BY <1>1, <1>m, Zenon DEF Follow
    <2> QED
      BY <1>n, <1>5, <2>1, <2>2, <2>3, LaidInAnswer, Zenon
  <1>7. f \in Seq(Nat) /\ Len(f) \in Nat
    BY <1>5, LenProperties DEF IsFlat
  <1>8. msg \in Seq(Nat) /\ msg[1] = Len(req) /\ msg[4] = 128
    <2>1. msg \in Seq(Nat) /\ \A x \in 1 .. Len(req) : msg[x] = req[x]
      BY <1>1, <1>7, <1>m, TwoParts
    <2>2. 1 \in 1 .. Len(req) /\ 4 \in 1 .. Len(req)
      BY <1>1
    <2>3. msg[1] = req[1] /\ msg[4] = req[4]
      BY <2>1, <2>2
    <2> QED
      BY <1>1, <2>1, <2>3
  <1>9. checkForDnsAnswer(msg) = FindA(msg, 1 + Len(req))
    <2>1. 128 % 16 = 0
      OBVIOUS
    <2> QED
      BY <1>8, <2>1, Zenon DEF checkForDnsAnswer
  <1>10. PICK find : IsFind(msg, find) /\ \A p : FindA(msg, p) = find[p]
    BY <1>8, SearchIs DEF IsFind
  <1>11. find[start[0]] = FirstBehind(records, n, 0)
    BY <1>n, <1>6, <1>8, <1>10, FirstIsFound
  <1>12. start[0] = 1 + Len(req)
    <2>1. off[0] = 0 /\ 0 \in 0 .. n
      BY <1>0, <1>5 DEF IsSum
    <2> QED
      BY <1>1, <1>s, <2>1
  <1>13. checkForDnsAnswer(Answer(records)) = FirstBehind(records, n, 0)
    BY <1>4, <1>9, <1>10, <1>11, <1>12, Zenon
  <1>14. AddressesBehind(records, n, 0) = {k \in DOMAIN records : records[k].type = 1}
    BY <1>0, Zenon DEF AddressesBehind
  <1> QED
    BY <1>13, <1>14, Zenon DEF FirstBehind

\* Whatever name is asked for, whatever addresses and aliases servers give, and
\* however many records are in their answers, the client takes the first
\* address, or none where there is none (checkForDnsAnswer, dns.cpp).
THEOREM AddressesAreFound == ServersSpec => []DnsAddressFound
  <1>1. DnsAddressFound
    BY AddressFound DEF DnsAddressFound
  <1> QED
    BY <1>1, PTL

----------------------------------------------------------------------------
(* The inductive invariant: every segment under way is one of seven kinds. *)

Ended(p) == peer[p].state \in {"closing", "done"}
Opened(p) == peer[p].state = "open" \/ Ended(p)

\* From the peer.
IsSyn(s) == s.to = "board" /\ s.flags = {"SYN"} /\ s.seq = 0 /\ s.part = None
IsRequest(s) ==
  /\ s.to = "board" /\ s.flags = {"ACK"} /\ s.part \in {None, 0}
  /\ Opened(s.p) /\ s.seq = 1 /\ s.ack = peer[s.p].first + 1
IsFin(s) ==
  /\ s.to = "board" /\ s.flags = {"FIN", "ACK"} /\ s.part = None
  /\ Ended(s.p) /\ s.seq = 1 + Request /\ s.ack = peer[s.p].first + 2 + parts * PartLen

\* From the board.
IsSynAck(s) ==
  s.to = "peer" /\ s.flags = {"SYN", "ACK"} /\ s.part = None /\ s.seq \in Nat
Asked(s) == \E r \in net : IsRequest(r) /\ r.part = 0 /\ r.p = s.p
IsAck(s) ==
  /\ s.to = "peer" /\ s.flags = {"ACK"} /\ s.part = None
  /\ Opened(s.p) /\ s.seq = peer[s.p].first + 1 /\ s.ack = 1 + Request /\ Asked(s)
IsPart(s) ==
  /\ s.to = "peer" /\ s.part \in 1 .. parts
  /\ s.flags = IF s.part = parts THEN {"ACK", "PSH", "FIN"} ELSE {"ACK"}
  /\ Opened(s.p) /\ s.seq = peer[s.p].first + 1 + (s.part - 1) * PartLen
  /\ s.ack = 1 + Request /\ Asked(s)
IsFinAck(s) ==
  /\ s.to = "peer" /\ s.flags = {"ACK"} /\ s.part = None
  /\ Opened(s.p) /\ s.seq = peer[s.p].first + 2 + parts * PartLen /\ s.ack = 2 + Request
  /\ \E f \in net : IsFin(f) /\ f.p = s.p

Known(s) ==
  /\ s.p \in Peers
  /\ \/ IsSyn(s) \/ IsRequest(s) \/ IsFin(s)
     \/ IsSynAck(s) \/ IsAck(s) \/ IsPart(s) \/ IsFinAck(s)

Stream == UNION {[D -> Nat] : D \in SUBSET (1 .. MaxParts)}
Conn == [state : {"closed", "synsent", "open", "closing", "done"}, first : Int,
         got : Stream, end : Int]
PeersHold ==
  /\ peer \in [Peers -> Conn]
  /\ \A p \in Peers : /\ Opened(p) => peer[p].first \in Nat
                      /\ \A j \in DOMAIN peer[p].got : peer[p].got[j] = j
                      /\ peer[p].end \in {None, parts}

ServerInv ==
  /\ seqnum \in 0 .. SeqnumMod - 1 /\ parts \in 1 .. MaxParts
  /\ PeersHold
  /\ \A s \in net : Known(s)

----------------------------------------------------------------------------
LEMMA Numbers ==
  /\ Request \in Nat /\ Request >= 1 /\ MaxParts \in Nat /\ MaxParts >= 1
  /\ PartLen \in Nat /\ PartLen >= 1 /\ SeqnumMod \in Nat /\ SeqnumMod >= 1
  BY TcpServerAssumption

LEMMA InvImpliesPageInOrder == ServerInv => PageInOrder
  <1> SUFFICES ASSUME ServerInv  PROVE PageInOrder
    OBVIOUS
  <1>1. ASSUME NEW s \in net
        PROVE  /\ s.p \in Peers /\ s.to \in {"board", "peer"}
               /\ s.flags \subseteq {"SYN", "ACK", "PSH", "FIN"}
               /\ s.part \in {None} \cup 0 .. MaxParts
    BY Numbers DEF ServerInv, Known, IsSyn, IsRequest, IsFin, IsSynAck, IsAck, IsPart, IsFinAck
  <1>2. TypeOK
    BY <1>1 DEF ServerInv, PeersHold, Conn, TypeOK
  <1> QED  BY <1>2 DEF ServerInv, PeersHold, PageInOrder

LEMMA InvImpliesOneConnection == ServerInv => OneConnection
  <1> SUFFICES ASSUME ServerInv, NEW s \in net, s.to = "peer", "SYN" \notin s.flags
               PROVE  /\ s.seq - (peer[s.p].first + 1)
                           \in {k * PartLen : k \in 0 .. parts} \cup {parts * PartLen + 1}
                      /\ \E u \in net : u.to = "board" /\ u.p = s.p
                           /\ s.ack = u.seq + get_tcp_data_len(u) + (IF "FIN" \in u.flags THEN 1 ELSE 0)
    BY DEF OneConnection
  <1>1. /\ s.p \in Peers /\ parts \in 1 .. MaxParts
        /\ IsAck(s) \/ IsPart(s) \/ IsFinAck(s)
    BY DEF ServerInv, Known, IsSyn, IsRequest, IsFin, IsSynAck
  <1>2. peer[s.p].first \in Nat
    BY <1>1 DEF ServerInv, PeersHold, IsAck, IsPart, IsFinAck
  <1>3. CASE IsAck(s) \/ IsPart(s)
    <2>1. PICK k \in 0 .. parts : s.seq = peer[s.p].first + 1 + k * PartLen
      <3>1. CASE IsAck(s)
        <4>1. 0 \in 0 .. parts /\ 0 * PartLen = 0
          BY <1>1, Numbers
        <4>2. s.seq = peer[s.p].first + 1 + 0 * PartLen
          BY <1>2, <3>1, <4>1 DEF IsAck
        <4> QED  BY <4>1, <4>2
      <3>2. CASE IsPart(s)
        <4>1. s.part - 1 \in 0 .. parts
          BY <1>1, <3>2, Numbers DEF IsPart
        <4> QED  BY <3>2, <4>1 DEF IsPart
      <3> QED  BY <1>3, <3>1, <3>2
    <2>2. k * PartLen \in Nat
      BY <1>1, Numbers
    <2>3. PICK u \in net : IsRequest(u) /\ u.part = 0 /\ u.p = s.p
      BY <1>3 DEF IsAck, IsPart, Asked
    <2>4. u.to = "board" /\ s.ack = u.seq + get_tcp_data_len(u) + (IF "FIN" \in u.flags THEN 1 ELSE 0)
      BY <1>3, <2>3, Numbers DEF IsAck, IsPart, IsRequest, get_tcp_data_len, None
    <2>5. s.seq - (peer[s.p].first + 1) = k * PartLen
      BY <1>2, <2>1, <2>2
    <2> QED  BY <2>3, <2>4, <2>5
  <1>4. CASE IsFinAck(s)
    <2>1. parts * PartLen \in Nat
      BY <1>1, Numbers
    <2>2. PICK u \in net : IsFin(u) /\ u.p = s.p
      BY <1>4 DEF IsFinAck
    <2>3. u.to = "board" /\ s.ack = u.seq + get_tcp_data_len(u) + (IF "FIN" \in u.flags THEN 1 ELSE 0)
      BY <1>4, <2>2, Numbers DEF IsFinAck, IsFin, get_tcp_data_len
    <2>4. s.seq - (peer[s.p].first + 1) = parts * PartLen + 1
      BY <1>2, <1>4, <2>1 DEF IsFinAck
    <2> QED  BY <2>2, <2>3, <2>4
  <1> QED  BY <1>1, <1>3, <1>4

LEMMA ServerInit == Init => ServerInv
  <1> SUFFICES ASSUME Init  PROVE ServerInv
    OBVIOUS
  <1>1. Closed \in Conn /\ DOMAIN Closed.got = {}
    <2>1. <<>> \in [{} -> Nat] /\ DOMAIN <<>> = {}
      OBVIOUS
    <2>2. <<>> \in Stream
      BY <2>1 DEF Stream
    <2>3. None \in Int
      BY DEF None
    <2> QED  BY <2>1, <2>2, <2>3 DEF Closed, Conn
  <1>2. peer \in [Peers -> Conn] /\ \A p \in Peers : peer[p] = Closed
    BY <1>1 DEF Init
  <1>3. PeersHold
    BY <1>1, <1>2 DEF PeersHold, Closed, Opened, Ended
  <1> QED  BY <1>3 DEF Init, ServerInv

----------------------------------------------------------------------------
(* What is known of a segment stays known as connections go on.            *)

GoesOn ==
  /\ parts' = parts /\ net \subseteq net'
  /\ \A p \in Peers : /\ Opened(p) => Opened(p)' /\ peer'[p].first = peer[p].first
                      /\ Ended(p) => Ended(p)'

LEMMA StaysKnown ==
  ASSUME ServerInv, GoesOn, NEW s \in net
  PROVE  Known(s)'
  <1>0. Known(s) /\ \A r \in net : r.p \in Peers
    BY DEF ServerInv, Known
  <1>1. ASSUME NEW r \in net
        PROVE  (IsRequest(r) => IsRequest(r)') /\ (IsFin(r) => IsFin(r)')
    BY <1>0 DEF GoesOn, IsRequest, IsFin, Opened, Ended
  <1>2. Asked(s) => Asked(s)'
    BY <1>1 DEF GoesOn, Asked
  <1>3. (\E f \in net : IsFin(f) /\ f.p = s.p) => \E f \in net' : IsFin(f)' /\ f.p = s.p
    BY <1>1 DEF GoesOn
  <1>4. (IsAck(s) => IsAck(s)') /\ (IsPart(s) => IsPart(s)')
    BY <1>0, <1>2 DEF GoesOn, IsAck, IsPart, Known, Opened, Ended
  <1>5. IsFinAck(s) => IsFinAck(s)'
    BY <1>0, <1>3 DEF GoesOn, IsFinAck, Known, Opened, Ended
  <1> QED  BY <1>0, <1>1, <1>4, <1>5 DEF Known, IsSyn, IsSynAck

\* What the board sends leaves the peers as they are.
LEMMA BoardSends ==
  ASSUME ServerInv, NEW new, net' = net \cup new, UNCHANGED <<parts, peer>>,
         seqnum' \in 0 .. SeqnumMod - 1, \A s \in new : Known(s)'
  PROVE  ServerInv'
  <1>1. GoesOn
    BY DEF GoesOn, Opened, Ended
  <1>2. \A s \in net' : Known(s)'
    BY <1>1, StaysKnown
  <1>3. PeersHold'
    BY DEF ServerInv, PeersHold, Opened, Ended
  <1> QED  BY <1>2, <1>3 DEF ServerInv

\* What a peer does, and sends to the board.
LEMMA PeerSends ==
  ASSUME ServerInv, NEW new, net' = net \cup new, UNCHANGED <<seqnum, parts>>,
         NEW p \in Peers, NEW c \in Conn, peer' = [peer EXCEPT ![p] = c],
         Opened(p) => c.state \in {"open", "closing", "done"} /\ c.first = peer[p].first,
         Ended(p) => c.state \in {"closing", "done"},
         c.state \in {"open", "closing", "done"} => c.first \in Nat,
         \A j \in DOMAIN c.got : c.got[j] = j, c.end \in {None, parts},
         \A s \in new : Known(s)'
  PROVE  ServerInv'
  <1>1. peer \in [Peers -> Conn]
    BY DEF ServerInv, PeersHold
  <1>2. /\ peer' \in [Peers -> Conn] /\ peer'[p] = c
        /\ \A q \in Peers : q # p => peer'[q] = peer[q]
    BY <1>1
  <1>3. \A q \in Peers : /\ Opened(q) => Opened(q)' /\ peer'[q].first = peer[q].first
                         /\ Ended(q) => Ended(q)'
    BY <1>2 DEF Opened, Ended
  <1>4. GoesOn
    BY <1>3 DEF GoesOn
  <1>5. \A s \in net' : Known(s)'
    BY <1>4, StaysKnown
  <1>6. PeersHold'
    BY <1>2 DEF ServerInv, PeersHold, Opened, Ended
  <1> QED  BY <1>5, <1>6 DEF ServerInv

LEMMA Quotient ==
  ASSUME NEW a \in Nat, NEW n \in Nat, n >= 1
  PROVE  (a * n) \div n = a
  OBVIOUS

----------------------------------------------------------------------------
(* The board.                                                              *)

LEMMA AcceptSynKeeps ==
  ASSUME ServerInv, NEW s \in net, AcceptSyn(s)
  PROVE  ServerInv'
  <1>0. PICK r, new : r = make_tcp_synack_from_syn(s) /\ new = {r}
    OBVIOUS
  <1>1. s.p \in Peers /\ seqnum \in 0 .. SeqnumMod - 1
    BY DEF ServerInv, Known
  <1>2. r.p = s.p /\ r.to = "peer" /\ r.flags = {"SYN", "ACK"} /\ r.part = None /\ r.seq = 256 * seqnum
    BY <1>0 DEF make_tcp_synack_from_syn, make_tcphead, Seg
  <1>3. 256 * seqnum \in Nat
    BY <1>1, Numbers
  <1>4. seqnum' \in 0 .. SeqnumMod - 1
    BY <1>1, Numbers DEF AcceptSyn, StepSeqnum
  <1>5. net' = net \cup new /\ UNCHANGED <<parts, peer>>
    BY <1>0 DEF AcceptSyn, Send
  <1>6. \A n \in new : Known(n)'
    BY <1>0, <1>1, <1>2, <1>3 DEF Known, IsSynAck
  <1> QED  BY <1>4, <1>5, <1>6, BoardSends

LEMMA AcceptDataKeeps ==
  ASSUME ServerInv, NEW s \in net, AcceptData(s)
  PROVE  ServerInv'
  <1>0. PICK ack, new : /\ ack = Seg(s.p, "peer", {"ACK"}, s.ack, 1 + Request, None)
                        /\ new = {ack} \cup {make_tcp_ack_with_data(ack, k) : k \in 1 .. parts}
    OBVIOUS
  <1>1. s.p \in Peers /\ IsRequest(s) /\ s.part = 0 /\ s.seq = 1 /\ s.ack = peer[s.p].first + 1
    BY Numbers DEF ServerInv, Known, AcceptData, Arrives, get_tcp_data_len, None,
                   IsSyn, IsRequest, IsFin, IsSynAck, IsAck, IsPart, IsFinAck
  <1>2. make_tcp_ack_from_any(s, Request) = ack
    BY <1>0, <1>1, Numbers DEF make_tcp_ack_from_any, make_tcphead
  <1>3. net' = net \cup new /\ UNCHANGED <<seqnum, parts, peer>>
    BY <1>0, <1>2 DEF AcceptData, Send, httpServerReply
  <1>4. /\ ack.p = s.p /\ ack.to = "peer" /\ ack.flags = {"ACK"} /\ ack.seq = s.ack
        /\ ack.ack = 1 + Request /\ ack.part = None
    BY <1>0 DEF Seg
  <1>5. IsRequest(s)' /\ Opened(s.p)' /\ s \in net'
    BY <1>1, <1>3 DEF IsRequest, Opened, Ended
  <1>6. ASSUME NEW n \in new  PROVE Known(n)'
    <2>1. CASE n = ack
      <3>1. Asked(n)'
        BY <1>1, <1>4, <1>5, <2>1 DEF Asked
      <3> QED  BY <1>1, <1>3, <1>4, <1>5, <2>1, <3>1 DEF Known, IsAck
    <2>2. CASE \E k \in 1 .. parts : n = make_tcp_ack_with_data(ack, k)
      <3>1. PICK k \in 1 .. parts : n = make_tcp_ack_with_data(ack, k)
        BY <2>2
      <3>2. /\ n.p = s.p /\ n.to = "peer" /\ n.part = k
            /\ n.flags = IF k = parts THEN {"ACK", "PSH", "FIN"} ELSE {"ACK"}
            /\ n.seq = s.ack + (k - 1) * PartLen /\ n.ack = 1 + Request
        BY <1>0, <3>1 DEF Seg, make_tcp_ack_with_data
      <3>3. Asked(n)'
        BY <1>1, <1>5, <3>2 DEF Asked
      <3> QED  BY <1>1, <1>3, <1>5, <3>2, <3>3 DEF Known, IsPart
    <2> QED  BY <1>0, <2>1, <2>2
  <1>7. seqnum' \in 0 .. SeqnumMod - 1
    BY <1>3 DEF ServerInv
  <1> QED  BY <1>3, <1>6, <1>7, BoardSends

LEMMA AcceptFinKeeps ==
  ASSUME ServerInv, NEW s \in net, AcceptFin(s)
  PROVE  ServerInv'
  <1>0. PICK ack, new : ack = make_tcp_ack_from_any(s, 0) /\ new = {ack}
    OBVIOUS
  <1>1. /\ s.p \in Peers /\ IsFin(s) /\ s.seq = 1 + Request
        /\ s.ack = peer[s.p].first + 2 + parts * PartLen
    BY Numbers DEF ServerInv, Known, AcceptFin, Arrives,
                   IsSyn, IsRequest, IsFin, IsSynAck, IsAck, IsPart, IsFinAck
  <1>2. /\ ack.p = s.p /\ ack.to = "peer" /\ ack.flags = {"ACK"} /\ ack.seq = s.ack
        /\ ack.ack = 2 + Request /\ ack.part = None
    BY <1>0, <1>1, Numbers DEF make_tcp_ack_from_any, make_tcphead, Seg
  <1>3. net' = net \cup new /\ UNCHANGED <<seqnum, parts, peer>>
    BY <1>0 DEF AcceptFin, Send
  <1>4. IsFin(s)' /\ Opened(s.p)' /\ s \in net'
    BY <1>1, <1>3 DEF IsFin, Opened, Ended
  <1>5. \A n \in new : Known(n)'
    BY <1>0, <1>1, <1>2, <1>3, <1>4 DEF Known, IsFinAck
  <1>6. seqnum' \in 0 .. SeqnumMod - 1
    BY <1>3 DEF ServerInv
  <1> QED  BY <1>3, <1>5, <1>6, BoardSends

----------------------------------------------------------------------------
(* The peers.                                                              *)

LEMMA PeerSynKeeps ==
  ASSUME ServerInv, NEW p \in Peers, PeerSyn(p)
  PROVE  ServerInv'
  <1>0. PICK r, c, new :
                    /\ r = Seg(p, "board", {"SYN"}, 0, 0, None) /\ new = {r}
                    /\ c = [peer[p] EXCEPT !.state = "synsent"]
    OBVIOUS
  <1>1. /\ net' = net \cup new /\ UNCHANGED <<seqnum, parts>>
        /\ peer' = [peer EXCEPT ![p] = c] /\ ~Opened(p) /\ ~Ended(p)
    BY <1>0 DEF PeerSyn, Send, Opened, Ended
  <1>2. peer[p] \in Conn /\ \A j \in DOMAIN peer[p].got : peer[p].got[j] = j /\ peer[p].end \in {None, parts}
    BY DEF ServerInv, PeersHold
  <1>3. c \in Conn /\ c.state = "synsent" /\ c.got = peer[p].got /\ c.end = peer[p].end
    BY <1>0, <1>2 DEF Conn
  <1>4. \A n \in new : Known(n)'
    BY <1>0 DEF Known, IsSyn, Seg
  <1>5. peer[p].end \in {None, parts}
    BY DEF ServerInv, PeersHold
  <1> QED  BY <1>1, <1>2, <1>3, <1>4, <1>5, PeerSends

LEMMA PeerSynAckKeeps ==
  ASSUME ServerInv, NEW s \in net, PeerSynAck(s)
  PROVE  ServerInv'
  <1>0. PICK c, new : /\ c = [peer[s.p] EXCEPT !.state = "open", !.first = s.seq]
                      /\ new = {Seg(s.p, "board", {"ACK"}, 1, s.seq + 1, part) : part \in {None, 0}}
    OBVIOUS
  <1>1. s.p \in Peers /\ s.seq \in Nat
    BY DEF ServerInv, Known, PeerSynAck, IsSyn, IsRequest, IsFin, IsSynAck, IsAck, IsPart, IsFinAck
  <1>2. /\ peer[s.p] \in Conn /\ peer \in [Peers -> Conn]
        /\ \A j \in DOMAIN peer[s.p].got : peer[s.p].got[j] = j
        /\ peer[s.p].end \in {None, parts}
    BY <1>1 DEF ServerInv, PeersHold
  <1>3. /\ c \in Conn /\ c.state = "open" /\ c.first = s.seq
        /\ c.got = peer[s.p].got /\ c.end = peer[s.p].end
    <2>1. s.seq \in Int
      BY <1>1
    <2> QED  BY <1>0, <1>2, <2>1 DEF Conn
  <1>4. /\ net' = net \cup new /\ UNCHANGED <<seqnum, parts>>
        /\ peer' = [peer EXCEPT ![s.p] = c] /\ ~Opened(s.p) /\ ~Ended(s.p)
    BY <1>0, <1>1, <1>2 DEF PeerSynAck, Send, Opened, Ended
  <1>5. peer'[s.p] = c
    BY <1>1, <1>2, <1>4
  <1>6. \A n \in new : Known(n)'
    <2> SUFFICES ASSUME NEW n \in new  PROVE Known(n)'
      OBVIOUS
    <2>1. PICK part \in {None, 0} : n = Seg(s.p, "board", {"ACK"}, 1, s.seq + 1, part)
      BY <1>0
    <2>2. /\ n.p = s.p /\ n.to = "board" /\ n.flags = {"ACK"} /\ n.seq = 1
          /\ n.ack = s.seq + 1 /\ n.part \in {None, 0}
      BY <2>1 DEF Seg
    <2> QED  BY <1>1, <1>3, <1>5, <2>2 DEF Known, IsRequest, Opened
  <1> QED  BY <1>1, <1>2, <1>3, <1>4, <1>6, PeerSends

LEMMA PeerDataKeeps ==
  ASSUME ServerInv, NEW s \in net, PeerData(s)
  PROVE  ServerInv'
  <1> DEFINE offset == s.seq - (peer[s.p].first + 1)
             k == offset \div PartLen + 1
  <1>1. s.p \in Peers /\ IsPart(s) /\ parts \in 1 .. MaxParts
    BY DEF ServerInv, Known, PeerData, IsSyn, IsRequest, IsFin, IsSynAck, IsAck, IsPart, IsFinAck
  <1>2. /\ peer[s.p] \in Conn /\ peer \in [Peers -> Conn] /\ peer[s.p].state = "open"
        /\ peer[s.p].first \in Nat
        /\ \A j \in DOMAIN peer[s.p].got : peer[s.p].got[j] = j
        /\ peer[s.p].end \in {None, parts}
    BY <1>1 DEF ServerInv, PeersHold, PeerData, Opened
  <1>3. k = s.part /\ k \in 1 .. MaxParts
    <2>1. s.part - 1 \in Nat /\ s.part \in 1 .. MaxParts
      BY <1>1, Numbers DEF IsPart
    <2>2. (s.part - 1) * PartLen \in Nat
      BY <2>1, Numbers
    <2>3. offset = (s.part - 1) * PartLen
      BY <1>1, <1>2, <2>2 DEF IsPart
    <2>4. ((s.part - 1) * PartLen) \div PartLen = s.part - 1
      BY <2>1, Numbers, Quotient
    <2> QED  BY <2>1, <2>3, <2>4
  <1>4. PICK got, end : /\ got = [j \in DOMAIN peer[s.p].got \cup {k} |->
                                    IF j = k THEN s.part ELSE peer[s.p].got[j]]
                        /\ end = IF "FIN" \in s.flags THEN k ELSE peer[s.p].end
    OBVIOUS
  <1>5. PICK c, new : c = [peer[s.p] EXCEPT !.got = got, !.end = end] /\ new = {}
    OBVIOUS
  <1>6. /\ net' = net \cup new /\ UNCHANGED <<seqnum, parts>>
        /\ peer' = [peer EXCEPT ![s.p] = c]
    BY <1>1, <1>2, <1>4, <1>5 DEF PeerData
  <1> HIDE DEF offset, k
  <1>7. /\ got \in Stream
        /\ \A j \in DOMAIN got : got[j] = j
    <2>1. PICK D \in SUBSET (1 .. MaxParts) : peer[s.p].got \in [D -> Nat]
      <3>1. peer[s.p].got \in Stream
        BY <1>2 DEF Conn
      <3> QED  BY <3>1 DEF Stream
    <2>2. DOMAIN peer[s.p].got = D /\ \A j \in D : peer[s.p].got[j] \in Nat
      BY <2>1
    <2>3. got \in [D \cup {k} -> Nat]
      <3>1. s.part \in Nat
        BY <1>3
      <3>2. got = [j \in D \cup {k} |-> IF j = k THEN s.part ELSE peer[s.p].got[j]]
        BY <1>4, <2>2
      <3>3. \A j \in D \cup {k} : (IF j = k THEN s.part ELSE peer[s.p].got[j]) \in Nat
        BY <2>2, <3>1
      <3> QED  BY <3>2, <3>3
    <2>4. D \cup {k} \in SUBSET (1 .. MaxParts)
      BY <1>3
    <2>5. \A j \in DOMAIN got : got[j] = j
      BY <1>2, <1>3, <1>4
    <2> QED  BY <2>3, <2>4, <2>5 DEF Stream
  <1>8. end \in {None, parts} /\ end \in Int
    BY <1>1, <1>2, <1>3, <1>4 DEF IsPart, Conn, None
  <1>9. /\ c \in Conn /\ c.state = "open" /\ c.first = peer[s.p].first /\ c.got = got /\ c.end = end
    BY <1>2, <1>5, <1>7, <1>8 DEF Conn
  <1>10. \A n \in new : Known(n)'
    BY <1>5
  <1>11. ~Ended(s.p)
    BY <1>2 DEF Ended
  <1> QED  BY <1>1, <1>2, <1>6, <1>7, <1>8, <1>9, <1>10, <1>11, PeerSends

LEMMA PeerClosesKeeps ==
  ASSUME ServerInv, NEW p \in Peers, PeerCloses(p)
  PROVE  ServerInv'
  <1>0. PICK c, r, new :
                    /\ c = [peer[p] EXCEPT !.state = "closing"] /\ new = {r}
                    /\ r = Seg(p, "board", {"FIN", "ACK"}, 1 + Request,
                               peer[p].first + 2 + peer[p].end * PartLen, None)
    OBVIOUS
  <1>1. /\ peer[p] \in Conn /\ peer \in [Peers -> Conn] /\ peer[p].first \in Nat
        /\ \A j \in DOMAIN peer[p].got : peer[p].got[j] = j
        /\ peer[p].end = parts
    BY DEF ServerInv, PeersHold, PeerCloses, Whole, Opened
  <1>2. /\ c \in Conn /\ c.state = "closing" /\ c.first = peer[p].first
        /\ c.got = peer[p].got /\ c.end = peer[p].end
    BY <1>0, <1>1 DEF Conn
  <1>3. /\ net' = net \cup new /\ UNCHANGED <<seqnum, parts>>
        /\ peer' = [peer EXCEPT ![p] = c]
    BY <1>0 DEF PeerCloses, Send
  <1>4. peer'[p] = c
    BY <1>1, <1>3
  <1>5. \A n \in new : Known(n)'
    BY <1>0, <1>1, <1>2, <1>3, <1>4 DEF Known, IsFin, Ended, Seg
  <1> QED  BY <1>1, <1>2, <1>3, <1>5, PeerSends

LEMMA PeerClosedKeeps ==
  ASSUME ServerInv, NEW s \in net, PeerClosed(s)
  PROVE  ServerInv'
  <1>0. PICK c, new : c = [peer[s.p] EXCEPT !.state = "done"] /\ new = {}
    OBVIOUS
  <1>1. s.p \in Peers
    BY DEF ServerInv, Known
  <1>2. /\ peer[s.p] \in Conn /\ peer[s.p].first \in Nat
        /\ \A j \in DOMAIN peer[s.p].got : peer[s.p].got[j] = j
        /\ peer[s.p].end \in {None, parts}
    BY <1>1 DEF ServerInv, PeersHold, PeerClosed, Opened, Ended
  <1>3. /\ c \in Conn /\ c.state = "done" /\ c.first = peer[s.p].first
        /\ c.got = peer[s.p].got /\ c.end = peer[s.p].end
    BY <1>0, <1>2 DEF Conn
  <1>4. /\ net' = net \cup new /\ UNCHANGED <<seqnum, parts>>
        /\ peer' = [peer EXCEPT ![s.p] = c]
    BY <1>0 DEF PeerClosed
  <1>5. \A n \in new : Known(n)'
    BY <1>0
  <1> QED  BY <1>1, <1>2, <1>3, <1>4, <1>5, PeerSends

LEMMA ServerStep ==
  ASSUME ServerInv, [Next]_vars
  PROVE  ServerInv'
  <1>1. CASE \E p \in Peers : PeerSyn(p) \/ PeerCloses(p)
    BY <1>1, PeerSynKeeps, PeerClosesKeeps
  <1>2. CASE \E s \in net : Accept(s)
    BY <1>2, AcceptSynKeeps, AcceptDataKeeps, AcceptFinKeeps DEF Accept
  <1>3. CASE \E s \in net : PeerReceives(s)
    BY <1>3, PeerSynAckKeeps, PeerDataKeeps, PeerClosedKeeps DEF PeerReceives
  <1>4. CASE UNCHANGED vars
    <2>0. PICK new : new = {}
      OBVIOUS
    <2>1. /\ seqnum' \in 0 .. SeqnumMod - 1 /\ net' = net \cup new /\ UNCHANGED <<parts, peer>>
      BY <1>4, <2>0 DEF vars, ServerInv
    <2>2. \A n \in new : Known(n)'
      BY <2>0
    <2> QED  BY <2>1, <2>2, BoardSends
  <1> QED  BY <1>1, <1>2, <1>3, <1>4 DEF Next

----------------------------------------------------------------------------
\* A peer reads the page's parts in their order, and the end after the last
\* (httpServerReplyAck, httpServerReply_with_flags), whichever copies of its
\* SYN and of its request are answered, any number of times.
THEOREM PageIsInOrder == Spec => []PageInOrder
  <1>1. Init => ServerInv
    BY ServerInit
  <1>2. ServerInv /\ [Next]_vars => ServerInv'
    BY ServerStep
  <1>3. ServerInv => PageInOrder
    BY InvImpliesPageInOrder
  <1> QED  BY <1>1, <1>2, <1>3, PTL DEF Spec

\* Everything accept() answers with after the SYN+ACKs lies on the one
\* connection the peer believes in, though the board remembers none.
THEOREM ConnectionIsOne == Spec => []OneConnection
  <1>1. Init => ServerInv
    BY ServerInit
  <1>2. ServerInv /\ [Next]_vars => ServerInv'
    BY ServerStep
  <1>3. ServerInv => OneConnection
    BY InvImpliesOneConnection
  <1> QED  BY <1>1, <1>2, <1>3, PTL DEF Spec

----------------------------------------------------------------------------
(* The listeners.  The inductive invariant.                                *)

USE UdpAssumption

Entry == [port : Ports, listening : BOOLEAN]

\* What the buffer of the loop can hold, unless a callback has answered twice:
\* the datagram received, or a frame of the board's own, which a callback is
\* given only if it went to where the datagram came from.
OwnFrames ==
  ~NotLooping /\ ~repeated =>
    /\ ~gPB.own => gPB = origin
    /\ gPB.own => ownServed \/ gPB.dport \in {Foreign, origin.sport}
    /\ turn = "called" /\ gPB.own /\ ~ownServed => gPB = Datagram(Foreign, Foreign, TRUE)

UdpInv == OwnNotServed /\ OwnFrames

----------------------------------------------------------------------------
(* Calls of the sketch.                                                    *)

LEMMA Entries ==
  ASSUME UdpTypeOK
  PROVE  /\ listeners \in Seq(Entry) /\ Len(listeners) \in Nat
         /\ DOMAIN listeners = 1 .. Len(listeners)
         /\ \A k \in 1 .. Len(listeners) : listeners[k] \in Entry
  BY LenProperties, ElementOfSeq DEF UdpTypeOK, Entry

\* A port listened on is added at the end, or nothing happens.
LEMMA ListenOnKeeps ==
  ASSUME UdpTypeOK, NEW port \in Ports, listeners' = ListenOn(port)
  PROVE  /\ listeners' \in Seq(Entry)
         /\ Len(listeners') \in Len(listeners) .. MaxListeners
         /\ DOMAIN listeners' = 1 .. Len(listeners')
         /\ \A k \in 1 .. Len(listeners) : listeners'[k] = listeners[k]
         /\ \A k \in 1 .. Len(listeners') : k > Len(listeners) => listeners'[k] = Listener(port)
  <1>1. Listener(port) \in Entry
    BY DEF Listener, Entry
  <1>2. CASE Len(listeners) < MaxListeners
    <2> DEFINE new == Append(listeners, Listener(port))
    <2>1. /\ new \in Seq(Entry) /\ Len(new) = Len(listeners) + 1
          /\ \A k \in 1 .. Len(listeners) : new[k] = listeners[k]
          /\ new[Len(listeners) + 1] = Listener(port)
      BY <1>1, Entries, AppendProperties
    <2>2. listeners' = new
      BY <1>2 DEF ListenOn
    <2> HIDE DEF new
    <2>3. DOMAIN new = 1 .. Len(new)
      BY <2>1, LenProperties
    <2> QED  BY <1>2, <2>1, <2>2, <2>3, Entries
  <1>3. CASE ~(Len(listeners) < MaxListeners)
    BY <1>3, Entries DEF ListenOn, UdpTypeOK
  <1> QED  BY <1>2, <1>3

\* Pausing and resuming leave ports and their order alone.
LEMMA SetListeningKeeps ==
  ASSUME UdpTypeOK, NEW on \in BOOLEAN, listeners' = SetListening(on)
  PROVE  /\ listeners' \in Seq(Entry) /\ Len(listeners') = Len(listeners)
         /\ DOMAIN listeners' = 1 .. Len(listeners)
         /\ \A k \in 1 .. Len(listeners) : listeners'[k].port = listeners[k].port
  <1> DEFINE e(k) == [listeners[k] EXCEPT
                        !.listening = IF listeners[k].port = gPB.dport THEN on ELSE @]
  <1>1. listeners' = [k \in 1 .. Len(listeners) |-> e(k)]
    BY Entries DEF SetListening
  <1>2. \A k \in 1 .. Len(listeners) : e(k) \in Entry /\ e(k).port = listeners[k].port
    BY Entries DEF Entry
  <1> HIDE DEF e
  <1>3. listeners' \in [1 .. Len(listeners) -> Entry]
    BY <1>1, <1>2
  <1>4. listeners' \in Seq(Entry) /\ Len(listeners') = Len(listeners)
    BY <1>3, Entries, SeqDef, LenProperties
  <1> QED  BY <1>1, <1>2, <1>3, <1>4

----------------------------------------------------------------------------
(* How an action can change the listeners, and what it keeps of them.      *)

Changes ==
  \/ UNCHANGED listeners
  \/ \E port \in Ports : listeners' = ListenOn(port)
  \/ \E on \in BOOLEAN : listeners' = SetListening(on)

LEMMA ChangesKeep ==
  ASSUME UdpTypeOK, Changes
  PROVE  /\ listeners' \in Seq(Entry) /\ Len(listeners') \in Len(listeners) .. MaxListeners
         /\ DOMAIN listeners' = 1 .. Len(listeners')
         /\ \A k \in 1 .. Len(listeners) : listeners'[k].port = listeners[k].port
  <1>1. CASE UNCHANGED listeners
    BY <1>1, Entries DEF UdpTypeOK
  <1>2. CASE \E port \in Ports : listeners' = ListenOn(port)
    BY <1>2, Entries, ListenOnKeeps DEF UdpTypeOK
  <1>3. CASE \E on \in BOOLEAN : listeners' = SetListening(on)
    BY <1>3, Entries, SetListeningKeeps DEF UdpTypeOK
  <1> QED  BY <1>1, <1>2, <1>3 DEF Changes

----------------------------------------------------------------------------
LEMMA UdpBegins == UdpInit => UdpInv
  <1> SUFFICES ASSUME UdpInit  PROVE UdpInv
    OBVIOUS
  <1>1. listeners = <<>> /\ listeners \in Seq(Entry) /\ Len(listeners) = 0 /\ DOMAIN listeners = {}
    BY EmptySeq DEF UdpInit
  <1>2. {gPB, origin} \subseteq [sport : Ports \cup {Foreign}, dport : Ports \cup {Foreign}, own : BOOLEAN]
    BY DEF UdpInit, Datagram
  <1>3. i = 0 /\ turn = "loop" /\ ownServed = FALSE /\ repeated = FALSE
    BY DEF UdpInit
  <1>4. UdpTypeOK
    <2>1. Len(listeners) <= MaxListeners /\ i \in 0 .. Len(listeners)
      BY <1>1, <1>3
    <2>2. {ownServed, repeated} \subseteq BOOLEAN
      BY <1>3
    <2> QED  BY <1>1, <1>2, <1>3, <2>1, <2>2 DEF UdpTypeOK, Entry
  <1> QED  BY <1>1, <1>3, <1>4 DEF UdpInv, OwnNotServed, OwnFrames, NotLooping

\* What is left to show of a step, whatever it does to the listeners.
LEMMA ServedKept ==
  ASSUME UdpInv, Changes, i' \in 0 .. Len(listeners'),
         {gPB', origin'} \subseteq [sport : Ports \cup {Foreign}, dport : Ports \cup {Foreign}, own : BOOLEAN],
         turn' \in {"loop", "called", "answered"}, turn' # "loop" => ~NotLooping',
         {ownServed', repeated'} \subseteq BOOLEAN,
         ownServed' => \/ repeated'
                       \/ ownServed /\ ~repeated /\ origin'.sport = origin.sport
                       \/ \E k \in DOMAIN listeners : listeners[k].port = origin'.sport
  PROVE  OwnNotServed'
  <1>1. UdpTypeOK /\ (ownServed => repeated \/ \E k \in DOMAIN listeners : listeners[k].port = origin.sport)
    BY DEF UdpInv, OwnNotServed
  <1>2. UdpTypeOK'
    BY <1>1, ChangesKeep DEF UdpTypeOK, Entry
  <1>3. ASSUME NEW port, \E k \in DOMAIN listeners : listeners[k].port = port
        PROVE  \E k \in DOMAIN listeners' : listeners'[k].port = port
    BY <1>1, <1>3, ChangesKeep, Entries
  <1> QED  BY <1>1, <1>2, <1>3 DEF OwnNotServed

LEMMA UdpStep ==
  ASSUME UdpInv, [UdpNext]_udpVars
  PROVE  UdpInv'
  <1> DEFINE Datagrams == [sport : Ports \cup {Foreign}, dport : Ports \cup {Foreign}, own : BOOLEAN]
  <1>0. /\ UdpTypeOK /\ OwnFrames
        /\ gPB \in Datagrams /\ origin \in Datagrams
        /\ {ownServed, repeated} \subseteq BOOLEAN /\ i \in 0 .. Len(listeners)
        /\ turn \in {"loop", "called", "answered"} /\ (turn # "loop" => ~NotLooping)
    BY DEF UdpInv, OwnNotServed, UdpTypeOK
  <1>1. CASE /\ NotLooping \/ turn # "loop"
             /\ \/ \E port \in Ports : UdpServerListenOnPort(port)
                \/ \E on \in BOOLEAN : UdpServerPauseOrResume(on)
    <2>1. Changes /\ UNCHANGED <<gPB, i, turn, origin, ownServed, repeated>>
      BY <1>1 DEF UdpServerListenOnPort, UdpServerPauseOrResume, Changes
    <2>2. i' \in 0 .. Len(listeners')
      BY <1>0, <2>1, ChangesKeep, Entries
    <2>3. {gPB', origin'} \subseteq Datagrams
      BY <1>0, <2>1
    <2>4. OwnNotServed'
      BY <1>0, <2>1, <2>2, <2>3, ServedKept DEF NotLooping
    <2>5. OwnFrames'
      BY <1>0, <2>1 DEF OwnFrames, NotLooping, Datagram
    <2> QED  BY <2>4, <2>5 DEF UdpInv
  <1>2. CASE \E sport, dport \in Ports \cup {Foreign} : UdpArrives(sport, dport)
    <2>1. /\ Changes /\ gPB' = origin' /\ ~gPB'.own /\ ownServed' = FALSE /\ repeated' = FALSE
          /\ gPB' \in Datagrams /\ turn' = turn /\ NotLooping
      BY <1>2 DEF UdpArrives, Changes, Datagram
    <2>2. i' \in 0 .. Len(listeners')
      BY <1>0, <1>2, Entries, EmptySeq DEF UdpArrives
    <2>3. turn' = "loop" /\ {gPB', origin'} \subseteq Datagrams
      BY <1>0, <2>1
    <2>4. OwnNotServed'
      BY <1>0, <2>1, <2>2, <2>3, ServedKept
    <2>5. OwnFrames'
      BY <2>1 DEF OwnFrames
    <2> QED  BY <2>4, <2>5 DEF UdpInv
  <1>3. CASE SkipsListener \/ CallsListener \/ CallbackAnswers \/ CallbackSends \/ CallbackReturns
    <2>1. /\ Changes /\ listeners' = listeners /\ UNCHANGED origin /\ ~NotLooping
          /\ i \in 1 .. Len(listeners) /\ Len(listeners) \in Nat
      <3>1. listeners' = listeners /\ UNCHANGED origin
        BY <1>3 DEF SkipsListener, CallsListener, CallbackAnswers, CallbackSends, CallbackReturns
      <3>2. ~NotLooping
        BY <1>0, <1>3 DEF SkipsListener, CallsListener, CallbackAnswers, CallbackSends, CallbackReturns
      <3>3. i \in 1 .. Len(listeners) /\ Len(listeners) \in Nat
        BY <1>0, <3>2, Entries DEF NotLooping
      <3> QED  BY <3>1, <3>2, <3>3 DEF Changes
    <2>2. listeners[i].port \in Ports
      BY <1>0, <2>1, Entries DEF Entry
    <2>3. gPB.sport \in Ports \cup {Foreign} /\ origin.sport \in Ports \cup {Foreign}
      BY <1>0
    <2>4. CASE SkipsListener \/ CallbackReturns
      <3>1. UNCHANGED <<gPB, ownServed, repeated>> /\ turn' = "loop"
        BY <2>4 DEF SkipsListener, CallbackReturns
      <3>2. i' \in 0 .. Len(listeners')
        BY <2>1, <2>4 DEF SkipsListener, CallbackReturns, Advance
      <3>3. {gPB', origin'} \subseteq Datagrams
        BY <1>0, <2>1, <3>1
      <3>4. OwnNotServed'
        BY <1>0, <2>1, <3>1, <3>2, <3>3, ServedKept
      <3>5. OwnFrames'
        BY <1>0, <2>1, <3>1 DEF OwnFrames
      <3> QED  BY <3>4, <3>5 DEF UdpInv
    <2>5. CASE CallsListener
      <3>1. /\ turn' = "called" /\ UNCHANGED <<gPB, i, repeated>> /\ ownServed' = (ownServed \/ gPB.own)
            /\ listeners[i].port = gPB.dport
        BY <2>5 DEF CallsListener, Matches
      <3>2. i' \in 0 .. Len(listeners') /\ ~NotLooping'
        BY <2>1, <3>1 DEF NotLooping
      <3>3. {gPB', origin'} \subseteq Datagrams /\ {ownServed', repeated'} \subseteq BOOLEAN
        BY <1>0, <2>1, <3>1
      <3>4. gPB.own /\ ~ownServed /\ ~repeated => gPB.dport = origin.sport
        BY <1>0, <2>1, <2>2, <3>1 DEF OwnFrames
      <3>5. ownServed' => \/ repeated'
                          \/ ownServed /\ ~repeated /\ origin'.sport = origin.sport
                          \/ \E k \in DOMAIN listeners : listeners[k].port = origin'.sport
        BY <1>0, <2>1, <3>1, <3>4, Entries
      <3>6. OwnNotServed'
        BY <2>1, <3>1, <3>2, <3>3, <3>5, ServedKept
      <3>7. OwnFrames'
        BY <1>0, <2>1, <3>1 DEF OwnFrames
      <3> QED  BY <3>6, <3>7 DEF UdpInv
    <2>6. CASE CallbackAnswers
      <3>1. /\ turn # "loop" /\ turn' = "answered" /\ UNCHANGED <<i, ownServed>>
            /\ repeated' = (repeated \/ turn = "answered")
            /\ gPB' = Datagram(listeners[i].port, gPB.sport, TRUE)
        BY <2>6 DEF CallbackAnswers, makeUdpReply
      <3>2. i' \in 0 .. Len(listeners') /\ ~NotLooping'
        BY <2>1, <3>1 DEF NotLooping
      <3>3. {gPB', origin'} \subseteq Datagrams /\ {ownServed', repeated'} \subseteq BOOLEAN
        BY <1>0, <2>1, <2>2, <2>3, <3>1 DEF Datagram
      <3>4. OwnNotServed'
        BY <1>0, <2>1, <3>1, <3>2, <3>3, ServedKept
      <3>5. OwnFrames'
        BY <1>0, <2>1, <3>1 DEF OwnFrames, Datagram
      <3> QED  BY <3>4, <3>5 DEF UdpInv
    <2>7. CASE CallbackSends
      <3>1. UNCHANGED <<i, turn, ownServed, repeated>> /\ gPB' = Datagram(Foreign, Foreign, TRUE)
        BY <2>7 DEF CallbackSends
      <3>2. i' \in 0 .. Len(listeners') /\ ~NotLooping'
        BY <2>1, <3>1 DEF NotLooping
      <3>3. {gPB', origin'} \subseteq Datagrams /\ {ownServed', repeated'} \subseteq BOOLEAN
        BY <1>0, <2>1, <3>1 DEF Datagram
      <3>4. OwnNotServed'
        BY <1>0, <2>1, <3>1, <3>2, <3>3, ServedKept
      <3>5. OwnFrames'
        BY <2>1, <3>1 DEF OwnFrames, Datagram
      <3> QED  BY <3>4, <3>5 DEF UdpInv
    <2> QED  BY <1>3, <2>4, <2>5, <2>6, <2>7
  <1>4. CASE UNCHANGED udpVars
    BY <1>4 DEF udpVars, UdpInv, UdpTypeOK, OwnNotServed, OwnFrames, NotLooping
  <1> QED  BY <1>1, <1>2, <1>3, <1>4 DEF UdpNext

\* A callback is given the board's own frame only when the datagram came from a
\* port the board listens on, or a callback has answered it twice, whatever
\* else callbacks do (udpServerHasProcessedPacket, makeUdpReply).
THEOREM OwnFrameNotServed == UdpSpec => []OwnNotServed
  <1>1. UdpInit => UdpInv
    BY UdpBegins
  <1>2. UdpInv /\ [UdpNext]_udpVars => UdpInv'
    BY UdpStep
  <1>3. UdpInv => OwnNotServed
    BY DEF UdpInv
  <1> QED  BY <1>1, <1>2, <1>3, PTL DEF UdpSpec
=============================================================================
