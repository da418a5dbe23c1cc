--------------------------- MODULE RtpReceiveProofs ---------------------------
(***************************************************************************)
(* Proofs about RtpReceive, for any stream, payload, loss and delay.       *)
(***************************************************************************)
EXTENDS RtpReceive, FiniteSetTheorems, SequenceTheorems, WellFoundedInduction, TLAPS

-----------------------------------------------------------------------------
(* Natural numbers and recursive functions.                                *)

\* Every set of natural numbers that is not empty has a least element.
LEMMA Least ==
    ASSUME NEW S \in SUBSET Nat, S # {}
    PROVE  \E m \in S : \A k \in S : m <= k
<1> DEFINE T == {1..n : n \in S}
<1>1. T \subseteq FiniteSubsetsOf(Nat)
  BY FS_Interval DEF FiniteSubsetsOf
<1>2. PICK x \in T : \A y \in T : ~(<<y, x>> \in StrictSubsetOrdering(Nat))
  <2>1. T # {}
    OBVIOUS
  <2> HIDE DEF T
  <2>2. QED
    BY <1>1, <2>1, WFMin, FS_StrictSubsetOrderingWellFounded
<1>3. PICK m \in S : x = 1..m
  OBVIOUS
<1>4. ASSUME NEW k \in S, k < m
      PROVE  FALSE
  <2>1. 1..k \in SUBSET Nat /\ 1..m \in SUBSET Nat
    OBVIOUS
  <2>2. 1..k \subseteq 1..m /\ 1..k # 1..m
    <3>1. m \in 1..m /\ m \notin 1..k
      BY <1>4
    <3>2. QED
      BY <3>1, <1>4
  <2>3. 1..k \in T
    OBVIOUS
  <2>4. QED
    BY <2>1, <2>2, <2>3, <1>2, <1>3 DEF StrictSubsetOrdering
<1>5. QED
  BY <1>4

\* Every bounded set of natural numbers that is not empty has a greatest element.
LEMMA Greatest ==
    ASSUME NEW n \in Nat, NEW S \in SUBSET (0..n), S # {}
    PROVE  \E m \in S : \A k \in S : k <= m
<1> DEFINE T == {n - k : k \in S}
<1>1. PICK d \in T : \A e \in T : d <= e
  <2>1. T \subseteq Nat
    <3>1. \A k \in S : n - k \in Nat
      OBVIOUS
    <3>2. QED
      BY <3>1
  <2>2. T # {}
    OBVIOUS
  <2> HIDE DEF T
  <2>3. QED
    BY <2>1, <2>2, Least
<1>2. PICK m \in S : d = n - m
  OBVIOUS
<1>3. ASSUME NEW k \in S
      PROVE  k <= m
  <2>1. n - k \in T
    OBVIOUS
  <2>2. n - m <= n - k
    BY <2>1, <1>1, <1>2
  <2>3. QED
    BY <2>2
<1>4. QED
  BY <1>3

\* What holds at 0 and is handed on holds up to n.
LEMMA HandedOn ==
    ASSUME NEW n \in Nat, NEW T, 0 \in T, \A i \in 1..n : i - 1 \in T => i \in T
    PROVE  \A i \in 0..n : i \in T
<1>1. SUFFICES ASSUME NEW i \in 0..n, i \notin T
               PROVE  FALSE
  OBVIOUS
<1> DEFINE U == {j \in 0..n : j \notin T}
<1>2. PICK m \in U : \A k \in U : m <= k
  <2>1. U \in SUBSET Nat /\ U # {}
    BY <1>1
  <2> HIDE DEF U
  <2>2. QED
    BY <2>1, Least
<1>3. m # 0 /\ m - 1 \in T
  BY <1>2
<1>4. QED
  BY <1>2, <1>3

\* The values of a recursive function exist.
LEMMA Recursion ==
    ASSUME NEW S, NEW a \in S, NEW n \in Nat, NEW F \in [1..n -> [S -> S]]
    PROVE  \E g \in [0..n -> S] : g[0] = a /\ \A i \in 1..n : g[i] = F[i][g[i - 1]]
<1> DEFINE Upto(m) == \E g \in [0..m -> S] : g[0] = a /\ \A i \in 1..m : g[i] = F[i][g[i - 1]]
           T == {m \in 0..n : Upto(m)}
<1>1. 0 \in T
  <2>1. [i \in 0..0 |-> a] \in [0..0 -> S]
    OBVIOUS
  <2>2. Upto(0)
    <3>1. [i \in 0..0 |-> a][0] = a /\ \A i \in 1..0 : FALSE
      OBVIOUS
    <3>2. QED
      BY <2>1, <3>1
  <2>3. QED
    BY <2>2
<1>2. ASSUME NEW m \in 1..n, m - 1 \in T
      PROVE  m \in T
  <2>1. PICK g \in [0..(m - 1) -> S] : g[0] = a /\ \A i \in 1..(m - 1) : g[i] = F[i][g[i - 1]]
    BY <1>2
  <2> DEFINE h == [i \in 0..m |-> IF i = m THEN F[m][g[m - 1]] ELSE g[i]]
  <2>2. g[m - 1] \in S /\ F[m] \in [S -> S]
    OBVIOUS
  <2>3. h \in [0..m -> S]
    BY <2>2
  <2>4. h[0] = a /\ \A i \in 1..m : h[i] = F[i][h[i - 1]]
    BY <2>1
  <2> HIDE DEF h
  <2>5. Upto(m)
    BY <2>3, <2>4
  <2>6. m \in 0..n
    OBVIOUS
  <2> HIDE DEF Upto
  <2>7. QED
    BY <2>5, <2>6
<1>3. n \in T
  <2> HIDE DEF T
  <2>1. \A i \in 0..n : i \in T
    BY <1>1, <1>2, HandedOn
  <2>2. QED
    BY <2>1
<1>4. QED
  BY <1>3 DEF T

\* The rounds of the loop, one after the other.
LEMMA Looping ==
    ASSUME NEW S, NEW b \in S, Len(b.list) \in Nat, \A c \in S : UnpackNext(c) \in S
    PROVE  \E g \in [0..Len(b.list) -> S] :
             /\ g[0] = b /\ \A i \in 1..Len(b.list) : g[i] = UnpackNext(g[i - 1])
             /\ UnpackSequential(b) = g[Len(b.list)]
<1> DEFINE n == Len(b.list)
           IsAfter(g) == g = [m \in 0..n |-> IF m = 0 THEN b ELSE UnpackNext(g[m - 1])]
           after == CHOOSE g : IsAfter(g)
           F == [m \in 1..n |-> [c \in S |-> UnpackNext(c)]]
<1>1. UnpackSequential(b) = after[n]
  BY DEF UnpackSequential
<1>2. \E g : IsAfter(g)
  <2>1. F \in [1..n -> [S -> S]]
    OBVIOUS
  <2>2. PICK g \in [0..n -> S] : g[0] = b /\ \A i \in 1..n : g[i] = F[i][g[i - 1]]
    <3> n \in Nat
      OBVIOUS
    <3> HIDE DEF F, n
    <3>1. QED
      BY <2>1, Recursion
  <2>3. ASSUME NEW i \in 1..n
        PROVE  g[i] = UnpackNext(g[i - 1])
    <3>1. g[i - 1] \in S
      OBVIOUS
    <3>2. g[i] = F[i][g[i - 1]]
      BY <2>2
    <3>3. QED
      BY <3>1, <3>2
  <2>4. IsAfter(g)
    BY <2>2, <2>3
  <2>5. QED
    BY <2>4
<1>3. IsAfter(after)
  BY <1>2
<1> HIDE DEF after
<1>4. after[0] = b /\ \A m \in 1..n : after[m] = UnpackNext(after[m - 1])
  BY <1>3
<1> DEFINE T == {k \in 0..n : after[k] \in S}
<1>5. \A m \in 0..n : m \in T
  <2>1. 0 \in T /\ \A i \in 1..n : i - 1 \in T => i \in T
    BY <1>4
  <2> n \in Nat
    OBVIOUS
  <2> HIDE DEF T, n
  <2>2. QED
    BY <2>1, HandedOn
<1>6. after \in [0..n -> S]
  <2>1. after = [m \in 0..n |-> after[m]]
    BY <1>3
  <2>2. \A m \in 0..n : after[m] \in S
    BY <1>5
  <2> HIDE DEF n
  <2>3. QED
    BY <2>1, <2>2
<1>7. QED
  BY <1>1, <1>4, <1>6

\* What the rounds keep, the loop keeps.
LEMMA Rounds ==
    ASSUME NEW S, NEW b \in S, Len(b.list) \in Nat, \A c \in S : UnpackNext(c) \in S
    PROVE  UnpackSequential(b) \in S
<1>1. Len(b.list) \in 0..Len(b.list)
  OBVIOUS
<1>2. QED
  BY <1>1, Looping

\* What the first round brings about and the others keep, the loop brings about.
LEMMA RoundsOn ==
    ASSUME NEW S, NEW b \in S, Len(b.list) \in Nat \ {0}, \A c \in S : UnpackNext(c) \in S,
           NEW R, UnpackNext(b) \in R, \A c \in S \cap R : UnpackNext(c) \in R
    PROVE  UnpackSequential(b) \in R
<1> DEFINE n == Len(b.list) - 1
<1>1. PICK g \in [0..Len(b.list) -> S] :
        /\ g[0] = b /\ \A i \in 1..Len(b.list) : g[i] = UnpackNext(g[i - 1])
        /\ UnpackSequential(b) = g[Len(b.list)]
  BY Looping
<1> DEFINE T == {i \in 0..n : g[i + 1] \in R}
<1>2. n \in Nat /\ Len(b.list) = n + 1
  OBVIOUS
<1> HIDE DEF n
<1>3. 0 \in T
  BY <1>1, <1>2
<1>4. ASSUME NEW i \in 1..n, i - 1 \in T
      PROVE  i \in T
  <2>1. i + 1 \in 1..Len(b.list) /\ i \in 0..Len(b.list) /\ (i + 1) - 1 = i /\ (i - 1) + 1 = i
    BY <1>2
  <2>2. g[i] \in S \cap R
    BY <1>4, <2>1
  <2>3. g[i + 1] = UnpackNext(g[i])
    BY <1>1, <2>1
  <2>4. QED
    BY <2>2, <2>3
<1>5. n \in T
  <2> HIDE DEF T
  <2>1. \A i \in 0..n : i \in T
    BY <1>2, <1>3, <1>4, HandedOn
  <2>2. QED
    BY <1>2, <2>1
<1>6. QED
  BY <1>1, <1>2, <1>5

-----------------------------------------------------------------------------
(* Sequence numbers.                                                       *)

LEMMA Quotient ==
    ASSUME NEW a \in Nat, NEW w \in Nat \ {0}
    PROVE  /\ a % w \in 0..(w - 1) /\ a \div w \in Nat
           /\ w * (a \div w) \in Nat /\ a = w * (a \div w) + (a % w)
  OBVIOUS

LEMMA NextMultiple ==
    ASSUME NEW w \in Nat \ {0}, NEW x \in Int, NEW y \in Int, x < y
    PROVE  w * x + w <= w * y
<1>1. w * (x + 1) <= w * y
  OBVIOUS
<1>2. w * (x + 1) = w * x + w
  OBVIOUS
<1>3. QED
  BY <1>1, <1>2

\* A remainder goes up with its number, and turns over once.
LEMMA Remainder ==
    ASSUME NEW w \in Nat \ {0}, NEW a \in Nat, NEW d \in Nat, d < w
    PROVE  (a + d) % w = IF (a % w) + d < w THEN (a % w) + d ELSE (a % w) + d - w
<1> DEFINE q == a \div w
           r == a % w
           c == (a + d) \div w
           t == (a + d) % w
<1>1. q \in Nat /\ r \in 0..(w - 1) /\ w * q \in Nat /\ a = w * q + r
  BY Quotient
<1>2. c \in Nat /\ t \in 0..(w - 1) /\ w * c \in Nat /\ a + d = w * c + t
  <2>1. a + d \in Nat
    OBVIOUS
  <2>2. QED
    BY <2>1, Quotient
<1> HIDE DEF q, r, c, t
<1>3. c >= q
  <2> SUFFICES ASSUME c < q
               PROVE  FALSE
    BY <1>1, <1>2
  <2>1. w * c + w <= w * q
    BY NextMultiple, <1>1, <1>2
  <2>2. QED
    BY <2>1, <1>1, <1>2
<1>4. c <= q + 1
  <2> SUFFICES ASSUME q + 1 < c
               PROVE  FALSE
    BY <1>1, <1>2
  <2>1. w * (q + 1) + w <= w * c
    BY NextMultiple, <1>1, <1>2
  <2>2. w * (q + 1) = w * q + w
    BY <1>1
  <2>3. QED
    BY <2>1, <2>2, <1>1, <1>2
<1>5. CASE c = q
  BY <1>5, <1>1, <1>2 DEF r, t
<1>6. CASE c = q + 1
  <2>1. w * (q + 1) = w * q + w
    BY <1>1
  <2>2. QED
    BY <1>6, <2>1, <1>1, <1>2 DEF r, t
<1>7. QED
  BY <1>1, <1>2, <1>3, <1>4, <1>5, <1>6

LEMMA WindowFits == Window \in Nat /\ 4 * Window <= SeqWord
<1>1. /\ SeqWord \div 4 \in Nat /\ SeqWord = 4 * (SeqWord \div 4) + (SeqWord % 4)
      /\ SeqWord % 4 \in 0..3
  BY RtpReceiveAssumption, Quotient
<1>2. QED
  BY <1>1, RtpReceiveAssumption DEF Window

\* The number of a later packet, as long as it is less than a turn away.
LEMMA SeqOfLater ==
    ASSUME NEW p \in Nat \ {0}, NEW q \in Nat \ {0}, p <= q, q - p < SeqWord
    PROVE  /\ SeqOf(p) \in 0..(SeqWord - 1) /\ SeqOf(q) \in 0..(SeqWord - 1)
           /\ SeqOf(q) = IF SeqOf(p) + (q - p) < SeqWord THEN SeqOf(p) + (q - p)
                                                         ELSE SeqOf(p) + (q - p) - SeqWord
<1>1. FirstSeq + p - 1 \in Nat /\ FirstSeq + q - 1 \in Nat /\ q - p \in Nat /\ SeqWord \in Nat \ {0}
  BY RtpReceiveAssumption
<1> DEFINE a == FirstSeq + p - 1
           d == q - p
<1>2. FirstSeq + q - 1 = a + d
  BY RtpReceiveAssumption
<1>3. a \in Nat /\ d \in Nat /\ d < SeqWord
  BY <1>1
<1> HIDE DEF a, d
<1>4. (a + d) % SeqWord = IF (a % SeqWord) + d < SeqWord THEN (a % SeqWord) + d
                                                       ELSE (a % SeqWord) + d - SeqWord
  BY <1>1, <1>3, Remainder
<1>5. a % SeqWord \in 0..(SeqWord - 1)
  BY <1>1, <1>3, Quotient
<1>6. SeqOf(p) = a % SeqWord /\ SeqOf(q) = (a + d) % SeqWord
  BY <1>2 DEF SeqOf, a
<1>7. QED
  BY <1>1, <1>3, <1>4, <1>5, <1>6 DEF d

\* Within a window the numbers tell which packet is the later one, and by how many.
LEMMA SeqTells ==
    ASSUME NEW p \in Nat \ {0}, NEW q \in Nat \ {0}, p - q < Window, q - p < Window
    PROVE  /\ CompareSeq(SeqOf(p), SeqOf(q)) \in {-1, 0, 1}
           /\ CompareSeq(SeqOf(p), SeqOf(q)) <= 0 <=> p <= q
           /\ SeqOf(p) = SeqOf(q) <=> p = q
           /\ DiffSeq(SeqOf(p), SeqOf(q)) = p - q
<1>1. Window \in Nat /\ 4 * Window <= SeqWord /\ SeqWord \in Nat
  BY WindowFits, RtpReceiveAssumption
<1> DEFINE a == SeqOf(p)
           b == SeqOf(q)
<1>2. /\ a \in 0..(SeqWord - 1) /\ b \in 0..(SeqWord - 1)
      /\ p <= q => b = IF a + (q - p) < SeqWord THEN a + (q - p) ELSE a + (q - p) - SeqWord
      /\ q <= p => a = IF b + (p - q) < SeqWord THEN b + (p - q) ELSE b + (p - q) - SeqWord
  <2>1. CASE p <= q
    <3>1. q - p < SeqWord
      BY <1>1
    <3>2. QED
      BY <2>1, <3>1, SeqOfLater
  <2>2. CASE q < p
    <3>1. p - q < SeqWord
      BY <1>1
    <3>2. QED
      BY <2>2, <3>1, SeqOfLater
  <2>3. QED
    BY <2>1, <2>2
<1> HIDE DEF a, b
<1>3. CompareSeq(a, b) \in {-1, 0, 1} /\ (CompareSeq(a, b) <= 0 <=> p <= q) /\ (a = b <=> p = q)
  BY <1>1, <1>2 DEF CompareSeq
<1>4. DiffSeq(a, b) = p - q
  BY <1>1, <1>2 DEF DiffSeq
<1>5. QED
  BY <1>3, <1>4 DEF a, b

-----------------------------------------------------------------------------
(* What is sent.                                                           *)

Place == {"single", "start", "middle", "end"}

\* A frame that was begun goes on to its end, and one that goes on was begun.
WellFormed(s) ==
    \A i \in 1..Len(s) :
        /\ s[i] \in {"start", "middle"} => i < Len(s) /\ s[i + 1] \in {"middle", "end"}
        /\ s[i] \in {"middle", "end"} => i > 1 /\ s[i - 1] \in {"start", "middle"}

LEMMA PackedNal ==
    ASSUME NEW len \in Nat, NEW kind
    PROVE  PackNal(len, kind) \in Seq(Place) /\ WellFormed(PackNal(len, kind))
<1> DEFINE header == IF kind = "avc" THEN 2 ELSE 3
           part == MaxPayload - header
           x == len - (header - 1) + part - 1
           n == x \div part
           parts == [i \in 1..n |-> IF i = 1 THEN "start" ELSE IF i = n THEN "end" ELSE "middle"]
<1>1. PackNal(len, kind) = IF len <= MaxPayload THEN <<"single">> ELSE parts
  BY DEF PackNal
<1>2. CASE len <= MaxPayload
  BY <1>1, <1>2 DEF Place, WellFormed
<1>3. CASE ~(len <= MaxPayload)
  <2>1. header \in {2, 3} /\ MaxPayload \in Nat /\ MaxPayload > 3
    BY RtpReceiveAssumption
  <2>2. part \in Nat \ {0} /\ x \in Nat /\ x >= 2 * part
    BY <2>1, <1>3
  <2>3. n \in Nat /\ n >= 2
    <3> HIDE DEF x, part
    <3>1. /\ n \in Nat /\ x % part \in 0..(part - 1) /\ part * n \in Nat
          /\ x = part * n + (x % part)
      BY <2>2, Quotient
    <3> HIDE DEF n
    <3>2. SUFFICES ASSUME n < 2
                   PROVE  FALSE
      BY <3>1
    <3>3. part * n + part <= part * 2
      BY <3>1, <3>2, <2>2, NextMultiple
    <3>4. QED
      BY <3>1, <3>3, <2>2
  <2> HIDE DEF n
  <2>4. parts \in Seq(Place) /\ Len(parts) = n
    BY <2>3 DEF Place
  <2>5. WellFormed(parts)
    BY <2>3, <2>4 DEF WellFormed
  <2>6. QED
    BY <1>1, <1>3, <2>4, <2>5
<1>4. QED
  BY <1>2, <1>3

\* The packets of a stream are those of its frames, one after the other.
LEMMA PacketsOf ==
    ASSUME NEW lens \in Seq(Nat), NEW kind
    PROVE  Packets(lens, kind) \in Seq(Place) /\ WellFormed(Packets(lens, kind))
<1> DEFINE n == Len(lens)
           none == <<>>
           Longer(s, m) == s \o PackNal(lens[m], kind)
           IsSent(g) == g = [m \in 0..n |-> IF m = 0 THEN none ELSE Longer(g[m - 1], m)]
           sent == CHOOSE g : IsSent(g)
           S == {s \in Seq(Place) : WellFormed(s)}
           F == [m \in 1..n |-> [s \in S |-> Longer(s, m)]]
<1>1. Packets(lens, kind) = sent[n]
  BY DEF Packets
<1>2. none \in S
  BY DEF WellFormed
<1>3. ASSUME NEW s \in S, NEW m \in 1..n
      PROVE  Longer(s, m) \in S
  <2> DEFINE t == PackNal(lens[m], kind)
  <2>1. t \in Seq(Place) /\ WellFormed(t)
    BY PackedNal
  <2> HIDE DEF t
  <2>2. s \o t \in Seq(Place) /\ Len(s \o t) = Len(s) + Len(t)
    BY <2>1
  <2>3. ASSUME NEW i \in 1..Len(s \o t), (s \o t)[i] \in {"start", "middle"}
        PROVE  i < Len(s \o t) /\ (s \o t)[i + 1] \in {"middle", "end"}
    <3>1. CASE i <= Len(s)
      <4>1. (s \o t)[i] = s[i]
        BY <2>1, <2>2, <3>1
      <4>2. i < Len(s) /\ s[i + 1] \in {"middle", "end"}
        BY <4>1, <2>3, <3>1 DEF WellFormed
      <4>3. (s \o t)[i + 1] = s[i + 1]
        BY <2>1, <2>2, <4>2
      <4>4. QED
        BY <2>1, <2>2, <4>2, <4>3
    <3>2. CASE i > Len(s)
      <4>1. i - Len(s) \in 1..Len(t) /\ (s \o t)[i] = t[i - Len(s)]
        BY <2>1, <2>2, <3>2
      <4>2. i - Len(s) < Len(t) /\ t[i - Len(s) + 1] \in {"middle", "end"}
        BY <4>1, <2>1, <2>3 DEF WellFormed
      <4>3. (s \o t)[i + 1] = t[i - Len(s) + 1]
        BY <2>1, <2>2, <4>1, <4>2
      <4>4. QED
        BY <2>1, <2>2, <4>2, <4>3
    <3>3. QED
      BY <3>1, <3>2
  <2>4. ASSUME NEW i \in 1..Len(s \o t), (s \o t)[i] \in {"middle", "end"}
        PROVE  i > 1 /\ (s \o t)[i - 1] \in {"start", "middle"}
    <3>1. CASE i <= Len(s)
      <4>1. (s \o t)[i] = s[i]
        BY <2>1, <2>2, <3>1
      <4>2. i > 1 /\ s[i - 1] \in {"start", "middle"}
        BY <4>1, <2>4, <3>1 DEF WellFormed
      <4>3. (s \o t)[i - 1] = s[i - 1]
        BY <2>1, <2>2, <4>2, <3>1
      <4>4. QED
        BY <4>2, <4>3
    <3>2. CASE i > Len(s)
      <4>1. i - Len(s) \in 1..Len(t) /\ (s \o t)[i] = t[i - Len(s)]
        BY <2>1, <2>2, <3>2
      <4>2. i - Len(s) > 1 /\ t[i - Len(s) - 1] \in {"start", "middle"}
        BY <4>1, <2>1, <2>4 DEF WellFormed
      <4>3. (s \o t)[i - 1] = t[i - Len(s) - 1]
        BY <2>1, <2>2, <4>1, <4>2
      <4>4. QED
        BY <2>1, <2>2, <4>2, <4>3
    <3>3. QED
      BY <3>1, <3>2
  <2>5. WellFormed(s \o t)
    BY <2>3, <2>4 DEF WellFormed
  <2>6. QED
    BY <2>2, <2>5 DEF t
<1>4. n \in Nat
  OBVIOUS
<1> HIDE DEF n, none, Longer, S
<1>5. \E g : IsSent(g)
  <2>1. F \in [1..n -> [S -> S]]
    BY <1>3
  <2>2. PICK g \in [0..n -> S] : g[0] = none /\ \A i \in 1..n : g[i] = F[i][g[i - 1]]
    <3> HIDE DEF F
    <3>1. QED
      BY <1>2, <1>4, <2>1, Recursion, SMTT(60)
  <2>3. ASSUME NEW i \in 1..n
        PROVE  g[i] = Longer(g[i - 1], i)
    <3>1. g[i - 1] \in S
      BY <1>4
    <3>2. g[i] = F[i][g[i - 1]]
      BY <2>2
    <3>3. QED
      BY <3>1, <3>2
  <2>4. IsSent(g)
    BY <1>4, <2>2, <2>3
  <2>5. QED
    BY <2>4
<1>6. IsSent(sent)
  BY <1>5
<1> HIDE DEF sent
<1>7. sent[0] = none /\ \A m \in 1..n : sent[m] = Longer(sent[m - 1], m)
  BY <1>4, <1>6
<1> DEFINE T == {k \in 0..n : sent[k] \in S}
<1>8. \A m \in 0..n : m \in T
  <2>1. 0 \in T
    BY <1>2, <1>4, <1>7
  <2>2. ASSUME NEW i \in 1..n, i - 1 \in T
        PROVE  i \in T
    BY <1>3, <1>4, <1>7, <2>2
  <2> HIDE DEF T
  <2>3. QED
    BY <1>4, <2>1, <2>2, HandedOn
<1>9. QED
  BY <1>1, <1>4, <1>8 DEF S

-----------------------------------------------------------------------------
(* The container.                                                          *)

Boxes == [list : Seq(1..Len(packets)), size : Int, flag : BOOLEAN, seq : Int,
          out : Seq(Seq(1..Len(packets)))]

\* what was joined is a frame
IsFrame(f) ==
    /\ Len(f) > 0 /\ \A j \in 1..Len(f) : f[j] = f[1] + j - 1
    /\ \/ Len(f) = 1 /\ packets[f[1]] = "single"
       \/ /\ Len(f) > 1 /\ packets[f[1]] = "start" /\ packets[f[Len(f)]] = "end"
          /\ \A j \in 2..(Len(f) - 1) : packets[f[j]] = "middle"

\* the last packet that went out
LastOut(b) == LET f == b.out[Len(b.out)] IN f[Len(f)]

Sorted(s) == \A i, j \in 1..Len(s) : i < j => s[i] < s[j]

\* packets whose numbers tell their order
Together(S) == \A p, q \in S : q - p < Window

BoxInv(b) ==
    /\ b \in Boxes
    /\ Sorted(b.list) /\ Together(AsSet(b.list))
    /\ b.flag <=> Len(b.out) > 0
    /\ \A i \in 1..Len(b.out) : IsFrame(b.out[i])
    /\ \A i, j \in 1..Len(b.out) : i < j => b.out[i][Len(b.out[i])] < b.out[j][1]
    /\ b.flag => /\ b.seq = SeqOf(LastOut(b))
                 /\ \A p \in AsSet(b.list) : LastOut(b) < p /\ p - LastOut(b) < Window

\* A packet in its place.
LEMMA Placing ==
    ASSUME NEW m \in Nat, NEW L \in Seq(1..m), Sorted(L), NEW p \in 1..m,
           NEW at \in 1..(Len(L) + 1),
           \A k \in 1..Len(L) : IF k < at THEN L[k] < p ELSE p < L[k]
    PROVE  LET M == SubSeq(L, 1, at - 1) \o <<p>> \o SubSeq(L, at, Len(L)) IN
           M \in Seq(1..m) /\ Sorted(M) /\ AsSet(M) = AsSet(L) \cup {p} /\ Len(M) = Len(L) + 1
<1> DEFINE M == SubSeq(L, 1, at - 1) \o <<p>> \o SubSeq(L, at, Len(L))
<1>1. /\ M \in Seq(1..m) /\ Len(M) = Len(L) + 1
      /\ \A k \in 1..Len(M) : M[k] = IF k < at THEN L[k] ELSE IF k = at THEN p ELSE L[k - 1]
  <2> DEFINE A == SubSeq(L, 1, at - 1)
             B == SubSeq(L, at, Len(L))
             X == A \o <<p>>
  <2>1. A \in Seq(1..m) /\ Len(A) = at - 1 /\ \A k \in 1..(at - 1) : A[k] = L[k]
    OBVIOUS
  <2>2. B \in Seq(1..m) /\ Len(B) = Len(L) - at + 1 /\ \A k \in 1..(Len(L) - at + 1) : B[k] = L[at + k - 1]
    <3>1. \A k \in at..Len(L) : L[k] \in 1..m
      OBVIOUS
    <3>2. Len(L) \in Int /\ at \in Int /\ at <= Len(L) + 1
      OBVIOUS
    <3>3. /\ B \in Seq(1..m) /\ Len(B) = IF at <= Len(L) THEN Len(L) - at + 1 ELSE 0
          /\ \A k \in 1..(Len(L) - at + 1) : B[k] = L[at + k - 1]
      BY <3>1, <3>2, SubSeqProperties
    <3> HIDE DEF B
    <3>4. QED
      BY <3>2, <3>3
  <2>3. M = X \o B
    OBVIOUS
  <2> HIDE DEF A, B, M
  <2>4. X \in Seq(1..m) /\ Len(X) = at /\ \A k \in 1..at : X[k] = IF k < at THEN L[k] ELSE p
    BY <2>1
  <2> HIDE DEF X
  <2>5. X \o B \in Seq(1..m) /\ Len(X \o B) = Len(L) + 1
    <3>1. X \o B \in Seq(1..m) /\ Len(X \o B) = Len(X) + Len(B)
      BY <2>2, <2>4, ConcatProperties
    <3>2. QED
      BY <2>2, <2>4, <3>1
  <2>6. \A k \in 1..at : (X \o B)[k] = X[k]
    BY <2>2, <2>4
  <2>7. ASSUME NEW k \in 1..(Len(L) + 1), k > at
        PROVE  (X \o B)[k] = L[k - 1]
    <3>1. (X \o B)[k] = B[k - at] /\ k - at \in 1..(Len(L) - at + 1)
      <4>1. k \in 1..(Len(X) + Len(B)) /\ ~(k <= Len(X)) /\ Len(X) = at
        BY <2>2, <2>4, <2>7
      <4>2. (X \o B)[k] = B[k - Len(X)]
        BY <2>2, <2>4, <4>1, ConcatProperties
      <4>3. QED
        BY <2>7, <4>1, <4>2
    <3>2. B[k - at] = L[at + (k - at) - 1]
      BY <2>2, <3>1
    <3>3. QED
      BY <3>1, <3>2
  <2>8. QED
    BY <2>3, <2>4, <2>5, <2>6, <2>7, SMTT(30)
<1> HIDE DEF M
<1>2. Len(L) \in Nat /\ \A k \in 1..Len(L) : L[k] \in 1..m
  OBVIOUS
<1>4. Sorted(M)
  <2>1. ASSUME NEW i \in 1..Len(M), NEW j \in 1..Len(M), i < j
        PROVE  M[i] < M[j]
    <3>1. CASE j < at
      <4>1. M[i] = L[i] /\ M[j] = L[j] /\ i \in 1..Len(L) /\ j \in 1..Len(L)
        <5>1. i \in 1..Len(L) /\ j \in 1..Len(L) /\ i < at
          <6>1. Len(M) = Len(L) + 1
            BY <1>1
          <6>2. QED
            BY <6>1, <1>2, <2>1, <3>1
        <5>2. M[i] = L[i] /\ M[j] = L[j]
          BY <1>1, <3>1, <5>1
        <5>3. QED
          BY <5>1, <5>2
      <4>2. QED
        BY <4>1, <2>1 DEF Sorted
    <3>2. CASE j = at
      <4>1. M[i] = L[i] /\ M[j] = p /\ i \in 1..Len(L) /\ i < at
        BY <1>1, <1>2, <2>1, <3>2
      <4>2. QED
        BY <4>1, <1>2
    <3>3. CASE j > at
      <4>1. M[j] = L[j - 1] /\ j - 1 \in 1..Len(L) /\ ~(j - 1 < at)
        BY <1>1, <1>2, <2>1, <3>3
      <4>2. CASE i < at
        <5>1. M[i] = L[i] /\ i \in 1..Len(L) /\ i < j - 1
          BY <4>1, <4>2, <1>1, <1>2, <2>1
        <5>2. QED
          BY <4>1, <5>1 DEF Sorted
      <4>3. CASE i = at
        BY <4>1, <4>3, <1>1, <1>2, <2>1, SMTT(30)
      <4>4. CASE i > at
        <5>1. M[i] = L[i - 1] /\ i - 1 \in 1..Len(L) /\ i - 1 < j - 1
          BY <4>1, <4>4, <1>1, <1>2, <2>1
        <5>2. QED
          BY <4>1, <5>1 DEF Sorted
      <4>5. QED
        BY <4>2, <4>3, <4>4
    <3>4. QED
      BY <3>1, <3>2, <3>3, <1>1
  <2>2. QED
    BY <2>1 DEF Sorted
<1>5. ASSUME NEW k \in 1..Len(M)
      PROVE  M[k] \in AsSet(L) \cup {p}
  <2>1. CASE k < at
    BY <2>1, <1>1, <1>2 DEF AsSet
  <2>2. CASE k = at
    BY <2>2, <1>1
  <2>3. CASE k > at
    <3>1. k - 1 \in 1..Len(L) /\ M[k] = L[k - 1]
      BY <2>3, <1>1, <1>2
    <3>2. QED
      BY <3>1 DEF AsSet
  <2>4. QED
    BY <2>1, <2>2, <2>3, <1>1
<1>6. ASSUME NEW k \in 1..Len(L)
      PROVE  L[k] \in AsSet(M)
  <2>1. CASE k < at
    <3>1. M[k] = L[k] /\ k \in 1..Len(M)
      BY <2>1, <1>1, <1>2
    <3>2. QED
      BY <3>1 DEF AsSet
  <2>2. CASE at <= k
    <3>1. k + 1 \in 1..Len(M) /\ ~(k + 1 < at) /\ k + 1 # at /\ (k + 1) - 1 = k
      BY <2>2, <1>1, <1>2
    <3>2. M[k + 1] = L[k]
      BY <3>1, <1>1, SMTT(30)
    <3>3. QED
      BY <3>1, <3>2 DEF AsSet
  <2>3. QED
    BY <2>1, <2>2, <1>2
<1>7. p \in AsSet(M)
  <2>1. M[at] = p /\ at \in 1..Len(M)
    BY <1>1, <1>2
  <2>2. QED
    BY <2>1 DEF AsSet
<1>8. AsSet(M) = AsSet(L) \cup {p}
  <2>1. AsSet(M) \subseteq AsSet(L) \cup {p}
    BY <1>5 DEF AsSet
  <2>2. AsSet(L) \subseteq AsSet(M)
    BY <1>6 DEF AsSet
  <2>3. QED
    BY <2>1, <2>2, <1>7
<1>9. QED
  BY <1>1, <1>4, <1>8 DEF M

\* insert finds the place of a packet that is near enough to all in the list.
LEMMA Scanning ==
    ASSUME NEW m \in Nat, NEW L \in Seq(1..m), Sorted(L), NEW p \in 1..m, Together(AsSet(L) \cup {p})
    PROVE  /\ Placed(L, p) \in Seq(1..m) /\ Sorted(Placed(L, p))
           /\ AsSet(Placed(L, p)) = AsSet(L) \cup {p}
           /\ Len(Placed(L, p)) \in {Len(L), Len(L) + 1}
           /\ p \notin AsSet(L) => Len(Placed(L, p)) = Len(L) + 1
<1> DEFINE Later == {i \in 1..Len(L) : CompareSeq(SeqOf(p), SeqOf(L[i])) <= 0}
           at == IF Later = {} THEN Len(L) + 1 ELSE CHOOSE i \in Later : \A k \in Later : i <= k
           have == Later # {} /\ SeqOf(L[at]) = SeqOf(p)
           M == IF have THEN L ELSE SubSeq(L, 1, at - 1) \o <<p>> \o SubSeq(L, at, Len(L))
<1>2. Len(L) \in Nat /\ \A i \in 1..Len(L) : L[i] \in Nat \ {0}
  OBVIOUS
<1>3. \A i \in 1..Len(L) : /\ CompareSeq(SeqOf(p), SeqOf(L[i])) <= 0 <=> p <= L[i]
                           /\ SeqOf(p) = SeqOf(L[i]) <=> p = L[i]
  <2> SUFFICES ASSUME NEW i \in 1..Len(L)
               PROVE  /\ CompareSeq(SeqOf(p), SeqOf(L[i])) <= 0 <=> p <= L[i]
                      /\ SeqOf(p) = SeqOf(L[i]) <=> p = L[i]
    OBVIOUS
  <2>1. p - L[i] < Window /\ L[i] - p < Window
    BY DEF Together, AsSet
  <2>2. QED
    BY <1>2, <2>1, SeqTells
<1>4. Later = {i \in 1..Len(L) : p <= L[i]}
  BY <1>3
<1>5. /\ at \in 1..(Len(L) + 1)
      /\ \A k \in 1..Len(L) : IF k < at THEN L[k] < p ELSE p <= L[k]
      /\ Later # {} <=> at <= Len(L)
  <2>1. CASE Later = {}
    <3>1. at = Len(L) + 1
      BY <2>1
    <3>2. \A k \in 1..Len(L) : L[k] < p
      BY <2>1, <1>2, <1>4
    <3> HIDE DEF at, Later
    <3>3. QED
      BY <2>1, <3>1, <3>2, <1>2
  <2>2. CASE Later # {}
    <3>1. PICK j \in Later : \A k \in Later : j <= k
      <4>1. Later \in SUBSET Nat
        BY <1>2
      <4> HIDE DEF Later
      <4>2. QED
        BY <2>2, <4>1, Least
    <3>2. at \in Later /\ \A k \in Later : at <= k
      BY <2>2, <3>1
    <3> HIDE DEF at
    <3>3. at \in 1..Len(L) /\ p <= L[at]
      BY <3>2, <1>4
    <3>4. \A k \in 1..Len(L) : p <= L[k] => at <= k
      BY <3>2, <1>4
    <3> HIDE DEF Later
    <3>5. \A k \in 1..Len(L) : at <= k => p <= L[k]
      BY <3>3, <1>2 DEF Sorted
    <3>6. QED
      BY <2>2, <3>3, <3>4, <3>5, <1>2
  <2>3. QED
    BY <2>1, <2>2
<1> HIDE DEF Later, at
<1>6. /\ M \in Seq(1..m) /\ Sorted(M) /\ AsSet(M) = AsSet(L) \cup {p}
      /\ Len(M) \in {Len(L), Len(L) + 1} /\ (p \notin AsSet(L) => Len(M) = Len(L) + 1)
  <2>1. CASE have
    <3>1. M = L /\ at \in 1..Len(L) /\ L[at] = p
      BY <2>1, <1>2, <1>3, <1>5
    <3>2. p \in AsSet(L)
      BY <3>1 DEF AsSet
    <3>3. QED
      BY <3>1, <3>2, <1>2
  <2>2. CASE ~have
    <3>1. \A k \in 1..Len(L) : IF k < at THEN L[k] < p ELSE p < L[k]
      <4>1. at <= Len(L) => L[at] # p
        BY <2>2, <1>2, <1>3, <1>5
      <4>2. ASSUME NEW k \in 1..Len(L), at < k
            PROVE  p < L[k]
        <5>1. at \in 1..Len(L) /\ p <= L[at]
          BY <4>2, <1>2, <1>5
        <5>2. L[at] < L[k]
          BY <4>2, <5>1 DEF Sorted
        <5>3. QED
          BY <5>1, <5>2, <1>2
      <4>3. QED
        BY <4>1, <4>2, <1>2, <1>5
    <3>2. M = SubSeq(L, 1, at - 1) \o <<p>> \o SubSeq(L, at, Len(L))
      BY <2>2
    <3> HIDE DEF M, have
    <3> DEFINE N == SubSeq(L, 1, at - 1) \o <<p>> \o SubSeq(L, at, Len(L))
    <3>3. N \in Seq(1..m) /\ Sorted(N) /\ AsSet(N) = AsSet(L) \cup {p} /\ Len(N) = Len(L) + 1
      BY <3>1, <1>5, Placing
    <3> HIDE DEF N
    <3>4. QED
      BY <3>2, <3>3 DEF N
  <2>3. QED
    BY <2>1, <2>2
<1>7. Placed(L, p) = M
  BY DEF Placed, Later, at
<1> HIDE DEF M
<1>8. QED
  BY <1>6, <1>7

\* What is joined at the head of the list is a frame.
LEMMA Joining ==
    ASSUME NEW L \in Seq(1..Len(packets)), Len(packets) \in Nat, Sorted(L), Together(AsSet(L)),
           NEW n, n = WholeFrame(L), n > 0
    PROVE  n \in 1..Len(L) /\ Len(SubSeq(L, 1, n)) = n /\ IsFrame(SubSeq(L, 1, n))
           /\ \A k \in 1..n : SubSeq(L, 1, n)[k] = L[k] /\ L[k] = L[1] + k - 1
<1> DEFINE place(i) == packets[L[i]]
           Follows(i) == DiffSeq(SeqOf(L[i]), SeqOf(L[i - 1])) = 1
           ends == {k \in 2..Len(L) : /\ place(1) = "start" /\ place(k) = "end"
                                      /\ \A i \in 2..k : Follows(i)
                                      /\ \A i \in 2..(k - 1) : place(i) = "middle"}
<1>1. Len(L) \in Nat /\ \A k \in 1..Len(L) : L[k] \in Nat \ {0}
  OBVIOUS
<1>2. WholeFrame(L) = IF L = <<>> THEN 0 ELSE IF place(1) = "single" THEN 1
                      ELSE IF ends = {} THEN 0 ELSE CHOOSE k \in ends : TRUE
  BY DEF WholeFrame
<1>3. Len(L) > 0 /\ ((n = 1 /\ place(1) = "single") \/ n \in ends)
  <2>1. L # <<>>
    BY <1>2
  <2>2. Len(L) > 0
    BY <2>1, EmptySeq
  <2>3. place(1) = "single" \/ ends # {}
    <3> HIDE DEF ends, place
    <3>1. QED
      BY <2>1, <1>2
  <2> HIDE DEF ends, place
  <2>4. QED
    BY <2>1, <2>2, <2>3, <1>2
<1>4. /\ n \in 1..Len(L) /\ \A i \in 2..n : Follows(i)
      /\ \/ n = 1 /\ place(1) = "single"
         \/ /\ n > 1 /\ place(1) = "start" /\ place(n) = "end"
            /\ \A i \in 2..(n - 1) : place(i) = "middle"
  <2>1. CASE n = 1 /\ place(1) = "single"
    BY <2>1, <1>1, <1>3
  <2>2. CASE n \in ends
    BY <2>2, <1>1
  <2>3. QED
    BY <2>1, <2>2, <1>3
<1> HIDE DEF place, ends, Follows
<1>5. ASSUME NEW i \in 2..n
      PROVE  L[i] = L[i - 1] + 1
  <2>1. i \in 1..Len(L) /\ i - 1 \in 1..Len(L) /\ i - 1 < i
    BY <1>1, <1>4
  <2>2. L[i] \in Nat \ {0} /\ L[i - 1] \in Nat \ {0} /\ Follows(i)
    BY <1>1, <1>4, <2>1
  <2>3. L[i] - L[i - 1] < Window /\ L[i - 1] - L[i] < Window
    BY <2>1 DEF Together, AsSet
  <2>4. DiffSeq(SeqOf(L[i]), SeqOf(L[i - 1])) = L[i] - L[i - 1]
    BY <2>2, <2>3, SeqTells
  <2>5. QED
    BY <2>2, <2>4 DEF Follows
<1>6. \A k \in 1..n : L[k] = L[1] + k - 1
  <2> DEFINE T == {i \in 0..(n - 1) : L[i + 1] = L[1] + i}
  <2>1. 0 \in T
    BY <1>1, <1>4
  <2>2. ASSUME NEW i \in 1..(n - 1), i - 1 \in T
        PROVE  i \in T
    <3>1. L[1] \in Nat /\ i + 1 \in 2..n /\ (i + 1) - 1 = i /\ (i - 1) + 1 = i
      BY <1>1, <1>4
    <3>2. L[i] = L[1] + (i - 1)
      BY <2>2, <3>1
    <3>3. L[i + 1] = L[i] + 1
      BY <1>5, <3>1
    <3>4. L[i + 1] = L[1] + i
      BY <3>1, <3>2, <3>3
    <3>5. QED
      BY <1>4, <3>4
  <2>3. \A i \in 0..(n - 1) : i \in T
    <3>1. n - 1 \in Nat
      BY <1>4
    <3> HIDE DEF T
    <3>2. QED
      BY <3>1, <2>1, <2>2, HandedOn
  <2>4. ASSUME NEW k \in 1..n
        PROVE  L[k] = L[1] + k - 1
    <3>1. k - 1 \in T
      BY <2>3, <1>4
    <3>2. L[(k - 1) + 1] = L[1] + (k - 1) /\ (k - 1) + 1 = k
      BY <3>1, <1>4
    <3>3. QED
      BY <3>2, <1>1, <1>4
  <2>5. QED
    BY <2>4
<1> DEFINE F == SubSeq(L, 1, n)
<1>7. Len(F) = n /\ \A k \in 1..n : F[k] = L[k]
  <2>1. \A k \in 1..n : L[k] \in Nat
    BY <1>1, <1>4
  <2>2. 1 \in Int /\ n \in Int /\ 1 <= n /\ n - 1 + 1 = n
    BY <1>4
  <2>3. Len(F) = n /\ \A k \in 1..n : F[k] = L[1 + k - 1]
    BY <2>1, <2>2, SubSeqProperties
  <2> HIDE DEF F
  <2>4. QED
    BY <1>4, <2>3
<1> HIDE DEF F
<1>8. IsFrame(F)
  <2>1. F[1] = L[1] /\ F[n] = L[n] /\ \A k \in 2..(n - 1) : F[k] = L[k]
    BY <1>4, <1>7
  <2>2. \A k \in 1..n : F[k] = F[1] + k - 1
    BY <1>4, <1>6, <1>7
  <2>3. QED
    BY <1>4, <1>7, <2>1, <2>2 DEF IsFrame, place
<1>9. QED
  BY <1>4, <1>6, <1>7, <1>8 DEF F

\* The rest of a list without its first n packets is what is later than they are.
LEMMA Rest ==
    ASSUME NEW m \in Nat, NEW L \in Seq(1..m), Sorted(L), NEW n \in 1..Len(L)
    PROVE  LET M == SubSeq(L, n + 1, Len(L)) IN
           /\ M \in Seq(1..m) /\ Sorted(M) /\ Len(M) = Len(L) - n
           /\ AsSet(M) = {p \in AsSet(L) : L[n] < p}
<1> DEFINE M == SubSeq(L, n + 1, Len(L))
<1>1. Len(L) \in Nat /\ n \in Int /\ n + 1 \in Int /\ \A k \in 1..Len(L) : L[k] \in 1..m
  OBVIOUS
<1>2. M \in Seq(1..m) /\ Len(M) = Len(L) - n /\ \A k \in 1..(Len(L) - n) : M[k] = L[n + k]
  <2>1. \A k \in (n + 1)..Len(L) : L[k] \in 1..m
    BY <1>1
  <2>2. /\ M \in Seq(1..m)
        /\ Len(M) = IF n + 1 <= Len(L) THEN Len(L) - (n + 1) + 1 ELSE 0
        /\ \A k \in 1..(Len(L) - (n + 1) + 1) : M[k] = L[n + 1 + k - 1]
    BY <1>1, <2>1, SubSeqProperties
  <2> HIDE DEF M
  <2>3. Len(L) - (n + 1) + 1 = Len(L) - n
    BY <1>1
  <2>4. \A k \in 1..(Len(L) - n) : n + 1 + k - 1 = n + k
    BY <1>1
  <2>5. Len(M) = Len(L) - n
    <3>1. n <= Len(L) /\ n \in Int /\ Len(L) \in Int
      BY <1>1
    <3> DEFINE l == Len(L)
               k == Len(M)
    <3>2. k = IF n + 1 <= l THEN l - (n + 1) + 1 ELSE 0
      BY <2>2
    <3> HIDE DEF l, k
    <3>3. l \in Int /\ n <= l
      BY <3>1 DEF l
    <3>4. k = l - n
      BY <3>1, <3>2, <3>3
    <3>5. QED
      BY <3>4 DEF k, l
  <2>6. ASSUME NEW k \in 1..(Len(L) - n)
        PROVE  M[k] = L[n + k]
    <3>1. M[k] = L[n + 1 + k - 1]
      BY <2>2, <2>3
    <3>2. n + 1 + k - 1 = n + k
      BY <1>1
    <3>3. QED
      BY <3>1, <3>2
  <2>7. QED
    BY <2>2, <2>5, <2>6
<1> HIDE DEF M
<1>3. \A k \in 1..Len(M) : n + k \in 1..Len(L) /\ M[k] = L[n + k]
  BY <1>1, <1>2
<1>4. Sorted(M)
  <2>1. ASSUME NEW i \in 1..Len(M), NEW j \in 1..Len(M), i < j
        PROVE  M[i] < M[j]
    <3>1. n + i < n + j
      BY <1>1, <1>2, <2>1
    <3>2. QED
      BY <1>3, <3>1 DEF Sorted
  <2>2. QED
    BY <2>1 DEF Sorted
<1>5. ASSUME NEW k \in 1..Len(M)
      PROVE  M[k] \in AsSet(L) /\ L[n] < M[k]
  <2>1. n < n + k
    BY <1>1, <1>2
  <2>2. QED
    BY <1>3, <2>1 DEF AsSet, Sorted
<1>6. ASSUME NEW k \in 1..Len(L), L[n] < L[k]
      PROVE  L[k] \in AsSet(M)
  <2>1. n < k
    <3>1. SUFFICES ASSUME k < n
                   PROVE  FALSE
      BY <1>1, <1>6
    <3>2. L[k] < L[n]
      BY <3>1 DEF Sorted
    <3>3. QED
      BY <3>2, <1>1, <1>6
  <2>2. k - n \in 1..Len(M) /\ n + (k - n) = k
    BY <2>1, <1>1, <1>2
  <2>3. M[k - n] = L[k]
    BY <2>2, <1>3
  <2>4. QED
    BY <2>2, <2>3 DEF AsSet
<1>7. AsSet(M) = {p \in AsSet(L) : L[n] < p}
  <2>1. AsSet(M) \subseteq {p \in AsSet(L) : L[n] < p}
    BY <1>5 DEF AsSet
  <2>2. {p \in AsSet(L) : L[n] < p} \subseteq AsSet(M)
    BY <1>6 DEF AsSet
  <2>3. QED
    BY <2>1, <2>2
<1>8. QED
  BY <1>2, <1>4, <1>7 DEF M

\* What tryUnpackOne makes of a container.
LEMMA Taking ==
    ASSUME NEW b \in Boxes, Len(packets) \in Nat, Sorted(b.list), Together(AsSet(b.list)),
           WholeFrame(b.list) > 0
    PROVE  LET n == WholeFrame(b.list)
               f == SubSeq(b.list, 1, n)
               c == UnpackOne(b)
           IN  /\ n \in 1..Len(b.list) /\ IsFrame(f) /\ Len(f) = n
               /\ f[1] = b.list[1] /\ f[n] = b.list[n] /\ b.list[n] = b.list[1] + n - 1
               /\ c \in Boxes /\ c.flag = TRUE /\ c.seq = SeqOf(b.list[n])
               /\ Len(c.out) = Len(b.out) + 1 /\ c.out[Len(c.out)] = f
               /\ \A i \in 1..Len(b.out) : c.out[i] = b.out[i]
               /\ LastOut(c) = b.list[n]
               /\ Sorted(c.list) /\ Len(c.list) = Len(b.list) - n
               /\ AsSet(c.list) = {p \in AsSet(b.list) : b.list[n] < p}
               /\ c.size \in {b.size - n, b.size - (n - 1)}
<1> DEFINE L == b.list
           n == WholeFrame(L)
           f == SubSeq(L, 1, n)
           M == SubSeq(L, n + 1, Len(L))
           c == UnpackOne(b)
<1>1. L \in Seq(1..Len(packets)) /\ b.out \in Seq(Seq(1..Len(packets))) /\ b.size \in Int
  BY DEF Boxes
<1>2. c = [list |-> M, size |-> IF codec = "aac" /\ n > 1 THEN b.size - (n - 1) ELSE b.size - n,
           flag |-> TRUE, seq |-> SeqOf(L[n]), out |-> Append(b.out, f)]
  BY DEF UnpackOne
<1>3. /\ n \in 1..Len(L) /\ Len(f) = n /\ IsFrame(f)
      /\ \A k \in 1..n : f[k] = L[k] /\ L[k] = L[1] + k - 1
  <2> HIDE DEF L, n, f
  <2>1. n = WholeFrame(L) /\ n > 0 /\ Sorted(L) /\ Together(AsSet(L))
    BY DEF L, n
  <2>2. QED
    BY <1>1, <2>1, Joining DEF f
<1>4. \A k \in 1..Len(L) : L[k] \in 1..Len(packets)
  BY <1>1
<1> HIDE DEF n
<1>5. f \in Seq(1..Len(packets))
  <2>1. \A k \in 1..n : L[k] \in 1..Len(packets)
    BY <1>3, <1>4
  <2>2. n \in Int
    BY <1>3
  <2> HIDE DEF L
  <2>3. QED
    BY <2>1, <2>2, SubSeqProperties
<1>6. /\ M \in Seq(1..Len(packets)) /\ Sorted(M) /\ Len(M) = Len(L) - n
      /\ AsSet(M) = {p \in AsSet(L) : L[n] < p}
  <2>1. Sorted(L)
    OBVIOUS
  <2> HIDE DEF L
  <2>2. QED
    BY <1>1, <1>3, <2>1, Rest
<1> HIDE DEF f, M
<1>7. /\ Append(b.out, f) \in Seq(Seq(1..Len(packets)))
      /\ Len(Append(b.out, f)) = Len(b.out) + 1
      /\ Append(b.out, f)[Len(b.out) + 1] = f
      /\ \A i \in 1..Len(b.out) : Append(b.out, f)[i] = b.out[i]
  BY <1>1, <1>5, AppendProperties
<1>8. SeqOf(L[n]) \in Int
  <2>1. L[n] \in Nat \ {0}
    BY <1>3, <1>4
  <2> HIDE DEF L
  <2>2. L[n] - L[n] < SeqWord /\ L[n] <= L[n]
    BY <2>1, RtpReceiveAssumption
  <2>3. QED
    BY <2>1, <2>2, SeqOfLater
<1>9. c \in Boxes
  BY <1>1, <1>2, <1>3, <1>6, <1>7, <1>8 DEF Boxes
<1>10. 1 \in 1..n /\ n \in 1..n
  BY <1>3
<1>11. LastOut(c) = L[n]
  BY <1>2, <1>3, <1>7, <1>10 DEF LastOut
<1>12. c.size \in {b.size - n, b.size - (n - 1)}
  BY <1>2
<1> HIDE DEF c
<1>13. /\ c.flag = TRUE /\ c.seq = SeqOf(L[n]) /\ c.list = M /\ c.out = Append(b.out, f)
  BY <1>2 DEF c
<1>14. QED
  BY <1>3, <1>6, <1>7, <1>9, <1>10, <1>11, <1>12, <1>13 DEF c, n, f

\* A frame at the head that goes out.
LEMMA TakingKeeps ==
    ASSUME NEW b, BoxInv(b), Len(packets) \in Nat, WholeFrame(b.list) > 0
    PROVE  BoxInv(UnpackOne(b))
<1> DEFINE n == WholeFrame(b.list)
           f == SubSeq(b.list, 1, n)
           c == UnpackOne(b)
<1>1. /\ b \in Boxes /\ Sorted(b.list) /\ Together(AsSet(b.list))
      /\ b.flag <=> Len(b.out) > 0
      /\ \A i \in 1..Len(b.out) : IsFrame(b.out[i])
      /\ \A i, j \in 1..Len(b.out) : i < j => b.out[i][Len(b.out[i])] < b.out[j][1]
      /\ b.flag => \A p \in AsSet(b.list) : LastOut(b) < p /\ p - LastOut(b) < Window
  BY DEF BoxInv
<1>2. /\ n \in 1..Len(b.list) /\ IsFrame(f) /\ Len(f) = n
      /\ f[1] = b.list[1] /\ f[n] = b.list[n]
      /\ c \in Boxes /\ c.flag = TRUE /\ c.seq = SeqOf(b.list[n])
      /\ Len(c.out) = Len(b.out) + 1 /\ c.out[Len(c.out)] = f
      /\ \A i \in 1..Len(b.out) : c.out[i] = b.out[i]
      /\ LastOut(c) = b.list[n] /\ Sorted(c.list)
      /\ AsSet(c.list) = {p \in AsSet(b.list) : b.list[n] < p}
  <2> HIDE DEF n, f, c
  <2>1. QED
    BY <1>1, Taking DEF n, f, c
<1> HIDE DEF n, f, c
<1>3. /\ Len(b.out) \in Nat /\ Len(b.list) \in Nat /\ 1 \in 1..Len(b.list)
      /\ b.list[1] \in AsSet(b.list) /\ b.list[n] \in AsSet(b.list)
  <2>1. b.list \in Seq(1..Len(packets)) /\ b.out \in Seq(Seq(1..Len(packets)))
    BY <1>1 DEF Boxes
  <2>2. Len(b.out) \in Nat /\ Len(b.list) \in Nat
    BY <2>1, LenProperties
  <2>3. 1 \in 1..Len(b.list)
    BY <1>2, <2>2
  <2>4. QED
    BY <1>2, <2>2, <2>3 DEF AsSet
<1>4. Together(AsSet(c.list))
  BY <1>1, <1>2 DEF Together
<1>5. ASSUME NEW p \in AsSet(c.list)
      PROVE  LastOut(c) < p /\ p - LastOut(c) < Window
  BY <1>1, <1>2, <1>3, <1>5 DEF Together
<1>6. ASSUME NEW i \in 1..Len(c.out)
      PROVE  IsFrame(c.out[i])
  <2>1. CASE i = Len(c.out)
    BY <2>1, <1>2
  <2>2. CASE i # Len(c.out)
    <3>1. i \in 1..Len(b.out)
      BY <2>2, <1>2, <1>3
    <3>2. QED
      BY <3>1, <1>1, <1>2
  <2>3. QED
    BY <2>1, <2>2
<1>7. ASSUME NEW i \in 1..Len(c.out), NEW j \in 1..Len(c.out), i < j
      PROVE  c.out[i][Len(c.out[i])] < c.out[j][1]
  <2>1. i \in 1..Len(b.out) /\ c.out[i] = b.out[i]
    BY <1>2, <1>3, <1>7
  <2>2. CASE j \in 1..Len(b.out)
    BY <1>1, <1>2, <1>7, <2>1, <2>2
  <2>3. CASE j = Len(b.out) + 1
    <3>1. b.flag /\ LastOut(b) < b.list[1]
      BY <2>1, <1>1, <1>3
    <3>2. b.out[i][Len(b.out[i])] <= LastOut(b)
      <4>1. CASE i = Len(b.out)
        <5>1. LastOut(b) = b.out[i][Len(b.out[i])]
          BY <4>1 DEF LastOut
        <5>2. LastOut(b) \in Nat
          <6>1. b.out[i] \in Seq(1..Len(packets)) /\ IsFrame(b.out[i])
            BY <1>1, <2>1 DEF Boxes
          <6>2. Len(b.out[i]) \in 1..Len(b.out[i])
            BY <6>1 DEF IsFrame
          <6>3. QED
            BY <5>1, <6>1, <6>2
        <5>3. QED
          BY <5>1, <5>2
      <4>2. CASE i < Len(b.out)
        <5> DEFINE h == b.out[Len(b.out)]
        <5>1. b.out[i][Len(b.out[i])] < h[1]
          BY <1>1, <1>3, <2>1, <4>2
        <5>2. b.out[i] \in Seq(1..Len(packets)) /\ IsFrame(b.out[i])
          BY <1>1, <2>1 DEF Boxes
        <5>3. h \in Seq(1..Len(packets)) /\ IsFrame(h)
          BY <1>1, <1>3, <2>1, SMTT(30) DEF Boxes
        <5> HIDE DEF h
        <5>4. Len(b.out[i]) \in 1..Len(b.out[i]) /\ b.out[i][Len(b.out[i])] \in Nat
          BY <5>2 DEF IsFrame
        <5>5. h[1] \in Nat /\ h[Len(h)] \in Nat /\ h[1] <= h[Len(h)]
          <6>1. Len(h) \in 1..Len(h) /\ 1 \in 1..Len(h)
            BY <5>3 DEF IsFrame
          <6>2. h[Len(h)] = h[1] + Len(h) - 1
            BY <5>3, <6>1 DEF IsFrame
          <6>3. QED
            BY <5>3, <6>1, <6>2
        <5> DEFINE e == b.out[i][Len(b.out[i])]
                   k == h[Len(h)]
        <5>6. e < h[1] /\ e \in Nat /\ h[1] \in Nat /\ k \in Nat /\ h[1] <= k
          BY <5>1, <5>4, <5>5
        <5> HIDE DEF e, k
        <5>7. e <= k
          BY <5>6
        <5>8. k = LastOut(b)
          BY DEF LastOut, h, k
        <5>9. QED
          BY <5>7, <5>8 DEF e
      <4>3. QED
        BY <2>1, <1>3, <4>1, <4>2
    <3>3. b.out[i][Len(b.out[i])] \in Int /\ LastOut(b) \in Int /\ b.list[1] \in Int
      <4>1. \A k \in 1..Len(b.out) : b.out[k][Len(b.out[k])] \in Int
        <5>1. SUFFICES ASSUME NEW k \in 1..Len(b.out)
                       PROVE  b.out[k][Len(b.out[k])] \in Int
          OBVIOUS
        <5>2. b.out[k] \in Seq(1..Len(packets)) /\ IsFrame(b.out[k])
          BY <1>1 DEF Boxes
        <5>3. QED
          BY <5>2 DEF IsFrame
      <4>2. Len(b.out) \in 1..Len(b.out)
        BY <1>3, <2>1
      <4>3. b.list \in Seq(1..Len(packets))
        BY <1>1 DEF Boxes
      <4>4. b.list[1] \in Int
        BY <4>3, <1>3
      <4>5. QED
        BY <4>1, <4>2, <4>4, <2>1 DEF LastOut
    <3> DEFINE e == b.out[i][Len(b.out[i])]
               k == LastOut(b)
               l == b.list[1]
    <3>4. e <= k /\ k < l /\ e \in Int /\ k \in Int /\ l \in Int
      BY <3>1, <3>2, <3>3
    <3>5. c.out[i][Len(c.out[i])] = e /\ c.out[j][1] = l
      BY <1>2, <2>1, <2>3
    <3> HIDE DEF e, k, l
    <3>6. e < l
      BY <3>4
    <3>7. QED
      BY <3>5, <3>6
  <2>4. QED
    BY <2>2, <2>3, <1>2, <1>3
<1>8. QED
  BY <1>2, <1>3, <1>4, <1>5, <1>6, <1>7 DEF BoxInv, c

\* A packet that is put into its place.
LEMMA InsertKeeps ==
    ASSUME NEW b, BoxInv(b), Len(packets) \in Nat, NEW p \in 1..Len(packets),
           ~IsStale(b, p), Together(AsSet(b.list) \cup {p}),
           b.flag => p - LastOut(b) < Window /\ LastOut(b) - p < Window
    PROVE  /\ BoxInv(Insert(b, p)) /\ AsSet(Insert(b, p).list) = AsSet(b.list) \cup {p}
           /\ Insert(b, p).out = b.out /\ Insert(b, p).flag = b.flag
           /\ Insert(b, p).size = b.size + 1
           /\ Len(Insert(b, p).list) \in {Len(b.list), Len(b.list) + 1}
           /\ p \notin AsSet(b.list) => Len(Insert(b, p).list) = Len(b.list) + 1
<1> DEFINE M == Placed(b.list, p)
           c == Insert(b, p)
<1>1. b \in Boxes /\ Sorted(b.list) /\ b.list \in Seq(1..Len(packets)) /\ b.size \in Int
  BY DEF BoxInv, Boxes
<1>2. /\ M \in Seq(1..Len(packets)) /\ Sorted(M) /\ AsSet(M) = AsSet(b.list) \cup {p}
      /\ Len(M) \in {Len(b.list), Len(b.list) + 1}
      /\ p \notin AsSet(b.list) => Len(M) = Len(b.list) + 1
  <2> HIDE DEF M
  <2>1. QED
    BY <1>1, Scanning DEF M
<1>3. c = [b EXCEPT !.size = @ + 1, !.list = M]
  BY DEF Insert
<1> HIDE DEF M, c
<1>4. /\ c \in Boxes /\ c.list = M /\ c.out = b.out /\ c.flag = b.flag /\ c.seq = b.seq
      /\ c.size = b.size + 1
  <2> DEFINE Ls == Seq(1..Len(packets))
             Os == Seq(Seq(1..Len(packets)))
             k == b.size + 1
  <2>1. /\ b \in [list : Ls, size : Int, flag : BOOLEAN, seq : Int, out : Os] /\ M \in Ls
        /\ k \in Int /\ c = [b EXCEPT !.size = k, !.list = M]
    BY <1>1, <1>2, <1>3 DEF Boxes
  <2> HIDE DEF Ls, Os, k
  <2>2. /\ c \in [list : Ls, size : Int, flag : BOOLEAN, seq : Int, out : Os]
        /\ c.list = M /\ c.size = k /\ c.out = b.out /\ c.flag = b.flag /\ c.seq = b.seq
    BY <2>1
  <2>3. QED
    BY <2>2 DEF Boxes, Ls, Os, k
<1>5. LastOut(c) = LastOut(b)
  BY <1>4 DEF LastOut
<1>6. ASSUME b.flag
      PROVE  LastOut(b) < p
  <2>1. LastOut(b) \in Nat \ {0}
    <3>1. /\ Len(b.out) \in 1..Len(b.out) /\ b.out[Len(b.out)] \in Seq(1..Len(packets))
          /\ IsFrame(b.out[Len(b.out)])
      BY <1>6, <1>1 DEF BoxInv, Boxes
    <3>2. QED
      BY <3>1 DEF LastOut, IsFrame
  <2>2. b.seq = SeqOf(LastOut(b))
    BY <1>6 DEF BoxInv
  <2>3. ~(CompareSeq(SeqOf(p), SeqOf(LastOut(b))) <= 0)
    BY <1>6, <2>2 DEF IsStale
  <2>4. ~(p <= LastOut(b))
    BY <1>6, <2>1, <2>3, SeqTells
  <2>5. QED
    BY <2>1, <2>4
<1>7. BoxInv(c)
  BY <1>2, <1>4, <1>5, <1>6 DEF BoxInv
<1>8. QED
  BY <1>2, <1>4, <1>7 DEF c

\* The head of the list that is given up.
LEMMA DropKeeps ==
    ASSUME NEW b, BoxInv(b), Len(packets) \in Nat, b.list # <<>>
    PROVE  LET c == [b EXCEPT !.list = Tail(@), !.size = @ - 1] IN
           /\ BoxInv(c) /\ AsSet(c.list) = {q \in AsSet(b.list) : Head(b.list) < q}
           /\ Len(c.list) = Len(b.list) - 1
<1> DEFINE c == [b EXCEPT !.list = Tail(@), !.size = @ - 1]
           L == b.list
<1>1. b \in Boxes /\ Sorted(L) /\ L \in Seq(1..Len(packets)) /\ b.size \in Int
  BY DEF BoxInv, Boxes
<1>2. 1 \in 1..Len(L) /\ Tail(L) = SubSeq(L, 1 + 1, Len(L)) /\ Head(L) = L[1]
  BY <1>1
<1>3. /\ Tail(L) \in Seq(1..Len(packets)) /\ Sorted(Tail(L)) /\ Len(Tail(L)) = Len(L) - 1
      /\ AsSet(Tail(L)) = {q \in AsSet(L) : L[1] < q}
  <2> HIDE DEF L
  <2>1. QED
    BY <1>1, <1>2, Rest
<1>4. /\ c \in Boxes /\ c.list = Tail(L) /\ c.out = b.out /\ c.flag = b.flag /\ c.seq = b.seq
  <2> DEFINE Ls == Seq(1..Len(packets))
             Os == Seq(Seq(1..Len(packets)))
             k == b.size - 1
             M == Tail(L)
  <2>1. /\ b \in [list : Ls, size : Int, flag : BOOLEAN, seq : Int, out : Os] /\ M \in Ls
        /\ k \in Int /\ c = [b EXCEPT !.size = k, !.list = M]
    <3>1. c = [b EXCEPT !.size = k, !.list = M]
      BY <1>1 DEF Boxes
    <3> HIDE DEF c
    <3>2. QED
      BY <3>1, <1>1, <1>3 DEF Boxes
  <2> HIDE DEF Ls, Os, k, M, c
  <2>2. /\ c \in [list : Ls, size : Int, flag : BOOLEAN, seq : Int, out : Os]
        /\ c.list = M /\ c.out = b.out /\ c.flag = b.flag /\ c.seq = b.seq
    BY <2>1
  <2>3. QED
    BY <2>2 DEF Boxes, Ls, Os, M
<1> HIDE DEF c
<1>5. LastOut(c) = LastOut(b)
  BY <1>4 DEF LastOut
<1>6. Together(AsSet(c.list))
  BY <1>3, <1>4 DEF BoxInv, Together
<1>7. BoxInv(c)
  BY <1>3, <1>4, <1>5, <1>6 DEF BoxInv
<1>8. QED
  BY <1>2, <1>3, <1>4, <1>7 DEF c

-----------------------------------------------------------------------------
(* Frames are intervals of packets that do not overlap.                    *)

\* a frame from its first packet to its last
Spans(a, e) ==
    /\ a \in 1..Len(packets) /\ e \in 1..Len(packets)
    /\ \/ a = e /\ packets[a] = "single"
       \/ /\ a < e /\ packets[a] = "start" /\ packets[e] = "end"
          /\ \A j \in (a + 1)..(e - 1) : packets[j] = "middle"

\* The stream, from the start on.
Stream == packets \in Seq(Place) /\ WellFormed(packets)

\* Two frames are the same or apart.
LEMMA Apart ==
    ASSUME NEW a, NEW e, NEW c, NEW d, Spans(a, e), Spans(c, d)
    PROVE  \/ a = c /\ e = d
           \/ a < c /\ e < c
           \/ c < a /\ d < a
<1>1. a \in Int /\ e \in Int /\ c \in Int /\ d \in Int /\ a <= e /\ c <= d
  BY DEF Spans
<1>2. ASSUME a < c
      PROVE  e < c
  <2>1. SUFFICES ASSUME c <= e
                 PROVE  FALSE
    BY <1>1
  <2>2. a # e /\ packets[e] = "end" /\ \A j \in (a + 1)..(e - 1) : packets[j] = "middle"
    BY <1>1, <1>2, <2>1 DEF Spans
  <2>3. packets[c] \in {"single", "start"}
    BY DEF Spans
  <2>4. c = e \/ c \in (a + 1)..(e - 1)
    BY <1>1, <1>2, <2>1
  <2>5. QED
    BY <2>2, <2>3, <2>4
<1>3. ASSUME c < a
      PROVE  d < a
  <2>1. SUFFICES ASSUME a <= d
                 PROVE  FALSE
    BY <1>1
  <2>2. c # d /\ packets[d] = "end" /\ \A j \in (c + 1)..(d - 1) : packets[j] = "middle"
    BY <1>1, <1>3, <2>1 DEF Spans
  <2>3. packets[a] \in {"single", "start"}
    BY DEF Spans
  <2>4. a = d \/ a \in (c + 1)..(d - 1)
    BY <1>1, <1>3, <2>1
  <2>5. QED
    BY <2>2, <2>3, <2>4
<1>4. ASSUME a = c, e < d
      PROVE  FALSE
  <2>1. packets[e] \in {"single", "end"}
    BY DEF Spans
  <2>2. packets[c] = "start" /\ \A j \in (c + 1)..(d - 1) : packets[j] = "middle"
    BY <1>1, <1>4 DEF Spans
  <2>3. e = c \/ e \in (c + 1)..(d - 1)
    BY <1>1, <1>4
  <2>4. QED
    BY <2>1, <2>2, <2>3
<1>5. ASSUME a = c, d < e
      PROVE  FALSE
  <2>1. packets[d] \in {"single", "end"}
    BY DEF Spans
  <2>2. packets[a] = "start" /\ \A j \in (a + 1)..(e - 1) : packets[j] = "middle"
    BY <1>1, <1>5 DEF Spans
  <2>3. d = a \/ d \in (a + 1)..(e - 1)
    BY <1>1, <1>5
  <2>4. QED
    BY <2>1, <2>2, <2>3
<1>6. QED
  BY <1>1, <1>2, <1>3, <1>4, <1>5

\* FrameAt, where it is known that the frame goes from a to e.
LEMMA FrameSpans ==
    ASSUME Stream, NEW a, NEW e, Spans(a, e)
    PROVE  FrameAt(a) = a..e /\ a..e \in Frames
<1> DEFINE ends == {q \in a..Len(packets) : packets[q] \in {"single", "end"}}
           k == CHOOSE q \in ends : \A r \in ends : q <= r
<1>1. /\ Len(packets) \in Nat /\ DOMAIN packets = 1..Len(packets)
      /\ a \in 1..Len(packets) /\ e \in 1..Len(packets) /\ a <= e
  BY DEF Stream, Spans
<1>2. e \in ends
  BY <1>1 DEF Spans
<1>3. ASSUME NEW r \in ends
      PROVE  e <= r
  <2>1. SUFFICES ASSUME r < e
                 PROVE  FALSE
    BY <1>1
  <2>2. packets[a] = "start" /\ \A j \in (a + 1)..(e - 1) : packets[j] = "middle"
    BY <1>1, <2>1 DEF Spans
  <2>3. r = a \/ r \in (a + 1)..(e - 1)
    BY <1>1, <2>1
  <2>4. QED
    BY <2>2, <2>3
<1>4. k \in ends /\ \A r \in ends : k <= r
  BY <1>2, <1>3
<1>5. k <= e /\ e <= k /\ k \in Int
  BY <1>1, <1>2, <1>3, <1>4
<1>6. FrameAt(a) = a..k
  BY DEF FrameAt
<1> HIDE DEF k
<1>7. k = e
  BY <1>1, <1>5
<1>8. packets[a] \in {"single", "start"}
  BY DEF Spans
<1>9. QED
  BY <1>1, <1>6, <1>7, <1>8 DEF Frames

\* A frame that is begun has an end, whatever the stream.
LEMMA HasEnd ==
    ASSUME Stream, NEW a \in 1..Len(packets), packets[a] \in {"single", "start"}
    PROVE  \E e \in 1..Len(packets) : Spans(a, e)
<1>1. /\ Len(packets) \in Nat /\ DOMAIN packets = 1..Len(packets)
      /\ \A j \in 1..Len(packets) : packets[j] \in Place
      /\ \A j \in 1..Len(packets) : packets[j] \in {"start", "middle"} =>
            j < Len(packets) /\ packets[j + 1] \in {"middle", "end"}
  BY DEF Stream, WellFormed
<1> DEFINE n == Len(packets)
           ends == {q \in a..n : packets[q] \in {"single", "end"}}
<1>2. ends # {}
  <2>1. SUFFICES ASSUME ends = {}
                 PROVE  FALSE
    OBVIOUS
  <2>2. \A j \in a..n : packets[j] \in {"start", "middle"}
    BY <2>1, <1>1 DEF Place
  <2>3. n \in a..n /\ n \in 1..n
    BY <1>1
  <2>4. QED
    BY <2>2, <2>3, <1>1
<1>3. PICK e \in ends : \A r \in ends : e <= r
  <2>1. ends \in SUBSET Nat
    BY <1>1
  <2> HIDE DEF ends
  <2>2. QED
    BY <1>2, <2>1, Least
<1>4. \A j \in a..(e - 1) : packets[j] \in {"start", "middle"}
  BY <1>1, <1>3 DEF Place
<1>5. Spans(a, e)
  <2>1. CASE a = e
    BY <2>1, <1>1, <1>3 DEF Spans
  <2>2. CASE a < e
    <3>1. packets[a] = "start"
      BY <2>2, <1>1, <1>4
    <3>2. ASSUME NEW j \in (a + 1)..e
          PROVE  packets[j] \in {"middle", "end"}
      <4>1. j - 1 \in a..(e - 1) /\ j - 1 \in 1..n /\ (j - 1) + 1 = j
        BY <1>1, <1>3
      <4>2. packets[j - 1] \in {"start", "middle"}
        BY <4>1, <1>4
      <4>3. packets[(j - 1) + 1] \in {"middle", "end"}
        BY <4>1, <4>2, <1>1
      <4>4. QED
        BY <4>1, <4>3
    <3>3. packets[e] = "end"
      BY <2>2, <3>2, <1>1, <1>3
    <3>4. ASSUME NEW j \in (a + 1)..(e - 1)
          PROVE  packets[j] = "middle"
      <4>1. j \in a..(e - 1) /\ j \in (a + 1)..e
        BY <1>1, <1>3
      <4>2. QED
        BY <4>1, <3>2, <1>4
    <3>5. QED
      BY <2>2, <3>1, <3>3, <3>4, <1>1, <1>3 DEF Spans
  <2>3. QED
    BY <2>1, <2>2, <1>1, <1>3
<1>6. QED
  BY <1>1, <1>3, <1>5

\* Each of Frames goes from a first to a last packet.
LEMMA FramesSpan ==
    ASSUME Stream, NEW f \in Frames
    PROVE  \E a, e \in 1..Len(packets) : Spans(a, e) /\ f = a..e
<1>1. PICK a \in 1..Len(packets) : packets[a] \in {"single", "start"} /\ f = FrameAt(a)
  BY DEF Frames, Stream
<1>2. PICK e \in 1..Len(packets) : Spans(a, e)
  BY <1>1, HasEnd
<1>3. f = a..e
  BY <1>1, <1>2, FrameSpans
<1>4. QED
  BY <1>2, <1>3

\* Every packet is of a frame.
LEMMA InFrame ==
    ASSUME Stream, NEW x \in 1..Len(packets)
    PROVE  \E a, e \in 1..Len(packets) : Spans(a, e) /\ a <= x /\ x <= e
<1>1. /\ Len(packets) \in Nat
      /\ \A j \in 1..Len(packets) : packets[j] \in Place
      /\ \A j \in 1..Len(packets) : packets[j] \in {"middle", "end"} =>
            j > 1 /\ packets[j - 1] \in {"start", "middle"}
  BY DEF Stream, WellFormed
<1> DEFINE S == {q \in 1..x : packets[q] \in {"single", "start"}}
<1>2. S # {}
  <2>1. SUFFICES ASSUME S = {}
                 PROVE  FALSE
    OBVIOUS
  <2>2. 1 \in 1..x /\ 1 \in 1..Len(packets)
    BY <1>1
  <2>3. packets[1] \in {"middle", "end"}
    BY <2>1, <2>2, <1>1 DEF Place
  <2>4. QED
    BY <2>2, <2>3, <1>1
<1>3. PICK a \in S : \A q \in S : q <= a
  <2>1. S \in SUBSET (0..x) /\ x \in Nat
    BY <1>1
  <2> HIDE DEF S
  <2>2. QED
    BY <1>2, <2>1, Greatest
<1>4. a \in 1..Len(packets) /\ a <= x /\ packets[a] \in {"single", "start"}
  BY <1>1, <1>3
<1>5. PICK e \in 1..Len(packets) : Spans(a, e)
  BY <1>4, HasEnd
<1>6. ASSUME e < x
      PROVE  FALSE
  <2>1. e + 1 \in 1..x /\ e + 1 \in 1..Len(packets) /\ e + 1 > a /\ (e + 1) - 1 = e
    BY <1>1, <1>5, <1>6 DEF Spans
  <2>2. e + 1 \notin S
    BY <1>3, <1>4, <2>1
  <2>3. packets[e + 1] \in {"middle", "end"}
    BY <1>1, <2>1, <2>2 DEF Place
  <2>4. packets[(e + 1) - 1] \in {"start", "middle"}
    BY <1>1, <2>1, <2>3
  <2>5. packets[e] \in {"start", "middle"}
    BY <2>1, <2>4
  <2>6. QED
    BY <1>5, <2>5 DEF Spans
<1>7. QED
  BY <1>1, <1>4, <1>5, <1>6

\* What was joined goes from its first packet to its last.
LEMMA JoinedSpans ==
    ASSUME Stream, NEW f \in Seq(1..Len(packets)), IsFrame(f)
    PROVE  /\ Spans(f[1], f[Len(f)]) /\ AsSet(f) = f[1]..f[Len(f)]
           /\ f[1] \in Nat \ {0} /\ f[Len(f)] \in Nat \ {0} /\ f[1] <= f[Len(f)]
<1> DEFINE n == Len(f)
           a == f[1]
           e == f[n]
<1>1. /\ n \in Nat /\ n > 0 /\ 1 \in 1..n /\ n \in 1..n
      /\ \A j \in 1..n : f[j] \in 1..Len(packets)
      /\ \A j \in 1..n : f[j] = a + j - 1
  BY DEF IsFrame
<1>2. e = a + n - 1 /\ a \in 1..Len(packets) /\ e \in 1..Len(packets)
  BY <1>1
<1>3. \/ n = 1 /\ packets[a] = "single"
      \/ /\ n > 1 /\ packets[a] = "start" /\ packets[e] = "end"
         /\ \A j \in 2..(n - 1) : packets[f[j]] = "middle"
  BY DEF IsFrame
<1>4. AsSet(f) = {f[j] : j \in 1..n}
  BY DEF AsSet
<1>5. Len(packets) \in Nat
  BY DEF Stream
<1> HIDE DEF n, a, e
<1>6. ASSUME NEW q \in a..e
      PROVE  q - a + 1 \in 1..n /\ f[q - a + 1] = q
  <2>1. q - a + 1 \in 1..n
    BY <1>1, <1>2, <1>5
  <2>2. f[q - a + 1] = a + (q - a + 1) - 1
    BY <1>1, <2>1
  <2>3. QED
    BY <2>1, <2>2, <1>2, <1>5
<1>7. AsSet(f) = a..e
  <2>1. \A j \in 1..n : f[j] \in a..e
    BY <1>1, <1>2, <1>5
  <2>2. QED
    BY <2>1, <1>4, <1>6
<1>8. Spans(a, e)
  <2>1. CASE n = 1
    BY <2>1, <1>2, <1>3, <1>5 DEF Spans
  <2>2. CASE n > 1
    <3>1. ASSUME NEW q \in (a + 1)..(e - 1)
          PROVE  packets[q] = "middle"
      <4>1. q \in a..e /\ q - a + 1 \in 2..(n - 1)
        BY <1>1, <1>2, <1>5
      <4>2. QED
        BY <4>1, <1>3, <1>6, <2>2
    <3>2. a < e
      BY <2>2, <1>1, <1>2, <1>5
    <3>3. QED
      BY <2>2, <3>1, <3>2, <1>2, <1>3 DEF Spans
  <2>3. QED
    BY <2>1, <2>2, <1>1
<1>9. a \in Nat \ {0} /\ e \in Nat \ {0} /\ a <= e
  BY <1>1, <1>2, <1>5
<1>10. QED
  BY <1>7, <1>8, <1>9 DEF n, a, e

LEMMA LongestIs ==
    ASSUME Stream, NEW a, NEW e, Spans(a, e)
    PROVE  Longest \in Nat /\ e - a + 1 <= Longest
<1> DEFINE n == Len(packets)
           S == {Cardinality(f) : f \in Frames}
           IsLongest(k) == /\ \A f \in Frames : Cardinality(f) <= k
                           /\ \E f \in Frames : Cardinality(f) = k
<1>1. n \in Nat /\ a \in 1..n /\ e \in 1..n /\ a <= e
  BY DEF Stream, Spans
<1>2. ASSUME NEW c \in 1..n, NEW d \in 1..n, c <= d
      PROVE  Cardinality(c..d) = d - c + 1 /\ d - c + 1 \in 0..n
  BY <1>1, <1>2, FS_Interval
<1>3. S \subseteq 0..n
  <2>1. SUFFICES ASSUME NEW f \in Frames
                 PROVE  Cardinality(f) \in 0..n
    OBVIOUS
  <2>2. PICK c, d \in 1..n : Spans(c, d) /\ f = c..d
    BY FramesSpan
  <2>3. c <= d
    BY <2>2, <1>1 DEF Spans
  <2>4. QED
    BY <2>2, <2>3, <1>2
<1>4. a..e \in Frames /\ Cardinality(a..e) = e - a + 1
  BY <1>1, <1>2, FrameSpans
<1>5. PICK k \in S : \A i \in S : i <= k
  <2>1. S # {}
    BY <1>4
  <2> HIDE DEF S, n
  <2>2. QED
    BY <1>1, <1>3, <2>1, Greatest
<1>6. k \in 0..n /\ IsLongest(k)
  BY <1>3, <1>5
<1>7. Longest = CHOOSE i \in 0..n : IsLongest(i)
  BY DEF Longest
<1> HIDE DEF IsLongest
<1>8. Longest \in 0..n /\ IsLongest(Longest)
  BY <1>6, <1>7
<1>9. QED
  BY <1>1, <1>4, <1>8 DEF IsLongest

-----------------------------------------------------------------------------
(* A list in order.                                                        *)

LEMMA HeadIsLeast ==
    ASSUME NEW m \in Nat, NEW L \in Seq(1..m), Sorted(L)
    PROVE  \A x \in AsSet(L) : Len(L) > 0 /\ x \in 1..m /\ L[1] \in AsSet(L) /\ L[1] <= x
<1> SUFFICES ASSUME NEW x \in AsSet(L)
             PROVE  Len(L) > 0 /\ x \in 1..m /\ L[1] \in AsSet(L) /\ L[1] <= x
  OBVIOUS
<1>1. PICK i \in 1..Len(L) : x = L[i]
  BY DEF AsSet
<1>2. Len(L) \in Nat /\ 1 \in 1..Len(L) /\ \A k \in 1..Len(L) : L[k] \in 1..m
  BY <1>1
<1>3. i # 1 => L[1] < L[i]
  BY <1>2 DEF Sorted
<1>4. QED
  BY <1>1, <1>2, <1>3 DEF AsSet

\* So many packets reach so far, and one farther if one between them is missing.
LEMMA Spread ==
    ASSUME NEW m \in Nat, NEW L \in Seq(1..m), Sorted(L), Len(L) > 0, NEW q \in Int
    PROVE  LET t == L[Len(L)] IN
           /\ t \in AsSet(L) /\ t >= L[1] + Len(L) - 1
           /\ q \notin AsSet(L) /\ L[1] < q /\ q < t => t >= L[1] + Len(L)
<1> DEFINE n == Len(L) - 1
           Far(k) == /\ L[k] >= L[1] + k - 1
                     /\ q \notin AsSet(L) /\ L[1] < q /\ q < L[k] => L[k] >= L[1] + k
           T == {i \in 0..n : Far(i + 1)}
<1>1. n \in Nat /\ Len(L) = n + 1 /\ \A k \in 1..Len(L) : L[k] \in 1..m
  OBVIOUS
<1>2. 1 \in 1..Len(L)
  BY <1>1
<1>3. 0 \in T
  BY <1>1, <1>2
<1>4. ASSUME NEW i \in 1..n, i - 1 \in T
      PROVE  i \in T
  <2>1. Far(i) /\ i \in 1..Len(L) /\ i + 1 \in 1..Len(L) /\ i < i + 1
    BY <1>1, <1>4
  <2>2. L[i] < L[i + 1] /\ L[i] \in Nat /\ L[i + 1] \in Nat /\ L[1] \in Nat /\ L[i] \in AsSet(L)
    <3>1. L[i] < L[i + 1]
      BY <2>1 DEF Sorted
    <3>2. L[i] \in Nat /\ L[i + 1] \in Nat /\ L[1] \in Nat
      BY <2>1, <1>1, <1>2
    <3>3. L[i] \in AsSet(L)
      BY <2>1 DEF AsSet
    <3>4. QED
      BY <3>1, <3>2, <3>3
  <2>3. Far(i + 1)
    BY <2>1, <2>2, <1>1, SMTT(30)
  <2>4. QED
    BY <2>3, <1>1
<1>5. n \in T
  <2>1. \A i \in 0..n : i \in T
    <3> HIDE DEF T, n
    <3>1. QED
      BY <1>1, <1>3, <1>4, HandedOn
  <2>2. QED
    BY <2>1, <1>1
<1>6. Far(Len(L))
  BY <1>1, <1>5
<1>7. L[Len(L)] \in AsSet(L)
  BY <1>1, <1>2 DEF AsSet
<1>8. QED
  BY <1>1, <1>6, <1>7

\* A frame that is in the list, and begins it, is found there.
LEMMA Found ==
    ASSUME Stream, NEW L \in Seq(1..Len(packets)), Sorted(L), Together(AsSet(L)), Len(L) > 0,
           NEW e, Spans(L[1], e), L[1]..e \subseteq AsSet(L)
    PROVE  WholeFrame(L) > 0
<1> DEFINE a == L[1]
           n == e - a
           T == {i \in 0..n : i + 1 \in 1..Len(L) /\ L[i + 1] = a + i}
<1>1. /\ Len(L) \in Nat /\ 1 \in 1..Len(L) /\ Len(packets) \in Nat
      /\ \A k \in 1..Len(L) : L[k] \in Nat \ {0}
      /\ a \in Nat /\ e \in Nat /\ a <= e /\ n \in Nat
  BY DEF Stream, Spans
<1>2. 0 \in T
  BY <1>1
<1>3. ASSUME NEW i \in 1..n, i - 1 \in T
      PROVE  i \in T
  <2>1. i \in 1..Len(L) /\ L[i] = a + (i - 1)
    BY <1>3, <1>1
  <2>2. a + i \in a..e
    BY <1>1
  <2>3. PICK j \in 1..Len(L) : a + i = L[j]
    BY <2>2 DEF AsSet
  <2>4. i < j
    <3>1. SUFFICES ASSUME j < i
                   PROVE  FALSE
      BY <2>1, <2>3, <1>1
    <3>2. L[j] < L[i]
      BY <3>1, <2>1 DEF Sorted
    <3>3. QED
      BY <3>2, <2>1, <2>3, <1>1
  <2>5. i + 1 \in 1..Len(L) /\ L[i] < L[i + 1]
    BY <2>1, <2>4, <1>1, SMTT(30) DEF Sorted
  <2>6. i + 1 = j \/ L[i + 1] < L[j]
    BY <2>4, <2>5, <1>1 DEF Sorted
  <2>7. L[i + 1] \in Nat
    BY <2>5, <1>1
  <2>8. L[i + 1] = a + i
    <3>1. CASE i + 1 = j
      BY <3>1, <2>3
    <3>2. CASE L[i + 1] < L[j]
      <4>1. L[i + 1] < a + i /\ a + (i - 1) < L[i + 1]
        BY <2>1, <2>3, <2>5, <3>2
      <4> DEFINE x == L[i + 1]
      <4>2. x \in Nat /\ x < a + i /\ a + (i - 1) < x /\ a \in Nat /\ i \in Nat
        BY <4>1, <2>7, <1>1
      <4> HIDE DEF x, a
      <4>3. FALSE
        BY <4>2
      <4>4. QED
        BY <4>3
    <3>3. QED
      BY <2>6, <3>1, <3>2
  <2>9. QED
    BY <2>5, <2>8, <1>1
<1>4. \A i \in 0..n : i \in T
  <2> HIDE DEF T, n
  <2>1. QED
    BY <1>1, <1>2, <1>3, HandedOn
<1>5. n + 1 \in 1..Len(L) /\ \A k \in 1..(n + 1) : L[k] = a + k - 1
  <2>1. n + 1 \in 1..Len(L)
    BY <1>1, <1>4
  <2>2. ASSUME NEW k \in 1..(n + 1)
        PROVE  L[k] = a + k - 1
    <3>1. k - 1 \in 0..n /\ (k - 1) + 1 = k
      BY <1>1
    <3>2. L[(k - 1) + 1] = a + (k - 1)
      BY <3>1, <1>4
    <3>3. a + (k - 1) = a + k - 1
      BY <3>1, <1>1
    <3>4. QED
      BY <3>1, <3>2, <3>3
  <2>3. QED
    BY <2>1, <2>2
<1>6. e = a + n
  BY <1>1
<1> HIDE DEF T, n
<1> DEFINE place(i) == packets[L[i]]
           Follows(i) == DiffSeq(SeqOf(L[i]), SeqOf(L[i - 1])) = 1
           ends == {k \in 2..Len(L) : /\ place(1) = "start" /\ place(k) = "end"
                                      /\ \A i \in 2..k : Follows(i)
                                      /\ \A i \in 2..(k - 1) : place(i) = "middle"}
<1>7. WholeFrame(L) = IF L = <<>> THEN 0 ELSE IF place(1) = "single" THEN 1
                      ELSE IF ends = {} THEN 0 ELSE CHOOSE k \in ends : TRUE
  BY DEF WholeFrame
<1>8. L # <<>>
  BY <1>1
<1>9. CASE a = e
  <2>1. place(1) = "single"
    BY <1>9, <1>1 DEF Spans
  <2> HIDE DEF place, ends
  <2>2. QED
    BY <2>1, <1>7, <1>8
<1>10. CASE a < e
  <2>1. /\ place(1) = "start" /\ packets[e] = "end"
        /\ \A j \in (a + 1)..(e - 1) : packets[j] = "middle"
    BY <1>10, <1>1 DEF Spans
  <2>2. n + 1 \in 2..Len(L) /\ L[n + 1] = e
    <3>1. n > 0 /\ n + 1 \in 1..(n + 1)
      BY <1>10, <1>1, <1>6
    <3>2. L[n + 1] = a + (n + 1) - 1
      BY <3>1, <1>5
    <3> HIDE DEF a
    <3>3. QED
      BY <3>1, <3>2, <1>1, <1>5, <1>6
  <2>3. ASSUME NEW i \in 2..(n + 1)
        PROVE  Follows(i)
    <3>1. i \in 1..(n + 1) /\ i - 1 \in 1..(n + 1) /\ i \in 1..Len(L) /\ i - 1 \in 1..Len(L)
      <4>1. n \in Nat /\ n + 1 <= Len(L) /\ Len(L) \in Nat
        BY <1>1, <1>5
      <4>2. QED
        BY <4>1
    <3>2. L[i] = a + i - 1 /\ L[i - 1] = a + (i - 1) - 1
      BY <3>1, <1>5
    <3>3. L[i] - L[i - 1] < Window /\ L[i - 1] - L[i] < Window
      BY <3>1 DEF Together, AsSet
    <3>4. L[i] \in Nat \ {0} /\ L[i - 1] \in Nat \ {0}
      BY <3>1, <1>1
    <3>5. DiffSeq(SeqOf(L[i]), SeqOf(L[i - 1])) = L[i] - L[i - 1]
      BY <3>3, <3>4, SeqTells
    <3>6. L[i] - L[i - 1] = 1
      BY <3>2, <1>1
    <3>7. QED
      BY <3>5, <3>6
  <2>4. ASSUME NEW i \in 2..n
        PROVE  place(i) = "middle"
    <3>1. L[i] = a + i - 1 /\ a + i - 1 \in (a + 1)..(e - 1)
      <4>1. i \in 1..(n + 1)
        BY <1>1
      <4>2. L[i] = a + i - 1
        BY <4>1, <1>5
      <4> HIDE DEF a
      <4>3. QED
        BY <4>2, <1>1, <1>6
    <3>2. QED
      BY <3>1, <2>1
  <2>5. n + 1 \in ends
    <3>1. (n + 1) - 1 = n
      BY <1>1
    <3> HIDE DEF Follows
    <3>2. QED
      BY <3>1, <2>1, <2>2, <2>3, <2>4
  <2>6. WholeFrame(L) \in ends
    <3>1. place(1) # "single"
      BY <2>1
    <3> HIDE DEF ends, place
    <3>2. QED
      BY <3>1, <2>5, <1>7, <1>8
  <2>7. QED
    BY <2>6, <1>1
<1>11. QED
  BY <1>1, <1>9, <1>10

-----------------------------------------------------------------------------
(* What a step of the container keeps, when the packets in A have come.    *)

\* As long as this holds, Size leaves room for a frame and for those that overtake it.
Room(b) == Longest - 1 + Displace + (b.size - Len(b.list)) <= MaxSize

\* A frame without a lost packet, later than the first that came out, came out, or will find
\* all of it that came in the list, and nothing later has come out.
Kept(b, A) ==
    \A a, e \in 1..Len(packets) :
        /\ Spans(a, e) /\ a..e \cap gone = {}
        /\ b.flag => b.out[1][1] < a
        => \/ \E i \in 1..Len(b.out) : b.out[i][1] = a
           \/ (b.flag => LastOut(b) < a) /\ a..e \cap A \subseteq AsSet(b.list)

Good(b, A) == BoxInv(b) /\ AsSet(b.list) \subseteq A /\ (Room(b) => Kept(b, A))

\* Only Displace packets are overtaken by one.
Overtaken(A) ==
    \A q \in A : \A r \in 1..Len(packets) : r < q - Displace => r \in A \cup gone

\* A frame goes out, when no other that may still come whole is before it.
LEMMA TakingGood ==
    ASSUME Stream, NEW A, NEW b, Good(b, A), WholeFrame(b.list) > 0,
           ASSUME b.flag, Room(b)
           PROVE  \A a, e \in 1..Len(packets) :
                    Spans(a, e) /\ a..e \cap gone = {} /\ LastOut(b) < a
                        /\ a..e \cap A \subseteq AsSet(b.list) => b.list[1] <= a
    PROVE  Good(UnpackOne(b), A)
<1> DEFINE n == WholeFrame(b.list)
           f == SubSeq(b.list, 1, n)
           c == UnpackOne(b)
           h == b.list[1]
           l == b.list[n]
<1>1. Len(packets) \in Nat /\ BoxInv(b) /\ AsSet(b.list) \subseteq A
  BY DEF Stream, Good
<1>2. /\ b \in Boxes /\ Sorted(b.list) /\ Together(AsSet(b.list)) /\ b.flag \in BOOLEAN
      /\ b.size \in Int /\ b.list \in Seq(1..Len(packets))
      /\ b.flag <=> Len(b.out) > 0
  BY <1>1 DEF BoxInv, Boxes
<1>3. /\ n \in 1..Len(b.list) /\ IsFrame(f) /\ Len(f) = n /\ f[1] = h /\ f[n] = l
      /\ c \in Boxes /\ c.flag = TRUE /\ Len(c.out) = Len(b.out) + 1
      /\ c.out[Len(c.out)] = f /\ \A i \in 1..Len(b.out) : c.out[i] = b.out[i]
      /\ LastOut(c) = l /\ Len(c.list) = Len(b.list) - n
      /\ AsSet(c.list) = {p \in AsSet(b.list) : l < p}
      /\ c.size \in {b.size - n, b.size - (n - 1)}
  <2> HIDE DEF n, f, c
  <2>1. QED
    BY <1>1, <1>2, Taking DEF n, f, c
<1>4. BoxInv(c)
  BY <1>1, TakingKeeps
<1> HIDE DEF n, c
<1>5. Spans(h, l) /\ h \in Nat /\ l \in Nat /\ Len(b.list) \in Nat /\ Len(b.out) \in Nat
  <2>1. f \in Seq(1..Len(packets))
    <3>1. n \in 1..Len(b.list) /\ Len(b.list) \in Nat
      BY <1>2, <1>3
    <3>2. n \in Int /\ \A k \in 1..n : b.list[k] \in 1..Len(packets)
      <4>1. \A k \in 1..Len(b.list) : b.list[k] \in 1..Len(packets)
        BY <1>2
      <4>2. QED
        BY <3>1, <4>1
    <3>3. QED
      BY <3>2, SubSeqProperties
  <2> HIDE DEF f, h, l
  <2>2. Spans(h, l) /\ h \in Nat /\ l \in Nat
    BY <2>1, <1>3, JoinedSpans
  <2>3. QED
    BY <2>2, <1>2 DEF Boxes
<1> HIDE DEF f, h, l
<1>6. AsSet(c.list) \subseteq A
  BY <1>1, <1>3
<1>7. ASSUME Room(c), NEW a \in 1..Len(packets), NEW e \in 1..Len(packets),
             Spans(a, e), a..e \cap gone = {}, c.out[1][1] < a
      PROVE  \/ \E i \in 1..Len(c.out) : c.out[i][1] = a
             \/ LastOut(c) < a /\ a..e \cap A \subseteq AsSet(c.list)
  <2>1. Room(b) /\ Kept(b, A)
    <3>1. Longest \in Nat
      BY <1>7, LongestIs
    <3> DEFINE s == b.size
               k == Len(b.list)
    <3>2. /\ n \in Int /\ s \in Int /\ k \in Int /\ Len(c.list) = k - n
          /\ c.size \in {s - n, s - (n - 1)}
      <4>1. n \in 1..k /\ k \in Nat
        BY <1>3, <1>5
      <4>2. QED
        BY <4>1, <1>2, <1>3
    <3> HIDE DEF s, k
    <3>3. Longest - 1 + Displace + (s - k) <= MaxSize
      <4> DEFINE x == c.size
      <4>1. Longest - 1 + Displace + (x - (k - n)) <= MaxSize /\ (x = s - n \/ x = s - (n - 1))
        BY <3>2, <1>7 DEF Room
      <4> HIDE DEF x
      <4>2. QED
        BY <4>1, <3>1, <3>2, RtpReceiveAssumption
    <3>4. Room(b)
      BY <3>3 DEF Room, s, k
    <3>5. QED
      BY <3>4 DEF Good
  <2>2. ASSUME h < a, a..e \cap A \subseteq AsSet(b.list)
        PROVE  LastOut(c) < a /\ a..e \cap A \subseteq AsSet(c.list)
    <3>1. l < a
      BY <2>2, <1>5, <1>7, Apart
    <3>2. QED
      BY <2>2, <3>1, <1>3, <1>5
  <2>3. CASE ~b.flag
    <3>1. Len(b.out) = 0 /\ c.out[1][1] = h
      BY <2>3, <1>2, <1>3, <1>5, SMTT(30)
    <3>2. a..e \cap A \subseteq AsSet(b.list)
      BY <2>1, <2>3, <3>1, <1>7 DEF Kept
    <3>3. QED
      BY <2>2, <3>1, <3>2, <1>7
  <2>4. CASE b.flag
    <3>1. c.out[1] = b.out[1] /\ b.out[1][1] < a
      <4>1. 1 \in 1..Len(b.out)
        BY <2>4, <1>2, <1>5
      <4>2. QED
        BY <4>1, <1>3, <1>7
    <3>2. \/ \E i \in 1..Len(b.out) : b.out[i][1] = a
          \/ LastOut(b) < a /\ a..e \cap A \subseteq AsSet(b.list)
      BY <2>1, <2>4, <3>1, <1>7 DEF Kept
    <3>3. ASSUME NEW i \in 1..Len(b.out), b.out[i][1] = a
          PROVE  i \in 1..Len(c.out) /\ c.out[i][1] = a
      <4>1. Len(c.out) = Len(b.out) + 1 /\ Len(b.out) \in Nat /\ c.out[i] = b.out[i]
        BY <1>3, <1>5
      <4>2. i \in 1..Len(c.out)
        BY <4>1
      <4>3. QED
        BY <3>3, <4>1, <4>2
    <3>4. ASSUME LastOut(b) < a, a..e \cap A \subseteq AsSet(b.list)
          PROVE  \/ \E i \in 1..Len(c.out) : c.out[i][1] = a
                 \/ LastOut(c) < a /\ a..e \cap A \subseteq AsSet(c.list)
      <4>1. h <= a
        BY <2>1, <2>4, <3>4, <1>7 DEF h
      <4>2. CASE h = a
        <5>1. Len(c.out) \in 1..Len(c.out) /\ c.out[Len(c.out)][1] = a
          BY <4>2, <1>3, <1>5
        <5>2. QED
          BY <5>1
      <4>3. CASE h < a
        BY <2>2, <3>4, <4>3
      <4>4. QED
        BY <4>1, <4>2, <4>3, <1>5
    <3>5. QED
      BY <3>2, <3>3, <3>4
  <2>5. QED
    BY <2>3, <2>4, <1>2
<1>8. Room(c) => Kept(c, A)
  BY <1>3, <1>7 DEF Kept
<1>9. QED
  BY <1>4, <1>6, <1>8 DEF Good, c

\* A round of the loop, and all of them.
LEMMA RoundGood ==
    ASSUME Stream, NEW A, NEW b, Good(b, A)
    PROVE  Good(UnpackNext(b), A)
<1>1. CASE Sequential(b)
  <2>1. ASSUME b.flag, NEW a \in 1..Len(packets), LastOut(b) < a
        PROVE  b.list[1] <= a
    <3>1. b.list \in Seq(1..Len(packets)) /\ b.list # <<>> /\ Len(packets) \in Nat
      <4>1. b.list # <<>>
        BY <1>1 DEF Sequential, WholeFrame
      <4>2. QED
        BY <4>1 DEF Good, BoxInv, Boxes, Stream
    <3>2. /\ Head(b.list) = b.list[1] /\ b.list[1] \in AsSet(b.list)
          /\ b.list[1] \in Nat \ {0}
      BY <3>1 DEF AsSet
    <3>3. /\ b.seq = SeqOf(LastOut(b)) /\ LastOut(b) < b.list[1]
          /\ b.list[1] - LastOut(b) < Window
      BY <2>1, <3>2 DEF Good, BoxInv
    <3>4. LastOut(b) \in Nat \ {0}
      <4>1. /\ Len(b.out) \in 1..Len(b.out) /\ b.out[Len(b.out)] \in Seq(1..Len(packets))
            /\ IsFrame(b.out[Len(b.out)])
        BY <2>1 DEF Good, BoxInv, Boxes
      <4>2. QED
        BY <4>1, <3>1 DEF LastOut, IsFrame
    <3>5. LastOut(b) - b.list[1] < Window
      BY <3>2, <3>3, <3>4, WindowFits
    <3>6. DiffSeq(SeqOf(b.list[1]), SeqOf(LastOut(b))) = b.list[1] - LastOut(b)
      BY <3>2, <3>3, <3>4, <3>5, SeqTells
    <3>7. DiffSeq(SeqOf(b.list[1]), SeqOf(LastOut(b))) = 1
      BY <1>1, <2>1, <3>2, <3>3 DEF Sequential
    <3>8. QED
      BY <2>1, <3>2, <3>4, <3>6, <3>7
  <2>2. WholeFrame(b.list) > 0
    BY <1>1 DEF Sequential
  <2>3. Good(UnpackOne(b), A)
    BY <2>1, <2>2, TakingGood
  <2>4. QED
    BY <1>1, <2>3 DEF UnpackNext
<1>2. CASE ~Sequential(b)
  BY <1>2 DEF UnpackNext
<1>3. QED
  BY <1>1, <1>2

LEMMA LoopGood ==
    ASSUME Stream, NEW A, NEW b, Good(b, A)
    PROVE  Good(UnpackSequential(b), A)
<1> DEFINE S == {c \in Boxes : Good(c, A)}
<1>1. b \in S /\ Len(b.list) \in Nat
  BY DEF Good, BoxInv, Boxes
<1>2. ASSUME NEW c \in S
      PROVE  UnpackNext(c) \in S
  <2>1. Good(UnpackNext(c), A)
    BY RoundGood
  <2>2. QED
    BY <2>1 DEF Good, BoxInv
<1>3. UnpackSequential(b) \in S
  <2> HIDE DEF S
  <2>1. QED
    BY <1>1, <1>2, Rounds
<1>4. QED
  BY <1>3

LEMMA InsertGood ==
    ASSUME Stream, NEW A, NEW b, Good(b, A), NEW p \in 1..Len(packets),
           ~IsStale(b, p), Together(AsSet(b.list) \cup {p}),
           b.flag => p - LastOut(b) < Window /\ LastOut(b) - p < Window
    PROVE  /\ Good(Insert(b, p), A \cup {p}) /\ p \in AsSet(Insert(b, p).list)
<1> DEFINE c == Insert(b, p)
<1>1. Len(packets) \in Nat /\ BoxInv(b)
  BY DEF Stream, Good
<1>2. /\ BoxInv(c) /\ AsSet(c.list) = AsSet(b.list) \cup {p}
      /\ c.out = b.out /\ c.flag = b.flag /\ c.size = b.size + 1
      /\ Len(c.list) \in {Len(b.list), Len(b.list) + 1}
  <2> HIDE DEF c
  <2>1. QED
    BY <1>1, InsertKeeps DEF c
<1> HIDE DEF c
<1>3. LastOut(c) = LastOut(b)
  BY <1>2 DEF LastOut
<1>4. ASSUME Room(c), NEW a \in 1..Len(packets), NEW e \in 1..Len(packets),
             Spans(a, e), a..e \cap gone = {}, c.flag => c.out[1][1] < a
      PROVE  \/ \E i \in 1..Len(c.out) : c.out[i][1] = a
             \/ (c.flag => LastOut(c) < a) /\ a..e \cap (A \cup {p}) \subseteq AsSet(c.list)
  <2>1. Room(b)
    <3> DEFINE s == b.size
               k == Len(b.list)
               x == Len(c.list)
    <3>1. Longest \in Nat /\ s \in Int /\ k \in Nat
      BY <1>1, <1>4, LongestIs DEF BoxInv, Boxes
    <3>2. Longest - 1 + Displace + (s + 1 - x) <= MaxSize /\ (x = k \/ x = k + 1)
      <4>1. x \in {k, k + 1} /\ c.size = s + 1
        BY <1>2
      <4>2. Longest - 1 + Displace + (c.size - x) <= MaxSize
        BY <1>4 DEF Room
      <4> HIDE DEF s, k, x
      <4> DEFINE y == c.size
      <4>3. y = s + 1 /\ (x = k \/ x = k + 1) /\ Longest - 1 + Displace + (y - x) <= MaxSize
        BY <4>1, <4>2
      <4> HIDE DEF y
      <4>4. QED
        BY <3>1, <4>3, RtpReceiveAssumption
    <3> HIDE DEF s, k, x
    <3>3. Longest - 1 + Displace + (s - k) <= MaxSize
      BY <3>1, <3>2, RtpReceiveAssumption
    <3>4. QED
      BY <3>3 DEF Room, s, k
  <2>2. Kept(b, A)
    BY <2>1 DEF Good
  <2>3. \/ \E i \in 1..Len(b.out) : b.out[i][1] = a
        \/ (b.flag => LastOut(b) < a) /\ a..e \cap A \subseteq AsSet(b.list)
    BY <2>2, <1>2, <1>4 DEF Kept
  <2>4. QED
    BY <2>3, <1>2, <1>3
<1>5. Good(c, A \cup {p})
  <2>1. Room(c) => Kept(c, A \cup {p})
    BY <1>4 DEF Kept
  <2>2. AsSet(c.list) \subseteq A \cup {p}
    BY <1>2 DEF Good
  <2>3. QED
    BY <2>1, <2>2, <1>2 DEF Good
<1>6. QED
  BY <1>2, <1>5 DEF c

\* A packet that comes too late to be put in.
LEMMA StaleGood ==
    ASSUME Stream, NEW A, NEW b, Good(b, A), NEW p \in 1..Len(packets), IsStale(b, p),
           b.flag => p - LastOut(b) < Window /\ LastOut(b) - p < Window
    PROVE  Good(b, A \cup {p})
<1>1. Len(packets) \in Nat /\ BoxInv(b) /\ b.flag
  BY DEF Stream, Good, IsStale
<1>2. p <= LastOut(b) /\ LastOut(b) \in Nat
  <2>1. LastOut(b) \in Nat \ {0}
    <3>1. /\ Len(b.out) \in 1..Len(b.out) /\ b.out[Len(b.out)] \in Seq(1..Len(packets))
          /\ IsFrame(b.out[Len(b.out)])
      BY <1>1 DEF BoxInv, Boxes
    <3>2. QED
      BY <3>1 DEF LastOut, IsFrame
  <2>2. b.seq = SeqOf(LastOut(b))
    BY <1>1 DEF BoxInv
  <2>3. CompareSeq(SeqOf(p), SeqOf(LastOut(b))) <= 0
    BY <2>2 DEF IsStale
  <2>4. QED
    BY <1>1, <2>1, <2>3, SeqTells
<1>3. ASSUME Room(b), NEW a \in 1..Len(packets), NEW e \in 1..Len(packets),
             Spans(a, e), a..e \cap gone = {}, b.out[1][1] < a
      PROVE  \/ \E i \in 1..Len(b.out) : b.out[i][1] = a
             \/ LastOut(b) < a /\ a..e \cap (A \cup {p}) \subseteq AsSet(b.list)
  <2>1. Kept(b, A)
    BY <1>3 DEF Good
  <2>2. \/ \E i \in 1..Len(b.out) : b.out[i][1] = a
        \/ LastOut(b) < a /\ a..e \cap A \subseteq AsSet(b.list)
    BY <2>1, <1>1, <1>3 DEF Kept
  <2>3. LastOut(b) < a => p \notin a..e
    BY <1>2
  <2>4. QED
    BY <2>2, <2>3
<1>4. Room(b) => Kept(b, A \cup {p})
  BY <1>1, <1>3 DEF Kept
<1>5. QED
  BY <1>4 DEF Good

\* What is in the list when there are too many packets: more than a frame and those that
\* overtake it.
LEMMA TooMany ==
    ASSUME Stream, NEW A, NEW b, Good(b, A), Room(b), b.size > MaxSize, Longest \in Nat
    PROVE  Len(b.list) \in Nat /\ Len(b.list) >= Longest + Displace
<1>1. b.size \in Int /\ Len(b.list) \in Nat
  BY DEF Good, BoxInv, Boxes
<1>2. QED
  BY <1>1, RtpReceiveAssumption DEF Room

\* A frame before the head of so long a list has come.
LEMMA BeforeHead ==
    ASSUME Stream, NEW A, NEW b, Good(b, A), Room(b), b.size > MaxSize, Overtaken(A),
           NEW a, NEW e, Spans(a, e), a..e \cap gone = {}, a..e \cap A \subseteq AsSet(b.list)
    PROVE  Len(b.list) > 0 /\ b.list[1] <= a
<1> DEFINE L == b.list
           t == L[Len(L)]
<1>1. /\ Len(packets) \in Nat /\ L \in Seq(1..Len(packets)) /\ Sorted(L) /\ AsSet(L) \subseteq A
      /\ a \in 1..Len(packets) /\ a <= e
  BY DEF Stream, Good, BoxInv, Boxes, Spans
<1>2. Longest \in Nat /\ Longest >= 1 /\ Len(L) \in Nat /\ Len(L) >= Longest + Displace
  <2>1. Longest \in Nat /\ e - a + 1 <= Longest
    BY LongestIs
  <2>2. e \in Nat
    BY DEF Spans
  <2>3. QED
    BY <1>1, <2>1, <2>2, TooMany
<1>3. Len(L) > 0
  BY <1>2, RtpReceiveAssumption
<1> HIDE DEF L
<1>4. t \in AsSet(L) /\ t >= L[1] + Len(L) - 1
  BY <1>1, <1>3, Spread
<1>5. L[1] \in Nat /\ t \in Nat
  BY <1>1, <1>4, HeadIsLeast
<1> HIDE DEF t
<1>6. SUFFICES ASSUME a < L[1]
               PROVE  FALSE
  BY <1>1, <1>3, <1>5 DEF L
<1>7. a < t - Displace
  BY <1>1, <1>2, <1>4, <1>5, <1>6, RtpReceiveAssumption
<1>8. a \in A \cup gone
  BY <1>1, <1>4, <1>7 DEF Overtaken
<1>9. a \in a..e
  BY <1>1 DEF Spans
<1>10. a \in AsSet(L)
  BY <1>8, <1>9 DEF L
<1>11. L[1] <= a
  BY <1>1, <1>10, HeadIsLeast
<1>12. QED
  BY <1>1, <1>5, <1>6, <1>11

\* The head that is dropped is not of a frame that may still come whole.
LEMMA DropGood ==
    ASSUME Stream, NEW A, NEW b, Good(b, A), Overtaken(A), b.list # <<>>, b.size > MaxSize,
           ~(WholeFrame(b.list) > 0)
    PROVE  Good([b EXCEPT !.list = Tail(@), !.size = @ - 1], A)
<1> DEFINE L == b.list
           h == L[1]
           t == L[Len(L)]
           c == [b EXCEPT !.list = Tail(@), !.size = @ - 1]
<1>1. /\ Len(packets) \in Nat /\ BoxInv(b) /\ L \in Seq(1..Len(packets)) /\ Sorted(L)
      /\ AsSet(L) \subseteq A /\ Together(AsSet(L)) /\ b \in Boxes /\ b.size \in Int
  BY DEF Stream, Good, BoxInv, Boxes
<1>2. Len(L) \in Nat /\ Len(L) > 0 /\ Head(L) = h
  BY <1>1
<1>3. BoxInv(c) /\ AsSet(c.list) = {q \in AsSet(L) : h < q} /\ Len(c.list) = Len(L) - 1
  <2>1. /\ BoxInv(c) /\ AsSet(c.list) = {q \in AsSet(b.list) : Head(b.list) < q}
        /\ Len(c.list) = Len(b.list) - 1
    BY <1>1, DropKeeps
  <2> HIDE DEF c
  <2>2. QED
    BY <2>1, <1>2
<1>4. c.out = b.out /\ c.flag = b.flag /\ c.size = b.size - 1
  BY <1>1 DEF Boxes
<1> HIDE DEF c
<1>5. LastOut(c) = LastOut(b)
  BY <1>4 DEF LastOut
<1>6. ASSUME Room(c), NEW a \in 1..Len(packets), NEW e \in 1..Len(packets),
             Spans(a, e), a..e \cap gone = {}, c.flag => c.out[1][1] < a
      PROVE  \/ \E i \in 1..Len(c.out) : c.out[i][1] = a
             \/ (c.flag => LastOut(c) < a) /\ a..e \cap A \subseteq AsSet(c.list)
  <2>1. Longest \in Nat /\ e - a + 1 <= Longest
    BY <1>6, LongestIs
  <2>2. Room(b)
    <3> DEFINE s == b.size
               k == Len(L)
    <3>1. Longest - 1 + Displace + ((s - 1) - (k - 1)) <= MaxSize
      BY <1>3, <1>4, <1>6 DEF Room
    <3>2. s \in Int /\ k \in Int
      BY <1>1, <1>2
    <3> HIDE DEF s, k
    <3>3. Longest - 1 + Displace + (s - k) <= MaxSize
      BY <2>1, <3>1, <3>2, RtpReceiveAssumption
    <3>4. QED
      BY <3>3 DEF Room, s, k
  <2>3. Kept(b, A)
    BY <2>2 DEF Good
  <2>4. \/ \E i \in 1..Len(b.out) : b.out[i][1] = a
        \/ (b.flag => LastOut(b) < a) /\ a..e \cap A \subseteq AsSet(L)
    BY <2>3, <1>4, <1>6 DEF Kept
  <2>5. ASSUME a..e \cap A \subseteq AsSet(L), h \in a..e
        PROVE  FALSE
    <3>1. h <= a
      BY <2>2, <2>5, <1>6, BeforeHead
    <3>2. h = a
      BY <2>5, <3>1
    <3>3. Len(L) >= Longest + Displace
      BY <2>1, <2>2, TooMany
    <3> HIDE DEF L, h, t
    <3>4. ASSUME NEW q \in a..e, q \notin AsSet(L)
          PROVE  FALSE
      <4>1. /\ t \in AsSet(L) /\ t >= h + Len(L) - 1
            /\ h < q /\ q < t => t >= h + Len(L)
        BY <1>1, <1>2, <3>4, Spread DEF h, t
      <4>2. t \in Nat /\ h \in AsSet(L) /\ t \in A
        BY <1>1, <4>1, HeadIsLeast DEF h
      <4>3. q # h /\ q # t /\ q \in 1..Len(packets) /\ h < q
        BY <3>2, <3>4, <4>1, <4>2, <1>1
      <4>4. q \notin A \cup gone
        BY <2>5, <3>4, <1>6
      <4>5. ~(q < t - Displace)
        BY <4>2, <4>3, <4>4 DEF Overtaken
      <4>6. q <= h + Longest - 1
        BY <2>1, <3>2, <3>4
      <4>7. h \in Nat /\ q \in Nat /\ Displace \in Nat /\ Len(L) \in Nat
        BY <3>2, <4>3, <1>1, <1>2, RtpReceiveAssumption
      <4>8. CASE q < t
        BY <4>8, <4>1, <4>2, <4>3, <4>5, <4>6, <4>7, <3>3, <2>1
      <4>9. CASE t < q
        BY <4>9, <4>1, <4>2, <4>6, <4>7, <3>3, <2>1
      <4>10. QED
        BY <4>2, <4>3, <4>7, <4>8, <4>9
    <3>5. a..e \subseteq AsSet(L)
      BY <3>4
    <3>6. WholeFrame(L) > 0
      BY <1>1, <1>2, <1>6, <3>2, <3>5, Found DEF h
    <3>7. QED
      BY <3>6 DEF L
  <2>6. ASSUME a..e \cap A \subseteq AsSet(L)
        PROVE  a..e \cap A \subseteq AsSet(c.list)
    <3>1. h \notin a..e
      BY <2>5, <2>6
    <3> HIDE DEF L, h
    <3>2. \A q \in AsSet(L) : q # h => q \in AsSet(c.list)
      <4>1. \A q \in AsSet(L) : q \in Nat /\ h \in Nat /\ h <= q
        BY <1>1, HeadIsLeast DEF h
      <4>2. QED
        BY <4>1, <1>3
    <3>3. QED
      BY <2>6, <3>1, <3>2
  <2>7. QED
    BY <2>4, <2>6, <1>4, <1>5
<1>7. Room(c) => Kept(c, A)
  BY <1>6 DEF Kept
<1>8. AsSet(c.list) \subseteq A
  BY <1>1, <1>3
<1>9. QED
  BY <1>3, <1>7, <1>8 DEF Good, c

\* A frame that is taken across a gap, in which there is none that may still come whole.
LEMMA AcrossGood ==
    ASSUME Stream, NEW A, NEW b, Good(b, A), Overtaken(A), b.size > MaxSize,
           WholeFrame(b.list) > 0
    PROVE  Good(UnpackOne(b), A)
<1>1. ASSUME b.flag, Room(b), NEW a \in 1..Len(packets), NEW e \in 1..Len(packets),
             Spans(a, e), a..e \cap gone = {}, a..e \cap A \subseteq AsSet(b.list)
      PROVE  b.list[1] <= a
  BY <1>1, BeforeHead
<1>2. QED
  BY <1>1, TakingGood

\* The packet is near to those that the container compares it with.
NearBox(b, p) ==
    /\ Together(AsSet(b.list) \cup {p})
    /\ b.flag => p - LastOut(b) < Window /\ LastOut(b) - p < Window

\* The whole of Feed.
LEMMA FeedGood ==
    ASSUME Stream, NEW A, NEW b, Good(b, A), NEW p \in 1..Len(packets), NearBox(b, p),
           Overtaken(A \cup {p})
    PROVE  Good(Feed(b, p), A \cup {p})
<1> DEFINE c == Insert(b, p)
<1>1. CASE IsStale(b, p)
  <2>1. Good(b, A \cup {p})
    BY <1>1, StaleGood DEF NearBox
  <2>2. QED
    BY <1>1, <2>1 DEF Feed
<1>2. CASE ~IsStale(b, p)
  <2>1. Good(c, A \cup {p}) /\ p \in AsSet(c.list)
    <3> HIDE DEF c
    <3>1. QED
      BY <1>2, InsertGood DEF NearBox, c
  <2>2. Feed(b, p) = IF Sequential(c) THEN UnpackSequential(c)
                     ELSE IF c.size > MaxSize THEN MakeRoom(c) ELSE c
    BY <1>2 DEF Feed
  <2> HIDE DEF c
  <2>3. CASE Sequential(c)
    BY <2>1, <2>2, <2>3, LoopGood
  <2>4. CASE ~Sequential(c) /\ c.size > MaxSize /\ WholeFrame(c.list) > 0
    <3>1. Good(UnpackOne(c), A \cup {p})
      BY <2>1, <2>4, AcrossGood
    <3>2. Good(UnpackSequential(UnpackOne(c)), A \cup {p})
      BY <3>1, LoopGood
    <3>3. QED
      BY <2>2, <2>4, <3>2 DEF MakeRoom
  <2>5. CASE ~Sequential(c) /\ c.size > MaxSize /\ ~(WholeFrame(c.list) > 0)
    <3>1. c.list # <<>>
      <4>1. SUFFICES ASSUME c.list = <<>>
                     PROVE  FALSE
        OBVIOUS
      <4>2. Len(c.list) = 0
        BY <4>1
      <4>3. QED
        BY <2>1, <4>2 DEF AsSet
    <3>2. Good([c EXCEPT !.list = Tail(@), !.size = @ - 1], A \cup {p})
      BY <2>1, <2>5, <3>1, DropGood
    <3>3. QED
      BY <2>2, <2>5, <3>2 DEF MakeRoom
  <2>6. CASE ~Sequential(c) /\ ~(c.size > MaxSize)
    BY <2>1, <2>2, <2>6
  <2>7. QED
    BY <2>3, <2>4, <2>5, <2>6
<1>3. QED
  BY <1>1, <1>2

-----------------------------------------------------------------------------
(* The receiver's report.                                                  *)

Reports == [base : Int, max : Int, cycles : Int, received : Int]

\* What was counted, when the packets in A have come, f before all others, and w of them twice.
Counted(r, A, f, w) ==
    /\ r \in Reports /\ w \in Nat
    /\ A = {} => r.base = -1 /\ r.max = -1 /\ r.cycles = 0
    /\ A # {} => /\ f \in A
                 /\ \E q \in A : /\ \A x \in A : x <= q
                                 /\ r.base = SeqOf(f) /\ r.max = SeqOf(q)
                                 /\ ExtendedSeq(r) - r.base = q - f
    /\ w = 0 => r.received = Cardinality(A)

\* the packet is near to the latest one
NearTop(A, p) == \A q \in A : (\A x \in A : x <= q) => p - q < Window /\ q - p < Window

LEMMA SeqOfBounds ==
    ASSUME NEW p \in Nat \ {0}
    PROVE  SeqOf(p) \in 0..(SeqWord - 1) /\ SeqOf(p) \in Nat
<1>1. p - p < SeqWord /\ p <= p
  BY RtpReceiveAssumption
<1>2. SeqOf(p) \in 0..(SeqWord - 1)
  BY <1>1, SeqOfLater
<1>3. QED
  BY <1>2, RtpReceiveAssumption

\* A packet that comes is counted.
LEMMA CountGood ==
    ASSUME NEW m \in Nat, NEW A \in SUBSET (1..m), NEW r, NEW f, NEW w, Counted(r, A, f, w),
           NEW p \in 1..m, NearTop(A, p), NEW g, g = IF A = {} THEN p ELSE f,
           NEW v, v = IF p \in A THEN w + 1 ELSE w
    PROVE  Counted(FeedRtpPacket(r, p), A \cup {p}, g, v)
<1> DEFINE later == r.max = -1 \/ CompareSeq(SeqOf(p), r.max) > 0
           s == FeedRtpPacket(r, p)
           B == A \cup {p}
<1>1. /\ r \in Reports /\ w \in Nat /\ r.base \in Int /\ r.max \in Int
      /\ r.cycles \in Int /\ r.received \in Int
  BY DEF Counted, Reports
<1>2. /\ s.base = IF r.base = -1 THEN SeqOf(p) ELSE r.base
      /\ s.max = IF later THEN SeqOf(p) ELSE r.max
      /\ s.cycles = IF later /\ SeqOf(p) < r.max THEN r.cycles + 1 ELSE r.cycles
      /\ s.received = r.received + 1
  BY DEF FeedRtpPacket
<1>3. p \in Nat \ {0} /\ SeqOf(p) \in Nat /\ SeqOf(p) \in 0..(SeqWord - 1)
  BY SeqOfBounds
<1>4. s \in Reports
  BY <1>1, <1>3 DEF FeedRtpPacket, Reports
<1> HIDE DEF s
<1>5. v \in Nat /\ (v = 0 => s.received = Cardinality(B))
  <2>1. IsFiniteSet(A)
    <3>1. IsFiniteSet(1..m)
      BY FS_Interval
    <3>2. QED
      BY <3>1, FS_Subset
  <2>2. p \notin A => Cardinality(B) = Cardinality(A) + 1
    BY <2>1, FS_AddElement
  <2>3. ASSUME v = 0
        PROVE  p \notin A /\ r.received = Cardinality(A)
    BY <2>3, <1>1 DEF Counted
  <2>4. QED
    BY <1>1, <1>2, <2>2, <2>3
<1>6. ASSUME A = {}
      PROVE  g \in B /\ \E q \in B : /\ \A x \in B : x <= q
                                     /\ s.base = SeqOf(g) /\ s.max = SeqOf(q)
                                     /\ ExtendedSeq(s) - s.base = q - g
  <2>1. g = p /\ B = {p} /\ r.base = -1 /\ r.max = -1 /\ r.cycles = 0
    BY <1>6 DEF Counted
  <2>2. s.base = SeqOf(p) /\ s.max = SeqOf(p) /\ s.cycles = 0
    BY <2>1, <1>2, <1>3
  <2>3. ExtendedSeq(s) - s.base = p - g
    <3>1. 0 * SeqWord = 0 /\ SeqWord \in Nat
      BY RtpReceiveAssumption
    <3>2. QED
      BY <3>1, <2>1, <2>2, <1>3 DEF ExtendedSeq
  <2>4. p \in B /\ \A x \in B : x <= p
    BY <2>1, <1>3
  <2>5. QED
    BY <2>1, <2>2, <2>3, <2>4
<1>7. ASSUME A # {}
      PROVE  g \in B /\ \E q \in B : /\ \A x \in B : x <= q
                                     /\ s.base = SeqOf(g) /\ s.max = SeqOf(q)
                                     /\ ExtendedSeq(s) - s.base = q - g
  <2>1. g = f /\ f \in A
    BY <1>7 DEF Counted
  <2>2. PICK q \in A : /\ \A x \in A : x <= q
                       /\ r.base = SeqOf(f) /\ r.max = SeqOf(q)
                       /\ ExtendedSeq(r) - r.base = q - f
    BY <1>7 DEF Counted
  <2>3. /\ q \in Nat \ {0} /\ SeqOf(q) \in Nat /\ f \in Nat \ {0} /\ SeqOf(f) \in Nat
        /\ SeqOf(q) \in 0..(SeqWord - 1)
    <3>1. q \in Nat \ {0} /\ f \in Nat \ {0}
      BY <2>1
    <3>2. QED
      BY <3>1, SeqOfBounds
  <2>4. p - q < Window /\ q - p < Window
    BY <2>2 DEF NearTop
  <2>5. s.base = SeqOf(f) /\ (later <=> q < p)
    <3>1. r.base # -1 /\ r.max # -1
      BY <2>2, <2>3
    <3>2. /\ CompareSeq(SeqOf(p), SeqOf(q)) \in {-1, 0, 1}
          /\ CompareSeq(SeqOf(p), SeqOf(q)) <= 0 <=> p <= q
      BY <1>3, <2>3, <2>4, SeqTells
    <3>3. QED
      BY <3>1, <3>2, <1>2, <1>3, <2>2, <2>3
  <2> HIDE DEF later
  <2>6. CASE q < p
    <3>1. s.max = SeqOf(p)
      BY <2>5, <2>6, <1>2
    <3>2. p - q < SeqWord
      BY <2>4, <1>3, <2>3, WindowFits, RtpReceiveAssumption
    <3>3. SeqOf(p) = IF SeqOf(q) + (p - q) < SeqWord THEN SeqOf(q) + (p - q)
                                                    ELSE SeqOf(q) + (p - q) - SeqWord
      BY <3>2, <1>3, <2>3, <2>6, SeqOfLater
    <3>4. SeqWord \in Nat /\ (r.cycles + 1) * SeqWord = r.cycles * SeqWord + SeqWord
          /\ r.cycles * SeqWord \in Int
      BY <1>1, RtpReceiveAssumption
    <3>5. r.cycles * SeqWord + SeqOf(q) - SeqOf(f) = q - f
      <4>1. ExtendedSeq(r) = r.cycles * SeqWord + SeqOf(q)
        BY <2>2 DEF ExtendedSeq
      <4>2. ExtendedSeq(r) - SeqOf(f) = q - f
        BY <2>2
      <4> DEFINE k == r.cycles * SeqWord
      <4>3. k \in Int /\ ExtendedSeq(r) = k + SeqOf(q)
        BY <3>4, <4>1
      <4> HIDE DEF k
      <4>4. k + SeqOf(q) - SeqOf(f) = q - f
        BY <4>2, <4>3, <2>3
      <4>5. QED
        BY <4>4 DEF k
    <3>6. s.cycles * SeqWord = IF SeqOf(p) < SeqOf(q) THEN r.cycles * SeqWord + SeqWord
                                                     ELSE r.cycles * SeqWord
      BY <2>2, <2>5, <2>6, <3>4, <1>2
    <3> DEFINE u == r.cycles * SeqWord
               y == s.cycles * SeqWord
    <3>7. /\ u \in Int /\ SeqWord \in Nat /\ u + SeqOf(q) - SeqOf(f) = q - f
          /\ y = IF SeqOf(p) < SeqOf(q) THEN u + SeqWord ELSE u
      BY <3>4, <3>5, <3>6
    <3> HIDE DEF u, y
    <3>8. y + SeqOf(p) - SeqOf(f) = p - f
      BY <3>2, <3>3, <3>7, <1>3, <2>3, <2>6
    <3>9. ExtendedSeq(s) - s.base = p - f
      <4>1. ExtendedSeq(s) = y + SeqOf(p)
        BY <3>1 DEF ExtendedSeq, y
      <4>2. y \in Int
        BY <3>7
      <4>3. QED
        BY <4>1, <4>2, <3>8, <2>3, <2>5, <1>3
    <3>10. p \in B /\ \A x \in B : x <= p
      BY <2>2, <2>3, <2>6, <1>3
    <3>11. QED
      BY <2>1, <2>5, <3>1, <3>9, <3>10
  <2>7. CASE ~(q < p)
    <3>1. s.max = r.max /\ s.cycles = r.cycles
      BY <2>5, <2>7, <1>2
    <3>2. ExtendedSeq(s) - s.base = q - f
      BY <3>1, <2>2, <2>5 DEF ExtendedSeq
    <3>3. q \in B /\ \A x \in B : x <= q
      BY <2>2, <2>3, <2>7, <1>3
    <3>4. QED
      BY <2>1, <2>2, <2>5, <3>1, <3>2, <3>3
  <2>8. QED
    BY <2>6, <2>7
<1>8. QED
  BY <1>4, <1>5, <1>6, <1>7 DEF Counted, s

\* What was counted makes the report right.
LEMMA CountedIsRight ==
    ASSUME NEW m \in Nat, arrived \subseteq 1..m, Counted(report, arrived, first, twice)
    PROVE  ReportIsRight
<1>1. SUFFICES ASSUME NEW q \in arrived, \A r \in arrived : r <= q
               PROVE  /\ ExtendedSeq(report) - report.base = q - first
                      /\ twice = 0 /\ (\A r \in arrived : first <= r) =>
                            Lost(report) = Cardinality((first..q) \ arrived)
  BY DEF ReportIsRight
<1>2. /\ first \in arrived /\ report \in Reports
      /\ twice = 0 => report.received = Cardinality(arrived)
  BY DEF Counted
<1>3. PICK x \in arrived : /\ \A r \in arrived : r <= x
                           /\ ExtendedSeq(report) - report.base = x - first
  BY DEF Counted
<1>4. q \in Nat /\ x \in Nat /\ first \in Nat /\ first <= q
  BY <1>1, <1>2
<1>5. x = q
  <2>1. x <= q /\ q <= x
    BY <1>1, <1>3
  <2>2. QED
    BY <2>1, <1>4
<1>6. ASSUME twice = 0, \A r \in arrived : first <= r
      PROVE  Lost(report) = Cardinality((first..q) \ arrived)
  <2>1. arrived \subseteq first..q
    BY <1>1, <1>4, <1>6
  <2>2. IsFiniteSet(first..q) /\ Cardinality(first..q) = q - first + 1
    BY <1>4, FS_Interval
  <2>3. /\ IsFiniteSet(arrived) /\ Cardinality(arrived) \in Nat
        /\ Cardinality(arrived) <= q - first + 1
    BY <2>1, <2>2, FS_Subset, FS_CardinalityType
  <2>4. Cardinality((first..q) \ arrived) = (q - first + 1) - Cardinality(arrived)
    <3>1. (first..q) \cap arrived = arrived
      BY <2>1
    <3>2. QED
      BY <2>2, <3>1, FS_Difference
  <2>5. ExtendedSeq(report) - report.base + 1 = q - first + 1
    BY <1>3, <1>5
  <2>6. report.received = Cardinality(arrived)
    BY <1>2, <1>6
  <2> DEFINE n == Cardinality(arrived)
  <2>7. Lost(report) = IF q - first + 1 < n THEN 0 ELSE q - first + 1 - n
    <3> DEFINE d == ExtendedSeq(report) - report.base + 1
    <3>1. Lost(report) = IF d < report.received THEN 0 ELSE d - report.received
      BY DEF Lost
    <3>2. d = q - first + 1 /\ report.received = n
      BY <2>5, <2>6
    <3> HIDE DEF d
    <3>3. QED
      BY <3>1, <3>2, <2>3, <1>4
  <2> HIDE DEF n
  <2>8. Lost(report) = (q - first + 1) - n
    BY <2>3, <2>7, <1>4 DEF n
  <2>9. QED
    BY <2>4, <2>8 DEF n
<1>7. QED
  BY <1>3, <1>5, <1>6

-----------------------------------------------------------------------------
(* The invariant, and what follows from it.                                *)

IInv ==
    /\ Stream
    /\ arrived \subseteq DOMAIN packets \ gone
    /\ Overtaken(arrived)
    /\ Good(box, arrived)
    /\ Counted(report, arrived, first, twice)

\* What comes is less than a quarter of all numbers away from what it is compared with: the
\* packets in the list, the last one that went out, and the latest one that came.
Near(p) == NearBox(box, p) /\ NearTop(arrived, p)

KeepsNear == [][\A p \in DOMAIN packets : Arrives(p) => Near(p)]_rtpVars

LEMMA InitIInv == RtpInit => IInv
<1> SUFFICES ASSUME RtpInit
             PROVE  IInv
  OBVIOUS
<1>1. Stream
  <2>1. PICK s \in Streams : packets = Packets(s, codec)
    BY DEF RtpInit
  <2>2. s \in Seq(Nat)
    BY RtpReceiveAssumption
  <2>3. QED
    BY <2>1, <2>2, PacketsOf DEF Stream
<1>2. /\ arrived = {} /\ first = 0 /\ twice = 0
      /\ box = [list |-> <<>>, size |-> 0, flag |-> FALSE, seq |-> 0, out |-> <<>>]
      /\ report = [base |-> -1, max |-> -1, cycles |-> 0, received |-> 0]
  BY DEF RtpInit
<1>3. Good(box, arrived)
  <2>1. box.list = <<>> /\ box.size = 0 /\ ~box.flag /\ box.seq = 0 /\ box.out = <<>>
    BY <1>2
  <2>2. box \in Boxes
    BY <1>2 DEF Boxes
  <2>3. BoxInv(box)
    BY <2>1, <2>2 DEF BoxInv, Sorted, Together, AsSet
  <2>4. Kept(box, arrived)
    BY <2>1, <1>2 DEF Kept
  <2>5. AsSet(box.list) \subseteq arrived
    BY <2>1 DEF AsSet
  <2>6. QED
    BY <2>3, <2>4, <2>5 DEF Good
<1>4. Counted(report, arrived, first, twice)
  <2>1. Cardinality({}) = 0
    BY FS_EmptySet
  <2>2. QED
    BY <2>1, <1>2 DEF Counted, Reports
<1>5. QED
  BY <1>1, <1>2, <1>3, <1>4 DEF IInv, Overtaken

\* The container in the next state, when what was sent stays.
LEMMA GoodPrimed ==
    ASSUME packets' = packets, gone' = gone, NEW c, NEW A, box' = c, arrived' = A, Good(c, A)
    PROVE  Good(box, arrived)'
<1>1. BoxInv(box)'
  <2>1. Boxes' = Boxes
    BY DEF Boxes
  <2>2. ASSUME NEW f
        PROVE  IsFrame(f)' <=> IsFrame(f)
    BY DEF IsFrame
  <2>3. BoxInv(c)
    BY DEF Good
  <2>4. (c \in Boxes)' /\ \A i \in 1..Len(c.out) : IsFrame(c.out[i])'
    BY <2>1, <2>2, <2>3 DEF BoxInv
  <2>5. /\ Sorted(c.list) /\ Together(AsSet(c.list)) /\ (c.flag <=> Len(c.out) > 0)
        /\ \A i, j \in 1..Len(c.out) : i < j => c.out[i][Len(c.out[i])] < c.out[j][1]
        /\ c.flag => /\ c.seq = SeqOf(LastOut(c))
                     /\ \A p \in AsSet(c.list) : LastOut(c) < p /\ p - LastOut(c) < Window
    BY <2>3 DEF BoxInv
  <2>6. QED
    BY <2>4, <2>5 DEF BoxInv
<1>2. Longest' = Longest
  BY DEF Longest, Frames, FrameAt
<1>3. Room(box)' => Room(c)
  BY <1>2 DEF Room
<1>4. ASSUME NEW a, NEW e
      PROVE  Spans(a, e)' <=> Spans(a, e)
  BY DEF Spans
<1>5. LastOut(box)' = LastOut(c) /\ AsSet(box.list)' = AsSet(c.list)
  BY DEF LastOut, AsSet
<1>6. Kept(c, A) => Kept(box, arrived)'
  <2> SUFFICES ASSUME Kept(c, A), NEW a \in 1..Len(packets), NEW e \in 1..Len(packets),
                      Spans(a, e)', a..e \cap gone = {}, c.flag => c.out[1][1] < a
               PROVE  \/ \E i \in 1..Len(c.out) : c.out[i][1] = a
                      \/ (c.flag => LastOut(c) < a) /\ a..e \cap A \subseteq AsSet(c.list)
    BY <1>5 DEF Kept
  <2>1. Spans(a, e)
    BY <1>4
  <2>2. QED
    BY <2>1 DEF Kept
<1>7. QED
  BY <1>1, <1>3, <1>5, <1>6 DEF Good

\* A packet comes that is near.
LEMMA ArrivesIInv ==
    ASSUME IInv, NEW p \in DOMAIN packets \ gone, Arrives(p), Near(p)
    PROVE  IInv'
<1>1. /\ Stream /\ Len(packets) \in Nat /\ DOMAIN packets = 1..Len(packets)
      /\ p \in 1..Len(packets) /\ arrived \in SUBSET (1..Len(packets))
  BY DEF IInv, Stream
<1>2. /\ packets' = packets /\ gone' = gone /\ codec' = codec
      /\ arrived' = arrived \cup {p} /\ box' = Feed(box, p) /\ report' = FeedRtpPacket(report, p)
      /\ first' = IF arrived = {} THEN p ELSE first
      /\ \A q \in DOMAIN packets : q < p - Displace => q \in arrived \cup gone
  BY DEF Arrives
<1>3. Overtaken(arrived \cup {p})
  BY <1>1, <1>2 DEF IInv, Overtaken
<1>4. Good(Feed(box, p), arrived \cup {p})
  BY <1>1, <1>3, FeedGood DEF IInv, Near
<1>5. twice' = IF p \in arrived THEN twice + 1 ELSE twice
  BY DEF Arrives
<1>6. Counted(FeedRtpPacket(report, p), arrived \cup {p}, first', twice')
  <2>1. Counted(report, arrived, first, twice) /\ NearTop(arrived, p)
    BY DEF IInv, Near
  <2>2. QED
    BY <2>1, <1>1, <1>2, <1>5, CountGood
<1>7. Stream'
  BY <1>1, <1>2 DEF Stream, WellFormed
<1>8. Overtaken(arrived)'
  BY <1>2, <1>3 DEF Overtaken
<1>9. Good(box, arrived)'
  BY <1>2, <1>4, GoodPrimed
<1>10. Counted(report, arrived, first, twice)'
  BY <1>2, <1>6 DEF Counted, ExtendedSeq
<1>11. QED
  BY <1>1, <1>2, <1>7, <1>8, <1>9, <1>10 DEF IInv

LEMMA StaysIInv == IInv /\ UNCHANGED rtpVars => IInv'
<1> SUFFICES ASSUME IInv, UNCHANGED rtpVars
             PROVE  IInv'
  OBVIOUS
<1>1. /\ packets' = packets /\ gone' = gone /\ arrived' = arrived /\ first' = first
      /\ twice' = twice /\ box' = box /\ report' = report
  BY DEF rtpVars
<1>2. Good(box, arrived)'
  BY <1>1, GoodPrimed DEF IInv
<1>3. Stream' /\ Overtaken(arrived)' /\ Counted(report, arrived, first, twice)'
  BY <1>1 DEF IInv, Stream, WellFormed, Overtaken, Counted, ExtendedSeq
<1>4. QED
  BY <1>1, <1>2, <1>3 DEF IInv

LEMMA IInvInOrder == IInv => FramesInOrder
<1> SUFFICES ASSUME IInv
             PROVE  FramesInOrder
  OBVIOUS
<1>1. /\ Stream /\ box \in Boxes
      /\ \A i \in 1..Len(box.out) : IsFrame(box.out[i])
      /\ \A i, j \in 1..Len(box.out) : i < j => box.out[i][Len(box.out[i])] < box.out[j][1]
  BY DEF IInv, Good, BoxInv
<1>2. ASSUME NEW i \in 1..Len(box.out)
      PROVE  LET f == box.out[i] IN
             /\ Spans(f[1], f[Len(f)]) /\ AsSet(f) = f[1]..f[Len(f)]
             /\ f[1] \in Nat \ {0} /\ f[Len(f)] \in Nat \ {0} /\ f[1] <= f[Len(f)]
             /\ Head(f) = f[1]
             /\ \A j \in 2..Len(f) : f[j] = f[j - 1] + 1
  <2> DEFINE f == box.out[i]
  <2>1. f \in Seq(1..Len(packets)) /\ IsFrame(f)
    BY <1>1 DEF Boxes
  <2> HIDE DEF f
  <2>2. /\ Spans(f[1], f[Len(f)]) /\ AsSet(f) = f[1]..f[Len(f)]
        /\ f[1] \in Nat \ {0} /\ f[Len(f)] \in Nat \ {0} /\ f[1] <= f[Len(f)]
    BY <1>1, <2>1, JoinedSpans
  <2>3. Head(f) = f[1]
    BY <2>1 DEF IsFrame
  <2>4. ASSUME NEW j \in 2..Len(f)
        PROVE  f[j] = f[j - 1] + 1
    <3>1. Len(f) \in Nat /\ j \in 1..Len(f) /\ j - 1 \in 1..Len(f)
      BY <2>1
    <3>2. f[j] = f[1] + j - 1 /\ f[j - 1] = f[1] + (j - 1) - 1
      BY <2>1, <3>1 DEF IsFrame
    <3> DEFINE k == f[1]
    <3>3. k \in Nat /\ f[j] = k + j - 1 /\ f[j - 1] = k + (j - 1) - 1
      BY <2>2, <3>2
    <3> HIDE DEF k
    <3>4. QED
      BY <3>1, <3>3
  <2>5. QED
    BY <2>2, <2>3, <2>4 DEF f
<1>3. ASSUME NEW i \in 1..Len(box.out)
      PROVE  AsSet(box.out[i]) \in Frames
  BY <1>1, <1>2, FrameSpans
<1>4. ASSUME NEW i \in 1..Len(box.out), NEW j \in 1..Len(box.out), i < j
      PROVE  Head(box.out[i]) < Head(box.out[j])
  <2> DEFINE x == box.out[i][1]
             y == box.out[i][Len(box.out[i])]
             z == box.out[j][1]
  <2>1. x \in Nat /\ y \in Nat /\ z \in Nat /\ x <= y /\ y < z
    BY <1>1, <1>2, <1>4
  <2>2. Head(box.out[i]) = x /\ Head(box.out[j]) = z
    BY <1>2
  <2> HIDE DEF x, y, z
  <2>3. QED
    BY <2>1, <2>2
<1>5. QED
  BY <1>2, <1>3, <1>4 DEF FramesInOrder

LEMMA IInvNoneGivenUp == IInv => NoFrameGivenUp
<1> SUFFICES ASSUME IInv, box.out # <<>>, Longest - 1 + Displace + Uncounted <= MaxSize,
                    NEW f \in Frames, f \subseteq arrived, \A p \in f : p > Head(box.out[1])
             PROVE  \/ \E i \in 1..Len(box.out) : f = AsSet(box.out[i])
                    \/ f \subseteq AsSet(box.list)
  BY DEF NoFrameGivenUp
<1>1. /\ Stream /\ Good(box, arrived) /\ BoxInv(box) /\ box \in Boxes
      /\ arrived \cap gone = {}
      /\ \A i \in 1..Len(box.out) : IsFrame(box.out[i]) /\ box.out[i] \in Seq(1..Len(packets))
  <2>1. Stream /\ Good(box, arrived) /\ arrived \cap gone = {}
    BY DEF IInv
  <2>2. BoxInv(box) /\ box \in Boxes /\ \A i \in 1..Len(box.out) : IsFrame(box.out[i])
    BY <2>1 DEF Good, BoxInv
  <2>3. \A i \in 1..Len(box.out) : box.out[i] \in Seq(1..Len(packets))
    <3> DEFINE T == Seq(1..Len(packets))
    <3>1. box.out \in Seq(T)
      BY <2>2 DEF Boxes
    <3> HIDE DEF T
    <3>2. \A i \in 1..Len(box.out) : box.out[i] \in T
      BY <3>1
    <3>3. QED
      BY <3>2 DEF T
  <2>4. QED
    BY <2>1, <2>2, <2>3
<1>2. PICK a, e \in 1..Len(packets) : Spans(a, e) /\ f = a..e
  BY <1>1, FramesSpan
<1>3. Kept(box, arrived)
  <2>1. Room(box)
    BY DEF Room, Uncounted
  <2>2. QED
    BY <1>1, <2>1 DEF Good
<1>4. Len(box.out) > 0 /\ 1 \in 1..Len(box.out)
  <2>1. box.out \in Seq(Seq(1..Len(packets)))
    BY <1>1 DEF Boxes
  <2>2. QED
    BY <2>1
<1>5. box.out[1][1] < a
  <2>1. a \in a..e /\ a \in Nat
    BY <1>1, <1>2 DEF Spans, Stream
  <2>2. a > Head(box.out[1])
    BY <1>2, <2>1
  <2>3. Head(box.out[1]) = box.out[1][1] /\ box.out[1][1] \in Nat
    <3> DEFINE g == box.out[1]
    <3>1. IsFrame(g) /\ g \in Seq(1..Len(packets))
      BY <1>1, <1>4
    <3> HIDE DEF g
    <3>2. Head(g) = g[1] /\ g[1] \in Nat
      BY <3>1 DEF IsFrame
    <3>3. QED
      BY <3>2 DEF g
  <2>4. QED
    BY <2>1, <2>2, <2>3
<1>6. \/ \E i \in 1..Len(box.out) : box.out[i][1] = a
      \/ a..e \cap arrived \subseteq AsSet(box.list)
  BY <1>1, <1>2, <1>3, <1>5 DEF Kept
<1>7. ASSUME NEW i \in 1..Len(box.out), box.out[i][1] = a
      PROVE  f = AsSet(box.out[i])
  <2> DEFINE g == box.out[i]
  <2>1. g[1] = a /\ Spans(g[1], g[Len(g)]) /\ AsSet(g) = g[1]..g[Len(g)]
    BY <1>1, <1>7, JoinedSpans
  <2> HIDE DEF g
  <2>2. g[Len(g)] = e
    <3>1. a \in Int
      BY <1>2
    <3>2. QED
      BY <2>1, <3>1, <1>2, Apart
  <2>3. QED
    BY <2>1, <2>2, <1>2 DEF g
<1>8. QED
  BY <1>2, <1>6, <1>7

-----------------------------------------------------------------------------
(* The theorems.                                                           *)

LEMMA RtpInvariant == RtpSpec /\ KeepsNear => []IInv
<1> DEFINE Nearby == \A p \in DOMAIN packets : Arrives(p) => Near(p)
<1>1. RtpInit => IInv
  BY InitIInv
<1>2. IInv /\ [RtpNext]_rtpVars /\ [Nearby]_rtpVars => IInv'
  <2> SUFFICES ASSUME IInv, [RtpNext]_rtpVars, [Nearby]_rtpVars
               PROVE  IInv'
    OBVIOUS
  <2>1. CASE UNCHANGED rtpVars
    BY <2>1, StaysIInv
  <2>2. CASE RtpNext /\ Nearby
    <3>1. PICK p \in DOMAIN packets \ gone : Arrives(p)
      BY <2>2 DEF RtpNext
    <3>2. Near(p)
      BY <2>2, <3>1
    <3>3. QED
      BY <3>1, <3>2, ArrivesIInv
  <2>3. QED
    BY <2>1, <2>2
<1>3. QED
  BY <1>1, <1>2, PTL DEF RtpSpec, KeepsNear

\* Whatever is lost, late or doubled, frames come out whole, as they were sent and in order, as
\* long as what comes is less than a quarter of the numbers away from what it is compared with.
THEOREM InOrder == RtpSpec /\ KeepsNear => []FramesInOrder
<1>1. QED
  BY RtpInvariant, IInvInOrder, PTL

\* Under the same condition no frame is given up that came whole, as long as Size leaves room.
THEOREM NoneGivenUp == RtpSpec /\ KeepsNear => []NoFrameGivenUp
<1>1. QED
  BY RtpInvariant, IInvNoneGivenUp, PTL

\* Under the same condition the report counts on across the turns of the numbers.
THEOREM ReportRight == RtpSpec /\ KeepsNear => []ReportIsRight
<1>1. IInv => ReportIsRight
  <2> SUFFICES ASSUME IInv
               PROVE  ReportIsRight
    OBVIOUS
  <2>1. Len(packets) \in Nat /\ arrived \subseteq 1..Len(packets)
    BY DEF IInv, Stream
  <2>2. QED
    BY <2>1, CountedIsRight DEF IInv
<1>2. QED
  BY <1>1, RtpInvariant, PTL

-----------------------------------------------------------------------------
(* Short streams are always near.                                          *)

\* no stream has more packets than a quarter of the numbers
ShortStreams ==
    \A s \in Streams, k \in {"avc", "hevc", "aac"} : Len(Packets(s, k)) <= Window

IsShort == Stream /\ Len(packets) <= Window /\ IInv

\* A packet of a short stream is near to all others.
LEMMA ShortIsNear ==
    ASSUME IsShort, NEW p \in DOMAIN packets
    PROVE  Near(p)
<1>1. /\ DOMAIN packets = 1..Len(packets) /\ Len(packets) \in Nat /\ Len(packets) <= Window
      /\ Window \in Nat /\ IInv
  BY WindowFits DEF IsShort, Stream
<1>2. ASSUME NEW x \in 1..Len(packets), NEW y \in 1..Len(packets)
      PROVE  x - y < Window
  BY <1>1
<1>3. AsSet(box.list) \cup {p} \subseteq 1..Len(packets) /\ arrived \subseteq 1..Len(packets)
  BY <1>1 DEF IInv, Good
<1>4. Together(AsSet(box.list) \cup {p})
  BY <1>2, <1>3 DEF Together
<1>5. ASSUME box.flag
      PROVE  LastOut(box) \in 1..Len(packets)
  <2>1. /\ Len(box.out) \in 1..Len(box.out) /\ box.out[Len(box.out)] \in Seq(1..Len(packets))
        /\ IsFrame(box.out[Len(box.out)])
    BY <1>1, <1>5 DEF IInv, Good, BoxInv, Boxes
  <2>2. QED
    BY <2>1 DEF LastOut, IsFrame
<1>6. NearTop(arrived, p)
  BY <1>1, <1>2, <1>3 DEF NearTop
<1>7. QED
  BY <1>1, <1>2, <1>4, <1>5, <1>6 DEF Near, NearBox

\* For short streams nothing else is asked of the network: all three hold.
THEOREM ShortStreamsSafe ==
    ASSUME ShortStreams
    PROVE  RtpSpec => [](FramesInOrder /\ NoFrameGivenUp /\ ReportIsRight)
<1>1. RtpInit => IsShort
  <2> SUFFICES ASSUME RtpInit
               PROVE  IsShort
    OBVIOUS
  <2>1. Len(packets) <= Window
    BY DEF RtpInit, ShortStreams
  <2>2. QED
    BY <2>1, InitIInv DEF IsShort, IInv
<1>2. IsShort /\ [RtpNext]_rtpVars => IsShort'
  <2> SUFFICES ASSUME IsShort, [RtpNext]_rtpVars
               PROVE  IsShort'
    OBVIOUS
  <2>1. packets' = packets
    BY DEF RtpNext, Arrives, rtpVars
  <2>2. IInv'
    <3>1. CASE UNCHANGED rtpVars
      BY <3>1, StaysIInv DEF IsShort
    <3>2. CASE RtpNext
      <4>1. PICK p \in DOMAIN packets \ gone : Arrives(p)
        BY <3>2 DEF RtpNext
      <4>2. QED
        BY <4>1, ShortIsNear, ArrivesIInv DEF IsShort
    <3>3. QED
      BY <3>1, <3>2
  <2>3. QED
    BY <2>1, <2>2, WindowFits DEF IsShort, IInv, Window
<1>3. IsShort => FramesInOrder /\ NoFrameGivenUp /\ ReportIsRight
  <2> SUFFICES ASSUME IsShort
               PROVE  FramesInOrder /\ NoFrameGivenUp /\ ReportIsRight
    OBVIOUS
  <2>1. Len(packets) \in Nat /\ arrived \subseteq 1..Len(packets) /\ IInv
    BY DEF IsShort, IInv, Stream
  <2>2. ReportIsRight
    BY <2>1, CountedIsRight DEF IInv
  <2>3. QED
    BY <2>1, <2>2, IInvInOrder, IInvNoneGivenUp
<1>4. QED
  BY <1>1, <1>2, <1>3, PTL DEF RtpSpec

-----------------------------------------------------------------------------
(* Streams of any length.                                                  *)

\* the lost packets of frames that are not far from p
Losses(p) == gone \cap (p - Window - Longest)..(p + Longest)

\* Nothing comes twice, Size leaves room for a frame and for the packets that overtake it, and
\* nowhere do a full list, the packets that are overtaken and the frames with a loss make up a
\* quarter of the numbers.
Timely ==
    /\ codec # "aac" /\ MaxTwice = 0
    /\ Longest - 1 + Displace <= MaxSize
    /\ \A p \in 1..Len(packets) :
        MaxSize + Displace + Cardinality(Losses(p)) * (2 * Longest - 1) + 1 < Window

\* Size is the length of the list, and the last packet that went out had come.
Exact(b, A) == b.size = Len(b.list) /\ (b.flag => LastOut(b) \in A)

\* An interval that is covered by a set, by its own end, and by the neighbourhoods of some points.
LEMMA Crowded ==
    ASSUME NEW p \in Nat, NEW w \in Nat, NEW d \in Nat, NEW k \in Nat \ {0},
           NEW B, IsFiniteSet(B), NEW G \in SUBSET Int, IsFiniteSet(G),
           \A x \in (p - w + 1)..(p - 1) :
              x \in B \/ x >= p - d \/ \E g \in G : x - g < k /\ g - x < k
    PROVE  w - 1 <= Cardinality(B) + d + Cardinality(G) * (2 * k - 1)
<1> DEFINE I == (p - w + 1)..(p - 1)
           C == G \X (1..(2 * k - 1))
           f == [t \in C |-> t[1] + t[2] - k]
           D == {f[t] : t \in C}
           E == (p - d)..(p - 1)
<1>1. IsFiniteSet(E) /\ Cardinality(E) = d
  <2>1. p - d \in Int /\ p - 1 \in Int
    OBVIOUS
  <2>2. QED
    BY <2>1, FS_Interval
<1>2. Cardinality(I) >= w - 1
  <2>1. p - w + 1 \in Int /\ p - 1 \in Int
    OBVIOUS
  <2>2. QED
    BY <2>1, FS_Interval
<1>3. IsFiniteSet(C) /\ Cardinality(C) = Cardinality(G) * (2 * k - 1)
  <2>1. 2 * k - 1 \in Nat /\ 2 * k - 1 >= 1
    OBVIOUS
  <2>2. IsFiniteSet(1..(2 * k - 1)) /\ Cardinality(1..(2 * k - 1)) = 2 * k - 1
    <3> DEFINE n == 2 * k - 1
    <3> n \in Nat
      BY <2>1
    <3> HIDE DEF n
    <3>1. IsFiniteSet(1..n) /\ Cardinality(1..n) = n
      BY FS_Interval
    <3>2. QED
      BY <3>1 DEF n
  <2>3. QED
    BY <2>2, FS_Product
<1>4. IsFiniteSet(D) /\ Cardinality(D) <= Cardinality(C)
  <2>1. f \in Surjection(C, D)
    <3> HIDE DEF C
    <3>1. QED
      BY DEF Surjection
  <2> HIDE DEF f, D, C
  <2>2. QED
    BY <1>3, <2>1, FS_Surjection
<1>5. I \subseteq (B \cup E) \cup D
  <2>1. SUFFICES ASSUME NEW x \in I, x \notin B, x \notin E
                 PROVE  x \in D
    OBVIOUS
  <2>2. x \in Int /\ ~(x >= p - d)
    BY <2>1
  <2>3. PICK g \in G : x - g < k /\ g - x < k
    BY <2>1, <2>2
  <2>4. <<g, x - g + k>> \in C
    BY <2>2, <2>3
  <2>5. f[<<g, x - g + k>>] = g + (x - g + k) - k
    BY <2>4
  <2>6. g + (x - g + k) - k = x
    BY <2>2, <2>3
  <2>7. QED
    BY <2>4, <2>5, <2>6
<1> HIDE DEF I, C, f, D, E
<1>6. /\ IsFiniteSet(B \cup E) /\ Cardinality(B \cup E) <= Cardinality(B) + d
      /\ Cardinality(B \cup E) \in Nat
  <2>1. IsFiniteSet(B \cup E) /\ IsFiniteSet(B \cap E)
    BY <1>1, FS_Union, FS_Intersection
  <2>2. Cardinality(B \cup E) = Cardinality(B) + Cardinality(E) - Cardinality(B \cap E)
    BY <1>1, FS_Union
  <2>3. Cardinality(B) \in Nat /\ Cardinality(B \cap E) \in Nat /\ Cardinality(B \cup E) \in Nat
    BY <2>1, FS_CardinalityType
  <2>4. QED
    BY <1>1, <2>1, <2>2, <2>3
<1>7. /\ IsFiniteSet((B \cup E) \cup D)
      /\ Cardinality((B \cup E) \cup D) <= Cardinality(B \cup E) + Cardinality(D)
      /\ Cardinality((B \cup E) \cup D) \in Nat
  <2>1. IsFiniteSet((B \cup E) \cup D) /\ IsFiniteSet((B \cup E) \cap D)
    BY <1>4, <1>6, FS_Union, FS_Intersection
  <2>2. /\ Cardinality((B \cup E) \cup D)
             = Cardinality(B \cup E) + Cardinality(D) - Cardinality((B \cup E) \cap D)
    BY <1>4, <1>6, FS_Union
  <2>3. /\ Cardinality(D) \in Nat /\ Cardinality((B \cup E) \cap D) \in Nat
        /\ Cardinality((B \cup E) \cup D) \in Nat
    BY <1>4, <2>1, FS_CardinalityType
  <2>4. QED
    BY <1>6, <2>1, <2>2, <2>3
<1>8. Cardinality(I) <= Cardinality((B \cup E) \cup D)
  BY <1>5, <1>7, FS_Subset
<1> DEFINE u == Cardinality(I)
           v == Cardinality((B \cup E) \cup D)
           y == Cardinality(B \cup E)
           z == Cardinality(D)
           c == Cardinality(C)
           b == Cardinality(B)
<1>9. u \in Nat /\ v \in Nat /\ y \in Nat /\ z \in Nat /\ c \in Nat /\ b \in Nat
  <2>1. IsFiniteSet(I)
    BY <1>5, <1>7, FS_Subset
  <2>2. QED
    BY <2>1, <1>3, <1>4, <1>6, <1>7, FS_CardinalityType
<1>10. w - 1 <= u /\ u <= v /\ v <= y + z /\ z <= c /\ y <= b + d
  BY <1>2, <1>4, <1>6, <1>7, <1>8
<1> HIDE DEF u, v, y, z, c, b
<1>11. w - 1 <= b + d + c
  BY <1>9, <1>10
<1>12. QED
  BY <1>3, <1>11 DEF b, c

\* A frame that goes out takes its packets off Size.
LEMMA TakingExact ==
    ASSUME Len(packets) \in Nat, codec # "aac", NEW A, NEW b, BoxInv(b), AsSet(b.list) \subseteq A,
           Exact(b, A), WholeFrame(b.list) > 0
    PROVE  Exact(UnpackOne(b), A) /\ UnpackOne(b).size < b.size
<1> DEFINE n == WholeFrame(b.list)
           c == UnpackOne(b)
<1>1. b \in Boxes /\ Sorted(b.list) /\ Together(AsSet(b.list))
  BY DEF BoxInv
<1>2. /\ n \in 1..Len(b.list) /\ LastOut(c) = b.list[n] /\ Len(c.list) = Len(b.list) - n
  BY <1>1, Taking
<1>3. c.size = b.size - n
  BY DEF UnpackOne
<1>4. b.size = Len(b.list) /\ b.size \in Int
  BY <1>1 DEF Exact, Boxes
<1>5. LastOut(c) \in A
  BY <1>2 DEF AsSet
<1> HIDE DEF n, c
<1>6. Exact(c, A) /\ c.size < b.size
  BY <1>2, <1>3, <1>4, <1>5 DEF Exact
<1>7. QED
  BY <1>6 DEF c

\* So do the rounds of the loop, the first of which brings a frame when there is one to go on with.
LEMMA LoopExact ==
    ASSUME Stream, codec # "aac", NEW A, NEW b, Good(b, A), Exact(b, A)
    PROVE  LET c == UnpackSequential(b) IN
           /\ Exact(c, A) /\ c.size <= b.size
           /\ Sequential(b) => c.size < b.size
<1> DEFINE S == {c \in Boxes : Good(c, A) /\ Exact(c, A) /\ c.size <= b.size}
           R == {c \in Boxes : c.size < b.size}
<1>1. b \in Boxes /\ b.size \in Int /\ Len(b.list) \in Nat /\ Len(packets) \in Nat
  BY DEF Good, BoxInv, Boxes, Stream
<1>2. b \in S
  BY <1>1
<1>3. ASSUME NEW c \in S
      PROVE  /\ UnpackNext(c) \in S /\ UnpackNext(c).size <= c.size
             /\ Sequential(c) => UnpackNext(c).size < c.size
  <2>1. Good(UnpackNext(c), A) /\ UnpackNext(c) \in Boxes /\ UnpackNext(c).size \in Int
    <3>1. Good(UnpackNext(c), A)
      BY RoundGood
    <3>2. QED
      BY <3>1 DEF Good, BoxInv, Boxes
  <2>2. CASE Sequential(c)
    <3>1. Exact(UnpackOne(c), A) /\ UnpackOne(c).size < c.size
      BY <2>2, <1>1, TakingExact DEF Sequential, Good
    <3>2. UnpackNext(c) = UnpackOne(c)
      BY <2>2 DEF UnpackNext
    <3>3. c.size \in Int /\ c.size <= b.size
      BY DEF Boxes
    <3>4. QED
      BY <2>1, <3>1, <3>2, <3>3, <1>1
  <2>3. CASE ~Sequential(c)
    <3>1. UnpackNext(c) = c /\ c.size \in Int
      BY <2>3 DEF UnpackNext, Boxes
    <3>2. QED
      BY <2>3, <3>1
  <2>4. QED
    BY <2>2, <2>3
<1>4. UnpackSequential(b) \in S
  <2> HIDE DEF S
  <2>1. QED
    BY <1>1, <1>2, <1>3, Rounds
<1>5. ASSUME Sequential(b)
      PROVE  UnpackSequential(b) \in R
  <2>1. Len(b.list) \in Nat \ {0}
    <3>1. b.list # <<>>
      BY <1>5 DEF Sequential, WholeFrame
    <3>2. QED
      BY <3>1, <1>1 DEF Boxes
  <2>2. UnpackNext(b) \in R
    BY <1>2, <1>3, <1>5
  <2>3. ASSUME NEW c \in S \cap R
        PROVE  UnpackNext(c) \in R
    <3>1. UnpackNext(c) \in S /\ UnpackNext(c).size <= c.size
      BY <1>3
    <3>2. UnpackNext(c).size \in Int /\ c.size \in Int
      BY <3>1 DEF Boxes
    <3>3. QED
      BY <3>1, <3>2, <1>1
  <2>4. \A c \in S : UnpackNext(c) \in S
    BY <1>3
  <2> HIDE DEF S, R
  <2>5. QED
    BY <1>2, <2>1, <2>2, <2>3, <2>4, RoundsOn
<1>6. QED
  BY <1>4, <1>5

\* Size stays the length of the list, and within maxSize, while nothing comes twice.
LEMMA FeedExact ==
    ASSUME Stream, codec # "aac", NEW A, NEW b, Good(b, A), Exact(b, A), b.size <= MaxSize,
           NEW p \in 1..Len(packets), p \notin A, NearBox(b, p), Overtaken(A \cup {p})
    PROVE  Exact(Feed(b, p), A \cup {p}) /\ Feed(b, p).size <= MaxSize
<1> DEFINE c == Insert(b, p)
           T == A \cup {p}
<1>1. Len(packets) \in Nat /\ BoxInv(b) /\ b.size \in Int /\ MaxSize \in Nat
  BY RtpReceiveAssumption DEF Stream, Good, BoxInv, Boxes
<1>2. CASE IsStale(b, p)
  <2>1. Feed(b, p) = b
    BY <1>2 DEF Feed
  <2>2. QED
    BY <2>1 DEF Exact
<1>3. CASE ~IsStale(b, p)
  <2>1. Good(c, T)
    BY <1>3, InsertGood DEF NearBox
  <2>2. /\ BoxInv(c) /\ c.out = b.out /\ c.flag = b.flag /\ c.size = b.size + 1
        /\ Len(c.list) = Len(b.list) + 1
    <3>1. p \notin AsSet(b.list)
      BY DEF Good
    <3> HIDE DEF c
    <3>2. QED
      BY <1>1, <1>3, <3>1, InsertKeeps DEF NearBox, c
  <2>3. Exact(c, T) /\ c.size <= MaxSize + 1
    BY <2>2, <1>1 DEF Exact, LastOut
  <2>4. Feed(b, p) = IF Sequential(c) THEN UnpackSequential(c)
                     ELSE IF c.size > MaxSize THEN MakeRoom(c) ELSE c
    BY <1>3 DEF Feed
  <2>5. c.size \in Int /\ c.list \in Seq(1..Len(packets)) /\ AsSet(c.list) \subseteq T
    BY <2>1, <2>2 DEF BoxInv, Boxes, Good
  <2> HIDE DEF c, T
  <2>6. CASE Sequential(c)
    <3> DEFINE d == UnpackSequential(c)
    <3>1. Exact(d, T) /\ d.size < c.size
      BY <2>1, <2>3, <2>6, LoopExact
    <3>2. d.size \in Int
      BY <2>1, LoopGood DEF Good, BoxInv, Boxes
    <3> HIDE DEF d
    <3>3. d.size <= MaxSize
      BY <2>3, <2>5, <3>1, <3>2, <1>1
    <3>4. QED
      BY <2>4, <2>6, <3>1, <3>3 DEF d, T
  <2>7. CASE ~Sequential(c) /\ c.size > MaxSize /\ WholeFrame(c.list) > 0
    <3> DEFINE e == UnpackOne(c)
               d == UnpackSequential(e)
    <3>1. Good(e, T)
      BY <2>1, <2>7, AcrossGood DEF T
    <3>2. Exact(e, T) /\ e.size < c.size
      BY <2>2, <2>3, <2>5, <2>7, <1>1, TakingExact
    <3>3. Exact(d, T) /\ d.size <= e.size
      <4> HIDE DEF e
      <4>1. QED
        BY <3>1, <3>2, LoopExact
    <3>4. d.size \in Int /\ e.size \in Int
      <4> HIDE DEF e
      <4>1. QED
        BY <3>1, LoopGood DEF Good, BoxInv, Boxes
    <3>5. Feed(b, p) = d
      BY <2>4, <2>7 DEF MakeRoom
    <3> HIDE DEF d, e
    <3>6. d.size <= MaxSize
      BY <2>3, <2>5, <3>2, <3>3, <3>4, <1>1
    <3>7. QED
      BY <3>3, <3>5, <3>6 DEF T
  <2>8. CASE ~Sequential(c) /\ c.size > MaxSize /\ ~(WholeFrame(c.list) > 0)
    <3> DEFINE d == [c EXCEPT !.list = Tail(@), !.size = @ - 1]
    <3>1. Feed(b, p) = d
      BY <2>4, <2>8 DEF MakeRoom
    <3>2. c.list # <<>>
      <4>1. SUFFICES ASSUME c.list = <<>>
                     PROVE  FALSE
        OBVIOUS
      <4>2. QED
        BY <4>1, <2>3, <2>8, <1>1 DEF Exact
    <3>3. /\ d.size = c.size - 1 /\ d.flag = c.flag /\ d.out = c.out
          /\ Len(d.list) = Len(c.list) - 1
      BY <2>2, <2>5, <3>2 DEF BoxInv, Boxes
    <3> HIDE DEF d
    <3>4. Exact(d, T) /\ d.size <= MaxSize
      BY <2>3, <2>5, <3>3, <1>1 DEF Exact, LastOut
    <3>5. QED
      BY <3>1, <3>4 DEF T
  <2>9. CASE ~Sequential(c) /\ ~(c.size > MaxSize)
    BY <2>3, <2>4, <2>5, <2>9, <1>1 DEF T
  <2>10. QED
    BY <2>6, <2>7, <2>8, <2>9
<1>4. QED
  BY <1>2, <1>3

\* What came out goes up to the last packet that went out, which ends a frame.
LEMMA OutUpto ==
    ASSUME Stream, NEW b, BoxInv(b), NEW i \in 1..Len(b.out)
    PROVE  /\ b.out[i][1] \in Nat \ {0} /\ LastOut(b) \in Nat \ {0} /\ b.out[i][1] <= LastOut(b)
           /\ \E a \in 1..Len(packets) : Spans(a, LastOut(b))
<1> DEFINE n == Len(b.out)
           first1(k) == b.out[k][1]
           last1(k) == b.out[k][Len(b.out[k])]
<1>1. n \in Nat /\ n \in 1..n /\ \A k \in 1..n : b.out[k] \in Seq(1..Len(packets))
  <2> DEFINE T == Seq(1..Len(packets))
  <2>1. b.out \in Seq(T)
    BY DEF BoxInv, Boxes
  <2> HIDE DEF T
  <2>2. n \in Nat /\ n \in 1..n /\ \A k \in 1..n : b.out[k] \in T
    BY <2>1
  <2>3. QED
    BY <2>2 DEF T
<1>2. ASSUME NEW k \in 1..n
      PROVE  /\ Spans(first1(k), last1(k)) /\ first1(k) \in Nat \ {0} /\ last1(k) \in Nat \ {0}
             /\ first1(k) <= last1(k)
  BY <1>1, JoinedSpans DEF BoxInv
<1>3. i < n => last1(i) < first1(n)
  BY <1>1 DEF BoxInv
<1>4. LastOut(b) = last1(n)
  BY DEF LastOut
<1>5. /\ Spans(first1(n), last1(n)) /\ first1(n) \in Nat \ {0} /\ last1(n) \in Nat \ {0}
      /\ first1(n) <= last1(n)
  BY <1>1, <1>2
<1>6. first1(i) \in Nat \ {0} /\ last1(i) \in Nat \ {0} /\ first1(i) <= last1(i)
  BY <1>2
<1>7. first1(n) \in 1..Len(packets)
  BY <1>5 DEF Spans
<1>8. i = n \/ i < n
  BY <1>1
<1>9. b.out[i][1] = first1(i)
  OBVIOUS
<1> HIDE DEF first1, last1, n
<1>10. first1(i) <= last1(n)
  BY <1>3, <1>5, <1>6, <1>8
<1>11. QED
  BY <1>4, <1>5, <1>6, <1>7, <1>9, <1>10

\* What came, later than all that went out, is in the list, or near a loss.
LEMMA Waiting ==
    ASSUME Stream, NEW A, NEW b, Good(b, A), Room(b), NEW x \in 1..Len(packets), x \in A,
           b.flag => LastOut(b) < x
    PROVE  \/ x \in AsSet(b.list)
           \/ \E g \in gone : g \in 1..Len(packets) /\ x - g < Longest /\ g - x < Longest
<1>1. Len(packets) \in Nat /\ BoxInv(b) /\ Kept(b, A)
  BY DEF Stream, Good
<1>2. PICK a, e \in 1..Len(packets) : Spans(a, e) /\ a <= x /\ x <= e
  BY InFrame
<1>3. Longest \in Nat /\ e - a + 1 <= Longest
  BY <1>2, LongestIs
<1>4. CASE a..e \cap gone # {}
  <2>1. PICK g \in a..e : g \in gone
    BY <1>4
  <2>2. g \in 1..Len(packets) /\ x - g < Longest /\ g - x < Longest
    BY <2>1, <1>1, <1>2, <1>3
  <2>3. QED
    BY <2>1, <2>2
<1>5. CASE a..e \cap gone = {}
  <2>1. ASSUME b.flag
        PROVE  LastOut(b) < a /\ \A i \in 1..Len(b.out) : b.out[i][1] < a
    <3>1. Len(b.out) \in 1..Len(b.out)
      BY <2>1, <1>1 DEF BoxInv, Boxes
    <3>2. /\ LastOut(b) \in Nat \ {0}
          /\ \A i \in 1..Len(b.out) : b.out[i][1] \in Nat \ {0} /\ b.out[i][1] <= LastOut(b)
      BY <3>1, <1>1, OutUpto
    <3>3. PICK c \in 1..Len(packets) : Spans(c, LastOut(b))
      BY <3>1, <1>1, OutUpto
    <3>4. c <= LastOut(b)
      BY <3>2, <3>3 DEF Spans
    <3>5. \/ a = c /\ e = LastOut(b)
          \/ a < c /\ e < c
          \/ c < a /\ LastOut(b) < a
      BY <1>2, <3>3, Apart
    <3>6. LastOut(b) < a
      BY <3>2, <3>4, <3>5, <1>1, <1>2, <2>1
    <3>7. QED
      BY <3>2, <3>6, <1>2
  <2>2. b.flag => b.out[1][1] < a
    <3>1. b.flag => 1 \in 1..Len(b.out)
      BY <1>1 DEF BoxInv, Boxes
    <3>2. QED
      BY <2>1, <3>1
  <2>3. \/ \E i \in 1..Len(b.out) : b.out[i][1] = a
        \/ a..e \cap A \subseteq AsSet(b.list)
    BY <1>1, <1>2, <1>5, <2>2 DEF Kept
  <2>4. ASSUME NEW i \in 1..Len(b.out), b.out[i][1] = a
        PROVE  FALSE
    <3>1. b.flag
      BY <1>1 DEF BoxInv, Boxes
    <3>2. b.out[i][1] < a /\ a \in Int
      BY <2>1, <3>1, <1>2
    <3>3. QED
      BY <2>4, <3>2
  <2>5. x \in a..e
    BY <1>1, <1>2
  <2>6. QED
    BY <2>3, <2>4, <2>5
<1>6. QED
  BY <1>4, <1>5

\* A list has no more packets than its length.
LEMMA ListSize ==
    ASSUME NEW m \in Nat, NEW L \in Seq(1..m)
    PROVE  IsFiniteSet(AsSet(L)) /\ Cardinality(AsSet(L)) <= Len(L)
<1> DEFINE n == Len(L)
           f == [i \in 1..n |-> L[i]]
<1>1. n \in Nat /\ IsFiniteSet(1..n) /\ Cardinality(1..n) = n
  <2> n \in Nat
    OBVIOUS
  <2> HIDE DEF n
  <2>1. QED
    BY FS_Interval
<1>2. f \in Surjection(1..n, AsSet(L))
  BY DEF Surjection, AsSet
<1> HIDE DEF n, f
<1>3. IsFiniteSet(AsSet(L)) /\ Cardinality(AsSet(L)) <= n
  BY <1>1, <1>2, FS_Surjection
<1>4. QED
  BY <1>3 DEF n

\* The bounds of a timely stream.
LEMMA TimelyBounds ==
    ASSUME Stream, Timely, NEW p \in 1..Len(packets)
    PROVE  /\ Len(packets) \in Nat /\ Window \in Nat /\ Displace \in Nat /\ MaxSize \in Nat
           /\ Longest \in Nat \ {0} /\ Displace < Window
           /\ IsFiniteSet(Losses(p)) /\ Losses(p) \in SUBSET Int
<1>1. /\ Len(packets) \in Nat /\ Window \in Nat /\ Displace \in Nat /\ MaxSize \in Nat
      /\ Longest \in Nat \ {0}
  <2>1. PICK a, e \in 1..Len(packets) : Spans(a, e) /\ a <= p /\ p <= e
    BY InFrame
  <2>2. Longest \in Nat /\ e - a + 1 <= Longest
    BY <2>1, LongestIs
  <2>3. QED
    BY <2>1, <2>2, WindowFits, RtpReceiveAssumption DEF Stream
<1> DEFINE G == Losses(p)
<1>2. IsFiniteSet(G) /\ G \in SUBSET Int
  <2>1. p - Window - Longest \in Int /\ p + Longest \in Int
    BY <1>1
  <2> DEFINE I == (p - Window - Longest)..(p + Longest)
  <2>2. IsFiniteSet(I) /\ I \subseteq Int
    BY <2>1, FS_Interval
  <2>3. G = gone \cap I
    BY DEF Losses
  <2> HIDE DEF I, G
  <2>4. IsFiniteSet(gone \cap I)
    BY <2>2, FS_Intersection
  <2>5. QED
    BY <2>2, <2>3, <2>4
<1>3. Cardinality(G) * (2 * Longest - 1) \in Nat
  <2>1. Cardinality(G) \in Nat /\ 2 * Longest - 1 \in Nat
    BY <1>1, <1>2, FS_CardinalityType
  <2> HIDE DEF G
  <2>2. QED
    BY <2>1
<1>4. MaxSize + Displace + Cardinality(G) * (2 * Longest - 1) + 1 < Window
  BY DEF Timely
<1> DEFINE c == Cardinality(G) * (2 * Longest - 1)
<1>5. c \in Nat /\ MaxSize + Displace + c + 1 < Window
  BY <1>3, <1>4
<1> HIDE DEF c
<1>6. Displace < Window
  BY <1>1, <1>5
<1>7. QED
  BY <1>1, <1>2, <1>6

\* In a timely stream there is no gap of a quarter of the numbers before what comes.
LEMMA NoGap ==
    ASSUME Stream, Timely, NEW p \in 1..Len(packets),
           \A q \in 1..Len(packets) : q < p - Displace => q \in arrived \cup gone,
           NEW l \in Nat, NEW B, IsFiniteSet(B), Cardinality(B) <= MaxSize,
           \A x \in 1..Len(packets) :
              l < x /\ x < p /\ x \in arrived =>
                 \/ x \in B
                 \/ \E g \in gone : g \in 1..Len(packets) /\ x - g < Longest /\ g - x < Longest
    PROVE  p - l < Window
<1> DEFINE G == Losses(p)
<1>1. /\ Len(packets) \in Nat /\ Window \in Nat /\ Displace \in Nat /\ MaxSize \in Nat
      /\ Longest \in Nat \ {0}
  BY TimelyBounds
<1>2. IsFiniteSet(G) /\ G \in SUBSET Int
  BY TimelyBounds
<1>3. SUFFICES ASSUME p - l >= Window
               PROVE  FALSE
  BY <1>1
<1>4. ASSUME NEW x \in (p - Window + 1)..(p - 1), ~(x >= p - Displace), x \notin B
      PROVE  \E g \in G : x - g < Longest /\ g - x < Longest
  <2>1. x \in 1..Len(packets) /\ l < x /\ x < p /\ x < p - Displace
    BY <1>1, <1>3, <1>4
  <2>2. PICK g \in gone : g \in 1..Len(packets) /\ x - g < Longest /\ g - x < Longest
    <3>1. CASE x \in gone
      BY <3>1, <2>1, <1>1
    <3>2. CASE x \in arrived
      BY <3>2, <2>1, <1>4
    <3>3. QED
      BY <3>1, <3>2, <2>1
  <2>3. g \in (p - Window - Longest)..(p + Longest)
    BY <2>1, <2>2, <1>1
  <2>4. QED
    BY <2>2, <2>3 DEF Losses
<1>5. MaxSize + Displace + Cardinality(G) * (2 * Longest - 1) + 1 < Window
  BY DEF Timely
<1> HIDE DEF G
<1>6. Window - 1 <= Cardinality(B) + Displace + Cardinality(G) * (2 * Longest - 1)
  <2>1. \A x \in (p - Window + 1)..(p - 1) :
          x \in B \/ x >= p - Displace \/ \E g \in G : x - g < Longest /\ g - x < Longest
    BY <1>4
  <2>2. p \in Nat
    BY <1>1
  <2>3. QED
    BY <1>1, <1>2, <2>1, <2>2, Crowded
<1>7. Cardinality(B) \in Nat /\ Cardinality(G) * (2 * Longest - 1) \in Int
  <2>1. Cardinality(B) \in Nat /\ Cardinality(G) \in Nat
    BY <1>2, FS_CardinalityType
  <2>2. QED
    BY <2>1, <1>1
<1> DEFINE c == Cardinality(G) * (2 * Longest - 1)
<1> HIDE DEF c
<1>8. c \in Int /\ Window - 1 <= Cardinality(B) + Displace + c /\ MaxSize + Displace + c + 1 < Window
  BY <1>5, <1>6, <1>7 DEF c
<1>9. QED
  BY <1>1, <1>7, <1>8

\* What comes in a timely stream is near.
LEMMA TimelyNear ==
    ASSUME IInv, Timely, Exact(box, arrived), box.size <= MaxSize, NEW p \in 1..Len(packets),
           p \notin arrived, p \notin gone,
           \A q \in 1..Len(packets) : q < p - Displace => q \in arrived \cup gone
    PROVE  Near(p)
<1>1. /\ Stream /\ Len(packets) \in Nat /\ arrived \subseteq 1..Len(packets)
      /\ Good(box, arrived) /\ BoxInv(box) /\ Overtaken(arrived)
      /\ AsSet(box.list) \subseteq arrived /\ box.list \in Seq(1..Len(packets))
  BY DEF IInv, Stream, Good, BoxInv, Boxes
<1>2. Window \in Nat /\ Displace \in Nat /\ MaxSize \in Nat
  BY WindowFits, RtpReceiveAssumption
<1>3. Room(box)
  <2>1. box.size = Len(box.list) /\ Len(box.list) \in Nat /\ Longest \in Nat
    BY <1>1, TimelyBounds DEF Exact
  <2>2. Longest - 1 + Displace <= MaxSize
    BY DEF Timely
  <2>3. QED
    BY <2>1, <2>2, <1>2 DEF Room
<1>4. /\ IsFiniteSet(AsSet(box.list)) /\ Cardinality(AsSet(box.list)) <= MaxSize
  <2>1. /\ IsFiniteSet(AsSet(box.list)) /\ Cardinality(AsSet(box.list)) <= Len(box.list)
        /\ Cardinality(AsSet(box.list)) \in Nat
    BY <1>1, ListSize, FS_CardinalityType
  <2>2. Len(box.list) <= MaxSize /\ Len(box.list) \in Nat
    BY <1>1 DEF Exact
  <2>3. QED
    BY <2>1, <2>2, <1>2
<1>5. IsFiniteSet({}) /\ Cardinality({}) <= MaxSize
  BY <1>2, FS_EmptySet
<1>6. box.flag => LastOut(box) \in Nat \ {0} /\ LastOut(box) \in arrived
  <2>1. box.flag => Len(box.out) \in 1..Len(box.out)
    BY <1>1 DEF BoxInv, Boxes
  <2>2. QED
    BY <2>1, <1>1, OutUpto DEF Exact
<1>7. box.flag => p - LastOut(box) < Window
  <2>1. SUFFICES ASSUME box.flag
                 PROVE  p - LastOut(box) < Window
    OBVIOUS
  <2>2. LastOut(box) \in Nat
    BY <2>1, <1>6
  <2>3. ASSUME NEW x \in 1..Len(packets), LastOut(box) < x, x \in arrived
        PROVE  \/ x \in AsSet(box.list)
               \/ \E g \in gone : g \in 1..Len(packets) /\ x - g < Longest /\ g - x < Longest
    BY <2>3, <1>1, <1>3, Waiting
  <2>4. QED
    BY <2>2, <2>3, <1>1, <1>4, NoGap
<1>8. ~box.flag => p - 0 < Window
  <2>1. SUFFICES ASSUME ~box.flag
                 PROVE  p - 0 < Window
    OBVIOUS
  <2>2. ASSUME NEW x \in 1..Len(packets), x \in arrived
        PROVE  \/ x \in AsSet(box.list)
               \/ \E g \in gone : g \in 1..Len(packets) /\ x - g < Longest /\ g - x < Longest
    BY <2>1, <2>2, <1>1, <1>3, Waiting
  <2>3. 0 \in Nat
    OBVIOUS
  <2>4. QED
    BY <2>2, <2>3, <1>1, <1>4, NoGap
<1>9. ASSUME NEW q \in arrived
      PROVE  q - p < Window /\ q \in 1..Len(packets)
  <2>1. q \in 1..Len(packets)
    BY <1>1
  <2>2. q - p <= Displace
    BY <2>1, <1>1, <1>2 DEF Overtaken
  <2>3. Displace < Window
    BY <1>1, TimelyBounds
  <2>4. QED
    BY <2>1, <2>2, <2>3, <1>1, <1>2
<1>10. Together(AsSet(box.list) \cup {p})
  <2>1. ASSUME NEW q \in AsSet(box.list)
        PROVE  p - q < Window /\ q - p < Window
    <3>1. q \in arrived /\ q \in 1..Len(packets)
      BY <1>1
    <3>2. CASE box.flag
      <4>1. LastOut(box) < q
        BY <3>2, <1>1 DEF BoxInv
      <4>2. QED
        BY <4>1, <3>1, <3>2, <1>1, <1>2, <1>6, <1>7, <1>9
    <3>3. CASE ~box.flag
      BY <3>1, <3>3, <1>1, <1>2, <1>8, <1>9
    <3>4. QED
      BY <3>2, <3>3
  <2>2. Together(AsSet(box.list))
    BY <1>1 DEF BoxInv
  <2>3. p - p < Window
    BY <1>1, <1>2, TimelyBounds
  <2>4. QED
    BY <2>1, <2>2, <2>3 DEF Together
<1>11. NearTop(arrived, p)
  <2>1. SUFFICES ASSUME NEW q \in arrived, \A x \in arrived : x <= q
                 PROVE  p - q < Window /\ q - p < Window
    BY DEF NearTop
  <2>2. q \in Nat
    BY <1>1
  <2>3. ASSUME NEW x \in 1..Len(packets), q < x, x \in arrived
        PROVE  FALSE
    BY <2>1, <2>2, <2>3, <1>1
  <2>4. p - q < Window
    BY <2>2, <2>3, <1>1, <1>5, NoGap
  <2>5. QED
    BY <2>4, <1>9
<1>12. box.flag => LastOut(box) - p < Window
  BY <1>6, <1>9
<1>13. QED
  BY <1>7, <1>10, <1>11, <1>12 DEF Near, NearBox

\* the invariant of timely streams
TInv == IInv /\ Timely /\ twice = 0 /\ Exact(box, arrived) /\ box.size <= MaxSize

\* As long as a stream is timely, however long, whatever is lost and late: all three hold.
THEOREM TimelyStreamsSafe ==
    RtpSpec /\ Timely => [](FramesInOrder /\ NoFrameGivenUp /\ ReportIsRight)
<1>1. RtpInit /\ Timely => TInv
  <2> SUFFICES ASSUME RtpInit, Timely
               PROVE  TInv
    OBVIOUS
  <2>1. IInv
    BY InitIInv
  <2>2. Exact(box, arrived) /\ box.size <= MaxSize
    BY RtpReceiveAssumption DEF RtpInit, Exact
  <2>3. QED
    BY <2>1, <2>2 DEF TInv, RtpInit
<1>2. TInv /\ [RtpNext]_rtpVars => TInv'
  <2> SUFFICES ASSUME TInv, [RtpNext]_rtpVars
               PROVE  TInv'
    OBVIOUS
  <2>1. Timely'
    <3>1. codec' = codec /\ packets' = packets /\ gone' = gone
      BY DEF RtpNext, Arrives, rtpVars
    <3>2. Longest' = Longest
      BY <3>1 DEF Longest, Frames, FrameAt
    <3>3. QED
      BY <3>1, <3>2 DEF TInv, Timely, Losses, Window
  <2>2. CASE UNCHANGED rtpVars
    <3>1. IInv'
      BY <2>2, StaysIInv DEF TInv
    <3>2. twice' = twice /\ box' = box /\ arrived' = arrived
      BY <2>2 DEF rtpVars
    <3>3. QED
      BY <2>1, <3>1, <3>2 DEF TInv, Exact, LastOut
  <2>3. CASE RtpNext
    <3>1. PICK p \in DOMAIN packets \ gone : Arrives(p)
      BY <2>3 DEF RtpNext
    <3>2. IInv /\ Stream /\ DOMAIN packets = 1..Len(packets) /\ p \in 1..Len(packets)
      BY DEF TInv, IInv, Stream
    <3>3. p \notin arrived
      BY <3>1 DEF Arrives, TInv, Timely
    <3>4. /\ twice' = twice /\ box' = Feed(box, p) /\ arrived' = arrived \cup {p}
          /\ \A q \in 1..Len(packets) : q < p - Displace => q \in arrived \cup gone
      BY <3>1, <3>2, <3>3 DEF Arrives
    <3>5. Near(p)
      BY <3>2, <3>3, <3>4, TimelyNear DEF TInv
    <3>6. IInv'
      BY <3>1, <3>2, <3>5, ArrivesIInv
    <3>7. Exact(Feed(box, p), arrived \cup {p}) /\ Feed(box, p).size <= MaxSize
      <4>1. Good(box, arrived) /\ NearBox(box, p) /\ codec # "aac"
        BY <3>2, <3>5 DEF IInv, Near, TInv, Timely
      <4>2. Overtaken(arrived \cup {p})
        BY <3>2, <3>4 DEF IInv, Overtaken
      <4>3. QED
        BY <4>1, <4>2, <3>2, <3>3, FeedExact DEF TInv
    <3>8. QED
      BY <2>1, <3>4, <3>6, <3>7 DEF TInv, Exact, LastOut
  <2>4. QED
    BY <2>2, <2>3
<1>3. TInv => FramesInOrder /\ NoFrameGivenUp /\ ReportIsRight
  <2> SUFFICES ASSUME TInv
               PROVE  FramesInOrder /\ NoFrameGivenUp /\ ReportIsRight
    OBVIOUS
  <2>1. Len(packets) \in Nat /\ arrived \subseteq 1..Len(packets) /\ IInv
    BY DEF TInv, IInv, Stream
  <2>2. ReportIsRight
    BY <2>1, CountedIsRight DEF IInv
  <2>3. QED
    BY <2>1, <2>2, IInvInOrder, IInvNoneGivenUp
<1>4. QED
  BY <1>1, <1>2, <1>3, PTL DEF RtpSpec

=============================================================================
