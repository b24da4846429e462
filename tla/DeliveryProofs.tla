--------------------------- MODULE DeliveryProofs ---------------------------
(***************************************************************************)
(* What the peers of a session receive, for every value of the constants:  *)
(* no part of a request is forwarded twice or out of order, and no part of *)
(* a response is delivered twice or out of order.                          *)
(*                                                                         *)
(* The invariant follows the units through the session: which request the  *)
(* client is on, what of it the message, the buffer and the wire of the    *)
(* server hold, which part of its response has come, and that what the     *)
(* client has received comes before what is buffered for it.  W and L      *)
(* stand for wire and last; handlers change neither.                       *)
(***************************************************************************)
EXTENDS AssertionProofs

USE SizesAssumption DEF Conns, Servers, Client

-----------------------------------------------------------------------------
(* Units, and the buffers they are in.                                      *)
UnitsIn(s) == {s[i] : i \in 1..Len(s)}
Buffered(out) == UNION {UnitsIn(out[i]) : i \in 1..Len(out)}

Precede(U, V) == \A u \in U, v \in V : Before(u, v)
Older(U, r) == \A u \in U : u[1] < r

\* Buffers that are not empty, and whose units are in order.
Ascending(out) ==
  /\ \A i \in 1..Len(out) : out[i] # << >> /\ Increasing(out[i])
  /\ \A i, j \in 1..Len(out) : i < j => Precede(UnitsIn(out[i]), UnitsIn(out[j]))

\* s is the n units after unit i of message r.
Spans(s, r, i, n) ==
  /\ s \in Seq(Unit) /\ Len(s) = n
  /\ \A j \in 1..n : s[j] = <<r, i + j>>

LEMMA UnitsSpan ==
  ASSUME NEW r \in Nat, NEW i \in Nat, NEW n \in Nat
  PROVE  Spans(Units(r, i, n), r, i, n)
<1> DEFINE s == Units(r, i, n)
<1>1. s \in Seq(Unit)
  BY UnitsType
<1>2. DOMAIN s = 1..n /\ \A j \in 1..n : s[j] = <<r, i + j>>
  BY DEF Units
<1> HIDE DEF s
<1>3. Len(s) = n
  BY <1>1, <1>2, LenProperties
<1>4. Spans(s, r, i, n)
  BY <1>1, <1>2, <1>3 DEF Spans
<1> QED
  BY <1>4 DEF s

LEMMA SpansEqual ==
  ASSUME NEW r \in Nat, NEW i \in Nat, NEW n \in Nat, NEW s, Spans(s, r, i, n)
  PROVE  s = Units(r, i, n)
<1> DEFINE t == Units(r, i, n)
<1>1. Spans(t, r, i, n)
  BY UnitsSpan
<1> HIDE DEF t
<1>2. /\ s \in Seq(Unit) /\ t \in Seq(Unit) /\ Len(s) = Len(t) /\ Len(s) = n
      /\ \A j \in 1..n : s[j] = t[j]
  BY <1>1 DEF Spans
<1>3. s = t
  BY <1>2, SeqEqual
<1> QED
  BY <1>3 DEF t

LEMMA UnitsEmpty ==
  ASSUME NEW r \in Nat, NEW i \in Nat, NEW n \in Nat
  PROVE  Units(r, i, n) = << >> <=> n = 0
<1> DEFINE s == Units(r, i, n)
<1>1. Spans(s, r, i, n)
  BY UnitsSpan
<1> HIDE DEF s
<1>2. s \in Seq(Unit) /\ Len(s) = n
  BY <1>1 DEF Spans
<1>3. s = << >> <=> n = 0
  BY <1>2, EmptySeq
<1> QED
  BY <1>3 DEF s

LEMMA UnitsJoin ==
  ASSUME NEW r \in Nat, NEW k \in Nat, NEW n \in Nat
  PROVE  Units(r, 0, k) \o Units(r, k, n) = Units(r, 0, k + n)
<1> DEFINE s == Units(r, 0, k)
           t == Units(r, k, n)
           x == s \o t
<1>0. k + n \in Nat
  OBVIOUS
<1>1. Spans(s, r, 0, k) /\ Spans(t, r, k, n)
  BY UnitsSpan
<1> HIDE DEF s, t
<1>2. /\ s \in Seq(Unit) /\ Len(s) = k /\ \A j \in 1..k : s[j] = <<r, 0 + j>>
      /\ t \in Seq(Unit) /\ Len(t) = n /\ \A j \in 1..n : t[j] = <<r, k + j>>
  BY <1>1 DEF Spans
<1>3. /\ x \in Seq(Unit) /\ Len(x) = k + n
      /\ \A j \in 1..(k + n) : x[j] = IF j <= k THEN s[j] ELSE t[j - k]
  BY <1>2, ConcatProperties
<1> HIDE DEF x
<1>4. ASSUME NEW j \in 1..(k + n) PROVE x[j] = <<r, 0 + j>>
  <2>1. CASE j <= k
    BY <1>2, <1>3, <2>1
  <2>2. CASE j > k
    <3>1. j - k \in 1..n /\ k + (j - k) = 0 + j /\ ~(j <= k)
      BY <2>2
    <3> QED
      BY <1>2, <1>3, <3>1
  <2> QED
    BY <2>1, <2>2
<1>5. Spans(x, r, 0, k + n)
  BY <1>3, <1>4 DEF Spans
<1>6. x = Units(r, 0, k + n)
  BY <1>0, <1>5, SpansEqual
<1> QED
  BY <1>6 DEF x, s, t

\* A part of a sequence of units.
LEMMA UnitsPart ==
  ASSUME NEW r \in Nat, NEW i \in Nat, NEW n \in Nat, NEW k \in Nat, NEW l \in Nat,
         k <= l, l <= n
  PROVE  SubSeq(Units(r, i, n), k + 1, l) = Units(r, i + k, l - k)
<1> DEFINE s == Units(r, i, n)
           x == SubSeq(s, k + 1, l)
<1>1. l - k \in Nat /\ i + k \in Nat /\ k + 1 \in Int /\ l \in Int
  OBVIOUS
<1>2. Spans(s, r, i, n)
  BY UnitsSpan
<1> HIDE DEF s
<1>3. s \in Seq(Unit) /\ Len(s) = n /\ \A j \in 1..n : s[j] = <<r, i + j>>
  BY <1>2 DEF Spans
<1>4. \A j \in k + 1 .. l : s[j] \in Unit
  BY <1>3, ElementOfSeq
<1>5. /\ x \in Seq(Unit) /\ Len(x) = IF k + 1 <= l THEN l - (k + 1) + 1 ELSE 0
      /\ \A j \in 1..(l - (k + 1) + 1) : x[j] = s[(k + 1) + j - 1]
  BY <1>1, <1>4, SubSeqProperties
<1> HIDE DEF x
<1>6. Len(x) = l - k
  BY <1>5
<1>7. ASSUME NEW j \in 1..(l - k) PROVE x[j] = <<r, (i + k) + j>>
  <2>1. /\ j \in 1..(l - (k + 1) + 1) /\ (k + 1) + j - 1 = k + j
        /\ k + j \in 1..n /\ i + (k + j) = (i + k) + j
    OBVIOUS
  <2> QED
    BY <1>3, <1>5, <2>1
<1>8. Spans(x, r, i + k, l - k)
  BY <1>5, <1>6, <1>7 DEF Spans
<1>9. x = Units(r, i + k, l - k)
  BY <1>1, <1>8, SpansEqual
<1> QED
  BY <1>9 DEF x, s

\* Units are in order.
LEMMA UnitsIncrease ==
  ASSUME NEW r \in Nat, NEW i \in Nat, NEW n \in Nat
  PROVE  /\ Increasing(Units(r, i, n))
         /\ \A u \in UnitsIn(Units(r, i, n)) : u[1] = r /\ u[2] \in i + 1 .. i + n
<1> DEFINE s == Units(r, i, n)
<1>1. Spans(s, r, i, n)
  BY UnitsSpan
<1> HIDE DEF s
<1>2. Len(s) = n /\ \A j \in 1..n : s[j] = <<r, i + j>> /\ s[j][1] = r /\ s[j][2] = i + j
  BY <1>1 DEF Spans
<1>3. \A j \in 1..n : j \in Nat /\ i + j \in i + 1 .. i + n
  OBVIOUS
<1>4. \A j, k \in 1..n : j < k => i + j < i + k
  OBVIOUS
<1>5. Increasing(s)
  BY <1>2, <1>4 DEF Increasing, Before
<1>6. \A u \in UnitsIn(s) : u[1] = r /\ u[2] \in i + 1 .. i + n
  BY <1>2, <1>3 DEF UnitsIn
<1> QED
  BY <1>5, <1>6 DEF s

-----------------------------------------------------------------------------
(* Sequences of units and of buffers.                                       *)
LEMMA InConcat ==
  ASSUME NEW s \in Seq(Unit), NEW t \in Seq(Unit)
  PROVE  UnitsIn(s \o t) = UnitsIn(s) \cup UnitsIn(t)
<1> DEFINE x == s \o t
           a == Len(s)
           b == Len(t)
<1>1. /\ a \in Nat /\ b \in Nat /\ Len(x) = a + b
      /\ \A i \in 1..(a + b) : x[i] = IF i <= a THEN s[i] ELSE t[i - a]
  BY ConcatProperties, LenProperties
<1> HIDE DEF x
<1>2. \A i \in 1..a : i \in 1..(a + b) /\ i <= a
  BY <1>1
<1>3. \A i \in 1..b : i + a \in 1..(a + b) /\ ~(i + a <= a) /\ (i + a) - a = i
  BY <1>1
<1>4. \A i \in 1..(a + b) : i <= a => i \in 1..a
  BY <1>1
<1>5. \A i \in 1..(a + b) : ~(i <= a) => i - a \in 1..b
  BY <1>1
<1>6. UnitsIn(s) \subseteq UnitsIn(x)
  BY <1>1, <1>2 DEF UnitsIn, a
<1>7. ASSUME NEW u \in UnitsIn(t) PROVE u \in UnitsIn(x)
  <2>1. PICK i \in 1..b : u = t[i]
    BY DEF UnitsIn, b
  <2> HIDE DEF a, b
  <2>2. u = x[i + a]
    BY <1>1, <1>3, <2>1
  <2> QED
    BY <1>1, <1>3, <2>2 DEF UnitsIn
<1>8. UnitsIn(x) \subseteq UnitsIn(s) \cup UnitsIn(t)
  BY <1>1, <1>4, <1>5 DEF UnitsIn, a, b
<1> QED
  BY <1>6, <1>7, <1>8 DEF x

LEMMA UnitsInType ==
  ASSUME NEW s \in Seq(Unit)
  PROVE  \A u \in UnitsIn(s) : u \in Unit /\ u[1] \in Nat /\ u[2] \in Nat
<1>1. \A i \in 1..Len(s) : s[i] \in Unit
  BY ElementOfSeq
<1> QED
  BY <1>1 DEF UnitsIn, Unit

LEMMA IncreasingConcat ==
  ASSUME NEW s \in Seq(Unit), NEW t \in Seq(Unit), Increasing(s), Increasing(t),
         Precede(UnitsIn(s), UnitsIn(t))
  PROVE  Increasing(s \o t)
<1> DEFINE x == s \o t
           a == Len(s)
           b == Len(t)
<1>1. /\ a \in Nat /\ b \in Nat /\ Len(x) = a + b
      /\ \A i \in 1..(a + b) : x[i] = IF i <= a THEN s[i] ELSE t[i - a]
  BY ConcatProperties, LenProperties
<1>2. \A i, j \in 1..a : i < j => Before(s[i], s[j])
  BY DEF Increasing
<1>3. \A i, j \in 1..b : i < j => Before(t[i], t[j])
  BY DEF Increasing
<1>4. \A i \in 1..a, j \in 1..b : Before(s[i], t[j])
  BY DEF Precede, UnitsIn
<1> HIDE DEF x, a, b
<1>5. ASSUME NEW i \in 1..(a + b), NEW j \in 1..(a + b), i < j
      PROVE  Before(x[i], x[j])
  <2>1. CASE j <= a
    <3>1. i \in 1..a /\ j \in 1..a /\ i <= a
      BY <1>1, <1>5, <2>1
    <3> QED
      BY <1>1, <1>2, <1>5, <2>1, <3>1
  <2>2. CASE i <= a /\ ~(j <= a)
    <3>1. i \in 1..a /\ j - a \in 1..b
      BY <1>1, <2>2
    <3> QED
      BY <1>1, <1>4, <2>2, <3>1
  <2>3. CASE ~(i <= a)
    <3>1. i - a \in 1..b /\ j - a \in 1..b /\ i - a < j - a /\ ~(j <= a)
      BY <1>1, <1>5, <2>3
    <3> QED
      BY <1>1, <1>3, <2>3, <3>1
  <2> QED
    BY <1>1, <1>5, <2>1, <2>2, <2>3
<1>6. Increasing(x)
  BY <1>1, <1>5 DEF Increasing
<1> QED
  BY <1>6 DEF x

\* A part of a sequence.
PartOf(x, s, k, n) ==
  /\ x \in Seq(Unit) /\ UnitsIn(x) \subseteq UnitsIn(s)
  /\ Len(x) = IF k <= n THEN n - k ELSE 0
  /\ \A i \in 1..Len(x) : k + i \in 1..n /\ x[i] = s[k + i]
  /\ Increasing(s) => Increasing(x)

LEMMA SubSeqPart ==
  ASSUME NEW s \in Seq(Unit), NEW k \in Nat, NEW n \in Nat, n <= Len(s)
  PROVE  PartOf(SubSeq(s, k + 1, n), s, k, n)
<1> DEFINE x == SubSeq(s, k + 1, n)
<1>0. Len(s) \in Nat /\ k + 1 \in Int /\ n \in Int
  BY LenProperties
<1>1. \A i \in k + 1 .. n : s[i] \in Unit
  BY <1>0, ElementOfSeq
<1>2. /\ x \in Seq(Unit) /\ Len(x) = IF k + 1 <= n THEN n - (k + 1) + 1 ELSE 0
      /\ \A i \in 1..(n - (k + 1) + 1) : x[i] = s[(k + 1) + i - 1]
  BY <1>0, <1>1, SubSeqProperties
<1> HIDE DEF x
<1>3. Len(x) = IF k <= n THEN n - k ELSE 0
  BY <1>0, <1>2
<1>4. ASSUME NEW i \in 1..Len(x) PROVE k + i \in 1..n /\ x[i] = s[k + i]
  <2>1. i \in 1..(n - (k + 1) + 1) /\ (k + 1) + i - 1 = k + i /\ k + i \in 1..n
    BY <1>3
  <2> QED
    BY <1>2, <2>1
<1>5. \A i \in 1..n : i \in 1..Len(s)
  BY <1>0
<1>6. UnitsIn(x) \subseteq UnitsIn(s)
  BY <1>4, <1>5 DEF UnitsIn
<1>7. \A i, j \in 1..Len(x) : i < j => k + i < k + j
  BY <1>3
<1>8. Increasing(s) => Increasing(x)
  BY <1>4, <1>5, <1>7 DEF Increasing
<1>9. PartOf(x, s, k, n)
  BY <1>2, <1>3, <1>4, <1>6, <1>8 DEF PartOf
<1> QED
  BY <1>9 DEF x

\* Units are not before themselves.
LEMMA BeforeIrreflexive ==
  ASSUME NEW s \in Seq(Unit), s # << >>, NEW V, UnitsIn(s) \subseteq V
  PROVE  ~Precede(UnitsIn(s), V)
<1>1. Len(s) \in Nat /\ Len(s) # 0
  BY LenProperties, EmptySeq
<1>2. 1 \in 1..Len(s) /\ s[1] \in Unit
  BY <1>1, ElementOfSeq
<1>3. s[1] \in UnitsIn(s)
  BY <1>2 DEF UnitsIn
<1>4. ~Before(s[1], s[1])
  BY <1>2 DEF Before, Unit
<1> QED
  BY <1>3, <1>4 DEF Precede

LEMMA BufferedAppend ==
  ASSUME NEW o \in Seq(Seq(Unit)), NEW b \in Seq(Unit)
  PROVE  /\ Buffered(Append(o, b)) = Buffered(o) \cup UnitsIn(b)
         /\ Ascending(o) /\ b # << >> /\ Increasing(b) /\ Precede(Buffered(o), UnitsIn(b))
              => Ascending(Append(o, b))
<1> DEFINE x == Append(o, b)
           n == Len(o)
<1>1. /\ n \in Nat /\ Len(x) = n + 1 /\ x[n + 1] = b
      /\ \A i \in 1..n : x[i] = o[i]
  BY AppendProperties, LenProperties
<1> HIDE DEF x
<1>2. 1..(n + 1) = 1..n \cup {n + 1}
  BY <1>1
<1>3. Buffered(x) = Buffered(o) \cup UnitsIn(b)
  BY <1>1, <1>2 DEF Buffered
<1>4. ASSUME Ascending(o), b # << >>, Increasing(b), Precede(Buffered(o), UnitsIn(b))
      PROVE  Ascending(x)
  <2>1. \A i \in 1..(n + 1) : x[i] # << >> /\ Increasing(x[i])
    BY <1>1, <1>2, <1>4 DEF Ascending
  <2>2. ASSUME NEW i \in 1..(n + 1), NEW j \in 1..(n + 1), i < j
        PROVE  Precede(UnitsIn(x[i]), UnitsIn(x[j]))
    <3>1. i \in 1..n
      BY <1>1, <2>2
    <3>2. CASE j \in 1..n
      BY <1>1, <1>4, <2>2, <3>1, <3>2 DEF Ascending
    <3>3. CASE j = n + 1
      BY <1>1, <1>4, <3>1, <3>3 DEF Precede, Buffered
    <3> QED
      BY <1>2, <3>2, <3>3
  <2> QED
    BY <1>1, <2>1, <2>2 DEF Ascending
<1> QED
  BY <1>3, <1>4 DEF x

\* The buffers after the first.
LEMMA TailAscending ==
  ASSUME NEW o \in Seq(Seq(Unit)), o # << >>, Ascending(o)
  PROVE  /\ Head(o) \in Seq(Unit) /\ Head(o) # << >> /\ Increasing(Head(o))
         /\ UnitsIn(Head(o)) \subseteq Buffered(o)
         /\ Buffered(Tail(o)) \subseteq Buffered(o)
         /\ Ascending(Tail(o)) /\ Precede(UnitsIn(Head(o)), Buffered(Tail(o)))
<1> DEFINE t == Tail(o)
           n == Len(o)
<1>1. /\ n \in Nat /\ n # 0 /\ Len(t) = n - 1 /\ Head(o) = o[1] /\ Head(o) \in Seq(Unit)
      /\ \A i \in 1..(n - 1) : t[i] = o[i + 1]
  BY LenProperties, HeadTailProperties, EmptySeq
<1> HIDE DEF t
<1>2. 1 \in 1..n /\ \A i \in 1..(n - 1) : i + 1 \in 1..n /\ 1 < i + 1
  BY <1>1
<1>3. \A i, j \in 1..(n - 1) : i < j => i + 1 < j + 1
  BY <1>1
<1>4. Head(o) # << >> /\ Increasing(Head(o)) /\ UnitsIn(Head(o)) \subseteq Buffered(o)
  BY <1>1, <1>2 DEF Ascending, Buffered
<1>5. Buffered(t) \subseteq Buffered(o)
  BY <1>1, <1>2 DEF Buffered
<1>6. \A i \in 1..(n - 1) : t[i] # << >> /\ Increasing(t[i]) /\ Precede(UnitsIn(o[1]), UnitsIn(t[i]))
  BY <1>1, <1>2 DEF Ascending
<1>7. \A i, j \in 1..(n - 1) : i < j => Precede(UnitsIn(t[i]), UnitsIn(t[j]))
  BY <1>1, <1>2, <1>3 DEF Ascending
<1>8. Ascending(t)
  BY <1>1, <1>6, <1>7 DEF Ascending
<1>9. Precede(UnitsIn(o[1]), Buffered(t))
  <2>1. ASSUME NEW u \in UnitsIn(o[1]), NEW v \in Buffered(t) PROVE Before(u, v)
    <3>1. PICK i \in 1..(n - 1) : v \in UnitsIn(t[i])
      BY <1>1 DEF Buffered
    <3>2. Precede(UnitsIn(o[1]), UnitsIn(t[i]))
      BY <1>6
    <3> QED
      BY ONLY <2>1, <3>1, <3>2 DEF Precede
  <2> QED
    BY ONLY <2>1 DEF Precede
<1> QED
  BY <1>1, <1>4, <1>5, <1>8, <1>9 DEF t

\* A buffer in front of others.
LEMMA ConsAscending ==
  ASSUME NEW b \in Seq(Unit), NEW t \in Seq(Seq(Unit))
  PROVE  /\ Buffered(<< b >> \o t) = UnitsIn(b) \cup Buffered(t)
         /\ b # << >> /\ Increasing(b) /\ Ascending(t) /\ Precede(UnitsIn(b), Buffered(t))
              => Ascending(<< b >> \o t)
<1> DEFINE h == << b >>
           x == h \o t
           n == Len(t)
<1>0. h \in Seq(Seq(Unit)) /\ Len(h) = 1 /\ h[1] = b
  OBVIOUS
<1> HIDE DEF h
<1>a. h \in Seq(Seq(Unit))
  BY <1>0
<1>b. /\ Len(x) = Len(h) + Len(t)
      /\ \A i \in 1..(Len(h) + Len(t)) : x[i] = IF i <= Len(h) THEN h[i] ELSE t[i - Len(h)]
  BY <1>a, ConcatProperties
<1>1. /\ n \in Nat /\ Len(x) = 1 + n
      /\ \A i \in 1..(1 + n) : x[i] = IF i <= 1 THEN h[i] ELSE t[i - 1]
  BY <1>0, <1>b, LenProperties
<1> HIDE DEF x
<1>2. 1..(1 + n) = {1} \cup {i + 1 : i \in 1..n} /\ 1 \in 1..(1 + n)
  BY <1>1
<1>3. x[1] = b /\ \A i \in 1..n : i + 1 \in 1..(1 + n) /\ x[i + 1] = t[i]
  <2>1. \A i \in 1..n : i + 1 \in 1..(1 + n) /\ ~(i + 1 <= 1) /\ (i + 1) - 1 = i
    BY <1>1
  <2> QED
    BY <1>0, <1>1, <1>2, <2>1
<1>4. Buffered(x) = UnitsIn(b) \cup Buffered(t)
  <2>1. ASSUME NEW u \in Buffered(x) PROVE u \in UnitsIn(b) \cup Buffered(t)
    <3>1. PICK i \in 1..(1 + n) : u \in UnitsIn(x[i])
      BY <1>1 DEF Buffered
    <3>2. CASE i = 1
      BY <1>3, <3>1, <3>2
    <3>3. CASE i # 1
      <4>1. PICK k \in 1..n : i = k + 1
        BY <1>2, <3>3
      <4> QED
        BY <1>3, <3>1, <4>1 DEF Buffered
    <3> QED
      BY <3>2, <3>3
  <2>2. UnitsIn(b) \subseteq Buffered(x)
    BY <1>1, <1>2, <1>3 DEF Buffered
  <2>3. ASSUME NEW u \in Buffered(t) PROVE u \in Buffered(x)
    <3>1. PICK i \in 1..n : u \in UnitsIn(t[i])
      BY DEF Buffered
    <3>2. u \in UnitsIn(x[i + 1]) /\ i + 1 \in 1..Len(x)
      BY <1>1, <1>3, <3>1
    <3> QED
      BY <3>2 DEF Buffered
  <2> QED
    BY <2>1, <2>2, <2>3
<1>5. ASSUME b # << >>, Increasing(b), Ascending(t), Precede(UnitsIn(b), Buffered(t))
      PROVE  Ascending(x)
  <2>0. \A i \in 1..n : t[i] # << >> /\ Increasing(t[i])
    BY <1>5 DEF Ascending
  <2>1. ASSUME NEW i \in 1..(1 + n) PROVE x[i] # << >> /\ Increasing(x[i])
    <3>1. CASE i = 1
      BY <1>3, <1>5, <3>1
    <3>2. CASE i # 1
      <4>1. PICK k \in 1..n : i = k + 1
        BY <1>2, <3>2
      <4> QED
        BY <1>3, <2>0, <4>1
    <3> QED
      BY <3>1, <3>2
  <2>2. ASSUME NEW i \in 1..(1 + n), NEW j \in 1..(1 + n), i < j
        PROVE  Precede(UnitsIn(x[i]), UnitsIn(x[j]))
    <3>1. PICK k \in 1..n : j = k + 1
      BY <1>1, <1>2, <2>2
    <3>2. CASE i = 1
      BY <1>3, <1>5, <3>1, <3>2 DEF Precede, Buffered
    <3>3. CASE i # 1
      <4>1. PICK l \in 1..n : i = l + 1
        BY <1>2, <3>3
      <4>2. l < k
        BY <1>1, <2>2, <3>1, <4>1
      <4> QED
        BY <1>3, <1>5, <3>1, <4>1, <4>2 DEF Ascending
    <3> QED
      BY <3>2, <3>3
  <2> QED
    BY <1>1, <2>1, <2>2 DEF Ascending
<1> QED
  BY <1>4, <1>5 DEF x, h

\* What a write leaves to be sent, and what it sent.
LEMMA UnsentAscending ==
  ASSUME NEW o \in Seq(Seq(Unit)), o # << >>, Ascending(o), NEW n \in Nat
  PROVE  /\ Ascending(unsent(o, n)) /\ Buffered(unsent(o, n)) \subseteq Buffered(o)
         /\ \A d : d = SubSeq(Head(o), 1, n) /\ n <= Len(Head(o)) =>
              /\ d \in Seq(Unit) /\ Increasing(d) /\ UnitsIn(d) \subseteq Buffered(o)
              /\ Precede(UnitsIn(d), Buffered(unsent(o, n)))
<1> DEFINE b == Head(o)
           t == Tail(o)
           l == Len(b)
           x == SubSeq(b, n + 1, l)
<1>1. /\ b \in Seq(Unit) /\ b # << >> /\ Increasing(b) /\ UnitsIn(b) \subseteq Buffered(o)
      /\ Buffered(t) \subseteq Buffered(o) /\ Ascending(t) /\ Precede(UnitsIn(b), Buffered(t))
  BY TailAscending
<1>2. t \in Seq(Seq(Unit)) /\ l \in Nat
  BY <1>1, HeadTailProperties, LenProperties
<1>3. unsent(o, n) = IF n < l THEN << x >> \o t ELSE t
  BY DEF unsent
<1>u. x = SubSeq(b, n + 1, l) /\ l = Len(b)
  OBVIOUS
<1> HIDE DEF b, t, l, x
<1>4. /\ x \in Seq(Unit) /\ UnitsIn(x) \subseteq UnitsIn(b) /\ Increasing(x)
      /\ Len(x) = IF n <= l THEN l - n ELSE 0
      /\ \A i \in 1..Len(x) : n + i \in 1..l /\ x[i] = b[n + i]
  <2>1. l <= Len(b)
    BY <1>2, <1>u
  <2>2. PartOf(x, b, n, l)
    BY <1>1, <1>2, <1>u, <2>1, SubSeqPart
  <2> QED
    BY <1>1, <2>2 DEF PartOf
<1>5. Precede(UnitsIn(x), Buffered(t))
  BY <1>1, <1>4 DEF Precede
<1>6. n < l => x # << >>
  <2>1. n < l => Len(x) # 0
    BY <1>2, <1>4
  <2> QED
    BY <2>1, <1>4, EmptySeq
<1>7. /\ Buffered(<< x >> \o t) = UnitsIn(x) \cup Buffered(t)
      /\ n < l => Ascending(<< x >> \o t)
  BY <1>1, <1>2, <1>4, <1>5, <1>6, ConsAscending
<1>8. Ascending(unsent(o, n)) /\ Buffered(unsent(o, n)) \subseteq Buffered(o)
  BY <1>1, <1>3, <1>4, <1>7
<1>9. ASSUME NEW d, d = SubSeq(b, 1, n), n <= l
      PROVE  /\ d \in Seq(Unit) /\ Increasing(d) /\ UnitsIn(d) \subseteq Buffered(o)
             /\ Precede(UnitsIn(d), Buffered(unsent(o, n)))
  <2>1. 0 + 1 = 1 /\ 0 \in Nat
    OBVIOUS
  <2>2. d = SubSeq(b, 0 + 1, n)
    BY <1>9, <2>1
  <2>3. /\ d \in Seq(Unit) /\ UnitsIn(d) \subseteq UnitsIn(b) /\ Increasing(d)
        /\ \A i \in 1..Len(d) : 0 + i \in 1..n /\ d[i] = b[0 + i]
    <3>1. PartOf(d, b, 0, n)
      BY <1>1, <1>2, <1>9, <1>u, <2>1, <2>2, SubSeqPart
    <3> QED
      BY <1>1, <3>1 DEF PartOf
  <2>4. \A i \in 1..n, j \in 1..Len(x) : i \in 1..l /\ n + j \in 1..l /\ i < n + j
    BY <1>2, <1>4, <1>9
  <2>5. \A i \in 1..Len(d) : 0 + i = i
    OBVIOUS
  <2>6. \A i \in 1..Len(d), j \in 1..Len(x) : Before(d[i], x[j])
    BY <1>1, <1>4, <1>u, <2>3, <2>4, <2>5 DEF Increasing
  <2>7. Precede(UnitsIn(d), UnitsIn(x)) /\ Precede(UnitsIn(d), Buffered(t))
    BY <1>1, <2>3, <2>6 DEF Precede, UnitsIn
  <2> QED
    BY <1>1, <1>3, <1>7, <2>3, <2>7 DEF Precede
<1> QED
  BY <1>8, <1>9 DEF b, l

-----------------------------------------------------------------------------
(* Steps in progress, and methods that start none.                          *)

\* A step: a pending operation, or a queued handler with the data it brings.
Doing(m, fn, c, d) ==
  /\ <<fn, c>> \in StepKinds
  /\ \/ d = << >> /\ \E p \in m.pending : p.op = fn /\ p.conn = c
     \/ \E i \in 1..Len(m.queue) :
          m.queue[i].fn = fn /\ m.queue[i].conn = c /\ m.queue[i].data = d

\* A write to the client that has succeeded and has not been handled.
Arrived(h) == h.fn = "write" /\ h.conn = Client /\ h.res = "ok"

\* A method that starts nothing but timers and changes no contents: it may
\* cancel operations, stop connections and post on_stop.
StillConn(x, y) ==
  /\ y.message = x.message /\ y.out = x.out /\ y.encoded = x.encoded
  /\ y.writing = x.writing /\ y.use_ssl = x.use_ssl
  /\ x.stopped => y.stopped
  /\ y.connected => x.connected
  /\ x.connected => y.connected \/ y.stopped
  /\ y.connected /\ y.stopped => x.stopped
StillQueue(m, w) ==
  /\ Len(m.queue) <= Len(w.queue)
  /\ \A i \in 1..Len(m.queue) : w.queue[i] = m.queue[i]
  /\ \A i \in 1..Len(w.queue) : i > Len(m.queue) => ~Arrived(w.queue[i])
StillSteps(m, w) ==
  /\ \A p \in w.pending : p \in m.pending \/ p.op = "wait"
  /\ \A fn, c, d : Doing(w, fn, c, d) => Doing(m, fn, c, d)
  /\ Kinds(w) \cap StepKinds = Kinds(m) \cap StepKinds
Still(m, w) ==
  /\ Good(w) /\ w.ctx = m.ctx /\ w.fault = m.fault
  /\ \A c \in Conns : StillConn(m.conn[c], w.conn[c])
  /\ \A s \in Servers : s > m.ctx.server => w.conn[s] = m.conn[s]
  /\ \A p \in w.pending :
       p.op = "write" /\ m.conn[p.conn].connected => w.conn[p.conn].connected
  /\ StillSteps(m, w) /\ StillQueue(m, w)

LEMMA StillRefl ==
  ASSUME NEW m, Good(m)
  PROVE  Still(m, m)
<1>1. Len(m.queue) \in Nat
  BY LengthType
<1>2. StillQueue(m, m)
  BY <1>1 DEF StillQueue
<1> QED
  BY <1>2 DEF Still, StillConn, StillSteps

LEMMA StillTrans ==
  ASSUME NEW m, Good(m), NEW v, NEW w, Still(m, v), Still(v, w)
  PROVE  Still(m, w)
<1>1. Good(v) /\ Good(w) /\ w.ctx = m.ctx /\ w.fault = m.fault /\ v.ctx = m.ctx
  BY DEF Still
<1>2. /\ Len(m.queue) \in Nat /\ Len(v.queue) \in Nat /\ Len(w.queue) \in Nat
  BY <1>1, LengthType
<1>3. \A c \in Conns : StillConn(m.conn[c], w.conn[c])
  BY DEF Still, StillConn
<1>4. StillSteps(m, w)
  BY DEF Still, StillSteps
<1>5. StillQueue(m, w)
  <2>1. \A i \in 1..Len(m.queue) : i \in 1..Len(v.queue)
    BY <1>2 DEF Still, StillQueue
  <2>2. ASSUME NEW i \in 1..Len(w.queue), i > Len(m.queue) PROVE ~Arrived(w.queue[i])
    <3>1. CASE i > Len(v.queue)
      BY <2>2, <3>1 DEF Still, StillQueue
    <3>2. CASE ~(i > Len(v.queue))
      <4>1. i \in 1..Len(v.queue)
        BY <1>2, <3>2
      <4> QED
        BY <2>2, <4>1 DEF Still, StillQueue
    <3> QED
      BY <3>1, <3>2
  <2>3. Len(m.queue) <= Len(w.queue)
    BY <1>2 DEF Still, StillQueue
  <2>4. \A i \in 1..Len(m.queue) : w.queue[i] = m.queue[i]
    BY <2>1 DEF Still, StillQueue
  <2> QED
    BY <2>2, <2>3, <2>4 DEF StillQueue
<1>6. \A p \in w.pending :
        p.op = "write" /\ m.conn[p.conn].connected => w.conn[p.conn].connected
  <2>1. \A p \in w.pending : p.op = "write" => p \in v.pending
    BY DEF Still, StillSteps
  <2> QED
    BY <2>1 DEF Still
<1>7. \A s \in Servers : s > m.ctx.server => w.conn[s] = m.conn[s]
  BY <1>1 DEF Still
<1> QED
  BY <1>1, <1>3, <1>4, <1>5, <1>6, <1>7 DEF Still

LEMMA NoStepDoing ==
  ASSUME NEW m, NoStep(m), NEW fn, NEW c, NEW d
  PROVE  ~Doing(m, fn, c, d)
  BY DEF NoStep, Doing, Kinds, OpKind, HandlerKind

\* Cancelling an operation.
LEMMA CancelStill ==
  ASSUME NEW m, Good(m), NEW c \in 0..m.ctx.server, NEW op \in Operations
  PROVE  LET w == Cancel(m, op, c)
         IN  /\ Still(m, w) /\ w.conn = m.conn
             /\ \A p \in w.pending : ~(p.op = op /\ p.conn = c)
<1> DEFINE h == Completion(op, c, "error", << >>)
           w == Cancel(m, op, c)
           n == Len(m.queue)
<1>1. w.conn = m.conn /\ w.ctx = m.ctx /\ w.fault = m.fault /\ Kinds(w) = Kinds(m)
  BY CancelFields DEF Same
<1>2. Good(w)
  BY CancelQuiet DEF Quiet
<1>3. h \in Handlers /\ h.fn = op /\ h.conn = c /\ h.data = << >> /\ h.res = "error"
  BY ServerType DEF Completion, Handlers, Results, Operations
<1>4. m \in Worlds /\ n \in Nat /\ m.queue \in Seq(Handlers)
  BY LengthType
<1> HIDE DEF h
<1>5. w.pending = {p \in m.pending : ~(p.op = op /\ p.conn = c)}
  BY <1>4 DEF Cancel, Worlds
<1>6. \/ w.queue = m.queue
      \/ /\ w.queue = Append(m.queue, h)
         /\ \E p \in m.pending : p.op = op /\ p.conn = c
  BY <1>4 DEF Cancel, Worlds, h
<1> HIDE DEF w
<1>7. StillQueue(m, w) /\ \A fn, k, d : Doing(w, fn, k, d) => Doing(m, fn, k, d)
  <2>1. CASE w.queue = m.queue
    BY <1>4, <1>5, <2>1 DEF StillQueue, Doing
  <2>2. CASE /\ w.queue = Append(m.queue, h)
             /\ \E p \in m.pending : p.op = op /\ p.conn = c
    <3>1. /\ Len(w.queue) = n + 1 /\ w.queue[n + 1] = h
          /\ \A i \in 1..n : w.queue[i] = m.queue[i]
      BY <1>3, <1>4, <2>2
    <3>2. 1..(n + 1) = 1..n \cup {n + 1} /\ n <= n + 1
      BY <1>4
    <3>3. ~Arrived(h)
      BY <1>3 DEF Arrived
    <3> HIDE DEF n
    <3>n. n = Len(m.queue)
      BY DEF n
    <3>4. \A i \in 1..(n + 1) : i > n => i = n + 1
      BY <1>4
    <3>5. StillQueue(m, w)
      BY <3>1, <3>2, <3>3, <3>4, <3>n DEF StillQueue
    <3>6. ASSUME NEW fn, NEW k, NEW d, Doing(w, fn, k, d) PROVE Doing(m, fn, k, d)
      <4>1. CASE \E i \in 1..n : w.queue[i].fn = fn /\ w.queue[i].conn = k /\ w.queue[i].data = d
        BY <3>1, <3>6, <3>n, <4>1 DEF Doing
      <4>2. CASE h.fn = fn /\ h.conn = k /\ h.data = d
        BY <1>3, <2>2, <3>6, <4>2 DEF Doing
      <4>3. CASE d = << >> /\ \E p \in w.pending : p.op = fn /\ p.conn = k
        BY <1>5, <3>6, <4>3 DEF Doing
      <4> QED
        BY <3>1, <3>2, <3>6, <4>1, <4>2, <4>3 DEF Doing
    <3> QED
      BY <3>5, <3>6
  <2> QED
    BY <1>6, <2>1, <2>2
<1>8. StillSteps(m, w)
  BY <1>1, <1>5, <1>7 DEF StillSteps
<1>9. Still(m, w)
  BY <1>1, <1>2, <1>7, <1>8 DEF Still, StillConn
<1> QED
  BY <1>1, <1>5, <1>9 DEF w

LEMMA CancelTimerStill ==
  ASSUME NEW m, Good(m), NEW c \in 0..m.ctx.server
  PROVE  Still(m, cancel_timer(m, c)) /\ cancel_timer(m, c).conn = m.conn
<1>1. CASE m.conn[c].running
  BY <1>1, CancelStill DEF cancel_timer, Operations
<1>2. CASE ~m.conn[c].running
  BY <1>2, StillRefl DEF cancel_timer
<1> QED
  BY <1>1, <1>2

LEMMA CloseStill ==
  ASSUME NEW m, Good(m), NEW c \in 0..m.ctx.server
  PROVE  LET w == close(m, c)
         IN  /\ Still(m, w) /\ w.conn = m.conn
             /\ \A p \in w.pending : p.conn = c => p.op \notin {"read", "write", "handshake", "connect"}
<1> DEFINE m1 == Cancel(m, "read", c)
           m2 == Cancel(m1, "write", c)
           m3 == Cancel(m2, "handshake", c)
           m4 == Cancel(m3, "connect", c)
<1>1. /\ Still(m, m1) /\ m1.conn = m.conn
      /\ \A p \in m1.pending : ~(p.op = "read" /\ p.conn = c)
  BY CancelStill DEF Operations
<1> HIDE DEF m1
<1>2. Good(m1) /\ c \in 0..m1.ctx.server
  BY <1>1 DEF Still
<1>3. /\ Still(m1, m2) /\ m2.conn = m.conn
      /\ \A p \in m2.pending : ~(p.op = "write" /\ p.conn = c)
  BY <1>1, <1>2, CancelStill DEF Operations
<1> HIDE DEF m2
<1>4. Good(m2) /\ c \in 0..m2.ctx.server
  BY <1>2, <1>3 DEF Still
<1>5. /\ Still(m2, m3) /\ m3.conn = m.conn
      /\ \A p \in m3.pending : ~(p.op = "handshake" /\ p.conn = c)
  BY <1>3, <1>4, CancelStill DEF Operations
<1> HIDE DEF m3
<1>6. Good(m3) /\ c \in 0..m3.ctx.server
  BY <1>4, <1>5 DEF Still
<1>7. /\ Still(m3, m4) /\ m4.conn = m.conn
      /\ \A p \in m4.pending : ~(p.op = "connect" /\ p.conn = c)
  BY <1>5, <1>6, CancelStill DEF Operations
<1>8. close(m, c) = m4
  BY DEF close, m3, m2, m1
<1> HIDE DEF m4
<1>9. Still(m, m4)
  BY <1>1, <1>2, <1>3, <1>4, <1>5, <1>6, <1>7, StillTrans
<1>10. \A p : p.op # "wait" =>
         /\ p \in m4.pending => p \in m3.pending
         /\ p \in m3.pending => p \in m2.pending
         /\ p \in m2.pending => p \in m1.pending
  BY <1>3, <1>5, <1>7 DEF Still, StillSteps
<1> QED
  BY <1>1, <1>3, <1>5, <1>7, <1>8, <1>9, <1>10

LEMMA PostDoing ==
  ASSUME NEW m, Good(m), NEW h \in Handlers, NEW w, w.pending = m.pending, w.queue = Append(m.queue, h)
  PROVE  /\ \A fn, c, d : Doing(w, fn, c, d) =>
              Doing(m, fn, c, d) \/ (fn = h.fn /\ c = h.conn /\ d = h.data)
         /\ ~Arrived(h) => StillQueue(m, w)
<1> DEFINE n == Len(m.queue)
<1>1. n \in Nat /\ m.queue \in Seq(Handlers)
  BY LengthType
<1>2. /\ Len(w.queue) = n + 1 /\ w.queue[n + 1] = h
      /\ \A i \in 1..n : w.queue[i] = m.queue[i]
  BY <1>1
<1>3. 1..(n + 1) = 1..n \cup {n + 1} /\ n <= n + 1 /\ \A i \in 1..(n + 1) : i > n => i = n + 1
  BY <1>1
<1>n. n = Len(m.queue)
  OBVIOUS
<1> HIDE DEF n
<1>4. ASSUME NEW fn, NEW c, NEW d, Doing(w, fn, c, d)
      PROVE  Doing(m, fn, c, d) \/ (fn = h.fn /\ c = h.conn /\ d = h.data)
  <2>1. CASE \E i \in 1..n : w.queue[i].fn = fn /\ w.queue[i].conn = c /\ w.queue[i].data = d
    BY <1>2, <1>n, <1>4, <2>1 DEF Doing
  <2>2. CASE h.fn = fn /\ h.conn = c /\ h.data = d
    BY <2>2
  <2>3. CASE d = << >> /\ \E p \in w.pending : p.op = fn /\ p.conn = c
    BY <1>4, <2>3 DEF Doing
  <2> QED
    BY <1>2, <1>3, <1>4, <2>1, <2>2, <2>3 DEF Doing
<1>5. ~Arrived(h) => StillQueue(m, w)
  BY <1>2, <1>3, <1>n DEF StillQueue
<1> QED
  BY <1>4, <1>5

\* A task other than a step.
LEMMA PostStill ==
  ASSUME NEW m, Good(m), NEW c \in 0..m.ctx.server, NEW fn \in {"WRITE", "on_stop", "stop_all"}
  PROVE  Still(m, Post(m, Task(fn, c))) /\ Post(m, Task(fn, c)).conn = m.conn
<1> DEFINE h == Task(fn, c)
           w == Post(m, h)
<1>1. h \in Handlers /\ h.fn = fn /\ h.conn = c /\ ~Arrived(h) /\ h \in HandlersUpTo(m.ctx.server)
  BY TaskType, ServerType DEF Task, Tasks, Events, Arrived
<1> HIDE DEF h
<1>2. /\ w.pending = m.pending /\ w.conn = m.conn /\ w.ctx = m.ctx /\ w.fault = m.fault
      /\ w.queue = Append(m.queue, h)
  BY LengthType, PostFields
<1>3. Good(w)
  BY <1>1, PostQuiet DEF Quiet
<1>4. Kinds(w) = Kinds(m) \cup {<<fn, c>>}
  BY PostAdds DEF Adds, Tasks, Events, h
<1>5. <<fn, c>> \notin StepKinds
  BY DEF StepKinds, Going
<1> HIDE DEF w
<1>6. \A k, e, d : Doing(w, k, e, d) => Doing(m, k, e, d)
  <2>1. ASSUME NEW k, NEW e, NEW d, Doing(w, k, e, d) PROVE Doing(m, k, e, d)
    <3>1. Doing(m, k, e, d) \/ (k = h.fn /\ e = h.conn)
      BY <1>1, <1>2, <2>1, PostDoing
    <3>2. <<k, e>> \in StepKinds
      BY <2>1 DEF Doing
    <3> QED
      BY <1>1, <1>5, <3>1, <3>2
  <2> QED
    BY <2>1
<1>7. StillQueue(m, w)
  BY <1>1, <1>2, PostDoing
<1>8. StillSteps(m, w)
  BY <1>2, <1>4, <1>5, <1>6 DEF StillSteps
<1>9. Still(m, w)
  BY <1>2, <1>3, <1>7, <1>8 DEF Still, StillConn
<1> QED
  BY <1>2, <1>9 DEF w, h

LEMMA StopStill ==
  ASSUME NEW m, Good(m), NEW c \in 0..m.ctx.server, NEW notify \in BOOLEAN
  PROVE  LET w == stop(m, c, notify)
         IN  Still(m, w) /\ w.conn[c].stopped /\ \A k \in Conns \ {c} : w.conn[k] = m.conn[k]
<1> DEFINE m1 == cancel_timer(m, c)
           m2 == IF m.conn[c].connected THEN close(m1, c) ELSE m1
           m3 == IF notify THEN Post(m2, Task("on_stop", c)) ELSE m2
           r == [m3.conn[c] EXCEPT !.connected = FALSE, !.stopped = TRUE]
           w == [m3 EXCEPT !.conn[c] = r, !.managed = @ \ {c}]
<1>0. c \in Conns
  BY ServerType
<1>1. CASE m.conn[c].stopped
  BY <1>1, StillRefl DEF stop
<1>2. CASE ~m.conn[c].stopped
  <2>1. Still(m, m1) /\ m1.conn = m.conn
    BY CancelTimerStill
  <2> HIDE DEF m1
  <2>2. /\ Still(m, m2) /\ m2.conn = m.conn
        /\ m.conn[c].connected => \A p \in m2.pending : p.conn = c => p.op # "write"
    <3>1. Good(m1) /\ c \in 0..m1.ctx.server
      BY <2>1 DEF Still
    <3>2. /\ Still(m1, close(m1, c)) /\ close(m1, c).conn = m.conn
          /\ \A p \in close(m1, c).pending : p.conn = c => p.op # "write"
      BY <2>1, <3>1, CloseStill
    <3> QED
      BY <2>1, <3>2, StillTrans
  <2> HIDE DEF m2
  <2>3. /\ Still(m, m3) /\ m3.conn = m.conn
        /\ m.conn[c].connected => \A p \in m3.pending : p.conn = c => p.op # "write"
    <3>1. Good(m2) /\ c \in 0..m2.ctx.server
      BY <2>2 DEF Still
    <3>2. Still(m2, Post(m2, Task("on_stop", c))) /\ Post(m2, Task("on_stop", c)).conn = m2.conn
      BY <3>1, PostStill
    <3>3. \A p \in m3.pending : p.op = "write" => p \in m2.pending
      BY <3>2 DEF Still, StillSteps
    <3> QED
      BY <2>2, <3>2, <3>3, StillTrans
  <2>4. stop(m, c, notify) = erase([m3 EXCEPT !.conn[c].connected = FALSE, !.conn[c].stopped = TRUE], c)
    BY <1>2 DEF stop, m1, m2
  <2> HIDE DEF m3
  <2>5. m3 \in Worlds /\ m3.conn[c] \in Connections /\ Good(m3)
    BY <1>0, <2>3, ConnType DEF Still, Good
  <2>6. stop(m, c, notify) = w
    BY <1>0, <2>4, <2>5 DEF erase, Worlds
  <2>7. StillConn(m3.conn[c], r) /\ r.stopped /\ ~r.connected
    BY <1>2, <2>3, <2>5 DEF Connections, StillConn
  <2> HIDE DEF r
  <2>8. /\ w.queue = m3.queue /\ w.pending = m3.pending /\ w.ctx = m3.ctx /\ w.fault = m3.fault
        /\ w.conn = [m3.conn EXCEPT ![c] = r] /\ m3.conn \in [Conns -> Connections]
    BY <2>5 DEF Worlds
  <2> HIDE DEF w
  <2>9. w.conn[c] = r /\ \A k \in Conns \ {c} : w.conn[k] = m3.conn[k]
    BY <1>0, <2>8
  <2>10. Good(w)
    BY <2>6, StopStops DEF Stops
  <2>11. Len(m3.queue) \in Nat
    BY <2>5, LengthType
  <2>12. StillQueue(m3, w) /\ StillSteps(m3, w)
    BY <2>8, <2>11 DEF StillQueue, StillSteps, Doing, Kinds
  <2>13. \A k \in Conns : StillConn(m3.conn[k], w.conn[k])
    BY <2>7, <2>9 DEF StillConn
  <2>14. \A s \in Servers : s > m3.ctx.server => w.conn[s] = m3.conn[s]
    <3>1. m3.ctx.server = m.ctx.server /\ m.ctx.server \in Conns
      BY <2>3, ServerType DEF Still
    <3>2. \A s \in Servers : s > m3.ctx.server => s # c
      BY <3>1
    <3> QED
      BY <2>9, <3>2
  <2>15. \A p \in w.pending :
           p.op = "write" /\ m3.conn[p.conn].connected => w.conn[p.conn].connected
    <3>1. \A p \in w.pending : p.conn \in Conns
      <4>1. w.pending \subseteq PendingOps
        BY <2>10, LengthType DEF Worlds
      <4> QED
        BY <4>1 DEF PendingOps
    <3> QED
      BY <2>3, <2>8, <2>9, <3>1
  <2>16. Still(m3, w)
    BY <2>8, <2>10, <2>12, <2>13, <2>14, <2>15 DEF Still
  <2>17. Still(m, w)
    BY <2>3, <2>16, StillTrans
  <2> QED
    BY <2>3, <2>6, <2>7, <2>9, <2>17
<1> QED
  BY <1>1, <1>2

LEMMA TimerStartStill ==
  ASSUME NEW m, Good(m), NEW c \in 0..m.ctx.server
  PROVE  Still(m, timer_start(m, c))
<1> DEFINE r == [m.conn[c] EXCEPT !.running = TRUE]
           v == With(m, c, r)
           w == Begin(v, "wait", c, << >>)
<1>0. c \in Conns /\ m \in Worlds
  BY ServerType, LengthType
<1>1. CASE m.conn[c].running
  BY <1>1, StillRefl DEF timer_start
<1>2. CASE ~m.conn[c].running
  <2>1. timer_start(m, c) = w
    BY <1>2 DEF timer_start, With
  <2>2. m.conn[c] \in Connections
    BY <1>0, ConnType
  <2>3. r \in Connections /\ StillConn(m.conn[c], r) /\ r.stopped = m.conn[c].stopped
        /\ r.connected = m.conn[c].connected
    BY <2>2 DEF Connections, StillConn
  <2> HIDE DEF r
  <2>4. /\ v.queue = m.queue /\ v.pending = m.pending /\ v.ctx = m.ctx /\ v.fault = m.fault
        /\ v.conn[c] = r /\ \A k \in Conns \ {c} : v.conn[k] = m.conn[k]
        /\ Same(m, v)
    BY <1>0, SetFields
  <2>5. Good(v) /\ v \in Worlds
    BY <1>0, <2>3, WithGood, LengthType DEF Quiet
  <2> HIDE DEF v
  <2>6. /\ w.queue = v.queue /\ w.conn = v.conn /\ w.ctx = v.ctx /\ w.fault = v.fault
        /\ w.pending = v.pending \cup {[op |-> "wait", conn |-> c, data |-> << >>]}
    BY <2>5, BeginFields
  <2>7. Kinds(w) = Kinds(v) \cup {<<"wait", c>>}
    BY <2>5, BeginAdds DEF Adds
  <2>8. Good(w)
    BY <2>1, TimerStartQuiet DEF Quiet
  <2> HIDE DEF w
  <2>9. \A k : <<"wait", k>> \notin StepKinds
    BY DEF StepKinds, Going
  <2>10. Len(m.queue) \in Nat
    BY LengthType
  <2>11. StillQueue(m, w)
    BY <2>4, <2>6, <2>10 DEF StillQueue
  <2>12. \A fn, k, d : Doing(w, fn, k, d) => Doing(m, fn, k, d)
    BY <2>4, <2>6, <2>9 DEF Doing
  <2>13. StillSteps(m, w)
    BY <2>4, <2>6, <2>7, <2>9, <2>12 DEF StillSteps, Same
  <2>14. \A s \in Servers : s > m.ctx.server => w.conn[s] = m.conn[s]
    <3>1. \A s \in Servers : s > m.ctx.server => s # c
      BY ServerType
    <3> QED
      BY <2>4, <2>6, <3>1
  <2>15. \A k \in Conns : StillConn(m.conn[k], w.conn[k]) /\ w.conn[k].connected = m.conn[k].connected
    BY <2>3, <2>4, <2>6 DEF StillConn
  <2>16. \A p \in w.pending : p.conn \in Conns
    <3>1. w.pending \subseteq PendingOps
      BY <2>8, LengthType DEF Worlds
    <3> QED
      BY <3>1 DEF PendingOps
  <2>17. Still(m, w)
    BY <2>4, <2>6, <2>8, <2>11, <2>13, <2>14, <2>15, <2>16 DEF Still
  <2> QED
    BY <2>1, <2>17
<1> QED
  BY <1>1, <1>2

LEMMA AbortFault ==
  ASSUME NEW m, m \in Worlds, NEW f, f # "none"
  PROVE  Abort(m, f).fault # "none"
  BY DEF Abort, Worlds

-----------------------------------------------------------------------------
(* Requests.                                                                *)

\* The request the client is on.
Current(L) == L[Client][1]

\* What the servers have been sent, and have sent, is not ahead of the client.
Past(W, L) ==
  /\ \A s \in Servers : /\ Increasing(W[s]) /\ Older(UnitsIn(W[s]), Current(L) + 1)
                        /\ L[s][1] <= Current(L)
  /\ \A s, t \in Servers : s < t =>
       \A u \in UnitsIn(W[s]), v \in UnitsIn(W[t]) : u[1] < v[1]
  /\ \A c \in Conns : L[c][2] \in 1..InLen(c)

\* Nothing of the current request has been sent to a server.
Unasked(W, L) == \A s \in Servers : L[s][1] < Current(L) /\ Older(UnitsIn(W[s]), Current(L))

\* The first i units of it have, to server s.
Forwarded(W, L, s, i) ==
  /\ \A t \in Servers \ {s} : Older(UnitsIn(W[t]), Current(L))
  /\ i = 0 => Older(UnitsIn(W[s]), Current(L))
  /\ i # 0 => W[s] # << >> /\ W[s][Len(W[s])] = <<Current(L), i>>

\* x is what the client connection has got of the request: nothing, between
\* two requests, or all that the client has sent.
Asking(x, W, L) ==
  \/ x = << >> /\ L[Client][2] = ReqLen
  \/ x = Units(Current(L), 0, L[Client][2]) /\ Unasked(W, L)

\* x is what server connection s has got of the response.
Answer(x, W, L, s) ==
  /\ Forwarded(W, L, s, ReqLen)
  /\ x = Units(Current(L), 0, IF L[s][1] = Current(L) THEN L[s][2] ELSE 0)

\* The rest of the request is in the buffer of server connection s, whose
\* last write has sent n units of it.
Unsent(r, W, L, s, n) ==
  /\ L[s][1] < Current(L) /\ r.message = << >>
  /\ \/ r.stopped
     \/ \E i \in 0..(ReqLen - 1) :
          /\ r.out = << Units(Current(L), i, ReqLen - i) >>
          /\ i + n <= ReqLen /\ Forwarded(W, L, s, i + n)

\* What a step of connection c, which is r, finds.
StepOk(r, W, L, fn, c, d) ==
  /\ fn \notin {"read", "write"} => d = << >>
  /\ IF c = Client
     THEN /\ fn \in {"read", "READ"} => Asking(r.message \o d, W, L)
          /\ fn = "read" => Len(r.message) < ReqLen
          /\ fn = "HANDSHAKE" => r.message = << >>
     ELSE /\ r.encoded = ReqLen
          /\ fn # "write" => ~r.writing \/ r.stopped
          /\ IF fn \in {"read", "READ"} THEN Answer(r.message \o d, W, L, c)
                                        ELSE Unsent(r, W, L, c, Len(d))

Held(m) ==
  \A p \in m.pending : p.op = "write" /\ p.conn # Client =>
    /\ m.conn[p.conn].connected
    /\ m.conn[p.conn].out # << >> /\ p.data = Head(m.conn[p.conn].out) /\ p.data # << >>

Base(m, W, L) ==
  /\ Past(W, L) /\ Held(m)
  /\ \A s \in Servers : s > m.ctx.server => W[s] = << >> /\ m.conn[s] = NewConnection
  /\ \A s \in Servers : m.conn[s].encoded = 0 =>
       m.conn[s].out = << >> /\ m.conn[s].message = << >> /\ ~m.conn[s].writing
  /\ \A c \in Conns : m.conn[c].connected => ~m.conn[c].stopped
StepsOk(m, W, L) ==
  \A fn, c, d : Doing(m, fn, c, d) => StepOk(m.conn[c], W, L, fn, c, d)
\* The client is not in the middle of a request unless it is read from.
Taken(m, L) ==
  ~m.conn[Client].stopped /\ <<"read", Client>> \notin Kinds(m) => L[Client][2] = ReqLen
\* A server connection that no step is about can be used for a request.
Spare(m) ==
  Kinds(m) \cap ServerKinds = {} /\ m.ctx.server \in Servers =>
    m.conn[m.ctx.server].stopped \/ m.conn[m.ctx.server].encoded = 0
Sound(m, W, L) == Base(m, W, L) /\ StepsOk(m, W, L) /\ Taken(m, L) /\ Spare(m)

\* A method that leaves the requests alone: it may also encode for the client
\* and write to it.
ApartConn(c, x, y) ==
  /\ y.message = x.message
  /\ c # Client => y.out = x.out /\ y.encoded = x.encoded /\ y.writing = x.writing
  /\ x.stopped => y.stopped
  /\ y.connected => x.connected
  /\ y.connected /\ y.stopped => x.stopped
Apart(m, w) ==
  /\ Good(w) /\ w.ctx.server = m.ctx.server
  /\ \A c \in Conns : ApartConn(c, m.conn[c], w.conn[c])
  /\ \A s \in Servers : s > m.ctx.server => w.conn[s] = m.conn[s]
  /\ \A p \in w.pending : p.op = "write" /\ p.conn # Client =>
       p \in m.pending /\ (m.conn[p.conn].connected => w.conn[p.conn].connected)
  /\ \A fn, c, d : Doing(w, fn, c, d) => Doing(m, fn, c, d)
  /\ Kinds(w) \cap StepKinds = Kinds(m) \cap StepKinds

LEMMA StillApart ==
  ASSUME NEW m, NEW w, Still(m, w)
  PROVE  Apart(m, w)
<1>1. \A c \in Conns : ApartConn(c, m.conn[c], w.conn[c])
  BY DEF Still, StillConn, ApartConn
<1>2. \A p \in w.pending : p.op = "write" /\ p.conn # Client =>
        p \in m.pending /\ (m.conn[p.conn].connected => w.conn[p.conn].connected)
  BY DEF Still, StillSteps
<1> QED
  BY <1>1, <1>2 DEF Still, StillSteps, Apart

LEMMA ApartTrans ==
  ASSUME NEW m, NEW v, NEW w, Apart(m, v), Apart(v, w)
  PROVE  Apart(m, w)
<1>1. \A c \in Conns : ApartConn(c, m.conn[c], w.conn[c])
  BY DEF Apart, ApartConn
<1> QED
  BY <1>1 DEF Apart

LEMMA ApartSound ==
  ASSUME NEW m, NEW w, Apart(m, w), NEW W, NEW L
  PROVE  /\ Base(m, W, L) => Base(w, W, L)
         /\ StepsOk(m, W, L) => StepsOk(w, W, L)
         /\ Taken(m, L) => Taken(w, L)
         /\ Spare(m) => Spare(w)
         /\ Sound(m, W, L) => Sound(w, W, L)
         /\ NoStep(m) => NoStep(w)
<1>p. \A p \in w.pending : p.conn \in Conns
  <2>1. w.pending \subseteq PendingOps
    BY LengthType DEF Worlds, Apart
  <2> QED
    BY <2>1 DEF PendingOps
<1>s. \A fn, c, d : Doing(w, fn, c, d) => c \in Conns
  BY DEF Doing, StepKinds
<1>1. ASSUME Base(m, W, L) PROVE Base(w, W, L)
  <2>1. Held(w)
    BY <1>1, <1>p DEF Held, Apart, ApartConn, Base
  <2>2. \A c \in Conns : w.conn[c].connected => ~w.conn[c].stopped
    BY <1>1 DEF Apart, ApartConn, Base
  <2>3. \A s \in Servers : w.conn[s].encoded = 0 =>
          w.conn[s].out = << >> /\ w.conn[s].message = << >> /\ ~w.conn[s].writing
    BY <1>1 DEF Apart, ApartConn, Base
  <2> QED
    BY <1>1, <2>1, <2>2, <2>3 DEF Base, Apart
<1>2. ASSUME StepsOk(m, W, L) PROVE StepsOk(w, W, L)
  <2>1. ASSUME NEW fn, NEW c, NEW d, Doing(w, fn, c, d) PROVE StepOk(w.conn[c], W, L, fn, c, d)
    <3>1. c \in Conns /\ StepOk(m.conn[c], W, L, fn, c, d) /\ ApartConn(c, m.conn[c], w.conn[c])
      BY <1>2, <1>s, <2>1 DEF StepsOk, Apart
    <3> QED
      BY <3>1 DEF StepOk, ApartConn, Unsent
  <2> QED
    BY <2>1 DEF StepsOk
<1>3. Taken(m, L) => Taken(w, L)
  <2>1. <<"read", Client>> \in StepKinds
    BY DEF StepKinds, Going
  <2> QED
    BY <2>1, ClientIn DEF Taken, Apart, ApartConn
<1>4. Spare(m) => Spare(w)
  BY KindsSplit, ClientIn DEF Spare, Apart, ApartConn
<1>5. NoStep(m) => NoStep(w)
  BY DEF NoStep, Apart
<1> QED
  BY <1>1, <1>2, <1>3, <1>4, <1>5 DEF Sound

\* What an operation that is a step is started with.
LEMMA BeginSound ==
  ASSUME NEW m, Good(m), NoStep(m), NEW W, NEW L, Base(m, W, L),
         NEW op \in Operations, NEW c \in 0..m.ctx.server, NEW d \in Seq(Unit),
         <<op, c>> \in StepKinds, StepOk(m.conn[c], W, L, op, c, << >>),
         op = "write" => /\ m.conn[c].connected /\ m.conn[c].out # << >>
                         /\ d = Head(m.conn[c].out) /\ d # << >>,
         c = Client => Spare(m), <<op, c>> # <<"read", Client>> => Taken(m, L)
  PROVE  Sound(Begin(m, op, c, d), W, L)
<1> DEFINE w == Begin(m, op, c, d)
<1>1. /\ w.queue = m.queue /\ w.conn = m.conn /\ w.ctx = m.ctx
      /\ w.pending = m.pending \cup {[op |-> op, conn |-> c, data |-> d]}
  BY LengthType, BeginFields
<1>2. Kinds(w) = Kinds(m) \cup {<<op, c>>}
  BY LengthType, BeginAdds DEF Adds
<1> HIDE DEF w
<1>3. ASSUME NEW fn, NEW k, NEW e, Doing(w, fn, k, e) PROVE fn = op /\ k = c /\ e = << >>
  <2>1. ~Doing(m, fn, k, e)
    BY NoStepDoing
  <2> QED
    BY <1>1, <1>3, <2>1 DEF Doing
<1>4. StepsOk(w, W, L)
  BY <1>1, <1>3 DEF StepsOk
<1>5. Held(w)
  <2>1. Held(m)
    BY DEF Base
  <2>2. ASSUME NEW p \in w.pending, p.op = "write", p.conn # Client
        PROVE  /\ w.conn[p.conn].connected /\ w.conn[p.conn].out # << >>
               /\ p.data = Head(w.conn[p.conn].out) /\ p.data # << >>
    <3>1. CASE p \in m.pending
      BY <1>1, <2>1, <2>2, <3>1 DEF Held
    <3>2. CASE p = [op |-> op, conn |-> c, data |-> d]
      <4>1. p.op = op /\ p.conn = c /\ p.data = d
        BY <3>2
      <4> QED
        BY <1>1, <2>2, <4>1
    <3> QED
      BY <1>1, <3>1, <3>2
  <2> QED
    BY <2>2 DEF Held
<1>6. Base(w, W, L)
  BY <1>1, <1>5 DEF Base
<1>7. Taken(w, L)
  BY <1>1, <1>2 DEF Taken
<1>8. Spare(w)
  <2>1. CASE c = Client
    BY <1>1, <1>2, <2>1 DEF Spare
  <2>2. CASE c # Client
    <3>1. <<op, c>> \in ServerKinds
      BY <2>2 DEF ServerKinds, ClientKinds
    <3> QED
      BY <1>2, <3>1 DEF Spare
  <2> QED
    BY <2>1, <2>2
<1> QED
  BY <1>4, <1>6, <1>7, <1>8 DEF Sound, w

\* An event that is a step.
LEMMA PostSound ==
  ASSUME NEW m, Good(m), NoStep(m), NEW W, NEW L, Base(m, W, L),
         NEW fn \in Events, NEW c \in 0..m.ctx.server,
         <<fn, c>> \in StepKinds, StepOk(m.conn[c], W, L, fn, c, << >>),
         c = Client => Spare(m), Taken(m, L)
  PROVE  Sound(Post(m, Task(fn, c)), W, L)
<1> DEFINE h == Task(fn, c)
           w == Post(m, h)
<1>1. h \in Handlers /\ h.fn = fn /\ h.conn = c /\ h.data = << >>
  BY TaskType, ServerType DEF Task, Tasks
<1>k. Kinds(w) = Kinds(m) \cup {<<fn, c>>}
  BY PostAdds DEF Adds, Tasks
<1> HIDE DEF h
<1>2. /\ w.pending = m.pending /\ w.conn = m.conn /\ w.ctx = m.ctx
      /\ w.queue = Append(m.queue, h)
  BY LengthType, PostFields
<1> HIDE DEF w
<1>3. ASSUME NEW f, NEW k, NEW e, Doing(w, f, k, e) PROVE f = fn /\ k = c /\ e = << >>
  <2>1. ~Doing(m, f, k, e)
    BY NoStepDoing
  <2> QED
    BY <1>1, <1>2, <1>3, <2>1, PostDoing
<1>4. StepsOk(w, W, L)
  BY <1>2, <1>3 DEF StepsOk
<1>5. Base(w, W, L)
  BY <1>2 DEF Base, Held
<1>6. Taken(w, L)
  BY <1>2, <1>k DEF Taken
<1>7. Spare(w)
  <2>1. CASE c = Client
    BY <1>2, <1>k, <2>1 DEF Spare
  <2>2. CASE c # Client
    <3>1. <<fn, c>> \in ServerKinds
      BY <2>2 DEF ServerKinds, ClientKinds
    <3> QED
      BY <1>k, <3>1 DEF Spare
  <2> QED
    BY <2>1, <2>2
<1> QED
  BY <1>4, <1>5, <1>6, <1>7 DEF Sound, w, h

\* Between two steps, a change of the connection the step was about.
LEMMA SetBase ==
  ASSUME NEW m, Good(m), NoStep(m), NEW W, NEW L, Base(m, W, L), NEW c \in 0..m.ctx.server,
         NEW r \in Connections, r.stopped = m.conn[c].stopped,
         r.connected => ~r.stopped,
         c # Client => (r.encoded = 0 => r.out = << >> /\ r.message = << >> /\ ~r.writing),
         NEW w, w = With(m, c, r)
  PROVE  /\ Good(w) /\ NoStep(w) /\ Base(w, W, L) /\ w.ctx = m.ctx /\ w.fault = m.fault
         /\ w.conn[c] = r /\ \A k \in Conns \ {c} : w.conn[k] = m.conn[k]
         /\ w.queue = m.queue /\ w.pending = m.pending
         /\ Taken(m, L) => Taken(w, L)
         /\ c = Client /\ Spare(m) => Spare(w)
<1>0. c \in Conns /\ m \in Worlds
  BY ServerType, LengthType
<1>1. /\ w.queue = m.queue /\ w.pending = m.pending /\ w.ctx = m.ctx /\ w.fault = m.fault
      /\ w.conn[c] = r /\ \A k \in Conns \ {c} : w.conn[k] = m.conn[k]
      /\ Same(m, w)
  BY <1>0, SetFields
<1>2. Good(w)
  BY <1>0, WithGood DEF Quiet
<1>3. NoStep(w)
  BY <1>1 DEF NoStep, Same
<1>4. Held(w)
  <2>1. ASSUME NEW p \in w.pending, p.op = "write", p.conn # Client PROVE FALSE
    <3>1. p.conn \in Servers
      <4>1. w.pending \subseteq PendingOps
        BY <1>2, LengthType DEF Worlds
      <4> QED
        BY <2>1, <4>1 DEF PendingOps
    <3>2. OpKind(p) \in StepKinds
      BY <2>1, <3>1 DEF OpKind, StepKinds
    <3> QED
      BY <1>3, <3>2 DEF NoStep, Kinds
  <2> QED
    BY <2>1 DEF Held
<1>5. \A s \in Servers : s > w.ctx.server => W[s] = << >> /\ w.conn[s] = NewConnection
  <2>1. \A s \in Servers : s > m.ctx.server => s # c
    BY ServerType
  <2> QED
    BY <1>1, <2>1 DEF Base
<1>6. \A s \in Servers : w.conn[s].encoded = 0 =>
        w.conn[s].out = << >> /\ w.conn[s].message = << >> /\ ~w.conn[s].writing
  BY <1>1 DEF Base
<1>7. \A k \in Conns : w.conn[k].connected => ~w.conn[k].stopped
  BY <1>1 DEF Base
<1>8. Base(w, W, L)
  BY <1>4, <1>5, <1>6, <1>7 DEF Base
<1>9. Taken(m, L) => Taken(w, L)
  <2>1. w.conn[Client].stopped = m.conn[Client].stopped
    BY <1>1, ClientIn
  <2> QED
    BY <1>1, <2>1 DEF Taken, Same
<1>10. c = Client /\ Spare(m) => Spare(w)
  BY <1>1, ClientIn DEF Spare, Same
<1> QED
  BY <1>1, <1>2, <1>3, <1>8, <1>9, <1>10

LEMMA ReadSound ==
  ASSUME NEW m, Good(m), NoStep(m), NEW W, NEW L, Base(m, W, L), NEW c \in 0..m.ctx.server,
         StepOk(m.conn[c], W, L, "read", c, << >>),
         c = Client => Spare(m), c # Client => Taken(m, L)
  PROVE  read(m, c).fault = "none" => Sound(read(m, c), W, L)
<1>1. CASE m.conn[c].connected /\ ~m.conn[c].stopped
  <2>1. <<"read", c>> \in StepKinds /\ << >> \in Seq(Unit) /\ "read" \in Operations
    BY ServerType DEF StepKinds, Going, Operations
  <2>2. Sound(Begin(m, "read", c, << >>), W, L)
    BY <2>1, BeginSound
  <2> QED
    BY <1>1, <2>2 DEF read
<1>2. CASE ~(m.conn[c].connected /\ ~m.conn[c].stopped)
  <2>1. read(m, c).fault # "none"
    BY <1>2, LengthType, AbortFault DEF read
  <2> QED
    BY <2>1
<1> QED
  BY <1>1, <1>2

\* The buffer of a server connection with the rest of a request.
LEMMA UnsentBuffer ==
  ASSUME NEW L \in [Conns -> Unit], NEW i \in 0..(ReqLen - 1),
         NEW o, o = << Units(Current(L), i, ReqLen - i) >>
  PROVE  /\ o # << >> /\ Len(o) = 1 /\ Head(o) = Units(Current(L), i, ReqLen - i)
         /\ Head(o) \in Seq(Unit) /\ Head(o) # << >> /\ Len(Head(o)) = ReqLen - i
         /\ Tail(o) = << >>
<1>1. Current(L) \in Nat
  BY ClientIn DEF Current, Unit
<1>2. i \in Nat /\ ReqLen - i \in Nat /\ ReqLen - i # 0
  OBVIOUS
<1> DEFINE b == Units(Current(L), i, ReqLen - i)
<1>3. b \in Seq(Unit)
  BY <1>1, <1>2, UnitsType
<1>4. b # << >>
  BY <1>1, <1>2, UnitsEmpty
<1>5. Len(b) = ReqLen - i
  <2>1. Spans(b, Current(L), i, ReqLen - i)
    BY <1>1, <1>2, UnitsSpan
  <2> QED
    BY <2>1 DEF Spans
<1> HIDE DEF b
<1>6. o = << b >>
  BY DEF b
<1>7. o # << >> /\ Len(o) = 1 /\ Head(o) = b /\ Tail(o) = << >>
  BY <1>3, <1>6
<1> QED
  BY <1>3, <1>4, <1>5, <1>7 DEF b

LEMMA DoWriteSound ==
  ASSUME NEW m, Good(m), NoStep(m), NEW W, NEW L \in [Conns -> Unit], Base(m, W, L),
         NEW s \in Servers, s = m.ctx.server, ~m.conn[s].stopped, ~m.conn[s].writing,
         m.conn[s].encoded = ReqLen, Taken(m, L), Unsent(m.conn[s], W, L, s, 0)
  PROVE  Sound(do_write(m, s), W, L)
<1>0. s \in 0..m.ctx.server /\ s \in Conns /\ s # Client /\ m \in Worlds /\ m.conn[s] \in Connections
  BY ServingIn, LengthType, ConnType
<1>1. PICK i \in 0..(ReqLen - 1) : m.conn[s].out = << Units(Current(L), i, ReqLen - i) >>
  BY DEF Unsent
<1>2. /\ m.conn[s].out # << >> /\ Head(m.conn[s].out) \in Seq(Unit)
      /\ Head(m.conn[s].out) # << >>
  BY <1>1, UnsentBuffer
<1>3. CASE ~m.conn[s].connected
  <2>1. do_write(m, s) = Begin(m, "resolve", s, << >>)
    <3>1. [m EXCEPT !.ctx.server = s] = m
      BY LengthType, ContextType DEF Worlds, Contexts
    <3> QED
      BY <1>0, <1>2, <1>3, <3>1 DEF do_write, start
  <2>2. <<"resolve", s>> \in StepKinds /\ << >> \in Seq(Unit) /\ "resolve" \in Operations
        /\ Len(<< >>) = 0
    BY <1>0 DEF StepKinds, Going, Operations
  <2>3. StepOk(m.conn[s], W, L, "resolve", s, << >>)
    BY <1>0, <2>2 DEF StepOk
  <2> QED
    BY <1>0, <2>1, <2>2, <2>3, BeginSound
<1>4. CASE m.conn[s].connected
  <2> DEFINE r == [m.conn[s] EXCEPT !.writing = TRUE]
             w == With(m, s, r)
  <2>1. do_write(m, s) = Begin(w, "write", s, Head(m.conn[s].out))
    BY <1>0, <1>2, <1>4 DEF do_write, With
  <2>2. /\ r \in Connections /\ r.stopped = m.conn[s].stopped /\ r.connected = m.conn[s].connected
        /\ r.out = m.conn[s].out /\ r.encoded = ReqLen /\ r.message = m.conn[s].message
    BY <1>0 DEF Connections
  <2> HIDE DEF r
  <2>3. r.encoded # 0 /\ (r.connected => ~r.stopped)
    BY <2>2
  <2>4. /\ Good(w) /\ NoStep(w) /\ Base(w, W, L) /\ w.ctx = m.ctx /\ w.conn[s] = r
        /\ Taken(w, L)
    BY <1>0, <2>2, <2>3, SetBase
  <2> HIDE DEF w
  <2>5. <<"write", s>> \in StepKinds /\ << >> \in Seq(Unit) /\ "write" \in Operations
        /\ Len(<< >>) = 0
    BY <1>0 DEF StepKinds, Operations
  <2>6. StepOk(w.conn[s], W, L, "write", s, << >>)
    BY <1>0, <2>2, <2>4, <2>5 DEF StepOk, Unsent
  <2> DEFINE d == Head(m.conn[s].out)
  <2>7. d \in Seq(Unit) /\ d # << >> /\ d = Head(w.conn[s].out)
    BY <1>2, <2>2, <2>4
  <2> HIDE DEF d
  <2>8. Sound(Begin(w, "write", s, d), W, L)
    BY <1>0, <1>2, <1>4, <2>2, <2>4, <2>5, <2>6, <2>7, BeginSound
  <2> QED
    BY <2>1, <2>8 DEF d
<1> QED
  BY <1>3, <1>4

\* The current request goes to the current server connection.
LEMMA WriteServerSound ==
  ASSUME NEW m, Good(m), NoStep(m), NEW W, NEW L \in [Conns -> Unit], Base(m, W, L),
         NEW s \in Servers, s = m.ctx.server, Taken(m, L),
         m.conn[s].stopped \/ m.conn[s].encoded = 0, Unasked(W, L),
         NEW msg, msg = Units(Current(L), 0, ReqLen), NEW w, w = write(m, s, msg, TRUE)
  PROVE  w.fault = "none" => Sound(w, W, L)
<1>0. s \in 0..m.ctx.server /\ s \in Conns /\ s # Client /\ m \in Worlds /\ m.conn[s] \in Connections
  BY ServingIn, LengthType, ConnType
<1>1. CASE m.conn[s].stopped
  BY <1>0, <1>1, AbortFault DEF write
<1>2. CASE ~m.conn[s].stopped
  <2>1. Current(L) \in Nat /\ 0 \in Nat /\ ReqLen \in Nat /\ ReqLen # 0
    BY ClientIn DEF Current, Unit
  <2>2. msg \in Seq(Unit) /\ Len(msg) = ReqLen /\ msg # << >>
    <3>1. Spans(msg, Current(L), 0, ReqLen)
      BY <2>1, UnitsSpan
    <3>2. msg # << >>
      BY <2>1, UnitsEmpty
    <3> QED
      BY <3>1, <3>2 DEF Spans
  <2>3. PICK v, r : Encodes(m, s, msg, TRUE, v, r)
    <3>1. m.conn[s].encoded <= Len(msg)
      BY <1>2, <2>1, <2>2
    <3> QED
      BY <1>0, <1>2, <2>2, <3>1, WriteParts
  <2>4. /\ v = cancel_timer(m, s) /\ w = do_write(With(v, s, r), s)
        /\ r \in Connections /\ r.stopped = v.conn[s].stopped
        /\ r.encoded = encoded_after(s, 0, msg, TRUE) /\ r.message = v.conn[s].message
        /\ r.connected = v.conn[s].connected /\ r.writing = v.conn[s].writing
        /\ r.out = IF Encoding(m, s, msg) = << >> THEN v.conn[s].out
                                                  ELSE Append(v.conn[s].out, Encoding(m, s, msg))
    BY <1>2, <2>3 DEF Encodes
  <2>5. Still(m, v) /\ v.conn = m.conn
    BY <1>0, <2>4, CancelTimerStill
  <2>6. /\ Good(v) /\ NoStep(v) /\ Base(v, W, L) /\ Taken(v, L) /\ v.ctx = m.ctx
    BY <2>5, StillApart, ApartSound DEF Still
  <2>7. m.conn[s].out = << >> /\ m.conn[s].message = << >> /\ ~m.conn[s].writing
    BY <1>2 DEF Base
  <2>8. Encoding(m, s, msg) = msg
    <3>1. SubSeq(msg, 0 + 1, Len(msg)) = Units(Current(L), 0 + 0, ReqLen - 0)
      BY <2>1, <2>2, UnitsPart
    <3>2. OutLen(s) = ReqLen /\ 0 + 0 = 0 /\ ReqLen - 0 = ReqLen
      BY <1>0 DEF OutLen
    <3> QED
      BY <1>2, <2>1, <3>1, <3>2 DEF Encoding
  <2>9. r.out = << msg >> /\ r.encoded = ReqLen
    <3>1. r.out = Append(<< >>, msg)
      BY <2>2, <2>4, <2>5, <2>7, <2>8
    <3>2. Append(<< >>, msg) = << msg >>
      BY <2>2
    <3>3. r.encoded = ReqLen
      BY <1>0, <2>4 DEF encoded_after, OutLen
    <3> QED
      BY <3>1, <3>2, <3>3
  <2> DEFINE x == With(v, s, r)
  <2>10. r.connected => ~r.stopped
    BY <1>0, <2>4, <2>5 DEF Base
  <2>11. /\ Good(x) /\ NoStep(x) /\ Base(x, W, L) /\ x.ctx = m.ctx /\ x.conn[s] = r /\ Taken(x, L)
    BY <1>0, <2>1, <2>4, <2>6, <2>9, <2>10, SetBase
  <2> HIDE DEF x
  <2>12. Unsent(r, W, L, s, 0)
    <3>1. 0 \in 0..(ReqLen - 1) /\ ReqLen - 0 = ReqLen /\ 0 + 0 = 0 /\ 0 <= ReqLen
      BY <2>1
    <3>2. Forwarded(W, L, s, 0)
      BY DEF Unasked, Forwarded
    <3>3. L[s][1] < Current(L)
      BY DEF Unasked
    <3>4. /\ r.out = << Units(Current(L), 0, ReqLen - 0) >>
          /\ 0 + 0 <= ReqLen /\ Forwarded(W, L, s, 0 + 0)
      BY <2>9, <3>1, <3>2
    <3> QED
      BY <2>4, <2>5, <2>7, <3>1, <3>3, <3>4 DEF Unsent
  <2>13. ~r.stopped /\ ~r.writing
    BY <1>2, <2>4, <2>5, <2>7
  <2>14. Sound(do_write(x, s), W, L)
    BY <2>9, <2>11, <2>12, <2>13, DoWriteSound
  <2> QED
    BY <2>4, <2>14 DEF x
<1> QED
  BY <1>1, <1>2

-----------------------------------------------------------------------------
(* What is sent to the client is no matter of the requests.                 *)
LEMMA SetApart ==
  ASSUME NEW m, Good(m), NEW r \in Connections, r.stopped = m.conn[Client].stopped,
         r.connected = m.conn[Client].connected, r.message = m.conn[Client].message
  PROVE  LET w == With(m, Client, r)
         IN  Apart(m, w) /\ w.conn[Client] = r /\ w.ctx = m.ctx /\ w.fault = m.fault
<1> DEFINE w == With(m, Client, r)
<1>0. Client \in Conns /\ m \in Worlds
  BY ClientIn, LengthType
<1>1. /\ w.queue = m.queue /\ w.pending = m.pending /\ w.ctx = m.ctx /\ w.fault = m.fault
      /\ w.conn[Client] = r /\ \A k \in Conns \ {Client} : w.conn[k] = m.conn[k]
      /\ Same(m, w)
  BY <1>0, SetFields
<1>2. Good(w)
  BY <1>0, WithGood DEF Quiet
<1> HIDE DEF w
<1>3. \A c \in Conns : ApartConn(c, m.conn[c], w.conn[c]) /\ w.conn[c].connected = m.conn[c].connected
  BY <1>1 DEF ApartConn
<1>4. \A p \in w.pending : p.conn \in Conns
  <2>1. w.pending \subseteq PendingOps
    BY <1>2, LengthType DEF Worlds
  <2> QED
    BY <2>1 DEF PendingOps
<1>5. \A fn, c, d : Doing(w, fn, c, d) => Doing(m, fn, c, d)
  BY <1>1 DEF Doing
<1>6. Apart(m, w)
  BY <1>1, <1>2, <1>3, <1>4, <1>5, ClientIn DEF Apart, Same
<1> QED
  BY <1>1, <1>6 DEF w

LEMMA BeginWriteApart ==
  ASSUME NEW m, Good(m), NEW d \in Seq(Unit)
  PROVE  Apart(m, Begin(m, "write", Client, d))
<1> DEFINE w == Begin(m, "write", Client, d)
<1>1. /\ w.queue = m.queue /\ w.conn = m.conn /\ w.ctx = m.ctx
      /\ w.pending = m.pending \cup {[op |-> "write", conn |-> Client, data |-> d]}
  BY LengthType, BeginFields
<1>2. Kinds(w) = Kinds(m) \cup {<<"write", Client>>}
  BY LengthType, BeginAdds DEF Adds
<1>3. Good(w)
  BY ClientExistsGood, BeginQuiet DEF Quiet, Operations
<1> HIDE DEF w
<1>4. <<"write", Client>> \notin StepKinds
  BY DEF StepKinds, Going
<1>5. \A fn, c, e : Doing(w, fn, c, e) => Doing(m, fn, c, e)
  BY <1>1, <1>4 DEF Doing
<1>6. Apart(m, w)
  BY <1>1, <1>2, <1>3, <1>4, <1>5 DEF Apart, ApartConn
<1> QED
  BY <1>6 DEF w

LEMMA DoWriteApart ==
  ASSUME NEW m, Good(m), m.conn[Client].connected
  PROVE  Apart(m, do_write(m, Client))
<1> DEFINE r == [m.conn[Client] EXCEPT !.writing = TRUE]
           v == With(m, Client, r)
           d == Head(m.conn[Client].out)
<1>1. CASE m.conn[Client].writing \/ m.conn[Client].out = << >>
  BY <1>1, StillRefl, StillApart DEF do_write
<1>2. CASE ~(m.conn[Client].writing \/ m.conn[Client].out = << >>)
  <2>0. m.conn[Client] \in Connections
    BY ClientIn, ConnType
  <2>1. do_write(m, Client) = Begin(v, "write", Client, d)
    BY <1>2 DEF do_write, With
  <2>2. /\ r \in Connections /\ r.stopped = m.conn[Client].stopped
        /\ r.connected = m.conn[Client].connected /\ r.message = m.conn[Client].message
    BY <2>0 DEF Connections
  <2>3. d \in Seq(Unit)
    BY <1>2, <2>0 DEF Connections
  <2> HIDE DEF r, d
  <2>4. Apart(m, v)
    BY <2>2, SetApart
  <2> HIDE DEF v
  <2>5. Apart(v, Begin(v, "write", Client, d))
    BY <2>3, <2>4, BeginWriteApart DEF Apart
  <2> QED
    BY <2>1, <2>4, <2>5, ApartTrans
<1> QED
  BY <1>1, <1>2

LEMMA AbortStill ==
  ASSUME NEW m, Good(m), NEW f \in Faults
  PROVE  Apart(m, Abort(m, f))
<1> DEFINE w == Abort(m, f)
<1>1. /\ w.queue = m.queue /\ w.pending = m.pending /\ w.conn = m.conn /\ w.ctx = m.ctx
  BY LengthType, AbortFields
<1>2. Good(w)
  BY AbortQuiet DEF Quiet
<1> HIDE DEF w
<1>3. Apart(m, w)
  BY <1>1, <1>2 DEF Apart, ApartConn, Doing, Kinds
<1> QED
  BY <1>3 DEF w

LEMMA WriteApart ==
  ASSUME NEW m, Good(m), Always(m), NEW msg \in Seq(Unit), NEW completed \in BOOLEAN
  PROVE  Apart(m, write(m, Client, msg, completed))
<1> DEFINE w == write(m, Client, msg, completed)
           done == m.conn[Client].encoded
<1>1. CASE m.conn[Client].stopped
  BY <1>1, AbortStill DEF write, Faults
<1>2. CASE ~m.conn[Client].stopped /\ done # OutLen(Client) /\ done > Len(msg)
  BY <1>2, AbortStill DEF write, Faults
<1>3. CASE ~m.conn[Client].stopped /\ ~(done # OutLen(Client) /\ done > Len(msg))
  <2>0. m.conn[Client] \in Connections /\ Client \in 0..m.ctx.server /\ Len(msg) \in Nat
    BY ClientIn, ConnType, ClientExistsGood
  <2>1. done = OutLen(Client) \/ done <= Len(msg)
    BY <1>3, <2>0 DEF Connections
  <2>2. PICK v, r : Encodes(m, Client, msg, completed, v, r)
    BY <1>3, <2>0, <2>1, WriteParts
  <2>3. /\ v = cancel_timer(m, Client) /\ w = do_write(With(v, Client, r), Client)
        /\ r \in Connections /\ r.stopped = v.conn[Client].stopped
        /\ r.message = v.conn[Client].message /\ r.connected = v.conn[Client].connected
    BY <2>2 DEF Encodes
  <2>4. Still(m, v) /\ v.conn = m.conn
    BY <2>0, <2>3, CancelTimerStill
  <2>5. Apart(m, v) /\ Good(v)
    BY <2>4, StillApart DEF Still
  <2> DEFINE x == With(v, Client, r)
  <2>6. Apart(v, x) /\ x.conn[Client] = r
    BY <2>3, <2>5, SetApart
  <2>7. r.connected
    BY <1>3, <2>3, <2>4 DEF Always
  <2> HIDE DEF x
  <2>8. Apart(x, do_write(x, Client))
    BY <2>6, <2>7, DoWriteApart DEF Apart
  <2>9. w = do_write(x, Client)
    BY <2>3 DEF x
  <2> HIDE DEF w
  <2>10. Apart(m, w)
    BY <2>5, <2>6, <2>8, <2>9, ApartTrans
  <2> QED
    BY <2>10 DEF w
<1> QED
  BY <1>1, <1>2, <1>3

\* connection::on_write as the changes it makes: v has writing_ cleared, and w
\* also what was sent taken out of buffer_out_.
Halt(r) == [r EXCEPT !.writing = FALSE]
Rest(r, data) == [r EXCEPT !.writing = FALSE, !.out = unsent(r.out, Len(data))]
Idled(m, c) == With(m, c, Halt(m.conn[c]))
Rested(m, c, data) == With(m, c, Rest(m.conn[c], data))
LEMMA OnWriteCases ==
  ASSUME NEW m, Good(m), NEW c \in 0..m.ctx.server, NEW res, NEW data \in Seq(Unit)
  PROVE  on_write(m, c, res, data) =
           IF m.conn[c].stopped THEN Idled(m, c)
           ELSE IF res # "ok" THEN stop(Idled(m, c), c, TRUE)
           ELSE IF m.conn[c].out = << >> THEN Abort(m, "end_iterator")
           ELSE IF unsent(m.conn[c].out, Len(data)) # << >> THEN do_write(Rested(m, c, data), c)
           ELSE on_written(Rested(m, c, data), c)
<1> DEFINE out == m.conn[c].out
           o == unsent(out, Len(data))
           idle == [m EXCEPT !.conn[c].writing = FALSE]
           rest == [idle EXCEPT !.conn[c].out = o]
<1>0. c \in Conns /\ m \in Worlds /\ m.conn[c] \in Connections
  BY ServerType, LengthType, ConnType
<1>1. idle = Idled(m, c)
  BY DEF Idled, With, Halt
<1>o. o = unsent(m.conn[c].out, Len(data))
  OBVIOUS
<1> HIDE DEF o
<1>2. rest = With(m, c, [m.conn[c] EXCEPT !.writing = FALSE, !.out = o]) /\ rest.conn[c].out = o
  BY <1>0 DEF With, Worlds, Connections
<1>3. rest = Rested(m, c, data)
  BY <1>2, <1>o DEF Rested, Rest
<1>4. on_write(m, c, res, data) =
           IF m.conn[c].stopped THEN idle
           ELSE IF res # "ok" THEN stop(idle, c, TRUE)
           ELSE IF m.conn[c].out = << >> THEN Abort(m, "end_iterator")
           ELSE IF rest.conn[c].out # << >> THEN do_write(rest, c)
           ELSE on_written(rest, c)
  BY DEF on_write, o
<1> HIDE DEF idle, rest
<1> QED
  BY <1>1, <1>2, <1>3, <1>4, <1>o

\* The records those changes make.
LEMMA IdledRecord ==
  ASSUME NEW m, Good(m), NEW c \in Conns, NEW r, r = Halt(m.conn[c])
  PROVE  /\ r \in Connections /\ r.stopped = m.conn[c].stopped /\ r.connected = m.conn[c].connected
         /\ r.message = m.conn[c].message /\ r.encoded = m.conn[c].encoded
         /\ r.out = m.conn[c].out /\ ~r.writing
<1>1. m.conn[c] \in Connections
  BY ConnType
<1> QED
  BY <1>1 DEF Connections, Halt

LEMMA RestedRecord ==
  ASSUME NEW m, Good(m), NEW c \in Conns, m.conn[c].out # << >>, NEW data \in Seq(Unit),
         NEW r, r = Rest(m.conn[c], data)
  PROVE  /\ r \in Connections /\ r.stopped = m.conn[c].stopped /\ r.connected = m.conn[c].connected
         /\ r.message = m.conn[c].message /\ r.encoded = m.conn[c].encoded
         /\ r.out = unsent(m.conn[c].out, Len(data)) /\ ~r.writing
<1>1. m.conn[c] \in Connections
  BY ConnType
<1> DEFINE o == unsent(m.conn[c].out, Len(data))
<1>2. o \in Seq(Seq(Unit))
  <2>1. m.conn[c].out \in Seq(Seq(Unit)) /\ Len(data) \in Nat
    BY <1>1 DEF Connections
  <2> QED
    BY <2>1, UnsentType
<1>3. r = [m.conn[c] EXCEPT !.writing = FALSE, !.out = o]
  BY DEF Rest
<1> HIDE DEF o
<1>4. /\ r \in Connections /\ r.stopped = m.conn[c].stopped /\ r.connected = m.conn[c].connected
      /\ r.message = m.conn[c].message /\ r.encoded = m.conn[c].encoded
      /\ r.out = o /\ ~r.writing
  BY <1>1, <1>2, <1>3 DEF Connections
<1> QED
  BY <1>4 DEF o

LEMMA OnWriteClientApart ==
  ASSUME NEW m, Good(m), Always(m), NEW res, NEW data \in Seq(Unit)
  PROVE  Apart(m, on_write(m, Client, res, data))
<1> DEFINE r == Halt(m.conn[Client])
           q == Rest(m.conn[Client], data)
           v == Idled(m, Client)
           w == Rested(m, Client, data)
<1>0. Client \in Conns /\ Client \in 0..m.ctx.server
  BY ClientExistsGood
<1>1. Apart(m, v)
  <2>1. /\ r \in Connections /\ r.stopped = m.conn[Client].stopped
        /\ r.connected = m.conn[Client].connected /\ r.message = m.conn[Client].message
    BY <1>0, IdledRecord
  <2>2. v = With(m, Client, r)
    BY DEF Idled
  <2> HIDE DEF r, v
  <2> QED
    BY <2>1, <2>2, SetApart
<1>2. m.conn[Client].out # << >> =>
        /\ Apart(m, w) /\ w.conn[Client].connected = m.conn[Client].connected
        /\ w.ctx = m.ctx
  <2> HAVE m.conn[Client].out # << >>
  <2>0. q = Rest(m.conn[Client], data)
    OBVIOUS
  <2>2. w = With(m, Client, q)
    BY DEF Rested
  <2> HIDE DEF q, w
  <2>1. /\ q \in Connections /\ q.stopped = m.conn[Client].stopped
        /\ q.connected = m.conn[Client].connected /\ q.message = m.conn[Client].message
    BY <1>0, <2>0, RestedRecord
  <2>3. /\ Apart(m, With(m, Client, q)) /\ With(m, Client, q).conn[Client] = q
        /\ With(m, Client, q).ctx = m.ctx
    BY <2>1, SetApart
  <2> QED
    BY <2>1, <2>2, <2>3
<1>c. on_write(m, Client, res, data) =
           IF m.conn[Client].stopped THEN v
           ELSE IF res # "ok" THEN stop(v, Client, TRUE)
           ELSE IF m.conn[Client].out = << >> THEN Abort(m, "end_iterator")
           ELSE IF unsent(m.conn[Client].out, Len(data)) # << >> THEN do_write(w, Client)
           ELSE on_written(w, Client)
  BY <1>0, OnWriteCases
<1> HIDE DEF v, w
<1>3. Apart(m, stop(v, Client, TRUE))
  <2>1. Good(v) /\ Client \in 0..v.ctx.server
    BY <1>0, <1>1 DEF Apart
  <2>2. Still(v, stop(v, Client, TRUE))
    BY <2>1, StopStill
  <2> QED
    BY <1>1, <2>2, StillApart, ApartTrans
<1>4. Apart(m, Abort(m, "end_iterator"))
  BY AbortStill DEF Faults
<1>5. ASSUME ~m.conn[Client].stopped, m.conn[Client].out # << >>
      PROVE  Apart(m, do_write(w, Client)) /\ Apart(m, on_written(w, Client))
  <2>1. Apart(m, w) /\ w.conn[Client].connected /\ Good(w) /\ Client \in 0..w.ctx.server
    BY <1>0, <1>2, <1>5 DEF Always, Apart
  <2>2. Apart(w, do_write(w, Client))
    BY <2>1, DoWriteApart
  <2>3. Apart(w, Post(w, Task("WRITE", Client)))
    BY <2>1, PostStill, StillApart
  <2> QED
    BY <2>1, <2>2, <2>3, ApartTrans DEF on_written
<1> QED
  BY <1>1, <1>3, <1>4, <1>5, <1>c

LEMMA OnTimerApart ==
  ASSUME NEW m, Good(m), NEW c \in 0..m.ctx.server, NEW res
  PROVE  Apart(m, on_timer(m, c, res))
<1> DEFINE r == [m.conn[c] EXCEPT !.running = FALSE]
           v == With(m, c, r)
<1>0. c \in Conns /\ m \in Worlds
  BY ServerType, LengthType
<1>1. m.conn[c] \in Connections
  BY <1>0, ConnType
<1>2. r \in Connections /\ StillConn(m.conn[c], r) /\ r.stopped = m.conn[c].stopped
        /\ r.connected = m.conn[c].connected
  BY <1>1 DEF Connections, StillConn
<1>3. v = [m EXCEPT !.conn[c].running = FALSE]
  BY DEF With
<1> HIDE DEF r
<1>4. /\ v.queue = m.queue /\ v.pending = m.pending /\ v.ctx = m.ctx /\ v.fault = m.fault
      /\ v.conn[c] = r /\ \A k \in Conns \ {c} : v.conn[k] = m.conn[k]
      /\ Same(m, v)
  BY <1>0, SetFields
<1>5. Good(v)
  BY <1>0, <1>2, WithGood DEF Quiet
<1>6. on_timer(m, c, res) = IF res = "ok" THEN stop(v, c, c = Client) ELSE v
  BY <1>3 DEF on_timer
<1> HIDE DEF v
<1>7. Apart(m, v)
  <2>1. \A k \in Conns : ApartConn(k, m.conn[k], v.conn[k]) /\ v.conn[k].connected = m.conn[k].connected
    BY <1>2, <1>4 DEF ApartConn, StillConn
  <2>2. \A p \in v.pending : p.conn \in Conns
    <3>1. v.pending \subseteq PendingOps
      BY <1>5, LengthType DEF Worlds
    <3> QED
      BY <3>1 DEF PendingOps
  <2>3. \A s \in Servers : s > m.ctx.server => v.conn[s] = m.conn[s]
    <3>1. \A s \in Servers : s > m.ctx.server => s # c
      BY ServerType
    <3> QED
      BY <1>4, <3>1
  <2> QED
    BY <1>4, <1>5, <2>1, <2>2, <2>3 DEF Apart, Same, Doing
<1>8. c \in 0..v.ctx.server /\ (c = Client) \in BOOLEAN
  BY <1>4
<1>9. Apart(v, stop(v, c, c = Client))
  BY <1>5, <1>8, StopStill, StillApart
<1> QED
  BY <1>6, <1>7, <1>9, ApartTrans

LEMMA OnStopApart ==
  ASSUME NEW m, Good(m), NEW c
  PROVE  Apart(m, on_stop(m, c))
<1>1. Client \in 0..m.ctx.server /\ m.ctx.server \in 0..m.ctx.server
  BY ClientExistsGood, ServerType
<1>2. Apart(m, m) /\ Apart(m, stop(m, Client, FALSE)) /\ Apart(m, stop(m, m.ctx.server, FALSE))
  BY <1>1, StopStill, StillRefl, StillApart
<1> QED
  BY <1>2 DEF on_stop

\* A world that differs in what the invariant does not look at.
LEMMA SameApart ==
  ASSUME NEW m, Good(m), NEW w, Good(w), w.queue = m.queue, w.pending = m.pending,
         w.conn = m.conn, w.ctx.server = m.ctx.server
  PROVE  Apart(m, w)
  BY DEF Apart, ApartConn, Doing, Kinds

LEMMA StopAllApart ==
  ASSUME NEW m, Good(m), m.ctx = ctx,
         NEW stopped, stopped = IF Client \in managed THEN stop(m, Client, FALSE) ELSE m,
         NEW all, all = IF ctx.server \in managed THEN stop(stopped, ctx.server, FALSE) ELSE stopped,
         NEW w, w = [all EXCEPT !.managed = {}], Good(w)
  PROVE  Apart(m, w)
<1>1. Client \in 0..m.ctx.server /\ ctx.server \in 0..m.ctx.server
  BY ClientExistsGood, ServerType
<1>2. Still(m, stopped)
  BY <1>1, StillRefl, StopStill
<1>3. Good(stopped) /\ ctx.server \in 0..stopped.ctx.server
  BY <1>1, <1>2 DEF Still
<1>4. Still(stopped, all)
  BY <1>3, StillRefl, StopStill
<1>5. Good(all) /\ all \in Worlds
  BY <1>4, LengthType DEF Still
<1>6. w.queue = all.queue /\ w.pending = all.pending /\ w.conn = all.conn /\ w.ctx = all.ctx
  BY <1>5 DEF Worlds
<1>7. Apart(all, w)
  BY <1>5, <1>6, SameApart
<1> QED
  BY <1>2, <1>4, <1>7, StillApart, ApartTrans

-----------------------------------------------------------------------------
(* The steps of a session: each starts in a world without steps, and ends   *)
(* in a sound one.                                                          *)
LEMMA RestSound ==
  ASSUME NEW m, NoStep(m), NEW W, NEW L, Base(m, W, L), Taken(m, L), Spare(m)
  PROVE  Sound(m, W, L)
  BY NoStepDoing DEF Sound, StepsOk

LEMMA StopSound ==
  ASSUME NEW m, Good(m), NoStep(m), NEW W, NEW L, Base(m, W, L), NEW notify \in BOOLEAN,
         NEW c, \/ c = Client /\ Spare(m)
                \/ c \in Servers /\ c = m.ctx.server /\ Taken(m, L)
  PROVE  Sound(stop(m, c, notify), W, L)
<1> DEFINE w == stop(m, c, notify)
<1>1. c \in 0..m.ctx.server
  BY ClientExistsGood, ServerType
<1>2. Still(m, w) /\ w.conn[c].stopped
  BY <1>1, StopStill
<1> HIDE DEF w
<1>3. /\ NoStep(w) /\ Base(w, W, L) /\ (Taken(m, L) => Taken(w, L))
      /\ Spare(m) => Spare(w)
  BY <1>2, StillApart, ApartSound
<1>4. w.ctx = m.ctx
  BY <1>2 DEF Still
<1>5. Taken(w, L) /\ Spare(w)
  BY <1>2, <1>3, <1>4 DEF Taken, Spare
<1>6. Sound(w, W, L)
  BY <1>3, <1>5, RestSound
<1> QED
  BY <1>6 DEF w

\* What a write leaves of a request.
LEMMA UnsentRest ==
  ASSUME NEW L \in [Conns -> Unit], NEW i \in 0..(ReqLen - 1), NEW n \in Nat, i + n <= ReqLen,
         NEW o, o = << Units(Current(L), i, ReqLen - i) >>
  PROVE  unsent(o, n) = IF i + n = ReqLen THEN << >>
                        ELSE << Units(Current(L), i + n, ReqLen - (i + n)) >>
<1>1. /\ o # << >> /\ Head(o) = Units(Current(L), i, ReqLen - i)
      /\ Len(Head(o)) = ReqLen - i /\ Tail(o) = << >>
  BY UnsentBuffer
<1>2. Current(L) \in Nat
  BY ClientIn DEF Current, Unit
<1>3. CASE i + n = ReqLen
  <2>1. ~(n < Len(Head(o)))
    BY <1>1, <1>3
  <2> QED
    BY <1>1, <1>3, <2>1 DEF unsent
<1>4. CASE i + n # ReqLen
  <2>0. i \in Nat /\ ReqLen - i \in Nat /\ n <= ReqLen - i
    OBVIOUS
  <2>1. n < Len(Head(o))
    BY <1>1, <1>4
  <2>2. SubSeq(Units(Current(L), i, ReqLen - i), n + 1, ReqLen - i)
          = Units(Current(L), i + n, (ReqLen - i) - n)
    <3> DEFINE l == ReqLen - i
               cur == Current(L)
    <3>1. cur \in Nat
      BY <1>2
    <3>2. l \in Nat
      BY <2>0
    <3>3. n <= l
      BY <2>0
    <3>4. l <= l
      BY <3>2
    <3>5. i \in Nat
      OBVIOUS
    <3> HIDE DEF l, cur
    <3> DEFINE b == Units(cur, i, l)
               y == SubSeq(b, n + 1, l)
    <3>6. Spans(b, cur, i, l)
      BY <3>1, <3>2, <3>5, UnitsSpan
    <3> HIDE DEF b
    <3>7. b \in Seq(Unit) /\ Len(b) = l /\ \A j \in 1..l : b[j] = <<cur, i + j>>
      BY <3>6 DEF Spans
    <3>8. PartOf(y, b, n, l)
      BY <3>2, <3>4, <3>7, SubSeqPart
    <3> HIDE DEF y
    <3>9. /\ y \in Seq(Unit) /\ Len(y) = l - n
          /\ \A j \in 1..Len(y) : n + j \in 1..l /\ y[j] = b[n + j]
      BY <3>2, <3>3, <3>8 DEF PartOf
    <3>10. \A j \in 1..(l - n) : i + (n + j) = (i + n) + j
      BY ONLY <3>2, <3>5, n \in Nat
    <3>11. \A j \in 1..(l - n) : y[j] = <<cur, (i + n) + j>>
      BY <3>7, <3>9, <3>10
    <3>12. l - n \in Nat /\ i + n \in Nat
      BY ONLY <3>2, <3>3, <3>5, n \in Nat
    <3>13. Spans(y, cur, i + n, l - n)
      BY <3>9, <3>11 DEF Spans
    <3>14. y = Units(cur, i + n, l - n)
      BY <3>1, <3>12, <3>13, SpansEqual
    <3> QED
      BY <3>14 DEF l, cur, y, b
  <2>3. (ReqLen - i) - n = ReqLen - (i + n)
    BY <2>0
  <2> DEFINE x == Units(Current(L), i + n, ReqLen - (i + n))
  <2>4. SubSeq(Head(o), n + 1, Len(Head(o))) = x
    BY <1>1, <2>2, <2>3
  <2>5. x \in Seq(Unit)
    <3>1. i + n \in Nat /\ ReqLen - (i + n) \in Nat
      BY <2>0
    <3> QED
      BY <1>2, <3>1, UnitsType
  <2> HIDE DEF x
  <2>6. unsent(o, n) = << x >> \o << >>
    BY <1>1, <2>1, <2>4 DEF unsent
  <2>7. << x >> \o << >> = << x >>
    BY <2>5
  <2> QED
    BY <1>4, <2>6, <2>7 DEF x
<1> QED
  BY <1>3, <1>4

LEMMA OnWriteServerSound ==
  ASSUME NEW m, Good(m), NoStep(m), NEW W, NEW L \in [Conns -> Unit], Base(m, W, L), Taken(m, L),
         NEW s \in Servers, s = m.ctx.server, NEW res, NEW data \in Seq(Unit),
         StepOk(m.conn[s], W, L, "write", s, data),
         NEW w, w = on_write(m, s, res, data), w.fault = "none"
  PROVE  Sound(w, W, L)
<1> DEFINE r == Halt(m.conn[s])
           q == Rest(m.conn[s], data)
           v == Idled(m, s)
           x == Rested(m, s, data)
           n == Len(data)
<1>0. s \in 0..m.ctx.server /\ s \in Conns /\ s # Client /\ m \in Worlds /\ n \in Nat
  BY ServingIn, LengthType
<1>1. m.conn[s].encoded = ReqLen /\ Unsent(m.conn[s], W, L, s, n)
  BY <1>0 DEF StepOk
<1>e. ReqLen # 0 /\ (m.conn[s].connected => ~m.conn[s].stopped)
  BY <1>0 DEF Base
<1>2. /\ Good(v) /\ NoStep(v) /\ Base(v, W, L) /\ v.ctx = m.ctx /\ Taken(v, L)
      /\ v.conn[s].stopped = m.conn[s].stopped
  <2>0. r = Halt(m.conn[s])
    OBVIOUS
  <2>1. v = With(m, s, r)
    BY DEF Idled
  <2> HIDE DEF r, v
  <2>2. /\ r \in Connections /\ r.stopped = m.conn[s].stopped /\ r.connected = m.conn[s].connected
        /\ r.encoded = m.conn[s].encoded
    BY <1>0, <2>0, IdledRecord
  <2>3. r.encoded # 0 /\ (r.connected => ~r.stopped)
    BY <1>1, <1>e, <2>2
  <2> QED
    BY <1>0, <2>1, <2>2, <2>3, SetBase
<1>b. on_write(m, s, res, data) =
           IF m.conn[s].stopped THEN v
           ELSE IF res # "ok" THEN stop(v, s, TRUE)
           ELSE IF m.conn[s].out = << >> THEN Abort(m, "end_iterator")
           ELSE IF unsent(m.conn[s].out, Len(data)) # << >> THEN do_write(x, s)
           ELSE on_written(x, s)
  <2>1. s \in 0..m.ctx.server
    BY <1>0
  <2> QED
    BY ONLY <2>1, Good(m), data \in Seq(Unit), OnWriteCases
<1>c. w =  IF m.conn[s].stopped THEN v
           ELSE IF res # "ok" THEN stop(v, s, TRUE)
           ELSE IF m.conn[s].out = << >> THEN Abort(m, "end_iterator")
           ELSE IF unsent(m.conn[s].out, n) # << >> THEN do_write(x, s)
           ELSE on_written(x, s)
  BY ONLY <1>b, w = on_write(m, s, res, data)
<1> HIDE DEF v
<1>3. CASE m.conn[s].stopped
  <2>1. Spare(v)
    BY <1>2, <1>3 DEF Spare
  <2> QED
    BY <1>2, <1>3, <1>c, <2>1, RestSound
<1>4. CASE ~m.conn[s].stopped /\ res # "ok"
  <2>1. Sound(stop(v, s, TRUE), W, L)
    BY <1>2, StopSound
  <2> QED
    BY <1>4, <1>c, <2>1
<1>5. CASE ~m.conn[s].stopped /\ res = "ok" /\ m.conn[s].out = << >>
  <2>1. w = Abort(m, "end_iterator")
    BY <1>5, <1>c
  <2> QED
    BY <1>0, <2>1, AbortFault
<1>6. CASE ~m.conn[s].stopped /\ res = "ok" /\ m.conn[s].out # << >>
  <2>0. q = Rest(m.conn[s], data)
    OBVIOUS
  <2>1. x = With(m, s, q)
    BY DEF Rested
  <2> HIDE DEF q, x
  <2>2. /\ q \in Connections /\ q.stopped = m.conn[s].stopped /\ q.connected = m.conn[s].connected
        /\ q.message = m.conn[s].message /\ q.encoded = m.conn[s].encoded
        /\ q.out = unsent(m.conn[s].out, n) /\ ~q.writing
    BY <1>0, <1>6, <2>0, RestedRecord
  <2>3. q.encoded # 0 /\ (q.connected => ~q.stopped)
    BY <1>1, <1>e, <2>2
  <2>4. /\ Good(x) /\ NoStep(x) /\ Base(x, W, L) /\ x.ctx = m.ctx /\ x.conn[s] = q /\ Taken(x, L)
    BY <1>0, <2>1, <2>2, <2>3, SetBase
  <2>5. PICK i \in 0..(ReqLen - 1) :
          /\ m.conn[s].out = << Units(Current(L), i, ReqLen - i) >>
          /\ i + n <= ReqLen /\ Forwarded(W, L, s, i + n)
    BY <1>1, <1>6 DEF Unsent
  <2>6. q.out = IF i + n = ReqLen THEN << >> ELSE << Units(Current(L), i + n, ReqLen - (i + n)) >>
    BY <1>0, <2>2, <2>5, UnsentRest
  <2>7. L[s][1] < Current(L) /\ q.message = << >>
    BY <1>1, <2>2 DEF Unsent
  <2>n. n \in Nat /\ i + n <= ReqLen
    BY <1>0, <2>5
  <2> HIDE DEF n
  <2>8. CASE i + n # ReqLen
    <3>1. i + n \in 0..(ReqLen - 1) /\ (i + n) + 0 = i + n /\ (i + n) + 0 <= ReqLen
      BY ONLY <2>n, <2>8, i \in 0..(ReqLen - 1), SizesAssumption
    <3>2. q.out # << >>
      <4>1. q.out = << Units(Current(L), i + n, ReqLen - (i + n)) >>
        BY <2>6, <2>8
      <4> QED
        BY <3>1, <4>1, UnsentBuffer
    <3>3. Unsent(q, W, L, s, 0)
      <4> DEFINE k == i + n
      <4>1. /\ k \in 0..(ReqLen - 1) /\ k + 0 <= ReqLen
            /\ q.out = << Units(Current(L), k, ReqLen - k) >> /\ Forwarded(W, L, s, k + 0)
        BY <2>5, <2>6, <2>8, <3>1
      <4> HIDE DEF k
      <4> QED
        BY <2>7, <4>1 DEF Unsent
    <3>4. w = do_write(x, s)
      BY <1>6, <1>c, <2>2, <3>2
    <3> QED
      BY <1>1, <1>6, <2>2, <2>4, <3>3, <3>4, DoWriteSound
  <2>9. CASE i + n = ReqLen
    <3>1. w = read(x, s)
      BY <1>0, <1>6, <1>c, <2>2, <2>6, <2>9 DEF on_written
    <3>2. Answer(q.message \o << >>, W, L, s)
      <4>1. q.message \o << >> = << >>
        BY <2>7
      <4>2. Current(L) \in Nat /\ L[s][1] # Current(L)
        <5>1. L[s][1] \in Nat /\ Current(L) \in Nat
          BY <1>0, ClientIn DEF Current, Unit
        <5> QED
          BY <2>7, <5>1
      <4>3. Units(Current(L), 0, 0) = << >>
        BY <4>2, UnitsEmpty
      <4> QED
        BY <2>5, <2>9, <4>1, <4>2, <4>3 DEF Answer
    <3>3. StepOk(x.conn[s], W, L, "read", s, << >>)
      BY <1>0, <1>1, <2>2, <2>4, <3>2 DEF StepOk
    <3>4. read(x, s).fault = "none" => Sound(read(x, s), W, L)
      BY <1>0, <2>4, <3>3, ReadSound
    <3> QED
      BY <3>1, <3>4
  <2> QED
    BY <2>8, <2>9
<1> QED
  BY <1>3, <1>4, <1>5, <1>6

\* What a server connection that is on its way finds next.
LEMMA WayOk ==
  ASSUME NEW r, NEW W, NEW L, NEW s \in Servers, NEW d,
         NEW fn \in {"resolve", "connect", "handshake", "CONNECT", "HANDSHAKE"},
         StepOk(r, W, L, fn, s, d)
  PROVE  /\ d = << >> /\ r.encoded = ReqLen /\ (~r.writing \/ r.stopped) /\ Unsent(r, W, L, s, 0)
         /\ \A k \in {"connect", "handshake", "CONNECT", "HANDSHAKE"} :
              StepOk(r, W, L, k, s, << >>)
<1>1. s # Client /\ Len(<< >>) = 0
  OBVIOUS
<1>2. d = << >> /\ r.encoded = ReqLen /\ (~r.writing \/ r.stopped) /\ Unsent(r, W, L, s, 0)
  BY <1>1 DEF StepOk
<1> QED
  BY <1>1, <1>2 DEF StepOk

LEMMA StoppedSound ==
  ASSUME NEW m, NoStep(m), NEW W, NEW L, Base(m, W, L), Taken(m, L), m.conn[m.ctx.server].stopped
  PROVE  Sound(m, W, L)
<1>1. Spare(m)
  BY DEF Spare
<1> QED
  BY <1>1, RestSound

LEMMA OnResolveSound ==
  ASSUME NEW m, Good(m), NoStep(m), NEW W, NEW L, Base(m, W, L), Taken(m, L),
         NEW s \in Servers, s = m.ctx.server, NEW res, NEW d,
         StepOk(m.conn[s], W, L, "resolve", s, d)
  PROVE  Sound(on_resolve(m, s, res), W, L)
<1>0. s \in 0..m.ctx.server /\ s \in Conns /\ s # Client
  BY ServingIn
<1>1. Sound(stop(m, s, TRUE), W, L)
  BY StopSound
<1>2. m.conn[s].stopped => Sound(m, W, L)
  BY StoppedSound
<1>3. Sound(Begin(m, "connect", s, << >>), W, L)
  <2>1. StepOk(m.conn[s], W, L, "connect", s, << >>)
    BY WayOk
  <2>2. <<"connect", s>> \in StepKinds /\ << >> \in Seq(Unit) /\ "connect" \in Operations
    BY <1>0 DEF StepKinds, Going, Operations
  <2> QED
    BY <1>0, <2>1, <2>2, BeginSound
<1> QED
  BY <1>1, <1>2, <1>3 DEF on_resolve

LEMMA ServerOnHandshakeSound ==
  ASSUME NEW m, Good(m), NoStep(m), NEW W, NEW L, Base(m, W, L), Taken(m, L),
         NEW s \in Servers, s = m.ctx.server, NEW res, NEW d,
         StepOk(m.conn[s], W, L, "handshake", s, d)
  PROVE  Sound(server_on_handshake(m, s, res), W, L)
<1>0. s \in 0..m.ctx.server /\ s \in Conns /\ s # Client
  BY ServingIn
<1>1. Sound(stop(m, s, TRUE), W, L)
  BY StopSound
<1>2. m.conn[s].stopped => Sound(m, W, L)
  BY StoppedSound
<1>3. Sound(Post(m, Task("HANDSHAKE", s)), W, L)
  <2>1. StepOk(m.conn[s], W, L, "HANDSHAKE", s, << >>)
    BY WayOk
  <2>2. <<"HANDSHAKE", s>> \in StepKinds /\ "HANDSHAKE" \in Events
    BY <1>0 DEF StepKinds, Going, Events
  <2> QED
    BY <1>0, <2>1, <2>2, PostSound
<1> QED
  BY <1>1, <1>2, <1>3 DEF server_on_handshake

LEMMA OnConnectSound ==
  ASSUME NEW m, Good(m), NoStep(m), NEW W, NEW L, Base(m, W, L), Taken(m, L),
         NEW s \in Servers, s = m.ctx.server, NEW res, NEW d,
         StepOk(m.conn[s], W, L, "connect", s, d)
  PROVE  Sound(on_connect(m, s, res), W, L)
<1> DEFINE r == [m.conn[s] EXCEPT !.connected = TRUE]
           v == With(m, s, r)
<1>0. s \in 0..m.ctx.server /\ s \in Conns /\ s # Client /\ m.conn[s] \in Connections
  BY ServingIn, ConnType
<1>1. Sound(stop(m, s, TRUE), W, L)
  BY StopSound
<1>2. m.conn[s].stopped => Sound(m, W, L)
  BY StoppedSound
<1>c. on_connect(m, s, res) = IF m.conn[s].stopped THEN m
                              ELSE IF res # "ok" THEN stop(m, s, TRUE)
                              ELSE Post(v, Task("CONNECT", s))
  BY DEF on_connect, With
<1>3. ASSUME ~m.conn[s].stopped PROVE Sound(Post(v, Task("CONNECT", s)), W, L)
  <2>1. StepOk(m.conn[s], W, L, "CONNECT", s, << >>) /\ m.conn[s].encoded = ReqLen
    BY WayOk
  <2>2. /\ r \in Connections /\ r.stopped = m.conn[s].stopped /\ r.encoded = m.conn[s].encoded
        /\ r.out = m.conn[s].out /\ r.message = m.conn[s].message /\ r.writing = m.conn[s].writing
    BY <1>0 DEF Connections
  <2> HIDE DEF r
  <2>3. r.encoded # 0 /\ (r.connected => ~r.stopped)
    BY <1>3, <2>1, <2>2
  <2>4. /\ Good(v) /\ NoStep(v) /\ Base(v, W, L) /\ v.ctx = m.ctx /\ v.conn[s] = r /\ Taken(v, L)
    BY <1>0, <2>2, <2>3, SetBase
  <2> HIDE DEF v
  <2>5. StepOk(v.conn[s], W, L, "CONNECT", s, << >>)
    BY <1>0, <2>1, <2>2, <2>4 DEF StepOk, Unsent
  <2>6. <<"CONNECT", s>> \in StepKinds /\ "CONNECT" \in Events
    BY <1>0 DEF StepKinds, Going, Events
  <2> QED
    BY <1>0, <2>4, <2>5, <2>6, PostSound
<1> QED
  BY <1>1, <1>2, <1>3, <1>c

\* A connection with what has been read appended to its message.
Decodes(m, c, data, v, r) ==
  /\ v = cancel_timer(m, c) /\ Decoded(m, c, data) = With(v, c, r)
  /\ r \in Connections /\ r.stopped = m.conn[c].stopped /\ r.connected = m.conn[c].connected
  /\ r.encoded = m.conn[c].encoded /\ r.out = m.conn[c].out /\ r.writing = m.conn[c].writing
  /\ r.message = m.conn[c].message \o data /\ v.conn = m.conn /\ Still(m, v)
LEMMA DecodedParts ==
  ASSUME NEW m, Good(m), NEW c \in 0..m.ctx.server, NEW data \in Seq(Unit)
  PROVE  \E v, r : Decodes(m, c, data, v, r)
<1> DEFINE v == cancel_timer(m, c)
           x == m.conn[c].message \o data
           r == [v.conn[c] EXCEPT !.message = x]
<1>0. c \in Conns /\ m.conn[c] \in Connections
  BY ServerType, ConnType
<1>1. Still(m, v) /\ v.conn = m.conn
  BY CancelTimerStill
<1>2. x \in Seq(Unit)
  BY <1>0 DEF Connections
<1>3. Decoded(m, c, data) = With(v, c, r)
  BY <1>1 DEF Decoded, With
<1> HIDE DEF v, x
<1>4. /\ r \in Connections /\ r.stopped = m.conn[c].stopped /\ r.connected = m.conn[c].connected
      /\ r.encoded = m.conn[c].encoded /\ r.out = m.conn[c].out /\ r.writing = m.conn[c].writing
      /\ r.message = x
  BY <1>0, <1>1, <1>2 DEF Connections
<1> HIDE DEF r
<1>5. Decodes(m, c, data, v, r)
  BY <1>1, <1>3, <1>4 DEF Decodes, v, x
<1> QED
  BY <1>5

LEMMA ServerOnReadSound ==
  ASSUME NEW m, Good(m), NoStep(m), NEW W, NEW L, Base(m, W, L), Taken(m, L),
         NEW s \in Servers, s = m.ctx.server, NEW res, NEW data \in Seq(Unit),
         StepOk(m.conn[s], W, L, "read", s, data),
         NEW w, w = server_on_read(m, s, res, data), w.fault = "none"
  PROVE  Sound(w, W, L)
<1> DEFINE q == [m.conn[s] EXCEPT !.connected = FALSE]
           u == With(m, s, q)
<1>0. s \in 0..m.ctx.server /\ s \in Conns /\ s # Client /\ m \in Worlds /\ m.conn[s] \in Connections
  BY ServingIn, LengthType, ConnType
<1>s. /\ m.conn[s].encoded = ReqLen /\ (~m.conn[s].writing \/ m.conn[s].stopped)
      /\ Answer(m.conn[s].message \o data, W, L, s)
  BY <1>0 DEF StepOk
<1>c. w = IF m.conn[s].stopped THEN m
          ELSE IF res = "error" THEN stop(m, s, TRUE)
          ELSE IF res = "eof" THEN stop(u, s, TRUE)
          ELSE IF Completed(m, s) THEN stop(m, s, TRUE)
          ELSE IF res = "bad" THEN Abort(m, "decode_assert")
          ELSE Post(Decoded(m, s, data), Task("READ", s))
  BY DEF server_on_read, With, Decoded
<1>1. Sound(stop(m, s, TRUE), W, L)
  BY StopSound
<1>2. m.conn[s].stopped => Sound(m, W, L)
  BY StoppedSound
<1>3. Sound(stop(u, s, TRUE), W, L)
  <2>1. /\ q \in Connections /\ q.stopped = m.conn[s].stopped /\ q.encoded = m.conn[s].encoded
        /\ ~q.connected
    BY <1>0 DEF Connections
  <2> HIDE DEF q
  <2>2. q.encoded # 0
    BY <1>s, <2>1
  <2>3. Good(u) /\ NoStep(u) /\ Base(u, W, L) /\ u.ctx = m.ctx /\ Taken(u, L)
    BY <1>0, <2>1, <2>2, SetBase
  <2> HIDE DEF u
  <2> QED
    BY <2>3, StopSound
<1>4. w # Abort(m, "decode_assert")
  BY <1>0, AbortFault
<1>5. ASSUME ~m.conn[s].stopped PROVE Sound(Post(Decoded(m, s, data), Task("READ", s)), W, L)
  <2>1. PICK v, r : Decodes(m, s, data, v, r)
    BY <1>0, DecodedParts
  <2>2. /\ r \in Connections /\ r.stopped = v.conn[s].stopped /\ r.encoded = ReqLen
        /\ r.message = m.conn[s].message \o data /\ ~r.writing /\ ~r.stopped
        /\ Decoded(m, s, data) = With(v, s, r) /\ Still(m, v)
    BY <1>5, <1>s, <2>1 DEF Decodes
  <2>3. Good(v) /\ NoStep(v) /\ Base(v, W, L) /\ v.ctx = m.ctx /\ Taken(v, L)
    BY <2>2, StillApart, ApartSound DEF Still
  <2> DEFINE x == With(v, s, r)
  <2>4. r.encoded # 0
    BY <2>2
  <2>5. /\ Good(x) /\ NoStep(x) /\ Base(x, W, L) /\ x.ctx = m.ctx /\ x.conn[s] = r /\ Taken(x, L)
    <3>0. r \in Connections
      BY <2>2
    <3>1. r.stopped = v.conn[s].stopped /\ (r.connected => ~r.stopped) /\ s \in 0..v.ctx.server
      BY <1>0, <2>2, <2>3
    <3>2. Good(x) /\ NoStep(x) /\ Base(x, W, L) /\ x.ctx = v.ctx /\ x.conn[s] = r /\ Taken(x, L)
      BY ONLY <2>3, <2>4, <3>0, <3>1, SetBase
    <3> QED
      BY <2>3, <3>2
  <2> HIDE DEF x
  <2>6. StepOk(x.conn[s], W, L, "READ", s, << >>)
    <3>1. r.message \in Seq(Unit)
      BY <2>2 DEF Connections
    <3>2. r.message \o << >> = r.message
      BY <3>1
    <3>3. Answer(r.message \o << >>, W, L, s)
      BY <1>s, <2>2, <3>2
    <3> QED
      BY <1>0, <2>2, <2>5, <3>3 DEF StepOk
  <2>7. <<"READ", s>> \in StepKinds /\ "READ" \in Events
    BY <1>0 DEF StepKinds, Going, Events
  <2>8. Sound(Post(x, Task("READ", s)), W, L)
    BY <1>0, <2>5, <2>6, <2>7, PostSound
  <2> QED
    BY <2>2, <2>8 DEF x
<1> QED
  BY <1>1, <1>2, <1>3, <1>4, <1>5, <1>c

\* What the client has asked for, by its length.
LEMMA AskingLength ==
  ASSUME NEW W, NEW L \in [Conns -> Unit], Past(W, L), NEW x, Asking(x, W, L)
  PROVE  /\ x \in Seq(Unit) /\ Len(x) \in Nat /\ Len(x) <= ReqLen
         /\ Len(x) = ReqLen =>
              x = Units(Current(L), 0, ReqLen) /\ Unasked(W, L) /\ L[Client][2] = ReqLen
<1> DEFINE k == L[Client][2]
<1>1. Current(L) \in Nat /\ k \in 1..ReqLen /\ 0 \in Nat
  BY ClientIn DEF Current, Unit, Past, InLen
<1>2. k \in Nat /\ ReqLen # 0
  BY <1>1
<1>3. CASE x = << >> /\ L[Client][2] = ReqLen
  <2>1. x \in Seq(Unit) /\ Len(x) = 0
    BY <1>3
  <2> QED
    BY <1>2, <2>1
<1>4. CASE x = Units(Current(L), 0, k) /\ Unasked(W, L)
  <2>1. Spans(Units(Current(L), 0, k), Current(L), 0, k)
    BY <1>1, <1>2, UnitsSpan
  <2>2. x \in Seq(Unit) /\ Len(x) = k
    BY <1>4, <2>1 DEF Spans
  <2> HIDE DEF k
  <2> QED
    BY <1>1, <1>2, <1>4, <2>2 DEF k
<1> QED
  BY <1>3, <1>4 DEF Asking

LEMMA ClientOnReadSound ==
  ASSUME NEW m, Good(m), NoStep(m), NEW W, NEW L \in [Conns -> Unit], Base(m, W, L), Spare(m),
         NEW res, NEW data \in Seq(Unit), StepOk(m.conn[Client], W, L, "read", Client, data),
         NEW w, w = client_on_read(m, res, data), w.fault = "none"
  PROVE  Sound(w, W, L)
<1> DEFINE y == Decoded(m, Client, data)
<1>0. Client \in 0..m.ctx.server /\ Client \in Conns /\ m.conn[Client] \in Connections
  BY ClientExistsGood, ConnType
<1>c. w = IF m.conn[Client].stopped THEN m
          ELSE IF res # "ok" \/ Completed(m, Client) THEN stop(m, Client, TRUE)
          ELSE IF ~Completed(y, Client) THEN read(y, Client)
          ELSE timer_start(Post(y, Task("READ", Client)), Client)
  BY DEF client_on_read, Decoded
<1>1. m.conn[Client].stopped => Sound(m, W, L)
  <2>1. m.conn[Client].stopped => Taken(m, L)
    BY DEF Taken
  <2> QED
    BY <2>1, RestSound
<1>2. Sound(stop(m, Client, TRUE), W, L)
  BY StopSound
<1>3. PICK v, r : Decodes(m, Client, data, v, r)
  BY <1>0, DecodedParts
<1>4. /\ r \in Connections /\ r.stopped = v.conn[Client].stopped /\ r.connected = v.conn[Client].connected
      /\ r.message = m.conn[Client].message \o data /\ v.conn = m.conn
      /\ y = With(v, Client, r) /\ Still(m, v)
  BY <1>3 DEF Decodes
<1>5. Good(v) /\ NoStep(v) /\ Base(v, W, L) /\ v.ctx = m.ctx /\ Spare(v)
  BY <1>4, StillApart, ApartSound DEF Still
<1>6. r.connected => ~r.stopped
  BY <1>0, <1>4 DEF Base
<1> HIDE DEF y
<1>7. /\ Good(y) /\ NoStep(y) /\ Base(y, W, L) /\ y.ctx = m.ctx /\ y.conn[Client] = r /\ Spare(y)
  BY <1>0, <1>4, <1>5, <1>6, SetBase
<1>8. Asking(r.message, W, L) /\ Past(W, L)
  BY <1>4 DEF StepOk, Base
<1>9. /\ r.message \in Seq(Unit) /\ Len(r.message) \in Nat /\ Len(r.message) <= ReqLen
      /\ Len(r.message) = ReqLen => L[Client][2] = ReqLen
  BY <1>8, AskingLength
<1>10. r.message \o << >> = r.message
  BY <1>9
<1>11. Completed(y, Client) <=> Len(r.message) = ReqLen
  BY <1>7 DEF Completed, InLen
<1>12. Client \in 0..y.ctx.server
  BY <1>0, <1>7
<1>13. CASE w = read(y, Client) /\ ~Completed(y, Client)
  <2>1. Len(r.message) < ReqLen
    BY <1>9, <1>11, <1>13
  <2>2. StepOk(y.conn[Client], W, L, "read", Client, << >>)
    BY <1>7, <1>8, <1>10, <2>1 DEF StepOk
  <2> QED
    BY <1>7, <1>12, <1>13, <2>2, ReadSound
<1>14. CASE w = timer_start(Post(y, Task("READ", Client)), Client) /\ Completed(y, Client)
  <2> DEFINE z == Post(y, Task("READ", Client))
  <2>1. StepOk(y.conn[Client], W, L, "READ", Client, << >>)
    BY <1>7, <1>8, <1>10 DEF StepOk
  <2>2. <<"READ", Client>> \in StepKinds /\ "READ" \in Events
    BY <1>0 DEF StepKinds, Going, Events
  <2>3. Taken(y, L)
    BY <1>9, <1>11, <1>14 DEF Taken
  <2>4. Sound(z, W, L)
    BY <1>7, <1>12, <2>1, <2>2, <2>3, PostSound
  <2>5. Good(z) /\ z.ctx = y.ctx
    <3>1. Task("READ", Client) \in HandlersUpTo(y.ctx.server)
      BY <1>7, <1>12, TaskType DEF Tasks, Events
    <3>2. Good(z)
      BY <1>7, <3>1, PostQuiet DEF Quiet
    <3> QED
      BY <1>7, <3>2, LengthType, PostFields
  <2> HIDE DEF z
  <2>6. Still(z, timer_start(z, Client))
    BY <1>12, <2>5, TimerStartStill
  <2>7. Sound(timer_start(z, Client), W, L)
    BY <2>4, <2>6, StillApart, ApartSound
  <2> QED
    BY <1>14, <2>7 DEF z
<1> QED
  BY <1>1, <1>2, <1>13, <1>14, <1>c

LEMMA ClientOnHandshakeSound ==
  ASSUME NEW m, Good(m), NoStep(m), NEW W, NEW L, Base(m, W, L), Taken(m, L), Spare(m), NEW res
  PROVE  Sound(client_on_handshake(m, res), W, L)
<1> DEFINE r == [m.conn[Client] EXCEPT !.message = << >>, !.encoded = 0]
           v == With(m, Client, r)
<1>0. Client \in 0..m.ctx.server /\ Client \in Conns /\ m.conn[Client] \in Connections /\ m \in Worlds
  BY ClientExistsGood, ConnType, LengthType
<1>e. << >> \in Seq(Unit)
  OBVIOUS
<1>1. /\ r \in Connections /\ r.stopped = m.conn[Client].stopped
      /\ r.connected = m.conn[Client].connected /\ r.message = << >>
  BY <1>0, <1>e DEF Connections
<1>2. [m EXCEPT !.conn[Client].message = << >>, !.conn[Client].encoded = 0] = v
  BY <1>0 DEF With, Worlds, Connections
<1>c. client_on_handshake(m, res) =
        IF m.conn[Client].stopped THEN m
        ELSE IF res # "ok" THEN stop(m, Client, TRUE)
        ELSE Post(v, Task("HANDSHAKE", Client))
  BY <1>2 DEF client_on_handshake
<1> HIDE DEF r
<1>3. r.connected => ~r.stopped
  BY <1>0, <1>1 DEF Base
<1>4. /\ Good(v) /\ NoStep(v) /\ Base(v, W, L) /\ v.ctx = m.ctx /\ v.conn[Client] = r
      /\ Taken(v, L) /\ Spare(v)
  BY <1>0, <1>1, <1>3, SetBase
<1> HIDE DEF v
<1>5. StepOk(v.conn[Client], W, L, "HANDSHAKE", Client, << >>)
  BY <1>1, <1>4 DEF StepOk
<1>6. <<"HANDSHAKE", Client>> \in StepKinds /\ "HANDSHAKE" \in Events
  BY <1>0 DEF StepKinds, Going, Events
<1>7. Sound(Post(v, Task("HANDSHAKE", Client)), W, L)
  BY <1>0, <1>4, <1>5, <1>6, PostSound
<1>8. Sound(m, W, L) /\ Sound(stop(m, Client, TRUE), W, L)
  BY RestSound, StopSound
<1> QED
  BY <1>7, <1>8, <1>c

\* The client connection reads again after a request has been dealt with.
LEMMA ReadNextSound ==
  ASSUME NEW m, Good(m), NoStep(m), NEW W, NEW L, Base(m, W, L), Taken(m, L), Spare(m),
         m.conn[Client].message = << >>
  PROVE  read(m, Client).fault = "none" => Sound(read(m, Client), W, L)
<1>0. Client \in 0..m.ctx.server /\ Client \in Conns
  BY ClientExistsGood
<1>1. CASE m.conn[Client].stopped
  <2>1. read(m, Client).fault # "none"
    BY <1>1, LengthType, AbortFault DEF read
  <2> QED
    BY <2>1
<1>2. CASE ~m.conn[Client].stopped
  <2>1. L[Client][2] = ReqLen
    <3>1. <<"read", Client>> \notin Kinds(m)
      BY <1>0 DEF NoStep, StepKinds, Going
    <3> QED
      BY <1>2, <3>1 DEF Taken
  <2>2. << >> \o << >> = << >> /\ Len(<< >>) < ReqLen
    OBVIOUS
  <2>3. StepOk(m.conn[Client], W, L, "read", Client, << >>)
    BY <2>1, <2>2 DEF StepOk, Asking
  <2> QED
    BY <1>0, <2>3, ReadSound
<1> QED
  BY <1>1, <1>2

LEMMA ContextApart ==
  ASSUME NEW m, Good(m), NEW k \in Contexts, k.server = m.ctx.server, NEW w, w = [m EXCEPT !.ctx = k]
  PROVE  Apart(m, w) /\ Good(w) /\ w.conn = m.conn /\ w.ctx = k
<1>1. Good(w)
  BY SetContext DEF Quiet
<1>2. w.queue = m.queue /\ w.pending = m.pending /\ w.conn = m.conn /\ w.ctx = k
  BY LengthType DEF Worlds
<1> QED
  BY <1>1, <1>2, SameApart

LEMMA OnClientSecuredSound ==
  ASSUME NEW m, Good(m), NoStep(m), NEW W, NEW L, Base(m, W, L), Taken(m, L), Spare(m),
         NEW d, StepOk(m.conn[Client], W, L, "HANDSHAKE", Client, d),
         NEW w, w = on_client_secured(m), w.fault = "none"
  PROVE  Sound(w, W, L)
<1> DEFINE k == [m.ctx EXCEPT !.ssl_setup = TRUE]
           v == [m EXCEPT !.ctx = k]
<1>1. on_client_secured(m) = read(v, Client)
  BY DEF on_client_secured
<1>2. k \in Contexts /\ k.server = m.ctx.server
  BY ContextType DEF Contexts
<1> HIDE DEF k
<1>3. Apart(m, v) /\ Good(v) /\ v.conn = m.conn
  BY <1>2, ContextApart
<1> HIDE DEF v
<1>4. NoStep(v) /\ Base(v, W, L) /\ Taken(v, L) /\ Spare(v)
  BY <1>3, ApartSound
<1>5. v.conn[Client].message = << >>
  BY <1>3 DEF StepOk
<1> QED
  BY <1>1, <1>3, <1>4, <1>5, ReadNextSound

-----------------------------------------------------------------------------
(* The events of the context.                                               *)
LEMMA WriteBufferedSound ==
  ASSUME NEW m, Good(m), NoStep(m), NEW W, NEW L \in [Conns -> Unit], Base(m, W, L), Taken(m, L),
         NEW s \in Servers, s = m.ctx.server, m.conn[s].encoded = ReqLen,
         ~m.conn[s].writing \/ m.conn[s].stopped, Unsent(m.conn[s], W, L, s, 0),
         NEW w, w = write_buffered(m, s), w.fault = "none"
  PROVE  Sound(w, W, L)
<1> DEFINE v == cancel_timer(m, s)
<1>0. s \in 0..m.ctx.server /\ m \in Worlds
  BY ServingIn, LengthType
<1>1. ~m.conn[s].stopped /\ w = do_write(v, s)
  BY <1>0, AbortFault DEF write_buffered
<1>2. Still(m, v) /\ v.conn = m.conn
  BY <1>0, CancelTimerStill
<1> HIDE DEF v
<1>3. Good(v) /\ NoStep(v) /\ Base(v, W, L) /\ v.ctx = m.ctx /\ Taken(v, L)
  BY <1>2, StillApart, ApartSound DEF Still
<1> QED
  BY <1>1, <1>2, <1>3, DoWriteSound

LEMMA ServerHandshakeSound ==
  ASSUME NEW m, Good(m), NoStep(m), NEW W, NEW L, Base(m, W, L), Taken(m, L),
         NEW s \in Servers, s = m.ctx.server, NEW d, StepOk(m.conn[s], W, L, "CONNECT", s, d),
         NEW w, w = server_handshake(m, s), w.fault = "none"
  PROVE  Sound(w, W, L)
<1> DEFINE r == [m.conn[s] EXCEPT !.use_ssl = TRUE]
           v == With(m, s, r)
<1>0. s \in 0..m.ctx.server /\ s \in Conns /\ m \in Worlds /\ s # Client /\ m.conn[s] \in Connections
  BY ServingIn, LengthType, ConnType
<1>1. w = Begin(v, "handshake", s, << >>)
  <2>1. w # Abort(m, "ssl_twice")
    BY <1>0, AbortFault
  <2> QED
    BY <2>1 DEF server_handshake, switch_to_ssl, With
<1>2. /\ r \in Connections /\ r.stopped = m.conn[s].stopped /\ r.connected = m.conn[s].connected
      /\ r.encoded = m.conn[s].encoded /\ r.out = m.conn[s].out
      /\ r.message = m.conn[s].message /\ r.writing = m.conn[s].writing
  BY <1>0 DEF Connections
<1> HIDE DEF r
<1>3. StepOk(m.conn[s], W, L, "handshake", s, << >>) /\ m.conn[s].encoded = ReqLen
  BY WayOk
<1>4. r.encoded # 0 /\ (r.connected => ~r.stopped)
  BY <1>0, <1>2, <1>3 DEF Base
<1>5. /\ Good(v) /\ NoStep(v) /\ Base(v, W, L) /\ v.ctx = m.ctx /\ v.conn[s] = r /\ Taken(v, L)
  BY <1>0, <1>2, <1>4, SetBase
<1> HIDE DEF v
<1>6. StepOk(v.conn[s], W, L, "handshake", s, << >>)
  BY <1>0, <1>2, <1>3, <1>5 DEF StepOk, Unsent
<1>7. <<"handshake", s>> \in StepKinds /\ << >> \in Seq(Unit) /\ "handshake" \in Operations
  BY <1>0 DEF StepKinds, Going, Operations
<1> QED
  BY <1>0, <1>1, <1>5, <1>6, <1>7, BeginSound

LEMMA OnServerConnectedSound ==
  ASSUME NEW m, Good(m), NoStep(m), NEW W, NEW L \in [Conns -> Unit], Base(m, W, L), Taken(m, L),
         NEW s \in Servers, s = m.ctx.server, NEW d,
         NEW fn \in {"CONNECT", "HANDSHAKE"}, StepOk(m.conn[s], W, L, fn, s, d),
         NEW w, w = IF fn = "CONNECT" THEN on_server_connected(m, s) ELSE on_server_secured(m, s),
         w.fault = "none"
  PROVE  Sound(w, W, L)
<1>1. /\ m.conn[s].encoded = ReqLen /\ (~m.conn[s].writing \/ m.conn[s].stopped)
      /\ Unsent(m.conn[s], W, L, s, 0)
  BY WayOk
<1>2. CASE w = write_buffered(m, s)
  BY <1>1, <1>2, WriteBufferedSound
<1>3. CASE fn = "CONNECT" /\ w = server_handshake(m, s)
  BY <1>3, ServerHandshakeSound
<1> QED
  BY <1>2, <1>3 DEF on_server_connected, on_server_secured

LEMMA ServerResetSound ==
  ASSUME NEW m, Good(m), NoStep(m), NEW W, NEW L, Base(m, W, L), Taken(m, L),
         NEW s \in Servers, s = m.ctx.server
  PROVE  Sound(server_reset(m, s), W, L)
<1> DEFINE r == Blank(m.conn[s])
           v == With(m, s, r)
<1>0. s \in 0..m.ctx.server /\ s \in Conns /\ m \in Worlds /\ s # Client /\ m.conn[s] \in Connections
  BY ServingIn, LengthType, ConnType
<1>1. server_reset(m, s) = timer_start(v, s)
  BY <1>0, ResetWith DEF server_reset
<1>2. /\ r \in Connections /\ r.stopped = m.conn[s].stopped /\ r.connected = m.conn[s].connected
      /\ r.encoded = 0 /\ r.out = << >>
  BY <1>0, BlankFields
<1>3. r.message = << >> /\ ~r.writing
  BY <1>0 DEF Blank, Connections
<1> HIDE DEF r
<1>4. r.connected => ~r.stopped
  BY <1>0, <1>2 DEF Base
<1>5. /\ Good(v) /\ NoStep(v) /\ Base(v, W, L) /\ v.ctx = m.ctx /\ v.conn[s] = r /\ Taken(v, L)
  BY <1>0, <1>2, <1>3, <1>4, SetBase
<1> HIDE DEF v
<1>6. Spare(v)
  BY <1>2, <1>5 DEF Spare
<1>7. Sound(v, W, L)
  BY <1>5, <1>6, RestSound
<1>8. Still(v, timer_start(v, s))
  BY <1>0, <1>5, TimerStartStill
<1> QED
  BY <1>1, <1>7, <1>8, StillApart, ApartSound

LEMMA OnServerMessageSound ==
  ASSUME NEW m, Good(m), Always(m), NoStep(m), NEW W, NEW L, Base(m, W, L), Taken(m, L),
         NEW s \in Servers, s = m.ctx.server, NEW d, StepOk(m.conn[s], W, L, "READ", s, d),
         NEW keep_alive, NEW w, w = on_server_message(m, s, keep_alive), w.fault = "none"
  PROVE  Sound(w, W, L)
<1> DEFINE response == m.conn[s].message
           completed == Completed(m, s)
           written == write(m, Client, response, completed)
           k == [written.ctx EXCEPT !.exchanged = TRUE]
           exchanged == [written EXCEPT !.ctx = k]
<1>0. s \in 0..m.ctx.server /\ s \in Conns /\ s # Client /\ m \in Worlds
  BY ServingIn, LengthType
<1>1. response \in Seq(Unit) /\ completed \in BOOLEAN
  BY <1>0, MessageType DEF Completed
<1>2. \/ w \in {Abort(m, "client_assert"), Abort(m, "server_assert")}
      \/ w \in {read(written, s), server_reset(exchanged, s), stop(exchanged, s, FALSE)}
  BY DEF on_server_message
<1>3. w \notin {Abort(m, "client_assert"), Abort(m, "server_assert")}
  BY <1>0, AbortFault
<1>4. Apart(m, written)
  BY <1>1, WriteApart
<1> HIDE DEF written
<1>5. Good(written) /\ NoStep(written) /\ Base(written, W, L) /\ Taken(written, L)
      /\ written.ctx.server = s
  BY <1>4, ApartSound DEF Apart
<1>6. k \in Contexts /\ k.server = written.ctx.server
  BY <1>5, ContextType DEF Contexts
<1> HIDE DEF k
<1>7. Apart(written, exchanged) /\ Good(exchanged) /\ exchanged.ctx = k
  BY <1>5, <1>6, ContextApart
<1> HIDE DEF exchanged
<1>8. NoStep(exchanged) /\ Base(exchanged, W, L) /\ Taken(exchanged, L) /\ s = exchanged.ctx.server
  BY <1>5, <1>6, <1>7, ApartSound
<1>9. CASE w = read(written, s)
  <2>1. StepOk(written.conn[s], W, L, "read", s, << >>)
    <3>1. ApartConn(s, m.conn[s], written.conn[s])
      BY <1>0, <1>4 DEF Apart
    <3>2. /\ m.conn[s].encoded = ReqLen /\ (~m.conn[s].writing \/ m.conn[s].stopped)
          /\ Answer(m.conn[s].message \o << >>, W, L, s)
      BY <1>0 DEF StepOk
    <3> QED
      BY <1>0, <3>1, <3>2 DEF ApartConn, StepOk
  <2> QED
    BY <1>0, <1>5, <1>9, <2>1, ReadSound
<1>10. CASE w = server_reset(exchanged, s)
  BY <1>7, <1>8, <1>10, ServerResetSound
<1>11. CASE w = stop(exchanged, s, FALSE)
  BY <1>7, <1>8, <1>11, StopSound
<1> QED
  BY <1>2, <1>3, <1>9, <1>10, <1>11

LEMMA ClientHandshakeSound ==
  ASSUME NEW m, Good(m), Active(m), m.ctx.https, ~m.ctx.ssl_setup, NEW W, NEW L, Sound(m, W, L),
         NEW certified, NEW w, w = client_handshake(m, certified), w.fault = "none"
  PROVE  Sound(w, W, L)
<1> DEFINE r == [m.conn[Client] EXCEPT !.use_ssl = TRUE]
           v == With(m, Client, r)
<1>0. Client \in 0..m.ctx.server /\ Client \in Conns /\ m \in Worlds /\ m.conn[Client] \in Connections
  BY ClientExistsGood, ConnType, LengthType
<1>1. ~m.conn[Client].use_ssl /\ w = Begin(v, "handshake", Client, << >>)
  <2>1. w # Abort(m, "ssl_twice") /\ w # Abort(m, "no_certificate")
    BY <1>0, AbortFault
  <2> QED
    BY <2>1 DEF client_handshake, switch_to_ssl, With
<1>2. NoStep(m) /\ Base(m, W, L) /\ Taken(m, L) /\ Spare(m)
  BY <1>1 DEF Active, Single, Replying, Sound
<1>3. /\ r \in Connections /\ r.stopped = m.conn[Client].stopped
      /\ r.connected = m.conn[Client].connected
  BY <1>0 DEF Connections
<1> HIDE DEF r
<1>4. r.connected => ~r.stopped
  BY <1>0, <1>2, <1>3 DEF Base
<1>5. /\ Good(v) /\ NoStep(v) /\ Base(v, W, L) /\ v.ctx = m.ctx /\ Taken(v, L) /\ Spare(v)
  BY <1>0, <1>2, <1>3, <1>4, SetBase
<1> HIDE DEF v
<1>6. StepOk(v.conn[Client], W, L, "handshake", Client, << >>)
  BY DEF StepOk
<1>7. <<"handshake", Client>> \in StepKinds /\ << >> \in Seq(Unit) /\ "handshake" \in Operations
  BY <1>0 DEF StepKinds, Going, Operations
<1> QED
  BY <1>0, <1>1, <1>5, <1>6, <1>7, BeginSound

LEMMA ClientResetSound ==
  ASSUME NEW m, Good(m), NoStep(m), NEW W, NEW L, Sound(m, W, L),
         NEW w, w = Unexchanged(client_reset(m)), w.fault = "none"
  PROVE  Sound(w, W, L)
<1> DEFINE r == Blank(m.conn[Client])
           v == With(m, Client, r)
           x == timer_start(v, Client)
           k == [x.ctx EXCEPT !.exchanged = FALSE]
           z == [x EXCEPT !.ctx = k]
<1>0. Client \in 0..m.ctx.server /\ Client \in Conns /\ m \in Worlds /\ m.conn[Client] \in Connections
  BY ClientExistsGood, ConnType, LengthType
<1>1. client_reset(m) = read(x, Client)
  BY <1>0, ResetWith DEF client_reset
<1>2. /\ r \in Connections /\ r.stopped = m.conn[Client].stopped
      /\ r.connected = m.conn[Client].connected
  BY <1>0, BlankFields
<1>3. r.message = << >>
  BY <1>0 DEF Blank, Connections
<1> HIDE DEF r
<1>4. r.connected => ~r.stopped
  BY <1>0, <1>2 DEF Base, Sound
<1>5. /\ Good(v) /\ NoStep(v) /\ Base(v, W, L) /\ v.ctx = m.ctx /\ v.conn[Client] = r
      /\ Taken(v, L) /\ Spare(v)
  BY <1>0, <1>2, <1>4, SetBase DEF Sound
<1> HIDE DEF v
<1>6. Still(v, x) /\ Good(x)
  BY <1>0, <1>5, TimerStartStill DEF Still
<1>7. Unexchanged(read(x, Client)) = read(Unexchanged(x), Client)
  BY <1>6, LengthType, UnexchangedRead
<1>8. Unexchanged(x) = z
  BY DEF Unexchanged
<1> HIDE DEF x
<1>9. NoStep(x) /\ Base(x, W, L) /\ Taken(x, L) /\ Spare(x) /\ x.conn[Client].message = << >>
  BY <1>0, <1>3, <1>5, <1>6, StillApart, ApartSound DEF Still, StillConn
<1>10. k \in Contexts /\ k.server = x.ctx.server
  BY <1>6, ContextType DEF Contexts
<1> HIDE DEF k
<1>11. Apart(x, z) /\ Good(z) /\ z.conn = x.conn
  BY <1>6, <1>10, ContextApart
<1> HIDE DEF z
<1>12. NoStep(z) /\ Base(z, W, L) /\ Taken(z, L) /\ Spare(z) /\ z.conn[Client].message = << >>
  BY <1>9, <1>11, ApartSound
<1>13. w = read(z, Client)
  BY <1>1, <1>7, <1>8
<1> QED
  BY <1>11, <1>12, <1>13, ReadNextSound

LEMMA OnClientWrittenSound ==
  ASSUME NEW m, Good(m), Active(m), NEW W, NEW L, Sound(m, W, L), NEW keep_alive, NEW certified,
         NEW w, w = on_client_written(m, keep_alive, certified), w.fault = "none"
  PROVE  Sound(w, W, L)
<1>0. Client \in 0..m.ctx.server /\ m \in Worlds
  BY ClientExistsGood, LengthType
<1>1. CASE m.ctx.https /\ ~m.ctx.ssl_setup
  <2>1. w = client_handshake(m, certified)
    <3>1. w # Abort(m, "server_assert")
      BY <1>0, AbortFault
    <3> QED
      BY <1>1, <3>1 DEF on_client_written
  <2> QED
    BY <1>1, <2>1, ClientHandshakeSound
<1>2. CASE ~(m.ctx.https /\ ~m.ctx.ssl_setup)
  <2>1. \/ w \in {m, stop(m, Client, FALSE)}
        \/ m.ctx.exchanged /\ w = Unexchanged(client_reset(m))
    BY <1>2 DEF on_client_written, Unexchanged
  <2>2. Sound(stop(m, Client, FALSE), W, L)
    <3>1. Still(m, stop(m, Client, FALSE))
      BY <1>0, StopStill
    <3> QED
      BY <3>1, StillApart, ApartSound
  <2>3. m.ctx.exchanged => NoStep(m)
    BY DEF Active, Single
  <2> QED
    BY <2>1, <2>2, <2>3, ClientResetSound
<1> QED
  BY <1>1, <1>2

\* The world with a server connection more.
LEMMA OpenedSound ==
  ASSUME NEW m, Good(m), NoStep(m), NEW W, NEW L, Base(m, W, L), Taken(m, L),
         NEW connect, NEW w, OpenedFrom(m, connect, w)
  PROVE  /\ NoStep(w) /\ Base(w, W, L) /\ Taken(w, L) /\ Spare(w)
         /\ w.conn[w.ctx.server].encoded = 0
<1> DEFINE s == w.ctx.server
<1>1. /\ s \in Servers /\ s > m.ctx.server /\ w.queue = m.queue /\ w.pending = m.pending
      /\ w.conn = m.conn
  <2>1. m.ctx.server \in Nat
    BY ServerType
  <2> QED
    BY <2>1 DEF OpenedFrom
<1>2. Kinds(w) = Kinds(m)
  BY <1>1 DEF Kinds
<1>3. m.conn[s] = NewConnection
  BY <1>1 DEF Base
<1>4. w.conn[s].encoded = 0
  BY <1>1, <1>3 DEF NewConnection
<1>5. \A t \in Servers : t > s => t > m.ctx.server
  BY <1>1, ServerType
<1> HIDE DEF s
<1>6. Base(w, W, L)
  BY <1>1, <1>5 DEF Base, Held, s
<1>7. NoStep(w) /\ Taken(w, L) /\ Spare(w)
  BY <1>1, <1>2, <1>4 DEF NoStep, Taken, Spare, s
<1> QED
  BY <1>4, <1>6, <1>7 DEF s

LEMMA OnClientMessageSound ==
  ASSUME NEW m, Good(m), Always(m), NoStep(m), NEW W, NEW L \in [Conns -> Unit],
         Base(m, W, L), Taken(m, L), Spare(m),
         NEW d, StepOk(m.conn[Client], W, L, "READ", Client, d),
         m.ctx = ctx, m.managed = managed, LockServer \/ ctx.server < MaxServers,
         NEW connect \in BOOLEAN, NEW destination,
         NEW w, w = on_client_message(m, connect, destination), w.fault = "none"
  PROVE  Sound(w, W, L)
<1> DEFINE request == m.conn[Client].message
           server == m.ctx.server
           s == m.ctx.server + 1
           parsed == Parsed(m, connect)
           opened == Opened(m, connect)
           reply == Reply(m)
<1>0. request \in Seq(Unit) /\ m \in Worlds
  BY ClientIn, MessageType, LengthType
<1>1. Completed(m, Client)
  <2>1. w # Abort(m, "request_assert")
    BY <1>0, AbortFault
  <2> QED
    BY <2>1 DEF on_client_message
<1>2. request = Units(Current(L), 0, ReqLen) /\ Unasked(W, L)
  <2>1. request \o << >> = request
    BY <1>0
  <2>2. Asking(request, W, L) /\ Past(W, L)
    BY <2>1 DEF StepOk, Base
  <2>3. Len(request) = ReqLen
    BY <1>1 DEF Completed, InLen
  <2> HIDE DEF request
  <2> QED
    BY <2>2, <2>3, AskingLength
<1>3. CASE LockServer
  <2>1. w = write(m, server, request, TRUE)
    BY <1>1, <1>3 DEF on_client_message
  <2>2. server \in Servers /\ server = m.ctx.server
    BY <1>3 DEF LockServer
  <2>3. m.conn[server].stopped \/ m.conn[server].encoded = 0
    <3>1. Kinds(m) \cap ServerKinds = {}
      BY KindsSplit DEF NoStep
    <3> QED
      BY <2>2, <3>1 DEF Spare
  <2> HIDE DEF request, server
  <2> QED
    BY <1>2, <2>1, <2>2, <2>3, WriteServerSound
<1>4. CASE ~LockServer
  <2>1. w \in {Abort(m, "host_assert"), parsed, write(opened, Client, reply, TRUE),
               write(opened, s, request, TRUE)}
    BY <1>1, <1>4 DEF on_client_message, Parsed, Opened, Reply
  <2>2. w # Abort(m, "host_assert")
    BY <1>0, AbortFault
  <2>3. Sound(parsed, W, L)
    <3> DEFINE https == m.ctx.https \/ connect
               k == [m.ctx EXCEPT !.https = https]
    <3>1. https \in BOOLEAN
      BY ContextType DEF Contexts
    <3> HIDE DEF https
    <3>2. k \in Contexts /\ k.server = m.ctx.server
      BY <3>1, ContextType DEF Contexts
    <3>3. parsed = [m EXCEPT !.ctx = k]
      BY DEF Parsed, https
    <3> HIDE DEF k, parsed
    <3>4. Apart(m, parsed)
      BY <3>2, <3>3, ContextApart
    <3>5. Sound(m, W, L)
      BY RestSound
    <3> QED
      BY <3>4, <3>5, ApartSound
  <2>4. OpenedFrom(m, connect, opened)
    BY <1>4, OpenedParts
  <2>5. Good(opened) /\ opened.ctx.server = s /\ s \in Servers /\ opened.conn = m.conn
    BY <2>4 DEF OpenedFrom
  <2>6. reply \in Seq(Unit)
    BY <1>1, ReplyType
  <2> HIDE DEF opened, reply, request, parsed, s
  <2>7. /\ NoStep(opened) /\ Base(opened, W, L) /\ Taken(opened, L) /\ Spare(opened)
        /\ opened.conn[s].encoded = 0
    BY <2>4, <2>5, OpenedSound
  <2>8. Sound(write(opened, Client, reply, TRUE), W, L)
    <3>1. Always(opened)
      BY <2>5 DEF Always
    <3>2. Apart(opened, write(opened, Client, reply, TRUE))
      BY <2>5, <2>6, <3>1, WriteApart
    <3>3. Sound(opened, W, L)
      BY <2>7, RestSound
    <3> QED
      BY <3>2, <3>3, ApartSound
  <2>9. CASE w = write(opened, s, request, TRUE)
    BY <1>2, <2>5, <2>7, <2>9, WriteServerSound
  <2> QED
    BY <2>1, <2>2, <2>3, <2>8, <2>9
<1> QED
  BY <1>3, <1>4

-----------------------------------------------------------------------------
(* The handler at the head of the queue.                                    *)
PoppedOk(W, L) ==
  LET k == HandlerKind(Head(queue))
  IN  /\ Base(Popped, W, L) /\ StepsOk(Popped, W, L)
      /\ k # <<"read", Client>> => Taken(Popped, L)
      /\ k \notin ServerKinds => Spare(Popped)
      /\ k \in StepKinds => StepOk(Popped.conn[Self], W, L, Head(queue).fn, Self, Data)
LEMMA PoppedSound ==
  ASSUME Good(World), queue # << >>, NEW W, NEW L, Sound(World, W, L)
  PROVE  PoppedOk(W, L)
<1> DEFINE n == Len(queue)
           t == Tail(queue)
           k == HandlerKind(Head(queue))
<1>0. queue \in Seq(Handlers)
  BY WorldFields DEF Good, Worlds
<1>1. /\ n \in Nat /\ n > 0 /\ Len(t) = n - 1 /\ Head(queue) = queue[1]
      /\ \A i \in 1..(n - 1) : t[i] = queue[i + 1]
  BY <1>0
<1>2. /\ Popped.queue = t /\ Popped.conn = conn /\ Popped.ctx = ctx /\ Popped.pending = pending
      /\ World.queue = queue /\ World.conn = conn /\ World.ctx = ctx /\ World.pending = pending
  BY PoppedFields, WorldFields
<1>3. Kinds(Popped) \subseteq Kinds(World) /\ Kinds(World) \subseteq Kinds(Popped) \cup {k}
  BY PoppedKinds
<1> HIDE DEF t
<1>4. \A i \in 1..Len(t) : i + 1 \in 1..n /\ t[i] = queue[i + 1]
  BY <1>1
<1>5. \A fn, c, d : Doing(Popped, fn, c, d) => Doing(World, fn, c, d)
  BY <1>2, <1>4 DEF Doing
<1>6. StepsOk(Popped, W, L)
  BY <1>2, <1>5 DEF StepsOk, Sound
<1>7. Base(Popped, W, L)
  BY <1>2 DEF Base, Held, Sound
<1>8. k # <<"read", Client>> => Taken(Popped, L)
  BY <1>2, <1>3 DEF Taken, Sound
<1>9. k \notin ServerKinds => Spare(Popped)
  BY <1>2, <1>3 DEF Spare, Sound
<1>10. ASSUME k \in StepKinds
       PROVE  StepOk(Popped.conn[Self], W, L, Head(queue).fn, Self, Data)
  <2>1. 1 \in 1..n
    BY <1>1
  <2>2. Doing(World, Head(queue).fn, Self, Data)
    BY <1>1, <1>2, <1>10, <2>1 DEF Doing, HandlerKind, Self, Data
  <2> QED
    BY <1>2, <2>2 DEF StepsOk, Sound
<1> HIDE DEF k
<1> QED
  BY <1>6, <1>7, <1>8, <1>9, <1>10 DEF PoppedOk, k

LEMMA BecomeSound ==
  ASSUME Good(World), Good(World)', Sound(World, wire, last), UNCHANGED <<wire, last>>,
         NEW m, Good(m), m.fault = "none" => Sound(m, wire, last), Become(m)
  PROVE  Sound(World, wire, last)'
<1>0. wire' = wire /\ last' = last
  OBVIOUS
<1>1. CASE m.fault = "none"
  <2>1. World' = m
    BY <1>1 DEF Become, World, Good, Worlds
  <2>2. Sound(World', wire', last') <=> Sound(m, wire, last)
    BY <1>0, <2>1
  <2> QED
    BY <1>1, <2>2
<1>2. CASE m.fault # "none"
  <2> DEFINE w == World'
  <2>1. w.queue = queue /\ w.pending = pending /\ w.conn = conn /\ w.ctx = ctx
    BY <1>2 DEF Become, World
  <2>2. Good(w)
    OBVIOUS
  <2> HIDE DEF w
  <2>3. Apart(World, w)
    BY <2>1, <2>2, WorldFields, SameApart
  <2>4. Sound(w, wire, last)
    BY <2>3, ApartSound
  <2>5. Sound(w, wire, last) <=> Sound(World', wire', last')
    BY <1>0 DEF w
  <2> QED
    BY <2>4, <2>5
<1> QED
  BY <1>1, <1>2

LEMMA HandleEventSound ==
  ASSUME Good(World), Good(World)', Sound(World, wire, last),
         NEW m, Good(m), m.fault = "none" => Sound(m, wire, last), HandleEvent(m)
  PROVE  Sound(World, wire, last)'
<1>1. Good(Abort(World, "freed_this"))
  BY AbortQuiet DEF Faults, Quiet
<1>2. Abort(World, "freed_this").fault # "none"
  BY LengthType, AbortFault
<1>3. UNCHANGED <<wire, last>>
  BY DEF HandleEvent, Handle
<1> QED
  BY <1>1, <1>2, <1>3, BecomeSound DEF HandleEvent, Handle

LEMMA RunHandlerSound ==
  ASSUME CInv, CInv', Sound(World, wire, last), RunHandler
  PROVE  Sound(World, wire, last)'
<1>0. queue # << >>
  BY DEF RunHandler, OnTimer, OnWrite, OnResolve, OnConnect, ClientOnRead, ClientOnHandshake,
         ServerOnRead, ServerOnHandshake, ClientRead, ServerRead, ClientWritten, ClientSecured,
         ServerConnected, ServerSecured, OnStop, StopAll, Running
<1>g. /\ Good(World) /\ Active(World) /\ AInv /\ Chained(World) /\ Good(World)'
      /\ last \in [Conns -> Unit]
  BY DEF CInv, AInv, IInv
<1> DEFINE k == HandlerKind(Head(queue))
           fn == Head(queue).fn
<1>k. k = <<fn, Self>>
  BY DEF HandlerKind, Self
<1>1. /\ Good(Popped) /\ Popped.ctx = ctx /\ Popped.managed = managed
      /\ Self \in 0..Popped.ctx.server /\ Self \in Conns
      /\ Data \in Seq(Unit)
  BY <1>0, <1>g, PoppedGood
<1>p. PoppedOk(wire, last)
  BY <1>0, <1>g, PoppedSound
<1>b. /\ Base(Popped, wire, last) /\ StepsOk(Popped, wire, last)
      /\ k # <<"read", Client>> => Taken(Popped, last)
      /\ k \notin ServerKinds => Spare(Popped)
      /\ k \in StepKinds => StepOk(Popped.conn[Self], wire, last, fn, Self, Data)
  BY <1>p DEF PoppedOk
<1> HIDE DEF k
<1>a. fn # "wait" => Active(Popped)
  BY <1>0, <1>g, PoppedTimed, PoppedRest, PoppedSingle DEF Active
<1>s. ASSUME Self # Client, NEW f \in Steps(Self), fn = f
      PROVE  /\ Self \in Servers /\ Self = Popped.ctx.server
             /\ NoStep(Popped) /\ Always(Popped) /\ Taken(Popped, last)
             /\ StepOk(Popped.conn[Self], wire, last, f, Self, Data)
  <2>1. Self \in Servers /\ Self = Popped.ctx.server /\ Standing(Popped)
    BY <1>0, <1>g, <1>s, PoppedServer
  <2>2. <<f, Self>> \in StepKinds
    BY <1>g, <1>s, <1>1, ServerStep DEF AInv, IInv
  <2>3. k = <<f, Self>> /\ k # <<"read", Client>>
    BY <1>k, <1>s
  <2> QED
    BY <1>b, <1>s, <2>1, <2>2, <2>3 DEF Standing, Idle
<1>c. ASSUME Self = Client, NEW f \in Going, fn = f
      PROVE  /\ NoStep(Popped) /\ Always(Popped) /\ Spare(Popped)
             /\ f # "read" => Taken(Popped, last)
             /\ StepOk(Popped.conn[Client], wire, last, f, Client, Data)
             /\ Ready(Popped, f, Client)
  <2>1. Standing(Popped) /\ Ready(Popped, f, Client)
    BY <1>0, <1>g, <1>c, PoppedClient
  <2>2. <<f, Client>> \in StepKinds /\ <<f, Client>> \notin ServerKinds
    <3>1. <<f, Client>> \in ClientKinds
      BY DEF ClientKinds
    <3> QED
      BY <3>1, KindsSplit
  <2>3. k = <<f, Client>>
    BY <1>k, <1>c
  <2> QED
    BY <1>b, <1>c, <2>1, <2>2, <2>3 DEF Standing, Idle
<1>r. k \notin StepKinds => Sound(Popped, wire, last)
  <2>1. <<"read", Client>> \in StepKinds
    BY ClientIn DEF StepKinds, Going
  <2> QED
    BY <1>b, <2>1, KindsSplit DEF Sound
<1>2. CASE OnTimer
  <2>1. fn = "wait" /\ Become(on_timer(Popped, Self, Result)) /\ UNCHANGED <<wire, last>>
    BY <1>2 DEF OnTimer, Running, Handle
  <2>2. Sound(on_timer(Popped, Self, Result), wire, last)
    <3>1. k \notin StepKinds
      BY <1>k, <2>1 DEF StepKinds, Going
    <3> QED
      BY <1>1, <1>r, <3>1, OnTimerApart, ApartSound
  <2> QED
    BY <1>g, <1>1, <2>1, <2>2, OnTimerGood, BecomeSound
<1>3. CASE OnWrite
  <2> DEFINE w == on_write(Popped, Self, Result, Data)
  <2>0. fn = "write" /\ Become(w) /\ UNCHANGED <<wire, last>>
    BY <1>3 DEF OnWrite, Running, Handle
  <2>1. CASE Self = Client
    <3>1. k \notin StepKinds
      BY <1>k, <2>0, <2>1 DEF StepKinds, Going
    <3>2. Always(Popped)
      BY <1>a, <2>0 DEF Active
    <3>3. Apart(Popped, w)
      BY <1>1, <2>1, <3>2, OnWriteClientApart
    <3>4. Sound(w, wire, last)
      BY <1>r, <3>1, <3>3, ApartSound
    <3> QED
      BY <1>g, <1>1, <2>0, <3>4, OnWriteGood, BecomeSound
  <2>2. CASE Self # Client
    <3>1. "write" \in Steps(Self)
      BY <2>2 DEF Steps
    <3>2. w.fault = "none" => Sound(w, wire, last)
      BY <1>1, <1>b, <1>g, <1>s, <2>0, <2>2, <3>1, OnWriteServerSound
    <3> QED
      BY <1>g, <1>1, <2>0, <3>2, OnWriteGood, BecomeSound
  <2> QED
    BY <2>1, <2>2
<1>4. CASE OnResolve
  <2>0. /\ fn = "resolve" /\ Become(on_resolve(Popped, Self, Result)) /\ UNCHANGED <<wire, last>>
        /\ Self # Client
    BY <1>4, <1>c DEF OnResolve, Running, Handle, Going, Ready
  <2>1. Sound(on_resolve(Popped, Self, Result), wire, last)
    BY <1>1, <1>b, <1>s, <2>0, OnResolveSound DEF Steps, Going
  <2> QED
    BY <1>g, <1>1, <2>0, <2>1, OnResolveGood, BecomeSound
<1>5. CASE OnConnect
  <2>0. /\ fn = "connect" /\ Become(on_connect(Popped, Self, Result)) /\ UNCHANGED <<wire, last>>
        /\ Self # Client
    BY <1>5, <1>c DEF OnConnect, Running, Handle, Going, Ready
  <2>1. Sound(on_connect(Popped, Self, Result), wire, last)
    BY <1>1, <1>b, <1>s, <2>0, OnConnectSound DEF Steps, Going
  <2> QED
    BY <1>g, <1>1, <2>0, <2>1, OnConnectGood, BecomeSound
<1>6. CASE ClientOnRead
  <2> DEFINE w == client_on_read(Popped, Result, Data)
  <2>0. fn = "read" /\ Become(w) /\ UNCHANGED <<wire, last>> /\ Self = Client
    BY <1>6 DEF ClientOnRead, Running, Handle
  <2>1. w.fault = "none" => Sound(w, wire, last)
    BY <1>1, <1>b, <1>c, <1>g, <2>0, ClientOnReadSound DEF Going
  <2> QED
    BY <1>g, <1>1, <2>0, <2>1, ClientOnReadGood, BecomeSound
<1>7. CASE ClientOnHandshake
  <2> DEFINE w == client_on_handshake(Popped, Result)
  <2>0. fn = "handshake" /\ Become(w) /\ UNCHANGED <<wire, last>> /\ Self = Client
    BY <1>7 DEF ClientOnHandshake, Running, Handle
  <2>1. Sound(w, wire, last)
    BY <1>1, <1>b, <1>c, <2>0, ClientOnHandshakeSound DEF Going
  <2> QED
    BY <1>g, <1>1, <2>0, <2>1, ClientOnHandshakeGood, BecomeSound
<1>8. CASE ServerOnRead
  <2> DEFINE w == server_on_read(Popped, Self, Result, Data)
  <2>0. fn = "read" /\ Become(w) /\ UNCHANGED <<wire, last>> /\ Self # Client
    BY <1>8 DEF ServerOnRead, Running, Handle
  <2>1. w.fault = "none" => Sound(w, wire, last)
    BY <1>1, <1>b, <1>s, <2>0, ServerOnReadSound DEF Steps, Going
  <2> QED
    BY <1>g, <1>1, <2>0, <2>1, ServerOnReadGood, BecomeSound
<1>9. CASE ServerOnHandshake
  <2> DEFINE w == server_on_handshake(Popped, Self, Result)
  <2>0. fn = "handshake" /\ Become(w) /\ UNCHANGED <<wire, last>> /\ Self # Client
    BY <1>9 DEF ServerOnHandshake, Running, Handle
  <2>1. Sound(w, wire, last)
    BY <1>1, <1>b, <1>s, <2>0, ServerOnHandshakeSound DEF Steps, Going
  <2> QED
    BY <1>g, <1>1, <2>0, <2>1, ServerOnHandshakeGood, BecomeSound
<1>10. CASE ClientRead
  <2>0. fn = "READ" /\ Self = Client /\ (LockServer \/ ctx.server < MaxServers)
    BY <1>10 DEF ClientRead, Running
  <2>1. PICK connect \in {FALSE, Https}, destination \in Destinations :
          HandleEvent(on_client_message(Popped, connect, destination))
    BY <1>10 DEF ClientRead
  <2>2. connect \in BOOLEAN
    BY EnvironmentAssumption
  <2> DEFINE w == on_client_message(Popped, connect, destination)
  <2>3. Good(w)
    BY <1>1, <2>0, <2>2, OnClientMessageGood
  <2>4. w.fault = "none" => Sound(w, wire, last)
    BY <1>1, <1>b, <1>c, <1>g, <2>0, <2>2, OnClientMessageSound DEF Going
  <2> QED
    BY <1>g, <2>1, <2>3, <2>4, HandleEventSound
<1>11. CASE ServerRead
  <2>0. fn = "READ" /\ Self # Client
    BY <1>11 DEF ServerRead, Running
  <2>1. PICK keep_alive \in BOOLEAN : HandleEvent(on_server_message(Popped, Self, keep_alive))
    BY <1>11 DEF ServerRead
  <2> DEFINE w == on_server_message(Popped, Self, keep_alive)
  <2>2. w.fault = "none" => Sound(w, wire, last)
    BY <1>1, <1>b, <1>s, <2>0, OnServerMessageSound DEF Steps, Going
  <2> QED
    BY <1>g, <1>1, <2>1, <2>2, OnServerMessageGood, HandleEventSound
<1>12. CASE ClientWritten
  <2>0. fn = "WRITE"
    BY <1>12 DEF ClientWritten, Running
  <2>1. PICK keep_alive \in BOOLEAN, certified \in {TRUE, "cert" \notin Failures} :
          HandleEvent(on_client_written(Popped, keep_alive, certified))
    BY <1>12 DEF ClientWritten
  <2> DEFINE w == on_client_written(Popped, keep_alive, certified)
  <2>2. k \notin StepKinds
    BY <1>k, <2>0 DEF StepKinds, Going
  <2>3. w.fault = "none" => Sound(w, wire, last)
    BY <1>1, <1>a, <1>r, <2>0, <2>2, OnClientWrittenSound
  <2> QED
    BY <1>g, <1>1, <2>1, <2>3, OnClientWrittenGood, HandleEventSound
<1>13. CASE ClientSecured
  <2> DEFINE w == on_client_secured(Popped)
  <2>0. fn = "HANDSHAKE" /\ HandleEvent(w) /\ Self = Client
    BY <1>13 DEF ClientSecured, Running
  <2>1. w.fault = "none" => Sound(w, wire, last)
    BY <1>1, <1>b, <1>c, <2>0, OnClientSecuredSound DEF Going
  <2> QED
    BY <1>g, <1>1, <2>0, <2>1, OnClientSecuredGood, HandleEventSound
<1>14. CASE ServerConnected
  <2> DEFINE w == on_server_connected(Popped, Self)
  <2>0. fn = "CONNECT" /\ HandleEvent(w) /\ Self # Client
    BY <1>14, <1>c DEF ServerConnected, Running, Going, Ready
  <2>1. w.fault = "none" => Sound(w, wire, last)
    BY <1>1, <1>b, <1>g, <1>s, <2>0, OnServerConnectedSound DEF Steps, Going
  <2> QED
    BY <1>g, <1>1, <2>0, <2>1, OnServerConnectedGood, HandleEventSound
<1>15. CASE ServerSecured
  <2> DEFINE w == on_server_secured(Popped, Self)
  <2>0. fn = "HANDSHAKE" /\ HandleEvent(w) /\ Self # Client
    BY <1>15 DEF ServerSecured, Running
  <2>1. w.fault = "none" => Sound(w, wire, last)
    BY <1>1, <1>b, <1>g, <1>s, <2>0, OnServerConnectedSound DEF Steps, Going
  <2> QED
    BY <1>g, <1>1, <2>0, <2>1, OnServerConnectedGood, HandleEventSound
<1>16. CASE OnStop
  <2>0. fn = "on_stop" /\ Become(on_stop(Popped, Self)) /\ UNCHANGED <<wire, last>>
    BY <1>16 DEF OnStop, Running, Handle
  <2>1. k \notin StepKinds
    BY <1>k, <2>0 DEF StepKinds, Going
  <2>2. Sound(on_stop(Popped, Self), wire, last)
    BY <1>1, <1>r, <2>1, OnStopApart, ApartSound
  <2> QED
    BY <1>g, <1>1, <2>0, <2>2, OnStopGood, BecomeSound
<1>17. CASE StopAll
  <2> DEFINE stopped == IF Client \in managed THEN stop(Popped, Client, FALSE) ELSE Popped
             all == IF ctx.server \in managed THEN stop(stopped, ctx.server, FALSE) ELSE stopped
             z == [all EXCEPT !.managed = {}]
  <2>0. fn = "stop_all" /\ Become(z) /\ UNCHANGED <<wire, last>>
    BY <1>17 DEF StopAll, Running, Handle
  <2>1. Good(z)
    BY <1>1, StopAllGood
  <2>2. /\ stopped = IF Client \in managed THEN stop(Popped, Client, FALSE) ELSE Popped
        /\ all = IF ctx.server \in managed THEN stop(stopped, ctx.server, FALSE) ELSE stopped
        /\ z = [all EXCEPT !.managed = {}]
    OBVIOUS
  <2> HIDE DEF z, all, stopped
  <2>3. Apart(Popped, z)
    BY <1>1, <2>1, <2>2, StopAllApart
  <2>4. k \notin StepKinds
    BY <1>k, <2>0 DEF StepKinds, Going
  <2>5. Sound(z, wire, last)
    BY <1>r, <2>3, <2>4, ApartSound
  <2> QED
    BY <1>g, <2>0, <2>1, <2>5, BecomeSound
<1> QED
  BY <1>2, <1>3, <1>4, <1>5, <1>6, <1>7, <1>8, <1>9, <1>10, <1>11, <1>12, <1>13,
     <1>14, <1>15, <1>16, <1>17 DEF RunHandler

-----------------------------------------------------------------------------
(* The environment: a completion takes the place of its operation.          *)
Completes(p, data, w) ==
  /\ Good(w) /\ w.conn = conn /\ w.ctx = ctx /\ w.pending = pending \ {p}
  /\ Kinds(w) = Kinds(World)
  /\ \A fn, c, d : Doing(w, fn, c, d) =>
       Doing(World, fn, c, d) \/ (fn = p.op /\ c = p.conn /\ d = data)
  /\ OpKind(p) \in StepKinds =>
       /\ Doing(World, p.op, p.conn, << >>)
       /\ \A fn, c, d : Doing(w, fn, c, d) => fn = p.op /\ c = p.conn /\ d = data

LEMMA CompleteParts ==
  ASSUME CInv, Good(World)', NEW p \in pending, NEW res \in Results, NEW data \in Seq(Unit),
         Complete(p, res, data), NEW w, w = World'
  PROVE  Completes(p, data, w)
<1> DEFINE h == Completion(p.op, p.conn, res, data)
           n == Len(queue)
<1>0. Good(World) /\ Alone(World, StepKinds)
  BY DEF CInv, AInv, IInv, Active, Single
<1>1. p \in PendingOps /\ queue \in Seq(Handlers) /\ n \in Nat
  BY <1>0, WorldFields DEF Good, Worlds
<1>2. /\ h \in Handlers /\ HandlerKind(h) = OpKind(p)
      /\ h.fn = p.op /\ h.conn = p.conn /\ h.data = data
  BY <1>1 DEF PendingOps, Handlers, Completion, HandlerKind, OpKind
<1>3. /\ w.queue = Append(queue, h) /\ w.pending = pending \ {p} /\ w.conn = conn /\ w.ctx = ctx
  BY DEF Complete, World
<1>4. Good(w)
  OBVIOUS
<1>5. /\ World.queue = queue /\ World.pending = pending /\ World.conn = conn
  BY WorldFields
<1> HIDE DEF h
<1>6. Kinds(w) = Kinds(World)
  <2>1. w.queue = Append(World.queue, h) /\ World.queue \in Seq(Handlers)
    BY <1>1, <1>3, <1>5
  <2>2. p \in World.pending /\ w.pending = World.pending \ {p}
    BY <1>3, <1>5
  <2>3. \A q \in World.pending : q \notin w.pending => OpKind(q) = OpKind(p)
    BY <2>2
  <2>4. Same(World, w)
    BY <1>2, <2>1, <2>2, <2>3, CompletionSame
  <2> QED
    BY <2>4 DEF Same
<1>7. /\ Len(w.queue) = n + 1 /\ w.queue[n + 1] = h
      /\ \A i \in 1..n : w.queue[i] = queue[i]
  BY <1>1, <1>2, <1>3
<1>8. 1..(n + 1) = 1..n \cup {n + 1}
  BY <1>1
<1>n. n = Len(queue)
  OBVIOUS
<1> HIDE DEF n
<1>9. ASSUME NEW fn, NEW c, NEW d, Doing(w, fn, c, d)
      PROVE  \/ fn = p.op /\ c = p.conn /\ d = data
             \/ Doing(World, fn, c, d) /\ d = << >> /\ \E q \in pending \ {p} : OpKind(q) = <<fn, c>>
             \/ Doing(World, fn, c, d) /\ \E i \in 1..n : HandlerKind(queue[i]) = <<fn, c>>
  <2>0. <<fn, c>> \in StepKinds
    BY <1>9 DEF Doing
  <2>1. CASE \E i \in 1..n : w.queue[i].fn = fn /\ w.queue[i].conn = c /\ w.queue[i].data = d
    BY <1>5, <1>7, <1>n, <2>0, <2>1 DEF Doing, HandlerKind
  <2>2. CASE h.fn = fn /\ h.conn = c /\ h.data = d
    BY <1>2, <2>2
  <2>3. CASE d = << >> /\ \E q \in w.pending : q.op = fn /\ q.conn = c
    BY <1>3, <1>5, <2>0, <2>3 DEF Doing, OpKind
  <2> QED
    BY <1>7, <1>8, <1>9, <2>1, <2>2, <2>3 DEF Doing
<1>10. ASSUME OpKind(p) \in StepKinds
       PROVE  /\ Doing(World, p.op, p.conn, << >>)
              /\ \A fn, c, d : Doing(w, fn, c, d) => fn = p.op /\ c = p.conn /\ d = data
  <2>1. Doing(World, p.op, p.conn, << >>)
    BY <1>5, <1>10 DEF Doing, OpKind
  <2>2. \A q \in pending \ {p} : OpKind(q) \notin StepKinds
    BY <1>0, <1>5, <1>10 DEF Alone
  <2>3. \A i \in 1..n : HandlerKind(queue[i]) \notin StepKinds
    BY <1>0, <1>5, <1>n, <1>10 DEF Alone
  <2>4. \A fn, c, d : Doing(w, fn, c, d) => <<fn, c>> \in StepKinds
    BY DEF Doing
  <2>5. \A fn, c, d : Doing(w, fn, c, d) => fn = p.op /\ c = p.conn /\ d = data
    BY <1>9, <2>2, <2>3, <2>4
  <2> QED
    BY <2>1, <2>5
<1> QED
  BY <1>3, <1>4, <1>6, <1>9, <1>10 DEF Completes

\* An operation that is not a step, or that brings nothing.
LEMMA CompletesApart ==
  ASSUME CInv, NEW p \in pending, NEW data, NEW w, Completes(p, data, w),
         OpKind(p) \notin StepKinds \/ data = << >>
  PROVE  Apart(World, w)
<1>1. World.conn = conn /\ World.ctx = ctx /\ World.pending = pending
  BY WorldFields
<1>2. \A fn, c, d : Doing(w, fn, c, d) => Doing(World, fn, c, d)
  <2>1. CASE OpKind(p) \in StepKinds
    BY <2>1 DEF Completes
  <2>2. CASE OpKind(p) \notin StepKinds
    BY <2>2 DEF Completes, Doing, OpKind
  <2> QED
    BY <2>1, <2>2
<1> QED
  BY <1>1, <1>2 DEF Completes, Apart, ApartConn

LEMMA CompletesSound ==
  ASSUME CInv, NEW p \in pending, NEW data, NEW w, Completes(p, data, w),
         OpKind(p) \notin StepKinds \/ data = << >>,
         NEW W, NEW L, Sound(World, W, L)
  PROVE  Sound(w, W, L)
<1>1. Apart(World, w)
  BY CompletesApart
<1> QED
  BY <1>1, ApartSound

\* What the client has received is not looked at.
LEMMA ClientWireSound ==
  ASSUME NEW m, NEW W, NEW L, Sound(m, W, L), NEW V, \A s \in Servers : V[s] = W[s]
  PROVE  Sound(m, V, L)
<1>1. Past(V, L)
  BY DEF Sound, Base, Past
<1>2. Unasked(W, L) => Unasked(V, L)
  BY DEF Unasked
<1>3. \A x : Asking(x, W, L) => Asking(x, V, L)
  BY <1>2 DEF Asking
<1>4. \A s \in Servers : \A i : Forwarded(W, L, s, i) => Forwarded(V, L, s, i)
  BY DEF Forwarded
<1>5. \A s \in Servers : \A x : Answer(x, W, L, s) => Answer(x, V, L, s)
  BY <1>4 DEF Answer
<1>6. \A s \in Servers : \A r, n : Unsent(r, W, L, s, n) => Unsent(r, V, L, s, n)
  BY <1>4 DEF Unsent
<1>7. ASSUME NEW fn, NEW c, NEW d, Doing(m, fn, c, d) PROVE StepOk(m.conn[c], V, L, fn, c, d)
  <2>1. StepOk(m.conn[c], W, L, fn, c, d)
    BY <1>7 DEF Sound, StepsOk
  <2>2. c = Client \/ c \in Servers
    <3>1. <<fn, c>> \in StepKinds
      BY <1>7 DEF Doing
    <3>2. c \in Conns
      BY <3>1 DEF StepKinds
    <3> QED
      BY <3>2
  <2> QED
    BY <1>3, <1>5, <1>6, <2>1, <2>2 DEF StepOk
<1> QED
  BY <1>1, <1>7 DEF Sound, Base, StepsOk, Taken, Spare

\* A step that brings something.
LEMMA CompletedSound ==
  ASSUME CInv, NEW p \in pending, NEW data, NEW w, Completes(p, data, w), OpKind(p) \in StepKinds,
         Sound(World, wire, last), NEW W, NEW L, Past(W, L),
         \A s \in Servers : s > ctx.server => W[s] = << >>,
         L[Client] # last[Client] => OpKind(p) = <<"read", Client>>,
         StepOk(conn[p.conn], W, L, p.op, p.conn, data)
  PROVE  Sound(w, W, L)
<1>1. World.conn = conn /\ World.ctx = ctx /\ World.pending = pending
  BY WorldFields
<1>2. w.conn = conn /\ w.ctx = ctx /\ Kinds(w) = Kinds(World) /\ w.pending \subseteq pending
  BY DEF Completes
<1>3. OpKind(p) \in Kinds(w)
  BY <1>1, <1>2 DEF Kinds
<1>4. Base(w, W, L)
  BY <1>1, <1>2 DEF Sound, Base, Held
<1>5. StepsOk(w, W, L)
  BY <1>2 DEF Completes, StepsOk
<1>6. Taken(w, L) /\ Spare(w)
  BY <1>1, <1>2, <1>3 DEF Sound, Taken, Spare
<1> QED
  BY <1>4, <1>5, <1>6 DEF Sound

LEMMA ClientSendsSound ==
  ASSUME CInv, Good(World)', Sound(World, wire, last), NEW p \in pending, NEW n \in 0..ReqLen,
         ClientSends(p, n)
  PROVE  Sound(World, wire, last)'
<1> DEFINE more == last[Client][2] < ReqLen
           r == IF more THEN last[Client][1] ELSE last[Client][1] + 1
           i == IF more THEN last[Client][2] ELSE 0
           data == Units(r, i, n)
           L == last'
           w == World'
           x == conn[Client].message
<1>0. /\ last \in [Conns -> Unit] /\ last[Client] \in Nat \X Nat /\ Past(wire, last)
      /\ x \in Seq(Unit)
  <2>1. Good(World) /\ World.conn = conn
    BY WorldFields DEF CInv, AInv, IInv
  <2> QED
    BY <2>1, ClientIn, MessageType DEF CInv, AInv, IInv, Unit, Sound, Base
<1>1. r \in Nat /\ i \in Nat /\ n \in Nat /\ last[Client][1] \in Nat /\ last[Client][2] \in Nat
  BY <1>0
<1>u. \A s \in Servers : last[s][1] \in Nat /\ \A u \in UnitsIn(wire[s]) : u[1] \in Nat
  BY UnitsInType DEF CInv, AInv, IInv, Unit
<1>2. /\ Complete(p, "ok", data) /\ OpKind(p) = <<"read", Client>> /\ i + n <= ReqLen /\ wire' = wire
      /\ L = IF n = 0 THEN last ELSE [last EXCEPT ![Client] = <<r, i + n>>]
  BY DEF ClientSends, Sends, OpKind
<1>3. Completes(p, data, w)
  BY <1>1, <1>2, UnitsType, CompleteParts DEF Results
<1> HIDE DEF data, L, w, x, r, i
<1>4. OpKind(p) \in StepKinds
  BY <1>2, ClientIn DEF StepKinds, Going
<1>5. CASE n = 0
  <2>1. data = << >> /\ L = last
    BY <1>1, <1>2, <1>5, UnitsEmpty DEF data
  <2>2. Sound(w, wire, last)
    BY <1>3, <2>1, CompletesSound
  <2> QED
    BY <1>2, <2>1, <2>2 DEF w, L
<1>6. CASE n # 0
  <2>1. /\ L[Client] = <<r, i + n>> /\ \A s \in Servers : L[s] = last[s]
    BY <1>0, <1>2, <1>6, ClientIn
  <2>2. Asking(x, wire, last) /\ Len(x) < ReqLen
    <3>1. StepOk(conn[Client], wire, last, "read", Client, << >>)
      BY <1>2, <1>3, <1>4, WorldFields DEF Completes, Sound, StepsOk, OpKind
    <3>2. x \o << >> = x
      BY <1>0
    <3> QED
      BY <3>1, <3>2 DEF StepOk, x
  <2>3. last[Client][2] \in 1..ReqLen
    BY <1>0, ClientIn DEF Past, InLen
  <2>4. /\ x = Units(r, 0, i)
        /\ \A s \in Servers : last[s][1] < r /\ Older(UnitsIn(wire[s]), r)
        /\ r >= Current(last)
    <3>1. CASE more
      BY <1>1, <2>2, <3>1 DEF Asking, Unasked, Current, r, i
    <3>2. CASE ~more
      <4>1. r = Current(last) + 1 /\ i = 0 /\ last[Client][2] = ReqLen
        BY <2>3, <3>2 DEF r, i, Current
      <4>2. x = << >>
        <5>1. Spans(Units(Current(last), 0, ReqLen), Current(last), 0, ReqLen)
          BY <1>1, UnitsSpan DEF Current
        <5>2. Len(Units(Current(last), 0, ReqLen)) = ReqLen
          BY <5>1 DEF Spans
        <5> QED
          BY <2>2, <4>1, <5>2 DEF Asking
      <4>3. \A s \in Servers : last[s][1] < r /\ Older(UnitsIn(wire[s]), r)
        BY <1>0, <1>1, <1>u, <4>1 DEF Past, Current
      <4>4. Units(r, 0, 0) = << >>
        BY <1>1, UnitsEmpty
      <4> QED
        BY <1>1, <4>1, <4>2, <4>3, <4>4 DEF Current
    <3> QED
      BY <3>1, <3>2
  <2>5. x \o data = Units(r, 0, i + n)
    BY <1>1, <2>4, UnitsJoin DEF data
  <2>6. Current(L) = r /\ L[Client][2] = i + n /\ Unasked(wire, L)
    BY <2>1, <2>4 DEF Current, Unasked
  <2>7. Past(wire, L)
    <3>1. \A s \in Servers : Older(UnitsIn(wire[s]), r + 1) /\ L[s][1] <= r
      BY <1>1, <1>u, <2>1, <2>4 DEF Older
    <3>2. \A c \in Conns : L[c][2] \in 1..InLen(c)
      BY <1>0, <1>1, <1>2, <1>6, <2>1 DEF Past, InLen
    <3> QED
      BY <1>0, <2>6, <3>1, <3>2 DEF Past
  <2>8. StepOk(conn[Client], wire, L, "read", Client, data)
    BY <2>2, <2>5, <2>6 DEF StepOk, Asking, x
  <2>9. Sound(w, wire, L)
    <3>1. p.op = "read" /\ p.conn = Client
      BY <1>2 DEF OpKind
    <3>2. \A s \in Servers : s > ctx.server => wire[s] = << >>
      BY WorldFields DEF Sound, Base
    <3> QED
      BY <1>2, <1>3, <1>4, <2>7, <2>8, <3>1, <3>2, CompletedSound
  <2> QED
    BY <1>2, <2>9 DEF w, L
<1> QED
  BY <1>5, <1>6

LEMMA ServerSendsSound ==
  ASSUME CInv, Good(World)', Sound(World, wire, last), NEW p \in pending, NEW n \in 0..RespLen,
         ServerSends(p, n)
  PROVE  Sound(World, wire, last)'
<1> DEFINE s == p.conn
           sent == wire[s]
           r == sent[Len(sent)][1]
           i == IF last[s][1] = r THEN last[s][2] ELSE 0
           data == Units(r, i, n)
           L == last'
           w == World'
           x == conn[s].message
<1>g. Good(World) /\ World.conn = conn /\ World.pending = pending
  BY WorldFields DEF CInv, AInv, IInv
<1>s. s \in Servers /\ OpKind(p) = <<"read", s>>
  <2>1. p \in PendingOps /\ p.op = "read" /\ p.conn # Client
    BY <1>g DEF ServerSends, Good, Worlds
  <2> QED
    BY <2>1 DEF PendingOps, OpKind
<1>0. /\ last \in [Conns -> Unit] /\ Past(wire, last)
      /\ x \in Seq(Unit) /\ sent \in Seq(Unit) /\ sent # << >> /\ last[s] \in Nat \X Nat
      /\ last[Client] \in Nat \X Nat
  BY <1>g, <1>s, ClientIn, MessageType DEF CInv, AInv, IInv, Unit, Sound, Base, ServerSends
<1>1. r \in Nat /\ i \in Nat /\ n \in Nat /\ last[s][1] \in Nat /\ last[s][2] \in Nat /\ Current(last) \in Nat
  <2>1. sent[Len(sent)] \in Nat \X Nat
    BY <1>0, ElementOfSeq DEF Unit
  <2>2. r \in Nat /\ last[s][1] \in Nat /\ last[s][2] \in Nat
    BY <1>0, <2>1
  <2>3. i \in Nat
    BY <2>2
  <2>4. Current(last) \in Nat
    BY <1>0 DEF Current
  <2>5. n \in Nat
    OBVIOUS
  <2> QED
    BY <2>2, <2>3, <2>4, <2>5
<1>2. /\ Complete(p, "ok", data) /\ i + n <= RespLen /\ wire' = wire
      /\ L = IF n = 0 THEN last ELSE [last EXCEPT ![s] = <<r, i + n>>]
  BY DEF ServerSends, Sends
<1>3. Completes(p, data, w)
  BY <1>1, <1>2, UnitsType, CompleteParts DEF Results
<1> HIDE DEF data, L, w, x, r, i, s
<1>4. OpKind(p) \in StepKinds
  BY <1>s DEF StepKinds, Going
<1>5. CASE n = 0
  <2>1. data = << >> /\ L = last
    BY <1>1, <1>2, <1>5, UnitsEmpty DEF data
  <2>2. Sound(w, wire, last)
    BY <1>3, <2>1, CompletesSound
  <2> QED
    BY <1>2, <2>1, <2>2 DEF w, L
<1>6. CASE n # 0
  <2>1. L[s] = <<r, i + n>> /\ L[Client] = last[Client] /\ \A c \in Conns \ {s} : L[c] = last[c]
    BY <1>0, <1>2, <1>6, <1>s, ClientIn
  <2>2. StepOk(conn[s], wire, last, "read", s, << >>)
    BY <1>g, <1>3, <1>4, <1>s DEF Completes, Sound, StepsOk, OpKind, s
  <2>3. x \o << >> = x /\ s # Client
    BY <1>0, <1>s
  <2>4. Answer(x, wire, last, s) /\ conn[s].encoded = ReqLen /\ (~conn[s].writing \/ conn[s].stopped)
    BY <2>2, <2>3 DEF StepOk, x
  <2>5. Forwarded(wire, last, s, ReqLen) /\ r = Current(last)
    BY <1>1, <2>4 DEF Answer, Forwarded, r
  <2>6. x = Units(r, 0, i)
    BY <2>4, <2>5 DEF Answer, i
  <2>7. x \o data = Units(r, 0, i + n)
    BY <1>1, <2>6, UnitsJoin DEF data
  <2>8. Current(L) = r /\ Current(L) = Current(last) /\ L[s][1] = r /\ L[s][2] = i + n
    BY <2>1, <2>5 DEF Current
  <2>9. Answer(x \o data, wire, L, s)
    BY <2>5, <2>7, <2>8 DEF Answer, Forwarded
  <2>10. StepOk(conn[s], wire, L, "read", s, data)
    BY <2>3, <2>4, <2>9 DEF StepOk, x
  <2>11. Past(wire, L)
    <3>1. ASSUME NEW t \in Servers PROVE L[t][1] <= Current(last)
      <4>1. CASE t = s
        BY <1>1, <2>5, <2>8, <4>1
      <4>2. CASE t # s
        <5>1. L[t] = last[t]
          BY <2>1, <4>2
        <5> QED
          BY <1>0, <5>1 DEF Past
      <4> QED
        BY <4>1, <4>2
    <3>2. ASSUME NEW c \in Conns PROVE L[c][2] \in 1..InLen(c)
      <4>1. CASE c = s
        <5>1. InLen(c) = RespLen
          BY <2>3, <4>1 DEF InLen
        <5>2. L[c][2] = i + n
          BY <2>8, <4>1
        <5> QED
          BY <1>1, <1>2, <1>6, <5>1, <5>2
      <4>2. CASE c # s
        <5>1. L[c] = last[c]
          BY <2>1, <4>2
        <5> QED
          BY <1>0, <5>1 DEF Past
      <4> QED
        BY <4>1, <4>2
    <3> QED
      BY <1>0, <2>8, <3>1, <3>2 DEF Past
  <2>12. Sound(w, wire, L)
    <3>1. p.op = "read" /\ p.conn = s
      BY <1>s DEF OpKind
    <3>2. \A t \in Servers : t > ctx.server => wire[t] = << >>
      BY WorldFields DEF Sound, Base
    <3>3. StepOk(conn[p.conn], wire, L, p.op, p.conn, data)
      BY <2>10, <3>1
    <3>4. L[Client] # last[Client] => OpKind(p) = <<"read", Client>>
      BY <2>1
    <3> HIDE DEF ServerSends
    <3> QED
      BY ONLY CInv, p \in pending, Sound(World, wire, last), <1>3, <1>4, <2>11, <3>2, <3>3, <3>4,
              CompletedSound
  <2> QED
    BY <1>2, <2>12 DEF w, L
<1> QED
  BY <1>5, <1>6

\* More of the current request reaches its server.
Grown(V, W, L, s, i, n) ==
  /\ Past(V, L) /\ Forwarded(V, L, s, i + n)
  /\ \A t \in Conns \ {s} : V[t] = W[t]
LEMMA WireGrown ==
  ASSUME NEW W \in [Conns -> Seq(Unit)], NEW L \in [Conns -> Unit], Past(W, L), NEW s \in Servers,
         NEW i \in Nat, NEW n \in Nat, n # 0, i + n <= ReqLen, Forwarded(W, L, s, i),
         \A t \in Servers : t > s => W[t] = << >>,
         NEW V, V = [W EXCEPT ![s] = W[s] \o Units(Current(L), i, n)]
  PROVE  Grown(V, W, L, s, i, n)
<1> DEFINE r == Current(L)
           x == W[s]
           y == Units(r, i, n)
           z == x \o y
<1>0. r \in Nat
  BY ClientIn DEF Current, Unit
<1>1. x \in Seq(Unit) /\ \A u \in UnitsIn(x) : u[1] \in Nat /\ u[2] \in Nat
  BY UnitsInType
<1>2. Spans(y, r, i, n)
  BY <1>0, UnitsSpan
<1>3. Increasing(y) /\ \A u \in UnitsIn(y) : u[1] = r /\ u[2] \in i + 1 .. i + n
  BY <1>0, UnitsIncrease
<1>4. V[s] = z /\ \A t \in Conns \ {s} : V[t] = W[t]
  OBVIOUS
<1> HIDE DEF y
<1>5. y \in Seq(Unit) /\ Len(y) = n /\ y[n] = <<r, i + n>>
  BY <1>2 DEF Spans
<1>6. Precede(UnitsIn(x), UnitsIn(y))
  <2>1. CASE i = 0
    BY <1>3, <2>1 DEF Forwarded, Older, Precede, Before, r
  <2>2. CASE i # 0
    <3>1. x # << >> /\ x[Len(x)] = <<r, i>>
      BY <2>2 DEF Forwarded, r
    <3>2. Len(x) \in Nat /\ Len(x) # 0
      BY <1>1, <3>1, LenProperties, EmptySeq
    <3>3. \A j \in 1..Len(x) : j = Len(x) \/ Before(x[j], x[Len(x)])
      <4>1. Increasing(x)
        BY DEF Past
      <4>2. \A j \in 1..Len(x) : Len(x) \in 1..Len(x) /\ (j = Len(x) \/ j < Len(x))
        BY <3>2
      <4> HIDE DEF x
      <4> QED
        BY <4>1, <4>2 DEF Increasing
    <3>4. \A u \in UnitsIn(x) : u = <<r, i>> \/ Before(u, <<r, i>>)
      BY <3>1, <3>3 DEF UnitsIn
    <3>5. ASSUME NEW u \in UnitsIn(x), NEW v \in UnitsIn(y) PROVE Before(u, v)
      <4>1. v[1] = r /\ v[2] \in Nat /\ v[2] > i /\ u[1] \in Nat /\ u[2] \in Nat
        BY <1>1, <1>3
      <4>2. u[1] < r \/ (u[1] = r /\ u[2] <= i)
        BY <3>4, <4>1 DEF Before
      <4> QED
        BY <1>0, <4>1, <4>2 DEF Before
    <3> QED
      BY <3>5 DEF Precede
  <2> QED
    BY <2>1, <2>2
<1>7. Increasing(z) /\ UnitsIn(z) = UnitsIn(x) \cup UnitsIn(y)
  <2>1. Increasing(x)
    BY DEF Past
  <2> QED
    BY <1>1, <1>3, <1>5, <1>6, <2>1, InConcat, IncreasingConcat
<1>8. z # << >> /\ z[Len(z)] = <<r, i + n>>
  <2> HIDE DEF x
  <2>0. /\ Len(z) = Len(x) + Len(y)
        /\ \A j \in 1..(Len(x) + Len(y)) : z[j] = IF j <= Len(x) THEN x[j] ELSE y[j - Len(x)]
    BY ONLY <1>1, <1>5, ConcatProperties
  <2>1. /\ Len(z) = Len(x) + n /\ Len(x) \in Nat
        /\ \A j \in 1..(Len(x) + n) : z[j] = IF j <= Len(x) THEN x[j] ELSE y[j - Len(x)]
    BY <1>1, <1>5, <2>0, LenProperties
  <2> HIDE DEF z, x
  <2>2. Len(x) + n \in 1..(Len(x) + n) /\ ~(Len(x) + n <= Len(x)) /\ (Len(x) + n) - Len(x) = n
    BY <2>1
  <2>3. z[Len(z)] = y[n]
    BY <2>1, <2>2
  <2>4. Len(z) # 0
    BY <2>1
  <2>5. Len(<< >>) = 0
    OBVIOUS
  <2> QED
    BY <1>5, <2>3, <2>4, <2>5
<1> HIDE DEF z
<1>9. \A t \in Servers \ {s} : Older(UnitsIn(W[t]), r)
  BY DEF Forwarded, r
<1>10. Forwarded(V, L, s, i + n)
  <2>1. i + n # 0 /\ \A t \in Servers \ {s} : V[t] = W[t]
    BY <1>4
  <2>2. \A t \in Servers \ {s} : Older(UnitsIn(V[t]), Current(L))
    BY <1>9, <2>1 DEF r
  <2>3. V[s] # << >> /\ V[s][Len(V[s])] = <<Current(L), i + n>>
    BY <1>4, <1>8 DEF r
  <2> QED
    BY ONLY <2>1, <2>2, <2>3 DEF Forwarded
<1>11. \A u \in UnitsIn(z) : u[1] < r + 1
  <2>1. \A u \in UnitsIn(x) : u[1] < r + 1
    BY DEF Past, Older
  <2>2. \A u \in UnitsIn(y) : u[1] < r + 1
    BY <1>0, <1>3
  <2> QED
    BY <1>7, <2>1, <2>2
<1>12. ASSUME NEW a \in Servers, NEW b \in Servers, a < b,
              NEW u \in UnitsIn(V[a]), NEW v \in UnitsIn(V[b])
       PROVE  u[1] < v[1]
  <2>1. CASE a # s /\ b # s
    BY <1>4, <1>12, <2>1 DEF Past
  <2>2. CASE a = s
    <3>1. V[b] = << >>
      BY <1>4, <1>12, <2>2
    <3> QED
      BY <1>12, <3>1 DEF UnitsIn
  <2>3. CASE b = s
    <3>1. a # s /\ V[a] = W[a] /\ V[b] = z
      BY <1>4, <1>12, <2>3
    <3>2. CASE v \in UnitsIn(x)
      BY <1>12, <2>3, <3>1, <3>2 DEF Past, x
    <3>3. CASE v \in UnitsIn(y)
      BY <1>3, <1>9, <1>12, <3>1, <3>3 DEF Older
    <3> QED
      BY <1>7, <1>12, <3>1, <3>2, <3>3
  <2> QED
    BY <2>1, <2>2, <2>3
<1>13. \A t \in Servers : Increasing(V[t]) /\ Older(UnitsIn(V[t]), Current(L) + 1) /\ L[t][1] <= Current(L)
  <2>1. ASSUME NEW t \in Servers
        PROVE  Increasing(V[t]) /\ Older(UnitsIn(V[t]), Current(L) + 1) /\ L[t][1] <= Current(L)
    <3>1. CASE t = s
      BY <1>4, <1>7, <1>11, <3>1 DEF Past, Older, r
    <3>2. CASE t # s
      BY <1>4, <3>2 DEF Past
    <3> QED
      BY <3>1, <3>2
  <2> QED
    BY <2>1
<1>14. Past(V, L)
  BY <1>12, <1>13 DEF Past
<1> QED
  BY ONLY <1>4, <1>10, <1>14 DEF Grown

LEMMA PeerReceivesSound ==
  ASSUME CInv, Good(World)', Sound(World, wire, last), NEW p \in pending,
         NEW n \in 1..Len(p.data), PeerReceives(p, n)
  PROVE  Sound(World, wire, last)'
<1>g. /\ Good(World) /\ World.conn = conn /\ World.pending = pending /\ World.ctx = ctx
      /\ wire \in [Conns -> Seq(Unit)] /\ last \in [Conns -> Unit]
  BY WorldFields DEF CInv, AInv, IInv
<1>1. CASE Dangling(p)
  <2>1. Good(Abort(World, "freed_buffer"))
    BY <1>g, AbortQuiet DEF Faults, Quiet
  <2>2. Abort(World, "freed_buffer").fault # "none"
    BY <1>g, LengthType, AbortFault
  <2>3. Become(Abort(World, "freed_buffer")) /\ UNCHANGED <<wire, last>>
    BY <1>1 DEF PeerReceives
  <2> QED
    BY <1>g, <2>1, <2>2, <2>3, BecomeSound
<1>2. CASE ~Dangling(p)
  <2> DEFINE s == p.conn
             sent == SubSeq(p.data, 1, n)
             V == wire'
             w == World'
  <2>0. p.data \in Seq(Unit) /\ s \in Conns /\ p.op = "write" /\ OpKind(p) = <<"write", s>>
    BY <1>g DEF Good, Worlds, PendingOps, PeerReceives, OpKind
  <2>1. /\ Complete(p, "ok", sent) /\ last' = last
        /\ V = [wire EXCEPT ![s] = wire[s] \o sent]
    BY <1>2 DEF PeerReceives
  <2>2. sent \in Seq(Unit)
    <3>1. \A i \in 1..n : p.data[i] \in Unit
      BY <2>0, ElementOfSeq
    <3> QED
      BY <2>0, <3>1, SubSeqProperties
  <2>3. Completes(p, sent, w)
    BY <2>1, <2>2, CompleteParts DEF Results
  <2> HIDE DEF w, V, sent, s
  <2>4. CASE s = Client
    <3>1. OpKind(p) \notin StepKinds
      BY <2>0, <2>4 DEF StepKinds, Going
    <3>2. Sound(w, wire, last)
      BY <2>3, <3>1, CompletesSound
    <3>3. \A t \in Servers : V[t] = wire[t]
      BY <1>g, <2>1, <2>4
    <3>4. Sound(w, V, last)
      BY <3>2, <3>3, ClientWireSound
    <3> QED
      BY <2>1, <3>4 DEF w, V
  <2>5. CASE s # Client
    <3>1. s \in Servers
      BY <2>0, <2>5
    <3>2. OpKind(p) \in StepKinds
      BY <2>0, <3>1 DEF StepKinds
    <3>3. s = ctx.server
      <4>1. OpKind(p) \in Kinds(World)
        BY <1>g DEF Kinds
      <4>2. Ready(World, "write", s)
        BY <2>0, <3>2, <4>1 DEF CInv, AInv, Active, Single, Operations
      <4> QED
        BY <1>g, <2>5, <4>2 DEF Ready
    <3>4. StepOk(conn[s], wire, last, "write", s, << >>)
      BY <1>g, <2>0, <2>3, <3>2 DEF Completes, Sound, StepsOk, s
    <3>5. ~conn[s].stopped /\ p.data = Head(conn[s].out)
      BY <1>g, <2>0, <2>5 DEF Sound, Base, Held, s
    <3>6. conn[s].encoded = ReqLen /\ Unsent(conn[s], wire, last, s, 0)
      <4>1. Len(<< >>) = 0
        OBVIOUS
      <4> QED
        BY <2>5, <3>4, <4>1 DEF StepOk
    <3> DEFINE r == Current(last)
    <3>7. PICK i \in 0..(ReqLen - 1) :
            /\ conn[s].out = << Units(r, i, ReqLen - i) >> /\ Forwarded(wire, last, s, i + 0)
      BY <3>5, <3>6 DEF Unsent
    <3>8. r \in Nat /\ i \in Nat /\ n \in Nat /\ ReqLen - i \in Nat /\ i + 0 = i
      BY <1>g, ClientIn DEF Current, Unit
    <3> HIDE DEF r
    <3>9. p.data = Units(r, i, ReqLen - i)
      BY <3>5, <3>7
    <3>10. Spans(p.data, r, i, ReqLen - i)
      BY <3>8, <3>9, UnitsSpan
    <3>11. Len(p.data) = ReqLen - i /\ n <= ReqLen - i /\ n # 0 /\ i + n <= ReqLen
      BY <3>8, <3>10 DEF Spans
    <3>12. sent = Units(r, i, n)
      <4>1. PartOf(sent, p.data, 0, n)
        <5> DEFINE z == 0
        <5>1. z \in Nat /\ z + 1 = 1 /\ n <= Len(p.data)
          BY <3>11
        <5>2. sent = SubSeq(p.data, z + 1, n)
          BY <5>1 DEF sent
        <5> HIDE DEF z
        <5>3. PartOf(SubSeq(p.data, z + 1, n), p.data, z, n)
          BY <2>0, <3>8, <5>1, SubSeqPart
        <5> QED
          BY <5>2, <5>3 DEF z
      <4>2. \A j \in 1..n : 0 + j = j /\ j \in 1..(ReqLen - i)
        BY <3>11
      <4>3. Len(sent) = n /\ \A j \in 1..n : sent[j] = p.data[j]
        BY <3>8, <4>1, <4>2 DEF PartOf
      <4>4. \A j \in 1..n : sent[j] = <<r, i + j>>
        BY <3>10, <4>2, <4>3 DEF Spans
      <4>5. Spans(sent, r, i, n)
        BY <2>2, <4>3, <4>4 DEF Spans
      <4> QED
        BY <3>8, <4>5, SpansEqual
    <3>13. \A t \in Servers : t > s => wire[t] = << >>
      BY <1>g, <3>3 DEF Sound, Base
    <3>14. Past(V, last) /\ Forwarded(V, last, s, i + n) /\ \A t \in Conns \ {s} : V[t] = wire[t]
      <4>1. V = [wire EXCEPT ![s] = wire[s] \o Units(Current(last), i, n)]
        BY <2>1, <3>12 DEF r
      <4>2. Past(wire, last) /\ Forwarded(wire, last, s, i)
        BY <3>7, <3>8 DEF Sound, Base
      <4>3. Grown(V, wire, last, s, i, n)
        BY ONLY SizesAssumption, <1>g, <3>1, <3>8, <3>11, <3>13, <4>1, <4>2, WireGrown
      <4> QED
        BY <4>3 DEF Grown
    <3>15. StepOk(conn[s], V, last, "write", s, sent)
      <4>1. Len(sent) = n
        BY <3>8, <3>12, UnitsSpan DEF Spans
      <4>2. Unsent(conn[s], V, last, s, n)
        BY <3>6, <3>7, <3>11, <3>14 DEF Unsent, r
      <4> QED
        BY <2>5, <3>6, <4>1, <4>2 DEF StepOk
    <3>16. \A t \in Servers : t > ctx.server => V[t] = << >>
      BY <3>3, <3>13, <3>14
    <3>17. Sound(w, V, last)
      BY <2>0, <2>3, <3>2, <3>14, <3>15, <3>16, CompletedSound DEF s
    <3> QED
      BY <2>1, <3>17 DEF w, V
  <2> QED
    BY <2>4, <2>5
<1> QED
  BY <1>1, <1>2

LEMMA SignalApart ==
  ASSUME CInv, Good(World)', SignalArrives, NEW w, w = World'
  PROVE  Apart(World, w) /\ StillQueue(World, w)
<1> DEFINE h == Task("stop_all", Client)
<1>0. Good(World) /\ World.queue \in Seq(Handlers)
  BY LengthType DEF CInv, AInv, IInv
<1>1. h \in Handlers /\ HandlerKind(h) = <<"stop_all", Client>> /\ h.fn = "stop_all" /\ h.conn = Client
  BY <1>0, TaskType, ClientIn DEF Task, HandlerKind, Handlers, Tasks, Results
<1>2. /\ w.queue = Append(queue, h) /\ w.pending = pending /\ w.conn = conn
      /\ w.ctx = ctx /\ Good(w)
  BY DEF SignalArrives, World
<1>3. World.queue = queue /\ World.pending = pending /\ World.conn = conn /\ World.ctx = ctx
  BY WorldFields
<1> HIDE DEF h
<1>4. <<"stop_all", Client>> \notin StepKinds
  BY DEF StepKinds, Going
<1>5. Kinds(w) = Kinds(World) \cup {<<"stop_all", Client>>}
  BY <1>0, <1>1, <1>2, <1>3, AppendKinds DEF Adds
<1>6. \A fn, c, d : Doing(w, fn, c, d) => Doing(World, fn, c, d)
  <2>1. ASSUME NEW fn, NEW c, NEW d, Doing(w, fn, c, d) PROVE Doing(World, fn, c, d)
    <3>1. Doing(World, fn, c, d) \/ (fn = h.fn /\ c = h.conn)
      BY <1>0, <1>1, <1>2, <1>3, <2>1, PostDoing
    <3>2. <<fn, c>> \in StepKinds
      BY <2>1 DEF Doing
    <3> QED
      BY <1>1, <1>4, <3>1, <3>2
  <2> QED
    BY <2>1
<1>7. Apart(World, w)
  BY <1>2, <1>3, <1>4, <1>5, <1>6 DEF Apart, ApartConn
<1>8. StillQueue(World, w)
  BY <1>0, <1>1, <1>2, <1>3, PostDoing DEF Arrived
<1> QED
  BY <1>7, <1>8

LEMMA SignalSound ==
  ASSUME CInv, Good(World)', Sound(World, wire, last), SignalArrives
  PROVE  Sound(World, wire, last)'
<1> DEFINE w == World'
<1>1. wire' = wire /\ last' = last
  BY DEF SignalArrives
<1>2. Apart(World, w)
  BY SignalApart
<1> HIDE DEF w
<1>3. Sound(w, wire, last)
  BY <1>2, ApartSound
<1> QED
  BY <1>1, <1>3 DEF w

LEMMA EnvironmentSound ==
  ASSUME CInv, Good(World)', Sound(World, wire, last), Environment
  PROVE  Sound(World, wire, last)'
<1>1. CASE SignalArrives
  BY <1>1, SignalSound
<1>2. ASSUME NEW p \in pending,
             \/ \E n \in 0..ReqLen : ClientSends(p, n)
             \/ \E n \in 0..RespLen : ServerSends(p, n)
             \/ \E n \in 1..Len(p.data) : PeerReceives(p, n)
             \/ Succeeds(p) \/ Fails(p) \/ Closes(p) \/ SendsJunk(p) \/ TimerExpires(p)
      PROVE  Sound(World, wire, last)'
  <2>1. CASE Succeeds(p) \/ Fails(p) \/ Closes(p) \/ SendsJunk(p) \/ TimerExpires(p)
    <3> DEFINE w == World'
    <3>1. PICK res \in Results : Complete(p, res, << >>)
      BY <2>1 DEF Succeeds, Fails, Closes, SendsJunk, TimerExpires, Results
    <3>2. wire' = wire /\ last' = last
      BY <2>1 DEF Succeeds, Fails, Closes, SendsJunk, TimerExpires, peers
    <3>3. Completes(p, << >>, w)
      <4>1. << >> \in Seq(Unit)
        OBVIOUS
      <4> QED
        BY <3>1, <4>1, CompleteParts
    <3> HIDE DEF w
    <3>4. Sound(w, wire, last)
      BY <3>3, CompletesSound
    <3> QED
      BY <3>2, <3>4 DEF w
  <2> QED
    BY <1>2, <2>1, ClientSendsSound, ServerSendsSound, PeerReceivesSound
<1> QED
  BY <1>1, <1>2 DEF Environment

-----------------------------------------------------------------------------
(* The inductive invariant.                                                 *)
RInv == CInv /\ Sound(World, wire, last)

LEMMA InitSound == Init => Sound(World, wire, last)
<1> SUFFICES ASSUME Init PROVE Sound(World, wire, last)
  OBVIOUS
<1> DEFINE p == [op |-> "read", conn |-> Client, data |-> << >>]
<1>1. /\ World.queue = << >> /\ World.pending = {p} /\ World.conn = conn /\ World.ctx = ctx
  BY WorldFields DEF Init
<1>2. \A c \in Conns : /\ conn[c].message = << >> /\ conn[c].out = << >> /\ conn[c].encoded = 0
                       /\ ~conn[c].writing /\ ~conn[c].stopped
  BY DEF Init, NewConnection
<1>3. \A s \in Servers : conn[s] = NewConnection
  <2>1. ASSUME NEW s \in Servers PROVE conn[s] = NewConnection
    <3> DEFINE x == NewConnection
               y == conn[s]
    <3>1. << >> \in Seq(Unit) /\ << >> \in Seq(Seq(Unit))
      OBVIOUS
    <3>2. x \in Connections
      BY <3>1 DEF NewConnection, Connections
    <3>3. x.connected = FALSE /\ y = [x EXCEPT !.connected = (s = Client)] /\ (s = Client) = FALSE
      BY DEF Init, NewConnection
    <3>4. y = [x EXCEPT !.connected = x.connected]
      BY <3>3
    <3> HIDE DEF x, y
    <3>5. [x EXCEPT !.connected = x.connected] = x
      BY <3>2 DEF Connections
    <3>6. y = x
      BY <3>4, <3>5
    <3> QED
      BY <3>6 DEF x, y
  <2> QED
    BY <2>1
<1>4. /\ \A c \in Conns : wire[c] = << >> /\ UnitsIn(wire[c]) = {} /\ last[c] = <<0, InLen(c)>>
                         /\ InLen(c) \in 1..InLen(c)
      /\ Current(last) = 0 /\ last[Client][2] = ReqLen
  BY ClientIn DEF Init, UnitsIn, Current, InLen
<1>5. Past(wire, last)
  <2>1. \A s \in Servers : Increasing(wire[s])
    <3>1. Increasing(<< >>)
      BY DEF Increasing
    <3> QED
      BY <1>4, <3>1
  <2>2. ASSUME NEW s \in Servers
        PROVE  /\ Older(UnitsIn(wire[s]), Current(last) + 1) /\ last[s][1] <= Current(last)
               /\ UnitsIn(wire[s]) = {}
    <3>1. s \in Conns
      OBVIOUS
    <3>2. UnitsIn(wire[s]) = {} /\ last[s] = <<0, InLen(s)>> /\ Current(last) = 0
      BY ONLY <1>4, <3>1
    <3>3. last[s][1] = 0
      BY <3>2
    <3> QED
      BY ONLY <3>2, <3>3 DEF Older
  <2>3. \A c \in Conns : last[c][2] \in 1..InLen(c)
    BY <1>4
  <2> QED
    BY ONLY <2>1, <2>2, <2>3 DEF Past
<1>6. Held(World)
  BY <1>1 DEF Held
<1>7. ctx.server = Client
  BY DEF Init, NewContext
<1>8. Base(World, wire, last)
  <2>1. \A s \in Servers : wire[s] = << >>
    BY <1>4
  <2>2. \A c \in Conns : ~World.conn[c].stopped
    BY <1>1, <1>2
  <2>3. \A s \in Servers : World.conn[s] = NewConnection /\ World.conn[s].out = << >>
                           /\ World.conn[s].message = << >> /\ ~World.conn[s].writing
    BY <1>1, <1>2, <1>3
  <2> QED
    BY <1>5, <1>6, <2>1, <2>2, <2>3 DEF Base
<1>9. StepsOk(World, wire, last)
  <2>1. ASSUME NEW fn, NEW c, NEW d, Doing(World, fn, c, d)
        PROVE  fn = "read" /\ c = Client /\ d = << >>
    BY <1>1, <2>1 DEF Doing
  <2>2. << >> \o << >> = << >> /\ Len(<< >>) = 0
    OBVIOUS
  <2>3. StepOk(conn[Client], wire, last, "read", Client, << >>)
    BY <1>2, <1>4, <2>2, ClientIn DEF StepOk, Asking
  <2> QED
    BY <1>1, <2>1, <2>3 DEF StepsOk
<1>10. Taken(World, last) /\ Spare(World)
  BY <1>1, <1>4, <1>7 DEF Taken, Spare
<1> QED
  BY <1>8, <1>9, <1>10 DEF Sound

LEMMA NextSound == RInv /\ [Next]_vars => RInv'
<1> SUFFICES ASSUME RInv, [Next]_vars PROVE Sound(World, wire, last)'
  BY NextChained DEF RInv
<1>0. CInv /\ CInv' /\ Good(World)' /\ Sound(World, wire, last)
  BY NextChained DEF RInv, CInv, AInv, IInv
<1>1. CASE RunHandler
  BY <1>0, <1>1, RunHandlerSound
<1>2. CASE Environment
  BY <1>0, <1>2, EnvironmentSound
<1>3. CASE UNCHANGED vars
  <2>1. World' = World /\ wire' = wire /\ last' = last
    BY <1>3 DEF vars, World
  <2>2. Sound(World', wire', last') <=> Sound(World, wire, last)
    BY <2>1
  <2> QED
    BY <1>0, <2>2
<1> QED
  BY <1>1, <1>2, <1>3 DEF Next, Waits

-----------------------------------------------------------------------------
(* Requests: the theorems.                                                  *)

\* However the handlers of a session interleave with its peers, timers and
\* signals, each step finds the part of the request or response it works on
\* where the code expects it: in the message of the connection, in its
\* buffer_out_, or with the server.
THEOREM SoundInvariance == Spec => []RInv
<1>1. Init => RInv
  BY InitIInv, InitActive, InitChained, InitSound DEF RInv, CInv, AInv
<1> QED
  BY <1>1, NextSound, PTL DEF Spec

\* No part of a request is sent twice, to one server or to two, and requests
\* leave in the order in which they came: partial writes resume where the
\* last one ended, a server connection that is used again starts with nothing
\* left of the last request, and no request is handed on while another is
\* under way.
THEOREM RequestsForwardedOnce == Spec => []RequestForwardedOnce
<1>1. RInv => RequestForwardedOnce
  <2> SUFFICES ASSUME RInv PROVE RequestForwardedOnce
    OBVIOUS
  <2>1. Past(wire, last)
    BY DEF RInv, Sound, Base
  <2>2. \A s \in Servers : \A i \in 1..Len(wire[s]) : wire[s][i] \in UnitsIn(wire[s])
    BY DEF UnitsIn
  <2> QED
    BY <2>1, <2>2 DEF Past, RequestForwardedOnce
<1> QED
  BY <1>1, SoundInvariance, PTL

-----------------------------------------------------------------------------
(* Responses.                                                               *)
ClientWrite(p) == p.op = "write" /\ p.conn = Client
NoneArrived(m) == \A i \in 1..Len(m.queue) : ~Arrived(m.queue[i])

\* What is on its way to the client, or has reached it.
Emitted(m, W) ==
  UnitsIn(W[Client]) \cup Buffered(Out(m))
    \cup UNION {UnitsIn(p.data) : p \in {q \in m.pending : ClientWrite(q)}}

\* None of it is ahead of what the encoder has encoded of the response.
Upto(m, W, L) ==
  \A u \in Emitted(m, W) :
    u[1] < Current(L) \/ (u[1] = Current(L) /\ u[2] <= m.conn[Client].encoded)

\* If reset() emptied buffer_out_, no earlier write is still to be handled.
Clear(m) == m.conn[Client].stopped \/ Out(m) # << >> \/ NoneArrived(m)

Timely(m, W, L) ==
  /\ Older(Emitted(m, W), Current(L) + 1)
  /\ \A fn, d : /\ fn \in {"read", "READ"} /\ Doing(m, fn, Client, d)
                /\ m.conn[Client].message \o d # << >>
                => Older(Emitted(m, W), Current(L))
  /\ Kinds(m) \cap ServerKinds # {} => Upto(m, W, L) /\ Clear(m)

\* One write to the client at most has succeeded and is to be handled, before
\* anything the client sends.
Lined(m) ==
  /\ \A i, j \in 1..Len(m.queue) : Arrived(m.queue[i]) /\ Arrived(m.queue[j]) => i = j
  /\ \A i, j \in 1..Len(m.queue) :
       Arrived(m.queue[i]) /\ HandlerKind(m.queue[j]) \in ClientKinds => i < j
  /\ \A p \in m.pending : ClientWrite(p) => m.conn[Client].connected /\ p.data # << >>

\* A write in progress is that of the front of buffer_out_; unless reset() has
\* freed its buffer, and then it comes before all that was buffered since.
Fronted(m, p) ==
  \/ Precede(UnitsIn(p.data), Buffered(Out(m)))
  \/ /\ Out(m) # << >> /\ p.data = Head(Out(m))
     /\ NoneArrived(m) /\ m.conn[Client].writing

\* What the client has received comes before what is buffered for it, less
\* what a write that is to be handled has sent.
Follow(m, W) ==
  /\ NoneArrived(m) => Precede(UnitsIn(W[Client]), Buffered(Out(m)))
  /\ \A i \in 1..Len(m.queue) : Arrived(m.queue[i]) /\ Out(m) # << >> =>
       /\ m.conn[Client].writing
       /\ Precede(UnitsIn(W[Client]), Buffered(unsent(Out(m), Len(m.queue[i].data))))
  /\ \A p \in m.pending : ClientWrite(p) => Fronted(m, p)

Stream(m, W) ==
  /\ Increasing(W[Client]) /\ Ascending(Out(m)) /\ Lined(m)
  /\ ~m.conn[Client].stopped => Follow(m, W)

Flow(m, W, L) == Stream(m, W) /\ Timely(m, W, L)

-----------------------------------------------------------------------------
(* Methods that leave what is sent to the client alone, and start steps of  *)
(* the kinds in K.                                                          *)
Kept(m, w, K) ==
  /\ Good(w) /\ Out(w) = Out(m) /\ w.conn[Client].writing = m.conn[Client].writing
  /\ w.conn[Client].encoded = m.conn[Client].encoded
  /\ m.conn[Client].stopped => w.conn[Client].stopped
  /\ \A p \in w.pending : ClientWrite(p) =>
       p \in m.pending /\ (m.conn[Client].connected => w.conn[Client].connected)
  /\ StillQueue(m, w)
  /\ Kinds(w) \cap StepKinds \subseteq Kinds(m) \cup K

LEMMA KeptTrans ==
  ASSUME NEW m, Good(m), NEW v, NEW w, NEW K, Kept(m, v, K), Kept(v, w, K)
  PROVE  Kept(m, w, K)
<1>2. /\ Len(m.queue) \in Nat /\ Len(v.queue) \in Nat /\ Len(w.queue) \in Nat
  BY LengthType DEF Kept
<1>5. StillQueue(m, w)
  <2>1. \A i \in 1..Len(m.queue) : i \in 1..Len(v.queue)
    BY <1>2 DEF Kept, StillQueue
  <2>2. ASSUME NEW i \in 1..Len(w.queue), i > Len(m.queue) PROVE ~Arrived(w.queue[i])
    <3>1. CASE i > Len(v.queue)
      BY <2>2, <3>1 DEF Kept, StillQueue
    <3>2. CASE ~(i > Len(v.queue))
      <4>1. i \in 1..Len(v.queue)
        BY <1>2, <3>2
      <4> QED
        BY <2>2, <4>1 DEF Kept, StillQueue
    <3> QED
      BY <3>1, <3>2
  <2>3. Len(m.queue) <= Len(w.queue)
    BY <1>2 DEF Kept, StillQueue
  <2>4. \A i \in 1..Len(m.queue) : w.queue[i] = m.queue[i]
    BY <2>1 DEF Kept, StillQueue
  <2> QED
    BY <2>2, <2>3, <2>4 DEF StillQueue
<1> QED
  BY <1>5 DEF Kept

LEMMA KeptMore ==
  ASSUME NEW m, NEW w, NEW K, Kept(m, w, K), NEW J, K \subseteq J
  PROVE  Kept(m, w, J)
  BY DEF Kept

LEMMA StillKept ==
  ASSUME NEW m, NEW w, Still(m, w), NEW K
  PROVE  Kept(m, w, K)
<1>1. StillConn(m.conn[Client], w.conn[Client])
  BY ClientIn DEF Still
<1>2. \A p \in w.pending : ClientWrite(p) =>
        p \in m.pending /\ (m.conn[Client].connected => w.conn[Client].connected)
  BY DEF Still, StillSteps, ClientWrite
<1> QED
  BY <1>1, <1>2 DEF Still, StillSteps, StillConn, Kept, Out

\* A world that differs in the fields of a server connection, or in what
\* does not concern the client.
LEMMA SameKept ==
  ASSUME NEW m, Good(m), NEW w, Good(w), w.queue = m.queue, w.pending = m.pending,
         w.conn[Client].out = m.conn[Client].out, w.conn[Client].writing = m.conn[Client].writing,
         w.conn[Client].encoded = m.conn[Client].encoded,
         w.conn[Client].stopped = m.conn[Client].stopped,
         w.conn[Client].connected = m.conn[Client].connected, NEW K
  PROVE  Kept(m, w, K)
<1>1. Len(m.queue) \in Nat
  BY LengthType
<1>2. StillQueue(m, w)
  BY <1>1 DEF StillQueue
<1>3. Kinds(w) = Kinds(m)
  BY DEF Kinds
<1> QED
  BY <1>2, <1>3 DEF Kept, Out

LEMMA BeginKept ==
  ASSUME NEW m, Good(m), NEW op \in Operations, NEW c \in 0..m.ctx.server, NEW d \in Seq(Unit),
         ~(op = "write" /\ c = Client), NEW K, <<op, c>> \in K
  PROVE  Kept(m, Begin(m, op, c, d), K)
<1> DEFINE w == Begin(m, op, c, d)
<1>1. /\ w.queue = m.queue /\ w.conn = m.conn
      /\ w.pending = m.pending \cup {[op |-> op, conn |-> c, data |-> d]}
  BY LengthType, BeginFields
<1>2. Kinds(w) = Kinds(m) \cup {<<op, c>>}
  BY LengthType, BeginAdds DEF Adds
<1>3. Good(w)
  BY BeginQuiet DEF Quiet
<1> HIDE DEF w
<1>4. StillQueue(m, w)
  BY <1>1, LengthType DEF StillQueue
<1>5. \A p \in w.pending : ClientWrite(p) => p \in m.pending
  <2>1. ~ClientWrite([op |-> op, conn |-> c, data |-> d])
    BY DEF ClientWrite
  <2> QED
    BY <1>1, <2>1
<1>6. Kept(m, w, K)
  BY <1>1, <1>2, <1>3, <1>4, <1>5 DEF Kept, Out
<1> QED
  BY <1>6 DEF w

LEMMA PostKept ==
  ASSUME NEW m, Good(m), NEW fn \in Tasks, NEW c \in 0..m.ctx.server,
         NEW K, <<fn, c>> \in StepKinds => <<fn, c>> \in K
  PROVE  Kept(m, Post(m, Task(fn, c)), K)
<1> DEFINE h == Task(fn, c)
           w == Post(m, h)
<1>1. h \in Handlers /\ h \in HandlersUpTo(m.ctx.server) /\ ~Arrived(h)
  BY TaskType, ServerType DEF Task, Tasks, Events, Arrived
<1>2. Kinds(w) = Kinds(m) \cup {<<fn, c>>}
  BY PostAdds DEF Adds
<1> HIDE DEF h
<1>3. w.pending = m.pending /\ w.conn = m.conn /\ w.queue = Append(m.queue, h)
  BY LengthType, PostFields
<1>4. Good(w)
  BY <1>1, PostQuiet DEF Quiet
<1> HIDE DEF w
<1>5. StillQueue(m, w)
  BY <1>1, <1>3, PostDoing
<1>6. Kept(m, w, K)
  BY <1>2, <1>3, <1>4, <1>5 DEF Kept, Out
<1> QED
  BY <1>6 DEF w, h

LEMMA AbortKept ==
  ASSUME NEW m, Good(m), NEW f \in Faults, NEW K
  PROVE  Kept(m, Abort(m, f), K)
<1> DEFINE w == Abort(m, f)
<1>1. /\ w.queue = m.queue /\ w.pending = m.pending /\ w.conn = m.conn
  BY LengthType, AbortFields
<1>2. Good(w)
  BY AbortQuiet DEF Quiet
<1> HIDE DEF w
<1>3. Kept(m, w, K)
  BY <1>1, <1>2, SameKept
<1> QED
  BY <1>3 DEF w

LEMMA SetKept ==
  ASSUME NEW m, Good(m), NEW s \in Servers, s \in 0..m.ctx.server, NEW r \in Connections,
         r.stopped = m.conn[s].stopped, NEW K
  PROVE  LET w == With(m, s, r)
         IN  Kept(m, w, K) /\ w.conn[s] = r /\ w.ctx = m.ctx
<1> DEFINE w == With(m, s, r)
<1>0. s \in Conns /\ m \in Worlds /\ Client # s /\ Client \in Conns
  BY LengthType, ClientIn
<1>1. /\ w.queue = m.queue /\ w.pending = m.pending /\ w.ctx = m.ctx /\ w.conn[s] = r
      /\ \A k \in Conns \ {s} : w.conn[k] = m.conn[k]
  BY <1>0, SetFields
<1>2. Good(w)
  BY <1>0, WithGood DEF Quiet
<1> HIDE DEF w
<1>3. Kept(m, w, K)
  BY <1>0, <1>1, <1>2, SameKept
<1> QED
  BY <1>1, <1>3 DEF w

LEMMA ReadKept ==
  ASSUME NEW m, Good(m), NEW c \in 0..m.ctx.server, NEW K, <<"read", c>> \in K
  PROVE  Kept(m, read(m, c), K)
<1>1. Kept(m, Begin(m, "read", c, << >>), K)
  <2>1. "read" \in Operations /\ << >> \in Seq(Unit)
    BY DEF Operations
  <2> QED
    BY <2>1, BeginKept
<1>2. Kept(m, Abort(m, "read_assert"), K)
  BY AbortKept DEF Faults
<1> QED
  BY <1>1, <1>2 DEF read

\* What such a method preserves.
Keeping(m, w, W, L) ==
  /\ Stream(m, W) => Stream(w, W)
  /\ Lined(m) => Lined(w)
  /\ Clear(m) => Clear(w)
  /\ NoneArrived(m) <=> NoneArrived(w)
  /\ Emitted(w, W) \subseteq Emitted(m, W)
  /\ Upto(m, W, L) => Upto(w, W, L)

LEMMA KeptKeeping ==
  ASSUME NEW m, Good(m), NEW w, NEW K, Kept(m, w, K), NEW W, NEW L
  PROVE  Keeping(m, w, W, L)
<1>1. Len(m.queue) \in Nat /\ Len(w.queue) \in Nat
  BY LengthType DEF Kept
<1>2. /\ Len(m.queue) <= Len(w.queue) /\ \A i \in 1..Len(m.queue) : w.queue[i] = m.queue[i]
      /\ \A i \in 1..Len(w.queue) : i > Len(m.queue) => ~Arrived(w.queue[i])
  BY DEF Kept, StillQueue
<1>3. \A i \in 1..Len(m.queue) : i \in 1..Len(w.queue)
  BY <1>1, <1>2
<1>4. \A i \in 1..Len(w.queue) : i > Len(m.queue) \/ (i \in 1..Len(m.queue) /\ w.queue[i] = m.queue[i])
  BY <1>1, <1>2
<1>5. \A i \in 1..Len(w.queue) : Arrived(w.queue[i]) => i \in 1..Len(m.queue) /\ w.queue[i] = m.queue[i]
  BY <1>2, <1>4
<1>6. NoneArrived(m) <=> NoneArrived(w)
  BY <1>2, <1>3, <1>5 DEF NoneArrived
<1>7. /\ Out(w) = Out(m) /\ w.conn[Client].writing = m.conn[Client].writing
      /\ w.conn[Client].encoded = m.conn[Client].encoded
      /\ m.conn[Client].stopped => w.conn[Client].stopped
      /\ \A p \in w.pending : ClientWrite(p) =>
           p \in m.pending /\ (m.conn[Client].connected => w.conn[Client].connected)
  BY DEF Kept
<1>8. Clear(m) => Clear(w)
  BY <1>6, <1>7 DEF Clear
<1>9. Emitted(w, W) \subseteq Emitted(m, W)
  BY <1>7 DEF Emitted
<1>10. Upto(m, W, L) => Upto(w, W, L)
  BY <1>7, <1>9 DEF Upto
<1>11. ASSUME Lined(m) PROVE Lined(w)
  <2>1. \A i, j \in 1..Len(w.queue) : Arrived(w.queue[i]) /\ Arrived(w.queue[j]) => i = j
    BY <1>5, <1>11 DEF Lined
  <2>2. ASSUME NEW i \in 1..Len(w.queue), NEW j \in 1..Len(w.queue), Arrived(w.queue[i]),
               HandlerKind(w.queue[j]) \in ClientKinds
        PROVE  i < j
    <3>1. i \in 1..Len(m.queue) /\ w.queue[i] = m.queue[i]
      BY <1>5, <2>2
    <3>2. CASE j > Len(m.queue)
      BY <1>1, <3>1, <3>2
    <3>3. CASE j \in 1..Len(m.queue) /\ w.queue[j] = m.queue[j]
      BY <1>11, <2>2, <3>1, <3>3 DEF Lined
    <3> QED
      BY <1>4, <3>2, <3>3
  <2>3. \A p \in w.pending : ClientWrite(p) => w.conn[Client].connected /\ p.data # << >>
    BY <1>7, <1>11 DEF Lined
  <2> QED
    BY <2>1, <2>2, <2>3 DEF Lined
<1>12. ASSUME Follow(m, W) PROVE Follow(w, W)
  <2>1. NoneArrived(w) => Precede(UnitsIn(W[Client]), Buffered(Out(w)))
    BY <1>6, <1>7, <1>12 DEF Follow
  <2>2. \A i \in 1..Len(w.queue) : Arrived(w.queue[i]) /\ Out(w) # << >> =>
       /\ w.conn[Client].writing
       /\ Precede(UnitsIn(W[Client]), Buffered(unsent(Out(w), Len(w.queue[i].data))))
    BY <1>5, <1>7, <1>12 DEF Follow
  <2>3. \A p \in w.pending : ClientWrite(p) => Fronted(w, p)
    BY <1>6, <1>7, <1>12 DEF Follow, Fronted
  <2> QED
    BY <2>1, <2>2, <2>3 DEF Follow
<1>13. Stream(m, W) => Stream(w, W)
  BY <1>7, <1>11, <1>12 DEF Stream
<1> QED
  BY <1>6, <1>8, <1>9, <1>10, <1>11, <1>13 DEF Keeping

LEMMA OlderSubset ==
  ASSUME NEW U, NEW V, U \subseteq V, NEW r, Older(V, r)
  PROVE  Older(U, r)
  BY DEF Older

\* A method that starts no step.
LEMMA ApartFlow ==
  ASSUME NEW m, Good(m), NEW w, Kept(m, w, {}), Apart(m, w), NEW W, NEW L, Flow(m, W, L)
  PROVE  Flow(w, W, L)
<1>1. Keeping(m, w, W, L)
  BY KeptKeeping
<1>2. Kinds(w) \cap ServerKinds # {} => Kinds(m) \cap ServerKinds # {}
  BY KindsSplit DEF Apart
<1>3. w.conn[Client].message = m.conn[Client].message
  BY ClientIn DEF Apart, ApartConn
<1>4. Older(Emitted(w, W), Current(L) + 1)
  BY <1>1, OlderSubset DEF Flow, Timely, Keeping
<1>5. ASSUME NEW fn, NEW d, fn \in {"read", "READ"}, Doing(w, fn, Client, d),
             w.conn[Client].message \o d # << >>
      PROVE  Older(Emitted(w, W), Current(L))
  <2>1. Doing(m, fn, Client, d)
    BY <1>5 DEF Apart
  <2>2. Older(Emitted(m, W), Current(L))
    BY <1>3, <1>5, <2>1 DEF Flow, Timely
  <2> QED
    BY <1>1, <2>2, OlderSubset DEF Keeping
<1>6. Timely(w, W, L)
  BY <1>1, <1>2, <1>4, <1>5 DEF Timely, Flow, Keeping
<1> QED
  BY <1>1, <1>6 DEF Flow, Keeping

\* Between two steps: what is sent, and what a step of a server can rely on.
Pausing(m, W, L) == Stream(m, W) /\ Older(Emitted(m, W), Current(L) + 1)
Serve(m, W, L) == Pausing(m, W, L) /\ Upto(m, W, L) /\ Clear(m)

LEMMA KeptPausing ==
  ASSUME NEW m, Good(m), NEW w, NEW K, Kept(m, w, K), NEW W, NEW L, Pausing(m, W, L)
  PROVE  Pausing(w, W, L) /\ (Serve(m, W, L) => Serve(w, W, L))
<1>1. Keeping(m, w, W, L)
  BY KeptKeeping
<1>2. Pausing(w, W, L)
  BY <1>1, OlderSubset DEF Keeping, Pausing
<1> QED
  BY <1>1, <1>2 DEF Keeping, Serve

LEMMA NoClientStep ==
  ASSUME NEW m, Kinds(m) \cap StepKinds \cap ClientKinds = {}, NEW fn, NEW d
  PROVE  ~Doing(m, fn, Client, d)
<1> SUFFICES ASSUME Doing(m, fn, Client, d) PROVE FALSE
  OBVIOUS
<1>1. <<fn, Client>> \in StepKinds /\ <<fn, Client>> \in Kinds(m)
  BY DEF Doing, Kinds, OpKind, HandlerKind
<1>2. <<fn, Client>> \in ClientKinds
  BY <1>1 DEF StepKinds, ClientKinds
<1> QED
  BY <1>1, <1>2

\* A step of a server, or of a client that goes on to one.
LEMMA ServerFlow ==
  ASSUME NEW m, Good(m), NoStep(m), NEW W, NEW L, Serve(m, W, L), NEW w, Kept(m, w, ServerKinds)
  PROVE  Flow(w, W, L)
<1>1. Serve(w, W, L)
  BY KeptPausing DEF Serve
<1>2. Kinds(w) \cap StepKinds \cap ClientKinds = {}
  BY KindsSplit DEF Kept, NoStep
<1> QED
  BY <1>1, <1>2, NoClientStep DEF Flow, Timely, Serve, Pausing

\* The end of a step.
LEMMA RestFlow ==
  ASSUME NEW m, Good(m), NoStep(m), NEW W, NEW L, Pausing(m, W, L), NEW w, Kept(m, w, {})
  PROVE  Flow(w, W, L)
<1>1. Pausing(w, W, L)
  BY KeptPausing
<1>2. Kinds(w) \cap StepKinds \cap ClientKinds = {} /\ Kinds(w) \cap ServerKinds = {}
  BY KindsSplit DEF Kept, NoStep
<1> QED
  BY <1>1, <1>2, NoClientStep DEF Flow, Timely, Pausing

\* A step of the client, which has sent what it has of a request, or nothing.
LEMMA ClientFlow ==
  ASSUME NEW m, Good(m), NoStep(m), NEW W, NEW L, Pausing(m, W, L), NEW w, Kept(m, w, ClientKinds),
         \/ Older(Emitted(m, W), Current(L))
         \/ \A fn, d : fn \in {"read", "READ"} /\ Doing(w, fn, Client, d) =>
              w.conn[Client].message \o d = << >>
  PROVE  Flow(w, W, L)
<1>1. Keeping(m, w, W, L) /\ Pausing(w, W, L)
  BY KeptKeeping, KeptPausing
<1>2. Kinds(w) \cap ServerKinds = {}
  BY KindsSplit DEF Kept, NoStep
<1>3. Older(Emitted(m, W), Current(L)) => Older(Emitted(w, W), Current(L))
  BY <1>1, OlderSubset DEF Keeping
<1> QED
  BY <1>1, <1>2, <1>3 DEF Flow, Timely, Pausing

-----------------------------------------------------------------------------
(* The handlers of a server connection leave what is sent to the client     *)
(* alone.                                                                   *)
LEMMA BeginServerKept ==
  ASSUME NEW m, Good(m), NEW op \in Operations, NEW s \in Servers, s \in 0..m.ctx.server,
         NEW d \in Seq(Unit), <<op, s>> \in ServerKinds
  PROVE  Kept(m, Begin(m, op, s, d), ServerKinds)
<1>1. ~(op = "write" /\ s = Client)
  OBVIOUS
<1> QED
  BY <1>1, BeginKept

LEMMA DoWriteServerKept ==
  ASSUME NEW m, Good(m), NEW s \in Servers, s = m.ctx.server
  PROVE  Kept(m, do_write(m, s), ServerKinds)
<1>0. s \in 0..m.ctx.server /\ s \in Conns /\ s # Client /\ m.conn[s] \in Connections
  BY ServingIn, ConnType
<1>1. CASE m.conn[s].writing \/ m.conn[s].out = << >>
  BY <1>1, StillRefl, StillKept DEF do_write
<1>2. CASE ~(m.conn[s].writing \/ m.conn[s].out = << >>) /\ ~m.conn[s].connected
  <2>1. do_write(m, s) = Begin(m, "resolve", s, << >>)
    <3>1. [m EXCEPT !.ctx.server = s] = m
      BY LengthType, ContextType DEF Worlds, Contexts
    <3> QED
      BY <1>0, <1>2, <3>1 DEF do_write, start
  <2>2. <<"resolve", s>> \in ServerKinds
    BY ServerKind DEF Going
  <2>3. << >> \in Seq(Unit) /\ "resolve" \in Operations
    BY DEF Operations
  <2> QED
    BY <1>0, <2>1, <2>2, <2>3, BeginServerKept
<1>3. CASE ~(m.conn[s].writing \/ m.conn[s].out = << >>) /\ m.conn[s].connected
  <2> DEFINE r == [m.conn[s] EXCEPT !.writing = TRUE]
             w == With(m, s, r)
             d == Head(m.conn[s].out)
  <2>1. do_write(m, s) = Begin(w, "write", s, d)
    BY <1>0, <1>3 DEF do_write, With
  <2>2. r \in Connections /\ r.stopped = m.conn[s].stopped
    BY <1>0 DEF Connections
  <2>6. d \in Seq(Unit)
    BY <1>0, <1>3 DEF Connections
  <2> HIDE DEF r, d
  <2>3. Kept(m, w, ServerKinds) /\ w.ctx = m.ctx
    BY <1>0, <2>2, SetKept
  <2> HIDE DEF w
  <2>4. <<"write", s>> \in ServerKinds /\ "write" \in Operations /\ Good(w) /\ s \in 0..w.ctx.server
    BY <1>0, <2>3, ServerKind DEF Operations, Kept
  <2>5. Kept(w, Begin(w, "write", s, d), ServerKinds)
    BY <1>0, <2>4, <2>6, BeginServerKept
  <2> QED
    BY <2>1, <2>3, <2>5, KeptTrans
<1> QED
  BY <1>1, <1>2, <1>3

LEMMA StopServerKept ==
  ASSUME NEW m, Good(m), NEW c \in 0..m.ctx.server, NEW notify \in BOOLEAN, NEW K
  PROVE  Kept(m, stop(m, c, notify), K) /\ Kept(m, m, K)
  BY StopStill, StillRefl, StillKept

LEMMA WriteBufferedKept ==
  ASSUME NEW m, Good(m), NEW s \in Servers, s = m.ctx.server
  PROVE  Kept(m, write_buffered(m, s), ServerKinds)
<1> DEFINE v == cancel_timer(m, s)
<1>0. s \in 0..m.ctx.server
  BY ServingIn
<1>1. Kept(m, Abort(m, "write_assert"), ServerKinds)
  BY AbortKept DEF Faults
<1>2. Still(m, v)
  BY <1>0, CancelTimerStill
<1>3. Good(v) /\ s = v.ctx.server /\ Kept(m, v, ServerKinds)
  BY <1>2, StillKept DEF Still
<1>4. write_buffered(m, s) \in {Abort(m, "write_assert"), do_write(v, s)}
  BY DEF write_buffered
<1> HIDE DEF v
<1>5. Kept(v, do_write(v, s), ServerKinds)
  BY <1>3, DoWriteServerKept
<1> QED
  BY <1>1, <1>3, <1>4, <1>5, KeptTrans

LEMMA OnResolveKept ==
  ASSUME NEW m, Good(m), NEW s \in Servers, s = m.ctx.server, NEW res
  PROVE  Kept(m, on_resolve(m, s, res), ServerKinds)
<1>0. s \in 0..m.ctx.server /\ s # Client
  BY ServingIn
<1>1. <<"connect", s>> \in ServerKinds
  BY ServerKind DEF Going
<1>4. << >> \in Seq(Unit) /\ "connect" \in Operations
  BY DEF Operations
<1>2. Kept(m, Begin(m, "connect", s, << >>), ServerKinds)
  BY <1>0, <1>1, <1>4, BeginServerKept
<1>3. Kept(m, stop(m, s, TRUE), ServerKinds) /\ Kept(m, m, ServerKinds)
  BY <1>0, StopServerKept
<1> QED
  BY <1>2, <1>3 DEF on_resolve

LEMMA ServerOnHandshakeKept ==
  ASSUME NEW m, Good(m), NEW s \in Servers, s = m.ctx.server, NEW res
  PROVE  Kept(m, server_on_handshake(m, s, res), ServerKinds)
<1>0. s \in 0..m.ctx.server
  BY ServingIn
<1>1. <<"HANDSHAKE", s>> \in ServerKinds /\ "HANDSHAKE" \in Tasks
  BY ServerKind DEF Going, Tasks, Events
<1>2. Kept(m, Post(m, Task("HANDSHAKE", s)), ServerKinds)
  BY <1>0, <1>1, PostKept
<1>3. Kept(m, stop(m, s, TRUE), ServerKinds) /\ Kept(m, m, ServerKinds)
  BY <1>0, StopServerKept
<1> QED
  BY <1>2, <1>3 DEF server_on_handshake

LEMMA OnConnectKept ==
  ASSUME NEW m, Good(m), NEW s \in Servers, s = m.ctx.server, NEW res
  PROVE  Kept(m, on_connect(m, s, res), ServerKinds)
<1> DEFINE r == [m.conn[s] EXCEPT !.connected = TRUE]
           v == With(m, s, r)
<1>0. s \in 0..m.ctx.server /\ s \in Conns /\ m.conn[s] \in Connections
  BY ServingIn, ConnType
<1>1. on_connect(m, s, res) \in {m, stop(m, s, TRUE), Post(v, Task("CONNECT", s))}
  BY DEF on_connect, With
<1>2. r \in Connections /\ r.stopped = m.conn[s].stopped
  BY <1>0 DEF Connections
<1> HIDE DEF r
<1>3. Kept(m, v, ServerKinds) /\ v.ctx = m.ctx
  BY <1>0, <1>2, SetKept
<1> HIDE DEF v
<1>4. <<"CONNECT", s>> \in ServerKinds /\ "CONNECT" \in Tasks /\ Good(v) /\ s \in 0..v.ctx.server
  BY <1>0, <1>3, ServerKind DEF Going, Tasks, Events, Kept
<1>5. Kept(v, Post(v, Task("CONNECT", s)), ServerKinds)
  BY <1>4, PostKept
<1>6. Kept(m, stop(m, s, TRUE), ServerKinds) /\ Kept(m, m, ServerKinds)
  BY <1>0, StopServerKept
<1> QED
  BY <1>1, <1>3, <1>5, <1>6, KeptTrans

LEMMA ServerOnReadKept ==
  ASSUME NEW m, Good(m), NEW s \in Servers, s = m.ctx.server, NEW res, NEW data \in Seq(Unit)
  PROVE  Kept(m, server_on_read(m, s, res, data), ServerKinds)
<1> DEFINE q == [m.conn[s] EXCEPT !.connected = FALSE]
           u == With(m, s, q)
           y == Decoded(m, s, data)
<1>0. s \in 0..m.ctx.server /\ s \in Conns /\ m.conn[s] \in Connections
  BY ServingIn, ConnType
<1>1. server_on_read(m, s, res, data) \in
        {m, stop(m, s, TRUE), stop(u, s, TRUE), Abort(m, "decode_assert"), Post(y, Task("READ", s))}
  BY DEF server_on_read, With, Decoded
<1>2. q \in Connections /\ q.stopped = m.conn[s].stopped
  BY <1>0 DEF Connections
<1> HIDE DEF q
<1>3. Kept(m, u, ServerKinds) /\ u.ctx = m.ctx
  BY <1>0, <1>2, SetKept
<1> HIDE DEF u
<1>4. Good(u) /\ s \in 0..u.ctx.server
  BY <1>0, <1>3 DEF Kept
<1>5. Kept(m, stop(u, s, TRUE), ServerKinds)
  BY <1>3, <1>4, StopServerKept, KeptTrans
<1>6. Kept(m, stop(m, s, TRUE), ServerKinds) /\ Kept(m, m, ServerKinds)
  BY <1>0, StopServerKept
<1>7. Kept(m, Abort(m, "decode_assert"), ServerKinds)
  BY AbortKept DEF Faults
<1>8. PICK v, r : Decodes(m, s, data, v, r)
  BY <1>0, DecodedParts
<1>9. r \in Connections /\ r.stopped = v.conn[s].stopped /\ y = With(v, s, r) /\ Still(m, v)
  BY <1>8 DEF Decodes
<1>10. Kept(m, v, ServerKinds) /\ Good(v) /\ v.ctx = m.ctx
  BY <1>9, StillKept DEF Still
<1> HIDE DEF y
<1>11. Kept(v, y, ServerKinds) /\ y.ctx = m.ctx
  BY <1>0, <1>9, <1>10, SetKept
<1>12. Good(y) /\ s \in 0..y.ctx.server /\ <<"READ", s>> \in ServerKinds /\ "READ" \in Tasks
  BY <1>0, <1>11, ServerKind DEF Going, Tasks, Events, Kept
<1>13. Kept(y, Post(y, Task("READ", s)), ServerKinds)
  BY <1>12, PostKept
<1>14. Kept(m, Post(y, Task("READ", s)), ServerKinds)
  BY <1>10, <1>11, <1>12, <1>13, KeptTrans
<1> QED
  BY <1>1, <1>5, <1>6, <1>7, <1>14

LEMMA OnServerConnectedKept ==
  ASSUME NEW m, Good(m), NEW s \in Servers, s = m.ctx.server
  PROVE  /\ Kept(m, on_server_connected(m, s), ServerKinds)
         /\ Kept(m, on_server_secured(m, s), ServerKinds)
<1> DEFINE r == [m.conn[s] EXCEPT !.use_ssl = TRUE]
           v == With(m, s, r)
<1>0. s \in 0..m.ctx.server /\ s \in Conns /\ s # Client /\ m.conn[s] \in Connections
  BY ServingIn, ConnType
<1>1. server_handshake(m, s) \in {Abort(m, "ssl_twice"), Begin(v, "handshake", s, << >>)}
  BY DEF server_handshake, switch_to_ssl, With
<1>2. r \in Connections /\ r.stopped = m.conn[s].stopped
  BY <1>0 DEF Connections
<1> HIDE DEF r
<1>3. Kept(m, v, ServerKinds) /\ v.ctx = m.ctx
  BY <1>0, <1>2, SetKept
<1> HIDE DEF v
<1>4. <<"handshake", s>> \in ServerKinds /\ Good(v) /\ s \in 0..v.ctx.server
  BY <1>0, <1>3, ServerKind DEF Going, Kept
<1>9. << >> \in Seq(Unit) /\ "handshake" \in Operations
  BY DEF Operations
<1>5. Kept(v, Begin(v, "handshake", s, << >>), ServerKinds)
  BY <1>0, <1>4, <1>9, BeginServerKept
<1>6. Kept(m, Begin(v, "handshake", s, << >>), ServerKinds)
  BY <1>3, <1>5, KeptTrans
<1>7. Kept(m, Abort(m, "ssl_twice"), ServerKinds)
  BY AbortKept DEF Faults
<1>8. Kept(m, write_buffered(m, s), ServerKinds)
  BY WriteBufferedKept
<1> QED
  BY <1>1, <1>6, <1>7, <1>8 DEF on_server_connected, on_server_secured

LEMMA OnWriteServerKept ==
  ASSUME NEW m, Good(m), NEW s \in Servers, s = m.ctx.server, NEW res, NEW data \in Seq(Unit)
  PROVE  Kept(m, on_write(m, s, res, data), ServerKinds)
<1> DEFINE r == Halt(m.conn[s])
           q == Rest(m.conn[s], data)
           v == With(m, s, r)
           x == With(m, s, q)
           w == on_write(m, s, res, data)
<1>0. s \in 0..m.ctx.server /\ s \in Conns /\ s # Client
  BY ServingIn
<1>1. \/ w \in {v, stop(v, s, TRUE), Abort(m, "end_iterator")}
      \/ m.conn[s].out # << >> /\ w \in {do_write(x, s), on_written(x, s)}
  BY <1>0, OnWriteCases DEF Idled, Rested
<1>2. r \in Connections /\ r.stopped = m.conn[s].stopped
  BY <1>0, IdledRecord
<1>3. m.conn[s].out # << >> => q \in Connections /\ q.stopped = m.conn[s].stopped
  BY <1>0, RestedRecord
<1> HIDE DEF w, r, q
<1>4. Kept(m, v, ServerKinds) /\ v.ctx = m.ctx
  BY <1>0, <1>2, SetKept
<1>5. m.conn[s].out # << >> => Kept(m, x, ServerKinds) /\ x.ctx = m.ctx
  BY <1>0, <1>3, SetKept
<1> HIDE DEF v, x
<1>6. Kept(m, stop(v, s, TRUE), ServerKinds)
  <2>1. Good(v) /\ s \in 0..v.ctx.server
    BY <1>0, <1>4 DEF Kept
  <2> QED
    BY <1>4, <2>1, StopServerKept, KeptTrans
<1>7. Kept(m, Abort(m, "end_iterator"), ServerKinds)
  BY AbortKept DEF Faults
<1>8. ASSUME m.conn[s].out # << >>
      PROVE  Kept(m, do_write(x, s), ServerKinds) /\ Kept(m, on_written(x, s), ServerKinds)
  <2>1. Kept(m, x, ServerKinds) /\ Good(x) /\ s = x.ctx.server /\ s \in 0..x.ctx.server
    BY <1>0, <1>5, <1>8 DEF Kept
  <2>2. Kept(x, do_write(x, s), ServerKinds)
    BY <2>1, DoWriteServerKept
  <2>3. Kept(x, read(x, s), ServerKinds)
    BY <2>1, ReadKept, ServerKind DEF Going
  <2>4. on_written(x, s) = read(x, s)
    BY <1>0 DEF on_written
  <2> QED
    BY <2>1, <2>2, <2>3, <2>4, KeptTrans
<1>9. Kept(m, w, ServerKinds)
  BY <1>1, <1>4, <1>6, <1>7, <1>8
<1> QED
  BY <1>9 DEF w

-----------------------------------------------------------------------------
(* Handlers that are no steps.                                              *)
LEMMA OnTimerFlow ==
  ASSUME NEW m, Good(m), NEW c \in 0..m.ctx.server, NEW res, NEW W, NEW L, Flow(m, W, L)
  PROVE  Flow(on_timer(m, c, res), W, L)
<1> DEFINE r == [m.conn[c] EXCEPT !.running = FALSE]
           v == With(m, c, r)
           w == on_timer(m, c, res)
<1>0. c \in Conns /\ m \in Worlds /\ Client \in Conns
  BY ServerType, LengthType
<1>1. m.conn[c] \in Connections
  BY <1>0, ConnType
<1>2. /\ r \in Connections /\ r.stopped = m.conn[c].stopped
      /\ r.connected = m.conn[c].connected /\ r.out = m.conn[c].out
      /\ r.writing = m.conn[c].writing /\ r.encoded = m.conn[c].encoded
  BY <1>1 DEF Connections
<1>3. v = [m EXCEPT !.conn[c].running = FALSE]
  BY DEF With
<1> HIDE DEF r
<1>4. /\ v.queue = m.queue /\ v.pending = m.pending /\ v.ctx = m.ctx
      /\ v.conn[c] = r /\ \A k \in Conns \ {c} : v.conn[k] = m.conn[k]
  BY <1>0, SetFields
<1>5. Good(v)
  BY <1>0, <1>2, WithGood DEF Quiet
<1>6. w = IF res = "ok" THEN stop(v, c, c = Client) ELSE v
  BY <1>3 DEF on_timer
<1>7. Apart(m, w)
  BY OnTimerApart
<1> HIDE DEF v, w
<1>8. Kept(m, v, {})
  BY <1>0, <1>2, <1>4, <1>5, SameKept
<1>9. c \in 0..v.ctx.server /\ (c = Client) \in BOOLEAN
  BY <1>4
<1>10. Kept(v, stop(v, c, c = Client), {})
  BY <1>5, <1>9, StopServerKept
<1>11. Kept(m, w, {})
  BY <1>6, <1>8, <1>10, KeptTrans
<1>12. Flow(w, W, L)
  BY <1>7, <1>11, ApartFlow
<1> QED
  BY <1>12 DEF w

LEMMA OnStopFlow ==
  ASSUME NEW m, Good(m), NEW c, NEW W, NEW L, Flow(m, W, L)
  PROVE  Flow(on_stop(m, c), W, L)
<1>1. Client \in 0..m.ctx.server /\ m.ctx.server \in 0..m.ctx.server
  BY ClientExistsGood, ServerType
<1>2. Kept(m, m, {}) /\ Kept(m, stop(m, Client, FALSE), {}) /\ Kept(m, stop(m, m.ctx.server, FALSE), {})
  BY <1>1, StopServerKept
<1>3. Kept(m, on_stop(m, c), {})
  BY <1>2 DEF on_stop
<1> QED
  BY <1>3, OnStopApart, ApartFlow

LEMMA StopAllKept ==
  ASSUME NEW m, Good(m), m.ctx = ctx,
         NEW stopped, stopped = IF Client \in managed THEN stop(m, Client, FALSE) ELSE m,
         NEW all, all = IF ctx.server \in managed THEN stop(stopped, ctx.server, FALSE) ELSE stopped,
         NEW w, w = [all EXCEPT !.managed = {}], Good(w)
  PROVE  Kept(m, w, {})
<1>1. Client \in 0..m.ctx.server /\ ctx.server \in 0..m.ctx.server
  BY ClientExistsGood, ServerType
<1>2. Still(m, stopped)
  BY <1>1, StillRefl, StopStill
<1>3. Good(stopped) /\ ctx.server \in 0..stopped.ctx.server
  BY <1>1, <1>2 DEF Still
<1>4. Still(stopped, all)
  BY <1>3, StillRefl, StopStill
<1>5. Good(all) /\ all \in Worlds
  BY <1>4, LengthType DEF Still
<1>6. w.queue = all.queue /\ w.pending = all.pending /\ w.conn = all.conn
  BY <1>5 DEF Worlds
<1>7. Kept(all, w, {})
  BY <1>5, <1>6, SameKept
<1>8. Kept(m, stopped, {}) /\ Kept(stopped, all, {})
  BY <1>2, <1>4, StillKept
<1>9. Kept(m, all, {})
  BY <1>3, <1>8, KeptTrans
<1> QED
  BY <1>7, <1>9, KeptTrans

-----------------------------------------------------------------------------
(* What is written to the client.                                           *)

\* What the steps in progress rely on is kept by a method that starts none.
LEMMA ApartTimely ==
  ASSUME NEW m, NEW w, Apart(m, w), NEW W, NEW L, Timely(m, W, L),
         Emitted(w, W) \subseteq Emitted(m, W),
         w.conn[Client].encoded = m.conn[Client].encoded, Clear(m) => Clear(w)
  PROVE  Timely(w, W, L)
<1>2. Kinds(w) \cap ServerKinds # {} => Kinds(m) \cap ServerKinds # {}
  BY KindsSplit DEF Apart
<1>3. w.conn[Client].message = m.conn[Client].message
  BY ClientIn DEF Apart, ApartConn
<1>4. Older(Emitted(w, W), Current(L) + 1)
  BY OlderSubset DEF Timely
<1>5. ASSUME NEW fn, NEW d, fn \in {"read", "READ"}, Doing(w, fn, Client, d),
             w.conn[Client].message \o d # << >>
      PROVE  Older(Emitted(w, W), Current(L))
  <2>1. Doing(m, fn, Client, d)
    BY <1>5 DEF Apart
  <2>2. Older(Emitted(m, W), Current(L))
    BY <1>3, <1>5, <2>1 DEF Timely
  <2> QED
    BY <2>2, OlderSubset
<1>6. Upto(m, W, L) => Upto(w, W, L)
  BY DEF Upto
<1> QED
  BY <1>2, <1>4, <1>5, <1>6 DEF Timely

\* connection::do_write for the client: the front of buffer_out_ is sent if
\* nothing is.
Wrote(m, w, W) ==
  /\ Stream(w, W) /\ Emitted(w, W) \subseteq Emitted(m, W) /\ Out(w) = Out(m)
  /\ w.conn[Client].encoded = m.conn[Client].encoded
  /\ w.conn[Client].stopped = m.conn[Client].stopped
  /\ NoneArrived(m) <=> NoneArrived(w)

LEMMA DoWriteClient ==
  ASSUME NEW m, Good(m), m.conn[Client].connected, NEW W, Stream(m, W),
         NoneArrived(m) \/ m.conn[Client].writing \/ Out(m) = << >>
  PROVE  Wrote(m, do_write(m, Client), W)
<1> DEFINE r == [m.conn[Client] EXCEPT !.writing = TRUE]
           v == With(m, Client, r)
           d == Head(Out(m))
           w == Begin(v, "write", Client, d)
           p == [op |-> "write", conn |-> Client, data |-> d]
<1>1. CASE m.conn[Client].writing \/ m.conn[Client].out = << >>
  BY <1>1 DEF do_write, Wrote
<1>2. CASE ~(m.conn[Client].writing \/ m.conn[Client].out = << >>)
  <2>0. m.conn[Client] \in Connections /\ Client \in Conns /\ m \in Worlds
    BY ClientIn, ConnType, LengthType
  <2>1. do_write(m, Client) = w
    BY <1>2 DEF do_write, With, Out
  <2>2. /\ r \in Connections /\ r.stopped = m.conn[Client].stopped
        /\ r.connected = m.conn[Client].connected /\ r.encoded = m.conn[Client].encoded
        /\ r.out = m.conn[Client].out /\ r.writing
    BY <2>0 DEF Connections
  <2>3. /\ Out(m) \in Seq(Seq(Unit)) /\ Out(m) # << >> /\ Ascending(Out(m)) /\ NoneArrived(m)
    BY <1>2, <2>0 DEF Connections, Out, Stream
  <2>4. d \in Seq(Unit) /\ d # << >> /\ UnitsIn(d) \subseteq Buffered(Out(m))
    BY <2>3, TailAscending
  <2>d. d = Head(Out(m))
    OBVIOUS
  <2> HIDE DEF r, d
  <2>5. /\ v.queue = m.queue /\ v.pending = m.pending /\ v.conn[Client] = r
    BY <2>0, SetFields
  <2>6. Good(v) /\ v \in Worlds
    BY <2>0, <2>2, WithGood, LengthType DEF Quiet
  <2>7. w.queue = v.queue /\ w.conn = v.conn /\ w.pending = v.pending \cup {p}
    BY <2>6, BeginFields
  <2> HIDE DEF v
  <2>8. p.op = "write" /\ p.conn = Client /\ p.data = d
    OBVIOUS
  <2> HIDE DEF p, w
  <2>9. /\ w.queue = m.queue /\ w.pending = m.pending \cup {p} /\ w.conn[Client] = r
        /\ Out(w) = Out(m) /\ (NoneArrived(m) <=> NoneArrived(w))
    BY <2>2, <2>5, <2>7 DEF Out, NoneArrived
  <2>10. Emitted(w, W) \subseteq Emitted(m, W)
    <3>1. ASSUME NEW q \in w.pending, ClientWrite(q)
          PROVE  UnitsIn(q.data) \subseteq Emitted(m, W)
      <4>1. CASE q \in m.pending
        BY <3>1, <4>1 DEF Emitted
      <4>2. CASE q = p
        BY <2>4, <2>8, <4>2 DEF Emitted
      <4> QED
        BY <2>9, <4>1, <4>2
    <3>2. UnitsIn(W[Client]) \cup Buffered(Out(w)) \subseteq Emitted(m, W)
      BY <2>9 DEF Emitted
    <3> QED
      BY <3>1, <3>2 DEF Emitted
  <2>11. Lined(w)
    <3>1. \A q \in w.pending : ClientWrite(q) => w.conn[Client].connected /\ q.data # << >>
      BY <2>2, <2>4, <2>8, <2>9 DEF Stream, Lined
    <3> QED
      BY <2>9, <3>1 DEF Lined, Stream
  <2>12. ~w.conn[Client].stopped => Follow(w, W)
    <3> HAVE ~w.conn[Client].stopped
    <3>1. Follow(m, W)
      BY <2>2, <2>9 DEF Stream
    <3>2. Precede(UnitsIn(W[Client]), Buffered(Out(w)))
      BY <2>3, <2>9, <3>1 DEF Follow
    <3>3. ASSUME NEW q \in w.pending, ClientWrite(q) PROVE Fronted(w, q)
      <4>1. CASE q \in m.pending
        BY <2>2, <2>3, <2>9, <3>1, <3>3, <4>1 DEF Follow, Fronted
      <4>2. CASE q = p
        BY <2>2, <2>3, <2>8, <2>9, <2>d, <4>2 DEF Fronted
      <4> QED
        BY <2>9, <4>1, <4>2
    <3>4. NoneArrived(w)
      BY <2>3, <2>9
    <3> QED
      BY <3>2, <3>3, <3>4 DEF Follow, NoneArrived
  <2>13. Stream(w, W)
    BY <2>9, <2>11, <2>12 DEF Stream
  <2>14. Wrote(m, w, W)
    BY <2>2, <2>9, <2>10, <2>13 DEF Wrote
  <2> QED
    BY <2>1, <2>14
<1> QED
  BY <1>1, <1>2

\* What is known when a write that has succeeded is handled.
Receipt(m, W, data) ==
  /\ Increasing(W[Client]) /\ Ascending(Out(m)) /\ Lined(m) /\ NoneArrived(m)
  /\ ~m.conn[Client].stopped =>
       /\ Out(m) # << >> => Precede(UnitsIn(W[Client]), Buffered(unsent(Out(m), Len(data))))
       /\ \A p \in m.pending : ClientWrite(p) => Precede(UnitsIn(p.data), Buffered(Out(m)))

\* What was sent is taken out of buffer_out_.
LEMMA RestedStream ==
  ASSUME NEW m, Good(m), NEW data \in Seq(Unit), NEW W, Receipt(m, W, data), Out(m) # << >>,
         NEW x, x = Rested(m, Client, data)
  PROVE  /\ Good(x) /\ Stream(x, W) /\ Emitted(x, W) \subseteq Emitted(m, W) /\ NoneArrived(x)
         /\ Out(x) = unsent(Out(m), Len(data)) /\ x.ctx = m.ctx
         /\ x.conn[Client].connected = m.conn[Client].connected
         /\ x.conn[Client].encoded = m.conn[Client].encoded
<1> DEFINE r == Rest(m.conn[Client], data)
<1>0. Client \in Conns /\ m \in Worlds /\ m.conn[Client] \in Connections /\ Len(data) \in Nat
  BY ClientIn, ConnType, LengthType
<1>r. r = Rest(m.conn[Client], data) /\ x = With(m, Client, r)
  BY DEF Rested
<1> HIDE DEF r
<1>1. /\ r \in Connections /\ r.stopped = m.conn[Client].stopped
      /\ r.connected = m.conn[Client].connected /\ r.encoded = m.conn[Client].encoded
      /\ r.out = unsent(Out(m), Len(data))
  BY <1>0, <1>r, RestedRecord DEF Out
<1>2. Good(x)
  BY <1>0, <1>1, <1>r, WithGood DEF Quiet
<1>3. x.queue = m.queue /\ x.pending = m.pending /\ x.conn[Client] = r /\ x.ctx = m.ctx
  BY <1>0, <1>r, SetFields
<1>4. Out(x) = unsent(Out(m), Len(data)) /\ NoneArrived(x)
  BY <1>1, <1>3 DEF Out, NoneArrived, Receipt
<1>5. Ascending(Out(x)) /\ Buffered(Out(x)) \subseteq Buffered(Out(m))
  <2>1. Out(m) \in Seq(Seq(Unit)) /\ Ascending(Out(m))
    BY <1>0 DEF Connections, Out, Receipt
  <2> QED
    BY <1>0, <1>4, <2>1, UnsentAscending
<1>6. Emitted(x, W) \subseteq Emitted(m, W)
  BY <1>3, <1>5 DEF Emitted
<1>7. Lined(x)
  BY <1>1, <1>3 DEF Lined, Receipt
<1>8. ~x.conn[Client].stopped => Follow(x, W)
  <2> HAVE ~x.conn[Client].stopped
  <2>1. /\ Precede(UnitsIn(W[Client]), Buffered(Out(x)))
        /\ \A p \in m.pending : ClientWrite(p) => Precede(UnitsIn(p.data), Buffered(Out(m)))
    BY <1>1, <1>3, <1>4 DEF Receipt
  <2>2. \A p \in x.pending : ClientWrite(p) => Fronted(x, p)
    BY <1>3, <1>5, <2>1 DEF Fronted, Precede
  <2> QED
    BY <1>4, <2>1, <2>2 DEF Follow, NoneArrived
<1>9. Stream(x, W)
  BY <1>5, <1>7, <1>8 DEF Stream, Receipt
<1> QED
  BY <1>1, <1>2, <1>3, <1>4, <1>6, <1>9

LEMMA OnWriteClientFlow ==
  ASSUME NEW m, Good(m), Always(m), NEW res, NEW data \in Seq(Unit), NEW W, NEW L,
         Timely(m, W, L), res = "ok" => Receipt(m, W, data), res # "ok" => Stream(m, W),
         NEW w, w = on_write(m, Client, res, data), w.fault = "none"
  PROVE  Flow(w, W, L)
<1> DEFINE r == Halt(m.conn[Client])
           v == Idled(m, Client)
           x == Rested(m, Client, data)
<1>0. Client \in Conns /\ Client \in 0..m.ctx.server /\ m \in Worlds
  BY ClientExistsGood, LengthType
<1>1. Apart(m, w)
  BY OnWriteClientApart
<1>2. Increasing(W[Client]) /\ Ascending(Out(m)) /\ Lined(m)
  BY DEF Stream, Receipt
<1>3. w = IF m.conn[Client].stopped THEN v
          ELSE IF res # "ok" THEN stop(v, Client, TRUE)
          ELSE IF Out(m) = << >> THEN Abort(m, "end_iterator")
          ELSE IF unsent(Out(m), Len(data)) # << >> THEN do_write(x, Client)
          ELSE on_written(x, Client)
  BY <1>0, OnWriteCases DEF Out
<1>4. v = With(m, Client, r) /\ x = Rested(m, Client, data)
  BY DEF Idled
<1>5. /\ r \in Connections /\ r.stopped = m.conn[Client].stopped
      /\ r.connected = m.conn[Client].connected /\ r.encoded = m.conn[Client].encoded
      /\ r.out = m.conn[Client].out
  BY <1>0, IdledRecord
<1> HIDE DEF r, v, x
<1>6. Good(v)
  BY <1>0, <1>4, <1>5, WithGood DEF Quiet
<1>7. v.queue = m.queue /\ v.pending = m.pending /\ v.conn[Client] = r /\ v.ctx = m.ctx
  BY <1>0, <1>4, SetFields
<1>8. /\ Out(v) = Out(m) /\ Lined(v) /\ Emitted(v, W) = Emitted(m, W)
      /\ (NoneArrived(m) <=> NoneArrived(v))
  BY <1>2, <1>5, <1>7 DEF Out, Lined, Emitted, NoneArrived
<1>9. CASE m.conn[Client].stopped
  <2>1. w = v /\ v.conn[Client].stopped
    BY <1>3, <1>5, <1>7, <1>9
  <2>2. Stream(w, W)
    BY <1>2, <1>8, <2>1 DEF Stream
  <2>3. Clear(w)
    BY <2>1 DEF Clear
  <2>4. Timely(w, W, L)
    BY <1>1, <1>5, <1>7, <1>8, <2>1, <2>3, ApartTimely
  <2> QED
    BY <2>2, <2>4 DEF Flow
<1>10. CASE ~m.conn[Client].stopped /\ res # "ok"
  <2>1. w = stop(v, Client, TRUE) /\ Client \in 0..v.ctx.server
    BY <1>0, <1>3, <1>7, <1>10
  <2>2. w.conn[Client].stopped
    BY <1>6, <2>1, StopStill
  <2>3. Kept(v, w, {})
    BY <1>6, <2>1, StopServerKept
  <2>4. Keeping(v, w, W, L) /\ Out(w) = Out(v) /\ w.conn[Client].encoded = v.conn[Client].encoded
    BY <1>6, <2>3, KeptKeeping DEF Kept
  <2>5. Stream(w, W)
    BY <1>2, <1>8, <2>2, <2>4 DEF Stream, Keeping
  <2>6. Clear(w)
    BY <2>2 DEF Clear
  <2>7. Emitted(w, W) \subseteq Emitted(m, W) /\ w.conn[Client].encoded = m.conn[Client].encoded
    BY <1>5, <1>7, <1>8, <2>4 DEF Keeping
  <2>8. Timely(w, W, L)
    BY <1>1, <2>6, <2>7, ApartTimely
  <2> QED
    BY <2>5, <2>8 DEF Flow
<1>11. CASE ~m.conn[Client].stopped /\ res = "ok" /\ Out(m) = << >>
  BY <1>0, <1>3, <1>11, AbortFault
<1>12. CASE ~m.conn[Client].stopped /\ res = "ok" /\ Out(m) # << >>
  <2>1. /\ Good(x) /\ Stream(x, W) /\ Emitted(x, W) \subseteq Emitted(m, W) /\ NoneArrived(x)
        /\ Out(x) = unsent(Out(m), Len(data)) /\ x.ctx = m.ctx
        /\ x.conn[Client].connected = m.conn[Client].connected
        /\ x.conn[Client].encoded = m.conn[Client].encoded
    BY <1>4, <1>12, RestedStream
  <2>2. x.conn[Client].connected /\ Client \in 0..x.ctx.server
    BY <1>0, <1>12, <2>1 DEF Always
  <2>3. /\ Stream(w, W) /\ Emitted(w, W) \subseteq Emitted(x, W) /\ NoneArrived(w)
        /\ w.conn[Client].encoded = x.conn[Client].encoded
    <3>1. CASE Out(x) # << >>
      <4>1. w = do_write(x, Client)
        BY <1>3, <1>12, <2>1, <3>1
      <4>2. Wrote(x, w, W)
        BY <2>1, <2>2, <4>1, DoWriteClient
      <4> QED
        BY <2>1, <4>2 DEF Wrote
    <3>2. CASE Out(x) = << >>
      <4>1. w = Post(x, Task("WRITE", Client))
        BY <1>3, <1>12, <2>1, <3>2 DEF on_written
      <4>2. <<"WRITE", Client>> \notin StepKinds /\ "WRITE" \in Tasks
        BY DEF StepKinds, Going, Tasks, Events
      <4>3. Kept(x, w, {})
        BY <2>1, <2>2, <4>1, <4>2, PostKept
      <4> QED
        BY <2>1, <4>3, KeptKeeping DEF Keeping, Kept
    <3> QED
      BY <3>1, <3>2
  <2>4. Clear(w)
    BY <2>3 DEF Clear
  <2>5. Emitted(w, W) \subseteq Emitted(m, W) /\ w.conn[Client].encoded = m.conn[Client].encoded
    BY <2>1, <2>3
  <2>6. Timely(w, W, L)
    BY <1>1, <2>4, <2>5, ApartTimely
  <2> QED
    BY <2>3, <2>6 DEF Flow
<1> QED
  BY <1>9, <1>10, <1>11, <1>12

\* A buffer is appended to buffer_out_ while a write is still to be handled.
LEMMA UnsentAppend ==
  ASSUME NEW o \in Seq(Seq(Unit)), o # << >>, NEW b \in Seq(Unit), NEW n \in Nat
  PROVE  /\ Append(o, b) # << >> /\ Head(Append(o, b)) = Head(o)
         /\ Buffered(unsent(Append(o, b), n)) = Buffered(unsent(o, n)) \cup UnitsIn(b)
<1> DEFINE x == Append(o, b)
           h == Head(o)
           t == Tail(o)
           y == SubSeq(h, n + 1, Len(h))
<1>1. Head(x) = h /\ Tail(x) = Append(t, b) /\ x # << >>
  <2>1. /\ Len(o) \in Nat /\ Len(o) # 0 /\ x \in Seq(Seq(Unit)) /\ Len(x) = Len(o) + 1
        /\ \A i \in 1..Len(o) : x[i] = o[i]
        /\ x[Len(o) + 1] = b
    BY AppendProperties, LenProperties, EmptySeq
  <2>2. x # << >>
    <3> HIDE DEF x
    <3>1. x \in Seq(Seq(Unit)) /\ Len(x) # 0
      BY <2>1
    <3> QED
      BY <3>1, EmptySeq
  <2> DEFINE z == Tail(x)
             a == Append(t, b)
             k == Len(o)
  <2>3. /\ t \in Seq(Seq(Unit)) /\ Len(t) = k - 1 /\ \A i \in 1..(k - 1) : t[i] = o[i + 1]
        /\ h = o[1]
    BY <2>1, HeadTailProperties
  <2>5. /\ a \in Seq(Seq(Unit)) /\ Len(a) = Len(t) + 1 /\ \A i \in 1..Len(t) : a[i] = t[i]
        /\ a[Len(t) + 1] = b
    BY <2>3, AppendProperties
  <2>k. k \in Nat /\ k # 0 /\ k = Len(o) /\ (k - 1) + 1 = k
    BY <2>1
  <2> HIDE DEF a, x, t, k
  <2>4. /\ z \in Seq(Seq(Unit)) /\ Len(z) = Len(x) - 1 /\ \A i \in 1..Len(z) : z[i] = x[i + 1]
        /\ Head(x) = x[1]
    BY <2>1, <2>2, HeadTailProperties
  <2> HIDE DEF z
  <2>l. Len(z) = k /\ Len(a) = k /\ Len(t) = k - 1 /\ a[k] = b
    BY ONLY <2>1, <2>3, <2>4, <2>5, <2>k
  <2>6. 1 \in 1..k /\ k \in 1..k /\ \A i \in 1..k : (i \in 1..(k - 1) /\ i + 1 \in 1..k) \/ i = k
    BY <2>k
  <2>b. z[k] = b
    BY ONLY <2>1, <2>4, <2>6, <2>k, <2>l
  <2>c. ASSUME NEW i \in 1..(k - 1), i + 1 \in 1..k, i \in 1..k PROVE z[i] = a[i]
    <3>2. z[i] = x[i + 1] /\ x[i + 1] = o[i + 1] /\ a[i] = t[i] /\ t[i] = o[i + 1]
      BY ONLY <2>1, <2>3, <2>4, <2>5, <2>c, <2>k, <2>l
    <3> QED
      BY <3>2
  <2>7. \A i \in 1..Len(z) : z[i] = a[i]
    BY ONLY <2>6, <2>b, <2>c, <2>l
  <2>8. z = a
    <3>1. Len(z) = Len(a) /\ z \in Seq(Seq(Unit)) /\ a \in Seq(Seq(Unit))
      BY <2>4, <2>5, <2>l
    <3> QED
      BY ONLY <2>7, <3>1, SeqEqual
  <2>9. Head(x) = h
    BY <2>1, <2>3, <2>4, <2>6, <2>k
  <2> QED
    BY <2>2, <2>8, <2>9 DEF z, a
<1>2. h \in Seq(Unit) /\ t \in Seq(Seq(Unit))
  BY HeadTailProperties
<1>3. y \in Seq(Unit)
  <2>1. Len(h) \in Nat /\ Len(h) <= Len(h)
    BY <1>2, LenProperties
  <2> QED
    BY <1>2, <2>1, SubSeqPart DEF PartOf
<1>4. /\ unsent(x, n) = IF n < Len(h) THEN << y >> \o Append(t, b) ELSE Append(t, b)
      /\ unsent(o, n) = IF n < Len(h) THEN << y >> \o t ELSE t
  BY <1>1 DEF unsent
<1> HIDE DEF x, h, t, y
<1>5. Append(t, b) \in Seq(Seq(Unit)) /\ Buffered(Append(t, b)) = Buffered(t) \cup UnitsIn(b)
  BY <1>2, BufferedAppend, AppendProperties
<1>6. /\ Buffered(<< y >> \o Append(t, b)) = UnitsIn(y) \cup Buffered(Append(t, b))
      /\ Buffered(<< y >> \o t) = UnitsIn(y) \cup Buffered(t)
  BY <1>2, <1>3, <1>5, ConsAscending
<1>7. Buffered(unsent(x, n)) = Buffered(unsent(o, n)) \cup UnitsIn(b)
  BY <1>4, <1>5, <1>6
<1> QED
  BY <1>1, <1>7 DEF x, h

\* A world that differs in what was decoded or encoded.
LEMMA SameStream ==
  ASSUME NEW m, NEW w, w.queue = m.queue, w.pending = m.pending,
         w.conn[Client].out = m.conn[Client].out, w.conn[Client].writing = m.conn[Client].writing,
         w.conn[Client].stopped = m.conn[Client].stopped,
         w.conn[Client].connected = m.conn[Client].connected, NEW W
  PROVE  /\ Stream(m, W) => Stream(w, W)
         /\ Emitted(w, W) = Emitted(m, W) /\ (Clear(m) => Clear(w))
         /\ NoneArrived(m) <=> NoneArrived(w)
<1>1. Out(w) = Out(m) /\ (NoneArrived(m) <=> NoneArrived(w)) /\ Emitted(w, W) = Emitted(m, W)
  BY DEF Out, NoneArrived, Emitted
<1>2. Lined(m) => Lined(w)
  BY DEF Lined
<1>3. Follow(m, W) => Follow(w, W)
  BY <1>1 DEF Follow, Fronted
<1> QED
  BY <1>1, <1>2, <1>3 DEF Stream, Clear

\* A world that differs in a buffer more to be sent.
LEMMA AppendStream ==
  ASSUME NEW m, NEW w, w.queue = m.queue, w.pending = m.pending, NEW W, Stream(m, W),
         w.conn[Client].writing = m.conn[Client].writing,
         w.conn[Client].stopped = m.conn[Client].stopped, ~m.conn[Client].stopped,
         w.conn[Client].connected = m.conn[Client].connected, m.queue \in Seq(Handlers),
         NEW buf \in Seq(Unit), buf # << >>, Out(m) \in Seq(Seq(Unit)),
         Out(w) = Append(Out(m), buf), Increasing(buf), Precede(Emitted(m, W), UnitsIn(buf)),
         Out(m) # << >> \/ NoneArrived(m)
  PROVE  Stream(w, W) /\ Emitted(w, W) \subseteq Emitted(m, W) \cup UnitsIn(buf)
<1>1. /\ Buffered(Out(w)) = Buffered(Out(m)) \cup UnitsIn(buf)
      /\ Out(w) # << >> /\ (Out(m) # << >> => Head(Out(w)) = Head(Out(m)))
  BY BufferedAppend, AppendProperties, UnsentAppend
<1>2. /\ Precede(Buffered(Out(m)), UnitsIn(buf)) /\ Precede(UnitsIn(W[Client]), UnitsIn(buf))
      /\ \A p \in m.pending : ClientWrite(p) => Precede(UnitsIn(p.data), UnitsIn(buf))
  BY DEF Emitted, Precede
<1>3. Ascending(Out(w))
  BY <1>2, BufferedAppend DEF Stream
<1>4. NoneArrived(m) <=> NoneArrived(w)
  BY DEF NoneArrived
<1>5. Emitted(w, W) \subseteq Emitted(m, W) \cup UnitsIn(buf)
  BY <1>1 DEF Emitted
<1>6. Lined(w)
  BY DEF Lined, Stream
<1>7. Follow(m, W)
  BY DEF Stream
<1>8. NoneArrived(w) => Precede(UnitsIn(W[Client]), Buffered(Out(w)))
  BY <1>1, <1>2, <1>4, <1>7 DEF Follow, Precede
<1>9. ASSUME NEW i \in 1..Len(w.queue), Arrived(w.queue[i])
      PROVE  /\ w.conn[Client].writing
             /\ Precede(UnitsIn(W[Client]), Buffered(unsent(Out(w), Len(w.queue[i].data))))
  <2> DEFINE n == Len(w.queue[i].data)
  <2>1. Out(m) # << >>
    BY <1>9 DEF NoneArrived
  <2>2. w.conn[Client].writing /\ Precede(UnitsIn(W[Client]), Buffered(unsent(Out(m), n)))
    BY <1>7, <1>9, <2>1 DEF Follow
  <2>3. n \in Nat
    <3>1. w.queue[i] \in Handlers
      BY ElementOfSeq
    <3>2. w.queue[i].data \in Seq(Unit)
      BY <3>1 DEF Handlers
    <3> QED
      BY <3>2, LenProperties
  <2> HIDE DEF n
  <2>4. Buffered(unsent(Out(w), n)) = Buffered(unsent(Out(m), n)) \cup UnitsIn(buf)
    BY <2>1, <2>3, UnsentAppend
  <2>5. Precede(UnitsIn(W[Client]), Buffered(unsent(Out(w), n)))
    BY <1>2, <2>2, <2>4 DEF Precede
  <2> QED
    BY <2>2, <2>5 DEF n
<1>10. ASSUME NEW p \in w.pending, ClientWrite(p) PROVE Fronted(w, p)
  <2>1. Fronted(m, p)
    BY <1>7, <1>10 DEF Follow
  <2>2. CASE Precede(UnitsIn(p.data), Buffered(Out(m)))
    BY <1>1, <1>2, <1>10, <2>2 DEF Fronted, Precede
  <2>3. CASE /\ Out(m) # << >> /\ p.data = Head(Out(m))
             /\ NoneArrived(m) /\ m.conn[Client].writing
    BY <1>1, <1>4, <2>3 DEF Fronted
  <2> QED
    BY <2>1, <2>2, <2>3 DEF Fronted
<1>11. Follow(w, W)
  BY <1>8, <1>9, <1>10 DEF Follow
<1> QED
  BY <1>3, <1>5, <1>6, <1>11 DEF Stream

\* connection::write(msg) for the client: what it encodes comes after all that
\* is on its way.
WriteOk(m, w, W, buf) ==
  /\ Stream(w, W) /\ Clear(w) /\ Emitted(w, W) \subseteq Emitted(m, W) \cup UnitsIn(buf)
  /\ NoneArrived(m) <=> NoneArrived(w)

LEMMA WriteClientStream ==
  ASSUME NEW m, Good(m), Always(m), NEW W, Stream(m, W), Clear(m), ~m.conn[Client].stopped,
         NEW msg \in Seq(Unit), NEW completed \in BOOLEAN,
         m.conn[Client].encoded = RespLen \/ m.conn[Client].encoded <= Len(msg),
         NEW buf, buf = Encoding(m, Client, msg), buf \in Seq(Unit),
         Increasing(buf), Precede(Emitted(m, W), UnitsIn(buf)),
         NEW w, w = write(m, Client, msg, completed)
  PROVE  /\ WriteOk(m, w, W, buf)
         /\ w.conn[Client].encoded = encoded_after(Client, m.conn[Client].encoded, msg, completed)
<1> DEFINE e == encoded_after(Client, m.conn[Client].encoded, msg, completed)
<1>0. /\ Client \in Conns /\ Client \in 0..m.ctx.server /\ m \in Worlds /\ OutLen(Client) = RespLen
  BY ClientExistsGood, LengthType DEF OutLen
<1>1. PICK v, r : Encodes(m, Client, msg, completed, v, r)
  BY <1>0, WriteParts
<1>2. /\ v = cancel_timer(m, Client) /\ w = do_write(With(v, Client, r), Client)
      /\ r \in Connections /\ r.stopped = v.conn[Client].stopped
      /\ r.connected = v.conn[Client].connected /\ r.writing = v.conn[Client].writing
      /\ r.encoded = e
      /\ r.out = IF buf = << >> THEN v.conn[Client].out ELSE Append(v.conn[Client].out, buf)
  BY <1>1 DEF Encodes
<1>e. e = encoded_after(Client, m.conn[Client].encoded, msg, completed)
  OBVIOUS
<1> HIDE DEF e
<1>3. Still(m, v) /\ v.conn = m.conn
  BY <1>0, <1>2, CancelTimerStill
<1>4. Good(v) /\ v \in Worlds /\ Kept(m, v, {}) /\ v.queue \in Seq(Handlers)
  BY <1>3, LengthType, StillKept DEF Still
<1>5. /\ Stream(v, W) /\ Emitted(v, W) \subseteq Emitted(m, W) /\ Clear(v)
      /\ (NoneArrived(m) <=> NoneArrived(v))
  <2>1. Keeping(m, v, W, last)
    BY <1>4, KeptKeeping
  <2> QED
    BY <2>1 DEF Keeping
<1> DEFINE x == With(v, Client, r)
<1>6. x.queue = v.queue /\ x.pending = v.pending /\ x.conn[Client] = r
  BY <1>0, <1>4, SetFields
<1>7. Good(x)
  BY <1>0, <1>2, <1>4, WithGood DEF Quiet
<1>8. w = do_write(x, Client)
  BY <1>2
<1> HIDE DEF x
<1>9. /\ (NoneArrived(v) <=> NoneArrived(x)) /\ Out(x) = r.out /\ ~v.conn[Client].stopped
      /\ x.conn[Client].connected
  BY <1>2, <1>3, <1>6 DEF NoneArrived, Out, Always
<1>o. Out(v) \in Seq(Seq(Unit))
  <2>1. v.conn[Client] \in Connections
    BY <1>0, <1>4, ConnType
  <2> QED
    BY <2>1 DEF Out, Connections
<1>10. ~NoneArrived(x) => Out(v) # << >> /\ x.conn[Client].writing
  <2> SUFFICES ASSUME ~NoneArrived(x) PROVE Out(v) # << >> /\ x.conn[Client].writing
    OBVIOUS
  <2>1. Out(v) # << >> /\ Follow(v, W) /\ ~NoneArrived(v)
    BY <1>5, <1>9 DEF Clear, Stream
  <2>2. v.conn[Client].writing
    BY <2>1 DEF Follow, NoneArrived
  <2> QED
    BY <1>2, <1>6, <2>1, <2>2
<1>11. /\ Stream(x, W) /\ Emitted(x, W) \subseteq Emitted(m, W) \cup UnitsIn(buf)
       /\ NoneArrived(x) \/ Out(x) # << >>
  <2>1. CASE buf = << >>
    <3>1. x.conn[Client].out = v.conn[Client].out /\ Out(x) = Out(v)
      BY <1>2, <1>6, <2>1 DEF Out
    <3>2. Stream(x, W) /\ Emitted(x, W) = Emitted(v, W)
      BY <1>2, <1>5, <1>6, <3>1, SameStream
    <3> QED
      BY <1>5, <1>10, <3>1, <3>2
  <2>2. CASE buf # << >>
    <3>1. Out(x) = Append(Out(v), buf)
      BY <1>2, <1>9, <2>2 DEF Out
    <3>2. Precede(Emitted(v, W), UnitsIn(buf)) /\ (Out(v) # << >> \/ NoneArrived(v))
      BY <1>5, <1>9, <1>10 DEF Precede
    <3>3. Stream(x, W) /\ Emitted(x, W) \subseteq Emitted(v, W) \cup UnitsIn(buf)
      BY <1>2, <1>4, <1>5, <1>6, <1>9, <1>o, <2>2, <3>1, <3>2, AppendStream
    <3>4. Out(x) # << >>
      BY <1>o, <3>1, AppendProperties
    <3> QED
      BY <1>5, <3>3, <3>4
  <2> QED
    BY <2>1, <2>2
<1>12. Wrote(x, w, W)
  BY <1>7, <1>8, <1>9, <1>10, <1>11, DoWriteClient
<1>13. WriteOk(m, w, W, buf)
  BY <1>5, <1>9, <1>11, <1>12 DEF WriteOk, Wrote, Clear
<1>14. w.conn[Client].encoded = e
  BY <1>2, <1>6, <1>12 DEF Wrote
<1> QED
  BY <1>13, <1>14, <1>e

-----------------------------------------------------------------------------
(* The events of the context.                                               *)
LEMMA WriteServerKept ==
  ASSUME NEW m, Good(m), NEW s \in Servers, s = m.ctx.server, NEW msg \in Seq(Unit),
         NEW w, w = write(m, s, msg, TRUE)
  PROVE  Kept(m, w, ServerKinds)
<1>0. s \in 0..m.ctx.server /\ s \in Conns /\ s # Client /\ Len(msg) \in Nat
  BY ServingIn, LenProperties
<1>e. m.conn[s].encoded \in Nat
  BY <1>0, ConnType DEF Connections
<1>1. CASE m.conn[s].stopped \/ (m.conn[s].encoded # OutLen(s) /\ m.conn[s].encoded > Len(msg))
  <2>1. w \in {Abort(m, "write_assert"), Abort(m, "encode_underflow")}
    BY <1>1 DEF write
  <2> QED
    BY <2>1, AbortKept DEF Faults
<1>2. CASE ~(m.conn[s].stopped \/ (m.conn[s].encoded # OutLen(s) /\ m.conn[s].encoded > Len(msg)))
  <2>0. ~m.conn[s].stopped /\ (m.conn[s].encoded = OutLen(s) \/ m.conn[s].encoded <= Len(msg))
    BY <1>0, <1>e, <1>2
  <2>1. PICK v, r : Encodes(m, s, msg, TRUE, v, r)
    BY <1>0, <2>0, WriteParts
  <2>2. /\ v = cancel_timer(m, s) /\ w = do_write(With(v, s, r), s)
        /\ r \in Connections /\ r.stopped = v.conn[s].stopped
    BY <2>1 DEF Encodes
  <2>3. Still(m, v)
    BY <1>0, <2>2, CancelTimerStill
  <2>4. Kept(m, v, ServerKinds) /\ Good(v) /\ v.ctx = m.ctx
    BY <2>3, StillKept DEF Still
  <2> DEFINE x == With(v, s, r)
  <2>5. Kept(v, x, ServerKinds) /\ x.ctx = v.ctx
    BY <1>0, <2>2, <2>4, SetKept
  <2>6. w = do_write(x, s)
    BY <2>2
  <2> HIDE DEF x
  <2>7. Good(x) /\ s = x.ctx.server
    BY <2>4, <2>5 DEF Kept
  <2>8. Kept(x, w, ServerKinds)
    BY <2>6, <2>7, DoWriteServerKept
  <2>9. Kept(v, w, ServerKinds)
    BY <2>4, <2>5, <2>8, KeptTrans
  <2> QED
    BY <2>4, <2>9, KeptTrans
<1> QED
  BY <1>1, <1>2

\* What has come of a response, less what was encoded of it.
LEMMA UnitsRest ==
  ASSUME NEW r \in Nat, NEW k \in Nat, NEW e \in Nat, e <= k
  PROVE  SubSeq(Units(r, 0, k), e + 1, k) = Units(r, e, k - e)
<1> DEFINE s == Units(r, 0, k)
           x == SubSeq(s, e + 1, k)
<1>1. Spans(s, r, 0, k)
  <2>1. 0 \in Nat
    OBVIOUS
  <2> QED
    BY <2>1, UnitsSpan
<1> HIDE DEF s
<1>2. s \in Seq(Unit) /\ Len(s) = k /\ \A j \in 1..k : s[j] = <<r, 0 + j>>
  BY <1>1 DEF Spans
<1>3. PartOf(x, s, e, k)
  BY <1>2, SubSeqPart
<1> HIDE DEF x
<1>4. /\ x \in Seq(Unit) /\ Len(x) = k - e /\ k - e \in Nat
      /\ \A j \in 1..(k - e) : e + j \in 1..k /\ x[j] = s[e + j] /\ 0 + (e + j) = e + j
  BY <1>3 DEF PartOf
<1>5. \A j \in 1..(k - e) : x[j] = <<r, e + j>>
  BY <1>2, <1>4
<1>6. Spans(x, r, e, k - e)
  BY <1>4, <1>5 DEF Spans
<1>7. x = Units(r, e, k - e)
  BY <1>4, <1>6, SpansEqual
<1> QED
  BY <1>7 DEF x, s

Fresh(buf, r, e, n) ==
  /\ buf \in Seq(Unit) /\ Increasing(buf) /\ n \in Nat /\ e <= n
  /\ \A u \in UnitsIn(buf) : u[1] = r /\ u[2] \in Nat /\ u[2] > e /\ u[2] <= n

LEMMA NoneFresh ==
  ASSUME NEW r, NEW e, NEW n \in Nat, e <= n
  PROVE  Fresh(<< >>, r, e, n)
<1> DEFINE s == << >>
<1>1. s \in Seq(Unit)
  OBVIOUS
<1>2. Len(s) = 0
  OBVIOUS
<1> HIDE DEF s
<1>3. \A i \in 1..Len(s) : FALSE
  BY <1>2
<1>4. Fresh(s, r, e, n)
  BY <1>1, <1>3 DEF Fresh, Increasing, UnitsIn
<1> QED
  BY <1>4 DEF s

LEMMA RestFresh ==
  ASSUME NEW r \in Nat, NEW e \in Nat, NEW k \in Nat, e <= k, NEW n \in Nat, k <= n
  PROVE  Fresh(Units(r, e, k - e), r, e, n)
<1>1. k - e \in Nat /\ e + (k - e) = k /\ e <= n
  OBVIOUS
<1>2. Units(r, e, k - e) \in Seq(Unit)
  BY <1>1, UnitsType
<1>3. /\ Increasing(Units(r, e, k - e))
      /\ \A u \in UnitsIn(Units(r, e, k - e)) : u[1] = r /\ u[2] \in e + 1 .. e + (k - e)
  BY <1>1, UnitsIncrease
<1>4. \A j \in e + 1 .. e + (k - e) : j \in Nat /\ j > e /\ j <= n
  BY <1>1
<1> QED
  BY <1>1, <1>2, <1>3, <1>4 DEF Fresh

LEMMA EncodingFresh ==
  ASSUME NEW m, Good(m), NEW r \in Nat, NEW k \in Nat, NEW msg, msg = Units(r, 0, k), k <= RespLen,
         m.conn[Client].encoded <= k, NEW completed \in BOOLEAN, completed => k = RespLen
  PROVE  /\ msg \in Seq(Unit) /\ Len(msg) = k
         /\ Fresh(Encoding(m, Client, msg), r, m.conn[Client].encoded,
                  encoded_after(Client, m.conn[Client].encoded, msg, completed))
<1> DEFINE e == m.conn[Client].encoded
           n == encoded_after(Client, e, msg, completed)
           buf == Encoding(m, Client, msg)
<1>0. Client \in Conns /\ e \in Nat /\ OutLen(Client) = RespLen /\ RespLen \in Nat /\ e <= k
  <2>1. m.conn[Client] \in Connections
    BY ClientIn, ConnType
  <2> QED
    BY <2>1, ClientIn DEF Connections, OutLen
<1>1. msg \in Seq(Unit) /\ Len(msg) = k
  <2>1. 0 \in Nat
    OBVIOUS
  <2>2. Spans(Units(r, 0, k), r, 0, k)
    BY <2>1, UnitsSpan
  <2> QED
    BY <2>2 DEF Spans
<1>2. buf = IF e = RespLen THEN << >> ELSE SubSeq(msg, e + 1, k)
  BY <1>0, <1>1 DEF Encoding
<1>3. n = IF completed \/ e = RespLen THEN RespLen ELSE k
  BY <1>0, <1>1 DEF encoded_after
<1> HIDE DEF e, n, buf
<1>4. n \in Nat /\ e <= n /\ (e # RespLen => k <= n)
  BY <1>0, <1>3
<1>5. Fresh(buf, r, e, n)
  <2>1. CASE e = RespLen
    BY <1>0, <1>2, <1>4, <2>1, NoneFresh
  <2>2. CASE e # RespLen
    <3>1. buf = Units(r, e, k - e)
      BY <1>0, <1>2, <2>2, UnitsRest
    <3> QED
      BY <1>0, <1>4, <2>2, <3>1, RestFresh
  <2> QED
    BY <2>1, <2>2
<1> QED
  BY <1>1, <1>5 DEF e, n, buf

LEMMA ResponseServe ==
  ASSUME NEW m, Good(m), Always(m), NEW W, NEW L \in [Conns -> Unit], Serve(m, W, L),
         \A u \in Emitted(m, W) : u \in Unit,
         NEW k \in Nat, NEW msg, msg = Units(Current(L), 0, k), k <= RespLen,
         m.conn[Client].encoded <= k, NEW completed \in BOOLEAN, completed => k = RespLen,
         NEW w, w = write(m, Client, msg, completed)
  PROVE  Serve(w, W, L)
<1> DEFINE buf == Encoding(m, Client, msg)
           n == encoded_after(Client, m.conn[Client].encoded, msg, completed)
           e == m.conn[Client].encoded
<1>0. Current(L) \in Nat
  BY ClientIn DEF Current, Unit
<1>1. CASE m.conn[Client].stopped
  <2>1. w = Abort(m, "write_assert")
    BY <1>1 DEF write
  <2> QED
    BY <2>1, AbortKept, KeptPausing DEF Faults, Serve
<1>2. CASE ~m.conn[Client].stopped
  <2>2. \A u \in Emitted(m, W) : u[1] \in Nat /\ u[2] \in Nat
    BY DEF Unit
  <2>3. e \in Nat
    BY ClientIn, ConnType DEF Connections
  <2>b. buf = Encoding(m, Client, msg)
    OBVIOUS
  <2>n. n = encoded_after(Client, m.conn[Client].encoded, msg, completed)
    OBVIOUS
  <2>e. e = m.conn[Client].encoded
    OBVIOUS
  <2> HIDE DEF buf, n, e
  <2>1. /\ msg \in Seq(Unit) /\ Len(msg) = k /\ buf \in Seq(Unit) /\ Increasing(buf)
        /\ \A u \in UnitsIn(buf) : u[1] = Current(L) /\ u[2] \in Nat /\ u[2] > e /\ u[2] <= n
        /\ n \in Nat /\ e <= n
    <3>1. msg \in Seq(Unit) /\ Len(msg) = k /\ Fresh(buf, Current(L), e, n)
      BY <1>0, <2>b, <2>n, <2>e, EncodingFresh
    <3> QED
      BY <3>1 DEF Fresh
  <2>4. Precede(Emitted(m, W), UnitsIn(buf))
    <3>1. ASSUME NEW u \in Emitted(m, W), NEW v \in UnitsIn(buf) PROVE Before(u, v)
      <4>1. u[1] < Current(L) \/ (u[1] = Current(L) /\ u[2] <= e)
        BY <2>e DEF Serve, Upto
      <4>2. v[1] = Current(L) /\ v[2] \in Nat /\ v[2] > e /\ u[1] \in Nat /\ u[2] \in Nat
        BY <2>1, <2>2
      <4> QED
        BY <1>0, <2>3, <4>1, <4>2 DEF Before
    <3> QED
      BY <3>1 DEF Precede
  <2>5. WriteOk(m, w, W, buf) /\ w.conn[Client].encoded = n
    BY <1>2, <2>1, <2>4, <2>b, <2>n, <2>e, WriteClientStream DEF Serve, Pausing
  <2>6. Upto(w, W, L)
    <3>1. ASSUME NEW u \in Emitted(w, W)
          PROVE  u[1] < Current(L) \/ (u[1] = Current(L) /\ u[2] <= n)
      <4>1. CASE u \in Emitted(m, W)
        <5>1. u[1] < Current(L) \/ (u[1] = Current(L) /\ u[2] <= e)
          BY <2>e, <4>1 DEF Serve, Upto
        <5>2. u[2] \in Nat
          BY <2>2, <4>1
        <5> QED
          BY <2>1, <2>3, <5>1, <5>2
      <4>2. CASE u \in UnitsIn(buf)
        BY <2>1, <4>2
      <4> QED
        BY <2>5, <4>1, <4>2 DEF WriteOk
    <3> QED
      BY <2>5, <3>1 DEF Upto
  <2>7. Older(Emitted(w, W), Current(L) + 1)
    <3>1. ASSUME NEW u \in Emitted(w, W) PROVE u[1] < Current(L) + 1
      <4>1. CASE u \in Emitted(m, W)
        BY <4>1 DEF Serve, Pausing, Older
      <4>2. CASE u \in UnitsIn(buf)
        BY <1>0, <2>1, <4>2
      <4> QED
        BY <2>5, <4>1, <4>2 DEF WriteOk
    <3> QED
      BY <3>1 DEF Older
  <2> QED
    BY <2>5, <2>6, <2>7 DEF WriteOk, Serve, Pausing
<1> QED
  BY <1>1, <1>2

LEMMA EmittedType ==
  ASSUME NEW m, Good(m), NEW W, W[Client] \in Seq(Unit)
  PROVE  \A u \in Emitted(m, W) : u \in Unit /\ u[1] \in Nat /\ u[2] \in Nat
<1>1. \A u \in UnitsIn(W[Client]) : u \in Unit
  BY UnitsInType
<1>2. Out(m) \in Seq(Seq(Unit))
  BY ClientIn, ConnType DEF Out, Connections
<1>3. \A i \in 1..Len(Out(m)) : Out(m)[i] \in Seq(Unit)
  BY <1>2, ElementOfSeq
<1>4. \A i \in 1..Len(Out(m)) : \A u \in UnitsIn(Out(m)[i]) : u \in Unit
  BY <1>3, UnitsInType
<1>5. \A u \in Buffered(Out(m)) : u \in Unit
  BY <1>4 DEF Buffered
<1>6. m.pending \subseteq PendingOps
  BY LengthType DEF Worlds
<1>7. \A p \in m.pending : p.data \in Seq(Unit)
  BY <1>6 DEF PendingOps
<1>8. \A p \in m.pending : \A u \in UnitsIn(p.data) : u \in Unit
  BY <1>7, UnitsInType
<1>9. \A u \in Emitted(m, W) : u \in Unit
  BY <1>1, <1>5, <1>8 DEF Emitted
<1> QED
  BY <1>9 DEF Unit

LEMMA ServerResetKept ==
  ASSUME NEW m, Good(m), NEW s \in Servers, s = m.ctx.server
  PROVE  Kept(m, server_reset(m, s), {})
<1> DEFINE r == Blank(m.conn[s])
           v == With(m, s, r)
<1>0. s \in 0..m.ctx.server /\ s \in Conns /\ m \in Worlds /\ m.conn[s] \in Connections
  BY ServingIn, LengthType, ConnType
<1>1. server_reset(m, s) = timer_start(v, s)
  BY <1>0, ResetWith DEF server_reset
<1>2. r \in Connections /\ r.stopped = m.conn[s].stopped
  BY <1>0, BlankFields
<1> HIDE DEF r
<1>3. Kept(m, v, {}) /\ v.ctx = m.ctx
  BY <1>0, <1>2, SetKept
<1> HIDE DEF v
<1>4. Good(v) /\ s \in 0..v.ctx.server
  BY <1>0, <1>3 DEF Kept
<1>5. Kept(v, timer_start(v, s), {})
  BY <1>4, TimerStartStill, StillKept
<1> QED
  BY <1>1, <1>3, <1>5, KeptTrans

\* A change of the context.
LEMMA ContextKept ==
  ASSUME NEW m, Good(m), NEW w, Good(w), NEW k, w = [m EXCEPT !.ctx = k], NEW K
  PROVE  Kept(m, w, K)
<1>1. w.queue = m.queue /\ w.pending = m.pending /\ w.conn = m.conn
  BY LengthType DEF Worlds
<1> QED
  BY <1>1, SameKept

LEMMA OnServerMessageFlow ==
  ASSUME NEW m, Good(m), Always(m), NoStep(m), NEW W, W[Client] \in Seq(Unit),
         NEW L \in [Conns -> Unit], Base(m, W, L), Serve(m, W, L),
         NEW s \in Servers, s = m.ctx.server, NEW d, StepOk(m.conn[s], W, L, "READ", s, d),
         m.conn[Client].encoded <= Len(m.conn[s].message),
         NEW keep_alive, NEW w, w = on_server_message(m, s, keep_alive), w.fault = "none"
  PROVE  Flow(w, W, L)
<1> DEFINE response == m.conn[s].message
           completed == Completed(m, s)
           written == write(m, Client, response, completed)
           k == [written.ctx EXCEPT !.exchanged = TRUE]
           exchanged == [written EXCEPT !.ctx = k]
           n == IF L[s][1] = Current(L) THEN L[s][2] ELSE 0
<1>0. s \in 0..m.ctx.server /\ s \in Conns /\ s # Client /\ m \in Worlds
  BY ServingIn, LengthType
<1>1. response \in Seq(Unit) /\ completed \in BOOLEAN
  BY <1>0, MessageType DEF Completed
<1>2. \/ w \in {Abort(m, "client_assert"), Abort(m, "server_assert")}
      \/ w \in {read(written, s), server_reset(exchanged, s), stop(exchanged, s, FALSE)}
  BY DEF on_server_message
<1>3. w \notin {Abort(m, "client_assert"), Abort(m, "server_assert")}
  BY <1>0, AbortFault
<1>4. Apart(m, written)
  BY <1>1, WriteApart
<1>5. n \in Nat /\ n <= RespLen
  <2>1. L[s][2] \in 1..RespLen
    BY <1>0 DEF Base, Past, InLen
  <2> QED
    BY <2>1
<1>6. response = Units(Current(L), 0, n) /\ Current(L) \in Nat
  <2>1. Answer(response \o << >>, W, L, s)
    BY <1>0 DEF StepOk
  <2>2. response \o << >> = response
    BY <1>1
  <2> QED
    BY <2>1, <2>2, ClientIn DEF Answer, Current, Unit
<1> HIDE DEF n
<1>7. Len(response) = n
  <2>1. 0 \in Nat
    OBVIOUS
  <2>2. Spans(Units(Current(L), 0, n), Current(L), 0, n)
    BY <1>5, <1>6, <2>1, UnitsSpan
  <2> QED
    BY <1>6, <2>2 DEF Spans
<1>8. completed => n = RespLen
  BY <1>0, <1>7 DEF Completed, InLen
<1>9. Serve(written, W, L)
  <2>1. m.conn[Client].encoded <= n
    BY <1>7
  <2>2. \A u \in Emitted(m, W) : u \in Unit
    BY EmittedType
  <2>3. written = write(m, Client, response, completed)
    OBVIOUS
  <2> HIDE DEF written, response, completed
  <2> QED
    BY <1>1, <1>5, <1>6, <1>8, <2>1, <2>2, <2>3, ResponseServe
<1> HIDE DEF written
<1>10. Good(written) /\ NoStep(written) /\ written.ctx.server = s
  BY <1>4, ApartSound DEF Apart
<1>11. k \in Contexts /\ k.server = written.ctx.server
  BY <1>10, ContextType DEF Contexts
<1> HIDE DEF k
<1>e. exchanged = [written EXCEPT !.ctx = k]
  OBVIOUS
<1> HIDE DEF exchanged
<1>12. Kept(written, exchanged, ServerKinds) /\ Good(exchanged) /\ exchanged.ctx = k
  <2>1. Good(exchanged) /\ exchanged.ctx = k
    BY <1>10, <1>11, <1>e, ContextApart
  <2> QED
    BY <1>10, <1>e, <2>1, ContextKept
<1>13. s \in 0..exchanged.ctx.server /\ s = exchanged.ctx.server /\ s \in 0..written.ctx.server
  <2>1. s = exchanged.ctx.server
    BY <1>10, <1>11, <1>12
  <2>2. s \in 0..s
    OBVIOUS
  <2> QED
    BY <1>10, <2>1, <2>2
<1>14. Kept(written, w, ServerKinds)
  <2>1. CASE w = read(written, s)
    <3>1. <<"read", s>> \in ServerKinds
      BY ServerKind DEF Going
    <3> QED
      BY <1>10, <1>13, <2>1, <3>1, ReadKept
  <2>2. CASE w = server_reset(exchanged, s)
    <3>1. Kept(exchanged, w, ServerKinds)
      BY <1>12, <1>13, <2>2, ServerResetKept, KeptMore
    <3> QED
      BY <1>10, <1>12, <3>1, KeptTrans
  <2>3. CASE w = stop(exchanged, s, FALSE)
    <3>1. Kept(exchanged, w, ServerKinds)
      BY <1>12, <1>13, <2>3, StopStill, StillKept
    <3> QED
      BY <1>10, <1>12, <3>1, KeptTrans
  <2> QED
    BY <1>2, <1>3, <2>1, <2>2, <2>3
<1> QED
  BY <1>9, <1>10, <1>14, ServerFlow

\* Between two steps, and nothing is started.
LEMMA RestingFlow ==
  ASSUME NEW m, NoStep(m), NEW W, NEW L, Pausing(m, W, L)
  PROVE  Flow(m, W, L)
<1>1. Kinds(m) \cap StepKinds \cap ClientKinds = {} /\ Kinds(m) \cap ServerKinds = {}
  BY KindsSplit DEF NoStep
<1> QED
  BY <1>1, NoClientStep DEF Flow, Timely, Pausing

\* The proxy's own answer to the current request.
Answers(b, r) ==
  /\ b \in Seq(Unit) /\ b # << >> /\ Increasing(b) /\ Len(b) = 1 /\ b[1] = <<r, 0>>
  /\ \A u \in UnitsIn(b) : u = <<r, 0>>
LEMMA ReplyUnits ==
  ASSUME NEW r \in Nat
  PROVE  Answers(<< <<r, 0>> >>, r)
<1> DEFINE u == <<r, 0>>
           b == << u >>
<1>0. u \in Unit
  BY DEF Unit
<1> HIDE DEF u
<1>1. b \in Seq(Unit)
  BY <1>0
<1>2. Len(b) = 1 /\ b[1] = u
  OBVIOUS
<1> HIDE DEF b
<1>z. Len(<< >>) = 0
  OBVIOUS
<1>3. b # << >>
  BY <1>2, <1>z
<1>4. \A i \in 1..Len(b) : i = 1
  BY <1>2
<1>5. Increasing(b) /\ \A v \in UnitsIn(b) : v = u
  BY <1>2, <1>4 DEF Increasing, UnitsIn
<1>6. Answers(b, r)
  BY <1>1, <1>2, <1>3, <1>5 DEF Answers, u
<1> QED
  BY <1>6 DEF b, u

LEMMA ReplyEncoding ==
  ASSUME NEW m, m.conn[Client].encoded = 0, NEW r, NEW msg, Answers(msg, r)
  PROVE  Encoding(m, Client, msg) = msg
<1> DEFINE e == m.conn[Client].encoded
           n == Len(msg)
           x == SubSeq(msg, e + 1, n)
<1>1. Encoding(m, Client, msg) = x
  <2>1. OutLen(Client) = RespLen /\ RespLen # 0 /\ e = 0
    BY DEF OutLen
  <2> QED
    BY <2>1 DEF Encoding
<1>2. msg \in Seq(Unit) /\ n = 1 /\ n \in Nat /\ n <= Len(msg) /\ e \in Nat /\ e = 0
  BY DEF Answers
<1> HIDE DEF e, n
<1>3. PartOf(x, msg, e, n)
  BY <1>2, SubSeqPart
<1> HIDE DEF x
<1>4. x \in Seq(Unit) /\ Len(x) = n /\ \A i \in 1..n : x[i] = msg[e + i]
  BY <1>2, <1>3 DEF PartOf
<1>5. \A i \in 1..n : x[i] = msg[i]
  BY <1>2, <1>4
<1>6. x = msg
  BY <1>2, <1>4, <1>5, SeqEqual DEF n
<1> QED
  BY <1>1, <1>6 DEF x, e, n

LEMMA ReplyFlow ==
  ASSUME NEW m, Good(m), Always(m), NoStep(m), NEW W, W[Client] \in Seq(Unit),
         NEW L \in [Conns -> Unit], Pausing(m, W, L), Older(Emitted(m, W), Current(L)),
         NoneArrived(m), m.conn[Client].encoded = 0,
         NEW reply, Answers(reply, Current(L)), NEW w, w = write(m, Client, reply, TRUE)
  PROVE  Flow(w, W, L)
<1>0. Current(L) \in Nat /\ reply \in Seq(Unit)
  BY ClientIn DEF Current, Unit, Answers
<1>1. NoStep(w)
  BY <1>0, WriteApart, ApartSound
<1>2. CASE m.conn[Client].stopped
  <2>1. w = Abort(m, "write_assert")
    BY <1>2 DEF write
  <2> QED
    BY <2>1, AbortKept, RestFlow DEF Faults
<1>3. CASE ~m.conn[Client].stopped
  <2>1. reply = Encoding(m, Client, reply)
    BY ReplyEncoding
  <2>2. Stream(m, W) /\ Clear(m) /\ m.conn[Client].encoded <= Len(reply)
    BY DEF Pausing, Clear, Answers
  <2>3. Increasing(reply) /\ \A u \in UnitsIn(reply) : u = <<Current(L), 0>>
    BY DEF Answers
  <2>4. Precede(Emitted(m, W), UnitsIn(reply))
    <3>1. ASSUME NEW u \in Emitted(m, W), NEW v \in UnitsIn(reply) PROVE Before(u, v)
      BY <2>3 DEF Older, Before
    <3> QED
      BY <3>1 DEF Precede
  <2>5. WriteOk(m, w, W, reply)
    BY <1>0, <1>3, <2>1, <2>2, <2>3, <2>4, WriteClientStream
  <2>6. Older(Emitted(w, W), Current(L) + 1)
    <3>1. ASSUME NEW u \in Emitted(w, W) PROVE u[1] < Current(L) + 1
      <4>1. CASE u \in Emitted(m, W)
        BY <4>1 DEF Pausing, Older
      <4>2. CASE u \in UnitsIn(reply)
        BY <1>0, <2>3, <4>2
      <4> QED
        BY <2>5, <4>1, <4>2 DEF WriteOk
    <3> QED
      BY <3>1 DEF Older
  <2> QED
    BY <1>1, <2>5, <2>6, RestingFlow DEF WriteOk, Pausing
<1> QED
  BY <1>2, <1>3

LEMMA OnClientMessageFlow ==
  ASSUME NEW m, Good(m), Always(m), NoStep(m), NEW W, W[Client] \in Seq(Unit),
         NEW L \in [Conns -> Unit], Base(m, W, L), Pausing(m, W, L),
         Older(Emitted(m, W), Current(L)), NoneArrived(m), m.conn[Client].encoded = 0,
         NEW d, StepOk(m.conn[Client], W, L, "READ", Client, d),
         m.ctx = ctx, m.managed = managed, LockServer \/ ctx.server < MaxServers,
         NEW connect \in BOOLEAN, NEW destination,
         NEW w, w = on_client_message(m, connect, destination), w.fault = "none"
  PROVE  Flow(w, W, L)
<1> DEFINE request == m.conn[Client].message
           server == m.ctx.server
           s == m.ctx.server + 1
           parsed == Parsed(m, connect)
           opened == Opened(m, connect)
           reply == Reply(m)
<1>0. request \in Seq(Unit) /\ m \in Worlds /\ Current(L) \in Nat
  BY ClientIn, MessageType, LengthType DEF Current, Unit
<1>1. Completed(m, Client)
  <2>1. w # Abort(m, "request_assert")
    BY <1>0, AbortFault
  <2> QED
    BY <2>1 DEF on_client_message
<1>2. request = Units(Current(L), 0, ReqLen)
  <2>1. request \o << >> = request
    BY <1>0
  <2>2. Asking(request, W, L) /\ Past(W, L)
    BY <2>1 DEF StepOk, Base
  <2>3. Len(request) = ReqLen
    BY <1>1 DEF Completed, InLen
  <2> HIDE DEF request
  <2> QED
    BY <2>2, <2>3, AskingLength
<1>3. Serve(m, W, L)
  <2>1. Upto(m, W, L) /\ Clear(m)
    BY DEF Upto, Older, Clear
  <2> QED
    BY <2>1 DEF Serve
<1>4. CASE LockServer
  <2>1. w = write(m, server, request, TRUE)
    BY <1>1, <1>4 DEF on_client_message
  <2>2. server \in Servers /\ server = m.ctx.server
    BY <1>4 DEF LockServer
  <2> HIDE DEF request, server
  <2>3. Kept(m, w, ServerKinds)
    BY <1>0, <2>1, <2>2, WriteServerKept
  <2> QED
    BY <1>3, <2>3, ServerFlow
<1>5. CASE ~LockServer
  <2>1. w \in {Abort(m, "host_assert"), parsed, write(opened, Client, reply, TRUE),
               write(opened, s, request, TRUE)}
    BY <1>1, <1>5 DEF on_client_message, Parsed, Opened, Reply
  <2>2. w # Abort(m, "host_assert")
    BY <1>0, AbortFault
  <2>3. Flow(parsed, W, L)
    <3> DEFINE https == m.ctx.https \/ connect
               k == [m.ctx EXCEPT !.https = https]
    <3>1. https \in BOOLEAN
      BY ContextType DEF Contexts
    <3> HIDE DEF https
    <3>2. k \in Contexts /\ k.server = m.ctx.server
      BY <3>1, ContextType DEF Contexts
    <3>3. parsed = [m EXCEPT !.ctx = k]
      BY DEF Parsed, https
    <3> HIDE DEF k, parsed
    <3>4. Good(parsed)
      BY <3>2, <3>3, ContextApart
    <3>5. Kept(m, parsed, {})
      BY <3>3, <3>4, ContextKept
    <3> QED
      BY <3>5, RestFlow
  <2>4. OpenedFrom(m, connect, opened)
    BY <1>5, OpenedParts
  <2>5. /\ Good(opened) /\ opened.ctx.server = s /\ s \in Servers /\ opened.conn = m.conn
        /\ opened.queue = m.queue /\ opened.pending = m.pending
    BY <2>4 DEF OpenedFrom
  <2>6. Answers(reply, Current(L))
    <3>1. Spans(Units(Current(L), 0, ReqLen), Current(L), 0, ReqLen) /\ 0 \in Nat
      <4>1. 0 \in Nat
        OBVIOUS
      <4> QED
        BY <1>0, <4>1, UnitsSpan
    <3>2. request[1] = <<Current(L), 0 + 1>>
      BY <1>2, <3>1 DEF Spans
    <3>3. reply = << <<Current(L), 0>> >>
      BY <3>2 DEF Reply, SslReply
    <3> QED
      BY <1>0, <3>3, ReplyUnits
  <2> HIDE DEF opened, reply, request, parsed, s
  <2>7. NoStep(opened) /\ Kept(m, opened, {})
    <3>1. Kinds(opened) = Kinds(m)
      BY <2>5 DEF Kinds
    <3> QED
      BY <2>5, <3>1, SameKept DEF NoStep
  <2>8. Pausing(opened, W, L) /\ Serve(opened, W, L)
    BY <1>3, <2>7, KeptPausing
  <2>9. CASE w = write(opened, Client, reply, TRUE)
    <3>1. Always(opened) /\ NoneArrived(opened) /\ opened.conn[Client].encoded = 0
      BY <2>5 DEF Always, NoneArrived
    <3>2. Older(Emitted(opened, W), Current(L))
      BY <2>5 DEF Emitted, Out
    <3> QED
      BY <2>5, <2>6, <2>7, <2>8, <2>9, <3>1, <3>2, ReplyFlow
  <2>10. CASE w = write(opened, s, request, TRUE)
    <3>1. Kept(opened, w, ServerKinds)
      BY <1>0, <2>5, <2>10, WriteServerKept
    <3> QED
      BY <2>5, <2>7, <2>8, <3>1, ServerFlow
  <2> QED
    BY <2>1, <2>2, <2>3, <2>9, <2>10
<1> QED
  BY <1>4, <1>5

-----------------------------------------------------------------------------
(* The client connection.                                                   *)
\* It reads on, or again after a request has been dealt with.
LEMMA ReadNextFlow ==
  ASSUME NEW m, Good(m), NoStep(m), NEW W, NEW L, Pausing(m, W, L),
         m.conn[Client].message = << >> \/ Older(Emitted(m, W), Current(L))
  PROVE  Flow(read(m, Client), W, L)
<1>0. Client \in 0..m.ctx.server
  BY ClientExistsGood
<1>1. CASE ~(m.conn[Client].connected /\ ~m.conn[Client].stopped)
  <2>1. read(m, Client) = Abort(m, "read_assert")
    BY <1>1 DEF read
  <2> QED
    BY <2>1, AbortKept, RestFlow DEF Faults
<1>2. CASE m.conn[Client].connected /\ ~m.conn[Client].stopped
  <2> DEFINE w == Begin(m, "read", Client, << >>)
  <2>0. read(m, Client) = w
    BY <1>2 DEF read
  <2>1. w.queue = m.queue /\ w.conn = m.conn
    BY LengthType, BeginFields
  <2>2. Kept(m, w, ClientKinds)
    <3>1. <<"read", Client>> \in ClientKinds
      BY DEF ClientKinds, Going
    <3> QED
      BY <1>0, <2>0, <3>1, ReadKept
  <2> HIDE DEF w
  <2>3. ASSUME NEW fn, NEW d, Doing(w, fn, Client, d) PROVE d = << >>
    <3>1. ~Doing(m, fn, Client, d)
      BY NoStepDoing
    <3> QED
      BY <2>1, <2>3, <3>1 DEF Doing
  <2>4. m.conn[Client].message = << >> =>
          \A fn, d : Doing(w, fn, Client, d) => w.conn[Client].message \o d = << >>
    BY <2>1, <2>3
  <2>5. Flow(w, W, L)
    BY <2>2, <2>4, ClientFlow
  <2> QED
    BY <2>0, <2>5
<1> QED
  BY <1>1, <1>2

LEMMA ClientOnReadFlow ==
  ASSUME NEW m, Good(m), NoStep(m), NEW W, NEW L, Pausing(m, W, L),
         NEW data \in Seq(Unit),
         m.conn[Client].message \o data # << >> => Older(Emitted(m, W), Current(L)),
         NEW res, NEW w, w = client_on_read(m, res, data)
  PROVE  Flow(w, W, L)
<1> DEFINE y == Decoded(m, Client, data)
<1>0. Client \in 0..m.ctx.server /\ Client \in Conns /\ m \in Worlds
  BY ClientExistsGood, LengthType
<1>c. w = IF m.conn[Client].stopped THEN m
          ELSE IF res # "ok" \/ Completed(m, Client) THEN stop(m, Client, TRUE)
          ELSE IF ~Completed(y, Client) THEN read(y, Client)
          ELSE timer_start(Post(y, Task("READ", Client)), Client)
  BY DEF client_on_read, Decoded
<1>1. Flow(m, W, L)
  BY RestingFlow
<1>2. Flow(stop(m, Client, TRUE), W, L)
  BY <1>0, StopStill, StillKept, RestFlow
<1>3. PICK v, r : Decodes(m, Client, data, v, r)
  BY <1>0, DecodedParts
<1>4. /\ r \in Connections /\ r.stopped = v.conn[Client].stopped /\ r.connected = v.conn[Client].connected
      /\ r.encoded = v.conn[Client].encoded /\ r.out = v.conn[Client].out
      /\ r.writing = v.conn[Client].writing
      /\ r.message = m.conn[Client].message \o data
      /\ y = With(v, Client, r) /\ Still(m, v)
  BY <1>3 DEF Decodes
<1>5. Good(v) /\ NoStep(v) /\ v.ctx = m.ctx /\ v \in Worlds
  BY <1>4, StillApart, ApartSound, LengthType DEF Still
<1> HIDE DEF y
<1>6. /\ y.queue = v.queue /\ y.pending = v.pending /\ y.ctx = v.ctx /\ y.conn[Client] = r
      /\ Same(v, y)
  BY <1>0, <1>4, <1>5, SetFields
<1>7. Good(y) /\ NoStep(y)
  <2>1. Good(y)
    BY <1>0, <1>4, <1>5, WithGood DEF Quiet
  <2> QED
    BY <1>5, <1>6, <2>1 DEF NoStep, Same
<1>8. Kept(m, y, {})
  <2>1. Kept(v, y, {})
    BY <1>4, <1>5, <1>6, <1>7, SameKept
  <2>2. Kept(m, v, {})
    BY <1>4, StillKept
  <2> QED
    BY <2>1, <2>2, KeptTrans
<1>9. Pausing(y, W, L)
  BY <1>8, KeptPausing
<1>10. r.message # << >> => Older(Emitted(y, W), Current(L))
  <2>1. Keeping(m, y, W, L)
    BY <1>8, KeptKeeping
  <2> QED
    BY <1>4, <2>1, OlderSubset DEF Keeping
<1>11. Flow(read(y, Client), W, L)
  BY <1>6, <1>7, <1>9, <1>10, ReadNextFlow
<1>12. ASSUME Completed(y, Client) PROVE Flow(timer_start(Post(y, Task("READ", Client)), Client), W, L)
  <2> DEFINE z == Post(y, Task("READ", Client))
  <2>1. Client \in 0..y.ctx.server /\ "READ" \in Tasks /\ <<"READ", Client>> \in ClientKinds
    BY <1>0, <1>5, <1>6 DEF Tasks, Events, ClientKinds, Going
  <2>2. Kept(y, z, ClientKinds) /\ Good(z)
    BY <1>7, <2>1, PostKept DEF Kept
  <2>3. z.ctx = y.ctx
    BY <1>7, LengthType, PostFields
  <2> HIDE DEF z
  <2>4. Kept(z, timer_start(z, Client), ClientKinds)
    BY <2>1, <2>2, <2>3, TimerStartStill, StillKept
  <2>5. Kept(y, timer_start(z, Client), ClientKinds)
    BY <1>7, <2>2, <2>4, KeptTrans
  <2>6. r.message # << >>
    <3>1. Len(r.message) = ReqLen /\ ReqLen # 0
      BY <1>6, <1>12 DEF Completed, InLen
    <3> QED
      BY <3>1
  <2>7. Flow(timer_start(z, Client), W, L)
    BY <1>7, <1>9, <1>10, <2>5, <2>6, ClientFlow
  <2> QED
    BY <2>7 DEF z
<1> QED
  BY <1>1, <1>2, <1>11, <1>12, <1>c

LEMMA ClientOnHandshakeFlow ==
  ASSUME NEW m, Good(m), NoStep(m), NEW W, NEW L, Pausing(m, W, L), NEW res
  PROVE  Flow(client_on_handshake(m, res), W, L)
<1> DEFINE r == [m.conn[Client] EXCEPT !.message = << >>, !.encoded = 0]
           v == With(m, Client, r)
           h == Task("HANDSHAKE", Client)
           w == Post(v, h)
<1>0. Client \in 0..m.ctx.server /\ Client \in Conns /\ m.conn[Client] \in Connections /\ m \in Worlds
  BY ClientExistsGood, ConnType, LengthType
<1>e. << >> \in Seq(Unit)
  OBVIOUS
<1>1. /\ r \in Connections /\ r.stopped = m.conn[Client].stopped
      /\ r.connected = m.conn[Client].connected /\ r.out = m.conn[Client].out
      /\ r.writing = m.conn[Client].writing
  BY <1>0, <1>e DEF Connections
<1>2. [m EXCEPT !.conn[Client].message = << >>, !.conn[Client].encoded = 0] = v
  BY <1>0 DEF With, Worlds, Connections
<1>c. client_on_handshake(m, res) =
        IF m.conn[Client].stopped THEN m
        ELSE IF res # "ok" THEN stop(m, Client, TRUE)
        ELSE w
  BY <1>2 DEF client_on_handshake
<1> HIDE DEF r
<1>3. /\ v.queue = m.queue /\ v.pending = m.pending /\ v.ctx = m.ctx /\ v.conn[Client] = r
      /\ Same(m, v)
  BY <1>0, SetFields
<1>4. Good(v)
  BY <1>0, <1>1, WithGood DEF Quiet
<1> HIDE DEF v
<1>5. NoStep(v) /\ Client \in 0..v.ctx.server
  BY <1>0, <1>3 DEF NoStep, Same
<1>6. Pausing(v, W, L)
  <2>1. (Stream(m, W) => Stream(v, W)) /\ Emitted(v, W) = Emitted(m, W)
    BY <1>1, <1>3, SameStream
  <2> QED
    BY <2>1 DEF Pausing
<1>7. "HANDSHAKE" \in Tasks /\ <<"HANDSHAKE", Client>> \in ClientKinds
  BY DEF Tasks, Events, ClientKinds, Going
<1>8. Kept(v, w, ClientKinds)
  BY <1>4, <1>5, <1>7, PostKept
<1>9. ASSUME NEW fn, NEW d, fn \in {"read", "READ"}, Doing(w, fn, Client, d) PROVE FALSE
  <2>1. w.pending = v.pending /\ w.queue = Append(v.queue, h)
    BY <1>4, LengthType, PostFields
  <2>2. h \in Handlers /\ h.fn = "HANDSHAKE"
    BY <1>0, <1>7, TaskType, ServerType DEF Task
  <2> HIDE DEF h, w
  <2>3. Doing(v, fn, Client, d)
    BY <1>4, <1>9, <2>1, <2>2, PostDoing
  <2> QED
    BY <1>5, <2>3, NoStepDoing
<1> HIDE DEF w
<1>10. Flow(w, W, L)
  BY <1>4, <1>5, <1>6, <1>8, <1>9, ClientFlow
<1>11. Flow(m, W, L) /\ Flow(stop(m, Client, TRUE), W, L)
  BY <1>0, RestingFlow, StopStill, StillKept, RestFlow
<1> QED
  BY <1>10, <1>11, <1>c

LEMMA OnClientSecuredFlow ==
  ASSUME NEW m, Good(m), NoStep(m), NEW W, NEW L, Pausing(m, W, L),
         NEW d, StepOk(m.conn[Client], W, L, "HANDSHAKE", Client, d)
  PROVE  Flow(on_client_secured(m), W, L)
<1> DEFINE k == [m.ctx EXCEPT !.ssl_setup = TRUE]
           v == [m EXCEPT !.ctx = k]
<1>1. on_client_secured(m) = read(v, Client)
  BY DEF on_client_secured
<1>2. k \in Contexts /\ k.server = m.ctx.server
  BY ContextType DEF Contexts
<1> HIDE DEF k
<1>e. v = [m EXCEPT !.ctx = k]
  OBVIOUS
<1>3. Apart(m, v) /\ Good(v) /\ v.conn = m.conn
  BY <1>2, ContextApart
<1> HIDE DEF v
<1>4. NoStep(v) /\ v.conn[Client].message = << >>
  BY <1>3, ApartSound DEF StepOk
<1>5. Kept(m, v, {})
  BY <1>3, <1>e, ContextKept
<1>6. Pausing(v, W, L)
  BY <1>5, KeptPausing
<1> QED
  BY <1>1, <1>3, <1>4, <1>6, ReadNextFlow

LEMMA ClientHandshakeFlow ==
  ASSUME NEW m, Good(m), NoStep(m), NEW W, NEW L, Pausing(m, W, L),
         NEW certified, NEW w, w = client_handshake(m, certified)
  PROVE  Flow(w, W, L)
<1> DEFINE r == [m.conn[Client] EXCEPT !.use_ssl = TRUE]
           v == With(m, Client, r)
           x == Begin(v, "handshake", Client, << >>)
<1>0. Client \in 0..m.ctx.server /\ Client \in Conns /\ m \in Worlds /\ m.conn[Client] \in Connections
  BY ClientExistsGood, ConnType, LengthType
<1>c. w \in {Abort(m, "ssl_twice"), Abort(m, "no_certificate"), x}
  BY DEF client_handshake, switch_to_ssl, With
<1>1. Flow(Abort(m, "ssl_twice"), W, L) /\ Flow(Abort(m, "no_certificate"), W, L)
  BY AbortKept, RestFlow DEF Faults
<1>2. /\ r \in Connections /\ r.stopped = m.conn[Client].stopped
      /\ r.connected = m.conn[Client].connected /\ r.out = m.conn[Client].out
      /\ r.writing = m.conn[Client].writing /\ r.encoded = m.conn[Client].encoded
  BY <1>0 DEF Connections
<1> HIDE DEF r
<1>3. /\ v.queue = m.queue /\ v.pending = m.pending /\ v.ctx = m.ctx /\ v.conn[Client] = r
      /\ Same(m, v)
  BY <1>0, SetFields
<1>4. Good(v)
  BY <1>0, <1>2, WithGood DEF Quiet
<1> HIDE DEF v
<1>5. NoStep(v) /\ Client \in 0..v.ctx.server
  BY <1>0, <1>3 DEF NoStep, Same
<1>6. Pausing(v, W, L)
  <2>1. Kept(m, v, {})
    BY <1>2, <1>3, <1>4, SameKept
  <2> QED
    BY <2>1, KeptPausing
<1>e. << >> \in Seq(Unit) /\ "handshake" \in Operations
  BY DEF Operations
<1>7. Kept(v, x, ClientKinds)
  <2>1. <<"handshake", Client>> \in ClientKinds
    BY DEF ClientKinds, Going
  <2>2. ~("handshake" = "write" /\ Client = Client)
    OBVIOUS
  <2> QED
    BY <1>4, <1>5, <1>e, <2>1, <2>2, BeginKept
<1>8. ASSUME NEW fn, NEW d, fn \in {"read", "READ"}, Doing(x, fn, Client, d) PROVE FALSE
  <2>1. /\ x.queue = v.queue
        /\ x.pending = v.pending \cup {[op |-> "handshake", conn |-> Client, data |-> << >>]}
    BY <1>4, LengthType, BeginFields
  <2> HIDE DEF x
  <2>2. Doing(v, fn, Client, d)
    BY <1>8, <2>1 DEF Doing
  <2> QED
    BY <1>5, <2>2, NoStepDoing
<1> HIDE DEF x
<1>9. Flow(x, W, L)
  BY <1>4, <1>5, <1>6, <1>7, <1>8, ClientFlow
<1> QED
  BY <1>c, <1>1, <1>9

\* reset() drops what was buffered for the client.
LEMMA BlankStream ==
  ASSUME NEW m, NEW w, w.queue = m.queue, w.pending = m.pending, Out(w) = << >>,
         w.conn[Client].stopped = m.conn[Client].stopped,
         w.conn[Client].connected = m.conn[Client].connected, NEW W, Stream(m, W)
  PROVE  Stream(w, W) /\ Emitted(w, W) \subseteq Emitted(m, W)
<1>1. Len(<< >>) = 0
  OBVIOUS
<1>2. \A i \in 1..Len(Out(w)) : FALSE
  BY <1>1
<1>3. Buffered(Out(w)) = {} /\ Ascending(Out(w))
  BY <1>2 DEF Buffered, Ascending
<1>4. Lined(w)
  BY DEF Stream, Lined
<1>5. Follow(w, W)
  BY <1>3 DEF Follow, Fronted, Precede
<1> QED
  BY <1>3, <1>4, <1>5 DEF Stream, Emitted

LEMMA ClientResetFlow ==
  ASSUME NEW m, Good(m), NoStep(m), NEW W, NEW L, Pausing(m, W, L),
         NEW w, w = Unexchanged(client_reset(m))
  PROVE  Flow(w, W, L)
<1> DEFINE r == Blank(m.conn[Client])
           v == With(m, Client, r)
           x == timer_start(v, Client)
           k == [x.ctx EXCEPT !.exchanged = FALSE]
           z == [x EXCEPT !.ctx = k]
<1>0. Client \in 0..m.ctx.server /\ Client \in Conns /\ m \in Worlds /\ m.conn[Client] \in Connections
  BY ClientExistsGood, ConnType, LengthType
<1>1. client_reset(m) = read(x, Client)
  BY <1>0, ResetWith DEF client_reset
<1>2. /\ r \in Connections /\ r.stopped = m.conn[Client].stopped
      /\ r.connected = m.conn[Client].connected
  BY <1>0, BlankFields
<1>3. r.message = << >> /\ r.out = << >>
  BY <1>0 DEF Blank, Connections
<1> HIDE DEF r
<1>4. /\ v.queue = m.queue /\ v.pending = m.pending /\ v.ctx = m.ctx /\ v.conn[Client] = r
      /\ Same(m, v)
  BY <1>0, SetFields
<1>5. Good(v)
  BY <1>0, <1>2, WithGood DEF Quiet
<1> HIDE DEF v
<1>6. NoStep(v) /\ Client \in 0..v.ctx.server
  BY <1>0, <1>4 DEF NoStep, Same
<1>7. Pausing(v, W, L)
  <2>1. Stream(v, W) /\ Emitted(v, W) \subseteq Emitted(m, W)
    BY <1>2, <1>3, <1>4, BlankStream DEF Pausing, Out
  <2> QED
    BY <2>1, OlderSubset DEF Pausing
<1>s. Still(v, x)
  BY <1>5, <1>6, TimerStartStill
<1>10. Unexchanged(x) = z
  BY DEF Unexchanged
<1> HIDE DEF x
<1>8. Still(v, x) /\ Good(x) /\ NoStep(x)
  BY <1>6, <1>s, StillApart, ApartSound DEF Still
<1>9. Unexchanged(read(x, Client)) = read(Unexchanged(x), Client)
  BY <1>8, LengthType, UnexchangedRead
<1>11. k \in Contexts /\ k.server = x.ctx.server
  BY <1>8, ContextType DEF Contexts
<1> HIDE DEF k
<1>e. z = [x EXCEPT !.ctx = k]
  OBVIOUS
<1>12. Apart(x, z) /\ Good(z) /\ z.conn = x.conn
  BY <1>8, <1>11, ContextApart
<1> HIDE DEF z
<1>13. NoStep(z) /\ z.conn[Client].message = << >>
  BY <1>0, <1>3, <1>4, <1>8, <1>12, ApartSound DEF Still, StillConn
<1>14. Pausing(z, W, L)
  <2>1. Kept(v, x, {}) /\ Kept(x, z, {})
    BY <1>8, <1>12, <1>e, StillKept, ContextKept
  <2> QED
    BY <1>5, <1>7, <1>8, <2>1, KeptPausing
<1>15. w = read(z, Client)
  BY <1>1, <1>9, <1>10
<1> QED
  BY <1>12, <1>13, <1>14, <1>15, ReadNextFlow

LEMMA OnClientWrittenFlow ==
  ASSUME NEW m, Good(m), Active(m), NEW W, NEW L, Flow(m, W, L), NEW keep_alive, NEW certified,
         NEW w, w = on_client_written(m, keep_alive, certified), w.fault = "none"
  PROVE  Flow(w, W, L)
<1>0. Client \in 0..m.ctx.server /\ m \in Worlds
  BY ClientExistsGood, LengthType
<1>p. Pausing(m, W, L)
  BY DEF Flow, Timely, Pausing
<1>1. CASE m.ctx.https /\ ~m.ctx.ssl_setup
  <2>1. w = client_handshake(m, certified)
    <3>1. w # Abort(m, "server_assert")
      BY <1>0, AbortFault
    <3> QED
      BY <1>1, <3>1 DEF on_client_written
  <2>2. ~m.conn[Client].use_ssl
    <3>1. w # Abort(m, "ssl_twice")
      BY <1>0, AbortFault
    <3> QED
      BY <2>1, <3>1 DEF client_handshake, switch_to_ssl
  <2>3. NoStep(m)
    BY <1>1, <2>2 DEF Active, Single, Replying
  <2> QED
    BY <1>p, <2>1, <2>3, ClientHandshakeFlow
<1>2. CASE ~(m.ctx.https /\ ~m.ctx.ssl_setup)
  <2>1. \/ w \in {m, stop(m, Client, FALSE)}
        \/ m.ctx.exchanged /\ w = Unexchanged(client_reset(m))
    BY <1>2 DEF on_client_written, Unexchanged
  <2>2. Flow(stop(m, Client, FALSE), W, L)
    <3>1. Still(m, stop(m, Client, FALSE))
      BY <1>0, StopStill
    <3> QED
      BY <3>1, StillApart, StillKept, ApartFlow
  <2>3. m.ctx.exchanged => NoStep(m)
    BY DEF Active, Single
  <2> QED
    BY <1>p, <2>1, <2>2, <2>3, ClientResetFlow
<1> QED
  BY <1>1, <1>2

-----------------------------------------------------------------------------
(* The handler at the head of the queue.                                    *)
PoppedFlowOk(W, L) ==
  LET h == Head(queue)
  IN  /\ Timely(Popped, W, L)
      /\ ~Arrived(h) => Stream(Popped, W)
      /\ Arrived(h) => Receipt(Popped, W, Data)
      /\ HandlerKind(h) \in ClientKinds => NoneArrived(Popped)
      /\ HandlerKind(h) \in ServerKinds => Serve(Popped, W, L)
      /\ h.fn \in {"read", "READ"} /\ Self = Client /\ Popped.conn[Client].message \o Data # << >>
           => Older(Emitted(Popped, W), Current(L))
LEMMA PoppedFlow ==
  ASSUME Good(World), queue # << >>, NEW W, NEW L, Flow(World, W, L)
  PROVE  PoppedFlowOk(W, L)
<1> DEFINE n == Len(queue)
           t == Tail(queue)
           h == Head(queue)
           k == HandlerKind(h)
           m == Popped
           w == World
<1>0. queue \in Seq(Handlers)
  BY WorldFields DEF Good, Worlds
<1>1. /\ n \in Nat /\ n > 0 /\ Len(t) = n - 1 /\ h = queue[1]
      /\ \A i \in 1..(n - 1) : t[i] = queue[i + 1]
  BY <1>0
<1>2. /\ m.queue = t /\ m.conn = conn /\ m.ctx = ctx /\ m.pending = pending
      /\ w.queue = queue /\ w.conn = conn /\ w.ctx = ctx /\ w.pending = pending
  BY PoppedFields, WorldFields
<1>3. Kinds(m) \subseteq Kinds(w) /\ k \in Kinds(w)
  BY PoppedKinds
<1>f. Self = h.conn /\ Data = h.data /\ k = <<h.fn, h.conn>>
  BY DEF Self, Data, HandlerKind
<1> HIDE DEF t, h, k, m, w
<1>4. \A i \in 1..Len(m.queue) : i + 1 \in 1..n /\ m.queue[i] = w.queue[i + 1]
  BY <1>1, <1>2
<1>n. n = Len(w.queue) /\ 1 \in 1..n
  BY <1>1, <1>2
<1> HIDE DEF n
<1>5. \A fn, c, d : Doing(m, fn, c, d) => Doing(w, fn, c, d)
  BY <1>2, <1>4, <1>n DEF Doing
<1>6. Out(m) = Out(w) /\ Emitted(m, W) = Emitted(w, W)
  BY <1>2 DEF Out, Emitted
<1>7. NoneArrived(w) => NoneArrived(m)
  BY <1>4, <1>n DEF NoneArrived
<1>8. ~Arrived(h) /\ NoneArrived(m) => NoneArrived(w)
  <2> SUFFICES ASSUME ~Arrived(h), NoneArrived(m), NEW i \in 1..n PROVE ~Arrived(w.queue[i])
    BY <1>n DEF NoneArrived
  <2>1. CASE i = 1
    BY <1>1, <1>2, <2>1
  <2>2. CASE i # 1
    <3>1. i - 1 \in 1..(n - 1) /\ (i - 1) + 1 = i /\ Len(m.queue) = n - 1
      BY <1>1, <1>2, <2>2
    <3>2. m.queue[i - 1] = w.queue[i]
      BY <1>4, <3>1
    <3> QED
      BY <3>1, <3>2 DEF NoneArrived
  <2> QED
    BY <2>1, <2>2
<1>9. Clear(w) => Clear(m)
  BY <1>2, <1>6, <1>7 DEF Clear
<1>10. Upto(w, W, L) => Upto(m, W, L)
  BY <1>2, <1>6 DEF Upto
<1>11. Timely(w, W, L) /\ Stream(w, W)
  BY DEF Flow, w
<1>12. Timely(m, W, L)
  BY <1>2, <1>3, <1>5, <1>6, <1>9, <1>10, <1>11 DEF Timely
<1>13. Lined(m)
  <2>1. ASSUME NEW i \in 1..Len(m.queue), NEW j \in 1..Len(m.queue) 
        PROVE  /\ Arrived(m.queue[i]) /\ Arrived(m.queue[j]) => i = j
               /\ Arrived(m.queue[i]) /\ HandlerKind(m.queue[j]) \in ClientKinds => i < j
    <3>1. /\ i + 1 \in 1..Len(w.queue) /\ m.queue[i] = w.queue[i + 1]
          /\ j + 1 \in 1..Len(w.queue) /\ m.queue[j] = w.queue[j + 1]
      BY <1>4, <1>n, <2>1
    <3>2. Lined(w)
      BY <1>11 DEF Stream
    <3>3. /\ Arrived(m.queue[i]) /\ Arrived(m.queue[j]) => i + 1 = j + 1
          /\ Arrived(m.queue[i]) /\ HandlerKind(m.queue[j]) \in ClientKinds => i + 1 < j + 1
      BY <3>1, <3>2 DEF Lined
    <3> QED
      BY <2>1, <3>3
  <2>2. \A p \in m.pending : ClientWrite(p) => m.conn[Client].connected /\ p.data # << >>
    BY <1>2, <1>11 DEF Lined, Stream
  <2> QED
    BY <2>1, <2>2 DEF Lined
<1>14. Increasing(W[Client]) /\ Ascending(Out(m))
  BY <1>6, <1>11 DEF Stream
<1>15. ASSUME ~Arrived(h), Follow(w, W) PROVE Follow(m, W)
  <2>1. NoneArrived(m) <=> NoneArrived(w)
    BY <1>7, <1>8, <1>15
  <2>2. \A i \in 1..Len(m.queue) : Arrived(m.queue[i]) /\ Out(m) # << >> =>
       /\ m.conn[Client].writing
       /\ Precede(UnitsIn(W[Client]), Buffered(unsent(Out(m), Len(m.queue[i].data))))
    <3> SUFFICES ASSUME NEW i \in 1..Len(m.queue), Arrived(m.queue[i]), Out(m) # << >>
                 PROVE  /\ m.conn[Client].writing
                        /\ Precede(UnitsIn(W[Client]), Buffered(unsent(Out(m), Len(m.queue[i].data))))
      OBVIOUS
    <3>1. i + 1 \in 1..Len(w.queue) /\ m.queue[i] = w.queue[i + 1]
      BY <1>4, <1>n
    <3> QED
      BY <1>2, <1>6, <1>15, <3>1 DEF Follow
  <2>3. \A p \in m.pending : ClientWrite(p) => Fronted(m, p)
    BY <1>2, <1>6, <1>15, <2>1 DEF Follow, Fronted
  <2> QED
    BY <1>6, <1>15, <2>1, <2>2, <2>3 DEF Follow
<1>16. ~Arrived(h) => Stream(m, W)
  BY <1>2, <1>11, <1>13, <1>14, <1>15 DEF Stream
<1>17. ASSUME Arrived(h) PROVE Receipt(m, W, h.data)
  <2>1. h = w.queue[1] /\ 1 \in 1..Len(w.queue)
    BY <1>1, <1>2, <1>n
  <2>2. NoneArrived(m)
    <3> SUFFICES ASSUME NEW i \in 1..Len(m.queue), Arrived(m.queue[i]) PROVE FALSE
      BY DEF NoneArrived
    <3>1. i + 1 \in 1..Len(w.queue) /\ m.queue[i] = w.queue[i + 1]
      BY <1>4, <1>n
    <3>2. i + 1 = 1
      BY <1>11, <1>17, <2>1, <3>1 DEF Stream, Lined
    <3> QED
      BY <3>2
  <2>3. ~NoneArrived(w)
    BY <1>17, <2>1 DEF NoneArrived
  <2>4. ASSUME ~m.conn[Client].stopped
        PROVE  /\ Out(m) # << >> => Precede(UnitsIn(W[Client]), Buffered(unsent(Out(m), Len(h.data))))
               /\ \A p \in m.pending : ClientWrite(p) => Precede(UnitsIn(p.data), Buffered(Out(m)))
    <3>1. Follow(w, W)
      BY <1>2, <1>11, <2>4 DEF Stream
    <3> QED
      BY <1>2, <1>6, <1>17, <2>1, <2>3, <3>1 DEF Follow, Fronted
  <2> QED
    BY <1>13, <1>14, <2>2, <2>4 DEF Receipt
<1>18. ASSUME k \in ClientKinds PROVE NoneArrived(m)
  <2> SUFFICES ASSUME NEW i \in 1..Len(m.queue), Arrived(m.queue[i]) PROVE FALSE
    BY DEF NoneArrived
  <2>1. i + 1 \in 1..Len(w.queue) /\ m.queue[i] = w.queue[i + 1] /\ i \in Nat
    BY <1>4, <1>n
  <2>2. HandlerKind(w.queue[1]) \in ClientKinds /\ 1 \in 1..Len(w.queue)
    BY <1>1, <1>2, <1>n, <1>18 DEF k
  <2>3. i + 1 < 1
    BY <1>11, <2>1, <2>2 DEF Stream, Lined
  <2> QED
    BY <2>1, <2>3
<1>19. ASSUME k \in ServerKinds PROVE Serve(m, W, L)
  <2>1. ~Arrived(h)
    <3>1. <<"write", Client>> \notin StepKinds
      BY DEF StepKinds, Going
    <3> QED
      BY <1>f, <1>19, <3>1 DEF Arrived, ServerKinds
  <2>2. Upto(w, W, L) /\ Clear(w)
    BY <1>3, <1>11, <1>19 DEF Timely
  <2> QED
    BY <1>9, <1>10, <1>12, <1>16, <2>1, <2>2 DEF Serve, Pausing, Timely
<1>20. ASSUME h.fn \in {"read", "READ"}, Self = Client, m.conn[Client].message \o Data # << >>
       PROVE  Older(Emitted(m, W), Current(L))
  <2>1. h = w.queue[1] /\ 1 \in 1..Len(w.queue)
    BY <1>1, <1>2, <1>n
  <2>2. <<h.fn, Client>> \in StepKinds
    BY <1>20, ClientIn DEF StepKinds, Going
  <2>3. Doing(w, h.fn, Client, Data)
    BY <1>f, <1>20, <2>1, <2>2 DEF Doing
  <2>4. Older(Emitted(w, W), Current(L))
    BY <1>2, <1>11, <1>20, <2>3 DEF Timely
  <2> QED
    BY <1>6, <2>4
<1>21. Arrived(h) => Receipt(m, W, Data)
  BY <1>f, <1>17
<1> QED
  BY <1>12, <1>16, <1>18, <1>19, <1>20, <1>21 DEF PoppedFlowOk, h, k, m

LEMMA BecomeFlow ==
  ASSUME Good(World), Good(World)', Flow(World, wire, last), UNCHANGED <<wire, last>>,
         NEW m, Good(m), m.fault = "none" => Flow(m, wire, last), Become(m)
  PROVE  Flow(World, wire, last)'
<1>0. wire' = wire /\ last' = last
  OBVIOUS
<1>1. CASE m.fault = "none"
  <2>1. World' = m
    BY <1>1 DEF Become, World, Good, Worlds
  <2>2. Flow(World', wire', last') <=> Flow(m, wire, last)
    BY <1>0, <2>1
  <2> QED
    BY <1>1, <2>2
<1>2. CASE m.fault # "none"
  <2> DEFINE w == World'
  <2>1. w.queue = queue /\ w.pending = pending /\ w.conn = conn /\ w.ctx = ctx
    BY <1>2 DEF Become, World
  <2>2. Good(w)
    OBVIOUS
  <2> HIDE DEF w
  <2>3. Apart(World, w)
    BY <2>1, <2>2, WorldFields, SameApart
  <2>4. Kept(World, w, {})
    BY <2>1, <2>2, WorldFields, SameKept
  <2>5. Flow(w, wire, last)
    BY <2>3, <2>4, ApartFlow
  <2>6. Flow(w, wire, last) <=> Flow(World', wire', last')
    BY <1>0 DEF w
  <2> QED
    BY <2>5, <2>6
<1> QED
  BY <1>1, <1>2

LEMMA HandleEventFlow ==
  ASSUME Good(World), Good(World)', Flow(World, wire, last),
         NEW m, Good(m), m.fault = "none" => Flow(m, wire, last), HandleEvent(m)
  PROVE  Flow(World, wire, last)'
<1>1. Good(Abort(World, "freed_this"))
  BY AbortQuiet DEF Faults, Quiet
<1>2. Abort(World, "freed_this").fault # "none"
  BY LengthType, AbortFault
<1>3. UNCHANGED <<wire, last>>
  BY DEF HandleEvent, Handle
<1> QED
  BY <1>1, <1>2, <1>3, BecomeFlow DEF HandleEvent, Handle

LEMMA RunHandlerFlow ==
  ASSUME CInv, CInv', Sound(World, wire, last), Flow(World, wire, last), RunHandler
  PROVE  Flow(World, wire, last)'
<1>0. queue # << >>
  BY DEF RunHandler, OnTimer, OnWrite, OnResolve, OnConnect, ClientOnRead, ClientOnHandshake,
         ServerOnRead, ServerOnHandshake, ClientRead, ServerRead, ClientWritten, ClientSecured,
         ServerConnected, ServerSecured, OnStop, StopAll, Running
<1>g. /\ Good(World) /\ Active(World) /\ AInv /\ Chained(World) /\ Good(World)'
      /\ last \in [Conns -> Unit]
  BY DEF CInv, AInv, IInv
<1>w. wire[Client] \in Seq(Unit)
  BY ClientIn DEF CInv, AInv, IInv
<1> DEFINE h == Head(queue)
           k == HandlerKind(h)
           fn == h.fn
<1>k. k = <<fn, Self>> /\ (Arrived(h) <=> fn = "write" /\ Self = Client /\ Result = "ok")
  BY DEF HandlerKind, Self, Result, Arrived
<1>1. /\ Good(Popped) /\ Popped.ctx = ctx /\ Popped.managed = managed
      /\ Self \in 0..Popped.ctx.server /\ Self \in Conns
      /\ Data \in Seq(Unit)
  BY <1>0, <1>g, PoppedGood
<1>p. PoppedOk(wire, last) /\ PoppedFlowOk(wire, last)
  BY <1>0, <1>g, PoppedSound, PoppedFlow
<1>b. /\ Base(Popped, wire, last)
      /\ k \in StepKinds => StepOk(Popped.conn[Self], wire, last, fn, Self, Data)
  BY <1>p DEF PoppedOk
<1>f. /\ Timely(Popped, wire, last)
      /\ ~Arrived(h) => Stream(Popped, wire)
      /\ Arrived(h) => Receipt(Popped, wire, Data)
      /\ k \in ClientKinds => NoneArrived(Popped)
      /\ k \in ServerKinds => Serve(Popped, wire, last)
      /\ fn \in {"read", "READ"} /\ Self = Client /\ Popped.conn[Client].message \o Data # << >>
           => Older(Emitted(Popped, wire), Current(last))
  BY <1>p DEF PoppedFlowOk
<1> HIDE DEF k, h
<1>a. fn # "wait" => Active(Popped)
  BY <1>0, <1>g, PoppedTimed, PoppedRest, PoppedSingle DEF Active, h
<1>s. ASSUME Self # Client, NEW f \in Steps(Self), fn = f
      PROVE  /\ Self \in Servers /\ Self = Popped.ctx.server
             /\ NoStep(Popped) /\ Always(Popped) /\ Serve(Popped, wire, last)
             /\ StepOk(Popped.conn[Self], wire, last, f, Self, Data)
             /\ Popped.conn[Client].encoded <= Len(Popped.conn[Self].message)
  <2>1. /\ Self \in Servers /\ Self = Popped.ctx.server /\ Standing(Popped)
        /\ Ready(Popped, f, Self)
    BY <1>0, <1>g, <1>s, PoppedServer DEF h
  <2>2. <<f, Self>> \in StepKinds
    BY <1>s, <1>1, ServerStep
  <2>3. k = <<f, Self>> /\ k \in ServerKinds
    BY <1>k, <1>s, <2>2 DEF ServerKinds, ClientKinds
  <2> QED
    BY <1>b, <1>f, <1>s, <2>1, <2>2, <2>3 DEF Standing, Idle, Ready
<1>v. ASSUME Self # Client, fn \in Steps(Self), NEW w, Kept(Popped, w, ServerKinds)
      PROVE  Flow(w, wire, last)
  BY <1>1, <1>s, <1>v, ServerFlow
<1>c. ASSUME Self = Client, NEW f \in Going, fn = f
      PROVE  /\ NoStep(Popped) /\ Always(Popped) /\ Pausing(Popped, wire, last)
             /\ NoneArrived(Popped)
             /\ StepOk(Popped.conn[Client], wire, last, f, Client, Data)
             /\ Ready(Popped, f, Client)
  <2>1. Standing(Popped) /\ Ready(Popped, f, Client)
    BY <1>0, <1>g, <1>c, PoppedClient DEF h
  <2>2. k \in ClientKinds /\ k \in StepKinds /\ f # "write"
    BY <1>k, <1>c, KindsSplit DEF ClientKinds, Going
  <2> QED
    BY <1>b, <1>c, <1>f, <1>k, <2>1, <2>2 DEF Standing, Idle, Pausing, Timely
<1>r. ~Arrived(h) => Flow(Popped, wire, last)
  BY <1>f DEF Flow
<1>2. CASE OnTimer
  <2>1. fn = "wait" /\ Become(on_timer(Popped, Self, Result)) /\ UNCHANGED <<wire, last>>
    BY <1>2 DEF OnTimer, Running, Handle, h
  <2>2. Flow(on_timer(Popped, Self, Result), wire, last)
    BY <1>1, <1>k, <1>r, <2>1, OnTimerFlow
  <2> QED
    BY <1>g, <1>1, <2>1, <2>2, OnTimerGood, BecomeFlow
<1>3. CASE OnWrite
  <2> DEFINE w == on_write(Popped, Self, Result, Data)
  <2>0. fn = "write" /\ Become(w) /\ UNCHANGED <<wire, last>>
    BY <1>3 DEF OnWrite, Running, Handle, h
  <2>1. CASE Self = Client
    <3>1. Always(Popped)
      BY <1>a, <2>0 DEF Active
    <3>2. /\ Result = "ok" => Receipt(Popped, wire, Data)
          /\ Result # "ok" => Stream(Popped, wire)
      BY <1>f, <1>k, <2>0, <2>1
    <3>3. w.fault = "none" => Flow(w, wire, last)
      BY <1>1, <1>f, <2>1, <3>1, <3>2, OnWriteClientFlow
    <3> QED
      BY <1>g, <1>1, <2>0, <3>3, OnWriteGood, BecomeFlow
  <2>2. CASE Self # Client
    <3>1. fn \in Steps(Self)
      BY <2>0, <2>2 DEF Steps
    <3>2. Flow(w, wire, last)
      BY <1>1, <1>s, <1>v, <2>2, <3>1, OnWriteServerKept
    <3> QED
      BY <1>g, <1>1, <2>0, <3>2, OnWriteGood, BecomeFlow
  <2> QED
    BY <2>1, <2>2
<1>4. CASE OnResolve
  <2>0. /\ fn = "resolve" /\ Become(on_resolve(Popped, Self, Result)) /\ UNCHANGED <<wire, last>>
        /\ Self # Client
    BY <1>4, <1>c DEF OnResolve, Running, Handle, Going, Ready, h
  <2>1. fn \in Steps(Self)
    BY <2>0 DEF Steps, Going
  <2>2. Flow(on_resolve(Popped, Self, Result), wire, last)
    BY <1>1, <1>s, <1>v, <2>0, <2>1, OnResolveKept
  <2> QED
    BY <1>g, <1>1, <2>0, <2>2, OnResolveGood, BecomeFlow
<1>5. CASE OnConnect
  <2>0. /\ fn = "connect" /\ Become(on_connect(Popped, Self, Result)) /\ UNCHANGED <<wire, last>>
        /\ Self # Client
    BY <1>5, <1>c DEF OnConnect, Running, Handle, Going, Ready, h
  <2>1. fn \in Steps(Self)
    BY <2>0 DEF Steps, Going
  <2>2. Flow(on_connect(Popped, Self, Result), wire, last)
    BY <1>1, <1>s, <1>v, <2>0, <2>1, OnConnectKept
  <2> QED
    BY <1>g, <1>1, <2>0, <2>2, OnConnectGood, BecomeFlow
<1>6. CASE ClientOnRead
  <2> DEFINE w == client_on_read(Popped, Result, Data)
  <2>0. fn = "read" /\ Become(w) /\ UNCHANGED <<wire, last>> /\ Self = Client
    BY <1>6 DEF ClientOnRead, Running, Handle, h
  <2>1. NoStep(Popped) /\ Pausing(Popped, wire, last)
    BY <1>c, <2>0 DEF Going
  <2>2. Popped.conn[Client].message \o Data # << >> => Older(Emitted(Popped, wire), Current(last))
    BY <1>f, <2>0
  <2>3. Flow(w, wire, last)
    BY <1>1, <2>1, <2>2, ClientOnReadFlow
  <2> QED
    BY <1>g, <1>1, <2>0, <2>3, ClientOnReadGood, BecomeFlow
<1>7. CASE ClientOnHandshake
  <2> DEFINE w == client_on_handshake(Popped, Result)
  <2>0. fn = "handshake" /\ Become(w) /\ UNCHANGED <<wire, last>> /\ Self = Client
    BY <1>7 DEF ClientOnHandshake, Running, Handle, h
  <2>1. Flow(w, wire, last)
    BY <1>1, <1>c, <2>0, ClientOnHandshakeFlow DEF Going
  <2> QED
    BY <1>g, <1>1, <2>0, <2>1, ClientOnHandshakeGood, BecomeFlow
<1>8. CASE ServerOnRead
  <2> DEFINE w == server_on_read(Popped, Self, Result, Data)
  <2>0. fn = "read" /\ Become(w) /\ UNCHANGED <<wire, last>> /\ Self # Client
    BY <1>8 DEF ServerOnRead, Running, Handle, h
  <2>1. fn \in Steps(Self)
    BY <2>0 DEF Steps, Going
  <2>2. Flow(w, wire, last)
    BY <1>1, <1>s, <1>v, <2>0, <2>1, ServerOnReadKept
  <2> QED
    BY <1>g, <1>1, <2>0, <2>2, ServerOnReadGood, BecomeFlow
<1>9. CASE ServerOnHandshake
  <2> DEFINE w == server_on_handshake(Popped, Self, Result)
  <2>0. fn = "handshake" /\ Become(w) /\ UNCHANGED <<wire, last>> /\ Self # Client
    BY <1>9 DEF ServerOnHandshake, Running, Handle, h
  <2>1. fn \in Steps(Self)
    BY <2>0 DEF Steps, Going
  <2>2. Flow(w, wire, last)
    BY <1>1, <1>s, <1>v, <2>0, <2>1, ServerOnHandshakeKept
  <2> QED
    BY <1>g, <1>1, <2>0, <2>2, ServerOnHandshakeGood, BecomeFlow
<1>10. CASE ClientRead
  <2>0. fn = "READ" /\ Self = Client /\ (LockServer \/ ctx.server < MaxServers)
    BY <1>10 DEF ClientRead, Running, h
  <2>1. PICK connect \in {FALSE, Https}, destination \in Destinations :
          HandleEvent(on_client_message(Popped, connect, destination))
    BY <1>10 DEF ClientRead
  <2>2. connect \in BOOLEAN
    BY EnvironmentAssumption
  <2> DEFINE w == on_client_message(Popped, connect, destination)
  <2>3. Good(w)
    BY <1>1, <2>0, <2>2, OnClientMessageGood
  <2>4. /\ NoStep(Popped) /\ Always(Popped) /\ Pausing(Popped, wire, last) /\ NoneArrived(Popped)
        /\ StepOk(Popped.conn[Client], wire, last, "READ", Client, Data)
        /\ Popped.conn[Client].encoded = 0 /\ Completed(Popped, Client)
    BY <1>c, <2>0 DEF Going, Ready
  <2>5. Older(Emitted(Popped, wire), Current(last))
    <3> DEFINE msg == Popped.conn[Client].message
    <3>1. msg \in Seq(Unit)
      BY <1>1, ClientIn, MessageType
    <3>2. Len(msg) = ReqLen
      BY ClientIn, <2>4 DEF Completed, InLen
    <3>3. msg \o Data \in Seq(Unit) /\ Len(msg \o Data) = Len(msg) + Len(Data) /\ Len(Data) \in Nat
      BY <1>1, <3>1, ConcatProperties, LenProperties
    <3>4. msg \o Data # << >>
      BY <3>2, <3>3, EmptySeq
    <3> QED
      BY <1>f, <2>0, <3>4
  <2> HIDE DEF w
  <2>6. w.fault = "none" => Flow(w, wire, last)
    BY <1>1, <1>b, <1>g, <1>w, <2>0, <2>2, <2>4, <2>5, OnClientMessageFlow DEF w
  <2> QED
    BY <1>g, <2>1, <2>3, <2>6, HandleEventFlow DEF w
<1>11. CASE ServerRead
  <2>0. fn = "READ" /\ Self # Client
    BY <1>11 DEF ServerRead, Running, h
  <2>1. PICK keep_alive \in BOOLEAN : HandleEvent(on_server_message(Popped, Self, keep_alive))
    BY <1>11 DEF ServerRead
  <2> DEFINE w == on_server_message(Popped, Self, keep_alive)
  <2>2. w.fault = "none" => Flow(w, wire, last)
    BY <1>1, <1>b, <1>g, <1>s, <1>w, <2>0, OnServerMessageFlow DEF Steps, Going
  <2> QED
    BY <1>g, <1>1, <2>1, <2>2, OnServerMessageGood, HandleEventFlow
<1>12. CASE ClientWritten
  <2>0. fn = "WRITE"
    BY <1>12 DEF ClientWritten, Running, h
  <2>1. PICK keep_alive \in BOOLEAN, certified \in {TRUE, "cert" \notin Failures} :
          HandleEvent(on_client_written(Popped, keep_alive, certified))
    BY <1>12 DEF ClientWritten
  <2> DEFINE w == on_client_written(Popped, keep_alive, certified)
  <2>2. w.fault = "none" => Flow(w, wire, last)
    BY <1>1, <1>a, <1>k, <1>r, <2>0, OnClientWrittenFlow
  <2> QED
    BY <1>g, <1>1, <2>1, <2>2, OnClientWrittenGood, HandleEventFlow
<1>13. CASE ClientSecured
  <2> DEFINE w == on_client_secured(Popped)
  <2>0. fn = "HANDSHAKE" /\ HandleEvent(w) /\ Self = Client
    BY <1>13 DEF ClientSecured, Running, h
  <2>1. Flow(w, wire, last)
    BY <1>1, <1>c, <2>0, OnClientSecuredFlow DEF Going
  <2> QED
    BY <1>g, <1>1, <2>0, <2>1, OnClientSecuredGood, HandleEventFlow
<1>14. CASE ServerConnected
  <2> DEFINE w == on_server_connected(Popped, Self)
  <2>0. fn = "CONNECT" /\ HandleEvent(w) /\ Self # Client
    BY <1>14, <1>c DEF ServerConnected, Running, Going, Ready, h
  <2>1. fn \in Steps(Self)
    BY <2>0 DEF Steps, Going
  <2>2. Flow(w, wire, last)
    BY <1>1, <1>s, <1>v, <2>0, <2>1, OnServerConnectedKept
  <2> QED
    BY <1>g, <1>1, <2>0, <2>2, OnServerConnectedGood, HandleEventFlow
<1>15. CASE ServerSecured
  <2> DEFINE w == on_server_secured(Popped, Self)
  <2>0. fn = "HANDSHAKE" /\ HandleEvent(w) /\ Self # Client
    BY <1>15 DEF ServerSecured, Running, h
  <2>1. fn \in Steps(Self)
    BY <2>0 DEF Steps, Going
  <2>2. Flow(w, wire, last)
    BY <1>1, <1>s, <1>v, <2>0, <2>1, OnServerConnectedKept
  <2> QED
    BY <1>g, <1>1, <2>0, <2>2, OnServerConnectedGood, HandleEventFlow
<1>16. CASE OnStop
  <2>0. fn = "on_stop" /\ Become(on_stop(Popped, Self)) /\ UNCHANGED <<wire, last>>
    BY <1>16 DEF OnStop, Running, Handle, h
  <2>1. Flow(on_stop(Popped, Self), wire, last)
    BY <1>1, <1>k, <1>r, <2>0, OnStopFlow
  <2> QED
    BY <1>g, <1>1, <2>0, <2>1, OnStopGood, BecomeFlow
<1>17. CASE StopAll
  <2> DEFINE stopped == IF Client \in managed THEN stop(Popped, Client, FALSE) ELSE Popped
             all == IF ctx.server \in managed THEN stop(stopped, ctx.server, FALSE) ELSE stopped
             z == [all EXCEPT !.managed = {}]
  <2>0. fn = "stop_all" /\ Become(z) /\ UNCHANGED <<wire, last>>
    BY <1>17 DEF StopAll, Running, Handle, h
  <2>1. Good(z)
    BY <1>1, StopAllGood
  <2>2. /\ stopped = IF Client \in managed THEN stop(Popped, Client, FALSE) ELSE Popped
        /\ all = IF ctx.server \in managed THEN stop(stopped, ctx.server, FALSE) ELSE stopped
        /\ z = [all EXCEPT !.managed = {}]
    OBVIOUS
  <2>3. Flow(Popped, wire, last)
    BY <1>k, <1>r, <2>0
  <2> HIDE DEF z, all, stopped
  <2>4. Flow(z, wire, last)
    <3>1. Apart(Popped, z)
      BY <1>1, <2>1, <2>2, StopAllApart
    <3>2. Kept(Popped, z, {})
      BY <1>1, <2>1, <2>2, StopAllKept
    <3> QED
      BY <1>1, <2>3, <3>1, <3>2, ApartFlow
  <2> QED
    BY <1>g, <2>0, <2>1, <2>4, BecomeFlow
<1> QED
  BY <1>2, <1>3, <1>4, <1>5, <1>6, <1>7, <1>8, <1>9, <1>10, <1>11, <1>12, <1>13,
     <1>14, <1>15, <1>16, <1>17 DEF RunHandler

-----------------------------------------------------------------------------
(* The environment, and what it sends to the client.                        *)

\* Only what the client has received, and the request it is on, matter.
LEMMA PeerFlow ==
  ASSUME NEW m, NEW W, NEW L, Flow(m, W, L), NEW V, V[Client] = W[Client],
         NEW J, Current(J) = Current(L)
  PROVE  Flow(m, V, J)
<1>1. Emitted(m, V) = Emitted(m, W)
  BY DEF Emitted
<1>2. Stream(m, V)
  BY DEF Flow, Stream, Follow
<1>3. Upto(m, W, L) => Upto(m, V, J)
  BY <1>1 DEF Upto
<1>4. Timely(m, V, J)
  BY <1>1, <1>3 DEF Flow, Timely
<1> QED
  BY <1>2, <1>4 DEF Flow

\* A completion that is no write to the client.
LEMMA CompletesKept ==
  ASSUME CInv, Good(World)', NEW p \in pending, NEW res \in Results, NEW data \in Seq(Unit),
         Complete(p, res, data), ~(ClientWrite(p) /\ res = "ok"), NEW w, w = World'
  PROVE  Kept(World, w, {})
<1> DEFINE h == Completion(p.op, p.conn, res, data)
           n == Len(queue)
<1>0. /\ Good(World) /\ World.queue = queue /\ World.pending = pending /\ World.conn = conn
  BY WorldFields DEF CInv, AInv, IInv
<1>1. p \in PendingOps /\ queue \in Seq(Handlers) /\ n \in Nat
  BY <1>0 DEF Good, Worlds
<1>2. h \in Handlers /\ ~Arrived(h)
  BY <1>1 DEF PendingOps, Handlers, Completion, Arrived, ClientWrite
<1>3. /\ w.queue = Append(queue, h) /\ w.pending = pending \ {p} /\ w.conn = conn
  BY DEF Complete, World
<1>4. Completes(p, data, w)
  BY CompleteParts
<1> HIDE DEF h
<1>5. /\ Len(w.queue) = n + 1 /\ w.queue[n + 1] = h
      /\ \A i \in 1..n : w.queue[i] = queue[i]
  BY <1>1, <1>2, <1>3
<1>6. \A i \in 1..(n + 1) : i > n => i = n + 1
  BY <1>1
<1>7. StillQueue(World, w)
  BY <1>0, <1>1, <1>2, <1>5, <1>6 DEF StillQueue
<1> QED
  BY <1>0, <1>3, <1>4, <1>7 DEF Kept, Out, Completes

LEMMA CompletesFlow ==
  ASSUME CInv, NEW p \in pending, NEW data, NEW w, Completes(p, data, w), Kept(World, w, {}),
         OpKind(p) \notin StepKinds \/ data = << >>,
         NEW W, NEW L, Flow(World, W, L)
  PROVE  Flow(w, W, L)
<1>1. Apart(World, w)
  BY CompletesApart
<1>2. Good(World)
  BY DEF CInv, AInv, IInv
<1> QED
  BY <1>1, <1>2, ApartFlow

\* A step that brings something to a server connection.
LEMMA ServedFlow ==
  ASSUME CInv, NEW p \in pending, NEW data, NEW w, Completes(p, data, w), Kept(World, w, {}),
         OpKind(p) \in StepKinds, p.conn # Client, NEW W, NEW L, Flow(World, W, L)
  PROVE  Flow(w, W, L)
<1>0. Good(World)
  BY DEF CInv, AInv, IInv
<1>1. Keeping(World, w, W, L)
  BY <1>0, KeptKeeping
<1>2. \A fn, d : ~Doing(w, fn, Client, d)
  BY DEF Completes
<1>3. Kinds(w) = Kinds(World)
  BY DEF Completes
<1>4. Older(Emitted(w, W), Current(L) + 1)
  BY <1>1, OlderSubset DEF Flow, Timely, Keeping
<1>5. Timely(w, W, L)
  BY <1>1, <1>2, <1>3, <1>4 DEF Timely, Flow, Keeping
<1> QED
  BY <1>1, <1>5 DEF Flow, Keeping

\* The client sends part of a request that nothing has been sent for.
LEMMA AskedFlow ==
  ASSUME CInv, NEW p \in pending, NEW data, NEW w, Completes(p, data, w), Kept(World, w, {}),
         OpKind(p) = <<"read", Client>>, NEW W, W[Client] \in Seq(Unit), NEW J, Current(J) \in Nat,
         Stream(World, W), Older(Emitted(World, W), Current(J))
  PROVE  Flow(w, W, J)
<1>0. Good(World)
  BY DEF CInv, AInv, IInv
<1>1. Keeping(World, w, W, J)
  BY <1>0, KeptKeeping
<1>2. OpKind(p) \in StepKinds
  BY ClientIn DEF StepKinds, Going
<1>3. ASSUME NEW k \in Kinds(w) \cap ServerKinds PROVE FALSE
  <2>1. k \in StepKinds /\ k \notin ClientKinds
    BY DEF ServerKinds
  <2>2. PICK d : Doing(w, k[1], k[2], d)
    <3>0. k = <<k[1], k[2]>>
      BY <2>1 DEF StepKinds
    <3>1. CASE \E q \in w.pending : OpKind(q) = k
      <4>1. PICK q \in w.pending : OpKind(q) = k
        BY <3>1
      <4>2. q.op = k[1] /\ q.conn = k[2]
        BY <4>1 DEF OpKind
      <4>3. Doing(w, k[1], k[2], << >>)
        BY <2>1, <3>0, <4>2 DEF Doing
      <4> QED
        BY <4>3
    <3>2. CASE \E i \in 1..Len(w.queue) : HandlerKind(w.queue[i]) = k
      <4>1. PICK i \in 1..Len(w.queue) : HandlerKind(w.queue[i]) = k
        BY <3>2
      <4>2. w.queue[i].fn = k[1] /\ w.queue[i].conn = k[2]
        BY <4>1 DEF HandlerKind
      <4>3. Doing(w, k[1], k[2], w.queue[i].data)
        BY <2>1, <3>0, <4>2 DEF Doing
      <4> QED
        BY <4>3
    <3> QED
      BY <3>1, <3>2 DEF Kinds
  <2>3. k[1] = p.op /\ k[2] = p.conn
    BY <1>2, <2>2 DEF Completes
  <2>4. k = <<"read", Client>>
    BY <2>1, <2>3 DEF OpKind, StepKinds
  <2> QED
    BY <2>1, <2>4 DEF ClientKinds, Going
<1>4. Older(Emitted(w, W), Current(J))
  BY <1>1, OlderSubset DEF Keeping
<1>5. Older(Emitted(w, W), Current(J) + 1)
  <2>1. Good(w)
    BY DEF Kept
  <2>2. \A u \in Emitted(w, W) : u[1] \in Nat
    BY <2>1, EmittedType
  <2> QED
    BY <1>4, <2>2 DEF Older
<1>6. Timely(w, W, J)
  BY <1>3, <1>4, <1>5 DEF Timely
<1> QED
  BY <1>1, <1>6 DEF Flow, Keeping

LEMMA ClientSendsFlow ==
  ASSUME CInv, Good(World)', Sound(World, wire, last), Flow(World, wire, last),
         NEW p \in pending, NEW n \in 0..ReqLen, ClientSends(p, n)
  PROVE  Flow(World, wire, last)'
<1> DEFINE more == last[Client][2] < ReqLen
           r == IF more THEN last[Client][1] ELSE last[Client][1] + 1
           i == IF more THEN last[Client][2] ELSE 0
           data == Units(r, i, n)
           L == last'
           w == World'
           x == conn[Client].message
<1>0. /\ last \in [Conns -> Unit] /\ last[Client] \in Nat \X Nat /\ Past(wire, last)
      /\ x \in Seq(Unit) /\ wire[Client] \in Seq(Unit)
  <2>1. Good(World) /\ World.conn = conn
    BY WorldFields DEF CInv, AInv, IInv
  <2> QED
    BY <2>1, ClientIn, MessageType DEF CInv, AInv, IInv, Unit, Sound, Base
<1>1. r \in Nat /\ i \in Nat /\ n \in Nat /\ last[Client][1] \in Nat /\ last[Client][2] \in Nat
  BY <1>0
<1>2. /\ Complete(p, "ok", data) /\ p.op = "read" /\ p.conn = Client /\ wire' = wire
      /\ L = IF n = 0 THEN last ELSE [last EXCEPT ![Client] = <<r, i + n>>]
  BY DEF ClientSends, Sends
<1>3. Completes(p, data, w)
  BY <1>1, <1>2, UnitsType, CompleteParts DEF Results
<1>4. Kept(World, w, {})
  BY <1>1, <1>2, UnitsType, CompletesKept DEF Results, ClientWrite
<1> HIDE DEF data, L, w, x, r, i
<1>5. OpKind(p) = <<"read", Client>> /\ OpKind(p) \in StepKinds
  BY <1>2, ClientIn DEF OpKind, StepKinds, Going
<1>6. CASE n = 0
  <2>1. data = << >> /\ L = last
    BY <1>1, <1>2, <1>6, UnitsEmpty DEF data
  <2>2. Flow(w, wire, last)
    BY <1>3, <1>4, <2>1, CompletesFlow
  <2> QED
    BY <1>2, <2>1, <2>2 DEF w, L
<1>7. CASE n # 0
  <2>1. L[Client] = <<r, i + n>> /\ Current(L) = r
    BY <1>0, <1>2, <1>7, ClientIn DEF Current
  <2>2. Older(Emitted(World, wire), r)
    <3>1. CASE more
      <4>1. Doing(World, "read", Client, << >>)
        BY <1>2, <1>3, <1>5 DEF Completes
      <4>2. Asking(x, wire, last)
        <5>1. StepOk(conn[Client], wire, last, "read", Client, << >>)
          BY <4>1, WorldFields DEF Sound, StepsOk
        <5>2. x \o << >> = x
          BY <1>0
        <5> QED
          BY <5>1, <5>2 DEF StepOk, x
      <4>3. x = Units(Current(last), 0, i) /\ r = Current(last) /\ i # 0
        <5>1. last[Client][2] \in 1..ReqLen
          BY <1>0, ClientIn DEF Past, InLen
        <5> QED
          BY <3>1, <4>2, <5>1 DEF Asking, Current, r, i
      <4>4. x # << >> /\ x \o << >> = x
        <5>1. Current(last) \in Nat
          BY <1>1 DEF Current
        <5> QED
          BY <1>0, <1>1, <4>3, <5>1, UnitsEmpty
      <4> QED
        BY <4>1, <4>3, <4>4, WorldFields DEF Flow, Timely, x
    <3>2. CASE ~more
      <4>1. r = Current(last) + 1
        BY <3>2 DEF r, Current
      <4> QED
        BY <4>1 DEF Flow, Timely
    <3> QED
      BY <3>1, <3>2
  <2>3. Flow(w, wire, L)
    BY <1>0, <1>1, <1>3, <1>4, <1>5, <2>1, <2>2, AskedFlow DEF Flow
  <2> QED
    BY <1>2, <2>3 DEF w, L
<1> QED
  BY <1>6, <1>7

LEMMA ServerSendsFlow ==
  ASSUME CInv, Good(World)', Sound(World, wire, last), Flow(World, wire, last),
         NEW p \in pending, NEW n \in 0..RespLen, ServerSends(p, n)
  PROVE  Flow(World, wire, last)'
<1> DEFINE s == p.conn
           sent == wire[s]
           r == sent[Len(sent)][1]
           i == IF last[s][1] = r THEN last[s][2] ELSE 0
           data == Units(r, i, n)
           L == last'
           w == World'
<1>g. Good(World) /\ World.conn = conn /\ World.pending = pending
  BY WorldFields DEF CInv, AInv, IInv
<1>s. s \in Servers /\ s # Client /\ p.op = "read" /\ OpKind(p) = <<"read", s>>
  <2>1. p \in PendingOps /\ p.op = "read" /\ p.conn # Client
    BY <1>g DEF ServerSends, Good, Worlds
  <2> QED
    BY <2>1 DEF PendingOps, OpKind
<1>0. /\ last \in [Conns -> Unit] /\ sent \in Seq(Unit) /\ sent # << >> /\ last[s] \in Nat \X Nat
  <2>1. last \in [Conns -> Unit] /\ wire \in [Conns -> Seq(Unit)] /\ s \in Conns
    BY <1>s DEF CInv, AInv, IInv
  <2>2. sent # << >>
    BY DEF ServerSends
  <2> QED
    BY <2>1, <2>2 DEF Unit
<1>1. r \in Nat /\ i \in Nat /\ n \in Nat
  <2>1. sent[Len(sent)] \in Nat \X Nat
    BY <1>0, ElementOfSeq DEF Unit
  <2>2. r \in Nat /\ last[s][2] \in Nat
    BY <1>0, <2>1
  <2> QED
    BY <2>2
<1>2. /\ Complete(p, "ok", data) /\ wire' = wire
      /\ L = IF n = 0 THEN last ELSE [last EXCEPT ![s] = <<r, i + n>>]
  BY DEF ServerSends, Sends
<1>3. Completes(p, data, w)
  BY <1>1, <1>2, UnitsType, CompleteParts DEF Results
<1>4. Kept(World, w, {})
  BY <1>1, <1>2, <1>s, UnitsType, CompletesKept DEF Results, ClientWrite
<1> HIDE DEF data, L, w, r, i, s
<1>5. OpKind(p) \in StepKinds
  BY <1>s DEF StepKinds, Going
<1>6. Flow(w, wire, last)
  BY <1>3, <1>4, <1>5, <1>s, ServedFlow DEF s
<1>7. L[Client] = last[Client]
  BY <1>0, <1>2, <1>s
<1>8. Current(L) = Current(last)
  BY <1>7 DEF Current
<1>9. Flow(w, wire, L)
  BY <1>6, <1>8, PeerFlow
<1> QED
  BY <1>2, <1>9 DEF w, L

\* The client receives n units of the front of its buffer_out_.
Delivered(V, W, p, n) ==
  /\ V = [W EXCEPT ![Client] = W[Client] \o SubSeq(p.data, 1, n)]
  /\ p.data = Head(Out(World)) /\ Out(World) # << >>
LEMMA DeliveredFlow ==
  ASSUME CInv, Good(World)', NEW p \in pending, ClientWrite(p), NEW n \in 1..Len(p.data),
         NEW data, data = SubSeq(p.data, 1, n), Complete(p, "ok", data),
         NEW W \in [Conns -> Seq(Unit)], NEW L, Base(World, W, L), Flow(World, W, L),
         NEW V, Delivered(V, W, p, n), NEW w, w = World'
  PROVE  Flow(w, V, L)
<1> DEFINE m == World
           h == Completion(p.op, p.conn, "ok", data)
           k == Len(m.queue)
           o == Out(m)
           x == W[Client]
<1>0. /\ Good(m) /\ m.queue = queue /\ m.pending = pending /\ m.conn = conn /\ m.ctx = ctx
  BY WorldFields DEF CInv, AInv, IInv
<1>1. /\ p \in PendingOps /\ m.queue \in Seq(Handlers) /\ k \in Nat /\ p.data \in Seq(Unit)
      /\ o \in Seq(Seq(Unit)) /\ x \in Seq(Unit) /\ n \in Nat
  <2>1. p \in PendingOps /\ m.queue \in Seq(Handlers)
    BY <1>0 DEF Good, Worlds
  <2>2. m.conn[Client] \in Connections
    BY <1>0, ClientIn, ConnType
  <2>3. p.data \in Seq(Unit) /\ o \in Seq(Seq(Unit)) /\ x \in Seq(Unit)
    BY <2>1, <2>2, ClientIn DEF PendingOps, Connections, Out
  <2> QED
    BY <2>1, <2>3, LenProperties
<1>d. o # << >> /\ p.data = Head(o) /\ V = [W EXCEPT ![Client] = x \o data]
  BY DEF Delivered
<1>v. V[Client] = x \o data
  BY <1>d, ClientIn
<1>u. /\ data \in Seq(Unit) /\ Increasing(data) /\ UnitsIn(data) \subseteq Buffered(o)
      /\ Precede(UnitsIn(data), Buffered(unsent(o, n))) /\ Ascending(o)
      /\ Buffered(unsent(o, n)) \subseteq Buffered(o)
  <2>1. Ascending(o) /\ n <= Len(Head(o))
    BY <1>d DEF Flow, Stream
  <2> QED
    BY <1>1, <1>d, <2>1, UnsentAscending
<1>l. Len(data) = n
  <2>1. n <= Len(p.data) /\ Len(p.data) \in Nat
    BY <1>1
  <2>2. \A j \in 1..n : p.data[j] \in Unit
    BY <1>1, <2>1, ElementOfSeq
  <2>3. Len(data) = IF 1 <= n THEN n - 1 + 1 ELSE 0
    BY <1>1, <2>2, SubSeqProperties
  <2> QED
    BY <1>1, <2>3
<1>2. /\ h \in Handlers /\ Arrived(h) /\ h.data = data
  BY <1>1, <1>u DEF PendingOps, Handlers, Completion, Arrived, ClientWrite, Results
<1>3. /\ w.queue = Append(m.queue, h) /\ w.pending = m.pending \ {p} /\ w.conn = m.conn
      /\ w.ctx = m.ctx
  BY <1>0 DEF Complete, World
<1>4. Completes(p, data, w)
  BY <1>u, CompleteParts DEF Results
<1> HIDE DEF h
<1>5. /\ Len(w.queue) = k + 1 /\ w.queue[k + 1] = h
      /\ \A i \in 1..k : w.queue[i] = m.queue[i]
  BY <1>1, <1>2, <1>3
<1>6. Stream(m, W) /\ Timely(m, W, L) /\ Lined(m)
  BY DEF Flow, Stream
<1>7. /\ m.conn[Client].connected /\ ~m.conn[Client].stopped /\ p.data # << >>
  <2>1. m.conn[Client].connected /\ p.data # << >>
    BY <1>0, <1>6 DEF Lined
  <2> QED
    BY <2>1, ClientIn DEF Base
<1>8. Follow(m, W)
  BY <1>6, <1>7 DEF Stream
<1>9. NoneArrived(m) /\ m.conn[Client].writing
  <2>1. UnitsIn(p.data) \subseteq Buffered(o)
    <3>1. Len(o) # 0 /\ Len(o) \in Nat
      BY <1>1, <1>d, EmptySeq, LenProperties
    <3>2. 1 \in 1..Len(o) /\ Head(o) = o[1]
      BY <1>1, <1>d, <3>1
    <3> QED
      BY <1>d, <3>2 DEF Buffered
  <2>2. ~Precede(UnitsIn(p.data), Buffered(o))
    BY <1>1, <1>7, <2>1, BeforeIrreflexive
  <2> QED
    BY <1>0, <1>8, <2>2 DEF Follow, Fronted
<1>10. Precede(UnitsIn(x), Buffered(o))
  BY <1>8, <1>9 DEF Follow
<1>11. Out(w) = o /\ Kinds(w) = Kinds(m)
  BY <1>3, <1>4 DEF Out, Completes
<1> HIDE DEF o, m, k, x
<1>12. Increasing(V[Client]) /\ UnitsIn(V[Client]) = UnitsIn(x) \cup UnitsIn(data)
  <2>1. Precede(UnitsIn(x), UnitsIn(data))
    BY <1>10, <1>u DEF Precede
  <2>2. Increasing(x)
    BY <1>6 DEF Stream, x
  <2> QED
    BY <1>1, <1>u, <1>v, <2>1, <2>2, IncreasingConcat, InConcat
<1>13. ASSUME NEW i \in 1..Len(w.queue), Arrived(w.queue[i]) PROVE i = k + 1
  <2>1. i = k + 1 \/ i \in 1..k
    BY <1>1, <1>5
  <2> QED
    BY <1>5, <1>9, <1>13, <2>1 DEF NoneArrived, k
<1>14. Lined(w)
  <2>1. ASSUME NEW j \in 1..Len(w.queue), HandlerKind(w.queue[j]) \in ClientKinds PROVE FALSE
    <3>1. HandlerKind(w.queue[j]) \in Kinds(m)
      BY <1>11 DEF Kinds
    <3>2. Out(m) = << >>
      BY <2>1, <3>1 DEF CInv, Chained, Drained, m
    <3> QED
      BY <1>d, <3>2 DEF o
  <2>2. \A q \in w.pending : ClientWrite(q) => w.conn[Client].connected /\ q.data # << >>
    BY <1>3, <1>6 DEF Lined
  <2> QED
    BY <1>13, <2>1, <2>2 DEF Lined
<1>15. Follow(w, V)
  <2>1. ~NoneArrived(w)
    <3>1. k + 1 \in 1..Len(w.queue)
      BY <1>1, <1>5
    <3> QED
      BY <1>2, <1>5, <3>1 DEF NoneArrived
  <2>2. Precede(UnitsIn(V[Client]), Buffered(unsent(o, n)))
    BY <1>10, <1>12, <1>u DEF Precede
  <2>3. \A i \in 1..Len(w.queue) : Arrived(w.queue[i]) /\ Out(w) # << >> =>
       /\ w.conn[Client].writing
       /\ Precede(UnitsIn(V[Client]), Buffered(unsent(Out(w), Len(w.queue[i].data))))
    BY <1>2, <1>3, <1>5, <1>9, <1>11, <1>13, <1>l, <2>2
  <2>4. ASSUME NEW q \in w.pending, ClientWrite(q) PROVE Fronted(w, q)
    <3>1. q \in m.pending /\ q # p /\ q \in PendingOps
      BY <1>0, <1>3 DEF Good, Worlds, m
    <3>2. q.data # p.data
      <4>1. q.op = p.op /\ q.conn = p.conn
        BY <2>4 DEF ClientWrite
      <4>2. \A y \in PendingOps : y = [op |-> y.op, conn |-> y.conn, data |-> y.data]
        BY DEF PendingOps
      <4> QED
        BY <1>1, <3>1, <4>1, <4>2
    <3>3. Fronted(m, q)
      BY <1>8, <2>4, <3>1 DEF Follow
    <3>4. Precede(UnitsIn(q.data), Buffered(o))
      BY <1>d, <3>2, <3>3 DEF Fronted, o
    <3> QED
      BY <1>11, <3>4 DEF Fronted
  <2> QED
    BY <2>1, <2>3, <2>4 DEF Follow
<1>16. Stream(w, V)
  BY <1>11, <1>12, <1>14, <1>15, <1>u DEF Stream
<1>17. Emitted(w, V) \subseteq Emitted(m, W)
  BY <1>3, <1>11, <1>12, <1>u DEF Emitted, o, x
<1>18. \A fn, c, d : Doing(w, fn, c, d) => Doing(m, fn, c, d)
  <2>1. <<"write", Client>> \notin StepKinds
    BY DEF StepKinds, Going
  <2>2. p.op = "write" /\ p.conn = Client
    BY DEF ClientWrite
  <2>3. ASSUME NEW fn, NEW c, NEW d, Doing(w, fn, c, d) PROVE Doing(m, fn, c, d)
    <3>1. Doing(m, fn, c, d) \/ (fn = p.op /\ c = p.conn)
      BY <1>4, <2>3 DEF Completes, m
    <3>2. <<fn, c>> \in StepKinds
      BY <2>3 DEF Doing
    <3> QED
      BY <2>1, <2>2, <3>1, <3>2
  <2> QED
    BY <2>3
<1>19. Upto(m, W, L) => Upto(w, V, L)
  BY <1>3, <1>17 DEF Upto
<1>20. Clear(w)
  BY <1>11, <1>d DEF Clear
<1>21. Older(Emitted(w, V), Current(L) + 1)
  BY <1>6, <1>17, OlderSubset DEF Timely
<1>22. ASSUME NEW fn, NEW d, fn \in {"read", "READ"}, Doing(w, fn, Client, d),
              w.conn[Client].message \o d # << >>
       PROVE  Older(Emitted(w, V), Current(L))
  <2>1. Older(Emitted(m, W), Current(L))
    BY <1>3, <1>6, <1>18, <1>22 DEF Timely
  <2> QED
    BY <1>17, <2>1, OlderSubset
<1>23. Timely(w, V, L)
  BY <1>6, <1>11, <1>19, <1>20, <1>21, <1>22 DEF Timely
<1> QED
  BY <1>16, <1>23 DEF Flow

LEMMA PeerReceivesFlow ==
  ASSUME CInv, Good(World)', Sound(World, wire, last), Flow(World, wire, last),
         NEW p \in pending, NEW n \in 1..Len(p.data), PeerReceives(p, n)
  PROVE  Flow(World, wire, last)'
<1>g. /\ Good(World) /\ World.conn = conn /\ World.pending = pending
      /\ wire \in [Conns -> Seq(Unit)]
  BY WorldFields DEF CInv, AInv, IInv
<1>1. CASE Dangling(p)
  <2>1. Good(Abort(World, "freed_buffer"))
    BY <1>g, AbortQuiet DEF Faults, Quiet
  <2>2. Abort(World, "freed_buffer").fault # "none"
    BY <1>g, LengthType, AbortFault
  <2>3. Become(Abort(World, "freed_buffer")) /\ UNCHANGED <<wire, last>>
    BY <1>1 DEF PeerReceives
  <2> QED
    BY <1>g, <2>1, <2>2, <2>3, BecomeFlow
<1>2. CASE ~Dangling(p)
  <2> DEFINE s == p.conn
             data == SubSeq(p.data, 1, n)
             V == wire'
             w == World'
  <2>0. p.data \in Seq(Unit) /\ s \in Conns /\ p.op = "write" /\ OpKind(p) = <<"write", s>>
    BY <1>g DEF Good, Worlds, PendingOps, PeerReceives, OpKind
  <2>1. /\ Complete(p, "ok", data) /\ last' = last
        /\ V = [wire EXCEPT ![s] = wire[s] \o data]
        /\ conn[s].out # << >> /\ Head(conn[s].out) = p.data
    BY <1>2 DEF PeerReceives, Dangling
  <2>2. data \in Seq(Unit)
    <3>1. \A i \in 1..n : p.data[i] \in Unit
      BY <2>0, ElementOfSeq
    <3> QED
      BY <2>0, <3>1, SubSeqProperties
  <2>d. data = SubSeq(p.data, 1, n) /\ s = p.conn
    OBVIOUS
  <2>3. Completes(p, data, w)
    BY <2>1, <2>2, CompleteParts DEF Results
  <2>4. CASE s = Client
    <3>1. ClientWrite(p)
      BY <2>0, <2>4 DEF ClientWrite
    <3>2. Delivered(V, wire, p, n)
      BY <1>g, <2>1, <2>4 DEF Delivered, Out
    <3>w. w = World'
      OBVIOUS
    <3>b. Base(World, wire, last)
      BY DEF Sound
    <3> HIDE DEF w, V, data, s
    <3>3. Flow(w, V, last)
      BY ONLY CInv, Good(World)', p \in pending, n \in 1..Len(p.data), Flow(World, wire, last),
              <1>g, <2>1, <2>d, <3>1, <3>2, <3>b, <3>w, SizesAssumption, DeliveredFlow
    <3> QED
      BY <2>1, <3>3 DEF w, V
  <2>5. CASE s # Client
    <3>1. ~ClientWrite(p)
      BY <2>5 DEF ClientWrite
    <3>2. Kept(World, w, {})
      BY <2>1, <2>2, <3>1, CompletesKept DEF Results
    <3> HIDE DEF w, V, data, s
    <3>3. OpKind(p) \in StepKinds
      <4>1. s \in Servers
        BY <2>0, <2>5
      <4> QED
        BY <2>0, <4>1 DEF StepKinds
    <3>4. Flow(w, wire, last)
      BY <2>3, <2>5, <2>d, <3>2, <3>3, ServedFlow
    <3>5. V[Client] = wire[Client]
      BY <1>g, <2>1, <2>5, ClientIn
    <3>6. Flow(w, V, last)
      BY <3>4, <3>5, PeerFlow
    <3> QED
      BY <2>1, <3>6 DEF w, V
  <2> QED
    BY <2>4, <2>5
<1> QED
  BY <1>1, <1>2

LEMMA SignalFlow ==
  ASSUME CInv, Good(World)', Flow(World, wire, last), SignalArrives
  PROVE  Flow(World, wire, last)'
<1> DEFINE w == World'
<1>0. /\ Good(World) /\ World.pending = pending /\ World.conn = conn
      /\ wire' = wire /\ last' = last /\ w.conn = conn /\ w.pending = pending
  BY WorldFields DEF CInv, AInv, IInv, SignalArrives, World
<1>1. Apart(World, w) /\ StillQueue(World, w)
  BY SignalApart
<1> HIDE DEF w
<1>2. Kept(World, w, {})
  BY <1>0, <1>1 DEF Kept, Out, Apart
<1>3. Flow(w, wire, last)
  BY <1>0, <1>1, <1>2, ApartFlow
<1> QED
  BY <1>0, <1>3 DEF w

LEMMA EnvironmentFlow ==
  ASSUME CInv, Good(World)', Sound(World, wire, last), Flow(World, wire, last), Environment
  PROVE  Flow(World, wire, last)'
<1>1. CASE SignalArrives
  BY <1>1, SignalFlow
<1>2. ASSUME NEW p \in pending,
             \/ \E n \in 0..ReqLen : ClientSends(p, n)
             \/ \E n \in 0..RespLen : ServerSends(p, n)
             \/ \E n \in 1..Len(p.data) : PeerReceives(p, n)
             \/ Succeeds(p) \/ Fails(p) \/ Closes(p) \/ SendsJunk(p) \/ TimerExpires(p)
      PROVE  Flow(World, wire, last)'
  <2>1. CASE Succeeds(p) \/ Fails(p) \/ Closes(p) \/ SendsJunk(p) \/ TimerExpires(p)
    <3> DEFINE w == World'
    <3>1. PICK res \in Results : Complete(p, res, << >>) /\ ~(ClientWrite(p) /\ res = "ok")
      BY <2>1 DEF Succeeds, Fails, Closes, SendsJunk, TimerExpires, Results, ClientWrite
    <3>2. wire' = wire /\ last' = last
      BY <2>1 DEF Succeeds, Fails, Closes, SendsJunk, TimerExpires, peers
    <3>s. << >> \in Seq(Unit)
      OBVIOUS
    <3>3. Completes(p, << >>, w)
      BY <3>1, <3>s, CompleteParts
    <3>4. Kept(World, w, {})
      BY <3>1, <3>s, CompletesKept
    <3> HIDE DEF w
    <3>5. Flow(w, wire, last)
      BY <3>3, <3>4, CompletesFlow
    <3> QED
      BY <3>2, <3>5 DEF w
  <2> QED
    BY <1>2, <2>1, ClientSendsFlow, ServerSendsFlow, PeerReceivesFlow
<1> QED
  BY <1>1, <1>2 DEF Environment

-----------------------------------------------------------------------------
FInv == RInv /\ Flow(World, wire, last)

LEMMA InitFlow == Init => Flow(World, wire, last)
<1> SUFFICES ASSUME Init PROVE Flow(World, wire, last)
  OBVIOUS
<1> DEFINE p == [op |-> "read", conn |-> Client, data |-> << >>]
           m == World
<1>1. /\ m.queue = << >> /\ m.pending = {p} /\ m.conn = conn /\ Out(m) = << >>
      /\ conn[Client].message = << >>
  BY WorldFields, ClientIn DEF Init, NewConnection, Out
<1>2. wire[Client] = << >>
  BY ClientIn DEF Init
<1>3. p.op = "read" /\ p.conn = Client /\ OpKind(p) = <<"read", Client>> /\ ~ClientWrite(p)
  BY DEF OpKind, ClientWrite
<1> HIDE DEF p, m
<1>4. /\ Len(<< >>) = 0 /\ 1..0 = {} /\ << >> \o << >> = << >>
      /\ UnitsIn(<< >>) = {} /\ Buffered(<< >>) = {}
  BY DEF UnitsIn, Buffered
<1>5. Emitted(m, wire) = {}
  BY <1>1, <1>2, <1>3, <1>4 DEF Emitted
<1>6. Kinds(m) = {<<"read", Client>>}
  BY <1>1, <1>3, <1>4 DEF Kinds
<1>7. <<"read", Client>> \notin ServerKinds
  BY DEF ServerKinds, ClientKinds, Going
<1>8. \A fn, d : Doing(m, fn, Client, d) => d = << >>
  BY <1>1, <1>4 DEF Doing
<1>9. Timely(m, wire, last)
  BY <1>1, <1>4, <1>5, <1>6, <1>7, <1>8 DEF Timely, Older
<1>10. Lined(m) /\ Follow(m, wire)
  BY <1>1, <1>2, <1>3, <1>4 DEF Lined, Follow, Precede
<1>11. Increasing(wire[Client]) /\ Ascending(Out(m))
  BY <1>1, <1>2, <1>4 DEF Increasing, Ascending
<1> QED
  BY <1>9, <1>10, <1>11 DEF Flow, Stream, m

LEMMA NextFlow == FInv /\ [Next]_vars => FInv'
<1> SUFFICES ASSUME FInv, [Next]_vars PROVE Flow(World, wire, last)'
  BY NextSound DEF FInv
<1>0. /\ CInv /\ CInv' /\ Good(World)' /\ Sound(World, wire, last)
      /\ Flow(World, wire, last)
  BY NextSound DEF FInv, RInv, CInv, AInv, IInv
<1>1. CASE RunHandler
  BY <1>0, <1>1, RunHandlerFlow
<1>2. CASE Environment
  BY <1>0, <1>2, EnvironmentFlow
<1>3. CASE UNCHANGED vars
  <2>1. World' = World /\ wire' = wire /\ last' = last
    BY <1>3 DEF vars, World
  <2>2. Flow(World', wire', last') <=> Flow(World, wire, last)
    BY <2>1
  <2> QED
    BY <1>0, <2>2
<1> QED
  BY <1>1, <1>2, <1>3 DEF Next, Waits

\* What is on its way to the client, in its buffer_out_ or in a write, comes
\* after all that it has received and is in order, and the encoder is never
\* behind it, also when reset() has freed a buffer while it was being sent.
THEOREM FlowInvariance == Spec => []FInv
<1>1. Init => FInv
  BY InitIInv, InitActive, InitChained, InitSound, InitFlow DEF FInv, RInv, CInv, AInv
<1> QED
  BY <1>1, NextFlow, PTL DEF Spec

\* What the client receives is never repeated or out of order: the answer to
\* CONNECT comes first and once, and the parts of responses follow in order,
\* although on_write resumes partial writes, a response is encoded while an
\* earlier part of it is being sent, and reset() empties buffer_out_ between
\* exchanges.
THEOREM ResponsesOrdered == Spec => []ResponseOrdered
<1>1. FInv => ResponseOrdered
  BY DEF FInv, Flow, Stream, ResponseOrdered
<1> QED
  BY <1>1, FlowInvariance, PTL
=============================================================================
