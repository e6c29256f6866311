---------------------------- MODULE BodiesProofs ----------------------------
(***************************************************************************)
(* Proofs about Bodies, for forms of any parts and readers of any size,    *)
(* and a buffer of any size: the length of a form is exact, the bytes that *)
(* are read are those of the body in their order, what is reported is      *)
(* true, and the connection gets what Delivery promises.                   *)
(***************************************************************************)
EXTENDS Bodies, SequenceTheorems, WellFoundedInduction, TLAPS

(* A set that has 0 and goes on from each number to the next has all.      *)
LEMMA Induction ==
  ASSUME NEW n \in Nat, NEW S, 0 \in S,
         \A k \in 0..(n-1) : k \in S => k + 1 \in S
  PROVE  0..n \subseteq S
<1> DEFINE Missing == (0..n) \ S
<1> SUFFICES ASSUME Missing # {}
             PROVE  FALSE
  OBVIOUS
<1>1. \E m \in Missing : \A k \in Missing : <<k, m>> \notin OpToRel(<, Nat)
  <2>1. Missing \subseteq Nat
    OBVIOUS
  <2> HIDE DEF Missing
  <2>2. QED
    BY <2>1, NatLessThanWellFounded, WFMin, Zenon
<1>2. PICK m \in Missing : \A k \in Missing : ~ (k < m)
  <2>1. Missing \subseteq Nat
    OBVIOUS
  <2> HIDE DEF Missing
  <2>2. QED
    BY <1>1, <2>1 DEF OpToRel
<1>3. m # 0 /\ m \in Nat /\ m - 1 \in 0..(n - 1) /\ m - 1 < m
  OBVIOUS
<1>4. m - 1 \in S
  BY <1>2, <1>3
<1>5. QED
  BY <1>3, <1>4

(* g is the function that is base at 0 and F[i] of what it is before at i.  *)
Recurs(g, n, base, F) == g[0] = base /\ \A i \in 1..n : g[i] = F[i][g[i - 1]]

(* A function that is defined from each number to the next exists.         *)
LEMMA Recursion ==
  ASSUME NEW n \in Nat, NEW T, NEW base \in T, NEW F \in [1..n -> [T -> T]]
  PROVE  \E g \in [0..n -> T] : Recurs(g, n, base, F)
<1> DEFINE Step(g, i) == IF i = 0 THEN base ELSE F[i][g[i - 1]]
           S == {k \in 0..n : \E g \in [0..k -> T] :
                                \A i \in 0..k : g[i] = Step(g, i)}
<1>1. 0 \in S
  <2> DEFINE g == [i \in 0..0 |-> base]
  <2>1. g \in [0..0 -> T] /\ \A i \in 0..0 : g[i] = Step(g, i)
    OBVIOUS
  <2>2. \E h \in [0..0 -> T] : \A i \in 0..0 : h[i] = Step(h, i)
    BY <2>1
  <2>3. QED
    BY <2>2
<1>2. ASSUME NEW k \in 0..(n-1), k \in S
      PROVE  k + 1 \in S
  <2>1. PICK g \in [0..k -> T] : \A i \in 0..k : g[i] = Step(g, i)
    BY <1>2
  <2>2. k \in Nat /\ k + 1 \in 1..n /\ k \in 0..k
    OBVIOUS
  <2> DEFINE h == [i \in 0..(k+1) |-> IF i = k + 1 THEN F[k + 1][g[k]]
                                     ELSE g[i]]
  <2>3. h \in [0..(k+1) -> T]
    <3>1. g[k] \in T /\ F[k + 1][g[k]] \in T
      BY <2>2
    <3>2. \A i \in 0..(k+1) : i = k + 1 \/ i \in 0..k
      BY <2>2
    <3>3. QED
      BY <3>1, <3>2
  <2>4. ASSUME NEW i \in 0..(k+1)
        PROVE  h[i] = Step(h, i)
    <3>1. CASE i = 0
      <4>1. i # k + 1 /\ i \in 0..k
        BY <2>2, <3>1
      <4>2. QED
        BY <4>1, <3>1, <2>1
    <3>2. CASE i \in 1..k
      <4>1. h[i] = g[i] /\ h[i - 1] = g[i - 1] /\ i \in 0..k
        BY <2>2, <3>2
      <4>2. QED
        BY <4>1, <2>1, <3>2
    <3>3. CASE i = k + 1
      <4>1. k \in 0..(k+1) /\ k # k + 1 /\ i # 0 /\ i - 1 = k
        BY <3>3, <2>2
      <4>2. h[k] = g[k]
        BY <4>1
      <4>3. QED
        BY <3>3, <4>1, <4>2
    <3>4. QED
      BY <3>1, <3>2, <3>3, <2>2
  <2>5. \E f \in [0..(k+1) -> T] : \A i \in 0..(k+1) : f[i] = Step(f, i)
    <3> HIDE DEF h
    <3>1. QED
      BY <2>3, <2>4
  <2>6. QED
    BY <2>2, <2>5
<1>3. 0..n \subseteq S
  <2> HIDE DEF S
  <2>1. QED
    BY <1>1, <1>2, Induction
<1>4. PICK g \in [0..n -> T] : \A i \in 0..n : g[i] = Step(g, i)
  <2>1. n \in 0..n
    OBVIOUS
  <2>2. n \in S
    <3> HIDE DEF S
    <3>1. QED
      BY <1>3, <2>1
  <2>3. QED
    BY <2>2
<1>5. g[0] = base
  <2>1. 0 \in 0..n
    OBVIOUS
  <2>2. QED
    BY <2>1, <1>4, Zenon
<1>6. ASSUME NEW i \in 1..n
      PROVE  g[i] = F[i][g[i - 1]]
  <2>1. i \in 0..n /\ i # 0
    OBVIOUS
  <2>2. QED
    BY <2>1, <1>4, Zenon
<1>7. QED
  BY <1>5, <1>6 DEF Recurs

(* --- The bytes of a body ----------------------------------------------- *)

(* Boundaries, headers and data are bytes, as many as they say.            *)
LEMMA RunIsBytes ==
  ASSUME NEW tag \in {"boundary", "header", "data", "crlf", "closing"},
         NEW i \in Nat, NEW n \in Nat
  PROVE  Run(tag, i, n) \in Seq(Bytes) /\ Len(Run(tag, i, n)) = n
<1>1. Run(tag, i, n) \in [1..n -> Bytes]
  BY DEF Run, Bytes
<1>2. Run(tag, i, n) \in Seq(Bytes)
  BY <1>1, SeqDef
<1>3. QED
  BY <1>1, <1>2, LenProperties

(* The sources that the constants allow.                                   *)
LEMMA SourceIsTyped ==
  ASSUME source \in Sources
  PROVE  /\ source.form \in BOOLEAN /\ source.parts \in Seq(Parts)
         /\ source.len \in Nat \cup {None}
         /\ Len(source.parts) \in Nat
         /\ ~source.form => Len(source.parts) = 1
         /\ \A i \in 1..Len(source.parts) :
               /\ source.parts[i] \in Parts
               /\ source.parts[i].head \in Nat /\ source.parts[i].data \in Nat
               /\ source.parts[i].len \in Nat \cup {None}
               /\ source.parts[i].reader \in BOOLEAN
<1>1. source \in [form : BOOLEAN, parts : Seq(Parts), len : Nat \cup {None}]
  BY BodiesAssumption
<1>2. source.parts \in Seq(Parts) /\ source.form \in BOOLEAN
      /\ source.len \in Nat \cup {None}
  BY <1>1
<1>3. \A i \in 1..Len(source.parts) : source.parts[i] \in Parts
  BY <1>2, ElementOfSeq
<1>4. ~source.form => Len(source.parts) = 1
  BY BodiesAssumption
<1>5. Len(source.parts) \in Nat
  BY <1>2, LenProperties
<1>6. QED
  BY <1>2, <1>3, <1>4, <1>5 DEF Parts

(* Bytes behind bytes.                                                     *)
LEMMA BytesConcat ==
  ASSUME NEW a \in Seq(Bytes), NEW b \in Seq(Bytes)
  PROVE  /\ a \o b \in Seq(Bytes)
         /\ Len(a) \in Nat /\ Len(b) \in Nat
         /\ Len(a \o b) = Len(a) + Len(b)
         /\ DOMAIN a = 1..Len(a) /\ DOMAIN b = 1..Len(b)
         /\ DOMAIN (a \o b) = 1..(Len(a) + Len(b))
         /\ \A k \in 1..Len(a) : (a \o b)[k] = a[k]
         /\ \A k \in 1..Len(b) : (a \o b)[Len(a) + k] = b[k]
<1>1. /\ Len(a) \in Nat /\ Len(b) \in Nat
      /\ DOMAIN a = 1..Len(a) /\ DOMAIN b = 1..Len(b)
  BY LenProperties
<1>2. /\ a \o b \in Seq(Bytes)
      /\ Len(a \o b) = Len(a) + Len(b)
      /\ \A i \in 1..Len(a) + Len(b) :
            (a \o b)[i] = IF i <= Len(a) THEN a[i] ELSE b[i - Len(a)]
  BY ConcatProperties
<1>3. DOMAIN (a \o b) = 1..(Len(a) + Len(b))
  BY <1>2, LenProperties
<1>4. \A k \in 1..Len(a) : (a \o b)[k] = a[k]
  BY <1>1, <1>2
<1>5. ASSUME NEW k \in 1..Len(b)
      PROVE  (a \o b)[Len(a) + k] = b[k]
  <2>1. Len(a) + k \in 1..Len(a) + Len(b) /\ ~(Len(a) + k <= Len(a))
        /\ (Len(a) + k) - Len(a) = k
    BY <1>1
  <2>2. QED
    BY <1>2, <2>1
<1>6. QED
  BY <1>1, <1>2, <1>3, <1>4, <1>5

LEMMA ConcatLength ==
  ASSUME NEW a \in Seq(Bytes), NEW b \in Seq(Bytes)
  PROVE  a \o b \in Seq(Bytes) /\ Len(a \o b) = Len(a) + Len(b)
BY BytesConcat, Zenon

LEMMA PiecesAreTyped ==
  ASSUME source \in Sources, NEW i \in 1..Len(source.parts)
  PROVE  /\ Boundary(i) \in Seq(Bytes) /\ Len(Boundary(i)) = 5
         /\ Header(i) \in Seq(Bytes)
         /\ Len(Header(i)) = source.parts[i].head + 4
         /\ Data(i) \in Seq(Bytes) /\ Len(Data(i)) = source.parts[i].data
         /\ Crlf(i) \in Seq(Bytes) /\ Len(Crlf(i)) = 2
<1>1. i \in Nat /\ source.parts[i].head + 4 \in Nat
      /\ source.parts[i].data \in Nat
  BY SourceIsTyped
<1>2. /\ Run("boundary", i, 5) \in Seq(Bytes) /\ Len(Run("boundary", i, 5)) = 5
      /\ Run("crlf", i, 2) \in Seq(Bytes) /\ Len(Run("crlf", i, 2)) = 2
  BY <1>1, RunIsBytes
<1>3. /\ Header(i) \in Seq(Bytes)
      /\ Len(Header(i)) = source.parts[i].head + 4
  BY <1>1, RunIsBytes DEF Header
<1>4. Data(i) \in Seq(Bytes) /\ Len(Data(i)) = source.parts[i].data
  BY <1>1, RunIsBytes DEF Data
<1>5. Boundary(i) = Run("boundary", i, 5) /\ Crlf(i) = Run("crlf", i, 2)
  BY DEF Boundary, Crlf
<1>6. QED
  BY <1>2, <1>3, <1>4, <1>5

LEMMA ClosingIsTyped == Closing \in Seq(Bytes) /\ Len(Closing) = 7
<1>1. Closing = Run("closing", 0, 7)
  BY DEF Closing
<1>2. QED
  BY <1>1, RunIsBytes

LEMMA PartStreamIsTyped ==
  ASSUME source \in Sources, NEW i \in 1..Len(source.parts)
  PROVE  /\ PartStream(i) \in Seq(Bytes)
         /\ Len(PartStream(i)) = 5 + (source.parts[i].head + 4)
                                   + source.parts[i].data + 2
<1> DEFINE B == Boundary(i)
           H == Header(i)
           D1 == Data(i)
           C == Crlf(i)
<1>1. /\ B \in Seq(Bytes) /\ H \in Seq(Bytes)
      /\ D1 \in Seq(Bytes) /\ C \in Seq(Bytes)
      /\ Len(B) = 5 /\ Len(H) = source.parts[i].head + 4
      /\ Len(D1) = source.parts[i].data /\ Len(C) = 2
  BY PiecesAreTyped
<1>2. PartStream(i) = ((B \o H) \o D1) \o C
  BY DEF PartStream
<1> HIDE DEF B, H, D1, C
<1>3. B \o H \in Seq(Bytes) /\ Len(B \o H) = Len(B) + Len(H)
  BY <1>1, BytesConcat, Zenon
<1>4. /\ (B \o H) \o D1 \in Seq(Bytes)
      /\ Len((B \o H) \o D1) = Len(B \o H) + Len(D1)
  BY <1>1, <1>3, BytesConcat, Zenon
<1>5. /\ ((B \o H) \o D1) \o C \in Seq(Bytes)
      /\ Len(((B \o H) \o D1) \o C) = Len((B \o H) \o D1) + Len(C)
  BY <1>1, <1>4, BytesConcat, Zenon
<1>6. QED
  BY <1>1, <1>2, <1>3, <1>4, <1>5, Zenon

(* The recursive definition of Streamed is one.                            *)
LEMMA StreamedIsDefined ==
  ASSUME source \in Sources
  PROVE  /\ Streamed \in [0..Len(source.parts) -> Seq(Bytes)]
         /\ Streamed[0] = <<>>
         /\ \A i \in 1..Len(source.parts) :
               Streamed[i] = Streamed[i - 1] \o PartStream(i)
<1> DEFINE n == Len(source.parts)
           T == Seq(Bytes)
           F == [i \in 1..n |-> [t \in T |-> t \o PartStream(i)]]
<1>1. n \in Nat
  BY SourceIsTyped
<1>2. F \in [1..n -> [T -> T]]
  <2>1. ASSUME NEW i \in 1..n, NEW t \in T
        PROVE  t \o PartStream(i) \in T
    BY PartStreamIsTyped, BytesConcat
  <2>2. QED
    BY <2>1
<1>3. <<>> \in T
  BY EmptySeq
<1>4. PICK g \in [0..n -> T] :
         g[0] = <<>> /\ \A i \in 1..n : g[i] = F[i][g[i - 1]]
  <2>1. \E g \in [0..n -> T] : Recurs(g, n, <<>>, F)
    <3> HIDE DEF n, T, F
    <3>1. QED
      BY <1>1, <1>2, <1>3, Recursion, Zenon
  <2>2. QED
    BY <2>1, Zenon DEF Recurs
<1>5. ASSUME NEW i \in 0..n, i # 0
      PROVE  F[i][g[i - 1]] = g[i - 1] \o PartStream(i)
  <2>1. i \in 1..n /\ i - 1 \in 0..n
    BY <1>1, <1>5
  <2>2. g[i - 1] \in T
    BY <2>1
  <2>3. QED
    BY <2>1, <2>2
<1>6. g = [i \in 0..n |-> IF i = 0 THEN <<>> ELSE g[i - 1] \o PartStream(i)]
  <2> DEFINE G == [i \in 0..n |-> IF i = 0 THEN <<>>
                                  ELSE g[i - 1] \o PartStream(i)]
  <2>1. ASSUME NEW i \in 0..n
        PROVE  g[i] = G[i]
    <3>1. i # 0 => i \in 1..n
      BY <1>1
    <3>2. g[i] = IF i = 0 THEN <<>> ELSE g[i - 1] \o PartStream(i)
      BY <3>1, <1>4, <1>5, Zenon
    <3>3. QED
      BY <3>2, Zenon
  <2>2. g = [i \in 0..n |-> g[i]] /\ G = [i \in 0..n |-> G[i]]
    OBVIOUS
  <2>3. QED
    BY <2>1, <2>2, Zenon
<1>7. Streamed = [i \in 0..n |-> IF i = 0 THEN <<>>
                                 ELSE Streamed[i - 1] \o PartStream(i)]
  BY <1>6, Zenon DEF Streamed
<1>8. \A i \in 0..n : Streamed[i] = IF i = 0 THEN <<>>
                                    ELSE Streamed[i - 1] \o PartStream(i)
  BY <1>7, Zenon
<1>9. ASSUME NEW i \in 1..n
      PROVE  Streamed[i] = Streamed[i - 1] \o PartStream(i)
  <2>1. i \in 0..n /\ i # 0
    BY <1>1
  <2>2. QED
    BY <2>1, <1>8, Zenon
<1>10. Streamed[0] = <<>>
  <2>1. 0 \in 0..n
    BY <1>1
  <2>2. QED
    BY <2>1, <1>8, Zenon
<1>11. ASSUME NEW i \in 0..n
       PROVE  Streamed[i] \in T
  <2> DEFINE S == {k \in 0..n : Streamed[k] \in T}
  <2>1. 0 \in S
    <3>1. Streamed[0] \in T /\ 0 \in 0..n
      BY <1>1, <1>3, <1>10
    <3>2. QED
      BY <3>1
  <2>2. ASSUME NEW k \in 0..(n - 1), k \in S
        PROVE  k + 1 \in S
    <3>1. k + 1 \in 1..n /\ k + 1 \in 0..n /\ (k + 1) - 1 = k
      BY <1>1
    <3>2. Streamed[k + 1] = Streamed[k] \o PartStream(k + 1)
      BY <3>1, <1>9
    <3>3. Streamed[k + 1] \in T
      BY <3>1, <3>2, <2>2, PartStreamIsTyped, BytesConcat
    <3>4. QED
      BY <3>1, <3>3
  <2>3. 0..n \subseteq S
    <3> HIDE DEF S, n
    <3>1. QED
      BY <1>1, <2>1, <2>2, Induction
  <2>4. QED
    BY <2>3
<1>12. Streamed \in [0..n -> T]
  BY <1>7, <1>11
<1>13. QED
  BY <1>9, <1>10, <1>12

(* What compute_length adds for a part that knows its length.              *)
LEMMA PartLengthIsNat ==
  ASSUME NEW p, p.head \in Nat, p.len \in Nat
  PROVE  PartLength(p) \in Nat
<1> DEFINE h == p.head
           l == p.len
<1>1. h \in Nat /\ l \in Nat
  OBVIOUS
<1>2. PartLength(p) = 2 + 1 + 2 + h + 4 + l + 2
  BY DEF PartLength
<1> HIDE DEF h, l
<1>3. QED
  BY <1>1, <1>2

(* The lengths, when the parts know them.                                  *)
LEMMA LengthsAreDefined ==
  ASSUME source \in Sources,
         \A i \in 1..Len(source.parts) : source.parts[i].len # None
  PROVE  /\ Lengths \in [0..Len(source.parts) -> Nat]
         /\ Lengths[0] = 0
         /\ \A i \in 1..Len(source.parts) :
               Lengths[i] = Lengths[i - 1] + PartLength(source.parts[i])
<1> DEFINE n == Len(source.parts)
           L(i) == PartLength(source.parts[i])
           F == [i \in 1..n |-> [t \in Nat |-> t + L(i)]]
<1>1. n \in Nat
  BY SourceIsTyped
<1>2. ASSUME NEW i \in 1..n
      PROVE  L(i) \in Nat
  <2>1. source.parts[i].len \in Nat /\ source.parts[i].head \in Nat
    BY SourceIsTyped
  <2>2. QED
    BY <2>1, PartLengthIsNat
<1> HIDE DEF n, L
<1>3. F \in [1..n -> [Nat -> Nat]]
  BY <1>2
<1>4. PICK g \in [0..n -> Nat] :
         g[0] = 0 /\ \A i \in 1..n : g[i] = F[i][g[i - 1]]
  <2>1. \E g \in [0..n -> Nat] : Recurs(g, n, 0, F)
    <3>1. 0 \in Nat
      OBVIOUS
    <3> HIDE DEF F
    <3>2. QED
      BY <1>1, <1>3, <3>1, Recursion, Zenon
  <2>2. QED
    BY <2>1, Zenon DEF Recurs
<1>5. ASSUME NEW i \in 0..n, i # 0
      PROVE  g[i] = g[i - 1] + L(i)
  <2>1. i \in 1..n /\ i - 1 \in 0..n
    BY <1>1, <1>5
  <2>2. g[i - 1] \in Nat
    BY <2>1
  <2>3. QED
    BY <2>1, <2>2, <1>4
<1>6. g = [i \in 0..n |-> IF i = 0 THEN 0 ELSE g[i - 1] + L(i)]
  <2> DEFINE G == [i \in 0..n |-> IF i = 0 THEN 0 ELSE g[i - 1] + L(i)]
  <2>1. \A i \in 0..n : g[i] = G[i]
    BY <1>4, <1>5
  <2>2. g = [i \in 0..n |-> g[i]] /\ G = [i \in 0..n |-> G[i]]
    OBVIOUS
  <2>3. QED
    BY <2>1, <2>2, Zenon
<1>7. Lengths = [i \in 0..n |-> IF i = 0 THEN 0 ELSE Lengths[i - 1] + L(i)]
  BY <1>6, Zenon DEF Lengths, n, L
<1>8. \A i \in 0..n : Lengths[i] = IF i = 0 THEN 0 ELSE Lengths[i - 1] + L(i)
  BY <1>7, Zenon
<1>9. ASSUME NEW i \in 1..n
      PROVE  Lengths[i] = Lengths[i - 1] + L(i)
  <2>1. i \in 0..n /\ i # 0
    BY <1>1
  <2>2. QED
    BY <2>1, <1>8, Zenon
<1>10. Lengths[0] = 0
  <2>1. 0 \in 0..n
    BY <1>1
  <2>2. QED
    BY <2>1, <1>8, Zenon
<1>11. 0..n \subseteq {k \in 0..n : Lengths[k] \in Nat}
  <2> DEFINE S == {k \in 0..n : Lengths[k] \in Nat}
  <2>1. 0 \in S
    BY <1>1, <1>10
  <2>2. ASSUME NEW k \in 0..(n - 1), k \in S
        PROVE  k + 1 \in S
    <3>1. k + 1 \in 1..n /\ k + 1 \in 0..n /\ (k + 1) - 1 = k
      BY <1>1
    <3>2. Lengths[k + 1] = Lengths[k] + L(k + 1)
      BY <3>1, <1>9
    <3>3. Lengths[k] \in Nat /\ L(k + 1) \in Nat
      BY <3>1, <2>2, <1>2
    <3>4. QED
      BY <3>1, <3>2, <3>3
  <2>3. QED
    <3> HIDE DEF S
    <3>1. 0..n \subseteq S
      BY <1>1, <2>1, <2>2, Induction
    <3>2. QED
      BY <3>1 DEF S
<1>12. Lengths \in [0..n -> Nat]
  BY <1>7, <1>11
<1>13. QED
  BY <1>9, <1>10, <1>12 DEF n, L

(* Each part is as long as compute_length says.                            *)
LEMMA LengthsOfStreams ==
  ASSUME source \in Sources, Truthful,
         \A i \in 1..Len(source.parts) : source.parts[i].len # None,
         NEW i \in 0..Len(source.parts)
  PROVE  Len(Streamed[i]) = Lengths[i]
<1> DEFINE n == Len(source.parts)
           S == {k \in 0..n : Len(Streamed[k]) = Lengths[k]}
<1>1. n \in Nat
  BY SourceIsTyped
<1>2. 0 \in S
  BY <1>1, StreamedIsDefined, LengthsAreDefined, EmptySeq
<1>3. ASSUME NEW k \in 0..(n - 1), k \in S
      PROVE  k + 1 \in S
  <2>1. k + 1 \in 1..n /\ k + 1 \in 0..n /\ (k + 1) - 1 = k /\ k \in 0..n
    BY <1>1
  <2>2. Streamed[k + 1] = Streamed[k] \o PartStream(k + 1)
    BY <2>1, StreamedIsDefined
  <2>3. Streamed[k] \in Seq(Bytes) /\ PartStream(k + 1) \in Seq(Bytes)
    BY <2>1, StreamedIsDefined, PartStreamIsTyped
  <2>4. Len(Streamed[k + 1]) = Len(Streamed[k]) + Len(PartStream(k + 1))
    <3>1. Len(Streamed[k] \o PartStream(k + 1)) =
             Len(Streamed[k]) + Len(PartStream(k + 1))
      BY <2>3, BytesConcat, Zenon
    <3>2. QED
      BY <2>2, <3>1, Zenon
  <2>5. Lengths[k + 1] = Lengths[k] + PartLength(source.parts[k + 1])
    BY <2>1, LengthsAreDefined
  <2>6. Len(PartStream(k + 1)) = 5 + (source.parts[k + 1].head + 4)
                                   + source.parts[k + 1].data + 2
    BY <2>1, PartStreamIsTyped
  <2>7. source.parts[k + 1].len = source.parts[k + 1].data
    <3>1. k + 1 \in DOMAIN source.parts
      BY <2>1, SourceIsTyped, LenProperties
    <3>2. QED
      BY <2>1, <3>1 DEF Truthful
  <2>8. source.parts[k + 1].head \in Nat /\ source.parts[k + 1].data \in Nat
    BY <2>1, SourceIsTyped
  <2>9. PartLength(source.parts[k + 1]) = Len(PartStream(k + 1))
    <3> DEFINE p == source.parts[k + 1]
    <3>1. /\ Len(PartStream(k + 1)) = 5 + (p.head + 4) + p.data + 2
          /\ p.len = p.data /\ p.head \in Nat /\ p.data \in Nat
      BY <2>6, <2>7, <2>8, Zenon
    <3> HIDE DEF p
    <3>2. PartLength(p) = 2 + 1 + 2 + p.head + 4 + p.data + 2
      BY <3>1, Zenon DEF PartLength
    <3>3. 2 + 1 + 2 + p.head + 4 + p.data + 2 = 5 + (p.head + 4) + p.data + 2
      BY <3>1
    <3>4. QED
      BY <3>1, <3>2, <3>3, Zenon DEF p
  <2>10. QED
    BY <1>3, <2>1, <2>4, <2>5, <2>9
<1>4. 0..n \subseteq S
  <2> HIDE DEF S, n
  <2>1. QED
    BY <1>1, <1>2, <1>3, Induction
<1>5. QED
  BY <1>4

(* A form of which the length is known has parts that know theirs.         *)
LEMMA MeasuredWhole ==
  ASSUME source \in Sources, ~(Measured < Len(source.parts))
  PROVE  \A i \in 1..Len(source.parts) : source.parts[i].len # None
<1> DEFINE n == Len(source.parts)
           unknown == {i \in 1..n : source.parts[i].len = None}
<1> SUFFICES ASSUME unknown # {}
             PROVE  FALSE
  OBVIOUS
<1>1. n \in Nat
  BY SourceIsTyped
<1>2. Measured = Min(unknown) - 1
  BY DEF Measured
<1>3. Min(unknown) \in unknown
  <2>1. unknown \subseteq 1..n
    OBVIOUS
  <2> HIDE DEF unknown
  <2>2. \E m \in unknown : \A k \in unknown : m <= k
    <3> DEFINE S == {k \in 0..n : \A j \in 1..k : j \notin unknown}
    <3> SUFFICES ASSUME \A m \in unknown : \E k \in unknown : k < m
                 PROVE  FALSE
      BY <1>1, <2>1
    <3>1. 0 \in S
      BY <1>1
    <3>2. ASSUME NEW k \in 0..(n - 1), k \in S
          PROVE  k + 1 \in S
      <4>1. k + 1 \notin unknown
        <5>1. ASSUME k + 1 \in unknown
              PROVE  FALSE
          <6>1. PICK j \in unknown : j < k + 1
            BY <5>1
          <6>2. j \in 1..k
            BY <6>1, <2>1
          <6>3. QED
            BY <3>2, <6>1, <6>2
        <5>2. QED
          BY <5>1
      <4>2. QED
        BY <4>1, <3>2, <1>1
    <3>3. 0..n \subseteq S
      <4> HIDE DEF S, n
      <4>1. QED
        BY <1>1, <3>1, <3>2, Induction
    <3>4. n \in S
      BY <3>3, <1>1
    <3>5. \A j \in 1..n : j \notin unknown
      BY <3>4
    <3>6. QED
      BY <3>5, <2>1
  <2>3. QED
    BY <2>2 DEF Min
<1>4. QED
  BY <1>1, <1>2, <1>3

(* FormLengthIsExact of the runs, for any form.                            *)
LEMMA LengthIsExact ==
  ASSUME source \in Sources
  PROVE  FormLengthIsExact
<1> SUFFICES ASSUME source.form, Truthful, ComputeLength # None
             PROVE  ComputeLength = Len(IntoStream)
  BY DEF FormLengthIsExact
<1>1. ~(Measured < Len(source.parts))
  BY DEF ComputeLength
<1>2. \A i \in 1..Len(source.parts) : source.parts[i].len # None
  BY <1>1, MeasuredWhole
<1>3. Len(source.parts) \in 0..Len(source.parts)
  BY SourceIsTyped
<1>4. Len(Streamed[Len(source.parts)]) = Lengths[Len(source.parts)]
  BY <1>2, <1>3, LengthsOfStreams
<1>5. CASE source.parts = <<>>
  <2>1. Len(source.parts) = 0 /\ IntoStream = <<>>
    BY <1>5, EmptySeq DEF IntoStream
  <2>2. Lengths[0] = 0
    BY <1>2, LengthsAreDefined
  <2>3. ComputeLength = 0
    BY <1>1, <1>5, <2>1, <2>2 DEF ComputeLength
  <2>4. QED
    BY <2>1, <2>3, EmptySeq
<1>6. CASE source.parts # <<>>
  <2>1. ComputeLength = Lengths[Len(source.parts)] + 7
    BY <1>1, <1>6 DEF ComputeLength
  <2>2. IntoStream = Streamed[Len(source.parts)] \o Closing
    BY <1>6 DEF IntoStream
  <2>3. Streamed[Len(source.parts)] \in Seq(Bytes)
    BY <1>3, StreamedIsDefined
  <2>4. Len(IntoStream) = Len(Streamed[Len(source.parts)]) + 7
    <3>1. Len(Streamed[Len(source.parts)] \o Closing) =
             Len(Streamed[Len(source.parts)]) + Len(Closing)
      BY <2>3, ClosingIsTyped, BytesConcat, Zenon
    <3>2. QED
      BY <2>2, <3>1, ClosingIsTyped, Zenon
  <2>5. QED
    BY <1>4, <2>1, <2>4
<1>7. QED
  BY <1>5, <1>6

(* What a body holds is bytes.                                             *)
LEMMA ContentIsTyped ==
  ASSUME source \in Sources
  PROVE  Content \in Seq(Bytes) /\ Len(Content) \in Nat
<1>1. CASE ~source.form
  <2>1. 1 \in 1..Len(source.parts)
    <3>1. Len(source.parts) = 1
      BY <1>1, SourceIsTyped
    <3>2. QED
      BY <3>1
  <2>2. Data(1) \in Seq(Bytes)
    BY <2>1, PiecesAreTyped
  <2>3. Content = Data(1)
    BY <1>1, Zenon DEF Content
  <2>4. QED
    BY <2>2, <2>3, LenProperties
<1>2. CASE source.form /\ source.parts = <<>>
  <2>1. Content = <<>>
    BY <1>2, Zenon DEF Content, IntoStream
  <2>2. QED
    BY <2>1, EmptySeq
<1>3. CASE source.form /\ source.parts # <<>>
  <2>1. Content = Streamed[Len(source.parts)] \o Closing
    BY <1>3, Zenon DEF Content, IntoStream
  <2>2. Len(source.parts) \in 0..Len(source.parts)
    BY SourceIsTyped
  <2>3. Streamed[Len(source.parts)] \in Seq(Bytes)
    BY <2>2, StreamedIsDefined
  <2>4. Streamed[Len(source.parts)] \o Closing \in Seq(Bytes)
    BY <2>3, ClosingIsTyped, BytesConcat, Zenon
  <2>5. QED
    BY <2>1, <2>4, LenProperties
<1>4. QED
  BY <1>1, <1>2, <1>3

(* --- Where the bytes of a body are ------------------------------------- *)

LEMMA BytesOf ==
  ASSUME NEW b \in Seq(Bytes)
  PROVE  Len(b) \in Nat /\ DOMAIN b = 1..Len(b)
  BY LenProperties

LEMMA EmptyFollows ==
  ASSUME NEW n \in 0..Len(Content)
  PROVE  Follows(<<>>, n)
  BY EmptySeq DEF Follows

(* Bytes that follow, and the bytes that follow them.                      *)
LEMMA FollowsConcat ==
  ASSUME source \in Sources, NEW a \in Seq(Bytes), NEW b \in Seq(Bytes),
         NEW n \in Nat
  PROVE  Follows(a \o b, n) <=> Follows(a, n) /\ Follows(b, n + Len(a))
<1> DEFINE c == a \o b
<1>1. /\ Len(a) \in Nat /\ Len(b) \in Nat
      /\ Len(c) = Len(a) + Len(b)
      /\ DOMAIN a = 1..Len(a) /\ DOMAIN b = 1..Len(b)
      /\ DOMAIN c = 1..(Len(a) + Len(b))
      /\ \A k \in 1..Len(a) : c[k] = a[k]
      /\ \A k \in 1..Len(b) : c[Len(a) + k] = b[k]
  BY BytesConcat, Zenon
<1> HIDE DEF c
<1>2. ASSUME Follows(c, n), Len(Content) \in Nat
      PROVE  Follows(a, n) /\ Follows(b, n + Len(a))
  <2>1. \A k \in 1..(Len(a) + Len(b)) : c[k] = Content[n + k]
    BY <1>1, <1>2 DEF Follows
  <2>2. \A k \in 1..Len(a) : a[k] = Content[n + k]
    BY <1>1, <2>1
  <2>3. ASSUME NEW k \in 1..Len(b)
        PROVE  b[k] = Content[(n + Len(a)) + k]
    <3>1. /\ Len(a) + k \in 1..(Len(a) + Len(b))
          /\ n + (Len(a) + k) = (n + Len(a)) + k
      BY <1>1
    <3>2. QED
      BY <3>1, <2>1, <1>1
  <2>4. n + (Len(a) + Len(b)) <= Len(Content)
    BY <1>1, <1>2 DEF Follows
  <2>5. n + Len(a) <= Len(Content) /\ (n + Len(a)) + Len(b) <= Len(Content)
    BY <1>1, <1>2, <2>4
  <2>6. QED
    BY <1>1, <2>2, <2>3, <2>5 DEF Follows
<1>3. ASSUME Follows(a, n), Follows(b, n + Len(a))
      PROVE  Follows(c, n)
  <2>1. \A k \in 1..Len(a) : c[k] = Content[n + k]
    BY <1>1, <1>3 DEF Follows
  <2>2. ASSUME NEW k \in 1..(Len(a) + Len(b)), ~(k \in 1..Len(a))
        PROVE  c[k] = Content[n + k]
    <3>1. /\ k - Len(a) \in 1..Len(b) /\ Len(a) + (k - Len(a)) = k
          /\ (n + Len(a)) + (k - Len(a)) = n + k
      BY <1>1, <2>2
    <3>2. b[k - Len(a)] = Content[(n + Len(a)) + (k - Len(a))]
      BY <1>1, <1>3, <3>1 DEF Follows
    <3>3. c[Len(a) + (k - Len(a))] = b[k - Len(a)]
      BY <1>1, <3>1
    <3>4. QED
      BY <3>1, <3>2, <3>3
  <2>3. n + (Len(a) + Len(b)) <= Len(Content)
    <3>1. (n + Len(a)) + Len(b) <= Len(Content)
      BY <1>3 DEF Follows
    <3>2. QED
      BY <1>1, <3>1
  <2>4. QED
    BY <1>1, <2>1, <2>2, <2>3 DEF Follows
<1>4. Len(Content) \in Nat
  BY ContentIsTyped
<1>5. QED
  BY <1>2, <1>3, <1>4 DEF c

(* Bytes that follow, cut in two.                                          *)
LEMMA FollowsSplit ==
  ASSUME source \in Sources, NEW b \in Seq(Bytes), NEW n \in Nat,
         Follows(b, n), NEW m \in 0..Len(b)
  PROVE  /\ SubSeq(b, 1, m) \in Seq(Bytes) /\ Len(SubSeq(b, 1, m)) = m
         /\ SubSeq(b, m + 1, Len(b)) \in Seq(Bytes)
         /\ Len(SubSeq(b, m + 1, Len(b))) = Len(b) - m
         /\ Follows(SubSeq(b, 1, m), n)
         /\ Follows(SubSeq(b, m + 1, Len(b)), n + m)
<1> DEFINE x == SubSeq(b, 1, m)
           y == SubSeq(b, m + 1, Len(b))
<1>1. Len(b) \in Nat /\ m \in Nat /\ DOMAIN b = 1..Len(b)
      /\ \A k \in 1..Len(b) : b[k] \in Bytes
  BY LenProperties, ElementOfSeq
<1>2. x \in Seq(Bytes) /\ Len(x) = m /\ \A k \in 1..m : x[k] = b[k]
  <2>1. 1 \in Int /\ m \in Int /\ \A k \in 1..m : b[k] \in Bytes
    BY <1>1
  <2>2. /\ x \in Seq(Bytes) /\ Len(x) = IF 1 <= m THEN m - 1 + 1 ELSE 0
        /\ \A k \in 1..(m - 1 + 1) : x[k] = b[1 + k - 1]
    BY <2>1, SubSeqProperties
  <2>3. QED
    BY <2>2, <1>1
<1>3. /\ y \in Seq(Bytes) /\ Len(y) = Len(b) - m
      /\ \A k \in 1..(Len(b) - m) : y[k] = b[m + k]
  <2>1. /\ m + 1 \in Int /\ Len(b) \in Int
        /\ \A k \in (m + 1)..Len(b) : b[k] \in Bytes
    BY <1>1
  <2>2. /\ y \in Seq(Bytes)
        /\ Len(y) = IF m + 1 <= Len(b) THEN Len(b) - (m + 1) + 1 ELSE 0
        /\ \A k \in 1..(Len(b) - (m + 1) + 1) : y[k] = b[(m + 1) + k - 1]
    BY <2>1, SubSeqProperties
  <2>3. Len(y) = Len(b) - m
    <3> HIDE DEF y
    <3>1. CASE m + 1 <= Len(b)
      BY <2>2, <1>1, <3>1
    <3>2. CASE ~(m + 1 <= Len(b))
      <4>1. m = Len(b) /\ Len(b) - m = 0
        <5>1. m \in Int /\ Len(b) \in Int /\ m <= Len(b)
          BY <1>1
        <5>2. QED
          BY <5>1, <3>2
      <4>2. Len(y) = 0
        BY <2>2, <3>2, Zenon
      <4>3. QED
        BY <4>1, <4>2
    <3>3. QED
      BY <3>1, <3>2
  <2>4. ASSUME NEW k \in 1..(Len(b) - m)
        PROVE  y[k] = b[m + k]
    <3>1. k \in 1..(Len(b) - (m + 1) + 1) /\ (m + 1) + k - 1 = m + k
      BY <1>1
    <3>2. QED
      BY <2>2, <3>1
  <2>5. QED
    BY <2>2, <2>3, <2>4
<1>4. n + Len(b) <= Len(Content)
      /\ \A k \in 1..Len(b) : b[k] = Content[n + k]
  BY <1>1 DEF Follows
<1>5. Len(Content) \in Nat
  BY ContentIsTyped
<1>6. DOMAIN x = 1..m /\ DOMAIN y = 1..(Len(b) - m)
  BY <1>2, <1>3, LenProperties
<1> HIDE DEF x, y
<1>7. Follows(x, n)
  BY <1>1, <1>2, <1>4, <1>5, <1>6 DEF Follows
<1>8. Follows(y, n + m)
  <2>1. ASSUME NEW k \in 1..(Len(b) - m)
        PROVE  y[k] = Content[(n + m) + k]
    <3>1. m + k \in 1..Len(b) /\ n + (m + k) = (n + m) + k
      BY <1>1
    <3>2. QED
      BY <1>3, <1>4, <3>1
  <2>2. (n + m) + (Len(b) - m) <= Len(Content)
    BY <1>1, <1>4, <1>5
  <2>3. QED
    BY <2>1, <2>2, <1>3, <1>6 DEF Follows
<1>9. QED
  BY <1>2, <1>3, <1>7, <1>8 DEF x, y

(* A body follows its own beginning.                                       *)
LEMMA ContentFollows ==
  ASSUME source \in Sources
  PROVE  Follows(Content, 0)
<1>1. Len(Content) \in Nat /\ DOMAIN Content = 1..Len(Content)
  BY ContentIsTyped, LenProperties
<1>2. QED
  BY <1>1 DEF Follows

(* What follows nothing and is as long as the body is the body.            *)
LEMMA WholeIsContent ==
  ASSUME source \in Sources, NEW b \in Seq(Bytes), Follows(b, 0),
         Len(b) = Len(Content)
  PROVE  b = Content
<1>1. Content \in Seq(Bytes) /\ Len(Content) \in Nat
  BY ContentIsTyped
<1>2. DOMAIN b = 1..Len(b)
  BY LenProperties
<1>3. \A k \in 1..Len(b) : b[k] = Content[k]
  BY <1>1, <1>2 DEF Follows
<1>4. QED
  BY <1>1, <1>3, SeqEqual

(* Of a form, each part has its place.                                     *)
LEMMA StreamedFollows ==
  ASSUME source \in Sources, source.form, NEW i \in 0..Len(source.parts)
  PROVE  Follows(Streamed[i], 0)
<1> DEFINE n == Len(source.parts)
           S == {k \in 0..n : Follows(Streamed[n - k], 0)}
<1>1. n \in Nat
  BY SourceIsTyped
<1>2. 0 \in S
  <2>1. n - 0 = n /\ n \in 0..n
    BY <1>1
  <2>2. Streamed[n] \in Seq(Bytes)
    BY <2>1, StreamedIsDefined
  <2>3. CASE source.parts = <<>>
    <3>1. n = 0 /\ Content = <<>>
      BY <2>3, EmptySeq DEF Content, IntoStream
    <3>2. Streamed[n] = Content
      BY <3>1, StreamedIsDefined
    <3>3. Follows(Streamed[n], 0)
      BY <3>2, ContentFollows
    <3>4. QED
      BY <3>3, <2>1
  <2>4. CASE source.parts # <<>>
    <3>1. Content = Streamed[n] \o Closing
      BY <2>4, Zenon DEF Content, IntoStream
    <3>2. Follows(Streamed[n] \o Closing, 0)
      BY <3>1, ContentFollows
    <3>3. Follows(Streamed[n], 0)
      BY <2>2, <3>2, ClosingIsTyped, FollowsConcat
    <3>4. QED
      BY <3>3, <2>1
  <2>5. QED
    BY <2>3, <2>4
<1>3. ASSUME NEW k \in 0..(n - 1), k \in S
      PROVE  k + 1 \in S
  <2>1. /\ k + 1 \in 0..n /\ n - k \in 1..n /\ (n - k) - 1 = n - (k + 1)
        /\ n - (k + 1) \in 0..n
    BY <1>1
  <2>2. Streamed[n - k] = Streamed[n - (k + 1)] \o PartStream(n - k)
    BY <2>1, StreamedIsDefined
  <2>3. /\ Streamed[n - (k + 1)] \in Seq(Bytes)
        /\ PartStream(n - k) \in Seq(Bytes)
    BY <2>1, StreamedIsDefined, PartStreamIsTyped
  <2>4. Follows(Streamed[n - (k + 1)] \o PartStream(n - k), 0)
    BY <1>3, <2>2
  <2>5. Follows(Streamed[n - (k + 1)], 0)
    BY <2>3, <2>4, FollowsConcat
  <2>6. QED
    BY <2>1, <2>5
<1>4. 0..n \subseteq S
  <2> HIDE DEF S, n
  <2>1. QED
    BY <1>1, <1>2, <1>3, Induction
<1>5. n - i \in 0..n /\ n - (n - i) = i
  BY <1>1
<1>6. QED
  BY <1>4, <1>5

(* A part's pieces are in the body behind the parts before it.             *)
LEMMA PiecesFollow ==
  ASSUME source \in Sources, source.form, NEW i \in 1..Len(source.parts)
  PROVE  /\ Len(Streamed[i - 1]) \in Nat
         /\ Follows(Boundary(i), Len(Streamed[i - 1]))
         /\ Follows(Header(i), Len(Streamed[i - 1]) + 5)
         /\ Follows(Data(i), Len(Streamed[i - 1]) + 5 + Len(Header(i)))
         /\ Follows(Crlf(i), Len(Streamed[i - 1]) + 5 + Len(Header(i))
                             + Len(Data(i)))
         /\ Len(Streamed[i]) = Len(Streamed[i - 1]) + 5 + Len(Header(i))
                               + Len(Data(i)) + 2
<1> DEFINE B == Boundary(i)
           H == Header(i)
           D1 == Data(i)
           C == Crlf(i)
           before == Streamed[i - 1]
           from == Len(before)
<1>1. i - 1 \in 0..Len(source.parts) /\ i \in 0..Len(source.parts)
  BY SourceIsTyped
<1>2. before \in Seq(Bytes) /\ from \in Nat
  BY <1>1, StreamedIsDefined, LenProperties
<1>3. /\ B \in Seq(Bytes) /\ H \in Seq(Bytes)
      /\ D1 \in Seq(Bytes) /\ C \in Seq(Bytes)
      /\ Len(B) = 5 /\ Len(C) = 2
  BY PiecesAreTyped
<1>4. Streamed[i] = before \o (((B \o H) \o D1) \o C)
  BY StreamedIsDefined DEF PartStream
<1>5. Follows(Streamed[i], 0)
  BY <1>1, StreamedFollows
<1> HIDE DEF B, H, D1, C, before
<1>6. /\ B \o H \in Seq(Bytes) /\ Len(B \o H) = Len(B) + Len(H)
      /\ Len(H) \in Nat /\ Len(D1) \in Nat
  <2>1. B \o H \in Seq(Bytes) /\ Len(B \o H) = Len(B) + Len(H)
    <3>1. B \in Seq(Bytes) /\ H \in Seq(Bytes)
      BY <1>3
    <3>2. QED
      BY <3>1, ConcatLength, Zenon
  <2>2. Len(H) \in Nat /\ Len(D1) \in Nat
    BY <1>3, LenProperties
  <2>3. QED
    BY <2>1, <2>2
<1>7. /\ (B \o H) \o D1 \in Seq(Bytes)
      /\ Len((B \o H) \o D1) = Len(B \o H) + Len(D1)
  BY <1>3, <1>6, ConcatLength, Zenon
<1>8. /\ ((B \o H) \o D1) \o C \in Seq(Bytes)
      /\ Len(((B \o H) \o D1) \o C) = Len((B \o H) \o D1) + Len(C)
  BY <1>3, <1>7, ConcatLength, Zenon
<1>9. Len(Streamed[i]) = from + Len(((B \o H) \o D1) \o C)
  <2>1. Len(before \o (((B \o H) \o D1) \o C))
           = Len(before) + Len(((B \o H) \o D1) \o C)
    BY <1>2, <1>8, ConcatLength, Zenon
  <2>2. QED
    BY <1>4, <2>1, Zenon
<1>10. Follows(((B \o H) \o D1) \o C, 0 + from)
  <2>1. Follows(before \o (((B \o H) \o D1) \o C), 0)
    BY <1>4, <1>5, Zenon
  <2>2. QED
    BY <1>2, <1>8, <2>1, FollowsConcat, 0 \in Nat, Zenon
<1>11. 0 + from = from
  BY <1>2
<1>12. /\ Follows((B \o H) \o D1, from)
       /\ Follows(C, from + Len((B \o H) \o D1))
  BY <1>2, <1>3, <1>7, <1>10, <1>11, FollowsConcat, Zenon
<1>13. Follows(B \o H, from) /\ Follows(D1, from + Len(B \o H))
  BY <1>2, <1>3, <1>6, <1>12, FollowsConcat, Zenon
<1>14. Follows(B, from) /\ Follows(H, from + Len(B))
  BY <1>2, <1>3, <1>13, FollowsConcat, Zenon
<1>15. /\ from + Len(B) = from + 5
       /\ from + Len(B \o H) = from + 5 + Len(H)
       /\ from + Len((B \o H) \o D1) = from + 5 + Len(H) + Len(D1)
       /\ Len(Streamed[i]) = from + 5 + Len(H) + Len(D1) + 2
  <2> DEFINE l1 == Len(B \o H)
             l2 == Len((B \o H) \o D1)
             l3 == Len(((B \o H) \o D1) \o C)
             l4 == Len(Streamed[i])
             h == Len(H)
             d == Len(D1)
  <2>1. /\ l1 = 5 + h /\ l2 = l1 + d /\ l3 = l2 + 2 /\ l4 = from + l3
        /\ h \in Nat /\ d \in Nat /\ from \in Nat
    BY <1>2, <1>3, <1>6, <1>7, <1>8, <1>9, Zenon
  <2>2. from + Len(B) = from + 5
    BY <1>3, Zenon
  <2> HIDE DEF l1, l2, l3, l4, h, d, from
  <2>3. /\ from + l1 = from + 5 + h
        /\ from + l2 = from + 5 + h + d
        /\ l4 = from + 5 + h + d + 2
    BY <2>1
  <2>4. QED
    BY <2>2, <2>3, Zenon DEF l1, l2, l3, l4, h, d
<1>16. /\ Follows(B, from) /\ Follows(H, from + 5)
       /\ Follows(D1, from + 5 + Len(H))
       /\ Follows(C, from + 5 + Len(H) + Len(D1))
  BY <1>12, <1>13, <1>14, <1>15, Zenon
<1>17. QED
  BY <1>2, <1>15, <1>16, Zenon DEF B, H, D1, C, before

(* The closing boundary is in the body behind the last part.               *)
LEMMA ClosingFollows ==
  ASSUME source \in Sources, source.form, source.parts # <<>>
  PROVE  /\ Follows(Closing, Len(Streamed[Len(source.parts)]))
         /\ Len(Content) = Len(Streamed[Len(source.parts)]) + 7
         /\ Len(Streamed[Len(source.parts)]) \in Nat
<1> DEFINE all == Streamed[Len(source.parts)]
<1>1. Len(source.parts) \in 0..Len(source.parts)
  BY SourceIsTyped
<1>2. all \in Seq(Bytes) /\ Len(all) \in Nat
  BY <1>1, StreamedIsDefined, LenProperties
<1>3. Content = all \o Closing
  BY Zenon DEF Content, IntoStream
<1>4. Follows(all \o Closing, 0)
  BY <1>3, ContentFollows
<1> HIDE DEF all
<1>5. Follows(Closing, 0 + Len(all))
  BY <1>2, <1>4, ClosingIsTyped, FollowsConcat, 0 \in Nat, Zenon
<1>6. 0 + Len(all) = Len(all)
  BY <1>2
<1>7. Len(all \o Closing) = Len(all) + Len(Closing)
  BY <1>2, ClosingIsTyped, BytesConcat, Zenon
<1>8. QED
  BY <1>2, <1>3, <1>5, <1>6, <1>7, ClosingIsTyped, Zenon DEF all

(* --- What a reader has left -------------------------------------------- *)

(* What readers still have is bytes.                                       *)
LEMMA SegmentsOf ==
  ASSUME NEW s \in Seq(Segments)
  PROVE  /\ Len(s) \in Nat /\ DOMAIN s = 1..Len(s)
         /\ \A k \in 1..Len(s) : /\ s[k] \in Segments
                                 /\ s[k].bytes \in Seq(Bytes)
                                 /\ Len(s[k].bytes) \in Nat
<1>1. Len(s) \in Nat /\ DOMAIN s = 1..Len(s)
  BY LenProperties
<1>2. ASSUME NEW k \in 1..Len(s)
      PROVE  /\ s[k] \in Segments /\ s[k].bytes \in Seq(Bytes)
             /\ Len(s[k].bytes) \in Nat
  <2>1. s[k] \in Segments
    BY ElementOfSeq
  <2>2. s[k].bytes \in Seq(Bytes)
    BY <2>1 DEF Segments
  <2>3. QED
    BY <2>1, <2>2, LenProperties
<1>3. QED
  BY <1>1, <1>2

(* A part's readers have what the body has in its place.                   *)
LEMMA ChainIsLaid ==
  ASSUME source \in Sources, source.form, NEW i \in 1..Len(source.parts)
  PROVE  LET chain == PartChain(i, Header(i), i = Len(source.parts))
         IN /\ chain \in Seq(Segments)
            /\ Laid(chain, Len(Streamed[i - 1]), Ending(i))
<1> DEFINE from == Len(Streamed[i - 1])
           h == Len(Header(i))
           d == Len(Data(i))
           S1 == Segment(Boundary(i), FALSE)
           S2 == Segment(Header(i), FALSE)
           S3 == Segment(Data(i), source.parts[i].reader)
           S4 == Segment(Crlf(i), FALSE)
           S5 == Segment(Closing, FALSE)
           last == i = Len(source.parts)
           four == <<S1, S2, S3, S4>>
           rest == IF last THEN <<S5>> ELSE <<>>
           chain == PartChain(i, Header(i), last)
           at == [k \in 1..6 |-> IF k = 1 THEN from
                                 ELSE IF k = 2 THEN from + 5
                                 ELSE IF k = 3 THEN from + 5 + h
                                 ELSE IF k = 4 THEN from + 5 + h + d
                                 ELSE IF k = 5 THEN from + 5 + h + d + 2
                                 ELSE from + 5 + h + d + 2 + 7]
<1>1. /\ S1 \in Segments /\ S2 \in Segments /\ S3 \in Segments
      /\ S4 \in Segments /\ S5 \in Segments
      /\ S1.bytes = Boundary(i) /\ S2.bytes = Header(i) /\ S3.bytes = Data(i)
      /\ S4.bytes = Crlf(i) /\ S5.bytes = Closing
  <2>1. source.parts[i].reader \in BOOLEAN
    BY SourceIsTyped
  <2>2. QED
    BY <2>1, PiecesAreTyped, ClosingIsTyped DEF Segment, Segments
<1>2. /\ from \in Nat /\ h \in Nat /\ d \in Nat
      /\ Len(Boundary(i)) = 5 /\ Len(Crlf(i)) = 2 /\ Len(Closing) = 7
  <2>1. h \in Nat /\ d \in Nat
    BY PiecesAreTyped, LenProperties
  <2>2. from \in Nat
    BY PiecesFollow
  <2>3. QED
    BY <2>1, <2>2, PiecesAreTyped, ClosingIsTyped
<1>3. chain = four \o rest
  BY DEF PartChain
<1>4. /\ Follows(Boundary(i), from) /\ Follows(Header(i), from + 5)
      /\ Follows(Data(i), from + 5 + h)
      /\ Follows(Crlf(i), from + 5 + h + d)
      /\ Len(Streamed[i]) = from + 5 + h + d + 2
  BY PiecesFollow
<1>5. /\ last => Follows(Closing, from + 5 + h + d + 2)
      /\ Ending(i) = IF last THEN from + 5 + h + d + 2 + 7
                     ELSE from + 5 + h + d + 2
  <2>1. CASE last
    <3>1. source.parts # <<>>
      BY EmptySeq
    <3>2. /\ Follows(Closing, Len(Streamed[i]))
          /\ Len(Content) = Len(Streamed[i]) + 7
      BY <2>1, <3>1, ClosingFollows
    <3>3. Ending(i) = Len(Content)
      BY <2>1, Zenon DEF Ending
    <3>4. QED
      BY <2>1, <3>2, <3>3, <1>4, Zenon
  <2>2. CASE ~last
    BY <2>2, <1>4, Zenon DEF Ending
  <2>3. QED
    BY <2>1, <2>2
<1> HIDE DEF S1, S2, S3, S4, S5, from, h, d
<1>6. four \in Seq(Segments) /\ Len(four) = 4
      /\ four[1] = S1 /\ four[2] = S2 /\ four[3] = S3 /\ four[4] = S4
  BY <1>1
<1> HIDE DEF four
<1>7. CASE last
  <2>1. rest = <<S5>> /\ rest \in Seq(Segments) /\ Len(rest) = 1
        /\ rest[1] = S5
    BY <1>7, <1>1
  <2> HIDE DEF rest
  <2>2. /\ chain \in Seq(Segments) /\ Len(chain) = 4 + 1
        /\ \A k \in 1..(4 + 1) :
              chain[k] = IF k <= 4 THEN four[k] ELSE rest[k - 4]
    <3>1. four \in Seq(Segments) /\ rest \in Seq(Segments)
      BY <1>6, <2>1
    <3>2. /\ four \o rest \in Seq(Segments)
          /\ Len(four \o rest) = Len(four) + Len(rest)
          /\ \A k \in 1..(Len(four) + Len(rest)) :
                (four \o rest)[k] = IF k <= Len(four) THEN four[k]
                                    ELSE rest[k - Len(four)]
      BY <3>1, ConcatProperties, Zenon
    <3>3. Len(four) = 4 /\ Len(rest) = 1
      BY <1>6, <2>1
    <3>4. QED
      BY <1>3, <3>2, <3>3, Zenon
  <2> HIDE DEF chain
  <2>3. /\ Len(chain) = 5 /\ DOMAIN chain = 1..5
        /\ chain[1] = S1 /\ chain[2] = S2 /\ chain[3] = S3 /\ chain[4] = S4
        /\ chain[5] = S5
    <3>1. /\ chain[1] = four[1] /\ chain[2] = four[2] /\ chain[3] = four[3]
          /\ chain[4] = four[4] /\ chain[5] = rest[1] /\ Len(chain) = 5
      BY <2>2
    <3>2. DOMAIN chain = 1..5
      BY <2>2, <3>1, LenProperties
    <3>3. QED
      BY <1>6, <2>1, <3>1, <3>2, Zenon
  <2>4. /\ at \in [1..6 -> Nat] /\ at[1] = from /\ at[2] = from + 5
        /\ at[3] = from + 5 + h /\ at[4] = from + 5 + h + d
        /\ at[5] = from + 5 + h + d + 2 /\ at[6] = from + 5 + h + d + 2 + 7
    BY <1>2
  <2> HIDE DEF at
  <2>5. ASSUME NEW k \in 1..5
        PROVE  /\ at[k + 1] = at[k] + Len(chain[k].bytes)
               /\ Follows(chain[k].bytes, at[k])
    <3>1. /\ Len(chain[1].bytes) = 5 /\ Len(chain[2].bytes) = h
          /\ Len(chain[3].bytes) = d /\ Len(chain[4].bytes) = 2
          /\ Len(chain[5].bytes) = 7
      BY <1>1, <1>2, <2>3 DEF h, d
    <3>2. /\ Follows(chain[1].bytes, at[1]) /\ Follows(chain[2].bytes, at[2])
          /\ Follows(chain[3].bytes, at[3]) /\ Follows(chain[4].bytes, at[4])
          /\ Follows(chain[5].bytes, at[5])
      BY <1>1, <1>4, <1>5, <1>7, <2>3, <2>4, Zenon
    <3>3. /\ at[2] = at[1] + Len(chain[1].bytes)
          /\ at[3] = at[2] + Len(chain[2].bytes)
          /\ at[4] = at[3] + Len(chain[3].bytes)
      BY <1>2, <2>4, <3>1, Zenon
    <3>4. /\ at[5] = at[4] + Len(chain[4].bytes)
          /\ at[6] = at[5] + Len(chain[5].bytes)
      BY <1>2, <2>4, <3>1, Zenon
    <3>5. k = 1 \/ k = 2 \/ k = 3 \/ k = 4 \/ k = 5
      OBVIOUS
    <3>6. 1 + 1 = 2 /\ 2 + 1 = 3 /\ 3 + 1 = 4 /\ 4 + 1 = 5 /\ 5 + 1 = 6
      OBVIOUS
    <3>7. QED
      BY <3>2, <3>3, <3>4, <3>5, <3>6, Zenon
  <2>6. Ending(i) = at[6]
    BY <1>5, <1>7, <2>4
  <2>7. Laid(chain, from, Ending(i))
    <3>1. 6 = Len(chain) + 1
      BY <2>3
    <3>2. /\ at \in [1..Len(chain) + 1 -> Nat] /\ at[1] = from
          /\ at[Len(chain) + 1] = Ending(i)
      BY <2>4, <2>6, <3>1, Zenon
    <3>3. QED
      BY <2>3, <2>5, <3>2, Zenon DEF Laid
  <2>8. QED
    BY <2>2, <2>7 DEF chain, from
<1>8. CASE ~last
  <2>1. rest = <<>> /\ rest \in Seq(Segments)
    BY <1>8, EmptySeq
  <2>2. chain = four
    BY <1>3, <1>6, <2>1, ConcatEmptySeq, Zenon
  <2> HIDE DEF chain
  <2>3. /\ chain \in Seq(Segments) /\ Len(chain) = 4 /\ DOMAIN chain = 1..4
        /\ chain[1] = S1 /\ chain[2] = S2 /\ chain[3] = S3 /\ chain[4] = S4
    <3>1. DOMAIN four = 1..4
      BY <1>6, LenProperties
    <3>2. QED
      BY <1>6, <2>2, <3>1, Zenon
  <2> DEFINE to == [k \in 1..5 |-> at[k]]
  <2>4. /\ to \in [1..5 -> Nat] /\ to[1] = from /\ to[2] = from + 5
        /\ to[3] = from + 5 + h /\ to[4] = from + 5 + h + d
        /\ to[5] = from + 5 + h + d + 2
    BY <1>2
  <2> HIDE DEF at, to
  <2>5. ASSUME NEW k \in 1..4
        PROVE  /\ to[k + 1] = to[k] + Len(chain[k].bytes)
               /\ Follows(chain[k].bytes, to[k])
    <3>1. /\ Len(chain[1].bytes) = 5 /\ Len(chain[2].bytes) = h
          /\ Len(chain[3].bytes) = d /\ Len(chain[4].bytes) = 2
      BY <1>1, <1>2, <2>3 DEF h, d
    <3>2. /\ Follows(chain[1].bytes, to[1]) /\ Follows(chain[2].bytes, to[2])
          /\ Follows(chain[3].bytes, to[3]) /\ Follows(chain[4].bytes, to[4])
      BY <1>1, <1>4, <2>3, <2>4, Zenon
    <3>3. /\ to[2] = to[1] + Len(chain[1].bytes)
          /\ to[3] = to[2] + Len(chain[2].bytes)
          /\ to[4] = to[3] + Len(chain[3].bytes)
          /\ to[5] = to[4] + Len(chain[4].bytes)
      BY <1>2, <2>4, <3>1, Zenon
    <3>4. k = 1 \/ k = 2 \/ k = 3 \/ k = 4
      OBVIOUS
    <3>5. /\ 1 + 1 = 2 /\ 2 + 1 = 3 /\ 3 + 1 = 4 /\ 4 + 1 = 5
      OBVIOUS
    <3>6. QED
      BY <3>2, <3>3, <3>4, <3>5, Zenon
  <2>6. Ending(i) = to[5]
    BY <1>5, <1>8, <2>4
  <2>7. Laid(chain, from, Ending(i))
    <3>1. 5 = Len(chain) + 1
      BY <2>3
    <3>2. /\ to \in [1..Len(chain) + 1 -> Nat] /\ to[1] = from
          /\ to[Len(chain) + 1] = Ending(i)
      BY <2>4, <2>6, <3>1, Zenon
    <3>3. QED
      BY <2>3, <2>5, <3>2, Zenon DEF Laid
  <2>8. QED
    BY <2>3, <2>7 DEF chain, from
<1>9. QED
  BY <1>7, <1>8

(* Places in what is laid out do not go back.                              *)
LEMMA EmptyTakesNoPlace ==
  ASSUME NEW s \in Seq(Segments), NEW m \in 0..Len(s),
         NEW at \in [1..Len(s) + 1 -> Nat],
         \A k \in DOMAIN s : at[k + 1] = at[k] + Len(s[k].bytes),
         \A k \in 1..m : s[k].bytes = <<>>
  PROVE  at[m + 1] = at[1]
<1> DEFINE S == {k \in 0..m : at[k + 1] = at[1]}
<1>1. /\ m \in Nat /\ Len(s) \in Nat /\ DOMAIN s = 1..Len(s)
  BY SegmentsOf
<1>2. 0 \in S
  BY <1>1
<1>3. ASSUME NEW k \in 0..(m - 1), k \in S
      PROVE  k + 1 \in S
  <2>1. k + 1 \in 1..m /\ k + 1 \in DOMAIN s /\ k + 1 \in 1..Len(s) + 1
    BY <1>1
  <2>2. Len(s[k + 1].bytes) = 0
    BY <2>1, EmptySeq
  <2>3. at[(k + 1) + 1] = at[k + 1] + Len(s[k + 1].bytes)
    BY <2>1
  <2>4. at[k + 1] = at[1] /\ at[k + 1] \in Nat
    BY <1>3, <2>1
  <2>5. QED
    BY <2>1, <2>2, <2>3, <2>4
<1>4. 0..m \subseteq S
  <2> HIDE DEF S
  <2>1. QED
    BY <1>1, <1>2, <1>3, Induction
<1>5. QED
  BY <1>1, <1>4

(* A sequence with one more element before it.                             *)
LEMMA ConsProperties ==
  ASSUME NEW S, NEW s \in Seq(S), NEW e \in S
  PROVE  /\ <<e>> \o s \in Seq(S) /\ Len(<<e>> \o s) = 1 + Len(s)
         /\ (<<e>> \o s)[1] = e
         /\ \A k \in 1..Len(s) : (<<e>> \o s)[k + 1] = s[k]
OBVIOUS

(* Nothing is left between the ends of segments that are empty.            *)
LEMMA LaidEmpty ==
  ASSUME NEW s \in Seq(Segments), NEW from, NEW to, Laid(s, from, to),
         \A k \in DOMAIN s : s[k].bytes = <<>>
  PROVE  from = to
<1>1. Len(s) \in 0..Len(s) /\ DOMAIN s = 1..Len(s)
  BY SegmentsOf
<1>2. PICK at \in [1..Len(s) + 1 -> Nat] :
         /\ at[1] = from /\ at[Len(s) + 1] = to
         /\ \A k \in DOMAIN s : /\ at[k + 1] = at[k] + Len(s[k].bytes)
                                /\ Follows(s[k].bytes, at[k])
  BY DEF Laid
<1>3. at[Len(s) + 1] = at[1]
  BY <1>1, <1>2, EmptyTakesNoPlace
<1>4. QED
  BY <1>2, <1>3

(* A read takes bytes from the first segment that has any.                 *)
LEMMA LaidRead ==
  ASSUME source \in Sources,
         NEW s \in Seq(Segments), NEW from \in Nat, NEW to, Laid(s, from, to),
         NEW c \in 1..Len(s), \A k \in 1..(c - 1) : s[k].bytes = <<>>,
         NEW n \in 0..Len(s[c].bytes), NEW t \in Segments,
         t.bytes = SubSeq(s[c].bytes, n + 1, Len(s[c].bytes))
  PROVE  LET left == <<t>> \o SubSeq(s, c + 1, Len(s))
         IN /\ left \in Seq(Segments)
            /\ Laid(left, from + n, to)
            /\ SubSeq(s[c].bytes, 1, n) \in Seq(Bytes)
            /\ Len(SubSeq(s[c].bytes, 1, n)) = n
            /\ Follows(SubSeq(s[c].bytes, 1, n), from)
<1> DEFINE b == s[c].bytes
           tail == SubSeq(s, c + 1, Len(s))
           left == <<t>> \o tail
<1>1. /\ Len(s) \in Nat /\ DOMAIN s = 1..Len(s) /\ c \in Nat
      /\ b \in Seq(Bytes) /\ Len(b) \in Nat /\ n \in Nat
  BY SegmentsOf
<1>2. PICK at \in [1..Len(s) + 1 -> Nat] :
         /\ at[1] = from /\ at[Len(s) + 1] = to
         /\ \A k \in DOMAIN s : /\ at[k + 1] = at[k] + Len(s[k].bytes)
                                /\ Follows(s[k].bytes, at[k])
  BY DEF Laid
<1>3. at[c] = from
  <2>1. c - 1 \in 0..Len(s) /\ (c - 1) + 1 = c
    BY <1>1
  <2>2. at[(c - 1) + 1] = at[1]
    BY <1>2, <2>1, EmptyTakesNoPlace
  <2>3. QED
    BY <1>2, <2>1, <2>2
<1>4. /\ Follows(b, from) /\ at[c + 1] = from + Len(b)
  BY <1>1, <1>2, <1>3
<1>5. /\ SubSeq(b, 1, n) \in Seq(Bytes) /\ Len(SubSeq(b, 1, n)) = n
      /\ Len(SubSeq(b, n + 1, Len(b))) = Len(b) - n
      /\ Follows(SubSeq(b, 1, n), from)
      /\ Follows(SubSeq(b, n + 1, Len(b)), from + n)
  <2> HIDE DEF b
  <2>1. n \in 0..Len(b)
    BY DEF b
  <2>2. QED
    BY <1>1, <1>4, <2>1, FollowsSplit
<1>6. /\ tail \in Seq(Segments) /\ Len(tail) = Len(s) - c
      /\ \A k \in 1..(Len(s) - c) : tail[k] = s[c + k]
  <2>1. /\ c + 1 \in Int /\ Len(s) \in Int
        /\ \A k \in (c + 1)..Len(s) : s[k] \in Segments
    BY <1>1, SegmentsOf
  <2>2. /\ tail \in Seq(Segments)
        /\ Len(tail) = IF c + 1 <= Len(s) THEN Len(s) - (c + 1) + 1 ELSE 0
        /\ \A k \in 1..(Len(s) - (c + 1) + 1) : tail[k] = s[(c + 1) + k - 1]
    BY <2>1, SubSeqProperties
  <2> HIDE DEF tail
  <2>3. Len(tail) = Len(s) - c
    <3>1. c \in Int /\ Len(s) \in Int /\ c <= Len(s)
      BY <1>1
    <3>2. CASE c + 1 <= Len(s)
      BY <2>2, <3>1, <3>2
    <3>3. CASE ~(c + 1 <= Len(s))
      <4>1. Len(s) - c = 0
        BY <3>1, <3>3
      <4>2. Len(tail) = 0
        BY <2>2, <3>3, Zenon
      <4>3. QED
        BY <4>1, <4>2
    <3>4. QED
      BY <3>2, <3>3
  <2>4. ASSUME NEW k \in 1..(Len(s) - c)
        PROVE  tail[k] = s[c + k]
    <3>1. k \in 1..(Len(s) - (c + 1) + 1) /\ (c + 1) + k - 1 = c + k
      BY <1>1
    <3>2. QED
      BY <2>2, <3>1
  <2>5. QED
    BY <2>2, <2>3, <2>4
<1> HIDE DEF tail
<1>7. /\ left \in Seq(Segments) /\ Len(left) = 1 + Len(tail)
      /\ left[1] = t /\ \A k \in 1..Len(tail) : left[k + 1] = tail[k]
  <2>1. tail \in Seq(Segments) /\ t \in Segments
    BY <1>6
  <2>2. QED
    BY <2>1, ConsProperties
<1> HIDE DEF left, b
<1>8. Len(left) = 1 + (Len(s) - c) /\ DOMAIN left = 1..Len(left)
  BY <1>6, <1>7, LenProperties
<1> DEFINE new == [k \in 1..Len(left) + 1 |->
                     IF k = 1 THEN from + n ELSE at[(c - 1) + k]]
<1>9. new \in [1..Len(left) + 1 -> Nat]
  <2>1. ASSUME NEW k \in 1..Len(left) + 1, k # 1
        PROVE  at[(c - 1) + k] \in Nat
    <3>1. (c - 1) + k \in 1..Len(s) + 1
      BY <1>1, <1>8, <2>1
    <3>2. QED
      BY <3>1
  <2>2. from + n \in Nat
    BY <1>1
  <2>3. QED
    BY <2>1, <2>2
<1>10. new[1] = from + n /\ new[Len(left) + 1] = to
  <2>1. /\ 1 \in 1..Len(left) + 1 /\ Len(left) + 1 \in 1..Len(left) + 1
        /\ Len(left) + 1 # 1 /\ (c - 1) + (Len(left) + 1) = Len(s) + 1
    BY <1>1, <1>8
  <2>2. QED
    BY <2>1, <1>2
<1>11. ASSUME NEW k \in DOMAIN left
       PROVE  /\ new[k + 1] = new[k] + Len(left[k].bytes)
              /\ Follows(left[k].bytes, new[k])
  <2>1. /\ k \in 1..Len(left) /\ k + 1 \in 1..Len(left) + 1
        /\ k \in 1..Len(left) + 1 /\ k + 1 # 1
    BY <1>1, <1>8
  <2>2. new[k + 1] = at[(c - 1) + (k + 1)]
    BY <2>1
  <2>3. CASE k = 1
    <3>1. new[k] = from + n /\ left[k].bytes = SubSeq(b, n + 1, Len(b))
      BY <2>1, <2>3, <1>7 DEF b
    <3>2. (c - 1) + (k + 1) = c + 1
      BY <1>1, <2>3
    <3>3. new[k + 1] = from + Len(b)
      BY <2>2, <3>2, <1>4
    <3>4. from + Len(b) = (from + n) + (Len(b) - n)
      BY <1>1
    <3>5. QED
      BY <3>1, <3>3, <3>4, <1>5, Zenon
  <2>4. CASE k # 1
    <3>1. /\ k - 1 \in 1..Len(tail) /\ (k - 1) + 1 = k
          /\ k - 1 \in 1..(Len(s) - c) /\ c + (k - 1) = (c - 1) + k
          /\ (c - 1) + k \in 1..Len(s)
          /\ ((c - 1) + k) + 1 = (c - 1) + (k + 1)
      <4>1. /\ c \in Int /\ 1 <= c /\ k \in Int /\ 1 < k
            /\ Len(s) \in Int /\ k <= 1 + (Len(s) - c)
        BY <1>1, <1>8, <2>1, <2>4
      <4>2. /\ (k - 1) + 1 = k /\ c + (k - 1) = (c - 1) + k
            /\ ((c - 1) + k) + 1 = (c - 1) + (k + 1)
        BY <4>1
      <4>3. k - 1 \in 1..(Len(s) - c)
        BY <4>1
      <4>4. (c - 1) + k \in 1..Len(s)
        BY <4>1
      <4>5. QED
        BY <1>6, <4>2, <4>3, <4>4, Zenon
    <3>2. left[(k - 1) + 1] = tail[k - 1] /\ tail[k - 1] = s[c + (k - 1)]
      BY <1>6, <1>7, <3>1
    <3>3. left[k] = s[(c - 1) + k]
      BY <3>1, <3>2, Zenon
    <3>4. new[k] = at[(c - 1) + k]
      BY <2>1, <2>4
    <3>5. /\ at[((c - 1) + k) + 1]
               = at[(c - 1) + k] + Len(s[(c - 1) + k].bytes)
          /\ Follows(s[(c - 1) + k].bytes, at[(c - 1) + k])
      BY <1>1, <1>2, <3>1
    <3>6. QED
      BY <2>2, <3>1, <3>3, <3>4, <3>5, Zenon
  <2>5. QED
    BY <2>3, <2>4
<1>12. Laid(left, from + n, to)
  <2> HIDE DEF new
  <2>1. QED
    BY <1>9, <1>10, <1>11, Zenon DEF Laid
<1>13. QED
  BY <1>5, <1>7, <1>12 DEF left, tail, b

(* --- The invariant: what a step leaves as it is ------------------------ *)

(* What a body holds depends on nothing but the body.                      *)
LEMMA SourceStays ==
  ASSUME source' = source
  PROVE  /\ Content' = Content /\ ConLen' = ConLen
         /\ Len(source.parts)' = Len(source.parts)
         /\ \A i : Ending(i)' = Ending(i)
         /\ \A b, n : Follows(b, n)' <=> Follows(b, n)
         /\ \A s, from, to : Laid(s, from, to)' <=> Laid(s, from, to)
<1>1. Streamed' = Streamed
  <2>1. \A i : PartStream(i)' = PartStream(i)
    BY Zenon DEF PartStream, Boundary, Header, Data, Crlf
  <2>2. QED
    BY <2>1, Zenon DEF Streamed
<1>2. Lengths' = Lengths
  BY Zenon DEF Lengths
<1>3. Content' = Content
  BY <1>1, Zenon DEF Content, IntoStream, Data
<1>4. ConLen' = ConLen
  BY <1>2, Zenon DEF ConLen, ComputeLength, Measured
<1>5. \A i : Ending(i)' = Ending(i)
  BY <1>1, <1>3, Zenon DEF Ending
<1>6. \A b, n : Follows(b, n)' <=> Follows(b, n)
  BY <1>3, Zenon DEF Follows
<1>7. \A s, from, to : Laid(s, from, to)' <=> Laid(s, from, to)
  <2> SUFFICES ASSUME NEW s, NEW from, NEW to
               PROVE  Laid(s, from, to)' <=> Laid(s, from, to)
    OBVIOUS
  <2>1. ASSUME Laid(s, from, to)
        PROVE  Laid(s, from, to)'
    BY <1>6, <2>1, Zenon DEF Laid
  <2>2. ASSUME Laid(s, from, to)'
        PROVE  Laid(s, from, to)
    BY <1>6, <2>2, Zenon DEF Laid
  <2>3. QED
    BY <2>1, <2>2
<1>8. QED
  BY <1>3, <1>4, <1>5, <1>6, <1>7

LEMMA OrderStays ==
  ASSUME InOrder, source' = source, fields' = fields, computed' = computed
  PROVE  InOrder' /\ Begun' = Begun
<1>1. Begun' = Begun
  BY DEF Begun
<1>2. QED
  BY <1>1 DEF InOrder

LEMMA ReadingStays ==
  ASSUME ~hiccup => ReadsTheBody, ~hiccup' => ~hiccup, source' = source,
         fields' = fields, taken' = taken, call' = call, active' = active,
         result' = None => result = None
  PROVE  ~hiccup' => ReadsTheBody'
<1> SUFFICES ASSUME ReadsTheBody
             PROVE  ReadsTheBody'
  OBVIOUS
<1>1. Begun' = Begun /\ Reading' = Reading /\ Place' = Place
  BY DEF Begun, Reading, Place
<1>2. QED
  BY <1>1, SourceStays, Zenon DEF ReadsTheBody

LEMMA CallStays ==
  ASSUME CallFits, call' = call, spare' = spare,
         result' = None \/ ~Reading, chan' = <<>> \/ ~Reading
  PROVE  CallFits'
BY DEF CallFits, Reading

(* What is in the channel is bytes, or the message that the body failed.   *)
LEMMA AbortIsNoBytes ==
  ASSUME NEW b \in Seq(Bytes)
  PROVE  b # Abort /\ <<b>> # <<Abort>> /\ Head(<<b>>) = b /\ <<b>> # <<>>
<1>1. <<"abort", 0, 0>> \notin Bytes
  BY DEF Bytes
<1>2. Abort \notin Seq(Bytes)
  <2>1. Len(Abort) = 1 /\ Abort[1] = <<"abort", 0, 0>>
    BY DEF Abort
  <2>2. ASSUME Abort \in Seq(Bytes)
        PROVE  FALSE
    <3>1. 1 \in 1..Len(Abort)
      BY <2>1
    <3>2. Abort[1] \in Bytes
      BY <2>2, <3>1, ElementOfSeq, Zenon
    <3>3. QED
      BY <1>1, <2>1, <3>2
  <2>3. QED
    BY <2>2
<1>3. b # Abort
  BY <1>2
<1> HIDE DEF Abort
<1>4. QED
  BY <1>3

(* The channel is empty, or holds the message Abort, or a chunk.           *)
LEMMA ChannelHolds ==
  ASSUME TypeOK
  PROVE  \/ chan = <<>> /\ Pending = <<>>
         \/ /\ chan = <<Abort>> /\ Head(chan) = Abort /\ Pending = <<>>
         \/ /\ Head(chan) \in Seq(Bytes) /\ Head(chan) # <<>>
            /\ Head(chan) # Abort /\ chan # <<>> /\ chan # <<Abort>>
            /\ Pending = Head(chan)
<1>1. CASE chan = <<>>
  BY <1>1, Zenon DEF Pending
<1>2. CASE chan = <<Abort>>
  <2>1. Pending = <<>>
    BY <1>2, Zenon DEF Pending
  <2>2. Head(chan) = Abort
    BY <1>2
  <2>3. QED
    BY <1>2, <2>1, <2>2
<1>3. CASE /\ chan = <<Head(chan)>> /\ Head(chan) \in Seq(Bytes)
           /\ Head(chan) # <<>>
  <2> DEFINE b == Head(chan)
  <2>1. b \in Seq(Bytes) /\ chan = <<b>>
    BY <1>3
  <2> HIDE DEF b
  <2>2. b # Abort /\ chan # <<Abort>> /\ chan # <<>>
    BY <2>1, AbortIsNoBytes
  <2>3. Pending = Head(chan)
    BY <2>2, Zenon DEF Pending
  <2>4. QED
    BY <1>3, <2>2, <2>3 DEF b
<1>4. QED
  BY <1>1, <1>2, <1>3 DEF TypeOK

(* --- The invariant: the steps ------------------------------------------ *)

(* send_future stops at the Content-Length.                                *)
LEMMA StopKeeps ==
  ASSUME IInv, StopAtLength
  PROVE  IInv'
<1>1. /\ TypeOK /\ InOrder /\ CallFits /\ (~hiccup => ReadsTheBody)
      /\ (~source.form => active # None)
      /\ mode = "send" /\ ~hiccup /\ Forwarded /\ Told
      /\ chan = <<>> /\ ~Reading /\ ConLen # None /\ written = ConLen
      /\ result' = "ok"
  BY Zenon DEF IInv, StopAtLength, Idle, Covered
<1>2. /\ source' = source /\ mode' = mode /\ fields' = fields
      /\ computed' = computed /\ active' = active /\ call' = call
      /\ spare' = spare /\ taken' = taken /\ written' = written
      /\ chan' = chan /\ wire' = wire /\ end' = end /\ hiccup' = hiccup
  BY DEF StopAtLength
<1>3. TypeOK'
  BY <1>1, <1>2, BodiesAssumption DEF TypeOK, Results
<1>4. InOrder' /\ CallFits'
  BY <1>1, <1>2, OrderStays, CallStays
<1>5. ~hiccup' => ReadsTheBody'
  <2>1. "ok" # None
    BY BodiesAssumption DEF Results
  <2>2. QED
    BY <1>1, <1>2, <2>1, ReadingStays
<1>6. Forwarded'
  <2>1. chan # <<Abort>>
    BY <1>1, Zenon DEF Forwarded, Abort
  <2>2. Pending' = Pending
    BY <1>2 DEF Pending
  <2>3. QED
    BY <1>1, <1>2, <2>1, <2>2, SourceStays, Zenon DEF Forwarded
<1>7. Told'
  <2>1. "ok" # None
    BY BodiesAssumption DEF Results
  <2>2. end # "dropped" => ConLen = Len(wire)
    BY <1>1 DEF Forwarded
  <2>3. QED
    BY <1>1, <1>2, <2>1, <2>2, SourceStays DEF Told
<1>8. QED
  BY <1>1, <1>2, <1>3, <1>4, <1>5, <1>6, <1>7, Zenon DEF IInv

(* send_future asks the reader for more.                                   *)
LEMMA StartKeeps ==
  ASSUME IInv, StartRead
  PROVE  IInv'
<1>1. /\ TypeOK /\ InOrder /\ CallFits /\ (~hiccup => ReadsTheBody)
      /\ (~source.form => active # None)
      /\ chan = <<>> /\ ~Reading /\ result = None
      /\ call' = [room |-> spare, buf |-> <<>>]
  BY Zenon DEF IInv, StartRead, Idle
<1>2. /\ source' = source /\ mode' = mode /\ fields' = fields
      /\ computed' = computed /\ active' = active /\ result' = result
      /\ spare' = spare /\ taken' = taken /\ written' = written
      /\ chan' = chan /\ wire' = wire /\ end' = end /\ hiccup' = hiccup
  BY DEF StartRead
<1>3. /\ call' \in Reads /\ call'.buf = <<>> /\ call'.room = spare
      /\ Reading' /\ spare \in Nat
  <2>1. spare \in Nat
    BY <1>1, BodiesAssumption DEF TypeOK
  <2>2. call' \in Reads /\ call'.buf = <<>> /\ call'.room = spare
    BY <1>1, <2>1 DEF Reads
  <2>3. Reading'
    BY <2>2, BodiesAssumption DEF Reading
  <2>4. QED
    BY <2>1, <2>2, <2>3
<1>4. TypeOK'
  BY <1>1, <1>2, <1>3 DEF TypeOK
<1>5. InOrder'
  BY <1>1, <1>2, OrderStays
<1>6. CallFits'
  <2>1. Len(<<>>) = 0 /\ 0 <= spare
    BY <1>3
  <2>2. QED
    BY <1>1, <1>2, <1>3, <2>1, Zenon DEF CallFits
<1>7. ~hiccup' => ReadsTheBody'
  <2> SUFFICES ASSUME ReadsTheBody
               PROVE  ReadsTheBody'
    BY <1>1, <1>2
  <2>1. Begun' = Begun
    BY <1>1, <1>2, OrderStays
  <2>2. source \in Sources /\ Len(taken) \in Nat
    BY <1>1, LenProperties DEF TypeOK
  <2>3. Follows(<<>>, Len(taken))
    <3>1. Len(taken) \in 0..Len(Content)
      <4>1. 0 + Len(taken) <= Len(Content)
        BY Zenon DEF ReadsTheBody, Follows
      <4>2. QED
        BY <2>2, <4>1, ContentIsTyped
    <3>2. QED
      BY <3>1, EmptyFollows
  <2>4. Place' = Place
    <3>1. Place = Len(taken) + 0
      BY <1>1, Zenon DEF Place
    <3>2. Place' = Len(taken) + Len(<<>>)
      BY <1>2, <1>3, Zenon DEF Place
    <3>3. Len(<<>>) = 0
      OBVIOUS
    <3>4. QED
      BY <3>1, <3>2, <3>3, Zenon
  <2>5. QED
    BY <1>2, <1>3, <2>1, <2>3, <2>4, SourceStays, Zenon DEF ReadsTheBody
<1>8. (mode = "send" /\ Forwarded /\ Told) => Forwarded' /\ Told'
  <2>1. Pending' = Pending
    BY <1>2 DEF Pending
  <2>2. QED
    BY <1>2, <2>1, SourceStays, Zenon DEF Forwarded, Told
<1>9. Buffers => Buffers'
  BY <1>2, SourceStays, Zenon DEF Buffers
<1>10. CASE mode = "send"
  <2>1. ~hiccup /\ Forwarded /\ Told
    BY <1>10, Zenon DEF IInv
  <2>2. QED
    BY <1>1, <1>2, <1>4, <1>5, <1>6, <1>7, <1>8, <1>10, <2>1, Zenon DEF IInv
<1>11. CASE mode # "send"
  <2>1. Buffers
    BY <1>11, Zenon DEF IInv
  <2>2. QED
    BY <1>1, <1>2, <1>4, <1>5, <1>6, <1>7, <1>9, <1>11, <2>1, Zenon DEF IInv
<1>12. QED
  BY <1>10, <1>11

(* The caller's timeout drops the future that sends.                       *)
LEMMA TimeoutKeeps ==
  ASSUME IInv, TimedOut
  PROVE  IInv'
<1>1. /\ TypeOK /\ InOrder /\ CallFits /\ (~hiccup => ReadsTheBody)
      /\ (~source.form => active # None)
      /\ mode = "send" /\ ~hiccup /\ Forwarded /\ Told
      /\ ~Reading /\ result = None /\ result' = "timed out"
  BY Zenon DEF IInv, TimedOut
<1>2. /\ source' = source /\ mode' = mode /\ fields' = fields
      /\ computed' = computed /\ active' = active /\ call' = call
      /\ spare' = spare /\ taken' = taken /\ written' = written
      /\ chan' = chan /\ wire' = wire /\ end' = end /\ hiccup' = hiccup
  BY DEF TimedOut
<1>3. "timed out" # None /\ "timed out" \in Results /\ None # "read error"
  BY BodiesAssumption DEF Results
<1>4. TypeOK'
  BY <1>1, <1>2, <1>3 DEF TypeOK
<1>5. InOrder' /\ CallFits'
  BY <1>1, <1>2, OrderStays, CallStays
<1>6. ~hiccup' => ReadsTheBody'
  BY <1>1, <1>2, <1>3, ReadingStays
<1>7. Forwarded'
  <2>1. Pending' = Pending
    BY <1>2 DEF Pending
  <2>2. chan # <<Abort>>
    BY <1>1, <1>3 DEF Forwarded
  <2>3. QED
    BY <1>1, <1>2, <2>1, <2>2, SourceStays, Zenon DEF Forwarded
<1>8. Told'
  BY <1>1, <1>2, <1>3 DEF Told
<1>9. QED
  BY <1>1, <1>2, <1>4, <1>5, <1>6, <1>7, <1>8, Zenon DEF IInv

(* The connection sees the channel closed.                                 *)
LEMMA EndKeeps ==
  ASSUME IInv, SeesEnd
  PROVE  IInv'
<1>1. /\ TypeOK /\ InOrder /\ CallFits /\ (~hiccup => ReadsTheBody)
      /\ (~source.form => active # None)
      /\ mode = "send" /\ ~hiccup /\ Forwarded /\ Told
      /\ end = "open" /\ end' = "eof" /\ chan = <<>> /\ result # None
  BY Zenon DEF IInv, SeesEnd
<1>2. /\ source' = source /\ mode' = mode /\ fields' = fields
      /\ computed' = computed /\ active' = active /\ call' = call
      /\ spare' = spare /\ taken' = taken /\ written' = written
      /\ chan' = chan /\ wire' = wire /\ result' = result
      /\ hiccup' = hiccup
  BY DEF SeesEnd
<1>3. TypeOK'
  BY <1>1, <1>2 DEF TypeOK
<1>4. InOrder' /\ CallFits'
  <2>1. result = None \/ ~Reading
    BY <1>1 DEF CallFits
  <2>2. QED
    BY <1>1, <1>2, <2>1, OrderStays, CallStays
<1>5. ~hiccup' => ReadsTheBody'
  BY <1>1, <1>2, ReadingStays
<1>6. Forwarded'
  <2>1. Pending' = Pending
    BY <1>2 DEF Pending
  <2>2. QED
    BY <1>1, <1>2, <2>1, SourceStays, Zenon DEF Forwarded
<1>7. Told'
  <2>1. "open" # "dropped" /\ "eof" # "open"
    OBVIOUS
  <2>2. QED
    BY <1>1, <1>2, <2>1, SourceStays, Zenon DEF Told
<1>8. QED
  BY <1>1, <1>2, <1>3, <1>4, <1>5, <1>6, <1>7, Zenon DEF IInv

(* The connection drops the body.                                          *)
LEMMA DropKeeps ==
  ASSUME IInv, DropsBody
  PROVE  IInv'
<1>1. /\ TypeOK /\ InOrder /\ CallFits /\ (~hiccup => ReadsTheBody)
      /\ (~source.form => active # None)
      /\ mode = "send" /\ ~hiccup /\ Forwarded /\ Told
      /\ end = "open" /\ end' = "dropped" /\ chan' = <<>>
  BY Zenon DEF IInv, DropsBody
<1>2. /\ source' = source /\ mode' = mode /\ fields' = fields
      /\ computed' = computed /\ active' = active /\ call' = call
      /\ spare' = spare /\ taken' = taken /\ wire' = wire
      /\ result' = result /\ hiccup' = hiccup
  BY DEF DropsBody
<1>3. written' \in Nat
  <2>1. written \in Nat
    BY <1>1 DEF TypeOK
  <2>2. chan # <<>> => Len(Head(chan)) \in Nat
    <3>1. Len(Abort) = 1
      BY DEF Abort
    <3>2. QED
      BY <1>1, <3>1, ChannelHolds, LenProperties
  <2>3. chan # <<>> => Sent(Len(Head(chan))) \in Nat
    BY <2>1, <2>2 DEF Sent
  <2>4. QED
    BY <2>1, <2>3, Zenon DEF DropsBody
<1>4. TypeOK'
  BY <1>1, <1>2, <1>3 DEF TypeOK
<1>5. InOrder' /\ CallFits'
  <2>1. result = None \/ ~Reading
    BY <1>1 DEF CallFits
  <2>2. QED
    BY <1>1, <1>2, <2>1, OrderStays, CallStays
<1>6. ~hiccup' => ReadsTheBody'
  BY <1>1, <1>2, ReadingStays
<1>7. Forwarded'
  <2>1. <<>> # <<Abort>>
    OBVIOUS
  <2>2. QED
    BY <1>1, <1>2, <2>1, SourceStays, Zenon DEF Forwarded
<1>8. Told'
  <2>1. "open" # "dropped" /\ "dropped" \notin {"eof", "aborted", "open"}
    OBVIOUS
  <2>2. QED
    BY <1>1, <1>2, <2>1, SourceStays, Zenon DEF Told
<1>9. QED
  BY <1>1, <1>2, <1>4, <1>5, <1>6, <1>7, <1>8, Zenon DEF IInv

(* A read that io::copy tries again.                                       *)
LEMMA InterruptKeeps ==
  ASSUME IInv, ReadInterrupted
  PROVE  IInv'
<1>1. /\ TypeOK /\ InOrder /\ CallFits /\ (~hiccup => ReadsTheBody)
      /\ (~source.form => active # None)
      /\ mode = "buffer" /\ Buffers /\ Reading
      /\ call' = [call EXCEPT !.buf = <<>>]
      /\ hiccup' = (hiccup \/ call.buf # <<>>)
  BY Zenon DEF IInv, ReadInterrupted, Failing
<1>2. /\ source' = source /\ mode' = mode /\ fields' = fields
      /\ computed' = computed /\ active' = active /\ result' = result
      /\ spare' = spare /\ taken' = taken /\ written' = written
      /\ chan' = chan /\ wire' = wire /\ end' = end
  BY DEF ReadInterrupted
<1>3. /\ call \in Reads /\ call' \in Reads
      /\ call'.buf = <<>> /\ call'.room = call.room /\ call.room \in Nat
  <2>1. call \in Reads
    BY <1>1 DEF TypeOK, Reading
  <2>2. PICK m \in Nat, b \in Seq(Bytes) : call = [room |-> m, buf |-> b]
    BY <2>1 DEF Reads
  <2>3. call' = [room |-> m, buf |-> <<>>] /\ call.room = m
    BY <1>1, <2>2
  <2>4. <<>> \in Seq(Bytes)
    BY EmptySeq
  <2>5. QED
    BY <2>1, <2>3, <2>4 DEF Reads
<1>4. Reading'
  BY <1>3, BodiesAssumption DEF Reading
<1>5. TypeOK'
  BY <1>1, <1>2, <1>3 DEF TypeOK
<1>6. InOrder'
  BY <1>1, <1>2, OrderStays
<1>7. CallFits'
  <2>1. Len(<<>>) = 0 /\ 0 <= call.room
    BY <1>3
  <2>2. QED
    BY <1>1, <1>2, <1>3, <2>1, Zenon DEF CallFits
<1>8. ~hiccup' => ReadsTheBody'
  <2> SUFFICES ASSUME ~hiccup'
               PROVE  ReadsTheBody'
    OBVIOUS
  <2>1. ~hiccup /\ call.buf = <<>>
    BY <1>1
  <2>2. call' = call
    BY <1>1, <1>3, <2>1 DEF Reads
  <2>3. QED
    BY <1>1, <1>2, <2>1, <2>2, ReadingStays
<1>9. Buffers'
  <2>1. result = None
    BY <1>1 DEF CallFits
  <2>2. "ok" # None
    BY BodiesAssumption DEF Results
  <2>3. QED
    BY <1>1, <1>2, <2>1, <2>2, SourceStays, Zenon DEF Buffers
<1>10. mode' # "send"
  BY <1>1, <1>2
<1>11. QED
  BY <1>1, <1>2, <1>5, <1>6, <1>7, <1>8, <1>9, <1>10, Zenon DEF IInv

(* A read that fails, and the Abort that is sent for it.                   *)
LEMMA FailKeeps ==
  ASSUME IInv, ReadFails
  PROVE  IInv'
<1>1. /\ TypeOK /\ InOrder /\ CallFits /\ (~hiccup => ReadsTheBody)
      /\ (~source.form => active # None)
      /\ Reading /\ call' = None /\ result' = "read error" /\ chan' = Aborts
  BY Zenon DEF IInv, ReadFails, Failing
<1>2. /\ source' = source /\ mode' = mode /\ fields' = fields
      /\ computed' = computed /\ active' = active
      /\ spare' = spare /\ taken' = taken /\ written' = written
      /\ wire' = wire /\ end' = end /\ hiccup' = hiccup
  BY DEF ReadFails
<1>3. /\ result = None /\ chan = <<>> /\ ~Reading'
      /\ "read error" \in Results /\ None \notin Results
  BY <1>1, BodiesAssumption DEF CallFits, Reading, Results
<1>4. chan' \in {<<>>, <<Abort>>}
  BY <1>1 DEF Aborts
<1>5. TypeOK'
  BY <1>1, <1>2, <1>3, <1>4 DEF TypeOK
<1>6. InOrder' /\ CallFits'
  BY <1>1, <1>2, <1>3, OrderStays DEF CallFits
<1>7. ~hiccup' => ReadsTheBody'
  <2> SUFFICES ASSUME ReadsTheBody
               PROVE  ReadsTheBody'
    BY <1>1, <1>2
  <2>1. result' # None
    BY <1>1, <1>3
  <2>2. QED
    BY <1>2, <1>3, <2>1, SourceStays, Zenon DEF ReadsTheBody
<1>8. CASE mode = "send"
  <2>1. ~hiccup /\ Forwarded /\ Told
    BY <1>8, Zenon DEF IInv
  <2>2. Pending = <<>> /\ Pending' = <<>>
    BY <1>3, <1>4, Zenon DEF Pending
  <2>3. end \notin {"eof", "aborted"}
    BY <1>3, <2>1 DEF Told
  <2>4. end \in {"open", "eof", "aborted", "dropped"}
    BY <1>1 DEF TypeOK
  <2>5. /\ end = "open" => chan' = <<Abort>>
        /\ end # "open" => chan' = <<>>
    <3>1. mode # "buffer" /\ (end # "open" => end = "dropped")
      BY <1>8, <2>3, <2>4
    <3>2. QED
      BY <1>1, <1>8, <3>1 DEF Aborts
  <2>6. Forwarded'
    BY <1>1, <1>2, <2>1, <2>2, <2>5, SourceStays, Zenon DEF Forwarded
  <2>7. Told'
    BY <1>1, <1>2, <1>3, <2>5, SourceStays DEF Told
  <2>8. QED
    BY <1>1, <1>2, <1>5, <1>6, <1>7, <1>8, <2>1, <2>6, <2>7, Zenon DEF IInv
<1>9. CASE mode # "send"
  <2>1. Buffers
    BY <1>9, Zenon DEF IInv
  <2>2. chan' = <<>>
    BY <1>1, <1>9, Zenon DEF Aborts
  <2>3. Buffers'
    BY <1>1, <1>2, <2>1, <2>2 DEF Buffers
  <2>4. QED
    BY <1>1, <1>2, <1>5, <1>6, <1>7, <1>9, <2>3, Zenon DEF IInv
<1>10. QED
  BY <1>8, <1>9

(* The connection takes what is in the channel.                            *)
LEMMA ReceiveKeeps ==
  ASSUME IInv, Receive
  PROVE  IInv'
<1>1. /\ TypeOK /\ InOrder /\ CallFits /\ (~hiccup => ReadsTheBody)
      /\ (~source.form => active # None)
      /\ mode = "send" /\ ~hiccup /\ Forwarded /\ Told
      /\ end = "open" /\ chan # <<>> /\ chan' = <<>>
  BY Zenon DEF IInv, Receive
<1>2. /\ source' = source /\ mode' = mode /\ fields' = fields
      /\ computed' = computed /\ active' = active /\ call' = call
      /\ spare' = spare /\ taken' = taken /\ result' = result
      /\ hiccup' = hiccup
  BY DEF Receive
<1>3. InOrder' /\ CallFits'
  BY <1>1, <1>2, OrderStays, CallStays DEF CallFits
<1>4. ~hiccup' => ReadsTheBody'
  BY <1>1, <1>2, ReadingStays
<1>5. Pending' = <<>>
  BY <1>1, Zenon DEF Pending
<1>6. /\ source \in Sources /\ wire \in Seq(Bytes) /\ taken \in Seq(Bytes)
      /\ Len(wire) \in Nat /\ Len(taken) \in Nat /\ written \in Nat
      /\ Len(Content) \in Nat /\ Len(<<>>) = 0
  BY <1>1, LenProperties, ContentIsTyped DEF TypeOK
<1>7. /\ Follows(wire, 0) /\ Len(wire) <= Len(taken)
      /\ written = Len(wire) /\ Len(taken) = Len(wire) + Len(Pending)
      /\ Follows(Pending, Len(wire))
      /\ (chan = <<Abort>> => result = "read error")
  BY <1>1 DEF Forwarded
<1>8. <<>> # <<Abort>>
  OBVIOUS
<1>9. CASE chan = <<Abort>>
  <2>1. /\ end' = "aborted" /\ wire' = wire /\ written' = written
        /\ Pending = <<>> /\ result = "read error"
    BY <1>1, <1>7, <1>9, ChannelHolds DEF Receive
  <2>2. TypeOK'
    BY <1>1, <1>2, <2>1 DEF TypeOK
  <2>3. Forwarded'
    BY <1>1, <1>2, <1>5, <1>7, <1>8, <2>1, SourceStays, Zenon DEF Forwarded
  <2>4. Told'
    <3>1. None # "read error"
      BY BodiesAssumption DEF Results
    <3>2. QED
      BY <1>1, <1>2, <2>1, <3>1 DEF Told
  <2>5. QED
    BY <1>1, <1>2, <1>3, <1>4, <2>2, <2>3, <2>4, Zenon DEF IInv
<1>10. CASE chan # <<Abort>>
  <2> DEFINE b == Head(chan)
  <2>1. b \in Seq(Bytes) /\ b # Abort /\ Pending = b /\ Len(b) \in Nat
    <3>1. b \in Seq(Bytes) /\ b # Abort /\ Pending = b
      BY <1>1, <1>10, ChannelHolds, Zenon
    <3>2. QED
      BY <3>1, LenProperties
  <2>2. end' = end /\ wire' = wire \o b /\ written' = written + Len(b)
    BY <2>1, Zenon DEF Receive, Sent
  <2> HIDE DEF b
  <2>3. /\ wire \o b \in Seq(Bytes) /\ Len(wire \o b) = Len(wire) + Len(b)
    BY <1>6, <2>1, BytesConcat, Zenon
  <2>4. Follows(wire \o b, 0)
    <3>1. 0 + Len(wire) = Len(wire)
      BY <1>6
    <3>2. Follows(wire, 0) /\ Follows(b, 0 + Len(wire))
      BY <1>7, <2>1, <3>1, Zenon
    <3>3. QED
      BY <1>6, <2>1, <3>2, FollowsConcat, 0 \in Nat, Zenon
  <2>5. TypeOK'
    <3>1. written' \in Nat
      BY <1>6, <2>1, <2>2
    <3>2. QED
      BY <1>1, <1>2, <2>2, <2>3, <3>1 DEF TypeOK
  <2>6. written' = Len(wire') /\ Len(taken') = Len(wire')
    BY <1>2, <1>7, <2>1, <2>2, <2>3, Zenon
  <2>7. Forwarded'
    <3>1. Len(wire') <= Len(taken') /\ Len(taken') = Len(wire') + Len(<<>>)
      <4>1. Len(wire') = Len(taken) /\ Len(taken') = Len(taken)
        BY <1>2, <2>6
      <4>2. QED
        BY <1>6, <4>1
    <3>2. Follows(<<>>, Len(wire'))
      <4>1. 0 + Len(wire \o b) <= Len(Content) /\ Len(wire \o b) \in Nat
        BY <2>3, <2>4, LenProperties, Zenon DEF Follows
      <4>2. Len(wire \o b) \in 0..Len(Content)
        BY <1>6, <4>1
      <4>3. QED
        BY <2>2, <4>2, EmptyFollows
    <3>3. Follows(wire', 0)
      BY <2>2, <2>4
    <3>4. QED
      BY <1>1, <1>2, <1>5, <1>8, <2>2, <2>6, <3>1, <3>2, <3>3,
         SourceStays, Zenon DEF Forwarded
  <2>8. Told'
    <3>1. /\ result # "ok" /\ result # "send error" /\ result # "read error"
      BY <1>1, <1>10 DEF Told
    <3>2. QED
      BY <1>1, <1>2, <2>2, <3>1, Zenon DEF Told
  <2>9. QED
    BY <1>1, <1>2, <1>3, <1>4, <2>5, <2>7, <2>8, Zenon DEF IInv
<1>11. QED
  BY <1>9, <1>10

(* What a call has filled of its buffer.                                   *)
LEMMA CallIsTyped ==
  ASSUME TypeOK, Reading
  PROVE  /\ call \in Reads /\ call.room \in Nat /\ call.buf \in Seq(Bytes)
         /\ Len(call.buf) \in Nat
         /\ call = [room |-> call.room, buf |-> call.buf]
<1>1. call \in Reads
  BY DEF TypeOK, Reading
<1>2. /\ call.room \in Nat /\ call.buf \in Seq(Bytes)
      /\ call = [room |-> call.room, buf |-> call.buf]
  BY <1>1 DEF Reads
<1>3. QED
  BY <1>1, <1>2, LenProperties

(* A call that finds nothing more has found the end of the body.           *)
LEMMA NothingLeft ==
  ASSUME IInv, ReadsTheBody, Reading, ~Present,
         active = None \/ ~source.form
  PROVE  Place = Len(Content)
<1>1. /\ result = None /\ source \in Sources
      /\ active \in Seq(Segments) \cup {None}
  BY DEF IInv, CallFits, TypeOK
<1>2. CASE active = None
  BY <1>1, <1>2 DEF ReadsTheBody
<1>3. CASE active # None
  <2>1. active \in Seq(Segments) /\ ~source.form
    BY <1>1, <1>3
  <2>2. Ending(Begun) = Len(Content)
    BY <2>1, Zenon DEF Ending
  <2>3. Laid(active, Place, Ending(Begun))
    BY <1>1, <1>3, Zenon DEF ReadsTheBody
  <2>4. \A k \in DOMAIN active : active[k].bytes = <<>>
    BY <1>3, Zenon DEF Present
  <2>5. Place = Ending(Begun)
    BY <2>1, <2>3, <2>4, LaidEmpty, Zenon
  <2>6. QED
    BY <2>2, <2>5
<1>4. QED
  BY <1>2, <1>3

(* A read returns, and what it read is sent.                               *)
LEMMA ReturnKeeps ==
  ASSUME IInv, ReadReturns
  PROVE  IInv'
<1> DEFINE b == call.buf
<1>1. /\ TypeOK /\ InOrder /\ CallFits /\ (~hiccup => ReadsTheBody)
      /\ (~source.form => active # None)
      /\ Reading /\ CallEnds /\ call' = None /\ taken' = taken \o b
  BY Zenon DEF IInv, ReadReturns
<1>2. /\ source' = source /\ mode' = mode /\ fields' = fields
      /\ computed' = computed /\ active' = active /\ written' = written
      /\ end' = end /\ hiccup' = hiccup
  BY DEF ReadReturns
<1>3. /\ Disconnected(b) => /\ result' = "send error"
                            /\ chan' = chan /\ wire' = wire
      /\ ~Disconnected(b) /\ b = <<>> => /\ result' = "ok"
                                         /\ chan' = chan /\ wire' = wire
      /\ ~Disconnected(b) /\ b # <<>> /\ mode = "buffer" =>
            wire' = wire \o b /\ chan' = chan /\ result' = result
      /\ ~Disconnected(b) /\ b # <<>> /\ mode # "buffer" =>
            chan' = <<b>> /\ wire' = wire /\ result' = result
  BY Zenon DEF ReadReturns, Buffered
<1>4. /\ result = None /\ chan = <<>> /\ call.room = spare
      /\ Len(b) <= call.room
  BY <1>1 DEF CallFits
<1>5. b \in Seq(Bytes) /\ Len(b) \in Nat /\ call.room \in Nat
  BY <1>1, CallIsTyped
<1>6. ~Reading'
  BY <1>1 DEF Reading
<1>7. /\ spare \in 0..BufferSize /\ BufferSize \in Nat
      /\ spare' \in 0..BufferSize
  <2>1. spare \in 0..BufferSize /\ BufferSize \in Nat
    BY <1>1, BodiesAssumption DEF TypeOK
  <2>2. spare' = IF spare = Len(b) THEN BufferSize ELSE spare - Len(b)
    BY DEF ReadReturns
  <2> HIDE DEF b
  <2>3. spare - Len(b) \in 0..BufferSize
    BY <1>4, <1>5, <2>1
  <2>4. QED
    BY <2>1, <2>2, <2>3
<1>8. /\ source \in Sources /\ taken \in Seq(Bytes) /\ wire \in Seq(Bytes)
      /\ Len(taken) \in Nat /\ Len(wire) \in Nat /\ Len(Content) \in Nat
  BY <1>1, LenProperties, ContentIsTyped DEF TypeOK
<1>9. None \notin Results /\ {"ok", "send error"} \subseteq Results
  BY BodiesAssumption DEF Results
<1> HIDE DEF b
<1>10. /\ taken \o b \in Seq(Bytes) /\ Len(taken \o b) = Len(taken) + Len(b)
       /\ wire \o b \in Seq(Bytes)
  BY <1>5, <1>8, BytesConcat, Zenon
<1>11. b # <<>> => 1 <= Len(b)
  BY <1>5, EmptySeq
<1>12. TypeOK'
  <2>1. result' \in Results \cup {None}
    BY <1>3, <1>4, <1>9
  <2>2. wire' \in Seq(Bytes)
    BY <1>3, <1>8, <1>10
  <2>3. \/ chan' \in {<<>>, <<Abort>>}
        \/ chan' = <<Head(chan')>> /\ Head(chan') \in Seq(Bytes)
           /\ Head(chan') # <<>>
    <3>1. CASE chan' = chan
      BY <1>4, <3>1
    <3>2. CASE b # <<>> /\ chan' = <<b>>
      <4>1. Head(chan') = b
        BY <3>2, <1>5, AbortIsNoBytes
      <4>2. QED
        BY <1>5, <3>2, <4>1
    <3>3. QED
      BY <1>3, <3>1, <3>2
  <2>4. QED
    BY <1>1, <1>2, <1>7, <1>10, <2>1, <2>2, <2>3 DEF TypeOK
<1>13. InOrder' /\ CallFits'
  BY <1>1, <1>2, <1>6, OrderStays DEF CallFits
<1>14. Place = Len(taken) + Len(b) /\ Place' = Place
  <2>1. Place = Len(taken) + Len(b)
    BY <1>1, Zenon DEF Place, b
  <2>2. Place' = Len(taken \o b) + 0
    BY <1>1, <1>6, Zenon DEF Place
  <2>3. QED
    BY <1>5, <1>8, <1>10, <2>1, <2>2
<1>15. ReadsTheBody => ReadsTheBody' /\ Len(taken) + Len(b) <= Len(Content)
  <2> SUFFICES ASSUME ReadsTheBody
               PROVE  /\ ReadsTheBody'
                      /\ Len(taken) + Len(b) <= Len(Content)
    OBVIOUS
  <2>1. Begun' = Begun
    BY <1>1, <1>2, OrderStays
  <2>2. Follows(taken \o b, 0)
    <3>1. Follows(taken, 0) /\ Follows(b, Len(taken))
      BY <1>1, Zenon DEF ReadsTheBody, b
    <3>2. 0 + Len(taken) = Len(taken)
      BY <1>8
    <3>3. QED
      BY <1>5, <1>8, <3>1, <3>2, FollowsConcat, 0 \in Nat, Zenon
  <2>3. ReadsTheBody'
    BY <1>1, <1>2, <1>4, <1>6, <1>14, <2>1, <2>2, SourceStays, Zenon
       DEF ReadsTheBody
  <2>4. 0 + Len(taken \o b) <= Len(Content)
    BY <2>2, Zenon DEF Follows
  <2>5. QED
    BY <1>5, <1>8, <1>10, <2>3, <2>4
<1>16. ReadsTheBody /\ b = <<>> => Len(taken) = Len(Content)
  <2> SUFFICES ASSUME ReadsTheBody, b = <<>>
               PROVE  Len(taken) = Len(Content)
    OBVIOUS
  <2>1. ~Present /\ (active = None \/ ~source.form)
    BY <1>1, Zenon DEF CallEnds, b
  <2>2. Place = Len(Content)
    BY <1>1, <2>1, NothingLeft
  <2>3. Len(b) = 0
    BY EmptySeq
  <2>4. QED
    BY <1>8, <1>14, <2>2, <2>3
<1>17. CASE mode = "send"
  <2>1. ~hiccup /\ Forwarded /\ Told /\ mode # "buffer" /\ ReadsTheBody
    BY <1>1, <1>17, Zenon DEF IInv
  <2>2. Pending = <<>> /\ Len(<<>>) = 0
    BY <1>4, Zenon DEF Pending
  <2>3. end \notin {"eof", "aborted"}
        /\ end \in {"open", "eof", "aborted", "dropped"}
    BY <1>1, <1>4, <2>1 DEF Told, TypeOK
  <2>4. /\ Follows(wire, 0) /\ Len(wire) <= Len(taken)
        /\ end # "dropped" => written = Len(wire) /\ Len(taken) = Len(wire)
    <3>1. /\ Follows(wire, 0) /\ Len(wire) <= Len(taken)
          /\ end # "dropped" => /\ written = Len(wire)
                               /\ Len(taken) = Len(wire) + 0
      BY <2>1, <2>2, Zenon DEF Forwarded
    <3>2. Len(wire) + 0 = Len(wire)
      BY <1>8
    <3>3. QED
      BY <3>1, <3>2, Zenon
  <2>5. wire' = wire
    BY <1>3, <2>1
  <2>6. Len(wire) <= Len(taken')
    BY <1>1, <1>5, <1>8, <1>10, <2>4
  <2>7. CASE b = <<>>
    <3>1. chan' = <<>> /\ result' = "ok" /\ taken' = taken
      <4>1. ~Disconnected(b)
        BY <2>7 DEF Disconnected
      <4>2. taken \o b = taken
        BY <1>8, <2>7, ConcatEmptySeq
      <4>3. QED
        BY <1>1, <1>3, <1>4, <2>7, <4>1, <4>2
    <3>2. Pending' = <<>>
      BY <3>1, Zenon DEF Pending
    <3>3. Forwarded'
      <4>1. <<>> # <<Abort>>
        OBVIOUS
      <4>2. QED
        BY <1>2, <1>4, <2>1, <2>2, <2>5, <3>1, <3>2, <4>1, SourceStays, Zenon
           DEF Forwarded
    <3>4. Told'
      <4>1. end # "dropped" => Len(wire) = Len(Content)
        BY <1>16, <2>1, <2>4, <2>7
      <4>2. QED
        BY <1>2, <1>9, <2>3, <2>5, <3>1, <4>1, SourceStays DEF Told
    <3>5. QED
      BY <1>1, <1>2, <1>12, <1>13, <1>15, <1>17, <2>1, <3>3, <3>4, Zenon
         DEF IInv
  <2>8. CASE b # <<>> /\ end = "dropped"
    <3>1. chan' = <<>> /\ result' = "send error"
      BY <1>3, <1>4, <2>8 DEF Disconnected
    <3>2. Forwarded'
      <4>1. <<>> # <<Abort>>
        OBVIOUS
      <4>2. QED
        BY <1>2, <2>4, <2>5, <2>6, <2>8, <3>1, <4>1, SourceStays, Zenon
           DEF Forwarded
    <3>3. Told'
      <4>1. Len(wire) < Len(Content)
        BY <1>5, <1>8, <1>11, <1>15, <2>1, <2>4, <2>8
      <4>2. QED
        BY <1>2, <1>9, <2>5, <2>8, <3>1, <4>1, SourceStays DEF Told
    <3>4. QED
      BY <1>1, <1>2, <1>12, <1>13, <1>15, <1>17, <2>1, <3>2, <3>3, Zenon
         DEF IInv
  <2>9. CASE b # <<>> /\ end # "dropped"
    <3>1. chan' = <<b>> /\ result' = result
      BY <1>3, <2>1, <2>9 DEF Disconnected
    <3>2. end = "open" /\ chan' # <<Abort>> /\ chan' # <<>> /\ Pending' = b
      <4>1. <<b>> # <<Abort>> /\ <<b>> # <<>> /\ Head(<<b>>) = b
        BY <1>5, AbortIsNoBytes
      <4>2. Pending' = b
        BY <3>1, <4>1, Zenon DEF Pending
      <4>3. QED
        BY <2>3, <2>9, <3>1, <4>1, <4>2
    <3>3. Forwarded'
      <4>1. Len(taken') = Len(wire) + Len(b)
        BY <1>1, <1>10, <2>4, <2>9
      <4>2. Follows(b, Len(wire))
        <5>1. Follows(b, Len(taken))
          BY <1>1, <2>1, Zenon DEF ReadsTheBody, b
        <5>2. QED
          BY <2>4, <2>9, <5>1
      <4>3. QED
        BY <1>2, <2>4, <2>5, <2>6, <2>9, <3>1, <3>2, <4>1, <4>2, SourceStays,
           Zenon DEF Forwarded
    <3>4. Told'
      BY <1>2, <1>4, <1>9, <2>3, <3>1, <3>2, BodiesAssumption
         DEF Told, Results
    <3>5. QED
      BY <1>1, <1>2, <1>12, <1>13, <1>15, <1>17, <2>1, <3>3, <3>4, Zenon
         DEF IInv
  <2>10. QED
    BY <2>7, <2>8, <2>9
<1>18. CASE mode # "send"
  <2>1. Buffers /\ mode = "buffer" /\ ~Disconnected(b)
    <3>1. Buffers /\ mode = "buffer"
      BY <1>1, <1>18 DEF IInv, TypeOK
    <3>2. QED
      BY <3>1 DEF Buffers, Disconnected
  <2>2. wire' = taken' /\ chan' = <<>>
    <3>1. wire = taken
      BY <2>1 DEF Buffers
    <3>2. b = <<>> => taken \o b = taken
      BY <1>8, ConcatEmptySeq
    <3>3. QED
      BY <1>1, <1>3, <1>4, <2>1, <3>1, <3>2
  <2>3. /\ result' # "send error"
        /\ result' = "ok" => b = <<>> /\ taken' = taken
    <3>1. b = <<>> => taken \o b = taken
      BY <1>8, ConcatEmptySeq
    <3>2. QED
      BY <1>1, <1>3, <1>4, <1>9, <2>1, <3>1
  <2>4. Buffers'
    <3>1. end' = "open"
      BY <1>2, <2>1 DEF Buffers
    <3>2. result' = "ok" /\ ~hiccup' => Len(taken)' = Len(Content)'
      BY <1>1, <1>2, <1>16, <2>3, SourceStays
    <3>3. QED
      BY <2>2, <2>3, <3>1, <3>2, Zenon DEF Buffers
  <2>5. QED
    BY <1>1, <1>2, <1>12, <1>13, <1>15, <1>18, <2>4, Zenon DEF IInv
<1>19. QED
  BY <1>17, <1>18

(* The steps of a read that move only what is read.                        *)
LEMMA ReadMoves ==
  ASSUME IInv, Reading, TypeOK', InOrder', CallFits',
         ~hiccup => ReadsTheBody', source.form \/ active' # None,
         source' = source, mode' = mode, taken' = taken, written' = written,
         chan' = chan, wire' = wire, end' = end, result' = result,
         hiccup' = hiccup
  PROVE  IInv'
<1>1. ~source.form' => active' # None
  OBVIOUS
<1>2. CASE mode = "send"
  <2>1. ~hiccup /\ Forwarded /\ Told
    BY <1>2, Zenon DEF IInv
  <2>2. Pending' = Pending
    BY DEF Pending
  <2>3. Forwarded' /\ Told'
    BY <2>1, <2>2, SourceStays, Zenon DEF Forwarded, Told
  <2>4. QED
    BY <1>1, <1>2, <2>1, <2>3, Zenon DEF IInv
<1>3. CASE mode # "send"
  <2>1. Buffers
    BY <1>3, Zenon DEF IInv
  <2>2. Buffers'
    BY <2>1, SourceStays, Zenon DEF Buffers
  <2>3. QED
    BY <1>1, <1>3, <2>2, Zenon DEF IInv
<1>4. QED
  BY <1>2, <1>3

(* What is left of numbers that follow on one another follows on as well.  *)
LEMMA RestFollowsOn ==
  ASSUME NEW s \in Seq(Nat), NEW i \in Nat, \A k \in DOMAIN s : s[k] = i + k
  PROVE  /\ Rest(s) \in Seq(Nat)
         /\ Len(Rest(s)) = IF s = <<>> THEN 0 ELSE Len(s) - 1
         /\ \A k \in DOMAIN Rest(s) : Rest(s)[k] = (i + 1) + k
         /\ s # <<>> => Head(s) = i + 1 /\ 1 <= Len(s)
<1>1. CASE s = <<>>
  BY <1>1 DEF Rest
<1>2. CASE s # <<>>
  <2>1. Rest(s) = Tail(s)
    BY <1>2, Zenon DEF Rest
  <2>2. /\ Head(s) = s[1] /\ 1 \in DOMAIN s /\ 1 <= Len(s)
        /\ Tail(s) \in Seq(Nat) /\ Len(Tail(s)) = Len(s) - 1
        /\ \A k \in 1..Len(Tail(s)) : Tail(s)[k] = s[k + 1]
        /\ DOMAIN s = 1..Len(s) /\ DOMAIN Tail(s) = 1..Len(Tail(s))
        /\ Len(s) \in Nat
    BY <1>2
  <2>3. ASSUME NEW k \in DOMAIN Tail(s)
        PROVE  Tail(s)[k] = (i + 1) + k
    <3>1. k + 1 \in DOMAIN s /\ k \in 1..Len(Tail(s)) /\ k \in Int
      BY <2>2
    <3>2. Tail(s)[k] = s[k + 1] /\ s[k + 1] = i + (k + 1)
      BY <2>2, <3>1
    <3>3. i + (k + 1) = (i + 1) + k
      BY <3>1
    <3>4. QED
      BY <3>2, <3>3
  <2>4. Head(s) = i + 1
    BY <2>2
  <2>5. QED
    BY <1>2, <2>1, <2>2, <2>3, <2>4, Zenon
<1>3. QED
  BY <1>1, <1>2

(* The reader of the next part is that of the part whose turn it is, with  *)
(* its own header, and with the closing boundary if it is the last one.    *)
LEMMA StartedIsLaid ==
  ASSUME source \in Sources, source.form,
         NEW todo \in Seq(Nat), NEW headers \in Seq(Nat), NEW i \in Nat,
         Len(todo) = Len(source.parts) - i,
         \A k \in DOMAIN todo : todo[k] = i + k,
         \A k \in DOMAIN headers : headers[k] = i + k,
         todo # <<>>
  PROVE  /\ Started(todo, headers) \in Seq(Segments)
         /\ Laid(Started(todo, headers), Len(Streamed[i]), Ending(i + 1))
<1>1. Head(todo) = i + 1 /\ 1 <= Len(todo) /\ Len(todo) \in Nat
  BY RestFollowsOn, LenProperties
<1>2. headers # <<>> => Head(headers) = i + 1
  BY RestFollowsOn
<1>3. TakeHeader(headers, Head(todo)) = Header(i + 1)
  BY <1>1, <1>2, Zenon DEF TakeHeader
<1>4. Len(source.parts) \in Nat
  BY SourceIsTyped
<1>5. /\ i + 1 \in 1..Len(source.parts) /\ (i + 1) - 1 = i
      /\ (Len(todo) = 1) = (i + 1 = Len(source.parts))
  BY <1>1, <1>4
<1>6. Started(todo, headers)
         = PartChain(i + 1, Header(i + 1), i + 1 = Len(source.parts))
  BY <1>1, <1>3, <1>5, Zenon DEF Started
<1>7. QED
  BY <1>5, <1>6, ChainIsLaid, Zenon

(* The reader goes on to the next part.                                    *)
LEMMA NextReaderKeeps ==
  ASSUME IInv, NextReader
  PROVE  IInv'
<1>1. /\ TypeOK /\ InOrder /\ CallFits /\ (~hiccup => ReadsTheBody)
      /\ source.form /\ Reading /\ active # None /\ ~Present
      /\ fields' = Rest(fields) /\ computed' = Rest(computed)
      /\ active' = Started(fields, computed)
  BY Zenon DEF IInv, NextReader
<1>2. /\ source' = source /\ mode' = mode /\ call' = call
      /\ spare' = spare /\ taken' = taken /\ written' = written
      /\ chan' = chan /\ wire' = wire /\ end' = end /\ result' = result
      /\ hiccup' = hiccup
  BY DEF NextReader
<1>3. /\ source \in Sources /\ fields \in Seq(Nat) /\ computed \in Seq(Nat)
      /\ active \in Seq(Segments) /\ result = None
      /\ Len(fields) \in Nat /\ Len(computed) \in Nat
      /\ Len(source.parts) \in Nat
  BY <1>1, LenProperties, SourceIsTyped DEF TypeOK, CallFits
<1>4. /\ Begun \in 0..Len(source.parts)
      /\ Len(fields) = Len(source.parts) - Begun
      /\ Len(computed) <= Len(fields)
  BY <1>1, <1>3 DEF InOrder, Begun
<1>5. /\ \A k \in DOMAIN fields : fields[k] = Begun + k
      /\ \A k \in DOMAIN computed : computed[k] = Begun + k
  BY <1>1 DEF InOrder
<1> DEFINE i == Begun
<1>6. i \in Nat
  BY <1>3, <1>4
<1>7. source.parts' = source.parts
  BY <1>2
<1>8. CASE fields = <<>>
  <2>1. /\ Len(fields) = 0 /\ Len(computed) = 0 /\ computed = <<>>
        /\ Begun = Len(source.parts)
    BY <1>3, <1>4, <1>8, EmptySeq
  <2>2. fields' = fields /\ computed' = computed /\ active' = None
    BY <1>1, <1>8, <2>1, Zenon DEF Rest, Started
  <2>3. TypeOK'
    BY <1>1, <1>2, <2>2 DEF TypeOK
  <2>4. InOrder'
    BY <1>1, <1>2, <2>2, OrderStays
  <2>5. ReadsTheBody => ReadsTheBody'
    <3> SUFFICES ASSUME ReadsTheBody
                 PROVE  ReadsTheBody'
      OBVIOUS
    <3>1. Ending(Begun) = Len(Content)
      BY <2>1, Zenon DEF Ending
    <3>2. Laid(active, Place, Ending(Begun))
      BY <1>1, <1>3, Zenon DEF ReadsTheBody
    <3>3. \A k \in DOMAIN active : active[k].bytes = <<>>
      BY <1>1, Zenon DEF Present
    <3>4. Place = Len(Content)
      BY <1>3, <3>1, <3>2, <3>3, LaidEmpty, Zenon
    <3>5. Reading' = Reading /\ Place' = Place
      BY <1>2 DEF Reading, Place
    <3>6. QED
      BY <1>2, <2>2, <3>4, <3>5, SourceStays, Zenon DEF ReadsTheBody
  <2>6. QED
    <3>1. CallFits'
      BY <1>1, <1>2, <1>3, CallStays DEF CallFits
    <3>2. QED
      BY <1>1, <1>2, <2>3, <2>4, <2>5, <3>1, ReadMoves, Zenon
<1>9. CASE fields # <<>>
  <2> HIDE DEF i
  <2>1. /\ i = Begun /\ Len(fields) = Len(source.parts) - i
        /\ \A k \in DOMAIN fields : fields[k] = i + k
        /\ \A k \in DOMAIN computed : computed[k] = i + k
    BY <1>4, <1>5, Zenon DEF i
  <2>2. /\ active' \in Seq(Segments)
        /\ Laid(active', Len(Streamed[i]), Ending(i + 1))
    BY <1>1, <1>3, <1>6, <1>9, <2>1, StartedIsLaid, Zenon
  <2>3. /\ fields' \in Seq(Nat) /\ Len(fields') = Len(fields) - 1
        /\ \A k \in DOMAIN fields' : fields'[k] = (i + 1) + k
        /\ 1 <= Len(fields)
    BY <1>1, <1>3, <1>6, <1>9, <2>1, RestFollowsOn, Zenon
  <2>4. /\ computed' \in Seq(Nat)
        /\ Len(computed') = IF computed = <<>> THEN 0 ELSE Len(computed) - 1
        /\ \A k \in DOMAIN computed' : computed'[k] = (i + 1) + k
    BY <1>1, <1>3, <1>6, <2>1, RestFollowsOn, Zenon
  <2>5. Begun' = i + 1 /\ i # Len(source.parts)
    <3>1. Begun' = Len(source.parts) - (Len(fields) - 1)
      <4>1. Begun' = Len(source.parts') - Len(fields')
        BY Zenon DEF Begun
      <4>2. QED
        BY <1>7, <2>3, <4>1
    <3> DEFINE n == Len(source.parts)
               f == Len(fields)
    <3>2. n \in Nat /\ f \in Nat /\ f = n - i /\ 1 <= f
      BY <1>3, <2>1, <2>3, Zenon
    <3> HIDE DEF n, f
    <3>3. n - (f - 1) = i + 1 /\ i # n
      BY <1>6, <3>2
    <3>4. QED
      BY <3>1, <3>3, Zenon DEF n, f
  <2>6. TypeOK'
    BY <1>1, <1>2, <2>2, <2>3, <2>4 DEF TypeOK
  <2>7. InOrder'
    <3>1. Len(computed') <= Len(fields')
      BY <1>3, <1>4, <2>3, <2>4
    <3>2. Len(fields') <= Len(source.parts)
      BY <1>3, <1>6, <2>1, <2>3
    <3>3. QED
      BY <1>7, <2>3, <2>4, <2>5, <3>1, <3>2, Zenon DEF InOrder
  <2>8. ReadsTheBody => ReadsTheBody'
    <3> SUFFICES ASSUME ReadsTheBody
                 PROVE  ReadsTheBody'
      OBVIOUS
    <3>1. Ending(i) = Len(Streamed[i])
      BY <1>1, <2>5, Zenon DEF Ending
    <3>2. Laid(active, Place, Ending(i))
      BY <1>1, <1>3, <2>1, Zenon DEF ReadsTheBody
    <3>3. \A k \in DOMAIN active : active[k].bytes = <<>>
      BY <1>1, Zenon DEF Present
    <3>4. Place = Len(Streamed[i])
      BY <1>3, <3>1, <3>2, <3>3, LaidEmpty, Zenon
    <3>5. Reading' = Reading /\ Place' = Place
      BY <1>2 DEF Reading, Place
    <3>6. active' # None
      BY <2>2, BodiesAssumption
    <3>7. Laid(active', Place, Ending(i + 1))
      BY <2>2, <3>4
    <3>8. QED
      BY <1>2, <2>5, <3>5, <3>6, <3>7, SourceStays, Zenon DEF ReadsTheBody
  <2>9. QED
    <3>1. CallFits'
      BY <1>1, <1>2, <1>3, CallStays DEF CallFits
    <3>2. QED
      BY <1>1, <1>2, <2>6, <2>7, <2>8, <3>1, ReadMoves, Zenon
<1>10. QED
  BY <1>8, <1>9

(* Min of a set of numbers is the least of them.                           *)
LEMMA MinOf ==
  ASSUME NEW S, S \subseteq Nat, S # {}
  PROVE  Min(S) \in S /\ \A y \in S : Min(S) <= y
<1>1. \E m \in S : \A k \in S : <<k, m>> \notin OpToRel(<, Nat)
  BY NatLessThanWellFounded, WFMin, Zenon
<1>2. PICK m \in S : \A k \in S : ~ (k < m)
  BY <1>1 DEF OpToRel
<1>3. \A y \in S : m <= y
  BY <1>2
<1>4. QED
  BY <1>3, Zenon DEF Min

LEMMA MinOfTwo ==
  ASSUME NEW a \in Nat, NEW b \in Nat
  PROVE  /\ Min({a, b}) \in Nat /\ Min({a, b}) <= a /\ Min({a, b}) <= b
         /\ Min({a, b}) = a \/ Min({a, b}) = b
<1>1. {a, b} \subseteq Nat /\ {a, b} # {}
  OBVIOUS
<1>2. Min({a, b}) \in {a, b} /\ \A y \in {a, b} : Min({a, b}) <= y
  BY <1>1, MinOf, Zenon
<1>3. QED
  BY <1>2

(* The reader that is read is the first that has something.                *)
LEMMA CurrentIsFirst ==
  ASSUME active \in Seq(Segments), Present
  PROVE  /\ Current \in 1..Len(active) /\ active[Current].bytes # <<>>
         /\ \A k \in 1..(Current - 1) : active[k].bytes = <<>>
<1> DEFINE S == {k \in DOMAIN active : active[k].bytes # <<>>}
<1>1. DOMAIN active = 1..Len(active) /\ Len(active) \in Nat
  BY SegmentsOf
<1>2. S \subseteq Nat /\ S # {}
  BY <1>1 DEF Present
<1>3. Current \in S /\ \A y \in S : Current <= y
  <2>1. Current = Min(S)
    BY DEF Current
  <2> HIDE DEF S
  <2>2. QED
    BY <1>2, <2>1, MinOf, Zenon
<1>4. ASSUME NEW k \in 1..(Current - 1), active[k].bytes # <<>>
      PROVE  FALSE
  <2>1. Current \in Int /\ k \in DOMAIN active /\ k < Current
    BY <1>1, <1>3
  <2>2. Current <= k
    BY <1>3, <1>4, <2>1
  <2>3. QED
    BY <1>4, <2>1, <2>2
<1>5. QED
  BY <1>1, <1>3, <1>4

(* The reader of a part gives some of what it has.                         *)
LEMMA ReadSomeKeeps ==
  ASSUME IInv, ReadSome
  PROVE  IInv'
<1> DEFINE c == Current
           s == active[c]
           b == s.bytes
<1>1. /\ TypeOK /\ InOrder /\ CallFits /\ (~hiccup => ReadsTheBody)
      /\ Reading /\ Present /\ Room > 0
  BY Zenon DEF IInv, ReadSome
<1>2. /\ source' = source /\ mode' = mode /\ fields' = fields
      /\ computed' = computed /\ result' = result
      /\ spare' = spare /\ taken' = taken /\ written' = written
      /\ chan' = chan /\ wire' = wire /\ end' = end /\ hiccup' = hiccup
  BY DEF ReadSome
<1>3. /\ active # None /\ active \in Seq(Segments) /\ source \in Sources
      /\ result = None /\ chan = <<>> /\ call.room = spare
      /\ Len(call.buf) <= call.room
  BY <1>1 DEF TypeOK, Present, CallFits
<1>4. /\ call \in Reads /\ call.room \in Nat /\ call.buf \in Seq(Bytes)
      /\ Len(call.buf) \in Nat /\ call = [room |-> call.room, buf |-> call.buf]
  BY <1>1, CallIsTyped
<1>5. /\ c \in 1..Len(active) /\ \A k \in 1..(c - 1) : active[k].bytes = <<>>
      /\ Len(active) \in Nat
  BY <1>1, <1>3, CurrentIsFirst, SegmentsOf
<1>6. s \in Segments /\ b \in Seq(Bytes) /\ Len(b) \in Nat
  BY <1>3, <1>5, SegmentsOf
<1>7. PICK n \in IF s.reader THEN 1..Min({Len(b), Room})
                 ELSE {Min({Len(b), Room})} :
         /\ active' = <<[s EXCEPT !.bytes = SubSeq(@, n + 1, Len(@))]>>
                      \o SubSeq(active, c + 1, Len(active))
         /\ call' = [call EXCEPT !.buf = @ \o SubSeq(b, 1, n)]
  BY Zenon DEF ReadSome
<1> DEFINE t == [s EXCEPT !.bytes = SubSeq(b, n + 1, Len(b))]
           tail == SubSeq(active, c + 1, Len(active))
           piece == SubSeq(b, 1, n)
<1>8. n \in 0..Len(b) /\ n <= Room /\ Room = call.room - Len(call.buf)
  <2> DEFINE most == Min({Len(b), Room})
  <2>1. Room \in Nat /\ Room = call.room - Len(call.buf)
    BY <1>1, <1>4 DEF Room
  <2>2. most \in Nat /\ most <= Len(b) /\ most <= Room
    BY <1>6, <2>1, MinOfTwo
  <2>3. n \in 1..most \/ n = most
    BY <1>7
  <2> HIDE DEF most
  <2>4. n \in Nat /\ n <= most
    BY <2>2, <2>3
  <2>5. QED
    BY <1>6, <2>1, <2>2, <2>4
<1>9. /\ piece \in Seq(Bytes) /\ Len(piece) = n
      /\ SubSeq(b, n + 1, Len(b)) \in Seq(Bytes)
  <2> HIDE DEF b
  <2>1. n \in Int /\ 1 \in Int /\ Len(b) \in Int /\ n <= Len(b) /\ 0 <= n
    BY <1>6, <1>8
  <2>2. \A k \in 1..Len(b) : b[k] \in Bytes
    BY <1>6, ElementOfSeq
  <2>3. (\A k \in 1..n : b[k] \in Bytes)
        /\ \A k \in (n + 1)..Len(b) : b[k] \in Bytes
    BY <2>1, <2>2
  <2>4. piece \in Seq(Bytes) /\ Len(piece) = IF 1 <= n THEN n - 1 + 1 ELSE 0
    BY <2>1, <2>3, SubSeqProperties
  <2>5. SubSeq(b, n + 1, Len(b)) \in Seq(Bytes)
    BY <2>1, <2>3, SubSeqProperties, n + 1 \in Int
  <2> HIDE DEF piece
  <2>6. Len(piece) = n
    BY <2>1, <2>4
  <2>7. QED
    BY <2>4, <2>5, <2>6 DEF piece
<1>10. t \in Segments /\ t.bytes = SubSeq(b, n + 1, Len(b))
  <2> HIDE DEF b
  <2>1. QED
    BY <1>6, <1>9 DEF Segments
<1>11. active' = <<t>> \o tail
  BY <1>7
<1>12. active' \in Seq(Segments)
  <2>1. /\ c + 1 \in Int /\ Len(active) \in Int
        /\ \A k \in (c + 1)..Len(active) : active[k] \in Segments
    BY <1>3, <1>5, SegmentsOf
  <2>2. tail \in Seq(Segments)
    BY <2>1, SubSeqProperties
  <2> HIDE DEF t, tail
  <2>3. QED
    BY <1>10, <1>11, <2>2, ConsProperties
<1> HIDE DEF t, tail, piece, c, s, b
<1>13. call' = [room |-> call.room, buf |-> call.buf \o piece]
  <2>1. call' = [call EXCEPT !.buf = call.buf \o piece]
    BY <1>7 DEF piece
  <2>2. QED
    BY <1>4, <2>1
<1>14. /\ call.buf \o piece \in Seq(Bytes)
       /\ Len(call.buf \o piece) = Len(call.buf) + n
  BY <1>4, <1>9, BytesConcat, Zenon
<1>15. /\ call' \in Reads /\ call'.room = call.room
       /\ call'.buf = call.buf \o piece /\ Reading'
  <2>1. /\ call' \in Reads /\ call'.room = call.room
        /\ call'.buf = call.buf \o piece
    BY <1>4, <1>13, <1>14 DEF Reads
  <2>2. Reading'
    BY <2>1, BodiesAssumption DEF Reading
  <2>3. QED
    BY <2>1, <2>2
<1>16. TypeOK'
  BY <1>1, <1>2, <1>12, <1>15 DEF TypeOK
<1>17. InOrder' /\ Begun' = Begun
  BY <1>1, <1>2, OrderStays
<1>18. CallFits'
  <2>1. Len(call'.buf) <= call'.room
    BY <1>4, <1>8, <1>14, <1>15
  <2>2. QED
    BY <1>2, <1>3, <1>15, <2>1, Zenon DEF CallFits
<1>19. active' # None
  BY <1>12, BodiesAssumption
<1>20. ReadsTheBody => ReadsTheBody'
  <2> SUFFICES ASSUME ReadsTheBody
               PROVE  ReadsTheBody'
    OBVIOUS
  <2>1. Place = Len(taken) + Len(call.buf) /\ Len(taken) \in Nat
        /\ Place \in Nat
    <3>1. Place = Len(taken) + Len(call.buf)
      BY <1>1, Zenon DEF Place
    <3>2. Len(taken) \in Nat
      BY <1>1, LenProperties DEF TypeOK
    <3>3. QED
      BY <1>4, <3>1, <3>2
  <2>2. Laid(active, Place, Ending(Begun))
    BY <1>3, Zenon DEF ReadsTheBody
  <2>3. /\ Laid(<<t>> \o tail, Place + n, Ending(Begun))
        /\ Follows(piece, Place)
    <3>1. /\ n \in 0..Len(active[c].bytes)
          /\ t.bytes = SubSeq(active[c].bytes, n + 1, Len(active[c].bytes))
      BY <1>8, <1>10 DEF b, s
    <3>2. /\ Laid(<<t>> \o SubSeq(active, c + 1, Len(active)), Place + n,
                  Ending(Begun))
          /\ Follows(SubSeq(active[c].bytes, 1, n), Place)
      BY <1>3, <1>5, <1>10, <2>1, <2>2, <3>1, LaidRead, Zenon
    <3>3. QED
      BY <3>2 DEF tail, piece, b, s
  <2>4. Follows(call.buf \o piece, Len(taken))
    <3>1. /\ Follows(call.buf, Len(taken))
          /\ Follows(piece, Len(taken) + Len(call.buf))
      BY <1>1, <2>1, <2>3, Zenon DEF ReadsTheBody
    <3>2. QED
      BY <1>3, <1>4, <1>9, <2>1, <3>1, FollowsConcat, Zenon
  <2>5. Place' = Place + n
    <3>1. Place' = Len(taken) + Len(call.buf \o piece)
      BY <1>2, <1>15, Zenon DEF Place
    <3>2. n \in Nat
      BY <1>6, <1>8
    <3>3. QED
      BY <1>4, <1>14, <2>1, <3>1, <3>2
  <2>6. Laid(active', Place', Ending(Begun))
    BY <1>11, <2>3, <2>5
  <2>7. Follows(taken, 0)
    BY DEF ReadsTheBody
  <2>8. QED
    BY <1>2, <1>15, <1>17, <1>19, <2>4, <2>6, <2>7, SourceStays, Zenon
       DEF ReadsTheBody
<1>21. QED
  BY <1>1, <1>2, <1>16, <1>17, <1>18, <1>19, <1>20, ReadMoves, Zenon

(* At most all parts know their length.                                    *)
LEMMA MeasuredIsBounded ==
  ASSUME source \in Sources
  PROVE  Measured \in 0..Len(source.parts)
<1> DEFINE n == Len(source.parts)
           unknown == {i \in 1..n : source.parts[i].len = None}
<1>1. n \in Nat
  BY SourceIsTyped
<1>2. Measured = IF unknown = {} THEN n ELSE Min(unknown) - 1
  BY Zenon DEF Measured
<1>3. unknown # {} => Min(unknown) \in unknown
  <2>1. unknown \subseteq Nat
    BY <1>1
  <2> HIDE DEF unknown
  <2>2. QED
    BY <2>1, MinOf, Zenon
<1>4. unknown # {} => Min(unknown) \in 1..n
  BY <1>3
<1> HIDE DEF n, unknown
<1>5. CASE unknown = {}
  <2>1. Measured = n
    BY <1>2, <1>5, Zenon
  <2>2. QED
    BY <1>1, <2>1 DEF n
<1>6. CASE unknown # {}
  <2>1. Measured = Min(unknown) - 1
    BY <1>2, <1>6, Zenon
  <2>2. Min(unknown) - 1 \in 0..n
    BY <1>1, <1>4, <1>6
  <2>3. QED
    BY <2>1, <2>2 DEF n
<1>7. QED
  BY <1>5, <1>6

LEMMA ConLenIsTyped ==
  ASSUME source \in Sources
  PROVE  ConLen \in Nat \cup {None}
<1>1. CASE ~source.form
  <2>1. ConLen = source.len
    BY <1>1, Zenon DEF ConLen
  <2>2. QED
    BY <2>1, SourceIsTyped
<1>2. CASE source.form /\ Measured < Len(source.parts)
  <2>1. ConLen = None
    BY <1>2, Zenon DEF ConLen, ComputeLength
  <2>2. QED
    BY <2>1
<1>3. CASE source.form /\ ~(Measured < Len(source.parts))
  <2> DEFINE all == Lengths[Len(source.parts)]
  <2>1. ConLen = all + IF source.parts = <<>> THEN 0 ELSE 2 + 1 + 4
    BY <1>3, Zenon DEF ConLen, ComputeLength
  <2>2. all \in Nat
    <3>1. Len(source.parts) \in 0..Len(source.parts)
      BY SourceIsTyped
    <3>2. QED
      BY <1>3, <3>1, MeasuredWhole, LengthsAreDefined
  <2> HIDE DEF all
  <2>3. QED
    BY <2>1, <2>2
<1>4. QED
  BY <1>1, <1>2, <1>3

(* The buffer is no larger than BufferSize.                                *)
LEMMA CapacityIsTyped ==
  ASSUME source \in Sources
  PROVE  Capacity \in 0..BufferSize /\ BufferSize \in 0..BufferSize
<1>1. BufferSize \in Nat
  BY BodiesAssumption
<1>2. CASE ConLen = None
  <2>1. Capacity = BufferSize
    BY <1>2, Zenon DEF Capacity
  <2>2. QED
    BY <1>1, <2>1
<1>3. CASE ConLen # None
  <2>1. Capacity = Min({ConLen, BufferSize})
    BY <1>3, Zenon DEF Capacity
  <2>2. ConLen \in Nat
    BY <1>3, ConLenIsTyped
  <2>3. Min({ConLen, BufferSize}) \in 0..BufferSize
    BY <1>1, <2>2, MinOfTwo
  <2>4. QED
    BY <1>1, <2>1, <2>3
<1>4. QED
  BY <1>2, <1>3

(* A reader that is a body by itself is laid out as its only segment.      *)
LEMMA ReaderIsLaid ==
  ASSUME source \in Sources, ~source.form
  PROVE  LET alone == <<Segment(Data(1), TRUE)>>
         IN alone \in Seq(Segments) /\ Laid(alone, 0, Len(Content))
<1> DEFINE S == Segment(Data(1), TRUE)
           alone == <<S>>
           at == [k \in 1..2 |-> IF k = 1 THEN 0 ELSE Len(Content)]
<1>1. Content = Data(1) /\ Data(1) \in Seq(Bytes) /\ Len(Content) \in Nat
  <2>1. Content = Data(1)
    BY Zenon DEF Content
  <2>2. QED
    BY <2>1, ContentIsTyped
<1>2. S \in Segments /\ S.bytes = Content
  BY <1>1 DEF Segment, Segments
<1>3. Follows(Content, 0)
  BY ContentFollows
<1> HIDE DEF S
<1>4. /\ alone \in Seq(Segments) /\ Len(alone) = 1 /\ DOMAIN alone = 1..1
      /\ alone[1] = S
  BY <1>2
<1>5. at \in [1..2 -> Nat] /\ at[1] = 0 /\ at[2] = Len(Content)
  BY <1>1
<1>6. at[2] = at[1] + Len(alone[1].bytes) /\ Follows(alone[1].bytes, at[1])
  <2>1. 0 + Len(Content) = Len(Content)
    BY <1>1
  <2>2. QED
    BY <1>2, <1>3, <1>4, <1>5, <2>1, Zenon
<1> HIDE DEF at, alone
<1>7. Laid(alone, 0, Len(Content))
  <2>1. \A k \in DOMAIN alone : k = 1
    BY <1>4
  <2>2. 1 + 1 = 2
    OBVIOUS
  <2>3. QED
    BY <1>4, <1>5, <1>6, <2>1, <2>2, Zenon DEF Laid
<1>8. QED
  BY <1>4, <1>7 DEF alone, S

(* Nothing is read, and the first part's reader has all of it.             *)
LEMMA InitHolds ==
  ASSUME Init
  PROVE  IInv
<1> DEFINE n == Len(source.parts)
           todo == [i \in DOMAIN source.parts |-> i]
           headers == [i \in 1..Measured |-> i]
<1>1. /\ source \in Sources /\ mode \in {"send", "buffer"}
      /\ call = None
      /\ spare = (IF mode = "send" THEN Capacity ELSE BufferSize)
      /\ taken = <<>> /\ written = 0 /\ chan = <<>> /\ wire = <<>>
      /\ end = "open" /\ result = None /\ hiccup = FALSE
      /\ source.form => /\ fields = Rest(todo) /\ computed = Rest(headers)
                        /\ active = Started(todo, headers)
      /\ ~source.form => /\ fields = <<>> /\ computed = <<>>
                         /\ active = <<Segment(Data(1), TRUE)>>
  BY Zenon DEF Init
<1>2. n \in Nat /\ DOMAIN source.parts = 1..n /\ Measured \in 0..n
  BY <1>1, SourceIsTyped, MeasuredIsBounded, LenProperties
<1>3. /\ todo \in Seq(Nat) /\ Len(todo) = n
      /\ \A k \in DOMAIN todo : todo[k] = 0 + k
      /\ headers \in Seq(Nat) /\ Len(headers) <= n /\ Len(headers) \in Nat
      /\ \A k \in DOMAIN headers : headers[k] = 0 + k
  <2> HIDE DEF n
  <2>1. /\ todo \in Seq(Nat) /\ Len(todo) = n
        /\ \A k \in DOMAIN todo : todo[k] = 0 + k
    BY <1>2
  <2>2. /\ headers \in Seq(Nat) /\ Len(headers) = Measured
        /\ \A k \in DOMAIN headers : headers[k] = 0 + k
    BY <1>2
  <2>3. QED
    BY <1>2, <2>1, <2>2
<1> HIDE DEF todo, headers
<1>4. ~Reading /\ Place = 0
  <2>1. ~Reading
    BY <1>1 DEF Reading
  <2>2. Place = Len(<<>>) + 0
    BY <1>1, <2>1, Zenon DEF Place
  <2>3. Len(<<>>) + 0 = 0
    OBVIOUS
  <2>4. QED
    BY <2>1, <2>2, <2>3
<1>5. /\ fields \in Seq(Nat) /\ computed \in Seq(Nat)
      /\ active \in Seq(Segments) \cup {None} /\ InOrder
      /\ ~source.form => active # None
      /\ IF active = None THEN 0 = Len(Content)
         ELSE Laid(active, 0, Ending(Begun))
  <2>1. CASE ~source.form
    <3>1. /\ fields = <<>> /\ computed = <<>> /\ Len(fields) = 0
          /\ Len(computed) = 0 /\ DOMAIN fields = {} /\ DOMAIN computed = {}
          /\ fields \in Seq(Nat) /\ computed \in Seq(Nat)
      <4>1. fields = <<>> /\ computed = <<>>
        BY <1>1, <2>1, Zenon
      <4>2. QED
        BY <4>1, EmptySeq
    <3>2. active \in Seq(Segments) /\ Laid(active, 0, Len(Content))
      BY <1>1, <2>1, ReaderIsLaid
    <3>3. active # None
      BY <3>2, BodiesAssumption
    <3>4. Ending(Begun) = Len(Content)
      BY <2>1, Zenon DEF Ending
    <3>5. InOrder
      BY <1>2, <3>1 DEF InOrder
    <3>6. QED
      BY <3>1, <3>2, <3>3, <3>4, <3>5, Zenon
  <2>2. CASE source.form /\ todo = <<>>
    <3>1. n = 0 /\ headers = <<>> /\ source.parts = <<>>
      <4>1. n = 0
        BY <1>3, <2>2
      <4>2. headers = <<>>
        BY <1>3, <4>1, EmptySeq
      <4>3. source.parts = <<>>
        BY <1>1, <4>1, SourceIsTyped, EmptySeq
      <4>4. QED
        BY <4>1, <4>2, <4>3
    <3>2. fields = <<>> /\ computed = <<>> /\ active = None
      BY <1>1, <2>2, <3>1, Zenon DEF Rest, Started
    <3>3. Content = <<>>
      BY <2>2, <3>1, Zenon DEF Content, IntoStream
    <3>4. /\ Len(fields) = 0 /\ Len(computed) = 0 /\ DOMAIN fields = {}
          /\ DOMAIN computed = {} /\ Len(Content) = 0
          /\ fields \in Seq(Nat) /\ computed \in Seq(Nat)
      BY <3>2, <3>3, EmptySeq
    <3>5. InOrder
      BY <1>2, <3>4 DEF InOrder
    <3>6. QED
      BY <2>2, <3>2, <3>4, <3>5, Zenon
  <2>3. CASE source.form /\ todo # <<>>
    <3>1. /\ fields \in Seq(Nat) /\ Len(fields) = n - 1
          /\ \A k \in DOMAIN fields : fields[k] = (0 + 1) + k
          /\ 1 <= n
      <4>1. /\ Rest(todo) \in Seq(Nat)
            /\ Len(Rest(todo)) = IF todo = <<>> THEN 0 ELSE Len(todo) - 1
            /\ \A k \in DOMAIN Rest(todo) : Rest(todo)[k] = (0 + 1) + k
            /\ todo # <<>> => 1 <= Len(todo)
        BY <1>3, RestFollowsOn, 0 \in Nat, Zenon
      <4>2. fields = Rest(todo) /\ Len(todo) = n
        BY <1>1, <1>3, <2>3, Zenon
      <4>3. QED
        BY <2>3, <4>1, <4>2, Zenon
    <3>2. /\ computed \in Seq(Nat)
          /\ Len(computed) = IF headers = <<>> THEN 0 ELSE Len(headers) - 1
          /\ \A k \in DOMAIN computed : computed[k] = (0 + 1) + k
      <4>1. /\ Rest(headers) \in Seq(Nat)
            /\ Len(Rest(headers)) = IF headers = <<>> THEN 0
                                    ELSE Len(headers) - 1
            /\ \A k \in DOMAIN Rest(headers) : Rest(headers)[k] = (0 + 1) + k
        BY <1>3, RestFollowsOn, 0 \in Nat, Zenon
      <4>2. computed = Rest(headers)
        BY <1>1, <2>3, Zenon
      <4>3. QED
        BY <4>1, <4>2, Zenon
    <3>3. Len(todo) = Len(source.parts) - 0
      BY <1>2, <1>3
    <3>4. /\ active \in Seq(Segments)
          /\ Laid(active, Len(Streamed[0]), Ending(0 + 1))
      BY <1>1, <1>3, <2>3, <3>3, StartedIsLaid, 0 \in Nat, Zenon
    <3>5. 0 + 1 = 1 /\ Len(Streamed[0]) = 0
      BY <1>1, StreamedIsDefined, EmptySeq
    <3>6. Begun = 1
      <4>1. n - (n - 1) = 1
        BY <1>2
      <4>2. QED
        BY <3>1, <4>1, Zenon DEF Begun
    <3>7. Len(computed) <= Len(fields) /\ Len(fields) <= n
      <4> HIDE DEF n
      <4>1. QED
        BY <1>2, <1>3, <3>1, <3>2
    <3>8. InOrder
      BY <3>1, <3>2, <3>5, <3>6, <3>7, Zenon DEF InOrder
    <3>9. active # None
      BY <3>4, BodiesAssumption
    <3>10. QED
      BY <2>3, <3>1, <3>2, <3>4, <3>5, <3>6, <3>8, <3>9, Zenon
  <2>4. QED
    BY <2>1, <2>2, <2>3
<1>6. TypeOK
  <2>1. spare \in 0..BufferSize
    BY <1>1, CapacityIsTyped
  <2>2. <<>> \in Seq(Bytes)
    BY EmptySeq
  <2>3. QED
    BY <1>1, <1>5, <2>1, <2>2 DEF TypeOK
<1>7. CallFits
  BY <1>4 DEF CallFits
<1>8. Follows(<<>>, 0) /\ Len(<<>>) = 0 /\ <<>> # <<Abort>>
  <2>1. 0 \in 0..Len(Content)
    BY <1>1, ContentIsTyped
  <2>2. QED
    BY <2>1, EmptyFollows
<1>9. ReadsTheBody
  BY <1>1, <1>4, <1>5, <1>8, Zenon DEF ReadsTheBody
<1>10. Forwarded
  <2>1. Pending = <<>>
    BY <1>1, Zenon DEF Pending
  <2>2. 0 <= 0 /\ 0 = 0 + 0
    OBVIOUS
  <2>3. QED
    BY <1>1, <1>8, <2>1, <2>2, Zenon DEF Forwarded
<1>11. Told /\ Buffers
  <2>1. None \notin {"ok", "send error", "read error"}
    BY BodiesAssumption DEF Results
  <2>2. QED
    BY <1>1, <2>1 DEF Told, Buffers
<1>12. QED
  BY <1>1, <1>5, <1>6, <1>7, <1>9, <1>10, <1>11, Zenon DEF IInv

(* Every step preserves the inductive invariant.                           *)
LEMMA StepKeeps ==
  ASSUME IInv, [Next]_vars
  PROVE  IInv'
<1>1. CASE StopAtLength
  BY <1>1, StopKeeps
<1>2. CASE StartRead
  BY <1>2, StartKeeps
<1>3. CASE ReadSome
  BY <1>3, ReadSomeKeeps
<1>4. CASE NextReader
  BY <1>4, NextReaderKeeps
<1>5. CASE ReadReturns
  BY <1>5, ReturnKeeps
<1>6. CASE ReadFails
  BY <1>6, FailKeeps
<1>7. CASE ReadInterrupted
  BY <1>7, InterruptKeeps
<1>8. CASE TimedOut
  BY <1>8, TimeoutKeeps
<1>9. CASE Receive
  BY <1>9, ReceiveKeeps
<1>10. CASE SeesEnd
  BY <1>10, EndKeeps
<1>11. CASE DropsBody
  BY <1>11, DropKeeps
<1>12. CASE UNCHANGED vars
  <2>1. /\ source' = source /\ mode' = mode /\ fields' = fields
        /\ computed' = computed /\ active' = active /\ call' = call
        /\ spare' = spare /\ taken' = taken /\ written' = written
        /\ chan' = chan /\ wire' = wire /\ end' = end /\ result' = result
        /\ hiccup' = hiccup
    BY <1>12 DEF vars
  <2>2. TypeOK /\ InOrder /\ CallFits /\ (~hiccup => ReadsTheBody)
        /\ (~source.form => active # None)
    BY Zenon DEF IInv
  <2>3. TypeOK'
    BY <2>1, <2>2 DEF TypeOK
  <2>4. InOrder' /\ Begun' = Begun
    BY <2>1, <2>2, OrderStays
  <2>5. CallFits'
    BY <2>1, <2>2 DEF CallFits, Reading
  <2>6. ~hiccup' => ReadsTheBody'
    BY <2>1, <2>2, ReadingStays
  <2>7. Pending' = Pending
    BY <2>1 DEF Pending
  <2>8. (Forwarded => Forwarded') /\ (Told => Told') /\ (Buffers => Buffers')
    BY <2>1, <2>7, SourceStays, Zenon DEF Forwarded, Told, Buffers
  <2>9. CASE mode = "send"
    BY <2>1, <2>2, <2>3, <2>4, <2>5, <2>6, <2>8, <2>9, Zenon DEF IInv
  <2>10. CASE mode # "send"
    BY <2>1, <2>2, <2>3, <2>4, <2>5, <2>6, <2>8, <2>10, Zenon DEF IInv
  <2>11. QED
    BY <2>9, <2>10
<1>13. QED
  BY <1>1, <1>2, <1>3, <1>4, <1>5, <1>6, <1>7, <1>8, <1>9, <1>10, <1>11,
     <1>12, Zenon DEF Next, Caller, Done

(* Whatever the forms and the readers, however their reads are cut, fail   *)
(* or are interrupted, and however fast the connection takes what is sent: *)
(* what was read of a body and what its readers still have is the body, in *)
(* its order, and all that was read is with the connection or in the       *)
(* channel, until the connection drops the body.                           *)
THEOREM BodiesInvariant == Spec => []IInv
<1>1. Init => IInv
  BY InitHolds
<1>2. IInv /\ [Next]_vars => IInv'
  BY StepKeeps
<1>3. QED
  BY <1>1, <1>2, PTL DEF Spec

(* The Content-Length that FormParts::compute_length adds up is the number *)
(* of bytes that part_stream and next_reader write, for any parts that say *)
(* truly how long they are.                                                *)
THEOREM LengthsAreExact == Spec => []FormLengthIsExact
<1>1. IInv => FormLengthIsExact
  BY LengthIsExact DEF IInv, TypeOK
<1>2. QED
  BY <1>1, BodiesInvariant, PTL

(* --- What the connection has ------------------------------------------- *)

(* n bytes cut at the Content-Length.                                      *)
Cut(n) == IF ConLen = None THEN n ELSE Min({ConLen, n})

LEMMA CutIsBounded ==
  ASSUME source \in Sources, NEW n \in Nat
  PROVE  /\ Cut(n) \in Nat /\ Cut(n) <= n
         /\ ConLen # None => Cut(n) <= ConLen /\ ConLen \in Nat
         /\ \A m \in Nat : m <= n => Cut(m) <= Cut(n)
         /\ ConLen # None /\ ConLen <= n => Cut(n) = ConLen
<1>1. CASE ConLen = None
  <2>1. \A m : Cut(m) = m
    BY <1>1, Zenon DEF Cut
  <2>2. QED
    BY <1>1, <2>1
<1>2. CASE ConLen # None
  <2>1. ConLen \in Nat
    BY <1>2, ConLenIsTyped
  <2>2. ASSUME NEW m \in Nat
        PROVE  /\ Cut(m) \in Nat /\ Cut(m) <= m /\ Cut(m) <= ConLen
               /\ Cut(m) = m \/ Cut(m) = ConLen
    <3>1. Cut(m) = Min({ConLen, m})
      BY <1>2, Zenon DEF Cut
    <3>2. QED
      BY <2>1, <3>1, MinOfTwo
  <2>3. QED
    BY <1>2, <2>1, <2>2
<1>3. QED
  BY <1>1, <1>2

(* What follows the body's start is what the body begins with.             *)
LEMMA FollowsIsPrefix ==
  ASSUME source \in Sources, NEW b \in Seq(Bytes), Follows(b, 0),
         NEW m \in 0..Len(b)
  PROVE  /\ Len(b) <= Len(Content)
         /\ SubSeq(b, 1, m) = SubSeq(Content, 1, m)
         /\ m = Len(b) => b = SubSeq(Content, 1, m)
<1> DEFINE w == Content
<1>1. /\ Len(b) \in Nat /\ Len(b) <= Len(w) /\ DOMAIN b = 1..Len(b)
      /\ w \in Seq(Bytes) /\ Len(w) \in Nat
      /\ \A k \in 1..Len(b) : b[k] = w[k]
  <2>1. Len(b) \in Nat /\ DOMAIN b = 1..Len(b)
    BY LenProperties
  <2>2. w \in Seq(Bytes) /\ Len(w) \in Nat
    BY ContentIsTyped
  <2>3. 0 + Len(b) <= Len(w) /\ \A k \in 1..Len(b) : b[k] = w[0 + k]
    BY <2>1, Zenon DEF Follows
  <2> HIDE DEF w
  <2>4. QED
    BY <2>1, <2>2, <2>3
<1> HIDE DEF w
<1>2. SubSeq(b, 1, m) = SubSeq(w, 1, m)
  BY <1>1
<1>3. SubSeq(b, 1, Len(b)) = b
  BY <1>1
<1>4. QED
  BY <1>1, <1>2, <1>3, Zenon DEF w

(* What the connection is promised, and has, as parts of the body.         *)
LEMMA GotIsPrefix ==
  ASSUME source \in Sources
  PROVE  /\ Prefix(ConLen) = SubSeq(Content, 1, Cut(Len(Content)))
         /\ Len(Prefix(ConLen)) = Cut(Len(Content))
         /\ Cut(Len(Content)) \in 0..Len(Content)
         /\ mode = "send" /\ wire \in Seq(Bytes) /\ Follows(wire, 0) =>
               Got = SubSeq(Content, 1, Cut(Len(wire)))
<1>1. Content \in Seq(Bytes) /\ Len(Content) \in Nat
  BY ContentIsTyped
<1>2. Cut(Len(Content)) \in 0..Len(Content)
  BY <1>1, CutIsBounded
<1>3. Prefix(ConLen) = SubSeq(Content, 1, Cut(Len(Content)))
  BY Zenon DEF Prefix, Cut
<1>4. Len(Prefix(ConLen)) = Cut(Len(Content))
  <2> DEFINE w == Content
             m == Cut(Len(Content))
  <2>1. w \in Seq(Bytes) /\ m \in 0..Len(w) /\ Len(w) \in Nat
    BY <1>1, <1>2
  <2> HIDE DEF w, m
  <2>2. Len(SubSeq(w, 1, m)) = m
    BY <2>1
  <2>3. QED
    BY <1>3, <2>2 DEF w, m
<1>5. ASSUME mode = "send", wire \in Seq(Bytes), Follows(wire, 0)
      PROVE  Got = SubSeq(Content, 1, Cut(Len(wire)))
  <2>1. Len(wire) \in Nat
    BY <1>5, LenProperties
  <2>2. Cut(Len(wire)) \in 0..Len(wire)
    BY <2>1, CutIsBounded
  <2>3. /\ SubSeq(wire, 1, Cut(Len(wire)))
             = SubSeq(Content, 1, Cut(Len(wire)))
        /\ wire = SubSeq(Content, 1, Len(wire))
    <3>1. Len(wire) \in 0..Len(wire)
      BY <2>1
    <3>2. QED
      BY <1>5, <2>2, <3>1, FollowsIsPrefix
  <2>4. mode # "buffer"
    BY <1>5
  <2>5. QED
    BY <2>3, <2>4, Zenon DEF Got, Cut
<1>6. QED
  BY <1>2, <1>3, <1>4, <1>5

(* What is reported is true wherever the invariant holds.                  *)
LEMMA InvariantIsTrue ==
  ASSUME IInv
  PROVE  ResultIsTrue
<1>1. /\ source \in Sources /\ wire \in Seq(Bytes) /\ taken \in Seq(Bytes)
      /\ mode \in {"send", "buffer"}
      /\ Len(wire) \in Nat /\ Len(Content) \in Nat
  BY LenProperties, ContentIsTyped DEF IInv, TypeOK
<1>2. OkMeansDelivered
  <2> SUFFICES ASSUME mode = "send", result = "ok", end # "dropped"
               PROVE  /\ chan = <<>>
                      /\ \E n \in Len(Prefix(ConLen))..Len(Content) :
                            wire = SubSeq(Content, 1, n)
    BY Zenon DEF OkMeansDelivered
  <2>1. Follows(wire, 0) /\ Told
    BY DEF IInv, Forwarded
  <2>2. chan = <<>> /\ (Len(wire) = Len(Content) \/ ConLen = Len(wire))
    BY <2>1 DEF Told
  <2>3. Len(wire) <= Len(Content) /\ wire = SubSeq(Content, 1, Len(wire))
    <3>1. Len(wire) \in 0..Len(wire)
      BY <1>1
    <3>2. QED
      BY <1>1, <2>1, <3>1, FollowsIsPrefix
  <2>4. Cut(Len(Content)) <= Len(wire) /\ Cut(Len(Content)) \in Nat
    <3>1. None \notin Nat
      BY BodiesAssumption
    <3>2. QED
      BY <1>1, <2>2, <3>1, CutIsBounded
  <2>5. Len(wire) \in Len(Prefix(ConLen))..Len(Content)
    BY <1>1, <2>3, <2>4, GotIsPrefix
  <2>6. QED
    BY <2>2, <2>3, <2>5
<1>3. Len(wire) < Len(Content) => wire # Content
  <2> DEFINE m == Len(wire)
             n == Len(Content)
  <2>1. m \in Nat /\ n \in Nat
    BY <1>1
  <2> HIDE DEF m, n
  <2>2. m < n => m # n
    BY <2>1
  <2>3. QED
    BY <2>2, Zenon DEF m, n
<1>4. LateDropIsNoError
  <2> SUFFICES ASSUME result = "send error"
               PROVE  wire # Content
    BY DEF LateDropIsNoError
  <2>1. mode = "send" /\ Told
    BY <1>1 DEF IInv, Buffers
  <2>2. Len(wire) < Len(Content)
    BY <2>1 DEF Told
  <2>3. QED
    BY <2>2, <1>3, Zenon
<1>5. BufferIsWhole
  <2> SUFFICES ASSUME mode = "buffer", result = "ok", ~hiccup
               PROVE  wire = Content
    BY DEF BufferIsWhole
  <2>1. Buffers /\ ReadsTheBody
    BY DEF IInv
  <2>2. wire = taken /\ Len(taken) = Len(Content) /\ Follows(taken, 0)
    BY <2>1 DEF Buffers, ReadsTheBody
  <2>3. QED
    BY <1>1, <2>2, WholeIsContent
<1>6. QED
  BY <1>2, <1>4, <1>5 DEF ResultIsTrue

(* When send_future returns Ok, the connection that still wants the body   *)
(* has all of it, up to its Content-Length; an error of the channel means  *)
(* that it has not all of it; and Body::buffer holds the body, if no read  *)
(* was interrupted.                                                        *)
THEOREM ResultsAreTrue == Spec => []ResultIsTrue
<1>1. IInv => ResultIsTrue
  BY InvariantIsTrue
<1>2. QED
  BY <1>1, BodiesInvariant, PTL

(* --- What the connection is promised ----------------------------------- *)

(* A step that only moves what the caller knows is none for the connection.*)
LEMMA CallerIsUnseen ==
  ASSUME IInv, source' = source, mode' = mode, end' = end,
         mode = "send" => wire' = wire,
         result' = result \/ result = None
  PROVE  UNCHANGED D!vars
<1>1. /\ mode \in {"send", "buffer"}
      /\ end \in {"open", "eof", "aborted", "dropped"}
  BY DEF IInv, TypeOK
<1>2. Prefix(ConLen)' = Prefix(ConLen)
  BY SourceStays, Zenon DEF Prefix
<1>3. Got' = Got
  BY <1>1, SourceStays, Zenon DEF Got
<1>4. Ended' = Ended
  <2>1. CASE mode = "buffer" \/ end = "open"
    BY <2>1, Zenon DEF Ended
  <2>2. CASE mode = "send" /\ end # "open" /\ result' = result
    <3>1. Accepted' = Accepted
      BY <2>2, SourceStays, Zenon DEF Accepted
    <3>2. QED
      BY <2>2, <3>1, Zenon DEF Ended
  <2>3. CASE mode = "send" /\ end # "open" /\ result = None
    <3>1. end # "eof"
      BY <2>3 DEF IInv, Told
    <3>2. ~Accepted /\ ~Accepted'
      BY <3>1 DEF Accepted
    <3>3. mode # "buffer"
      BY <2>3
    <3>4. QED
      BY <2>3, <3>2, <3>3, Zenon DEF Ended
  <2>4. QED
    BY <1>1, <2>1, <2>2, <2>3
<1>5. QED
  BY <1>2, <1>3, <1>4 DEF D!vars

(* What the connection receives is what comes next, or the Abort.          *)
LEMMA ReceiveDelivers ==
  ASSUME IInv, IInv', Receive
  PROVE  [D!Next]_(D!vars)
<1>1. /\ source \in Sources /\ wire \in Seq(Bytes) /\ Len(wire) \in Nat
      /\ mode = "send" /\ Follows(wire, 0) /\ end = "open"
      /\ Len(Content) \in Nat
  BY LenProperties, ContentIsTyped DEF IInv, TypeOK, Forwarded, Receive
<1>2. source' = source /\ mode' = mode /\ result' = result
  BY DEF Receive
<1>3. /\ wire' \in Seq(Bytes) /\ Follows(wire', 0)
      /\ Len(wire') \in Nat /\ Len(wire') <= Len(Content)
  <2>1. wire' \in Seq(Bytes) /\ Follows(wire, 0)'
    BY <1>1, <1>2 DEF IInv, TypeOK, Forwarded
  <2>2. Follows(wire', 0)
    BY <1>2, <2>1, SourceStays, Zenon
  <2>3. Len(wire') \in Nat
    BY <2>1, LenProperties
  <2>4. 0 + Len(wire') <= Len(Content)
    BY <2>2, Zenon DEF Follows
  <2>5. QED
    BY <2>1, <2>2, <2>3, <2>4
<1>4. Prefix(ConLen)' = Prefix(ConLen)
  BY <1>2, SourceStays, Zenon DEF Prefix
<1>5. Ended = "open"
  BY <1>1, Zenon DEF Ended
<1>6. CASE Head(chan) = Abort
  <2>1. end' = "aborted" /\ wire' = wire
    BY <1>6, Zenon DEF Receive
  <2>2. Got' = Got
    BY <1>2, <2>1, SourceStays, Zenon DEF Got
  <2>3. Ended' = "broken"
    <3>1. ~Accepted'
      BY <2>1 DEF Accepted
    <3>2. mode' # "buffer" /\ end' # "open"
      BY <1>1, <1>2, <2>1
    <3>3. QED
      BY <3>1, <3>2, Zenon DEF Ended
  <2>4. D!Break
    BY <1>4, <1>5, <2>2, <2>3, Zenon DEF D!Break
  <2>5. QED
    BY <2>4 DEF D!Next
<1>7. CASE Head(chan) # Abort
  <2> DEFINE m == Cut(Len(wire))
             n == Cut(Len(wire'))
             w == Cut(Len(Content))
  <2>1. end' = end /\ wire' = wire \o Head(chan)
    BY <1>7, Zenon DEF Receive
  <2>2. Ended' = "open"
    BY <1>1, <2>1, Zenon DEF Ended
  <2>3. Len(wire) <= Len(wire')
    <3>1. chan # <<>>
      BY DEF Receive
    <3>2. chan # <<Abort>>
      BY <1>7
    <3>3. Head(chan) \in Seq(Bytes)
      BY <1>7, <3>1, <3>2, ChannelHolds DEF IInv
    <3>4. /\ Len(wire') = Len(wire) + Len(Head(chan))
          /\ Len(Head(chan)) \in Nat
      BY <1>1, <2>1, <3>3, BytesConcat, Zenon
    <3>5. QED
      BY <1>1, <3>4
  <2>4. /\ m \in Nat /\ n \in Nat /\ w \in Nat /\ m <= n /\ n <= w
        /\ m <= Len(wire) /\ n <= Len(wire')
    BY <1>1, <1>3, <2>3, CutIsBounded
  <2>5. Got = SubSeq(Content, 1, m)
    BY <1>1, GotIsPrefix, Zenon
  <2>6. Got' = SubSeq(Content, 1, n)
    <3>1. n \in 0..Len(wire')
      BY <1>3, <2>4
    <3>2. /\ SubSeq(wire', 1, n) = SubSeq(Content, 1, n)
          /\ (n = Len(wire') => wire' = SubSeq(Content, 1, n))
      BY <1>1, <1>3, <3>1, FollowsIsPrefix, Zenon
    <3>3. mode' # "buffer"
      BY <1>1, <1>2
    <3>4. CASE ConLen = None
      <4>1. n = Len(wire')
        BY <3>4, Zenon DEF Cut
      <4>2. Got' = wire'
        BY <1>2, <3>3, <3>4, SourceStays, Zenon DEF Got
      <4>3. QED
        BY <3>2, <4>1, <4>2, Zenon
    <3>5. CASE ConLen # None
      <4>1. n = Min({ConLen, Len(wire')})
        BY <3>5, Zenon DEF Cut
      <4>2. Got' = SubSeq(wire', 1, Min({ConLen, Len(wire')}))
        BY <1>2, <3>3, <3>5, SourceStays, Zenon DEF Got
      <4>3. QED
        BY <3>2, <4>1, <4>2, Zenon
    <3>6. QED
      BY <3>4, <3>5
  <2>7. CASE m = n
    <3>1. Got' = Got
      BY <2>5, <2>6, <2>7, Zenon
    <3>2. QED
      BY <1>4, <1>5, <2>2, <3>1 DEF D!vars
  <2>8. CASE m # n
    <3>1. n \in (m + 1)..w
      <4> HIDE DEF m, n, w
      <4>1. QED
        BY <2>4, <2>8
    <3>2. Prefix(ConLen) = SubSeq(Content, 1, w) /\ Len(Prefix(ConLen)) = w
          /\ w \in 0..Len(Content)
      BY <1>1, GotIsPrefix
    <3>3. /\ Len(SubSeq(Content, 1, m)) = m
          /\ SubSeq(SubSeq(Content, 1, w), 1, n) = SubSeq(Content, 1, n)
      <4> DEFINE c == Content
      <4>1. c \in Seq(Bytes)
        BY <1>1, ContentIsTyped
      <4>2. m \in 0..w /\ n \in 0..w /\ w \in 0..Len(c) /\ Len(c) \in Nat
        <5> HIDE DEF m, n, w
        <5>1. QED
          BY <1>1, <2>4, <3>2
      <4> HIDE DEF c, m, n, w
      <4>3. /\ Len(SubSeq(c, 1, m)) = m
            /\ SubSeq(SubSeq(c, 1, w), 1, n) = SubSeq(c, 1, n)
        BY <4>1, <4>2
      <4>4. QED
        BY <4>3 DEF c
    <3> HIDE DEF m, n, w
    <3>4. /\ n \in (Len(Got) + 1)..Len(Prefix(ConLen))
          /\ Got' = SubSeq(Prefix(ConLen), 1, n)
      BY <2>5, <2>6, <3>1, <3>2, <3>3, Zenon
    <3>5. D!Deliver
      BY <1>4, <1>5, <2>2, <3>4, Zenon DEF D!Deliver
    <3>6. QED
      BY <3>5 DEF D!Next
  <2>9. QED
    BY <2>7, <2>8
<1>8. QED
  BY <1>6, <1>7

(* A body that ends is complete, or the connection knows it is not.        *)
LEMMA EndCompletes ==
  ASSUME IInv, SeesEnd
  PROVE  D!Next
<1>1. /\ source \in Sources /\ wire \in Seq(Bytes) /\ Len(wire) \in Nat
      /\ mode = "send" /\ Follows(wire, 0) /\ end = "open" /\ chan = <<>>
      /\ result # None /\ result \in Results \cup {None}
      /\ Len(Content) \in Nat
  BY LenProperties, ContentIsTyped DEF IInv, TypeOK, Forwarded, SeesEnd
<1>2. /\ source' = source /\ mode' = mode /\ result' = result
      /\ wire' = wire /\ end' = "eof"
  BY DEF SeesEnd
<1>3. Prefix(ConLen)' = Prefix(ConLen) /\ Got' = Got
  BY <1>2, SourceStays, Zenon DEF Prefix, Got
<1>4. Ended = "open"
  BY <1>1, Zenon DEF Ended
<1>5. mode' # "buffer" /\ end' # "open"
  BY <1>1, <1>2
<1>6. CASE Accepted' /\ result' # "timed out"
  <2>1. result = "ok"
    <3>1. <<>> # <<Abort>>
      OBVIOUS
    <3>2. result # "read error" /\ result # "send error"
      BY <1>1, <3>1 DEF IInv, Told
    <3>3. QED
      BY <1>1, <1>2, <1>6, <3>2 DEF Results
  <2>2. Len(wire) = Len(Content) \/ ConLen = Len(wire)
    BY <1>1, <2>1 DEF IInv, Told
  <2>3. Len(wire) <= Len(Content)
    <3>1. Len(wire) \in 0..Len(wire)
      BY <1>1
    <3>2. QED
      BY <1>1, <3>1, FollowsIsPrefix
  <2>4. Cut(Len(wire)) = Cut(Len(Content))
    <3>1. CASE Len(wire) = Len(Content)
      BY <3>1
    <3>2. CASE ConLen = Len(wire)
      <4>1. ConLen # None /\ ConLen <= Len(wire) /\ ConLen <= Len(Content)
        BY <1>1, <2>3, <3>2, BodiesAssumption
      <4>2. QED
        BY <1>1, <4>1, CutIsBounded
    <3>3. QED
      BY <2>2, <3>1, <3>2
  <2>5. Got = Prefix(ConLen)
    BY <1>1, <2>4, GotIsPrefix, Zenon
  <2>6. Ended' = "complete"
    BY <1>5, <1>6, Zenon DEF Ended
  <2>7. D!Complete
    BY <1>3, <1>4, <2>5, <2>6, Zenon DEF D!Complete
  <2>8. QED
    BY <2>7 DEF D!Next
<1>7. CASE ~(Accepted' /\ result' # "timed out")
  <2>1. Ended' = "broken"
    BY <1>5, <1>7, Zenon DEF Ended
  <2>2. D!Break
    BY <1>3, <1>4, <2>1, Zenon DEF D!Break
  <2>3. QED
    BY <2>2 DEF D!Next
<1>8. QED
  BY <1>6, <1>7

(* A connection that drops the body does not take it for complete.         *)
LEMMA DropBreaks ==
  ASSUME DropsBody
  PROVE  D!Next
<1>1. /\ source' = source /\ mode' = mode /\ wire' = wire
      /\ mode = "send" /\ end = "open" /\ end' = "dropped"
  BY DEF DropsBody
<1>2. Prefix(ConLen)' = Prefix(ConLen) /\ Got' = Got
  BY <1>1, SourceStays, Zenon DEF Prefix, Got
<1>3. Ended = "open" /\ Ended' = "broken"
  <2>1. ~Accepted'
    BY <1>1 DEF Accepted
  <2>2. mode' # "buffer" /\ end' # "open"
    BY <1>1
  <2>3. QED
    BY <1>1, <2>1, <2>2, Zenon DEF Ended
<1>4. D!Break
  BY <1>2, <1>3, Zenon DEF D!Break
<1>5. QED
  BY <1>4 DEF D!Next

(* Every step is one of Delivery or changes nothing it speaks of.          *)
LEMMA StepDelivers ==
  ASSUME IInv, IInv', [Next]_vars
  PROVE  [D!Next]_(D!vars)
<1>1. CASE Receive
  BY <1>1, ReceiveDelivers
<1>2. CASE SeesEnd
  BY <1>2, EndCompletes
<1>3. CASE DropsBody
  BY <1>3, DropBreaks
<1>4. CASE StopAtLength
  BY <1>4, CallerIsUnseen DEF StopAtLength, Idle
<1>5. CASE StartRead
  BY <1>5, CallerIsUnseen DEF StartRead
<1>6. CASE ReadSome
  BY <1>6, CallerIsUnseen DEF ReadSome
<1>7. CASE NextReader
  BY <1>7, CallerIsUnseen DEF NextReader
<1>8. CASE ReadReturns
  <2>1. /\ source' = source /\ mode' = mode /\ end' = end /\ Reading
        /\ mode # "buffer" => wire' = wire
    BY <1>8, Zenon DEF ReadReturns
  <2>2. result = None
    BY <2>1 DEF IInv, CallFits
  <2>3. mode = "send" => wire' = wire
    BY <2>1
  <2>4. QED
    BY <2>1, <2>2, <2>3, CallerIsUnseen
<1>9. CASE ReadFails
  <2>1. /\ source' = source /\ mode' = mode /\ end' = end /\ wire' = wire
        /\ Reading
    BY <1>9 DEF ReadFails, Failing
  <2>2. result = None
    BY <2>1 DEF IInv, CallFits
  <2>3. QED
    BY <2>1, <2>2, CallerIsUnseen
<1>10. CASE ReadInterrupted
  BY <1>10, CallerIsUnseen DEF ReadInterrupted
<1>11. CASE TimedOut
  BY <1>11, CallerIsUnseen DEF TimedOut
<1>12. CASE UNCHANGED vars
  BY <1>12, CallerIsUnseen DEF vars
<1>13. QED
  BY <1>1, <1>2, <1>3, <1>4, <1>5, <1>6, <1>7, <1>8, <1>9, <1>10, <1>11,
     <1>12, Zenon DEF Next, Caller, Done

(* At the start the connection has nothing.                                *)
LEMMA StartDelivers ==
  ASSUME Init
  PROVE  D!Init
<1>1. /\ source \in Sources /\ wire = <<>> /\ end = "open"
      /\ mode \in {"send", "buffer"}
  BY Zenon DEF Init
<1>2. Ended = "open"
  BY <1>1, Zenon DEF Ended
<1>3. Got = <<>>
  <2>1. CASE mode = "buffer"
    BY <2>1, Zenon DEF Got
  <2>2. CASE mode = "send"
    <3>1. Follows(wire, 0) /\ wire \in Seq(Bytes)
      BY <2>2, InitHolds DEF IInv, Forwarded, TypeOK
    <3>2. Len(wire) = 0
      BY <1>1
    <3>3. Cut(0) = 0
      BY <1>1, CutIsBounded
    <3>4. Got = SubSeq(Content, 1, 0)
      BY <1>1, <2>2, <3>1, <3>2, <3>3, GotIsPrefix, Zenon
    <3>5. SubSeq(Content, 1, 0) = <<>>
      BY <1>1, ContentIsTyped
    <3>6. QED
      BY <3>4, <3>5
  <2>3. QED
    BY <1>1, <2>1, <2>2
<1>4. QED
  BY <1>2, <1>3 DEF D!Init

(* The connection gets the bytes of the body in their order, cut at the    *)
(* Content-Length, and takes the body for complete only when it has all of *)
(* them: a failed read reaches it as an abort, and no way that the forms'  *)
(* bytes are cut into reads moves, drops or repeats one.                   *)
THEOREM BodiesDeliver == Spec => ImplementsDelivery
<1>1. Init => D!Init
  BY StartDelivers
<1>2. IInv /\ IInv' /\ [Next]_vars => [D!Next]_(D!vars)
  BY StepDelivers
<1>3. QED
  BY <1>1, <1>2, BodiesInvariant, PTL DEF Spec, ImplementsDelivery, D!Spec
=============================================================================
