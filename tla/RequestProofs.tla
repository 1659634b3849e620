---------------------------- MODULE RequestProofs ----------------------------
(* What a request goes out with: what a client says reaches every upstream  *)
(* and its cache breakpoints stay where it put them, for every              *)
(* conversation.                                                            *)
EXTENDS Bodies, SequenceTheorems, FiniteSetTheorems, WellFoundedInduction, TLAPS

-----------------------------------------------------------------------------
(* A sequence, of whatever elements; a sequence of sequences; the images of *)
(* the elements under a function.                                           *)
IsSequence(s) == Len(s) \in Nat /\ s = [k \in 1..Len(s) |-> s[k]]
OfSequences(ss) == IsSequence(ss) /\ \A k \in 1..Len(ss) : IsSequence(ss[k])
Map(f, s) == [k \in DOMAIN s |-> f[s[k]]]

LEMMA NatSetInduction ==
  ASSUME NEW S, 0 \in S, \A n \in Nat : n \in S => n + 1 \in S
  PROVE  Nat \subseteq S
<1>1. SUFFICES ASSUME Nat \ S # {} PROVE FALSE
  OBVIOUS
<1>2. PICK x \in Nat \ S : \A y \in Nat \ S : ~(<<y, x>> \in OpToRel(<, Nat))
  BY <1>1, NatLessThanWellFounded, WFMin
<1>3. x # 0
  OBVIOUS
<1>4. x - 1 \in Nat /\ <<x - 1, x>> \in OpToRel(<, Nat)
  BY <1>3 DEF OpToRel
<1>5. x - 1 \in S
  BY <1>2, <1>4
<1>6. (x - 1) + 1 \in S
  BY <1>4, <1>5
<1>7. (x - 1) + 1 = x
  OBVIOUS
<1> QED BY <1>6, <1>7

LEMMA SequenceFacts ==
  ASSUME NEW s, IsSequence(s)
  PROVE  Len(s) \in Nat /\ DOMAIN s = 1..Len(s) /\ s \in Seq(Range(s))
<1>1. DOMAIN s = 1..Len(s) /\ Len(s) \in Nat
  BY DEF IsSequence
<1>2. s \in [1..Len(s) -> Range(s)]
  BY <1>1 DEF IsSequence, Range
<1> QED BY <1>1, <1>2

LEMMA FunctionSequence ==
  ASSUME NEW n \in Nat, NEW s, DOMAIN s = 1..n, s = [k \in 1..n |-> s[k]]
  PROVE  IsSequence(s) /\ Len(s) = n
<1>1. s \in [1..n -> Range(s)]
  BY DEF Range
<1>2. s \in Seq(Range(s)) /\ Len(s) = n
  BY <1>1
<1> QED BY <1>2 DEF IsSequence

LEMMA TypedSequence ==
  ASSUME NEW S, NEW s \in Seq(S)
  PROVE  IsSequence(s) /\ \A k \in 1..Len(s) : s[k] \in S
<1>1. Len(s) \in Nat /\ s \in [1..Len(s) -> S]
  OBVIOUS
<1> QED BY <1>1 DEF IsSequence

LEMMA SameSequence ==
  ASSUME NEW s, NEW t, IsSequence(s), IsSequence(t), Len(s) = Len(t),
         \A k \in 1..Len(s) : s[k] = t[k]
  PROVE  s = t
BY DEF IsSequence

LEMMA EmptySequence ==
  /\ IsSequence(<<>>) /\ Len(<<>>) = 0
  /\ \A s : IsSequence(s) => (s = <<>> <=> Len(s) = 0)
<1>1. Len(<<>>) = 0 /\ <<>> = [k \in 1..0 |-> <<>>[k]]
  OBVIOUS
<1>2. IsSequence(<<>>)
  BY <1>1 DEF IsSequence
<1>3. ASSUME NEW s, IsSequence(s), Len(s) = 0 PROVE s = <<>>
  BY <1>1, <1>2, <1>3, SameSequence
<1> QED BY <1>1, <1>2, <1>3

LEMMA OneSequence ==
  \A x : IsSequence(<<x>>) /\ Len(<<x>>) = 1 /\ <<x>>[1] = x /\ <<x>> # <<>>
<1>1. ASSUME NEW x PROVE IsSequence(<<x>>) /\ Len(<<x>>) = 1 /\ <<x>>[1] = x /\ <<x>> # <<>>
  <2>1. <<x>> \in Seq({x}) /\ Len(<<x>>) = 1 /\ <<x>>[1] = x
    OBVIOUS
  <2> QED BY <2>1, TypedSequence, EmptySequence
<1> QED BY <1>1

LEMMA ConcatSequences ==
  ASSUME NEW s, NEW t, IsSequence(s), IsSequence(t)
  PROVE  /\ IsSequence(s \o t) /\ Len(s \o t) = Len(s) + Len(t)
         /\ \A k \in 1..Len(s) : (s \o t)[k] = s[k]
         /\ \A k \in 1..Len(t) : (s \o t)[Len(s) + k] = t[k]
<1> DEFINE S == Range(s) \cup Range(t)
<1>1. s \in Seq(Range(s)) /\ t \in Seq(Range(t))
  BY SequenceFacts
<1>2. s \in Seq(S) /\ t \in Seq(S)
  BY <1>1, SeqMonotonic
<1> HIDE DEF S
<1>3. s \o t \in Seq(S)
  BY <1>2
<1>4. \A i \in 1..(Len(s) + Len(t)) :
        (s \o t)[i] = IF i <= Len(s) THEN s[i] ELSE t[i - Len(s)]
  BY <1>2, ConcatProperties
<1>5. Len(s \o t) = Len(s) + Len(t) /\ Len(s) \in Nat /\ Len(t) \in Nat
  BY <1>2
<1>6. \A k \in 1..Len(s) : (s \o t)[k] = s[k]
  BY <1>4, <1>5
<1>7. ASSUME NEW k \in 1..Len(t) PROVE (s \o t)[Len(s) + k] = t[k]
  <2>1. /\ Len(s) + k \in 1..(Len(s) + Len(t)) /\ ~(Len(s) + k <= Len(s))
        /\ (Len(s) + k) - Len(s) = k
    BY <1>5
  <2> QED BY <2>1, <1>4
<1>8. IsSequence(s \o t)
  BY <1>3, TypedSequence
<1> QED BY <1>5, <1>6, <1>7, <1>8

LEMMA ConcatPlaces ==
  ASSUME NEW s, NEW t, IsSequence(s), IsSequence(t), NEW k \in 1..Len(s \o t)
  PROVE  \/ k \in 1..Len(s) /\ (s \o t)[k] = s[k]
         \/ /\ k \notin 1..Len(s) /\ k - Len(s) \in 1..Len(t)
            /\ (s \o t)[k] = t[k - Len(s)]
<1>1. /\ Len(s) \in Nat /\ Len(t) \in Nat /\ k \in 1..(Len(s) + Len(t))
  BY ConcatSequences, SequenceFacts
<1>2. CASE k \in 1..Len(s)
  BY <1>2, ConcatSequences
<1>3. CASE k \notin 1..Len(s)
  <2>1. k - Len(s) \in 1..Len(t) /\ k = Len(s) + (k - Len(s))
    BY <1>1, <1>3
  <2>2. (s \o t)[Len(s) + (k - Len(s))] = t[k - Len(s)]
    BY <2>1, ConcatSequences
  <2> QED BY <1>3, <2>1, <2>2
<1> QED BY <1>2, <1>3

LEMMA ConcatEmpty ==
  ASSUME NEW s, IsSequence(s)
  PROVE  s \o <<>> = s /\ <<>> \o s = s
BY SequenceFacts, ConcatEmptySeq

LEMMA ConcatAssoc ==
  ASSUME NEW s, NEW t, NEW u, IsSequence(s), IsSequence(t), IsSequence(u)
  PROVE  (s \o t) \o u = s \o (t \o u)
<1> DEFINE S == Range(s) \cup Range(t) \cup Range(u)
<1>1. s \in Seq(Range(s)) /\ t \in Seq(Range(t)) /\ u \in Seq(Range(u))
  BY SequenceFacts
<1>2. s \in Seq(S) /\ t \in Seq(S) /\ u \in Seq(S)
  BY <1>1, SeqMonotonic
<1> HIDE DEF S
<1> QED BY <1>2, ConcatAssociative

LEMMA ConcatIsEmpty ==
  ASSUME NEW s, NEW t, IsSequence(s), IsSequence(t)
  PROVE  s \o t = <<>> <=> s = <<>> /\ t = <<>>
<1>1. Len(s \o t) = Len(s) + Len(t) /\ IsSequence(s \o t) /\ Len(s) \in Nat /\ Len(t) \in Nat
  BY ConcatSequences, SequenceFacts
<1> QED BY <1>1, EmptySequence

(* What Append returns. *)
LEMMA AppendFacts ==
  ASSUME NEW s, IsSequence(s), NEW x
  PROVE  /\ IsSequence(Append(s, x)) /\ Len(Append(s, x)) = Len(s) + 1
         /\ \A k \in 1..Len(s) : Append(s, x)[k] = s[k]
         /\ Append(s, x)[Len(s) + 1] = x
<1> DEFINE S == Range(s) \cup {x}
<1>1. s \in Seq(Range(s)) /\ Len(s) \in Nat
  BY SequenceFacts
<1>2. s \in Seq(S)
  BY <1>1, SeqMonotonic
<1>3. x \in S
  OBVIOUS
<1> HIDE DEF S
<1>4. Append(s, x) \in Seq(S) /\ Len(Append(s, x)) = Len(s) + 1
  BY <1>2, <1>3
<1>5. IsSequence(Append(s, x))
  BY <1>4, TypedSequence
<1>6. \A k \in 1..Len(s) : Append(s, x)[k] = s[k]
  BY <1>2, <1>3, <1>1
<1>7. Append(s, x)[Len(s) + 1] = x
  BY <1>2, <1>3
<1> QED BY <1>4, <1>5, <1>6, <1>7

(* Appending is concatenating one element. *)
LEMMA AppendSequence ==
  ASSUME NEW s, IsSequence(s), NEW x
  PROVE  /\ Append(s, x) = s \o <<x>>
         /\ IsSequence(Append(s, x)) /\ Len(Append(s, x)) = Len(s) + 1
         /\ \A k \in 1..Len(s) : Append(s, x)[k] = s[k]
         /\ Append(s, x)[Len(s) + 1] = x
<1>1. /\ IsSequence(Append(s, x)) /\ Len(Append(s, x)) = Len(s) + 1
      /\ \A k \in 1..Len(s) : Append(s, x)[k] = s[k]
      /\ Append(s, x)[Len(s) + 1] = x
  BY AppendFacts
<1>2. IsSequence(<<x>>) /\ Len(<<x>>) = 1 /\ <<x>>[1] = x
  BY OneSequence
<1>3. /\ IsSequence(s \o <<x>>) /\ Len(s \o <<x>>) = Len(s) + 1
      /\ \A k \in 1..Len(s) : (s \o <<x>>)[k] = s[k]
      /\ (s \o <<x>>)[Len(s) + 1] = x
  BY <1>2, ConcatSequences
<1>4. \A k \in 1..(Len(s) + 1) : k \in 1..Len(s) \/ k = Len(s) + 1
  BY SequenceFacts
<1>5. Append(s, x) = s \o <<x>>
  BY <1>1, <1>3, <1>4, SameSequence
<1> QED BY <1>1, <1>5

-----------------------------------------------------------------------------
(* FlattenSeq is what its recursive definition says. *)

(* f holds the concatenations of the first sequences of ss. *)
Flattens(ss, n, f) == f = [i \in 1..n |-> IF i = 1 THEN ss[i] ELSE f[i - 1] \o ss[i]]

LEMMA FlattensExists ==
  ASSUME NEW ss, NEW n \in Nat
  PROVE  \E f : Flattens(ss, n, f)
<1> DEFINE S == {m \in Nat : \E f : Flattens(ss, m, f)}
<1>1. 0 \in S
  <2>1. Flattens(ss, 0, [i \in 1..0 |-> 0])
    BY DEF Flattens
  <2> QED BY <2>1
<1>2. ASSUME NEW m \in Nat, m \in S PROVE m + 1 \in S
  <2>1. PICK f : Flattens(ss, m, f)
    BY <1>2
  <2> DEFINE g == [i \in 1..(m + 1) |->
                     IF i \in 1..m THEN f[i] ELSE IF i = 1 THEN ss[i] ELSE f[i - 1] \o ss[i]]
  <2>2. ASSUME NEW i \in 1..(m + 1)
        PROVE  g[i] = IF i = 1 THEN ss[i] ELSE g[i - 1] \o ss[i]
    <3>1. CASE i = 1
      BY <2>1, <3>1 DEF Flattens
    <3>2. CASE i # 1
      <4>1. i - 1 \in 1..m /\ i - 1 \in 1..(m + 1)
        BY <3>2
      <4>2. g[i - 1] = f[i - 1]
        BY <4>1, Zenon
      <4>3. CASE i \in 1..m
        BY <2>1, <3>2, <4>2, <4>3 DEF Flattens
      <4>4. CASE i \notin 1..m
        BY <3>2, <4>2, <4>4
      <4> QED BY <4>3, <4>4
    <3> QED BY <3>1, <3>2
  <2>3. g = [i \in 1..(m + 1) |-> IF i = 1 THEN ss[i] ELSE g[i - 1] \o ss[i]]
    BY <2>2
  <2> HIDE DEF g
  <2>4. Flattens(ss, m + 1, g)
    BY <2>3 DEF Flattens
  <2> QED BY <2>4
<1> HIDE DEF S
<1>3. Nat \subseteq S
  BY <1>1, <1>2, NatSetInduction
<1> QED BY <1>3 DEF S

LEMMA FlattenSeqFlattens ==
  ASSUME NEW ss, Len(ss) \in Nat, Len(ss) # 0
  PROVE  \E f : Flattens(ss, Len(ss), f) /\ FlattenSeq(ss) = f[Len(ss)]
<1> DEFINE f == CHOOSE f : f = [i \in 1..Len(ss) |-> IF i = 1 THEN ss[i] ELSE f[i - 1] \o ss[i]]
<1>1. \E g : g = [i \in 1..Len(ss) |-> IF i = 1 THEN ss[i] ELSE g[i - 1] \o ss[i]]
  BY FlattensExists, Zenon DEF Flattens
<1>2. f = [i \in 1..Len(ss) |-> IF i = 1 THEN ss[i] ELSE f[i - 1] \o ss[i]]
  BY <1>1, Zenon
<1>3. FlattenSeq(ss) = f[Len(ss)]
  BY DEF FlattenSeq
<1> QED BY <1>2, <1>3, Zenon DEF Flattens

(* Such an f does not depend on how many sequences there are. *)
LEMMA FlattensAgree ==
  ASSUME NEW ss, NEW tt, NEW n \in Nat, NEW m \in Nat, n <= m, NEW f, NEW g,
         Flattens(ss, n, f), Flattens(tt, m, g), \A k \in 1..n : ss[k] = tt[k]
  PROVE  \A i \in 1..n : f[i] = g[i]
<1> DEFINE S == {i \in Nat : i \in 1..n => f[i] = g[i]}
<1>1. 0 \in S
  OBVIOUS
<1>2. ASSUME NEW i \in Nat, i \in S PROVE i + 1 \in S
  <2>1. SUFFICES ASSUME i + 1 \in 1..n PROVE f[i + 1] = g[i + 1]
    OBVIOUS
  <2>2. /\ f[i + 1] = IF i + 1 = 1 THEN ss[i + 1] ELSE f[(i + 1) - 1] \o ss[i + 1]
        /\ g[i + 1] = IF i + 1 = 1 THEN tt[i + 1] ELSE g[(i + 1) - 1] \o tt[i + 1]
    <3>1. i + 1 \in 1..m
      BY <2>1
    <3> QED BY <2>1, <3>1 DEF Flattens
  <2>3. (i + 1) - 1 = i /\ (i = 0 \/ i \in 1..n) /\ ss[i + 1] = tt[i + 1]
    BY <2>1
  <2> QED BY <1>2, <2>2, <2>3
<1> HIDE DEF S
<1>3. Nat \subseteq S
  BY <1>1, <1>2, NatSetInduction
<1> QED BY <1>3 DEF S

LEMMA FlattenNone == FlattenSeq(<<>>) = <<>>
BY EmptySequence DEF FlattenSeq

LEMMA FlattenOne == \A s : FlattenSeq(<<s>>) = s
<1>1. SUFFICES ASSUME NEW s PROVE FlattenSeq(<<s>>) = s
  OBVIOUS
<1>2. Len(<<s>>) = 1 /\ <<s>>[1] = s
  BY OneSequence
<1>3. PICK f : Flattens(<<s>>, 1, f) /\ FlattenSeq(<<s>>) = f[1]
  <2> DEFINE ss == <<s>>
  <2>1. Len(ss) = 1 /\ Len(ss) \in Nat /\ Len(ss) # 0
    BY <1>2
  <2> HIDE DEF ss
  <2>2. \E f : Flattens(ss, Len(ss), f) /\ FlattenSeq(ss) = f[Len(ss)]
    BY <2>1, FlattenSeqFlattens
  <2> QED BY <2>1, <2>2 DEF ss
<1>4. f[1] = s
  BY <1>2, <1>3 DEF Flattens
<1> QED BY <1>3, <1>4

LEMMA FlattenAppend ==
  ASSUME NEW ss, IsSequence(ss), NEW x, IsSequence(x)
  PROVE  FlattenSeq(Append(ss, x)) = FlattenSeq(ss) \o x
<1> DEFINE n == Len(ss)
           tt == Append(ss, x)
<1>1. n \in Nat /\ Len(tt) = n + 1 /\ tt[n + 1] = x /\ \A k \in 1..n : ss[k] = tt[k]
  BY AppendSequence, SequenceFacts
<1> HIDE DEF n, tt
<1>2. PICK g : Flattens(tt, n + 1, g) /\ FlattenSeq(tt) = g[n + 1]
  BY <1>1, FlattenSeqFlattens
<1>3. g[n + 1] = IF n + 1 = 1 THEN x ELSE g[(n + 1) - 1] \o x
  <2>1. n + 1 \in 1..(n + 1)
    BY <1>1
  <2>2. g[n + 1] = IF n + 1 = 1 THEN tt[n + 1] ELSE g[(n + 1) - 1] \o tt[n + 1]
    BY <1>2, <2>1 DEF Flattens
  <2> QED BY <1>1, <2>2
<1>4. CASE n = 0
  <2>1. ss = <<>>
    BY <1>4, EmptySequence DEF n
  <2>2. FlattenSeq(tt) = x
    BY <1>2, <1>3, <1>4
  <2>3. FlattenSeq(ss) \o x = x
    BY <2>1, FlattenNone, ConcatEmpty
  <2> QED BY <2>2, <2>3 DEF tt
<1>5. CASE n # 0
  <2>1. PICK f : Flattens(ss, n, f) /\ FlattenSeq(ss) = f[n]
    BY <1>1, <1>5, FlattenSeqFlattens DEF n
  <2>2. \A i \in 1..n : f[i] = g[i]
    BY <1>1, <1>2, <2>1, FlattensAgree
  <2>3. (n + 1) - 1 = n /\ n + 1 # 1 /\ n \in 1..n
    BY <1>1, <1>5
  <2> QED BY <1>2, <1>3, <2>1, <2>2, <2>3 DEF tt
<1> QED BY <1>4, <1>5

(* The first n elements of a sequence, and the next one. *)
First(s, n) == [k \in 1..n |-> s[k]]

LEMMA FirstFacts ==
  ASSUME NEW s, IsSequence(s)
  PROVE  /\ First(s, 0) = <<>> /\ First(s, Len(s)) = s
         /\ \A n \in 0..Len(s) : IsSequence(First(s, n)) /\ Len(First(s, n)) = n
         /\ \A n \in Nat : n + 1 <= Len(s) => First(s, n + 1) = Append(First(s, n), s[n + 1])
<1>1. \A n \in Nat : IsSequence(First(s, n)) /\ Len(First(s, n)) = n
  BY FunctionSequence DEF First
<1>2. First(s, 0) = <<>>
  BY <1>1, EmptySequence
<1>3. First(s, Len(s)) = s
  BY DEF First, IsSequence
<1>4. ASSUME NEW n \in Nat, n + 1 <= Len(s)
      PROVE  First(s, n + 1) = Append(First(s, n), s[n + 1])
  <2> DEFINE t == Append(First(s, n), s[n + 1])
  <2>1. /\ IsSequence(t) /\ Len(t) = n + 1 /\ t[n + 1] = s[n + 1]
        /\ \A k \in 1..n : t[k] = First(s, n)[k]
    <3> DEFINE u == First(s, n)
               x == s[n + 1]
    <3>1. IsSequence(u) /\ Len(u) = n
      BY <1>1
    <3> HIDE DEF u, x
    <3>2. /\ IsSequence(Append(u, x)) /\ Len(Append(u, x)) = Len(u) + 1
          /\ Append(u, x)[Len(u) + 1] = x
          /\ \A k \in 1..Len(u) : Append(u, x)[k] = u[k]
      BY ONLY <3>1, AppendFacts
    <3> QED BY <3>1, <3>2 DEF u, x
  <2> HIDE DEF t
  <2>2. \A k \in 1..(n + 1) : First(s, n + 1)[k] = t[k]
    <3>1. ASSUME NEW k \in 1..(n + 1) PROVE First(s, n + 1)[k] = t[k]
      <4>1. k \in 1..n \/ k = n + 1
        OBVIOUS
      <4> QED BY <2>1, <4>1 DEF First
    <3> QED BY <3>1
  <2>3. First(s, n + 1) = t
    BY <1>1, <2>1, <2>2, SameSequence
  <2> QED BY <2>3 DEF t
<1> QED BY <1>1, <1>2, <1>3, <1>4

(* Induction over a sequence that grows: S holds of its beginnings. *)
LEMMA GrowInduction ==
  ASSUME NEW s, IsSequence(s), NEW S, 0 \in S,
         \A n \in Nat : n + 1 <= Len(s) /\ n \in S => n + 1 \in S
  PROVE  Len(s) \in S
<1> DEFINE T == {n \in Nat : n <= Len(s) => n \in S}
<1>1. Len(s) \in Nat
  BY SequenceFacts
<1>2. 0 \in T
  OBVIOUS
<1>3. ASSUME NEW n \in Nat, n \in T PROVE n + 1 \in T
  BY <1>1, <1>3
<1> HIDE DEF T
<1>4. Nat \subseteq T
  BY <1>2, <1>3, NatSetInduction
<1> QED BY <1>1, <1>4 DEF T

LEMMA FlattenStep ==
  ASSUME NEW ss, OfSequences(ss), NEW n \in Nat, n + 1 <= Len(ss)
  PROVE  /\ n + 1 \in 1..Len(ss) /\ IsSequence(ss[n + 1])
         /\ FlattenSeq(First(ss, n + 1)) = FlattenSeq(First(ss, n)) \o ss[n + 1]
<1>1. IsSequence(ss) /\ Len(ss) \in Nat
  BY SequenceFacts DEF OfSequences
<1>2. n + 1 \in 1..Len(ss) /\ n \in 0..Len(ss)
  BY <1>1
<1>3. IsSequence(ss[n + 1])
  BY <1>2 DEF OfSequences
<1>4. IsSequence(First(ss, n)) /\ First(ss, n + 1) = Append(First(ss, n), ss[n + 1])
  BY <1>1, <1>2, FirstFacts
<1>5. FlattenSeq(Append(First(ss, n), ss[n + 1])) = FlattenSeq(First(ss, n)) \o ss[n + 1]
  BY <1>3, <1>4, FlattenAppend
<1> QED BY <1>2, <1>3, <1>4, <1>5

LEMMA FlattenSequence ==
  ASSUME NEW ss, OfSequences(ss)
  PROVE  IsSequence(FlattenSeq(ss))
<1> DEFINE S == {n \in Nat : IsSequence(FlattenSeq(First(ss, n)))}
<1>0. IsSequence(ss) /\ Len(ss) \in Nat
  BY SequenceFacts DEF OfSequences
<1>1. 0 \in S
  BY <1>0, FirstFacts, FlattenNone, EmptySequence
<1>2. ASSUME NEW n \in Nat, n + 1 <= Len(ss), n \in S PROVE n + 1 \in S
  <2>1. /\ IsSequence(ss[n + 1])
        /\ FlattenSeq(First(ss, n + 1)) = FlattenSeq(First(ss, n)) \o ss[n + 1]
    BY <1>2, FlattenStep
  <2>2. IsSequence(FlattenSeq(First(ss, n)))
    BY <1>2
  <2>3. IsSequence(FlattenSeq(First(ss, n + 1)))
    <3>1. IsSequence(FlattenSeq(First(ss, n)) \o ss[n + 1])
      BY <2>1, <2>2, ConcatSequences
    <3> QED BY <2>1, <3>1
  <2> QED BY <2>3
<1> HIDE DEF S
<1>3. Len(ss) \in S
  BY <1>0, <1>1, <1>2, GrowInduction
<1> QED BY <1>0, <1>3, FirstFacts DEF S

(* A function of the elements distributes over concatenation. *)
LEMMA MapSequence ==
  ASSUME NEW f, NEW s, IsSequence(s)
  PROVE  /\ IsSequence(Map(f, s)) /\ Len(Map(f, s)) = Len(s)
         /\ \A k \in 1..Len(s) : Map(f, s)[k] = f[s[k]]
         /\ Map(f, s) = <<>> <=> s = <<>>
<1>1. Len(s) \in Nat /\ DOMAIN s = 1..Len(s)
  BY SequenceFacts
<1>2. IsSequence(Map(f, s)) /\ Len(Map(f, s)) = Len(s)
  BY <1>1, FunctionSequence DEF Map
<1>3. \A k \in 1..Len(s) : Map(f, s)[k] = f[s[k]]
  BY <1>1 DEF Map
<1> QED BY <1>2, <1>3, EmptySequence

LEMMA MapConcat ==
  ASSUME NEW f, NEW s, NEW t, IsSequence(s), IsSequence(t)
  PROVE  Map(f, s \o t) = Map(f, s) \o Map(f, t)
<1> DEFINE a == Map(f, s \o t)
           b == Map(f, s) \o Map(f, t)
<1>1. IsSequence(s \o t) /\ Len(s \o t) = Len(s) + Len(t)
  BY ConcatSequences
<1>2. IsSequence(a) /\ Len(a) = Len(s) + Len(t)
  BY <1>1, MapSequence
<1>3. IsSequence(b) /\ Len(b) = Len(s) + Len(t)
  BY MapSequence, ConcatSequences
<1>4. ASSUME NEW k \in 1..Len(a) PROVE a[k] = b[k]
  <2>0. k \in 1..Len(s \o t)
    BY <1>1, <1>2
  <2>1. a[k] = f[(s \o t)[k]] /\ k \in 1..Len(s \o t)
    BY <1>1, <2>0, MapSequence
  <2>2. CASE k \in 1..Len(s)
    <3>1. (s \o t)[k] = s[k]
      BY <2>2, ConcatSequences
    <3>2. b[k] = Map(f, s)[k]
      BY <2>2, MapSequence, ConcatSequences
    <3> QED BY <2>1, <2>2, <3>1, <3>2, MapSequence
  <2>3. CASE k \notin 1..Len(s)
    <3>1. k - Len(s) \in 1..Len(t) /\ (s \o t)[k] = t[k - Len(s)]
      BY <2>1, <2>3, ConcatPlaces
    <3>2. k \in 1..Len(b) /\ k \notin 1..Len(Map(f, s))
      BY <1>2, <1>3, <2>3, MapSequence
    <3>3. b[k] = Map(f, t)[k - Len(s)]
      BY <3>2, ConcatPlaces, MapSequence
    <3> QED BY <2>1, <3>1, <3>3, MapSequence
  <2> QED BY <2>2, <2>3
<1> HIDE DEF a, b
<1>5. a = b
  BY <1>2, <1>3, <1>4, SameSequence
<1> QED BY <1>5 DEF a, b

LEMMA MapOne == \A f, x : Map(f, <<x>>) = <<f[x]>>
<1>1. SUFFICES ASSUME NEW f, NEW x PROVE Map(f, <<x>>) = <<f[x]>>
  OBVIOUS
<1>2. IsSequence(Map(f, <<x>>)) /\ Len(Map(f, <<x>>)) = 1 /\ Map(f, <<x>>)[1] = f[x]
  BY OneSequence, MapSequence
<1>3. \A k \in 1..1 : k = 1
  OBVIOUS
<1> QED BY <1>2, <1>3, OneSequence, SameSequence

LEMMA MapNone == \A f : Map(f, <<>>) = <<>>
BY MapSequence, EmptySequence

(* Flattening and mapping commute. *)
LEMMA FlattenMap ==
  ASSUME NEW f, NEW ss, OfSequences(ss)
  PROVE  Map(f, FlattenSeq(ss)) = FlattenSeq([k \in 1..Len(ss) |-> Map(f, ss[k])])
<1> DEFINE tt == [k \in 1..Len(ss) |-> Map(f, ss[k])]
           S == {n \in Nat : /\ IsSequence(FlattenSeq(First(ss, n)))
                             /\ Map(f, FlattenSeq(First(ss, n))) = FlattenSeq(First(tt, n))}
<1>0. IsSequence(ss) /\ Len(ss) \in Nat /\ \A k \in 1..Len(ss) : IsSequence(ss[k])
  BY SequenceFacts DEF OfSequences
<1>1. IsSequence(tt) /\ Len(tt) = Len(ss)
  BY <1>0, FunctionSequence
<1>2. \A k \in 1..Len(ss) : tt[k] = Map(f, ss[k]) /\ IsSequence(tt[k])
  BY <1>0, MapSequence
<1> HIDE DEF tt
<1>3. 0 \in S
  BY <1>0, <1>1, FirstFacts, FlattenNone, MapNone, EmptySequence
<1>4. ASSUME NEW n \in Nat, n + 1 <= Len(ss), n \in S PROVE n + 1 \in S
  <2>1. /\ IsSequence(ss[n + 1]) /\ n + 1 \in 1..Len(ss)
        /\ FlattenSeq(First(ss, n + 1)) = FlattenSeq(First(ss, n)) \o ss[n + 1]
    BY <1>4, FlattenStep
  <2>2. FlattenSeq(First(tt, n + 1)) = FlattenSeq(First(tt, n)) \o tt[n + 1]
    BY <1>1, <1>2, <1>4, FlattenStep DEF OfSequences
  <2>3. /\ IsSequence(FlattenSeq(First(ss, n)))
        /\ Map(f, FlattenSeq(First(ss, n))) = FlattenSeq(First(tt, n))
    BY <1>4
  <2>4. Map(f, FlattenSeq(First(ss, n)) \o ss[n + 1])
          = Map(f, FlattenSeq(First(ss, n))) \o Map(f, ss[n + 1])
    BY <2>1, <2>3, MapConcat
  <2>5. IsSequence(FlattenSeq(First(ss, n)) \o ss[n + 1])
    BY <2>1, <2>3, ConcatSequences
  <2>6. /\ IsSequence(FlattenSeq(First(ss, n + 1)))
        /\ Map(f, FlattenSeq(First(ss, n + 1))) = FlattenSeq(First(tt, n + 1))
    BY <1>2, <2>1, <2>2, <2>3, <2>4, <2>5
  <2> QED BY <2>6
<1> HIDE DEF S
<1>5. Len(ss) \in S
  BY <1>0, <1>3, <1>4, GrowInduction
<1>6. Map(f, FlattenSeq(ss)) = FlattenSeq(tt)
  BY <1>0, <1>1, <1>5, FirstFacts DEF S
<1> QED BY <1>6 DEF tt

(* What is joined in two steps. *)
LEMMA FlattenConcat ==
  ASSUME NEW ss, NEW tt, OfSequences(ss), OfSequences(tt)
  PROVE  FlattenSeq(ss \o tt) = FlattenSeq(ss) \o FlattenSeq(tt) /\ OfSequences(ss \o tt)
<1> DEFINE S == {n \in Nat : FlattenSeq(ss \o First(tt, n)) = FlattenSeq(ss) \o FlattenSeq(First(tt, n))}
<1>0. /\ IsSequence(tt) /\ Len(tt) \in Nat /\ \A k \in 1..Len(tt) : IsSequence(tt[k])
      /\ IsSequence(ss) /\ IsSequence(FlattenSeq(ss))
  BY SequenceFacts, FlattenSequence DEF OfSequences
<1>1. 0 \in S
  <2>1. First(tt, 0) = <<>> /\ ss \o <<>> = ss /\ FlattenSeq(ss) \o <<>> = FlattenSeq(ss)
    BY <1>0, FirstFacts, ConcatEmpty
  <2>2. FlattenSeq(ss \o First(tt, 0)) = FlattenSeq(ss) \o FlattenSeq(First(tt, 0))
    BY <2>1, FlattenNone
  <2> QED BY <2>2
<1>2. ASSUME NEW n \in Nat, n + 1 <= Len(tt), n \in S PROVE n + 1 \in S
  <2> DEFINE u == First(tt, n)
             x == tt[n + 1]
  <2>0. n \in 0..Len(tt) /\ n + 1 \in 1..Len(tt)
    BY <1>0, <1>2
  <2>1. IsSequence(u) /\ IsSequence(x) /\ First(tt, n + 1) = Append(u, x)
    BY <1>0, <1>2, <2>0, FirstFacts
  <2>2. OfSequences(u)
    BY <1>0, <2>0, <2>1, FirstFacts DEF OfSequences, First
  <2> HIDE DEF u, x
  <2>3. IsSequence(FlattenSeq(u)) /\ IsSequence(ss \o u) /\ IsSequence(<<x>>)
    BY <1>0, <2>1, <2>2, FlattenSequence, ConcatSequences, OneSequence
  <2>4. ss \o Append(u, x) = Append(ss \o u, x)
    <3>1. Append(u, x) = u \o <<x>> /\ Append(ss \o u, x) = (ss \o u) \o <<x>>
      BY <2>1, <2>3, AppendSequence
    <3>0. IsSequence(ss) /\ IsSequence(u) /\ IsSequence(<<x>>)
      BY <1>0, <2>1, <2>3
    <3>2. (ss \o u) \o <<x>> = ss \o (u \o <<x>>)
      BY ONLY <3>0, ConcatAssoc
    <3> QED BY <3>1, <3>2
  <2>5. FlattenSeq(Append(ss \o u, x)) = FlattenSeq(ss \o u) \o x
    BY <2>1, <2>3, FlattenAppend
  <2>6. FlattenSeq(Append(u, x)) = FlattenSeq(u) \o x
    BY <2>1, FlattenAppend
  <2>7. FlattenSeq(ss \o u) = FlattenSeq(ss) \o FlattenSeq(u)
    BY <1>2 DEF u
  <2>8. FlattenSeq(ss \o First(tt, n + 1)) = FlattenSeq(ss) \o FlattenSeq(First(tt, n + 1))
    <3>0. IsSequence(FlattenSeq(ss)) /\ IsSequence(FlattenSeq(u)) /\ IsSequence(x)
      BY <1>0, <2>1, <2>3
    <3>1. (FlattenSeq(ss) \o FlattenSeq(u)) \o x = FlattenSeq(ss) \o (FlattenSeq(u) \o x)
      BY ONLY <3>0, ConcatAssoc
    <3> QED BY <2>1, <2>4, <2>5, <2>6, <2>7, <3>1
  <2> QED BY <2>8
<1> HIDE DEF S
<1>3. Len(tt) \in S
  BY <1>0, <1>1, <1>2, GrowInduction
<1>4. ASSUME NEW k \in 1..Len(ss \o tt) PROVE IsSequence((ss \o tt)[k])
  <2>1. \/ k \in 1..Len(ss) /\ (ss \o tt)[k] = ss[k]
        \/ k - Len(ss) \in 1..Len(tt) /\ (ss \o tt)[k] = tt[k - Len(ss)]
    BY <1>0, ConcatPlaces
  <2> QED BY <1>0, <2>1 DEF OfSequences
<1> QED BY <1>0, <1>3, <1>4, FirstFacts, ConcatSequences DEF S, OfSequences

LEMMA FlattenTwice ==
  ASSUME NEW sss, OfSequences(sss), \A k \in 1..Len(sss) : OfSequences(sss[k])
  PROVE  /\ OfSequences(FlattenSeq(sss))
         /\ FlattenSeq(FlattenSeq(sss)) = FlattenSeq([k \in 1..Len(sss) |-> FlattenSeq(sss[k])])
<1> DEFINE tt == [k \in 1..Len(sss) |-> FlattenSeq(sss[k])]
           S == {n \in Nat : /\ OfSequences(FlattenSeq(First(sss, n)))
                             /\ FlattenSeq(FlattenSeq(First(sss, n))) = FlattenSeq(First(tt, n))}
<1>0. IsSequence(sss) /\ Len(sss) \in Nat
  BY SequenceFacts DEF OfSequences
<1>1. IsSequence(tt) /\ Len(tt) = Len(sss)
  BY <1>0, FunctionSequence
<1>2. \A k \in 1..Len(sss) : tt[k] = FlattenSeq(sss[k]) /\ IsSequence(tt[k])
  BY <1>0, FlattenSequence
<1> HIDE DEF tt
<1>3. 0 \in S
  <2>1. \A k \in 1..0 : IsSequence(<<>>[k])
    OBVIOUS
  <2> QED BY <1>0, <1>1, <2>1, FirstFacts, FlattenNone, EmptySequence DEF OfSequences
<1>4. ASSUME NEW n \in Nat, n + 1 <= Len(sss), n \in S PROVE n + 1 \in S
  <2>1. /\ n + 1 \in 1..Len(sss) /\ OfSequences(sss[n + 1])
        /\ FlattenSeq(First(sss, n + 1)) = FlattenSeq(First(sss, n)) \o sss[n + 1]
    BY <1>4, FlattenStep
  <2>2. FlattenSeq(First(tt, n + 1)) = FlattenSeq(First(tt, n)) \o tt[n + 1]
    BY <1>1, <1>2, <1>4, FlattenStep DEF OfSequences
  <2>3. /\ OfSequences(FlattenSeq(First(sss, n)))
        /\ FlattenSeq(FlattenSeq(First(sss, n))) = FlattenSeq(First(tt, n))
    BY <1>4
  <2>4. /\ OfSequences(FlattenSeq(First(sss, n)) \o sss[n + 1])
        /\ FlattenSeq(FlattenSeq(First(sss, n)) \o sss[n + 1])
             = FlattenSeq(FlattenSeq(First(sss, n))) \o FlattenSeq(sss[n + 1])
    BY <2>1, <2>3, FlattenConcat
  <2>5. /\ OfSequences(FlattenSeq(First(sss, n + 1)))
        /\ FlattenSeq(FlattenSeq(First(sss, n + 1))) = FlattenSeq(First(tt, n + 1))
    BY <1>2, <2>1, <2>2, <2>3, <2>4
  <2> QED BY <2>5
<1> HIDE DEF S
<1>5. Len(sss) \in S
  BY <1>0, <1>3, <1>4, GrowInduction
<1>6. /\ OfSequences(FlattenSeq(sss)) /\ FlattenSeq(FlattenSeq(sss)) = FlattenSeq(tt)
  BY <1>0, <1>1, <1>5, FirstFacts DEF S
<1> QED BY <1>6 DEF tt

(* Joining sequences of one element each, or none. *)
LEMMA FlattenSingles ==
  ASSUME NEW s, IsSequence(s)
  PROVE  FlattenSeq([k \in 1..Len(s) |-> <<s[k]>>]) = s
<1> DEFINE tt == [k \in 1..Len(s) |-> <<s[k]>>]
           S == {n \in Nat : FlattenSeq(First(tt, n)) = First(s, n)}
<1>0. Len(s) \in Nat
  BY SequenceFacts
<1>1. IsSequence(tt) /\ Len(tt) = Len(s) /\ \A k \in 1..Len(s) : tt[k] = <<s[k]>>
  BY <1>0, FunctionSequence
<1> HIDE DEF tt
<1>3. 0 \in S
  BY <1>1, FirstFacts, FlattenNone
<1>4. ASSUME NEW n \in Nat, n + 1 <= Len(s), n \in S PROVE n + 1 \in S
  <2>0. n \in 0..Len(s) /\ n + 1 \in 1..Len(s)
    BY <1>0, <1>4
  <2>1. FlattenSeq(First(tt, n + 1)) = FlattenSeq(First(tt, n)) \o <<s[n + 1]>>
    <3>1. OfSequences(tt)
      BY <1>1, OneSequence DEF OfSequences
    <3> QED BY <1>1, <1>4, <2>0, <3>1, FlattenStep
  <2>2. First(s, n + 1) = First(s, n) \o <<s[n + 1]>>
    <3>1. IsSequence(First(s, n)) /\ First(s, n + 1) = Append(First(s, n), s[n + 1])
      BY <1>4, <2>0, FirstFacts
    <3> QED BY <3>1, AppendSequence
  <2> QED BY <1>4, <2>1, <2>2
<1> HIDE DEF S
<1>5. Len(s) \in S
  BY <1>3, <1>4, GrowInduction
<1>6. FlattenSeq(tt) = s
  BY <1>1, <1>5, FirstFacts DEF S
<1> QED BY <1>6 DEF tt

LEMMA FlattenEmpties ==
  ASSUME NEW ss, OfSequences(ss)
  PROVE  FlattenSeq(ss) = <<>> <=> \A k \in 1..Len(ss) : ss[k] = <<>>
<1> DEFINE S == {n \in Nat : /\ IsSequence(FlattenSeq(First(ss, n)))
                             /\ FlattenSeq(First(ss, n)) = <<>> <=> \A k \in 1..n : ss[k] = <<>>}
<1>0. IsSequence(ss) /\ Len(ss) \in Nat /\ \A k \in 1..Len(ss) : IsSequence(ss[k])
  BY SequenceFacts DEF OfSequences
<1>3. 0 \in S
  BY <1>0, FirstFacts, FlattenNone, EmptySequence
<1>4. ASSUME NEW n \in Nat, n + 1 <= Len(ss), n \in S PROVE n + 1 \in S
  <2>0. n \in 0..Len(ss) /\ n + 1 \in 1..Len(ss) /\ 1..(n + 1) = 1..n \cup {n + 1}
    BY <1>0, <1>4
  <2>1. /\ IsSequence(ss[n + 1])
        /\ FlattenSeq(First(ss, n + 1)) = FlattenSeq(First(ss, n)) \o ss[n + 1]
    BY <1>4, FlattenStep
  <2>2. /\ IsSequence(FlattenSeq(First(ss, n)))
        /\ (FlattenSeq(First(ss, n)) = <<>>) <=> (\A k \in 1..n : ss[k] = <<>>)
    BY <1>4
  <2>3. IsSequence(FlattenSeq(First(ss, n + 1)))
    <3>1. IsSequence(FlattenSeq(First(ss, n)) \o ss[n + 1])
      BY <2>1, <2>2, ConcatSequences
    <3> QED BY <2>1, <3>1
  <2>4. FlattenSeq(First(ss, n + 1)) = <<>> <=> FlattenSeq(First(ss, n)) = <<>> /\ ss[n + 1] = <<>>
    BY <2>1, <2>2, ConcatIsEmpty
  <2>5. (FlattenSeq(First(ss, n + 1)) = <<>>) <=> (\A k \in 1..(n + 1) : ss[k] = <<>>)
    BY <2>0, <2>2, <2>4
  <2> QED BY <2>3, <2>5
<1> HIDE DEF S
<1>5. Len(ss) \in S
  BY <1>0, <1>3, <1>4, GrowInduction
<1> QED BY <1>0, <1>5, FirstFacts DEF S

-----------------------------------------------------------------------------
(* The elements of a sequence that are in a set, as Select finds them. *)
Pick(s, S) == FlattenSeq([k \in 1..Len(s) |-> IF s[k] \in S THEN <<s[k]>> ELSE <<>>])

LEMMA PickFacts ==
  ASSUME NEW s, IsSequence(s), NEW S
  PROVE  /\ IsSequence(Pick(s, S))
         /\ Pick(s, S) = <<>> <=> \A k \in 1..Len(s) : s[k] \notin S
         /\ \A f : Map(f, Pick(s, S)) = FlattenSeq([k \in 1..Len(s) |-> IF s[k] \in S THEN <<f[s[k]]>> ELSE <<>>])
         /\ \A f : (\A k \in 1..Len(s) : s[k] \in S => IsSequence(f[s[k]])) =>
              FlattenSeq(Map(f, Pick(s, S)))
                = FlattenSeq([k \in 1..Len(s) |-> IF s[k] \in S THEN f[s[k]] ELSE <<>>])
<1> DEFINE n == Len(s)
           ss == [k \in 1..n |-> IF s[k] \in S THEN <<s[k]>> ELSE <<>>]
<1>1. n \in Nat /\ IsSequence(ss) /\ Len(ss) = n
  BY SequenceFacts, FunctionSequence
<1>2. \A k \in 1..n : /\ IsSequence(ss[k])
                      /\ ss[k] = IF s[k] \in S THEN <<s[k]>> ELSE <<>>
  BY OneSequence, EmptySequence
<1>3. OfSequences(ss)
  BY <1>1, <1>2 DEF OfSequences
<1>4. Pick(s, S) = FlattenSeq(ss)
  BY DEF Pick
<1> HIDE DEF ss, n
<1>5. IsSequence(Pick(s, S))
  BY <1>3, <1>4, FlattenSequence
<1>6. Pick(s, S) = <<>> <=> \A k \in 1..n : s[k] \notin S
  BY <1>1, <1>2, <1>3, <1>4, FlattenEmpties, OneSequence
<1>7. ASSUME NEW f
      PROVE  /\ Map(f, Pick(s, S)) = FlattenSeq([k \in 1..n |-> IF s[k] \in S THEN <<f[s[k]]>> ELSE <<>>])
             /\ (\A k \in 1..n : s[k] \in S => IsSequence(f[s[k]])) =>
                  FlattenSeq(Map(f, Pick(s, S)))
                    = FlattenSeq([k \in 1..n |-> IF s[k] \in S THEN f[s[k]] ELSE <<>>])
  <2> DEFINE tt == [k \in 1..n |-> IF s[k] \in S THEN <<f[s[k]]>> ELSE <<>>]
             uu == [k \in 1..n |-> IF s[k] \in S THEN f[s[k]] ELSE <<>>]
  <2>1. Map(f, Pick(s, S)) = FlattenSeq([k \in 1..n |-> Map(f, ss[k])])
    BY <1>1, <1>3, <1>4, FlattenMap
  <2>2. \A k \in 1..n : Map(f, ss[k]) = tt[k]
    BY <1>2, MapOne, MapNone
  <2>3. [k \in 1..n |-> Map(f, ss[k])] = tt
    BY <2>2
  <2>4. ASSUME \A k \in 1..n : s[k] \in S => IsSequence(f[s[k]])
        PROVE  FlattenSeq(FlattenSeq(tt)) = FlattenSeq(uu)
    <3>1. IsSequence(tt) /\ Len(tt) = n
      BY <1>1, FunctionSequence
    <3>2. \A k \in 1..n : tt[k] = IF s[k] \in S THEN <<f[s[k]]>> ELSE <<>>
      OBVIOUS
    <3>3. \A k \in 1..n : uu[k] = IF s[k] \in S THEN f[s[k]] ELSE <<>>
      OBVIOUS
    <3>4. uu = [k \in 1..n |-> uu[k]]
      OBVIOUS
    <3> HIDE DEF tt, uu
    <3>5. ASSUME NEW k \in 1..n PROVE OfSequences(tt[k]) /\ FlattenSeq(tt[k]) = uu[k] /\ IsSequence(tt[k])
      <4>1. CASE s[k] \in S
        <5>1. tt[k] = <<f[s[k]]>> /\ IsSequence(f[s[k]])
          BY <2>4, <3>2, <4>1
        <5>2. \A j \in 1..1 : j = 1
          OBVIOUS
        <5> QED BY <3>3, <4>1, <5>1, <5>2, OneSequence, FlattenOne DEF OfSequences
      <4>2. CASE s[k] \notin S
        <5>1. tt[k] = <<>>
          BY <3>2, <4>2
        <5>2. \A j \in 1..0 : FALSE
          OBVIOUS
        <5> QED BY <3>3, <4>2, <5>1, <5>2, EmptySequence, FlattenNone DEF OfSequences
      <4> QED BY <4>1, <4>2
    <3>6. OfSequences(tt) /\ \A k \in 1..Len(tt) : OfSequences(tt[k])
      BY <3>1, <3>5 DEF OfSequences
    <3>7. FlattenSeq(FlattenSeq(tt)) = FlattenSeq([k \in 1..Len(tt) |-> FlattenSeq(tt[k])])
      BY <3>6, FlattenTwice
    <3>8. [k \in 1..Len(tt) |-> FlattenSeq(tt[k])] = uu
      BY <3>1, <3>4, <3>5
    <3> QED BY <3>7, <3>8
  <2> QED BY <2>1, <2>3, <2>4
<1> QED BY <1>5, <1>6, <1>7 DEF n

LEMMA FlatPick ==
  ASSUME NEW s, IsSequence(s), NEW S, NEW f, \A k \in 1..Len(s) : s[k] \in S => IsSequence(f[s[k]])
  PROVE  FlattenSeq(Map(f, Pick(s, S))) = FlattenSeq([k \in 1..Len(s) |-> IF s[k] \in S THEN f[s[k]] ELSE <<>>])
BY PickFacts

LEMMA PickedFrom ==
  ASSUME NEW s, IsSequence(s), NEW S
  PROVE  \A k \in 1..Len(Pick(s, S)) : Pick(s, S)[k] \in Range(s) \cap S
<1> DEFINE n == Len(s)
           ss == [k \in 1..n |-> IF s[k] \in S THEN <<s[k]>> ELSE <<>>]
           T == Range(s) \cap S
           Good(t) == IsSequence(t) /\ \A k \in 1..Len(t) : t[k] \in T
           N == {m \in Nat : Good(FlattenSeq(First(ss, m)))}
<1>1. n \in Nat /\ IsSequence(ss) /\ Len(ss) = n /\ DOMAIN s = 1..n
  BY SequenceFacts, FunctionSequence
<1>2. \A k \in 1..n : Good(ss[k])
  <2>1. SUFFICES ASSUME NEW k \in 1..n PROVE Good(ss[k])
    OBVIOUS
  <2>2. CASE s[k] \in S
    <3>1. s[k] \in T /\ ss[k] = <<s[k]>>
      BY <1>1, <2>2 DEF Range
    <3>2. \A j \in 1..1 : j = 1
      OBVIOUS
    <3> HIDE DEF ss, T
    <3> QED BY <3>1, <3>2, OneSequence
  <2>3. CASE s[k] \notin S
    <3>1. ss[k] = <<>>
      BY <2>3
    <3>2. \A j \in 1..0 : FALSE
      OBVIOUS
    <3> HIDE DEF ss, T
    <3> QED BY <3>1, <3>2, EmptySequence
  <2> QED BY <2>2, <2>3
<1>3. OfSequences(ss) /\ Pick(s, S) = FlattenSeq(ss)
  BY <1>1, <1>2 DEF OfSequences, Pick
<1>4. \A t, u : Good(t) /\ Good(u) => Good(t \o u)
  <2>1. SUFFICES ASSUME NEW t, NEW u, Good(t), Good(u) PROVE Good(t \o u)
    OBVIOUS
  <2>2. IsSequence(t \o u)
    BY <2>1, ConcatSequences
  <2>3. ASSUME NEW k \in 1..Len(t \o u) PROVE (t \o u)[k] \in T
    <3>1. \/ k \in 1..Len(t) /\ (t \o u)[k] = t[k]
          \/ k - Len(t) \in 1..Len(u) /\ (t \o u)[k] = u[k - Len(t)]
      BY <2>1, ConcatPlaces
    <3> QED BY <2>1, <3>1
  <2> QED BY <2>2, <2>3
<1> HIDE DEF ss, n, T
<1>5. 0 \in N
  <2>1. FlattenSeq(First(ss, 0)) = <<>>
    BY <1>1, FirstFacts, FlattenNone
  <2>2. \A j \in 1..0 : FALSE
    OBVIOUS
  <2>3. Good(<<>>)
    BY <2>2, EmptySequence
  <2> QED BY <2>1, <2>3
<1>6. ASSUME NEW m \in Nat, m + 1 <= Len(ss), m \in N PROVE m + 1 \in N
  <2>1. /\ m + 1 \in 1..Len(ss)
        /\ FlattenSeq(First(ss, m + 1)) = FlattenSeq(First(ss, m)) \o ss[m + 1]
    BY <1>3, <1>6, FlattenStep
  <2>2. Good(FlattenSeq(First(ss, m))) /\ Good(ss[m + 1])
    BY <1>1, <1>2, <1>6, <2>1
  <2>3. m + 1 \in Nat
    OBVIOUS
  <2> HIDE DEF Good
  <2>4. Good(FlattenSeq(First(ss, m)) \o ss[m + 1])
    BY ONLY <1>4, <2>2
  <2>5. Good(FlattenSeq(First(ss, m + 1)))
    BY ONLY <2>1, <2>4, Zenon
  <2> QED BY <2>3, <2>5
<1> HIDE DEF N
<1>7. Len(ss) \in N
  BY <1>1, <1>5, <1>6, GrowInduction
<1>8. Good(FlattenSeq(ss))
  BY <1>1, <1>7, FirstFacts DEF N
<1> QED BY <1>3, <1>8 DEF T

-----------------------------------------------------------------------------
(* Parts of some types. *)
(* What OfType and Joined give, and the calls made of parts of some types.  *)
OfTypes(s, types) == {p \in Range(s) : p.type \in types}

LEMMA InRange ==
  ASSUME NEW s, IsSequence(s), NEW k \in 1..Len(s)
  PROVE  s[k] \in Range(s)
BY SequenceFacts DEF Range

LEMMA OfTypeIsPick ==
  ASSUME NEW s, IsSequence(s), NEW types
  PROVE  /\ OfType(s, types) = Pick(s, OfTypes(s, types))
         /\ IsSequence(OfType(s, types))
         /\ OfType(s, types) = <<>> <=> \A k \in 1..Len(s) : s[k].type \notin types
<1>1. DOMAIN s = 1..Len(s)
  BY SequenceFacts
<1>2. \A k \in 1..Len(s) : s[k] \in OfTypes(s, types) <=> s[k].type \in types
  BY InRange DEF OfTypes
<1>3. OfType(s, types) = FlattenSeq([k \in 1..Len(s) |-> IF s[k].type \in types THEN <<s[k]>> ELSE <<>>])
  BY <1>1 DEF OfType, Select
<1>4. [k \in 1..Len(s) |-> IF s[k].type \in types THEN <<s[k]>> ELSE <<>>]
        = [k \in 1..Len(s) |-> IF s[k] \in OfTypes(s, types) THEN <<s[k]>> ELSE <<>>]
  BY <1>2
<1>5. OfType(s, types) = Pick(s, OfTypes(s, types))
  BY <1>3, <1>4 DEF Pick
<1> QED BY <1>2, <1>5, PickFacts

LEMMA JoinedIs ==
  ASSUME NEW s, IsSequence(s), \A k \in 1..Len(s) : s[k].type = "text" => IsSequence(s[k].text)
  PROVE  /\ Joined(s) = FlattenSeq([k \in 1..Len(s) |-> IF s[k].type = "text" THEN s[k].text ELSE <<>>])
         /\ IsSequence(Joined(s))
<1> DEFINE S == OfTypes(s, {"text"})
           f == [p \in Range(s) |-> p.text]
           tt == [k \in 1..Len(s) |-> IF s[k].type = "text" THEN s[k].text ELSE <<>>]
<1>1. \A k \in 1..Len(s) : s[k] \in S <=> s[k].type = "text"
  BY InRange DEF OfTypes
<1>2. \A k \in 1..Len(s) : f[s[k]] = s[k].text
  BY InRange
<1>3. OfType(s, {"text"}) = Pick(s, S) /\ IsSequence(Pick(s, S))
  BY OfTypeIsPick
<1>4. Joined(s) = FlattenSeq([k \in DOMAIN Pick(s, S) |-> Pick(s, S)[k].text])
  BY <1>3 DEF Joined, Apply
<1>5. \A k \in DOMAIN Pick(s, S) : Pick(s, S)[k] \in Range(s)
  BY PickedFrom, <1>3, SequenceFacts
<1>6. Joined(s) = FlattenSeq(Map(f, Pick(s, S)))
  <2>1. [k \in DOMAIN Pick(s, S) |-> Pick(s, S)[k].text] = Map(f, Pick(s, S))
    BY <1>5 DEF Map
  <2> QED BY <1>4, <2>1
<1> HIDE DEF f, S
<1>7. FlattenSeq(Map(f, Pick(s, S))) = FlattenSeq([k \in 1..Len(s) |-> IF s[k] \in S THEN f[s[k]] ELSE <<>>])
  BY <1>1, <1>2, PickFacts
<1>8. [k \in 1..Len(s) |-> IF s[k] \in S THEN f[s[k]] ELSE <<>>] = tt
  BY <1>1, <1>2
<1>9. OfSequences(tt)
  <2>1. IsSequence(tt) /\ Len(tt) = Len(s)
    BY SequenceFacts, FunctionSequence
  <2>2. \A k \in 1..Len(s) : IsSequence(tt[k])
    BY EmptySequence
  <2> HIDE DEF tt
  <2> QED BY <2>1, <2>2 DEF OfSequences
<1> QED BY <1>6, <1>7, <1>8, <1>9, FlattenSequence

LEMMA ImagesOfType ==
  ASSUME NEW s, IsSequence(s), NEW types, NEW f
  PROVE  /\ Map(f, OfType(s, types)) = FlattenSeq([k \in 1..Len(s) |-> IF s[k].type \in types THEN <<f[s[k]]>> ELSE <<>>])
         /\ \A k \in DOMAIN OfType(s, types) : OfType(s, types)[k] \in Range(s)
<1> DEFINE S == OfTypes(s, types)
<1>1. \A k \in 1..Len(s) : s[k] \in S <=> s[k].type \in types
  BY InRange DEF OfTypes
<1>2. OfType(s, types) = Pick(s, S) /\ IsSequence(Pick(s, S))
  BY OfTypeIsPick
<1>3. \A k \in DOMAIN Pick(s, S) : Pick(s, S)[k] \in Range(s)
  BY PickedFrom, <1>2, SequenceFacts
<1> HIDE DEF S
<1>4. Map(f, Pick(s, S)) = FlattenSeq([k \in 1..Len(s) |-> IF s[k] \in S THEN <<f[s[k]]>> ELSE <<>>])
  BY PickFacts
<1>5. [k \in 1..Len(s) |-> IF s[k] \in S THEN <<f[s[k]]>> ELSE <<>>]
        = [k \in 1..Len(s) |-> IF s[k].type \in types THEN <<f[s[k]]>> ELSE <<>>]
  BY <1>1
<1> QED BY <1>2, <1>3, <1>4, <1>5

LEMMA FlatImagesOfType ==
  ASSUME NEW s, IsSequence(s), NEW types, NEW f,
         \A k \in 1..Len(s) : s[k].type \in types => IsSequence(f[s[k]])
  PROVE  FlattenSeq(Map(f, OfType(s, types)))
           = FlattenSeq([k \in 1..Len(s) |-> IF s[k].type \in types THEN f[s[k]] ELSE <<>>])
<1> DEFINE S == OfTypes(s, types)
<1>1. \A k \in 1..Len(s) : s[k] \in S <=> s[k].type \in types
  BY InRange DEF OfTypes
<1>2. OfType(s, types) = Pick(s, S)
  BY OfTypeIsPick
<1> HIDE DEF S
<1>3. FlattenSeq(Map(f, Pick(s, S))) = FlattenSeq([k \in 1..Len(s) |-> IF s[k] \in S THEN f[s[k]] ELSE <<>>])
  BY <1>1, FlatPick
<1>4. [k \in 1..Len(s) |-> IF s[k] \in S THEN f[s[k]] ELSE <<>>]
        = [k \in 1..Len(s) |-> IF s[k].type \in types THEN f[s[k]] ELSE <<>>]
  BY <1>1
<1> QED BY <1>2, <1>3, <1>4

-----------------------------------------------------------------------------
(* The fold over the messages of a request: one message more is one step    *)
(* more.                                                                    *)

(* The largest of numbers up to m + 1 that has m + 1 in it.                 *)
LEMMA LargestIs ==
  ASSUME NEW m \in Nat, NEW s \in SUBSET (1..(m + 1)), m + 1 \in s
  PROVE  Max(s) = m + 1
<1>1. \A y \in s : m + 1 >= y
  OBVIOUS
<1>2. Max(s) \in s /\ \A y \in s : Max(s) >= y
  BY <1>1 DEF Max
<1>3. Max(s) \in 1..(m + 1) /\ Max(s) >= m + 1
  BY <1>2
<1> HIDE DEF Max
<1> QED BY <1>3

(* The fold of ConvertOpenAIToolMessagesToAnthropic.                        *)
Unconverted == [out |-> <<>>, pending |-> [f \in Functions |-> <<>>], known |-> {}]
Converted(ms) == FoldLeft(ConvertMessage, Unconverted, ms)
Conversions(ms, D, g) ==
  g = [s \in SUBSET D |-> IF s = {} THEN Unconverted ELSE ConvertMessage(g[s \ {Max(s)}], ms[Max(s)])]

(* The states the fold goes through exist, whatever the messages.           *)
LEMMA ConversionsExist ==
  ASSUME NEW ms, NEW n \in Nat
  PROVE  \E g : Conversions(ms, 1..n, g)
<1> DEFINE S == {m \in Nat : \E g : Conversions(ms, 1..m, g)}
<1>1. 0 \in S
  <2>1. Conversions(ms, 1..0, [s \in SUBSET (1..0) |-> Unconverted])
    <3>1. \A s \in SUBSET (1..0) : s = {}
      OBVIOUS
    <3> QED BY <3>1 DEF Conversions
  <2> QED BY <2>1
<1>2. ASSUME NEW m \in Nat, m \in S PROVE m + 1 \in S
  <2>1. PICK g : Conversions(ms, 1..m, g)
    BY <1>2
  <2> DEFINE h == [s \in SUBSET (1..(m + 1)) |->
                     IF s \in SUBSET (1..m) THEN g[s] ELSE ConvertMessage(g[s \ {m + 1}], ms[m + 1])]
  <2>2. ASSUME NEW s \in SUBSET (1..(m + 1))
        PROVE  h[s] = IF s = {} THEN Unconverted ELSE ConvertMessage(h[s \ {Max(s)}], ms[Max(s)])
    <3>1. CASE s \in SUBSET (1..m)
      <4>1. h[s] = g[s]
        BY <3>1
      <4>2. s \ {Max(s)} \in SUBSET (1..m) /\ s \ {Max(s)} \in SUBSET (1..(m + 1))
        BY <3>1
      <4>3. h[s \ {Max(s)}] = g[s \ {Max(s)}]
        BY <4>2
      <4> HIDE DEF h
      <4> QED BY <2>1, <3>1, <4>1, <4>3 DEF Conversions
    <3>2. CASE s \notin SUBSET (1..m)
      <4>1. m + 1 \in s
        BY <3>2
      <4>2. Max(s) = m + 1
        BY <4>1, LargestIs
      <4>3. s \ {m + 1} \in SUBSET (1..m) /\ s \ {m + 1} \in SUBSET (1..(m + 1)) /\ s # {}
        BY <4>1
      <4>4. h[s \ {m + 1}] = g[s \ {m + 1}]
        BY <4>3
      <4>5. h[s] = ConvertMessage(g[s \ {m + 1}], ms[m + 1])
        BY <3>2
      <4> HIDE DEF h
      <4> QED BY <4>2, <4>3, <4>4, <4>5
    <3> QED BY <3>1, <3>2
  <2>3. h = [s \in SUBSET (1..(m + 1)) |->
               IF s = {} THEN Unconverted ELSE ConvertMessage(h[s \ {Max(s)}], ms[Max(s)])]
    BY <2>2
  <2> HIDE DEF h
  <2>4. Conversions(ms, 1..(m + 1), h)
    BY <2>3 DEF Conversions
  <2> QED BY <2>4
<1> HIDE DEF S
<1>3. Nat \subseteq S
  BY <1>1, <1>2, NatSetInduction
<1> QED BY <1>3 DEF S

(* The fold ends in the state all the messages lead to.                     *)
LEMMA ConvertedIs ==
  ASSUME NEW ms, IsSequence(ms)
  PROVE  \E g : Conversions(ms, 1..Len(ms), g) /\ Converted(ms) = g[1..Len(ms)]
<1> DEFINE n == Len(ms)
           g == CHOOSE g : g = [s \in SUBSET DOMAIN ms |->
                  IF s = {} THEN Unconverted ELSE ConvertMessage(g[s \ {Max(s)}], ms[Max(s)])]
<1>0. DOMAIN ms = 1..n /\ n \in Nat
  BY SequenceFacts
<1>1. \E h : h = [s \in SUBSET DOMAIN ms |->
                    IF s = {} THEN Unconverted ELSE ConvertMessage(h[s \ {Max(s)}], ms[Max(s)])]
  <2>1. PICK h : Conversions(ms, 1..n, h)
    BY <1>0, ConversionsExist
  <2>2. [s \in SUBSET (1..n) |-> IF s = {} THEN Unconverted ELSE ConvertMessage(h[s \ {Max(s)}], ms[Max(s)])]
        = [s \in SUBSET DOMAIN ms |-> IF s = {} THEN Unconverted ELSE ConvertMessage(h[s \ {Max(s)}], ms[Max(s)])]
    BY <1>0
  <2> QED BY <2>1, <2>2, Zenon DEF Conversions
<1>2. g = [s \in SUBSET DOMAIN ms |->
             IF s = {} THEN Unconverted ELSE ConvertMessage(g[s \ {Max(s)}], ms[Max(s)])]
  BY <1>1
<1>3. Converted(ms) = g[DOMAIN ms]
  BY DEF Converted, FoldLeft, MapThenFoldSet
<1> HIDE DEF g
<1>4. Conversions(ms, 1..n, g)
  BY <1>0, <1>2 DEF Conversions
<1> QED BY <1>0, <1>3, <1>4

(* Two folds agree as long as their messages do.                            *)
LEMMA ConversionsAgree ==
  ASSUME NEW ms, NEW ns, NEW n \in Nat, NEW m \in Nat, n <= m, NEW g, NEW h,
         Conversions(ms, 1..n, g), Conversions(ns, 1..m, h), \A k \in 1..n : ms[k] = ns[k]
  PROVE  /\ \A i \in 0..n : g[1..i] = h[1..i]
         /\ h[1..0] = Unconverted
         /\ \A i \in Nat : i + 1 <= m => h[1..(i + 1)] = ConvertMessage(h[1..i], ns[i + 1])
<1>1. /\ \A s \in SUBSET (1..n) : g[s] = IF s = {} THEN Unconverted ELSE ConvertMessage(g[s \ {Max(s)}], ms[Max(s)])
      /\ \A s \in SUBSET (1..m) : h[s] = IF s = {} THEN Unconverted ELSE ConvertMessage(h[s \ {Max(s)}], ns[Max(s)])
  BY DEF Conversions
<1>2. /\ \A i \in Nat : i + 1 <= n => g[1..(i + 1)] = ConvertMessage(g[1..i], ms[i + 1])
      /\ \A i \in Nat : i + 1 <= m => h[1..(i + 1)] = ConvertMessage(h[1..i], ns[i + 1])
  <2>1. \A i \in Nat : Max(1..(i + 1)) = i + 1
    <3>1. ASSUME NEW i \in Nat PROVE Max(1..(i + 1)) = i + 1
      <4>1. 1..(i + 1) \in SUBSET (1..(i + 1)) /\ i + 1 \in 1..(i + 1)
        OBVIOUS
      <4> QED BY <4>1, LargestIs
    <3> QED BY <3>1
  <2>2. \A i \in Nat : (1..(i + 1)) \ {i + 1} = 1..i /\ 1..(i + 1) # {}
    <3>1. ASSUME NEW i \in Nat PROVE (1..(i + 1)) \ {i + 1} = 1..i /\ 1..(i + 1) # {}
      <4>1. \A k : k \in (1..(i + 1)) \ {i + 1} <=> k \in 1..i
        OBVIOUS
      <4>2. i + 1 \in 1..(i + 1)
        OBVIOUS
      <4> QED BY <4>1, <4>2
    <3> QED BY <3>1
  <2>3. ASSUME NEW i \in Nat, i + 1 <= n PROVE g[1..(i + 1)] = ConvertMessage(g[1..i], ms[i + 1])
    <3>1. 1..(i + 1) \in SUBSET (1..n)
      BY <2>3
    <3>2. Max(1..(i + 1)) = i + 1 /\ (1..(i + 1)) \ {i + 1} = 1..i /\ 1..(i + 1) # {}
      BY <2>1, <2>2
    <3>3. g[1..(i + 1)] = IF 1..(i + 1) = {} THEN Unconverted
                         ELSE ConvertMessage(g[(1..(i + 1)) \ {Max(1..(i + 1))}], ms[Max(1..(i + 1))])
      BY <1>1, <3>1
    <3> QED BY <3>2, <3>3
  <2>4. ASSUME NEW i \in Nat, i + 1 <= m PROVE h[1..(i + 1)] = ConvertMessage(h[1..i], ns[i + 1])
    <3>1. 1..(i + 1) \in SUBSET (1..m)
      BY <2>4
    <3>2. Max(1..(i + 1)) = i + 1 /\ (1..(i + 1)) \ {i + 1} = 1..i /\ 1..(i + 1) # {}
      BY <2>1, <2>2
    <3>3. h[1..(i + 1)] = IF 1..(i + 1) = {} THEN Unconverted
                         ELSE ConvertMessage(h[(1..(i + 1)) \ {Max(1..(i + 1))}], ns[Max(1..(i + 1))])
      BY <1>1, <3>1
    <3> QED BY <3>2, <3>3
  <2> QED BY <2>3, <2>4
<1>3. g[1..0] = Unconverted /\ h[1..0] = Unconverted
  <2>1. 1..0 = {} /\ {} \in SUBSET (1..n) /\ {} \in SUBSET (1..m)
    OBVIOUS
  <2> QED BY <1>1, <2>1
<1> DEFINE S == {i \in Nat : i <= n => g[1..i] = h[1..i]}
<1>4. 0 \in S
  BY <1>3
<1>5. ASSUME NEW i \in Nat, i \in S PROVE i + 1 \in S
  <2>1. SUFFICES ASSUME i + 1 <= n PROVE g[1..(i + 1)] = h[1..(i + 1)]
    OBVIOUS
  <2>2. i <= n /\ i + 1 <= m /\ i + 1 \in 1..n
    BY <2>1
  <2> QED BY <1>2, <1>5, <2>1, <2>2
<1> HIDE DEF S
<1>6. Nat \subseteq S
  BY <1>4, <1>5, NatSetInduction
<1>7. \A i \in 0..n : g[1..i] = h[1..i]
  BY <1>6 DEF S
<1> QED BY <1>2, <1>3, <1>7

(* A fold over one message more ends one step further.                      *)
LEMMA ConversionsNext ==
  ASSUME NEW ms, NEW ns, NEW n \in Nat, NEW g, NEW h,
         Conversions(ms, 1..n, g), Conversions(ns, 1..(n + 1), h), \A k \in 1..n : ms[k] = ns[k]
  PROVE  h[1..(n + 1)] = ConvertMessage(g[1..n], ns[n + 1])
<1>1. PICK m \in Nat : m = n + 1
  OBVIOUS
<1>2. n <= m /\ Conversions(ns, 1..m, h)
  BY <1>1
<1>3. \A i \in 0..n : g[1..i] = h[1..i]
  BY <1>2, ConversionsAgree
<1>4. \A i \in Nat : i + 1 <= m => h[1..(i + 1)] = ConvertMessage(h[1..i], ns[i + 1])
  BY <1>2, ConversionsAgree
<1>5. n \in 0..n /\ n + 1 <= m
  BY <1>1
<1> QED BY <1>3, <1>4, <1>5

(* The same of the conversion of two conversations.                         *)
LEMMA ConvertedMore ==
  ASSUME NEW ms, NEW ns, NEW n \in Nat, IsSequence(ms), IsSequence(ns), Len(ms) = n, Len(ns) = n + 1,
         \A k \in 1..n : ms[k] = ns[k]
  PROVE  Converted(ns) = ConvertMessage(Converted(ms), ns[n + 1])
<1>1. PICK g : Conversions(ms, 1..n, g) /\ Converted(ms) = g[1..n]
  BY ConvertedIs
<1>2. PICK h : Conversions(ns, 1..(n + 1), h) /\ Converted(ns) = h[1..(n + 1)]
  BY ConvertedIs
<1>3. h[1..(n + 1)] = ConvertMessage(g[1..n], ns[n + 1])
  BY <1>1, <1>2, ConversionsNext
<1> QED BY <1>1, <1>2, <1>3

(* The conversion of a conversation that grows: one more call of            *)
(* ConvertMessage.                                                          *)
LEMMA ConvertedStep ==
  /\ Converted(<<>>) = Unconverted
  /\ \A ms, m : IsSequence(ms) => Converted(Append(ms, m)) = ConvertMessage(Converted(ms), m)
<1>1. Converted(<<>>) = Unconverted
  <2>1. PICK g : Conversions(<<>>, 1..Len(<<>>), g) /\ Converted(<<>>) = g[1..Len(<<>>)]
    BY EmptySequence, ConvertedIs
  <2>2. Len(<<>>) = 0 /\ 0 \in Nat
    BY EmptySequence
  <2>3. Conversions(<<>>, 1..0, g) /\ Converted(<<>>) = g[1..0]
    BY <2>1, <2>2
  <2>4. \A k \in 1..0 : <<>>[k] = <<>>[k]
    OBVIOUS
  <2>5. g[1..0] = Unconverted
    BY <2>2, <2>3, <2>4, ConversionsAgree
  <2> QED BY <2>3, <2>5
<1>2. ASSUME NEW ms, NEW m, IsSequence(ms) PROVE Converted(Append(ms, m)) = ConvertMessage(Converted(ms), m)
  <2>1. /\ Len(ms) \in Nat /\ IsSequence(Append(ms, m)) /\ Len(Append(ms, m)) = Len(ms) + 1
        /\ Append(ms, m)[Len(ms) + 1] = m /\ \A k \in 1..Len(ms) : ms[k] = Append(ms, m)[k]
    BY <1>2, SequenceFacts, AppendFacts
  <2> QED BY <1>2, <2>1, ConvertedMore
<1> QED BY <1>1, <1>2

-----------------------------------------------------------------------------
(* Breakpoints.                                                             *)

(* The marks of a part, and of an array.                                    *)
OneMark(p) == IF p.type = "text" /\ p.marked THEN <<p.text>> ELSE <<>>
MarkedIn(parts) == Apply(LAMBDA p : p.text, Select(parts, LAMBDA p : p.type = "text" /\ p.marked))

(* A part is marked or has no mark.                                         *)
LEMMA OneMarkIs ==
  \A p : IsSequence(OneMark(p)) /\ (OneMark(p) = <<>> <=> ~(p.type = "text" /\ p.marked))
BY OneSequence, EmptySequence DEF OneMark

(* The marks of an array are those of its parts, one after the other.       *)
LEMMA MarkedInIs ==
  ASSUME NEW s, IsSequence(s)
  PROVE  /\ MarkedIn(s) = FlattenSeq([k \in 1..Len(s) |-> OneMark(s[k])])
         /\ IsSequence(MarkedIn(s))
         /\ MarkedIn(s) = <<>> <=> ~Marked(s)
<1> DEFINE S == {p \in Range(s) : p.type = "text" /\ p.marked}
           f == [p \in Range(s) |-> p.text]
           tt == [k \in 1..Len(s) |-> IF s[k].type = "text" /\ s[k].marked THEN <<s[k]>> ELSE <<>>]
<1>0. DOMAIN s = 1..Len(s)
  BY SequenceFacts
<1>1. \A k \in 1..Len(s) : s[k] \in S <=> (s[k].type = "text" /\ s[k].marked)
  BY InRange
<1>2. \A k \in 1..Len(s) : f[s[k]] = s[k].text
  BY InRange
<1>3. MarkedIn(s) = Apply(LAMBDA p : p.text, FlattenSeq(tt))
  BY <1>0 DEF MarkedIn, Select
<1>4. tt = [k \in 1..Len(s) |-> IF s[k] \in S THEN <<s[k]>> ELSE <<>>]
  BY <1>1
<1>5. MarkedIn(s) = Apply(LAMBDA p : p.text, Pick(s, S))
  BY <1>3, <1>4 DEF Pick
<1>6. IsSequence(Pick(s, S)) /\ \A k \in DOMAIN Pick(s, S) : Pick(s, S)[k] \in Range(s)
  BY PickedFrom, PickFacts, SequenceFacts
<1>7. MarkedIn(s) = Map(f, Pick(s, S))
  BY <1>5, <1>6 DEF Apply, Map
<1> HIDE DEF f, S, tt
<1>8. /\ Map(f, Pick(s, S)) = FlattenSeq([k \in 1..Len(s) |-> IF s[k] \in S THEN <<f[s[k]]>> ELSE <<>>])
      /\ Pick(s, S) = <<>> <=> \A k \in 1..Len(s) : s[k] \notin S
  BY PickFacts
<1>9. [k \in 1..Len(s) |-> IF s[k] \in S THEN <<f[s[k]]>> ELSE <<>>] = [k \in 1..Len(s) |-> OneMark(s[k])]
  BY <1>1, <1>2 DEF OneMark
<1>10. IsSequence(MarkedIn(s)) /\ (MarkedIn(s) = <<>> <=> Pick(s, S) = <<>>)
  BY <1>6, <1>7, MapSequence
<1>11. Marked(s) <=> \E k \in 1..Len(s) : s[k] \in S
  BY <1>0, <1>1 DEF Marked
<1> QED BY <1>7, <1>8, <1>9, <1>10, <1>11

(* A sequence of images grows with its sequence.                            *)
LEMMA Grown ==
  ASSUME NEW gs, NEW hs, IsSequence(gs), IsSequence(hs), Len(hs) = Len(gs) + 1,
         \A k \in 1..Len(gs) : hs[k] = gs[k]
  PROVE  hs = Append(gs, hs[Len(gs) + 1])
<1>1. PICK n \in Nat : n = Len(gs)
  BY DEF IsSequence
<1>2. PICK x : x = hs[n + 1]
  OBVIOUS
<1>3. /\ IsSequence(Append(gs, x)) /\ Len(Append(gs, x)) = n + 1
      /\ \A k \in 1..n : Append(gs, x)[k] = gs[k]
      /\ Append(gs, x)[n + 1] = x
  BY <1>1, AppendFacts
<1>4. \A k \in 1..(n + 1) : k = n + 1 \/ k \in 1..n
  OBVIOUS
<1>5. \A k \in 1..Len(hs) : hs[k] = Append(gs, x)[k]
  BY <1>1, <1>2, <1>3, <1>4
<1>6. hs = Append(gs, x)
  BY <1>1, <1>3, <1>5, SameSequence
<1> QED BY <1>1, <1>2, <1>6

(* The marks of a message are a sequence, and none when neither the user    *)
(* nor the assistant says it.                                               *)
LEMMA MarksInIs ==
  ASSUME NEW m, IsSequence(PartsOf(m.content))
  PROVE  /\ MarksIn(m) = IF m.role \in {"user", "assistant"} THEN MarkedIn(PartsOf(m.content)) ELSE <<>>
         /\ IsSequence(MarksIn(m))
<1>1. MarksIn(m) = IF m.role \in {"user", "assistant"} THEN MarkedIn(PartsOf(m.content)) ELSE <<>>
  BY DEF MarksIn, MarkedIn
<1>2. IsSequence(MarkedIn(PartsOf(m.content))) /\ IsSequence(<<>>)
  BY MarkedInIs, EmptySequence
<1> QED BY <1>1, <1>2

(* The marks of messages are those of each, one after the other.            *)
LEMMA MarksOfIs ==
  ASSUME NEW ms, IsSequence(ms), \A k \in 1..Len(ms) : IsSequence(PartsOf(ms[k].content))
  PROVE  /\ MarksOf(ms) = FlattenSeq([k \in 1..Len(ms) |-> MarksIn(ms[k])])
         /\ OfSequences([k \in 1..Len(ms) |-> MarksIn(ms[k])])
         /\ IsSequence(MarksOf(ms))
<1> DEFINE gs == [k \in 1..Len(ms) |-> MarksIn(ms[k])]
<1>0. DOMAIN ms = 1..Len(ms) /\ Len(ms) \in Nat
  BY SequenceFacts
<1>1. MarksOf(ms) = FlattenSeq(gs)
  BY <1>0 DEF MarksOf, Apply
<1>2. IsSequence(gs) /\ Len(gs) = Len(ms)
  BY <1>0, FunctionSequence
<1>3. \A k \in 1..Len(ms) : IsSequence(gs[k])
  BY MarksInIs
<1> HIDE DEF gs
<1>4. OfSequences(gs)
  BY <1>2, <1>3 DEF OfSequences
<1>5. IsSequence(FlattenSeq(gs))
  BY <1>4, FlattenSequence
<1> QED BY <1>1, <1>4, <1>5 DEF gs

(* A message adds its marks behind those of the others.                     *)
LEMMA MarksOfAppend ==
  ASSUME NEW ms, IsSequence(ms), \A k \in 1..Len(ms) : IsSequence(PartsOf(ms[k].content)),
         NEW m, IsSequence(PartsOf(m.content))
  PROVE  MarksOf(Append(ms, m)) = MarksOf(ms) \o MarksIn(m)
<1> DEFINE n == Len(ms)
           ns == Append(ms, m)
           gs == [k \in 1..n |-> MarksIn(ms[k])]
           hs == [k \in 1..(n + 1) |-> MarksIn(ns[k])]
<1>1. /\ n \in Nat /\ IsSequence(ns) /\ Len(ns) = n + 1 /\ ns[n + 1] = m
      /\ \A k \in 1..n : ns[k] = ms[k]
  <2>1. n \in Nat
    BY SequenceFacts
  <2>2. /\ IsSequence(ns) /\ Len(ns) = Len(ms) + 1 /\ ns[Len(ms) + 1] = m
        /\ \A k \in 1..Len(ms) : ns[k] = ms[k]
    BY ONLY IsSequence(ms), AppendFacts
  <2> QED BY <2>1, <2>2
<1>2. \A k \in 1..(n + 1) : k = n + 1 \/ k \in 1..n
  BY <1>1
<1>3. \A k \in 1..Len(ns) : IsSequence(PartsOf(ns[k].content))
  BY <1>1, <1>2
<1>4. IsSequence(gs) /\ Len(gs) = n /\ IsSequence(hs) /\ Len(hs) = n + 1
  BY <1>1, FunctionSequence
<1>5. hs[n + 1] = MarksIn(m) /\ \A k \in 1..n : hs[k] = gs[k]
  BY <1>1
<1>6. MarksOf(ms) = FlattenSeq(gs)
  BY MarksOfIs
<1>7. MarksOf(ns) = FlattenSeq(hs)
  <2> HIDE DEF ns, n
  <2> QED BY <1>1, <1>3, MarksOfIs
<1> HIDE DEF gs, hs, n
<1>8. hs = Append(gs, MarksIn(m))
  BY <1>4, <1>5, Grown
<1>9. IsSequence(MarksIn(m))
  BY MarksInIs
<1>10. FlattenSeq(Append(gs, MarksIn(m))) = FlattenSeq(gs) \o MarksIn(m)
  BY <1>4, <1>9, FlattenAppend
<1> QED BY <1>6, <1>7, <1>8, <1>10

-----------------------------------------------------------------------------
(* The messages of a conversation.                                          *)
WellFormed(c) ==
  \/ c = Null
  \/ c = Str(c.text) /\ IsSequence(c.text)
  \/ /\ c = Parts(c.parts) /\ IsSequence(c.parts)
     /\ \A k \in 1..Len(c.parts) : IsSequence(SaidBy(c.parts[k]))
Shaped(m) ==
  /\ m = [role |-> m.role, content |-> m.content, calls |-> m.calls, id |-> m.id, name |-> m.name]
  /\ WellFormed(m.content) /\ IsSequence(m.calls)
AllShaped(ms) == IsSequence(ms) /\ \A k \in 1..Len(ms) : Shaped(ms[k])

(* A content by its form: null, a string, or an array of parts that say     *)
(* something.                                                               *)
LEMMA WellFormedFacts ==
  ASSUME NEW c, WellFormed(c)
  PROVE  /\ c.form \in {"null", "string", "array"}
         /\ c.form = "null" => c = Null
         /\ c.form = "string" => c = Str(c.text) /\ IsSequence(c.text)
         /\ c.form = "array" => c = Parts(c.parts) /\ IsSequence(c.parts)
                                /\ \A k \in 1..Len(c.parts) : IsSequence(SaidBy(c.parts[k]))
         /\ IsSequence(PartsOf(c))
         /\ \A k \in 1..Len(PartsOf(c)) : IsSequence(SaidBy(PartsOf(c)[k]))
<1>1. CASE c = Null
  <2>1. c.form = "null" /\ PartsOf(c) = <<>>
    BY <1>1 DEF Null, PartsOf
  <2>2. \A k \in 1..0 : FALSE
    OBVIOUS
  <2> QED BY <1>1, <2>1, <2>2, EmptySequence
<1>2. CASE c = Str(c.text) /\ IsSequence(c.text)
  <2>1. c.form = "string" /\ PartsOf(c) = <<>>
    BY <1>2 DEF Str, PartsOf
  <2>2. \A k \in 1..0 : FALSE
    OBVIOUS
  <2> QED BY <1>2, <2>1, <2>2, EmptySequence
<1>3. CASE /\ c = Parts(c.parts) /\ IsSequence(c.parts)
           /\ \A k \in 1..Len(c.parts) : IsSequence(SaidBy(c.parts[k]))
  <2>1. c.form = "array" /\ PartsOf(c) = c.parts
    BY <1>3 DEF Parts, PartsOf
  <2> QED BY <1>3, <2>1
<1> QED BY <1>1, <1>2, <1>3 DEF WellFormed

(* An array of parts that say something is a content.                       *)
LEMMA PartsFormed ==
  ASSUME NEW s, IsSequence(s), \A k \in 1..Len(s) : IsSequence(SaidBy(s[k]))
  PROVE  WellFormed(Parts(s)) /\ Parts(s).form = "array" /\ Parts(s).parts = s /\ PartsOf(Parts(s)) = s
<1>1. Parts(s).form = "array" /\ Parts(s).parts = s
  BY DEF Parts
<1>2. Parts(s) = Parts(Parts(s).parts)
  BY <1>1
<1> QED BY <1>1, <1>2 DEF WellFormed, PartsOf

(* A string is a content.                                                   *)
LEMMA StrFormed ==
  ASSUME NEW t, IsSequence(t)
  PROVE  WellFormed(Str(t)) /\ Str(t).form = "string" /\ Str(t).text = t /\ PartsOf(Str(t)) = <<>>
<1>1. Str(t).form = "string" /\ Str(t).text = t
  BY DEF Str
<1>2. Str(t) = Str(Str(t).text)
  BY <1>1
<1> QED BY <1>1, <1>2 DEF WellFormed, PartsOf

(* The text of an array is that of its text parts, one after the other.     *)
LEMMA JoinedFormed ==
  ASSUME NEW s, IsSequence(s), \A k \in 1..Len(s) : IsSequence(SaidBy(s[k]))
  PROVE  /\ Joined(s) = FlattenSeq([k \in 1..Len(s) |-> IF s[k].type = "text" THEN s[k].text ELSE <<>>])
         /\ IsSequence(Joined(s))
         /\ (\A k \in 1..Len(s) : s[k].type = "text" => s[k].text = <<>>) => Joined(s) = <<>>
<1>1. \A k \in 1..Len(s) : s[k].type = "text" => IsSequence(s[k].text)
  BY DEF SaidBy
<1> DEFINE tt == [k \in 1..Len(s) |-> IF s[k].type = "text" THEN s[k].text ELSE <<>>]
<1>2. Joined(s) = FlattenSeq(tt) /\ IsSequence(Joined(s))
  BY <1>1, JoinedIs
<1>3. IsSequence(tt) /\ Len(tt) = Len(s)
  BY SequenceFacts, FunctionSequence
<1>4. \A k \in 1..Len(s) : IsSequence(tt[k])
  BY <1>1, EmptySequence
<1>5. (\A k \in 1..Len(s) : s[k].type = "text" => s[k].text = <<>>) => \A k \in 1..Len(s) : tt[k] = <<>>
  OBVIOUS
<1> HIDE DEF tt
<1>6. OfSequences(tt)
  BY <1>3, <1>4 DEF OfSequences
<1> QED BY <1>2, <1>3, <1>5, <1>6, FlattenEmpties DEF tt

(* The text of a content is a sequence.                                     *)
LEMMA TextFormed ==
  ASSUME NEW c, WellFormed(c)
  PROVE  IsSequence(TextOf(c))
<1>1. CASE c.form = "null"
  BY <1>1, EmptySequence DEF TextOf
<1>2. CASE c.form = "string"
  BY <1>2, WellFormedFacts DEF TextOf
<1>3. CASE c.form = "array"
  <2>1. IsSequence(Joined(c.parts))
    BY <1>3, WellFormedFacts, JoinedFormed
  <2> QED BY <1>3, <2>1 DEF TextOf
<1> QED BY <1>1, <1>2, <1>3, WellFormedFacts

(* What a tool returned says the same once it is a tool_result.             *)
LEMMA ResultTextKept ==
  ASSUME NEW c, WellFormed(c)
  PROVE  TextOf(ToolResultContent(c)) = TextOf(c)
<1>1. CASE c.form = "string"
  BY <1>1 DEF ToolResultContent
<1>2. CASE c.form # "string"
  <2> DEFINE s == PartsOf(c)
             S == {p \in Range(s) : Inline(p)}
             f == [p \in Range(s) |-> ResultPart(p)]
             g == [p \in Range(s) |-> IF p.type = "text" THEN p.text ELSE <<>>]
             kept == Apply(ResultPart, Select(s, Inline))
  <2>0. IsSequence(s) /\ DOMAIN s = 1..Len(s) /\ \A k \in 1..Len(s) : IsSequence(SaidBy(s[k]))
    BY WellFormedFacts, SequenceFacts
  <2>1. \A k \in 1..Len(s) : /\ s[k] \in S <=> Inline(s[k])
                             /\ f[s[k]] = ResultPart(s[k])
                             /\ g[s[k]] = IF s[k].type = "text" THEN s[k].text ELSE <<>>
                             /\ IsSequence(g[s[k]])
    BY <2>0, InRange, EmptySequence DEF SaidBy
  <2>2. Select(s, Inline) = Pick(s, S)
    <3>1. [k \in 1..Len(s) |-> IF Inline(s[k]) THEN <<s[k]>> ELSE <<>>]
            = [k \in 1..Len(s) |-> IF s[k] \in S THEN <<s[k]>> ELSE <<>>]
      BY <2>1
    <3> QED BY <2>0, <3>1 DEF Select, Pick
  <2>3. IsSequence(Pick(s, S)) /\ \A k \in 1..Len(Pick(s, S)) : Pick(s, S)[k] \in Range(s) \cap S
    BY <2>0, PickedFrom, PickFacts
  <2>4. DOMAIN Pick(s, S) = 1..Len(Pick(s, S))
    BY <2>3, SequenceFacts
  <2>5. kept = Map(f, Pick(s, S))
    BY <2>2, <2>3, <2>4 DEF Apply, Map
  <2>6. \A p \in Range(s) : f[p] = ResultPart(p) /\ g[p] = IF p.type = "text" THEN p.text ELSE <<>>
    OBVIOUS
  <2>7. \A p \in Range(s) : IsSequence(g[p])
    BY <2>0, <2>1 DEF Range
  <2> HIDE DEF f, g, S, kept, s
  <2>8. /\ IsSequence(kept) /\ Len(kept) = Len(Pick(s, S))
        /\ \A k \in 1..Len(kept) : kept[k] = ResultPart(Pick(s, S)[k])
    BY <2>3, <2>5, <2>6, MapSequence
  <2>9. \A p : ResultPart(p).type = "text" <=> p.type = "text"
    BY DEF ResultPart, Text, Image
  <2>10. \A p : p.type = "text" => ResultPart(p).text = p.text
    BY DEF ResultPart, Text
  <2>11. \A k \in 1..Len(kept) : (IF kept[k].type = "text" THEN kept[k].text ELSE <<>>) = g[Pick(s, S)[k]]
    BY <2>3, <2>6, <2>8, <2>9, <2>10
  <2>12. \A k \in 1..Len(kept) : kept[k].type = "text" => IsSequence(kept[k].text)
    BY <2>3, <2>7, <2>8, <2>11
  <2>13. Joined(kept) = FlattenSeq([k \in 1..Len(kept) |-> IF kept[k].type = "text" THEN kept[k].text ELSE <<>>])
    BY <2>8, <2>12, JoinedIs
  <2>14. [k \in 1..Len(kept) |-> IF kept[k].type = "text" THEN kept[k].text ELSE <<>>] = Map(g, Pick(s, S))
    BY <2>4, <2>8, <2>11 DEF Map
  <2>15. FlattenSeq(Map(g, Pick(s, S))) = FlattenSeq([k \in 1..Len(s) |-> IF s[k] \in S THEN g[s[k]] ELSE <<>>])
    BY <2>0, <2>1, FlatPick
  <2>16. [k \in 1..Len(s) |-> IF s[k] \in S THEN g[s[k]] ELSE <<>>]
           = [k \in 1..Len(s) |-> IF s[k].type = "text" THEN s[k].text ELSE <<>>]
    BY <2>1 DEF Inline
  <2>17. Joined(kept) = Joined(s)
    BY <2>0, <2>13, <2>14, <2>15, <2>16, JoinedFormed
  <2>18. TextOf(c) = Joined(s)
    <3>1. CASE c.form = "null"
      <4>1. s = <<>> /\ TextOf(c) = <<>>
        BY <3>1 DEF TextOf, PartsOf, s
      <4>2. Len(s) = 0
        BY <4>1, EmptySequence
      <4>3. \A k \in 1..0 : FALSE
        OBVIOUS
      <4>4. Joined(s) = <<>>
        BY <2>0, <4>2, <4>3, JoinedFormed
      <4> QED BY <4>1, <4>4
    <3>2. CASE c.form = "array"
      BY <3>2 DEF TextOf, PartsOf, s
    <3> QED BY <1>2, <3>1, <3>2, WellFormedFacts
  <2>19. CASE kept = <<>>
    <3>1. ToolResultContent(c) = Str(<<>>)
      BY <1>2, <2>19 DEF ToolResultContent, kept, s
    <3>2. TextOf(ToolResultContent(c)) = <<>>
      BY <3>1 DEF Str, TextOf
    <3>3. Len(kept) = 0
      BY <2>19, EmptySequence
    <3>4. \A k \in 1..0 : FALSE
      OBVIOUS
    <3>5. Map(g, Pick(s, S)) = <<>>
      BY <2>5, <2>3, <2>19, MapSequence
    <3>6. Joined(kept) = <<>>
      BY <2>13, <2>14, <3>5, FlattenNone
    <3> QED BY <2>17, <2>18, <3>2, <3>6
  <2>20. CASE kept # <<>>
    <3>1. ToolResultContent(c) = Parts(kept)
      BY <1>2, <2>20 DEF ToolResultContent, kept, s
    <3>2. TextOf(ToolResultContent(c)) = Joined(kept)
      BY <3>1 DEF Parts, TextOf
    <3> QED BY <2>17, <2>18, <3>2
  <2> QED BY <2>19, <2>20
<1> QED BY <1>1, <1>2

(* What is gathered from two sequences one after the other.                 *)
LEMMA GatheredConcat ==
  ASSUME NEW gs, NEW hs, NEW us, OfSequences(gs), OfSequences(hs), IsSequence(us),
         Len(us) = Len(gs) + Len(hs), \A k \in 1..Len(gs) : us[k] = gs[k],
         \A k \in 1..Len(hs) : us[Len(gs) + k] = hs[k]
  PROVE  FlattenSeq(us) = FlattenSeq(gs) \o FlattenSeq(hs)
<1>1. IsSequence(gs) /\ IsSequence(hs)
  BY DEF OfSequences
<1>2. IsSequence(gs \o hs) /\ Len(gs \o hs) = Len(us)
  BY <1>1, ConcatSequences
<1>3. ASSUME NEW k \in 1..Len(gs \o hs) PROVE (gs \o hs)[k] = us[k]
  <2>0. Len(gs) \in Nat /\ Len(hs) \in Nat /\ k \in Nat
    BY <1>1, <1>2, <1>3 DEF IsSequence
  <2>1. CASE k \in 1..Len(gs) /\ (gs \o hs)[k] = gs[k]
    BY <2>1
  <2>2. CASE k - Len(gs) \in 1..Len(hs) /\ (gs \o hs)[k] = hs[k - Len(gs)]
    <3>1. PICK j \in 1..Len(hs) : j = k - Len(gs)
      BY <2>2
    <3>2. k = Len(gs) + j
      BY <2>0, <3>1
    <3> QED BY <2>2, <3>1, <3>2
  <2> QED BY <1>1, <2>1, <2>2, ConcatPlaces
<1>4. gs \o hs = us
  BY <1>2, <1>3, SameSequence
<1> QED BY <1>4, FlattenConcat

(* The marks of two arrays one after the other.                             *)
LEMMA MarkedConcat ==
  ASSUME NEW s, NEW t, IsSequence(s), IsSequence(t)
  PROVE  MarkedIn(s \o t) = MarkedIn(s) \o MarkedIn(t)
<1> DEFINE gs == [k \in 1..Len(s) |-> OneMark(s[k])]
           hs == [k \in 1..Len(t) |-> OneMark(t[k])]
           us == [k \in 1..Len(s \o t) |-> OneMark((s \o t)[k])]
<1>1. /\ IsSequence(s \o t) /\ Len(s \o t) = Len(s) + Len(t) /\ Len(s) \in Nat /\ Len(t) \in Nat
      /\ \A k \in 1..Len(s) : (s \o t)[k] = s[k]
      /\ \A k \in 1..Len(t) : (s \o t)[Len(s) + k] = t[k]
  BY ConcatSequences, SequenceFacts
<1>2. /\ IsSequence(gs) /\ Len(gs) = Len(s) /\ IsSequence(hs) /\ Len(hs) = Len(t)
      /\ IsSequence(us) /\ Len(us) = Len(s) + Len(t)
  BY <1>1, FunctionSequence
<1>3. OfSequences(gs) /\ OfSequences(hs)
  BY <1>2, OneMarkIs DEF OfSequences
<1>4. MarkedIn(s) = FlattenSeq(gs) /\ MarkedIn(t) = FlattenSeq(hs) /\ MarkedIn(s \o t) = FlattenSeq(us)
  BY <1>1, MarkedInIs
<1>5. /\ \A k \in 1..Len(s) : k \in 1..Len(s \o t)
      /\ \A k \in 1..Len(t) : Len(s) + k \in 1..Len(s \o t)
  BY <1>1
<1>6. /\ \A k \in 1..Len(gs) : us[k] = gs[k]
      /\ \A k \in 1..Len(hs) : us[Len(gs) + k] = hs[k]
  BY <1>1, <1>2, <1>5
<1> HIDE DEF gs, hs, us
<1>7. FlattenSeq(us) = FlattenSeq(gs) \o FlattenSeq(hs)
  BY <1>2, <1>3, <1>6, GatheredConcat
<1> QED BY <1>4, <1>7

(* An array without a marked part has no marks.                             *)
LEMMA MarkedNone ==
  ASSUME NEW s, IsSequence(s), \A k \in 1..Len(s) : ~(s[k].type = "text" /\ s[k].marked)
  PROVE  MarkedIn(s) = <<>>
<1>1. ~Marked(s)
  BY SequenceFacts DEF Marked
<1> QED BY <1>1, MarkedInIs

(* The content of a message is well formed.                                 *)
LEMMA ShapedFacts ==
  ASSUME NEW m, Shaped(m)
  PROVE  WellFormed(m.content) /\ IsSequence(PartsOf(m.content)) /\ IsSequence(m.calls)
BY WellFormedFacts DEF Shaped

(* A turn that calls tools keeps its marks.                                 *)
LEMMA TurnKept ==
  ASSUME NEW m, Shaped(m), m.role = "assistant"
  PROVE  /\ Shaped(AssistantWithToolUse(m)) /\ AssistantWithToolUse(m).role = "assistant"
         /\ MarksIn(AssistantWithToolUse(m)) = MarksIn(m)
<1> DEFINE blocks == ContentBlocks(m.content)
           uses == [i \in DOMAIN m.calls |-> ToolUse(CallId(m.calls, i), m.calls[i].name)]
<1>1. WellFormed(m.content) /\ IsSequence(m.calls) /\ DOMAIN m.calls = 1..Len(m.calls) /\ Len(m.calls) \in Nat
  BY ShapedFacts, SequenceFacts
<1>2. IsSequence(uses) /\ Len(uses) = Len(m.calls)
  BY <1>1, FunctionSequence
<1>3. \A k \in 1..Len(uses) : uses[k].type = "tool_use"
  BY <1>1, <1>2 DEF ToolUse
<1>4. /\ IsSequence(blocks) /\ \A k \in 1..Len(blocks) : IsSequence(SaidBy(blocks[k]))
      /\ MarkedIn(blocks) = MarkedIn(PartsOf(m.content))
  <2>0. \A k \in 1..0 : FALSE
    OBVIOUS
  <2>1. CASE m.content.form = "null"
    <3>1. blocks = <<>> /\ PartsOf(m.content) = <<>>
      BY <2>1 DEF ContentBlocks, PartsOf
    <3> QED BY <2>0, <3>1, EmptySequence
  <2>2. CASE m.content.form = "string" /\ m.content.text = <<>>
    <3>1. blocks = <<>> /\ PartsOf(m.content) = <<>>
      BY <2>2 DEF ContentBlocks, PartsOf
    <3> QED BY <2>0, <3>1, EmptySequence
  <2>3. CASE m.content.form = "string" /\ m.content.text # <<>>
    <3>1. blocks = <<Text(m.content.text)>> /\ PartsOf(m.content) = <<>>
      BY <2>3 DEF ContentBlocks, PartsOf
    <3>2. IsSequence(blocks) /\ Len(blocks) = 1 /\ blocks[1] = Text(m.content.text)
      BY <3>1, OneSequence
    <3>3. SaidBy(Text(m.content.text)) = m.content.text /\ ~Text(m.content.text).marked
      BY DEF SaidBy, Text
    <3>4. IsSequence(m.content.text)
      BY <1>1, <2>3, WellFormedFacts
    <3>5. \A k \in 1..1 : k = 1
      OBVIOUS
    <3> HIDE DEF blocks
    <3>6. MarkedIn(blocks) = <<>>
      BY <3>2, <3>3, <3>5, MarkedNone
    <3>7. MarkedIn(<<>>) = <<>>
      BY <2>0, EmptySequence, MarkedNone
    <3> QED BY <3>1, <3>2, <3>3, <3>4, <3>5, <3>6, <3>7
  <2>4. CASE m.content.form = "array"
    <3>1. blocks = m.content.parts /\ PartsOf(m.content) = m.content.parts
      BY <2>4 DEF ContentBlocks, PartsOf
    <3> HIDE DEF blocks
    <3> QED BY <1>1, <2>4, <3>1, WellFormedFacts
  <2> QED BY <1>1, <2>1, <2>2, <2>3, <2>4, WellFormedFacts
<1> DEFINE t == AssistantWithToolUse(m)
<1>5. t = [m EXCEPT !.calls = <<>>, !.content = Parts(blocks \o uses)]
  BY DEF AssistantWithToolUse
<1> HIDE DEF blocks, uses
<1>6. m = [role |-> m.role, content |-> m.content, calls |-> m.calls, id |-> m.id, name |-> m.name]
  BY DEF Shaped
<1>7. t = [role |-> m.role, content |-> Parts(blocks \o uses), calls |-> <<>>, id |-> m.id, name |-> m.name]
  BY <1>5, <1>6
<1> HIDE DEF t
<1>8. IsSequence(blocks \o uses) /\ MarkedIn(blocks \o uses) = MarkedIn(PartsOf(m.content))
  <2>1. MarkedIn(uses) = <<>>
    BY <1>2, <1>3, MarkedNone
  <2>2. MarkedIn(blocks \o uses) = MarkedIn(blocks) \o <<>>
    <3>1. PICK b, u : b = blocks /\ u = uses /\ IsSequence(b) /\ IsSequence(u)
      BY ONLY <1>2, <1>4
    <3>2. MarkedIn(b \o u) = MarkedIn(b) \o MarkedIn(u)
      BY ONLY <3>1, MarkedConcat
    <3> QED BY ONLY <2>1, <3>1, <3>2
  <2>3. IsSequence(MarkedIn(blocks))
    BY <1>4, MarkedInIs
  <2> QED BY <1>2, <1>4, <2>2, <2>3, ConcatSequences, ConcatEmpty
<1>9. \A k \in 1..Len(blocks \o uses) : IsSequence(SaidBy((blocks \o uses)[k]))
  <2>1. SUFFICES ASSUME NEW k \in 1..Len(blocks \o uses) PROVE IsSequence(SaidBy((blocks \o uses)[k]))
    OBVIOUS
  <2>2. CASE k \in 1..Len(blocks) /\ (blocks \o uses)[k] = blocks[k]
    BY <1>4, <2>2
  <2>3. CASE k - Len(blocks) \in 1..Len(uses) /\ (blocks \o uses)[k] = uses[k - Len(blocks)]
    <3>1. SaidBy((blocks \o uses)[k]) = <<>>
      BY <1>3, <2>3 DEF SaidBy
    <3> QED BY <3>1, EmptySequence
  <2> QED BY <1>2, <1>4, <2>2, <2>3, ConcatPlaces
<1>10. WellFormed(Parts(blocks \o uses)) /\ PartsOf(Parts(blocks \o uses)) = blocks \o uses
  BY <1>8, <1>9, PartsFormed
<1>11. t.content = Parts(blocks \o uses) /\ t.role = "assistant" /\ t.calls = <<>> /\ t.id = m.id /\ t.name = m.name
  BY <1>7
<1>12. Shaped(t)
  BY <1>7, <1>10, <1>11, EmptySequence DEF Shaped
<1>13. IsSequence(PartsOf(t.content)) /\ IsSequence(PartsOf(m.content))
  BY <1>12, ShapedFacts
<1>14. MarksIn(t) = MarksIn(m)
  BY <1>8, <1>10, <1>11, <1>13, MarksInIs
<1> QED BY <1>11, <1>12, <1>14 DEF t

(* A conversation under conversion: what is out is shaped, and no message   *)
(* of it is a result.                                                       *)
Out(ms) == AllShaped(ms) /\ \A k \in 1..Len(ms) : ms[k].role \notin {"tool", "function"}
Running(st) == st = [out |-> st.out, pending |-> st.pending, known |-> st.known] /\ Out(st.out)

(* Every message of a conversation has a sequence of parts.                 *)
LEMMA AllShapedParts ==
  ASSUME NEW ms, AllShaped(ms)
  PROVE  IsSequence(ms) /\ \A k \in 1..Len(ms) : IsSequence(PartsOf(ms[k].content))
BY ShapedFacts DEF AllShaped

(* A message joins what is out, and its marks those that are out.           *)
LEMMA OutAppend ==
  ASSUME NEW ms, Out(ms), NEW m, Shaped(m), m.role \notin {"tool", "function"}
  PROVE  Out(Append(ms, m)) /\ MarksOf(Append(ms, m)) = MarksOf(ms) \o MarksIn(m)
<1>1. IsSequence(ms) /\ Len(ms) \in Nat
  BY SequenceFacts DEF Out, AllShaped
<1>2. /\ IsSequence(Append(ms, m)) /\ Len(Append(ms, m)) = Len(ms) + 1
      /\ \A k \in 1..Len(ms) : Append(ms, m)[k] = ms[k]
      /\ Append(ms, m)[Len(ms) + 1] = m
  BY <1>1, AppendFacts
<1>3. \A k \in 1..(Len(ms) + 1) : k = Len(ms) + 1 \/ k \in 1..Len(ms)
  BY <1>1
<1>4. Out(Append(ms, m))
  BY <1>2, <1>3 DEF Out, AllShaped
<1>5. IsSequence(PartsOf(m.content)) /\ \A k \in 1..Len(ms) : IsSequence(PartsOf(ms[k].content))
  BY ShapedFacts DEF Out, AllShaped
<1> QED BY <1>1, <1>4, <1>5, MarksOfAppend

(* A message of results.                                                    *)
LEMMA ResultsFormed ==
  ASSUME NEW s, IsSequence(s), NEW id, NEW c, IsSequence(TextOf(c)),
         \A k \in 1..Len(s) : IsSequence(SaidBy(s[k]))
  PROVE  /\ WellFormed(Parts(Append(s, ToolResult(id, c))))
         /\ MarkedIn(Append(s, ToolResult(id, c))) = MarkedIn(s)
         /\ IsSequence(Append(s, ToolResult(id, c)))
<1> DEFINE r == ToolResult(id, c)
           t == Append(s, r)
<1>1. r.type = "tool_result" /\ SaidBy(r) = TextOf(c)
  BY DEF ToolResult, SaidBy
<1>2. t = s \o <<r>> /\ IsSequence(t) /\ Len(t) = Len(s) + 1 /\ t[Len(s) + 1] = r
      /\ Len(s) \in Nat /\ \A k \in 1..Len(s) : t[k] = s[k]
  BY AppendSequence, SequenceFacts
<1> HIDE DEF r, t
<1>3. \A k \in 1..(Len(s) + 1) : k = Len(s) + 1 \/ k \in 1..Len(s)
  BY <1>2
<1>4. \A k \in 1..Len(t) : IsSequence(SaidBy(t[k]))
  BY <1>1, <1>2, <1>3
<1>5. MarkedIn(<<r>>) = <<>>
  <2>1. IsSequence(<<r>>) /\ Len(<<r>>) = 1 /\ <<r>>[1] = r
    BY OneSequence
  <2>2. \A k \in 1..1 : k = 1
    OBVIOUS
  <2>3. \A k \in 1..Len(<<r>>) : <<r>>[k].type # "text"
    BY <1>1, <2>1, <2>2
  <2> QED BY <2>1, <2>3, MarkedNone
<1>6. MarkedIn(t) = MarkedIn(s) \o <<>>
  BY <1>2, <1>5, OneSequence, MarkedConcat
<1>7. MarkedIn(t) = MarkedIn(s)
  BY <1>6, MarkedInIs, ConcatEmpty
<1> QED BY <1>2, <1>4, <1>7, PartsFormed DEF t, r

(* A result joins what is out, in a message of its own or the one before,   *)
(* and marks nothing.                                                       *)
LEMMA ResultAppended ==
  ASSUME NEW out, Out(out), NEW id, NEW c, IsSequence(TextOf(c))
  PROVE  Out(AppendToolResult(out, ToolResult(id, c)))
         /\ MarksOf(AppendToolResult(out, ToolResult(id, c))) = MarksOf(out)
<1> DEFINE n == Len(out)
           r == ToolResult(id, c)
<1>1. IsSequence(out) /\ DOMAIN out = 1..n /\ n \in Nat /\ (out = <<>> <=> n = 0)
  BY SequenceFacts, EmptySequence DEF Out, AllShaped
<1>2. CASE out # <<>> /\ OnlyResults(Last(out))
  <2> DEFINE m == out[n]
             p == m.content.parts
             t == Append(p, r)
             ns == AppendToolResult(out, r)
             w == [m EXCEPT !.content.parts = t]
  <2>1. n \in 1..n /\ Last(out) = m /\ Shaped(m)
    BY <1>1, <1>2 DEF Out, AllShaped, Last
  <2>2. m.role = "user" /\ m.content.form = "array"
    BY <1>2, <2>1 DEF OnlyResults, PartsOf
  <2>3. /\ m.content = Parts(p) /\ IsSequence(p) /\ PartsOf(m.content) = p
        /\ \A k \in 1..Len(p) : IsSequence(SaidBy(p[k]))
        /\ IsSequence(m.calls)
    BY <2>1, <2>2, ShapedFacts, WellFormedFacts DEF PartsOf
  <2>4. WellFormed(Parts(t)) /\ MarkedIn(t) = MarkedIn(p) /\ IsSequence(t)
    BY <2>3, ResultsFormed
  <2>5. ns = [out EXCEPT ![n].content.parts = Append(@, r)]
    BY <1>2 DEF AppendToolResult
  <2>6. ns = [out EXCEPT ![n] = w]
    BY <2>5
  <2>7. m = [role |-> m.role, content |-> m.content, calls |-> m.calls, id |-> m.id, name |-> m.name]
    BY <2>1 DEF Shaped
  <2> HIDE DEF t, p, ns
  <2>8. Parts(t) = [Parts(p) EXCEPT !.parts = t]
    BY DEF Parts
  <2>9. w = [m EXCEPT !.content = Parts(t)]
    <3>1. w = [m EXCEPT !.content = [m.content EXCEPT !.parts = t]]
      BY DEF w
    <3> QED BY <2>3, <2>8, <3>1
  <2> HIDE DEF m, w
  <2>10. w = [role |-> m.role, content |-> Parts(t), calls |-> m.calls, id |-> m.id, name |-> m.name]
    BY <2>7, <2>9
  <2>11. w.role = "user" /\ w.content = Parts(t) /\ w.calls = m.calls /\ w.id = m.id /\ w.name = m.name
    BY <2>2, <2>10
  <2>12. PartsOf(w.content) = t
    BY <2>11 DEF PartsOf, Parts
  <2>13. Shaped(w)
    BY <2>3, <2>4, <2>10, <2>11 DEF Shaped
  <2>14. ns = [k \in 1..n |-> IF k = n THEN w ELSE out[k]]
    BY <1>1, <2>6
  <2>15. IsSequence(ns) /\ Len(ns) = n /\ \A k \in 1..n : ns[k] = IF k = n THEN w ELSE out[k]
    BY <1>1, <2>14, FunctionSequence
  <2>16. Out(ns)
    BY <2>11, <2>13, <2>15 DEF Out, AllShaped
  <2>17. \A k \in 1..n : MarksIn(ns[k]) = MarksIn(out[k])
    <3>1. MarksIn(w) = MarksIn(m)
      BY <2>2, <2>3, <2>4, <2>11, <2>12, MarksInIs
    <3> QED BY <2>15, <3>1 DEF m
  <2>18. [k \in 1..Len(ns) |-> MarksIn(ns[k])] = [k \in 1..n |-> MarksIn(out[k])]
    BY <2>15, <2>17
  <2>19. MarksOf(ns) = MarksOf(out)
    BY <2>16, <2>18, AllShapedParts, MarksOfIs DEF Out
  <2> QED BY <2>16, <2>19 DEF ns
<1>3. CASE ~(out # <<>> /\ OnlyResults(Last(out)))
  <2> DEFINE m == Message("user", Parts(<<r>>))
  <2>1. AppendToolResult(out, r) = Append(out, m)
    BY <1>3 DEF AppendToolResult
  <2>2. <<r>> = Append(<<>>, r)
    BY EmptySequence, AppendSequence, OneSequence, ConcatEmpty
  <2>3. \A k \in 1..Len(<<>>) : FALSE
    BY EmptySequence
  <2>4. MarkedIn(<<>>) = <<>>
    BY <2>3, EmptySequence, MarkedNone
  <2>5. WellFormed(Parts(<<r>>)) /\ MarkedIn(<<r>>) = <<>>
    <3>1. \A k \in 1..Len(<<>>) : IsSequence(SaidBy(<<>>[k]))
      BY ONLY <2>3
    <3>2. WellFormed(Parts(Append(<<>>, r))) /\ MarkedIn(Append(<<>>, r)) = MarkedIn(<<>>)
      BY <3>1, EmptySequence, ResultsFormed
    <3> QED BY <2>2, <2>4, <3>2, Zenon
  <2>6. m.role = "user" /\ m.content = Parts(<<r>>) /\ m.calls = <<>>
        /\ m = [role |-> m.role, content |-> m.content, calls |-> m.calls, id |-> m.id, name |-> m.name]
    BY DEF Message
  <2> HIDE DEF m, r
  <2>7. Shaped(m)
    BY <2>5, <2>6, EmptySequence DEF Shaped
  <2>8. PartsOf(m.content) = <<r>>
    BY <2>6 DEF PartsOf, Parts
  <2>9. Out(Append(out, m)) /\ MarksOf(Append(out, m)) = MarksOf(out) \o <<>>
    <3>1. MarksIn(m) = <<>>
      BY <2>5, <2>6, <2>8, OneSequence, MarksInIs
    <3> QED BY <2>6, <2>7, <3>1, OutAppend
  <2>10. MarksOf(out) \o <<>> = MarksOf(out)
    BY AllShapedParts, MarksOfIs, ConcatEmpty DEF Out
  <2> QED BY <2>1, <2>9, <2>10 DEF r
<1> QED BY <1>2, <1>3

(* One call of ConvertMessage puts out the marks of its message, and no     *)
(* others.                                                                  *)
LEMMA MessageConverted ==
  ASSUME NEW st, Running(st), NEW m, Shaped(m)
  PROVE  /\ Running(ConvertMessage(st, m))
         /\ MarksOf(ConvertMessage(st, m).out) = MarksOf(st.out) \o MarksIn(m)
<1>0. st = [out |-> st.out, pending |-> st.pending, known |-> st.known] /\ Out(st.out)
  BY DEF Running
<1>1. CASE m.role = "assistant" /\ m.calls # <<>>
  <2>1. ConvertMessage(st, m).out = Append(st.out, AssistantWithToolUse(m))
    BY <1>1 DEF ConvertMessage
  <2>2. ConvertMessage(st, m) = [out |-> ConvertMessage(st, m).out, pending |-> ConvertMessage(st, m).pending,
                                 known |-> ConvertMessage(st, m).known]
    BY <1>1 DEF ConvertMessage
  <2>3. /\ Out(Append(st.out, AssistantWithToolUse(m)))
        /\ MarksOf(Append(st.out, AssistantWithToolUse(m))) = MarksOf(st.out) \o MarksIn(m)
    BY <1>0, <1>1, TurnKept, OutAppend
  <2> QED BY <2>1, <2>2, <2>3 DEF Running
<1>2. CASE m.role \in {"tool", "function"}
  <2> DEFINE consumed == Consumed(st, m)
             id == AnsweredId(st, m)
             block == ToolResult(id, ToolResultContent(m.content))
  <2>1. consumed = [out |-> st.out, pending |-> consumed.pending, known |-> st.known]
    BY <1>0 DEF Consumed
  <2>2. MarksIn(m) = <<>> /\ MarksOf(st.out) \o <<>> = MarksOf(st.out)
    BY <1>0, <1>2, ShapedFacts, AllShapedParts, MarksInIs, MarksOfIs, ConcatEmpty DEF Out
  <2>3. ConvertMessage(st, m) = IF id \notin st.known THEN consumed
                                ELSE [consumed EXCEPT !.out = AppendToolResult(@, block)]
    BY <1>2 DEF ConvertMessage
  <2> HIDE DEF consumed
  <2>4. consumed.out = st.out
    BY <2>1
  <2>5. IsSequence(TextOf(ToolResultContent(m.content)))
    BY ShapedFacts, TextFormed, ResultTextKept
  <2>6. Out(AppendToolResult(st.out, block)) /\ MarksOf(AppendToolResult(st.out, block)) = MarksOf(st.out)
    BY <1>0, <2>5, ResultAppended
  <2> HIDE DEF block, id
  <2>7. CASE id \notin st.known
    <3>1. ConvertMessage(st, m) = consumed
      BY <2>3, <2>7
    <3>2. Running(consumed)
      BY <1>0, <2>1, <2>4 DEF Running
    <3> QED BY <2>2, <2>4, <3>1, <3>2
  <2>8. CASE id \in st.known
    <3>1. ConvertMessage(st, m) = [out |-> AppendToolResult(st.out, block), pending |-> consumed.pending, known |-> st.known]
      BY <2>1, <2>3, <2>8
    <3> HIDE DEF consumed
    <3>2. /\ ConvertMessage(st, m).out = AppendToolResult(st.out, block)
          /\ ConvertMessage(st, m) = [out |-> ConvertMessage(st, m).out, pending |-> ConvertMessage(st, m).pending,
                                      known |-> ConvertMessage(st, m).known]
      BY <3>1
    <3> QED BY <2>2, <2>6, <3>2 DEF Running
  <2> QED BY <2>7, <2>8
<1>3. CASE ~(m.role = "assistant" /\ m.calls # <<>>) /\ m.role \notin {"tool", "function"}
  <2>1. ConvertMessage(st, m) = [st EXCEPT !.out = Append(@, m)]
    BY <1>3 DEF ConvertMessage
  <2>2. ConvertMessage(st, m) = [out |-> Append(st.out, m), pending |-> st.pending, known |-> st.known]
    BY <1>0, <2>1
  <2>3. /\ Out(Append(st.out, m))
        /\ MarksOf(Append(st.out, m)) = MarksOf(st.out) \o MarksIn(m)
    BY <1>0, <1>3, OutAppend
  <2>4. /\ ConvertMessage(st, m).out = Append(st.out, m)
        /\ ConvertMessage(st, m) = [out |-> ConvertMessage(st, m).out, pending |-> ConvertMessage(st, m).pending,
                                    known |-> ConvertMessage(st, m).known]
    BY <2>2
  <2> QED BY <2>3, <2>4 DEF Running
<1> QED BY <1>1, <1>2, <1>3

(* The conversion keeps the marks of a conversation.                        *)
LEMMA FirstShaped ==
  ASSUME NEW ms, AllShaped(ms), NEW n \in 0..Len(ms)
  PROVE  AllShaped(First(ms, n)) /\ Len(First(ms, n)) = n
<1>1. Len(ms) \in Nat
  BY DEF AllShaped, IsSequence
<1>2. IsSequence(First(ms, n)) /\ Len(First(ms, n)) = n
  BY FirstFacts DEF AllShaped
<1>3. \A k \in 1..n : First(ms, n)[k] = ms[k] /\ k \in 1..Len(ms)
  BY <1>1 DEF First
<1> QED BY <1>2, <1>3 DEF AllShaped

(* The marks of a converted conversation are its marks, in order.           *)
LEMMA ConversionKeeps ==
  ASSUME NEW ms, AllShaped(ms)
  PROVE  Out(Converted(ms).out) /\ MarksOf(Converted(ms).out) = MarksOf(ms)
<1> DEFINE MarksKept(ns) == Running(Converted(ns)) /\ MarksOf(Converted(ns).out) = MarksOf(ns)
           S == {n \in Nat : MarksKept(First(ms, n))}
<1>0. IsSequence(ms) /\ Len(ms) \in Nat
  BY DEF AllShaped, IsSequence
<1>1. 0 \in S
  <2>1. First(ms, 0) = <<>> /\ Converted(<<>>) = Unconverted
    BY <1>0, FirstFacts, ConvertedStep
  <2>2. Unconverted.out = <<>>
        /\ Unconverted = [out |-> Unconverted.out, pending |-> Unconverted.pending, known |-> Unconverted.known]
    BY DEF Unconverted
  <2>3. \A k \in 1..Len(<<>>) : FALSE
    BY EmptySequence
  <2>4. Out(<<>>)
    BY <2>3, EmptySequence DEF Out, AllShaped
  <2>5. Running(Unconverted)
    BY <2>2, <2>4 DEF Running
  <2>6. MarksKept(<<>>)
    BY <2>1, <2>2, <2>5
  <2> QED BY <2>1, <2>6
<1>2. ASSUME NEW n \in Nat, n + 1 <= Len(ms), n \in S PROVE n + 1 \in S
  <2> DEFINE ns == First(ms, n)
             m == ms[n + 1]
  <2>1. n \in 0..Len(ms) /\ n + 1 \in 1..Len(ms)
    BY <1>0, <1>2
  <2>2. First(ms, n + 1) = Append(ns, m)
    BY <1>0, <1>2, FirstFacts
  <2>3. AllShaped(ns) /\ Shaped(m)
    BY <2>1, FirstShaped DEF AllShaped
  <2>4. Running(Converted(ns)) /\ MarksOf(Converted(ns).out) = MarksOf(ns)
    BY <1>2
  <2> HIDE DEF ns, m
  <2>5. Converted(Append(ns, m)) = ConvertMessage(Converted(ns), m)
    BY <2>3, ConvertedStep DEF AllShaped
  <2>6. /\ Running(Converted(Append(ns, m)))
        /\ MarksOf(Converted(Append(ns, m)).out) = MarksOf(Converted(ns).out) \o MarksIn(m)
    BY <2>3, <2>4, <2>5, MessageConverted
  <2>7. MarksOf(Append(ns, m)) = MarksOf(ns) \o MarksIn(m)
    BY <2>3, AllShapedParts, ShapedFacts, MarksOfAppend
  <2>8. MarksKept(Append(ns, m))
    BY <2>4, <2>6, <2>7
  <2> HIDE DEF MarksKept
  <2>9. MarksKept(First(ms, n + 1))
    BY ONLY <2>2, <2>8, Zenon
  <2> QED BY <2>9
<1> HIDE DEF S
<1>3. Len(ms) \in S
  BY <1>0, <1>1, <1>2, GrowInduction
<1>4. MarksKept(ms)
  BY <1>0, <1>3, FirstFacts DEF S
<1> QED BY <1>4 DEF Running

(* Promoting the instructions keeps the marks of the other messages.        *)
Silenced(ms) == Apply(LAMBDA m : Message(m.role, m.content), Select(ms, LAMBDA m : ~Instructs(m)))

(* Taking the instructions out takes no mark out.                           *)
LEMMA InstructionsUnmarked ==
  ASSUME NEW ms, AllShaped(ms)
  PROVE  AllShaped(Silenced(ms)) /\ MarksOf(Silenced(ms)) = MarksOf(ms)
<1> DEFINE S == {m \in Range(ms) : ~Instructs(m)}
           f == [m \in Range(ms) |-> Message(m.role, m.content)]
           g == [m \in Range(ms) |-> MarksIn(m)]
           picked == Pick(ms, S)
           ns == Silenced(ms)
<1>0. IsSequence(ms) /\ DOMAIN ms = 1..Len(ms) /\ Len(ms) \in Nat
  BY SequenceFacts DEF AllShaped
<1>1. \A k \in 1..Len(ms) : ms[k] \in S <=> ~Instructs(ms[k])
  BY <1>0, InRange
<1>2. \A m \in Range(ms) : Shaped(m)
  BY <1>0 DEF Range, AllShaped
<1>3. Select(ms, LAMBDA m : ~Instructs(m)) = picked
  <2>1. [k \in 1..Len(ms) |-> IF ~Instructs(ms[k]) THEN <<ms[k]>> ELSE <<>>]
          = [k \in 1..Len(ms) |-> IF ms[k] \in S THEN <<ms[k]>> ELSE <<>>]
    BY <1>1
  <2> QED BY <1>0, <2>1 DEF Select, Pick
<1>4. IsSequence(picked) /\ \A k \in 1..Len(picked) : picked[k] \in Range(ms) \cap S
  BY <1>0, PickedFrom, PickFacts
<1>5. DOMAIN picked = 1..Len(picked)
  BY <1>4, SequenceFacts
<1>6. ns = Map(f, picked)
  BY <1>3, <1>4, <1>5 DEF Silenced, Apply, Map
<1>7. \A m \in Range(ms) : f[m] = Message(m.role, m.content) /\ g[m] = MarksIn(m)
  OBVIOUS
<1>8. \A m \in Range(ms) : IsSequence(g[m]) /\ (Instructs(m) => g[m] = <<>>)
  BY <1>2, <1>7, ShapedFacts, MarksInIs DEF Instructs
<1>9. \A m \in S : Shaped(Message(m.role, m.content))
  <2>1. \A role, content : /\ Message(role, content).role = role /\ Message(role, content).content = content
                           /\ Message(role, content).calls = <<>> /\ Message(role, content).id = ""
                           /\ Message(role, content).name = ""
                           /\ Message(role, content) = [role |-> role, content |-> content, calls |-> <<>>, id |-> "", name |-> ""]
    BY DEF Message
  <2>2. \A m \in S : Shaped(m)
    BY <1>2
  <2> QED BY <2>1, <2>2, EmptySequence DEF Shaped
<1> HIDE DEF f, g, S, picked, ns
<1>10. /\ IsSequence(ns) /\ Len(ns) = Len(picked)
       /\ \A k \in 1..Len(ns) : ns[k] = Message(picked[k].role, picked[k].content)
  BY <1>4, <1>6, <1>7, MapSequence
<1>11. AllShaped(ns)
  BY <1>4, <1>9, <1>10 DEF AllShaped
<1>12. \A k \in 1..Len(ns) : MarksIn(ns[k]) = g[picked[k]]
  <2>1. \A role, content : Message(role, content).role = role /\ Message(role, content).content = content
    BY DEF Message
  <2>2. \A m \in Range(ms) : MarksIn(Message(m.role, m.content)) = MarksIn(m)
    BY <2>1 DEF MarksIn
  <2> QED BY <1>4, <1>7, <1>10, <2>2
<1>13. [k \in 1..Len(ns) |-> MarksIn(ns[k])] = Map(g, picked)
  BY <1>5, <1>10, <1>12 DEF Map
<1>14. MarksOf(ns) = FlattenSeq(Map(g, picked))
  BY <1>11, <1>13, AllShapedParts, MarksOfIs
<1>15. FlattenSeq(Map(g, picked)) = FlattenSeq([k \in 1..Len(ms) |-> IF ms[k] \in S THEN g[ms[k]] ELSE <<>>])
  <2>1. \A k \in 1..Len(ms) : ms[k] \in S => IsSequence(g[ms[k]])
    BY <1>0, <1>8, InRange
  <2> QED BY <1>0, <2>1, FlatPick DEF picked
<1>16. [k \in 1..Len(ms) |-> IF ms[k] \in S THEN g[ms[k]] ELSE <<>>]
         = [k \in 1..Len(ms) |-> MarksIn(ms[k])]
  BY <1>0, <1>1, <1>7, <1>8, InRange
<1>17. MarksOf(ms) = FlattenSeq([k \in 1..Len(ms) |-> MarksIn(ms[k])])
  BY AllShapedParts, MarksOfIs
<1> QED BY <1>11, <1>14, <1>15, <1>16, <1>17 DEF ns

(* Images have no marks.                                                    *)
LEMMA ImagesUnmarked ==
  ASSUME NEW m, Shaped(m)
  PROVE  /\ IsSequence(PartsOf(ConvertImageParts(m).content))
         /\ MarksIn(ConvertImageParts(m)) = MarksIn(m)
<1>1. CASE m.content.form # "array"
  BY <1>1, ShapedFacts DEF ConvertImageParts
<1>2. CASE m.content.form = "array"
  <2> DEFINE s == m.content.parts
             S == {p \in Range(s) : p.type = "image_url" => p.url = "data"}
             f == [p \in Range(s) |-> Anthropic(p)]
             g == [p \in Range(s) |-> OneMark(Anthropic(p))]
             picked == Pick(s, S)
             t == Apply(Anthropic, Select(s, LAMBDA p : p.type = "image_url" => p.url = "data"))
  <2>0. IsSequence(s) /\ DOMAIN s = 1..Len(s) /\ PartsOf(m.content) = s /\ m.content = Parts(s)
    BY <1>2, ShapedFacts, WellFormedFacts, SequenceFacts DEF PartsOf
  <2>1. \A k \in 1..Len(s) : s[k] \in S <=> (s[k].type = "image_url" => s[k].url = "data")
    BY <2>0, InRange
  <2>2. Select(s, LAMBDA p : p.type = "image_url" => p.url = "data") = picked
    <3>1. [k \in 1..Len(s) |-> IF s[k].type = "image_url" => s[k].url = "data" THEN <<s[k]>> ELSE <<>>]
            = [k \in 1..Len(s) |-> IF s[k] \in S THEN <<s[k]>> ELSE <<>>]
      BY <2>1
    <3> QED BY <2>0, <3>1 DEF Select, Pick
  <2>3. IsSequence(picked) /\ \A k \in 1..Len(picked) : picked[k] \in Range(s) \cap S
    BY <2>0, PickedFrom, PickFacts
  <2>4. DOMAIN picked = 1..Len(picked)
    BY <2>3, SequenceFacts
  <2>5. t = Map(f, picked)
    BY <2>2, <2>3, <2>4 DEF Apply, Map
  <2>6. \A p \in Range(s) : f[p] = Anthropic(p) /\ g[p] = OneMark(Anthropic(p))
    OBVIOUS
  <2>7. \A p : OneMark(Anthropic(p)) = OneMark(p)
    BY DEF OneMark, Anthropic, Image
  <2>8. \A p \in Range(s) : p \notin S => OneMark(p) = <<>>
    BY DEF OneMark
  <2>9. ConvertImageParts(m).content = Parts(t) /\ ConvertImageParts(m).role = m.role
    <3>1. ConvertImageParts(m) = [m EXCEPT !.content.parts = t]
      BY <1>2 DEF ConvertImageParts
    <3>2. ConvertImageParts(m) = [m EXCEPT !.content = [m.content EXCEPT !.parts = t]]
      BY <3>1
    <3>3. m = [role |-> m.role, content |-> m.content, calls |-> m.calls, id |-> m.id, name |-> m.name]
      BY DEF Shaped
    <3> HIDE DEF t, s
    <3>4. ConvertImageParts(m).content = [m.content EXCEPT !.parts = t] /\ ConvertImageParts(m).role = m.role
      BY <3>2, <3>3
    <3> QED BY <2>0, <3>4 DEF Parts
  <2> HIDE DEF f, g, S, picked, t
  <2>10. IsSequence(t) /\ Len(t) = Len(picked) /\ \A k \in 1..Len(t) : t[k] = Anthropic(picked[k])
    BY <2>3, <2>5, <2>6, MapSequence
  <2>11. [k \in 1..Len(t) |-> OneMark(t[k])] = Map(g, picked)
    BY <2>3, <2>4, <2>6, <2>10 DEF Map
  <2>12. MarkedIn(t) = FlattenSeq(Map(g, picked))
    BY <2>10, <2>11, MarkedInIs
  <2>13. FlattenSeq(Map(g, picked)) = FlattenSeq([k \in 1..Len(s) |-> IF s[k] \in S THEN g[s[k]] ELSE <<>>])
    <3>1. \A k \in 1..Len(s) : s[k] \in S => IsSequence(g[s[k]])
      BY <2>0, <2>6, InRange, OneMarkIs
    <3> QED BY <2>0, <3>1, FlatPick DEF picked
  <2>14. [k \in 1..Len(s) |-> IF s[k] \in S THEN g[s[k]] ELSE <<>>] = [k \in 1..Len(s) |-> OneMark(s[k])]
    BY <2>0, <2>6, <2>7, <2>8, InRange
  <2>15. MarkedIn(s) = FlattenSeq([k \in 1..Len(s) |-> OneMark(s[k])])
    BY <2>0, MarkedInIs
  <2>16. PartsOf(ConvertImageParts(m).content) = t
    BY <2>9 DEF Parts, PartsOf
  <2>17. MarkedIn(t) = MarkedIn(s)
    BY <2>12, <2>13, <2>14, <2>15
  <2> QED BY <2>0, <2>9, <2>10, <2>16, <2>17, MarksInIs
<1> QED BY <1>1, <1>2

(* The same of all the messages.                                            *)
LEMMA ImagesKeepMarks ==
  ASSUME NEW ms, AllShaped(ms)
  PROVE  /\ IsSequence(Apply(ConvertImageParts, ms)) /\ MarksOf(Apply(ConvertImageParts, ms)) = MarksOf(ms)
         /\ \A k \in 1..Len(Apply(ConvertImageParts, ms)) :
              IsSequence(PartsOf(Apply(ConvertImageParts, ms)[k].content))
<1> DEFINE ns == Apply(ConvertImageParts, ms)
<1>1. IsSequence(ms) /\ DOMAIN ms = 1..Len(ms) /\ Len(ms) \in Nat
  BY SequenceFacts DEF AllShaped
<1>2. ns = [k \in 1..Len(ms) |-> ConvertImageParts(ms[k])]
  BY <1>1 DEF Apply
<1>3. IsSequence(ns) /\ Len(ns) = Len(ms) /\ \A k \in 1..Len(ms) : ns[k] = ConvertImageParts(ms[k])
  BY <1>1, <1>2, FunctionSequence
<1> HIDE DEF ns
<1>4. \A k \in 1..Len(ns) : /\ IsSequence(PartsOf(ns[k].content))
                            /\ MarksIn(ns[k]) = MarksIn(ms[k])
  BY <1>3, ImagesUnmarked DEF AllShaped
<1>5. [k \in 1..Len(ns) |-> MarksIn(ns[k])] = [k \in 1..Len(ms) |-> MarksIn(ms[k])]
  BY <1>3, <1>4
<1>6. MarksOf(ns) = MarksOf(ms)
  BY <1>3, <1>4, <1>5, AllShapedParts, MarksOfIs
<1> QED BY <1>3, <1>4, <1>6 DEF ns

(* The system field of a request: text blocks, or no array at all.          *)
TextBlocks(sys) ==
  sys.form = "array" =>
    /\ sys = Parts(sys.parts) /\ IsSequence(sys.parts)
    /\ \A k \in 1..Len(sys.parts) : sys.parts[k].type = "text"

(* The instructions of a conversation are a sequence.                       *)
LEMMA SystemTextsAre ==
  ASSUME NEW ms, AllShaped(ms)
  PROVE  IsSequence(SystemTexts(ms))
<1> DEFINE picked == Select(ms, Instructs)
           ts == Apply(LAMBDA m : TextOf(m.content), picked)
           S == {m \in Range(ms) : Instructs(m)}
           T == {t \in Range(ts) : t # <<>>}
<1>0. IsSequence(ms) /\ DOMAIN ms = 1..Len(ms)
  BY SequenceFacts DEF AllShaped
<1>1. picked = Pick(ms, S)
  <2>1. [k \in 1..Len(ms) |-> IF Instructs(ms[k]) THEN <<ms[k]>> ELSE <<>>]
          = [k \in 1..Len(ms) |-> IF ms[k] \in S THEN <<ms[k]>> ELSE <<>>]
    BY <1>0, InRange
  <2> QED BY <1>0, <2>1 DEF Select, Pick
<1>2. IsSequence(picked)
  BY <1>0, <1>1, PickFacts
<1> HIDE DEF picked
<1>3. IsSequence(ts) /\ DOMAIN ts = 1..Len(ts)
  <2>1. DOMAIN picked = 1..Len(picked) /\ Len(picked) \in Nat
    BY <1>2, SequenceFacts
  <2>2. ts = [k \in 1..Len(picked) |-> TextOf(picked[k].content)]
    BY <2>1 DEF Apply
  <2> QED BY <2>1, <2>2, FunctionSequence, SequenceFacts
<1>4. SystemTexts(ms) = Select(ts, LAMBDA t : t # <<>>)
  BY DEF SystemTexts, picked
<1> HIDE DEF ts
<1>5. Select(ts, LAMBDA t : t # <<>>) = Pick(ts, T)
  <2>1. [k \in 1..Len(ts) |-> IF ts[k] # <<>> THEN <<ts[k]>> ELSE <<>>]
          = [k \in 1..Len(ts) |-> IF ts[k] \in T THEN <<ts[k]>> ELSE <<>>]
    BY <1>3, InRange
  <2> QED BY <1>3, <2>1 DEF Select, Pick
<1> QED BY <1>3, <1>4, <1>5, PickFacts

(* Promoted texts go behind the blocks of the client, which stay blocks     *)
(* when one of them is marked.                                              *)
LEMMA SystemKept ==
  ASSUME NEW sys, TextBlocks(sys), NEW texts, IsSequence(texts), NEW new,
         new = sys \/ new = AppendSystemText(sys, texts)
  PROVE  /\ Marked(PartsOf(sys)) => IsPrefix(sys.parts, PartsOf(FlattenSystem(new)))
         /\ Marked(PartsOf(FlattenSystem(new))) <=> Marked(PartsOf(sys))
<1>0. \A t : PartsOf(Str(t)) = <<>> /\ Str(t).form = "string"
  BY DEF PartsOf, Str
<1>1. ~Marked(<<>>)
  <2>1. DOMAIN <<>> = 1..0
    BY EmptySequence, SequenceFacts
  <2>2. \A k \in 1..0 : FALSE
    OBVIOUS
  <2> QED BY <2>1, <2>2 DEF Marked
<1>2. CASE sys.form # "array"
  <2>1. PartsOf(sys) = <<>>
    BY <1>2 DEF PartsOf
  <2>2. new.form # "array"
    BY <1>0, <1>2 DEF AppendSystemText
  <2>3. PartsOf(FlattenSystem(new)) = <<>>
    BY <2>2 DEF FlattenSystem, PartsOf
  <2> QED BY <1>1, <2>1, <2>3
<1>3. CASE sys.form = "array"
  <2> DEFINE s == sys.parts
             added == Apply(Text, texts)
  <2>1. sys = Parts(s) /\ IsSequence(s) /\ PartsOf(sys) = s /\ DOMAIN s = 1..Len(s) /\ Len(s) \in Nat
        /\ \A k \in 1..Len(s) : s[k].type = "text"
    BY <1>3, SequenceFacts DEF TextBlocks, PartsOf
  <2>2. IsSequence(added) /\ \A k \in 1..Len(added) : added[k].type = "text" /\ ~added[k].marked
    <3>1. added = [k \in 1..Len(texts) |-> Text(texts[k])] /\ Len(texts) \in Nat
      BY SequenceFacts DEF Apply
    <3>2. IsSequence(added) /\ Len(added) = Len(texts) /\ \A k \in 1..Len(texts) : added[k] = Text(texts[k])
      BY <3>1, FunctionSequence
    <3>3. \A t : Text(t).type = "text" /\ Text(t).marked = FALSE
      BY DEF Text
    <3> HIDE DEF added
    <3>4. \A k \in 1..Len(added) : added[k] = Text(texts[k])
      BY <3>2
    <3>5. \A k \in 1..Len(added) : added[k].type = "text" /\ added[k].marked = FALSE
      BY <3>3, <3>4
    <3> QED BY <3>2, <3>5
  <2> HIDE DEF added, s
  <2>3. PICK all : /\ new = Parts(all) /\ IsSequence(all) /\ Len(s) <= Len(all)
                   /\ \A k \in 1..Len(s) : all[k] = s[k]
                   /\ \A k \in 1..Len(all) : k \in 1..Len(s) \/ ~all[k].marked
    <3>1. CASE new = sys
      BY <2>1, <3>1
    <3>2. CASE new = AppendSystemText(sys, texts)
      <4>1. new = Parts(s \o added)
        BY <1>3, <3>2 DEF AppendSystemText, s, added
      <4>2. /\ IsSequence(s \o added) /\ Len(s \o added) = Len(s) + Len(added) /\ Len(added) \in Nat
            /\ \A k \in 1..Len(s) : (s \o added)[k] = s[k]
        BY <2>1, <2>2, ConcatSequences, SequenceFacts
      <4>3. ASSUME NEW k \in 1..Len(s \o added) PROVE k \in 1..Len(s) \/ ~(s \o added)[k].marked
        <5>1. \/ k \in 1..Len(s) /\ (s \o added)[k] = s[k]
              \/ k - Len(s) \in 1..Len(added) /\ (s \o added)[k] = added[k - Len(s)]
          BY <2>1, <2>2, ConcatPlaces
        <5> QED BY <2>2, <5>1
      <4>4. Len(s) <= Len(s \o added)
        BY <2>1, <4>2
      <4> QED BY <4>1, <4>2, <4>3, <4>4
    <3> QED BY <3>1, <3>2
  <2>4. new.form = "array" /\ new.parts = all /\ PartsOf(new) = all /\ DOMAIN all = 1..Len(all) /\ Len(all) \in Nat
    BY <2>3, SequenceFacts DEF Parts, PartsOf
  <2>5. Marked(s) <=> \E k \in 1..Len(s) : s[k].marked
    BY <2>1 DEF Marked
  <2>6. (\E k \in DOMAIN all : all[k].marked) <=> Marked(s)
    <3>1. ASSUME NEW k \in 1..Len(s), s[k].marked PROVE k \in DOMAIN all /\ all[k].marked
      BY <2>1, <2>3, <2>4, <3>1
    <3>2. ASSUME NEW k \in DOMAIN all, all[k].marked PROVE k \in 1..Len(s) /\ s[k].marked
      BY <2>3, <2>4, <3>2
    <3> QED BY <2>5, <3>1, <3>2
  <2>7. Marked(all) <=> Marked(s)
    <3>1. ASSUME NEW k \in 1..Len(s), s[k].marked PROVE k \in DOMAIN all /\ all[k].marked /\ all[k].type = "text"
      BY <2>1, <2>3, <2>4, <3>1
    <3> QED BY <2>5, <2>6, <3>1 DEF Marked
  <2>8. CASE Marked(s)
    <3>1. FlattenSystem(new) = new
      BY <2>4, <2>6, <2>8 DEF FlattenSystem
    <3>2. IsPrefix(s, all)
      <4>1. s = SubSeq(s, 1, Len(s)) /\ s = SubSeq(all, 1, Len(s))
        <5>1. SubSeq(s, 1, Len(s)) = [k \in 1..Len(s) |-> s[k]]
          BY <2>1
        <5>2. SubSeq(all, 1, Len(s)) = [k \in 1..Len(s) |-> all[k]]
          BY <2>1
        <5>3. [k \in 1..Len(s) |-> all[k]] = [k \in 1..Len(s) |-> s[k]]
          BY <2>3
        <5> QED BY <2>1, <5>1, <5>2, <5>3 DEF IsSequence
      <4> QED BY <2>3, <4>1 DEF IsPrefix
    <3> QED BY <2>1, <2>4, <2>7, <2>8, <3>1, <3>2 DEF s
  <2>9. CASE ~Marked(s)
    <3>1. FlattenSystem(new) = new \/ FlattenSystem(new) = Str(Joined(all))
      BY <2>4 DEF FlattenSystem
    <3> QED BY <1>0, <1>1, <2>1, <2>4, <2>7, <2>9, <3>1
  <2> QED BY <2>8, <2>9
<1> QED BY <1>2, <1>3

(* The bridge behind the conversion of the messages: promotion, images,     *)
(* the system field, and the marker of the last tool.                       *)
HasField(body) == body = [x \in DOMAIN body |-> body[x]] /\ {"messages", "system", "tools"} \subseteq DOMAIN body
Imaged(body) ==
  [ConvertImagePartsToAnthropic(PromoteSystemMessages(body)) EXCEPT !.system = FlattenSystem(@)]

(* What the bridge does before the marker of the last tool keeps every      *)
(* mark.                                                                    *)
LEMMA ImagedIs ==
  ASSUME NEW body, HasField(body), AllShaped(body.messages), TextBlocks(body.system)
  PROVE  /\ HasField(Imaged(body)) /\ Imaged(body).tools = body.tools
         /\ MarksOf(Imaged(body).messages) = MarksOf(body.messages)
         /\ IsSequence(Imaged(body).messages)
         /\ \A k \in 1..Len(Imaged(body).messages) : IsSequence(PartsOf(Imaged(body).messages[k].content))
         /\ Marked(PartsOf(body.system)) => IsPrefix(body.system.parts, PartsOf(Imaged(body).system))
         /\ Marked(PartsOf(Imaged(body).system)) <=> Marked(PartsOf(body.system))
<1> DEFINE texts == SystemTexts(body.messages)
           promoted == PromoteSystemMessages(body)
           ms == promoted.messages
           new == promoted.system
<1>1. IsSequence(texts)
  BY SystemTextsAre
<1>2. /\ HasField(promoted) /\ promoted.tools = body.tools
      /\ new = body.system \/ new = AppendSystemText(body.system, texts)
      /\ ms = body.messages \/ ms = Silenced(body.messages)
  <2>1. CASE texts = <<>>
    <3>1. promoted = body
      BY <2>1 DEF PromoteSystemMessages
    <3> QED BY <3>1
  <2>2. CASE texts # <<>>
    <3>1. promoted = [body EXCEPT !.system = AppendSystemText(@, texts), !.messages = Silenced(@)]
      BY <2>2 DEF PromoteSystemMessages, Silenced
    <3> HIDE DEF promoted, texts
    <3> QED BY <3>1 DEF HasField
  <2> QED BY <2>1, <2>2
<1>3. AllShaped(ms) /\ MarksOf(ms) = MarksOf(body.messages)
  BY <1>2, InstructionsUnmarked
<1>4. Imaged(body) = [[promoted EXCEPT !.messages = Apply(ConvertImageParts, @)] EXCEPT !.system = FlattenSystem(@)]
  BY DEF Imaged, ConvertImagePartsToAnthropic
<1> HIDE DEF promoted
<1>5. /\ HasField(Imaged(body)) /\ Imaged(body).tools = promoted.tools
      /\ Imaged(body).messages = Apply(ConvertImageParts, ms)
      /\ Imaged(body).system = FlattenSystem(new)
  BY <1>2, <1>4 DEF HasField
<1> HIDE DEF ms, new, texts
<1>6. /\ IsSequence(Apply(ConvertImageParts, ms)) /\ MarksOf(Apply(ConvertImageParts, ms)) = MarksOf(ms)
      /\ \A k \in 1..Len(Apply(ConvertImageParts, ms)) :
           IsSequence(PartsOf(Apply(ConvertImageParts, ms)[k].content))
  BY <1>3, ImagesKeepMarks
<1>7. /\ Marked(PartsOf(body.system)) => IsPrefix(body.system.parts, PartsOf(FlattenSystem(new)))
      /\ Marked(PartsOf(FlattenSystem(new))) <=> Marked(PartsOf(body.system))
  BY <1>1, <1>2, SystemKept
<1> QED BY <1>2, <1>3, <1>5, <1>6, <1>7

(* A pair is a sequence.                                                    *)
LEMMA TwoSequence ==
  ASSUME NEW p, NEW q
  PROVE  IsSequence(<<p, q>>) /\ Len(<<p, q>>) = 2 /\ <<p, q>>[1] = p /\ <<p, q>>[2] = q
         /\ \A k \in 1..Len(<<p, q>>) : <<p, q>>[k] = p \/ <<p, q>>[k] = q
<1>1. Len(<<p, q>>) = 2 /\ <<p, q>>[1] = p /\ <<p, q>>[2] = q
  OBVIOUS
<1>2. \A k \in 1..2 : k = 1 \/ k = 2
  OBVIOUS
<1>3. <<p, q>> = [k \in 1..2 |-> <<p, q>>[k]]
  OBVIOUS
<1> QED BY <1>1, <1>2, <1>3 DEF IsSequence

(* Tool declarations: none at all, or an array of them.                     *)
IsTool(x) == x = [shape |-> x.shape, name |-> x.name, marked |-> x.marked]
ToolsFormed(t) ==
  \/ t = Null
  \/ t = Parts(t.parts) /\ IsSequence(t.parts) /\ \A k \in 1..Len(t.parts) : IsTool(t.parts[k])

(* One declaration, or two, are declarations.                               *)
LEMMA FewTools ==
  /\ ToolsFormed(Null) /\ ToolsFormed(Parts(<<>>)) /\ \A x : IsTool(x) => ToolsFormed(Parts(<<x>>))
  /\ \A x, y : IsTool(x) /\ IsTool(y) => ToolsFormed(Parts(<<x, y>>))
<1>1. ASSUME NEW q, IsSequence(q), \A k \in 1..Len(q) : IsTool(q[k]) PROVE ToolsFormed(Parts(q))
  <2>1. Parts(q).parts = q
    BY DEF Parts
  <2> QED BY <1>1, <2>1 DEF ToolsFormed
<1>2. \A k \in 1..Len(<<>>) : IsTool(<<>>[k])
  BY EmptySequence
<1>3. ToolsFormed(Null)
  BY DEF ToolsFormed
<1>4. ASSUME NEW x, IsTool(x) PROVE ToolsFormed(Parts(<<x>>))
  <2>1. \A k \in 1..1 : k = 1
    OBVIOUS
  <2>2. IsSequence(<<x>>) /\ \A k \in 1..Len(<<x>>) : <<x>>[k] = x
    BY <2>1, OneSequence
  <2> QED BY <1>1, <1>4, <2>2
<1>5. ASSUME NEW x, NEW y, IsTool(x), IsTool(y) PROVE ToolsFormed(Parts(<<x, y>>))
  <2>1. IsSequence(<<x, y>>) /\ \A k \in 1..Len(<<x, y>>) : <<x, y>>[k] = x \/ <<x, y>>[k] = y
    BY TwoSequence
  <2> QED BY <1>1, <1>5, <2>1
<1> QED BY <1>1, <1>2, <1>3, <1>4, <1>5, EmptySequence

(* The tools of a client are declarations.                                  *)
LEMMA ToolFieldsAre ==
  /\ \A t \in ToolFields : ToolsFormed(t)
  /\ \A t \in Declared :
       /\ ToolsFormed(t)
       /\ t # Null => \A k \in 1..Len(t.parts) : t.parts[k].shape = "openai" /\ t.parts[k].name # ""
<1> DEFINE Declares(x) == IsTool(x) /\ x.shape = "openai" /\ x.name # ""
<1>1. \A shape, name : /\ IsTool(Tool(shape, name)) /\ IsTool(MarkTool(Tool(shape, name)))
                        /\ Tool(shape, name).shape = shape /\ Tool(shape, name).name = name
                        /\ MarkTool(Tool(shape, name)).shape = shape /\ MarkTool(Tool(shape, name)).name = name
  <2>1. ASSUME NEW shape, NEW name
        PROVE  /\ IsTool(Tool(shape, name)) /\ IsTool(MarkTool(Tool(shape, name)))
               /\ Tool(shape, name).shape = shape /\ Tool(shape, name).name = name
               /\ MarkTool(Tool(shape, name)).shape = shape /\ MarkTool(Tool(shape, name)).name = name
    <3>1. PICK x : x = Tool(shape, name)
      OBVIOUS
    <3>2. PICK y : y = MarkTool(x)
      OBVIOUS
    <3>3. x = [shape |-> shape, name |-> name, marked |-> FALSE] /\ y = [x EXCEPT !.marked = TRUE]
      BY <3>1, <3>2 DEF Tool, MarkTool
    <3>4. y = [shape |-> shape, name |-> name, marked |-> TRUE]
      BY ONLY <3>3
    <3>5. IsTool(x) /\ IsTool(y) /\ x.shape = shape /\ x.name = name /\ y.shape = shape /\ y.name = name
      BY ONLY <3>3, <3>4 DEF IsTool
    <3> QED BY <3>1, <3>2, <3>5, Zenon
  <2> QED BY ONLY <2>1, Zenon
<1>2. \A t \in ToolFields : ToolsFormed(t)
  <2>1. PICK x, y : x = PlainTool /\ y = MarkedTool
    OBVIOUS
  <2>2. IsTool(x) /\ IsTool(y)
    BY <1>1, <2>1 DEF PlainTool, MarkedTool
  <2>3. ToolFields = {Null, Parts(<<x>>), Parts(<<y, x>>)}
    BY <2>1 DEF ToolFields
  <2> QED BY ONLY <2>2, <2>3, FewTools
<1>3. \A f \in Functions : Declares(Tool("openai", f)) /\ Declares(MarkTool(Tool("openai", f)))
  BY <1>1, FunctionsAssumption
<1> HIDE DEF Declares
<1>4. ASSUME NEW t \in Declared, t # Null
      PROVE  \/ t = Parts(<<>>)
             \/ \E x : Declares(x) /\ t = Parts(<<x>>)
             \/ \E x, y : Declares(x) /\ Declares(y) /\ t = Parts(<<x, y>>)
  <2>1. \/ t = Parts(<<>>)
        \/ \E f \in Functions : t = Parts(<<Tool("openai", f)>>)
        \/ \E f, g \in Functions : t = Parts(<<Tool("openai", f), Tool("openai", g)>>)
        \/ \E f \in Functions : t = Parts(<<MarkTool(Tool("openai", f)), Tool("openai", f)>>)
    BY <1>4 DEF Declared
  <2> QED BY <1>3, <2>1
<1>5. \A x : Declares(x) => IsTool(x) /\ x.shape = "openai" /\ x.name # ""
  BY DEF Declares
<1>6. ASSUME NEW t \in Declared, t # Null
      PROVE  ToolsFormed(t) /\ \A k \in 1..Len(t.parts) : t.parts[k].shape = "openai" /\ t.parts[k].name # ""
  <2>0. \A q : Parts(q).parts = q
    BY DEF Parts
  <2>1. CASE t = Parts(<<>>)
    <3>1. \A k \in 1..Len(<<>>) : FALSE
      BY EmptySequence
    <3> QED BY <2>0, <2>1, <3>1, FewTools
  <2>2. ASSUME NEW x, Declares(x), t = Parts(<<x>>)
        PROVE  ToolsFormed(t) /\ \A k \in 1..Len(t.parts) : t.parts[k].shape = "openai" /\ t.parts[k].name # ""
    <3>1. \A k \in 1..1 : k = 1
      OBVIOUS
    <3>2. Len(<<x>>) = 1 /\ <<x>>[1] = x
      BY OneSequence
    <3>3. \A k \in 1..Len(<<x>>) : <<x>>[k] = x
      BY <3>1, <3>2
    <3>4. ToolsFormed(t) /\ t.parts = <<x>>
      BY <1>5, <2>0, <2>2, FewTools
    <3> QED BY <1>5, <2>2, <3>3, <3>4
  <2>3. ASSUME NEW x, NEW y, Declares(x), Declares(y), t = Parts(<<x, y>>)
        PROVE  ToolsFormed(t) /\ \A k \in 1..Len(t.parts) : t.parts[k].shape = "openai" /\ t.parts[k].name # ""
    <3>1. \A k \in 1..Len(<<x, y>>) : <<x, y>>[k] = x \/ <<x, y>>[k] = y
      BY TwoSequence
    <3>2. ToolsFormed(t) /\ t.parts = <<x, y>>
      BY <1>5, <2>0, <2>3, FewTools
    <3> QED BY <1>5, <2>3, <3>1, <3>2
  <2> QED BY <1>4, <1>6, <2>1, <2>2, <2>3
<1> QED BY <1>2, <1>6, FewTools

(* A body with the marker, and the body the bridge sends for what it        *)
(* converted.                                                               *)
MarkedBody(body, marked) == ApplyAnthropicToolCacheMarker(Imaged(body), TRUE, marked).body
BridgedBody(body, request) == MarkedBody(body, HasCacheControl(request))

(* The bridge keeps the breakpoints of a request that has any, and gives    *)
(* one to the last tool otherwise.                                          *)
LEMMA BreakpointsBridged ==
  ASSUME NEW body, HasField(body), AllShaped(body.messages), TextBlocks(body.system), ToolsFormed(body.tools),
         NEW marked \in BOOLEAN, NEW result, result = MarkedBody(body, marked)
  PROVE  /\ Marked(PartsOf(body.system)) => IsPrefix(body.system.parts, PartsOf(result.system))
         /\ MarksOf(result.messages) = MarksOf(body.messages)
         /\ Len(PartsOf(result.tools)) = Len(PartsOf(body.tools))
         /\ MarkedTools(PartsOf(result.tools)) =
              MarkedTools(PartsOf(body.tools)) \cup IF marked THEN {} ELSE {Len(PartsOf(body.tools))} \ {0}
<1> DEFINE i == Imaged(body)
           t == body.tools
           n == Len(t.parts)
<1>1. /\ HasField(i) /\ i.tools = t /\ MarksOf(i.messages) = MarksOf(body.messages)
      /\ Marked(PartsOf(body.system)) => IsPrefix(body.system.parts, PartsOf(i.system))
  BY ImagedIs
<1>2. \/ PartsOf(t) = <<>>
      \/ /\ t.form = "array" /\ PartsOf(t) = t.parts /\ t = Parts(t.parts) /\ IsSequence(t.parts)
         /\ n \in Nat \ {0} /\ DOMAIN t.parts = 1..n /\ IsTool(t.parts[n]) /\ t.parts # <<>>
  <2>1. CASE t = Null
    BY <2>1 DEF Null, PartsOf
  <2>2. CASE t = Parts(t.parts) /\ IsSequence(t.parts) /\ \A k \in 1..n : IsTool(t.parts[k])
    <3>1. t.form = "array" /\ PartsOf(t) = t.parts
      BY <2>2 DEF Parts, PartsOf
    <3>2. n \in Nat /\ DOMAIN t.parts = 1..n /\ (t.parts = <<>> <=> n = 0)
      BY <2>2, SequenceFacts, EmptySequence
    <3> QED BY <2>2, <3>1, <3>2
  <2> QED BY <2>1, <2>2 DEF ToolsFormed
<1>3. CASE marked \/ PartsOf(t) = <<>>
  <2>1. result = i
    BY <1>1, <1>3 DEF MarkedBody, ApplyAnthropicToolCacheMarker
  <2>2. PartsOf(t) = <<>> => Len(PartsOf(t)) = 0
    BY EmptySequence
  <2> HIDE DEF i, t
  <2>3. PartsOf(result.tools) = PartsOf(t)
    BY <1>1, <2>1
  <2>4. (IF marked THEN {} ELSE {Len(PartsOf(t))} \ {0}) = {}
    BY <1>3, <2>2
  <2> QED BY <1>1, <2>1, <2>3, <2>4 DEF t
<1>4. CASE ~marked /\ PartsOf(t) # <<>>
  <2> DEFINE w == [i EXCEPT !.tools.parts[Len(i.tools.parts)].marked = TRUE]
             tool == [t.parts[n] EXCEPT !.marked = TRUE]
             ts == [t.parts EXCEPT ![n] = tool]
  <2>1. result = w
    BY <1>1, <1>4 DEF MarkedBody, ApplyAnthropicToolCacheMarker
  <2>2. /\ t.form = "array" /\ PartsOf(t) = t.parts /\ t = Parts(t.parts) /\ IsSequence(t.parts)
        /\ n \in Nat \ {0} /\ DOMAIN t.parts = 1..n /\ IsTool(t.parts[n])
    BY <1>2, <1>4
  <2>3. w = [i EXCEPT !.tools = [i.tools EXCEPT !.parts =
              [i.tools.parts EXCEPT ![Len(i.tools.parts)] = [i.tools.parts[Len(i.tools.parts)] EXCEPT !.marked = TRUE]]]]
    OBVIOUS
  <2>4. w = [i EXCEPT !.tools = [t EXCEPT !.parts = ts]]
    BY <1>1, <2>3
  <2>5. tool.marked = TRUE
    BY <2>2 DEF IsTool
  <2>6. DOMAIN ts = 1..n /\ ts[n] = tool /\ (\A k \in 1..n : k # n => ts[k] = t.parts[k])
        /\ ts = [k \in 1..n |-> ts[k]]
    <3>1. PICK q, x, m, z : q = t.parts /\ x = tool /\ m = n /\ z = ts
      OBVIOUS
    <3>2. DOMAIN q = 1..m /\ m \in 1..m /\ z = [q EXCEPT ![m] = x]
      BY <2>2, <3>1
    <3>3. DOMAIN z = 1..m /\ z[m] = x /\ (\A k \in 1..m : k # m => z[k] = q[k]) /\ z = [k \in 1..m |-> z[k]]
      BY ONLY <3>2
    <3> QED BY ONLY <3>1, <3>3
  <2> HIDE DEF tool, ts, w, i, n
  <2>7. [t EXCEPT !.parts = ts] = Parts(ts)
    BY <2>2 DEF Parts
  <2>8. w.tools = Parts(ts) /\ w.messages = i.messages /\ w.system = i.system
    BY <1>1, <2>4, <2>7 DEF HasField
  <2>9. PartsOf(w.tools) = ts
    BY <2>8 DEF Parts, PartsOf
  <2>10. Len(ts) = n
    BY <2>2, <2>6, FunctionSequence
  <2>11. MarkedTools(ts) = MarkedTools(t.parts) \cup {n}
    BY <2>2, <2>5, <2>6 DEF MarkedTools
  <2>12. {n} = {n} \ {0}
    BY <2>2
  <2> HIDE DEF t
  <2>13. /\ PartsOf(t) = t.parts /\ n = Len(t.parts)
         /\ Marked(PartsOf(body.system)) => IsPrefix(body.system.parts, PartsOf(result.system))
         /\ MarksOf(result.messages) = MarksOf(body.messages)
    BY <1>1, <2>1, <2>2, <2>8 DEF n
  <2>14. MarkedTools(PartsOf(result.tools)) =
           MarkedTools(PartsOf(t)) \cup IF marked THEN {} ELSE {Len(PartsOf(t))} \ {0}
    BY <1>4, <2>1, <2>9, <2>11, <2>12, <2>13
  <2> QED BY <2>1, <2>9, <2>10, <2>13, <2>14 DEF t
<1> QED BY <1>3, <1>4

(* The contents messages are made of, and what each part says.              *)
LEMMA PartsSaid ==
  /\ \A t : SaidBy(Text(t)) = t /\ SaidBy(MarkedText(t)) = t
  /\ \A u : SaidBy(ImageUrl(u)) = <<>> /\ SaidBy(Image(u)) = <<>>
  /\ SaidBy(Thinking) = <<>>
  /\ \A id, name : SaidBy(ToolUse(id, name)) = <<>>
  /\ \A id, c : SaidBy(ToolResult(id, c)) = TextOf(c)
<1>1. \A t : SaidBy(Text(t)) = t /\ SaidBy(MarkedText(t)) = t
  BY DEF SaidBy, MarkedText, Text
<1>2. \A u : SaidBy(ImageUrl(u)) = <<>> /\ SaidBy(Image(u)) = <<>>
  BY DEF SaidBy, ImageUrl, Image
<1>3. SaidBy(Thinking) = <<>>
  BY DEF SaidBy, Thinking
<1>4. \A id, name : SaidBy(ToolUse(id, name)) = <<>>
  BY DEF SaidBy, ToolUse
<1>5. \A id, c : SaidBy(ToolResult(id, c)) = TextOf(c)
  BY DEF SaidBy, ToolResult
<1> QED BY <1>1, <1>2, <1>3, <1>4, <1>5

(* The parts of an array.                                                   *)
LEMMA PartsOfParts == \A s : PartsOf(Parts(s)) = s
BY DEF Parts, PartsOf

(* The strings the client sends are well formed.                            *)
LEMMA SpeechFormed ==
  /\ \A n : IsSequence(Passage(n)) /\ WellFormed(Str(Passage(n)))
  /\ WellFormed(Str(<<>>)) /\ WellFormed(Null)
<1>1. \A n : IsSequence(Passage(n))
  BY OneSequence DEF Passage
<1>2. WellFormed(Null)
  BY DEF WellFormed
<1> QED BY <1>1, <1>2, EmptySequence, StrFormed

(* An array of one part.                                                    *)
LEMMA OneFormed ==
  ASSUME NEW p, IsSequence(SaidBy(p))
  PROVE  WellFormed(Parts(<<p>>))
<1>1. \A k \in 1..1 : k = 1
  OBVIOUS
<1>2. IsSequence(<<p>>) /\ \A k \in 1..Len(<<p>>) : <<p>>[k] = p
  BY <1>1, OneSequence
<1> QED BY <1>2, PartsFormed

(* An array of two parts.                                                   *)
LEMMA TwoFormed ==
  ASSUME NEW p, NEW q, IsSequence(SaidBy(p)), IsSequence(SaidBy(q))
  PROVE  WellFormed(Parts(<<p, q>>))
<1>1. IsSequence(<<p, q>>) /\ \A k \in 1..Len(<<p, q>>) : <<p, q>>[k] = p \/ <<p, q>>[k] = q
  BY TwoSequence
<1> QED BY <1>1, PartsFormed

(* The fields of a message.                                                 *)
LEMMA MessageFields ==
  ASSUME NEW role, NEW content
  PROVE  /\ Message(role, content).role = role /\ Message(role, content).content = content
         /\ Message(role, content).calls = <<>> /\ Message(role, content).id = "" /\ Message(role, content).name = ""
BY DEF Message

(* A record with the fields of a message and a well formed content is a     *)
(* message.                                                                 *)
LEMMA RecordShaped ==
  ASSUME NEW m, m = [role |-> m.role, content |-> m.content, calls |-> m.calls, id |-> m.id, name |-> m.name],
         WellFormed(m.content), IsSequence(m.calls)
  PROVE  Shaped(m)
BY DEF Shaped

(* The messages of a conversation, by who says them.                        *)
LEMMA PlainShaped ==
  ASSUME NEW role, NEW content, WellFormed(content)
  PROVE  Shaped(Message(role, content))
<1> DEFINE m == Message(role, content)
<1>1. m = [role |-> m.role, content |-> m.content, calls |-> m.calls, id |-> m.id, name |-> m.name]
  BY DEF Message
<1>2. m.role = role /\ m.content = content /\ m.calls = <<>>
  BY DEF Message
<1> HIDE DEF m
<1>3. Shaped(m)
  BY <1>1, <1>2, EmptySequence, RecordShaped
<1> QED BY <1>3 DEF m

(* A message that calls tools.                                              *)
LEMMA CallingShaped ==
  ASSUME NEW content, WellFormed(content), NEW calls, IsSequence(calls)
  PROVE  /\ Shaped(Calling(content, calls)) /\ Calling(content, calls).role = "assistant"
         /\ Calling(content, calls).content = content /\ Calling(content, calls).calls = calls
<1> DEFINE w == Message("assistant", content)
           m == [w EXCEPT !.calls = calls]
<1>1. w = [role |-> "assistant", content |-> content, calls |-> <<>>, id |-> "", name |-> ""]
  BY DEF Message
<1>2. Calling(content, calls) = m
  BY DEF Calling
<1> HIDE DEF w
<1>8. m = [role |-> "assistant", content |-> content, calls |-> calls, id |-> "", name |-> ""]
  <2>1. PICK e : e = ""
    OBVIOUS
  <2>2. w = [role |-> "assistant", content |-> content, calls |-> <<>>, id |-> e, name |-> e]
    BY <1>1, <2>1
  <2>3. m = [role |-> "assistant", content |-> content, calls |-> calls, id |-> e, name |-> e]
    BY ONLY <2>2
  <2> QED BY <2>1, <2>3
<1> HIDE DEF m
<1>3. m = [role |-> m.role, content |-> m.content, calls |-> m.calls, id |-> m.id, name |-> m.name]
      /\ m.role = "assistant" /\ m.content = content /\ m.calls = calls
  BY <1>8
<1>4. Shaped(m)
  BY <1>3, RecordShaped
<1> QED BY <1>2, <1>3, <1>4

(* A message that returns a result under its call's id.                     *)
LEMMA ToolShaped ==
  ASSUME NEW content, WellFormed(content), NEW x, NEW m, m = ToolMessage(x, content)
  PROVE  Shaped(m) /\ m.role = "tool" /\ m.content = content /\ m.calls = <<>> /\ m.id = x
<1>1. PICK w, e, none : w = Message("tool", content) /\ e = "" /\ none = <<>>
  OBVIOUS
<1>2. /\ w = [role |-> "tool", content |-> content, calls |-> none, id |-> e, name |-> e]
      /\ m = [w EXCEPT !.id = x]
  BY <1>1 DEF Message, ToolMessage
<1>3. m = [role |-> "tool", content |-> content, calls |-> none, id |-> x, name |-> e]
  BY ONLY <1>2
<1>4. m = [role |-> m.role, content |-> m.content, calls |-> m.calls, id |-> m.id, name |-> m.name]
      /\ m.role = "tool" /\ m.content = content /\ m.calls = none /\ m.id = x
  BY ONLY <1>3
<1>5. m.calls = <<>>
  BY ONLY <1>1, <1>4
<1>6. Shaped(m)
  BY <1>4, <1>5, EmptySequence, RecordShaped
<1> QED BY <1>4, <1>5, <1>6

(* A message that returns a result under its function's name.               *)
FunctionResult(m, c, x) ==
  Shaped(m) /\ m.role = "function" /\ m.content = c /\ m.calls = <<>> /\ m.name = x /\ m.id = ""

LEMMA FunctionShaped ==
  ASSUME NEW content, WellFormed(content), NEW x, NEW v, v = Message("function", content),
         NEW m, m = [v EXCEPT !.name = x]
  PROVE  FunctionResult(m, content, x)
<1>1. PICK w, e, none : w = Message("function", content) /\ e = "" /\ none = <<>>
  OBVIOUS
<1>2. /\ w = [role |-> "function", content |-> content, calls |-> none, id |-> e, name |-> e]
      /\ m = [w EXCEPT !.name = x]
  <2>1. w = [role |-> "function", content |-> content, calls |-> none, id |-> e, name |-> e]
    BY ONLY <1>1 DEF Message
  <2>2. w = v
    BY ONLY <1>1, v = Message("function", content)
  <2> QED BY ONLY <2>1, <2>2, m = [v EXCEPT !.name = x]
<1>3. m = [role |-> "function", content |-> content, calls |-> none, id |-> e, name |-> x]
  BY ONLY <1>2
<1>4. m = [role |-> m.role, content |-> m.content, calls |-> m.calls, id |-> m.id, name |-> m.name]
      /\ m.role = "function" /\ m.content = content /\ m.calls = none /\ m.name = x /\ m.id = e
  BY ONLY <1>3
<1>5. m.calls = <<>> /\ m.id = ""
  BY ONLY <1>1, <1>4
<1>6. Shaped(m)
  BY <1>4, <1>5, EmptySequence, RecordShaped
<1> QED BY <1>4, <1>5, <1>6 DEF FunctionResult

-----------------------------------------------------------------------------
(* The conversations.                                                       *)
FieldsInv ==
  /\ kind = "chat" => options = DefaultOptions /\ system = Null
  /\ kind = "options" => options.tools \in Declared /\ system = Null
  /\ kind = "anthropic" => options.tools \in ToolFields /\ system \in SystemFields
TalkInv == AllShaped(talk) /\ IsSequence(open) /\ FieldsInv

(* A conversation grows by a message.                                       *)
LEMMA TalkGrows ==
  ASSUME NEW ms, AllShaped(ms), NEW m, Shaped(m)
  PROVE  AllShaped(Append(ms, m))
<1>1. IsSequence(ms) /\ Len(ms) \in Nat
  BY SequenceFacts DEF AllShaped
<1>2. /\ IsSequence(Append(ms, m)) /\ Len(Append(ms, m)) = Len(ms) + 1
      /\ \A k \in 1..Len(ms) : Append(ms, m)[k] = ms[k]
      /\ Append(ms, m)[Len(ms) + 1] = m
  BY <1>1, AppendFacts
<1>3. \A k \in 1..(Len(ms) + 1) : k = Len(ms) + 1 \/ k \in 1..Len(ms)
  BY <1>1
<1> QED BY <1>2, <1>3 DEF AllShaped

(* Saying a message keeps the conversation one.                             *)
LEMMA SaysKeeps ==
  ASSUME TalkInv, NEW m, Shaped(m), Says(m), IsSequence(open')
  PROVE  TalkInv'
<1>1. talk' = Append(talk, m) /\ UNCHANGED <<kind, options, system>>
  BY DEF Says
<1>2. AllShaped(Append(talk, m))
  BY TalkGrows DEF TalkInv
<1>3. AllShaped(talk')
  BY <1>1, <1>2
<1>4. FieldsInv'
  BY <1>1 DEF TalkInv, FieldsInv
<1> QED BY <1>3, <1>4 DEF TalkInv

(* The calls but one are a sequence.                                        *)
LEMMA RestSequence ==
  ASSUME NEW s, IsSequence(s), NEW i \in DOMAIN s
  PROVE  IsSequence(Rest(s, i))
<1>1. DOMAIN s = 1..Len(s) /\ Len(s) \in Nat
  BY SequenceFacts
<1>2. IsSequence(SubSeq(s, 1, i - 1)) /\ IsSequence(SubSeq(s, i + 1, Len(s)))
  <2>1. \A a \in 1..(Len(s) + 1), b \in 0..Len(s) : IsSequence(SubSeq(s, a, b))
    <3>1. s \in Seq(Range(s))
      BY SequenceFacts
    <3>2. SUFFICES ASSUME NEW a \in 1..(Len(s) + 1), NEW b \in 0..Len(s) PROVE IsSequence(SubSeq(s, a, b))
      OBVIOUS
    <3>3. SubSeq(s, a, b) \in Seq(Range(s))
      BY <1>1, <3>1
    <3> QED BY <3>3, TypedSequence
  <2> QED BY <1>1, <2>1
<1> QED BY <1>2, ConcatSequences DEF Rest

(* So are the calls backwards.                                              *)
LEMMA ReverseSequence ==
  ASSUME NEW s, IsSequence(s)
  PROVE  IsSequence(Reverse(s)) /\ Len(Reverse(s)) = Len(s)
<1>1. Len(s) \in Nat
  BY DEF IsSequence
<1>2. DOMAIN Reverse(s) = 1..Len(s) /\ Reverse(s) = [k \in 1..Len(s) |-> Reverse(s)[k]]
  BY DEF Reverse
<1> QED BY <1>1, <1>2, FunctionSequence

(* So are the calls of a turn.                                              *)
LEMMA CallsSequence ==
  ASSUME NEW names \in CallLists
  PROVE  /\ IsSequence(names) /\ IsSequence(Calls(names)) /\ Len(Calls(names)) = Len(names)
         /\ IsSequence(Apply(LAMBDA f : Call("", f), names))
         /\ Len(Apply(LAMBDA f : Call("", f), names)) = Len(names)
<1>1. names \in Seq(Functions)
  BY CallListsAssumption
<1>2. IsSequence(names) /\ DOMAIN names = 1..Len(names) /\ Len(names) \in Nat
  BY <1>1, TypedSequence, SequenceFacts
<1>3. Calls(names) = [i \in 1..Len(names) |-> Call(CallIds[Used + i], names[i])]
  BY <1>2 DEF Calls
<1>4. Apply(LAMBDA f : Call("", f), names) = [i \in 1..Len(names) |-> Call("", names[i])]
  BY <1>2 DEF Apply
<1>5. IsSequence(Calls(names)) /\ Len(Calls(names)) = Len(names)
  BY <1>2, <1>3, FunctionSequence
<1>6. /\ IsSequence(Apply(LAMBDA f : Call("", f), names))
      /\ Len(Apply(LAMBDA f : Call("", f), names)) = Len(names)
  BY <1>2, <1>4, FunctionSequence
<1> QED BY <1>2, <1>5, <1>6

(* What goes before or after the blocks of a turn or of its results.        *)
LEMMA BlocksFormed ==
  ASSUME NEW s, NEW t, IsSequence(s), IsSequence(t),
         \A k \in 1..Len(s) : IsSequence(SaidBy(s[k])), \A k \in 1..Len(t) : IsSequence(SaidBy(t[k]))
  PROVE  WellFormed(Parts(s \o t))
<1>1. IsSequence(s \o t)
  BY ConcatSequences
<1>2. ASSUME NEW k \in 1..Len(s \o t) PROVE IsSequence(SaidBy((s \o t)[k]))
  <2>1. \/ k \in 1..Len(s) /\ (s \o t)[k] = s[k]
        \/ k - Len(s) \in 1..Len(t) /\ (s \o t)[k] = t[k - Len(s)]
    BY ConcatPlaces
  <2> QED BY <2>1
<1> QED BY <1>1, <1>2, PartsFormed

(* Every step of a chat client keeps the conversation one.                  *)
LEMMA ChatKeeps ==
  ASSUME TalkInv, SystemSays \/ UserSays \/ AssistantSays \/ AssistantCalls \/ ToolReturns \/ FunctionReturns
  PROVE  TalkInv'
<1>0. IsSequence(open) /\ \A k : IsSequence(Passage(k)) /\ IsSequence(SaidBy(Text(Passage(k))))
                                 /\ IsSequence(SaidBy(MarkedText(Passage(k))))
  BY PartsSaid, SpeechFormed DEF TalkInv
<1>1. CASE SystemSays
  <2>1. PICK m : Says(m) /\ UNCHANGED open /\ (\/ m = Message("developer", Str(Passage(1)))
                                               \/ m = Message("system", Str(<<>>))
                                               \/ m = Message("system", Parts(<<MarkedText(Passage(1)), Text(Passage(2))>>)))
    BY <1>1 DEF SystemSays, Free
  <2>2. WellFormed(Parts(<<MarkedText(Passage(1)), Text(Passage(2))>>))
    BY <1>0, TwoFormed
  <2>3. Shaped(m)
    BY <2>1, <2>2, SpeechFormed, PlainShaped
  <2> QED BY <1>0, <2>1, <2>3, SaysKeeps
<1>2. CASE UserSays
  <2>1. PICK c : /\ Says(Message("user", c)) /\ UNCHANGED open
                 /\ c \in {Str(Passage(1)), Parts(<<MarkedText(Passage(1))>>),
                           Parts(<<ImageUrl("data"), Text(Passage(1))>>),
                           Parts(<<Text(Passage(1)), ImageUrl("remote")>>)}
    BY <1>2 DEF UserSays, Free
  <2>2. IsSequence(SaidBy(ImageUrl("data"))) /\ IsSequence(SaidBy(ImageUrl("remote")))
    BY PartsSaid, EmptySequence
  <2>3. WellFormed(c)
    <3>1. WellFormed(Parts(<<MarkedText(Passage(1))>>))
      BY <1>0, OneFormed
    <3>2. WellFormed(Parts(<<ImageUrl("data"), Text(Passage(1))>>))
          /\ WellFormed(Parts(<<Text(Passage(1)), ImageUrl("remote")>>))
      BY <1>0, <2>2, TwoFormed
    <3> QED BY <2>1, <3>1, <3>2, SpeechFormed
  <2>4. Shaped(Message("user", c))
    BY <2>3, PlainShaped
  <2> QED BY <1>0, <2>1, <2>4, SaysKeeps
<1>3. CASE AssistantSays
  <2>1. Shaped(Message("assistant", Str(Passage(1))))
    BY SpeechFormed, PlainShaped
  <2> QED BY <1>0, <1>3, <2>1, SaysKeeps DEF AssistantSays, Free
<1>4. CASE AssistantCalls
  <2>1. PICK names \in CallLists, content \in {Null, Str(Passage(1))}, given \in BOOLEAN :
          LET calls == IF given THEN Calls(names) ELSE Apply(LAMBDA f : Call("", f), names)
          IN  Says(Calling(content, calls)) /\ open' = calls
    BY <1>4 DEF AssistantCalls
  <2> DEFINE calls == IF given THEN Calls(names) ELSE Apply(LAMBDA f : Call("", f), names)
  <2>2. Says(Calling(content, calls)) /\ open' = calls
    BY <2>1
  <2>3. IsSequence(calls)
    BY CallsSequence
  <2> HIDE DEF calls
  <2>4. WellFormed(content)
    BY SpeechFormed
  <2>5. Shaped(Calling(content, calls))
    BY <2>3, <2>4, CallingShaped
  <2> QED BY <2>2, <2>3, <2>5, SaysKeeps
<1>5. CASE ToolReturns
  <2>1. PICK i \in DOMAIN open, content \in {Str(Passage(1)), Parts(<<MarkedText(Passage(1)), ImageUrl("data")>>), Null} :
          Says(ToolMessage(open[i].id, content)) /\ open' = Rest(open, i)
    BY <1>5 DEF ToolReturns
  <2>2. IsSequence(SaidBy(ImageUrl("data")))
    BY PartsSaid, EmptySequence
  <2>3. WellFormed(content)
    <3>1. WellFormed(Parts(<<MarkedText(Passage(1)), ImageUrl("data")>>))
      BY <1>0, <2>2, TwoFormed
    <3> QED BY <2>1, <3>1, SpeechFormed
  <2>4. Shaped(ToolMessage(open[i].id, content))
    BY <2>3, ToolShaped
  <2>5. IsSequence(open')
    BY <1>0, <2>1, RestSequence
  <2> QED BY <2>1, <2>4, <2>5, SaysKeeps
<1>6. CASE FunctionReturns
  <2>1. PICK i \in DOMAIN open :
          Says([Message("function", Str(Passage(1))) EXCEPT !.name = open[i].name]) /\ open' = Rest(open, i)
    BY <1>6 DEF FunctionReturns
  <2>2. Shaped([Message("function", Str(Passage(1))) EXCEPT !.name = open[i].name])
    <3>1. PICK c, x, v, m : /\ c = Str(Passage(1)) /\ x = open[i].name /\ v = Message("function", c)
                            /\ m = [v EXCEPT !.name = x]
      OBVIOUS
    <3>2. WellFormed(c)
      BY <3>1, SpeechFormed
    <3>3. FunctionResult(m, c, x)
      BY ONLY <3>1, <3>2, FunctionShaped
    <3> QED BY ONLY <3>1, <3>3 DEF FunctionResult
  <2>3. IsSequence(open')
    BY <1>0, <2>1, RestSequence
  <2> QED BY <2>1, <2>2, <2>3, SaysKeeps
<1> QED BY <1>1, <1>2, <1>3, <1>4, <1>5, <1>6

(* So does every step of an Anthropic client.                               *)
LEMMA AnthropicKeeps ==
  ASSUME TalkInv, \/ AnthropicUserSays \/ AnthropicSystemSays \/ AnthropicAssistantSays
                  \/ AnthropicAssistantCalls \/ AnthropicResults
  PROVE  TalkInv'
<1>0. IsSequence(open) /\ \A k : IsSequence(Passage(k)) /\ IsSequence(SaidBy(Text(Passage(k))))
                                 /\ IsSequence(SaidBy(MarkedText(Passage(k))))
  BY PartsSaid, SpeechFormed DEF TalkInv
<1>1. IsSequence(SaidBy(Thinking)) /\ \A u : IsSequence(SaidBy(Image(u)))
  BY PartsSaid, EmptySequence
<1>2. CASE AnthropicUserSays
  <2>1. PICK c : /\ Says(Message("user", c)) /\ UNCHANGED open
                 /\ c \in {Str(Passage(1)), Parts(<<MarkedText(Passage(1)), Text(Passage(2))>>),
                           Parts(<<Image("url"), Text(Passage(1))>>), Parts(<<Text(Passage(1)), Image("base64")>>)}
    BY <1>2 DEF AnthropicUserSays, Free
  <2>2. /\ WellFormed(Parts(<<MarkedText(Passage(1)), Text(Passage(2))>>))
        /\ WellFormed(Parts(<<Image("url"), Text(Passage(1))>>))
        /\ WellFormed(Parts(<<Text(Passage(1)), Image("base64")>>))
    BY <1>0, <1>1, TwoFormed
  <2>3. Shaped(Message("user", c))
    BY <2>1, <2>2, SpeechFormed, PlainShaped
  <2> QED BY <1>0, <2>1, <2>3, SaysKeeps
<1>3. CASE AnthropicSystemSays
  <2>1. PICK c : /\ Says(Message("system", c)) /\ UNCHANGED open
                 /\ c \in {Str(Passage(1)), Parts(<<MarkedText(Passage(1))>>)}
    BY <1>3 DEF AnthropicSystemSays, Free
  <2>2. WellFormed(Parts(<<MarkedText(Passage(1))>>))
    BY <1>0, OneFormed
  <2>3. Shaped(Message("system", c))
    BY <2>1, <2>2, SpeechFormed, PlainShaped
  <2> QED BY <1>0, <2>1, <2>3, SaysKeeps
<1>4. CASE AnthropicAssistantSays
  <2>1. PICK c : /\ Says(Message("assistant", c)) /\ UNCHANGED open
                 /\ c \in {Str(Passage(1)), Parts(<<Thinking, Text(Passage(1))>>)}
    BY <1>4 DEF AnthropicAssistantSays, Free
  <2>2. WellFormed(Parts(<<Thinking, Text(Passage(1))>>))
    BY <1>0, <1>1, TwoFormed
  <2>3. Shaped(Message("assistant", c))
    BY <2>1, <2>2, SpeechFormed, PlainShaped
  <2> QED BY <1>0, <2>1, <2>3, SaysKeeps
<1>5. CASE AnthropicAssistantCalls
  <2>1. PICK names \in CallLists, before \in {<<>>, <<Thinking, Text(Passage(1))>>} :
          /\ Says(Message("assistant", Parts(before \o Apply(LAMBDA c : ToolUse(c.id, c.name), Calls(names)))))
          /\ open' = Calls(names)
    BY <1>5 DEF AnthropicAssistantCalls
  <2> DEFINE uses == Apply(LAMBDA c : ToolUse(c.id, c.name), Calls(names))
  <2>2. IsSequence(Calls(names)) /\ Len(Calls(names)) \in Nat /\ DOMAIN Calls(names) = 1..Len(Calls(names))
    BY CallsSequence, SequenceFacts
  <2>3. IsSequence(uses) /\ \A k \in 1..Len(uses) : IsSequence(SaidBy(uses[k]))
    <3>1. uses = [k \in 1..Len(Calls(names)) |-> ToolUse(Calls(names)[k].id, Calls(names)[k].name)]
      BY <2>2 DEF Apply
    <3>2. /\ IsSequence(uses) /\ Len(uses) = Len(Calls(names))
          /\ \A k \in 1..Len(uses) : uses[k] = ToolUse(Calls(names)[k].id, Calls(names)[k].name)
      BY <2>2, <3>1, FunctionSequence
    <3> HIDE DEF uses
    <3> QED BY <3>2, PartsSaid, EmptySequence
  <2> HIDE DEF uses
  <2>4. IsSequence(before) /\ \A k \in 1..Len(before) : IsSequence(SaidBy(before[k]))
    <3>1. CASE before = <<>>
      <4>1. \A k \in 1..0 : FALSE
        OBVIOUS
      <4> QED BY <3>1, <4>1, EmptySequence
    <3>2. CASE before = <<Thinking, Text(Passage(1))>>
      BY <1>0, <1>1, <3>2, TwoSequence
    <3> QED BY <2>1, <3>1, <3>2
  <2>5. Shaped(Message("assistant", Parts(before \o uses)))
    BY <2>3, <2>4, BlocksFormed, PlainShaped
  <2> QED BY <2>1, <2>2, <2>5, SaysKeeps DEF uses
<1>6. CASE AnthropicResults
  <2>1. PICK reversed \in BOOLEAN, first \in {Str(Passage(1)), Parts(<<Text(Passage(1)), Image("base64")>>)},
             after \in {<<>>, <<MarkedText(Passage(2))>>, <<Image("base64"), Text(Passage(2))>>} :
          LET calls == IF reversed THEN Reverse(open) ELSE open
          IN  Says(Message("user", Parts(
                [i \in DOMAIN calls |-> ToolResult(calls[i].id, IF i = 1 THEN first ELSE Null)] \o after)))
    BY <1>6 DEF AnthropicResults
  <2> DEFINE calls == IF reversed THEN Reverse(open) ELSE open
             results == [i \in DOMAIN calls |-> ToolResult(calls[i].id, IF i = 1 THEN first ELSE Null)]
  <2>2. Says(Message("user", Parts(results \o after))) /\ open' = <<>>
    BY <1>6, <2>1 DEF AnthropicResults
  <2>3. IsSequence(calls) /\ Len(calls) \in Nat /\ DOMAIN calls = 1..Len(calls)
    BY <1>0, ReverseSequence, SequenceFacts
  <2>4. WellFormed(first) /\ WellFormed(Null)
    <3>1. WellFormed(Parts(<<Text(Passage(1)), Image("base64")>>))
      BY <1>0, <1>1, TwoFormed
    <3> QED BY <2>1, <3>1, SpeechFormed
  <2> HIDE DEF calls
  <2>5. IsSequence(results) /\ \A k \in 1..Len(results) : IsSequence(SaidBy(results[k]))
    <3>1. /\ IsSequence(results) /\ Len(results) = Len(calls)
          /\ \A k \in 1..Len(calls) : results[k] = ToolResult(calls[k].id, IF k = 1 THEN first ELSE Null)
      BY <2>3, FunctionSequence
    <3> HIDE DEF results
    <3>2. \A k \in 1..Len(calls) : SaidBy(results[k]) = TextOf(IF k = 1 THEN first ELSE Null)
      BY <3>1, PartsSaid
    <3>3. IsSequence(TextOf(first)) /\ IsSequence(TextOf(Null))
      BY <2>4, TextFormed
    <3>4. \A k \in 1..Len(calls) : IsSequence(SaidBy(results[k]))
      BY <3>2, <3>3
    <3> QED BY <3>1, <3>4
  <2> HIDE DEF results
  <2>6. IsSequence(after) /\ \A k \in 1..Len(after) : IsSequence(SaidBy(after[k]))
    <3>1. CASE after = <<>>
      <4>1. \A k \in 1..0 : FALSE
        OBVIOUS
      <4> QED BY <3>1, <4>1, EmptySequence
    <3>2. CASE after = <<MarkedText(Passage(2))>>
      <4>1. \A k \in 1..1 : k = 1
        OBVIOUS
      <4> QED BY <1>0, <3>2, <4>1, OneSequence
    <3>3. CASE after = <<Image("base64"), Text(Passage(2))>>
      BY <1>0, <1>1, <3>3, TwoSequence
    <3> QED BY <2>1, <3>1, <3>2, <3>3
  <2>7. Shaped(Message("user", Parts(results \o after)))
    BY <2>5, <2>6, BlocksFormed, PlainShaped
  <2> QED BY <2>2, <2>7, EmptySequence, SaysKeeps
<1> QED BY <1>2, <1>3, <1>4, <1>5, <1>6

(* Every conversation is made of well formed messages.                      *)
LEMMA TalksStay == BodiesSpec => []TalkInv
<1>1. BodiesInit => TalkInv
  <2> SUFFICES ASSUME BodiesInit PROVE TalkInv
    OBVIOUS
  <2>1. IsSequence(open)
    BY EmptySequence DEF BodiesInit
  <2>2. AllShaped(<<>>)
    <3>1. \A k \in 1..Len(<<>>) : FALSE
      BY EmptySequence
    <3> QED BY <3>1, EmptySequence DEF AllShaped
  <2>3. AllShaped(<<Message("user", Str(<<11>>))>>)
    <3>1. Shaped(Message("user", Str(<<11>>)))
      BY OneSequence, StrFormed, PlainShaped
    <3>2. AllShaped(Append(<<>>, Message("user", Str(<<11>>))))
      BY <2>2, <3>1, TalkGrows
    <3>3. Append(<<>>, Message("user", Str(<<11>>))) = <<Message("user", Str(<<11>>))>>
      BY EmptySequence, AppendSequence, OneSequence, ConcatEmpty
    <3> QED BY <3>2, <3>3
  <2>4. AllShaped(talk)
    BY <2>2, <2>3 DEF BodiesInit
  <2>5. /\ kind = "chat" => options = DefaultOptions /\ system = Null
        /\ kind = "options" => options.tools \in Declared /\ system = Null
    BY DEF BodiesInit, Options
  <2>6. kind = "anthropic" => options.tools \in ToolFields /\ system \in SystemFields
    <3>1. SUFFICES ASSUME kind = "anthropic" PROVE options.tools \in ToolFields /\ system \in SystemFields
      OBVIOUS
    <3>2. PICK t \in ToolFields : options = [DefaultOptions EXCEPT !.tools = t]
      BY <3>1 DEF BodiesInit
    <3>3. options.tools = t
      BY <3>2 DEF DefaultOptions
    <3>4. system \in IF options.tools = Parts(<<PlainTool>>) THEN SystemFields ELSE {Null}
      BY <3>1 DEF BodiesInit
    <3>5. system \in SystemFields
      BY <3>4 DEF SystemFields
    <3> QED BY <3>3, <3>5
  <2> QED BY <2>1, <2>4, <2>5, <2>6 DEF TalkInv, FieldsInv
<1>2. TalkInv /\ [BodiesNext]_bodiesVars => TalkInv'
  <2> SUFFICES ASSUME TalkInv, [BodiesNext]_bodiesVars PROVE TalkInv'
    OBVIOUS
  <2>1. CASE AnswerGrows \/ AnswerEnds \/ LineWritten \/ UNCHANGED bodiesVars
    <3>1. UNCHANGED <<talk, open, kind, options, system>>
      BY <2>1 DEF AnswerGrows, AnswerEnds, LineWritten, bodiesVars
    <3> QED BY <3>1 DEF TalkInv, FieldsInv
  <2>2. CASE \/ SystemSays \/ UserSays \/ AssistantSays \/ AssistantCalls \/ ToolReturns \/ FunctionReturns
    BY <2>2, ChatKeeps
  <2>3. CASE \/ AnthropicUserSays \/ AnthropicSystemSays \/ AnthropicAssistantSays
             \/ AnthropicAssistantCalls \/ AnthropicResults
    BY <2>3, AnthropicKeeps
  <2> QED BY <2>1, <2>2, <2>3 DEF BodiesNext
<1> QED BY <1>1, <1>2, PTL DEF BodiesSpec

(* The system fields the client sends are text blocks, or no array at all.  *)
LEMMA SystemFieldsAre ==
  ASSUME NEW s \in SystemFields
  PROVE  TextBlocks(s)
<1>1. CASE s = Null
  BY <1>1 DEF TextBlocks, Null
<1>2. CASE s = Str(<<1>>)
  BY <1>2 DEF TextBlocks, Str
<1>3. ASSUME NEW p, NEW q, p.type = "text", q.type = "text", s = Parts(<<p, q>>) PROVE TextBlocks(s)
  <2>1. s.parts = <<p, q>>
    BY <1>3 DEF Parts
  <2>2. s = Parts(s.parts)
    BY <1>3, <2>1
  <2>3. IsSequence(s.parts) /\ \A k \in 1..Len(s.parts) : s.parts[k] = p \/ s.parts[k] = q
    BY <2>1, TwoSequence
  <2> QED BY <1>3, <2>2, <2>3 DEF TextBlocks
<1>4. \A t : Text(t).type = "text" /\ MarkedText(t).type = "text"
  BY DEF Text, MarkedText
<1> QED BY <1>1, <1>2, <1>3, <1>4 DEF SystemFields

(* Converted declarations have no marks.                                    *)
LEMMA DeclarationsUnmarked ==
  ASSUME NEW t \in Declared, NEW choice, NEW parallel, NEW new,
         new = ConvertOpenAIToolsToAnthropic(t, choice, parallel).tools
  PROVE  ToolsFormed(new) /\ MarkedTools(PartsOf(new)) = {}
<1>0. PartsOf(Null) = <<>> /\ MarkedTools(<<>>) = {} /\ ToolsFormed(Null)
  <2>1. DOMAIN <<>> = 1..Len(<<>>)
    BY EmptySequence, SequenceFacts
  <2>2. \A k \in 1..Len(<<>>) : FALSE
    BY EmptySequence
  <2> QED BY <2>1, <2>2, FewTools DEF Null, PartsOf, MarkedTools
<1>1. CASE new = Null
  BY <1>0, <1>1
<1>2. CASE t # Null /\ new = Parts(ConvertToolDeclarations(t.parts))
  <2> DEFINE s == t.parts
             q == ConvertToolDeclarations(s)
  <2>1. IsSequence(s) /\ \A k \in 1..Len(s) : s[k].shape = "openai" /\ s[k].name # ""
    BY <1>2, ToolFieldsAre DEF ToolsFormed
  <2>2. DOMAIN s = 1..Len(s) /\ Len(s) \in Nat
    BY <2>1, SequenceFacts
  <2>3. q = [k \in 1..Len(s) |-> Tool("anthropic", s[k].name)]
    BY <2>1, <2>2 DEF ConvertToolDeclarations, Apply
  <2>4. IsSequence(q) /\ Len(q) = Len(s) /\ \A k \in 1..Len(s) : q[k] = Tool("anthropic", s[k].name)
    BY <2>2, <2>3, FunctionSequence
  <2> HIDE DEF q
  <2>5. \A name : IsTool(Tool("anthropic", name)) /\ ~Tool("anthropic", name).marked
    BY DEF IsTool, Tool
  <2>6. Parts(q).parts = q /\ PartsOf(Parts(q)) = q
    BY DEF Parts, PartsOf
  <2>7. ToolsFormed(Parts(q))
    BY <2>4, <2>5, <2>6 DEF ToolsFormed
  <2>8. MarkedTools(q) = {}
    BY <2>4, <2>5, SequenceFacts DEF MarkedTools
  <2> QED BY <1>2, <2>6, <2>7, <2>8 DEF q
<1> QED BY <1>1, <1>2 DEF ConvertOpenAIToolsToAnthropic

(* Whatever the client says, in either format and however long it talks,    *)
(* and whichever tools it offers: BreakpointsKept.  Every mark in what the  *)
(* user and the assistant say reaches Bedrock in its place, a marked system *)
(* field is the beginning of the one sent, Anthropic tools are marked as    *)
(* they came when the client marks anything at all, and only a request      *)
(* without a mark gets one of the bridge's, on the last tool.               *)
THEOREM BreakpointsAreKept == BodiesSpec => []BreakpointsKept
<1>1. TalkInv => BreakpointsKept
  <2> SUFFICES ASSUME TalkInv, kind \in {"chat", "options", "anthropic"} PROVE BreakpointsKept
    BY DEF BreakpointsKept, Sent
  <2> DEFINE r == Request
             marked == HasCacheControl(r)
  <2>1. r.messages = talk /\ r.system = system /\ r.tools = options.tools /\ AllShaped(talk)
    BY DEF Request, TalkInv
  <2>2. marked \in BOOLEAN
    BY DEF HasCacheControl
  <2>3. ASSUME NEW body, HasField(body), AllShaped(body.messages), MarksOf(body.messages) = MarksOf(talk),
               body.system = system, TextBlocks(system), ToolsFormed(body.tools),
               MarkedTools(PartsOf(body.tools)) =
                 (IF marked /\ kind = "anthropic" THEN MarkedTools(PartsOf(options.tools)) ELSE {}),
               ToBedrock = MarkedBody(body, marked)
        PROVE  BreakpointsKept
    <3> HIDE DEF r, marked
    <3>1. PICK z, s, b : z = ToBedrock /\ s = system /\ b = marked
      OBVIOUS
    <3>2. /\ HasField(body) /\ AllShaped(body.messages) /\ TextBlocks(body.system) /\ ToolsFormed(body.tools)
          /\ b \in BOOLEAN /\ z = MarkedBody(body, b)
      BY <2>2, <2>3, <3>1
    <3>3. /\ Marked(PartsOf(body.system)) => IsPrefix(body.system.parts, PartsOf(z.system))
          /\ MarksOf(z.messages) = MarksOf(body.messages)
          /\ Len(PartsOf(z.tools)) = Len(PartsOf(body.tools))
          /\ MarkedTools(PartsOf(z.tools)) =
               MarkedTools(PartsOf(body.tools)) \cup IF b THEN {} ELSE {Len(PartsOf(body.tools))} \ {0}
      BY ONLY <3>2, BreakpointsBridged
    <3>4. /\ Marked(PartsOf(system)) => IsPrefix(system.parts, PartsOf(ToBedrock.system))
          /\ MarksOf(ToBedrock.messages) = MarksOf(talk)
      BY <2>3, <3>1, <3>3
    <3>5. MarkedTools(PartsOf(ToBedrock.tools)) =
            IF ~marked THEN {Len(PartsOf(ToBedrock.tools))} \ {0}
            ELSE IF kind = "anthropic" THEN MarkedTools(PartsOf(options.tools)) ELSE {}
      <4>1. CASE marked
        BY <2>3, <3>1, <3>3, <4>1
      <4>2. CASE ~marked
        <5>1. MarkedTools(PartsOf(body.tools)) = {}
          BY <2>3, <4>2
        <5>2. MarkedTools(PartsOf(z.tools)) = {Len(PartsOf(z.tools))} \ {0}
          BY <3>1, <3>3, <4>2, <5>1
        <5> QED BY <3>1, <4>2, <5>2
      <4> QED BY <4>1, <4>2
    <3> QED BY <3>4, <3>5 DEF BreakpointsKept, marked, r
  <2>4. CASE kind \in {"chat", "options"}
    <3> DEFINE tools == ConvertOpenAIToolsToAnthropic(r.tools, r.choice, r.parallel)
               body == [messages |-> ConvertOpenAIToolMessagesToAnthropic(r.messages), system |-> r.system,
                        tools |-> tools.tools, choice |-> tools.choice, reasoning |-> Reasoning(r, FALSE)]
    <3>1. system = Null /\ options.tools \in Declared
      <4>1. DefaultOptions.tools = Null /\ Null \in Declared
        BY DEF DefaultOptions, Declared
      <4> QED BY <2>4, <4>1 DEF TalkInv, FieldsInv
    <3>2. ToolsFormed(tools.tools) /\ MarkedTools(PartsOf(tools.tools)) = {}
      BY <2>1, <3>1, DeclarationsUnmarked
    <3>3. ToBedrock = MarkedBody(body, marked)
      BY <2>4 DEF ToBedrock, OpenAIToBedrockBody, Imaged, MarkedBody
    <3>4. ConvertOpenAIToolMessagesToAnthropic(talk) = Converted(talk).out
      BY DEF ConvertOpenAIToolMessagesToAnthropic, Converted, Unconverted
    <3>5. AllShaped(Converted(talk).out) /\ MarksOf(Converted(talk).out) = MarksOf(talk)
      BY <2>1, ConversionKeeps DEF Out
    <3>6. HasField(body)
      BY DEF HasField
    <3>7. body.messages = Converted(talk).out /\ body.system = system /\ body.tools = tools.tools
      BY <2>1, <3>4
    <3>8. TextBlocks(system)
      BY <3>1, SystemFieldsAre DEF SystemFields
    <3> HIDE DEF body, marked, r, tools
    <3>9. (IF marked /\ kind = "anthropic" THEN MarkedTools(PartsOf(options.tools)) ELSE {}) = {}
      BY <2>4
    <3>10. MarkedTools(PartsOf(body.tools)) = {} /\ ToolsFormed(body.tools)
      BY <3>2, <3>7
    <3> QED BY <2>3, <3>3, <3>5, <3>6, <3>7, <3>8, <3>9, <3>10
  <2>5. CASE kind = "anthropic"
    <3> DEFINE body == [messages |-> r.messages, system |-> r.system, tools |-> r.tools,
                        choice |-> r.choice, thinking |-> r.thinking /\ ~FALSE]
    <3>1. options.tools \in ToolFields /\ system \in SystemFields
      BY <2>5 DEF TalkInv, FieldsInv
    <3>2. ToBedrock = MarkedBody(body, marked)
      BY <2>5 DEF ToBedrock, BedrockBody, Imaged, MarkedBody
    <3>3. HasField(body)
      BY DEF HasField
    <3>4. body.messages = talk /\ body.system = system /\ body.tools = options.tools
      BY <2>1
    <3>5. TextBlocks(system) /\ ToolsFormed(options.tools)
      BY <3>1, SystemFieldsAre, ToolFieldsAre
    <3>6. ~marked => MarkedTools(PartsOf(options.tools)) = {}
      <4>1. options.tools = Null \/ PartsOf(options.tools) = options.tools.parts
        BY <3>5 DEF ToolsFormed, Parts, PartsOf
      <4>2. PartsOf(Null) = <<>> /\ DOMAIN <<>> = {}
        BY DEF Null, PartsOf
      <4>3. ~marked => \A k \in DOMAIN PartsOf(options.tools) : ~options.tools.parts[k].marked
        BY <2>1 DEF HasCacheControl
      <4> HIDE DEF marked
      <4> QED BY <4>1, <4>2, <4>3 DEF MarkedTools
    <3> HIDE DEF body, marked, r
    <3>7. MarkedTools(PartsOf(body.tools)) =
            IF marked /\ kind = "anthropic" THEN MarkedTools(PartsOf(options.tools)) ELSE {}
      BY <2>5, <3>4, <3>6
    <3> QED BY <2>1, <2>3, <3>2, <3>3, <3>4, <3>5, <3>7
  <2> QED BY <2>4, <2>5
<1> QED BY <1>1, TalksStay, PTL

-----------------------------------------------------------------------------
(* Speech.                                                                  *)

(* What an array says, a content, and a message that is no instruction; and *)
(* what a message instructs.                                                *)
Saying(s) == FlattenSeq([k \in 1..Len(s) |-> SaidBy(s[k])])
SaidIn(c) == IF c.form = "array" THEN FlattenSeq(Apply(SaidBy, c.parts)) ELSE TextOf(c)
Voice(m) == IF Instructs(m) THEN <<>> ELSE SaidIn(m.content)
Order(m) == IF Instructs(m) THEN TextOf(m.content) ELSE <<>>
Voices(ms) == FlattenSeq([k \in 1..Len(ms) |-> Voice(ms[k])])
Orders(ms) == FlattenSeq([k \in 1..Len(ms) |-> Order(ms[k])])

(* The pieces of a sequence that grows by one.                              *)
LEMMA FlattenGrown ==
  ASSUME NEW gs, NEW hs, OfSequences(gs), IsSequence(hs), Len(hs) = Len(gs) + 1,
         \A k \in 1..Len(gs) : hs[k] = gs[k], IsSequence(hs[Len(gs) + 1])
  PROVE  FlattenSeq(hs) = FlattenSeq(gs) \o hs[Len(gs) + 1]
<1>1. PICK x : x = hs[Len(gs) + 1]
  OBVIOUS
<1>2. hs = Append(gs, x)
  BY <1>1, Grown DEF OfSequences
<1>3. FlattenSeq(Append(gs, x)) = FlattenSeq(gs) \o x
  BY <1>1, FlattenAppend DEF OfSequences
<1> QED BY <1>1, <1>2, <1>3

(* The pieces of two sequences that differ in the last one only, by what it *)
(* has more.                                                                *)
LEMMA FlattenLonger ==
  ASSUME NEW gs, NEW hs, NEW n \in Nat, NEW more, OfSequences(gs), OfSequences(hs), Len(gs) = n + 1, Len(hs) = n + 1,
         \A k \in 1..n : hs[k] = gs[k], IsSequence(more), hs[n + 1] = gs[n + 1] \o more
  PROVE  FlattenSeq(hs) = FlattenSeq(gs) \o more
<1>1. IsSequence(gs) /\ IsSequence(hs) /\ IsSequence(gs[n + 1])
  <2>1. n + 1 \in 1..(n + 1)
    OBVIOUS
  <2> QED BY <2>1 DEF OfSequences
<1>2. First(gs, n) = First(hs, n)
  BY DEF First
<1>3. /\ FlattenSeq(First(gs, n + 1)) = FlattenSeq(First(gs, n)) \o gs[n + 1]
      /\ FlattenSeq(First(hs, n + 1)) = FlattenSeq(First(hs, n)) \o hs[n + 1]
  <2>1. n + 1 <= Len(gs) /\ n + 1 <= Len(hs)
    OBVIOUS
  <2>2. FlattenSeq(First(gs, n + 1)) = FlattenSeq(First(gs, n)) \o gs[n + 1]
    BY <2>1, FlattenStep
  <2>3. FlattenSeq(First(hs, n + 1)) = FlattenSeq(First(hs, n)) \o hs[n + 1]
    BY <2>1, FlattenStep
  <2> QED BY <2>2, <2>3
<1>4. First(gs, n + 1) = gs /\ First(hs, n + 1) = hs
  <2>1. First(gs, Len(gs)) = gs /\ First(hs, Len(hs)) = hs
    BY <1>1, FirstFacts
  <2> QED BY <2>1
<1>5. OfSequences(First(gs, n))
  <2>1. n \in 0..Len(gs)
    OBVIOUS
  <2>2. IsSequence(First(gs, n)) /\ Len(First(gs, n)) = n
    BY <1>1, <2>1, FirstFacts
  <2>3. \A k \in 1..n : First(gs, n)[k] = gs[k] /\ k \in 1..Len(gs)
    BY DEF First
  <2> QED BY <2>2, <2>3 DEF OfSequences
<1>6. IsSequence(FlattenSeq(First(gs, n)))
  BY <1>5, FlattenSequence
<1>7. (FlattenSeq(First(gs, n)) \o gs[n + 1]) \o more = FlattenSeq(First(gs, n)) \o (gs[n + 1] \o more)
  <2>1. PICK a, b : a = FlattenSeq(First(gs, n)) /\ b = gs[n + 1]
    OBVIOUS
  <2>2. IsSequence(a) /\ IsSequence(b)
    BY <1>1, <1>6, <2>1
  <2>3. (a \o b) \o more = a \o (b \o more)
    BY <2>2, ConcatAssoc
  <2> QED BY <2>1, <2>3
<1> QED BY <1>2, <1>3, <1>4, <1>7

(* What arrays say.                                                         *)
LEMMA SayingIs ==
  ASSUME NEW s, IsSequence(s), \A k \in 1..Len(s) : IsSequence(SaidBy(s[k]))
  PROVE  /\ FlattenSeq(Apply(SaidBy, s)) = Saying(s)
         /\ OfSequences([k \in 1..Len(s) |-> SaidBy(s[k])])
         /\ IsSequence(Saying(s))
<1> DEFINE gs == [k \in 1..Len(s) |-> SaidBy(s[k])]
<1>0. DOMAIN s = 1..Len(s) /\ Len(s) \in Nat
  BY SequenceFacts
<1>1. Apply(SaidBy, s) = gs
  BY <1>0 DEF Apply
<1>2. IsSequence(gs) /\ Len(gs) = Len(s) /\ \A k \in 1..Len(s) : gs[k] = SaidBy(s[k])
  BY <1>0, FunctionSequence
<1> HIDE DEF gs
<1>3. OfSequences(gs)
  BY <1>2 DEF OfSequences
<1> QED BY <1>1, <1>3, FlattenSequence DEF gs, Saying

(* What two arrays say one after the other.                                 *)
LEMMA SayingConcat ==
  ASSUME NEW s, NEW t, IsSequence(s), IsSequence(t),
         \A k \in 1..Len(s) : IsSequence(SaidBy(s[k])), \A k \in 1..Len(t) : IsSequence(SaidBy(t[k]))
  PROVE  Saying(s \o t) = Saying(s) \o Saying(t) /\ \A k \in 1..Len(s \o t) : IsSequence(SaidBy((s \o t)[k]))
<1> DEFINE gs == [k \in 1..Len(s) |-> SaidBy(s[k])]
           hs == [k \in 1..Len(t) |-> SaidBy(t[k])]
           u == s \o t
           us == [k \in 1..Len(u) |-> SaidBy(u[k])]
<1>0. /\ Len(s) \in Nat /\ Len(t) \in Nat /\ IsSequence(u) /\ Len(u) = Len(s) + Len(t)
      /\ \A k \in 1..Len(s) : u[k] = s[k]
      /\ \A k \in 1..Len(t) : u[Len(s) + k] = t[k]
  BY ConcatSequences, SequenceFacts
<1>1. OfSequences(gs) /\ OfSequences(hs)
  BY SayingIs
<1>2. IsSequence(gs) /\ Len(gs) = Len(s) /\ \A k \in 1..Len(s) : gs[k] = SaidBy(s[k])
  BY <1>0, FunctionSequence
<1>3. IsSequence(hs) /\ Len(hs) = Len(t) /\ \A k \in 1..Len(t) : hs[k] = SaidBy(t[k])
  BY <1>0, FunctionSequence
<1>4. ASSUME NEW k \in 1..Len(u) PROVE IsSequence(SaidBy(u[k]))
  <2>1. \/ k \in 1..Len(s) /\ u[k] = s[k]
        \/ k - Len(s) \in 1..Len(t) /\ u[k] = t[k - Len(s)]
    BY ConcatPlaces
  <2> QED BY <2>1
<1> HIDE DEF u
<1>5. IsSequence(us) /\ Len(us) = Len(u) /\ \A k \in 1..Len(u) : us[k] = SaidBy(u[k])
  BY <1>0, FunctionSequence
<1>6. (\A k \in 1..Len(s) : k \in 1..Len(u)) /\ (\A k \in 1..Len(t) : Len(s) + k \in 1..Len(u))
  BY <1>0
<1>7. (\A k \in 1..Len(gs) : us[k] = gs[k]) /\ (\A k \in 1..Len(hs) : us[Len(gs) + k] = hs[k])
  BY <1>0, <1>2, <1>3, <1>5, <1>6
<1> HIDE DEF gs, hs, us
<1>8. FlattenSeq(us) = FlattenSeq(gs) \o FlattenSeq(hs)
  BY <1>0, <1>1, <1>2, <1>3, <1>5, <1>7, GatheredConcat
<1> QED BY <1>4, <1>8 DEF Saying, gs, hs, us, u

(* An array that says nothing, and one that says one thing.                 *)
LEMMA SayingNone ==
  ASSUME NEW s, IsSequence(s), \A k \in 1..Len(s) : SaidBy(s[k]) = <<>>
  PROVE  Saying(s) = <<>>
<1> DEFINE gs == [k \in 1..Len(s) |-> SaidBy(s[k])]
<1>1. OfSequences(gs)
  BY SayingIs, EmptySequence
<1>2. \A k \in 1..Len(gs) : gs[k] = <<>>
  <2>1. Len(gs) = Len(s)
    BY FunctionSequence, SequenceFacts
  <2> QED BY <2>1
<1> HIDE DEF gs
<1>3. FlattenSeq(gs) = <<>>
  BY <1>1, <1>2, FlattenEmpties
<1> QED BY <1>3 DEF gs, Saying

LEMMA SayingOne ==
  ASSUME NEW p
  PROVE  Saying(<<p>>) = SaidBy(p)
<1>1. Len(<<p>>) = 1 /\ <<p>>[1] = p
  BY OneSequence
<1>2. [k \in 1..1 |-> SaidBy(<<p>>[k])] = <<SaidBy(p)>>
  <2>1. \A k \in 1..1 : k = 1
    OBVIOUS
  <2>2. [k \in 1..1 |-> SaidBy(<<p>>[k])] = [k \in 1..1 |-> SaidBy(p)]
    BY <1>1, <2>1
  <2>3. IsSequence([k \in 1..1 |-> SaidBy(p)]) /\ Len([k \in 1..1 |-> SaidBy(p)]) = 1
    BY FunctionSequence
  <2>4. \A k \in 1..1 : [j \in 1..1 |-> SaidBy(p)][k] = <<SaidBy(p)>>[k]
    BY <2>1, OneSequence
  <2> QED BY <2>2, <2>3, <2>4, OneSequence, SameSequence
<1> QED BY <1>1, <1>2, FlattenOne DEF Saying

(* What a content says: nothing, its text, or what its parts say.           *)
LEMMA ContentSays ==
  ASSUME NEW c, WellFormed(c)
  PROVE  /\ IsSequence(SaidIn(c)) /\ IsSequence(TextOf(c))
         /\ c.form # "array" => SaidIn(c) = TextOf(c)
         /\ c.form = "array" => SaidIn(c) = Saying(c.parts)
         /\ c.form = "null" => SaidIn(c) = <<>>
         /\ c.form = "string" => SaidIn(c) = c.text
<1>1. c.form = "array" => SaidIn(c) = Saying(c.parts) /\ IsSequence(SaidIn(c))
  BY WellFormedFacts, SayingIs DEF SaidIn
<1>2. c.form # "array" => SaidIn(c) = TextOf(c)
  BY DEF SaidIn
<1>3. IsSequence(TextOf(c))
  BY TextFormed
<1>4. (c.form = "null" => TextOf(c) = <<>>) /\ (c.form = "string" => TextOf(c) = c.text)
  BY DEF TextOf
<1> QED BY <1>1, <1>2, <1>3, <1>4
(* What a message says or instructs, and what messages do, one after the    *)
(* other.                                                                   *)
LEMMA PiecesOf ==
  ASSUME NEW m, WellFormed(m.content)
  PROVE  IsSequence(Voice(m)) /\ IsSequence(Order(m))
BY ContentSays, EmptySequence DEF Voice, Order

LEMMA VoicesAre ==
  ASSUME NEW ms, IsSequence(ms), \A k \in 1..Len(ms) : WellFormed(ms[k].content)
  PROVE  /\ OfSequences([k \in 1..Len(ms) |-> Voice(ms[k])]) /\ IsSequence(Voices(ms))
         /\ OfSequences([k \in 1..Len(ms) |-> Order(ms[k])]) /\ IsSequence(Orders(ms))
<1> DEFINE gs == [k \in 1..Len(ms) |-> Voice(ms[k])]
           hs == [k \in 1..Len(ms) |-> Order(ms[k])]
<1>0. Len(ms) \in Nat
  BY SequenceFacts
<1>1. IsSequence(gs) /\ Len(gs) = Len(ms) /\ \A k \in 1..Len(ms) : gs[k] = Voice(ms[k])
  BY <1>0, FunctionSequence
<1>2. IsSequence(hs) /\ Len(hs) = Len(ms) /\ \A k \in 1..Len(ms) : hs[k] = Order(ms[k])
  BY <1>0, FunctionSequence
<1> HIDE DEF gs, hs
<1>3. OfSequences(gs) /\ OfSequences(hs)
  BY <1>1, <1>2, PiecesOf DEF OfSequences
<1>4. IsSequence(FlattenSeq(gs)) /\ IsSequence(FlattenSeq(hs))
  BY <1>3, FlattenSequence
<1> QED BY <1>3, <1>4 DEF gs, hs, Voices, Orders

(* A message more.                                                          *)
LEMMA VoicesMore ==
  ASSUME NEW ms, IsSequence(ms), \A k \in 1..Len(ms) : WellFormed(ms[k].content),
         NEW m, WellFormed(m.content)
  PROVE  Voices(Append(ms, m)) = Voices(ms) \o Voice(m) /\ Orders(Append(ms, m)) = Orders(ms) \o Order(m)
<1> DEFINE n == Len(ms)
           ns == Append(ms, m)
           gs == [k \in 1..n |-> Voice(ms[k])]
           hs == [k \in 1..Len(ns) |-> Voice(ns[k])]
           is == [k \in 1..n |-> Order(ms[k])]
           js == [k \in 1..Len(ns) |-> Order(ns[k])]
<1>1. n \in Nat
  BY SequenceFacts
<1>2. /\ IsSequence(ns) /\ Len(ns) = n + 1 /\ ns[n + 1] = m
      /\ \A k \in 1..n : ns[k] = ms[k]
  BY ONLY IsSequence(ms), AppendFacts
<1>3. n + 1 \in 1..(n + 1) /\ \A k \in 1..n : k \in 1..(n + 1)
  BY <1>1
<1> HIDE DEF ns
<1>4. OfSequences(gs) /\ OfSequences(is)
  BY VoicesAre
<1>5. Len(gs) = n /\ Len(is) = n /\ (\A k \in 1..n : gs[k] = Voice(ms[k])) /\ \A k \in 1..n : is[k] = Order(ms[k])
  BY <1>1, FunctionSequence
<1>6. IsSequence(hs) /\ Len(hs) = n + 1 /\ \A k \in 1..(n + 1) : hs[k] = Voice(ns[k])
  BY <1>1, <1>2, FunctionSequence
<1>7. IsSequence(js) /\ Len(js) = n + 1 /\ \A k \in 1..(n + 1) : js[k] = Order(ns[k])
  BY <1>1, <1>2, FunctionSequence
<1> HIDE DEF gs, hs, is, js
<1>8. hs[n + 1] = Voice(m) /\ js[n + 1] = Order(m)
  BY <1>2, <1>3, <1>6, <1>7
<1>9. \A k \in 1..n : hs[k] = gs[k] /\ js[k] = is[k]
  BY <1>2, <1>3, <1>5, <1>6, <1>7
<1>10. IsSequence(Voice(m)) /\ IsSequence(Order(m))
  BY PiecesOf
<1> HIDE DEF n
<1>11. FlattenSeq(hs) = FlattenSeq(gs) \o hs[n + 1]
  BY <1>4, <1>5, <1>6, <1>8, <1>9, <1>10, FlattenGrown
<1>12. FlattenSeq(js) = FlattenSeq(is) \o js[n + 1]
  BY <1>4, <1>5, <1>7, <1>8, <1>9, <1>10, FlattenGrown
<1> QED BY <1>8, <1>11, <1>12 DEF Voices, Orders, gs, hs, is, js, ns, n

(* The speech and the instructions the properties speak of.                 *)
LEMMA SpeechIs ==
  ASSUME NEW ms, IsSequence(ms), \A k \in 1..Len(ms) : WellFormed(ms[k].content)
  PROVE  Speech(Spoken(ms)) = Voices(ms)
<1> DEFINE S == {m \in Range(ms) : ~Instructs(m)}
           f == [m \in Range(ms) |-> SaidIn(m.content)]
           picked == Pick(ms, S)
<1>0. DOMAIN ms = 1..Len(ms) /\ Len(ms) \in Nat
  BY SequenceFacts
<1>1. \A k \in 1..Len(ms) : ms[k] \in Range(ms) /\ (ms[k] \in S <=> ~Instructs(ms[k]))
  BY InRange
<1>2. Spoken(ms) = picked
  <2>1. [k \in 1..Len(ms) |-> IF ~Instructs(ms[k]) THEN <<ms[k]>> ELSE <<>>]
          = [k \in 1..Len(ms) |-> IF ms[k] \in S THEN <<ms[k]>> ELSE <<>>]
    BY <1>1
  <2> QED BY <1>0, <2>1 DEF Spoken, Select, Pick
<1>3. IsSequence(picked) /\ \A k \in 1..Len(picked) : picked[k] \in Range(ms) \cap S
  BY PickedFrom, PickFacts
<1>4. DOMAIN picked = 1..Len(picked)
  BY <1>3, SequenceFacts
<1> HIDE DEF picked
<1>5. Speech(picked) = FlattenSeq(Map(f, picked))
  <2>1. Map(f, picked) = [k \in DOMAIN picked |-> IF picked[k].content.form = "array"
                                                  THEN FlattenSeq(Apply(SaidBy, picked[k].content.parts))
                                                  ELSE TextOf(picked[k].content)]
    BY <1>3, <1>4 DEF Map, SaidIn
  <2> QED BY <2>1 DEF Speech, Apply
<1>6. \A k \in 1..Len(ms) : f[ms[k]] = SaidIn(ms[k].content)
  BY <1>1
<1>7. \A k \in 1..Len(ms) : ms[k] \in S => IsSequence(f[ms[k]])
  BY <1>6, ContentSays
<1>8. [k \in 1..Len(ms) |-> IF ms[k] \in S THEN f[ms[k]] ELSE <<>>] = [k \in 1..Len(ms) |-> Voice(ms[k])]
  BY <1>1, <1>6 DEF Voice
<1> HIDE DEF f, S
<1>9. FlattenSeq(Map(f, picked)) = FlattenSeq([k \in 1..Len(ms) |-> IF ms[k] \in S THEN f[ms[k]] ELSE <<>>])
  BY <1>7, FlatPick DEF picked
<1> QED BY <1>2, <1>5, <1>8, <1>9 DEF Voices

LEMMA InstructionsAre ==
  ASSUME NEW ms, IsSequence(ms), \A k \in 1..Len(ms) : WellFormed(ms[k].content)
  PROVE  /\ FlattenSeq(Apply(LAMBDA m : TextOf(m.content), Select(ms, Instructs))) = Orders(ms)
         /\ FlattenSeq(SystemTexts(ms)) = Orders(ms)
         /\ IsSequence(SystemTexts(ms)) /\ \A k \in 1..Len(SystemTexts(ms)) : IsSequence(SystemTexts(ms)[k])
<1> DEFINE S == {m \in Range(ms) : Instructs(m)}
           f == [m \in Range(ms) |-> TextOf(m.content)]
           picked == Pick(ms, S)
           ts == Apply(LAMBDA m : TextOf(m.content), Select(ms, Instructs))
           T == {t \in Range(ts) : t # <<>>}
           id == [t \in Range(ts) |-> t]
<1>0. DOMAIN ms = 1..Len(ms) /\ Len(ms) \in Nat
  BY SequenceFacts
<1>1. \A k \in 1..Len(ms) : ms[k] \in Range(ms) /\ (ms[k] \in S <=> Instructs(ms[k]))
  BY InRange
<1>2. Select(ms, Instructs) = picked
  <2>1. [k \in 1..Len(ms) |-> IF Instructs(ms[k]) THEN <<ms[k]>> ELSE <<>>]
          = [k \in 1..Len(ms) |-> IF ms[k] \in S THEN <<ms[k]>> ELSE <<>>]
    BY <1>1
  <2> QED BY <1>0, <2>1 DEF Select, Pick
<1>3. IsSequence(picked) /\ \A k \in 1..Len(picked) : picked[k] \in Range(ms) \cap S
  BY PickedFrom, PickFacts
<1>4. DOMAIN picked = 1..Len(picked)
  BY <1>3, SequenceFacts
<1>5. ts = Map(f, picked)
  <2>1. ts = [k \in DOMAIN picked |-> TextOf(picked[k].content)]
    BY <1>2 DEF Apply
  <2> HIDE DEF picked
  <2> QED BY <1>3, <1>4, <2>1 DEF Map
<1>6. \A k \in 1..Len(ms) : f[ms[k]] = TextOf(ms[k].content)
  BY <1>1
<1>7. \A k \in 1..Len(ms) : ms[k] \in S => IsSequence(f[ms[k]])
  BY <1>6, ContentSays
<1>8. [k \in 1..Len(ms) |-> IF ms[k] \in S THEN f[ms[k]] ELSE <<>>] = [k \in 1..Len(ms) |-> Order(ms[k])]
  BY <1>1, <1>6 DEF Order
<1>9. \A m \in Range(ms) : IsSequence(f[m])
  <2>1. \A m \in Range(ms) : WellFormed(m.content)
    BY <1>0 DEF Range
  <2> QED BY <2>1, ContentSays
<1>10. IsSequence(ts) /\ Len(ts) = Len(picked) /\ \A k \in 1..Len(ts) : ts[k] = f[picked[k]]
  <2> HIDE DEF ts, picked, f
  <2> QED BY <1>3, <1>5, MapSequence
<1> HIDE DEF f, S, ts
<1>11. FlattenSeq(ts) = Orders(ms)
  <2>1. FlattenSeq(Map(f, picked)) = FlattenSeq([k \in 1..Len(ms) |-> IF ms[k] \in S THEN f[ms[k]] ELSE <<>>])
    BY <1>7, FlatPick
  <2> QED BY <1>5, <1>8, <2>1 DEF Orders
<1> HIDE DEF picked
<1>12. \A k \in 1..Len(ts) : IsSequence(ts[k])
  BY <1>3, <1>9, <1>10
<1>13. DOMAIN ts = 1..Len(ts)
  BY <1>10, SequenceFacts
<1>14. SystemTexts(ms) = Pick(ts, T)
  <2>1. SystemTexts(ms) = Select(ts, LAMBDA t : t # <<>>)
    BY DEF SystemTexts, ts
  <2>2. [k \in 1..Len(ts) |-> IF ts[k] # <<>> THEN <<ts[k]>> ELSE <<>>]
          = [k \in 1..Len(ts) |-> IF ts[k] \in T THEN <<ts[k]>> ELSE <<>>]
    BY <1>10, InRange
  <2> QED BY <1>13, <2>1, <2>2 DEF Select, Pick
<1>15. IsSequence(Pick(ts, T)) /\ \A k \in 1..Len(Pick(ts, T)) : Pick(ts, T)[k] \in Range(ts) \cap T
  BY <1>10, PickedFrom, PickFacts
<1>16. \A k \in 1..Len(Pick(ts, T)) : IsSequence(Pick(ts, T)[k])
  BY <1>12, <1>13, <1>15 DEF Range
<1>17. DOMAIN Pick(ts, T) = 1..Len(Pick(ts, T))
  BY <1>15, SequenceFacts
<1>18. Map(id, Pick(ts, T)) = Pick(ts, T)
  <2> DEFINE pp == Pick(ts, T)
  <2>1. Map(id, pp) = [k \in 1..Len(pp) |-> pp[k]]
    <3> HIDE DEF pp
    <3> QED BY <1>15, <1>17 DEF Map, pp
  <2> QED BY <1>15, <2>1 DEF IsSequence
<1>19. \A k \in 1..Len(ts) : id[ts[k]] = ts[k] /\ (ts[k] \in T <=> ts[k] # <<>>)
  BY <1>10, InRange
<1>20. [k \in 1..Len(ts) |-> IF ts[k] \in T THEN id[ts[k]] ELSE <<>>] = ts
  <2>1. [k \in 1..Len(ts) |-> IF ts[k] \in T THEN id[ts[k]] ELSE <<>>] = [k \in 1..Len(ts) |-> ts[k]]
    BY <1>19
  <2> QED BY <1>10, <2>1 DEF IsSequence
<1>21. FlattenSeq(Map(id, Pick(ts, T))) = FlattenSeq([k \in 1..Len(ts) |-> IF ts[k] \in T THEN id[ts[k]] ELSE <<>>])
  <2>1. \A k \in 1..Len(ts) : ts[k] \in T => IsSequence(id[ts[k]])
    BY <1>12, <1>19
  <2> HIDE DEF T, id
  <2> QED BY <1>10, <2>1, FlatPick
<1>22. FlattenSeq(SystemTexts(ms)) = FlattenSeq(ts)
  BY <1>14, <1>18, <1>20, <1>21
<1> QED BY <1>11, <1>14, <1>15, <1>16, <1>22 DEF ts
(* A turn that calls tools says what it said.                               *)
LEMMA BlocksSay ==
  ASSUME NEW c, WellFormed(c)
  PROVE  /\ IsSequence(ContentBlocks(c)) /\ Saying(ContentBlocks(c)) = SaidIn(c)
         /\ \A k \in 1..Len(ContentBlocks(c)) : IsSequence(SaidBy(ContentBlocks(c)[k]))
<1> DEFINE blocks == ContentBlocks(c)
<1>0. \A k \in 1..Len(<<>>) : FALSE
  BY EmptySequence
<1>1. Saying(<<>>) = <<>>
  BY <1>0, EmptySequence, SayingNone
<1>2. CASE c.form = "null"
  <2>1. blocks = <<>> /\ SaidIn(c) = <<>>
    BY <1>2, ContentSays DEF ContentBlocks
  <2> QED BY <1>0, <1>1, <2>1, EmptySequence
<1>3. CASE c.form = "string" /\ c.text = <<>>
  <2>1. blocks = <<>> /\ SaidIn(c) = <<>>
    BY <1>3, ContentSays DEF ContentBlocks
  <2> QED BY <1>0, <1>1, <2>1, EmptySequence
<1>4. CASE c.form = "string" /\ c.text # <<>>
  <2>1. blocks = <<Text(c.text)>> /\ SaidIn(c) = c.text /\ IsSequence(c.text)
    BY <1>4, ContentSays, WellFormedFacts DEF ContentBlocks
  <2>2. SaidBy(Text(c.text)) = c.text
    BY PartsSaid
  <2>3. \A k \in 1..1 : k = 1
    OBVIOUS
  <2> HIDE DEF blocks
  <2> QED BY <2>1, <2>2, <2>3, OneSequence, SayingOne DEF blocks
<1>5. CASE c.form = "array"
  <2>1. blocks = c.parts
    BY <1>5 DEF ContentBlocks
  <2> HIDE DEF blocks
  <2> QED BY <1>5, <2>1, ContentSays, WellFormedFacts DEF blocks
<1> QED BY <1>2, <1>3, <1>4, <1>5, WellFormedFacts

LEMMA TurnVoiced ==
  ASSUME NEW m, Shaped(m), m.role = "assistant"
  PROVE  Voice(AssistantWithToolUse(m)) = Voice(m) /\ Order(AssistantWithToolUse(m)) = Order(m)
<1> DEFINE blocks == ContentBlocks(m.content)
           uses == [i \in DOMAIN m.calls |-> ToolUse(CallId(m.calls, i), m.calls[i].name)]
           t == AssistantWithToolUse(m)
<1>1. WellFormed(m.content) /\ IsSequence(m.calls) /\ DOMAIN m.calls = 1..Len(m.calls) /\ Len(m.calls) \in Nat
  BY ShapedFacts, SequenceFacts
<1>2. IsSequence(uses) /\ Len(uses) = Len(m.calls)
  BY <1>1, FunctionSequence
<1>3. \A k \in 1..Len(uses) : SaidBy(uses[k]) = <<>>
  <2>1. \A k \in 1..Len(uses) : uses[k] = ToolUse(CallId(m.calls, k), m.calls[k].name)
    BY <1>1, <1>2
  <2> HIDE DEF uses
  <2> QED BY <2>1, PartsSaid
<1>4. /\ IsSequence(blocks) /\ Saying(blocks) = SaidIn(m.content)
      /\ \A k \in 1..Len(blocks) : IsSequence(SaidBy(blocks[k]))
  BY <1>1, BlocksSay
<1>5. t = [m EXCEPT !.calls = <<>>, !.content = Parts(blocks \o uses)]
  BY DEF AssistantWithToolUse
<1>6. m = [role |-> m.role, content |-> m.content, calls |-> m.calls, id |-> m.id, name |-> m.name]
  BY DEF Shaped
<1> HIDE DEF blocks, uses, t
<1>7. t.role = m.role /\ t.content = Parts(blocks \o uses)
  BY <1>5, <1>6
<1>8. Saying(uses) = <<>>
  BY <1>2, <1>3, SayingNone
<1>9. Saying(blocks \o uses) = Saying(blocks) \o Saying(uses) /\ IsSequence(blocks \o uses)
      /\ \A k \in 1..Len(blocks \o uses) : IsSequence(SaidBy((blocks \o uses)[k]))
  <2>1. \A k \in 1..Len(uses) : IsSequence(SaidBy(uses[k]))
    BY <1>3, EmptySequence
  <2> QED BY <1>2, <1>4, <2>1, SayingConcat, ConcatSequences
<1>10. IsSequence(Saying(blocks))
  BY <1>4, SayingIs
<1>11. Saying(blocks \o uses) = SaidIn(m.content)
  BY <1>4, <1>8, <1>9, <1>10, ConcatEmpty
<1>12. SaidIn(Parts(blocks \o uses)) = Saying(blocks \o uses)
  <2>1. PICK s : s = blocks \o uses
    OBVIOUS
  <2>2. WellFormed(Parts(s)) /\ Parts(s).form = "array" /\ Parts(s).parts = s
    BY ONLY <1>9, <2>1, PartsFormed
  <2>3. SaidIn(Parts(s)) = Saying(Parts(s).parts)
    BY ONLY <2>2, ContentSays
  <2> QED BY ONLY <2>1, <2>2, <2>3
<1>13. SaidIn(t.content) = SaidIn(m.content)
  BY <1>7, <1>11, <1>12
<1>14. ~Instructs(t) /\ ~Instructs(m)
  BY <1>7 DEF Instructs
<1>15. Voice(t) = Voice(m) /\ Order(t) = Order(m)
  BY <1>13, <1>14 DEF Voice, Order
<1> QED BY <1>15 DEF t

(* A result that joins what is out says what it says, behind the others.    *)
LEMMA ResultVoiced ==
  ASSUME NEW out, Out(out), NEW id, NEW c, IsSequence(TextOf(c))
  PROVE  LET ns == AppendToolResult(out, ToolResult(id, c))
         IN  Voices(ns) = Voices(out) \o TextOf(c) /\ Orders(ns) = Orders(out)
<1> DEFINE n == Len(out)
           r == ToolResult(id, c)
           ns == AppendToolResult(out, r)
<1>0. SaidBy(r) = TextOf(c)
  BY PartsSaid
<1>1. IsSequence(out) /\ DOMAIN out = 1..n /\ n \in Nat /\ (out = <<>> <=> n = 0)
      /\ \A k \in 1..n : WellFormed(out[k].content)
  BY SequenceFacts, EmptySequence, ShapedFacts DEF Out, AllShaped
<1>a. Out(ns)
  BY ResultAppended
<1>2. CASE out # <<>> /\ OnlyResults(Last(out))
  <2> DEFINE m == out[n]
             p == m.content.parts
             t == Append(p, r)
             w == [m EXCEPT !.content.parts = t]
  <2>1. n \in 1..n /\ Last(out) = m /\ Shaped(m)
    BY <1>1, <1>2 DEF Out, AllShaped, Last
  <2>2. m.role = "user" /\ m.content.form = "array"
    BY <1>2, <2>1 DEF OnlyResults, PartsOf
  <2>3. /\ m.content = Parts(p) /\ IsSequence(p) /\ PartsOf(m.content) = p
        /\ \A k \in 1..Len(p) : IsSequence(SaidBy(p[k]))
    BY <2>1, <2>2, ShapedFacts, WellFormedFacts DEF PartsOf
  <2>4. ns = [out EXCEPT ![n].content.parts = Append(@, r)]
    BY <1>2 DEF AppendToolResult
  <2>5. ns = [out EXCEPT ![n] = w]
    BY <2>4
  <2>6. m = [role |-> m.role, content |-> m.content, calls |-> m.calls, id |-> m.id, name |-> m.name]
    BY <2>1 DEF Shaped
  <2>7. Saying(t) = Saying(p) \o TextOf(c) /\ IsSequence(t) /\ \A k \in 1..Len(t) : IsSequence(SaidBy(t[k]))
    <3>1. t = p \o <<r>> /\ IsSequence(t)
      BY <2>3, AppendSequence
    <3>2. IsSequence(<<r>>) /\ Saying(<<r>>) = TextOf(c) /\ \A k \in 1..Len(<<r>>) : IsSequence(SaidBy(<<r>>[k]))
      <4>1. \A k \in 1..1 : k = 1
        OBVIOUS
      <4> HIDE DEF r
      <4> QED BY <1>0, <4>1, OneSequence, SayingOne
    <3> HIDE DEF r, t, p
    <3>3. /\ Saying(p \o <<r>>) = Saying(p) \o Saying(<<r>>)
          /\ \A k \in 1..Len(p \o <<r>>) : IsSequence(SaidBy((p \o <<r>>)[k]))
      BY <2>3, <3>2, SayingConcat
    <3> QED BY <3>1, <3>2, <3>3
  <2> HIDE DEF t, p, ns
  <2>8. Parts(t) = [Parts(p) EXCEPT !.parts = t]
    BY DEF Parts
  <2>9. w = [m EXCEPT !.content = Parts(t)]
    <3>1. w = [m EXCEPT !.content = [m.content EXCEPT !.parts = t]]
      BY DEF w
    <3> QED BY <2>3, <2>8, <3>1
  <2> HIDE DEF m, w
  <2>10. w.role = "user" /\ w.content = Parts(t)
    BY <2>2, <2>6, <2>9
  <2>11. ns = [k \in 1..n |-> IF k = n THEN w ELSE out[k]]
    BY <1>1, <2>5
  <2>12. IsSequence(ns) /\ Len(ns) = n /\ \A k \in 1..n : ns[k] = IF k = n THEN w ELSE out[k]
    BY <1>1, <2>11, FunctionSequence
  <2>13. ~Instructs(w) /\ ~Instructs(m)
    BY <2>2, <2>10 DEF Instructs
  <2>14. Voice(m) = Saying(p) /\ Voice(w) = Saying(t) /\ Order(m) = <<>> /\ Order(w) = <<>>
    <3>1. SaidIn(Parts(t)) = Saying(t)
      BY <2>7, PartsFormed, ContentSays
    <3>2. SaidIn(Parts(p)) = Saying(p)
      BY <2>3, PartsFormed, ContentSays
    <3> QED BY <2>3, <2>10, <2>13, <3>1, <3>2 DEF Voice, Order
  <2>15. Voice(w) = Voice(m) \o TextOf(c)
    BY <2>7, <2>14
  <2>16. \A k \in 1..n : WellFormed(ns[k].content)
    BY <1>a, <2>12, ShapedFacts DEF Out, AllShaped, ns
  <2> DEFINE gs == [k \in 1..Len(out) |-> Voice(out[k])]
             hs == [k \in 1..Len(ns) |-> Voice(ns[k])]
             l == n - 1
  <2>17. OfSequences(gs) /\ OfSequences(hs)
    BY <1>1, <2>12, <2>16, VoicesAre
  <2>18. l \in Nat /\ n = l + 1 /\ \A k \in 1..l : k \in 1..n /\ k # n
    <3>1. n \in Nat /\ n >= 1
      BY <1>1, <2>1
    <3> HIDE DEF n
    <3> QED BY ONLY <3>1
  <2>19. Len(gs) = n /\ Len(hs) = n /\ \A k \in 1..n : gs[k] = Voice(out[k]) /\ hs[k] = Voice(ns[k])
    BY <1>1, <2>12, FunctionSequence
  <2>20. hs[n] = gs[n] \o TextOf(c) /\ \A k \in 1..l : hs[k] = gs[k]
    BY <2>1, <2>12, <2>15, <2>18, <2>19 DEF m
  <2>21. [k \in 1..Len(ns) |-> Order(ns[k])] = [k \in 1..Len(out) |-> Order(out[k])]
    BY <2>12, <2>14 DEF m
  <2> HIDE DEF gs, hs, l
  <2>22. FlattenSeq(hs) = FlattenSeq(gs) \o TextOf(c)
    <3>1. PICK nn : nn = l
      OBVIOUS
    <3>2. Len(gs) = nn + 1 /\ Len(hs) = nn + 1 /\ nn \in Nat /\ hs[nn + 1] = gs[nn + 1] \o TextOf(c)
          /\ \A k \in 1..nn : hs[k] = gs[k]
      BY <2>18, <2>19, <2>20, <3>1
    <3> QED BY <2>17, <3>2, FlattenLonger
  <2> QED BY <2>21, <2>22 DEF Voices, Orders, gs, hs, ns
<1>3. CASE ~(out # <<>> /\ OnlyResults(Last(out)))
  <2> DEFINE m == Message("user", Parts(<<r>>))
  <2>1. ns = Append(out, m)
    BY <1>3 DEF AppendToolResult
  <2>2. m.role = "user" /\ m.content = Parts(<<r>>)
    BY MessageFields
  <2> HIDE DEF m, r, ns
  <2>3. WellFormed(Parts(<<r>>)) /\ Saying(<<r>>) = TextOf(c)
    BY <1>0, OneFormed, SayingOne
  <2>4. SaidIn(Parts(<<r>>)) = Saying(<<r>>)
    BY <2>3, ContentSays DEF Parts
  <2>5. Voice(m) = TextOf(c) /\ Order(m) = <<>>
    BY <2>2, <2>3, <2>4 DEF Voice, Order, Instructs
  <2>6. Voices(Append(out, m)) = Voices(out) \o Voice(m) /\ Orders(Append(out, m)) = Orders(out) \o Order(m)
    BY <1>1, <2>2, <2>3, VoicesMore
  <2>7. IsSequence(Orders(out))
    BY <1>1, VoicesAre
  <2> QED BY <2>1, <2>5, <2>6, <2>7, ConcatEmpty DEF ns, r
<1> QED BY <1>2, <1>3 DEF ns, r

(* One call of ConvertMessage puts out what its message says, unless it is  *)
(* a result of no known call, and what its message instructs.               *)
LEMMA MessageVoiced ==
  ASSUME NEW st, Running(st), NEW m, Shaped(m)
  PROVE  LET out == ConvertMessage(st, m).out
         IN  /\ m.role \notin {"tool", "function"} => Voices(out) = Voices(st.out) \o Voice(m)
             /\ m.role \in {"tool", "function"} /\ AnsweredId(st, m) \in st.known =>
                  Voices(out) = Voices(st.out) \o TextOf(m.content)
             /\ Orders(out) = Orders(st.out) \o Order(m)
<1>0. st = [out |-> st.out, pending |-> st.pending, known |-> st.known] /\ Out(st.out)
  BY DEF Running
<1>a. IsSequence(st.out) /\ (\A k \in 1..Len(st.out) : WellFormed(st.out[k].content)) /\ WellFormed(m.content)
  BY <1>0, ShapedFacts DEF Out, AllShaped
<1>b. IsSequence(Orders(st.out))
  BY <1>a, VoicesAre
<1>1. CASE m.role = "assistant" /\ m.calls # <<>>
  <2>1. ConvertMessage(st, m).out = Append(st.out, AssistantWithToolUse(m))
    BY <1>1 DEF ConvertMessage
  <2>2. /\ WellFormed(AssistantWithToolUse(m).content)
        /\ Voice(AssistantWithToolUse(m)) = Voice(m) /\ Order(AssistantWithToolUse(m)) = Order(m)
    BY <1>1, TurnKept, TurnVoiced, ShapedFacts
  <2> QED BY <1>1, <1>a, <2>1, <2>2, VoicesMore
<1>2. CASE m.role \in {"tool", "function"}
  <2> DEFINE spent == Consumed(st, m)
             id == AnsweredId(st, m)
             block == ToolResult(id, ToolResultContent(m.content))
  <2>1. spent = [out |-> st.out, pending |-> spent.pending, known |-> st.known]
    BY <1>0 DEF Consumed
  <2>2. Order(m) = <<>>
    BY <1>2 DEF Order, Instructs
  <2>3. ConvertMessage(st, m) = IF id \notin st.known THEN spent
                                ELSE [spent EXCEPT !.out = AppendToolResult(@, block)]
    BY <1>2 DEF ConvertMessage
  <2> HIDE DEF spent
  <2>4. TextOf(ToolResultContent(m.content)) = TextOf(m.content) /\ IsSequence(TextOf(m.content))
    BY <1>a, TextFormed, ResultTextKept
  <2>5. /\ Voices(AppendToolResult(st.out, block)) = Voices(st.out) \o TextOf(m.content)
        /\ Orders(AppendToolResult(st.out, block)) = Orders(st.out)
    BY <1>0, <2>4, ResultVoiced
  <2>6. Orders(st.out) \o <<>> = Orders(st.out)
    BY <1>b, ConcatEmpty
  <2> HIDE DEF block, id
  <2>7. CASE id \notin st.known
    <3>1. ConvertMessage(st, m).out = st.out
      BY <2>1, <2>3, <2>7
    <3> QED BY <1>2, <2>2, <2>6, <2>7, <3>1 DEF id
  <2>8. CASE id \in st.known
    <3>1. ConvertMessage(st, m).out = AppendToolResult(st.out, block)
      BY <2>1, <2>3, <2>8
    <3> QED BY <1>2, <2>2, <2>5, <2>6, <2>8, <3>1
  <2> QED BY <2>7, <2>8
<1>3. CASE ~(m.role = "assistant" /\ m.calls # <<>>) /\ m.role \notin {"tool", "function"}
  <2>1. ConvertMessage(st, m) = [st EXCEPT !.out = Append(@, m)]
    BY <1>3 DEF ConvertMessage
  <2>2. ConvertMessage(st, m).out = Append(st.out, m)
    BY <1>0, <2>1
  <2> QED BY <1>3, <1>a, <2>2, VoicesMore
<1> QED BY <1>1, <1>2, <1>3
(* The instructions stay where they are in the conversion.                  *)
LEMMA ConversionOrders ==
  ASSUME NEW ms, AllShaped(ms)
  PROVE  Orders(Converted(ms).out) = Orders(ms)
<1> DEFINE InOrder(ns) == Running(Converted(ns)) /\ Orders(Converted(ns).out) = Orders(ns)
           S == {n \in Nat : InOrder(First(ms, n))}
<1>0. IsSequence(ms) /\ Len(ms) \in Nat
  BY DEF AllShaped, IsSequence
<1>1. 0 \in S
  <2>1. First(ms, 0) = <<>> /\ Converted(<<>>) = Unconverted
    BY <1>0, FirstFacts, ConvertedStep
  <2>2. Unconverted.out = <<>>
        /\ Unconverted = [out |-> Unconverted.out, pending |-> Unconverted.pending, known |-> Unconverted.known]
    BY DEF Unconverted
  <2>3. \A k \in 1..Len(<<>>) : FALSE
    BY EmptySequence
  <2>4. Out(<<>>)
    BY <2>3, EmptySequence DEF Out, AllShaped
  <2>5. Running(Unconverted)
    BY <2>2, <2>4 DEF Running
  <2>6. InOrder(<<>>)
    BY <2>1, <2>2, <2>5
  <2> QED BY <2>1, <2>6
<1>2. ASSUME NEW n \in Nat, n + 1 <= Len(ms), n \in S PROVE n + 1 \in S
  <2> DEFINE ns == First(ms, n)
             m == ms[n + 1]
  <2>1. n \in 0..Len(ms) /\ n + 1 \in 1..Len(ms)
    BY <1>0, <1>2
  <2>2. First(ms, n + 1) = Append(ns, m)
    BY <1>0, <1>2, FirstFacts
  <2>3. AllShaped(ns) /\ Shaped(m)
    BY <2>1, FirstShaped DEF AllShaped
  <2>4. Running(Converted(ns)) /\ Orders(Converted(ns).out) = Orders(ns)
    BY <1>2
  <2> HIDE DEF ns, m
  <2>5. Converted(Append(ns, m)) = ConvertMessage(Converted(ns), m)
    BY <2>3, ConvertedStep DEF AllShaped
  <2>6. /\ Running(Converted(Append(ns, m)))
        /\ Orders(Converted(Append(ns, m)).out) = Orders(Converted(ns).out) \o Order(m)
    BY <2>3, <2>4, <2>5, MessageConverted, MessageVoiced
  <2>7. Orders(Append(ns, m)) = Orders(ns) \o Order(m)
    BY <2>3, ShapedFacts, VoicesMore DEF AllShaped
  <2>8. InOrder(Append(ns, m))
    BY <2>4, <2>6, <2>7
  <2> HIDE DEF InOrder
  <2>9. InOrder(First(ms, n + 1))
    BY ONLY <2>2, <2>8, Zenon
  <2> QED BY <2>9
<1> HIDE DEF S
<1>3. Len(ms) \in S
  BY <1>0, <1>1, <1>2, GrowInduction
<1>4. InOrder(ms)
  BY <1>0, <1>3, FirstFacts DEF S
<1> QED BY <1>4

(* Taking the instructions out takes nothing of what the others say.        *)
LEMMA SilencedVoices ==
  ASSUME NEW ms, AllShaped(ms)
  PROVE  Voices(Silenced(ms)) = Voices(ms)
<1> DEFINE S == {m \in Range(ms) : ~Instructs(m)}
           f == [m \in Range(ms) |-> Message(m.role, m.content)]
           g == [m \in Range(ms) |-> Voice(m)]
           picked == Pick(ms, S)
           ns == Silenced(ms)
<1>0. IsSequence(ms) /\ DOMAIN ms = 1..Len(ms) /\ Len(ms) \in Nat
  BY SequenceFacts DEF AllShaped
<1>1. \A k \in 1..Len(ms) : ms[k] \in Range(ms) /\ (ms[k] \in S <=> ~Instructs(ms[k])) /\ g[ms[k]] = Voice(ms[k])
  BY <1>0, InRange
<1>2. \A m \in Range(ms) : IsSequence(g[m])
  <2>1. \A m \in Range(ms) : WellFormed(m.content)
    BY <1>0, ShapedFacts DEF Range, AllShaped
  <2> QED BY <2>1, PiecesOf
<1>3. Select(ms, LAMBDA m : ~Instructs(m)) = picked
  <2>1. [k \in 1..Len(ms) |-> IF ~Instructs(ms[k]) THEN <<ms[k]>> ELSE <<>>]
          = [k \in 1..Len(ms) |-> IF ms[k] \in S THEN <<ms[k]>> ELSE <<>>]
    BY <1>1
  <2> QED BY <1>0, <2>1 DEF Select, Pick
<1>4. IsSequence(picked) /\ \A k \in 1..Len(picked) : picked[k] \in Range(ms) \cap S
  BY <1>0, PickedFrom, PickFacts
<1>5. DOMAIN picked = 1..Len(picked)
  BY <1>4, SequenceFacts
<1>6. ns = Map(f, picked)
  BY <1>3, <1>4, <1>5 DEF Silenced, Apply, Map
<1>7. \A m \in Range(ms) : f[m] = Message(m.role, m.content) /\ g[m] = Voice(m)
  OBVIOUS
<1>8. ASSUME NEW m PROVE Voice(Message(m.role, m.content)) = Voice(m)
  <2>1. PICK w : w = Message(m.role, m.content)
    OBVIOUS
  <2>2. w.role = m.role /\ w.content = m.content
    BY <2>1 DEF Message
  <2> QED BY <2>1, <2>2 DEF Voice, Instructs
<1>9. [k \in 1..Len(ms) |-> IF ms[k] \in S THEN g[ms[k]] ELSE <<>>] = [k \in 1..Len(ms) |-> Voice(ms[k])]
  BY <1>1 DEF Voice
<1> HIDE DEF f, g, S, picked, ns
<1>10. IsSequence(ns) /\ Len(ns) = Len(picked) /\ \A k \in 1..Len(ns) : ns[k] = f[picked[k]]
  BY <1>4, <1>6, MapSequence
<1>11. \A k \in 1..Len(ns) : Voice(ns[k]) = g[picked[k]]
  BY <1>4, <1>7, <1>8, <1>10
<1>12. [k \in 1..Len(ns) |-> Voice(ns[k])] = Map(g, picked)
  BY <1>5, <1>10, <1>11 DEF Map
<1>13. FlattenSeq(Map(g, picked)) = FlattenSeq([k \in 1..Len(ms) |-> IF ms[k] \in S THEN g[ms[k]] ELSE <<>>])
  <2>1. \A k \in 1..Len(ms) : ms[k] \in S => IsSequence(g[ms[k]])
    BY <1>1, <1>2
  <2> QED BY <1>0, <2>1, FlatPick DEF picked
<1> QED BY <1>9, <1>12, <1>13 DEF Voices, ns

(* Images say nothing.                                                      *)
LEMMA ImagesSilent ==
  ASSUME NEW m, Shaped(m)
  PROVE  /\ WellFormed(ConvertImageParts(m).content) /\ Voice(ConvertImageParts(m)) = Voice(m)
<1>0. m = [role |-> m.role, content |-> m.content, calls |-> m.calls, id |-> m.id, name |-> m.name]
  BY DEF Shaped
<1>1. CASE m.content.form # "array"
  BY <1>1, ShapedFacts DEF ConvertImageParts
<1>2. CASE m.content.form = "array"
  <2> DEFINE s == m.content.parts
             S == {p \in Range(s) : p.type = "image_url" => p.url = "data"}
             f == [p \in Range(s) |-> Anthropic(p)]
             g == [p \in Range(s) |-> SaidBy(p)]
             picked == Pick(s, S)
             t == Apply(Anthropic, Select(s, LAMBDA p : p.type = "image_url" => p.url = "data"))
  <2>0. IsSequence(s) /\ DOMAIN s = 1..Len(s) /\ m.content = Parts(s) /\ \A k \in 1..Len(s) : IsSequence(SaidBy(s[k]))
    BY <1>2, ShapedFacts, WellFormedFacts, SequenceFacts
  <2>1. \A k \in 1..Len(s) : /\ s[k] \in Range(s) /\ g[s[k]] = SaidBy(s[k])
                             /\ s[k] \in S <=> (s[k].type = "image_url" => s[k].url = "data")
    BY <2>0, InRange
  <2>2. Select(s, LAMBDA p : p.type = "image_url" => p.url = "data") = picked
    <3>1. [k \in 1..Len(s) |-> IF s[k].type = "image_url" => s[k].url = "data" THEN <<s[k]>> ELSE <<>>]
            = [k \in 1..Len(s) |-> IF s[k] \in S THEN <<s[k]>> ELSE <<>>]
      BY <2>1
    <3> QED BY <2>0, <3>1 DEF Select, Pick
  <2>3. IsSequence(picked) /\ \A k \in 1..Len(picked) : picked[k] \in Range(s) \cap S
    BY <2>0, PickedFrom, PickFacts
  <2>4. DOMAIN picked = 1..Len(picked)
    BY <2>3, SequenceFacts
  <2>5. t = Map(f, picked)
    BY <2>2, <2>3, <2>4 DEF Apply, Map
  <2>6. \A p \in Range(s) : f[p] = Anthropic(p) /\ g[p] = SaidBy(p) /\ IsSequence(SaidBy(p))
    BY <2>0 DEF Range
  <2>7. \A p : SaidBy(Anthropic(p)) = SaidBy(p)
    BY DEF SaidBy, Anthropic, Image
  <2>8. \A p \in Range(s) : p \notin S => SaidBy(p) = <<>>
    BY DEF SaidBy
  <2>9. ConvertImageParts(m).content = Parts(t) /\ ConvertImageParts(m).role = m.role
    <3>1. ConvertImageParts(m) = [m EXCEPT !.content.parts = t]
      BY <1>2 DEF ConvertImageParts
    <3>2. ConvertImageParts(m) = [m EXCEPT !.content = [m.content EXCEPT !.parts = t]]
      BY <3>1
    <3> HIDE DEF t, s
    <3>4. ConvertImageParts(m).content = [m.content EXCEPT !.parts = t] /\ ConvertImageParts(m).role = m.role
      BY <1>0, <3>2
    <3> QED BY <2>0, <3>4 DEF Parts
  <2> HIDE DEF f, g, S, picked, t, s
  <2>10. IsSequence(t) /\ Len(t) = Len(picked) /\ \A k \in 1..Len(t) : t[k] = Anthropic(picked[k])
    BY <2>3, <2>5, <2>6, MapSequence
  <2>11. \A k \in 1..Len(t) : SaidBy(t[k]) = g[picked[k]] /\ IsSequence(SaidBy(t[k]))
    BY <2>3, <2>6, <2>7, <2>10
  <2>12. [k \in 1..Len(t) |-> SaidBy(t[k])] = Map(g, picked)
    BY <2>4, <2>10, <2>11 DEF Map
  <2>13. FlattenSeq(Map(g, picked)) = FlattenSeq([k \in 1..Len(s) |-> IF s[k] \in S THEN g[s[k]] ELSE <<>>])
    <3>1. \A k \in 1..Len(s) : s[k] \in S => IsSequence(g[s[k]])
      BY <2>0, <2>1
    <3> QED BY <2>0, <3>1, FlatPick DEF picked
  <2>14. [k \in 1..Len(s) |-> IF s[k] \in S THEN g[s[k]] ELSE <<>>] = [k \in 1..Len(s) |-> SaidBy(s[k])]
    BY <2>1, <2>8
  <2>15. Saying(t) = Saying(s)
    BY <2>12, <2>13, <2>14 DEF Saying
  <2>16. WellFormed(Parts(t)) /\ SaidIn(Parts(t)) = Saying(t)
    BY <2>10, <2>11, PartsFormed, ContentSays
  <2>17. SaidIn(Parts(s)) = Saying(s)
    BY <2>0, PartsFormed, ContentSays
  <2>18. SaidIn(ConvertImageParts(m).content) = SaidIn(m.content)
    BY <2>0, <2>9, <2>15, <2>16, <2>17
  <2> QED BY <2>9, <2>16, <2>18 DEF Voice, Instructs
<1> QED BY <1>1, <1>2

LEMMA ImagesKeepVoices ==
  ASSUME NEW ms, AllShaped(ms)
  PROVE  LET ns == Apply(ConvertImageParts, ms)
         IN  IsSequence(ns) /\ (\A k \in 1..Len(ns) : WellFormed(ns[k].content)) /\ Voices(ns) = Voices(ms)
<1> DEFINE ns == Apply(ConvertImageParts, ms)
<1>1. IsSequence(ms) /\ DOMAIN ms = 1..Len(ms) /\ Len(ms) \in Nat
  BY SequenceFacts DEF AllShaped
<1>2. ns = [k \in 1..Len(ms) |-> ConvertImageParts(ms[k])]
  BY <1>1 DEF Apply
<1>3. IsSequence(ns) /\ Len(ns) = Len(ms) /\ \A k \in 1..Len(ms) : ns[k] = ConvertImageParts(ms[k])
  BY <1>1, <1>2, FunctionSequence
<1> HIDE DEF ns
<1>4. \A k \in 1..Len(ns) : WellFormed(ns[k].content) /\ Voice(ns[k]) = Voice(ms[k])
  BY <1>3, ImagesSilent DEF AllShaped
<1>5. [k \in 1..Len(ns) |-> Voice(ns[k])] = [k \in 1..Len(ms) |-> Voice(ms[k])]
  BY <1>3, <1>4
<1> QED BY <1>3, <1>4, <1>5 DEF ns, Voices
(* Without results among its parts, what an array says is its text.         *)
LEMMA JoinedSays ==
  ASSUME NEW s, IsSequence(s), \A k \in 1..Len(s) : IsSequence(SaidBy(s[k])),
         \A k \in 1..Len(s) : s[k].type # "tool_result"
  PROVE  Joined(s) = Saying(s)
<1>1. Joined(s) = FlattenSeq([k \in 1..Len(s) |-> IF s[k].type = "text" THEN s[k].text ELSE <<>>])
  BY JoinedFormed
<1>2. \A k \in 1..Len(s) : SaidBy(s[k]) = IF s[k].type = "text" THEN s[k].text ELSE <<>>
  BY DEF SaidBy
<1>3. [k \in 1..Len(s) |-> IF s[k].type = "text" THEN s[k].text ELSE <<>>] = [k \in 1..Len(s) |-> SaidBy(s[k])]
  BY <1>2
<1> QED BY <1>1, <1>3 DEF Saying

(* The system field with promoted texts behind it, flattened or not, reads  *)
(* as the one and then the others.                                          *)
LEMMA TextsSay ==
  ASSUME NEW texts, OfSequences(texts)
  PROVE  /\ IsSequence(Apply(Text, texts)) /\ Saying(Apply(Text, texts)) = FlattenSeq(texts)
         /\ \A k \in 1..Len(Apply(Text, texts)) :
              IsSequence(SaidBy(Apply(Text, texts)[k])) /\ Apply(Text, texts)[k].type = "text"
<1> DEFINE added == Apply(Text, texts)
<1>0. IsSequence(texts) /\ DOMAIN texts = 1..Len(texts) /\ Len(texts) \in Nat
  BY SequenceFacts DEF OfSequences
<1>1. added = [k \in 1..Len(texts) |-> Text(texts[k])]
  BY <1>0 DEF Apply
<1>2. IsSequence(added) /\ Len(added) = Len(texts) /\ \A k \in 1..Len(texts) : added[k] = Text(texts[k])
  BY <1>0, <1>1, FunctionSequence
<1>3. \A t : Text(t).type = "text" /\ SaidBy(Text(t)) = t
  BY PartsSaid DEF Text
<1> HIDE DEF added
<1>4. \A k \in 1..Len(added) : SaidBy(added[k]) = texts[k] /\ added[k].type = "text"
  <2>1. SUFFICES ASSUME NEW k \in 1..Len(added) PROVE SaidBy(added[k]) = texts[k] /\ added[k].type = "text"
    OBVIOUS
  <2>2. added[k] = Text(texts[k])
    BY <1>2
  <2> QED BY <1>3, <2>2
<1>5. [k \in 1..Len(added) |-> SaidBy(added[k])] = texts
  <2>1. [k \in 1..Len(added) |-> SaidBy(added[k])] = [k \in 1..Len(texts) |-> texts[k]]
    BY <1>2, <1>4
  <2> QED BY <1>0, <2>1 DEF IsSequence
<1>6. \A k \in 1..Len(added) : IsSequence(SaidBy(added[k])) /\ added[k].type = "text"
  BY <1>2, <1>4 DEF OfSequences
<1> QED BY <1>2, <1>5, <1>6 DEF added, Saying

LEMMA FlattenedSays ==
  ASSUME NEW sys
  PROVE  TextOf(FlattenSystem(sys)) = TextOf(sys)
<1>1. CASE FlattenSystem(sys) = sys
  BY <1>1
<1>2. CASE FlattenSystem(sys) # sys
  <2>1. sys.form = "array" /\ FlattenSystem(sys) = Str(Joined(sys.parts))
    BY <1>2 DEF FlattenSystem
  <2>2. TextOf(sys) = Joined(sys.parts)
    BY <2>1 DEF TextOf
  <2>3. \A t : TextOf(Str(t)) = t
    BY DEF TextOf, Str
  <2> QED BY <2>1, <2>2, <2>3
<1> QED BY <1>1, <1>2

LEMMA SystemTold ==
  ASSUME NEW sys, WellFormed(sys), TextBlocks(sys), NEW texts, OfSequences(texts)
  PROVE  TextOf(FlattenSystem(AppendSystemText(sys, texts))) = TextOf(sys) \o FlattenSeq(texts)
<1> DEFINE new == AppendSystemText(sys, texts)
<1>1. CASE sys.form # "array"
  <2>1. new = Str(TextOf(sys) \o FlattenSeq(texts))
    BY <1>1 DEF AppendSystemText
  <2>2. \A t : TextOf(Str(t)) = t
    BY DEF TextOf, Str
  <2>3. TextOf(new) = TextOf(sys) \o FlattenSeq(texts)
    BY <2>1, <2>2
  <2> QED BY <2>3, FlattenedSays
<1>2. CASE sys.form = "array"
  <2> DEFINE s == sys.parts
             added == Apply(Text, texts)
  <2>1. /\ sys = Parts(s) /\ IsSequence(s) /\ \A k \in 1..Len(s) : IsSequence(SaidBy(s[k])) /\ s[k].type = "text"
    BY <1>2, WellFormedFacts DEF TextBlocks
  <2>2. IsSequence(added) /\ Saying(added) = FlattenSeq(texts)
        /\ \A k \in 1..Len(added) : IsSequence(SaidBy(added[k])) /\ added[k].type = "text"
    BY TextsSay
  <2>3. TextOf(sys) = Joined(s)
    BY <1>2 DEF TextOf
  <2>4. new = Parts(s \o added)
    BY <1>2 DEF AppendSystemText
  <2> HIDE DEF s, added
  <2>5. TextOf(new) = Joined(s \o added)
    BY <2>4 DEF TextOf, Parts
  <2>6. Joined(s) = Saying(s)
    BY <2>1, JoinedSays
  <2>7. IsSequence(s \o added) /\ Saying(s \o added) = Saying(s) \o Saying(added)
        /\ \A k \in 1..Len(s \o added) : IsSequence(SaidBy((s \o added)[k]))
    BY <2>1, <2>2, SayingConcat, ConcatSequences
  <2>8. \A k \in 1..Len(s \o added) : (s \o added)[k].type # "tool_result"
    <3>1. SUFFICES ASSUME NEW k \in 1..Len(s \o added) PROVE (s \o added)[k].type # "tool_result"
      OBVIOUS
    <3>2. \/ k \in 1..Len(s) /\ (s \o added)[k] = s[k]
          \/ k - Len(s) \in 1..Len(added) /\ (s \o added)[k] = added[k - Len(s)]
      BY <2>1, <2>2, ConcatPlaces
    <3>3. (s \o added)[k].type = "text"
      BY <2>1, <2>2, <3>2
    <3> QED BY <3>3
  <2>9. Joined(s \o added) = Saying(s \o added)
    BY <2>7, <2>8, JoinedSays
  <2> QED BY <2>2, <2>3, <2>5, <2>6, <2>7, <2>9, FlattenedSays
<1> QED BY <1>1, <1>2

(* What the bridge does behind the conversion of the messages: the system   *)
(* field takes the instructions, and the messages say what they said.       *)
LEMMA ImagedVoices ==
  ASSUME NEW body, HasField(body), AllShaped(body.messages), WellFormed(body.system), TextBlocks(body.system)
  PROVE  /\ TextOf(Imaged(body).system) = TextOf(body.system) \o Orders(body.messages)
         /\ Speech(Spoken(Imaged(body).messages)) = Voices(body.messages)
<1> DEFINE texts == SystemTexts(body.messages)
           promoted == PromoteSystemMessages(body)
           ms == promoted.messages
           new == promoted.system
<1>0. IsSequence(body.messages) /\ \A k \in 1..Len(body.messages) : WellFormed(body.messages[k].content)
  BY ShapedFacts DEF AllShaped
<1>1. OfSequences(texts) /\ FlattenSeq(texts) = Orders(body.messages)
  BY <1>0, InstructionsAre DEF OfSequences
<1>2. /\ HasField(promoted)
      /\ texts = <<>> => new = body.system
      /\ texts # <<>> => new = AppendSystemText(body.system, texts)
      /\ ms = body.messages \/ ms = Silenced(body.messages)
  <2>1. CASE texts = <<>>
    <3>1. promoted = body
      BY <2>1 DEF PromoteSystemMessages
    <3> QED BY <2>1, <3>1
  <2>2. CASE texts # <<>>
    <3>1. promoted = [body EXCEPT !.system = AppendSystemText(@, texts), !.messages = Silenced(@)]
      BY <2>2 DEF PromoteSystemMessages, Silenced
    <3> HIDE DEF promoted, texts
    <3> QED BY <2>2, <3>1 DEF HasField
  <2> QED BY <2>1, <2>2
<1>3. AllShaped(ms) /\ Voices(ms) = Voices(body.messages)
  BY <1>2, InstructionsUnmarked, SilencedVoices
<1>4. Imaged(body) = [[promoted EXCEPT !.messages = Apply(ConvertImageParts, @)] EXCEPT !.system = FlattenSystem(@)]
  BY DEF Imaged, ConvertImagePartsToAnthropic
<1> HIDE DEF promoted
<1>5. /\ Imaged(body).messages = Apply(ConvertImageParts, ms)
      /\ Imaged(body).system = FlattenSystem(new)
  BY <1>2, <1>4 DEF HasField
<1> HIDE DEF ms, new, texts
<1>6. TextOf(FlattenSystem(new)) = TextOf(body.system) \o FlattenSeq(texts)
  <2>1. CASE texts = <<>>
    <3>1. IsSequence(TextOf(body.system))
      BY ContentSays
    <3> QED BY <1>2, <2>1, <3>1, FlattenedSays, FlattenNone, ConcatEmpty
  <2>2. CASE texts # <<>>
    BY <1>1, <1>2, <2>2, SystemTold
  <2> QED BY <2>1, <2>2
<1>7. Speech(Spoken(Apply(ConvertImageParts, ms))) = Voices(ms)
  <2>1. PICK ns : ns = Apply(ConvertImageParts, ms)
    OBVIOUS
  <2>2. IsSequence(ns) /\ (\A k \in 1..Len(ns) : WellFormed(ns[k].content)) /\ Voices(ns) = Voices(ms)
    BY <1>3, <2>1, ImagesKeepVoices
  <2> QED BY <2>1, <2>2, SpeechIs
<1> QED BY <1>1, <1>3, <1>5, <1>6, <1>7
-----------------------------------------------------------------------------
(* The steps of a chat client: it says something, calls tools, or returns   *)
(* the result of an open call.                                              *)
Speaks(m) ==
  /\ m.role \in {"system", "developer", "user", "assistant"} /\ m.calls = <<>>
  /\ open = <<>> /\ open' = <<>>
CallsTools(m) ==
  /\ m.role = "assistant" /\ open = <<>> /\ open' = m.calls
  /\ \A i \in DOMAIN m.calls : m.calls[i].name \in Functions
  /\ \/ \A i \in DOMAIN m.calls : m.calls[i].id = ""
     \/ Used + Len(m.calls) <= Len(CallIds) /\ \A i \in DOMAIN m.calls : m.calls[i].id = CallIds[Used + i]
Returns(m) ==
  \E i \in DOMAIN open :
    /\ open' = Rest(open, i) /\ m.calls = <<>>
    /\ \/ m.role = "tool" /\ m.id = open[i].id /\ m.id # ""
       \/ m.role = "function" /\ m.id = "" /\ m.name = open[i].name

(* What a message of a chat says: instructions are text, and so is what a   *)
(* result says; only a turn of the assistant calls tools.                   *)
ChatTurn(m) ==
  /\ m.role \in {"system", "developer", "user", "assistant", "tool", "function"}
  /\ Instructs(m) => TextBlocks(m.content)
  /\ SaidIn(m.content) = TextOf(m.content)
  /\ m.calls # <<>> => m.role = "assistant"
  /\ \A k \in 1..Len(PartsOf(m.content)) : PartsOf(m.content)[k].type \in {"text", "image_url"}

(* A string, or an array of texts and images.                               *)
Talkative(c) ==
  /\ WellFormed(c) /\ SaidIn(c) = TextOf(c)
  /\ \A k \in 1..Len(PartsOf(c)) : PartsOf(c)[k].type \in {"text", "image_url"}

LEMMA TalkativeString ==
  /\ Talkative(Null) /\ Talkative(Str(<<>>)) /\ (\A n : Talkative(Str(Passage(n))))
  /\ TextBlocks(Null) /\ TextBlocks(Str(<<>>)) /\ (\A n : TextBlocks(Str(Passage(n))))
<1>1. \A k \in 1..Len(<<>>) : FALSE
  BY EmptySequence
<1>2. \A t : Str(t).form = "string" /\ PartsOf(Str(t)) = <<>> /\ SaidIn(Str(t)) = TextOf(Str(t))
  BY DEF Str, PartsOf, SaidIn
<1>3. Null.form = "null" /\ PartsOf(Null) = <<>> /\ SaidIn(Null) = TextOf(Null)
  BY DEF Null, PartsOf, SaidIn
<1>4. ASSUME NEW c, PartsOf(c) = <<>>, WellFormed(c), SaidIn(c) = TextOf(c) PROVE Talkative(c)
  BY <1>1, <1>4 DEF Talkative
<1>5. ASSUME NEW t PROVE TextBlocks(Str(t)) /\ (WellFormed(Str(t)) => Talkative(Str(t)))
  BY <1>2, <1>4 DEF TextBlocks
<1>6. TextBlocks(Null) /\ Talkative(Null)
  BY <1>3, <1>4, SpeechFormed DEF TextBlocks
<1> QED BY <1>5, <1>6, SpeechFormed

LEMMA TalkativeArray ==
  ASSUME NEW s, IsSequence(s), \A k \in 1..Len(s) : IsSequence(SaidBy(s[k])) /\ s[k].type \in {"text", "image_url"}
  PROVE  Talkative(Parts(s)) /\ ((\A k \in 1..Len(s) : s[k].type = "text") => TextBlocks(Parts(s)))
<1>1. WellFormed(Parts(s)) /\ Parts(s).form = "array" /\ Parts(s).parts = s /\ PartsOf(Parts(s)) = s
  BY PartsFormed
<1>2. Joined(s) = Saying(s)
  BY JoinedSays
<1>3. SaidIn(Parts(s)) = TextOf(Parts(s))
  <2>1. SaidIn(Parts(s)) = Saying(s)
    BY <1>1, ContentSays
  <2>2. TextOf(Parts(s)) = Joined(s)
    BY <1>1 DEF TextOf
  <2> QED BY <1>2, <2>1, <2>2
<1>4. Talkative(Parts(s))
  BY <1>1, <1>3 DEF Talkative
<1>5. (\A k \in 1..Len(s) : s[k].type = "text") => TextBlocks(Parts(s))
  BY <1>1 DEF TextBlocks
<1> QED BY <1>4, <1>5

LEMMA TalkativeOne ==
  ASSUME NEW p, IsSequence(SaidBy(p)), p.type \in {"text", "image_url"}
  PROVE  Talkative(Parts(<<p>>))
<1>1. \A k \in 1..1 : k = 1
  OBVIOUS
<1>2. IsSequence(<<p>>) /\ Len(<<p>>) = 1 /\ <<p>>[1] = p
  BY OneSequence
<1>3. PICK s : s = <<p>>
  OBVIOUS
<1>4. IsSequence(s) /\ \A k \in 1..Len(s) : IsSequence(SaidBy(s[k])) /\ s[k].type \in {"text", "image_url"}
  BY <1>1, <1>2, <1>3
<1> QED BY <1>3, <1>4, TalkativeArray

LEMMA TalkativeTwo ==
  ASSUME NEW p, NEW q, IsSequence(SaidBy(p)), IsSequence(SaidBy(q)),
         p.type \in {"text", "image_url"}, q.type \in {"text", "image_url"}
  PROVE  Talkative(Parts(<<p, q>>)) /\ (p.type = "text" /\ q.type = "text" => TextBlocks(Parts(<<p, q>>)))
<1>1. PICK s : s = <<p, q>>
  OBVIOUS
<1>2. IsSequence(s) /\ \A k \in 1..Len(s) : s[k] = p \/ s[k] = q
  BY <1>1, TwoSequence
<1>3. IsSequence(s) /\ \A k \in 1..Len(s) : IsSequence(SaidBy(s[k])) /\ s[k].type \in {"text", "image_url"}
  BY <1>2
<1>4. p.type = "text" /\ q.type = "text" => \A k \in 1..Len(s) : s[k].type = "text"
  BY <1>2
<1> QED BY <1>1, <1>3, <1>4, TalkativeArray

(* A message that is said: a turn of the chat.                              *)
LEMMA SaidTurn ==
  ASSUME NEW role \in {"system", "developer", "user", "assistant"}, NEW c, Talkative(c),
         role \in {"user", "assistant"} \/ TextBlocks(c),
         open = <<>>, open' = <<>>
  PROVE  Shaped(Message(role, c)) /\ ChatTurn(Message(role, c)) /\ Speaks(Message(role, c))
<1>1. PICK m : m = Message(role, c)
  OBVIOUS
<1>2. m.role = role /\ m.content = c /\ m.calls = <<>>
  BY <1>1, MessageFields
<1>3. Shaped(m)
  BY <1>1, PlainShaped DEF Talkative
<1>4. ChatTurn(m)
  BY <1>2 DEF ChatTurn, Talkative, Instructs
<1>5. Speaks(m)
  BY <1>2 DEF Speaks
<1> QED BY <1>1, <1>3, <1>4, <1>5

LEMMA CallingTurn ==
  ASSUME NEW c, Talkative(c), NEW calls, IsSequence(calls), open = <<>>, open' = calls,
         \A i \in 1..Len(calls) : calls[i].name \in Functions,
         \/ \A i \in 1..Len(calls) : calls[i].id = ""
         \/ Used + Len(calls) <= Len(CallIds) /\ \A i \in 1..Len(calls) : calls[i].id = CallIds[Used + i]
  PROVE  /\ Shaped(Calling(c, calls)) /\ ChatTurn(Calling(c, calls)) /\ CallsTools(Calling(c, calls))
<1>1. PICK m : m = Calling(c, calls)
  OBVIOUS
<1>2. Shaped(m) /\ m.role = "assistant" /\ m.content = c /\ m.calls = calls
  <2>1. WellFormed(c) /\ IsSequence(calls)
    BY DEF Talkative
  <2>2. Shaped(Calling(c, calls)) /\ Calling(c, calls).role = "assistant"
    BY ONLY <2>1, CallingShaped
  <2>3. Calling(c, calls).content = c /\ Calling(c, calls).calls = calls
    BY ONLY <2>1, CallingShaped
  <2> QED BY ONLY <1>1, <2>2, <2>3
<1>3. ChatTurn(m)
  BY <1>2 DEF ChatTurn, Talkative, Instructs
<1>4. CallsTools(m)
  BY <1>2, SequenceFacts DEF CallsTools
<1> QED BY <1>1, <1>2, <1>3, <1>4

LEMMA ResultTurn ==
  ASSUME NEW c, Talkative(c), NEW i \in DOMAIN open, open' = Rest(open, i)
  PROVE  /\ open[i].id # "" => LET m == ToolMessage(open[i].id, c) IN Shaped(m) /\ ChatTurn(m) /\ Returns(m)
         /\ LET m == [Message("function", c) EXCEPT !.name = open[i].name] IN Shaped(m) /\ ChatTurn(m) /\ Returns(m)
<1>1. PICK m : m = ToolMessage(open[i].id, c)
  OBVIOUS
<1>2. PICK f : f = [Message("function", c) EXCEPT !.name = open[i].name]
  OBVIOUS
<1>0. WellFormed(c)
  BY DEF Talkative
<1>3. Shaped(m) /\ m.role = "tool" /\ m.content = c /\ m.calls = <<>> /\ m.id = open[i].id
  BY ONLY <1>0, <1>1, ToolShaped
<1>4. Shaped(f) /\ f.role = "function" /\ f.content = c /\ f.calls = <<>> /\ f.id = "" /\ f.name = open[i].name
  <2>1. PICK x, v : x = open[i].name /\ v = Message("function", c) /\ f = [v EXCEPT !.name = x]
    BY ONLY <1>2
  <2>2. FunctionResult(f, c, x)
    BY ONLY <1>0, <2>1, FunctionShaped
  <2> QED BY ONLY <2>1, <2>2 DEF FunctionResult
<1>5. ChatTurn(m)
  BY <1>3 DEF ChatTurn, Talkative, Instructs
<1>6. ChatTurn(f)
  BY <1>4 DEF ChatTurn, Talkative, Instructs
<1>7. (open[i].id # "" => Returns(m)) /\ Returns(f)
  BY <1>3, <1>4 DEF Returns
<1>8. open[i].id # "" => Shaped(m) /\ ChatTurn(m) /\ Returns(m)
  BY <1>3, <1>5, <1>7
<1>9. Shaped(f) /\ ChatTurn(f) /\ Returns(f)
  BY <1>4, <1>6, <1>7
<1> QED BY ONLY <1>1, <1>2, <1>8, <1>9

LEMMA ChatSteps ==
  ASSUME SystemSays \/ UserSays \/ AssistantSays \/ AssistantCalls \/ ToolReturns \/ FunctionReturns
  PROVE  kind = "chat" /\ \E m : Shaped(m) /\ ChatTurn(m) /\ Says(m) /\ (Speaks(m) \/ CallsTools(m) \/ Returns(m))
<1>0. /\ \A k : IsSequence(SaidBy(Text(Passage(k)))) /\ IsSequence(SaidBy(MarkedText(Passage(k))))
      /\ \A u : IsSequence(SaidBy(ImageUrl(u))) /\ ImageUrl(u).type = "image_url"
      /\ \A t : Text(t).type = "text" /\ MarkedText(t).type = "text"
  <2>1. \A t : Text(t).type = "text" /\ MarkedText(t).type = "text"
    BY DEF Text, MarkedText
  <2>2. \A u : ImageUrl(u).type = "image_url"
    BY DEF ImageUrl
  <2> QED BY <2>1, <2>2, PartsSaid, SpeechFormed, EmptySequence
<1>1. CASE SystemSays
  <2>1. /\ Talkative(Parts(<<MarkedText(Passage(1)), Text(Passage(2))>>))
        /\ TextBlocks(Parts(<<MarkedText(Passage(1)), Text(Passage(2))>>))
    BY <1>0, TalkativeTwo
  <2>2. PICK role \in {"system", "developer"},
                c \in {Str(Passage(1)), Str(<<>>), Parts(<<MarkedText(Passage(1)), Text(Passage(2))>>)} :
          kind = "chat" /\ open = <<>> /\ open' = <<>> /\ Says(Message(role, c))
    BY <1>1 DEF SystemSays, Free
  <2>3. Talkative(c) /\ TextBlocks(c)
    BY <2>1, <2>2, TalkativeString
  <2>4. Shaped(Message(role, c)) /\ ChatTurn(Message(role, c)) /\ Speaks(Message(role, c))
    BY <2>2, <2>3, SaidTurn
  <2> QED BY <2>2, <2>4
<1>2. CASE UserSays
  <2>1. PICK c : /\ Says(Message("user", c)) /\ open = <<>> /\ open' = <<>> /\ kind = "chat"
                 /\ c \in {Str(Passage(1)), Parts(<<MarkedText(Passage(1))>>),
                           Parts(<<ImageUrl("data"), Text(Passage(1))>>),
                           Parts(<<Text(Passage(1)), ImageUrl("remote")>>)}
    BY <1>2 DEF UserSays, Free
  <2>2. Talkative(c)
    <3>1. Talkative(Parts(<<MarkedText(Passage(1))>>))
      BY <1>0, TalkativeOne
    <3>2. Talkative(Parts(<<ImageUrl("data"), Text(Passage(1))>>))
          /\ Talkative(Parts(<<Text(Passage(1)), ImageUrl("remote")>>))
      BY <1>0, TalkativeTwo
    <3> QED BY <2>1, <3>1, <3>2, TalkativeString
  <2>3. Shaped(Message("user", c)) /\ ChatTurn(Message("user", c)) /\ Speaks(Message("user", c))
    BY <2>1, <2>2, SaidTurn
  <2> QED BY <2>1, <2>3
<1>3. CASE AssistantSays
  <2>1. /\ Says(Message("assistant", Str(Passage(1)))) /\ open = <<>> /\ open' = <<>> /\ kind = "chat"
    BY <1>3 DEF AssistantSays, Free
  <2>2. PICK m : m = Message("assistant", Str(Passage(1)))
    OBVIOUS
  <2>3. Shaped(m) /\ ChatTurn(m) /\ Speaks(m)
    BY <2>1, <2>2, TalkativeString, SaidTurn
  <2> QED BY <2>1, <2>2, <2>3
<1>4. CASE AssistantCalls
  <2>1. PICK names, content, calls :
          /\ names \in CallLists /\ content \in {Null, Str(Passage(1))}
          /\ kind = "chat" /\ open = <<>> /\ Used + Len(names) <= Len(CallIds)
          /\ Says(Calling(content, calls)) /\ open' = calls
          /\ calls = Calls(names) \/ calls = Apply(LAMBDA f : Call("", f), names)
    BY <1>4 DEF AssistantCalls
  <2>2. /\ IsSequence(names) /\ DOMAIN names = 1..Len(names) /\ Len(names) \in Nat
        /\ \A i \in 1..Len(names) : names[i] \in Functions
    BY <2>1, CallListsAssumption, TypedSequence, SequenceFacts
  <2>3. Talkative(content)
    BY <2>1, TalkativeString
  <2>4. \A id, name : Call(id, name).id = id /\ Call(id, name).name = name
    BY DEF Call
  <2>5. CASE calls = Calls(names)
    <3>1. calls = [i \in 1..Len(names) |-> Call(CallIds[Used + i], names[i])]
      BY <2>2, <2>5 DEF Calls
    <3>2. IsSequence(calls) /\ Len(calls) = Len(names)
      BY <2>2, <3>1, FunctionSequence
    <3>3. \A i \in 1..Len(calls) : calls[i].name \in Functions /\ calls[i].id = CallIds[Used + i]
      <4>1. SUFFICES ASSUME NEW i \in 1..Len(names)
                     PROVE  calls[i].name \in Functions /\ calls[i].id = CallIds[Used + i]
        BY <3>2
      <4>2. calls[i] = Call(CallIds[Used + i], names[i])
        BY <3>1
      <4> QED BY <2>2, <2>4, <4>2
    <3>4. Used + Len(calls) <= Len(CallIds)
      BY <2>1, <3>2
    <3>5. Shaped(Calling(content, calls)) /\ ChatTurn(Calling(content, calls)) /\ CallsTools(Calling(content, calls))
      BY <2>1, <2>3, <3>2, <3>3, <3>4, CallingTurn
    <3> QED BY <2>1, <3>5
  <2>6. CASE calls = Apply(LAMBDA f : Call("", f), names)
    <3>1. calls = [i \in 1..Len(names) |-> Call("", names[i])]
      BY <2>2, <2>6 DEF Apply
    <3>2. IsSequence(calls) /\ Len(calls) = Len(names)
      BY <2>2, <3>1, FunctionSequence
    <3>3. \A i \in 1..Len(calls) : calls[i].name \in Functions /\ calls[i].id = ""
      <4>1. SUFFICES ASSUME NEW i \in 1..Len(names)
                     PROVE  calls[i].name \in Functions /\ calls[i].id = ""
        BY <3>2
      <4>2. calls[i] = Call("", names[i])
        BY <3>1
      <4>3. Call("", names[i]).id = "" /\ Call("", names[i]).name = names[i]
        BY <2>4, Zenon
      <4> QED BY <2>2, <4>2, <4>3
    <3>5. Shaped(Calling(content, calls)) /\ ChatTurn(Calling(content, calls)) /\ CallsTools(Calling(content, calls))
      BY <2>1, <2>3, <3>2, <3>3, CallingTurn
    <3> QED BY <2>1, <3>5
  <2> QED BY <2>1, <2>5, <2>6
<1>5. CASE ToolReturns
  <2>1. PICK i \in DOMAIN open, content \in {Str(Passage(1)), Parts(<<MarkedText(Passage(1)), ImageUrl("data")>>), Null} :
          Says(ToolMessage(open[i].id, content)) /\ open' = Rest(open, i) /\ open[i].id # "" /\ kind = "chat"
    BY <1>5 DEF ToolReturns
  <2>2. Talkative(content)
    <3>1. Talkative(Parts(<<MarkedText(Passage(1)), ImageUrl("data")>>))
      BY <1>0, TalkativeTwo
    <3> QED BY <2>1, <3>1, TalkativeString
  <2>3. PICK m : m = ToolMessage(open[i].id, content)
    OBVIOUS
  <2>4. Shaped(m) /\ ChatTurn(m) /\ Returns(m)
    BY <2>1, <2>2, <2>3, ResultTurn
  <2> QED BY <2>1, <2>3, <2>4
<1>6. CASE FunctionReturns
  <2>1. PICK i \in DOMAIN open, content \in {Str(Passage(1))} :
          /\ Says([Message("function", content) EXCEPT !.name = open[i].name])
          /\ open' = Rest(open, i) /\ kind = "chat"
    BY <1>6 DEF FunctionReturns
  <2>2. Talkative(content)
    BY <2>1, TalkativeString
  <2>3. PICK m : m = [Message("function", content) EXCEPT !.name = open[i].name]
    OBVIOUS
  <2>4. Shaped(m) /\ ChatTurn(m) /\ Returns(m)
    BY <2>1, <2>2, <2>3, ResultTurn
  <2> QED BY <2>1, <2>3, <2>4
<1> QED BY <1>1, <1>2, <1>3, <1>4, <1>5, <1>6
-----------------------------------------------------------------------------
(* The calls of a chat that wait for their results.                         *)
Distinct(ms) == \A k \in 1..Len(ms) : IsInjective(Apply(NameOf, ms[k].calls))
Has(ms, role) == \E k \in 1..Len(ms) : ms[k].role = role
Confused(ms) == Has(ms, "function") /\ Has(ms, "tool")

(* What is pending is known.                                                *)
Tallied(st) ==
  /\ Running(st) /\ st.pending = [f \in Functions |-> st.pending[f]]
  /\ \A f \in Functions : /\ IsSequence(st.pending[f])
                          /\ \A k \in 1..Len(st.pending[f]) : st.pending[f][k] \in st.known

(* The conversion of a chat knows the calls that are open, by their ids or, *)
(* as long as no result came by id, by their names, and has said all that   *)
(* was said.                                                                *)
Awaits(ms, calls, st) ==
  /\ \A i \in 1..Len(calls) : calls[i].name \in Functions
  /\ \A i, j \in 1..Len(calls) : calls[i].name = calls[j].name => i = j
  /\ \A i \in 1..Len(calls) : calls[i].id # "" => calls[i].id \in st.known
  /\ ~Has(ms, "tool") => \A i \in 1..Len(calls) : st.pending[calls[i].name] # <<>>
  /\ ~Confused(ms) => Voices(st.out) = Voices(ms)
Await(ms, calls) ==
  /\ AllShaped(ms) /\ IsSequence(calls) /\ Tallied(Converted(ms))
  /\ \A k \in 1..Len(ms) : ChatTurn(ms[k])
  /\ Distinct(ms) => Awaits(ms, calls, Converted(ms))

(* A turn whose calls have names of their own: each is in the map under its *)
(* name.                                                                    *)
LEMMA IdsOfCalls ==
  ASSUME NEW calls, IsSequence(calls), \A i \in 1..Len(calls) : calls[i].name \in Functions,
         IsInjective(Apply(NameOf, calls)), NEW i \in 1..Len(calls)
  PROVE  calls[i].name \in DOMAIN Ids(calls) /\ Ids(calls)[calls[i].name] = CallId(calls, i)
<1> DEFINE P(name, j) == calls[j].name = name /\ \A k \in DOMAIN calls : calls[k].name = name => k <= j
           l == CHOOSE j \in DOMAIN calls : P(calls[i].name, j)
<1>1. DOMAIN calls = 1..Len(calls) /\ Len(calls) \in Nat
  BY SequenceFacts
<1>2. \A j, k \in 1..Len(calls) : calls[j].name = calls[k].name => j = k
  BY <1>1 DEF IsInjective, Apply, NameOf
<1>3. P(calls[i].name, i)
  BY <1>1, <1>2
<1>4. \E j \in DOMAIN calls : P(calls[i].name, j)
  BY <1>1, <1>3
<1>5. l \in DOMAIN calls /\ P(calls[i].name, l)
  BY <1>4
<1>6. l = i
  BY <1>1, <1>2, <1>5
<1>7. calls[i].name # "" /\ calls[i].name \in {calls[j].name : j \in DOMAIN calls}
  BY <1>1, FunctionsAssumption
<1>8. Ids(calls) = [name \in {calls[j].name : j \in DOMAIN calls} \ {""} |->
                      CallId(calls, CHOOSE j \in DOMAIN calls : P(name, j))]
  BY DEF Ids
<1>9. Ids(calls)[calls[i].name] = CallId(calls, l) /\ calls[i].name \in DOMAIN Ids(calls)
  BY <1>7, <1>8
<1> QED BY <1>6, <1>9

(* One call of ConvertMessage keeps what is pending known, forgets nothing, *)
(* and takes from the queue of one name at most.                            *)
LEMMA MessageTallied ==
  ASSUME NEW st, Tallied(st), NEW m, Shaped(m), m.calls # <<>> => m.role = "assistant"
  PROVE  LET t == ConvertMessage(st, m)
         IN  /\ Tallied(t) /\ st.known \subseteq t.known
             /\ m.calls = <<>> /\ m.role # "function" /\ m.id # "" => t.pending = st.pending
             /\ m.calls = <<>> /\ m.role \notin {"tool", "function"} => t.pending = st.pending
             /\ m.role = "function" => \A f \in Functions : f # m.name => t.pending[f] = st.pending[f]
             /\ m.calls # <<>> =>
                  /\ \A f \in DOMAIN Ids(m.calls) : Ids(m.calls)[f] \in t.known
                  /\ \A f \in DOMAIN Ids(m.calls) \cap Functions : t.pending[f] # <<>>
<1> DEFINE t == ConvertMessage(st, m)
<1>0. /\ st = [out |-> st.out, pending |-> st.pending, known |-> st.known]
      /\ Running(t)
  BY MessageConverted DEF Tallied, Running
<1>1. CASE m.calls # <<>>
  <2> DEFINE ids == Ids(m.calls)
  <2>1. m.role = "assistant"
    BY <1>1
  <2>2. /\ t.known = st.known \cup {ids[f] : f \in DOMAIN ids}
        /\ t.pending = [f \in Functions |-> IF f \in DOMAIN ids THEN Append(st.pending[f], ids[f]) ELSE st.pending[f]]
    BY <1>1, <2>1 DEF ConvertMessage
  <2> HIDE DEF ids, t
  <2>3. ASSUME NEW f \in Functions
        PROVE  /\ IsSequence(t.pending[f]) /\ \A k \in 1..Len(t.pending[f]) : t.pending[f][k] \in t.known
               /\ f \in DOMAIN ids => t.pending[f] # <<>>
    <3>0. IsSequence(st.pending[f]) /\ \A k \in 1..Len(st.pending[f]) : st.pending[f][k] \in st.known
      BY DEF Tallied
    <3>1. CASE f \notin DOMAIN ids
      <4>1. t.pending[f] = st.pending[f]
        BY <2>2, <3>1
      <4> QED BY <2>2, <3>0, <3>1, <4>1
    <3>2. CASE f \in DOMAIN ids
      <4>1. PICK q, x : q = st.pending[f] /\ x = ids[f]
        OBVIOUS
      <4>2. t.pending[f] = Append(q, x)
        BY <2>2, <3>2, <4>1
      <4>3. /\ IsSequence(Append(q, x)) /\ Len(Append(q, x)) = Len(q) + 1 /\ Append(q, x)[Len(q) + 1] = x
            /\ \A k \in 1..Len(q) : Append(q, x)[k] = q[k]
        <5>1. IsSequence(q)
          BY <3>0, <4>1
        <5> QED BY ONLY <5>1, AppendFacts
      <4>4. Len(q) \in Nat /\ x \in t.known /\ \A k \in 1..Len(q) : q[k] \in t.known
        BY <2>2, <3>0, <3>2, <4>1, SequenceFacts
      <4>5. \A k \in 1..(Len(q) + 1) : k = Len(q) + 1 \/ k \in 1..Len(q)
        BY <4>4
      <4>6. \A k \in 1..Len(Append(q, x)) : Append(q, x)[k] \in t.known
        BY <4>3, <4>4, <4>5
      <4>7. Append(q, x) # <<>>
        <5>1. PICK r : r = Append(q, x)
          OBVIOUS
        <5>2. IsSequence(r) /\ Len(r) = Len(q) + 1 /\ Len(q) \in Nat
          BY ONLY <4>3, <4>4, <5>1
        <5>3. r # <<>>
          BY ONLY <5>2, EmptySequence
        <5> QED BY ONLY <5>1, <5>3
      <4> QED BY <4>2, <4>3, <4>6, <4>7
    <3> QED BY <3>1, <3>2
  <2>4. Tallied(t)
    <3>1. t.pending = [f \in Functions |-> t.pending[f]]
      BY <2>2
    <3> QED BY <1>0, <2>3, <3>1 DEF Tallied, t
  <2> QED BY <1>1, <2>1, <2>2, <2>3, <2>4 DEF ids, t
<1>2. CASE m.calls = <<>> /\ m.role \notin {"tool", "function"}
  <2>1. t = [st EXCEPT !.out = Append(@, m)]
    BY <1>2 DEF ConvertMessage
  <2>2. t.pending = st.pending /\ t.known = st.known
    BY <1>0, <2>1
  <2> HIDE DEF t
  <2>3. Tallied(t)
    BY <1>0, <2>2 DEF Tallied, t
  <2> QED BY <1>2, <2>2, <2>3 DEF t
<1>3. CASE m.calls = <<>> /\ m.role \in {"tool", "function"}
  <2> DEFINE u == Consumed(st, m)
  <2>1. \/ u = st
        \/ /\ m.id = "" /\ m.name \in Functions /\ st.pending[m.name] # <<>>
           /\ u = [st EXCEPT !.pending[m.name] = Tail(@)]
    BY DEF Consumed
  <2>2. u = [out |-> u.out, pending |-> u.pending, known |-> u.known] /\ u.known = st.known
    BY <1>0, <2>1
  <2>3. t = u \/ \E block : t = [u EXCEPT !.out = AppendToolResult(@, block)]
    BY <1>3 DEF ConvertMessage
  <2> HIDE DEF u
  <2>4. t.pending = u.pending /\ t.known = u.known
    BY <2>2, <2>3
  <2>5. CASE u = st
    <3>1. t.pending = st.pending /\ t.known = st.known
      BY <2>4, <2>5
    <3> HIDE DEF t
    <3>2. Tallied(t)
      BY <1>0, <3>1 DEF Tallied, t
    <3> QED BY <1>3, <3>1, <3>2 DEF t
  <2>6. CASE /\ m.id = "" /\ m.name \in Functions /\ st.pending[m.name] # <<>>
             /\ u = [st EXCEPT !.pending[m.name] = Tail(@)]
    <3> DEFINE q == st.pending[m.name]
    <3>1. u.pending = [st.pending EXCEPT ![m.name] = Tail(@)]
      BY <1>0, <2>6
    <3>2. \A f \in Functions : t.pending[f] = IF f = m.name THEN Tail(q) ELSE st.pending[f]
      BY <2>4, <3>1 DEF Tallied
    <3>3. t.pending = [f \in Functions |-> t.pending[f]]
      BY <2>4, <3>1 DEF Tallied
    <3>4. IsSequence(q) /\ q # <<>> /\ \A k \in 1..Len(q) : q[k] \in st.known
      BY <2>6 DEF Tallied
    <3> HIDE DEF q, t
    <3>5. IsSequence(Tail(q)) /\ \A k \in 1..Len(Tail(q)) : Tail(q)[k] \in st.known
      <4>1. q \in Seq(Range(q)) /\ Len(q) \in Nat
        BY <3>4, SequenceFacts
      <4>2. /\ Tail(q) \in Seq(Range(q)) /\ Len(Tail(q)) = Len(q) - 1
            /\ \A k \in 1..(Len(q) - 1) : Tail(q)[k] = q[k + 1]
        BY <3>4, <4>1
      <4>3. \A k \in 1..(Len(q) - 1) : k + 1 \in 1..Len(q)
        BY <4>1
      <4> QED BY <3>4, <4>2, <4>3, TypedSequence
    <3>6. \A f \in Functions : IsSequence(t.pending[f]) /\ \A k \in 1..Len(t.pending[f]) : t.pending[f][k] \in t.known
      BY <2>2, <2>4, <3>2, <3>5 DEF Tallied
    <3>7. Tallied(t)
      BY <1>0, <3>3, <3>6 DEF Tallied, t
    <3>8. st.known \subseteq t.known
      BY <2>2, <2>4
    <3>9. \A f \in Functions : f # m.name => t.pending[f] = st.pending[f]
      BY <3>2
    <3> QED BY <1>3, <2>6, <3>7, <3>8, <3>9 DEF t
  <2> QED BY <2>1, <2>5, <2>6
<1> QED BY <1>1, <1>2, <1>3

(* A conversation that grows by a message: what it then has.                *)
LEMMA AwaitGrows ==
  ASSUME NEW ms, NEW calls, Await(ms, calls), NEW m, Shaped(m), ChatTurn(m)
  PROVE  LET ns == Append(ms, m)
             st == Converted(ms)
             t == Converted(ns)
         IN  /\ AllShaped(ns) /\ t = ConvertMessage(st, m) /\ Tallied(st) /\ Tallied(t)
             /\ \A k \in 1..Len(ns) : ChatTurn(ns[k])
             /\ Voices(ns) = Voices(ms) \o Voice(m)
             /\ \A role : Has(ns, role) <=> Has(ms, role) \/ m.role = role
             /\ Distinct(ns) => Distinct(ms) /\ IsInjective(Apply(NameOf, m.calls))
<1> DEFINE ns == Append(ms, m)
<1>1. IsSequence(ms) /\ Len(ms) \in Nat /\ AllShaped(ms) /\ Tallied(Converted(ms))
  BY SequenceFacts DEF Await, AllShaped
<1>2. /\ IsSequence(ns) /\ Len(ns) = Len(ms) + 1 /\ ns[Len(ms) + 1] = m
      /\ \A k \in 1..Len(ms) : ns[k] = ms[k]
  BY ONLY <1>1, AppendFacts
<1>3. AllShaped(ns)
  BY <1>1, TalkGrows
<1>4. Converted(ns) = ConvertMessage(Converted(ms), m)
  BY <1>1, ConvertedStep
<1>5. Tallied(Converted(ns))
  BY <1>1, <1>4, MessageTallied DEF ChatTurn
<1>6. Voices(ns) = Voices(ms) \o Voice(m)
  BY <1>1, ShapedFacts, VoicesMore DEF AllShaped
<1> HIDE DEF ns
<1>7. \A k \in 1..Len(ns) : k \in 1..Len(ms) \/ k = Len(ms) + 1
  BY <1>1, <1>2
<1>8. \A k \in 1..Len(ns) : ChatTurn(ns[k])
  BY <1>2, <1>7 DEF Await
<1>9. Len(ms) + 1 \in 1..Len(ns) /\ \A k \in 1..Len(ms) : k \in 1..Len(ns)
  BY <1>1, <1>2
<1>10. \A role : Has(ns, role) <=> Has(ms, role) \/ m.role = role
  BY <1>2, <1>7, <1>9 DEF Has
<1>11. Distinct(ns) => Distinct(ms) /\ IsInjective(Apply(NameOf, m.calls))
  BY <1>2, <1>9 DEF Distinct
<1> QED BY <1>1, <1>3, <1>4, <1>5, <1>6, <1>8, <1>10, <1>11 DEF ns

(* A message that is no result and calls nothing.                           *)
LEMMA AwaitSpeaks ==
  ASSUME NEW ms, Await(ms, <<>>), NEW m, Shaped(m), ChatTurn(m), m.calls = <<>>,
         m.role \notin {"tool", "function"}
  PROVE  Await(Append(ms, m), <<>>)
<1> DEFINE ns == Append(ms, m)
           st == Converted(ms)
           t == Converted(ns)
<1>1. /\ AllShaped(ns) /\ t = ConvertMessage(st, m) /\ Tallied(st) /\ Tallied(t)
      /\ \A k \in 1..Len(ns) : ChatTurn(ns[k])
      /\ Voices(ns) = Voices(ms) \o Voice(m)
      /\ \A role : Has(ns, role) <=> Has(ms, role) \/ m.role = role
      /\ Distinct(ns) => Distinct(ms)
  BY AwaitGrows
<1> HIDE DEF ns, st, t
<1>2. Voices(t.out) = Voices(st.out) \o Voice(m)
  BY <1>1, MessageVoiced DEF Tallied
<1>3. \A i \in 1..Len(<<>>) : FALSE
  BY EmptySequence
<1>4. ASSUME Distinct(ns) PROVE Awaits(ns, <<>>, t)
  <2>1. Awaits(ms, <<>>, st)
    BY <1>1, <1>4 DEF Await, st
  <2>2. Confused(ms) => Confused(ns)
    BY <1>1 DEF Confused
  <2>3. ~Confused(ns) => Voices(t.out) = Voices(ns)
    BY <1>1, <1>2, <2>1, <2>2 DEF Awaits
  <2> QED BY <1>3, <2>3 DEF Awaits
<1>5. Await(ns, <<>>)
  BY <1>1, <1>4, EmptySequence DEF Await, t
<1> QED BY <1>5 DEF ns

(* A turn that calls tools makes its calls known, and pending by their names. *)
LEMMA CallsTallied ==
  ASSUME NEW st, Tallied(st), NEW m, m.role = "assistant", m.calls # <<>>, NEW t, t = ConvertMessage(st, m)
  PROVE  /\ \A f \in DOMAIN Ids(m.calls) : Ids(m.calls)[f] \in t.known
         /\ \A f \in DOMAIN Ids(m.calls) \cap Functions : t.pending[f] # <<>>
<1> DEFINE ids == Ids(m.calls)
<1>0. st = [out |-> st.out, pending |-> st.pending, known |-> st.known]
  BY DEF Tallied, Running
<1>1. /\ t.known = st.known \cup {ids[f] : f \in DOMAIN ids}
      /\ t.pending = [f \in Functions |-> IF f \in DOMAIN ids THEN Append(st.pending[f], ids[f]) ELSE st.pending[f]]
  BY <1>0 DEF ConvertMessage
<1> HIDE DEF ids
<1>2. ASSUME NEW f \in DOMAIN ids \cap Functions PROVE t.pending[f] # <<>>
  <2>1. PICK q, x : q = st.pending[f] /\ x = ids[f]
    OBVIOUS
  <2>2. t.pending[f] = Append(q, x)
    BY <1>1, <1>2, <2>1
  <2>3. IsSequence(q)
    BY <2>1 DEF Tallied
  <2>4. PICK r : r = Append(q, x)
    OBVIOUS
  <2>5. IsSequence(r) /\ Len(r) = Len(q) + 1 /\ Len(q) \in Nat
    BY ONLY <2>3, <2>4, AppendSequence, SequenceFacts
  <2>6. r # <<>>
    BY ONLY <2>5, EmptySequence
  <2> QED BY ONLY <2>2, <2>4, <2>6
<1>3. \A f \in DOMAIN ids : ids[f] \in t.known
  BY <1>1
<1> QED BY <1>2, <1>3 DEF ids

(* A turn that calls tools.                                                 *)
LEMMA AwaitCalls ==
  ASSUME NEW ms, Await(ms, <<>>), NEW m, Shaped(m), ChatTurn(m), m.calls # <<>>,
         \A i \in DOMAIN m.calls : m.calls[i].name \in Functions
  PROVE  Await(Append(ms, m), m.calls)
<1> DEFINE ns == Append(ms, m)
           st == Converted(ms)
           t == Converted(ns)
<1>1. /\ AllShaped(ns) /\ t = ConvertMessage(st, m) /\ Tallied(st) /\ Tallied(t)
      /\ \A k \in 1..Len(ns) : ChatTurn(ns[k])
      /\ Voices(ns) = Voices(ms) \o Voice(m)
      /\ \A role : Has(ns, role) <=> Has(ms, role) \/ m.role = role
      /\ Distinct(ns) => Distinct(ms) /\ IsInjective(Apply(NameOf, m.calls))
  BY AwaitGrows
<1>0. m.role = "assistant" /\ IsSequence(m.calls) /\ DOMAIN m.calls = 1..Len(m.calls)
  BY ShapedFacts, SequenceFacts DEF ChatTurn
<1> HIDE DEF ns, st, t
<1>2. Voices(t.out) = Voices(st.out) \o Voice(m)
  BY <1>0, <1>1, MessageVoiced DEF Tallied
<1>3. /\ \A f \in DOMAIN Ids(m.calls) : Ids(m.calls)[f] \in t.known
      /\ \A f \in DOMAIN Ids(m.calls) \cap Functions : t.pending[f] # <<>>
  <2>1. Tallied(st) /\ (m.calls # <<>> => m.role = "assistant")
    BY <1>0, <1>1
  <2>2. PICK u : u = ConvertMessage(st, m)
    OBVIOUS
  <2>3. /\ \A f \in DOMAIN Ids(m.calls) : Ids(m.calls)[f] \in u.known
        /\ \A f \in DOMAIN Ids(m.calls) \cap Functions : u.pending[f] # <<>>
    BY ONLY <1>0, <2>1, <2>2, m.calls # <<>>, CallsTallied
  <2>4. t = u
    BY ONLY <1>1, <2>2
  <2> QED BY ONLY <2>3, <2>4
<1>4. ASSUME Distinct(ns) PROVE Awaits(ns, m.calls, t)
  <2>0. IsInjective(Apply(NameOf, m.calls))
    BY <1>1, <1>4
  <2>1. Awaits(ms, <<>>, st)
    BY <1>1, <1>4 DEF Await, st
  <2>2. Confused(ms) => Confused(ns)
    BY <1>1 DEF Confused
  <2>3. ~Confused(ns) => Voices(t.out) = Voices(ns)
    BY <1>1, <1>2, <2>1, <2>2 DEF Awaits
  <2>4. ASSUME NEW i \in 1..Len(m.calls)
        PROVE  m.calls[i].name \in DOMAIN Ids(m.calls) /\ Ids(m.calls)[m.calls[i].name] = CallId(m.calls, i)
    BY <1>0, <2>0, IdsOfCalls
  <2>5. \A i \in 1..Len(m.calls) : m.calls[i].id # "" => m.calls[i].id \in t.known
    BY <1>3, <2>4 DEF CallId
  <2>6. \A i \in 1..Len(m.calls) : t.pending[m.calls[i].name] # <<>>
    BY <1>0, <1>3, <2>4
  <2>7. \A i, j \in 1..Len(m.calls) : m.calls[i].name = m.calls[j].name => i = j
    BY <1>0, <2>0 DEF IsInjective, Apply, NameOf
  <2> QED BY <1>0, <2>3, <2>5, <2>6, <2>7 DEF Awaits
<1>5. Await(ns, m.calls)
  BY <1>0, <1>1, <1>4 DEF Await, t
<1> QED BY <1>5 DEF ns

(* The calls but one: each is one of the others.                            *)
LEMMA RestIs ==
  ASSUME NEW s, IsSequence(s), NEW i \in DOMAIN s
  PROVE  /\ IsSequence(Rest(s, i)) /\ Len(s) \in Nat /\ Len(Rest(s, i)) = Len(s) - 1
         /\ \A k \in 1..Len(Rest(s, i)) : k < i => Rest(s, i)[k] = s[k]
         /\ \A k \in 1..Len(Rest(s, i)) : k >= i => Rest(s, i)[k] = s[k + 1]
<1> DEFINE a == SubSeq(s, 1, i - 1)
           b == SubSeq(s, i + 1, Len(s))
<1>1. DOMAIN s = 1..Len(s) /\ Len(s) \in Nat /\ s \in Seq(Range(s)) /\ i \in 1..Len(s)
  BY SequenceFacts
<1>2. /\ a \in Seq(Range(s)) /\ Len(a) = i - 1 /\ \A k \in 1..(i - 1) : a[k] = s[k]
  BY <1>1
<1>3. /\ b \in Seq(Range(s)) /\ Len(b) = Len(s) - i /\ \A k \in 1..(Len(s) - i) : b[k] = s[i + k]
  BY <1>1
<1>4. IsSequence(a) /\ IsSequence(b)
  BY <1>2, <1>3, TypedSequence
<1>5. Rest(s, i) = a \o b
  BY DEF Rest
<1> HIDE DEF a, b
<1>6. /\ IsSequence(a \o b) /\ Len(a \o b) = Len(a) + Len(b) /\ (\A k \in 1..Len(a) : (a \o b)[k] = a[k])
      /\ \A k \in 1..Len(b) : (a \o b)[Len(a) + k] = b[k]
  BY <1>4, ConcatSequences
<1>7. PICK r : r = a \o b
  OBVIOUS
<1>8. /\ IsSequence(r) /\ Len(r) = Len(s) - 1 /\ (\A k \in 1..(i - 1) : r[k] = s[k])
      /\ \A k \in 1..(Len(s) - i) : r[(i - 1) + k] = s[i + k]
  <2>1. IsSequence(r) /\ Len(r) = Len(a) + Len(b) /\ (\A k \in 1..Len(a) : r[k] = a[k])
        /\ \A k \in 1..Len(b) : r[Len(a) + k] = b[k]
    BY ONLY <1>6, <1>7
  <2>2. Len(a) = i - 1 /\ Len(b) = Len(s) - i
    BY ONLY <1>2, <1>3
  <2>3. \A k \in 1..(i - 1) : r[k] = s[k]
    BY ONLY <1>2, <2>1, <2>2
  <2>4. \A k \in 1..(Len(s) - i) : r[(i - 1) + k] = b[k]
    BY ONLY <2>1, <2>2
  <2>5. \A k \in 1..(Len(s) - i) : b[k] = s[i + k]
    BY ONLY <1>3
  <2>6. Len(r) = Len(s) - 1
    BY ONLY <1>1, <2>1, <2>2
  <2> QED BY ONLY <2>1, <2>3, <2>4, <2>5, <2>6
<1>9. \A k \in 1..Len(r) : k < i => r[k] = s[k]
  BY <1>1, <1>8
<1>10. ASSUME NEW k \in 1..Len(r), k >= i PROVE r[k] = s[k + 1]
  <2>1. k - (i - 1) \in 1..(Len(s) - i) /\ (i - 1) + (k - (i - 1)) = k /\ i + (k - (i - 1)) = k + 1
    BY <1>1, <1>8, <1>10
  <2>2. r[(i - 1) + (k - (i - 1))] = s[i + (k - (i - 1))]
    BY <1>8, <2>1
  <2> QED BY <2>1, <2>2
<1> QED BY <1>1, <1>5, <1>7, <1>8, <1>9, <1>10

LEMMA RestOthers ==
  ASSUME NEW s, IsSequence(s), NEW i \in DOMAIN s, \A j, k \in 1..Len(s) : s[j].name = s[k].name => j = k
  PROVE  LET r == Rest(s, i)
         IN  /\ \A k \in 1..Len(r) : \E j \in 1..Len(s) : r[k] = s[j] /\ s[j].name # s[i].name
             /\ \A j, k \in 1..Len(r) : r[j].name = r[k].name => j = k
<1> DEFINE r == Rest(s, i)
           e(k) == IF k < i THEN k ELSE k + 1
<1>1. /\ Len(s) \in Nat /\ Len(r) = Len(s) - 1 /\ i \in 1..Len(s)
      /\ \A k \in 1..Len(r) : k < i => r[k] = s[k]
      /\ \A k \in 1..Len(r) : k >= i => r[k] = s[k + 1]
  BY RestIs, SequenceFacts
<1> HIDE DEF r
<1>2. \A k \in 1..Len(r) : e(k) \in 1..Len(s) /\ e(k) # i /\ r[k] = s[e(k)]
  BY <1>1
<1>3. \A j, k \in 1..Len(r) : e(j) = e(k) => j = k
  BY <1>1
<1> HIDE DEF e
<1>4. \A k \in 1..Len(r) : s[e(k)].name # s[i].name
  BY <1>1, <1>2
<1> QED BY <1>2, <1>3, <1>4 DEF r

(* The result of an open call.                                              *)
LEMMA AwaitReturns ==
  ASSUME NEW ms, NEW calls, Await(ms, calls), NEW i \in DOMAIN calls, NEW m, Shaped(m), ChatTurn(m), m.calls = <<>>,
         \/ m.role = "tool" /\ m.id = calls[i].id /\ m.id # ""
         \/ m.role = "function" /\ m.id = "" /\ m.name = calls[i].name
  PROVE  Await(Append(ms, m), Rest(calls, i))
<1> DEFINE ns == Append(ms, m)
           st == Converted(ms)
           t == Converted(ns)
           r == Rest(calls, i)
<1>1. /\ AllShaped(ns) /\ t = ConvertMessage(st, m) /\ Tallied(st) /\ Tallied(t)
      /\ \A k \in 1..Len(ns) : ChatTurn(ns[k])
      /\ Voices(ns) = Voices(ms) \o Voice(m)
      /\ \A role : Has(ns, role) <=> Has(ms, role) \/ m.role = role
      /\ Distinct(ns) => Distinct(ms)
  BY AwaitGrows
<1>2. IsSequence(calls) /\ DOMAIN calls = 1..Len(calls) /\ Len(calls) \in Nat /\ i \in 1..Len(calls) /\ IsSequence(r)
  BY RestIs, SequenceFacts DEF Await
<1>3. m.role \in {"tool", "function"} /\ Voice(m) = TextOf(m.content)
  BY DEF ChatTurn, Voice, Instructs
<1>4. ASSUME Distinct(ns) PROVE Awaits(ns, r, t)
  <2>1. Awaits(ms, calls, st)
    BY <1>1, <1>4 DEF Await
  <2>2. /\ \A k \in 1..Len(r) : \E j \in 1..Len(calls) : r[k] = calls[j] /\ calls[j].name # calls[i].name
        /\ \A j, k \in 1..Len(r) : r[j].name = r[k].name => j = k
    <3>1. \A j, k \in 1..Len(calls) : calls[j].name = calls[k].name => j = k
      BY <2>1 DEF Awaits
    <3> HIDE DEF r
    <3> QED BY <1>2, <3>1, RestOthers DEF r
  <2> HIDE DEF ns, st, t, r
  <2>3. st.known \subseteq t.known
    BY <1>1, MessageTallied
  <2>4. \A k \in 1..Len(r) : r[k].name \in Functions /\ (r[k].id # "" => r[k].id \in t.known)
    <3>1. \A j \in 1..Len(calls) : calls[j].name \in Functions /\ (calls[j].id # "" => calls[j].id \in st.known)
      BY ONLY <2>1 DEF Awaits
    <3>2. ASSUME NEW k \in 1..Len(r) PROVE r[k].name \in Functions /\ (r[k].id # "" => r[k].id \in t.known)
      <4>1. PICK j \in 1..Len(calls) : r[k] = calls[j]
        BY ONLY <2>2
      <4>2. calls[j].name \in Functions /\ (calls[j].id # "" => calls[j].id \in st.known)
        BY ONLY <3>1
      <4> QED BY ONLY <2>3, <4>1, <4>2
    <3> QED BY ONLY <3>2
  <2>5. ASSUME ~Has(ns, "tool") PROVE \A k \in 1..Len(r) : t.pending[r[k].name] # <<>>
    <3>1. m.role = "function" /\ m.name = calls[i].name /\ ~Has(ms, "tool")
      BY <1>1, <2>5
    <3>2. \A f \in Functions : f # m.name => t.pending[f] = st.pending[f]
      BY <1>1, <3>1, MessageTallied
    <3>3. \A j \in 1..Len(calls) : calls[j].name \in Functions /\ st.pending[calls[j].name] # <<>>
      BY <2>1, <3>1 DEF Awaits
    <3>4. ASSUME NEW k \in 1..Len(r) PROVE t.pending[r[k].name] # <<>>
      <4>1. PICK j \in 1..Len(calls) : r[k] = calls[j] /\ calls[j].name # m.name
        BY <2>2, <3>1
      <4>2. PICK f \in Functions : f = calls[j].name /\ st.pending[f] # <<>> /\ r[k].name = f
        BY <3>3, <4>1
      <4>3. t.pending[f] = st.pending[f]
        BY <3>2, <4>1, <4>2
      <4> QED BY ONLY <4>2, <4>3
    <3> QED BY <3>4
  <2>6. ASSUME ~Confused(ns) PROVE Voices(t.out) = Voices(ns)
    <3>1. Voices(st.out) = Voices(ms)
      BY <1>1, <2>1, <2>6 DEF Awaits, Confused
    <3>2. AnsweredId(st, m) \in st.known
      <4>1. CASE m.role = "tool" /\ m.id = calls[i].id /\ m.id # ""
        <5>1. AnsweredId(st, m) = m.id
          BY <4>1 DEF AnsweredId
        <5> QED BY <1>2, <2>1, <4>1, <5>1 DEF Awaits
      <4>2. CASE m.role = "function" /\ m.id = "" /\ m.name = calls[i].name
        <5>1. ~Has(ms, "tool")
          BY <1>1, <2>6, <4>2 DEF Confused
        <5>2. m.name \in Functions /\ st.pending[m.name] # <<>>
          BY <1>2, <2>1, <4>2, <5>1 DEF Awaits
        <5>3. PICK q : q = st.pending[m.name]
          OBVIOUS
        <5>4. AnsweredId(st, m) = Head(q)
          BY <4>2, <5>2, <5>3 DEF AnsweredId
        <5>5. IsSequence(q) /\ q # <<>> /\ \A k \in 1..Len(q) : q[k] \in st.known
          BY <1>1, <5>2, <5>3 DEF Tallied
        <5>6. 1 \in 1..Len(q)
          BY ONLY <5>5, EmptySequence, SequenceFacts
        <5>7. Head(q) = q[1]
          BY ONLY <5>5, <5>6, SequenceFacts
        <5> QED BY <5>4, <5>5, <5>6, <5>7
      <4> QED BY <4>1, <4>2
    <3>3. Voices(t.out) = Voices(st.out) \o TextOf(m.content)
      BY <1>1, <1>3, <3>2, MessageVoiced DEF Tallied
    <3> QED BY <1>1, <1>3, <3>1, <3>3
  <2> QED BY <2>2, <2>4, <2>5, <2>6 DEF Awaits
<1>5. Await(ns, r)
  BY <1>1, <1>2, <1>4 DEF Await
<1> QED BY <1>5

(* A chat before anybody said anything.                                     *)
LEMMA AwaitFirst == Await(<<>>, <<>>)
<1>0. \A k \in 1..Len(<<>>) : FALSE
  BY EmptySequence
<1>1. PICK ms : ms = <<>>
  OBVIOUS
<1>2. IsSequence(ms) /\ \A k \in 1..Len(ms) : FALSE
  BY <1>0, <1>1, EmptySequence
<1>3. AllShaped(ms)
  BY <1>2 DEF AllShaped
<1>4. Converted(ms) = Unconverted
  BY <1>1, ConvertedStep
<1>5. PICK st : st = Unconverted
  OBVIOUS
<1>6. st.out = ms /\ (\A f \in Functions : st.pending[f] = ms) /\ st.pending = [f \in Functions |-> st.pending[f]]
      /\ st = [out |-> st.out, pending |-> st.pending, known |-> st.known]
  BY <1>1, <1>5 DEF Unconverted
<1>7. Tallied(st)
  BY <1>2, <1>3, <1>6 DEF Tallied, Running, Out
<1>8. Awaits(ms, ms, st)
  BY <1>2, <1>6 DEF Awaits
<1>9. Await(ms, ms)
  BY <1>2, <1>3, <1>4, <1>5, <1>7, <1>8 DEF Await
<1> QED BY <1>1, <1>9

(* The conversion of a chat knows its open calls at every step.             *)
AwaitInv == kind = "chat" => Await(talk, open)

LEMMA AwaitStays == BodiesSpec => []AwaitInv
<1>1. BodiesInit => AwaitInv
  BY AwaitFirst DEF BodiesInit, AwaitInv
<1>2. AwaitInv /\ [BodiesNext]_bodiesVars => AwaitInv'
  <2> SUFFICES ASSUME AwaitInv, [BodiesNext]_bodiesVars PROVE AwaitInv'
    OBVIOUS
  <2>1. CASE AnswerGrows \/ AnswerEnds \/ LineWritten \/ UNCHANGED bodiesVars
    <3>1. UNCHANGED <<talk, open, kind>>
      BY <2>1 DEF AnswerGrows, AnswerEnds, LineWritten, bodiesVars
    <3> QED BY <3>1 DEF AwaitInv
  <2>2. CASE SystemSays \/ UserSays \/ AssistantSays \/ AssistantCalls \/ ToolReturns \/ FunctionReturns
    <3>1. kind = "chat"
      BY <2>2, ChatSteps
    <3>2. PICK m : Shaped(m) /\ ChatTurn(m) /\ Says(m) /\ (Speaks(m) \/ CallsTools(m) \/ Returns(m))
      BY <2>2, ChatSteps
    <3>3. Await(talk, open) /\ talk' = Append(talk, m)
      BY <3>1, <3>2 DEF AwaitInv, Says
    <3>4. CASE Speaks(m) \/ (CallsTools(m) /\ m.calls = <<>>)
      <4>1. open = <<>> /\ open' = <<>> /\ m.calls = <<>> /\ m.role \notin {"tool", "function"}
        BY <3>4 DEF Speaks, CallsTools
      <4>2. Await(Append(talk, m), <<>>)
        BY <3>2, <3>3, <4>1, AwaitSpeaks
      <4> QED BY <3>3, <4>1, <4>2 DEF AwaitInv
    <3>5. CASE CallsTools(m) /\ m.calls # <<>>
      <4>1. open = <<>> /\ open' = m.calls /\ \A i \in DOMAIN m.calls : m.calls[i].name \in Functions
        BY <3>5 DEF CallsTools
      <4>2. Await(Append(talk, m), m.calls)
        BY <3>2, <3>3, <3>5, <4>1, AwaitCalls
      <4> QED BY <3>3, <4>1, <4>2 DEF AwaitInv
    <3>6. CASE Returns(m)
      <4>1. PICK i \in DOMAIN open :
              /\ open' = Rest(open, i) /\ m.calls = <<>>
              /\ \/ m.role = "tool" /\ m.id = open[i].id /\ m.id # ""
                 \/ m.role = "function" /\ m.id = "" /\ m.name = open[i].name
        BY <3>6 DEF Returns
      <4>2. Await(Append(talk, m), Rest(open, i))
        BY <3>2, <3>3, <4>1, AwaitReturns
      <4> QED BY <3>3, <4>1, <4>2 DEF AwaitInv
    <3> QED BY <3>2, <3>4, <3>5, <3>6
  <2>3. CASE \/ AnthropicUserSays \/ AnthropicSystemSays \/ AnthropicAssistantSays
             \/ AnthropicAssistantCalls \/ AnthropicResults
    <3>1. kind = "anthropic" /\ kind' = kind
      BY <2>3 DEF AnthropicUserSays, AnthropicSystemSays, AnthropicAssistantSays,
                  AnthropicAssistantCalls, AnthropicResults, Free, Says
    <3> QED BY <3>1 DEF AwaitInv
  <2> QED BY <2>1, <2>2, <2>3 DEF BodiesNext
<1> QED BY <1>1, <1>2, PTL DEF BodiesSpec

-----------------------------------------------------------------------------
(* What Bedrock is told.                                                    *)
LEMMA BridgedFields ==
  ASSUME NEW body, HasField(Imaged(body)), NEW request, NEW result, result = BridgedBody(body, request)
  PROVE  result.messages = Imaged(body).messages /\ result.system = Imaged(body).system
<1>1. PICK i : i = Imaged(body)
  OBVIOUS
<1>2. result = i \/ \E t : result = [i EXCEPT !.tools = t]
  <2>1. CASE HasCacheControl(request) \/ PartsOf(i.tools) = <<>>
    BY <1>1, <2>1 DEF BridgedBody, MarkedBody, ApplyAnthropicToolCacheMarker
  <2>2. CASE ~(HasCacheControl(request) \/ PartsOf(i.tools) = <<>>)
    <3>1. result = [i EXCEPT !.tools.parts[Len(i.tools.parts)].marked = TRUE]
      BY <1>1, <2>2 DEF BridgedBody, MarkedBody, ApplyAnthropicToolCacheMarker
    <3> QED BY <3>1
  <2> QED BY <2>1, <2>2
<1>3. ASSUME NEW t, result = [i EXCEPT !.tools = t] PROVE result.messages = i.messages /\ result.system = i.system
  BY <1>1, <1>3 DEF HasField
<1> QED BY <1>1, <1>2, <1>3

LEMMA BridgedVoices ==
  ASSUME NEW body, HasField(body), AllShaped(body.messages), WellFormed(body.system), TextBlocks(body.system),
         NEW request, NEW result, result = BridgedBody(body, request)
  PROVE  /\ TextOf(result.system) = TextOf(body.system) \o Orders(body.messages)
         /\ Speech(Spoken(result.messages)) = Voices(body.messages)
<1>1. HasField(Imaged(body))
  BY ImagedIs
<1>2. result.messages = Imaged(body).messages /\ result.system = Imaged(body).system
  BY ONLY <1>1, result = BridgedBody(body, request), BridgedFields
<1>3. /\ TextOf(Imaged(body).system) = TextOf(body.system) \o Orders(body.messages)
      /\ Speech(Spoken(Imaged(body).messages)) = Voices(body.messages)
  BY ImagedVoices
<1> QED BY ONLY <1>2, <1>3

(* The speech and the instructions of the client.                           *)
LEMMA SaidByClient ==
  ASSUME AllShaped(talk)
  PROVE  Speech(Spoken(talk)) = Voices(talk) /\ Instructions = Orders(talk)
<1>1. IsSequence(talk) /\ \A k \in 1..Len(talk) : WellFormed(talk[k].content)
  BY ShapedFacts DEF AllShaped
<1>2. Speech(Spoken(talk)) = Voices(talk)
  BY <1>1, SpeechIs
<1>3. FlattenSeq(Apply(LAMBDA m : TextOf(m.content), Select(talk, Instructs))) = Orders(talk)
  BY <1>1, InstructionsAre
<1> QED BY <1>2, <1>3 DEF Instructions

LEMMA ChatToldBedrock ==
  ASSUME TalkInv, AwaitInv, Sent, kind = "chat"
  PROVE  /\ DistinctNames /\ ~Mixed => Speech(Spoken(ToBedrock.messages)) = Speech(Spoken(talk))
         /\ TextOf(ToBedrock.system) = SystemText
<1> DEFINE r == Request
           tools == ConvertOpenAIToolsToAnthropic(r.tools, r.choice, r.parallel)
           body == [messages |-> ConvertOpenAIToolMessagesToAnthropic(r.messages), system |-> r.system,
                    tools |-> tools.tools, choice |-> tools.choice, reasoning |-> Reasoning(r, FALSE)]
<1>1. r.messages = talk /\ r.system = system /\ AllShaped(talk) /\ system = Null
  BY DEF Request, TalkInv, FieldsInv
<1>2. ToBedrock = BridgedBody(body, r)
  BY DEF ToBedrock, OpenAIToBedrockBody, Imaged, MarkedBody, BridgedBody
<1>3. HasField(body)
  BY DEF HasField
<1>4. body.messages = Converted(talk).out /\ body.system = Null
  BY <1>1 DEF ConvertOpenAIToolMessagesToAnthropic, Converted, Unconverted
<1>5. AllShaped(Converted(talk).out)
  BY <1>1, ConversionKeeps DEF Out
<1>6. WellFormed(Null) /\ TextBlocks(Null)
  BY SpeechFormed DEF TextBlocks, Null, WellFormed
<1> HIDE DEF body, r
<1>7. /\ TextOf(ToBedrock.system) = TextOf(body.system) \o Orders(body.messages)
      /\ Speech(Spoken(ToBedrock.messages)) = Voices(body.messages)
  BY <1>2, <1>3, <1>4, <1>5, <1>6, BridgedVoices
<1>8. Orders(body.messages) = Orders(talk) /\ TextOf(system) = TextOf(body.system)
  BY <1>1, <1>4, ConversionOrders
<1>9. TextOf(ToBedrock.system) = SystemText
  BY <1>1, <1>7, <1>8, SaidByClient DEF SystemText
<1>10. ASSUME DistinctNames, ~Mixed PROVE Voices(body.messages) = Voices(talk)
  <2>1. DOMAIN talk = 1..Len(talk)
    BY <1>1, SequenceFacts DEF AllShaped
  <2>2. Distinct(talk) /\ ~Confused(talk)
    BY <1>10, <2>1 DEF DistinctNames, Distinct, Mixed, ByName, Confused, Has
  <2>3. Awaits(talk, open, Converted(talk))
    BY <2>2 DEF AwaitInv, Await
  <2>4. Voices(Converted(talk).out) = Voices(talk)
    BY <2>2, <2>3 DEF Awaits
  <2> QED BY <1>4, <2>4
<1> QED BY <1>1, <1>7, <1>9, <1>10, SaidByClient

LEMMA SystemFieldsFormed ==
  ASSUME NEW s \in SystemFields
  PROVE  WellFormed(s)
<1>1. CASE s = Null
  BY <1>1, SpeechFormed
<1>2. CASE s = Str(<<1>>)
  BY <1>2, OneSequence, StrFormed
<1>3. ASSUME NEW p, NEW q, IsSequence(SaidBy(p)), IsSequence(SaidBy(q)), s = Parts(<<p, q>>) PROVE WellFormed(s)
  <2>1. PICK t : t = <<p, q>>
    OBVIOUS
  <2>2. IsSequence(t) /\ \A k \in 1..Len(t) : t[k] = p \/ t[k] = q
    BY <2>1, TwoSequence
  <2>3. WellFormed(Parts(t))
    BY <1>3, <2>2, PartsFormed
  <2> QED BY <1>3, <2>1, <2>3
<1>4. IsSequence(<<1>>) /\ IsSequence(<<2>>)
  BY OneSequence
<1>5. /\ IsSequence(SaidBy(Text(<<1>>))) /\ IsSequence(SaidBy(Text(<<2>>)))
      /\ IsSequence(SaidBy(MarkedText(<<1>>)))
  BY <1>4, PartsSaid
<1>6. \/ s = Null \/ s = Str(<<1>>) \/ s = Parts(<<Text(<<1>>), Text(<<2>>)>>)
      \/ s = Parts(<<MarkedText(<<1>>), Text(<<2>>)>>)
  BY DEF SystemFields
<1>7. CASE s = Parts(<<Text(<<1>>), Text(<<2>>)>>)
  BY <1>3, <1>5, <1>7
<1>8. CASE s = Parts(<<MarkedText(<<1>>), Text(<<2>>)>>)
  BY <1>3, <1>5, <1>8
<1> QED BY <1>1, <1>2, <1>6, <1>7, <1>8

LEMMA AnthropicToldBedrock ==
  ASSUME TalkInv, Sent, kind = "anthropic"
  PROVE  /\ Speech(Spoken(ToBedrock.messages)) = Speech(Spoken(talk))
         /\ TextOf(ToBedrock.system) = SystemText
<1> DEFINE r == Request
           body == [messages |-> r.messages, system |-> r.system, tools |-> r.tools,
                    choice |-> r.choice, thinking |-> r.thinking /\ ~FALSE]
<1>1. r.messages = talk /\ r.system = system /\ AllShaped(talk) /\ system \in SystemFields
  BY DEF Request, TalkInv, FieldsInv
<1>2. ToBedrock = BridgedBody(body, r)
  BY DEF ToBedrock, BedrockBody, Imaged, MarkedBody, BridgedBody
<1>3. HasField(body)
  BY DEF HasField
<1>4. body.messages = talk /\ body.system = system
  BY <1>1
<1>5. TextBlocks(system) /\ WellFormed(system)
  BY <1>1, SystemFieldsAre, SystemFieldsFormed
<1> HIDE DEF body, r
<1>6. /\ TextOf(ToBedrock.system) = TextOf(body.system) \o Orders(body.messages)
      /\ Speech(Spoken(ToBedrock.messages)) = Voices(body.messages)
  BY <1>1, <1>2, <1>3, <1>4, <1>5, BridgedVoices
<1> QED BY <1>1, <1>4, <1>6, SaidByClient DEF SystemText

-----------------------------------------------------------------------------
(* From the other protocol: what every turn becomes.                        *)
LEMMA VoicesConcat ==
  ASSUME NEW s, NEW t, IsSequence(s), IsSequence(t),
         \A k \in 1..Len(s) : WellFormed(s[k].content), \A k \in 1..Len(t) : WellFormed(t[k].content)
  PROVE  /\ IsSequence(s \o t) /\ \A k \in 1..Len(s \o t) : WellFormed((s \o t)[k].content)
         /\ Voices(s \o t) = Voices(s) \o Voices(t) /\ Orders(s \o t) = Orders(s) \o Orders(t)
<1> DEFINE u == s \o t
           gs == [k \in 1..Len(s) |-> Voice(s[k])]
           hs == [k \in 1..Len(t) |-> Voice(t[k])]
           us == [k \in 1..Len(u) |-> Voice(u[k])]
           is == [k \in 1..Len(s) |-> Order(s[k])]
           js == [k \in 1..Len(t) |-> Order(t[k])]
           vs == [k \in 1..Len(u) |-> Order(u[k])]
<1>0. /\ Len(s) \in Nat /\ Len(t) \in Nat /\ IsSequence(u) /\ Len(u) = Len(s) + Len(t)
      /\ \A k \in 1..Len(s) : u[k] = s[k]
      /\ \A k \in 1..Len(t) : u[Len(s) + k] = t[k]
  BY ConcatSequences, SequenceFacts
<1>1. OfSequences(gs) /\ OfSequences(hs) /\ OfSequences(is) /\ OfSequences(js)
  BY VoicesAre
<1>2. IsSequence(gs) /\ Len(gs) = Len(s) /\ \A k \in 1..Len(s) : gs[k] = Voice(s[k])
  BY <1>0, FunctionSequence
<1>3. IsSequence(hs) /\ Len(hs) = Len(t) /\ \A k \in 1..Len(t) : hs[k] = Voice(t[k])
  BY <1>0, FunctionSequence
<1>4. IsSequence(is) /\ Len(is) = Len(s) /\ \A k \in 1..Len(s) : is[k] = Order(s[k])
  BY <1>0, FunctionSequence
<1>5. IsSequence(js) /\ Len(js) = Len(t) /\ \A k \in 1..Len(t) : js[k] = Order(t[k])
  BY <1>0, FunctionSequence
<1>6. ASSUME NEW k \in 1..Len(u) PROVE WellFormed(u[k].content)
  <2>1. k \in 1..Len(s) \/ (k - Len(s) \in 1..Len(t) /\ Len(s) + (k - Len(s)) = k)
    BY <1>0
  <2> HIDE DEF u
  <2>2. CASE k \in 1..Len(s)
    BY <1>0, <2>2
  <2>3. CASE k - Len(s) \in 1..Len(t) /\ Len(s) + (k - Len(s)) = k
    BY <1>0, <2>3
  <2> QED BY <2>1, <2>2, <2>3
<1> HIDE DEF u
<1>7. IsSequence(us) /\ Len(us) = Len(u) /\ \A k \in 1..Len(u) : us[k] = Voice(u[k])
  BY <1>0, FunctionSequence
<1>8. IsSequence(vs) /\ Len(vs) = Len(u) /\ \A k \in 1..Len(u) : vs[k] = Order(u[k])
  BY <1>0, FunctionSequence
<1>9. (\A k \in 1..Len(s) : k \in 1..Len(u)) /\ (\A k \in 1..Len(t) : Len(s) + k \in 1..Len(u))
  BY <1>0
<1>10. (\A k \in 1..Len(gs) : us[k] = gs[k]) /\ (\A k \in 1..Len(hs) : us[Len(gs) + k] = hs[k])
  BY <1>0, <1>2, <1>3, <1>7, <1>9
<1>11. (\A k \in 1..Len(is) : vs[k] = is[k]) /\ (\A k \in 1..Len(js) : vs[Len(is) + k] = js[k])
  BY <1>0, <1>4, <1>5, <1>8, <1>9
<1> HIDE DEF gs, hs, us, is, js, vs
<1>12. FlattenSeq(us) = FlattenSeq(gs) \o FlattenSeq(hs)
  BY <1>0, <1>1, <1>2, <1>3, <1>7, <1>10, GatheredConcat
<1>13. FlattenSeq(vs) = FlattenSeq(is) \o FlattenSeq(js)
  BY <1>0, <1>1, <1>4, <1>5, <1>8, <1>11, GatheredConcat
<1> QED BY <1>0, <1>6, <1>12, <1>13 DEF Voices, Orders, gs, hs, us, is, js, vs, u

LEMMA VoicesOne ==
  ASSUME NEW m, WellFormed(m.content)
  PROVE  Voices(<<m>>) = Voice(m) /\ Orders(<<m>>) = Order(m)
<1>1. Len(<<m>>) = 1 /\ <<m>>[1] = m
  BY OneSequence
<1>2. [k \in 1..1 |-> Voice(<<m>>[k])] = <<Voice(m)>> /\ [k \in 1..1 |-> Order(<<m>>[k])] = <<Order(m)>>
  <2>1. \A k \in 1..1 : k = 1
    OBVIOUS
  <2>2. [k \in 1..1 |-> Voice(<<m>>[k])] = [k \in 1..1 |-> Voice(m)]
        /\ [k \in 1..1 |-> Order(<<m>>[k])] = [k \in 1..1 |-> Order(m)]
    BY <1>1, <2>1
  <2>3. ASSUME NEW x PROVE [k \in 1..1 |-> x] = <<x>>
    <3>1. IsSequence([k \in 1..1 |-> x]) /\ Len([k \in 1..1 |-> x]) = 1
      BY FunctionSequence
    <3> QED BY <2>1, <3>1, OneSequence, SameSequence
  <2> QED BY <2>2, <2>3
<1> QED BY <1>1, <1>2, FlattenOne DEF Voices, Orders

LEMMA VoicesNone == Voices(<<>>) = <<>> /\ Orders(<<>>) = <<>>
<1>1. Len(<<>>) = 0
  BY EmptySequence
<1>2. [k \in 1..0 |-> Voice(<<>>[k])] = <<>> /\ [k \in 1..0 |-> Order(<<>>[k])] = <<>>
  <2>1. ASSUME NEW s, s = [k \in 1..0 |-> s[k]] PROVE s = <<>>
    <3>1. IsSequence([k \in 1..0 |-> s[k]]) /\ Len([k \in 1..0 |-> s[k]]) = 0
      BY FunctionSequence
    <3> QED BY <2>1, <3>1, EmptySequence
  <2>2. PICK g : g = [k \in 1..0 |-> Voice(<<>>[k])]
    OBVIOUS
  <2>3. PICK h : h = [k \in 1..0 |-> Order(<<>>[k])]
    OBVIOUS
  <2>4. g = [k \in 1..0 |-> g[k]] /\ h = [k \in 1..0 |-> h[k]]
    BY <2>2, <2>3
  <2> QED BY <2>1, <2>2, <2>3, <2>4
<1> QED BY <1>1, <1>2, FlattenNone DEF Voices, Orders

(* Two kinds of pieces, of which the first kind leads.                      *)
Leads(as, bs, gs) ==
  \A k \in 1..Len(gs) : \/ as[k] = gs[k] /\ \A j \in 1..k : bs[j] = <<>>
                        \/ as[k] = <<>> /\ bs[k] = gs[k]
LEMMA FlattenLeading ==
  ASSUME NEW gs, NEW as, NEW bs, OfSequences(gs), OfSequences(as), OfSequences(bs),
         Len(as) = Len(gs), Len(bs) = Len(gs), Leads(as, bs, gs)
  PROVE  FlattenSeq(gs) = FlattenSeq(as) \o FlattenSeq(bs)
<1> DEFINE Led(n) == FlattenSeq(First(gs, n)) = FlattenSeq(First(as, n)) \o FlattenSeq(First(bs, n))
           S == {n \in Nat : Led(n)}
<1>0. IsSequence(gs) /\ IsSequence(as) /\ IsSequence(bs) /\ Len(gs) \in Nat
  BY SequenceFacts DEF OfSequences
<1>1. 0 \in S
  <2>1. First(gs, 0) = <<>> /\ First(as, 0) = <<>> /\ First(bs, 0) = <<>>
    BY <1>0, FirstFacts
  <2>2. FlattenSeq(<<>>) = <<>> \o <<>>
    BY FlattenNone, ConcatEmpty, EmptySequence
  <2> QED BY <2>1, <2>2, FlattenNone
<1>2. ASSUME NEW n \in Nat, n + 1 <= Len(gs), n \in S PROVE n + 1 \in S
  <2>1. /\ n + 1 \in 1..Len(gs)
        /\ IsSequence(gs[n + 1]) /\ FlattenSeq(First(gs, n + 1)) = FlattenSeq(First(gs, n)) \o gs[n + 1]
    BY <1>2, FlattenStep
  <2>2. IsSequence(as[n + 1]) /\ FlattenSeq(First(as, n + 1)) = FlattenSeq(First(as, n)) \o as[n + 1]
    BY <1>2, FlattenStep
  <2>3. IsSequence(bs[n + 1]) /\ FlattenSeq(First(bs, n + 1)) = FlattenSeq(First(bs, n)) \o bs[n + 1]
    BY <1>2, FlattenStep
  <2>4. PICK g, a, b : g = FlattenSeq(First(gs, n)) /\ a = FlattenSeq(First(as, n)) /\ b = FlattenSeq(First(bs, n))
    OBVIOUS
  <2>5. IsSequence(a) /\ IsSequence(b)
    <3>1. ASSUME NEW s, OfSequences(s), Len(s) = Len(gs) PROVE IsSequence(FlattenSeq(First(s, n)))
      <4>1. n \in 0..Len(s) /\ IsSequence(s)
        BY <1>0, <1>2, <3>1 DEF OfSequences
      <4>2. IsSequence(First(s, n)) /\ Len(First(s, n)) = n
        BY <4>1, FirstFacts
      <4>3. \A k \in 1..n : k \in 1..Len(s) /\ First(s, n)[k] = s[k]
        BY <1>0, <1>2, <3>1 DEF First
      <4>4. OfSequences(First(s, n))
        BY <3>1, <4>2, <4>3 DEF OfSequences
      <4> QED BY <4>4, FlattenSequence
    <3> QED BY <2>4, <3>1
  <2>6. g = a \o b
    BY <1>2, <2>4
  <2>7. ASSUME as[n + 1] = gs[n + 1] /\ \A j \in 1..(n + 1) : bs[j] = <<>> PROVE Led(n + 1)
    <3>1. b = <<>>
      <4>1. n \in 0..Len(bs)
        BY <1>0, <1>2
      <4>2. IsSequence(First(bs, n)) /\ Len(First(bs, n)) = n
        BY <1>0, <4>1, FirstFacts
      <4>3. \A k \in 1..n : k \in 1..(n + 1) /\ First(bs, n)[k] = bs[k]
        BY <1>0, <1>2 DEF First
      <4>4. \A k \in 1..n : First(bs, n)[k] = <<>>
        BY <2>7, <4>3
      <4>5. OfSequences(First(bs, n))
        BY <4>2, <4>4, EmptySequence DEF OfSequences
      <4> QED BY <2>4, <4>2, <4>4, <4>5, FlattenEmpties
    <3>2. bs[n + 1] = <<>>
      BY <2>7, <2>1
    <3>3. PICK x : x = gs[n + 1]
      OBVIOUS
    <3>4. FlattenSeq(First(gs, n + 1)) = (a \o b) \o x /\ FlattenSeq(First(as, n + 1)) = a \o x
          /\ FlattenSeq(First(bs, n + 1)) = b \o <<>>
      <4>1. as[n + 1] = x
        BY <2>1, <2>7, <3>3
      <4> QED BY ONLY <2>1, <2>2, <2>3, <2>4, <2>6, <3>2, <3>3, <4>1
    <3>5. a \o b = a /\ b \o <<>> = <<>> /\ IsSequence(a \o x) /\ (a \o x) \o <<>> = a \o x
      <4>1. IsSequence(x)
        BY <2>1, <3>3
      <4>2. IsSequence(a \o x)
        BY ONLY <2>5, <4>1, ConcatSequences
      <4>3. (a \o x) \o <<>> = a \o x
        BY ONLY <4>2, ConcatEmpty
      <4>4. a \o <<>> = a /\ <<>> \o <<>> = <<>>
        BY ONLY <2>5, EmptySequence, ConcatEmpty
      <4> QED BY ONLY <3>1, <4>2, <4>3, <4>4
    <3>6. FlattenSeq(First(gs, n + 1)) = FlattenSeq(First(as, n + 1)) \o FlattenSeq(First(bs, n + 1))
      BY ONLY <3>4, <3>5
    <3> QED BY ONLY <3>6 DEF Led
  <2>8. ASSUME as[n + 1] = <<>> /\ bs[n + 1] = gs[n + 1] PROVE Led(n + 1)
    <3>1. PICK x : x = gs[n + 1]
      OBVIOUS
    <3>2. FlattenSeq(First(gs, n + 1)) = (a \o b) \o x /\ FlattenSeq(First(as, n + 1)) = a \o <<>>
          /\ FlattenSeq(First(bs, n + 1)) = b \o x
      BY ONLY <2>1, <2>2, <2>3, <2>4, <2>6, <2>8, <3>1
    <3>3. IsSequence(x)
      BY <2>1, <3>1
    <3>4. (a \o b) \o x = a \o (b \o x) /\ a \o <<>> = a
      <4>1. (a \o b) \o x = a \o (b \o x)
        <5>1. PICK p, q : p = a /\ q = b /\ IsSequence(p) /\ IsSequence(q)
          BY ONLY <2>5
        <5>2. (p \o q) \o x = p \o (q \o x)
          BY ONLY <3>3, <5>1, ConcatAssoc
        <5> QED BY ONLY <5>1, <5>2
      <4>2. a \o <<>> = a
        BY ONLY <2>5, ConcatEmpty
      <4> QED BY ONLY <4>1, <4>2
    <3>5. FlattenSeq(First(gs, n + 1)) = FlattenSeq(First(as, n + 1)) \o FlattenSeq(First(bs, n + 1))
      BY ONLY <3>2, <3>4
    <3> QED BY ONLY <3>5 DEF Led
  <2>9. Led(n + 1)
    <3>1. \/ as[n + 1] = gs[n + 1] /\ \A j \in 1..(n + 1) : bs[j] = <<>>
          \/ as[n + 1] = <<>> /\ bs[n + 1] = gs[n + 1]
      BY <2>1 DEF Leads
    <3> QED BY <2>7, <2>8, <3>1
  <2> HIDE DEF Led
  <2> QED BY <2>9
<1> HIDE DEF S
<1>3. Len(gs) \in S
  BY <1>0, <1>1, <1>2, GrowInduction
<1>4. First(gs, Len(gs)) = gs /\ First(as, Len(gs)) = as /\ First(bs, Len(gs)) = bs
  BY <1>0, FirstFacts
<1> QED BY <1>3, <1>4 DEF S

(* A text part has the fields of one.                                       *)
Unmarked(p) == ~(p.type = "text" /\ p.marked)
TextPart(p) == p.type = "text" => p = [type |-> "text", text |-> p.text, marked |-> p.marked]

LEMMA UnmarkedPart ==
  ASSUME NEW p, TextPart(p)
  PROVE  /\ SaidBy(Unmark(p)) = SaidBy(p) /\ Unmark(p).type = p.type /\ TextPart(Unmark(p)) /\ Unmarked(Unmark(p))
         /\ p.type # "text" => Unmark(p) = p
<1>1. CASE p.type # "text"
  BY <1>1 DEF Unmark, Unmarked, TextPart
<1>2. CASE p.type = "text"
  <2>1. p = [type |-> "text", text |-> p.text, marked |-> p.marked]
    BY <1>2 DEF TextPart
  <2>2. Unmark(p) = [type |-> "text", text |-> p.text, marked |-> FALSE]
    BY <1>2, <2>1 DEF Unmark
  <2>3. PICK q : q = [type |-> "text", text |-> p.text, marked |-> FALSE]
    OBVIOUS
  <2>4. q.type = "text" /\ q.text = p.text /\ q.marked = FALSE
    BY <2>3
  <2>5. SaidBy(q) = q.text /\ SaidBy(p) = p.text
    BY <1>2, <2>4 DEF SaidBy
  <2>6. TextPart(q)
    BY <2>3, <2>4 DEF TextPart
  <2> QED BY <1>2, <2>2, <2>3, <2>4, <2>5, <2>6 DEF Unmarked
<1> QED BY <1>1, <1>2

(* A content without its marks.                                             *)
LEMMA PlainParts ==
  ASSUME NEW s, IsSequence(s), \A k \in 1..Len(s) : IsSequence(SaidBy(s[k])) /\ TextPart(s[k]),
         NEW t, t = Apply(Unmark, s)
  PROVE  /\ IsSequence(t) /\ Len(t) = Len(s) /\ Saying(t) = Saying(s)
         /\ \A k \in 1..Len(s) : /\ SaidBy(t[k]) = SaidBy(s[k]) /\ t[k].type = s[k].type
                                 /\ t[k].type # "text" => t[k] = s[k]
         /\ \A k \in 1..Len(s) : TextPart(t[k]) /\ Unmarked(t[k])
<1>1. DOMAIN s = 1..Len(s) /\ Len(s) \in Nat
  BY SequenceFacts
<1>2. t = [k \in 1..Len(s) |-> Unmark(s[k])]
  BY <1>1 DEF Apply
<1>3. IsSequence(t) /\ Len(t) = Len(s) /\ \A k \in 1..Len(s) : t[k] = Unmark(s[k])
  BY <1>1, <1>2, FunctionSequence
<1>4. ASSUME NEW k \in 1..Len(s)
      PROVE  /\ SaidBy(t[k]) = SaidBy(s[k]) /\ t[k].type = s[k].type /\ TextPart(t[k]) /\ Unmarked(t[k])
             /\ t[k].type # "text" => t[k] = s[k]
  <2>1. PICK p : p = s[k]
    OBVIOUS
  <2>2. t[k] = Unmark(p) /\ TextPart(p)
    BY <1>3, <2>1
  <2>3. /\ SaidBy(Unmark(p)) = SaidBy(p) /\ Unmark(p).type = p.type /\ TextPart(Unmark(p)) /\ Unmarked(Unmark(p))
        /\ p.type # "text" => Unmark(p) = p
    BY ONLY <2>2, UnmarkedPart
  <2> QED BY ONLY <2>1, <2>2, <2>3
<1>5. [k \in 1..Len(t) |-> SaidBy(t[k])] = [k \in 1..Len(s) |-> SaidBy(s[k])]
  BY <1>3, <1>4
<1> QED BY <1>3, <1>4, <1>5 DEF Saying

LEMMA FieldRemoved ==
  ASSUME NEW c, WellFormed(c), \A k \in 1..Len(PartsOf(c)) : TextPart(PartsOf(c)[k]), NEW d, d = RemoveField(c)
  PROVE  /\ WellFormed(d) /\ SaidIn(d) = SaidIn(c) /\ d.form = c.form /\ (c.form # "array" => d = c)
         /\ c.form = "array" => d = Parts(Apply(Unmark, c.parts)) /\ d.parts = Apply(Unmark, c.parts)
<1>1. CASE c.form # "array"
  BY <1>1 DEF RemoveField
<1>2. CASE c.form = "array"
  <2>1. PICK s, t : s = c.parts /\ t = Apply(Unmark, s)
    OBVIOUS
  <2>2. IsSequence(s) /\ \A k \in 1..Len(s) : IsSequence(SaidBy(s[k])) /\ TextPart(s[k])
    BY <1>2, <2>1, WellFormedFacts DEF PartsOf
  <2>3. /\ IsSequence(t) /\ Len(t) = Len(s) /\ Saying(t) = Saying(s)
        /\ \A k \in 1..Len(s) : SaidBy(t[k]) = SaidBy(s[k])
    BY ONLY <2>1, <2>2, PlainParts
  <2>4. d = Parts(t)
    BY <1>2, <2>1 DEF RemoveField
  <2>5. WellFormed(Parts(t)) /\ Parts(t).form = "array" /\ Parts(t).parts = t
    BY <2>2, <2>3, PartsFormed
  <2>6. SaidIn(d) = Saying(t) /\ SaidIn(c) = Saying(s)
    BY <1>2, <2>1, <2>4, <2>5, ContentSays
  <2> QED BY <1>2, <2>1, <2>3, <2>4, <2>5, <2>6
<1> QED BY <1>1, <1>2

(* Turns of the Anthropic protocol.                                         *)
AssistantBlocks(s) == \A k \in 1..Len(s) : s[k].type \in {"text", "thinking", "tool_use"}
ResultFormed(p) == p.type = "tool_result" => WellFormed(p.content) /\ SaidBy(p) = TextOf(p.content)
UserBlocks(s) ==
  /\ \A k \in 1..Len(s) : /\ s[k].type \in {"text", "image", "tool_result"} /\ ResultFormed(s[k])
                          /\ s[k].type = "image" => s[k].source \in {"base64", "url"}
  /\ \A k \in 1..Len(s) : s[k].type = "tool_result" => \A j \in 1..k : s[j].type = "tool_result"
AnthropicTurn(m) ==
  /\ m.calls = <<>>
  /\ \A k \in 1..Len(PartsOf(m.content)) : TextPart(PartsOf(m.content)[k])
  /\ \/ m.role \in {"user", "assistant", "system"} /\ m.content.form = "string"
     \/ m.role = "assistant" /\ m.content.form = "array" /\ AssistantBlocks(m.content.parts)
     \/ m.role = "user" /\ m.content.form = "array" /\ UserBlocks(m.content.parts)
     \/ m.role = "system" /\ m.content.form = "array" /\ TextBlocks(m.content)

(* What a turn becomes: messages that say the same, and say it all in their *)
(* texts.                                                                   *)
Legible(m) == IsSequence(m.calls) /\ SaidIn(m.content) = TextOf(m.content)
Becomes(t, said, told) ==
  /\ IsSequence(t)
  /\ \A k \in 1..Len(t) : /\ WellFormed(t[k].content) /\ Legible(t[k])
                          /\ Instructs(t[k]) => TextBlocks(t[k].content)
  /\ Voices(t) = said /\ Orders(t) = told

LEMMA ContentLegible ==
  ASSUME NEW c, WellFormed(c), \A k \in 1..Len(PartsOf(c)) : PartsOf(c)[k].type # "tool_result"
  PROVE  SaidIn(c) = TextOf(c)
<1>1. CASE c.form = "array"
  <2>1. PICK s : s = c.parts
    OBVIOUS
  <2>2. IsSequence(s) /\ (\A k \in 1..Len(s) : IsSequence(SaidBy(s[k]))) /\ \A k \in 1..Len(s) : s[k].type # "tool_result"
    BY <1>1, <2>1, WellFormedFacts DEF PartsOf
  <2>3. Joined(s) = Saying(s)
    BY ONLY <2>2, JoinedSays
  <2> QED BY <1>1, <2>1, <2>3, ContentSays DEF TextOf
<1> QED BY <1>1, ContentSays

LEMMA BecomesOne ==
  ASSUME NEW m, WellFormed(m.content), Legible(m), Instructs(m) => TextBlocks(m.content)
  PROVE  Becomes(<<m>>, Voice(m), Order(m))
<1>1. PICK t : t = <<m>>
  OBVIOUS
<1>2. IsSequence(t) /\ Len(t) = 1 /\ t[1] = m
  BY <1>1, OneSequence
<1>3. \A k \in 1..Len(t) : t[k] = m
  BY <1>2
<1>4. Voices(t) = Voice(m) /\ Orders(t) = Order(m)
  BY <1>1, VoicesOne
<1> QED BY <1>1, <1>2, <1>3, <1>4 DEF Becomes

(* The texts among the parts an assistant says are all it says.             *)
LEMMA TextsSaid ==
  ASSUME NEW s, IsSequence(s), \A k \in 1..Len(s) : IsSequence(SaidBy(s[k])), AssistantBlocks(s)
  PROVE  /\ Joined(OfType(s, {"text"})) = Saying(s) /\ IsSequence(Saying(s))
         /\ OfType(s, {"text"}) = <<>> => Saying(s) = <<>>
<1> DEFINE f == [p \in Range(s) |-> p.text]
           texts == OfType(s, {"text"})
<1>0. DOMAIN s = 1..Len(s) /\ Len(s) \in Nat
  BY SequenceFacts
<1>1. \A k \in 1..Len(s) : /\ s[k].type = "text" => SaidBy(s[k]) = s[k].text
                           /\ s[k].type # "text" => SaidBy(s[k]) = <<>>
  BY DEF SaidBy, AssistantBlocks
<1>2. \A k \in 1..Len(s) : s[k] \in Range(s) /\ f[s[k]] = s[k].text
  BY InRange
<1>3. IsSequence(texts) /\ (\A k \in DOMAIN texts : texts[k] \in Range(s))
      /\ (texts = <<>> <=> \A k \in 1..Len(s) : s[k].type \notin {"text"})
  BY OfTypeIsPick, ImagesOfType
<1>4. \A k \in 1..Len(texts) : texts[k].type = "text" /\ texts[k] \in Range(s)
  <2>1. texts = Pick(s, OfTypes(s, {"text"}))
    BY OfTypeIsPick
  <2>2. \A k \in 1..Len(texts) : texts[k] \in Range(s) \cap OfTypes(s, {"text"})
    BY <2>1, PickedFrom
  <2> QED BY <2>2 DEF OfTypes
<1>5. \A k \in 1..Len(s) : s[k].type \in {"text"} => IsSequence(f[s[k]])
  BY <1>1, <1>2
<1> HIDE DEF f
<1>6. FlattenSeq(Map(f, texts))
        = FlattenSeq([k \in 1..Len(s) |-> IF s[k].type \in {"text"} THEN f[s[k]] ELSE <<>>])
  BY <1>5, FlatImagesOfType
<1>7. [k \in 1..Len(s) |-> IF s[k].type \in {"text"} THEN f[s[k]] ELSE <<>>] = [k \in 1..Len(s) |-> SaidBy(s[k])]
  BY <1>1, <1>2
<1>8. \A k \in 1..Len(texts) : f[texts[k]] = texts[k].text /\ IsSequence(texts[k].text)
  <2>1. ASSUME NEW p \in Range(s), p.type = "text" PROVE f[p] = p.text /\ IsSequence(p.text)
    <3>1. PICK k \in 1..Len(s) : s[k] = p
      BY <1>0, <2>1 DEF Range
    <3> QED BY <1>1, <1>2, <2>1, <3>1
  <2> QED BY <1>4, <2>1
<1> HIDE DEF texts
<1>9. Joined(texts) = FlattenSeq([k \in 1..Len(texts) |-> IF texts[k].type = "text" THEN texts[k].text ELSE <<>>])
  BY <1>3, <1>8, JoinedIs
<1>10. [k \in 1..Len(texts) |-> IF texts[k].type = "text" THEN texts[k].text ELSE <<>>] = Map(f, texts)
  <2>1. DOMAIN texts = 1..Len(texts)
    BY <1>3, SequenceFacts
  <2> QED BY <1>4, <1>8, <2>1 DEF Map
<1>11. Joined(texts) = Saying(s)
  BY <1>6, <1>7, <1>9, <1>10 DEF Saying
<1>12. texts = <<>> => Saying(s) = <<>>
  BY <1>1, <1>3, SayingNone
<1> QED BY <1>11, <1>12, SayingIs DEF texts

LEMMA AssistantBecomes ==
  ASSUME NEW m, m.role = "assistant", m.content.form = "array", NEW s, s = m.content.parts, IsSequence(s),
         \A k \in 1..Len(s) : IsSequence(SaidBy(s[k])), AssistantBlocks(s)
  PROVE  Becomes(<<AnthropicAssistantToOpenAI(m)>>, Saying(s), <<>>)
<1> DEFINE texts == OfType(s, {"text"})
           uses == OfType(s, {"tool_use"})
           c == IF texts # <<>> THEN Str(Joined(texts)) ELSE IF uses # <<>> THEN Null ELSE Str(<<>>)
           calls == Apply(LAMBDA u : Call(u.id, u.name), uses)
<1>1. Joined(texts) = Saying(s) /\ IsSequence(Saying(s)) /\ (texts = <<>> => Saying(s) = <<>>)
  BY TextsSaid
<1>2. AnthropicAssistantToOpenAI(m) = Calling(c, calls)
  BY DEF AnthropicAssistantToOpenAI
<1>3. WellFormed(c) /\ SaidIn(c) = Saying(s) /\ SaidIn(c) = TextOf(c)
  <2>1. c = Str(Saying(s)) \/ (c = Null /\ Saying(s) = <<>>)
    BY <1>1
  <2> HIDE DEF c
  <2>2. CASE c = Str(Saying(s))
    BY <1>1, <2>2, StrFormed, ContentSays
  <2>3. CASE c = Null /\ Saying(s) = <<>>
    <3>1. Null.form = "null"
      BY DEF Null
    <3> QED BY <2>3, <3>1, SpeechFormed, ContentSays
  <2> QED BY <2>1, <2>2, <2>3
<1>c. IsSequence(calls)
  <2>1. IsSequence(uses)
    BY OfTypeIsPick
  <2>2. DOMAIN uses = 1..Len(uses) /\ Len(uses) \in Nat
    BY <2>1, SequenceFacts
  <2> HIDE DEF uses
  <2>3. calls = [k \in 1..Len(uses) |-> Call(uses[k].id, uses[k].name)]
    BY <2>2 DEF Apply
  <2> QED BY <2>2, <2>3, FunctionSequence
<1> HIDE DEF c, calls
<1>4. PICK w : w = Calling(c, calls)
  OBVIOUS
<1>5. w.role = "assistant" /\ w.content = c /\ w.calls = calls
  <2>1. w = [[role |-> "assistant", content |-> c, calls |-> <<>>, id |-> "", name |-> ""] EXCEPT !.calls = calls]
    BY <1>4 DEF Calling, Message
  <2>2. w = [role |-> "assistant", content |-> c, calls |-> calls, id |-> "", name |-> ""]
    BY <2>1
  <2> QED BY <2>2
<1>6. ~Instructs(w)
  BY <1>5 DEF Instructs
<1>7. Voice(w) = Saying(s) /\ Order(w) = <<>>
  BY <1>3, <1>5, <1>6 DEF Voice, Order
<1>8. Becomes(<<w>>, Voice(w), Order(w))
  <2>1. Legible(w)
    BY <1>c, <1>3, <1>5 DEF Legible
  <2> QED BY <1>3, <1>5, <1>6, <2>1, BecomesOne
<1> QED BY <1>2, <1>4, <1>7, <1>8

(* What two turns become, one after the other.                              *)
LEMMA BecomeBoth ==
  ASSUME NEW s, NEW t, NEW a, NEW b, NEW x, NEW y, Becomes(s, a, x), Becomes(t, b, y)
  PROVE  Becomes(s \o t, a \o b, x \o y)
<1>1. /\ IsSequence(s) /\ IsSequence(t) /\ Len(s) \in Nat /\ Len(t) \in Nat
      /\ \A k \in 1..Len(s) : WellFormed(s[k].content) /\ Legible(s[k]) /\ (Instructs(s[k]) => TextBlocks(s[k].content))
      /\ \A k \in 1..Len(t) : WellFormed(t[k].content) /\ Legible(t[k]) /\ (Instructs(t[k]) => TextBlocks(t[k].content))
  BY SequenceFacts DEF Becomes
<1>2. PICK u : u = s \o t
  OBVIOUS
<1>3. IsSequence(u) /\ Len(u) = Len(s) + Len(t) /\ (\A k \in 1..Len(s) : u[k] = s[k])
      /\ \A k \in 1..Len(t) : u[Len(s) + k] = t[k]
  BY <1>1, <1>2, ConcatSequences
<1>4. ASSUME NEW k \in 1..Len(u)
      PROVE  WellFormed(u[k].content) /\ Legible(u[k]) /\ (Instructs(u[k]) => TextBlocks(u[k].content))
  <2>1. k \in 1..Len(s) \/ (k - Len(s) \in 1..Len(t) /\ Len(s) + (k - Len(s)) = k)
    BY <1>1, <1>3
  <2>2. CASE k \in 1..Len(s)
    BY <1>1, <1>3, <2>2
  <2>3. CASE k - Len(s) \in 1..Len(t) /\ Len(s) + (k - Len(s)) = k
    BY <1>1, <1>3, <2>3
  <2> QED BY <2>1, <2>2, <2>3
<1>5. Voices(u) = Voices(s) \o Voices(t) /\ Orders(u) = Orders(s) \o Orders(t)
  BY <1>1, <1>2, VoicesConcat
<1>6. Voices(u) = a \o b /\ Orders(u) = x \o y
  BY <1>5 DEF Becomes
<1> QED BY <1>2, <1>3, <1>4, <1>6 DEF Becomes

(* The results of a user turn become tool messages, and they lead.          *)
LEMMA ResultsBecome ==
  ASSUME NEW s, IsSequence(s), UserBlocks(s), NEW rs,
         rs = Apply(LAMBDA r : ToolMessage(r.id, ToolResultToText(r.content)), OfType(s, {"tool_result"}))
  PROVE  Becomes(rs, FlattenSeq([k \in 1..Len(s) |-> IF s[k].type = "tool_result" THEN SaidBy(s[k]) ELSE <<>>]), <<>>)
<1> DEFINE f == [p \in Range(s) |-> TextOf(p.content)]
           results == OfType(s, {"tool_result"})
           h == [p \in Range(s) |-> ToolMessage(p.id, ToolResultToText(p.content))]
<1>0. DOMAIN s = 1..Len(s) /\ Len(s) \in Nat
  BY SequenceFacts
<1>1. ASSUME NEW p \in Range(s), p.type = "tool_result"
      PROVE  /\ IsSequence(TextOf(p.content)) /\ f[p] = TextOf(p.content) /\ SaidBy(p) = TextOf(p.content)
             /\ LET w == h[p] IN /\ WellFormed(w.content) /\ Legible(w) /\ ~Instructs(w)
                                 /\ Voice(w) = TextOf(p.content) /\ Order(w) = <<>>
  <2>1. PICK k \in 1..Len(s) : s[k] = p
    BY <1>0, <1>1 DEF Range
  <2>2. WellFormed(p.content) /\ SaidBy(p) = TextOf(p.content)
    BY <1>1, <2>1 DEF UserBlocks, ResultFormed
  <2>3. IsSequence(TextOf(p.content))
    BY <2>2, TextFormed
  <2>4. PICK c : c = Str(TextOf(p.content))
    OBVIOUS
  <2>5. WellFormed(c) /\ SaidIn(c) = TextOf(p.content) /\ SaidIn(c) = TextOf(c)
    BY <2>3, <2>4, StrFormed, ContentSays
  <2>6. PICK w : w = ToolMessage(p.id, c)
    OBVIOUS
  <2>7. w.role = "tool" /\ w.content = c /\ w.calls = <<>>
    <3>1. w = [[role |-> "tool", content |-> c, calls |-> <<>>, id |-> "", name |-> ""] EXCEPT !.id = p.id]
      BY <2>6 DEF ToolMessage, Message
    <3>2. w = [role |-> "tool", content |-> c, calls |-> <<>>, id |-> p.id, name |-> ""]
      BY <3>1
    <3> QED BY <3>2
  <2>8. ~Instructs(w)
    BY <2>7 DEF Instructs
  <2>9. h[p] = w
    BY <2>4, <2>6 DEF ToolResultToText
  <2>10. Voice(w) = TextOf(p.content) /\ Order(w) = <<>> /\ WellFormed(w.content) /\ Legible(w)
    BY <2>5, <2>7, <2>8, EmptySequence DEF Voice, Order, Legible
  <2> QED BY <2>2, <2>3, <2>8, <2>9, <2>10
<1>2. IsSequence(results) /\ \A k \in 1..Len(results) : results[k].type = "tool_result" /\ results[k] \in Range(s)
  <2>1. results = Pick(s, OfTypes(s, {"tool_result"})) /\ IsSequence(results)
    BY OfTypeIsPick
  <2>2. \A k \in 1..Len(results) : results[k] \in Range(s) \cap OfTypes(s, {"tool_result"})
    BY <2>1, PickedFrom
  <2> QED BY <2>1, <2>2 DEF OfTypes
<1>3. DOMAIN results = 1..Len(results) /\ Len(results) \in Nat
  BY <1>2, SequenceFacts
<1>4. rs = [k \in 1..Len(results) |-> ToolMessage(results[k].id, ToolResultToText(results[k].content))]
  BY <1>3 DEF Apply
<1> HIDE DEF results
<1>5. IsSequence(rs) /\ Len(rs) = Len(results) /\ \A k \in 1..Len(rs) : rs[k] = h[results[k]]
  <2>1. IsSequence(rs) /\ Len(rs) = Len(results)
    BY <1>3, <1>4, FunctionSequence
  <2>2. \A k \in 1..Len(results) : rs[k] = h[results[k]]
    BY <1>2, <1>4
  <2> QED BY <2>1, <2>2
<1> HIDE DEF h
<1>6. ASSUME NEW k \in 1..Len(rs)
      PROVE  /\ WellFormed(rs[k].content) /\ Legible(rs[k]) /\ ~Instructs(rs[k])
             /\ Voice(rs[k]) = f[results[k]] /\ Order(rs[k]) = <<>>
  <2>1. PICK p : p = results[k]
    OBVIOUS
  <2>2. p \in Range(s) /\ p.type = "tool_result" /\ rs[k] = h[p]
    BY <1>2, <1>5, <2>1
  <2> HIDE DEF f
  <2> QED BY <1>1, <2>1, <2>2
<1>7. [k \in 1..Len(rs) |-> Voice(rs[k])] = Map(f, results)
  <2> HIDE DEF f
  <2> QED BY <1>3, <1>5, <1>6 DEF Map
<1>8. \A k \in 1..Len(s) : s[k] \in Range(s) /\ (s[k].type \in {"tool_result"} <=> s[k].type = "tool_result")
  BY InRange
<1> HIDE DEF f
<1>9. \A k \in 1..Len(s) : s[k].type \in {"tool_result"} => IsSequence(f[s[k]]) /\ f[s[k]] = SaidBy(s[k])
  BY <1>1, <1>8
<1>10. FlattenSeq(Map(f, results))
         = FlattenSeq([k \in 1..Len(s) |-> IF s[k].type \in {"tool_result"} THEN f[s[k]] ELSE <<>>])
  BY <1>9, FlatImagesOfType DEF results
<1>11. [k \in 1..Len(s) |-> IF s[k].type \in {"tool_result"} THEN f[s[k]] ELSE <<>>]
         = [k \in 1..Len(s) |-> IF s[k].type = "tool_result" THEN SaidBy(s[k]) ELSE <<>>]
  BY <1>8, <1>9
<1>12. Orders(rs) = <<>>
  <2> DEFINE os == [k \in 1..Len(rs) |-> Order(rs[k])]
  <2>1. OfSequences(os)
    BY <1>5, <1>6, VoicesAre
  <2>2. Len(os) = Len(rs) /\ \A k \in 1..Len(rs) : os[k] = <<>>
    BY <1>3, <1>5, <1>6, FunctionSequence
  <2> HIDE DEF os
  <2>3. FlattenSeq(os) = <<>>
    BY <2>1, <2>2, FlattenEmpties
  <2> QED BY <2>3 DEF Orders, os
<1>13. Voices(rs) = FlattenSeq([k \in 1..Len(s) |-> IF s[k].type = "tool_result" THEN SaidBy(s[k]) ELSE <<>>])
  BY <1>7, <1>10, <1>11 DEF Voices
<1> QED BY <1>5, <1>6, <1>12, <1>13 DEF Becomes

(* What else the user said becomes one message, or none.                    *)
RestOf(s) == Apply(ImageToOpenAI, Select(s, LAMBDA p : p.type = "text"
                                               \/ (p.type = "image" /\ p.source \in {"base64", "url"})))
LEMMA RestSaid ==
  ASSUME NEW s, IsSequence(s), UserBlocks(s), \A k \in 1..Len(s) : IsSequence(SaidBy(s[k])) /\ TextPart(s[k])
  PROVE  LET rest == RestOf(s)
         IN  /\ IsSequence(rest)
             /\ \A k \in 1..Len(rest) : IsSequence(SaidBy(rest[k])) /\ rest[k].type \in {"text", "image_url"}
             /\ Saying(rest)
                  = FlattenSeq([k \in 1..Len(s) |-> IF s[k].type = "tool_result" THEN <<>> ELSE SaidBy(s[k])])
<1> DEFINE S == {p \in Range(s) : p.type = "text" \/ (p.type = "image" /\ p.source \in {"base64", "url"})}
           g == [p \in Range(s) |-> SaidBy(ImageToOpenAI(p))]
           kept == Pick(s, S)
           rest == RestOf(s)
<1>0. DOMAIN s = 1..Len(s) /\ Len(s) \in Nat
  BY SequenceFacts
<1>1. \A k \in 1..Len(s) : /\ s[k] \in Range(s)
                           /\ s[k] \in S <=> (s[k].type = "text" \/ (s[k].type = "image" /\ s[k].source \in {"base64", "url"}))
  BY InRange
<1>2. Select(s, LAMBDA p : p.type = "text" \/ (p.type = "image" /\ p.source \in {"base64", "url"})) = kept
  <2>1. [k \in DOMAIN s |-> IF s[k].type = "text" \/ (s[k].type = "image" /\ s[k].source \in {"base64", "url"})
                            THEN <<s[k]>> ELSE <<>>]
          = [k \in 1..Len(s) |-> IF s[k] \in S THEN <<s[k]>> ELSE <<>>]
    BY <1>0, <1>1
  <2> QED BY <2>1 DEF Select, Pick
<1>3. IsSequence(kept) /\ \A k \in 1..Len(kept) : kept[k] \in Range(s) \cap S
  BY PickedFrom, PickFacts
<1>4. DOMAIN kept = 1..Len(kept) /\ Len(kept) \in Nat
  BY <1>3, SequenceFacts
<1>5. rest = [k \in 1..Len(kept) |-> ImageToOpenAI(kept[k])]
  BY <1>2, <1>4 DEF RestOf, Apply
<1>6. ASSUME NEW p \in Range(s), p \in S
      PROVE  /\ g[p] = SaidBy(ImageToOpenAI(p)) /\ SaidBy(ImageToOpenAI(p)) = SaidBy(p) /\ IsSequence(SaidBy(p))
             /\ ImageToOpenAI(p).type \in {"text", "image_url"}
  <2>1. IsSequence(SaidBy(p)) /\ TextPart(p)
    BY <1>0, <1>6 DEF Range
  <2>2. CASE p.type = "text"
    BY <2>1, <2>2, UnmarkedPart DEF ImageToOpenAI
  <2>3. CASE p.type = "image"
    <3>1. PICK u : ImageToOpenAI(p) = ImageUrl(u)
      BY <2>3 DEF ImageToOpenAI
    <3>2. SaidBy(p) = <<>>
      BY <2>3 DEF SaidBy
    <3>3. ImageUrl(u).type = "image_url" /\ SaidBy(ImageUrl(u)) = <<>>
      BY PartsSaid DEF ImageUrl
    <3> QED BY <2>1, <3>1, <3>2, <3>3
  <2> QED BY <1>6, <2>2, <2>3
<1> HIDE DEF kept, rest, g
<1>7. IsSequence(rest) /\ Len(rest) = Len(kept) /\ \A k \in 1..Len(kept) : rest[k] = ImageToOpenAI(kept[k])
  BY <1>4, <1>5, FunctionSequence
<1>8. ASSUME NEW k \in 1..Len(rest)
      PROVE  IsSequence(SaidBy(rest[k])) /\ rest[k].type \in {"text", "image_url"} /\ SaidBy(rest[k]) = g[kept[k]]
  <2>1. PICK p : p = kept[k]
    OBVIOUS
  <2>2. p \in Range(s) /\ p \in S /\ rest[k] = ImageToOpenAI(p)
    BY <1>3, <1>7, <2>1
  <2> QED BY <1>6, <2>1, <2>2
<1>9. [k \in 1..Len(rest) |-> SaidBy(rest[k])] = Map(g, kept)
  BY <1>4, <1>7, <1>8 DEF Map
<1>10. \A k \in 1..Len(s) : s[k] \in S => IsSequence(g[s[k]])
  BY <1>1, <1>6
<1>11. FlattenSeq(Map(g, kept)) = FlattenSeq([k \in 1..Len(s) |-> IF s[k] \in S THEN g[s[k]] ELSE <<>>])
  BY <1>10, FlatPick DEF kept
<1>12. [k \in 1..Len(s) |-> IF s[k] \in S THEN g[s[k]] ELSE <<>>]
         = [k \in 1..Len(s) |-> IF s[k].type = "tool_result" THEN <<>> ELSE SaidBy(s[k])]
  <2>1. ASSUME NEW k \in 1..Len(s)
        PROVE  (IF s[k] \in S THEN g[s[k]] ELSE <<>>) = IF s[k].type = "tool_result" THEN <<>> ELSE SaidBy(s[k])
    <3>1. s[k].type \in {"text", "image", "tool_result"} /\ (s[k].type = "image" => s[k].source \in {"base64", "url"})
      BY DEF UserBlocks
    <3>2. s[k] \in S <=> s[k].type # "tool_result"
      BY <1>1, <3>1
    <3> HIDE DEF S
    <3> QED BY <1>1, <1>6, <3>2
  <2> HIDE DEF S
  <2> QED BY <2>1
<1> QED BY <1>7, <1>8, <1>9, <1>11, <1>12 DEF Saying, rest

LEMMA UserBecomes ==
  ASSUME NEW s, IsSequence(s), UserBlocks(s), \A k \in 1..Len(s) : IsSequence(SaidBy(s[k])) /\ TextPart(s[k])
  PROVE  Becomes(AnthropicUserToOpenAI(s), Saying(s), <<>>)
<1> DEFINE results == [k \in 1..Len(s) |-> IF s[k].type = "tool_result" THEN SaidBy(s[k]) ELSE <<>>]
           others == [k \in 1..Len(s) |-> IF s[k].type = "tool_result" THEN <<>> ELSE SaidBy(s[k])]
           pieces == [k \in 1..Len(s) |-> SaidBy(s[k])]
           rs == Apply(LAMBDA r : ToolMessage(r.id, ToolResultToText(r.content)), OfType(s, {"tool_result"}))
           rest == RestOf(s)
           c == IF OfType(rest, {"image_url"}) # <<>> THEN Parts(rest) ELSE Str(Joined(rest))
           tail == IF rest = <<>> THEN <<>> ELSE <<Message("user", c)>>
<1>0. Len(s) \in Nat
  BY SequenceFacts
<1>1. AnthropicUserToOpenAI(s) = rs \o tail
  BY DEF AnthropicUserToOpenAI, RestOf
<1>2. Becomes(rs, FlattenSeq(results), <<>>)
  BY ResultsBecome
<1>3. /\ IsSequence(rest) /\ Saying(rest) = FlattenSeq(others)
      /\ \A k \in 1..Len(rest) : IsSequence(SaidBy(rest[k])) /\ rest[k].type \in {"text", "image_url"}
  BY RestSaid
<1>4. IsSequence(results) /\ Len(results) = Len(s) /\ \A k \in 1..Len(s) : results[k] = IF s[k].type = "tool_result" THEN SaidBy(s[k]) ELSE <<>>
  BY <1>0, FunctionSequence
<1>5. IsSequence(others) /\ Len(others) = Len(s) /\ \A k \in 1..Len(s) : others[k] = IF s[k].type = "tool_result" THEN <<>> ELSE SaidBy(s[k])
  BY <1>0, FunctionSequence
<1>6. IsSequence(pieces) /\ Len(pieces) = Len(s) /\ \A k \in 1..Len(s) : pieces[k] = SaidBy(s[k])
  BY <1>0, FunctionSequence
<1> HIDE DEF results, others, pieces, rs, rest
<1>7. Becomes(tail, FlattenSeq(others), <<>>)
  <2>1. CASE rest = <<>>
    <3>1. tail = <<>> /\ Saying(rest) = <<>>
      <4>1. \A k \in 1..Len(<<>>) : FALSE
        BY EmptySequence
      <4>2. Saying(<<>>) = <<>>
        BY <4>1, EmptySequence, SayingNone
      <4> QED BY <2>1, <4>2
    <3>2. \A k \in 1..Len(<<>>) : FALSE
      BY EmptySequence
    <3>3. Becomes(<<>>, <<>>, <<>>)
      BY <3>2, EmptySequence, VoicesNone DEF Becomes
    <3> QED BY <1>3, <3>1, <3>3
  <2>2. CASE rest # <<>>
    <3>1. WellFormed(c) /\ SaidIn(c) = Saying(rest) /\ SaidIn(c) = TextOf(c)
      <4>1. CASE c = Parts(rest)
        <5>1. /\ WellFormed(Parts(rest)) /\ Parts(rest).form = "array" /\ Parts(rest).parts = rest
              /\ PartsOf(Parts(rest)) = rest
          BY <1>3, PartsFormed
        <5>2. \A k \in 1..Len(PartsOf(Parts(rest))) : PartsOf(Parts(rest))[k].type # "tool_result"
          BY <1>3, <5>1
        <5> QED BY <4>1, <5>1, <5>2, ContentSays, ContentLegible
      <4>2. CASE c = Str(Joined(rest))
        <5>1. Joined(rest) = Saying(rest)
          BY <1>3, JoinedSays
        <5>2. IsSequence(Saying(rest))
          BY <1>3, SayingIs
        <5> QED BY <4>2, <5>1, <5>2, StrFormed, ContentSays
      <4> QED BY <4>1, <4>2
    <3> HIDE DEF c
    <3>2. PICK w : w = Message("user", c)
      OBVIOUS
    <3>3. w.role = "user" /\ w.content = c /\ w.calls = <<>>
      BY <3>2, MessageFields
    <3>4. ~Instructs(w) /\ Legible(w)
      BY <3>1, <3>3, EmptySequence DEF Instructs, Legible
    <3>5. Voice(w) = Saying(rest) /\ Order(w) = <<>>
      BY <3>1, <3>3, <3>4 DEF Voice, Order
    <3>6. Becomes(<<w>>, Voice(w), Order(w))
      BY <3>1, <3>3, <3>4, BecomesOne
    <3>7. tail = <<w>>
      BY <2>2, <3>2
    <3> QED BY <1>3, <3>5, <3>6, <3>7
  <2> QED BY <2>1, <2>2
<1> HIDE DEF tail, c
<1>8. FlattenSeq(pieces) = FlattenSeq(results) \o FlattenSeq(others)
  <2>1. OfSequences(pieces) /\ OfSequences(results) /\ OfSequences(others)
    BY <1>4, <1>5, <1>6, EmptySequence DEF OfSequences
  <2>2. ASSUME NEW k \in 1..Len(pieces)
        PROVE  \/ results[k] = pieces[k] /\ \A j \in 1..k : others[j] = <<>>
               \/ results[k] = <<>> /\ others[k] = pieces[k]
    <3>1. CASE s[k].type = "tool_result"
      <4>1. \A j \in 1..k : j \in 1..Len(s) /\ s[j].type = "tool_result"
        BY <1>0, <1>6, <3>1 DEF UserBlocks
      <4> QED BY <1>4, <1>5, <1>6, <3>1, <4>1
    <3>2. CASE s[k].type # "tool_result"
      BY <1>4, <1>5, <1>6, <3>2
    <3> QED BY <3>1, <3>2
  <2>3. Len(results) = Len(pieces) /\ Len(others) = Len(pieces)
    BY <1>4, <1>5, <1>6
  <2>4. Leads(results, others, pieces)
    BY <2>2 DEF Leads
  <2>5. PICK x, y, z : x = pieces /\ y = results /\ z = others
    OBVIOUS
  <2>6. OfSequences(x) /\ OfSequences(y) /\ OfSequences(z) /\ Len(y) = Len(x) /\ Len(z) = Len(x) /\ Leads(y, z, x)
    BY ONLY <2>1, <2>3, <2>4, <2>5
  <2>7. FlattenSeq(x) = FlattenSeq(y) \o FlattenSeq(z)
    BY ONLY <2>6, FlattenLeading
  <2> QED BY ONLY <2>5, <2>7
<1>9. Becomes(rs \o tail, FlattenSeq(results) \o FlattenSeq(others), <<>> \o <<>>)
  BY <1>2, <1>7, BecomeBoth
<1>10. <<>> \o <<>> = <<>>
  BY EmptySequence, ConcatEmpty
<1>11. FlattenSeq(pieces) = Saying(s)
  BY DEF pieces, Saying
<1> QED BY <1>1, <1>8, <1>9, <1>10, <1>11

(* A turn without its marks becomes messages that say what it said.         *)
Plain(m) == [m EXCEPT !.content = RemoveField(@)]

LEMMA TurnBecomes ==
  ASSUME NEW m, Shaped(m), AnthropicTurn(m)
  PROVE  Becomes(ConvertTurn(Plain(m)), Voice(m), Order(m))
<1>1. PICK c, d, n : c = m.content /\ d = RemoveField(c) /\ n = Plain(m)
  OBVIOUS
<1>2. n.role = m.role /\ n.content = d /\ n.calls = m.calls
  <2>1. m = [role |-> m.role, content |-> m.content, calls |-> m.calls, id |-> m.id, name |-> m.name]
    BY DEF Shaped
  <2>2. n = [role |-> m.role, content |-> d, calls |-> m.calls, id |-> m.id, name |-> m.name]
    BY <1>1, <2>1 DEF Plain
  <2> QED BY <2>2
<1>3. WellFormed(c) /\ \A k \in 1..Len(PartsOf(c)) : TextPart(PartsOf(c)[k])
  BY <1>1 DEF Shaped, AnthropicTurn
<1>4. /\ WellFormed(d) /\ SaidIn(d) = SaidIn(c) /\ d.form = c.form /\ (c.form # "array" => d = c)
      /\ c.form = "array" => d = Parts(Apply(Unmark, c.parts)) /\ d.parts = Apply(Unmark, c.parts)
  BY <1>1, <1>3, FieldRemoved
<1>5. /\ Instructs(n) <=> Instructs(m)
      /\ Instructs(m) => TextBlocks(d) /\ TextOf(d) = TextOf(c)
                         /\ ~HasAnthropicOnlyBlocks(PartsOf(d))
  <2>1. Instructs(n) <=> Instructs(m)
    BY <1>2 DEF Instructs
  <2>2. SUFFICES ASSUME Instructs(m)
                 PROVE  TextBlocks(d) /\ TextOf(d) = TextOf(c) /\ ~HasAnthropicOnlyBlocks(PartsOf(d))
    BY <2>1
  <2>3. m.role = "system" /\ (c.form = "string" \/ (c.form = "array" /\ TextBlocks(c)))
    BY <1>1, <2>2 DEF Instructs, AnthropicTurn
  <2>4. ASSUME NEW s, IsSequence(s), \A k \in 1..Len(s) : s[k].type = "text" PROVE ~HasAnthropicOnlyBlocks(s)
    <3>1. OfType(s, AnthropicOnly) = <<>>
      BY <2>4, OfTypeIsPick DEF AnthropicOnly
    <3> QED BY <3>1 DEF HasAnthropicOnlyBlocks
  <2>5. CASE c.form = "string"
    <3>1. d = c /\ PartsOf(d) = <<>>
      BY <1>4, <2>5 DEF PartsOf
    <3>2. ~HasAnthropicOnlyBlocks(<<>>)
      <4>1. \A k \in 1..Len(<<>>) : FALSE
        BY EmptySequence
      <4> QED BY <2>4, <4>1, EmptySequence
    <3> QED BY <2>5, <3>1, <3>2 DEF TextBlocks
  <2>6. CASE c.form = "array"
    <3>1. PICK s, t : s = c.parts /\ t = Apply(Unmark, s)
      OBVIOUS
    <3>2. IsSequence(s) /\ \A k \in 1..Len(s) : IsSequence(SaidBy(s[k])) /\ TextPart(s[k]) /\ s[k].type = "text"
      BY <1>3, <2>3, <2>6, <3>1, WellFormedFacts DEF PartsOf, TextBlocks
    <3>3. /\ IsSequence(t) /\ Len(t) = Len(s) /\ Saying(t) = Saying(s)
          /\ \A k \in 1..Len(s) : SaidBy(t[k]) = SaidBy(s[k]) /\ t[k].type = s[k].type
      BY ONLY <3>1, <3>2, PlainParts
    <3>4. \A k \in 1..Len(t) : IsSequence(SaidBy(t[k])) /\ t[k].type = "text"
      BY <3>2, <3>3
    <3>5. \A k \in 1..Len(t) : t[k].type # "tool_result"
      BY <3>4
    <3>6. \A k \in 1..Len(s) : s[k].type # "tool_result"
      BY <3>2
    <3>7. d = Parts(t) /\ d.parts = t /\ d.form = "array" /\ PartsOf(d) = t
      BY <1>4, <2>6, <3>1 DEF PartsOf
    <3>8. TextBlocks(d)
      BY <3>3, <3>4, <3>7 DEF TextBlocks
    <3>9. Joined(t) = Saying(t) /\ Joined(s) = Saying(s)
      BY <3>2, <3>3, <3>4, <3>5, <3>6, JoinedSays
    <3>10. TextOf(d) = TextOf(c)
      BY <2>6, <3>1, <3>3, <3>7, <3>9 DEF TextOf
    <3> QED BY <2>4, <3>3, <3>4, <3>7, <3>8, <3>10
  <2> QED BY <2>3, <2>5, <2>6
<1>6. Voice(n) = Voice(m) /\ Order(n) = Order(m)
  BY <1>1, <1>2, <1>4, <1>5 DEF Voice, Order
<1>7. CASE ~HasAnthropicOnlyBlocks(PartsOf(n.content))
  <2>1. ConvertTurn(n) = <<n>>
    BY <1>7 DEF ConvertTurn
  <2>2. Instructs(n) => TextBlocks(n.content)
    BY <1>2, <1>5
  <2>3. Legible(n)
    <3>1. PICK s : s = PartsOf(d)
      OBVIOUS
    <3>2. IsSequence(s)
      BY <1>4, <3>1, WellFormedFacts
    <3>3. OfType(s, AnthropicOnly) = <<>>
      BY <1>2, <1>7, <3>1 DEF HasAnthropicOnlyBlocks
    <3>4. \A k \in 1..Len(s) : s[k].type # "tool_result"
      BY <3>2, <3>3, OfTypeIsPick DEF AnthropicOnly
    <3>5. SaidIn(d) = TextOf(d)
      BY <1>4, <3>1, <3>4, ContentLegible
    <3> QED BY <1>2, <3>5 DEF Legible, Shaped
  <2>4. Becomes(<<n>>, Voice(n), Order(n))
    BY <1>2, <1>4, <2>2, <2>3, BecomesOne
  <2> QED BY <1>1, <1>6, <2>1, <2>4
<1>8. CASE HasAnthropicOnlyBlocks(PartsOf(n.content))
  <2>1. c.form = "array"
    <3>1. SUFFICES ASSUME c.form # "array" PROVE FALSE
      OBVIOUS
    <3>2. PartsOf(n.content) = <<>>
      BY <1>2, <1>4, <3>1 DEF PartsOf
    <3>3. OfType(<<>>, AnthropicOnly) = <<>>
      <4>1. \A k \in 1..Len(<<>>) : FALSE
        BY EmptySequence
      <4> QED BY <4>1, EmptySequence, OfTypeIsPick
    <3> QED BY <1>8, <3>2, <3>3 DEF HasAnthropicOnlyBlocks
  <2>2. PICK s, t : s = c.parts /\ t = Apply(Unmark, s)
    OBVIOUS
  <2>3. IsSequence(s) /\ \A k \in 1..Len(s) : IsSequence(SaidBy(s[k])) /\ TextPart(s[k])
    BY <1>3, <2>1, <2>2, WellFormedFacts DEF PartsOf
  <2>4. /\ IsSequence(t) /\ Len(t) = Len(s) /\ Saying(t) = Saying(s)
        /\ \A k \in 1..Len(s) : /\ SaidBy(t[k]) = SaidBy(s[k]) /\ t[k].type = s[k].type
                                /\ t[k].type # "text" => t[k] = s[k]
        /\ \A k \in 1..Len(s) : TextPart(t[k])
    BY ONLY <2>2, <2>3, PlainParts
  <2>5. \A k \in 1..Len(t) : IsSequence(SaidBy(t[k])) /\ TextPart(t[k])
    BY <2>3, <2>4
  <2>6. n.content.form = "array" /\ n.content.parts = t /\ SaidIn(c) = Saying(t)
    <3>1. SaidIn(c) = Saying(s)
      BY <1>3, <2>1, <2>2, ContentSays
    <3> QED BY <1>2, <1>4, <2>1, <2>2, <2>4, <3>1
  <2>7. CASE m.role = "assistant"
    <3>1. AssistantBlocks(s)
      BY <1>1, <2>1, <2>2, <2>7 DEF AnthropicTurn
    <3>2. AssistantBlocks(t)
      BY <2>4, <3>1 DEF AssistantBlocks
    <3>3. Becomes(<<AnthropicAssistantToOpenAI(n)>>, Saying(t), <<>>)
      BY <1>2, <2>4, <2>5, <2>6, <2>7, <3>2, AssistantBecomes
    <3>4. ConvertTurn(n) = <<AnthropicAssistantToOpenAI(n)>>
      BY <1>2, <1>8, <2>7 DEF ConvertTurn
    <3>5. Voice(m) = Saying(t) /\ Order(m) = <<>>
      BY <1>1, <2>6, <2>7 DEF Voice, Order, Instructs
    <3> QED BY <1>1, <3>3, <3>4, <3>5
  <2>8. CASE m.role = "user"
    <3>1. UserBlocks(s)
      BY <1>1, <2>1, <2>2, <2>8 DEF AnthropicTurn
    <3>2. UserBlocks(t)
      <4>1. ASSUME NEW k \in 1..Len(t)
            PROVE  /\ t[k].type \in {"text", "image", "tool_result"} /\ ResultFormed(t[k])
                   /\ t[k].type = "image" => t[k].source \in {"base64", "url"}
        <5>1. /\ s[k].type \in {"text", "image", "tool_result"} /\ ResultFormed(s[k])
              /\ s[k].type = "image" => s[k].source \in {"base64", "url"}
          BY <2>4, <3>1 DEF UserBlocks
        <5>2. t[k].type = s[k].type /\ (t[k].type # "text" => t[k] = s[k])
          BY <2>4
        <5>3. CASE s[k].type = "text"
          BY <5>1, <5>2, <5>3 DEF ResultFormed
        <5>4. CASE s[k].type # "text"
          BY <5>1, <5>2, <5>4
        <5> QED BY <5>3, <5>4
      <4>2. ASSUME NEW k \in 1..Len(t), t[k].type = "tool_result", NEW j \in 1..k PROVE t[j].type = "tool_result"
        <5>1. s[k].type = "tool_result" /\ k \in 1..Len(s) /\ j \in 1..Len(s)
          BY <2>3, <2>4, <4>2, SequenceFacts
        <5>2. s[j].type = "tool_result"
          BY <3>1, <5>1 DEF UserBlocks
        <5> QED BY <2>4, <5>1, <5>2
      <4> QED BY <4>1, <4>2 DEF UserBlocks
    <3>3. Becomes(AnthropicUserToOpenAI(t), Saying(t), <<>>)
      BY <2>4, <2>5, <3>2, UserBecomes
    <3>4. ConvertTurn(n) = AnthropicUserToOpenAI(t)
      BY <1>2, <1>8, <2>6, <2>8 DEF ConvertTurn
    <3>5. Voice(m) = Saying(t) /\ Order(m) = <<>>
      BY <1>1, <2>6, <2>8 DEF Voice, Order, Instructs
    <3> QED BY <1>1, <3>3, <3>4, <3>5
  <2>9. m.role \in {"assistant", "user"}
    <3>1. ~Instructs(m)
      BY <1>2, <1>5, <1>8
    <3> QED BY <1>1, <2>1, <3>1 DEF AnthropicTurn, Instructs
  <2> QED BY <2>7, <2>8, <2>9
<1> QED BY <1>7, <1>8

(* And a conversation becomes what its turns become.                        *)
LEMMA BecomeAll ==
  ASSUME NEW gs, NEW as, NEW xs, OfSequences(gs), OfSequences(as), OfSequences(xs), Len(as) = Len(gs), Len(xs) = Len(gs),
         \A k \in 1..Len(gs) : Becomes(gs[k], as[k], xs[k])
  PROVE  Becomes(FlattenSeq(gs), FlattenSeq(as), FlattenSeq(xs))
<1> DEFINE All(n) == Becomes(FlattenSeq(First(gs, n)), FlattenSeq(First(as, n)), FlattenSeq(First(xs, n)))
           S == {n \in Nat : All(n)}
<1>0. IsSequence(gs) /\ IsSequence(as) /\ IsSequence(xs) /\ Len(gs) \in Nat
  BY SequenceFacts DEF OfSequences
<1>1. 0 \in S
  <2>1. First(gs, 0) = <<>> /\ First(as, 0) = <<>> /\ First(xs, 0) = <<>>
    BY <1>0, FirstFacts
  <2>2. \A k \in 1..Len(<<>>) : FALSE
    BY EmptySequence
  <2>3. Becomes(<<>>, <<>>, <<>>)
    BY <2>2, EmptySequence, VoicesNone DEF Becomes
  <2> QED BY <2>1, <2>3, FlattenNone
<1>2. ASSUME NEW n \in Nat, n + 1 <= Len(gs), n \in S PROVE n + 1 \in S
  <2>1. n + 1 \in 1..Len(gs) /\ FlattenSeq(First(gs, n + 1)) = FlattenSeq(First(gs, n)) \o gs[n + 1]
    BY <1>2, FlattenStep
  <2>2. FlattenSeq(First(as, n + 1)) = FlattenSeq(First(as, n)) \o as[n + 1]
    BY <1>2, FlattenStep
  <2>3. FlattenSeq(First(xs, n + 1)) = FlattenSeq(First(xs, n)) \o xs[n + 1]
    BY <1>2, FlattenStep
  <2>4. PICK g, a, x : g = FlattenSeq(First(gs, n)) /\ a = FlattenSeq(First(as, n)) /\ x = FlattenSeq(First(xs, n))
    OBVIOUS
  <2>5. PICK h, b, y : h = gs[n + 1] /\ b = as[n + 1] /\ y = xs[n + 1]
    OBVIOUS
  <2>6. Becomes(g, a, x) /\ Becomes(h, b, y)
    BY <1>2, <2>1, <2>4, <2>5
  <2>7. Becomes(g \o h, a \o b, x \o y)
    BY ONLY <2>6, BecomeBoth
  <2>8. All(n + 1)
    BY ONLY <2>1, <2>2, <2>3, <2>4, <2>5, <2>7
  <2> HIDE DEF All
  <2> QED BY <2>8
<1> HIDE DEF S
<1>3. Len(gs) \in S
  BY <1>0, <1>1, <1>2, GrowInduction
<1>4. First(gs, Len(gs)) = gs /\ First(as, Len(gs)) = as /\ First(xs, Len(gs)) = xs
  BY <1>0, FirstFacts
<1> QED BY <1>3, <1>4 DEF S

LEMMA ConversationBecomes ==
  ASSUME NEW ms, AllShaped(ms), \A k \in 1..Len(ms) : AnthropicTurn(ms[k])
  PROVE  Becomes(ConvertAnthropicToolMessagesToOpenAI(Apply(Plain, ms)), Voices(ms), Orders(ms))
<1> DEFINE gs == [k \in 1..Len(ms) |-> ConvertTurn(Plain(ms[k]))]
           as == [k \in 1..Len(ms) |-> Voice(ms[k])]
           xs == [k \in 1..Len(ms) |-> Order(ms[k])]
<1>0. IsSequence(ms) /\ DOMAIN ms = 1..Len(ms) /\ Len(ms) \in Nat /\ \A k \in 1..Len(ms) : WellFormed(ms[k].content)
  BY SequenceFacts, ShapedFacts DEF AllShaped
<1>1. OfSequences(as) /\ OfSequences(xs)
  BY <1>0, VoicesAre
<1>2. Len(as) = Len(ms) /\ \A k \in 1..Len(ms) : as[k] = Voice(ms[k])
  BY <1>0, FunctionSequence
<1>3. Len(xs) = Len(ms) /\ \A k \in 1..Len(ms) : xs[k] = Order(ms[k])
  BY <1>0, FunctionSequence
<1>4. IsSequence(gs) /\ Len(gs) = Len(ms) /\ \A k \in 1..Len(ms) : gs[k] = ConvertTurn(Plain(ms[k]))
  BY <1>0, FunctionSequence
<1>5. ConvertAnthropicToolMessagesToOpenAI(Apply(Plain, ms)) = FlattenSeq(gs)
  <2>1. PICK ns : ns = Apply(Plain, ms)
    OBVIOUS
  <2>2. ns = [k \in 1..Len(ms) |-> Plain(ms[k])]
    BY <1>0, <2>1 DEF Apply
  <2>3. Apply(ConvertTurn, ns) = gs
    BY <2>2 DEF Apply
  <2> QED BY <2>1, <2>3 DEF ConvertAnthropicToolMessagesToOpenAI
<1> HIDE DEF gs, as, xs
<1>6. ASSUME NEW k \in 1..Len(gs) PROVE Becomes(gs[k], as[k], xs[k])
  <2>1. PICK m : m = ms[k]
    OBVIOUS
  <2>2. Shaped(m) /\ AnthropicTurn(m)
    BY <1>4, <2>1 DEF AllShaped
  <2>3. Becomes(ConvertTurn(Plain(m)), Voice(m), Order(m))
    BY ONLY <2>2, TurnBecomes
  <2> QED BY <1>2, <1>3, <1>4, <2>1, <2>3
<1>7. OfSequences(gs)
  BY <1>4, <1>6 DEF OfSequences, Becomes
<1>8. Becomes(FlattenSeq(gs), FlattenSeq(as), FlattenSeq(xs))
  BY <1>1, <1>2, <1>3, <1>4, <1>6, <1>7, BecomeAll
<1> QED BY <1>5, <1>8 DEF Voices, Orders, as, xs

-----------------------------------------------------------------------------
(* The turns a client of the Anthropic protocol takes.                      *)
OtherBlock(p) == p.type \in {"text", "image"} /\ TextPart(p) /\ (p.type = "image" => p.source \in {"base64", "url"})
ResultBlock(p) == p.type = "tool_result" /\ TextPart(p) /\ ResultFormed(p)

LEMMA BlocksTyped ==
  /\ \A t : OtherBlock(Text(t)) /\ Text(t).type = "text" /\ OtherBlock(MarkedText(t))
  /\ \A u \in {"base64", "url"} : OtherBlock(Image(u))
  /\ Thinking.type = "thinking" /\ TextPart(Thinking)
  /\ \A id, name : ToolUse(id, name).type = "tool_use" /\ TextPart(ToolUse(id, name))
  /\ \A id, c : WellFormed(c) => ResultBlock(ToolResult(id, c))
<1>1. ASSUME NEW t PROVE OtherBlock(Text(t)) /\ Text(t).type = "text"
  <2>1. PICK p : p = [type |-> "text", text |-> t, marked |-> FALSE]
    OBVIOUS
  <2>2. p.type = "text" /\ p.text = t /\ p.marked = FALSE /\ Text(t) = p
    BY <2>1 DEF Text
  <2>3. TextPart(p)
    BY <2>1, <2>2 DEF TextPart
  <2> QED BY <2>2, <2>3 DEF OtherBlock
<1>2. ASSUME NEW t PROVE OtherBlock(MarkedText(t))
  <2>1. PICK p : p = [type |-> "text", text |-> t, marked |-> TRUE]
    OBVIOUS
  <2>2. p.type = "text" /\ p.text = t /\ p.marked = TRUE /\ MarkedText(t) = p
    <3>1. MarkedText(t) = [[type |-> "text", text |-> t, marked |-> FALSE] EXCEPT !.marked = TRUE]
      BY DEF MarkedText, Text
    <3>2. MarkedText(t) = p
      BY ONLY <2>1, <3>1
    <3> QED BY <2>1, <3>2
  <2>3. TextPart(p)
    BY <2>1, <2>2 DEF TextPart
  <2> QED BY <2>2, <2>3 DEF OtherBlock
<1>3. ASSUME NEW u \in {"base64", "url"} PROVE OtherBlock(Image(u))
  <2>1. Image(u).type = "image" /\ Image(u).source = u
    BY DEF Image
  <2> QED BY <2>1 DEF OtherBlock, TextPart
<1>4. Thinking.type = "thinking" /\ TextPart(Thinking)
  <2>1. Thinking.type = "thinking"
    BY DEF Thinking
  <2> QED BY <2>1 DEF TextPart
<1>5. ASSUME NEW id, NEW name PROVE ToolUse(id, name).type = "tool_use" /\ TextPart(ToolUse(id, name))
  <2>1. ToolUse(id, name).type = "tool_use"
    BY DEF ToolUse
  <2> QED BY <2>1 DEF TextPart
<1>6. ASSUME NEW id, NEW c, WellFormed(c) PROVE ResultBlock(ToolResult(id, c))
  <2>1. PICK p : p = ToolResult(id, c)
    OBVIOUS
  <2>2. p.type = "tool_result" /\ p.content = c
    BY <2>1 DEF ToolResult
  <2>3. SaidBy(p) = TextOf(c)
    BY <2>1, PartsSaid
  <2>4. TextPart(p) /\ ResultFormed(p)
    BY <1>6, <2>2, <2>3 DEF TextPart, ResultFormed
  <2> QED BY <2>1, <2>2, <2>4 DEF ResultBlock
<1> QED BY <1>1, <1>2, <1>3, <1>4, <1>5, <1>6

LEMMA StringTurn ==
  ASSUME NEW role \in {"user", "assistant", "system"}, NEW t
  PROVE  AnthropicTurn(Message(role, Str(t)))
<1>1. PICK m : m = Message(role, Str(t))
  OBVIOUS
<1>2. m.role = role /\ m.content = Str(t) /\ m.calls = <<>>
  BY <1>1, MessageFields
<1>3. Str(t).form = "string" /\ PartsOf(Str(t)) = <<>> /\ \A k \in 1..Len(<<>>) : FALSE
  BY EmptySequence DEF Str, PartsOf
<1> QED BY <1>1, <1>2, <1>3 DEF AnthropicTurn

LEMMA AssistantTurn ==
  ASSUME NEW s, AssistantBlocks(s), \A k \in 1..Len(s) : TextPart(s[k])
  PROVE  AnthropicTurn(Message("assistant", Parts(s)))
<1>0. PICK role : role = "assistant"
  OBVIOUS
<1>1. PICK m : m = Message(role, Parts(s))
  OBVIOUS
<1>2. m.role = role /\ m.content = Parts(s) /\ m.calls = <<>>
  BY <1>1 DEF Message
<1>3. Parts(s).form = "array" /\ Parts(s).parts = s /\ PartsOf(Parts(s)) = s
  BY DEF Parts, PartsOf
<1> QED BY <1>0, <1>1, <1>2, <1>3 DEF AnthropicTurn

LEMMA UserTurn ==
  ASSUME NEW s, UserBlocks(s), \A k \in 1..Len(s) : TextPart(s[k])
  PROVE  AnthropicTurn(Message("user", Parts(s)))
<1>0. PICK role : role = "user"
  OBVIOUS
<1>1. PICK m : m = Message(role, Parts(s))
  OBVIOUS
<1>2. m.role = role /\ m.content = Parts(s) /\ m.calls = <<>>
  BY <1>1 DEF Message
<1>3. Parts(s).form = "array" /\ Parts(s).parts = s /\ PartsOf(Parts(s)) = s
  BY DEF Parts, PartsOf
<1> QED BY <1>0, <1>1, <1>2, <1>3 DEF AnthropicTurn

LEMMA OthersTurn ==
  ASSUME NEW s, \A k \in 1..Len(s) : OtherBlock(s[k])
  PROVE  AnthropicTurn(Message("user", Parts(s)))
<1>1. UserBlocks(s)
  BY DEF UserBlocks, OtherBlock, ResultFormed
<1> QED BY <1>1, UserTurn DEF OtherBlock

LEMMA ResultsTurn ==
  ASSUME NEW s, NEW t, IsSequence(s), IsSequence(t),
         \A k \in 1..Len(s) : ResultBlock(s[k]), \A k \in 1..Len(t) : OtherBlock(t[k])
  PROVE  AnthropicTurn(Message("user", Parts(s \o t)))
<1>1. PICK u : u = s \o t
  OBVIOUS
<1>2. IsSequence(u) /\ Len(u) \in Nat /\ Len(s) \in Nat
  BY <1>1, ConcatSequences, SequenceFacts
<1>3. ASSUME NEW k \in 1..Len(u)
      PROVE  \/ k \in 1..Len(s) /\ ResultBlock(u[k])
             \/ k \notin 1..Len(s) /\ OtherBlock(u[k])
  <2>1. \/ k \in 1..Len(s) /\ u[k] = s[k]
        \/ k \notin 1..Len(s) /\ k - Len(s) \in 1..Len(t) /\ u[k] = t[k - Len(s)]
    BY <1>1, ConcatPlaces
  <2> QED BY <2>1
<1>4. \A k \in 1..Len(u) : TextPart(u[k])
  BY <1>3 DEF ResultBlock, OtherBlock
<1>5. UserBlocks(u)
  <2>1. ASSUME NEW k \in 1..Len(u)
        PROVE  /\ u[k].type \in {"text", "image", "tool_result"} /\ ResultFormed(u[k])
               /\ u[k].type = "image" => u[k].source \in {"base64", "url"}
    BY <1>3 DEF ResultBlock, OtherBlock, ResultFormed
  <2>2. ASSUME NEW k \in 1..Len(u), u[k].type = "tool_result", NEW j \in 1..k PROVE u[j].type = "tool_result"
    <3>1. k \in 1..Len(s)
      BY <1>3, <2>2 DEF OtherBlock
    <3>2. j \in 1..Len(s) /\ j \in 1..Len(u)
      BY <1>2, <3>1
    <3> QED BY <1>3, <3>2 DEF ResultBlock
  <2> QED BY <2>1, <2>2 DEF UserBlocks
<1> QED BY <1>1, <1>4, <1>5, UserTurn

LEMMA TwoBlocks ==
  ASSUME NEW p, NEW q, OtherBlock(p), OtherBlock(q)
  PROVE  \A k \in 1..Len(<<p, q>>) : OtherBlock(<<p, q>>[k])
BY TwoSequence

LEMMA AnthropicSteps ==
  ASSUME TalkInv, \/ AnthropicUserSays \/ AnthropicSystemSays \/ AnthropicAssistantSays
                  \/ AnthropicAssistantCalls \/ AnthropicResults
  PROVE  kind = "anthropic" /\ kind' = kind /\ \E m : AnthropicTurn(m) /\ talk' = Append(talk, m)
<1> SUFFICES kind = "anthropic" /\ \E m : AnthropicTurn(m) /\ Says(m)
  BY DEF Says
<1>0. IsSequence(open)
  BY DEF TalkInv
<1>2. CASE AnthropicUserSays
  <2>1. PICK c : /\ Says(Message("user", c)) /\ kind = "anthropic"
                 /\ c \in {Str(Passage(1)), Parts(<<MarkedText(Passage(1)), Text(Passage(2))>>),
                           Parts(<<Image("url"), Text(Passage(1))>>), Parts(<<Text(Passage(1)), Image("base64")>>)}
    BY <1>2 DEF AnthropicUserSays, Free
  <2>2. ASSUME NEW p, NEW q, OtherBlock(p), OtherBlock(q) PROVE AnthropicTurn(Message("user", Parts(<<p, q>>)))
    <3>1. PICK s : s = <<p, q>>
      OBVIOUS
    <3>2. \A k \in 1..Len(s) : OtherBlock(s[k])
      BY <2>2, <3>1, TwoBlocks
    <3> QED BY <3>1, <3>2, OthersTurn
  <2>3. AnthropicTurn(Message("user", c))
    BY <2>1, <2>2, BlocksTyped, StringTurn
  <2> QED BY <2>1, <2>3
<1>3. CASE AnthropicSystemSays
  <2>1. PICK c \in {Str(Passage(1)), Parts(<<MarkedText(Passage(1))>>)} :
          Says(Message("system", c)) /\ kind = "anthropic"
    BY <1>3 DEF AnthropicSystemSays, Free
  <2>2. AnthropicTurn(Message("system", Str(Passage(1))))
    BY StringTurn
  <2>3. AnthropicTurn(Message("system", Parts(<<MarkedText(Passage(1))>>)))
    <3>1. PICK p, s, m : p = MarkedText(Passage(1)) /\ s = <<p>> /\ m = Message("system", Parts(s))
      OBVIOUS
    <3>2. p.type = "text" /\ TextPart(p)
      <4>1. OtherBlock(p) /\ p.type = "text"
        BY <3>1, BlocksTyped DEF MarkedText, Text
      <4> QED BY <4>1 DEF OtherBlock
    <3>3. IsSequence(s) /\ \A k \in 1..Len(s) : s[k] = p
      <4>1. IsSequence(<<p>>) /\ Len(<<p>>) = 1 /\ <<p>>[1] = p
        BY OneSequence
      <4>2. \A k \in 1..1 : k = 1
        OBVIOUS
      <4> QED BY <3>1, <4>1, <4>2
    <3>4. m.role = "system" /\ m.content = Parts(s) /\ m.calls = <<>>
      BY <3>1 DEF Message
    <3>5. Parts(s).form = "array" /\ Parts(s).parts = s /\ PartsOf(Parts(s)) = s
      BY DEF Parts, PartsOf
    <3>6. TextBlocks(Parts(s))
      BY <3>2, <3>3, <3>5 DEF TextBlocks
    <3>7. AnthropicTurn(m)
      BY <3>2, <3>3, <3>4, <3>5, <3>6 DEF AnthropicTurn
    <3> QED BY <3>1, <3>7
  <2> QED BY <2>1, <2>2, <2>3
<1> DEFINE Assistant(p) == p.type \in {"text", "thinking", "tool_use"} /\ TextPart(p)
<1>a. Assistant(Thinking) /\ Assistant(Text(Passage(1))) /\ \A id, name : Assistant(ToolUse(id, name))
  BY BlocksTyped DEF OtherBlock
<1>b. ASSUME NEW s, \A k \in 1..Len(s) : Assistant(s[k]) PROVE AnthropicTurn(Message("assistant", Parts(s)))
  <2>1. AssistantBlocks(s)
    BY <1>b DEF AssistantBlocks
  <2>2. \A k \in 1..Len(s) : TextPart(s[k])
    BY <1>b
  <2> QED BY ONLY <2>1, <2>2, AssistantTurn
<1> HIDE DEF Assistant
<1>c. PICK pair : pair = <<Thinking, Text(Passage(1))>>
  OBVIOUS
<1>d. IsSequence(pair) /\ \A k \in 1..Len(pair) : Assistant(pair[k])
  BY <1>a, <1>c, TwoSequence
<1>4. CASE AnthropicAssistantSays
  <2>1. PICK c : /\ Says(Message("assistant", c)) /\ kind = "anthropic"
                 /\ c \in {Str(Passage(1)), Parts(<<Thinking, Text(Passage(1))>>)}
    BY <1>4 DEF AnthropicAssistantSays, Free
  <2>2. AnthropicTurn(Message("assistant", c))
    BY <1>b, <1>c, <1>d, <2>1, StringTurn
  <2> QED BY <2>1, <2>2
<1>5. CASE AnthropicAssistantCalls
  <2>1. PICK names \in CallLists, before \in {<<>>, <<Thinking, Text(Passage(1))>>} :
          Says(Message("assistant", Parts(before \o Apply(LAMBDA c : ToolUse(c.id, c.name), Calls(names)))))
    BY <1>5 DEF AnthropicAssistantCalls
  <2> DEFINE uses == Apply(LAMBDA c : ToolUse(c.id, c.name), Calls(names))
  <2>2. IsSequence(Calls(names)) /\ Len(Calls(names)) \in Nat /\ DOMAIN Calls(names) = 1..Len(Calls(names))
    BY CallsSequence, SequenceFacts
  <2>3. IsSequence(uses) /\ \A k \in 1..Len(uses) : Assistant(uses[k])
    <3>1. uses = [k \in 1..Len(Calls(names)) |-> ToolUse(Calls(names)[k].id, Calls(names)[k].name)]
      BY <2>2 DEF Apply
    <3>2. /\ IsSequence(uses) /\ Len(uses) = Len(Calls(names))
          /\ \A k \in 1..Len(uses) : uses[k] = ToolUse(Calls(names)[k].id, Calls(names)[k].name)
      BY <2>2, <3>1, FunctionSequence
    <3> HIDE DEF uses
    <3> QED BY <1>a, <3>2
  <2> HIDE DEF uses
  <2>4. IsSequence(before) /\ \A k \in 1..Len(before) : Assistant(before[k])
    <3>1. CASE before = <<>>
      <4>1. \A k \in 1..0 : FALSE
        OBVIOUS
      <4> QED BY <3>1, <4>1, EmptySequence
    <3>2. CASE before = pair
      BY <1>d, <3>2
    <3> QED BY <1>c, <2>1, <3>1, <3>2
  <2>5. PICK s : s = before \o uses
    OBVIOUS
  <2>6. \A k \in 1..Len(s) : Assistant(s[k])
    <3>1. ASSUME NEW k \in 1..Len(s) PROVE Assistant(s[k])
      <4>1. \/ k \in 1..Len(before) /\ s[k] = before[k]
            \/ k - Len(before) \in 1..Len(uses) /\ s[k] = uses[k - Len(before)]
        BY <2>3, <2>4, <2>5, ConcatPlaces
      <4> QED BY <2>3, <2>4, <4>1
    <3> QED BY <3>1
  <2>7. AnthropicTurn(Message("assistant", Parts(s)))
    BY <1>b, <2>6
  <2>8. Says(Message("assistant", Parts(s))) /\ kind = "anthropic"
    BY <1>5, <2>1, <2>5 DEF AnthropicAssistantCalls, uses
  <2> QED BY <2>7, <2>8
<1>6. CASE AnthropicResults
  <2>1. PICK reversed \in BOOLEAN, first \in {Str(Passage(1)), Parts(<<Text(Passage(1)), Image("base64")>>)},
             after \in {<<>>, <<MarkedText(Passage(2))>>, <<Image("base64"), Text(Passage(2))>>} :
          LET calls == IF reversed THEN Reverse(open) ELSE open
          IN  Says(Message("user", Parts(
                [i \in DOMAIN calls |-> ToolResult(calls[i].id, IF i = 1 THEN first ELSE Null)] \o after)))
    BY <1>6 DEF AnthropicResults
  <2> DEFINE calls == IF reversed THEN Reverse(open) ELSE open
             results == [i \in DOMAIN calls |-> ToolResult(calls[i].id, IF i = 1 THEN first ELSE Null)]
  <2>2. Says(Message("user", Parts(results \o after))) /\ kind = "anthropic"
    BY <1>6, <2>1 DEF AnthropicResults
  <2>3. IsSequence(calls) /\ Len(calls) \in Nat /\ DOMAIN calls = 1..Len(calls)
    BY <1>0, ReverseSequence, SequenceFacts
  <2>4. WellFormed(first) /\ WellFormed(Null)
    <3>1. IsSequence(SaidBy(Text(Passage(1)))) /\ IsSequence(SaidBy(Image("base64")))
      BY PartsSaid, SpeechFormed, EmptySequence
    <3>2. WellFormed(Parts(<<Text(Passage(1)), Image("base64")>>))
      BY <3>1, TwoFormed
    <3> QED BY <2>1, <3>2, SpeechFormed
  <2> HIDE DEF calls
  <2>5. IsSequence(results) /\ \A k \in 1..Len(results) : ResultBlock(results[k])
    <3>1. /\ IsSequence(results) /\ Len(results) = Len(calls)
          /\ \A k \in 1..Len(calls) : results[k] = ToolResult(calls[k].id, IF k = 1 THEN first ELSE Null)
      BY <2>3, FunctionSequence
    <3> HIDE DEF results
    <3>2. \A k : WellFormed(IF k = 1 THEN first ELSE Null)
      BY <2>4
    <3>3. ASSUME NEW k \in 1..Len(calls) PROVE ResultBlock(results[k])
      <4>1. PICK c : c = IF k = 1 THEN first ELSE Null
        OBVIOUS
      <4>2. WellFormed(c) /\ results[k] = ToolResult(calls[k].id, c)
        BY <3>1, <3>2, <4>1
      <4> QED BY <4>2, BlocksTyped
    <3> QED BY <3>1, <3>3
  <2> HIDE DEF results
  <2>6. IsSequence(after) /\ \A k \in 1..Len(after) : OtherBlock(after[k])
    <3>1. CASE after = <<>>
      <4>1. \A k \in 1..0 : FALSE
        OBVIOUS
      <4> QED BY <3>1, <4>1, EmptySequence
    <3>2. CASE after = <<MarkedText(Passage(2))>>
      <4>1. \A k \in 1..1 : k = 1
        OBVIOUS
      <4> QED BY <3>2, <4>1, OneSequence, BlocksTyped
    <3>3. CASE after = <<Image("base64"), Text(Passage(2))>>
      BY <3>3, TwoSequence, BlocksTyped
    <3> QED BY <2>1, <3>1, <3>2, <3>3
  <2>7. AnthropicTurn(Message("user", Parts(results \o after)))
    BY <2>5, <2>6, ResultsTurn
  <2> QED BY <2>2, <2>7
<1> QED BY <1>2, <1>3, <1>4, <1>5, <1>6

(* Every turn of an Anthropic conversation is one of them.                  *)
AnthropicInv == kind = "anthropic" => \A k \in 1..Len(talk) : AnthropicTurn(talk[k])

LEMMA AnthropicStays == BodiesSpec => []AnthropicInv
<1>1. BodiesInit => AnthropicInv
  <2>1. \A k \in 1..Len(<<>>) : FALSE
    BY EmptySequence
  <2> QED BY <2>1 DEF BodiesInit, AnthropicInv
<1>2. TalkInv /\ AnthropicInv /\ [BodiesNext]_bodiesVars => AnthropicInv'
  <2> SUFFICES ASSUME TalkInv, AnthropicInv, [BodiesNext]_bodiesVars PROVE AnthropicInv'
    OBVIOUS
  <2>1. CASE AnswerGrows \/ AnswerEnds \/ LineWritten \/ UNCHANGED bodiesVars
    <3>1. UNCHANGED <<talk, kind>>
      BY <2>1 DEF AnswerGrows, AnswerEnds, LineWritten, bodiesVars
    <3> QED BY <3>1 DEF AnthropicInv
  <2>2. CASE SystemSays \/ UserSays \/ AssistantSays \/ AssistantCalls \/ ToolReturns \/ FunctionReturns
    <3>1. kind = "chat" /\ kind' = kind
      BY <2>2 DEF SystemSays, UserSays, AssistantSays, AssistantCalls, ToolReturns, FunctionReturns, Free, Says
    <3> QED BY <3>1 DEF AnthropicInv
  <2>3. CASE \/ AnthropicUserSays \/ AnthropicSystemSays \/ AnthropicAssistantSays
             \/ AnthropicAssistantCalls \/ AnthropicResults
    <3>1. kind = "anthropic" /\ kind' = kind /\ \E m : AnthropicTurn(m) /\ talk' = Append(talk, m)
      BY <2>3, AnthropicSteps
    <3>2. PICK m : AnthropicTurn(m) /\ talk' = Append(talk, m)
      BY <3>1
    <3>3. IsSequence(talk) /\ Len(talk) \in Nat
      BY SequenceFacts DEF TalkInv, AllShaped
    <3>4. PICK t : t = Append(talk, m)
      OBVIOUS
    <3>5. Len(t) = Len(talk) + 1 /\ (\A k \in 1..Len(talk) : t[k] = talk[k]) /\ t[Len(talk) + 1] = m
      BY <3>3, <3>4, AppendSequence
    <3>6. \A k \in 1..Len(t) : k \in 1..Len(talk) \/ k = Len(talk) + 1
      BY <3>3, <3>5
    <3>7. \A k \in 1..Len(talk) : AnthropicTurn(talk[k])
      BY <3>1 DEF AnthropicInv
    <3>8. \A k \in 1..Len(t) : AnthropicTurn(t[k])
      BY <3>2, <3>5, <3>6, <3>7
    <3> QED BY <3>2, <3>4, <3>8 DEF AnthropicInv
  <2> QED BY <2>1, <2>2, <2>3 DEF BodiesNext
<1> QED BY <1>1, <1>2, TalksStay, PTL DEF BodiesSpec

-----------------------------------------------------------------------------
(* What the other upstreams are told: the messages of the chat request.     *)
LEMMA TextFieldSays ==
  ASSUME NEW c, WellFormed(c), TextBlocks(c)
  PROVE  TextOf(c) = SaidIn(c)
<1>1. CASE c.form # "array"
  BY <1>1, ContentSays
<1>2. CASE c.form = "array"
  <2>1. PICK s : s = c.parts
    OBVIOUS
  <2>2. IsSequence(s) /\ \A k \in 1..Len(s) : IsSequence(SaidBy(s[k]))
    BY <1>2, <2>1, WellFormedFacts
  <2>3. \A k \in 1..Len(s) : s[k].type # "tool_result"
    BY <1>2, <2>1 DEF TextBlocks
  <2>4. Joined(s) = Saying(s)
    BY ONLY <2>2, <2>3, JoinedSays
  <2>5. SaidIn(c) = Saying(s)
    BY <1>2, <2>1, ContentSays
  <2> QED BY <1>2, <2>1, <2>4, <2>5 DEF TextOf
<1> QED BY <1>1, <1>2

LEMMA SystemFlat ==
  ASSUME NEW c, WellFormed(c), TextBlocks(c), \A k \in 1..Len(PartsOf(c)) : TextPart(PartsOf(c)[k]),
         NEW flat, flat = FlattenSystem(RemoveField(c))
  PROVE  /\ TextOf(flat) = TextOf(c)
         /\ flat.form = "string" => WellFormed(flat)
         /\ flat.form # "string" => TextOf(c) = <<>>
<1>1. PICK d : d = RemoveField(c)
  OBVIOUS
<1>2. /\ WellFormed(d) /\ SaidIn(d) = SaidIn(c) /\ d.form = c.form /\ (c.form # "array" => d = c)
      /\ c.form = "array" => d = Parts(Apply(Unmark, c.parts)) /\ d.parts = Apply(Unmark, c.parts)
  BY <1>1, FieldRemoved
<1>3. TextBlocks(d) /\ (d.form = "array" => \A k \in DOMAIN d.parts : ~d.parts[k].marked)
  <2>1. CASE c.form # "array"
    BY <1>2, <2>1 DEF TextBlocks
  <2>2. CASE c.form = "array"
    <3>1. PICK s, t : s = c.parts /\ t = Apply(Unmark, s)
      OBVIOUS
    <3>2. IsSequence(s) /\ \A k \in 1..Len(s) : IsSequence(SaidBy(s[k])) /\ TextPart(s[k])
      BY <2>2, <3>1, WellFormedFacts DEF PartsOf
    <3>3. /\ IsSequence(t) /\ Len(t) = Len(s)
          /\ \A k \in 1..Len(s) : t[k].type = s[k].type /\ Unmarked(t[k])
      BY ONLY <3>1, <3>2, PlainParts
    <3>4. \A k \in 1..Len(s) : s[k].type = "text"
      BY <2>2, <3>1 DEF TextBlocks
    <3>5. DOMAIN t = 1..Len(t) /\ \A k \in 1..Len(t) : t[k].type = "text" /\ ~t[k].marked
      BY <3>3, <3>4, SequenceFacts DEF Unmarked
    <3>6. d = Parts(t) /\ d.parts = t
      BY <1>2, <2>2, <3>1
    <3> QED BY <3>3, <3>5, <3>6 DEF TextBlocks
  <2> QED BY <2>1, <2>2
<1>4. TextOf(d) = TextOf(c)
  BY <1>2, <1>3, TextFieldSays
<1>5. flat = FlattenSystem(d) /\ TextOf(flat) = TextOf(d)
  BY <1>1, FlattenedSays
<1>6. CASE d.form = "array" /\ Joined(d.parts) # <<>>
  <2>1. flat = Str(Joined(d.parts))
    BY <1>3, <1>5, <1>6 DEF FlattenSystem
  <2>2. IsSequence(Joined(d.parts))
    BY <1>2, <1>6, WellFormedFacts, JoinedFormed
  <2> QED BY <1>4, <1>5, <2>1, <2>2, StrFormed
<1>7. CASE ~(d.form = "array" /\ Joined(d.parts) # <<>>)
  <2>1. flat = d
    BY <1>5, <1>7 DEF FlattenSystem
  <2>2. d.form # "string" => TextOf(d) = <<>>
    BY <1>2, <1>7, WellFormedFacts DEF TextOf
  <2> QED BY <1>2, <1>4, <2>1, <2>2
<1> QED BY <1>6, <1>7

LEMMA SystemFieldsTyped ==
  ASSUME NEW s \in SystemFields
  PROVE  \A k \in 1..Len(PartsOf(s)) : TextPart(PartsOf(s)[k])
<1>1. CASE PartsOf(s) = <<>>
  <2>1. \A k \in 1..Len(<<>>) : FALSE
    BY EmptySequence
  <2> QED BY <1>1, <2>1
<1>2. ASSUME NEW p, NEW q, TextPart(p), TextPart(q), s = Parts(<<p, q>>)
      PROVE  \A k \in 1..Len(PartsOf(s)) : TextPart(PartsOf(s)[k])
  <2>1. PICK t : t = <<p, q>>
    OBVIOUS
  <2>2. \A k \in 1..Len(t) : t[k] = p \/ t[k] = q
    BY <2>1, TwoSequence
  <2>3. PartsOf(s) = t
    BY <1>2, <2>1, PartsOfParts
  <2> QED BY <1>2, <2>2, <2>3
<1>3. \/ s = Null \/ s = Str(<<1>>) \/ s = Parts(<<Text(<<1>>), Text(<<2>>)>>)
      \/ s = Parts(<<MarkedText(<<1>>), Text(<<2>>)>>)
  BY DEF SystemFields
<1>4. PartsOf(Null) = <<>> /\ PartsOf(Str(<<1>>)) = <<>>
  BY DEF Null, Str, PartsOf
<1>5. TextPart(Text(<<1>>)) /\ TextPart(Text(<<2>>)) /\ TextPart(MarkedText(<<1>>))
  BY BlocksTyped DEF OtherBlock
<1>6. CASE s = Parts(<<Text(<<1>>), Text(<<2>>)>>)
  BY <1>2, <1>5, <1>6
<1>7. CASE s = Parts(<<MarkedText(<<1>>), Text(<<2>>)>>)
  BY <1>2, <1>5, <1>7
<1> QED BY <1>1, <1>3, <1>4, <1>6, <1>7

LEMMA SystemPrepended ==
  ASSUME NEW c, WellFormed(c), TextBlocks(c), \A k \in 1..Len(PartsOf(c)) : TextPart(PartsOf(c)[k]),
         NEW ms, NEW said, NEW told, Becomes(ms, said, told), IsSequence(said), IsSequence(told)
  PROVE  Becomes(PrependSystemMessage(RemoveField(c), ms), said, TextOf(c) \o told)
<1>1. PICK flat : flat = FlattenSystem(RemoveField(c))
  OBVIOUS
<1>2. /\ TextOf(flat) = TextOf(c) /\ (flat.form = "string" => WellFormed(flat))
      /\ flat.form # "string" => TextOf(c) = <<>>
  BY <1>1, SystemFlat
<1>3. flat.form = "string" => TextOf(flat) = flat.text
  BY <1>2, WellFormedFacts DEF TextOf
<1>4. CASE flat.form # "string" \/ flat.text = <<>>
  <2>1. PrependSystemMessage(RemoveField(c), ms) = ms
    BY <1>1, <1>4 DEF PrependSystemMessage
  <2>2. TextOf(c) = <<>>
    BY <1>2, <1>3, <1>4
  <2>3. <<>> \o told = told
    BY ConcatEmpty
  <2> QED BY <2>1, <2>2, <2>3
<1>5. CASE ~(flat.form # "string" \/ flat.text = <<>>)
  <2>0. PICK role : role = "system"
    OBVIOUS
  <2>1. PICK w : w = Message(role, flat)
    OBVIOUS
  <2>2. w.role = "system" /\ w.content = flat /\ w.calls = <<>>
    BY <2>0, <2>1 DEF Message
  <2>3. PrependSystemMessage(RemoveField(c), ms) = <<w>> \o ms
    BY <1>1, <1>5, <2>0, <2>1 DEF PrependSystemMessage
  <2>a. SaidIn(flat) = TextOf(flat)
    BY <1>5 DEF SaidIn
  <2>4. WellFormed(w.content) /\ Instructs(w) /\ TextBlocks(w.content) /\ Legible(w)
    BY <1>2, <1>5, <2>2, <2>a, EmptySequence DEF Instructs, TextBlocks, Legible
  <2>5. Voice(w) = <<>> /\ Order(w) = TextOf(c)
    BY <1>2, <2>2, <2>4 DEF Voice, Order
  <2>6. Becomes(<<w>>, <<>>, TextOf(c))
    BY <2>4, <2>5, BecomesOne
  <2>7. PICK t : t = <<w>>
    OBVIOUS
  <2>8. Becomes(t \o ms, <<>> \o said, TextOf(c) \o told)
    BY <2>6, <2>7, BecomeBoth
  <2>9. <<>> \o said = said
    BY ConcatEmpty
  <2> QED BY <2>3, <2>7, <2>8, <2>9
<1> QED BY <1>4, <1>5

LEMMA ChatBecomes ==
  ASSUME TalkInv, AwaitInv, AnthropicInv, Sent
  PROVE  Becomes(ToChat.messages, Voices(talk), SystemText)
<1>1. /\ AllShaped(talk) /\ IsSequence(talk) /\ (\A k \in 1..Len(talk) : WellFormed(talk[k].content))
      /\ IsSequence(Voices(talk)) /\ IsSequence(Orders(talk)) /\ Instructions = Orders(talk)
  BY ShapedFacts, VoicesAre, SaidByClient DEF TalkInv, AllShaped
<1>2. CASE kind = "chat"
  <2>1. ToChat.messages = talk /\ system = Null
    BY <1>2 DEF ToChat, Request, TalkInv, FieldsInv
  <2>2. \A k \in 1..Len(talk) : Legible(talk[k]) /\ (Instructs(talk[k]) => TextBlocks(talk[k].content))
    BY <1>1, <1>2, ShapedFacts DEF AwaitInv, Await, ChatTurn, AllShaped, Legible
  <2>3. TextOf(system) = <<>>
    BY <2>1 DEF Null, TextOf
  <2>4. SystemText = Orders(talk)
    BY <1>1, <2>3, ConcatEmpty DEF SystemText
  <2> QED BY <1>1, <2>1, <2>2, <2>4 DEF Becomes
<1>3. CASE kind = "anthropic"
  <2>1. system \in SystemFields /\ \A k \in 1..Len(talk) : AnthropicTurn(talk[k])
    BY <1>3 DEF TalkInv, FieldsInv, AnthropicInv
  <2>2. /\ WellFormed(system) /\ TextBlocks(system)
        /\ \A k \in 1..Len(PartsOf(system)) : TextPart(PartsOf(system)[k])
    BY <2>1, SystemFieldsFormed, SystemFieldsAre, SystemFieldsTyped
  <2>3. PICK ms : ms = ConvertAnthropicToolMessagesToOpenAI(Apply(Plain, talk))
    OBVIOUS
  <2>4. Becomes(ms, Voices(talk), Orders(talk))
    BY <1>1, <2>1, <2>3, ConversationBecomes
  <2>5. ToChat.messages = PrependSystemMessage(RemoveField(system), ms)
    <3>1. PICK plain : plain = StripCacheControl(Request)
      OBVIOUS
    <3>2. plain.system = RemoveField(system)
      BY <3>1 DEF StripCacheControl, Request
    <3>3. plain.messages = Apply(Plain, talk)
      BY <3>1 DEF StripCacheControl, Request, Apply, Plain
    <3> QED BY <1>3, <2>3, <3>1, <3>2, <3>3 DEF ToChat, AnthropicToOpenAIBody
  <2>6. Becomes(PrependSystemMessage(RemoveField(system), ms), Voices(talk), TextOf(system) \o Orders(talk))
    BY <1>1, <2>2, <2>4, SystemPrepended
  <2> QED BY <1>1, <2>5, <2>6 DEF SystemText
<1> QED BY <1>2, <1>3 DEF Sent

LEMMA ChatSays ==
  ASSUME TalkInv, AwaitInv, AnthropicInv, Sent
  PROVE  /\ ChatToResponsesBody(ToChat).instructions = SystemText
         /\ Speech(Spoken(ToChat.messages)) = Speech(Spoken(talk))
<1>1. PICK ms : ms = ToChat.messages
  OBVIOUS
<1>2. IsSequence(ms) /\ (\A k \in 1..Len(ms) : WellFormed(ms[k].content)) /\ Voices(ms) = Voices(talk) /\ Orders(ms) = SystemText
  BY <1>1, ChatBecomes DEF Becomes
<1>3. Speech(Spoken(ms)) = Voices(ms)
  BY <1>2, SpeechIs
<1>4. FlattenSeq(Apply(LAMBDA m : TextOf(m.content), Select(ms, Instructs))) = Orders(ms)
  BY <1>2, InstructionsAre
<1>5. ChatToResponsesBody(ToChat).instructions
        = FlattenSeq(Apply(LAMBDA m : TextOf(m.content), Select(ms, Instructs)))
  BY <1>1 DEF ChatToResponsesBody
<1>6. AllShaped(talk)
  BY DEF TalkInv
<1> QED BY <1>1, <1>2, <1>3, <1>4, <1>5, <1>6, SaidByClient

-----------------------------------------------------------------------------
(* What the items of a Responses input and the parts of Gemini contents     *)
(* say, one after the other.                                                *)
TextIn(how, x) == IF how = "item" THEN SaidByItem(x) ELSE SaidByPart(x)
TextsIn(how, s) == [k \in 1..Len(s) |-> TextIn(how, s[k])]
Carries(how, s, said) == IsSequence(s) /\ OfSequences(TextsIn(how, s)) /\ FlattenSeq(TextsIn(how, s)) = said

LEMMA TextsInAre ==
  ASSUME NEW how, NEW s, IsSequence(s)
  PROVE  /\ IsSequence(TextsIn(how, s)) /\ Len(TextsIn(how, s)) = Len(s) /\ Len(s) \in Nat
         /\ \A k \in 1..Len(s) : TextsIn(how, s)[k] = TextIn(how, s[k])
<1>1. Len(s) \in Nat
  BY SequenceFacts
<1>2. PICK n \in Nat : n = Len(s)
  BY <1>1
<1>3. PICK ts : ts = TextsIn(how, s)
  OBVIOUS
<1>4. ts = [k \in 1..n |-> TextIn(how, s[k])]
  BY <1>2, <1>3 DEF TextsIn
<1>5. DOMAIN ts = 1..n /\ ts = [k \in 1..n |-> ts[k]] /\ \A k \in 1..n : ts[k] = TextIn(how, s[k])
  BY <1>4
<1>6. IsSequence(ts) /\ Len(ts) = n
  BY <1>5, FunctionSequence
<1> QED BY <1>1, <1>2, <1>3, <1>5, <1>6

LEMMA CarriesSilent ==
  ASSUME NEW how, NEW s, IsSequence(s), \A k \in 1..Len(s) : TextIn(how, s[k]) = <<>>
  PROVE  Carries(how, s, <<>>)
<1>1. PICK ts : ts = TextsIn(how, s)
  OBVIOUS
<1>2. IsSequence(ts) /\ Len(ts) = Len(s) /\ \A k \in 1..Len(s) : ts[k] = <<>>
  BY <1>1, TextsInAre
<1>3. OfSequences(ts)
  BY <1>2, EmptySequence DEF OfSequences
<1>4. FlattenSeq(ts) = <<>>
  BY <1>2, <1>3, FlattenEmpties
<1> QED BY <1>1, <1>3, <1>4 DEF Carries

LEMMA CarriesNone == \A how : Carries(how, <<>>, <<>>)
<1>1. IsSequence(<<>>) /\ \A k \in 1..Len(<<>>) : FALSE
  BY EmptySequence
<1> QED BY <1>1, CarriesSilent

LEMMA CarriesOne ==
  ASSUME NEW how, NEW x, IsSequence(TextIn(how, x))
  PROVE  Carries(how, <<x>>, TextIn(how, x))
<1>1. PICK s, ts, t : s = <<x>> /\ ts = TextsIn(how, s) /\ t = TextIn(how, x)
  OBVIOUS
<1>2. IsSequence(s) /\ Len(s) = 1 /\ s[1] = x
  BY <1>1, OneSequence
<1>3. IsSequence(ts) /\ Len(ts) = 1 /\ ts[1] = t
  BY <1>1, <1>2, TextsInAre
<1>4. \A k \in 1..1 : k = 1
  OBVIOUS
<1>5. OfSequences(ts)
  BY <1>1, <1>3, <1>4 DEF OfSequences
<1>6. ts = <<t>>
  <2>1. PICK us : us = <<t>>
    OBVIOUS
  <2>2. IsSequence(us) /\ Len(us) = 1 /\ us[1] = t
    BY <2>1, OneSequence
  <2>3. ts = us
    BY <1>3, <1>4, <2>2, SameSequence
  <2> QED BY <2>1, <2>3
<1>7. FlattenSeq(ts) = t
  BY <1>6, FlattenOne
<1> QED BY <1>1, <1>2, <1>5, <1>7 DEF Carries

LEMMA CarriesBoth ==
  ASSUME NEW how, NEW s, NEW t, NEW a, NEW b, Carries(how, s, a), Carries(how, t, b)
  PROVE  Carries(how, s \o t, a \o b)
<1>0. IsSequence(s) /\ IsSequence(t) /\ Len(s) \in Nat /\ Len(t) \in Nat
  BY SequenceFacts DEF Carries
<1>1. PICK u : u = s \o t
  OBVIOUS
<1>2. /\ IsSequence(u) /\ Len(u) = Len(s) + Len(t)
      /\ \A k \in 1..Len(s) : u[k] = s[k]
      /\ \A k \in 1..Len(t) : u[Len(s) + k] = t[k]
  BY <1>0, <1>1, ConcatSequences
<1>3. PICK gs, hs, us : gs = TextsIn(how, s) /\ hs = TextsIn(how, t) /\ us = TextsIn(how, u)
  OBVIOUS
<1>4. /\ OfSequences(gs) /\ Len(gs) = Len(s) /\ \A k \in 1..Len(s) : gs[k] = TextIn(how, s[k])
      /\ OfSequences(hs) /\ Len(hs) = Len(t) /\ \A k \in 1..Len(t) : hs[k] = TextIn(how, t[k])
      /\ IsSequence(us) /\ Len(us) = Len(u) /\ \A k \in 1..Len(u) : us[k] = TextIn(how, u[k])
      /\ FlattenSeq(gs) = a /\ FlattenSeq(hs) = b
  BY <1>0, <1>2, <1>3, TextsInAre DEF Carries
<1>5. (\A k \in 1..Len(s) : k \in 1..Len(u)) /\ (\A k \in 1..Len(t) : Len(s) + k \in 1..Len(u))
  BY <1>0, <1>2
<1>6. \A k \in 1..Len(gs) : us[k] = gs[k]
  BY <1>2, <1>4, <1>5
<1>7. \A k \in 1..Len(hs) : us[Len(gs) + k] = hs[k]
  BY <1>2, <1>4, <1>5
<1>8. FlattenSeq(us) = FlattenSeq(gs) \o FlattenSeq(hs)
  BY <1>2, <1>4, <1>6, <1>7, GatheredConcat
<1>9. OfSequences(us)
  <2>1. ASSUME NEW k \in 1..Len(us) PROVE IsSequence(us[k])
    <3>1. k \in 1..Len(s) \/ (k - Len(s) \in 1..Len(t) /\ Len(s) + (k - Len(s)) = k)
      BY <1>0, <1>2, <1>4
    <3>2. CASE k \in 1..Len(s)
      BY <1>4, <1>6, <3>2 DEF OfSequences
    <3>3. ASSUME NEW j \in 1..Len(t), Len(s) + j = k PROVE IsSequence(us[k])
      <4>1. us[Len(gs) + j] = hs[j] /\ IsSequence(hs[j]) /\ Len(gs) + j = k
        BY <1>4, <1>7, <3>3 DEF OfSequences
      <4> QED BY <4>1
    <3> QED BY <3>1, <3>2, <3>3
  <2> QED BY <1>4, <2>1 DEF OfSequences
<1> QED BY <1>1, <1>2, <1>3, <1>4, <1>8, <1>9 DEF Carries

LEMMA CarriesAll ==
  ASSUME NEW how, NEW gs, NEW as, IsSequence(gs), IsSequence(as), Len(as) = Len(gs),
         \A k \in 1..Len(gs) : Carries(how, gs[k], as[k])
  PROVE  Carries(how, FlattenSeq(gs), FlattenSeq(as))
<1> DEFINE All(n) == Carries(how, FlattenSeq(First(gs, n)), FlattenSeq(First(as, n)))
           S == {n \in Nat : All(n)}
<1>0. OfSequences(gs) /\ OfSequences(as) /\ Len(gs) \in Nat
  <2>1. ASSUME NEW k \in 1..Len(gs) PROVE IsSequence(gs[k]) /\ IsSequence(as[k])
    <3>1. PICK g, a : g = gs[k] /\ a = as[k]
      OBVIOUS
    <3>2. Carries(how, g, a)
      BY <3>1
    <3>3. IsSequence(g) /\ IsSequence(a)
      BY ONLY <3>2, FlattenSequence DEF Carries
    <3> QED BY <3>1, <3>3
  <2> QED BY <2>1, SequenceFacts DEF OfSequences
<1>1. 0 \in S
  BY FirstFacts, FlattenNone, CarriesNone
<1>2. ASSUME NEW n \in Nat, n + 1 <= Len(gs), n \in S PROVE n + 1 \in S
  <2>1. n + 1 \in 1..Len(gs) /\ FlattenSeq(First(gs, n + 1)) = FlattenSeq(First(gs, n)) \o gs[n + 1]
    BY <1>0, <1>2, FlattenStep
  <2>2. FlattenSeq(First(as, n + 1)) = FlattenSeq(First(as, n)) \o as[n + 1]
    BY <1>0, <1>2, FlattenStep
  <2>3. PICK g, a, h, b : g = FlattenSeq(First(gs, n)) /\ a = FlattenSeq(First(as, n)) /\ h = gs[n + 1] /\ b = as[n + 1]
    OBVIOUS
  <2>4. Carries(how, g, a) /\ Carries(how, h, b)
    BY <1>2, <2>1, <2>3
  <2>5. Carries(how, g \o h, a \o b)
    BY ONLY <2>4, CarriesBoth
  <2>6. All(n + 1)
    BY ONLY <2>1, <2>2, <2>3, <2>5
  <2> HIDE DEF All
  <2> QED BY <2>6
<1> HIDE DEF S
<1>3. Len(gs) \in S
  BY <1>1, <1>2, GrowInduction
<1>4. First(gs, Len(gs)) = gs /\ First(as, Len(gs)) = as
  BY FirstFacts
<1> QED BY <1>3, <1>4 DEF S

(* What is kept of a content for Responses reads as the content.            *)
KeptFor(s) == Select(s, LAMBDA p : p.type = "text" \/ (p.type = "image_url" /\ p.url # "none"))

LEMMA KeptReads ==
  ASSUME NEW s, IsSequence(s), \A k \in 1..Len(s) : IsSequence(SaidBy(s[k]))
  PROVE  IsSequence(KeptFor(s)) /\ Joined(KeptFor(s)) = Joined(s) /\ IsSequence(Joined(s))
<1> DEFINE S == {p \in Range(s) : p.type = "text" \/ (p.type = "image_url" /\ p.url # "none")}
           f == [p \in Range(s) |-> IF p.type = "text" THEN p.text ELSE <<>>]
           kept == Pick(s, S)
<1>0. DOMAIN s = 1..Len(s) /\ Len(s) \in Nat
  BY SequenceFacts
<1>1. \A k \in 1..Len(s) : /\ s[k] \in Range(s)
                           /\ s[k] \in S <=> (s[k].type = "text" \/ (s[k].type = "image_url" /\ s[k].url # "none"))
  BY InRange
<1>2. KeptFor(s) = kept
  <2>1. [k \in DOMAIN s |-> IF s[k].type = "text" \/ (s[k].type = "image_url" /\ s[k].url # "none")
                            THEN <<s[k]>> ELSE <<>>]
          = [k \in 1..Len(s) |-> IF s[k] \in S THEN <<s[k]>> ELSE <<>>]
    BY <1>0, <1>1
  <2> QED BY <2>1 DEF KeptFor, Select, Pick
<1>3. IsSequence(kept) /\ \A k \in 1..Len(kept) : kept[k] \in Range(s) \cap S
  BY PickedFrom, PickFacts
<1>4. DOMAIN kept = 1..Len(kept) /\ Len(kept) \in Nat
  BY <1>3, SequenceFacts
<1>5. \A k \in 1..Len(s) : /\ s[k].type = "text" => IsSequence(s[k].text)
                           /\ f[s[k]] = (IF s[k].type = "text" THEN s[k].text ELSE <<>>)
                           /\ IsSequence(f[s[k]])
                           /\ s[k] \notin S => f[s[k]] = <<>>
  BY <1>1, EmptySequence DEF SaidBy
<1>6. \A p \in Range(s) : /\ p.type = "text" => IsSequence(p.text)
                          /\ f[p] = IF p.type = "text" THEN p.text ELSE <<>>
  BY <1>0, <1>5 DEF Range
<1> HIDE DEF f, S, kept
<1>7. Joined(kept) = FlattenSeq([k \in 1..Len(kept) |-> IF kept[k].type = "text" THEN kept[k].text ELSE <<>>])
  BY <1>3, <1>6, JoinedIs
<1>8. [k \in 1..Len(kept) |-> IF kept[k].type = "text" THEN kept[k].text ELSE <<>>] = Map(f, kept)
  BY <1>3, <1>4, <1>6 DEF Map
<1>9. FlattenSeq(Map(f, kept)) = FlattenSeq([k \in 1..Len(s) |-> IF s[k] \in S THEN f[s[k]] ELSE <<>>])
  BY <1>5, FlatPick DEF kept
<1>10. [k \in 1..Len(s) |-> IF s[k] \in S THEN f[s[k]] ELSE <<>>]
         = [k \in 1..Len(s) |-> IF s[k].type = "text" THEN s[k].text ELSE <<>>]
  BY <1>5
<1>11. Joined(s) = FlattenSeq([k \in 1..Len(s) |-> IF s[k].type = "text" THEN s[k].text ELSE <<>>])
       /\ IsSequence(Joined(s))
  BY JoinedFormed
<1> QED BY <1>2, <1>3, <1>7, <1>8, <1>9, <1>10, <1>11

LEMMA KeptNone ==
  ASSUME NEW s, IsSequence(s), KeptFor(s) = <<>>
  PROVE  Joined(KeptFor(s)) = <<>>
<1>1. \A k \in 1..Len(<<>>) : FALSE
  BY EmptySequence
<1>2. Joined(<<>>) = FlattenSeq([k \in 1..Len(<<>>) |-> IF <<>>[k].type = "text" THEN <<>>[k].text ELSE <<>>])
  BY <1>1, EmptySequence, JoinedIs
<1>3. PICK e : e = [k \in 1..Len(<<>>) |-> IF <<>>[k].type = "text" THEN <<>>[k].text ELSE <<>>]
  OBVIOUS
<1>4. e = <<>>
  <2>1. Len(<<>>) = 0
    BY EmptySequence
  <2>2. DOMAIN e = 1..0 /\ e = [k \in 1..0 |-> e[k]]
    BY <1>3, <2>1
  <2>3. IsSequence(e) /\ Len(e) = 0
    BY <2>2, FunctionSequence
  <2> QED BY <2>3, EmptySequence
<1> QED BY <1>2, <1>3, <1>4, FlattenNone

(* The items of a message carry what it says: the texts of its content, a   *)
(* result's text, and nothing for its calls.                                *)
LEMMA ItemsCarry ==
  ASSUME NEW m, WellFormed(m.content), Legible(m)
  PROVE  Carries("item", Items(m), Voice(m))
<1>1. PICK c : c = m.content
  OBVIOUS
<1>2. WellFormed(c) /\ SaidIn(c) = TextOf(c) /\ IsSequence(TextOf(c)) /\ IsSequence(m.calls)
  BY <1>1, ContentSays DEF Legible
<1>3. CASE Instructs(m)
  <2>1. Items(m) = <<>>
    <3>1. m.role # "tool"
      BY <1>3 DEF Instructs
    <3> QED BY ONLY <1>3, <3>1 DEF Items
  <2>2. Voice(m) = <<>>
    BY Zenon, <1>3 DEF Voice
  <2> QED BY <2>1, <2>2, CarriesNone
<1>4. CASE ~Instructs(m) /\ m.role = "tool"
  <2>1. PICK i : i = FunctionOutput(m.id, TextOf(c))
    OBVIOUS
  <2>2. Items(m) = <<i>> /\ Voice(m) = TextOf(c)
    BY <1>1, <1>2, <1>4, <2>1 DEF Items, Voice
  <2>3. i.type = "function_call_output" /\ i.text = TextOf(c)
    BY <2>1 DEF FunctionOutput
  <2>4. TextIn("item", i) = TextOf(c)
    BY <2>3 DEF TextIn, SaidByItem
  <2> QED BY <1>2, <2>2, <2>4, CarriesOne
<1>5. CASE ~Instructs(m) /\ m.role # "tool"
  <2> DEFINE kept == ResponsesContent(c)
             said == Apply(LAMBDA x : Said(m.role, x), kept)
             made == Apply(LAMBDA x : FunctionCall(x.id, x.name), m.calls)
  <2>1. Items(m) = said \o made /\ Voice(m) = TextOf(c)
    BY <1>1, <1>2, <1>5 DEF Items, Voice
  <2>2. Carries("item", made, <<>>)
    <3>1. DOMAIN m.calls = 1..Len(m.calls) /\ Len(m.calls) \in Nat
      BY <1>2, SequenceFacts
    <3>2. made = [k \in 1..Len(m.calls) |-> FunctionCall(m.calls[k].id, m.calls[k].name)]
      BY <3>1 DEF Apply
    <3>3. /\ IsSequence(made) /\ Len(made) = Len(m.calls)
          /\ \A k \in 1..Len(m.calls) : made[k] = FunctionCall(m.calls[k].id, m.calls[k].name)
      BY <3>1, <3>2, FunctionSequence
    <3>4. \A id, name : TextIn("item", FunctionCall(id, name)) = <<>>
      <4>1. \A id, name : FunctionCall(id, name).type = "function_call"
        BY DEF FunctionCall
      <4>2. ASSUME NEW i, i.type = "function_call" PROVE TextIn("item", i) = <<>>
        BY <4>2 DEF TextIn, SaidByItem
      <4> QED BY <4>1, <4>2
    <3> HIDE DEF made
    <3>5. \A k \in 1..Len(made) : TextIn("item", made[k]) = <<>>
      BY <3>3, <3>4
    <3> QED BY <3>3, <3>5, CarriesSilent
  <2>3. \/ kept = <<>> /\ TextOf(c) = <<>>
        \/ \E d : kept = <<d>> /\ TextOf(d) = TextOf(c)
    <3>1. CASE c.form = "null"
      BY <3>1 DEF ResponsesContent, TextOf
    <3>2. CASE c.form = "string"
      BY <3>2 DEF ResponsesContent, TextOf
    <3>3. CASE c.form = "array"
      <4>1. PICK s : s = c.parts
        OBVIOUS
      <4>2. IsSequence(s) /\ \A k \in 1..Len(s) : IsSequence(SaidBy(s[k]))
        BY <1>2, <3>3, <4>1, WellFormedFacts
      <4>3. kept = IF KeptFor(s) = <<>> THEN <<>> ELSE <<Parts(KeptFor(s))>>
        BY <3>3, <4>1 DEF ResponsesContent, KeptFor
      <4>4. TextOf(c) = Joined(s)
        BY <3>3, <4>1 DEF TextOf
      <4>5. \A t : TextOf(Parts(t)) = Joined(t)
        BY DEF TextOf, Parts
      <4>6. Joined(KeptFor(s)) = Joined(s) /\ (KeptFor(s) = <<>> => Joined(KeptFor(s)) = <<>>)
        BY <4>2, KeptReads, KeptNone
      <4> HIDE DEF kept
      <4> QED BY <4>3, <4>4, <4>5, <4>6
    <3> QED BY <1>2, <3>1, <3>2, <3>3, WellFormedFacts
  <2>4. Carries("item", said, TextOf(c))
    <3> HIDE DEF kept
    <3>1. CASE kept = <<>> /\ TextOf(c) = <<>>
      <4>1. said = <<>>
        <5>1. DOMAIN <<>> = {}
          OBVIOUS
        <5>2. said = [k \in {} |-> Said(m.role, kept[k])]
          BY <3>1, <5>1 DEF Apply
        <5>3. [k \in {} |-> Said(m.role, kept[k])] = <<>>
          OBVIOUS
        <5> QED BY <5>2, <5>3
      <4> QED BY <3>1, <4>1, CarriesNone
    <3>2. ASSUME NEW d, kept = <<d>>, TextOf(d) = TextOf(c) PROVE Carries("item", said, TextOf(c))
      <4>1. PICK i : i = Said(m.role, d)
        OBVIOUS
      <4>2. i.type = "message" /\ i.content = d
        BY <4>1 DEF Said
      <4>3. TextIn("item", i) = TextOf(c)
        BY <3>2, <4>2 DEF TextIn, SaidByItem
      <4>4. said = <<i>>
        <5>1. IsSequence(kept) /\ Len(kept) = 1 /\ kept[1] = d /\ DOMAIN kept = 1..1
          <6>1. IsSequence(kept) /\ Len(kept) = 1 /\ kept[1] = d
            BY <3>2, OneSequence
          <6> QED BY <6>1, SequenceFacts
        <5>2. said = [k \in 1..1 |-> Said(m.role, kept[k])]
          BY <5>1 DEF Apply
        <5> HIDE DEF said
        <5>3. IsSequence(said) /\ Len(said) = 1 /\ said[1] = i
          <6>1. DOMAIN said = 1..1 /\ said = [k \in 1..1 |-> said[k]] /\ 1 \in 1..1
            BY <5>2
          <6>2. IsSequence(said) /\ Len(said) = 1
            BY <6>1, FunctionSequence
          <6>3. said[1] = Said(m.role, kept[1])
            BY <5>2, <6>1
          <6> QED BY <4>1, <5>1, <6>2, <6>3
        <5>4. PICK one : one = <<i>>
          OBVIOUS
        <5>5. IsSequence(one) /\ Len(one) = 1 /\ one[1] = i /\ \A k \in 1..1 : k = 1
          BY <5>4, OneSequence
        <5>6. said = one
          BY <5>3, <5>5, SameSequence
        <5> QED BY <5>4, <5>6
      <4> QED BY <1>2, <4>3, <4>4, CarriesOne
    <3> QED BY <2>3, <3>1, <3>2
  <2>5. PICK x, y : x = said /\ y = made
    OBVIOUS
  <2>6. Carries("item", x \o y, TextOf(c) \o <<>>)
    BY <2>2, <2>4, <2>5, CarriesBoth
  <2>7. TextOf(c) \o <<>> = TextOf(c)
    BY <1>2, ConcatEmpty
  <2> QED BY <2>1, <2>5, <2>6, <2>7
<1> QED BY <1>3, <1>4, <1>5

(* What a sequence carries is what its elements say in order.               *)
LEMMA CarriedIs ==
  ASSUME NEW s, NEW said
  PROVE  /\ Carries("item", s, said) => FlattenSeq(Apply(SaidByItem, s)) = said
         /\ Carries("part", s, said) => FlattenSeq(Apply(SaidByPart, s)) = said
<1>1. IsSequence(s) => DOMAIN s = 1..Len(s)
  BY SequenceFacts
<1>2. IsSequence(s) => Apply(SaidByItem, s) = TextsIn("item", s)
  BY <1>1 DEF Apply, TextsIn, TextIn
<1>3. IsSequence(s) => Apply(SaidByPart, s) = TextsIn("part", s)
  BY <1>1 DEF Apply, TextsIn, TextIn
<1> QED BY <1>2, <1>3 DEF Carries

(* Responses gets every text of the conversation.                           *)
LEMMA ChatToldResponses ==
  ASSUME TalkInv, AwaitInv, AnthropicInv, Sent
  PROVE  FlattenSeq(Apply(SaidByItem, ChatToResponsesBody(ToChat).input)) = Speech(Spoken(talk))
<1>1. PICK ms : ms = ToChat.messages
  OBVIOUS
<1>2. /\ IsSequence(ms) /\ Voices(ms) = Voices(talk)
      /\ \A k \in 1..Len(ms) : WellFormed(ms[k].content) /\ Legible(ms[k])
  BY <1>1, ChatBecomes DEF Becomes
<1>3. DOMAIN ms = 1..Len(ms) /\ Len(ms) \in Nat
  BY <1>2, SequenceFacts
<1>4. PICK gs, as : gs = [k \in 1..Len(ms) |-> Items(ms[k])] /\ as = [k \in 1..Len(ms) |-> Voice(ms[k])]
  OBVIOUS
<1>5. IsSequence(gs) /\ Len(gs) = Len(ms) /\ \A k \in 1..Len(ms) : gs[k] = Items(ms[k])
  <2>1. DOMAIN gs = 1..Len(ms) /\ gs = [k \in 1..Len(ms) |-> gs[k]] /\ \A k \in 1..Len(ms) : gs[k] = Items(ms[k])
    BY <1>4
  <2> QED BY <1>3, <2>1, FunctionSequence
<1>6. IsSequence(as) /\ Len(as) = Len(ms) /\ \A k \in 1..Len(ms) : as[k] = Voice(ms[k])
  <2>1. DOMAIN as = 1..Len(ms) /\ as = [k \in 1..Len(ms) |-> as[k]] /\ \A k \in 1..Len(ms) : as[k] = Voice(ms[k])
    BY <1>4
  <2> QED BY <1>3, <2>1, FunctionSequence
<1>7. \A k \in 1..Len(gs) : Carries("item", gs[k], as[k])
  <2>1. ASSUME NEW k \in 1..Len(ms) PROVE Carries("item", Items(ms[k]), Voice(ms[k]))
    <3>1. PICK m : m = ms[k]
      OBVIOUS
    <3>2. WellFormed(m.content) /\ Legible(m)
      BY <1>2, <3>1
    <3>3. Carries("item", Items(m), Voice(m))
      BY ONLY <3>2, ItemsCarry
    <3> QED BY <3>1, <3>3
  <2> QED BY <1>5, <1>6, <2>1
<1>8. Carries("item", FlattenSeq(gs), FlattenSeq(as))
  BY <1>5, <1>6, <1>7, CarriesAll
<1>9. ChatToResponsesBody(ToChat).input = FlattenSeq(gs)
  <2>1. Apply(Items, ms) = gs
    BY <1>3, <1>4 DEF Apply
  <2> QED BY <1>1, <2>1 DEF ChatToResponsesBody
<1>10. FlattenSeq(as) = Voices(talk)
  BY <1>2, <1>4 DEF Voices
<1>11. Speech(Spoken(talk)) = Voices(talk)
  BY SaidByClient DEF TalkInv
<1> QED BY <1>8, <1>9, <1>10, <1>11, CarriedIs

(* The fold of OpenAIToGeminiBody.                                          *)
GeminiStart == [contents |-> <<>>, system |-> <<>>, names |-> <<>>, refused |-> FALSE]
GeminiRun(ms) == FoldLeft(GeminiMessage, GeminiStart, ms)
GeminiRuns(ms, D, g) ==
  g = [s \in SUBSET D |-> IF s = {} THEN GeminiStart ELSE GeminiMessage(g[s \ {Max(s)}], ms[Max(s)])]

LEMMA GeminiRunsExist ==
  ASSUME NEW ms, NEW n \in Nat
  PROVE  \E g : GeminiRuns(ms, 1..n, g)
<1> DEFINE S == {m \in Nat : \E g : GeminiRuns(ms, 1..m, g)}
<1>1. 0 \in S
  <2>1. GeminiRuns(ms, 1..0, [s \in SUBSET (1..0) |-> GeminiStart])
    <3>1. \A s \in SUBSET (1..0) : s = {}
      OBVIOUS
    <3> QED BY <3>1 DEF GeminiRuns
  <2> QED BY <2>1
<1>2. ASSUME NEW m \in Nat, m \in S PROVE m + 1 \in S
  <2>1. PICK g : GeminiRuns(ms, 1..m, g)
    BY <1>2
  <2> DEFINE h == [s \in SUBSET (1..(m + 1)) |->
                     IF s \in SUBSET (1..m) THEN g[s] ELSE GeminiMessage(g[s \ {m + 1}], ms[m + 1])]
  <2>2. ASSUME NEW s \in SUBSET (1..(m + 1))
        PROVE  h[s] = IF s = {} THEN GeminiStart ELSE GeminiMessage(h[s \ {Max(s)}], ms[Max(s)])
    <3>1. CASE s \in SUBSET (1..m)
      <4>1. h[s] = g[s]
        BY <3>1
      <4>2. s \ {Max(s)} \in SUBSET (1..m) /\ s \ {Max(s)} \in SUBSET (1..(m + 1))
        BY <3>1
      <4>3. h[s \ {Max(s)}] = g[s \ {Max(s)}]
        BY <4>2
      <4> HIDE DEF h
      <4> QED BY <2>1, <3>1, <4>1, <4>3 DEF GeminiRuns
    <3>2. CASE s \notin SUBSET (1..m)
      <4>1. m + 1 \in s
        BY <3>2
      <4>2. Max(s) = m + 1
        BY <4>1, LargestIs
      <4>3. s \ {m + 1} \in SUBSET (1..m) /\ s \ {m + 1} \in SUBSET (1..(m + 1)) /\ s # {}
        BY <4>1
      <4>4. h[s \ {m + 1}] = g[s \ {m + 1}]
        BY <4>3
      <4>5. h[s] = GeminiMessage(g[s \ {m + 1}], ms[m + 1])
        BY <3>2
      <4> HIDE DEF h
      <4> QED BY <4>2, <4>3, <4>4, <4>5
    <3> QED BY <3>1, <3>2
  <2>3. h = [s \in SUBSET (1..(m + 1)) |->
               IF s = {} THEN GeminiStart ELSE GeminiMessage(h[s \ {Max(s)}], ms[Max(s)])]
    BY <2>2
  <2> HIDE DEF h
  <2>4. GeminiRuns(ms, 1..(m + 1), h)
    BY <2>3 DEF GeminiRuns
  <2> QED BY <2>4
<1> HIDE DEF S
<1>3. Nat \subseteq S
  BY <1>1, <1>2, NatSetInduction
<1> QED BY <1>3 DEF S

LEMMA GeminiRunIs ==
  ASSUME NEW ms, IsSequence(ms)
  PROVE  \E g : GeminiRuns(ms, 1..Len(ms), g) /\ GeminiRun(ms) = g[1..Len(ms)]
<1> DEFINE n == Len(ms)
           g == CHOOSE g : g = [s \in SUBSET DOMAIN ms |->
                  IF s = {} THEN GeminiStart ELSE GeminiMessage(g[s \ {Max(s)}], ms[Max(s)])]
<1>0. DOMAIN ms = 1..n /\ n \in Nat
  BY SequenceFacts
<1>1. \E h : h = [s \in SUBSET DOMAIN ms |->
                    IF s = {} THEN GeminiStart ELSE GeminiMessage(h[s \ {Max(s)}], ms[Max(s)])]
  <2>1. PICK h : GeminiRuns(ms, 1..n, h)
    BY <1>0, GeminiRunsExist
  <2>2. [s \in SUBSET (1..n) |-> IF s = {} THEN GeminiStart ELSE GeminiMessage(h[s \ {Max(s)}], ms[Max(s)])]
        = [s \in SUBSET DOMAIN ms |-> IF s = {} THEN GeminiStart ELSE GeminiMessage(h[s \ {Max(s)}], ms[Max(s)])]
    BY <1>0
  <2> QED BY <2>1, <2>2, Zenon DEF GeminiRuns
<1>2. g = [s \in SUBSET DOMAIN ms |->
             IF s = {} THEN GeminiStart ELSE GeminiMessage(g[s \ {Max(s)}], ms[Max(s)])]
  BY <1>1
<1>3. GeminiRun(ms) = g[DOMAIN ms]
  BY DEF GeminiRun, FoldLeft, MapThenFoldSet
<1> HIDE DEF g
<1>4. GeminiRuns(ms, 1..n, g)
  BY <1>0, <1>2 DEF GeminiRuns
<1> QED BY <1>0, <1>3, <1>4

LEMMA GeminiRunsAgree ==
  ASSUME NEW ms, NEW ns, NEW n \in Nat, NEW m \in Nat, n <= m, NEW g, NEW h,
         GeminiRuns(ms, 1..n, g), GeminiRuns(ns, 1..m, h), \A k \in 1..n : ms[k] = ns[k]
  PROVE  /\ \A i \in 0..n : g[1..i] = h[1..i]
         /\ h[1..0] = GeminiStart
         /\ \A i \in Nat : i + 1 <= m => h[1..(i + 1)] = GeminiMessage(h[1..i], ns[i + 1])
<1>1. /\ \A s \in SUBSET (1..n) : g[s] = IF s = {} THEN GeminiStart ELSE GeminiMessage(g[s \ {Max(s)}], ms[Max(s)])
      /\ \A s \in SUBSET (1..m) : h[s] = IF s = {} THEN GeminiStart ELSE GeminiMessage(h[s \ {Max(s)}], ns[Max(s)])
  BY DEF GeminiRuns
<1>2. /\ \A i \in Nat : i + 1 <= n => g[1..(i + 1)] = GeminiMessage(g[1..i], ms[i + 1])
      /\ \A i \in Nat : i + 1 <= m => h[1..(i + 1)] = GeminiMessage(h[1..i], ns[i + 1])
  <2>1. \A i \in Nat : Max(1..(i + 1)) = i + 1
    <3>1. ASSUME NEW i \in Nat PROVE Max(1..(i + 1)) = i + 1
      <4>1. 1..(i + 1) \in SUBSET (1..(i + 1)) /\ i + 1 \in 1..(i + 1)
        OBVIOUS
      <4> QED BY <4>1, LargestIs
    <3> QED BY <3>1
  <2>2. \A i \in Nat : (1..(i + 1)) \ {i + 1} = 1..i /\ 1..(i + 1) # {}
    <3>1. ASSUME NEW i \in Nat PROVE (1..(i + 1)) \ {i + 1} = 1..i /\ 1..(i + 1) # {}
      <4>1. \A k : k \in (1..(i + 1)) \ {i + 1} <=> k \in 1..i
        OBVIOUS
      <4>2. i + 1 \in 1..(i + 1)
        OBVIOUS
      <4> QED BY <4>1, <4>2
    <3> QED BY <3>1
  <2>3. ASSUME NEW i \in Nat, i + 1 <= n PROVE g[1..(i + 1)] = GeminiMessage(g[1..i], ms[i + 1])
    <3>1. 1..(i + 1) \in SUBSET (1..n)
      BY <2>3
    <3>2. Max(1..(i + 1)) = i + 1 /\ (1..(i + 1)) \ {i + 1} = 1..i /\ 1..(i + 1) # {}
      BY <2>1, <2>2
    <3>3. g[1..(i + 1)] = IF 1..(i + 1) = {} THEN GeminiStart
                         ELSE GeminiMessage(g[(1..(i + 1)) \ {Max(1..(i + 1))}], ms[Max(1..(i + 1))])
      BY <1>1, <3>1
    <3> QED BY <3>2, <3>3
  <2>4. ASSUME NEW i \in Nat, i + 1 <= m PROVE h[1..(i + 1)] = GeminiMessage(h[1..i], ns[i + 1])
    <3>1. 1..(i + 1) \in SUBSET (1..m)
      BY <2>4
    <3>2. Max(1..(i + 1)) = i + 1 /\ (1..(i + 1)) \ {i + 1} = 1..i /\ 1..(i + 1) # {}
      BY <2>1, <2>2
    <3>3. h[1..(i + 1)] = IF 1..(i + 1) = {} THEN GeminiStart
                         ELSE GeminiMessage(h[(1..(i + 1)) \ {Max(1..(i + 1))}], ns[Max(1..(i + 1))])
      BY <1>1, <3>1
    <3> QED BY <3>2, <3>3
  <2> QED BY <2>3, <2>4
<1>3. g[1..0] = GeminiStart /\ h[1..0] = GeminiStart
  <2>1. 1..0 = {} /\ {} \in SUBSET (1..n) /\ {} \in SUBSET (1..m)
    OBVIOUS
  <2> QED BY <1>1, <2>1
<1> DEFINE S == {i \in Nat : i <= n => g[1..i] = h[1..i]}
<1>4. 0 \in S
  BY <1>3
<1>5. ASSUME NEW i \in Nat, i \in S PROVE i + 1 \in S
  <2>1. SUFFICES ASSUME i + 1 <= n PROVE g[1..(i + 1)] = h[1..(i + 1)]
    OBVIOUS
  <2>2. i <= n /\ i + 1 <= m /\ i + 1 \in 1..n
    BY <2>1
  <2> QED BY <1>2, <1>5, <2>1, <2>2
<1> HIDE DEF S
<1>6. Nat \subseteq S
  BY <1>4, <1>5, NatSetInduction
<1>7. \A i \in 0..n : g[1..i] = h[1..i]
  BY <1>6 DEF S
<1> QED BY <1>2, <1>3, <1>7

LEMMA GeminiRunsNext ==
  ASSUME NEW ms, NEW ns, NEW n \in Nat, NEW g, NEW h,
         GeminiRuns(ms, 1..n, g), GeminiRuns(ns, 1..(n + 1), h), \A k \in 1..n : ms[k] = ns[k]
  PROVE  h[1..(n + 1)] = GeminiMessage(g[1..n], ns[n + 1])
<1>1. PICK m \in Nat : m = n + 1
  OBVIOUS
<1>2. n <= m /\ GeminiRuns(ns, 1..m, h)
  BY <1>1
<1>3. \A i \in 0..n : g[1..i] = h[1..i]
  BY <1>2, GeminiRunsAgree
<1>4. \A i \in Nat : i + 1 <= m => h[1..(i + 1)] = GeminiMessage(h[1..i], ns[i + 1])
  BY <1>2, GeminiRunsAgree
<1>5. n \in 0..n /\ n + 1 <= m
  BY <1>1
<1> QED BY <1>3, <1>4, <1>5

LEMMA GeminiRunMore ==
  ASSUME NEW ms, NEW ns, NEW n \in Nat, IsSequence(ms), IsSequence(ns), Len(ms) = n, Len(ns) = n + 1,
         \A k \in 1..n : ms[k] = ns[k]
  PROVE  GeminiRun(ns) = GeminiMessage(GeminiRun(ms), ns[n + 1])
<1>1. PICK g : GeminiRuns(ms, 1..n, g) /\ GeminiRun(ms) = g[1..n]
  BY GeminiRunIs
<1>2. PICK h : GeminiRuns(ns, 1..(n + 1), h) /\ GeminiRun(ns) = h[1..(n + 1)]
  BY GeminiRunIs
<1>3. h[1..(n + 1)] = GeminiMessage(g[1..n], ns[n + 1])
  BY <1>1, <1>2, GeminiRunsNext
<1> QED BY <1>1, <1>2, <1>3

LEMMA GeminiRunStep ==
  /\ GeminiRun(<<>>) = GeminiStart
  /\ \A ms, m : IsSequence(ms) => GeminiRun(Append(ms, m)) = GeminiMessage(GeminiRun(ms), m)
<1>1. GeminiRun(<<>>) = GeminiStart
  <2>1. PICK g : GeminiRuns(<<>>, 1..Len(<<>>), g) /\ GeminiRun(<<>>) = g[1..Len(<<>>)]
    BY EmptySequence, GeminiRunIs
  <2>2. Len(<<>>) = 0 /\ 0 \in Nat
    BY EmptySequence
  <2>3. GeminiRuns(<<>>, 1..0, g) /\ GeminiRun(<<>>) = g[1..0]
    BY <2>1, <2>2
  <2>4. \A k \in 1..0 : <<>>[k] = <<>>[k]
    OBVIOUS
  <2>5. g[1..0] = GeminiStart
    BY <2>2, <2>3, <2>4, GeminiRunsAgree
  <2> QED BY <2>3, <2>5
<1>2. ASSUME NEW ms, NEW m, IsSequence(ms) PROVE GeminiRun(Append(ms, m)) = GeminiMessage(GeminiRun(ms), m)
  <2>1. /\ Len(ms) \in Nat /\ IsSequence(Append(ms, m)) /\ Len(Append(ms, m)) = Len(ms) + 1
        /\ Append(ms, m)[Len(ms) + 1] = m /\ \A k \in 1..Len(ms) : ms[k] = Append(ms, m)[k]
    BY <1>2, SequenceFacts, AppendFacts
  <2> QED BY <1>2, <2>1, GeminiRunMore
<1> QED BY <1>1, <1>2

-----------------------------------------------------------------------------
(* What Gemini is told.                                                     *)

(* The state of the conversion.                                             *)
GeminiForm(st) ==
  /\ st = [contents |-> st.contents, system |-> st.system, names |-> st.names, refused |-> st.refused]
  /\ st.refused \in BOOLEAN

IdsCalled(m) == {m.calls[i].id : i \in DOMAIN m.calls}

LEMMA GeminiResultIs ==
  ASSUME NEW st, GeminiForm(st), NEW m, NEW t, t = GeminiResult(st, m), ~st.refused
  PROVE  /\ GeminiForm(t) /\ t.system = st.system /\ t.names = st.names
         /\ t.refused <=> m.id \notin DOMAIN st.names
<1>1. CASE m.id \notin DOMAIN st.names
  <2>1. t = Refuse(st)
    BY <1>1, Zenon DEF GeminiResult
  <2>2. t = [contents |-> st.contents, system |-> st.system, names |-> st.names, refused |-> TRUE]
    BY <2>1, Zenon DEF Refuse, GeminiForm
  <2> QED BY <1>1, <2>2 DEF GeminiForm
<1>2. CASE m.id \in DOMAIN st.names
  <2>1. PICK cs : t = [st EXCEPT !.contents = cs]
    BY <1>2, Zenon DEF GeminiResult
  <2>2. t = [contents |-> cs, system |-> st.system, names |-> st.names, refused |-> st.refused]
    BY <2>1 DEF GeminiForm
  <2> QED BY <1>2, <2>2 DEF GeminiForm
<1> QED BY <1>1, <1>2

LEMMA GeminiTurnIs ==
  ASSUME NEW st, GeminiForm(st), NEW m, NEW t, t = GeminiTurn(st, m), ~st.refused
  PROVE  /\ GeminiForm(t) /\ t.system = st.system
         /\ t.refused <=> ~CallsUsable(st, m.calls)
         /\ ~t.refused => DOMAIN t.names = IdsCalled(m) \cup DOMAIN st.names
<1>1. CASE ~CallsUsable(st, m.calls)
  <2>1. t = Refuse(st)
    BY <1>1 DEF GeminiTurn
  <2>2. t = [contents |-> st.contents, system |-> st.system, names |-> st.names, refused |-> TRUE]
    BY <2>1 DEF Refuse, GeminiForm
  <2> QED BY <1>1, <2>2 DEF GeminiForm
<1>2. CASE CallsUsable(st, m.calls)
  <2>1. PICK cs, ns : t = [st EXCEPT !.names = ns, !.contents = cs] /\ DOMAIN ns = IdsCalled(m) \cup DOMAIN st.names
    <3>1. PICK ids : ids = {m.calls[i].id : i \in DOMAIN m.calls}
      OBVIOUS
    <3>2. PICK old : old = st.names
      OBVIOUS
    <3>3. PICK ns : ns = [id \in ids \cup DOMAIN old |->
                            IF id \in ids THEN m.calls[CHOOSE i \in DOMAIN m.calls : m.calls[i].id = id].name ELSE old[id]]
      OBVIOUS
    <3>4. PICK parts : parts = GeminiMessageParts(m.content)
                               \o Apply(LAMBDA c : GeminiCall(c.id, c.name), m.calls)
      OBVIOUS
    <3>5. PICK cs : cs = IF parts = <<>> THEN st.contents
                         ELSE Append(st.contents, [role |-> IF m.role = "assistant" THEN "model" ELSE "user",
                                                   parts |-> parts])
      OBVIOUS
    <3>6. t = [st EXCEPT !.names = ns, !.contents = cs]
      BY ONLY t = GeminiTurn(st, m), <1>2, <3>1, <3>2, <3>3, <3>4, <3>5 DEF GeminiTurn
    <3>7. DOMAIN ns = IdsCalled(m) \cup DOMAIN st.names
      BY <3>1, <3>2, <3>3 DEF IdsCalled
    <3> QED BY <3>6, <3>7
  <2>2. t = [contents |-> cs, system |-> st.system, names |-> ns, refused |-> st.refused]
    BY <2>1 DEF GeminiForm
  <2> QED BY <1>2, <2>1, <2>2 DEF GeminiForm
<1> QED BY <1>1, <1>2

(* What a message does to it: an instruction goes to the system parts, and  *)
(* the conversion fails for a part that has no form there, for a result     *)
(* whose call is not known and for calls it could not tell apart.           *)
GeminiSystem(st, m, t) ==
  /\ st.refused => t = st
  /\ ~Instructs(m) => t.system = st.system
  /\ Instructs(m) /\ ~t.refused => t.system = st.system \o GeminiMessageParts(m.content)
GeminiNames(st, m, t) ==
  /\ m.role # "tool" /\ ~Representable(m.content) => t.refused
  /\ m.role = "function" => t.refused
  /\ m.role = "tool" => t.names = st.names /\ (t.refused <=> m.id \notin DOMAIN st.names)
  /\ Instructs(m) /\ Representable(m.content) => ~t.refused /\ t.names = st.names
  /\ m.role \in {"user", "assistant"} /\ Representable(m.content) =>
       /\ t.refused <=> ~CallsUsable(st, m.calls)
       /\ ~t.refused => DOMAIN t.names = IdsCalled(m) \cup DOMAIN st.names

LEMMA GeminiStep ==
  ASSUME NEW st, GeminiForm(st), NEW m, NEW t, t = GeminiMessage(st, m)
  PROVE  GeminiForm(t) /\ GeminiSystem(st, m, t) /\ (st.refused \/ GeminiNames(st, m, t))
<1>0. t = Refuse(st) => t = [contents |-> st.contents, system |-> st.system, names |-> st.names, refused |-> TRUE]
  BY DEF Refuse, GeminiForm
<1>1. CASE st.refused
  <2>1. t = st
    BY <1>1 DEF GeminiMessage
  <2> QED BY <1>1, <2>1 DEF GeminiSystem
<1>2. CASE ~st.refused /\ m.role = "tool"
  <2>1. t = GeminiResult(st, m) /\ ~Instructs(m)
    BY <1>2 DEF GeminiMessage, Instructs
  <2>2. /\ GeminiForm(t) /\ t.system = st.system /\ t.names = st.names
        /\ t.refused <=> m.id \notin DOMAIN st.names
    BY <1>2, <2>1, GeminiResultIs
  <2> QED BY <1>2, <2>1, <2>2 DEF GeminiSystem, GeminiNames, Instructs
<1>3. CASE ~st.refused /\ m.role # "tool" /\ ~Representable(m.content)
  <2>1. t = Refuse(st)
    BY <1>3 DEF GeminiMessage
  <2>2. t = [contents |-> st.contents, system |-> st.system, names |-> st.names, refused |-> TRUE]
    BY ONLY <1>0, <2>1
  <2>3. GeminiForm(t) /\ t.system = st.system /\ t.refused
    BY ONLY <2>2 DEF GeminiForm
  <2> QED BY <1>3, <2>3 DEF GeminiSystem, GeminiNames, Instructs
<1>4. CASE ~st.refused /\ Instructs(m) /\ Representable(m.content)
  <2>1. m.role # "tool" /\ m.role \notin {"user", "assistant"}
    BY <1>4 DEF Instructs
  <2>2. t = [st EXCEPT !.system = @ \o GeminiMessageParts(m.content)]
    BY <1>4, <2>1 DEF GeminiMessage
  <2>3. t = [contents |-> st.contents, system |-> st.system \o GeminiMessageParts(m.content),
             names |-> st.names, refused |-> st.refused]
    BY <2>2 DEF GeminiForm
  <2>4. GeminiForm(t) /\ t.system = st.system \o GeminiMessageParts(m.content) /\ ~t.refused /\ t.names = st.names
    BY <1>4, <2>3 DEF GeminiForm
  <2> QED BY <1>4, <2>1, <2>4 DEF GeminiSystem, GeminiNames, Instructs
<1>5. CASE ~st.refused /\ m.role \in {"user", "assistant"} /\ Representable(m.content)
  <2>1. m.role # "tool" /\ ~Instructs(m)
    BY <1>5 DEF Instructs
  <2>2. t = GeminiTurn(st, m)
    BY <1>5, <2>1 DEF GeminiMessage
  <2>3. /\ GeminiForm(t) /\ t.system = st.system
        /\ t.refused <=> ~CallsUsable(st, m.calls)
        /\ ~t.refused => DOMAIN t.names = IdsCalled(m) \cup DOMAIN st.names
    BY <1>5, <2>2, GeminiTurnIs
  <2> QED BY <1>5, <2>1, <2>3 DEF GeminiSystem, GeminiNames, Instructs
<1>6. CASE /\ ~st.refused /\ m.role # "tool" /\ Representable(m.content)
           /\ ~Instructs(m) /\ m.role \notin {"user", "assistant"}
  <2>1. t = Refuse(st)
    BY <1>6 DEF GeminiMessage
  <2>2. t = [contents |-> st.contents, system |-> st.system, names |-> st.names, refused |-> TRUE]
    BY ONLY <1>0, <2>1
  <2>3. GeminiForm(t) /\ t.system = st.system /\ t.refused
    BY ONLY <2>2 DEF GeminiForm
  <2> QED BY <1>6, <2>3 DEF GeminiSystem, GeminiNames, Instructs
<1> QED BY <1>1, <1>2, <1>3, <1>4, <1>5, <1>6

(* The texts of its system parts.                                           *)
PartTexts(s) == [k \in 1..Len(s) |-> s[k].text]
PartsTold(s) == IsSequence(s) /\ \A k \in 1..Len(s) : IsSequence(s[k].text)

LEMMA TextsSequence ==
  ASSUME NEW s, PartsTold(s)
  PROVE  OfSequences(PartTexts(s)) /\ Len(PartTexts(s)) = Len(s) /\ \A k \in 1..Len(s) : PartTexts(s)[k] = s[k].text
<1>1. IsSequence(s) /\ Len(s) \in Nat
  BY SequenceFacts DEF PartsTold
<1>2. PICK n \in Nat : n = Len(s)
  BY <1>1
<1>3. PICK ts : ts = PartTexts(s)
  OBVIOUS
<1>4. ts = [k \in 1..n |-> s[k].text]
  BY <1>2, <1>3 DEF PartTexts
<1>5. IsSequence(ts) /\ Len(ts) = n
  <2>1. DOMAIN ts = 1..n /\ ts = [k \in 1..n |-> ts[k]]
    BY <1>4
  <2> QED BY <2>1, FunctionSequence
<1>6. \A k \in 1..n : ts[k] = s[k].text
  BY <1>4
<1> QED BY <1>2, <1>3, <1>5, <1>6 DEF OfSequences, PartsTold

LEMMA TextsConcat ==
  ASSUME NEW s, NEW t, PartsTold(s), PartsTold(t)
  PROVE  PartsTold(s \o t) /\ FlattenSeq(PartTexts(s \o t)) = FlattenSeq(PartTexts(s)) \o FlattenSeq(PartTexts(t))
<1>0. IsSequence(s) /\ IsSequence(t) /\ Len(s) \in Nat /\ Len(t) \in Nat
  BY SequenceFacts DEF PartsTold
<1>1. PICK u : u = s \o t
  OBVIOUS
<1>2. /\ IsSequence(u) /\ Len(u) = Len(s) + Len(t)
      /\ \A k \in 1..Len(s) : u[k] = s[k]
      /\ \A k \in 1..Len(t) : u[Len(s) + k] = t[k]
  BY <1>0, <1>1, ConcatSequences
<1>3. PartsTold(u)
  <2>1. ASSUME NEW k \in 1..Len(u) PROVE IsSequence(u[k].text)
    <3>1. \/ k \in 1..Len(s) /\ u[k] = s[k]
          \/ k - Len(s) \in 1..Len(t) /\ u[k] = t[k - Len(s)]
      BY <1>0, <1>1, ConcatPlaces
    <3> QED BY <3>1 DEF PartsTold
  <2> QED BY <1>2, <2>1 DEF PartsTold
<1>4. PICK gs, hs, us : gs = PartTexts(s) /\ hs = PartTexts(t) /\ us = PartTexts(u)
  OBVIOUS
<1>5. /\ OfSequences(gs) /\ Len(gs) = Len(s) /\ \A k \in 1..Len(s) : gs[k] = s[k].text
      /\ OfSequences(hs) /\ Len(hs) = Len(t) /\ \A k \in 1..Len(t) : hs[k] = t[k].text
      /\ OfSequences(us) /\ Len(us) = Len(u) /\ \A k \in 1..Len(u) : us[k] = u[k].text
  BY <1>3, <1>4, TextsSequence
<1>6. (\A k \in 1..Len(s) : k \in 1..Len(u)) /\ (\A k \in 1..Len(t) : Len(s) + k \in 1..Len(u))
  BY <1>0, <1>2
<1>7. (\A k \in 1..Len(gs) : us[k] = gs[k]) /\ (\A k \in 1..Len(hs) : us[Len(gs) + k] = hs[k])
  <2>1. \A k \in 1..Len(gs) : us[k] = gs[k]
    BY ONLY <1>2, <1>5, <1>6
  <2>2. \A k \in 1..Len(hs) : us[Len(gs) + k] = hs[k]
    <3>1. ASSUME NEW k \in 1..Len(hs) PROVE us[Len(gs) + k] = hs[k]
      <4>1. k \in 1..Len(t) /\ Len(s) + k \in 1..Len(u)
        BY <1>5, <1>6
      <4>2. u[Len(s) + k] = t[k] /\ hs[k] = t[k].text
        BY <1>2, <1>5, <4>1
      <4>3. us[Len(s) + k] = u[Len(s) + k].text
        BY <1>5, <4>1
      <4> QED BY <1>5, <4>2, <4>3
    <3> QED BY <3>1
  <2> QED BY <2>1, <2>2
<1>8. FlattenSeq(us) = FlattenSeq(gs) \o FlattenSeq(hs)
  <2>1. IsSequence(us)
    BY ONLY <1>5 DEF OfSequences
  <2>2. OfSequences(gs) /\ OfSequences(hs) /\ Len(us) = Len(gs) + Len(hs)
    BY ONLY <1>2, <1>5
  <2> QED BY ONLY <1>7, <2>1, <2>2, GatheredConcat
<1> QED BY <1>1, <1>3, <1>4, <1>8

LEMMA TextsNone == PartsTold(<<>>) /\ FlattenSeq(PartTexts(<<>>)) = <<>>
<1>1. \A k \in 1..Len(<<>>) : FALSE
  BY EmptySequence
<1>2. PartsTold(<<>>)
  BY <1>1, EmptySequence DEF PartsTold
<1>3. PartTexts(<<>>) = <<>>
  <2>1. OfSequences(PartTexts(<<>>)) /\ Len(PartTexts(<<>>)) = Len(<<>>)
    BY <1>2, TextsSequence
  <2> QED BY <2>1, EmptySequence DEF OfSequences
<1> QED BY <1>2, <1>3, FlattenNone

(* The parts of an instruction say what it says.                            *)
LEMMA GeminiPartsSay ==
  ASSUME NEW c, WellFormed(c), TextBlocks(c), NEW s, s = GeminiMessageParts(c)
  PROVE  PartsTold(s) /\ FlattenSeq(PartTexts(s)) = TextOf(c)
<1>1. CASE c.form = "null"
  <2>1. s = <<>> /\ TextOf(c) = <<>>
    BY <1>1 DEF GeminiMessageParts, TextOf
  <2> QED BY <2>1, TextsNone
<1>2. CASE c.form = "string" /\ c.text = <<>>
  <2>1. s = <<>> /\ TextOf(c) = <<>>
    BY <1>2 DEF GeminiMessageParts, TextOf
  <2> QED BY <2>1, TextsNone
<1>3. CASE c.form = "string" /\ c.text # <<>>
  <2>1. PICK p : p = GeminiText(c.text)
    OBVIOUS
  <2>2. p.text = c.text /\ IsSequence(c.text) /\ TextOf(c) = c.text
    BY <1>3, <2>1, WellFormedFacts DEF GeminiText, TextOf
  <2>3. s = <<p>>
    BY <1>3, <2>1 DEF GeminiMessageParts
  <2>4. IsSequence(s) /\ Len(s) = 1 /\ s[1] = p
    BY <2>3, OneSequence
  <2>5. PartsTold(s)
    BY <2>2, <2>4 DEF PartsTold
  <2>6. PICK ts, x : ts = PartTexts(s) /\ x = c.text
    OBVIOUS
  <2>7. OfSequences(ts) /\ Len(ts) = 1 /\ ts[1] = x
    BY <2>2, <2>4, <2>5, <2>6, TextsSequence
  <2>8. ts = <<x>>
    <3>1. PICK xs : xs = <<x>>
      OBVIOUS
    <3>2. IsSequence(xs) /\ Len(xs) = 1 /\ xs[1] = x /\ IsSequence(ts)
      BY <2>7, <3>1, OneSequence DEF OfSequences
    <3>3. \A k \in 1..1 : ts[k] = xs[k]
      BY <2>7, <3>2
    <3>4. ts = xs
      BY <2>7, <3>2, <3>3, SameSequence
    <3> QED BY <3>1, <3>4
  <2> QED BY <2>2, <2>5, <2>6, <2>8, FlattenOne
<1>4. CASE c.form = "array"
  <2>1. PICK b : b = c.parts
    OBVIOUS
  <2>2. IsSequence(b) /\ (\A k \in 1..Len(b) : IsSequence(SaidBy(b[k]))) /\ \A k \in 1..Len(b) : b[k].type = "text"
    BY <1>4, <2>1, WellFormedFacts DEF TextBlocks
  <2>3. DOMAIN b = 1..Len(b) /\ Len(b) \in Nat
    BY <2>2, SequenceFacts
  <2>4. s = [k \in 1..Len(b) |-> GeminiPart(b[k])]
    BY <1>4, <2>1, <2>3 DEF GeminiMessageParts, Apply
  <2>5. \A k \in 1..Len(b) : s[k].text = b[k].text /\ SaidBy(b[k]) = b[k].text
    BY <2>2, <2>4 DEF GeminiPart, GeminiText, SaidBy
  <2>6. IsSequence(s) /\ Len(s) = Len(b)
    BY <2>3, <2>4, FunctionSequence
  <2>7. PartsTold(s)
    BY <2>2, <2>5, <2>6 DEF PartsTold
  <2>8. PartTexts(s) = [k \in 1..Len(b) |-> SaidBy(b[k])]
    BY <2>5, <2>6 DEF PartTexts
  <2>9. FlattenSeq(PartTexts(s)) = Saying(b)
    BY <2>8 DEF Saying
  <2>10. Joined(b) = Saying(b)
    <3>1. \A k \in 1..Len(b) : b[k].type # "tool_result"
      BY <2>2
    <3> QED BY <2>2, <3>1, JoinedSays
  <2> QED BY <1>4, <2>1, <2>7, <2>9, <2>10 DEF TextOf
<1>5. c.form \in {"null", "string", "array"}
  BY WellFormedFacts
<1> QED BY <1>1, <1>2, <1>3, <1>4, <1>5

(* The parts of a turn carry the texts of its content, and nothing for its  *)
(* calls.                                                                   *)
LEMMA GeminiPartsCarry ==
  ASSUME NEW c, WellFormed(c), NEW s, s = GeminiMessageParts(c)
  PROVE  Carries("part", s, TextOf(c))
<1>1. CASE c.form = "null" \/ (c.form = "string" /\ c.text = <<>>)
  <2>1. s = <<>> /\ TextOf(c) = <<>>
    BY <1>1 DEF GeminiMessageParts, TextOf
  <2> QED BY <2>1, CarriesNone
<1>2. CASE c.form = "string" /\ c.text # <<>>
  <2>1. PICK p : p = GeminiText(c.text)
    OBVIOUS
  <2>2. p.type = "text" /\ p.text = c.text /\ IsSequence(c.text) /\ TextOf(c) = c.text
    BY <1>2, <2>1, WellFormedFacts DEF GeminiText, TextOf
  <2>3. s = <<p>>
    BY <1>2, <2>1 DEF GeminiMessageParts
  <2>4. TextIn("part", p) = c.text
    BY <2>2 DEF TextIn, SaidByPart
  <2> QED BY <2>2, <2>3, <2>4, CarriesOne
<1>3. CASE c.form = "array"
  <2>1. PICK b : b = c.parts
    OBVIOUS
  <2>2. IsSequence(b) /\ \A k \in 1..Len(b) : IsSequence(SaidBy(b[k]))
    BY <1>3, <2>1, WellFormedFacts
  <2>3. DOMAIN b = 1..Len(b) /\ Len(b) \in Nat
    BY <2>2, SequenceFacts
  <2>4. s = [k \in 1..Len(b) |-> GeminiPart(b[k])]
    BY <1>3, <2>1, <2>3 DEF GeminiMessageParts, Apply
  <2>5. IsSequence(s) /\ Len(s) = Len(b)
    BY <2>3, <2>4, FunctionSequence
  <2>6. \A p : TextIn("part", GeminiPart(p)) = IF p.type = "text" THEN p.text ELSE <<>>
    <3>1. ASSUME NEW p, p.type = "text" PROVE TextIn("part", GeminiPart(p)) = p.text
      <4>1. GeminiPart(p) = GeminiText(p.text)
        BY <3>1 DEF GeminiPart
      <4>2. GeminiText(p.text).type = "text" /\ GeminiText(p.text).text = p.text
        BY DEF GeminiText
      <4> QED BY <4>1, <4>2 DEF TextIn, SaidByPart
    <3>2. ASSUME NEW p, p.type # "text" PROVE TextIn("part", GeminiPart(p)) = <<>>
      <4>1. GeminiPart(p) = InlineData
        BY <3>2 DEF GeminiPart
      <4>2. InlineData.type = "inlineData"
        BY DEF InlineData
      <4> QED BY <4>1, <4>2 DEF TextIn, SaidByPart
    <3> QED BY <3>1, <3>2
  <2>7. \A k \in 1..Len(b) : TextIn("part", s[k]) = IF b[k].type = "text" THEN b[k].text ELSE <<>>
    BY <2>4, <2>6
  <2>8. PICK ts : ts = TextsIn("part", s)
    OBVIOUS
  <2>9. IsSequence(ts) /\ Len(ts) = Len(b) /\ \A k \in 1..Len(b) : ts[k] = TextIn("part", s[k])
    BY <2>5, <2>8, TextsInAre
  <2>10. ts = [k \in 1..Len(b) |-> IF b[k].type = "text" THEN b[k].text ELSE <<>>]
    BY <2>7, <2>9 DEF IsSequence
  <2>11. OfSequences(ts)
    BY <2>2, <2>7, <2>9, EmptySequence DEF OfSequences, SaidBy
  <2>12. FlattenSeq(ts) = Joined(b)
    BY <2>2, <2>10, JoinedFormed
  <2> QED BY <1>3, <2>1, <2>5, <2>8, <2>11, <2>12 DEF Carries, TextOf
<1> QED BY <1>1, <1>2, <1>3, WellFormedFacts

LEMMA GeminiCallsCarry ==
  ASSUME NEW calls, IsSequence(calls)
  PROVE  Carries("part", Apply(LAMBDA c : GeminiCall(c.id, c.name), calls), <<>>)
<1>1. DOMAIN calls = 1..Len(calls) /\ Len(calls) \in Nat
  BY SequenceFacts
<1>2. PICK made : made = [k \in 1..Len(calls) |-> GeminiCall(calls[k].id, calls[k].name)]
  OBVIOUS
<1>3. Apply(LAMBDA c : GeminiCall(c.id, c.name), calls) = made
  BY <1>1, <1>2 DEF Apply
<1>4. IsSequence(made) /\ Len(made) = Len(calls)
  BY <1>1, <1>2, FunctionSequence
<1>5. \A id, name : TextIn("part", GeminiCall(id, name)) = <<>>
  <2>1. \A id, name : GeminiCall(id, name).type = "functionCall"
    BY DEF GeminiCall
  <2>2. ASSUME NEW p, p.type = "functionCall" PROVE TextIn("part", p) = <<>>
    BY <2>2 DEF TextIn, SaidByPart
  <2> QED BY <2>1, <2>2
<1>6. \A k \in 1..Len(made) : TextIn("part", made[k]) = <<>>
  BY <1>2, <1>4, <1>5
<1> QED BY <1>3, <1>4, <1>6, CarriesSilent

(* The contents so far, their parts, and what adds to them: a content after *)
(* the last, or a part in it.                                               *)
ContentsFormed(cs) ==
  /\ IsSequence(cs)
  /\ \A k \in 1..Len(cs) : cs[k] = [role |-> cs[k].role, parts |-> cs[k].parts] /\ IsSequence(cs[k].parts)
PartLists(cs) == [k \in 1..Len(cs) |-> cs[k].parts]

LEMMA PartListsAre ==
  ASSUME NEW cs, ContentsFormed(cs)
  PROVE  /\ OfSequences(PartLists(cs)) /\ Len(PartLists(cs)) = Len(cs) /\ Len(cs) \in Nat
         /\ \A k \in 1..Len(cs) : PartLists(cs)[k] = cs[k].parts
         /\ GeminiParts(cs) = FlattenSeq(PartLists(cs))
<1>1. Len(cs) \in Nat /\ DOMAIN cs = 1..Len(cs)
  BY SequenceFacts DEF ContentsFormed
<1>2. PICK gs : gs = [k \in 1..Len(cs) |-> cs[k].parts]
  OBVIOUS
<1>3. IsSequence(gs) /\ Len(gs) = Len(cs) /\ \A k \in 1..Len(cs) : gs[k] = cs[k].parts
  BY <1>1, <1>2, FunctionSequence
<1>4. OfSequences(gs)
  BY <1>3 DEF OfSequences, ContentsFormed
<1>5. Apply(LAMBDA c : c.parts, cs) = gs
  BY <1>1, <1>2 DEF Apply
<1>6. PartLists(cs) = gs
  BY <1>2 DEF PartLists
<1> QED BY <1>1, <1>3, <1>4, <1>5, <1>6 DEF GeminiParts

LEMMA ContentAdded ==
  ASSUME NEW cs, ContentsFormed(cs), NEW role, NEW ps, IsSequence(ps),
         NEW ds, ds = Append(cs, [role |-> role, parts |-> ps])
  PROVE  ContentsFormed(ds) /\ GeminiParts(ds) = GeminiParts(cs) \o ps
<1>1. PICK c : c = [role |-> role, parts |-> ps]
  OBVIOUS
<1>2. c = [role |-> c.role, parts |-> c.parts] /\ c.parts = ps
  BY <1>1
<1>3. PICK n \in Nat : n = Len(cs)
  BY PartListsAre
<1>4. /\ IsSequence(ds) /\ Len(ds) = n + 1 /\ ds[n + 1] = c
      /\ \A k \in 1..n : ds[k] = cs[k]
  BY <1>1, <1>3, AppendFacts DEF ContentsFormed
<1>5. \A k \in 1..(n + 1) : k \in 1..n \/ k = n + 1
  OBVIOUS
<1>6. ContentsFormed(ds)
  BY <1>2, <1>3, <1>4, <1>5 DEF ContentsFormed
<1>7. PICK gs, hs : gs = PartLists(cs) /\ hs = PartLists(ds)
  OBVIOUS
<1>8. /\ OfSequences(gs) /\ Len(gs) = n /\ GeminiParts(cs) = FlattenSeq(gs)
      /\ \A k \in 1..n : gs[k] = cs[k].parts
  BY <1>3, <1>7, PartListsAre
<1>9. /\ OfSequences(hs) /\ Len(hs) = n + 1 /\ GeminiParts(ds) = FlattenSeq(hs)
      /\ \A k \in 1..(n + 1) : hs[k] = ds[k].parts
  BY <1>4, <1>6, <1>7, PartListsAre
<1>10. (\A k \in 1..n : hs[k] = gs[k]) /\ hs[n + 1] = ps
  BY <1>2, <1>4, <1>8, <1>9
<1>11. FlattenSeq(hs) = FlattenSeq(gs) \o hs[n + 1]
  BY <1>8, <1>9, <1>10, FlattenGrown DEF OfSequences
<1> QED BY <1>6, <1>8, <1>9, <1>10, <1>11

LEMMA PartJoined ==
  ASSUME NEW cs, ContentsFormed(cs), cs # <<>>, NEW x, NEW ds, ds = [cs EXCEPT ![Len(cs)].parts = Append(@, x)]
  PROVE  ContentsFormed(ds) /\ GeminiParts(ds) = GeminiParts(cs) \o <<x>>
<1>1. Len(cs) \in Nat /\ Len(cs) # 0 /\ DOMAIN cs = 1..Len(cs)
  BY EmptySequence, SequenceFacts DEF ContentsFormed
<1>2. PICK n \in Nat : Len(cs) = n + 1
  <2>1. Len(cs) - 1 \in Nat /\ Len(cs) = (Len(cs) - 1) + 1
    BY <1>1
  <2> QED BY <2>1
<1>3. PICK c, ps : c = cs[n + 1] /\ ps = c.parts
  OBVIOUS
<1>4. c = [role |-> c.role, parts |-> ps] /\ IsSequence(ps)
  BY <1>2, <1>3 DEF ContentsFormed
<1>5. PICK d : d = [c EXCEPT !.parts = Append(ps, x)]
  OBVIOUS
<1>6. d = [role |-> c.role, parts |-> Append(ps, x)]
  BY ONLY <1>4, <1>5
<1>7. ds = [cs EXCEPT ![n + 1] = d]
  BY <1>2, <1>3, <1>5
<1>8. DOMAIN ds = 1..(n + 1) /\ ds = [k \in 1..(n + 1) |-> ds[k]] /\ ds[n + 1] = d /\ \A k \in 1..n : ds[k] = cs[k]
  <2>1. DOMAIN cs = 1..(n + 1) /\ n + 1 \in 1..(n + 1)
    BY <1>1, <1>2
  <2>2. \A k \in 1..n : k \in 1..(n + 1) /\ k # n + 1
    OBVIOUS
  <2>3. ds = [k \in 1..(n + 1) |-> IF k = n + 1 THEN d ELSE cs[k]]
    BY ONLY <1>7, <2>1
  <2> QED BY ONLY <2>1, <2>2, <2>3
<1>9. IsSequence(ds) /\ Len(ds) = n + 1
  BY ONLY n \in Nat, <1>2, <1>8, FunctionSequence
<1>10. d = [role |-> d.role, parts |-> d.parts] /\ d.parts = ps \o <<x>> /\ IsSequence(d.parts)
  BY <1>4, <1>6, AppendSequence
<1>11. \A k \in 1..(n + 1) : k \in 1..n \/ k = n + 1
  OBVIOUS
<1>12. ContentsFormed(ds)
  BY <1>2, <1>8, <1>9, <1>10, <1>11 DEF ContentsFormed
<1>13. PICK gs, hs : gs = PartLists(cs) /\ hs = PartLists(ds)
  OBVIOUS
<1>14. /\ OfSequences(gs) /\ Len(gs) = n + 1 /\ GeminiParts(cs) = FlattenSeq(gs)
       /\ \A k \in 1..(n + 1) : gs[k] = cs[k].parts
  BY <1>2, <1>13, PartListsAre
<1>15. /\ OfSequences(hs) /\ Len(hs) = n + 1 /\ GeminiParts(ds) = FlattenSeq(hs)
       /\ \A k \in 1..(n + 1) : hs[k] = ds[k].parts
  BY <1>9, <1>12, <1>13, PartListsAre
<1>16. \A k \in 1..n : hs[k] = gs[k]
  BY <1>8, <1>14, <1>15
<1>17. gs[n + 1] = ps /\ hs[n + 1] = ps \o <<x>>
  <2>1. n + 1 \in 1..(n + 1)
    OBVIOUS
  <2>2. gs[n + 1] = cs[n + 1].parts /\ hs[n + 1] = ds[n + 1].parts
    BY ONLY <1>14, <1>15, <2>1
  <2> QED BY ONLY <1>3, <1>8, <1>10, <2>2
<1>18. PICK more : more = <<x>> /\ IsSequence(more)
  BY OneSequence
<1>19. FlattenSeq(hs) = FlattenSeq(gs) \o more
  BY ONLY <1>14, <1>15, <1>16, <1>17, <1>18, FlattenLonger
<1> QED BY <1>12, <1>14, <1>15, <1>18, <1>19

(* The parts that a message adds to the contents carry what it says.        *)
Adds(cs, ds, said) ==
  ContentsFormed(ds) /\ \E ps : Carries("part", ps, said) /\ GeminiParts(ds) = GeminiParts(cs) \o ps

LEMMA ResultAdds ==
  ASSUME NEW st, GeminiForm(st), ContentsFormed(st.contents), NEW m, IsSequence(TextOf(m.content)),
         NEW t, t = GeminiResult(st, m), ~t.refused
  PROVE  Adds(st.contents, t.contents, TextOf(m.content))
<1>1. m.id \in DOMAIN st.names
  <2>1. SUFFICES ASSUME m.id \notin DOMAIN st.names PROVE FALSE
    OBVIOUS
  <2>2. t = Refuse(st)
    BY <2>1, Zenon DEF GeminiResult
  <2>3. t = [contents |-> st.contents, system |-> st.system, names |-> st.names, refused |-> TRUE]
    BY <2>2, Zenon DEF Refuse, GeminiForm
  <2> QED BY <2>3
<1>2. PICK x : x = GeminiResponse(m.id, st.names[m.id], TextOf(m.content))
  OBVIOUS
<1>3. x.type = "functionResponse" /\ x.text = TextOf(m.content)
  BY <1>2 DEF GeminiResponse
<1>4. Carries("part", <<x>>, TextOf(m.content))
  <2>1. TextIn("part", x) = TextOf(m.content)
    BY <1>3 DEF TextIn, SaidByPart
  <2> QED BY <2>1, CarriesOne
<1>5. PICK cs : cs = st.contents
  OBVIOUS
<1>6. PICK ds : ds = WithResponse(cs, x)
  OBVIOUS
<1>7. t = [st EXCEPT !.contents = ds]
  BY ONLY t = GeminiResult(st, m), <1>1, <1>2, <1>5, <1>6 DEF GeminiResult
<1>8. t = [contents |-> ds, system |-> st.system, names |-> st.names, refused |-> st.refused]
  BY ONLY GeminiForm(st), <1>7 DEF GeminiForm
<1>9. t.contents = ds
  BY ONLY <1>8
<1>10. ContentsFormed(ds) /\ GeminiParts(ds) = GeminiParts(cs) \o <<x>>
  <2>1. CASE cs # <<>> /\ Last(cs).role = "user"
    <3>1. ds = [cs EXCEPT ![Len(cs)].parts = Append(@, x)]
      BY ONLY <1>6, <2>1 DEF WithResponse
    <3> QED BY <1>5, <2>1, <3>1, PartJoined
  <2>2. CASE ~(cs # <<>> /\ Last(cs).role = "user")
    <3>1. PICK ps : ps = <<x>>
      OBVIOUS
    <3>2. IsSequence(ps)
      BY <3>1, OneSequence
    <3>3. ds = Append(cs, [role |-> "user", parts |-> ps])
      BY ONLY <1>6, <2>2, <3>1 DEF WithResponse
    <3>4. ContentsFormed(ds) /\ GeminiParts(ds) = GeminiParts(cs) \o ps
      BY <1>5, <3>2, <3>3, ContentAdded
    <3> QED BY <3>1, <3>4
  <2> QED BY <2>1, <2>2
<1> QED BY <1>4, <1>5, <1>9, <1>10 DEF Adds

LEMMA NothingAdds ==
  ASSUME NEW cs, ContentsFormed(cs)
  PROVE  Adds(cs, cs, <<>>)
<1>1. PICK ps : ps = GeminiParts(cs)
  OBVIOUS
<1>2. IsSequence(ps)
  BY <1>1, PartListsAre, FlattenSequence
<1>3. ps \o <<>> = ps
  BY <1>2, ConcatEmpty
<1> QED BY <1>1, <1>3, CarriesNone DEF Adds

LEMMA TurnAdds ==
  ASSUME NEW st, GeminiForm(st), ContentsFormed(st.contents), NEW m, WellFormed(m.content), IsSequence(m.calls),
         NEW t, t = GeminiTurn(st, m), ~t.refused
  PROVE  Adds(st.contents, t.contents, TextOf(m.content))
<1>1. CallsUsable(st, m.calls)
  <2>1. SUFFICES ASSUME ~CallsUsable(st, m.calls) PROVE FALSE
    OBVIOUS
  <2>2. t = Refuse(st)
    BY <2>1 DEF GeminiTurn
  <2>3. t = [contents |-> st.contents, system |-> st.system, names |-> st.names, refused |-> TRUE]
    BY <2>2 DEF Refuse, GeminiForm
  <2> QED BY <2>3
<1>2. PICK us, vs : us = GeminiMessageParts(m.content) /\ vs = Apply(LAMBDA c : GeminiCall(c.id, c.name), m.calls)
  OBVIOUS
<1>3. Carries("part", us, TextOf(m.content)) /\ Carries("part", vs, <<>>)
  BY <1>2, GeminiPartsCarry, GeminiCallsCarry
<1>4. PICK parts : parts = us \o vs
  OBVIOUS
<1>5. Carries("part", parts, TextOf(m.content))
  <2>1. Carries("part", us \o vs, TextOf(m.content) \o <<>>)
    BY <1>3, CarriesBoth
  <2>2. TextOf(m.content) \o <<>> = TextOf(m.content)
    BY ContentSays, ConcatEmpty
  <2> QED BY <1>4, <2>1, <2>2
<1>6. PICK cs : cs = st.contents
  OBVIOUS
<1>7. PICK ds : ds = IF parts = <<>> THEN cs
                     ELSE Append(cs, [role |-> IF m.role = "assistant" THEN "model" ELSE "user", parts |-> parts])
  OBVIOUS
<1>8. t.contents = ds
  <2>1. PICK ns : t = [st EXCEPT !.names = ns, !.contents = ds]
    <3>1. PICK ids, old : ids = {m.calls[i].id : i \in DOMAIN m.calls} /\ old = st.names
      OBVIOUS
    <3>2. PICK ns : ns = [id \in ids \cup DOMAIN old |->
                            IF id \in ids THEN m.calls[CHOOSE i \in DOMAIN m.calls : m.calls[i].id = id].name ELSE old[id]]
      OBVIOUS
    <3>3. parts = GeminiMessageParts(m.content) \o Apply(LAMBDA c : GeminiCall(c.id, c.name), m.calls)
      BY <1>2, <1>4
    <3>4. t = [st EXCEPT !.names = ns, !.contents = ds]
      BY ONLY t = GeminiTurn(st, m), <1>1, <1>6, <1>7, <3>1, <3>2, <3>3 DEF GeminiTurn
    <3> QED BY <3>4
  <2>2. t = [contents |-> ds, system |-> st.system, names |-> ns, refused |-> st.refused]
    BY ONLY GeminiForm(st), <2>1 DEF GeminiForm
  <2> QED BY ONLY <2>2
<1>9. CASE parts = <<>>
  <2>1. TextOf(m.content) = <<>>
    <3>1. PICK said : said = TextOf(m.content)
      OBVIOUS
    <3>2. Carries("part", <<>>, said) /\ Carries("part", <<>>, <<>>)
      BY <1>5, <1>9, <3>1, CarriesNone
    <3> QED BY <3>1, <3>2 DEF Carries
  <2> QED BY <1>6, <1>7, <1>8, <1>9, <2>1, NothingAdds
<1>10. CASE parts # <<>>
  <2>1. PICK role : ds = Append(cs, [role |-> role, parts |-> parts])
    BY <1>7, <1>10
  <2>2. IsSequence(parts)
    BY <1>5 DEF Carries
  <2>3. ContentsFormed(ds) /\ GeminiParts(ds) = GeminiParts(cs) \o parts
    BY <1>6, <2>1, <2>2, ContentAdded
  <2> QED BY <1>5, <1>6, <1>8, <2>3 DEF Adds
<1> QED BY <1>9, <1>10

LEMMA MessageAdds ==
  ASSUME NEW st, GeminiForm(st), ContentsFormed(st.contents), NEW m, WellFormed(m.content), Legible(m),
         NEW t, t = GeminiMessage(st, m), ~t.refused
  PROVE  Adds(st.contents, t.contents, Voice(m))
<1>1. IsSequence(m.calls) /\ SaidIn(m.content) = TextOf(m.content) /\ IsSequence(TextOf(m.content))
  BY ContentSays DEF Legible
<1>2. GeminiSystem(st, m, t) /\ GeminiForm(t) /\ (st.refused \/ GeminiNames(st, m, t))
  BY GeminiStep
<1>3. ~st.refused
  BY <1>2 DEF GeminiSystem
<1>4. CASE m.role = "tool"
  <2>1. ~Instructs(m)
    BY <1>4 DEF Instructs
  <2>2. t = GeminiResult(st, m)
    BY ONLY t = GeminiMessage(st, m), <1>3, <1>4, <2>1 DEF GeminiMessage
  <2>3. Voice(m) = TextOf(m.content)
    BY <1>1, <2>1, Zenon DEF Voice
  <2> QED BY <1>1, <2>2, <2>3, ResultAdds
<1>5. CASE m.role # "tool"
  <2>1. Representable(m.content)
    BY <1>2, <1>3, <1>5 DEF GeminiNames
  <2>2. CASE Instructs(m)
    <3>1. t = [st EXCEPT !.system = @ \o GeminiMessageParts(m.content)]
      <4>1. m.role \notin {"user", "assistant"}
        BY <2>2 DEF Instructs
      <4> QED BY ONLY t = GeminiMessage(st, m), <1>3, <1>5, <2>1, <2>2, <4>1 DEF GeminiMessage
    <3>2. t = [contents |-> st.contents, system |-> st.system \o GeminiMessageParts(m.content),
               names |-> st.names, refused |-> st.refused]
      BY ONLY GeminiForm(st), <3>1 DEF GeminiForm
    <3>3. t.contents = st.contents
      BY ONLY <3>2
    <3>4. Voice(m) = <<>>
      BY <2>2, Zenon DEF Voice
    <3> QED BY <3>3, <3>4, NothingAdds
  <2>3. CASE ~Instructs(m) /\ m.role \in {"user", "assistant"}
    <3>1. t = GeminiTurn(st, m)
      BY <1>3, <2>1, <2>3 DEF GeminiMessage
    <3>2. Voice(m) = TextOf(m.content)
      BY <1>1, <2>3, Zenon DEF Voice
    <3> QED BY <1>1, <3>1, <3>2, TurnAdds
  <2>4. CASE ~Instructs(m) /\ m.role \notin {"user", "assistant"}
    <3>1. t = Refuse(st)
      BY <1>3, <1>5, <2>1, <2>4 DEF GeminiMessage
    <3>2. t = [contents |-> st.contents, system |-> st.system, names |-> st.names, refused |-> TRUE]
      BY <3>1 DEF Refuse, GeminiForm
    <3> QED BY ONLY <3>2, ~t.refused
  <2> QED BY <2>2, <2>3, <2>4
<1> QED BY <1>4, <1>5

(* The state after n messages: unless it refused them, its system parts say *)
(* what they instructed, and the parts of its contents what they said.      *)
GeminiTells(st, ms) ==
  /\ GeminiForm(st)
  /\ ~st.refused =>
       /\ PartsTold(st.system) /\ FlattenSeq(PartTexts(st.system)) = Orders(ms)
       /\ ContentsFormed(st.contents) /\ Carries("part", GeminiParts(st.contents), Voices(ms))

LEMMA GeminiTellsFirst == GeminiTells(GeminiStart, <<>>)
<1>1. PICK none : none = <<>>
  OBVIOUS
<1>2. GeminiStart = [contents |-> none, system |-> none, names |-> none, refused |-> FALSE]
  BY <1>1 DEF GeminiStart
<1>3. GeminiForm(GeminiStart) /\ GeminiStart.system = none /\ GeminiStart.contents = none
  BY <1>2 DEF GeminiForm
<1>4. ContentsFormed(none)
  <2>1. \A k \in 1..0 : FALSE
    OBVIOUS
  <2> QED BY <1>1, <2>1, EmptySequence DEF ContentsFormed
<1>5. GeminiParts(none) = <<>>
  <2>1. OfSequences(PartLists(none)) /\ Len(PartLists(none)) = 0 /\ GeminiParts(none) = FlattenSeq(PartLists(none))
    BY <1>1, <1>4, PartListsAre, EmptySequence
  <2>2. PartLists(none) = <<>>
    BY <2>1, EmptySequence DEF OfSequences
  <2> QED BY <2>1, <2>2, FlattenNone
<1> QED BY <1>1, <1>3, <1>4, <1>5, TextsNone, VoicesNone, CarriesNone DEF GeminiTells

LEMMA GeminiTellsNext ==
  ASSUME NEW ms, IsSequence(ms), \A k \in 1..Len(ms) : WellFormed(ms[k].content),
         NEW m, WellFormed(m.content), Legible(m), Instructs(m) => TextBlocks(m.content),
         NEW st, GeminiTells(st, ms)
  PROVE  GeminiTells(GeminiMessage(st, m), Append(ms, m))
<1>1. PICK t : t = GeminiMessage(st, m)
  OBVIOUS
<1>2. /\ GeminiForm(t)
      /\ st.refused => t = st
      /\ ~Instructs(m) => t.system = st.system
      /\ Instructs(m) /\ ~t.refused => t.system = st.system \o GeminiMessageParts(m.content)
  <2>1. GeminiForm(st)
    BY DEF GeminiTells
  <2>2. GeminiForm(t) /\ GeminiSystem(st, m, t)
    BY ONLY <1>1, <2>1, GeminiStep
  <2> QED BY ONLY <2>2 DEF GeminiSystem
<1>3. SUFFICES ASSUME ~t.refused
               PROVE  /\ PartsTold(t.system) /\ FlattenSeq(PartTexts(t.system)) = Orders(Append(ms, m))
                      /\ ContentsFormed(t.contents)
                      /\ Carries("part", GeminiParts(t.contents), Voices(Append(ms, m)))
  BY <1>1, <1>2 DEF GeminiTells
<1>4. /\ PartsTold(st.system) /\ FlattenSeq(PartTexts(st.system)) = Orders(ms)
      /\ ContentsFormed(st.contents) /\ Carries("part", GeminiParts(st.contents), Voices(ms))
  BY <1>2, <1>3 DEF GeminiTells
<1>8. ContentsFormed(t.contents) /\ Carries("part", GeminiParts(t.contents), Voices(Append(ms, m)))
  <2>1. GeminiForm(st)
    BY DEF GeminiTells
  <2>2. Adds(st.contents, t.contents, Voice(m))
    BY <1>1, <1>3, <1>4, <2>1, MessageAdds
  <2>3. PICK ps : ContentsFormed(t.contents) /\ Carries("part", ps, Voice(m))
                  /\ GeminiParts(t.contents) = GeminiParts(st.contents) \o ps
    BY <2>2 DEF Adds
  <2>4. Voices(Append(ms, m)) = Voices(ms) \o Voice(m)
    BY VoicesMore
  <2> QED BY <1>4, <2>3, <2>4, CarriesBoth
<1>5. Orders(Append(ms, m)) = Orders(ms) \o Order(m) /\ IsSequence(Orders(ms))
  BY VoicesMore, VoicesAre
<1>6. CASE ~Instructs(m)
  <2>1. Order(m) = <<>>
    BY <1>6 DEF Order
  <2> QED BY <1>2, <1>4, <1>5, <1>6, <1>8, <2>1, ConcatEmpty
<1>7. CASE Instructs(m)
  <2>1. PICK s, u : s = st.system /\ u = GeminiMessageParts(m.content)
    OBVIOUS
  <2>2. PartsTold(u) /\ FlattenSeq(PartTexts(u)) = TextOf(m.content)
    BY <1>7, <2>1, GeminiPartsSay
  <2>3. Order(m) = TextOf(m.content)
    BY <1>7 DEF Order
  <2>4. PartsTold(s \o u) /\ FlattenSeq(PartTexts(s \o u)) = FlattenSeq(PartTexts(s)) \o FlattenSeq(PartTexts(u))
    BY <1>4, <2>1, <2>2, TextsConcat
  <2> QED BY <1>2, <1>3, <1>4, <1>5, <1>7, <1>8, <2>1, <2>2, <2>3, <2>4
<1> QED BY <1>6, <1>7

LEMMA GeminiTold ==
  ASSUME NEW ms, IsSequence(ms),
         \A k \in 1..Len(ms) : /\ WellFormed(ms[k].content) /\ Legible(ms[k])
                               /\ Instructs(ms[k]) => TextBlocks(ms[k].content)
  PROVE  GeminiTells(GeminiRun(ms), ms)
<1> DEFINE Tells(n) == GeminiTells(GeminiRun(First(ms, n)), First(ms, n))
           S == {n \in Nat : Tells(n)}
<1>0. Len(ms) \in Nat
  BY SequenceFacts
<1>1. 0 \in S
  BY FirstFacts, GeminiRunStep, GeminiTellsFirst
<1>2. ASSUME NEW n \in Nat, n + 1 <= Len(ms), n \in S PROVE n + 1 \in S
  <2>1. PICK fs, gs, m : fs = First(ms, n) /\ gs = First(ms, n + 1) /\ m = ms[n + 1]
    OBVIOUS
  <2>2. n \in 0..Len(ms) /\ n + 1 \in 1..Len(ms) /\ n + 1 \in Nat
    BY <1>0, <1>2
  <2>3. IsSequence(fs) /\ Len(fs) = n /\ gs = Append(fs, m)
    BY <1>2, <2>1, <2>2, FirstFacts
  <2>4. \A k \in 1..Len(fs) : fs[k] = ms[k] /\ k \in 1..Len(ms)
    <3>1. \A k \in 1..n : k \in 1..Len(ms)
      BY <2>2
    <3> QED BY <2>1, <2>3, <3>1 DEF First
  <2>5. /\ \A k \in 1..Len(fs) : WellFormed(fs[k].content)
        /\ WellFormed(m.content) /\ Legible(m) /\ (Instructs(m) => TextBlocks(m.content))
    BY <2>1, <2>2, <2>4
  <2>6. PICK st : st = GeminiRun(fs)
    OBVIOUS
  <2>7. GeminiTells(st, fs)
    BY <1>2, <2>1, <2>6
  <2>8. GeminiTells(GeminiMessage(st, m), Append(fs, m))
    BY ONLY <2>3, <2>5, <2>7, GeminiTellsNext
  <2>9. GeminiRun(gs) = GeminiMessage(st, m)
    BY <2>3, <2>6, GeminiRunStep
  <2>10. Tells(n + 1)
    BY <2>1, <2>3, <2>8, <2>9
  <2> HIDE DEF Tells
  <2> QED BY <2>2, <2>10
<1> HIDE DEF S
<1>3. Len(ms) \in S
  BY <1>0, <1>1, <1>2, GrowInduction
<1>4. First(ms, Len(ms)) = ms
  BY FirstFacts
<1> QED BY <1>3, <1>4 DEF S

(* A request that Gemini is sent instructs it as the client did, and says   *)
(* what the client said.                                                    *)
LEMMA ChatToldGemini ==
  ASSUME TalkInv, AwaitInv, AnthropicInv, Sent, ~ToGemini.refused
  PROVE  /\ FlattenSeq(Apply(LAMBDA p : p.text, ToGemini.system)) = SystemText
         /\ FlattenSeq(Apply(SaidByPart, GeminiParts(ToGemini.contents))) = Speech(Spoken(talk))
<1>1. PICK ms : ms = ToChat.messages
  OBVIOUS
<1>2. PICK st : st = GeminiRun(ms)
  OBVIOUS
<1>3. ToGemini.system = st.system /\ ToGemini.contents = st.contents /\ (st.refused => ToGemini.refused)
  BY <1>1, <1>2 DEF ToGemini, OpenAIToGeminiBody, GeminiRun, GeminiStart
<1>4. Becomes(ms, Voices(talk), SystemText)
  BY <1>1, ChatBecomes
<1>5. GeminiTells(st, ms)
  BY <1>2, <1>4, GeminiTold DEF Becomes
<1>6. PICK s : s = st.system
  OBVIOUS
<1>7. PartsTold(s) /\ FlattenSeq(PartTexts(s)) = SystemText
  BY <1>3, <1>4, <1>5, <1>6 DEF GeminiTells, Becomes
<1>8. Apply(LAMBDA p : p.text, s) = PartTexts(s)
  <2>1. DOMAIN s = 1..Len(s)
    BY <1>7, SequenceFacts DEF PartsTold
  <2> QED BY <2>1 DEF Apply, PartTexts
<1>9. Carries("part", GeminiParts(st.contents), Voices(talk))
  BY <1>3, <1>4, <1>5 DEF GeminiTells, Becomes
<1>10. Speech(Spoken(talk)) = Voices(talk)
  BY SaidByClient DEF TalkInv
<1> QED BY <1>3, <1>6, <1>7, <1>8, <1>9, <1>10, CarriedIs

(* A conversation has used the first ids.                                   *)
FirstIds(n) == {CallIds[j] : j \in 1..n}

LEMMA CallIdsAre ==
  /\ IsSequence(CallIds) /\ Len(CallIds) \in Nat /\ DOMAIN CallIds = 1..Len(CallIds)
  /\ \A j \in 1..Len(CallIds) : CallIds[j] # ""
  /\ \A i, j \in 1..Len(CallIds) : CallIds[i] = CallIds[j] => i = j
<1>1. CallIds \in Seq(Range(CallIds)) /\ IsInjective(CallIds) /\ "" \notin Range(CallIds)
  BY CallIdsAssumption
<1>2. IsSequence(CallIds) /\ Len(CallIds) \in Nat /\ DOMAIN CallIds = 1..Len(CallIds)
  <2>1. IsSequence(CallIds)
    BY <1>1, TypedSequence
  <2> QED BY <2>1, SequenceFacts
<1> QED BY <1>1, <1>2 DEF IsInjective, Range

LEMMA FirstIdsCounted ==
  ASSUME NEW n \in Nat, n <= Len(CallIds)
  PROVE  IsFiniteSet(FirstIds(n)) /\ Cardinality(FirstIds(n)) = n
<1> DEFINE P(k) == k <= Len(CallIds) => IsFiniteSet(FirstIds(k)) /\ Cardinality(FirstIds(k)) = k
           S == {k \in Nat : P(k)}
<1>1. 0 \in S
  <2>1. FirstIds(0) = {}
    BY DEF FirstIds
  <2> QED BY <2>1, FS_EmptySet
<1>2. ASSUME NEW k \in Nat, k \in S PROVE k + 1 \in S
  <2>1. P(k + 1)
    <3>1. SUFFICES ASSUME k + 1 <= Len(CallIds)
                   PROVE  IsFiniteSet(FirstIds(k + 1)) /\ Cardinality(FirstIds(k + 1)) = k + 1
      OBVIOUS
    <3>2. k <= Len(CallIds) /\ k + 1 \in 1..Len(CallIds) /\ \A j \in 1..k : j \in 1..Len(CallIds) /\ j # k + 1
      <4>1. Len(CallIds) \in Nat
        BY CallIdsAre
      <4> QED BY <3>1, <4>1
    <3>3. PICK F, x : F = FirstIds(k) /\ x = CallIds[k + 1]
      OBVIOUS
    <3>4. IsFiniteSet(F) /\ Cardinality(F) = k
      BY <1>2, <3>2, <3>3
    <3>5. FirstIds(k + 1) = F \cup {x}
      <4>1. \A j : j \in 1..(k + 1) <=> j \in 1..k \/ j = k + 1
        OBVIOUS
      <4> QED BY <3>3, <4>1 DEF FirstIds
    <3>6. x \notin F
      BY <3>2, <3>3, CallIdsAre DEF FirstIds
    <3> QED BY <3>4, <3>5, <3>6, FS_AddElement
  <2> HIDE DEF P
  <2> QED BY <2>1
<1> HIDE DEF S
<1>3. n \in S
  BY <1>1, <1>2, NatSetInduction
<1> QED BY <1>3 DEF S

(* The ids of a message of a chat are those of its calls.                   *)
LEMMA IdsInTurn ==
  ASSUME NEW m, Shaped(m), ChatTurn(m)
  PROVE  IdsIn(m) = IdsCalled(m) /\ (m.calls = <<>> => IdsCalled(m) = {})
<1>1. PICK s : s = PartsOf(m.content)
  OBVIOUS
<1>2. IsSequence(s)
  BY <1>1, ShapedFacts
<1>3. OfType(s, {"tool_use"}) = <<>>
  <2>1. \A k \in 1..Len(s) : s[k].type \notin {"tool_use"}
    BY <1>1 DEF ChatTurn
  <2> QED BY <1>2, <2>1, OfTypeIsPick
<1>4. DOMAIN <<>> = {}
  OBVIOUS
<1>5. IdsIn(m) = IdsCalled(m)
  BY <1>1, <1>3, <1>4 DEF IdsIn, IdsCalled, Range
<1>6. m.calls = <<>> => IdsCalled(m) = {}
  BY <1>4 DEF IdsCalled
<1> QED BY <1>5, <1>6

(* What a message adds to the ids.                                          *)
LEMMA UsedGrows ==
  ASSUME NEW m, Shaped(m), ChatTurn(m), IsSequence(talk), talk' = Append(talk, m)
  PROVE  UsedIds' = UsedIds \cup (IdsCalled(m) \ {""})
<1>1. /\ Len(talk) \in Nat /\ IsSequence(Append(talk, m)) /\ Len(Append(talk, m)) = Len(talk) + 1
      /\ Append(talk, m)[Len(talk) + 1] = m /\ \A k \in 1..Len(talk) : Append(talk, m)[k] = talk[k]
      /\ DOMAIN talk = 1..Len(talk)
  BY SequenceFacts, AppendFacts
<1>2. DOMAIN (Append(talk, m)) = 1..(Len(talk) + 1)
  BY <1>1, SequenceFacts
<1>3. \A j : j \in 1..(Len(talk) + 1) <=> j \in 1..Len(talk) \/ j = Len(talk) + 1
  BY <1>1
<1>4. Range(Append(talk, m)) = Range(talk) \cup {m}
  <2>1. ASSUME NEW x \in Range(Append(talk, m)) PROVE x \in Range(talk) \cup {m}
    <3>1. PICK k \in 1..(Len(talk) + 1) : x = Append(talk, m)[k]
      BY <1>2, <2>1 DEF Range
    <3> QED BY <1>1, <1>3, <3>1 DEF Range
  <2>2. ASSUME NEW x \in Range(talk) \cup {m} PROVE x \in Range(Append(talk, m))
    <3>1. CASE x = m
      BY <1>1, <1>2, <1>3, <3>1 DEF Range
    <3>2. CASE x \in Range(talk)
      <4>1. PICK k \in 1..Len(talk) : x = talk[k]
        BY <1>1, <3>2 DEF Range
      <4> QED BY <1>1, <1>2, <1>3, <4>1 DEF Range
    <3> QED BY <2>2, <3>1, <3>2
  <2> QED BY <2>1, <2>2
<1>5. IdsIn(m) = IdsCalled(m)
  BY IdsInTurn
<1>6. PICK R : R = Range(talk)
  OBVIOUS
<1>7. UsedIds = (UNION {IdsIn(x) : x \in R}) \ {""}
  BY <1>6 DEF UsedIds
<1>8. UsedIds' = (UNION {IdsIn(x) : x \in R \cup {m}}) \ {""}
  BY <1>4, <1>6 DEF UsedIds, IdsIn
<1>9. UNION {IdsIn(x) : x \in R \cup {m}} = (UNION {IdsIn(x) : x \in R}) \cup IdsIn(m)
  OBVIOUS
<1> QED BY <1>5, <1>7, <1>8, <1>9

(* The ids of a chat are the first ones, and the calls of a turn get the    *)
(* next ones.                                                               *)
Numbered == Used \in Nat /\ Used <= Len(CallIds) /\ UsedIds = FirstIds(Used)
Nameless(calls) == \A i \in DOMAIN calls : calls[i].id = ""
Given(calls) == Used + Len(calls) <= Len(CallIds) /\ \A i \in DOMAIN calls : calls[i].id = CallIds[Used + i]

LEMMA FirstIdsMore ==
  ASSUME NEW u \in Nat, NEW n \in Nat, u + n <= Len(CallIds)
  PROVE  /\ FirstIds(u) \cup {CallIds[u + i] : i \in 1..n} = FirstIds(u + n)
         /\ \A i \in 1..n : CallIds[u + i] \notin FirstIds(u) /\ CallIds[u + i] # ""
         /\ \A i, j \in 1..n : CallIds[u + i] = CallIds[u + j] => i = j
<1>0. Len(CallIds) \in Nat
  BY CallIdsAre
<1>1. /\ \A i \in 1..n : u + i \in 1..Len(CallIds) /\ u + i \in 1..(u + n)
      /\ \A j \in 1..u : j \in 1..Len(CallIds) /\ j \in 1..(u + n) /\ \A i \in 1..n : j # u + i
      /\ \A j \in 1..(u + n) : j \in 1..u \/ (j - u \in 1..n /\ j = u + (j - u))
  BY <1>0
<1>2. FirstIds(u) \cup {CallIds[u + i] : i \in 1..n} = FirstIds(u + n)
  <2>1. ASSUME NEW x \in FirstIds(u + n) PROVE x \in FirstIds(u) \cup {CallIds[u + i] : i \in 1..n}
    <3>1. PICK j \in 1..(u + n) : x = CallIds[j]
      BY <2>1 DEF FirstIds
    <3>2. CASE j \in 1..u
      BY <3>1, <3>2 DEF FirstIds
    <3>3. CASE j - u \in 1..n /\ j = u + (j - u)
      BY <3>1, <3>3
    <3> QED BY <1>1, <3>2, <3>3
  <2>2. ASSUME NEW x \in FirstIds(u) PROVE x \in FirstIds(u + n)
    BY <1>1, <2>2 DEF FirstIds
  <2>3. ASSUME NEW i \in 1..n PROVE CallIds[u + i] \in FirstIds(u + n)
    BY <1>1 DEF FirstIds
  <2> QED BY <2>1, <2>2, <2>3
<1>3. /\ \A j \in 1..Len(CallIds) : CallIds[j] # ""
      /\ \A i, j \in 1..Len(CallIds) : CallIds[i] = CallIds[j] => i = j
  BY CallIdsAre
<1>4. ASSUME NEW i \in 1..n PROVE CallIds[u + i] \notin FirstIds(u) /\ CallIds[u + i] # ""
  <2>1. u + i \in 1..Len(CallIds)
    BY ONLY <1>1, i \in 1..n
  <2>2. ASSUME NEW j \in 1..u PROVE CallIds[u + i] # CallIds[j]
    <3>1. j \in 1..Len(CallIds) /\ j # u + i
      BY ONLY <1>1, i \in 1..n, j \in 1..u
    <3> QED BY ONLY <1>3, <2>1, <3>1
  <2>3. CallIds[u + i] \notin FirstIds(u)
    BY ONLY <2>2 DEF FirstIds
  <2> QED BY ONLY <1>3, <2>1, <2>3
<1>5. ASSUME NEW i \in 1..n, NEW j \in 1..n, CallIds[u + i] = CallIds[u + j] PROVE i = j
  <2>1. u + i = u + j
    BY <1>1, <1>3, <1>5
  <2> QED BY <2>1
<1> QED BY <1>2, <1>4, <1>5

LEMMA NumberedNext ==
  ASSUME Numbered, IsSequence(talk), NEW m, Shaped(m), ChatTurn(m), talk' = Append(talk, m),
         Nameless(m.calls) \/ Given(m.calls)
  PROVE  Numbered' /\ UsedIds \subseteq UsedIds' /\ (IdsCalled(m) \ {""}) \subseteq UsedIds'
<1>1. UsedIds' = UsedIds \cup (IdsCalled(m) \ {""})
  BY UsedGrows
<1>2. CASE Nameless(m.calls)
  <2>1. UsedIds' = UsedIds
    BY <1>1, <1>2 DEF Nameless, IdsCalled
  <2>2. Used' = Used
    BY <2>1 DEF Used
  <2>3. FirstIds(Used)' = FirstIds(Used)
    BY <2>2 DEF FirstIds
  <2> QED BY <1>1, <2>1, <2>2, <2>3 DEF Numbered
<1>3. CASE Given(m.calls)
  <2>1. PICK u, n : u = Used /\ n = Len(m.calls)
    OBVIOUS
  <2>2. IsSequence(m.calls) /\ DOMAIN m.calls = 1..n /\ n \in Nat /\ u \in Nat
    BY <2>1, ShapedFacts, SequenceFacts DEF Numbered
  <2>3. u + n <= Len(CallIds) /\ \A i \in 1..n : m.calls[i].id = CallIds[u + i]
    BY <1>3, <2>1, <2>2 DEF Given
  <2>4. /\ FirstIds(u) \cup {CallIds[u + i] : i \in 1..n} = FirstIds(u + n)
        /\ \A i \in 1..n : CallIds[u + i] # ""
    BY <2>2, <2>3, FirstIdsMore
  <2>5. IdsCalled(m) = {CallIds[u + i] : i \in 1..n}
    BY <2>2, <2>3 DEF IdsCalled
  <2>6. IdsCalled(m) \ {""} = {CallIds[u + i] : i \in 1..n}
    BY <2>4, <2>5
  <2>7. UsedIds' = FirstIds(u + n)
    BY <1>1, <2>1, <2>4, <2>6 DEF Numbered
  <2>8. Cardinality(FirstIds(u + n)) = u + n /\ u + n \in Nat
    BY <2>2, <2>3, FirstIdsCounted
  <2>9. Used' = u + n
    BY <2>7, <2>8 DEF Used
  <2>10. FirstIds(Used)' = FirstIds(u + n)
    BY <2>9 DEF FirstIds
  <2> QED BY <1>1, <2>3, <2>7, <2>8, <2>9, <2>10 DEF Numbered
<1> QED BY <1>2, <1>3

(* So Gemini can tell the calls of a turn apart.                            *)
LEMMA GivenUsable ==
  ASSUME Numbered, NEW st, DOMAIN st.names \subseteq UsedIds, NEW calls, IsSequence(calls),
         Given(calls), \A i \in DOMAIN calls : calls[i].name \in Functions
  PROVE  CallsUsable(st, calls)
<1>1. PICK u, n : u = Used /\ n = Len(calls)
  OBVIOUS
<1>2. DOMAIN calls = 1..n /\ n \in Nat /\ u \in Nat
  BY <1>1, SequenceFacts DEF Numbered
<1>3. u + n <= Len(CallIds) /\ \A i \in 1..n : calls[i].id = CallIds[u + i]
  BY <1>1, <1>2 DEF Given
<1>4. /\ \A i \in 1..n : CallIds[u + i] \notin FirstIds(u) /\ CallIds[u + i] # ""
      /\ \A i, j \in 1..n : CallIds[u + i] = CallIds[u + j] => i = j
  BY <1>2, <1>3, FirstIdsMore
<1>5. UsedIds = FirstIds(u)
  BY <1>1 DEF Numbered
<1>6. ASSUME NEW i \in 1..n
      PROVE  /\ calls[i].id # "" /\ calls[i].name # "" /\ calls[i].id \notin DOMAIN st.names
             /\ \A j \in 1..(i - 1) : calls[j].id # calls[i].id
  <2>1. calls[i].id # "" /\ calls[i].id \notin DOMAIN st.names
    BY <1>3, <1>4, <1>5
  <2>2. calls[i].name # ""
    BY <1>2, FunctionsAssumption
  <2>3. ASSUME NEW j \in 1..(i - 1) PROVE calls[j].id # calls[i].id
    <3>1. j \in 1..n /\ j # i
      BY <1>2
    <3> QED BY <1>3, <1>4, <3>1
  <2> QED BY <2>1, <2>2, <2>3
<1> QED BY <1>2, <1>6 DEF CallsUsable

LEMMA NoneUsable ==
  ASSUME NEW st, NEW m, m.calls = <<>>
  PROVE  CallsUsable(st, m.calls) /\ IdsCalled(m) = {}
<1>1. DOMAIN <<>> = {}
  OBVIOUS
<1> QED BY <1>1 DEF CallsUsable, IdsCalled

(* What Gemini can be sent: a conversation whose every part has a form      *)
(* there.  The conversion of one, as long as no result came by name, has    *)
(* not failed and knows the calls that are open, or these have no ids.      *)
Plainly(ms) == \A k \in 1..Len(ms) : ms[k].role # "tool" => Representable(ms[k].content)
Knows(st, ms, calls, ids) ==
  /\ GeminiForm(st)
  /\ ~st.refused => DOMAIN st.names \subseteq ids
  /\ ~Plainly(ms) => st.refused
  /\ Plainly(ms) /\ ~Has(ms, "function") =>
       \/ ~st.refused /\ \A i \in DOMAIN calls : calls[i].id \in DOMAIN st.names
       \/ calls # <<>> /\ Nameless(calls)

LEMMA PlainlyNext ==
  ASSUME NEW ms, IsSequence(ms), NEW m
  PROVE  /\ Plainly(Append(ms, m)) <=> Plainly(ms) /\ (m.role # "tool" => Representable(m.content))
         /\ Has(Append(ms, m), "function") <=> Has(ms, "function") \/ m.role = "function"
<1>1. PICK ns, n : ns = Append(ms, m) /\ n = Len(ms)
  OBVIOUS
<1>2. n \in Nat /\ Len(ns) = n + 1 /\ ns[n + 1] = m /\ \A k \in 1..n : ns[k] = ms[k]
  BY <1>1, AppendSequence, SequenceFacts
<1>3. \A k : k \in 1..(n + 1) <=> k \in 1..n \/ k = n + 1
  BY <1>2
<1>4. Plainly(ns) <=> Plainly(ms) /\ (m.role # "tool" => Representable(m.content))
  BY ONLY <1>1, <1>2, <1>3 DEF Plainly
<1>5. Has(ns, "function") <=> Has(ms, "function") \/ m.role = "function"
  BY ONLY <1>1, <1>2, <1>3 DEF Has
<1> QED BY <1>1, <1>4, <1>5

LEMMA KnowsSpeaks ==
  ASSUME NEW ms, IsSequence(ms), NEW m, NEW st, NEW ids, Knows(st, ms, <<>>, ids),
         Instructs(m) \/ m.role \in {"user", "assistant"}, m.calls = <<>>
  PROVE  Knows(GeminiMessage(st, m), Append(ms, m), <<>>, ids)
<1>1. PICK t, ns : t = GeminiMessage(st, m) /\ ns = Append(ms, m)
  OBVIOUS
<1>2. GeminiForm(st) /\ GeminiForm(t) /\ GeminiSystem(st, m, t) /\ (st.refused \/ GeminiNames(st, m, t))
  <2>1. GeminiForm(st)
    BY DEF Knows
  <2> QED BY ONLY <1>1, <2>1, GeminiStep
<1>3. m.role # "tool" /\ m.role # "function"
  BY DEF Instructs
<1>4. Plainly(ns) <=> Plainly(ms) /\ Representable(m.content)
  BY <1>1, <1>3, PlainlyNext
<1>5. Has(ns, "function") <=> Has(ms, "function")
  BY <1>1, <1>3, PlainlyNext
<1>6. DOMAIN <<>> = {}
  OBVIOUS
<1>7. CASE st.refused
  <2>1. t = st
    BY <1>2, <1>7 DEF GeminiSystem
  <2>2. ~(Plainly(ms) /\ ~Has(ms, "function"))
    BY <1>7 DEF Knows
  <2>3. Knows(t, ns, <<>>, ids)
    BY <1>2, <1>4, <1>5, <1>7, <2>1, <2>2 DEF Knows
  <2> QED BY <1>1, <2>3
<1>8. CASE ~st.refused
  <2>1. GeminiNames(st, m, t)
    BY <1>2, <1>8
  <2>2. CallsUsable(st, m.calls) /\ IdsCalled(m) = {}
    BY NoneUsable
  <2>3. ~Representable(m.content) => t.refused
    BY <1>3, <2>1 DEF GeminiNames
  <2>4. Representable(m.content) => ~t.refused /\ DOMAIN t.names = DOMAIN st.names
    <3>1. CASE Instructs(m)
      BY <2>1, <3>1 DEF GeminiNames
    <3>2. CASE m.role \in {"user", "assistant"}
      BY <2>1, <2>2, <3>2 DEF GeminiNames
    <3> QED BY <3>1, <3>2
  <2>5. Plainly(ms) /\ DOMAIN st.names \subseteq ids
    BY <1>8 DEF Knows
  <2>6. Knows(t, ns, <<>>, ids)
    BY <1>2, <1>4, <1>5, <1>6, <2>3, <2>4, <2>5 DEF Knows
  <2> QED BY <1>1, <2>6
<1> QED BY <1>7, <1>8

LEMMA KnowsCalls ==
  ASSUME NEW ms, IsSequence(ms), NEW m, NEW st, NEW ids, NEW more, Knows(st, ms, <<>>, ids),
         m.role = "assistant", IsSequence(m.calls),
         Nameless(m.calls) \/ (~st.refused => CallsUsable(st, m.calls)),
         ids \subseteq more, (IdsCalled(m) \ {""}) \subseteq more
  PROVE  Knows(GeminiMessage(st, m), Append(ms, m), m.calls, more)
<1>1. PICK t, ns : t = GeminiMessage(st, m) /\ ns = Append(ms, m)
  OBVIOUS
<1>2. GeminiForm(st) /\ GeminiForm(t) /\ GeminiSystem(st, m, t) /\ (st.refused \/ GeminiNames(st, m, t))
  <2>1. GeminiForm(st)
    BY DEF Knows
  <2> QED BY ONLY <1>1, <2>1, GeminiStep
<1>3. m.role # "tool" /\ m.role # "function" /\ m.role \in {"user", "assistant"}
  OBVIOUS
<1>4. Plainly(ns) <=> Plainly(ms) /\ Representable(m.content)
  BY <1>1, <1>3, PlainlyNext
<1>5. Has(ns, "function") <=> Has(ms, "function")
  BY <1>1, <1>3, PlainlyNext
<1>6. CASE st.refused
  <2>1. t = st
    BY <1>2, <1>6 DEF GeminiSystem
  <2>2. ~(Plainly(ms) /\ ~Has(ms, "function"))
    BY <1>6 DEF Knows
  <2>3. Knows(t, ns, m.calls, more)
    BY <1>2, <1>4, <1>5, <1>6, <2>1, <2>2 DEF Knows
  <2> QED BY <1>1, <2>3
<1>7. CASE ~st.refused
  <2>1. GeminiNames(st, m, t)
    BY <1>2, <1>7
  <2>2. ~Representable(m.content) => t.refused
    BY <1>3, <2>1 DEF GeminiNames
  <2>3. Representable(m.content) => /\ t.refused <=> ~CallsUsable(st, m.calls)
                                    /\ ~t.refused => DOMAIN t.names = IdsCalled(m) \cup DOMAIN st.names
    BY <1>3, <2>1 DEF GeminiNames
  <2>4. Plainly(ms) /\ DOMAIN st.names \subseteq ids
    BY <1>7 DEF Knows
  <2>5. CallsUsable(st, m.calls) => "" \notin IdsCalled(m)
    BY DEF CallsUsable, IdsCalled
  <2>6. ~t.refused => DOMAIN t.names \subseteq more /\ \A i \in DOMAIN m.calls : m.calls[i].id \in DOMAIN t.names
    <3>1. SUFFICES ASSUME ~t.refused PROVE DOMAIN t.names \subseteq more /\ \A i \in DOMAIN m.calls : m.calls[i].id \in DOMAIN t.names
      OBVIOUS
    <3>2. "" \notin IdsCalled(m) /\ DOMAIN t.names = IdsCalled(m) \cup DOMAIN st.names
      BY <2>2, <2>3, <2>5, <3>1
    <3>3. \A i \in DOMAIN m.calls : m.calls[i].id \in IdsCalled(m)
      BY DEF IdsCalled
    <3> QED BY <2>4, <3>2, <3>3
  <2>7. Representable(m.content) => ~t.refused \/ (m.calls # <<>> /\ Nameless(m.calls))
    <3>1. m.calls = <<>> => CallsUsable(st, m.calls)
      BY NoneUsable
    <3> QED BY <1>7, <2>3, <3>1
  <2>8. Knows(t, ns, m.calls, more)
    BY <1>2, <1>4, <1>5, <2>2, <2>4, <2>6, <2>7 DEF Knows
  <2> QED BY <1>1, <2>8
<1> QED BY <1>6, <1>7

LEMMA KnowsReturns ==
  ASSUME NEW ms, IsSequence(ms), NEW m, NEW st, NEW ids, NEW calls, IsSequence(calls), Knows(st, ms, calls, ids),
         NEW i \in DOMAIN calls,
         \/ m.role = "tool" /\ m.id = calls[i].id /\ m.id # ""
         \/ m.role = "function"
  PROVE  Knows(GeminiMessage(st, m), Append(ms, m), Rest(calls, i), ids)
<1>1. PICK t, ns, r : t = GeminiMessage(st, m) /\ ns = Append(ms, m) /\ r = Rest(calls, i)
  OBVIOUS
<1>2. GeminiForm(st) /\ GeminiForm(t) /\ GeminiSystem(st, m, t) /\ (st.refused \/ GeminiNames(st, m, t))
  <2>1. GeminiForm(st)
    BY DEF Knows
  <2> QED BY ONLY <1>1, <2>1, GeminiStep
<1>3. /\ Plainly(ns) <=> Plainly(ms) /\ (m.role # "tool" => Representable(m.content))
      /\ Has(ns, "function") <=> Has(ms, "function") \/ m.role = "function"
  BY <1>1, PlainlyNext
<1>4. CASE m.role = "function"
  <2>1. t.refused
    <3>1. CASE st.refused
      BY <1>2, <3>1 DEF GeminiSystem
    <3>2. CASE ~st.refused
      BY <1>2, <1>4, <3>2 DEF GeminiNames
    <3> QED BY <3>1, <3>2
  <2>2. Knows(t, ns, r, ids)
    BY <1>2, <1>3, <1>4, <2>1 DEF Knows
  <2> QED BY <1>1, <2>2
<1>5. CASE m.role = "tool" /\ m.id = calls[i].id /\ m.id # ""
  <2>1. ~Nameless(calls)
    BY <1>5 DEF Nameless
  <2>2. (Plainly(ns) <=> Plainly(ms)) /\ (Has(ns, "function") <=> Has(ms, "function"))
    BY <1>3, <1>5
  <2>3. CASE st.refused
    <3>1. t = st
      BY <1>2, <2>3 DEF GeminiSystem
    <3>2. ~(Plainly(ms) /\ ~Has(ms, "function"))
      BY <2>1, <2>3 DEF Knows
    <3>3. Knows(t, ns, r, ids)
      BY <1>2, <2>2, <2>3, <3>1, <3>2 DEF Knows
    <3> QED BY <1>1, <3>3
  <2>4. CASE ~st.refused
    <3>1. t.names = st.names /\ (t.refused <=> m.id \notin DOMAIN st.names)
      BY <1>2, <1>5, <2>4 DEF GeminiNames
    <3>2. Plainly(ms) /\ DOMAIN st.names \subseteq ids
      BY <2>4 DEF Knows
    <3>3. ~Has(ms, "function") => \A j \in DOMAIN calls : calls[j].id \in DOMAIN st.names
      BY <2>1, <3>2 DEF Knows
    <3>4. \A k \in DOMAIN r : \E j \in DOMAIN calls : r[k] = calls[j]
      <4>1. /\ Len(calls) \in Nat /\ DOMAIN calls = 1..Len(calls) /\ IsSequence(r) /\ Len(r) = Len(calls) - 1
            /\ i \in 1..Len(calls)
            /\ \A k \in 1..Len(r) : k < i => r[k] = calls[k]
            /\ \A k \in 1..Len(r) : k >= i => r[k] = calls[k + 1]
        BY <1>1, RestIs, SequenceFacts
      <4>2. DOMAIN r = 1..Len(r)
        BY <4>1, SequenceFacts
      <4>3. ASSUME NEW k \in 1..Len(r) PROVE \E j \in 1..Len(calls) : r[k] = calls[j]
        <5>1. PICK n, l : n = Len(calls) /\ l = Len(r)
          OBVIOUS
        <5>2. n \in Nat /\ l = n - 1 /\ i \in 1..n /\ k \in 1..l
          BY <4>1, <5>1
        <5>3. k \in 1..n /\ k + 1 \in 1..n /\ (k < i \/ k >= i)
          BY ONLY <5>2
        <5> QED BY <4>1, <5>1, <5>2, <5>3
      <4> QED BY <4>1, <4>2, <4>3
    <3>5. Knows(t, ns, r, ids)
      <4>1. ~Has(ns, "function") => ~t.refused /\ \A k \in DOMAIN r : r[k].id \in DOMAIN t.names
        BY <1>5, <2>2, <3>1, <3>3, <3>4
      <4> QED BY <1>2, <2>2, <3>1, <3>2, <4>1 DEF Knows
    <3> QED BY <1>1, <3>5
  <2> QED BY <2>3, <2>4
<1> QED BY <1>4, <1>5

(* Of a chat Gemini knows this at every step.                               *)
GeminiInv == kind = "chat" => Numbered /\ Knows(GeminiRun(talk), talk, open, UsedIds)

LEMMA GeminiFirst ==
  ASSUME talk = <<>>, open = <<>>
  PROVE  Numbered /\ Knows(GeminiRun(talk), talk, open, UsedIds)
<1>1. DOMAIN <<>> = {} /\ \A k \in 1..Len(<<>>) : FALSE
  BY EmptySequence
<1>2. Range(talk) = {}
  BY <1>1 DEF Range
<1>3. UsedIds = {}
  BY <1>2 DEF UsedIds
<1>4. Used = 0 /\ FirstIds(0) = {}
  BY <1>3, FS_EmptySet DEF Used, FirstIds
<1>5. Numbered
  <2>1. Len(CallIds) \in Nat
    BY CallIdsAre
  <2> QED BY <1>3, <1>4, <2>1 DEF Numbered
<1>6. GeminiForm(GeminiStart)
  BY GeminiTellsFirst DEF GeminiTells
<1>7. ~GeminiStart.refused /\ DOMAIN GeminiStart.names = {}
  BY <1>1 DEF GeminiStart
<1>8. Plainly(<<>>)
  BY <1>1 DEF Plainly
<1>9. GeminiRun(<<>>) = GeminiStart
  BY GeminiRunStep
<1>10. Knows(GeminiStart, <<>>, <<>>, {})
  BY <1>1, <1>6, <1>7, <1>8 DEF Knows
<1> QED BY <1>3, <1>5, <1>9, <1>10

LEMMA GeminiStays == BodiesSpec => []GeminiInv
<1>1. BodiesInit => GeminiInv
  BY GeminiFirst DEF BodiesInit, GeminiInv
<1>2. AwaitInv /\ GeminiInv /\ [BodiesNext]_bodiesVars => GeminiInv'
  <2> SUFFICES ASSUME AwaitInv, GeminiInv, [BodiesNext]_bodiesVars PROVE GeminiInv'
    OBVIOUS
  <2>1. CASE AnswerGrows \/ AnswerEnds \/ LineWritten \/ UNCHANGED bodiesVars
    <3>1. talk' = talk /\ open' = open /\ kind' = kind
      BY <2>1 DEF AnswerGrows, AnswerEnds, LineWritten, bodiesVars
    <3>2. UsedIds' = UsedIds
      BY <3>1 DEF UsedIds
    <3>3. Used' = Used
      BY <3>2 DEF Used
    <3>4. Numbered' <=> Numbered
      BY <3>2, <3>3 DEF Numbered, FirstIds
    <3>5. Knows(GeminiRun(talk), talk, open, UsedIds)' <=> Knows(GeminiRun(talk), talk, open, UsedIds)
      <4>1. PICK st, ms, os, ids : st = GeminiRun(talk) /\ ms = talk /\ os = open /\ ids = UsedIds
        OBVIOUS
      <4>2. GeminiRun(talk)' = st /\ talk' = ms /\ open' = os /\ UsedIds' = ids
        BY <3>1, <3>2, <4>1
      <4> QED BY <4>1, <4>2
    <3> QED BY <3>1, <3>4, <3>5 DEF GeminiInv
  <2>2. CASE SystemSays \/ UserSays \/ AssistantSays \/ AssistantCalls \/ ToolReturns \/ FunctionReturns
    <3>1. kind = "chat"
      BY <2>2, ChatSteps
    <3>2. PICK m : Shaped(m) /\ ChatTurn(m) /\ Says(m) /\ (Speaks(m) \/ CallsTools(m) \/ Returns(m))
      BY <2>2, ChatSteps
    <3>3. /\ talk' = Append(talk, m) /\ IsSequence(talk) /\ IsSequence(open)
          /\ IsSequence(m.calls) /\ Numbered /\ Knows(GeminiRun(talk), talk, open, UsedIds)
      BY <3>1, <3>2, ShapedFacts DEF AwaitInv, Await, AllShaped, Says, GeminiInv
    <3>4. Nameless(m.calls) \/ Given(m.calls)
      <4>1. m.calls = <<>> => Nameless(m.calls)
        <5>1. DOMAIN <<>> = {}
          OBVIOUS
        <5> QED BY <5>1 DEF Nameless
      <4> QED BY <3>2, <4>1 DEF Speaks, CallsTools, Returns, Nameless, Given
    <3>5. Numbered' /\ UsedIds \subseteq UsedIds' /\ (IdsCalled(m) \ {""}) \subseteq UsedIds'
      BY <3>2, <3>3, <3>4, NumberedNext
    <3>6. PICK st, ids, more : st = GeminiRun(talk) /\ ids = UsedIds /\ more = UsedIds'
      OBVIOUS
    <3>7. GeminiRun(talk') = GeminiMessage(st, m)
      BY <3>3, <3>6, GeminiRunStep
    <3>8. SUFFICES Knows(GeminiMessage(st, m), Append(talk, m), open', more)
      BY <3>3, <3>5, <3>6, <3>7 DEF GeminiInv
    <3>9. Knows(st, talk, open, ids) /\ ids \subseteq more /\ (IdsCalled(m) \ {""}) \subseteq more
      BY <3>3, <3>5, <3>6
    <3>10. CASE Speaks(m)
      <4>1. open = <<>> /\ open' = <<>> /\ m.calls = <<>> /\ (Instructs(m) \/ m.role \in {"user", "assistant"})
        BY <3>10 DEF Speaks, Instructs
      <4>2. Knows(st, talk, <<>>, more)
        BY <3>9, <4>1 DEF Knows
      <4> QED BY <3>3, <4>1, <4>2, KnowsSpeaks
    <3>11. CASE CallsTools(m)
      <4>1. open = <<>> /\ open' = m.calls /\ m.role = "assistant" /\ \A i \in DOMAIN m.calls : m.calls[i].name \in Functions
        BY <3>11 DEF CallsTools
      <4>2. Nameless(m.calls) \/ (~st.refused => CallsUsable(st, m.calls))
        <5>1. SUFFICES ASSUME Given(m.calls), ~st.refused PROVE CallsUsable(st, m.calls)
          BY <3>4
        <5>2. DOMAIN st.names \subseteq UsedIds
          BY <3>6, <3>9, <5>1 DEF Knows
        <5> QED BY <3>3, <4>1, <5>1, <5>2, GivenUsable
      <4> QED BY <3>3, <3>9, <4>1, <4>2, KnowsCalls
    <3>12. CASE Returns(m)
      <4>1. PICK i \in DOMAIN open :
              /\ open' = Rest(open, i)
              /\ \/ m.role = "tool" /\ m.id = open[i].id /\ m.id # ""
                 \/ m.role = "function"
        BY <3>12 DEF Returns
      <4>2. Knows(st, talk, open, more)
        BY <3>9 DEF Knows
      <4> QED BY <3>3, <4>1, <4>2, KnowsReturns
    <3> QED BY <3>2, <3>10, <3>11, <3>12
  <2>3. CASE \/ AnthropicUserSays \/ AnthropicSystemSays \/ AnthropicAssistantSays
             \/ AnthropicAssistantCalls \/ AnthropicResults
    <3>1. kind = "anthropic" /\ kind' = kind
      BY <2>3 DEF AnthropicUserSays, AnthropicSystemSays, AnthropicAssistantSays,
                  AnthropicAssistantCalls, AnthropicResults, Free, Says
    <3> QED BY <3>1 DEF GeminiInv
  <2> QED BY <2>1, <2>2, <2>3 DEF BodiesNext
<1> QED BY <1>1, <1>2, AwaitStays, PTL DEF BodiesSpec

(* A chat whose results came by id is refused for what has no form there,   *)
(* and for nothing else.                                                    *)
LEMMA GeminiRefuses ==
  ASSUME TalkInv, GeminiInv, Sent, kind = "chat", ~ByName
  PROVE  ~ToGemini.refused <=> \A k \in DOMAIN talk : talk[k].role # "tool" => Representable(talk[k].content)
<1>1. /\ ToChat = Request /\ options = DefaultOptions /\ IsSequence(talk) /\ talk # <<>> /\ open = <<>>
      /\ DOMAIN talk = 1..Len(talk)
  BY SequenceFacts DEF ToChat, TalkInv, FieldsInv, AllShaped, Sent
<1>2. PICK st : st = GeminiRun(talk)
  OBVIOUS
<1>3. ToGemini.refused <=> st.refused
  <2>1. PICK r : r = Request
    OBVIOUS
  <2>2. /\ r.messages = talk /\ r.tools = Null /\ r.choice = NoChoice /\ r.parallel = "absent"
        /\ r.thinking = FALSE /\ r.effort = ""
    BY <1>1, <2>1 DEF Request, DefaultOptions
  <2>3. ~Thinks(r)
    BY <2>2 DEF Thinks
  <2>4. GeminiToolChoice(r.choice) # Choice("invalid")
    <3>1. PICK c : c = r.choice
      OBVIOUS
    <3>2. c.type = "absent"
      <4>1. NoChoice.type = "absent"
        BY DEF NoChoice
      <4> QED BY <2>2, <3>1, <4>1
    <3>3. GeminiToolChoice(c) = NoChoice
      BY ONLY <3>2 DEF GeminiToolChoice
    <3>4. NoChoice.type = "absent" /\ Choice("invalid").type = "invalid"
      BY DEF NoChoice, Choice
    <3>5. "absent" # "invalid"
      OBVIOUS
    <3> QED BY <3>1, <3>3, <3>4, <3>5
  <2>5. ~\E k \in DOMAIN PartsOf(r.tools) : r.tools.parts[k].shape # "openai" \/ r.tools.parts[k].name = ""
    <3>1. DOMAIN <<>> = {}
      OBVIOUS
    <3>2. PartsOf(r.tools) = <<>>
      <4>1. Null.form = "null"
        BY DEF Null
      <4>2. r.tools.form # "array"
        BY <2>2, <4>1
      <4> QED BY <4>2 DEF PartsOf
    <3> QED BY <3>1, <3>2
  <2>6. OpenAIToGeminiBody(r).refused <=>
          \/ st.refused \/ r.messages = <<>> \/ Thinks(r)
          \/ \E k \in DOMAIN PartsOf(r.tools) : r.tools.parts[k].shape # "openai" \/ r.tools.parts[k].name = ""
          \/ r.parallel = "false" /\ r.tools # Null
          \/ GeminiToolChoice(r.choice) = Choice("invalid")
    BY <1>2, <2>2 DEF OpenAIToGeminiBody, GeminiRun, GeminiStart
  <2> QED BY <1>1, <2>1, <2>2, <2>3, <2>4, <2>5, <2>6 DEF ToGemini
<1>4. Knows(st, talk, open, UsedIds)
  BY <1>2 DEF GeminiInv
<1>5. ~Has(talk, "function")
  BY <1>1 DEF ByName, Has
<1>6. ~st.refused <=> Plainly(talk)
  BY <1>1, <1>4, <1>5 DEF Knows
<1> QED BY <1>1, <1>3, <1>6 DEF Plainly

(* Nothing a client says, and no text of a result, is lost, repeated or     *)
(* reordered by the bridges, for every conversation of either protocol: it  *)
(* reaches the chat endpoint and the items of a Responses input whole, the  *)
(* contents of a Gemini request too unless that is refused, and Bedrock if  *)
(* no turn calls a function twice and results by id and by name are not     *)
(* mixed; the instructions arrive as instructions at every upstream, the    *)
(* system field first; and Gemini refuses a chat whose results came by id   *)
(* just when it has a part with no form there.  (The conversions of         *)
(* handler/transform: of OpenAI messages to Bedrock, of Anthropic messages  *)
(* to OpenAI, to Responses and to generateContent.)                         *)
THEOREM NothingIsLost == BodiesSpec => []NothingLost
<1>1. TalkInv /\ AwaitInv /\ AnthropicInv /\ GeminiInv => NothingLost
  <2> SUFFICES ASSUME TalkInv, AwaitInv, AnthropicInv, GeminiInv, Sent, NEW chat, chat = ToChat
               PROVE  LET said == Speech(Spoken(talk))
                          gemini == OpenAIToGeminiBody(chat)
                      IN  /\ DistinctNames /\ ~Mixed => Speech(Spoken(ToBedrock.messages)) = said
                          /\ TextOf(ToBedrock.system) = SystemText
                          /\ ChatToResponsesBody(chat).instructions = SystemText
                          /\ kind = "anthropic" => Speech(Spoken(chat.messages)) = said
                          /\ FlattenSeq(Apply(SaidByItem, ChatToResponsesBody(chat).input)) = said
                          /\ ~gemini.refused =>
                               /\ FlattenSeq(Apply(LAMBDA p : p.text, gemini.system)) = SystemText
                               /\ FlattenSeq(Apply(SaidByPart, GeminiParts(gemini.contents))) = said
                          /\ kind = "chat" /\ ~ByName =>
                               ~gemini.refused <=> \A k \in DOMAIN talk : talk[k].role # "tool" => Representable(talk[k].content)
    BY DEF NothingLost
  <2>1. /\ DistinctNames /\ ~Mixed => Speech(Spoken(ToBedrock.messages)) = Speech(Spoken(talk))
        /\ TextOf(ToBedrock.system) = SystemText
    <3>1. CASE kind = "chat"
      BY <3>1, ChatToldBedrock
    <3>2. CASE kind = "anthropic"
      BY <3>2, AnthropicToldBedrock
    <3> QED BY <3>1, <3>2 DEF Sent
  <2>2. /\ ChatToResponsesBody(chat).instructions = SystemText
        /\ Speech(Spoken(chat.messages)) = Speech(Spoken(talk))
    BY ChatSays
  <2>3. FlattenSeq(Apply(SaidByItem, ChatToResponsesBody(chat).input)) = Speech(Spoken(talk))
    BY ChatToldResponses
  <2>4. PICK gemini : gemini = OpenAIToGeminiBody(chat)
    OBVIOUS
  <2>5. gemini = ToGemini
    BY <2>4 DEF ToGemini
  <2>6. ~gemini.refused =>
          /\ FlattenSeq(Apply(LAMBDA p : p.text, gemini.system)) = SystemText
          /\ FlattenSeq(Apply(SaidByPart, GeminiParts(gemini.contents))) = Speech(Spoken(talk))
    BY <2>5, ChatToldGemini
  <2>7. kind = "chat" /\ ~ByName =>
          (~gemini.refused <=> \A k \in DOMAIN talk : talk[k].role # "tool" => Representable(talk[k].content))
    BY <2>5, GeminiRefuses
  <2> QED BY <2>1, <2>2, <2>3, <2>4, <2>6, <2>7
<1> QED BY <1>1, TalksStay, AwaitStays, AnthropicStays, GeminiStays, PTL

=============================================================================
