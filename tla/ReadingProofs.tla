----------------------------- MODULE ReadingProofs -----------------------------
(***************************************************************************)
(* Reading and its parts, for any bytes, units, samples and limits.  Of    *)
(* Telnet: what the loop over a piece collects is what was sent.  Of       *)
(* SerialReader: which sample is reported, what a reading that ended for   *)
(* stability means, and what a passing verdict rests on.                   *)
(***************************************************************************)
EXTENDS Reading, FiniteSetTheorems, SequenceTheorems, TLAPS

-----------------------------------------------------------------------------
(* Numbers and sequences.                                                  *)

\* Induction over the numbers, for sets: were n outside S, adding 1 would map the
\* members of S up to n one to one into themselves, but not onto 0.
LEMMA Induction ==
  ASSUME NEW S, 0 \in S, \A k \in Nat : k \in S => k + 1 \in S
  PROVE  Nat \subseteq S
<1> SUFFICES ASSUME NEW n \in Nat, n \notin S PROVE FALSE
  OBVIOUS
<1> DEFINE A == {k \in 0 .. n : k \in S}
           f == [k \in A |-> k + 1]
<1>1. IsFiniteSet(A)
  <2>1. IsFiniteSet(0 .. n) /\ A \in SUBSET (0 .. n)
    BY FS_Interval
  <2> QED
    BY <2>1, FS_Subset
<1>2. f \in Injection(A, A)
  <2>1. \A k \in A : k + 1 \in A
    OBVIOUS
  <2> QED
    BY <2>1 DEF Injection, IsInjective
<1>3. f \in Surjection(A, A)
  BY <1>1, <1>2, FS_Injection
<1>4. 0 \in A
  OBVIOUS
<1>5. PICK k \in A : f[k] = 0
  BY <1>3, <1>4 DEF Surjection
<1> QED
  BY <1>5

\* Indices of bytes.
Positive == Nat \ {0}

\* f collects what is found at an index and at those that the loop goes on to from
\* there, up to the N-th.
IsLoop(f, N, found, next) ==
  f = [i \in Positive |-> IF i > N THEN <<>> ELSE found[i] \o f[next[i]]]

\* A loop that only goes onward has one.
LEMMA LoopExists ==
  ASSUME NEW N \in Nat, NEW found, NEW next, \A i \in 1 .. N : next[i] \in Nat /\ next[i] > i
  PROVE  \E f : IsLoop(f, N, found, next)
<1> DEFINE D(n) == {i \in Positive : i > N - n}
           Loops(g, n) == g = [i \in D(n) |-> IF i > N THEN <<>> ELSE found[i] \o g[next[i]]]
           S == {n \in Nat : \E g : Loops(g, n)}
<1>1. 0 \in S
  <2> DEFINE g == [i \in D(0) |-> <<>>]
  <2>1. Loops(g, 0)
    BY DEF Positive
  <2> QED
    BY <2>1
<1>2. ASSUME NEW n \in Nat, n \in S PROVE n + 1 \in S
  <2>1. PICK g : Loops(g, n)
    BY <1>2
  <2>2. \A i \in D(n) : g[i] = IF i > N THEN <<>> ELSE found[i] \o g[next[i]]
    BY <2>1
  <2> DEFINE h == [i \in D(n + 1) |-> IF i > N THEN <<>> ELSE found[i] \o g[next[i]]]
  <2>3. \A i \in D(n) : h[i] = g[i]
    <3>1. \A i \in D(n) : i \in D(n + 1)
      BY DEF Positive
    <3> QED
      BY <2>2, <3>1
  <2>4. \A i \in D(n + 1) : i > N \/ next[i] \in D(n)
    BY DEF Positive
  <2>5. \A i \in D(n + 1) : i > N \/ h[next[i]] = g[next[i]]
    BY <2>3, <2>4
  <2>6. Loops(h, n + 1)
    BY <2>5
  <2> HIDE DEF h, Loops
  <2> QED
    BY <2>6
<1>3. N \in S
  <2> HIDE DEF S
  <2> QED
    BY <1>1, <1>2, Induction
<1>4. D(N) = Positive
  BY DEF Positive
<1>5. PICK g : Loops(g, N)
  BY <1>3
<1> HIDE DEF D
<1>6. g = [i \in Positive |-> IF i > N THEN <<>> ELSE found[i] \o g[next[i]]]
  BY <1>4, <1>5
<1> QED
  BY <1>6 DEF IsLoop

LEMMA LoopTyped ==
  ASSUME NEW N \in Nat, NEW found, NEW next, NEW S,
         \A i \in 1 .. N : found[i] \in Seq(S) /\ next[i] \in Nat /\ next[i] > i,
         NEW f, IsLoop(f, N, found, next)
  PROVE  f \in [Positive -> Seq(S)]
<1>0. \A i \in Positive : ~(i > N) => f[i] = found[i] \o f[next[i]]
  BY DEF IsLoop
<1>6. \A i \in Positive : i > N => f[i] \in Seq(S)
  <2>1. \A i \in Positive : i > N => f[i] = <<>>
    BY DEF IsLoop
  <2>2. <<>> \in Seq(S)
    OBVIOUS
  <2> QED
    BY <2>1, <2>2
<1> DEFINE T == {n \in Nat : \A i \in Positive : i > N - n => f[i] \in Seq(S)}
<1>1. 0 \in T
  BY <1>6
<1>2. ASSUME NEW n \in Nat, n \in T PROVE n + 1 \in T
  <2> SUFFICES ASSUME NEW i \in Positive, i > N - (n + 1), ~(i > N) PROVE f[i] \in Seq(S)
    BY <1>6
  <2>1. next[i] \in Positive /\ next[i] > N - n /\ found[i] \in Seq(S)
    BY DEF Positive
  <2>2. f[next[i]] \in Seq(S)
    BY <1>2, <2>1
  <2>3. f[i] = found[i] \o f[next[i]]
    <3>1. ~(i > N)
      BY DEF Positive
    <3> QED
      BY <1>0, <3>1
  <2> QED
    BY <2>1, <2>2, <2>3
<1>3. N \in T
  <2> HIDE DEF T
  <2> QED
    BY <1>1, <1>2, Induction
<1>4. \A i \in Positive : f[i] \in Seq(S)
  BY <1>3 DEF Positive
<1>5. f = [i \in Positive |-> f[i]]
  BY DEF IsLoop
<1> QED
  BY <1>4, <1>5

\* The function that FlattenSeq is made of: the first i sequences, joined.
IsFlat(f, s) == f = [i \in 1 .. Len(s) |-> IF i = 1 THEN s[i] ELSE f[i - 1] \o s[i]]

LEMMA FlatExists ==
  ASSUME NEW S, NEW s \in Seq(S)
  PROVE  \E f : IsFlat(f, s)
<1> DEFINE Flat(f, n) == f = [i \in 1 .. n |-> IF i = 1 THEN s[i] ELSE f[i - 1] \o s[i]]
           T == {n \in Nat : \E f : Flat(f, n)}
<1>1. 0 \in T
  <2> DEFINE f == [i \in 1 .. 0 |-> <<>>]
  <2>1. Flat(f, 0)
    OBVIOUS
  <2> HIDE DEF f, Flat
  <2> QED
    BY <2>1
<1>2. ASSUME NEW n \in Nat, n \in T PROVE n + 1 \in T
  <2>1. PICK f : Flat(f, n)
    BY <1>2
  <2> DEFINE g == [i \in 1 .. n + 1 |-> IF i = 1 THEN s[i] ELSE f[i - 1] \o s[i]]
  <2>2. \A i \in 1 .. n : g[i] = f[i]
    <3>1. \A i \in 1 .. n : i \in 1 .. n + 1
      OBVIOUS
    <3>2. \A i \in 1 .. n : f[i] = IF i = 1 THEN s[i] ELSE f[i - 1] \o s[i]
      BY <2>1
    <3> QED
      BY <3>1, <3>2
  <2>3. \A i \in 1 .. n + 1 : i = 1 \/ g[i - 1] = f[i - 1]
    <3>1. \A i \in 1 .. n + 1 : i = 1 \/ i - 1 \in 1 .. n
      OBVIOUS
    <3> HIDE DEF g
    <3> QED
      BY <2>2, <3>1
  <2>4. Flat(g, n + 1)
    BY <2>3
  <2> HIDE DEF g, Flat
  <2> QED
    BY <2>4
<1>3. Len(s) \in T
  <2> HIDE DEF T
  <2> QED
    BY <1>1, <1>2, Induction
<1> QED
  BY <1>3 DEF IsFlat

LEMMA FlatUnfolds ==
  ASSUME NEW S, NEW s \in Seq(S), NEW f, IsFlat(f, s), s # <<>>
  PROVE  /\ f[1] = s[1]
         /\ \A i \in 1 .. Len(s) - 1 : f[i + 1] = f[i] \o s[i + 1]
<1>1. \A i \in 1 .. Len(s) : f[i] = IF i = 1 THEN s[i] ELSE f[i - 1] \o s[i]
  BY DEF IsFlat
<1>2. \A i \in 1 .. Len(s) - 1 : i + 1 \in 1 .. Len(s) /\ i + 1 # 1 /\ (i + 1) - 1 = i
  OBVIOUS
<1>3. 1 \in 1 .. Len(s)
  OBVIOUS
<1> QED
  BY <1>1, <1>2, <1>3

LEMMA FrontProperties ==
  ASSUME NEW S, NEW s \in Seq(S), s # <<>>
  PROVE  /\ Len(s) \in Nat \ {0}
         /\ Front(s) \in Seq(S) /\ Len(Front(s)) = Len(s) - 1
         /\ \A i \in 1 .. Len(s) - 1 : Front(s)[i] = s[i]
         /\ Last(s) \in S
<1>1. Len(s) \in Nat \ {0} /\ \A i \in 1 .. Len(s) : s[i] \in S
  BY EmptySeq, ElementOfSeq
<1>2. \A i \in 1 .. Len(s) - 1 : s[i] \in S
  BY <1>1
<1>3. Len(s) - 1 \in Int /\ 1 \in Int
  BY <1>1
<1>4. /\ Front(s) \in Seq(S)
      /\ Len(Front(s)) = IF 1 <= Len(s) - 1 THEN (Len(s) - 1) - 1 + 1 ELSE 0
      /\ \A i \in 1 .. (Len(s) - 1) - 1 + 1 : Front(s)[i] = s[1 + i - 1]
  BY <1>2, <1>3, SubSeqProperties DEF Front
<1>5. \A i \in 1 .. Len(s) - 1 : i \in 1 .. (Len(s) - 1) - 1 + 1 /\ 1 + i - 1 = i
  BY <1>1
<1>6. Len(Front(s)) = Len(s) - 1
  <2>1. IF 1 <= Len(s) - 1 THEN (Len(s) - 1) - 1 + 1 = Len(s) - 1 ELSE 0 = Len(s) - 1
    BY <1>1
  <2>2. Len(Front(s)) = IF 1 <= Len(s) - 1 THEN (Len(s) - 1) - 1 + 1 ELSE 0
    BY <1>4
  <2> QED
    BY <2>1, <2>2
<1>7. Last(s) \in S
  BY <1>1 DEF Last
<1> QED
  BY <1>1, <1>4, <1>5, <1>6, <1>7

LEMMA FlatPrefix ==
  ASSUME NEW S, NEW t \in Seq(S), Front(t) # <<>>, t # <<>>,
         NEW f, IsFlat(f, Front(t)), NEW g, IsFlat(g, t)
  PROVE  \A i \in 1 .. Len(t) - 1 : f[i] = g[i]
<1> DEFINE T == {n \in Nat : n + 1 \in 1 .. Len(t) - 1 => f[n + 1] = g[n + 1]}
<1>0. /\ Len(t) \in Nat \ {0} /\ Len(t) - 1 \in Nat \ {0}
      /\ f[1] = t[1] /\ g[1] = t[1]
      /\ \A i \in 1 .. Len(t) - 2 : f[i + 1] = f[i] \o t[i + 1]
      /\ \A i \in 1 .. Len(t) - 1 : g[i + 1] = g[i] \o t[i + 1]
  <2>1. /\ Len(t) \in Nat \ {0} /\ Front(t) \in Seq(S)
        /\ Len(Front(t)) = Len(t) - 1 /\ Len(Front(t)) \in Nat \ {0}
        /\ \A i \in 1 .. Len(t) - 1 : Front(t)[i] = t[i]
    BY FrontProperties, EmptySeq
  <2>2. /\ f[1] = Front(t)[1]
        /\ \A i \in 1 .. Len(Front(t)) - 1 : f[i + 1] = f[i] \o Front(t)[i + 1]
    BY <2>1, FlatUnfolds
  <2>3. \A i \in 1 .. Len(t) - 2 : i \in 1 .. Len(Front(t)) - 1 /\ i + 1 \in 1 .. Len(t) - 1
    BY <2>1
  <2>4. \A i \in 1 .. Len(t) - 2 : f[i + 1] = f[i] \o t[i + 1]
    BY <2>1, <2>2, <2>3
  <2>5. f[1] = t[1]
    BY <2>1, <2>2
  <2>6. g[1] = t[1] /\ \A i \in 1 .. Len(t) - 1 : g[i + 1] = g[i] \o t[i + 1]
    BY FlatUnfolds
  <2> QED
    BY <2>1, <2>4, <2>5, <2>6
<1>1. 0 \in T
  BY <1>0
<1>2. ASSUME NEW n \in Nat, n \in T PROVE n + 1 \in T
  <2> SUFFICES ASSUME (n + 1) + 1 \in 1 .. Len(t) - 1 PROVE f[(n + 1) + 1] = g[(n + 1) + 1]
    OBVIOUS
  <2>1. n + 1 \in 1 .. Len(t) - 2 /\ n + 1 \in 1 .. Len(t) - 1
    BY <1>0
  <2>2. f[n + 1] = g[n + 1]
    BY <1>0, <1>2
  <2> QED
    BY <1>0, <2>1, <2>2
<1> HIDE DEF T
<1>3. Nat \subseteq T
  BY <1>1, <1>2, Induction
<1> QED
  <2> SUFFICES ASSUME NEW i \in 1 .. Len(t) - 1 PROVE f[i] = g[i]
    OBVIOUS
  <2>1. i - 1 \in Nat /\ (i - 1) + 1 = i
    BY <1>0
  <2> QED
    BY <1>3, <2>1 DEF T

LEMMA FlattenIs ==
  ASSUME NEW S, NEW s \in Seq(S), s # <<>>
  PROVE  \E f : IsFlat(f, s) /\ FlattenSeq(s) = f[Len(s)]
<1> DEFINE f == CHOOSE g : IsFlat(g, s)
<1>1. IsFlat(f, s)
  BY FlatExists
<1>2. Len(s) # 0
  BY EmptySeq
<1>3. FlattenSeq(s) = f[Len(s)]
  BY <1>2 DEF FlattenSeq, IsFlat
<1> QED
  BY <1>1, <1>3

LEMMA FlattenEmpty == FlattenSeq(<<>>) = <<>>
BY DEF FlattenSeq

LEMMA FlattenTyped ==
  ASSUME NEW S, NEW s \in Seq(Seq(S))
  PROVE  FlattenSeq(s) \in Seq(S)
<1>1. CASE s = <<>>
  BY <1>1, FlattenEmpty, EmptySeq
<1>2. CASE s # <<>>
  <2>1. PICK f : IsFlat(f, s) /\ FlattenSeq(s) = f[Len(s)]
    BY <1>2, FlattenIs
  <2> DEFINE T == {n \in Nat : n + 1 \in 1 .. Len(s) => f[n + 1] \in Seq(S)}
  <2>2. /\ f[1] = s[1]
        /\ \A i \in 1 .. Len(s) - 1 : f[i + 1] = f[i] \o s[i + 1]
    BY <1>2, <2>1, FlatUnfolds
  <2>3. Len(s) \in Nat \ {0} /\ \A i \in 1 .. Len(s) : s[i] \in Seq(S)
    BY <1>2, EmptySeq, ElementOfSeq
  <2>4. 0 \in T
    BY <2>2, <2>3
  <2>5. ASSUME NEW n \in Nat, n \in T PROVE n + 1 \in T
    <3> SUFFICES ASSUME (n + 1) + 1 \in 1 .. Len(s) PROVE f[(n + 1) + 1] \in Seq(S)
      OBVIOUS
    <3>1. n + 1 \in 1 .. Len(s) - 1 /\ n + 1 \in 1 .. Len(s)
      BY <2>3
    <3>2. f[n + 1] \in Seq(S) /\ s[(n + 1) + 1] \in Seq(S)
      BY <2>3, <2>5, <3>1
    <3>3. f[(n + 1) + 1] = f[n + 1] \o s[(n + 1) + 1]
      BY <2>2, <3>1
    <3> QED
      BY <3>2, <3>3
  <2> HIDE DEF T
  <2>6. Nat \subseteq T
    BY <2>4, <2>5, Induction
  <2>7. Len(s) - 1 \in Nat /\ (Len(s) - 1) + 1 = Len(s)
    BY <2>3
  <2>8. f[(Len(s) - 1) + 1] \in Seq(S)
    <3>1. (Len(s) - 1) + 1 \in 1 .. Len(s)
      BY <2>3, <2>7
    <3> QED
      BY <2>6, <2>7, <3>1 DEF T
  <2> QED
    BY <2>1, <2>7, <2>8
<1> QED
  BY <1>1, <1>2

\* The last sequence is joined to those before it.
LEMMA FlattenLast ==
  ASSUME NEW S, NEW s \in Seq(Seq(S)), s # <<>>
  PROVE  FlattenSeq(s) = FlattenSeq(Front(s)) \o Last(s)
<1>0. /\ Len(s) \in Nat \ {0}
      /\ Front(s) \in Seq(Seq(S)) /\ Len(Front(s)) = Len(s) - 1
      /\ \A i \in 1 .. Len(s) - 1 : Front(s)[i] = s[i]
      /\ Last(s) \in Seq(S)
  BY FrontProperties
<1>1. PICK f : IsFlat(f, s) /\ FlattenSeq(s) = f[Len(s)]
  BY FlattenIs
<1>2. /\ f[1] = s[1]
      /\ \A i \in 1 .. Len(s) - 1 : f[i + 1] = f[i] \o s[i + 1]
  BY <1>1, FlatUnfolds
<1>3. CASE Len(s) = 1
  <2>1. Front(s) = <<>>
    BY <1>0, <1>3, EmptySeq
  <2>2. FlattenSeq(Front(s)) \o Last(s) = Last(s)
    BY <1>0, <2>1, FlattenEmpty, ConcatEmptySeq
  <2> QED
    BY <1>1, <1>2, <1>3, <2>2 DEF Last
<1>4. CASE Len(s) # 1
  <2>1. Front(s) # <<>> /\ Len(s) - 1 \in 1 .. Len(s) - 1
    BY <1>0, <1>4
  <2>2. PICK g : IsFlat(g, Front(s)) /\ FlattenSeq(Front(s)) = g[Len(s) - 1]
    BY <1>0, <2>1, FlattenIs
  <2>3. \A i \in 1 .. Len(s) - 1 : g[i] = f[i]
    BY <1>1, <2>1, <2>2, FlatPrefix
  <2>4. f[(Len(s) - 1) + 1] = f[Len(s) - 1] \o s[(Len(s) - 1) + 1]
    BY <1>2, <2>1
  <2>5. (Len(s) - 1) + 1 = Len(s)
    BY <1>0
  <2> QED
    BY <1>0, <1>1, <2>1, <2>2, <2>3, <2>4, <2>5 DEF Last
<1> QED
  BY <1>3, <1>4

\* Every set of numbers has a least member, which is what Min chooses.
LEMMA MinIs ==
  ASSUME NEW S \in SUBSET Nat, S # {}
  PROVE  Min(S) \in S /\ \A y \in S : Min(S) <= y
<1> DEFINE Least == \E x \in S : \A y \in S : x <= y
           T == {n \in Nat : (\E m \in S : m <= n) => Least}
<1>1. 0 \in T
  OBVIOUS
<1>2. ASSUME NEW n \in Nat, n \in T PROVE n + 1 \in T
  <2>1. CASE \E m \in S : m <= n
    BY <1>2, <2>1
  <2>2. CASE ~\E m \in S : m <= n
    BY <2>2
  <2> QED
    BY <2>1, <2>2
<1>3. Nat \subseteq T
  <2> HIDE DEF T
  <2> QED
    BY <1>1, <1>2, Induction
<1>4. PICK n \in Nat : n \in S
  OBVIOUS
<1>5. Least
  BY <1>3, <1>4
<1> QED
  BY <1>5 DEF Min

-----------------------------------------------------------------------------
(* The loop over one piece.                                                *)

LEMMA EndIsAhead ==
  ASSUME NEW data \in Seq(Bytes), NEW i \in 1 .. Len(data)
  PROVE  EndOfSubnegotiation(data, i) \in Nat /\ EndOfSubnegotiation(data, i) > i
<1> DEFINE ends == {j \in i + 2 .. Len(data) : data[j] = "IAC" /\ Holds(data, j + 1, {"SE"})}
<1>1. CASE ends = {}
  BY <1>1 DEF EndOfSubnegotiation
<1>2. CASE ends # {}
  <2>0. ends \in SUBSET Nat
    BY LenProperties
  <2>1. Min(ends) \in ends
    <3> HIDE DEF ends
    <3> QED
      BY <1>2, <2>0, MinIs
  <2>2. EndOfSubnegotiation(data, i) = Min(ends) + 2
    BY <1>2 DEF EndOfSubnegotiation
  <2> HIDE DEF ends
  <2>3. Min(ends) \in i + 2 .. Len(data)
    BY <2>1 DEF ends
  <2> QED
    BY <2>2, <2>3
<1> QED
  BY <1>1, <1>2

LEMMA OnwardIsAhead ==
  ASSUME NEW data \in Seq(Bytes), NEW i \in 1 .. Len(data)
  PROVE  Onward(data, i) \in Nat /\ Onward(data, i) > i
BY EndIsAhead DEF Onward

LEMMA ResponseTyped ==
  ASSUME NEW command \in Verbs, NEW option \in Bytes
  PROVE  TelnetResponse(command, option) \in Seq(Bytes)
<1>1. "IAC" \in Bytes /\ Verbs \subseteq Bytes
  BY TelnetAssumption
<1>2. \A verb \in Verbs : <<"IAC", verb, option>> \in Seq(Bytes)
  BY <1>1
<1>3. TelnetResponse(command, option) \in {<<"IAC", verb, option>> : verb \in Verbs}
  BY DEF TelnetResponse, Verbs
<1> QED
  BY <1>2, <1>3

LEMMA FoundTyped ==
  ASSUME NEW data \in Seq(Bytes), NEW i \in 1 .. Len(data), NEW kind \in {"payload", "answers"}
  PROVE  FoundAt(data, i)[kind] \in Seq(Bytes)
<1>1. data[i] \in Bytes /\ <<data[i]>> \in Seq(Bytes) /\ <<>> \in Seq(Bytes)
  BY ElementOfSeq
<1>2. ASSUME Requested(data, i)
      PROVE  TelnetResponse(data[i + 1], data[i + 2]) \in Seq(Bytes)
  BY <1>2, ResponseTyped DEF Requested, Holds
<1>3. FoundAt(data, i)["payload"] \in Seq(Bytes)
  BY <1>1 DEF FoundAt
<1>4. FoundAt(data, i)["answers"] \in Seq(Bytes)
  BY <1>1, <1>2 DEF FoundAt
<1> QED
  BY <1>3, <1>4

\* The recursive function that Collected asks for exists, so that its equation holds.
LEMMA CollectedUnfolds ==
  ASSUME NEW data \in Seq(Bytes), NEW kind \in {"payload", "answers"}
  PROVE  /\ CollectedFrom(data, kind) \in [Positive -> Seq(Bytes)]
         /\ \A i \in Positive : i > Len(data) => CollectedFrom(data, kind)[i] = <<>>
         /\ \A i \in 1 .. Len(data) :
              CollectedFrom(data, kind)[i] =
                FoundAt(data, i)[kind] \o CollectedFrom(data, kind)[Onward(data, i)]
<1> DEFINE found == [i \in 1 .. Len(data) |-> FoundAt(data, i)[kind]]
           next == [i \in 1 .. Len(data) |-> Onward(data, i)]
           Loops(f) == f = [i \in Nat \ {0} |-> IF i > Len(data) THEN <<>>
                                               ELSE FoundAt(data, i)[kind] \o f[Onward(data, i)]]
<1>1. Len(data) \in Nat
  BY LenProperties
<1>2. \A i \in 1 .. Len(data) : found[i] \in Seq(Bytes) /\ next[i] \in Nat /\ next[i] > i
  BY FoundTyped, OnwardIsAhead
<1>3. ASSUME NEW f PROVE IsLoop(f, Len(data), found, next) <=> Loops(f)
  <2>1. \A i \in Positive : ~(i > Len(data)) => i \in 1 .. Len(data)
    BY <1>1 DEF Positive
  <2>2. \A i \in Positive : ~(i > Len(data)) =>
          found[i] = FoundAt(data, i)[kind] /\ next[i] = Onward(data, i)
    BY <2>1
  <2> HIDE DEF found, next
  <2>3. [i \in Positive |-> IF i > Len(data) THEN <<>> ELSE found[i] \o f[next[i]]]
        = [i \in Positive |-> IF i > Len(data) THEN <<>>
                              ELSE FoundAt(data, i)[kind] \o f[Onward(data, i)]]
    BY <2>2
  <2> QED
    BY <2>3 DEF IsLoop, Positive
<1> HIDE DEF found, next
<1>4. \E f : Loops(f)
  BY <1>1, <1>2, <1>3, LoopExists
<1>5. CollectedFrom(data, kind) = CHOOSE f : Loops(f)
  BY DEF CollectedFrom
<1> DEFINE c == CollectedFrom(data, kind)
<1> HIDE DEF c, Loops
<1>6. Loops(c)
  BY <1>4, <1>5 DEF c
<1>7. IsLoop(c, Len(data), found, next)
  BY <1>3, <1>6
<1>8. c \in [Positive -> Seq(Bytes)]
  BY <1>1, <1>2, <1>7, LoopTyped
<1>9. \A i \in Positive : c[i] = IF i > Len(data) THEN <<>>
                                 ELSE FoundAt(data, i)[kind] \o c[Onward(data, i)]
  BY <1>6 DEF Loops, Positive
<1>10. \A i \in 1 .. Len(data) : i \in Positive /\ ~(i > Len(data))
  BY <1>1 DEF Positive
<1>11. \A i \in Positive : i > Len(data) => c[i] = <<>>
  BY <1>9
<1>12. \A i \in 1 .. Len(data) : c[i] = FoundAt(data, i)[kind] \o c[Onward(data, i)]
  BY <1>9, <1>10
<1> QED
  BY <1>8, <1>11, <1>12 DEF c

-----------------------------------------------------------------------------
(* A unit that is read, whole or cut short.                                *)

\* data holds bytes after its first p.
At(data, p, bytes) ==
  /\ p + Len(bytes) <= Len(data)
  /\ \A k \in 1 .. Len(bytes) : data[p + k] = bytes[k]

\* The bytes that commands are made of.
LEMMA BytesKnown ==
  /\ {"IAC", "SB", "SE", "BINARY", "COM_PORT"} \cup Verbs \cup Sendable \subseteq Bytes
  /\ "IAC" \notin Verbs /\ "SB" \notin Verbs
BY TelnetAssumption DEF Verbs, Options

LEMMA EscapedIs ==
  ASSUME NEW b \in Bytes
  PROVE  /\ EscapeIac(b) \in Seq(Bytes) /\ EscapeIac(b)[1] = b
         /\ b # "IAC" => Len(EscapeIac(b)) = 1
         /\ b = "IAC" => Len(EscapeIac(b)) = 2 /\ EscapeIac(b)[2] = "IAC"
BY DEF EscapeIac

\* The bytes s of a notice of b, with b doubled when it is the escape byte.
IsNotice(s, b) ==
  /\ s \in Seq(Bytes)
  /\ s[1] = "IAC" /\ s[2] = "SB" /\ s[3] = "COM_PORT" /\ s[4] = b
  /\ b # "IAC" => Len(s) = 6 /\ s[5] = "IAC" /\ s[6] = "SE"
  /\ b = "IAC" => Len(s) = 7 /\ s[5] = "IAC" /\ s[6] = "IAC" /\ s[7] = "SE"

LEMMA SubnegotiationIs ==
  ASSUME NEW b \in Bytes
  PROVE  IsNotice(Subnegotiation(b).bytes, b)
<1> DEFINE s == Subnegotiation(b).bytes
<1>0. s = <<"IAC", "SB", "COM_PORT">> \o EscapeIac(b) \o <<"IAC", "SE">>
  BY DEF Subnegotiation
<1> HIDE DEF s
<1>1. ASSUME b # "IAC" PROVE IsNotice(s, b)
  <2>1. s = <<"IAC", "SB", "COM_PORT">> \o <<b>> \o <<"IAC", "SE">>
    BY <1>0, <1>1 DEF EscapeIac
  <2>2. /\ Len(s) = 6 /\ s[1] = "IAC" /\ s[2] = "SB" /\ s[3] = "COM_PORT" /\ s[4] = b
        /\ s[5] = "IAC" /\ s[6] = "SE"
    BY <2>1
  <2>3. s \in Seq(Bytes)
    BY <2>1, BytesKnown
  <2> QED
    BY <1>1, <2>2, <2>3 DEF IsNotice
<1>2. ASSUME b = "IAC" PROVE IsNotice(s, b)
  <2>1. s = <<"IAC", "SB", "COM_PORT">> \o <<b, b>> \o <<"IAC", "SE">>
    BY <1>0, <1>2 DEF EscapeIac
  <2>2. /\ Len(s) = 7 /\ s[1] = "IAC" /\ s[2] = "SB" /\ s[3] = "COM_PORT" /\ s[4] = b
        /\ s[5] = b /\ s[6] = "IAC" /\ s[7] = "SE"
    BY <2>1
  <2>3. s \in Seq(Bytes)
    BY <2>1, BytesKnown
  <2> QED
    BY <1>2, <2>2, <2>3 DEF IsNotice
<1>3. IsNotice(s, b)
  BY <1>1, <1>2
<1> QED
  BY <1>3 DEF s

LEMMA UnitTyped ==
  ASSUME NEW u \in Units, NEW kind \in {"payload", "answers"}
  PROVE  /\ u.bytes \in Seq(Bytes) /\ u.bytes # <<>>
         /\ u[kind] \in Seq(Bytes)
<1>1. ASSUME NEW b \in Sendable, u = Data(b)
      PROVE  /\ u.bytes \in Seq(Bytes) /\ u.bytes # <<>>
             /\ u.payload \in Seq(Bytes) /\ u.answers \in Seq(Bytes)
  BY <1>1, BytesKnown DEF Data, EscapeIac
<1>2. ASSUME NEW b \in Sendable, u = Subnegotiation(b)
      PROVE  /\ u.bytes \in Seq(Bytes) /\ u.bytes # <<>>
             /\ u.payload \in Seq(Bytes) /\ u.answers \in Seq(Bytes)
  <2>1. u.bytes \in Seq(Bytes) /\ Len(u.bytes) # 0
    <3>1. IsNotice(u.bytes, b)
      BY <1>2, BytesKnown, SubnegotiationIs
    <3> QED
      BY <3>1 DEF IsNotice
  <2>2. u.payload = <<>> /\ u.answers = <<>>
    BY <1>2 DEF Subnegotiation
  <2> QED
    BY <2>1, <2>2
<1>3. ASSUME NEW c \in Verbs, NEW o \in Sendable \cup {"BINARY"}, u = Request(c, o)
      PROVE  /\ u.bytes \in Seq(Bytes) /\ u.bytes # <<>>
             /\ u.payload \in Seq(Bytes) /\ u.answers \in Seq(Bytes)
  <2>1. c \in Bytes /\ o \in Bytes /\ "IAC" \in Bytes
    BY BytesKnown
  <2>2. TelnetResponse(c, o) \in Seq(Bytes)
    BY <2>1, ResponseTyped
  <2>3. u.bytes = <<"IAC", c, o>> /\ u.payload = <<>> /\ u.answers = TelnetResponse(c, o)
    BY <1>3 DEF Request
  <2> QED
    BY <2>1, <2>2, <2>3
<1> QED
  BY <1>1, <1>2, <1>3 DEF Units

\* The first IAC SE is where a command ends.
LEMMA EndIs ==
  ASSUME NEW data \in Seq(Bytes), NEW i \in Nat, NEW q \in Nat,
         i + 2 <= q, q + 1 <= Len(data), data[q] = "IAC", data[q + 1] = "SE",
         \A j \in i + 2 .. q - 1 : ~(data[j] = "IAC" /\ data[j + 1] = "SE")
  PROVE  EndOfSubnegotiation(data, i) = q + 2
<1> DEFINE ends == {j \in i + 2 .. Len(data) : data[j] = "IAC" /\ Holds(data, j + 1, {"SE"})}
<1>0. Len(data) \in Nat
  BY LenProperties
<1>1. q \in ends
  BY <1>0 DEF Holds
<1>2. ends \in SUBSET Nat
  BY <1>0
<1>3. \A j \in ends : j >= q
  <2> SUFFICES ASSUME NEW j \in ends, j < q PROVE FALSE
    BY <1>2
  <2>1. j \in i + 2 .. q - 1
    BY <1>0
  <2> QED
    BY <2>1 DEF Holds
<1>4. EndOfSubnegotiation(data, i) = Min(ends) + 2
  BY <1>1 DEF EndOfSubnegotiation
<1> HIDE DEF ends
<1>5. Min(ends) \in ends /\ \A y \in ends : Min(ends) <= y
  BY <1>1, <1>2, MinIs
<1>6. Min(ends) >= q /\ Min(ends) <= q /\ Min(ends) \in Nat
  BY <1>1, <1>2, <1>3, <1>5
<1>7. Min(ends) = q
  BY <1>6
<1> QED
  BY <1>4, <1>7

\* What reading the unit u at i comes to.
Reads(data, i, u) ==
  /\ FoundAt(data, i) = [payload |-> u.payload, answers |-> u.answers]
  /\ Onward(data, i) = i + Len(u.bytes)

LEMMA DataRead ==
  ASSUME NEW data \in Seq(Bytes), NEW p \in Nat, NEW b \in Bytes, At(data, p, Data(b).bytes)
  PROVE  Reads(data, p + 1, Data(b))
<1>0. /\ Len(data) \in Nat
      /\ Data(b).bytes = EscapeIac(b) /\ Data(b).payload = <<b>> /\ Data(b).answers = <<>>
  BY LenProperties DEF Data
<1>1. CASE b # "IAC"
  <2>1. Len(EscapeIac(b)) = 1 /\ EscapeIac(b)[1] = b
    BY <1>1, EscapedIs
  <2>2. data[p + 1] = b
    BY <1>0, <2>1 DEF At
  <2> QED
    BY <1>0, <1>1, <2>1, <2>2 DEF Reads, FoundAt, Onward, Requested
<1>2. CASE b = "IAC"
  <2>1. Len(EscapeIac(b)) = 2 /\ EscapeIac(b)[1] = "IAC" /\ EscapeIac(b)[2] = "IAC"
    BY <1>2, EscapedIs
  <2>2. data[p + 1] = "IAC" /\ data[p + 2] = "IAC" /\ p + 2 <= Len(data)
    BY <1>0, <2>1 DEF At
  <2>3. (p + 1) + 1 = p + 2 /\ (p + 1) + 2 = p + 3
    OBVIOUS
  <2>4. /\ Holds(data, (p + 1) + 1, {"IAC"}) /\ ~Holds(data, (p + 1) + 1, {"SB"})
        /\ ~Holds(data, (p + 1) + 1, Verbs)
    BY <2>2, <2>3, BytesKnown DEF Holds
  <2> QED
    BY <1>0, <1>2, <2>1, <2>2, <2>4 DEF Reads, FoundAt, Onward, Requested
<1> QED
  BY <1>1, <1>2

LEMMA RequestRead ==
  ASSUME NEW data \in Seq(Bytes), NEW p \in Nat, NEW c \in Verbs, NEW o \in Bytes,
         At(data, p, Request(c, o).bytes)
  PROVE  Reads(data, p + 1, Request(c, o))
<1>0. /\ Len(data) \in Nat
      /\ Request(c, o).bytes = <<"IAC", c, o>> /\ Request(c, o).payload = <<>>
      /\ Request(c, o).answers = TelnetResponse(c, o)
  BY LenProperties DEF Request
<1>1. /\ Len(<<"IAC", c, o>>) = 3 /\ <<"IAC", c, o>>[1] = "IAC"
      /\ <<"IAC", c, o>>[2] = c /\ <<"IAC", c, o>>[3] = o
  OBVIOUS
<1>2. data[p + 1] = "IAC" /\ data[p + 2] = c /\ data[p + 3] = o /\ p + 3 <= Len(data)
  BY <1>0, <1>1 DEF At
<1>3. (p + 1) + 1 = p + 2 /\ (p + 1) + 2 = p + 3
  OBVIOUS
<1>4. c # "IAC" /\ c # "SB"
  BY BytesKnown
<1>5. /\ ~Holds(data, (p + 1) + 1, {"IAC"}) /\ ~Holds(data, (p + 1) + 1, {"SB"})
      /\ Holds(data, (p + 1) + 1, Verbs) /\ Holds(data, (p + 1) + 2, Bytes)
  BY <1>0, <1>2, <1>3, <1>4 DEF Holds
<1>6. Requested(data, p + 1)
  BY <1>2, <1>5 DEF Requested
<1>7. FoundAt(data, p + 1) = [payload |-> <<>>, answers |-> TelnetResponse(c, o)]
  BY <1>2, <1>3, <1>5, <1>6 DEF FoundAt
<1>8. Onward(data, p + 1) = (p + 1) + 3
  BY <1>2, <1>5, <1>6 DEF Onward
<1> QED
  BY <1>0, <1>1, <1>7, <1>8 DEF Reads

LEMMA SubnegotiationRead ==
  ASSUME NEW data \in Seq(Bytes), NEW p \in Nat, NEW b \in Bytes,
         At(data, p, Subnegotiation(b).bytes)
  PROVE  Reads(data, p + 1, Subnegotiation(b))
<1> DEFINE s == Subnegotiation(b).bytes
           n == Len(s)
<1>0. /\ Len(data) \in Nat
      /\ Subnegotiation(b).payload = <<>> /\ Subnegotiation(b).answers = <<>>
  BY LenProperties DEF Subnegotiation
<1>1. /\ s \in Seq(Bytes)
      /\ s[1] = "IAC" /\ s[2] = "SB" /\ s[3] = "COM_PORT" /\ s[4] = b
      /\ b # "IAC" => n = 6 /\ s[5] = "IAC" /\ s[6] = "SE"
      /\ b = "IAC" => n = 7 /\ s[5] = "IAC" /\ s[6] = "IAC" /\ s[7] = "SE"
  <2>1. IsNotice(s, b)
    BY SubnegotiationIs
  <2> HIDE DEF s
  <2> QED
    BY <2>1 DEF IsNotice
<1>2. p + n <= Len(data) /\ \A k \in 1 .. n : data[p + k] = s[k]
  BY DEF At
<1> HIDE DEF s, n
<1>3. /\ s \in Seq(Bytes) /\ n \in {6, 7} /\ n \in Nat
      /\ \A k \in 1 .. 6 : k \in 1 .. n
      /\ n = 7 => 7 \in 1 .. n
  <2>1. s \in Seq(Bytes) /\ n \in {6, 7}
    BY <1>1
  <2>2. n \in Nat
    BY <2>1
  <2>3. \A k \in 1 .. 6 : k \in 1 .. n
    BY <2>1, <2>2
  <2> QED
    BY <2>1, <2>2, <2>3
<1>3a. /\ data[p + 1] = s[1] /\ data[p + 2] = s[2] /\ data[p + 3] = s[3]
       /\ data[p + 4] = s[4] /\ data[p + 5] = s[5] /\ data[p + 6] = s[6]
  BY <1>2, <1>3
<1>4. /\ data[p + 1] = "IAC" /\ data[p + 2] = "SB" /\ data[p + 3] = "COM_PORT"
      /\ data[p + 4] = b
  BY <1>1, <1>3a
<1>5. data[p + 5] = "IAC" /\ data[p + 6] = s[6] /\ (n = 7 => data[p + 7] = "SE")
  <2>1. n = 7 => data[p + 7] = s[7]
    BY <1>2, <1>3
  <2>2. s[5] = "IAC" /\ (n = 7 => s[7] = "SE")
    BY <1>1, <1>3
  <2>3. data[p + 5] = s[5] /\ data[p + 6] = s[6]
    BY <1>3a
  <2> QED
    BY <2>1, <2>2, <2>3
<1>6. EndOfSubnegotiation(data, p + 1) = (p + n - 1) + 2
  <2>1. p + n - 1 \in Nat /\ (p + 1) + 2 <= p + n - 1 /\ (p + n - 1) + 1 <= Len(data)
    BY <1>0, <1>2, <1>3
  <2>2. CASE n = 6
    <3>1. b # "IAC" /\ data[p + 6] = "SE"
      BY <1>1, <1>5, <2>2
    <3>2. p + n - 1 = p + 5 /\ (p + n - 1) + 1 = p + 6
      BY <2>2
    <3>3. \A j \in (p + 1) + 2 .. (p + n - 1) - 1 : j = p + 3 \/ j = p + 4
      BY <2>2
    <3>4. \A j \in (p + 1) + 2 .. (p + n - 1) - 1 : ~(data[j] = "IAC" /\ data[j + 1] = "SE")
      BY <1>4, <3>1, <3>3
    <3> QED
      BY <1>5, <2>1, <3>1, <3>2, <3>4, EndIs
  <2>3. CASE n = 7
    <3>1. b = "IAC" /\ data[p + 6] = "IAC" /\ data[p + 7] = "SE"
      BY <1>1, <1>5, <2>3
    <3>2. p + n - 1 = p + 6 /\ (p + n - 1) + 1 = p + 7
      BY <2>3
    <3>3. \A j \in (p + 1) + 2 .. (p + n - 1) - 1 : j = p + 3 \/ j = p + 4 \/ j = p + 5
      BY <2>3
    <3>4. (p + 3) + 1 = p + 4 /\ (p + 4) + 1 = p + 5 /\ (p + 5) + 1 = p + 6
      OBVIOUS
    <3>5. \A j \in (p + 1) + 2 .. (p + n - 1) - 1 : ~(data[j] = "IAC" /\ data[j + 1] = "SE")
      BY <1>4, <1>5, <3>1, <3>3, <3>4
    <3> QED
      BY <1>5, <2>1, <3>1, <3>2, <3>5, EndIs
  <2> QED
    BY <1>3, <2>2, <2>3
<1>7. (p + 1) + 1 = p + 2 /\ p + 2 <= Len(data)
  BY <1>0, <1>2, <1>3
<1>8. /\ ~Holds(data, (p + 1) + 1, {"IAC"}) /\ Holds(data, (p + 1) + 1, {"SB"})
      /\ ~Holds(data, (p + 1) + 1, Verbs)
  BY <1>4, <1>7, BytesKnown DEF Holds
<1>9. FoundAt(data, p + 1) = [payload |-> <<>>, answers |-> <<>>]
  BY <1>4, <1>8 DEF FoundAt, Requested
<1>10. Onward(data, p + 1) = (p + 1) + n
  <2>1. (p + n - 1) + 2 = (p + 1) + n
    BY <1>3
  <2> QED
    BY <1>4, <1>6, <1>8, <2>1 DEF Onward
<1> QED
  BY <1>0, <1>9, <1>10 DEF Reads, s, n

\* A unit that is there whole is understood, whatever follows it.
LEMMA UnitRead ==
  ASSUME NEW data \in Seq(Bytes), NEW p \in Nat, NEW u \in Units, At(data, p, u.bytes)
  PROVE  Reads(data, p + 1, u)
BY DataRead, RequestRead, SubnegotiationRead, BytesKnown DEF Units

\* Of a unit that is cut short nothing is taken, and nothing is left.
LEMMA UnitCut ==
  ASSUME NEW data \in Seq(Bytes), NEW p \in Nat, NEW u \in Units, NEW cut \in Nat,
         0 < cut, cut < Len(u.bytes), Len(data) = p + cut,
         \A k \in 1 .. cut : data[p + k] = u.bytes[k]
  PROVE  /\ FoundAt(data, p + 1) = [payload |-> <<>>, answers |-> <<>>]
         /\ Onward(data, p + 1) > Len(data)
<1>0. /\ u.bytes \in Seq(Bytes) /\ Len(u.bytes) \in Nat /\ Len(data) \in Nat
      /\ (p + 1) + 1 = p + 2 /\ (p + 1) + 2 = p + 3
  BY UnitTyped, LenProperties
<1>1. ASSUME NEW b \in Sendable, u = Data(b)
      PROVE  cut = 1 /\ u.bytes[1] = "IAC"
  <2>1. u.bytes = EscapeIac(b) /\ b \in Bytes
    BY <1>1, BytesKnown DEF Data
  <2>2. cut < Len(EscapeIac(b))
    BY <2>1
  <2>3. /\ EscapeIac(b) \in Seq(Bytes) /\ EscapeIac(b)[1] = b
        /\ b # "IAC" => Len(EscapeIac(b)) = 1
        /\ b = "IAC" => Len(EscapeIac(b)) = 2
    BY <2>1, EscapedIs
  <2>4. b = "IAC"
    <3> SUFFICES ASSUME b # "IAC" PROVE FALSE
      OBVIOUS
    <3>1. Len(EscapeIac(b)) = 1
      BY <2>3
    <3>2. cut < 1
      BY <2>2, <3>1
    <3> QED
      BY <3>2
  <2>5. Len(EscapeIac(b)) = 2
    BY <2>3, <2>4
  <2>6. cut < 2
    BY <2>2, <2>5
  <2>7. cut = 1
    BY <2>6
  <2> QED
    BY <2>1, <2>3, <2>4, <2>7
<1>2. ASSUME NEW c \in Verbs, NEW o \in Sendable \cup {"BINARY"}, u = Request(c, o)
      PROVE  cut \in {1, 2} /\ u.bytes[1] = "IAC" /\ u.bytes[2] \in Verbs
  <2>1. u.bytes = <<"IAC", c, o>>
    BY <1>2 DEF Request
  <2>2. /\ Len(<<"IAC", c, o>>) = 3 /\ <<"IAC", c, o>>[1] = "IAC" /\ <<"IAC", c, o>>[2] = c
    OBVIOUS
  <2> QED
    BY <2>1, <2>2
<1>3. CASE cut = 1 /\ u.bytes[1] = "IAC"
  <2>1. data[p + 1] = "IAC" /\ Len(data) = p + 1
    BY <1>3
  <2>2. \A S : ~Holds(data, (p + 1) + 1, S)
    BY <2>1 DEF Holds
  <2> QED
    BY <1>0, <2>1, <2>2 DEF FoundAt, Onward, Requested
<1>4. CASE cut = 2 /\ u.bytes[1] = "IAC" /\ u.bytes[2] \in Verbs
  <2>1. data[p + 1] = "IAC" /\ data[p + 2] \in Verbs /\ Len(data) = p + 2
    BY <1>4
  <2>2. \A S : ~Holds(data, (p + 1) + 2, S)
    BY <1>0, <2>1 DEF Holds
  <2>3. ~Holds(data, (p + 1) + 1, {"IAC"}) /\ ~Holds(data, (p + 1) + 1, {"SB"})
    BY <1>0, <2>1, BytesKnown DEF Holds
  <2> QED
    BY <1>0, <2>1, <2>2, <2>3 DEF FoundAt, Onward, Requested
<1>5. ASSUME NEW b \in Sendable, u = Subnegotiation(b), cut # 1
      PROVE  /\ FoundAt(data, p + 1) = [payload |-> <<>>, answers |-> <<>>]
             /\ Onward(data, p + 1) > Len(data)
  <2> DEFINE s == u.bytes
             n == Len(s)
  <2>1. /\ s[1] = "IAC" /\ s[2] = "SB" /\ s[3] = "COM_PORT" /\ s[4] = b
        /\ b # "IAC" => n = 6 /\ s[5] = "IAC" /\ s[6] = "SE"
        /\ b = "IAC" => n = 7 /\ s[5] = "IAC" /\ s[6] = "IAC" /\ s[7] = "SE"
    <3>1. b \in Bytes /\ s = Subnegotiation(b).bytes
      BY <1>5, BytesKnown
    <3>2. IsNotice(s, b)
      BY <3>1, SubnegotiationIs
    <3> HIDE DEF s
    <3> QED
      BY <3>2 DEF IsNotice
  <2>2. cut >= 2 /\ cut \in 2 .. n - 1
    BY <1>0, <1>5
  <2> HIDE DEF n
  <2>3. s \in Seq(Bytes) /\ n \in {6, 7} /\ n \in Nat /\ \A k \in 1 .. cut : data[p + k] = s[k]
    <3>1. n \in {6, 7}
      BY <2>1
    <3> QED
      BY <1>0, <3>1
  <2> HIDE DEF s
  <2>4. data[p + 1] = "IAC" /\ data[p + 2] = "SB" /\ p + 2 <= Len(data)
    <3>1. 1 \in 1 .. cut /\ 2 \in 1 .. cut /\ p + 2 <= Len(data)
      BY <1>0, <2>2
    <3>2. data[p + 1] = s[1] /\ data[p + 2] = s[2]
      BY <2>3, <3>1
    <3> QED
      BY <2>1, <3>1, <3>2
  <2>5. \A k \in 3 .. cut - 1 : ~(s[k] = "IAC" /\ s[k + 1] = "SE")
    <3>0. cut <= 6 /\ (n = 6 => cut <= 5)
      BY <2>2, <2>3
    <3>1. \A k \in 3 .. cut - 1 : k = 3 \/ k = 4 \/ k = 5
      BY <3>0
    <3>2. ~(s[3] = "IAC") /\ ~(s[4] = "IAC" /\ s[5] = "SE")
      BY <2>1, <2>3
    <3>3. 5 \in 3 .. cut - 1 => s[6] # "SE"
      <4>1. 5 \in 3 .. cut - 1 => n = 7
        BY <2>3, <3>0
      <4>2. n = 7 => b = "IAC"
        BY <2>1
      <4> QED
        BY <2>1, <4>1, <4>2
    <3>4. 3 + 1 = 4 /\ 4 + 1 = 5 /\ 5 + 1 = 6
      OBVIOUS
    <3> QED
      BY <3>1, <3>2, <3>3, <3>4
  <2>6. \A j \in (p + 1) + 2 .. Len(data) :
          ~(data[j] = "IAC" /\ Holds(data, j + 1, {"SE"}))
    <3> SUFFICES ASSUME NEW j \in (p + 1) + 2 .. Len(data), j + 1 <= Len(data),
                        data[j] = "IAC", data[j + 1] = "SE"
                 PROVE  FALSE
      BY DEF Holds
    <3>1. /\ j - p \in 3 .. cut - 1 /\ j - p \in 1 .. cut /\ (j - p) + 1 \in 1 .. cut
          /\ p + (j - p) = j /\ p + ((j - p) + 1) = j + 1
      BY <1>0, <2>2
    <3>2. s[j - p] = "IAC" /\ s[(j - p) + 1] = "SE"
      BY <2>3, <3>1
    <3> QED
      BY <2>5, <3>1, <3>2
  <2>7. EndOfSubnegotiation(data, p + 1) = Len(data) + 1
    BY <2>6 DEF EndOfSubnegotiation
  <2>8. /\ ~Holds(data, (p + 1) + 1, {"IAC"}) /\ Holds(data, (p + 1) + 1, {"SB"})
        /\ ~Holds(data, (p + 1) + 1, Verbs)
    BY <1>0, <2>4, BytesKnown DEF Holds
  <2>9. Onward(data, p + 1) = Len(data) + 1
    BY <2>4, <2>7, <2>8 DEF Onward
  <2> QED
    BY <1>0, <2>4, <2>8, <2>9 DEF FoundAt, Requested
<1>6. ASSUME NEW b \in Sendable, u = Subnegotiation(b)
      PROVE  u.bytes[1] = "IAC"
  <2>1. b \in Bytes /\ u.bytes = Subnegotiation(b).bytes
    BY <1>6, BytesKnown
  <2>2. IsNotice(u.bytes, b)
    BY <2>1, SubnegotiationIs
  <2> QED
    BY <2>2 DEF IsNotice
<1> QED
  BY <1>1, <1>2, <1>3, <1>4, <1>5, <1>6 DEF Units

-----------------------------------------------------------------------------
(* A stream of units, and the piece that ends in one of them.              *)

Kinds == {"payload", "answers"}

LEMMA FieldTyped ==
  ASSUME NEW u \in Units, NEW field \in {"bytes"} \cup Kinds
  PROVE  u[field] \in Seq(Bytes)
<1>1. u["bytes"] \in Seq(Bytes)
  BY UnitTyped
<1>2. CASE field \in Kinds
  BY <1>2, UnitTyped DEF Kinds
<1> QED
  BY <1>1, <1>2

LEMMA AllEmpty ==
  ASSUME NEW field
  PROVE  All(<<>>, field) = <<>>
<1>1. [n \in DOMAIN <<>> |-> <<>>[n][field]] = <<>>
  OBVIOUS
<1> QED
  BY <1>1, FlattenEmpty DEF All

LEMMA AllLast ==
  ASSUME NEW stream \in Seq(Units), NEW field \in {"bytes"} \cup Kinds
  PROVE  /\ All(stream, field) \in Seq(Bytes)
         /\ stream # <<>> =>
              All(stream, field) = All(Front(stream), field) \o Last(stream)[field]
<1> DEFINE column == [n \in DOMAIN stream |-> stream[n][field]]
<1>1. Len(stream) \in Nat /\ DOMAIN stream = 1 .. Len(stream)
      /\ \A n \in 1 .. Len(stream) : stream[n] \in Units
  BY LenProperties, ElementOfSeq
<1>2. \A n \in 1 .. Len(stream) : stream[n][field] \in Seq(Bytes)
  BY <1>1, FieldTyped
<1>3. column \in Seq(Seq(Bytes)) /\ Len(column) = Len(stream)
      /\ \A n \in 1 .. Len(stream) : column[n] = stream[n][field]
  BY <1>1, <1>2, IsASeq
<1>4. All(stream, field) = FlattenSeq(column)
  BY DEF All
<1> HIDE DEF column
<1>5. All(stream, field) \in Seq(Bytes)
  BY <1>3, <1>4, FlattenTyped
<1>6. ASSUME stream # <<>>
      PROVE  All(stream, field) = All(Front(stream), field) \o Last(stream)[field]
  <2>1. Len(stream) \in Nat \ {0} /\ column # <<>>
    BY <1>3, <1>6, EmptySeq
  <2>2. Front(stream) \in Seq(Units) /\ Len(Front(stream)) = Len(stream) - 1
        /\ \A i \in 1 .. Len(stream) - 1 : Front(stream)[i] = stream[i]
    BY <1>6, FrontProperties
  <2>3. Front(column) \in Seq(Seq(Bytes)) /\ Len(Front(column)) = Len(stream) - 1
        /\ \A i \in 1 .. Len(stream) - 1 : Front(column)[i] = column[i]
    BY <1>3, <2>1, FrontProperties
  <2>4. Front(column) = [n \in DOMAIN Front(stream) |-> Front(stream)[n][field]]
    <3>1. DOMAIN Front(stream) = 1 .. Len(stream) - 1
      BY <2>2, LenProperties
    <3>2. DOMAIN Front(column) = 1 .. Len(stream) - 1
      BY <2>3, LenProperties
    <3>3. Front(column) = [n \in 1 .. Len(stream) - 1 |-> Front(column)[n]]
      BY <2>3, <3>2, LenProperties
    <3>4. \A n \in 1 .. Len(stream) - 1 : n \in 1 .. Len(stream)
      BY <1>1
    <3>5. \A n \in 1 .. Len(stream) - 1 : Front(column)[n] = Front(stream)[n][field]
      BY <1>3, <2>2, <2>3, <3>4
    <3> QED
      BY <3>1, <3>3, <3>5
  <2>5. FlattenSeq(Front(column)) = All(Front(stream), field)
    BY <2>4 DEF All
  <2>6. Last(column) = Last(stream)[field]
    BY <1>3, <2>1 DEF Last
  <2>7. FlattenSeq(column) = FlattenSeq(Front(column)) \o Last(column)
    BY <1>3, <2>1, FlattenLast
  <2> QED
    BY <1>4, <2>5, <2>6, <2>7
<1> QED
  BY <1>5, <1>6

\* Where a second sequence lies in two that are joined.
LEMMA JoinedAt ==
  ASSUME NEW w \in Seq(Bytes), NEW t \in Seq(Bytes)
  PROVE  At(w \o t, Len(w), t)
<1>1. Len(w) \in Nat /\ Len(t) \in Nat /\ Len(w \o t) = Len(w) + Len(t)
  BY LenProperties, ConcatProperties
<1>2. \A i \in 1 .. Len(w) + Len(t) : (w \o t)[i] = IF i <= Len(w) THEN w[i] ELSE t[i - Len(w)]
  BY ConcatProperties
<1>3. ASSUME NEW k \in 1 .. Len(t) PROVE (w \o t)[Len(w) + k] = t[k]
  <2>1. Len(w) + k \in 1 .. Len(w) + Len(t) /\ ~(Len(w) + k <= Len(w)) /\ (Len(w) + k) - Len(w) = k
    BY <1>1
  <2> QED
    BY <1>2, <2>1
<1> QED
  BY <1>1, <1>3 DEF At

LEMMA AtPrefix ==
  ASSUME NEW data \in Seq(Bytes), NEW p \in Nat, NEW a \in Seq(Bytes), NEW b \in Seq(Bytes),
         At(data, p, a \o b)
  PROVE  At(data, p, a)
<1>1. Len(a) \in Nat /\ Len(b) \in Nat /\ Len(data) \in Nat /\ Len(a \o b) = Len(a) + Len(b)
  BY LenProperties, ConcatProperties
<1>2. \A i \in 1 .. Len(a) + Len(b) : (a \o b)[i] = IF i <= Len(a) THEN a[i] ELSE b[i - Len(a)]
  BY ConcatProperties
<1>3. \A k \in 1 .. Len(a) : k \in 1 .. Len(a) + Len(b) /\ k <= Len(a)
  BY <1>1
<1>4. \A k \in 1 .. Len(a) : data[p + k] = a[k]
  BY <1>1, <1>2, <1>3 DEF At
<1> QED
  BY <1>1, <1>4 DEF At

\* Joining is associative, for a name of it that the provers do not look into.
Joined(a, b) == a \o b

LEMMA JoinAssociates ==
  ASSUME NEW a \in Seq(Bytes), NEW b \in Seq(Bytes), NEW c \in Seq(Bytes)
  PROVE  Joined(Joined(a, b), c) = Joined(a, Joined(b, c))
<1> DEFINE x == a \o b
           y == b \o c
<1>1. /\ Len(a) \in Nat /\ Len(b) \in Nat /\ Len(c) \in Nat
      /\ x \in Seq(Bytes) /\ Len(x) = Len(a) + Len(b)
      /\ y \in Seq(Bytes) /\ Len(y) = Len(b) + Len(c)
  BY LenProperties, ConcatProperties
<1>2. /\ \A i \in 1 .. Len(a) + Len(b) : x[i] = IF i <= Len(a) THEN a[i] ELSE b[i - Len(a)]
      /\ \A i \in 1 .. Len(b) + Len(c) : y[i] = IF i <= Len(b) THEN b[i] ELSE c[i - Len(b)]
  BY ConcatProperties
<1>3. Joined(a, b) = x /\ Joined(b, c) = y
  BY DEF Joined
<1> HIDE DEF x, y
<1> DEFINE l == x \o c
           r == a \o y
<1>4. /\ l \in Seq(Bytes) /\ Len(l) = Len(x) + Len(c)
      /\ \A i \in 1 .. Len(x) + Len(c) : l[i] = IF i <= Len(x) THEN x[i] ELSE c[i - Len(x)]
  BY <1>1, ConcatProperties
<1>5. /\ r \in Seq(Bytes) /\ Len(r) = Len(a) + Len(y)
      /\ \A i \in 1 .. Len(a) + Len(y) : r[i] = IF i <= Len(a) THEN a[i] ELSE y[i - Len(a)]
  <2>1. a \in Seq(Bytes) /\ y \in Seq(Bytes)
    BY <1>1
  <2> HIDE DEF r
  <2>2. /\ Joined(a, y) \in Seq(Bytes) /\ Len(Joined(a, y)) = Len(a) + Len(y)
        /\ \A i \in 1 .. Len(a) + Len(y) :
             Joined(a, y)[i] = IF i <= Len(a) THEN a[i] ELSE y[i - Len(a)]
    BY <2>1, ConcatProperties DEF Joined
  <2> QED
    BY <2>2 DEF Joined, r
<1>6. Joined(x, c) = l /\ Joined(a, y) = r
  BY DEF Joined
<1> HIDE DEF l, r
<1>7. Len(l) = Len(r)
  BY <1>1, <1>4, <1>5
<1>8. ASSUME NEW i \in 1 .. Len(l) PROVE l[i] = r[i]
  <2>1. i \in Nat /\ i \in 1 .. Len(a) + Len(b) + Len(c)
    BY <1>1, <1>4
  <2>2. CASE i <= Len(a)
    <3>1. /\ i \in 1 .. Len(a) + Len(b) /\ i \in 1 .. Len(x) + Len(c)
          /\ i \in 1 .. Len(a) + Len(y) /\ i <= Len(x)
      BY <1>1, <2>1, <2>2
    <3>2. l[i] = x[i] /\ x[i] = a[i]
      BY <1>2, <1>4, <2>2, <3>1
    <3>3. r[i] = a[i]
      BY <1>5, <2>2, <3>1
    <3> QED
      BY <3>2, <3>3
  <2>3. CASE ~(i <= Len(a)) /\ i <= Len(a) + Len(b)
    <3>1. /\ i \in 1 .. Len(a) + Len(b) /\ i \in 1 .. Len(x) + Len(c)
          /\ i \in 1 .. Len(a) + Len(y) /\ i <= Len(x)
          /\ i - Len(a) \in 1 .. Len(b) + Len(c) /\ i - Len(a) <= Len(b)
      BY <1>1, <2>1, <2>3
    <3>2. l[i] = x[i] /\ x[i] = b[i - Len(a)]
      BY <1>2, <1>4, <2>3, <3>1
    <3>3. r[i] = y[i - Len(a)] /\ y[i - Len(a)] = b[i - Len(a)]
      BY <1>2, <1>5, <2>3, <3>1
    <3> QED
      BY <3>2, <3>3
  <2>4. CASE ~(i <= Len(a) + Len(b))
    <3>1. l[i] = c[i - (Len(a) + Len(b))]
      BY <1>1, <1>4, <2>1, <2>4
    <3>2. i - Len(a) \in 1 .. Len(b) + Len(c) /\ ~(i - Len(a) <= Len(b))
          /\ (i - Len(a)) - Len(b) = i - (Len(a) + Len(b))
      BY <1>1, <2>1, <2>4
    <3>3. r[i] = y[i - Len(a)]
      BY <1>1, <1>5, <2>1, <2>4
    <3> QED
      BY <1>2, <3>1, <3>2, <3>3
  <2> QED
    BY <1>1, <2>1, <2>2, <2>3, <2>4
<1>9. l = r
  BY <1>4, <1>5, <1>7, <1>8, SeqEqual
<1> QED
  BY <1>3, <1>6, <1>9

\* The units of a stream are understood one by one, and the loop goes on behind them.
ReadsThrough(stream, tail, kind) ==
  LET wire == All(stream, "bytes")
      from == CollectedFrom(wire \o tail, kind)
  IN  from[1] = All(stream, kind) \o from[Len(wire) + 1]

LEMMA StreamRead ==
  ASSUME NEW stream \in Seq(Units), NEW tail \in Seq(Bytes), NEW kind \in Kinds
  PROVE  ReadsThrough(stream, tail, kind)
<1> DEFINE T == {n \in Nat : \A s \in Seq(Units), t \in Seq(Bytes) :
                                Len(s) = n => ReadsThrough(s, t, kind)}
<1>1. 0 \in T
  <2> SUFFICES ASSUME NEW s \in Seq(Units), NEW t \in Seq(Bytes), Len(s) = 0
               PROVE  ReadsThrough(s, t, kind)
    OBVIOUS
  <2>1. s = <<>>
    BY EmptySeq
  <2>2. All(s, "bytes") = <<>> /\ All(s, kind) = <<>>
    BY <2>1, AllEmpty
  <2>3. Len(All(s, "bytes")) + 1 = 1
    BY <2>2
  <2>4. <<>> \o t = t /\ 1 \in Positive
    BY ConcatEmptySeq DEF Positive
  <2>5. CollectedFrom(t, kind)[1] \in Seq(Bytes)
    BY <2>4, CollectedUnfolds DEF Kinds
  <2>6. CollectedFrom(t, kind)[1] = <<>> \o CollectedFrom(t, kind)[1]
    BY <2>5, ConcatEmptySeq
  <2> QED
    BY <2>2, <2>3, <2>4, <2>6 DEF ReadsThrough
<1>2. ASSUME NEW n \in Nat, n \in T PROVE n + 1 \in T
  <2> SUFFICES ASSUME NEW s \in Seq(Units), NEW t \in Seq(Bytes), Len(s) = n + 1
               PROVE  ReadsThrough(s, t, kind)
    OBVIOUS
  <2> DEFINE u == Last(s)
             wire == All(Front(s), "bytes")
             data == wire \o (u.bytes \o t)
             from == CollectedFrom(data, kind)
  <2>1. s # <<>> /\ kind \in {"bytes"} \cup Kinds
    BY EmptySeq
  <2>2. Front(s) \in Seq(Units) /\ Len(Front(s)) = n /\ u \in Units
    <3>1. /\ Front(s) \in Seq(Units) /\ Len(Front(s)) = Len(s) - 1 /\ u \in Units
      BY <2>1, FrontProperties
    <3>2. Len(s) - 1 = n
      OBVIOUS
    <3> QED
      BY <3>1, <3>2
  <2>3. /\ wire \in Seq(Bytes) /\ u.bytes \in Seq(Bytes) /\ u[kind] \in Seq(Bytes)
        /\ u.bytes # <<>>
        /\ All(Front(s), kind) \in Seq(Bytes)
    BY <2>1, <2>2, AllLast, UnitTyped DEF Kinds
  <2>4. All(s, "bytes") = wire \o u.bytes /\ All(s, kind) = All(Front(s), kind) \o u[kind]
    BY <2>1, AllLast
  <2> HIDE DEF u, wire
  <2>5. u.bytes \o t \in Seq(Bytes) /\ data \in Seq(Bytes)
    BY <2>3, ConcatProperties
  <2>6. (wire \o u.bytes) \o t = data
    <3>1. wire \in Seq(Bytes) /\ u.bytes \in Seq(Bytes) /\ t \in Seq(Bytes)
      BY <2>3
    <3> DEFINE v == u.bytes
    <3> HIDE DEF v
    <3>2. v \in Seq(Bytes)
      BY <3>1 DEF v
    <3>3. Joined(Joined(wire, v), t) = Joined(wire, Joined(v, t))
      BY <3>1, <3>2, JoinAssociates
    <3> QED
      BY <3>3 DEF v, Joined
  <2>7. At(data, Len(wire), u.bytes \o t)
    BY <2>3, <2>5, JoinedAt
  <2>8. Len(wire) \in Nat /\ Len(u.bytes) \in Nat \ {0}
        /\ Len(wire \o u.bytes) = Len(wire) + Len(u.bytes)
    BY <2>3, LenProperties, EmptySeq, ConcatProperties
  <2>9. from[1] = All(Front(s), kind) \o from[Len(wire) + 1]
    <3>1. ReadsThrough(Front(s), u.bytes \o t, kind)
      BY <1>2, <2>2, <2>5
    <3> QED
      BY <3>1 DEF ReadsThrough, wire
  <2> HIDE DEF data
  <2>10. At(data, Len(wire), u.bytes)
    BY <2>3, <2>5, <2>7, <2>8, AtPrefix
  <2>11. Reads(data, Len(wire) + 1, u)
    BY <2>2, <2>5, <2>8, <2>10, UnitRead
  <2>12. Len(wire) + 1 \in 1 .. Len(data)
    <3>1. Len(data) \in Nat /\ Len(wire) + Len(u.bytes) <= Len(data)
      BY <2>5, <2>10, LenProperties DEF At
    <3> QED
      BY <2>8, <3>1
  <2>13. from[Len(wire) + 1]
          = FoundAt(data, Len(wire) + 1)[kind] \o from[Onward(data, Len(wire) + 1)]
    <3>1. \A i \in 1 .. Len(data) : from[i] = FoundAt(data, i)[kind] \o from[Onward(data, i)]
      BY <2>5, CollectedUnfolds DEF Kinds
    <3> HIDE DEF from
    <3> QED
      BY <2>12, <3>1
  <2>14. FoundAt(data, Len(wire) + 1)[kind] = u[kind]
    <3>1. FoundAt(data, Len(wire) + 1) = [payload |-> u.payload, answers |-> u.answers]
      BY <2>11 DEF Reads
    <3>2. [payload |-> u.payload, answers |-> u.answers][kind] = u[kind]
      BY DEF Kinds
    <3> QED
      BY <3>1, <3>2
  <2> DEFINE next == (Len(wire) + 1) + Len(u.bytes)
  <2>15. Onward(data, Len(wire) + 1) = next /\ next \in Positive
         /\ Len(wire \o u.bytes) + 1 = next
    <3>1. Onward(data, Len(wire) + 1) = next
      BY <2>11 DEF Reads
    <3>2. next \in Positive /\ (Len(wire) + Len(u.bytes)) + 1 = next
      <4>1. \A m, k \in Nat : (m + 1) + k \in Positive /\ (m + k) + 1 = (m + 1) + k
        BY DEF Positive
      <4> QED
        BY <2>8, <4>1
    <3> QED
      BY <2>8, <3>1, <3>2
  <2>16. from[next] \in Seq(Bytes)
    BY <2>5, <2>15, CollectedUnfolds DEF Kinds
  <2> HIDE DEF from, next
  <2>17. from[1] = All(Front(s), kind) \o (u[kind] \o from[next])
    BY <2>9, <2>13, <2>14, <2>15
  <2>18. (All(Front(s), kind) \o u[kind]) \o from[next]
          = All(Front(s), kind) \o (u[kind] \o from[next])
    <3> DEFINE a == All(Front(s), kind)
               b == u[kind]
               c == from[next]
    <3>1. a \in Seq(Bytes) /\ b \in Seq(Bytes) /\ c \in Seq(Bytes)
      BY <2>3, <2>16
    <3> HIDE DEF a, b, c
    <3>2. Joined(Joined(a, b), c) = Joined(a, Joined(b, c))
      BY <3>1, JoinAssociates
    <3> QED
      BY <3>2 DEF a, b, c, Joined
  <2>19. from[1] = All(s, kind) \o from[Len(All(s, "bytes")) + 1]
    BY <2>4, <2>15, <2>17, <2>18
  <2> QED
    BY <2>4, <2>6, <2>19 DEF ReadsThrough, from
<1> HIDE DEF T
<1>3. Nat \subseteq T
  BY <1>1, <1>2, Induction
<1>4. Len(stream) \in T
  BY <1>3, LenProperties
<1> QED
  BY <1>4 DEF T

\* What is collected of a piece that begins between two units.
LEMMA PieceRead ==
  ASSUME NEW stream \in Seq(Units), stream # <<>>,
         NEW cut \in 1 .. Len(Last(stream).bytes), NEW kind \in Kinds
  PROVE  Collected(All(Front(stream), "bytes") \o SubSeq(Last(stream).bytes, 1, cut), kind)
          = All(IF cut = Len(Last(stream).bytes) THEN stream ELSE Front(stream), kind)
<1> DEFINE u == Last(stream)
           wire == All(Front(stream), "bytes")
           t == SubSeq(u.bytes, 1, cut)
           data == wire \o t
           from == CollectedFrom(data, kind)
<1>1. Front(stream) \in Seq(Units) /\ u \in Units
  BY FrontProperties
<1>2. /\ wire \in Seq(Bytes) /\ All(Front(stream), kind) \in Seq(Bytes)
      /\ u.bytes \in Seq(Bytes) /\ u[kind] \in Seq(Bytes)
      /\ All(stream, kind) = All(Front(stream), kind) \o u[kind]
  BY <1>1, AllLast, UnitTyped DEF Kinds
<1>3. Len(u.bytes) \in Nat /\ cut \in Nat /\ 0 < cut /\ cut <= Len(u.bytes)
      /\ \A k \in 1 .. Len(u.bytes) : u.bytes[k] \in Bytes
  BY <1>2, LenProperties, ElementOfSeq
<1>4. t \in Seq(Bytes) /\ Len(t) = cut /\ \A k \in 1 .. cut : t[k] = u.bytes[k]
  <2>1. \A k \in 1 .. cut : u.bytes[k] \in Bytes
    BY <1>3
  <2>2. /\ t \in Seq(Bytes)
        /\ Len(t) = IF 1 <= cut THEN cut - 1 + 1 ELSE 0
        /\ \A k \in 1 .. cut - 1 + 1 : t[k] = u.bytes[1 + k - 1]
    BY <1>3, <2>1, SubSeqProperties
  <2>3. cut - 1 + 1 = cut /\ 1 <= cut /\ \A k \in 1 .. cut : 1 + k - 1 = k
    BY <1>3
  <2> HIDE DEF t
  <2>4. \A k \in 1 .. cut : k \in 1 .. cut - 1 + 1
    BY <1>3
  <2>5. \A k \in 1 .. cut : t[k] = u.bytes[k]
    BY <2>2, <2>3, <2>4
  <2> QED
    BY <2>2, <2>3, <2>5
<1>5. cut = Len(u.bytes) => t = u.bytes
  BY <1>2, SubSeqFull
<1>6. from[1] = All(Front(stream), kind) \o from[Len(wire) + 1]
  <2>1. ReadsThrough(Front(stream), t, kind)
    BY <1>1, <1>4, StreamRead
  <2> QED
    BY <2>1 DEF ReadsThrough
<1>7. Collected(data, kind) = from[1]
  BY DEF Collected
<1> HIDE DEF u, wire, t
<1>8. data \in Seq(Bytes) /\ Len(data) = Len(wire) + cut /\ Len(wire) \in Nat
      /\ At(data, Len(wire), t)
  BY <1>2, <1>4, LenProperties, ConcatProperties, JoinedAt
<1> HIDE DEF data
<1>9. /\ from \in [Positive -> Seq(Bytes)]
      /\ \A i \in Positive : i > Len(data) => from[i] = <<>>
      /\ \A i \in 1 .. Len(data) : from[i] = FoundAt(data, i)[kind] \o from[Onward(data, i)]
  BY <1>8, CollectedUnfolds DEF Kinds
<1> HIDE DEF from
<1>10. Len(wire) + 1 \in 1 .. Len(data) /\ Len(data) \in Nat
  BY <1>3, <1>8
<1>11. Onward(data, Len(wire) + 1) \in Nat /\ Onward(data, Len(wire) + 1) > Len(wire) + 1
  BY <1>8, <1>10, OnwardIsAhead
<1>12. CASE cut = Len(u.bytes)
  <2>1. Reads(data, Len(wire) + 1, u)
    BY <1>1, <1>5, <1>8, <1>12, UnitRead
  <2>2. FoundAt(data, Len(wire) + 1)[kind] = u[kind]
    BY <2>1 DEF Reads, Kinds
  <2>3. Onward(data, Len(wire) + 1) \in Positive /\ Onward(data, Len(wire) + 1) > Len(data)
    <3>1. Onward(data, Len(wire) + 1) = (Len(wire) + 1) + Len(u.bytes)
      BY <2>1 DEF Reads
    <3>2. Len(data) = Len(wire) + Len(u.bytes)
      BY <1>8, <1>12
    <3>3. \A m, k \in Nat : (m + 1) + k \in Positive /\ (m + 1) + k > m + k
      BY DEF Positive
    <3> QED
      BY <1>3, <1>8, <3>1, <3>2, <3>3
  <2>4. from[Len(wire) + 1] = u[kind]
    BY <1>2, <1>9, <1>10, <2>2, <2>3, ConcatEmptySeq
  <2> QED
    BY <1>2, <1>6, <1>7, <1>12, <2>4 DEF u, wire, t, data
<1>13. CASE cut # Len(u.bytes)
  <2>1. cut < Len(u.bytes) /\ \A k \in 1 .. cut : data[Len(wire) + k] = u.bytes[k]
    <3>1. cut < Len(u.bytes) /\ Len(t) = cut
      BY <1>3, <1>4, <1>13
    <3>2. \A k \in 1 .. Len(t) : data[Len(wire) + k] = t[k]
      BY <1>8 DEF At
    <3> QED
      BY <1>4, <3>1, <3>2
  <2>2. /\ FoundAt(data, Len(wire) + 1) = [payload |-> <<>>, answers |-> <<>>]
        /\ Onward(data, Len(wire) + 1) > Len(data)
    BY <1>1, <1>3, <1>8, <2>1, UnitCut
  <2>3. FoundAt(data, Len(wire) + 1)[kind] = <<>>
    BY <2>2 DEF Kinds
  <2>4. Onward(data, Len(wire) + 1) \in Positive
    BY <1>8, <1>11 DEF Positive
  <2>5. from[Len(wire) + 1] = <<>>
    BY <1>9, <1>10, <2>2, <2>3, <2>4, ConcatEmptySeq
  <2>6. from[1] = All(Front(stream), kind)
    BY <1>2, <1>6, <2>5, ConcatEmptySeq
  <2> QED
    BY <1>7, <1>13, <2>6 DEF u, wire, t, data
<1> QED
  BY <1>12, <1>13

LEMMA StreamsAre ==
  ASSUME NEW stream \in Streams
  PROVE  stream \in Seq(Units) /\ stream # <<>>
<1>1. PICK n \in 1 .. UNITS : stream \in [1 .. n -> Units]
  BY DEF Streams
<1>2. n \in Nat /\ n # 0
  BY <1>1, TelnetAssumption
<1>3. stream \in Seq(Units) /\ Len(stream) = n
  BY <1>1, <1>2, IsASeq, LenProperties
<1> QED
  BY <1>2, <1>3

\* Whatever recv brings, the piece is understood if it begins between two units.
LEMMA RecvPieceUnderstood ==
  ASSUME NEW stream \in Streams, NEW cut \in 1 .. Len(Last(stream).bytes),
         RecvPiece(stream, cut)
  PROVE  PieceUnderstood'
<1> SUFFICES ASSUME rest = <<>> PROVE PieceUnderstood'
  BY DEF RecvPiece, PieceUnderstood
<1> DEFINE last == Last(stream).bytes
           wire == All(Front(stream), "bytes")
           data == rest \o wire \o SubSeq(last, 1, cut)
           held == IF cut = Len(last) THEN stream ELSE Front(stream)
<1>1. stream \in Seq(Units) /\ stream # <<>>
  BY StreamsAre
<1>2. wire \in Seq(Bytes)
  BY <1>1, FrontProperties, AllLast
<1>3. rest \o wire = wire
  BY <1>2, ConcatEmptySeq
<1>4. \A kind \in Kinds : Collected(data, kind) = All(held, kind)
  BY <1>1, <1>3, PieceRead
<1>5. piece' = [between |-> rest = <<>>, held |-> held,
                payload |-> Collected(data, "payload"), answers |-> Collected(data, "answers")]
  BY DEF RecvPiece
<1> HIDE DEF data, held
<1> QED
  BY <1>4, <1>5 DEF PieceUnderstood, Kinds

-----------------------------------------------------------------------------
(* The filter and the reader.                                              *)

\* The filter and the reader agree on the sample they wait on, which is the newest
\* legal one if there was any, else the newest.
Filtered ==
  /\ last_valid = shown
  /\ final_snapshot = IF shown # NULL THEN shown ELSE raw
  /\ last_key = final_snapshot
  /\ shown = NULL => raw \notin Legal
  /\ raw = NULL => shown = NULL

\* Since when the sample waited on is the only one received.
Since == IF shown # NULL THEN shown_since ELSE raw_since

\* The reader never counts stability from before that.
Timed ==
  /\ shown_since <= now /\ raw_since <= now
  /\ stable_since # NULL => stable_since >= Since

\* What is known once the reading has ended.
Concluded ==
  /\ reason = "stable" => phase # "reading" /\ now - Since >= STABLE
  /\ phase = "judged" /\ error = "none" => final_snapshot \in Passing

ReaderInv == TypeOK /\ Filtered /\ Timed /\ Concluded

\* The mode of reading stays, and its fields are numbers.
LEMMA SettingsKept ==
  ASSUME ReaderInv, UNCHANGED settings
  PROVE  STABLE \in Nat /\ MAX_PAYLOAD \in Nat /\ STABLE' = STABLE
BY SerialReaderAssumption DEF ReaderInv, TypeOK, STABLE, MAX_PAYLOAD

LEMMA ReaderInvInit == Init => ReaderInv
BY SerialReaderAssumption
   DEF Init, ReaderInv, TypeOK, Filtered, Timed, Concluded, Since, Time

-----------------------------------------------------------------------------
(* A sample is received.                                                   *)

LEMMA ReceiveSample ==
  ASSUME ReaderInv, NEW s \in Samples, Receive(s)
  PROVE  ReaderInv'
<1> USE SerialReaderAssumption DEF ReaderInv, Time
<1>0. STABLE \in Nat /\ MAX_PAYLOAD \in Nat /\ STABLE' = STABLE /\ settings' \in Settings
  BY SettingsKept DEF Receive, TypeOK
<1>1. s # NULL /\ phase = "reading" /\ now < DEADLINE /\ now' = now /\ error' = error
  BY DEF Receive
<1>2. FilterSample(s) /\ NoteKey(s) /\ NoteHistory(s) /\ last_data' = now
  BY <1>1 DEF Receive
<1>3. \/ EndReading("stable") /\ StableAt(stable_since')
      \/ EndReading("full")
      \/ UNCHANGED <<phase, reason>>
  BY <1>1 DEF Receive
<1>4. now \in Time /\ DEADLINE \in Nat
  BY DEF TypeOK
<1>5. TypeOK'
  <2>1. pieces' \in Nat
    BY DEF Receive, TypeOK
  <2>2. final_snapshot' \in Samples \cup {NULL} /\ last_valid' \in Legal \cup {NULL}
    BY <1>2 DEF FilterSample, TypeOK
  <2>3. last_key' \in Samples \cup {NULL} /\ stable_since' \in Time \cup {NULL}
    BY <1>2, <1>4 DEF NoteKey, Snapshot, TypeOK
  <2>4. /\ shown' \in Legal \cup {NULL} /\ shown_since' \in Time
        /\ raw' \in Samples \cup {NULL} /\ raw_since' \in Time
    BY <1>2, <1>4 DEF NoteHistory, TypeOK
  <2>5. /\ phase' \in {"reading", "read", "judged", "broken"}
        /\ reason' \in {"none", "stable", "idle", "closed", "full", "deadline"}
    BY <1>3 DEF EndReading, TypeOK
  <2> QED
    BY <1>0, <1>1, <1>2, <1>4, <2>1, <2>2, <2>3, <2>4, <2>5 DEF TypeOK
<1>6. Filtered'
  BY <1>1, <1>2 DEF Filtered, FilterSample, NoteKey, NoteHistory, Snapshot, TypeOK
<1>7. stable_since' # NULL /\ stable_since' >= Since'
  <2>1. CASE s \in Legal
    <3>1. shown' = s /\ Since' = shown_since' /\ Snapshot(s) = s /\ raw' = s
      BY <1>1, <1>2, <2>1 DEF NoteHistory, Since, Snapshot
    <3>2. CASE s = shown
      BY <1>1, <1>2, <1>4, <2>1, <3>1, <3>2
         DEF NoteKey, NoteHistory, Since, Timed, Filtered, TypeOK
    <3>3. CASE s # shown
      <4>1. last_key # s
        BY <1>1, <2>1, <3>3 DEF Filtered
      <4> QED
        BY <1>1, <1>2, <1>4, <2>1, <3>1, <3>3, <4>1 DEF NoteKey, NoteHistory
    <3> QED
      BY <3>2, <3>3
  <2>2. CASE s \notin Legal /\ shown # NULL
    <3>1. shown' = shown /\ shown_since' = shown_since /\ Since' = Since /\ raw' = s
      BY <1>2, <2>2 DEF NoteHistory, Since
    <3>2. Snapshot(s) = last_key
      BY <2>2 DEF Snapshot, Filtered
    <3>3. Since <= now
      BY DEF Since, Timed
    <3> QED
      BY <1>1, <1>2, <1>4, <3>1, <3>2, <3>3 DEF NoteKey, Timed, TypeOK
  <2>3. CASE s \notin Legal /\ shown = NULL
    <3>1. shown' = NULL /\ Since' = raw_since' /\ Since = raw_since /\ raw' = s /\ Snapshot(s) = s
      BY <1>2, <2>3 DEF NoteHistory, Since, Snapshot, Filtered
    <3>2. last_key = raw
      BY <2>3 DEF Filtered
    <3> QED
      BY <1>1, <1>2, <1>4, <2>3, <3>1, <3>2 DEF NoteKey, NoteHistory, Timed, TypeOK
  <2> QED
    BY <2>1, <2>2, <2>3
<1>8. Timed'
  BY <1>1, <1>2, <1>4, <1>7 DEF Timed, NoteHistory, TypeOK
<1>9. Concluded'
  <2>1. phase' # "judged"
    BY <1>1, <1>3 DEF EndReading
  <2>2. CASE EndReading("stable") /\ StableAt(stable_since')
    <3>1. now - stable_since' >= STABLE /\ phase' = "read"
      BY <1>0, <2>2 DEF StableAt, EndReading
    <3>2. Since' \in Time /\ stable_since' \in Time
      BY <1>5, <1>7 DEF Since, TypeOK
    <3>3. now - Since' >= STABLE
      <4>1. \A n, a, b, k \in Int : n - a >= k /\ a >= b => n - b >= k
        OBVIOUS
      <4>2. now \in Int /\ stable_since' \in Int /\ Since' \in Int /\ STABLE \in Int
        BY <1>0, <1>4, <3>2
      <4> QED
        BY <1>7, <3>1, <4>1, <4>2
    <3> QED
      BY <1>0, <1>1, <2>1, <3>1, <3>3 DEF Concluded
  <2>3. CASE EndReading("full")
    BY <2>1, <2>3 DEF EndReading, Concluded
  <2>4. CASE UNCHANGED <<phase, reason>>
    BY <1>0, <1>1, <2>1, <2>4 DEF Concluded
  <2> QED
    BY <1>3, <2>2, <2>3, <2>4
<1> QED
  BY <1>5, <1>6, <1>8, <1>9

-----------------------------------------------------------------------------
(* Every step keeps the invariant.                                         *)

LEMMA ReaderInvStep == ReaderInv /\ [Next]_vars => ReaderInv'
<1> SUFFICES ASSUME ReaderInv, [Next]_vars PROVE ReaderInv'
  OBVIOUS
<1> USE SerialReaderAssumption DEF ReaderInv, Time
<1> USE DEF filterVars, readerVars, historyVars
<1>0. STABLE \in Nat /\ MAX_PAYLOAD \in Nat /\ STABLE' = STABLE
  <2>1. UNCHANGED settings
    BY DEF Next, vars, Receive, ReceiveTimesOut, ReceiveEnd, ReceiveFails, ReachDeadline,
           Tick, Judge
  <2> QED
    BY <2>1, SettingsKept
<1>1. ASSUME NEW s \in Samples, Receive(s) PROVE ReaderInv'
  BY <1>1, ReceiveSample
<1>2. CASE Receive(NULL)
  BY <1>0, <1>2 DEF Receive, EndReading, StableAt, TypeOK, Filtered, Timed, Concluded, Since
<1>3. CASE ReceiveTimesOut
  BY <1>0, <1>3 DEF ReceiveTimesOut, EndReading, StableAt, TypeOK, Filtered, Timed, Concluded, Since
<1>4. CASE ReceiveEnd
  BY <1>0, <1>4 DEF ReceiveEnd, EndReading, TypeOK, Filtered, Timed, Concluded, Since
<1>5. CASE ReceiveFails
  BY <1>0, <1>5 DEF ReceiveFails, TypeOK, Filtered, Timed, Concluded, Since
<1>6. CASE ReachDeadline
  BY <1>0, <1>6 DEF ReachDeadline, EndReading, TypeOK, Filtered, Timed, Concluded, Since
<1>7. CASE Tick
  BY <1>0, <1>7 DEF Tick, TypeOK, Filtered, Timed, Concluded, Since
<1>8. CASE Judge
  BY <1>0, <1>8 DEF Judge, Verdict, TypeOK, Filtered, Timed, Concluded, Since
<1>9. CASE UNCHANGED vars
  BY <1>0, <1>9 DEF vars, TypeOK, Filtered, Timed, Concluded, Since
<1> QED
  BY <1>1, <1>2, <1>3, <1>4, <1>5, <1>6, <1>7, <1>8, <1>9 DEF Next

LEMMA ReaderInvHolds == Spec => []ReaderInv
BY ReaderInvInit, ReaderInvStep, PTL DEF Spec

-----------------------------------------------------------------------------
(* What follows.                                                           *)

\* The times the reader compares lie in the reading, and its samples are samples or
\* None; a legal one is what the filter holds on to.
THEOREM ReaderTyped == Spec => []TypeOK
<1>1. ReaderInv => TypeOK
  BY DEF ReaderInv
<1> QED
  BY <1>1, ReaderInvHolds, PTL

\* Half displays and noise never displace a legal display.
THEOREM NewestLegalIsReported == Spec => []NewestLegalReported
<1>1. ReaderInv => NewestLegalReported
  BY DEF ReaderInv, Filtered, NewestLegalReported
<1> QED
  BY <1>1, ReaderInvHolds, PTL

\* A reading ended for stability was stable: no other legal display, nor other LEDs
\* with it, was received in all of the last STABLE ticks.
THEOREM StabilityIsSettled == Spec => []StableIsSettled
<1>1. ReaderInv => StableIsSettled
  BY DEF ReaderInv, Concluded, StableIsSettled, Since
<1> QED
  BY <1>1, ReaderInvHolds, PTL

\* A run that passes had a passing display on the board, legally read.
THEOREM PassingWasShown == Spec => []PassedWasShown
<1>1. ReaderInv => PassedWasShown
  BY SerialReaderAssumption DEF ReaderInv, Concluded, Filtered, PassedWasShown
<1> QED
  BY <1>1, ReaderInvHolds, PTL

-----------------------------------------------------------------------------
(* On the connection.                                                      *)

LEMMA RecvBytesUnderstood == RecvBytes => PieceUnderstood'
BY RecvPieceUnderstood DEF RecvBytes

\* Only a piece that begins inside a unit may be misunderstood, and there PieceUnderstood
\* says nothing; it is inductive by itself.
LEMMA PieceStep == PieceUnderstood /\ [ReadingNext]_readingVars => PieceUnderstood'
<1> SUFFICES ASSUME PieceUnderstood, [ReadingNext]_readingVars PROVE PieceUnderstood'
  OBVIOUS
<1>1. CASE RecvBytes
  BY <1>1, RecvBytesUnderstood
<1>2. CASE HandlePiece
  <2>1. piece' = NoPiece
    BY <1>2 DEF HandlePiece, DropPiece, EndOfBytes
  <2> QED
    BY <2>1 DEF NoPiece, PieceUnderstood
<1>3. CASE UNCHANGED telnetVars
  BY <1>3 DEF telnetVars, PieceUnderstood
<1> QED
  BY <1>1, <1>2, <1>3 DEF ReadingNext, ReaderStep, TimePasses, readingVars

\* A piece of the stream that begins between two units gives the payload and the
\* answers of those it holds whole, in their order, wherever recv breaks it off and
\* whatever bytes are sent: handle_telnet_and_extract_payload takes no data for
\* commands and no part of a command for data.
THEOREM PieceIsUnderstood == ReadingSpec => []PieceUnderstood
<1>1. ReadingInit => PieceUnderstood
  BY DEF ReadingInit, TelnetInit, NoPiece, PieceUnderstood
<1> QED
  BY <1>1, PieceStep, PTL DEF ReadingSpec

\* What read_tcp_serial does on its connection is what SerialReader says of its
\* samples: bytes leave the reader alone, and each of its steps is one there.
THEOREM ReadingImplementsReader == ReadingSpec => Spec
<1>1. ReadingInit => Init
  BY DEF ReadingInit
<1>2. [ReadingNext]_readingVars => [Next]_vars
  BY DEF ReadingNext, RecvBytes, HandlePiece, ReaderStep, TimePasses, Next, readingVars
<1> QED
  BY <1>1, <1>2, PTL DEF ReadingSpec, Spec

\* So what is proved of the samples holds of the bytes: the newest legal display is
\* reported, stable ones were, and a pass was read from the board.
THEOREM ReadingReports ==
  ReadingSpec => [](TypeOK /\ NewestLegalReported /\ StableIsSettled /\ PassedWasShown)
BY ReadingImplementsReader, ReaderTyped, NewestLegalIsReported, StabilityIsSettled,
   PassingWasShown, PTL
=============================================================================
