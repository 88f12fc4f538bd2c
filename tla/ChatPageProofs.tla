--------------------------- MODULE ChatPageProofs ---------------------------
(***************************************************************************)
(* The chat, for any number of pages, turns, events, reloads and lost      *)
(* requests, and wherever the bytes of a stream are cut:                   *)
(*   - the reader's law: what a stream's bytes are read as does not depend *)
(*     on where they are cut;                                              *)
(*   - nothing of a stream is lost on its way to the page;                 *)
(*   - the history has of a turn the whole answer, or none of it;          *)
(*   - a page shows what is stored, in the same order;                     *)
(*   - what the user's card says was decided is what the gate was          *)
(*     answered.                                                           *)
(*                                                                         *)
(* Only and Split are recursive functions.  What they compute is proved    *)
(* for every sequence from the least element of the set of sequences that  *)
(* would not have the property: Induct, SeqInduct and SplitInduct take     *)
(* that set as a parameter.                                                *)
(***************************************************************************)
EXTENDS ChatPage, SequenceTheorems, WellFoundedInduction, TLAPS

-----------------------------------------------------------------------------
(* Induction over numbers and sequences, and the elements of a sequence    *)
(* that are in a set (Only).                                               *)

\* A set of naturals has a least element.
LEMMA Least ==
  ASSUME NEW T \in SUBSET Nat, T # {}
  PROVE  \E m \in T : \A n \in T : m <= n
<1> DEFINE Less == {p \in Nat \X Nat : p[1] < p[2]}
<1>1. IsWellFoundedOn(Less, Nat)
  BY NatLessThanWellFounded DEF OpToRel
<1>2. \E m \in T : \A n \in T : <<n, m>> \notin Less
  <2> HIDE DEF Less
  <2> QED
    BY <1>1, WFMin
<1>3. ASSUME NEW m \in Nat, NEW n \in Nat, n < m PROVE <<n, m>> \in Less
  BY <1>3
<1>4. PICK m \in T : \A n \in T : <<n, m>> \notin Less
  BY <1>2
<1> HIDE DEF Less
<1>5. ASSUME NEW n \in T PROVE m <= n
  <2>1. m \in Nat /\ n \in Nat /\ <<n, m>> \notin Less
    BY <1>4
  <2>2. ~(n < m)
    BY <2>1, <1>3
  <2> QED
    BY <2>1, <2>2
<1> QED
  BY <1>5

\* Induction over the naturals, with a set for the property.
LEMMA Induct ==
  ASSUME NEW P, 0 \in P, \A n \in Nat : n \in P => n + 1 \in P
  PROVE  Nat \subseteq P
<1> SUFFICES ASSUME Nat \ P # {} PROVE FALSE
  OBVIOUS
<1>1. PICK m \in Nat \ P : \A n \in Nat \ P : m <= n
  BY Least
<1>2. m # 0 /\ m - 1 \in Nat
  BY <1>1
<1>3. m - 1 \in P
  BY <1>1, <1>2
<1> QED
  BY <1>1, <1>2, <1>3

\* The same over the sequences of a set.
LEMMA SeqInduct ==
  ASSUME NEW X, NEW P, <<>> \in P,
         \A s \in Seq(X), e \in X : s \in P => Append(s, e) \in P
  PROVE  Seq(X) \subseteq P
<1> DEFINE N == {n \in Nat : \A s \in Seq(X) : Len(s) = n => s \in P}
<1>1. 0 \in N
  OBVIOUS
<1>2. ASSUME NEW n \in Nat, n \in N PROVE n + 1 \in N
  <2> SUFFICES ASSUME NEW s \in Seq(X), Len(s) = n + 1 PROVE s \in P
    OBVIOUS
  <2>1. PICK t \in Seq(X), e \in X : s = Append(t, e)
    BY SequenceEmptyOrAppend
  <2>2. Len(t) = n
    BY <2>1, AppendProperties
  <2> QED
    BY <1>2, <2>1, <2>2
<1>3. Nat \subseteq N
  <2> HIDE DEF N
  <2> QED
    BY <1>1, <1>2, Induct
<1> QED
  BY <1>3

Upto(s, A, f, n) == \A i \in 0..n : f[i] =
     IF i = 0 THEN <<>> ELSE IF s[i] \in A THEN Append(f[i - 1], s[i]) ELSE f[i - 1]

\* Only is what its recursion builds, step by step.
LEMMA OnlyExists ==
  ASSUME NEW X, NEW s \in Seq(X), NEW A
  PROVE  \E f : Upto(s, A, f, Len(s)) /\ Only(s, A) = f[Len(s)]
<1> DEFINE N == {n \in Nat : \E f : Upto(s, A, f, n)}
<1>1. 0 \in N
  <2>1. Upto(s, A, [i \in {0} |-> <<>>], 0)
    BY DEF Upto
  <2> QED BY <2>1
<1>2. ASSUME NEW n \in Nat, n \in N PROVE n + 1 \in N
  <2>1. PICK f : Upto(s, A, f, n)
    BY <1>2
  <2> DEFINE next == IF s[n + 1] \in A THEN Append(f[n], s[n + 1]) ELSE f[n]
             g == [i \in 0..n + 1 |-> IF i = n + 1 THEN next ELSE f[i]]
  <2>2. ASSUME NEW i \in 0..n PROVE g[i] = f[i] /\ (i # 0 => g[i - 1] = f[i - 1])
    OBVIOUS
  <2>3. g[n + 1] = next
    OBVIOUS
  <2>4. Upto(s, A, g, n + 1)
    <3> HIDE DEF g
    <3> QED
      BY <2>1, <2>2, <2>3 DEF Upto
  <2> QED
    BY <2>4
<1>3. Nat \subseteq N
  <2> HIDE DEF N
  <2> QED
    BY <1>1, <1>2, Induct
<1>4. PICK h : Upto(s, A, h, Len(s))
  BY <1>3
<1> DEFINE Is(f) == f = [i \in 0..Len(s) |-> IF i = 0 THEN <<>> ELSE
                          IF s[i] \in A THEN Append(f[i - 1], s[i]) ELSE f[i - 1]]
<1>5. Is([i \in 0..Len(s) |-> h[i]])
  BY <1>4 DEF Upto
<1>6. Only(s, A) = (CHOOSE f : Is(f))[Len(s)]
  BY DEF Only
<1>7. Is(CHOOSE f : Is(f))
  <2> HIDE DEF Is
  <2> QED
    BY <1>5
<1>8. Upto(s, A, CHOOSE f : Is(f), Len(s))
  <2> DEFINE f == CHOOSE f : Is(f)
  <2>1. Is(f) BY <1>7
  <2> HIDE DEF f
  <2> QED
  BY <2>1 DEF Upto
<1> QED
  BY <1>6, <1>8
\* Two such recursions agree as far as their sequences do.
LEMMA UptoAgree ==
  ASSUME NEW s, NEW t, NEW A, NEW f, NEW g, NEW n \in Nat,
         Upto(s, A, f, n), Upto(t, A, g, n), \A i \in 1..n : s[i] = t[i]
  PROVE  f[n] = g[n]
<1> DEFINE N == {i \in Nat : i <= n => f[i] = g[i]}
<1>1. 0 \in N
  BY DEF Upto
<1>2. ASSUME NEW i \in Nat, i \in N PROVE i + 1 \in N
  BY <1>2 DEF Upto
<1>3. Nat \subseteq N
  <2> HIDE DEF N
  <2> QED
    BY <1>1, <1>2, Induct
<1> QED
  BY <1>3

\* Nothing is left of an empty sequence.
LEMMA OnlyEmpty == ASSUME NEW A PROVE Only(<<>>, A) = <<>>
<1>1. <<>> \in Seq({}) /\ Len(<<>>) = 0
  BY EmptySeq
<1>2. PICK f : Upto(<<>>, A, f, Len(<<>>)) /\ Only(<<>>, A) = f[Len(<<>>)]
  BY <1>1, OnlyExists
<1>3. f[0] = <<>>
  BY <1>1, <1>2 DEF Upto
<1> QED
  BY <1>1, <1>2, <1>3

\* One more element is kept, or it is not.
LEMMA OnlyAppend ==
  ASSUME NEW X, NEW s \in Seq(X), NEW e \in X, NEW A
  PROVE  Only(Append(s, e), A) = IF e \in A THEN Append(Only(s, A), e) ELSE Only(s, A)
<1> DEFINE t == Append(s, e)
<1>1. /\ t \in Seq(X) /\ Len(t) = Len(s) + 1 /\ t[Len(s) + 1] = e
      /\ Len(s) \in Nat /\ \A i \in 1..Len(s) : t[i] = s[i]
  BY AppendProperties, LenProperties
<1> HIDE DEF t
<1>2. PICK f : Upto(s, A, f, Len(s)) /\ Only(s, A) = f[Len(s)]
  BY OnlyExists
<1>3. PICK g : Upto(t, A, g, Len(t)) /\ Only(t, A) = g[Len(t)]
  BY <1>1, OnlyExists
<1>4. Upto(t, A, g, Len(s))
  BY <1>1, <1>3 DEF Upto
<1>5. g[Len(s)] = f[Len(s)]
  BY <1>1, <1>2, <1>4, UptoAgree
<1>6. g[Len(t)] = IF e \in A THEN Append(g[Len(s)], e) ELSE g[Len(s)]
  <2>1. /\ Len(t) \in 0..Len(t) /\ Len(t) # 0 /\ Len(t) - 1 = Len(s)
        /\ t[Len(t)] = e
    BY <1>1
  <2>2. g[Len(t)] = IF Len(t) = 0 THEN <<>>
                    ELSE IF t[Len(t)] \in A THEN Append(g[Len(t) - 1], t[Len(t)])
                    ELSE g[Len(t) - 1]
    BY <1>3, <2>1, Zenon DEF Upto
  <2> QED
    BY <2>1, <2>2
<1> QED
  BY <1>2, <1>3, <1>5, <1>6 DEF t

\* What is kept of a sequence, element by element.
LEMMA OnlyType ==
  ASSUME NEW X, NEW s \in Seq(X), NEW A PROVE Only(s, A) \in Seq(X \cap A)
<1> DEFINE P == {t \in Seq(X) : Only(t, A) \in Seq(X \cap A)}
<1>1. <<>> \in P
  <2>1. Only(<<>>, A) \in Seq(X \cap A)
    BY OnlyEmpty, EmptySeq
  <2> QED
    BY <2>1, EmptySeq
<1>2. ASSUME NEW t \in Seq(X), NEW e \in X, t \in P PROVE Append(t, e) \in P
  <2>1. Append(t, e) \in Seq(X)
    OBVIOUS
  <2>2. Only(t, A) \in Seq(X \cap A)
    BY <1>2
  <2>3. Only(Append(t, e), A) = IF e \in A THEN Append(Only(t, A), e) ELSE Only(t, A)
    BY OnlyAppend
  <2>4. e \in A => Append(Only(t, A), e) \in Seq(X \cap A)
    BY <2>2, AppendProperties
  <2>5. Only(Append(t, e), A) \in Seq(X \cap A)
    BY <2>2, <2>3, <2>4
  <2> QED
    BY <2>1, <2>5
<1> HIDE DEF P
<1>3. s \in P
  BY <1>1, <1>2, SeqInduct
<1> QED
  BY <1>3 DEF P

\* Concatenation is associative, as a fact about a set of sequences.
Assoc(X) == \A a, b, c \in Seq(X) : (a \o b) \o c = a \o (b \o c)

LEMMA SeqAssoc == ASSUME NEW X PROVE Assoc(X)
<1> SUFFICES ASSUME NEW a \in Seq(X), NEW b \in Seq(X), NEW c \in Seq(X)
             PROVE  (a \o b) \o c = a \o (b \o c)
  BY DEF Assoc
<1> QED
  BY ConcatAssociative

\* Appending to what is concatenated.
LEMMA ConcatAppend ==
  ASSUME NEW X
  PROVE  \A a, b \in Seq(X), e \in X : a \o Append(b, e) = Append(a \o b, e)
<1> TAKE a, b \in Seq(X), e \in X
<1>1. <<e>> \in Seq(X)
  OBVIOUS
<1>2. Append(a \o b, e) = (a \o b) \o <<e>> /\ Append(b, e) = b \o <<e>>
  BY AppendIsConcat, ConcatProperties
<1>3. Assoc(X)
  BY SeqAssoc
<1>4. (a \o b) \o <<e>> = a \o (b \o <<e>>)
  BY <1>1, <1>3, Zenon DEF Assoc
<1> QED
  BY <1>2, <1>4

\* What is left of a concatenation is left of its parts, in their order.
LEMMA OnlyConcat ==
  ASSUME NEW X, NEW s \in Seq(X), NEW t \in Seq(X), NEW A
  PROVE  Only(s \o t, A) = Only(s, A) \o Only(t, A)
<1> DEFINE P == {u \in Seq(X) : Only(s \o u, A) = Only(s, A) \o Only(u, A)}
<1>0. \A u \in Seq(X) : Only(u, A) \in Seq(X)
  <2>1. \A u \in Seq(X) : Only(u, A) \in Seq(X \cap A)
    BY OnlyType
  <2> QED
    BY <2>1, SeqMonotonic
<1>1. <<>> \in P
  BY <1>0, OnlyEmpty, ConcatEmptySeq
<1>2. ASSUME NEW u \in Seq(X), NEW e \in X, u \in P PROVE Append(u, e) \in P
  <2>1. /\ s \o u \in Seq(X) /\ Append(u, e) \in Seq(X)
        /\ s \o Append(u, e) = Append(s \o u, e)
    BY ConcatAppend
  <2>2. Only(s, A) \o Append(Only(u, A), e) = Append(Only(s, A) \o Only(u, A), e)
    <3>1. Only(s, A) \in Seq(X) /\ Only(u, A) \in Seq(X)
      BY <1>0
    <3> QED
      BY <3>1, ConcatAppend
  <2>3. Only(s \o u, A) = Only(s, A) \o Only(u, A)
    BY <1>2
  <2>4. Only(Append(s \o u, e), A) = IF e \in A THEN Append(Only(s \o u, A), e) ELSE Only(s \o u, A)
    BY <2>1, OnlyAppend
  <2>5. Only(Append(u, e), A) = IF e \in A THEN Append(Only(u, A), e) ELSE Only(u, A)
    BY OnlyAppend
  <2> QED
    BY <2>1, <2>2, <2>3, <2>4, <2>5
<1> HIDE DEF P
<1>3. t \in P
  BY <1>1, <1>2, SeqInduct
<1> QED
  BY <1>3 DEF P

\* Only what occurs in the sequence matters.
LEMMA OnlySame ==
  ASSUME NEW X, NEW s \in Seq(X), NEW A, NEW B,
         \A i \in 1..Len(s) : s[i] \in A <=> s[i] \in B
  PROVE  Only(s, A) = Only(s, B)
<1> DEFINE P == {t \in Seq(X) : (\A i \in 1..Len(t) : t[i] \in A <=> t[i] \in B) => Only(t, A) = Only(t, B)}
<1>1. <<>> \in P
  BY OnlyEmpty
<1>2. ASSUME NEW t \in Seq(X), NEW e \in X, t \in P PROVE Append(t, e) \in P
  <2> DEFINE u == Append(t, e)
  <2>1. /\ u \in Seq(X) /\ Len(u) = Len(t) + 1 /\ u[Len(u)] = e
        /\ Len(t) \in Nat /\ \A i \in 1..Len(t) : u[i] = t[i]
    BY AppendProperties
  <2>2. \A C : Only(u, C) = IF e \in C THEN Append(Only(t, C), e) ELSE Only(t, C)
    BY OnlyAppend
  <2> HIDE DEF u
  <2>3. SUFFICES ASSUME \A i \in 1..Len(u) : u[i] \in A <=> u[i] \in B PROVE Only(u, A) = Only(u, B)
    BY <2>1 DEF u
  <2>4. /\ \A i \in 1..Len(t) : t[i] \in A <=> t[i] \in B
        /\ e \in A <=> e \in B
    BY <2>1, <2>3
  <2> QED
    BY <1>2, <2>2, <2>4
<1> HIDE DEF P
<1>3. s \in P
  BY <1>1, <1>2, SeqInduct
<1> QED
  BY <1>3 DEF P

\* All of a sequence is left that has no other elements, ...
LEMMA OnlyAll ==
  ASSUME NEW X, NEW s \in Seq(X), NEW A, \A i \in 1..Len(s) : s[i] \in A
  PROVE  Only(s, A) = s
<1>1. Only(s, A) = Only(s, X)
  BY OnlySame
<1> DEFINE P == {t \in Seq(X) : Only(t, X) = t}
<1>2. <<>> \in P
  BY OnlyEmpty
<1>3. ASSUME NEW t \in Seq(X), NEW e \in X, t \in P PROVE Append(t, e) \in P
  BY <1>3, OnlyAppend
<1> HIDE DEF P
<1>4. s \in P
  BY <1>2, <1>3, SeqInduct
<1> QED
  BY <1>1, <1>4 DEF P

\* ... and nothing of one that has none of them.
LEMMA OnlyNone ==
  ASSUME NEW X, NEW s \in Seq(X), NEW A, \A i \in 1..Len(s) : s[i] \notin A
  PROVE  Only(s, A) = <<>>
<1>1. Only(s, A) = Only(s, {})
  BY OnlySame
<1>2. Only(s, {}) \in Seq({})
  <2>1. Only(s, {}) \in Seq(X \cap {})
    BY OnlyType
  <2>2. X \cap {} = {}
    OBVIOUS
  <2> QED BY <2>1, <2>2
<1> QED
  BY <1>1, <1>2

-----------------------------------------------------------------------------
(* The splitter: where frames end, and what it splits off from a position  *)
(* on.                                                                     *)

\* Min of a set of numbers is one of them, and none is less.
LEMMA MinIsLeast ==
  ASSUME NEW T \in SUBSET Nat, T # {}
  PROVE  Min(T) \in T /\ \A n \in T : Min(T) <= n
BY Least DEF Min

\* A number of a set that none is less than is its Min.
LEMMA MinIs ==
  ASSUME NEW T \in SUBSET Nat, NEW m \in T, \A n \in T : m <= n
  PROVE  Min(T) = m
<1>1. Min(T) \in T /\ Min(T) <= m
  BY MinIsLeast
<1>2. Min(T) \in Nat /\ m \in Nat /\ m <= Min(T)
  BY <1>1
<1> QED
  BY <1>1, <1>2

Ends(s) == {i \in 1..Len(s) : FrameEnd(s, i) > 0}
First(s, i) == Min(Ends(s) \cap i..Len(s))
After(s, i) == First(s, i) + FrameEnd(s, First(s, i))

\* A line ends with one character or two.
LEMMA LineEndType ==
  ASSUME NEW s, NEW i PROVE LineEnd(s, i) \in {0, 1, 2}
  BY DEF LineEnd

\* A frame's end lies within the sequence.
LEMMA FrameEndType ==
  ASSUME NEW X, NEW s \in Seq(X), NEW i \in Nat
  PROVE  FrameEnd(s, i) \in Nat /\ (FrameEnd(s, i) > 0 => i < i + FrameEnd(s, i) /\ i + FrameEnd(s, i) <= Len(s) + 1)
<1>1. Len(s) \in Nat
  BY LenProperties
<1>2. \A j \in Nat : LineEnd(s, j) \in {0, 1, 2} /\ (LineEnd(s, j) > 0 => j + LineEnd(s, j) <= Len(s) + 1)
  BY <1>1 DEF LineEnd
<1> DEFINE n == LineEnd(s, i)
           m == LineEnd(s, i + n)
<1>3. n \in {0, 1, 2} /\ i + n \in Nat
  BY <1>2
<1>4. m \in {0, 1, 2} /\ (m > 0 => i + n + m <= Len(s) + 1)
  BY <1>2, <1>3
<1>5. FrameEnd(s, i) = IF n > 0 /\ m > 0 THEN n + m ELSE 0
  BY DEF FrameEnd
<1> HIDE DEF n, m
<1> QED
  BY <1>1, <1>3, <1>4, <1>5

\* The first end from a position on is one, and none comes before it.
LEMMA FirstIs ==
  ASSUME NEW X, NEW s \in Seq(X), NEW i \in 1..Len(s) + 1, Ends(s) \cap i..Len(s) # {}
  PROVE  /\ First(s, i) \in i..Len(s) /\ FrameEnd(s, First(s, i)) > 0
         /\ \A j \in i..First(s, i) - 1 : FrameEnd(s, j) = 0
         /\ After(s, i) \in (First(s, i) + 1)..(Len(s) + 1)
<1>1. Len(s) \in Nat
  BY LenProperties
<1> DEFINE T == Ends(s) \cap i..Len(s)
<1>2. First(s, i) \in T /\ \A n \in T : First(s, i) <= n
  <2>1. T \in SUBSET Nat /\ T # {} /\ First(s, i) = Min(T)
    BY <1>1 DEF First, Ends
  <2> HIDE DEF T
  <2> QED
    BY <2>1, MinIsLeast
<1>3. First(s, i) \in i..Len(s) /\ FrameEnd(s, First(s, i)) > 0 /\ First(s, i) \in Nat
  BY <1>1, <1>2 DEF Ends
<1>4. ASSUME NEW j \in i..First(s, i) - 1 PROVE FrameEnd(s, j) = 0
  <2>1. j \in 1..Len(s) /\ j \in Nat /\ j \notin T /\ j \in i..Len(s)
    BY <1>1, <1>2, <1>3
  <2>2. FrameEnd(s, j) \in Nat /\ ~(FrameEnd(s, j) > 0)
    BY <2>1, FrameEndType DEF Ends
  <2> QED
    BY <2>2
<1>5. FrameEnd(s, First(s, i)) \in Nat /\ First(s, i) + FrameEnd(s, First(s, i)) <= Len(s) + 1
  BY <1>3, FrameEndType
<1> QED
  BY <1>1, <1>3, <1>4, <1>5 DEF After

\* f is what is split off s from position k on.
RestOf(s, f, i) ==
  IF Ends(s) \cap i..Len(s) = {} THEN <<SubSeq(s, i, Len(s))>>
  ELSE <<SubSeq(s, i, First(s, i) - 1)>> \o f[After(s, i)]
Rests(s, f, k) == \A i \in k..Len(s) + 1 : f[i] = RestOf(s, f, i)

\* Split is what its recursion builds, from the end of the sequence on.
LEMMA SplitExists ==
  ASSUME NEW X, NEW s \in Seq(X)
  PROVE  \E f : Rests(s, f, 1) /\ Split(s) = f[1]
<1>1. Len(s) \in Nat
  BY LenProperties
<1> DEFINE N == {n \in Nat : n <= Len(s) => \E f : Rests(s, f, Len(s) + 1 - n)}
<1>2. 0 \in N
  <2> DEFINE f == [i \in {Len(s) + 1} |-> <<SubSeq(s, i, Len(s))>>]
  <2>1. Ends(s) \cap (Len(s) + 1)..Len(s) = {}
    BY <1>1 DEF Ends
  <2>2. f[Len(s) + 1] = RestOf(s, f, Len(s) + 1)
    BY <2>1 DEF RestOf
  <2> HIDE DEF f
  <2>3. Rests(s, f, Len(s) + 1)
    BY <1>1, <2>2 DEF Rests
  <2> QED
    BY <1>1, <2>3
<1>3. ASSUME NEW n \in Nat, n \in N PROVE n + 1 \in N
  <2> SUFFICES ASSUME n + 1 <= Len(s) PROVE \E f : Rests(s, f, Len(s) + 1 - (n + 1))
    OBVIOUS
  <2> DEFINE k == Len(s) - n
  <2>1. k \in 1..Len(s) /\ Len(s) + 1 - (n + 1) = k /\ Len(s) + 1 - n = k + 1
    BY <1>1
  <2> HIDE DEF k
  <2>2. PICK f : Rests(s, f, k + 1)
    BY <1>1, <1>3, <2>1
  <2> DEFINE g == [i \in k..Len(s) + 1 |-> IF i = k THEN RestOf(s, f, k) ELSE f[i]]
  <2>3. \A i \in k + 1..Len(s) + 1 : g[i] = f[i]
    BY <1>1, <2>1
  <2>4. g[k] = RestOf(s, f, k)
    BY <1>1, <2>1
  <2> HIDE DEF g
  <2>5. ASSUME NEW i \in k..Len(s) + 1 PROVE RestOf(s, g, i) = RestOf(s, f, i)
    <3>1. CASE Ends(s) \cap i..Len(s) = {}
      BY <3>1 DEF RestOf
    <3>2. CASE Ends(s) \cap i..Len(s) # {}
      <4>1. i \in 1..Len(s) + 1
        BY <1>1, <2>1
      <4>2. First(s, i) \in i..Len(s) /\ After(s, i) \in (First(s, i) + 1)..(Len(s) + 1)
        BY <3>2, <4>1, FirstIs
      <4>3. After(s, i) \in k + 1..Len(s) + 1
        BY <1>1, <2>1, <4>2
      <4> QED
        BY <2>3, <4>3 DEF RestOf
    <3> QED
      BY <3>1, <3>2
  <2>6. Rests(s, g, k)
    <3> SUFFICES ASSUME NEW i \in k..Len(s) + 1 PROVE g[i] = RestOf(s, g, i)
      BY DEF Rests
    <3>1. CASE i = k
      BY <2>4, <2>5, <3>1
    <3>2. CASE i # k
      <4>1. i \in k + 1..Len(s) + 1
        BY <1>1, <2>1, <3>2
      <4> QED
        BY <2>2, <2>3, <2>5, <4>1 DEF Rests
    <3> QED
      BY <3>1, <3>2
  <2> QED
    BY <2>1, <2>6
<1>4. PICK h : Rests(s, h, 1)
  <2>1. Nat \subseteq N
    <3> HIDE DEF N
    <3> QED
      BY <1>2, <1>3, Induct
  <2>2. Len(s) \in N /\ Len(s) + 1 - Len(s) = 1
    BY <1>1, <2>1
  <2> QED
    BY <1>1, <2>2
<1> DEFINE Is(f) ==
      f = [i \in 1..Len(s) + 1 |->
             IF Ends(s) \cap i..Len(s) = {} THEN <<SubSeq(s, i, Len(s))>>
             ELSE <<SubSeq(s, i, Min(Ends(s) \cap i..Len(s)) - 1)>>
                    \o f[Min(Ends(s) \cap i..Len(s)) + FrameEnd(s, Min(Ends(s) \cap i..Len(s)))]]
           c == CHOOSE f : Is(f)
<1>5. Is([i \in 1..Len(s) + 1 |-> h[i]])
  <2> DEFINE d == [i \in 1..Len(s) + 1 |-> h[i]]
  <2>1. ASSUME NEW i \in 1..Len(s) + 1
        PROVE  d[i] = IF Ends(s) \cap i..Len(s) = {} THEN <<SubSeq(s, i, Len(s))>>
             ELSE <<SubSeq(s, i, Min(Ends(s) \cap i..Len(s)) - 1)>>
                    \o d[Min(Ends(s) \cap i..Len(s)) + FrameEnd(s, Min(Ends(s) \cap i..Len(s)))]
    <3>1. d[i] = RestOf(s, h, i)
      BY <1>4 DEF Rests
    <3>2. CASE Ends(s) \cap i..Len(s) = {}
      BY <3>1, <3>2 DEF RestOf
    <3>3. CASE Ends(s) \cap i..Len(s) # {}
      <4>1. First(s, i) \in i..Len(s) /\ After(s, i) \in (First(s, i) + 1)..(Len(s) + 1)
        BY <3>3, FirstIs
      <4>2. After(s, i) \in 1..Len(s) + 1
        BY <1>1, <4>1
      <4>3. d[After(s, i)] = h[After(s, i)]
        BY <4>2
      <4> HIDE DEF d
      <4> QED
        BY <3>1, <3>3, <4>3 DEF RestOf, First, After
    <3> QED
      BY <3>2, <3>3
  <2> QED
    BY <2>1
<1>6. Is(c)
  <2> HIDE DEF Is
  <2> QED
    BY <1>5
<1>7. Split(s) = c[1]
  BY DEF Split, Ends
<1> HIDE DEF c
<1>8. Rests(s, c, 1)
  BY <1>6 DEF Rests, RestOf, First, After
<1> QED
  BY <1>7, <1>8

\* Segments of the same elements are the same.
LEMMA SameSubSeq ==
  ASSUME NEW X, NEW s, NEW t, NEW a \in Int, NEW b \in Int, NEW c \in Int, NEW d \in Int,
         d - c = b - a, \A i \in a..b : s[i] \in X, \A i \in a..b : t[c + i - a] = s[i]
  PROVE  SubSeq(s, a, b) = SubSeq(t, c, d)
<1> DEFINE u == SubSeq(s, a, b)
           v == SubSeq(t, c, d)
<1>1. \A i \in c..d : t[i] \in X
  <2> SUFFICES ASSUME NEW i \in c..d PROVE t[i] \in X
    OBVIOUS
  <2>1. i - c + a \in a..b /\ c + (i - c + a) - a = i
    OBVIOUS
  <2> QED
    BY <2>1
<1>2. /\ u \in Seq(X) /\ Len(u) = (IF a <= b THEN b - a + 1 ELSE 0)
      /\ \A i \in 1 .. b - a + 1 : u[i] = s[a + i - 1]
  BY SubSeqProperties
<1>3. /\ v \in Seq(X) /\ Len(v) = (IF c <= d THEN d - c + 1 ELSE 0)
      /\ \A i \in 1 .. d - c + 1 : v[i] = t[c + i - 1]
  BY <1>1, SubSeqProperties
<1> HIDE DEF u, v
<1>4. Len(u) = Len(v)
  BY <1>2, <1>3
<1>5. ASSUME NEW i \in 1..Len(u) PROVE u[i] = v[i]
  <2>1. i \in 1..b - a + 1 /\ i \in 1..d - c + 1 /\ a + i - 1 \in a..b /\ c + (a + i - 1) - a = c + i - 1
    BY <1>2
  <2> QED
    BY <1>2, <1>3, <2>1
<1>6. u = v
  BY <1>2, <1>3, <1>4, <1>5, SeqEqual
<1> QED
  BY <1>6 DEF u, v

\* What follows position k is split the same way by itself.
LEMMA EndsOfRest ==
  ASSUME NEW X, NEW s \in Seq(X), NEW k \in 1..Len(s) + 1
  PROVE  LET t == SubSeq(s, k, Len(s)) IN
         /\ t \in Seq(X) /\ Len(t) = Len(s) + 1 - k
         /\ \A j \in 1..Len(t) : t[j] = s[k + j - 1]
         /\ \A j \in 1..Len(t) + 1 : FrameEnd(t, j) = FrameEnd(s, k + j - 1)
<1>1. Len(s) \in Nat
  BY LenProperties
<1> DEFINE t == SubSeq(s, k, Len(s))
<1>2. /\ t \in Seq(X) /\ Len(t) = Len(s) + 1 - k
      /\ \A j \in 1..Len(t) : t[j] = s[k + j - 1]
  <2>1. \A i \in k..Len(s) : s[i] \in X
    BY <1>1, ElementOfSeq
  <2>2. /\ t \in Seq(X) /\ Len(t) = (IF k <= Len(s) THEN Len(s) - k + 1 ELSE 0)
        /\ \A i \in 1 .. Len(s) - k + 1 : t[i] = s[k + i - 1]
    BY <1>1, <2>1, SubSeqProperties
  <2> HIDE DEF t
  <2> QED
    BY <1>1, <2>2
<1> HIDE DEF t
<1>3. ASSUME NEW j \in 1..Len(t) + 3 PROVE LineEnd(t, j) = LineEnd(s, k + j - 1)
  <2>1. /\ j <= Len(t) <=> k + j - 1 <= Len(s)
        /\ j < Len(t) <=> k + j - 1 < Len(s)
        /\ j <= Len(t) => t[j] = s[k + j - 1]
        /\ j < Len(t) => t[j + 1] = s[k + j - 1 + 1]
    <3>1. Len(t) \in Nat /\ j \in Nat \ {0} /\ k \in Nat \ {0}
      BY <1>1, <1>2
    <3>2. (j <= Len(t) <=> k + j - 1 <= Len(s)) /\ (j < Len(t) <=> k + j - 1 < Len(s))
      BY <1>1, <1>2, <3>1
    <3>3. j <= Len(t) => t[j] = s[k + j - 1]
      BY <1>2, <3>1
    <3>4. ASSUME j < Len(t) PROVE t[j + 1] = s[k + j - 1 + 1]
      <4>1. j + 1 \in 1..Len(t) /\ k + (j + 1) - 1 = k + j - 1 + 1
        BY <3>1, <3>4
      <4> QED
        BY <1>2, <4>1
    <3> QED
      BY <3>2, <3>3, <3>4
  <2> DEFINE m == k + j - 1
  <2> HIDE DEF m
  <2>2. /\ j <= Len(t) <=> m <= Len(s)
        /\ j < Len(t) <=> m < Len(s)
        /\ j <= Len(t) => t[j] = s[m]
        /\ j < Len(t) => t[j + 1] = s[m + 1]
    BY <2>1 DEF m
  <2>3. CASE j <= Len(t) /\ t[j] = LF
    BY <2>2, <2>3 DEF LineEnd, m
  <2>4. CASE ~(j <= Len(t) /\ t[j] = LF)
    <3>1. ~(m <= Len(s) /\ s[m] = LF)
      BY <2>2, <2>4
    <3>2. (j < Len(t) /\ t[j] = CR /\ t[j + 1] = LF) <=> (m < Len(s) /\ s[m] = CR /\ s[m + 1] = LF)
      <4>1. Len(t) \in Nat /\ j \in Nat
        BY <1>1, <1>2
      <4>2. j < Len(t) => j <= Len(t)
        BY <4>1
      <4> QED
        BY <2>2, <4>2
    <3>3. LineEnd(t, j) = LineEnd(s, m)
      BY <2>4, <3>1, <3>2 DEF LineEnd
    <3> QED
      BY <3>3 DEF m
  <2> QED
    BY <2>3, <2>4
<1>4. ASSUME NEW j \in 1..Len(t) + 1 PROVE FrameEnd(t, j) = FrameEnd(s, k + j - 1)
  <2>1. LineEnd(t, j) = LineEnd(s, k + j - 1) /\ LineEnd(t, j) \in {0, 1, 2}
    BY <1>1, <1>2, <1>3, LineEndType
  <2>2. LineEnd(t, j + LineEnd(t, j)) = LineEnd(s, k + j - 1 + LineEnd(t, j))
    BY <1>1, <1>2, <1>3, <2>1
  <2> QED
    BY <2>1, <2>2 DEF FrameEnd
<1> QED
  BY <1>2, <1>4 DEF t


\* How far the first match is, and what follows it, does not depend on what is before.
IsRest(t, s, k) == t = SubSeq(s, k, Len(s))

\* The first end in what is left of a sequence is the sequence's own.
LEMMA FirstOfRest ==
  ASSUME NEW X, NEW s \in Seq(X), NEW k \in 1..Len(s) + 1, NEW t, IsRest(t, s, k),
         NEW j \in 1..Len(t) + 1
  PROVE  /\ Ends(t) \cap j..Len(t) = {} <=> Ends(s) \cap (k + j - 1)..Len(s) = {}
         /\ Ends(t) \cap j..Len(t) # {} =>
              /\ First(s, k + j - 1) = k + First(t, j) - 1
              /\ After(s, k + j - 1) = k + After(t, j) - 1
<1>1. Len(s) \in Nat
  BY LenProperties
<1>2. /\ t \in Seq(X) /\ Len(t) = Len(s) + 1 - k
      /\ \A i \in 1..Len(t) : t[i] = s[k + i - 1]
      /\ \A i \in 1..Len(t) + 1 : FrameEnd(t, i) = FrameEnd(s, k + i - 1)
  BY EndsOfRest DEF IsRest
<1> DEFINE A == Ends(t) \cap j..Len(t)
           B == Ends(s) \cap (k + j - 1)..Len(s)
<1>3. \A i \in A : k + i - 1 \in B
  <2> SUFFICES ASSUME NEW i \in A PROVE k + i - 1 \in B
    OBVIOUS
  <2>1. i \in 1..Len(t) /\ FrameEnd(t, i) > 0 /\ i \in j..Len(t)
    BY DEF Ends
  <2>2. k + i - 1 \in 1..Len(s) /\ k + i - 1 \in (k + j - 1)..Len(s) /\ i \in 1..Len(t) + 1
    BY <1>1, <1>2, <2>1
  <2>3. FrameEnd(s, k + i - 1) > 0
    BY <1>2, <2>1, <2>2
  <2> QED
    BY <2>2, <2>3 DEF Ends
<1>4. \A i \in B : i - k + 1 \in A
  <2> SUFFICES ASSUME NEW i \in B PROVE i - k + 1 \in A
    OBVIOUS
  <2>1. i \in 1..Len(s) /\ FrameEnd(s, i) > 0 /\ i \in (k + j - 1)..Len(s)
    BY DEF Ends
  <2>2. i - k + 1 \in 1..Len(t) /\ k + (i - k + 1) - 1 = i /\ i - k + 1 \in j..Len(t)
    BY <1>1, <1>2, <2>1
  <2>3. FrameEnd(t, i - k + 1) > 0
    <3>1. i - k + 1 \in 1..Len(t) + 1
      BY <1>1, <1>2, <2>2
    <3>2. FrameEnd(t, i - k + 1) = FrameEnd(s, k + (i - k + 1) - 1)
      BY <1>2, <3>1, Zenon
    <3> QED
      BY <2>1, <2>2, <3>2
  <2> QED
    BY <2>2, <2>3 DEF Ends
<1>5. ASSUME A # {} PROVE First(s, k + j - 1) = k + First(t, j) - 1 /\ After(s, k + j - 1) = k + After(t, j) - 1
  <2>1. /\ A \in SUBSET Nat /\ B \in SUBSET Nat
        /\ First(t, j) = Min(A) /\ First(s, k + j - 1) = Min(B)
    BY <1>1, <1>2 DEF First, Ends
  <2>2. A \subseteq j..Len(t)
    OBVIOUS
  <2> HIDE DEF A, B
  <2>3. First(t, j) \in A /\ \A i \in A : First(t, j) <= i
    BY <1>5, <2>1, MinIsLeast
  <2> DEFINE m == k + First(t, j) - 1
  <2>4. m \in B
    BY <1>3, <2>3
  <2>5. \A i \in B : m <= i
    <3> SUFFICES ASSUME NEW i \in B PROVE m <= i
      OBVIOUS
    <3>1. i - k + 1 \in A /\ i \in Nat /\ First(t, j) \in Nat
      BY <1>4, <2>1, <2>3
    <3>2. First(t, j) <= i - k + 1
      BY <2>3, <3>1
    <3> QED
      BY <3>1, <3>2
  <2>6. First(s, k + j - 1) = m
    <3> HIDE DEF m
    <3> QED
      BY <2>1, <2>4, <2>5, MinIs
  <2>7. First(t, j) \in 1..Len(t) + 1
    <3>1. First(t, j) \in j..Len(t)
      BY <2>2, <2>3
    <3>2. Len(t) \in Nat
      BY <1>1, <1>2
    <3> QED
      BY <3>1, <3>2
  <2>8. FrameEnd(s, m) = FrameEnd(t, First(t, j)) /\ FrameEnd(s, m) \in Nat
    <3>1. FrameEnd(s, m) = FrameEnd(t, First(t, j))
      BY <1>2, <2>7
    <3>2. m \in Nat
      BY <2>1, <2>4
    <3> HIDE DEF m
    <3> QED
      BY <3>1, <3>2, FrameEndType
  <2> QED
    BY <1>1, <2>6, <2>7, <2>8 DEF After
<1> QED
  BY <1>3, <1>4, <1>5

\* What is split off from a position on is the split of what is left there.
LEMMA RestIsSplit ==
  ASSUME NEW X, NEW s \in Seq(X), NEW k \in 1..Len(s) + 1, NEW f, Rests(s, f, 1)
  PROVE  f[k] = Split(SubSeq(s, k, Len(s)))
<1>1. Len(s) \in Nat
  BY LenProperties
<1> DEFINE t == SubSeq(s, k, Len(s))
<1>2. /\ t \in Seq(X) /\ Len(t) = Len(s) + 1 - k
      /\ \A j \in 1..Len(t) : t[j] = s[k + j - 1]
  BY EndsOfRest
<1>t. IsRest(t, s, k)
  BY DEF IsRest
<1> HIDE DEF t
<1>3. PICK g : Rests(t, g, 1) /\ Split(t) = g[1]
  BY <1>2, SplitExists
<1> DEFINE N == {n \in Nat : \A j \in 1..Len(t) + 1 : Len(t) + 1 - j <= n => f[k + j - 1] = g[j]}
<1>4. ASSUME NEW j \in 1..Len(t) + 1,
             \A i \in (j + 1)..Len(t) + 1 : f[k + i - 1] = g[i]
      PROVE  f[k + j - 1] = g[j]
  <2>1. k + j - 1 \in 1..Len(s) + 1
    BY <1>1, <1>2
  <2>2. f[k + j - 1] = RestOf(s, f, k + j - 1) /\ g[j] = RestOf(t, g, j)
    BY <1>3, <2>1 DEF Rests
  <2>3. /\ Ends(t) \cap j..Len(t) = {} <=> Ends(s) \cap (k + j - 1)..Len(s) = {}
        /\ Ends(t) \cap j..Len(t) # {} =>
              /\ First(s, k + j - 1) = k + First(t, j) - 1
              /\ After(s, k + j - 1) = k + After(t, j) - 1
    BY <1>t, FirstOfRest
  <2>4. CASE Ends(t) \cap j..Len(t) = {}
    <3>1. SubSeq(s, k + j - 1, Len(s)) = SubSeq(t, j, Len(t))
      <4>1. \A i \in j..Len(t) : t[i] \in X
        BY <1>1, <1>2, ElementOfSeq
      <4>2. \A i \in j..Len(t) : s[(k + j - 1) + i - j] = t[i]
        BY <1>1, <1>2
      <4>3. SubSeq(t, j, Len(t)) = SubSeq(s, k + j - 1, Len(s))
        BY <1>1, <1>2, <4>1, <4>2, SameSubSeq
      <4> QED
        BY <4>3
    <3> QED
      BY <2>2, <2>3, <2>4, <3>1 DEF RestOf
  <2>5. CASE Ends(t) \cap j..Len(t) # {}
    <3>1. First(t, j) \in j..Len(t) /\ After(t, j) \in (First(t, j) + 1)..(Len(t) + 1)
      BY <1>2, <2>5, FirstIs
    <3>2. After(t, j) \in (j + 1)..Len(t) + 1
      BY <1>1, <1>2, <3>1
    <3>3. f[After(s, k + j - 1)] = g[After(t, j)]
      BY <1>4, <2>3, <2>5, <3>2
    <3>4. SubSeq(s, k + j - 1, First(s, k + j - 1) - 1) = SubSeq(t, j, First(t, j) - 1)
      <4> DEFINE e == First(t, j) - 1
                 c == k + j - 1
                 d == k + e - 1
      <4>1. e \in Nat /\ e <= Len(t) /\ Len(t) \in Nat
        BY <1>1, <1>2, <3>1
      <4>2. j \in Int /\ e \in Int /\ c \in Int /\ d \in Int /\ d - c = e - j
        BY <1>1, <4>1
      <4>3. \A i \in j..e : t[i] \in X /\ s[c + i - j] = t[i]
        <5> SUFFICES ASSUME NEW i \in j..e PROVE t[i] \in X /\ s[c + i - j] = t[i]
          OBVIOUS
        <5>1. i \in 1..Len(t) /\ c + i - j = k + i - 1
          BY <4>1
        <5> QED
          BY <1>2, <5>1, ElementOfSeq
      <4>4. First(s, k + j - 1) - 1 = d
        BY <2>3, <2>5, <4>1
      <4>5. SubSeq(t, j, e) = SubSeq(s, c, d)
        <5> HIDE DEF c, d, e
        <5>1. \A i \in j..e : t[i] \in X
          BY <4>3
        <5>2. \A i \in j..e : s[c + i - j] = t[i]
          BY <4>3
        <5> QED
          BY <4>2, <5>1, <5>2, SameSubSeq
      <4> QED
        BY <4>4, <4>5
    <3> QED
      BY <2>2, <2>3, <2>5, <3>3, <3>4 DEF RestOf
  <2> QED
    BY <2>4, <2>5
<1>5. 0 \in N
  <2> SUFFICES ASSUME NEW j \in 1..Len(t) + 1, Len(t) + 1 - j <= 0 PROVE f[k + j - 1] = g[j]
    BY DEF N
  <2>1. (j + 1)..Len(t) + 1 = {}
    BY <1>1, <1>2
  <2> QED
    BY <1>4, <2>1
<1>6. ASSUME NEW n \in Nat, n \in N PROVE n + 1 \in N
  <2> SUFFICES ASSUME NEW j \in 1..Len(t) + 1, Len(t) + 1 - j <= n + 1 PROVE f[k + j - 1] = g[j]
    BY DEF N
  <2>1. \A i \in (j + 1)..Len(t) + 1 : i \in 1..Len(t) + 1 /\ Len(t) + 1 - i <= n
    BY <1>1, <1>2
  <2>2. \A i \in (j + 1)..Len(t) + 1 : f[k + i - 1] = g[i]
    BY <1>6, <2>1
  <2> QED
    BY <1>4, <2>2
<1>7. Nat \subseteq N
  <2> HIDE DEF N
  <2> QED
    BY <1>5, <1>6, Induct
<1>8. f[k + 1 - 1] = g[1]
  <2>1. Len(t) \in Nat /\ 1 \in 1..Len(t) + 1 /\ Len(t) + 1 - 1 <= Len(t)
    BY <1>1, <1>2
  <2>2. Len(t) \in N
    <3> HIDE DEF N
    <3> QED
      BY <1>7, <2>1
  <2> QED
    BY <2>1, <2>2
<1> QED
  BY <1>3, <1>8 DEF t

-----------------------------------------------------------------------------
(* The splitter, step by step, and when more arrives.                      *)

Hd(s) == SubSeq(s, 1, First(s, 1) - 1)
Rem(s) == SubSeq(s, After(s, 1), Len(s))

\* One step of the splitter: a sequence without an end is left as it is; of any
\* other the first frame is split off.
LEMMA SplitStep ==
  ASSUME NEW X, NEW s \in Seq(X)
  PROVE  /\ Ends(s) = {} => Split(s) = <<s>>
         /\ Ends(s) # {} => Split(s) = <<Hd(s)>> \o Split(Rem(s))
<1>1. Len(s) \in Nat /\ 1 \in 1..Len(s) + 1
  BY LenProperties
<1>2. PICK f : Rests(s, f, 1) /\ Split(s) = f[1]
  BY SplitExists
<1>3. Split(s) = RestOf(s, f, 1)
  BY <1>1, <1>2 DEF Rests
<1>4. Ends(s) \cap 1..Len(s) = Ends(s)
  BY DEF Ends
<1>5. ASSUME Ends(s) = {} PROVE Split(s) = <<s>>
  BY <1>3, <1>4, <1>5, SubSeqFull DEF RestOf
<1>6. ASSUME Ends(s) # {} PROVE Split(s) = <<Hd(s)>> \o Split(Rem(s))
  <2>1. First(s, 1) \in 1..Len(s) /\ After(s, 1) \in (First(s, 1) + 1)..(Len(s) + 1)
    BY <1>1, <1>4, <1>6, FirstIs
  <2>2. After(s, 1) \in 1..Len(s) + 1
    BY <1>1, <2>1
  <2>3. f[After(s, 1)] = Split(Rem(s))
    BY <1>2, <2>2, RestIsSplit DEF Rem
  <2> QED
    BY <1>3, <1>4, <1>6, <2>3 DEF RestOf, Hd
<1> QED
  BY <1>5, <1>6

\* The parts, and what is left after the first of them.
LEMMA Parts ==
  ASSUME NEW X, NEW s \in Seq(X), Ends(s) # {}
  PROVE  /\ Len(s) \in Nat
         /\ First(s, 1) \in 1..Len(s) /\ FrameEnd(s, First(s, 1)) > 0
         /\ \A j \in 1..First(s, 1) - 1 : FrameEnd(s, j) = 0
         /\ After(s, 1) \in (First(s, 1) + 1)..(Len(s) + 1)
         /\ Hd(s) \in Seq(X) /\ Rem(s) \in Seq(X)
         /\ Len(Rem(s)) = Len(s) + 1 - After(s, 1)
         /\ \A j \in 1..Len(Rem(s)) : Rem(s)[j] = s[After(s, 1) + j - 1]
<1>1. Len(s) \in Nat /\ 1 \in 1..Len(s) + 1
  BY LenProperties
<1>2. Ends(s) \cap 1..Len(s) = Ends(s)
  BY DEF Ends
<1>3. /\ First(s, 1) \in 1..Len(s) /\ FrameEnd(s, First(s, 1)) > 0
      /\ \A j \in 1..First(s, 1) - 1 : FrameEnd(s, j) = 0
      /\ After(s, 1) \in (First(s, 1) + 1)..(Len(s) + 1)
  BY <1>1, <1>2, FirstIs
<1>4. After(s, 1) \in 1..Len(s) + 1
  BY <1>1, <1>3
<1>5. /\ Rem(s) \in Seq(X) /\ Len(Rem(s)) = Len(s) + 1 - After(s, 1)
      /\ \A j \in 1..Len(Rem(s)) : Rem(s)[j] = s[After(s, 1) + j - 1]
  BY <1>4, EndsOfRest DEF Rem
<1>6. Hd(s) \in Seq(X)
  <2>1. \A i \in 1..First(s, 1) - 1 : s[i] \in X
    BY <1>1, <1>3, ElementOfSeq
  <2>2. First(s, 1) - 1 \in Int /\ 1 \in Int
    BY <1>1, <1>3
  <2> QED
    BY <2>1, <2>2, SubSeqProperties DEF Hd
<1> QED
  BY <1>1, <1>3, <1>5, <1>6

\* Induction along the frames of a sequence.
LEMMA SplitInduct ==
  ASSUME NEW X, NEW P,
         \A s \in Seq(X) : (Ends(s) # {} => Rem(s) \in P) => s \in P
  PROVE  Seq(X) \subseteq P
<1> DEFINE N == {n \in Nat : \A s \in Seq(X) : Len(s) <= n => s \in P}
<1>1. ASSUME NEW s \in Seq(X), \A t \in Seq(X) : Len(t) < Len(s) => t \in P PROVE s \in P
  <2>1. ASSUME Ends(s) # {} PROVE Rem(s) \in P
    <3>1. Rem(s) \in Seq(X) /\ Len(Rem(s)) < Len(s)
      BY <2>1, Parts
    <3> QED
      BY <1>1, <3>1
  <2> QED
    BY <2>1
<1>2. 0 \in N
  <2> SUFFICES ASSUME NEW s \in Seq(X), Len(s) <= 0 PROVE s \in P
    BY DEF N
  <2>1. \A t \in Seq(X) : ~(Len(t) < Len(s))
    BY LenProperties
  <2> QED
    BY <1>1, <2>1
<1>3. ASSUME NEW n \in Nat, n \in N PROVE n + 1 \in N
  <2> SUFFICES ASSUME NEW s \in Seq(X), Len(s) <= n + 1 PROVE s \in P
    BY DEF N
  <2>1. \A t \in Seq(X) : Len(t) < Len(s) => Len(t) <= n
    BY LenProperties
  <2> QED
    BY <1>1, <1>3, <2>1
<1>4. Nat \subseteq N
  <2> HIDE DEF N
  <2> QED
    BY <1>2, <1>3, Induct
<1> SUFFICES ASSUME NEW s \in Seq(X) PROVE s \in P
  OBVIOUS
<1>5. Len(s) \in Nat /\ Len(s) \in N /\ Len(s) <= Len(s)
  <2>1. Len(s) \in Nat
    BY LenProperties
  <2> HIDE DEF N
  <2> QED
    BY <1>4, <2>1
<1> QED
  BY <1>5

\* The parts of a sequence that is not empty.
LEMMA FrontLast ==
  ASSUME NEW X, NEW s \in Seq(X), s # <<>>
  PROVE  /\ Front(s) \in Seq(X) /\ Last(s) \in X
         /\ s = Front(s) \o <<Last(s)>>
  BY DEF Front, Last

\* An element put in front leaves the last one, ...
LEMMA LastOfCons ==
  ASSUME NEW X, NEW s \in Seq(X), NEW h \in X, s # <<>>
  PROVE  /\ <<h>> \o s \in Seq(X) /\ <<h>> \o s # <<>>
         /\ Last(<<h>> \o s) = Last(s)
  BY DEF Last

\* ... and so does a sequence; all but the last follow it.
LEMMA FrontConcat ==
  ASSUME NEW X, NEW a \in Seq(X), NEW s \in Seq(X), s # <<>>
  PROVE  Front(a \o s) = a \o Front(s) /\ Last(a \o s) = Last(s)
  BY DEF Front, Last

\* A split is made of sequences, and no frame ends in the last of them.
LEMMA SplitType ==
  ASSUME NEW X, NEW s \in Seq(X)
  PROVE  /\ Split(s) \in Seq(Seq(X)) /\ Split(s) # <<>>
         /\ Ends(Last(Split(s))) = {}
<1> DEFINE P == {t \in Seq(X) : Split(t) \in Seq(Seq(X)) /\ Split(t) # <<>> /\ Ends(Last(Split(t))) = {}}
<1>1. ASSUME NEW t \in Seq(X), Ends(t) # {} => Rem(t) \in P PROVE t \in P
  <2>1. CASE Ends(t) = {}
    <3>1. Split(t) = <<t>>
      BY <2>1, SplitStep
    <3>2. <<t>> \in Seq(Seq(X)) /\ <<t>> # <<>> /\ Last(<<t>>) = t
      BY DEF Last
    <3> QED
      BY <2>1, <3>1, <3>2
  <2>2. CASE Ends(t) # {}
    <3>1. Split(t) = <<Hd(t)>> \o Split(Rem(t)) /\ Hd(t) \in Seq(X)
      BY <2>2, SplitStep, Parts
    <3>2. Split(Rem(t)) \in Seq(Seq(X)) /\ Split(Rem(t)) # <<>> /\ Ends(Last(Split(Rem(t)))) = {}
      BY <1>1, <2>2
    <3>3. Split(t) \in Seq(Seq(X)) /\ Split(t) # <<>> /\ Last(Split(t)) = Last(Split(Rem(t)))
      <4> DEFINE Y == Seq(X)
                 h == Hd(t)
                 r == Split(Rem(t))
      <4>1. h \in Y /\ r \in Seq(Y) /\ r # <<>> /\ Split(t) = <<h>> \o r
        BY <3>1, <3>2
      <4> HIDE DEF Y, h, r
      <4>2. /\ <<h>> \o r \in Seq(Y) /\ <<h>> \o r # <<>>
            /\ Last(<<h>> \o r) = Last(r)
        BY <4>1, LastOfCons
      <4>3. Split(t) \in Seq(Y) /\ Split(t) # <<>> /\ Last(Split(t)) = Last(r)
        BY <4>1, <4>2
      <4> QED
        BY <4>3 DEF Y, r
    <3> QED
      BY <3>2, <3>3
  <2> QED
    BY <2>1, <2>2
<1> HIDE DEF P
<1>2. s \in P
  BY <1>1, SplitInduct
<1> QED
  BY <1>2 DEF P

\* A line's end is LF, or CR and LF.
LEMMA LineEndIs ==
  ASSUME NEW s, NEW i
  PROVE  /\ i <= Len(s) /\ s[i] = LF => LineEnd(s, i) = 1
         /\ i < Len(s) /\ s[i] = CR /\ s[i + 1] = LF => LineEnd(s, i) = 2
         /\ LineEnd(s, i) > 0 =>
              \/ LineEnd(s, i) = 1 /\ i <= Len(s) /\ s[i] = LF
              \/ LineEnd(s, i) = 2 /\ i < Len(s) /\ s[i] = CR /\ s[i + 1] = LF
<1>1. CASE i <= Len(s) /\ s[i] = LF
  <2>1. s[i] # CR
    BY <1>1, SyntaxAssumption
  <2>2. LineEnd(s, i) = 1
    BY <1>1, <2>1 DEF LineEnd
  <2> QED
    BY <1>1, <2>1, <2>2
<1>2. CASE ~(i <= Len(s) /\ s[i] = LF) /\ i < Len(s) /\ s[i] = CR /\ s[i + 1] = LF
  <2>1. LineEnd(s, i) = 2
    BY <1>2 DEF LineEnd
  <2> QED
    BY <1>2, <2>1
<1>3. CASE ~(i <= Len(s) /\ s[i] = LF) /\ ~(i < Len(s) /\ s[i] = CR /\ s[i + 1] = LF)
  <2>1. LineEnd(s, i) = 0
    BY <1>3 DEF LineEnd
  <2> QED
    BY <1>3, <2>1
<1> QED
  BY <1>1, <1>2, <1>3

\* A match is still one when more follows, and stays the first.
LEMMA FrameKept ==
  ASSUME NEW X, NEW x \in Seq(X), NEW y \in Seq(X), NEW j \in Nat \ {0}, FrameEnd(x, j) > 0
  PROVE  FrameEnd(x \o y, j) = FrameEnd(x, j)
<1> DEFINE z == x \o y
<1>1. /\ Len(x) \in Nat /\ Len(y) \in Nat /\ Len(z) = Len(x) + Len(y)
      /\ \A i \in 1..Len(x) : z[i] = x[i]
  BY LenProperties, ConcatProperties
<1> HIDE DEF z
<1>2. ASSUME NEW i \in Nat \ {0}, LineEnd(x, i) > 0 PROVE LineEnd(z, i) = LineEnd(x, i)
  <2>1. CASE LineEnd(x, i) = 1 /\ i <= Len(x) /\ x[i] = LF
    <3>1. i <= Len(z) /\ z[i] = LF
      BY <1>1, <2>1
    <3> QED
      BY <2>1, <3>1, LineEndIs
  <2>2. CASE LineEnd(x, i) = 2 /\ i < Len(x) /\ x[i] = CR /\ x[i + 1] = LF
    <3>1. i \in 1..Len(x) /\ i + 1 \in 1..Len(x) /\ i < Len(z) /\ i <= Len(z)
      BY <1>1, <2>2
    <3>2. z[i] = CR /\ z[i + 1] = LF
      BY <1>1, <2>2, <3>1
    <3> QED
      BY <2>2, <3>1, <3>2, LineEndIs
  <2> QED
    BY <1>2, <2>1, <2>2, LineEndIs
<1>3. LineEnd(x, j) > 0 /\ LineEnd(x, j + LineEnd(x, j)) > 0
  BY LineEndType DEF FrameEnd
<1>4. LineEnd(z, j) = LineEnd(x, j) /\ j + LineEnd(x, j) \in Nat \ {0}
  BY <1>2, <1>3, LineEndType
<1>5. LineEnd(z, j + LineEnd(x, j)) = LineEnd(x, j + LineEnd(x, j))
  BY <1>2, <1>3, <1>4
<1>6. FrameEnd(z, j) = FrameEnd(x, j)
  BY <1>3, <1>4, <1>5 DEF FrameEnd
<1> QED
  BY <1>6 DEF z

\* What matches at i.
LEMMA FrameIs ==
  ASSUME NEW X, NEW s \in Seq(X), NEW i \in Nat \ {0}, FrameEnd(s, i) > 0
  PROVE  \E n, m \in {1, 2} :
         /\ LineEnd(s, i) = n /\ LineEnd(s, i + n) = m /\ FrameEnd(s, i) = n + m
         /\ i + n + m <= Len(s) + 1
         /\ n = 1 => s[i] = LF
         /\ n = 2 => s[i] = CR /\ s[i + 1] = LF
         /\ m = 1 => s[i + n] = LF
         /\ m = 2 => s[i + n] = CR /\ s[i + n + 1] = LF
<1>1. Len(s) \in Nat
  BY LenProperties
<1>2. ASSUME NEW j \in Nat \ {0}, LineEnd(s, j) > 0
      PROVE  /\ LineEnd(s, j) \in {1, 2} /\ j + LineEnd(s, j) <= Len(s) + 1
             /\ LineEnd(s, j) = 1 => s[j] = LF
             /\ LineEnd(s, j) = 2 => s[j] = CR /\ s[j + 1] = LF
  BY <1>1, <1>2, LineEndIs
<1>3. PICK n : n = LineEnd(s, i)
  OBVIOUS
<1>4. PICK m : m = LineEnd(s, i + n)
  OBVIOUS
<1>5. n > 0 /\ m > 0 /\ FrameEnd(s, i) = n + m
  BY <1>3, <1>4, LineEndType DEF FrameEnd
<1>6. /\ n \in {1, 2} /\ i + n \in Nat \ {0}
      /\ n = 1 => s[i] = LF
      /\ n = 2 => s[i] = CR /\ s[i + 1] = LF
  BY <1>2, <1>3, <1>5
<1>7. /\ m \in {1, 2} /\ (i + n) + m <= Len(s) + 1
      /\ m = 1 => s[i + n] = LF
      /\ m = 2 => s[i + n] = CR /\ s[i + n + 1] = LF
  BY <1>2, <1>4, <1>5, <1>6
<1> QED
  BY <1>3, <1>4, <1>5, <1>6, <1>7

\* No end appears before a frame's end when more arrives.
LEMMA FirstKept ==
  ASSUME NEW X, NEW x \in Seq(X), NEW y \in Seq(X), NEW f \in 1..Len(x), FrameEnd(x, f) > 0,
         NEW j \in 1..f - 1, FrameEnd(x, j) = 0
  PROVE  FrameEnd(x \o y, j) = 0
<1> DEFINE z == x \o y
<1>1. /\ Len(x) \in Nat /\ Len(y) \in Nat /\ Len(z) = Len(x) + Len(y) /\ z \in Seq(X)
      /\ \A i \in 1..Len(x) : z[i] = x[i]
  BY LenProperties, ConcatProperties
<1> HIDE DEF z
<1>2. SUFFICES ASSUME FrameEnd(z, j) > 0 PROVE FALSE
  <2>1. FrameEnd(z, j) \in Nat
    BY <1>1, FrameEndType
  <2> QED
    BY <1>2, <2>1 DEF z
<1>0. j \in Nat \ {0} /\ f \in Nat \ {0} /\ j < f
  BY <1>1
<1>3. PICK n, m \in {1, 2} :
        /\ LineEnd(z, j) = n /\ LineEnd(z, j + n) = m /\ FrameEnd(z, j) = n + m
        /\ j + n + m <= Len(z) + 1
        /\ n = 1 => z[j] = LF
        /\ n = 2 => z[j] = CR /\ z[j + 1] = LF
        /\ m = 1 => z[j + n] = LF
        /\ m = 2 => z[j + n] = CR /\ z[j + n + 1] = LF
  <2>1. z \in Seq(X) /\ j \in Nat \ {0} /\ FrameEnd(z, j) > 0
    BY <1>0, <1>1, <1>2
  <2> QED
    BY <2>1, FrameIs
<1>4. PICK a, b \in {1, 2} :
        /\ LineEnd(x, f) = a /\ LineEnd(x, f + a) = b /\ FrameEnd(x, f) = a + b
        /\ f + a + b <= Len(x) + 1
        /\ a = 1 => x[f] = LF
        /\ a = 2 => x[f] = CR /\ x[f + 1] = LF
        /\ b = 1 => x[f + a] = LF
        /\ b = 2 => x[f + a] = CR /\ x[f + a + 1] = LF
  BY <1>0, <1>1, FrameIs
<1>5. CASE j + n + m - 1 <= Len(x)
  <2>1. /\ n = 1 => j <= Len(x) /\ x[j] = LF
        /\ n = 2 => j < Len(x) /\ x[j] = CR /\ x[j + 1] = LF
        /\ m = 1 => j + n <= Len(x) /\ x[j + n] = LF
        /\ m = 2 => j + n < Len(x) /\ x[j + n] = CR /\ x[j + n + 1] = LF
    <3>1. j + n \in Nat /\ j + n <= Len(x) /\ j <= Len(x) /\ (n = 2 => j + 1 <= Len(x))
          /\ (m = 2 => j + n + 1 <= Len(x))
      BY <1>0, <1>1, <1>5
    <3>2. /\ x[j] = z[j] /\ x[j + n] = z[j + n]
          /\ n = 2 => x[j + 1] = z[j + 1]
          /\ m = 2 => x[j + n + 1] = z[j + n + 1]
      BY <1>0, <1>1, <3>1
    <3>3. (n = 2 => j < Len(x)) /\ (m = 2 => j + n < Len(x))
      BY <1>0, <1>1, <3>1
    <3> QED
      BY <1>3, <3>1, <3>2, <3>3
  <2>2. LineEnd(x, j) = n /\ LineEnd(x, j + n) = m
    BY <2>1, LineEndIs
  <2>3. FrameEnd(x, j) = n + m
    BY <2>2 DEF FrameEnd
  <2> QED
    BY <2>3
<1>6. CASE j + n + m - 1 > Len(x)
  <2>1. n = 2 /\ m = 2 /\ f = j + 1
    <3>1. j + n + m > Len(x) + 1 /\ f + a + b <= Len(x) + 1 /\ j + n + m > f + a + b
      BY <1>0, <1>1, <1>4, <1>6
    <3>2. n + m <= 4 /\ a + b >= 2 /\ j + 1 <= f
      BY <1>0
    <3>3. n + m = 4 /\ f = j + 1 /\ a + b = 2
      BY <1>0, <3>1, <3>2
    <3> QED
      BY <3>3
  <2>3. a = 1 /\ b = 1
    BY <1>0, <1>1, <1>4, <1>6, <2>1
  <2>2. x[f + 1] = LF /\ z[j + 2] = CR /\ f + 1 = j + 2 /\ f + 1 \in 1..Len(x)
    BY <1>0, <1>1, <1>3, <1>4, <2>1, <2>3
  <2> QED
    BY <1>1, <2>2, SyntaxAssumption
<1> QED
  BY <1>1, <1>3, <1>5, <1>6

\* The first frame is the first, whatever arrives after it.
LEMMA PrefixParts ==
  ASSUME NEW X, NEW x \in Seq(X), NEW y \in Seq(X), Ends(x) # {}
  PROVE  /\ Ends(x \o y) # {} /\ Hd(x \o y) = Hd(x) /\ Rem(x \o y) = Rem(x) \o y
<1> DEFINE z == x \o y
           f == First(x, 1)
<1>1. /\ Len(x) \in Nat /\ Len(y) \in Nat /\ Len(z) = Len(x) + Len(y) /\ z \in Seq(X)
      /\ \A i \in 1..Len(x) : z[i] = x[i]
      /\ \A i \in 1..Len(z) : z[i] = IF i <= Len(x) THEN x[i] ELSE y[i - Len(x)]
  BY LenProperties, ConcatProperties
<1>2. /\ f \in 1..Len(x) /\ FrameEnd(x, f) > 0
      /\ \A j \in 1..f - 1 : FrameEnd(x, j) = 0
      /\ After(x, 1) \in (f + 1)..(Len(x) + 1)
      /\ Rem(x) \in Seq(X) /\ Len(Rem(x)) = Len(x) + 1 - After(x, 1)
      /\ \A j \in 1..Len(Rem(x)) : Rem(x)[j] = x[After(x, 1) + j - 1]
  BY Parts
<1>3. FrameEnd(z, f) = FrameEnd(x, f)
  BY <1>1, <1>2, FrameKept
<1>4. \A j \in 1..f - 1 : FrameEnd(z, j) = 0
  BY <1>2, FirstKept
<1> HIDE DEF z
<1>5. First(z, 1) = f /\ Ends(z) # {}
  <2>1. f \in Ends(z) /\ f \in Ends(z) \cap 1..Len(z)
    BY <1>1, <1>2, <1>3 DEF Ends
  <2>2. \A i \in Ends(z) \cap 1..Len(z) : f <= i
    <3> SUFFICES ASSUME NEW i \in 1..Len(z), FrameEnd(z, i) > 0 PROVE f <= i
      BY DEF Ends
    <3>1. i \notin 1..f - 1
      BY <1>4
    <3> QED
      BY <1>1, <1>2, <3>1
  <2>3. Ends(z) \cap 1..Len(z) \in SUBSET Nat
    BY <1>1
  <2> HIDE DEF f
  <2>4. Min(Ends(z) \cap 1..Len(z)) = f
    BY <2>1, <2>2, <2>3, MinIs
  <2> QED
    BY <2>1, <2>4 DEF First
<1>6. After(z, 1) = After(x, 1)
  BY <1>3, <1>5 DEF After
<1>7. Hd(z) = Hd(x)
  <2>1. \A i \in 1..f - 1 : x[i] \in X
    BY <1>1, <1>2, ElementOfSeq
  <2>2. \A i \in 1..f - 1 : z[1 + i - 1] = x[i]
    BY <1>1, <1>2
  <2>3. f - 1 \in Int /\ 1 \in Int
    BY <1>1, <1>2
  <2> HIDE DEF f
  <2>4. SubSeq(x, 1, f - 1) = SubSeq(z, 1, f - 1)
    BY <2>1, <2>2, <2>3, SameSubSeq
  <2> QED
    BY <1>5, <2>4 DEF Hd, f
<1>8. Rem(z) = Rem(x) \o y
  <2> DEFINE k == After(x, 1)
  <2>1. /\ Rem(z) \in Seq(X) /\ Len(Rem(z)) = Len(z) + 1 - k
        /\ \A j \in 1..Len(Rem(z)) : Rem(z)[j] = z[k + j - 1]
    <3>1. /\ Rem(z) \in Seq(X) /\ Len(Rem(z)) = Len(z) + 1 - After(z, 1)
          /\ \A j \in 1..Len(Rem(z)) : Rem(z)[j] = z[After(z, 1) + j - 1]
      BY <1>1, <1>5, Parts
    <3> QED
      BY <1>6, <3>1
  <2> DEFINE w == Rem(x) \o y
  <2>2. /\ w \in Seq(X) /\ Len(w) = Len(Rem(x)) + Len(y)
        /\ \A j \in 1..Len(w) : w[j] = IF j <= Len(Rem(x)) THEN Rem(x)[j] ELSE y[j - Len(Rem(x))]
    <3> DEFINE r == Rem(x)
    <3>1. r \in Seq(X)
      BY <1>2
    <3> HIDE DEF r
    <3>2. /\ r \o y \in Seq(X) /\ Len(r \o y) = Len(r) + Len(y)
          /\ \A j \in 1..Len(r) + Len(y) : (r \o y)[j] = IF j <= Len(r) THEN r[j] ELSE y[j - Len(r)]
      BY <3>1, ConcatProperties, Zenon
    <3> QED
      BY <3>2 DEF r
  <2>3. k \in 1..Len(x) + 1 /\ Len(Rem(x)) = Len(x) + 1 - k
    BY <1>1, <1>2
  <2>4. \A j \in 1..Len(Rem(x)) : Rem(x)[j] = x[k + j - 1]
    BY <1>2
  <2> HIDE DEF k, w, f
  <2>5. Len(Rem(z)) = Len(w) /\ Len(w) \in Nat
    BY <1>1, <2>1, <2>2, <2>3
  <2>6. ASSUME NEW j \in 1..Len(w) PROVE Rem(z)[j] = w[j]
    <3>1. Rem(z)[j] = z[k + j - 1] /\ k + j - 1 \in 1..Len(z)
      BY <1>1, <2>1, <2>3, <2>5
    <3>2. CASE j <= Len(Rem(x))
      <4>1. j \in 1..Len(Rem(x)) /\ k + j - 1 <= Len(x)
        BY <1>1, <2>3, <3>2
      <4> QED
        BY <1>1, <2>2, <2>4, <3>1, <3>2, <4>1
    <3>3. CASE ~(j <= Len(Rem(x)))
      <4>1. ~(k + j - 1 <= Len(x)) /\ (k + j - 1) - Len(x) = j - Len(Rem(x))
        BY <1>1, <2>3, <3>3
      <4> QED
        BY <1>1, <2>2, <3>1, <3>3, <4>1
    <3> QED
      BY <3>2, <3>3
  <2>7. Rem(z) = w
    BY <2>1, <2>2, <2>5, <2>6, SeqEqual
  <2> QED
    BY <2>7 DEF w
<1> QED
  BY <1>5, <1>7, <1>8 DEF z


\* However a sequence is cut in two, its frames are those of the first part and
\* those of what the first part leaves, followed by the second.
LEMMA SplitLaw ==
  ASSUME NEW X, NEW x \in Seq(X), NEW y \in Seq(X)
  PROVE  /\ Complete(x \o y) = Complete(x) \o Complete(Incomplete(x) \o y)
         /\ Incomplete(x \o y) = Incomplete(Incomplete(x) \o y)
<1> DEFINE Y == Seq(X)
           Left(s) == Split(Incomplete(s) \o y)
           P == {s \in Y : Split(s \o y) = Complete(s) \o Left(s)}
<1>1. ASSUME NEW s \in Y
      PROVE  /\ Split(s) \in Seq(Y) /\ Split(s) # <<>>
             /\ Complete(s) \in Seq(Y) /\ Incomplete(s) \in Y
             /\ s \o y \in Y /\ Split(s \o y) \in Seq(Y) /\ Split(s \o y) # <<>>
             /\ Left(s) \in Seq(Y) /\ Left(s) # <<>>
  <2>1. Split(s) \in Seq(Y) /\ Split(s) # <<>>
    BY SplitType
  <2>2. Complete(s) \in Seq(Y) /\ Incomplete(s) \in Y
    <3> HIDE DEF Y
    <3> QED
      BY <2>1, FrontLast DEF Complete, Incomplete
  <2>3. s \o y \in Y /\ Incomplete(s) \o y \in Y
    BY <2>2, ConcatProperties
  <2> QED
    BY <2>1, <2>2, <2>3, SplitType
<1>2. ASSUME NEW s \in Y, Ends(s) # {} => Rem(s) \in P PROVE s \in P
  <2>1. CASE Ends(s) = {}
    <3>1. Split(s) = <<s>>
      BY <2>1, SplitStep
    <3>2. Complete(s) = <<>> /\ Incomplete(s) = s
      BY <3>1 DEF Complete, Incomplete, Front, Last
    <3> QED
      BY <1>1, <3>2, ConcatEmptySeq
  <2>2. CASE Ends(s) # {}
    <3> DEFINE r == Rem(s)
               h == Hd(s)
    <3>1. h \in Y /\ r \in Y /\ r \in P
      BY <1>2, <2>2, Parts
    <3>2. Split(s) = <<h>> \o Split(r)
      BY <2>2, SplitStep
    <3>3. Split(s \o y) = <<h>> \o Split(r \o y)
      <4>1. Ends(s \o y) # {} /\ Hd(s \o y) = h /\ Rem(s \o y) = r \o y
        BY <2>2, PrefixParts
      <4> QED
        BY <1>1, <4>1, SplitStep
    <3>4. Split(r \o y) = Complete(r) \o Left(r)
      BY <3>1
    <3> HIDE DEF P, r, h
    <3>5. Split(r) \in Seq(Y) /\ Split(r) # <<>> /\ Complete(r) \in Seq(Y) /\ Left(r) \in Seq(Y)
      BY <1>1, <3>1
    <3> HIDE DEF Left, Y
    <3>6. Complete(s) = <<h>> \o Complete(r) /\ Incomplete(s) = Incomplete(r)
      <4>1. <<h>> \in Seq(Y)
        BY <3>1
      <4>2. Front(<<h>> \o Split(r)) = <<h>> \o Front(Split(r)) /\ Last(<<h>> \o Split(r)) = Last(Split(r))
        BY <3>5, <4>1, FrontConcat
      <4> QED
        BY <3>2, <4>2 DEF Complete, Incomplete
    <3>7. Left(s) = Left(r)
      BY <3>6 DEF Left
    <3>8. <<h>> \o (Complete(r) \o Left(r)) = (<<h>> \o Complete(r)) \o Left(r)
      <4>1. Assoc(Y) /\ <<h>> \in Seq(Y)
        BY <3>1, SeqAssoc
      <4> QED
        BY <3>5, <4>1, Zenon DEF Assoc
    <3> QED
      BY <3>3, <3>4, <3>6, <3>7, <3>8 DEF P
  <2> QED
    BY <2>1, <2>2
<1>3. x \in P
  <2>1. Seq(X) \subseteq P
    <3> HIDE DEF P
    <3> QED
      BY <1>2, SplitInduct DEF Y
  <2> QED
    BY <2>1
<1>4. Split(x \o y) = Complete(x) \o Left(x)
  BY <1>3
<1>5. Complete(x) \in Seq(Y) /\ Left(x) \in Seq(Y) /\ Left(x) # <<>>
  BY <1>1
<1>6. Front(Complete(x) \o Left(x)) = Complete(x) \o Front(Left(x)) /\ Last(Complete(x) \o Left(x)) = Last(Left(x))
  <2> HIDE DEF Y, Left
  <2> QED
    BY <1>5, FrontConcat
<1> QED
  BY <1>4, <1>6 DEF Complete, Incomplete

-----------------------------------------------------------------------------
(* The events: what is read does not depend on the cuts.                   *)

Data(f) == f[Min(DataAt(f))]
WithDataIn(Y) == {f \in Y : DataAt(f) # {}}

\* The frames with data, as a choice that depends on no sequence.
LEMMA WithDataIs ==
  ASSUME NEW Y, NEW F \in Seq(Y)
  PROVE  WithData(F) = Only(F, WithDataIn(Y)) /\ WithData(F) \in Seq(WithDataIn(Y))
<1>1. \A i \in 1..Len(F) : F[i] \in {f \in Range(F) : DataAt(f) # {}} <=> F[i] \in WithDataIn(Y)
  <2>1. \A i \in 1..Len(F) : F[i] \in Range(F) /\ F[i] \in Y
    BY RangeEquality, ElementOfSeq
  <2> QED
    BY <2>1 DEF WithDataIn
<1>2. WithData(F) = Only(F, WithDataIn(Y))
  BY <1>1, OnlySame DEF WithData
<1>3. Only(F, WithDataIn(Y)) \in Seq(Y \cap WithDataIn(Y))
  BY OnlyType
<1>4. Y \cap WithDataIn(Y) = WithDataIn(Y)
  BY DEF WithDataIn
<1> QED
  BY <1>2, <1>3, <1>4

\* A frame's data is no syntax.
LEMMA DataType ==
  ASSUME NEW X, NEW f \in WithDataIn(Seq(X)) PROVE Data(f) \in X \ Syntax
<1>1. f \in Seq(X) /\ DataAt(f) # {} /\ DOMAIN f = 1..Len(f)
  BY LenProperties DEF WithDataIn
<1>2. DataAt(f) \in SUBSET Nat
  BY <1>1 DEF DataAt
<1>3. Min(DataAt(f)) \in DataAt(f)
  BY <1>1, <1>2, MinIsLeast
<1>4. Min(DataAt(f)) \in 1..Len(f) /\ f[Min(DataAt(f))] \notin Syntax
  BY <1>1, <1>3 DEF DataAt
<1>5. f[Min(DataAt(f))] \in X
  BY <1>1, <1>4, ElementOfSeq
<1> QED
  BY <1>4, <1>5 DEF Data

\* The data of frames.
DataOf(F) == [k \in DOMAIN F |-> Data(F[k])]

\* The data of the frames, one for each.
LEMMA DataOfType ==
  ASSUME NEW X, NEW F \in Seq(WithDataIn(Seq(X)))
  PROVE  DataOf(F) \in Seq(X \ Syntax) /\ Len(DataOf(F)) = Len(F) /\ \A k \in 1..Len(F) : DataOf(F)[k] = Data(F[k])
<1> DEFINE W == WithDataIn(Seq(X))
<1>1. DOMAIN F = 1..Len(F) /\ Len(F) \in Nat /\ \A k \in 1..Len(F) : F[k] \in W
  BY LenProperties, ElementOfSeq
<1>2. \A k \in 1..Len(F) : Data(F[k]) \in X \ Syntax
  BY <1>1, DataType
<1>3. DataOf(F) \in [1..Len(F) -> X \ Syntax]
  BY <1>1, <1>2 DEF DataOf
<1>4. DataOf(F) \in Seq(X \ Syntax)
  BY <1>1, <1>3, SeqDef
<1>5. DOMAIN DataOf(F) = 1..Len(F)
  BY <1>1 DEF DataOf
<1>6. Len(DataOf(F)) = Len(F)
  BY <1>1, <1>4, <1>5, LenProperties
<1> QED
  BY <1>1, <1>4, <1>6 DEF DataOf

\* The data of frames that follow one another follow one another.
LEMMA DataOfConcat ==
  ASSUME NEW X, NEW F \in Seq(WithDataIn(Seq(X))), NEW G \in Seq(WithDataIn(Seq(X)))
  PROVE  DataOf(F \o G) = DataOf(F) \o DataOf(G)
<1> DEFINE W == WithDataIn(Seq(X))
           H == F \o G
           a == DataOf(F)
           b == DataOf(G)
           c == DataOf(H)
<1>1. /\ H \in Seq(W) /\ Len(F) \in Nat /\ Len(G) \in Nat /\ Len(H) = Len(F) + Len(G)
      /\ \A i \in 1..Len(F) + Len(G) : H[i] = IF i <= Len(F) THEN F[i] ELSE G[i - Len(F)]
  <2> HIDE DEF W
  <2>1. F \in Seq(W) /\ G \in Seq(W)
    BY DEF W
  <2> QED
    BY <2>1, ConcatProperties, LenProperties
<1>2. a \in Seq(X \ Syntax) /\ Len(a) = Len(F) /\ \A k \in 1..Len(F) : a[k] = Data(F[k])
  BY DataOfType
<1>3. b \in Seq(X \ Syntax) /\ Len(b) = Len(G) /\ \A k \in 1..Len(G) : b[k] = Data(G[k])
  BY DataOfType
<1>4. c \in Seq(X \ Syntax) /\ Len(c) = Len(H) /\ \A k \in 1..Len(H) : c[k] = Data(H[k])
  BY <1>1, DataOfType
<1> HIDE DEF W, H, a, b, c
<1>5. /\ a \o b \in Seq(X \ Syntax) /\ Len(a \o b) = Len(F) + Len(G)
      /\ \A i \in 1..Len(F) + Len(G) : (a \o b)[i] = IF i <= Len(F) THEN a[i] ELSE b[i - Len(F)]
  <2> DEFINE Z == X \ Syntax
  <2>1. a \in Seq(Z) /\ b \in Seq(Z)
    BY <1>2, <1>3
  <2> HIDE DEF Z
  <2>2. /\ a \o b \in Seq(Z) /\ Len(a \o b) = Len(a) + Len(b)
        /\ \A i \in 1..Len(a) + Len(b) : (a \o b)[i] = IF i <= Len(a) THEN a[i] ELSE b[i - Len(a)]
    BY <2>1, ConcatProperties
  <2>3. Len(a) = Len(F) /\ Len(b) = Len(G)
    BY <1>2, <1>3
  <2> QED
    BY <2>2, <2>3 DEF Z
<1>6. ASSUME NEW i \in 1..Len(c) PROVE c[i] = (a \o b)[i]
  <2>1. i \in 1..Len(F) + Len(G) /\ c[i] = Data(H[i])
    BY <1>1, <1>4
  <2>2. CASE i <= Len(F)
    BY <1>1, <1>2, <1>5, <2>1, <2>2
  <2>3. CASE ~(i <= Len(F))
    <3>1. i - Len(F) \in 1..Len(G)
      BY <1>1, <2>1, <2>3
    <3> QED
      BY <1>1, <1>3, <1>5, <2>1, <2>3, <3>1
  <2> QED
    BY <2>2, <2>3
<1>7. c = a \o b
  BY <1>1, <1>4, <1>5, <1>6, SeqEqual
<1> QED
  BY <1>7 DEF a, b, c, H

\* The events of a sequence are the data of its complete frames.
LEMMA EventsAre ==
  ASSUME NEW X, NEW s \in Seq(X)
  PROVE  /\ Complete(s) \in Seq(Seq(X)) /\ Incomplete(s) \in Seq(X)
         /\ Events(s) = DataOf(WithData(Complete(s)))
         /\ WithData(Complete(s)) \in Seq(WithDataIn(Seq(X)))
         /\ Events(s) \in Seq(X \ Syntax)
<1> DEFINE Y == Seq(X)
<1>1. Split(s) \in Seq(Y) /\ Split(s) # <<>>
  BY SplitType
<1>2. Complete(s) \in Seq(Y) /\ Incomplete(s) \in Y
  <2> HIDE DEF Y
  <2> QED
    BY <1>1, FrontLast DEF Complete, Incomplete
<1>3. WithData(Complete(s)) \in Seq(WithDataIn(Y))
  <2> HIDE DEF Y
  <2> QED
    BY <1>2, WithDataIs
<1>4. Events(s) = DataOf(WithData(Complete(s)))
  BY DEF Events, DataOf, Data
<1>5. DataOf(WithData(Complete(s))) \in Seq(X \ Syntax)
  BY <1>3, DataOfType
<1> QED
  BY <1>2, <1>3, <1>4, <1>5

\* However the bytes are cut in two, the events are those of the first part and
\* those of what it leaves, followed by the second.
THEOREM EventsLaw ==
  ASSUME NEW X, NEW x \in Seq(X), NEW y \in Seq(X)
  PROVE  /\ Events(x \o y) = Events(x) \o Events(Incomplete(x) \o y)
         /\ Incomplete(x \o y) = Incomplete(Incomplete(x) \o y)
<1> DEFINE z == Incomplete(x) \o y
           W == WithDataIn(Seq(X))
           F == Complete(x)
           G == Complete(z)
<1>1. /\ x \o y \in Seq(X) /\ z \in Seq(X)
      /\ F \in Seq(Seq(X)) /\ G \in Seq(Seq(X))
  <2>1. x \o y \in Seq(X) /\ z \in Seq(X)
    BY EventsAre, ConcatProperties
  <2> QED
    BY <2>1, EventsAre
<1>2. Complete(x \o y) = F \o G /\ Incomplete(x \o y) = Incomplete(z)
  BY SplitLaw
<1>3. /\ Events(x) = DataOf(WithData(F)) /\ Events(z) = DataOf(WithData(G))
      /\ Events(x \o y) = DataOf(WithData(F \o G))
      /\ WithData(F) \in Seq(W) /\ WithData(G) \in Seq(W)
  BY <1>1, <1>2, EventsAre
<1>4. WithData(F \o G) = WithData(F) \o WithData(G)
  <2> DEFINE Y == Seq(X)
  <2>1. F \in Seq(Y) /\ G \in Seq(Y)
    BY <1>1
  <2> HIDE DEF Y, F, G
  <2>2. F \o G \in Seq(Y)
    BY <2>1, ConcatProperties
  <2>3. Only(F \o G, WithDataIn(Y)) = Only(F, WithDataIn(Y)) \o Only(G, WithDataIn(Y))
    BY <2>1, OnlyConcat
  <2> QED
    BY <2>1, <2>2, <2>3, WithDataIs
<1>5. DataOf(WithData(F) \o WithData(G)) = DataOf(WithData(F)) \o DataOf(WithData(G))
  BY <1>3, DataOfConcat
<1> QED
  BY <1>2, <1>3, <1>4, <1>5

\* Without a frame's end there is no event, and everything is kept.
LEMMA NoFrame ==
  ASSUME NEW X, NEW s \in Seq(X), Ends(s) = {}
  PROVE  Events(s) = <<>> /\ Incomplete(s) = s
<1>1. Split(s) = <<s>>
  BY SplitStep
<1>2. Complete(s) = <<>> /\ Incomplete(s) = s
  BY <1>1 DEF Complete, Incomplete, Front, Last
<1>3. WithData(<<>>) = <<>>
  BY OnlyEmpty DEF WithData
<1> QED
  BY <1>2, <1>3 DEF Events

\* The parts of a pair.
LEMMA FrontOfPair ==
  ASSUME NEW h, NEW k PROVE Front(<<h>> \o <<k>>) = <<h>> /\ Last(<<h>> \o <<k>>) = k
<1> DEFINE X == {h, k}
<1>1. <<h>> \in Seq(X) /\ <<k>> \in Seq(X) /\ <<k>> # <<>>
  OBVIOUS
<1> HIDE DEF X
<1>2. Front(<<h>> \o <<k>>) = <<h>> \o Front(<<k>>) /\ Last(<<h>> \o <<k>>) = Last(<<k>>)
  BY <1>1, FrontConcat
<1>3. Front(<<k>>) = <<>> /\ Last(<<k>>) = k
  BY DEF Front, Last
<1> QED
  BY <1>1, <1>2, <1>3, ConcatEmptySeq

\* A sequence that is one frame and nothing else.
LEMMA OneFrame ==
  ASSUME NEW X, NEW s \in Seq(X), NEW f \in 1..Len(s),
         f + FrameEnd(s, f) = Len(s) + 1, FrameEnd(s, f) > 0,
         \A j \in 1..f - 1 : FrameEnd(s, j) = 0
  PROVE  Complete(s) = <<SubSeq(s, 1, f - 1)>> /\ Incomplete(s) = <<>>
<1>1. Len(s) \in Nat
  BY LenProperties
<1>2. First(s, 1) = f /\ Ends(s) # {}
  <2>1. f \in Ends(s) \cap 1..Len(s)
    BY DEF Ends
  <2>2. \A i \in Ends(s) \cap 1..Len(s) : f <= i
    <3> SUFFICES ASSUME NEW i \in 1..Len(s), FrameEnd(s, i) > 0 PROVE f <= i
      BY DEF Ends
    <3>1. i \notin 1..f - 1
      OBVIOUS
    <3> QED
      BY <1>1, <3>1
  <2>3. Ends(s) \cap 1..Len(s) \in SUBSET Nat
    BY <1>1
  <2>4. Min(Ends(s) \cap 1..Len(s)) = f
    BY <2>1, <2>2, <2>3, MinIs
  <2> QED
    BY <2>1, <2>4 DEF First
<1>3. After(s, 1) = Len(s) + 1
  BY <1>2 DEF After
<1>4. Rem(s) = <<>>
  <2>1. Len(s) + 1 \in Int /\ Len(s) \in Int /\ Len(s) < Len(s) + 1
    BY <1>1
  <2> QED
    BY <1>3, <2>1, SubSeqEmpty DEF Rem
<1>5. Split(<<>>) = <<<<>>>>
  <2>1. <<>> \in Seq(X) /\ Len(<<>>) = 0
    BY EmptySeq
  <2>2. Ends(<<>>) = {}
    BY <2>1 DEF Ends
  <2> QED
    BY <2>1, <2>2, SplitStep
<1>6. Split(s) = <<Hd(s)>> \o <<<<>>>>
  BY <1>2, <1>4, <1>5, SplitStep
<1>7. Front(<<Hd(s)>> \o <<<<>>>>) = <<Hd(s)>> /\ Last(<<Hd(s)>> \o <<<<>>>>) = <<>>
  BY FrontOfPair
<1> QED
  BY <1>2, <1>6, <1>7 DEF Complete, Incomplete, Hd

\* What the server writes for an event is read as the event, ...
LEMMA FrameIsEvent ==
  ASSUME NEW e, e \notin Syntax
  PROVE  Events(Frame(e)) = <<e>> /\ Incomplete(Frame(e)) = <<>>
<1> DEFINE s == Frame(e)
           X == Syntax \cup {e}
<1>1. /\ s \in Seq(X) /\ Len(s) = 8
      /\ s[1] = EventLine /\ s[2] = CR /\ s[3] = LF /\ s[4] = e
      /\ s[5] = CR /\ s[6] = LF /\ s[7] = CR /\ s[8] = LF
  BY DEF Frame, Syntax
<1>2. e # CR /\ e # LF /\ EventLine \notin {CR, LF} /\ CR # LF
  BY SyntaxAssumption DEF Syntax
<1> HIDE DEF s, X
<1>3. /\ LineEnd(s, 1) = 0 /\ LineEnd(s, 2) = 2 /\ LineEnd(s, 3) = 1 /\ LineEnd(s, 4) = 0
      /\ LineEnd(s, 5) = 2 /\ LineEnd(s, 7) = 2
  BY <1>1, <1>2 DEF LineEnd
<1>4. FrameEnd(s, 1) = 0 /\ FrameEnd(s, 2) = 0 /\ FrameEnd(s, 3) = 0 /\ FrameEnd(s, 4) = 0 /\ FrameEnd(s, 5) = 4
  BY <1>3 DEF FrameEnd
<1>5. Complete(s) = <<SubSeq(s, 1, 5 - 1)>> /\ Incomplete(s) = <<>>
  <2>1. 5 \in 1..Len(s) /\ 5 + FrameEnd(s, 5) = Len(s) + 1 /\ FrameEnd(s, 5) > 0
    BY <1>1, <1>4
  <2>2. \A j \in 1..5 - 1 : FrameEnd(s, j) = 0
    BY <1>4
  <2> QED
    BY <1>1, <2>1, <2>2, OneFrame
<1> DEFINE f == SubSeq(s, 1, 4)
<1>6. f \in Seq(X) /\ Len(f) = 4 /\ f[1] = EventLine /\ f[2] = CR /\ f[3] = LF /\ f[4] = e
  <2>1. \A i \in 1..4 : s[i] \in X
    BY <1>1, ElementOfSeq
  <2>2. /\ f \in Seq(X) /\ Len(f) = (IF 1 <= 4 THEN 4 - 1 + 1 ELSE 0)
        /\ \A i \in 1 .. 4 - 1 + 1 : f[i] = s[1 + i - 1]
    BY <2>1, SubSeqProperties
  <2> HIDE DEF f
  <2> QED
    BY <1>1, <2>2
<1>7. Complete(s) = <<f>>
  BY <1>5
<1> HIDE DEF f
<1>8. DataAt(f) = {4}
  <2>1. DOMAIN f = 1..4
    BY <1>6, LenProperties
  <2> QED
    BY <1>6, <2>1 DEF DataAt, Syntax
<1>9. Data(f) = e
  <2>1. Min({4}) = 4
    BY MinIs
  <2> QED
    BY <1>6, <1>8, <2>1 DEF Data
<1>10. WithData(<<f>>) = <<f>>
  <2>1. <<f>> \in Seq({f}) /\ f \in WithDataIn({f}) /\ Len(<<f>>) = 1 /\ <<f>>[1] = f
    BY <1>8 DEF WithDataIn
  <2>2. Only(<<f>>, WithDataIn({f})) = <<f>>
    <3> HIDE DEF f
    <3>1. \A i \in 1..Len(<<f>>) : <<f>>[i] \in WithDataIn({f})
      BY <2>1
    <3> QED
      BY <2>1, <3>1, OnlyAll
  <2> QED
    BY <2>1, <2>2, WithDataIs
<1>11. DataOf(<<f>>) = <<e>>
  BY <1>9 DEF DataOf
<1>12. Events(s) = DataOf(WithData(Complete(s)))
  BY <1>1, EventsAre
<1> QED
  BY <1>5, <1>7, <1>10, <1>11, <1>12 DEF s

\* ... and a ping as nothing.
LEMMA PingIsNothing ==
  Events(Ping) = <<>> /\ Incomplete(Ping) = <<>>
<1> DEFINE s == Ping
<1>1. /\ s \in Seq(Syntax) /\ Len(s) = 5
      /\ s[1] = PingLine /\ s[2] = CR /\ s[3] = LF /\ s[4] = CR /\ s[5] = LF
  BY DEF Ping, Syntax
<1>2. PingLine \notin {CR, LF} /\ CR # LF
  BY SyntaxAssumption
<1> HIDE DEF s
<1>3. LineEnd(s, 1) = 0 /\ LineEnd(s, 2) = 2 /\ LineEnd(s, 4) = 2
  BY <1>1, <1>2 DEF LineEnd
<1>4. FrameEnd(s, 1) = 0 /\ FrameEnd(s, 2) = 4
  BY <1>3 DEF FrameEnd
<1>5. Complete(s) = <<SubSeq(s, 1, 2 - 1)>> /\ Incomplete(s) = <<>>
  <2>1. 2 \in 1..Len(s) /\ 2 + FrameEnd(s, 2) = Len(s) + 1 /\ FrameEnd(s, 2) > 0
    BY <1>1, <1>4
  <2>2. \A j \in 1..2 - 1 : FrameEnd(s, j) = 0
    BY <1>4
  <2> QED
    BY <1>1, <2>1, <2>2, OneFrame
<1> DEFINE W == WithDataIn(Seq(Syntax))
<1>6. WithData(Complete(s)) \in Seq(W) /\ Events(s) \in Seq(Syntax \ Syntax)
  BY <1>1, EventsAre
<1>7. Syntax \ Syntax = {}
  OBVIOUS
<1>8. Events(s) = <<>>
  BY <1>6, <1>7
<1> QED
  BY <1>5, <1>8 DEF s

-----------------------------------------------------------------------------
(* The page and the turns: types, and which page reads which turn.         *)

\* What page p and turn t have to do with each other, and what they are made of.
EventsOf(t) == [turn : {t}, kind : Sendable, n : Nat]
BytesOf(t) == Syntax \cup EventsOf(t)
Known == {t \in Turns : sender[t] # Nobody}
KnownEvents == [turn : Known, kind : Kinds, n : Nat]

\* Typing.  Pages and the history have events of turns that were sent; a stream
\* has those of its turn, and the reader's buffer is of the stream it reads.
TypeInv ==
  /\ shown \in [Pages -> Seq(KnownEvents)]
  /\ busy \in [Pages -> Turns \cup {0}]
  /\ fetch \in [Pages -> [at : {"sent", "read", "settled"}, rows : Seq(KnownEvents)]]
  /\ DOMAIN buffer = Pages
  /\ \A p \in Pages : buffer[p] \in IF busy[p] = 0 THEN {<<>>} ELSE Seq(BytesOf(busy[p]))
  /\ sender \in [Turns -> Pages \cup {Nobody}]
  /\ result \in [Turns -> {"none", "read", "refused", "lost", "reloaded"}]
  /\ server \in [Turns -> {"none", "called", "streaming", "refused", "closed",
                          "unsaved", "cut"}]
  /\ DOMAIN sends = Turns /\ DOMAIN sent = Turns /\ DOMAIN wire = Turns
  /\ \A t \in Turns : /\ sends[t] \in Seq(EventsOf(t)) /\ sent[t] \in Seq(EventsOf(t))
                      /\ wire[t] \in Seq(BytesOf(t))
  /\ history \in Seq(KnownEvents)
  /\ \A x \in posts : x.turn \in Turns

\* A page reads the one turn it sent that has not ended for it, shows what the
\* user sent from it, and reads to the end only what the server has ended.
PageInv ==
  /\ \A p \in Pages : busy[p] # 0 => sender[busy[p]] = p /\ result[busy[p]] = "none"
  /\ \A p \in Pages, t \in Turns : sender[t] = p /\ result[t] = "none" => busy[p] = t
  /\ \A p \in Pages : \A t \in Own(p) : Contains(shown[p], Asked(t))
  /\ \A t \in Turns :
       /\ server[t] = "none" <=> sender[t] = Nobody
       /\ sender[t] = Nobody => sent[t] = <<>> /\ wire[t] = <<>> /\ result[t] = "none"
       /\ result[t] = "read" => server[t] \in {"closed", "unsaved"}

\* NothingLostInStream, and what is left to read ends with a frame's end: only
\* with that does the next frame add its own event and no other.
StreamInv ==
  \A p \in Pages : LET t == busy[p] IN t # 0 =>
    /\ Only(shown[p], EventsOf(t)) \o Visible(Events(buffer[p] \o wire[t])) = Visible(sent[t])
    /\ Incomplete(buffer[p] \o wire[t]) = <<>>

\* The history has of a turn what the server's state says, and a turn that is
\* closed has sent all of it.
Reply(t) == IF server[t] = "closed" THEN TextsOf(sent[t]) ELSE <<>>
StoredInv ==
  \A t \in Turns :
   /\ Texts({t}, history) = IF server[t] \in {"none", "called", "refused"} THEN <<>>
                            ELSE <<Asked(t)>> \o Reply(t)
   /\ server[t] = "closed" => sends[t] = <<>>

\* A page shows the turns it read to their end as they are stored; the turn it
\* reads comes after all of them, on the page and in the history, so that it stays
\* so when this turn is read to its end too.
OrderInv ==
  \A p \in Pages :
    LET whole == {t \in Own(p) : Whole(t)}
        t == busy[p]
    IN  /\ Texts(whole, shown[p]) = Texts(whole, history)
        /\ t # 0 =>
             /\ Texts(whole \cup {t}, shown[p]) = Texts(whole, shown[p]) \o Texts({t}, shown[p])
             /\ Texts(whole \cup {t}, history) = Texts(whole, history) \o Texts({t}, history)
             /\ Texts({t}, shown[p]) = <<Asked(t)>> \o TextsOf(Only(shown[p], EventsOf(t)))

\* A turn's events are no syntax, and of the kinds they are.
LEMMA EventFacts ==
  ASSUME NEW t \in Turns
  PROVE  /\ EventsOf(t) \subseteq OfKind(Kinds) /\ EventsOf(t) \cap Syntax = {}
         /\ BytesOf(t) \ Syntax = EventsOf(t)
         /\ \A e \in EventsOf(t) : e.turn = t /\ e.kind \in Sendable
<1>1. EventsOf(t) \subseteq OfKind(Kinds)
  BY DEF EventsOf, OfKind, Sendable
<1>2. Syntax \cap OfKind(Kinds) = {}
  BY ChatAssumption
<1> QED
  BY <1>1, <1>2 DEF BytesOf, EventsOf

\* Sequences over a set are sequences over a larger one.
LEMMA SeqSubset ==
  ASSUME NEW S, NEW T, S \subseteq T PROVE Seq(S) \subseteq Seq(T)
  BY SeqMonotonic

\* What the reader makes of a turn's bytes are that turn's events.
LEMMA EventsType ==
  ASSUME NEW t \in Turns, NEW b \in Seq(BytesOf(t))
  PROVE  Events(b) \in Seq(EventsOf(t)) /\ Incomplete(b) \in Seq(BytesOf(t))
  BY EventsAre, EventFacts

\* What is shown are events, ...
LEMMA VisibleType ==
  ASSUME NEW X, NEW v \in Seq(X) PROVE Visible(v) \in Seq(X)
<1>1. Visible(v) \in Seq(X \cap OfKind(Kinds \ {"done", "ping"}))
  BY OnlyType DEF Visible
<1> QED
  BY <1>1, SeqMonotonic

\* ... and so are the texts.
LEMMA TextsOfType ==
  ASSUME NEW X, NEW v \in Seq(X) PROVE TextsOf(v) \in Seq(X)
<1>1. TextsOf(v) \in Seq(X \cap OfKind({"text"}))
  BY OnlyType DEF TextsOf
<1> QED
  BY <1>1, SeqMonotonic

\* What is shown of two streams, one after the other.
LEMMA VisibleConcat ==
  ASSUME NEW X, NEW a \in Seq(X), NEW b \in Seq(X) PROVE Visible(a \o b) = Visible(a) \o Visible(b)
  BY OnlyConcat DEF Visible

\* What an event's bytes are to the reader.
LEMMA BytesAre ==
  ASSUME NEW t \in Turns, NEW e \in EventsOf(t)
  PROVE  /\ Bytes(e) \in Seq(BytesOf(t)) /\ Incomplete(Bytes(e)) = <<>>
         /\ Visible(Events(Bytes(e))) = Visible(<<e>>)
<1>1. e \notin Syntax /\ e \in BytesOf(t)
  BY EventFacts DEF BytesOf
<1>2. CASE e.kind = "ping"
  <2>1. Bytes(e) = Ping
    BY <1>2 DEF Bytes
  <2>2. Ping \in Seq(BytesOf(t))
    BY DEF Ping, Syntax, BytesOf
  <2>3. Visible(<<e>>) = <<>>
    <3>1. <<e>> \in Seq({e}) /\ Len(<<e>>) = 1 /\ <<e>>[1] = e
      OBVIOUS
    <3>2. e \notin OfKind(Kinds \ {"done", "ping"})
      BY <1>2 DEF OfKind
    <3>3. \A i \in 1..Len(<<e>>) : <<e>>[i] \notin OfKind(Kinds \ {"done", "ping"})
      BY <3>1, <3>2
    <3> QED
      BY <3>1, <3>3, OnlyNone DEF Visible
  <2>4. Visible(<<>>) = <<>>
    BY OnlyEmpty DEF Visible
  <2> QED
    BY <2>1, <2>2, <2>3, <2>4, PingIsNothing
<1>3. CASE e.kind # "ping"
  <2>1. Bytes(e) = Frame(e)
    BY <1>3 DEF Bytes
  <2>2. Frame(e) \in Seq(BytesOf(t))
    BY <1>1 DEF Frame, Syntax, BytesOf
  <2> QED
    BY <1>1, <2>1, <2>2, FrameIsEvent
<1> QED
  BY <1>2, <1>3

Base == TypeInv /\ PageInv

\* The type invariant, one lemma for each group of actions.
LEMMA OpenTypes ==
  ASSUME Base, NEW t \in Turns, Open(t) PROVE TypeInv'
<1>1. sender[t] # Nobody
  BY DEF Base, PageInv, Open
<1>2. Asked(t) \in KnownEvents
  BY <1>1 DEF KnownEvents, Known, Asked, Event, Kinds
<1>3. UNCHANGED <<shown, busy, fetch, buffer, sender, result, sent, wire, posts>> /\ KnownEvents' = KnownEvents
  BY DEF Open, page, KnownEvents, Known
<1>4. history' \in Seq(KnownEvents)
  <2>1. history' = history \/ history' = Append(history, Asked(t))
    BY DEF Open
  <2>2. history \in Seq(KnownEvents)
    BY DEF Base, TypeInv
  <2> QED
    BY <1>2, <2>1, <2>2, AppendProperties
<1>5. DOMAIN sends' = Turns /\ \A u \in Turns : sends'[u] \in Seq(EventsOf(u))
  <2>1. CASE UNCHANGED sends
    BY <2>1 DEF Base, TypeInv
  <2>2. CASE ~UNCHANGED sends
    <3>1. PICK kinds \in Streams[t] :
            sends' = [sends EXCEPT ![t] = [n \in 1..Len(kinds) |-> Event(t, kinds[n], n)]]
      BY <2>2 DEF Open
    <3>2. kinds \in Seq(Sendable)
      BY ChatAssumption
    <3>3. [n \in 1..Len(kinds) |-> Event(t, kinds[n], n)] \in Seq(EventsOf(t))
      <4>1. Len(kinds) \in Nat /\ \A n \in 1..Len(kinds) : kinds[n] \in Sendable
        BY <3>2, LenProperties, ElementOfSeq
      <4>2. \A n \in 1..Len(kinds) : Event(t, kinds[n], n) \in EventsOf(t)
        BY <4>1 DEF Event, EventsOf
      <4>3. [n \in 1..Len(kinds) |-> Event(t, kinds[n], n)] \in [1..Len(kinds) -> EventsOf(t)]
        BY <4>2
      <4> QED
        BY <4>1, <4>3, SeqDef
    <3> QED
      BY <3>1, <3>3 DEF Base, TypeInv
  <2> QED
    BY <2>1, <2>2
<1>6. server' \in [Turns -> {"none", "called", "streaming", "refused", "closed", "unsaved", "cut"}]
  BY DEF Base, TypeInv, Open
<1> QED
  BY <1>3, <1>4, <1>5, <1>6 DEF Base, TypeInv

\* The server sends an event: TypeInv.
LEMMA EmitTypes ==
  ASSUME Base, NEW t \in Turns, Emit(t) PROVE TypeInv'
<1>1. UNCHANGED <<shown, busy, fetch, buffer, sender, result, server, history, posts>> /\ KnownEvents' = KnownEvents
  BY DEF Emit, page, KnownEvents, Known
<1> DEFINE e == Head(sends[t])
<1>2. /\ sends[t] # <<>> /\ sends' = [sends EXCEPT ![t] = Tail(@)]
      /\ sent' = [sent EXCEPT ![t] = Append(@, e)]
      /\ wire' = [wire EXCEPT ![t] = @ \o Bytes(e)] \/ wire' = wire
  BY DEF Emit
<1>3. e \in EventsOf(t) /\ Tail(sends[t]) \in Seq(EventsOf(t))
  BY <1>2, HeadTailProperties DEF Base, TypeInv
<1> HIDE DEF e
<1>4. Append(sent[t], e) \in Seq(EventsOf(t))
  BY <1>3, AppendProperties DEF Base, TypeInv
<1>5. wire[t] \o Bytes(e) \in Seq(BytesOf(t))
  BY <1>3, BytesAre, ConcatProperties DEF Base, TypeInv
<1>6. DOMAIN sends' = Turns /\ \A u \in Turns : sends'[u] \in Seq(EventsOf(u))
  BY <1>2, <1>3 DEF Base, TypeInv
<1>7. DOMAIN sent' = Turns /\ \A u \in Turns : sent'[u] \in Seq(EventsOf(u))
  BY <1>2, <1>4 DEF Base, TypeInv
<1>8. DOMAIN wire' = Turns /\ \A u \in Turns : wire'[u] \in Seq(BytesOf(u))
  BY <1>2, <1>5 DEF Base, TypeInv
<1> QED
  BY <1>1, <1>6, <1>7, <1>8 DEF Base, TypeInv

\* The response ends, or is cut: TypeInv.
LEMMA CloseTypes ==
  ASSUME Base, NEW t \in Turns, Close(t) \/ Disconnect(t) PROVE TypeInv'
<1>1. UNCHANGED <<shown, busy, fetch, buffer, sender, result, sends, sent, wire, posts>> /\ KnownEvents' = KnownEvents
  BY DEF Close, Disconnect, page, KnownEvents, Known
<1>2. server' \in [Turns -> {"none", "called", "streaming", "refused", "closed", "unsaved", "cut"}]
  BY DEF Base, TypeInv, Close, Disconnect
<1>3. history' = history \/ history' = history \o TextsOf(sent[t])
  BY DEF Close, Disconnect
<1>4. server[t] = "streaming"
  BY DEF Close, Disconnect
<1>5. sender[t] # Nobody
  BY <1>4 DEF Base, PageInv
<1>6. EventsOf(t) \subseteq KnownEvents
  BY <1>5 DEF EventsOf, KnownEvents, Known, Sendable
<1>7. TextsOf(sent[t]) \in Seq(KnownEvents)
  BY <1>6, TextsOfType, SeqMonotonic DEF Base, TypeInv
<1>8. history' \in Seq(KnownEvents)
  <2>1. history \in Seq(KnownEvents)
    BY DEF Base, TypeInv
  <2> QED
    BY <1>3, <1>7, <2>1, ConcatProperties
<1> QED
  BY <1>1, <1>2, <1>8 DEF Base, TypeInv

\* A message is sent: TypeInv.
LEMMA SendTypes ==
  ASSUME Base, NEW p \in Pages, Send(p) PROVE TypeInv'
<1>1. PICK t \in Turns :
        /\ busy[p] = 0 /\ sender[t] = Nobody
        /\ shown' = [shown EXCEPT ![p] = Append(@, Asked(t))]
        /\ busy' = [busy EXCEPT ![p] = t]
        /\ sender' = [sender EXCEPT ![t] = p]
        /\ server' = [server EXCEPT ![t] = "called"]
  BY DEF Send
<1>2. UNCHANGED <<fetch, buffer, result, sends, sent, wire, history, posts>>
  BY DEF Send
<1>3. sender' \in [Turns -> Pages \cup {Nobody}] /\ Known \subseteq Known' /\ t \in Known'
  BY <1>1, ChatAssumption DEF Base, TypeInv, Known
<1>4. KnownEvents \subseteq KnownEvents' /\ Asked(t) \in KnownEvents'
  BY <1>3 DEF KnownEvents, Asked, Event, Kinds
<1>5. Seq(KnownEvents) \subseteq Seq(KnownEvents')
  BY <1>4, SeqSubset
<1>6. shown' \in [Pages -> Seq(KnownEvents')]
  <2>1. shown \in [Pages -> Seq(KnownEvents')]
    BY <1>5 DEF Base, TypeInv
  <2>2. Append(shown[p], Asked(t)) \in Seq(KnownEvents')
    BY <1>4, <2>1, AppendProperties
  <2> QED
    BY <1>1, <2>1, <2>2
<1>7. fetch \in [Pages -> [at : {"sent", "read", "settled"}, rows : Seq(KnownEvents')]]
  BY <1>5 DEF Base, TypeInv
<1>8. history \in Seq(KnownEvents')
  BY <1>5 DEF Base, TypeInv
<1>9. /\ busy' \in [Pages -> Turns \cup {0}]
      /\ server' \in [Turns -> {"none", "called", "streaming", "refused", "closed", "unsaved", "cut"}]
  <2>1. /\ busy \in [Pages -> Turns \cup {0}]
        /\ server \in [Turns -> {"none", "called", "streaming", "refused", "closed", "unsaved", "cut"}]
    BY DEF Base, TypeInv
  <2> QED
    BY <1>1, <2>1
<1>10. \A q \in Pages : buffer[q] \in IF busy'[q] = 0 THEN {<<>>} ELSE Seq(BytesOf(busy'[q]))
  <2>1. /\ busy \in [Pages -> Turns \cup {0}] /\ busy[p] = 0 /\ t \in Turns
        /\ \A q \in Pages : buffer[q] \in IF busy[q] = 0 THEN {<<>>} ELSE Seq(BytesOf(busy[q]))
    BY <1>1 DEF Base, TypeInv
  <2>2. ASSUME NEW q \in Pages
        PROVE  buffer[q] \in IF busy'[q] = 0 THEN {<<>>} ELSE Seq(BytesOf(busy'[q]))
    <3>1. CASE q = p
      <4>1. buffer[q] = <<>>
        BY <2>1, <3>1
      <4> QED
        BY <4>1, EmptySeq
    <3>2. CASE q # p
      <4>1. busy'[q] = busy[q]
        BY <1>1, <2>1, <3>2
      <4> QED
        BY <2>1, <4>1
    <3> QED
      BY <3>1, <3>2
  <2> QED
    BY <2>2
<1> QED
  BY <1>2, <1>3, <1>6, <1>7, <1>8, <1>9, <1>10 DEF Base, TypeInv

\* What a chunk is: the bytes of the wire up to some length, which the reader has
\* after its buffer, and those that stay on the wire.
LEMMA ReadFacts ==
  ASSUME Base, NEW p \in Pages, Read(p)
  PROVE  LET t == busy[p] IN
         /\ t \in Turns
         /\ \E bytes, rest \in Seq(BytesOf(t)) :
              /\ buffer[p] \o wire[t] = bytes \o rest
              /\ wire' = [wire EXCEPT ![t] = rest]
              /\ shown' = [shown EXCEPT ![p] = @ \o Visible(Events(bytes))]
              /\ buffer' = [buffer EXCEPT ![p] = Incomplete(bytes)]
         /\ UNCHANGED <<busy, fetch, sender, result, server, sends, sent, history, posts>>
<1> DEFINE t == busy[p]
<1>1. t \in Turns /\ t # 0
  BY DEF Base, TypeInv, Read
<1>2. /\ buffer[p] \in Seq(BytesOf(t)) /\ wire[t] \in Seq(BytesOf(t))
  BY <1>1 DEF Base, TypeInv
<1>3. PICK n \in Chunks(wire[t]) :
        LET bytes == buffer[p] \o SubSeq(wire[t], 1, n) IN
        /\ wire' = [wire EXCEPT ![t] = SubSeq(@, n + 1, Len(@))]
        /\ shown' = [shown EXCEPT ![p] = @ \o Visible(Events(bytes))]
        /\ buffer' = [buffer EXCEPT ![p] = Incomplete(bytes)]
  BY DEF Read
<1>4. n \in 1..Len(wire[t])
  BY DEF Chunks
<1> DEFINE a == SubSeq(wire[t], 1, n)
           r == SubSeq(wire[t], n + 1, Len(wire[t]))
           bytes == buffer[p] \o a
<1>5. UNCHANGED <<busy, fetch, sender, result, server, sends, sent, history, posts>>
  BY DEF Read
<1>6. a \in Seq(BytesOf(t)) /\ r \in Seq(BytesOf(t)) /\ a \o r = wire[t]
  <2> DEFINE w == wire[t]
             B == BytesOf(t)
  <2>1. w \in Seq(B) /\ Len(w) \in Nat /\ n \in 1..Len(w)
    BY <1>2, <1>4, LenProperties
  <2> HIDE DEF w, B
  <2>2. \A i \in 1..Len(w) : w[i] \in B
    BY <2>1, ElementOfSeq
  <2>3. SubSeq(w, 1, n) \in Seq(B)
    BY <2>1, <2>2, SubSeqProperties
  <2>4. SubSeq(w, n + 1, Len(w)) \in Seq(B)
    BY <2>1, <2>2, SubSeqProperties
  <2>5. SubSeq(w, 1, n) \o SubSeq(w, n + 1, Len(w)) = SubSeq(w, 1, Len(w))
    <3>1. 1 \in 1..Len(w) + 1 /\ n \in 1 - 1..Len(w) /\ Len(w) \in n..Len(w)
      BY <2>1
    <3> QED
      BY <2>1, <3>1, ConcatAdjacentSubSeq
  <2>6. SubSeq(w, 1, Len(w)) = w
    BY <2>1, SubSeqFull
  <2> QED
    BY <2>3, <2>4, <2>5, <2>6 DEF w, B
<1>7. bytes \in Seq(BytesOf(t)) /\ buffer[p] \o (a \o r) = bytes \o r
  <2> DEFINE b == buffer[p]
             B == BytesOf(t)
  <2>1. b \in Seq(B) /\ a \in Seq(B) /\ r \in Seq(B)
    BY <1>2, <1>6
  <2> HIDE DEF a, r, b, B
  <2>2. b \o a \in Seq(B)
    BY <2>1, ConcatProperties
  <2>3. (b \o a) \o r = b \o (a \o r)
    <3>1. Assoc(B)
      BY SeqAssoc
    <3> QED
      BY <2>1, <3>1, Zenon DEF Assoc
  <2> QED
    BY <2>2, <2>3 DEF b, B
<1>8. /\ wire' = [wire EXCEPT ![t] = r]
      /\ shown' = [shown EXCEPT ![p] = @ \o Visible(Events(bytes))]
      /\ buffer' = [buffer EXCEPT ![p] = Incomplete(bytes)]
  BY <1>3
<1>9. buffer[p] \o wire[t] = bytes \o r
  BY <1>6, <1>7
<1> HIDE DEF a, r, bytes
<1> QED
  BY <1>1, <1>5, <1>6, <1>7, <1>8, <1>9

\* A turn that was sent has known events.
LEMMA KnownEventsOf ==
  ASSUME Base, NEW t \in Turns, sender[t] # Nobody
  PROVE  EventsOf(t) \subseteq KnownEvents /\ Asked(t) \in KnownEvents /\ Note(t) \in KnownEvents
  BY DEF EventsOf, KnownEvents, Known, Sendable, Asked, Note, Event, Kinds

\* A chunk is read: TypeInv.
LEMMA ReadTypes ==
  ASSUME Base, NEW p \in Pages, Read(p) PROVE TypeInv'
<1> DEFINE t == busy[p]
<1>1. t \in Turns /\ UNCHANGED <<busy, fetch, sender, result, server, sends, sent, history, posts>>
  BY ReadFacts
<1>2. PICK bytes, rest \in Seq(BytesOf(t)) :
        /\ wire' = [wire EXCEPT ![t] = rest]
        /\ shown' = [shown EXCEPT ![p] = @ \o Visible(Events(bytes))]
        /\ buffer' = [buffer EXCEPT ![p] = Incomplete(bytes)]
  BY ReadFacts
<1>3. Visible(Events(bytes)) \in Seq(EventsOf(t)) /\ Incomplete(bytes) \in Seq(BytesOf(t))
  BY <1>1, EventsType, VisibleType
<1>4. sender[t] # Nobody
  BY <1>1, ChatAssumption DEF Base, PageInv, Turns
<1>5. Visible(Events(bytes)) \in Seq(KnownEvents)
  BY <1>1, <1>3, <1>4, KnownEventsOf, SeqMonotonic
<1>6. shown' \in [Pages -> Seq(KnownEvents)]
  <2>1. shown \in [Pages -> Seq(KnownEvents)]
    BY DEF Base, TypeInv
  <2>2. shown[p] \o Visible(Events(bytes)) \in Seq(KnownEvents)
    BY <1>5, <2>1, ConcatProperties
  <2> QED
    BY <1>2, <2>1, <2>2
<1>7. KnownEvents' = KnownEvents
  BY <1>1 DEF KnownEvents, Known
<1>8. DOMAIN wire' = Turns /\ \A u \in Turns : wire'[u] \in Seq(BytesOf(u))
  BY <1>2 DEF Base, TypeInv
<1>9. /\ DOMAIN buffer' = Pages
      /\ \A q \in Pages : buffer'[q] \in IF busy[q] = 0 THEN {<<>>} ELSE Seq(BytesOf(busy[q]))
  <2>1. t # 0
    BY DEF Read
  <2> QED
    BY <1>2, <1>3, <2>1 DEF Base, TypeInv
<1> QED
  BY <1>1, <1>6, <1>7, <1>8, <1>9 DEF Base, TypeInv

\* A stream stops: TypeInv.
LEMMA StopTypes ==
  ASSUME Base, NEW p \in Pages, End(p) \/ Refused(p) \/ Drop(p) PROVE TypeInv'
<1> DEFINE t == busy[p]
<1>1. t \in Turns /\ t # 0
  BY DEF Base, TypeInv, End, Refused, Drop
<1>2. PICK how \in {"read", "refused", "lost"}, note \in {<<>>, <<Note(t)>>} : Stop(p, how, note)
  BY DEF End, Refused, Drop
<1>3. UNCHANGED <<fetch, sender, server, sends, sent, history, posts>> /\ KnownEvents' = KnownEvents
  BY <1>2 DEF Stop, KnownEvents, Known
<1>4. sender[t] # Nobody
  BY <1>1, ChatAssumption DEF Base, PageInv
<1>5. note \in Seq(KnownEvents)
  <2>1. Note(t) \in KnownEvents
    BY <1>1, <1>4, KnownEventsOf
  <2>2. <<Note(t)>> \in Seq(KnownEvents) /\ <<>> \in Seq(KnownEvents)
    BY <2>1
  <2> QED
    BY <2>2
<1>6. shown' \in [Pages -> Seq(KnownEvents)]
  <2>1. shown \in [Pages -> Seq(KnownEvents)]
    BY DEF Base, TypeInv
  <2>2. shown[p] \o note \in Seq(KnownEvents)
    BY <1>5, <2>1, ConcatProperties
  <2> QED
    BY <1>2, <2>1, <2>2 DEF Stop
<1>7. result' \in [Turns -> {"none", "read", "refused", "lost", "reloaded"}]
  BY <1>2 DEF Stop, Base, TypeInv
<1>8. /\ DOMAIN buffer' = Pages
      /\ busy' \in [Pages -> Turns \cup {0}]
      /\ \A q \in Pages : buffer'[q] \in IF busy'[q] = 0 THEN {<<>>} ELSE Seq(BytesOf(busy'[q]))
  BY <1>2 DEF Stop, Base, TypeInv
<1>9. DOMAIN wire' = Turns /\ \A u \in Turns : wire'[u] \in Seq(BytesOf(u))
  BY <1>2, EmptySeq DEF Stop, Base, TypeInv
<1> QED
  BY <1>3, <1>6, <1>7, <1>8, <1>9 DEF Base, TypeInv

\* The history is asked for, shown or lost: TypeInv.
LEMMA HistoryTypes ==
  ASSUME Base, NEW p \in Pages, ReadHistory(p) \/ ShowHistory(p) \/ LoseHistory(p) PROVE TypeInv'
<1>1. UNCHANGED <<busy, buffer, sender, result, server, sends, sent, wire, history, posts>> /\ KnownEvents' = KnownEvents
  BY DEF ReadHistory, ShowHistory, LoseHistory, turns, KnownEvents, Known
<1> DEFINE R == [at : {"sent", "read", "settled"}, rows : Seq(KnownEvents)]
<1>2. fetch \in [Pages -> R] /\ history \in Seq(KnownEvents) /\ shown \in [Pages -> Seq(KnownEvents)]
  BY DEF Base, TypeInv
<1>3. [at |-> "read", rows |-> history] \in R /\ Settled \in R
  BY <1>2, EmptySeq DEF Settled
<1>4. fetch' = [fetch EXCEPT ![p] = [at |-> "read", rows |-> history]] \/ fetch' = [fetch EXCEPT ![p] = Settled]
  BY DEF ReadHistory, ShowHistory, LoseHistory
<1>5. fetch' \in [Pages -> R]
  <2> HIDE DEF R
  <2> QED
    BY <1>2, <1>3, <1>4
<1>6. fetch[p].rows \in Seq(KnownEvents)
  BY <1>2
<1>7. shown' = shown \/ shown' = [shown EXCEPT ![p] = IF @ = <<>> THEN fetch[p].rows ELSE @]
  BY DEF ReadHistory, ShowHistory, LoseHistory
<1>8. shown' \in [Pages -> Seq(KnownEvents)]
  BY <1>2, <1>6, <1>7
<1> QED
  BY <1>1, <1>5, <1>8 DEF Base, TypeInv

\* A page is reloaded: TypeInv.
LEMMA ReloadTypes ==
  ASSUME Base, NEW p \in Pages, Reload(p) PROVE TypeInv'
<1>1. UNCHANGED <<sender, server, sends, sent, history, posts>> /\ KnownEvents' = KnownEvents
  BY DEF Reload, KnownEvents, Known
<1>2. shown' \in [Pages -> Seq(KnownEvents)]
  BY EmptySeq DEF Reload, Base, TypeInv
<1>3. fetch' \in [Pages -> [at : {"sent", "read", "settled"}, rows : Seq(KnownEvents)]]
  BY EmptySeq DEF Reload, Base, TypeInv
<1>4. result' \in [Turns -> {"none", "read", "refused", "lost", "reloaded"}]
  BY DEF Reload, Base, TypeInv
<1>5. /\ DOMAIN buffer' = Pages
      /\ busy' \in [Pages -> Turns \cup {0}]
      /\ \A q \in Pages : buffer'[q] \in IF busy'[q] = 0 THEN {<<>>} ELSE Seq(BytesOf(busy'[q]))
  BY DEF Reload, Base, TypeInv
<1>6. DOMAIN wire' = Turns /\ \A u \in Turns : wire'[u] \in Seq(BytesOf(u))
  BY EmptySeq DEF Reload, Base, TypeInv
<1> QED
  BY <1>1, <1>2, <1>3, <1>4, <1>5, <1>6 DEF Base, TypeInv

\* A decision is made, answered, lost or expires: TypeInv.
LEMMA DecisionTypes ==
  ASSUME Base, Resolve \/ Undelivered \/ (\E p \in Pages : Decide(p)) \/ (\E t \in Turns : Expire(t)) PROVE TypeInv'
<1>1. UNCHANGED <<busy, fetch, buffer, sender, result, server, sends, sent, wire, history>> /\ KnownEvents' = KnownEvents
  BY DEF Resolve, Undelivered, Decide, Expire, page, turns, KnownEvents, Known
<1>2. \A x \in posts' : x.turn \in Turns
  BY DEF Resolve, Undelivered, Decide, Expire, Base, TypeInv
<1>3. shown' \in [Pages -> Seq(KnownEvents)]
  <2>1. shown \in [Pages -> Seq(KnownEvents)]
    BY DEF Base, TypeInv
  <2>2. CASE UNCHANGED shown
    BY <2>1, <2>2
  <2>3. CASE Undelivered
    <3>1. PICK x \in posts :
            shown' = [p \in Pages |-> IF p = sender[x.turn] /\ result[x.turn] # "reloaded"
                                       THEN Append(shown[p], Note(x.turn)) ELSE shown[p]]
      BY <2>3 DEF Undelivered
    <3>2. x.turn \in Turns
      BY DEF Base, TypeInv
    <3>3. \A p \in Pages : p = sender[x.turn] => Append(shown[p], Note(x.turn)) \in Seq(KnownEvents)
      BY <2>1, <3>2, KnownEventsOf, AppendProperties, ChatAssumption
    <3> QED
      BY <2>1, <3>1, <3>3
  <2> QED
    BY <2>2, <2>3 DEF Resolve, Decide, Expire, page
<1> QED
  BY <1>1, <1>2, <1>3 DEF Base, TypeInv

\* What a page contains it keeps when a sequence follows, ...
LEMMA ContainsMore ==
  ASSUME NEW X, NEW a \in Seq(X), NEW b \in Seq(X), NEW e
  PROVE  Contains(a, e) => Contains(a \o b, e)
  BY ConcatProperties, LenProperties DEF Contains

\* ... or one element.
LEMMA ContainsAppend ==
  ASSUME NEW X, NEW a \in Seq(X), NEW d \in X, NEW e
  PROVE  Contains(a, e) => Contains(Append(a, d), e)
  BY AppendProperties, LenProperties DEF Contains

\* PageInv, one lemma for each group of actions: the server's,
LEMMA ServerPages ==
  ASSUME Base, NEW t \in Turns, Open(t) \/ Emit(t) \/ Close(t) \/ Disconnect(t) PROVE PageInv'
<1>1. UNCHANGED <<shown, busy, sender, result>>
  BY DEF Open, Emit, Close, Disconnect, page
<1>2. /\ DOMAIN server = Turns /\ DOMAIN sent = Turns /\ DOMAIN wire = Turns
      /\ DOMAIN sender = Turns /\ DOMAIN result = Turns
  BY DEF Base, TypeInv
<1>3. /\ \A p \in Pages : busy[p] # 0 => sender[busy[p]] = p /\ result[busy[p]] = "none"
      /\ \A p \in Pages, u \in Turns : sender[u] = p /\ result[u] = "none" => busy[p] = u
      /\ \A p \in Pages : \A u \in Own(p) : Contains(shown[p], Asked(u))
  BY DEF Base, PageInv
<1>4. Own(1)' = Own(1) /\ \A p \in Pages : Own(p)' = Own(p)
  BY <1>1 DEF Own
<1>5. /\ server[t] \in {"called", "streaming"} /\ server'[t] # "none"
      /\ \A u \in Turns \ {t} : server'[u] = server[u] /\ sent'[u] = sent[u] /\ wire'[u] = wire[u]
  BY <1>2 DEF Open, Emit, Close, Disconnect
<1>6. ASSUME NEW u \in Turns
      PROVE  /\ server'[u] = "none" <=> sender[u] = Nobody
             /\ sender[u] = Nobody => sent'[u] = <<>> /\ wire'[u] = <<>> /\ result[u] = "none"
             /\ result[u] = "read" => server'[u] \in {"closed", "unsaved"}
  <2>1. /\ server[u] = "none" <=> sender[u] = Nobody
        /\ sender[u] = Nobody => sent[u] = <<>> /\ wire[u] = <<>> /\ result[u] = "none"
        /\ result[u] = "read" => server[u] \in {"closed", "unsaved"}
    BY DEF Base, PageInv
  <2> QED
    BY <1>5, <2>1
<1> QED
  BY <1>1, <1>3, <1>4, <1>6 DEF PageInv

\* a message that is sent,
LEMMA SendPages ==
  ASSUME Base, NEW p \in Pages, Send(p) PROVE PageInv'
<1>1. PICK t \in Turns :
        /\ busy[p] = 0 /\ sender[t] = Nobody
        /\ shown' = [shown EXCEPT ![p] = Append(@, Asked(t))]
        /\ busy' = [busy EXCEPT ![p] = t]
        /\ sender' = [sender EXCEPT ![t] = p]
        /\ server' = [server EXCEPT ![t] = "called"]
  BY DEF Send
<1>2. UNCHANGED <<result, sent, wire>>
  BY DEF Send
<1>3. /\ DOMAIN server = Turns /\ DOMAIN sender = Turns /\ DOMAIN shown = Pages /\ DOMAIN busy = Pages
      /\ \A q \in Pages : shown[q] \in Seq(KnownEvents) /\ busy[q] \in Turns \cup {0}
  BY DEF Base, TypeInv
<1>4. p # Nobody /\ Nobody \notin Pages /\ t # 0
  BY ChatAssumption DEF Turns
<1>5. \A u \in Turns :
        /\ server[u] = "none" <=> sender[u] = Nobody
        /\ sender[u] = Nobody => sent[u] = <<>> /\ wire[u] = <<>> /\ result[u] = "none"
        /\ result[u] = "read" => server[u] \in {"closed", "unsaved"}
  BY DEF Base, PageInv
<1>6. \A q \in Pages : busy'[q] # 0 => sender'[busy'[q]] = q /\ result[busy'[q]] = "none"
  <2>1. \A q \in Pages : busy[q] # 0 => sender[busy[q]] = q /\ result[busy[q]] = "none"
    BY DEF Base, PageInv
  <2> QED
    BY <1>1, <1>3, <1>4, <1>5, <2>1
<1>7. \A q \in Pages, u \in Turns : sender'[u] = q /\ result[u] = "none" => busy'[q] = u
  <2>1. \A q \in Pages, u \in Turns : sender[u] = q /\ result[u] = "none" => busy[q] = u
    BY DEF Base, PageInv
  <2>2. 0 \notin Turns
    BY DEF Turns
  <2> QED
    BY <1>1, <1>3, <1>4, <2>1, <2>2
<1>8. ASSUME NEW q \in Pages, NEW u \in Own(q)' PROVE Contains(shown'[q], Asked(u))
  <2>1. u \in Turns /\ sender'[u] = q /\ result[u] # "reloaded"
    BY <1>2 DEF Own
  <2>2. Asked(t) \in OfKind(Kinds)
    BY DEF Asked, Event, OfKind, Kinds
  <2>3. shown[q] \in Seq(OfKind(Kinds))
    <3>1. KnownEvents \subseteq OfKind(Kinds)
      BY DEF KnownEvents, Known, OfKind
    <3> QED
      BY <1>3, <3>1, SeqMonotonic
  <2>4. CASE u = t
    <3>1. q = p /\ shown'[q] = Append(shown[q], Asked(t))
      BY <1>1, <1>3, <2>1, <2>4
    <3>2. Contains(Append(shown[q], Asked(t)), Asked(t))
      BY <2>2, <2>3, AppendProperties, LenProperties DEF Contains
    <3> QED
      BY <2>4, <3>1, <3>2
  <2>5. CASE u # t
    <3>1. u \in Own(q)
      BY <1>1, <1>3, <2>1, <2>5 DEF Own
    <3>2. Contains(shown[q], Asked(u))
      BY <3>1 DEF Base, PageInv
    <3>3. shown'[q] = shown[q] \/ shown'[q] = Append(shown[q], Asked(t))
      BY <1>1, <1>3
    <3> QED
      BY <2>2, <2>3, <3>2, <3>3, ContainsAppend
  <2> QED
    BY <2>4, <2>5
<1>9. \A u \in Turns :
        /\ server'[u] = "none" <=> sender'[u] = Nobody
        /\ sender'[u] = Nobody => sent[u] = <<>> /\ wire[u] = <<>> /\ result[u] = "none"
        /\ result[u] = "read" => server'[u] \in {"closed", "unsaved"}
  BY <1>1, <1>3, <1>4, <1>5
<1> QED
  BY <1>2, <1>6, <1>7, <1>8, <1>9 DEF PageInv

\* a chunk that is read,
LEMMA ReadPages ==
  ASSUME Base, NEW p \in Pages, Read(p) PROVE PageInv'
<1> DEFINE t == busy[p]
<1>1. t \in Turns /\ UNCHANGED <<busy, sender, result, server, sent>>
  BY ReadFacts
<1>2. PICK bytes, rest \in Seq(BytesOf(t)) :
        /\ wire' = [wire EXCEPT ![t] = rest]
        /\ shown' = [shown EXCEPT ![p] = @ \o Visible(Events(bytes))]
  BY ReadFacts
<1>3. /\ DOMAIN shown = Pages /\ DOMAIN wire = Turns /\ sender[t] # Nobody
      /\ \A q \in Pages : shown[q] \in Seq(KnownEvents)
  <2>1. t # 0 /\ p # Nobody
    BY ChatAssumption DEF Read
  <2>2. sender[t] = p
    BY <2>1 DEF Base, PageInv
  <2> QED
    BY <2>1, <2>2 DEF Base, TypeInv
<1>4. Visible(Events(bytes)) \in Seq(KnownEvents)
  BY <1>1, <1>3, EventsType, VisibleType, KnownEventsOf, SeqMonotonic
<1>5. ASSUME NEW q \in Pages, NEW u \in Own(q)' PROVE Contains(shown'[q], Asked(u))
  <2>1. Contains(shown[q], Asked(u))
    BY <1>1 DEF Own, Base, PageInv
  <2>2. shown'[q] = shown[q] \/ shown'[q] = shown[q] \o Visible(Events(bytes))
    BY <1>2, <1>3
  <2> QED
    BY <1>3, <1>4, <2>1, <2>2, ContainsMore
<1>6. \A u \in Turns : sender[u] = Nobody => wire'[u] = wire[u]
  BY <1>2, <1>3
<1> QED
  BY <1>1, <1>5, <1>6 DEF Base, PageInv

\* a stream that stops,
LEMMA StopPages ==
  ASSUME Base, NEW p \in Pages, End(p) \/ Refused(p) \/ Drop(p) PROVE PageInv'
<1> DEFINE t == busy[p]
<1>1. t \in Turns /\ t # 0 /\ sender[t] = p /\ result[t] = "none"
  BY DEF Base, TypeInv, PageInv, End, Refused, Drop
<1>2. PICK how \in {"read", "refused", "lost"}, note \in {<<>>, <<Note(t)>>} :
        Stop(p, how, note) /\ (how = "read" => server[t] \in {"closed", "unsaved"})
  BY DEF End, Refused, Drop
<1>3. UNCHANGED <<sender, server, sent>>
  BY <1>2 DEF Stop
<1>4. /\ DOMAIN shown = Pages /\ DOMAIN busy = Pages /\ DOMAIN wire = Turns /\ DOMAIN result = Turns
      /\ \A q \in Pages : shown[q] \in Seq(KnownEvents) /\ busy[q] \in Turns \cup {0}
  BY DEF Base, TypeInv
<1>5. /\ result' = [result EXCEPT ![t] = how] /\ shown' = [shown EXCEPT ![p] = @ \o note]
      /\ busy' = [busy EXCEPT ![p] = 0] /\ wire' = [wire EXCEPT ![t] = <<>>]
  BY <1>2 DEF Stop
<1>6. \A q \in Pages : busy'[q] # 0 => sender[busy'[q]] = q /\ result'[busy'[q]] = "none"
  <2>1. \A q \in Pages : busy[q] # 0 => sender[busy[q]] = q /\ result[busy[q]] = "none"
    BY DEF Base, PageInv
  <2> QED
    BY <1>1, <1>4, <1>5, <2>1
<1>7. \A q \in Pages, u \in Turns : sender[u] = q /\ result'[u] = "none" => busy'[q] = u
  <2>1. \A q \in Pages, u \in Turns : sender[u] = q /\ result[u] = "none" => busy[q] = u
    BY DEF Base, PageInv
  <2>2. \A u \in Turns : result'[u] = "none" => u # t /\ result[u] = "none"
    BY <1>4, <1>5
  <2> QED
    BY <1>1, <1>4, <1>5, <2>1, <2>2
<1>8. ASSUME NEW q \in Pages, NEW u \in Own(q)' PROVE Contains(shown'[q], Asked(u))
  <2>1. u \in Own(q)
    BY <1>1, <1>3, <1>4, <1>5 DEF Own
  <2>2. Contains(shown[q], Asked(u))
    BY <2>1 DEF Base, PageInv
  <2>3. sender[t] # Nobody
    BY <1>1, ChatAssumption
  <2>4. note \in Seq(KnownEvents)
    <3>1. Note(t) \in KnownEvents
      BY <1>1, <2>3, KnownEventsOf
    <3>2. <<Note(t)>> \in Seq(KnownEvents) /\ <<>> \in Seq(KnownEvents)
      BY <3>1
    <3> QED
      BY <3>2
  <2>5. shown'[q] = shown[q] \/ shown'[q] = shown[q] \o note
    BY <1>4, <1>5
  <2> QED
    BY <1>4, <2>2, <2>4, <2>5, ContainsMore
<1>9. \A u \in Turns :
        /\ server[u] = "none" <=> sender[u] = Nobody
        /\ sender[u] = Nobody => sent[u] = <<>> /\ wire'[u] = <<>> /\ result'[u] = "none"
        /\ result'[u] = "read" => server[u] \in {"closed", "unsaved"}
  <2>1. \A u \in Turns :
        /\ server[u] = "none" <=> sender[u] = Nobody
        /\ sender[u] = Nobody => sent[u] = <<>> /\ wire[u] = <<>> /\ result[u] = "none"
        /\ result[u] = "read" => server[u] \in {"closed", "unsaved"}
    BY DEF Base, PageInv
  <2>2. sender[t] # Nobody
    BY <1>1, ChatAssumption
  <2> QED
    BY <1>1, <1>2, <1>4, <1>5, <2>1, <2>2
<1> QED
  BY <1>3, <1>6, <1>7, <1>8, <1>9 DEF PageInv

\* the history,
LEMMA HistoryPages ==
  ASSUME Base, NEW p \in Pages, ReadHistory(p) \/ ShowHistory(p) \/ LoseHistory(p) PROVE PageInv'
<1>1. UNCHANGED <<busy, sender, result, server, sent, wire>>
  BY DEF ReadHistory, ShowHistory, LoseHistory, turns
<1>2. DOMAIN shown = Pages
  BY DEF Base, TypeInv
<1>3. shown' = shown \/ shown' = [shown EXCEPT ![p] = IF @ = <<>> THEN fetch[p].rows ELSE @]
  BY DEF ReadHistory, ShowHistory, LoseHistory
<1>4. ASSUME NEW q \in Pages, NEW u \in Own(q)' PROVE Contains(shown'[q], Asked(u))
  <2>1. Contains(shown[q], Asked(u))
    BY <1>1 DEF Own, Base, PageInv
  <2>2. shown[q] # <<>>
    BY <2>1, EmptySeq DEF Contains
  <2> QED
    BY <1>2, <1>3, <2>1, <2>2
<1> QED
  BY <1>1, <1>4 DEF Base, PageInv

\* a reload,
LEMMA ReloadPages ==
  ASSUME Base, NEW p \in Pages, Reload(p) PROVE PageInv'
<1>1. UNCHANGED <<sender, server, sent>>
  BY DEF Reload
<1>2. /\ DOMAIN shown = Pages /\ DOMAIN busy = Pages /\ DOMAIN wire = Turns /\ DOMAIN result = Turns
      /\ \A q \in Pages : busy[q] \in Turns \cup {0}
  BY DEF Base, TypeInv
<1>3. /\ shown' = [shown EXCEPT ![p] = <<>>] /\ busy' = [busy EXCEPT ![p] = 0]
      /\ result' = [t \in Turns |-> IF sender[t] = p THEN "reloaded" ELSE result[t]]
      /\ wire' = [t \in Turns |-> IF t = busy[p] THEN <<>> ELSE wire[t]]
  BY DEF Reload
<1>4. \A q \in Pages : busy'[q] # 0 => sender[busy'[q]] = q /\ result'[busy'[q]] = "none"
  <2>1. \A q \in Pages : busy[q] # 0 => sender[busy[q]] = q /\ result[busy[q]] = "none"
    BY DEF Base, PageInv
  <2> QED
    BY <1>2, <1>3, <2>1
<1>5. \A q \in Pages, u \in Turns : sender[u] = q /\ result'[u] = "none" => busy'[q] = u
  <2>1. \A q \in Pages, u \in Turns : sender[u] = q /\ result[u] = "none" => busy[q] = u
    BY DEF Base, PageInv
  <2> QED
    BY <1>2, <1>3, <2>1
<1>6. ASSUME NEW q \in Pages, NEW u \in Own(q)' PROVE Contains(shown'[q], Asked(u))
  <2>1. q # p /\ u \in Own(q)
    BY <1>1, <1>3 DEF Own
  <2> QED
    BY <1>2, <1>3, <2>1 DEF Base, PageInv
<1>7. \A u \in Turns :
        /\ server[u] = "none" <=> sender[u] = Nobody
        /\ sender[u] = Nobody => sent[u] = <<>> /\ wire'[u] = <<>> /\ result'[u] = "none"
        /\ result'[u] = "read" => server[u] \in {"closed", "unsaved"}
  <2>1. \A u \in Turns :
        /\ server[u] = "none" <=> sender[u] = Nobody
        /\ sender[u] = Nobody => sent[u] = <<>> /\ wire[u] = <<>> /\ result[u] = "none"
        /\ result[u] = "read" => server[u] \in {"closed", "unsaved"}
    BY DEF Base, PageInv
  <2> QED
    BY <1>3, <2>1, ChatAssumption
<1> QED
  BY <1>1, <1>4, <1>5, <1>6, <1>7 DEF PageInv

\* and the decisions.
LEMMA DecisionPages ==
  ASSUME Base, Resolve \/ Undelivered \/ (\E p \in Pages : Decide(p)) \/ (\E t \in Turns : Expire(t)) PROVE PageInv'
<1>1. UNCHANGED <<busy, sender, result, server, sent, wire>>
  BY DEF Resolve, Undelivered, Decide, Expire, page, turns
<1>2. ASSUME NEW q \in Pages, NEW u \in Own(q)' PROVE Contains(shown'[q], Asked(u))
  <2>1. Contains(shown[q], Asked(u))
    BY <1>1 DEF Own, Base, PageInv
  <2>2. CASE UNCHANGED shown
    BY <2>1, <2>2
  <2>3. CASE Undelivered
    <3>1. PICK x \in posts :
            shown' = [p \in Pages |-> IF p = sender[x.turn] /\ result[x.turn] # "reloaded"
                                       THEN Append(shown[p], Note(x.turn)) ELSE shown[p]]
      BY <2>3 DEF Undelivered
    <3>2. shown[q] \in Seq(KnownEvents) /\ x.turn \in Turns
      BY DEF Base, TypeInv
    <3>3. q = sender[x.turn] => Note(x.turn) \in KnownEvents
      BY <3>2, KnownEventsOf, ChatAssumption
    <3> QED
      BY <2>1, <3>1, <3>2, <3>3, ContainsAppend
  <2> QED
    BY <2>2, <2>3 DEF Resolve, Decide, Expire, page
<1> QED
  BY <1>1, <1>2 DEF Base, PageInv

\* Types and pages hold at the start ...
LEMMA InitBase == Init => Base
<1> SUFFICES ASSUME Init PROVE Base
  OBVIOUS
<1>1. TypeInv
  <2>1. \A X : <<>> \in Seq(X)
    BY EmptySeq
  <2> QED
    BY <2>1 DEF Init, TypeInv
<1>2. PageInv
  BY ChatAssumption DEF Init, PageInv, Own
<1> QED
  BY <1>1, <1>2 DEF Base

\* ... and are kept by every step.
LEMMA NextBase == Base /\ [Next]_vars => Base'
<1> SUFFICES ASSUME Base, [Next]_vars PROVE Base'
  OBVIOUS
<1>1. CASE UNCHANGED vars
  <2>1. UNCHANGED <<shown, busy, fetch, buffer, sender, result, server, sends, sent, wire, history, posts>>
    BY <1>1 DEF vars, page, turns
  <2>2. KnownEvents' = KnownEvents /\ \A p \in Pages : Own(p)' = Own(p)
    BY <2>1 DEF KnownEvents, Known, Own
  <2> QED
    BY <2>1, <2>2 DEF Base, TypeInv, PageInv
<1>2. CASE Next
  <2>1. CASE \E t \in Turns : Open(t) \/ Emit(t) \/ Close(t) \/ Disconnect(t)
    BY <2>1, OpenTypes, EmitTypes, CloseTypes, ServerPages DEF Base
  <2>2. CASE \E p \in Pages : Send(p)
    BY <2>2, SendTypes, SendPages DEF Base
  <2>3. CASE \E p \in Pages : Read(p)
    BY <2>3, ReadTypes, ReadPages DEF Base
  <2>4. CASE \E p \in Pages : End(p) \/ Refused(p) \/ Drop(p)
    BY <2>4, StopTypes, StopPages DEF Base
  <2>5. CASE \E p \in Pages : ReadHistory(p) \/ ShowHistory(p) \/ LoseHistory(p)
    BY <2>5, HistoryTypes, HistoryPages DEF Base
  <2>6. CASE \E p \in Pages : Reload(p)
    BY <2>6, ReloadTypes, ReloadPages DEF Base
  <2>7. CASE Resolve \/ Undelivered \/ (\E p \in Pages : Decide(p)) \/ (\E t \in Turns : Expire(t))
    BY <2>7, DecisionTypes, DecisionPages DEF Base
  <2> QED
    BY <1>2, <2>1, <2>2, <2>3, <2>4, <2>5, <2>6, <2>7 DEF Next
<1> QED
  BY <1>1, <1>2

-----------------------------------------------------------------------------
(* The stream: nothing of it is lost.                                      *)

\* A sequence of one element.
LEMMA SingleSeq == ASSUME NEW X, NEW e \in X PROVE <<e>> \in Seq(X)
  OBVIOUS

\* An element that is not kept changes nothing of what is.
LEMMA OnlyMore ==
  ASSUME NEW X, NEW s \in Seq(X), NEW d \in X, NEW A, d \notin A
  PROVE  Only(Append(s, d), A) = Only(s, A)
  BY OnlyAppend

\* What is left of a sequence is of the set it was chosen by.
LEMMA OnlyPart ==
  ASSUME NEW X, NEW s \in Seq(X), NEW A PROVE Only(s, A) \in Seq(A)
<1>1. Only(s, A) \in Seq(X \cap A)
  BY OnlyType
<1>2. X \cap A \subseteq A
  OBVIOUS
<1> HIDE DEF Only
<1> QED
  BY <1>1, <1>2, SeqMonotonic

\* A turn's stream, at the page that reads it.
Streaming(p) ==
  LET t == busy[p] IN t # 0 =>
    /\ Only(shown[p], EventsOf(t)) \o Visible(Events(buffer[p] \o wire[t])) = Visible(sent[t])
    /\ Incomplete(buffer[p] \o wire[t]) = <<>>

\* The stream's invariant, page by page.
LEMMA StreamIs == StreamInv <=> \A p \in Pages : Streaming(p)
  BY DEF StreamInv, Streaming

\* An event that is sent reaches the wire of the page that reads it, as a whole.
LEMMA EmitStream ==
  ASSUME Base, StreamInv, NEW t \in Turns, Emit(t), NEW p \in Pages PROVE Streaming(p)'
<1>1. UNCHANGED <<shown, busy, buffer, result>>
  BY DEF Emit, page
<1>2. Streaming(p)
  BY StreamIs
<1> DEFINE e == Head(sends[t])
<1>3. /\ sends[t] # <<>> /\ sent' = [sent EXCEPT ![t] = Append(@, e)]
      /\ \/ ~Abandoned(t) /\ wire' = [wire EXCEPT ![t] = @ \o Bytes(e)]
         \/ Abandoned(t) /\ wire' = wire
  BY DEF Emit
<1>4. e \in EventsOf(t)
  BY <1>3, HeadTailProperties DEF Base, TypeInv
<1>5. DOMAIN sent = Turns /\ DOMAIN wire = Turns
  BY DEF Base, TypeInv
<1>6. CASE busy[p] = t /\ t # 0
  <2>1. /\ buffer[p] \in Seq(BytesOf(t)) /\ wire[t] \in Seq(BytesOf(t)) /\ sent[t] \in Seq(EventsOf(t))
        /\ shown[p] \in Seq(KnownEvents)
    BY <1>6 DEF Base, TypeInv
  <2>2. result[t] = "none"
    BY <1>6 DEF Base, PageInv
  <2>3. wire' = [wire EXCEPT ![t] = @ \o Bytes(e)]
    BY <1>3, <2>2 DEF Abandoned
  <2> DEFINE a == buffer[p] \o wire[t]
             n == Bytes(e)
  <2>4. n \in Seq(BytesOf(t)) /\ Incomplete(n) = <<>> /\ Visible(Events(n)) = Visible(<<e>>)
    BY <1>4, BytesAre
  <2>5. a \in Seq(BytesOf(t)) /\ buffer[p] \o (wire[t] \o n) = a \o n
    <3> DEFINE B == BytesOf(t)
               b == buffer[p]
               w == wire[t]
    <3>1. b \in Seq(B) /\ w \in Seq(B) /\ n \in Seq(B)
      BY <2>1, <2>4
    <3> HIDE DEF B, b, w, n
    <3>2. b \o w \in Seq(B)
      BY <3>1, ConcatProperties
    <3>3. (b \o w) \o n = b \o (w \o n)
      <4>1. Assoc(B)
        BY SeqAssoc
      <4> QED
        BY <3>1, <4>1, Zenon DEF Assoc
    <3> QED
      BY <3>2, <3>3 DEF B, b, w
  <2>6. Incomplete(a) = <<>> /\ Only(shown[p], EventsOf(t)) \o Visible(Events(a)) = Visible(sent[t])
    BY <1>2, <1>6 DEF Streaming
  <2>7. buffer'[p] \o wire'[t] = a \o n
    BY <1>1, <1>5, <2>3, <2>5
  <2> HIDE DEF a, n
  <2>8. <<>> \o n = n
    BY <2>4, ConcatEmptySeq
  <2>9. Events(a \o n) = Events(a) \o Events(n) /\ Incomplete(a \o n) = <<>>
    <3> DEFINE B == BytesOf(t)
    <3>1. a \in Seq(B) /\ n \in Seq(B)
      BY <2>4, <2>5
    <3>2. /\ Events(a \o n) = Events(a) \o Events(Incomplete(a) \o n)
          /\ Incomplete(a \o n) = Incomplete(Incomplete(a) \o n)
      <4> HIDE DEF B
      <4> QED
        BY <3>1, EventsLaw
    <3>3. Incomplete(a) \o n = n
      BY <2>6, <2>8
    <3> QED
      BY <2>4, <3>2, <3>3
  <2>10. Events(a) \in Seq(EventsOf(t)) /\ Events(n) \in Seq(EventsOf(t))
    BY <2>4, <2>5, EventsType
  <2>11. Visible(Events(a \o n)) = Visible(Events(a)) \o Visible(<<e>>)
    BY <2>4, <2>9, <2>10, VisibleConcat, Zenon
  <2>12. Visible(Append(sent[t], e)) = Visible(sent[t]) \o Visible(<<e>>)
    <3>1. Append(sent[t], e) = sent[t] \o <<e>> /\ <<e>> \in Seq(EventsOf(t))
      BY <1>4, <2>1, AppendIsConcat, SingleSeq
    <3> QED
      BY <2>1, <3>1, VisibleConcat
  <2>13. Only(shown[p], EventsOf(t)) \o (Visible(Events(a)) \o Visible(<<e>>))
           = (Only(shown[p], EventsOf(t)) \o Visible(Events(a))) \o Visible(<<e>>)
    <3> DEFINE x == Only(shown[p], EventsOf(t))
               y == Visible(Events(a))
               z == Visible(<<e>>)
               E == EventsOf(t)
    <3>1. x \in Seq(E)
      BY <2>1, OnlyPart
    <3>2. y \in Seq(E)
      BY <2>10, VisibleType
    <3>3. z \in Seq(E)
      BY <1>4, VisibleType, SingleSeq
    <3> HIDE DEF x, y, z, E
    <3>4. (x \o y) \o z = x \o (y \o z)
      <4>1. Assoc(E)
        BY SeqAssoc
      <4> QED
        BY <3>1, <3>2, <3>3, <4>1, Zenon DEF Assoc
    <3> QED
      BY <3>4 DEF x, y, z
  <2>14. sent'[t] = Append(sent[t], e)
    BY <1>3, <1>5
  <2> QED
    BY <1>1, <1>6, <2>6, <2>7, <2>9, <2>11, <2>12, <2>13, <2>14 DEF Streaming
<1>7. CASE busy[p] # t
  <2>1. ASSUME busy[p] # 0 PROVE sent'[busy[p]] = sent[busy[p]] /\ wire'[busy[p]] = wire[busy[p]]
    <3>1. busy[p] \in Turns
      BY <2>1 DEF Base, TypeInv
    <3>2. sent'[busy[p]] = sent[busy[p]]
      BY <1>3, <1>5, <1>7, <3>1
    <3>3. wire'[busy[p]] = wire[busy[p]]
      BY <1>3, <1>5, <1>7, <3>1
    <3> QED
      BY <3>2, <3>3
  <2> QED
    BY <1>1, <1>2, <2>1 DEF Streaming
<1>8. t # 0
  BY DEF Turns
<1> QED
  BY <1>6, <1>7, <1>8

\* The events a page has not read yet are its turn's.
LEMMA VisibleOnly ==
  ASSUME NEW t \in Turns, NEW v \in Seq(EventsOf(t))
  PROVE  Visible(v) \in Seq(EventsOf(t)) /\ Only(Visible(v), EventsOf(t)) = Visible(v)
<1>1. Visible(v) \in Seq(EventsOf(t))
  BY VisibleType
<1>2. \A i \in 1..Len(Visible(v)) : Visible(v)[i] \in EventsOf(t)
  BY <1>1, ElementOfSeq
<1> QED
  BY <1>1, <1>2, OnlyAll

\* A chunk moves from the wire to the page and the buffer, by the reader's law.
LEMMA ReadStream ==
  ASSUME Base, StreamInv, NEW p \in Pages, Read(p), NEW q \in Pages PROVE Streaming(q)'
<1> DEFINE t == busy[p]
<1>1. t \in Turns /\ UNCHANGED <<busy, sender, sent>>
  BY ReadFacts
<1>2. PICK bytes, rest \in Seq(BytesOf(t)) :
        /\ buffer[p] \o wire[t] = bytes \o rest
        /\ wire' = [wire EXCEPT ![t] = rest]
        /\ shown' = [shown EXCEPT ![p] = @ \o Visible(Events(bytes))]
        /\ buffer' = [buffer EXCEPT ![p] = Incomplete(bytes)]
  BY ReadFacts
<1>3. /\ DOMAIN shown = Pages /\ DOMAIN wire = Turns /\ DOMAIN buffer = Pages
      /\ \A r \in Pages : shown[r] \in Seq(KnownEvents)
  BY DEF Base, TypeInv
<1>4. Streaming(p) /\ Streaming(q)
  BY StreamIs
<1>5. t # 0 /\ sender[t] = p /\ p # Nobody
  BY ChatAssumption DEF Base, PageInv, Read
<1>6. CASE q = p
  <2>1. Incomplete(bytes) \in Seq(BytesOf(t)) /\ Events(bytes) \in Seq(EventsOf(t))
    BY <1>1, EventsType
  <2> DEFINE left == Incomplete(bytes) \o rest
  <2>2. left \in Seq(BytesOf(t))
    BY <2>1, ConcatProperties
  <2>3. Events(left) \in Seq(EventsOf(t))
    BY <1>1, <2>2, EventsType
  <2>4. buffer'[p] \o wire'[t] = left
    BY <1>1, <1>2, <1>3
  <2>5. Events(buffer[p] \o wire[t]) = Events(bytes) \o Events(left) /\ Incomplete(left) = Incomplete(buffer[p] \o wire[t])
    BY <1>2, EventsLaw
  <2>6. Visible(Events(buffer[p] \o wire[t])) = Visible(Events(bytes)) \o Visible(Events(left))
    <3> HIDE DEF left
    <3> QED
      BY <2>1, <2>3, <2>5, VisibleConcat
  <2>7. Only(shown'[p], EventsOf(t)) = Only(shown[p], EventsOf(t)) \o Visible(Events(bytes))
    <3> DEFINE v == Visible(Events(bytes))
    <3>1. v \in Seq(EventsOf(t)) /\ Only(v, EventsOf(t)) = v
      BY <1>1, <2>1, VisibleOnly
    <3>2. v \in Seq(KnownEvents)
      BY <1>1, <1>5, <3>1, KnownEventsOf, SeqMonotonic
    <3>3. shown'[p] = shown[p] \o v
      BY <1>2, <1>3
    <3> HIDE DEF v
    <3>4. Only(shown[p] \o v, EventsOf(t)) = Only(shown[p], EventsOf(t)) \o Only(v, EventsOf(t))
      BY <1>3, <3>2, OnlyConcat
    <3> QED
      BY <3>1, <3>3, <3>4 DEF v
  <2>8. (Only(shown[p], EventsOf(t)) \o Visible(Events(bytes))) \o Visible(Events(left))
          = Only(shown[p], EventsOf(t)) \o (Visible(Events(bytes)) \o Visible(Events(left)))
    <3> DEFINE x == Only(shown[p], EventsOf(t))
               y == Visible(Events(bytes))
               z == Visible(Events(left))
               E == EventsOf(t)
    <3>1. x \in Seq(E)
      BY <1>3, OnlyPart
    <3>2. y \in Seq(E) /\ z \in Seq(E)
      BY <2>1, <2>3, VisibleType
    <3> HIDE DEF x, y, z, E
    <3>4. (x \o y) \o z = x \o (y \o z)
      <4>1. Assoc(E)
        BY SeqAssoc
      <4> QED
        BY <3>1, <3>2, <4>1, Zenon DEF Assoc
    <3> QED
      BY <3>4 DEF x, y, z
  <2> HIDE DEF left
  <2>9. /\ Incomplete(buffer[p] \o wire[t]) = <<>>
        /\ Only(shown[p], EventsOf(t)) \o Visible(Events(buffer[p] \o wire[t])) = Visible(sent[t])
    BY <1>4, <1>5 DEF Streaming
  <2> QED
    BY <1>1, <1>6, <2>4, <2>5, <2>6, <2>7, <2>8, <2>9 DEF Streaming
<1>7. CASE q # p
  <2>1. busy[q] # 0 => busy[q] # t
    BY <1>5, <1>7 DEF Base, PageInv
  <2>2. shown'[q] = shown[q] /\ buffer'[q] = buffer[q] /\ (busy[q] # 0 => wire'[busy[q]] = wire[busy[q]])
    BY <1>2, <1>3, <1>7, <2>1
  <2> QED
    BY <1>1, <1>4, <2>2 DEF Streaming
<1> QED
  BY <1>6, <1>7

\* A message that is sent starts an empty stream.
LEMMA SendStream ==
  ASSUME Base, StreamInv, NEW p \in Pages, Send(p), NEW q \in Pages PROVE Streaming(q)'
<1>1. PICK t \in Turns :
        /\ busy[p] = 0 /\ sender[t] = Nobody
        /\ shown' = [shown EXCEPT ![p] = Append(@, Asked(t))]
        /\ busy' = [busy EXCEPT ![p] = t]
  BY DEF Send
<1>2. UNCHANGED <<buffer, wire, sent>>
  BY DEF Send
<1>3. /\ DOMAIN shown = Pages /\ DOMAIN busy = Pages /\ \A r \in Pages : shown[r] \in Seq(KnownEvents)
  BY DEF Base, TypeInv
<1>4. CASE q = p
  <2>1. buffer[p] = <<>> /\ wire[t] = <<>> /\ sent[t] = <<>>
    BY <1>1 DEF Base, TypeInv, PageInv
  <2>2. Events(<<>>) = <<>> /\ Incomplete(<<>>) = <<>>
    <3>1. <<>> \in Seq({}) /\ Len(<<>>) = 0
      BY EmptySeq
    <3>2. Ends(<<>>) = {}
      BY <3>1 DEF Ends
    <3> QED
      BY <3>1, <3>2, NoFrame
  <2>3. Visible(<<>>) = <<>>
    BY OnlyEmpty DEF Visible
  <2>4. <<>> \o <<>> = <<>>
    OBVIOUS
  <2>5. Only(Append(shown[p], Asked(t)), EventsOf(t)) = <<>>
    <3> DEFINE s == shown[p]
               X == OfKind(Kinds)
    <3>1. \A i \in 1..Len(s) : s[i] \in KnownEvents
      BY <1>3, ElementOfSeq
    <3>2. s \in Seq(X)
      <4>1. KnownEvents \subseteq X
        BY DEF KnownEvents, Known, OfKind
      <4> QED
        BY <1>3, <4>1, SeqMonotonic
    <3>3. \A i \in 1..Len(s) : s[i] \notin EventsOf(t)
      BY <1>1, <3>1 DEF KnownEvents, Known, EventsOf
    <3>4. Asked(t) \in X /\ Asked(t) \notin EventsOf(t)
      BY DEF Asked, Event, OfKind, Kinds, EventsOf, Sendable
    <3> HIDE DEF s, X
    <3>5. Only(s, EventsOf(t)) = <<>>
      BY <3>2, <3>3, OnlyNone
    <3>6. Only(Append(s, Asked(t)), EventsOf(t)) = Only(s, EventsOf(t))
      BY <3>2, <3>4, OnlyMore
    <3> QED
      BY <3>5, <3>6 DEF s
  <2>6. busy'[p] = t /\ shown'[p] = Append(shown[p], Asked(t))
    BY <1>1, <1>3
  <2> QED
    BY <1>2, <1>4, <2>1, <2>2, <2>3, <2>4, <2>5, <2>6 DEF Streaming
<1>5. CASE q # p
  <2>1. busy'[q] = busy[q] /\ shown'[q] = shown[q]
    BY <1>1, <1>3, <1>5
  <2>2. Streaming(q)
    BY StreamIs
  <2> QED
    BY <1>2, <2>1, <2>2 DEF Streaming
<1> QED
  BY <1>4, <1>5

\* A page that stops or is reloaded reads no stream.
LEMMA LeaveStream ==
  ASSUME Base, StreamInv, NEW p \in Pages, End(p) \/ Refused(p) \/ Drop(p) \/ Reload(p), NEW q \in Pages
  PROVE  Streaming(q)'
<1>1. /\ DOMAIN shown = Pages /\ DOMAIN busy = Pages /\ DOMAIN buffer = Pages /\ DOMAIN wire = Turns
      /\ busy[q] \in Turns \cup {0}
  BY DEF Base, TypeInv
<1>2. /\ busy' = [busy EXCEPT ![p] = 0] /\ buffer' = [buffer EXCEPT ![p] = <<>>]
      /\ \A r \in Pages \ {p} : shown'[r] = shown[r]
      /\ \A u \in Turns : u # busy[p] => wire'[u] = wire[u]
      /\ sent' = sent
  BY <1>1 DEF End, Refused, Drop, Stop, Reload
<1>3. CASE q = p
  BY <1>1, <1>2, <1>3 DEF Streaming
<1>4. CASE q # p
  <2>1. busy'[q] = busy[q] /\ shown'[q] = shown[q] /\ buffer'[q] = buffer[q]
    BY <1>1, <1>2, <1>4
  <2>2. busy[q] # 0 => busy[q] # busy[p]
    BY <1>4 DEF Base, PageInv
  <2>3. busy[q] # 0 => wire'[busy[q]] = wire[busy[q]]
    BY <1>1, <1>2, <2>2
  <2>4. Streaming(q)
    BY StreamIs
  <2> QED
    BY <1>2, <2>1, <2>3, <2>4 DEF Streaming
<1> QED
  BY <1>3, <1>4

\* What the other steps show is not a turn's stream.
LEMMA OtherStream ==
  ASSUME Base, StreamInv, UNCHANGED <<busy, buffer, wire, sent>>,
         NEW q \in Pages, busy[q] # 0 => Only(shown'[q], EventsOf(busy[q])) = Only(shown[q], EventsOf(busy[q]))
  PROVE  Streaming(q)'
<1>1. Streaming(q)
  BY StreamIs
<1> QED
  BY <1>1 DEF Streaming

\* The history is shown by a page that reads no stream.
LEMMA HistoryStream ==
  ASSUME Base, StreamInv, NEW p \in Pages, ReadHistory(p) \/ ShowHistory(p) \/ LoseHistory(p), NEW q \in Pages
  PROVE  Streaming(q)'
<1>1. UNCHANGED <<busy, buffer, wire, sent>>
  BY DEF ReadHistory, ShowHistory, LoseHistory, turns
<1>2. DOMAIN shown = Pages
  BY DEF Base, TypeInv
<1>3. shown' = shown \/ shown' = [shown EXCEPT ![p] = IF @ = <<>> THEN fetch[p].rows ELSE @]
  BY DEF ReadHistory, ShowHistory, LoseHistory
<1>4. ASSUME busy[q] # 0 PROVE shown[q] # <<>>
  <2>1. busy[q] \in Own(q)
    BY <1>4 DEF Base, TypeInv, PageInv, Own
  <2>2. Contains(shown[q], Asked(busy[q]))
    BY <2>1 DEF Base, PageInv
  <2> QED
    BY <2>2, EmptySeq DEF Contains
<1>5. busy[q] # 0 => shown'[q] = shown[q]
  BY <1>2, <1>3, <1>4
<1> QED
  BY <1>1, <1>5, OtherStream

\* A decision adds notes, which are of no stream.
LEMMA DecisionStream ==
  ASSUME Base, StreamInv, NEW q \in Pages,
         Resolve \/ Undelivered \/ (\E p \in Pages : Decide(p)) \/ (\E t \in Turns : Expire(t))
  PROVE  Streaming(q)'
<1>1. UNCHANGED <<busy, buffer, wire, sent>>
  BY DEF Resolve, Undelivered, Decide, Expire, page, turns
<1>2. Only(shown'[q], EventsOf(busy[q])) = Only(shown[q], EventsOf(busy[q]))
  <2>1. CASE UNCHANGED shown
    BY <2>1
  <2>2. CASE Undelivered
    <3>1. PICK x \in posts :
            shown' = [p \in Pages |-> IF p = sender[x.turn] /\ result[x.turn] # "reloaded"
                                       THEN Append(shown[p], Note(x.turn)) ELSE shown[p]]
      BY <2>2 DEF Undelivered
    <3>2. shown[q] \in Seq(KnownEvents) /\ x.turn \in Turns
      BY DEF Base, TypeInv
    <3>3. q = sender[x.turn] => Note(x.turn) \in KnownEvents
      BY <3>2, KnownEventsOf, ChatAssumption
    <3>4. Note(x.turn) \notin EventsOf(busy[q])
      BY DEF Note, Event, EventsOf, Sendable
    <3>5. shown'[q] = shown[q] \/ (q = sender[x.turn] /\ shown'[q] = Append(shown[q], Note(x.turn)))
      BY <3>1
    <3>6. CASE shown'[q] = shown[q]
      BY <3>6
    <3>7. CASE q = sender[x.turn] /\ shown'[q] = Append(shown[q], Note(x.turn))
      <4> DEFINE A == EventsOf(busy[q])
                 s == shown[q]
                 d == Note(x.turn)
                 X == KnownEvents
      <4>1. s \in Seq(X) /\ d \in X /\ d \notin A
        BY <3>2, <3>3, <3>4, <3>7
      <4>2. Only(Append(s, d), A) = Only(s, A)
        <5> HIDE DEF A, s, d, X
        <5> QED
          BY <4>1, OnlyMore
      <4> QED
        BY <3>7, <4>2
    <3> QED
      BY <3>5, <3>6, <3>7
  <2> QED
    BY <2>1, <2>2 DEF Resolve, Decide, Expire, page
<1> QED
  BY <1>1, <1>2, OtherStream

\* The stream's invariant holds at the start ...
LEMMA InitStream == Init => StreamInv
  BY DEF Init, StreamInv

\* ... and is kept by every step.
LEMMA NextStream == Base /\ StreamInv /\ [Next]_vars => StreamInv'
<1> SUFFICES ASSUME Base, StreamInv, [Next]_vars, NEW q \in Pages PROVE Streaming(q)'
  BY DEF StreamInv, Streaming
<1>1. CASE UNCHANGED vars
  BY <1>1, OtherStream DEF vars, page, turns
<1>2. CASE Next
  <2>1. CASE \E t \in Turns : Open(t) \/ Close(t) \/ Disconnect(t)
    <3>1. UNCHANGED <<busy, buffer, wire, sent, shown>>
      BY <2>1 DEF Open, Close, Disconnect, page
    <3> QED
      BY <3>1, OtherStream
  <2>2. CASE \E t \in Turns : Emit(t)
    BY <2>2, EmitStream
  <2>3. CASE \E p \in Pages : Send(p)
    BY <2>3, SendStream
  <2>4. CASE \E p \in Pages : Read(p)
    BY <2>4, ReadStream
  <2>5. CASE \E p \in Pages : End(p) \/ Refused(p) \/ Drop(p) \/ Reload(p)
    BY <2>5, LeaveStream
  <2>6. CASE \E p \in Pages : ReadHistory(p) \/ ShowHistory(p) \/ LoseHistory(p)
    BY <2>6, HistoryStream
  <2>7. CASE Resolve \/ Undelivered \/ (\E p \in Pages : Decide(p)) \/ (\E t \in Turns : Expire(t))
    BY <2>7, DecisionStream
  <2> QED
    BY <1>2, <2>1, <2>2, <2>3, <2>4, <2>5, <2>6, <2>7 DEF Next
<1> QED
  BY <1>1, <1>2

\* For any number of pages, turns and events, and wherever the chunks are cut, a
\* page shows of the stream it reads, with what it will make of the bytes that are
\* on their way, what the server sent, in that order: NothingLostInStream (sse.ts
\* 49-68).
THEOREM NothingIsLost == Spec => []NothingLostInStream
<1>1. Init => Base /\ StreamInv
  BY InitBase, InitStream
<1>2. (Base /\ StreamInv) /\ [Next]_vars => (Base /\ StreamInv)'
  BY NextBase, NextStream
<1>3. StreamInv => NothingLostInStream
  BY DEF StreamInv, NothingLostInStream, EventsOf
<1> QED
  BY <1>1, <1>2, <1>3, PTL DEF Spec

-----------------------------------------------------------------------------
(* The history: what is stored of a turn.                                  *)

\* What is left of what is left.
LEMMA OnlyOnly ==
  ASSUME NEW X, NEW s \in Seq(X), NEW A, NEW B, \A x \in X : x \in B => x \in A
  PROVE  Only(Only(s, A), B) = Only(s, B)
<1> DEFINE P == {t \in Seq(X) : Only(Only(t, A), B) = Only(t, B)}
<1>1. <<>> \in P
  BY OnlyEmpty
<1>2. ASSUME NEW t \in Seq(X), NEW e \in X, t \in P PROVE Append(t, e) \in P
  <2>1. Append(t, e) \in Seq(X) /\ Only(Only(t, A), B) = Only(t, B)
    BY <1>2, AppendProperties
  <2>2. Only(t, A) \in Seq(X)
    <3>1. Only(t, A) \in Seq(X \cap A)
      BY OnlyType
    <3> HIDE DEF P
    <3> QED
      BY <3>1, SeqMonotonic
  <2>3. CASE e \in A
    <3>1. Only(Append(t, e), A) = Append(Only(t, A), e)
      BY <2>3, OnlyAppend
    <3>2. Only(Append(Only(t, A), e), B) = IF e \in B THEN Append(Only(Only(t, A), B), e) ELSE Only(Only(t, A), B)
      BY <2>2, OnlyAppend
    <3>3. Only(Append(t, e), B) = IF e \in B THEN Append(Only(t, B), e) ELSE Only(t, B)
      BY OnlyAppend
    <3> QED
      BY <2>1, <3>1, <3>2, <3>3
  <2>4. CASE e \notin A
    <3>1. Only(Append(t, e), A) = Only(t, A)
      BY <2>4, OnlyAppend
    <3>2. Only(Append(t, e), B) = Only(t, B)
      BY <2>4, OnlyAppend
    <3> QED
      BY <2>1, <3>1, <3>2
  <2> QED
    BY <2>3, <2>4
<1> HIDE DEF P
<1>3. Seq(X) \subseteq P
  BY <1>1, <1>2, SeqInduct
<1> QED
  BY <1>3 DEF P

\* What the users and the assistant say in the turns of T.
Said(T) == [turn : T, kind : {"user", "text"}, n : Nat]

\* What is said in one sequence, and then in another.
LEMMA TextsConcat ==
  ASSUME NEW X, NEW s \in Seq(X), NEW v \in Seq(X), NEW T
  PROVE  Texts(T, s \o v) = Texts(T, s) \o Texts(T, v)
  BY OnlyConcat DEF Texts

\* What is said are elements of the sequence.
LEMMA TextsType ==
  ASSUME NEW X, NEW s \in Seq(X), NEW T PROVE Texts(T, s) \in Seq(X)
<1>1. Texts(T, s) \in Seq(X \cap Said(T))
  BY OnlyType DEF Texts, Said
<1> QED
  BY <1>1, SeqMonotonic

\* Nothing is said where no element is of those turns.
LEMMA TextsNothing ==
  ASSUME NEW X, NEW s \in Seq(X), NEW T, \A i \in 1..Len(s) : s[i] \notin Said(T)
  PROVE  Texts(T, s) = <<>>
  BY OnlyNone DEF Texts, Said

\* What a turn's events say is what their texts do.
LEMMA TextsOfTurn ==
  ASSUME NEW t \in Turns, NEW v \in Seq(EventsOf(t)), NEW T
  PROVE  Texts(T, v) = IF t \in T THEN TextsOf(v) ELSE <<>>
<1>1. \A i \in 1..Len(v) : v[i] \in EventsOf(t)
  BY ElementOfSeq
<1>2. CASE t \in T
  <2>1. ASSUME NEW i \in 1..Len(v) PROVE v[i] \in Said(T) <=> v[i] \in OfKind({"text"})
    BY <1>1, <1>2 DEF EventsOf, Said, OfKind, Sendable
  <2> QED
    BY <1>2, <2>1, OnlySame DEF Texts, TextsOf, Said
<1>3. CASE t \notin T
  <2>1. ASSUME NEW i \in 1..Len(v) PROVE v[i] \notin Said(T)
    BY <1>1, <1>3 DEF EventsOf, Said
  <2> QED
    BY <1>3, <2>1, TextsNothing
<1> QED
  BY <1>2, <1>3

\* The user's message is said in its turn.
LEMMA TextsAsked ==
  ASSUME NEW t \in Turns, NEW T
  PROVE  Texts(T, <<Asked(t)>>) = IF t \in T THEN <<Asked(t)>> ELSE <<>>
<1> DEFINE s == <<Asked(t)>>
<1>1. s \in Seq({Asked(t)}) /\ Len(s) = 1 /\ s[1] = Asked(t)
  OBVIOUS
<1>2. Asked(t) \in Said(T) <=> t \in T
  BY DEF Asked, Event, Said
<1> HIDE DEF s
<1>3. CASE t \in T
  <2>1. \A i \in 1..Len(s) : s[i] \in Said(T)
    BY <1>1, <1>2, <1>3
  <2>2. Only(s, Said(T)) = s
    BY <1>1, <2>1, OnlyAll
  <2> QED
    BY <1>3, <2>2 DEF Texts, Said, s
<1>4. CASE t \notin T
  <2>1. \A i \in 1..Len(s) : s[i] \notin Said(T)
    BY <1>1, <1>2, <1>4
  <2>2. Texts(T, s) = <<>>
    BY <1>1, <2>1, TextsNothing
  <2> QED
    BY <1>4, <2>2 DEF s
<1> QED
  BY <1>3, <1>4

\* The texts of the texts are they, and those of what is shown are those of all.
LEMMA TextsOfTexts ==
  ASSUME NEW t \in Turns, NEW v \in Seq(EventsOf(t))
  PROVE  TextsOf(TextsOf(v)) = TextsOf(v) /\ TextsOf(Visible(v)) = TextsOf(v)
<1>1. \A x \in EventsOf(t) : x \in OfKind({"text"}) => x \in OfKind(Kinds \ {"done", "ping"})
  BY DEF EventsOf, OfKind, Kinds
<1>2. TextsOf(Visible(v)) = TextsOf(v)
  <2> DEFINE A == OfKind({"text"})
             B == OfKind(Kinds \ {"done", "ping"})
  <2>1. \A x \in EventsOf(t) : x \in A => x \in B
    BY <1>1
  <2> HIDE DEF A, B
  <2>2. Only(Only(v, B), A) = Only(v, A)
    BY <2>1, OnlyOnly
  <2> QED
    BY <2>2 DEF A, B, TextsOf, Visible
<1>3. TextsOf(TextsOf(v)) = TextsOf(v)
  <2> DEFINE A == OfKind({"text"})
  <2>1. \A x \in EventsOf(t) : x \in A => x \in A
    OBVIOUS
  <2> HIDE DEF A
  <2>2. Only(Only(v, A), A) = Only(v, A)
    BY <2>1, OnlyOnly
  <2> QED
    BY <2>2 DEF A, TextsOf
<1> QED
  BY <1>2, <1>3

\* What the proofs about the history need of the types.
LEMMA StoredBase ==
  ASSUME Base
  PROVE  /\ history \in Seq(OfKind(Kinds)) /\ DOMAIN server = Turns /\ DOMAIN sends = Turns /\ DOMAIN sent = Turns
         /\ \A t \in Turns : sent[t] \in Seq(EventsOf(t)) /\ Asked(t) \in OfKind(Kinds)
         /\ \A t \in Turns : Seq(EventsOf(t)) \subseteq Seq(OfKind(Kinds))
         /\ \A p \in Pages : shown[p] \in Seq(OfKind(Kinds))
         /\ Seq(KnownEvents) \subseteq Seq(OfKind(Kinds))
<1>1. KnownEvents \subseteq OfKind(Kinds)
  BY DEF KnownEvents, Known, OfKind
<1>2. Seq(KnownEvents) \subseteq Seq(OfKind(Kinds))
  BY <1>1, SeqMonotonic
<1>3. ASSUME NEW t \in Turns PROVE Seq(EventsOf(t)) \subseteq Seq(OfKind(Kinds))
  BY EventFacts, SeqMonotonic
<1>4. \A t \in Turns : Asked(t) \in OfKind(Kinds)
  BY DEF Asked, Event, OfKind, Kinds
<1> QED
  BY <1>2, <1>3, <1>4 DEF Base, TypeInv

\* A turn's part of the history.
Stored(t) ==
  /\ Texts({t}, history) = IF server[t] \in {"none", "called", "refused"} THEN <<>> ELSE <<Asked(t)>> \o Reply(t)
  /\ server[t] = "closed" => sends[t] = <<>>

\* The history's invariant, turn by turn.
LEMMA StoredIs == StoredInv <=> \A t \in Turns : Stored(t)
  BY DEF StoredInv, Stored

\* A turn of which nothing changes.
LEMMA SameStored ==
  ASSUME StoredInv, NEW t \in Turns, server'[t] = server[t], sends'[t] = sends[t], sent'[t] = sent[t],
         Texts({t}, history') = Texts({t}, history)
  PROVE  Stored(t)'
<1>1. Stored(t)
  BY StoredIs
<1> QED
  BY <1>1 DEF Stored, Reply, TextsOf

\* The message is stored before the stream opens.
LEMMA OpenStored ==
  ASSUME Base, StoredInv, NEW t \in Turns, Open(t), NEW u \in Turns PROVE Stored(u)'
<1>1. server[t] = "called" /\ sent' = sent
  BY DEF Open
<1>2. /\ history \in Seq(OfKind(Kinds)) /\ Asked(t) \in OfKind(Kinds) /\ DOMAIN server = Turns /\ DOMAIN sends = Turns
  BY StoredBase
<1>3. <<Asked(t)>> \in Seq(OfKind(Kinds)) /\ Append(history, Asked(t)) = history \o <<Asked(t)>>
  BY <1>2, SingleSeq, AppendIsConcat
<1>4. Texts({t}, history) = <<>>
  BY <1>1, StoredIs DEF Stored
<1>5. CASE server' = [server EXCEPT ![t] = "streaming"] /\ history' = Append(history, Asked(t))
  <2>1. Texts({u}, history') = Texts({u}, history) \o Texts({u}, <<Asked(t)>>)
    <3>1. history' = history \o <<Asked(t)>>
      BY <1>3, <1>5, Zenon
    <3>2. Texts({u}, history \o <<Asked(t)>>) = Texts({u}, history) \o Texts({u}, <<Asked(t)>>)
      BY <1>2, <1>3, TextsConcat, Zenon
    <3> QED
      BY <3>1, <3>2, Zenon
  <2>2. CASE u = t
    <3>1. Texts({t}, <<Asked(t)>>) = <<Asked(t)>>
      BY TextsAsked
    <3>2. Texts({t}, history') = <<>> \o <<Asked(t)>>
      BY <1>4, <2>1, <2>2, <3>1
    <3>3. <<>> \o <<Asked(t)>> = <<Asked(t)>> /\ <<Asked(t)>> \o <<>> = <<Asked(t)>>
      BY <1>3, ConcatEmptySeq
    <3>4. server'[t] = "streaming"
      BY <1>2, <1>5
    <3> QED
      BY <2>2, <3>2, <3>3, <3>4 DEF Stored, Reply
  <2>3. CASE u # t
    <3>1. Texts({u}, <<Asked(t)>>) = <<>>
      BY <2>3, TextsAsked
    <3>2. Texts({u}, history) \in Seq(OfKind(Kinds))
      BY <1>2, TextsType
    <3>3. Texts({u}, history') = Texts({u}, history)
      BY <2>1, <3>1, <3>2, ConcatEmptySeq
    <3>4. server'[u] = server[u] /\ sends'[u] = sends[u]
      BY <1>2, <1>5, <2>3 DEF Open
    <3> QED
      BY <1>1, <3>3, <3>4, SameStored
  <2> QED
    BY <2>2, <2>3
<1>6. CASE server' = [server EXCEPT ![t] = "refused"] /\ UNCHANGED <<history, sends>>
  <2>1. CASE u = t
    BY <1>2, <1>4, <1>6, <2>1 DEF Stored
  <2>2. CASE u # t
    BY <1>1, <1>2, <1>6, <2>2, SameStored
  <2> QED
    BY <2>1, <2>2
<1> QED
  BY <1>5, <1>6 DEF Open

\* The texts are stored, as a whole, when it ends.
LEMMA CloseStored ==
  ASSUME Base, StoredInv, NEW t \in Turns, Close(t), NEW u \in Turns PROVE Stored(u)'
<1> DEFINE texts == TextsOf(sent[t])
<1>1. server[t] = "streaming" /\ sends[t] = <<>> /\ UNCHANGED <<sends, sent>>
  BY DEF Close
<1>2. /\ history \in Seq(OfKind(Kinds)) /\ DOMAIN server = Turns /\ sent[t] \in Seq(EventsOf(t))
      /\ Seq(EventsOf(t)) \subseteq Seq(OfKind(Kinds)) /\ Asked(t) \in OfKind(Kinds)
  BY StoredBase
<1>3. texts \in Seq(EventsOf(t)) /\ TextsOf(texts) = texts
  BY <1>2, TextsOfType, TextsOfTexts
<1>4. <<Asked(t)>> \in Seq(OfKind(Kinds))
  BY <1>2, SingleSeq
<1>5. Texts({t}, history) = <<Asked(t)>>
  <2>1. Texts({t}, history) = <<Asked(t)>> \o <<>>
    BY <1>1, StoredIs DEF Stored, Reply
  <2> QED
    BY <2>1, <1>4, ConcatEmptySeq
<1>6. CASE server' = [server EXCEPT ![t] = "closed"] /\ history' = history \o texts
  <2>1. Texts({u}, history') = Texts({u}, history) \o Texts({u}, texts)
    <3>1. texts \in Seq(OfKind(Kinds))
      BY <1>2, <1>3
    <3> HIDE DEF texts
    <3> QED
      BY <1>2, <3>1, <1>6, TextsConcat
  <2>2. Texts({u}, texts) = IF t = u THEN texts ELSE <<>>
    <3> HIDE DEF texts
    <3> QED
      BY <1>3, TextsOfTurn
  <2>3. CASE u = t
    <3>1. server'[t] = "closed"
      BY <1>2, <1>6
    <3> QED
      BY <1>1, <1>5, <2>1, <2>2, <2>3, <3>1 DEF Stored, Reply
  <2>4. CASE u # t
    <3>1. Texts({u}, history) \in Seq(OfKind(Kinds))
      BY <1>2, TextsType
    <3>2. Texts({u}, history') = Texts({u}, history)
      BY <2>1, <2>2, <2>4, <3>1, ConcatEmptySeq
    <3> QED
      BY <1>1, <1>2, <1>6, <2>4, <3>2, SameStored
  <2> QED
    BY <2>3, <2>4
<1>7. CASE server' = [server EXCEPT ![t] = "unsaved"] /\ UNCHANGED history
  <2>1. CASE u = t
    <3>1. server'[t] = "unsaved"
      BY <1>2, <1>7
    <3> QED
      BY <1>4, <1>5, <1>7, <2>1, <3>1, ConcatEmptySeq DEF Stored, Reply
  <2>2. CASE u # t
    BY <1>1, <1>2, <1>7, <2>2, SameStored
  <2> QED
    BY <2>1, <2>2
<1> QED
  BY <1>6, <1>7 DEF Close

\* The other steps of the server and a message that is sent store nothing.
LEMMA OtherStored ==
  ASSUME Base, StoredInv, NEW t \in Turns, Emit(t) \/ Disconnect(t) \/ \E p \in Pages : Send(p), NEW u \in Turns
  PROVE  Stored(u)'
<1>1. history' = history
  BY DEF Emit, Disconnect, Send
<1>2. DOMAIN server = Turns /\ DOMAIN sends = Turns /\ DOMAIN sent = Turns
  BY StoredBase
<1>3. Stored(u)
  BY StoredIs
<1>4. CASE Emit(t)
  <2>1. server' = server /\ server[t] = "streaming"
    BY <1>4 DEF Emit
  <2>2. u # t => sends'[u] = sends[u] /\ sent'[u] = sent[u]
    BY <1>2, <1>4 DEF Emit
  <2> QED
    BY <1>1, <1>3, <2>1, <2>2 DEF Stored, Reply, TextsOf
<1>5. CASE Disconnect(t)
  <2>1. /\ server' = [server EXCEPT ![t] = "cut"] /\ server[t] = "streaming"
        /\ UNCHANGED <<sends, sent>>
    BY <1>5 DEF Disconnect
  <2>2. server'[u] = server[u] \/ (server[u] = "streaming" /\ server'[u] = "cut")
    BY <1>2, <2>1
  <2> QED
    BY <1>1, <1>3, <2>1, <2>2 DEF Stored, Reply, TextsOf
<1>6. CASE \E p \in Pages : Send(p)
  <2>1. PICK v \in Turns : server' = [server EXCEPT ![v] = "called"] /\ sender[v] = Nobody
    BY <1>6 DEF Send
  <2>2. UNCHANGED <<sends, sent>>
    BY <1>6 DEF Send
  <2>3. server[v] = "none"
    BY <2>1 DEF Base, PageInv
  <2>4. server'[u] = server[u] \/ (server[u] = "none" /\ server'[u] = "called")
    BY <1>2, <2>1, <2>3
  <2> QED
    BY <1>1, <1>3, <2>2, <2>4 DEF Stored, Reply, TextsOf
<1> QED
  BY <1>4, <1>5, <1>6

\* The history's invariant holds at the start ...
LEMMA InitStored == Init => StoredInv
  BY OnlyEmpty DEF Init, StoredInv, Texts

\* ... and is kept by every step.
LEMMA NextStored == Base /\ StoredInv /\ [Next]_vars => StoredInv'
<1> SUFFICES ASSUME Base, StoredInv, [Next]_vars, NEW u \in Turns PROVE Stored(u)'
  BY DEF StoredInv, Stored, Reply
<1>1. CASE UNCHANGED <<history, server, sends, sent>>
  BY <1>1, SameStored
<1>2. CASE Next
  <2>1. CASE \E t \in Turns : Open(t) \/ Close(t)
    BY <2>1, OpenStored, CloseStored
  <2>2. CASE (\E t \in Turns : Emit(t) \/ Disconnect(t)) \/ (\E p \in Pages : Send(p))
    BY <2>2, OtherStored
  <2>3. CASE \E p \in Pages : Read(p) \/ End(p) \/ Refused(p) \/ Drop(p)
                                \/ ReadHistory(p) \/ ShowHistory(p) \/ LoseHistory(p) \/ Reload(p)
    <3>1. UNCHANGED <<history, server, sends, sent>>
      BY <2>3 DEF Read, End, Refused, Drop, Stop, ReadHistory, ShowHistory, LoseHistory, Reload, turns
    <3> QED
      BY <1>1, <3>1
  <2>4. CASE Resolve \/ Undelivered \/ (\E p \in Pages : Decide(p)) \/ (\E t \in Turns : Expire(t))
    <3>1. UNCHANGED <<history, server, sends, sent>>
      BY <2>4 DEF Resolve, Undelivered, Decide, Expire, turns
    <3> QED
      BY <1>1, <3>1
  <2> QED
    BY <1>2, <2>1, <2>2, <2>3, <2>4 DEF Next
<1> QED
  BY <1>1, <1>2 DEF vars, turns

\* For any number of pages and turns, and wherever their streams end: StoredIsWhole
\* (chat.py 57-69).
THEOREM AnswersAreStoredWhole == Spec => []StoredIsWhole
<1>1. Init => Base /\ StoredInv
  BY InitBase, InitStored
<1>2. (Base /\ StoredInv) /\ [Next]_vars => (Base /\ StoredInv)'
  BY NextBase, NextStored
<1>3. Base /\ StoredInv => StoredIsWhole
  <2> SUFFICES ASSUME Base, StoredInv, NEW t \in Turns
               PROVE  Texts({t}, history) \in {<<>>, <<Asked(t)>>, <<Asked(t)>> \o TextsOf(sent[t] \o sends[t])}
    BY DEF StoredIsWhole
  <2>1. Stored(t)
    BY StoredIs
  <2>2. CASE server[t] \in {"none", "called", "refused"}
    BY <2>1, <2>2 DEF Stored
  <2>3. CASE server[t] = "closed"
    <3>1. sent[t] \o sends[t] = sent[t]
      BY <2>1, <2>3, StoredBase, ConcatEmptySeq DEF Stored
    <3> QED
      BY <2>1, <2>3, <3>1 DEF Stored, Reply
  <2>4. CASE server[t] \notin {"none", "called", "refused", "closed"}
    <3>1. <<Asked(t)>> \o <<>> = <<Asked(t)>>
      BY StoredBase, SingleSeq, ConcatEmptySeq
    <3> QED
      BY <2>1, <2>4, <3>1 DEF Stored, Reply
  <2> QED
    BY <2>2, <2>3, <2>4
<1> QED
  BY <1>1, <1>2, <1>3, PTL DEF Spec

-----------------------------------------------------------------------------
(* The order: what a page shows and what is stored.                        *)

\* The reader keeps no frame that is whole.
BufferInv == \A p \in Pages : Ends(buffer[p]) = {}

\* No frame ends in nothing.
LEMMA NoEnds == Ends(<<>>) = {}
<1>1. <<>> \in Seq({}) /\ Len(<<>>) = 0
  BY EmptySeq
<1> QED
  BY <1>1 DEF Ends

\* The buffer's invariant holds at the start ...
LEMMA InitBuffer == Init => BufferInv
  BY NoEnds DEF Init, BufferInv

\* ... and is kept by every step.
LEMMA NextBuffer == Base /\ BufferInv /\ [Next]_vars => BufferInv'
<1> SUFFICES ASSUME Base, BufferInv, [Next]_vars, NEW q \in Pages PROVE Ends(buffer'[q]) = {}
  BY DEF BufferInv, Ends, FrameEnd, LineEnd
<1>1. DOMAIN buffer = Pages /\ Ends(buffer[q]) = {}
  BY DEF Base, TypeInv, BufferInv
<1>2. CASE UNCHANGED buffer
  BY <1>1, <1>2
<1>3. CASE \E p \in Pages : buffer' = [buffer EXCEPT ![p] = <<>>]
  BY <1>1, <1>3, NoEnds
<1>4. CASE \E p \in Pages : Read(p)
  <2>1. PICK p \in Pages : Read(p)
    BY <1>4
  <2>2. PICK bytes \in Seq(BytesOf(busy[p])) : buffer' = [buffer EXCEPT ![p] = Incomplete(bytes)]
    BY <2>1, ReadFacts
  <2>3. Ends(Incomplete(bytes)) = {}
    BY SplitType DEF Incomplete
  <2> QED
    BY <1>1, <2>2, <2>3
<1>5. CASE Next
  <2>1. CASE \E t \in Turns : Open(t) \/ Emit(t) \/ Close(t) \/ Disconnect(t) \/ Expire(t)
    BY <1>2, <2>1 DEF Open, Emit, Close, Disconnect, Expire, page
  <2>2. CASE \E p \in Pages : Send(p) \/ ReadHistory(p) \/ ShowHistory(p) \/ LoseHistory(p) \/ Decide(p)
    BY <1>2, <2>2 DEF Send, ReadHistory, ShowHistory, LoseHistory, Decide
  <2>3. CASE \E p \in Pages : End(p) \/ Refused(p) \/ Drop(p) \/ Reload(p)
    BY <1>3, <2>3 DEF End, Refused, Drop, Stop, Reload
  <2>4. CASE Resolve \/ Undelivered
    BY <1>2, <2>4 DEF Resolve, Undelivered, page
  <2> QED
    BY <1>4, <1>5, <2>1, <2>2, <2>3, <2>4 DEF Next
<1> QED
  BY <1>2, <1>5 DEF vars, page

\* The turns a page has read to their end, and what it shows of them.
WholeOf(p) == {t \in Own(p) : Whole(t)}

Ordered(p) ==
  LET t == busy[p]
      W == WholeOf(p)
  IN  /\ Texts(W, shown[p]) = Texts(W, history)
      /\ t # 0 =>
           /\ Texts(W \cup {t}, shown[p]) = Texts(W, shown[p]) \o Texts({t}, shown[p])
           /\ Texts(W \cup {t}, history) = Texts(W, history) \o Texts({t}, history)
           /\ Texts({t}, shown[p]) = <<Asked(t)>> \o TextsOf(Only(shown[p], EventsOf(t)))

\* The order's invariant, page by page.
LEMMA OrderIs == OrderInv <=> \A p \in Pages : Ordered(p)
  BY DEF OrderInv, Ordered, WholeOf

\* What is not said in the turns of W comes after it.
LEMMA Apart ==
  ASSUME NEW X, NEW s \in Seq(X), NEW v \in Seq(X), NEW W, \A i \in 1..Len(v) : v[i] \notin Said(W)
  PROVE  Texts(W, s \o v) = Texts(W, s)
<1>1. Texts(W, v) = <<>>
  BY TextsNothing
<1>2. Texts(W, s \o v) = Texts(W, s) \o Texts(W, v)
  BY TextsConcat
<1>3. Texts(W, s) \in Seq(X)
  BY TextsType
<1> QED
  BY <1>1, <1>2, <1>3, ConcatEmptySeq

\* What is said in U is what is said in W, and then what is said in T.
Splits(U, W, T, s) == Texts(U, s) = Texts(W, s) \o Texts(T, s)

\* What is not said in W can only follow what is.
LEMMA ApartAfter ==
  ASSUME NEW X, NEW s \in Seq(X), NEW v \in Seq(X), NEW W, NEW U, NEW T,
         Texts(W, v) = <<>>, Texts(U, v) = Texts(T, v),
         Splits(U, W, T, s)
  PROVE  Splits(U, W, T, s \o v)
<1> DEFINE a == Texts(W, s)
           b == Texts(T, s)
           c == Texts(T, v)
<1>2. a \in Seq(X) /\ b \in Seq(X) /\ c \in Seq(X)
  BY TextsType
<1>3. Texts(W, s \o v) = a
  <2>1. Texts(W, s \o v) = Texts(W, s) \o Texts(W, v)
    BY TextsConcat
  <2> QED
    BY <1>2, <2>1, ConcatEmptySeq
<1>4. Texts(T, s \o v) = b \o c
  BY TextsConcat
<1>5. Texts(U, s \o v) = Texts(U, s) \o Texts(U, v)
  BY TextsConcat
<1>6. Assoc(X)
  BY SeqAssoc
<1>7. (a \o b) \o c = a \o (b \o c)
  <2>1. a \in Seq(X)
    BY <1>2
  <2>2. b \in Seq(X)
    BY <1>2
  <2>3. c \in Seq(X)
    BY <1>2
  <2> HIDE DEF a, b, c
  <2> QED
    BY <1>6, <2>1, <2>2, <2>3, Zenon DEF Assoc
<1> QED
  BY <1>3, <1>4, <1>5, <1>7 DEF Splits

\* The page's own turn is not among those it has read.
LEMMA NotWhole ==
  ASSUME Base, NEW p \in Pages, busy[p] # 0
  PROVE  busy[p] \notin WholeOf(p)
  BY DEF Base, PageInv, WholeOf, Whole

\* What the proofs about the order need of the types.
LEMMA OrderBase ==
  ASSUME Base, NEW p \in Pages
  PROVE  /\ shown[p] \in Seq(OfKind(Kinds)) /\ history \in Seq(OfKind(Kinds))
         /\ busy[p] \in Turns \cup {0}
  BY StoredBase DEF Base, TypeInv

\* What a step adds to a page and to the history.
LEMMA Adds ==
  ASSUME Base, OrderInv, NEW p \in Pages, busy'[p] = busy[p], WholeOf(p)' = WholeOf(p),
         NEW v \in Seq(OfKind(Kinds)), NEW w \in Seq(OfKind(Kinds)),
         shown'[p] = shown[p] \o v, history' = history \o w,
         \A i \in 1..Len(v) : v[i] \notin Said(WholeOf(p)),
         \A i \in 1..Len(w) : w[i] \notin Said(WholeOf(p)),
         busy[p] # 0 => Texts({busy[p]}, v) = TextsOf(Only(v, EventsOf(busy[p])))
  PROVE  Ordered(p)'
<1> DEFINE X == OfKind(Kinds)
           t == busy[p]
           W == WholeOf(p)
           s == shown[p]
<1>1. s \in Seq(X) /\ history \in Seq(X) /\ Ordered(p) /\ t \in Turns \cup {0}
  BY OrderBase, OrderIs
<1>2. Texts(W, s \o v) = Texts(W, s)
  <2> HIDE DEF X, t, W, s
  <2> QED
    BY <1>1, Apart DEF X, W
<1>3. Texts(W, history \o w) = Texts(W, history)
  <2> HIDE DEF X, t, W, s
  <2> QED
    BY <1>1, Apart DEF X, W
<1>4. ASSUME t # 0
      PROVE  /\ Texts(W \cup {t}, s \o v) = Texts(W, s \o v) \o Texts({t}, s \o v)
             /\ Texts(W \cup {t}, history \o w) = Texts(W, history \o w) \o Texts({t}, history \o w)
             /\ Texts({t}, s \o v) = <<Asked(t)>> \o TextsOf(Only(s \o v, EventsOf(t)))
  <2>1. /\ Texts(W \cup {t}, s) = Texts(W, s) \o Texts({t}, s)
        /\ Texts(W \cup {t}, history) = Texts(W, history) \o Texts({t}, history)
        /\ Texts({t}, s) = <<Asked(t)>> \o TextsOf(Only(s, EventsOf(t)))
    BY <1>1, <1>4 DEF Ordered
  <2> DEFINE E == EventsOf(t)
             a == <<Asked(t)>>
             b == TextsOf(Only(s, E))
             c == TextsOf(Only(v, E))
  <2>2. Only(s \o v, E) = Only(s, E) \o Only(v, E)
    <3>1. s \in Seq(X) /\ v \in Seq(X)
      BY <1>1
    <3> HIDE DEF X, E, s
    <3> QED
      BY <3>1, OnlyConcat
  <2>3. Only(s, E) \in Seq(X) /\ Only(v, E) \in Seq(X)
    <3>1. Only(s, E) \in Seq(X \cap E) /\ Only(v, E) \in Seq(X \cap E)
      BY <1>1, OnlyType
    <3> HIDE DEF X, E, s
    <3> QED
      BY <3>1, SeqMonotonic
  <2>4. TextsOf(Only(s \o v, E)) = b \o c
    <3> HIDE DEF X, E, s
    <3> QED
      BY <2>2, <2>3, OnlyConcat DEF TextsOf
  <2>5. a \in Seq(X) /\ b \in Seq(X) /\ c \in Seq(X)
    <3>1. Asked(t) \in X
      BY <1>1, <1>4, StoredBase
    <3>2. a \in Seq(X)
      BY <3>1, SingleSeq
    <3>3. b \in Seq(X) /\ c \in Seq(X)
      BY <2>3, TextsOfType
    <3> QED
      BY <3>2, <3>3
  <2>6. (a \o b) \o c = a \o (b \o c)
    <3> HIDE DEF X, a, b, c
    <3>1. Assoc(X)
      BY SeqAssoc
    <3> QED
      BY <2>5, <3>1, Zenon DEF Assoc
  <2>7. Texts({t}, s \o v) = Texts({t}, s) \o Texts({t}, v)
    <3> HIDE DEF X, t, s
    <3> QED
      BY <1>1, TextsConcat DEF X
  <2>8. Texts({t}, s \o v) = (a \o b) \o c
    BY <1>4, <2>1, <2>7
  <2>9. Texts({t}, s \o v) = a \o TextsOf(Only(s \o v, E))
    BY <2>4, <2>6, <2>8
  <2>10. Texts(W \cup {t}, s \o v) = Texts(W, s \o v) \o Texts({t}, s \o v)
    <3> DEFINE U == W \cup {t}
               T == {t}
    <3>0. \A i \in 1..Len(v) : v[i] \notin Said(W) /\ (v[i] \in Said(U) <=> v[i] \in Said(T))
      BY DEF Said
    <3>1. Texts(W, v) = <<>> /\ Texts(U, v) = Texts(T, v)
      <4>1. Texts(W, v) = <<>>
        BY <3>0, TextsNothing, Zenon
      <4>2. Only(v, Said(U)) = Only(v, Said(T))
        <5> HIDE DEF U, T
        <5> QED
          BY <3>0, OnlySame, Zenon
      <4> QED
        BY <4>1, <4>2 DEF Texts, Said
    <3>2. s \in Seq(X) /\ v \in Seq(X) /\ Splits(U, W, T, s)
      BY <1>1, <2>1 DEF Splits
    <3> HIDE DEF X, s, W, U, T
    <3>3. Splits(U, W, T, s \o v)
      BY <3>1, <3>2, ApartAfter
    <3> QED
      BY <3>3 DEF U, T, Splits
  <2>11. Texts(W \cup {t}, history \o w) = Texts(W, history \o w) \o Texts({t}, history \o w)
    <3> DEFINE U == W \cup {t}
               T == {t}
    <3>0. \A i \in 1..Len(w) : w[i] \notin Said(W) /\ (w[i] \in Said(U) <=> w[i] \in Said(T))
      BY DEF Said
    <3>1. Texts(W, w) = <<>> /\ Texts(U, w) = Texts(T, w)
      <4>1. Texts(W, w) = <<>>
        BY <3>0, TextsNothing, Zenon
      <4>2. Only(w, Said(U)) = Only(w, Said(T))
        <5> HIDE DEF U, T
        <5> QED
          BY <3>0, OnlySame, Zenon
      <4> QED
        BY <4>1, <4>2 DEF Texts, Said
    <3>2. history \in Seq(X) /\ w \in Seq(X) /\ Splits(U, W, T, history)
      BY <1>1, <2>1 DEF Splits
    <3> HIDE DEF X, s, W, U, T
    <3>3. Splits(U, W, T, history \o w)
      BY <3>1, <3>2, ApartAfter
    <3> QED
      BY <3>3 DEF U, T, Splits
  <2> QED
    BY <2>9, <2>10, <2>11
<1>5. Texts(W, s) = Texts(W, history)
  BY <1>1 DEF Ordered
<1> QED
  BY <1>2, <1>3, <1>4, <1>5 DEF Ordered

\* Nothing is added.
LEMMA SameOrdered ==
  ASSUME OrderInv, NEW p \in Pages, busy'[p] = busy[p], WholeOf(p)' = WholeOf(p),
         shown'[p] = shown[p], history' = history
  PROVE  Ordered(p)'
<1>1. Ordered(p)
  BY OrderIs
<1> QED
  BY <1>1 DEF Ordered

\* A step that adds to the history alone, ...
LEMMA AddsHistory ==
  ASSUME Base, OrderInv, NEW p \in Pages, busy'[p] = busy[p], WholeOf(p)' = WholeOf(p), shown'[p] = shown[p],
         NEW w \in Seq(OfKind(Kinds)), history' = history \o w, \A i \in 1..Len(w) : w[i] \notin Said(WholeOf(p))
  PROVE  Ordered(p)'
<1> DEFINE X == OfKind(Kinds)
           v == <<>>
<1>1. v \in Seq(X) /\ Len(v) = 0
  BY EmptySeq
<1>2. shown'[p] = shown[p] \o v
  BY OrderBase, ConcatEmptySeq
<1>3. Texts({busy[p]}, v) = TextsOf(Only(v, EventsOf(busy[p])))
  BY OnlyEmpty DEF Texts, TextsOf
<1>4. \A i \in 1..Len(v) : v[i] \notin Said(WholeOf(p))
  BY <1>1
<1> HIDE DEF v
<1> QED
  BY <1>1, <1>2, <1>3, <1>4, Adds

\* ... and one that adds to a page alone.
LEMMA AddsShown ==
  ASSUME Base, OrderInv, NEW p \in Pages, busy'[p] = busy[p], WholeOf(p)' = WholeOf(p), history' = history,
         NEW v \in Seq(OfKind(Kinds)), shown'[p] = shown[p] \o v, \A i \in 1..Len(v) : v[i] \notin Said(WholeOf(p)),
         busy[p] # 0 => Texts({busy[p]}, v) = TextsOf(Only(v, EventsOf(busy[p])))
  PROVE  Ordered(p)'
<1> DEFINE X == OfKind(Kinds)
           w == <<>>
<1>1. w \in Seq(X) /\ Len(w) = 0
  BY EmptySeq
<1>2. history' = history \o w
  BY OrderBase, ConcatEmptySeq
<1>4. \A i \in 1..Len(w) : w[i] \notin Said(WholeOf(p))
  BY <1>1
<1> HIDE DEF w
<1> QED
  BY <1>1, <1>2, <1>4, Adds

\* A step of the server changes nothing of what has been read to its end.
LEMMA SameWhole ==
  ASSUME Base, NEW p \in Pages, UNCHANGED <<sender, result>>,
         \A u \in Turns : server'[u] = server[u] \/ server[u] \notin {"closed", "unsaved"}
  PROVE  WholeOf(p)' = WholeOf(p)
<1>1. ASSUME NEW u \in Turns PROVE Whole(u)' <=> Whole(u)
  <2>1. result'[u] = result[u] /\ (result[u] = "read" => server'[u] = server[u])
    BY DEF Base, PageInv
  <2> QED
    BY <2>1 DEF Whole
<1> QED
  BY <1>1 DEF WholeOf, Own

\* The order, for the steps of the server: what it stores is of a turn not yet read.
LEMMA ServerOrder ==
  ASSUME Base, OrderInv, NEW t \in Turns, Open(t) \/ Emit(t) \/ Close(t) \/ Disconnect(t), NEW p \in Pages
  PROVE  Ordered(p)'
<1>1. UNCHANGED <<busy, shown, sender, result>>
  BY DEF Open, Emit, Close, Disconnect, page
<1>2. /\ server[t] \in {"called", "streaming"} /\ \A u \in Turns \ {t} : server'[u] = server[u]
  BY StoredBase DEF Open, Emit, Close, Disconnect
<1>3. WholeOf(p)' = WholeOf(p)
  BY <1>1, <1>2, SameWhole
<1>4. t \notin WholeOf(p)
  BY <1>2 DEF WholeOf, Whole
<1>5. CASE history' = history
  BY <1>1, <1>3, <1>5, SameOrdered
<1>6. CASE history' = Append(history, Asked(t))
  <2> DEFINE w == <<Asked(t)>>
  <2>1. Asked(t) \in OfKind(Kinds) /\ history \in Seq(OfKind(Kinds))
    BY StoredBase
  <2>2. w \in Seq(OfKind(Kinds)) /\ history' = history \o w
    BY <1>6, <2>1, SingleSeq, AppendIsConcat
  <2>3. \A i \in 1..Len(w) : w[i] \notin Said(WholeOf(p))
    BY <1>4 DEF Said, Asked, Event
  <2> HIDE DEF w
  <2> QED
    BY <1>1, <1>3, <2>2, <2>3, AddsHistory
<1>7. CASE history' = history \o TextsOf(sent[t])
  <2> DEFINE w == TextsOf(sent[t])
  <2>1. w \in Seq(EventsOf(t)) /\ Seq(EventsOf(t)) \subseteq Seq(OfKind(Kinds))
    BY StoredBase, TextsOfType
  <2>2. history' = history \o w
    BY <1>7
  <2> HIDE DEF w
  <2>3. \A i \in 1..Len(w) : w[i] \in EventsOf(t)
    BY <2>1, ElementOfSeq
  <2>4. \A i \in 1..Len(w) : w[i] \notin Said(WholeOf(p))
    BY <1>4, <2>3 DEF Said, EventsOf
  <2>5. w \in Seq(OfKind(Kinds))
    BY <2>1
  <2> QED
    BY <1>1, <1>3, <2>2, <2>4, <2>5, AddsHistory
<1> QED
  BY <1>5, <1>6, <1>7 DEF Open, Emit, Close, Disconnect

\* The order, for a chunk that is read: it is of the page's own turn.
LEMMA ReadOrder ==
  ASSUME Base, OrderInv, NEW p \in Pages, Read(p), NEW q \in Pages PROVE Ordered(q)'
<1> DEFINE t == busy[p]
<1>1. t \in Turns /\ UNCHANGED <<busy, sender, result, server, history>>
  BY ReadFacts
<1>2. PICK bytes \in Seq(BytesOf(t)) : shown' = [shown EXCEPT ![p] = @ \o Visible(Events(bytes))]
  BY ReadFacts
<1>3. WholeOf(q)' = WholeOf(q)
  BY <1>1, SameWhole
<1>4. DOMAIN shown = Pages
  BY DEF Base, TypeInv
<1>5. CASE q = p
  <2> DEFINE v == Visible(Events(bytes))
  <2>1. v \in Seq(EventsOf(t)) /\ Only(v, EventsOf(t)) = v
    BY <1>1, EventsType, VisibleOnly
  <2>2. v \in Seq(OfKind(Kinds))
    BY <1>1, <2>1, StoredBase
  <2>3. shown'[p] = shown[p] \o v
    BY <1>2, <1>4
  <2>4. t \notin WholeOf(p)
    BY <1>1, NotWhole DEF Turns
  <2> HIDE DEF v
  <2>5. \A i \in 1..Len(v) : v[i] \in EventsOf(t)
    BY <2>1, ElementOfSeq
  <2>6. \A i \in 1..Len(v) : v[i] \notin Said(WholeOf(p))
    BY <2>4, <2>5 DEF Said, EventsOf
  <2>7. Texts({t}, v) = TextsOf(Only(v, EventsOf(t)))
    BY <1>1, <2>1, TextsOfTurn
  <2> QED
    BY <1>1, <1>3, <1>5, <2>2, <2>3, <2>6, <2>7, AddsShown
<1>6. CASE q # p
  BY <1>1, <1>2, <1>3, <1>4, <1>6, SameOrdered
<1> QED
  BY <1>5, <1>6

\* No event is of a turn that was not sent.
LEMMA NotYet ==
  ASSUME Base, NEW t \in Turns, sender[t] = Nobody, NEW s \in Seq(KnownEvents)
  PROVE  \A i \in 1..Len(s) : s[i] \notin EventsOf(t) /\ s[i] \notin Said({t})
<1>1. \A i \in 1..Len(s) : s[i] \in KnownEvents
  BY ElementOfSeq
<1> QED
  BY <1>1 DEF KnownEvents, Known, EventsOf, Said

\* Of a turn that was not sent nothing is said.
LEMMA NothingSaid ==
  ASSUME Base, NEW t \in Turns, sender[t] = Nobody, NEW s \in Seq(KnownEvents), NEW W
  PROVE  /\ Texts({t}, s) = <<>> /\ Only(s, EventsOf(t)) = <<>>
         /\ Splits(W \cup {t}, W, {t}, s)
<1>1. \A i \in 1..Len(s) : s[i] \notin EventsOf(t) /\ s[i] \notin Said({t})
  BY NotYet
<1>2. Texts({t}, s) = <<>> /\ Only(s, EventsOf(t)) = <<>>
  BY <1>1, TextsNothing, OnlyNone
<1>3. Texts(W \cup {t}, s) = Texts(W, s)
  <2>1. \A i \in 1..Len(s) : s[i] \in Said(W \cup {t}) <=> s[i] \in Said(W)
    BY <1>1 DEF Said
  <2> QED
    BY <2>1, OnlySame DEF Texts, Said
<1>4. Texts(W, s) \in Seq(KnownEvents)
  BY TextsType
<1>5. Texts(W, s) \o <<>> = Texts(W, s)
  BY <1>4, ConcatEmptySeq
<1> QED
  BY <1>2, <1>3, <1>5 DEF Splits

\* The order, for a message: it comes after everything its page has read.
LEMMA SendOrder ==
  ASSUME Base, OrderInv, NEW p \in Pages, Send(p), NEW q \in Pages PROVE Ordered(q)'
<1>1. PICK t \in Turns :
        /\ busy[p] = 0 /\ sender[t] = Nobody
        /\ shown' = [shown EXCEPT ![p] = Append(@, Asked(t))]
        /\ busy' = [busy EXCEPT ![p] = t]
        /\ sender' = [sender EXCEPT ![t] = p]
        /\ server' = [server EXCEPT ![t] = "called"]
  BY DEF Send
<1>2. UNCHANGED <<history, result>>
  BY DEF Send
<1>3. /\ DOMAIN shown = Pages /\ DOMAIN busy = Pages /\ DOMAIN sender = Turns /\ DOMAIN server = Turns
      /\ shown[p] \in Seq(KnownEvents) /\ history \in Seq(KnownEvents)
  BY DEF Base, TypeInv
<1>4. result[t] = "none" /\ q # Nobody
  BY <1>1, ChatAssumption DEF Base, PageInv
<1>5. t \notin WholeOf(q) /\ WholeOf(q)' = WholeOf(q)
  <2>1. t \notin WholeOf(q)
    BY <1>4 DEF WholeOf, Whole
  <2>2. \A u \in Turns : u # t => sender'[u] = sender[u] /\ server'[u] = server[u] /\ result'[u] = result[u]
    BY <1>1, <1>2, <1>3
  <2>3. ASSUME NEW u \in Turns PROVE (u \in Own(q) /\ Whole(u))' <=> u \in Own(q) /\ Whole(u)
    <3>1. CASE u = t
      BY <1>2, <1>4, <3>1 DEF Whole
    <3>2. CASE u # t
      BY <2>2, <3>2 DEF Own, Whole
    <3> QED
      BY <3>1, <3>2
  <2> QED
    BY <2>1, <2>3 DEF WholeOf, Own
<1>6. CASE q # p
  <2>1. busy'[q] = busy[q] /\ shown'[q] = shown[q]
    BY <1>1, <1>3, <1>6
  <2> QED
    BY <1>2, <1>5, <2>1, SameOrdered
<1>7. CASE q = p
  <2> DEFINE W == WholeOf(p)
             s == shown[p]
             v == <<Asked(t)>>
             X == OfKind(Kinds)
             U == W \cup {t}
             T == {t}
  <2>1. Texts(T, s) = <<>> /\ Only(s, EventsOf(t)) = <<>> /\ Splits(U, W, T, s) /\ Splits(U, W, T, history)
    BY <1>1, <1>3, NothingSaid
  <2>2. /\ s \in Seq(X) /\ v \in Seq(X)
        /\ Asked(t) \in X /\ Append(s, Asked(t)) = s \o v
    BY StoredBase, SingleSeq, AppendIsConcat
  <2>3. Texts(W, v) = <<>> /\ Texts(U, v) = v /\ Texts(T, v) = v
    BY <1>5, <1>7, TextsAsked
  <2>4. shown'[p] = s \o v /\ busy'[p] = t
    BY <1>1, <1>3, <2>2
  <2>5. Splits(U, W, T, s \o v)
    <3>1. s \in Seq(X) /\ v \in Seq(X) /\ Texts(W, v) = <<>> /\ Texts(U, v) = Texts(T, v) /\ Splits(U, W, T, s)
      BY <2>1, <2>2, <2>3
    <3> HIDE DEF W, s, v, X, U, T
    <3> QED
      BY <3>1, ApartAfter
  <2>6. Texts(W, s \o v) = Texts(W, s)
    <3>1. Texts(W, s \o v) = Texts(W, s) \o Texts(W, v)
      <4> HIDE DEF W, s, v, X
      <4> QED
        BY <2>2, TextsConcat
    <3>2. Texts(W, s) \in Seq(X)
      BY <2>2, TextsType
    <3> HIDE DEF W, s, v, X
    <3> QED
      BY <2>3, <3>1, <3>2, ConcatEmptySeq
  <2>7. Texts(T, s \o v) = v
    <3>1. Texts(T, s \o v) = Texts(T, s) \o Texts(T, v)
      <4> HIDE DEF T, s, v, X
      <4> QED
        BY <2>2, TextsConcat
    <3> HIDE DEF T, s, v, X
    <3> QED
      BY <2>1, <2>2, <2>3, <3>1, ConcatEmptySeq
  <2>8. v \o TextsOf(Only(s \o v, EventsOf(t))) = v
    <3>1. Asked(t) \notin EventsOf(t)
      BY DEF Asked, Event, EventsOf, Sendable
    <3>2. Only(s \o v, EventsOf(t)) = <<>>
      <4>1. Only(Append(s, Asked(t)), EventsOf(t)) = Only(s, EventsOf(t))
        <5> HIDE DEF s, v, X
        <5> QED
          BY <2>2, <3>1, OnlyMore
      <4> QED
        BY <2>1, <2>2, <4>1
    <3>3. TextsOf(<<>>) = <<>>
      BY OnlyEmpty DEF TextsOf
    <3> HIDE DEF s, v, X
    <3> QED
      BY <2>2, <3>2, <3>3, ConcatEmptySeq
  <2>9. Texts(W, s) = Texts(W, history)
    BY OrderIs DEF Ordered
  <2>10. WholeOf(p)' = W /\ history' = history
    BY <1>2, <1>5, <1>7
  <2>11. /\ Texts(W, shown'[p]) = Texts(W, history')
         /\ Texts(U, shown'[p]) = Texts(W, shown'[p]) \o Texts(T, shown'[p])
         /\ Texts(U, history') = Texts(W, history') \o Texts(T, history')
         /\ Texts(T, shown'[p]) = v \o TextsOf(Only(shown'[p], EventsOf(t)))
    <3> HIDE DEF W, s, v, U, T
    <3> QED
      BY <2>1, <2>4, <2>5, <2>6, <2>7, <2>8, <2>9, <2>10 DEF Splits
  <2> QED
    BY <1>7, <2>4, <2>10, <2>11 DEF Ordered
<1> QED
  BY <1>6, <1>7

\* Nothing is said in no turn.
LEMMA TextsNobody == ASSUME NEW X, NEW s \in Seq(X) PROVE Texts({}, s) = <<>>
<1>1. \A i \in 1..Len(s) : s[i] \notin Said({})
  BY DEF Said
<1> QED
  BY <1>1, TextsNothing

\* A note is said in no turn and is of no stream.
LEMMA NoteFacts ==
  ASSUME NEW t \in Turns
  PROVE  /\ Note(t) \in OfKind(Kinds) /\ <<Note(t)>> \in Seq(OfKind(Kinds))
         /\ \A T : Note(t) \notin Said(T)
         /\ \A u : Note(t) \notin EventsOf(u)
<1>1. Note(t) \in OfKind(Kinds)
  BY DEF Note, Event, OfKind, Kinds
<1>2. <<Note(t)>> \in Seq(OfKind(Kinds))
  BY <1>1, SingleSeq
<1>3. \A T : Note(t) \notin Said(T)
  BY DEF Note, Event, Said
<1>4. \A u : Note(t) \notin EventsOf(u)
  BY DEF Note, Event, EventsOf, Sendable
<1> QED
  BY <1>1, <1>2, <1>3, <1>4

\* A turn that is read to its end is shown as it is stored.
LEMMA AtEnd ==
  ASSUME Base, StreamInv, BufferInv, StoredInv, OrderInv, NEW p \in Pages,
         busy[p] # 0, server[busy[p]] = "closed", wire[busy[p]] = <<>>
  PROVE  Texts({busy[p]}, shown[p]) = Texts({busy[p]}, history)
<1> DEFINE t == busy[p]
<1>1. t \in Turns /\ t # 0 /\ buffer[p] \in Seq(BytesOf(t)) /\ sent[t] \in Seq(EventsOf(t)) /\ shown[p] \in Seq(KnownEvents)
  BY DEF Base, TypeInv
<1>2. buffer[p] \o wire[t] = buffer[p]
  BY <1>1, ConcatEmptySeq
<1>3. Events(buffer[p]) = <<>>
  BY <1>1, NoFrame DEF BufferInv
<1>4. Visible(<<>>) = <<>>
  BY OnlyEmpty DEF Visible
<1>5. Only(shown[p], EventsOf(t)) \o <<>> = Visible(sent[t])
  <2>1. Streaming(p)
    BY StreamIs
  <2>2. Only(shown[p], EventsOf(t)) \o Visible(Events(buffer[p] \o wire[t])) = Visible(sent[t])
    BY <1>1, <2>1 DEF Streaming
  <2> QED
    BY <1>2, <1>3, <1>4, <2>2
<1>6. Only(shown[p], EventsOf(t)) \in Seq(EventsOf(t))
  BY <1>1, OnlyPart
<1>7. Only(shown[p], EventsOf(t)) = Visible(sent[t])
  BY <1>5, <1>6, ConcatEmptySeq
<1>8. TextsOf(Visible(sent[t])) = TextsOf(sent[t])
  BY <1>1, TextsOfTexts
<1>9. Texts({t}, shown[p]) = <<Asked(t)>> \o TextsOf(Only(shown[p], EventsOf(t)))
  BY <1>1, OrderIs DEF Ordered
<1>10. Texts({t}, history) = <<Asked(t)>> \o TextsOf(sent[t])
  BY <1>1, StoredIs DEF Stored, Reply
<1> QED
  BY <1>7, <1>8, <1>9, <1>10

\* The order, when a stream stops: the turn joins those that are read, or does not.
LEMMA StopOrder ==
  ASSUME Base, StreamInv, BufferInv, StoredInv, OrderInv,
         NEW p \in Pages, End(p) \/ Refused(p) \/ Drop(p), NEW q \in Pages
  PROVE  Ordered(q)'
<1> DEFINE t == busy[p]
<1>1. t \in Turns /\ t # 0 /\ sender[t] = p /\ result[t] = "none"
  BY DEF Base, TypeInv, PageInv, End, Refused, Drop
<1>2. /\ DOMAIN shown = Pages /\ DOMAIN busy = Pages /\ DOMAIN result = Turns
      /\ shown[p] \in Seq(OfKind(Kinds)) /\ history \in Seq(OfKind(Kinds))
  BY StoredBase DEF Base, TypeInv
<1>3. UNCHANGED <<history, sender, server>> /\ busy' = [busy EXCEPT ![p] = 0]
  BY DEF End, Refused, Drop, Stop
<1>4. PICK how \in {"read", "refused", "lost"} :
        /\ result' = [result EXCEPT ![t] = how]
        /\ how = "read" => shown' = [shown EXCEPT ![p] = @ \o <<>>] /\ wire[t] = <<>>
        /\ how # "read" => shown' = [shown EXCEPT ![p] = @ \o <<Note(t)>>]
  BY DEF End, Refused, Drop, Stop
<1>5. Ordered(q) /\ Ordered(p)
  BY OrderIs
<1>6. CASE q # p
  <2>1. busy'[q] = busy[q] /\ shown'[q] = shown[q]
    BY <1>2, <1>3, <1>4, <1>6
  <2>2. ASSUME NEW u \in Turns PROVE (u \in Own(q) /\ Whole(u))' <=> u \in Own(q) /\ Whole(u)
    <3>1. CASE u = t
      BY <1>1, <1>3, <1>6, <3>1 DEF Own
    <3>2. CASE u # t
      <4>1. result'[u] = result[u]
        BY <1>2, <1>4, <3>2
      <4> QED
        BY <1>3, <4>1 DEF Own, Whole
    <3> QED
      BY <3>1, <3>2
  <2>3. WholeOf(q)' = WholeOf(q)
    BY <2>2 DEF WholeOf, Own
  <2> QED
    BY <1>3, <2>1, <2>3, SameOrdered
<1>7. CASE q = p
  <2>1. busy'[p] = 0
    BY <1>2, <1>3
  <2>2. \A T : Texts(T, shown'[p]) = Texts(T, shown[p])
    <3>1. CASE how = "read"
      <4>1. shown'[p] = shown[p] \o <<>>
        BY <1>2, <1>4, <3>1
      <4> QED
        BY <1>2, <4>1, ConcatEmptySeq
    <3>2. CASE how # "read"
      <4> DEFINE v == <<Note(t)>>
                 s == shown[p]
                 X == OfKind(Kinds)
      <4>1. shown'[p] = s \o v /\ s \in Seq(X) /\ v \in Seq(X)
        BY <1>1, <1>2, <1>4, <3>2, NoteFacts
      <4>2. TAKE T
      <4>3. \A i \in 1..Len(v) : v[i] \notin Said(T)
        BY <1>1, NoteFacts
      <4>4. Texts(T, s \o v) = Texts(T, s)
        <5> HIDE DEF s, v, X
        <5> QED
          BY <4>1, <4>3, Apart
      <4> QED
        BY <4>1, <4>4
    <3> QED
      BY <3>1, <3>2
  <2> DEFINE W == WholeOf(p)
  <2>3. WholeOf(p)' = IF how = "read" /\ server[t] = "closed" THEN W \cup {t} ELSE W
    <3>1. ASSUME NEW u \in Turns
          PROVE  (u \in Own(p) /\ Whole(u))' <=>
                   (u \in Own(p) /\ Whole(u)) \/ (u = t /\ how = "read" /\ server[t] = "closed")
      <4>1. CASE u = t
        <5>1. result'[u] = how /\ sender'[u] = p /\ server'[u] = server[t]
          BY <1>1, <1>2, <1>3, <1>4, <4>1
        <5> QED
          BY <1>1, <4>1, <5>1 DEF Own, Whole
      <4>2. CASE u # t
        <5>1. result'[u] = result[u]
          BY <1>2, <1>4, <4>2
        <5> QED
          BY <1>3, <4>2, <5>1 DEF Own, Whole
      <4> QED
        BY <4>1, <4>2
    <3> QED
      BY <1>1, <3>1 DEF WholeOf, Own
  <2>4. Texts(W, shown[p]) = Texts(W, history)
    BY <1>5 DEF Ordered
  <2>5. ASSUME how = "read", server[t] = "closed"
        PROVE  Texts(W \cup {t}, shown[p]) = Texts(W \cup {t}, history)
    <3>1. /\ Texts(W \cup {t}, shown[p]) = Texts(W, shown[p]) \o Texts({t}, shown[p])
          /\ Texts(W \cup {t}, history) = Texts(W, history) \o Texts({t}, history)
      BY <1>1, <1>5 DEF Ordered
    <3>2. Texts({t}, shown[p]) = Texts({t}, history)
      BY <1>1, <1>4, <2>5, AtEnd
    <3> QED
      BY <2>4, <3>1, <3>2
  <2>6. Texts(WholeOf(p)', shown[p]) = Texts(WholeOf(p)', history)
    BY <2>3, <2>4, <2>5
  <2> QED
    BY <1>3, <1>7, <2>1, <2>2, <2>6 DEF Ordered
<1> QED
  BY <1>6, <1>7

\* The order, for the history: it is shown by a page that has sent nothing.
LEMMA HistoryOrder ==
  ASSUME Base, OrderInv, NEW p \in Pages, ReadHistory(p) \/ ShowHistory(p) \/ LoseHistory(p), NEW q \in Pages
  PROVE  Ordered(q)'
<1>1. UNCHANGED <<busy, history, sender, result, server>>
  BY DEF ReadHistory, ShowHistory, LoseHistory, turns
<1>2. WholeOf(q)' = WholeOf(q)
  BY <1>1, SameWhole
<1>3. /\ DOMAIN shown = Pages /\ fetch[p].rows \in Seq(KnownEvents) /\ history \in Seq(KnownEvents)
      /\ busy[p] \in Turns \cup {0}
  BY DEF Base, TypeInv
<1>4. CASE shown'[q] = shown[q]
  BY <1>1, <1>2, <1>4, SameOrdered
<1>5. CASE shown'[q] # shown[q]
  <2>1. q = p /\ shown[p] = <<>> /\ shown'[p] = fetch[p].rows
    BY <1>3, <1>5 DEF ReadHistory, ShowHistory, LoseHistory
  <2>2. Own(p) = {}
    <3>1. ASSUME NEW t \in Own(p) PROVE FALSE
      <4>1. Contains(shown[p], Asked(t))
        BY DEF Base, PageInv
      <4> QED
        BY <2>1, <4>1, EmptySeq DEF Contains
    <3> QED
      BY <3>1
  <2>3. busy[p] = 0
    <3>1. busy[p] # 0 => busy[p] \in Own(p)
      BY <1>3 DEF Base, PageInv, Own
    <3> QED
      BY <2>2, <3>1
  <2>4. WholeOf(p) = {}
    BY <2>2 DEF WholeOf
  <2>5. Texts({}, fetch[p].rows) = <<>> /\ Texts({}, history) = <<>>
    BY <1>3, TextsNobody
  <2> QED
    BY <1>1, <1>2, <2>1, <2>3, <2>4, <2>5 DEF Ordered
<1> QED
  BY <1>4, <1>5

\* The order, for a reload: the page has sent nothing.
LEMMA ReloadOrder ==
  ASSUME Base, OrderInv, NEW p \in Pages, Reload(p), NEW q \in Pages PROVE Ordered(q)'
<1>1. /\ DOMAIN shown = Pages /\ DOMAIN busy = Pages /\ history \in Seq(KnownEvents)
  BY DEF Base, TypeInv
<1>2. /\ UNCHANGED <<history, sender, server>>
      /\ shown' = [shown EXCEPT ![p] = <<>>] /\ busy' = [busy EXCEPT ![p] = 0]
      /\ \A u \in Turns : result'[u] = IF sender[u] = p THEN "reloaded" ELSE result[u]
  BY DEF Reload
<1>3. CASE q = p
  <2>1. WholeOf(p)' = {}
    BY <1>2 DEF WholeOf, Own
  <2>2. Texts({}, <<>>) = <<>> /\ Texts({}, history) = <<>>
    BY <1>1, TextsNobody, EmptySeq
  <2>3. busy'[p] = 0 /\ shown'[p] = <<>>
    BY <1>1, <1>2
  <2> QED
    BY <1>2, <1>3, <2>1, <2>2, <2>3 DEF Ordered
<1>4. CASE q # p
  <2>1. ASSUME NEW u \in Turns PROVE (u \in Own(q) /\ Whole(u))' <=> u \in Own(q) /\ Whole(u)
    BY <1>2, <1>4 DEF Own, Whole
  <2>2. WholeOf(q)' = WholeOf(q)
    BY <2>1 DEF WholeOf, Own
  <2>3. busy'[q] = busy[q] /\ shown'[q] = shown[q]
    BY <1>1, <1>2, <1>4
  <2> QED
    BY <1>2, <2>2, <2>3, SameOrdered
<1> QED
  BY <1>3, <1>4

\* The order, for decisions: notes are not said.
LEMMA DecisionOrder ==
  ASSUME Base, OrderInv, NEW q \in Pages,
         Resolve \/ Undelivered \/ (\E p \in Pages : Decide(p)) \/ (\E t \in Turns : Expire(t))
  PROVE  Ordered(q)'
<1>1. UNCHANGED <<busy, history, sender, result, server>>
  BY DEF Resolve, Undelivered, Decide, Expire, page, turns
<1>2. WholeOf(q)' = WholeOf(q)
  BY <1>1, SameWhole
<1>3. CASE shown'[q] = shown[q]
  BY <1>1, <1>2, <1>3, SameOrdered
<1>4. CASE shown'[q] # shown[q]
  <2>1. PICK x \in posts : shown'[q] = shown[q] \/ shown'[q] = Append(shown[q], Note(x.turn))
    BY <1>4 DEF Resolve, Undelivered, Decide, Expire, page
  <2>2. x.turn \in Turns
    BY DEF Base, TypeInv
  <2> DEFINE v == <<Note(x.turn)>>
             X == OfKind(Kinds)
  <2>3. /\ v \in Seq(X) /\ Note(x.turn) \in X /\ shown[q] \in Seq(X)
        /\ \A i \in 1..Len(v) : v[i] \notin Said(WholeOf(q))
        /\ \A i \in 1..Len(v) : v[i] \notin Said({busy[q]})
        /\ \A i \in 1..Len(v) : v[i] \notin EventsOf(busy[q])
    BY <2>2, NoteFacts, StoredBase
  <2>4. shown'[q] = shown[q] \o v
    <3>1. Append(shown[q], Note(x.turn)) = shown[q] \o v
      BY <2>3, AppendIsConcat
    <3> QED
      BY <1>4, <2>1, <3>1
  <2>5. Texts({busy[q]}, v) = TextsOf(Only(v, EventsOf(busy[q])))
    <3>1. Texts({busy[q]}, v) = <<>>
      <4> HIDE DEF v, X
      <4> QED
        BY <2>3, TextsNothing
    <3>2. Only(v, EventsOf(busy[q])) = <<>>
      <4> HIDE DEF v, X
      <4> QED
        BY <2>3, OnlyNone
    <3>3. TextsOf(<<>>) = <<>>
      BY OnlyEmpty DEF TextsOf
    <3> QED
      BY <3>1, <3>2, <3>3
  <2>6. v \in Seq(OfKind(Kinds)) /\ \A i \in 1..Len(v) : v[i] \notin Said(WholeOf(q))
    BY <2>3
  <2> HIDE DEF v
  <2> QED
    BY <1>1, <1>2, <2>4, <2>5, <2>6, AddsShown
<1> QED
  BY <1>3, <1>4

\* The order's invariant holds at the start ...
LEMMA InitOrder == Init => OrderInv
  BY DEF Init, OrderInv, Own

\* ... and is kept by every step.
LEMMA NextOrder == Base /\ StreamInv /\ BufferInv /\ StoredInv /\ OrderInv /\ [Next]_vars => OrderInv'
<1> SUFFICES ASSUME Base, StreamInv, BufferInv, StoredInv, OrderInv, [Next]_vars, NEW q \in Pages PROVE Ordered(q)'
  BY DEF OrderInv, Ordered, WholeOf
<1>1. CASE UNCHANGED vars
  <2>1. UNCHANGED <<busy, shown, history, sender, result, server>>
    BY <1>1 DEF vars, page, turns
  <2> QED
    BY <2>1, SameWhole, SameOrdered
<1>2. CASE Next
  <2>1. CASE \E t \in Turns : Open(t) \/ Emit(t) \/ Close(t) \/ Disconnect(t)
    BY <2>1, ServerOrder
  <2>2. CASE \E p \in Pages : Send(p)
    BY <2>2, SendOrder
  <2>3. CASE \E p \in Pages : Read(p)
    BY <2>3, ReadOrder
  <2>4. CASE \E p \in Pages : End(p) \/ Refused(p) \/ Drop(p)
    BY <2>4, StopOrder
  <2>5. CASE \E p \in Pages : ReadHistory(p) \/ ShowHistory(p) \/ LoseHistory(p)
    BY <2>5, HistoryOrder
  <2>6. CASE \E p \in Pages : Reload(p)
    BY <2>6, ReloadOrder
  <2>7. CASE Resolve \/ Undelivered \/ (\E p \in Pages : Decide(p)) \/ (\E t \in Turns : Expire(t))
    BY <2>7, DecisionOrder
  <2> QED
    BY <1>2, <2>1, <2>2, <2>3, <2>4, <2>5, <2>6, <2>7 DEF Next
<1> QED
  BY <1>1, <1>2

\* The inductive invariant of what pages show.
PageIInv == Base /\ StreamInv /\ BufferInv /\ StoredInv /\ OrderInv

\* For any number of pages, turns, reloads and lost connections, a page keeps
\* showing what the user sent from it, and shows of the turns it read to their
\* end what a reload would show, in the same order: ShownIsStored (ChatWindow.tsx
\* 24-31, chat.py 57-69).
THEOREM PageShowsWhatIsStored == Spec => []ShownIsStored
<1>1. Init => PageIInv
  BY InitBase, InitStream, InitBuffer, InitStored, InitOrder DEF PageIInv
<1>2. PageIInv /\ [Next]_vars => PageIInv'
  BY NextBase, NextStream, NextBuffer, NextStored, NextOrder DEF PageIInv
<1>3. PageIInv => ShownIsStored
  BY DEF PageIInv, Base, PageInv, OrderInv, ShownIsStored
<1> QED
  BY <1>1, <1>2, <1>3, PTL DEF Spec

-----------------------------------------------------------------------------
(* Decisions: the inductive invariant.                                     *)

\* A request says what the card it was sent from says, and so does the answer
\* the gate took from it: a card that says something is never decided again.
DecisionInv ==
  /\ DOMAIN decision = Turns /\ DOMAIN answers = Turns
  /\ \A x \in posts : x.turn \in Turns /\ decision[x.turn] = x.answer /\ x.answer # "none"
  /\ \A t \in Turns : answers[t] # {} => answers[t] = {decision[t]} /\ decision[t] # "none"

\* It is about the cards, the requests and the gate alone.
LEMMA OthersKeep ==
  ASSUME DecisionInv, UNCHANGED <<decision, posts, answers>> PROVE DecisionInv'
  BY DEF DecisionInv

\* A card is decided once, before the gate can have been asked.
LEMMA DecideKeeps ==
  ASSUME DecisionInv, NEW p \in Pages, Decide(p) PROVE DecisionInv'
<1>1. PICK t \in Turns, a \in Gate!Answers :
        /\ decision[t] = "none"
        /\ decision' = [decision EXCEPT ![t] = a]
        /\ posts' = posts \cup {[turn |-> t, answer |-> a]}
        /\ UNCHANGED answers
  BY DEF Decide, gate
<1>2. a # "none"
  BY DEF Gate!Answers
<1>3. \A x \in posts : x.turn # t
  BY <1>1 DEF DecisionInv
<1>4. answers[t] = {}
  BY <1>1 DEF DecisionInv
<1> QED
  BY <1>1, <1>2, <1>3, <1>4 DEF DecisionInv

\* A request is answered, or it is lost before or after it was.
LEMMA DeliveryKeeps ==
  ASSUME DecisionInv, Resolve \/ Undelivered PROVE DecisionInv'
<1>1. PICK x \in posts :
        /\ posts' = posts \ {x} /\ UNCHANGED decision
        /\ Gate!Answer(x.turn, x.answer) \/ UNCHANGED answers
  BY DEF Resolve, Undelivered, gate, page
<1>2. \/ UNCHANGED answers
      \/ answers' = [answers EXCEPT ![x.turn] = {x.answer}]
  BY <1>1 DEF Gate!Answer
<1> QED
  BY <1>1, <1>2 DEF DecisionInv

\* The steps of the streams and of the history have no part in it.
LEMMA StreamKeeps ==
  ASSUME DecisionInv, NEW t \in Turns,
         Open(t) \/ Emit(t) \/ Close(t) \/ Disconnect(t) \/ Expire(t)
  PROVE  DecisionInv'
<1>1. UNCHANGED <<decision, posts, answers>>
  BY DEF Open, Emit, Close, Disconnect, Expire, page, gate, Gate!Open, Gate!Close
<1> QED
  BY <1>1, OthersKeep

LEMMA PageKeeps ==
  ASSUME DecisionInv, NEW p \in Pages,
         \/ Send(p) \/ Read(p) \/ End(p) \/ Refused(p) \/ Drop(p)
         \/ ReadHistory(p) \/ ShowHistory(p) \/ LoseHistory(p) \/ Reload(p)
  PROVE  DecisionInv'
<1>1. UNCHANGED <<decision, posts, answers>>
  BY DEF Send, Read, End, Refused, Drop, Stop, ReadHistory, ShowHistory, LoseHistory,
         Reload, gate
<1> QED
  BY <1>1, OthersKeep

\* The invariant of decisions holds, for any number of pages, turns and reloads
\* (ChatWindow.tsx 95-116, approvals.py 18-29).
THEOREM Invariance == Spec => []DecisionInv
<1>1. Init => DecisionInv
  BY DEF Init, DecisionInv, Gate!LedgerInit
<1>2. DecisionInv /\ [Next]_vars => DecisionInv'
  <2> SUFFICES ASSUME DecisionInv, [Next]_vars PROVE DecisionInv'
    OBVIOUS
  <2>1. CASE UNCHANGED vars
    BY <2>1, OthersKeep DEF vars, page, gate
  <2> QED
    BY <2>1, StreamKeeps, PageKeeps, DecideKeeps, DeliveryKeeps DEF Next
<1> QED
  BY <1>1, <1>2, PTL DEF Spec

\* An answer the gate accepted is the one the user's card shows, whichever
\* requests are lost, late or refused (ChatWindow.tsx 95-109).
THEOREM AcceptedAnswerIsShown == Spec => []AckedIsShown
<1>1. DecisionInv => AckedIsShown
  BY DEF DecisionInv, AckedIsShown
<1> QED
  BY <1>1, Invariance, PTL
=============================================================================
