--------------------------- MODULE DurationProofs ---------------------------
(***************************************************************************)
(* Proofs about Duration: every text reads as a number, and a duration     *)
(* that was written reads as itself or not at all.  The sums of Total are  *)
(* folds, which are recursive functions on the subsets of a finite set;    *)
(* that there is such a function is shown for the subsets of one size      *)
(* after the other.                                                        *)
(***************************************************************************)
EXTENDS Duration, FiniteSetTheorems, SequenceTheorems, WellFoundedInduction,
        TLAPS

-----------------------------------------------------------------------------
(* Folds.                                                                  *)

pick(s) == CHOOSE x \in s : TRUE

\* g adds up v over the subsets in D.
IsFold(g, D, v) ==
  g = [s \in D |-> IF s = {} THEN 0 ELSE g[s \ {pick(s)}] + v[pick(s)]]

\* A property of all numbers fails first at some number.
LEMMA FirstNumber ==
  ASSUME NEW B \in SUBSET Nat, B # {}
  PROVE  \E n \in B : \A m \in 0 .. n - 1 : m \notin B
<1>1. IsWellFoundedOn(OpToRel(<, Nat), Nat)
  BY NatLessThanWellFounded
<1>2. PICK n \in B : \A m \in B : ~(<<m, n>> \in OpToRel(<, Nat))
  BY <1>1, WFMin, Zenon
<1>3. \A m \in 0 .. n - 1 : m < n /\ m \in Nat
  OBVIOUS
<1> QED
  BY <1>2, <1>3 DEF OpToRel

\* There is a sum over all subsets of a finite set.
LEMMA FoldExists ==
  ASSUME NEW S, IsFiniteSet(S), NEW v
  PROVE  \E g : IsFold(g, SUBSET S, v)
<1> DEFINE D(n) == {s \in SUBSET S : Cardinality(s) <= n}
           P(n) == \E g : IsFold(g, D(n), v)
           B == {n \in Nat : ~P(n)}
<1>1. \A s \in SUBSET S : IsFiniteSet(s) /\ Cardinality(s) \in Nat
                         /\ Cardinality(s) <= Cardinality(S)
  BY FS_Subset, FS_CardinalityType
<1>2. ASSUME NEW n \in Nat, n = 0 \/ P(n - 1)
      PROVE  P(n)
  <2>1. \A s \in D(n) : s # {} =>
          /\ pick(s) \in s
          /\ s \ {pick(s)} \in SUBSET S
          /\ Cardinality(s \ {pick(s)}) = Cardinality(s) - 1
          /\ Cardinality(s) \in Nat /\ Cardinality(s) # 0
    <3> SUFFICES ASSUME NEW s \in D(n), s # {}
                 PROVE  /\ pick(s) \in s
                        /\ s \ {pick(s)} \in SUBSET S
                        /\ Cardinality(s \ {pick(s)}) = Cardinality(s) - 1
                        /\ Cardinality(s) \in Nat /\ Cardinality(s) # 0
      OBVIOUS
    <3>1. pick(s) \in s
      BY DEF pick
    <3>2. s \in SUBSET S /\ IsFiniteSet(s) /\ Cardinality(s) \in Nat
      BY <1>1
    <3>3. Cardinality(s \ {pick(s)}) = Cardinality(s) - 1
      BY <3>1, <3>2, FS_RemoveElement
    <3>4. Cardinality(s) # 0
      BY <3>2, FS_EmptySet
    <3> QED
      BY <3>1, <3>2, <3>3, <3>4
  <2>2. CASE n = 0
    <3>1. \A s \in D(n) : s = {}
      <4>1. \A s \in D(n) : Cardinality(s) <= 0
        BY <2>2
      <4>2. \A c \in Nat : c # 0 => ~(c <= 0)
        OBVIOUS
      <4> HIDE DEF D
      <4> QED
        BY <2>1, <4>1, <4>2
    <3> DEFINE g == [s \in D(n) |-> 0]
    <3>2. g = [s \in D(n) |-> IF s = {} THEN 0
                              ELSE g[s \ {pick(s)}] + v[pick(s)]]
      BY <3>1
    <3> QED
      BY <3>2 DEF IsFold
  <2>3. CASE n # 0
    <3>1. n - 1 \in Nat
      BY <2>3
    <3>2. PICK g : IsFold(g, D(n - 1), v)
      BY <1>2, <2>3
    <3> DEFINE h == [s \in D(n) |-> IF s = {} THEN 0
                                    ELSE g[s \ {pick(s)}] + v[pick(s)]]
    <3>3. ASSUME NEW s \in D(n), s # {}
          PROVE  h[s \ {pick(s)}] = g[s \ {pick(s)}]
      <4> DEFINE t == s \ {pick(s)}
      <4>1. Cardinality(s) <= n /\ n \in Nat
        OBVIOUS
      <4>2. /\ t \in SUBSET S /\ Cardinality(t) = Cardinality(s) - 1
            /\ Cardinality(s) \in Nat
        BY <2>1, <3>3
      <4> HIDE DEF t
      <4>3. t \in D(n) /\ t \in D(n - 1)
        BY <4>1, <4>2
      <4>4. g[t] = IF t = {} THEN 0 ELSE g[t \ {pick(t)}] + v[pick(t)]
        <5> HIDE DEF D
        <5>1. g = [x \in D(n - 1) |-> IF x = {} THEN 0
                                      ELSE g[x \ {pick(x)}] + v[pick(x)]]
          BY <3>2 DEF IsFold
        <5> QED
          BY <4>3, <5>1
      <4>5. h[t] = IF t = {} THEN 0 ELSE g[t \ {pick(t)}] + v[pick(t)]
        BY <4>3
      <4>6. h[t] = g[t]
        BY <4>4, <4>5
      <4> QED
        BY <4>6 DEF t
    <3> DEFINE E == D(n)
    <3>4. h = [s \in E |-> IF s = {} THEN 0 ELSE h[s \ {pick(s)}] + v[pick(s)]]
      <4>1. h = [s \in E |-> IF s = {} THEN 0
                             ELSE g[s \ {pick(s)}] + v[pick(s)]]
        OBVIOUS
      <4>2. \A s \in E : s # {} => h[s \ {pick(s)}] = g[s \ {pick(s)}]
        BY <3>3
      <4> HIDE DEF h, E, D
      <4> QED
        BY <4>1, <4>2
    <3> HIDE DEF h
    <3> QED
      BY <3>4 DEF IsFold
  <2> QED
    BY <2>2, <2>3
<1>3. B = {}
  <2> SUFFICES ASSUME B # {}
               PROVE  FALSE
    OBVIOUS
  <2> HIDE DEF P
  <2>1. PICK n \in B : \A m \in 0 .. n - 1 : m \notin B
    <3>1. B \in SUBSET Nat
      OBVIOUS
    <3> HIDE DEF B
    <3> QED
      BY <3>1, FirstNumber
  <2>2. n = 0 \/ P(n - 1)
    <3>1. n # 0 => n - 1 \in 0 .. n - 1 /\ n - 1 \in Nat
      OBVIOUS
    <3> QED
      BY <2>1, <3>1
  <2> QED
    BY <1>2, <2>1, <2>2
<1>4. P(Cardinality(S)) /\ D(Cardinality(S)) = SUBSET S
  <2>1. Cardinality(S) \in Nat
    BY <1>1
  <2>2. D(Cardinality(S)) = SUBSET S
    BY <1>1
  <2> HIDE DEF P, D
  <2> QED
    BY <1>3, <2>1, <2>2
<1> QED
  BY <1>4

\* Such a sum of integers is an integer.
LEMMA FoldTyped ==
  ASSUME NEW S, IsFiniteSet(S), NEW v, \A i \in S : v[i] \in Int,
         NEW g, IsFold(g, SUBSET S, v)
  PROVE  g[S] \in Int
<1> DEFINE B == {s \in SUBSET S : g[s] \notin Int}
<1>1. ASSUME NEW s \in SUBSET S
      PROVE  g[s] = IF s = {} THEN 0 ELSE g[s \ {pick(s)}] + v[pick(s)]
  <2>1. g = [x \in SUBSET S |-> IF x = {} THEN 0
                                ELSE g[x \ {pick(x)}] + v[pick(x)]]
    BY DEF IsFold
  <2> QED
    BY <2>1
<1>2. B = {}
  <2> SUFFICES ASSUME B # {}
               PROVE  FALSE
    OBVIOUS
  <2>1. B \subseteq FiniteSubsetsOf(S)
    BY FS_Subset DEF FiniteSubsetsOf
  <2>2. PICK s \in B : \A t \in B : ~(<<t, s>> \in StrictSubsetOrdering(S))
    <3> HIDE DEF B
    <3> QED
      BY <2>1, FS_StrictSubsetOrderingWellFounded, WFMin, Zenon
  <2>3. s # {}
    <3>0. {} \in SUBSET S
      OBVIOUS
    <3>1. g[{}] = 0
      BY <1>1, <3>0, Zenon
    <3>2. g[s] \notin Int
      BY <2>2
    <3>3. 0 \in Int
      OBVIOUS
    <3> HIDE DEF B
    <3> QED
      BY <3>1, <3>2, <3>3, Zenon
  <2>4. pick(s) \in s
    BY <2>3 DEF pick
  <2> DEFINE t == s \ {pick(s)}
  <2>5. t \notin B
    <3>1. /\ t \in SUBSET S /\ s \in SUBSET S /\ t \subseteq s /\ t # s
          /\ IsFiniteSet(s) /\ IsFiniteSet(t)
      BY <2>4, FS_Subset
    <3> HIDE DEF t
    <3>2. <<t, s>> \in StrictSubsetOrdering(S)
      BY <3>1 DEF StrictSubsetOrdering, FiniteSubsetsOf
    <3> QED
      BY <2>2, <3>2
  <2>6. g[t] \in Int /\ v[pick(s)] \in Int
    BY <2>4, <2>5
  <2>7. g[s] = g[t] + v[pick(s)]
    BY <1>1, <2>3
  <2> HIDE DEF t
  <2>8. g[s] \in Int
    BY <2>6, <2>7
  <2> QED
    BY <2>8
<1> QED
  BY <1>2

\* The sum over one element.
LEMMA FoldOne ==
  ASSUME NEW x, NEW v, v[x] \in Int, NEW g, IsFold(g, SUBSET {x}, v)
  PROVE  g[{x}] = v[x]
<1>1. ASSUME NEW s \in SUBSET {x}
      PROVE  g[s] = IF s = {} THEN 0 ELSE g[s \ {pick(s)}] + v[pick(s)]
  <2>1. g = [y \in SUBSET {x} |-> IF y = {} THEN 0
                                  ELSE g[y \ {pick(y)}] + v[pick(y)]]
    BY DEF IsFold
  <2> QED
    BY <2>1
<1>2. pick({x}) = x
  BY DEF pick
<1>3. g[{}] = 0
  BY <1>1
<1>4. {x} \ {x} = {} /\ {x} # {} /\ {x} \in SUBSET {x}
  OBVIOUS
<1>5. g[{x}] = g[{}] + v[x]
  BY <1>1, <1>2, <1>4
<1> QED
  BY <1>3, <1>5

-----------------------------------------------------------------------------
(* Total.                                                                  *)

\* The pieces that Total is given: those with a unit.
ReadPieces == [num : Int, unit : {"us", "ms", "s", "m", "h"}, gap : BOOLEAN]

\* A piece counts as a number of milliseconds, or of microseconds.
LEMMA PieceTyped ==
  ASSUME NEW p \in ReadPieces
  PROVE  Millis(p) \in Int /\ Micros(p) \in Int
<1>1. p.num \in Int /\ p.unit \in {"us", "ms", "s", "m", "h"}
  BY DEF ReadPieces
<1>2. Micros(p) \in Int
  BY <1>1 DEF Micros
<1>3. CASE p.unit = "us"
  BY <1>2, <1>3 DEF Millis
<1>4. CASE p.unit # "us"
  <2>1. Factor[p.unit] \in Int
    BY <1>1, <1>4 DEF Factor
  <2> QED
    BY <1>1, <1>2, <1>4, <2>1 DEF Millis
<1> QED
  BY <1>3, <1>4

\* Over the numbers up to len there is a sum, an integer, and that of the only
\* number there is.
SumsUp(S, len, v) ==
  /\ \E g : IsFold(g, SUBSET S, v)
  /\ \A g : IsFold(g, SUBSET S, v) => g[S] \in Int /\ (len = 1 => g[S] = v[1])

\* The sums over the pieces of a text, whatever of a piece is added up.
LEMMA FoldIs ==
  ASSUME NEW S, NEW len \in Nat, S = 1 .. len,
         NEW v, \A i \in S : v[i] \in Int
  PROVE  SumsUp(S, len, v)
<1>1. IsFiniteSet(S)
  BY FS_Interval
<1>2. ASSUME NEW g, IsFold(g, SUBSET S, v), len = 1
      PROVE  g[S] = v[1]
  <2>1. S = {1}
    BY <1>2
  <2>2. IsFold(g, SUBSET {1}, v) /\ v[1] \in Int
    BY <1>2, <2>1
  <2>3. g[{1}] = v[1]
    BY <2>2, FoldOne
  <2> QED
    BY <2>1, <2>3
<1> QED
  BY <1>1, <1>2, FoldExists, FoldTyped DEF SumsUp

\* The sum of the milliseconds of a text: an integer, and that of the piece
\* if there is one.
LEMMA MillisSum ==
  ASSUME NEW read \in Seq(ReadPieces)
  PROVE  LET sum == FoldSeq(LAMBDA p, t : t + Millis(p), 0, read) IN
         /\ sum \in Int
         /\ Len(read) = 1 => sum = Millis(read[1])
<1> DEFINE S == DOMAIN read
           v == [i \in S |-> Millis(read[i])]
           Raw(g) == g = [s \in SUBSET S |->
                           IF s = {} THEN 0
                           ELSE g[s \ {pick(s)}] + Millis(read[pick(s)])]
           fold == CHOOSE g : Raw(g)
           sum  == FoldSeq(LAMBDA p, t : t + Millis(p), 0, read)
<1>1. sum = fold[S]
  BY Zenon DEF FoldSeq, FoldFunction, FoldFunctionOnSet, MapThenFoldSet, pick
<1>2. S = 1 .. Len(read) /\ Len(read) \in Nat
  OBVIOUS
<1>3. \A i \in S : v[i] = Millis(read[i]) /\ v[i] \in Int
  BY PieceTyped
<1> HIDE DEF S, v
<1>4. \A g : Raw(g) <=> IsFold(g, SUBSET S, v)
  <2>1. \A s \in SUBSET S : s # {} => v[pick(s)] = Millis(read[pick(s)])
    BY <1>3 DEF pick
  <2> SUFFICES ASSUME NEW g
               PROVE  Raw(g) <=> IsFold(g, SUBSET S, v)
    OBVIOUS
  <2>2. [s \in SUBSET S |-> IF s = {} THEN 0
                            ELSE g[s \ {pick(s)}] + Millis(read[pick(s)])]
          = [s \in SUBSET S |-> IF s = {} THEN 0
                                ELSE g[s \ {pick(s)}] + v[pick(s)]]
    BY <2>1
  <2> QED
    BY <2>2 DEF IsFold
<1> HIDE DEF Raw
<1>5. /\ \E g : IsFold(g, SUBSET S, v)
      /\ \A g : IsFold(g, SUBSET S, v) =>
                 /\ g[S] \in Int
                 /\ Len(read) = 1 => g[S] = v[1]
  <2>1. \A i \in S : v[i] \in Int
    BY <1>3
  <2> DEFINE len == Len(read)
  <2>2. len \in Nat /\ S = 1 .. len
    BY <1>2
  <2> HIDE DEF len
  <2>3. SumsUp(S, len, v)
    BY <2>1, <2>2, FoldIs
  <2> QED
    BY <2>3 DEF len, SumsUp
<1>6. Raw(fold)
  <2>1. \E g : Raw(g)
    BY <1>4, <1>5
  <2> QED
    BY <2>1, Zenon
<1> HIDE DEF fold
<1>7. fold[S] \in Int /\ (Len(read) = 1 => fold[S] = v[1])
  BY <1>4, <1>5, <1>6
<1>8. Len(read) = 1 => v[1] = Millis(read[1])
  BY <1>2, <1>3
<1> HIDE DEF sum
<1>9. sum \in Int /\ (Len(read) = 1 => sum = Millis(read[1]))
  BY <1>1, <1>7, <1>8
<1> QED
  BY <1>9 DEF sum

\* The sum of the microseconds of a text: an integer, and that of the piece
\* if there is one.
LEMMA MicrosSum ==
  ASSUME NEW read \in Seq(ReadPieces)
  PROVE  LET sum == FoldSeq(LAMBDA p, t : t + Micros(p), 0, read) IN
         /\ sum \in Int
         /\ Len(read) = 1 => sum = Micros(read[1])
<1> DEFINE S == DOMAIN read
           v == [i \in S |-> Micros(read[i])]
           Raw(g) == g = [s \in SUBSET S |->
                           IF s = {} THEN 0
                           ELSE g[s \ {pick(s)}] + Micros(read[pick(s)])]
           fold == CHOOSE g : Raw(g)
           sum  == FoldSeq(LAMBDA p, t : t + Micros(p), 0, read)
<1>1. sum = fold[S]
  BY Zenon DEF FoldSeq, FoldFunction, FoldFunctionOnSet, MapThenFoldSet, pick
<1>2. S = 1 .. Len(read) /\ Len(read) \in Nat
  OBVIOUS
<1>3. \A i \in S : v[i] = Micros(read[i]) /\ v[i] \in Int
  BY PieceTyped
<1> HIDE DEF S, v
<1>4. \A g : Raw(g) <=> IsFold(g, SUBSET S, v)
  <2>1. \A s \in SUBSET S : s # {} => v[pick(s)] = Micros(read[pick(s)])
    BY <1>3 DEF pick
  <2> SUFFICES ASSUME NEW g
               PROVE  Raw(g) <=> IsFold(g, SUBSET S, v)
    OBVIOUS
  <2>2. [s \in SUBSET S |-> IF s = {} THEN 0
                            ELSE g[s \ {pick(s)}] + Micros(read[pick(s)])]
          = [s \in SUBSET S |-> IF s = {} THEN 0
                                ELSE g[s \ {pick(s)}] + v[pick(s)]]
    BY <2>1
  <2> QED
    BY <2>2 DEF IsFold
<1> HIDE DEF Raw
<1>5. /\ \E g : IsFold(g, SUBSET S, v)
      /\ \A g : IsFold(g, SUBSET S, v) =>
                 /\ g[S] \in Int
                 /\ Len(read) = 1 => g[S] = v[1]
  <2>1. \A i \in S : v[i] \in Int
    BY <1>3
  <2> DEFINE len == Len(read)
  <2>2. len \in Nat /\ S = 1 .. len
    BY <1>2
  <2> HIDE DEF len
  <2>3. SumsUp(S, len, v)
    BY <2>1, <2>2, FoldIs
  <2> QED
    BY <2>3 DEF len, SumsUp
<1>6. Raw(fold)
  <2>1. \E g : Raw(g)
    BY <1>4, <1>5
  <2> QED
    BY <2>1, Zenon
<1> HIDE DEF fold
<1>7. fold[S] \in Int /\ (Len(read) = 1 => fold[S] = v[1])
  BY <1>4, <1>5, <1>6
<1>8. Len(read) = 1 => v[1] = Micros(read[1])
  BY <1>2, <1>3
<1> HIDE DEF sum
<1>9. sum \in Int /\ (Len(read) = 1 => sum = Micros(read[1]))
  BY <1>1, <1>7, <1>8
<1> QED
  BY <1>9 DEF sum

\* What pieces with a unit add up to is an integer; one piece with a unit but
\* microseconds counts as it says.
LEMMA TotalIs ==
  ASSUME NEW read \in Seq(ReadPieces)
  PROVE  /\ Total(read) \in Int
         /\ Len(read) = 1 /\ read[1].unit # "us" =>
              Total(read) = read[1].num * Factor[read[1].unit]
<1> DEFINE a == FoldSeq(LAMBDA p, t : t + Millis(p), 0, read)
           b == FoldSeq(LAMBDA p, t : t + Micros(p), 0, read)
<1>1. /\ a \in Int /\ b \in Int
      /\ Len(read) = 1 => a = Millis(read[1]) /\ b = Micros(read[1])
  BY MillisSum, MicrosSum
<1>2. Total(read) = a + b \div 1000
  BY DEF Total
<1> HIDE DEF a, b
<1>3. Total(read) \in Int /\ (b = 0 => Total(read) = a)
  BY <1>1, <1>2
<1>4. ASSUME Len(read) = 1, read[1].unit # "us"
      PROVE  Total(read) = read[1].num * Factor[read[1].unit]
  BY <1>1, <1>3, <1>4 DEF Millis, Micros
<1> QED
  BY <1>3, <1>4

-----------------------------------------------------------------------------
(* parse_duration_ms.                                                      *)

\* Min picks the least element of a set of numbers.
LEMMA MinIs ==
  ASSUME NEW S \in SUBSET Nat, S # {}
  PROVE  Min(S) \in S /\ \A y \in S : Min(S) <= y
<1>1. PICK n \in S : \A m \in 0 .. n - 1 : m \notin S
  BY FirstNumber
<1>2. \A y \in S : n <= y
  <2>1. ASSUME NEW y \in S, ~(n <= y)
        PROVE  FALSE
    <3>1. y \in 0 .. n - 1
      BY <2>1
    <3> QED
      BY <1>1, <3>1
  <2> QED
    BY <2>1
<1> QED
  BY <1>2 DEF Min

\* Where parse_duration_ms stops: behind a run of pieces with a unit.
LEMMA StopIs ==
  ASSUME NEW text \in Texts
  PROVE  LET stop == Min(Unread(text) \union {Len(text) + 1}) IN
         /\ stop \in 1 .. Len(text) + 1
         /\ stop \in Unread(text) \/ stop = Len(text) + 1
         /\ \A i \in 1 .. stop - 1 : i \in 1 .. Len(text) /\ i \notin Unread(text)
         /\ 1 \in Unread(text) => stop = 1
<1> DEFINE len == Len(text)
           U == Unread(text)
           stop == Min(U \union {len + 1})
<1>1. len \in Nat /\ DOMAIN text = 1 .. len
  BY DEF Texts
<1> HIDE DEF len
<1>2. U \subseteq 1 .. len
  BY <1>1 DEF Unread
<1> HIDE DEF U
<1>3. stop \in U \union {len + 1} /\ \A y \in U \union {len + 1} : stop <= y
  <2>1. U \union {len + 1} \in SUBSET Nat /\ U \union {len + 1} # {}
    BY <1>1, <1>2
  <2> QED
    BY <2>1, MinIs
<1> HIDE DEF stop
<1>4. stop \in 1 .. len + 1
  BY <1>1, <1>2, <1>3
<1>5. \A i \in 1 .. stop - 1 : i \in 1 .. len /\ i \notin U
  BY <1>1, <1>3, <1>4
<1>6. 1 \in U => stop = 1
  BY <1>3, <1>4
<1> QED
  BY <1>3, <1>4, <1>5, <1>6 DEF stop, U, len

\* What is read are pieces with a unit.
LEMMA ReadIs ==
  ASSUME NEW text \in Texts, NEW n \in Nat,
         \A i \in 1 .. n : i \in 1 .. Len(text) /\ i \notin Unread(text)
  PROVE  /\ SubSeq(text, 1, n) \in Seq(ReadPieces)
         /\ Len(SubSeq(text, 1, n)) = n
         /\ n > 0 => SubSeq(text, 1, n)[1] = text[1]
<1>1. \A i \in 1 .. n : text[i] \in ReadPieces
  <2> SUFFICES ASSUME NEW i \in 1 .. n
               PROVE  text[i] \in ReadPieces
    OBVIOUS
  <2>1. /\ text[i] \in [num : Int,
                        unit : {"us", "ms", "s", "m", "h", "none", "word"},
                        gap : BOOLEAN]
        /\ i \in DOMAIN text
    <3>1. i \in 1 .. Len(text)
      OBVIOUS
    <3>2. DOMAIN text = 1 .. Len(text)
      BY DEF Texts
    <3> QED
      BY <3>1, <3>2, ElementOfSeq DEF Texts
  <2>2. UnitRead(text, i)
    BY <2>1 DEF Unread
  <2>3. text[i].unit \in {"us", "ms", "s", "m", "h"}
    BY <2>2 DEF UnitRead
  <2> QED
    BY <2>1, <2>3 DEF ReadPieces
<1> DEFINE read == SubSeq(text, 1, n)
<1>2. /\ read \in Seq(ReadPieces)
      /\ Len(read) = IF 1 <= n THEN n - 1 + 1 ELSE 0
      /\ \A i \in 1 .. n - 1 + 1 : read[i] = text[1 + i - 1]
  BY <1>1, SubSeqProperties
<1> HIDE DEF read
<1>3. Len(read) = n
  BY <1>2
<1>4. n > 0 => read[1] = text[1]
  <2>1. n > 0 => 1 \in 1 .. n - 1 + 1
    OBVIOUS
  <2>2. 1 + 1 - 1 = 1
    OBVIOUS
  <2> QED
    BY <1>2, <2>1, <2>2
<1> QED
  BY <1>2, <1>3, <1>4 DEF read

\* Every text reads as a whole number of milliseconds, or as the default.
THEOREM DurationRead ==
  ASSUME NEW text \in Texts, NEW default \in Int
  PROVE  parse_duration_ms(text, default) \in Int
<1> DEFINE stop == Min(Unread(text) \union {Len(text) + 1})
<1>1. /\ stop \in 1 .. Len(text) + 1
      /\ \A i \in 1 .. stop - 1 : i \in 1 .. Len(text) /\ i \notin Unread(text)
  BY StopIs
<1>2. parse_duration_ms(text, default) =
        IF stop = 1 \/ (stop <= Len(text) /\ text[stop].unit = "word")
        THEN default ELSE Total(SubSeq(text, 1, stop - 1))
  BY DEF parse_duration_ms
<1> HIDE DEF stop
<1>3. stop - 1 \in Nat
  BY <1>1 DEF Texts
<1>4. Total(SubSeq(text, 1, stop - 1)) \in Int
  BY <1>1, <1>3, ReadIs, TotalIs
<1> QED
  BY <1>2, <1>4

\* A text that format_duration_ms writes reads as its one piece, or, with no
\* space behind the first of several, not at all.
LEMMA FirstPiece ==
  ASSUME NEW text \in Texts, NEW n \in Int, NEW u \in {"ms", "s", "m", "h"},
         Len(text) > 0, text[1] = Piece(n, u), u = "ms" => Len(text) = 1,
         NEW default
  PROVE  parse_duration_ms(text, default) =
           IF Len(text) = 1 THEN n * Factor[u] ELSE default
<1> DEFINE len == Len(text)
           stop == Min(Unread(text) \union {len + 1})
<1>1. /\ stop \in 1 .. len + 1
      /\ stop \in Unread(text) \/ stop = len + 1
      /\ \A i \in 1 .. stop - 1 : i \in 1 .. len /\ i \notin Unread(text)
      /\ 1 \in Unread(text) => stop = 1
  BY StopIs
<1>2. parse_duration_ms(text, default) =
        IF stop = 1 \/ (stop <= len /\ text[stop].unit = "word")
        THEN default ELSE Total(SubSeq(text, 1, stop - 1))
  BY DEF parse_duration_ms
<1>3. len \in Nat /\ len > 0 /\ DOMAIN text = 1 .. len
  BY DEF Texts
<1>4. text[1].unit = u /\ text[1].gap = FALSE /\ text[1].num = n
  BY DEF Piece
<1>5. UnitRead(text, 1) <=> len = 1
  BY <1>4 DEF UnitRead
<1>6. 1 \in Unread(text) <=> len # 1
  BY <1>3, <1>5 DEF Unread
<1> HIDE DEF stop
<1>7. CASE len = 1
  <2>1. stop = 2
    <3>1. stop # 1
      <4>1. 1 \notin Unread(text)
        BY <1>6, <1>7
      <4> QED
        BY <1>1, <1>7, <4>1
    <3> QED
      BY <1>1, <1>7, <3>1
  <2>2. \A i \in 1 .. 1 : i \in 1 .. Len(text) /\ i \notin Unread(text)
    BY <1>6, <1>7
  <2> DEFINE read == SubSeq(text, 1, 1)
  <2>3. read \in Seq(ReadPieces) /\ Len(read) = 1 /\ read[1] = text[1]
    BY <2>2, ReadIs
  <2> HIDE DEF read
  <2>4. Total(read) = n * Factor[u]
    BY <1>4, <2>3, TotalIs
  <2>5. stop - 1 = 1 /\ stop # 1 /\ ~(stop <= len)
    BY <1>7, <2>1
  <2>6. parse_duration_ms(text, default) = Total(read)
    BY <1>2, <2>5 DEF read
  <2> QED
    BY <1>7, <2>4, <2>6
<1>8. CASE len # 1
  BY <1>1, <1>2, <1>6, <1>8
<1> QED
  BY <1>7, <1>8

-----------------------------------------------------------------------------
(* format_duration_ms.                                                     *)

\* A number of milliseconds in hours, minutes, seconds and milliseconds.
LEMMA UnitsOf ==
  ASSUME NEW ms \in Nat
  PROVE  LET h == ms \div 3600000
             m == (ms % 3600000) \div 60000
             s == (ms % 60000) \div 1000
             x == ms % 1000
         IN  /\ h \in Nat /\ m \in Nat /\ s \in Nat /\ x \in Nat
             /\ ms = 3600000 * h + 60000 * m + 1000 * s + x
  BY SMT

\* What is written of one unit.
LEMMA WrittenIs ==
  ASSUME NEW n \in Nat, NEW u \in {"h", "m", "s", "ms"}
  PROVE  /\ Written(n, u) \in Texts
         /\ n > 0 => /\ Written(n, u) = <<Piece(n, u)>>
                     /\ Len(Written(n, u)) = 1
                     /\ Written(n, u)[1] = Piece(n, u)
         /\ n = 0 => Written(n, u) = <<>> /\ Len(Written(n, u)) = 0
<1>1. Piece(n, u) \in [num : Int,
                       unit : {"us", "ms", "s", "m", "h", "none", "word"},
                       gap : BOOLEAN]
  BY DEF Piece
<1>2. CASE n > 0
  <2>1. Written(n, u) = <<Piece(n, u)>>
    BY <1>2 DEF Written
  <2> QED
    BY <1>1, <1>2, <2>1 DEF Texts
<1>3. CASE n = 0
  <2>1. Written(n, u) = <<>>
    BY <1>3 DEF Written
  <2>2. <<>> \in Texts /\ Len(<<>>) = 0
    BY EmptySeq DEF Texts
  <2> QED
    BY <1>3, <2>1, <2>2
<1> QED
  BY <1>2, <1>3

\* Two texts one after the other.
LEMMA Joined ==
  ASSUME NEW a \in Texts, NEW b \in Texts
  PROVE  /\ a \o b \in Texts
         /\ Len(a \o b) = Len(a) + Len(b)
         /\ Len(a) \in Nat /\ Len(b) \in Nat
         /\ Len(a) > 0 => (a \o b)[1] = a[1]
         /\ a = <<>> => a \o b = b
<1>1. Len(a) \in Nat /\ Len(b) \in Nat
  BY DEF Texts
<1>2. /\ a \o b \in Texts
      /\ Len(a \o b) = Len(a) + Len(b)
      /\ \A i \in 1 .. Len(a) + Len(b) :
           (a \o b)[i] = IF i <= Len(a) THEN a[i] ELSE b[i - Len(a)]
  BY ConcatProperties DEF Texts
<1>3. Len(a) > 0 => 1 \in 1 .. Len(a) + Len(b) /\ 1 <= Len(a)
  BY <1>1
<1>4. a = <<>> => a \o b = b
  BY ConcatEmptySeq DEF Texts
<1> QED
  BY <1>1, <1>2, <1>3, <1>4

\* A duration is written as a text, and what is written reads as it was or
\* not at all; one that is not positive reads as nothing.
THEOREM DurationKept ==
  ASSUME NEW ms \in Int, NEW default \in Int
  PROVE  /\ format_duration_ms(ms) \in Texts
         /\ ms > 0 => parse_duration_ms(format_duration_ms(ms), default)
                        \in {ms, default}
         /\ ms <= 0 => parse_duration_ms(format_duration_ms(ms), default) = 0
<1> DEFINE text == format_duration_ms(ms)
<1>1. CASE ms <= 0
  <2>1. text = <<Piece(0, "s")>>
    BY <1>1 DEF format_duration_ms
  <2>2. Piece(0, "s") \in [num : Int,
                           unit : {"us", "ms", "s", "m", "h", "none", "word"},
                           gap : BOOLEAN]
    BY DEF Piece
  <2> HIDE DEF text
  <2>3. text \in Texts /\ Len(text) = 1 /\ text[1] = Piece(0, "s")
    BY <2>1, <2>2 DEF Texts
  <2>4. parse_duration_ms(text, default) = 0 * Factor["s"]
    <3>1. /\ 0 \in Int /\ "s" \in {"ms", "s", "m", "h"} /\ "s" # "ms"
          /\ Len(text) > 0
      BY <2>3
    <3>2. parse_duration_ms(text, default) =
            IF Len(text) = 1 THEN 0 * Factor["s"] ELSE default
      BY <2>3, <3>1, FirstPiece
    <3> QED
      BY <2>3, <3>2
  <2>5. 0 * Factor["s"] = 0
    BY DEF Factor
  <2> QED
    BY <1>1, <2>3, <2>4, <2>5 DEF text
<1>2. CASE ms > 0
  <2> DEFINE h == ms \div 3600000
             m == (ms % 3600000) \div 60000
             s == (ms % 60000) \div 1000
             x == ms % 1000
             a == Written(h, "h")
             b == Written(m, "m")
             c == Written(s, "s")
             d == Written(x, "ms")
  <2>0. /\ h \in Nat /\ m \in Nat /\ s \in Nat /\ x \in Nat
        /\ ms = 3600000 * h + 60000 * m + 1000 * s + x
    BY <1>2, UnitsOf, SMT
  <2>1. h \in Nat /\ m \in Nat /\ s \in Nat /\ x \in Nat
    BY <2>0, SMT
  <2>2. text = a \o b \o c \o d
    BY <1>2, SMT DEF format_duration_ms
  <2> HIDE DEF h, m, s, x, text
  <2>3. /\ a \in Texts /\ b \in Texts /\ c \in Texts /\ d \in Texts
        /\ h > 0 => Len(a) = 1 /\ a[1] = Piece(h, "h")
        /\ m > 0 => Len(b) = 1 /\ b[1] = Piece(m, "m")
        /\ s > 0 => Len(c) = 1 /\ c[1] = Piece(s, "s")
        /\ x > 0 => Len(d) = 1 /\ d[1] = Piece(x, "ms")
        /\ h = 0 => a = <<>> /\ Len(a) = 0
        /\ m = 0 => b = <<>> /\ Len(b) = 0
        /\ s = 0 => c = <<>> /\ Len(c) = 0
        /\ x = 0 => d = <<>> /\ Len(d) = 0
    BY <2>1, WrittenIs
  <2> HIDE DEF a, b, c, d
  <2> DEFINE ab  == a \o b
             abc == ab \o c
  <2>4. /\ ab \in Texts /\ Len(ab) = Len(a) + Len(b)
        /\ Len(a) > 0 => ab[1] = a[1]
        /\ a = <<>> => ab = b
        /\ Len(a) \in Nat /\ Len(b) \in Nat
    BY <2>3, Joined
  <2> HIDE DEF ab
  <2>5. /\ abc \in Texts /\ Len(abc) = Len(ab) + Len(c)
        /\ Len(ab) > 0 => abc[1] = ab[1]
        /\ ab = <<>> => abc = c
        /\ Len(c) \in Nat
    BY <2>3, <2>4, Joined
  <2> HIDE DEF abc
  <2>6. /\ text \in Texts /\ Len(text) = Len(abc) + Len(d)
        /\ Len(abc) > 0 => text[1] = abc[1]
        /\ abc = <<>> => text = d
        /\ Len(d) \in Nat
    <3>1. text = abc \o d
      BY <2>2 DEF abc, ab
    <3> QED
      BY <2>3, <2>5, <3>1, Joined
  <2>7. Len(text) = Len(a) + Len(b) + Len(c) + Len(d)
    BY <2>4, <2>5, <2>6
  <2>8. /\ Factor["h"] = 3600000 /\ Factor["m"] = 60000
        /\ Factor["s"] = 1000 /\ Factor["ms"] = 1
    BY SMT DEF Factor
  <2>9. ASSUME NEW n \in Nat, NEW u \in {"ms", "s", "m", "h"},
               Len(text) > 0, text[1] = Piece(n, u),
               u = "ms" => Len(text) = 1,
               Len(text) = 1 => ms = n * Factor[u]
        PROVE  parse_duration_ms(text, default) \in {ms, default}
    <3>1. n \in Int /\ text \in Texts
      BY <2>6
    <3>2. parse_duration_ms(text, default) =
            IF Len(text) = 1 THEN n * Factor[u] ELSE default
      BY <2>9, <3>1, FirstPiece
    <3>3. CASE Len(text) = 1
      BY <2>9, <3>2, <3>3, Zenon
    <3>4. CASE Len(text) # 1
      BY <3>2, <3>4, Zenon
    <3> QED
      BY <3>3, <3>4
  <2>10. ASSUME h > 0
         PROVE  parse_duration_ms(text, default) \in {ms, default}
    <3>1. text[1] = Piece(h, "h") /\ Len(text) > 0
      <4>1. Len(a) > 0 /\ a[1] = Piece(h, "h")
        BY <2>3, <2>10
      <4>2. Len(ab) > 0 /\ Len(abc) > 0 /\ Len(text) > 0
        BY <2>4, <2>5, <2>6, <4>1
      <4> QED
        BY <2>4, <2>5, <2>6, <4>1, <4>2
    <3>2. Len(text) = 1 => m = 0 /\ s = 0 /\ x = 0
      BY <2>1, <2>3, <2>4, <2>5, <2>6, <2>7, <2>10
    <3>3. Len(text) = 1 => ms = h * Factor["h"]
      BY <2>0, <2>8, <3>2, SMT
    <3>4. "h" \in {"ms", "s", "m", "h"} /\ "h" # "ms"
      OBVIOUS
    <3> QED
      BY <2>1, <2>9, <3>1, <3>3, <3>4, Zenon
  <2>11. ASSUME h = 0 /\ m > 0
         PROVE  parse_duration_ms(text, default) \in {ms, default}
    <3>1. text[1] = Piece(m, "m") /\ Len(text) > 0
      BY <2>3, <2>4, <2>5, <2>6, <2>7, <2>11
    <3>2. Len(text) = 1 => s = 0 /\ x = 0
      BY <2>1, <2>3, <2>4, <2>5, <2>6, <2>7, <2>11
    <3>3. Len(text) = 1 => ms = m * Factor["m"]
      BY <2>0, <2>8, <2>11, <3>2, SMT
    <3>4. "m" \in {"ms", "s", "m", "h"} /\ "m" # "ms"
      OBVIOUS
    <3> QED
      BY <2>1, <2>9, <3>1, <3>3, <3>4, Zenon
  <2>12. ASSUME h = 0 /\ m = 0 /\ s > 0
         PROVE  parse_duration_ms(text, default) \in {ms, default}
    <3>1. text[1] = Piece(s, "s") /\ Len(text) > 0
      BY <2>3, <2>4, <2>5, <2>6, <2>7, <2>12
    <3>2. Len(text) = 1 => x = 0
      BY <2>1, <2>3, <2>4, <2>5, <2>6, <2>7, <2>12
    <3>3. Len(text) = 1 => ms = s * Factor["s"]
      BY <2>0, <2>8, <2>12, <3>2, SMT
    <3>4. "s" \in {"ms", "s", "m", "h"} /\ "s" # "ms"
      OBVIOUS
    <3> QED
      BY <2>1, <2>9, <3>1, <3>3, <3>4, Zenon
  <2>13. ASSUME h = 0 /\ m = 0 /\ s = 0
         PROVE  parse_duration_ms(text, default) \in {ms, default}
    <3>1. x > 0 /\ ms = x
      BY <1>2, <2>0, <2>13, SMT
    <3>2. text = d
      BY <2>3, <2>4, <2>5, <2>6, <2>13
    <3>3. text[1] = Piece(x, "ms") /\ Len(text) = 1
      BY <2>3, <3>1, <3>2
    <3>4. ms = x * Factor["ms"]
      BY <2>1, <2>8, <3>1, SMT
    <3>5. "ms" \in {"ms", "s", "m", "h"} /\ Len(text) > 0
      BY <3>3
    <3> QED
      BY <2>1, <2>9, <3>3, <3>4, <3>5, Zenon
  <2>14. parse_duration_ms(text, default) \in {ms, default}
    <3>1. \/ h > 0
          \/ h = 0 /\ m > 0
          \/ h = 0 /\ m = 0 /\ s > 0
          \/ h = 0 /\ m = 0 /\ s = 0
      BY <2>1
    <3> QED
      BY <2>10, <2>11, <2>12, <2>13, <3>1, Zenon
  <2> QED
    BY <1>2, <2>6, <2>14 DEF text
<1> QED
  BY <1>1, <1>2
=============================================================================
