---------------------------- MODULE SemverProofs ----------------------------
(***************************************************************************)
(* The precedence behind the semver operators is one linear order, however *)
(* long the versions: proofs about Semver, on versions of any numbers and  *)
(* any prerelease identifiers.                                             *)
(***************************************************************************)
EXTENDS Semver, WellFoundedInduction, TLAPS

\* Every non-empty set of places in a sequence has a first one.
LEMMA FirstPlace ==
    ASSUME NEW S, S \subseteq Nat, S # {}
    PROVE  Min(S) \in S /\ \A j \in S : Min(S) <= j
<1> DEFINE R == {p \in Nat \X Nat : p[1] < p[2]}
<1>1. IsWellFoundedOn(R, Nat)
  BY NatLessThanWellFounded DEF OpToRel
<1>2. PICK m \in S : \A j \in S : ~(<<j, m>> \in R)
  <2> HIDE DEF R
  <2> QED BY <1>1, WFMin
<1>3. ASSUME NEW j \in S PROVE m <= j
  <2>1. j \in Nat /\ m \in Nat /\ ~(j < m)
    BY <1>2
  <2> QED
    BY <2>1
<1> QED
  BY <1>3 DEF Min

\* c compares the members of T as a linear order does: -1 for below, 1 for above and
\* 0 for the same one.
IsOrder(T, c) ==
    /\ \A a, b \in T : c[<<a, b>>] \in {-1, 0, 1}
    /\ \A a, b \in T : c[<<a, b>>] = 0 <=> a = b
    /\ \A a, b \in T : c[<<b, a>>] = -c[<<a, b>>]
    /\ \A a, b, d \in T : c[<<a, b>>] = -1 /\ c[<<b, d>>] = -1 => c[<<a, d>>] = -1

-----------------------------------------------------------------------------
(* Lexicographic.                                                          *)

Lex(c, x, y) == Lexicographic([i \in Shared(x, y) |-> c[<<x[i], y[i]>>]], x, y)

\* The first place where x and y differ.
Differ(x, y, p) == p \in Shared(x, y) /\ x[p] # y[p] /\ \A j \in 1..(p - 1) : x[j] = y[j]

\* Sequences that differ are told apart by the first place where they do.
LEMMA LexFirst ==
    ASSUME NEW T, NEW c, IsOrder(T, c), NEW x \in Seq(T), NEW y \in Seq(T),
           NEW p \in Nat, Differ(x, y, p)
    PROVE  Lex(c, x, y) = c[<<x[p], y[p]>>]
<1> DEFINE D == Shared(x, y)
           signs == [i \in D |-> c[<<x[i], y[i]>>]]
<1>0. p \in D /\ x[p] # y[p] /\ \A j \in 1..(p - 1) : x[j] = y[j]
  BY DEF Differ
<1>1. \A i \in D : i \in DOMAIN x /\ i \in DOMAIN y /\ i \in Nat /\ i >= 1
                    /\ x[i] \in T /\ y[i] \in T /\ \A j \in 1..(i - 1) : j \in D
  BY DEF Shared
<1>2. \A i \in D : signs[i] = 0 <=> x[i] = y[i]
  BY <1>1 DEF IsOrder
<1>3. \A i \in D : (signs[i] # 0 /\ \A j \in 1..(i - 1) : signs[j] = 0) <=> i = p
  <2>1. \A j \in 1..(p - 1) : signs[j] = 0
    BY <1>0, <1>1, <1>2
  <2>2. signs[p] # 0
    BY <1>0, <1>2
  <2>3. ASSUME NEW i \in D, signs[i] # 0, \A j \in 1..(i - 1) : signs[j] = 0
        PROVE  i = p
    <3>1. i \in Nat /\ p \in Nat /\ i >= 1 /\ p >= 1
      BY <1>0, <1>1
    <3> HIDE DEF signs, D
    <3>2. ~(i < p)
      BY <2>1, <2>3, <3>1
    <3>3. ~(p < i)
      BY <2>2, <2>3, <3>1
    <3> QED
      BY <3>1, <3>2, <3>3
  <2> QED
    BY <1>0, <2>1, <2>2, <2>3
<1>4. ~(\A i \in DOMAIN signs : signs[i] = 0)
  BY <1>0, <1>2
<1>5. (CHOOSE i \in DOMAIN signs : signs[i] # 0 /\ \A j \in 1..(i - 1) : signs[j] = 0) = p
  <2>1. DOMAIN signs = D
    OBVIOUS
  <2> HIDE DEF signs, D
  <2> QED
    BY <1>3, <2>1
<1>6. Lexicographic(signs, x, y) = signs[p]
  <2> HIDE DEF signs
  <2> QED
    BY <1>4, <1>5 DEF Lexicographic
<1>7. signs[p] = c[<<x[p], y[p]>>]
  BY <1>0
<1> QED
  BY <1>6, <1>7 DEF Lex

\* Sequences of which one continues the other are told apart by their lengths.
LEMMA LexPrefix ==
    ASSUME NEW T, NEW c, IsOrder(T, c), NEW x \in Seq(T), NEW y \in Seq(T),
           \A i \in Shared(x, y) : x[i] = y[i]
    PROVE  Lex(c, x, y) = cmpInt(Len(x), Len(y))
<1> DEFINE signs == [i \in Shared(x, y) |-> c[<<x[i], y[i]>>]]
<1>1. \A i \in DOMAIN signs : signs[i] = 0
  BY DEF IsOrder, Shared
<1> HIDE DEF signs
<1>2. Lexicographic(signs, x, y) = cmpInt(Len(x), Len(y))
  BY <1>1 DEF Lexicographic
<1> QED
  BY <1>2 DEF Lex, signs

LEMMA LexCases ==
    ASSUME NEW T, NEW x \in Seq(T), NEW y \in Seq(T)
    PROVE  \/ \E p \in Nat : Differ(x, y, p)
           \/ \A i \in Shared(x, y) : x[i] = y[i]
<1> DEFINE S == {i \in Shared(x, y) : x[i] # y[i]}
<1>1. CASE S = {}
  BY <1>1
<1>2. CASE S # {}
  <2>1. S \subseteq Nat
    BY DEF Shared
  <2>2. Min(S) \in S /\ \A j \in S : Min(S) <= j
    <3> HIDE DEF S
    <3> QED
      BY <1>2, <2>1, FirstPlace
  <2>3. PICK p \in S : \A j \in S : p <= j
    BY <2>2
  <2>4. \A j \in 1..(p - 1) : j \in Shared(x, y) /\ ~(p <= j)
    BY <2>1, <2>3 DEF Shared
  <2> QED
    BY <2>1, <2>3, <2>4 DEF Differ
<1> QED
  BY <1>1, <1>2

\* What is where they differ.
LEMMA DifferTyped ==
    ASSUME NEW T, NEW x \in Seq(T), NEW y \in Seq(T), NEW p \in Nat, Differ(x, y, p)
    PROVE  x[p] \in T /\ y[p] \in T /\ p \in 1..Len(x) /\ p \in 1..Len(y)
BY DEF Differ, Shared

\* Two sequences.
LEMMA LexSigns ==
    ASSUME NEW T, NEW c, IsOrder(T, c), NEW x \in Seq(T), NEW y \in Seq(T)
    PROVE  /\ Lex(c, x, y) \in {-1, 0, 1}
           /\ Lex(c, x, y) = 0 <=> x = y
           /\ Lex(c, y, x) = -Lex(c, x, y)
<1>1. ASSUME NEW p \in Nat, Differ(x, y, p)
      PROVE  /\ Lex(c, x, y) \in {-1, 1} /\ x # y
             /\ Lex(c, y, x) = -Lex(c, x, y)
  <2>1. Differ(y, x, p)
    BY <1>1 DEF Differ, Shared
  <2>2. Lex(c, x, y) = c[<<x[p], y[p]>>]
    BY <1>1, LexFirst
  <2>3. Lex(c, y, x) = c[<<y[p], x[p]>>]
    BY <2>1, LexFirst
  <2>4. x # y /\ x[p] # y[p] /\ x[p] \in T /\ y[p] \in T
    BY <1>1, DifferTyped DEF Differ
  <2> QED
    BY <2>2, <2>3, <2>4 DEF IsOrder
<1>2. ASSUME \A i \in Shared(x, y) : x[i] = y[i]
      PROVE  /\ Lex(c, x, y) = cmpInt(Len(x), Len(y))
             /\ Lex(c, y, x) = cmpInt(Len(y), Len(x))
             /\ Len(x) = Len(y) <=> x = y
  <2>1. \A i \in Shared(y, x) : y[i] = x[i]
    BY <1>2 DEF Shared
  <2>2. Len(x) = Len(y) => x = y
    BY <1>2 DEF Shared
  <2> QED
    BY <1>2, <2>1, <2>2, LexPrefix
<1>3. CASE \A i \in Shared(x, y) : x[i] = y[i]
  <2>1. Len(x) \in Nat /\ Len(y) \in Nat
    OBVIOUS
  <2> QED
    BY <1>2, <1>3, <2>1 DEF cmpInt
<1> QED
  BY <1>1, <1>3, LexCases

\* Three sequences: the first place where the outer two differ is the first of the two
\* places where a neighbour differs.
LEMMA LexTransitive ==
    ASSUME NEW T, NEW c, IsOrder(T, c), NEW x \in Seq(T), NEW y \in Seq(T), NEW z \in Seq(T),
           Lex(c, x, y) = -1, Lex(c, y, z) = -1
    PROVE  Lex(c, x, z) = -1
<1> DEFINE Continued(a, b) == Len(a) < Len(b) /\ \A i \in Shared(a, b) : a[i] = b[i]
<1>1. ASSUME NEW a \in Seq(T), NEW b \in Seq(T), Lex(c, a, b) = -1
      PROVE  \/ \E p \in Nat : Differ(a, b, p) /\ c[<<a[p], b[p]>>] = -1
             \/ Continued(a, b)
  <2>1. CASE \A i \in Shared(a, b) : a[i] = b[i]
    <3>1. cmpInt(Len(a), Len(b)) = -1
      BY <1>1, <2>1, LexPrefix
    <3> QED
      BY <2>1, <3>1 DEF cmpInt
  <2>2. ASSUME NEW p \in Nat, Differ(a, b, p) PROVE c[<<a[p], b[p]>>] = -1
    BY <1>1, <2>2, LexFirst
  <2>3. CASE \E p \in Nat : Differ(a, b, p)
    BY <2>2, <2>3
  <2> QED
    BY <2>1, <2>3, LexCases
<1>2. ASSUME NEW p \in Nat, Differ(x, z, p), c[<<x[p], z[p]>>] = -1 PROVE Lex(c, x, z) = -1
  BY <1>2, LexFirst
<1>3. ASSUME Continued(x, z) PROVE Lex(c, x, z) = -1
  <2>1. Lex(c, x, z) = cmpInt(Len(x), Len(z))
    BY <1>3, LexPrefix
  <2> QED
    BY <1>3, <2>1 DEF cmpInt
<1>4. ASSUME NEW p \in Nat, Differ(x, y, p), c[<<x[p], y[p]>>] = -1,
             NEW q \in Nat, Differ(y, z, q), c[<<y[q], z[q]>>] = -1
      PROVE  \E r \in Nat : Differ(x, z, r) /\ c[<<x[r], z[r]>>] = -1
  <2>1. /\ p \in 1..Len(x) /\ p \in 1..Len(y) /\ q \in 1..Len(y) /\ q \in 1..Len(z)
        /\ x[p] \in T /\ y[p] \in T /\ y[q] \in T /\ z[q] \in T
    BY <1>4, DifferTyped
  <2>2. CASE p < q
    <3>1. p \in Shared(x, z) /\ y[p] = z[p] /\ \A j \in 1..(p - 1) : x[j] = z[j]
      BY <1>4, <2>1, <2>2 DEF Differ, Shared
    <3> QED
      BY <1>4, <3>1 DEF Differ
  <2>3. CASE q < p
    <3>1. q \in Shared(x, z) /\ x[q] = y[q] /\ \A j \in 1..(q - 1) : x[j] = z[j]
      BY <1>4, <2>1, <2>3 DEF Differ, Shared
    <3> QED
      BY <1>4, <3>1 DEF Differ
  <2>4. CASE p = q
    <3>1. p \in Shared(x, z) /\ \A j \in 1..(p - 1) : x[j] = z[j]
      BY <1>4, <2>1, <2>4 DEF Differ, Shared
    <3>2. c[<<x[p], z[p]>>] = -1
      BY <1>4, <2>1, <2>4 DEF IsOrder
    <3>3. x[p] # z[p]
      BY <2>1, <2>4, <3>2 DEF IsOrder
    <3> QED
      BY <3>1, <3>2, <3>3 DEF Differ
  <2>5. p < q \/ q < p \/ p = q
    OBVIOUS
  <2> QED
    BY <2>2, <2>3, <2>4, <2>5
<1>5. ASSUME NEW p \in Nat, Differ(x, y, p), c[<<x[p], y[p]>>] = -1, Continued(y, z)
      PROVE  \E r \in Nat : Differ(x, z, r) /\ c[<<x[r], z[r]>>] = -1
  <2>1. p \in 1..Len(x) /\ p \in 1..Len(y)
    BY <1>5, DifferTyped
  <2>2. p \in Shared(x, z) /\ y[p] = z[p] /\ \A j \in 1..(p - 1) : x[j] = z[j]
    BY <1>5, <2>1 DEF Differ, Shared
  <2> QED
    BY <1>5, <2>2 DEF Differ
<1>6. ASSUME Continued(x, y), NEW q \in Nat, Differ(y, z, q), c[<<y[q], z[q]>>] = -1
      PROVE  \/ \E r \in Nat : Differ(x, z, r) /\ c[<<x[r], z[r]>>] = -1
             \/ Continued(x, z)
  <2>1. q \in 1..Len(y) /\ q \in 1..Len(z)
    BY <1>6, DifferTyped
  <2>2. CASE q <= Len(x)
    <3>1. q \in Shared(x, z) /\ x[q] = y[q] /\ \A j \in 1..(q - 1) : x[j] = z[j]
      BY <1>6, <2>1, <2>2 DEF Differ, Shared
    <3> QED
      BY <1>6, <3>1 DEF Differ
  <2>3. CASE ~(q <= Len(x))
    <3>1. Len(x) < Len(z)
      BY <2>1, <2>3
    <3>2. \A i \in Shared(x, z) : x[i] = z[i]
      BY <1>6, <2>1, <2>3 DEF Differ, Shared
    <3> QED
      BY <3>1, <3>2
  <2> QED
    BY <2>2, <2>3
<1>7. ASSUME Continued(x, y), Continued(y, z) PROVE Continued(x, z)
  BY <1>7 DEF Shared
<1> HIDE DEF Continued
<1> QED
  BY <1>1, <1>2, <1>3, <1>4, <1>5, <1>6, <1>7

\* Comparing place by place is a linear order wherever comparing one place is.
LEMMA LexIsOrder ==
    ASSUME NEW T, NEW c, IsOrder(T, c),
           NEW l, \A x, y \in Seq(T) : l[<<x, y>>] = Lex(c, x, y)
    PROVE  IsOrder(Seq(T), l)
<1> DEFINE S == Seq(T)
<1>1. ASSUME NEW x \in S, NEW y \in S
      PROVE  /\ l[<<x, y>>] \in {-1, 0, 1}
             /\ l[<<x, y>>] = 0 <=> x = y
             /\ l[<<y, x>>] = -l[<<x, y>>]
  BY LexSigns
<1>2. ASSUME NEW x \in S, NEW y \in S, NEW z \in S,
             l[<<x, y>>] = -1, l[<<y, z>>] = -1
      PROVE  l[<<x, z>>] = -1
  BY <1>2, LexTransitive
<1> HIDE DEF S
<1>3. \A x, y \in S : l[<<x, y>>] \in {-1, 0, 1}
  BY <1>1
<1>4. \A x, y \in S : l[<<x, y>>] = 0 <=> x = y
  BY <1>1
<1>5. \A x, y \in S : l[<<y, x>>] = -l[<<x, y>>]
  BY <1>1
<1>6. \A x, y, z \in S : l[<<x, y>>] = -1 /\ l[<<y, z>>] = -1 => l[<<x, z>>] = -1
  BY <1>2
<1>7. IsOrder(S, l)
  BY <1>3, <1>4, <1>5, <1>6 DEF IsOrder
<1> QED
  BY <1>7 DEF S

-----------------------------------------------------------------------------
(* The comparisons of semver.go.                                           *)

\* An identifier is any sequence of codes, a parsed version any three numbers and any
\* identifiers.
Ids == Seq(Int)
ParsedVersions == [triple : {s \in Seq(Ids) : Len(s) = 3}, pre : Seq(Ids)]

byCode       == [p \in Int \X Int |-> cmpInt(p[1], p[2])]
byText       == [p \in Ids \X Ids |-> CompareText(p[1], p[2])]
byDigits     == [p \in Ids \X Ids |-> CompareDigits(p[1], p[2])]
byIdentifier == [p \in Ids \X Ids |-> compareIdentifier(p[1], p[2])]
byTriple     == [p \in Seq(Ids) \X Seq(Ids) |-> Lex(byDigits, p[1], p[2])]
byPrerelease == [p \in Seq(Ids) \X Seq(Ids) |-> comparePrerelease(p[1], p[2])]
byPrecedence == [p \in ParsedVersions \X ParsedVersions |-> compareSemver(p[1], p[2])]

LEMMA CodesOrdered == IsOrder(Int, byCode)
BY DEF IsOrder, byCode, cmpInt

\* strings.Compare.
LEMMA TextOrdered == IsOrder(Ids, byText)
<1>1. ASSUME NEW x \in Seq(Int), NEW y \in Seq(Int)
      PROVE  byText[<<x, y>>] = Lex(byCode, x, y)
  <2>1. \A i \in Shared(x, y) : byCode[<<x[i], y[i]>>] = cmpInt(x[i], y[i])
    BY DEF Shared, byCode
  <2>2. [i \in Shared(x, y) |-> byCode[<<x[i], y[i]>>]] = [i \in Shared(x, y) |-> cmpInt(x[i], y[i])]
    BY <2>1
  <2>3. byText[<<x, y>>] = CompareText(x, y)
    BY DEF byText, Ids
  <2> QED
    BY <2>2, <2>3 DEF Lex, CompareText
<1> QED
  BY <1>1, CodesOrdered, LexIsOrder DEF Ids

\* Without leading zeros: the longer number is the larger one.
LEMMA DigitsOrdered == IsOrder(Ids, byDigits)
<1>1. \A x, y \in Ids : byDigits[<<x, y>>] = IF Len(x) # Len(y) THEN cmpInt(Len(x), Len(y))
                                            ELSE byText[<<x, y>>]
  BY DEF byDigits, byText, CompareDigits
<1>2. \A x \in Ids : Len(x) \in Nat
  BY DEF Ids
<1>3. \A x, y \in Ids : x = y => Len(x) = Len(y)
  OBVIOUS
<1> HIDE DEF Ids
<1> QED
  BY <1>1, <1>2, <1>3, TextOrdered DEF IsOrder, cmpInt

\* Numeric identifiers below the others.
LEMMA IdentifiersOrdered == IsOrder(Ids, byIdentifier)
<1>1. \A x, y \in Ids :
        byIdentifier[<<x, y>>] =
          IF isNumericIdentifier(x) /\ isNumericIdentifier(y) THEN byDigits[<<x, y>>]
          ELSE IF isNumericIdentifier(x) THEN -1
          ELSE IF isNumericIdentifier(y) THEN 1
          ELSE byText[<<x, y>>]
  BY DEF byIdentifier, byDigits, byText, compareIdentifier
<1> QED
  BY <1>1, DigitsOrdered, TextOrdered DEF IsOrder

LEMMA PrereleasesOrdered == IsOrder(Seq(Ids), byPrerelease)
<1>1. ASSUME NEW x \in Seq(Ids), NEW y \in Seq(Ids)
      PROVE  byPrerelease[<<x, y>>] = Lex(byIdentifier, x, y)
  <2>1. \A i \in Shared(x, y) : byIdentifier[<<x[i], y[i]>>] = compareIdentifier(x[i], y[i])
    BY DEF Shared, byIdentifier
  <2>2. [i \in Shared(x, y) |-> byIdentifier[<<x[i], y[i]>>]]
          = [i \in Shared(x, y) |-> compareIdentifier(x[i], y[i])]
    BY <2>1
  <2>3. byPrerelease[<<x, y>>] = comparePrerelease(x, y)
    BY DEF byPrerelease
  <2> QED
    BY <2>2, <2>3 DEF Lex, comparePrerelease
<1> QED
  BY <1>1, IdentifiersOrdered, LexIsOrder

\* Major, minor and patch, then the prerelease, a release above all of its own: of any
\* two versions exactly one precedence holds, it is transitive, and only versions that
\* are the same but for build metadata are equal (semver.go, compareSemver).
THEOREM PrecedenceIsOrder == IsOrder(ParsedVersions, byPrecedence)
<1>1. IsOrder(Seq(Ids), byTriple)
  <2>1. \A x, y \in Seq(Ids) : byTriple[<<x, y>>] = Lex(byDigits, x, y)
    BY DEF byTriple
  <2> QED
    BY <2>1, DigitsOrdered, LexIsOrder
<1>2. ASSUME NEW v \in ParsedVersions
      PROVE  /\ v.triple \in Seq(Ids) /\ DOMAIN v.triple = 1..3 /\ v.pre \in Seq(Ids)
             /\ Len(v.pre) \in Nat /\ (v.pre = <<>> <=> Len(v.pre) = 0)
  <2>1. v.triple \in Seq(Ids) /\ Len(v.triple) = 3 /\ v.pre \in Seq(Ids)
    BY DEF ParsedVersions
  <2>2. \A s \in Seq(Ids) : Len(s) \in Nat /\ (s = <<>> <=> Len(s) = 0)
    OBVIOUS
  <2>3. v.triple \in Seq(Ids) /\ DOMAIN v.triple = 1..3
    BY <2>1
  <2> QED
    BY <2>1, <2>2, <2>3
<1>3. ASSUME NEW v \in ParsedVersions, NEW w \in ParsedVersions
      PROVE  byPrecedence[<<v, w>>] =
               IF byTriple[<<v.triple, w.triple>>] # 0 THEN byTriple[<<v.triple, w.triple>>]
               ELSE IF <<>> \in {v.pre, w.pre} THEN cmpInt(Len(w.pre), Len(v.pre))
               ELSE byPrerelease[<<v.pre, w.pre>>]
  <2> DEFINE signs == [i \in 1..3 |-> CompareDigits(v.triple[i], w.triple[i])]
  <2>1. Shared(v.triple, w.triple) = 1..3
    BY <1>2 DEF Shared
  <2>2. \A i \in 1..3 : byDigits[<<v.triple[i], w.triple[i]>>] = CompareDigits(v.triple[i], w.triple[i])
    BY DEF byDigits, ParsedVersions
  <2>3. [i \in Shared(v.triple, w.triple) |-> byDigits[<<v.triple[i], w.triple[i]>>]] = signs
    BY <2>1, <2>2
  <2>4. byTriple[<<v.triple, w.triple>>] = Lexicographic(signs, v.triple, w.triple)
    BY <1>2, <2>3 DEF byTriple, Lex
  <2>5. byPrerelease[<<v.pre, w.pre>>] = comparePrerelease(v.pre, w.pre)
    BY <1>2 DEF byPrerelease
  <2>6. byPrecedence[<<v, w>>] = compareSemver(v, w)
    BY DEF byPrecedence
  <2> HIDE DEF signs
  <2>7. compareSemver(v, w) =
          IF Lexicographic(signs, v.triple, w.triple) # 0 THEN Lexicographic(signs, v.triple, w.triple)
          ELSE IF <<>> \in {v.pre, w.pre} THEN cmpInt(Len(w.pre), Len(v.pre))
          ELSE comparePrerelease(v.pre, w.pre)
    BY DEF compareSemver, signs
  <2> QED
    BY <2>4, <2>5, <2>6, <2>7
<1> DEFINE t(v, w) == byTriple[<<v.triple, w.triple>>]
           q(v, w) == IF <<>> \in {v.pre, w.pre} THEN cmpInt(Len(w.pre), Len(v.pre))
                      ELSE byPrerelease[<<v.pre, w.pre>>]
<1>4. /\ \A v, w \in ParsedVersions : t(v, w) \in {-1, 0, 1}
      /\ \A v, w \in ParsedVersions : t(v, w) = 0 <=> v.triple = w.triple
      /\ \A v, w \in ParsedVersions : t(w, v) = -t(v, w)
      /\ \A u, v, w \in ParsedVersions : t(u, v) = -1 /\ t(v, w) = -1 => t(u, w) = -1
  BY <1>1, <1>2 DEF IsOrder
<1>5. /\ \A v, w \in ParsedVersions : q(v, w) \in {-1, 0, 1}
      /\ \A v, w \in ParsedVersions : q(v, w) = 0 <=> v.pre = w.pre
      /\ \A v, w \in ParsedVersions : q(w, v) = -q(v, w)
      /\ \A u, v, w \in ParsedVersions : q(u, v) = -1 /\ q(v, w) = -1 => q(u, w) = -1
  BY <1>2, PrereleasesOrdered DEF IsOrder, cmpInt
<1>6. \A v, w \in ParsedVersions : v = w <=> v.triple = w.triple /\ v.pre = w.pre
  BY DEF ParsedVersions
<1>7. \A v, w \in ParsedVersions :
        byPrecedence[<<v, w>>] = IF t(v, w) # 0 THEN t(v, w) ELSE q(v, w)
  BY <1>3
<1> HIDE DEF t, q
<1>8. \A u, v, w \in ParsedVersions :
        (t(u, v) = 0 => t(u, w) = t(v, w)) /\ (t(v, w) = 0 => t(u, w) = t(u, v))
  BY <1>4 DEF t
<1> QED
  BY <1>4, <1>5, <1>6, <1>7, <1>8 DEF IsOrder
-----------------------------------------------------------------------------
(* The splitter.                                                           *)

\* f[n] holds the identifiers of the first n codes of s, for every n up to k.
Splits(f, s, k) ==
    f = [n \in 0..k |-> IF n = 0 THEN <<<<>>>> ELSE Extended(f[n - 1], s[n])]

\* The recursion of Identifiers has a solution: a shortest prefix without one would
\* follow a prefix that has one, which the next code extends.
LEMMA SplitExists ==
    ASSUME NEW s, NEW k \in Nat
    PROVE  \E f : Splits(f, s, k)
<1> DEFINE S == {n \in Nat : ~ \E f : Splits(f, s, n)}
<1>1. ASSUME S # {} PROVE FALSE
  <2>1. PICK m \in S : \A n \in S : m <= n
    <3>1. S \subseteq Nat
      OBVIOUS
    <3> HIDE DEF S
    <3> QED
      BY <1>1, <3>1, FirstPlace
  <2>2. m # 0
    <3>1. Splits([n \in 0..0 |-> <<<<>>>>], s, 0)
      BY DEF Splits
    <3> QED
      BY <3>1
  <2>3. PICK g : Splits(g, s, m - 1)
    <3>1. m - 1 \in Nat /\ ~(m <= m - 1)
      BY <2>2
    <3>2. m - 1 \notin S
      BY <2>1, <3>1
    <3> QED
      BY <3>1, <3>2
  <2> DEFINE f == [n \in 0..m |-> IF n = m THEN Extended(g[m - 1], s[m]) ELSE g[n]]
  <2>4. ASSUME NEW n \in 0..m
        PROVE  f[n] = IF n = 0 THEN <<<<>>>> ELSE Extended(f[n - 1], s[n])
    <3>1. CASE n = m
      BY <2>2, <3>1
    <3>2. CASE n # m
      <4>1. n \in 0..(m - 1)
        BY <3>2
      <4>2. g[n] = IF n = 0 THEN <<<<>>>> ELSE Extended(g[n - 1], s[n])
        BY <2>3, <4>1 DEF Splits
      <4>3. n # 0 => f[n - 1] = g[n - 1]
        BY <4>1
      <4> QED
        BY <3>2, <4>2, <4>3
    <3> QED
      BY <3>1, <3>2
  <2>5. Splits(f, s, m)
    <3>1. f = [n \in 0..m |-> f[n]]
      OBVIOUS
    <3> HIDE DEF f
    <3>2. [n \in 0..m |-> f[n]] = [n \in 0..m |-> IF n = 0 THEN <<<<>>>> ELSE Extended(f[n - 1], s[n])]
      BY <2>4
    <3> QED
      BY <3>1, <3>2 DEF Splits
  <2> QED
    BY <2>1, <2>5
<1> QED
  BY <1>1

\* What Identifiers computes is such a solution at the end of its string.
LEMMA IdentifiersSplit ==
    ASSUME NEW s, Len(s) \in Nat
    PROVE  \E f : Splits(f, s, Len(s)) /\ Identifiers(s) = f[Len(s)]
<1> DEFINE f == CHOOSE g : Splits(g, s, Len(s))
<1>1. Splits(f, s, Len(s))
  BY SplitExists
<1>2. Identifiers(s) = f[Len(s)]
  BY DEF Identifiers, Splits
<1> QED
  BY <1>1, <1>2
\* Sequences are the same when their elements are.
LEMMA SameSequence ==
    ASSUME NEW T, NEW x \in Seq(T), NEW y \in Seq(T), Len(x) = Len(y),
           \A i \in 1..Len(x) : x[i] = y[i]
    PROVE  x = y
OBVIOUS

LEMMA OneMore ==
    ASSUME NEW T, NEW x \in Seq(T), NEW c \in T
    PROVE  /\ Append(x, c) \in Seq(T) /\ Len(Append(x, c)) = Len(x) + 1
           /\ Append(x, c) # <<>>
           /\ Append(x, c)[Len(x) + 1] = c
           /\ \A i \in 1..Len(x) : Append(x, c)[i] = x[i]
<1>1. Append(x, c) \in Seq(T) /\ Len(Append(x, c)) = Len(x) + 1 /\ Len(x) \in Nat
  OBVIOUS
<1>2. Len(<<>>) = 0
  OBVIOUS
<1>3. Append(x, c) # <<>>
  BY <1>1, <1>2
<1> QED
  BY <1>1, <1>3

\* One more code gives identifiers again, never the single empty one, and says which
\* identifiers and which code it was.
LEMMA ExtendedTyped ==
    ASSUME NEW ids \in Seq(Ids), Len(ids) > 0, NEW c \in Int
    PROVE  Extended(ids, c) \in Seq(Ids) /\ Len(Extended(ids, c)) > 0
<1>1. CASE c = Dot
  <2>1. <<>> \in Ids
    BY DEF Ids
  <2>2. Append(ids, <<>>) \in Seq(Ids) /\ Len(Append(ids, <<>>)) = Len(ids) + 1
    BY <2>1
  <2> QED
    BY <1>1, <2>2 DEF Extended
<1>2. CASE c # Dot
  <2>1. Len(ids) \in 1..Len(ids)
    OBVIOUS
  <2>2. Append(ids[Len(ids)], c) \in Ids
    BY <2>1 DEF Ids
  <2> DEFINE more == [ids EXCEPT ![Len(ids)] = Append(ids[Len(ids)], c)]
  <2>3. more \in Seq(Ids) /\ Len(more) = Len(ids)
    BY <2>1, <2>2
  <2> QED
    BY <1>2, <2>3 DEF Extended
<1> QED
  BY <1>1, <1>2

\* The last identifier of an extension is empty exactly after a dot.
LEMMA ExtendedLast ==
    ASSUME NEW ids \in Seq(Ids), Len(ids) > 0, NEW c \in Int
    PROVE  LET more == Extended(ids, c)
           IN  IF c = Dot THEN Len(more) = Len(ids) + 1 /\ more[Len(more)] = <<>>
               ELSE /\ Len(more) = Len(ids)
                    /\ more[Len(more)] = Append(ids[Len(ids)], c)
                    /\ more[Len(more)] # <<>>
<1>1. CASE c = Dot
  BY <1>1 DEF Extended
<1>2. CASE c # Dot
  <2>1. Len(ids) \in 1..Len(ids) /\ ids[Len(ids)] \in Ids
    OBVIOUS
  <2>2. Append(ids[Len(ids)], c) # <<>>
    <3>1. ids[Len(ids)] \in Seq(Int)
      BY <2>1 DEF Ids
    <3> QED
      BY <3>1, OneMore
  <2> DEFINE more == [ids EXCEPT ![Len(ids)] = Append(ids[Len(ids)], c)]
  <2>3. Len(more) = Len(ids) /\ more[Len(ids)] = Append(ids[Len(ids)], c)
    BY <2>1
  <2> QED
    BY <1>2, <2>2, <2>3 DEF Extended
<1> QED
  BY <1>1, <1>2

LEMMA ExtendedInjective ==
    ASSUME NEW a \in Seq(Ids), NEW b \in Seq(Ids), Len(a) > 0, Len(b) > 0,
           NEW c \in Int, NEW d \in Int, Extended(a, c) = Extended(b, d)
    PROVE  a = b /\ c = d
<1>1. c = Dot <=> d = Dot
  BY ExtendedLast
<1>2. CASE c = Dot
  <2>1. d = Dot
    BY <1>1, <1>2
  <2>2. Append(a, <<>>) = Append(b, <<>>)
    BY <1>2, <2>1 DEF Extended
  <2>3. Len(a) = Len(b)
    BY <2>2
  <2>4. ASSUME NEW i \in 1..Len(a) PROVE a[i] = b[i]
    <3>1. Append(a, <<>>)[i] = a[i] /\ Append(b, <<>>)[i] = b[i]
      BY <2>3
    <3> QED
      BY <2>2, <3>1
  <2>5. a = b
    BY <2>3, <2>4
  <2> QED
    BY <1>2, <2>1, <2>5
<1>3. CASE c # Dot
  <2>1. d # Dot
    BY <1>1, <1>3
  <2>2. /\ Len(a) = Len(b)
        /\ Append(a[Len(a)], c) = Append(b[Len(a)], d)
    BY <1>3, <2>1, ExtendedLast
  <2>3. PICK n \in Nat : n = Len(a) /\ n = Len(b) /\ n > 0
    BY <2>2
  <2>4. a[n] \in Ids /\ b[n] \in Ids
    <3>1. n \in 1..Len(a) /\ n \in 1..Len(b)
      BY <2>3
    <3> QED
      BY <3>1
  <2>5. \A x, y \in Ids : Append(x, c) = Append(y, d) => x = y /\ c = d
    <3> SUFFICES ASSUME NEW x \in Ids, NEW y \in Ids, Append(x, c) = Append(y, d)
                 PROVE  x = y /\ c = d
      OBVIOUS
    <3>0. x \in Seq(Int) /\ y \in Seq(Int)
      BY DEF Ids
    <3>1. /\ Len(x) \in Nat /\ Len(Append(x, c)) = Len(x) + 1
          /\ Len(y) \in Nat /\ Len(Append(y, d)) = Len(y) + 1
      BY <3>0, OneMore
    <3>2. Len(x) = Len(y)
      BY <3>1
    <3>3. /\ Append(x, c)[Len(x) + 1] = c /\ \A i \in 1..Len(x) : Append(x, c)[i] = x[i]
          /\ Append(y, d)[Len(y) + 1] = d /\ \A i \in 1..Len(y) : Append(y, d)[i] = y[i]
      <4>1. \A z \in Seq(Int), v \in Int : /\ Append(z, v)[Len(z) + 1] = v
                                           /\ \A i \in 1..Len(z) : Append(z, v)[i] = z[i]
        BY OneMore
      <4> QED
        BY <3>0, <4>1
    <3>4. x = y
      BY <3>0, <3>2, <3>3, SameSequence
    <3> QED
      BY <3>2, <3>3, <3>4
  <2>6. a[n] = b[n] /\ c = d
    BY <2>2, <2>3, <2>4, <2>5
  <2>7. [a EXCEPT ![n] = Append(a[n], c)] = [b EXCEPT ![n] = Append(b[n], d)]
    BY <1>3, <2>1, <2>3 DEF Extended
  <2>8. ASSUME NEW i \in 1..n PROVE a[i] = b[i]
    <3>1. DOMAIN a = 1..n /\ DOMAIN b = 1..n
      <4>1. DOMAIN a = 1..Len(a) /\ DOMAIN b = 1..Len(b)
        OBVIOUS
      <4> QED
        BY <2>3, <4>1
    <3>2. CASE i = n
      BY <2>6, <3>2
    <3>3. CASE i # n
      <4>1. /\ [a EXCEPT ![n] = Append(a[n], c)][i] = a[i]
            /\ [b EXCEPT ![n] = Append(b[n], d)][i] = b[i]
        BY <3>1, <3>3
      <4> QED
        BY <2>7, <4>1
    <3> QED
      BY <3>2, <3>3
  <2>9. a = b
    BY <2>3, <2>8, SameSequence
  <2> QED
    BY <2>6, <2>9
<1> QED
  BY <1>2, <1>3

\* The empty string has one identifier, the empty one.
LEMMA FirstIds ==
    <<<<>>>> \in Seq(Ids) /\ Len(<<<<>>>>) = 1 /\ <<<<>>>>[Len(<<<<>>>>)] = <<>>
<1>1. <<>> \in Ids
  BY DEF Ids
<1> QED
  BY <1>1

\* Every prefix has identifiers, at least one.
LEMMA SplitTyped ==
    ASSUME NEW s \in Seq(Int), NEW f, Splits(f, s, Len(s)), NEW n \in 0..Len(s)
    PROVE  f[n] \in Seq(Ids) /\ Len(f[n]) > 0
<1> DEFINE S == {m \in 0..Len(s) : ~(f[m] \in Seq(Ids) /\ Len(f[m]) > 0)}
<1>1. ASSUME S # {} PROVE FALSE
  <2>1. PICK m \in S : \A i \in S : m <= i
    <3>1. S \subseteq Nat
      OBVIOUS
    <3> HIDE DEF S
    <3> QED
      BY <1>1, <3>1, FirstPlace
  <2>2. f[m] = IF m = 0 THEN <<<<>>>> ELSE Extended(f[m - 1], s[m])
    BY DEF Splits
  <2>3. CASE m = 0
    <3>1. f[m] = <<<<>>>>
      BY <2>2, <2>3
    <3>2. f[m] \in Seq(Ids) /\ Len(f[m]) = 1
      BY <3>1, FirstIds, Zenon
    <3>3. ~(f[m] \in Seq(Ids) /\ Len(f[m]) > 0)
      BY <2>1
    <3> QED
      BY <3>2, <3>3
  <2>4. CASE m # 0
    <3>1. m - 1 \in 0..Len(s) /\ ~(m <= m - 1) /\ s[m] \in Int
      BY <2>4
    <3>2. f[m - 1] \in Seq(Ids) /\ Len(f[m - 1]) > 0
      BY <2>1, <3>1
    <3> QED
      BY <2>2, <2>4, <3>1, <3>2, ExtendedTyped
  <2> QED
    BY <2>3, <2>4
<1> QED
  BY <1>1

\* The identifiers of a prefix are the identifiers of no other prefix of anything.
LEMMA SplitInjective ==
    ASSUME NEW s \in Seq(Int), NEW f, Splits(f, s, Len(s)),
           NEW t \in Seq(Int), NEW g, Splits(g, t, Len(t)),
           NEW n \in 0..Len(s), NEW m \in 0..Len(t), f[n] = g[m]
    PROVE  n = m /\ \A i \in 1..n : s[i] = t[i]
<1> DEFINE Same(i, j) == i = j /\ \A p \in 1..i : s[p] = t[p]
           S == {i \in 0..Len(s) : \E j \in 0..Len(t) : f[i] = g[j] /\ ~Same(i, j)}
<1>1. ASSUME S # {} PROVE FALSE
  <2>1. PICK i \in S : \A k \in S : i <= k
    <3>1. S \subseteq Nat
      OBVIOUS
    <3> HIDE DEF S
    <3> QED
      BY <1>1, <3>1, FirstPlace
  <2>2. PICK j \in 0..Len(t) : f[i] = g[j] /\ ~Same(i, j)
    OBVIOUS
  <2>3. /\ f[i] = IF i = 0 THEN <<<<>>>> ELSE Extended(f[i - 1], s[i])
        /\ g[j] = IF j = 0 THEN <<<<>>>> ELSE Extended(g[j - 1], t[j])
    BY DEF Splits
  <2>4. ASSUME NEW ids \in Seq(Ids), Len(ids) > 0, NEW c \in Int
        PROVE  Extended(ids, c) # <<<<>>>>
    <3>1. PICK more : more = Extended(ids, c)
      OBVIOUS
    <3>2. Len(more) # 1 \/ more[Len(more)] # <<>>
      BY <2>4, <3>1, ExtendedLast
    <3>3. more # <<<<>>>>
      BY <3>2, FirstIds, Zenon
    <3> QED
      BY <3>1, <3>3
  <2>5. i # 0 => /\ i - 1 \in 0..Len(s) /\ s[i] \in Int /\ i - 1 \notin S
                 /\ f[i - 1] \in Seq(Ids) /\ Len(f[i - 1]) > 0
    <3> SUFFICES ASSUME i # 0
                 PROVE  /\ i - 1 \in 0..Len(s) /\ s[i] \in Int /\ i - 1 \notin S
                        /\ f[i - 1] \in Seq(Ids) /\ Len(f[i - 1]) > 0
      OBVIOUS
    <3>1. i - 1 \in 0..Len(s) /\ s[i] \in Int /\ ~(i <= i - 1)
      OBVIOUS
    <3>2. f[i - 1] \in Seq(Ids) /\ Len(f[i - 1]) > 0
      BY <3>1, SplitTyped
    <3>3. i - 1 \notin S
      <4> HIDE DEF S
      <4> QED
        BY <2>1, <3>1
    <3> QED
      BY <3>1, <3>2, <3>3
  <2>6. j # 0 => /\ j - 1 \in 0..Len(t) /\ t[j] \in Int
                 /\ g[j - 1] \in Seq(Ids) /\ Len(g[j - 1]) > 0
    <3> SUFFICES ASSUME j # 0
                 PROVE  /\ j - 1 \in 0..Len(t) /\ t[j] \in Int
                        /\ g[j - 1] \in Seq(Ids) /\ Len(g[j - 1]) > 0
      OBVIOUS
    <3>1. j - 1 \in 0..Len(t) /\ t[j] \in Int
      OBVIOUS
    <3> QED
      BY <3>1, SplitTyped
  <2>7. i = 0 <=> j = 0
    <3>1. i # 0 => f[i] # <<<<>>>>
      BY <2>3, <2>4, <2>5
    <3>2. j # 0 => g[j] # <<<<>>>>
      BY <2>3, <2>4, <2>6
    <3> QED
      BY <2>2, <2>3, <3>1, <3>2
  <2>8. CASE i = 0
    BY <2>2, <2>7, <2>8
  <2>9. CASE i # 0
    <3>1. Extended(f[i - 1], s[i]) = Extended(g[j - 1], t[j])
      BY <2>2, <2>3, <2>7, <2>9
    <3>2. f[i - 1] = g[j - 1] /\ s[i] = t[j]
      <4> HIDE DEF S
      <4>1. /\ f[i - 1] \in Seq(Ids) /\ Len(f[i - 1]) > 0 /\ s[i] \in Int
            /\ g[j - 1] \in Seq(Ids) /\ Len(g[j - 1]) > 0 /\ t[j] \in Int
        BY <2>5, <2>6, <2>7, <2>9
      <4>2. \A x, y \in Seq(Ids) : \A c, d \in Int :
              Len(x) > 0 /\ Len(y) > 0 /\ Extended(x, c) = Extended(y, d) => x = y /\ c = d
        BY ExtendedInjective
      <4> QED
        BY <3>1, <4>1, <4>2
    <3>3. Same(i - 1, j - 1)
      BY <2>5, <2>6, <2>7, <2>9, <3>2
    <3>4. i = j /\ \A p \in 1..(i - 1) : s[p] = t[p]
      BY <3>3
    <3>5. \A p \in 1..i : p = i \/ p \in 1..(i - 1)
      OBVIOUS
    <3>6. Same(i, j)
      BY <3>2, <3>4, <3>5
    <3> QED
      BY <2>2, <3>6
  <2> QED
    BY <2>8, <2>9
<1>2. Same(n, m)
  BY <1>1
<1> QED
  BY <1>2
\* Splitting at the dots yields at least one identifier, and loses nothing: a string is
\* told by its identifiers.
LEMMA IdentifiersTyped ==
    ASSUME NEW s \in Seq(Int)
    PROVE  Identifiers(s) \in Seq(Ids) /\ Len(Identifiers(s)) > 0
<1>1. Len(s) \in Nat /\ Len(s) \in 0..Len(s)
  OBVIOUS
<1>2. PICK f : Splits(f, s, Len(s)) /\ Identifiers(s) = f[Len(s)]
  BY <1>1, IdentifiersSplit
<1> QED
  BY <1>1, <1>2, SplitTyped

LEMMA IdentifiersInjective ==
    ASSUME NEW s \in Seq(Int), NEW t \in Seq(Int), Identifiers(s) = Identifiers(t)
    PROVE  s = t
<1>1. /\ Len(s) \in Nat /\ Len(s) \in 0..Len(s)
      /\ Len(t) \in Nat /\ Len(t) \in 0..Len(t)
  OBVIOUS
<1>2. PICK f : Splits(f, s, Len(s)) /\ Identifiers(s) = f[Len(s)]
  BY <1>1, IdentifiersSplit
<1>3. PICK g : Splits(g, t, Len(t)) /\ Identifiers(t) = g[Len(t)]
  BY <1>1, IdentifiersSplit
<1>4. Len(s) = Len(t) /\ \A i \in 1..Len(s) : s[i] = t[i]
  <2>1. \A n \in 0..Len(s) : \A m \in 0..Len(t) :
          f[n] = g[m] => n = m /\ \A i \in 1..n : s[i] = t[i]
    BY <1>2, <1>3, SplitInjective
  <2> QED
    BY <1>1, <1>2, <1>3, <2>1
<1> QED
  BY <1>4, SameSequence

-----------------------------------------------------------------------------
(* The parser.                                                             *)

\* Cutting a string at the first of a code.
LEMMA CutAt ==
    ASSUME NEW s \in Seq(Int), NEW c, Has(s, c)
    PROVE  \E p \in 1..Len(s) : /\ s[p] = c
                                /\ Before(s, c) = SubSeq(s, 1, p - 1)
                                /\ After(s, c) = SubSeq(s, p + 1, Len(s))
<1> DEFINE S == {i \in DOMAIN s : s[i] = c}
<1>1. S \subseteq Nat /\ S # {}
  BY DEF Has, ToSet
<1>2. PICK p \in S : \A j \in S : p <= j
  <2> HIDE DEF S
  <2> QED
    BY <1>1, FirstPlace
<1>3. \A j \in 1..(p - 1) : s[j] # c
  <2> SUFFICES ASSUME NEW j \in 1..(p - 1), s[j] = c PROVE FALSE
    OBVIOUS
  <2>1. j \in S /\ ~(p <= j)
    OBVIOUS
  <2> HIDE DEF S
  <2> QED
    BY <1>2, <2>1
<1>4. PICK i \in DOMAIN s : /\ i = IndexByte(s, c) /\ s[i] = c
                            /\ \A j \in 1..(i - 1) : s[j] # c
  BY <1>3 DEF IndexByte
<1>5. i \in 1..Len(s)
  OBVIOUS
<1>6. /\ Before(s, c) = SubSeq(s, 1, i - 1)
      /\ After(s, c) = SubSeq(s, i + 1, Len(s))
  BY <1>4 DEF Before, After
<1> QED
  BY <1>4, <1>5, <1>6

\* Where there is the code, the string is what stands before it and what stands after it,
\* so it is told by the two.
LEMMA CutTyped ==
    ASSUME NEW s \in Seq(Int), NEW c
    PROVE  Before(s, c) \in Seq(Int) /\ (Has(s, c) => After(s, c) \in Seq(Int))
<1>1. CASE Has(s, c)
  <2>1. PICK p \in 1..Len(s) : /\ Before(s, c) = SubSeq(s, 1, p - 1)
                               /\ After(s, c) = SubSeq(s, p + 1, Len(s))
    BY <1>1, CutAt
  <2>2. SubSeq(s, 1, p - 1) \in Seq(Int) /\ SubSeq(s, p + 1, Len(s)) \in Seq(Int)
    OBVIOUS
  <2> QED
    BY <2>1, <2>2
<1>2. CASE ~Has(s, c)
  BY <1>2 DEF Before
<1> QED
  BY <1>1, <1>2

LEMMA CutInjective ==
    ASSUME NEW s \in Seq(Int), NEW t \in Seq(Int), NEW c, Has(s, c), Has(t, c),
           Before(s, c) = Before(t, c), After(s, c) = After(t, c)
    PROVE  s = t
<1>1. PICK p \in 1..Len(s) : /\ s[p] = c
                             /\ Before(s, c) = SubSeq(s, 1, p - 1)
                             /\ After(s, c) = SubSeq(s, p + 1, Len(s))
  BY CutAt
<1>2. PICK q \in 1..Len(t) : /\ t[q] = c
                             /\ Before(t, c) = SubSeq(t, 1, q - 1)
                             /\ After(t, c) = SubSeq(t, q + 1, Len(t))
  BY CutAt
<1>3. p = q
  <2>1. Len(SubSeq(s, 1, p - 1)) = p - 1 /\ Len(SubSeq(t, 1, q - 1)) = q - 1
    OBVIOUS
  <2>2. p - 1 = q - 1
    BY <1>1, <1>2, <2>1
  <2> QED
    BY <2>2
<1>4. Len(s) = Len(t)
  <2>1. /\ Len(SubSeq(s, p + 1, Len(s))) = Len(s) - p
        /\ Len(SubSeq(t, q + 1, Len(t))) = Len(t) - q
    OBVIOUS
  <2>2. Len(s) - p = Len(t) - q
    BY <1>1, <1>2, <2>1
  <2> QED
    BY <1>3, <2>2
<1>5. ASSUME NEW i \in 1..Len(s) PROVE s[i] = t[i]
  <2>1. CASE i < p
    <3>1. SubSeq(s, 1, p - 1)[i] = s[i] /\ SubSeq(t, 1, p - 1)[i] = t[i]
      BY <1>3, <1>4, <2>1
    <3> QED
      BY <1>1, <1>2, <1>3, <3>1
  <2>2. CASE i = p
    BY <1>1, <1>2, <1>3, <2>2
  <2>3. CASE i > p
    <3>1. /\ SubSeq(s, p + 1, Len(s))[i - p] = s[i]
          /\ SubSeq(t, p + 1, Len(t))[i - p] = t[i]
      BY <1>3, <1>4, <2>3
    <3> QED
      BY <1>1, <1>2, <1>3, <3>1
  <2> QED
    BY <2>1, <2>2, <2>3
<1> QED
  BY <1>4, <1>5, SameSequence

\* A string without its build metadata, and what parseSemver reads of it.
Plain(s) == Before(s, Plus)

LEMMA ParsedAs ==
    ASSUME NEW s \in Seq(Int), parseSemver(s) # Malformed
    PROVE  /\ parseSemver(s).triple = Identifiers(Before(Plain(s), Dash))
           /\ parseSemver(s).pre = IF Has(Plain(s), Dash)
                                     THEN Identifiers(After(Plain(s), Dash)) ELSE <<>>
           /\ parseSemver(s) = [triple |-> parseSemver(s).triple, pre |-> parseSemver(s).pre]
           /\ Len(parseSemver(s).triple) = 3
BY DEF parseSemver, Plain

\* Whatever parseSemver accepts is three numbers and identifiers, however long: the order
\* of versions is an order of everything it accepts.
THEOREM ParserYieldsVersions ==
    ASSUME NEW s \in Seq(Int), parseSemver(s) # Malformed
    PROVE  parseSemver(s) \in ParsedVersions
<1>1. Plain(s) \in Seq(Int)
  BY CutTyped DEF Plain
<1>2. parseSemver(s).triple \in Seq(Ids)
  BY <1>1, ParsedAs, CutTyped, IdentifiersTyped
<1>3. parseSemver(s).pre \in Seq(Ids)
  <2>1. CASE Has(Plain(s), Dash)
    <3>1. After(Plain(s), Dash) \in Seq(Int)
      BY <1>1, <2>1, CutTyped
    <3> QED
      BY <2>1, <3>1, ParsedAs, IdentifiersTyped
  <2>2. CASE ~Has(Plain(s), Dash)
    <3>1. parseSemver(s).pre = <<>>
      BY <2>2, ParsedAs
    <3> QED
      BY <3>1
  <2> QED
    BY <2>1, <2>2
<1> QED
  BY <1>2, <1>3, ParsedAs DEF ParsedVersions

\* Nothing but build metadata is lost in parsing.
LEMMA ParserInjective ==
    ASSUME NEW s \in Seq(Int), parseSemver(s) # Malformed,
           NEW t \in Seq(Int), parseSemver(t) = parseSemver(s)
    PROVE  Plain(s) = Plain(t)
<1>1. Plain(s) \in Seq(Int) /\ Plain(t) \in Seq(Int)
  BY CutTyped DEF Plain
<1>2. Before(Plain(s), Dash) = Before(Plain(t), Dash)
  <2>1. Before(Plain(s), Dash) \in Seq(Int) /\ Before(Plain(t), Dash) \in Seq(Int)
    BY <1>1, CutTyped
  <2>2. Identifiers(Before(Plain(s), Dash)) = Identifiers(Before(Plain(t), Dash))
    BY ParsedAs
  <2> QED
    BY <2>1, <2>2, IdentifiersInjective
<1>3. ASSUME NEW u \in Seq(Int), parseSemver(u) # Malformed
      PROVE  Has(Plain(u), Dash) <=> parseSemver(u).pre # <<>>
  <2>1. CASE Has(Plain(u), Dash)
    <3>1. After(Plain(u), Dash) \in Seq(Int)
      BY <2>1, CutTyped DEF Plain
    <3>2. Len(Identifiers(After(Plain(u), Dash))) > 0
      BY <3>1, IdentifiersTyped
    <3>3. Identifiers(After(Plain(u), Dash)) # <<>>
      BY <3>2
    <3> QED
      BY <1>3, <2>1, <3>3, ParsedAs
  <2>2. CASE ~Has(Plain(u), Dash)
    BY <1>3, <2>2, ParsedAs
  <2> QED
    BY <2>1, <2>2
<1>4. Has(Plain(s), Dash) <=> Has(Plain(t), Dash)
  BY <1>3
<1>5. CASE Has(Plain(s), Dash)
  <2>1. Identifiers(After(Plain(s), Dash)) = Identifiers(After(Plain(t), Dash))
    BY <1>4, <1>5, ParsedAs
  <2>2. After(Plain(s), Dash) \in Seq(Int) /\ After(Plain(t), Dash) \in Seq(Int)
    BY <1>1, <1>4, <1>5, CutTyped
  <2>3. After(Plain(s), Dash) = After(Plain(t), Dash)
    BY <2>1, <2>2, IdentifiersInjective
  <2> QED
    BY <1>1, <1>2, <1>4, <1>5, <2>3, CutInjective
<1>6. CASE ~Has(Plain(s), Dash)
  BY <1>2, <1>4, <1>6 DEF Before
<1> QED
  BY <1>5, <1>6

\* Two accepted strings compare as equal exactly when they are the same text up to their
\* build metadata: no two spellings of one version exist, a leading zero or an empty
\* identifier being refused, and no two versions are taken for one (semver.go,
\* parseSemver and compareSemver).
THEOREM EqualVersionsAreOneText ==
    ASSUME NEW s \in Seq(Int), parseSemver(s) # Malformed,
           NEW t \in Seq(Int), parseSemver(t) # Malformed
    PROVE  compareSemver(parseSemver(s), parseSemver(t)) = 0 <=> Plain(s) = Plain(t)
<1>1. parseSemver(s) \in ParsedVersions /\ parseSemver(t) \in ParsedVersions
  BY ParserYieldsVersions
<1>2. compareSemver(parseSemver(s), parseSemver(t)) = 0 <=> parseSemver(s) = parseSemver(t)
  <2>1. ASSUME NEW v \in ParsedVersions, NEW w \in ParsedVersions
        PROVE  compareSemver(v, w) = 0 <=> v = w
    <3>1. compareSemver(v, w) = byPrecedence[<<v, w>>]
      BY DEF byPrecedence
    <3>2. byPrecedence[<<v, w>>] = 0 <=> v = w
      BY PrecedenceIsOrder DEF IsOrder
    <3> QED
      BY <3>1, <3>2
  <2> QED
    BY <1>1, <2>1
<1>3. parseSemver(s) = parseSemver(t) => Plain(s) = Plain(t)
  BY ParserInjective
<1>4. Plain(s) = Plain(t) => parseSemver(s) = parseSemver(t)
  BY ParsedAs
<1> QED
  BY <1>2, <1>3, <1>4
=============================================================================
