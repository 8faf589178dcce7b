------------------------------- MODULE Semver -------------------------------
(***************************************************************************)
(* semver.go: the strict parser and the precedence order behind the three  *)
(* semver operators. A string is the sequence of its ASCII codes; a parsed *)
(* version is [triple, pre], pre being <<>> where there is no prerelease   *)
(* (a present one has an identifier), and Malformed where parseSemver      *)
(* returns false. Numbers stay digit sequences: without leading zeros,     *)
(* length first and then digit by digit is numeric order at every width.   *)
(***************************************************************************)
EXTENDS Integers, Sequences, SequencesExt

Plus == 43
Dash == 45
Dot == 46
Digits == 48..57
Letters == (65..90) \cup (97..122)

Malformed == [triple |-> <<>>, pre |-> <<>>]

\* 2^64 - 1.
MaxUint64 == <<49, 56, 52, 52, 54, 55, 52, 52, 48, 55, 51, 55, 48, 57, 53, 53, 49, 54, 49, 53>>

-----------------------------------------------------------------------------
(* Comparing: -1, 0 or 1.                                                  *)

cmpInt(a, b) == IF a < b THEN -1 ELSE IF a > b THEN 1 ELSE 0

\* By the first place that differs; a proper prefix is lower. signs compares x and y
\* place by place.
Lexicographic(signs, x, y) ==
    IF \A i \in DOMAIN signs : signs[i] = 0 THEN cmpInt(Len(x), Len(y))
    ELSE signs[CHOOSE i \in DOMAIN signs : signs[i] # 0 /\ \A j \in 1..(i - 1) : signs[j] = 0]

Shared(x, y) == DOMAIN x \cap DOMAIN y

\* strings.Compare.
CompareText(x, y) == Lexicographic([i \in Shared(x, y) |-> cmpInt(x[i], y[i])], x, y)

CompareDigits(x, y) ==
    IF Len(x) # Len(y) THEN cmpInt(Len(x), Len(y)) ELSE CompareText(x, y)

\* Non-empty, all digits, no leading zero unless it is the digit zero.
isNumericIdentifier(id) ==
    /\ id # <<>>
    /\ ToSet(id) \subseteq Digits
    /\ Len(id) = 1 \/ id[1] # 48

\* (Mutation) Numeric identifiers are compared as text.
compareIdentifier_AsText(a, b) ==
    IF isNumericIdentifier(a) = isNumericIdentifier(b) THEN CompareText(a, b)
    ELSE IF isNumericIdentifier(a) THEN -1 ELSE 1

\* A numeric identifier is below an alphanumeric one.
compareIdentifier(a, b) ==
    IF isNumericIdentifier(a) /\ isNumericIdentifier(b) THEN CompareDigits(a, b)
    ELSE IF isNumericIdentifier(a) THEN -1
    ELSE IF isNumericIdentifier(b) THEN 1
    ELSE CompareText(a, b)

comparePrerelease(x, y) ==
    Lexicographic([i \in Shared(x, y) |-> compareIdentifier(x[i], y[i])], x, y)

\* A release is above every prerelease of its triple.
compareSemver(a, b) ==
    LET triples == Lexicographic([i \in 1..3 |-> CompareDigits(a.triple[i], b.triple[i])],
                                 a.triple, b.triple)
    IN  IF triples # 0 THEN triples
        ELSE IF <<>> \in {a.pre, b.pre} THEN cmpInt(Len(b.pre), Len(a.pre))
        ELSE comparePrerelease(a.pre, b.pre)

-----------------------------------------------------------------------------
(* Parsing.                                                                *)

\* What stands before and after the first c of s (strings.IndexByte).
Has(s, c) == c \in ToSet(s)
IndexByte(s, c) == CHOOSE i \in DOMAIN s : s[i] = c /\ \A j \in 1..(i - 1) : s[j] # c
Before(s, c) == IF Has(s, c) THEN SubSeq(s, 1, IndexByte(s, c) - 1) ELSE s
After(s, c) == SubSeq(s, IndexByte(s, c) + 1, Len(s))

\* The dot-separated identifiers of s, empty ones included (nextIdentifier).
Extended(ids, c) ==
    IF c = Dot THEN Append(ids, <<>>) ELSE [ids EXCEPT ![Len(ids)] = Append(@, c)]
Identifiers(s) ==
    LET upTo[n \in 0..Len(s)] == IF n = 0 THEN <<<<>>>> ELSE Extended(upTo[n - 1], s[n])
    IN  upTo[Len(s)]

\* Build metadata may have leading zeros: it is never compared.
validDotIdentifiers(s, numericStrict) ==
    \A id \in ToSet(Identifiers(s)) :
        /\ id # <<>>
        /\ ToSet(id) \subseteq Digits \cup Letters \cup {Dash}
        /\ numericStrict /\ ToSet(id) \subseteq Digits => isNumericIdentifier(id)

\* A field that does not fit in a uint64 is an error.
takeNumericField(field) == isNumericIdentifier(field) /\ CompareDigits(field, MaxUint64) # 1

\* Build metadata ends at the string's end and starts at its first plus; the
\* prerelease starts at the first dash before that, later ones being letters of it.
parseSemver(s) ==
    LET plain == Before(s, Plus)
        core  == Before(plain, Dash)
    IN  IF /\ Has(s, Plus) => validDotIdentifiers(After(s, Plus), FALSE)
           /\ Has(plain, Dash) => validDotIdentifiers(After(plain, Dash), TRUE)
           /\ Len(Identifiers(core)) = 3
           /\ \A field \in ToSet(Identifiers(core)) : takeNumericField(field)
          THEN [triple |-> Identifiers(core),
                pre    |-> IF Has(plain, Dash) THEN Identifiers(After(plain, Dash)) ELSE <<>>]
          ELSE Malformed
=============================================================================
