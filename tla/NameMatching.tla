---------------------------- MODULE NameMatching ----------------------------
(***************************************************************************)
(* The comparison of a name with the sanctions list (src/src/ofac.ts,      *)
(* similarity and screenNameAgainstIndex).                                 *)
(*                                                                         *)
(* A name as written is a sequence of words, each with what its letters    *)
(* look like; punctuation and spaces are what separates them.  Scores are  *)
(* exact fractions <<numerator, denominator>>; the code's are doubles.     *)
(* Spec and its kin say Match: MCRegisters extends several specifications. *)
(***************************************************************************)
EXTENDS Integers, FiniteSets, Sequences, Functions

CONSTANTS
    Letters,    \* what words are made of
    Queries,    \* the names asked for: see IsName
    Indexes,    \* the lists: sequences of [name, aliases], aliases a sequence
    Thresholds, \* the cutoffs callers may ask for, in hundredths
    Space       \* the character between words, which is no letter

\* Letters are plain, or carry diacritics, or are of a script that is neither.
WrittenWords == [letters : Seq(Letters) \ {<<>>}, script : {"plain", "accented", "foreign"}]
IsName(n) == n \in Seq(WrittenWords)
IsAliases(l) == l \in Seq(Seq(WrittenWords))

ASSUME NamesAssumption ==
    /\ \A q \in Queries : IsName(q)
    /\ \A x \in Indexes :
        /\ DOMAIN x = 1 .. Len(x) /\ Len(x) \in Nat
        /\ \A k \in DOMAIN x : IsName(x[k].name) /\ IsAliases(x[k].aliases)
    /\ Thresholds \subseteq 50 .. 100
    /\ Space \notin Letters

----------------------------------------------------------------------------
\* Mutant: diacritics are taken for punctuation.
normalizeName_ascii(name) ==
    LET words[k \in 0 .. Len(name)] ==
            IF k = 0 THEN <<>>
            ELSE IF name[k].script # "plain" THEN words[k - 1]
            ELSE Append(words[k - 1], name[k].letters)
    IN  words[Len(name)]

\* The words of the normal form.  Accents are folded; a letter outside a-z0-9
\* becomes a space, and a word of such letters disappears.
normalizeName(name) ==
    LET words[k \in 0 .. Len(name)] ==
            IF k = 0 THEN <<>>
            ELSE IF name[k].script = "foreign" THEN words[k - 1]
            ELSE Append(words[k - 1], name[k].letters)
    IN  words[Len(name)]

\* The normal form as the string it is.
Text(words) ==
    LET text[k \in 0 .. Len(words)] ==
            IF k = 0 THEN <<>>
            ELSE IF k = 1 THEN words[1]
            ELSE text[k - 1] \o <<Space>> \o words[k]
    IN  text[Len(words)]

\* The routes take names of up to 200 characters (validateNameScreenQuery), each of which
\* is a letter but for the symbols that stand for up to six.  A name of 699 letters, which
\* takes more than a hundred of those symbols, is left out: there a difference of one letter
\* may be rounded away (CertainIsSame).
LongestQuery == 698
ASSUME LengthAssumption == \A q \in Queries : Len(Text(normalizeName(q))) <= LongestQuery

Smallest(s) == CHOOSE x \in s : \A y \in s : x <= y

levenshtein(a, b) ==
    LET d[p \in (0 .. Len(a)) \X (0 .. Len(b))] ==
            IF p[1] = 0 \/ p[2] = 0 THEN p[1] + p[2]
            ELSE Smallest({d[<<p[1] - 1, p[2]>>] + 1, d[<<p[1], p[2] - 1>>] + 1,
                           d[<<p[1] - 1, p[2] - 1>>] + (IF a[p[1]] = b[p[2]] THEN 0 ELSE 1)})
    IN  d[<<Len(a), Len(b)>>]

Zero == <<0, 1>>
One == <<1, 1>>
Below(s, t) == s[1] * t[2] < t[1] * s[2]
Larger(s, t) == IF Below(s, t) THEN t ELSE s

Weighted(qn, cn) ==
    LET qt == Range(qn)
        ct == Range(cn)
        q == Text(qn)
        c == Text(cn)
        union == Cardinality(qt \union ct)
        maxLen == IF Len(q) < Len(c) THEN Len(c) ELSE Len(q)
    IN  <<65 * Cardinality(qt \intersect ct) * maxLen + 35 * union * (maxLen - levenshtein(q, c)),
          100 * union * maxLen>>

\* Mutants: a query whose words are all there is certain; the bonus is added.
Score_bonus_only(qn, cn) == IF Range(qn) \subseteq Range(cn) THEN One ELSE Weighted(qn, cn)
Score_added(qn, cn) ==
    LET w == Weighted(qn, cn)
    IN  IF Range(qn) \subseteq Range(cn) THEN <<10 * w[1] + 9 * w[2], 10 * w[2]>> ELSE w

Score(qn, cn) ==
    IF Range(qn) \subseteq Range(cn) THEN Larger(Weighted(qn, cn), <<90, 100>>) ELSE Weighted(qn, cn)

similarity(query, candidate) ==
    LET qn == normalizeName(query)
        cn == normalizeName(candidate)
    IN  IF qn = <<>> \/ cn = <<>> THEN Zero
        ELSE IF qn = cn THEN One
        ELSE Score(qn, cn)

\* Math.round(best * 1000), thousandths.
Rounded(s) == (2000 * s[1] + s[2]) \div (2 * s[2])

----------------------------------------------------------------------------
VARIABLES
    query, index, threshold,
    rec,        \* the record being compared
    alias,      \* its next alias, 0 before its name
    best,       \* the best score so far, of the name bestName points at
    bestName,   \* 0 for the record's name, or the number of an alias
    matches,    \* the matches found, [rec, name, score]
    sorted      \* they have been sorted

matchVars == <<query, index, threshold, rec, alias, best, bestName, matches, sorted>>

NameAt(r, k) == IF k = 0 THEN index[r].name ELSE index[r].aliases[k]

MatchInit ==
    /\ query \in Queries /\ index \in Indexes /\ threshold \in Thresholds
    /\ rec = 1 /\ alias = 0
    /\ best = Zero /\ bestName = 0
    /\ matches = <<>> /\ sorted = FALSE

Name ==
    /\ rec <= Len(index) /\ alias = 0
    /\ best' = similarity(query, index[rec].name) /\ bestName' = 0
    /\ alias' = 1
    /\ UNCHANGED <<query, index, threshold, rec, matches, sorted>>

\* Mutant: an alias as good as the name is taken.
Better_or_equal(s) == ~Below(s, best)

Better(s) == Below(best, s)

Alias ==
    /\ rec <= Len(index) /\ alias \in DOMAIN index[rec].aliases
    /\ LET s == similarity(query, index[rec].aliases[alias])
       IN  IF Better(s) THEN best' = s /\ bestName' = alias ELSE UNCHANGED <<best, bestName>>
    /\ alias' = alias + 1
    /\ UNCHANGED <<query, index, threshold, rec, matches, sorted>>

Hit == ~Below(best, <<threshold, 100>>)

Record ==
    /\ rec <= Len(index) /\ alias > Len(index[rec].aliases)
    /\ matches' = IF Hit THEN Append(matches, [rec |-> rec, name |-> bestName, score |-> Rounded(best)])
                  ELSE matches
    /\ rec' = rec + 1 /\ alias' = 0
    /\ UNCHANGED <<query, index, threshold, best, bestName, sorted>>

\* Mutant: ascending.
InOrder_ascending(x, y) == x.score < y.score \/ (x.score = y.score /\ x.rec < y.rec)

\* Array.prototype.sort is stable.
InOrder(x, y) == x.score > y.score \/ (x.score = y.score /\ x.rec < y.rec)

Sort ==
    /\ rec > Len(index) /\ ~sorted
    /\ LET before(x) == {y \in Range(matches) : InOrder(y, x)}
       IN  matches' = [k \in DOMAIN matches |->
                          CHOOSE x \in Range(matches) : Cardinality(before(x)) = k - 1]
    /\ sorted' = TRUE
    /\ UNCHANGED <<query, index, threshold, rec, alias, best, bestName>>

MatchNext == Name \/ Alias \/ Record \/ Sort

MatchSpec == MatchInit /\ [][MatchNext]_matchVars

----------------------------------------------------------------------------
(* Properties.                                                             *)

NamesOf(r) == 0 .. Len(index[r].aliases)
Likeness(r, k) == similarity(query, NameAt(r, k))
Reaches(r, k, t) == ~Below(Likeness(r, k), <<t, 100>>)
Matched(r) == \E m \in Range(matches) : m.rec = r

\* The state stays within its types; the query, the index and the threshold stay as
\* they were chosen.
MatchTypeOK ==
    /\ rec \in 1 .. Len(index) + 1 /\ alias \in Nat
    /\ best[1] \in Nat /\ best[2] \in Nat \ {0} /\ ~Below(One, best)
    /\ alias > 0 => bestName \in NamesOf(rec)
    /\ \A m \in Range(matches) : m.rec \in DOMAIN index /\ m.score \in 0 .. 1000
    /\ sorted \in BOOLEAN

\* A record is reported exactly when one of its names reaches the threshold, and
\* under the name that is closest; an alias is named only if it is closer than the
\* name itself (matched_on).
EveryNameCounts ==
    sorted => \A r \in DOMAIN index :
        /\ Matched(r) <=> \E k \in NamesOf(r) : Reaches(r, k, threshold)
        /\ \A m \in Range(matches) : m.rec = r =>
            /\ m.score = Rounded(Likeness(r, m.name))
            /\ \A k \in NamesOf(r) : ~Below(Likeness(r, m.name), Likeness(r, k))
            /\ m.name # 0 => Below(Likeness(r, 0), Likeness(r, m.name))

\* The best match comes first, and none is lost or doubled by the sorting.
BestFirst ==
    sorted => \A k, l \in DOMAIN matches :
        k < l => matches[k].score >= matches[l].score /\ matches[k].rec # matches[l].rec

\* "Vladimir Putin" must match "PUTIN, Vladimir Vladimirovich": when all the words
\* asked for are in a name, with or without accents, in whatever order, the record
\* is reported at every threshold up to 0.9.
AllWordsAreEnough ==
    sorted /\ threshold <= 90 =>
        \A r \in DOMAIN index : \A k \in NamesOf(r) :
            LET asked == {w \in Range(query) : w.script # "foreign"}
                there == {w \in Range(NameAt(r, k)) : w.script # "foreign"}
            IN  asked # {} /\ {w.letters : w \in asked} \subseteq {w.letters : w \in there} => Matched(r)

\* Full confidence is for the same words in the same order only: no bonus and no
\* rounding makes a candidate look certain.
CertainIsSame ==
    \A m \in Range(matches) : m.score = 1000 => normalizeName(query) = normalizeName(NameAt(m.rec, m.name))

\* Whoever is asked for is found by any name, in the right order and with no more
\* confidence than deserved (screenNameAgainstIndex).
MatchesAreFair == MatchTypeOK /\ EveryNameCounts /\ BestFirst /\ AllWordsAreEnough /\ CertainIsSame
=============================================================================
