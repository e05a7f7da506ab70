---------------------------- MODULE EditDistance ----------------------------
(***************************************************************************)
(* The loop of levenshtein (src/src/ofac.ts): one row of the table at a    *)
(* time, in two arrays that are exchanged after every row.                 *)
(* Spec and its kin say Edit: MCRegisters extends several specifications.  *)
(***************************************************************************)
EXTENDS Integers, FiniteSets, Sequences

CONSTANTS
    Chars,      \* the characters of a normalized name
    MaxLen      \* the longest string (a bound of the model)

ASSUME MaxLenAssumption == MaxLen \in Nat

Strings == UNION {[1 .. n -> Chars] : n \in 0 .. MaxLen}

(***************************************************************************)
(* The reference: an alignment pairs positions of a with positions of b in *)
(* order; what it leaves out is deleted or inserted, what it pairs is kept *)
(* or replaced.  The distance is what the cheapest one costs.              *)
(***************************************************************************)
Alignments(m, n) ==
    {s \in SUBSET ((1 .. m) \X (1 .. n)) :
        \A p, q \in s : p # q => (p[1] < q[1] /\ p[2] < q[2]) \/ (q[1] < p[1] /\ q[2] < p[2])}

AllAlignments == [l \in (0 .. MaxLen) \X (0 .. MaxLen) |-> Alignments(l[1], l[2])]

Cost(a, b, s) == Len(a) + Len(b) - 2 * Cardinality(s) + Cardinality({p \in s : a[p[1]] # b[p[2]]})

Distance(a, b) ==
    CHOOSE d \in {Cost(a, b, s) : s \in AllAlignments[<<Len(a), Len(b)>>]} :
        \A s \in AllAlignments[<<Len(a), Len(b)>>] : d <= Cost(a, b, s)

----------------------------------------------------------------------------
VARIABLES
    a, b,       \* the strings
    prev, cur,  \* the arrays
    i, j,       \* the cell about to be computed
    result      \* the distance returned, -1 before

editVars == <<a, b, prev, cur, i, j, result>>

Least(s) == CHOOSE x \in s : \A y \in s : x <= y

EditInit ==
    /\ a \in Strings /\ b \in Strings
    /\ prev = [k \in 0 .. Len(b) |-> k] /\ cur = [k \in 0 .. Len(b) |-> 0]
    /\ i = 1 /\ j = 0
    /\ result = -1

\* An empty string is as far as the other is long.
ReturnEarly ==
    /\ result = -1 /\ (Len(a) = 0 \/ Len(b) = 0)
    /\ result' = IF Len(a) = 0 THEN Len(b) ELSE Len(a)
    /\ UNCHANGED <<a, b, prev, cur, i, j>>

InRow == result = -1 /\ Len(a) > 0 /\ Len(b) > 0 /\ i <= Len(a)

\* Mutant: the first cell of the exchanged array is not set.
StartRow_stale ==
    /\ InRow /\ j = 0
    /\ j' = 1
    /\ UNCHANGED <<a, b, prev, cur, i, result>>

StartRow ==
    /\ InRow /\ j = 0
    /\ cur' = [cur EXCEPT ![0] = i] /\ j' = 1
    /\ UNCHANGED <<a, b, prev, i, result>>

Cell ==
    /\ InRow /\ j \in 1 .. Len(b)
    /\ cur' = [cur EXCEPT ![j] =
                  Least({prev[j] + 1, cur[j - 1] + 1, prev[j - 1] + (IF a[i] = b[j] THEN 0 ELSE 1)})]
    /\ j' = j + 1
    /\ UNCHANGED <<a, b, prev, i, result>>

\* Mutant: a row is skipped.
EndRow_skip ==
    /\ InRow /\ j > Len(b)
    /\ prev' = cur /\ cur' = prev
    /\ i' = i + 2 /\ j' = 0
    /\ UNCHANGED <<a, b, result>>

EndRow ==
    /\ InRow /\ j > Len(b)
    /\ prev' = cur /\ cur' = prev
    /\ i' = i + 1 /\ j' = 0
    /\ UNCHANGED <<a, b, result>>

Return ==
    /\ result = -1 /\ Len(a) > 0 /\ Len(b) > 0 /\ i > Len(a)
    /\ result' = prev[Len(b)]
    /\ UNCHANGED <<a, b, prev, cur, i, j>>

EditNext == ReturnEarly \/ StartRow \/ Cell \/ EndRow \/ Return

EditSpec == EditInit /\ [][EditNext]_editVars

----------------------------------------------------------------------------
(* Properties.                                                             *)

\* The arrays hold numbers of edits, the loop stays within the strings.
EditTypeOK ==
    /\ prev \in [0 .. Len(b) -> 0 .. 2 * MaxLen] /\ cur \in [0 .. Len(b) -> 0 .. 2 * MaxLen]
    /\ i \in 1 .. Len(a) + 1 /\ j \in 0 .. Len(b) + 1
    /\ result \in -1 .. MaxLen

Prefix(s, n) == SubSeq(s, 1, n)

\* Before every row, `prev` holds the distances of what has been read of a to
\* every beginning of b, whatever the arrays held two rows ago; and the number
\* returned is the least number of edits.
IsLeastEdits ==
    /\ result = -1 => \A k \in 0 .. Len(b) : prev[k] = Distance(Prefix(a, i - 1), Prefix(b, k))
    /\ result # -1 => result = Distance(a, b)

\* The loop of levenshtein computes the distance row by row, within its arrays.
DistanceIsLeast == EditTypeOK /\ IsLeastEdits
=============================================================================
