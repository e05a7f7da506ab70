--------------------------- MODULE ListValidation ---------------------------
(***************************************************************************)
(* The validation of a downloaded OFAC pair (src/src/ofac.ts, fetchText,   *)
(* rowsOf, validateOfacDataset), over publications that change and         *)
(* downloads that may be cut short, damaged or taken of two publications.  *)
(*                                                                         *)
(* A row is what the validation makes of it: the record it is about, and   *)
(* whether it came whole.  The name of a record is its number; an alias of *)
(* record e is a row of the alias file that says e.  Names that            *)
(* NameDataset has too say Validation: MCNameDataset extends both.         *)
(***************************************************************************)
EXTENDS Integers, FiniteSets, Sequences

CONSTANTS
    MaxEnt,             \* records are 1 .. MaxEnt (a bound of the model)
    MinSdn, MinAlt,     \* MIN_SDN_RECORDS, MIN_ALT_RECORDS
    MaxReduction,       \* MAX_REDUCTION_FRACTION, in hundredths
    MaxOrphans          \* MAX_ORPHAN_ALIAS_FRACTION, in hundredths

ASSUME RecordsAssumption ==
    /\ MaxEnt \in Nat /\ MinSdn \in 1 .. MaxEnt /\ MinAlt \in 1 .. MaxEnt
    /\ MaxReduction \in 0 .. 100 /\ MaxOrphans \in 0 .. 100

Ents == 1 .. MaxEnt

VARIABLES
    published, before,  \* what OFAC publishes and published before: [sdn, alt], sets of records
    inUse,              \* the rows the index in use was built from: [sdn, alt], sequences
    verdict             \* of the last download: the reason of its rejection, or "none"

validationVars == <<published, before, inUse, verdict>>

----------------------------------------------------------------------------
(* The files.                                                              *)

\* How a row arrives: whole, cut inside a quoted field, cut between fields, or
\* with a field that is not what it should be.
Rows == [ent : Ents, form : {"whole", "odd_quotes", "few_columns", "bad_field"}]
Whole(e) == [ent |-> e, form |-> "whole"]

\* A body: rows, or a page of HTML, announced as such or not.
Csv(rows) == [kind |-> "csv", rows |-> rows]
Pages == {[kind |-> k, rows |-> <<>>] : k \in {"html", "html_type"}}

\* A file is in the order of its records' numbers.
Nth(ents, n) == CHOOSE e \in ents : Cardinality({d \in ents : d < e}) = n - 1
File(ents) == Csv([k \in 1 .. Cardinality(ents) |-> Whole(Nth(ents, k))])

\* What a download of these records may bring: all of it, its beginning, ended at a
\* row or within one, a row twice, a field changed, or another page.
Downloads(ents) ==
    LET rows == File(ents).rows
        cut(k, form) == Csv([SubSeq(rows, 1, k) EXCEPT ![k].form = form])
    IN  {Csv(SubSeq(rows, 1, k)) : k \in 0 .. Len(rows)}
            \union {cut(k, f) : k \in DOMAIN rows, f \in {"odd_quotes", "few_columns"}}
            \union {Csv([rows EXCEPT ![k].form = "bad_field"]) : k \in DOMAIN rows}
            \union {Csv(Append(rows, rows[k])) : k \in DOMAIN rows}
            \union Pages

----------------------------------------------------------------------------
(* The validation.  Each check is a reason for rejection, the first counts. *)

Has(file, form) == \E k \in DOMAIN file.rows : file.rows[k].form = form
EntsOf(file) == {file.rows[k].ent : k \in DOMAIN file.rows}

\* Mutant: a row may end early.
RowsRejected_lenient(file) ==
    CASE file.kind = "html" -> "html_response"
      [] file.rows = <<>> -> "empty_file"
      [] OTHER -> "none"

\* rowsOf: the first row that is not whole.
RowsRejected(file) ==
    CASE file.kind = "html" -> "html_response"
      [] file.rows = <<>> -> "empty_file"
      [] Has(file, "odd_quotes") -> "malformed_row"
      [] Has(file, "few_columns") -> "unexpected_column_count"
      [] OTHER -> "none"

Twice(file) == Cardinality(EntsOf(file)) < Len(file.rows)

Orphans(sdn, alt) == Cardinality({k \in DOMAIN alt.rows : alt.rows[k].ent \notin EntsOf(sdn)})
Stats(sdn, alt) == [sdn |-> Cardinality(EntsOf(sdn)), alt |-> Len(alt.rows)]
Shrunk(new, old) == 100 * new < (100 - MaxReduction) * old

\* Mutant: the lists may have any size.
PairRejected_any_size(sdn, alt, previous) ==
    IF 100 * Orphans(sdn, alt) > MaxOrphans * Len(alt.rows) THEN "alias_primary_mismatch" ELSE "none"

\* Mutant: orphans are not counted.
PairRejected_no_orphans(sdn, alt, previous) ==
    LET stats == Stats(sdn, alt)
    IN  CASE stats.sdn < MinSdn \/ stats.alt < MinAlt -> "too_few_records"
          [] Shrunk(stats.sdn, previous.sdn) \/ Shrunk(stats.alt, previous.alt) -> "implausible_reduction"
          [] OTHER -> "none"

\* Mutant: the comparison with the previous list is left out.
PairRejected_no_previous(sdn, alt, previous) ==
    LET stats == Stats(sdn, alt)
    IN  CASE stats.sdn < MinSdn \/ stats.alt < MinAlt -> "too_few_records"
          [] 100 * Orphans(sdn, alt) > MaxOrphans * stats.alt -> "alias_primary_mismatch"
          [] OTHER -> "none"

PairRejected(sdn, alt, previous) ==
    LET stats == Stats(sdn, alt)
    IN  CASE stats.sdn < MinSdn \/ stats.alt < MinAlt -> "too_few_records"
          [] 100 * Orphans(sdn, alt) > MaxOrphans * stats.alt -> "alias_primary_mismatch"
          [] Shrunk(stats.sdn, previous.sdn) \/ Shrunk(stats.alt, previous.alt) -> "implausible_reduction"
          [] OTHER -> "none"

validateOfacDataset(sdn, alt, previous) ==
    CASE RowsRejected(sdn) # "none" -> RowsRejected(sdn)
      [] Has(sdn, "bad_field") -> "invalid_record"
      [] Twice(sdn) -> "duplicate_record"
      [] RowsRejected(alt) # "none" -> RowsRejected(alt)
      [] Has(alt, "bad_field") -> "invalid_record"
      [] OTHER -> PairRejected(sdn, alt, previous)

\* fetchText: the header is looked at before the body.
Judged(sdn, alt) ==
    IF sdn.kind = "html_type" \/ alt.kind = "html_type" THEN "unexpected_content_type"
    ELSE validateOfacDataset(sdn, alt, Stats(Csv(inUse.sdn), Csv(inUse.alt)))

----------------------------------------------------------------------------
Publications == {p \in [sdn : SUBSET Ents, alt : SUBSET Ents] : p.alt \subseteq p.sdn}

ValidationInit ==
    /\ published \in Publications /\ before = published
    /\ inUse = [sdn |-> <<>>, alt |-> <<>>]
    /\ verdict = "not_loaded"

\* OFAC publishes another list: a record or an alias is added or taken off.
ValidationPublish ==
    /\ \E p \in Publications, e \in Ents :
        /\ p # published
        /\ p.sdn \ {e} = published.sdn \ {e} /\ p.alt \ {e} = published.alt \ {e}
        /\ published' = p
    /\ before' = published
    /\ UNCHANGED <<inUse, verdict>>

\* refresh: the two files are fetched at once, each from the publication it finds.
Refresh ==
    \E sdn \in Downloads(published.sdn) \union {File(before.sdn)},
       alt \in Downloads(published.alt) \union {File(before.alt)} :
        /\ verdict' = Judged(sdn, alt)
        /\ inUse' = IF verdict' = "none" THEN [sdn |-> sdn.rows, alt |-> alt.rows] ELSE inUse
        /\ UNCHANGED <<published, before>>

ValidationNext == ValidationPublish \/ Refresh

ValidationSpec == ValidationInit /\ [][ValidationNext]_validationVars

----------------------------------------------------------------------------
(* Properties.                                                             *)

Records == EntsOf(Csv(inUse.sdn))
Aliased == EntsOf(Csv(inUse.alt))
Loaded == inUse.sdn # <<>>

Reasons ==
    {"unexpected_content_type", "html_response", "empty_file", "malformed_row", "unexpected_column_count",
     "invalid_record", "duplicate_record", "too_few_records", "alias_primary_mismatch",
     "implausible_reduction"}

ValidationTypeOK ==
    /\ published \in Publications /\ before \in Publications
    /\ inUse.sdn \in Seq(Rows) /\ inUse.alt \in Seq(Rows)
    /\ Loaded => Cardinality(Records) >= MinSdn /\ Len(inUse.alt) >= MinAlt
    /\ verdict \in Reasons \union {"none", "not_loaded"}

\* Whatever sequence of publications and damaged downloads the service sees, nobody
\* is screened against the fragment of a name, and no entity has two records, the
\* second of which would hide the aliases of the first.
WholeRecordsOnly ==
    /\ \A k \in DOMAIN inUse.sdn : inUse.sdn[k].form = "whole"
    /\ \A k \in DOMAIN inUse.alt : inUse.alt[k].form = "whole"
    /\ Cardinality(Records) = Len(inUse.sdn)

\* The alias file vouches for the primary one (alias_primary_mismatch): of the records
\* that the complete alias file says have one, a primary list accepted beside it lacks no
\* more than the rule tolerates of rows, however the primary list was cut.
AliasesKeepRecords ==
    [][inUse' # inUse /\ EntsOf(Csv(inUse'.alt)) = published.alt
        => 100 * Cardinality(published.alt \ EntsOf(Csv(inUse'.sdn)))
              <= MaxOrphans * Len(inUse'.alt)]_validationVars

\* From a complete list, one refresh loses no more names and aliases than a reduction
\* that OFAC could have published.
LossIsBounded ==
    [][Records = published.sdn /\ Aliased = published.alt /\ Loaded
            => /\ 100 * Cardinality(published.sdn \ EntsOf(Csv(inUse'.sdn)))
                    <= MaxReduction * Cardinality(published.sdn)
               /\ 100 * Cardinality(published.alt \ EntsOf(Csv(inUse'.alt)))
                    <= MaxReduction * Cardinality(published.alt)]_inUse

\* What the service screens against is whole, over any sequence of publications and
\* damaged downloads: of whole records, and without a loss, of aliased records or of any,
\* that the rules of validateOfacDataset do not tolerate.
PairIsWhole == [](ValidationTypeOK /\ WholeRecordsOnly) /\ AliasesKeepRecords /\ LossIsBounded
=============================================================================
