--------------------------- MODULE CompanyLookup ---------------------------
(***************************************************************************)
(* Looking up a US public company (src/src/secEdgar.ts): the query is      *)
(* resolved in the list of tickers, then the filer's submissions are       *)
(* fetched.                                                                *)
(*                                                                         *)
(* An entry is [cik, ticker, title]; ciks, tickers and titles are numbers  *)
(* in the order they sort in.  A query is a CIK or a text, and of a text   *)
(* only matters which ticker it is, if any, and how it compares with each  *)
(* title.                                                                  *)
(* Spec and its kin say Lookup: MCRegisters extends several                *)
(* specifications.                                                         *)
(***************************************************************************)
EXTENDS Naturals, Sequences, FiniteSets

CONSTANTS
    LookupLists,    \* the lists SEC may publish: sequences of entries with tickers of their own
    LookupQueries,  \* what clients ask for
    Limit           \* the candidates an answer names at most

Entries == [cik : Nat \ {0}, ticker : Nat, title : Nat]
Texts == {q \in LookupQueries : q.kind = "text"}

ASSUME LimitAssumption == Limit \in Nat \ {0}
ASSUME ListsAssumption ==
    /\ LookupLists \subseteq Seq(Entries)
    /\ \A list \in LookupLists : \A k, l \in DOMAIN list :
        list[k].ticker = list[l].ticker => k = l
ASSUME QueriesAssumption ==
    /\ \A q \in LookupQueries : q.kind \in {"cik", "text"} /\ (q.kind = "cik" => q.cik \in Nat \ {0})
    /\ \A q \in Texts, list \in LookupLists : \A k \in DOMAIN list :
        q.likeness[list[k].title] \in {"exact", "prefix", "substring", "none"}

VARIABLES
    entries,    \* the list the lookup uses
    lookupQuery,
    answer,     \* what the lookup returns, NoAnswer before
    fetched     \* the filer whose submissions are being fetched, or were; 0 if none

lookupVars == <<entries, lookupQuery, answer, fetched>>

NoAnswer == [status |-> "none"]

CikQuery(n) == [kind |-> "cik", cik |-> n]
TextQuery(ticker, likeness) == [kind |-> "text", ticker |-> ticker, likeness |-> likeness]

----------------------------------------------------------------------------
(* resolveCompanyQuery.                                                    *)

IsTicker(e, q) == e.ticker = q.ticker

\* A title that equals the query starts with it, one that starts with it contains it.
IsTitle(e, q) == q.likeness[e.title] = "exact"
StartsTitle(e, q) == q.likeness[e.title] \in {"exact", "prefix"}
InTitle(e, q) == q.likeness[e.title] # "none"

Before(d, e) ==
    \/ d.title < e.title
    \/ d.title = e.title /\ d.ticker < e.ticker
    \/ d.title = e.title /\ d.ticker = e.ticker /\ d.cik < e.cik

AtMost(n) == IF n < Limit THEN n ELSE Limit

\* Mutant: candidates are listed as they come.
Candidates_unsorted(list, found) ==
    [n \in 1 .. AtMost(Cardinality(found)) |->
        list[CHOOSE k \in found : Cardinality({l \in found : l < k}) = n - 1]]

\* The entries at these positions of the list, sorted and cut off; the sort is stable.
Candidates(list, found) ==
    LET earlier(k) == {l \in found : Before(list[l], list[k]) \/ (list[l] = list[k] /\ l < k)}
    IN  [n \in 1 .. AtMost(Cardinality(found)) |->
            list[CHOOSE k \in found : Cardinality(earlier(k)) = n - 1]]

Nothing == [status |-> "nothing"]
Resolved(cik, method) == [status |-> "resolved", cik |-> cik, matched_by |-> method]
Ambiguous(count, candidates) == [status |-> "ambiguous", count |-> count, candidates |-> candidates]

First(found) == CHOOSE k \in found : \A l \in found : k <= l

\* Mutant: the first match is chosen.
Choose_first(list, found, method) ==
    IF found = {} THEN Nothing ELSE Resolved(list[First(found)].cik, method)

\* Mutant: only the candidates that are listed are counted.
Choose_capped(list, found, method) ==
    CASE found = {} -> Nothing
      [] Cardinality(found) = 1 -> Resolved(list[First(found)].cik, method)
      [] OTHER -> Ambiguous(Len(Candidates(list, found)), Candidates(list, found))

\* choose.
Choose(list, found, method) ==
    CASE found = {} -> Nothing
      [] Cardinality(found) = 1 -> Resolved(list[First(found)].cik, method)
      [] OTHER -> Ambiguous(Cardinality(found), Candidates(list, found))

Fits(e, q, method) ==
    CASE method = "ticker" -> IsTicker(e, q)
      [] method = "exact_name" -> IsTitle(e, q)
      [] method = "unique_prefix" -> StartsTitle(e, q)
      [] method = "unique_substring" -> InTitle(e, q)

Found(list, q, method) == {k \in DOMAIN list : Fits(list[k], q, method)}

OrElse(first, second) == IF first # Nothing THEN first ELSE second

\* Mutant: titles are searched before tickers.
Resolution_title_first(q, list) ==
    LET by(method) == Choose(list, Found(list, q, method), method)
    IN  IF q.kind = "cik" THEN Resolved(q.cik, "cik")
        ELSE OrElse(by("unique_prefix"), OrElse(by("ticker"), by("unique_substring")))

\* resolveCompanyQuery.
Resolution(q, list) ==
    LET by(method) == Choose(list, Found(list, q, method), method)
    IN  IF q.kind = "cik" THEN Resolved(q.cik, "cik")
        ELSE OrElse(by("ticker"),
             OrElse(by("exact_name"), OrElse(by("unique_prefix"), by("unique_substring"))))

----------------------------------------------------------------------------
(* checkUSCompany.                                                         *)

LookupInit ==
    /\ entries \in LookupLists /\ lookupQuery \in LookupQueries
    /\ answer = NoAnswer /\ fetched = 0

\* The list could not be had.
ListFails ==
    /\ answer = NoAnswer /\ fetched = 0
    /\ answer' = [status |-> "error"]
    /\ UNCHANGED <<entries, lookupQuery, fetched>>

\* Mutant: a filing is fetched of a candidate too.
Resolve_fetches ==
    /\ answer = NoAnswer /\ fetched = 0
    /\ LET r == Resolution(lookupQuery, entries)
       IN  IF r.status = "nothing" THEN answer' = [status |-> "not_found"] /\ UNCHANGED fetched
           ELSE /\ fetched' = IF r.status = "resolved" THEN r.cik ELSE r.candidates[1].cik
                /\ UNCHANGED answer
    /\ UNCHANGED <<entries, lookupQuery>>

\* A resolved filer's submissions are fetched next; otherwise the lookup ends.
Resolve ==
    /\ answer = NoAnswer /\ fetched = 0
    /\ LET r == Resolution(lookupQuery, entries)
       IN  CASE r.status = "resolved" -> fetched' = r.cik /\ UNCHANGED answer
             [] r.status = "ambiguous" -> answer' = r /\ UNCHANGED fetched
             [] r.status = "nothing" -> answer' = [status |-> "not_found"] /\ UNCHANGED fetched
    /\ UNCHANGED <<entries, lookupQuery>>

\* 200, 404 or another status: a filer of the list may have no submissions, and a
\* number given as a CIK may be nobody's.
SubmissionsArrive ==
    /\ answer = NoAnswer /\ fetched # 0
    /\ \/ answer' = Resolution(lookupQuery, entries)
       \/ answer' = [status |-> "not_found"]
       \/ answer' = [status |-> "error"]
    /\ UNCHANGED <<entries, lookupQuery, fetched>>

LookupNext == ListFails \/ Resolve \/ SubmissionsArrive

LookupSpec == LookupInit /\ [][LookupNext]_lookupVars

----------------------------------------------------------------------------
(* Properties.                                                             *)

LookupEntriesOf(list) == {list[k] : k \in DOMAIN list}

Level(e, q) ==
    CASE IsTicker(e, q) -> 4
      [] ~IsTicker(e, q) /\ IsTitle(e, q) -> 3
      [] ~IsTicker(e, q) /\ q.likeness[e.title] = "prefix" -> 2
      [] ~IsTicker(e, q) /\ q.likeness[e.title] = "substring" -> 1
      [] OTHER -> 0

\* The best entries of a list for a text: those no other entry is better than.
Best(list, q) ==
    {e \in LookupEntriesOf(list) : Level(e, q) > 0 /\ \A d \in LookupEntriesOf(list) : Level(d, q) <= Level(e, q)}

\* The state stays within its types; only a filer that was resolved is ever looked into.
LookupTypeOK ==
    /\ answer.status \in {"none", "error", "not_found", "ambiguous", "resolved"}
    /\ fetched # 0 => Resolution(lookupQuery, entries).status = "resolved"
    /\ answer.status = "ambiguous" => fetched = 0

\* No company is selected among several: a filer found by a text is that of the one entry
\* the text matches best, in the order ticker, title, beginning, part (resolveCompanyQuery).
ResolvedIsTheBest ==
    answer.status = "resolved" /\ lookupQuery.kind = "text" =>
        /\ Cardinality(Best(entries, lookupQuery)) = 1
        /\ \A e \in Best(entries, lookupQuery) : e.cik = answer.cik

\* An ambiguous answer is about all entries that match best: their number is right, those
\* listed are among them, and none is left out unless the list is full.
AmbiguousIsComplete ==
    answer.status = "ambiguous" =>
        LET best == Best(entries, lookupQuery)
            named == {answer.candidates[n] : n \in DOMAIN answer.candidates}
        IN  /\ answer.count = Cardinality(best)
            /\ named \subseteq best /\ Cardinality(named) = Len(answer.candidates)
            /\ Len(answer.candidates) = AtMost(answer.count)

\* The answer is the same for every order the list may come in: what is named, and in which
\* order, does not depend on it (the sort of choose).
OrderDoesNotMatter ==
    answer.status = "ambiguous" =>
        \A list \in LookupLists :
            LookupEntriesOf(list) = LookupEntriesOf(entries) => Resolution(lookupQuery, list) = answer

\* What the answer of an ambiguous lookup suggests works: the ticker of each candidate,
\* whatever its own spelling is part of, leads to that candidate's filer.
CandidatesResolve ==
    answer.status = "ambiguous" =>
        \A n \in DOMAIN answer.candidates, q \in Texts :
            LET c == answer.candidates[n]
            IN  Resolution(TextQuery(c.ticker, q.likeness), entries) = Resolved(c.cik, "ticker")

\* A lookup selects none of several, and says of several what leads on (resolveCompanyQuery).
ResolutionIsFair ==
    /\ LookupTypeOK /\ ResolvedIsTheBest
    /\ AmbiguousIsComplete /\ OrderDoesNotMatter /\ CandidatesResolve
=============================================================================
