---------------------------- MODULE MCRegisters ----------------------------
(***************************************************************************)
(* What is looked up in the registers, one lookup in each behaviour:       *)
(*   sdn      the snapshot of the SDN list, published, refreshed, screened *)
(*   match    a name screened against an index of the OFAC lists           *)
(*   edit     the edit distance of two strings                             *)
(*   company  a company looked up among the filers of SEC EDGAR            *)
(* The others rest in an initial state.                                    *)
(***************************************************************************)
EXTENDS SdnSnapshot, NameMatching, EditDistance, CompanyLookup

----------------------------------------------------------------------------
(* Two entries: one address is listed by both, another by the second, and  *)
(* the second has one that is not of EVM format.  The lists grow and       *)
(* shrink by most of their content; one is too small to be accepted.       *)

Id(uid, entry, address) == [uid |-> uid, entry |-> entry, address |-> address]
MCIdentifiers == {Id(1, 1, "a"), Id(2, 2, "a"), Id(3, 2, "b"), Id(4, 2, "x")}
MCLists == {MCIdentifiers, {Id(1, 1, "a"), Id(4, 2, "x")}, {Id(4, 2, "x")}}

\* Dated the day before, or the day after: the future the policy does not accept.
MCDateShifts == {-1, 1}

----------------------------------------------------------------------------
(* Names of up to three of three words, two of which differ in one letter, *)
(* in plain, accented or foreign letters; an index of up to two records    *)
(* with up to two aliases each.                                            *)

Word(letters, script) == [letters |-> letters, script |-> script]
W1 == Word(<<1, 2>>, "plain")
W2 == Word(<<1, 3>>, "plain")
W3 == Word(<<4>>, "plain")
W1a == Word(<<1, 2>>, "accented")
W3f == Word(<<4>>, "foreign")

MCQueries ==
    {<<w>> : w \in {W1, W1a, W3f}}
        \union {<<v, w>> : v \in {W1, W2, W3}, w \in {W1, W2, W3f, W1a, W3}}

MCNames == {<<W1>>, <<W3>>, <<W1, W3>>, <<W2, W3>>, <<W3, W1a>>, <<W3, W3f>>, <<W2, W1, W3>>}
MCAliases == {<<>>} \union {<<n>> : n \in MCNames} \union {<<<<W1, W2>>, <<W2, W3>>>>}

MCRecords == [name : MCNames, aliases : MCAliases]
MCIndexes ==
    {<<[name |-> <<W1, W3>>, aliases |-> s], r>> : s \in {<<>>, <<<<W1>>>>}, r \in MCRecords}
        \union {<<r>> : r \in MCRecords}

----------------------------------------------------------------------------
(* Lists of up to four entries in any order: one filer with two classes of *)
(* stock, another of the same title, and a third.                          *)

Entry(cik, ticker, title) == [cik |-> cik, ticker |-> ticker, title |-> title]
MCEntries == {Entry(2, 1, 1), Entry(2, 3, 1), Entry(1, 2, 1), Entry(3, 4, 2)}

Orders(s) == {f \in [1 .. Cardinality(s) -> s] : \A m, n \in DOMAIN f : f[m] = f[n] => m = n}
MCTickers == UNION {Orders(s) : s \in SUBSET MCEntries}

MCLikenesses ==
    {l \in [1 .. 2 -> {"exact", "prefix", "substring", "none"}] : ~(l[1] = "exact" /\ l[2] = "exact")}
MCCompanies ==
    {CikQuery(n) : n \in {1, 9}} \union {TextQuery(t, l) : t \in 0 .. 4, l \in MCLikenesses}

----------------------------------------------------------------------------
VARIABLE lookup

allVars == <<lookup, sdnVars, matchVars, editVars, lookupVars>>

SdnRests == lead = 0 /\ SdnInit
MatchRests == query = <<W1>> /\ index = <<[name |-> <<W1>>, aliases |-> <<>>]>> /\ threshold = 85 /\ MatchInit
EditRests == a = <<>> /\ b = <<>> /\ EditInit
CompanyRests == entries = <<>> /\ lookupQuery = CikQuery(1) /\ LookupInit

MCInit ==
    \/ lookup = "sdn" /\ MatchRests /\ EditRests /\ CompanyRests /\ SdnInit
    \/ lookup = "match" /\ SdnRests /\ EditRests /\ CompanyRests /\ MatchInit
    \/ lookup = "edit" /\ SdnRests /\ MatchRests /\ CompanyRests /\ EditInit
    \/ lookup = "company" /\ SdnRests /\ MatchRests /\ EditRests /\ LookupInit

MCNext ==
    /\ UNCHANGED lookup
    /\ \/ lookup = "sdn" /\ SdnNext /\ UNCHANGED <<matchVars, editVars, lookupVars>>
       \/ lookup = "match" /\ MatchNext /\ UNCHANGED <<sdnVars, editVars, lookupVars>>
       \/ lookup = "edit" /\ EditNext /\ UNCHANGED <<sdnVars, matchVars, lookupVars>>
       \/ lookup = "company" /\ LookupNext /\ UNCHANGED <<sdnVars, matchVars, editVars>>

\* The fairness of SdnSnapshot, asked of the behaviours that are about it.
MCSpec ==
    /\ MCInit /\ [][MCNext]_allVars
    /\ WF_sdnVars(lookup = "sdn" /\ Arrives) /\ WF_sdnVars(lookup = "sdn" /\ Tick)
=============================================================================
