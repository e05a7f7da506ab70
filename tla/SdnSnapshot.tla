---------------------------- MODULE SdnSnapshot ----------------------------
(***************************************************************************)
(* The OFAC SDN snapshot wallets are screened against                      *)
(* (src/src/ofacSdnDigitalCurrency.ts, walletSanctions.ts): a publication  *)
(* is downloaded, parsed and validated against the active snapshot, stored *)
(* with its extracted identifiers, revalidated, judged fresh by each       *)
(* reader, and matched.                                                    *)
(*                                                                         *)
(* OFAC, the download, the refresh job and the database are external: the  *)
(* job is what src/docs/OFAC_SDN_SCREENING.md says of it, one step that    *)
(* calls this code.  What it downloads may be damaged, and may be an older *)
(* publication, from a cache that lags.  A document is judged by what      *)
(* parseSdnXml counts in it; an address stands for all spellings of its    *)
(* hexadecimal digits.                                                     *)
(* Spec and its kin say Sdn: MCRegisters extends several specifications.   *)
(***************************************************************************)
EXTENDS Integers, Sequences, FiniteSets

CONSTANTS
    Identifiers,    \* [uid, entry, address]: what an <id> of digital currency type holds
    EvmAddresses,   \* the listed values of EVM format
    Lists,          \* what OFAC may publish: sets of identifiers
    Leads,          \* how far the job's clock may be ahead of the readers'
    DateShifts,     \* how far a publication's date may be from the time of it
    MaxLag,         \* how long a publication is still served after the next one
    MaxTime,        \* the end of the run (a bound of the model)
    MaxPublications,\* publications in a run (a bound of the model)
    MaxStaleness,   \* SANCTIONS_MAX_STALENESS_HOURS
    MaxSkew,        \* MAX_CLOCK_SKEW_MS
    MaxFuture,      \* SnapshotPolicy.maxFuturePublishMs
    MinIdentifiers, \* SnapshotPolicy.minDigitalCurrencyIdentifiers
    MaxShrink,      \* SnapshotPolicy.maxIdentifierShrink, in percent
    None            \* null

ASSUME ListAssumption == Lists \subseteq SUBSET Identifiers /\ IsFiniteSet(Identifiers)
ASSUME PolicyAssumption ==
    /\ Leads \subseteq Nat /\ DateShifts \subseteq Int
    /\ {MaxLag, MaxTime, MaxStaleness, MaxSkew, MaxFuture, MinIdentifiers} \subseteq Nat
    /\ MaxPublications \in Nat \ {0} /\ MaxShrink \in 0 .. 100

VARIABLES
    now,
    published,  \* OFAC's publications, each with the time of it
    lead,       \* how far the job's clock is ahead of the readers'
    active,     \* the active row of sanctions_snapshots, None without one
    quarantine, \* the publications that wait for approval
    sample      \* one answer that was given, whichever; None before

sdnVars == <<now, published, lead, active, quarantine, sample>>

Latest == Len(published)

----------------------------------------------------------------------------
(* parseSdnXml.                                                            *)

EntriesOf(ids) == {i.entry : i \in ids}

\* The document of a publication.
Document(list, date) ==
    [date |-> date, stated |-> Cardinality(EntriesOf(list)), entries |-> EntriesOf(list),
     ids |-> list, closed |-> TRUE, stray |-> FALSE]
DocumentOf(k) == Document(published[k].list, published[k].date)

\* What may arrive: the document; one cut short; one that lost an entry or has
\* an identifier's text in another place.
Arrivals(d) ==
    {d, [d EXCEPT !.closed = FALSE], [d EXCEPT !.stray = TRUE]}
    \union {[d EXCEPT !.entries = @ \ {e}, !.ids = {i \in @ : i.entry # e}] : e \in d.entries}

\* Mutant: Record_Count is not compared.
Parses_uncounted(d) == d.closed /\ ~d.stray /\ \A i, j \in d.ids : i.uid = j.uid => i = j

Parses(d) ==
    /\ d.closed
    /\ d.stated = Cardinality(d.entries)
    /\ \A i, j \in d.ids : i.uid = j.uid => i = j
    /\ \A i \in d.ids : i.entry \in d.entries
    /\ ~d.stray

\* summarizeIdentifiers.
Evm(ids) == {i \in ids : i.address \in EvmAddresses}
Unique(ids) == {i.address : i \in Evm(ids)}

----------------------------------------------------------------------------
(* validateCandidate.                                                      *)

Shrinks(before, after) == before > 0 /\ (before - after) * 100 > MaxShrink * before

\* Mutant: a second publication of a day is taken for a rollback.
RollsBack_sameDay(d) == active # None /\ d.date <= active.doc.date

\* Mutant: dates are not compared.
RollsBack_never(d) == FALSE

RollsBack(d) == active # None /\ d.date < active.doc.date

Rejected(d, at) ==
    \/ ~Parses(d)
    \/ Cardinality(d.ids) < MinIdentifiers \/ Evm(d.ids) = {}
    \/ d.date - at > MaxFuture
    \/ RollsBack(d)

\* Mutant: only the number of entries is compared.
Shrunk_entries(d) == active # None /\ Shrinks(Cardinality(active.doc.entries), Cardinality(d.entries))

Shrunk(d) ==
    /\ active # None
    /\ \/ Shrinks(Cardinality(active.doc.entries), Cardinality(d.entries))
       \/ Shrinks(Cardinality(active.doc.ids), Cardinality(d.ids))
       \/ Shrinks(Cardinality(Evm(active.doc.ids)), Cardinality(Evm(d.ids)))

----------------------------------------------------------------------------
(* The refresh job, on a clock that may be ahead, with its outcomes.       *)

Row(pub, d, at) ==
    [pub |-> pub, doc |-> d, retrieved |-> at, revalidated |-> at, rows |-> Evm(d.ids),
     count |-> Cardinality(Evm(d.ids)), unique |-> Cardinality(Unique(d.ids))]

\* The latest publication, and those it took the place of a short time ago.
Offered == {k \in 1 .. Latest : k = Latest \/ now - published[k + 1].at <= MaxLag}

\* A document that is the active one is revalidated, as the publication it came from.
Receive(k, d, approved) ==
    LET at == now + lead IN
    IF active # None /\ active.doc = d
    THEN active' = [active EXCEPT !.revalidated = at, !.pub = k] /\ UNCHANGED quarantine
    ELSE IF Rejected(d, at) THEN UNCHANGED <<active, quarantine>>
    ELSE IF Shrunk(d) /\ ~approved
    THEN quarantine' = quarantine \union {k} /\ UNCHANGED active
    ELSE active' = Row(k, d, at) /\ quarantine' = quarantine \ {k}

\* The operator approves one publication, by its digest.
Refresh ==
    /\ \E k \in Offered, approved \in BOOLEAN : \E d \in Arrivals(DocumentOf(k)) :
        /\ approved => k \in quarantine /\ d = DocumentOf(k)
        /\ Receive(k, d, approved)
    /\ UNCHANGED <<now, published, lead, sample>>

----------------------------------------------------------------------------
(* The readers: assessSnapshot, requireUsableStoredIndex, screenAddress.   *)

\* Mutant: only a time in the future is refused.
Fresh_ageless(r) == r.revalidated >= r.retrieved /\ now - r.revalidated >= -MaxSkew

\* assessSnapshot.
Fresh(r) ==
    /\ r.revalidated >= r.retrieved
    /\ now - r.revalidated >= -MaxSkew
    /\ now - r.revalidated <= MaxStaleness

\* Mutant: the rows are counted by address only.
RowsMatch_unique(r) == Cardinality(Unique(r.rows)) = r.unique

\* requireUsableStoredIndex.
RowsMatch(r) ==
    /\ r.count >= 1 /\ Cardinality(r.rows) = r.count
    /\ Cardinality(Unique(r.rows)) = r.unique

\* loadUsableSnapshot.
Usable == active # None /\ Fresh(active) /\ RowsMatch(active)

\* screenEvmAddress on the index of EVM identifiers.
Matches(r, address) == {i \in r.rows : i.address = address}

Screen(address) ==
    /\ Usable /\ sample = None
    /\ sample' = [address |-> address, listed |-> Matches(active, address) # {},
                  matches |-> Matches(active, address), pub |-> active.pub, at |-> now]
    /\ UNCHANGED <<now, published, lead, active, quarantine>>

\* Mutant: the health summary does not look at the identifiers.
Status_record ==
    IF active = None THEN "unavailable"
    ELSE IF Fresh(active) THEN "current"
    ELSE IF now - active.revalidated > MaxStaleness THEN "stale" ELSE "unavailable"

\* sanctionsDataStatus.
Status ==
    IF active = None THEN "unavailable"
    ELSE IF Fresh(active) THEN IF RowsMatch(active) THEN "current" ELSE "unavailable"
    ELSE IF now - active.revalidated > MaxStaleness THEN "stale" ELSE "unavailable"

----------------------------------------------------------------------------
(* The world.                                                              *)

\* OFAC publishes another list, under a date near the day.
Publish ==
    /\ Latest < MaxPublications
    /\ \E list \in Lists, date \in {now + s : s \in DateShifts} :
        /\ Latest > 0 => list # published[Latest].list
        /\ published' = Append(published, [list |-> list, date |-> date, at |-> now])
    /\ UNCHANGED <<now, lead, active, quarantine, sample>>

Tick ==
    /\ now < MaxTime
    /\ now' = now + 1
    /\ UNCHANGED <<published, lead, active, quarantine, sample>>

\* The operator's emergency stop.
Stop ==
    /\ active # None
    /\ active' = None
    /\ UNCHANGED <<now, published, lead, quarantine, sample>>

\* A row of sanctions_snapshot_identifiers is lost.
LoseRow ==
    /\ active # None
    /\ \E i \in active.rows : active' = [active EXCEPT !.rows = @ \ {i}]
    /\ UNCHANGED <<now, published, lead, quarantine, sample>>

SdnInit ==
    /\ now = 0
    /\ published = <<>>
    /\ lead \in Leads
    /\ active = None
    /\ quarantine = {}
    /\ sample = None

SdnNext ==
    \/ Publish
    \/ Refresh
    \/ Tick
    \/ Stop
    \/ LoseRow
    \/ \E address \in EvmAddresses : Screen(address)

SdnSpec == SdnInit /\ [][SdnNext]_sdnVars

(***************************************************************************)
(* The job keeps running, and the latest document arrives intact in the    *)
(* end.                                                                    *)
(***************************************************************************)
Arrives ==
    /\ Latest > 0
    /\ Receive(Latest, DocumentOf(Latest), FALSE)
    /\ ~(active' = active /\ quarantine' = quarantine)
    /\ UNCHANGED <<now, published, lead, sample>>
SdnFairness == WF_sdnVars(Arrives) /\ WF_sdnVars(Tick)
SdnFairSpec == SdnSpec /\ SdnFairness

----------------------------------------------------------------------------
(* Properties.                                                             *)

SdnTypeOK ==
    /\ now \in 0 .. MaxTime /\ lead \in Leads
    /\ Latest <= MaxPublications
    /\ \A k \in 1 .. Latest : published[k].list \in Lists /\ published[k].at \in 0 .. now
    /\ active # None =>
        /\ active.pub \in 1 .. Latest
        /\ active.doc = DocumentOf(active.pub)
        /\ active.rows \subseteq Evm(active.doc.ids)
        /\ active.retrieved <= active.revalidated /\ active.revalidated <= now + lead
    /\ quarantine \subseteq 1 .. Latest
    /\ sample # None => sample.pub \in 1 .. Latest

\* An answer is what OFAC's own list says: every identifier of the address on
\* the publication it came from and no other, whatever was lost in transit or
\* from the database (parseSdnXml, requireUsableStoredIndex, screenEvmAddress).
AnswerIsOfficial ==
    sample # None =>
        /\ sample.matches = {i \in published[sample.pub].list : i.address = sample.address}
        /\ sample.listed <=> sample.matches # {}

\* ... and that publication was OFAC's latest within the staleness bound before
\* the answer, the lead of the job's clock and the lag of what it downloads from
\* (assessSnapshot and revalidated_at).
AnswerIsRecent ==
    sample # None /\ sample.pub < Latest =>
        sample.at - published[sample.pub + 1].at <= MaxStaleness + lead + MaxLag

\* Health tells what a request would meet (sanctionsDataStatus and
\* loadUsableSnapshot judge apart).
StatusIsTrue == (Status = "current") <=> Usable

\* Whatever publication a download brings, the latest or one that it took the place
\* of, the active list never loses more than the tolerated share of its identifiers
\* at once, and never becomes an earlier day's, unless the operator approved the
\* publication or stopped screening.  (An earlier list of the same day may come back.)
NoSilentShrinkage ==
    [][active # None /\ active' # None /\ active'.pub # active.pub =>
        /\ active'.doc.date >= active.doc.date
        /\ \/ active'.pub \in quarantine
           \/ ~Shrinks(Cardinality(Evm(active.doc.ids)), Cardinality(Evm(active'.doc.ids)))]_sdnVars

\* A publication the policy accepts becomes active, unless it is overtaken, waits
\* for approval, is dated before the active one, or screening is stopped.
Acceptable(pub) ==
    /\ Cardinality(pub.list) >= MinIdentifiers /\ Evm(pub.list) # {}
    /\ pub.date - (now + lead) <= MaxFuture
    /\ active # None => pub.date >= active.doc.date
Decided(k) == (active # None /\ active.pub = k) \/ k \in quarantine
BecomesActive ==
    \A k \in 1 .. MaxPublications :
        (Latest = k) ~> (Latest > k \/ Decided(k) \/ (Latest = k /\ ~Acceptable(published[k])))

\* A wallet is answered from what OFAC published, all of it and lately, and health says
\* whether it can be (screenAddress, sanctionsDataStatus).
AnswersHold == SdnTypeOK /\ AnswerIsOfficial /\ AnswerIsRecent /\ StatusIsTrue

\* The active list moves on with OFAC's, and not to an implausible one (validateCandidate).
ListAdvances == NoSilentShrinkage /\ BecomesActive
=============================================================================
