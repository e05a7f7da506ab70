----------------------------- MODULE TrustProofs -----------------------------
(***************************************************************************)
(* Proofs about the keys and what rests on them, for any keys, times and   *)
(* tolerated skew: the deployments that rotate and condemn the service's   *)
(* own key (KeyLifecycle), the claims and receipts of any issuers          *)
(* (SignedArtifacts), and bundles with their seals (BundleVerifier).       *)
(***************************************************************************)
EXTENDS KeyLifecycle, SignedArtifacts, BundleVerifier, FiniteSetTheorems, FunctionTheorems, TLAPS

----------------------------------------------------------------------------
(* KeyTrust.                                                               *)

\* A key has one record in an accepted policy, and that record decides.
LEMMA VerdictByRecord ==
    ASSUME NEW rs, PolicyAccepted(rs), NEW r \in rs, NEW a, a.key = r.key, NEW purpose, NEW t
    PROVE  Verdict(rs, a, purpose, t) =
               IF a.purpose # purpose \/ ~a.genuine THEN "INVALID" ELSE Lifecycle(r, a.at, t)
<1>1. a.key \in {q.key : q \in rs}
  OBVIOUS
<1>2. (CHOOSE q \in rs : q.key = a.key) = r
  BY DEF PolicyAccepted
<1> QED
  BY <1>1, <1>2 DEF Verdict

\* An unknown key, or a registry that is refused, leaves an attestation undecided.
LEMMA VerdictWithoutRecord ==
    ASSUME NEW rs, NEW a, NEW purpose, NEW t,
           ~PolicyAccepted(rs) \/ \A r \in rs : r.key # a.key
    PROVE  Verdict(rs, a, purpose, t) = IF a.purpose # purpose THEN "INVALID" ELSE "UNVERIFIABLE"
<1>1. ~PolicyAccepted(rs) \/ a.key \notin {r.key : r \in rs}
  OBVIOUS
<1> QED
  BY <1>1 DEF Verdict, UnknownKey

\* A record's interval holds the time t.
Covers(r, t) == r.from # None /\ r.from <= t /\ (r.until # None => t <= r.until)

\* What a lifecycle says of a signature that states its time.
LEMMA LifecycleOfTime ==
    ASSUME NEW r, r.from \in OptionalTimes, r.until \in OptionalTimes, NEW at \in Times, NEW t \in Nat
    PROVE  Lifecycle(r, at, t) =
               IF Condemned(r) THEN "INVALID"
               ELSE IF r.from = None THEN "UNVERIFIABLE"
               ELSE IF at > t + Skew \/ ~(r.from <= at) \/ ~(r.until # None => at <= r.until) THEN "INVALID"
               ELSE "VALID"
<1>1. at # None /\ at \in Nat
  BY NoneAssumption, TimeAssumption
<1>2. r.from # None => r.from \in Nat
  BY TimeAssumption DEF OptionalTimes
<1>3. r.until # None => r.until \in Nat
  BY TimeAssumption DEF OptionalTimes
<1>4. Skew \in Nat
  BY TimeAssumption
<1> QED
  BY <1>1, <1>2, <1>3, <1>4 DEF Lifecycle

----------------------------------------------------------------------------
(* The inductive invariant of KeyLifecycle: the history and the key that   *)
(* signs would start the service, also while it is down; a copy of the     *)
(* registry, however old, knows the present key as it is published; and    *)
(* every record of the sample's key, published or copied, covers the time  *)
(* it was signed, if its activation is known.                              *)
(***************************************************************************)
RegistryStands == Starts(proc.key, proc.activation, history)

CopiesArePast ==
    \A r \in held : /\ \E q \in Published : q.key = r.key
                    /\ r.key = proc.key => r = ActiveRecord(proc.key, proc.activation)

SampleIsCovered ==
    sample # None =>
        /\ sample.genuine /\ sample.at <= clock
        /\ \E r \in Published : r.key = sample.key /\ Covers(r, sample.at)
        /\ \A r \in held : r.key = sample.key /\ r.from # None => Covers(r, sample.at)

KeyIInv == KeyTypeOK /\ RegistryStands /\ CopiesArePast /\ SampleIsCovered

LEMMA ActiveRecordProps ==
    ASSUME NEW key \in Keys, NEW activation \in OptionalTimes
    PROVE  /\ ActiveRecord(key, activation) \in Records
           /\ ActiveRecord(key, activation).key = key
           /\ ActiveRecord(key, activation).from = activation
           /\ ActiveRecord(key, activation).until = None
           /\ ActiveRecord(key, activation).changed = activation
           /\ ActiveRecord(key, activation).status = "active"
BY DEF ActiveRecord, Records, Statuses, OptionalTimes

LEMMA KeyInitIInv == KeyInit => KeyIInv
<1> SUFFICES ASSUME KeyInit PROVE KeyIInv
  OBVIOUS
<1> DEFINE first == ActiveRecord(proc.key, proc.activation)
<1>1. /\ clock \in Times /\ proc \in [key : Keys, activation : OptionalTimes, up : BOOLEAN]
      /\ history = {} /\ sample = None /\ held = {}
  <2>1. 0 \in Times /\ FirstKey \in Keys
    BY DeploymentAssumption
  <2>2. {0, None} \subseteq OptionalTimes
    BY <2>1 DEF OptionalTimes
  <2>3. \E a \in {0, None} : proc = [key |-> FirstKey, activation |-> a, up |-> TRUE]
    BY DEF KeyInit
  <2>4. proc \in [key : Keys, activation : OptionalTimes, up : BOOLEAN]
    BY <2>1, <2>2, <2>3
  <2> QED
    BY <2>1, <2>4 DEF KeyInit
<1>2. Published = {first}
  BY <1>1 DEF Published
<1>3. first.from = first.changed /\ first.until = None /\ first.status = "active" /\ first.replacement = None
  BY DEF ActiveRecord
<1>4. Unique({first})
  BY DEF Unique
<1>5. first.replacement # first.key
  BY <1>1, <1>3, NoneAssumption DEF ActiveRecord
<1>6. RegistryStands
  BY <1>1, <1>3, <1>4, <1>5 DEF RegistryStands, Starts, Validates, InOrder, Complete
<1>7. KeyTypeOK
  BY <1>1, <1>2, <1>4 DEF KeyTypeOK
<1> QED
  BY <1>1, <1>6, <1>7 DEF KeyIInv, CopiesArePast, SampleIsCovered

\* A deployment keeps the invariant if it drops no key, if its key is in no copy or
\* as it was, and if the records it leaves cover what those before covered.
LEMMA DeployKeepsIInv ==
    ASSUME KeyIInv, NEW key \in Keys, NEW activation \in OptionalTimes, NEW hist \in SUBSET Records,
           Deploy(key, activation, hist), UNCHANGED <<clock, sample, held>>,
           \A r \in Published : \E q \in hist \union {ActiveRecord(key, activation)} :
               /\ q.key = r.key
               /\ \A t \in 0 .. clock : Covers(r, t) => Covers(q, t),
           \A r \in held : r.key = key => r = ActiveRecord(key, activation)
    PROVE  KeyIInv'
<1> DEFINE next == hist \union {ActiveRecord(key, activation)}
<1>1. CASE Starts(key, activation, hist)
  <2>1. proc' = [key |-> key, activation |-> activation, up |-> TRUE] /\ history' = hist
    BY <1>1 DEF Deploy
  <2>2. Published' = next
    BY <2>1 DEF Published
  <2>3. RegistryStands'
    BY <1>1, <2>1 DEF RegistryStands
  <2>4. KeyTypeOK'
    BY <1>1, <2>1, <2>2 DEF KeyIInv, KeyTypeOK, Starts, Validates
  <2>5. CopiesArePast'
    BY <2>1, <2>2 DEF KeyIInv, CopiesArePast
  <2>6. SampleIsCovered'
    <3> SUFFICES ASSUME sample # None
                 PROVE  \E r \in next : r.key = sample.key /\ Covers(r, sample.at)
      BY <2>2 DEF KeyIInv, SampleIsCovered
    <3>1. PICK r \in Published : r.key = sample.key /\ Covers(r, sample.at)
      BY DEF KeyIInv, SampleIsCovered
    <3>2. sample.at \in 0 .. clock
      BY TimeAssumption, DeploymentAssumption DEF KeyIInv, KeyTypeOK, SampleIsCovered, Attestations
    <3> QED
      BY <3>1, <3>2
  <2> QED
    BY <2>3, <2>4, <2>5, <2>6 DEF KeyIInv
<1>2. CASE ~Starts(key, activation, hist)
  <2>1. proc' = [proc EXCEPT !.up = FALSE] /\ UNCHANGED history
    BY <1>2 DEF Deploy
  <2>2. /\ proc'.key = proc.key /\ proc'.activation = proc.activation
        /\ proc' \in [key : Keys, activation : OptionalTimes, up : BOOLEAN]
    BY <2>1 DEF KeyIInv, KeyTypeOK
  <2>3. Published' = Published
    BY <2>1, <2>2 DEF Published
  <2> QED
    BY <2>1, <2>2, <2>3 DEF KeyIInv, KeyTypeOK, RegistryStands, CopiesArePast, SampleIsCovered
<1> QED
  BY <1>1, <1>2

\* What the operator may write about the key that signs is a record of that key which
\* covers what the key has signed.
LEMMA NotesProps ==
    ASSUME KeyTypeOK, NEW key \in Keys, NEW activation \in Times, activation >= clock,
           NEW note \in Notes(key, activation)
    PROVE  /\ note \in Records /\ note.key = proc.key
           /\ \A t \in 0 .. clock :
                  Covers(ActiveRecord(proc.key, proc.activation), t) => Covers(note, t)
<1> DEFINE old == ActiveRecord(proc.key, proc.activation)
<1>1. clock \in Times /\ clock \in Nat /\ proc.key \in Keys /\ proc.activation \in OptionalTimes
  BY TimeAssumption DEF KeyTypeOK
<1>2. /\ old \in Records /\ old.key = proc.key /\ old.from = proc.activation /\ old.until = None
      /\ old.replacement = None
  BY <1>1, ActiveRecordProps DEF ActiveRecord
<1>3. clock .. activation \subseteq Times /\ 0 .. clock \subseteq Times
  BY <1>1, DeploymentAssumption
<1>4. ASSUME NEW t \in clock .. activation, NEW next \in Keys
      PROVE  LET n == Retired(proc.key, proc.activation, t, next)
             IN  /\ n \in Records /\ n.key = proc.key /\ n.from = proc.activation /\ n.until = t
                 /\ [n EXCEPT !.until = None] \in Records
  BY <1>1, <1>3 DEF Retired, ActiveRecord, Records, Statuses, OptionalTimes
<1>5. LET n == Revoked(proc.key, proc.activation)
      IN  n \in Records /\ n.key = proc.key /\ n.from = proc.activation /\ n.until = None
  BY <1>1 DEF Revoked, ActiveRecord, Records, Statuses, OptionalTimes
<1>6. ASSUME NEW t \in 0 .. clock
      PROVE  LET n == Compromised(proc.key, proc.activation, t)
             IN  n \in Records /\ n.key = proc.key /\ n.from = proc.activation /\ n.until = None
  BY <1>1, <1>3 DEF Compromised, ActiveRecord, Records, Statuses, OptionalTimes
<1>7. ASSUME NEW t \in clock .. activation, NEW next \in Keys, note = Retired(proc.key, proc.activation, t, next)
      PROVE  /\ note \in Records /\ note.key = proc.key /\ note.from = proc.activation
             /\ note.until = t
  BY <1>4, <1>7
<1>8. clock \in clock .. activation
  BY <1>1, TimeAssumption
<1>9. CASE note = [Retired(proc.key, proc.activation, clock, key) EXCEPT !.until = None]
  <2>1. note \in Records
    BY <1>4, <1>8, <1>9
  <2>2. note.key = proc.key /\ note.from = proc.activation /\ note.until = None
    BY <1>9 DEF Retired, ActiveRecord
  <2> QED
    BY <2>1, <2>2, <1>2 DEF Covers
<1>10. CASE \E t \in clock .. activation, next \in Keys : note = Retired(proc.key, proc.activation, t, next)
  <2>1. PICK t \in clock .. activation, next \in Keys : note = Retired(proc.key, proc.activation, t, next)
    BY <1>10
  <2>2. note \in Records /\ note.key = proc.key /\ note.from = proc.activation /\ note.until = t
    BY <2>1, <1>7
  <2>3. \A s \in 0 .. clock : s <= t
    BY <1>1
  <2> QED
    BY <2>2, <2>3, <1>2 DEF Covers
<1>11. CASE note = Revoked(proc.key, proc.activation)
  BY <1>11, <1>5, <1>2 DEF Covers
<1>12. CASE \E t \in 0 .. clock : note = Compromised(proc.key, proc.activation, t)
  BY <1>12, <1>6, <1>2 DEF Covers
<1> QED
  BY <1>1, <1>8, <1>9, <1>10, <1>11, <1>12 DEF Notes

LEMMA RotateIInv == ASSUME KeyIInv, Rotate PROVE KeyIInv'
<1> DEFINE old == ActiveRecord(proc.key, proc.activation)
<1>1. PICK key \in Keys, activation \in {t \in Times : t >= clock} :
          /\ key # proc.key /\ \A r \in history : r.key # key
          /\ \E note \in Notes(key, activation) : Deploy(key, activation, history \union {note})
  BY DEF Rotate
<1>2. PICK note \in Notes(key, activation) : Deploy(key, activation, history \union {note})
  BY <1>1
<1>3. KeyTypeOK /\ Published = history \union {old} /\ history \in SUBSET Records
  BY DEF KeyIInv, KeyTypeOK, Published
<1>4. /\ note \in Records /\ note.key = proc.key
      /\ \A t \in 0 .. clock : Covers(old, t) => Covers(note, t)
  BY <1>3, NotesProps
<1>5. old.key = proc.key
  BY DEF ActiveRecord
<1>6. \A r \in Published : \E q \in (history \union {note}) \union {ActiveRecord(key, activation)} :
          q.key = r.key /\ \A t \in 0 .. clock : Covers(r, t) => Covers(q, t)
  BY <1>3, <1>4, <1>5
<1>7. \A r \in held : r.key # key
  BY <1>1, <1>3, <1>5 DEF KeyIInv, CopiesArePast
<1>8. activation \in OptionalTimes /\ history \union {note} \in SUBSET Records
  BY <1>3, <1>4 DEF OptionalTimes
<1>9. UNCHANGED <<clock, sample, held>>
  BY DEF Rotate
<1> QED
  BY <1>2, <1>6, <1>7, <1>8, <1>9, DeployKeepsIInv

LEMMA HistoryFirstIInv == ASSUME KeyIInv, HistoryFirst PROVE KeyIInv'
<1>1. PICK t \in clock .. LastTime :
          Deploy(proc.key, proc.activation, history \union {Retired(proc.key, proc.activation, t, None)})
  BY DEF HistoryFirst
<1> DEFINE hist == history \union {Retired(proc.key, proc.activation, t, None)}
<1>2. clock \in Nat /\ t \in Times /\ proc.key \in Keys /\ proc.activation \in OptionalTimes /\ history \in SUBSET Records
  BY TimeAssumption, DeploymentAssumption DEF KeyIInv, KeyTypeOK
<1>3. hist \in SUBSET Records
  BY <1>2 DEF Retired, ActiveRecord, Records, Statuses, OptionalTimes
<1>4. Published \subseteq hist \union {ActiveRecord(proc.key, proc.activation)}
  BY DEF Published
<1>5. UNCHANGED <<clock, sample, held>>
  BY DEF HistoryFirst
<1>6. \A r \in held : r.key = proc.key => r = ActiveRecord(proc.key, proc.activation)
  BY DEF KeyIInv, CopiesArePast
<1> QED
  BY <1>1, <1>2, <1>3, <1>4, <1>5, <1>6, DeployKeepsIInv

LEMMA CondemnRetiredIInv == ASSUME KeyIInv, CondemnRetired PROVE KeyIInv'
<1>1. PICK r \in history, since \in 0 .. clock :
          Deploy(proc.key, proc.activation,
                 (history \ {r}) \union {[Compromised(r.key, r.from, since) EXCEPT !.replacement = r.replacement]})
  BY DEF CondemnRetired
<1> DEFINE c == [Compromised(r.key, r.from, since) EXCEPT !.replacement = r.replacement]
           hist == (history \ {r}) \union {c}
<1>2. /\ clock \in Times /\ clock \in Nat /\ since \in Times /\ r \in Records
      /\ proc.key \in Keys /\ proc.activation \in OptionalTimes /\ history \in SUBSET Records
  BY TimeAssumption, DeploymentAssumption DEF KeyIInv, KeyTypeOK
<1>3. c \in Records /\ c.key = r.key /\ c.from = r.from /\ c.until = None
  BY <1>2 DEF Compromised, ActiveRecord, Records, Statuses, OptionalTimes
<1>4. \A t \in 0 .. clock : Covers(r, t) => Covers(c, t)
  BY <1>3 DEF Covers
<1>5. Published = history \union {ActiveRecord(proc.key, proc.activation)}
  BY DEF Published
<1>6. \A q \in Published : \E p \in hist \union {ActiveRecord(proc.key, proc.activation)} :
          p.key = q.key /\ \A t \in 0 .. clock : Covers(q, t) => Covers(p, t)
  BY <1>3, <1>4, <1>5
<1>7. UNCHANGED <<clock, sample, held>>
  BY DEF CondemnRetired
<1>8. \A q \in held : q.key = proc.key => q = ActiveRecord(proc.key, proc.activation)
  BY DEF KeyIInv, CopiesArePast
<1>9. hist \in SUBSET Records
  BY <1>2, <1>3
<1> QED
  BY <1>1, <1>2, <1>6, <1>7, <1>8, <1>9, DeployKeepsIInv

LEMMA AttestIInv == ASSUME KeyIInv, NEW p \in Purposes, Attest(p) PROVE KeyIInv'
<1> DEFINE active == ActiveRecord(proc.key, proc.activation)
<1>1. /\ clock \in Times /\ clock \in Nat /\ proc.key \in Keys /\ proc.activation \in OptionalTimes
      /\ proc.activation # None /\ proc.activation <= clock
  BY TimeAssumption DEF KeyIInv, KeyTypeOK, Attest, Ready, OptionalTimes
<1>2. sample' = [key |-> proc.key, at |-> clock, purpose |-> p, genuine |-> TRUE]
      /\ UNCHANGED <<clock, proc, history, held>> /\ Published' = Published
  BY DEF Attest, Published
<1>3. sample' \in Attestations
  BY <1>1, <1>2 DEF Attestations
<1>4. active \in Published /\ active.key = proc.key /\ Covers(active, clock)
  BY <1>1, ActiveRecordProps DEF Published, Covers
<1>5. \A r \in held : r.key = proc.key => r = active
  BY DEF KeyIInv, CopiesArePast
<1>6. SampleIsCovered'
  BY <1>1, <1>2, <1>4, <1>5 DEF SampleIsCovered
<1>7. KeyTypeOK' /\ RegistryStands' /\ CopiesArePast'
  BY <1>2, <1>3 DEF KeyIInv, KeyTypeOK, RegistryStands, CopiesArePast
<1> QED
  BY <1>6, <1>7 DEF KeyIInv

LEMMA FetchIInv == ASSUME KeyIInv, Fetch PROVE KeyIInv'
<1> DEFINE active == ActiveRecord(proc.key, proc.activation)
<1>1. held' = Published /\ UNCHANGED <<clock, proc, history, sample>> /\ Published' = Published
  BY DEF Fetch, Published
<1>2. /\ proc.key \in Keys /\ proc.activation \in OptionalTimes /\ history \in SUBSET Records
      /\ Published = history \union {active} /\ active \in Records /\ active.key = proc.key
  BY ActiveRecordProps DEF KeyIInv, KeyTypeOK, Published
<1>3. Published \in SUBSET Records /\ Unique(Published)
  BY <1>2 DEF KeyIInv, KeyTypeOK
<1>4. CopiesArePast'
  BY <1>1, <1>2, <1>3 DEF CopiesArePast, Unique
<1>5. SampleIsCovered'
  BY <1>1, <1>3 DEF KeyIInv, SampleIsCovered, Unique
<1>6. KeyTypeOK' /\ RegistryStands'
  BY <1>1, <1>3 DEF KeyIInv, KeyTypeOK, RegistryStands
<1> QED
  BY <1>4, <1>5, <1>6 DEF KeyIInv

LEMMA KeyTickIInv == ASSUME KeyIInv, KeyTick PROVE KeyIInv'
<1>1. clock' = clock + 1 /\ UNCHANGED <<proc, history, sample, held>> /\ Published' = Published
  BY DEF KeyTick, Published
<1>2. clock \in Nat /\ clock' \in Times
  BY TimeAssumption, DeploymentAssumption DEF KeyIInv, KeyTypeOK, KeyTick
<1>3. sample # None => sample.at \in Nat
  BY TimeAssumption DEF KeyIInv, KeyTypeOK, Attestations
<1>4. SampleIsCovered'
  BY <1>1, <1>2, <1>3 DEF KeyIInv, SampleIsCovered
<1> QED
  BY <1>1, <1>2, <1>4 DEF KeyIInv, KeyTypeOK, RegistryStands, CopiesArePast

LEMMA KeyNextIInv == KeyIInv /\ [KeyNext]_keyVars => KeyIInv'
<1>1. ASSUME KeyIInv, UNCHANGED keyVars PROVE KeyIInv'
  BY <1>1 DEF KeyIInv, KeyTypeOK, RegistryStands, CopiesArePast, SampleIsCovered, Published, keyVars
<1> QED
  BY <1>1, RotateIInv, HistoryFirstIInv, CondemnRetiredIInv, FetchIInv, KeyTickIInv, AttestIInv DEF KeyNext

THEOREM KeyInvariance == KeySpec => []KeyIInv
<1> QED
  BY KeyInitIInv, KeyNextIInv, PTL DEF KeySpec

----------------------------------------------------------------------------
(* The times of a key that is not condemned are in order in the history:   *)
(* what an operator writes when it retires a key starts only so.           *)

TimelyRecords ==
    \A r \in history : ~Condemned(r) => InOrder(r.from, r.changed) /\ InOrder(r.from, r.compromised)

LEMMA NotesTimely ==
    ASSUME NEW key \in Keys, NEW activation \in Times, NEW note \in Notes(key, activation),
           Complete(note), InOrder(note.from, note.until), ~Condemned(note)
    PROVE  InOrder(note.from, note.changed) /\ InOrder(note.from, note.compromised)
<1>1. CASE \E t, next : note = Retired(proc.key, proc.activation, t, next)
  <2>1. note.changed = note.until /\ note.compromised = None
    BY <1>1 DEF Retired, ActiveRecord
  <2> QED
    BY <2>1 DEF InOrder
<1>2. CASE note = [Retired(proc.key, proc.activation, clock, key) EXCEPT !.until = None]
  <2>1. note.status = "retired" /\ note.until = None
    BY <1>2 DEF Retired, ActiveRecord
  <2> QED
    BY <2>1 DEF Complete
<1>3. CASE note = Revoked(proc.key, proc.activation)
  BY <1>3 DEF Revoked, ActiveRecord, Condemned
<1>4. CASE \E t \in 0 .. clock : note = Compromised(proc.key, proc.activation, t)
  BY <1>4 DEF Compromised, ActiveRecord, Condemned
<1> QED
  BY <1>1, <1>2, <1>3, <1>4 DEF Notes

LEMMA TimelyStep == TimelyRecords /\ [KeyNext]_keyVars => TimelyRecords'
<1> SUFFICES ASSUME TimelyRecords, [KeyNext]_keyVars PROVE TimelyRecords'
  OBVIOUS
<1>1. CASE history' = history
  BY <1>1 DEF TimelyRecords
<1>2. CASE Rotate /\ history' # history
  <2> PICK key \in Keys, activation \in {t \in Times : t >= clock} :
          \E note \in Notes(key, activation) : Deploy(key, activation, history \union {note})
    BY <1>2 DEF Rotate
  <2>1. PICK note \in Notes(key, activation) : Deploy(key, activation, history \union {note})
    OBVIOUS
  <2>2. history' = history \union {note} /\ Validates(history \union {note} \union {ActiveRecord(key, activation)})
    BY <1>2, <2>1 DEF Deploy, Starts
  <2>3. Complete(note) /\ InOrder(note.from, note.until)
    BY <2>2 DEF Validates
  <2> QED
    BY <2>2, <2>3, NotesTimely DEF TimelyRecords
<1>3. CASE HistoryFirst /\ history' # history
  <2>1. PICK t : Deploy(proc.key, proc.activation, history \union {Retired(proc.key, proc.activation, t, None)})
    BY <1>3 DEF HistoryFirst
  <2> DEFINE note == Retired(proc.key, proc.activation, t, None)
  <2>2. note.key = proc.key
    BY DEF Retired, ActiveRecord
  <2>3. ~Starts(proc.key, proc.activation, history \union {note})
    BY <2>2 DEF Starts
  <2> QED
    BY <1>3, <2>1, <2>3 DEF Deploy
<1>4. CASE CondemnRetired /\ history' # history
  <2>1. PICK r \in history, t \in 0 .. clock :
            Deploy(proc.key, proc.activation,
                   (history \ {r}) \union {[Compromised(r.key, r.from, t) EXCEPT !.replacement = r.replacement]})
    BY <1>4 DEF CondemnRetired
  <2> DEFINE new == [Compromised(r.key, r.from, t) EXCEPT !.replacement = r.replacement]
  <2>2. history' = (history \ {r}) \union {new}
    BY <1>4, <2>1 DEF Deploy
  <2>3. Condemned(new)
    BY DEF Compromised, ActiveRecord, Condemned
  <2> QED
    BY <2>2, <2>3 DEF TimelyRecords
<1>5. Fetch \/ KeyTick \/ (\E p \in Purposes : Attest(p)) \/ UNCHANGED keyVars => history' = history
  BY DEF Fetch, KeyTick, Attest, keyVars
<1> QED
  BY <1>1, <1>2, <1>3, <1>4, <1>5 DEF KeyNext

LEMMA TimelyInvariance == KeySpec => []TimelyRecords
<1>1. KeyInit => TimelyRecords
  BY DEF KeyInit, TimelyRecords
<1> QED
  BY <1>1, TimelyStep, PTL DEF KeySpec

----------------------------------------------------------------------------
(* The properties.                                                         *)

LEMMA PublishedProps ==
    ASSUME KeyIInv
    PROVE  /\ Published \in SUBSET Records /\ Unique(Published) /\ Validates(Published)
           /\ clock \in Nat /\ Skew \in Nat
           /\ \A r \in Published : MeetsSchema(r)
<1> DEFINE active == ActiveRecord(proc.key, proc.activation)
<1>1. active \in Records
  BY ActiveRecordProps DEF KeyIInv, KeyTypeOK
<1>2. Published = history \union {active} /\ history \in SUBSET Records
  BY DEF Published, KeyIInv, KeyTypeOK
<1>3. Validates(Published)
  BY <1>2 DEF KeyIInv, RegistryStands, Starts
<1> QED
  BY <1>1, <1>2, <1>3, TimeAssumption DEF KeyIInv, KeyTypeOK, Validates, Complete, MeetsSchema

\* What starts is trusted, unless a key was condemned before it became active: the
\* times of records of keys that are active or retired are in order.
LEMMA PublishedIsTrustedByIInv == KeyIInv /\ TimelyRecords => PublishedIsTrusted
<1> SUFFICES ASSUME KeyIInv, TimelyRecords
             PROVE  PolicyAccepted(Published) <=> ~\E r \in Published : CondemnedEarly(r)
  BY DEF PublishedIsTrusted
<1>1. /\ Unique(Published) /\ Published \in SUBSET Records /\ \A r \in Published : MeetsSchema(r)
      /\ \A r \in Published : /\ InOrder(r.from, r.until) /\ r.replacement # r.key
                              /\ r.replacement = None \/ \E q \in Published : q.key = r.replacement
  BY PublishedProps DEF Validates
<1>2. ASSUME NEW r \in Published, ~Condemned(r)
      PROVE  InOrder(r.from, r.changed) /\ InOrder(r.from, r.compromised)
  <2>1. CASE r \in history
    BY <1>2, <2>1 DEF TimelyRecords
  <2>2. CASE r = ActiveRecord(proc.key, proc.activation)
    <3>1. r.changed = r.from /\ r.compromised = None
      BY <2>2 DEF ActiveRecord
    <3>2. r.from # None => r.from \in Nat
      BY <1>1, TimeAssumption DEF Records, OptionalTimes
    <3> QED
      BY <3>1, <3>2 DEF InOrder
  <2> QED
    BY <2>1, <2>2 DEF Published
<1> QED
  BY <1>1, <1>2 DEF PolicyAccepted, RecordAccepted, Unique, CondemnedEarly

LEMMA AttestationsVerifyByIInv == KeyIInv => AttestationsVerify
<1> SUFFICES ASSUME KeyIInv, sample # None, PolicyAccepted(Published),
                    NEW late \in 0 .. Skew, late <= clock
             PROVE  Verdict(Published, sample, sample.purpose, clock - late) =
                        IF \E r \in Published : r.key = sample.key /\ Condemned(r) THEN "INVALID"
                        ELSE "VALID"
  BY DEF AttestationsVerify
<1>1. PICK r \in Published : r.key = sample.key /\ Covers(r, sample.at)
  BY DEF KeyIInv, SampleIsCovered
<1>2. /\ sample.genuine /\ sample.at <= clock /\ sample.at \in Times /\ sample.at \in Nat
      /\ clock \in Nat /\ Skew \in Nat
  BY TimeAssumption DEF KeyIInv, KeyTypeOK, SampleIsCovered, Attestations
<1>3. Unique(Published) /\ r \in Records
  BY PublishedProps
<1>4. (\E q \in Published : q.key = sample.key /\ Condemned(q)) <=> Condemned(r)
  BY <1>1, <1>3 DEF Unique
<1>5. Verdict(Published, sample, sample.purpose, clock - late) = Lifecycle(r, sample.at, clock - late)
  BY <1>1, <1>2, VerdictByRecord
<1>6. clock - late \in Nat /\ sample.at <= clock - late + Skew
  BY <1>2
<1>7. Lifecycle(r, sample.at, clock - late) = IF Condemned(r) THEN "INVALID" ELSE "VALID"
  BY <1>1, <1>2, <1>3, <1>6, LifecycleOfTime DEF Covers, Records
<1> QED
  BY <1>4, <1>5, <1>7

LEMMA OldCopiesAreKindByIInv == KeyIInv => OldCopiesAreKind
<1> SUFFICES ASSUME KeyIInv, sample # None,
                    \A r \in held : r.key = sample.key => ~Condemned(r)
             PROVE  Verdict(held, sample, sample.purpose, clock) # "INVALID"
  BY DEF OldCopiesAreKind
<1>1. /\ sample.genuine /\ sample.at <= clock /\ sample.at \in Times /\ sample.at \in Nat
      /\ clock \in Nat /\ Skew \in Nat /\ held \in SUBSET Records
  BY TimeAssumption DEF KeyIInv, KeyTypeOK, SampleIsCovered, Attestations
<1>2. CASE ~PolicyAccepted(held) \/ \A r \in held : r.key # sample.key
  BY <1>2, VerdictWithoutRecord
<1>3. CASE PolicyAccepted(held) /\ \E r \in held : r.key = sample.key
  <2>1. PICK r \in held : r.key = sample.key
    BY <1>3
  <2>2. Verdict(held, sample, sample.purpose, clock) = Lifecycle(r, sample.at, clock)
    BY <1>1, <1>3, <2>1, VerdictByRecord
  <2>3. ~Condemned(r) /\ (r.from # None => Covers(r, sample.at)) /\ r \in Records
    BY <1>1, <2>1 DEF KeyIInv, SampleIsCovered
  <2>4. sample.at <= clock + Skew
    BY <1>1
  <2>5. Lifecycle(r, sample.at, clock) # "INVALID"
    BY <1>1, <2>3, <2>4, LifecycleOfTime DEF Covers, Records
  <2> QED
    BY <2>2, <2>5
<1> QED
  BY <1>2, <1>3

LEMMA VerifiersAgreeByIInv == KeyIInv => VerifiersAgree
<1> DEFINE Screening == "compliance-screening-result"
<1> SUFFICES ASSUME KeyIInv, PolicyAccepted(Published), NEW a \in Attestations, a.at <= clock
             PROVE  Anchorable(a) <=> Verdict(Published, a, Screening, clock) = "VALID"
  BY DEF VerifiersAgree
<1>1. a.at \in Times /\ a.at \in Nat /\ clock \in Nat /\ Skew \in Nat /\ Published \in SUBSET Records
  BY TimeAssumption, PublishedProps DEF Attestations
<1>2. CASE \A r \in Published : r.key # a.key
  BY <1>2, VerdictWithoutRecord DEF Anchorable
<1>3. CASE \E r \in Published : r.key = a.key
  <2>1. PICK r \in Published : r.key = a.key
    BY <1>3
  <2>2. Verdict(Published, a, Screening, clock) =
            IF a.purpose # Screening \/ ~a.genuine THEN "INVALID" ELSE Lifecycle(r, a.at, clock)
    BY <2>1, VerdictByRecord
  <2>3. a.at <= clock + Skew /\ r \in Records
    BY <1>1
  <2>4. Lifecycle(r, a.at, clock) = "VALID" <=> ~Condemned(r) /\ Covers(r, a.at)
    BY <1>1, <2>3, LifecycleOfTime DEF Covers, Records
  <2>5. r.status = "retired" => r.until # None
    BY PublishedProps DEF MeetsSchema
  <2>6. \A q \in Published : q.key = a.key => q = r
    BY <2>1, PublishedProps DEF Unique
  <2>7. Anchorable(a) <=> a.purpose = Screening /\ ~Condemned(r) /\ Covers(r, a.at) /\ a.genuine
    BY <2>1, <2>5, <2>6 DEF Anchorable, Covers
  <2> QED
    BY <2>2, <2>4, <2>7
<1> QED
  BY <1>2, <1>3

\* The way through the profile's format and back: what it keeps of a record.
LEMMA ThroughProfile ==
    ASSUME NEW r \in Records, RecordAccepted(r), r.status = "retired" => r.from # None,
           NEW ended \in {"active", "retired"}, NEW e,
           e = [key |-> r.key, status |-> IF r.status = "retired" THEN ended ELSE r.status,
                from |-> r.from, until |-> r.until,
                revoked |-> IF Condemned(r) THEN r.changed ELSE None]
    PROVE  /\ EntryAccepted(e) /\ RecordAccepted(ToRecord(e)) /\ ToRecord(e).replacement = None
           /\ ToRecord(e).key = r.key /\ ToRecord(e).from = r.from /\ ToRecord(e).until = r.until
           /\ Condemned(ToRecord(e)) <=> Condemned(r)
<1>1. /\ e.key = r.key /\ e.from = r.from /\ e.until = r.until
      /\ e.status = IF r.status = "retired" THEN ended ELSE r.status
      /\ e.revoked = IF Condemned(r) THEN r.changed ELSE None
  OBVIOUS
<1>2. /\ ToRecord(e).key = e.key /\ ToRecord(e).from = e.from /\ ToRecord(e).until = e.until
      /\ ToRecord(e).status = IF e.status = "active" /\ e.until # None THEN "retired" ELSE e.status
      /\ ToRecord(e).changed = IF Condemned(e) THEN e.revoked ELSE e.from
      /\ ToRecord(e).compromised = IF e.status = "compromised" THEN e.revoked ELSE None
      /\ ToRecord(e).replacement = None
  BY DEF ToRecord
<1>3. r.status \in Statuses /\ r.key \in Keys /\ r.from \in OptionalTimes
  BY DEF Records
<1>4. r.from # None => r.from \in Nat /\ r.from <= r.from
  <2>1. \A t \in OptionalTimes : t # None => t \in Nat
    BY TimeAssumption DEF OptionalTimes
  <2>2. \A t \in Nat : t <= t
    OBVIOUS
  <2> QED
    BY <1>3, <2>1, <2>2
<1>5. /\ r.status = "active" => r.until = None
      /\ r.status = "retired" => r.until # None
      /\ Condemned(r) => r.changed # None
      /\ InOrder(r.from, r.until) /\ InOrder(r.from, r.changed)
  BY DEF RecordAccepted, MeetsSchema, Condemned
<1>6. Condemned(e) <=> Condemned(r)
  BY <1>1, <1>3 DEF Condemned, Statuses
<1>7. EntryAccepted(e)
  BY <1>1, <1>5, <1>6 DEF EntryAccepted
<1>8. Condemned(ToRecord(e)) <=> Condemned(r)
  BY <1>1, <1>2, <1>3, <1>6 DEF Condemned, Statuses
<1>9. ToRecord(e).status = "retired" => r.status = "retired"
  BY <1>1, <1>2, <1>3, <1>5 DEF Statuses
<1>10. MeetsSchema(ToRecord(e))
  <2>1. ToRecord(e).status = "active" => ToRecord(e).until = None
    BY <1>2
  <2>2. ToRecord(e).status = "retired" => ToRecord(e).until # None /\ ToRecord(e).changed # None
    BY <1>1, <1>2, <1>5, <1>6, <1>9 DEF Condemned
  <2>3. ToRecord(e).status = "compromised" => ToRecord(e).compromised # None /\ ToRecord(e).changed # None
    BY <1>1, <1>2, <1>5, <1>6 DEF Condemned
  <2>4. ToRecord(e).status = "revoked" => ToRecord(e).changed # None
    BY <1>1, <1>2, <1>5, <1>6 DEF Condemned
  <2> QED
    BY <2>1, <2>2, <2>3, <2>4 DEF MeetsSchema
<1>11. /\ InOrder(ToRecord(e).from, ToRecord(e).until)
       /\ InOrder(ToRecord(e).from, ToRecord(e).changed)
       /\ InOrder(ToRecord(e).from, ToRecord(e).compromised)
  <2>1. ToRecord(e).changed \in {r.changed, r.from}
    BY <1>1, <1>2, <1>6
  <2>2. ToRecord(e).compromised \in {r.changed, None}
    BY <1>1, <1>2, <1>6 DEF Condemned
  <2> QED
    BY <2>1, <2>2, <1>1, <1>2, <1>4, <1>5 DEF InOrder
<1>12. ToRecord(e).replacement # ToRecord(e).key
  BY <1>1, <1>2, <1>3, NoneAssumption
<1> QED
  BY <1>1, <1>2, <1>7, <1>8, <1>10, <1>11, <1>12 DEF RecordAccepted

LEMMA ProfileAgreesByIInv == KeyIInv /\ TimelyRecords => ProfileAgreesWhenBounded
<1> SUFFICES ASSUME KeyIInv, TimelyRecords, proc.up,
                    \A r \in Published : ~CondemnedEarly(r) /\ (r.status = "retired" => r.from # None),
                    NEW key \in Keys, NEW at \in Times, NEW ended \in {"active", "retired"},
                    NEW a, a = [key |-> key, at |-> at, purpose |-> "public-action-receipt", genuine |-> TRUE]
             PROVE  ProfileVerdict(Profile(ended), a, a.purpose, clock) = Verdict(Published, a, a.purpose, clock)
  BY DEF ProfileAgreesWhenBounded, AgreesOn
<1> DEFINE Entry(r) == [key |-> r.key, status |-> IF r.status = "retired" THEN ended ELSE r.status,
                        from |-> r.from, until |-> r.until,
                        revoked |-> IF Condemned(r) THEN r.changed ELSE None]
           Back(r) == ToRecord(Entry(r))
           back == {ToRecord(e) : e \in Profile(ended)}
<1>1. a.key = key /\ a.at = at /\ a.genuine /\ PolicyAccepted(Published)
  BY PublishedIsTrustedByIInv DEF PublishedIsTrusted
<1>2. Profile(ended) = {Entry(r) : r \in Published}
  BY DEF Profile
<1>3. back = {Back(r) : r \in Published}
  BY <1>2
<1>4. Published \in SUBSET Records /\ Unique(Published) /\ clock \in Nat
  BY PublishedProps
<1>5. ASSUME NEW r \in Published
      PROVE  /\ EntryAccepted(Entry(r)) /\ RecordAccepted(Back(r)) /\ Back(r).replacement = None
             /\ Back(r).key = r.key /\ Back(r).from = r.from /\ Back(r).until = r.until
             /\ Condemned(Back(r)) <=> Condemned(r)
  <2>1. r \in Records /\ RecordAccepted(r)
    BY <1>1, <1>4 DEF PolicyAccepted
  <2> QED
    BY <2>1, ThroughProfile
<1> HIDE DEF Entry, Back
<1>6. ProfileVerdict(Profile(ended), a, a.purpose, clock) = Verdict(back, a, a.purpose, clock)
  <2>1. \A e \in Profile(ended) : EntryAccepted(e)
    BY <1>2, <1>5
  <2> QED
    BY <2>1 DEF ProfileVerdict
<1> HIDE DEF back
<1>7. PolicyAccepted(back)
  <2>1. \A r, q \in Published : Back(r).key = Back(q).key => Back(r) = Back(q)
    BY <1>4, <1>5 DEF Unique
  <2> QED
    BY <2>1, <1>3, <1>5 DEF PolicyAccepted
<1>8. CASE \A r \in Published : r.key # key
  <2>1. \A r \in back : r.key # key
    BY <1>3, <1>5, <1>8
  <2> QED
    BY <2>1, <1>1, <1>6, <1>8, VerdictWithoutRecord
<1>9. CASE \E r \in Published : r.key = key
  <2>1. PICK r \in Published : r.key = key
    BY <1>9
  <2>2. Back(r) \in back /\ Back(r).key = key
    BY <2>1, <1>3, <1>5
  <2>3. Verdict(Published, a, a.purpose, clock) = Lifecycle(r, at, clock)
    BY <2>1, <1>1, VerdictByRecord
  <2>4. Verdict(back, a, a.purpose, clock) = Lifecycle(Back(r), at, clock)
    BY <2>2, <1>1, <1>7, VerdictByRecord
  <2>5. r.from \in OptionalTimes /\ r.until \in OptionalTimes
    BY <1>4 DEF Records
  <2>6. Lifecycle(Back(r), at, clock) = Lifecycle(r, at, clock)
    BY <2>5, <1>4, <1>5, LifecycleOfTime
  <2> QED
    BY <2>3, <2>4, <2>6, <1>6
<1> QED
  BY <1>8, <1>9

\* After any deployments, for any keys and times, the registry that is served has one
\* record per key; TrustPolicy refuses it exactly if a key in it was condemned before it
\* became active; otherwise the interoperability profile's format says the same.
THEOREM UsableUnlessCondemnedEarlyHolds == KeySpec => []UsableUnlessCondemnedEarly
<1>1. KeyIInv /\ TimelyRecords => UsableUnlessCondemnedEarly
  BY PublishedIsTrustedByIInv, ProfileAgreesByIInv DEF KeyIInv, UsableUnlessCondemnedEarly
<1> QED
  BY <1>1, KeyInvariance, TimelyInvariance, PTL

\* An attestation that was issued is VALID for every later registry until its key is
\* condemned, and no older copy of the registry calls it INVALID.
THEOREM AttestationsStandHolds == KeySpec => []AttestationsStand
<1>1. KeyIInv => AttestationsStand
  BY AttestationsVerifyByIInv, OldCopiesAreKindByIInv DEF AttestationsStand
<1> QED
  BY <1>1, KeyInvariance, PTL

\* /anchor and a verifier with the published registry accept the same attestations.
THEOREM VerifiersAgreeHolds == KeySpec => []VerifiersAgree
BY VerifiersAgreeByIInv, KeyInvariance, PTL

----------------------------------------------------------------------------
(* SignedArtifacts.  The inductive invariant: every signature on the       *)
(* artifact at hand was made, by the key and over the message it was made  *)
(* with, whatever key it now bears; and a key that is trusted has been so  *)
(* from the start, as it was learned while it is active.                   *)
(***************************************************************************)
MadeSignatures ==
    {s \in [key : Makers, by : Makers, over : {m[2] : m \in made}, encoded : BOOLEAN] : <<s.by, s.over>> \in made}

ClaimEnvelopes ==
    [kind : {"claim"}, wellFormed : BOOLEAN, claim : Claims, id : Claims, sigs : Seq(MadeSignatures) \ {<<>>}]

ReceiptEnvelopes ==
    [kind : {"receipt"}, core : Statements, digest : Statements, id : Statements, at : 1 .. MaxTime,
     purpose : Contracts, proof : MadeSignatures]

SignaturesWereMade ==
    /\ \A s \in made : s = <<s[1], s[2]>>
    /\ artifact # None => artifact \in ClaimEnvelopes \union ReceiptEnvelopes

TrustedSinceStart ==
    /\ trusted \in [Keys -> Records \union {None}]
    /\ \A b \in bound : b[2] \in Keys
    /\ \A k \in Keys : trusted[k] # None =>
           trusted[k].from = 1 /\ (trusted[k].status = "active" => trusted[k] = Active(k))

ArtifactIInv == ArtifactTypeOK /\ SignaturesWereMade /\ TrustedSinceStart

LEMMA ArtifactConstants ==
    /\ MaxTime \in Nat /\ 1 \in Times /\ 1 # None
    /\ \A t \in 1 .. MaxTime : t \in Times /\ t \in Nat /\ t >= 1 /\ t # None
    /\ Makers \subseteq Keys /\ "claim" \in Contracts /\ "receipt" \in Contracts
BY BoundAssumption, ContractAssumption, NoneAssumption

LEMMA ArtifactInitIInv == ArtifactInit => ArtifactIInv
<1> SUFFICES ASSUME ArtifactInit PROVE ArtifactIInv
  OBVIOUS
<1>1. made = {} /\ Cardinality(made) = 0
  BY FS_EmptySet DEF ArtifactInit
<1>2. MaxSignedArtifacts \in Nat /\ time \in 1 .. MaxTime
  BY BoundAssumption DEF ArtifactInit
<1>3. \A k \in Keys : trusted[k] = None
  BY DEF ArtifactInit
<1>4. ArtifactTypeOK
  BY <1>1, <1>2, <1>3 DEF ArtifactTypeOK, ArtifactInit
<1>5. SignaturesWereMade /\ TrustedSinceStart
  BY <1>1, <1>3 DEF SignaturesWereMade, TrustedSinceStart, ArtifactInit
<1> QED
  BY <1>4, <1>5 DEF ArtifactIInv

LEMMA SignatureProps ==
    ASSUME NEW k \in Makers, NEW label \in Makers, NEW message, <<k, message>> \in made
    PROVE  By(label, k, message) \in MadeSignatures
<1>1. message \in {m[2] : m \in made}
  <2>1. <<k, message>>[2] = message
    OBVIOUS
  <2> QED
    BY <2>1
<1> QED
  BY <1>1 DEF By, MadeSignatures

\* Signing takes nothing away, and keeps what the invariant says of signatures and trust.
LEMMA SignsProps ==
    ASSUME ArtifactIInv, NEW k \in Makers, NEW message, message.contract \in Contracts, Signs(k, message),
           UNCHANGED <<trusted, bound, time>>
    PROVE  /\ <<k, message>> \in made'
           /\ MadeSignatures \subseteq MadeSignatures'
           /\ artifact' = artifact => SignaturesWereMade'
           /\ \A s \in made' : s = <<s[1], s[2]>>
           /\ (artifact' # None => artifact'.kind \in {"claim", "receipt"}) => ArtifactTypeOK'
           /\ TrustedSinceStart'
<1>1. made' = made \union {<<k, message>>} /\ Cardinality(made') <= MaxSignedArtifacts
  BY DEF Signs
<1>2. <<k, message>>[1] = k /\ <<k, message>>[2] = message
  OBVIOUS
<1>3. MadeSignatures \subseteq MadeSignatures'
  BY <1>1 DEF MadeSignatures
<1>4. \A s \in made' : s = <<s[1], s[2]>> /\ s[1] \in Makers /\ s[2].contract \in Contracts
  BY <1>1, <1>2 DEF ArtifactIInv, SignaturesWereMade, ArtifactTypeOK
<1>5. ClaimEnvelopes \subseteq ClaimEnvelopes' /\ ReceiptEnvelopes \subseteq ReceiptEnvelopes'
  BY <1>3 DEF ClaimEnvelopes, ReceiptEnvelopes
<1>6. artifact' = artifact => SignaturesWereMade'
  BY <1>4, <1>5 DEF ArtifactIInv, SignaturesWereMade
<1>7. (artifact' # None => artifact'.kind \in {"claim", "receipt"}) => ArtifactTypeOK'
  BY <1>1, <1>4 DEF ArtifactIInv, ArtifactTypeOK
<1>8. TrustedSinceStart'
  BY DEF ArtifactIInv, TrustedSinceStart
<1> QED
  BY <1>1, <1>3, <1>4, <1>6, <1>7, <1>8

LEMMA IssueClaimIInv ==
    ASSUME ArtifactIInv, NEW k \in Makers, NEW label \in Makers, NEW c \in Claims, IssueClaim(k, label, c)
    PROVE  ArtifactIInv'
<1> DEFINE message == Message("claim", c)
<1>1. /\ Signs(k, message) /\ UNCHANGED <<trusted, bound, time, altered>>
      /\ artifact' = [kind |-> "claim", wellFormed |-> TRUE, claim |-> c, id |-> c, sigs |-> <<By(label, k, message)>>]
  BY DEF IssueClaim
<1>2. message.contract \in Contracts
  BY ArtifactConstants DEF Message
<1>3. /\ <<k, message>> \in made' /\ TrustedSinceStart' /\ \A s \in made' : s = <<s[1], s[2]>>
      /\ (artifact' # None => artifact'.kind \in {"claim", "receipt"}) => ArtifactTypeOK'
  BY <1>1, <1>2, SignsProps
<1>4. By(label, k, message) \in MadeSignatures'
  BY <1>3, SignatureProps DEF By, MadeSignatures
<1>5. artifact' \in ClaimEnvelopes'
  BY <1>1, <1>4 DEF ClaimEnvelopes
<1>6. artifact'.kind = "claim"
  BY <1>1
<1> QED
  BY <1>3, <1>5, <1>6 DEF ArtifactIInv, SignaturesWereMade, ArtifactTypeOK

LEMMA IssueReceiptIInv ==
    ASSUME ArtifactIInv, NEW k \in Makers, NEW core \in Statements, IssueReceipt(k, core)
    PROVE  ArtifactIInv'
<1> DEFINE message == Message("receipt", [core |-> core, digest |-> core, at |-> time])
<1>1. /\ Signs(k, message) /\ UNCHANGED <<trusted, bound, time, altered>>
      /\ artifact' = [kind |-> "receipt", core |-> core, digest |-> core, id |-> core, at |-> time,
                      purpose |-> "receipt", proof |-> By(k, k, message)]
  BY DEF IssueReceipt
<1>2. message.contract \in Contracts
  BY ArtifactConstants DEF Message
<1>3. /\ <<k, message>> \in made' /\ TrustedSinceStart' /\ \A s \in made' : s = <<s[1], s[2]>>
      /\ (artifact' # None => artifact'.kind \in {"claim", "receipt"}) => ArtifactTypeOK'
  BY <1>1, <1>2, SignsProps
<1>4. By(k, k, message) \in MadeSignatures'
  BY <1>3, SignatureProps DEF By, MadeSignatures
<1>5. artifact' \in ReceiptEnvelopes'
  <2>1. time \in 1 .. MaxTime /\ "receipt" \in Contracts
    BY ArtifactConstants DEF ArtifactIInv, ArtifactTypeOK
  <2> QED
    BY <1>1, <1>4, <2>1 DEF ReceiptEnvelopes
<1>6. artifact'.kind = "receipt"
  BY <1>1
<1> QED
  BY <1>3, <1>5, <1>6 DEF ArtifactIInv, SignaturesWereMade

LEMMA SignOtherIInv ==
    ASSUME ArtifactIInv, NEW k \in Makers, NEW p \in Contracts, NEW c \in Statements, SignOther(k, p, c)
    PROVE  ArtifactIInv'
<1>1. UNCHANGED <<artifact, trusted, bound, time>>
  BY DEF SignOther
<1>2. PICK message : message.contract = p /\ Signs(k, message)
  BY DEF SignOther, Message
<1>3. /\ SignaturesWereMade' /\ TrustedSinceStart'
      /\ (artifact' # None => artifact'.kind \in {"claim", "receipt"}) => ArtifactTypeOK'
  BY <1>1, <1>2, SignsProps
<1>4. artifact # None => artifact.kind \in {"claim", "receipt"}
  BY DEF ArtifactIInv, ArtifactTypeOK
<1> QED
  BY <1>1, <1>3, <1>4 DEF ArtifactIInv

\* What a claim envelope may be altered to is one, of signatures that were made.
LEMMA AlteredClaimsProps ==
    ASSUME ArtifactIInv, NEW a \in ClaimEnvelopes, NEW b \in AlteredClaims(a)
    PROVE  b \in ClaimEnvelopes
<1>1. /\ a.kind = "claim" /\ a.wellFormed \in BOOLEAN /\ a.claim \in Claims /\ a.id \in Claims
      /\ a.sigs \in Seq(MadeSignatures) /\ a.sigs # <<>>
      /\ a = [kind |-> a.kind, wellFormed |-> a.wellFormed, claim |-> a.claim, id |-> a.id, sigs |-> a.sigs]
  BY DEF ClaimEnvelopes
<1>2. 1 \in DOMAIN a.sigs /\ a.sigs[1] \in MadeSignatures
  BY <1>1
<1>3. \A s \in made : s = <<s[1], s[2]>> /\ s[1] \in Makers
  BY DEF ArtifactIInv, SignaturesWereMade, ArtifactTypeOK
<1>4. \A s \in made : By(s[1], s[1], s[2]) \in MadeSignatures
  BY <1>3, SignatureProps
<1>5. ASSUME NEW c \in Claims PROVE [a EXCEPT !.claim = c] \in ClaimEnvelopes
                                    /\ [a EXCEPT !.claim = c, !.id = c] \in ClaimEnvelopes
  BY <1>5, <1>1 DEF ClaimEnvelopes
<1>6. ASSUME NEW sigs \in Seq(MadeSignatures) \ {<<>>} PROVE [a EXCEPT !.sigs = sigs] \in ClaimEnvelopes
  BY <1>6, <1>1 DEF ClaimEnvelopes
<1>7. [a EXCEPT !.wellFormed = FALSE] \in ClaimEnvelopes
  BY <1>1 DEF ClaimEnvelopes
<1>8. ASSUME NEW sig \in MadeSignatures
      PROVE  [a.sigs EXCEPT ![1] = sig] \in Seq(MadeSignatures) \ {<<>>}
  BY <1>1, <1>2, <1>8
<1>9. ASSUME NEW k \in Makers PROVE [a EXCEPT !.sigs[1].key = k] \in ClaimEnvelopes
  <2>1. [a.sigs[1] EXCEPT !.key = k] \in MadeSignatures
    BY <1>2, <1>9 DEF MadeSignatures
  <2>2. [a EXCEPT !.sigs[1].key = k] = [a EXCEPT !.sigs = [a.sigs EXCEPT ![1] = [a.sigs[1] EXCEPT !.key = k]]]
    BY <1>1, <1>2
  <2> QED
    BY <2>1, <2>2, <1>6, <1>8
<1>10. [a EXCEPT !.sigs[1].encoded = FALSE] \in ClaimEnvelopes
  <2>1. [a.sigs[1] EXCEPT !.encoded = FALSE] \in MadeSignatures
    BY <1>2 DEF MadeSignatures
  <2>2. [a EXCEPT !.sigs[1].encoded = FALSE]
            = [a EXCEPT !.sigs = [a.sigs EXCEPT ![1] = [a.sigs[1] EXCEPT !.encoded = FALSE]]]
    BY <1>1, <1>2
  <2> QED
    BY <2>1, <2>2, <1>6, <1>8
<1>11. ASSUME NEW s \in made PROVE [a EXCEPT !.sigs = <<By(s[1], s[1], s[2])>>] \in ClaimEnvelopes
  <2>1. <<By(s[1], s[1], s[2])>> \in Seq(MadeSignatures) \ {<<>>}
    BY <1>4
  <2> QED
    BY <2>1, <1>6
<1>12. ASSUME NEW s \in made
       PROVE  [a EXCEPT !.sigs = Append(<<a.sigs[1]>>, By(s[1], s[1], s[2]))] \in ClaimEnvelopes
  <2>1. Append(<<a.sigs[1]>>, By(s[1], s[1], s[2])) \in Seq(MadeSignatures) \ {<<>>}
    BY <1>2, <1>4
  <2> QED
    BY <2>1, <1>6
<1> QED
  BY <1>5, <1>7, <1>9, <1>10, <1>11, <1>12 DEF AlteredClaims

LEMMA AlteredReceiptsProps ==
    ASSUME ArtifactIInv, NEW a \in ReceiptEnvelopes, NEW b \in AlteredReceipts(a)
    PROVE  b \in ReceiptEnvelopes
<1>1. \A s \in made : s = <<s[1], s[2]>> /\ s[1] \in Makers
  BY DEF ArtifactIInv, SignaturesWereMade, ArtifactTypeOK
<1>2. \A s \in made : By(s[1], s[1], s[2]) \in MadeSignatures
  BY <1>1, SignatureProps
<1>3. a.proof \in MadeSignatures
  BY DEF ReceiptEnvelopes
<1>4. ASSUME NEW c \in Statements
      PROVE  [a EXCEPT !.core = c] \in ReceiptEnvelopes
             /\ [a EXCEPT !.core = c, !.digest = c, !.id = c] \in ReceiptEnvelopes
  BY <1>4 DEF ReceiptEnvelopes
<1>5. ASSUME NEW p \in Contracts PROVE [a EXCEPT !.purpose = p] \in ReceiptEnvelopes
  BY <1>5 DEF ReceiptEnvelopes
<1>6. ASSUME NEW t \in 1 .. MaxTime PROVE [a EXCEPT !.at = t] \in ReceiptEnvelopes
  BY <1>6 DEF ReceiptEnvelopes
<1>7. ASSUME NEW sig \in MadeSignatures PROVE [a EXCEPT !.proof = sig] \in ReceiptEnvelopes
  BY <1>7 DEF ReceiptEnvelopes
<1>8. ASSUME NEW k \in Makers PROVE [a EXCEPT !.proof.key = k] \in ReceiptEnvelopes
  <2>1. [a.proof EXCEPT !.key = k] \in MadeSignatures
    BY <1>3 DEF MadeSignatures
  <2>2. [a EXCEPT !.proof.key = k] = [a EXCEPT !.proof = [a.proof EXCEPT !.key = k]]
    BY DEF ReceiptEnvelopes
  <2> QED
    BY <2>1, <2>2, <1>7
<1> QED
  BY <1>2, <1>4, <1>5, <1>6, <1>7, <1>8 DEF AlteredReceipts

LEMMA AlterIInv == ASSUME ArtifactIInv, Alter PROVE ArtifactIInv'
<1>1. /\ artifact # None /\ UNCHANGED <<made, trusted, bound, time>>
      /\ artifact' \in (IF artifact.kind = "claim" THEN AlteredClaims(artifact) ELSE AlteredReceipts(artifact))
  BY DEF Alter
<1>2. artifact \in ClaimEnvelopes \union ReceiptEnvelopes
  BY <1>1 DEF ArtifactIInv, SignaturesWereMade
<1>3. artifact' \in ClaimEnvelopes \union ReceiptEnvelopes
  <2>1. CASE artifact \in ClaimEnvelopes
    <3>1. artifact.kind = "claim"
      BY <2>1 DEF ClaimEnvelopes
    <3> QED
      BY <1>1, <2>1, <3>1, AlteredClaimsProps
  <2>2. CASE artifact \in ReceiptEnvelopes
    <3>1. artifact.kind # "claim"
      BY <2>2 DEF ReceiptEnvelopes
    <3> QED
      BY <1>1, <2>2, <3>1, AlteredReceiptsProps
  <2> QED
    BY <1>2, <2>1, <2>2
<1>4. /\ MadeSignatures' = MadeSignatures /\ ClaimEnvelopes' = ClaimEnvelopes
      /\ ReceiptEnvelopes' = ReceiptEnvelopes
  BY <1>1 DEF MadeSignatures, ClaimEnvelopes, ReceiptEnvelopes
<1>5. artifact'.kind \in {"claim", "receipt"}
  BY <1>3 DEF ClaimEnvelopes, ReceiptEnvelopes
<1> QED
  BY <1>1, <1>3, <1>4, <1>5 DEF ArtifactIInv, ArtifactTypeOK, SignaturesWereMade, TrustedSinceStart

\* Trust may change as long as no record is lost or changes its key or its beginning.
LEMMA TrustStepIInv ==
    ASSUME ArtifactIInv, UNCHANGED <<made, artifact>>, time' \in 1 .. MaxTime,
           \A b \in bound' : b \in bound \/ (b[1] \in Issuers /\ b[2] \in Keys /\ trusted[b[2]] # None),
           NEW k \in Keys, NEW r \in Records, trusted' = [trusted EXCEPT ![k] = r] \/ trusted' = trusted,
           r.key = k /\ RecordAccepted(r) /\ r.from = 1 /\ (r.status = "active" => r = Active(k))
    PROVE  ArtifactIInv'
<1>1. trusted \in [Keys -> Records \union {None}]
  BY DEF ArtifactIInv, TrustedSinceStart
<1>2. /\ trusted' \in [Keys -> Records \union {None}]
      /\ \A q \in Keys : trusted'[q] = trusted[q] \/ (q = k /\ trusted'[q] = r)
  BY <1>1
<1>3. \A q \in Keys : trusted[q] # None => trusted'[q] # None
  <2>1. r # None
    BY RecordAssumption
  <2> QED
    BY <1>2, <2>1
<1>4. TrustedSinceStart'
  <2>1. \A b \in bound' : b[2] \in Keys
    BY DEF ArtifactIInv, TrustedSinceStart
  <2> QED
    BY <1>2, <2>1 DEF ArtifactIInv, TrustedSinceStart
<1>5. \A q \in Keys : trusted'[q] # None => trusted'[q].key = q /\ RecordAccepted(trusted'[q])
  BY <1>2 DEF ArtifactIInv, ArtifactTypeOK
<1>6. \A b \in bound' : b[1] \in Issuers /\ trusted'[b[2]] # None
  BY <1>3 DEF ArtifactIInv, ArtifactTypeOK, TrustedSinceStart
<1>7. ArtifactTypeOK'
  BY <1>5, <1>6 DEF ArtifactIInv, ArtifactTypeOK
<1>8. SignaturesWereMade'
  <2>1. /\ MadeSignatures' = MadeSignatures /\ ClaimEnvelopes' = ClaimEnvelopes
        /\ ReceiptEnvelopes' = ReceiptEnvelopes
    BY DEF MadeSignatures, ClaimEnvelopes, ReceiptEnvelopes
  <2> QED
    BY <2>1 DEF ArtifactIInv, SignaturesWereMade
<1> QED
  BY <1>4, <1>7, <1>8 DEF ArtifactIInv

LEMMA ActiveProps ==
    ASSUME NEW k \in Keys
    PROVE  /\ Active(k) \in Records /\ Active(k).key = k /\ Active(k).from = 1 /\ Active(k).until = None
           /\ Active(k).status = "active" /\ ~Condemned(Active(k)) /\ RecordAccepted(Active(k))
<1>1. /\ Active(k).key = k /\ Active(k).status = "active" /\ Active(k).from = 1 /\ Active(k).until = None
      /\ Active(k).changed = 1 /\ Active(k).compromised = None /\ Active(k).replacement = None
  BY DEF Active
<1>2. 1 \in OptionalTimes /\ None \in OptionalTimes /\ k # None
  BY ArtifactConstants, NoneAssumption DEF OptionalTimes
<1>3. Active(k) \in Records
  BY <1>2 DEF Active, Records, Statuses
<1>4. RecordAccepted(Active(k))
  BY <1>1, <1>2 DEF RecordAccepted, MeetsSchema, InOrder
<1> QED
  BY <1>1, <1>3, <1>4 DEF Condemned

LEMMA ArtifactTickIInv == ASSUME ArtifactIInv, ArtifactTick PROVE ArtifactIInv'
<1>1. time' \in 1 .. MaxTime /\ UNCHANGED <<made, artifact, trusted, bound, altered>>
  BY ArtifactConstants DEF ArtifactTick, ArtifactIInv, ArtifactTypeOK
<1>2. /\ MadeSignatures' = MadeSignatures /\ ClaimEnvelopes' = ClaimEnvelopes
      /\ ReceiptEnvelopes' = ReceiptEnvelopes
  BY <1>1 DEF MadeSignatures, ClaimEnvelopes, ReceiptEnvelopes
<1> QED
  BY <1>1, <1>2 DEF ArtifactIInv, ArtifactTypeOK, SignaturesWereMade, TrustedSinceStart

LEMMA ArtifactLearnIInv == ASSUME ArtifactIInv, NEW k \in Makers, ArtifactLearn(k) PROVE ArtifactIInv'
<1>1. k \in Keys /\ time \in 1 .. MaxTime
  BY ArtifactConstants DEF ArtifactIInv, ArtifactTypeOK
<1>2. trusted' = [trusted EXCEPT ![k] = Active(k)] /\ UNCHANGED <<made, artifact, bound, time>>
  BY DEF ArtifactLearn
<1> QED
  BY <1>1, <1>2, ActiveProps, TrustStepIInv

\* What becomes of a record that is still active.
LEMMA EndOfActive ==
    ASSUME ArtifactIInv, NEW k \in Makers, trusted[k] # None, trusted[k].status = "active"
    PROVE  /\ k \in Keys /\ time \in 1 .. MaxTime /\ trusted[k] = Active(k)
           /\ [trusted EXCEPT ![k].status = "retired", ![k].until = time, ![k].changed = time]
                = [trusted EXCEPT ![k] = [Active(k) EXCEPT !.status = "retired", !.until = time, !.changed = time]]
           /\ [trusted EXCEPT ![k].status = "revoked"]
                = [trusted EXCEPT ![k] = [Active(k) EXCEPT !.status = "revoked"]]
<1>1. k \in Keys /\ time \in 1 .. MaxTime /\ trusted[k] = Active(k)
  BY ArtifactConstants DEF ArtifactIInv, ArtifactTypeOK, TrustedSinceStart
<1>2. trusted \in [Keys -> Records \union {None}]
  BY DEF ArtifactIInv, TrustedSinceStart
<1> QED
  BY <1>1, <1>2

LEMMA RetireIInv == ASSUME ArtifactIInv, NEW k \in Makers, Retire(k) PROVE ArtifactIInv'
<1> DEFINE r == [Active(k) EXCEPT !.status = "retired", !.until = time, !.changed = time]
<1>1. trusted[k] # None /\ trusted[k].status = "active" /\ UNCHANGED <<made, artifact, bound, time>>
  BY DEF Retire
<1>2. k \in Keys /\ time \in 1 .. MaxTime /\ trusted' = [trusted EXCEPT ![k] = r]
  BY <1>1, EndOfActive DEF Retire
<1>3. /\ r.key = k /\ r.status = "retired" /\ r.from = 1 /\ r.until = time /\ r.changed = time
      /\ r.compromised = None /\ r.replacement = None
  BY DEF Active
<1>4. /\ time \in OptionalTimes /\ None \in OptionalTimes /\ 1 \in OptionalTimes
      /\ 1 <= time /\ time # None /\ k # None
  BY <1>2, ArtifactConstants, NoneAssumption DEF OptionalTimes
<1>5. r \in Records
  BY <1>2, <1>4 DEF Active, Records, Statuses
<1>6. RecordAccepted(r)
  BY <1>3, <1>4 DEF RecordAccepted, MeetsSchema, InOrder
<1> HIDE DEF r
<1> QED
  BY <1>1, <1>2, <1>3, <1>5, <1>6, TrustStepIInv

LEMMA ArtifactCondemnIInv == ASSUME ArtifactIInv, NEW k \in Makers, ArtifactCondemn(k) PROVE ArtifactIInv'
<1> DEFINE r == [Active(k) EXCEPT !.status = "revoked"]
<1>1. trusted[k] # None /\ trusted[k].status = "active" /\ UNCHANGED <<made, artifact, bound, time>>
  BY DEF ArtifactCondemn
<1>2. k \in Keys /\ time \in 1 .. MaxTime /\ trusted' = [trusted EXCEPT ![k] = r]
  BY <1>1, EndOfActive DEF ArtifactCondemn
<1>3. /\ r.key = k /\ r.status = "revoked" /\ r.from = 1 /\ r.until = None /\ r.changed = 1
      /\ r.compromised = None /\ r.replacement = None
  BY DEF Active
<1>4. None \in OptionalTimes /\ 1 \in OptionalTimes /\ 1 # None /\ 1 <= 1 /\ k # None
  BY <1>2, ArtifactConstants, NoneAssumption DEF OptionalTimes
<1>5. r \in Records
  BY <1>2, <1>4 DEF Active, Records, Statuses
<1>6. RecordAccepted(r)
  BY <1>3, <1>4 DEF RecordAccepted, MeetsSchema, InOrder
<1> HIDE DEF r
<1> QED
  BY <1>1, <1>2, <1>3, <1>5, <1>6, TrustStepIInv

LEMMA BindIInv == ASSUME ArtifactIInv, NEW i \in Issuers, NEW k \in Makers, Bind(i, k) PROVE ArtifactIInv'
<1>1. /\ bound' = bound \union {<<i, k>>} /\ UNCHANGED <<made, artifact, trusted, time>>
      /\ trusted[k] # None /\ k \in Keys /\ time \in 1 .. MaxTime
  BY ArtifactConstants DEF Bind, ArtifactIInv, ArtifactTypeOK
<1>2. \A b \in bound' : b \in bound \/ (b[1] \in Issuers /\ b[2] \in Keys /\ trusted[b[2]] # None)
  BY <1>1
<1> QED
  BY <1>1, <1>2, ActiveProps, TrustStepIInv

LEMMA ArtifactNextIInv == ArtifactIInv /\ [ArtifactNext]_artifactVars => ArtifactIInv'
<1>1. ASSUME ArtifactIInv, UNCHANGED artifactVars PROVE ArtifactIInv'
  <2>1. /\ MadeSignatures' = MadeSignatures /\ ClaimEnvelopes' = ClaimEnvelopes
        /\ ReceiptEnvelopes' = ReceiptEnvelopes
    BY <1>1 DEF artifactVars, MadeSignatures, ClaimEnvelopes, ReceiptEnvelopes
  <2> QED
    BY <1>1, <2>1 DEF artifactVars, ArtifactIInv, ArtifactTypeOK, SignaturesWereMade, TrustedSinceStart
<1>2. ASSUME ArtifactIInv, ArtifactNext PROVE ArtifactIInv'
  BY <1>2, IssueClaimIInv, IssueReceiptIInv, SignOtherIInv, AlterIInv, ArtifactTickIInv, ArtifactLearnIInv,
     RetireIInv, ArtifactCondemnIInv, BindIInv DEF ArtifactNext
<1> QED
  BY <1>1, <1>2

THEOREM ArtifactInvariance == ArtifactSpec => []ArtifactIInv
<1> QED
  BY ArtifactInitIInv, ArtifactNextIInv, PTL DEF ArtifactSpec

----------------------------------------------------------------------------
(* What a valid artifact shows, and how long it does.                      *)

\* Of the two kinds, the one its kind says.
LEMMA ArtifactKinds ==
    ASSUME ArtifactIInv, artifact # None
    PROVE  /\ artifact.kind = "claim" => artifact \in ClaimEnvelopes
           /\ artifact.kind # "claim" => artifact \in ReceiptEnvelopes
           /\ artifact.kind = "receipt" => artifact \in ReceiptEnvelopes
BY DEF ArtifactIInv, SignaturesWereMade, ClaimEnvelopes, ReceiptEnvelopes

\* What verifySignedPaymentClaim asks for, in one formula.
LEMMA ClaimIsValid ==
    ASSUME ArtifactIInv, artifact # None, artifact.kind = "claim"
    PROVE  LET sig == artifact.sigs[1]
           IN  VerdictOf(artifact) = "VALID" <=>
                   /\ Acceptable(artifact, Expected) /\ artifact.id = artifact.claim
                   /\ trusted[sig.key] # None /\ <<artifact.claim.issuer, sig.key>> \in bound
                   /\ VerifiesOver(sig, Message("claim", artifact.claim))
                   /\ Lifecycle(trusted[sig.key], artifact.claim.at, time) = "VALID"
BY DEF VerdictOf, ClaimVerdict, Live

\* What verifyReceiptEnvelope asks for.
LEMMA ReceiptIsValid ==
    ASSUME ArtifactIInv, artifact # None, artifact.kind # "claim"
    PROVE  VerdictOf(artifact) = "VALID" <=>
               /\ artifact.digest = artifact.core /\ artifact.id = artifact.core /\ artifact.purpose = "receipt"
               /\ trusted[artifact.proof.key] # None
               /\ VerifiesOver(artifact.proof, Message(artifact.purpose,
                      [core |-> artifact.core, digest |-> artifact.digest, at |-> artifact.at]))
               /\ Lifecycle(trusted[artifact.proof.key], artifact.at, time) = "VALID"
BY DEF VerdictOf, ReceiptVerdict, Live

LEMMA ValidIsInForce ==
    ASSUME NEW r, NEW at, NEW t, Lifecycle(r, at, t) = "VALID"
    PROVE  ~Condemned(r)
BY DEF Lifecycle

LEMMA OnlyItsIssuerSpeaksByIInv == ArtifactIInv => OnlyItsIssuerSpeaks
<1> SUFFICES ASSUME ArtifactIInv, artifact # None, artifact.kind = "claim", VerdictOf(artifact) = "VALID"
             PROVE  /\ \E k \in Keys : /\ ArtifactInForce(k) /\ <<artifact.claim.issuer, k>> \in bound
                                       /\ <<k, Message("claim", artifact.claim)>> \in made
                    /\ artifact.id = artifact.claim /\ Expected \in {None, artifact.claim.issuer}
  BY DEF OnlyItsIssuerSpeaks
<1> DEFINE sig == artifact.sigs[1]
<1>1. /\ Acceptable(artifact, Expected) /\ artifact.id = artifact.claim
      /\ trusted[sig.key] # None /\ <<artifact.claim.issuer, sig.key>> \in bound
      /\ VerifiesOver(sig, Message("claim", artifact.claim))
      /\ Lifecycle(trusted[sig.key], artifact.claim.at, time) = "VALID"
  BY ClaimIsValid
<1>2. artifact.sigs \in Seq(MadeSignatures) /\ artifact.sigs # <<>>
  BY ArtifactKinds DEF ClaimEnvelopes
<1>3. sig \in MadeSignatures
  BY <1>2
<1>4. sig.key \in Keys /\ <<sig.by, sig.over>> \in made
  BY <1>3, ArtifactConstants DEF MadeSignatures
<1>5. sig.by = sig.key /\ sig.over = Message("claim", artifact.claim)
  BY <1>1 DEF VerifiesOver
<1>6. ArtifactInForce(sig.key)
  BY <1>1, ValidIsInForce DEF ArtifactInForce
<1> QED
  BY <1>1, <1>4, <1>5, <1>6 DEF Acceptable

LEMMA ReceiptIsWhatWasSignedByIInv == ArtifactIInv => ReceiptIsWhatWasSigned
<1> SUFFICES ASSUME ArtifactIInv, artifact # None, artifact.kind = "receipt", VerdictOf(artifact) = "VALID"
             PROVE  /\ \E k \in Keys : ArtifactInForce(k) /\ <<k, Message("receipt",
                            [core |-> artifact.core, digest |-> artifact.core, at |-> artifact.at])>> \in made
                    /\ artifact.id = artifact.core
  BY DEF ReceiptIsWhatWasSigned
<1>1. /\ artifact.digest = artifact.core /\ artifact.id = artifact.core /\ artifact.purpose = "receipt"
      /\ trusted[artifact.proof.key] # None
      /\ VerifiesOver(artifact.proof, Message(artifact.purpose,
             [core |-> artifact.core, digest |-> artifact.digest, at |-> artifact.at]))
      /\ Lifecycle(trusted[artifact.proof.key], artifact.at, time) = "VALID"
  BY ReceiptIsValid
<1>2. artifact.proof \in MadeSignatures
  BY ArtifactKinds DEF ReceiptEnvelopes
<1>3. artifact.proof.key \in Keys /\ <<artifact.proof.by, artifact.proof.over>> \in made
  BY <1>2, ArtifactConstants DEF MadeSignatures
<1>4. ArtifactInForce(artifact.proof.key)
  BY <1>1, ValidIsInForce DEF ArtifactInForce
<1>5. /\ artifact.proof.by = artifact.proof.key
      /\ artifact.proof.over = Message("receipt", [core |-> artifact.core, digest |-> artifact.core, at |-> artifact.at])
  BY <1>1 DEF VerifiesOver
<1> QED
  BY <1>1, <1>3, <1>4, <1>5

\* For any keys, issuers and contents: whatever an artifact becomes on its way, it is
\* valid only if a key in force signed exactly it, as what it is.
THEOREM ArtifactIsSpokenHolds == ArtifactSpec => []ArtifactIsSpoken
<1>1. ArtifactIInv => ArtifactIsSpoken
  BY OnlyItsIssuerSpeaksByIInv, ReceiptIsWhatWasSignedByIInv DEF ArtifactIInv, ArtifactIsSpoken
<1> QED
  BY <1>1, ArtifactInvariance, PTL

\* A step that condemns no key leaves what a key has signed by now in its lifecycle.
LEMMA TrustLasts ==
    ASSUME ArtifactIInv, [ArtifactNext]_artifactVars, \A k \in Makers : ~ArtifactCondemn(k),
           NEW k \in Makers, trusted[k] # None, NEW at \in 1 .. MaxTime, at <= time,
           Lifecycle(trusted[k], at, time) = "VALID"
    PROVE  trusted'[k] # None /\ Lifecycle(trusted'[k], at, time') = "VALID" /\ bound \subseteq bound'
<1> DEFINE r == trusted[k]
<1>1. /\ k \in Keys /\ at \in Times /\ at \in Nat /\ time \in Nat /\ time \in 1 .. MaxTime /\ Skew \in Nat
      /\ r \in Records /\ r.from \in OptionalTimes /\ r.until \in OptionalTimes
      /\ trusted \in [Keys -> Records \union {None}]
  BY ArtifactConstants, TimeAssumption DEF ArtifactIInv, ArtifactTypeOK, TrustedSinceStart, Records
<1>2. ~Condemned(r) /\ r.from # None /\ r.from <= at /\ (r.until # None => at <= r.until)
  BY <1>1, LifecycleOfTime
<1>3. ASSUME trusted'[k] = r, time' \in Nat, time <= time' PROVE Lifecycle(trusted'[k], at, time') = "VALID"
  <2>1. ~(at > time' + Skew)
    BY <1>1, <1>3
  <2> QED
    BY <1>1, <1>2, <1>3, <2>1, LifecycleOfTime
<1>4. CASE UNCHANGED <<trusted, time>> /\ bound \subseteq bound'
  BY <1>1, <1>3, <1>4
<1>5. CASE ArtifactTick
  <2>1. time' \in Nat /\ time <= time' /\ UNCHANGED <<trusted, bound>>
    BY <1>1, <1>5 DEF ArtifactTick
  <2> QED
    BY <1>1, <1>3, <2>1
<1>6. ASSUME NEW j \in Makers, ArtifactLearn(j)
      PROVE  trusted'[k] # None /\ Lifecycle(trusted'[k], at, time') = "VALID" /\ bound \subseteq bound'
  <2>1. j # k /\ trusted' = [trusted EXCEPT ![j] = Active(j)] /\ UNCHANGED <<time, bound>>
    BY <1>6 DEF ArtifactLearn
  <2>2. trusted'[k] = r
    BY <1>1, <2>1
  <2> QED
    BY <1>1, <1>3, <2>1, <2>2
<1>7. ASSUME NEW j \in Makers, Retire(j)
      PROVE  trusted'[k] # None /\ Lifecycle(trusted'[k], at, time') = "VALID" /\ bound \subseteq bound'
  <2>1. UNCHANGED <<time, bound>>
    BY <1>7 DEF Retire
  <2>2. CASE j # k
    <3>1. trusted'[k] = r
      BY <1>1, <1>7, <2>2 DEF Retire
    <3> QED
      BY <1>1, <1>3, <2>1, <3>1
  <2>3. CASE j = k
    <3> DEFINE q == [Active(k) EXCEPT !.status = "retired", !.until = time, !.changed = time]
    <3>1. r = Active(k) /\ trusted' = [trusted EXCEPT ![k] = q]
      BY <1>7, <2>3, EndOfActive DEF Retire
    <3>2. /\ q.status = "retired" /\ q.from = r.from /\ q.until = time /\ ~Condemned(q)
      BY <3>1 DEF Active, Condemned
    <3>3. ArtifactIInv'
      BY <1>7, RetireIInv
    <3>4. trusted'[k] = q /\ q \in Records
      <4>1. trusted'[k] = q
        BY <1>1, <3>1
      <4>2. time \in OptionalTimes
        BY <1>1, ArtifactConstants DEF OptionalTimes
      <4>3. q \in Records
        BY <1>1, <4>2, ActiveProps DEF Active, Records, Statuses
      <4> QED
        BY <4>1, <4>3
    <3> HIDE DEF q
    <3>5. q.until \in OptionalTimes /\ ~(at > time + Skew)
      <4>1. time \in OptionalTimes
        BY <1>1, ArtifactConstants DEF OptionalTimes
      <4> QED
        BY <1>1, <3>2, <4>1
    <3>6. Lifecycle(q, at, time) = "VALID"
      BY <1>1, <1>2, <3>2, <3>5, LifecycleOfTime
    <3>7. q # None
      BY <3>4, RecordAssumption
    <3> QED
      BY <2>1, <3>4, <3>6, <3>7
  <2> QED
    BY <2>2, <2>3
<1>8. ASSUME NEW i \in Issuers, NEW j \in Makers, Bind(i, j)
      PROVE  UNCHANGED <<trusted, time>> /\ bound \subseteq bound'
  BY <1>8 DEF Bind
<1>9. ASSUME NEW j \in Makers, NEW label \in Makers, NEW c \in Claims, IssueClaim(j, label, c)
      PROVE  UNCHANGED <<trusted, time>> /\ bound \subseteq bound'
  BY <1>9 DEF IssueClaim
<1>10. ASSUME NEW j \in Makers, NEW c \in Statements, IssueReceipt(j, c)
       PROVE  UNCHANGED <<trusted, time>> /\ bound \subseteq bound'
  BY <1>10 DEF IssueReceipt
<1>11. ASSUME NEW j \in Makers, NEW p \in Contracts, NEW c \in Statements, SignOther(j, p, c)
       PROVE  UNCHANGED <<trusted, time>> /\ bound \subseteq bound'
  BY <1>11 DEF SignOther
<1>12. ASSUME Alter \/ UNCHANGED artifactVars PROVE UNCHANGED <<trusted, time>> /\ bound \subseteq bound'
  BY <1>12 DEF Alter, artifactVars
<1> QED
  BY <1>4, <1>5, <1>6, <1>7, <1>8, <1>9, <1>10, <1>11, <1>12 DEF ArtifactNext

LEMMA ValidStaysValidByIInv ==
    ASSUME ArtifactIInv, [ArtifactNext]_artifactVars
    PROVE  ValidStaysValid
<1> SUFFICES ASSUME artifact # None, artifact' = artifact, VerdictOf(artifact) = "VALID",
                    Stated(artifact) <= time, \A k \in Makers : ~ArtifactCondemn(k)
             PROVE  VerdictOf(artifact)' = "VALID"
  BY DEF ValidStaysValid
<1>1. ArtifactIInv'
  BY ArtifactNextIInv
<1>2. CASE artifact.kind = "claim"
  <2> DEFINE sig == artifact.sigs[1]
  <2>1. artifact.claim \in Claims /\ artifact.sigs \in Seq(MadeSignatures) /\ artifact.sigs # <<>>
    BY <1>2, ArtifactKinds DEF ClaimEnvelopes
  <2>2. sig.key \in Makers /\ artifact.claim.at \in 1 .. MaxTime
    <3>1. sig \in MadeSignatures
      BY <2>1
    <3> QED
      BY <2>1, <3>1 DEF MadeSignatures, Claims
  <2>3. /\ Acceptable(artifact, Expected) /\ artifact.id = artifact.claim
        /\ trusted[sig.key] # None /\ <<artifact.claim.issuer, sig.key>> \in bound
        /\ VerifiesOver(sig, Message("claim", artifact.claim))
        /\ Lifecycle(trusted[sig.key], artifact.claim.at, time) = "VALID"
    BY <1>2, ClaimIsValid
  <2>4. artifact.claim.at <= time
    BY <1>2 DEF Stated
  <2>5. /\ trusted'[sig.key] # None /\ Lifecycle(trusted'[sig.key], artifact.claim.at, time') = "VALID"
        /\ bound \subseteq bound'
    BY <2>2, <2>3, <2>4, TrustLasts
  <2> QED
    BY <1>2, <2>3, <2>5 DEF VerdictOf, ClaimVerdict, Live
<1>3. CASE artifact.kind # "claim"
  <2> DEFINE sig == artifact.proof
  <2>1. sig.key \in Makers /\ artifact.at \in 1 .. MaxTime
    BY <1>3, ArtifactKinds DEF ReceiptEnvelopes, MadeSignatures
  <2>2. /\ artifact.digest = artifact.core /\ artifact.id = artifact.core /\ artifact.purpose = "receipt"
        /\ trusted[sig.key] # None
        /\ VerifiesOver(sig, Message(artifact.purpose,
               [core |-> artifact.core, digest |-> artifact.digest, at |-> artifact.at]))
        /\ Lifecycle(trusted[sig.key], artifact.at, time) = "VALID"
    BY <1>3, ReceiptIsValid
  <2>3. artifact.at <= time
    BY <1>3 DEF Stated
  <2>4. trusted'[sig.key] # None /\ Lifecycle(trusted'[sig.key], artifact.at, time') = "VALID"
    BY <2>1, <2>2, <2>3, TrustLasts
  <2> QED
    BY <1>3, <2>2, <2>4 DEF VerdictOf, ReceiptVerdict, Live
<1> QED
  BY <1>2, <1>3

\* An active record covers what its key signs now.
LEMMA ActiveCoversNow ==
    ASSUME ArtifactIInv, NEW k \in Makers, trusted[k] # None, trusted[k].status = "active"
    PROVE  Lifecycle(trusted[k], time, time) = "VALID"
<1>1. /\ k \in Keys /\ trusted[k] = Active(k) /\ time \in Times /\ time \in Nat /\ time >= 1 /\ Skew \in Nat
  BY EndOfActive, ArtifactConstants, TimeAssumption
<1>2. /\ Active(k).from = 1 /\ Active(k).until = None /\ ~Condemned(Active(k)) /\ 1 # None
      /\ 1 \in OptionalTimes /\ None \in OptionalTimes
  BY <1>1, ActiveProps, ArtifactConstants DEF OptionalTimes
<1>3. ~(time > time + Skew) /\ 1 <= time
  BY <1>1
<1> QED
  BY <1>1, <1>2, <1>3, LifecycleOfTime

LEMMA IssuedIsValidByIInv == ASSUME ArtifactIInv PROVE IssuedIsValid
<1>1. ASSUME NEW k \in Makers, NEW c \in Issued("claim"), IssueClaim(k, k, c), trusted[k] # None,
             trusted[k].status = "active", <<c.issuer, k>> \in bound, Expected \in {None, c.issuer}
      PROVE  VerdictOf(artifact)' = "VALID"
  <2> DEFINE sig == By(k, k, Message("claim", c))
  <2>1. /\ artifact' = [kind |-> "claim", wellFormed |-> TRUE, claim |-> c, id |-> c, sigs |-> <<sig>>]
        /\ c.at = time /\ UNCHANGED <<trusted, bound, time>>
    BY <1>1 DEF IssueClaim
  <2>2. sig.key = k /\ VerifiesOver(sig, Message("claim", c))
    BY DEF By, VerifiesOver, Decodes
  <2>3. Lifecycle(trusted[k], c.at, time) = "VALID"
    BY <1>1, <2>1, ActiveCoversNow
  <2> HIDE DEF sig
  <2>4. /\ artifact'.kind = "claim" /\ artifact'.claim = c /\ artifact'.id = c /\ artifact'.sigs[1] = sig
        /\ artifact'.wellFormed /\ Len(artifact'.sigs) = 1
    BY <2>1
  <2> QED
    BY <1>1, <2>1, <2>2, <2>3, <2>4 DEF VerdictOf, ClaimVerdict, Acceptable, Live
<1>2. ASSUME NEW k \in Makers, NEW c \in Issued("receipt"), IssueReceipt(k, c), trusted[k] # None,
             trusted[k].status = "active"
      PROVE  VerdictOf(artifact)' = "VALID"
  <2> DEFINE message == Message("receipt", [core |-> c, digest |-> c, at |-> time])
             sig == By(k, k, message)
  <2>1. /\ artifact' = [kind |-> "receipt", core |-> c, digest |-> c, id |-> c, at |-> time,
                        purpose |-> "receipt", proof |-> sig]
        /\ UNCHANGED <<trusted, bound, time>>
    BY <1>2 DEF IssueReceipt
  <2>2. sig.key = k /\ VerifiesOver(sig, message)
    BY DEF By, VerifiesOver, Decodes
  <2>3. Lifecycle(trusted[k], time, time) = "VALID"
    BY <1>2, ActiveCoversNow
  <2> HIDE DEF sig
  <2>4. /\ artifact'.kind = "receipt" /\ artifact'.core = c /\ artifact'.digest = c /\ artifact'.id = c
        /\ artifact'.at = time /\ artifact'.purpose = "receipt" /\ artifact'.proof = sig
    BY <2>1
  <2> QED
    BY <1>2, <2>1, <2>2, <2>3, <2>4 DEF VerdictOf, ReceiptVerdict, Live
<1> QED
  BY <1>1, <1>2 DEF IssuedIsValid

\* For any keys, issuers and contents: what the helpers issue is valid from the start, and
\* only a revocation takes the validity away.
THEOREM ArtifactLastsHolds == ArtifactSpec => ArtifactLasts
<1>1. ArtifactIInv /\ [ArtifactNext]_artifactVars => [IssuedIsValid]_artifactVars /\ [ValidStaysValid]_artifactVars
  BY IssuedIsValidByIInv, ValidStaysValidByIInv
<1> QED
  BY <1>1, ArtifactInvariance, PTL DEF ArtifactSpec, ArtifactLasts, IssuedVerifies, OnlyRevocationUndoes

----------------------------------------------------------------------------
(* BundleVerifier.  The inductive invariant: every signature on the bundle *)
(* was made, by the key and over the payload it was made with, whatever    *)
(* key it now bears and whatever payload it now stands beside; and what    *)
(* the caller trusts are records.                                          *)
(***************************************************************************)
SealsMade ==
    {s \in [key : Signers, by : Signers, over : Payloads, encoded : BOOLEAN] : <<s.by, s.over>> \in signed}

Bundles == {b \in [file : Files, payload : Payloads, sigs : Seq(SealsMade)] : Len(b.sigs) \in 1 .. MaxSigned}

SealsWereMade ==
    /\ IsFiniteSet(signed)
    /\ bundle # None => bundle \in Bundles
    /\ trust \in [Keys -> Records \union {None}]

BundleIInv == TypeOK /\ SealsWereMade

LEMMA BundleConstants ==
    /\ MaxNow \in Nat /\ 1 \in 1 .. MaxNow /\ MaxSigned \in Nat /\ MaxPasses \in Nat /\ Signers \subseteq Keys
    /\ \A t \in 1 .. MaxNow : t \in Times /\ t \in Nat /\ t # None /\ t \in OptionalTimes
    /\ None \in OptionalTimes /\ None \notin Records
BY BundleAssumption, NoneAssumption, RecordAssumption DEF OptionalTimes

LEMMA BundleInitIInv == Init => BundleIInv
<1> SUFFICES ASSUME Init PROVE BundleIInv
  OBVIOUS
<1>1. /\ signed = {} /\ Cardinality(signed) = 0 /\ IsFiniteSet(signed) /\ bundle = None
      /\ now = 1 /\ passes = 0 /\ policy \in Policies
  BY FS_EmptySet DEF Init
<1>2. /\ trust \in [Keys -> Held \union {None}]
      /\ \A k \in Keys : IF k \in Named THEN trust[k] # None /\ trust[k].key = k ELSE trust[k] = None
  BY DEF Init
<1>3. Held \subseteq Records
  BY HeldAssumption
<1>4. trust \in [Keys -> Records \union {None}]
  BY <1>2, <1>3
<1>5. Named \subseteq Keys
  BY <1>1, PolicyAssumption DEF Named
<1>6. \A k \in Keys : trust[k] # None => trust[k].key = k /\ RecordAccepted(trust[k])
  BY <1>2, HeldAssumption
<1>7. TypeOK
  BY <1>1, <1>2, <1>5, <1>6, BundleConstants DEF TypeOK
<1> QED
  BY <1>1, <1>4, <1>7 DEF BundleIInv, SealsWereMade

LEMMA SealProps ==
    ASSUME NEW k \in Signers, NEW p \in Payloads, <<k, p>> \in signed
    PROVE  Signature(k, p) \in SealsMade
BY DEF Signature, SealsMade

\* Signing keeps what was made and leaves room for one signature at least.
LEMMA SignProps ==
    ASSUME BundleIInv, NEW k \in Signers, NEW p \in Payloads, Sign(k, p),
           UNCHANGED <<policy, trust, now, passes>>
    PROVE  /\ Signature(k, p) \in SealsMade' /\ SealsMade \subseteq SealsMade' /\ 1 <= MaxSigned
           /\ bundle' \in Bundles' => BundleIInv'
<1>1. signed' = signed \union {<<k, p>>} /\ Cardinality(signed') <= MaxSigned
  BY DEF Sign
<1>2. IsFiniteSet(signed') /\ Cardinality(signed') \in Nat /\ Cardinality(signed') # 0
  <2>1. IsFiniteSet(signed')
    BY <1>1, FS_AddElement DEF BundleIInv, SealsWereMade
  <2>2. signed' # {}
    BY <1>1
  <2> QED
    BY <2>1, <2>2, FS_EmptySet, FS_CardinalityType
<1>3. Signature(k, p) \in SealsMade' /\ SealsMade \subseteq SealsMade'
  BY <1>1 DEF Signature, SealsMade
<1>4. signed' \subseteq Signers \X Payloads
  BY <1>1 DEF BundleIInv, TypeOK
<1>5. ASSUME bundle' \in Bundles' PROVE BundleIInv'
  <2>1. bundle'.payload \in Payloads /\ Len(bundle'.sigs) \in 1 .. MaxSigned
    BY <1>5 DEF Bundles
  <2>2. Named' = Named
    BY DEF Named
  <2> QED
    BY <1>1, <1>2, <1>4, <1>5, <2>1, <2>2 DEF BundleIInv, TypeOK, SealsWereMade
<1> QED
  BY <1>1, <1>2, <1>3, <1>5, BundleConstants

LEMMA NewBundleProps ==
    ASSUME 1 <= MaxSigned, NEW S, NEW p \in Payloads, NEW sig \in S
    PROVE  /\ NewBundle(p, sig) \in [file : Files, payload : Payloads, sigs : Seq(S)]
           /\ Len(NewBundle(p, sig).sigs) \in 1 .. MaxSigned
<1>1. <<sig>> \in Seq(S) /\ Len(<<sig>>) = 1 /\ NewBundle(p, sig).sigs = <<sig>>
  BY DEF NewBundle
<1>2. 1 \in 1 .. MaxSigned
  BY BundleConstants
<1> QED
  BY <1>1, <1>2 DEF NewBundle, Files

\* Whatever the signer answers, what sealBundle does not refuse is the signature of its key.
LEMMA AnswerProps ==
    ASSUME BundleIInv, NEW k \in Signers, NEW p \in Payloads, NEW sig \in Answers(k, p),
           sig.key = k, VerifiesOver(sig, p)
    PROVE  sig = Signature(k, p) /\ sig.by = k /\ sig.over = p
<1>1. sig.by = k /\ sig.over = p
  BY DEF VerifiesOver
<1>2. CASE \E l \in Signers : sig = [Signature(k, p) EXCEPT !.key = l]
  BY <1>1, <1>2 DEF Signature
<1>3. CASE \E l \in Signers : sig = [Signature(k, p) EXCEPT !.by = l]
  BY <1>1, <1>3 DEF Signature
<1>4. CASE \E s \in signed : sig = [Signature(s[1], s[2]) EXCEPT !.key = k]
  BY <1>1, <1>4 DEF Signature
<1> QED
  BY <1>1, <1>2, <1>3, <1>4 DEF Answers

LEMMA SealIInv ==
    ASSUME BundleIInv, NEW k \in Signers, NEW p \in Payloads, NEW sig \in Answers(k, p), Seal(k, p, sig)
    PROVE  BundleIInv'
<1>1. /\ Sign(k, p) /\ UNCHANGED <<policy, trust, now, passes>>
      /\ bundle' = NewBundle(p, Signature(k, p))
  BY AnswerProps DEF Seal
<1>2. Signature(k, p) \in SealsMade' /\ 1 <= MaxSigned /\ (bundle' \in Bundles' => BundleIInv')
  BY <1>1, SignProps
<1>3. bundle' \in Bundles'
  BY <1>1, <1>2, NewBundleProps DEF Bundles
<1> QED
  BY <1>2, <1>3

LEMMA SignElsewhereIInv ==
    ASSUME BundleIInv, NEW k \in Signers, NEW p \in Payloads, SignElsewhere(k, p)
    PROVE  BundleIInv'
<1>1. Sign(k, p) /\ UNCHANGED <<policy, trust, now, passes>>
  BY DEF SignElsewhere
<1>2. /\ Signature(k, p) \in SealsMade' /\ SealsMade \subseteq SealsMade' /\ 1 <= MaxSigned
      /\ (bundle' \in Bundles' => BundleIInv')
  BY <1>1, SignProps
<1>3. CASE bundle # None /\ bundle.payload = p /\ Len(bundle.sigs) < MaxSigned
  <2>1. bundle' = [bundle EXCEPT !.sigs = Append(bundle.sigs, Signature(k, p))]
    BY <1>3 DEF SignElsewhere
  <2>2. bundle \in Bundles
    BY <1>3 DEF BundleIInv, SealsWereMade
  <2>3. bundle.sigs \in Seq(SealsMade') /\ Len(bundle.sigs) \in 1 .. MaxSigned
    BY <2>2, <1>2 DEF Bundles
  <2>4. /\ Append(bundle.sigs, Signature(k, p)) \in Seq(SealsMade')
        /\ Len(Append(bundle.sigs, Signature(k, p))) = Len(bundle.sigs) + 1
    BY <1>2, <2>3
  <2>5. Len(bundle.sigs) + 1 \in 1 .. MaxSigned
    BY <1>3, <2>3, BundleConstants
  <2>6. bundle' \in Bundles'
    BY <2>1, <2>2, <2>4, <2>5 DEF Bundles
  <2> QED
    BY <1>2, <2>6
<1>4. CASE ~(bundle # None /\ bundle.payload = p /\ Len(bundle.sigs) < MaxSigned)
  <2>1. bundle' = NewBundle(p, Signature(k, p))
    BY <1>4 DEF SignElsewhere
  <2>2. bundle' \in Bundles'
    BY <1>2, <2>1, NewBundleProps DEF Bundles
  <2> QED
    BY <1>2, <2>2
<1> QED
  BY <1>3, <1>4

LEMMA PassOnIInv == ASSUME BundleIInv, PassOn PROVE BundleIInv'
<1>1. bundle # None /\ UNCHANGED <<signed, policy, trust, now>> /\ passes < MaxPasses /\ passes' = passes + 1
  BY DEF PassOn
<1>2. bundle \in Bundles
  BY <1>1 DEF BundleIInv, SealsWereMade
<1>3. bundle.sigs \in Seq(SealsMade) /\ Len(bundle.sigs) \in 1 .. MaxSigned
  BY <1>2 DEF Bundles
<1>4. /\ \A f \in Files : [bundle EXCEPT !.file = f] \in Bundles
      /\ \A p \in Payloads : [bundle EXCEPT !.payload = p] \in Bundles
  BY <1>2 DEF Bundles
<1>5. ASSUME NEW sigs \in Seq(SealsMade), Len(sigs) \in 1 .. MaxSigned PROVE [bundle EXCEPT !.sigs = sigs] \in Bundles
  BY <1>2, <1>5 DEF Bundles
<1>6. ASSUME NEW i \in DOMAIN bundle.sigs, NEW sig \in SealsMade
      PROVE  /\ [bundle.sigs EXCEPT ![i] = sig] \in Seq(SealsMade)
             /\ Len([bundle.sigs EXCEPT ![i] = sig]) \in 1 .. MaxSigned
  BY <1>3, <1>6
<1>7. ASSUME NEW i \in DOMAIN bundle.sigs PROVE [bundle EXCEPT !.sigs[i].encoded = FALSE] \in Bundles
  <2>1. bundle.sigs[i] \in SealsMade
    BY <1>3
  <2>2. [bundle.sigs[i] EXCEPT !.encoded = FALSE] \in SealsMade
    BY <2>1 DEF SealsMade
  <2>3. [bundle EXCEPT !.sigs[i].encoded = FALSE]
            = [bundle EXCEPT !.sigs = [bundle.sigs EXCEPT ![i] = [bundle.sigs[i] EXCEPT !.encoded = FALSE]]]
    BY <1>2 DEF Bundles
  <2> QED
    BY <2>2, <2>3, <1>5, <1>6
<1>8. ASSUME NEW i \in DOMAIN bundle.sigs, NEW k \in Signers PROVE [bundle EXCEPT !.sigs[i].key = k] \in Bundles
  <2>1. bundle.sigs[i] \in SealsMade
    BY <1>3
  <2>2. [bundle.sigs[i] EXCEPT !.key = k] \in SealsMade
    BY <2>1 DEF SealsMade
  <2>3. [bundle EXCEPT !.sigs[i].key = k]
            = [bundle EXCEPT !.sigs = [bundle.sigs EXCEPT ![i] = [bundle.sigs[i] EXCEPT !.key = k]]]
    BY <1>2 DEF Bundles
  <2> QED
    BY <2>2, <2>3, <1>5, <1>6
<1>9. ASSUME NEW s \in signed, Len(bundle.sigs) # MaxSigned
      PROVE  [bundle EXCEPT !.sigs = Append(bundle.sigs, Signature(s[1], s[2]))] \in Bundles
  <2>1. s = <<s[1], s[2]>> /\ s[1] \in Signers /\ s[2] \in Payloads
    BY DEF BundleIInv, TypeOK
  <2>2. Signature(s[1], s[2]) \in SealsMade
    BY <2>1, SealProps
  <2>3. /\ Append(bundle.sigs, Signature(s[1], s[2])) \in Seq(SealsMade)
        /\ Len(Append(bundle.sigs, Signature(s[1], s[2]))) = Len(bundle.sigs) + 1
    BY <1>3, <2>2
  <2>4. Len(bundle.sigs) + 1 \in 1 .. MaxSigned
    BY <1>3, <1>9, BundleConstants
  <2> QED
    BY <2>3, <2>4, <1>5
<1>10. bundle' \in Bundles
  <2>1. \/ \E f \in Files : bundle' = [bundle EXCEPT !.file = f]
        \/ \E p \in Payloads : bundle' = [bundle EXCEPT !.payload = p]
        \/ \E i \in DOMAIN bundle.sigs : bundle' = [bundle EXCEPT !.sigs[i].encoded = FALSE]
        \/ \E i \in DOMAIN bundle.sigs, k \in Signers : bundle' = [bundle EXCEPT !.sigs[i].key = k]
        \/ /\ Len(bundle.sigs) # MaxSigned
           /\ \E s \in signed : bundle' = [bundle EXCEPT !.sigs = Append(bundle.sigs, Signature(s[1], s[2]))]
    BY DEF PassOn
  <2> QED
    BY <2>1, <1>4, <1>7, <1>8, <1>9
<1>11. Bundles' = Bundles /\ Named' = Named
  BY <1>1 DEF Bundles, SealsMade, Named
<1>12. bundle'.payload \in Payloads /\ Len(bundle'.sigs) \in 1 .. MaxSigned
  BY <1>10 DEF Bundles
<1>13. passes' \in 0 .. MaxPasses
  BY <1>1, BundleConstants DEF BundleIInv, TypeOK
<1> QED
  BY <1>1, <1>10, <1>11, <1>12, <1>13 DEF BundleIInv, TypeOK, SealsWereMade

\* The caller's trust changes in one record, which is accepted.
LEMMA CallerLearnsIInv ==
    ASSUME BundleIInv, NEW k \in Keys, NEW r \in Records, RecordAccepted(r), r.key = k,
           trust' = [trust EXCEPT ![k] = r], UNCHANGED <<signed, bundle, policy, now, passes>>
    PROVE  BundleIInv'
<1>1. trust \in [Keys -> Records \union {None}]
  BY DEF BundleIInv, SealsWereMade
<1>2. /\ trust' \in [Keys -> Records \union {None}]
      /\ \A q \in Keys : trust'[q] = IF q = k THEN r ELSE trust[q]
  BY <1>1
<1>3. r # None
  BY RecordAssumption
<1>4. Named' = Named /\ Named \subseteq Keys /\ Bundles' = Bundles
  BY PolicyAssumption DEF Named, Bundles, SealsMade, BundleIInv, TypeOK
<1>5. TypeOK'
  BY <1>2, <1>3, <1>4 DEF BundleIInv, TypeOK
<1> QED
  BY <1>2, <1>4, <1>5 DEF BundleIInv, SealsWereMade

LEMMA LearnIInv == ASSUME BundleIInv, NEW k \in Keys, NEW r \in Held, Learn(k, r) PROVE BundleIInv'
BY CallerLearnsIInv, HeldAssumption DEF Learn

LEMMA CondemnIInv == ASSUME BundleIInv, NEW k \in Keys, Condemn(k) PROVE BundleIInv'
<1> DEFINE r == [trust[k] EXCEPT !.status = "revoked", !.changed = now]
<1>1. /\ trust[k] # None /\ InOrder(trust[k].from, now) /\ UNCHANGED <<signed, bundle, policy, now, passes>>
      /\ trust' = [trust EXCEPT ![k].status = "revoked", ![k].changed = now]
  BY DEF Condemn
<1>2. trust \in [Keys -> Records \union {None}] /\ trust[k] \in Records
      /\ trust[k].key = k /\ RecordAccepted(trust[k])
  BY <1>1 DEF BundleIInv, SealsWereMade, TypeOK
<1>3. now \in OptionalTimes /\ now # None
  BY BundleConstants DEF BundleIInv, TypeOK
<1>4. r \in Records
  BY <1>2, <1>3 DEF Records, Statuses
<1>5. /\ r.status = "revoked" /\ r.changed = now /\ r.key = k /\ r.from = trust[k].from /\ r.until = trust[k].until
      /\ r.compromised = trust[k].compromised /\ r.replacement = trust[k].replacement
  BY <1>2 DEF Records
<1>6. trust' = [trust EXCEPT ![k] = r]
  BY <1>1, <1>2
<1>7. RecordAccepted(r)
  BY <1>1, <1>2, <1>3, <1>5 DEF RecordAccepted, MeetsSchema
<1> HIDE DEF r
<1> QED
  BY <1>1, <1>4, <1>5, <1>6, <1>7, CallerLearnsIInv

LEMMA TickIInv == ASSUME BundleIInv, Tick PROVE BundleIInv'
<1>1. now' \in 1 .. MaxNow /\ UNCHANGED <<signed, bundle, policy, trust, passes>>
  BY BundleConstants DEF Tick, BundleIInv, TypeOK
<1>2. Named' = Named /\ Bundles' = Bundles
  BY <1>1 DEF Named, Bundles, SealsMade
<1> QED
  BY <1>1, <1>2 DEF BundleIInv, TypeOK, SealsWereMade

LEMMA NextBundleIInv == BundleIInv /\ [Next]_vars => BundleIInv'
<1>1. ASSUME BundleIInv, UNCHANGED vars PROVE BundleIInv'
  <2>1. Named' = Named /\ Bundles' = Bundles
    BY <1>1 DEF Named, Bundles, SealsMade, vars
  <2> QED
    BY <1>1, <2>1 DEF BundleIInv, TypeOK, SealsWereMade, vars
<1> QED
  BY <1>1, SealIInv, SignElsewhereIInv, PassOnIInv, LearnIInv, CondemnIInv, TickIInv DEF Next

THEOREM BundleInvariance == Spec => []BundleIInv
<1> QED
  BY BundleInitIInv, NextBundleIInv, PTL DEF Spec

----------------------------------------------------------------------------
(* What a verdict tells of the parts it is taken from.                     *)

Bad == {"INVALID", "UNVERIFIABLE"}

\* overallState: good only if nothing that is required is bad, and INVALID at once if
\* something is.
LEMMA OverallProps ==
    ASSUME NEW results
    PROVE  /\ Overall(results) \in States
           /\ Overall(results) = "VALID" <=> \A r \in results : r.required => r.state \notin Bad
           /\ Overall(results) = "INVALID" <=> \E r \in results : r.required /\ r.state = "INVALID"
<1> DEFINE states == {r.state : r \in {q \in results : q.required}}
<1>1. Overall(results) = IF "INVALID" \in states THEN "INVALID"
                         ELSE IF "UNVERIFIABLE" \in states THEN "UNVERIFIABLE" ELSE "VALID"
  BY DEF Overall
<1>2. \A s : s \in states <=> \E r \in results : r.required /\ r.state = s
  OBVIOUS
<1> HIDE DEF states
<1> QED
  BY <1>1, <1>2 DEF States, Bad

LEMMA ResultProps ==
    ASSUME NEW c, NEW s, NEW record
    PROVE  /\ Result(c, s, record).component = c /\ Result(c, s, record).state = s
           /\ Result(c, s, record).record = record /\ Result(c, s, record).required
BY DEF Result

\* The results of verifyBundle, one way out of it at a time.
Findings(b) == {FirstPass(b, i) : i \in DOMAIN b.sigs}
SealResults(states) == {Result("bundle-signature", s, None) : s \in states}
Untrusted(b) == {Outer} \union Material(b) \union SealResults(Findings(b) \ {"sound"})
Judged(b, clk) == Untrusted(b) \union {Result("payload", "VALID", None)} \union SealResults(SealSignatures(b, clk))

ResultsOf(b, clk) ==
    IF b.file = "unreadable" THEN {[Outer EXCEPT !.state = "INVALID"]}
    ELSE IF b.file = "no-payload" THEN {Outer} \union Material(b) \union {Result("payload", "INVALID", None)}
    ELSE IF "INVALID" \in Findings(b) THEN Untrusted(b)
    ELSE IF "sound" \notin Findings(b) THEN Untrusted(b) \union SealResults({"UNVERIFIABLE"})
    ELSE IF b.payload.form = "unparsable" THEN Untrusted(b) \union {Result("payload", "INVALID", None)}
    ELSE IF b.payload.form = "rewritten" THEN Untrusted(b) \union {Result("payload", "INVALID", None)}
    ELSE IF ~b.payload.graph THEN Judged(b, clk) \union {Result("graph", "INVALID", None)}
    ELSE Judged(b, clk) \union Contents(b.payload, policy.bound, clk)

VerdictResults == \A b, clk : VerifyBundle(b, clk).results = ResultsOf(b, clk)

LEMMA VerifyBundleResults == VerdictResults
BY DEF VerdictResults, ResultsOf, VerifyBundle, Report, Findings, SealResults, Untrusted, Judged

\* A bundle-signature result for each state found.
LEMMA SealResultsProps ==
    ASSUME NEW states
    PROVE  /\ \A s \in states : \E r \in SealResults(states) : r.required /\ r.state = s /\ r.component = "bundle-signature"
           /\ \A r \in SealResults(states) : r.state \in states /\ r.required /\ r.component = "bundle-signature"
<1>1. ASSUME NEW s \in states PROVE \E r \in SealResults(states) : r.required /\ r.state = s /\ r.component = "bundle-signature"
  <2>1. Result("bundle-signature", s, None) \in SealResults(states)
    BY DEF SealResults
  <2> QED
    BY <2>1, ResultProps
<1>2. ASSUME NEW r \in SealResults(states) PROVE r.state \in states /\ r.required /\ r.component = "bundle-signature"
  <2>1. PICK s \in states : r = Result("bundle-signature", s, None)
    BY DEF SealResults
  <2> QED
    BY <2>1, ResultProps
<1> QED
  BY <1>1, <1>2

LEMMA FirstPassCases == ASSUME NEW b, NEW i PROVE FirstPass(b, i) \in {"UNVERIFIABLE", "sound", "INVALID"}
BY DEF FirstPass

\* Nothing was found of the outer document or the first pass that is not good.
Seals(b, clk) ==
    /\ b.file \notin {"unreadable", "no-payload"} /\ "sound" \in Findings(b) /\ Findings(b) \subseteq {"sound"}
    /\ b.payload.form \notin {"unparsable", "rewritten"} /\ b.payload.graph
    /\ SealSignatures(b, clk) \intersect Bad = {}

\* What a good bundle has: a good seal, and contents no required result of which is bad.
LEMMA BundleIsValid ==
    ASSUME NEW b, NEW clk, State(VerifyBundle(b, clk)) = "VALID"
    PROVE  /\ Seals(b, clk)
           /\ \A r \in Contents(b.payload, policy.bound, clk) : r.required => r.state \notin Bad
           /\ VerifyBundle(b, clk).results = Judged(b, clk) \union Contents(b.payload, policy.bound, clk)
<1> DEFINE results == VerifyBundle(b, clk).results
<1>1. \A r \in results : r.required => r.state \notin Bad
  BY OverallProps DEF State
<1>2. b.file \notin {"unreadable", "no-payload"}
  <2>1. [Outer EXCEPT !.state = "INVALID"].required /\ [Outer EXCEPT !.state = "INVALID"].state = "INVALID"
    BY DEF Outer, Result
  <2>2. Result("payload", "INVALID", None).required /\ Result("payload", "INVALID", None).state = "INVALID"
    BY ResultProps
  <2> QED
    BY <1>1, <2>1, <2>2, VerifyBundleResults DEF Bad, VerdictResults, ResultsOf
<1>3. Result("payload", "INVALID", None) \notin results /\ Result("graph", "INVALID", None) \notin results
  BY <1>1, ResultProps DEF Bad
<1> HIDE DEF results
<1>4. \A states : SealResults(states) \subseteq results => states \intersect Bad = {}
  BY <1>1, SealResultsProps
<1>5. Untrusted(b) \subseteq results
  BY <1>2, VerifyBundleResults DEF results, Judged, VerdictResults, ResultsOf
<1>6. Findings(b) \subseteq {"sound"}
  <2>1. SealResults(Findings(b) \ {"sound"}) \subseteq results
    BY <1>5 DEF Untrusted
  <2>2. (Findings(b) \ {"sound"}) \intersect Bad = {}
    BY <2>1, <1>4
  <2>3. Findings(b) \subseteq {"UNVERIFIABLE", "sound", "INVALID"}
    BY FirstPassCases DEF Findings
  <2> QED
    BY <2>2, <2>3 DEF Bad
<1>7. "sound" \in Findings(b)
  <2>1. SUFFICES ASSUME "sound" \notin Findings(b) PROVE FALSE
    OBVIOUS
  <2>2. SealResults({"UNVERIFIABLE"}) \subseteq results
    BY <1>2, <1>6, <2>1, VerifyBundleResults DEF results, VerdictResults, ResultsOf
  <2> QED
    BY <2>2, <1>4 DEF Bad
<1>8. results = Judged(b, clk) \union Contents(b.payload, policy.bound, clk)
      /\ b.payload.form \notin {"unparsable", "rewritten"} /\ b.payload.graph
  BY <1>2, <1>3, <1>6, <1>7, VerifyBundleResults DEF results, VerdictResults, ResultsOf
<1>9. SealSignatures(b, clk) \intersect Bad = {}
  BY <1>4, <1>8 DEF Judged
<1> QED
  BY <1>1, <1>2, <1>6, <1>7, <1>8, <1>9 DEF Seals, results

LEMMA LifecycleStates == ASSUME NEW r, NEW at, NEW t PROVE Lifecycle(r, at, t) \in States
BY DEF Lifecycle, States

\* The signatures of a bundle whose seal is good: each key signs once, is trusted and in
\* force, and signed the payload.
LEMMA SealsAreGood ==
    ASSUME BundleIInv, bundle # None, Seals(bundle, now)
    PROVE  /\ \A i \in DOMAIN bundle.sigs :
                /\ bundle.sigs[i].key \in Signers /\ trust[bundle.sigs[i].key] # None
                /\ SealLife(bundle, i, now) = "VALID" /\ InForce(bundle.sigs[i].key)
                /\ Verified(bundle, i) /\ <<bundle.sigs[i].key, bundle.payload>> \in signed
           /\ \A i, j \in DOMAIN bundle.sigs : bundle.sigs[i].key = bundle.sigs[j].key => i = j
           /\ policy.required \subseteq {bundle.sigs[i].key : i \in DOMAIN bundle.sigs}
           /\ ~(Cardinality(DOMAIN bundle.sigs) < policy.minimum)
<1> DEFINE dom == DOMAIN bundle.sigs
<1>1. bundle \in Bundles /\ bundle.sigs \in Seq(SealsMade) /\ dom = 1 .. Len(bundle.sigs) /\ Len(bundle.sigs) \in Nat
  BY DEF BundleIInv, SealsWereMade, Bundles
<1>2. ASSUME NEW i \in dom PROVE bundle.sigs[i] \in SealsMade
  BY <1>1
<1>3. ASSUME NEW i \in dom PROVE FirstPass(bundle, i) = "sound"
  BY DEF Seals, Findings
<1>4. ASSUME NEW i \in dom PROVE Verified(bundle, i) /\ trust[bundle.sigs[i].key] # None
  BY <1>3 DEF FirstPass, Verified
<1>5. {i \in dom : FirstPass(bundle, i) = "sound"} = dom
  BY <1>3
<1>6. SealSignatures(bundle, now) =
         {SealLife(bundle, i, now) : i \in dom}
         \union (IF policy.required \subseteq {bundle.sigs[i].key : i \in dom} THEN {} ELSE {"UNVERIFIABLE"})
         \union (IF Cardinality({i \in dom : SealLife(bundle, i, now) = "VALID"}) < policy.minimum THEN {"UNVERIFIABLE"} ELSE {})
  BY <1>5 DEF SealSignatures
<1>7. SealSignatures(bundle, now) \intersect Bad = {}
  BY DEF Seals
<1>8. ASSUME NEW i \in dom PROVE SealLife(bundle, i, now) = "VALID"
  <2>1. SealLife(bundle, i, now) \in SealSignatures(bundle, now)
    BY <1>6
  <2>2. SealLife(bundle, i, now) \in States
    BY LifecycleStates DEF SealLife, Live
  <2> QED
    BY <2>1, <2>2, <1>7 DEF States, Bad
<1>9. {i \in dom : SealLife(bundle, i, now) = "VALID"} = dom
  BY <1>8
<1>10. policy.required \subseteq {bundle.sigs[i].key : i \in dom} /\ ~(Cardinality(dom) < policy.minimum)
  <2>1. "UNVERIFIABLE" \notin SealSignatures(bundle, now)
    BY <1>7 DEF Bad
  <2> QED
    BY <2>1, <1>6, <1>9
<1>11. ASSUME NEW i \in dom PROVE InForce(bundle.sigs[i].key)
  <2>1. Lifecycle(trust[bundle.sigs[i].key], bundle.payload.created, now) = "VALID"
    BY <1>8 DEF SealLife, Live
  <2> QED
    BY <2>1, <1>4, ValidIsInForce DEF InForce
<1>12. ASSUME NEW i \in dom PROVE bundle.sigs[i].key \in Signers /\ <<bundle.sigs[i].key, bundle.payload>> \in signed
  <2>1. bundle.sigs[i].by = bundle.sigs[i].key /\ bundle.sigs[i].over = bundle.payload
    BY <1>4 DEF Verified, VerifiesOver
  <2> QED
    BY <2>1, <1>2 DEF SealsMade
<1>13. ASSUME NEW i \in dom, NEW j \in dom, bundle.sigs[i].key = bundle.sigs[j].key PROVE i = j
  <2>1. ~Repeated(bundle.sigs, i) /\ ~Repeated(bundle.sigs, j)
    BY <1>4 DEF Verified
  <2>2. i \in Nat /\ j \in Nat /\ 1 <= i /\ 1 <= j
    BY <1>1
  <2>3. ~(i < j)
    <3>1. i < j => i \in 1 .. j - 1
      BY <2>2
    <3> QED
      BY <3>1, <2>1, <1>13 DEF Repeated
  <2>4. ~(j < i)
    <3>1. j < i => j \in 1 .. i - 1
      BY <2>2
    <3> QED
      BY <3>1, <2>1, <1>13 DEF Repeated
  <2> QED
    BY <2>2, <2>3, <2>4
<1> QED
  BY <1>4, <1>8, <1>10, <1>11, <1>12, <1>13

LEMMA ValidIsSoundByIInv == BundleIInv => ValidIsSound
<1> DEFINE good == {k \in Keys : InForce(k) /\ <<k, bundle.payload>> \in signed}
           dom == DOMAIN bundle.sigs
<1> SUFFICES ASSUME BundleIInv, bundle # None, State(Verdict0) = "VALID"
             PROVE  /\ Cardinality(good) >= policy.minimum /\ policy.required \subseteq good
                    /\ bundle.payload.form = "canonical" /\ bundle.payload.graph
  BY DEF ValidIsSound
<1>1. Seals(bundle, now)
  BY BundleIsValid DEF Verdict0
<1>2. bundle.payload.form = "canonical" /\ bundle.payload.graph
  <2>1. bundle.payload.form \in Forms
    BY PayloadAssumption DEF BundleIInv, TypeOK
  <2> QED
    BY <1>1, <2>1 DEF Seals, Forms
<1>3. \A i \in dom : bundle.sigs[i].key \in good
  BY <1>1, SealsAreGood, BundleConstants
<1>4. policy.required \subseteq good
  BY <1>1, <1>3, SealsAreGood
<1>5. IsFiniteSet(good)
  <2> DEFINE signers == {s[1] : s \in signed}
             f == [s \in signed |-> s[1]]
  <2>1. f \in Surjection(signed, signers)
    BY Fun_IsSurj
  <2>2. IsFiniteSet(signers)
    BY <2>1, FS_Surjection DEF BundleIInv, SealsWereMade
  <2>3. good \subseteq signers
    <3>1. ASSUME NEW k \in good PROVE k \in signers
      <4>1. <<k, bundle.payload>> \in signed /\ <<k, bundle.payload>>[1] = k
        OBVIOUS
      <4> QED
        BY <4>1
    <3> QED
      BY <3>1
  <2> QED
    BY <2>2, <2>3, FS_Subset
<1>6. Cardinality(dom) <= Cardinality(good) /\ IsFiniteSet(dom)
  <2> DEFINE f == [i \in dom |-> bundle.sigs[i].key]
  <2>1. f \in [dom -> good]
    BY <1>3
  <2>2. \A i, j \in dom : f[i] = f[j] => i = j
    BY <1>1, SealsAreGood
  <2>3. f \in Injection(dom, good)
    BY <2>1, <2>2, Fun_IsInj
  <2> QED
    BY <2>3, <1>5, FS_Injection
<1>7. Cardinality(dom) \in Nat /\ Cardinality(good) \in Nat /\ policy.minimum \in Nat
  BY <1>5, <1>6, FS_CardinalityType, PolicyAssumption DEF BundleIInv, TypeOK
<1>8. ~(Cardinality(dom) < policy.minimum)
  BY <1>1, SealsAreGood
<1> QED
  BY <1>2, <1>4, <1>6, <1>7, <1>8

\* What is found of a record's own proof, one kind of proof at a time.
LEMMA ProofStatesCases ==
    ASSUME NEW e, NEW T, NEW b, NEW clk
    PROVE  /\ e.proof = "none" => ProofStates(e, T, b, clk) = {}
           /\ e.proof = "digest" => ProofStates(e, T, b, clk) = {"VALID"}
           /\ e.proof \in {"attestation-v1", "attestation-v2"} =>
                ProofStates(e, T, b, clk) = {IF e.embedded /\ e.fits THEN AttestationProof(e, T, clk) ELSE "INVALID"}
           /\ e.proof = "dsse" /\ e.family = "claim" =>
                ProofStates(e, T, b, clk) = {IF ~e.embedded THEN "UNVERIFIABLE"
                                             ELSE IF ~e.fits THEN "INVALID" ELSE ClaimVerdict(e.claim, None, T, b, clk)}
           /\ e.proof \notin {"none", "digest", "attestation-v1", "attestation-v2"} /\ ~(e.proof = "dsse" /\ e.family = "claim") =>
                ProofStates(e, T, b, clk) = IF e.fits THEN SignatureSet(e.sigs, e.id, T, clk) ELSE {"INVALID"}
<1>1. CASE e.proof = "none"
  BY <1>1 DEF ProofStates
<1>2. CASE e.proof = "digest"
  BY <1>2 DEF ProofStates
<1>3. CASE e.proof \in {"attestation-v1", "attestation-v2"}
  BY <1>3 DEF ProofStates
<1>4. CASE e.proof = "dsse" /\ e.family = "claim"
  BY <1>4 DEF ProofStates
<1>5. CASE e.proof \notin {"none", "digest", "attestation-v1", "attestation-v2"} /\ ~(e.proof = "dsse" /\ e.family = "claim")
  BY <1>5 DEF ProofStates
<1> QED
  BY <1>1, <1>2, <1>3, <1>4, <1>5

\* A signature set without a bad state has a signature that verifies.
LEMMA SignatureSetProps ==
    ASSUME NEW sigs, NEW message, NEW T, NEW clk, SignatureSet(sigs, message, T, clk) \intersect Bad = {}
    PROVE  /\ \A i \in DOMAIN sigs : /\ ~Repeated(sigs, i) /\ T[sigs[i].key] # None /\ VerifiesOver(sigs[i], message)
                                     /\ Live(T, sigs[i].key, None, clk) = "VALID"
           /\ \E i \in DOMAIN sigs : SignatureState(sigs, i, message, T, clk) = "VALID"
<1> DEFINE states == {SignatureState(sigs, i, message, T, clk) : i \in DOMAIN sigs}
<1>1. SignatureSet(sigs, message, T, clk) = states \union (IF "VALID" \in states THEN {} ELSE {"UNVERIFIABLE"})
  BY DEF SignatureSet
<1>2. "VALID" \in states /\ states \intersect Bad = {}
  <2> HIDE DEF states
  <2> QED
    BY <1>1 DEF Bad
<1>3. ASSUME NEW i \in DOMAIN sigs
      PROVE  /\ ~Repeated(sigs, i) /\ T[sigs[i].key] # None /\ VerifiesOver(sigs[i], message)
             /\ Live(T, sigs[i].key, None, clk) = "VALID"
  <2>1. SignatureState(sigs, i, message, T, clk) \notin Bad
    BY <1>2
  <2>2. Live(T, sigs[i].key, None, clk) \in States
    BY LifecycleStates DEF Live
  <2> QED
    BY <2>1, <2>2 DEF SignatureState, Bad, States
<1> QED
  BY <1>2, <1>3

LEMMA AttestationProofProps ==
    ASSUME NEW e, NEW T, NEW clk, AttestationProof(e, T, clk) \notin Bad
    PROVE  /\ T[e.sigs[1].key] # None /\ VerifiesOver(e.sigs[1], e.id) /\ Live(T, e.sigs[1].key, e.at, clk) = "VALID"
           /\ e.proof = "attestation-v2" => e.ours
<1>1. Live(T, e.sigs[1].key, e.at, clk) \in States
  BY LifecycleStates DEF Live
<1> QED
  BY <1>1 DEF AttestationProof, Bad, States

LEMMA ClaimVerdictProps ==
    ASSUME NEW c, NEW T, NEW b, NEW clk, ClaimVerdict(c, None, T, b, clk) \notin Bad
    PROVE  /\ Acceptable(c, None) /\ c.id = c.claim /\ T[c.sigs[1].key] # None /\ <<c.claim.issuer, c.sigs[1].key>> \in b
           /\ VerifiesOver(c.sigs[1], Message("claim", c.claim)) /\ Live(T, c.sigs[1].key, c.claim.at, clk) = "VALID"
<1>1. Live(T, c.sigs[1].key, c.claim.at, clk) \in States
  BY LifecycleStates DEF Live
<1> QED
  BY <1>1 DEF ClaimVerdict, Bad, States

\* What the parts of a record's contents have to say if nothing of them is bad.
LEMMA ContentsProps ==
    ASSUME NEW p, NEW clk, \A r \in Contents(p, policy.bound, clk) : r.required => r.state \notin Bad
    PROVE  LET e == p.evidence
           IN  /\ (ProofStates(e, trust, policy.bound, clk) \union ReceiptStates(e, trust, clk)) \intersect Bad = {}
               /\ e.embedded \/ policy.digestOnly
               /\ TrustMode(e, RecordProofs(e, trust, policy.bound, clk)) \notin Bad
               /\ ~Future(p.created, clk) /\ ~Future(e.observed, clk) /\ (p.asserted # None => ~Future(p.asserted, clk))
               /\ ~(policy.expiry /\ e.expires # None /\ clk > e.expires)
<1> DEFINE e == p.evidence
           proofs == RecordProofs(e, trust, policy.bound, clk)
<1>1. /\ proofs \subseteq Contents(p, policy.bound, clk) /\ Freshness(p, clk) \subseteq Contents(p, policy.bound, clk)
      /\ EvidenceSemantics(e, proofs, policy.digestOnly) \subseteq Contents(p, policy.bound, clk)
  BY DEF Contents
<1>2. (ProofStates(e, trust, policy.bound, clk) \union ReceiptStates(e, trust, clk)) \intersect Bad = {}
  <2>1. ASSUME NEW s \in ProofStates(e, trust, policy.bound, clk) \union ReceiptStates(e, trust, clk) PROVE s \notin Bad
    <3>1. Result("source-proof", s, e.id) \in proofs
      BY DEF RecordProofs
    <3> QED
      BY <3>1, <1>1, ResultProps
  <2> QED
    BY <2>1
<1> HIDE DEF proofs
<1>3. (e.embedded \/ policy.digestOnly) /\ TrustMode(e, proofs) \notin Bad
  <2>1. /\ Result("evidence-content", IF e.embedded \/ policy.digestOnly THEN "VALID" ELSE "UNVERIFIABLE", e.id)
                \in Contents(p, policy.bound, clk)
        /\ Result("trust-mode", TrustMode(e, proofs), e.id) \in Contents(p, policy.bound, clk)
    BY <1>1 DEF EvidenceSemantics
  <2>2. /\ (IF e.embedded \/ policy.digestOnly THEN "VALID" ELSE "UNVERIFIABLE") \notin Bad
        /\ TrustMode(e, proofs) \notin Bad
    BY <2>1, ResultProps
  <2> QED
    BY <2>2 DEF Bad
<1>4. /\ ~Future(p.created, clk) /\ ~Future(e.observed, clk) /\ (p.asserted # None => ~Future(p.asserted, clk))
      /\ ~(policy.expiry /\ e.expires # None /\ clk > e.expires)
  <2>1. \A id : Result("freshness", "INVALID", id) \notin Freshness(p, clk)
    BY <1>1, ResultProps DEF Bad
  <2>2. Future(p.created, clk) => Result("freshness", "INVALID", None) \in Freshness(p, clk)
    BY DEF Freshness
  <2>3. p.asserted # None /\ Future(p.asserted, clk) => Result("freshness", "INVALID", None) \in Freshness(p, clk)
    BY DEF Freshness
  <2>4. Future(e.observed, clk) \/ (policy.expiry /\ e.expires # None /\ clk > e.expires)
            => Result("freshness", "INVALID", e.id) \in Freshness(p, clk)
    BY DEF Freshness
  <2> QED
    BY <2>1, <2>2, <2>3, <2>4
<1> QED
  BY <1>2, <1>3, <1>4 DEF proofs

LEMMA WitnessIsBackedByIInv == BundleIInv => WitnessIsBacked
<1> DEFINE e == bundle.payload.evidence
<1> SUFFICES ASSUME BundleIInv, bundle # None, State(Verdict0) = "VALID"
             PROVE  /\ e.mode # "agent-assertion" => Backers(e) # {}
                    /\ e.embedded \/ policy.digestOnly
                    /\ policy.expiry /\ e.expires # None => now <= e.expires
                    /\ \A t \in {bundle.payload.created, bundle.payload.asserted, e.observed} \ {None} : ~Future(t, now)
  BY DEF WitnessIsBacked
<1>1. \A r \in Contents(bundle.payload, policy.bound, now) : r.required => r.state \notin Bad
  BY BundleIsValid DEF Verdict0
<1>2. /\ (ProofStates(e, trust, policy.bound, now) \union ReceiptStates(e, trust, now)) \intersect Bad = {}
      /\ e.embedded \/ policy.digestOnly
      /\ TrustMode(e, RecordProofs(e, trust, policy.bound, now)) \notin Bad
      /\ ~Future(bundle.payload.created, now) /\ ~Future(e.observed, now)
      /\ bundle.payload.asserted # None => ~Future(bundle.payload.asserted, now)
      /\ ~(policy.expiry /\ e.expires # None /\ now > e.expires)
  BY <1>1, ContentsProps
<1>3. e \in {p.evidence : p \in Payloads} /\ policy \in Policies
  BY DEF BundleIInv, TypeOK
<1> HIDE DEF e
<1>4. /\ e.expires \in OptionalTimes /\ \A i \in DOMAIN e.sigs : e.sigs[i].key \in Keys
      /\ e.proof \in {"attestation-v1", "attestation-v2"} => 1 \in DOMAIN e.sigs
      /\ e.proof = "dsse" /\ e.family = "claim" => DOMAIN e.claim.sigs = 1 .. Len(e.claim.sigs)
  BY <1>3, PayloadAssumption
<1>5. policy.expiry /\ e.expires # None => now <= e.expires
  <2>1. now \in Nat /\ (e.expires # None => e.expires \in Nat)
    BY <1>4, BundleConstants, TimeAssumption DEF OptionalTimes, BundleIInv, TypeOK
  <2> QED
    BY <2>1, <1>2
<1>6. ASSUME e.mode # "agent-assertion" PROVE Backers(e) # {}
  <2>1. e.proof \in Cryptographic
    BY <1>2, <1>6 DEF TrustMode, Bad
  <2>2. CASE e.proof \in {"attestation-v1", "attestation-v2"}
    <3>1. AttestationProof(e, trust, now) \notin Bad
      BY <2>2, <1>2, ProofStatesCases DEF Bad
    <3>2. /\ trust[e.sigs[1].key] # None /\ VerifiesOver(e.sigs[1], e.id)
          /\ Lifecycle(trust[e.sigs[1].key], e.at, now) = "VALID" /\ (e.proof = "attestation-v2" => e.ours)
      BY <3>1, AttestationProofProps DEF Live
    <3>3. e.sigs[1].key \in Keys /\ InForce(e.sigs[1].key) /\ 1 \in DOMAIN e.sigs
      BY <2>2, <3>2, <1>4, ValidIsInForce DEF InForce
    <3>4. e.sigs[1].key \in Backers(e)
      BY <2>2, <3>2, <3>3 DEF Backers, VerifiesOver
    <3> QED
      BY <3>4
  <2>3. CASE e.proof = "dsse" /\ e.family = "claim"
    <3> DEFINE sig == e.claim.sigs[1]
    <3>1. ClaimVerdict(e.claim, None, trust, policy.bound, now) \notin Bad
      BY <2>3, <1>2, ProofStatesCases DEF Bad
    <3>2. /\ Acceptable(e.claim, None) /\ trust[sig.key] # None /\ <<e.claim.claim.issuer, sig.key>> \in policy.bound
          /\ VerifiesOver(sig, Message("claim", e.claim.claim))
          /\ Lifecycle(trust[sig.key], e.claim.claim.at, now) = "VALID"
      BY <3>1, ClaimVerdictProps DEF Live
    <3>3. 1 \in DOMAIN e.claim.sigs
      BY <2>3, <3>2, <1>4 DEF Acceptable
    <3>4. sig.key \in Keys
      <4>1. \A b \in policy.bound : b[2] \in Keys
        BY <1>3, PolicyAssumption
      <4> QED
        BY <4>1, <3>2
    <3>5. InForce(sig.key)
      BY <3>2, ValidIsInForce DEF InForce
    <3>6. sig.key \in Backers(e)
      BY <2>3, <3>2, <3>3, <3>4, <3>5 DEF Backers, VerifiesOver
    <3> QED
      BY <3>6
  <2>4. CASE e.proof = "dsse" /\ e.family # "claim"
    <3>1. e.fits /\ SignatureSet(e.sigs, e.id, trust, now) \intersect Bad = {}
      BY <2>4, <1>2, ProofStatesCases DEF Bad
    <3>2. PICK i \in DOMAIN e.sigs : SignatureState(e.sigs, i, e.id, trust, now) = "VALID"
      BY <3>1, SignatureSetProps
    <3>3. /\ trust[e.sigs[i].key] # None /\ VerifiesOver(e.sigs[i], e.id)
          /\ Lifecycle(trust[e.sigs[i].key], None, now) = "VALID"
      BY <3>1, SignatureSetProps DEF Live
    <3>4. e.sigs[i].key \in Backers(e)
      BY <2>4, <3>3, <1>4, ValidIsInForce DEF Backers, VerifiesOver, InForce
    <3> QED
      BY <3>4
  <2> QED
    BY <2>1, <2>2, <2>3, <2>4 DEF Cryptographic
<1> QED
  BY <1>2, <1>5, <1>6

\* The part of the results that Integrity is taken from: of a record only that the graph
\* is accepted.
Sealed(b) == {Outer} \union SealResults(Findings(b) \ {"sound"})
SealJudged(b, clk) == Sealed(b) \union {Result("payload", "VALID", None)} \union SealResults(SealSignatures(b, clk))
Integrals(results) == {r \in results : r.component \in Integral}

LEMMA ContentsAreNotIntegral ==
    ASSUME NEW p, NEW clk, NEW r \in Contents(p, policy.bound, clk), r.component \in Integral
    PROVE  r = Result("graph", "VALID", None)
<1> DEFINE e == p.evidence
           proofs == RecordProofs(e, trust, policy.bound, clk)
<1>1. r \notin proofs
  <2>1. ASSUME r \in proofs PROVE r.component = "source-proof"
    <3>1. PICK s : r = Result("source-proof", s, e.id)
      BY <2>1 DEF RecordProofs
    <3> QED
      BY <3>1, ResultProps
  <2> QED
    BY <2>1 DEF Integral
<1>2. r \notin Freshness(p, clk)
  <2>1. ASSUME r \in Freshness(p, clk) PROVE r.component = "freshness"
    <3>1. PICK s, i : r = Result("freshness", s, i)
      BY <2>1 DEF Freshness
    <3> QED
      BY <3>1, ResultProps
  <2> QED
    BY <2>1 DEF Integral
<1> HIDE DEF proofs
<1>3. r \notin EvidenceSemantics(e, proofs, policy.digestOnly)
  <2>1. ASSUME r \in EvidenceSemantics(e, proofs, policy.digestOnly) PROVE r.component \in {"evidence-content", "trust-mode"}
    BY <2>1, ResultProps DEF EvidenceSemantics
  <2> QED
    BY <2>1 DEF Integral
<1>4. r \notin ArtifactFamily(e)
  <2>1. ASSUME r \in ArtifactFamily(e) PROVE r.component = "artifact-family"
    BY <2>1, ResultProps DEF ArtifactFamily
  <2> QED
    BY <2>1 DEF Integral
<1>5. r # Result("artifact-binding", "VALID", e.id)
  BY ResultProps DEF Integral
<1> QED
  BY <1>1, <1>2, <1>3, <1>4, <1>5 DEF Contents, proofs

LEMMA MaterialIsNotIntegral == ASSUME NEW b, NEW r \in Material(b) PROVE r.component \notin Integral
<1>1. CASE r = [Outer EXCEPT !.component = "verification-material", !.state = "UNVERIFIABLE", !.required = FALSE]
  BY <1>1 DEF Outer, Result, Integral
<1>2. CASE r = [Outer EXCEPT !.component = "anchor", !.state = "UNVERIFIABLE"]
  BY <1>2 DEF Outer, Result, Integral
<1> QED
  BY <1>1, <1>2 DEF Material

LEMMA IntegralsProps ==
    ASSUME NEW b, NEW clk
    PROVE  /\ Integrals(Untrusted(b)) = Sealed(b) /\ Integrals(Judged(b, clk)) = SealJudged(b, clk)
           /\ Integrals(Contents(b.payload, policy.bound, clk)) = {Result("graph", "VALID", None)}
           /\ \A R, S : Integrals(R \union S) = Integrals(R) \union Integrals(S)
           /\ \A states : Integrals(SealResults(states)) = SealResults(states)
           /\ \A s : Integrals({Result("payload", s, None)}) = {Result("payload", s, None)}
           /\ \A s : Integrals({Result("graph", s, None)}) = {Result("graph", s, None)}
           /\ Integrals({[Outer EXCEPT !.state = "INVALID"]}) = {[Outer EXCEPT !.state = "INVALID"]}
<1>1. \A R, S : Integrals(R \union S) = Integrals(R) \union Integrals(S)
  BY DEF Integrals
<1>2. \A states : Integrals(SealResults(states)) = SealResults(states)
  BY SealResultsProps DEF Integrals, Integral
<1>3. \A s : Integrals({Result("payload", s, None)}) = {Result("payload", s, None)}
  BY ResultProps DEF Integrals, Integral
<1>4. \A s : Integrals({Result("graph", s, None)}) = {Result("graph", s, None)}
  BY ResultProps DEF Integrals, Integral
<1>5. Integrals({[Outer EXCEPT !.state = "INVALID"]}) = {[Outer EXCEPT !.state = "INVALID"]}
  <2>1. [Outer EXCEPT !.state = "INVALID"].component = "outer"
    BY DEF Outer, Result
  <2> QED
    BY <2>1 DEF Integrals, Integral
<1>6. Integrals({Outer}) = {Outer}
  BY ResultProps DEF Integrals, Integral, Outer
<1>7. Integrals(Material(b)) = {}
  BY MaterialIsNotIntegral DEF Integrals
<1>8. Integrals(Untrusted(b)) = Sealed(b)
  <2>1. Integrals({Outer} \union Material(b)) = {Outer}
    BY <1>1, <1>6, <1>7
  <2>2. Integrals(({Outer} \union Material(b)) \union SealResults(Findings(b) \ {"sound"}))
            = Integrals({Outer} \union Material(b)) \union Integrals(SealResults(Findings(b) \ {"sound"}))
    BY <1>1
  <2> QED
    BY <2>1, <2>2, <1>2 DEF Untrusted, Sealed
<1>9. Integrals(Judged(b, clk)) = SealJudged(b, clk)
  <2>1. Integrals(Untrusted(b) \union {Result("payload", "VALID", None)}) = Sealed(b) \union {Result("payload", "VALID", None)}
    <3>1. Integrals({Result("payload", "VALID", None)}) = {Result("payload", "VALID", None)}
      BY <1>3
    <3>2. Integrals(Untrusted(b) \union {Result("payload", "VALID", None)})
              = Integrals(Untrusted(b)) \union Integrals({Result("payload", "VALID", None)})
      BY DEF Integrals
    <3> QED
      BY <3>1, <3>2, <1>8
  <2>2. Integrals((Untrusted(b) \union {Result("payload", "VALID", None)}) \union SealResults(SealSignatures(b, clk)))
            = Integrals(Untrusted(b) \union {Result("payload", "VALID", None)})
              \union Integrals(SealResults(SealSignatures(b, clk)))
    BY <1>1
  <2>3. Integrals(SealResults(SealSignatures(b, clk))) = SealResults(SealSignatures(b, clk))
    BY <1>2
  <2> QED
    BY <2>1, <2>2, <2>3, Zenon DEF Judged, SealJudged
<1>10. Integrals(Contents(b.payload, policy.bound, clk)) = {Result("graph", "VALID", None)}
  <2>1. Result("graph", "VALID", None) \in Contents(b.payload, policy.bound, clk)
    BY DEF Contents
  <2>2. Result("graph", "VALID", None).component \in Integral
    BY ResultProps DEF Integral
  <2> QED
    BY <2>1, <2>2, ContentsAreNotIntegral DEF Integrals
<1> QED
  BY <1>1, <1>2, <1>3, <1>4, <1>5, <1>8, <1>9, <1>10

LEMMA IntegralsOfVerdict ==
    ASSUME NEW b, NEW clk
    PROVE  Integrals(VerifyBundle(b, clk).results) =
        IF b.file = "unreadable" THEN {[Outer EXCEPT !.state = "INVALID"]}
        ELSE IF b.file = "no-payload" THEN {Outer, Result("payload", "INVALID", None)}
        ELSE IF "INVALID" \in Findings(b) THEN Sealed(b)
        ELSE IF "sound" \notin Findings(b) THEN Sealed(b) \union SealResults({"UNVERIFIABLE"})
        ELSE IF b.payload.form = "unparsable" THEN Sealed(b) \union {Result("payload", "INVALID", None)}
        ELSE IF b.payload.form = "rewritten" THEN Sealed(b) \union {Result("payload", "INVALID", None)}
        ELSE IF ~b.payload.graph THEN SealJudged(b, clk) \union {Result("graph", "INVALID", None)}
        ELSE SealJudged(b, clk) \union {Result("graph", "VALID", None)}
<1> DEFINE contents == Contents(b.payload, policy.bound, clk)
<1>1. Integrals(Untrusted(b) \union SealResults({"UNVERIFIABLE"})) = Sealed(b) \union SealResults({"UNVERIFIABLE"})
  BY IntegralsProps
<1>2. Integrals(Untrusted(b) \union {Result("payload", "INVALID", None)}) = Sealed(b) \union {Result("payload", "INVALID", None)}
  <2>1. Integrals(Untrusted(b)) = Sealed(b)
    BY IntegralsProps
  <2>2. Integrals({Result("payload", "INVALID", None)}) = {Result("payload", "INVALID", None)}
    BY IntegralsProps
  <2> QED
    BY <2>1, <2>2 DEF Integrals
<1>3. Integrals(Judged(b, clk) \union {Result("graph", "INVALID", None)}) = SealJudged(b, clk) \union {Result("graph", "INVALID", None)}
  <2>1. Integrals(Judged(b, clk)) = SealJudged(b, clk)
    BY IntegralsProps
  <2>2. Integrals({Result("graph", "INVALID", None)}) = {Result("graph", "INVALID", None)}
    BY IntegralsProps
  <2> QED
    BY <2>1, <2>2 DEF Integrals
<1>4. Integrals(Judged(b, clk) \union contents) = SealJudged(b, clk) \union {Result("graph", "VALID", None)}
  <2>1. Integrals(Judged(b, clk)) = SealJudged(b, clk) /\ Integrals(contents) = {Result("graph", "VALID", None)}
    BY IntegralsProps
  <2>2. Integrals(Judged(b, clk) \union contents) = Integrals(Judged(b, clk)) \union Integrals(contents)
    BY DEF Integrals
  <2> QED
    BY <2>1, <2>2
<1>5. Integrals(Untrusted(b)) = Sealed(b) /\ Integrals({[Outer EXCEPT !.state = "INVALID"]}) = {[Outer EXCEPT !.state = "INVALID"]}
  BY IntegralsProps
<1>6. Integrals({Outer} \union Material(b) \union {Result("payload", "INVALID", None)}) = {Outer, Result("payload", "INVALID", None)}
  <2>1. Integrals({Result("payload", "INVALID", None)}) = {Result("payload", "INVALID", None)}
    BY IntegralsProps
  <2>2. Integrals({Outer}) = {Outer} /\ Integrals(Material(b)) = {}
    BY ResultProps, MaterialIsNotIntegral DEF Integrals, Integral, Outer
  <2> QED
    BY <2>1, <2>2 DEF Integrals
<1> QED
  BY VerifyBundleResults, <1>1, <1>2, <1>3, <1>4, <1>5, <1>6 DEF VerdictResults, ResultsOf

\* Another record under signatures over the payload it is in: nothing that the seal is
\* judged by changes.
LEMMA IntegrityIsTheSealsByIInv == BundleIInv => IntegrityIsTheSeals
<1> SUFFICES ASSUME BundleIInv, bundle # None, \A i \in DOMAIN bundle.sigs : bundle.sigs[i].over = bundle.payload,
                    NEW e \in {p.evidence : p \in Payloads}
             PROVE  Integrity(VerifyBundle(With(bundle, e), now)) = Integrity(Verdict0)
  BY DEF IntegrityIsTheSeals
<1> DEFINE p == [bundle.payload EXCEPT !.evidence = e]
           b == With(bundle, e)
           dom == DOMAIN bundle.sigs
<1>1. bundle \in Bundles /\ bundle.sigs \in Seq(SealsMade) /\ \A i \in dom : bundle.sigs[i] \in SealsMade
  BY DEF BundleIInv, SealsWereMade, Bundles
<1>2. bundle.payload \in [form : Forms, graph : BOOLEAN, created : Times, asserted : OptionalTimes, evidence : {q.evidence : q \in Payloads}]
  BY <1>1, PayloadAssumption DEF Bundles
<1>3. p.form = bundle.payload.form /\ p.graph = bundle.payload.graph /\ p.created = bundle.payload.created
  BY <1>2
<1> HIDE DEF p
<1>4. /\ b.file = bundle.file /\ b.payload = p
      /\ b.sigs = [i \in dom |-> IF bundle.sigs[i].over = bundle.payload THEN [bundle.sigs[i] EXCEPT !.over = p]
                                 ELSE bundle.sigs[i]]
  BY <1>1 DEF With, Bundles, p
<1>5. b.sigs = [i \in dom |-> [bundle.sigs[i] EXCEPT !.over = p]]
  BY <1>4
<1> HIDE DEF b
<1>6. /\ DOMAIN b.sigs = dom
      /\ \A i \in dom : /\ b.sigs[i].key = bundle.sigs[i].key /\ b.sigs[i].by = bundle.sigs[i].by
                        /\ b.sigs[i].encoded = bundle.sigs[i].encoded /\ b.sigs[i].over = p
  BY <1>1, <1>5 DEF SealsMade
<1>7. ASSUME NEW i \in dom PROVE FirstPass(b, i) = FirstPass(bundle, i)
  <2>1. Repeated(b.sigs, i) = Repeated(bundle.sigs, i)
    <3>1. \A j \in 1 .. i - 1 : j \in dom
      BY <1>1
    <3> QED
      BY <3>1, <1>6 DEF Repeated
  <2>2. VerifiesOver(b.sigs[i], b.payload) = VerifiesOver(bundle.sigs[i], bundle.payload)
    BY <1>4, <1>6 DEF VerifiesOver, Decodes
  <2> QED
    BY <2>1, <2>2, <1>6 DEF FirstPass, Verified
<1>8. Findings(b) = Findings(bundle)
  BY <1>6, <1>7 DEF Findings
<1>9. ASSUME NEW i \in dom PROVE SealLife(b, i, now) = SealLife(bundle, i, now)
  BY <1>3, <1>4, <1>6 DEF SealLife
<1>10. SealSignatures(b, now) = SealSignatures(bundle, now)
  <2>1. {i \in dom : FirstPass(b, i) = "sound"} = {i \in dom : FirstPass(bundle, i) = "sound"}
    BY <1>7
  <2>2. {b.sigs[i].key : i \in dom} = {bundle.sigs[i].key : i \in dom}
    BY <1>6
  <2> DEFINE sound == {i \in dom : FirstPass(bundle, i) = "sound"}
  <2>3. {SealLife(b, i, now) : i \in sound} = {SealLife(bundle, i, now) : i \in sound}
    BY <1>9
  <2>4. {i \in sound : SealLife(b, i, now) = "VALID"} = {i \in sound : SealLife(bundle, i, now) = "VALID"}
    BY <1>9
  <2> QED
    BY <2>1, <2>2, <2>3, <2>4, <1>6 DEF SealSignatures
<1>11. Integrals(VerifyBundle(b, now).results) = Integrals(VerifyBundle(bundle, now).results)
  <2>1. Sealed(b) = Sealed(bundle) /\ SealJudged(b, now) = SealJudged(bundle, now)
    BY <1>8, <1>10 DEF Sealed, SealJudged
  <2>2. /\ b.file = bundle.file /\ b.payload.form = bundle.payload.form
        /\ b.payload.graph = bundle.payload.graph
    BY <1>3, <1>4
  <2> HIDE DEF Sealed, SealJudged
  <2> QED
    BY <2>1, <2>2, <1>8, IntegralsOfVerdict
<1> QED
  BY <1>11 DEF b, Integrity, Verdict0, Integrals

LEMMA VerdictIsBackedByIInv == BundleIInv => VerdictIsBacked
BY ValidIsSoundByIInv, WitnessIsBackedByIInv, IntegrityIsTheSealsByIInv DEF BundleIInv, VerdictIsBacked

\* A bundle that verifyBundle finds valid was signed by as many keys in force as the policy
\* asks for; its evidence, one record here, if it claims more than the agent's own word, is
\* backed by a key in force and, where the policy minds, has not expired; and the integrity
\* that is reported is the seal's alone: for every set of payloads, keys and policies.
THEOREM VerdictIsBackedHolds == Spec => []VerdictIsBacked
<1> QED
  BY BundleInvariance, VerdictIsBackedByIInv, PTL

----------------------------------------------------------------------------
(* How a verdict moves as trust and time do.                               *)

\* The seal of a bundle is found good exactly if nothing of it is bad.
IntegrityMeansSeals == \A b, clk : Integrity(VerifyBundle(b, clk)) = "VALID" <=> Seals(b, clk)

LEMMA IntegrityIsGood == IntegrityMeansSeals
<1> SUFFICES ASSUME NEW b, NEW clk PROVE Integrity(VerifyBundle(b, clk)) = "VALID" <=> Seals(b, clk)
  BY DEF IntegrityMeansSeals
<1> DEFINE results == Integrals(VerifyBundle(b, clk).results)
<1>1. Integrity(VerifyBundle(b, clk)) = "VALID" <=> \A r \in results : r.required => r.state \notin Bad
  BY OverallProps DEF Integrity, Integrals
<1>2. /\ [Outer EXCEPT !.state = "INVALID"].required /\ [Outer EXCEPT !.state = "INVALID"].state = "INVALID"
      /\ Outer.state = "VALID"
  BY DEF Outer, Result
<1> HIDE DEF results
<1>3. ASSUME \A r \in results : r.required => r.state \notin Bad PROVE Seals(b, clk)
  <2>1. Result("payload", "INVALID", None) \notin results /\ Result("graph", "INVALID", None) \notin results
    BY <1>3, ResultProps DEF Bad
  <2>2. b.file \notin {"unreadable", "no-payload"}
    BY <1>2, <1>3, <2>1, IntegralsOfVerdict DEF Bad, results
  <2>3. \A states : SealResults(states) \subseteq results => states \intersect Bad = {}
    BY <1>3, SealResultsProps
  <2>4. Sealed(b) \subseteq results
    BY <2>2, IntegralsOfVerdict DEF results, SealJudged
  <2>5. Findings(b) \subseteq {"sound"}
    <3>1. (Findings(b) \ {"sound"}) \intersect Bad = {}
      BY <2>3, <2>4 DEF Sealed
    <3>2. Findings(b) \subseteq {"UNVERIFIABLE", "sound", "INVALID"}
      BY FirstPassCases DEF Findings
    <3> QED
      BY <3>1, <3>2 DEF Bad
  <2>6. "sound" \in Findings(b)
    <3>1. SUFFICES ASSUME "sound" \notin Findings(b) PROVE FALSE
      OBVIOUS
    <3>2. SealResults({"UNVERIFIABLE"}) \subseteq results
      BY <2>2, <2>5, <3>1, IntegralsOfVerdict DEF results
    <3> QED
      BY <3>2, <2>3 DEF Bad
  <2>7. /\ SealJudged(b, clk) \subseteq results
        /\ b.payload.form \notin {"unparsable", "rewritten"} /\ b.payload.graph
    BY <2>1, <2>2, <2>5, <2>6, IntegralsOfVerdict DEF results
  <2>8. SealSignatures(b, clk) \intersect Bad = {}
    BY <2>3, <2>7 DEF SealJudged
  <2> QED
    BY <2>2, <2>5, <2>6, <2>7, <2>8 DEF Seals
<1>4. ASSUME Seals(b, clk), NEW r \in results PROVE r.state \notin Bad
  <2>1. "INVALID" \notin Findings(b) /\ Findings(b) \ {"sound"} = {}
    BY <1>4 DEF Seals
  <2>2. results = SealJudged(b, clk) \union {Result("graph", "VALID", None)}
    BY <1>4, <2>1, IntegralsOfVerdict DEF Seals, results
  <2>3. r \in {Outer, Result("payload", "VALID", None), Result("graph", "VALID", None)}
            \/ r \in SealResults({}) \/ r \in SealResults(SealSignatures(b, clk))
    BY <2>1, <2>2 DEF SealJudged, Sealed
  <2>4. CASE r \in {Outer, Result("payload", "VALID", None), Result("graph", "VALID", None)}
    BY <2>4, <1>2, ResultProps DEF Bad
  <2>5. CASE r \in SealResults({})
    BY <2>5, SealResultsProps
  <2>6. CASE r \in SealResults(SealSignatures(b, clk))
    BY <2>6, <1>4, SealResultsProps DEF Seals
  <2> QED
    BY <2>3, <2>4, <2>5, <2>6
<1> QED
  BY <1>1, <1>3, <1>4

\* What suffices for a good seal.
SealsEnough ==
    \A b, clk :
        /\ b.file = "whole" /\ DOMAIN b.sigs # {} /\ b.payload.form \notin {"unparsable", "rewritten"} /\ b.payload.graph
        /\ \A i \in DOMAIN b.sigs : FirstPass(b, i) = "sound" /\ SealLife(b, i, clk) = "VALID"
        /\ policy.required \subseteq {b.sigs[i].key : i \in DOMAIN b.sigs}
        /\ ~(Cardinality(DOMAIN b.sigs) < policy.minimum)
        => Seals(b, clk)

LEMMA SealsEnoughHolds == SealsEnough
<1> SUFFICES ASSUME NEW b, NEW clk,
                    b.file = "whole", DOMAIN b.sigs # {}, b.payload.form \notin {"unparsable", "rewritten"}, b.payload.graph,
                    \A i \in DOMAIN b.sigs : FirstPass(b, i) = "sound" /\ SealLife(b, i, clk) = "VALID",
                    policy.required \subseteq {b.sigs[i].key : i \in DOMAIN b.sigs},
                    ~(Cardinality(DOMAIN b.sigs) < policy.minimum)
             PROVE  Seals(b, clk)
  BY DEF SealsEnough
<1>1. Findings(b) = {"sound"}
  BY DEF Findings
<1>2. /\ {i \in DOMAIN b.sigs : FirstPass(b, i) = "sound"} = DOMAIN b.sigs
      /\ {i \in DOMAIN b.sigs : SealLife(b, i, clk) = "VALID"} = DOMAIN b.sigs
      /\ {SealLife(b, i, clk) : i \in DOMAIN b.sigs} \subseteq {"VALID"}
  OBVIOUS
<1>3. SealSignatures(b, clk) \subseteq {"VALID"}
  BY <1>2 DEF SealSignatures
<1> QED
  BY <1>1, <1>3 DEF Seals, Bad

\* A signature that states its time does not age.
LEMMA LifecycleLasts ==
    ASSUME NEW r \in Records, NEW at \in OptionalTimes, NEW t \in Nat, NEW u \in Nat, t <= u, Lifecycle(r, at, t) = "VALID"
    PROVE  Lifecycle(r, at, u) = "VALID"
<1>1. /\ r.from \in OptionalTimes /\ r.until \in OptionalTimes /\ Skew \in Nat
      /\ r.from # None => r.from \in Nat
  BY TimeAssumption DEF Records, OptionalTimes
<1>2. CASE at = None
  <2>1. ~Condemned(r) /\ r.from # None /\ r.status # "retired" /\ ~(t < r.from)
    BY <1>2 DEF Lifecycle
  <2>2. ~(u < r.from)
    BY <1>1, <2>1
  <2> QED
    BY <1>2, <2>1, <2>2 DEF Lifecycle
<1>3. CASE at # None
  <2>1. at \in Times /\ at \in Nat
    BY <1>3, TimeAssumption DEF OptionalTimes
  <2>2. \A c \in Nat : Lifecycle(r, at, c) =
               IF Condemned(r) THEN "INVALID"
               ELSE IF r.from = None THEN "UNVERIFIABLE"
               ELSE IF at > c + Skew \/ ~(r.from <= at) \/ ~(r.until # None => at <= r.until) THEN "INVALID"
               ELSE "VALID"
    BY <1>1, <2>1, LifecycleOfTime
  <2>3. at > u + Skew => at > t + Skew
    BY <1>1, <2>1
  <2> QED
    BY <2>2, <2>3
<1> QED
  BY <1>2, <1>3

LEMMA SealsLast == ASSUME BundleIInv, bundle # None, Tick, Seals(bundle, now) PROVE Seals(bundle, now)'
<1>1. UNCHANGED <<bundle, policy, trust>> /\ now \in Nat /\ now' \in Nat /\ now <= now'
  BY BundleConstants DEF Tick, BundleIInv, TypeOK
<1> DEFINE dom == DOMAIN bundle.sigs
<1>2. /\ bundle.payload.created \in Times /\ bundle.payload.created \in OptionalTimes
      /\ trust \in [Keys -> Records \union {None}]
  BY PayloadAssumption DEF BundleIInv, TypeOK, SealsWereMade, OptionalTimes
<1>3. ASSUME NEW i \in dom PROVE FirstPass(bundle, i)' = "sound" /\ SealLife(bundle, i, now)' = "VALID"
  <2>1. FirstPass(bundle, i) = "sound"
    BY DEF Seals, Findings
  <2>2. FirstPass(bundle, i)' = FirstPass(bundle, i)
    BY <1>1 DEF FirstPass, Verified
  <2>3. trust[bundle.sigs[i].key] \in Records /\ Lifecycle(trust[bundle.sigs[i].key], bundle.payload.created, now) = "VALID"
    BY <1>2, SealsAreGood, BundleConstants DEF SealLife, Live
  <2>4. Lifecycle(trust[bundle.sigs[i].key], bundle.payload.created, now') = "VALID"
    BY <2>3, <1>1, <1>2, LifecycleLasts
  <2> QED
    BY <2>1, <2>2, <2>4, <1>1 DEF SealLife, Live
<1>4. SealsEnough'
  BY SealsEnoughHolds, PTL
<1>5. /\ bundle.file = "whole" /\ dom # {} /\ bundle.payload.form \notin {"unparsable", "rewritten"} /\ bundle.payload.graph
      /\ policy.required \subseteq {bundle.sigs[i].key : i \in dom} /\ ~(Cardinality(dom) < policy.minimum)
  BY SealsAreGood DEF Seals, Findings, BundleIInv, SealsWereMade, Bundles, Files
<1> QED
  BY <1>1, <1>3, <1>4, <1>5 DEF SealsEnough

LEMMA SealStaysGoodByIInv == BundleIInv /\ [Next]_vars => SealStaysGood
<1> SUFFICES ASSUME BundleIInv, [Next]_vars, bundle # None, now' # now, Integrity(Verdict0) = "VALID"
             PROVE  Integrity(Verdict0)' = "VALID"
  BY DEF SealStaysGood
<1>1. Tick
  <2>1. \A k \in Signers, p \in Payloads : ~SignElsewhere(k, p) /\ \A sig \in Answers(k, p) : ~Seal(k, p, sig)
    BY DEF Seal, SignElsewhere
  <2>2. ~PassOn
    BY DEF PassOn
  <2>3. \A k \in Keys : ~Condemn(k) /\ \A r \in Held : ~Learn(k, r)
    BY DEF Condemn, Learn
  <2> QED
    BY <2>1, <2>2, <2>3 DEF Next, vars
<1>2. Seals(bundle, now)
  BY IntegrityIsGood DEF IntegrityMeansSeals, Verdict0
<1>3. Seals(bundle, now)'
  BY <1>1, <1>2, SealsLast
<1>4. IntegrityMeansSeals'
  BY IntegrityIsGood, PTL
<1> QED
  BY <1>3, <1>4 DEF IntegrityMeansSeals, Verdict0

\* Evidence as payloads hold it: every key it names is a key.
EvidenceHeld == {p.evidence : p \in Payloads}

LEMMA EvidenceKeys ==
    ASSUME NEW e \in EvidenceHeld
    PROVE  /\ \A i \in DOMAIN e.sigs : e.sigs[i].key \in Keys
           /\ e.observed \in Times /\ e.at \in OptionalTimes
           /\ e.proof \in {"attestation-v1", "attestation-v2"} => e.sigs[1].key \in Keys
           /\ e.proof = "dsse" /\ e.family = "claim" /\ Len(e.claim.sigs) = 1 => e.claim.sigs[1].key \in Keys
           /\ e.proof = "dsse" /\ e.family = "claim" => e.claim.claim.at \in OptionalTimes
           /\ e.family = "receipt" /\ e.embedded => e.receipt.proof.key \in Keys /\ e.receipt.at \in OptionalTimes
BY PayloadAssumption DEF EvidenceHeld, OptionalTimes

\* What is found of a record's proofs does not age either, once it is good.
LEMMA ProofsLast ==
    ASSUME NEW e \in EvidenceHeld, NEW T \in [Keys -> Records \union {None}], NEW b,
           NEW t \in Nat, NEW u \in Nat, t <= u,
           (ProofStates(e, T, b, t) \union ReceiptStates(e, T, t)) \intersect Bad = {}
    PROVE  ProofStates(e, T, b, u) = ProofStates(e, T, b, t) /\ ReceiptStates(e, T, u) = ReceiptStates(e, T, t)
<1>1. ASSUME NEW q \in Keys, NEW at \in OptionalTimes, T[q] # None, Live(T, q, at, t) = "VALID"
      PROVE  Live(T, q, at, u) = "VALID"
  <2>1. T[q] \in Records
    BY <1>1
  <2> QED
    BY <1>1, <2>1, LifecycleLasts DEF Live
<1>2. ReceiptStates(e, T, u) = ReceiptStates(e, T, t)
  <2>1. CASE e.family # "receipt" \/ ~e.embedded
    BY <2>1 DEF ReceiptStates
  <2>2. CASE e.family = "receipt" /\ e.embedded
    <3> DEFINE r == e.receipt
    <3>1. ReceiptVerdict(r, T, t) \notin Bad
      BY <2>2 DEF ReceiptStates
    <3>2. Live(T, r.proof.key, r.at, t) \in States
      BY LifecycleStates DEF Live
    <3>3. T[r.proof.key] # None /\ Live(T, r.proof.key, r.at, t) = "VALID"
      BY <3>1, <3>2 DEF ReceiptVerdict, Bad, States
    <3>4. Live(T, r.proof.key, r.at, u) = "VALID"
      BY <2>2, <3>3, <1>1, EvidenceKeys
    <3>5. ReceiptVerdict(r, T, u) = ReceiptVerdict(r, T, t)
      BY <3>3, <3>4 DEF ReceiptVerdict
    <3> QED
      BY <2>2, <3>5 DEF ReceiptStates
  <2> QED
    BY <2>1, <2>2
<1>3. CASE e.proof \in {"none", "digest"}
  BY <1>2, <1>3, ProofStatesCases
<1>4. CASE e.proof \in {"attestation-v1", "attestation-v2"}
  <2> DEFINE k == e.sigs[1].key
  <2>1. e.embedded /\ e.fits /\ AttestationProof(e, T, t) \notin Bad
    BY <1>4, ProofStatesCases DEF Bad
  <2>2. T[k] # None /\ Live(T, k, e.at, t) = "VALID" /\ Live(T, k, e.at, u) = "VALID"
    BY <1>1, <1>4, <2>1, AttestationProofProps, EvidenceKeys
  <2>3. AttestationProof(e, T, u) = AttestationProof(e, T, t)
    BY <2>2 DEF AttestationProof
  <2> QED
    BY <1>2, <1>4, <2>3, ProofStatesCases
<1>5. CASE e.proof = "dsse" /\ e.family = "claim"
  <2> DEFINE c == e.claim
  <2>1. e.embedded /\ e.fits /\ ClaimVerdict(c, None, T, b, t) \notin Bad
    BY <1>5, ProofStatesCases DEF Bad
  <2>2. Len(c.sigs) = 1 /\ T[c.sigs[1].key] # None /\ Live(T, c.sigs[1].key, c.claim.at, t) = "VALID"
    BY <2>1, ClaimVerdictProps DEF Acceptable
  <2>3. Live(T, c.sigs[1].key, c.claim.at, u) = "VALID"
    BY <1>1, <1>5, <2>2, EvidenceKeys
  <2>4. ClaimVerdict(c, None, T, b, u) = ClaimVerdict(c, None, T, b, t)
    BY <2>2, <2>3 DEF ClaimVerdict
  <2> QED
    BY <1>2, <1>5, <2>1, <2>4, ProofStatesCases
<1>6. CASE e.proof \notin {"none", "digest", "attestation-v1", "attestation-v2"} /\ ~(e.proof = "dsse" /\ e.family = "claim")
  <2>1. e.fits /\ SignatureSet(e.sigs, e.id, T, t) \intersect Bad = {}
    BY <1>6, ProofStatesCases DEF Bad
  <2>2. ASSUME NEW i \in DOMAIN e.sigs PROVE SignatureState(e.sigs, i, e.id, T, u) = SignatureState(e.sigs, i, e.id, T, t)
    <3>1. T[e.sigs[i].key] # None /\ Live(T, e.sigs[i].key, None, t) = "VALID"
      BY <2>1, SignatureSetProps
    <3>2. Live(T, e.sigs[i].key, None, u) = "VALID"
      BY <1>1, <3>1, EvidenceKeys DEF OptionalTimes
    <3> QED
      BY <3>1, <3>2 DEF SignatureState
  <2>3. SignatureSet(e.sigs, e.id, T, u) = SignatureSet(e.sigs, e.id, T, t)
    BY <2>2 DEF SignatureSet
  <2> QED
    BY <1>2, <1>6, <2>1, <2>3, ProofStatesCases
<1> QED
  BY <1>3, <1>4, <1>5, <1>6

\* A bundle with a good seal and good contents is valid.
GoodPartsSuffice ==
    \A b, clk :
        /\ Seals(b, clk) /\ (\A r \in Material(b) : r.required => r.state \notin Bad)
        /\ \A r \in Contents(b.payload, policy.bound, clk) : r.required => r.state \notin Bad
        => State(VerifyBundle(b, clk)) = "VALID"

LEMMA GoodPartsAreValid == GoodPartsSuffice
<1> SUFFICES ASSUME NEW b, NEW clk, Seals(b, clk), \A r \in Material(b) : r.required => r.state \notin Bad,
                    \A r \in Contents(b.payload, policy.bound, clk) : r.required => r.state \notin Bad
             PROVE  State(VerifyBundle(b, clk)) = "VALID"
  BY DEF GoodPartsSuffice
<1>1. Findings(b) = {"sound"} /\ Findings(b) \ {"sound"} = {}
  BY DEF Seals
<1>2. VerifyBundle(b, clk).results = Judged(b, clk) \union Contents(b.payload, policy.bound, clk)
  BY <1>1, VerifyBundleResults DEF VerdictResults, ResultsOf, Seals
<1>3. ASSUME NEW r \in Judged(b, clk), r.required PROVE r.state \notin Bad
  <2>1. \/ r \in {Outer, Result("payload", "VALID", None)} \/ r \in Material(b)
        \/ r \in SealResults({}) \/ r \in SealResults(SealSignatures(b, clk))
    BY <1>1 DEF Judged, Untrusted
  <2>2. CASE r \in {Outer, Result("payload", "VALID", None)}
    BY <2>2, ResultProps DEF Bad, Outer
  <2>3. CASE r \in SealResults({})
    BY <2>3, SealResultsProps
  <2>4. CASE r \in SealResults(SealSignatures(b, clk))
    BY <2>4, SealResultsProps DEF Seals
  <2> QED
    BY <1>3, <2>1, <2>2, <2>3, <2>4
<1> QED
  BY <1>2, <1>3, OverallProps DEF State

\* What the freshness of a payload that was fresh can become.
LEMMA FreshnessLasts ==
    ASSUME NEW p \in Payloads, policy \in Policies, NEW t \in Nat, NEW u \in Nat, t <= u, ~TooOld(p, u),
           ~Future(p.created, t), ~Future(p.evidence.observed, t), p.asserted # None => ~Future(p.asserted, t)
    PROVE  \A r \in Freshness(p, u) : r.state \notin Bad
<1>1. /\ p.created \in Nat /\ p.evidence.observed \in Nat /\ Skew \in Nat
      /\ p.asserted # None => p.asserted \in Nat
  BY PayloadAssumption, TimeAssumption DEF OptionalTimes
<1>2. /\ ~Future(p.created, u) /\ ~Future(p.evidence.observed, u)
      /\ p.asserted # None => ~Future(p.asserted, u)
  BY <1>1 DEF Future
<1>3. ASSUME NEW r \in Freshness(p, u) PROVE r = Result("freshness", "VALID", None)
  BY <1>2 DEF Freshness, TooOld
<1> QED
  BY <1>3, ResultProps DEF Bad

LEMMA StaysValidByIInv == BundleIInv => StaysValidUntilTooOld
<1> SUFFICES ASSUME BundleIInv, bundle # None, Tick, State(Verdict0) = "VALID", ~TooOld(bundle.payload, now')
             PROVE  State(Verdict0)' = "VALID"
  BY DEF StaysValidUntilTooOld
<1> DEFINE p == bundle.payload
           e == p.evidence
           proofs(clk) == RecordProofs(e, trust, policy.bound, clk)
<1>1. UNCHANGED <<bundle, policy, trust>> /\ now \in Nat /\ now' \in Nat /\ now <= now'
  BY BundleConstants DEF Tick, BundleIInv, TypeOK
<1>2. p \in Payloads /\ e \in EvidenceHeld /\ policy \in Policies /\ trust \in [Keys -> Records \union {None}]
  BY DEF BundleIInv, TypeOK, SealsWereMade, EvidenceHeld
<1>3. /\ Seals(bundle, now) /\ \A r \in Contents(p, policy.bound, now) : r.required => r.state \notin Bad
      /\ \A r \in Judged(bundle, now) : r.required => r.state \notin Bad
  <2>1. \A r \in VerifyBundle(bundle, now).results : r.required => r.state \notin Bad
    BY OverallProps DEF State, Verdict0
  <2> QED
    BY <2>1, BundleIsValid DEF Verdict0
<1>4. Seals(bundle, now)'
  BY <1>3, SealsLast
<1>5. Material(bundle)' = Material(bundle) /\ \A r \in Material(bundle) : r.required => r.state \notin Bad
  <2>1. Material(bundle)' = Material(bundle)
    BY <1>1 DEF Material
  <2>2. Material(bundle) \subseteq Judged(bundle, now)
    BY DEF Judged, Untrusted
  <2> QED
    BY <1>3, <2>1, <2>2
<1>6. /\ (ProofStates(e, trust, policy.bound, now) \union ReceiptStates(e, trust, now)) \intersect Bad = {}
      /\ ~Future(p.created, now) /\ ~Future(e.observed, now) /\ (p.asserted # None => ~Future(p.asserted, now))
  BY <1>3, ContentsProps
<1>7. proofs(now') = proofs(now)
  <2>1. /\ ProofStates(e, trust, policy.bound, now') = ProofStates(e, trust, policy.bound, now)
        /\ ReceiptStates(e, trust, now') = ReceiptStates(e, trust, now)
    <3> HIDE DEF e
    <3> QED
      BY <1>1, <1>2, <1>6, ProofsLast
  <2> QED
    BY <2>1 DEF RecordProofs
<1>8. \A r \in Freshness(p, now') : r.state \notin Bad
  <2>1. ~TooOld(p, now')
    OBVIOUS
  <2> HIDE DEF p
  <2> QED
    BY <1>1, <1>2, <1>6, <2>1, FreshnessLasts
<1>9. ASSUME NEW r \in Contents(p, policy.bound, now'), r.required PROVE r.state \notin Bad
  <2>1. r \in Contents(p, policy.bound, now) \/ r \in Freshness(p, now')
    BY <1>7 DEF Contents
  <2> QED
    BY <1>3, <1>8, <1>9, <2>1
<1>10. \A r \in Contents(bundle.payload, policy.bound, now)' : r.required => r.state \notin Bad
  <2>1. Contents(bundle.payload, policy.bound, now)' = Contents(p, policy.bound, now')
    <3>1. RecordProofs(e, trust, policy.bound, now)' = proofs(now')
      BY <1>1 DEF RecordProofs
    <3>2. Freshness(p, now)' = Freshness(p, now')
      BY <1>1 DEF Freshness
    <3> QED
      BY <1>1, <3>1, <3>2 DEF Contents
  <2> QED
    BY <1>9, <2>1
<1>11. GoodPartsSuffice'
  BY GoodPartsAreValid, PTL
<1> QED
  BY <1>1, <1>4, <1>5, <1>10, <1>11 DEF GoodPartsSuffice, Verdict0

\* sealBundle's own signature, with the one key asked for.
LEMMA SealedIsWholeByIInv == BundleIInv => SealedIsWhole
<1> SUFFICES ASSUME BundleIInv, NEW b, b = bundle', NEW p, p = b.payload, NEW s1, s1 = b.sigs[1],
                    NEW k \in Signers, Seal(k, p, s1), trust[k] # None, Live(trust, k, p.created, now) = "VALID",
                    policy.minimum = 1, policy.required \subseteq {k}
             PROVE  Integrity(Verdict0)' = "VALID"
  BY DEF SealedIsWhole
<1>1. /\ p.form = "canonical" /\ p.graph /\ UNCHANGED <<policy, trust, now>>
      /\ s1.key = k /\ VerifiesOver(s1, p) /\ b = NewBundle(p, s1)
  BY DEF Seal
<1>2. /\ b.file = "whole" /\ b.payload = p /\ DOMAIN b.sigs = {1} /\ b.sigs[1] = s1
      /\ s1.key = k /\ VerifiesOver(s1, p)
  BY <1>1 DEF NewBundle
<1>3. ~Repeated(b.sigs, 1)
  BY DEF Repeated
<1>4. FirstPass(b, 1)' = "sound"
  BY <1>1, <1>2, <1>3 DEF FirstPass, Verified
<1>5. SealLife(b, 1, now)' = "VALID"
  BY <1>1, <1>2 DEF SealLife, Live
<1>6. Cardinality(DOMAIN b.sigs) = 1 /\ {b.sigs[i].key : i \in DOMAIN b.sigs} = {k}
  BY <1>2, FS_Singleton
<1>7. SealsEnough' /\ IntegrityMeansSeals'
  BY SealsEnoughHolds, IntegrityIsGood, PTL
<1>8. Seals(b, now)'
  <2>1. /\ b.file = "whole" /\ DOMAIN b.sigs # {} /\ b.payload.form \notin {"unparsable", "rewritten"} /\ b.payload.graph
        /\ \A i \in DOMAIN b.sigs : FirstPass(b, i)' = "sound" /\ SealLife(b, i, now)' = "VALID"
        /\ policy'.required \subseteq {b.sigs[i].key : i \in DOMAIN b.sigs}
        /\ ~(Cardinality(DOMAIN b.sigs) < policy'.minimum)
    BY <1>1, <1>2, <1>4, <1>5, <1>6
  <2> QED
    BY <1>7, <2>1 DEF SealsEnough
<1> QED
  BY <1>7, <1>8 DEF IntegrityMeansSeals, Verdict0

\* The verdict asks of the caller's trust only what the signatures' keys, and the proofs of
\* the record, ask of it.
LEMMA SameTrustSameVerdict ==
    ASSUME UNCHANGED <<bundle, policy, now>>,
           \A i \in DOMAIN bundle.sigs : trust'[bundle.sigs[i].key] = trust[bundle.sigs[i].key],
           ProofStates(bundle.payload.evidence, trust', policy.bound, now) = ProofStates(bundle.payload.evidence, trust, policy.bound, now),
           ReceiptStates(bundle.payload.evidence, trust', now) = ReceiptStates(bundle.payload.evidence, trust, now)
    PROVE  State(Verdict0)' = State(Verdict0)
<1> DEFINE dom == DOMAIN bundle.sigs
<1>1. \A i \in dom : /\ FirstPass(bundle, i)' = FirstPass(bundle, i)
                     /\ SealLife(bundle, i, now)' = SealLife(bundle, i, now)
  BY DEF FirstPass, Verified, SealLife, Live
<1>2. /\ Findings(bundle)' = Findings(bundle) /\ Material(bundle)' = Material(bundle)
      /\ Untrusted(bundle)' = Untrusted(bundle)
  <2>1. Findings(bundle)' = Findings(bundle)
    BY <1>1 DEF Findings
  <2>2. Material(bundle)' = Material(bundle)
    BY DEF Material
  <2> QED
    BY <2>1, <2>2 DEF Untrusted
<1>3. SealSignatures(bundle, now)' = SealSignatures(bundle, now)
  <2> DEFINE sound == {i \in dom : FirstPass(bundle, i) = "sound"}
  <2>1. sound' = sound
    BY <1>1
  <2> DEFINE lives == {SealLife(bundle, i, now) : i \in sound}
             valid == {i \in sound : SealLife(bundle, i, now) = "VALID"}
             presented == {bundle.sigs[i].key : i \in dom}
             Asked(L, V) == L \union (IF policy.required \subseteq presented THEN {} ELSE {"UNVERIFIABLE"})
                              \union (IF Cardinality(V) < policy.minimum THEN {"UNVERIFIABLE"} ELSE {})
  <2>2. lives' = lives /\ valid' = valid
    BY <1>1, <2>1
  <2>3. SealSignatures(bundle, now) = Asked(lives, valid)
    BY DEF SealSignatures
  <2>4. SealSignatures(bundle, now)' = Asked(lives, valid)'
    BY DEF SealSignatures
  <2>5. presented' = presented
    OBVIOUS
  <2> HIDE DEF lives, valid, presented
  <2>6. Asked(lives, valid)' = Asked(lives, valid)
    BY <2>2, <2>5
  <2> QED
    BY <2>3, <2>4, <2>6
<1>4. Judged(bundle, now)' = Judged(bundle, now)
  BY <1>2, <1>3 DEF Judged
<1>5. Contents(bundle.payload, policy.bound, now)' = Contents(bundle.payload, policy.bound, now)
  <2>1. RecordProofs(bundle.payload.evidence, trust, policy.bound, now)' = RecordProofs(bundle.payload.evidence, trust, policy.bound, now)
    BY DEF RecordProofs
  <2>2. Freshness(bundle.payload, now)' = Freshness(bundle.payload, now)
    BY DEF Freshness
  <2> QED
    BY <2>1, <2>2 DEF Contents
<1>6. VerdictResults /\ VerdictResults'
  BY VerifyBundleResults, PTL
<1> QED
  BY <1>2, <1>4, <1>5, <1>6 DEF VerdictResults, ResultsOf, State, Verdict0

\* A key that is not trusted, or is condemned, has no part in proofs that are good: they
\* are the same under any trust that differs in that key alone.
LEMMA ProofsOfOtherKeys ==
    ASSUME NEW e \in EvidenceHeld, NEW T, NEW U, NEW k \in Keys, NEW b, NEW clk,
           \A q \in Keys \ {k} : T[q] = U[q], T[k] = None \/ Condemned(T[k]),
           (ProofStates(e, T, b, clk) \union ReceiptStates(e, T, clk)) \intersect Bad = {}
    PROVE  ProofStates(e, U, b, clk) = ProofStates(e, T, b, clk) /\ ReceiptStates(e, U, clk) = ReceiptStates(e, T, clk)
<1>1. ASSUME NEW q \in Keys, NEW at, T[q] # None, Live(T, q, at, clk) = "VALID" PROVE U[q] = T[q]
  BY <1>1, ValidIsInForce DEF Live
<1>2. \A c \in {"VALID", "INVALID", "UNVERIFIABLE"} : c \notin Bad => c = "VALID"
  BY DEF Bad
<1>3. ReceiptStates(e, U, clk) = ReceiptStates(e, T, clk)
  <2>1. CASE e.family # "receipt" \/ ~e.embedded
    BY <2>1 DEF ReceiptStates
  <2>2. CASE e.family = "receipt" /\ e.embedded
    <3> DEFINE r == e.receipt
    <3>1. ReceiptVerdict(r, T, clk) \notin Bad /\ ReceiptStates(e, T, clk) = {ReceiptVerdict(r, T, clk)}
      BY <2>2 DEF ReceiptStates
    <3>2. Live(T, r.proof.key, r.at, clk) \in States
      BY LifecycleStates DEF Live
    <3>3. T[r.proof.key] # None /\ Live(T, r.proof.key, r.at, clk) = "VALID"
      BY <3>1, <3>2 DEF ReceiptVerdict, Bad, States
    <3>4. U[r.proof.key] = T[r.proof.key]
      BY <2>2, <3>3, <1>1, EvidenceKeys
    <3>5. ReceiptVerdict(r, U, clk) = ReceiptVerdict(r, T, clk)
      BY <3>4 DEF ReceiptVerdict, Live
    <3> QED
      BY <2>2, <3>5 DEF ReceiptStates
  <2> QED
    BY <2>1, <2>2
<1>4. ProofStates(e, U, b, clk) = ProofStates(e, T, b, clk)
  <2>1. CASE e.proof \in {"none", "digest"}
    BY <2>1, ProofStatesCases
  <2>2. CASE e.proof \in {"attestation-v1", "attestation-v2"}
    <3>1. e.embedded /\ e.fits /\ AttestationProof(e, T, clk) \notin Bad
      BY <2>2, ProofStatesCases DEF Bad
    <3>2. U[e.sigs[1].key] = T[e.sigs[1].key]
      BY <2>2, <3>1, <1>1, AttestationProofProps, EvidenceKeys
    <3>3. AttestationProof(e, U, clk) = AttestationProof(e, T, clk)
      BY <3>2 DEF AttestationProof, Live
    <3> QED
      BY <2>2, <3>3, ProofStatesCases
  <2>3. CASE e.proof = "dsse" /\ e.family = "claim"
    <3> DEFINE c == e.claim
    <3>1. e.embedded /\ e.fits /\ ClaimVerdict(c, None, T, b, clk) \notin Bad
      BY <2>3, ProofStatesCases DEF Bad
    <3>2. U[c.sigs[1].key] = T[c.sigs[1].key]
      <4>1. Len(c.sigs) = 1 /\ T[c.sigs[1].key] # None /\ Live(T, c.sigs[1].key, c.claim.at, clk) = "VALID"
        <5>1. Acceptable(c, None) /\ T[c.sigs[1].key] # None /\ Live(T, c.sigs[1].key, c.claim.at, clk) = "VALID"
          <6>1. ClaimVerdict(c, None, T, b, clk) \notin Bad
            BY <3>1
          <6> HIDE DEF c
          <6> QED
            BY <6>1, ClaimVerdictProps
        <5> QED
          BY <5>1 DEF Acceptable
      <4>2. c.sigs[1].key \in Keys
        BY <2>3, <4>1, EvidenceKeys
      <4> QED
        BY <4>1, <4>2, <1>1
    <3>3. ClaimVerdict(c, None, U, b, clk) = ClaimVerdict(c, None, T, b, clk)
      BY <3>2 DEF ClaimVerdict, Live
    <3> QED
      BY <2>3, <3>3, ProofStatesCases
  <2>4. CASE e.proof \notin {"none", "digest", "attestation-v1", "attestation-v2"} /\ ~(e.proof = "dsse" /\ e.family = "claim")
    <3>1. e.fits /\ SignatureSet(e.sigs, e.id, T, clk) \intersect Bad = {}
      BY <2>4, ProofStatesCases DEF Bad
    <3>2. ASSUME NEW i \in DOMAIN e.sigs PROVE SignatureState(e.sigs, i, e.id, U, clk) = SignatureState(e.sigs, i, e.id, T, clk)
      <4>1. U[e.sigs[i].key] = T[e.sigs[i].key]
        BY <3>1, <1>1, SignatureSetProps, EvidenceKeys
      <4> QED
        BY <4>1 DEF SignatureState, Live
    <3>3. SignatureSet(e.sigs, e.id, U, clk) = SignatureSet(e.sigs, e.id, T, clk)
      <4>1. {SignatureState(e.sigs, i, e.id, U, clk) : i \in DOMAIN e.sigs} = {SignatureState(e.sigs, i, e.id, T, clk) : i \in DOMAIN e.sigs}
        BY <3>2
      <4> QED
        BY <4>1 DEF SignatureSet
    <3> QED
      BY <2>4, <3>3, ProofStatesCases
  <2> QED
    BY <2>1, <2>2, <2>3, <2>4
<1> QED
  BY <1>3, <1>4

\* What is invalid under a trust is invalid under the same trust with one of its keys
\* condemned.
LEMMA InvalidStaysInvalid ==
    ASSUME NEW e \in EvidenceHeld, NEW T, NEW U, NEW k \in Keys, NEW b, NEW clk,
           \A q \in Keys \ {k} : T[q] = U[q], T[k] # None, U[k] # None, Condemned(U[k]),
           "INVALID" \in ProofStates(e, T, b, clk) \union ReceiptStates(e, T, clk)
    PROVE  "INVALID" \in ProofStates(e, U, b, clk) \union ReceiptStates(e, U, clk)
<1>1. ASSUME NEW q \in Keys
      PROVE  /\ T[q] = None <=> U[q] = None
             /\ \A at : Live(T, q, at, clk) = "INVALID" => Live(U, q, at, clk) = "INVALID"
  <2>1. CASE q = k
    BY <2>1 DEF Live, Lifecycle
  <2>2. CASE q # k
    BY <2>2 DEF Live
  <2> QED
    BY <2>1, <2>2
<1>2. ASSUME "INVALID" \in ReceiptStates(e, T, clk) PROVE "INVALID" \in ReceiptStates(e, U, clk)
  <2>1. e.family = "receipt" /\ e.embedded /\ ReceiptVerdict(e.receipt, T, clk) = "INVALID"
    BY <1>2 DEF ReceiptStates
  <2>2. e.receipt.proof.key \in Keys
    BY <2>1, EvidenceKeys
  <2>3. ReceiptVerdict(e.receipt, U, clk) = "INVALID"
    BY <2>1, <2>2, <1>1 DEF ReceiptVerdict
  <2> QED
    BY <2>1, <2>3 DEF ReceiptStates
<1>3. ASSUME "INVALID" \in ProofStates(e, T, b, clk) PROVE "INVALID" \in ProofStates(e, U, b, clk)
  <2>1. CASE e.proof \in {"none", "digest"}
    BY <2>1, <1>3, ProofStatesCases
  <2>2. CASE e.proof \in {"attestation-v1", "attestation-v2"}
    <3>1. AttestationProof(e, T, clk) = "INVALID" => AttestationProof(e, U, clk) = "INVALID"
      BY <2>2, <1>1, EvidenceKeys DEF AttestationProof
    <3> QED
      BY <2>2, <1>3, <3>1, ProofStatesCases
  <2>3. CASE e.proof = "dsse" /\ e.family = "claim"
    <3> DEFINE c == e.claim
    <3>1. ClaimVerdict(c, None, T, b, clk) = "INVALID" => ClaimVerdict(c, None, U, b, clk) = "INVALID"
      <4>1. CASE ~Acceptable(c, None)
        BY <4>1 DEF ClaimVerdict
      <4>2. CASE Acceptable(c, None)
        <5>1. c.sigs[1].key \in Keys
          BY <2>3, <4>2, EvidenceKeys DEF Acceptable
        <5> QED
          BY <4>2, <5>1, <1>1 DEF ClaimVerdict
      <4> QED
        BY <4>1, <4>2
    <3> QED
      BY <2>3, <1>3, <3>1, ProofStatesCases
  <2>4. CASE e.proof \notin {"none", "digest", "attestation-v1", "attestation-v2"} /\ ~(e.proof = "dsse" /\ e.family = "claim")
    <3>1. CASE ~e.fits
      BY <2>4, <3>1, ProofStatesCases
    <3>2. CASE e.fits
      <4>1. "INVALID" \in SignatureSet(e.sigs, e.id, T, clk)
        BY <2>4, <3>2, <1>3, ProofStatesCases
      <4>2. PICK i \in DOMAIN e.sigs : SignatureState(e.sigs, i, e.id, T, clk) = "INVALID"
        BY <4>1 DEF SignatureSet
      <4>3. SignatureState(e.sigs, i, e.id, U, clk) = "INVALID"
        BY <4>2, <1>1, EvidenceKeys DEF SignatureState
      <4>4. "INVALID" \in SignatureSet(e.sigs, e.id, U, clk)
        BY <4>3 DEF SignatureSet
      <4> QED
        BY <2>4, <3>2, <4>4, ProofStatesCases
    <3> QED
      BY <3>1, <3>2
  <2> QED
    BY <2>1, <2>2, <2>3, <2>4
<1> QED
  BY <1>2, <1>3

\* A bundle that is found valid, in the terms that the caller's trust enters by.
GoodVerdict ==
    bundle # None /\ State(Verdict0) = "VALID" =>
        /\ \A i \in DOMAIN bundle.sigs : bundle.sigs[i].key \in Keys /\ InForce(bundle.sigs[i].key)
        /\ (ProofStates(bundle.payload.evidence, trust, policy.bound, now)
            \union ReceiptStates(bundle.payload.evidence, trust, now)) \intersect Bad = {}

LEMMA GoodVerdictByIInv == BundleIInv => GoodVerdict
<1> SUFFICES ASSUME BundleIInv, bundle # None, State(Verdict0) = "VALID"
             PROVE  /\ \A i \in DOMAIN bundle.sigs : bundle.sigs[i].key \in Keys /\ InForce(bundle.sigs[i].key)
                    /\ (ProofStates(bundle.payload.evidence, trust, policy.bound, now)
                        \union ReceiptStates(bundle.payload.evidence, trust, now)) \intersect Bad = {}
  BY DEF GoodVerdict
<1>1. Seals(bundle, now) /\ \A r \in Contents(bundle.payload, policy.bound, now) : r.required => r.state \notin Bad
  BY BundleIsValid DEF Verdict0
<1> QED
  BY <1>1, SealsAreGood, ContentsProps, BundleConstants

LEMMA LearntStaysValidByIInv == BundleIInv => LearntStaysValid
<1> SUFFICES ASSUME BundleIInv, bundle # None, NEW k \in Keys, NEW r \in Held, Learn(k, r), State(Verdict0) = "VALID"
             PROVE  State(Verdict0)' = "VALID"
  BY DEF LearntStaysValid
<1> DEFINE e == bundle.payload.evidence
<1>1. trust[k] = None /\ trust' = [trust EXCEPT ![k] = r] /\ UNCHANGED <<bundle, policy, now>>
  BY DEF Learn
<1>2. e \in EvidenceHeld /\ trust \in [Keys -> Records \union {None}]
  BY DEF BundleIInv, TypeOK, SealsWereMade, EvidenceHeld
<1> HIDE DEF e
<1>3. \A q \in Keys \ {k} : trust[q] = trust'[q]
  BY <1>1, <1>2
<1>4. /\ \A i \in DOMAIN bundle.sigs : bundle.sigs[i].key \in Keys /\ InForce(bundle.sigs[i].key)
      /\ (ProofStates(e, trust, policy.bound, now) \union ReceiptStates(e, trust, now)) \intersect Bad = {}
  BY GoodVerdictByIInv DEF GoodVerdict, e
<1>5. \A i \in DOMAIN bundle.sigs : trust'[bundle.sigs[i].key] = trust[bundle.sigs[i].key]
  BY <1>1, <1>3, <1>4 DEF InForce
<1>6. /\ ProofStates(e, trust', policy.bound, now) = ProofStates(e, trust, policy.bound, now)
      /\ ReceiptStates(e, trust', now) = ReceiptStates(e, trust, now)
  <2>1. trust[k] = None \/ Condemned(trust[k])
    BY <1>1
  <2> QED
    BY <2>1, <1>2, <1>3, <1>4, ProofsOfOtherKeys
<1> QED
  BY <1>1, <1>5, <1>6, SameTrustSameVerdict DEF e

\* Only a condemnation that takes no part in a verdict leaves it valid.
LEMMA CondemnedIsNoPart ==
    ASSUME BundleIInv, BundleIInv', bundle # None, NEW k \in Keys, Condemn(k), State(Verdict0)' = "VALID"
    PROVE  State(Verdict0) = "VALID"
<1> DEFINE e == bundle.payload.evidence
<1>1. /\ UNCHANGED <<bundle, policy, now>>
      /\ trust' = [trust EXCEPT ![k].status = "revoked", ![k].changed = now]
  BY DEF Condemn
<1>2. e \in EvidenceHeld /\ trust \in [Keys -> Records \union {None}] /\ trust[k] \in Records
  BY DEF BundleIInv, TypeOK, SealsWereMade, EvidenceHeld, Condemn
<1> HIDE DEF e
<1>3. (\A q \in Keys \ {k} : trust'[q] = trust[q]) /\ Condemned(trust'[k])
  BY <1>1, <1>2 DEF Condemned, Records
<1>4. GoodVerdict'
  BY GoodVerdictByIInv, PTL
<1>5. /\ \A i \in DOMAIN bundle.sigs : bundle.sigs[i].key \in Keys /\ InForce(bundle.sigs[i].key)'
      /\ (ProofStates(e, trust', policy.bound, now) \union ReceiptStates(e, trust', now)) \intersect Bad = {}
  BY <1>1, <1>4 DEF GoodVerdict, e, InForce
<1>6. \A i \in DOMAIN bundle.sigs : trust'[bundle.sigs[i].key] = trust[bundle.sigs[i].key]
  <2>1. \A i \in DOMAIN bundle.sigs : bundle.sigs[i].key \in Keys /\ ~Condemned(trust'[bundle.sigs[i].key])
    <3>1. bundle' = bundle
      BY <1>1
    <3> QED
      BY <1>5, <3>1 DEF InForce
  <2> QED
    BY <2>1, <1>3
<1>7. /\ ProofStates(e, trust, policy.bound, now) = ProofStates(e, trust', policy.bound, now)
      /\ ReceiptStates(e, trust, now) = ReceiptStates(e, trust', now)
  BY <1>2, <1>3, <1>5, ProofsOfOtherKeys
<1> QED
  BY <1>1, <1>6, <1>7, SameTrustSameVerdict DEF e

LEMMA CondemnedStaysInvalid ==
    ASSUME BundleIInv, bundle # None, NEW k \in Keys, Condemn(k), State(Verdict0) = "INVALID"
    PROVE  State(Verdict0)' = "INVALID"
<1> DEFINE e == bundle.payload.evidence
           dom == DOMAIN bundle.sigs
           results == VerifyBundle(bundle, now).results
           proofs == RecordProofs(e, trust, policy.bound, now)
<1>1. /\ UNCHANGED <<bundle, policy, now>> /\ trust[k] # None
      /\ trust' = [trust EXCEPT ![k].status = "revoked", ![k].changed = now]
  BY DEF Condemn
<1>2. /\ e \in EvidenceHeld /\ trust \in [Keys -> Records \union {None}] /\ trust[k] \in Records
      /\ \A i \in dom : bundle.sigs[i].key \in Keys
  <2>1. e \in EvidenceHeld /\ trust \in [Keys -> Records \union {None}]
    BY DEF BundleIInv, TypeOK, SealsWereMade, EvidenceHeld
  <2>2. bundle.sigs \in Seq(SealsMade)
    BY DEF BundleIInv, SealsWereMade, Bundles
  <2>3. \A i \in dom : bundle.sigs[i] \in SealsMade
    BY <2>2
  <2>4. \A i \in dom : bundle.sigs[i].key \in Keys
    BY <2>3, BundleConstants DEF SealsMade
  <2> QED
    BY <2>1, <2>4, <1>1
<1>3. /\ \A q \in Keys \ {k} : trust[q] = trust'[q]
      /\ Condemned(trust'[k]) /\ trust'[k] # None
  <2>1. (\A q \in Keys \ {k} : trust[q] = trust'[q]) /\ Condemned(trust'[k])
    BY <1>1, <1>2 DEF Condemned, Records
  <2>2. trust'[k] \in Records
    <3>1. trust'[k] = [trust[k] EXCEPT !.status = "revoked", !.changed = now]
      BY <1>1, <1>2
    <3>2. now \in OptionalTimes
      BY BundleConstants DEF BundleIInv, TypeOK
    <3> QED
      BY <1>2, <3>1, <3>2 DEF Records, Statuses
  <2> QED
    BY <2>1, <2>2, RecordAssumption
<1>4. ASSUME NEW i \in dom
      PROVE  /\ FirstPass(bundle, i)' = FirstPass(bundle, i)
             /\ SealLife(bundle, i, now) = "INVALID" => SealLife(bundle, i, now)' = "INVALID"
  <2>1. trust[bundle.sigs[i].key] = None <=> trust'[bundle.sigs[i].key] = None
    BY <1>1, <1>2, <1>3
  <2>2. FirstPass(bundle, i)' = FirstPass(bundle, i)
    BY <1>1, <2>1 DEF FirstPass, Verified
  <2>3. CASE bundle.sigs[i].key = k
    BY <1>1, <1>3, <2>2, <2>3 DEF SealLife, Live, Lifecycle
  <2>4. CASE bundle.sigs[i].key # k
    BY <1>1, <1>2, <1>3, <2>2, <2>4 DEF SealLife, Live
  <2> QED
    BY <2>3, <2>4
<1>5. /\ Findings(bundle)' = Findings(bundle) /\ Material(bundle)' = Material(bundle)
      /\ Untrusted(bundle)' = Untrusted(bundle)
  <2>1. Findings(bundle)' = Findings(bundle)
    BY <1>1, <1>4 DEF Findings
  <2>2. Material(bundle)' = Material(bundle)
    BY <1>1 DEF Material
  <2> QED
    BY <2>1, <2>2, <1>1 DEF Untrusted
<1>6. "INVALID" \in SealSignatures(bundle, now) => "INVALID" \in SealSignatures(bundle, now)'
  <2>1. ASSUME "INVALID" \in SealSignatures(bundle, now)
        PROVE  \E i \in dom : FirstPass(bundle, i) = "sound" /\ SealLife(bundle, i, now) = "INVALID"
    BY <2>1 DEF SealSignatures
  <2>2. ASSUME NEW i \in dom, FirstPass(bundle, i)' = "sound", SealLife(bundle, i, now)' = "INVALID"
        PROVE  "INVALID" \in SealSignatures(bundle, now)'
    BY <1>1, <2>2 DEF SealSignatures
  <2> QED
    BY <2>1, <2>2, <1>4
<1>7. results = ResultsOf(bundle, now) /\ results' = ResultsOf(bundle, now)'
  <2>1. VerdictResults /\ VerdictResults'
    BY VerifyBundleResults, PTL
  <2> QED
    BY <2>1 DEF VerdictResults
<1> HIDE DEF results
<1>8. PICK r \in results : r.required /\ r.state = "INVALID"
  BY OverallProps DEF results, State, Verdict0
<1>9. SUFFICES \E q \in results' : q.required /\ q.state = "INVALID"
  BY OverallProps DEF results, State, Verdict0
<1>10. ASSUME NEW states, NEW q \in SealResults(states), q.state = "INVALID" PROVE "INVALID" \in states
  BY <1>10, SealResultsProps
<1> DEFINE last == /\ bundle.file \notin {"unreadable", "no-payload"} /\ "INVALID" \notin Findings(bundle) /\ "sound" \in Findings(bundle)
                   /\ bundle.payload.form \notin {"unparsable", "rewritten"}
<1>11. CASE ~last
  <2>1. results' = results
    BY <1>1, <1>5, <1>7, <1>11 DEF ResultsOf
  <2> QED
    BY <1>8, <2>1
<1>12. CASE last /\ ~bundle.payload.graph
  <2>1. Result("graph", "INVALID", None) \in results'
    BY <1>1, <1>5, <1>7, <1>12 DEF ResultsOf
  <2> QED
    BY <2>1, ResultProps
<1>13. CASE last /\ bundle.payload.graph
  <2>1. /\ results = Judged(bundle, now) \union Contents(bundle.payload, policy.bound, now)
        /\ results' = Judged(bundle, now)' \union Contents(bundle.payload, policy.bound, now)'
    BY <1>1, <1>5, <1>7, <1>13 DEF ResultsOf
  <2>2. CASE r \in Untrusted(bundle)
    BY <1>5, <1>8, <2>1, <2>2 DEF Judged
  <2>3. r # Result("payload", "VALID", None) /\ r # Result("graph", "VALID", None) /\ r # Result("artifact-binding", "VALID", e.id)
    BY <1>8, ResultProps
  <2>4. CASE r \in SealResults(SealSignatures(bundle, now))
    <3>1. "INVALID" \in SealSignatures(bundle, now)'
      BY <1>6, <1>8, <1>10, <2>4
    <3>2. Result("bundle-signature", "INVALID", None) \in results'
      BY <2>1, <3>1 DEF Judged, SealResults
    <3> QED
      BY <3>2, ResultProps
  <2>5. ASSUME NEW q, q \in proofs, q.state = "INVALID"
        PROVE  Result("source-proof", "INVALID", e.id) \in proofs'
    <3>1. PICK s \in ProofStates(e, trust, policy.bound, now) \union ReceiptStates(e, trust, now) : q = Result("source-proof", s, e.id)
      BY <2>5 DEF RecordProofs
    <3>2. s = "INVALID"
      BY <2>5, <3>1, ResultProps
    <3>3. "INVALID" \in ProofStates(e, trust', policy.bound, now) \union ReceiptStates(e, trust', now)
      <4>1. "INVALID" \in ProofStates(e, trust, policy.bound, now) \union ReceiptStates(e, trust, now)
        BY <3>1, <3>2
      <4>2. e \in EvidenceHeld /\ trust[k] # None
        BY <1>1, <1>2
      <4> HIDE DEF e
      <4> QED
        BY <4>1, <4>2, <1>3, InvalidStaysInvalid
    <3> QED
      BY <1>1, <3>3 DEF RecordProofs
  <2>6. /\ proofs' \subseteq results' /\ ArtifactFamily(e) \subseteq results' /\ Freshness(bundle.payload, now) \subseteq results'
        /\ EvidenceSemantics(e, proofs, policy.digestOnly)' \subseteq results'
    <3>1. Freshness(bundle.payload, now)' = Freshness(bundle.payload, now) /\ ArtifactFamily(e)' = ArtifactFamily(e)
      BY <1>1 DEF Freshness, Future, ArtifactFamily
    <3> QED
      BY <1>1, <2>1, <3>1 DEF Contents
  <2>7. CASE r \in proofs
    BY <1>8, <2>5, <2>6, <2>7, ResultProps
  <2>8. CASE r \in EvidenceSemantics(e, proofs, policy.digestOnly)
    <3>1. r = Result("trust-mode", TrustMode(e, proofs), e.id) /\ TrustMode(e, proofs) = "INVALID"
      <4>1. r # Result("evidence-content", IF e.embedded \/ policy.digestOnly THEN "VALID" ELSE "UNVERIFIABLE", e.id)
        BY <1>8, ResultProps
      <4> QED
        BY <1>8, <2>8, <4>1, ResultProps DEF EvidenceSemantics
    <3>2. TrustMode(e, proofs') = "INVALID"
      <4>1. CASE e.proof \notin Cryptographic
        BY <3>1, <4>1 DEF TrustMode
      <4>2. CASE e.proof \in Cryptographic
        <5>1. e.mode # "agent-assertion" /\ Overall(proofs) = "INVALID"
          BY <3>1, <4>2 DEF TrustMode
        <5>2. PICK q \in proofs : q.state = "INVALID"
          BY <5>1, OverallProps
        <5>3. Result("source-proof", "INVALID", e.id) \in proofs'
          BY <2>5, <5>2
        <5>4. Overall(proofs') = "INVALID"
          BY <5>3, OverallProps, ResultProps
        <5> QED
          BY <4>2, <5>1, <5>4 DEF TrustMode
      <4> QED
        BY <4>1, <4>2
    <3>3. Result("trust-mode", "INVALID", e.id) \in results'
      BY <1>1, <2>6, <3>2 DEF EvidenceSemantics
    <3> QED
      BY <3>3, ResultProps
  <2>9. CASE r \in ArtifactFamily(e) \union Freshness(bundle.payload, now)
    BY <1>8, <2>6, <2>9
  <2> QED
    BY <2>1, <2>2, <2>3, <2>4, <2>7, <2>8, <2>9 DEF Judged, Contents
<1> QED
  BY <1>11, <1>12, <1>13

LEMMA CondemnedLooksNoBetterByIInv == BundleIInv /\ BundleIInv' => CondemnedLooksNoBetter
<1> SUFFICES ASSUME BundleIInv, BundleIInv', bundle # None, NEW k \in Keys, Condemn(k)
             PROVE  Rank[State(Verdict0)'] <= Rank[State(Verdict0)]
  BY DEF CondemnedLooksNoBetter
<1>1. State(Verdict0) \in States /\ State(Verdict0)' \in States
  BY OverallProps DEF State
<1>2. Rank["VALID"] = 3 /\ Rank["UNVERIFIABLE"] = 2 /\ Rank["INVALID"] = 1
  BY DEF Rank, States
<1>3. State(Verdict0)' = "VALID" => State(Verdict0) = "VALID"
  BY CondemnedIsNoPart
<1>4. State(Verdict0) = "INVALID" => State(Verdict0)' = "INVALID"
  BY CondemnedStaysInvalid
<1> QED
  BY <1>1, <1>2, <1>3, <1>4 DEF States

\* While a bundle stays what it is, time alone does not age a good seal, and takes a valid
\* verdict away only by the maximum age or the expiration that the caller's policy asks for;
\* learning of a key takes nothing away and condemning one never helps; and what sealBundle
\* seals, whatever its signer may answer, is found whole under the key that sealed it.
THEOREM VerdictFollowsTrustHolds == Spec => VerdictFollowsTrust
<1>1. BundleIInv /\ BundleIInv' /\ [Next]_vars => [SealStaysGood]_vars
  BY SealStaysGoodByIInv
<1>2. BundleIInv /\ BundleIInv' /\ [Next]_vars => [CondemnedLooksNoBetter]_vars
  BY CondemnedLooksNoBetterByIInv
<1>3. BundleIInv /\ BundleIInv' /\ [Next]_vars => [LearntStaysValid]_vars
  BY LearntStaysValidByIInv
<1>4. BundleIInv /\ BundleIInv' /\ [Next]_vars => [SealedIsWhole]_vars
  BY SealedIsWholeByIInv
<1>5. BundleIInv /\ BundleIInv' /\ [Next]_vars => [StaysValidUntilTooOld]_vars
  BY StaysValidByIInv
<1> QED
  BY <1>1, <1>2, <1>3, <1>4, <1>5, BundleInvariance, PTL
     DEF Spec, VerdictFollowsTrust, SealDoesNotAge, VerdictAgesAsAsked, CondemnNeverHelps, LearningKeepsValid, SealVerifies
=============================================================================
