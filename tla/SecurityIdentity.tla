-------------------------- MODULE SecurityIdentity --------------------------
(***************************************************************************)
(* Who is who: the security master (securities/ingest.py), point-in-time   *)
(* universes over it (securities/universe.py, universe_policy.py), the     *)
(* lookups (repositories/securities.py), the audit (securities/quality.py) *)
(* and the bridge from legacy instruments (research_data/bridge.py).       *)
(*                                                                         *)
(* A security is named by its vendor id: (source, source_security_id) is   *)
(* the anchor of its row, and rows are never deleted.  A service call runs *)
(* in one transaction and is one step.  Dates are numbers, and Far is      *)
(* later than every date.                                                  *)
(***************************************************************************)
EXTENDS Integers, Sequences, FiniteSets, SequencesExt, FiniteSetsExt, Tables

CONSTANTS
    None,            \* no value
    Snapshots,       \* sequences of source records a vendor may deliver
    Policies,        \* the universe policies the code has had
    Reconstitutions, \* sets of membership dates a build is asked for
    Batches,         \* sequences of mappings the bridge may be given
    Today,           \* the last date there is
    MaxCalls         \* bound: service calls

Dates == 1 .. Today
Far == Today + 1
Permanent == {"cusip", "isin"}

ASSUME CallsAssumption == Today \in Nat /\ MaxCalls \in Nat
ASSUME NoneAssumption == None \notin Int
ASSUME SnapshotsAssumption ==
    \A snapshot \in Snapshots :
        /\ snapshot \in Seq(Range(snapshot))
        /\ \A r \in Range(snapshot) : \A i \in r.idents : i.from \in Dates /\ i.to \in Dates \union {None}
\* the check constraint ism_interval_ordered
ASSUME BatchesAssumption ==
    \A batch \in Batches :
        /\ batch \in Seq(Range(batch))
        /\ \A m \in Range(batch) :
              /\ m.from \in Dates /\ m.to \in Dates \union {None}
              /\ m.to # None => m.from <= m.to
              /\ m.manual \in BOOLEAN

VARIABLES
    masters,      \* vendor id -> [type, first, delisted]
    identifiers,  \* [sid, kind, from] -> [value, to, exchange]
    lifecycle,    \* [sid, date] -> the successor, if it was known
    delistings,   \* sid -> [date, successor]
    classes,      \* [sid, from] -> [to, sector]
    issues,       \* the rules of the issues an ingestion has filed
    definitions,  \* [name, version] -> the frozen rules
    members,      \* rows [definition, sid, date, exchange]
    manifests,    \* one per build: what it was asked and what it included
    bridge,       \* rows [instrument, sid, from, to, manual, status], oldest first
    calls         \* service calls so far

identityVars == << masters, identifiers, lifecycle, delistings, classes, issues,
                   definitions, members, manifests, bridge, calls >>

----------------------------------------------------------------------------
(***************************************************************************)
(* Ingestion of a vendor's snapshot.                                       *)
(***************************************************************************)

\* valid_to of an open interval
Until(to) == IF to = None THEN Far ELSE to

\* A defect: an interval that ends the day another starts leaves it alone.
OverlapsInside(from, to, otherFrom, otherTo) == from < Until(otherTo) /\ otherFrom < Until(to)

Overlaps(from, to, otherFrom, otherTo) == from <= Until(otherTo) /\ otherFrom <= Until(to)

\* Does another security hold a permanent identifier of the record's?
Conflicts(held, r) ==
    \E i \in r.idents, key \in DOMAIN held :
        /\ i.kind \in Permanent /\ key.kind = i.kind
        /\ held[key].value = i.value /\ key.sid # r.id
        /\ Overlaps(i.from, i.to, key.from, held[key].to)

Resolved(ms, sid) == IF sid \in DOMAIN ms THEN sid ELSE None

IdentifierRows(r) ==
    [ key \in { [sid |-> r.id, kind |-> i.kind, from |-> i.from] : i \in r.idents } |->
        LET i == CHOOSE j \in r.idents : j.kind = key.kind /\ j.from = key.from
        IN  [value |-> i.value, to |-> i.to, exchange |-> i.exchange] ]

LifecycleRows(ms, r) ==
    [ key \in { [sid |-> r.id, date |-> e.date] : e \in r.events } |->
        LET e == CHOOSE f \in r.events : f.date = key.date IN Resolved(ms, e.successor) ]

DelistingRows(ms, r) ==
    [ sid \in { s \in {r.id} : r.delisting # None } |->
        [date |-> r.delisting.date, successor |-> Resolved(ms, r.delisting.successor)] ]

ClassRows(r) ==
    [ key \in { [sid |-> r.id, from |-> c.from] : c \in r.classes } |->
        LET c == CHOOSE d \in r.classes : d.from = key.from IN [to |-> c.to, sector |-> c.sector] ]

\* What _ingest_one makes of the database db when it meets the record r.
IngestOne(db, r) ==
    LET ms == Over([ id \in {r.id} |-> [type |-> r.type, first |-> r.first, delisted |-> r.delisted] ], db.ms)
        Quarantine(rule) == [db EXCEPT !.issues = @ \union {<< r.id, rule >>}]
    IN  IF r.id = None THEN Quarantine("missing_permanent_id")
        ELSE IF Conflicts(db.ids, r) THEN Quarantine("ambiguous_identity")
        ELSE [ms |-> ms, ids |-> Over(IdentifierRows(r), db.ids),
              life |-> Over(LifecycleRows(ms, r), db.life), ends |-> Over(DelistingRows(ms, r), db.ends),
              classes |-> Over(ClassRows(r), db.classes), issues |-> db.issues]

IngestSecurities(snapshot) ==
    LET db == FoldLeft(IngestOne,
                       [ms |-> masters, ids |-> identifiers, life |-> lifecycle, ends |-> delistings,
                        classes |-> classes, issues |-> issues], snapshot)
    IN  /\ calls < MaxCalls
        /\ calls' = calls + 1
        /\ masters' = db.ms /\ identifiers' = db.ids /\ lifecycle' = db.life
        /\ delistings' = db.ends /\ classes' = db.classes /\ issues' = db.issues
        /\ UNCHANGED << definitions, members, manifests, bridge >>

----------------------------------------------------------------------------
(***************************************************************************)
(* Universes.                                                              *)
(***************************************************************************)

\* valid_from <= as_of < valid_to
HeldOn(key, asOf) == key.from <= asOf /\ (identifiers[key].to = None \/ identifiers[key].to > asOf)

\* The securities an identifier may resolve to on a day; the query takes one.
ResolveIdentifier(kind, value, asOf) ==
    { key.sid : key \in { k \in DOMAIN identifiers :
        k.kind = kind /\ identifiers[k].value = value /\ HeldOn(k, asOf) } }

\* The exchanges of the tickers a security has on a day; the query takes one.
Listings(sid, asOf) ==
    { identifiers[key].exchange : key \in { k \in DOMAIN identifiers :
        k.sid = sid /\ k.kind = "ticker" /\ HeldOn(k, asOf) } }

Eligible(policy, m, exchange, asOf) ==
    /\ m.delisted = None \/ m.delisted > asOf
    /\ m.type \in policy.types
    /\ exchange = None \/ exchange \in policy.exchanges
    /\ m.first # None /\ asOf - m.first >= policy.age

Definition(policy) == [name |-> policy.name, version |-> policy.version]

\* register returns a frozen definition as it is, whatever the policy's rules say.
Register(policy) == Over(definitions, [ d \in {Definition(policy)} |-> policy ])

\* A listing is chosen for every security and date: a row order nobody fixed.
BuildUniverse(policy, dates) ==
    /\ calls < MaxCalls
    /\ \E listing \in [(DOMAIN masters) \X dates -> UNION { Listings(s, d) : s \in DOMAIN masters, d \in dates } \union {"none"}] :
        /\ \A s \in DOMAIN masters, d \in dates :
               IF Listings(s, d) = {} THEN listing[<< s, d >>] = "none" ELSE listing[<< s, d >>] \in Listings(s, d)
        /\ LET included == { p \in (DOMAIN masters) \X dates :
                               listing[p] # "none" /\ Eligible(policy, masters[p[1]], listing[p], p[2]) }
               Member(p) == [definition |-> Definition(policy), sid |-> p[1], date |-> p[2],
                          exchange |-> listing[p]]
               Rewritten(row) == \E p \in included : << row.definition, row.sid, row.date >>
                                                       = << Definition(policy), p[1], p[2] >>
           IN  /\ members' = { row \in members : ~ Rewritten(row) } \union { Member(p) : p \in included }
               /\ manifests' = manifests \union
                      {[definition |-> Definition(policy), dates |-> dates, included |-> included,
                        inputs |-> << masters, identifiers >>]}
    /\ definitions' = Register(policy)
    /\ calls' = calls + 1
    /\ UNCHANGED << masters, identifiers, lifecycle, delistings, classes, issues, bridge >>

----------------------------------------------------------------------------
(***************************************************************************)
(* The bridge.                                                             *)
(***************************************************************************)

Row(m, status) == [instrument |-> m.instrument, sid |-> m.sid, from |-> m.from, to |-> m.to,
                   manual |-> m.manual, status |-> status]

Active(rows) == { i \in DOMAIN rows : rows[i].status = "active" }

\* The active rows of m's instrument whose intervals overlap m's.
Rivals(rows, m) ==
    { i \in Active(rows) : rows[i].instrument = m.instrument
                           /\ Overlaps(m.from, m.to, rows[i].from, rows[i].to) }

\* A defect: rows that already point at the same security are left active.
OverrideOthers(rows, m) ==
    Append([ i \in DOMAIN rows |->
                 IF i \in Rivals(rows, m) /\ rows[i].sid # m.sid
                 THEN [rows[i] EXCEPT !.status = "superseded"] ELSE rows[i] ],
           Row(m, "active"))

\* A manual mapping supersedes every active row it overlaps.
Override(rows, m) ==
    Append([ i \in DOMAIN rows |->
                 IF i \in Rivals(rows, m) THEN [rows[i] EXCEPT !.status = "superseded"] ELSE rows[i] ],
           Row(m, "active"))

\* A mapping that meets rows of its own security only is skipped, or of both
\* kinds skipped or quarantined: the rows are read in no fixed order.
Outcomes(rows, m) ==
    IF m.manual THEN {Override(rows, m)}
    ELSE IF Rivals(rows, m) = {} THEN {Append(rows, Row(m, "active"))}
    ELSE { IF rows[i].sid = m.sid THEN rows ELSE Append(rows, Row(m, "quarantined")) :
           i \in Rivals(rows, m) }

IngestMappings(batch) ==
    /\ calls < MaxCalls
    /\ bridge' \in FoldLeft(LAMBDA reached, m : UNION { Outcomes(rows, m) : rows \in reached },
                            {bridge}, batch)
    /\ calls' = calls + 1
    /\ UNCHANGED << masters, identifiers, lifecycle, delistings, classes, issues,
                    definitions, members, manifests >>

\* resolve_instrument: both ends of an interval belong to it.
ResolveInstrument(instrument, asOf) ==
    { bridge[i].sid : i \in { j \in Active(bridge) :
        bridge[j].instrument = instrument /\ bridge[j].from <= asOf /\ asOf <= Until(bridge[j].to) } }

----------------------------------------------------------------------------
Empty == [ none \in {} |-> None ]

IdentityInit ==
    /\ masters = Empty /\ identifiers = Empty /\ lifecycle = Empty /\ delistings = Empty
    /\ classes = Empty /\ issues = {} /\ definitions = Empty
    /\ members = {} /\ manifests = {} /\ bridge = << >> /\ calls = 0

IdentityNext ==
    \/ \E snapshot \in Snapshots : IngestSecurities(snapshot)
    \/ \E policy \in Policies, dates \in Reconstitutions : BuildUniverse(policy, dates)
    \/ \E batch \in Batches : IngestMappings(batch)

----------------------------------------------------------------------------
(***************************************************************************)
(* Properties.                                                             *)
(***************************************************************************)

\* identifier_shared_over_overlap of check_security_master
SharedIdentifiers ==
    { pair \in (DOMAIN identifiers) \X (DOMAIN identifiers) :
        LET a == pair[1] b == pair[2] IN
        /\ a.sid # b.sid /\ a.kind = b.kind /\ identifiers[a].value = identifiers[b].value
        /\ a.from <= Until(identifiers[b].to) /\ b.from <= Until(identifiers[a].to) }

\* A permanent identifier belongs to one security at a time, through every
\* order of snapshots that create, correct, re-date and hand over identifiers:
\* the audit finds no shared one (securities/quality.py:50-83), and a lookup
\* has one answer on every day (repositories/securities.py:45-61), although
\* ingestion only ever compares one record with what is stored.
IdentityNeverMerged ==
    /\ \A pair \in SharedIdentifiers : pair[1].kind \notin Permanent
    /\ \A key \in DOMAIN identifiers, day \in Dates : key.kind \in Permanent =>
           Cardinality(ResolveIdentifier(key.kind, identifiers[key].value, day)) <= 1

Overrides(instrument) == { i \in DOMAIN bridge : bridge[i].instrument = instrument /\ bridge[i].manual }

\* Whatever mappings come in, in whatever order, no instrument has two active
\* mappings on one day (overlap_violations finds none, bridge.py:122-148), and
\* the newest manual override decides on every day it covers.
BridgeIsUnambiguous ==
    \A i \in Active(bridge) :
        /\ Rivals(bridge, bridge[i]) = {i}
        /\ \A day \in Dates :
               LET ruling == Max(Overrides(bridge[i].instrument))
               IN  (/\ Overrides(bridge[i].instrument) # {}
                    /\ bridge[ruling].from <= day /\ day <= Until(bridge[ruling].to))
                   => ResolveInstrument(bridge[i].instrument, day) = {bridge[ruling].sid}
=============================================================================
