---------------------------- MODULE SecurityProofs ----------------------------
(***************************************************************************)
(* Proofs about the security master and its bridge (SecurityIdentity) and  *)
(* about native prices, returns and snapshots (NativeOutcomes), for every  *)
(* set of vendor snapshots, mapping batches and feeds, and any number of   *)
(* calls.                                                                  *)
(***************************************************************************)
EXTENDS SecurityIdentity, NativeOutcomes, Sums, SequenceTheorems

-----------------------------------------------------------------------------
(* Identity: a permanent identifier's intervals never overlap across         *)
(* securities, because a record that would make them is quarantined.         *)

\* Stored intervals are intervals of dates.
Dated(ids) == \A key \in DOMAIN ids : key.from \in Dates /\ ids[key].to \in Dates \union {None}

\* A permanent identifier belongs to one security at a time.
Distinct(ids) ==
    \A a, b \in DOMAIN ids :
        a.sid # b.sid /\ a.kind = b.kind /\ ids[a].value = ids[b].value /\ a.kind \in Permanent
        => ~ Overlaps(a.from, ids[a].to, b.from, ids[b].to)

\* A database that an ingestion may have reached.
IdsOK(db) == "ids" \in DOMAIN db /\ Dated(db.ids) /\ Distinct(db.ids)

RecordOK(r) == \A i \in r.idents : i.from \in Dates /\ i.to \in Dates \union {None}

LEMMA RecordRows ==
    ASSUME NEW r, RecordOK(r)
    PROVE  \A key \in DOMAIN IdentifierRows(r) :
             /\ key.sid = r.id
             /\ \E i \in r.idents :
                   /\ key.kind = i.kind /\ key.from = i.from
                   /\ IdentifierRows(r)[key].value = i.value /\ IdentifierRows(r)[key].to = i.to
<1> DEFINE keys == { [sid |-> r.id, kind |-> i.kind, from |-> i.from] : i \in r.idents }
           Of(key) == CHOOSE j \in r.idents : j.kind = key.kind /\ j.from = key.from
<1>1. /\ DOMAIN IdentifierRows(r) = keys
      /\ \A key \in keys : IdentifierRows(r)[key] =
            [value |-> Of(key).value, to |-> Of(key).to, exchange |-> Of(key).exchange]
  BY DEF IdentifierRows
<1>2. ASSUME NEW key \in keys
      PROVE  Of(key) \in r.idents /\ Of(key).kind = key.kind /\ Of(key).from = key.from /\ key.sid = r.id
  OBVIOUS
<1>3. QED
  <2> HIDE DEF Of, keys
  <2>1. QED
    BY <1>1, <1>2

LEMMA IngestOneKeeps ==
    ASSUME NEW db, IdsOK(db), NEW r, RecordOK(r)
    PROVE  IdsOK(IngestOne(db, r))
<1> DEFINE after == IngestOne(db, r)
           new == IdentifierRows(r)
<1>1. CASE r.id = None \/ Conflicts(db.ids, r)
  <2>1. after.ids = db.ids /\ "ids" \in DOMAIN after
    BY <1>1 DEF IngestOne, IdsOK
  <2> HIDE DEF after
  <2>2. QED
    BY <2>1 DEF IdsOK, after
<1>2. CASE r.id # None /\ ~ Conflicts(db.ids, r)
  <2>1. after.ids = Over(new, db.ids) /\ "ids" \in DOMAIN after
    BY <1>2 DEF IngestOne
  <2> DEFINE ids == Over(new, db.ids)
  <2>2. /\ DOMAIN ids = DOMAIN new \union DOMAIN db.ids
        /\ \A key \in DOMAIN new : ids[key] = new[key]
        /\ \A key \in DOMAIN db.ids \ DOMAIN new : ids[key] = db.ids[key]
    BY DEF Over
  <2> HIDE DEF ids, after, new
  <2>3. \A key \in DOMAIN new :
             /\ key.sid = r.id
             /\ \E i \in r.idents :
                   key.kind = i.kind /\ key.from = i.from /\ new[key].value = i.value /\ new[key].to = i.to
    BY RecordRows DEF new
  <2>4. Dated(ids)
    <3>1. \A key \in DOMAIN new : key.from \in Dates /\ new[key].to \in Dates \union {None}
      BY <2>3 DEF RecordOK
    <3>2. QED
      BY <2>2, <3>1 DEF IdsOK, Dated
  <2>5. ASSUME NEW a \in DOMAIN new, NEW b \in DOMAIN db.ids \ DOMAIN new,
               a.sid # b.sid, a.kind = b.kind, ids[a].value = ids[b].value, a.kind \in Permanent
        PROVE  ~ Overlaps(a.from, ids[a].to, b.from, ids[b].to)
    <3>1. PICK i \in r.idents :
              a.kind = i.kind /\ a.from = i.from /\ new[a].value = i.value /\ new[a].to = i.to
      BY <2>3
    <3>4. b \in DOMAIN db.ids /\ ids[b] = db.ids[b] /\ ids[a] = new[a] /\ a.sid = r.id
      BY <2>2, <2>3
    <3>5. b.sid # r.id /\ b.kind = i.kind /\ db.ids[b].value = i.value /\ i.kind \in Permanent
      BY <2>5, <3>1, <3>4
    <3>2. ~ Overlaps(i.from, i.to, b.from, db.ids[b].to)
      BY <1>2, <3>1, <3>4, <3>5 DEF Conflicts
    <3>3. QED
      BY <2>2, <3>1, <3>2
  <2>6. Distinct(ids)
    <3> SUFFICES ASSUME NEW a \in DOMAIN ids, NEW b \in DOMAIN ids,
                        a.sid # b.sid, a.kind = b.kind, ids[a].value = ids[b].value, a.kind \in Permanent
                 PROVE  ~ Overlaps(a.from, ids[a].to, b.from, ids[b].to)
      BY DEF Distinct
    <3>1. CASE a \in DOMAIN new /\ b \in DOMAIN new
      BY <2>3, <3>1
    <3>2. CASE a \in DOMAIN new /\ b \notin DOMAIN new
      BY <2>2, <2>5, <3>2
    <3>3. CASE a \notin DOMAIN new /\ b \in DOMAIN new
      <4>1. ~ Overlaps(b.from, ids[b].to, a.from, ids[a].to)
        BY <2>2, <2>5, <3>3
      <4>2. QED
        BY <4>1 DEF Overlaps
    <3>4. CASE a \notin DOMAIN new /\ b \notin DOMAIN new
      <4>1. a \in DOMAIN db.ids /\ b \in DOMAIN db.ids /\ ids[a] = db.ids[a] /\ ids[b] = db.ids[b]
        BY <2>2, <3>4
      <4>2. QED
        BY <4>1 DEF IdsOK, Distinct
    <3>5. QED
      BY <3>1, <3>2, <3>3, <3>4
  <2>7. QED
    BY <2>1, <2>4, <2>6 DEF IdsOK, after, ids
<1>3. QED
  BY <1>1, <1>2

-----------------------------------------------------------------------------
(* A snapshot is ingested record by record. *)

\* g is the recursive function behind the fold over the positions in S.
IsIngestion(g, base, snapshot, S) ==
    g = [ T \in SUBSET S |-> IF T = {} THEN base
                             ELSE IngestOne(g[T \ {Max(T)}], snapshot[Max(T)]) ]

\* What the positions in S make of base.
Ingested(base, snapshot, S) == (CHOOSE g : IsIngestion(g, base, snapshot, S))[S]

LEMMA FoldIngests ==
    ASSUME NEW base, NEW snapshot
    PROVE  FoldLeft(IngestOne, base, snapshot) = Ingested(base, snapshot, DOMAIN snapshot)
  BY DEF FoldLeft, MapThenFoldSet, Ingested, IsIngestion

\* Sets of positions in a sequence of length n.
PositionSets(n) == SUBSET (1 .. n)

LEMMA LastIsMember ==
    ASSUME NEW n \in Nat, NEW T \in SUBSET (1 .. n), T # {}
    PROVE  Max(T) \in T /\ \A x \in T : x <= Max(T)
<1>1. IsFiniteSet(1 .. n)
  BY FS_Interval
<1>2. IsFiniteSet(T)
  BY <1>1, FS_Subset
<1>3. T \subseteq Int
  OBVIOUS
<1>4. QED
  BY <1>2, <1>3, HasMax

LEMMA IngestionUnique ==
    ASSUME NEW base, NEW snapshot, NEW n \in Nat, NEW S \in SUBSET (1 .. n),
           NEW g, NEW h, IsIngestion(g, base, snapshot, S), IsIngestion(h, base, snapshot, S)
    PROVE  g = h
<1> DEFINE Bad == { T \in SUBSET S : g[T] # h[T] }
<1>1. ASSUME NEW T \in Bad PROVE \E U \in Bad : U \subseteq T /\ U # T
  <2> DEFINE x == Max(T)
  <2>1. T # {}
    BY DEF IsIngestion
  <2>2. x \in T
    BY <2>1, LastIsMember
  <2>3. /\ g[T] = IngestOne(g[T \ {x}], snapshot[x])
        /\ h[T] = IngestOne(h[T \ {x}], snapshot[x])
    BY <2>1 DEF IsIngestion
  <2>4. T \ {x} \in Bad
    BY <2>3
  <2>5. QED
    BY <2>2, <2>4
<1>2. Bad = {}
  <2>1. Bad \in SUBSET SUBSET S
    OBVIOUS
  <2>2. IsFiniteSet(S)
    <3>1. IsFiniteSet(1 .. n)
      BY FS_Interval
    <3>2. QED
      BY <3>1, FS_Subset
  <2> HIDE DEF Bad
  <2>3. QED
    BY <1>1, <2>1, <2>2, SubsetDescent
<1>3. g = [ T \in SUBSET S |-> g[T] ] /\ h = [ T \in SUBSET S |-> h[T] ]
  BY DEF IsIngestion
<1>4. QED
  BY <1>2, <1>3

LEMMA IngestionEquation ==
    ASSUME NEW base, NEW snapshot, NEW n \in Nat, NEW S \in PositionSets(n)
    PROVE  Ingested(base, snapshot, S) =
             IF S = {} THEN base
             ELSE IngestOne(Ingested(base, snapshot, S \ {Max(S)}), snapshot[Max(S)])
<1> DEFINE Right(T) == IF T = {} THEN base
                       ELSE IngestOne(Ingested(base, snapshot, T \ {Max(T)}), snapshot[Max(T)])
           Bad == { T \in SUBSET S : Ingested(base, snapshot, T) # Right(T) }
<1>0. S \in SUBSET (1 .. n)
  BY DEF PositionSets
<1>1. ASSUME NEW T \in Bad, \A U \in Bad : U \subseteq T => U = T PROVE FALSE
  <2> DEFINE h == [ U \in SUBSET T |-> Right(U) ]
  <2>1. ASSUME NEW U \in SUBSET T
        PROVE  h[U] = IF U = {} THEN base ELSE IngestOne(h[U \ {Max(U)}], snapshot[Max(U)])
    <3>1. CASE U = {}
      BY <3>1
    <3>2. CASE U # {}
      <4>1. Max(U) \in U
        BY <1>0, <3>2, LastIsMember
      <4>2. U \ {Max(U)} \in SUBSET T /\ U \ {Max(U)} # T
        BY <4>1
      <4>3. U \ {Max(U)} \notin Bad
        BY <1>1, <4>2
      <4>4. h[U \ {Max(U)}] = Ingested(base, snapshot, U \ {Max(U)})
        BY <4>2, <4>3
      <4>5. QED
        BY <3>2, <4>4
    <3>3. QED
      BY <3>1, <3>2
  <2>2. IsIngestion(h, base, snapshot, T)
    <3>1. h = [ U \in SUBSET T |-> IF U = {} THEN base ELSE IngestOne(h[U \ {Max(U)}], snapshot[Max(U)]) ]
      <4> DEFINE k == [ U \in SUBSET T |-> IF U = {} THEN base ELSE IngestOne(h[U \ {Max(U)}], snapshot[Max(U)]) ]
      <4>1. \A U \in SUBSET T : h[U] = k[U]
        BY <2>1
      <4>2. h = [ U \in SUBSET T |-> h[U] ] /\ k = [ U \in SUBSET T |-> k[U] ]
        OBVIOUS
      <4> HIDE DEF h, k
      <4>3. h = k
        BY <4>1, <4>2
      <4>4. QED
        BY <4>3 DEF k
    <3>2. QED
      BY <3>1 DEF IsIngestion
  <2>3. T \in SUBSET (1 .. n)
    BY <1>0
  <2> DEFINE c == CHOOSE g : IsIngestion(g, base, snapshot, T)
  <2> HIDE DEF h
  <2>4. IsIngestion(c, base, snapshot, T)
    BY <2>2
  <2>5. c = h
    BY <2>2, <2>3, <2>4, IngestionUnique
  <2>6. Ingested(base, snapshot, T) = h[T]
    BY <2>5 DEF Ingested
  <2>7. QED
    BY <2>6 DEF h
<1>2. Bad = {}
  <2>1. Bad \in SUBSET SUBSET S
    OBVIOUS
  <2>2. IsFiniteSet(S)
    <3>1. IsFiniteSet(1 .. n)
      BY FS_Interval
    <3>2. QED
      BY <1>0, <3>1, FS_Subset
  <2>3. \A T \in Bad : \E U \in Bad : U \subseteq T /\ U # T
    BY <1>1
  <2> HIDE DEF Bad
  <2>4. QED
    BY <2>1, <2>2, <2>3, SubsetDescent
<1>3. QED
  BY <1>2

LEMMA SnapshotKeeps ==
    ASSUME NEW base, IdsOK(base), NEW snapshot \in Snapshots
    PROVE  IdsOK(FoldLeft(IngestOne, base, snapshot))
<1> DEFINE n == Len(snapshot)
           S == DOMAIN snapshot
           Bad == { T \in SUBSET S : ~ IdsOK(Ingested(base, snapshot, T)) }
<1>1. n \in Nat /\ S = 1 .. n /\ \A k \in S : RecordOK(snapshot[k])
  <2>1. snapshot \in Seq(Range(snapshot)) /\ \A r \in Range(snapshot) : RecordOK(r)
    BY SnapshotsAssumption DEF RecordOK
  <2>2. n \in Nat /\ S = 1 .. n
    BY <2>1
  <2>3. \A k \in S : snapshot[k] \in Range(snapshot)
    BY DEF Range
  <2>4. QED
    BY <2>1, <2>2, <2>3
<1> HIDE DEF n, S
<1>2. ASSUME NEW T \in Bad PROVE \E U \in Bad : U \subseteq T /\ U # T
  <2> DEFINE x == Max(T)
  <2>0. n \in Nat
    BY <1>1
  <2>1. T \in SUBSET (1 .. n)
    BY <1>1
  <2>8. T \in PositionSets(n)
    BY <2>1 DEF PositionSets
  <2>2. Ingested(base, snapshot, T) =
            IF T = {} THEN base ELSE IngestOne(Ingested(base, snapshot, T \ {x}), snapshot[x])
    BY <2>0, <2>8, IngestionEquation
  <2>3. T # {}
    BY <2>2
  <2>4. x \in T
    BY <1>1, <2>1, <2>3, LastIsMember
  <2> HIDE DEF x
  <2>5. ~ IdsOK(Ingested(base, snapshot, T \ {x}))
    BY <1>1, <2>2, <2>3, <2>4, IngestOneKeeps
  <2>6. T \ {x} \in Bad
    BY <2>5
  <2>7. QED
    BY <2>4, <2>6
<1>3. Bad = {}
  <2>1. Bad \in SUBSET SUBSET S /\ IsFiniteSet(S)
    BY <1>1, FS_Interval
  <2> HIDE DEF Bad
  <2>2. QED
    BY <1>2, <2>1, SubsetDescent
<1>4. QED
  BY <1>3, FoldIngests DEF S

LEMMA OneHolder ==
    ASSUME Dated(identifiers), Distinct(identifiers)
    PROVE  IdentityNeverMerged
<1>1. ASSUME NEW pair \in SharedIdentifiers PROVE pair[1].kind \notin Permanent
  <2> DEFINE a == pair[1]
             b == pair[2]
  <2>1. /\ a \in DOMAIN identifiers /\ b \in DOMAIN identifiers
        /\ a.sid # b.sid /\ a.kind = b.kind /\ identifiers[a].value = identifiers[b].value
        /\ Overlaps(a.from, identifiers[a].to, b.from, identifiers[b].to)
    BY DEF SharedIdentifiers, Overlaps
  <2> HIDE DEF a, b
  <2>2. QED
    BY <2>1 DEF Distinct, a
<1>2. ASSUME NEW key \in DOMAIN identifiers, NEW day \in Dates, key.kind \in Permanent
      PROVE  Cardinality(ResolveIdentifier(key.kind, identifiers[key].value, day)) <= 1
  <2> DEFINE found == ResolveIdentifier(key.kind, identifiers[key].value, day)
  <2>1. ASSUME NEW a \in DOMAIN identifiers, HeldOn(a, day)
        PROVE  a.from <= day /\ day <= Until(identifiers[a].to)
    <3>1. a.from \in Dates /\ identifiers[a].to \in Dates \union {None}
      BY DEF Dated
    <3>2. CASE identifiers[a].to = None
      BY <2>1, <3>2, CallsAssumption DEF HeldOn, Until, Dates, Far
    <3>3. CASE identifiers[a].to # None
      BY <2>1, <3>1, <3>3, CallsAssumption DEF HeldOn, Until, Dates
    <3>4. QED
      BY <3>2, <3>3
  <2>2. ASSUME NEW s \in found, NEW t \in found PROVE s = t
    <3>1. PICK a \in DOMAIN identifiers :
              s = a.sid /\ a.kind = key.kind /\ identifiers[a].value = identifiers[key].value /\ HeldOn(a, day)
      BY DEF ResolveIdentifier
    <3>2. PICK b \in DOMAIN identifiers :
              t = b.sid /\ b.kind = key.kind /\ identifiers[b].value = identifiers[key].value /\ HeldOn(b, day)
      BY DEF ResolveIdentifier
    <3>3. Overlaps(a.from, identifiers[a].to, b.from, identifiers[b].to)
      <4>1. /\ a.from \in Int /\ b.from \in Int /\ day \in Int
            /\ Until(identifiers[a].to) \in Int /\ Until(identifiers[b].to) \in Int
        BY CallsAssumption DEF Dated, Dates, Until, Far
      <4>2. QED
        BY <2>1, <3>1, <3>2, <4>1 DEF Overlaps
    <3>4. QED
      BY <1>2, <3>1, <3>2, <3>3 DEF Distinct
  <2> HIDE DEF found
  <2>3. CASE found = {}
    <3>1. Cardinality(found) = 0
      BY <2>3, FS_EmptySet
    <3>2. QED
      BY <3>1 DEF found
  <2>4. CASE found # {}
    <3>1. PICK s \in found : found = {s}
      BY <2>2, <2>4
    <3>2. Cardinality(found) = 1
      BY <3>1, FS_Singleton
    <3>3. QED
      BY <3>2 DEF found
  <2>5. QED
    BY <2>3, <2>4
<1>3. QED
  BY <1>1, <1>2 DEF IdentityNeverMerged

IdentityInv == Dated(identifiers) /\ Distinct(identifiers)

LEMMA NextIdentityInv == IdentityInv /\ [IdentityNext]_identityVars => IdentityInv'
<1> SUFFICES ASSUME IdentityInv, [IdentityNext]_identityVars PROVE IdentityInv'
  OBVIOUS
<1>1. ASSUME NEW snapshot \in Snapshots, IngestSecurities(snapshot) PROVE IdentityInv'
  <2> DEFINE base == [ms |-> masters, ids |-> identifiers, life |-> lifecycle, ends |-> delistings,
                      classes |-> classes, issues |-> issues]
  <2>1. IdsOK(base)
    BY DEF IdsOK, IdentityInv
  <2>2. identifiers' = FoldLeft(IngestOne, base, snapshot).ids
    BY <1>1 DEF IngestSecurities
  <2> HIDE DEF base
  <2>3. IdsOK(FoldLeft(IngestOne, base, snapshot))
    BY <2>1, SnapshotKeeps
  <2>4. Dated(identifiers') /\ Distinct(identifiers')
    BY <2>2, <2>3 DEF IdsOK
  <2>5. QED
    BY <2>4 DEF IdentityInv
<1>2. ASSUME UNCHANGED identifiers PROVE IdentityInv'
  BY <1>2 DEF IdentityInv
<1>3. ASSUME NEW policy, NEW dates, BuildUniverse(policy, dates) PROVE UNCHANGED identifiers
  BY <1>3 DEF BuildUniverse
<1>4. ASSUME NEW batch, IngestMappings(batch) PROVE UNCHANGED identifiers
  BY <1>4 DEF IngestMappings
<1>5. ASSUME UNCHANGED identityVars PROVE UNCHANGED identifiers
  BY <1>5 DEF identityVars
<1>6. QED
  BY <1>1, <1>2, <1>3, <1>4, <1>5 DEF IdentityNext

\* However snapshots are ingested, and in whatever order, no permanent identifier
\* (CUSIP, ISIN, FIGI, CIK) ever names two securities on one day: ingest_snapshot
\* quarantines a record whose identifier is another's (securities/ingest.py:68).
THEOREM OneSecurityPerIdentifier ==
    IdentityInit /\ [][IdentityNext]_identityVars => []IdentityNeverMerged
<1>1. IdentityInit => IdentityInv
  BY DEF IdentityInit, IdentityInv, Empty, Dated, Distinct
<1>2. QED
  BY <1>1, NextIdentityInv, OneHolder, PTL DEF IdentityInv

-----------------------------------------------------------------------------
(* The bridge: rows only change status, and active ones stay apart.          *)

MappingOK(m) ==
    /\ m.from \in Dates /\ m.to \in Dates \union {None}
    /\ m.to # None => m.from <= m.to
    /\ m.manual \in BOOLEAN

\* Active rows of an instrument do not overlap.
Apart(rows) ==
    \A i, j \in Active(rows) :
        i # j /\ rows[i].instrument = rows[j].instrument
        => ~ Overlaps(rows[i].from, rows[i].to, rows[j].from, rows[j].to)

\* A manual row that is no longer active was overruled by a later one.
Ruled(rows) ==
    \A i \in DOMAIN rows : rows[i].manual /\ i \notin Active(rows) =>
        \E j \in DOMAIN rows : j > i /\ rows[j].manual /\ rows[j].instrument = rows[i].instrument

RowsOK(rows) ==
    /\ rows \in Seq(Range(rows))
    /\ \A i \in DOMAIN rows : MappingOK(rows[i]) /\ "status" \in DOMAIN rows[i]
    /\ Apart(rows)
    /\ Ruled(rows)

\* after is rows, each with a status of its own, and a last row for m.
Extended(after, rows, m, status) ==
    /\ after \in Seq(Range(after))
    /\ DOMAIN after = DOMAIN rows \union {Len(rows) + 1}
    /\ after[Len(rows) + 1] = Row(m, status)

LEMMA AppendExtends ==
    ASSUME NEW S, NEW rows \in Seq(S), NEW m, NEW status,
           NEW changed, DOMAIN changed = DOMAIN rows, changed = [ i \in DOMAIN rows |-> changed[i] ]
    PROVE  /\ Len(rows) \in Nat /\ DOMAIN rows = 1 .. Len(rows)
           /\ Extended(Append(changed, Row(m, status)), rows, m, status)
           /\ \A i \in DOMAIN rows : Append(changed, Row(m, status))[i] = changed[i]
<1> DEFINE n == Len(rows)
           row == Row(m, status)
           T == { changed[i] : i \in DOMAIN rows } \union {row}
           after == Append(changed, row)
<1>1. n \in Nat /\ DOMAIN rows = 1 .. n
  OBVIOUS
<1>2. changed \in Seq(T)
  <2>1. changed \in [ 1 .. n -> T ]
    BY <1>1
  <2> HIDE DEF T, n
  <2>2. QED
    BY <1>1, <2>1, SeqDef
<1>3. Len(changed) = n
  BY <1>1, <1>2
<1> HIDE DEF n, T, row
<1>4. row \in T
  BY DEF T
<1>5. /\ after \in Seq(T) /\ Len(after) = n + 1
      /\ \A i \in 1 .. n : after[i] = changed[i]
      /\ after[n + 1] = row
  BY <1>2, <1>3, <1>4, AppendProperties
<1>6. DOMAIN after = DOMAIN rows \union {n + 1}
  <2>1. DOMAIN after = 1 .. (n + 1)
    BY <1>5
  <2>2. 1 .. (n + 1) = 1 .. n \union {n + 1}
    BY <1>1
  <2>3. QED
    BY <1>1, <2>1, <2>2
<1> HIDE DEF after
<1>7. after \in Seq(Range(after))
  <2>1. after \in [ 1 .. (n + 1) -> Range(after) ]
    <3>1. after = [ i \in 1 .. (n + 1) |-> after[i] ]
      BY <1>5
    <3>2. \A i \in 1 .. (n + 1) : after[i] \in Range(after)
      <4>1. DOMAIN after = 1 .. (n + 1)
        BY <1>5
      <4>2. QED
        BY <4>1 DEF Range
    <3>3. QED
      BY <3>1, <3>2
  <2>2. n + 1 \in Nat
    BY <1>1
  <2>3. QED
    BY <2>1, <2>2, SeqDef
<1>8. QED
  BY <1>1, <1>5, <1>6, <1>7 DEF Extended, after, row, n

LEMMA RowOfMapping ==
    ASSUME NEW m, NEW status, MappingOK(m)
    PROVE  /\ MappingOK(Row(m, status))
           /\ Row(m, status).instrument = m.instrument /\ Row(m, status).manual = m.manual
           /\ Row(m, status).from = m.from /\ Row(m, status).to = m.to
           /\ Row(m, status).status = status /\ "status" \in DOMAIN Row(m, status)
  BY DEF MappingOK, Row

LEMMA OverlapsBothWays ==
    ASSUME NEW a, NEW b, NEW c, NEW d, Overlaps(a, b, c, d)
    PROVE  Overlaps(c, d, a, b)
  BY DEF Overlaps

\* A row that is not active and not manual changes nothing.
LEMMA QuarantineKeeps ==
    ASSUME NEW rows, RowsOK(rows), NEW m, MappingOK(m), m.manual = FALSE
    PROVE  RowsOK(Append(rows, Row(m, "quarantined")))
<1> DEFINE after == Append(rows, Row(m, "quarantined"))
           last == Len(rows) + 1
<1>1. /\ Len(rows) \in Nat /\ DOMAIN rows = 1 .. Len(rows)
      /\ Extended(after, rows, m, "quarantined")
      /\ \A i \in DOMAIN rows : after[i] = rows[i]
  <2>1. rows \in Seq(Range(rows)) /\ rows = [ i \in DOMAIN rows |-> rows[i] ]
    BY DEF RowsOK
  <2>2. QED
    BY <2>1, AppendExtends
<1> HIDE DEF after
<1>2. /\ DOMAIN after = DOMAIN rows \union {last} /\ after \in Seq(Range(after))
      /\ after[last].status = "quarantined" /\ after[last].manual = FALSE /\ MappingOK(after[last])
      /\ "status" \in DOMAIN after[last]
  BY <1>1, RowOfMapping DEF Extended
<1> HIDE DEF last
<1>3. Active(after) = Active(rows)
  BY <1>1, <1>2 DEF Active
<1>4. Apart(after)
  <2>1. Active(rows) \subseteq DOMAIN rows
    BY DEF Active
  <2>2. QED
    BY <1>1, <1>3, <2>1 DEF RowsOK, Apart
<1>5. Ruled(after)
  BY <1>1, <1>2, <1>3 DEF RowsOK, Ruled
<1>6. \A i \in DOMAIN after : MappingOK(after[i]) /\ "status" \in DOMAIN after[i]
  BY <1>1, <1>2 DEF RowsOK
<1>7. QED
  BY <1>2, <1>4, <1>5, <1>6 DEF RowsOK, after

\* An active row is added once the active rows it overlaps are superseded, by a manual row only.
LEMMA ActivationKeeps ==
    ASSUME NEW rows, RowsOK(rows), NEW m, MappingOK(m),
           NEW changed, DOMAIN changed = DOMAIN rows, changed = [ i \in DOMAIN rows |-> changed[i] ],
           m.manual = TRUE \/ Rivals(rows, m) = {},
           \A i \in DOMAIN rows :
               changed[i] = IF i \in Rivals(rows, m) THEN [ rows[i] EXCEPT !.status = "superseded" ] ELSE rows[i],
           \A i \in DOMAIN rows : i \in Rivals(rows, m) =>
               /\ "status" \in DOMAIN changed[i] /\ changed[i].status = "superseded"
               /\ changed[i].instrument = rows[i].instrument
               /\ changed[i].manual = rows[i].manual
               /\ changed[i].from = rows[i].from /\ changed[i].to = rows[i].to
    PROVE  RowsOK(Append(changed, Row(m, "active")))
<1> DEFINE after == Append(changed, Row(m, "active"))
           last == Len(rows) + 1
<1>1. /\ Len(rows) \in Nat /\ DOMAIN rows = 1 .. Len(rows)
      /\ Extended(after, rows, m, "active")
      /\ \A i \in DOMAIN rows : after[i] = changed[i]
  <2>1. rows \in Seq(Range(rows))
    BY DEF RowsOK
  <2>2. QED
    BY <2>1, AppendExtends
<1> HIDE DEF after
<1>2. /\ DOMAIN after = DOMAIN rows \union {last} /\ after \in Seq(Range(after))
      /\ after[last].status = "active" /\ after[last].manual = m.manual /\ MappingOK(after[last])
      /\ "status" \in DOMAIN after[last]
      /\ after[last].instrument = m.instrument /\ after[last].from = m.from /\ after[last].to = m.to
  BY <1>1, RowOfMapping DEF Extended
<1>3. \A i \in DOMAIN rows : i < last /\ i # last
  BY <1>1
<1> HIDE DEF last
<1>4. \A i \in DOMAIN rows :
         /\ after[i].instrument = rows[i].instrument /\ after[i].manual = rows[i].manual
         /\ after[i].from = rows[i].from /\ after[i].to = rows[i].to
         /\ i \in Rivals(rows, m) => after[i].status = "superseded" /\ "status" \in DOMAIN after[i]
         /\ i \notin Rivals(rows, m) => after[i] = rows[i]
  BY <1>1
<1>5. /\ \A i \in DOMAIN rows : i \in Active(after) <=> i \in Active(rows) /\ i \notin Rivals(rows, m)
      /\ last \in Active(after)
  BY <1>2, <1>4 DEF Active
<1>6. \A i \in DOMAIN after : MappingOK(after[i]) /\ "status" \in DOMAIN after[i]
  BY <1>2, <1>4 DEF RowsOK, MappingOK
<1>7. ASSUME NEW i \in DOMAIN rows, i \in Active(after), after[i].instrument = m.instrument
      PROVE  ~ Overlaps(m.from, m.to, after[i].from, after[i].to)
  <2>1. i \in Active(rows) /\ i \notin Rivals(rows, m)
    BY <1>5, <1>7
  <2>2. ~ Overlaps(m.from, m.to, rows[i].from, rows[i].to)
    BY <1>4, <1>7, <2>1 DEF Rivals
  <2>3. QED
    BY <1>4, <2>2
<1>8. Apart(after)
  <2> SUFFICES ASSUME NEW i \in Active(after), NEW j \in Active(after), i # j,
                      after[i].instrument = after[j].instrument
               PROVE  ~ Overlaps(after[i].from, after[i].to, after[j].from, after[j].to)
    BY DEF Apart
  <2>1. i \in DOMAIN rows \union {last} /\ j \in DOMAIN rows \union {last}
    BY <1>2 DEF Active
  <2>2. CASE i = last
    BY <1>2, <1>7, <2>1, <2>2
  <2>3. CASE j = last
    <3>1. ~ Overlaps(after[j].from, after[j].to, after[i].from, after[i].to)
      BY <1>2, <1>7, <2>1, <2>3
    <3>2. QED
      BY <3>1, OverlapsBothWays
  <2>4. CASE i # last /\ j # last
    <3>1. i \in DOMAIN rows /\ j \in DOMAIN rows /\ i \in Active(rows) /\ j \in Active(rows)
      BY <1>5, <2>1, <2>4
    <3>2. ~ Overlaps(rows[i].from, rows[i].to, rows[j].from, rows[j].to)
      BY <1>4, <3>1 DEF RowsOK, Apart
    <3>3. QED
      BY <1>4, <3>1, <3>2
  <2>5. QED
    BY <2>2, <2>3, <2>4
<1>9. Ruled(after)
  <2> SUFFICES ASSUME NEW i \in DOMAIN after, after[i].manual, i \notin Active(after)
               PROVE  \E j \in DOMAIN after : j > i /\ after[j].manual /\ after[j].instrument = after[i].instrument
    BY DEF Ruled
  <2>1. i \in DOMAIN rows
    BY <1>2, <1>5
  <2>2. CASE i \in Rivals(rows, m)
    <3>1. m.manual = TRUE /\ rows[i].instrument = m.instrument
      BY <2>2 DEF Rivals
    <3>2. last \in DOMAIN after /\ last > i /\ after[last].manual /\ after[last].instrument = after[i].instrument
      BY <1>1, <1>2, <1>3, <1>4, <2>1, <3>1
    <3>3. QED
      BY <3>2
  <2>3. CASE i \notin Rivals(rows, m)
    <3>1. rows[i].manual /\ i \notin Active(rows)
      BY <1>4, <1>5, <2>1, <2>3
    <3>2. PICK j \in DOMAIN rows : j > i /\ rows[j].manual /\ rows[j].instrument = rows[i].instrument
      BY <2>1, <3>1 DEF RowsOK, Ruled
    <3>3. j \in DOMAIN after /\ after[j].manual /\ after[j].instrument = after[i].instrument
      BY <1>2, <1>4, <2>1, <3>2
    <3>4. QED
      BY <3>2, <3>3
  <2>4. QED
    BY <2>2, <2>3
<1>10. QED
  BY <1>2, <1>6, <1>8, <1>9 DEF RowsOK, after

LEMMA OutcomesKeep ==
    ASSUME NEW rows, RowsOK(rows), NEW m, MappingOK(m), NEW after \in Outcomes(rows, m)
    PROVE  RowsOK(after)
<1>1. CASE m.manual
  <2> DEFINE changed == [ i \in DOMAIN rows |->
                 IF i \in Rivals(rows, m) THEN [rows[i] EXCEPT !.status = "superseded"] ELSE rows[i] ]
  <2>1. after = Append(changed, Row(m, "active"))
    BY <1>1 DEF Outcomes, Override
  <2>2. ASSUME NEW i \in DOMAIN rows, i \in Rivals(rows, m)
        PROVE  /\ "status" \in DOMAIN changed[i] /\ changed[i].status = "superseded"
               /\ changed[i].instrument = rows[i].instrument
               /\ changed[i].manual = rows[i].manual
               /\ changed[i].from = rows[i].from /\ changed[i].to = rows[i].to
    <3>1. changed[i] = [rows[i] EXCEPT !.status = "superseded"]
      BY <2>2
    <3> HIDE DEF changed
    <3>2. "status" \in DOMAIN rows[i]
      BY DEF RowsOK
    <3>3. QED
      BY <3>1, <3>2
  <2>3. /\ DOMAIN changed = DOMAIN rows /\ changed = [ i \in DOMAIN rows |-> changed[i] ]
        /\ \A i \in DOMAIN rows :
               changed[i] = IF i \in Rivals(rows, m) THEN [ rows[i] EXCEPT !.status = "superseded" ] ELSE rows[i]
    OBVIOUS
  <2>4. m.manual = TRUE
    BY <1>1 DEF MappingOK
  <2> HIDE DEF changed
  <2>5. QED
    BY <2>1, <2>2, <2>3, <2>4, ActivationKeeps
<1>2. CASE ~ m.manual /\ Rivals(rows, m) = {}
  <2>1. after = Append(rows, Row(m, "active"))
    BY <1>2 DEF Outcomes
  <2>2. /\ DOMAIN rows = DOMAIN rows /\ rows = [ i \in DOMAIN rows |-> rows[i] ]
        /\ \A i \in DOMAIN rows :
               rows[i] = IF i \in Rivals(rows, m) THEN [ rows[i] EXCEPT !.status = "superseded" ] ELSE rows[i]
        /\ \A i \in DOMAIN rows : i \in Rivals(rows, m) =>
               /\ "status" \in DOMAIN rows[i] /\ rows[i].status = "superseded"
               /\ rows[i].instrument = rows[i].instrument
               /\ rows[i].manual = rows[i].manual
               /\ rows[i].from = rows[i].from /\ rows[i].to = rows[i].to
    <3>1. rows \in Seq(Range(rows))
      BY DEF RowsOK
    <3>2. rows = [ i \in DOMAIN rows |-> rows[i] ]
      BY <3>1
    <3>3. QED
      BY <1>2, <3>2
  <2>3. QED
    BY <1>2, <2>1, <2>2, ActivationKeeps
<1>3. CASE ~ m.manual /\ Rivals(rows, m) # {}
  <2>1. after = rows \/ after = Append(rows, Row(m, "quarantined"))
    BY <1>3 DEF Outcomes
  <2>2. m.manual = FALSE
    BY <1>3 DEF MappingOK
  <2>3. QED
    BY <2>1, <2>2, QuarantineKeeps
<1>4. QED
  BY <1>1, <1>2, <1>3

-----------------------------------------------------------------------------
(* A batch is ingested mapping by mapping; g is the recursive function behind the fold. *)

\* The bridges that m may make of one of those reached.
Branches(reached, m) == UNION { Outcomes(rows, m) : rows \in reached }

IsMapping(g, base, batch, S) ==
    g = [ T \in SUBSET S |-> IF T = {} THEN base ELSE Branches(g[T \ {Max(T)}], batch[Max(T)]) ]

\* What the positions in S may make of the bridges in base.
Mapped(base, batch, S) == (CHOOSE g : IsMapping(g, base, batch, S))[S]

LEMMA FoldMaps ==
    ASSUME NEW base, NEW batch
    PROVE  FoldLeft(LAMBDA reached, m : UNION { Outcomes(rows, m) : rows \in reached }, base, batch)
             = Mapped(base, batch, DOMAIN batch)
  BY DEF FoldLeft, MapThenFoldSet, Mapped, IsMapping, Branches

LEMMA MappingUnique ==
    ASSUME NEW base, NEW batch, NEW n \in Nat, NEW S \in SUBSET (1 .. n),
           NEW g, NEW h, IsMapping(g, base, batch, S), IsMapping(h, base, batch, S)
    PROVE  g = h
<1> DEFINE Bad == { T \in SUBSET S : g[T] # h[T] }
<1>1. ASSUME NEW T \in Bad PROVE \E U \in Bad : U \subseteq T /\ U # T
  <2> DEFINE x == Max(T)
  <2>1. T # {}
    BY DEF IsMapping
  <2>2. x \in T
    BY <2>1, LastIsMember
  <2>3. /\ g[T] = Branches(g[T \ {x}], batch[x])
        /\ h[T] = Branches(h[T \ {x}], batch[x])
    BY <2>1 DEF IsMapping
  <2>4. T \ {x} \in Bad
    BY <2>3
  <2>5. QED
    BY <2>2, <2>4
<1>2. Bad = {}
  <2>1. Bad \in SUBSET SUBSET S
    OBVIOUS
  <2>2. IsFiniteSet(S)
    <3>1. IsFiniteSet(1 .. n)
      BY FS_Interval
    <3>2. QED
      BY <3>1, FS_Subset
  <2> HIDE DEF Bad
  <2>3. QED
    BY <1>1, <2>1, <2>2, SubsetDescent
<1>3. g = [ T \in SUBSET S |-> g[T] ] /\ h = [ T \in SUBSET S |-> h[T] ]
  BY DEF IsMapping
<1>4. QED
  BY <1>2, <1>3

LEMMA MappingEquation ==
    ASSUME NEW base, NEW batch, NEW n \in Nat, NEW S \in PositionSets(n)
    PROVE  Mapped(base, batch, S) =
             IF S = {} THEN base
             ELSE Branches(Mapped(base, batch, S \ {Max(S)}), batch[Max(S)])
<1> DEFINE Right(T) == IF T = {} THEN base
                       ELSE Branches(Mapped(base, batch, T \ {Max(T)}), batch[Max(T)])
           Bad == { T \in SUBSET S : Mapped(base, batch, T) # Right(T) }
<1>0. S \in SUBSET (1 .. n)
  BY DEF PositionSets
<1>1. ASSUME NEW T \in Bad, \A U \in Bad : U \subseteq T => U = T PROVE FALSE
  <2> DEFINE h == [ U \in SUBSET T |-> Right(U) ]
  <2>1. ASSUME NEW U \in SUBSET T
        PROVE  h[U] = IF U = {} THEN base ELSE Branches(h[U \ {Max(U)}], batch[Max(U)])
    <3>1. CASE U = {}
      BY <3>1
    <3>2. CASE U # {}
      <4>1. Max(U) \in U
        BY <1>0, <3>2, LastIsMember
      <4>2. U \ {Max(U)} \in SUBSET T /\ U \ {Max(U)} # T
        BY <4>1
      <4>3. U \ {Max(U)} \notin Bad
        BY <1>1, <4>2
      <4>4. h[U \ {Max(U)}] = Mapped(base, batch, U \ {Max(U)})
        BY <4>2, <4>3
      <4>5. h[U] = Branches(Mapped(base, batch, U \ {Max(U)}), batch[Max(U)])
        BY <3>2
      <4> HIDE DEF h
      <4>6. QED
        BY <3>2, <4>4, <4>5
    <3>3. QED
      BY <3>1, <3>2
  <2>2. IsMapping(h, base, batch, T)
    <3>1. h = [ U \in SUBSET T |-> IF U = {} THEN base ELSE Branches(h[U \ {Max(U)}], batch[Max(U)]) ]
      <4> DEFINE k == [ U \in SUBSET T |-> IF U = {} THEN base ELSE Branches(h[U \ {Max(U)}], batch[Max(U)]) ]
      <4>1. \A U \in SUBSET T : h[U] = k[U]
        BY <2>1
      <4>2. h = [ U \in SUBSET T |-> h[U] ] /\ k = [ U \in SUBSET T |-> k[U] ]
        OBVIOUS
      <4> HIDE DEF h, k
      <4>3. h = k
        BY <4>1, <4>2
      <4>4. QED
        BY <4>3 DEF k
    <3> HIDE DEF h
    <3>2. QED
      BY <3>1 DEF IsMapping
  <2>3. T \in SUBSET (1 .. n)
    BY <1>0
  <2> DEFINE c == CHOOSE g : IsMapping(g, base, batch, T)
  <2> HIDE DEF h
  <2>4. IsMapping(c, base, batch, T)
    BY <2>2
  <2>5. c = h
    BY <2>2, <2>3, <2>4, MappingUnique
  <2>6. Mapped(base, batch, T) = h[T]
    BY <2>5 DEF Mapped
  <2>7. QED
    BY <2>6 DEF h
<1>2. Bad = {}
  <2>1. Bad \in SUBSET SUBSET S
    OBVIOUS
  <2>2. IsFiniteSet(S)
    <3>1. IsFiniteSet(1 .. n)
      BY FS_Interval
    <3>2. QED
      BY <1>0, <3>1, FS_Subset
  <2>3. \A T \in Bad : \E U \in Bad : U \subseteq T /\ U # T
    BY <1>1
  <2> HIDE DEF Bad
  <2>4. QED
    BY <2>1, <2>2, <2>3, SubsetDescent
<1>3. QED
  BY <1>2

LEMMA BatchKeeps ==
    ASSUME NEW rows, RowsOK(rows), NEW batch \in Batches,
           NEW after \in Mapped({rows}, batch, DOMAIN batch)
    PROVE  RowsOK(after)
<1> DEFINE n == Len(batch)
           S == DOMAIN batch
           base == {rows}
           Bad == { T \in SUBSET S : \E r \in Mapped(base, batch, T) : ~ RowsOK(r) }
<1>1. n \in Nat /\ S = 1 .. n /\ \A k \in S : MappingOK(batch[k])
  <2>1. batch \in Seq(Range(batch)) /\ \A r \in Range(batch) : MappingOK(r)
    BY BatchesAssumption DEF MappingOK
  <2>2. n \in Nat /\ S = 1 .. n
    <3>1. batch \in Seq(Range(batch))
      BY <2>1
    <3>2. QED
      BY <3>1
  <2>3. \A k \in S : batch[k] \in Range(batch)
    BY DEF Range
  <2>4. QED
    BY <2>1, <2>2, <2>3
<1>0. after \in Mapped(base, batch, S)
  OBVIOUS
<1>5. \A r \in base : RowsOK(r)
  OBVIOUS
<1> HIDE DEF n, S, base
<1>2. ASSUME NEW T \in Bad PROVE \E U \in Bad : U \subseteq T /\ U # T
  <2> DEFINE x == Max(T)
  <2>0. n \in Nat
    BY <1>1
  <2>1. T \in SUBSET (1 .. n)
    BY <1>1
  <2>10. T \in PositionSets(n)
    BY <2>1 DEF PositionSets
  <2>2. Mapped(base, batch, T) =
            IF T = {} THEN base ELSE Branches(Mapped(base, batch, T \ {x}), batch[x])
    BY <2>0, <2>10, MappingEquation
  <2>3. T # {}
    BY <1>5, <2>2
  <2>4. x \in T
    BY <1>1, <2>1, <2>3, LastIsMember
  <2> HIDE DEF x
  <2>5. PICK r \in Mapped(base, batch, T) : ~ RowsOK(r)
    OBVIOUS
  <2>6. PICK q \in Mapped(base, batch, T \ {x}) : r \in Outcomes(q, batch[x])
    BY <2>2, <2>3 DEF Branches
  <2>7. ~ RowsOK(q)
    BY <1>1, <2>4, <2>5, <2>6, OutcomesKeep
  <2>8. T \ {x} \in Bad
    BY <2>7
  <2>9. QED
    BY <2>4, <2>8
<1>3. Bad = {}
  <2>1. Bad \in SUBSET SUBSET S
    OBVIOUS
  <2>3. IsFiniteSet(S)
    BY <1>1, FS_Interval
  <2> HIDE DEF Bad
  <2>2. QED
    BY <1>2, <2>1, <2>3, SubsetDescent
<1>4. QED
  BY <1>0, <1>3

-----------------------------------------------------------------------------
LEMMA NewestManualDecides ==
    ASSUME RowsOK(bridge)
    PROVE  BridgeIsUnambiguous
<1>1. /\ Len(bridge) \in Nat /\ DOMAIN bridge = 1 .. Len(bridge)
      /\ \A i \in DOMAIN bridge : MappingOK(bridge[i])
  <2>1. bridge \in Seq(Range(bridge)) /\ \A i \in DOMAIN bridge : MappingOK(bridge[i])
    BY DEF RowsOK
  <2>2. QED
    BY <2>1
<1>2. ASSUME NEW i \in Active(bridge) PROVE Rivals(bridge, bridge[i]) = {i}
  <2>1. i \in DOMAIN bridge
    BY DEF Active
  <2>2. Overlaps(bridge[i].from, bridge[i].to, bridge[i].from, bridge[i].to)
    BY <1>1, <2>1, CallsAssumption DEF MappingOK, Overlaps, Until, Dates, Far
  <2>3. i \in Rivals(bridge, bridge[i])
    BY <2>2 DEF Rivals
  <2>4. ASSUME NEW j \in Rivals(bridge, bridge[i]) PROVE j = i
    BY DEF Rivals, RowsOK, Apart
  <2>5. QED
    BY <2>3, <2>4
<1>3. ASSUME NEW i \in Active(bridge), NEW day \in Dates, NEW ruling,
             ruling = Max(Overrides(bridge[i].instrument)),
             Overrides(bridge[i].instrument) # {},
             bridge[ruling].from <= day, day <= Until(bridge[ruling].to)
      PROVE  ResolveInstrument(bridge[i].instrument, day) = {bridge[ruling].sid}
  <2> DEFINE instrument == bridge[i].instrument
  <2>1. ruling \in Overrides(instrument) /\ \A k \in Overrides(instrument) : k <= ruling
    <3>1. Overrides(instrument) \in SUBSET (1 .. Len(bridge))
      BY <1>1 DEF Overrides
    <3>2. QED
      BY <1>1, <1>3, <3>1, LastIsMember
  <2>2. ruling \in DOMAIN bridge /\ bridge[ruling].manual /\ bridge[ruling].instrument = instrument
    BY <2>1 DEF Overrides
  <2>3. ruling \in Active(bridge)
    <3> SUFFICES ASSUME ruling \notin Active(bridge) PROVE FALSE
      OBVIOUS
    <3>1. PICK j \in DOMAIN bridge : j > ruling /\ bridge[j].manual /\ bridge[j].instrument = bridge[ruling].instrument
      BY <2>2 DEF RowsOK, Ruled
    <3>2. j \in Overrides(instrument)
      BY <2>2, <3>1 DEF Overrides
    <3>3. QED
      BY <1>1, <2>1, <2>2, <3>1, <3>2
  <2>4. ASSUME NEW j \in Active(bridge), bridge[j].instrument = instrument,
               bridge[j].from <= day, day <= Until(bridge[j].to)
        PROVE  j = ruling
    <3>1. Overlaps(bridge[j].from, bridge[j].to, bridge[ruling].from, bridge[ruling].to)
      <4>1. j \in DOMAIN bridge
        BY DEF Active
      <4>2. /\ bridge[j].from \in Int /\ bridge[ruling].from \in Int /\ day \in Int
            /\ Until(bridge[j].to) \in Int /\ Until(bridge[ruling].to) \in Int
        BY <1>1, <2>2, <4>1, CallsAssumption DEF MappingOK, Dates, Until, Far
      <4>3. QED
        BY <1>3, <2>4, <4>2 DEF Overlaps
    <3>2. QED
      BY <2>2, <2>3, <2>4, <3>1 DEF RowsOK, Apart
  <2>5. ASSUME NEW s \in ResolveInstrument(instrument, day) PROVE s = bridge[ruling].sid
    BY <2>4 DEF ResolveInstrument
  <2>6. bridge[ruling].sid \in ResolveInstrument(instrument, day)
    BY <1>3, <2>2, <2>3 DEF ResolveInstrument
  <2>7. QED
    BY <2>5, <2>6
<1>4. QED
  BY <1>2, <1>3 DEF BridgeIsUnambiguous

LEMMA NextBridge == RowsOK(bridge) /\ [IdentityNext]_identityVars => RowsOK(bridge)'
<1> SUFFICES ASSUME RowsOK(bridge), [IdentityNext]_identityVars PROVE RowsOK(bridge')
  OBVIOUS
<1>1. ASSUME NEW batch \in Batches, IngestMappings(batch) PROVE RowsOK(bridge')
  <2>1. bridge' \in Mapped({bridge}, batch, DOMAIN batch)
    BY <1>1, FoldMaps DEF IngestMappings
  <2>2. QED
    BY <2>1, BatchKeeps
<1>2. ASSUME NEW policy, NEW dates, BuildUniverse(policy, dates) PROVE UNCHANGED bridge
  BY <1>2 DEF BuildUniverse
<1>3. ASSUME NEW snapshot, IngestSecurities(snapshot) PROVE UNCHANGED bridge
  BY <1>3 DEF IngestSecurities
<1>4. ASSUME UNCHANGED identityVars PROVE UNCHANGED bridge
  BY <1>4 DEF identityVars
<1>5. QED
  BY <1>1, <1>2, <1>3, <1>4 DEF IdentityNext

\* Whatever batches of mappings are ingested, in whatever order, the active mappings
\* of an instrument do not overlap, and on a day that its newest manual mapping covers
\* it resolves to the security named there (research_data/bridge.py:219).
THEOREM OneMappingADay ==
    IdentityInit /\ [][IdentityNext]_identityVars => []BridgeIsUnambiguous
<1>1. IdentityInit => RowsOK(bridge)
  <2> SUFFICES ASSUME bridge = << >> PROVE RowsOK(bridge)
    BY DEF IdentityInit
  <2>1. bridge \in Seq(Range(bridge)) /\ DOMAIN bridge = {}
    OBVIOUS
  <2>2. QED
    BY <2>1 DEF RowsOK, Apart, Ruled, Active
<1>2. QED
  BY <1>1, NextBridge, NewestManualDecides, PTL

-----------------------------------------------------------------------------
(* Snapshots: the rows of a checksum are frozen with it.                     *)

Fields == {"sid", "asOf", "entry", "exit", "total", "relative", "status"}

LEMMA OutcomeFields ==
    ASSUME NEW sid, NEW asOf, NEW entry, NEW exit, NEW total, NEW status
    PROVE  LET o == Outcome(sid, asOf, entry, exit, total, status)
           IN  /\ DOMAIN o = Fields
               /\ o.sid = sid /\ o.asOf = asOf /\ o.entry = entry /\ o.exit = exit
               /\ o.total = total /\ o.status = status
  BY DEF Outcome, Fields

\* Whatever is computed is about the security and the date asked for.
LEMMA ComputeIsAbout ==
    ASSUME NEW sid, NEW asOf, NEW version
    PROVE  LET c == Compute(sid, asOf, version)
           IN  DOMAIN c = Fields /\ c.sid = sid /\ c.asOf = asOf
<1> DEFINE c == Compute(sid, asOf, version)
<1>1. \E entry, exit, total, status : c = Outcome(sid, asOf, entry, exit, total, status)
  BY DEF Compute
<1> HIDE DEF c
<1>2. PICK entry, exit, total, status : c = Outcome(sid, asOf, entry, exit, total, status)
  BY <1>1
<1>3. QED
  BY <1>2, OutcomeFields DEF c

\* What _persist adds to an outcome.
Stamp(checksum, version, run, total) ==
    [checksum |-> checksum, version |-> version, run |-> run, column |-> Column(total)]

LEMMA Stamped ==
    ASSUME NEW c, DOMAIN c = Fields, NEW checksum, NEW version, NEW run
    PROVE  LET f == Over(Stamp(checksum, version, run, c.total), c)
           IN  /\ f.checksum = checksum /\ f.version = version /\ f.run = run /\ f.column = Column(c.total)
               /\ f.sid = c.sid /\ f.asOf = c.asOf /\ f.entry = c.entry /\ f.exit = c.exit
               /\ f.total = c.total /\ f.status = c.status
<1> DEFINE stamp == Stamp(checksum, version, run, c.total)
           f == Over(stamp, c)
<1>1. /\ DOMAIN stamp = {"checksum", "version", "run", "column"}
      /\ stamp.checksum = checksum /\ stamp.version = version /\ stamp.run = run
      /\ stamp.column = Column(c.total)
  BY DEF Stamp
<1> HIDE DEF stamp
<1>2. f = [ key \in DOMAIN stamp \union Fields |-> IF key \in DOMAIN stamp THEN stamp[key] ELSE c[key] ]
  BY DEF Over
<1> HIDE DEF f
<1>3. /\ f["checksum"] = stamp["checksum"] /\ f["version"] = stamp["version"] /\ f["run"] = stamp["run"]
      /\ f["column"] = stamp["column"]
  BY <1>1, <1>2
<1>4. \A key \in Fields : f[key] = c[key]
  BY <1>1, <1>2 DEF Fields
<1>5. QED
  BY <1>1, <1>3, <1>4 DEF Fields, f, stamp

\* A snapshot's rows give its checksum as they were computed, one for every
\* security and date.
Frozen(s, rows) ==
    LET own == { f \in rows : f.checksum = s.checksum }
    IN  /\ Payload(own) = s.checksum
        /\ \A sid \in Known, asOf \in AsOfs :
              \E f : { g \in own : g.sid = sid /\ g.asOf = asOf } = {f}

\* What a row keeps is what was computed for it, rounded.
Rounded(rows) == \A f \in rows : f.column = Column(f.total)

SnapshotInv == Rounded(forwards) /\ \A s \in snapshots : Frozen(s, forwards)

\* A total that rounds alike is printed alike before and after it is stored.
LEMMA PrintedAlike ==
    ASSUME NEW total, RoundsAlike(total)
    PROVE  Reprinted(Column(total)) = Printed(total)
<1>1. CASE total \in Int
  <2> DEFINE n == total \div 4
             r == total % 4
  <2>1. n \in Int /\ r \in 0 .. 3 /\ total = 4 * n + r /\ r # 2 /\ ~ (-2 < total /\ total < 0)
    BY <1>1 DEF RoundsAlike
  <2>2. HalfEven(total) = HalfAway(total) /\ HalfAway(total) = n + (IF r = 3 THEN 1 ELSE 0)
    BY <1>1, <2>1 DEF HalfEven, HalfAway
  <2> HIDE DEF n, r
  <2>3. n + (IF r = 3 THEN 1 ELSE 0) \in Int /\ (n + (IF r = 3 THEN 1 ELSE 0) < 0 <=> total < 0)
    <3>1. CASE r = 3
      BY <2>1, <3>1
    <3>2. CASE r # 3
      BY <2>1, <3>2
    <3>3. QED
      BY <3>1, <3>2
  <2>4. HalfAway(total) \in Int /\ (HalfAway(total) < 0 <=> total < 0)
    BY <2>2, <2>3
  <2>5. Minus(HalfAway(total)) = Minus(total)
    <3>1. CASE total < 0
      BY <2>4, <3>1, Zenon DEF Minus
    <3>2. CASE ~ (total < 0)
      BY <2>4, <3>2, Zenon DEF Minus
    <3>3. QED
      BY <3>1, <3>2
  <2>6. Column(total) = HalfAway(total) /\ Printed(total) = << Minus(total), HalfEven(total) >>
    BY <1>1 DEF Column, Printed
  <2>7. Reprinted(HalfAway(total)) = << Minus(HalfAway(total)), HalfAway(total) >>
    BY <2>4 DEF Reprinted
  <2>8. QED
    BY <2>2, <2>5, <2>6, <2>7
<1>2. CASE total \notin Int
  <2>1. Column(total) = Null /\ Printed(total) = Null
    BY <1>2 DEF Column, Printed
  <2>2. Reprinted(Null) = Null
    BY FeedsAssumption DEF Reprinted
  <2>3. QED
    BY <2>1, <2>2
<1>3. QED
  BY <1>1, <1>2

LEMMA FrozenVerify == SnapshotInv => SnapshotsVerify
<1> SUFFICES ASSUME SnapshotInv, NEW s \in snapshots
             PROVE  /\ (\A f \in RowsOf(s.checksum) : RoundsAlike(f.total)) => Rebuilt(s.checksum) = s.checksum
                    /\ \A sid \in Known, asOf \in AsOfs :
                         Cardinality({ f \in RowsOf(s.checksum) : f.sid = sid /\ f.asOf = asOf }) = 1
  BY DEF SnapshotsVerify
<1> DEFINE rows == RowsOf(s.checksum)
<1>1. Frozen(s, forwards) /\ rows = { f \in forwards : f.checksum = s.checksum }
  BY DEF SnapshotInv, RowsOf
<1>2. ASSUME \A f \in rows : RoundsAlike(f.total)
      PROVE  Rebuilt(s.checksum) = s.checksum
  <2>1. \A f \in rows : Reprinted(f.column) = Printed(f.total)
    <3>1. \A f \in rows : f.column = Column(f.total)
      BY <1>1 DEF SnapshotInv, Rounded
    <3>2. QED
      BY <1>2, <3>1, PrintedAlike
  <2>2. Payload(rows) = s.checksum
    BY <1>1 DEF Frozen
  <2> HIDE DEF rows
  <2>3. { << f.sid, f.asOf, f.status, Reprinted(f.column) >> : f \in rows } = Payload(rows)
    BY <2>1 DEF Payload
  <2>4. QED
    BY <2>2, <2>3 DEF Rebuilt, rows
<1>3. ASSUME NEW sid \in Known, NEW asOf \in AsOfs
      PROVE  Cardinality({ f \in rows : f.sid = sid /\ f.asOf = asOf }) = 1
  <2> DEFINE own == { g \in { f \in forwards : f.checksum = s.checksum } : g.sid = sid /\ g.asOf = asOf }
  <2>1. PICK f : own = {f}
    BY <1>1 DEF Frozen
  <2>2. { g \in rows : g.sid = sid /\ g.asOf = asOf } = own
    BY <1>1
  <2> HIDE DEF own
  <2>3. Cardinality(own) = 1
    BY <2>1, FS_Singleton
  <2>4. QED
    BY <2>2, <2>3
<1>4. QED
  BY <1>2, <1>3

LEMMA BuildKeepsSnapshots ==
    ASSUME SnapshotInv, NEW name, NEW version, BuildSnapshot(name, version)
    PROVE  SnapshotInv'
<1> DEFINE computed == { Compute(sid, asOf, version) : sid \in Known, asOf \in AsOfs }
           checksum == Payload(computed)
           rows == { Over(Stamp(checksum, version, runs + 1, c.total), c) : c \in computed }
           s1 == [name |-> name, checksum |-> checksum, version |-> version]
<1>1. /\ \A f \in forwards : f.checksum # checksum
      /\ forwards' = forwards \union rows
      /\ snapshots' = snapshots \union {s1}
  BY DEF BuildSnapshot, Persisted, Stamp
<1>2. \A c \in computed : DOMAIN c = Fields
  BY ComputeIsAbout
<1>3. \A c \in computed :
         LET f == Over(Stamp(checksum, version, runs + 1, c.total), c)
         IN  /\ f.checksum = checksum /\ f.column = Column(f.total)
             /\ f.sid = c.sid /\ f.asOf = c.asOf /\ f.total = c.total /\ f.status = c.status
  <2> HIDE DEF computed, checksum
  <2>1. QED
    BY <1>2, Stamped
<1>4. ASSUME NEW sid \in Known, NEW asOf \in AsOfs
      PROVE  \E c \in computed : \A d \in computed : (d.sid = sid /\ d.asOf = asOf) <=> d = c
  <2> DEFINE c == Compute(sid, asOf, version)
  <2>1. c \in computed /\ c.sid = sid /\ c.asOf = asOf
    BY ComputeIsAbout
  <2>2. ASSUME NEW d \in computed, d.sid = sid, d.asOf = asOf PROVE d = c
    <3>1. PICK s2 \in Known, a2 \in AsOfs : d = Compute(s2, a2, version)
      OBVIOUS
    <3>2. s2 = sid /\ a2 = asOf
      BY <2>2, <3>1, ComputeIsAbout
    <3>3. QED
      BY <3>1, <3>2
  <2> HIDE DEF c, computed
  <2>3. QED
    BY <2>1, <2>2
<1> HIDE DEF computed
<1>5. Payload(rows) = checksum
  <2>1. \A f \in rows : \E c \in computed :
            << f.sid, f.asOf, f.status, Printed(f.total) >> = << c.sid, c.asOf, c.status, Printed(c.total) >>
    BY <1>3
  <2>2. \A c \in computed : \E f \in rows :
            << f.sid, f.asOf, f.status, Printed(f.total) >> = << c.sid, c.asOf, c.status, Printed(c.total) >>
    BY <1>3
  <2> HIDE DEF rows
  <2>3. Payload(rows) = Payload(computed)
    BY <2>1, <2>2 DEF Payload
  <2>4. QED
    BY <2>3
<1>6. \A f \in rows : f.checksum = checksum
  BY <1>3
<1>7. \A f \in rows : f.column = Column(f.total)
  BY <1>3
<1>8. ASSUME NEW sid \in Known, NEW asOf \in AsOfs
      PROVE  \E f : { g \in rows : g.sid = sid /\ g.asOf = asOf } = {f}
  <2>1. PICK c \in computed : \A d \in computed : (d.sid = sid /\ d.asOf = asOf) <=> d = c
    BY <1>4
  <2> DEFINE f == Over(Stamp(checksum, version, runs + 1, c.total), c)
  <2>2. f \in rows /\ f.sid = sid /\ f.asOf = asOf
    BY <1>3, <2>1
  <2>3. ASSUME NEW g \in rows, g.sid = sid, g.asOf = asOf PROVE g = f
    <3>1. PICK d \in computed : g = Over(Stamp(checksum, version, runs + 1, d.total), d)
      OBVIOUS
    <3>2. d = c
      BY <1>3, <2>1, <2>3, <3>1
    <3>3. QED
      BY <3>1, <3>2
  <2> HIDE DEF f, rows
  <2>4. { g \in rows : g.sid = sid /\ g.asOf = asOf } = {f}
    BY <2>2, <2>3
  <2>5. QED
    BY <2>4
<1>9. checksum = {} => rows = {}
  BY DEF Payload
<1> HIDE DEF rows, checksum
<1>10. Frozen(s1, forwards')
  <2> DEFINE own == { f \in forwards' : f.checksum = s1.checksum }
  <2>0. s1.checksum = checksum
    OBVIOUS
  <2> HIDE DEF s1
  <2>1. own = rows
    BY <1>1, <1>6, <2>0
  <2> HIDE DEF own
  <2>2. /\ Payload(own) = s1.checksum
        /\ \A sid \in Known, asOf \in AsOfs : \E f : { g \in own : g.sid = sid /\ g.asOf = asOf } = {f}
    BY <1>5, <1>8, <2>0, <2>1
  <2>3. QED
    BY <2>2 DEF Frozen, own
<1>11. ASSUME NEW s \in snapshots PROVE Frozen(s, forwards')
  <2> DEFINE own == { f \in forwards : f.checksum = s.checksum }
             own1 == { f \in forwards' : f.checksum = s.checksum }
  <2>1. own1 = own
    <3>1. CASE s.checksum = checksum
      <4>1. own = {}
        BY <1>1, <3>1
      <4>2. Payload(own) = s.checksum
        BY DEF SnapshotInv, Frozen
      <4>3. checksum = {}
        BY <3>1, <4>1, <4>2 DEF Payload
      <4>4. QED
        BY <1>1, <1>9, <4>3
    <3>2. CASE s.checksum # checksum
      BY <1>1, <1>6, <3>2
    <3>3. QED
      BY <3>1, <3>2
  <2>2. /\ Payload(own) = s.checksum
        /\ \A sid \in Known, asOf \in AsOfs : \E f : { g \in own : g.sid = sid /\ g.asOf = asOf } = {f}
    BY DEF SnapshotInv, Frozen
  <2> HIDE DEF own
  <2>3. QED
    <3> HIDE DEF own1
    <3>1. /\ Payload(own1) = s.checksum
          /\ \A sid \in Known, asOf \in AsOfs : \E f : { g \in own1 : g.sid = sid /\ g.asOf = asOf } = {f}
      BY <2>1, <2>2
    <3>2. QED
      BY <3>1 DEF Frozen, own1
<1>12. Rounded(forwards')
  BY <1>1, <1>7 DEF SnapshotInv, Rounded
<1>13. QED
  BY <1>1, <1>10, <1>11, <1>12 DEF SnapshotInv

LEMMA NextSnapshotInv == SnapshotInv /\ [OutcomeNext]_outcomeVars => SnapshotInv'
<1> SUFFICES ASSUME SnapshotInv, [OutcomeNext]_outcomeVars PROVE SnapshotInv'
  OBVIOUS
<1>1. ASSUME NEW feed, IngestOutcomes(feed) PROVE UNCHANGED << forwards, snapshots >>
  BY <1>1 DEF IngestOutcomes
<1>2. ASSUME NEW version, BuildReturns(version) PROVE UNCHANGED << forwards, snapshots >>
  BY <1>2 DEF BuildReturns
<1>3. ASSUME UNCHANGED outcomeVars PROVE UNCHANGED << forwards, snapshots >>
  BY <1>3 DEF outcomeVars
<1>4. ASSUME UNCHANGED << forwards, snapshots >> PROVE SnapshotInv'
  BY <1>4 DEF SnapshotInv
<1>5. QED
  BY <1>1, <1>2, <1>3, <1>4, BuildKeepsSnapshots DEF OutcomeNext

\* The outcomes stored under a snapshot's checksum give that checksum again, whatever
\* is ingested, corrected or built afterwards, unless one of the snapshot's totals is
\* rounded differently for the checksum and for its column; and there is one for every
\* security and date (research_data/outcomes.py:484).
THEOREM FrozenSnapshotsVerify ==
    OutcomeInit /\ [][OutcomeNext]_outcomeVars => []SnapshotsVerify
<1>1. OutcomeInit => SnapshotInv
  BY DEF OutcomeInit, SnapshotInv, Rounded
<1>2. QED
  BY <1>1, NextSnapshotInv, FrozenVerify, PTL

-----------------------------------------------------------------------------
(* Daily returns: a return still fresh is what the bars give, and over a     *)
(* window the returns telescope.                                             *)

LEMMA BoundedMax ==
    ASSUME NEW S \in SUBSET Int, NEW x \in S, NEW b \in Int, \A y \in S : y <= b
    PROVE  Max(S) \in S /\ \A y \in S : y <= Max(S)
<1> DEFINE T == { y \in S : x <= y }
<1>1. T \in SUBSET (x .. b) /\ x \in T /\ T \subseteq Int
  <2>1. x \in Int /\ x <= x
    OBVIOUS
  <2>2. \A y \in T : y \in Int /\ x <= y /\ y <= b
    OBVIOUS
  <2>3. x \in T
    BY <2>1
  <2> HIDE DEF T
  <2>4. \A y \in T : y \in x .. b
    BY <2>1, <2>2
  <2>5. QED
    BY <2>2, <2>3, <2>4
<1>2. IsFiniteSet(x .. b)
  BY FS_Interval
<1>3. IsFiniteSet(T)
  BY <1>1, <1>2, FS_Subset
<1>4. Max(T) \in T /\ \A y \in T : y <= Max(T)
  <2> HIDE DEF T
  <2>1. QED
    BY <1>1, <1>3, HasMax
<1> DEFINE m == Max(T)
<1> HIDE DEF m
<1>5. m \in S /\ \A y \in S : m >= y
  <2>1. m \in T /\ \A y \in T : y <= m
    BY <1>4 DEF m
  <2>2. ASSUME NEW y \in S PROVE m >= y
    <3>1. CASE x <= y
      BY <2>1, <3>1
    <3>2. CASE ~ (x <= y)
      BY <2>1, <3>2
    <3>3. QED
      BY <3>1, <3>2
  <2>3. QED
    BY <2>1, <2>2
<1>6. \E k \in S : \A y \in S : k >= y
  BY <1>5
<1>7. Max(S) \in S /\ \A y \in S : Max(S) >= y
  BY <1>6, Zenon DEF Max
<1>8. QED
  BY <1>7

LEMMA BoundedMin ==
    ASSUME NEW S \in SUBSET Int, NEW x \in S, NEW b \in Int, \A y \in S : b <= y
    PROVE  Min(S) \in S /\ \A y \in S : Min(S) <= y
<1> DEFINE N == { k \in Nat : b + k \in S }
           Bad == { k \in N : \A j \in N : k <= j => \E i \in N : i < j }
<1>1. x - b \in N
  OBVIOUS
<1>2. \E k \in N : \A j \in N : k <= j
  <2> SUFFICES ASSUME \A k \in N : \E j \in N : ~ (k <= j) PROVE FALSE
    OBVIOUS
  <2>1. N \in SUBSET Nat
    OBVIOUS
  <2>2. \A k \in N : \E j \in N : j < k
    BY <2>1
  <2> HIDE DEF N
  <2>3. N = {}
    BY <2>1, <2>2, NumberDescent
  <2>4. QED
    BY <1>1, <2>3
<1>3. PICK k \in N : \A j \in N : k <= j
  BY <1>2
<1>4. b + k \in S /\ \A y \in S : b + k <= y
  <2>1. ASSUME NEW y \in S PROVE b + k <= y
    <3>1. y - b \in Nat /\ b + (y - b) = y
      OBVIOUS
    <3>2. y - b \in N
      BY <3>1
    <3>3. k <= y - b
      BY <1>3, <3>2
    <3>4. QED
      BY <3>3
  <2>2. QED
    BY <2>1
<1>5. \E m \in S : \A y \in S : m <= y
  BY <1>4
<1>6. QED
  BY <1>5, Zenon DEF Min

-----------------------------------------------------------------------------
BarKey(sid, date, version) == [sid |-> sid, date |-> date, version |-> version]

\* The dates of a security's bars in the table b.
DatesIn(b, sid, version) ==
    { key.date : key \in { k \in DOMAIN b : k.sid = sid /\ k.version = version } }

\* Bars were written by runs until n.
BarsOK(b, n) ==
    \A key \in DOMAIN b :
        /\ key = BarKey(key.sid, key.date, key.version) /\ key.date \in Int
        /\ b[key].level \in Int \union {Null}
        /\ b[key].run \in Nat /\ b[key].run <= n

LEMMA DateHasBar ==
    ASSUME NEW b, NEW n, BarsOK(b, n), NEW sid, NEW version, NEW d
    PROVE  d \in DatesIn(b, sid, version) <=> BarKey(sid, d, version) \in DOMAIN b
<1>1. ASSUME d \in DatesIn(b, sid, version) PROVE BarKey(sid, d, version) \in DOMAIN b
  <2>1. PICK k \in DOMAIN b : k.sid = sid /\ k.version = version /\ k.date = d
    BY <1>1 DEF DatesIn
  <2>2. k = BarKey(k.sid, k.date, k.version)
    BY DEF BarsOK
  <2>3. QED
    BY <2>1, <2>2
<1>2. ASSUME BarKey(sid, d, version) \in DOMAIN b PROVE d \in DatesIn(b, sid, version)
  BY <1>2 DEF DatesIn, BarKey
<1>3. QED
  BY <1>1, <1>2

\* The row of the daily returns is the difference of the bar's level and the one before.
Taken(b, key, row) ==
    \/ row.total = Null
    \/ \E p \in DatesIn(b, key.sid, key.version) :
          /\ p < key.date
          /\ \A d \in DatesIn(b, key.sid, key.version) : d < key.date => d <= p
          /\ b[BarKey(key.sid, p, key.version)].level \in Int /\ b[key].level \in Int
          /\ row.total = b[key].level - b[BarKey(key.sid, p, key.version)].level

\* Nothing of the version, and no terminal, was ingested in run or later.
Fresh(b, t, version, run) ==
    /\ \A key \in DOMAIN b : key.version = version => b[key].run < run
    /\ \A sid \in DOMAIN t : t[sid].run < run

Ends(t, key) == key.sid \in DOMAIN t /\ t[key.sid].date = key.date

\* A daily return that is still fresh is what the bars of today give.
ReturnsOK(b, t, r, n) ==
    \A key \in DOMAIN r :
        /\ r[key].run \in Nat /\ r[key].run <= n
        /\ key \in DOMAIN b /\ Fresh(b, t, key.version, r[key].run) /\ ~ Ends(t, key) => Taken(b, key, r[key])

\* An outcome spans two bars with prices.
Spanned(b, f) ==
    /\ f.entry \in Int /\ f.exit \in Int /\ f.entry <= f.exit
    /\ BarKey(f.sid, f.entry, f.version) \in DOMAIN b /\ BarKey(f.sid, f.exit, f.version) \in DOMAIN b
    /\ b[BarKey(f.sid, f.entry, f.version)].level \in Int
    /\ b[BarKey(f.sid, f.exit, f.version)].level \in Int
    /\ f.total = b[BarKey(f.sid, f.exit, f.version)].level - b[BarKey(f.sid, f.entry, f.version)].level

\* No terminal event falls within the outcome's window.
Clear(t, f) ==
    f.sid \in DOMAIN t => \A d \in Int : f.entry < d /\ d <= f.exit => t[f.sid].date # d

Plain(f) == f.status \in {"normal", "truncated"}

ForwardsOK(b, t, fs, n) ==
    \A f \in fs :
        /\ f.run \in Nat /\ f.run <= n
        /\ Plain(f) => Spanned(b, f)
        /\ Plain(f) /\ (\A sid \in DOMAIN t : t[sid].run < f.run) => Clear(t, f)

TerminalsOK(t, n) == \A sid \in DOMAIN t : t[sid].run \in Nat /\ t[sid].run <= n

ReturnInv ==
    /\ runs \in Nat
    /\ BarsOK(bars, runs)
    /\ TerminalsOK(terminals, runs)
    /\ ReturnsOK(bars, terminals, returns, runs)
    /\ ForwardsOK(bars, terminals, forwards, runs)

-----------------------------------------------------------------------------
\* Bars are added, and never replaced.
LEMMA IngestKeeps ==
    ASSUME ReturnInv, NEW feed \in Feeds, IngestOutcomes(feed)
    PROVE  ReturnInv'
<1> DEFINE run == runs + 1
           new == Bars(feed, run)
           term == Terminal(feed, run)
           b == bars
           b1 == bars'
           t == terminals
           t1 == terminals'
<1>1. /\ run \in Nat /\ runs < run /\ runs' = run
      /\ DOMAIN new \intersect DOMAIN b = {}
      /\ b1 = Over(new, b) /\ t1 = Over(term, t)
      /\ returns' = returns /\ forwards' = forwards
  BY DEF IngestOutcomes, ReturnInv
<1>2. \A key \in DOMAIN new :
        /\ key = BarKey(key.sid, key.date, key.version) /\ key.date \in Int
        /\ key.version = feed.version
        /\ new[key].level \in Int \union {Null} /\ new[key].run = run
  <2> SUFFICES ASSUME NEW key \in DOMAIN new
               PROVE  /\ key = BarKey(key.sid, key.date, key.version) /\ key.date \in Int
                      /\ key.version = feed.version
                      /\ new[key].level \in Int \union {Null} /\ new[key].run = run
    OBVIOUS
  <2>1. PICK x \in DOMAIN feed.bars : key = [sid |-> x[1], date |-> x[2], version |-> feed.version]
    BY DEF Bars
  <2>2. << key.sid, key.date >> = x
    BY <2>1, FeedsAssumption
  <2>3. new[key] = [level |-> feed.bars[<< key.sid, key.date >>].level,
                    split |-> feed.bars[<< key.sid, key.date >>].split, run |-> run]
    BY DEF Bars
  <2> HIDE DEF new
  <2>4. new[key].level = feed.bars[x].level /\ new[key].run = run
    BY <2>2, <2>3
  <2>5. key.date = x[2]
    BY <2>1
  <2>6. QED
    BY <2>1, <2>4, <2>5, FeedsAssumption DEF BarKey
<1>3. \A sid \in DOMAIN term : term[sid].run = run
  BY DEF Terminal
<1>4. /\ DOMAIN b1 = DOMAIN new \union DOMAIN b
      /\ \A key \in DOMAIN new : b1[key] = new[key]
      /\ \A key \in DOMAIN b : b1[key] = b[key]
      /\ DOMAIN t1 = DOMAIN term \union DOMAIN t
      /\ \A sid \in DOMAIN term : t1[sid] = term[sid]
      /\ \A sid \in (DOMAIN t) \ (DOMAIN term) : t1[sid] = t[sid]
  <2> HIDE DEF new, term, b, b1, t, t1
  <2>1. /\ DOMAIN b1 = DOMAIN new \union DOMAIN b
        /\ \A key \in DOMAIN new : b1[key] = new[key]
        /\ \A key \in (DOMAIN b) \ (DOMAIN new) : b1[key] = b[key]
    <3>1. b1 = Over(new, b)
      BY <1>1
    <3>2. QED
      BY <3>1 DEF Over
  <2>2. \A key \in DOMAIN b : key \notin DOMAIN new
    BY <1>1
  <2>3. /\ DOMAIN t1 = DOMAIN term \union DOMAIN t
        /\ \A sid \in DOMAIN term : t1[sid] = term[sid]
        /\ \A sid \in (DOMAIN t) \ (DOMAIN term) : t1[sid] = t[sid]
    <3>1. t1 = Over(term, t)
      BY <1>1
    <3>2. QED
      BY <3>1 DEF Over
  <2>4. QED
    BY <2>1, <2>2, <2>3
<1>5. /\ runs \in Nat /\ BarsOK(b, runs) /\ TerminalsOK(t, runs)
      /\ ReturnsOK(b, t, returns, runs) /\ ForwardsOK(b, t, forwards, runs)
  BY DEF ReturnInv
<1> HIDE DEF run, new, term, b, b1, t, t1
<1>6. BarsOK(b1, run)
  BY <1>1, <1>2, <1>4, <1>5 DEF BarsOK
<1>7. TerminalsOK(t1, run)
  BY <1>1, <1>3, <1>4, <1>5 DEF TerminalsOK
<1>8. ASSUME NEW r \in Nat, r <= runs, \A sid \in DOMAIN t1 : t1[sid].run < r
      PROVE  DOMAIN t1 = DOMAIN t /\ \A sid \in DOMAIN t : t1[sid] = t[sid]
  <2>1. DOMAIN term = {}
    <3> SUFFICES ASSUME NEW sid \in DOMAIN term PROVE FALSE
      OBVIOUS
    <3>1. t1[sid].run = run /\ t1[sid].run < r
      BY <1>3, <1>4, <1>8
    <3>2. run \in Nat /\ runs \in Nat /\ runs < run
      BY <1>1, <1>5
    <3>3. QED
      BY <1>8, <3>1, <3>2
  <2>2. QED
    BY <1>4, <2>1
<1>9. ReturnsOK(b1, t1, returns, run)
  <2> SUFFICES ASSUME NEW key \in DOMAIN returns
               PROVE  /\ returns[key].run \in Nat /\ returns[key].run <= run
                      /\ key \in DOMAIN b1 /\ Fresh(b1, t1, key.version, returns[key].run) /\ ~ Ends(t1, key)
                         => Taken(b1, key, returns[key])
    BY DEF ReturnsOK
  <2>1. returns[key].run \in Nat /\ returns[key].run <= runs
    BY <1>5 DEF ReturnsOK
  <2>2. ASSUME key \in DOMAIN b1, Fresh(b1, t1, key.version, returns[key].run), ~ Ends(t1, key)
        PROVE  Taken(b1, key, returns[key])
    <3>1. DOMAIN t1 = DOMAIN t /\ \A sid \in DOMAIN t : t1[sid] = t[sid]
      BY <1>8, <2>1, <2>2 DEF Fresh
    <3>2. \A k \in DOMAIN new : k.version # key.version
      BY <1>1, <1>2, <1>4, <1>5, <2>1, <2>2 DEF Fresh
    <3>3. key \in DOMAIN b
      BY <1>4, <2>2, <3>2
    <3>4. Fresh(b, t, key.version, returns[key].run) /\ ~ Ends(t, key)
      BY <1>4, <2>2, <3>1 DEF Fresh, Ends
    <3>5. Taken(b, key, returns[key])
      BY <1>5, <3>3, <3>4 DEF ReturnsOK
    <3>6. DatesIn(b1, key.sid, key.version) = DatesIn(b, key.sid, key.version)
      BY <1>4, <3>2 DEF DatesIn
    <3>7. \A p \in DatesIn(b, key.sid, key.version) :
              b1[BarKey(key.sid, p, key.version)] = b[BarKey(key.sid, p, key.version)]
      BY <1>4, <1>5, DateHasBar
    <3>8. b1[key] = b[key]
      BY <1>4, <3>3
    <3>9. QED
      BY <3>5, <3>6, <3>7, <3>8 DEF Taken
  <2>3. QED
    BY <1>1, <1>5, <2>1, <2>2
<1>10. ForwardsOK(b1, t1, forwards, run)
  <2> SUFFICES ASSUME NEW f \in forwards
               PROVE  /\ f.run \in Nat /\ f.run <= run
                      /\ Plain(f) => Spanned(b1, f)
                      /\ Plain(f) /\ (\A sid \in DOMAIN t1 : t1[sid].run < f.run) => Clear(t1, f)
    BY DEF ForwardsOK
  <2>1. f.run \in Nat /\ f.run <= runs
    BY <1>5 DEF ForwardsOK
  <2>2. Plain(f) => Spanned(b1, f)
    BY <1>4, <1>5 DEF ForwardsOK, Spanned
  <2>3. ASSUME Plain(f), \A sid \in DOMAIN t1 : t1[sid].run < f.run PROVE Clear(t1, f)
    <3>1. DOMAIN t1 = DOMAIN t /\ \A sid \in DOMAIN t : t1[sid] = t[sid]
      BY <1>8, <2>1, <2>3
    <3>2. Clear(t, f)
      BY <1>5, <2>3, <3>1 DEF ForwardsOK
    <3>3. QED
      BY <3>1, <3>2 DEF Clear
  <2>4. QED
    BY <1>1, <1>5, <2>1, <2>2, <2>3
<1>11. QED
  BY <1>1, <1>6, <1>7, <1>9, <1>10 DEF ReturnInv, b1, t1

LEMMA ReturnIsTaken ==
    ASSUME NEW n, BarsOK(bars, n), NEW key \in DOMAIN bars, NEW run
    PROVE  Taken(bars, key, BarReturn(key, run))
<1> DEFINE dates == DatesIn(bars, key.sid, key.version)
           p == Previous(key)
           row == BarReturn(key, run)
<1>1. key = BarKey(key.sid, key.date, key.version) /\ key.date \in Int
  BY DEF BarsOK
<1>2. Earlier(key) = { d \in dates : d < key.date }
  BY DEF Earlier, BarDates, DatesIn
<1>3. \A d \in dates : d \in Int /\ BarKey(key.sid, d, key.version) \in DOMAIN bars
  <2>1. ASSUME NEW d \in dates PROVE d \in Int /\ BarKey(key.sid, d, key.version) \in DOMAIN bars
    <3>1. BarKey(key.sid, d, key.version) \in DOMAIN bars
      BY DateHasBar
    <3>2. BarKey(key.sid, d, key.version).date = d
      BY DEF BarKey
    <3>3. QED
      BY <3>1, <3>2 DEF BarsOK
  <2>2. QED
    BY <2>1
<1>4. CASE Earlier(key) = {}
  <2>1. row.total = Null
    BY <1>4 DEF BarReturn
  <2>2. QED
    BY <2>1 DEF Taken
<1>5. CASE Earlier(key) # {}
  <2>1. p \in Earlier(key) /\ \A d \in Earlier(key) : d <= p
    <3>1. PICK x \in Earlier(key) : TRUE
      BY <1>5
    <3>2. Earlier(key) \in SUBSET Int /\ \A d \in Earlier(key) : d <= key.date
      BY <1>1, <1>2, <1>3
    <3>3. QED
      BY <1>1, <3>1, <3>2, BoundedMax DEF Previous
  <2> DEFINE before == Bar(key.sid, p, key.version)
  <2>2. before = bars[BarKey(key.sid, p, key.version)]
    BY DEF Bar, BarKey
  <2>3. CASE before.level = Null \/ bars[key].level = Null
    <3>1. row.total = Null
      BY <1>5, <2>3 DEF BarReturn
    <3>2. QED
      BY <3>1 DEF Taken
  <2>4. CASE ~ (before.level = Null \/ bars[key].level = Null)
    <3>1. row.total = bars[key].level - before.level
      BY <1>5, <2>4 DEF BarReturn
    <3>2. p \in dates /\ p < key.date /\ \A d \in dates : d < key.date => d <= p
      BY <1>2, <2>1
    <3>3. bars[key].level \in Int /\ before.level \in Int
      <4>1. BarKey(key.sid, p, key.version) \in DOMAIN bars
        BY <1>3, <3>2
      <4>2. QED
        BY <2>2, <2>4, <4>1 DEF BarsOK
    <3> HIDE DEF before, p, row
    <3>4. QED
      BY <2>2, <3>1, <3>2, <3>3 DEF Taken, row
  <2>5. QED
    BY <2>3, <2>4
<1>6. QED
  BY <1>4, <1>5

\* Only the total of a row matters here, not the run that wrote it.
LEMMA BuildReturnsKeeps ==
    ASSUME ReturnInv, NEW version, BuildReturns(version)
    PROVE  ReturnInv'
<1> DEFINE run == runs + 1
           ofBars == [ key \in { k \in DOMAIN bars : k.version = version } |-> BarReturn(key, run) ]
           ofTerminals ==
             [ key \in { [sid |-> s, date |-> terminals[s].date, version |-> version] :
                            s \in DOMAIN terminals } |-> TerminalReturn(key.sid, run) ]
           r1 == returns'
<1>1. /\ run \in Nat /\ runs < run /\ runs' = run
      /\ r1 = Over(ofTerminals, Over(ofBars, returns))
      /\ bars' = bars /\ terminals' = terminals /\ forwards' = forwards
  BY DEF BuildReturns, ReturnInv
<1>2. /\ DOMAIN ofBars = { k \in DOMAIN bars : k.version = version }
      /\ \A key \in DOMAIN ofBars :
            /\ ofBars[key] = BarReturn(key, run)
            /\ ofBars[key].run = run
  <2>1. \A key : BarReturn(key, run).run = run
    BY DEF BarReturn
  <2>2. QED
    BY <2>1
<1>3. \A key \in DOMAIN ofTerminals : ofTerminals[key].run = run /\ Ends(terminals, key)
  <2>1. \A sid : TerminalReturn(sid, run).run = run
    BY DEF TerminalReturn
  <2>2. QED
    BY <2>1 DEF Ends
<1>4. /\ runs \in Nat /\ BarsOK(bars, runs) /\ TerminalsOK(terminals, runs)
      /\ ReturnsOK(bars, terminals, returns, runs) /\ ForwardsOK(bars, terminals, forwards, runs)
  BY DEF ReturnInv
<1> HIDE DEF run, ofBars, ofTerminals, r1
<1>5. \A key \in DOMAIN r1 :
         \/ key \in DOMAIN ofTerminals /\ r1[key] = ofTerminals[key]
         \/ key \in DOMAIN ofBars /\ r1[key] = ofBars[key]
         \/ /\ key \in DOMAIN returns /\ key \notin DOMAIN ofBars
            /\ r1[key] = returns[key]
  BY <1>1 DEF Over
<1>6. ReturnsOK(bars, terminals, r1, run)
  <2> SUFFICES ASSUME NEW key \in DOMAIN r1
               PROVE  /\ r1[key].run \in Nat /\ r1[key].run <= run
                      /\ key \in DOMAIN bars /\ ~ Ends(terminals, key) /\ Fresh(bars, terminals, key.version, r1[key].run)
                         => Taken(bars, key, r1[key])
    BY DEF ReturnsOK
  <2>1. CASE key \in DOMAIN ofTerminals /\ r1[key] = ofTerminals[key]
    BY <1>1, <1>3, <2>1
  <2>2. CASE key \in DOMAIN ofBars /\ r1[key] = ofBars[key]
    <3>1. key \in DOMAIN bars /\ r1[key] = BarReturn(key, run) /\ r1[key].run = run
      BY <1>2, <2>2
    <3>2. Taken(bars, key, r1[key])
      BY <1>4, <3>1, ReturnIsTaken
    <3>3. QED
      BY <1>1, <3>1, <3>2
  <2>3. CASE key \in DOMAIN returns /\ r1[key] = returns[key]
    <3>1. returns[key].run \in Nat /\ returns[key].run <= runs
      BY <1>4, <2>3 DEF ReturnsOK
    <3>2. returns[key].run <= run
      BY <1>1, <1>4, <3>1
    <3>3. QED
      BY <1>4, <2>3, <3>1, <3>2 DEF ReturnsOK
  <2>4. QED
    BY <1>5, <2>1, <2>2, <2>3
<1>7. BarsOK(bars, run) /\ TerminalsOK(terminals, run) /\ ForwardsOK(bars, terminals, forwards, run)
  <2>1. BarsOK(bars, run)
    BY <1>1, <1>4 DEF BarsOK
  <2>2. TerminalsOK(terminals, run)
    BY <1>1, <1>4 DEF TerminalsOK
  <2>3. ForwardsOK(bars, terminals, forwards, run)
    <3>1. \A f \in forwards : f.run \in Nat /\ f.run <= run
      BY <1>1, <1>4 DEF ForwardsOK
    <3>2. QED
      BY <1>4, <3>1 DEF ForwardsOK
  <2>4. QED
    BY <2>1, <2>2, <2>3
<1>8. QED
  BY <1>1, <1>6, <1>7 DEF ReturnInv, r1

\* A normal outcome is taken between bars with prices, and no terminal ended it.
LEMMA ComputeSpans ==
    ASSUME NEW n, BarsOK(bars, n), NEW sid, NEW asOf \in AsOfs, NEW version,
           Plain(Compute(sid, asOf, version)), InOrder(Compute(sid, asOf, version))
    PROVE  LET c == Compute(sid, asOf, version)
               f == [sid |-> sid, version |-> version, entry |-> c.entry, exit |-> c.exit, total |-> c.total]
           IN  Spanned(bars, f) /\ Clear(terminals, f)
<1> DEFINE c == Compute(sid, asOf, version)
           target == asOf + Horizon
           dates == DatesIn(bars, sid, version)
           Level(d) == Bar(sid, d, version).level
           priced == { d \in dates : d <= target /\ Level(d) # Null }
           later == { d \in dates : d >= asOf }
           entry == Min(later)
           exit == IF priced = {} THEN entry ELSE Max(priced)
           f == [sid |-> sid, version |-> version, entry |-> c.entry, exit |-> c.exit, total |-> c.total]
           ends == sid \in DOMAIN terminals /\ terminals[sid].date \in entry .. target
           status == IF Max(dates) < target /\ sid \notin DOMAIN terminals THEN "truncated" ELSE "normal"
<1>0. asOf \in Int /\ target \in Int
  BY FeedsAssumption, RunsAssumption
<1>1. /\ later # {} /\ Level(entry) # Null /\ ~ ends
      /\ c = Outcome(sid, asOf, entry, exit, Level(exit) - Level(entry), status)
  <2>1. BarDates(sid, version) = dates
    BY DEF BarDates, DatesIn
  <2>2. \A e, x, t, s : Outcome(sid, asOf, e, x, t, s).status = s
    BY DEF Outcome
  <2>3. c.status \in {"normal", "truncated"}
    BY DEF Plain
  <2> HIDE DEF dates
  <2>4. later # {}
    <3>1. CASE later = {}
      <4>1. c = Outcome(sid, asOf, Null, Null, Null, "no_entry_price")
        BY <2>1, <3>1 DEF Compute
      <4>2. QED
        BY <2>2, <2>3, <4>1
    <3>2. QED
      BY <3>1
  <2>5. Level(entry) # Null
    <3>1. CASE Level(entry) = Null
      <4>1. c = Outcome(sid, asOf, Null, Null, Null, "no_entry_price")
        BY <2>1, <3>1 DEF Compute
      <4>2. QED
        BY <2>2, <2>3, <4>1
    <3>2. QED
      BY <3>1
  <2>6. ~ ends
    <3> SUFFICES ASSUME ends PROVE FALSE
      OBVIOUS
    <3>1. \E x, t, s : c = Outcome(sid, asOf, entry, x, t, s) /\ s \in {"unresolved", "terminated", "delisted_in_window"}
      BY <2>1, <2>4, <2>5 DEF Compute
    <3>2. QED
      BY <2>2, <2>3, <3>1
  <2>7. QED
    BY <2>1, <2>4, <2>5, <2>6 DEF Compute
<1>2. c.entry = entry /\ c.exit = exit /\ c.total = Level(exit) - Level(entry)
  <2> HIDE DEF c, entry, exit, Level, status
  <2>1. QED
    BY <1>1, OutcomeFields
<1>3. \A d \in dates : /\ d \in Int /\ BarKey(sid, d, version) \in DOMAIN bars
                       /\ Level(d) = bars[BarKey(sid, d, version)].level
                       /\ Level(d) \in Int \union {Null}
  <2> SUFFICES ASSUME NEW d \in dates
               PROVE  /\ d \in Int /\ BarKey(sid, d, version) \in DOMAIN bars
                      /\ Level(d) = bars[BarKey(sid, d, version)].level
                      /\ Level(d) \in Int \union {Null}
    OBVIOUS
  <2>1. BarKey(sid, d, version) \in DOMAIN bars
    BY DateHasBar
  <2>2. BarKey(sid, d, version).date = d
    BY DEF BarKey
  <2>3. Level(d) = bars[BarKey(sid, d, version)].level
    BY DEF Bar, BarKey
  <2>4. QED
    BY <2>1, <2>2, <2>3 DEF BarsOK
<1> HIDE DEF Level, dates
<1>4. entry \in dates
  <2>1. later \in SUBSET Int /\ \A d \in later : asOf <= d
    BY <1>0, <1>3
  <2>2. PICK x \in later : TRUE
    BY <1>1
  <2>3. entry \in later
    <3> HIDE DEF later
    <3>1. QED
      BY <1>0, <2>1, <2>2, BoundedMin
  <2>4. QED
    BY <2>3
<1>5. exit = entry \/ (exit \in dates /\ exit <= target /\ Level(exit) # Null)
  <2>1. CASE priced = {}
    BY <2>1
  <2>2. CASE priced # {}
    <3>1. priced \in SUBSET Int /\ \A d \in priced : d <= target
      BY <1>0, <1>3
    <3>2. PICK x \in priced : TRUE
      BY <2>2
    <3>3. Max(priced) \in priced
      <4> HIDE DEF priced
      <4>1. QED
        BY <1>0, <3>1, <3>2, BoundedMax
    <3>4. exit \in priced
      BY <2>2, <3>3
    <3>5. QED
      BY <3>4
  <2>3. QED
    BY <2>1, <2>2
<1> HIDE DEF entry, exit, priced, later
<1>6. /\ entry \in Int /\ exit \in Int /\ exit \in dates
      /\ Level(entry) \in Int /\ Level(exit) \in Int
  BY <1>1, <1>3, <1>4, <1>5
<1>7. entry <= exit
  <2>1. c.exit # Null /\ c.entry # Null
    BY <1>2, <1>6, FeedsAssumption
  <2>2. QED
    BY <1>2, <1>6, <2>1 DEF InOrder
<1>8. /\ f.sid = sid /\ f.version = version /\ f.entry = entry /\ f.exit = exit
      /\ f.total = Level(exit) - Level(entry)
  BY <1>2
<1> HIDE DEF f
<1>9. Spanned(bars, f)
  <2>1. /\ BarKey(sid, entry, version) \in DOMAIN bars /\ BarKey(sid, exit, version) \in DOMAIN bars
        /\ bars[BarKey(sid, entry, version)].level = Level(entry)
        /\ bars[BarKey(sid, exit, version)].level = Level(exit)
    BY <1>3, <1>4, <1>6
  <2>2. QED
    BY <1>6, <1>7, <1>8, <2>1 DEF Spanned
<1>10. Clear(terminals, f)
  <2> SUFFICES ASSUME sid \in DOMAIN terminals, NEW d \in Int, entry < d, d <= exit
               PROVE  terminals[sid].date # d
    BY <1>8 DEF Clear
  <2>1. exit <= target
    BY <1>5, <1>6
  <2>2. d \in entry .. target
    BY <1>0, <1>6, <2>1
  <2>3. QED
    BY <1>1, <2>2
<1>11. QED
  BY <1>9, <1>10 DEF f

LEMMA BuildSnapshotKeeps ==
    ASSUME ReturnInv, NEW name, NEW version, BuildSnapshot(name, version)
    PROVE  ReturnInv'
<1> DEFINE run == runs + 1
           computed == { Compute(sid, asOf, version) : sid \in Known, asOf \in AsOfs }
           checksum == Payload(computed)
           rows == { Over(Stamp(checksum, version, run, c.total), c) : c \in computed }
<1>1. /\ run \in Nat /\ runs < run /\ runs' = run
      /\ forwards' = forwards \union rows
      /\ bars' = bars /\ terminals' = terminals /\ returns' = returns
      /\ \A c \in computed : InOrder(c)
  BY DEF BuildSnapshot, Persisted, Stamp, ReturnInv
<1>2. /\ runs \in Nat /\ BarsOK(bars, runs) /\ TerminalsOK(terminals, runs)
      /\ ReturnsOK(bars, terminals, returns, runs) /\ ForwardsOK(bars, terminals, forwards, runs)
  BY DEF ReturnInv
<1>3. ASSUME NEW f \in rows
      PROVE  /\ f.run = run
             /\ Plain(f) => Spanned(bars, f) /\ Clear(terminals, f)
  <2>0. PICK o \in computed : f = Over(Stamp(checksum, version, run, o.total), o)
    <3> HIDE DEF checksum, computed
    <3>1. QED
      OBVIOUS
  <2>7. PICK sid \in Known, asOf \in AsOfs : o = Compute(sid, asOf, version)
    OBVIOUS
  <2>1. f = Over(Stamp(checksum, version, run, Compute(sid, asOf, version).total), Compute(sid, asOf, version))
    BY <2>0, <2>7
  <2> DEFINE c == Compute(sid, asOf, version)
             g == [sid |-> sid, version |-> version, entry |-> c.entry, exit |-> c.exit, total |-> c.total]
  <2>2. InOrder(c)
    BY <1>1, <2>7
  <2>3. DOMAIN c = Fields /\ c.sid = sid
    BY ComputeIsAbout
  <2> HIDE DEF checksum
  <2>4. /\ f.version = version /\ f.run = run /\ f.sid = c.sid /\ f.entry = c.entry /\ f.exit = c.exit
        /\ f.total = c.total /\ f.status = c.status
    BY <2>1, <2>3, Stamped
  <2>5. CASE Plain(f)
    <3>1. Plain(c)
      BY <2>4, <2>5 DEF Plain
    <3>2. Spanned(bars, g) /\ Clear(terminals, g)
      BY <1>2, <2>2, <3>1, ComputeSpans
    <3>3. /\ f.sid = g.sid /\ f.version = g.version /\ f.entry = g.entry /\ f.exit = g.exit /\ f.total = g.total
      BY <2>3, <2>4
    <3> HIDE DEF g
    <3>4. Spanned(bars, f)
      BY <3>2, <3>3 DEF Spanned
    <3>5. Clear(terminals, f)
      BY <3>2, <3>3 DEF Clear
    <3>6. QED
      BY <2>4, <3>4, <3>5
  <2>6. QED
    BY <2>4, <2>5
<1> HIDE DEF run, rows, computed, checksum
<1>4. ForwardsOK(bars, terminals, forwards \union rows, run)
  <2>1. \A f \in forwards : f.run \in Nat /\ f.run <= run
    BY <1>1, <1>2 DEF ForwardsOK
  <2>2. QED
    BY <1>1, <1>2, <1>3, <2>1 DEF ForwardsOK
<1>5. BarsOK(bars, run) /\ TerminalsOK(terminals, run) /\ ReturnsOK(bars, terminals, returns, run)
  <2>1. BarsOK(bars, run)
    BY <1>1, <1>2 DEF BarsOK
  <2>2. TerminalsOK(terminals, run)
    BY <1>1, <1>2 DEF TerminalsOK
  <2>3. \A key \in DOMAIN returns : returns[key].run \in Nat /\ returns[key].run <= run
    BY <1>1, <1>2 DEF ReturnsOK
  <2>4. ReturnsOK(bars, terminals, returns, run)
    BY <1>2, <2>3 DEF ReturnsOK
  <2>5. QED
    BY <2>1, <2>2, <2>4
<1>6. QED
  BY <1>1, <1>4, <1>5 DEF ReturnInv

LEMMA InitReturnInv == OutcomeInit => ReturnInv
  BY DEF OutcomeInit, Nothing, ReturnInv, BarsOK, TerminalsOK, ReturnsOK, ForwardsOK

LEMMA NextReturnInv == ReturnInv /\ [OutcomeNext]_outcomeVars => ReturnInv'
<1> SUFFICES ASSUME ReturnInv, [OutcomeNext]_outcomeVars PROVE ReturnInv'
  OBVIOUS
<1>1. ASSUME UNCHANGED outcomeVars PROVE ReturnInv'
  BY <1>1 DEF outcomeVars, ReturnInv
<1>2. QED
  BY <1>1, IngestKeeps, BuildReturnsKeeps, BuildSnapshotKeeps DEF OutcomeNext

-----------------------------------------------------------------------------
(* Compounding from bar to bar telescopes. *)

\* dates without those after x, or until entry
Within(dates, entry, x) == { d \in dates : entry < d /\ d <= x }

\* The total of each day within is the level's difference to the date before.
Stepwise(dates, entry, exit, level, total) ==
    \A d \in Within(dates, entry, exit) :
        \E p \in dates : /\ p < d /\ \A q \in dates : q < d => q <= p
                         /\ level[p] \in Int /\ level[d] \in Int /\ total[d] = level[d] - level[p]

LEMMA Telescope ==
    ASSUME NEW dates \in SUBSET Int, NEW entry \in dates, NEW exit \in dates, entry <= exit,
           NEW level, NEW total,
           level[entry] \in Int, Stepwise(dates, entry, exit, level, total)
    PROVE  /\ IsFiniteSet(Within(dates, entry, exit))
           /\ SumOver(total, Within(dates, entry, exit)) = level[exit] - level[entry]
<1> DEFINE D == Within(dates, entry, exit)
           Right(x) == SumOver(total, Within(dates, entry, x)) = level[x] - level[entry]
           Bad == { T \in SUBSET D : \E x \in D : T = Within(dates, entry, x) /\ ~ Right(x) }
<1>1. IsFiniteSet(D)
  <2>1. D \in SUBSET (entry .. exit)
    <3>1. entry \in Int /\ exit \in Int /\ \A d \in dates : d \in Int
      OBVIOUS
    <3>2. \A d \in D : d \in dates /\ entry < d /\ d <= exit
      BY DEF Within
    <3> HIDE DEF D
    <3>3. ASSUME NEW d \in D PROVE d \in entry .. exit
      <4>1. d \in Int /\ entry < d /\ d <= exit
        BY <3>1, <3>2
      <4>2. QED
        BY <3>1, <4>1
    <3>4. QED
      BY <3>3
  <2>2. IsFiniteSet(entry .. exit)
    BY FS_Interval
  <2> HIDE DEF D
  <2>3. QED
    BY <2>1, <2>2, FS_Subset
<1>2. \A d \in D : d \in dates /\ d \in Int /\ entry < d /\ d <= exit /\ total[d] \in Int
  BY DEF Within, Stepwise
<1>3. ASSUME NEW T \in Bad PROVE \E U \in Bad : U \subseteq T /\ U # T
  <2>1. PICK x \in D : T = Within(dates, entry, x) /\ ~ Right(x)
    OBVIOUS
  <2>2. PICK p \in dates : /\ p < x /\ \A q \in dates : q < x => q <= p
                           /\ level[p] \in Int /\ level[x] \in Int /\ total[x] = level[x] - level[p]
    BY DEF Stepwise
  <2>3. entry <= p /\ p \in Int /\ x \in Int /\ entry \in Int /\ exit \in Int
    BY <1>2, <2>2
  <2> DEFINE U == Within(dates, entry, p)
  <2>4. T \ {x} = U
    <3>1. \A d \in dates : d \in Int
      OBVIOUS
    <3>2. \A d \in dates : (entry < d /\ d <= x /\ d # x) <=> (entry < d /\ d <= p)
      BY <2>2, <2>3, <3>1
    <3>3. QED
      BY <2>1, <3>2 DEF Within
  <2>5. x \in T /\ T \subseteq D
    <3>1. \A d \in dates : d \in Int
      OBVIOUS
    <3>2. x \in T
      BY <1>2, <2>1, <2>3 DEF Within
    <3>3. \A d \in T : d \in dates /\ entry < d /\ d <= exit
      BY <1>2, <2>1, <2>3, <3>1 DEF Within
    <3>4. QED
      BY <3>2, <3>3 DEF Within
  <2>6. SumOver(total, T) = total[x] + SumOver(total, U)
    <3>1. IsFiniteSet(T)
      BY <1>1, <2>5, FS_Subset
    <3>2. \A d \in T : total[d] \in Int
      BY <1>2, <2>5
    <3>3. QED
      BY <2>4, <2>5, <3>1, <3>2, SumRemove
  <2>7. ~ Right(p)
    <3> SUFFICES ASSUME Right(p) PROVE FALSE
      OBVIOUS
    <3>1. SumOver(total, U) = level[p] - level[entry]
      OBVIOUS
    <3>2. SumOver(total, T) = (level[x] - level[p]) + (level[p] - level[entry])
      BY <2>2, <2>6, <3>1
    <3>3. SumOver(total, T) = level[x] - level[entry]
      BY <2>2, <3>2
    <3>4. QED
      BY <2>1, <3>3
  <2>8. CASE p = entry
    <3>1. U = {}
      <4>1. \A d \in dates : ~ (entry < d /\ d <= p)
        BY <2>3, <2>8
      <4>2. QED
        BY <4>1 DEF Within
    <3>2. SumOver(total, U) = 0
      BY <3>1, SumEmpty
    <3>3. level[p] - level[entry] = 0
      BY <2>8
    <3>4. QED
      BY <2>7, <3>2, <3>3
  <2>9. CASE p # entry
    <3>1. p \in D
      BY <1>2, <2>2, <2>3, <2>9 DEF Within
    <3>2. U \in Bad
      BY <2>4, <2>5, <2>7, <3>1
    <3>3. QED
      BY <2>4, <2>5, <3>2
  <2>10. QED
    BY <2>8, <2>9
<1>4. Bad = {}
  <2>1. Bad \in SUBSET SUBSET D
    OBVIOUS
  <2> HIDE DEF Bad, D
  <2>2. QED
    BY <1>1, <1>3, <2>1, SubsetDescent
<1>5. CASE entry = exit
  <2>1. D = {}
    <3>1. \A d \in dates : ~ (entry < d /\ d <= exit)
      BY <1>5
    <3>2. QED
      BY <3>1 DEF Within
  <2>2. SumOver(total, D) = 0
    BY <2>1, SumEmpty
  <2>3. level[exit] - level[entry] = 0
    BY <1>5
  <2>4. QED
    BY <1>1, <2>2, <2>3
<1>6. CASE entry # exit
  <2>1. exit \in D
    BY <1>6 DEF Within
  <2>2. Within(dates, entry, exit) \notin Bad
    BY <1>4
  <2>3. Right(exit)
    BY <2>1, <2>2
  <2>4. QED
    BY <1>1, <2>3
<1>7. QED
  BY <1>5, <1>6

\* The sum of the daily returns of a window.
Compounded(f) == MapThenSumSet(LAMBDA d : Daily(f, d).total, DaysWithin(f))

IsCompounding(g, f, S) ==
    g = [ T \in SUBSET S |-> IF T = {} THEN 0 ELSE Daily(f, Chosen(T)).total + g[T \ {Chosen(T)}] ]

LEMMA CompoundedIsSum ==
    ASSUME NEW f, NEW S, S = DaysWithin(f), IsFiniteSet(S),
           NEW total, \A d \in S : total[d] = Daily(f, d).total
    PROVE  Compounded(f) = SumOver(total, S)
<1> DEFINE h == [ T \in SUBSET S |-> SumOver(total, T) ]
<1>1. Compounded(f) = (CHOOSE g : IsCompounding(g, f, S))[S]
  BY DEF Compounded, MapThenSumSet, MapThenFoldSet, IsCompounding, Chosen
<1>2. \A T \in SUBSET S : T # {} => Chosen(T) \in S
  BY DEF Chosen
<1>3. ASSUME NEW g PROVE IsCompounding(g, f, S) <=> IsSumOf(g, total, S)
  <2>1. \A T \in SUBSET S : T # {} => Daily(f, Chosen(T)).total = total[Chosen(T)]
    BY <1>2
  <2>2. [ T \in SUBSET S |-> IF T = {} THEN 0 ELSE Daily(f, Chosen(T)).total + g[T \ {Chosen(T)}] ]
        = [ T \in SUBSET S |-> IF T = {} THEN 0 ELSE total[Chosen(T)] + g[T \ {Chosen(T)}] ]
    BY <2>1
  <2>3. QED
    BY <2>2 DEF IsCompounding, IsSumOf
<1>4. IsSumOf(h, total, S)
  BY SumsExist
<1>5. IsCompounding(CHOOSE g : IsCompounding(g, f, S), f, S)
  BY <1>3, <1>4
<1>6. (CHOOSE g : IsCompounding(g, f, S)) = h
  BY <1>3, <1>4, <1>5, SumsUnique
<1>7. QED
  BY <1>1, <1>6

LEMMA ReturnsCompound == ReturnInv => DailyReturnsCompound
<1> SUFFICES ASSUME ReturnInv, NEW f \in forwards, f.status \in {"normal", "truncated"}, SameInputs(f),
                    \A d \in DaysWithin(f) : Daily(f, d).total # Null
             PROVE  f.total = Compounded(f)
  BY DEF DailyReturnsCompound, Compounded
<1> DEFINE dates == DatesIn(bars, f.sid, f.version)
           D == Within(dates, f.entry, f.exit)
           level == [ d \in dates |-> bars[BarKey(f.sid, d, f.version)].level ]
           total == [ d \in D |-> Daily(f, d).total ]
<1>1. /\ Spanned(bars, f) /\ BarsOK(bars, runs) /\ ReturnsOK(bars, terminals, returns, runs)
      /\ (\A sid \in DOMAIN terminals : terminals[sid].run < f.run) => Clear(terminals, f)
  BY DEF ReturnInv, ForwardsOK, Plain
<1>2. DaysWithin(f) = D
  BY DEF DaysWithin, BarDates, DatesIn, Within
<1>3. \A d \in dates : d \in Int /\ BarKey(f.sid, d, f.version) \in DOMAIN bars
  <2> SUFFICES ASSUME NEW d \in dates PROVE d \in Int /\ BarKey(f.sid, d, f.version) \in DOMAIN bars
    OBVIOUS
  <2>1. BarKey(f.sid, d, f.version) \in DOMAIN bars
    BY <1>1, DateHasBar
  <2>2. BarKey(f.sid, d, f.version).date = d
    BY DEF BarKey
  <2>3. QED
    BY <1>1, <2>1, <2>2 DEF BarsOK
<1>4. f.entry \in dates /\ f.exit \in dates
  BY <1>1, DateHasBar DEF Spanned
<1>5. ASSUME NEW d \in D
      PROVE  \E p \in dates : /\ p < d /\ \A q \in dates : q < d => q <= p
                              /\ level[p] \in Int /\ level[d] \in Int /\ total[d] = level[d] - level[p]
  <2> DEFINE key == BarKey(f.sid, d, f.version)
  <2>1. d \in dates /\ f.entry < d /\ d <= f.exit /\ d \in DaysWithin(f) /\ d \in Int
    BY <1>2, <1>3 DEF Within
  <2>2. /\ key \in DOMAIN returns /\ Daily(f, d) = returns[key]
        /\ Fresh(bars, terminals, f.version, returns[key].run)
        /\ \A sid \in DOMAIN terminals : terminals[sid].run < f.run
    BY <2>1 DEF SameInputs, Daily, Fresh, BarKey
  <2>3. key.sid = f.sid /\ key.version = f.version /\ key.date = d
    BY DEF BarKey
  <2>4. key \in DOMAIN bars
    BY <1>3, <2>1
  <2> HIDE DEF key, dates
  <2>5. ~ Ends(terminals, key)
    BY <1>1, <2>1, <2>2, <2>3 DEF Ends, Clear
  <2>6. Taken(bars, key, returns[key])
    BY <1>1, <2>2, <2>3, <2>4, <2>5 DEF ReturnsOK
  <2>7. returns[key].total # Null
    BY <2>1, <2>2
  <2>8. PICK p \in dates :
          /\ p < d /\ \A q \in dates : q < d => q <= p
          /\ bars[BarKey(f.sid, p, f.version)].level \in Int /\ bars[key].level \in Int
          /\ returns[key].total = bars[key].level - bars[BarKey(f.sid, p, f.version)].level
    BY <2>3, <2>6, <2>7 DEF Taken, dates
  <2>9. /\ level[p] = bars[BarKey(f.sid, p, f.version)].level /\ level[d] = bars[key].level
        /\ total[d] = returns[key].total
    BY <2>1, <2>2 DEF key
  <2>10. QED
    BY <2>8, <2>9
<1>6. level[f.entry] = bars[BarKey(f.sid, f.entry, f.version)].level
      /\ level[f.exit] = bars[BarKey(f.sid, f.exit, f.version)].level
  BY <1>4
<1>7. f.entry <= f.exit /\ level[f.entry] \in Int /\ f.total = level[f.exit] - level[f.entry]
  BY <1>1, <1>6 DEF Spanned
<1>8. dates \in SUBSET Int
  BY <1>3
<1>9. \A d \in D : total[d] = Daily(f, d).total
  OBVIOUS
<1> HIDE DEF dates, level, total
<1>10. IsFiniteSet(D) /\ SumOver(total, D) = level[f.exit] - level[f.entry]
  <2>1. Stepwise(dates, f.entry, f.exit, level, total)
    BY <1>5 DEF Stepwise
  <2>2. QED
    BY <1>4, <1>7, <1>8, <2>1, Telescope
<1>11. Compounded(f) = SumOver(total, D)
  <2> HIDE DEF D
  <2>1. QED
    BY <1>2, <1>9, <1>10, CompoundedIsSum
<1>12. QED
  BY <1>7, <1>10, <1>11

\* Where both saw the same bars and terminals and no bar of the window lacks a price,
\* the daily returns over the window of a normal or truncated forward outcome sum to
\* it, over gaps in trading and next to terminal events: two tables that different
\* calls fill never disagree (research_data/outcomes.py:80-121, 278-382).
THEOREM ReturnsAgreeWithOutcomes ==
    OutcomeInit /\ [][OutcomeNext]_outcomeVars => []DailyReturnsCompound
<1>1. QED
  BY InitReturnInv, NextReturnInv, ReturnsCompound, PTL
=============================================================================
