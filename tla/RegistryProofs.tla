--------------------------- MODULE RegistryProofs ---------------------------
(***************************************************************************)
(* What the operators of Registry keep true of any catalog, whatever its   *)
(* ids and its records: the insertion order lists each id once.            *)
(***************************************************************************)
EXTENDS Registry, FiniteSetTheorems, SequenceTheorems, TLAPS

\* What update_peer can make of a dict, its order left aside.
Catalogs(Ids, Recs) == [order : Seq(Ids), rec : UNION {[P -> Recs] : P \in SUBSET Ids}]

\* The parts of a catalog.
LEMMA FieldsOfCatalog ==
    ASSUME NEW Ids, NEW Recs, IsFiniteSet(Ids), NEW cat \in Catalogs(Ids, Recs)
    PROVE  /\ cat.order \in Seq(Ids) /\ PeersOf(cat) \subseteq Ids
           /\ IsFiniteSet(PeersOf(cat))
           /\ cat.rec \in [PeersOf(cat) -> Recs]
           /\ cat = [order |-> cat.order, rec |-> cat.rec]
<1>1. cat.order \in Seq(Ids) /\ cat = [order |-> cat.order, rec |-> cat.rec]
  BY DEF Catalogs
<1>2. PICK P \in SUBSET Ids : cat.rec \in [P -> Recs]
  BY DEF Catalogs
<1>3. PeersOf(cat) = P
  BY <1>2 DEF PeersOf
<1> QED
  BY <1>1, <1>2, <1>3, FS_Subset

\* What makes a catalog.
LEMMA MadeCatalog ==
    ASSUME NEW Ids, NEW Recs, NEW o \in Seq(Ids), NEW P \in SUBSET Ids, NEW r \in [P -> Recs]
    PROVE  [order |-> o, rec |-> r] \in Catalogs(Ids, Recs) /\ PeersOf([order |-> o, rec |-> r]) = P
  BY DEF Catalogs, PeersOf

\* A catalog is one of them, and lists each id once.
LEMMA CatalogsListIdsOnce ==
    ASSUME NEW Ids, NEW Recs, NEW cat
    PROVE  IsCatalog(cat, Ids, Recs) <=>
               /\ cat \in Catalogs(Ids, Recs)
               /\ Len(cat.order) = Cardinality(PeersOf(cat))
               /\ {cat.order[i] : i \in DOMAIN cat.order} = PeersOf(cat)
<1>1. ASSUME IsCatalog(cat, Ids, Recs)
      PROVE  cat \in Catalogs(Ids, Recs)
  <2>1. /\ cat = [order |-> cat.order, rec |-> cat.rec]
        /\ cat.order \in Seq(Ids)
        /\ PeersOf(cat) \in SUBSET Ids /\ cat.rec \in [PeersOf(cat) -> Recs]
    BY <1>1 DEF IsCatalog
  <2>2. [order |-> cat.order, rec |-> cat.rec] \in Catalogs(Ids, Recs)
    BY <2>1, MadeCatalog
  <2> QED
    BY <2>1, <2>2
<1>2. ASSUME cat \in Catalogs(Ids, Recs)
      PROVE  /\ cat = [order |-> cat.order, rec |-> cat.rec]
             /\ cat.order \in Seq(Ids)
             /\ PeersOf(cat) \subseteq Ids /\ cat.rec \in [PeersOf(cat) -> Recs]
  <2>1. cat.order \in Seq(Ids) /\ cat = [order |-> cat.order, rec |-> cat.rec]
    BY <1>2 DEF Catalogs
  <2>2. PICK P \in SUBSET Ids : cat.rec \in [P -> Recs]
    BY <1>2 DEF Catalogs
  <2> QED
    BY <2>1, <2>2 DEF PeersOf
<1> QED
  BY <1>1, <1>2 DEF IsCatalog

\* A new registry.
LEMMA EmptyIsCatalog ==
    ASSUME NEW Ids, NEW Recs
    PROVE  IsCatalog(EmptyCatalog, Ids, Recs) /\ PeersOf(EmptyCatalog) = {}
<1>1. <<>> \in Seq(Ids) /\ [p \in {} |-> {}] \in [{} -> Recs] /\ {} \in SUBSET Ids
  OBVIOUS
<1>2. EmptyCatalog \in Catalogs(Ids, Recs) /\ PeersOf(EmptyCatalog) = {}
  BY <1>1, MadeCatalog DEF EmptyCatalog
<1>3. Len(EmptyCatalog.order) = 0 /\ {EmptyCatalog.order[i] : i \in DOMAIN EmptyCatalog.order} = {}
  BY DEF EmptyCatalog
<1> QED
  BY <1>2, <1>3, FS_EmptySet, CatalogsListIdsOnce

\* update_peer lists the peer once and replaces its record.
LEMMA UpdatedIsCatalog ==
    ASSUME NEW Ids, NEW Recs, IsFiniteSet(Ids),
           NEW cat, IsCatalog(cat, Ids, Recs), NEW p \in Ids, NEW r \in Recs
    PROVE  /\ IsCatalog(UpdatePeer(cat, p, r), Ids, Recs)
           /\ PeersOf(UpdatePeer(cat, p, r)) = PeersOf(cat) \cup {p}
           /\ UpdatePeer(cat, p, r).rec[p] = r
           /\ \A x \in PeersOf(cat) : x # p => UpdatePeer(cat, p, r).rec[x] = cat.rec[x]
<1> DEFINE new == UpdatePeer(cat, p, r)
           P == PeersOf(cat)
           f == [x \in P \cup {p} |-> IF x = p THEN r ELSE cat.rec[x]]
           o == IF p \in P THEN cat.order ELSE Append(cat.order, p)
<1>1. /\ cat.order \in Seq(Ids) /\ P \subseteq Ids /\ IsFiniteSet(P)
      /\ cat.rec \in [P -> Recs]
      /\ Len(cat.order) = Cardinality(P) /\ {cat.order[i] : i \in DOMAIN cat.order} = P
  BY FieldsOfCatalog, CatalogsListIdsOnce
<1>2. new = [order |-> o, rec |-> f]
  BY DEF UpdatePeer
<1>3. f \in [P \cup {p} -> Recs] /\ P \cup {p} \in SUBSET Ids
  BY <1>1
<1>4. o \in Seq(Ids) /\ Len(o) = Cardinality(P \cup {p}) /\ {o[i] : i \in DOMAIN o} = P \cup {p}
  <2>1. CASE p \in P
    <3>1. P \cup {p} = P
      BY <2>1
    <3> HIDE DEF P
    <3> QED
      BY <1>1, <2>1, <3>1
  <2>2. CASE p \notin P
    <3>1. o = Append(cat.order, p) /\ Cardinality(P \cup {p}) = Cardinality(P) + 1
      BY <1>1, <2>2, FS_AddElement
    <3> HIDE DEF P, o
    <3>2. o \in Seq(Ids) /\ Len(o) = Len(cat.order) + 1
      BY <1>1, <3>1, AppendProperties
    <3>3. /\ DOMAIN o = 1..(Len(cat.order) + 1) /\ DOMAIN cat.order = 1..Len(cat.order)
          /\ o[Len(cat.order) + 1] = p /\ \A i \in DOMAIN cat.order : o[i] = cat.order[i]
          /\ Len(cat.order) \in Nat
      BY <1>1, <3>1, <3>2, AppendProperties
    <3>4. {o[i] : i \in DOMAIN o} \subseteq P \cup {p}
      BY <1>1, <3>3
    <3>5. P \cup {p} \subseteq {o[i] : i \in DOMAIN o}
      <4>1. Len(cat.order) + 1 \in DOMAIN o /\ \A i \in DOMAIN cat.order : i \in DOMAIN o
        BY <3>3
      <4> QED
        BY <1>1, <3>3, <4>1
    <3> QED
      BY <1>1, <3>1, <3>2, <3>4, <3>5
  <2> QED
    BY <2>1, <2>2
<1> HIDE DEF P, f, o, new
<1>5. new \in Catalogs(Ids, Recs) /\ PeersOf(new) = P \cup {p} /\ new.order = o /\ new.rec = f
  <2>1. [order |-> o, rec |-> f] \in Catalogs(Ids, Recs) /\ PeersOf([order |-> o, rec |-> f]) = P \cup {p}
    <3>1. o \in Seq(Ids) /\ P \cup {p} \in SUBSET Ids /\ f \in [P \cup {p} -> Recs]
      BY <1>3, <1>4
    <3> QED
      BY <3>1 DEF Catalogs, PeersOf
  <2> QED
    BY <1>2, <2>1
<1>6. IsCatalog(new, Ids, Recs)
  BY <1>4, <1>5, CatalogsListIdsOnce
<1>7. f[p] = r /\ \A x \in P : x # p => f[x] = cat.rec[x]
  BY DEF f
<1> HIDE DEF new
<1>8. PeersOf(new) = PeersOf(cat) \cup {p}
  BY <1>5 DEF P
<1>9. new.rec[p] = r /\ \A x \in PeersOf(cat) : x # p => new.rec[x] = cat.rec[x]
  BY <1>5, <1>7 DEF P
<1> QED
  BY <1>6, <1>8, <1>9 DEF new

\* A change of the records in place.
LEMMA ChangedIsCatalog ==
    ASSUME NEW Ids, NEW Recs, IsFiniteSet(Ids),
           NEW cat, IsCatalog(cat, Ids, Recs), NEW f \in [PeersOf(cat) -> Recs]
    PROVE  /\ IsCatalog([cat EXCEPT !.rec = f], Ids, Recs)
           /\ PeersOf([cat EXCEPT !.rec = f]) = PeersOf(cat)
           /\ [cat EXCEPT !.rec = f].rec = f
<1>1. /\ cat.order \in Seq(Ids) /\ PeersOf(cat) \in SUBSET Ids
      /\ cat = [order |-> cat.order, rec |-> cat.rec]
      /\ Len(cat.order) = Cardinality(PeersOf(cat))
      /\ {cat.order[i] : i \in DOMAIN cat.order} = PeersOf(cat)
  BY FieldsOfCatalog, CatalogsListIdsOnce
<1>2. [cat EXCEPT !.rec = f] = [order |-> cat.order, rec |-> f]
  BY <1>1
<1>3. /\ [order |-> cat.order, rec |-> f] \in Catalogs(Ids, Recs)
      /\ PeersOf([order |-> cat.order, rec |-> f]) = PeersOf(cat)
  <2> DEFINE P == PeersOf(cat)
             o == cat.order
  <2>1. f \in [P -> Recs] /\ P \in SUBSET Ids /\ o \in Seq(Ids)
    BY <1>1
  <2> HIDE DEF P, o
  <2>2. [order |-> o, rec |-> f] \in Catalogs(Ids, Recs) /\ PeersOf([order |-> o, rec |-> f]) = P
    BY <2>1 DEF Catalogs, PeersOf
  <2> QED
    BY <2>2 DEF P, o
<1> QED
  BY <1>1, <1>2, <1>3, CatalogsListIdsOnce

=============================================================================
