------------------------------ MODULE Registry ------------------------------
(***************************************************************************)
(* CapabilityRegistry (mcp_mesh/registry/catalog.py) as operators on a     *)
(* catalog: the dict `_peers' is the function `rec' from node ids to       *)
(* records together with the order in which the ids were first inserted,   *)
(* which is the order get_all_peers() returns.                             *)
(***************************************************************************)
EXTENDS Naturals, Sequences, FiniteSets

Statuses == {"ALIVE", "SUSPECT", "DEAD"}

EmptyCatalog == [order |-> <<>>, rec |-> [p \in {} |-> {}]]

\* The ids in the catalog.
PeersOf(cat) == DOMAIN cat.rec

\* A catalog of these ids and records.  The order of a dict lists each id once.
IsCatalog(cat, Ids, Recs) ==
    /\ cat = [order |-> cat.order, rec |-> cat.rec]
    /\ cat.order \in Seq(Ids)
    /\ PeersOf(cat) \subseteq Ids /\ cat.rec \in [PeersOf(cat) -> Recs]
    /\ Len(cat.order) = Cardinality(PeersOf(cat))
    /\ {cat.order[i] : i \in DOMAIN cat.order} = PeersOf(cat)

\* A bug: an id that is updated is inserted once more.
MutUpdatePeer(cat, p, record) ==
    [order |-> Append(cat.order, p),
     rec   |-> [q \in PeersOf(cat) \cup {p} |-> IF q = p THEN record ELSE cat.rec[q]]]

\* update_peer: whatever was known of p is replaced; p keeps its place.
UpdatePeer(cat, p, record) ==
    [order |-> IF p \in PeersOf(cat) THEN cat.order ELSE Append(cat.order, p),
     rec   |-> [q \in PeersOf(cat) \cup {p} |-> IF q = p THEN record ELSE cat.rec[q]]]

\* get_all_peers()[:k], as a set.
FirstPeers(cat, k) == {cat.order[i] : i \in {j \in DOMAIN cat.order : j <= k}}

\* The same catalog with a record changed in place at every id.
MapRecords(cat, Change(_)) == [cat EXCEPT !.rec = [p \in PeersOf(cat) |-> Change(cat.rec[p])]]

\* The ALIVE ids, in that order.
AlivePeers(cat) == LET Alive(p) == cat.rec[p].status = "ALIVE" IN SelectSeq(cat.order, Alive)

\* find_peers_for_tool: the ALIVE ids that offer the tool, in that order.
FindPeersForTool(cat, tool) ==
    LET HasTool(p) == tool \in cat.rec[p].tools IN SelectSeq(AlivePeers(cat), HasTool)

\* The tools of get_manifest(): those of every record.
ManifestTools(cat) == UNION {cat.rec[p].tools : p \in PeersOf(cat)}

=============================================================================
