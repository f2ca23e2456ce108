------------------------------ MODULE Context -------------------------------
(***************************************************************************)
(* M5: a manifest of sources is indexed into a graph, a query selects a    *)
(* bounded part of it, a snapshot reads that part again, a compaction      *)
(* keeps its texts, and a report measures it.  Every artifact is a file of *)
(* its own, published once and read back by the next step, which may come  *)
(* much later: a source can be lost and the repository can move between    *)
(* any two steps, so each step names the sources it could read.            *)
(*                                                                         *)
(* A source and its node have one name, a natural number; the code sorts   *)
(* by digests, of which only the order matters.  Readable sources are      *)
(* chosen inside the step that reads them: the step keeps nothing of a     *)
(* read but whether it matched the locator, so one choice stands for every *)
(* order in which reads and changes of the files interleave.               *)
(* An edge is <<from, to, type>>: refs are the directed ones, contradicts  *)
(* the undirected.                                                         *)
(***************************************************************************)
EXTENDS Integers, Sequences, FiniteSets, SequencesExt, FiniteSetsExt

CONSTANTS
  Manifests,    \* manifests: [sources, required, owner, contradicts, refs, fresh, level, size]
  Queries,      \* queries: [asof, clearance, required, seeds, named, score, types, budget, nodes, edges, depth]
  Canonical,    \* the canonical specification, a required source of the repository
  EdgeCost,     \* canonical bytes of an edge
  Envelope,     \* canonical bytes of a node above those of its text
  MaxTotal,     \* MAX_TOTAL_SOURCE_BYTES
  Heads,        \* repository candidates
  Proposals     \* host summaries: [level, claims], or none of them: <<>>

VARIABLES
  manifest, query,            \* the inputs
  head,                       \* the repository's candidate; every artifact is bound to that of the manifest
  graph, selection, snapshot, compaction, report   \* artifacts, <<>> until published

contextVars == <<manifest, query, head, graph, selection, snapshot, compaction, report>>

ASSUME ContextAssumption ==
  /\ EdgeCost \in Nat /\ Envelope \in Nat \ {0}
  /\ \A m \in Manifests :
       /\ m.sources \in SUBSET Nat /\ IsFiniteSet(m.sources)
       /\ Canonical \in m.sources \cap m.required /\ Canonical \notin m.owner
       /\ {m.level, m.size, m.authority} \subseteq [m.sources -> Nat]
       /\ IsFiniteSet(m.refs) /\ IsFiniteSet(m.contradicts)
       /\ \A q \in Queries : q.score \in [m.sources -> Int]
  /\ \A q \in Queries : {q.budget, q.nodes, q.depth, q.clearance} \subseteq Nat

\* The nodes in order, each at the place that the nodes before it leave.
Numbered(nodes) ==
  [i \in 1..Cardinality(nodes) |->
     CHOOSE n \in nodes : Cardinality({m \in nodes : m < n}) = i - 1]

\* An owner source needs an owner root, and an owner root an owner source.
RootsFit(nodes, ownerRoot) == ownerRoot <=> (nodes \cap manifest.owner # {})
Levels(nodes) == Max({manifest.level[n] : n \in nodes})

----------------------------------------------------------------------------
(* What loads: the checks the parser makes of an artifact, made again on each one published. *)

\* Canonical bytes of the texts, and of nodes and edges in full.
Bytes(nodes) == MapThenSumSet(LAMBDA n : manifest.size[n], nodes)
NodeCost(n) == manifest.size[n] + Envelope

EdgesLoad(edges, nodes) == \A e \in edges : {e[1], e[2]} \subseteq nodes /\ e[1] # e[2]
Ascending(edges) == \A e \in edges : e[1] < e[2]

ManifestLoads(m) ==
  /\ m.sources # {} /\ m.required \subseteq m.sources
  /\ EdgesLoad(m.refs \cup m.contradicts, m.sources) /\ Ascending(m.contradicts)
GraphLoads(g) ==
  /\ g.nodes # {} /\ Bytes(g.nodes) <= MaxTotal
  /\ Canonical \in g.nodes
  /\ EdgesLoad(g.refs \cup g.contradicts, g.nodes) /\ Ascending(g.contradicts)
  /\ g.nodes \cap g.excluded = {}
  /\ g.level = Levels(g.nodes)
QueryLoads(q) == q.types # {} /\ q.types \subseteq {"references", "contradicts"} /\ q.nodes >= 1
SelectionLoads(s) ==
  /\ s.nodes # {} /\ s.nodes \cap DOMAIN s.excluded = {}
  /\ s.used <= query.budget
  /\ s.used = MapThenSumSet(NodeCost, s.nodes) + EdgeCost * Cardinality(s.edges)
SnapshotLoads(s) ==
  /\ Canonical \in s.nodes /\ s.nodes \cap s.excluded = {}
  /\ EdgesLoad(s.edges, s.nodes)
  /\ s.level = Levels(s.nodes)
  /\ s.used <= query.budget
  /\ s.used = MapThenSumSet(NodeCost, s.nodes) + EdgeCost * Cardinality(s.edges)
  /\ s.unresolved = s.edges \cap manifest.contradicts
CompactionLoads(c) ==
  /\ c.nodes \cap manifest.required # {}
  /\ EdgesLoad(c.unresolved, c.nodes)
  /\ c.used <= query.budget /\ c.used = Bytes(c.nodes)
  /\ \A n \in c.nodes : manifest.level[n] <= c.level
  /\ c.nodes \cap c.omitted = {}

----------------------------------------------------------------------------
(* Index *)

\* Readable sources are kept in order while the total stays below the limit.
Fit(readable) ==
  FoldLeft(LAMBDA kept, n : IF Bytes(kept \cup {n}) > MaxTotal THEN kept ELSE kept \cup {n},
           {}, Numbered(readable))

\* Relationships with a source that was left out are dropped with it.
Among(edges, nodes) == {e \in edges : e[1] \in nodes /\ e[2] \in nodes}

\* ContextIndexer.build and publish
Index ==
  /\ graph = <<>> /\ head = 0
  /\ \E ownerRoot \in BOOLEAN, readable \in SUBSET manifest.sources :
       /\ RootsFit(manifest.sources, ownerRoot)
       /\ manifest.required \subseteq Fit(readable)
       /\ graph' = <<[nodes |-> Fit(readable), excluded |-> manifest.sources \ Fit(readable),
                      contradicts |-> Among(manifest.contradicts, Fit(readable)),
                      refs |-> Among(manifest.refs, Fit(readable)),
                      level |-> Levels(Fit(readable))]>>
       /\ GraphLoads(graph'[1])
  /\ UNCHANGED <<manifest, query, head, selection, snapshot, compaction, report>>

----------------------------------------------------------------------------
(* Selection *)

\* _eligibility_problem, "" when the node may be selected
Problem(n) ==
  CASE manifest.level[n] > query.clearance  -> "sensitivity-clearance"
    [] query.asof \notin manifest.fresh[n]  -> "stale"
    [] OTHER                                -> ""
EligibleNodes(g) == {n \in g.nodes : Problem(n) = ""}

\* _contradiction_closure
Component(starts, contradicts) ==
  LET Step(S) == S \cup UNION {{e[1], e[2]} : e \in {f \in contradicts : {f[1], f[2]} \cap S # {}}}
      closure[k \in Nat] == IF k = 0 THEN starts ELSE Step(closure[k - 1])
  IN  closure[Cardinality(contradicts)]

\* Edges a traversal follows, and those with both ends selected.
Followed(g) ==
  (IF "references" \in query.types THEN g.refs ELSE {})
  \cup (IF "contradicts" \in query.types
        THEN g.contradicts \cup {<<e[2], e[1], e[3]>> : e \in g.contradicts} ELSE {})
Induced(g, nodes) == Among(g.refs, nodes) \cup Among(g.contradicts, nodes)

\* _traverse: the nodes within k edges of the starts, through any node, and its three bounds.
Within(g, starts) ==
  LET near[k \in Nat] == IF k = 0 THEN starts
                         ELSE near[k - 1] \cup {e[2] : e \in {f \in Followed(g) : f[1] \in near[k - 1]}}
  IN  near
Undirected(edges) == {{e[1], e[2]} : e \in edges}
Leaving(g, S) ==
  Cardinality({e \in g.refs : "references" \in query.types /\ e[1] \in S})
  + Cardinality({e \in g.contradicts : "contradicts" \in query.types /\ {e[1], e[2]} \cap S # {}})
TraversalFits(g, starts) ==
  LET near == Within(g, starts)
      d    == query.depth
  IN  /\ near[d + 1] = near[d]
      /\ Leaving(g, IF d = 0 THEN {} ELSE near[d - 1]) <= query.edges
      /\ near[d] = starts \/ Cardinality(near[d]) <= query.nodes
Distance(g, starts, n) ==
  IF n \in Within(g, starts)[query.depth]
  THEN Min({k \in 0..query.depth : n \in Within(g, starts)[k]}) ELSE 0

Cost(g, nodes) == MapThenSumSet(NodeCost, nodes) + EdgeCost * Cardinality(Induced(g, nodes))

\* Required nodes: those of the graph, those of the query, and what contradicts them.
Directly(g) == (manifest.required \cap g.nodes) \cup query.required
RequiredNodes(g) == Component(Directly(g), g.contradicts)
Starts(g) == RequiredNodes(g) \cup (query.seeds \cap EligibleNodes(g))

\* The phase that retrieves a node: 0 required, 1 graph, 2 identifier, 3 words, 4 none.
Phase(g, n) ==
  CASE n \in RequiredNodes(g)                       -> 0
    [] n \in Within(g, Starts(g))[query.depth]      -> 1
    [] n \in query.named                            -> 2
    [] query.score[n] > 0                           -> 3
    [] OTHER                                        -> 4

\* _rank, compared from the left
Rank(g, n) ==
  <<Phase(g, n), manifest.authority[n], Distance(g, Starts(g), n), 100 - query.score[n],
    manifest.level[n], n>>
RankedBefore(g, a, b) ==
  \E i \in 1..6 : /\ Rank(g, a)[i] < Rank(g, b)[i]
                  /\ \A j \in 1..(i - 1) : Rank(g, a)[j] = Rank(g, b)[j]

Ranked(g, nodes) ==
  [i \in 1..Cardinality(nodes) |->
     CHOOSE n \in nodes : Cardinality({m \in nodes : RankedBefore(g, m, n)}) = i - 1]

\* One optional candidate with its whole contradiction component, or the reason it stays out.
TakeCandidate(g, taken, n) ==
  LET more == taken \cup Component({n}, g.contradicts)
  IN  IF /\ more \subseteq EligibleNodes(g)
         /\ Cardinality(more) <= query.nodes
         /\ Cardinality(Induced(g, more)) <= query.edges
         /\ Cost(g, more) <= query.budget
      THEN more ELSE taken
Reason(g, taken, n) ==
  LET more == taken \cup Component({n}, g.contradicts)
  IN  CASE Problem(n) # ""                               -> Problem(n)
        [] Phase(g, n) = 4                               -> "not-retrieved"
        [] ~ (more \subseteq EligibleNodes(g))                -> "contradiction-closure-unavailable"
        [] Cardinality(more) > query.nodes               -> "node-budget"
        [] Cardinality(Induced(g, more)) > query.edges   -> "edge-budget"
        [] OTHER                                         -> "byte-budget"

\* ContextSelector.select: what stops it, and what it returns.
SelectionStops(g) ==
  \/ ~ (Directly(g) \cup query.seeds \subseteq g.nodes)
  \/ ~ (RequiredNodes(g) \subseteq EligibleNodes(g))
  \/ ~ TraversalFits(g, Starts(g))
  \/ Cardinality(RequiredNodes(g)) > query.nodes
  \/ Cardinality(Induced(g, RequiredNodes(g))) > query.edges
  \/ Cost(g, RequiredNodes(g)) > query.budget
SelectionOf(g) ==
  LET optional == Ranked(g, {n \in EligibleNodes(g) \ RequiredNodes(g) : Phase(g, n) < 4})
      chosen   == FoldLeft(LAMBDA taken, n : TakeCandidate(g, taken, n), RequiredNodes(g), optional)
      \* each refused candidate meets the nodes taken before its turn
      before(n) == FoldLeft(LAMBDA taken, m : TakeCandidate(g, taken, m), RequiredNodes(g),
                            SelectSeq(optional, LAMBDA m : RankedBefore(g, m, n)))
  IN  [nodes |-> chosen, excluded |-> [n \in g.nodes \ chosen |-> Reason(g, before(n), n)],
       edges |-> Induced(g, chosen), unresolved |-> Among(g.contradicts, chosen),
       level |-> Levels(chosen), used |-> Cost(g, chosen)]

Select ==
  /\ graph # <<>> /\ selection = <<>>
  /\ ~ SelectionStops(graph[1])
  /\ selection' = <<SelectionOf(graph[1])>>
  /\ SelectionLoads(selection'[1])
  /\ UNCHANGED <<manifest, query, head, graph, snapshot, compaction, report>>

\* A Selection is a file: it may be edited into another one that still loads.
EditSelection ==
  /\ selection # <<>> /\ snapshot = <<>>
  /\ \E n \in selection[1].nodes \ manifest.required :
       LET kept == selection[1].nodes \ {n}
       IN  selection' = <<[selection[1] EXCEPT
              !.nodes = kept, !.edges = Among(@, kept), !.unresolved = Among(@, kept),
              !.excluded = [m \in DOMAIN @ \cup {n} |-> IF m = n THEN "not-selected" ELSE @[m]],
              !.level = Levels(kept), !.used = Cost(graph[1], kept)]>>
  /\ UNCHANGED <<manifest, query, head, graph, snapshot, compaction, report>>

----------------------------------------------------------------------------
(* Snapshot *)

\* A node that cannot be read again leaves with its contradiction component.
M_Lost(chosen, failed) == failed
Lost(chosen, failed) == Component(failed, chosen.unresolved)

\* ContextSnapshotService.build and publish; the provenance of every edge it keeps is read too.
ExactSelection(chosen) == chosen = SelectionOf(graph[1])
Snapshot ==
  /\ selection # <<>> /\ snapshot = <<>> /\ head = 0
  /\ LET chosen == selection[1] IN
       /\ ExactSelection(chosen)
       /\ \E ownerRoot \in BOOLEAN, readable \in SUBSET chosen.nodes :
            LET lost == Lost(chosen, chosen.nodes \ readable)
                kept == chosen.nodes \ lost
            IN  /\ RootsFit(chosen.nodes, ownerRoot)
                /\ lost \cap Directly(graph[1]) = {}
                /\ snapshot' = <<[nodes |-> kept, edges |-> Among(chosen.edges, kept),
                                  unresolved |-> Among(chosen.unresolved, kept),
                                  excluded |-> graph[1].nodes \ kept,
                                  level |-> Levels(kept), used |-> Cost(graph[1], kept)]>>
                /\ SnapshotLoads(snapshot'[1])
  /\ UNCHANGED <<manifest, query, head, graph, selection, compaction, report>>

----------------------------------------------------------------------------
(* Compaction and measurement *)

\* The nodes that must keep their text: required ones, and both sides of a contradiction.
Mandatory(s) == (manifest.required \cap s.nodes) \cup UNION {{e[1], e[2]} : e \in s.unresolved}

\* Texts in rank order, mandatory ones first, while they fit the budget of the snapshot.
Extracts(s) ==
  FoldLeft(LAMBDA kept, n : IF Bytes(kept \cup {n}) > query.budget THEN kept ELSE kept \cup {n},
           {}, Ranked(graph[1], Mandatory(s)) \o Ranked(graph[1], s.nodes \ Mandatory(s)))

\* _validate_host_proposal: a summary may raise the sensitivity and cite nodes of the snapshot.
ProposalFits(s, p) ==
  IF p = <<>> THEN TRUE ELSE p[1].level >= s.level /\ p[1].claims \subseteq s.nodes
LevelWith(s, p) == IF p = <<>> THEN s.level ELSE Max({s.level, p[1].level})

\* _verify_snapshot_sources: every source of the snapshot must read as it did.
Reread(s, ownerRoot, readable) == RootsFit(s.nodes, ownerRoot) /\ s.nodes \subseteq readable

\* ContextCompactor.compact and publish
Compact ==
  /\ snapshot # <<>> /\ compaction = <<>> /\ head = 0
  /\ LET s == snapshot[1] IN
       \E ownerRoot \in BOOLEAN, readable \in SUBSET s.nodes, p \in Proposals :
         /\ Reread(s, ownerRoot, readable)
         /\ ProposalFits(s, p)
         /\ Mandatory(s) \subseteq Extracts(s)
         /\ compaction' = <<[nodes |-> Extracts(s), omitted |-> s.nodes \ Extracts(s),
                             unresolved |-> s.unresolved, level |-> LevelWith(s, p),
                             used |-> Bytes(Extracts(s))]>>
         /\ CompactionLoads(compaction'[1])
  /\ UNCHANGED <<manifest, query, head, graph, selection, snapshot, report>>

\* measure_context_quality
Measure ==
  /\ snapshot # <<>> /\ report = <<>>
  /\ LET required == Directly(graph[1]) IN
       report' = <<[recall |-> (100 * Cardinality(required \cap snapshot[1].nodes))
                                 \div Cardinality(required),
                    stale |-> 0, selected |-> Cardinality(snapshot[1].nodes),
                    excluded |-> Cardinality(snapshot[1].excluded),
                    violations |-> Cardinality({n \in snapshot[1].nodes :
                                                  manifest.level[n] > snapshot[1].level})]>>
  /\ UNCHANGED <<manifest, query, head, graph, selection, snapshot, compaction>>

\* The repository moves to another candidate, or back.
MoveHead ==
  /\ head' \in Heads \ {head}
  /\ UNCHANGED <<manifest, query, graph, selection, snapshot, compaction, report>>

ContextInit ==
  /\ manifest \in {m \in Manifests : ManifestLoads(m)}
  /\ query \in {q \in Queries : QueryLoads(q)} /\ head = 0
  /\ graph = <<>> /\ selection = <<>> /\ snapshot = <<>> /\ compaction = <<>> /\ report = <<>>
ContextNext == Index \/ Select \/ EditSelection \/ Snapshot \/ Compact \/ Measure \/ MoveHead
ContextSpec == ContextInit /\ [][ContextNext]_contextVars

----------------------------------------------------------------------------
(* Properties *)

Published == [i \in {"selection", "snapshot", "compaction"} |->
                CASE i = "selection" -> selection [] i = "snapshot" -> snapshot
                  [] i = "compaction" -> compaction]
\* A Selection counts as published only while it is the one the selector made.
Standing == {i \in DOMAIN Published : /\ Published[i] # <<>>
                                      /\ i = "selection" => ExactSelection(selection[1])}

\* No artifact shows one side of a contradiction: both nodes or neither, with the edge marked
\* unresolved when both are there, whatever was lost, refused for budget or edited on the way.
ContradictionsWhole ==
  \A i \in Standing : LET x == Published[i][1] IN
    /\ \A e \in graph[1].contradicts : e[1] \in x.nodes <=> e[2] \in x.nodes
    /\ x.unresolved = Among(graph[1].contradicts, x.nodes)

\* What the manifest or the query requires reaches every artifact, inside the budget and the
\* clearance, and every other node of the graph is accounted for; recall is measured in full.
RequiredKept ==
  /\ \A i \in Standing : LET x == Published[i][1] IN
       /\ Directly(graph[1]) \subseteq x.nodes
       /\ x.used <= query.budget /\ Cardinality(x.nodes) <= query.nodes
       /\ \A n \in x.nodes : manifest.level[n] <= x.level /\ manifest.level[n] <= query.clearance
  /\ "selection" \in Standing => graph[1].nodes = selection[1].nodes \cup DOMAIN selection[1].excluded
  /\ report # <<>> => report[1].recall = 100 /\ report[1].violations = 0

\* A context holds both sides of a contradiction or says which is missing, and everything
\* that is required.
ContextsWhole == ContradictionsWhole /\ RequiredKept
=============================================================================
