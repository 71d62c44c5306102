----------------------------- MODULE Traceability -----------------------------
(***************************************************************************)
(* What the framework says of a feature's coverage: the facts of documents *)
(* (cross_artifact.py), source files, contracts (contract_trace.py), typed *)
(* evidence and the audit ledger (audit_trace.py), joined in one graph     *)
(* (trace_builder.py, trace_graph.py), and judged by the policy of every   *)
(* layer (trace_policy.py, trace_freshness.py).                            *)
(*                                                                         *)
(* People write and edit all of these in any order; then it is evaluated.  *)
(* The id of a node is its kind and a name.  A hash is a name of its       *)
(* content.  Percentages are in hundredths.                                *)
(***************************************************************************)
EXTENDS Integers, Sequences, FiniteSets, FiniteSetsExt

CONSTANTS
  Starts,      \* repositories before people start; see Init
  Lines,       \* lines that may be added to a document
  Files,       \* source files that may be added
  Records,     \* evidence that may be recorded
  Links,       \* links that may be added to the contract trace
  Events,      \* events that may reach the audit ledger: sets of bindings
  Policies,    \* risks and the thresholds of layers
  MaxSteps     \* steps of people before the evaluation

VARIABLES given, answer
vars == <<given, answer>>

Unanswered == [outcome |-> "none"]
None == <<"none", "">>
Kind(id) == id[1]

(* _KIND_BY_PREFIX, _KIND_MAP and _SPECIAL_DECLARATION                     *)
Indexed == {"requirement", "scenario", "task", "test", "adr", "contract", "threat", "mitigation", "approval"}
Special == {"rfc", "component"}
Noded == (Indexed \ {"mitigation"}) \cup Special

Node(id, label, metadata) == [id |-> id, label |-> label, metadata |-> metadata]
Edge(relation, from, to, metadata) ==
  [relation |-> relation, from |-> from, to |-> to, metadata |-> metadata]
Gap(kind, from, target) == [kind |-> kind, from |-> from, target |-> target]
Ids(nodes) == {n.id : n \in nodes}

Init ==
  /\ given \in
       {[docs |-> s.docs,             \* document -> its lines
         files |-> s.files,           \* source files: path, whether a test, what it mentions
         records |-> {},              \* evidence files
         bytes |-> s.bytes,           \* path -> its content, "" if there is none
         contracts |-> s.contracts,   \* source -> hash, symbols with theirs, valid
         links |-> <<>>,              \* contract-trace.yaml
         events |-> <<>>,             \* the audit ledger
         policy |-> p,
         steps |-> 0] : s \in Starts, p \in Policies}
  /\ answer = Unanswered

-----------------------------------------------------------------------------
(* People, and the framework's own records.                                *)
Working == answer = Unanswered /\ given.steps < MaxSteps /\ UNCHANGED answer
Step(g) == given' = [g EXCEPT !.steps = @ + 1]

AddLine == Working /\ \E d \in DOMAIN given.docs, l \in Lines : Step([given EXCEPT !.docs[d] = Append(@, l)])
AddFile == Working /\ \E f \in Files : Step([given EXCEPT !.files = @ \cup {f}])
Record ==
  Working /\ \E r \in Records : Step([given EXCEPT !.records = {q \in @ : q.path # r.path} \cup {r}])
ChangeFile == Working /\ \E p \in DOMAIN given.bytes, c \in {"", "c1", "c2"} : Step([given EXCEPT !.bytes[p] = c])
EditContract ==
  /\ Working
  /\ \E s \in DOMAIN given.contracts : \E a \in DOMAIN given.contracts[s].symbols :
       Step([given EXCEPT !.contracts[s].hash = "edited", !.contracts[s].symbols[a] = "edited"])
AddLink == Working /\ \E l \in Links : Step([given EXCEPT !.links = Append(@, l)])
Happen == Working /\ \E e \in Events : Step([given EXCEPT !.events = Append(@, e)])

-----------------------------------------------------------------------------
(* _parse_entities_and_edges: what a line says is about the latest         *)
(* declaration above it or on it, of any kind but RFC and COMPONENT.       *)
Current(doc, i) == Max({j \in 1..i : doc[j].declares # None} \cup {0})
StatusOf(doc, i) ==
  LET s == {j \in DOMAIN doc : doc[j].status # "" /\ Current(doc, j) = i}
  IN IF s = {} THEN "" ELSE doc[Max(s)].status
DeclaredNodes(doc) ==
  {Node(doc[i].declares, doc[i].title, <<StatusOf(doc, i)>>) :
     i \in {j \in DOMAIN doc : Kind(doc[j].declares) \in Noded}}
SpecialNodes(doc) ==
  {Node(doc[i].special, doc[i].title, <<>>) : i \in {j \in DOMAIN doc : doc[j].special # None}}
Relationships(doc) ==
  UNION {LET c == Current(doc, i) IN
         IF c = 0 THEN {}
         ELSE {<<doc[c].declares, t>> : t \in {u \in doc[i].refs : Kind(u) \in Indexed /\ u # doc[c].declares}} :
         i \in DOMAIN doc}

(* build_contract_trace_index                                              *)
SourceId(s) == <<"contract", s>>
SymbolId(s, a) == <<"contract", s, a>>
Symbols(g) == UNION {{<<s, a>> : a \in DOMAIN g.contracts[s].symbols} : s \in {t \in DOMAIN g.contracts : g.contracts[t].valid}}
ContractNodes(g) ==
  {Node(SourceId(s), s, <<g.contracts[s].hash>>) : s \in DOMAIN g.contracts}
  \cup {Node(SymbolId(x[1], x[2]), x[2], <<g.contracts[x[1]].hash, g.contracts[x[1]].symbols[x[2]]>>) : x \in Symbols(g)}
MemberEdges(g) ==
  {Edge("references", SourceId(x[1]), SymbolId(x[1], x[2]),
        <<"member", g.contracts[x[1]].hash, g.contracts[x[1]].symbols[x[2]]>>) : x \in Symbols(g)}
InvalidSources(g) == {Gap("invalid-contract-source", SourceId(s), SourceId(s)) : s \in {t \in DOMAIN g.contracts : ~g.contracts[t].valid}}

Declarations(g) ==
  ContractNodes(g) \cup UNION {DeclaredNodes(g.docs[d]) \cup SpecialNodes(g.docs[d]) : d \in DOMAIN g.docs}

(* _cross_artifact_edges and _repository_nodes_and_edges                   *)
Mentions(g) ==
  LET known == Ids(Declarations(g))
      said == UNION {Relationships(g.docs[d]) : d \in DOMAIN g.docs}
      Resolved(p) == p[1] \in known /\ p[2] \in known
  IN [edges |-> {Edge("references", p[1], p[2], <<"declared">>) : p \in {q \in said : Resolved(q)}},
      gaps |-> {Gap("missing-endpoint", p[1], IF p[1] \in known THEN p[2] ELSE p[1]) :
                p \in {q \in said : ~Resolved(q)}}]
FileId(f) == <<IF f.test THEN "test" ELSE "code", "file", f.path>>
Mentioned(f) == {t \in f.refs : Kind(t) \in Noded}
Repository(g) ==
  LET known == Ids(Declarations(g))
      files == {f \in g.files : Mentioned(f) # {}}
      said == UNION {{<<FileId(f), t>> : t \in Mentioned(f)} : f \in files}
  IN [nodes |-> {Node(FileId(f), f.path, <<"repository">>) : f \in files},
      edges |-> {Edge("references", p[1], p[2], <<>>) : p \in {q \in said : q[2] \in known}},
      gaps |-> {Gap("missing-endpoint", p[1], p[2]) : p \in {q \in said : q[2] \notin known}}]

(* _evidence_nodes_and_edges                                               *)
EvidenceId(r) == <<"evidence", r.id>>
Truth(r) == <<r.kind, r.status, r.bound, r.hash>> \o r.subject
Agree(records) == \A r, q \in records : r.id = q.id => Truth(r) = Truth(q)
FeatureRecords(g) == {r \in g.records : r.feature}   \* those in the feature's directory
Evidence(g, nodes) ==
  LET records == FeatureRecords(g)
      ids == Ids(nodes)
      about == {r \in records : r.subject \in ids}
  IN [nodes |-> {Node(EvidenceId(r), r.kind, Truth(r)) : r \in records},
      edges |-> {Edge("evidenced-by", r.subject, EvidenceId(r), Truth(r)) : r \in about},
      gaps |-> {Gap("missing-evidence-subject", EvidenceId(r), r.subject) : r \in records \ about}]

(* build_audit_trace_index.  A binding names another event, a file, or an  *)
(* authority that leaves no file; the ledger is known to be whole.         *)
EventId(k) == <<"evidence", "event", k>>
BindingId(b) == <<"evidence", "binding", b.path, b.hash>>
TypedAt(g, path) == {r \in g.records : r.path = path}
Content(g, path) ==
  IF TypedAt(g, path) # {} THEN (CHOOSE r \in TypedAt(g, path) : TRUE).content
  ELSE IF path \in DOMAIN g.bytes THEN g.bytes[path] ELSE ""
BindingTarget(g, k, b) ==   \* the node that event k is linked to, None for nothing, or a gap
  LET content == Content(g, b.path)
      typed == TypedAt(g, b.path)
  IN IF b.event \in DOMAIN g.events \ {k} THEN EventId(b.event)
     ELSE IF content = "" /\ b.repository THEN <<"gap", "missing-audit-binding">>
     ELSE IF content \notin {"", b.hash} THEN <<"gap", "stale-audit-binding">>
     ELSE IF typed \cap FeatureRecords(g) # {} THEN EvidenceId(CHOOSE r \in typed : TRUE)
     ELSE IF typed # {} THEN <<"gap", "missing-audit-evidence-node">>
     ELSE IF b.evidence THEN BindingId(b) ELSE None
Audit(g) ==
  LET last == Len(g.events)
      found == UNION {{<<k, b, BindingTarget(g, k, b)>> : b \in g.events[k]} : k \in 1..last}
      linked == {x \in found : Kind(x[3]) = "evidence"}
      bound == {x \in linked : x[3] = BindingId(x[2])}
  IN IF last = 0 THEN [nodes |-> {}, edges |-> {}, gaps |-> {}]
     ELSE [nodes |-> {Node(<<"evidence", "ledger">>, "audit-ledger", <<"ledger">>)}
                     \cup {Node(EventId(k), "event", <<"event">>) : k \in 1..last}
                     \cup {Node(x[3], x[2].path, <<"binding", x[2].hash>>) : x \in bound},
           edges |-> {Edge("references", <<"evidence", "ledger">>, EventId(last), <<"ledger-head">>)}
                     \cup {Edge("references", EventId(x[1]), x[3], <<"binding-reference">>) : x \in linked},
           gaps |-> {Gap(x[3][2], EventId(x[1]), <<"file", x[2].path>>) : x \in {y \in found : Kind(y[3]) = "gap"}}]

(* build_contract_trace_links: the first thing that is wrong with a link   *)
LinkFrom(g, l) == IF l.address = "" THEN SourceId(l.source) ELSE SymbolId(l.source, l.address)
Misdecided(l) == l.decision \notin {"", l.sourceHash}   \* _load_decision: of another candidate
NoHash(g, ids, l) ==   \* mutant: the hashes of a link are not compared
  IF l.source \notin DOMAIN g.contracts THEN "dangling-contract-source"
  ELSE IF {LinkFrom(g, l), l.target} \subseteq ids THEN "none" ELSE "missing-contract-trace-target"
LinkGap(g, ids, l) ==
  IF l.source \notin DOMAIN g.contracts THEN "dangling-contract-source"
  ELSE IF g.contracts[l.source].hash # l.sourceHash THEN "stale-contract-source"
  ELSE IF LinkFrom(g, l) \notin ids THEN "dangling-contract-symbol"
  ELSE IF l.address # "" /\ g.contracts[l.source].symbols[l.address] # l.symbolHash THEN "stale-contract-symbol"
  ELSE IF l.target \notin ids THEN "missing-contract-trace-target"
  ELSE IF Misdecided(l) THEN "stale-contract-decision"
  ELSE "none"
RelationFor(target) ==
  CASE Kind(target) = "test" -> "verified-by"
    [] Kind(target) = "approval" -> "approved-by"
    [] Kind(target) = "evidence" -> "evidenced-by"
    [] OTHER -> "references"
Reaches(g, ids, l) == LinkGap(g, ids, l) \in {"none", "stale-contract-decision"}
Doubled(g, ids) ==   \* the same link twice, or one from a node to itself
  \E i, j \in DOMAIN g.links :
    /\ Reaches(g, ids, g.links[i]) /\ Reaches(g, ids, g.links[j])
    /\ LinkFrom(g, g.links[i]) = LinkFrom(g, g.links[j]) /\ g.links[i].target = g.links[j].target
    /\ i # j \/ g.links[i].target = LinkFrom(g, g.links[i])
ContractLinks(g, ids) ==
  LET links == {g.links[i] : i \in DOMAIN g.links}
      bad == {l \in links : LinkGap(g, ids, l) # "none"}
  IN [edges |-> {Edge(RelationFor(l.target), LinkFrom(g, l), l.target,
                      <<"link", l.sourceHash, l.symbolHash, l.decision>>) : l \in links \ bad},
      gaps |-> {Gap(LinkGap(g, ids, l), LinkFrom(g, l), l.target) : l \in bad}]

-----------------------------------------------------------------------------
(* TraceGraph: what is said twice must be said alike, and a relation goes  *)
(* between the kinds of _RELATION_ENDPOINTS.                               *)
All == Noded \cup {"code", "evidence"}
Endpoints(relation) ==
  CASE relation = "verified-by" -> <<{"requirement", "scenario", "task", "code", "contract"}, {"test", "evidence"}>>
    [] relation = "approved-by" -> <<{"requirement", "rfc", "adr", "contract", "threat"}, {"approval"}>>
    [] relation = "evidenced-by" -> <<All \ {"evidence"}, {"evidence"}>>
    [] relation = "references" -> <<All, All>>
NodesAgree(nodes) == \A m, n \in nodes : m.id = n.id => m = n
EdgesAgree(edges) ==
  \A e, f \in edges : <<e.relation, e.from, e.to>> = <<f.relation, f.from, f.to>> => e = f
Typed(nodes, edges) ==
  LET ids == Ids(nodes) IN
  \A e \in edges :
    /\ {e.from, e.to} \subseteq ids /\ e.from # e.to
    /\ Kind(e.from) \in Endpoints(e.relation)[1] /\ Kind(e.to) \in Endpoints(e.relation)[2]

(* build_feature_trace_graph                                               *)
Build(g) ==
  LET declared == Declarations(g)
      repository == Repository(g)
      evidence == Evidence(g, declared \cup repository.nodes)
      audit == Audit(g)
      nodes == declared \cup repository.nodes \cup evidence.nodes \cup audit.nodes
      mentions == Mentions(g)
      links == ContractLinks(g, Ids(nodes))
      edges == mentions.edges \cup MemberEdges(g) \cup repository.edges \cup evidence.edges \cup audit.edges \cup links.edges
  IN [nodes |-> nodes, edges |-> edges,
      gaps |-> mentions.gaps \cup InvalidSources(g) \cup repository.gaps \cup evidence.gaps \cup audit.gaps \cup links.gaps,
      refused |-> ~Agree(FeatureRecords(g)) \/ Doubled(g, Ids(nodes)) \/ ~NodesAgree(nodes) \/ ~EdgesAgree(edges) \/ ~Typed(nodes, edges)]

-----------------------------------------------------------------------------
(* _overall_status and _evidence_reports.  Of several files with one id    *)
(* the worst counts; only evidence files have a report.                    *)
Freshness(g, r) ==
  IF Content(g, r.bound) = "" THEN "missing"
  ELSE IF r.status = "blocked" THEN "blocked"
  ELSE IF Content(g, r.bound) # r.hash THEN "stale"
  ELSE IF r.status = "failed" THEN "blocked" ELSE "valid"
AnyRecord(g, id) == \E r \in FeatureRecords(g) : EvidenceId(r) = id   \* mutant: evidence need not be current
Valid(g, id) ==
  LET records == {r \in FeatureRecords(g) : EvidenceId(r) = id}
  IN records # {} /\ \A r \in records : Freshness(g, r) = "valid"

(* _structural_reachable: never through evidence or another requirement.   *)
Around(edges, ids) ==
  {e.to : e \in {f \in edges : f.from \in ids}} \cup {e.from : e \in {f \in edges : f.to \in ids}}
NotEvidence(id, r) == Kind(id) # "evidence"   \* mutant: the walk goes through other requirements
Walkable(id, r) == Kind(id) # "evidence" /\ (Kind(id) # "requirement" \/ id = r)
Structural(graph, r) ==
  LET steps == Cardinality(graph.nodes)
      Reached[k \in 0..steps] ==
        IF k = 0 THEN {r}
        ELSE LET before == Reached[k-1]
             IN before \cup {id \in Around(graph.edges, before) : Walkable(id, r)}
  IN Reached[steps]

(* _requirement_states                                                     *)
Dimensions == {"requirements", "tasks", "code", "tests", "security", "approvals"}
Covered(g, graph, r) ==
  LET near == Structural(graph, r)
      kinds == {Kind(id) : id \in near}
      current == {n \in graph.nodes : Kind(n.id) = "evidence" /\ n.id \in Around(graph.edges, near) /\ Valid(g, n.id)}
      proven == {n.metadata[1] : n \in current}
      direct == \E e \in graph.edges : e.relation = "evidenced-by" /\ e.from = r /\ Valid(g, e.to)
  IN {d \in Dimensions :
        CASE d = "requirements" -> direct
          [] d = "tasks" -> "task" \in kinds
          [] d = "code" -> "code" \in kinds
          [] d = "tests" -> "test" \in kinds \cup proven
          [] d = "security" -> "security" \in proven
          [] d = "approvals" -> "approval" \in proven}
Requirements(graph) == {id \in Ids(graph.nodes) : Kind(id) = "requirement"}
States(g, graph) == [r \in Requirements(graph) |-> Covered(g, graph, r)]

(* resolve_trace_policy and evaluate_trace_policy; an exact half of a      *)
(* hundredth, which Python rounds to even, takes 32 requirements.          *)
Default(risk, d) ==
  CASE risk = "trivial" -> 0
    [] risk = "standard" -> IF d \in {"security", "approvals"} THEN 0 ELSE 8000
    [] risk \in {"critical", "regulated"} -> 10000
LastLayer(policy, d) ==   \* mutant: the last layer that speaks decides
  LET said == {l \in DOMAIN policy.layers : d \in DOMAIN policy.layers[l]}
  IN IF said = {} THEN Default(policy.risk, d) ELSE policy.layers[Max(said)][d]
Threshold(policy, d) ==
  LET said == {l \in DOMAIN policy.layers : d \in DOMAIN policy.layers[l]}
  IN Max({Default(policy.risk, d)} \cup {policy.layers[l][d] : l \in said})
Actual(states, d) ==
  LET all == Cardinality(DOMAIN states)
      some == Cardinality({r \in DOMAIN states : d \in states[r]})
  IN IF all = 0 THEN 10000 ELSE (some * 20000 + all) \div (2 * all)
Evaluate ==
  /\ answer = Unanswered /\ UNCHANGED given
  /\ LET graph == Build(given)
         states == States(given, graph)
     IN answer' = IF graph.refused THEN [outcome |-> "refused"]
                  ELSE [outcome |-> "evaluated", graph |-> graph, states |-> states,
                        below |-> {d \in Dimensions : Actual(states, d) < Threshold(given.policy, d)}]

Next ==
  \/ AddLine \/ AddFile \/ Record \/ ChangeFile \/ EditContract \/ AddLink \/ Happen
  \/ Evaluate
Spec == Init /\ [][Next]_vars
-----------------------------------------------------------------------------
Evaluated == answer.outcome = "evaluated"

(* A requirement is covered only by what is connected to it without the    *)
(* help of another requirement or of evidence: by what every set that      *)
(* holds the requirement and, but for those, the neighbours of its members *)
(* holds too.  What is not connected, stale or failed counts for nothing.  *)
Connected(r) ==
  LET between == {id \in Ids(answer.graph.nodes) : Kind(id) \notin {"evidence", "requirement"}}
      closed == {S \in SUBSET between : Around(answer.graph.edges, S \cup {r}) \cap between \subseteq S}
  IN {id \in between : \A S \in closed : id \in S}
CurrentRecords(r) ==
  {e \in FeatureRecords(given) :
     /\ e.status \in {"passed", "recorded"} /\ Content(given, e.bound) = e.hash
     /\ \E id \in Connected(r) \cup {r} : \E x \in answer.graph.edges : {x.from, x.to} = {id, EvidenceId(e)}}
CoverageIsEarned ==
  Evaluated =>
    \A r \in DOMAIN answer.states :
      LET kinds == {Kind(id) : id \in Connected(r)}
          proofs == {e.kind : e \in CurrentRecords(r)}
      IN /\ answer.states[r] \ {"requirements"} =
              {d \in Dimensions :
              \/ d = "tasks" /\ "task" \in kinds
              \/ d = "code" /\ "code" \in kinds
              \/ d = "tests" /\ "test" \in kinds \cup proofs
              \/ d = "security" /\ "security" \in proofs
              \/ d = "approvals" /\ "approval" \in proofs}
         /\ "requirements" \in answer.states[r] => \E e \in CurrentRecords(r) : e.subject = r

(* No layer of policy can take back what another asked for: when a feature *)
(* passes, each layer that demands everything of a dimension has it of     *)
(* each requirement, and so have the defaults of a critical feature.       *)
PassedMeansCovered ==
  Evaluated =>
    \A d \in Dimensions \ answer.below :
      (\/ \E l \in DOMAIN given.policy.layers : d \in DOMAIN given.policy.layers[l] /\ given.policy.layers[l][d] = 10000
       \/ given.policy.risk \in {"critical", "regulated"})
      => \A r \in DOMAIN answer.states : d \in answer.states[r]

(* An edge of the contract trace is of the contract as it is now, symbol,  *)
(* source and decision.                                                    *)
LinksAreCurrent ==
  Evaluated =>
    \A e \in answer.graph.edges :
      e.metadata # <<>> /\ e.metadata[1] = "link" =>
        LET c == given.contracts[e.from[2]] IN
        /\ e.metadata[2] = c.hash /\ e.metadata[4] \in {"", c.hash}
        /\ Len(e.from) = 3 => c.valid /\ e.metadata[3] = c.symbols[e.from[3]]

(* What anybody mentioned is an edge of the graph or a gap that names it,  *)
(* and a graph is refused only for what is told in two ways: the builder   *)
(* never makes an edge that the graph has no place for.                    *)
NothingIsLost ==
  Evaluated =>
    \A d \in DOMAIN given.docs : \A i, j \in DOMAIN given.docs[d] :
      LET doc == given.docs[d] IN
      i <= j /\ doc[i].declares # None /\ (\A k \in i+1..j : doc[k].declares = None) =>
        \A t \in doc[j].refs \ {doc[i].declares} :
          \/ Kind(t) \notin Indexed
          \/ \E e \in answer.graph.edges : e.from = doc[i].declares /\ e.to = t
          \/ \E x \in answer.graph.gaps : x.from = doc[i].declares /\ x.target \in {t, doc[i].declares}
OnlyConflictsRefuse ==
  answer.outcome = "refused" =>
    \/ ~Agree(FeatureRecords(given))
    \/ \E i, j \in DOMAIN given.links : i # j /\ given.links[i].target = given.links[j].target
    \/ \E i \in DOMAIN given.links, r \in given.records :   \* a contract linked to its own evidence
         given.links[i].target = EvidenceId(r) /\ Kind(r.subject) = "contract"
    \/ LET docs == given.docs IN
       \E d, e \in DOMAIN docs : \E i \in DOMAIN docs[d], j \in DOMAIN docs[e] :
         /\ <<d, i>> # <<e, j>>
         /\ \E id \in {docs[d][i].declares, docs[d][i].special} \ {None} : id \in {docs[e][j].declares, docs[e][j].special}
=============================================================================
