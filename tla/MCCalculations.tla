---------------------------- MODULE MCCalculations ----------------------------
(***************************************************************************)
(* The calculations of the framework for TLC, each on inputs of its own.   *)
(* A behaviour is about one of them: system says which.                    *)
(***************************************************************************)
EXTENDS Integers, Sequences, FiniteSets, TLC

VARIABLES system, given, answer
vars == <<system, given, answer>>

-----------------------------------------------------------------------------
(* Workflows: overlays over an inherited workflow, and graphs.             *)
StepAt(path, kind, does, writes) == [path |-> path, kind |-> kind, does |-> does, writes |-> writes]
Work(id) == StepAt(<<id>>, "agent", "build", TRUE)
Base == <<Work("w"), StepAt(<<"s">>, "sequence", "none", FALSE), StepAt(<<"s", "b">>, "agent", "draft", FALSE),
          StepAt(<<"q">>, "sequence", "none", FALSE), StepAt(<<"q", "a">>, "approval", "gate", FALSE),
          StepAt(<<"p">>, "parallel", "none", FALSE), StepAt(<<"p", "r">>, "agent", "review", FALSE)>>
Chain(modes, steps) == [i \in DOMAIN modes |-> [mode |-> modes[i], steps |-> steps[i]]]
Halves == <<SubSeq(Base, 1, 3), SubSeq(Base, 4, 7)>>
Modes == {"unset", "critical"}
WorkflowChains ==
  {Chain(<<a, b>>, Halves) : a, b \in Modes}
  \cup {Chain(<<"unset", "unset">>, <<Halves[1], Append(Halves[2], Work("w"))>>)}
New(kind, does, writes) == <<StepAt(<<"n">>, kind, does, writes)>>
Op(op, target, step) == [op |-> op, target |-> target, step |-> step]
WorkflowOperations ==
  {Op(op, t, <<>>) : op \in {"remove"}, t \in {<<"w">>, <<"s">>, <<"q">>, <<"n">>, <<"p", "r">>}}
  \cup {Op(op, t, n) : op \in {"insert-before", "insert-after"}, t \in {<<"w">>, <<"p", "r">>},
          n \in {New("agent", "build", TRUE), New("approval", "gate", FALSE)}}
  \cup {Op("prepend", <<>>, New("sequence", "none", FALSE) \o <<StepAt(<<"n", "m">>, "agent", "build", TRUE)>>),
        Op("append", <<>>, <<Work("w")>>),
        Op("replace", <<"w">>, <<StepAt(<<"w">>, "agent", "build", FALSE)>>),
        Op("replace", <<"r">>, <<StepAt(<<"r">>, "agent", "review", TRUE)>>),
        Op("replace", <<"n">>, <<StepAt(<<"n">>, "sequence", "none", FALSE)>>)}

Overlays == INSTANCE WorkflowOverlays WITH
  Chains <- WorkflowChains, Lifecycle <- <<"w", "b">>, Operations <- WorkflowOperations,
  HookSteps <- {StepAt(<<"h">>, "approval", "gate", FALSE), StepAt(<<"r">>, "agent", "review", FALSE),
                StepAt(<<"k">>, "agent", "build", TRUE)},
  Required <- {"b", "x"}, MaxSteps <- 3

(* Graphs: a step has what its kind needs, and defaults for the rest.      *)
Node == [path |-> <<>>, kind |-> "agent", writes |-> FALSE, wide |-> 1, max |-> 2,
          expr |-> [op |-> "literal", value |-> 1], cases |-> <<>>, sources |-> <<>>]
NodeAt(path, kind) == [Node EXCEPT !.path = path, !.kind = kind]
Literal(v) == [op |-> "literal", value |-> v]
Ref(kind, id) == [op |-> "ref", ref |-> <<kind, id>>]
Of(op, terms) == [op |-> op, terms |-> terms]
NodeAsking(path, kind, e) == [NodeAt(path, kind) EXCEPT !.expr = e]
GraphOf(steps) == [version |-> 9, mandatory |-> {}, steps |-> steps]
LoopBelow(n) == Of("lt", <<Ref("loop", "iteration"), Literal(n)>>)
GraphWorkflows ==
  {GraphOf(<<NodeAt(<<"a">>, "agent"), NodeAsking(<<"i">>, "if", e), NodeAt(<<"i", "$then", "b">>, "agent"),
          NodeAt(<<"i", "$else", "c">>, "agent"),
          [NodeAt(<<"j">>, "fan-in") EXCEPT !.sources = sources]>>) :
     e \in {Ref("steps", "a"), Of("and", <<Ref("steps", "a"), Ref("steps", "b")>>),
            Of("or", <<Of("not", <<Ref("steps", "a")>>), [op |-> "exists", ref |-> <<"steps", "b">>]>>)},
     sources \in {<<<<"a">>>>, <<<<"b">>, <<"a">>>>, <<<<"i", "$else", "c">>>>, <<<<"j">>>>, <<<<"z">>>>}}
  \cup {GraphOf(<<NodeAsking(<<"f">>, kind, Literal(items)), NodeAt(<<"f", "$body", "a">>, "agent"),
              NodeAsking(<<"f", "$body", "w">>, "bounded-while", e), NodeAt(<<"f", "$body", "w", "$body", "b">>, "agent")>>) :
          kind \in {"fan-out", "foreach"}, items \in {<<1, 1>>, <<1, 2, 1>>},
          e \in {LoopBelow(1), LoopBelow(2), LoopBelow(3), Of("eq", <<LoopBelow(1)>>), Of("and", <<LoopBelow(2), Ref("steps", "a")>>)}}
  \cup {GraphOf(<<NodeAsking(<<"w">>, "bounded-while", Of("and", <<LoopBelow(2), Ref("steps", "b")>>)), NodeAt(<<"b">>, "agent"),
              NodeAt(<<"w", "$body", "a">>, "agent")>>),
        GraphOf(<<NodeAt(<<"b">>, "agent"), NodeAsking(<<"w">>, "bounded-while", Of("and", <<LoopBelow(2), Ref("steps", "b")>>)),
              NodeAsking(<<"w", "$body", "f">>, "foreach", Literal(<<2, 2>>)),
              NodeAsking(<<"w", "$body", "f", "$body", "s">>, "switch", Ref("item", "item")),
              NodeAt(<<"w", "$body", "f", "$body", "s", "$default", "d">>, "agent")>>)}
  \cup {GraphOf(<<NodeAt(<<"a">>, "agent"), [NodeAsking(<<"s">>, "switch", Ref("steps", "a")) EXCEPT !.cases = cases],
              NodeAt(<<"s", "$case", 1, "b">>, "agent"), NodeAt(<<"s", "$case", 2, "c">>, "approval"),
              NodeAt(<<"s", "$default", "d">>, "agent")>>) : cases \in {<<1, 0>>, <<1, 1>>, <<1, 3>>}}
  \cup {[version |-> v, mandatory |-> m, steps |->
          <<[NodeAt(<<"p">>, "parallel") EXCEPT !.wide = wide], NodeAt(<<"p", "a">>, kind),
            NodeAt(<<"p", id>>, "agent"), NodeAt(<<"p", "q">>, "sequence"), NodeAt(<<"p", "q", "x">>, "agent")>>] :
          v \in {8, 9}, m \in {{"x"}, {"y"}}, wide \in {0, 1, 2}, kind \in {"agent", "plugin"}, id \in {"a", "b"}}
Graphs == INSTANCE WorkflowGraph WITH Workflows <- GraphWorkflows, Outputs <- {0, 1}, MaxLost <- 2

Piece(kind, of) == [kind |-> kind, of |-> of]
Value(type, pieces) == [type |-> type, pieces |-> pieces]
NoValue == Value("none", <<>>)
Word(t) == Value("string", <<Piece("text", t)>>)
Number == Value("integer", <<Piece("text", "1")>>)
Words == Value("string-list", <<Piece("text", "u"), Piece("text", "v")>>)
Expression(n) == Value("string", <<Piece("expression", n)>>)
Within(n) == Value("string", <<Piece("text", "t"), Piece("expression", n)>>)
Malformed == Value("string", <<Piece("malformed", "x")>>)
Input(type, required, default, enum) == [type |-> type, required |-> required, default |-> default, enum |-> enum]
TextStep(id, text) == [id |-> id, text |-> text, uses |-> NoValue, with |-> <<>>, fields |-> "known"]
Use(ref, with) == [id |-> Word(""), text |-> Word(""), uses |-> ref, with |-> with, fields |-> "known"]
Component(inputs, requires, steps) == [inputs |-> inputs, requires |-> requires, steps |-> steps, places |-> 1]

(* Components that require each other in every way, and ones whose inputs  *)
(* have a type, an enumeration or a default.                               *)
Requirements == [{"a", "b", "c"} -> {<<>>, <<"a">>, <<"b">>, <<"c">>, <<"b", "c">>}]
Bare(requires) == Component(<<>>, requires, <<TextStep(Word("s"), Word("t"))>>)
Linked == {[id \in {"a", "b", "c"} |-> Bare(r[id])] : r \in Requirements}
Typed == {"x" :> Component("n" :> i, <<>>, <<TextStep(Expression("n"), t)>>) :
            i \in {Input("string", TRUE, NoValue, {}), Input("string", TRUE, NoValue, {Word("w"), Expression("n")}),
                   Input("integer", FALSE, Number, {}), Input("string-list", FALSE, NoValue, {})},
            t \in {Word("t"), Expression("n"), Within("n"), Malformed}}
         \cup {"x" :> [Bare(<<>>) EXCEPT !.places = 2], "x" :> [Bare(<<>>) EXCEPT !.steps[1].fields = "shell"]}

Refs == {Word("a"), Word("b"), Word("c")}
FlowOf(inputs, values, steps) == [inputs |-> inputs, values |-> values, steps |-> steps]
LinkedFlows == {FlowOf(<<>>, <<>>, <<Use(r, <<>>), Use(s, <<>>), Use(t, <<>>)>>) : r \in Refs, s \in Refs, t \in Refs}
TypedFlows ==
  {FlowOf(i, v, <<TextStep(Expression("m"), w), Use(Word("x"), with)>>) :
     i \in {<<>>, "m" :> Input("string", FALSE, NoValue, {}), "m" :> Input("integer", FALSE, Number, {Number}),
            "m" :> Input("string-list", TRUE, NoValue, {})},
     v \in {<<>>, "m" :> Word("w"), "m" :> Expression("n"), "m" :> Number, "m" :> Words},
     w \in {Word("t"), Within("m")},
     with \in {<<>>, "n" :> Expression("m"), "n" :> Within("m"), "n" :> Word("w")}}
  \cup {FlowOf("m" :> Input("string", TRUE, NoValue, {}), "m" :> w, <<Use(Expression("m"), <<>>)>>) : w \in {Word("x"), Word("y"), Number}}
LinkedComponents == INSTANCE WorkflowComponents WITH Workflows <- LinkedFlows, Libraries <- Linked
TypedComponents == INSTANCE WorkflowComponents WITH Workflows <- TypedFlows, Libraries <- Typed

-----------------------------------------------------------------------------
(* Contracts: Protobuf files, JSON schemas, and the policy for a change.   *)
(* Documents with a message, an enum, a service, or imports.               *)
Declared(kind, entries, ranges, names, alias) ==
  [kind |-> kind, name |-> 1, entries |-> entries, ranges |-> ranges, names |-> names, alias |-> alias]
Document(syntax, imports, declarations) ==
  [syntax |-> syntax, package |-> "p", imports |-> imports, declarations |-> declarations]
Entry(name, number, type, cardinality) ==
  [name |-> name, number |-> number, type |-> type, cardinality |-> cardinality]
FewOf(S, n) == {{}} \cup {{x} : x \in S} \cup (IF n = 1 THEN {} ELSE {{x, y} : x, y \in S})
ProtoFields == {Entry(a, n, t, c) : a \in {1, 2}, n \in {1, 2}, t \in {"t", "u"}, c \in {"singular"}}
                 \cup {Entry(2, 2, "t", "required"), Entry(1, 4, "t", "singular")}
ProtoDocuments ==
  {Document("proto3", {}, {Declared("message", E, R, N, FALSE)}) :
     E \in FewOf(ProtoFields, 2), R \in FewOf({<<1, 1>>, <<1, 2>>, <<2, 1>>}, 1), N \in {{}, {1}}}
  \cup {Document("proto3", {}, {Declared("enum", E, R, {}, alias)}) :
     E \in SUBSET {Entry(a, n, "v", "v") : a \in {1, 2}, n \in {0, 1}}, R \in FewOf({<<0, 0>>, <<0, 1>>}, 1),
     alias \in BOOLEAN}
  \cup {Document(x, {}, {Declared("service", E, {}, {}, FALSE)}) : x \in {"proto2", "proto3"},
     E \in FewOf({Entry(a, 0, t, "call") : a \in {1, 2}, t \in {"unary", "stream"}}, 2)}
  \cup {Document("proto3", I, {}) :
     I \in FewOf({[path |-> p, modifier |-> m] : p \in {<<1>>, <<2>>, <<3, 2>>, <<4>>}, m \in {"", "public"}}, 2)}

Protobuf == INSTANCE ProtobufContracts WITH
  Documents <- ProtoDocuments, Directions <- {"backward", "forward", "full"},
  Sources <- {<<1>>, <<3, 1>>, <<3, 2>>}, Folder <- <<3>>, MaxNumber <- 3, Internal <- {3}

(* Schemas: plain ones, objects of them, and ones with $ref and allOf.     *)
Schema == INSTANCE JsonSchemaContracts WITH Comparisons <- {}, Instances <- {}
PlainSchemas == {Schema!True, Schema!False, Schema!With("type", {"integer"}), Schema!With("type", {"integer", "string"}),
          Schema!With("enum", {1}), Schema!With("enum", {1, 2}), Schema!With("minimum", 1),
          Schema!With("minimum", 2), Schema!With("maximum", 1)}
Named(S) == {[p \in {"a"} |-> s] : s \in S} \cup {<<>>}
Object(properties, additional, required) ==
  [Schema!Anything EXCEPT !.properties = properties, !.additional = additional, !.required = required]
Reference(siblings) == [siblings EXCEPT !.ref = "d"]
Objects == {Object(P, s, r) : P \in Named(PlainSchemas \ {Schema!With("enum", {1, 2})}),
              s \in {Schema!True, Schema!False, Schema!With("type", {"integer"})}, r \in {{}, {"a"}}}
Composed == {Schema!With("multipleOf", 2), Schema!With("allOf", <<Schema!With("minimum", 2)>>),
             Schema!With("allOf", <<Reference(Schema!Anything)>>), Reference(Schema!Anything),
             Reference(Schema!With("maximum", 2)), Object([p \in {"a"} |-> Reference(Schema!Anything)], Schema!True, {}),
             Schema!With("ref", "none")}
SchemaDocument(dialect, root, d) == [dialect |-> dialect, root |-> root, defs |-> [n \in {"d"} |-> d]]
SchemaDocuments ==
  {SchemaDocument("2020-12", s, Schema!True) : s \in PlainSchemas \cup Objects}
  \cup {SchemaDocument(x, s, d) : x \in {"draft-07", "2020-12"}, s \in Composed,
          d \in {Schema!With("minimum", 1), Schema!With("minimum", 2)}}
Scalar(type, value) == [type |-> type, value |-> value, members |-> <<>>]
Values == {Scalar("integer", n) : n \in 1 .. 3} \cup {Scalar("string", n) : n \in {1, 4}}
SchemaInstances ==
  Values \cup {[type |-> "object", value |-> 0, members |-> m] : m \in UNION {[C -> Values] : C \in SUBSET {"a", "b"}}}

Schemas == INSTANCE JsonSchemaContracts WITH
  Comparisons <- [before : SchemaDocuments, after : SchemaDocuments, direction : {"backward", "forward", "full"}],
  Instances <- SchemaInstances

Rules == {[breaking |-> b, unknown |-> u, evidence |-> e] :
            b \in {"unset", "yes", "no"}, u \in {"unset"}, e \in {{}, {"adr"}}}
         \cup {[breaking |-> "unset", unknown |-> "yes", evidence |-> {}]}
Shape(type, kind, status, role, model, binding) ==
  [type |-> type, kind |-> kind, status |-> status, role |-> role, model |-> model, binding |-> binding]
RecordShapes ==
  {Shape("architecture-approval", "approval", "passed", "architecture-approver", m, "source") : m \in {"none", "some"}}
  \cup {Shape("migration-plan", "review", x, "author", "some", "artifact") : x \in {"recorded", "failed"}}
  \cup {Shape("migration-plan", "review", "passed", "author", "none", "source")}
Governance == INSTANCE ContractGovernance WITH
  Candidates <- <<{"breaking"}, {"breaking", "unknown"}, {}>>, Layers <- Rules, Shapes <- RecordShapes,
  Criticality <- "critical", MaxSteps <- 3

-----------------------------------------------------------------------------
(* Packs: trust and certification.                                         *)
Manifest(publisher, note) == [publisher |-> publisher, version |-> 1, note |-> note]
PackManifests == {Manifest("p", 1), Manifest("p", 2), Manifest("q", 1)}
CatalogOf(id, source, m, c) == [id |-> id, source |-> source, entries |-> {[manifest |-> m, content |-> c]}]
CatalogSets ==
  {[organization |-> {CatalogOf("c", "s", Manifest("p", 1), 1)}, repository |-> R, user |-> {}] :
     R \in {{}, {CatalogOf("d", "t", Manifest("q", 1), 2)}, {CatalogOf("c", "t", Manifest("p", 1), 1)},
            {CatalogOf("c", "s", Manifest("p", 1), 1)}}}
TrustPolicy(require, catalogs, notCatalogs, publishers, notPublishers) ==
  [require |-> require, catalogs |-> catalogs, notCatalogs |-> notCatalogs,
   publishers |-> publishers, notPublishers |-> notPublishers]
Every == {"*"}
TrustPolicies ==
  {TrustPolicy(FALSE, Every, {}, Every, {}), TrustPolicy(TRUE, Every, {}, Every, {}), TrustPolicy(FALSE, {"s"}, {}, {"p"}, {}),
   TrustPolicy(FALSE, {"s", "t"}, {"t"}, {"p", "q"}, {"q"}), TrustPolicy(FALSE, {}, {}, Every, {})}
Setups ==
  {[catalogs |-> c, policies |-> [organization |-> o, repository |-> r, user |-> u]] :
     c \in CatalogSets, o \in TrustPolicies, r \in {TrustPolicy(FALSE, Every, {}, Every, {}), TrustPolicy(FALSE, {"s", "t"}, {"t"}, {"p", "q"}, {"q"})}, u \in {TrustPolicy(FALSE, Every, {}, Every, {}), TrustPolicy(TRUE, {"t"}, {}, Every, {"p"})}}

Trust == INSTANCE PackTrust WITH
  Manifests <- PackManifests, Contents <- {1, 2}, Setups <- Setups, Algorithms <- {"known"}, MaxSteps <- 3

Demands(minimum, dimensions, cases) == [minimum |-> minimum, dimensions |-> dimensions, cases |-> cases]
Demanded(require, default, extra) == [require |-> require, default |-> default, extra |-> extra]
CertificationPolicies ==
  {Demanded(FALSE, Demands(0, <<>>, {}), <<>>), Demanded(TRUE, Demands(1, <<>>, {}), <<>>),
   Demanded(FALSE, Demands(0, "x" :> 2, {}), <<>>), Demanded(TRUE, Demands(0, "x" :> 1, {}), "risk" :> Demands(2, <<>>, {})),
   Demanded(TRUE, Demands(1, <<>>, {"a"}), "capability" :> Demands(0, "y" :> 1, {"b"}))}
CaseSpec(dimension, input) == [dimension |-> dimension, input |-> input]
Certification == INSTANCE PackCertification WITH
  Policies <- CertificationPolicies, Cases <- [a |-> {CaseSpec("x", 1)}, b |-> {CaseSpec("x", 1), CaseSpec("y", 2)}],
  MaxScore <- 2, MaxSteps <- 2

-----------------------------------------------------------------------------
(* Policy, profiles and providers.                                         *)
Anything == {"*"}
Unset == [profiles |-> Anything, providers |-> Anything, models |-> <<>>, capProfiles |-> <<>>, capProviders |-> <<>>,
   write |-> TRUE, approval |-> FALSE, bypass |-> TRUE, protected |-> {}, environment |-> Anything,
   skills |-> <<>>, artifacts |-> <<>>, waivers |-> TRUE]
Choices ==
  {Unset, [Unset EXCEPT !.profiles = {"p", "q"}], [Unset EXCEPT !.providers = {"v"}, !.environment = {"A"}],
   [Unset EXCEPT !.models = ("v" :> {"m"} @@ "r" :> {"m", "n"}), !.environment = {"A", "B"}],
   [Unset EXCEPT !.models = "p" :> {"n"}, !.write = FALSE], [Unset EXCEPT !.capProfiles = "security" :> {"q", "r"}],
   [Unset EXCEPT !.capProfiles = "security" :> {"r"}, !.capProviders = "coding" :> {"v", "w"}]}
Profile(name, order, provider, model, priority, cost) ==
  [name |-> name, order |-> order, provider |-> provider, model |-> model, enabled |-> TRUE, priority |-> priority, cost |-> cost,
   capabilities |-> {"coding", "security"}, risks |-> {"standard", "critical"}, complexities |-> {"medium"},
   context |-> 2, technologies |-> {"*"}, advanced |-> TRUE]
Three ==
  {Profile("p", 1, "v", "m", 1, 1), Profile("q", 2, "v", "", 0, 2),
   [Profile("r", 3, "w", "n", 1, 0) EXCEPT !.advanced = FALSE, !.technologies = {"go"}]}
Teams == {Three, {[p EXCEPT !.enabled = p.name # "q", !.cost = 3 - @] : p \in Three}}
Setup(mode, layers, profiles, default) == [mode |-> mode, layers |-> layers, profiles |-> profiles, default |-> default]

(* Every merge of layers, and the requests that tell profiles apart.       *)
LayerSetups ==
  {Setup(m, l, Three, "p") : m \in {"individual", "enterprise"},
     l \in UNION {[O -> Choices] : O \in SUBSET {"organization", "repository", "user"}}}
TeamSetups ==
  {Setup("individual", l, t, d) : l \in {<<>>, "user" :> [Unset EXCEPT !.models = ("v" :> {"m"} @@ "r" :> {"m", "n"})]}, t \in Teams, d \in {"p", "r"}}

RouteFor(capability) ==
  [capability |-> capability, risk |-> "standard", complexity |-> "medium", context |-> 1, cost |-> 2, technologies |-> {"go"},
   profile |-> "", provider |-> "", model |-> "", availability |-> <<>>, stage |-> "", optimization |-> "balanced",
   fallback |-> <<>>, withHealth |-> TRUE, writing |-> FALSE]
TeamRequests ==
  {[RouteFor("coding") EXCEPT !.optimization = o, !.fallback = f, !.profile = p, !.cost = c, !.withHealth = h] :
     o \in {"balanced", "cost", "latency"}, f \in {<<>>, <<"r", "q">>}, p \in {"", "q"}, c \in {1, 2}, h \in BOOLEAN}
  \cup {[RouteFor("security") EXCEPT !.provider = v, !.model = m, !.technologies = t, !.availability = a] :
          v \in {"", "v", "w"}, m \in {"", "n"}, t \in {{"go"}, {"c"}}, a \in {<<>>, "v" :> FALSE, "v" :> FALSE @@ "p" :> TRUE}}
  \cup {[RouteFor("coding") EXCEPT !.risk = "critical", !.context = 3], [RouteFor("coding") EXCEPT !.stage = "final-review", !.writing = TRUE]}
End(profile, status, latency) == [profile |-> profile, status |-> status, latency |-> latency]

Layers == INSTANCE ModelRouting WITH
  Setups <- LayerSetups, Requests <- {RouteFor("coding")}, Ends <- {}, Window <- 1, MaxAttempts <- 0
Teamwork == INSTANCE ModelRouting WITH
  Setups <- TeamSetups, Requests <- TeamRequests, Window <- 3, MaxAttempts <- 2,
  Ends <- {End("p", "failed", 5), End("r", "unavailable", 1), End("r", "succeeded", 3), End("q", "succeeded", 8)}
Health == INSTANCE ModelRouting WITH
  Setups <- {Setup("individual", <<>>, Three, "p")}, Requests <- {RouteFor("coding")}, Window <- 3, MaxAttempts <- 4,
  Ends <- {End("p", s, 5) : s \in {"succeeded", "failed", "unavailable", "cancelled"}} \cup {End("q", "unavailable", 5)}

-----------------------------------------------------------------------------
(* Traceability: two requirements, their tasks and tests, one contract.    *)
Line == [declares |-> <<"none", "">>, special |-> <<"none", "">>, title |-> "", status |-> "", refs |-> {}]
Declare(kind, name, refs) == [Line EXCEPT !.declares = <<kind, name>>, !.title = name, !.refs = refs \cup {<<kind, name>>}]
Mention(refs) == [Line EXCEPT !.refs = refs]
R1 == <<"requirement", "1">>
R2 == <<"requirement", "2">>
T1 == <<"task", "1">>
TraceDocuments ==
  <<<<Declare("requirement", "1", {}), Mention({T1})>>, <<Mention({R1}), Declare("task", "1", {}), Declare("approval", "1", {R1})>>>>
TraceContracts == [api |-> [hash |-> "h1", symbols |-> [get |-> "s1"], valid |-> TRUE],
                   old |-> [hash |-> "h2", symbols |-> [put |-> "s2"], valid |-> FALSE]]
TraceStarts == {[docs |-> d, files |-> {}, bytes |-> [out |-> "c1"], contracts |-> TraceContracts] :
                  d \in {TraceDocuments, <<<<Declare("requirement", "1", {}), Declare("requirement", "2", {R1, T1})>>, <<>>>>}}
TraceLines ==
  {Declare("requirement", "2", {T1}), Mention({R2, <<"mitigation", "1">>}), [Line EXCEPT !.status = "done"], Declare("task", "1", {R1}),
   Declare("mitigation", "1", {R2}), [Line EXCEPT !.special = <<"rfc", "1">>, !.title = "one"]}
TraceFiles == {[path |-> "a", test |-> FALSE, refs |-> {T1, <<"rfc", "1">>}], [path |-> "b", test |-> TRUE, refs |-> {R1, <<"contract", "api">>}]}
Proof(path, id, kind, status, subject) ==
  [path |-> path, id |-> id, kind |-> kind, status |-> status, subject |-> subject, bound |-> "out", hash |-> "c1",
   content |-> "e", feature |-> TRUE]
TraceRecords ==
  {Proof("e1", "x", "test", "passed", R1), Proof("e2", "x", "test", "failed", R1), Proof("e3", "y", "security", "passed", T1),
   Proof("e4", "z", "approval", "recorded", <<"contract", "api">>), [Proof("e5", "z", "approval", "passed", R2) EXCEPT !.feature = FALSE]}
LinkTo(source, address, symbolHash, target) ==
  [source |-> source, address |-> address, sourceHash |-> "h1", symbolHash |-> symbolHash, target |-> target, decision |-> ""]
TraceLinks ==
  {LinkTo("api", "", "", T1), LinkTo("api", "get", "s1", <<"test", "file", "b">>), LinkTo("api", "get", "s0", R1),
   LinkTo("api", "", "", <<"evidence", "z">>), [LinkTo("api", "", "", R1) EXCEPT !.decision = "h0"]}
Binding(event, path, hash, evidence, repository) ==
  [event |-> event, path |-> path, hash |-> hash, evidence |-> evidence, repository |-> repository]
TraceEvents ==
  {{Binding(0, "workflow", "w", TRUE, FALSE), Binding(0, "e1", "e", TRUE, TRUE), Binding(0, "out", "c1", TRUE, TRUE)}, {Binding(1, "log", "c1", FALSE, TRUE), Binding(0, "e5", "e", TRUE, TRUE)}}
TracePolicies ==
  {[risk |-> "trivial", layers |-> <<[code |-> 10000, tests |-> 5000], <<>>, [code |-> 0, tasks |-> 10000]>>],
   [risk |-> "critical", layers |-> <<<<>>, [tests |-> 5000], <<>>>>]}

Trace == INSTANCE Traceability WITH
  Starts <- TraceStarts, Lines <- TraceLines, Files <- TraceFiles, Records <- TraceRecords, Links <- TraceLinks,
  Events <- TraceEvents, Policies <- TracePolicies, MaxSteps <- 3

-----------------------------------------------------------------------------
(* Features over two repositories, or one that is edited twice.            *)
Code == <<"code", "x">>
Evidence(problem, repository, commit, state, links) ==
  [problem |-> problem, ours |-> TRUE, repository |-> repository, references |-> {[commit |-> commit, state |-> state, links |-> links]}]
NoEvidence == [problem |-> "absent", ours |-> TRUE, repository |-> "", references |-> {}]
RepositoryWith(trace, evidence) ==
  [git |-> TRUE, project |-> TRUE, clean |-> TRUE, history |-> <<1, 2>>, commits |-> {0, 1, 2}, feature |-> TRUE, builds |-> TRUE,
   trace |-> trace, evidence |-> evidence, verdict |-> "passed", moves |-> {}, retold |-> {}]
ApiTrace == R1 :> "told" @@ T1 :> "told" @@ Code :> "told"
Sourced == <<"contract", "source:c">>
WebTrace == R1 :> "told" @@ R2 :> "told" @@ <<"code", "y">> :> "told" @@ Sourced :> "told"
Api == RepositoryWith(ApiTrace, Evidence("none", "api", 2, "open", {T1, Code}))
Web == RepositoryWith(WebTrace, Evidence("none", "web", 1, "merged", {<<"code", "y">>}))
Selector(type, matches) == [type |-> type, matches |-> matches]
Owner(id, path, owns, required) ==
  [id |-> id, path |-> path, owns |-> owns, capabilities |-> {"requirement", "task", "contract"}, required |-> required]
ApiOwner == Owner("api", "a", {Selector("requirement", {"1"}), Selector("task", {"1", "2"})}, TRUE)
WebOwner == Owner("web", "w", {Selector("requirement", {"2"}), Selector("contract", {"source:c"})}, FALSE)
Both == <<ApiOwner, WebOwner>>
FeatureManifests ==
  {Both, <<ApiOwner>>, <<ApiOwner, Owner("web", "w", {Selector("requirement", {"1", "2"})}, TRUE)>>}
Store(exists, readable, names) == [state |-> "read", of |-> "s" :> [exists |-> exists, readable |-> readable, names |-> names]]
NoStores == [state |-> "none", of |-> <<>>]
FeatureStores == {NoStores, Store(TRUE, TRUE, {"1", "2"}), Store(TRUE, FALSE, {}), [NoStores EXCEPT !.state = "unreadable"]}
Start(repos, m, stores) == [repos |-> repos, manifest |-> m, stores |-> stores, spent |-> 1]
Pair(a, w) == "a" :> a @@ "w" :> w
FeatureStarts ==
  {Start(Pair(Api, Web), m, NoStores) :
     m \in {<<>>, Both, <<ApiOwner, [WebOwner EXCEPT !.owns = {Selector("component", {"c"})}]>>}}
  \cup {Start(Pair(Api, Web), Both, s) : s \in FeatureStores}
  \cup {Start(Pair(Api, w), Both, NoStores) :
          w \in {[Web EXCEPT !.git = FALSE], [Web EXCEPT !.project = FALSE], [Web EXCEPT !.feature = FALSE], [Web EXCEPT !.clean = FALSE],
                 [Web EXCEPT !.builds = FALSE], [Web EXCEPT !.evidence = NoEvidence], [Web EXCEPT !.evidence.repository = "api"]}}
  \cup {Start(Pair(Api, Web) @@ "v" :> Web,
          <<ApiOwner, Owner("web", "v", {Selector("requirement", {"2"})}, TRUE), Owner("wide", "w", {Selector("task", {"3"})}, FALSE)>>, NoStores)}
  \cup {[Start("a" :> Api, <<ApiOwner>>, NoStores) EXCEPT !.spent = 0]}
Change(path, f, v) == [path |-> path, new |-> f :> v, committed |-> TRUE]
FeatureEdits ==
  {[Change("a", "trace", ApiTrace @@ <<"task", "2">> :> "told") EXCEPT !.committed = FALSE], Change("w", "trace", [WebTrace EXCEPT ![R1] = "retold"]),
   Change("w", "trace", [WebTrace EXCEPT ![Sourced] = "retold"]), Change("w", "verdict", "failed"), Change("a", "verdict", "infrastructure-failed"),
   Change("a", "trace", R1 :> "told" @@ Code :> "told"), Change("a", "trace", ApiTrace @@ <<"task", "3">> :> "told"),
   Change("a", "evidence", Evidence("none", "api", 0, "open", {Code})), Change("a", "evidence", Evidence("none", "api", 9, "open", {Code})),
   Change("a", "evidence", Evidence("none", "api", 1, "closed", {Code})), Change("w", "builds", FALSE)}
Repositories == INSTANCE FeatureRepositories WITH Starts <- FeatureStarts, Manifests <- FeatureManifests, Edits <- FeatureEdits,
  Nested <- {{"v", "w"}}, Sourced <- {Sourced}, MaxSteps <- 2

-----------------------------------------------------------------------------
Init ==
  \/ system = "overlays" /\ Overlays!Init
  \/ system = "graphs" /\ Graphs!Init
  \/ system = "linked" /\ LinkedComponents!Init
  \/ system = "typed" /\ TypedComponents!Init
  \/ system = "protobuf" /\ Protobuf!Init
  \/ system = "schema" /\ Schemas!Init
  \/ system = "governance" /\ Governance!Init
  \/ system = "trust" /\ Trust!Init
  \/ system = "certification" /\ Certification!Init
  \/ system = "layers" /\ Layers!Init
  \/ system = "teamwork" /\ Teamwork!Init
  \/ system = "health" /\ Health!Init
  \/ system = "trace" /\ Trace!Init
  \/ system = "repositories" /\ Repositories!Init
Next ==
  /\ UNCHANGED system
  /\ \/ system = "overlays" /\ Overlays!Next
     \/ system = "graphs" /\ Graphs!Next
     \/ system = "linked" /\ LinkedComponents!Next
     \/ system = "typed" /\ TypedComponents!Next
     \/ system = "protobuf" /\ Protobuf!Next
     \/ system = "schema" /\ Schemas!Next
     \/ system = "governance" /\ Governance!Next
     \/ system = "trust" /\ Trust!Next
     \/ system = "certification" /\ Certification!Next
     \/ system = "layers" /\ Layers!Next
     \/ system = "teamwork" /\ Teamwork!Next
     \/ system = "health" /\ Health!Next
     \/ system = "trace" /\ Trace!Next
     \/ system = "repositories" /\ Repositories!Next
Spec == Init /\ [][Next]_vars
-----------------------------------------------------------------------------
(* The properties of the modules, each for the systems it is about.        *)
In(names) == system \in names

(* What a workflow becomes of layers, components and a graph keeps what    *)
(* its authors demanded: mandatory steps, gates before writers, the mode,  *)
(* components with all they need; and nothing that has to be done is       *)
(* skipped, done twice, or taken for another execution.                    *)
DefinitionsHold ==
  /\ In({"overlays"}) =>
       /\ Overlays!MandatedStays /\ Overlays!GatesStay /\ Overlays!HooksAreAtAnchors
       /\ Overlays!NoWriterIsAdded /\ Overlays!ModeIsNotLowered
  /\ In({"graphs"}) => Graphs!EachExecutionIsDistinct /\ Graphs!CompletedOnce /\ Graphs!PassIsWhole
  /\ In({"linked", "typed"}) =>
       TypedComponents!NeedsAreMet /\ TypedComponents!NothingIsLeft /\ TypedComponents!InputsAreTyped

(* A change that breaks somebody is found, whatever hides it, and it is    *)
(* approved by whom every layer of policy asks for; and what is said to be *)
(* covered is covered, by what is there now.                               *)
ChangesAreJudged ==
  /\ In({"protobuf"}) => Protobuf!NumbersKeepMeaning /\ Protobuf!NothingIsFreed
  /\ In({"schema"}) => Schemas!SilenceIsSafe
  /\ In({"governance"}) => Governance!BreakingIsApproved /\ Governance!LayersOnlyTighten
  /\ In({"trace"}) =>
       /\ Trace!CoverageIsEarned /\ Trace!PassedMeansCovered /\ Trace!LinksAreCurrent
       /\ Trace!NothingIsLost /\ Trace!OnlyConflictsRefuse
  /\ In({"repositories"}) =>
       /\ Repositories!SuccessIsWhole /\ Repositories!MovesAreSeen /\ Repositories!CrashMeansGone

(* What is trusted, certified or chosen satisfies every layer of policy,   *)
(* and for the reason that is reported.                                    *)
ChoicesAreGoverned ==
  /\ In({"trust"}) => Trust!EachScopeAgrees /\ Trust!ReportedIsSigned
  /\ In({"certification"}) =>
       /\ Certification!CertifiedForEachScope /\ Certification!DisplayedAgrees
       /\ Certification!NotRequiredByAnyone
  /\ In({"layers"}) => Layers!EachLayerAgrees /\ Layers!EnvironmentIsGranted
  /\ In({"teamwork"}) => Teamwork!NoSilentFallback /\ Teamwork!NotDominated
  /\ In({"health"}) => Health!CancelsAreNeutral
=============================================================================
