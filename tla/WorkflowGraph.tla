----------------------------- MODULE WorkflowGraph -----------------------------
(***************************************************************************)
(* The graph of a workflow (workflow_graph.py) and how its control nodes   *)
(* are executed (workflow_execution.py, _execute_path): what is executed   *)
(* next, under which identity, in which context, and what of it is read    *)
(* back when the process was lost.  What one leaf does to the run is in    *)
(* WorkflowExecution.                                                      *)
(*                                                                         *)
(* A workflow is its steps in preorder.  The path of a step holds the ids  *)
(* of the steps around it and the slots ("$then", "$body") it is in; the   *)
(* hash of a value is the value.                                           *)
(***************************************************************************)
EXTENDS Integers, Sequences, SequencesExt, FiniteSets

CONSTANTS
  Workflows,    \* [version, mandatory, steps] as resolved by WorkflowOverlays
  Outputs,      \* what a leaf may answer
  MaxLost       \* how often the process may be lost

VARIABLES
  given,    \* the execution: see Init
  answer    \* "none" yet, "refused", "succeeded" or "failed"

vars == <<given, answer>>

Id(s) == Last(s.path)
Leaf == {"agent", "approval", "plugin"}
Looping == {"fan-out", "foreach"}
ControlKinds == {"sequence", "parallel", "if", "switch", "fan-in", "bounded-while"} \cup Looping
MaxConcurrency == 32

Step(w, path) == CHOOSE s \in Range(w.steps) : s.path = path
(* The direct steps in a slot of a node, in their order.                   *)
Children(w, within) ==
  LET direct == SelectSeq(w.steps, LAMBDA s : Len(s.path) = Len(within) + 1 /\ IsPrefix(within, s.path))
  IN [i \in DOMAIN direct |-> direct[i].path]
-----------------------------------------------------------------------------
(* evaluate_workflow_expression.  A context holds the outputs of steps by  *)
(* id, the iteration of the innermost loop, and the item.                  *)
Unresolved == [kind |-> "unresolved"]
Value(v) == [kind |-> "value", value |-> v]
Resolve(ref, c) ==
  CASE ref[1] = "steps" -> IF ref[2] \in DOMAIN c.steps THEN c.steps[ref[2]] ELSE Unresolved
    [] ref[1] = "loop" -> c.loop
    [] ref[1] = "item" -> c.item
RECURSIVE Evaluate(_, _)
Evaluate(e, c) ==
  CASE e.op = "literal" -> Value(e.value)
    [] e.op = "ref" -> Resolve(e.ref, c)
    [] e.op = "exists" -> Value(IF Resolve(e.ref, c) = Unresolved THEN 0 ELSE 1)
    [] OTHER ->   \* every term is evaluated, so each has to resolve
         LET terms == [i \in DOMAIN e.terms |-> Evaluate(e.terms[i], c)]
             v == [i \in DOMAIN terms |-> terms[i].value]
             truth == CASE e.op = "not" -> v[1] = 0
                        [] e.op = "eq" -> v[1] = v[2]
                        [] e.op = "lt" -> v[1] < v[2]
                        [] e.op = "and" -> \A i \in DOMAIN v : v[i] # 0
                        [] e.op = "or" -> \E i \in DOMAIN v : v[i] # 0
         IN IF Unresolved \in Range(terms) THEN Unresolved ELSE Value(IF truth THEN 1 ELSE 0)
-----------------------------------------------------------------------------
(* normalize_workflow_expression: how many terms an operator takes, and    *)
(* how deep terms may be nested.                                           *)
MaxDepth == 32
RECURSIVE Depth(_)
Depth(e) ==
  IF e.op \in {"literal", "ref", "exists"} THEN 0
  ELSE 1 + LET d == {Depth(t) : t \in Range(e.terms)} \cup {0} IN CHOOSE n \in d : \A k \in d : k <= n
RECURSIVE Normal(_)
Normal(e) ==
  /\ Depth(e) <= MaxDepth
  /\ e.op \notin {"literal", "ref", "exists"} =>
       /\ CASE e.op = "not" -> Len(e.terms) = 1
            [] e.op \in {"eq", "lt"} -> Len(e.terms) = 2
            [] OTHER -> Len(e.terms) \in 1 .. 32
       /\ \A t \in Range(e.terms) : Normal(t)
-----------------------------------------------------------------------------
(* _GraphBuilder and load_workflow_graph                                   *)
UniqueIds(w) == \A i, j \in DOMAIN w.steps : Id(w.steps[i]) = Id(w.steps[j]) => i = j
Slots(s) ==
  CASE s.kind \in {"sequence", "parallel"} -> {<<>>}
    [] s.kind = "if" -> {<<"$then">>}
    [] s.kind = "switch" -> {<<"$case", i>> : i \in DOMAIN s.cases}
    [] s.kind \in Looping \cup {"bounded-while"} -> {<<"$body">>}
    [] OTHER -> {}
Filled(w) == \A s \in Range(w.steps) : \A slot \in Slots(s) : Children(w, s.path \o slot) # <<>>
Version(w) ==
  /\ (\E s \in Range(w.steps) : s.kind \in ControlKinds \ {"parallel"}) => w.version >= 9
  /\ (\E s \in Range(w.steps) : s.kind = "plugin") => w.version >= 8
BoundsHold(w) ==
  \A s \in Range(w.steps) :
    /\ Normal(s.expr)
    /\ s.kind \in {"parallel", "fan-out"} => s.wide \in 1 .. MaxConcurrency
    /\ s.kind \in Looping \cup {"bounded-while"} => s.max \in 1 .. 100
    /\ s.kind \in Looping /\ s.expr.op = "literal" => Len(s.expr.value) <= s.max
    /\ s.kind = "switch" => s.cases # <<>> /\ IsInjective(s.cases)
(* resolve_fan_in: an exact path, or the id of one step.                   *)
Sources(w, name) ==
  IF \E s \in Range(w.steps) : s.path = name THEN {name}
  ELSE {s.path : s \in {t \in Range(w.steps) : Len(name) = 1 /\ Id(t) = name[1]}}
SourceOf(w, name) == CHOOSE p \in Sources(w, name) : TRUE
FansIn(w) ==
  \A s \in {t \in Range(w.steps) : t.kind = "fan-in"} :
    \A k \in DOMAIN s.sources :
      Cardinality(Sources(w, s.sources[k])) = 1 /\ SourceOf(w, s.sources[k]) # s.path
Loads(w) ==
  /\ w.steps # <<>> /\ Version(w) /\ UniqueIds(w) /\ Filled(w) /\ BoundsHold(w) /\ FansIn(w)
  /\ w.mandatory \subseteq {Id(s) : s \in Range(w.steps)}
-----------------------------------------------------------------------------
(* An execution walks the graph with an agenda: what is left of the node   *)
(* it is in, of the node around that, and so on.                           *)
Some(paths, prefix) == [do |-> "children", paths |-> paths, prefix |-> prefix]
Empty == [steps |-> <<>>, loop |-> Unresolved, item |-> Unresolved]
Fresh(w) ==
  [agenda |-> <<Some(Children(w, <<>>), <<>>)>>, context |-> Empty,
   outputs |-> <<>>,   \* path -> output of its last execution
   seen |-> <<>>]      \* identities of the leaves, in the order of execution
Init ==
  \E w \in Workflows :
    /\ given = Fresh(w) @@
         [workflow |-> w, lost |-> 0,
          completed |-> <<>>]   \* tasks that the ledger holds: [identity, context, output]
    /\ answer = IF Loads(w) THEN "none" ELSE "refused"

Running == answer = "none"
Top == Head(given.agenda)
Rest == Tail(given.agenda)
Fail == answer' = "failed" /\ UNCHANGED given
Go(agenda, g) == given' = [g EXCEPT !.agenda = agenda] /\ UNCHANGED answer

(* The next step of the list on top of the agenda.                         *)
Visits(kinds) ==
  /\ Running /\ given.agenda # <<>> /\ Top.do = "children" /\ Top.paths # <<>>
  /\ Step(given.workflow, Head(Top.paths)).kind \in kinds
Node == Step(given.workflow, Head(Top.paths))
Identity == Append(Top.prefix, Node.path)
After == <<[Top EXCEPT !.paths = Tail(@)]>> \o Rest
(* _record and _set_context_output                                         *)
Recorded(g, s, value) ==
  [g EXCEPT !.outputs = (s.path :> value) @@ @, !.context.steps = (Id(s) :> Value(value)) @@ @]
Done(s) == [do |-> "record", step |-> s]

(* A leaf: its task is known by its identity, with the context.            *)
TaskOf(identity, context) == <<identity, context>>
Known ==
  {i \in DOMAIN given.completed :
     TaskOf(given.completed[i].identity, given.completed[i].context) = TaskOf(Identity, given.context)}
VisitLeaf ==
  /\ Visits(Leaf)
  /\ LET g == [given EXCEPT !.seen = Append(@, Identity)] IN
     IF Known # {}
     THEN Go(After, Recorded(g, Node, given.completed[CHOOSE i \in Known : TRUE].output))
     ELSE \E o \in Outputs :
       Go(After, Recorded([g EXCEPT !.completed =
         Append(@, [identity |-> Identity, context |-> given.context, output |-> o])], Node, o))

(* _subtree_requires_write                                                 *)
Writes(s) == s.kind = "plugin" \/ (s.kind = "agent" /\ s.writes)
MayWrite(path) == \E s \in Range(given.workflow.steps) : IsPrefix(path, s.path) /\ Writes(s)

VisitList ==
  /\ Visits({"sequence", "parallel"})
  /\ LET inside == Children(given.workflow, Node.path) IN
     IF Node.kind = "parallel" /\ Node.wide > 1 /\ \E i \in DOMAIN inside : MayWrite(inside[i])
     THEN Fail
     ELSE Go(<<Some(inside, Identity), Done(Node)>> \o After, given)

Chosen(value) ==
  IF Node.kind = "if" THEN IF value # 0 THEN <<"$then">> ELSE <<"$else">>
  ELSE LET matching == {i \in DOMAIN Node.cases : Node.cases[i] = value} IN
       IF matching = {} THEN <<"$default">> ELSE <<"$case", CHOOSE i \in matching : \A j \in matching : i <= j>>
VisitBranch ==
  /\ Visits({"if", "switch"})
  /\ LET v == Evaluate(Node.expr, given.context) IN
     IF v = Unresolved THEN Fail
     ELSE Go(<<Some(Children(given.workflow, Node.path \o Chosen(v.value)), Identity \o Chosen(v.value)),
               Done(Node)>> \o After, given)

(* The body is asked about in its first step only.                         *)
Body == Children(given.workflow, Append(Node.path, "$body"))
VisitItems ==
  /\ Visits(Looping)
  /\ LET v == Evaluate(Node.expr, given.context) IN
     IF \/ v = Unresolved
        \/ Len(v.value) > Node.max
        \/ Node.kind = "fan-out" /\ Node.wide > 1 /\ MayWrite(Body[1])
     THEN Fail
     ELSE Go(<<[do |-> "items", items |-> v.value, at |-> 1, body |-> Body, identity |-> Identity,
                outer |-> given.context], Done(Node)>> \o After, given)
(* An item is executed in a copy of the context around the loop.           *)
ItemById(n, item) == <<"item", item>>   \* mutant: equal items are one
ItemName(n, item) == <<"item", n, item>>
NextItem ==
  /\ Running /\ given.agenda # <<>> /\ Top.do = "items"
  /\ LET n == Top.at IN
     IF n > Len(Top.items) THEN Go(Rest, [given EXCEPT !.context = Top.outer])
     ELSE Go(<<Some(Top.body, Append(Top.identity, ItemName(n, Top.items[n]))),
               [Top EXCEPT !.at = n + 1]>> \o Rest,
             [given EXCEPT !.context = [Top.outer EXCEPT !.item = Value(Top.items[n])]])

VisitWhile ==
  /\ Visits({"bounded-while"})
  /\ Go(<<[do |-> "while", step |-> Node, at |-> 0, body |-> Body, identity |-> Identity],
          Done(Node)>> \o After, given)
(* The condition is asked once more after the last iteration.              *)
NextIteration ==
  /\ Running /\ given.agenda # <<>> /\ Top.do = "while"
  /\ LET c == [given.context EXCEPT !.loop = Value(Top.at)]
         v == Evaluate(Top.step.expr, c)
     IN IF v = Unresolved \/ (v.value # 0 /\ Top.at = Top.step.max) THEN Fail
        ELSE IF v.value = 0 THEN Go(Rest, [given EXCEPT !.context = c])
        ELSE Go(<<Some(Top.body, Append(Top.identity, <<"iteration", Top.at>>)),
                  [Top EXCEPT !.at = @ + 1]>> \o Rest, [given EXCEPT !.context = c])

VisitFanIn ==
  /\ Visits({"fan-in"})
  /\ LET from == [k \in DOMAIN Node.sources |-> SourceOf(given.workflow, Node.sources[k])] IN
     IF Range(from) \subseteq DOMAIN given.outputs
     THEN Go(After, Recorded(given, Node, [k \in DOMAIN from |-> given.outputs[from[k]]]))
     ELSE Fail

Record ==
  /\ Running /\ given.agenda # <<>> /\ Top.do = "record"
  /\ Go(Rest, Recorded(given, Top.step, <<>>))
Leave ==
  /\ Running /\ given.agenda # <<>> /\ Top.do = "children" /\ Top.paths = <<>>
  /\ Go(Rest, given)
Complete == Running /\ given.agenda = <<>> /\ answer' = "succeeded" /\ UNCHANGED given

(* The process is lost, and the graph is executed again: nothing is left   *)
(* but the tasks in the ledger.                                            *)
Lose ==
  /\ Running /\ given.lost < MaxLost /\ given.seen # <<>>
  /\ given' = Fresh(given.workflow) @@ [given EXCEPT !.lost = @ + 1] /\ UNCHANGED answer

Next ==
  \/ VisitLeaf \/ VisitList \/ VisitBranch \/ VisitItems \/ NextItem \/ VisitWhile \/ NextIteration
  \/ VisitFanIn \/ Record \/ Leave \/ Complete \/ Lose
Spec == Init /\ [][Next]_vars
-----------------------------------------------------------------------------
(* WORKFLOW-EXECUTION-V2.md: "Repeated equal items therefore remain        *)
(* distinct": no two executions of leaves in a pass have one identity, in  *)
(* whatever loops, items and branches they are.                            *)
EachExecutionIsDistinct == IsInjective(given.seen)

(* However often the process is lost, no leaf is completed twice: each     *)
(* pass comes to each of its leaves with the context of the pass before.   *)
CompletedOnce ==
  \A i, j \in DOMAIN given.completed :
    given.completed[i].identity = given.completed[j].identity => i = j

(* When the graph is through, everything that was ever completed belongs   *)
(* to the last pass, which is a whole one.                                 *)
PassIsWhole ==
  answer = "succeeded" =>
    {given.completed[i].identity : i \in DOMAIN given.completed} = Range(given.seen)
=============================================================================
