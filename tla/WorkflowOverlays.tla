--------------------------- MODULE WorkflowOverlays ---------------------------
(***************************************************************************)
(* Inheritance of workflows and the overlays of the organization, the      *)
(* repository and the user upon them (workflow_overlays.py).               *)
(*                                                                         *)
(* A workflow is its steps in preorder, each with its path: the subtree of *)
(* a step is the segment of the entries whose paths begin with its own.    *)
(* The operations and hooks of all documents, in the order in which the    *)
(* documents are sorted, are one sequence in which the layer never falls.  *)
(***************************************************************************)
EXTENDS Integers, Sequences, SequencesExt, FiniteSets

CONSTANTS
  Chains,       \* chains of inheritance, the root first: sequences of
                \* [mode, steps], where a mode may be "unset"
  Lifecycle,    \* phase -> id of the step that is its anchor
  Operations,   \* what documents may ask for: [op, target, step]
  HookSteps,    \* entries that may be hooked
  Required,     \* ids that an organization may require
  MaxSteps      \* operations and hooks of all documents together

VARIABLES
  given,    \* the resolution under way: see Init
  answer    \* how it ended: "refused", "resolved", or "none" yet

vars == <<given, answer>>

Protecting == {"approval", "quality-gate", "validate", "parallel", "fan-out"}
Concurrent == {"parallel", "fan-out"}
Hookable == {"agent", "approval", "quality-gate", "validate"}
Layer == {"org", "repo", "user"}
Rank(layer) == CASE layer = "org" -> 10 [] layer = "repo" -> 20 [] OTHER -> 30
ModeRank(mode) == CASE mode = "light" -> 0 [] mode = "standard" -> 1 [] OTHER -> 2
Points == {<<side, phase>> : side \in {"before", "after"}, phase \in DOMAIN Lifecycle}
(* _HOOK_POINTS: phase after phase, before it and after it.                *)
PointOrder ==
  [i \in 1 .. 2 * Cardinality(DOMAIN Lifecycle) |->
     <<IF i % 2 = 1 THEN "before" ELSE "after", (i + 1) \div 2>>]

Id(e) == Last(e.path)
Ids(steps) == {Id(steps[i]) : i \in DOMAIN steps}
Within(path, e) == IsPrefix(path, e.path)
Size(steps, i) == Cardinality({j \in DOMAIN steps : Within(steps[i].path, steps[j])})
Subtree(steps, i) == SubSeq(steps, i, i + Size(steps, i) - 1)
(* A subtree as a child of the step at a path.                             *)
Below(parent, tree) == [k \in DOMAIN tree |-> [tree[k] EXCEPT !.path = parent \o @]]

(* _find_step_location: an exact path, or the id of one step only.         *)
Matches(steps, target) ==
  {i \in DOMAIN steps : IF Len(target) > 1 THEN steps[i].path = target ELSE Id(steps[i]) = target[1]}
Found(steps, target) == Cardinality(Matches(steps, target)) = 1
Location(steps, target) == CHOOSE i \in Matches(steps, target) : TRUE

(* _is_protected_step                                                      *)
ProtectedStep(tree) == tree[1].kind \in Protecting   \* mutant: what is below does not count
Protected(tree) ==
  \E k \in DOMAIN tree : tree[k].kind \in Protecting \/ (tree[k].kind = "agent" /\ tree[k].does = "security")
(* _writable_concurrent_branches                                           *)
ConcurrentWriters(steps) ==
  LET groups == {e.path : e \in {x \in Range(steps) : x.kind \in Concurrent}}
      writers == {e.path : e \in {x \in Range(steps) : x.writes}}
  IN {<<p, q>> \in groups \X writers : IsStrictPrefix(p, q)}
(* _validate_overlay_step, and what else a document has to say of an       *)
(* operation for it to be read at all (_parse_overlay).                    *)
ValidStep(tree) == ConcurrentWriters(tree) = {}
WellFormed(o) ==
  /\ o.op # "remove" => ValidStep(o.step)
  /\ o.op = "replace" => Id(o.step[1]) = Last(o.target)
ValidHook(e) == e.kind \in Hookable /\ ~e.writes
-----------------------------------------------------------------------------
(* _merge_inherited, from the root of the chain to the workflow.           *)
ModeAfter(inherited, own) == IF own = "unset" THEN inherited ELSE own
Modes(chain) ==
  FoldLeft(LAMBDA modes, w :
             Append(modes, ModeAfter(IF modes = <<>> THEN "standard" ELSE Last(modes), w.mode)),
           <<>>, chain)
Inherits(chain) ==
  \A i \in 2 .. Len(chain) : ModeRank(Modes(chain)[i]) >= ModeRank(Modes(chain)[i - 1])
StepsOf(chain) == FlattenSeq([i \in DOMAIN chain |-> chain[i].steps])

Init ==
  \E chain \in Chains :
    /\ given =
         [chain |-> chain, mode |-> Last(Modes(chain)),
          steps |-> StepsOf(chain), base |-> StepsOf(chain),
          org |-> StepsOf(chain),        \* the steps when the organization's documents are applied
          layer |-> "org", mutated |-> {}, mandatory |-> {}, anchors |-> {},
          pending |-> <<>>, count |-> 0]
    /\ answer = IF Inherits(chain) /\ StepsOf(chain) # <<>> THEN "none" ELSE "refused"
-----------------------------------------------------------------------------
Running == answer = "none"
(* The next operation or hook belongs to a document of this layer.         *)
Proceeds(layer) ==
  /\ Running /\ given.count < MaxSteps /\ Rank(layer) >= Rank(given.layer)
Entering(layer) ==
  [given EXCEPT !.layer = layer, !.count = @ + 1, !.mutated = IF layer = given.layer THEN @ ELSE {},
                !.org = IF given.layer = "org" THEN given.steps ELSE @]
Refuse == answer' = "refused" /\ UNCHANGED given

(* The ids that an operation adds are new, and differ from each other.     *)
DistinctIds(tree) == \A i, j \in DOMAIN tree : Id(tree[i]) = Id(tree[j]) => i = j
Fresh(steps, tree) == DistinctIds(tree) /\ Ids(steps) \cap Ids(tree) = {}

(* _validate_lower_replacement: the kind, what is done, and no more rights.*)
Narrower(old, new) ==
  /\ ~Protected(old) /\ old[1].kind = new[1].kind
  /\ old[1].kind \in {"agent", "deterministic"} => old[1].does = new[1].does
  /\ old[1].kind = "agent" /\ new[1].writes => old[1].writes

(* Parts of _apply_operation that ask whether a layer may remove or        *)
(* replace a step with all that is below it.                               *)
KeepsIds(tree, ids) == Ids(tree) \cap ids = {}
MayDestroy(g, layer, tree) ==
  layer = "org" \/ (KeepsIds(tree, g.mandatory) /\ KeepsIds(tree, g.anchors))

MayApply(g, layer, o) ==
  LET i == Location(g.steps, o.target)
      old == Subtree(g.steps, i)
      outside == Ids(g.steps) \ Ids(old)
  IN
  CASE o.op \in {"prepend", "append"} -> Fresh(g.steps, o.step)
    [] o.op \in {"insert-before", "insert-after"} -> Found(g.steps, o.target) /\ Fresh(g.steps, o.step)
    [] o.op = "remove" ->
         /\ Found(g.steps, o.target) /\ g.steps[i].path \notin g.mutated
         /\ MayDestroy(g, layer, old) /\ (layer = "org" \/ ~Protected(old))
    [] o.op = "replace" ->
         /\ Found(g.steps, o.target) /\ g.steps[i].path \notin g.mutated
         /\ MayDestroy(g, layer, old) /\ (layer = "org" \/ Narrower(old, o.step))
         /\ DistinctIds(o.step) /\ outside \cap Ids(o.step) = {}

Applied(steps, o) ==
  LET i == Location(steps, o.target)
      end == i + Size(steps, i)
      new == Below(Front(steps[i].path), o.step)
  IN
  CASE o.op = "prepend" -> o.step \o steps
    [] o.op = "append" -> steps \o o.step
    [] o.op = "insert-before" -> SubSeq(steps, 1, i - 1) \o new \o SubSeq(steps, i, Len(steps))
    [] o.op = "insert-after" -> SubSeq(steps, 1, end - 1) \o new \o SubSeq(steps, end, Len(steps))
    [] o.op = "remove" -> SubSeq(steps, 1, i - 1) \o SubSeq(steps, end, Len(steps))
    [] o.op = "replace" -> SubSeq(steps, 1, i - 1) \o new \o SubSeq(steps, end, Len(steps))

(* An operation, and the comparison of the writers that run concurrently   *)
(* before and after it.                                                    *)
NoNewWriters(before, after) == ConcurrentWriters(after) \subseteq ConcurrentWriters(before)
Operate(layer, o) ==
  LET g == Entering(layer)
      after == Applied(g.steps, o)
  IN
  /\ Proceeds(layer)
  /\ IF /\ WellFormed(o)
        /\ MayApply(g, layer, o)
        /\ NoNewWriters(g.steps, after)
     THEN /\ given' =
               [g EXCEPT
                  !.steps = after,
                  !.mutated = IF o.op \in {"remove", "replace"}
                              THEN @ \cup {g.steps[Location(g.steps, o.target)].path} ELSE @,
                  !.mandatory = IF layer = "org" /\ o.op # "remove" THEN @ \cup Ids(o.step) ELSE @]
          /\ UNCHANGED answer
     ELSE Refuse

(* required_steps, which only the organization may name.                   *)
Require(id) ==
  /\ Proceeds("org") /\ given' = [Entering("org") EXCEPT !.mandatory = @ \cup {id}]
  /\ UNCHANGED answer

(* A hook: its anchor is protected now, and its steps are inserted later.  *)
Hook(layer, point, e) ==
  LET g == Entering(layer)
      anchor == Lifecycle[point[2]]
  IN
  /\ Proceeds(layer)
  /\ IF ValidHook(e) /\ Found(g.steps, <<anchor>>)
     THEN /\ given' = [g EXCEPT
                         !.anchors = @ \cup {anchor},
                         !.pending = Append(@, [layer |-> layer, point |-> point, step |-> e]),
                         !.mandatory = IF layer = "org" THEN @ \cup {Id(e), anchor} ELSE @]
          /\ UNCHANGED answer
     ELSE Refuse

(* _insert_hooks                                                           *)
AtPoint(pending, point) == SelectSeq(pending, LAMBDA h : h.point = point)
WithHooks(steps, pending) ==
  FoldLeft(LAMBDA s, point :
             LET hooks == AtPoint(pending, point)
                 i == Location(s, <<Lifecycle[point[2]]>>)
                 at == IF point[1] = "before" THEN i - 1 ELSE i + Size(s, i) - 1
                 new == [k \in DOMAIN hooks |-> [hooks[k].step EXCEPT !.path = Front(s[i].path) \o @]]
             IN IF hooks = <<>> THEN s ELSE SubSeq(s, 1, at) \o new \o SubSeq(s, at + 1, Len(s)),
           steps, PointOrder)
HooksAreNew(steps, pending) ==
  /\ \A i, j \in DOMAIN pending : Id(pending[i].step) = Id(pending[j].step) => i = j
  /\ \A i \in DOMAIN pending :
       Id(pending[i].step) \notin Ids(steps) /\ Found(steps, <<Lifecycle[pending[i].point[2]]>>)

(* The end of resolve_workflow_data                                        *)
Resolve ==
  LET g == [given EXCEPT !.org = IF given.layer = "org" THEN given.steps ELSE @]
      steps == WithHooks(g.steps, g.pending)
  IN
  /\ Running
  /\ IF HooksAreNew(g.steps, g.pending) /\ g.mandatory \subseteq Ids(steps)
     THEN given' = [g EXCEPT !.steps = steps] /\ answer' = "resolved"
     ELSE Refuse

Next ==
  \/ \E layer \in Layer, o \in Operations : Operate(layer, o)
  \/ \E id \in Required : Require(id)
  \/ \E layer \in Layer, point \in Points, e \in HookSteps : Hook(layer, point, e)
  \/ Resolve
Spec == Init /\ [][Next]_vars
-----------------------------------------------------------------------------
Resolved == answer = "resolved"
EntryOf(steps, id) == CHOOSE e \in Range(steps) : Id(e) = id
Position(steps, id) == CHOOSE i \in DOMAIN steps : Id(steps[i]) = id
SameStep(e, f) == e.kind = f.kind /\ e.does = f.does /\ e.writes = f.writes

(* WORKFLOW-OVERLAYS.md, "Organization non-weakening": what is mandated    *)
(* when the organization's documents are through is in the effective       *)
(* workflow with the content it had there, and in the same order.          *)
MandatedStays ==
  Resolved => LET M == given.mandatory \cap Ids(given.org) IN
    /\ \A id \in M :
         id \in Ids(given.steps) /\ SameStep(EntryOf(given.steps, id), EntryOf(given.org, id))
    /\ \A x, y \in M : Position(given.org, x) < Position(given.org, y)
                         => Position(given.steps, x) < Position(given.steps, y)

(* The same holds of every gate, check and group that runs concurrently,   *)
(* mandated or not, whatever subtree a lower layer removes or replaces.    *)
GatesStay ==
  Resolved => \A i \in DOMAIN given.org :
    given.org[i].kind \in Protecting =>
      \E e \in Range(given.steps) : Id(e) = Id(given.org[i]) /\ SameStep(e, given.org[i])

(* Nothing but hooks stands between a step with hooks and its hooks.       *)
HooksAreAtAnchors ==
  Resolved =>
    LET hooked == {Id(given.pending[k].step) : k \in DOMAIN given.pending} IN
    \A k \in DOMAIN given.pending :
      LET h == given.pending[k]
          anchor == Position(given.steps, Lifecycle[h.point[2]])
          at == Position(given.steps, Id(h.step))
          after == {i \in DOMAIN given.steps : Within(given.steps[anchor].path, given.steps[i])}
      IN IF h.point[1] = "before"
         THEN at < anchor /\ \A i \in at .. anchor - 1 : Id(given.steps[i]) \in hooked
         ELSE at > anchor /\ \A i \in (anchor .. at) \ after : Id(given.steps[i]) \in hooked

(* "Overlay operations cannot introduce a workspace-writing branch beneath *)
(* a concurrent node", whatever is removed, replaced and inserted; and the *)
(* ids of a workflow that names each step once stay unique.                *)
NoWriterIsAdded ==
  Resolved =>
    /\ ConcurrentWriters(given.steps) \subseteq ConcurrentWriters(given.base)
    /\ DistinctIds(given.base) => DistinctIds(given.steps)

(* No workflow validates less strictly than any that it inherits from.     *)
ModeIsNotLowered ==
  Resolved => \A i \in DOMAIN given.chain :
    given.chain[i].mode # "unset" => ModeRank(given.mode) >= ModeRank(given.chain[i].mode)
=============================================================================
