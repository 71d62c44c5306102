-------------------------- MODULE WorkflowComponents --------------------------
(***************************************************************************)
(* The composition of a workflow from components with typed inputs         *)
(* (workflow_components.py: compose_workflow), one step of the workflow    *)
(* after the other, before any other rule looks at it.                     *)
(*                                                                         *)
(* A value has a type and pieces: pieces of text, expressions "${{ inputs.n *)
(* }}" and malformed ones.  The strings of a definition may hold           *)
(* expressions; so may the values that people pass, where they are text.   *)
(***************************************************************************)
EXTENDS Integers, Sequences, SequencesExt, FiniteSets

CONSTANTS
  Workflows,   \* the workflows to compose: inputs, values, steps
  Libraries    \* components, by id: inputs, requires, steps, places

VARIABLES
  given,    \* workflow, library, and what is composed so far; see Init
  answer    \* "none", "composed" or "refused"

vars == <<given, answer>>

Piece(kind, of) == [kind |-> kind, of |-> of]
Value(type, pieces) == [type |-> type, pieces |-> pieces]
NoValue == Value("none", <<>>)
Scalars == {"string", "integer", "boolean"}
HasExpressions(v) == \E i \in DOMAIN v.pieces : v.pieces[i].kind # "text"

-----------------------------------------------------------------------------
(* Inputs.  _validate_value, _parse_inputs, _resolve_inputs                *)
TypeOnly(v, definition) == v.type = definition.type   \* mutant: the enumeration is not looked at
Valid(v, definition) ==
  v.type = definition.type /\ (definition.enum = {} \/ v \in definition.enum)
Declared(inputs) ==
  \A n \in DOMAIN inputs :
    /\ \A v \in inputs[n].enum : v.type = inputs[n].type
    /\ inputs[n].default = NoValue \/ Valid(inputs[n].default, inputs[n])
Suits(inputs, values) ==
  /\ DOMAIN values \subseteq DOMAIN inputs
  /\ \A n \in DOMAIN inputs :
       IF n \in DOMAIN values THEN Valid(values[n], inputs[n])
       ELSE inputs[n].required => inputs[n].default # NoValue
Resolved(inputs, values) ==
  [n \in DOMAIN values \cup {m \in DOMAIN inputs : inputs[m].default # NoValue} |->
     IF n \in DOMAIN values THEN values[n] ELSE inputs[n].default]

-----------------------------------------------------------------------------
(* _interpolate_string: an expression alone becomes the value itself, with *)
(* its type; within text, the text of a scalar.                            *)
Exact(v) == v.type = "string" /\ Len(v.pieces) = 1 /\ v.pieces[1].kind = "expression"
Rendered(v, inputs) ==
  FlattenSeq([i \in DOMAIN v.pieces |->
    IF v.pieces[i].kind = "expression" THEN inputs[v.pieces[i].of].pieces ELSE <<v.pieces[i]>>])
Text(v, inputs) ==
  IF Exact(v) THEN inputs[v.pieces[1].of] ELSE Value("string", Rendered(v, inputs))
NamesIn(v) == {v.pieces[i].of : i \in {j \in DOMAIN v.pieces : v.pieces[j].kind = "expression"}}
NamesAreKnown(v, inputs) == v.type = "string" => NamesIn(v) \subseteq DOMAIN inputs   \* mutant
Interpolates(v, inputs) ==
  v.type = "string" =>
    /\ NamesIn(v) \subseteq DOMAIN inputs
    /\ ~Exact(v) => /\ \A n \in NamesIn(v) : inputs[n].type \in Scalars
                    /\ ~HasExpressions(Text(v, inputs))
Interpolated(v, inputs) == IF v.type = "string" THEN Text(v, inputs) ELSE v

(* A step: an id and another string, or the use of a component with values.*)
Uses(step) == step.uses # NoValue
StepInterpolates(step, inputs) ==
  /\ Interpolates(step.id, inputs) /\ Interpolates(step.text, inputs) /\ Interpolates(step.uses, inputs)
  /\ \A n \in DOMAIN step.with : Interpolates(step.with[n], inputs)
StepInterpolated(step, inputs) ==
  [step EXCEPT !.id = Interpolated(@, inputs), !.text = Interpolated(@, inputs), !.uses = Interpolated(@, inputs),
               !.with = [n \in DOMAIN @ |-> Interpolated(@[n], inputs)]]

-----------------------------------------------------------------------------
(* _component_path, _load_component, _validate_component_step: one file,   *)
(* no nested use, no field of a provider or shell, no dependency twice.    *)
Component(value) == value.pieces[1].of
Found(library, id) == id \in DOMAIN library /\ library[id].places = 1
StepAllowed(step) == ~Uses(step) /\ step.fields = "known"
Loads(library, value) ==
  /\ value.type = "string" /\ Len(value.pieces) = 1 /\ Found(library, Component(value))
  /\ LET c == library[Component(value)] IN
     /\ Declared(c.inputs)
     /\ c.steps # <<>> /\ \A i \in DOMAIN c.steps : StepAllowed(c.steps[i])
     /\ IsInjective(c.requires) /\ Component(value) \notin Range(c.requires)

(* compose_workflow: steps of a workflow without inputs or uses stay as    *)
(* they are.                                                               *)
Plain(w) == w.inputs = <<>> /\ w.values = <<>> /\ \A i \in DOMAIN w.steps : ~Uses(w.steps[i])

Init ==
  /\ given \in {[workflow |-> w, library |-> l, at |-> 1,
                 steps |-> <<>>,      \* expanded so far
                 uses |-> <<>>] :     \* the components used: id, index, inputs, ids of its steps
                w \in Workflows, l \in Libraries}
  /\ answer = "none"

Values == Resolved(given.workflow.inputs, given.workflow.values)
Starts == Declared(given.workflow.inputs) /\ Suits(given.workflow.inputs, given.workflow.values)
Going == answer = "none" /\ ~Plain(given.workflow)
More == given.at <= Len(given.workflow.steps)
Step == given.workflow.steps[given.at]
Now == StepInterpolated(Step, Values)
Expands ==
  /\ StepInterpolates(Step, Values)
  /\ Uses(Step) =>
       /\ Loads(given.library, Now.uses)
       /\ LET c == given.library[Component(Now.uses)] IN
          /\ Suits(c.inputs, Now.with)
          /\ \A i \in DOMAIN c.steps : StepInterpolates(c.steps[i], Resolved(c.inputs, Now.with))

Own ==
  /\ Going /\ Starts /\ More /\ Expands /\ ~Uses(Step) /\ UNCHANGED answer
  /\ given' = [given EXCEPT !.at = @ + 1, !.steps = Append(@, Now)]
Use ==
  /\ Going /\ Starts /\ More /\ Uses(Step) /\ Expands /\ UNCHANGED answer
  /\ LET id == Component(Now.uses)
         inputs == Resolved(given.library[id].inputs, Now.with)
         steps == [i \in DOMAIN given.library[id].steps |-> StepInterpolated(given.library[id].steps[i], inputs)]
     IN given' = [given EXCEPT !.at = @ + 1, !.steps = @ \o steps,
          !.uses = Append(@, [id |-> id, index |-> given.at, inputs |-> inputs,
                              steps |-> [i \in DOMAIN steps |-> steps[i].id]])]

(* _validate_component_dependencies: what a used component requires is     *)
(* used too, and the search finds no cycle.                                *)
Used == {given.uses[i].id : i \in DOMAIN given.uses}
Requires(id) == Range(given.library[id].requires)
UsedSomewhere == \A id \in Used : Requires(id) \subseteq DOMAIN given.library   \* mutant: requires an existing component
Present == \A id \in Used : Requires(id) \subseteq Used
RECURSIVE Visits(_, _)
SelfOnly(visiting, id) == FALSE   \* mutant: a component is never found again
Cycles(visiting, id) == Contains(visiting, id)
Visits(visiting, id) ==
  Cycles(visiting, id) \/ \E d \in Requires(id) : Len(visiting) <= Cardinality(Used) /\ Visits(Append(visiting, id), d)
Depends == Present /\ \A id \in Used : ~Visits(<<>>, id)

Finish ==
  /\ answer = "none" /\ UNCHANGED given
  /\ IF Plain(given.workflow) THEN answer' = "composed"
     ELSE /\ Starts /\ More => ~Expands
          /\ answer' = IF Starts /\ ~More /\ Depends THEN "composed" ELSE "refused"

Next == Own \/ Use \/ Finish
Spec == Init /\ [][Next]_vars
-----------------------------------------------------------------------------
(* Everything that a composed workflow rests on is in it: no component     *)
(* that a used one needs, directly or not, is missing, and none needs      *)
(* itself in the end.                                                      *)
RECURSIVE Needed(_)
Needed(S) ==
  LET T == S \cup UNION {Requires(id) : id \in S \cap DOMAIN given.library} IN IF T = S THEN S ELSE Needed(T)
NeedsAreMet ==
  answer = "composed" =>
    \A id \in Used : Needed({id}) \subseteq Used /\ id \notin Needed(Requires(id))

(* An expression is replaced once: what is left in a composed step is a    *)
(* value that somebody passed or a default, never a part of a definition,  *)
(* and it is never replaced itself.                                        *)
Passed ==
  LET inputsOf(n) == {n[i].default : i \in DOMAIN n}
      all == {given.workflow.inputs} \cup {given.library[id].inputs : id \in DOMAIN given.library}
  IN UNION {inputsOf(n) : n \in all} \cup Range(given.workflow.values)
       \cup UNION {Range(given.workflow.steps[i].with) : i \in DOMAIN given.workflow.steps}
NothingIsLeft ==
  answer = "composed" /\ ~Plain(given.workflow) =>
    \A i \in DOMAIN given.steps : \A v \in {given.steps[i].id, given.steps[i].text} :
      HasExpressions(v) => v \in Passed

(* A value keeps the type its component declares, from wherever it comes:  *)
(* the caller, the workflow, a default or an expression.                   *)
InputsAreTyped ==
  \A i \in DOMAIN given.uses :
    LET c == given.library[given.uses[i].id] IN
    \A n \in DOMAIN c.inputs :
      IF n \in DOMAIN given.uses[i].inputs
      THEN /\ given.uses[i].inputs[n].type = c.inputs[n].type
           /\ c.inputs[n].enum # {} => given.uses[i].inputs[n] \in c.inputs[n].enum
      ELSE ~c.inputs[n].required
=============================================================================
