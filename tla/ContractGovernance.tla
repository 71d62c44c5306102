-------------------------- MODULE ContractGovernance --------------------------
(***************************************************************************)
(* The gate a changed contract has to pass (contract_policy.py) with the   *)
(* typed evidence it asks for (trace_evidence.py) and the freshness of     *)
(* that evidence in the repository of the moment (trace_freshness.py).     *)
(*                                                                         *)
(* The repository changes between the recording of evidence and the gate.  *)
(* A hash is the content it is of; 0 is the content of a missing file.     *)
(***************************************************************************)
EXTENDS Integers, FiniteSets

CONSTANTS
  Candidates,   \* candidate -> kinds of findings of its comparison
  Layers,       \* rules that a policy layer may hold for the criticality
  Shapes,       \* how records may be made: type, kind, status, producer, binding
  Criticality,  \* criticality that the gate is asked with
  MaxSteps      \* steps of people before the gate is asked

VARIABLES
  given,    \* the repository: see Init
  answer    \* the decision of the gate, or nothing yet

vars == <<given, answer>>

Types == {"adr", "architecture-approval", "migration-plan"}
Undecided == [outcome |-> "none"]
NoRule == [breaking |-> "unset", unknown |-> "unset", evidence |-> {}]

(* merge_contract_policy_layers: all layers have to allow, and each may    *)
(* ask for evidence.                                                       *)
Core ==
  [breaking |-> "yes", unknown |-> "no",
   evidence |-> CASE Criticality = "light" -> {}
                  [] Criticality = "standard" -> {"migration-plan"}
                  [] OTHER -> {"architecture-approval", "migration-plan"}]
LastWord(values) == "yes" \in values   \* mutant: a later layer may loosen
AllYes(values) == values \ {"unset"} = {"yes"}
Merge(layers) ==
  [breaking |-> AllYes({l.breaking : l \in layers}),
   unknown |-> AllYes({l.unknown : l \in layers}),
   evidence |-> UNION {l.evidence : l \in layers}]
LayersOf(g) == {Core, g.organization, g.project, g.user}
Rule(g) == Merge(LayersOf(g))
(* Every byte of a layer counts in the hash of the policy.                 *)
PolicyHash(g) == <<g.organization, g.project, g.user>>

(* classify_contract_diff                                                  *)
Class(findings) ==
  IF "unknown" \in findings THEN "unknown"
  ELSE IF "breaking" \in findings THEN "breaking" ELSE "non-breaking"

Init ==
  /\ given \in
       [candidate : DOMAIN Candidates,   \* the contract that is proposed
        constitution : {1}, file : {1},  \* contents of the constitution and of the bound file
        artifact : {"fresh"},            \* state that the file has as an artifact
        organization : Layers, project : {NoRule}, user : {NoRule},
        head : {1}, history : {{1}},     \* current commit, and the commits it descends from
        records : {{}}, steps : {0}]
  /\ answer = Undecided
-----------------------------------------------------------------------------
(* People.                                                                 *)
Working == answer = Undecided /\ given.steps < MaxSteps /\ UNCHANGED answer
Step(g) == given' = [g EXCEPT !.steps = @ + 1]

EditCandidate == Working /\ \E c \in DOMAIN Candidates : Step([given EXCEPT !.candidate = c])
EditConstitution == Working /\ Step([given EXCEPT !.constitution = 3 - @])
EditFile ==
  Working /\ \E f \in 0 .. 2, a \in {"fresh", "stale", "blocked"} :
    Step([given EXCEPT !.file = f, !.artifact = a])
EditPolicy ==
  Working /\ \E l \in Layers, name \in {"organization", "project", "user"} : Step([given EXCEPT ![name] = l])
Commit == Working /\ Step([given EXCEPT !.head = 2, !.history = @ \cup {2}])
Rewrite == Working /\ Step([given EXCEPT !.head = 3, !.history = {3}])

(* A record binds what there is when it is made (trace_evidence.py).       *)
Record ==
  /\ Working /\ given.file # 0
  /\ \E s \in Shapes :
       Step([given EXCEPT !.records = @ \cup
         {[shape |-> s, commit |-> given.head, bound |-> given.file,
           claim |-> <<given.candidate, PolicyHash(given), given.constitution>>]}])

-----------------------------------------------------------------------------
(* trace_freshness.py: _binding_state and _overall_status                  *)
BindingState(g, r) ==
  IF g.file = 0 THEN "missing"
  ELSE IF r.shape.binding = "artifact" /\ g.artifact # "fresh" THEN g.artifact
  ELSE IF g.file # r.bound THEN "stale" ELSE "valid"
Reachable(g, r) == r.commit = g.head \/ r.commit \in g.history
Freshness(g, r) ==
  LET b == BindingState(g, r) IN
  IF b = "missing" THEN "missing"
  ELSE IF r.shape.status = "blocked" \/ b = "blocked" THEN "blocked"
  ELSE IF ~Reachable(g, r) \/ b = "stale" THEN "stale"
  ELSE IF r.shape.status = "failed" THEN "blocked" ELSE "valid"

(* _assess_evidence                                                        *)
RightProducer(s) ==
  IF s.type = "architecture-approval"
  THEN s.kind = "approval" /\ s.role = "architecture-approver" /\ s.model = "none"
  ELSE s.kind \in {"review", "approval"} /\ s.binding = "artifact"
AnyClaim(g, r) == TRUE   \* mutant: evidence of any candidate and any policy
Claims(g, r) == r.claim = <<g.candidate, PolicyHash(g), g.constitution>>
Accepted(g, r) ==
  /\ r.shape.type \in Types
  /\ Freshness(g, r) = "valid"
  /\ r.shape.status \in {"passed", "recorded"}
  /\ Claims(g, r)
  /\ RightProducer(r.shape)

(* evaluate_contract_policy                                                *)
Outcome(g) ==
  LET class == Class(Candidates[g.candidate])
      satisfied == {r.shape.type : r \in {q \in g.records : Accepted(g, q)}}
  IN IF \/ class = "non-breaking"
        \/ class = "unknown" /\ Rule(g).unknown
        \/ class = "breaking" /\ Rule(g).breaking /\ Rule(g).evidence \subseteq satisfied
     THEN "allowed" ELSE "blocked"
Gate ==
  /\ answer = Undecided
  /\ answer' = [outcome |-> Outcome(given)] /\ UNCHANGED given

Next ==
  \/ EditCandidate \/ EditConstitution \/ EditFile \/ EditPolicy \/ Commit \/ Rewrite \/ Record \/ Gate
Spec == Init /\ [][Next]_vars
-----------------------------------------------------------------------------
(* A breaking change of a critical contract passes only with the approval  *)
(* of a person, given for this candidate under this policy and this        *)
(* constitution, on what the repository still holds, and with a plan.      *)
BreakingIsApproved ==
  (answer.outcome = "allowed" /\ Criticality = "critical" /\ "breaking" \in Candidates[given.candidate]) =>
    \A type \in {"architecture-approval", "migration-plan"} :
      \E r \in given.records :
        /\ r.shape.type = type /\ r.bound = given.file /\ r.commit \in given.history
        /\ r.claim[1] = given.candidate /\ r.claim[3] = given.constitution
        /\ type = "architecture-approval" => r.shape.model = "none"

(* "Lower-precedence layers can strengthen requirements but cannot weaken  *)
(* authoritative restrictions": what the organization's layer forbids with *)
(* the core's, or asks for, no other layer takes away.                     *)
LayersOnlyTighten ==
  \A l \in {Core, given.organization} :
    /\ l.breaking = "no" => ~Rule(given).breaking
    /\ l.unknown = "no" => ~Rule(given).unknown
    /\ l.evidence \subseteq Rule(given).evidence
=============================================================================
