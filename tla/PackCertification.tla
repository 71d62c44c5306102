--------------------------- MODULE PackCertification ---------------------------
(***************************************************************************)
(* The certification of a pack (pack_certification.py, pack_eval_suite.py):*)
(* requirements composed from three scopes, evidence that binds the pack,  *)
(* the policy and the suite, and the decision, while people change all of  *)
(* them.  Scores are 0 .. MaxScore, which stands for 10000 basis points.   *)
(***************************************************************************)
EXTENDS Integers, FiniteSets, FiniteSetsExt, TLC

CONSTANTS
  Policies,    \* policies that a scope may have: require, default, extra
  Cases,       \* cases of suites: id -> the dimensions it may be of
  MaxScore,    \* the best score
  MaxSteps     \* steps of people before the decision

VARIABLES
  given,    \* pack, policies, suite and evidence; see Init
  answer    \* the decision, or nothing yet

vars == <<given, answer>>

Undecided == [status |-> "none"]
Nothing == [minimum |-> 0, dimensions |-> <<>>, cases |-> {}]
NoPolicy == [require |-> FALSE, default |-> Nothing, extra |-> <<>>]
Scopes == {"organization", "repository", "user"}

(* _merge_requirement, _merge_requirement_maps: the stronger of both.      *)
Larger(a, b) == IF a < b THEN b ELSE a
At(f, x, otherwise) == IF x \in DOMAIN f THEN f[x] ELSE otherwise
RightDimensions(l, r) == r.dimensions @@ l.dimensions   \* mutant: the later scope sets the threshold
Dimensions(l, r) ==
  [d \in DOMAIN l.dimensions \cup DOMAIN r.dimensions |->
     Larger(At(l.dimensions, d, 0), At(r.dimensions, d, 0))]
MergeRequirement(l, r) ==
  [minimum |-> Larger(l.minimum, r.minimum), dimensions |-> Dimensions(l, r), cases |-> l.cases \cup r.cases]
MergeMaps(l, r) ==
  [k \in DOMAIN l \cup DOMAIN r |-> MergeRequirement(At(l, k, Nothing), At(r, k, Nothing))]

(* resolve_pack_certification_policy                                       *)
Compose(l, r) ==
  [require |-> l.require \/ r.require, default |-> MergeRequirement(l.default, r.default),
   extra |-> MergeMaps(l.extra, r.extra)]
Resolved(policies) ==
  Compose(Compose(policies["organization"], policies["repository"]), policies["user"])

(* effective_requirement: by the pack's capabilities and its risk.         *)
Requirement(policy, keys) ==
  FoldSet(LAMBDA k, r : MergeRequirement(r, policy.extra[k]), policy.default, keys \cap DOMAIN policy.extra)

Suites == UNION {[C -> UNION {Cases[c] : c \in DOMAIN Cases}] : C \in SUBSET DOMAIN Cases \ {{}}}
ValidSuite(s) == \A c \in DOMAIN s : s[c].dimension \in {d.dimension : d \in Cases[c]}
Init ==
  /\ given \in
       {[content |-> 1, keys |-> k,                \* the pack, its capabilities and risk
         policies |-> [s \in Scopes |-> IF s = "organization" THEN p ELSE NoPolicy],
         suite |-> u,                              \* case -> its dimension and input
         evidence |-> {}, steps |-> 0] :
        k \in SUBSET {"capability", "risk"}, p \in Policies, u \in {v \in Suites : ValidSuite(v)}}
  /\ answer = Undecided
-----------------------------------------------------------------------------
(* People.                                                                 *)
Working == answer = Undecided /\ given.steps < MaxSteps /\ UNCHANGED answer
Step(g) == given' = [g EXCEPT !.steps = @ + 1]

EditPack == Working /\ Step([given EXCEPT !.content = 3 - @])
EditPolicy ==
  Working /\ \E s \in Scopes, p \in Policies :
    Step([given EXCEPT !.policies[s] = p])
EditSuite == Working /\ \E u \in {v \in Suites : ValidSuite(v)} : Step([given EXCEPT !.suite = u])
(* A runner evaluates a suite and writes evidence; it may report another   *)
(* set of cases than that of the suite whose hash it names.                *)
Report ==
  Working /\ given.evidence = {} /\ \E u \in {given.suite} \cup {v \in Suites : ValidSuite(v)} :
    \E results \in [DOMAIN u -> [score : 0 .. MaxScore, passed : BOOLEAN]] :
      Step([given EXCEPT !.evidence =
        {[content |-> given.content, policy |-> given.policies, suite |-> given.suite,
          cases |-> u, results |-> results]}])

-----------------------------------------------------------------------------
Total(results, cases) == MapThenSumSet(LAMBDA c : results[c].score, cases)
(* _threshold_satisfied: exact sums instead of rounded averages.           *)
Satisfied(results, cases, threshold) ==
  cases # {} /\ Total(results, cases) >= threshold * Cardinality(cases)
Displayed(results, cases) == Total(results, cases) \div Cardinality(cases)
CasesOf(e, d) == {c \in DOMAIN e.cases : e.cases[c].dimension = d}

(* evaluate_pack_certification_suite                                       *)
SuiteMatches(e) == e.cases = given.suite
Stale(e) == e.content # given.content \/ e.policy # given.policies   \* the hash names every scope's policy
Meets(e, requirement) ==
  /\ \A c \in requirement.cases : c \in DOMAIN e.results /\ e.results[c].passed
  /\ \A d \in DOMAIN requirement.dimensions :
       Satisfied(e.results, CasesOf(e, d), requirement.dimensions[d])
  /\ Satisfied(e.results, DOMAIN e.results, requirement.minimum)
Status(e) ==
  IF e.suite # given.suite THEN "stale"
  ELSE IF ~SuiteMatches(e) THEN "failed"
  ELSE IF Stale(e) THEN "stale"
  ELSE IF Meets(e, Requirement(Resolved(given.policies), given.keys)) THEN "certified" ELSE "failed"

Decide ==
  /\ answer = Undecided /\ UNCHANGED given
  /\ answer' = [status |->
       IF given.evidence = {} THEN IF Resolved(given.policies).require THEN "missing" ELSE "not-required"
       ELSE Status(CHOOSE e \in given.evidence : TRUE)]

Next == EditPack \/ EditPolicy \/ EditSuite \/ Report \/ Decide
Spec == Init /\ [][Next]_vars
-----------------------------------------------------------------------------
(* A certified pack has, in evidence of these very bytes and cases, what   *)
(* each scope alone asks for, whatever the other scopes say.               *)
CertifiedForEachScope ==
  answer.status = "certified" =>
    \E e \in given.evidence :
      /\ e.content = given.content /\ DOMAIN e.results = DOMAIN given.suite
      /\ \A s \in DOMAIN given.policies : Meets(e, Requirement(given.policies[s], given.keys))

(* The floor that is displayed never contradicts the exact comparison.     *)
DisplayedAgrees ==
  \A e \in given.evidence, t \in 0 .. MaxScore :
    \A C \in {DOMAIN e.results} \cup {CasesOf(e, d.dimension) : d \in UNION {Cases[c] : c \in DOMAIN Cases}} :
      C # {} => (Satisfied(e.results, C, t) <=> Displayed(e.results, C) >= t)

(* Without evidence, no scope asked for any.                               *)
NotRequiredByAnyone ==
  answer.status = "not-required" => \A s \in DOMAIN given.policies : ~given.policies[s].require
=============================================================================
