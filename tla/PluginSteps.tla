---------------------------- MODULE PluginSteps ----------------------------
(***************************************************************************)
(* Plugin steps (plugin_steps.py) and the two engines that execute them:   *)
(* WorkflowPluginLeafExecutor of Workflow Engine 2                         *)
(* (workflow_plugin_execution.py) and _execute_plugin_workflow_step of the *)
(* orchestrator.  Manifests lie in five layers of directories and policies *)
(* in three files, and people edit them between any two reads.             *)
(*                                                                         *)
(* A manifest is its id, version, publisher, executor and what it asks     *)
(* for; two files have the same SHA-256 exactly if these are equal.  The   *)
(* parsing of a file, its portable paths and symbolic links are left out.  *)
(* The inputs of a step belong to the resolved graph, and do not change    *)
(* during a call.  The registry is loaded in one step: what may be edited  *)
(* before it is what the install state was compared with, and after it the *)
(* policies.                                                               *)
(***************************************************************************)
EXTENDS Integers, FiniteSets

CONSTANTS
  MayFind,      \* for each layer: the sets of manifest files it may have
  MayRule,      \* for each layer of policy: what its file may say, or NoPolicy
  Recorded,     \* the pack's manifest files, as the install state records them
  OrgLocks,     \* SDAI_ORG_PLUGIN_STEP_LOCKS
  Reference,    \* the workflow's plugin: id, and version or Latest
  Precedence,   \* of each version, as SemVer orders them without build metadata
  Ancestors,    \* for each path: its prefixes, itself and "." (of ".": itself)
  Protected,    \* paths that no plugin may write
  Installed,    \* commands found in SDAI_PLUGIN_TRUSTED_COMMAND_PATH
  Executors,    \* executors registered by trusted code
  MaxAttempts,  \* retry.max_attempts
  MaxDeeds,     \* bound: deeds of an executor in one attempt
  MaxEdits,     \* bound: edits of people
  Unstated, NoPolicy, Latest, Nothing

VARIABLES
  found,        \* the manifest files of each layer: a place, and what is there
  policies,     \* the files of policy
  call,         \* the execution of one step
  done,         \* what the executor did through its services
  edits

vars == <<found, policies, call, done, edits>>

Priority == [builtin |-> 0, pack |-> 10, org |-> 20, repo |-> 30, user |-> 40]
Layer == DOMAIN Priority
Place == {"org", "repo", "user"}   \* of policies
Pc == {"sources", "registry", "policy", "gate", "execute", "run", "over"}
Purpose == {"plan", "attempt"}
Outcome == {"none", "refused", "succeeded", "failed", "lost"}

TypeOK ==
  /\ \A l \in Layer : found[l] \in MayFind[l]
  /\ \A l \in Place : policies[l] \in MayRule[l]
  /\ call.engine \in {1, 2} /\ call.pc \in Pc /\ call.for \in Purpose
  /\ call.attempt \in 0 .. MaxAttempts /\ call.outcome \in Outcome
  /\ edits \in 0 .. MaxEdits

Init ==
  /\ found \in {f \in [Layer -> UNION {MayFind[l] : l \in Layer}] :
                  \A l \in Layer : f[l] \in MayFind[l]}
  /\ policies \in {p \in [Place -> UNION {MayRule[l] : l \in Place}] :
                     \A l \in Place : p[l] \in MayRule[l]}
  /\ \E engine \in {1, 2} :
       call = [engine |-> engine, pc |-> "sources", for |-> "plan", attempt |-> 0,
               entries |-> {}, chosen |-> Nothing, plan |-> Nothing, bound |-> Nothing,
               judged |-> Nothing, last |-> Nothing, answer |-> "none", error |-> FALSE,
               ran |-> Nothing, gated |-> FALSE, compared |-> 0, planned |-> 0, outcome |-> "none",
               evidence |-> Nothing]
  /\ done = {} /\ edits = 0

-----------------------------------------------------------------------------
(* The registry: every manifest of every source, with its layer and lock.  *)
Locks(l) == IF l = "org" THEN OrgLocks ELSE {}   \* the core locks its own plugin only
Entry(file, l) == [at |-> file.at, of |-> file.is, layer |-> l]

(* Only the files that the install state names count, whatever they say    *)
(* when they are loaded.                                                   *)
Managed(file) == \E r \in Recorded : r.at = file.at
Entries ==
  UNION {{Entry(file, l) : file \in {f \in found[l] : l = "pack" => Managed(f)}} : l \in Layer}

EntriesUnlocked(e) == FALSE   \* mutant: a source forgets its locks
IsLocked(e) == e.of.id \in Locks(e.layer)
Below(e, f) == Priority[e.layer] < Priority[f.layer]

(* register refuses, and with one manifest the whole registry.             *)
SameVersion(e, f) == e # f /\ e.of.id = f.of.id /\ e.of.version = f.of.version
Conflict(es) ==
  \/ \E e \in es : e.of.may.network
  \/ \E e, f \in es : IsLocked(e) /\ e.of.id = f.of.id /\ Below(e, f)
  \/ \E e, f \in es : SameVersion(e, f) /\ (e.layer = f.layer \/ e.of # f.of)

(* The latest version, unless two differ in nothing but build metadata.    *)
Candidates(es) ==
  LET named == {e \in es : e.of.id = Reference.id} IN
  IF Reference.version # Latest THEN {e \in named : e.of.version = Reference.version}
  ELSE {e \in named : \A f \in named : Precedence[e.of.version] >= Precedence[f.of.version]}
Resolvable(es) == Cardinality({e.of.version : e \in Candidates(es)}) = 1
Resolved(es) ==
  CHOOSE e \in Candidates(es) : \A f \in Candidates(es) : ~Below(e, f)

-----------------------------------------------------------------------------
(* The policies: what a layer states narrows what the ones before it left. *)
States(ps, field) == {l \in Place : ps[l] # NoPolicy /\ ps[l][field] # Unstated}
Present(ps) == {l \in Place : ps[l] # NoPolicy}
Common(sets) == {x \in UNION sets : \A s \in sets : x \in s}
LastStated(sets) == UNION sets   \* mutant: a layer adds to what the others allow
Narrowed(sets) == Common(sets)

Denied(ps) == UNION {ps[l].denied : l \in Present(ps)}
Listed(ps, id) ==
  States(ps, "plugins") # {} => id \in Narrowed({ps[l].plugins : l \in States(ps, "plugins")})
Trusted(ps) ==
  IF Present(ps) = {} THEN {"sdai"}
  ELSE Narrowed({ps[l].publishers : l \in States(ps, "publishers")})
Granted(ps, what) == Narrowed({ps[l].may[what] : l \in States(ps, "may")})
MayWrite(ps) == States(ps, "may") # {} /\ \A l \in States(ps, "may") : ps[l].may.workspace

Covers(prefixes, path) == Ancestors[path] \cap prefixes # {}
CoversAll(prefixes, paths) == \A path \in paths : Covers(prefixes, path)

(* prepare_plugin_step compares the manifest with what is left.            *)
Allows(ps, manifest) ==
  /\ manifest.id \notin Denied(ps) /\ Listed(ps, manifest.id)
  /\ manifest.publisher \in Trusted(ps)
  /\ manifest.may.workspace => MayWrite(ps)
  /\ CoversAll(Granted(ps, "reads"), manifest.may.reads)
  /\ CoversAll(Granted(ps, "writes"), manifest.may.writes)
  /\ manifest.may.env \subseteq Granted(ps, "env")
  /\ manifest.may.commands \subseteq Granted(ps, "commands")

(* What the plan's SHA-256 covers: the manifest with its provenance, and   *)
(* which policies there were, not what they say.                           *)
PlanOf(e, ps) == [plugin |-> e, sources |-> Present(ps)]

-----------------------------------------------------------------------------
At(pc) == call.pc = pc
Quiet == UNCHANGED <<found, policies, edits>>
Over(outcome) == [call EXCEPT !.pc = "over", !.outcome = outcome]

(* An attempt failed.  Engine 2 keeps the binding for the next one; the    *)
(* orchestrator remembers the error, and a plan only if it was executed.   *)
Evidence(c) == [plan |-> c.last, answer |-> c.answer, attempts |-> c.attempt, error |-> c.error]
AfterFailure(c) ==
  IF c.attempt < MaxAttempts
  THEN [c EXCEPT !.pc = "sources", !.attempt = @ + 1]
  ELSE [c EXCEPT !.pc = "over", !.outcome = "failed",
                 !.evidence = IF c.engine = 1 THEN Evidence(c) ELSE Nothing]

AnswerKept(c) == c   \* mutant: the answer of an earlier attempt stays
Forget(c) == [c EXCEPT !.answer = "none", !.error = TRUE]
(* A PluginStepError, or whatever else a read raises.                      *)
Raised ==
  IF call.for = "plan" THEN Over("refused") ELSE AfterFailure(Forget(call))

PacksUnread == TRUE   \* mutant: the packs' files are not compared
PacksAreAsRecorded == Recorded \subseteq found["pack"]

(* default_plugin_sources: the managed files of packs have their hashes.   *)
Sources ==
  /\ At("sources")
  /\ call' = IF PacksAreAsRecorded THEN [call EXCEPT !.pc = "registry", !.compared = edits]
             ELSE Raised
  /\ Quiet /\ UNCHANGED done

(* build_plugin_step_registry and resolve.                                 *)
Registry ==
  /\ At("registry")
  /\ call' =
       IF Conflict(Entries) \/ ~Resolvable(Entries) THEN Raised
       ELSE [call EXCEPT !.pc = "policy", !.entries = Entries, !.chosen = Resolved(Entries),
                         !.planned = IF call.for = "plan" THEN edits ELSE @,
                         !.compared = IF @ = edits THEN @ ELSE MaxEdits + 1]
  /\ Quiet /\ UNCHANGED done

AnyPlan(plan) == TRUE   \* mutant: dispatch does not compare
SameAsBound(plan) == plan = call.bound

(* load_plugin_policy, the comparison, and what the plan was made for: a   *)
(* binding of the task, the first plan of the orchestrator, or an attempt. *)
Judge ==
  /\ At("policy")
  /\ LET plan == PlanOf(call.chosen, policies)
         with == [call EXCEPT !.plan = plan, !.judged = policies] IN
     call' =
       IF ~Allows(policies, call.chosen.of) THEN Raised
       ELSE IF call.for = "plan" THEN
         IF call.engine = 2
         THEN [with EXCEPT !.bound = plan, !.for = "attempt", !.attempt = 1, !.pc = "sources"]
         ELSE [with EXCEPT !.bound = plan, !.last = plan, !.pc = "gate"]
       ELSE IF call.engine = 2 /\ ~SameAsBound(plan) THEN AfterFailure(Forget(call))
       ELSE [with EXCEPT !.pc = "execute"]
  /\ Quiet /\ UNCHANGED done

UngatedWrites == TRUE   \* mutant: the gate is not asked
NeedsNoGate == ~call.plan.plugin.of.may.workspace

(* _enforce_workspace_write_policy, for the plan that was made first; the  *)
(* approvals are those of WorkflowDriver.                                  *)
Gate ==
  /\ At("gate")
  /\ LET go == [call EXCEPT !.for = "attempt", !.attempt = 1, !.pc = "sources"] IN
     IF NeedsNoGate THEN call' = go
     ELSE call' = [go EXCEPT !.gated = TRUE] \/ call' = Over("refused")
  /\ Quiet /\ UNCHANGED done

-----------------------------------------------------------------------------
(* execute_prepared_plugin_step: an executor that code registered.         *)
Execute ==
  /\ At("execute")
  /\ call' = IF call.plan.plugin.of.executor \in Executors
             THEN [call EXCEPT !.pc = "run", !.ran = call.plan]
             ELSE AfterFailure(Forget(call))
  /\ Quiet /\ UNCHANGED done

(* The services look at the plan's permissions, not at the policy again.   *)
Asks == call.plan.plugin.of.may
WritesAnything(path) == Asks.workspace   \* mutant: protected paths are forgotten
WriteIsAllowed(path) == Asks.workspace /\ Covers(Asks.writes, path) /\ path \notin Protected
Possible ==
  {[what |-> "write", arg |-> path] : path \in {p \in DOMAIN Ancestors : WriteIsAllowed(p)}}
  \cup {[what |-> "read", arg |-> path] : path \in {p \in DOMAIN Ancestors : Covers(Asks.reads, p)}}
  \cup {[what |-> "getenv", arg |-> name] : name \in Asks.env}
  \cup {[what |-> "run", arg |-> name] : name \in Asks.commands \cap Installed}

(* A service that refuses changes nothing.                                 *)
Deed ==
  /\ At("run")
  /\ \E deed \in Possible :
       done' = done \cup {[deed |-> deed, plan |-> call.plan, under |-> call.judged,
                           attempt |-> call.attempt]}
  /\ Cardinality({d \in done' : d.attempt = call.attempt}) <= MaxDeeds
  /\ UNCHANGED call /\ Quiet

(* The result of the executor; what it wrote before it failed stays.       *)
Passes ==
  /\ At("run")
  /\ call' = LET c == [call EXCEPT !.answer = "passed", !.last = call.plan, !.error = FALSE] IN
             [c EXCEPT !.pc = "over", !.outcome = "succeeded",
                       !.evidence = IF c.engine = 1 THEN Evidence(c) ELSE Nothing]
  /\ Quiet /\ UNCHANGED done
Fails ==
  /\ At("run")
  /\ call' = AfterFailure([call EXCEPT !.answer = "failed", !.last = call.plan, !.error = TRUE])
  /\ Quiet /\ UNCHANGED done
(* A PluginStepError, also for a result that is none, fails the attempt.   *)
(* Any other exception does so in the orchestrator; Engine 2 lets it pass, *)
(* and the task stays dispatched.                                          *)
Raises ==
  /\ At("run")
  /\ \/ call' = AfterFailure(Forget(call))
     \/ call.engine = 2 /\ call' = Over("lost")
  /\ Quiet /\ UNCHANGED done

-----------------------------------------------------------------------------
(* People install, change and remove manifests and policies.               *)
Edit ==
  /\ edits < MaxEdits /\ edits' = edits + 1 /\ ~At("over")
  /\ \/ \E l \in Layer : \E files \in MayFind[l] \ {found[l]} :
          found' = [found EXCEPT ![l] = files] /\ UNCHANGED policies
     \/ \E l \in Place : \E rule \in MayRule[l] \ {policies[l]} :
          policies' = [policies EXCEPT ![l] = rule] /\ UNCHANGED found
  /\ UNCHANGED <<call, done>>

Next ==
  \/ Sources \/ Registry \/ Judge \/ Gate \/ Execute \/ Deed \/ Passes \/ Fails \/ Raises
  \/ Edit

Spec == Init /\ [][Next]_vars
-----------------------------------------------------------------------------
(* What an executor did through its services, every layer of policy that   *)
(* was read for that attempt allows by itself: no layer restores what      *)
(* another one denies (PLUGIN-STEP-SECURITY.md:87).                        *)
AllowedBy(rule, d) ==
  LET of == d.plan.plugin.of IN
  /\ of.id \notin rule.denied
  /\ rule.plugins # Unstated => of.id \in rule.plugins
  /\ rule.publishers # Unstated => of.publisher \in rule.publishers
  /\ rule.may # Unstated =>
       CASE d.deed.what = "write" -> rule.may.workspace /\ Covers(rule.may.writes, d.deed.arg)
         [] d.deed.what = "read" -> Covers(rule.may.reads, d.deed.arg)
         [] d.deed.what = "getenv" -> d.deed.arg \in rule.may.env
         [] d.deed.what = "run" -> d.deed.arg \in rule.may.commands
NoLayerRestores ==
  \A d \in done :
    /\ \A l \in Present(d.under) : AllowedBy(d.under[l], d)
    /\ d.plan.plugin.of.publisher = "sdai" \/ \E l \in Place : d.under[l] # NoPolicy
    /\ d.deed.what = "write" => d.deed.arg \notin Protected

(* Engine 2 executes the plan its task is bound to, in every attempt; the  *)
(* orchestrator asks for the approvals before anything is written, unless  *)
(* a manifest has been edited since it looked.                             *)
ExecutesWhatWasPlanned ==
  \A d \in done :
    /\ call.engine = 2 => d.plan = call.bound
    /\ (call.engine = 1 /\ d.deed.what = "write" /\ edits = call.planned) => call.gated

(* A plugin that the organization locks and has is executed in its         *)
(* definition or one below it, and what comes from a pack is what the      *)
(* install state records, unless it was edited while it was loaded.        *)
ComesFromWhereItMay ==
  At("run") =>
    LET e == call.plan.plugin IN
    /\ (e.of.id \in OrgLocks /\ \E f \in call.entries : f.layer = "org" /\ f.of.id = e.of.id)
         => Priority[e.layer] <= Priority["org"]
    /\ (e.layer = "pack" /\ call.compared <= MaxEdits)
         => [at |-> e.at, is |-> e.of] \in Recorded

(* Evidence with an answer names the plan that gave it, and a step is      *)
(* completed by its last answer.                                           *)
EvidenceIsOfItsPlan ==
  call.evidence # Nothing =>
    /\ call.evidence.answer # "none" => call.evidence.plan = call.ran
    /\ (call.outcome = "succeeded") = (call.evidence.answer = "passed")
=============================================================================
