# A formal model of the SDAI framework

This directory holds TLA+ specifications of the SDAI framework (`src/src/sdai`),
the TLC configurations that model-check them, and proofs that TLAPS checks.
`PROJECT.json` maps every definition to the lines it stands for, lists the
hazards each property is about, and names the theorems.

SDAI is a command line framework in which agents, gates and people carry a
feature from specification to pull request. Nothing in it is a server: each
command is a process of its own that reads files of the project, decides,
writes, and exits. Its hard problem is therefore always the same. Several
processes use the same files, any of them can die between two writes, people
edit everything meanwhile, and what a process has read can be out of date when
it acts on it.

Contents: [inventory](#inventory), [modules](#modules), [runs](#runs),
[what is proved](#what-is-proved), [what is only model-checked](#what-is-only-model-checked),
[findings](#findings), [limits](#limits), [plan](#plan).

## Inventory

The components, with their modules in brackets. `PROJECT.json` says of each
what is left out.

| component | state it keeps | operations | hard behaviour | what makes it correct |
|---|---|---|---|---|
| execution ledger: `execution_ledger.py` [RunState, RunLifecycle, ExecutionLedger] | `run.json`, `events.jsonl` (a hash chain), `checkpoint.json`, task records, `ledger.lock` | create, load, append with or without expected head, write record or brief, checkpoints | processes, crashes inside and between writes, a lock that is not waited for | one readable history of legal events; honest compare-and-append; completion has evidence of its attempt |
| execution resume: `execution_resume.py` [ExecutionResume] | none of its own: reads ledger, Git and bound files | plan, resume | racing resumers, plans on old reads, crashes between three appends | one dispatch id per attempt, in task order, durable |
| workflow executor: `workflow_execution.py` [WorkflowExecution, WorkflowGraph] | tasks and checkpoint of the run, evidence records | retire, plan, register, start, invoke, retry, persist, pause, cancel, complete | crashes between outcome and consequence, changed plans, two executors | leaves run only when authorized, bounded attempts, outcome of the run follows from its leaves |
| isolated task agents: `isolated_*.py` [IsolatedTasks] | contracts and results below `.sdai/isolated`, ledger events | contract, dispatch, invoke, persist, review, final review | crash between file and event, stale reviews, reopened attempts | reviews in order, of one thing |
| completion barrier: `completion_*.py` [CompletionBarrier] | ledger events, evidence | evaluate, complete task, complete run | checks and append at different moments | no completion but on the reviews of the present attempt |
| convergence: `convergence.py` [Convergence] | the loop's state, remediation tasks | one round of the loop | overlapping and dying calls | bounded, no work twice, tasks on disk |
| orchestrator: `orchestrator.py`, `audited_orchestrator.py` [WorkflowDriver] | one state file, audit events | run a workflow, run a step | two processes on one file, retries, routes, parallel branches | what writes is approved; what is completed was done |
| audit ledger, sinks: `audit_*.py` [AuditLedger] | hash chain, exports, sink | append, export, hand off | torn tails, two handoffs at once | nothing lost, nothing published changes |
| providers: `agent_platform/*`, `providers/cli.py` [ProviderCalls, ModelRouting] | diagnostic files, audit events, health | invoke, supervise, classify, retry, route | timeouts, cancellation, heartbeats, late failures | retried only by decision, no process outlives its call, health is not skewed |
| worktree isolation, multi-repository runs: `worktree_isolation.py`, `multi_repo_run.py` [WorktreeRuns] | Git worktrees, evidence | create, run, finalize, next repository | crash, moved sources | in order; dirty work is kept; evidence is true |
| multi-repository features: `multi_repo_*.py`, `feature_repositories.py` [FeatureRepositories] | manifests, pull request evidence | build the graph, plan, verify | everything is read while it changes | success covers all participants; moves are seen |
| migrations: `migration*.py` [Migration] | manifest, backups, receipts | apply, recover, roll back | crash between two targets | nothing is lost; one at a time; people's bytes stay |
| specification changes: `spec_*.py` [SpecPromotion] | current truth, workspaces, approvals, archive, lock | baseline, approve, promote | approvals and promotion at different moments, crash between domains, rollback that fails | what was approved is promoted and stays; half of it only where the code says so or died |
| packs: `pack_*.py` [PackLifecycle, DeclarationWrites, PackResolver, PackTrust, PackCertification] | lock file, managed files, journal, install state | install, update, link, remove, resolve, trust, certify | crash and retry, ownership, backtracking, three scopes of policy | files belong to packs or people; the highest versions; every scope agrees |
| integrations: `integration_*.py` [IntegrationMaterialization, SafeCommands] | generated files, journal, install state | materialize, repair, remove, execute | two integrations of one target; a plan that changed | one owner; what is interrupted is finished |
| plugin steps, safe commands: `plugin_steps.py`, `workflow_operational_steps.py` [PluginSteps, SafeCommands] | registries, policies, files of a command | plan, gate, attempt, execute under guard | edits between plan and attempt; timeouts; twins | executes what was planned and permitted; workspace as found |
| artifact state: `artifact_state.py` [ArtifactState] | records with hashes | evaluate, record | edits between reads | fresh stands on fresh |
| specification stores: `specification_store*.py` [SpecificationStores, DeclarationWrites] | stores, declaration, registry | resolve, read, doctor, latest, create, register | edits between two scans, several creators | what is answered was there; one is made |
| workflow graphs, overlays, components: `workflow_graph.py`, `workflow_overlays.py`, `workflow_components.py` [same names] | none | merge, expand, execute control nodes | layers one after the other, loops and names | mandates and gates stay; executions are distinct |
| policy: `policy.py` [ModelRouting] | none | merge layers | an order of layers in which a later one could loosen | every layer agrees |
| traceability: `trace_*.py` [Traceability] | graph, typed evidence, links | build, judge | inputs edited between recording and evaluation | coverage is earned by what is there now |
| contracts: `protobuf_contracts.py`, `json_schema_contracts.py`, `contract_policy.py` [ProtobufContracts, JsonSchemaContracts, ContractGovernance] | records of approval | compare, decide | histories of documents, rules that hide each other | what breaks somebody is found and approved |
| workflow CLI service, debug records, diagnostics, extensions, verification engine, context and skills, command line, scaffolding | - | read, render, select, call the others | - | not modelled |

How they interact. Everything durable about a task goes through the execution
ledger: resume, executor, isolated agents and the barrier read it in one call
and append in later ones. The orchestrator is the older engine: it keeps a state
file of its own, and calls providers, plugin steps and gates in process.
Providers run inside the mutation guard and report to diagnostics and the audit
ledger. Policy is read again by each of them. Migrations, promotion, packs,
integrations and stores are transactions on files of the project and share
nothing but the project; the calculations (graphs, contracts, traceability,
trust) are pure, but their inputs are edited while they are read.

## Modules

    core           RunState --+-- RunLifecycle        (abstract specification)
                              |        ^ implemented by
                              +-- ExecutionLedger     (files, lock, crashes)
                              +-- ExecutionResume
                              +-- WorkflowExecution
    agents                    +-- IsolatedTasks -- CompletionBarrier     Convergence
    services       WorkflowDriver  ProviderCalls  WorktreeRuns  AuditLedger
                   ArtifactState   PackResolver   PluginSteps   SafeCommands
    transactions   Migration  SpecPromotion  PackLifecycle  IntegrationMaterialization
                   DeclarationWrites  SpecificationStores  (and ExecutionResume)
    calculations   WorkflowGraph  WorkflowOverlays  WorkflowComponents
                   ProtobufContracts  JsonSchemaContracts  ContractGovernance
                   PackTrust  PackCertification  ModelRouting  Traceability
                   FeatureRepositories

The `MC*` modules are the finite instances that TLC checks. One of them holds
several systems or settings (`MCAgents`, `MCServices`, `MCTransactions`,
`MCCalculations`, `MCWorkflow`): a behaviour is about the one that its first
state chooses, the variables of the others are unused, and each property says
for which systems it speaks. `MCAgents` and `MCTransactions` give no constant a value
themselves: what their configurations choose for TLC is a constant with a named
assumption, so that the theorems are about any choice. Proofs are in `RunState`,
`MCRunLifecycle`, `ExecutionLedgerProofs`, `ExecutionResumeProofs`,
`WorkflowExecutionProofs`, `CompletionBarrierProofs`, `MCAgents` (which holds those of
`Convergence` too) and `TransactionProofs`.

Operators marked `\* mutant` are not part of a specification. Each is what the
operator after it would be if the code had one plausible bug, and is used to
confirm that the property it is paired with in `PROJECT.json` notices.

`PROJECT.json` maps definitions to lines of the source. It keeps 800 entries: a step of the
environment (people, Git, crashes) is listed only if a mutant changes it, and of the
shortest helpers those are left out whose lines another entry names as well. A
definition without an entry is a property, a mutant, a constant of an instance, part
of a proof, or one of these; the comment above it says which code it is about.

**RunState.** `_validate_transition` and `_reconstruct_events` are `Legal` and
`Apply`. The evidence rule (`_validate_required_completion_evidence`) looks back
through the log to the last registration or reopening of a task; the model
carries that forward in `ready`, which a reopening empties. The rule on the log
itself is the invariant `CompletionHasEvidence` of `MCRunLifecycle`, whose
instance keeps the log beside the state, so the two forms are compared. A digest
is a model value, a binding a source and a digest; of a payload only what a rule
reads is kept. The module ends with the lemmas about the reducer that the proofs
share.

**ExecutionLedger.** One call is `Acquire`, `ReadToWrite`, `Write` (or
`ReadToReturn`, `Refuse`). The lock is never waited for, so a busy lock is a call
that does not happen, except for the creator's first append (`Busy`). The hash
chain binds each event to its whole prefix and the log only grows, so a head is
represented by a length. `Crash` may happen between any two steps: it drops the
lock with its owner (`flock`), an atomic replacement has happened or not, and an
append leaves nothing, a torn record, or the whole line. `EditFile` is everybody
else who changes files, also between the check of a binding and the append.

**ExecutionResume.** The three reads of `build_resume_plan` are three steps, every
append is a step of its own and compares its expected head with the log's.
`Worker` appends without comparing, as all other callers of `append_event` do;
After the reservation the plan is built again (`Rebuild`), and the answer and
the checkpoint name the task of that plan with the dispatch id that was chosen before it:
a worker's step in between makes them differ. `Edit` and `MoveHead` are people and Git. `task.dispatch_reserved` is appended by
nobody else in the package, which is the assumption on `Requests`. The initial
states are the runs in `Priors`, with any workspace and any reachable history.

**WorkflowExecution.** An executor is a process whose steps are its ledger calls
and leaf invocations. The graph is the sequence of leaves that the control nodes
lead to; a task id is a record of what `_task_id` hashes (plan, place, outcomes
before it, planning binding). `FindStale` and `FindConflicts` read the list of
stale tasks once and `Retire` acts on it later, as the code does. An outcome is
persisted in three calls (`WriteRecord`, `AppendEvidence`, `AppendCompleted`), the
checkpoint is a fourth (`Note`) and the end of the run a fifth (`EndLook`, `End`,
`Close`): the order of the last two differs between success and failure, as in
the code. Each plan has its own number of leaves. `SoleSpec(x)` is one executor that
has the run for itself, `CalmSpec(x, plan)` the same when nothing but a pause
interrupts it and the run is resumed with the plan it had.

**IsolatedTasks, CompletionBarrier.** A stage of an attempt at a task is a slot,
with one contract (written once) and one result per invocation; files and their
mirrored events are written in different steps, between which the caller may
die. `CompletionBarrier` adds the final review and the two calls that check the
review dimensions one after the other and append at last. People edit the
workspace and the provenance, commit, give tasks up and reopen them in between.

**Convergence.** A repository is known by its verification input, and what
verification finds is a function of it. A call loads the state, verifies, writes
task files one by one, replaces the state; calls overlap and die anywhere.

**Migration, PackLifecycle, IntegrationMaterialization, SpecPromotion.** One process `p`
with a program counter passes the files of a call one after the other (`todo`); the
journal, or the records of an upgrade, say what it is about. `edited` and `touched` are
history: what people changed at all, and what they changed since the call began, when
the code has looked at it for the last time. A crash sets `p` to `Idle` and leaves the
rest. A promotion that fails is rolled back as the code does it: the clean-up may fail and
then nothing is undone (`CleanUp`), the domains are put back one by one and each may
refuse (`Undo`), and at the end the ones that refused are named (`SDAI-SPECPROMO-009`,
`EndUndo`) and the lock is released. The history variable `half` holds the pairs of a
change and a domain that a rollback has named, or that a process left when it died or
could not clean up. `pack-lock.json`, which `pack_lifecycle.py:539` writes
between the state and the clearing of the journal, is left out: nothing decides on it.

**DeclarationWrites.** `write_pack_lock` (a guard file, `Guarded`) and `register_store`
(none) write one declaration each, with several writers. `racers` says for each entry who
was past its last comparison when the entry appeared.

**SpecificationStores.** A call looks into the sources of its registry one by one,
resolves each reference with two inspections of its store (`HashBefore`, one `HashFile` per
file in any order, `HashAfter`, `Reload`), holds what it bound, and opens or verifies
it later. `touched` holds every moment since the call began, as the declaration and the
disk at that moment; `edited` says that something got back a content that it had before
(`Regains`), which the code cannot notice. A root is one directory whose files are listed
at once: `os.walk` lists a subdirectory when it comes to it, so one is a second root
here. `work` are the processes that create a store.

**FeatureRepositories.** After a trace was read its sources are hashed again, but only of
provenances with a `declaration_sha256` (`_check_trace_provenance` skips the others),
which are those of contracts (`Sourced`). A requirement, a task, code, a test or evidence
that changes between the two is not noticed; the reports are exact as long as nobody
edits meanwhile.

The comments at the head of every other module say what it models and what it
abstracts; they follow the same pattern. A hash is the content it is of, a file a
small number or a record of what a rule reads, every file access that another
process can come between is a step, and everything that may come between is a
disjunct of `Next`.
## Runs

| run | instance | what it shows |
|---|---|---|
| `lifecycle` | 2 tasks, one with a contract, 2 digests, a log of at most 10 events | admission and reducer alone, compared with the log they fold: evidence of an earlier attempt never counts |
| `ledger` | 2 processes, 1 task, 4 log lines | readability, exclusion, compare-and-append, checkpoints, torn records; implements `RunLifecycle` |
| `resume_races` | 2 resumers, 2 steps of workers or people, 4 tries, crashes | one dispatch per attempt, order, durability, retries |
| `workflow` | `one`: 1 executor, 2 plans of 2 leaves, 2 attempts, 2 troubles; `pair`: 2 executors of a plan of 1 leaf; `calm`: as `one`, but one plan and only pauses | authorized work, bounded attempts, admissible completion, records that stay, true outcomes, and an end of every run |
| `workflow_lost` | 1 executor, 1 plan of 2 leaves, 1 attempt, crashes | violation, finding 1 |
| `workflow_stuck` | 1 executor, 1 plan of 1 leaf, 2 planning bindings | violation, finding 2 |
| `agents` | converge loop: 2 callers, 6 repositories, 2 rounds; isolated tasks: `retried` (2 attempts), `pair` (2 tasks, 2 commits), `profiles` (2 profiles per stage) | the loop is bounded; completed is reviewed, in order and on one thing; undisturbed completions are current |
| `tasks_final` | 1 task, 2 final reviews, 1 commit | violation, finding 3 |
| `calculations` | each calculation on the inputs that `MCCalculations` lists | definitions keep what their authors demanded; changes and coverage are judged; choices satisfy every layer |
| `services` | the thirteen systems of `MCServices` | only what is sanctioned is executed; reports are true; nothing is left open; what was published stays |
| `guard_refuses` | one provider call that may write, no failures, no other editors | violation, finding 4 |
| `transactions` | the eight systems of `MCTransactions` (810,367 states), fairness | what died can be taken up; whole and owned; records are true; people's bytes stay; what is interrupted is finished |

A property of the last five groups is a conjunction of implications, one per
system, of the properties that the systems' modules define and comment:

- `agents`: `ConvergeIsBounded` (`WorkIsBounded`, `NoWorkTwice`, `TasksAreOnDisk`),
  `CompletedIsReviewed` (`ReviewsInOrder`, `CompletedOnOneChain`,
  `RunCompletedIsReviewed`), `CompletionIsCurrent`.
- `services`: `OnlySanctioned`, `ReportsAreTrue`, `NothingIsLeftOpen`, and the
  action property `KeptAsMade`.
- `transactions`: `CanBeTakenUp`, `WholeAndOwned`, the action properties
  `RecordsAreTrue` and `OwnBytesStay`, and the liveness property
  `InterruptedIsFinished`: again and again nothing of an upgrade, of packs or of
  integrations is interrupted, but for what only people can end (`Settled` in each
  module): their own bytes are in the way of the interrupted call, the sources of an
  integration are not those of its journal any more, a record of an upgrade is
  unclear and waits for an operator, or a local pack that was linked again is half
  written: its own call is refused and its journal blocks all packs
  (`HalfLinkedAgain`). And an execution run that stays resumable is finally active with a
  dispatch for its first unfinished task.
- `calculations`: `DefinitionsHold`, `ChangesAreJudged`, `ChoicesAreGoverned`.
- `workflow`: `RecordsStay`, `BoundedAndAdmitted`, `LeavesAreAuthorized`,
  `OutcomesAreTrue`, and the liveness property `OneEnds`.

**Bounds.** `MaxLog` bounds the lines of a log: four are enough for creation, a
task's registration, its start and a racing append. `MaxLast` bounds the log of
`lifecycle`: ten events hold a whole attempt with its evidence, a reopening, a
second attempt and the end of the run. `MaxTries` is the constant 4 of the code.
`MaxForeign` bounds the steps of workers and people: two suffice to interfere
before and after a resumer's first append. `MaxTrouble` bounds crashes, failures,
edits by people and calls that are cut short, each counted once: two suffice to
break a transaction off, resume it and break it off again, one suffices where the
question is what a single failure leaves behind. `MaxEdits`, `MaxWrites`,
`MaxDeeds`, `MaxBeats`, `MaxSteps`, `MaxCommit`, `MaxRecords` and `MaxRevision` bound in the same
way how often somebody edits, writes, reports or records. The number of leaves,
files, domains, targets and repositories is two where a property relates two of
them (the first of a transaction and the rest) and one otherwise.
`MaxLost` of `WorkflowGraph` bounds how often the process that executes a graph is lost.
The theorems assume none of these bounds: they take them as arbitrary numbers.

**Deadlock** is not checked in the runs whose configuration says so: a run that
is terminal, a call that has returned, or a budget that is used up really stops.

**Fairness.** `ExecutionLedger` states none: its calls wait for nothing, and what
it promises is safety. `ExecutionResume` in `transactions`: a resumer that is
running goes on, and resuming is asked for again (a person or a scheduler calls
the command until the run is done). `WorkflowExecution`: an executor goes on, leaf
adapters return (they have timeouts of their own), and the run is executed again
after an interruption. `Migration`, `PackLifecycle`, `IntegrationMaterialization`:
a call that is running goes on, and whoever called calls again, as the code's own
messages demand. Nothing is assumed of workers, people or crashes, whose number
is bounded instead.

## What is proved

Each theorem holds for every value of the constants that satisfies the named
assumptions of its module (`NoTask` is no task, requests are well-formed, `Leaves`
gives each plan a positive number, and the like; TLC evaluates each of them). Where a theorem
has a hypothesis of its own, it is stated here with the reason.

| module | theorems | about the property of a run |
|---|---|---|
| `MCRunLifecycle` | `Typing`, `RunDone`, `CompletionEvidenced`, `TerminalFinal`, `LogProvesCompletions` | all five of `lifecycle` |
| `ExecutionLedgerProofs` | `Typing`, `LockIsCalls`, `ReadersReadOn`, `CompareAndAppend`, `CheckpointsAreHistory`, `TornStaysTorn`, `Refinement` | all seven of `ledger` |
| `ExecutionResumeProofs` | `Typing`, `OneDispatch`, `AlwaysPlannable`, `DurableDispatch`, `CompareSuffices`, `OrderedReservations`, `FourTriesSuffice` | all seven of `resume_races` |
| `WorkflowExecutionProofs` | `Typing`, `ReadBack`, `AttemptsAreBounded`, `LeavesStayAuthorized`, `CompletionTaken`, `UndisturbedIsTrue`; for the settings of `MCWorkflow`: `RecordsAlwaysStay`, `BoundedAndTaken`, `LeavesAuthorized`, `OutcomesStayTrue` | `RecordsStay`, `BoundedAndAdmitted`, `LeavesAreAuthorized`, `OutcomesAreTrue` of `workflow`: all but liveness |
| `CompletionBarrierProofs` | `CompletionsAreReviewed`, `CompletionsAreCurrent` | their part of `agents` |
| `MCAgents` | `LoopIsBounded`, `AgentsTyped`, `CompletedWasReviewed`, `CompletedWasCurrent` | all four of `agents` |
| `TransactionProofs` | `CanAlwaysBeTakenUp`, `AlwaysWholeAndOwned`, `RecordsAreAlwaysTrue`, `OwnBytesAlwaysStay` | `CanBeTakenUp`, `WholeAndOwned`, `RecordsAreTrue`, `OwnBytesStay` of `transactions`: all but liveness |

Every inductive invariant below was first checked by TLC as an invariant of the
instance named above.

**Lifecycle.** The state properties are inductive together once it is known that
a status other than completed carries no obligations, so the step lemmas of
`RunState` treat one event each. `LogProvesCompletions` is about the log: the
state's `ready` agrees with what looking back through the log finds, for logs of
any length. The link is that an appended event leaves all earlier positions as
they were, so only the last position and the tasks it names have to be compared.

**Ledger.** `St` is a fold over the log, so its invariants cannot be read off one
variable. The lemmas about `History` (a recursive function) say that an appended
line leaves all earlier entries as they were and adds one `Apply`. `IInv` says that
a process past `Acquire` owns the lock, hence that its head is the log's and that
what it decided in `ReadToWrite` still holds in `Write`; from it each line was legal
where it stands. The refinement follows: only `Write` changes `St`, by an event
that was legal, and all other steps are stutters of `RunLifecycle`.

**Resume.** Three facts make up `IInv`: `Snapped` - what a resumer holds was the
ledger's state when its head was; `Chosen` - while its head is still the ledger's,
the task it chose is the first open one, in the attempt it will write; `Backed` -
an id that it holds after its reservation is in the ledger for the task and the attempt
that it selected. (The answer and the checkpoint keep that id; that they also name that
task and attempt is proved while no worker or person has come in between, `foreign = 0`:
then the rebuilt plan selects what was reserved.) Sequence numbers only grow, so a head that is
equal to the log's means that nothing was appended since. With `Sound` (a
reservation's attempt is its task's, at most one per attempt, none beyond the
present one) six of the properties follow.

`FourTriesSuffice` (`ContentionIsForeign`: two resumers that share a run with nobody
else never run out of tries) needs a count. Every lost comparison of one resumer
is paid for by an append of the other, and what there is to append is finite: a
paused run is activated once, a failed task is reopened once, an attempt is
reserved once. `Left` counts the events that are still missing, and the invariant says
that the tries a resumer has used, the events it has not seen and those that are
left never add up to more than four. Its
hypothesis is `MaxTries >= 4`, and the code's `max_compare_retries = 4`
(`execution_resume.py:547`) is tight: with 3, TLC finds a resumer that gives up
though nobody but the other one was there.

**Workflow executor.** `Shape` (types, and that a completed task's binding is what
its record holds) needs no hypothesis: it holds with any number of executors, because the ledger
hashes the record again before it takes the completion, and refuses to have the
record of a completed task written; so `RecordsAlwaysStay` covers all settings. The
other promises are those of one executor (`SoleSpec(x)`, whose steps keep `Sole(x)`: nobody
else has begun): TLC shows that two break the bound on attempts and the authorization of a leaf,
because what `execute_leaf` reads is acted on several calls later. Then `SoleInv`
says that what the executor found in the ledger still holds where it acts on it,
that the attempt it counts is one more than the recorded ones (`Knows`), and that
recorded failures stay below the maximum (`Counted`).

That `run.completed` is taken needs `PlaceInv`: a place in a plan has one task, as
the outcomes before it are those on record, so all tasks of the plan that were ever
registered lie on the executor's own path and were finished or retired. This
needs `OneBinding`: planning a leaf again gives the same binding. Finding 2 is the
counterexample without it.

That outcomes are true (`CompletedMeansSucceeded`, `FailureIsTerminal`,
`CompletedIsReadable`, and that no leaf follows a cancelled one) is proved of
`CalmSpec(x, plan)`: one plan, no interruption but pauses, any number of leaves,
retries and pauses. `CalmInv` says that the executor stands where the recorded
outcomes lead to, that at an unforgiven failure or a cancellation it can only go on
to end the run, and that a completed run has a complete path. Finding 1 is the
counterexample with a crash; with a second plan, a task that was retired with a
cancelled outcome is read back when the first plan returns.

**Convergence.** `IInv` says of every state that is on disk or held by a call
that a round hands out work only if it is among the first `MaxRounds` and does not
repeat the findings of the round before it, and that tasks that a state names are on disk,
before the state is. As task files are never removed, a call that overlaps
with others cannot break it. `ConvergeAssumption`: there is an input, and
`MaxRounds` is a number.

**Completion barrier.** Contracts and results are written once, so what a
contract was granted on stays true (`Written`). What a barrier call has checked
stays true while it goes on, for it is the only caller that writes files
(`Checked`); its task may have been given up and reopened meanwhile, but then it
is not started, and the ledger refuses the completion (`Own`). So a completed task was proved by one chain of the attempt it is in
(`Proven`), and what a final review covers is what completed in the run (`Judged`,
`Ending`). `CompletionsAreCurrent` uses `Calm`: as long as nobody edited since the call
began, what it compared is what is there. Hypothesis `Parameters`: invocations and
results are among the sources and digests of the ledger, and there is a task.
That there is one driver is part of the model (`d` is one record), not a
hypothesis; see [limits](#limits). `MCAgents` carries these results over to its
settings, whose constants are instances of `Parameters`; `NoneAssumption` says that
the placeholders for no task and no commit are none of the real ones.

**Transactions.** `AllInv` of `TransactionProofs` is, in each system of `MCTransactions`, the
invariant of that system. The constants are arbitrary: any number of files, records,
domains, packs, integrations, writers, people and revisions; any offers, stores,
declarations, registries and edits; any bounds on what goes wrong. What the theorems
assume of them are the `ASSUME`s of `MCTransactions`, e.g. that paths are numbers (they have an
order), that a snapshot of a pack has a file, that the roots of a manifest have different
paths, and that a log of legal events is what `resume_execution` finds.

- *Upgrades* (`UpgradeInv`). That receipts are true when written needs `UpgradeUntouched`: of
  each file that nobody edited since the call began, whether it has its old bytes or the
  new ones follows from the place where the call is. That nothing is lost
  (`UpgradeSaved`) is inductive only with a clause on rollbacks: one that fails puts
  new bytes back into targets that a pending upgrade may share with it, and that one has
  saved what it found there.
- *Promotion* (`PromotionInv`). The texts of the domains are what the promotion has read, plus
  the change where it has been applied (`PromotionTexts`); approval documents hold what
  each of their people said last (`PromotionApproved`); what is in a text and not in the
  archive was applied by the promotion in progress, or is in `half` (`PromotionWhole`); and
  no promotion renders into a text that holds its change already (`PromotionOnce`).
- *Packs* and *integrations* (`PacksInv`, `IntegrationsInv`). What nobody edited belongs to one
  owner, and has the owner's bytes, those that the journal's call has written, or none
  (`PacksBytes`, `IntegrationsBytes`); the journal is about what is installed now or its
  operation has been recorded (`PacksRemoval`, `IntegrationsPlanned`, `IntegrationsCommitted`);
  a target that the next record will not name any more has lost the framework's bytes when
  its turn in the call is over (`IntegrationsDeleted`).
- *Locks* (`LocksInv`): whoever has compared holds the guard, so what it compared with is still
  there. *Stores* (`StoresInv`): without a guard, an entry that somebody is about to write
  over has appeared while it was about to (`StoresRaces`), and the file is created once
  (`StoresMade`).
- *References* (`ReferencesInv`). That what two equal inspections saw was on disk at one
  moment is the hardest: each of the two reads file by file while people edit. The
  moment is the end of the first inspection. As long as nothing gets back a content
  that it had before (`~edited`), a file that had another content at that moment than the
  first inspection saw has lost the seen content for good, so the second inspection cannot
  see it either. `EndedAt` says this of every file (what the first saw is what was there
  at the end, or is not there now), `SecondSaw` that a file on which both agree was so at that
  moment, and `FirstSeen` puts the two together. Without `~edited` it is false, see
  [findings](#findings). Content is read with the bound hash only (`ReferencesReads`), the
  latest version is of a registry without a locked layer overridden (`ReferencesLatest`), and of
  those that create a store in one place one has opened its manifest (`ReferencesMade`,
  for places that people do not edit).
- *Resume*: `IInv` of `ExecutionResumeProofs`, by instantiation.

Three flaws of the models came up in these proofs, which the finite instances did not
show: in `DeclarationWrites` an entry that appears in the same write as another had no
racers, so that `LostToARacer` failed for four writers; `AlreadyCommitted` of
`IntegrationMaterialization` lacked a condition of `integration_materialization.py:763`; and
`SpecificationStores` counted as `edited` only some of the steps after which something has
a content again that it had before.

**Lemmas.** The end of `RunState` holds the lemmas about `Legal` and `Apply` that
all these proofs cite: types, what one event leaves alone, that sequence numbers
grow, that what is terminal stays.

## What is only model-checked

- Liveness (`OneEnds`, `InterruptedIsFinished`): fairness and `ENABLED` are out of the
  prover's reach.
- The properties of `services` (`OnlySanctioned`, `ReportsAreTrue`, `NothingIsLeftOpen`,
  `KeptAsMade`) and `calculations` (`DefinitionsHold`, `ChangesAreJudged`, `ChoicesAreGoverned`).
  Each is a conjunction over all systems of the run, and some of these recurse over
  trees or histories (induction over data, and `RECURSIVE` operators, are out of reach), so
  that no conjunction can be proved as a whole; of single systems the plan says which
  come first.
- The violations: a counterexample is a behaviour of an instance.
## Findings

Each is the counterexample of a run that checks one property, and is quoted with
its lines in `PROJECT.json`.

1. `workflow_lost` (`FailureIsTerminal`). A leaf's failure is persisted as
   `task.completed`, and the run is failed only by a later append. If the process
   is lost in between, the resumed run reads the failure back and completes as
   succeeded, although `docs/WORKFLOW-EXECUTION-V2.md:38` says "Cancellation and
   failure are terminal ledger states."
2. `workflow_stuck` (`CompletionIsAdmitted`). A leaf that is interrupted with one
   planning binding, again with another, and then planned as at first: the task of
   the first binding was retired in between and is read back, so nobody looks at
   the started task of the second any more, and `run.completed` is refused
   (`SDAI-LEDGER-005`) then and ever after.
3. `tasks_final` (`FinalCanBeReviewed`). The context of a final review is one file
   for all attempts: contracted again after any change it is refused with
   `SDAI-ISOLATED-019`, and the run cannot be completed any more.
4. `guard_refuses` (`RefusedForChanges`). Diagnostic files of first output and
   heartbeats are written inside the mutation guard, below the protected `specs/**`:
   a call that may write is refused for the framework's own writes.

Other places where code and documentation disagree, which the models show or
the modelling brought up, and which have no run of their own:

- *Executor.* A plan that is changed and changed back reads the cancelled outcome of
  a retired task back and goes on. A leaf's failure ends the run after the last
  checkpoint, so `workflow status` finds the checkpoint stale; status reads the
  ledger's state and its events in two calls, and does not expect a task that was
  registered in between. Two executors use up the attempts of a leaf between them:
  "retry loop exhausted without outcome". The `strategy` of a fan-in is ignored
  (`WORKFLOW-EXECUTION-V2.md:18`); `load_workflow_graph` passes `"<redacted>"` as values
  (lines 26 and 36); of a fan-out's body only the first child is looked at for
  writes (line 22, `PLUGIN-STEP-REGISTRY-V2.md:55`).
- *Orchestrator and providers.* An error after a provider's answer is retried like
  any other (`AUDIT-PROVENANCE.md:13` and `PROVIDER-RETRY.md:51` against
  `orchestrator.py:235`). A missing executable is retryable, other than
  `PROVIDER-RETRY.md` says. If recording the start or the failure in the diagnostics
  fails, `agent.execution.started` has no end. The health window counts cancelled
  attempts. Nothing cuts the tail of the audit ledger when a step's end is looked up, and a
  complete event without its newline is refused for ever.
- *Plugin steps.* The approval gate is asked for the first plan only, and each
  attempt prepares again without a comparison (`orchestrator.py:400-428` against
  `PLUGIN-WORKFLOW-INTEGRATION-v1.md`). Evidence of a failed step may name a plan that never
  ran. The plan's hash binds the names of policy files, not their contents. The file of
  a pack's plugin is hashed and loaded in two reads. An organization's lock does not stop a newer
  version of a pack below it from being the latest. One refused manifest blocks all
  plugins. Allowlists of paths intersect as strings. What a plugin wrote before it
  failed stays.
- *Safe commands.* Planning a leaf ignores protected paths (execution checks them). Edits by people
  during a guarded call are reverted. An output file that somebody else creates
  meanwhile is read and removed as owned. A crash leaves the input file, which
  refuses later calls; the child outlives a dead caller. `run_argv` has no timeout.
  `execute_safe_command_leaf` is called by no other module.
- *Worktrees and repositories.* `git worktree remove --force` and `branch -D` may remove
  commits (`WORKTREE-ISOLATION.md:95`). The second repository may move to another clean
  commit after its revalidation. Two graphs are built in one verification
  (`MULTI-REPO-RUN-VERIFY.md:108`). Some errors block nothing (health and missing traces of a
  repository). A participant that is no longer declared raises `KeyError`, a directory
  that is gone `FileNotFoundError`.
- *Packs and overlays.* `PACK-LIFECYCLE.md:72` promises a retry that
  `pack_lifecycle.py:419-425` refuses. Lower layers may remove and add again a step that is
  not protected, and a mandatory id of the organization may be satisfied by a lower
  layer's step. `and` and `or` evaluate every term.
- *Contracts.* The core layer of the contract policy does not allow unknown findings and
  all layers must (`CONTRACT-ENGINEERING.md:65`). The comparison of JSON schemas ignores `items`,
  `multipleOf` and a `$ref` inside of `allOf` (line 141), and recursive schemas recurse
  without end.
- *Traceability.* A link of a contract to its own evidence refuses the whole build
  (`SDAI-TRACE-BUILD-004`). An id swallows a dot behind it. Ids of RFCs and components are
  linked from repository files only, and references of mitigations end as gaps.
- *Stores and integrations.* A store that is edited and edited back between the two
  inspections can yield a snapshot that never existed (`SPECIFICATION-STORES.md:72`; the
  property excludes it by `edited`, which `Regains` sets). An answer over several stores is not of one
  moment. A creation that dies leaves a directory that is refused for ever.
  Upgrading an integration does not update `selection.json`, and a crash around its removal leaves a selection
  of an integration that is not there (`INTEGRATION-CLI.md:72`; not modelled).

## Limits

Assumptions that the models make and the code does not enforce:

- `IsolatedTasks` and `CompletionBarrier` have one driver. The completion appends
  without an expected head: a second driver could give up, reopen and start the
  task between the checks and the append, and the ledger would take it. This is
  the one hazard in `PROJECT.json` without a property.
- `WorkflowExecution` is a sequence of leaves, and `WorkflowGraph` executes control nodes
  with leaves that are atomic; the two are not composed.
- `Migration` and `PackLifecycle` have one call at a time: they
  take no lock and promise nothing to two. Promotions exclude each other by a lock file, which is modelled.
- Several systems of `MCServices` allow one failure in a behaviour.

What the properties do not catch although the hazard is listed: the outcome of a leaf
(`OutcomesAreTrue`) is checked and proved without crashes between its calls, and the
authorization of a leaf (`LeavesAreAuthorized`) with one executor and, as to a leaf on top
of a cancelled one, without interruptions; with crashes the first is false (finding 1), and
what a second executor or a second plan does to the others is listed in [findings](#findings).
`NoHalfPromotion` allows half a promotion where the code leaves one: a domain that a rollback
has named, a process that died, a clean-up that failed. That nobody notices that half
afterwards is what the code does, and no property denies it.

Hazards that the code has and that are below the grain of the models: bound
files are hashed under the ledger's lock while editors write them; two pack calls
that both load the state before either writes its journal; a crash inside of
`rollback_migration`; the exclusive creation of a declaration that leaves a part of
it; edits while a promotion archives; late edits in a worktree that is removed by force.

Not modelled: the parsing and rendering of every file format, symbolic links and the
portability of paths, limits of size, prompts and the host bridge, OpenAPI and
AsyncAPI, the observers and the drift of the architecture, extensions (a registry
by the rules of layers and locks that `PluginSteps` has), the verification engine
(checks one after another that decide no later step), debug records (read by no
other module of the package), context and skills (ranking of text), and the command
line. They keep no state that another component's protocol depends on.

## Plan

The modules of the first plan are written, and the core, the agents and the
transactions are proved. What is left, most valuable first:

1. A model of two drivers of isolated tasks, for the hazard above.
2. Theorems about `ProviderCalls` (`AgainIsDecided`, `NothingOutlives`) and `AuditLedger`
   (`ChainHolds`, `ReceiptsHold`), whose processes are like those of `ExecutionLedger`.
3. The composition of `WorkflowGraph` with `WorkflowExecution`: the sequence of leaves of
   the one as the control of the other.
