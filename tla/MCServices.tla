------------------------------ MODULE MCServices ------------------------------
(***************************************************************************)
(* The systems beside the execution ledger, for TLC.  A behaviour is one   *)
(* of a system chosen in its first state: the orchestrator with two        *)
(* processes (pair), with conditional gates (gates) or with retries,       *)
(* profiles and branches (alone), a supervised provider (calls), a run in  *)
(* worktrees (worktrees), the audit ledger and its sink (audit), the       *)
(* freshness of artifacts (artifacts), the pack resolver (resolver), a     *)
(* plugin step (plugins), or commands of workflows and integrations: one   *)
(* that writes (leaf), one that reads (reader), one of each (both), or two *)
(* with the same output file (twins).                                      *)
(***************************************************************************)
EXTENDS Integers, Sequences, FiniteSets, TLC

VARIABLES system, trouble,
  saved, policy, approved, off, dr, open, met,
  mode, plain, call, proc, token, changed, files, audit, decisions,
  head, dirty, plan, wt, branch, evidence, run, lost,
  log, tail, holder, calls, reported, sink, staged,
  content, version, source, records, edits,
  needs, stack, outcome,
  found, policies, done, touched

driverVars == <<saved, policy, approved, off, dr, open, met>>
callVars == <<mode, plain, proc, token, changed, files, audit, decisions>>
worktreeVars == <<head, dirty, plan, wt, branch, evidence, run, lost>>
auditVars == <<log, tail, holder, calls, reported, sink, staged>>
artifactVars == <<content, version, source, records, edits>>
resolverVars == <<needs, stack, outcome>>
pluginVars == <<found, policies, done>>
stepVars == <<pluginVars, touched>>
vars == <<system, trouble, call, driverVars, callVars, worktreeVars, auditVars, artifactVars,
          resolverVars, stepVars>>

Asked == [needed |-> TRUE, bypass |-> FALSE]
Bypassed == [needed |-> TRUE, bypass |-> TRUE]
Free == [needed |-> FALSE, bypass |-> FALSE]

Pair == INSTANCE WorkflowDriver WITH
  Driver <- {1, 2}, Kind <- <<"work", "approval">>, Branches <- 0, Writes <- {}, Continues <- {},
  Conditional <- {}, MaxAttempts <- 1, Candidates <- 1, Policies <- {Asked}, MaxTrouble <- 0
Gates == INSTANCE WorkflowDriver WITH
  Driver <- {1}, Kind <- <<"approval", "approval", "agent">>, Branches <- 0, Writes <- {3},
  Continues <- {}, Conditional <- {1}, MaxAttempts <- 1, Candidates <- 1,
  Policies <- {Asked, Bypassed, Free}, MaxTrouble <- 1
Alone == INSTANCE WorkflowDriver WITH
  Driver <- {1}, Kind <- <<"approval", "agent", "parallel">>, Branches <- 2, Writes <- {2},
  Continues <- {5}, Conditional <- {}, MaxAttempts <- 2, Candidates <- 2,
  Policies <- {Asked}, MaxTrouble <- 1

Calls == INSTANCE ProviderCalls WITH
  MaxAttempts <- 2, Modes <- {"advisory", "write"}, MaxBeats <- 1, MaxTrouble <- 1
(* Nothing goes wrong here but what the code does itself.                  *)
Untroubled == INSTANCE ProviderCalls WITH
  MaxAttempts <- 1, Modes <- {"write"}, MaxBeats <- 1, MaxTrouble <- 0

Worktrees == INSTANCE WorktreeRuns WITH Repos <- 2, MaxCommit <- 1, MaxTrouble <- 1

Audit == INSTANCE AuditLedger WITH
  Process <- {1, 2}, ChunkSize <- {1, 2}, Parts <- 2, MaxEvents <- 2, MaxTrouble <- 1

Artifacts == INSTANCE ArtifactState WITH
  Deps <- <<{}, {1}, {2}>>, AppliesTo <- <<{1}, {3}>>, Redefined <- {2}, Contents <- 2, MaxEdits <- 2

Resolver == INSTANCE PackResolver WITH
  Coordinates <- 3, Versions <- 2, Constraint <- {{1}, {1, 2}}

CONSTANTS Unstated, NoPolicy, NoPath, Latest, Nothing

Asking(reads, writes, env, commands) ==
  [reads |-> reads, writes |-> writes, env |-> env, commands |-> commands,
   workspace |-> writes # {}, network |-> FALSE]
Manifest(v, by, may) ==
  [id |-> "p", version |-> v, publisher |-> by, executor |-> "x", may |-> may]
Harmless == Manifest(1, "sdai", Asking({}, {}, {}, {}))
Reads == Manifest(1, "sdai", Asking({"docs"}, {}, {}, {}))
Writes == Manifest(2, "sdai", Asking({}, {"docs", ".sdai"}, {}, {"git"}))
Foreign == Manifest(3, "co", Asking({}, {"docs/a"}, {"KEY"}, {}))
FileOf(m) == {[at |-> "1", is |-> m]}
Rule(publishers, may) ==
  [plugins |-> Unstated, denied |-> {}, publishers |-> publishers, may |-> may]

Plugins == INSTANCE PluginSteps WITH
  MayFind <- [builtin |-> {{}}, pack |-> {FileOf(Harmless), FileOf(Reads)},
              org |-> {{}, FileOf(Harmless)}, repo |-> {{}, FileOf(Writes)},
              user |-> {{}, FileOf(Foreign)}],
  MayRule <- [org |-> {NoPolicy, Rule({"sdai"}, Asking({"docs"}, {"docs", ".sdai"}, {}, {"git"}))},
              repo |-> {NoPolicy,
                        Rule({"sdai", "co"}, Asking({"."}, {"docs", ".sdai", "."}, {"KEY"}, {"git"})),
                        [Rule(Unstated, Unstated) EXCEPT !.denied = {"p"}]},
              user |-> {NoPolicy}],
  Recorded <- FileOf(Harmless), OrgLocks <- {"p"},
  Reference <- [id |-> "p", version |-> Latest], Precedence <- <<1, 2, 2>>,
  Ancestors <- [path \in {".", "docs", "docs/a", ".sdai"} |->
                  {".", path} \cup (IF path = "docs/a" THEN {"docs"} ELSE {})],
  Protected <- {".sdai"}, Installed <- {"git"}, Executors <- {"x"},
  MaxAttempts <- 2, MaxDeeds <- 1, MaxEdits <- 1

Declared(leaf, input, output, env, writes) ==
  [leaf |-> leaf, env |-> env, writes |-> writes, inputPath |-> input, outputPath |-> output,
   input |-> IF input = NoPath THEN "argument" ELSE "file",
   output |-> IF output = NoPath THEN "stdout" ELSE "file"]
Lax == [writes |-> TRUE, env |-> Unstated, protected |-> {"specs"}]
Strict == [writes |-> FALSE, env |-> {}, protected |-> {"specs", "out"}]
Filing == Declared(TRUE, "in", "out", {}, TRUE)
Printing == Declared(TRUE, NoPath, "out", {}, TRUE)
Telling == Declared(FALSE, NoPath, NoPath, {"KEY"}, FALSE)

Leaf == INSTANCE SafeCommands WITH
  Command <- <<Filing>>, Texts <- {"ask", "other"}, Paths <- {"in", "out", "specs"},
  MayRule <- {Lax, Strict}, MaxWrites <- 2, MaxTrouble <- 1
Reader == INSTANCE SafeCommands WITH
  Command <- <<Telling>>, Texts <- {"ask", "other"}, Paths <- {"out", "specs"},
  MayRule <- {Lax, Strict}, MaxWrites <- 2, MaxTrouble <- 1
Both == INSTANCE SafeCommands WITH
  Command <- <<Printing, Telling>>, Texts <- {"ask"}, Paths <- {"out", "specs"},
  MayRule <- {Lax}, MaxWrites <- 1, MaxTrouble <- 0
Twins == INSTANCE SafeCommands WITH
  Command <- <<Filing, Printing>>, Texts <- {"ask"}, Paths <- {"in", "out"},
  MayRule <- {[Lax EXCEPT !.protected = {}]}, MaxWrites <- 1, MaxTrouble <- 0

Unused(v) == v = <<>>
NoDriver ==
  /\ Unused(saved) /\ Unused(policy) /\ Unused(approved) /\ Unused(off) /\ Unused(dr)
  /\ Unused(open) /\ Unused(met)
NoCall ==
  /\ Unused(mode) /\ Unused(plain) /\ Unused(proc) /\ Unused(token) /\ Unused(changed)
  /\ Unused(files) /\ Unused(audit) /\ Unused(decisions)
NoWorktree ==
  /\ Unused(head) /\ Unused(dirty) /\ Unused(plan) /\ Unused(wt) /\ Unused(branch)
  /\ Unused(evidence) /\ Unused(run) /\ Unused(lost)
NoAudit ==
  /\ Unused(log) /\ Unused(tail) /\ Unused(holder) /\ Unused(calls) /\ Unused(reported)
  /\ Unused(sink) /\ Unused(staged)
NoArtifact ==
  Unused(content) /\ Unused(version) /\ Unused(source) /\ Unused(records) /\ Unused(edits)
NoResolver == Unused(needs) /\ Unused(stack) /\ Unused(outcome)
NoStep == Unused(found) /\ Unused(policies) /\ Unused(done) /\ Unused(touched)

InitServices ==
  \/ /\ \/ system = "pair" /\ Pair!Init
        \/ system = "gates" /\ Gates!Init
        \/ system = "alone" /\ Alone!Init
     /\ Unused(call) /\ NoCall /\ NoWorktree /\ NoAudit /\ NoArtifact /\ NoResolver
  \/ /\ system = "calls" /\ Calls!Init
     /\ NoDriver /\ NoWorktree /\ NoAudit /\ NoArtifact /\ NoResolver
  \/ /\ system = "worktrees" /\ Worktrees!Init
     /\ NoDriver /\ Unused(call) /\ NoCall /\ NoAudit /\ NoArtifact /\ NoResolver
  \/ /\ system = "audit" /\ Audit!Init
     /\ NoDriver /\ Unused(call) /\ NoCall /\ NoWorktree /\ NoArtifact /\ NoResolver
  \/ /\ system = "artifacts" /\ Artifacts!Init /\ Unused(trouble)
     /\ NoDriver /\ NoCall /\ NoWorktree /\ NoAudit /\ NoResolver
  \/ /\ system = "resolver" /\ Resolver!Init /\ Unused(trouble)
     /\ NoDriver /\ Unused(call) /\ NoCall /\ NoWorktree /\ NoAudit /\ NoArtifact

InitPlugin ==
  /\ system = "plugins" /\ Plugins!Init /\ Unused(trouble) /\ Unused(touched)
  /\ NoDriver /\ NoCall /\ NoWorktree /\ NoAudit /\ NoResolver
  /\ Unused(content) /\ Unused(version) /\ Unused(source) /\ Unused(records)
InitCommand ==
  /\ \/ system = "leaf" /\ Leaf!Init
     \/ system = "reader" /\ Reader!Init
     \/ system = "both" /\ Both!Init
     \/ system = "twins" /\ Twins!Init
  /\ NoDriver /\ Unused(call) /\ NoWorktree /\ NoArtifact /\ NoResolver
  /\ Unused(mode) /\ Unused(plain) /\ Unused(proc) /\ Unused(token) /\ Unused(changed)
  /\ Unused(audit) /\ Unused(decisions)
  /\ Unused(log) /\ Unused(tail) /\ Unused(holder) /\ Unused(reported) /\ Unused(sink)
  /\ Unused(staged) /\ Unused(found) /\ Unused(policies) /\ Unused(done)

Init == (InitServices /\ NoStep) \/ InitPlugin \/ InitCommand

NextDriver ==
  /\ \/ system = "pair" /\ Pair!Next
     \/ system = "gates" /\ Gates!Next
     \/ system = "alone" /\ Alone!Next
  /\ UNCHANGED <<system, call, callVars, worktreeVars, auditVars, artifactVars, resolverVars, stepVars>>
NextCall ==
  /\ system = "calls" /\ Calls!Next
  /\ UNCHANGED <<system, driverVars, worktreeVars, auditVars, artifactVars, resolverVars, stepVars>>
NextWorktree ==
  /\ system = "worktrees" /\ Worktrees!Next
  /\ UNCHANGED <<system, driverVars, call, callVars, auditVars, artifactVars, resolverVars, stepVars>>
NextAudit ==
  /\ system = "audit" /\ Audit!Next
  /\ UNCHANGED <<system, driverVars, call, callVars, worktreeVars, artifactVars, resolverVars, stepVars>>
NextArtifact ==
  /\ system = "artifacts" /\ Artifacts!Next
  /\ UNCHANGED <<system, trouble, driverVars, callVars, worktreeVars, auditVars, resolverVars, stepVars>>
NextResolver ==
  /\ system = "resolver" /\ Resolver!Next
  /\ UNCHANGED <<system, trouble, driverVars, call, callVars, worktreeVars, auditVars, artifactVars, stepVars>>

NextPlugin ==
  /\ system = "plugins" /\ Plugins!Next
  /\ UNCHANGED <<system, trouble, driverVars, callVars, worktreeVars, auditVars, content, version,
                 source, records, resolverVars, touched>>
NextCommand ==
  /\ \/ system = "leaf" /\ Leaf!Next
     \/ system = "reader" /\ Reader!Next
     \/ system = "both" /\ Both!Next
     \/ system = "twins" /\ Twins!Next
  /\ UNCHANGED <<system, call, driverVars, mode, plain, proc, token, changed, audit, decisions,
                 worktreeVars, log, tail, holder, reported, sink, staged, artifactVars,
                 resolverVars, pluginVars>>

Next == NextDriver \/ NextCall \/ NextWorktree \/ NextAudit \/ NextArtifact \/ NextResolver
        \/ NextPlugin \/ NextCommand

Spec == Init /\ [][Next]_vars

(* A call that may write, where nothing fails and nobody else edits.       *)
WriteInit ==
  /\ system = "untroubled" /\ Untroubled!Init
  /\ NoDriver /\ NoWorktree /\ NoAudit /\ NoArtifact /\ NoResolver /\ NoStep
WriteNext ==
  /\ Untroubled!Next
  /\ UNCHANGED <<system, driverVars, worktreeVars, auditVars, artifactVars, resolverVars, stepVars>>
WriteSpec == WriteInit /\ [][WriteNext]_vars
-----------------------------------------------------------------------------
(* The properties of the modules, each for the systems it is about.        *)
In(name) == system = name

TypeOK ==
  /\ In("pair") => Pair!TypeOK
  /\ In("gates") => Gates!TypeOK
  /\ In("alone") => Alone!TypeOK
  /\ In("calls") => Calls!TypeOK
  /\ In("worktrees") => Worktrees!TypeOK
  /\ In("audit") => Audit!TypeOK
  /\ In("artifacts") => Artifacts!TypeOK
  /\ In("resolver") => Resolver!TypeOK
  /\ In("plugins") => Plugins!TypeOK
  /\ In("leaf") => Leaf!TypeOK
  /\ In("reader") => Reader!TypeOK
  /\ In("both") => Both!TypeOK
  /\ In("twins") => Twins!TypeOK

(* Nothing but what the code knows and what was admitted is executed: what *)
(* writes, only behind its approvals; what is behind a gate, only past it; *)
(* a provider again, only on a decision that is on disk; a repository,     *)
(* only in its turn; a plugin, only as planned and as every layer of       *)
(* policy allows; a command, only as the policies of its plan and of its   *)
(* start permit.                                                           *)
OnlySanctioned ==
  /\ TypeOK
  /\ In("pair") => Pair!NothingPastGates
  /\ In("gates") => Gates!WritesAreApproved /\ Gates!NothingPastGates
  /\ In("alone") => Alone!WritesAreApproved /\ Alone!NothingPastGates
  /\ In("calls") => Calls!AgainIsDecided
  /\ In("worktrees") => Worktrees!InOrder
  /\ In("plugins") =>
       Plugins!NoLayerRestores /\ Plugins!ExecutesWhatWasPlanned /\ Plugins!ComesFromWhereItMay
  /\ In("leaf") => Leaf!RunsAsBothPermit
  /\ In("reader") => Reader!RunsAsBothPermit

(* What is said of work is true: a completed workflow has all its steps, a *)
(* result is the answer of its attempt, evidence of a worktree says what   *)
(* there is, a receipt names an export that is there, a fresh artifact     *)
(* stands on fresh ones, a resolved lock is one and the highest, evidence  *)
(* of a plugin names the plan that gave its answer, and a command that     *)
(* succeeded did so itself.                                                *)
ReportsAreTrue ==
  /\ In("pair") => Pair!CompletedIsWhole /\ Pair!DoneIsTrue
  /\ In("gates") => Gates!CompletedIsWhole /\ Gates!DoneIsTrue
  /\ In("alone") => Alone!CompletedIsWhole /\ Alone!DoneIsTrue
  /\ In("calls") => Calls!ResultIsNoted
  /\ In("worktrees") => Worktrees!EvidenceIsTrue
  /\ In("audit") => Audit!ReceiptsHold /\ Audit!PublishedIsWhole
  /\ In("artifacts") => Artifacts!ReportIsTrue /\ Artifacts!RecordedIsFresh
  /\ In("resolver") => Resolver!SearchIsRight /\ Resolver!HighestIsTaken
  /\ In("plugins") => Plugins!EvidenceIsOfItsPlan
  /\ In("leaf") => Leaf!SuccessIsTheCommands
  /\ In("reader") => Reader!SuccessIsTheCommands
  /\ In("both") => Both!SuccessIsTheCommands
  /\ In("twins") => Twins!SuccessIsTheCommands

(* Nothing is left half: audit events that begin have ends, no process is  *)
(* left running, no uncommitted work is removed, the audit ledger is one   *)
(* chain with every event that was reported, and a command leaves the      *)
(* workspace as it found it, but for what it may write.                    *)
NothingIsLeftOpen ==
  /\ In("pair") => Pair!StartedEnds
  /\ In("gates") => Gates!StartedEnds /\ Gates!AnsweredAgainIsUnnoted
  /\ In("alone") => Alone!StartedEnds /\ Alone!AnsweredAgainIsUnnoted
  /\ In("calls") => Calls!NothingOutlives /\ Calls!StartedAttemptEnds
  /\ In("worktrees") => Worktrees!DirtyIsKept
  /\ In("audit") => Audit!ChainHolds
  /\ In("leaf") => Leaf!WorkspaceIsAsFound /\ Leaf!NoneOutlives
  /\ In("reader") => Reader!WorkspaceIsAsFound /\ Reader!NoneOutlives
  /\ In("both") => Both!WorkspaceIsAsFound
  /\ In("twins") => Twins!WorkspaceIsAsFound

(* What was published of the audit ledger stays as it was, and a record of *)
(* an artifact stands on the records below it when it is written.          *)
KeptAsMade ==
  [][/\ In("audit") => Audit!PublishedStays
     /\ In("artifacts") => Artifacts!RecordsAreStacked]_vars

(* execution_guard.py: "Framework-owned writes ... happen after the guard  *)
(* exits": no answer of a call that may write is refused for the writes of *)
(* the framework itself.                                                   *)
RefusedForChanges == Untroubled!RefusedForChanges
=============================================================================
