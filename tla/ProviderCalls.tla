--------------------------- MODULE ProviderCalls ---------------------------
(***************************************************************************)
(* execute_with_retry (provider_retry.py): attempts of                     *)
(* AgentRuntime.execute_invocation, each with its audit events, its        *)
(* diagnostic files, and a provider under supervision (providers/cli.py)   *)
(* inside a guard on the protected paths (execution_guard.py).             *)
(*                                                                         *)
(* specs/** is protected, and the diagnostic files of the attempt lie in   *)
(* it.  Time is left out: any timeout may strike at any poll.  A plain     *)
(* provider has no observable interface, and cannot be cancelled.          *)
(***************************************************************************)
EXTENDS Integers, Sequences, FiniteSets

CONSTANTS
  MaxAttempts,   \* policy.max_attempts
  Modes,         \* execution modes of the invocation
  MaxBeats,      \* bound: heartbeats of a process
  MaxTrouble     \* bound: failing writes, broken pipes, edits of people

VARIABLES
  mode, plain,   \* of the invocation: advisory or write; of its provider
  call,          \* the caller
  proc,          \* the provider's process
  token,         \* whether the caller's ProviderCancellationToken is set
  changed,       \* who changed protected paths since the guard looked
  files,         \* diagnostic files of each attempt, in their sequence
  audit,         \* audit events of each attempt
  decisions,     \* <attempt>-decision.json
  trouble

vars == <<mode, plain, call, proc, token, changed, files, audit, decisions, trouble>>

Attempt == 1 .. MaxAttempts
Error == {"none", "cancelled", "timeout", "transient", "final", "policy", "protected",
          "diagnostic", "audit", "evidence"}
Pc == {"prepare", "start", "create", "ready", "enter", "check", "spawn", "poll", "watch",
       "collect", "leave", "startup", "fail", "failed", "complete", "succeed", "decide",
       "finish", "sleep", "summary", "over"}
Progress == {"first", "beat"}

TypeOK ==
  /\ mode \in Modes /\ plain \in BOOLEAN /\ token \in BOOLEAN
  /\ call.pc \in Pc /\ call.n \in Attempt /\ call.error \in Error /\ call.answered \in BOOLEAN
  /\ proc.is \in {"none", "running", "exited"} /\ proc.beats \in 0 .. MaxBeats
  /\ changed \subseteq {"agent", "person"}
  /\ \A n \in Attempt :
       /\ audit[n] \in {"none", "started", "failed", "succeeded"}
       /\ decisions[n] \in {"none", "retry", "fail"}

NoProcess == [is |-> "none", exit |-> "none", output |-> FALSE, told |-> FALSE, beats |-> 0]

Init ==
  /\ mode \in Modes /\ plain \in BOOLEAN /\ token = FALSE
  /\ call = [pc |-> "prepare", n |-> 1, error |-> "none", answered |-> FALSE]
  /\ proc = NoProcess /\ changed = {} /\ trouble = 0
  /\ files = [n \in Attempt |-> <<>>]
  /\ audit = [n \in Attempt |-> "none"] /\ decisions = [n \in Attempt |-> "none"]

-----------------------------------------------------------------------------
n_ == call.n
At(pc) == call.pc = pc
Go(pc) == call' = [call EXCEPT !.pc = pc]
Raise(error, pc) == call' = [call EXCEPT !.error = error, !.pc = pc]
MayFail == trouble < MaxTrouble /\ trouble' = trouble + 1
Fine == UNCHANGED trouble
Given == UNCHANGED <<mode, plain>>
Persist(event) == files' = [files EXCEPT ![n_] = Append(@, event)]
Audit(event) == audit' = [audit EXCEPT ![n_] = event]

(* agent.execution.started: without it there is no call.                   *)
Prepare ==
  /\ At("prepare")
  /\ \/ Audit("started") /\ Go("start") /\ Fine
     \/ MayFail /\ Raise("audit", "decide") /\ UNCHANGED audit
  /\ Given /\ UNCHANGED <<proc, token, changed, files, decisions>>

(* diagnostics.start: its error is raised past the audit ledger.           *)
Start ==
  /\ At("start")
  /\ \/ Persist("started") /\ Go("create") /\ Fine
     \/ MayFail /\ Raise("diagnostic", "decide") /\ UNCHANGED files
  /\ Given /\ UNCHANGED <<proc, token, changed, audit, decisions>>

Create ==
  /\ At("create")
  /\ \/ Go("ready")
     \/ Raise("policy", "startup")
  /\ Given /\ UNCHANGED <<proc, token, changed, files, audit, decisions, trouble>>

(* diagnostics.failed for a provider that was not created: an error of it  *)
(* is raised past the audit ledger, too.                                   *)
Startup ==
  /\ At("startup")
  /\ \/ Persist("failed") /\ Go("failed") /\ Fine
     \/ MayFail /\ Raise("diagnostic", "decide") /\ UNCHANGED files
  /\ Given /\ UNCHANGED <<proc, token, changed, audit, decisions>>

Ready ==
  /\ At("ready")
  /\ \/ Persist("ready") /\ Go("enter") /\ Fine
     \/ MayFail /\ Raise("diagnostic", "failed") /\ UNCHANGED files
  /\ Given /\ UNCHANGED <<proc, token, changed, audit, decisions>>

(* The guard looks at the protected paths before a call that may write.    *)
Enter ==
  /\ At("enter") /\ Go("check") /\ changed' = {} /\ Given
  /\ UNCHANGED <<proc, token, files, audit, decisions, trouble>>

Check ==
  /\ At("check")
  /\ IF token THEN Raise("cancelled", "leave") ELSE Go("spawn")
  /\ Given /\ UNCHANGED <<proc, token, changed, files, audit, decisions, trouble>>

-----------------------------------------------------------------------------
(* complete_result_observable: a process, and threads that drain it.       *)
Spawn ==
  /\ At("spawn") /\ ~plain
  /\ \/ proc' = [NoProcess EXCEPT !.is = "running"] /\ Go("poll")
     \/ \E error \in {"transient", "final"} : Raise(error, "leave") /\ UNCHANGED proc
  /\ Given /\ UNCHANGED <<token, changed, files, audit, decisions, trouble>>

(* complete of a plain provider.                                           *)
Complete ==
  /\ At("spawn") /\ plain
  /\ \/ call' = [call EXCEPT !.pc = "leave", !.answered = TRUE]
     \/ \E error \in {"timeout", "transient", "final"} : Raise(error, "leave")
  /\ changed' \in {changed, changed \cup {"agent"}}
  /\ Given /\ UNCHANGED <<proc, token, files, audit, decisions, trouble>>

Killed == [proc EXCEPT !.is = "exited", !.exit = "killed"]
LeftRunning == proc   \* mutant: a failing callback does not stop the process
StoppedProcess == Killed

(* report_progress writes a diagnostic file; if it cannot, the process is  *)
(* stopped, and the error goes up.                                         *)
Report(event, told, pc) ==
  \/ Persist(event) /\ proc' = told /\ Go(pc) /\ Fine
  \/ MayFail /\ Raise("diagnostic", "leave") /\ proc' = StoppedProcess /\ UNCHANGED files

Tell == proc.output /\ ~proc.told
Told == [proc EXCEPT !.told = TRUE]

(* The top of the loop: an exit, a thread's error, the first output.       *)
Poll ==
  /\ At("poll")
  /\ IF proc.is = "exited" THEN Go("collect") /\ UNCHANGED <<proc, files, trouble>>
     ELSE \/ MayFail /\ Raise("final", "collect") /\ proc' = Killed /\ UNCHANGED files
          \/ Tell /\ Report("first", Told, "watch")
          \/ ~Tell /\ Go("watch") /\ UNCHANGED <<proc, files, trouble>>
  /\ Given /\ UNCHANGED <<token, changed, audit, decisions>>

(* The rest of it: cancellation, timeouts, a heartbeat.                    *)
Watch ==
  /\ At("watch")
  /\ IF token THEN Raise("cancelled", "collect") /\ proc' = Killed /\ UNCHANGED <<files, trouble>>
     ELSE \/ Raise("timeout", "collect") /\ proc' = Killed /\ UNCHANGED <<files, trouble>>
          \/ proc.beats < MaxBeats /\ Report("beat", [proc EXCEPT !.beats = @ + 1], "poll")
          \/ Go("poll") /\ UNCHANGED <<proc, files, trouble>>
  /\ Given /\ UNCHANGED <<token, changed, audit, decisions>>

(* Somebody else holds the pipes; output that was not told yet; the cause  *)
(* for which the process was stopped; what it wrote and how it ended.      *)
Collect ==
  /\ At("collect")
  /\ \/ MayFail /\ Raise("final", "leave") /\ UNCHANGED <<proc, files>>
     \/ Tell /\ Report("first", Told, "collect")
     \/ /\ ~Tell /\ UNCHANGED <<proc, files, trouble>>
        /\ IF call.error # "none" THEN Go("leave")
           ELSE \/ proc.exit = "good" /\ proc.output
                   /\ call' = [call EXCEPT !.pc = "leave", !.answered = TRUE]
                \/ \E error \in {"transient", "final"} : Raise(error, "leave")
  /\ Given /\ UNCHANGED <<token, changed, audit, decisions>>

(* The provider's process, and who else changes what is protected.         *)
Prints ==
  /\ proc.is = "running" /\ proc' = [proc EXCEPT !.output = TRUE] /\ Given
  /\ UNCHANGED <<call, token, changed, files, audit, decisions, trouble>>
Exits ==
  /\ proc.is = "running"
  /\ \E exit \in {"good", "bad"} : proc' = [proc EXCEPT !.is = "exited", !.exit = exit]
  /\ Given /\ UNCHANGED <<call, token, changed, files, audit, decisions, trouble>>
Agent ==
  /\ proc.is = "running" /\ changed' = changed \cup {"agent"} /\ Given
  /\ UNCHANGED <<call, proc, token, files, audit, decisions, trouble>>
Person ==
  /\ call.pc \in {"check", "spawn", "poll", "watch", "collect", "leave"} /\ MayFail
  /\ changed' = changed \cup {"person"} /\ Given
  /\ UNCHANGED <<call, proc, token, files, audit, decisions>>
Cancel ==
  /\ ~At("over") /\ token' = TRUE /\ Given
  /\ UNCHANGED <<call, proc, changed, files, audit, decisions, trouble>>

(* The guard's exit: whoever has changed a protected path is put right,    *)
(* and its error replaces any other.                                       *)
Written(sequence) == \E i \in DOMAIN sequence : sequence[i] \in Progress
Unseen == FALSE   \* mutant: nothing is looked at again
Differs == changed # {} \/ Written(files[n_])
Leave ==
  /\ At("leave")
  /\ IF mode = "write" /\ Differs
     THEN /\ Raise("protected", "fail") /\ changed' = {}
          /\ files' = [files EXCEPT ![n_] = SelectSeq(@, LAMBDA e : e \notin Progress)]
     ELSE /\ Go(IF call.error = "none" THEN "complete" ELSE "fail")
          /\ UNCHANGED <<changed, files>>
  /\ Given /\ UNCHANGED <<proc, token, audit, decisions, trouble>>

-----------------------------------------------------------------------------
(* The end of an attempt: a diagnostic file, then an audit event; an error *)
(* of either replaces what was, and is final.                              *)
NoRecord == "decide"   \* mutant: the failure of a call is not audited
Record == "failed"
Fail ==
  /\ At("fail")
  /\ \/ Persist(IF call.error = "cancelled" THEN "cancelled" ELSE "failed") /\ Go(Record) /\ Fine
     \/ MayFail /\ Raise("diagnostic", Record) /\ UNCHANGED files
  /\ Given /\ UNCHANGED <<proc, token, changed, audit, decisions>>
Failed ==
  /\ At("failed")
  /\ \/ Audit("failed") /\ Go("decide") /\ Fine
     \/ MayFail /\ Raise("audit", "decide") /\ UNCHANGED audit
  /\ Given /\ UNCHANGED <<proc, token, changed, files, decisions>>
Completed ==
  /\ At("complete")
  /\ \/ Persist("completed") /\ Go("succeed") /\ Fine
     \/ MayFail /\ Raise("diagnostic", "failed") /\ UNCHANGED files
  /\ Given /\ UNCHANGED <<proc, token, changed, audit, decisions>>
Succeed ==
  /\ At("succeed")
  /\ \/ Audit("succeeded") /\ Go("summary") /\ Fine
     \/ MayFail /\ Raise("audit", "decide") /\ UNCHANGED audit
  /\ Given /\ UNCHANGED <<proc, token, changed, files, decisions>>

(* classify_provider_failure and decide_retry.                             *)
Retryable == call.error \in {"timeout", "transient"}
AnyError == call.n < MaxAttempts /\ mode = "advisory"   \* mutant: whatever it was
MayRetry == call.n < MaxAttempts /\ mode = "advisory" /\ Retryable

(* The decision is on disk before anything else happens.                   *)
Decide ==
  /\ At("decide")
  /\ \/ /\ decisions' = [decisions EXCEPT ![n_] = IF MayRetry THEN "retry" ELSE "fail"]
        /\ Go(IF MayRetry THEN "sleep" ELSE "finish") /\ Fine
     \/ MayFail /\ Raise("evidence", "over") /\ UNCHANGED decisions
  /\ Given /\ UNCHANGED <<proc, token, changed, files, audit>>

Sleep ==
  /\ At("sleep")
  /\ call' = [pc |-> "prepare", n |-> n_ + 1, error |-> "none", answered |-> call.answered]
  /\ proc' = NoProcess /\ Given
  /\ UNCHANGED <<token, changed, files, audit, decisions, trouble>>

(* summary.json, then the result or the error.                             *)
Summary ==
  /\ At("summary") \/ At("finish")
  /\ \/ Go("over") /\ Fine
     \/ MayFail /\ Raise("evidence", "over")
  /\ Given /\ UNCHANGED <<proc, token, changed, files, audit, decisions>>

Next ==
  \/ Prepare \/ Start \/ Create \/ Startup \/ Ready \/ Enter \/ Check \/ Spawn \/ Complete
  \/ Poll \/ Watch \/ Collect \/ Prints \/ Exits \/ Agent \/ Person \/ Cancel \/ Leave
  \/ Fail \/ Failed \/ Completed \/ Succeed \/ Decide \/ Sleep \/ Summary

Spec == Init /\ [][Next]_vars
-----------------------------------------------------------------------------
(* The provider is called again only after decisions on disk, never where  *)
(* it may write, and never when it has answered already, whatever could    *)
(* not be written of the answer.                                           *)
AgainIsDecided ==
  call.n > 1 =>
    /\ mode = "advisory" /\ \A n \in 1 .. (call.n - 1) : decisions[n] = "retry"
    /\ At("spawn") \/ proc.is = "running" => ~call.answered

(* However its supervision ends, no process is left behind.                *)
NothingOutlives == proc.is = "running" => call.pc \in {"poll", "watch", "collect"}

(* A result is one that the provider gave in an attempt whose files and    *)
(* events say so, and what the agent did to protected paths is undone.     *)
ResultIsNoted ==
  At("over") /\ call.error = "none" =>
    /\ call.answered /\ audit[n_] = "succeeded" /\ files[n_][Len(files[n_])] = "completed"
    /\ mode = "write" => "agent" \notin changed

(* An attempt that says started has its end in the ledger, unless the      *)
(* ledger or the first or last diagnostic file could not be written.       *)
StartedAttemptEnds ==
  At("decide") /\ audit[n_] = "started" => call.error \in {"audit", "diagnostic"}

(* execution_guard.py: "Framework-owned writes ... happen after the guard  *)
(* exits": the answer to a call that may write is refused only because     *)
(* somebody else has changed protected paths.                              *)
RefusedForChanges ==
  At("leave") /\ mode = "write" /\ call.answered /\ changed = {} => ~Differs
=============================================================================
