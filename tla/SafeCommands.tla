---------------------------- MODULE SafeCommands ----------------------------
(***************************************************************************)
(* Commands of workflows and integrations: the plan of a safe-command leaf *)
(* (workflow_operational_steps.py) or of an integration, and               *)
(* execute_integration_plan (integration_execution.py), which creates the  *)
(* input file, runs the command under WorkspaceMutationGuard, and removes  *)
(* what it owns.  Several calls share a workspace with people.             *)
(*                                                                         *)
(* Left out: the parsing of steps and manifests, symbolic links, the       *)
(* directories of the two files (removed only when empty), and the bytes   *)
(* of output beyond whether they are what the mode wants.  Time is left    *)
(* out: a timeout may strike whenever the process is looked at.  The guard *)
(* looks at all files, and restores them, in one step each.                *)
(***************************************************************************)
EXTENDS Integers, FiniteSets

CONSTANTS
  Command,      \* for each call: what its step or manifest declares
  Texts,        \* runtime inputs; "" is none
  MayRule,      \* effective configurations that may be in force
  Paths,
  MaxWrites,    \* bound: writes of one command
  MaxTrouble,   \* bound: edits of people, cancellations, timeouts, crashes
  Unstated, NoPath, Nothing

VARIABLES
  files,        \* the workspace
  calls,        \* the executions
  touched,      \* for each call: the paths that others changed since it began
  trouble

vars == <<files, calls, touched, trouble>>

Call == DOMAIN Command
Absent == "absent"
Content == Texts \cup {Absent, "good", "bad", "edited"}
Pc == {"plan", "planned", "input", "output", "resolve", "enter", "spawn", "poll", "stopping",
       "leave", "judge", "cleanOutput", "cleanInput", "over", "dead"}
Status == {"none", "refused", "succeeded", "exit-error", "timed-out", "cancelled",
           "launch-error", "malformed-output", "policy-violation", "io-error"}

TypeOK ==
  /\ files \in [Paths -> Content]
  /\ \A c \in Call :
       /\ calls[c].pc \in Pc /\ calls[c].status \in Status
       /\ calls[c].child \in {"none", "running", "exited"} /\ calls[c].mine \subseteq Paths
       /\ calls[c].wrote \in 0 .. MaxWrites /\ touched[c] \subseteq Paths
  /\ trouble \in 0 .. MaxTrouble

Init ==
  /\ files \in [Paths -> {Absent, "edited"}]
  /\ calls = [c \in Call |->
       [pc |-> "plan", text |-> "", under |-> Nothing, again |-> Nothing, start |-> Nothing,
        ownsInput |-> FALSE, ownsOutput |-> FALSE, before |-> Nothing, child |-> "none",
        exit |-> 0, said |-> "good", got |-> "", control |-> "none", wrote |-> 0,
        mine |-> {}, status |-> "none", answer |-> "none"]]
  /\ touched = [c \in Call |-> {}] /\ trouble = 0

-----------------------------------------------------------------------------
At(c, pc) == calls[c].pc = pc
Becomes(c, record) == calls' = [calls EXCEPT ![c] = record]
Go(c, pc) == Becomes(c, [calls[c] EXCEPT !.pc = pc])
Ends(c, status) == Becomes(c, [calls[c] EXCEPT !.pc = "cleanOutput", !.status = status])
Refuses(c, status) == Becomes(c, [calls[c] EXCEPT !.pc = "over", !.status = status])
Trouble == trouble < MaxTrouble /\ trouble' = trouble + 1

(* Whoever changes a file, the other calls that have begun notice nothing. *)
Note(c) ==
  LET changed == {p \in Paths : files'[p] # files[p]} IN
  touched' = [d \in Call |-> IF d = c \/ calls[d].start = Nothing THEN touched[d]
                             ELSE touched[d] \cup changed]
Still == UNCHANGED <<files, touched>>

InputOf(c) == Command[c].inputPath
OutputOf(c) == Command[c].outputPath
Named(c) == {InputOf(c), OutputOf(c)} \cap Paths

PermitsAll(c, rule) == TRUE   \* mutant: policy is not asked again
Permits(c, rule) ==
  /\ Command[c].writes => rule.writes
  /\ rule.env # Unstated => Command[c].env \subseteq rule.env
Overlaps(c, rule) == Named(c) \cap rule.protected # {}

(* The declaration of a step and the manifest of an integration: a file    *)
(* mode has a path, any other has none, and who uses files may write.      *)
UsesFiles(c) == "file" \in {Command[c].input, Command[c].output}
StepParses(c) ==
  /\ (Command[c].input = "file") = (InputOf(c) # NoPath)
  /\ (Command[c].output = "file") = (OutputOf(c) # NoPath)
  /\ UsesFiles(c) => Command[c].writes

(* A leaf's plan is not compared with the protected paths; that of an      *)
(* integration is.                                                         *)
LeafRefuses(c, text, rule) ==
  \/ Command[c].input = "none" /\ text # ""
  \/ Command[c].writes /\ ~rule.writes
  \/ rule.env # Unstated /\ ~(Command[c].env \subseteq rule.env)
IntegrationRefuses(c, text, rule) == LeafRefuses(c, text, rule) \/ Overlaps(c, rule)
Planned(c, text, rule) ==
  IF Command[c].leaf THEN ~LeafRefuses(c, text, rule) ELSE ~IntegrationRefuses(c, text, rule)

Plan(c) ==
  /\ At(c, "plan")
  /\ \E text \in Texts : \E rule \in MayRule :
       IF ~StepParses(c) \/ ~Planned(c, text, rule) THEN Refuses(c, "refused")
       ELSE Becomes(c, [calls[c] EXCEPT !.pc = "planned", !.text = text, !.under = rule])
  /\ Still /\ UNCHANGED trouble

(* A leaf reports a refusal of policy as its result.                       *)
RefusalOfPolicy(c) == IF Command[c].leaf THEN "policy-violation" ELSE "refused"

SameText(c, text) == text = calls[c].text

(* The beginning of execute_integration_plan: the input is the one that    *)
(* was planned, and the policy given now still permits the plan.  A leaf   *)
(* is given no token to cancel it.                                         *)
Begin(c) ==
  /\ At(c, "planned")
  /\ \E text \in Texts : \E rule \in MayRule :
       IF ~SameText(c, text) THEN Refuses(c, "refused") /\ UNCHANGED trouble
       ELSE IF ~Permits(c, rule) \/ Overlaps(c, rule)
       THEN Refuses(c, RefusalOfPolicy(c)) /\ UNCHANGED trouble
       ELSE \/ /\ Becomes(c, [calls[c] EXCEPT !.pc = "input", !.again = rule, !.start = files])
               /\ UNCHANGED trouble
            \/ ~Command[c].leaf /\ Trouble /\ Refuses(c, "cancelled")
  /\ Still

-----------------------------------------------------------------------------
VacantOrNot(path) == TRUE   \* mutant: what is there is taken over
Vacant(path) == files[path] = Absent

(* The input file is created exclusively: between the look and the open    *)
(* somebody else may create it, and the open refuses as the look would.    *)
Input(c) ==
  /\ At(c, "input")
  /\ IF InputOf(c) = NoPath THEN Go(c, "output") /\ UNCHANGED files
     ELSE IF ~Vacant(InputOf(c)) THEN Ends(c, "io-error") /\ UNCHANGED files
     ELSE /\ files' = [files EXCEPT ![InputOf(c)] = calls[c].text]
          /\ Becomes(c, [calls[c] EXCEPT !.pc = "output", !.ownsInput = TRUE])
  /\ Note(c) /\ UNCHANGED trouble

(* Nothing is created for the output: that it was absent makes it owned.   *)
Output(c) ==
  /\ At(c, "output")
  /\ IF OutputOf(c) = NoPath THEN Go(c, "resolve")
     ELSE IF ~Vacant(OutputOf(c)) THEN Ends(c, "io-error")
     ELSE Becomes(c, [calls[c] EXCEPT !.pc = "resolve", !.ownsOutput = TRUE])
  /\ Still /\ UNCHANGED trouble

(* runtime_argv and _resolve_executable: a path of the project may be      *)
(* missing; a bare name is found, or not, by the operating system.         *)
Resolve(c) ==
  /\ At(c, "resolve")
  /\ Go(c, "enter") \/ Ends(c, "io-error")
  /\ Still /\ UNCHANGED trouble

GuardedProtected(c) == calls[c].again.protected   \* mutant: also of a read-only command
Guarded(c) == IF Command[c].writes THEN calls[c].again.protected ELSE Paths

(* The guard's snapshot.                                                   *)
Enter(c) ==
  /\ At(c, "enter")
  /\ Becomes(c, [calls[c] EXCEPT !.pc = "spawn", !.before = [p \in Guarded(c) |-> files[p]]])
  /\ Still /\ UNCHANGED trouble

(* The command starts with the planned text in its arguments, its stdin,   *)
(* or its file; or it does not start.                                      *)
Spawn(c) ==
  /\ At(c, "spawn")
  /\ \/ Becomes(c, [calls[c] EXCEPT !.pc = "poll", !.child = "running",
                      !.got = IF InputOf(c) # NoPath THEN files[InputOf(c)]
                              ELSE IF Command[c].input = "none" THEN "" ELSE calls[c].text])
     \/ Becomes(c, [calls[c] EXCEPT !.pc = "leave", !.control = "launch"])
  /\ Still /\ UNCHANGED trouble

(* The command, which is not part of the framework: it writes what it      *)
(* likes, says something, and exits.  It goes on when its caller is dead.  *)
Writes(c) ==
  /\ calls[c].child = "running" /\ calls[c].wrote < MaxWrites
  /\ \E p \in Paths : \E v \in {Absent, "good", "bad"} \ {files[p]} :
       /\ files' = [files EXCEPT ![p] = v]
       /\ Becomes(c, [calls[c] EXCEPT !.mine = @ \cup {p}, !.wrote = @ + 1])
  /\ Note(c) /\ UNCHANGED trouble
Exits(c) ==
  /\ calls[c].child = "running"
  /\ \E code \in {0, 1} : \E said \in {"good", "bad"} :
       Becomes(c, [calls[c] EXCEPT !.child = "exited", !.exit = code, !.said = said])
  /\ Still /\ UNCHANGED trouble

-----------------------------------------------------------------------------
(* _communicate_with_control.  A cancellation and a timeout terminate the  *)
(* process; it may go on until it is killed, and is then waited for.       *)
Poll(c) ==
  /\ At(c, "poll")
  /\ \/ /\ calls[c].child = "exited"
        /\ Becomes(c, [calls[c] EXCEPT !.pc = "leave", !.control = "completed"])
        /\ UNCHANGED trouble
     \/ /\ Trouble
        /\ \E control \in {"timed-out"} \cup (IF Command[c].leaf THEN {} ELSE {"cancelled"}) :
             Becomes(c, [calls[c] EXCEPT !.pc = "stopping", !.control = control])
  /\ Still
LeftBehind(c) == calls[c].child   \* mutant: the process is not waited for
Reaped(c) == "exited"
Stop(c) ==
  /\ At(c, "stopping")
  /\ Becomes(c, [calls[c] EXCEPT !.pc = "leave", !.child = Reaped(c)])
  /\ Still /\ UNCHANGED trouble

Changed(c) == {p \in Guarded(c) : files[p] # calls[c].before[p]}

(* The end of the guard: every guarded path is as it was before the        *)
(* command, whoever changed it, and a change outweighs what the command    *)
(* and the control say.                                                    *)
Leave(c) ==
  /\ At(c, "leave")
  /\ files' = [p \in Paths |-> IF p \in Guarded(c) THEN calls[c].before[p] ELSE files[p]]
  /\ IF Changed(c) # {} THEN Ends(c, "policy-violation")
     ELSE IF calls[c].control = "launch" THEN Ends(c, "launch-error")
     ELSE IF calls[c].control # "completed" THEN Ends(c, calls[c].control)
     ELSE IF calls[c].exit # 0 THEN Ends(c, "exit-error")
     ELSE Go(c, "judge")
  /\ Note(c) /\ UNCHANGED trouble

Answer(c) == IF OutputOf(c) # NoPath THEN files[OutputOf(c)] ELSE calls[c].said
WellEnough(c, answer) == answer # Absent   \* mutant: the answer is not decoded strictly
WellFormed(c, answer) == answer \notin {Absent, "bad"}

(* _normalize_output: a file that is not there, bytes that are no text,    *)
(* JSON that is none.                                                      *)
Judge(c) ==
  /\ At(c, "judge")
  /\ IF Command[c].output = "none"
     THEN Ends(c, "succeeded")
     ELSE IF ~WellFormed(c, Answer(c)) THEN Ends(c, "malformed-output")
     ELSE Becomes(c, [calls[c] EXCEPT !.pc = "cleanOutput", !.status = "succeeded",
                                      !.answer = Answer(c)])
  /\ Still /\ UNCHANGED trouble

-----------------------------------------------------------------------------
OutputKept(c) == {}   \* mutant: the output of a failed command stays
OwnOutput(c) == IF calls[c].ownsOutput THEN {OutputOf(c)} ELSE {}
OwnInput(c) == IF calls[c].ownsInput THEN {InputOf(c)} ELSE {}
Without(paths) == [p \in Paths |-> IF p \in paths THEN Absent ELSE files[p]]

(* The finally clause: first the output, then the input.                   *)
CleanOutput(c) ==
  /\ At(c, "cleanOutput")
  /\ files' = Without(OwnOutput(c)) /\ Go(c, "cleanInput")
  /\ Note(c) /\ UNCHANGED trouble
CleanInput(c) ==
  /\ At(c, "cleanInput")
  /\ files' = Without(OwnInput(c)) /\ Go(c, "over")
  /\ Note(c) /\ UNCHANGED trouble

(* The framework dies: its files stay, and so does the command.            *)
Crash(c) ==
  /\ calls[c].pc \notin {"plan", "planned", "over", "dead"} /\ Trouble
  /\ Go(c, "dead") /\ Still

Person ==
  /\ Trouble /\ UNCHANGED calls
  /\ \E p \in Paths : \E v \in {Absent, "edited"} \ {files[p]} : files' = [files EXCEPT ![p] = v]
  /\ touched' = [d \in Call |-> IF calls[d].start = Nothing THEN touched[d]
                                ELSE touched[d] \cup {p \in Paths : files'[p] # files[p]}]

Next ==
  \/ \E c \in Call :
       \/ Plan(c) \/ Begin(c) \/ Input(c) \/ Output(c) \/ Resolve(c)
       \/ Enter(c) \/ Spawn(c) \/ Writes(c) \/ Exits(c) \/ Poll(c) \/ Stop(c) \/ Leave(c)
       \/ Judge(c) \/ CleanOutput(c) \/ CleanInput(c) \/ Crash(c)
  \/ Person

Spec == Init /\ [][Next]_vars
-----------------------------------------------------------------------------
(* However a call ends, its workspace is as it found it: what existed is   *)
(* neither overwritten nor removed, what it created is gone, except for    *)
(* what a command that may write did outside the protected paths, and for  *)
(* what others changed meanwhile (INTEGRATION-EXECUTION.md:59).            *)
WorkspaceIsAsFound ==
  \A c \in Call :
    calls[c].pc = "over" /\ calls[c].start # Nothing =>
      \A p \in Paths \ touched[c] :
        \/ files[p] = calls[c].start[p]
        \/ Command[c].writes /\ p \in calls[c].mine
           /\ p \notin calls[c].again.protected \cup {InputOf(c), OutputOf(c)}

(* A success is the command's: it ended by itself with status 0, its       *)
(* answer is what it said or, unless others had their hands on the file,   *)
(* what it wrote; and the text it was given is the one that was planned.   *)
SuccessIsTheCommands ==
  \A c \in Call :
    /\ calls[c].status = "succeeded" =>
         /\ calls[c].child = "exited" /\ calls[c].exit = 0 /\ calls[c].control = "completed"
         /\ calls[c].answer # "bad"
         /\ (OutputOf(c) # NoPath /\ OutputOf(c) \notin touched[c]) => OutputOf(c) \in calls[c].mine
    /\ calls[c].child = "running" /\ Command[c].input # "none" =>
         calls[c].got = calls[c].text \/ InputOf(c) \in touched[c]

(* No command runs when the call has an end (INTEGRATION-EXECUTION.md      *)
(* calls a timeout and a cancellation ends of the execution).              *)
NoneOutlives ==
  \A c \in Call :
    calls[c].status # "none" => calls[c].child # "running"

(* A command runs only with what both configurations permit, the one it    *)
(* was planned and the one it was started under: a plan cannot be used     *)
(* after policy became stricter (WORKFLOW-OPERATIONAL-STEPS.md:42).        *)
RunsAsBothPermit ==
  \A c \in Call :
    calls[c].child # "none" =>
      \A rule \in {calls[c].under, calls[c].again} :
        /\ Command[c].writes => rule.writes
        /\ rule.env # Unstated => Command[c].env \subseteq rule.env
        /\ (~Command[c].leaf \/ rule = calls[c].again) => Named(c) \cap rule.protected = {}
=============================================================================
