----------------------------- MODULE Convergence -----------------------------
(***************************************************************************)
(* The bounded loop of convergence.py.  Each call of run_convergence loads *)
(* the durable state, verifies the repository, and replaces the state: the *)
(* verification succeeded, there is remediation work to do, or the         *)
(* framework gives up and escalates.  Between the calls people and agents  *)
(* change the repository; calls may overlap and may die at every step.     *)
(*                                                                         *)
(* A repository is known by its verification input hash; what verification *)
(* finds in it is a function of that input.  A finding stands for its      *)
(* canonical hash, a round id for the input it was computed from, and a    *)
(* remediation task for the pair of the round id and the finding.          *)
(***************************************************************************)
EXTENDS Integers, Sequences, FiniteSets

CONSTANTS
  Caller,        \* processes that run "sdai converge"
  Input,         \* verification inputs of the repository
  Findings,      \* actionable findings of each input: [Input -> SUBSET Finding]
  Authority,     \* findings that only people may resolve
  Passing,       \* inputs that verification passes
  MaxRounds,     \* --max-rounds
  MaxEdits       \* bound: changes of the repository

Finding == UNION {Findings[i] : i \in Input}
Task == [round : Input, finding : Finding]
Status == {"none", "verified", "action-required", "escalated"}
Reason == {"none", "max-rounds", "no-progress", "non-remediable"}

VARIABLES
  input,    \* the verification input of the repository as it is now
  state,    \* state.json
  files,    \* the task files next to it
  call,     \* the calls of run_convergence in progress
  edits     \* changes of the repository so far

vars == <<input, state, files, call, edits>>

Round == [id : Input, found : SUBSET Finding, tasks : SUBSET Task]
NoState == [status |-> "none", reason |-> "none", rounds |-> <<>>, tasks |-> {},
            input |-> CHOOSE i \in Input : TRUE]
Idle == [pc |-> "idle", old |-> NoState, new |-> NoState]

TypeOK ==
  /\ input \in Input /\ files \subseteq Task
  /\ state.status \in Status /\ state.reason \in Reason /\ state.tasks \subseteq Task
  /\ \A n \in DOMAIN state.rounds : state.rounds[n] \in Round
  /\ (state.status = "escalated") <=> (state.reason # "none")
  /\ \A c \in Caller : call[c].pc \in {"idle", "verify", "persist"}

Init ==
  /\ input \in Input
  /\ state = NoState
  /\ files = {}
  /\ call = [c \in Caller |-> Idle]
  /\ edits = 0

-----------------------------------------------------------------------------
WithRoundKept(old, i, tasks, status, reason) ==   \* mutant: an escalation is not forgotten
  [status |-> status, reason |-> IF reason = "none" THEN old.reason ELSE reason, input |-> i,
   tasks |-> old.tasks \cup tasks,
   rounds |-> Append(old.rounds, [id |-> i, found |-> Findings[i], tasks |-> tasks])]

(* One more round, at the end of those that were loaded.                   *)
WithRound(old, i, tasks, status, reason) ==
  [status |-> status, reason |-> reason, input |-> i, tasks |-> old.tasks \cup tasks,
   rounds |-> Append(old.rounds, [id |-> i, found |-> Findings[i], tasks |-> tasks])]

TasksFor(i) == [round : {i}, finding : Findings[i]]

ConsumedLate(old) == Len(old.rounds) > MaxRounds   \* mutant: one round too many

Consumed(old) == Len(old.rounds) >= MaxRounds

NoProgressAny(old, i) == FALSE   \* mutant: unresolved findings handed out again

(* The finding signature of the last round is that of this report.         *)
NoProgress(old, i) ==
  old.rounds # <<>> /\ old.rounds[Len(old.rounds)].found = Findings[i]

(* _classify finds no kind of remediation: it is for people to decide.     *)
NonRemediable(i) == Findings[i] \cap Authority # {}

(* What run_convergence decides, given the state it loaded and a report.   *)
Decide(old, i) ==
  IF i \in Passing THEN WithRound(old, i, {}, "verified", "none")
  ELSE IF Consumed(old) THEN [old EXCEPT !.status = "escalated", !.reason = "max-rounds", !.input = i]
  ELSE IF NonRemediable(i) THEN WithRound(old, i, {}, "escalated", "non-remediable")
  ELSE IF NoProgress(old, i) THEN WithRound(old, i, {}, "escalated", "no-progress")
  ELSE IF Findings[i] = {} THEN WithRound(old, i, {}, "escalated", "non-remediable")
  ELSE WithRound(old, i, TasksFor(i), "action-required", "none")

Load(c) ==
  /\ call[c].pc = "idle"
  /\ call' = [call EXCEPT ![c] = [Idle EXCEPT !.pc = "verify", !.old = state]]
  /\ UNCHANGED <<input, state, files, edits>>

(* An input that was verified last time changes nothing.                   *)
Known(old, i) == old.status # "none" /\ old.input = i

Verify(c) ==
  LET old == call[c].old IN
  /\ call[c].pc = "verify"
  /\ call' = [call EXCEPT ![c] =
                IF Known(old, input) THEN Idle
                ELSE [@ EXCEPT !.pc = "persist", !.new = Decide(old, input)]]
  /\ UNCHANGED <<input, state, files, edits>>

(* _persist_state: every task has its file before the state names it.      *)
PersistTask(c) ==
  /\ call[c].pc = "persist"
  /\ \E t \in call[c].new.tasks \ files : files' = files \cup {t}
  /\ UNCHANGED <<input, state, call, edits>>

ReadyAtOnce(c) == TRUE   \* mutant: the state before its files

ReadyToPersist(c) == call[c].new.tasks \subseteq files

PersistState(c) ==
  /\ call[c].pc = "persist" /\ ReadyToPersist(c)
  /\ state' = call[c].new
  /\ call' = [call EXCEPT ![c] = Idle]
  /\ UNCHANGED <<input, files, edits>>

Crash(c) ==
  /\ call[c].pc # "idle"
  /\ call' = [call EXCEPT ![c] = Idle]
  /\ UNCHANGED <<input, state, files, edits>>

(* Agents carry out tasks, people edit, commits are made.                  *)
Edit(i) ==
  /\ i # input /\ edits < MaxEdits
  /\ input' = i /\ edits' = edits + 1
  /\ UNCHANGED <<state, files, call>>

Converge(c) == Load(c) \/ Verify(c) \/ PersistTask(c) \/ PersistState(c)

Next == \/ \E c \in Caller : Converge(c) \/ Crash(c)
        \/ \E i \in Input : Edit(i)

Spec == Init /\ [][Next]_vars
-----------------------------------------------------------------------------
WorkRounds == {n \in DOMAIN state.rounds : state.rounds[n].tasks # {}}

(* The loop is bounded: whatever is edited, and however calls overlap, no  *)
(* more than --max-rounds rounds hand out work.                            *)
WorkIsBounded == Cardinality(WorkRounds) <= MaxRounds

(* The same findings are not handed out in two rounds running: a change    *)
(* that resolved nothing escalates instead.                                *)
NoWorkTwice ==
  \A n \in WorkRounds : n > 1 => state.rounds[n - 1].found # state.rounds[n].found

(* The state never names a task whose brief is not on the disk, whatever   *)
(* died half way: an agent can always load the task it is given.           *)
TasksAreOnDisk == state.tasks \subseteq files
-----------------------------------------------------------------------------
(* The invariant that MCAgents proves.  Every state that was ever stored   *)
(* or computed is sound, for it is one round on top of a sound one: so     *)
(* what is known of a round when it is appended is known of it wherever it *)
(* comes to lie, and calls that overlap can only lose rounds to each other.*)
Parameters == Input # {} /\ MaxRounds \in Nat

StateFile == [status : Status, reason : Reason, rounds : Seq(Round),
              tasks : SUBSET Task, input : Input]
CallRecord == [pc : {"idle", "verify", "persist"}, old : StateFile, new : StateFile]

(* A round that hands out work is one of the first, and what its           *)
(* predecessor found is not what it found.                                 *)
Worthwhile(r) ==
  \A n \in DOMAIN r : r[n].tasks # {} =>
    n <= MaxRounds /\ (n > 1 => r[n - 1].found # r[n].found)

Sound(s) ==
  s \in StateFile /\ (s.status = "escalated" <=> s.reason # "none") /\ Worthwhile(s.rounds)

IInv ==
  /\ input \in Input /\ files \subseteq Task
  /\ Sound(state) /\ state.tasks \subseteq files
  /\ call \in [Caller -> CallRecord]
  /\ \A c \in Caller : Sound(call[c].old) /\ Sound(call[c].new)
=============================================================================
