------------------------------ MODULE MCAgents ------------------------------
(***************************************************************************)
(* Convergence and the isolated tasks for TLC.  A behaviour is one of a    *)
(* system chosen in its first state: the converge loop, or isolated tasks  *)
(* with reopened attempts (retried), with two tasks (pair), or with two    *)
(* profiles a stage may be invoked with (profiles).                        *)
(***************************************************************************)
EXTENDS Integers, Sequences, FiniteSetTheorems, TLAPS

CONSTANTS
  Caller, Findings, Authority, Passing, MaxRounds, MaxEdits,   \* of the converge loop
  ok, red, redder, amber, vague, frozen, f1, f2, f3,           \* its inputs and findings
  t1, t2, p1, p2, NoTask, NoCommit, NoProfile, NoContract      \* of the tasks

(* A repository is always in some state, and --max-rounds is a number.     *)
ASSUME ConvergeAssumption == DOMAIN Findings # {} /\ MaxRounds \in Nat

(* The values for none are not among the tasks and commits of any system. *)
ASSUME NoneAssumption == NoTask \notin {t1, t2} /\ NoCommit \notin 0 .. 1

VARIABLES system,
  input, state, tasks, call, rounds,
  st, order, attempt, reserved, briefs, contracts, results, mirrored,
  ws, src, head, saved, trouble, d, evidence, finals, verdicts, diff

convergeVars == <<input, state, tasks, call, rounds>>
isolated == <<st, order, attempt, reserved, briefs, contracts, results, mirrored,
              ws, src, head, saved, trouble, d, evidence, finals, verdicts, diff>>
vars == <<system, convergeVars, isolated>>

(* For TLC: what is found in which state of the repository.                *)
MCFindings == [i \in {ok, red, redder, amber, vague, frozen} |->
            IF i \in {ok, vague} THEN {} ELSE IF i \in {red, redder} THEN {f1}
            ELSE IF i = amber THEN {f2} ELSE {f1, f3}]

Converge == INSTANCE Convergence WITH
  Caller <- Caller, Input <- DOMAIN Findings, Findings <- Findings, Authority <- Authority,
  Passing <- Passing, MaxRounds <- MaxRounds, MaxEdits <- MaxEdits, files <- tasks, edits <- rounds

Invoked(ts, as, ps) == (ts \X (1 .. as) \X {"implement", "spec", "quality"}) \X ps
Outcomes == [status : {"passed", "failed"}, commit : 0 .. 1]

Retried == INSTANCE CompletionBarrierProofs WITH
  Task <- {t1}, Source <- Invoked({t1}, 2, {p1}), Digest <- Outcomes, Commit <- 0 .. 1,
  Contract <- {}, Profile <- {p1}, Content <- {0, 1}, Truth <- {0}, Ignored <- TRUE,
  MaxAttempt <- 2, MaxHead <- 0, MaxTrouble <- 2, MaxFinal <- 1

Pair == INSTANCE CompletionBarrierProofs WITH
  Task <- {t1, t2}, Source <- Invoked({t1, t2}, 1, {p1}), Digest <- Outcomes, Commit <- 0 .. 1,
  Contract <- {}, Profile <- {p1}, Content <- {0, 1}, Truth <- {0, 1}, Ignored <- TRUE,
  MaxAttempt <- 1, MaxHead <- 1, MaxTrouble <- 1, MaxFinal <- 1

Profiles == INSTANCE CompletionBarrierProofs WITH
  Task <- {t1}, Source <- Invoked({t1}, 1, {p1, p2}), Digest <- Outcomes, Commit <- 0 .. 1,
  Contract <- {}, Profile <- {p1, p2}, Content <- {0, 1}, Truth <- {0}, Ignored <- FALSE,
  MaxAttempt <- 1, MaxHead <- 0, MaxTrouble <- 2, MaxFinal <- 1

(* For the violation run: a final review, twice, after a commit.           *)
Again == INSTANCE CompletionBarrierProofs WITH
  Task <- {t1}, Source <- Invoked({t1}, 1, {p1}), Digest <- Outcomes, Commit <- 0 .. 1,
  Contract <- {}, Profile <- {p1}, Content <- {0, 1}, Truth <- {0}, Ignored <- TRUE,
  MaxAttempt <- 1, MaxHead <- 1, MaxTrouble <- 2, MaxFinal <- 2

Unused(v) == v = <<>>
NoConverge == Unused(input) /\ Unused(state) /\ Unused(tasks) /\ Unused(call) /\ Unused(rounds)
NoIsolated ==
  /\ Unused(st) /\ Unused(order) /\ Unused(attempt) /\ Unused(reserved) /\ Unused(briefs)
  /\ Unused(contracts) /\ Unused(results) /\ Unused(mirrored) /\ Unused(ws) /\ Unused(src)
  /\ Unused(head) /\ Unused(saved) /\ Unused(trouble) /\ Unused(d) /\ Unused(evidence)
  /\ Unused(finals) /\ Unused(verdicts) /\ Unused(diff)

Init ==
  \/ system = "converge" /\ Converge!Init /\ NoIsolated
  \/ /\ NoConverge
     /\ \/ system = "retried" /\ Retried!FinalInit
        \/ system = "pair" /\ Pair!FinalInit
        \/ system = "profiles" /\ Profiles!FinalInit

Next ==
  \/ system = "converge" /\ Converge!Next /\ UNCHANGED <<system, isolated>>
  \/ system = "retried" /\ Retried!Next /\ UNCHANGED <<system, convergeVars>>
  \/ system = "pair" /\ Pair!Next /\ UNCHANGED <<system, convergeVars>>
  \/ system = "profiles" /\ Profiles!Next /\ UNCHANGED <<system, convergeVars>>

Spec == Init /\ [][Next]_vars
AgainSpec ==
  /\ system = "again" /\ NoConverge /\ Again!FinalInit
  /\ [][Again!Next /\ UNCHANGED <<system, convergeVars>>]_vars
-----------------------------------------------------------------------------
(* The properties of the modules, each for the systems it is about.        *)
In(name) == system = name

TypeOK ==
  /\ In("converge") => Converge!TypeOK
  /\ In("retried") => Retried!TypeOK
  /\ In("pair") => Pair!TypeOK
  /\ In("profiles") => Profiles!TypeOK

(* The converge loop is bounded in rounds, repetitions and tasks, findings *)
(* that a change left as they were are not handed out again, and every     *)
(* task that the state names has its brief on the disk.                    *)
ConvergeIsBounded ==
  In("converge") => Converge!WorkIsBounded /\ Converge!NoWorkTwice /\ Converge!TasksAreOnDisk

(* Reviews happen in order and of one thing, a completed task was proved   *)
(* by one chain of its own attempt, and a completed run was reviewed as a  *)
(* whole after all of its tasks.                                           *)
Reviewed(ordered, chained, whole) == ordered /\ chained /\ whole
CompletedIsReviewed ==
  /\ In("retried") => Reviewed(Retried!ReviewsInOrder, Retried!CompletedOnOneChain, Retried!RunCompletedIsReviewed)
  /\ In("pair") => Reviewed(Pair!ReviewsInOrder, Pair!CompletedOnOneChain, Pair!RunCompletedIsReviewed)
  /\ In("profiles") => Reviewed(Profiles!ReviewsInOrder, Profiles!CompletedOnOneChain, Profiles!RunCompletedIsReviewed)

(* Both reviews of a task that is completed saw the repository as it is.   *)
CompletionIsCurrent ==
  [][/\ In("retried") => Retried!CompletesCurrent
     /\ In("pair") => Pair!CompletesCurrent
     /\ In("profiles") => Profiles!CompletesCurrent]_vars

(* A final review that is contracted again after a change of the           *)
(* repository can be carried out: its context is what it was contracted on.*)
FinalCanBeReviewed == In("again") => Again!FinalCanBeReviewed
-----------------------------------------------------------------------------
(* The invariants that CompletionBarrierProofs and Convergence prove for   *)
(* all constants, each for the systems it is about.                        *)
AllInv ==
  /\ In("converge") => Converge!IInv
  /\ In("retried") => Retried!IInv
  /\ In("pair") => Pair!IInv
  /\ In("profiles") => Profiles!IInv

(* The constants of the systems are such as the theorems are about. *)
LEMMA ParametersHold ==
  Converge!Parameters /\ Retried!Parameters /\ Pair!Parameters /\ Profiles!Parameters
<1>1. Converge!Parameters
  BY ConvergeAssumption DEF Converge!Parameters
<1>2. Retried!Parameters
  BY DEF Retried!Parameters, Retried!Invocation, Retried!Slot, Retried!Attempt, Retried!Stage,
         Retried!Result, Invoked, Outcomes
<1>3. Pair!Parameters
  BY DEF Pair!Parameters, Pair!Invocation, Pair!Slot, Pair!Attempt, Pair!Stage,
         Pair!Result, Invoked, Outcomes
<1>4. Profiles!Parameters
  BY DEF Profiles!Parameters, Profiles!Invocation, Profiles!Slot, Profiles!Attempt, Profiles!Stage,
         Profiles!Result, Invoked, Outcomes
<1> QED
  BY <1>1, <1>2, <1>3, <1>4

-----------------------------------------------------------------------------
(* The converge loop, for any callers, findings and number of rounds.      *)

(* Before the first round there is a state like any other. *)
LEMMA NoStateSound == Converge!Parameters => Converge!Sound(Converge!NoState)
<1> SUFFICES ASSUME Converge!Parameters PROVE Converge!Sound(Converge!NoState)
  OBVIOUS
<1>1. Converge!NoState.input \in DOMAIN Findings
  BY DEF Converge!NoState, Converge!Parameters
<1>2. Converge!NoState \in Converge!StateFile
  BY <1>1 DEF Converge!NoState, Converge!StateFile, Converge!Status, Converge!Reason
<1> QED
  BY <1>2 DEF Converge!Sound, Converge!Worthwhile, Converge!NoState

(* A round that hands out no work, or that is worth it, keeps it sound.    *)
LEMMA OneMoreRound ==
  ASSUME NEW s, Converge!Sound(s), NEW i \in DOMAIN Findings, NEW ts \in SUBSET Converge!Task,
         NEW status \in Converge!Status, NEW reason \in Converge!Reason,
         status = "escalated" <=> reason # "none",
         ts # {} => Len(s.rounds) < MaxRounds /\ ~Converge!NoProgress(s, i), MaxRounds \in Nat
  PROVE  Converge!Sound(Converge!WithRound(s, i, ts, status, reason))
<1> DEFINE r == s.rounds
           new == [id |-> i, found |-> Findings[i], tasks |-> ts]
           more == Append(r, new)
<1>1. r \in Seq(Converge!Round) /\ s.tasks \in SUBSET Converge!Task
  BY DEF Converge!Sound, Converge!StateFile
<1>2. new \in Converge!Round
  BY DEF Converge!Round, Converge!Finding
<1>3. more \in Seq(Converge!Round) /\ Len(more) = Len(r) + 1 /\ Len(r) \in Nat
      /\ DOMAIN more = 1 .. (Len(r) + 1) /\ DOMAIN r = 1 .. Len(r)
      /\ more[Len(r) + 1] = new /\ \A n \in 1 .. Len(r) : more[n] = r[n]
  BY <1>1, <1>2
<1>4. Converge!WithRound(s, i, ts, status, reason) \in Converge!StateFile
  BY <1>1, <1>3 DEF Converge!WithRound, Converge!StateFile
<1>5. Converge!Worthwhile(more)
  <2> SUFFICES ASSUME NEW n \in 1 .. (Len(r) + 1), more[n].tasks # {}
               PROVE  n <= MaxRounds /\ (n > 1 => more[n - 1].found # more[n].found)
    BY <1>3 DEF Converge!Worthwhile
  <2>1. CASE n \in 1 .. Len(r)
    <3>1. more[n] = r[n] /\ (n > 1 => n - 1 \in 1 .. Len(r) /\ more[n - 1] = r[n - 1])
      BY <2>1, <1>3
    <3> QED
      BY <3>1, <2>1, <1>3 DEF Converge!Sound, Converge!Worthwhile
  <2>2. CASE n = Len(r) + 1
    <3>1. ts # {} /\ more[n] = new
      BY <2>2, <1>3
    <3>2. Len(r) < MaxRounds /\ ~Converge!NoProgress(s, i)
      BY <3>1
    <3>3. n > 1 => n - 1 = Len(r) /\ more[n - 1] = r[Len(r)] /\ r # <<>>
      BY <2>2, <1>3
    <3>4. n > 1 => r[Len(r)].found # Findings[i]
      BY <3>2, <3>3 DEF Converge!NoProgress
    <3> QED
      BY <3>1, <3>2, <3>3, <3>4, <2>2, <1>3
  <2> QED
    BY <2>1, <2>2, <1>3
<1> QED
  BY <1>4, <1>5 DEF Converge!Sound, Converge!WithRound

(* Whatever verification finds, what is decided on a sound state is sound. *)
LEMMA DecisionSound ==
  ASSUME Converge!Parameters, NEW s, Converge!Sound(s), NEW i \in DOMAIN Findings
  PROVE  Converge!Sound(Converge!Decide(s, i))
<1>1. MaxRounds \in Nat /\ Len(s.rounds) \in Nat
  BY DEF Converge!Parameters, Converge!Sound, Converge!StateFile
<1>2. Converge!TasksFor(i) \in SUBSET Converge!Task
  BY DEF Converge!TasksFor, Converge!Task, Converge!Finding
<1>3. Converge!Sound(Converge!WithRound(s, i, {}, "verified", "none"))
  BY <1>1, OneMoreRound DEF Converge!Status, Converge!Reason
<1>4. \A why \in {"non-remediable", "no-progress"} :
        Converge!Sound(Converge!WithRound(s, i, {}, "escalated", why))
  BY <1>1, OneMoreRound DEF Converge!Status, Converge!Reason
<1>5. ~Converge!Consumed(s) /\ ~Converge!NoProgress(s, i) =>
        Converge!Sound(Converge!WithRound(s, i, Converge!TasksFor(i), "action-required", "none"))
  <2>1. ~Converge!Consumed(s) => Len(s.rounds) < MaxRounds
    BY <1>1 DEF Converge!Consumed
  <2> QED
    BY <1>1, <1>2, <2>1, OneMoreRound DEF Converge!Status, Converge!Reason
<1>6. Converge!Sound([s EXCEPT !.status = "escalated", !.reason = "max-rounds", !.input = i])
  BY DEF Converge!Sound, Converge!StateFile, Converge!Status, Converge!Reason
<1> QED
  BY <1>3, <1>4, <1>5, <1>6 DEF Converge!Decide

(* The invariant holds when nobody has called yet. *)
LEMMA ConvergeStarts == Converge!Parameters /\ Converge!Init => Converge!IInv
<1> SUFFICES ASSUME Converge!Parameters, Converge!Init PROVE Converge!IInv
  OBVIOUS
<1>1. Converge!Sound(Converge!NoState) /\ Converge!NoState \in Converge!StateFile
  BY NoStateSound DEF Converge!Sound
<1>2. Converge!Idle \in Converge!CallRecord
  BY <1>1 DEF Converge!Idle, Converge!CallRecord
<1> QED
  BY <1>1, <1>2 DEF Converge!Init, Converge!IInv, Converge!Idle, Converge!NoState

(* Every step of every caller keeps the invariant. *)
LEMMA ConvergeSteps ==
  ASSUME Converge!Parameters, Converge!IInv, [Converge!Next]_(Converge!vars)
  PROVE  Converge!IInv'
<1>1. Converge!Sound(Converge!NoState) /\ Converge!NoState \in Converge!StateFile
  BY NoStateSound DEF Converge!Sound
<1>2. Converge!Idle \in Converge!CallRecord /\ Converge!Sound(Converge!Idle.old) /\ Converge!Sound(Converge!Idle.new)
  BY <1>1 DEF Converge!Idle, Converge!CallRecord
<1> DEFINE Unless(c, e) == /\ call' = [call EXCEPT ![c] = e] /\ e \in Converge!CallRecord
                           /\ Converge!Sound(e.old) /\ Converge!Sound(e.new)
<1>3. ASSUME NEW c \in Caller, NEW e, Unless(c, e)
      PROVE  /\ call' \in [Caller -> Converge!CallRecord]
             /\ \A o \in Caller : Converge!Sound(call'[o].old) /\ Converge!Sound(call'[o].new)
  BY <1>3 DEF Converge!IInv
<1>4. ASSUME NEW c \in Caller, Converge!Load(c) PROVE Converge!IInv'
  <2> DEFINE e == [Converge!Idle EXCEPT !.pc = "verify", !.old = state]
  <2>1. e \in Converge!CallRecord /\ e.old = state /\ e.new = Converge!Idle.new
    BY <1>2 DEF Converge!CallRecord, Converge!IInv, Converge!Sound
  <2>2. Unless(c, e)
    BY <1>2, <1>4, <2>1 DEF Converge!Load, Converge!IInv
  <2> QED
    BY <1>3, <1>4, <2>2 DEF Converge!Load, Converge!IInv
<1>5. ASSUME NEW c \in Caller, Converge!Verify(c) PROVE Converge!IInv'
  <2> DEFINE e == [call[c] EXCEPT !.pc = "persist", !.new = Converge!Decide(call[c].old, input)]
  <2>1. Converge!Sound(Converge!Decide(call[c].old, input))
    BY DecisionSound DEF Converge!IInv
  <2>2. call[c] \in Converge!CallRecord /\ Converge!Sound(call[c].old)
    BY DEF Converge!IInv
  <2>3. e \in Converge!CallRecord /\ e.old = call[c].old /\ e.new = Converge!Decide(call[c].old, input)
    BY <2>1, <2>2 DEF Converge!CallRecord, Converge!Sound
  <2>4. Unless(c, Converge!Idle) \/ Unless(c, e)
    BY <1>2, <1>5, <2>1, <2>2, <2>3 DEF Converge!Verify
  <2> QED
    BY <1>3, <1>5, <2>4 DEF Converge!Verify, Converge!IInv
<1>6. ASSUME NEW c \in Caller, Converge!PersistTask(c) PROVE Converge!IInv'
  <2>1. call[c].new.tasks \subseteq Converge!Task
    BY DEF Converge!IInv, Converge!CallRecord, Converge!StateFile
  <2> QED
    BY <1>6, <2>1 DEF Converge!PersistTask, Converge!IInv
<1>7. ASSUME NEW c \in Caller, Converge!PersistState(c) PROVE Converge!IInv'
  <2>1. Unless(c, Converge!Idle)
    BY <1>2, <1>7 DEF Converge!PersistState
  <2> QED
    BY <1>3, <1>7, <2>1 DEF Converge!PersistState, Converge!ReadyToPersist, Converge!IInv
<1>8. ASSUME NEW c \in Caller, Converge!Crash(c) PROVE Converge!IInv'
  <2>1. Unless(c, Converge!Idle)
    BY <1>2, <1>8 DEF Converge!Crash
  <2> QED
    BY <1>3, <1>8, <2>1 DEF Converge!Crash, Converge!IInv
<1>9. ASSUME NEW i \in DOMAIN Findings, Converge!Edit(i) PROVE Converge!IInv'
  BY <1>9 DEF Converge!Edit, Converge!IInv
<1>10. CASE UNCHANGED Converge!vars
  BY <1>10 DEF Converge!vars, Converge!IInv
<1> QED
  BY <1>4, <1>5, <1>6, <1>7, <1>8, <1>9, <1>10 DEF Converge!Next, Converge!Converge

(* Work rounds have different numbers, none above MaxRounds.               *)
LEMMA SoundIsBounded ==
  Converge!Parameters /\ Converge!IInv =>
    Converge!TypeOK /\ Converge!WorkIsBounded /\ Converge!NoWorkTwice /\ Converge!TasksAreOnDisk
<1> SUFFICES ASSUME Converge!Parameters, Converge!IInv
             PROVE  Converge!TypeOK /\ Converge!WorkIsBounded /\ Converge!NoWorkTwice /\ Converge!TasksAreOnDisk
  OBVIOUS
<1>1. state.rounds \in Seq(Converge!Round) /\ Converge!Worthwhile(state.rounds) /\ MaxRounds \in Nat
  BY DEF Converge!IInv, Converge!Sound, Converge!StateFile, Converge!Parameters
<1>2. Converge!WorkRounds \in SUBSET (1 .. MaxRounds)
  BY <1>1 DEF Converge!WorkRounds, Converge!Worthwhile
<1>3. IsFiniteSet(1 .. MaxRounds) /\ Cardinality(1 .. MaxRounds) = MaxRounds
  BY <1>1, FS_Interval
<1>4. Converge!Cardinality(Converge!WorkRounds) <= MaxRounds
  <2>1. Cardinality(Converge!WorkRounds) <= MaxRounds
    BY <1>2, <1>3, FS_Subset
  <2> QED
    BY <2>1 DEF Converge!Cardinality, Cardinality
<1>5. Converge!NoWorkTwice
  BY <1>1 DEF Converge!NoWorkTwice, Converge!WorkRounds, Converge!Worthwhile
<1>6. Converge!TypeOK
  BY <1>1 DEF Converge!TypeOK, Converge!IInv, Converge!Sound, Converge!StateFile, Converge!CallRecord
<1> QED
  BY <1>4, <1>5, <1>6 DEF Converge!WorkIsBounded, Converge!TasksAreOnDisk, Converge!IInv

-----------------------------------------------------------------------------
(* All systems.                                                            *)

(* Whatever system a behaviour starts with, its invariant holds. *)
LEMMA AllStart == Init => AllInv
<1> SUFFICES ASSUME Init PROVE AllInv
  OBVIOUS
<1>1. CASE system = "converge" /\ Converge!Init
  BY <1>1, ParametersHold, NoneAssumption, ConvergeStarts DEF AllInv, In
<1>2. CASE system = "retried" /\ Retried!FinalInit
  BY <1>2, ParametersHold, NoneAssumption, Retried!BarrierInit DEF AllInv, In
<1>3. CASE system = "pair" /\ Pair!FinalInit
  BY <1>3, ParametersHold, NoneAssumption, Pair!BarrierInit DEF AllInv, In
<1>4. CASE system = "profiles" /\ Profiles!FinalInit
  BY <1>4, ParametersHold, NoneAssumption, Profiles!BarrierInit DEF AllInv, In
<1> QED
  BY <1>1, <1>2, <1>3, <1>4 DEF Init

(* A step is one of the system that runs, or none. *)
LEMMA OneSystem ==
  ASSUME [Next]_vars
  PROVE  /\ system' = system
         /\ system = "converge" => [Converge!Next]_(Converge!vars)
         /\ system = "retried" => [Retried!Next]_(Retried!vars)
         /\ system = "pair" => [Pair!Next]_(Pair!vars)
         /\ system = "profiles" => [Profiles!Next]_(Profiles!vars)
<1>1. CASE Next
  BY <1>1 DEF Next
<1>2. CASE UNCHANGED vars
  BY <1>2 DEF vars, convergeVars, isolated, Converge!vars,
       Retried!vars, Retried!isolatedVars, Retried!finalVars, Retried!ledger, Retried!files, Retried!repo,
       Pair!vars, Pair!isolatedVars, Pair!finalVars, Pair!ledger, Pair!files, Pair!repo,
       Profiles!vars, Profiles!isolatedVars, Profiles!finalVars, Profiles!ledger, Profiles!files, Profiles!repo
<1> QED
  BY <1>1, <1>2

(* The step of a system keeps its invariant; the others are not there. *)
LEMMA AllStep ==
  ASSUME AllInv, [Next]_vars
  PROVE  AllInv'
<1>1. CASE system = "converge"
  BY <1>1, OneSystem, ParametersHold, NoneAssumption, ConvergeSteps DEF AllInv, In
<1>2. CASE system = "retried"
  BY <1>2, OneSystem, ParametersHold, NoneAssumption, Retried!BarrierStep DEF AllInv, In
<1>3. CASE system = "pair"
  BY <1>3, OneSystem, ParametersHold, NoneAssumption, Pair!BarrierStep DEF AllInv, In
<1>4. CASE system = "profiles"
  BY <1>4, OneSystem, ParametersHold, NoneAssumption, Profiles!BarrierStep DEF AllInv, In
<1> QED
  BY <1>1, <1>2, <1>3, <1>4, OneSystem DEF AllInv, In

(* The converge loop is bounded and hands out nothing twice running. *)
THEOREM LoopIsBounded == Spec => []ConvergeIsBounded
<1>1. AllInv => ConvergeIsBounded
  BY ParametersHold, NoneAssumption, SoundIsBounded DEF AllInv, ConvergeIsBounded, In
<1> QED
  BY <1>1, AllStart, AllStep, PTL DEF Spec

(* Everything has its type. *)
THEOREM AgentsTyped == Spec => []TypeOK
<1>1. AllInv => TypeOK
  BY ParametersHold, NoneAssumption, SoundIsBounded, Retried!BarrierReviewed, Pair!BarrierReviewed,
     Profiles!BarrierReviewed DEF AllInv, TypeOK, In
<1> QED
  BY <1>1, AllStart, AllStep, PTL DEF Spec

(* A completed task was proved by its own chain, a completed run reviewed. *)
THEOREM CompletedWasReviewed == Spec => []CompletedIsReviewed
<1>1. AllInv => CompletedIsReviewed
  BY NoneAssumption, Retried!BarrierReviewed, Pair!BarrierReviewed, Profiles!BarrierReviewed
     DEF AllInv, CompletedIsReviewed, Reviewed, In
<1> QED
  BY <1>1, AllStart, AllStep, PTL DEF Spec

(* Undisturbed calls complete tasks on the repository as it is. *)
THEOREM CompletedWasCurrent == Spec => CompletionIsCurrent
<1>1. AllInv /\ [Next]_vars =>
        [/\ In("retried") => Retried!CompletesCurrent
         /\ In("pair") => Pair!CompletesCurrent
         /\ In("profiles") => Profiles!CompletesCurrent]_vars
  BY OneSystem, ParametersHold, NoneAssumption, Retried!BarrierCurrent, Pair!BarrierCurrent, Profiles!BarrierCurrent
     DEF AllInv, In
<1> QED
  BY <1>1, AllStart, AllStep, PTL DEF Spec, CompletionIsCurrent
=============================================================================
