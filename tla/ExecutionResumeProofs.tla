------------------------ MODULE ExecutionResumeProofs ------------------------
(***************************************************************************)
(* Resuming, for any number of resumers, workers, tasks and retries.       *)
(*                                                                         *)
(* IInv relates what a resumer holds to the ledger.  What it read agrees   *)
(* with the ledger as long as its head is the ledger's (Snapped, Chosen),  *)
(* because every append moves the head; and what it read of reservations   *)
(* stays true in any case (Backed), because none is ever taken back.       *)
(***************************************************************************)
EXTENDS ExecutionResume, FiniteSetTheorems

(* The ledger: registered tasks are never absent again, an attempt has one *)
(* reservation at most, and "dispatch" is that one.                        *)
Sound ==
  /\ st.last > 0 /\ st.run # "new"
  /\ \A n \in DOMAIN order : st.tasks[order[n]].status # "absent"
  /\ \A m, n \in DOMAIN order : order[m] = order[n] => m = n
  /\ IsFiniteSet(issued)
  /\ \A i \in issued : i.attempt = i.at /\ i.attempt <= attempt[i.task]
  /\ OneDispatchPerAttempt
  /\ \A t \in Task : dispatch[t] # NoId => Reserved(t, attempt[t], dispatch[t])
  /\ \A i \in issued : i.attempt = attempt[i.task] => dispatch[i.task] # NoId
  /\ ckpt.id # NoId => \E i \in issued : i.id = ckpt.id

Snapped(r) ==
  /\ rs[r].head <= st.last
  /\ rs[r].pc \in {"git", "verify"} /\ Compare(r) => rs[r].snap = Snap

(* The first task that is not completed, as the ledger has it now.         *)
IsNext(t) ==
  /\ \E n \in DOMAIN order : order[n] = t
  /\ \A n \in DOMAIN order : order[n] = t =>
       \A m \in 1 .. (n - 1) : st.tasks[order[m]].status = "completed"

Appends(r) == rs[r].pc \in {"resume", "reopen", "reserve"}
Again(r) == rs[r].action = "reopen" /\ rs[r].pc # "reserve"

Chosen(r) ==
  Appends(r) =>
    /\ rs[r].pc = "reopen" => rs[r].action = "reopen"
    /\ rs[r].pc = "reserve" \/ Again(r) => rs[r].id = NoId
    /\ Compare(r) =>
         /\ rs[r].task \in Task /\ IsNext(rs[r].task)
         /\ st.run = IF rs[r].pc = "resume" THEN "paused" ELSE "active"
         /\ Again(r) => /\ rs[r].attempt = attempt[rs[r].task] + 1
                        /\ st.tasks[rs[r].task].status \in TaskTerminal
         /\ ~Again(r) => /\ rs[r].attempt = attempt[rs[r].task]
                         /\ rs[r].id = dispatch[rs[r].task]
                         /\ st.tasks[rs[r].task].status \in {"registered", "started"}

(* The id it goes on with is in the ledger: for what it has selected, then *)
(* for no later attempt than the one the second plan was made in.          *)
Backed(r) ==
  /\ \A t \in Task : rs[r].snap.dispatch[t] # NoId =>
       Reserved(t, rs[r].snap.attempt[t], rs[r].snap.dispatch[t])
  /\ rs[r].pc \in {"plan", "git", "verify"} => rs[r].id = NoId
  /\ rs[r].pc \in {"rebuild", "regit", "reverify"} \/ rs[r].result = "ready" => rs[r].id # NoId
  /\ rs[r].id # NoId /\ rs[r].pc = "finish" => rs[r].result = "ready"
  /\ rs[r].id # NoId /\ (Appends(r) \/ rs[r].pc = "rebuild") =>
       Reserved(rs[r].task, rs[r].attempt, rs[r].id)
  /\ rs[r].id # NoId /\ rs[r].pc \in {"regit", "reverify"} =>
       \E i \in issued : i.id = rs[r].id /\ i.attempt <= rs[r].snap.attempt[i.task]
  /\ rs[r].id # NoId /\ rs[r].pc \in {"finish", "idle"} =>
       \E i \in issued : i.id = rs[r].id /\ (i.task = rs[r].task => i.attempt <= rs[r].attempt)
  /\ rs[r].result = "ready" => rs[r].pc \in {"idle", "finish"}

RInv(r) == Snapped(r) /\ Chosen(r) /\ Backed(r)

IInv == TypeOK /\ Sound /\ \A r \in Resumer : RInv(r)

-----------------------------------------------------------------------------
(* The placeholders are of the types they stand for. *)
LEMMA IdleType ==
  /\ NoSnap \in Snapshot
  /\ NoGit \in GitState
  /\ \A t \in Task : NoSnap.dispatch[t] = NoId
<1>1. NewRun \in State
  BY DEF NewRun, Absent, State, TaskState, RunStatus, TaskStatus, Binding
<1> QED
  BY <1>1 DEF NoSnap, NoGit, NoId, Snapshot, GitState

(* What one event does to a run. *)
LEMMA ApplyFacts ==
  ASSUME NEW s \in State, NEW e \in Event, s.last > 0, s.run # "new", Legal(s, e)
  PROVE  /\ Apply(s, e) \in State
         /\ Apply(s, e).last = s.last + 1
         /\ Apply(s, e).run # "new"
         /\ Apply(s, e).run = IF e.kind \in TaskKind THEN s.run ELSE RunAfter(s.run, e.kind)
         /\ \A t \in Task : s.tasks[t].status # "absent" => Apply(s, e).tasks[t].status # "absent"
         /\ \A t \in Task : ~(e.kind \in TaskKind /\ e.task = t) =>
              Apply(s, e).tasks[t] = s.tasks[t]
<1>1. Apply(s, e) \in State
  BY ApplyType
<1>2. Apply(s, e).last = s.last + 1
      /\ Apply(s, e).run = IF e.kind \in TaskKind THEN s.run ELSE RunAfter(s.run, e.kind)
  BY DEF Apply, State
<1>3. Apply(s, e).run # "new"
  BY <1>2 DEF RunAfter, Event, RunKind, TaskKind
<1>4. \A t \in Task : Apply(s, e).tasks[t] =
        IF e.kind \in TaskKind /\ e.task = t THEN TaskAfter(s.tasks[t], e) ELSE s.tasks[t]
  BY ApplyTask
<1>5. ASSUME NEW ts \in TaskState, ts.status # "absent"
      PROVE  TaskAfter(ts, e).status # "absent"
  BY <1>5 DEF TaskAfter, Reopened, TaskState, Absent
<1>6. \A t \in Task : s.tasks[t] \in TaskState
  BY DEF State
<1> QED
  BY <1>1, <1>2, <1>3, <1>4, <1>5, <1>6

(* The initial state satisfies the invariant. *)
LEMMA InitIInv == ASSUME Init PROVE IInv
<1>1. TypeOK
  <2>1. PICK p \in Priors : st = p.st /\ order = p.order
    BY DEF Init
  <2>2. st \in State /\ order \in Seq(Task)
    BY <2>1, PriorsAssumption
  <2>3. Idle \in ResumerState
    BY IdleType, TriesAssumption DEF ResumerState, Idle, Pc, Result, NoId
  <2>4. rs \in [Resumer -> {Idle}]
    BY DEF Init
  <2>5. git \in GitState
    <3>1. git \in [reach : SUBSET Commit, clean : {TRUE}]
      BY DEF Init
    <3> QED
      BY <3>1, Zenon DEF GitState
  <2> QED
    BY <2>2, <2>3, <2>4, <2>5, TriesAssumption DEF Init, TypeOK, NoId
<1>2. Sound
  BY PriorsAssumption, FS_EmptySet DEF Init, Sound, OneDispatchPerAttempt, NoId
<1>3. ASSUME NEW r \in Resumer PROVE RInv(r)
  <2>1. rs[r] = Idle
    BY DEF Init
  <2>2. rs[r].pc = "idle" /\ rs[r].head = 0 /\ rs[r].snap = NoSnap /\ rs[r].id = NoId
        /\ rs[r].result = "none"
    BY <2>1 DEF Idle
  <2> QED
    BY <2>2, <1>1, <1>2, IdleType
       DEF RInv, Snapped, Chosen, Appends, Backed, Sound, TypeOK, State
<1> QED
  BY <1>1, <1>2, <1>3 DEF IInv

(* Nothing a resumer relies on is disturbed by a step of somebody else:    *)
(* either the ledger is as before, or its head has moved.                  *)
LEMMA Bystander ==
  ASSUME IInv, TypeOK', NEW r \in Resumer, rs'[r] = rs[r],
         UNCHANGED ledger \/ st'.last > st.last,
         issued \subseteq issued'
  PROVE  RInv(r)'
<1>1. rs[r].head <= st.last /\ rs[r].head \in Nat /\ st.last \in Nat /\ st'.last \in Nat
  BY DEF IInv, RInv, Snapped, TypeOK, ResumerState, State
<1>2. Snapped(r)' /\ Chosen(r)'
  <2>1. CASE UNCHANGED ledger
    BY <2>1 DEF IInv, RInv, Snapped, Chosen, Appends, Again, Compare, IsNext, Snap, ledger
  <2>2. CASE st'.last > st.last
    BY <2>2, <1>1 DEF IInv, RInv, Snapped, Chosen, Appends, Again, Compare
  <2> QED
    BY <2>1, <2>2
<1>3. Backed(r)'
  BY DEF IInv, RInv, Backed, Reserved, Appends
<1> QED
  BY <1>2, <1>3 DEF RInv

(* A step that only changes one resumer keeps everything else. *)
LEMMA ReadStep ==
  ASSUME IInv, NEW r \in Resumer, NEW x \in ResumerState, Become(r, x),
         UNCHANGED <<ledger, ckpt, files, git, foreign>>
  PROVE  /\ TypeOK' /\ Sound' /\ rs'[r] = x
         /\ RInv(r)' => IInv'
<1>1. rs'[r] = x /\ (\A q \in Resumer \ {r} : rs'[q] = rs[q]) /\ rs' \in [Resumer -> ResumerState]
  BY DEF IInv, TypeOK, Become
<1>2. TypeOK'
  BY <1>1 DEF IInv, TypeOK, ledger
<1>3. Sound'
  BY DEF IInv, Sound, OneDispatchPerAttempt, Reserved, ledger
<1> QED
  BY <1>1, <1>2, <1>3, Bystander DEF IInv, ledger

(* A resumer that starts over holds nothing that could be out of date. *)
LEMMA StartsOver ==
  ASSUME IInv, NEW r \in Resumer, NEW x \in ResumerState, Become(r, x),
         x.pc \in {"idle", "plan"}, x.head = 0, x.snap = NoSnap, x.id = NoId,
         x.result # "ready",
         UNCHANGED <<ledger, ckpt, files, git, foreign>>
  PROVE  IInv'
<1>1. TypeOK' /\ Sound' /\ rs'[r] = x /\ (RInv(r)' => IInv')
  BY ReadStep
<1>2. Snapped(r)' /\ Chosen(r)'
  BY <1>1 DEF Snapped, Chosen, Appends, TypeOK, State
<1>3. Backed(r)'
  BY <1>1, IdleType DEF Backed, Appends
<1> QED
  BY <1>1, <1>2, <1>3 DEF RInv

(* Calls that begin, end without an answer, or begin again. *)
LEMMA StartingSteps ==
  ASSUME IInv, NEW r \in Resumer,
         Call(r) \/ RefuseBlocked(r) \/ CompareFails(r) \/ Crash(r)
  PROVE  IInv'
<1>1. rs[r].tries \in 0 .. MaxTries /\ MaxTries \in Nat \ {0}
  BY TriesAssumption DEF IInv, TypeOK, ResumerState
<1>2. Idle \in ResumerState /\ Idle.pc = "idle" /\ Idle.head = 0 /\ Idle.snap = NoSnap
      /\ Idle.id = NoId /\ Idle.result = "none"
  BY <1>1, IdleType DEF ResumerState, Idle, Pc, Result, NoId
<1>3. ASSUME NEW n \in 0 .. MaxTries, Become(r, [Idle EXCEPT !.pc = "plan", !.tries = n]),
             UNCHANGED <<ledger, ckpt, files, git, foreign>>
      PROVE  IInv'
  <2> DEFINE x == [Idle EXCEPT !.pc = "plan", !.tries = n]
  <2>1. x \in ResumerState /\ x.pc = "plan" /\ x.head = 0 /\ x.snap = NoSnap /\ x.id = NoId
        /\ x.result = "none"
    BY <1>2 DEF ResumerState, Pc
  <2> QED
    BY <1>3, <2>1, StartsOver
<1>4. ASSUME NEW result \in {"blocked", "contended"}, Answer(r, result),
             UNCHANGED <<ledger, ckpt, files, git, foreign>>
      PROVE  IInv'
  <2> DEFINE x == [Idle EXCEPT !.result = result]
  <2>1. x \in ResumerState /\ x.pc = "idle" /\ x.head = 0 /\ x.snap = NoSnap /\ x.id = NoId
        /\ x.result # "ready"
    BY <1>2 DEF ResumerState, Result
  <2> QED
    BY <1>4, <2>1, StartsOver DEF Answer
<1>5. CASE Call(r)
  <2>1. 1 \in 0 .. MaxTries
    BY <1>1
  <2> QED
    BY <2>1, <1>3, <1>5 DEF Call
<1>6. CASE RefuseBlocked(r)
  BY <1>4, <1>6 DEF RefuseBlocked
<1>7. CASE CompareFails(r)
  <2>1. CASE rs[r].tries < MaxTries
    <3>1. rs[r].tries + 1 \in 0 .. MaxTries
      BY <1>1, <2>1
    <3>2. Become(r, [Idle EXCEPT !.pc = "plan", !.tries = rs[r].tries + 1])
      BY <1>1, <1>7, <2>1 DEF CompareFails, MayRetry
    <3> QED
      BY <1>3, <1>7, <3>1, <3>2 DEF CompareFails, MayRetry
  <2>2. CASE ~(rs[r].tries < MaxTries)
    BY <1>4, <1>7, <2>2 DEF CompareFails, MayRetry
  <2> QED
    BY <2>1, <2>2
<1>8. CASE Crash(r)
  BY <1>2, <1>8, StartsOver DEF Crash
<1> QED
  BY <1>5, <1>6, <1>7, <1>8

(* Reading the ledger takes a snapshot of it. *)
LEMMA ReadLedgerStep ==
  ASSUME IInv, NEW r \in Resumer, ReadLedger(r)
  PROVE  IInv'
<1> DEFINE x == [rs[r] EXCEPT !.pc = "git", !.snap = Snap, !.head = st.last]
<1>1. /\ x \in ResumerState /\ x.pc = "git" /\ x.snap = Snap /\ x.head = st.last
      /\ x.id = rs[r].id /\ x.task = rs[r].task /\ x.attempt = rs[r].attempt
      /\ x.result = rs[r].result
  <2>1. Snap \in Snapshot /\ st.last \in Nat
    BY DEF IInv, TypeOK, State, Snap, Snapshot
  <2>2. rs[r] \in ResumerState /\ "git" \in Pc
    BY DEF IInv, TypeOK, Pc
  <2> QED
    BY <2>1, <2>2 DEF ResumerState
<1>2. TypeOK' /\ Sound' /\ rs'[r] = x /\ (RInv(r)' => IInv')
  BY <1>1, ReadStep DEF ReadLedger
<1>3. /\ st' = st /\ attempt' = attempt /\ dispatch' = dispatch /\ issued' = issued
      /\ rs[r].pc = "plan"
  BY DEF ReadLedger, ledger, At
<1>4. Snapped(r)' /\ Chosen(r)'
  BY <1>1, <1>2, <1>3 DEF Snapped, Chosen, Appends, Snap, TypeOK, State
<1>5. Backed(r)'
  BY <1>1, <1>2, <1>3 DEF IInv, Sound, RInv, Backed, Snap, Reserved, Appends
<1> QED
  BY <1>2, <1>4, <1>5 DEF RInv

(* Reading Git leaves the snapshot as it is. *)
LEMMA ReadGitStep ==
  ASSUME IInv, NEW r \in Resumer, ReadGit(r)
  PROVE  IInv'
<1> DEFINE x == [rs[r] EXCEPT !.pc = "verify", !.git = git]
<1>1. /\ x \in ResumerState /\ x.pc = "verify" /\ x.snap = rs[r].snap /\ x.head = rs[r].head
      /\ x.id = rs[r].id /\ x.task = rs[r].task /\ x.attempt = rs[r].attempt
      /\ x.result = rs[r].result
  <2>1. rs[r] \in ResumerState /\ "verify" \in Pc /\ git \in GitState
    BY DEF IInv, TypeOK, Pc
  <2> QED
    BY <2>1 DEF ResumerState
<1>2. TypeOK' /\ Sound' /\ rs'[r] = x /\ (RInv(r)' => IInv')
  BY <1>1, ReadStep DEF ReadGit
<1>3. UNCHANGED ledger /\ rs[r].pc = "git"
  BY DEF ReadGit, At
<1>4. Snapped(r)' /\ Chosen(r)'
  BY <1>1, <1>2, <1>3 DEF IInv, RInv, Snapped, Chosen, Appends, Snap, Compare, ledger
<1>5. Backed(r)'
  BY <1>1, <1>2, <1>3 DEF IInv, RInv, Backed, Reserved, Appends, ledger
<1> QED
  BY <1>2, <1>4, <1>5 DEF RInv

(* A plan that has nothing to resume. *)
LEMMA NothingToResumeStep ==
  ASSUME IInv, NEW r \in Resumer, NothingToResume(r)
  PROVE  IInv'
<1> DEFINE x == [rs[r] EXCEPT !.pc = "finish", !.result = "nothing-to-resume",
                              !.snap = NoSnap, !.git = NoGit]
<1>1. /\ x \in ResumerState /\ x.pc = "finish" /\ x.snap = NoSnap /\ x.head = rs[r].head
      /\ x.id = rs[r].id /\ x.result = "nothing-to-resume"
  <2>1. rs[r] \in ResumerState /\ "finish" \in Pc /\ "nothing-to-resume" \in Result
    BY DEF IInv, TypeOK, Pc, Result
  <2> QED
    BY <2>1, IdleType DEF ResumerState
<1>2. TypeOK' /\ Sound' /\ rs'[r] = x /\ (RInv(r)' => IInv')
  BY <1>1, ReadStep DEF NothingToResume
<1>3. UNCHANGED ledger /\ rs[r].pc = "verify"
  BY DEF NothingToResume, At
<1> QED
  BY <1>1, <1>2, <1>3, IdleType
     DEF IInv, RInv, Snapped, Chosen, Appends, Backed, Reserved, ledger

(* Of the first plan a resumer keeps the id, which the ledger has reserved *)
(* for an attempt that is not later than the one of the new snapshot.      *)
LEMMA RereadLedgerStep ==
  ASSUME IInv, NEW r \in Resumer, RereadLedger(r)
  PROVE  IInv'
<1> DEFINE x == [Idle EXCEPT !.pc = "regit", !.snap = Snap, !.id = rs[r].id]
<1>1. /\ x \in ResumerState /\ x.pc = "regit" /\ x.snap = Snap /\ x.head = 0
      /\ x.id = rs[r].id /\ x.result = "none"
  <2>1. Snap \in Snapshot
    BY DEF IInv, TypeOK, State, Snap, Snapshot
  <2>2. Idle \in ResumerState /\ Idle.head = 0 /\ Idle.result = "none"
        /\ rs[r].id \in Nat /\ "regit" \in Pc
    BY IdleType, TriesAssumption DEF IInv, TypeOK, ResumerState, Idle, Pc, Result, NoId
  <2> QED
    BY <2>1, <2>2 DEF ResumerState
<1>2. TypeOK' /\ Sound' /\ rs'[r] = x /\ (RInv(r)' => IInv')
  BY <1>1, ReadStep DEF RereadLedger
<1>3. /\ st' = st /\ attempt' = attempt /\ dispatch' = dispatch /\ issued' = issued
      /\ rs[r].pc = "rebuild"
  BY DEF RereadLedger, ledger, At
<1>4. Snapped(r)' /\ Chosen(r)'
  BY <1>1, <1>2, <1>3 DEF Snapped, Chosen, Appends, TypeOK, State
<1>5. rs[r].id # NoId /\ \E i \in issued : i.id = rs[r].id /\ i.attempt <= attempt[i.task]
  BY <1>3 DEF IInv, Sound, RInv, Backed, Reserved
<1>6. \A t \in Task : dispatch[t] # NoId => Reserved(t, attempt[t], dispatch[t])
  BY DEF IInv, Sound
<1> HIDE DEF x
<1>7. Backed(r)'
  BY <1>1, <1>2, <1>3, <1>5, <1>6 DEF Backed, Snap, Reserved, Appends
<1> QED
  BY <1>2, <1>4, <1>7 DEF RInv

(* Reading Git once more leaves the second snapshot as it is. *)
LEMMA RereadGitStep ==
  ASSUME IInv, NEW r \in Resumer, RereadGit(r)
  PROVE  IInv'
<1> DEFINE x == [rs[r] EXCEPT !.pc = "reverify", !.git = git]
<1>1. /\ x \in ResumerState /\ x.pc = "reverify" /\ x.snap = rs[r].snap /\ x.head = rs[r].head
      /\ x.id = rs[r].id /\ x.result = rs[r].result
  <2>1. rs[r] \in ResumerState /\ "reverify" \in Pc /\ git \in GitState
    BY DEF IInv, TypeOK, Pc
  <2> QED
    BY <2>1 DEF ResumerState
<1>2. TypeOK' /\ Sound' /\ rs'[r] = x /\ (RInv(r)' => IInv')
  BY <1>1, ReadStep DEF RereadGit
<1>3. UNCHANGED ledger /\ rs[r].pc = "regit"
  BY DEF RereadGit, At
<1> QED
  BY <1>1, <1>2, <1>3 DEF IInv, RInv, Snapped, Chosen, Appends, Compare, Backed, Reserved, ledger

(* Whatever the second plan selects, the id stays one of the ledger's. *)
LEMMA RebuildStep ==
  ASSUME IInv, NEW r \in Resumer, Rebuild(r)
  PROVE  IInv'
<1> DEFINE y(t, n) == [rs[r] EXCEPT !.pc = "finish", !.result = "ready", !.task = t,
                                     !.attempt = n, !.snap = NoSnap, !.git = NoGit]
<1>1. PICK t \in Task \cup {NoTask}, n \in Nat :
        Become(r, y(t, n)) /\ (t \in Task => n = rs[r].snap.attempt[t])
  <2>1. CASE Become(r, y(NoTask, 0))
    BY <2>1, NoTaskAssumption
  <2>2. ASSUME NEW m \in Open(r), Become(r, y(order[m], rs[r].snap.attempt[order[m]]))
        PROVE  \E t \in Task \cup {NoTask}, n \in Nat :
                 Become(r, y(t, n)) /\ (t \in Task => n = rs[r].snap.attempt[t])
    <3>1. order[m] \in Task /\ rs[r].snap \in Snapshot
      BY DEF IInv, TypeOK, Open, ResumerState
    <3>2. rs[r].snap.attempt[order[m]] \in Nat
      BY <3>1 DEF Snapshot
    <3> HIDE DEF y
    <3> QED
      BY <2>2, <3>1, <3>2
  <2> QED
    BY <2>1, <2>2 DEF Rebuild
<1> DEFINE x == y(t, n)
<1>2. /\ x \in ResumerState /\ x.pc = "finish" /\ x.snap = NoSnap /\ x.head = rs[r].head
      /\ x.id = rs[r].id /\ x.task = t /\ x.attempt = n /\ x.result = "ready"
  <2>1. rs[r] \in ResumerState /\ "finish" \in Pc /\ "ready" \in Result
    BY DEF IInv, TypeOK, Pc, Result
  <2> QED
    BY <1>1, <2>1, IdleType DEF ResumerState
<1>3. TypeOK' /\ Sound' /\ rs'[r] = x /\ (RInv(r)' => IInv')
  BY <1>1, <1>2, ReadStep DEF Rebuild
<1>4. UNCHANGED ledger /\ rs[r].pc = "reverify" /\ issued \subseteq Reservation
  BY DEF Rebuild, At, IInv, TypeOK
<1>5. rs[r].id # NoId
      /\ \E i \in issued : i.id = rs[r].id /\ (i.task = t => i.attempt <= n)
  BY <1>1, <1>4 DEF IInv, RInv, Backed, Reservation
<1> HIDE DEF x
<1>6. Backed(r)'
  BY <1>2, <1>3, <1>4, <1>5, IdleType DEF Backed, Appends, ledger
<1>7. Snapped(r)' /\ Chosen(r)'
  BY <1>2, <1>3, <1>4 DEF IInv, RInv, Snapped, Chosen, Appends, ledger
<1> QED
  BY <1>3, <1>6, <1>7 DEF RInv

(* What is chosen from a snapshot is chosen from the ledger, as long as    *)
(* the ledger has not moved.                                               *)
LEMMA ChooseStep ==
  ASSUME IInv, NEW r \in Resumer, Choose(r)
  PROVE  IInv'
<1> DEFINE snap == rs[r].snap
<1>1. /\ rs[r] \in ResumerState /\ snap \in Snapshot /\ rs[r].pc = "verify" /\ ~Blocked(r)
      /\ UNCHANGED <<ledger, ckpt, files, git, foreign>>
  BY DEF IInv, TypeOK, ResumerState, Choose, At
<1>2. PICK n \in Open(r) : (\A m \in Open(r) : n <= m) /\ Become(r, Selected(r, n))
  BY DEF Choose, First
<1> DEFINE t == order[n]
           again == snap.st.tasks[t].status \in TaskTerminal
           old == IF again THEN NoId ELSE snap.dispatch[t]
           next == IF again THEN "reopen" ELSE ToReserve(old)
           x == Selected(r, n)
<1>3. /\ n \in DOMAIN order /\ DOMAIN order = 1 .. Len(order) /\ Len(order) \in Nat
      /\ t \in Task /\ snap.st.tasks[t].status # "absent"
      /\ ~Verified(r, snap.st.tasks[t])
  BY DEF Open, IInv, TypeOK
<1>4. /\ snap.st \in State /\ snap.attempt \in [Task -> Nat] /\ snap.dispatch \in [Task -> Nat]
      /\ snap.st.tasks[t].status \in TaskStatus
  BY <1>1, <1>3 DEF Snapshot, State, TaskState
<1>5. /\ next \in {"reopen", "reserve", "rebuild"} /\ old \in Nat
      /\ next = "reopen" <=> again
      /\ next = "reserve" => old = NoId
      /\ next = "rebuild" => old # NoId
  BY <1>3, <1>4 DEF ToReserve, NoId
<1>6. /\ x.pc = IF snap.st.run = "paused" THEN "resume" ELSE next
      /\ x.task = t /\ x.id = old /\ x.snap = NoSnap
      /\ x.action = IF again THEN "reopen" ELSE "dispatch"
      /\ x.attempt = IF again THEN snap.attempt[t] + 1 ELSE snap.attempt[t]
      /\ x.head = rs[r].head /\ x.result = rs[r].result
  BY <1>1 DEF Selected, Phase, AttemptOf, ResumerState
<1>7. x \in ResumerState
  <2> DEFINE pc == IF snap.st.run = "paused" THEN "resume" ELSE next
             action == IF again THEN "reopen" ELSE "dispatch"
             tries == IF again THEN snap.attempt[t] + 1 ELSE snap.attempt[t]
  <2>1. pc \in Pc /\ action \in {"skip", "reopen", "dispatch"}
    BY <1>5 DEF Pc
  <2>2. tries \in Nat
    BY <1>3, <1>4
  <2>3. x = [rs[r] EXCEPT !.pc = pc, !.task = t, !.id = old, !.action = action,
                          !.attempt = tries, !.snap = NoSnap, !.git = NoGit]
    BY DEF Selected, Phase, AttemptOf
  <2> HIDE DEF pc, action, tries, x, t, old
  <2> QED
    BY <1>1, <1>3, <1>5, <2>1, <2>2, <2>3, IdleType DEF ResumerState
<1>8. TypeOK' /\ Sound' /\ rs'[r] = x /\ (RInv(r)' => IInv')
  BY <1>1, <1>2, <1>7, ReadStep
<1>9. Backed(r)'
  <2>1. old # NoId => Reserved(t, snap.attempt[t], old) /\ ~again
    BY <1>3 DEF IInv, RInv, Backed
  <2>2. rs[r].result # "ready"
    BY <1>1 DEF IInv, RInv, Backed
  <2> HIDE DEF x
  <2> QED
    BY <1>1, <1>5, <1>6, <1>8, <2>1, <2>2, IdleType DEF Backed, Reserved, Appends, ledger
<1>10. Snapped(r)'
  BY <1>1, <1>5, <1>6, <1>8 DEF IInv, RInv, Snapped, ledger
<1>11. ASSUME Compare(r)
       PROVE  /\ IsNext(t)
              /\ st.run = IF x.pc = "resume" THEN "paused" ELSE "active"
              /\ snap.attempt = attempt /\ snap.dispatch = dispatch /\ snap.st = st
  <2>1. snap.attempt = attempt /\ snap.dispatch = dispatch /\ snap.st = st
    BY <1>1, <1>11 DEF IInv, RInv, Snapped, Snap
  <2>2. st.run \in RunStatus \ {"new"} /\ st.run \notin RunTerminal
    BY <1>1, <2>1 DEF IInv, TypeOK, Sound, State, Blocked
  <2>3. st.run = IF x.pc = "resume" THEN "paused" ELSE "active"
    BY <1>5, <1>6, <2>1, <2>2 DEF RunStatus, RunTerminal
  <2>4. ASSUME NEW m \in 1 .. (n - 1) PROVE st.tasks[order[m]].status = "completed"
    <3>1. m \in DOMAIN order /\ ~(n <= m)
      BY <1>3
    <3>2. m \notin Open(r)
      BY <1>2, <3>1
    <3>3. snap.st.tasks[order[m]].status # "absent"
      BY <2>1, <3>1 DEF IInv, Sound
    <3> QED
      BY <2>1, <3>1, <3>2, <3>3 DEF Open, Verified
  <2>5. IsNext(t)
    BY <1>3, <2>4 DEF IsNext, IInv, Sound
  <2> QED
    BY <2>1, <2>3, <2>5
<1>12. ASSUME ~again PROVE snap.st.tasks[t].status \in {"registered", "started"}
  BY <1>3, <1>4, <1>12 DEF TaskStatus, TaskTerminal
<1>13. Chosen(r)'
  <2> SUFFICES ASSUME Appends(r)' PROVE Chosen(r)'
    BY DEF Chosen
  <2>1. Again(r)' <=> again
    BY <1>5, <1>6, <1>8 DEF Again
  <2>2. /\ x.pc = "reopen" => x.action = "reopen"
        /\ x.pc = "reserve" \/ again => x.id = NoId
    BY <1>5, <1>6
  <2>3. Compare(r)' <=> Compare(r)
    BY <1>1, <1>6, <1>8 DEF Compare, ledger
  <2>4. UNCHANGED <<st, order, attempt, dispatch>>
    BY <1>1 DEF ledger
  <2>5. /\ rs'[r].pc = x.pc /\ rs'[r].action = x.action /\ rs'[r].id = x.id
        /\ rs'[r].task = t /\ rs'[r].attempt = x.attempt
    BY <1>6, <1>8
  <2>6. ASSUME Compare(r)
        PROVE  /\ IsNext(rs[r].task)'
               /\ st'.run = IF x.pc = "resume" THEN "paused" ELSE "active"
               /\ again => x.attempt = attempt'[t] + 1 /\ st'.tasks[t].status \in TaskTerminal
               /\ ~again => /\ x.attempt = attempt'[t] /\ x.id = dispatch'[t]
                            /\ st'.tasks[t].status \in {"registered", "started"}
    <3>1. /\ IsNext(t)
          /\ st.run = IF x.pc = "resume" THEN "paused" ELSE "active"
          /\ snap.attempt = attempt /\ snap.dispatch = dispatch /\ snap.st = st
      BY <1>11, <2>6
    <3>2. IsNext(rs[r].task)'
      BY <2>4, <2>5, <3>1 DEF IsNext
    <3> QED
      BY <1>6, <1>12, <2>4, <3>1, <3>2
  <2>7. t \in Task
    BY <1>3
  <2> HIDE DEF x, t, again
  <2> QED
    BY <2>1, <2>2, <2>3, <2>5, <2>6, <2>7 DEF Chosen
<1> QED
  BY <1>8, <1>9, <1>10, <1>13 DEF RInv

(* The answer is given, and the checkpoint names what it names. *)
LEMMA FinishStep ==
  ASSUME IInv, NEW r \in Resumer, Finish(r)
  PROVE  IInv'
<1> DEFINE x == [Idle EXCEPT !.result = rs[r].result, !.task = rs[r].task,
                             !.attempt = rs[r].attempt, !.id = rs[r].id]
<1>1. rs[r] \in ResumerState /\ Idle \in ResumerState
      /\ Idle.pc = "idle" /\ Idle.head = 0 /\ Idle.snap = NoSnap
  BY IdleType, TriesAssumption DEF IInv, TypeOK, ResumerState, Idle, Pc, Result, NoId
<1>2. /\ x \in ResumerState /\ x.pc = "idle" /\ x.head = 0 /\ x.snap = NoSnap
      /\ x.id = rs[r].id /\ x.task = rs[r].task /\ x.attempt = rs[r].attempt
      /\ x.result = rs[r].result
  BY <1>1 DEF ResumerState
<1>3. /\ UNCHANGED <<st, order, attempt, dispatch, issued, files, git, foreign>>
      /\ ckpt' = [last |-> st.last, task |-> rs[r].task, id |-> rs[r].id]
      /\ rs' = [rs EXCEPT ![r] = x]
  BY DEF Finish, ledger, Become
<1>4. rs'[r] = x /\ (\A q \in Resumer \ {r} : rs'[q] = rs[q]) /\ rs' \in [Resumer -> ResumerState]
  BY <1>2, <1>3 DEF IInv, TypeOK
<1>5. TypeOK'
  <2>1. ckpt' \in [last : Nat, task : Task \cup {NoTask}, id : Nat]
    BY <1>1, <1>3 DEF IInv, TypeOK, State, ResumerState
  <2> QED
    BY <1>3, <1>4, <2>1 DEF IInv, TypeOK
<1>6. Sound'
  <2>1. ckpt'.id # NoId => \E i \in issued : i.id = ckpt'.id
    BY <1>3 DEF IInv, RInv, Backed, Finish, At
  <2> QED
    BY <1>3, <2>1 DEF IInv, Sound, OneDispatchPerAttempt, Reserved
<1>7. RInv(r)'
  <2>1. Snapped(r)' /\ Chosen(r)'
    BY <1>2, <1>4, <1>5 DEF Snapped, Chosen, Appends, TypeOK, State
  <2>2. Backed(r)'
    BY <1>2, <1>3, <1>4, IdleType DEF IInv, RInv, Backed, Reserved, Appends, Finish, At
  <2> QED
    BY <2>1, <2>2 DEF RInv
<1>8. UNCHANGED ledger
  BY <1>3 DEF ledger
<1> QED
  BY <1>3, <1>4, <1>5, <1>6, <1>7, <1>8, Bystander DEF IInv

(* Counting attempts keeps the types. *)
LEMMA CountType ==
  ASSUME IInv, NEW e \in Event, CountAttempt(e)
  PROVE  /\ attempt' \in [Task -> Nat] /\ dispatch' \in [Task -> Nat]
         /\ \A t \in Task : IF e.kind = "task.reopened" /\ e.task = t
                          THEN attempt'[t] = attempt[t] + 1 /\ dispatch'[t] = NoId
                          ELSE attempt'[t] = attempt[t] /\ dispatch'[t] = dispatch[t]
BY DEF IInv, TypeOK, CountAttempt, NoId

(* An event that reserves nothing keeps the reservations in order. *)
LEMMA EventIsSound ==
  ASSUME IInv, NEW e \in Event, Legal(st, e), st' = Apply(st, e), CountAttempt(e),
         order' = IF e.kind = "task.registered" THEN Append(order, e.task) ELSE order,
         UNCHANGED <<issued, ckpt>>
  PROVE  Sound' /\ order' \in Seq(Task)
<1>1. st \in State /\ order \in Seq(Task) /\ issued \subseteq Reservation
      /\ attempt \in [Task -> Nat] /\ Sound
  BY DEF IInv, TypeOK
<1>2. /\ st'.last > 0 /\ st'.run # "new"
      /\ \A t \in Task : st.tasks[t].status # "absent" => st'.tasks[t].status # "absent"
  <2>1. st.last \in Nat /\ st.last > 0 /\ st.run # "new"
    BY <1>1 DEF Sound, State
  <2> QED
    BY <1>1, <2>1, ApplyFacts
<1>3. /\ order' \in Seq(Task)
      /\ \A n \in DOMAIN order' : st'.tasks[order'[n]].status # "absent"
      /\ \A m, n \in DOMAIN order' : order'[m] = order'[n] => m = n
  <2>1. CASE e.kind = "task.registered"
    <3>1. e.task \in Task /\ st.tasks[e.task].status = "absent" /\ e.kind \in TaskKind
      BY <2>1 DEF Event, RunKind, TaskKind, Legal, TaskLegal, StatusBefore
    <3>2. st'.tasks[e.task].status = "registered"
      BY <1>1, <2>1, <3>1, ApplyTask DEF TaskAfter, Reopened, Absent
    <3>3. /\ order' \in Seq(Task) /\ Len(order) \in Nat
          /\ DOMAIN order = 1 .. Len(order) /\ DOMAIN order' = 1 .. Len(order) + 1
          /\ order'[Len(order) + 1] = e.task
          /\ \A n \in 1 .. Len(order) : order'[n] = order[n] /\ order[n] \in Task
      BY <1>1, <2>1, <3>1
    <3>4. \A n \in 1 .. Len(order) : order[n] # e.task
      BY <1>1, <3>1, <3>3 DEF Sound
    <3> QED
      BY <1>1, <1>2, <3>2, <3>3, <3>4 DEF Sound
  <2>2. CASE e.kind # "task.registered"
    BY <1>1, <1>2, <2>2 DEF Sound
  <2> QED
    BY <2>1, <2>2
<1>4. \A t \in Task : IF e.kind = "task.reopened" /\ e.task = t
                     THEN attempt'[t] = attempt[t] + 1 /\ dispatch'[t] = NoId
                     ELSE attempt'[t] = attempt[t] /\ dispatch'[t] = dispatch[t]
  BY CountType
<1>5. \A i \in issued : i.task \in Task /\ i.attempt \in Nat /\ attempt[i.task] \in Nat
  BY <1>1 DEF Reservation
<1>6. \A i \in issued : i.attempt <= attempt'[i.task]
  BY <1>1, <1>4, <1>5 DEF Sound
<1>7. \A t \in Task : dispatch'[t] # NoId => Reserved(t, attempt'[t], dispatch'[t])
  BY <1>1, <1>4 DEF Sound
<1>8. \A i \in issued : i.attempt = attempt'[i.task] => dispatch'[i.task] # NoId
  BY <1>1, <1>4, <1>5 DEF Sound
<1>9. \A t \in Task : dispatch'[t] # NoId => Reserved(t, attempt[t], dispatch[t])'
  BY <1>7 DEF Reserved
<1> QED
  BY <1>1, <1>2, <1>3, <1>6, <1>8, <1>9 DEF Sound, OneDispatchPerAttempt

(* One event of one resumer, or of a worker: the others are bystanders. *)
LEMMA AppendStep ==
  ASSUME IInv, NEW e \in Event, Legal(st, e), st' = Apply(st, e), TypeOK', Sound',
         issued \subseteq issued'
  PROVE  \A q \in Resumer : rs'[q] = rs[q] => RInv(q)'
<1>1. st'.last = st.last + 1 /\ st.last \in Nat
  BY ApplyFacts DEF IInv, TypeOK, Sound, State
<1> QED
  BY <1>1, Bystander

(* Events a resumer appends. *)
LEMMA PlannedEvent ==
  /\ Bare("run.resumed", NoTask) \in Event
  /\ \A t \in Task : /\ Bare("task.reopened", t) \in Event
                    /\ Bare("task.dispatch_reserved", t) \in Event
  /\ \A kind, t : Bare(kind, t).kind = kind /\ Bare(kind, t).task = t
BY DEF Bare, Event, RunKind, TaskKind

(* After an append the resumer expects the head it has just made. *)
LEMMA HeadMoves ==
  ASSUME NEW y \in ResumerState
  PROVE  LET x == [y EXCEPT !.head = @ + 1] IN
         /\ x \in ResumerState /\ x.head = y.head + 1
         /\ x.pc = y.pc /\ x.id = y.id /\ x.task = y.task /\ x.attempt = y.attempt
         /\ x.action = y.action /\ x.snap = y.snap /\ x.result = y.result
<1>1. y.head + 1 \in Nat
  BY DEF ResumerState
<1> QED
  BY <1>1 DEF ResumerState

(* The places before a place in the order. *)
LEMMA EarlierTasks ==
  ASSUME IInv
  PROVE  \A n \in DOMAIN order : \A m \in 1 .. (n - 1) :
           m \in DOMAIN order /\ order[m] \in Task /\ order[m] # order[n]
<1>1. order \in Seq(Task) /\ DOMAIN order = 1 .. Len(order) /\ Len(order) \in Nat
  BY DEF IInv, TypeOK
<1> QED
  BY <1>1 DEF IInv, Sound

(* A paused run is resumed before anything else. *)
LEMMA ResumeRunStep ==
  ASSUME IInv, NEW r \in Resumer, ResumeRun(r)
  PROVE  IInv'
<1> DEFINE e == Bare("run.resumed", NoTask)
           pc == IF rs[r].action = "reopen" THEN "reopen" ELSE ToReserve(rs[r].id)
           y == [rs[r] EXCEPT !.pc = pc]
           x == [y EXCEPT !.head = @ + 1]
<1>1. /\ rs[r].pc = "resume" /\ Compare(r) /\ Legal(st, e) /\ st' = Apply(st, e)
      /\ UNCHANGED <<order, attempt, dispatch, issued, ckpt, files, git, foreign>>
      /\ rs' = [rs EXCEPT ![r] = x]
  BY DEF ResumeRun, AppendPlanned, At, Planned, Become
<1>2. e \in Event /\ e.kind = "run.resumed"
  BY PlannedEvent
<1>3. rs[r] \in ResumerState /\ st \in State /\ st.last \in Nat /\ st.last > 0 /\ st.run # "new"
  BY DEF IInv, TypeOK, Sound, State
<1>4. /\ st' \in State /\ st'.last = st.last + 1 /\ st'.run = "active"
      /\ \A t \in Task : st'.tasks[t] = st.tasks[t]
  BY <1>1, <1>2, <1>3, ApplyFacts DEF TaskKind, RunAfter
<1>5. pc \in {"reopen", "reserve", "rebuild"} /\ pc \in Pc
  BY DEF ToReserve, Pc
<1>6. /\ x \in ResumerState /\ x.pc = pc /\ x.head = rs[r].head + 1 /\ x.id = rs[r].id
      /\ x.task = rs[r].task /\ x.attempt = rs[r].attempt /\ x.action = rs[r].action
      /\ x.snap = rs[r].snap /\ x.result = rs[r].result
  <2>1. /\ y \in ResumerState /\ y.pc = pc /\ y.head = rs[r].head /\ y.id = rs[r].id
        /\ y.task = rs[r].task /\ y.attempt = rs[r].attempt /\ y.action = rs[r].action
        /\ y.snap = rs[r].snap /\ y.result = rs[r].result
    BY <1>3, <1>5 DEF ResumerState
  <2> HIDE DEF y
  <2> QED
    BY <2>1, HeadMoves
<1>7. rs'[r] = x /\ (\A q \in Resumer \ {r} : rs'[q] = rs[q]) /\ rs' \in [Resumer -> ResumerState]
  BY <1>1, <1>6 DEF IInv, TypeOK
<1>8. TypeOK'
  BY <1>1, <1>4, <1>7 DEF IInv, TypeOK
<1>9. Sound'
  <2>1. CountAttempt(e)
    BY <1>1, <1>2 DEF CountAttempt, IInv, TypeOK
  <2> QED
    BY <1>1, <1>2, <2>1, EventIsSound
<1>10. RInv(r)'
  <2>1. Snapped(r)'
    BY <1>1, <1>3, <1>4, <1>5, <1>6, <1>7 DEF Snapped, Compare
  <2>2. Backed(r)'
    BY <1>1, <1>5, <1>6, <1>7 DEF IInv, RInv, Backed, Reserved, Appends, ToReserve
  <2>3. Chosen(r)'
    <3>1. /\ Again(r) => rs[r].id = NoId
          /\ rs[r].task \in Task /\ IsNext(rs[r].task)
          /\ Again(r) => /\ rs[r].attempt = attempt[rs[r].task] + 1
                         /\ st.tasks[rs[r].task].status \in TaskTerminal
          /\ ~Again(r) => /\ rs[r].attempt = attempt[rs[r].task]
                          /\ rs[r].id = dispatch[rs[r].task]
                          /\ st.tasks[rs[r].task].status \in {"registered", "started"}
      BY <1>1 DEF IInv, RInv, Chosen, Appends
    <3>2. IsNext(rs[r].task)'
      BY <1>1, <1>4, <1>6, <1>7, <3>1, EarlierTasks DEF IsNext
    <3>3. Again(r)' <=> Again(r)
      BY <1>1, <1>6, <1>7 DEF Again, ToReserve
    <3>4. /\ pc = "reopen" => rs[r].action = "reopen"
          /\ pc = "reserve" => rs[r].id = NoId
      BY DEF ToReserve
    <3> HIDE DEF x, pc
    <3> QED
      BY <1>1, <1>4, <1>5, <1>6, <1>7, <3>1, <3>2, <3>3, <3>4 DEF Chosen
  <2> QED
    BY <2>1, <2>2, <2>3 DEF RInv
<1> QED
  BY <1>1, <1>2, <1>7, <1>8, <1>9, <1>10, AppendStep DEF IInv

(* Reopening starts an attempt for which nothing is reserved. *)
LEMMA ReopenTaskStep ==
  ASSUME IInv, NEW r \in Resumer, ReopenTask(r)
  PROVE  IInv'
<1> DEFINE t == rs[r].task
           e == Bare("task.reopened", t)
           y == [rs[r] EXCEPT !.pc = "reserve"]
           x == [y EXCEPT !.head = @ + 1]
<1>1. /\ rs[r].pc = "reopen" /\ Compare(r) /\ Legal(st, e) /\ st' = Apply(st, e)
      /\ CountAttempt(e) /\ UNCHANGED <<order, issued, ckpt, files, git, foreign>>
      /\ rs' = [rs EXCEPT ![r] = x]
  BY DEF ReopenTask, AppendPlanned, At, Planned, Become
<1>2. /\ rs[r] \in ResumerState /\ st \in State /\ st.last \in Nat /\ st.last > 0
      /\ st.run # "new"
  BY DEF IInv, TypeOK, Sound, State
<1>3. /\ t \in Task /\ IsNext(t) /\ st.run = "active" /\ rs[r].action = "reopen"
      /\ rs[r].attempt = attempt[t] + 1 /\ rs[r].id = NoId
  BY <1>1 DEF IInv, RInv, Chosen, Appends, Again
<1>4. e \in Event /\ e.kind = "task.reopened" /\ e.task = t /\ e.kind \in TaskKind
  BY <1>3, PlannedEvent DEF TaskKind
<1>5. /\ st' \in State /\ st'.last = st.last + 1 /\ st'.run = "active"
      /\ st'.tasks[t].status = "registered"
      /\ \A u \in Task \ {t} : st'.tasks[u] = st.tasks[u]
  <2>1. Apply(st, e).tasks[t] = TaskAfter(st.tasks[t], e)
    BY <1>2, <1>3, <1>4, ApplyTask
  <2>2. st'.tasks[t].status = "registered"
    BY <1>1, <1>4, <2>1 DEF TaskAfter, Reopened, Absent
  <2>3. \A u \in Task \ {t} : st'.tasks[u] = st.tasks[u]
    BY <1>1, <1>2, <1>4, ApplyFacts
  <2>4. st' \in State /\ st'.last = st.last + 1 /\ st'.run = "active"
    BY <1>1, <1>2, <1>3, <1>4, ApplyFacts
  <2> QED
    BY <2>2, <2>3, <2>4
<1>6. /\ attempt' \in [Task -> Nat] /\ dispatch' \in [Task -> Nat]
      /\ attempt'[t] = attempt[t] + 1 /\ dispatch'[t] = NoId
  BY <1>1, <1>3, <1>4, CountType
<1>7. /\ x \in ResumerState /\ x.pc = "reserve" /\ x.head = rs[r].head + 1 /\ x.id = rs[r].id
      /\ x.task = t /\ x.attempt = rs[r].attempt /\ x.action = rs[r].action
      /\ x.snap = rs[r].snap /\ x.result = rs[r].result
  <2>1. /\ y \in ResumerState /\ y.pc = "reserve" /\ y.head = rs[r].head /\ y.id = rs[r].id
        /\ y.task = t /\ y.attempt = rs[r].attempt /\ y.action = rs[r].action
        /\ y.snap = rs[r].snap /\ y.result = rs[r].result
    BY <1>2 DEF ResumerState, Pc
  <2> HIDE DEF y
  <2> QED
    BY <2>1, HeadMoves
<1>8. rs'[r] = x /\ (\A q \in Resumer \ {r} : rs'[q] = rs[q]) /\ rs' \in [Resumer -> ResumerState]
  BY <1>1, <1>7 DEF IInv, TypeOK
<1>9. TypeOK'
  BY <1>1, <1>5, <1>6, <1>8 DEF IInv, TypeOK
<1>10. Sound'
  BY <1>1, <1>4, EventIsSound
<1>11. RInv(r)'
  <2>1. Snapped(r)'
    BY <1>1, <1>2, <1>5, <1>7, <1>8 DEF Snapped, Compare
  <2>2. Backed(r)'
    BY <1>1, <1>3, <1>7, <1>8 DEF IInv, RInv, Backed, Reserved, Appends
  <2>3. IsNext(rs[r].task)'
    BY <1>1, <1>3, <1>5, <1>7, <1>8, EarlierTasks DEF IsNext
  <2>4. rs'[r].task = t /\ rs'[r].pc = "reserve" /\ rs'[r].id = NoId
        /\ rs'[r].attempt = attempt[t] + 1
    BY <1>3, <1>7, <1>8
  <2> HIDE DEF x, t
  <2>5. Chosen(r)'
    BY <1>3, <1>5, <1>6, <2>3, <2>4 DEF Chosen, Again
  <2> QED
    BY <2>1, <2>2, <2>5 DEF RInv
<1> QED
  BY <1>1, <1>4, <1>8, <1>9, <1>10, <1>11, AppendStep DEF IInv

(* A reservation is the first one of its attempt. *)
LEMMA ReserveStep ==
  ASSUME IInv, NEW r \in Resumer, Reserve(r)
  PROVE  IInv'
<1> DEFINE t == rs[r].task
           id == Cardinality(issued) + 1
           e == Bare("task.dispatch_reserved", t)
           new == [task |-> t, attempt |-> rs[r].attempt, at |-> attempt[t], id |-> id]
           y == [rs[r] EXCEPT !.pc = "rebuild", !.id = id]
           x == [y EXCEPT !.head = @ + 1]
<1>1. /\ rs[r].pc = "reserve" /\ Compare(r) /\ Legal(st, e) /\ st' = Apply(st, e)
      /\ UNCHANGED <<order, attempt, ckpt, files, git, foreign>>
      /\ dispatch' = [dispatch EXCEPT ![t] = id] /\ issued' = issued \cup {new}
      /\ rs' = [rs EXCEPT ![r] = x]
  BY DEF Reserve, AppendPlanned, At, Planned, Become
<1>2. /\ rs[r] \in ResumerState /\ st \in State /\ st.last \in Nat /\ st.last > 0
      /\ st.run # "new" /\ attempt \in [Task -> Nat] /\ dispatch \in [Task -> Nat]
      /\ issued \subseteq Reservation /\ IsFiniteSet(issued)
  BY DEF IInv, TypeOK, Sound, State
<1>3. /\ t \in Task /\ st.run = "active"
      /\ rs[r].attempt = attempt[t] /\ rs[r].id = NoId /\ dispatch[t] = NoId
  BY <1>1 DEF IInv, RInv, Chosen, Appends, Again
<1>4. e \in Event /\ e.kind = "task.dispatch_reserved" /\ e.task = t /\ e.kind \in TaskKind
  BY <1>3, PlannedEvent DEF TaskKind
<1>5. /\ st' \in State /\ st'.last = st.last + 1 /\ st'.run # "new"
      /\ \A u \in Task : st'.tasks[u] = st.tasks[u]
  BY <1>1, <1>2, <1>3, <1>4, ApplyFacts, ApplyTask DEF TaskAfter
<1>6. id \in Nat \ {0} /\ id # NoId
  BY <1>2, FS_CardinalityType DEF NoId
<1>7. /\ new \in Reservation /\ new.task = t /\ new.attempt = attempt[t]
      /\ new.at = attempt[t] /\ new.id = id /\ new \in issued'
  BY <1>1, <1>2, <1>3, <1>6 DEF Reservation
<1>8. /\ x \in ResumerState /\ x.pc = "rebuild" /\ x.head = rs[r].head + 1 /\ x.id = id
      /\ x.task = t /\ x.attempt = rs[r].attempt /\ x.snap = rs[r].snap
      /\ x.result = rs[r].result
  <2>1. /\ y \in ResumerState /\ y.pc = "rebuild" /\ y.head = rs[r].head /\ y.id = id
        /\ y.task = t /\ y.attempt = rs[r].attempt /\ y.snap = rs[r].snap
        /\ y.result = rs[r].result
    BY <1>2, <1>6 DEF ResumerState, Pc
  <2> HIDE DEF y
  <2> QED
    BY <2>1, HeadMoves
<1>9. rs'[r] = x /\ (\A q \in Resumer \ {r} : rs'[q] = rs[q]) /\ rs' \in [Resumer -> ResumerState]
  BY <1>1, <1>8 DEF IInv, TypeOK
<1> HIDE DEF new, x, id
<1>10. TypeOK'
  BY <1>1, <1>2, <1>3, <1>5, <1>6, <1>7, <1>9 DEF IInv, TypeOK
<1>11. Sound'
  <2>1. \A i \in issued : i.task = t => i.attempt # attempt[t]
    BY <1>3 DEF IInv, Sound
  <2>2. OneDispatchPerAttempt'
    BY <1>1, <1>7, <2>1 DEF IInv, Sound, OneDispatchPerAttempt
  <2>3. IsFiniteSet(issued')
    BY <1>1, <1>2, FS_AddElement
  <2>4. \A i \in issued' : i.attempt = i.at /\ i.attempt <= attempt'[i.task]
    BY <1>1, <1>2, <1>3, <1>7 DEF IInv, Sound
  <2>5. \A u \in Task : dispatch'[u] # NoId => Reserved(u, attempt[u], dispatch[u])'
    BY <1>1, <1>2, <1>3, <1>7 DEF IInv, Sound, Reserved
  <2>6. \A i \in issued' : i.attempt = attempt'[i.task] => dispatch'[i.task] # NoId
    BY <1>1, <1>2, <1>3, <1>6, <1>7 DEF IInv, Sound, Reservation
  <2>7. \A n \in DOMAIN order' : st'.tasks[order'[n]].status # "absent"
    <3>1. order' = order /\ \A n \in DOMAIN order : order[n] \in Task
      BY <1>1 DEF IInv, TypeOK
    <3> QED
      BY <1>5, <3>1 DEF IInv, Sound
  <2>8. ckpt'.id # NoId => \E i \in issued' : i.id = ckpt'.id
    BY <1>1 DEF IInv, Sound
  <2>9. st'.last > 0
    BY <1>2, <1>5
  <2> QED
    BY <1>1, <1>5, <2>2, <2>3, <2>4, <2>5, <2>6, <2>7, <2>8, <2>9 DEF IInv, Sound
<1>12. RInv(r)'
  <2>1. Snapped(r)'
    BY <1>1, <1>2, <1>5, <1>8, <1>9 DEF Snapped, Compare
  <2>2. Chosen(r)'
    BY <1>8, <1>9 DEF Chosen, Appends
  <2>3. rs[r].result # "ready"
    BY <1>1 DEF IInv, RInv, Backed
  <2>4. Backed(r)'
    BY <1>1, <1>3, <1>6, <1>7, <1>8, <1>9, <2>3 DEF IInv, RInv, Backed, Reserved, Appends
  <2> QED
    BY <2>1, <2>2, <2>4 DEF RInv
<1>13. issued \subseteq issued'
  BY <1>1
<1> QED
  BY <1>1, <1>4, <1>9, <1>10, <1>11, <1>12, <1>13, AppendStep DEF IInv

(* Workers and people disturb no resumer's beliefs. *)
LEMMA ForeignSteps ==
  ASSUME IInv,
         \/ \E e \in Requests : Worker(e)
         \/ \E s \in Source, d \in Digest : Edit(s, d)
         \/ \E reach \in SUBSET Commit : MoveHead(reach)
  PROVE  IInv'
<1>1. foreign' \in 0 .. MaxForeign
  BY TriesAssumption DEF Worker, Edit, MoveHead, Foreign, IInv, TypeOK
<1>2. ASSUME NEW e \in Requests, Worker(e) PROVE IInv'
  <2>1. /\ Legal(st, e) /\ st' = Apply(st, e) /\ CountAttempt(e)
        /\ order' = IF e.kind = "task.registered" THEN Append(order, e.task) ELSE order
        /\ UNCHANGED <<issued, ckpt, files, git, rs>>
    BY <1>2 DEF Worker
  <2>2. e \in Event
    BY RequestsAssumption DEF Wellformed
  <2>3. Sound' /\ order' \in Seq(Task)
    BY <2>1, <2>2, EventIsSound
  <2>4. st' \in State
    BY <2>1, <2>2, ApplyType DEF IInv, TypeOK
  <2>5. attempt' \in [Task -> Nat] /\ dispatch' \in [Task -> Nat]
    BY <2>1, <2>2, CountType
  <2>6. TypeOK'
    BY <1>1, <2>1, <2>3, <2>4, <2>5 DEF IInv, TypeOK
  <2> QED
    BY <2>1, <2>2, <2>3, <2>6, AppendStep DEF IInv
<1>3. ASSUME UNCHANGED <<ledger, ckpt, rs>>, files' \in [Source -> Digest], git' \in GitState
      PROVE  IInv'
  <2>1. TypeOK'
    BY <1>1, <1>3 DEF IInv, TypeOK, ledger
  <2>2. Sound'
    BY <1>3 DEF IInv, Sound, OneDispatchPerAttempt, Reserved, ledger
  <2> QED
    BY <1>3, <2>1, <2>2, Bystander DEF IInv, ledger
<1>4. ASSUME NEW s \in Source, NEW d \in Digest, Edit(s, d) PROVE IInv'
  BY <1>3, <1>4 DEF Edit, IInv, TypeOK, GitState
<1>5. ASSUME NEW reach \in SUBSET Commit, MoveHead(reach) PROVE IInv'
  BY <1>3, <1>5 DEF MoveHead, IInv, TypeOK, GitState
<1> QED
  BY <1>2, <1>4, <1>5

-----------------------------------------------------------------------------
(* Every step of the specification keeps the invariant. *)
LEMMA StepIInv == ASSUME IInv, [Next]_vars PROVE IInv'
<1>1. ASSUME NEW r \in Resumer, Call(r) \/ Step(r) \/ Crash(r) PROVE IInv'
  BY <1>1, StartingSteps, ReadLedgerStep, ReadGitStep, NothingToResumeStep, ChooseStep,
     ResumeRunStep, ReopenTaskStep, ReserveStep, RereadLedgerStep, RereadGitStep, RebuildStep,
     FinishStep DEF Step
<1>2. CASE UNCHANGED vars
  <2>1. UNCHANGED <<ledger, ckpt, files, git, rs, foreign>>
    BY <1>2 DEF vars
  <2>2. TypeOK' /\ Sound'
    BY <2>1 DEF IInv, TypeOK, Sound, OneDispatchPerAttempt, Reserved, ledger
  <2> QED
    BY <2>1, <2>2, Bystander DEF IInv, ledger
<1> QED
  BY <1>1, <1>2, ForeignSteps DEF Next

(* The invariant holds in every reachable state. *)
THEOREM Invariance == Spec => []IInv
<1>1. Init => IInv
  BY InitIInv
<1>2. IInv /\ [Next]_vars => IInv'
  BY StepIInv
<1> QED
  BY <1>1, <1>2, PTL DEF Spec

(* Type correctness of resuming. *)
THEOREM Typing == Spec => []TypeOK
<1>1. IInv => TypeOK
  BY DEF IInv
<1> QED
  BY <1>1, Invariance, PTL

(* However many processes resume a run at once, crash and try again, an    *)
(* attempt of a task has one dispatch id.                                  *)
THEOREM OneDispatch == Spec => []OneDispatchPerAttempt
<1>1. IInv => OneDispatchPerAttempt
  BY DEF IInv, Sound
<1> QED
  BY <1>1, Invariance, PTL

(* No resumer ever reserves for an attempt the task is not in, so that the *)
(* run can always be planned again.                                        *)
THEOREM AlwaysPlannable == Spec => []NeverUnplannable
<1>1. IInv => NeverUnplannable
  BY DEF IInv, Sound, NeverUnplannable, Valid
<1> QED
  BY <1>1, Invariance, PTL

(* An event that was planned on the ledger's head is one the ledger takes. *)
THEOREM CompareSuffices == Spec => []CompareIsEnough
<1>1. ASSUME IInv, NEW r \in Resumer, Appends(r), Compare(r) PROVE Legal(st, Planned(r))
  <2>1. /\ rs[r].task \in Task /\ st.last # 0
        /\ st.run = IF rs[r].pc = "resume" THEN "paused" ELSE "active"
        /\ rs[r].pc = "reopen" => st.tasks[rs[r].task].status \in TaskTerminal
        /\ rs[r].pc = "reserve" => st.tasks[rs[r].task].status \in {"registered", "started"}
    BY <1>1 DEF IInv, RInv, Chosen, Appends, Again, Sound, TypeOK, State
  <2>2. CASE rs[r].pc = "resume"
    BY <2>1, <2>2 DEF Planned, At, Bare, Legal, Ended, TaskKind, RunTerminal
  <2>3. CASE rs[r].pc = "reopen"
    BY <2>1, <2>3 DEF Planned, At, Bare, Legal, Ended, TaskLegal, StatusBefore, TaskKind, RunTerminal
  <2>4. CASE rs[r].pc = "reserve"
    BY <2>1, <2>4 DEF Planned, At, Bare, Legal, Ended, TaskLegal, StatusBefore, TaskKind, RunTerminal
  <2> QED
    BY <1>1, <2>2, <2>3, <2>4 DEF Appends
<1>2. IInv => CompareIsEnough
  BY <1>1 DEF CompareIsEnough, Appends
<1> QED
  BY <1>2, Invariance, PTL

(* Dispatches follow the order of registration. *)
THEOREM OrderedReservations == Spec => OrderedDispatch
<1> DEFINE Ordered ==
      \A i \in issued' \ issued :
        /\ st.run = "active" /\ st.tasks[i.task].status # "completed"
        /\ \A n \in DOMAIN order : order[n] = i.task =>
             \A m \in 1 .. (n - 1) : st.tasks[order[m]].status = "completed"
<1>1. ASSUME IInv, NEW r \in Resumer, Reserve(r) PROVE Ordered
  <2>1. /\ rs[r].pc = "reserve" /\ Compare(r)
        /\ \A i \in issued' \ issued : i.task = rs[r].task
    BY <1>1 DEF Reserve, AppendPlanned, At
  <2> QED
    BY <1>1, <2>1 DEF IInv, RInv, Chosen, Appends, Again, IsNext
<1>2. ASSUME Next PROVE issued' = issued \/ \E r \in Resumer : Reserve(r)
  BY <1>2 DEF Next, Step, Call, Crash, ReadLedger, ReadGit, RefuseBlocked, NothingToResume,
     Choose, ResumeRun, ReopenTask, CompareFails, RereadLedger, RereadGit, Rebuild, Finish,
     Worker, Edit, MoveHead, ledger
<1>3. IInv /\ [Next]_vars => [Ordered]_vars
  BY <1>1, <1>2
<1> QED
  BY <1>3, Invariance, PTL DEF Spec, OrderedDispatch

-----------------------------------------------------------------------------
(***************************************************************************)
(* Four tries are enough.  While only resumers are at work the first       *)
(* unfinished task stays the same, and at most three events lead to its    *)
(* dispatch: run.resumed, task.reopened, task.dispatch_reserved.  Left     *)
(* counts those still missing.  A resumer that lost a race has seen the    *)
(* head move, so that the tries it has used, the events it has not seen    *)
(* and the events that are left never add up to more than four.            *)
(***************************************************************************)
Left ==
  (IF st.run = "paused" THEN 1 ELSE 0)
  + (IF \E t \in Due : st.tasks[t].status \in TaskTerminal THEN 1 ELSE 0)
  + (IF \E t \in Due : st.tasks[t].status \in TaskTerminal \/ dispatch[t] = NoId THEN 1 ELSE 0)

Undisturbed(r) ==
  /\ rs[r].pc = "verify" => rs[r].git = git
  /\ Appends(r) /\ Compare(r) => rs[r].task \in Due
  /\ rs[r].pc = "plan" => rs[r].tries + Left <= 4
  /\ rs[r].pc \in {"git", "verify"} \/ Appends(r) =>
       rs[r].tries + (st.last - rs[r].head) + Left <= 4
  /\ rs[r].result # "contended"

Alone == foreign = 0 => \A r \in Resumer : Undisturbed(r)

(* The numbers Left is made of. *)
LEMMA LeftType == Left \in 0 .. 3 /\ Left' \in 0 .. 3
BY DEF Left

(* At most one task is the first unfinished one. *)
LEMMA DueIsOne ==
  ASSUME IInv, NEW t \in Due, NEW u \in Due
  PROVE  t = u
<1>1. PICK m \in DOMAIN order :
        order[m] = t /\ ~Finished(t) /\ \A k \in 1 .. (m - 1) : Finished(order[k])
  BY DEF Due
<1>2. PICK n \in DOMAIN order :
        order[n] = u /\ ~Finished(u) /\ \A k \in 1 .. (n - 1) : Finished(order[k])
  BY DEF Due
<1>3. DOMAIN order = 1 .. Len(order) /\ Len(order) \in Nat
  BY DEF IInv, TypeOK
<1> QED
  BY <1>1, <1>2, <1>3

(* Which task is the first unfinished one depends on the tasks' states,    *)
(* the order, the files and Git.                                           *)
LEMMA DueStays ==
  ASSUME UNCHANGED <<order, files, git>>,
         \A t \in Task : Finished(t)' <=> Finished(t), IInv
  PROVE  Due' = Due
<1>1. \A n \in DOMAIN order : order[n] \in Task /\ \A m \in 1 .. (n - 1) : order[m] \in Task
  BY EarlierTasks DEF IInv, TypeOK
<1> QED
  BY <1>1 DEF Due

(* A plan that sees the tasks as they are now selects the first unfinished *)
(* one.                                                                    *)
LEMMA FirstOpenIsDue ==
  ASSUME IInv, NEW r \in Resumer,
         \A u \in Task : LET ts == rs[r].snap.st.tasks[u] IN
           /\ ts.status = "absent" <=> st.tasks[u].status = "absent"
           /\ Verified(r, ts) <=> Finished(u),
         NEW n \in Open(r), First(r, n)
  PROVE  order[n] \in Due
<1>1. /\ n \in DOMAIN order /\ order[n] \in Task
      /\ \A m \in 1 .. (n - 1) : m \in DOMAIN order /\ order[m] \in Task
      /\ DOMAIN order = 1 .. Len(order) /\ Len(order) \in Nat
  <2>1. n \in DOMAIN order /\ order \in Seq(Task)
    BY DEF IInv, TypeOK, Open
  <2> QED
    BY <2>1, EarlierTasks
<1>2. ~Finished(order[n])
  BY <1>1 DEF Open
<1>3. ASSUME NEW m \in 1 .. (n - 1) PROVE Finished(order[m])
  <2>1. m \notin Open(r)
    BY <1>1 DEF First
  <2>2. st.tasks[order[m]].status # "absent"
    BY <1>1 DEF IInv, Sound
  <2> QED
    BY <1>1, <2>1, <2>2 DEF Open
<1> QED
  BY <1>1, <1>2, <1>3 DEF Due

(* So does one that was made on the ledger's head. *)
LEMMA ChosenIsDue ==
  ASSUME IInv, NEW r \in Resumer, At(r, "verify"), Compare(r), rs[r].git = git,
         NEW n \in Open(r), First(r, n)
  PROVE  order[n] \in Due
<1>1. rs[r].snap.st = st
  BY DEF IInv, RInv, Snapped, At, Snap
<1>2. \A t \in Task : Verified(r, st.tasks[t]) <=> Finished(t)
  BY DEF Verified, Finished
<1> QED
  BY <1>1, <1>2, FirstOpenIsDue

(* What an append leaves to be appended. *)
LEMMA FewerLeft ==
  ASSUME IInv, NEW r \in Resumer, Compare(r) => rs[r].task \in Due,
         ResumeRun(r) \/ ReopenTask(r) \/ Reserve(r)
  PROVE  /\ Due' = Due /\ Left' + 1 <= Left
         /\ st'.last = st.last + 1 /\ rs[r].head = st.last
         /\ \A u \in Task : Finished(u)' <=> Finished(u)
<1>1. Appends(r) /\ Compare(r) /\ Legal(st, Planned(r)) /\ st' = Apply(st, Planned(r))
      /\ UNCHANGED <<order, files, git>>
  BY DEF ResumeRun, ReopenTask, Reserve, AppendPlanned, At, Appends
<1>2. PICK t \in Task : t = rs[r].task /\ t \in Due /\ \A u \in Due : u = t
  BY <1>1, DueIsOne DEF Due
<1>3. /\ st \in State /\ st.last \in Nat /\ st.last > 0 /\ st.run # "new"
      /\ attempt \in [Task -> Nat] /\ dispatch \in [Task -> Nat]
  BY DEF IInv, TypeOK, Sound, State
<1>4. CASE ResumeRun(r)
  <2>1. st.run = "paused" /\ Planned(r) = Bare("run.resumed", NoTask) /\ UNCHANGED dispatch
    BY <1>1, <1>4 DEF ResumeRun, At, IInv, RInv, Chosen, Planned
  <2>2. Planned(r) \in Event /\ Planned(r).kind = "run.resumed"
    BY <2>1, PlannedEvent
  <2>3. st'.last = st.last + 1 /\ st'.run = "active" /\ \A u \in Task : st'.tasks[u] = st.tasks[u]
    BY <1>1, <1>3, <2>2, ApplyFacts DEF RunAfter, TaskKind
  <2>4. Due' = Due
    BY <1>1, <2>3, DueStays DEF Finished
  <2> QED
    BY <1>1, <2>1, <2>3, <2>4 DEF Left, Compare, Due, Finished
<1>5. CASE ReopenTask(r)
  <2> DEFINE e == Bare("task.reopened", t)
  <2>1. st.run = "active" /\ st.tasks[t].status \in TaskTerminal /\ Planned(r) = e
        /\ CountAttempt(e)
    BY <1>1, <1>2, <1>5 DEF ReopenTask, At, IInv, RInv, Chosen, Appends, Again, Planned
  <2>2. e \in Event /\ e.kind = "task.reopened" /\ e.task = t /\ e.kind \in TaskKind
    BY <1>2, PlannedEvent DEF TaskKind
  <2>3. st'.last = st.last + 1 /\ st'.run = "active" /\ \A u \in Task \ {t} : st'.tasks[u] = st.tasks[u]
    BY <1>1, <1>3, <2>1, <2>2, ApplyFacts
  <2>4. st'.tasks[t].status = "registered"
    <3>1. Apply(st, e).tasks[t] = TaskAfter(st.tasks[t], e)
      BY <1>2, <1>3, <2>2, ApplyTask
    <3> QED
      BY <1>1, <2>1, <2>2, <3>1 DEF TaskAfter, Reopened, Absent
  <2>5. ~Finished(t) /\ ~Finished(t)'
    BY <1>2, <2>4 DEF Due, Finished
  <2>6. \A u \in Task : Finished(u)' <=> Finished(u)
    BY <1>1, <2>3, <2>5 DEF Finished
  <2>7. Due' = Due
    BY <1>1, <2>6, DueStays
  <2> QED
    BY <1>1, <1>2, <2>1, <2>3, <2>4, <2>6, <2>7 DEF Left, Compare, TaskTerminal
<1>6. CASE Reserve(r)
  <2> DEFINE e == Bare("task.dispatch_reserved", t)
             id == Cardinality(issued) + 1
  <2>1. /\ st.run = "active" /\ st.tasks[t].status \notin TaskTerminal /\ Planned(r) = e
        /\ dispatch[t] = NoId /\ dispatch' = [dispatch EXCEPT ![t] = id]
    BY <1>1, <1>2, <1>6 DEF Reserve, At, IInv, RInv, Chosen, Appends, Again, Planned, TaskTerminal
  <2>2. e \in Event /\ e.kind = "task.dispatch_reserved" /\ e.task = t /\ e.kind \in TaskKind
    BY <1>2, PlannedEvent DEF TaskKind
  <2>3. st'.last = st.last + 1 /\ st'.run = "active" /\ \A u \in Task : st'.tasks[u] = st.tasks[u]
    <3>1. \A u \in Task : Apply(st, e).tasks[u] = st.tasks[u]
      BY <1>3, <2>2, ApplyTask DEF TaskAfter
    <3> QED
      BY <1>1, <1>3, <2>1, <2>2, <3>1, ApplyFacts
  <2>4. dispatch'[t] # NoId
    BY <1>2, <1>3, <2>1, FS_CardinalityType DEF IInv, Sound, NoId
  <2>5. \A u \in Task : Finished(u)' <=> Finished(u)
    BY <1>1, <2>3 DEF Finished
  <2>6. Due' = Due
    BY <1>1, <2>5, DueStays
  <2>7. Left' + 1 <= Left
    BY <1>1, <1>2, <2>1, <2>3, <2>4, <2>6 DEF Left, Due
  <2> QED
    BY <1>1, <2>3, <2>5, <2>6, <2>7 DEF Compare
<1> QED
  BY <1>4, <1>5, <1>6

-----------------------------------------------------------------------------
(***************************************************************************)
(* What the answer names.  While only resumers are at work every           *)
(* reservation is for the first unfinished task, in the attempt that task  *)
(* is in, and it is not reopened; so a second plan - which sees, in what   *)
(* it read, the same tasks finished as there are now - selects that task   *)
(* in that attempt again.                                                  *)
(***************************************************************************)
ReservedIsDue ==
  \A i \in issued : /\ i.task \in Due /\ i.attempt = attempt[i.task]
                    /\ st.tasks[i.task].status \notin TaskTerminal

Counts(ts) ==
  /\ ts.status = "completed" /\ ts.commit \in git.reach
  /\ \A b \in ts.binds : files[b.src] = b.dig

SeesTheSame(r) ==
  \A u \in Task : LET ts == rs[r].snap.st.tasks[u] IN
    /\ ts.status = "absent" <=> st.tasks[u].status = "absent"
    /\ Counts(ts) <=> Finished(u)

Truthful(r) ==
  /\ rs[r].pc \in {"verify", "reverify"} => rs[r].git = git
  /\ Appends(r) /\ Compare(r) => rs[r].task \in Due
  /\ rs[r].pc \in {"regit", "reverify"} =>
       /\ SeesTheSame(r)
       /\ \E i \in issued : i.id = rs[r].id /\ i.attempt = rs[r].snap.attempt[i.task]
  /\ rs[r].result = "ready" => Reserved(rs[r].task, rs[r].attempt, rs[r].id)

Quiet ==
  foreign = 0 =>
    /\ ReservedIsDue
    /\ ckpt.id # NoId => \E i \in issued : i.id = ckpt.id /\ i.task = ckpt.task
    /\ \A r \in Resumer : Truthful(r)

(* An append of a resumer changes no attempt for which a reservation was   *)
(* made, and reserves for the first unfinished task.                       *)
LEMMA AppendKeepsReserved ==
  ASSUME IInv, ReservedIsDue, NEW r \in Resumer, Compare(r) => rs[r].task \in Due,
         ResumeRun(r) \/ ReopenTask(r) \/ Reserve(r)
  PROVE  ReservedIsDue' /\ issued \subseteq issued'
         /\ \A u \in Task : st'.tasks[u].status = "absent" <=> st.tasks[u].status = "absent"
<1>1. Due' = Due
  BY FewerLeft
<1>2. /\ Appends(r) /\ Compare(r) /\ Legal(st, Planned(r)) /\ st' = Apply(st, Planned(r))
      /\ UNCHANGED order
  BY DEF ResumeRun, ReopenTask, Reserve, AppendPlanned, At, Appends
<1>3. PICK t \in Task : t = rs[r].task /\ t \in Due /\ \A u \in Due : u = t
  BY <1>2, DueIsOne DEF Due
<1>4. /\ st \in State /\ st.last > 0 /\ st.run # "new" /\ issued \subseteq Reservation
      /\ attempt \in [Task -> Nat] /\ \A i \in issued : i.task = t
  BY <1>3 DEF IInv, TypeOK, Sound, ReservedIsDue
<1>5. st.tasks[t].status # "absent"
  BY <1>3 DEF Due, IInv, Sound
<1>6. CASE ResumeRun(r)
  <2>1. Planned(r) = Bare("run.resumed", NoTask) /\ UNCHANGED <<attempt, issued>>
    BY <1>6 DEF ResumeRun, At, Planned
  <2>2. Planned(r) \in Event /\ Planned(r).kind = "run.resumed"
    BY <2>1, PlannedEvent
  <2>3. \A u \in Task : st'.tasks[u] = st.tasks[u]
    BY <1>2, <1>4, <2>2, ApplyFacts DEF TaskKind
  <2> QED
    BY <1>1, <1>3, <1>4, <2>1, <2>3 DEF ReservedIsDue
<1>7. CASE ReopenTask(r)
  <2> DEFINE e == Bare("task.reopened", t)
  <2>1. /\ st.tasks[t].status \in TaskTerminal /\ Planned(r) = e /\ UNCHANGED issued
    BY <1>2, <1>3, <1>7 DEF ReopenTask, At, IInv, RInv, Chosen, Appends, Again, Planned
  <2>2. issued = {}
    BY <1>4, <2>1 DEF ReservedIsDue
  <2>3. e \in Event /\ e.kind = "task.reopened" /\ e.task = t /\ e.kind \in TaskKind
    BY <1>3, PlannedEvent DEF TaskKind
  <2>4. /\ \A u \in Task \ {t} : st'.tasks[u] = st.tasks[u]
        /\ st'.tasks[t].status # "absent"
    BY <1>2, <1>3, <1>4, <1>5, <2>1, <2>3, ApplyFacts
  <2> QED
    BY <1>5, <2>1, <2>2, <2>4 DEF ReservedIsDue
<1>8. CASE Reserve(r)
  <2> DEFINE e == Bare("task.dispatch_reserved", t)
             new == [task |-> t, attempt |-> rs[r].attempt, at |-> attempt[t],
                     id |-> Cardinality(issued) + 1]
  <2>1. /\ st.tasks[t].status \notin TaskTerminal /\ Planned(r) = e
        /\ rs[r].attempt = attempt[t] /\ issued' = issued \cup {new} /\ UNCHANGED attempt
    BY <1>2, <1>3, <1>8 DEF Reserve, At, IInv, RInv, Chosen, Appends, Again, Planned, TaskTerminal
  <2>2. e \in Event /\ e.kind = "task.dispatch_reserved" /\ e.task = t /\ e.kind \in TaskKind
    BY <1>3, PlannedEvent DEF TaskKind
  <2>3. \A u \in Task : st'.tasks[u] = st.tasks[u]
    BY <1>2, <1>4, <2>1, <2>2, ApplyTask DEF TaskAfter
  <2>4. new.task = t /\ new.attempt = attempt[t]
    BY <2>1
  <2> HIDE DEF new
  <2> QED
    BY <1>1, <1>3, <1>4, <2>1, <2>3, <2>4 DEF ReservedIsDue
<1> QED
  BY <1>6, <1>7, <1>8

(* Resumers that do not take the step go on seeing the same. *)
LEMMA OthersStayTruthful ==
  ASSUME IInv, NEW r \in Resumer, rs'[r] = rs[r], Truthful(r), UNCHANGED <<files, git>>,
         Due' = Due, issued \subseteq issued', st' = st \/ st'.last > st.last,
         \A u \in Task : /\ Finished(u)' <=> Finished(u)
                         /\ st'.tasks[u].status = "absent" <=> st.tasks[u].status = "absent"
  PROVE  Truthful(r)'
<1>1. rs[r].head <= st.last /\ rs[r].head \in Nat /\ st.last \in Nat
  BY DEF IInv, RInv, Snapped, TypeOK, ResumerState, State
<1>2. Appends(r)' /\ Compare(r)' => rs'[r].task \in Due'
  <2>1. CASE st' = st
    BY <2>1 DEF Truthful, Appends, Compare
  <2>2. CASE st'.last > st.last
    <3> SUFFICES ASSUME Compare(r)' PROVE FALSE
      OBVIOUS
    <3>1. rs[r].head = st'.last
      BY DEF Compare
    <3> QED
      BY <1>1, <2>2, <3>1
  <2> QED
    BY <2>1, <2>2
<1>3. SeesTheSame(r)' <=> SeesTheSame(r)
  BY DEF SeesTheSame, Counts
<1> QED
  BY <1>2, <1>3 DEF Truthful, Reserved

(* Only resumers at work: each step keeps the answers true. *)
LEMMA QuietStep ==
  ASSUME IInv, IInv', Quiet, foreign = 0, NEW r \in Resumer, Call(r) \/ Step(r) \/ Crash(r)
  PROVE  Quiet'
<1>1. /\ rs[r] \in ResumerState /\ rs \in [Resumer -> ResumerState] /\ Truthful(r)
      /\ ReservedIsDue /\ \A q \in Resumer : Truthful(q)
      /\ ckpt.id # NoId => \E i \in issued : i.id = ckpt.id /\ i.task = ckpt.task
  BY DEF IInv, TypeOK, Quiet
<1>2. UNCHANGED <<git, files>> /\ \A q \in Resumer \ {r} : rs'[q] = rs[q]
  BY <1>1 DEF Call, Step, Crash, ReadLedger, ReadGit, RefuseBlocked, NothingToResume,
     Choose, ResumeRun, ReopenTask, Reserve, CompareFails, RereadLedger, RereadGit, Rebuild,
     Finish, AppendPlanned, Become, Answer
<1>3. CASE ResumeRun(r) \/ ReopenTask(r) \/ Reserve(r)
  <2>1. /\ Appends(r) /\ (Compare(r) => rs[r].task \in Due) /\ UNCHANGED ckpt
        /\ rs[r].pc \notin {"idle", "finish"}
    BY <1>1, <1>3 DEF ResumeRun, ReopenTask, Reserve, AppendPlanned, At, Appends, Truthful
  <2>2. /\ Due' = Due /\ st'.last = st.last + 1 /\ rs[r].head = st.last /\ st.last \in Nat
        /\ \A u \in Task : Finished(u)' <=> Finished(u)
    BY <1>3, <2>1, FewerLeft DEF IInv, TypeOK, State
  <2>3. /\ ReservedIsDue' /\ issued \subseteq issued'
        /\ \A u \in Task : st'.tasks[u].status = "absent" <=> st.tasks[u].status = "absent"
    BY <1>1, <1>3, <2>1, AppendKeepsReserved
  <2>4. \A q \in Resumer \ {r} : Truthful(q)'
    BY <1>1, <1>2, <2>2, <2>3, OthersStayTruthful
  <2>5. LET x == rs'[r] IN
        /\ x.pc \in {"reopen", "reserve", "rebuild"} /\ x.task = rs[r].task
        /\ x.result = rs[r].result
    <3>1. CASE ResumeRun(r)
      BY <1>1, <3>1 DEF ResumeRun, AppendPlanned, Become, ResumerState, ToReserve
    <3>2. CASE ReopenTask(r)
      BY <1>1, <3>2 DEF ReopenTask, AppendPlanned, Become, ResumerState
    <3>3. CASE Reserve(r)
      BY <1>1, <3>3 DEF Reserve, AppendPlanned, Become, ResumerState
    <3> QED
      BY <1>3, <3>1, <3>2, <3>3
  <2>6. rs[r].result # "ready" /\ rs[r].task \in Due
    BY <2>1, <2>2 DEF IInv, RInv, Backed, Compare
  <2>7. Truthful(r)'
    BY <2>2, <2>5, <2>6 DEF Truthful
  <2> QED
    BY <1>1, <2>1, <2>3, <2>4, <2>7 DEF Quiet
<1>4. CASE ~(ResumeRun(r) \/ ReopenTask(r) \/ Reserve(r))
  <2>1. UNCHANGED <<ledger, files, git>>
    BY <1>4 DEF Call, Step, Crash, ReadLedger, ReadGit, RefuseBlocked, NothingToResume,
       Choose, CompareFails, RereadLedger, RereadGit, Rebuild, Finish, ledger
  <2>2. /\ st' = st /\ issued' = issued /\ Due' = Due /\ ReservedIsDue'
        /\ \A u \in Task : Finished(u)' <=> Finished(u)
    BY <1>1, <2>1 DEF ledger, Due, Finished, ReservedIsDue
  <2>3. \A q \in Resumer \ {r} : Truthful(q)'
    BY <1>1, <1>2, <2>2, OthersStayTruthful
  <2>4. ckpt'.id # NoId => \E i \in issued' : i.id = ckpt'.id /\ i.task = ckpt'.task
    <3>1. CASE Finish(r)
      <4>1. ckpt'.id = rs[r].id /\ ckpt'.task = rs[r].task
        BY <3>1 DEF Finish
      <4>2. rs[r].id # NoId => rs[r].result = "ready"
        BY <3>1 DEF Finish, At, IInv, RInv, Backed
      <4> QED
        BY <1>1, <2>2, <4>1, <4>2 DEF Truthful, Reserved
    <3>2. CASE ~Finish(r)
      <4>1. UNCHANGED ckpt
        BY <1>4, <3>2 DEF Call, Step, Crash, ReadLedger, ReadGit, RefuseBlocked, NothingToResume,
           Choose, CompareFails, RereadLedger, RereadGit, Rebuild
      <4> QED
        BY <1>1, <2>2, <4>1
    <3> QED
      BY <3>1, <3>2
  <2>5. ASSUME Call(r) \/ RefuseBlocked(r) \/ Crash(r) \/ CompareFails(r) \/ ReadLedger(r)
               \/ NothingToResume(r)
        PROVE  Truthful(r)'
    <3>1. LET x == rs'[r] IN
          /\ x.pc \in {"idle", "plan", "git", "finish"} /\ x.result # "ready"
      <4>1. CASE ReadLedger(r)
        <5>1. rs[r].result # "ready"
          BY <4>1 DEF ReadLedger, At, IInv, RInv, Backed
        <5> QED
          BY <1>1, <4>1, <5>1 DEF ReadLedger, Become, ResumerState
      <4>2. CASE NothingToResume(r)
        BY <1>1, <4>2 DEF NothingToResume, Become, ResumerState
      <4>3. CASE Call(r) \/ RefuseBlocked(r) \/ Crash(r) \/ CompareFails(r)
        <5>1. \/ \E n : rs'[r] = [Idle EXCEPT !.pc = "plan", !.tries = n]
              \/ rs'[r] = Idle
              \/ \E result \in {"blocked", "contended"} :
                   rs'[r] = [Idle EXCEPT !.result = result]
          <6>1. CASE Call(r)
            BY <1>1, <6>1 DEF Call, Become
          <6>2. CASE CompareFails(r)
            BY <1>1, <6>2 DEF CompareFails, Become, Answer
          <6>3. CASE RefuseBlocked(r)
            BY <1>1, <6>3 DEF RefuseBlocked, Become, Answer
          <6>4. CASE Crash(r)
            BY <1>1, <6>4 DEF Crash, Become
          <6> QED
            BY <4>3, <6>1, <6>2, <6>3, <6>4
        <5>2. ASSUME NEW n, rs'[r] = [Idle EXCEPT !.pc = "plan", !.tries = n]
              PROVE  rs'[r].pc = "plan" /\ rs'[r].result = "none"
          BY <5>2 DEF Idle
        <5>3. ASSUME NEW result \in {"blocked", "contended"},
                     rs'[r] = [Idle EXCEPT !.result = result]
              PROVE  rs'[r].pc = "idle" /\ rs'[r].result = result
          BY <5>3 DEF Idle
        <5>4. Idle.pc = "idle" /\ Idle.result = "none"
          BY DEF Idle
        <5> QED
          BY <5>1, <5>2, <5>3, <5>4
      <4> QED
        BY <2>5, <4>1, <4>2, <4>3
    <3> QED
      BY <3>1 DEF Truthful, Appends
  <2>6. ASSUME ReadGit(r) PROVE Truthful(r)'
    <3>1. LET x == rs'[r] IN x.pc = "verify" /\ x.git = git /\ x.result = rs[r].result
      BY <1>1, <2>6 DEF ReadGit, Become, ResumerState
    <3>2. rs[r].result # "ready"
      BY <2>6 DEF ReadGit, At, IInv, RInv, Backed
    <3> QED
      BY <1>2, <3>1, <3>2 DEF Truthful, Appends
  <2>7. ASSUME Choose(r) PROVE Truthful(r)'
    <3>1. PICK n \in Open(r) : First(r, n) /\ Become(r, Selected(r, n))
      BY <2>7 DEF Choose
    <3>2. At(r, "verify") /\ rs[r].git = git /\ rs[r].result # "ready"
      BY <1>1, <2>7 DEF Choose, At, Truthful, IInv, RInv, Backed
    <3>3. rs'[r] = Selected(r, n)
      BY <1>1, <3>1 DEF Become
    <3>4. LET x == rs'[r] IN
          /\ x.pc \in {"resume", "reopen", "reserve", "rebuild"} /\ x.head = rs[r].head
          /\ x.task = order[n] /\ x.result = rs[r].result
      BY <1>1, <3>3 DEF Selected, ResumerState, Phase, ToReserve
    <3>5. Compare(r) => order[n] \in Due
      BY <3>1, <3>2, ChosenIsDue
    <3> QED
      BY <2>2, <3>2, <3>4, <3>5 DEF Truthful, Compare
  <2>8. ASSUME RereadLedger(r) PROVE Truthful(r)'
    <3>1. rs'[r] = [Idle EXCEPT !.pc = "regit", !.snap = Snap, !.id = rs[r].id]
      BY <1>1, <2>8 DEF RereadLedger, Become
    <3>2. LET x == rs'[r] IN
          x.pc = "regit" /\ x.snap = Snap /\ x.id = rs[r].id /\ x.result = "none"
      BY <3>1 DEF Idle
    <3>3. \E i \in issued : i.id = rs[r].id
      BY <2>8 DEF RereadLedger, At, IInv, RInv, Backed, Reserved
    <3>4. SeesTheSame(r)'
      BY <2>1, <2>2, <3>2 DEF SeesTheSame, Counts, Finished, Snap
    <3>5. \E i \in issued' : i.id = rs'[r].id /\ i.attempt = rs'[r].snap.attempt[i.task]
      BY <1>1, <2>2, <3>2, <3>3 DEF ReservedIsDue, Snap
    <3> QED
      BY <3>2, <3>4, <3>5 DEF Truthful, Appends
  <2>9. ASSUME RereadGit(r) PROVE Truthful(r)'
    <3>1. LET x == rs'[r] IN
          x.pc = "reverify" /\ x.snap = rs[r].snap /\ x.id = rs[r].id /\ x.git = git
          /\ x.result = rs[r].result
      BY <1>1, <2>9 DEF RereadGit, Become, ResumerState
    <3>2. /\ SeesTheSame(r) /\ rs[r].result # "ready"
          /\ \E i \in issued : i.id = rs[r].id /\ i.attempt = rs[r].snap.attempt[i.task]
      BY <1>1, <2>9 DEF RereadGit, At, Truthful, IInv, RInv, Backed
    <3>3. SeesTheSame(r)'
      BY <2>1, <2>2, <3>1, <3>2 DEF SeesTheSame, Counts
    <3> QED
      BY <1>2, <2>2, <3>1, <3>2, <3>3 DEF Truthful, Appends
  <2>10. ASSUME Rebuild(r) PROVE Truthful(r)'
    <3>1. PICK i \in issued : i.id = rs[r].id /\ i.attempt = rs[r].snap.attempt[i.task]
      BY <1>1, <2>10 DEF Rebuild, At, Truthful
    <3>2. i.task \in Due
      BY <1>1 DEF ReservedIsDue
    <3>3. \A u \in Task : LET ts == rs[r].snap.st.tasks[u] IN
            /\ ts.status = "absent" <=> st.tasks[u].status = "absent"
            /\ Verified(r, ts) <=> Finished(u)
      BY <1>1, <2>10 DEF Rebuild, At, Truthful, SeesTheSame, Counts, Verified
    <3>4. \A n \in Open(r) : First(r, n) => order[n] = i.task
      BY <3>2, <3>3, FirstOpenIsDue, DueIsOne
    <3>5. Open(r) # {}
      <4>1. PICK n \in DOMAIN order : order[n] = i.task /\ ~Finished(order[n])
        BY <3>2 DEF Due
      <4>2. order[n] \in Task /\ st.tasks[order[n]].status # "absent"
        BY DEF IInv, TypeOK, Sound
      <4> QED
        BY <3>3, <4>1, <4>2 DEF Open
    <3>6. rs'[r] = [rs[r] EXCEPT !.pc = "finish", !.result = "ready", !.task = i.task,
                      !.attempt = rs[r].snap.attempt[i.task], !.snap = NoSnap, !.git = NoGit]
      BY <1>1, <2>10, <3>4, <3>5 DEF Rebuild, Become
    <3>7. LET x == rs'[r] IN
          /\ x.pc = "finish" /\ x.task = i.task /\ x.attempt = i.attempt /\ x.id = i.id
      BY <1>1, <3>1, <3>6 DEF ResumerState
    <3> QED
      BY <2>2, <3>7 DEF Truthful, Appends, Reserved
  <2>11. ASSUME Finish(r) PROVE Truthful(r)'
    <3>1. rs'[r] = [Idle EXCEPT !.result = rs[r].result, !.task = rs[r].task,
                                !.attempt = rs[r].attempt, !.id = rs[r].id]
      BY <1>1, <2>11 DEF Finish, Become
    <3>2. LET x == rs'[r] IN
          /\ x.pc = "idle" /\ x.result = rs[r].result /\ x.task = rs[r].task
          /\ x.attempt = rs[r].attempt /\ x.id = rs[r].id
      BY <3>1 DEF Idle
    <3> QED
      BY <1>1, <2>2, <3>2 DEF Truthful, Appends, Reserved
  <2>12. Truthful(r)'
    BY <1>4, <2>5, <2>6, <2>7, <2>8, <2>9, <2>10, <2>11 DEF Step
  <2> QED
    BY <2>2, <2>3, <2>4, <2>12 DEF Quiet
<1> QED
  BY <1>3, <1>4

(* The id of an answer or of a checkpoint is reserved; if only resumers    *)
(* were at work, for the task and the attempt the answer names.            *)
THEOREM DurableDispatch == Spec => []DispatchIsDurable
<1>1. Init => Quiet
  <2> SUFFICES ASSUME Init PROVE Quiet
    OBVIOUS
  <2>1. issued = {} /\ ckpt.id = NoId
    BY DEF Init
  <2>2. ASSUME NEW r \in Resumer PROVE Truthful(r)
    <3>1. rs[r] = Idle
      BY DEF Init
    <3> QED
      BY <3>1 DEF Truthful, Appends, Idle
  <2> QED
    BY <2>1, <2>2 DEF Quiet, ReservedIsDue
<1>2. IInv /\ IInv' /\ Quiet /\ [Next]_vars => Quiet'
  <2> SUFFICES ASSUME IInv, IInv', Quiet, [Next]_vars PROVE Quiet'
    OBVIOUS
  <2>1. foreign \in Nat
    BY TriesAssumption DEF IInv, TypeOK
  <2>2. ASSUME NEW r \in Resumer, Call(r) \/ Step(r) \/ Crash(r) PROVE Quiet'
    <3>1. foreign' = foreign
      BY <2>2 DEF Call, Step, Crash, ReadLedger, ReadGit, RefuseBlocked, NothingToResume, Choose,
         ResumeRun, ReopenTask, Reserve, CompareFails, RereadLedger, RereadGit, Rebuild,
         Finish, AppendPlanned
    <3> QED
      BY <2>2, <3>1, QuietStep DEF Quiet
  <2>3. CASE UNCHANGED vars
    BY <2>3 DEF vars, ledger, Quiet, ReservedIsDue, Truthful, SeesTheSame, Counts, Appends,
       Compare, Reserved, Due, Finished
  <2>4. ASSUME \/ \E e \in Requests : Worker(e)
               \/ \E s \in Source, d \in Digest : Edit(s, d)
               \/ \E reach \in SUBSET Commit : MoveHead(reach)
        PROVE  Quiet'
    BY <2>1, <2>4 DEF Worker, Edit, MoveHead, Foreign, Quiet
  <2> QED
    BY <2>2, <2>3, <2>4 DEF Next
<1>3. ASSUME IInv, Quiet PROVE DispatchIsDurable
  <2>1. ASSUME NEW r \in Resumer, At(r, "rebuild")
        PROVE  Reserved(rs[r].task, rs[r].attempt, rs[r].id)
    BY <1>3, <2>1 DEF IInv, RInv, Backed, At
  <2>2. ASSUME NEW r \in Resumer, rs[r].result = "ready"
        PROVE  \E i \in issued :
                 /\ i.id = rs[r].id
                 /\ i.task = rs[r].task => i.attempt <= rs[r].attempt
                 /\ foreign = 0 => i.task = rs[r].task /\ i.attempt = rs[r].attempt
    <3>1. \E i \in issued : i.id = rs[r].id /\ (i.task = rs[r].task => i.attempt <= rs[r].attempt)
      BY <1>3, <2>2 DEF IInv, RInv, Backed
    <3>2. foreign = 0 => Reserved(rs[r].task, rs[r].attempt, rs[r].id)
      BY <1>3, <2>2 DEF Quiet, Truthful
    <3>3. rs[r].attempt \in Nat
      BY <1>3 DEF IInv, TypeOK, ResumerState
    <3> QED
      BY <3>1, <3>2, <3>3 DEF Reserved
  <2>3. ckpt.id # NoId =>
          \E i \in issued : i.id = ckpt.id /\ (foreign = 0 => i.task = ckpt.task)
    BY <1>3 DEF IInv, Sound, Quiet
  <2> QED
    BY <2>1, <2>2, <2>3 DEF DispatchIsDurable
<1> QED
  BY <1>1, <1>2, <1>3, Invariance, PTL DEF Spec

-----------------------------------------------------------------------------
(* A resumer that does not take the step is as well off as before: nothing *)
(* was appended, or there is less left than it has missed.                 *)
LEMMA OthersUndisturbed ==
  ASSUME IInv, TypeOK', NEW r \in Resumer, rs'[r] = rs[r], Undisturbed(r), UNCHANGED git,
         \/ st' = st /\ Due' = Due /\ Left' = Left
         \/ st'.last = st.last + 1 /\ Left' + 1 <= Left
  PROVE  Undisturbed(r)'
<1>1. /\ rs[r].head <= st.last /\ rs[r].head \in Nat /\ st.last \in Nat
      /\ rs[r].tries \in Nat /\ Left \in 0 .. 3 /\ Left' \in 0 .. 3
  BY LeftType, TriesAssumption DEF IInv, RInv, Snapped, TypeOK, ResumerState, State
<1>2. CASE st' = st /\ Due' = Due /\ Left' = Left
  BY <1>1, <1>2 DEF Undisturbed, Appends, Compare
<1>3. CASE st'.last = st.last + 1 /\ Left' + 1 <= Left
  <2>1. ~Compare(r)'
    BY <1>1, <1>3 DEF Compare
  <2>2. rs[r].tries + Left <= 4 => rs'[r].tries + Left' <= 4
    <3>1. ASSUME NEW a \in Nat, NEW k \in 0 .. 3, NEW m \in 0 .. 3, m + 1 <= k, a + k <= 4
          PROVE  a + m <= 4
      BY <3>1
    <3>2. rs'[r].tries = rs[r].tries
      OBVIOUS
    <3> QED
      BY <1>1, <1>3, <3>1, <3>2
  <2>3. rs[r].tries + (st.last - rs[r].head) + Left <= 4 =>
          rs'[r].tries + (st'.last - rs'[r].head) + Left' <= 4
    <3>1. ASSUME NEW a \in Nat, NEW h \in Nat, NEW n \in Nat, NEW k \in 0 .. 3, NEW m \in 0 .. 3,
                 m + 1 <= k, a + (n - h) + k <= 4
          PROVE  a + ((n + 1) - h) + m <= 4
      BY <3>1
    <3> QED
      BY <1>1, <1>3, <3>1
  <2> QED
    BY <2>1, <2>2, <2>3 DEF Undisturbed, Appends
<1> QED
  BY <1>2, <1>3

(* Only resumers at work: each step keeps the account.                     *)
LEMMA AloneStep ==
  ASSUME IInv, Alone, TypeOK', foreign' = 0, foreign = 0, MaxTries >= 4,
         NEW r \in Resumer, Call(r) \/ Step(r) \/ Crash(r)
  PROVE  \A q \in Resumer : Undisturbed(q)'
<1>1. /\ rs[r] \in ResumerState /\ rs \in [Resumer -> ResumerState] /\ Undisturbed(r)
      /\ rs[r].head <= st.last /\ rs[r].head \in Nat /\ st.last \in Nat /\ rs[r].tries \in Nat
      /\ Left \in 0 .. 3
  <2>1. TypeOK /\ Snapped(r) /\ Undisturbed(r)
    BY DEF IInv, RInv, Alone
  <2>2. rs[r] \in ResumerState /\ rs \in [Resumer -> ResumerState] /\ st.last \in Nat
    BY <2>1 DEF TypeOK, State
  <2>3. rs[r].head \in Nat /\ rs[r].tries \in Nat
    BY <2>2, TriesAssumption DEF ResumerState
  <2> QED
    BY <2>1, <2>2, <2>3, LeftType DEF Snapped
<1>2. UNCHANGED git /\ \A q \in Resumer \ {r} : rs'[q] = rs[q]
  BY <1>1 DEF Call, Step, Crash, ReadLedger, ReadGit, RefuseBlocked, NothingToResume,
     Choose, ResumeRun, ReopenTask, Reserve, CompareFails, RereadLedger, RereadGit, Rebuild,
     Finish, AppendPlanned, Become, Answer
<1>3. CASE ResumeRun(r) \/ ReopenTask(r) \/ Reserve(r)
  <2>1. /\ Due' = Due /\ Left' + 1 <= Left /\ st'.last = st.last + 1 /\ rs[r].head = st.last
    BY <1>1, <1>3, FewerLeft DEF Undisturbed, Appends, ResumeRun, ReopenTask, Reserve, At
  <2>2. ASSUME NEW y \in ResumerState, Become(r, [y EXCEPT !.head = @ + 1]),
               y.head = rs[r].head, y.tries = rs[r].tries, y.task = rs[r].task,
               y.pc \notin {"plan", "verify"}, y.result = rs[r].result
        PROVE  Undisturbed(r)'
    <3>1. LET x == rs'[r] IN
          /\ x.head = y.head + 1 /\ x.tries = y.tries /\ x.task = y.task /\ x.pc = y.pc
          /\ x.result = y.result
      BY <1>1, <2>2 DEF Become, ResumerState
    <3>2. Left' \in 0 .. 3
      BY LeftType
    <3>3. Appends(r)
      BY <1>3 DEF ResumeRun, ReopenTask, Reserve, At, Appends
    <3>4. rs[r].task \in Due
      BY <1>1, <2>1, <3>3 DEF Undisturbed, Compare
    <3> QED
      BY <1>1, <2>1, <2>2, <3>1, <3>2, <3>3, <3>4 DEF Undisturbed, Appends, Compare
  <2>3. ASSUME ResumeRun(r) PROVE Undisturbed(r)'
    <3> DEFINE y == [rs[r] EXCEPT !.pc = IF rs[r].action = "reopen" THEN "reopen"
                                         ELSE ToReserve(rs[r].id)]
    <3>1. y \in ResumerState /\ y.head = rs[r].head /\ y.tries = rs[r].tries /\ y.task = rs[r].task
          /\ y.pc \notin {"plan", "verify"} /\ y.result = rs[r].result
      BY <1>1 DEF ResumerState, Pc, ToReserve
    <3>2. Become(r, [y EXCEPT !.head = @ + 1])
      BY <2>3 DEF ResumeRun, AppendPlanned
    <3> HIDE DEF y
    <3> QED
      BY <2>2, <3>1, <3>2
  <2>4. ASSUME ReopenTask(r) PROVE Undisturbed(r)'
    <3> DEFINE y == [rs[r] EXCEPT !.pc = "reserve"]
    <3>1. y \in ResumerState /\ y.head = rs[r].head /\ y.tries = rs[r].tries /\ y.task = rs[r].task
          /\ y.pc \notin {"plan", "verify"} /\ y.result = rs[r].result
      BY <1>1 DEF ResumerState, Pc
    <3>2. Become(r, [y EXCEPT !.head = @ + 1])
      BY <2>4 DEF ReopenTask, AppendPlanned
    <3> HIDE DEF y
    <3> QED
      BY <2>2, <3>1, <3>2
  <2>5. ASSUME Reserve(r) PROVE Undisturbed(r)'
    <3> DEFINE y == [rs[r] EXCEPT !.pc = "rebuild", !.id = Cardinality(issued) + 1]
    <3>0. Cardinality(issued) + 1 \in Nat
      BY FS_CardinalityType DEF IInv, Sound
    <3>1. y \in ResumerState /\ y.head = rs[r].head /\ y.tries = rs[r].tries /\ y.task = rs[r].task
          /\ y.pc \notin {"plan", "verify"} /\ y.result = rs[r].result
      BY <1>1, <3>0 DEF ResumerState, Pc
    <3>2. Become(r, [y EXCEPT !.head = @ + 1])
      BY <2>5 DEF Reserve, AppendPlanned
    <3> HIDE DEF y
    <3> QED
      BY <2>2, <3>1, <3>2
  <2> QED
    BY <1>2, <1>3, <2>1, <2>3, <2>4, <2>5, OthersUndisturbed DEF Alone
<1>4. CASE ~(ResumeRun(r) \/ ReopenTask(r) \/ Reserve(r))
  <2>1. UNCHANGED <<ledger, files, git>>
    BY <1>4 DEF Call, Step, Crash, ReadLedger, ReadGit, RefuseBlocked, NothingToResume,
       Choose, CompareFails, RereadLedger, RereadGit, Rebuild, Finish, ledger
  <2>2. st' = st /\ Due' = Due /\ Left' = Left
    BY <2>1 DEF ledger, Due, Finished, Left
  <2>3. ASSUME Call(r) \/ RefuseBlocked(r) \/ Crash(r) \/ Finish(r) \/ RereadLedger(r)
        PROVE  Undisturbed(r)'
    <3>1. CASE Call(r)
      <4>1. rs'[r] = [Idle EXCEPT !.pc = "plan", !.tries = 1]
        BY <1>1, <3>1 DEF Call, Become
      <4> QED
        BY <1>1, <2>2, <4>1 DEF Undisturbed, Appends, Idle
    <3>2. CASE RefuseBlocked(r)
      <4>1. rs'[r] = [Idle EXCEPT !.result = "blocked"]
        BY <1>1, <3>2 DEF RefuseBlocked, Become, Answer
      <4> QED
        BY <4>1 DEF Undisturbed, Appends, Idle
    <3>3. CASE Crash(r)
      <4>1. rs'[r] = Idle
        BY <1>1, <3>3 DEF Crash, Become
      <4> QED
        BY <4>1 DEF Undisturbed, Appends, Idle
    <3>4. CASE Finish(r)
      <4>1. rs'[r] = [Idle EXCEPT !.result = rs[r].result, !.task = rs[r].task,
                                  !.attempt = rs[r].attempt, !.id = rs[r].id]
        BY <1>1, <3>4 DEF Finish, Become
      <4> QED
        BY <1>1, <4>1 DEF Undisturbed, Appends, Idle
    <3>5. CASE RereadLedger(r)
      <4>1. rs'[r] = [Idle EXCEPT !.pc = "regit", !.snap = Snap, !.id = rs[r].id]
        BY <1>1, <3>5 DEF RereadLedger, Become
      <4> QED
        BY <4>1 DEF Undisturbed, Appends, Idle
    <3> QED
      BY <2>3, <3>1, <3>2, <3>3, <3>4, <3>5
  <2>4. ASSUME CompareFails(r) PROVE Undisturbed(r)'
    <3>1. rs[r].head + 1 <= st.last /\ Appends(r)
      BY <1>1, <2>4 DEF CompareFails, Compare, Appends
    <3>2. rs[r].tries + Left <= 3 /\ rs[r].tries < MaxTries
      BY <1>1, <3>1, TriesAssumption DEF Undisturbed
    <3>3. rs'[r] = [Idle EXCEPT !.pc = "plan", !.tries = rs[r].tries + 1]
      BY <1>1, <2>4, <3>2 DEF CompareFails, MayRetry, Become
    <3> QED
      BY <1>1, <2>2, <3>2, <3>3 DEF Undisturbed, Appends, Idle
  <2>5. ASSUME ReadLedger(r) PROVE Undisturbed(r)'
    <3>1. LET x == rs'[r] IN
          x.pc = "git" /\ x.head = st.last /\ x.tries = rs[r].tries /\ x.result = rs[r].result
      BY <1>1, <2>5 DEF ReadLedger, Become, ResumerState
    <3>2. rs[r].tries + Left <= 4
      BY <1>1, <2>5 DEF ReadLedger, At, Undisturbed
    <3> QED
      BY <1>1, <2>2, <3>1, <3>2 DEF Undisturbed, Appends
  <2>6. ASSUME ReadGit(r) PROVE Undisturbed(r)'
    <3>1. LET x == rs'[r] IN
          /\ x.pc = "verify" /\ x.head = rs[r].head /\ x.tries = rs[r].tries
          /\ x.git = git /\ x.result = rs[r].result
      BY <1>1, <2>6 DEF ReadGit, Become, ResumerState
    <3>2. rs[r].tries + (st.last - rs[r].head) + Left <= 4
      BY <1>1, <2>6 DEF ReadGit, At, Undisturbed
    <3> QED
      BY <1>1, <1>2, <2>2, <3>1, <3>2 DEF Undisturbed, Appends
  <2>7. ASSUME NothingToResume(r) \/ Rebuild(r) \/ RereadGit(r) PROVE Undisturbed(r)'
    <3>1. LET x == rs'[r] IN x.pc \in {"reverify", "finish"} /\ x.result # "contended"
      <4>1. CASE NothingToResume(r)
        BY <1>1, <4>1 DEF NothingToResume, Become, ResumerState
      <4>2. CASE Rebuild(r)
        <5>1. \E t, n : rs'[r] = [rs[r] EXCEPT !.pc = "finish", !.result = "ready", !.task = t,
                                 !.attempt = n, !.snap = NoSnap, !.git = NoGit]
          BY <1>1, <4>2 DEF Rebuild, Become
        <5> QED
          BY <1>1, <5>1 DEF ResumerState
      <4>3. CASE RereadGit(r)
        BY <1>1, <4>3 DEF RereadGit, Become, ResumerState, Undisturbed
      <4> QED
        BY <2>7, <4>1, <4>2, <4>3
    <3> QED
      BY <3>1 DEF Undisturbed, Appends
  <2>8. ASSUME Choose(r) PROVE Undisturbed(r)'
    <3>1. PICK n \in Open(r) : First(r, n) /\ Become(r, Selected(r, n))
      BY <2>8 DEF Choose
    <3>2. At(r, "verify") /\ rs[r].git = git /\ rs[r].tries + (st.last - rs[r].head) + Left <= 4
      BY <1>1, <2>8 DEF Choose, At, Undisturbed
    <3>3. rs'[r] = Selected(r, n)
      BY <1>1, <3>1 DEF Become
    <3>4. LET x == rs'[r] IN
          /\ x.pc \in {"resume", "reopen", "reserve", "rebuild"} /\ x.head = rs[r].head
          /\ x.tries = rs[r].tries /\ x.task = order[n] /\ x.result = rs[r].result
      BY <1>1, <3>3 DEF Selected, ResumerState, Phase, ToReserve
    <3>5. Compare(r) => order[n] \in Due
      BY <3>1, <3>2, ChosenIsDue
    <3> QED
      BY <1>1, <2>2, <3>2, <3>4, <3>5 DEF Undisturbed, Appends, Compare
  <2> QED
    BY <1>2, <1>4, <2>2, <2>3, <2>4, <2>5, <2>6, <2>7, <2>8, OthersUndisturbed DEF Step, Alone
<1> QED
  BY <1>3, <1>4

(* Four tries are enough however many resumers compete: with at least that *)
(* many - the default of max_compare_retries is four - a call gives up     *)
(* only if a worker or a person has interfered.                            *)
THEOREM FourTriesSuffice == MaxTries >= 4 => (Spec => []ContentionIsForeign)
<1> SUFFICES ASSUME MaxTries >= 4 PROVE Spec => []ContentionIsForeign
  OBVIOUS
<1>1. Init => Alone
  <2> SUFFICES ASSUME Init, NEW r \in Resumer PROVE Undisturbed(r)
    BY DEF Alone
  <2>1. rs[r] = Idle
    BY DEF Init
  <2> QED
    BY <2>1 DEF Undisturbed, Appends, Idle
<1>2. IInv /\ IInv' /\ Alone /\ [Next]_vars => Alone'
  <2> SUFFICES ASSUME IInv, IInv', Alone, [Next]_vars PROVE Alone'
    OBVIOUS
  <2>1. foreign \in Nat /\ TypeOK'
    BY TriesAssumption DEF IInv, TypeOK
  <2>2. ASSUME NEW r \in Resumer, Call(r) \/ Step(r) \/ Crash(r) PROVE Alone'
    <3>1. foreign' = foreign
      BY <2>2 DEF Call, Step, Crash, ReadLedger, ReadGit, RefuseBlocked, NothingToResume, Choose,
         ResumeRun, ReopenTask, Reserve, CompareFails, RereadLedger, RereadGit, Rebuild,
         Finish, AppendPlanned
    <3> QED
      BY <2>1, <2>2, <3>1, AloneStep DEF Alone
  <2>3. CASE UNCHANGED vars
    BY <2>3 DEF vars, ledger, Alone, Undisturbed, Appends, Compare, Due, Finished, Left
  <2>4. ASSUME \/ \E e \in Requests : Worker(e)
               \/ \E s \in Source, d \in Digest : Edit(s, d)
               \/ \E reach \in SUBSET Commit : MoveHead(reach)
        PROVE  Alone'
    BY <2>1, <2>4 DEF Worker, Edit, MoveHead, Foreign, Alone
  <2> QED
    BY <2>2, <2>3, <2>4 DEF Next
<1>3. Alone => ContentionIsForeign
  BY DEF Alone, Undisturbed, ContentionIsForeign
<1> QED
  BY <1>1, <1>2, <1>3, Invariance, PTL DEF Spec
=============================================================================
