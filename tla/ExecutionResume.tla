--------------------------- MODULE ExecutionResume ---------------------------
(***************************************************************************)
(* resume_execution of execution_resume.py: processes that restart an      *)
(* interrupted run at its first task that is not verifiably completed, and *)
(* agree on one dispatch id per attempt of that task.                      *)
(*                                                                         *)
(* A resumer reads the ledger, then Git, then the bound files, and appends *)
(* up to three events, each only if nobody appended since (the head hash   *)
(* of the log is st.last, see ExecutionLedger).  Meanwhile workers append  *)
(* events of their own and people edit and commit.  An error that ends a   *)
(* call - a busy lock, a vanished process - is a Crash.                    *)
(***************************************************************************)
EXTENDS RunState

CONSTANTS
  Resumer,       \* processes that call resume_execution
  Priors,        \* the runs that may have been interrupted
  Requests,      \* events that workers append, without an expected head
  Recorded,      \* sources below the feature's execution directory
  MaxTries,      \* max_compare_retries
  MayCrash,      \* calls of resume_execution may be cut short
  MaxForeign     \* bound: steps of workers and people

ASSUME RequestsAssumption ==
  Wellformed(Requests) /\ \A e \in Requests : e.kind # "task.dispatch_reserved"
ASSUME PriorsAssumption ==
  \A p \in Priors :
    /\ p \in [st : State, order : Seq(Task)]
    /\ p.st.last > 0 /\ p.st.run # "new"
    /\ \A n \in DOMAIN p.order : p.st.tasks[p.order[n]].status # "absent"
    /\ \A m, n \in DOMAIN p.order : p.order[m] = p.order[n] => m = n
ASSUME TriesAssumption ==
  MaxTries \in Nat \ {0} /\ MaxForeign \in Nat /\ MayCrash \in BOOLEAN

VARIABLES
  st,        \* the state the run's events reconstruct to
  order,     \* tasks in the order of their task.registered events
  attempt,   \* attempt the tasks are in: one more than their reopenings
  dispatch,  \* the last dispatch id reserved for that attempt
  issued,    \* the task.dispatch_reserved events
  ckpt,      \* the checkpoint's ledger head and extra.resume
  files,     \* workspace bytes of the bound sources
  git,       \* commits HEAD descends from; is the work tree clean?
  rs,        \* the resumers
  foreign    \* steps of workers and people so far

ledger == <<st, order, attempt, dispatch, issued>>
vars == <<ledger, ckpt, files, git, rs, foreign>>

(* "attempt" is what the event's payload says, "at" the attempt its task   *)
(* was in; ids are uuid4 values, here numbered.                            *)
Reservation == [task : Task, attempt : Nat, at : Nat, id : Nat \ {0}]
NoId == 0

Snap == [st |-> st, attempt |-> attempt, dispatch |-> dispatch]

NoSnap == [st |-> NewRun, attempt |-> [t \in Task |-> 1], dispatch |-> [t \in Task |-> NoId]]
NoGit == [reach |-> {}, clean |-> TRUE]

Idle == [pc |-> "idle", tries |-> 0, snap |-> NoSnap, git |-> NoGit,
         head |-> 0, task |-> NoTask, action |-> "skip", attempt |-> 0,
         id |-> NoId, result |-> "none"]

Pc == {"idle", "plan", "git", "verify", "resume", "reopen", "reserve",
       "rebuild", "regit", "reverify", "finish"}
Result == {"none", "ready", "nothing-to-resume", "blocked", "contended"}

Snapshot == [st : State, attempt : [Task -> Nat], dispatch : [Task -> Nat]]
GitState == [reach : SUBSET Commit, clean : BOOLEAN]
ResumerState ==
  [pc : Pc, tries : 0 .. MaxTries, head : Nat, task : Task \cup {NoTask},
   snap : Snapshot, git : GitState,
   action : {"skip", "reopen", "dispatch"}, attempt : Nat, id : Nat, result : Result]

TypeOK ==
  /\ st \in State
  /\ order \in Seq(Task)
  /\ attempt \in [Task -> Nat]
  /\ dispatch \in [Task -> Nat]
  /\ issued \subseteq Reservation
  /\ ckpt \in [last : Nat, task : Task \cup {NoTask}, id : Nat]
  /\ files \in [Source -> Digest]
  /\ git \in GitState
  /\ rs \in [Resumer -> ResumerState]
  /\ foreign \in 0 .. MaxForeign

Init ==
  /\ \E p \in Priors : st = p.st /\ order = p.order
  /\ attempt = [t \in Task |-> 1]
  /\ dispatch = [t \in Task |-> NoId]
  /\ issued = {}
  /\ ckpt = [last |-> 0, task |-> NoTask, id |-> NoId]
  /\ files \in [Source -> Digest]
  /\ git \in [reach : SUBSET Commit, clean : {TRUE}]
  /\ rs = [r \in Resumer |-> Idle]
  /\ foreign = 0

-----------------------------------------------------------------------------
At(r, pc) == rs[r].pc = pc
Become(r, x) == rs' = [rs EXCEPT ![r] = x]
Answer(r, result) == Become(r, [Idle EXCEPT !.result = result])

(* An invalid reservation makes every later plan fail (SDAI-RESUME-004).   *)
Valid(reservations) == \A i \in reservations : i.attempt = i.at

Call(r) ==
  /\ At(r, "idle")
  /\ Become(r, [Idle EXCEPT !.pc = "plan", !.tries = 1])
  /\ UNCHANGED <<ledger, ckpt, files, git, foreign>>

(* build_resume_plan, in the order of its reads.                           *)
ReadLedger(r) ==
  /\ At(r, "plan") /\ Valid(issued)
  /\ Become(r, [rs[r] EXCEPT !.pc = "git", !.snap = Snap, !.head = st.last])
  /\ UNCHANGED <<ledger, ckpt, files, git, foreign>>

ReadGit(r) ==
  /\ At(r, "git")
  /\ Become(r, [rs[r] EXCEPT !.pc = "verify", !.git = git])
  /\ UNCHANGED <<ledger, ckpt, files, git, foreign>>

(* _decision_for_task: a completion counts while its commit is an ancestor *)
(* of HEAD and every file still has the bytes it bound.                    *)
Verified(r, ts) ==
  /\ ts.status = "completed"
  /\ ts.commit \in rs[r].git.reach
  /\ \A b \in ts.binds : files[b.src] = b.dig

Blocked(r) == rs[r].snap.st.run \in RunTerminal \/ ~rs[r].git.clean

(* Places, in registration order, of the tasks that cannot be skipped.     *)
Open(r) ==
  LET tasks == rs[r].snap.st.tasks IN
  {n \in DOMAIN order : tasks[order[n]].status # "absent" /\ ~Verified(r, tasks[order[n]])}

RefuseBlocked(r) ==
  /\ At(r, "verify") /\ Blocked(r)
  /\ Answer(r, "blocked")
  /\ UNCHANGED <<ledger, ckpt, files, git, foreign>>

NothingToResume(r) ==
  /\ At(r, "verify") /\ ~Blocked(r) /\ Open(r) = {}
  /\ Become(r, [rs[r] EXCEPT !.pc = "finish", !.result = "nothing-to-resume",
                             !.snap = NoSnap, !.git = NoGit])
  /\ UNCHANGED <<ledger, ckpt, files, git, foreign>>

(* The first task that cannot be skipped; a terminal one gets a new        *)
(* attempt, an unfinished one keeps its attempt and its reservation.       *)
ToReserve(id) == IF id = NoId THEN "reserve" ELSE "rebuild"

PhaseWithoutResume(snap, next) == next   \* mutant: run.resumed is forgotten
Phase(snap, next) == IF snap.st.run = "paused" THEN "resume" ELSE next

AttemptSame(snap, t, again) == snap.attempt[t]   \* mutant: the reopening is not counted
AttemptOf(snap, t, again) == IF again THEN snap.attempt[t] + 1 ELSE snap.attempt[t]

Selected(r, n) ==
  LET snap == rs[r].snap
      t == order[n]
      again == snap.st.tasks[t].status \in TaskTerminal
      old == IF again THEN NoId ELSE snap.dispatch[t]
      next == IF again THEN "reopen" ELSE ToReserve(old)
  IN  [rs[r] EXCEPT
        !.pc = Phase(snap, next),
        !.task = t, !.id = old,
        !.action = IF again THEN "reopen" ELSE "dispatch",
        !.attempt = AttemptOf(snap, t, again),
        !.snap = NoSnap, !.git = NoGit]

Last(r, n) == \A m \in Open(r) : n >= m   \* mutant: the last task instead of the first
First(r, n) == \A m \in Open(r) : n <= m

Choose(r) ==
  /\ At(r, "verify") /\ ~Blocked(r)
  /\ \E n \in Open(r) : First(r, n) /\ Become(r, Selected(r, n))
  /\ UNCHANGED <<ledger, ckpt, files, git, foreign>>

(* The event the resumer appends next.                                     *)
Planned(r) ==
  CASE At(r, "resume")  -> Bare("run.resumed", NoTask)
    [] At(r, "reopen")  -> Bare("task.reopened", rs[r].task)
    [] At(r, "reserve") -> Bare("task.dispatch_reserved", rs[r].task)

(* expected_last_sha256 is the current head: the event goes in, and the    *)
(* next one expects it.                                                    *)
CompareNothing(r) == TRUE   \* mutant: append without comparing
Compare(r) == rs[r].head = st.last

(* A reopened task is in its next attempt, for which nothing is reserved.  *)
CountAttemptOnly(e) ==   \* mutant: reservations are looked up by task only
  /\ attempt' = [t \in Task |->
       IF e.kind = "task.reopened" /\ e.task = t THEN attempt[t] + 1 ELSE attempt[t]]
  /\ UNCHANGED dispatch

CountAttempt(e) ==
  LET again(t) == e.kind = "task.reopened" /\ e.task = t IN
  /\ attempt' = [t \in Task |-> IF again(t) THEN attempt[t] + 1 ELSE attempt[t]]
  /\ dispatch' = [t \in Task |-> IF again(t) THEN NoId ELSE dispatch[t]]

AppendPlanned(r, next) ==
  /\ Compare(r) /\ Legal(st, Planned(r))
  /\ st' = Apply(st, Planned(r))
  /\ Become(r, [next EXCEPT !.head = @ + 1])
  /\ UNCHANGED <<order, ckpt, files, git, foreign>>

ResumeRun(r) ==
  /\ At(r, "resume")
  /\ AppendPlanned(r, [rs[r] EXCEPT
       !.pc = IF rs[r].action = "reopen" THEN "reopen" ELSE ToReserve(rs[r].id)])
  /\ UNCHANGED <<attempt, dispatch, issued>>

ReopenTask(r) ==
  /\ At(r, "reopen")
  /\ AppendPlanned(r, [rs[r] EXCEPT !.pc = "reserve"])
  /\ CountAttempt(Planned(r))
  /\ UNCHANGED issued

Reserve(r) ==
  /\ At(r, "reserve")
  /\ LET id == Cardinality(issued) + 1 IN
     /\ AppendPlanned(r, [rs[r] EXCEPT !.pc = "rebuild", !.id = id])
     /\ dispatch' = [dispatch EXCEPT ![rs[r].task] = id]
     /\ issued' = issued \cup {[task |-> rs[r].task, attempt |-> rs[r].attempt,
                                at |-> attempt[rs[r].task], id |-> id]}
  /\ UNCHANGED attempt

(* SDAI-LEDGER-008: somebody was faster.  Plan again, or give up.          *)
MayRetryPast(r) == rs[r].tries <= MaxTries      \* mutant: once too often
MayRetryLess(r) == rs[r].tries < MaxTries - 1   \* mutant: once too rarely
MayRetry(r) == rs[r].tries < MaxTries

CompareFails(r) ==
  /\ rs[r].pc \in {"resume", "reopen", "reserve"} /\ ~Compare(r)
  /\ \/ /\ MayRetry(r)
        /\ Become(r, [Idle EXCEPT !.pc = "plan", !.tries = rs[r].tries + 1])
     \/ /\ ~MayRetry(r)
        /\ Answer(r, "contended")
  /\ UNCHANGED <<ledger, ckpt, files, git, foreign>>

(* With the dispatch in the ledger a second plan is built, by the same     *)
(* reads; it can still fail.  Of the first one only the id is kept.        *)
RereadLedger(r) ==
  /\ At(r, "rebuild") /\ Valid(issued)
  /\ Become(r, [Idle EXCEPT !.pc = "regit", !.snap = Snap, !.id = rs[r].id])
  /\ UNCHANGED <<ledger, ckpt, files, git, foreign>>

RereadGit(r) ==
  /\ At(r, "regit")
  /\ Become(r, [rs[r] EXCEPT !.pc = "reverify", !.git = git])
  /\ UNCHANGED <<ledger, ckpt, files, git, foreign>>

(* The answer is "ready" with the id of the first plan's task, but it is   *)
(* the second plan that it names the task and attempt of: its first task   *)
(* that cannot be skipped, whether or not it is blocked, or none at all.   *)
Rebuild(r) ==
  /\ At(r, "reverify")
  /\ LET Name(t, n) == Become(r, [rs[r] EXCEPT
                         !.pc = "finish", !.result = "ready", !.task = t, !.attempt = n,
                         !.snap = NoSnap, !.git = NoGit])
     IN  \/ Open(r) = {} /\ Name(NoTask, 0)
         \/ \E n \in Open(r) : First(r, n) /\ Name(order[n], rs[r].snap.attempt[order[n]])
  /\ UNCHANGED <<ledger, ckpt, files, git, foreign>>

(* _checkpoint_resume of that plan, and the answer.                        *)
Finish(r) ==
  /\ At(r, "finish")
  /\ ckpt' = [last |-> st.last, task |-> rs[r].task, id |-> rs[r].id]
  /\ Become(r, [Idle EXCEPT !.result = rs[r].result, !.task = rs[r].task,
                            !.attempt = rs[r].attempt, !.id = rs[r].id])
  /\ UNCHANGED <<ledger, files, git, foreign>>

Crash(r) ==
  /\ MayCrash /\ rs[r].pc # "idle"
  /\ Become(r, Idle)
  /\ UNCHANGED <<ledger, ckpt, files, git, foreign>>

-----------------------------------------------------------------------------
(* A worker appends whatever the ledger admits.                            *)
Foreign == foreign < MaxForeign /\ foreign' = foreign + 1

Worker(e) ==
  /\ Foreign
  /\ Legal(st, e)
  /\ e.kind = "task.completed" => \A b \in e.binds : files[b.src] = b.dig
  /\ st' = Apply(st, e)
  /\ order' = IF e.kind = "task.registered" THEN Append(order, e.task) ELSE order
  /\ CountAttempt(e)
  /\ UNCHANGED <<issued, ckpt, files, git, rs>>

(* An edit outside the execution directory makes the work tree dirty.      *)
Edit(s, d) ==
  /\ Foreign /\ files[s] # d
  /\ files' = [files EXCEPT ![s] = d]
  /\ git' = IF s \in Recorded THEN git ELSE [git EXCEPT !.clean = FALSE]
  /\ UNCHANGED <<ledger, ckpt, rs>>

(* A commit, a checkout or a rewritten history.                            *)
MoveHead(reach) ==
  /\ Foreign /\ git # [reach |-> reach, clean |-> TRUE]
  /\ git' = [reach |-> reach, clean |-> TRUE]
  /\ UNCHANGED <<ledger, ckpt, files, rs>>

Step(r) ==
  \/ ReadLedger(r) \/ ReadGit(r)
  \/ RefuseBlocked(r) \/ NothingToResume(r) \/ Choose(r)
  \/ ResumeRun(r) \/ ReopenTask(r) \/ Reserve(r) \/ CompareFails(r)
  \/ RereadLedger(r) \/ RereadGit(r) \/ Rebuild(r) \/ Finish(r)

Next ==
  \/ \E r \in Resumer : Call(r) \/ Step(r) \/ Crash(r)
  \/ \E e \in Requests : Worker(e)
  \/ \E s \in Source, d \in Digest : Edit(s, d)
  \/ \E reach \in SUBSET Commit : MoveHead(reach)

Spec == Init /\ [][Next]_vars

(* Resuming is asked for again and again.                                  *)
FairSpec == Spec /\ \A r \in Resumer : WF_vars(Call(r)) /\ WF_vars(Step(r))

-----------------------------------------------------------------------------
(* The idempotency key: whoever races with whom, crashes or plans on an    *)
(* old ledger, one attempt of a task is never given two dispatch ids.      *)
OneDispatchPerAttempt ==
  \A i, j \in issued : i.task = j.task /\ i.attempt = j.attempt => i = j

(* A reservation always carries the attempt its task is in; one that did   *)
(* not would make every later plan of the run fail.                        *)
NeverUnplannable == Valid(issued)

(* The id that a resumer is about to report is the reservation of exactly  *)
(* the task and the attempt it has selected.  The answer and the           *)
(* checkpoint keep that id, and it never is of a later attempt of the task *)
(* they name.  While only resumers are at work it is of that very task and *)
(* attempt: the plan rebuilt for the answer selects what was reserved,     *)
(* whichever other resumers come in between.  (After a worker's step it    *)
(* need not be: the rebuilt plan may select another task, or none.)        *)
Reserved(t, n, id) == \E i \in issued : i.task = t /\ i.attempt = n /\ i.id = id

DispatchIsDurable ==
  /\ \A r \in Resumer : At(r, "rebuild") => Reserved(rs[r].task, rs[r].attempt, rs[r].id)
  /\ \A r \in Resumer : rs[r].result = "ready" =>
       \E i \in issued :
         /\ i.id = rs[r].id
         /\ i.task = rs[r].task => i.attempt <= rs[r].attempt
         /\ foreign = 0 => i.task = rs[r].task /\ i.attempt = rs[r].attempt
  /\ ckpt.id # NoId =>
       \E i \in issued : i.id = ckpt.id /\ (foreign = 0 => i.task = ckpt.task)

(* A dispatch is reserved in an active run, for the first task in the      *)
(* order of registration that is not completed at that very moment.        *)
OrderedDispatch ==
  [][\A i \in issued' \ issued :
       /\ st.run = "active" /\ st.tasks[i.task].status # "completed"
       /\ \A n \in DOMAIN order : order[n] = i.task =>
            \A m \in 1 .. (n - 1) : st.tasks[order[m]].status = "completed"]_vars

(* Once the compare has succeeded the ledger never refuses the event: what *)
(* was planned on a log is admissible on the very same log.                *)
CompareIsEnough ==
  \A r \in Resumer :
    rs[r].pc \in {"resume", "reopen", "reserve"} /\ Compare(r) => Legal(st, Planned(r))

(* However many resumers compete, their retries suffice: a call gives up   *)
(* only if a worker or a person has interfered.                            *)
ContentionIsForeign ==
  foreign = 0 => \A r \in Resumer : rs[r].result # "contended"

Finished(t) ==
  LET ts == st.tasks[t] IN
  /\ ts.status = "completed" /\ ts.commit \in git.reach
  /\ \A b \in ts.binds : files[b.src] = b.dig
Due == {t \in Task : \E n \in DOMAIN order : /\ order[n] = t /\ ~Finished(t)
                                             /\ \A m \in 1 .. (n - 1) : Finished(order[m])}
Resumable == st.run \in {"active", "paused"} /\ git.clean /\ Due # {}

(* A run that stays resumable is resumed: it becomes active, and its first *)
(* unfinished task gets a dispatch id.                                     *)
ResumableIsDispatched ==
  <>[]Resumable => <>[](st.run = "active" /\ \A t \in Due : dispatch[t] # NoId)
=============================================================================
