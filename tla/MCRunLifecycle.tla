--------------------------- MODULE MCRunLifecycle ---------------------------
(***************************************************************************)
(* RunLifecycle for TLC: a task that declares a completion contract beside *)
(* one that declares none, and evidence of two different contents; and the *)
(* proofs that the promises of RunLifecycle hold for any tasks, files,     *)
(* contracts and requests, and that the log of a run proves completions    *)
(* whatever its length.                                                    *)
(***************************************************************************)
EXTENDS RunLifecycle

CONSTANTS t1, t2, record, d1, d2, c1, tests,
          MaxLast   \* bound: events of a run

Ran(kind) == Bare(kind, NoTask)
Seen(d) == {[src |-> record, dig |-> d]}

MCRequests ==
  {Ran(k) : k \in RunKind}
  \cup {[Bare("task.registered", t1) EXCEPT !.req = {tests}],
        Bare("task.registered", t2)}
  \cup {Bare(k, t) : k \in {"task.started", "task.reopened", "task.failed"}, t \in Task}
  \cup {[Bare("task.evidence", t1) EXCEPT !.binds = Seen(d), !.proof = p] :
          d \in Digest, p \in {{}, {tests}}}
  \cup {[Bare("task.completed", t) EXCEPT !.commit = c, !.binds = b] :
          t \in Task, c \in Commit \cup {NoCommit}, b \in {{}, Seen(d1), Seen(d2)}}

VARIABLE log   \* the events recorded so far

LogInit == Init /\ log = <<>>
LogNext == \E e \in Requests : Len(log) < MaxLast /\ Record(e) /\ log' = Append(log, e)
LogSpec == LogInit /\ [][LogNext]_<<st, log>>

(* Durable completion truth, read off the log as                           *)
(* _validate_required_completion_evidence reads it: for every contract a   *)
(* task declared, a completion repeats a binding of completion-ready       *)
(* evidence of the same attempt - after the task's last reopening.         *)
CompletionHasEvidence ==
  LET Of(t, kinds, n) == {m \in 1 .. n : log[m].task = t /\ log[m].kind \in kinds} IN
  \A n \in DOMAIN log : log[n].kind = "task.completed" =>
    LET t == log[n].task
        declared == UNION {log[m].req : m \in Of(t, {"task.registered"}, n)}
        evidence == {m \in Of(t, {"task.evidence"}, n) :
                       \A k \in Of(t, {"task.reopened"}, n) : k < m}
    IN  \A c \in declared : \E m \in evidence :
          c \in log[m].proof /\ log[m].binds \cap log[n].binds # {}
-----------------------------------------------------------------------------
(* The proofs.  TypeOK is inductive; the properties of a state are, given  *)
(* TypeOK: the first state satisfies them and every legal event keeps them.*)

(* The state of a run is always one the reducer can produce. *)
THEOREM Typing == Spec => []TypeOK
<1>1. Init => TypeOK
  BY NoTaskAssumption
     DEF Init, TypeOK, NewRun, Absent, State, TaskState, RunStatus, TaskStatus, Binding
<1>2. TypeOK /\ [Next]_st => TypeOK'
  BY RequestsAssumption, ApplyType DEF Wellformed, TypeOK, Next, Record
<1> QED
  BY <1>1, <1>2, PTL DEF Spec

(* run.completed is admitted only when every registered task is completed, *)
(* and nothing is admitted after it.                                       *)
THEOREM RunDone == Spec => []RunDoneMeansAllDone
<1>1. Init => RunDoneMeansAllDone
  BY DEF Init, NewRun, RunDoneMeansAllDone
<1>2. TypeOK /\ RunDoneMeansAllDone /\ [Next]_st => RunDoneMeansAllDone'
  <2> SUFFICES ASSUME TypeOK, RunDoneMeansAllDone, [Next]_st
               PROVE  RunDoneMeansAllDone'
    OBVIOUS
  <2>1. CASE UNCHANGED st
    BY <2>1 DEF RunDoneMeansAllDone
  <2>2. ASSUME NEW e \in Requests, Record(e) PROVE RunDoneMeansAllDone'
    <3>1. st.run # "completed" /\ st' = Apply(st, e) /\ Legal(st, e)
      BY <2>2 DEF Record, Legal, Ended, RunTerminal
    <3>2. CASE e.kind = "run.completed"
      BY <3>1, <3>2 DEF RunDoneMeansAllDone, Apply, Legal, AllDone, TypeOK, State, TaskKind
    <3>3. CASE e.kind # "run.completed"
      <4>1. e.kind \in RunKind \cup TaskKind
        BY RequestsAssumption DEF Wellformed, Event
      <4>2. st'.run # "completed"
        BY <3>1, <3>3, <4>1 DEF Apply, RunAfter, RunKind, TypeOK, State
      <4> QED
        BY <4>2 DEF RunDoneMeansAllDone
    <3> QED
      BY <3>2, <3>3
  <2> QED
    BY <2>1, <2>2 DEF Next
<1> QED
  BY <1>1, <1>2, Typing, PTL DEF Spec

(* Completion is admitted only with evidence of the current attempt for    *)
(* every declared contract; no event after it takes any of that away.      *)
THEOREM CompletionEvidenced == Spec => []CompletionIsEvidenced
<1>1. Init => CompletionIsEvidenced
  BY DEF Init, NewRun, Absent, CompletionIsEvidenced
<1>2. TypeOK /\ CompletionIsEvidenced /\ [Next]_st => CompletionIsEvidenced'
  <2> SUFFICES ASSUME TypeOK, CompletionIsEvidenced, [Next]_st
               PROVE  CompletionIsEvidenced'
    OBVIOUS
  <2>1. CASE UNCHANGED st
    BY <2>1 DEF CompletionIsEvidenced
  <2>2. ASSUME NEW e \in Requests, Record(e),
               NEW t \in Task, st'.tasks[t].status = "completed"
        PROVE  /\ st'.tasks[t].commit # NoCommit
               /\ st'.tasks[t].binds # {}
               /\ Evidenced(st'.tasks[t], st'.tasks[t].binds)
    <3>1. /\ e \in Event /\ st' = Apply(st, e) /\ Legal(st, e)
          /\ st.tasks[t] \in TaskState
      BY <2>2, RequestsAssumption DEF Wellformed, Record, TypeOK, State
    <3>2. CASE e.kind \in TaskKind /\ e.task = t
      <4>1. st'.tasks[t] = TaskAfter(st.tasks[t], e) /\ TaskLegal(st.tasks[t], e)
        BY <3>1, <3>2, ApplyTask DEF TypeOK, Legal
      <4>2. e.kind = "task.completed"
        BY <2>2, <3>1, <3>2, <4>1
           DEF TaskAfter, Reopened, TaskLegal, StatusBefore, TaskState, TaskKind, TaskTerminal, Absent
      <4> QED
        BY <3>1, <4>1, <4>2 DEF TaskAfter, Reopened, TaskLegal, CompletionLegal, TaskState, Evidenced
    <3>3. CASE ~(e.kind \in TaskKind /\ e.task = t)
      <4>1. st'.tasks[t] = st.tasks[t]
        BY <3>1, <3>3, ApplyTask DEF TypeOK
      <4> QED
        BY <2>2, <4>1 DEF CompletionIsEvidenced
    <3> QED
      BY <3>2, <3>3
  <2> QED
    BY <2>1, <2>2 DEF Next, CompletionIsEvidenced
<1> QED
  BY <1>1, <1>2, Typing, PTL DEF Spec

(* Only task.reopened names a terminal task, and nothing a terminal run.   *)
THEOREM TerminalFinal == Spec => TerminalIsFinal
<1> DEFINE Kept == /\ st.run \in RunTerminal => st' = st
                   /\ \A t \in Task : st.tasks[t].status \in TaskTerminal =>
                        st'.tasks[t] = st.tasks[t] \/ st'.tasks[t].status = "registered"
<1>1. TypeOK /\ [Next]_st => [Kept]_st
  <2> SUFFICES ASSUME TypeOK, NEW e \in Requests, Record(e) PROVE Kept
    BY DEF Next
  <2>1. e \in Event /\ st' = Apply(st, e) /\ Legal(st, e)
    BY RequestsAssumption DEF Wellformed, Record
  <2>2. st.run \notin RunTerminal
    BY <2>1 DEF Legal, Ended
  <2>3. ASSUME NEW t \in Task, st.tasks[t].status \in TaskTerminal
        PROVE  st'.tasks[t] = st.tasks[t] \/ st'.tasks[t].status = "registered"
    <3>1. st.tasks[t] \in TaskState
      BY DEF TypeOK, State
    <3>2. CASE e.kind \in TaskKind /\ e.task = t
      <4>1. st'.tasks[t] = TaskAfter(st.tasks[t], e) /\ TaskLegal(st.tasks[t], e)
        BY <2>1, <3>2, ApplyTask DEF TypeOK, Legal
      <4>2. e.kind = "task.reopened"
        BY <2>3, <3>2, <4>1 DEF TaskLegal, StatusBefore, TaskTerminal, TaskKind
      <4> QED
        BY <3>1, <4>1, <4>2 DEF TaskAfter, Reopened, Absent
    <3>3. CASE ~(e.kind \in TaskKind /\ e.task = t)
      BY <2>1, <3>3, ApplyTask DEF TypeOK
    <3> QED
      BY <3>2, <3>3
  <2> QED
    BY <2>2, <2>3
<1> QED
  BY <1>1, Typing, PTL DEF Spec, TerminalIsFinal

-----------------------------------------------------------------------------
(***************************************************************************)
(* What the reducer remembers of a task is what the log says of it: the    *)
(* contracts of its one registration, and, as ready, only what was         *)
(* recorded after its last reopening.  A completion is admitted on what    *)
(* the reducer remembers, so the log itself proves it.                     *)
(***************************************************************************)
Of(lg, t, kinds, n) == {m \in 1 .. n : lg[m].task = t /\ lg[m].kind \in kinds}

Recorded(lg, t, c, b) ==
  \E m \in Of(lg, t, {"task.evidence"}, Len(lg)) :
    /\ c \in lg[m].proof /\ b \in lg[m].binds
    /\ \A k \in Of(lg, t, {"task.reopened"}, Len(lg)) : k < m

Remembers(lg, ts, t) ==
  /\ \A m \in Of(lg, t, {"task.registered"}, Len(lg)) : lg[m].req \subseteq ts.req
  /\ ts.status = "absent" => Of(lg, t, TaskKind, Len(lg)) = {}
  /\ \A cb \in ts.ready : Recorded(lg, t, cb[1], cb[2])

ProvedAt(lg, n) ==
  lg[n].kind = "task.completed" =>
    \A k \in Of(lg, lg[n].task, {"task.registered"}, n) : \A c \in lg[k].req :
      \E m \in Of(lg, lg[n].task, {"task.evidence"}, n) :
        /\ \A j \in Of(lg, lg[n].task, {"task.reopened"}, n) : j < m
        /\ c \in lg[m].proof /\ lg[m].binds \cap lg[n].binds # {}

Proved(lg) == \A n \in DOMAIN lg : ProvedAt(lg, n)

LogInv ==
  /\ TypeOK /\ log \in Seq(Event)
  /\ \A t \in Task : Remembers(log, st.tasks[t], t)
  /\ Proved(log)

(* A log that grows by one event keeps its lines. *)
LEMMA LogGrows ==
  ASSUME NEW lg \in Seq(Event), NEW e \in Event
  PROVE  LET more == Append(lg, e) IN
         /\ more \in Seq(Event) /\ Len(lg) \in Nat /\ Len(more) = Len(lg) + 1
         /\ DOMAIN lg = 1 .. Len(lg) /\ DOMAIN more = 1 .. (Len(lg) + 1)
         /\ \A m \in 1 .. Len(lg) : more[m] = lg[m] /\ lg[m] \in Event
         /\ more[Len(lg) + 1] = e
OBVIOUS

(* The places of an event stay what they are, and the new line is the only *)
(* one that can be added.                                                  *)
LEMMA PlacesGrow ==
  ASSUME NEW lg \in Seq(Event), NEW e \in Event, NEW t, NEW kinds
  PROVE  LET more == Append(lg, e) IN
         /\ \A n \in 0 .. Len(lg) : Of(more, t, kinds, n) = Of(lg, t, kinds, n)
         /\ e.task = t /\ e.kind \in kinds =>
              Of(more, t, kinds, Len(more)) = Of(lg, t, kinds, Len(lg)) \cup {Len(lg) + 1}
         /\ ~(e.task = t /\ e.kind \in kinds) =>
              Of(more, t, kinds, Len(more)) = Of(lg, t, kinds, Len(lg))
BY LogGrows DEF Of

(* An event about something else leaves what is remembered of a task. *)
LEMMA RemembersOther ==
  ASSUME NEW lg \in Seq(Event), NEW e \in Event, NEW ts, NEW t,
         Remembers(lg, ts, t), e.task # t
  PROVE  Remembers(Append(lg, e), ts, t)
<1> DEFINE more == Append(lg, e)
<1>1. ASSUME NEW kinds
      PROVE  /\ Of(more, t, kinds, Len(more)) = Of(lg, t, kinds, Len(lg))
             /\ \A m \in Of(lg, t, kinds, Len(lg)) : more[m] = lg[m]
  <2>1. e.task # t /\ \A m \in 1 .. Len(lg) : more[m] = lg[m]
    BY LogGrows
  <2>2. Of(more, t, kinds, Len(more)) = Of(lg, t, kinds, Len(lg))
    BY <2>1, PlacesGrow
  <2>3. \A m \in Of(lg, t, kinds, Len(lg)) : more[m] = lg[m]
    BY <2>1 DEF Of
  <2> QED
    BY <2>2, <2>3
<1> HIDE DEF more
<1>2. ASSUME NEW c, NEW b, Recorded(lg, t, c, b) PROVE Recorded(more, t, c, b)
  <2>1. PICK m \in Of(lg, t, {"task.evidence"}, Len(lg)) :
          /\ c \in lg[m].proof /\ b \in lg[m].binds
          /\ \A k \in Of(lg, t, {"task.reopened"}, Len(lg)) : k < m
    BY <1>2 DEF Recorded
  <2> QED
    BY <1>1, <2>1 DEF Recorded
<1>3. Remembers(more, ts, t)
  BY <1>1, <1>2 DEF Remembers
<1> QED
  BY <1>3 DEF more

(* An event about the task changes what is remembered as the log does. *)
LEMMA RemembersOwn ==
  ASSUME NEW lg \in Seq(Event), NEW e \in Event, NEW ts \in TaskState, NEW t,
         Remembers(lg, ts, t), e.task = t, e.kind \in TaskKind, TaskLegal(ts, e)
  PROVE  Remembers(Append(lg, e), TaskAfter(ts, e), t)
<1> DEFINE more == Append(lg, e)
           N == Len(lg)
<1>1. ASSUME NEW kinds
      PROVE  /\ e.kind \in kinds =>
                  Of(more, t, kinds, Len(more)) = Of(lg, t, kinds, N) \cup {N + 1}
             /\ e.kind \notin kinds => Of(more, t, kinds, Len(more)) = Of(lg, t, kinds, N)
             /\ \A m \in Of(lg, t, kinds, N) : more[m] = lg[m] /\ m < N + 1
  BY PlacesGrow, LogGrows DEF Of
<1>2. more[N + 1] = e /\ N \in Nat
  BY LogGrows
<1> HIDE DEF more, N
<1>3. TaskAfter(ts, e).status # "absent"
  BY DEF TaskLegal, StatusBefore, TaskAfter, Reopened, Absent, TaskState, TaskKind, TaskTerminal
<1>4. ASSUME NEW m \in Of(more, t, {"task.registered"}, Len(more))
      PROVE  more[m].req \subseteq TaskAfter(ts, e).req
  <2>1. CASE e.kind = "task.registered"
    <3>1. ts.status = "absent"
      BY <2>1 DEF TaskLegal, StatusBefore
    <3>2. Of(lg, t, {"task.registered"}, N) = {}
      BY <3>1 DEF Remembers, Of, TaskKind, N
    <3>3. m = N + 1
      BY <1>1, <1>4, <2>1, <3>2
    <3> QED
      BY <1>2, <2>1, <3>3 DEF TaskAfter, Absent
  <2>2. CASE e.kind # "task.registered"
    <3>1. m \in Of(lg, t, {"task.registered"}, N)
      BY <1>1, <1>4, <2>2
    <3>2. TaskAfter(ts, e).req = ts.req
      BY <2>2 DEF TaskAfter, Reopened, Absent, TaskState
    <3> QED
      BY <1>1, <3>1, <3>2 DEF Remembers, N
  <2> QED
    BY <2>1, <2>2
<1>5. ASSUME NEW cb \in TaskAfter(ts, e).ready PROVE Recorded(more, t, cb[1], cb[2])
  <2>1. CASE e.kind \in {"task.registered", "task.reopened"}
    BY <1>5, <2>1 DEF TaskAfter, Reopened, Absent
  <2>2. CASE e.kind \notin {"task.registered", "task.reopened"}
    <3>1. Of(more, t, {"task.reopened"}, Len(more)) = Of(lg, t, {"task.reopened"}, N)
      BY <1>1, <2>2
    <3>2. CASE cb \in ts.ready
      <4>1. PICK m \in Of(lg, t, {"task.evidence"}, N) :
              /\ cb[1] \in lg[m].proof /\ cb[2] \in lg[m].binds
              /\ \A k \in Of(lg, t, {"task.reopened"}, N) : k < m
        BY <3>2 DEF Remembers, Recorded, N
      <4>2. m \in Of(more, t, {"task.evidence"}, Len(more)) /\ more[m] = lg[m]
        BY <1>1, <4>1
      <4> QED
        BY <3>1, <4>1, <4>2 DEF Recorded
    <3>3. CASE cb \notin ts.ready
      <4>1. e.kind = "task.evidence" /\ cb \in ((e.proof \cap ts.req) \X e.binds)
        BY <1>5, <2>2, <3>3 DEF TaskAfter, TaskState
      <4>2. cb[1] \in e.proof /\ cb[2] \in e.binds
        BY <4>1
      <4>3. N + 1 \in Of(more, t, {"task.evidence"}, Len(more))
        BY <1>1, <4>1
      <4>4. \A k \in Of(lg, t, {"task.reopened"}, N) : k < N + 1
        BY <1>1
      <4> QED
        BY <1>2, <3>1, <4>2, <4>3, <4>4 DEF Recorded
    <3> QED
      BY <3>2, <3>3
  <2> QED
    BY <2>1, <2>2
<1>6. Remembers(more, TaskAfter(ts, e), t)
  BY <1>3, <1>4, <1>5 DEF Remembers
<1> QED
  BY <1>6 DEF more

(* A completion is admitted on what the reducer remembers, and what the    *)
(* log said of earlier completions it says of them still.                  *)
LEMMA CompletionsProved ==
  ASSUME NEW lg \in Seq(Event), NEW e \in Event, NEW ts, Proved(lg),
         e.kind = "task.completed" => Remembers(lg, ts, e.task) /\ TaskLegal(ts, e)
  PROVE  Proved(Append(lg, e))
<1> DEFINE more == Append(lg, e)
           N == Len(lg)
<1>1. /\ N \in Nat /\ DOMAIN more = 1 .. (N + 1) /\ DOMAIN lg = 1 .. N /\ Len(more) = N + 1
      /\ \A m \in 1 .. N : more[m] = lg[m]
      /\ more[N + 1] = e
  BY LogGrows
<1>2. ASSUME NEW t, NEW kinds, NEW n \in 0 .. N
      PROVE  /\ Of(more, t, kinds, n) = Of(lg, t, kinds, n)
             /\ \A m \in Of(lg, t, kinds, n) : more[m] = lg[m]
  BY <1>1, PlacesGrow DEF Of
<1>3. ASSUME NEW t, NEW kinds, e.kind \notin kinds
      PROVE  Of(more, t, kinds, N + 1) = Of(lg, t, kinds, N)
  BY <1>1, <1>3, PlacesGrow
<1> HIDE DEF more, N
<1>4. ASSUME NEW n \in 1 .. N PROVE ProvedAt(more, n)
  <2>1. ProvedAt(lg, n) /\ more[n] = lg[n] /\ n \in 0 .. N
    BY <1>1 DEF Proved
  <2> QED
    BY <1>2, <2>1 DEF ProvedAt
<1>5. ASSUME e.kind = "task.completed" PROVE ProvedAt(more, N + 1)
  <2>1. Evidenced(ts, e.binds) /\ Remembers(lg, ts, e.task)
    BY <1>5 DEF TaskLegal, CompletionLegal
  <2>2. ASSUME NEW k \in Of(more, e.task, {"task.registered"}, N + 1), NEW c \in more[k].req
        PROVE  \E m \in Of(more, e.task, {"task.evidence"}, N + 1) :
                 /\ \A j \in Of(more, e.task, {"task.reopened"}, N + 1) : j < m
                 /\ c \in more[m].proof /\ more[m].binds \cap e.binds # {}
    <3>1. k \in Of(lg, e.task, {"task.registered"}, N) /\ N \in 0 .. N
      BY <1>1, <1>3, <1>5, <2>2
    <3>2. c \in ts.req
      BY <1>2, <2>1, <2>2, <3>1 DEF Remembers, N
    <3>3. PICK b \in e.binds : <<c, b>> \in ts.ready
      BY <2>1, <3>2 DEF Evidenced
    <3>4. PICK m \in Of(lg, e.task, {"task.evidence"}, N) :
            /\ c \in lg[m].proof /\ b \in lg[m].binds
            /\ \A j \in Of(lg, e.task, {"task.reopened"}, N) : j < m
      BY <2>1, <3>3 DEF Remembers, Recorded, N
    <3>5. more[m] = lg[m]
      BY <1>2, <3>1, <3>4
    <3> QED
      BY <1>3, <1>5, <3>3, <3>4, <3>5
  <2> QED
    BY <1>1, <2>2 DEF ProvedAt
<1>6. e.kind # "task.completed" => ProvedAt(more, N + 1)
  BY <1>1 DEF ProvedAt
<1>7. Proved(more)
  BY <1>1, <1>4, <1>5, <1>6 DEF Proved
<1> QED
  BY <1>7 DEF more

(* The property a run checks is what Proved says. *)
LEMMA ProvedIsEvidenced == Proved(log) => CompletionHasEvidence
<1>1. ASSUME NEW n \in DOMAIN log, log[n].kind = "task.completed", ProvedAt(log, n),
             NEW c \in UNION {log[m].req : m \in Of(log, log[n].task, {"task.registered"}, n)}
      PROVE  \E m \in {i \in Of(log, log[n].task, {"task.evidence"}, n) :
                         \A k \in Of(log, log[n].task, {"task.reopened"}, n) : k < i} :
               c \in log[m].proof /\ log[m].binds \cap log[n].binds # {}
  BY <1>1 DEF ProvedAt
<1> QED
  BY <1>1 DEF Proved, CompletionHasEvidence, Of

(* Read off the log itself: no completion was ever recorded without        *)
(* evidence of the same attempt for every contract its task declared.      *)
THEOREM LogProvesCompletions == LogSpec => []CompletionHasEvidence
<1>1. LogInit => LogInv
  <2> SUFFICES ASSUME LogInit PROVE LogInv
    OBVIOUS
  <2>1. TypeOK
    BY NoTaskAssumption
       DEF LogInit, Init, TypeOK, NewRun, Absent, State, TaskState, RunStatus, TaskStatus, Binding
  <2>2. log = <<>> /\ st = NewRun
    BY DEF LogInit, Init
  <2>3. \A t \in Task : Remembers(log, st.tasks[t], t)
    BY <2>2 DEF Remembers, Of, NewRun, Absent
  <2> QED
    BY <2>1, <2>2, <2>3 DEF LogInv, Proved
<1>2. LogInv /\ [LogNext]_<<st, log>> => LogInv'
  <2> SUFFICES ASSUME LogInv, [LogNext]_<<st, log>> PROVE LogInv'
    OBVIOUS
  <2>1. CASE UNCHANGED <<st, log>>
    BY <2>1 DEF LogInv, TypeOK
  <2>2. ASSUME NEW e \in Requests, Record(e), log' = Append(log, e) PROVE LogInv'
    <3>1. /\ e \in Event /\ Legal(st, e) /\ st' = Apply(st, e) /\ log \in Seq(Event)
          /\ TypeOK /\ st \in State
      BY <2>2, RequestsAssumption DEF Wellformed, Record, LogInv, TypeOK
    <3>2. TypeOK' /\ log' \in Seq(Event)
      BY <2>2, <3>1, ApplyType, LogGrows DEF TypeOK
    <3>3. ASSUME NEW t \in Task PROVE Remembers(Append(log, e), Apply(st, e).tasks[t], t)
      <4>1. Remembers(log, st.tasks[t], t) /\ st.tasks[t] \in TaskState
        BY <3>1 DEF LogInv, State
      <4>2. CASE e.kind \in TaskKind /\ e.task = t
        BY <3>1, <4>1, <4>2, ApplyTask, RemembersOwn DEF Legal
      <4>3. CASE ~(e.kind \in TaskKind /\ e.task = t)
        <5>1. e.task # t
          BY <3>1, <4>3, NoTaskAssumption DEF Event
        <5> QED
          BY <3>1, <4>1, <4>3, <5>1, ApplyTask, RemembersOther
      <4> QED
        BY <4>2, <4>3
    <3>4. Proved(Append(log, e))
      <4>1. e.kind = "task.completed" =>
              Remembers(log, st.tasks[e.task], e.task) /\ TaskLegal(st.tasks[e.task], e)
        BY <3>1 DEF Legal, LogInv, TaskKind, Event, RunKind
      <4> QED
        BY <3>1, <4>1, CompletionsProved DEF LogInv
    <3> QED
      BY <2>2, <3>1, <3>2, <3>3, <3>4 DEF LogInv
  <2> QED
    BY <2>1, <2>2 DEF LogNext
<1>3. LogInv => CompletionHasEvidence
  BY ProvedIsEvidenced DEF LogInv
<1> QED
  BY <1>1, <1>2, <1>3, PTL DEF LogSpec
=============================================================================
