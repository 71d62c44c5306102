------------------------ MODULE ExecutionLedgerProofs ------------------------
(***************************************************************************)
(* The ledger file, for any number of processes, tasks and lines.          *)
(*                                                                         *)
(* IInv is the strengthening: the OS lock is held exactly by the process   *)
(* that is between read and write (Exclusive), so what a process decided   *)
(* on is still so when it writes (Decided), so the file stays a chained    *)
(* and legal history whose fold exists (Sound).                            *)
(***************************************************************************)
EXTENDS ExecutionLedger

Decided ==
  \A p \in Proc : pc[p] = "write" =>
    /\ ~torn /\ head[p] = Len(log)
    /\ job[p].op = "append" => job[p].after \in {Any, Len(log)} /\ Legal(St, job[p].ev)

Sound ==
  /\ Folds(Events) /\ St \in State /\ AllLegal(Events)
  /\ \A n \in DOMAIN log : log[n].seq = n
  /\ CasHonest /\ CheckpointIsPrefix

IInv == TypeOK /\ Exclusive /\ Decided /\ Sound

(* The event sequence of the file has one event for each line. *)
LEMMA EventsAreLines ==
  ASSUME TypeOK
  PROVE  /\ Events \in Seq(Requests) /\ Len(Events) = Len(log)
         /\ DOMAIN log = 1 .. Len(log) /\ Len(log) \in Nat
         /\ \A n \in 1 .. Len(log) : Events[n] = log[n].ev
<1>1. log \in Seq(Line) /\ DOMAIN log = 1 .. Len(log) /\ Len(log) \in Nat
  BY DEF TypeOK
<1>2. \A n \in 1 .. Len(log) : log[n].ev \in Requests
  <2>1. \A n \in 1 .. Len(log) : log[n] \in Line
    BY <1>1
  <2> QED
    BY <2>1 DEF Line
<1>3. Events = [n \in 1 .. Len(log) |-> log[n].ev]
  BY <1>1 DEF Events
<1>4. Events \in Seq(Requests) /\ Len(Events) = Len(log)
  BY <1>1, <1>2, <1>3
<1> QED
  BY <1>1, <1>3, <1>4

(* Steps that leave the log alone keep the fold, and what it says.         *)
LEMMA SoundKept ==
  ASSUME Sound, UNCHANGED <<log, ckpt>>
  PROVE  Sound' /\ St' = St
BY DEF Sound, CasHonest, CheckpointIsPrefix, St, Events

(* The initial state satisfies the invariant. *)
LEMMA InitIInv == ASSUME Init PROVE IInv
<1>1. TypeOK
  <2>1. NoJob \in Job
    BY DEF NoJob, Job
  <2>2. log \in Seq(Line)
    BY DEF Init
  <2> QED
    BY <2>1, <2>2 DEF Init, TypeOK
<1>2. Exclusive /\ Decided
  BY NoProcAssumption DEF Init, Exclusive, Decided
<1>3. Events = <<>>
  BY DEF Init, Events
<1>4. Folds(Events) /\ St = NewRun /\ NewRun \in State
  BY <1>3, EmptyFolds, NoTaskAssumption
     DEF St, NewRun, Absent, State, TaskState, RunStatus, TaskStatus, Binding
<1>5. Sound
  BY <1>3, <1>4 DEF Init, Sound, AllLegal, CasHonest, CheckpointIsPrefix
<1> QED
  BY <1>1, <1>2, <1>5 DEF IInv

(* One append by the process that holds the lock: the file stays sound and *)
(* its state moves by the reducer's step.                                  *)
LEMMA AppendIsSound ==
  ASSUME IInv, NEW p \in Proc, pc[p] = "write", job[p].op = "append",
         log' = Append(log, NewLine(p)), UNCHANGED ckpt
  PROVE  /\ log' \in Seq(Line) /\ Len(log') = Len(log) + 1
         /\ Sound'
         /\ St' = Apply(St, job[p].ev) /\ Legal(St, job[p].ev)
<1> DEFINE e == job[p].ev
<1>1. /\ e \in Requests /\ e \in Event
      /\ job[p].after \in {Any, Len(log)} /\ head[p] = Len(log) /\ Legal(St, e)
  BY RequestsAssumption DEF Wellformed, IInv, TypeOK, Decided, Job
<1>2. /\ Events \in Seq(Requests) /\ Len(Events) = Len(log)
      /\ DOMAIN log = 1 .. Len(log) /\ Len(log) \in Nat
      /\ \A n \in 1 .. Len(log) : Events[n] = log[n].ev
  BY EventsAreLines DEF IInv
<1>3. NewLine(p) \in Line /\ NewLine(p).seq = Len(log) + 1 /\ NewLine(p).ev = e
      /\ NewLine(p).after \in {Any, Len(log)}
  BY <1>1, <1>2 DEF NewLine, Line
<1>4. /\ log' \in Seq(Line) /\ Len(log') = Len(log) + 1
      /\ DOMAIN log' = 1 .. Len(log) + 1
      /\ \A n \in 1 .. Len(log) : log'[n] = log[n]
      /\ log'[Len(log) + 1] = NewLine(p)
  BY <1>3 DEF IInv, TypeOK
<1>5. Events' = Append(Events, e)
  BY <1>2, <1>3, <1>4 DEF Events
<1>6. /\ Folds(Events')
      /\ \A n \in 0 .. Len(log) : History(Events')[n] = History(Events)[n]
      /\ Reconstruct(Events') = Apply(St, e)
  BY <1>1, <1>2, <1>5, AppendFolds DEF IInv, Sound, St
<1>7. St' = Apply(St, e) /\ St' \in State
  BY <1>1, <1>6, ApplyType DEF IInv, Sound, St
<1>8. AllLegal(Events')
  <2>1. ASSUME NEW n \in 1 .. Len(log) + 1
        PROVE  Legal(History(Events')[n - 1], Events'[n])
    <3>1. CASE n \in 1 .. Len(log)
      <4>1. Legal(History(Events)[n - 1], Events[n])
        BY <3>1, <1>2 DEF IInv, Sound, AllLegal
      <4>2. Events'[n] = Events[n] /\ History(Events')[n - 1] = History(Events)[n - 1]
        BY <3>1, <1>2, <1>5, <1>6
      <4> QED
        BY <4>1, <4>2
    <3>2. CASE n = Len(log) + 1
      <4>1. Events'[n] = e /\ History(Events')[n - 1] = St
        BY <3>2, <1>2, <1>5, <1>6 DEF St, Reconstruct
      <4> QED
        BY <4>1, <1>1
    <3> QED
      BY <3>1, <3>2, <1>2
  <2> QED
    BY <2>1, <1>2, <1>5 DEF AllLegal
<1>9. (\A n \in DOMAIN log : log[n].seq = n)' /\ CasHonest'
  BY <1>2, <1>3, <1>4 DEF IInv, Sound, CasHonest
<1>10. CheckpointIsPrefix'
  <2> SUFFICES ASSUME ckpt # NoCkpt
               PROVE  /\ ckpt.last \in DOMAIN History(Events')
                      /\ ckpt.st = History(Events')[ckpt.last]
    BY DEF CheckpointIsPrefix
  <2>1. /\ DOMAIN History(Events) = 0 .. Len(log)
        /\ DOMAIN History(Events') = 0 .. Len(log) + 1
    BY <1>2, <1>5, <1>6 DEF IInv, Sound, Folds, Unfolds
  <2> QED
    BY <2>1, <1>2, <1>6 DEF IInv, Sound, CheckpointIsPrefix
<1> QED
  BY <1>1, <1>4, <1>6, <1>7, <1>8, <1>9, <1>10 DEF Sound

(* A checkpoint is written from the log as it is. *)
LEMMA CheckpointIsSound ==
  ASSUME IInv, NEW p \in Proc, pc[p] = "write", UNCHANGED log,
         ckpt' = [last |-> head[p], st |-> St]
  PROVE  Sound' /\ St' = St /\ ckpt' \in [last : Nat, st : State]
<1>1. head[p] = Len(log) /\ Len(log) \in Nat /\ Len(Events) = Len(log)
  BY EventsAreLines DEF IInv, Decided
<1>2. Events' = Events /\ St' = St
  BY DEF Events, St
<1>3. CheckpointIsPrefix'
  <2>1. DOMAIN History(Events) = 0 .. Len(log)
    BY <1>1 DEF IInv, Sound, Folds, Unfolds
  <2> QED
    BY <2>1, <1>1, <1>2 DEF CheckpointIsPrefix, St, Reconstruct
<1> QED
  BY <1>1, <1>2, <1>3 DEF IInv, Sound, CasHonest

(* Every step keeps the invariant. *)
LEMMA StepIInv == ASSUME IInv, [Next]_vars PROVE IInv'
<1> USE NoProcAssumption DEF IInv
<1>1. ASSUME NEW p \in Proc, CreateRun(p) PROVE IInv'
  <2>1. Sound' /\ St' = St
    BY <1>1, SoundKept DEF CreateRun
  <2> QED
    BY <1>1, <2>1 DEF CreateRun, TypeOK, Exclusive, Decided
<1>2. ASSUME NEW p \in Proc, WriteManifest(p) PROVE IInv'
  <2>1. Sound' /\ St' = St
    BY <1>2, SoundKept DEF WriteManifest
  <2> QED
    BY <1>2, <2>1 DEF WriteManifest, TypeOK, Exclusive, Decided
<1>3. ASSUME NEW p \in Proc, Busy(p) PROVE IInv'
  <2>1. Sound' /\ St' = St
    BY <1>3, SoundKept DEF Busy, disk
  <2> QED
    BY <1>3, <2>1 DEF Busy, disk, TypeOK, Exclusive, Decided
<1>4. ASSUME NEW p \in Proc, NEW j \in Jobs(p), Acquire(p, j) PROVE IInv'
  <2>1. Sound' /\ St' = St
    BY <1>4, SoundKept DEF Acquire, disk
  <2>2. j \in Job
    BY DEF Jobs, Job, TypeOK
  <2> QED
    BY <1>4, <2>1, <2>2 DEF Acquire, LockFree, disk, TypeOK, Exclusive, Decided
<1>5. ASSUME NEW p \in Proc, ReadToWrite(p) PROVE IInv'
  <2>1. Sound' /\ St' = St
    BY <1>5, SoundKept DEF ReadToWrite, disk
  <2>2. Len(log) \in Nat
    BY EventsAreLines
  <2>3. TypeOK' /\ Exclusive'
    BY <1>5, <2>2 DEF ReadToWrite, disk, TypeOK, Exclusive
  <2>4. Decided'
    <3>1. ~torn /\ (job[p].op = "append" =>
                      job[p].after \in {Any, Len(log)} /\ Legal(St, job[p].ev))
      BY <1>5 DEF ReadToWrite, CanWrite, CanAppend, Readable
    <3> QED
      BY <1>5, <2>1, <3>1 DEF ReadToWrite, disk, TypeOK, Decided
  <2> QED
    BY <2>1, <2>3, <2>4
<1>6. ASSUME NEW p \in Proc, ReadToReturn(p) PROVE IInv'
  <2>1. Sound' /\ St' = St
    BY <1>6, SoundKept DEF ReadToReturn, disk
  <2>2. Len(log) \in Nat
    BY EventsAreLines
  <2> QED
    BY <1>6, <2>1, <2>2
       DEF ReadToReturn, Return, NoJob, Job, disk, TypeOK, Exclusive, Decided
<1>7. ASSUME NEW p \in Proc, Refuse(p) PROVE IInv'
  <2>1. Sound' /\ St' = St
    BY <1>7, SoundKept DEF Refuse, disk
  <2> QED
    BY <1>7, <2>1 DEF Refuse, Return, NoJob, Job, disk, TypeOK, Exclusive, Decided
<1>8. ASSUME NEW p \in Proc, Write(p) PROVE IInv'
  <2>1. /\ Exclusive'
        /\ \A q \in Proc : pc'[q] # "write"
    BY <1>8 DEF Write, Return, TypeOK, Exclusive
  <2>2. Decided'
    BY <2>1 DEF Decided
  <2>3. CASE /\ job[p].op = "append" /\ log' = Append(log, NewLine(p))
             /\ head' = [head EXCEPT ![p] = @ + 1]
             /\ UNCHANGED <<ckpt, files>>
    <3>1. log' \in Seq(Line) /\ Sound'
      BY <1>8, <2>3, AppendIsSound DEF Write
    <3> QED
      BY <1>8, <2>1, <2>2, <2>3, <3>1 DEF Write, Return, NoJob, Job, TypeOK
  <2>4. CASE /\ job[p].op = "record"
             /\ files' = [files EXCEPT ![RecordOf[job[p].task]] = job[p].dig]
             /\ UNCHANGED <<log, ckpt, head>>
    <3>1. Sound'
      BY <2>4, SoundKept
    <3>2. job[p].dig \in Digest
      BY <2>4 DEF TypeOK, Job
    <3> QED
      BY <1>8, <2>1, <2>2, <2>4, <3>1, <3>2 DEF Write, Return, NoJob, Job, TypeOK
  <2>5. CASE /\ job[p].op = "checkpoint"
             /\ ckpt' = [last |-> head[p], st |-> St]
             /\ UNCHANGED <<log, files, head>>
    <3>1. Sound' /\ ckpt' \in [last : Nat, st : State]
      BY <1>8, <2>5, CheckpointIsSound DEF Write
    <3> QED
      BY <1>8, <2>1, <2>2, <2>5, <3>1 DEF Write, Return, NoJob, Job, TypeOK
  <2> QED
    BY <1>8, <2>3, <2>4, <2>5 DEF Write, NewCheckpoint
<1>9. ASSUME NEW p \in Proc, Crash(p) PROVE IInv'
  <2>1. Sound' /\ St' = St
    BY <1>9, SoundKept DEF Crash
  <2>2. TypeOK' /\ Exclusive'
    BY <1>9 DEF Crash, LockAfter, NoJob, Job, TypeOK, Exclusive
  <2>3. torn' = torn \/ \A q \in Proc : pc'[q] # "write"
    BY <1>9 DEF Crash, LockAfter, TypeOK, Exclusive
  <2>4. Decided'
    BY <1>9, <2>1, <2>3 DEF Crash, LockAfter, TypeOK, Decided
  <2> QED
    BY <2>1, <2>2, <2>4
<1>10. ASSUME NEW s \in Source, NEW d \in Digest \cup {Missing}, EditFile(s, d)
       PROVE  IInv'
  <2>1. Sound' /\ St' = St
    BY <1>10, SoundKept DEF EditFile
  <2> QED
    BY <1>10, <2>1 DEF EditFile, TypeOK, Exclusive, Decided
<1>11. CASE UNCHANGED vars
  <2>1. Sound' /\ St' = St
    BY <1>11, SoundKept DEF vars
  <2> QED
    BY <1>11, <2>1 DEF vars, TypeOK, Exclusive, Decided
<1> QED
  BY <1>1, <1>2, <1>3, <1>4, <1>5, <1>6, <1>7, <1>8, <1>9, <1>10, <1>11 DEF Next, Step

(* The invariant holds throughout, whatever the interleaving and the crashes. *)
THEOREM Invariance == Spec => []IInv
BY InitIInv, StepIInv, PTL DEF Spec

(* Type correctness of every variable. *)
THEOREM Typing == Spec => []TypeOK
<1>1. IInv => TypeOK
  BY DEF IInv
<1> QED
  BY <1>1, Invariance, PTL

(* One call at a time; the lock never outlives the call or its process.    *)
THEOREM LockIsCalls == Spec => []Exclusive
<1>1. IInv => Exclusive
  BY DEF IInv
<1> QED
  BY <1>1, Invariance, PTL

(* A file whose last record is whole can be read back by any process: the  *)
(* chain is unbroken and the reducer admits every line where it stands.    *)
THEOREM ReadersReadOn == Spec => []OnlyTornIsUnreadable
<1>1. IInv => OnlyTornIsUnreadable
  BY DEF IInv, Sound, OnlyTornIsUnreadable, Readable
<1> QED
  BY <1>1, Invariance, PTL

(* A line appended with an expected head stands right after that head. *)
THEOREM CompareAndAppend == Spec => []CasHonest
<1>1. IInv => CasHonest
  BY DEF IInv, Sound
<1> QED
  BY <1>1, Invariance, PTL

(* checkpoint.json always holds the state after some prefix of the file. *)
THEOREM CheckpointsAreHistory == Spec => []CheckpointIsPrefix
<1>1. IInv => CheckpointIsPrefix
  BY DEF IInv, Sound
<1> QED
  BY <1>1, Invariance, PTL

(* Nothing is ever written behind an incomplete record. *)
THEOREM TornStaysTorn == Spec => TornIsFinal
<1>1. IInv /\ [Next]_vars => [torn => log' = log /\ torn']_vars
  <2> SUFFICES ASSUME IInv, Next, torn PROVE log' = log /\ torn'
    OBVIOUS
  <2>1. \A p \in Proc : pc[p] # "write"
    BY DEF IInv, Decided
  <2> QED
    BY <2>1 DEF Next, Step, CreateRun, WriteManifest, Busy, Acquire, ReadToWrite,
                ReadToReturn, Refuse, Write, Crash, EditFile, disk, IInv, TypeOK
<1> QED
  BY <1>1, Invariance, PTL DEF Spec, TornIsFinal

(* A step of any process is, of the state the file folds to, a legal event *)
(* that somebody requested, or nothing.                                    *)
LEMMA StepRefines == ASSUME IInv, [Next]_vars PROVE [RL!Next]_St
<1>1. ASSUME NEW p \in Proc, Write(p), job[p].op = "append",
             log' = Append(log, NewLine(p)), UNCHANGED ckpt
      PROVE  RL!Next
  <2>1. job[p].ev \in Requests
    BY <1>1 DEF IInv, TypeOK, Job
  <2>2. St' = Apply(St, job[p].ev) /\ Legal(St, job[p].ev)
    BY <1>1, AppendIsSound DEF Write
  <2>3. RL!Record(job[p].ev)
    <3>1. RL!Apply(St, job[p].ev) = Apply(St, job[p].ev)
      BY DEF RL!Apply, RL!TaskKind, RL!TaskAfter, RL!Reopened, RL!Absent, RL!RunAfter,
             Apply, TaskKind, TaskAfter, Reopened, Absent, RunAfter
    <3>2. RL!Legal(St, job[p].ev) <=> Legal(St, job[p].ev)
      BY DEF RL!Legal, RL!RunTerminal, RL!TaskKind, RL!TaskLegal, RL!TaskTerminal,
             RL!StatusBefore, RL!Evidenced, RL!CompletionLegal, RL!Ended, RL!AllDone,
             Legal, RunTerminal, TaskKind, TaskLegal, TaskTerminal, StatusBefore,
             Evidenced, CompletionLegal, Ended, AllDone
    <3> QED
      BY <2>2, <3>1, <3>2 DEF RL!Record
  <2> QED
    BY <2>1, <2>3 DEF RL!Next
<1>2. ASSUME UNCHANGED log PROVE St' = St
  BY <1>2 DEF St, Events
<1>3. CASE \E p \in Proc : Write(p)
  BY <1>1, <1>2, <1>3 DEF Write
<1>4. CASE ~\E p \in Proc : Write(p)
  <2>1. UNCHANGED log
    BY <1>4 DEF Next, Step, CreateRun, WriteManifest, Busy, Acquire, ReadToWrite,
                ReadToReturn, Refuse, Crash, EditFile, disk, vars
  <2> QED
    BY <2>1, <1>2
<1> QED
  BY <1>3, <1>4

(* The ledger file, its lock, its processes and their crashes implement    *)
(* the one run of RunLifecycle.                                            *)
THEOREM Refinement == Spec => Implements
<1>1. Init => RL!Init
  <2>1. Init => Events = <<>>
    BY DEF Init, Events
  <2> QED
    BY <2>1, EmptyFolds DEF RL!Init, RL!NewRun, RL!Absent, NewRun, Absent, St
<1>2. IInv /\ [Next]_vars => [RL!Next]_St
  BY StepRefines
<1> QED
  BY <1>1, <1>2, Invariance, PTL DEF Spec, Implements, RL!Spec
=============================================================================
