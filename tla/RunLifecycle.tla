---------------------------- MODULE RunLifecycle ----------------------------
(***************************************************************************)
(* What an execution ledger promises its callers, without files, locks,    *)
(* processes or crashes: one run whose state changes by one legal event at *)
(* a time.  ExecutionLedger implements this specification.                 *)
(***************************************************************************)
EXTENDS RunState

CONSTANT Requests   \* the events that callers ask for
ASSUME RequestsAssumption == Wellformed(Requests)

VARIABLE st

Record(e) == LET now == st IN Legal(now, e) /\ st' = Apply(now, e)

Init == st = NewRun
Next == \E e \in Requests : Record(e)
Spec == Init /\ [][Next]_st

TypeOK == st \in State

(* A completed run has no unfinished task: every task that was ever        *)
(* registered is completed, and stays so (_validate_transition).           *)
RunDoneMeansAllDone ==
  st.run = "completed" =>
    \A t \in Task : st.tasks[t].status \in {"absent", "completed"}

(* Durable completion truth needs a commit, a binding, and evidence of the *)
(* current attempt for every contract the task declared when it was        *)
(* registered: evidence gathered before a reopening never counts.          *)
CompletionIsEvidenced ==
  \A t \in Task :
    LET ts == st.tasks[t] IN
    ts.status = "completed" =>
      ts.commit # NoCommit /\ ts.binds # {} /\ Evidenced(ts, ts.binds)

(* A terminal task changes only by being reopened, and a terminal run not  *)
(* at all: completion is never overwritten by a second terminal event.     *)
TerminalIsFinal ==
  [][/\ st.run \in RunTerminal => st' = st
     /\ \A t \in Task :
          st.tasks[t].status \in TaskTerminal =>
            st'.tasks[t] = st.tasks[t] \/ st'.tasks[t].status = "registered"]_st
=============================================================================
