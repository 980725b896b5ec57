----------------------- MODULE MCFlowRunOrchestration -----------------------
(***************************************************************************)
(* Instances of FlowRunOrchestration for TLC: what the clients of a        *)
(* configuration may ask for.                                              *)
(***************************************************************************)
EXTENDS FlowRunOrchestration, TLC

CONSTANTS k1, t1

\* A pause that keeps the process, and one that suspends the run.
Blocking(key) == [NewState("PAUSED") EXCEPT !.key = key, !.timeout = "pending"]
Suspending(key) == [Blocking(key) EXCEPT !.reschedule = TRUE]

Named(type, name) == [NewState(type) EXCEPT !.name = name]
Completed(persisted) == [NewState("COMPLETED") EXCEPT !.persisted = persisted]
With(tid, s) == [s EXCEPT !.tid = tid]

By(client, states) == {[state |-> s, client |-> client] : s \in states}

MCCreateStates ==
  {NewState("PENDING"), NewState("SCHEDULED"), Scheduled("default", "future")}
MCCreatePending == {NewState("PENDING")}

\* The life of a single run: everything a client may propose.
LifecycleRequests ==
  By("leasing",
     {NewState("PENDING"), Named("PENDING", "Submitting"), NewState("RUNNING"),
      NewState("FAILED"), NewState("CRASHED"), NewState("CANCELLING"),
      Completed(TRUE), Completed(FALSE),
      Scheduled("default", "future"), Scheduled("AwaitingRetry", "past"),
      Blocking(k1), Suspending(k1)})

\* Forced by engines, workers and runners, by "prefect flow-run retry", and by
\* users who set a state in the UI: anything but a pause.
ForcedByClients == {NewState(type) : type \in StateTypes \ {"PAUSED"}}

\* States a user sets in the UI, whatever became of the run meanwhile.
ForcedByUsers == {Completed(TRUE), Completed(FALSE), NewState("RUNNING")}

\* The runs of one deployment are alike.
TwinRuns == Permutations(Runs)

\* Runs that are neither paused, rescheduled nor cancelled.
MCCreateScheduled == {NewState("SCHEDULED")}
OrderlyRequests ==
  By("leasing",
     {NewState("PENDING"), Named("PENDING", "Submitting"), NewState("RUNNING"),
      NewState("COMPLETED"), NewState("FAILED")})
OrderlyForced == {NewState("CRASHED"), NewState("CANCELLED")}

\* Runs that compete for the slots and may be cancelled instead of failing.
CancellingRequests ==
  By("leasing",
     {NewState("PENDING"), NewState("RUNNING"), NewState("COMPLETED"),
      NewState("CANCELLING")})

\* What timeouts, recovery services and the repossessor have to end.
RecoveryRequests ==
  By("leasing",
     {NewState("PENDING"), NewState("RUNNING"), NewState("FAILED"),
      NewState("CANCELLING"), Blocking(NoKey), Suspending(NoKey)})

\* One run and everybody who reads it without its lock; its engine numbers
\* some of its transitions.
RacingRequests ==
  By("leasing",
     {NewState("PENDING"), With(t1, NewState("RUNNING")), Completed(TRUE),
      With(t1, Completed(FALSE)), NewState("CANCELLING"), Blocking(k1)})
=============================================================================
