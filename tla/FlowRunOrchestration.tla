----------------------- MODULE FlowRunOrchestration -----------------------
(***************************************************************************)
(* Flow runs under the orchestration of a Prefect server, and everybody    *)
(* that moves them: API clients (engines, workers, runners, the UI), the   *)
(* resume endpoint, the services that fail expired pauses, mark runs late, *)
(* cancel subflows and time out cancellations, the owners of concurrency   *)
(* leases and the repossessor.                                             *)
(*                                                                         *)
(* set_flow_run_state holds the run's row lock from the read of its state  *)
(* to the commit, so a transition is one step.  Three handlers read the    *)
(* run without the lock before they call it; their read is a step of its   *)
(* own (reads), and two of them, which keep the session, orchestrate the   *)
(* state they read first: the ORM does not refresh a loaded object.  On    *)
(* SQLite such a session works on the snapshot of its first read, and its  *)
(* write fails when another one has been committed since (BUSY_SNAPSHOT);  *)
(* on PostgreSQL it goes through.                                          *)
(***************************************************************************)
EXTENDS FlowRunRules

CONSTANTS
  Runs,            \* flow runs
  Deployed,        \* runs with a deployment
  Limited,         \* runs whose deployment has the concurrency limit
  Subflows,        \* runs with a parent task run
  Deletable,       \* runs that users may delete
  CreateStates,    \* states a run is created in
  Requests,        \* what API clients may ask: a state and their version
  ForcedRequests,  \* states clients propose with force=True
  OrderlyClients,  \* TRUE: workers and engines propose what their protocol has next
  SnapshotReads,   \* TRUE: the database is SQLite; FALSE: it is PostgreSQL
  LeasesExpire,    \* FALSE: every lease is renewed or revoked in time
  MaxRunCount      \* bound on a run's count of Running states

ASSUME OrchestrationAssumption ==
  /\ Deployed \subseteq Runs
  /\ Limited \subseteq Deployed
  /\ Subflows \subseteq Runs
  /\ Deletable \subseteq Runs
  /\ CreateStates \subseteq {s \in State : s.type \in {"SCHEDULED", "PENDING"}}
  /\ Requests \subseteq [state: {s \in State : s.type \in StateTypes}, client: ClientVersions]
  /\ ForcedRequests \subseteq {s \in State : s.type \in StateTypes}
  /\ OrderlyClients \in BOOLEAN
  /\ SnapshotReads \in BOOLEAN
  /\ LeasesExpire \in BOOLEAN
  /\ MaxRunCount \in Nat \ {0}

VARIABLES
  st,      \* the state of each run
  run,     \* the orchestrated columns of each run
  slots,   \* active slots of the concurrency limit
  leases,  \* the lease storage
  reads,   \* what a handler read without the row lock, until it writes
  late,    \* runs with a queued mark_flow_run_late task
  check,   \* the queued handle_cancelling_timeout task of each run
  retry,   \* a request whose response was lost and that its client sends again
  hist     \* history of each run, for the properties

vars == <<st, run, slots, leases, reads, late, check, retry, hist>>

Readers == {"none", "resume", "expire", "subflow"}
NoRead == [by |-> "none", state |-> NoState, run |-> NewRun]

CheckStatus == {"none", "current", "stale"}

NoRequest == [state |-> NoState, client |-> "legacy"]

\* used: in-process retries so far;  fired: pause keys of the attempt, forced
\* pauses aside;
\* submitted: plain Pending states since the last Scheduled or terminal one;
\* waiting: the run's last schedule lies in the future.
History == [used: Nat, fired: SUBSET Keys, submitted: Nat, waiting: BOOLEAN]
NewHistory == [used |-> 0, fired |-> {}, submitted |-> 0, waiting |-> FALSE]

TypeOK ==
  /\ st \in [Runs -> State]
  /\ run \in [Runs -> FlowRun]
  /\ slots \in Nat
  /\ leases \in [LeaseIds -> LeaseStatus]
  /\ reads \in [Runs -> [by: Readers, state: State, run: FlowRun]]
  /\ late \subseteq Runs
  /\ check \in [Runs -> CheckStatus]
  /\ retry \in [Runs -> Requests \cup {NoRequest}]
  /\ hist \in [Runs -> History]

Init ==
  /\ st = [r \in Runs |-> NoState]
  /\ run = [r \in Runs |-> NewRun]
  /\ slots = 0
  /\ leases = [l \in LeaseIds |-> "absent"]
  /\ reads = [r \in Runs |-> NoRead]
  /\ late = {}
  /\ check = [r \in Runs |-> "none"]
  /\ retry = [r \in Runs |-> NoRequest]
  /\ hist = [r \in Runs |-> NewHistory]

---------------------------------------------------------------------------
(* One orchestrated transition.                                            *)

Present == {l \in LeaseIds : leases[l] # "absent"}

\* Ids are never used twice; the model recycles those nothing refers to.
Free == {l \in LeaseIds : /\ leases[l] = "absent"
                          /\ \A r \in Runs : st[r].lease # l /\ reads[r].state.lease # l}
FreshLease == CHOOSE l \in Free : TRUE

\* The transition of r to p, from the state s and the columns d of the row.
Transition(r, s, d, p, client) ==
  [initial |-> s, intended |-> p.type, proposed |-> p, status |-> "ACCEPT",
   client |-> client, deployed |-> r \in Deployed, limited |-> r \in Limited,
   subflow |-> r \in Subflows, run |-> d, slots |-> slots, leases |-> leases,
   fresh |-> FreshLease, acquired |-> NoLease, saved |-> d.policy,
   entered |-> [h \in HookRules |-> "INVALID"]]

\* The ORM writes the columns the transition changed, and only those.
Column(old, new, stored) == IF new = old THEN stored ELSE new
Columns(old, new, stored) ==
  [policy |-> Column(old.policy, new.policy, stored.policy),
   count |-> Column(old.count, new.count, stored.count),
   started |-> Column(old.started, new.started, stored.started),
   ended |-> Column(old.ended, new.ended, stored.ended),
   pid |-> stored.pid]

StartsAttempt(s, t, retried) ==
  \/ retried
  \/ Terminal(s) /\ ~Terminal(t)
  \/ s.type = "PAUSED" /\ ~s.reschedule /\ t.type = "SCHEDULED"

Resubmission(t, forced) == t.type = "PENDING" /\ (forced \/ t.name = "default")

Recorded(h, s, c, forced) ==
  LET t == c.proposed
      retried == s.type = "RUNNING" /\ t.name = "AwaitingRetry" /\ c.status = "REJECT"
      first == IF StartsAttempt(s, t, retried) THEN {} ELSE h.fired
      begins == Terminal(t) \/ t.type = "SCHEDULED" \/ forced
      since == IF begins THEN 0 ELSE h.submitted
  IN [used |-> h.used + (IF retried THEN 1 ELSE 0),
      fired |-> IF t.type = "PAUSED" /\ ~forced THEN first \cup ({t.key} \cap Keys) ELSE first,
      submitted |-> since + (IF Resubmission(t, forced) THEN 1 ELSE 0),
      waiting |-> IF begins THEN t.type = "SCHEDULED" /\ t.sched = "future"
                            ELSE h.waiting]

\* Writes the result c of a transition that started from the columns d.
\* A written state makes a queued cancellation check stale.
Commit(r, d, c, forced) ==
  /\ run' = [run EXCEPT ![r] = Columns(d, c.run, @)]
  /\ slots' = c.slots
  /\ leases' = c.leases
  /\ IF c.proposed.type = "NONE"
     THEN UNCHANGED <<st, hist>>
     ELSE /\ st' = [st EXCEPT ![r] = c.proposed]
          /\ hist' = [hist EXCEPT ![r] = Recorded(@, c.initial, c, forced)]

Staled(r, c) ==
  IF c.proposed.type # "NONE" /\ check[r] = "current" THEN "stale" ELSE check[r]

\* The server schedules a check for every Cancelling state it accepts, once the
\* state is committed: it may stop in between.
Scheduling(r, c) ==
  IF c.proposed.type = "CANCELLING" /\ c.status = "ACCEPT"
  THEN {"current", Staled(r, c)}
  ELSE {Staled(r, c)}

\* Bounds: the count of the run, and a lease id to hand out.
InBounds(d, p) == (p.type = "RUNNING" => d.count < MaxRunCount) /\ Free # {}

\* On SQLite a handler fails, and has done nothing, when the run is written
\* after it has read it: only the runs it gets to write itself matter.
Unheld(r) == SnapshotReads => reads[r].by \notin {"resume", "expire"}

\* A resent request that is not the run's next transition is a new request.
Forget(r) == retry' = [retry EXCEPT ![r] = NoRequest]

Created(r) == st[r].type # "NONE"

---------------------------------------------------------------------------
(* API clients.                                                            *)

CreateFlowRun(r, p) ==
  LET c == MinimalFlowPolicy(Transition(r, NoState, run[r], p, "legacy"))
  IN /\ ~Created(r) /\ InBounds(run[r], p)
     /\ Commit(r, run[r], c, TRUE)
     /\ Forget(r)
     /\ UNCHANGED <<reads, late, check>>

\* Workers propose Pending for the scheduled runs they poll, never for those
\* that wait for a retry in their process; engines start what is Pending or
\* retried, and finish what is Running.
InTurn(r, p) ==
  LET retrying == st[r].name = "AwaitingRetry" /\ run[r].policy.retryType = "in_process"
  IN OrderlyClients =>
       /\ p.type = "PENDING" => ~retrying
       /\ p.type = "RUNNING" => st[r].type = "PENDING" \/ retrying
       /\ p.type \in {"COMPLETED", "FAILED"} => st[r].type = "RUNNING"

\* A client that attaches a transition id sends the request again when the
\* response is lost.
SetFlowRunState(r, q, lost) ==
  LET c == CoreFlowPolicy(Transition(r, st[r], run[r], q.state, q.client))
  IN /\ Created(r) /\ Unheld(r) /\ InBounds(run[r], q.state)
     /\ InTurn(r, q.state)
     /\ lost => q.state.tid # NoTid
     /\ Commit(r, run[r], c, FALSE)
     /\ \E k \in Scheduling(r, c) : check' = [check EXCEPT ![r] = k]
     /\ retry' = [retry EXCEPT ![r] = IF lost THEN q ELSE NoRequest]
     /\ UNCHANGED <<reads, late>>

ResendRequest(r) ==
  retry[r] # NoRequest /\ SetFlowRunState(r, retry[r], FALSE)

ForceFlowRunState(r, p) ==
  LET c == MinimalFlowPolicy(Transition(r, st[r], run[r], p, "leasing"))
  IN /\ Created(r) /\ Unheld(r) /\ InBounds(run[r], p)
     /\ Commit(r, run[r], c, TRUE)
     /\ \E k \in Scheduling(r, c) : check' = [check EXCEPT ![r] = k]
     /\ Forget(r)
     /\ UNCHANGED <<reads, late>>

\* A worker records the infrastructure it started for a run it had submitted,
\* whatever has become of the run by then.
SetInfrastructurePid(r) ==
  /\ r \in Deployed /\ st[r].type \notin {"NONE", "SCHEDULED"}
  /\ Unheld(r) /\ ~run[r].pid
  /\ run' = [run EXCEPT ![r].pid = TRUE]
  /\ UNCHANGED <<st, slots, leases, reads, late, check, retry, hist>>

\* Deleting an active run gives its slot back and leaves its lease alone.  What
\* still refers to the run finds nothing and gives up.
DeleteFlowRun(r) ==
  /\ r \in Deletable /\ Created(r)
  /\ slots' = IF r \in Limited /\ st[r].type \in {"PENDING", "RUNNING", "CANCELLING"}
              THEN Decremented(slots) ELSE slots
  /\ st' = [st EXCEPT ![r] = NoState]
  /\ run' = [run EXCEPT ![r] = NewRun]
  /\ reads' = [reads EXCEPT ![r] = NoRead]
  /\ late' = late \ {r}
  /\ check' = [check EXCEPT ![r] = "none"]
  /\ hist' = [hist EXCEPT ![r] = NewHistory]
  /\ Forget(r)
  /\ UNCHANGED leases

---------------------------------------------------------------------------
(* Handlers that read the run before they lock it.                         *)

Read(r, by) ==
  /\ reads[r] = NoRead
  /\ reads' = [reads EXCEPT ![r] = [by |-> by, state |-> st[r], run |-> run[r]]]
  /\ UNCHANGED <<st, run, slots, leases, late, check, retry, hist>>

ReadForResume(r) ==
  st[r].type = "PAUSED" /\ InBounds(run[r], NewState("RUNNING")) /\ Read(r, "resume")

\* The session still holds the run it read: its state and columns are those.
ResumeFlowRun(r) ==
  LET s == reads[r].state
      p == IF s.reschedule THEN Scheduled("Resuming", "past") ELSE NewState("RUNNING")
      c == CoreFlowPolicy(Transition(r, s, reads[r].run, p, "leasing"))
  IN /\ reads[r].by = "resume" /\ Free # {}
     /\ Commit(r, reads[r].run, c, FALSE)
     /\ check' = [check EXCEPT ![r] = Staled(r, c)]
     /\ reads' = [reads EXCEPT ![r] = NoRead]
     /\ Forget(r)
     /\ UNCHANGED late

\* Mutant: overlooks suspended runs.
ReadExpiredPauseBlocking(r) ==
  st[r].timeout = "elapsed" /\ ~st[r].reschedule /\ Read(r, "expire")

ReadExpiredPause(r) == st[r].timeout = "elapsed" /\ Read(r, "expire")

FailExpiredPause(r) ==
  LET c == MinimalFlowPolicy(
             Transition(r, reads[r].state, reads[r].run, NewState("FAILED"), "legacy"))
  IN /\ reads[r].by = "expire" /\ Free # {}
     /\ Commit(r, reads[r].run, c, TRUE)
     /\ check' = [check EXCEPT ![r] = Staled(r, c)]
     /\ reads' = [reads EXCEPT ![r] = NoRead]
     /\ Forget(r)
     /\ UNCHANGED late

\* The parent run was cancelled.
ReadSubflow(r) ==
  /\ r \in Subflows /\ Created(r) /\ ~Terminal(st[r])
  /\ ~(r \in Deployed /\ st[r].type = "CANCELLING")
  /\ Read(r, "subflow")

\* This one writes in a session of its own, which reads the run again.
CancelSubflowRun(r) ==
  LET p == NewState(IF r \in Deployed THEN "CANCELLING" ELSE "CANCELLED")
      c == MinimalFlowPolicy(Transition(r, st[r], run[r], p, "legacy"))
  IN /\ reads[r].by = "subflow" /\ Free # {}
     /\ Commit(r, run[r], c, TRUE)
     /\ \E k \in Scheduling(r, c) : check' = [check EXCEPT ![r] = k]
     /\ reads' = [reads EXCEPT ![r] = NoRead]
     /\ Forget(r)
     /\ UNCHANGED late

---------------------------------------------------------------------------
(* Services.                                                               *)

\* The task is queued for runs named Scheduled; by the time it runs the run
\* may have moved on.
MonitorLateRuns(r) ==
  /\ r \notin late
  /\ st[r].type = "SCHEDULED" /\ st[r].name = "default" /\ st[r].sched = "past"
  /\ late' = late \cup {r}
  /\ UNCHANGED <<st, run, slots, leases, reads, check, retry, hist>>

\* The time is read before the row is locked: it may be the one the run was
\* queued with.
DueTimes(r) ==
  LET due == IF st[r].type = "SCHEDULED" THEN st[r].sched ELSE "past"
  IN IF SnapshotReads THEN {due} ELSE {due, "past"}

MarkFlowRunLate(r, due) ==
  LET p == Scheduled("Late", due)
      c == MarkLateRunsPolicy(Transition(r, st[r], run[r], p, "legacy"))
  IN /\ r \in late /\ Unheld(r) /\ Free # {}
     /\ Commit(r, run[r], c, FALSE)
     /\ check' = [check EXCEPT ![r] = Staled(r, c)]
     /\ late' = late \ {r}
     /\ Forget(r)
     /\ UNCHANGED reads

\* The monitor adds a check under the run's key, which does nothing while any
\* check of the run is queued, also one of an earlier state.
EnsureCancellingTimeoutCheck(r) ==
  /\ st[r].type = "CANCELLING" /\ check[r] = "none"
  /\ check' = [check EXCEPT ![r] = "current"]
  /\ UNCHANGED <<st, run, slots, leases, reads, late, retry, hist>>

\* Mutant: a check of an earlier state is put off (retry.at) like an early one.
SkipStaleCheckLater(r) == check[r] = "stale" /\ UNCHANGED vars

\* A check of another state than the current one does nothing, and the key is
\* free for the monitor again.
SkipStaleCheck(r) ==
  /\ check[r] = "stale"
  /\ check' = [check EXCEPT ![r] = "none"]
  /\ UNCHANGED <<st, run, slots, leases, reads, late, retry, hist>>

HandleCancellingTimeout(r) ==
  LET c == CoreFlowPolicy(Transition(r, st[r], run[r], NewState("CANCELLED"), "legacy"))
  IN /\ check[r] = "current" /\ st[r].type = "CANCELLING"
     /\ Unheld(r) /\ Free # {}
     /\ Commit(r, run[r], c, FALSE)
     /\ check' = [check EXCEPT ![r] = "none"]
     /\ Forget(r)
     /\ UNCHANGED <<reads, late>>

---------------------------------------------------------------------------
(* Time and leases.                                                        *)

ScheduledTimePasses(r) ==
  /\ st[r].sched = "future"
  /\ st' = [st EXCEPT ![r].sched = "past"]
  /\ hist' = [hist EXCEPT ![r].waiting = FALSE]
  /\ UNCHANGED <<run, slots, leases, reads, late, check, retry>>

PauseTimeoutElapses(r) ==
  /\ st[r].timeout = "pending" \/ reads[r].state.timeout = "pending"
  /\ st' = [st EXCEPT ![r].timeout = IF @ = "pending" THEN "elapsed" ELSE @]
  /\ reads' = [reads EXCEPT ![r].state.timeout = IF @ = "pending" THEN "elapsed" ELSE @]
  /\ UNCHANGED <<run, slots, leases, late, check, retry, hist>>

LeaseExpires(l) ==
  /\ LeasesExpire /\ leases[l] = "live"
  /\ leases' = [leases EXCEPT ![l] = "expired"]
  /\ UNCHANGED <<st, run, slots, reads, late, check, retry, hist>>

\* The process of a run renews its lease while it executes, also across the
\* delay of an in-process retry; the storage renews a lease it still knows.
RenewConcurrencyLease(r) ==
  LET l == st[r].lease
  IN /\ \/ st[r].type \in {"RUNNING", "CANCELLING"}
        \/ st[r].type = "SCHEDULED" /\ st[r].name = "AwaitingRetry"
     /\ l # NoLease /\ leases[l] = "expired"
     /\ leases' = [leases EXCEPT ![l] = "live"]
     /\ UNCHANGED <<st, run, slots, reads, late, check, retry, hist>>

RevokeExpiredLease(l) ==
  /\ leases[l] = "expired"
  /\ slots' = Decremented(slots)
  /\ leases' = [leases EXCEPT ![l] = "absent"]
  /\ UNCHANGED <<st, run, reads, late, check, retry, hist>>

---------------------------------------------------------------------------

ClientNext(r) ==
  \/ \E p \in CreateStates : CreateFlowRun(r, p)
  \/ \E q \in Requests, lost \in BOOLEAN : SetFlowRunState(r, q, lost)
  \/ ResendRequest(r)
  \/ \E p \in ForcedRequests : ForceFlowRunState(r, p)
  \/ SetInfrastructurePid(r)
  \/ DeleteFlowRun(r)
  \/ ReadForResume(r)
  \/ ResumeFlowRun(r)

ServiceNext(r) ==
  \/ ReadExpiredPause(r)
  \/ FailExpiredPause(r)
  \/ ReadSubflow(r)
  \/ CancelSubflowRun(r)
  \/ MonitorLateRuns(r)
  \/ \E due \in DueTimes(r) : MarkFlowRunLate(r, due)
  \/ EnsureCancellingTimeoutCheck(r)
  \/ SkipStaleCheck(r)
  \/ HandleCancellingTimeout(r)

TimeNext(r) ==
  \/ ScheduledTimePasses(r)
  \/ PauseTimeoutElapses(r)
  \/ RenewConcurrencyLease(r)

LeaseNext(l) == LeaseExpires(l) \/ RevokeExpiredLease(l)

Next ==
  \/ \E r \in Runs : ClientNext(r) \/ ServiceNext(r) \/ TimeNext(r)
  \/ \E l \in LeaseIds : LeaseNext(l)

\* The services are perpetual docket tasks, queued tasks run and requests that
\* are being served finish; time passes; nothing else is asked of clients.
\* Fairness names a handler by the entry it removes, which nothing else does.
FinishHandler(r) ==
  /\ reads[r] # NoRead /\ Free # {}
  /\ reads' = [reads EXCEPT ![r] = NoRead]

FinishTimeoutCheck(r) ==
  /\ check[r] = "current" /\ st[r].type = "CANCELLING" /\ Unheld(r) /\ Free # {}
  /\ check' = [check EXCEPT ![r] = "none"]

Fairness ==
  /\ \A r \in Runs : /\ WF_check(EnsureCancellingTimeoutCheck(r))
                     /\ WF_check(SkipStaleCheck(r))
                     /\ WF_check(FinishTimeoutCheck(r))
                     /\ WF_reads(ReadExpiredPause(r))
                     /\ WF_reads(FinishHandler(r))
                     /\ WF_vars(PauseTimeoutElapses(r))
  /\ \A l \in LeaseIds : WF_leases(LeaseExpires(l)) /\ WF_leases(RevokeExpiredLease(l))

Spec == Init /\ [][Next]_vars
FairSpec == Spec /\ Fairness
---------------------------------------------------------------------------
(* Properties that the code keeps.                                         *)

\* Old clients start or cancel no run whose lease they would revoke
\* (RemoveDeploymentConcurrencyLeaseForOldClientVersions).
LeasingClients ==
  \A q \in Requests : q.client # "leasing" => q.state.type \notin {"RUNNING", "CANCELLING"}

\* Every slot of a limit that is taken has a lease in the storage, so that the
\* repossessor can take it back whatever happens to the run that took it.
SlotsBacked == LeasingClients => slots <= Cardinality(Present)

\* Never more runs at work than the deployment's limit allows, as long as leases
\* are renewed and no client puts a run to work past SecureFlowConcurrencySlots
\* (by a pause that keeps the process, by Cancelling a run without a slot, by
\* Pending on creation or by force): a slot counted once is released once.
ActiveWithinLimit ==
  Cardinality({r \in Limited : st[r].type \in {"PENDING", "RUNNING", "CANCELLING"}}) <= Limit

\* No client forces a pause on a run: force=True skips HandlePausingFlows, which
\* lets only a Running flow pause.
PausesOrchestrated == \A p \in ForcedRequests : p.type # "PAUSED"

\* RetryFailedFlows never retries a run more often than its flow allows, over
\* all its attempts, pauses, suspensions and cancellations, forced or not.  (A
\* run that is forced to pause while it waits for its retry is resumed without
\* being counted, and has a retry to spare.)
RetriesBounded ==
  SnapshotReads /\ PausesOrchestrated =>
    \A r \in Runs : hist[r].used <= (IF Retries > 0 THEN Retries ELSE 0)

\* A run does not start before the time it was last scheduled for, however
\* many Pending states it went through: CopyScheduledTime and
\* PreventPendingTransitions hand the time on to WaitForScheduledTime.
NeverEarly == SnapshotReads => \A r \in Runs : st[r].type = "RUNNING" => ~hist[r].waiting

\* Two workers that were handed the same scheduled run do not both get it:
\* one plain Pending state per Scheduled or terminal state.
SubmittedOnce == \A r \in Runs : hist[r].submitted <= 1

\* A keyed pause that fired in the current attempt is remembered until the
\* attempt is over, so it does not stop the run a second time when a
\* suspended run starts again from the top.  (On PostgreSQL a late resume of an
\* earlier pause may write the policy it read over a newer one.)
FiredPausesRemembered ==
  SnapshotReads => \A r \in Runs : hist[r].fired \subseteq run[r].policy.pauseKeys

\* The run has an end time exactly while it is in a terminal state, also when
\* it is rerun, retried or resumed.
EndTimeMatchesState ==
  SnapshotReads => \A r \in Runs : run[r].ended <=> Terminal(st[r])

\* A run that is being cancelled is brought back by nobody but a client that
\* forces it into another state: it stays Cancelling until it is terminal.
Restarts == {p \in ForcedRequests : ~Terminal(p)}
CancellationSticks ==
  [][SnapshotReads => \A r \in Runs : st[r].type = "CANCELLING" =>
        \/ st'[r].type = "CANCELLING" \/ Terminal(st'[r])
        \/ DeleteFlowRun(r)
        \/ \E p \in Restarts : ForceFlowRunState(r, p)]_vars

\* No policy, forced or not, replaces a Completed state that carries a
\* persisted result by a Completed state that does not.
PersistedResultKept ==
  [][\A r \in Runs : st[r].type = "COMPLETED" /\ st[r].persisted =>
        (st'[r].type = "COMPLETED" => st'[r].persisted)]_vars

\* A queued task marks late what is still Scheduled when it runs; a run that
\* has moved on in the meantime is left alone.
LateOnlyScheduled ==
  [][\A r \in Runs : st'[r].name = "Late" => st[r].type = "SCHEDULED"]_vars

\* A request that is sent again although it was the run's last transition
\* changes nothing: not the state, nor its policy, slots or leases.
DuplicateLeavesNoTrace ==
  [][\A r \in Runs : ResendRequest(r) /\ st[r].tid = retry[r].state.tid =>
        UNCHANGED <<st, run, slots, leases>>]_vars

\* The timeout services see every cancellation through, unless the run is
\* deleted.
CancellationCompletes ==
  \A r \in Runs : st[r].type = "CANCELLING" ~> ~Created(r) \/ Terminal(st[r])

\* A pause with a timeout does not last for ever.
PausesEnd ==
  \A r \in Runs : st[r].type = "PAUSED" /\ st[r].timeout # "none"
                   ~> st[r].type # "PAUSED"

\* When all runs are over for good, their slots are free again, whichever way
\* the runs ended: released by the rules or taken back by the repossessor.
SlotsReclaimed ==
  <>[](\A r \in Runs : ~Created(r) \/ Terminal(st[r])) => <>[](slots = 0)

---------------------------------------------------------------------------
(* What the comments, the documentation and the error messages of the code *)
(* say, and the code does not keep.                                        *)

\* "the maximum number of concurrent flow runs for the deployment"
RunningWithinLimit == Cardinality({r \in Limited : st[r].type = "RUNNING"}) <= Limit

\* "Cannot resume a flow run that is not paused."
ResumeOnlyPaused ==
  [][\A r \in Runs : ResumeFlowRun(r) => st[r].type = "PAUSED" \/ st'[r] = st[r]]_vars
=============================================================================
