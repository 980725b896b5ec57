--------------------------- MODULE FlowRunRules ---------------------------
(***************************************************************************)
(* The rules that govern one flow-run state transition, as a pipeline of   *)
(* operators on an orchestration context.                                  *)
(*                                                                         *)
(* Prefect runs a transition by entering a stack of rules: the "before"    *)
(* hooks run in the order of the policy and may replace, delay or abort    *)
(* the proposed state; the global transforms follow; the state is written; *)
(* then the stack unwinds and every rule that was valid on entry runs its  *)
(* "after" hook, or its "cleanup" hook when a later rule changed the type  *)
(* of the proposed state (the rule "fizzles").                             *)
(*                                                                         *)
(* Every operator takes a context and returns the context after the hook.  *)
(* Times are abstracted to what the rules compare: a scheduled time is in  *)
(* the past or in the future, a pause timeout is pending or elapsed.       *)
(* Clients speak an API version of at least 0.8.4, and hooks do not raise. *)
(***************************************************************************)
EXTENDS Integers, FiniteSets

CONSTANTS
  Keys,           \* pause keys a flow may use
  TransitionIds,  \* transition ids a client may attach to a state
  LeaseIds,       \* ids of concurrency leases
  Limit,          \* slots of the deployments' shared concurrency limit
  Strategy,       \* collision strategy, "ENQUEUE" or "CANCEL_NEW"
  Retries,        \* retries of the flow; NoRetries when unset
  NoKey, NoTid, NoLease

NoRetries == -1

ASSUME RulesAssumption ==
  /\ Limit \in Nat
  /\ Strategy \in {"ENQUEUE", "CANCEL_NEW"}
  /\ Retries \in Nat \cup {NoRetries}
  /\ NoKey \notin Keys
  /\ NoTid \notin TransitionIds
  /\ NoLease \notin LeaseIds
  /\ IsFiniteSet(LeaseIds)

---------------------------------------------------------------------------
(* States of a flow run.                                                   *)

StateTypes == {"SCHEDULED", "PENDING", "RUNNING", "CANCELLING", "PAUSED",
               "COMPLETED", "FAILED", "CANCELLED", "CRASHED"}
TerminalTypes == {"COMPLETED", "FAILED", "CANCELLED", "CRASHED"}

\* ALL_ORCHESTRATION_STATES: "NONE" is the type of no state at all.
AllTypes == StateTypes \cup {"NONE"}

\* Names the rules look at; every other name is "default".
StateNames == {"default", "Submitting", "Late", "AwaitingRetry", "Resuming",
               "AwaitingConcurrencySlot"}
ScheduledTimes == {"none", "future", "past"}
Timeouts == {"none", "pending", "elapsed"}

State == [type: AllTypes, name: StateNames, sched: ScheduledTimes,
          reschedule: BOOLEAN, timeout: Timeouts, key: Keys \cup {NoKey},
          tid: TransitionIds \cup {NoTid}, persisted: BOOLEAN,
          lease: LeaseIds \cup {NoLease}]

NewState(type) ==
  [type |-> type, name |-> "default",
   sched |-> IF type = "SCHEDULED" THEN "past" ELSE "none",
   reschedule |-> FALSE, timeout |-> "none", key |-> NoKey, tid |-> NoTid,
   persisted |-> FALSE, lease |-> NoLease]
NoState == NewState("NONE")

Scheduled(name, sched) ==
  [NewState("SCHEDULED") EXCEPT !.name = name, !.sched = sched]

Terminal(s) == s.type \in TerminalTypes

---------------------------------------------------------------------------
(* The run's own columns, the leases and the context of a transition.      *)

RetryTypes == {"none", "in_process", "reschedule"}
EmpiricalPolicy == [resuming: BOOLEAN, pauseKeys: SUBSET Keys, retryType: RetryTypes]
NewPolicy == [resuming |-> FALSE, pauseKeys |-> {}, retryType |-> "none"]

FlowRun == [policy: EmpiricalPolicy, count: Nat, started: BOOLEAN,
            ended: BOOLEAN, pid: BOOLEAN]
NewRun == [policy |-> NewPolicy, count |-> 0, started |-> FALSE,
           ended |-> FALSE, pid |-> FALSE]

LeaseStatus == {"absent", "live", "expired"}

\* "leasing" clients are 3.4.11 or newer, "legacy" ones older, "managing" ones
\* old workers that look after the deployment's concurrency themselves.
ClientVersions == {"leasing", "legacy", "managing"}

\* The rules that have something to do when the stack unwinds.
HookRules == {"Terminal", "Secure", "RemoveLease", "Pausing", "Resuming"}

Context ==
  [initial: State, intended: StateTypes, proposed: State,
   status: {"ACCEPT", "REJECT", "WAIT", "ABORT"},
   client: ClientVersions, deployed: BOOLEAN, limited: BOOLEAN, subflow: BOOLEAN,
   run: FlowRun, slots: Nat, leases: [LeaseIds -> LeaseStatus],
   fresh: LeaseIds, acquired: LeaseIds \cup {NoLease},
   saved: EmpiricalPolicy, entered: [HookRules -> AllTypes \cup {"INVALID"}]]

Reject(c, s) == [c EXCEPT !.proposed = s, !.status = "REJECT"]
Abort(c) == [c EXCEPT !.proposed = NoState, !.status = "ABORT"]
Delay(c) == [c EXCEPT !.proposed = NoState, !.status = "WAIT"]

\* A rule is valid on entry when its FROM and TO sets hold the intended
\* transition and no earlier rule changed the type of the proposed state.
Governs(c, from, to) ==
  /\ c.initial.type \in from
  /\ c.intended \in to
  /\ c.proposed.type = c.intended

\* What the rule leaves in self.to_state_type: it never fizzles itself.
Enter(rule, c) == [c EXCEPT !.entered[rule] = c.proposed.type]

Survives(c, rule, to) == c.entered[rule] \in to /\ c.entered[rule] = c.proposed.type
Fizzles(c, rule, to) == c.entered[rule] \in to /\ c.entered[rule] # c.proposed.type

\* A lease the storage still knows, expired or not.
Exists(c, l) == l \in LeaseIds /\ c.leases[l] # "absent"

---------------------------------------------------------------------------
(* Slots and leases of the deployments' concurrency limit.                 *)

\* Mutant: counts from zero.
CanAcquireOneMore(c) == c.slots <= Limit

CanAcquire(c) == c.slots < Limit
AcquireLease(c) ==
  [c EXCEPT !.slots = @ + 1, !.leases[c.fresh] = "live", !.acquired = c.fresh,
            !.proposed.lease = c.fresh]

\* Mutant: no clamp.
DecrementedUnclamped(n) == n - 1

\* bulk_decrement_active_slots clamps at zero.
Decremented(n) == IF n > 0 THEN n - 1 ELSE 0

Revoke(c, l) == [c EXCEPT !.leases = [k \in LeaseIds |-> IF k = l THEN "absent" ELSE @[k]]]

\* Mutant: the slot is forgotten with the lease.
ReleaseLeaseOnly(c, l) == Revoke(c, l)

\* A missing lease still gives a slot back (the fallback limit ids).
ReleaseLease(c, l) == [Revoke(c, l) EXCEPT !.slots = Decremented(@)]

---------------------------------------------------------------------------
(* "Before" hooks, in the order of CoreFlowPolicy.                         *)

PreserveDeploymentConcurrencyLeaseId(c) ==
  IF c.initial.type # "NONE" /\ c.proposed.type # "NONE" /\ c.proposed.lease = NoLease
  THEN [c EXCEPT !.proposed.lease = c.initial.lease]
  ELSE c

\* Mutant: a repeated Running is taken for progress.
PreventDuplicateTransitionsNotRunning(c) ==
  IF /\ Governs(c, StateTypes \ {"RUNNING"}, AllTypes)
     /\ c.proposed.tid # NoTid
     /\ c.proposed.tid = c.initial.tid
  THEN Reject(c, NoState)
  ELSE c

PreventDuplicateTransitions(c) ==
  IF /\ Governs(c, StateTypes, AllTypes)
     /\ c.proposed.tid # NoTid
     /\ c.proposed.tid = c.initial.tid
  THEN Reject(c, NoState)
  ELSE c

DiscardsResult(c) ==
  /\ c.initial.type = "COMPLETED" /\ c.initial.persisted
  /\ c.proposed.type = "COMPLETED" /\ ~c.proposed.persisted

LeavesResult(c) ==
  c.initial.type = "COMPLETED" /\ c.initial.persisted /\ ~Terminal(c.proposed)

\* Leaving a terminal state for a non-terminal one starts a new attempt.
NewAttempt(c) ==
  IF Terminal(c.proposed)
  THEN c
  ELSE [c EXCEPT !.run.policy =
          [resuming |-> FALSE, pauseKeys |-> {},
           retryType |-> IF c.proposed.type = "SCHEDULED" THEN "reschedule" ELSE "none"]]

\* Mutant: protects a persisted result from other types only.
HandleFlowTerminalStateTransitionsLosingResult(c) ==
  IF ~Governs(c, TerminalTypes, AllTypes) THEN c
  ELSE LET s == [c EXCEPT !.saved = c.run.policy]
       IN Enter("Terminal",
            IF c.proposed.type \in {"CANCELLING", "PAUSED", "CRASHED"} THEN Abort(s)
            ELSE IF LeavesResult(c) THEN Reject(s, NoState)
            ELSE IF c.proposed.type = "SCHEDULED" /\ ~c.deployed THEN Abort(s)
            ELSE NewAttempt(s))

HandleFlowTerminalStateTransitions(c) ==
  IF ~Governs(c, TerminalTypes, AllTypes) THEN c
  ELSE LET s == [c EXCEPT !.saved = c.run.policy]
       IN Enter("Terminal",
            IF c.proposed.type \in {"CANCELLING", "PAUSED", "CRASHED"} THEN Abort(s)
            ELSE IF LeavesResult(c) \/ DiscardsResult(c) THEN Reject(s, NoState)
            ELSE IF c.proposed.type = "SCHEDULED" /\ ~c.deployed THEN Abort(s)
            ELSE NewAttempt(s))

\* Mutant: lets the engine that is being cancelled report Running.
EnforceCancellingToCancelledTransitionButRunning(c) ==
  IF Governs(c, {"CANCELLING"}, AllTypes \ {"CANCELLED", "RUNNING"})
  THEN Reject(c, NoState)
  ELSE c

EnforceCancellingToCancelledTransition(c) ==
  IF Governs(c, {"CANCELLING"}, AllTypes \ {"CANCELLED"})
  THEN Reject(c, NoState)
  ELSE c

BypassCancellingFlowRunsWithNoInfra(c) ==
  IF /\ Governs(c, {"SCHEDULED", "PAUSED"}, {"CANCELLING"})
     /\ \/ c.initial.type = "SCHEDULED" /\ ~c.run.pid
        \/ c.initial.name = "Resuming"
        \/ c.initial.type = "PAUSED" /\ c.initial.reschedule
  THEN Reject(c, NewState("CANCELLED"))
  ELSE c

\* Mutant: any change of name counts as progress.
PreventPendingTransitionsByName(c) ==
  IF ~Governs(c, {"PENDING", "CANCELLING", "RUNNING", "CANCELLED"}, {"PENDING"}) THEN c
  ELSE IF c.initial.type = "PENDING" /\ c.initial.name # c.proposed.name
       THEN [c EXCEPT !.proposed.sched = c.initial.sched,
                      !.proposed.lease = c.initial.lease]
       ELSE Abort(c)

\* PENDING -> PENDING is for progress through named sub-states only.
PreventPendingTransitions(c) ==
  IF ~Governs(c, {"PENDING", "CANCELLING", "RUNNING", "CANCELLED"}, {"PENDING"}) THEN c
  ELSE IF /\ c.initial.type = "PENDING"
          /\ c.initial.name # c.proposed.name
          /\ c.proposed.name # "default"
       THEN [c EXCEPT !.proposed.sched = c.initial.sched,
                      !.proposed.lease = c.initial.lease]
       ELSE Abort(c)

ValidateDeploymentConcurrencyAtRunning(c) ==
  IF ~Governs(c, {"PENDING"}, {"RUNNING"}) THEN c
  ELSE LET l == c.initial.lease
           k == [c EXCEPT !.proposed.lease = l]
       IN IF l = NoLease \/ c.client # "leasing" \/ ~c.limited THEN k
          ELSE IF Exists(c, l) THEN [k EXCEPT !.leases[l] = "live"]
          ELSE IF CanAcquire(c) THEN AcquireLease(k)
          ELSE Reject(k, NewState("CANCELLED"))

SecureFlowConcurrencySlots(c) ==
  IF ~Governs(c, AllTypes \ {"PENDING", "RUNNING", "CANCELLING"}, {"PENDING"}) THEN c
  ELSE Enter("Secure",
         IF ~c.limited \/ c.client = "managing" THEN c
         ELSE IF Limit = 0 THEN Abort(c)
         ELSE IF CanAcquire(c) THEN AcquireLease(c)
         ELSE IF Strategy = "ENQUEUE"
              THEN Reject(c, Scheduled("AwaitingConcurrencySlot", "future"))
              ELSE Reject(c, NewState("CANCELLED")))

RemoveDeploymentConcurrencyLeaseForOldClientVersions(c) ==
  IF Governs(c, {"PENDING"}, {"RUNNING", "CANCELLING"}) THEN Enter("RemoveLease", c) ELSE c

\* Mutant: only keeps Late from being repeated.
EnsureOnlyScheduledFlowsMarkedLateOnce(c) ==
  IF /\ Governs(c, StateTypes, {"SCHEDULED"})
     /\ c.proposed.name = "Late" /\ c.initial.name = "Late"
  THEN Reject(c, NoState)
  ELSE c

EnsureOnlyScheduledFlowsMarkedLate(c) ==
  IF /\ Governs(c, StateTypes, {"SCHEDULED"})
     /\ c.proposed.name = "Late"
     /\ (c.initial.type # "SCHEDULED" \/ c.initial.name = "Late")
  THEN Reject(c, NoState)
  ELSE c

HandlePausingFlows(c) ==
  IF ~Governs(c, AllTypes, {"PAUSED"}) THEN c
  ELSE Enter("Pausing",
         IF c.initial.type = "NONE" THEN Abort(c)
         ELSE IF \/ c.initial.type # "RUNNING"
                 \/ c.proposed.key \in c.run.policy.pauseKeys
              THEN Reject(c, NoState)
         ELSE IF c.proposed.reschedule /\ (c.subflow \/ ~c.deployed) THEN Abort(c)
         ELSE c)

HandleResumingPausedFlows(c) ==
  IF ~Governs(c, {"PAUSED"}, AllTypes) THEN c
  ELSE Enter("Resuming",
         IF \/ c.proposed.type \in {"PENDING", "PAUSED"}
            \/ c.initial.reschedule /\ ~c.deployed
         THEN Reject(c, NoState)
         ELSE IF c.proposed.type # "CANCELLING" /\ c.initial.timeout = "elapsed"
              THEN Reject(c, NewState("FAILED"))
         ELSE c)

\* Mutant: the scheduled time is lost on the way to Pending.
CopyScheduledTimeNever(c) == c

CopyScheduledTime(c) ==
  IF Governs(c, {"SCHEDULED"}, {"PENDING"}) /\ c.proposed.sched = "none"
  THEN [c EXCEPT !.proposed.sched = c.initial.sched]
  ELSE c

WaitForScheduledTime(c) ==
  IF Governs(c, {"SCHEDULED", "PENDING"}, {"RUNNING"}) /\ c.initial.sched = "future"
  THEN Delay(c)
  ELSE c

\* Mutant: off by one, the first run is not counted.
RetryFailedFlowsOnceMore(c) ==
  IF ~Governs(c, {"RUNNING"}, {"FAILED"}) THEN c
  ELSE IF c.run.count > Retries + 1
       THEN [c EXCEPT !.run.policy.retryType = "none"]
       ELSE Reject([c EXCEPT !.run.policy =
                      [resuming |-> FALSE, pauseKeys |-> {}, retryType |-> "in_process"]],
                   [Scheduled("AwaitingRetry", "future")
                      EXCEPT !.lease = c.initial.lease])

RetryFailedFlows(c) ==
  IF ~Governs(c, {"RUNNING"}, {"FAILED"}) THEN c
  ELSE IF c.run.count > Retries
       THEN [c EXCEPT !.run.policy.retryType = "none"]
       ELSE Reject([c EXCEPT !.run.policy =
                      [resuming |-> FALSE, pauseKeys |-> {}, retryType |-> "in_process"]],
                   [Scheduled("AwaitingRetry", "future")
                      EXCEPT !.lease = c.initial.lease])

\* Mutant: protects a persisted result from other terminal types only.
PreventResultDataLossToOthers(c) ==
  IF Governs(c, TerminalTypes, TerminalTypes \ {"COMPLETED"}) /\ DiscardsResult(c)
  THEN Reject(c, NoState)
  ELSE c

PreventResultDataLoss(c) ==
  IF Governs(c, TerminalTypes, TerminalTypes) /\ DiscardsResult(c)
  THEN Reject(c, NoState)
  ELSE c

EnforceDeploymentConcurrencyOnLate(c) ==
  IF /\ Governs(c, {"SCHEDULED"}, {"SCHEDULED"})
     /\ c.proposed.name = "Late"
     /\ c.limited /\ Strategy = "CANCEL_NEW" /\ c.slots >= Limit
  THEN Reject(c, NewState("CANCELLED"))
  ELSE c

---------------------------------------------------------------------------
(* Global transforms: what every written state does to the run.            *)

SetStartTime(c) ==
  IF c.proposed.type = "RUNNING" THEN [c EXCEPT !.run.started = TRUE] ELSE c

\* Mutant: the end time of an earlier attempt stays.
SetEndTimeOnly(c) ==
  IF Terminal(c.proposed)
  THEN [c EXCEPT !.run.started = TRUE, !.run.ended = TRUE]
  ELSE c

SetEndTime(c) ==
  CASE Terminal(c.proposed) -> [c EXCEPT !.run.started = TRUE, !.run.ended = TRUE]
    [] Terminal(c.initial) /\ ~Terminal(c.proposed) -> [c EXCEPT !.run.ended = FALSE]
    [] OTHER -> c

IncrementFlowRunCount(c) ==
  IF c.proposed.type = "RUNNING" /\ ~c.run.policy.resuming
  THEN [c EXCEPT !.run.count = @ + 1]
  ELSE c

RemoveResumingIndicator(c) ==
  IF c.proposed.type = "RUNNING" \/ Terminal(c.proposed)
  THEN [c EXCEPT !.run.policy.resuming = FALSE]
  ELSE c

GlobalFlowPolicy(c) ==
  IF c.proposed.type = "NONE" THEN c
  ELSE RemoveResumingIndicator(IncrementFlowRunCount(SetEndTime(SetStartTime(c))))

---------------------------------------------------------------------------
(* "After" and "cleanup" hooks; the stack unwinds from the last rule.      *)

\* A transform of the policy, so it sees every transition that writes a state.
ReleaseFlowConcurrencySlots(c) ==
  IF /\ c.initial.type \in {"RUNNING", "CANCELLING", "PENDING"}
     /\ c.proposed.type \notin {"NONE", "PENDING", "RUNNING", "CANCELLING"}
     /\ ~(c.proposed.type = "SCHEDULED" /\ c.proposed.name = "AwaitingRetry"
            /\ c.status = "REJECT")
     /\ c.limited
  THEN ReleaseLease(c, c.initial.lease)
  ELSE c

\* The state of the run once the transition is over.
Validated(c) == IF c.proposed.type = "NONE" THEN c.initial ELSE c.proposed

\* Mutant: a suspended run is reset like a blocking pause that is rescheduled.
AfterResumingAnew(c) ==
  IF ~Survives(c, "Resuming", AllTypes) THEN c
  ELSE IF Validated(c).type = "SCHEDULED"
       THEN [c EXCEPT !.run.policy =
               [resuming |-> FALSE, pauseKeys |-> {}, retryType |-> "reschedule"]]
       ELSE [c EXCEPT !.run.policy.resuming = TRUE]

AfterResuming(c) ==
  IF ~Survives(c, "Resuming", AllTypes) THEN c
  ELSE IF ~c.initial.reschedule /\ Validated(c).type = "SCHEDULED"
       THEN [c EXCEPT !.run.policy =
               [resuming |-> FALSE, pauseKeys |-> {}, retryType |-> "reschedule"]]
       ELSE [c EXCEPT !.run.policy.resuming = TRUE]

\* A pause without a key of its own gets a fresh one, which never fires again.
AfterPausing(c) ==
  IF Survives(c, "Pausing", {"PAUSED"})
  THEN [c EXCEPT !.run.policy.pauseKeys = @ \cup ({c.proposed.key} \cap Keys)]
  ELSE c

AfterRemoveLease(c) ==
  IF Survives(c, "RemoveLease", {"RUNNING", "CANCELLING"}) /\ c.client # "leasing"
  THEN Revoke(c, c.initial.lease)
  ELSE c

\* Mutant: revokes the lease that was acquired in vain and keeps its slot.
CleanupSecureLeaseOnly(c) ==
  IF Fizzles(c, "Secure", {"PENDING"}) /\ c.acquired # NoLease
  THEN Revoke(c, c.acquired)
  ELSE c

CleanupSecure(c) ==
  IF Fizzles(c, "Secure", {"PENDING"}) /\ c.acquired # NoLease
  THEN ReleaseLease(c, c.acquired)
  ELSE c

CleanupTerminal(c) ==
  IF Fizzles(c, "Terminal", AllTypes) THEN [c EXCEPT !.run.policy = c.saved] ELSE c

---------------------------------------------------------------------------
(* The three flow policies.                                                *)

CoreBeforeConcurrency(c) ==
  PreventPendingTransitions(
    BypassCancellingFlowRunsWithNoInfra(
      EnforceCancellingToCancelledTransition(
        HandleFlowTerminalStateTransitions(
          PreventDuplicateTransitions(
            PreserveDeploymentConcurrencyLeaseId(c))))))

CoreBeforeTiming(c) ==
  HandleResumingPausedFlows(
    HandlePausingFlows(
      EnsureOnlyScheduledFlowsMarkedLate(
        RemoveDeploymentConcurrencyLeaseForOldClientVersions(
          SecureFlowConcurrencySlots(
            ValidateDeploymentConcurrencyAtRunning(c))))))

CoreBefore(c) ==
  RetryFailedFlows(
    WaitForScheduledTime(
      CopyScheduledTime(
        CoreBeforeTiming(
          CoreBeforeConcurrency(c)))))

CoreAfter(c) ==
  CleanupTerminal(
    CleanupSecure(
      AfterRemoveLease(
        AfterPausing(
          AfterResuming(
            ReleaseFlowConcurrencySlots(c))))))

CoreFlowPolicy(c) == CoreAfter(GlobalFlowPolicy(CoreBefore(c)))

MinimalFlowPolicy(c) ==
  ReleaseFlowConcurrencySlots(
    GlobalFlowPolicy(
      BypassCancellingFlowRunsWithNoInfra(
        PreventResultDataLoss(
          PreserveDeploymentConcurrencyLeaseId(c)))))

MarkLateRunsPolicy(c) ==
  GlobalFlowPolicy(
    EnforceDeploymentConcurrencyOnLate(
      EnsureOnlyScheduledFlowsMarkedLate(c)))

=============================================================================
