--------------------- MODULE FlowRunOrchestrationProofs ---------------------
(***************************************************************************)
(* Proofs about FlowRunRules and FlowRunOrchestration.                     *)
(***************************************************************************)
EXTENDS FlowRunOrchestration, FiniteSetTheorems, TLAPS

LEMMA NewStateType == \A type \in AllTypes : NewState(type) \in State
BY RulesAssumption DEF NewState, State, StateNames, ScheduledTimes, Timeouts

LEMMA NoStateType == NoState \in State /\ NoState.type = "NONE"
BY NewStateType DEF NoState, AllTypes, NewState

LEMMA ScheduledType ==
  ASSUME NEW name \in StateNames, NEW sched \in ScheduledTimes
  PROVE  Scheduled(name, sched) \in State /\ Scheduled(name, sched).type = "SCHEDULED"
<1>1. NewState("SCHEDULED") \in State /\ NewState("SCHEDULED").type = "SCHEDULED"
  BY NewStateType DEF NewState, AllTypes, StateTypes
<1> QED BY <1>1 DEF Scheduled, State

LEMMA RejectType ==
  ASSUME NEW c \in Context, NEW s \in State
  PROVE  Reject(c, s) \in Context
BY DEF Reject, Context

LEMMA AbortType ==
  ASSUME NEW c \in Context
  PROVE  Abort(c) \in Context /\ Delay(c) \in Context
BY NoStateType DEF Abort, Delay, Context

LEMMA EnterType ==
  ASSUME NEW c \in Context, NEW h \in HookRules
  PROVE  Enter(h, c) \in Context
BY DEF Enter, Context, State

LEMMA AcquireType ==
  ASSUME NEW c \in Context
  PROVE  AcquireLease(c) \in Context
<1>1. c.fresh \in LeaseIds /\ c.slots + 1 \in Nat
  BY DEF Context
<1>2. [c.leases EXCEPT ![c.fresh] = "live"] \in [LeaseIds -> LeaseStatus]
  BY DEF Context, LeaseStatus
<1>3. [c.proposed EXCEPT !.lease = c.fresh] \in State
  BY <1>1 DEF Context, State
<1>4. AcquireLease(c) = [c EXCEPT !.slots = c.slots + 1,
                                   !.leases = [c.leases EXCEPT ![c.fresh] = "live"],
                                   !.acquired = c.fresh,
                                   !.proposed = [c.proposed EXCEPT !.lease = c.fresh]]
  BY DEF AcquireLease, Context
<1> QED BY <1>1, <1>2, <1>3, <1>4 DEF Context

LEMMA RevokeType ==
  ASSUME NEW c \in Context, NEW l
  PROVE  Revoke(c, l) \in Context
<1>1. [k \in LeaseIds |-> IF k = l THEN "absent" ELSE c.leases[k]] \in [LeaseIds -> LeaseStatus]
  BY DEF Context, LeaseStatus
<1> QED BY <1>1 DEF Revoke, Context

LEMMA ReleaseType ==
  ASSUME NEW c \in Context, NEW l
  PROVE  ReleaseLease(c, l) \in Context
<1>1. Revoke(c, l) \in Context
  BY RevokeType
<1>2. Decremented(Revoke(c, l).slots) \in Nat
  BY <1>1 DEF Decremented, Context
<1> QED BY <1>1, <1>2 DEF ReleaseLease, Context

LEMMA PreserveType ==
  ASSUME NEW c \in Context
  PROVE  PreserveDeploymentConcurrencyLeaseId(c) \in Context
BY DEF PreserveDeploymentConcurrencyLeaseId, Context, State

\* Replacing the columns of the run.
LEMMA RunType ==
  ASSUME NEW c \in Context, NEW d \in FlowRun
  PROVE  [c EXCEPT !.run = d] \in Context
BY DEF Context

LEMMA PolicyType ==
  ASSUME NEW c \in Context, NEW p \in EmpiricalPolicy
  PROVE  [c EXCEPT !.run.policy = p] \in Context
<1>1. [c.run EXCEPT !.policy = p] \in FlowRun
  BY DEF Context, FlowRun
<1> QED BY <1>1 DEF Context

LEMMA TerminalRuleType ==
  ASSUME NEW c \in Context
  PROVE  HandleFlowTerminalStateTransitions(c) \in Context
<1> DEFINE s == [c EXCEPT !.saved = c.run.policy]
<1>1. s \in Context
  BY DEF Context, FlowRun
<1>2. NewAttempt(s) \in Context
  BY <1>1, PolicyType DEF NewAttempt, EmpiricalPolicy, RetryTypes
<1>3. Abort(s) \in Context /\ Reject(s, NoState) \in Context
  BY <1>1, RejectType, AbortType, NoStateType
<1> HIDE DEF s
<1> DEFINE t == IF c.proposed.type \in {"CANCELLING", "PAUSED", "CRASHED"} THEN Abort(s)
                ELSE IF LeavesResult(c) \/ DiscardsResult(c) THEN Reject(s, NoState)
                ELSE IF c.proposed.type = "SCHEDULED" /\ ~c.deployed THEN Abort(s)
                ELSE NewAttempt(s)
<1>4. t \in Context
  BY <1>2, <1>3
<1>5. Enter("Terminal", t) \in Context
  BY <1>4, EnterType DEF HookRules
<1> QED BY <1>5 DEF HandleFlowTerminalStateTransitions, s

LEMMA DuplicateType ==
  ASSUME NEW c \in Context
  PROVE  PreventDuplicateTransitions(c) \in Context
BY RejectType, NoStateType DEF PreventDuplicateTransitions

LEMMA CancellingType ==
  ASSUME NEW c \in Context
  PROVE  EnforceCancellingToCancelledTransition(c) \in Context
BY RejectType, NoStateType DEF EnforceCancellingToCancelledTransition

LEMMA BypassType ==
  ASSUME NEW c \in Context
  PROVE  BypassCancellingFlowRunsWithNoInfra(c) \in Context
BY RejectType, NewStateType DEF BypassCancellingFlowRunsWithNoInfra, AllTypes, StateTypes

LEMMA PendingType ==
  ASSUME NEW c \in Context
  PROVE  PreventPendingTransitions(c) \in Context
<1> DEFINE p == [c.proposed EXCEPT !.sched = c.initial.sched, !.lease = c.initial.lease]
<1>1. p \in State
  BY DEF Context, State
<1>2. [c EXCEPT !.proposed.sched = c.initial.sched, !.proposed.lease = c.initial.lease]
        = [c EXCEPT !.proposed = p]
  BY DEF Context, State
<1>3. [c EXCEPT !.proposed = p] \in Context
  BY <1>1 DEF Context
<1> QED BY <1>2, <1>3, AbortType DEF PreventPendingTransitions

LEMMA ValidateType ==
  ASSUME NEW c \in Context
  PROVE  ValidateDeploymentConcurrencyAtRunning(c) \in Context
<1> DEFINE l == c.initial.lease
           k == [c EXCEPT !.proposed.lease = l]
<1>1. k \in Context
  BY DEF Context, State
<1>2. [k.leases EXCEPT ![l] = "live"] \in [LeaseIds -> LeaseStatus]
  BY <1>1 DEF Context, LeaseStatus
<1>3. [k EXCEPT !.leases[l] = "live"] \in Context
  BY <1>1, <1>2 DEF Context
<1>4. AcquireLease(k) \in Context
  BY <1>1, AcquireType
<1>5. Reject(k, NewState("CANCELLED")) \in Context
  BY <1>1, RejectType, NewStateType DEF AllTypes, StateTypes
<1> HIDE DEF k, l
<1> QED BY <1>1, <1>3, <1>4, <1>5 DEF ValidateDeploymentConcurrencyAtRunning, k, l

LEMMA SecureType ==
  ASSUME NEW c \in Context
  PROVE  SecureFlowConcurrencySlots(c) \in Context
<1>1. Scheduled("AwaitingConcurrencySlot", "future") \in State
  BY ScheduledType DEF StateNames, ScheduledTimes
<1>2. NewState("CANCELLED") \in State
  BY NewStateType DEF AllTypes, StateTypes
<1> DEFINE t == IF ~c.limited \/ c.client = "managing" THEN c
                ELSE IF Limit = 0 THEN Abort(c)
                ELSE IF CanAcquire(c) THEN AcquireLease(c)
                ELSE IF Strategy = "ENQUEUE"
                     THEN Reject(c, Scheduled("AwaitingConcurrencySlot", "future"))
                     ELSE Reject(c, NewState("CANCELLED"))
<1>3. t \in Context
  BY <1>1, <1>2, AbortType, AcquireType, RejectType
<1>4. Enter("Secure", t) \in Context
  BY <1>3, EnterType DEF HookRules
<1> QED BY <1>4 DEF SecureFlowConcurrencySlots

LEMMA EntersType ==
  ASSUME NEW c \in Context
  PROVE  /\ RemoveDeploymentConcurrencyLeaseForOldClientVersions(c) \in Context
         /\ EnsureOnlyScheduledFlowsMarkedLate(c) \in Context
BY EnterType, RejectType, NoStateType
   DEF RemoveDeploymentConcurrencyLeaseForOldClientVersions, HookRules,
       EnsureOnlyScheduledFlowsMarkedLate

LEMMA PausingType ==
  ASSUME NEW c \in Context
  PROVE  HandlePausingFlows(c) \in Context
<1>1. Abort(c) \in Context /\ Reject(c, NoState) \in Context
  BY AbortType, RejectType, NoStateType
<1>2. \A t \in Context : Enter("Pausing", t) \in Context
  BY EnterType DEF HookRules
<1> QED BY <1>1, <1>2 DEF HandlePausingFlows

LEMMA ResumingType ==
  ASSUME NEW c \in Context
  PROVE  HandleResumingPausedFlows(c) \in Context
<1>1. Reject(c, NewState("FAILED")) \in Context /\ Reject(c, NoState) \in Context
  BY RejectType, NoStateType, NewStateType DEF AllTypes, StateTypes
<1>2. \A t \in Context : Enter("Resuming", t) \in Context
  BY EnterType DEF HookRules
<1> QED BY <1>1, <1>2 DEF HandleResumingPausedFlows

LEMMA TimingType ==
  ASSUME NEW c \in Context
  PROVE  CopyScheduledTime(c) \in Context /\ WaitForScheduledTime(c) \in Context
<1>1. [c.proposed EXCEPT !.sched = c.initial.sched] \in State
  BY DEF Context, State
<1>2. [c EXCEPT !.proposed.sched = c.initial.sched] \in Context
  BY <1>1 DEF Context
<1> QED BY <1>2, AbortType DEF CopyScheduledTime, WaitForScheduledTime

LEMMA RetryType ==
  ASSUME NEW c \in Context
  PROVE  RetryFailedFlows(c) \in Context
<1> DEFINE p == [resuming |-> FALSE, pauseKeys |-> {}, retryType |-> "in_process"]
           q == [c.run.policy EXCEPT !.retryType = "none"]
           s == [Scheduled("AwaitingRetry", "future") EXCEPT !.lease = c.initial.lease]
<1>1. p \in EmpiricalPolicy /\ q \in EmpiricalPolicy
  BY DEF Context, FlowRun, EmpiricalPolicy, RetryTypes
<1>2. Scheduled("AwaitingRetry", "future") \in State
  BY ScheduledType DEF StateNames, ScheduledTimes
<1>3. s \in State
  BY <1>2 DEF State, Context
<1>4. [c EXCEPT !.run.policy = p] \in Context /\ [c EXCEPT !.run.policy = q] \in Context
  BY <1>1, PolicyType
<1>5. Reject([c EXCEPT !.run.policy = p], s) \in Context
  BY <1>3, <1>4, RejectType
<1>6. [c EXCEPT !.run.policy.retryType = "none"] = [c EXCEPT !.run.policy = q]
  BY DEF Context, FlowRun
<1> HIDE DEF q, s
<1> QED BY <1>4, <1>5, <1>6 DEF RetryFailedFlows, s

LEMMA MinimalRulesType ==
  ASSUME NEW c \in Context
  PROVE  /\ PreventResultDataLoss(c) \in Context
         /\ EnforceDeploymentConcurrencyOnLate(c) \in Context
BY RejectType, NoStateType, NewStateType
   DEF PreventResultDataLoss, EnforceDeploymentConcurrencyOnLate, AllTypes, StateTypes

LEMMA GlobalRulesType ==
  ASSUME NEW c \in Context
  PROVE  /\ SetStartTime(c) \in Context
         /\ SetEndTime(c) \in Context
         /\ IncrementFlowRunCount(c) \in Context
         /\ RemoveResumingIndicator(c) \in Context
<1> DEFINE d == c.run
<1>1. d \in FlowRun
  BY DEF Context
<1>2. [c EXCEPT !.run.started = TRUE] \in Context
  <2>1. [d EXCEPT !.started = TRUE] \in FlowRun
    BY <1>1 DEF FlowRun
  <2> QED BY <2>1 DEF Context
<1>3. [c EXCEPT !.run.started = TRUE, !.run.ended = TRUE] \in Context
  <2>1. [d EXCEPT !.started = TRUE, !.ended = TRUE] \in FlowRun
    BY <1>1 DEF FlowRun
  <2>2. [c EXCEPT !.run.started = TRUE, !.run.ended = TRUE]
          = [c EXCEPT !.run = [d EXCEPT !.started = TRUE, !.ended = TRUE]]
    BY DEF Context, FlowRun
  <2> QED BY <2>1, <2>2, RunType
<1>4. [c EXCEPT !.run.ended = FALSE] \in Context
  <2>1. [d EXCEPT !.ended = FALSE] \in FlowRun
    BY <1>1 DEF FlowRun
  <2> QED BY <2>1 DEF Context
<1>5. [c EXCEPT !.run.count = @ + 1] \in Context
  <2>1. [d EXCEPT !.count = @ + 1] \in FlowRun
    BY <1>1 DEF FlowRun
  <2> QED BY <2>1 DEF Context
<1>6. [c EXCEPT !.run.policy.resuming = FALSE] \in Context
  <2>1. [d.policy EXCEPT !.resuming = FALSE] \in EmpiricalPolicy
    BY <1>1 DEF FlowRun, EmpiricalPolicy
  <2>2. [c EXCEPT !.run.policy.resuming = FALSE]
          = [c EXCEPT !.run.policy = [d.policy EXCEPT !.resuming = FALSE]]
    BY DEF Context, FlowRun
  <2> QED BY <2>1, <2>2, PolicyType
<1> QED BY <1>2, <1>3, <1>4, <1>5, <1>6
        DEF SetStartTime, SetEndTime, IncrementFlowRunCount, RemoveResumingIndicator

LEMMA GlobalType ==
  ASSUME NEW c \in Context
  PROVE  GlobalFlowPolicy(c) \in Context
BY GlobalRulesType DEF GlobalFlowPolicy

LEMMA AfterType ==
  ASSUME NEW c \in Context
  PROVE  /\ ReleaseFlowConcurrencySlots(c) \in Context
         /\ AfterResuming(c) \in Context
         /\ AfterPausing(c) \in Context
         /\ AfterRemoveLease(c) \in Context
         /\ CleanupSecure(c) \in Context
         /\ CleanupTerminal(c) \in Context
<1>1. ReleaseFlowConcurrencySlots(c) \in Context
  BY ReleaseType DEF ReleaseFlowConcurrencySlots
<1>2. AfterResuming(c) \in Context
  <2>1. [resuming |-> FALSE, pauseKeys |-> {}, retryType |-> "reschedule"] \in EmpiricalPolicy
    BY DEF EmpiricalPolicy, RetryTypes
  <2>2. [c.run.policy EXCEPT !.resuming = TRUE] \in EmpiricalPolicy
    BY DEF Context, FlowRun, EmpiricalPolicy
  <2>3. [c EXCEPT !.run.policy.resuming = TRUE]
          = [c EXCEPT !.run.policy = [c.run.policy EXCEPT !.resuming = TRUE]]
    BY DEF Context, FlowRun
  <2> QED BY <2>1, <2>2, <2>3, PolicyType DEF AfterResuming
<1>3. AfterPausing(c) \in Context
  <2> DEFINE q == [c.run.policy EXCEPT !.pauseKeys = @ \cup ({c.proposed.key} \cap Keys)]
  <2>1. q \in EmpiricalPolicy
    BY DEF Context, FlowRun, EmpiricalPolicy
  <2>2. [c EXCEPT !.run.policy.pauseKeys = @ \cup ({c.proposed.key} \cap Keys)]
          = [c EXCEPT !.run.policy = q]
    BY DEF Context, FlowRun
  <2> HIDE DEF q
  <2> QED BY <2>1, <2>2, PolicyType DEF AfterPausing
<1>4. AfterRemoveLease(c) \in Context
  BY RevokeType DEF AfterRemoveLease
<1>5. CleanupSecure(c) \in Context
  BY ReleaseType DEF CleanupSecure
<1>6. CleanupTerminal(c) \in Context
  BY PolicyType DEF CleanupTerminal, Context
<1> QED BY <1>1, <1>2, <1>3, <1>4, <1>5, <1>6

\* The three policies keep the types of a context.
LEMMA PoliciesType ==
  ASSUME NEW c \in Context
  PROVE  /\ CoreFlowPolicy(c) \in Context
         /\ MinimalFlowPolicy(c) \in Context
         /\ MarkLateRunsPolicy(c) \in Context
<1>1. \A d \in Context : CoreBeforeConcurrency(d) \in Context
  BY PreserveType, DuplicateType, TerminalRuleType, CancellingType, BypassType, PendingType
     DEF CoreBeforeConcurrency
<1>2. \A d \in Context : CoreBeforeTiming(d) \in Context
  BY ValidateType, SecureType, EntersType, PausingType, ResumingType DEF CoreBeforeTiming
<1>3. \A d \in Context : CoreBefore(d) \in Context
  BY <1>1, <1>2, TimingType, RetryType DEF CoreBefore
<1>4. \A d \in Context : CoreAfter(d) \in Context
  BY AfterType DEF CoreAfter
<1>5. CoreFlowPolicy(c) \in Context
  BY <1>3, <1>4, GlobalType DEF CoreFlowPolicy
<1>6. MinimalFlowPolicy(c) \in Context
  BY PreserveType, MinimalRulesType, BypassType, GlobalType, AfterType DEF MinimalFlowPolicy
<1>7. MarkLateRunsPolicy(c) \in Context
  BY EntersType, MinimalRulesType, GlobalType DEF MarkLateRunsPolicy
<1> QED BY <1>5, <1>6, <1>7

---------------------------------------------------------------------------
(* Type correctness.                                                       *)

\* A state whose lease id is free exists, so the fresh id is one of them.
LEMMA FreshType == Free # {} => FreshLease \in Free /\ FreshLease \in LeaseIds
BY DEF FreshLease, Free

LEMMA TransitionType ==
  ASSUME TypeOK, Free # {}, NEW r \in Runs, NEW s \in State, NEW d \in FlowRun,
         NEW p \in State, p.type \in StateTypes, NEW client \in ClientVersions
  PROVE  Transition(r, s, d, p, client) \in Context
<1>1. d.policy \in EmpiricalPolicy
  BY DEF FlowRun
<1>2. [h \in HookRules |-> "INVALID"] \in [HookRules -> AllTypes \cup {"INVALID"}]
  OBVIOUS
<1> QED BY <1>1, <1>2, FreshType DEF Transition, Context, TypeOK

LEMMA RecordedType ==
  ASSUME NEW h \in History, NEW s \in State, NEW c \in Context, NEW forced \in BOOLEAN
  PROVE  Recorded(h, s, c, forced) \in History
<1> DEFINE t == c.proposed
           retried == s.type = "RUNNING" /\ t.name = "AwaitingRetry" /\ c.status = "REJECT"
           first == IF StartsAttempt(s, t, retried) THEN {} ELSE h.fired
           begins == Terminal(t) \/ t.type = "SCHEDULED" \/ forced
           since == IF begins THEN 0 ELSE h.submitted
<1>1. first \in SUBSET Keys /\ first \cup ({t.key} \cap Keys) \in SUBSET Keys
  BY DEF History
<1>2. since \in Nat /\ h.used \in Nat
  BY DEF History
<1>3. (IF begins THEN t.type = "SCHEDULED" /\ t.sched = "future" ELSE h.waiting) \in BOOLEAN
  BY DEF History
<1>4. h.used + (IF retried THEN 1 ELSE 0) \in Nat
  BY <1>2
<1>5. since + (IF Resubmission(t, forced) THEN 1 ELSE 0) \in Nat
  BY <1>2
<1>6. Recorded(h, s, c, forced) =
        [used |-> h.used + (IF retried THEN 1 ELSE 0),
         fired |-> IF t.type = "PAUSED" /\ ~forced THEN first \cup ({t.key} \cap Keys) ELSE first,
         submitted |-> since + (IF Resubmission(t, forced) THEN 1 ELSE 0),
         waiting |-> IF begins THEN t.type = "SCHEDULED" /\ t.sched = "future" ELSE h.waiting]
  BY DEF Recorded
<1> HIDE DEF t, retried, first, begins, since
<1> QED BY <1>1, <1>3, <1>4, <1>5, <1>6 DEF History

LEMMA CommitType ==
  ASSUME TypeOK, NEW r \in Runs, NEW d \in FlowRun, NEW c \in Context,
         NEW forced \in BOOLEAN, Commit(r, d, c, forced)
  PROVE  /\ st' \in [Runs -> State]
         /\ run' \in [Runs -> FlowRun]
         /\ slots' \in Nat
         /\ leases' \in [LeaseIds -> LeaseStatus]
         /\ hist' \in [Runs -> History]
<1>1. Columns(d, c.run, run[r]) \in FlowRun
  BY DEF TypeOK, Columns, Column, FlowRun, Context
<1>2. run' \in [Runs -> FlowRun]
  BY <1>1 DEF Commit, TypeOK
<1>3. Recorded(hist[r], c.initial, c, forced) \in History
  BY RecordedType DEF TypeOK, Context
<1>4. st' \in [Runs -> State] /\ hist' \in [Runs -> History]
  <2>1. CASE c.proposed.type = "NONE"
    BY <2>1 DEF Commit, TypeOK
  <2>2. CASE c.proposed.type # "NONE"
    <3>1. c.proposed \in State
      BY DEF Context
    <3>2. st' = [st EXCEPT ![r] = c.proposed]
      BY <2>2 DEF Commit
    <3>3. hist' = [hist EXCEPT ![r] = Recorded(hist[r], c.initial, c, forced)]
      BY <2>2 DEF Commit, TypeOK
    <3> QED BY <1>3, <3>1, <3>2, <3>3 DEF TypeOK
  <2> QED BY <2>1, <2>2
<1>5. slots' \in Nat /\ leases' \in [LeaseIds -> LeaseStatus]
  BY DEF Commit, Context
<1> QED BY <1>2, <1>4, <1>5

LEMMA CheckType ==
  ASSUME TypeOK, NEW r \in Runs, NEW c
  PROVE  Scheduling(r, c) \subseteq CheckStatus /\ Staled(r, c) \in CheckStatus
BY DEF Scheduling, Staled, TypeOK, CheckStatus

LEMMA InitialTypes ==
  /\ NoState \in State
  /\ NewRun \in FlowRun
  /\ NewHistory \in History
  /\ NoRead \in [by: Readers, state: State, run: FlowRun]
<1>1. NewPolicy \in EmpiricalPolicy
  BY DEF NewPolicy, EmpiricalPolicy, RetryTypes
<1>2. NewRun \in FlowRun
  BY <1>1 DEF NewRun, FlowRun
<1> QED BY <1>2, NoStateType
        DEF NewHistory, History, NoRead, Readers

LEMMA InitTypeOK == Init => TypeOK
BY InitialTypes DEF Init, TypeOK, LeaseStatus, CheckStatus

\* The type of a run's columns, state, slots, leases and history after a policy.
LEMMA PolicyStepType ==
  ASSUME TypeOK, Free # {}, NEW r \in Runs, NEW s \in State, NEW d \in FlowRun,
         NEW p \in State, p.type \in StateTypes, NEW client \in ClientVersions,
         NEW forced \in BOOLEAN, NEW c,
         c \in {CoreFlowPolicy(Transition(r, s, d, p, client)),
                MinimalFlowPolicy(Transition(r, s, d, p, client)),
                MarkLateRunsPolicy(Transition(r, s, d, p, client))},
         Commit(r, d, c, forced)
  PROVE  /\ st' \in [Runs -> State]
         /\ run' \in [Runs -> FlowRun]
         /\ slots' \in Nat
         /\ leases' \in [LeaseIds -> LeaseStatus]
         /\ hist' \in [Runs -> History]
<1>1. c \in Context
  BY TransitionType, PoliciesType
<1> QED BY <1>1, CommitType

LEMMA SetStateTypeOK ==
  ASSUME TypeOK, NEW r \in Runs, NEW lost \in BOOLEAN,
         NEW q \in Requests, SetFlowRunState(r, q, lost)
  PROVE  TypeOK'
<1> DEFINE c == CoreFlowPolicy(Transition(r, st[r], run[r], q.state, q.client))
<1>0. q \in [state: State, client: ClientVersions] /\ q.state.type \in StateTypes
  BY OrchestrationAssumption
<1>1. /\ Free # {} /\ Commit(r, run[r], c, FALSE)
      /\ \E k \in Scheduling(r, c) : check' = [check EXCEPT ![r] = k]
      /\ retry' = [retry EXCEPT ![r] = IF lost THEN q ELSE NoRequest]
      /\ UNCHANGED <<reads, late>>
  BY DEF SetFlowRunState, InBounds
<1>2. st[r] \in State /\ run[r] \in FlowRun
  BY DEF TypeOK
<1>3. Scheduling(r, c) \subseteq CheckStatus
  BY CheckType
<1> HIDE DEF c
<1>4. retry' \in [Runs -> Requests \cup {NoRequest}]
  BY <1>1 DEF TypeOK
<1>5. check' \in [Runs -> CheckStatus]
  BY <1>1, <1>3 DEF TypeOK
<1>6. /\ st' \in [Runs -> State] /\ run' \in [Runs -> FlowRun] /\ slots' \in Nat
      /\ leases' \in [LeaseIds -> LeaseStatus] /\ hist' \in [Runs -> History]
  BY <1>0, <1>1, <1>2, PolicyStepType DEF c
<1> QED BY <1>1, <1>4, <1>5, <1>6 DEF TypeOK

\* A handler that commits the outcome of a policy, changes its own bookkeeping
\* and forgets the lost request of the run, keeps the types.
LEMMA HandlerTypeOK ==
  ASSUME TypeOK, Free # {}, NEW r \in Runs, NEW s \in State, NEW d \in FlowRun,
         NEW p \in State, p.type \in StateTypes, NEW client \in ClientVersions,
         NEW forced \in BOOLEAN, NEW c,
         c \in {CoreFlowPolicy(Transition(r, s, d, p, client)),
                MinimalFlowPolicy(Transition(r, s, d, p, client)),
                MarkLateRunsPolicy(Transition(r, s, d, p, client))},
         Commit(r, d, c, forced),
         \E k \in CheckStatus : check' = [check EXCEPT ![r] = k],
         reads' \in {reads, [reads EXCEPT ![r] = NoRead]},
         late' \in {late, late \ {r}}, Forget(r)
  PROVE  TypeOK'
<1>1. /\ st' \in [Runs -> State] /\ run' \in [Runs -> FlowRun] /\ slots' \in Nat
      /\ leases' \in [LeaseIds -> LeaseStatus] /\ hist' \in [Runs -> History]
  BY PolicyStepType
<1>2. check' \in [Runs -> CheckStatus]
  BY DEF TypeOK
<1>3. reads' \in [Runs -> [by: Readers, state: State, run: FlowRun]]
  BY InitialTypes DEF TypeOK
<1>4. late' \subseteq Runs
  BY DEF TypeOK
<1>5. retry' \in [Runs -> Requests \cup {NoRequest}]
  BY DEF TypeOK, Forget
<1> QED BY <1>1, <1>2, <1>3, <1>4, <1>5 DEF TypeOK

LEMMA ClientTypeOK ==
  ASSUME TypeOK, NEW r \in Runs, ClientNext(r)
  PROVE  TypeOK'
<1> USE DEF ClientVersions
<1>0. /\ st[r] \in State /\ run[r] \in FlowRun
      /\ reads[r].state \in State /\ reads[r].run \in FlowRun
      /\ \A c : Scheduling(r, c) \subseteq CheckStatus /\ Staled(r, c) \in CheckStatus
  BY CheckType DEF TypeOK
<1>1. ASSUME NEW p \in CreateStates, CreateFlowRun(r, p)
      PROVE  TypeOK'
  <2>1. p \in State /\ p.type \in StateTypes
    BY OrchestrationAssumption DEF StateTypes
  <2>2. check[r] \in CheckStatus /\ check' = [check EXCEPT ![r] = check[r]]
    BY <1>1 DEF CreateFlowRun, TypeOK
  <2> QED BY <1>0, <1>1, <2>1, <2>2, NoStateType, HandlerTypeOK DEF CreateFlowRun, InBounds
<1>2. ASSUME NEW q \in Requests, NEW lost \in BOOLEAN, SetFlowRunState(r, q, lost)
      PROVE  TypeOK'
  BY <1>2, SetStateTypeOK
<1>3. CASE ResendRequest(r)
  <2>1. retry[r] \in Requests
    BY <1>3 DEF ResendRequest, TypeOK
  <2> QED BY <1>3, <2>1, SetStateTypeOK DEF ResendRequest
<1>4. ASSUME NEW p \in ForcedRequests, ForceFlowRunState(r, p)
      PROVE  TypeOK'
  <2>1. p \in State /\ p.type \in StateTypes
    BY OrchestrationAssumption DEF StateTypes
  <2> QED BY <1>0, <1>4, <2>1, HandlerTypeOK DEF ForceFlowRunState, InBounds
<1>5. CASE SetInfrastructurePid(r)
  <2>1. [run[r] EXCEPT !.pid = TRUE] \in FlowRun
    BY <1>0 DEF FlowRun
  <2> QED BY <1>5, <2>1 DEF SetInfrastructurePid, TypeOK
<1>6. CASE DeleteFlowRun(r)
  <2>1. slots' \in Nat
    BY <1>6 DEF DeleteFlowRun, Decremented, TypeOK
  <2> QED BY <1>6, <2>1, InitialTypes DEF DeleteFlowRun, Forget, TypeOK, CheckStatus
<1>7. CASE ReadForResume(r)
  BY <1>0, <1>7, InitialTypes DEF ReadForResume, Read, Readers, TypeOK
<1>8. CASE ResumeFlowRun(r)
  <2> DEFINE s == reads[r].state
             p == IF s.reschedule THEN Scheduled("Resuming", "past") ELSE NewState("RUNNING")
  <2>1. p \in State /\ p.type \in StateTypes
    <3>1. NewState("RUNNING") \in State /\ NewState("RUNNING").type = "RUNNING"
      BY NewStateType DEF NewState, AllTypes, StateTypes
    <3>2. /\ Scheduled("Resuming", "past") \in State
          /\ Scheduled("Resuming", "past").type = "SCHEDULED"
      BY ScheduledType DEF StateNames, ScheduledTimes
    <3> QED BY <3>1, <3>2 DEF StateTypes
  <2> HIDE DEF p
  <2> QED BY <1>0, <1>8, <2>1, HandlerTypeOK DEF ResumeFlowRun, p
<1> QED BY <1>1, <1>2, <1>3, <1>4, <1>5, <1>6, <1>7, <1>8 DEF ClientNext

LEMMA ServiceTypeOK ==
  ASSUME TypeOK, NEW r \in Runs, ServiceNext(r)
  PROVE  TypeOK'
<1> USE DEF ClientVersions
<1>0. /\ st[r] \in State /\ run[r] \in FlowRun
      /\ reads[r].state \in State /\ reads[r].run \in FlowRun
      /\ \A c : Scheduling(r, c) \subseteq CheckStatus /\ Staled(r, c) \in CheckStatus
  BY CheckType DEF TypeOK
<1>1. /\ \A type \in StateTypes : NewState(type) \in State /\ NewState(type).type \in StateTypes
      /\ {"FAILED", "CANCELLED", "CANCELLING"} \subseteq StateTypes
  BY NewStateType DEF NewState, AllTypes, StateTypes
<1>2. CASE ReadExpiredPause(r) \/ ReadSubflow(r)
  BY <1>0, <1>2 DEF ReadExpiredPause, ReadSubflow, Read, Readers, TypeOK
<1>3. CASE FailExpiredPause(r)
  BY <1>0, <1>1, <1>3, HandlerTypeOK DEF FailExpiredPause
<1>4. CASE CancelSubflowRun(r)
  <2> DEFINE p == NewState(IF r \in Deployed THEN "CANCELLING" ELSE "CANCELLED")
  <2>1. p \in State /\ p.type \in StateTypes
    BY <1>1
  <2> HIDE DEF p
  <2> QED BY <1>0, <1>4, <2>1, HandlerTypeOK DEF CancelSubflowRun, p
<1>5. CASE MonitorLateRuns(r)
  BY <1>5 DEF MonitorLateRuns, TypeOK
<1>6. ASSUME NEW due \in DueTimes(r), MarkFlowRunLate(r, due)
      PROVE  TypeOK'
  <2> DEFINE p == Scheduled("Late", due)
  <2>1. p \in State /\ p.type \in StateTypes
    <3>1. due \in ScheduledTimes
      BY <1>0, <1>6 DEF State, DueTimes, ScheduledTimes
    <3> QED BY <3>1, ScheduledType DEF StateNames, StateTypes
  <2> HIDE DEF p
  <2> QED BY <1>0, <1>6, <2>1, HandlerTypeOK DEF MarkFlowRunLate, p
<1>7. CASE EnsureCancellingTimeoutCheck(r) \/ SkipStaleCheck(r)
  BY <1>7 DEF EnsureCancellingTimeoutCheck, SkipStaleCheck, CheckStatus, TypeOK
<1>8. CASE HandleCancellingTimeout(r)
  BY <1>0, <1>1, <1>8, HandlerTypeOK DEF HandleCancellingTimeout, CheckStatus
<1> QED BY <1>2, <1>3, <1>4, <1>5, <1>6, <1>7, <1>8 DEF ServiceNext

LEMMA TimeTypeOK ==
  ASSUME TypeOK, NEW r \in Runs, TimeNext(r)
  PROVE  TypeOK'
<1>0. /\ st[r] \in State /\ hist[r] \in History
      /\ reads[r] \in [by: Readers, state: State, run: FlowRun]
  BY DEF TypeOK
<1>1. CASE ScheduledTimePasses(r)
  <2>1. [st[r] EXCEPT !.sched = "past"] \in State
    BY <1>0 DEF State, ScheduledTimes
  <2>2. [hist[r] EXCEPT !.waiting = FALSE] \in History
    BY <1>0 DEF History
  <2>3. st' \in [Runs -> State] /\ hist' \in [Runs -> History]
    BY <1>1, <2>1, <2>2 DEF ScheduledTimePasses, TypeOK
  <2> QED BY <1>1, <2>3 DEF ScheduledTimePasses, TypeOK
<1>2. CASE PauseTimeoutElapses(r)
  <2>1. \A s \in State :
          [s EXCEPT !.timeout = IF @ = "pending" THEN "elapsed" ELSE @] \in State
    BY DEF State, Timeouts
  <2>2. [reads[r] EXCEPT !.state = [reads[r].state EXCEPT !.timeout = IF @ = "pending" THEN "elapsed" ELSE @]]
          \in [by: Readers, state: State, run: FlowRun]
    BY <1>0, <2>1
  <2>3. st' = [st EXCEPT ![r] = [st[r] EXCEPT !.timeout = IF @ = "pending" THEN "elapsed" ELSE @]]
    BY <1>2 DEF PauseTimeoutElapses, TypeOK
  <2>4. reads' = [reads EXCEPT ![r] = [reads[r] EXCEPT !.state =
                    [reads[r].state EXCEPT !.timeout = IF @ = "pending" THEN "elapsed" ELSE @]]]
    BY <1>2 DEF PauseTimeoutElapses, TypeOK
  <2>5. st' \in [Runs -> State]
    BY <1>0, <2>1, <2>3 DEF TypeOK
  <2>6. reads' \in [Runs -> [by: Readers, state: State, run: FlowRun]]
    BY <2>2, <2>4 DEF TypeOK
  <2> QED BY <1>2, <2>5, <2>6 DEF PauseTimeoutElapses, TypeOK
<1>3. CASE RenewConcurrencyLease(r)
  BY <1>3 DEF RenewConcurrencyLease, TypeOK, LeaseStatus
<1> QED BY <1>1, <1>2, <1>3 DEF TimeNext

LEMMA LeaseTypeOK ==
  ASSUME TypeOK, NEW l \in LeaseIds, LeaseNext(l)
  PROVE  TypeOK'
BY DEF LeaseNext, LeaseExpires, RevokeExpiredLease, Decremented, TypeOK, LeaseStatus

\* Every variable keeps its type.
THEOREM TypeCorrect == Spec => []TypeOK
<1>1. ASSUME TypeOK, [Next]_vars
      PROVE  TypeOK'
  <2>1. CASE Next
    BY <1>1, <2>1, ClientTypeOK, ServiceTypeOK, TimeTypeOK, LeaseTypeOK DEF Next
  <2>2. CASE UNCHANGED vars
    BY <1>1, <2>2 DEF vars, TypeOK
  <2> QED BY <1>1, <2>1, <2>2
<1> QED BY InitTypeOK, <1>1, PTL DEF Spec

---------------------------------------------------------------------------
(* SlotsBacked: no transition, whatever its policy, takes a slot without a *)
(* lease or drops a lease and keeps its slot.                              *)

Stored(ls) == {l \in LeaseIds : ls[l] # "absent"}
Backed(c) == c.slots <= Cardinality(Stored(c.leases))

LEMMA StoredFinite ==
  ASSUME NEW ls
  PROVE  IsFiniteSet(Stored(ls)) /\ Cardinality(Stored(ls)) \in Nat
BY RulesAssumption, FS_Subset, FS_CardinalityType DEF Stored

\* A lease that is not stored yet backs one more slot.
LEMMA AcquireBacked ==
  ASSUME NEW c \in Context, Backed(c), c.leases[c.fresh] = "absent"
  PROVE  Backed(AcquireLease(c))
<1> DEFINE ls == [c.leases EXCEPT ![c.fresh] = "live"]
<1>1. c.fresh \in LeaseIds /\ c.leases \in [LeaseIds -> LeaseStatus] /\ c.slots \in Nat
  BY DEF Context
<1>2. Stored(ls) = Stored(c.leases) \cup {c.fresh} /\ c.fresh \notin Stored(c.leases)
  BY <1>1 DEF Stored
<1>3. Cardinality(Stored(ls)) = Cardinality(Stored(c.leases)) + 1
  BY <1>2, StoredFinite, FS_AddElement
<1>4. AcquireLease(c).slots = c.slots + 1 /\ AcquireLease(c).leases = ls
  BY DEF AcquireLease, Context
<1> QED BY <1>1, <1>3, <1>4, StoredFinite DEF Backed

\* Dropping a lease that is stored or not leaves at most one slot less backed.
LEMMA RemoveBacked ==
  ASSUME NEW n \in Nat, NEW ls \in [LeaseIds -> LeaseStatus], NEW ks, NEW l,
         n <= Cardinality(Stored(ls)), Stored(ks) = Stored(ls) \ {l}
  PROVE  Decremented(n) <= Cardinality(Stored(ks)) /\ Decremented(n) \in Nat
<1>1. CASE l \in Stored(ls)
  <2>1. Cardinality(Stored(ks)) = Cardinality(Stored(ls)) - 1
    BY <1>1, StoredFinite, FS_RemoveElement
  <2> QED BY <2>1, StoredFinite DEF Decremented
<1>2. CASE l \notin Stored(ls)
  <2>1. Stored(ks) = Stored(ls)
    BY <1>2
  <2> QED BY <2>1, StoredFinite DEF Decremented
<1> QED BY <1>1, <1>2

LEMMA ReleaseBacked ==
  ASSUME NEW c \in Context, Backed(c), NEW l
  PROVE  Backed(ReleaseLease(c, l))
<1> DEFINE ks == [k \in LeaseIds |-> IF k = l THEN "absent" ELSE c.leases[k]]
<1>1. c.leases \in [LeaseIds -> LeaseStatus] /\ c.slots \in Nat
  BY DEF Context
<1>2. Stored(ks) = Stored(c.leases) \ {l}
  BY <1>1 DEF Stored
<1>3. ReleaseLease(c, l).slots = Decremented(c.slots) /\ ReleaseLease(c, l).leases = ks
  BY DEF ReleaseLease, Revoke, Context
<1> HIDE DEF ks
<1>4. Decremented(c.slots) <= Cardinality(Stored(ks))
  BY <1>1, <1>2, RemoveBacked DEF Backed
<1> QED BY <1>3, <1>4 DEF Backed

\* What the rules that have nothing to do with slots leave alone.
Frame(c, d) ==
  /\ d.slots = c.slots /\ d.leases = c.leases /\ d.fresh = c.fresh
  /\ d.intended = c.intended /\ d.client = c.client
  /\ d.entered["RemoveLease"] = c.entered["RemoveLease"]

LEMMA FrameSteps ==
  ASSUME NEW c \in Context, NEW s, NEW h \in HookRules \ {"RemoveLease"}
  PROVE  Frame(c, Reject(c, s)) /\ Frame(c, Abort(c)) /\ Frame(c, Delay(c)) /\ Frame(c, Enter(h, c))
BY DEF Frame, Reject, Abort, Delay, Enter, Context, HookRules

LEMMA FrameTrans ==
  ASSUME NEW c, NEW d, NEW e, Frame(c, d), Frame(d, e)
  PROVE  Frame(c, e)
BY DEF Frame

LEMMA FrameConcurrency ==
  ASSUME NEW c \in Context
  PROVE  /\ Frame(c, PreserveDeploymentConcurrencyLeaseId(c))
         /\ Frame(c, PreventDuplicateTransitions(c))
         /\ Frame(c, EnforceCancellingToCancelledTransition(c))
         /\ Frame(c, BypassCancellingFlowRunsWithNoInfra(c))
         /\ Frame(c, PreventPendingTransitions(c))
         /\ Frame(c, EnsureOnlyScheduledFlowsMarkedLate(c))
         /\ Frame(c, CopyScheduledTime(c))
         /\ Frame(c, WaitForScheduledTime(c))
         /\ Frame(c, RetryFailedFlows(c))
         /\ Frame(c, PreventResultDataLoss(c))
         /\ Frame(c, EnforceDeploymentConcurrencyOnLate(c))
<1> USE DEF Frame, Reject, Abort, Delay, Context
<1>1. Frame(c, PreserveDeploymentConcurrencyLeaseId(c))
  BY DEF PreserveDeploymentConcurrencyLeaseId
<1>2. Frame(c, PreventDuplicateTransitions(c))
  BY DEF PreventDuplicateTransitions
<1>3. Frame(c, EnforceCancellingToCancelledTransition(c))
  BY DEF EnforceCancellingToCancelledTransition
<1>4. Frame(c, BypassCancellingFlowRunsWithNoInfra(c))
  BY DEF BypassCancellingFlowRunsWithNoInfra
<1>5. Frame(c, PreventPendingTransitions(c))
  BY DEF PreventPendingTransitions
<1>6. Frame(c, EnsureOnlyScheduledFlowsMarkedLate(c))
  BY DEF EnsureOnlyScheduledFlowsMarkedLate
<1>7. Frame(c, CopyScheduledTime(c)) /\ Frame(c, WaitForScheduledTime(c))
  BY DEF CopyScheduledTime, WaitForScheduledTime
<1>8. Frame(c, RetryFailedFlows(c))
  BY DEF RetryFailedFlows
<1>9. Frame(c, PreventResultDataLoss(c)) /\ Frame(c, EnforceDeploymentConcurrencyOnLate(c))
  BY DEF PreventResultDataLoss, EnforceDeploymentConcurrencyOnLate
<1> QED BY <1>1, <1>2, <1>3, <1>4, <1>5, <1>6, <1>7, <1>8, <1>9

\* The entry of RemoveDeploymentConcurrencyLeaseForOldClientVersions.
Entered(c) ==
  c.entered["RemoveLease"] # "INVALID" => c.intended \in {"RUNNING", "CANCELLING"}

\* Every slot of the context is backed, and the fresh lease is not stored yet.
Sound(c) == c \in Context /\ Backed(c) /\ Entered(c)
Ready(c) == Sound(c) /\ c.leases[c.fresh] = "absent"

LEMMA FrameSound ==
  ASSUME NEW c, NEW d \in Context, Frame(c, d)
  PROVE  (Sound(c) => Sound(d)) /\ (Ready(c) => Ready(d))
BY DEF Frame, Sound, Ready, Backed, Entered

LEMMA FrameOthers ==
  ASSUME NEW c \in Context
  PROVE  /\ Frame(c, HandleFlowTerminalStateTransitions(c))
         /\ Frame(c, HandlePausingFlows(c))
         /\ Frame(c, HandleResumingPausedFlows(c))
         /\ Frame(c, GlobalFlowPolicy(c))
         /\ Frame(c, AfterResuming(c))
         /\ Frame(c, AfterPausing(c))
         /\ Frame(c, CleanupTerminal(c))
<1>1. Frame(c, HandleFlowTerminalStateTransitions(c))
  BY DEF Frame, Context, HandleFlowTerminalStateTransitions, NewAttempt, Enter, Reject, Abort
<1>2. Frame(c, HandlePausingFlows(c))
  BY DEF Frame, Context, HandlePausingFlows, Enter, Reject, Abort
<1>3. Frame(c, HandleResumingPausedFlows(c))
  BY DEF Frame, Context, HandleResumingPausedFlows, Enter, Reject
<1>4. Frame(c, GlobalFlowPolicy(c))
  <2>1. \A d \in Context : /\ Frame(d, SetStartTime(d))
                          /\ Frame(d, SetEndTime(d))
                          /\ Frame(d, IncrementFlowRunCount(d))
                          /\ Frame(d, RemoveResumingIndicator(d))
    BY DEF Frame, Context, SetStartTime, SetEndTime, IncrementFlowRunCount,
           RemoveResumingIndicator
  <2>2. Frame(c, c)
    BY DEF Frame
  <2> QED BY <2>1, <2>2, GlobalRulesType, FrameTrans DEF GlobalFlowPolicy
<1>5. Frame(c, AfterResuming(c)) /\ Frame(c, AfterPausing(c)) /\ Frame(c, CleanupTerminal(c))
  BY DEF Frame, Context, AfterResuming, AfterPausing, CleanupTerminal
<1> QED BY <1>1, <1>2, <1>3, <1>4, <1>5

\* The two rules that acquire: they answer for different proposals.
LEMMA ValidateSound ==
  ASSUME NEW c, Ready(c)
  PROVE  LET d == ValidateDeploymentConcurrencyAtRunning(c)
         IN Sound(d) /\ d.client = c.client /\ (d.intended = "PENDING" => Ready(d))
<1> DEFINE d == ValidateDeploymentConcurrencyAtRunning(c)
           l == c.initial.lease
           k == [c EXCEPT !.proposed.lease = l]
<1>1. c \in Context /\ d \in Context
  BY ValidateType DEF Ready, Sound
<1>2. k \in Context /\ Frame(c, k)
  BY <1>1 DEF Frame, Context, State
<1>3. Ready(k)
  BY <1>2, FrameSound
<1>4. CASE ~Governs(c, {"PENDING"}, {"RUNNING"})
  BY <1>4 DEF ValidateDeploymentConcurrencyAtRunning, Ready
<1>5. CASE Governs(c, {"PENDING"}, {"RUNNING"})
  <2>1. c.intended = "RUNNING"
    BY <1>5 DEF Governs
  <2>2. d = k => Sound(d) /\ d.client = c.client /\ d.intended = "RUNNING"
    BY <1>2, <1>3, <2>1 DEF Ready, Frame
  <2>3. CASE Exists(c, l) /\ d = [k EXCEPT !.leases[l] = "live"]
    <3>1. l \in LeaseIds /\ c.leases[l] # "absent" /\ d.leases = [c.leases EXCEPT ![l] = "live"]
      BY <1>1, <2>3 DEF Exists, Context
    <3>2. Stored(d.leases) = Stored(c.leases)
      BY <1>1, <3>1 DEF Stored, Context
    <3>3. /\ d.slots = c.slots /\ d.client = c.client /\ d.intended = c.intended
          /\ d.entered = c.entered
      BY <1>1, <2>3 DEF Context
    <3> QED BY <1>1, <2>1, <3>2, <3>3 DEF Sound, Ready, Backed, Entered
  <2>4. CASE d = AcquireLease(k)
    <3>1. Backed(AcquireLease(k))
      BY <1>2, <1>3, AcquireBacked DEF Ready, Sound
    <3>2. /\ AcquireLease(k).client = c.client /\ AcquireLease(k).intended = c.intended
          /\ AcquireLease(k).entered = c.entered
      BY <1>1 DEF AcquireLease, Context
    <3> QED BY <1>1, <2>1, <2>4, <3>1, <3>2 DEF Sound, Ready, Entered
  <2>5. CASE d = Reject(k, NewState("CANCELLED"))
    <3>1. Frame(k, d)
      BY <1>2, <2>5, FrameSteps DEF HookRules
    <3> QED BY <1>1, <1>2, <1>3, <2>1, <3>1, FrameSound DEF Ready, Frame
  <2>6. \/ d = k
        \/ Exists(c, l) /\ d = [k EXCEPT !.leases[l] = "live"]
        \/ d = AcquireLease(k)
        \/ d = Reject(k, NewState("CANCELLED"))
    <3>1. d = IF l = NoLease \/ c.client # "leasing" \/ ~c.limited THEN k
              ELSE IF Exists(c, l) THEN [k EXCEPT !.leases[l] = "live"]
              ELSE IF CanAcquire(c) THEN AcquireLease(k)
              ELSE Reject(k, NewState("CANCELLED"))
      BY <1>5 DEF ValidateDeploymentConcurrencyAtRunning
    <3> HIDE DEF d, k, l
    <3> QED BY <3>1
  <2> QED BY <2>1, <2>2, <2>3, <2>4, <2>5, <2>6
<1> QED BY <1>4, <1>5

LEMMA SecureSound ==
  ASSUME NEW c, Sound(c), c.intended = "PENDING" => Ready(c)
  PROVE  LET d == SecureFlowConcurrencySlots(c)
         IN Sound(d) /\ d.client = c.client /\ d.intended = c.intended
<1> DEFINE d == SecureFlowConcurrencySlots(c)
           reject == Reject(c, Scheduled("AwaitingConcurrencySlot", "future"))
           cancel == Reject(c, NewState("CANCELLED"))
<1>1. c \in Context /\ d \in Context
  BY SecureType DEF Sound
<1>2. CASE ~Governs(c, AllTypes \ {"PENDING", "RUNNING", "CANCELLING"}, {"PENDING"})
  BY <1>2 DEF SecureFlowConcurrencySlots
<1>3. CASE Governs(c, AllTypes \ {"PENDING", "RUNNING", "CANCELLING"}, {"PENDING"})
  <2>1. Ready(c)
    BY <1>3 DEF Governs
  <2>2. Backed(AcquireLease(c))
    BY <1>1, <2>1, AcquireBacked DEF Ready, Sound
  <2>3. \E t \in {c, Abort(c), AcquireLease(c), reject, cancel} : d = Enter("Secure", t)
    BY <1>3 DEF SecureFlowConcurrencySlots
  <2>4. PICK t \in {c, Abort(c), AcquireLease(c), reject, cancel} : d = Enter("Secure", t)
    BY <2>3
  <2>5. Frame(t, Enter("Secure", t))
    <3>1. Scheduled("AwaitingConcurrencySlot", "future") \in State
      BY ScheduledType DEF StateNames, ScheduledTimes
    <3>2. NewState("CANCELLED") \in State
      BY NewStateType DEF AllTypes, StateTypes
    <3>3. t \in Context
      BY <1>1, <2>4, <3>1, <3>2, AbortType, AcquireType, RejectType
    <3> QED BY <3>3, FrameSteps DEF HookRules
  <2>6. /\ t.client = c.client /\ t.intended = c.intended /\ t.entered = c.entered
        /\ t = AcquireLease(c) \/ (t.slots = c.slots /\ t.leases = c.leases)
    BY <1>1, <2>4 DEF Abort, Reject, AcquireLease, Context
  <2>7. Backed(t)
    BY <2>2, <2>6 DEF Sound, Backed
  <2> QED BY <1>1, <2>4, <2>5, <2>6, <2>7 DEF Sound, Backed, Entered, Frame
<1> QED BY <1>2, <1>3

LEMMA RemoveLeaseSound ==
  ASSUME NEW c, Sound(c)
  PROVE  LET d == RemoveDeploymentConcurrencyLeaseForOldClientVersions(c)
         IN Sound(d) /\ d.client = c.client /\ d.intended = c.intended
<1> DEFINE d == RemoveDeploymentConcurrencyLeaseForOldClientVersions(c)
<1>1. c \in Context /\ d \in Context
  BY EntersType DEF Sound
<1>2. /\ d.slots = c.slots /\ d.leases = c.leases /\ d.client = c.client /\ d.intended = c.intended
  BY <1>1 DEF RemoveDeploymentConcurrencyLeaseForOldClientVersions, Enter, Context
<1>3. Entered(d)
  BY <1>1, <1>2 DEF Sound, Entered, Governs, Enter, Context,
                    RemoveDeploymentConcurrencyLeaseForOldClientVersions
<1> QED BY <1>1, <1>2, <1>3 DEF Sound, Backed

\* The before hooks keep the slots backed.
LEMMA CoreBeforeSound ==
  ASSUME NEW c, Ready(c)
  PROVE  LET d == CoreBefore(c)
         IN Sound(d) /\ d.client = c.client /\ d.intended = c.intended
<1>0. \A d, e : Frame(d, e) => e.client = d.client /\ e.intended = d.intended
  BY DEF Frame
<1> DEFINE a1 == PreserveDeploymentConcurrencyLeaseId(c)
           a2 == PreventDuplicateTransitions(a1)
           a3 == HandleFlowTerminalStateTransitions(a2)
           a4 == EnforceCancellingToCancelledTransition(a3)
           a5 == BypassCancellingFlowRunsWithNoInfra(a4)
           a6 == PreventPendingTransitions(a5)
           b1 == ValidateDeploymentConcurrencyAtRunning(a6)
           b2 == SecureFlowConcurrencySlots(b1)
           b3 == RemoveDeploymentConcurrencyLeaseForOldClientVersions(b2)
           b4 == EnsureOnlyScheduledFlowsMarkedLate(b3)
           b5 == HandlePausingFlows(b4)
           b6 == HandleResumingPausedFlows(b5)
           b7 == CopyScheduledTime(b6)
           b8 == WaitForScheduledTime(b7)
           b9 == RetryFailedFlows(b8)
<1>1. CoreBefore(c) = b9
  BY DEF CoreBefore, CoreBeforeTiming, CoreBeforeConcurrency
<1> DEFINE Kept(d) == d.client = c.client /\ d.intended = c.intended
<1>a. \A d \in Context, e \in Context :
        Frame(d, e) => (Ready(d) => Ready(e)) /\ (Sound(d) => Sound(e)) /\ (Kept(d) => Kept(e))
  BY <1>0, FrameSound
<1>b. c \in Context /\ Kept(c)
  BY DEF Ready, Sound
<1> HIDE DEF Kept
<1>2. a1 \in Context /\ Ready(a1) /\ Kept(a1)
  BY <1>a, <1>b, FrameConcurrency, PreserveType
<1> HIDE DEF a1
<1>3. a2 \in Context /\ Ready(a2) /\ Kept(a2)
  BY <1>a, <1>2, FrameConcurrency, DuplicateType
<1> HIDE DEF a2
<1>4. a3 \in Context /\ Ready(a3) /\ Kept(a3)
  BY <1>a, <1>3, FrameOthers, TerminalRuleType
<1> HIDE DEF a3
<1>5. a4 \in Context /\ Ready(a4) /\ Kept(a4)
  BY <1>a, <1>4, FrameConcurrency, CancellingType
<1> HIDE DEF a4
<1>6. a5 \in Context /\ Ready(a5) /\ Kept(a5)
  BY <1>a, <1>5, FrameConcurrency, BypassType
<1> HIDE DEF a5
<1>7. a6 \in Context /\ Ready(a6) /\ Kept(a6)
  BY <1>a, <1>6, FrameConcurrency, PendingType
<1> HIDE DEF a6
<1>8. b1 \in Context /\ Sound(b1) /\ (b1.intended = "PENDING" => Ready(b1)) /\ Kept(b1)
  <2>1. Sound(b1) /\ b1.client = a6.client /\ (b1.intended = "PENDING" => Ready(b1))
    BY <1>7, ValidateSound
  <2>2. b1.intended = a6.intended
    BY <1>7 DEF ValidateDeploymentConcurrencyAtRunning, AcquireLease, Reject, Context
  <2> QED BY <1>7, <2>1, <2>2 DEF Sound, Kept
<1> HIDE DEF b1
<1>9. b2 \in Context /\ Sound(b2) /\ Kept(b2)
  BY <1>8, SecureSound DEF Sound, Kept
<1> HIDE DEF b2
<1>10. b3 \in Context /\ Sound(b3) /\ Kept(b3)
  BY <1>9, RemoveLeaseSound DEF Sound, Kept
<1> HIDE DEF b3
<1>11. b4 \in Context /\ Sound(b4) /\ Kept(b4)
  BY <1>a, <1>10, FrameConcurrency, EntersType
<1> HIDE DEF b4
<1>12. b5 \in Context /\ Sound(b5) /\ Kept(b5)
  BY <1>a, <1>11, FrameOthers, PausingType
<1> HIDE DEF b5
<1>13. b6 \in Context /\ Sound(b6) /\ Kept(b6)
  BY <1>a, <1>12, FrameOthers, ResumingType
<1> HIDE DEF b6
<1>14. b7 \in Context /\ Sound(b7) /\ Kept(b7)
  BY <1>a, <1>13, FrameConcurrency, TimingType
<1> HIDE DEF b7
<1>15. b8 \in Context /\ Sound(b8) /\ Kept(b8)
  BY <1>a, <1>14, FrameConcurrency, TimingType
<1> HIDE DEF b8
<1>16. b9 \in Context /\ Sound(b9) /\ Kept(b9)
  BY <1>a, <1>15, FrameConcurrency, RetryType
<1> QED BY <1>1, <1>16 DEF Kept

LEMMA ReleaseSound ==
  ASSUME NEW c, Sound(c), NEW l
  PROVE  Sound(ReleaseLease(c, l)) /\ ReleaseLease(c, l).client = c.client
<1>1. ReleaseLease(c, l) \in Context /\ Backed(ReleaseLease(c, l))
  BY ReleaseType, ReleaseBacked DEF Sound
<1>2. /\ ReleaseLease(c, l).client = c.client /\ ReleaseLease(c, l).intended = c.intended
      /\ ReleaseLease(c, l).entered = c.entered
  BY DEF ReleaseLease, Revoke, Sound, Context
<1> QED BY <1>1, <1>2 DEF Sound, Entered

\* A client whose old version would revoke a lease does not propose what makes
\* AfterRemoveLease do so.
Harmless(c) == c.client = "leasing" \/ c.intended \notin {"RUNNING", "CANCELLING"}

LEMMA AfterRemoveLeaseSound ==
  ASSUME NEW c, Sound(c), Harmless(c)
  PROVE  AfterRemoveLease(c) = c
BY DEF AfterRemoveLease, Survives, Harmless, Sound, Entered

\* The after hooks keep the slots backed.
LEMMA CoreAfterSound ==
  ASSUME NEW c, Sound(c), Harmless(c)
  PROVE  Sound(CoreAfter(c))
<1> DEFINE a1 == ReleaseFlowConcurrencySlots(c)
           a2 == AfterResuming(a1)
           a3 == AfterPausing(a2)
           a4 == AfterRemoveLease(a3)
           a5 == CleanupSecure(a4)
           a6 == CleanupTerminal(a5)
<1>0. \A d, e : Frame(d, e) /\ Harmless(d) => Harmless(e)
  BY DEF Frame, Harmless
<1>1. CoreAfter(c) = a6
  BY DEF CoreAfter
<1>2. a1 \in Context /\ Sound(a1) /\ Harmless(a1)
  <2>1. \A l : ReleaseLease(c, l).intended = c.intended /\ ReleaseLease(c, l).client = c.client
    BY DEF ReleaseLease, Revoke, Sound, Context
  <2> QED BY <2>1, ReleaseSound DEF ReleaseFlowConcurrencySlots, Harmless, Sound
<1> HIDE DEF a1
<1>3. a2 \in Context /\ Sound(a2) /\ Harmless(a2)
  BY <1>0, <1>2, FrameOthers, FrameSound, AfterType
<1> HIDE DEF a2
<1>4. a3 \in Context /\ Sound(a3) /\ Harmless(a3)
  BY <1>0, <1>3, FrameOthers, FrameSound, AfterType
<1> HIDE DEF a3
<1>5. a4 = a3
  BY <1>4, AfterRemoveLeaseSound
<1>6. a5 \in Context /\ Sound(a5)
  BY <1>4, <1>5, ReleaseSound DEF CleanupSecure, Sound
<1> HIDE DEF a5
<1>7. Sound(a6)
  BY <1>6, FrameOthers, FrameSound, AfterType
<1> QED BY <1>1, <1>7

\* Every policy keeps the slots backed.
LEMMA PoliciesSound ==
  ASSUME NEW c, Ready(c)
  PROVE  /\ Harmless(c) => Backed(CoreFlowPolicy(c))
         /\ Backed(MinimalFlowPolicy(c))
         /\ Backed(MarkLateRunsPolicy(c))
<1>0. c \in Context
  BY DEF Ready, Sound
<1>1. ASSUME Harmless(c) PROVE Backed(CoreFlowPolicy(c))
  <2> DEFINE b == CoreBefore(c)
             g == GlobalFlowPolicy(b)
  <2>1. Sound(b) /\ b \in Context /\ Harmless(b)
    BY <1>1, CoreBeforeSound DEF Sound, Harmless
  <2> HIDE DEF b
  <2>2. g \in Context /\ Frame(b, g)
    BY <2>1, GlobalType, FrameOthers
  <2>3. Sound(g) /\ Harmless(g)
    BY <2>1, <2>2, FrameSound DEF Frame, Harmless
  <2> HIDE DEF g
  <2>4. Sound(CoreAfter(g))
    BY <2>3, CoreAfterSound
  <2> QED BY <2>4 DEF CoreFlowPolicy, Sound, g, b
<1>2. Backed(MinimalFlowPolicy(c))
  <2> DEFINE a1 == PreserveDeploymentConcurrencyLeaseId(c)
             a2 == PreventResultDataLoss(a1)
             a3 == BypassCancellingFlowRunsWithNoInfra(a2)
             a4 == GlobalFlowPolicy(a3)
  <2>1. a1 \in Context /\ Sound(a1)
    BY <1>0, FrameConcurrency, FrameSound, PreserveType DEF Ready
  <2> HIDE DEF a1
  <2>2. a2 \in Context /\ Sound(a2)
    BY <2>1, FrameConcurrency, FrameSound, MinimalRulesType
  <2> HIDE DEF a2
  <2>3. a3 \in Context /\ Sound(a3)
    BY <2>2, FrameConcurrency, FrameSound, BypassType
  <2> HIDE DEF a3
  <2>4. a4 \in Context /\ Sound(a4)
    BY <2>3, FrameOthers, FrameSound, GlobalType
  <2> HIDE DEF a4
  <2>5. Sound(ReleaseFlowConcurrencySlots(a4))
    BY <2>4, ReleaseSound DEF ReleaseFlowConcurrencySlots
  <2> QED BY <2>5 DEF MinimalFlowPolicy, Sound, a4, a3, a2, a1
<1>3. Backed(MarkLateRunsPolicy(c))
  <2> DEFINE a1 == EnsureOnlyScheduledFlowsMarkedLate(c)
             a2 == EnforceDeploymentConcurrencyOnLate(a1)
             a3 == GlobalFlowPolicy(a2)
  <2>1. a1 \in Context /\ Sound(a1)
    BY <1>0, FrameConcurrency, FrameSound, EntersType DEF Ready
  <2> HIDE DEF a1
  <2>2. a2 \in Context /\ Sound(a2)
    BY <2>1, FrameConcurrency, FrameSound, MinimalRulesType
  <2> HIDE DEF a2
  <2>3. Sound(a3)
    BY <2>2, FrameOthers, FrameSound, GlobalType
  <2> QED BY <2>3 DEF MarkLateRunsPolicy, Sound, a2, a1
<1> QED BY <1>1, <1>2, <1>3

Backing == slots <= Cardinality(Present)

LEMMA TransitionReady ==
  ASSUME TypeOK, Backing, Free # {}, NEW r \in Runs, NEW s \in State, NEW d \in FlowRun,
         NEW p \in State, p.type \in StateTypes, NEW client \in ClientVersions
  PROVE  LET t == Transition(r, s, d, p, client)
         IN Ready(t) /\ t.client = client /\ t.intended = p.type
<1> DEFINE t == Transition(r, s, d, p, client)
<1>1. t \in Context
  BY TransitionType
<1>2. /\ t.slots = slots /\ t.leases = leases /\ t.fresh = FreshLease /\ t.client = client
      /\ t.intended = p.type /\ t.entered["RemoveLease"] = "INVALID"
  BY DEF Transition, HookRules
<1>3. leases[FreshLease] = "absent"
  BY FreshType DEF Free
<1>4. Ready(t)
  <2> HIDE DEF t
  <2> QED BY <1>1, <1>2, <1>3 DEF Ready, Sound, Backed, Backing, Entered, Stored, Present
<1> QED BY <1>2, <1>4

LEMMA HandlerBacked ==
  ASSUME TypeOK, Backing, Free # {}, NEW r \in Runs, NEW s \in State, NEW d \in FlowRun,
         NEW p \in State, p.type \in StateTypes, NEW client \in ClientVersions,
         NEW forced \in BOOLEAN, NEW c,
         \/ /\ c = CoreFlowPolicy(Transition(r, s, d, p, client))
            /\ client = "leasing" \/ p.type \notin {"RUNNING", "CANCELLING"}
         \/ c = MinimalFlowPolicy(Transition(r, s, d, p, client))
         \/ c = MarkLateRunsPolicy(Transition(r, s, d, p, client)),
         Commit(r, d, c, forced)
  PROVE  Backing'
<1>1. Backed(c)
  BY TransitionReady, PoliciesSound DEF Harmless
<1>2. slots' = c.slots /\ leases' = c.leases
  BY DEF Commit
<1> QED BY <1>1, <1>2 DEF Backed, Stored, Backing, Present

LEMMA SetStateBacked ==
  ASSUME TypeOK, Backing, LeasingClients, NEW r \in Runs, NEW q \in Requests,
         NEW lost \in BOOLEAN, SetFlowRunState(r, q, lost)
  PROVE  Backing'
<1>1. q \in [state: State, client: ClientVersions] /\ q.state.type \in StateTypes
  BY OrchestrationAssumption
<1>2. q.client = "leasing" \/ q.state.type \notin {"RUNNING", "CANCELLING"}
  BY DEF LeasingClients
<1>3. st[r] \in State /\ run[r] \in FlowRun
  BY DEF TypeOK
<1> QED BY <1>1, <1>2, <1>3, HandlerBacked DEF SetFlowRunState, InBounds

LEMMA ClientBacked ==
  ASSUME TypeOK, Backing, LeasingClients, NEW r \in Runs, ClientNext(r)
  PROVE  Backing'
<1> USE DEF ClientVersions
<1>0. /\ st[r] \in State /\ run[r] \in FlowRun
      /\ reads[r].state \in State /\ reads[r].run \in FlowRun
  BY DEF TypeOK
<1>1. ASSUME NEW p \in CreateStates, CreateFlowRun(r, p)
      PROVE  Backing'
  <2>1. p \in State /\ p.type \in StateTypes
    BY OrchestrationAssumption DEF StateTypes
  <2> QED BY <1>0, <1>1, <2>1, NoStateType, HandlerBacked DEF CreateFlowRun, InBounds
<1>2. ASSUME NEW q \in Requests, NEW lost \in BOOLEAN, SetFlowRunState(r, q, lost)
      PROVE  Backing'
  BY <1>2, SetStateBacked
<1>3. CASE ResendRequest(r)
  <2>1. retry[r] \in Requests
    BY <1>3 DEF ResendRequest, TypeOK
  <2> QED BY <1>3, <2>1, SetStateBacked DEF ResendRequest
<1>4. ASSUME NEW p \in ForcedRequests, ForceFlowRunState(r, p)
      PROVE  Backing'
  <2>1. p \in State /\ p.type \in StateTypes
    BY OrchestrationAssumption DEF StateTypes
  <2> QED BY <1>0, <1>4, <2>1, HandlerBacked DEF ForceFlowRunState, InBounds
<1>5. CASE SetInfrastructurePid(r) \/ ReadForResume(r)
  BY <1>5 DEF SetInfrastructurePid, ReadForResume, Read, Backing, Present
<1>6. CASE DeleteFlowRun(r)
  <2>1. slots' <= slots /\ slots' \in Nat
    BY <1>6 DEF DeleteFlowRun, Decremented, TypeOK
  <2>2. Present' = Present
    BY <1>6 DEF DeleteFlowRun, Present
  <2>3. Cardinality(Present) \in Nat
    BY StoredFinite DEF Present, Stored
  <2> QED BY <2>1, <2>2, <2>3 DEF Backing, TypeOK
<1>7. CASE ResumeFlowRun(r)
  <2> DEFINE s == reads[r].state
             p == IF s.reschedule THEN Scheduled("Resuming", "past") ELSE NewState("RUNNING")
  <2>1. p \in State /\ p.type \in StateTypes
    <3>1. NewState("RUNNING") \in State /\ NewState("RUNNING").type = "RUNNING"
      BY NewStateType DEF NewState, AllTypes, StateTypes
    <3>2. /\ Scheduled("Resuming", "past") \in State
          /\ Scheduled("Resuming", "past").type = "SCHEDULED"
      BY ScheduledType DEF StateNames, ScheduledTimes
    <3> QED BY <3>1, <3>2 DEF StateTypes
  <2> HIDE DEF p
  <2> QED BY <1>0, <1>7, <2>1, HandlerBacked DEF ResumeFlowRun, p
<1> QED BY <1>1, <1>2, <1>3, <1>4, <1>5, <1>6, <1>7 DEF ClientNext

LEMMA ServiceBacked ==
  ASSUME TypeOK, Backing, NEW r \in Runs, ServiceNext(r)
  PROVE  Backing'
<1> USE DEF ClientVersions
<1>0. /\ st[r] \in State /\ run[r] \in FlowRun
      /\ reads[r].state \in State /\ reads[r].run \in FlowRun
  BY DEF TypeOK
<1>1. /\ \A type \in StateTypes : NewState(type) \in State /\ NewState(type).type = type
      /\ {"FAILED", "CANCELLED", "CANCELLING"} \subseteq StateTypes
  BY NewStateType DEF NewState, AllTypes, StateTypes
<1>2. CASE \/ ReadExpiredPause(r) \/ ReadSubflow(r) \/ MonitorLateRuns(r)
           \/ EnsureCancellingTimeoutCheck(r) \/ SkipStaleCheck(r)
  BY <1>2 DEF ReadExpiredPause, ReadSubflow, MonitorLateRuns, EnsureCancellingTimeoutCheck,
              SkipStaleCheck, Read, Backing, Present
<1>3. CASE FailExpiredPause(r)
  <2> DEFINE p == NewState("FAILED")
  <2>1. p \in State /\ p.type \in StateTypes
    BY <1>1
  <2> HIDE DEF p
  <2> QED BY <1>0, <1>3, <2>1, HandlerBacked DEF FailExpiredPause, p
<1>4. CASE CancelSubflowRun(r)
  <2> DEFINE p == NewState(IF r \in Deployed THEN "CANCELLING" ELSE "CANCELLED")
  <2>1. p \in State /\ p.type \in StateTypes
    BY <1>1
  <2> HIDE DEF p
  <2> QED BY <1>0, <1>4, <2>1, HandlerBacked DEF CancelSubflowRun, p
<1>5. ASSUME NEW due \in DueTimes(r), MarkFlowRunLate(r, due)
      PROVE  Backing'
  <2> DEFINE p == Scheduled("Late", due)
  <2>1. p \in State /\ p.type \in StateTypes
    <3>1. due \in ScheduledTimes
      BY <1>0, <1>5 DEF State, DueTimes, ScheduledTimes
    <3> QED BY <3>1, ScheduledType DEF StateNames, StateTypes
  <2> HIDE DEF p
  <2> QED BY <1>0, <1>5, <2>1, HandlerBacked DEF MarkFlowRunLate, p
<1>6. CASE HandleCancellingTimeout(r)
  <2> DEFINE p == NewState("CANCELLED")
  <2>1. p \in State /\ p.type \in StateTypes /\ p.type \notin {"RUNNING", "CANCELLING"}
    BY <1>1
  <2> HIDE DEF p
  <2> QED BY <1>0, <1>6, <2>1, HandlerBacked DEF HandleCancellingTimeout, p
<1> QED BY <1>2, <1>3, <1>4, <1>5, <1>6 DEF ServiceNext

LEMMA TimeBacked ==
  ASSUME TypeOK, Backing, NEW r \in Runs, TimeNext(r)
  PROVE  Backing'
<1>1. CASE ScheduledTimePasses(r) \/ PauseTimeoutElapses(r)
  BY <1>1 DEF ScheduledTimePasses, PauseTimeoutElapses, Backing, Present
<1>2. CASE RenewConcurrencyLease(r)
  <2>1. Present' = Present
    BY <1>2 DEF RenewConcurrencyLease, Present, TypeOK
  <2> QED BY <1>2, <2>1 DEF RenewConcurrencyLease, Backing
<1> QED BY <1>1, <1>2 DEF TimeNext

LEMMA LeaseBacked ==
  ASSUME TypeOK, Backing, NEW l \in LeaseIds, LeaseNext(l)
  PROVE  Backing'
<1>1. CASE LeaseExpires(l)
  <2>1. Present' = Present
    BY <1>1 DEF LeaseExpires, Present, TypeOK
  <2> QED BY <1>1, <2>1 DEF LeaseExpires, Backing
<1>2. CASE RevokeExpiredLease(l)
  <2>1. slots' = Decremented(slots) /\ Stored(leases') = Stored(leases) \ {l}
    BY <1>2 DEF RevokeExpiredLease, Stored, TypeOK
  <2>2. leases \in [LeaseIds -> LeaseStatus] /\ slots \in Nat /\ slots <= Cardinality(Stored(leases))
    BY DEF TypeOK, Backing, Present, Stored
  <2>3. Decremented(slots) <= Cardinality(Stored(leases'))
    BY <2>1, <2>2, RemoveBacked
  <2> QED BY <2>1, <2>3 DEF Backing, Present, Stored
<1> QED BY <1>1, <1>2 DEF LeaseNext

\* Every slot taken has a lease in the storage, for any number of runs, leases
\* and slots and whatever clients of the leasing versions do.
THEOREM SlotsAlwaysBacked == Spec => []SlotsBacked
<1>1. Init /\ LeasingClients => Backing
  <2>1. Init => slots = 0
    BY DEF Init
  <2>2. Cardinality(Present) \in Nat
    BY StoredFinite DEF Present, Stored
  <2> QED BY <2>1, <2>2 DEF Backing
<1>2. ASSUME TypeOK, SlotsBacked, [Next]_vars
      PROVE  SlotsBacked'
  <2>1. SUFFICES ASSUME LeasingClients PROVE Backing'
    BY DEF SlotsBacked, Backing, LeasingClients
  <2>2. Backing
    BY <1>2, <2>1 DEF SlotsBacked, Backing
  <2>3. CASE Next
    BY <1>2, <2>1, <2>2, <2>3, ClientBacked, ServiceBacked, TimeBacked, LeaseBacked DEF Next
  <2>4. CASE UNCHANGED vars
    BY <2>2, <2>4 DEF vars, Backing, Present
  <2> QED BY <1>2, <2>3, <2>4
<1>3. Init => SlotsBacked
  BY <1>1 DEF SlotsBacked, Backing
<1> QED BY <1>2, <1>3, TypeCorrect, PTL DEF Spec

=============================================================================
