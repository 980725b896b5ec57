------------------------- MODULE FlowRunLimitProofs -------------------------
(***************************************************************************)
(* The deployment's concurrency limit: the runs at work are never more     *)
(* than the slots that are taken, and these never more than the limit.     *)
(*                                                                         *)
(* A transition is followed through the rules once more, for what it does  *)
(* to the slots: the two rules that acquire a slot, the one that releases  *)
(* it, and the cleanup that takes back what was acquired in vain.          *)
(***************************************************************************)
EXTENDS FlowRunHistoryProofs

\* The states of a run that holds a slot: at work, or waiting in its process
\* for a retry.
AtWork(s) == s.type \in {"PENDING", "RUNNING", "CANCELLING"} \/ s.name = "AwaitingRetry"

\* Only pauses that suspend the run, and only pauses have a timeout.
Tame(s) ==
  /\ s.timeout # "none" => s.type = "PAUSED"
  /\ s.type = "PAUSED" => s.reschedule

Unexpired(ls) == \A l \in LeaseIds : ls[l] # "expired"

\* What the clients of ActiveWithinLimit do and do not do: workers and engines
\* follow their protocol and renew their leases, and nobody puts a run to work
\* past the rules that count it (Pending when it is created, Pending or Running
\* by force, old workers that count for themselves, Cancelling for a run that
\* holds no slot, a blocking pause, which is resumed without a slot).
\* Suspending, rescheduling, retrying and crashing runs is allowed, and so is
\* forcing them into a terminal state, Scheduled or a suspension.
CountedWork ==
  /\ OrderlyClients /\ ~LeasesExpire
  /\ Limited \cap Subflows = {}
  /\ \A p \in CreateStates :
       p.type = "SCHEDULED" /\ p.name # "AwaitingRetry" /\ p.timeout = "none"
  /\ \A q \in Requests :
       /\ q.client # "managing"
       /\ q.state.type # "CANCELLING" /\ q.state.name # "AwaitingRetry"
       /\ Tame(q.state)
  /\ \A p \in ForcedRequests :
       /\ p.type \notin {"PENDING", "RUNNING", "CANCELLING"} /\ p.name # "AwaitingRetry"
       /\ Tame(p)

---------------------------------------------------------------------------
(* The rules, one by one.                                                  *)

\* What a rule that has nothing to do with slots leaves alone.
Still(c, d) ==
  /\ d.slots = c.slots /\ d.acquired = c.acquired
  /\ d.limited = c.limited /\ d.client = c.client
  /\ d.entered["Secure"] = c.entered["Secure"]

\* What every rule keeps of the proposal and the leases.
Calms(c, d) ==
  /\ Tame(c.proposed) => Tame(d.proposed)
  /\ Unexpired(c.leases) => Unexpired(d.leases)

Mild(c, d) == Still(c, d) /\ Calms(c, d)

LEMMA MildTrans ==
  ASSUME NEW c, NEW d, NEW e
  PROVE  /\ Still(c, d) /\ Still(d, e) => Still(c, e)
         /\ Calms(c, d) /\ Calms(d, e) => Calms(c, e)
BY DEF Still, Calms

\* The states the rules put in the place of a proposal.
LEMMA TameStates ==
  /\ \A type \in AllTypes \ {"PAUSED"} : Tame(NewState(type))
  /\ Tame(NoState)
  /\ \A name, sched : Tame(Scheduled(name, sched))
BY DEF Tame, NewState, NoState, Scheduled, AllTypes, StateTypes

LEMMA MildSteps ==
  ASSUME NEW c \in Context, NEW s \in State, Tame(s), NEW h \in HookRules \ {"Secure"}
  PROVE  /\ Mild(c, Reject(c, s)) /\ Mild(c, Abort(c)) /\ Mild(c, Delay(c))
         /\ Mild(c, Enter(h, c)) /\ Mild(c, c)
<1>1. Still(c, Enter(h, c)) /\ Calms(c, Enter(h, c))
  BY DEF Still, Calms, Enter, Context, HookRules
<1> QED BY <1>1, TameStates DEF Mild, Still, Calms, Reject, Abort, Delay, Context

LEMMA MildBefore ==
  ASSUME NEW c \in Context
  PROVE  /\ Mild(c, PreserveDeploymentConcurrencyLeaseId(c))
         /\ Mild(c, PreventDuplicateTransitions(c))
         /\ Mild(c, EnforceCancellingToCancelledTransition(c))
         /\ Mild(c, BypassCancellingFlowRunsWithNoInfra(c))
         /\ Mild(c, PreventPendingTransitions(c))
         /\ Mild(c, RemoveDeploymentConcurrencyLeaseForOldClientVersions(c))
         /\ Mild(c, EnsureOnlyScheduledFlowsMarkedLate(c))
         /\ Mild(c, CopyScheduledTime(c))
         /\ Mild(c, WaitForScheduledTime(c))
         /\ Mild(c, PreventResultDataLoss(c))
         /\ Mild(c, EnforceDeploymentConcurrencyOnLate(c))
<1>0. /\ NoState \in State /\ Tame(NoState)
      /\ NewState("CANCELLED") \in State /\ Tame(NewState("CANCELLED"))
  BY NoStateType, NewStateType, TameStates DEF AllTypes, StateTypes
<1>1. /\ Mild(c, Reject(c, NoState)) /\ Mild(c, Reject(c, NewState("CANCELLED")))
      /\ Mild(c, Abort(c)) /\ Mild(c, Delay(c)) /\ Mild(c, c)
      /\ Mild(c, Enter("RemoveLease", c))
  BY <1>0, MildSteps DEF HookRules
<1>2. Mild(c, PreserveDeploymentConcurrencyLeaseId(c))
  BY DEF PreserveDeploymentConcurrencyLeaseId, Mild, Still, Calms, Tame, Context, State
<1>3. Mild(c, PreventPendingTransitions(c))
  <2> DEFINE k == [c EXCEPT !.proposed.sched = c.initial.sched,
                            !.proposed.lease = c.initial.lease]
  <2>1. Mild(c, k)
    BY DEF Mild, Still, Calms, Tame, Context, State
  <2> HIDE DEF k
  <2>2. PreventPendingTransitions(c) \in {c, k, Abort(c)}
    BY DEF PreventPendingTransitions, k
  <2> QED BY <1>1, <2>1, <2>2
<1>4. Mild(c, CopyScheduledTime(c))
  BY DEF CopyScheduledTime, Mild, Still, Calms, Tame, Context, State
<1>5. /\ Mild(c, PreventDuplicateTransitions(c))
      /\ Mild(c, EnforceCancellingToCancelledTransition(c))
      /\ Mild(c, BypassCancellingFlowRunsWithNoInfra(c))
      /\ Mild(c, RemoveDeploymentConcurrencyLeaseForOldClientVersions(c))
      /\ Mild(c, EnsureOnlyScheduledFlowsMarkedLate(c))
      /\ Mild(c, WaitForScheduledTime(c))
      /\ Mild(c, PreventResultDataLoss(c))
      /\ Mild(c, EnforceDeploymentConcurrencyOnLate(c))
  BY <1>1 DEF PreventDuplicateTransitions, EnforceCancellingToCancelledTransition,
              BypassCancellingFlowRunsWithNoInfra,
              RemoveDeploymentConcurrencyLeaseForOldClientVersions,
              EnsureOnlyScheduledFlowsMarkedLate, WaitForScheduledTime,
              PreventResultDataLoss, EnforceDeploymentConcurrencyOnLate
<1> QED BY <1>2, <1>3, <1>4, <1>5

LEMMA MildOthers ==
  ASSUME NEW c \in Context
  PROVE  /\ Mild(c, HandleFlowTerminalStateTransitions(c))
         /\ Mild(c, HandlePausingFlows(c))
         /\ Mild(c, HandleResumingPausedFlows(c))
         /\ Mild(c, RetryFailedFlows(c))
<1>0. /\ NoState \in State /\ Tame(NoState)
      /\ NewState("FAILED") \in State /\ Tame(NewState("FAILED"))
  BY NoStateType, NewStateType, TameStates DEF AllTypes, StateTypes
<1>1. \A k \in Context :
        /\ Mild(k, Reject(k, NoState)) /\ Mild(k, Reject(k, NewState("FAILED")))
        /\ Mild(k, Abort(k)) /\ Mild(k, k)
        /\ \A h \in HookRules \ {"Secure"} : Mild(k, Enter(h, k))
  <2>1. "Terminal" \in HookRules \ {"Secure"}
    BY DEF HookRules
  <2> QED BY <1>0, <2>1, MildSteps
<1>2. \A k \in Context : /\ Reject(k, NoState) \in Context /\ Abort(k) \in Context
                         /\ Reject(k, NewState("FAILED")) \in Context
  BY <1>0, RejectType, AbortType
<1>3. \A e \in Context, h \in HookRules \ {"Secure"} : Mild(c, e) => Mild(c, Enter(h, e))
  BY <1>1, MildTrans DEF Mild
<1>4. Mild(c, HandlePausingFlows(c)) /\ Mild(c, HandleResumingPausedFlows(c))
  <2>1. /\ HandlePausingFlows(c) \in {c} \cup
             {Enter("Pausing", e) : e \in {c, Abort(c), Reject(c, NoState)}}
        /\ HandleResumingPausedFlows(c) \in {c} \cup
             {Enter("Resuming", e) : e \in {c, Reject(c, NewState("FAILED")), Reject(c, NoState)}}
    BY DEF HandlePausingFlows, HandleResumingPausedFlows
  <2>2. "Pausing" \in HookRules \ {"Secure"} /\ "Resuming" \in HookRules \ {"Secure"}
    BY DEF HookRules
  <2> QED BY <1>1, <1>2, <1>3, <2>1, <2>2
<1>5. Mild(c, HandleFlowTerminalStateTransitions(c))
  <2> DEFINE s == [c EXCEPT !.saved = c.run.policy]
             n == NewAttempt(s)
  <2>1. s \in Context /\ n \in Context
    <3>1. s \in Context
      BY DEF Context, FlowRun
    <3> QED BY <3>1, PolicyType DEF NewAttempt, EmpiricalPolicy, RetryTypes
  <2>2. Mild(c, s)
    BY DEF Mild, Still, Calms, Context
  <2> HIDE DEF s
  <2>3. Mild(s, n)
    BY <2>1 DEF NewAttempt, Mild, Still, Calms, Context
  <2> HIDE DEF n
  <2>4. Mild(c, n) /\ Mild(c, Abort(s)) /\ Mild(c, Reject(s, NoState))
    BY <1>1, <2>1, <2>2, <2>3, MildTrans DEF Mild
  <2>5. HandleFlowTerminalStateTransitions(c) \in {c} \cup
          {Enter("Terminal", e) : e \in {n, Abort(s), Reject(s, NoState)}}
    BY DEF HandleFlowTerminalStateTransitions, n, s
  <2>6. Abort(s) \in Context /\ Reject(s, NoState) \in Context
        /\ "Terminal" \in HookRules \ {"Secure"}
    BY <1>2, <2>1 DEF HookRules
  <2> QED BY <1>1, <1>3, <2>1, <2>4, <2>5, <2>6
<1>6. Mild(c, RetryFailedFlows(c))
  <2> DEFINE p == [resuming |-> FALSE, pauseKeys |-> {}, retryType |-> "in_process"]
             w == [c EXCEPT !.run.policy = p]
             k == [c EXCEPT !.run.policy.retryType = "none"]
             a == [Scheduled("AwaitingRetry", "future") EXCEPT !.lease = c.initial.lease]
  <2>1. Mild(c, w) /\ Mild(c, k)
    BY DEF Mild, Still, Calms, Context
  <2>2. w \in Context
    BY PolicyType DEF EmpiricalPolicy, RetryTypes
  <2>3. Tame(a)
    BY DEF Tame, Scheduled, NewState
  <2>4. a \in State
    <3>1. Scheduled("AwaitingRetry", "future") \in State
      BY ScheduledType DEF StateNames, ScheduledTimes
    <3> QED BY <3>1 DEF State, Context
  <2>5. RetryFailedFlows(c) \in {c, k, Reject(w, a)}
    BY DEF RetryFailedFlows
  <2> HIDE DEF w, k, a
  <2>6. Mild(w, Reject(w, a))
    <3>1. "Terminal" \in HookRules \ {"Secure"}
      BY DEF HookRules
    <3> QED BY <2>2, <2>3, <2>4, <3>1, MildSteps
  <2> QED BY <1>1, <2>1, <2>5, <2>6, MildTrans DEF Mild
<1> QED BY <1>4, <1>5, <1>6
LEMMA MildAfter ==
  ASSUME NEW c \in Context
  PROVE  /\ Mild(c, GlobalFlowPolicy(c))
         /\ Mild(c, AfterResuming(c))
         /\ Mild(c, AfterPausing(c))
         /\ Mild(c, AfterRemoveLease(c))
         /\ Mild(c, CleanupTerminal(c))
<1>1. Mild(c, GlobalFlowPolicy(c))
  <2>1. \A d \in Context : /\ Mild(d, SetStartTime(d))
                          /\ Mild(d, SetEndTime(d))
                          /\ Mild(d, IncrementFlowRunCount(d))
                          /\ Mild(d, RemoveResumingIndicator(d))
    BY DEF Mild, Still, Calms, Context, SetStartTime, SetEndTime, IncrementFlowRunCount,
           RemoveResumingIndicator
  <2>2. Mild(c, c)
    BY DEF Mild, Still, Calms
  <2>3. \A d, e : Mild(c, d) /\ Mild(d, e) => Mild(c, e)
    BY MildTrans DEF Mild
  <2> QED BY <2>1, <2>2, <2>3, GlobalRulesType DEF GlobalFlowPolicy
<1>2. Mild(c, AfterResuming(c)) /\ Mild(c, AfterPausing(c)) /\ Mild(c, CleanupTerminal(c))
  BY DEF Mild, Still, Calms, Context, AfterResuming, AfterPausing, CleanupTerminal
<1>3. Mild(c, AfterRemoveLease(c))
  BY DEF AfterRemoveLease, Revoke, Mild, Still, Calms, Unexpired, Context
<1> QED BY <1>1, <1>2, <1>3

\* Releasing a slot.
LEMMA ReleaseCalms ==
  ASSUME NEW c \in Context, NEW l
  PROVE  LET d == ReleaseLease(c, l)
         IN /\ Calms(c, d) /\ d.slots = Decremented(c.slots)
            /\ d.acquired = c.acquired /\ d.limited = c.limited /\ d.client = c.client
            /\ d.entered = c.entered
BY DEF ReleaseLease, Revoke, Calms, Unexpired, Context

\* Acquiring one.
LEMMA AcquireCalms ==
  ASSUME NEW c \in Context
  PROVE  LET d == AcquireLease(c)
         IN /\ Calms(c, d) /\ d.slots = c.slots + 1
            /\ d.acquired \in LeaseIds /\ d.acquired # NoLease
            /\ d.limited = c.limited /\ d.client = c.client /\ d.entered = c.entered
            /\ d.proposed.type = c.proposed.type
<1>1. c.fresh \in LeaseIds /\ c.fresh # NoLease
  BY RulesAssumption DEF Context
<1>2. c.proposed \in State /\ c.leases \in [LeaseIds -> LeaseStatus]
  BY DEF Context
<1> QED BY <1>1, <1>2 DEF AcquireLease, Calms, Unexpired, Tame, Context, State

\* The context d of the transition t while the before hooks run: at most one
\* slot was acquired, by ValidateDeploymentConcurrencyAtRunning for a pending
\* run, or by SecureFlowConcurrencySlots for one that holds none.
Charged(t, d) ==
  /\ d.limited = t.limited /\ d.client = t.client
  /\ d.acquired = NoLease => d.slots = t.slots
  /\ d.acquired # NoLease =>
       /\ t.limited /\ d.slots = t.slots + 1 /\ d.slots <= Limit
       /\ t.initial.type = "PENDING" \/ d.entered["Secure"] = "PENDING"
  /\ d.entered["Secure"] = "PENDING" =>
       t.initial.type \notin {"PENDING", "RUNNING", "CANCELLING"}

\* A run that was admitted to Pending has acquired its slot.
Earned(t, d) ==
  /\ d.status = "ACCEPT" /\ t.intended = "PENDING" /\ t.limited /\ t.client # "managing"
  /\ t.initial.type \notin {"PENDING", "RUNNING", "CANCELLING"}
  => d.acquired # NoLease

\* A handler starts with no slot acquired.
Uncharged(t) == t.acquired = NoLease /\ t.entered["Secure"] = "INVALID"

LEMMA StillCharged ==
  ASSUME NEW t, NEW c, NEW d, Still(c, d)
  PROVE  /\ Charged(t, c) => Charged(t, d)
         /\ Earned(t, c) /\ Follows(c, d) => Earned(t, d)
BY DEF Still, Charged, Earned, Follows

LEMMA ValidateCharged ==
  ASSUME NEW t, NEW c, Before(t, c), Charged(t, c), Uncharged(c)
  PROVE  LET d == ValidateDeploymentConcurrencyAtRunning(c)
         IN Charged(t, d) /\ Calms(c, d) /\ d.entered = c.entered
<1> DEFINE d == ValidateDeploymentConcurrencyAtRunning(c)
           l == c.initial.lease
           k == [c EXCEPT !.proposed.lease = l]
           renewed == [k EXCEPT !.leases[l] = "live"]
           s == NewState("CANCELLED")
<1>1. c \in Context /\ c.initial = t.initial
  BY DEF Before, Fixed
<1>2. CASE ~Governs(c, {"PENDING"}, {"RUNNING"})
  BY <1>2 DEF ValidateDeploymentConcurrencyAtRunning, Calms
<1>3. CASE Governs(c, {"PENDING"}, {"RUNNING"})
  <2>1. t.initial.type = "PENDING"
    BY <1>1, <1>3 DEF Governs
  <2>2. k \in Context /\ Still(c, k) /\ Calms(c, k) /\ k.entered = c.entered
    BY <1>1 DEF Still, Calms, Tame, Context, State
  <2>3. /\ renewed.slots = k.slots /\ renewed.acquired = k.acquired /\ renewed.limited = k.limited
        /\ renewed.client = k.client /\ renewed.entered = k.entered
        /\ renewed.proposed = k.proposed
        /\ Unexpired(k.leases) => Unexpired(renewed.leases)
    BY <2>2 DEF Unexpired, Context
  <2>4. \/ d \in {k, renewed, Reject(k, s)}
        \/ d = AcquireLease(k) /\ CanAcquire(c) /\ c.limited
    <3>1. d = IF l = NoLease \/ c.client # "leasing" \/ ~c.limited THEN k
              ELSE IF Exists(c, l) THEN renewed
              ELSE IF CanAcquire(c) THEN AcquireLease(k)
              ELSE Reject(k, s)
      BY <1>3 DEF ValidateDeploymentConcurrencyAtRunning
    <3>2. c.limited \in BOOLEAN
      BY <1>1 DEF Context
    <3> HIDE DEF d, k, l, renewed, s
    <3> QED BY <3>1, <3>2
  <2>5. s \in State /\ Tame(s)
    BY NewStateType, TameStates DEF AllTypes, StateTypes
  <2> HIDE DEF k, renewed, s, l
  <2>6. Still(k, renewed) /\ Calms(k, renewed)
    BY <2>3 DEF Still, Calms
  <2>7. Mild(k, Reject(k, s)) /\ Reject(k, s).entered = k.entered
    <3>1. "Terminal" \in HookRules \ {"Secure"}
      BY DEF HookRules
    <3>2. Reject(k, s).entered = k.entered
      BY <2>2 DEF Reject, Context
    <3> QED BY <2>2, <2>5, <3>1, <3>2, MildSteps
  <2>8. CASE d \in {k, renewed, Reject(k, s)}
    <3> HIDE DEF d
    <3>1. Still(c, d) /\ Calms(c, d) /\ d.entered = c.entered
      BY <2>2, <2>3, <2>6, <2>7, <2>8, MildTrans DEF Mild
    <3>2. Charged(t, d)
      BY <3>1, StillCharged
    <3> QED BY <3>1, <3>2 DEF d
  <2>9. CASE d = AcquireLease(k) /\ CanAcquire(c) /\ c.limited
    <3> DEFINE e == AcquireLease(k)
    <3>1. /\ Calms(k, e) /\ e.slots = k.slots + 1 /\ e.acquired # NoLease
          /\ e.limited = k.limited /\ e.client = k.client /\ e.entered = k.entered
      BY <2>2, AcquireCalms
    <3>2. k.slots = c.slots /\ c.slots = t.slots /\ c.slots < Limit /\ c.slots \in Nat
      BY <1>1, <2>2, <2>9 DEF Still, Charged, Uncharged, CanAcquire, Context
    <3> HIDE DEF e
    <3>3. Charged(t, e)
      <4>1. t.limited = c.limited /\ e.limited = c.limited /\ c.limited = TRUE
        BY <1>1, <2>2, <2>9, <3>1 DEF Charged, Still, Context
      <4>2. e.slots = t.slots + 1 /\ e.slots <= Limit
        BY <3>1, <3>2, RulesAssumption
      <4>3. e.client = t.client /\ e.entered["Secure"] = "INVALID"
        BY <2>2, <3>1 DEF Charged, Uncharged, Still
      <4> QED BY <2>1, <3>1, <4>1, <4>2, <4>3 DEF Charged
    <3>4. Calms(c, e) /\ e.entered = c.entered
      BY <2>2, <3>1, MildTrans
    <3> QED BY <2>9, <3>3, <3>4 DEF e
  <2> QED BY <2>4, <2>8, <2>9
<1> QED BY <1>2, <1>3
LEMMA SecureCharged ==
  ASSUME NEW t, NEW c, Before(t, c), Charged(t, c), c.entered["Secure"] = "INVALID"
  PROVE  LET d == SecureFlowConcurrencySlots(c)
         IN Charged(t, d) /\ Calms(c, d) /\ Earned(t, d)
<1> DEFINE d == SecureFlowConcurrencySlots(c)
           held == {"PENDING", "RUNNING", "CANCELLING"}
           queued == Scheduled("AwaitingConcurrencySlot", "future")
           cancelled == NewState("CANCELLED")
<1>1. c \in Context /\ c.initial = t.initial /\ c.intended = t.intended
  BY DEF Before, Fixed
<1>2. t.initial.type \in AllTypes /\ c.limited \in BOOLEAN
  BY <1>1 DEF Context, State
<1>3. CASE ~Governs(c, AllTypes \ held, {"PENDING"})
  <2>1. d = c
    BY <1>3 DEF SecureFlowConcurrencySlots
  <2>2. Earned(t, c)
    BY <1>2, <1>3, GovernsAccepted DEF Earned
  <2> QED BY <2>1, <2>2 DEF Calms
<1>4. CASE Governs(c, AllTypes \ held, {"PENDING"})
  <2>1. t.initial.type \notin held /\ c.proposed.type = "PENDING"
    BY <1>1, <1>4 DEF Governs
  <2>2. c.acquired = NoLease /\ c.slots = t.slots
    BY <2>1 DEF Charged
  <2>3. \E e : /\ d = Enter("Secure", e)
               /\ \/ e = c /\ (~c.limited \/ c.client = "managing")
                  \/ e \in {Abort(c), Reject(c, queued), Reject(c, cancelled)}
                  \/ e = AcquireLease(c) /\ CanAcquire(c) /\ c.limited
    <3> DEFINE f == IF ~c.limited \/ c.client = "managing" THEN c
                    ELSE IF Limit = 0 THEN Abort(c)
                    ELSE IF CanAcquire(c) THEN AcquireLease(c)
                    ELSE IF Strategy = "ENQUEUE" THEN Reject(c, queued)
                         ELSE Reject(c, cancelled)
    <3>1. d = Enter("Secure", f)
      BY <1>4 DEF SecureFlowConcurrencySlots
    <3> HIDE DEF d, queued, cancelled
    <3>2. \/ f = c /\ (~c.limited \/ c.client = "managing")
          \/ f \in {Abort(c), Reject(c, queued), Reject(c, cancelled)}
          \/ f = AcquireLease(c) /\ CanAcquire(c) /\ c.limited
      BY <1>2
    <3> QED BY <3>1, <3>2
  <2>4. PICK e : /\ d = Enter("Secure", e)
                 /\ \/ e = c /\ (~c.limited \/ c.client = "managing")
                    \/ e \in {Abort(c), Reject(c, queued), Reject(c, cancelled)}
                    \/ e = AcquireLease(c) /\ CanAcquire(c) /\ c.limited
    BY <2>3
  <2> HIDE DEF d
  <2>5. /\ queued \in State /\ Tame(queued) /\ queued.type = "SCHEDULED"
        /\ cancelled \in State /\ Tame(cancelled) /\ cancelled.type = "CANCELLED"
    <3>1. queued \in State /\ queued.type = "SCHEDULED"
      BY ScheduledType DEF StateNames, ScheduledTimes
    <3>2. cancelled \in State /\ cancelled.type = "CANCELLED"
      BY NewStateType DEF NewState, AllTypes, StateTypes
    <3> QED BY <3>1, <3>2, TameStates DEF AllTypes, StateTypes
  <2> HIDE DEF queued, cancelled
  <2>6. \A k \in Context : LET n == Enter("Secure", k)
          IN /\ Calms(k, n) /\ n.slots = k.slots /\ n.acquired = k.acquired
             /\ n.limited = k.limited /\ n.client = k.client /\ n.status = k.status
             /\ n.entered["Secure"] = k.proposed.type
    BY DEF Enter, Calms, Context, HookRules
  <2>7. CASE e = c /\ (~c.limited \/ c.client = "managing")
    <3>1. /\ Calms(c, d) /\ d.slots = c.slots /\ d.acquired = NoLease
          /\ d.limited = c.limited /\ d.client = c.client
      BY <1>1, <2>2, <2>4, <2>6, <2>7
    <3>2. Charged(t, d)
      BY <2>1, <2>2, <3>1 DEF Charged
    <3>3. Earned(t, d)
      BY <2>7 DEF Charged, Earned
    <3> QED BY <3>1, <3>2, <3>3 DEF d
  <2>8. CASE e \in {Abort(c), Reject(c, queued), Reject(c, cancelled)}
    <3>1. e \in Context
      BY <1>1, <2>5, <2>8, AbortType, RejectType
    <3>2. Mild(c, e)
      <4>1. "Terminal" \in HookRules \ {"Secure"}
        BY DEF HookRules
      <4> QED BY <1>1, <2>5, <2>8, <4>1, MildSteps
    <3>3. e.status # "ACCEPT" /\ e.proposed.type \in {"NONE", "SCHEDULED", "CANCELLED"}
      BY <1>1, <2>5, <2>8, NoStateType DEF Abort, Reject, Context
    <3>4. /\ Calms(c, d) /\ d.slots = c.slots /\ d.acquired = NoLease
          /\ d.limited = c.limited /\ d.client = c.client /\ d.status # "ACCEPT"
          /\ d.entered["Secure"] # "PENDING"
      BY <2>2, <2>4, <2>6, <3>1, <3>2, <3>3, MildTrans DEF Mild, Still
    <3>5. Charged(t, d)
      BY <2>2, <3>4 DEF Charged
    <3>6. Earned(t, d)
      BY <3>4 DEF Earned
    <3> QED BY <3>4, <3>5, <3>6 DEF d
  <2>9. CASE e = AcquireLease(c) /\ CanAcquire(c) /\ c.limited
    <3>1. e \in Context
      BY <1>1, <2>9, AcquireType
    <3>2. /\ Calms(c, e) /\ e.slots = c.slots + 1 /\ e.acquired # NoLease
          /\ e.limited = c.limited /\ e.client = c.client /\ e.proposed.type = "PENDING"
      BY <1>1, <2>1, <2>9, AcquireCalms
    <3>3. /\ Calms(c, d) /\ d.slots = c.slots + 1 /\ d.acquired # NoLease
          /\ d.limited = c.limited /\ d.client = c.client /\ d.entered["Secure"] = "PENDING"
      BY <2>4, <2>6, <3>1, <3>2, MildTrans
    <3>4. t.limited = c.limited /\ c.limited = TRUE /\ d.client = t.client
      BY <1>2, <2>9, <3>3 DEF Charged
    <3>5. d.slots = t.slots + 1 /\ d.slots <= Limit
      <4>1. c.slots \in Nat /\ c.slots < Limit
        BY <1>1, <2>9 DEF CanAcquire, Context
      <4> QED BY <2>2, <3>3, <4>1, RulesAssumption
    <3>6. Charged(t, d)
      BY <2>1, <3>3, <3>4, <3>5 DEF Charged
    <3>7. Earned(t, d)
      BY <3>3 DEF Earned
    <3> QED BY <3>3, <3>6, <3>7 DEF d
  <2> QED BY <2>4, <2>7, <2>8, <2>9
<1> QED BY <1>3, <1>4

LEMMA CoreBeforeCharged ==
  ASSUME NEW t, Begun(t), Uncharged(t)
  PROVE  LET d == CoreBefore(t)
         IN Charged(t, d) /\ Calms(t, d) /\ Earned(t, d)
<1> DEFINE a1 == PreserveDeploymentConcurrencyLeaseId(t)
           a2 == PreventDuplicateTransitions(a1)
           a3 == HandleFlowTerminalStateTransitions(a2)
           a4 == EnforceCancellingToCancelledTransition(a3)
           a5 == BypassCancellingFlowRunsWithNoInfra(a4)
           a6 == PreventPendingTransitions(a5)
           b1 == ValidateDeploymentConcurrencyAtRunning(a6)
           b2 == SecureFlowConcurrencySlots(b1)
           b3 == RemoveDeploymentConcurrencyLeaseForOldClientVersions(b2)
           b4 == EnsureOnlyScheduledFlowsMarkedLate(b3)
           b5 == HandlePausingFlows(b4)
           b6 == HandleResumingPausedFlows(b5)
           b7 == CopyScheduledTime(b6)
           b8 == WaitForScheduledTime(b7)
           b9 == RetryFailedFlows(b8)
           Good(d) == /\ Before(t, d) /\ Charged(t, d) /\ Calms(t, d) /\ Earned(t, d)
           Idle(d) == /\ Before(t, d) /\ Charged(t, d) /\ Calms(t, d) /\ Uncharged(d)
<1>1. CoreBefore(t) = b9
  BY DEF CoreBefore, CoreBeforeTiming, CoreBeforeConcurrency
<1>2. /\ Before(t, t) /\ Charged(t, t) /\ Calms(t, t)
  BY BegunBefore DEF Charged, Uncharged, Calms
<1>3. \A c, d : Before(t, d) /\ Mild(c, d) /\ Idle(c) => Idle(d)
  <2>1. \A c, d : Still(c, d) /\ Uncharged(c) => Uncharged(d)
    BY DEF Still, Uncharged
  <2> QED BY <2>1, StillCharged, MildTrans DEF Mild
<1>4. \A c, d : Before(t, d) /\ Follows(c, d) /\ Mild(c, d) /\ Good(c) => Good(d)
  BY StillCharged, MildTrans DEF Mild
<1>5. \A d : Before(t, d) => d \in Context
  BY DEF Before
<1>6. Idle(t)
  BY <1>2
<1> HIDE DEF Good, Idle
<1>7. Before(t, a1) /\ Idle(a1) /\ a1.run = t.run
  BY <1>2, <1>3, <1>5, <1>6, PreserveBefore, MildBefore
<1> HIDE DEF a1
<1>8. Before(t, a2) /\ Idle(a2) /\ a2.run = t.run
  BY <1>3, <1>5, <1>7, DuplicateBefore, MildBefore
<1> HIDE DEF a2
<1>9. Before(t, a3) /\ Idle(a3)
  BY <1>3, <1>5, <1>8, TerminalBefore, MildOthers
<1> HIDE DEF a3
<1>10. Before(t, a4) /\ Idle(a4)
  BY <1>3, <1>5, <1>9, EnforceBefore, MildBefore
<1> HIDE DEF a4
<1>11. Before(t, a5) /\ Idle(a5)
  BY <1>3, <1>5, <1>10, BypassBefore, MildBefore
<1> HIDE DEF a5
<1>12. Before(t, a6) /\ Idle(a6)
  BY <1>3, <1>5, <1>11, PendingBefore, MildBefore
<1> HIDE DEF a6
<1>13. /\ Before(t, b1) /\ Charged(t, b1) /\ Calms(t, b1)
       /\ b1.entered["Secure"] = "INVALID"
  BY <1>12, ValidateBefore, ValidateCharged, MildTrans DEF Idle, Uncharged
<1> HIDE DEF b1
<1>14. Before(t, b2) /\ Good(b2)
  BY <1>13, SecureBefore, SecureCharged, MildTrans DEF Good
<1> HIDE DEF b2
<1>15. Before(t, b3) /\ Good(b3)
  BY <1>4, <1>5, <1>14, RemoveLeaseBefore, MildBefore
<1> HIDE DEF b3
<1>16. Before(t, b4) /\ Good(b4)
  BY <1>4, <1>5, <1>15, LateBefore, MildBefore
<1> HIDE DEF b4
<1>17. Before(t, b5) /\ Good(b5)
  BY <1>4, <1>5, <1>16, PausingBefore, MildOthers
<1> HIDE DEF b5
<1>18. Before(t, b6) /\ Good(b6)
  BY <1>4, <1>5, <1>17, ResumingBefore, MildOthers
<1> HIDE DEF b6
<1>19. Before(t, b7) /\ Good(b7)
  <2>1. Before(t, b7) /\ Mild(b6, b7) /\ b7.status = b6.status
    BY <1>5, <1>18, CopyBefore, MildBefore
  <2> QED BY <1>18, <2>1, MildTrans, StillCharged DEF Good, Mild, Still, Earned
<1> HIDE DEF b7
<1>20. Before(t, b8) /\ Good(b8)
  BY <1>4, <1>5, <1>19, WaitBefore, MildBefore
<1> HIDE DEF b8
<1>21. Before(t, b9) /\ Good(b9)
  BY <1>4, <1>5, <1>20, RetryBefore, MildOthers
<1> QED BY <1>1, <1>21 DEF Good
---------------------------------------------------------------------------
(* The policies.                                                           *)

\* ReleaseFlowConcurrencySlots gives a slot back.
Freed(t, c) ==
  /\ t.initial.type \in {"RUNNING", "CANCELLING", "PENDING"}
  /\ c.proposed.type \notin {"NONE", "PENDING", "RUNNING", "CANCELLING"}
  /\ ~(c.proposed.type = "SCHEDULED" /\ c.proposed.name = "AwaitingRetry"
         /\ c.status = "REJECT")

\* What a policy makes of the slots and the leases.
Charges(t, c) ==
  /\ Calms(t, c)
  /\ ~t.limited => c.slots = t.slots
  /\ t.slots <= Limit => c.slots <= Limit
  /\ c.slots >= t.slots - (IF Freed(t, c) THEN 1 ELSE 0)

LEMMA ReleaseCharges ==
  ASSUME NEW c \in Context
  PROVE  LET d == ReleaseFlowConcurrencySlots(c)
         IN /\ Calms(c, d) /\ d.acquired = c.acquired /\ d.entered = c.entered
            /\ d.slots = IF Freed(c, c) /\ c.limited THEN Decremented(c.slots) ELSE c.slots
<1> DEFINE e == ReleaseLease(c, c.initial.lease)
<1>1. /\ Calms(c, e) /\ e.slots = Decremented(c.slots)
      /\ e.acquired = c.acquired /\ e.entered = c.entered
  BY ReleaseCalms
<1>2. ReleaseFlowConcurrencySlots(c) = IF Freed(c, c) /\ c.limited THEN e ELSE c
  BY DEF ReleaseFlowConcurrencySlots, Freed
<1>3. Calms(c, c)
  BY DEF Calms
<1> HIDE DEF e
<1> QED BY <1>1, <1>2, <1>3

\* The after hooks: a slot acquired in vain is given back, and no other one but
\* that of a run that leaves its work.
LEMMA CoreAfterCharges ==
  ASSUME NEW t \in Context, NEW g, Unwinding(t, g), Charged(t, g)
  PROVE  LET c == CoreAfter(g)
             earned == g.acquired # NoLease /\ g.proposed.type = "PENDING"
         IN /\ Calms(g, c)
            /\ ~t.limited => c.slots = t.slots
            /\ t.slots <= Limit => c.slots <= Limit
            /\ c.slots >= t.slots - (IF Freed(t, g) THEN 1 ELSE 0)
            /\ earned /\ ~Freed(t, g) => c.slots >= t.slots + 1
<1> DEFINE a1 == ReleaseFlowConcurrencySlots(g)
           a2 == AfterResuming(a1)
           a3 == AfterPausing(a2)
           a4 == AfterRemoveLease(a3)
           a5 == CleanupSecure(a4)
           a6 == CleanupTerminal(a5)
           vain == Fizzles(g, "Secure", {"PENDING"}) /\ g.acquired # NoLease
           frees == Freed(g, g) /\ g.limited
           n == IF frees THEN Decremented(g.slots) ELSE g.slots
<1>1. CoreAfter(g) = a6
  BY DEF CoreAfter
<1>2. g \in Context /\ g.initial = t.initial /\ a1 \in Context
  BY AfterType DEF Unwinding
<1>3. /\ Unwinding(t, a1) /\ Unwinds(g, a1)
      /\ Calms(g, a1) /\ a1.acquired = g.acquired /\ a1.slots = n
  <2>1. /\ Calms(g, a1) /\ a1.acquired = g.acquired /\ a1.slots = n
    BY <1>2, ReleaseCharges
  <2> QED BY <2>1, AfterUnwinding
<1> HIDE DEF a1
<1>4. \A c, d : Unwinds(g, c) /\ Unwinds(c, d) => Unwinds(g, d)
  BY DEF Unwinds, Settled
<1>5. \A c : Unwinding(t, c) => c \in Context
  BY DEF Unwinding
<1>6. /\ Unwinding(t, a2) /\ Unwinds(g, a2)
      /\ Calms(g, a2) /\ a2.acquired = g.acquired /\ a2.slots = n
  BY <1>3, <1>4, <1>5, AfterUnwinding, MildAfter, MildTrans DEF Mild, Still
<1> HIDE DEF a2
<1>7. /\ Unwinding(t, a3) /\ Unwinds(g, a3)
      /\ Calms(g, a3) /\ a3.acquired = g.acquired /\ a3.slots = n
  BY <1>4, <1>5, <1>6, AfterUnwinding, MildAfter, MildTrans DEF Mild, Still
<1> HIDE DEF a3
<1>8. /\ Unwinding(t, a4) /\ Unwinds(g, a4)
      /\ Calms(g, a4) /\ a4.acquired = g.acquired /\ a4.slots = n
  BY <1>4, <1>5, <1>7, AfterUnwinding, MildAfter, MildTrans DEF Mild, Still
<1> HIDE DEF a4
<1>9. a5 \in Context /\ Calms(g, a5) /\ a5.slots = IF vain THEN Decremented(n) ELSE n
  <2> DEFINE e == ReleaseLease(a4, a4.acquired)
  <2>1. a4 \in Context /\ a5 \in Context
    BY <1>5, <1>8, AfterType
  <2>2. Calms(a4, e) /\ e.slots = Decremented(n)
    BY <1>8, <2>1, ReleaseCalms
  <2>3. a5 = IF vain THEN e ELSE a4
    BY <1>8 DEF CleanupSecure, Fizzles, Unwinds, Settled
  <2> HIDE DEF e, a5, vain, n
  <2> QED BY <1>8, <2>1, <2>2, <2>3, MildTrans
<1> HIDE DEF a5
<1>10. Calms(g, a6) /\ a6.slots = IF vain THEN Decremented(n) ELSE n
  BY <1>9, MildAfter, MildTrans DEF Mild, Still
<1> HIDE DEF a6
<1>11. /\ t.slots \in Nat /\ g.slots \in Nat /\ g.limited = t.limited
       /\ Freed(g, g) <=> Freed(t, g)
  BY <1>2 DEF Context, Charged, Freed
<1>12. vain => ~Freed(t, g) /\ g.slots = t.slots + 1 /\ g.proposed.type # "PENDING"
               /\ t.limited /\ g.slots <= Limit
  BY DEF Fizzles, Charged, Freed
<1>13. g.slots = t.slots \/ (g.slots = t.slots + 1 /\ g.slots <= Limit /\ t.limited)
  BY DEF Charged
<1>14. \A k \in Nat : Decremented(k) \in Nat /\ Decremented(k) >= k - 1 /\ Decremented(k) <= k
  BY DEF Decremented
<1>15. Limit \in Nat
  BY RulesAssumption
<1> DEFINE m == a6.slots
<1>16. CASE vain
  <2>1. ~frees /\ n = t.slots + 1 /\ m = Decremented(n)
    BY <1>10, <1>11, <1>12, <1>16
  <2>2. m = t.slots
    BY <1>11, <2>1 DEF Decremented
  <2> QED BY <1>1, <1>10, <1>11, <1>12, <1>16, <2>2
<1>17. CASE ~vain
  <2>1. m = n
    BY <1>10, <1>17
  <2>2. ~t.limited => m = t.slots
    BY <1>11, <1>13, <2>1
  <2>3. t.slots <= Limit => m <= Limit
    BY <1>11, <1>13, <1>14, <1>15, <2>1
  <2>4. m >= t.slots - (IF Freed(t, g) THEN 1 ELSE 0)
    BY <1>11, <1>13, <1>14, <2>1
  <2>5. g.acquired # NoLease /\ g.proposed.type = "PENDING" /\ ~Freed(t, g) => m >= t.slots + 1
    BY <1>11, <2>1 DEF Charged
  <2> QED BY <1>1, <1>10, <2>2, <2>3, <2>4, <2>5
<1> QED BY <1>16, <1>17

\* A run that the core policy admits to Pending takes a slot of its own.
Takes(t, c) ==
  /\ c.status = "ACCEPT" /\ t.intended = "PENDING" /\ t.limited /\ t.client # "managing"
  /\ t.initial.type \notin {"PENDING", "RUNNING", "CANCELLING"}
  => c.slots >= t.slots + 1

LEMMA CoreCharges ==
  ASSUME NEW t, Begun(t), Uncharged(t)
  PROVE  LET c == CoreFlowPolicy(t)
         IN Charges(t, c) /\ Takes(t, c)
<1> DEFINE b == CoreBefore(t)
           g == GlobalFlowPolicy(b)
           c == CoreAfter(g)
<1>1. /\ Before(t, b) /\ Charged(t, b) /\ Calms(t, b) /\ Earned(t, b)
  BY CoreBeforeOutcome, CoreBeforeCharged
<1>2. c = CoreFlowPolicy(t) /\ t \in Context
  BY DEF CoreFlowPolicy, Begun
<1> HIDE DEF b
<1>3. Unwinding(t, g) /\ Settled(b, g) /\ Mild(b, g)
  BY <1>1, GlobalUnwinding, MildAfter DEF Before
<1> HIDE DEF g
<1>4. Charged(t, g) /\ Calms(t, g)
  BY <1>1, <1>3, StillCharged, MildTrans DEF Mild
<1> DEFINE earned == g.acquired # NoLease /\ g.proposed.type = "PENDING"
<1>5. /\ Calms(g, c)
      /\ ~t.limited => c.slots = t.slots
      /\ t.slots <= Limit => c.slots <= Limit
      /\ c.slots >= t.slots - (IF Freed(t, g) THEN 1 ELSE 0)
      /\ earned /\ ~Freed(t, g) => c.slots >= t.slots + 1
  BY <1>2, <1>3, <1>4, CoreAfterCharges
<1>6. Unwinds(g, c)
  BY <1>3, CoreAfterOutcome
<1> HIDE DEF c
<1>7. Freed(t, g) <=> Freed(t, c)
  BY <1>6 DEF Freed, Unwinds, Settled
<1>8. Charges(t, c)
  BY <1>4, <1>5, <1>7, MildTrans DEF Charges
<1>9. Takes(t, c)
  <2>1. SUFFICES ASSUME /\ c.status = "ACCEPT" /\ t.intended = "PENDING" /\ t.limited
                        /\ t.client # "managing"
                        /\ t.initial.type \notin {"PENDING", "RUNNING", "CANCELLING"}
                 PROVE  c.slots >= t.slots + 1
    BY DEF Takes
  <2>2. b.status = "ACCEPT" /\ g.status = "ACCEPT"
    BY <1>3, <1>6, <2>1 DEF Unwinds, Settled
  <2>3. g.acquired # NoLease
    BY <1>1, <1>3, <2>1, <2>2 DEF Earned, Mild, Still
  <2>4. g.proposed.type = "PENDING"
    BY <1>3, <2>1, <2>2 DEF Unwinding, Proposal, Original, Replaced
  <2>5. ~Freed(t, g)
    BY <2>1 DEF Freed
  <2> QED BY <1>5, <2>3, <2>4, <2>5
<1> QED BY <1>2, <1>8, <1>9

LEMMA MinimalCharges ==
  ASSUME NEW t, Begun(t)
  PROVE  Charges(t, MinimalFlowPolicy(t))
<1> DEFINE a1 == PreserveDeploymentConcurrencyLeaseId(t)
           a2 == PreventResultDataLoss(a1)
           a3 == BypassCancellingFlowRunsWithNoInfra(a2)
           g == GlobalFlowPolicy(a3)
           c == ReleaseFlowConcurrencySlots(g)
<1>1. c = MinimalFlowPolicy(t)
  BY DEF MinimalFlowPolicy
<1>2. Before(t, a1) /\ Mild(t, a1)
  BY BegunBefore, PreserveBefore, MildBefore DEF Begun
<1> HIDE DEF a1
<1>3. Before(t, a2) /\ Mild(t, a2)
  BY <1>2, ResultLossBefore, MildBefore, MildTrans DEF Mild, Before
<1> HIDE DEF a2
<1>4. Before(t, a3) /\ Mild(t, a3)
  BY <1>3, BypassBefore, MildBefore, MildTrans DEF Mild, Before
<1> HIDE DEF a3
<1>5. g \in Context /\ Settled(a3, g) /\ Mild(t, g)
  BY <1>4, GlobalUnwinding, MildAfter, MildTrans DEF Mild, Before, Unwinding
<1> HIDE DEF g
<1>6. /\ Calms(g, c)
      /\ c.slots = IF Freed(g, g) /\ g.limited THEN Decremented(g.slots) ELSE g.slots
      /\ Unwinds(g, c)
  BY <1>5, ReleaseCharges, ReleaseUnwinds DEF ReleaseFlowConcurrencySlots, Unwinds, Settled
<1> HIDE DEF c
<1>7. g.initial = t.initial
  BY <1>4, <1>5 DEF Before, Fixed, Settled
<1>8. (Freed(g, g) <=> Freed(t, c)) /\ g.limited = t.limited /\ g.slots = t.slots
      /\ t.slots \in Nat
  BY <1>5, <1>6, <1>7 DEF Freed, Unwinds, Settled, Mild, Still, Begun, Context
<1>9. /\ ~t.limited => c.slots = t.slots
      /\ t.slots <= Limit => c.slots <= Limit
      /\ c.slots >= t.slots - (IF Freed(t, c) THEN 1 ELSE 0)
  BY <1>6, <1>8, RulesAssumption DEF Decremented
<1> QED BY <1>1, <1>5, <1>6, <1>9, MildTrans DEF Charges, Mild

LEMMA MarkLateCharges ==
  ASSUME NEW t, Begun(t)
  PROVE  Charges(t, MarkLateRunsPolicy(t))
<1> DEFINE a1 == EnsureOnlyScheduledFlowsMarkedLate(t)
           a2 == EnforceDeploymentConcurrencyOnLate(a1)
           c == GlobalFlowPolicy(a2)
<1>1. a1 \in Context /\ Mild(t, a1)
  BY EntersType, MildBefore DEF Begun
<1> HIDE DEF a1
<1>2. a2 \in Context /\ Mild(a1, a2)
  BY <1>1, MinimalRulesType, MildBefore
<1> HIDE DEF a2
<1>3. Mild(a2, c)
  BY <1>2, MildAfter
<1> HIDE DEF c
<1>4. Calms(t, c) /\ c.slots = t.slots /\ t.slots \in Nat
  BY <1>1, <1>2, <1>3, MildTrans DEF Mild, Still, Begun, Context
<1> QED BY <1>4 DEF Charges, MarkLateRunsPolicy, c, a2, a1
---------------------------------------------------------------------------
(* What a step of one run does to the slots.                               *)

Weight(s) == IF AtWork(s) THEN 1 ELSE 0

\* The step takes a slot when it puts r to work, and frees at most the one that
\* r has held.
Accounts(r) ==
  /\ Unexpired(leases) => Unexpired(leases')
  /\ slots <= Limit => slots' <= Limit
  /\ r \notin Limited => slots' = slots
  /\ r \in Limited => slots' >= slots + Weight(st'[r]) - Weight(st[r])
  /\ Tame(st[r]) => Tame(st'[r])

\* A proposal of the clients and services of CountedWork.
Proper(r, s, p, client, forced) ==
  /\ p.name # "AwaitingRetry" /\ p.type # "CANCELLING"
  /\ p.type = "RUNNING" => AtWork(st[r])
  /\ p.type = "PENDING" => ~forced /\ client # "managing"
  /\ s = st[r] \/ s.type = "PAUSED"

\* The outcome of a proper proposal puts r to work only with a slot.
LEMMA OutcomeAccounts ==
  ASSUME TypeOK, NEW r \in Limited, NEW s, NEW p, NEW client, NEW forced \in BOOLEAN,
         Proper(r, s, p, client, forced),
         NEW t, Begun(t), t.initial = s, t.intended = p.type, t.proposed = p,
         t.client = client, t.limited, t.slots = slots,
         NEW c, Outcome(t, c), Charges(t, c), ~forced /\ p.type = "PENDING" => Takes(t, c),
         IF c.proposed.type = "NONE" THEN st'[r] = st[r] ELSE st'[r] = c.proposed
  PROVE  c.slots >= slots + Weight(st'[r]) - Weight(st[r])
<1>1. slots \in Nat /\ c.slots \in Nat
  BY DEF TypeOK, Outcome, Context
<1>2. c.slots >= slots - (IF Freed(t, c) THEN 1 ELSE 0)
  BY DEF Charges
<1>3. CASE c.proposed.type = "NONE"
  <2>1. ~Freed(t, c) /\ Weight(st'[r]) = Weight(st[r])
    BY <1>3 DEF Freed
  <2> QED BY <1>1, <1>2, <2>1 DEF Weight
<1>4. CASE c.proposed.type # "NONE" /\ ~AtWork(c.proposed)
  <2>1. Weight(st'[r]) = 0
    BY <1>4 DEF Weight
  <2>2. Freed(t, c) => Weight(st[r]) = 1
    BY DEF Freed, Proper, Weight, AtWork
  <2> QED BY <1>1, <1>2, <2>1, <2>2 DEF Weight
<1>5. CASE c.proposed.type # "NONE" /\ AtWork(c.proposed)
  <2>1. Weight(st'[r]) = 1
    BY <1>5 DEF Weight
  <2>2. \/ c.status = "ACCEPT" /\ Original(t, c)
        \/ Retried(t, c)
    BY <1>5 DEF Outcome, Proposal, Original, Replaced, Substitute, AtWork
  <2>3. CASE Retried(t, c)
    <3>1. ~Freed(t, c) /\ AtWork(st[r])
      BY <2>3 DEF Retried, Freed, Proper, AtWork
    <3> QED BY <1>1, <1>2, <2>1, <3>1 DEF Weight
  <2>4. CASE c.status = "ACCEPT" /\ Original(t, c)
    <3>1. p.type \in {"PENDING", "RUNNING"} /\ c.proposed.type = p.type
      BY <1>5, <2>4 DEF Original, Proper, AtWork
    <3>2. ~Freed(t, c)
      BY <3>1 DEF Freed
    <3>3. CASE AtWork(st[r])
      BY <1>1, <1>2, <2>1, <3>2, <3>3 DEF Weight
    <3>4. CASE ~AtWork(st[r])
      <4>1. p.type = "PENDING" /\ ~forced /\ client # "managing"
        BY <3>1, <3>4 DEF Proper
      <4>2. s.type \notin {"PENDING", "RUNNING", "CANCELLING"}
        BY <3>4 DEF Proper, AtWork
      <4>3. c.slots >= slots + 1
        BY <2>4, <4>1, <4>2 DEF Takes
      <4>4. Weight(st[r]) = 0
        BY <3>4 DEF Weight
      <4> QED BY <1>1, <2>1, <4>3, <4>4
    <3> QED BY <3>3, <3>4
  <2> QED BY <2>2, <2>3, <2>4
<1> QED BY <1>3, <1>4, <1>5

LEMMA HandlerAccounts ==
  ASSUME TypeOK, NEW r \in Runs, NEW s \in State, NEW d \in FlowRun, NEW p \in State,
         NEW client \in ClientVersions, NEW forced \in BOOLEAN,
         Writes(r, s, d, p, client, forced), Tame(p),
         r \in Limited => Proper(r, s, p, client, forced)
  PROVE  Accounts(r)
<1> DEFINE t == Transition(r, s, d, p, client)
<1>1. /\ Free # {} /\ p.type \in StateTypes
      /\ \/ ~forced /\ Commit(r, d, CoreFlowPolicy(t), forced)
         \/ forced /\ Commit(r, d, MinimalFlowPolicy(t), forced)
         \/ /\ ~forced /\ p.type = "SCHEDULED" /\ p.name = "Late"
            /\ Commit(r, d, MarkLateRunsPolicy(t), forced)
  BY DEF Writes
<1>2. Begun(t) /\ t.initial = s /\ t.intended = p.type /\ t.proposed = p /\ t.run = d
  BY <1>1, TransitionBegun
<1>3. /\ Uncharged(t) /\ t.client = client /\ t.slots = slots /\ t.leases = leases
      /\ t.limited <=> r \in Limited
  BY DEF Transition, Uncharged, HookRules
<1> HIDE DEF t
<1>4. ASSUME NEW c, Outcome(t, c), Charges(t, c), Commit(r, d, c, forced),
             ~forced /\ p.type = "PENDING" => Takes(t, c)
      PROVE  Accounts(r)
  <2>1. c \in Context /\ c.initial = t.initial
    BY <1>4 DEF Outcome
  <2>2. IF c.proposed.type = "NONE" THEN st'[r] = st[r] ELSE st'[r] = c.proposed
    <3>1. WritesState(r, t, c, forced)
      BY <1>4, <2>1, CommitWrites
    <3> QED BY <3>1 DEF WritesState
  <2>3. slots' = c.slots /\ leases' = c.leases
    BY <1>4 DEF Commit
  <2>4. Calms(t, c) /\ (~t.limited => c.slots = t.slots) /\ (t.slots <= Limit => c.slots <= Limit)
    BY <1>4 DEF Charges
  <2>5. r \in Limited => slots' >= slots + Weight(st'[r]) - Weight(st[r])
    BY <1>2, <1>3, <1>4, <2>2, <2>3, OutcomeAccounts
  <2>6. Tame(st[r]) => Tame(st'[r])
    BY <1>2, <2>2, <2>4 DEF Calms
  <2> QED BY <1>3, <2>3, <2>4, <2>5, <2>6 DEF Accounts, Calms
<1>5. CASE ~forced /\ Commit(r, d, CoreFlowPolicy(t), forced)
  BY <1>2, <1>3, <1>4, <1>5, CoreOutcome, CoreCharges
<1>6. CASE forced /\ Commit(r, d, MinimalFlowPolicy(t), forced)
  BY <1>2, <1>4, <1>6, MinimalOutcome, MinimalCharges
<1>7. CASE /\ ~forced /\ p.type = "SCHEDULED" /\ p.name = "Late"
           /\ Commit(r, d, MarkLateRunsPolicy(t), forced)
  BY <1>2, <1>4, <1>7, MarkLateOutcome, MarkLateCharges
<1> QED BY <1>1, <1>5, <1>6, <1>7
\* Nobody has read r for a resumption or an expiry but while it was suspended.
Calm(r) ==
  /\ Tame(st[r])
  /\ reads[r].by = "subflow" => r \in Subflows
  /\ reads[r].by \in {"resume", "expire"} =>
       reads[r].state.type = "PAUSED" /\ reads[r].state.reschedule

\* A step that leaves the run's state, the slots and the leases alone.
LEMMA IdleAccounts ==
  ASSUME TypeOK, NEW r \in Runs, slots' = slots, leases' = leases,
         Weight(st'[r]) = Weight(st[r]), Tame(st[r]) => Tame(st'[r])
  PROVE  Accounts(r)
BY DEF Accounts, TypeOK, Weight

LEMMA SetStateAccounts ==
  ASSUME CountedWork, TypeOK, NEW r \in Runs, NEW q \in Requests, NEW lost \in BOOLEAN,
         SetFlowRunState(r, q, lost)
  PROVE  Accounts(r)
<1>1. q.state \in State /\ q.client \in ClientVersions
  BY OrchestrationAssumption
<1>2. Writes(r, st[r], run[r], q.state, q.client, FALSE)
  BY SetStateStep DEF Transits
<1>3. /\ q.client # "managing" /\ q.state.type # "CANCELLING"
      /\ q.state.name # "AwaitingRetry" /\ Tame(q.state)
  BY DEF CountedWork
<1>4. q.state.type = "RUNNING" => AtWork(st[r])
  BY DEF CountedWork, SetFlowRunState, InTurn, AtWork
<1>5. Proper(r, st[r], q.state, q.client, FALSE)
  BY <1>3, <1>4 DEF Proper
<1>6. st[r] \in State /\ run[r] \in FlowRun /\ FALSE \in BOOLEAN
  BY DEF TypeOK
<1> HIDE DEF CountedWork
<1> QED BY <1>1, <1>2, <1>3, <1>5, <1>6, HandlerAccounts

LEMMA ClientAccounts ==
  ASSUME CountedWork, TypeOK, NEW r \in Runs, Absent(r), Calm(r), ClientNext(r)
  PROVE  Accounts(r)
<1>0. /\ st[r] \in State /\ run[r] \in FlowRun
      /\ reads[r].state \in State /\ reads[r].run \in FlowRun
      /\ "leasing" \in ClientVersions /\ "legacy" \in ClientVersions
      /\ TRUE \in BOOLEAN /\ FALSE \in BOOLEAN
  BY DEF TypeOK, ClientVersions
<1>1. ASSUME NEW p \in CreateStates, CreateFlowRun(r, p)
      PROVE  Accounts(r)
  <2>1. p \in State /\ p.type \in StateTypes
    BY OrchestrationAssumption DEF StateTypes
  <2>2. st[r] = NoState
    BY <1>1 DEF CreateFlowRun, Absent
  <2>3. Writes(r, st[r], run[r], p, "legacy", TRUE)
    BY <1>1, <2>1, <2>2 DEF CreateFlowRun, Writes, InBounds
  <2>4. p.type = "SCHEDULED" /\ p.name # "AwaitingRetry" /\ p.timeout = "none"
    BY DEF CountedWork
  <2>5. Proper(r, st[r], p, "legacy", TRUE) /\ Tame(p)
    BY <2>4 DEF Proper, Tame
  <2> QED BY <1>0, <2>1, <2>3, <2>5, HandlerAccounts
<1>2. ASSUME NEW q \in Requests, NEW lost \in BOOLEAN, SetFlowRunState(r, q, lost)
      PROVE  Accounts(r)
  BY <1>2, SetStateAccounts
<1>3. CASE ResendRequest(r)
  <2>1. retry[r] \in Requests /\ SetFlowRunState(r, retry[r], FALSE)
    BY <1>3 DEF ResendRequest, TypeOK
  <2> QED BY <1>0, <2>1, SetStateAccounts
<1>4. ASSUME NEW p \in ForcedRequests, ForceFlowRunState(r, p)
      PROVE  Accounts(r)
  <2>1. p \in State /\ p.type \in StateTypes
    BY OrchestrationAssumption
  <2>2. Writes(r, st[r], run[r], p, "leasing", TRUE)
    BY <1>4, <2>1 DEF ForceFlowRunState, Writes, InBounds
  <2>3. /\ p.type \notin {"PENDING", "RUNNING", "CANCELLING"} /\ p.name # "AwaitingRetry"
        /\ Tame(p)
    BY DEF CountedWork
  <2>4. Proper(r, st[r], p, "leasing", TRUE)
    BY <2>3 DEF Proper
  <2> QED BY <1>0, <2>1, <2>2, <2>3, <2>4, HandlerAccounts
<1>5. CASE SetInfrastructurePid(r) \/ ReadForResume(r)
  BY <1>5, IdleAccounts DEF SetInfrastructurePid, ReadForResume, Read
<1>6. CASE DeleteFlowRun(r)
  <2>1. st'[r] = NoState /\ leases' = leases
    BY <1>6 DEF DeleteFlowRun, TypeOK
  <2>2. Weight(st'[r]) = 0 /\ Tame(st'[r])
    BY <2>1, TameStates DEF Weight, AtWork, NoState, NewState
  <2>3. /\ slots \in Nat /\ slots' \in Nat /\ slots' <= slots /\ slots' >= slots - 1
        /\ r \notin Limited \/ ~AtWork(st[r]) => slots' = slots
    BY <1>6 DEF DeleteFlowRun, Decremented, TypeOK, AtWork
  <2> QED BY <2>1, <2>2, <2>3, RulesAssumption DEF Accounts, Weight
<1>7. CASE ResumeFlowRun(r)
  <2> DEFINE s == reads[r].state
             p == IF s.reschedule THEN Scheduled("Resuming", "past") ELSE NewState("RUNNING")
  <2>1. /\ Free # {} /\ reads[r].by = "resume"
        /\ Commit(r, reads[r].run,
                  CoreFlowPolicy(Transition(r, s, reads[r].run, p, "leasing")), FALSE)
    BY <1>7 DEF ResumeFlowRun
  <2>2. s.type = "PAUSED" /\ s.reschedule
    BY <2>1 DEF Calm
  <2>3. /\ p \in State /\ p.type = "SCHEDULED" /\ p.type \in StateTypes
        /\ p.name = "Resuming" /\ Tame(p)
    <3>1. /\ Scheduled("Resuming", "past") \in State
          /\ Scheduled("Resuming", "past").type = "SCHEDULED"
      BY ScheduledType DEF StateNames, ScheduledTimes
    <3>2. Scheduled("Resuming", "past").name = "Resuming"
      BY DEF Scheduled, NewState
    <3>3. p = Scheduled("Resuming", "past")
      BY <2>2
    <3> QED BY <3>1, <3>2, <3>3, TameStates DEF StateTypes
  <2> HIDE DEF p
  <2>4. Writes(r, s, reads[r].run, p, "leasing", FALSE)
    BY <2>1, <2>3 DEF Writes
  <2>5. Proper(r, s, p, "leasing", FALSE)
    BY <2>2, <2>3 DEF Proper
  <2> QED BY <1>0, <2>3, <2>4, <2>5, HandlerAccounts
<1> QED BY <1>1, <1>2, <1>3, <1>4, <1>5, <1>6, <1>7 DEF ClientNext

LEMMA ServiceAccounts ==
  ASSUME CountedWork, TypeOK, NEW r \in Runs, Absent(r), Calm(r), ServiceNext(r)
  PROVE  Accounts(r)
<1>0. /\ st[r] \in State /\ run[r] \in FlowRun
      /\ reads[r].state \in State /\ reads[r].run \in FlowRun
      /\ "legacy" \in ClientVersions
      /\ TRUE \in BOOLEAN /\ FALSE \in BOOLEAN
  BY DEF TypeOK, ClientVersions
<1>1. \A type \in {"FAILED", "CANCELLED", "CANCELLING"} :
        /\ NewState(type) \in State /\ NewState(type).type = type /\ type \in StateTypes
        /\ NewState(type).name = "default" /\ Tame(NewState(type))
  BY NewStateType, TameStates DEF NewState, AllTypes, StateTypes
<1>2. CASE \/ ReadExpiredPause(r) \/ ReadSubflow(r) \/ MonitorLateRuns(r)
           \/ EnsureCancellingTimeoutCheck(r) \/ SkipStaleCheck(r)
  BY <1>2, IdleAccounts
     DEF ReadExpiredPause, ReadSubflow, MonitorLateRuns, EnsureCancellingTimeoutCheck,
         SkipStaleCheck, Read
<1>3. CASE FailExpiredPause(r)
  <2> DEFINE s == reads[r].state
             p == NewState("FAILED")
  <2>1. /\ Free # {} /\ s.type = "PAUSED"
        /\ Commit(r, reads[r].run,
                  MinimalFlowPolicy(Transition(r, s, reads[r].run, p, "legacy")), TRUE)
    BY <1>3 DEF FailExpiredPause, Calm
  <2>2. /\ p \in State /\ p.type = "FAILED" /\ p.type \in StateTypes /\ p.name = "default"
        /\ Tame(p)
    BY <1>1
  <2> HIDE DEF p
  <2>3. Writes(r, s, reads[r].run, p, "legacy", TRUE) /\ Proper(r, s, p, "legacy", TRUE)
    BY <2>1, <2>2 DEF Writes, Proper
  <2> QED BY <1>0, <2>2, <2>3, HandlerAccounts
<1>4. CASE CancelSubflowRun(r)
  <2> DEFINE p == NewState(IF r \in Deployed THEN "CANCELLING" ELSE "CANCELLED")
  <2>1. /\ Free # {}
        /\ Commit(r, run[r], MinimalFlowPolicy(Transition(r, st[r], run[r], p, "legacy")), TRUE)
    BY <1>4 DEF CancelSubflowRun
  <2>2. r \in Subflows
    BY <1>4 DEF CancelSubflowRun, Calm
  <2>3. p \in State /\ p.type \in StateTypes /\ Tame(p)
    BY <1>1
  <2> HIDE DEF p
  <2>4. Writes(r, st[r], run[r], p, "legacy", TRUE)
    BY <2>1, <2>3 DEF Writes
  <2>5. r \notin Limited
    BY <2>2 DEF CountedWork
  <2> QED BY <1>0, <2>3, <2>4, <2>5, HandlerAccounts
<1>5. ASSUME NEW due \in DueTimes(r), MarkFlowRunLate(r, due)
      PROVE  Accounts(r)
  <2> DEFINE p == Scheduled("Late", due)
  <2>1. /\ p \in State /\ p.type = "SCHEDULED" /\ p.type \in StateTypes /\ p.name = "Late"
        /\ Tame(p)
    <3>1. due \in ScheduledTimes
      BY <1>0, <1>5 DEF State, DueTimes, ScheduledTimes
    <3> QED BY <3>1, ScheduledType, TameStates DEF StateNames, StateTypes, Scheduled, NewState
  <2>2. /\ Free # {}
        /\ Commit(r, run[r], MarkLateRunsPolicy(Transition(r, st[r], run[r], p, "legacy")), FALSE)
    BY <1>5 DEF MarkFlowRunLate
  <2> HIDE DEF p
  <2>3. Writes(r, st[r], run[r], p, "legacy", FALSE) /\ Proper(r, st[r], p, "legacy", FALSE)
    BY <2>1, <2>2 DEF Writes, Proper
  <2> QED BY <1>0, <2>1, <2>3, HandlerAccounts
<1>6. CASE HandleCancellingTimeout(r)
  <2> DEFINE p == NewState("CANCELLED")
  <2>1. /\ Free # {}
        /\ Commit(r, run[r], CoreFlowPolicy(Transition(r, st[r], run[r], p, "legacy")), FALSE)
    BY <1>6 DEF HandleCancellingTimeout
  <2>2. /\ p \in State /\ p.type = "CANCELLED" /\ p.type \in StateTypes /\ p.name = "default"
        /\ Tame(p)
    BY <1>1
  <2> HIDE DEF p
  <2>3. Writes(r, st[r], run[r], p, "legacy", FALSE) /\ Proper(r, st[r], p, "legacy", FALSE)
    BY <2>1, <2>2 DEF Writes, Proper
  <2> QED BY <1>0, <2>2, <2>3, HandlerAccounts
<1> QED BY <1>2, <1>3, <1>4, <1>5, <1>6 DEF ServiceNext
LEMMA TimeAccounts ==
  ASSUME TypeOK, NEW r \in Runs, TimeNext(r)
  PROVE  Accounts(r)
<1>1. CASE ScheduledTimePasses(r) \/ PauseTimeoutElapses(r)
  <2>1. /\ st'[r].type = st[r].type /\ st'[r].name = st[r].name
        /\ st'[r].reschedule = st[r].reschedule
        /\ st'[r].timeout # "none" => st[r].timeout # "none"
        /\ slots' = slots /\ leases' = leases
    BY <1>1 DEF ScheduledTimePasses, PauseTimeoutElapses, TypeOK, State
  <2>2. Weight(st'[r]) = Weight(st[r])
    BY <2>1 DEF Weight, AtWork
  <2>3. Tame(st[r]) => Tame(st'[r])
    BY <2>1 DEF Tame
  <2> QED BY <2>1, <2>2, <2>3, IdleAccounts
<1>2. CASE RenewConcurrencyLease(r)
  <2>1. Unexpired(leases) => Unexpired(leases')
    BY <1>2 DEF RenewConcurrencyLease, Unexpired, TypeOK
  <2>2. st' = st /\ slots' = slots
    BY <1>2 DEF RenewConcurrencyLease
  <2> QED BY <2>1, <2>2 DEF Accounts, TypeOK, Weight
<1> QED BY <1>1, <1>2 DEF TimeNext

\* What the handlers have read of a run that is only suspended.
LEMMA CalmStep ==
  ASSUME TypeOK, NEW r \in Runs, Absent(r), Calm(r), [Next]_vars, Tame(st[r]) => Tame(st'[r])
  PROVE  Calm(r)'
<1>0. Tame(st'[r])
  BY DEF Calm
<1>a. ASSUME reads'[r] \in {reads[r], NoRead}
      PROVE  Calm(r)'
  BY <1>0, <1>a DEF Calm, NoRead
<1>1. ASSUME NEW by, Read(r, by),
             by \in {"resume", "expire"} => st[r].type = "PAUSED",
             by = "subflow" => r \in Subflows
      PROVE  Calm(r)'
  <2>1. reads'[r].by = by /\ reads'[r].state = st[r]
    BY <1>1 DEF Read, TypeOK
  <2> QED BY <1>0, <1>1, <2>1 DEF Calm, Tame
<1>2. CASE UNCHANGED vars
  BY <1>a, <1>2 DEF vars
<1>3. ASSUME NEW k \in Runs, ClientNext(k) \/ ServiceNext(k) \/ TimeNext(k), k # r
      PROVE  Calm(r)'
  <2>1. reads'[r] = reads[r]
    BY <1>3, Elsewhere DEF Untouched
  <2> QED BY <1>a, <2>1
<1>4. CASE ClientNext(r)
  <2>1. CASE ReadForResume(r)
    BY <1>1, <2>1 DEF ReadForResume
  <2>2. CASE ~ReadForResume(r)
    <3>1. reads'[r] \in {reads[r], NoRead}
      BY <1>4, <2>2 DEF ClientNext, CreateFlowRun, SetFlowRunState, ResendRequest,
                        ForceFlowRunState, SetInfrastructurePid, DeleteFlowRun, ResumeFlowRun,
                        TypeOK
    <3> QED BY <1>a, <3>1
  <2> QED BY <2>1, <2>2
<1>5. CASE ServiceNext(r)
  <2>1. CASE ReadExpiredPause(r)
    BY <1>1, <2>1 DEF ReadExpiredPause, Calm, Tame
  <2>2. CASE ReadSubflow(r)
    BY <1>1, <2>2 DEF ReadSubflow
  <2>3. CASE ~ReadExpiredPause(r) /\ ~ReadSubflow(r)
    <3>1. reads'[r] \in {reads[r], NoRead}
      BY <1>5, <2>3 DEF ServiceNext, FailExpiredPause, CancelSubflowRun, MonitorLateRuns,
                        MarkFlowRunLate, EnsureCancellingTimeoutCheck, SkipStaleCheck,
                        HandleCancellingTimeout, TypeOK
    <3> QED BY <1>a, <3>1
  <2> QED BY <2>1, <2>2, <2>3
<1>6. CASE TimeNext(r)
  <2>1. CASE PauseTimeoutElapses(r)
    <3>1. /\ reads'[r].by = reads[r].by
          /\ reads'[r].state.type = reads[r].state.type
          /\ reads'[r].state.reschedule = reads[r].state.reschedule
      BY <2>1 DEF PauseTimeoutElapses, TypeOK, State
    <3> QED BY <1>0, <3>1 DEF Calm
  <2>2. CASE ScheduledTimePasses(r) \/ RenewConcurrencyLease(r)
    BY <1>a, <2>2 DEF ScheduledTimePasses, RenewConcurrencyLease
  <2> QED BY <1>6, <2>1, <2>2 DEF TimeNext
<1>7. CASE \E l \in LeaseIds : LeaseNext(l)
  BY <1>a, <1>7 DEF LeaseNext, LeaseExpires, RevokeExpiredLease
<1> QED BY <1>2, <1>3, <1>4, <1>5, <1>6, <1>7 DEF Next

---------------------------------------------------------------------------
(* Counting the runs at work.                                              *)

Working == {r \in Limited : AtWork(st[r])}

LimitInv ==
  /\ Unexpired(leases)
  /\ \A r \in Runs : Calm(r)
  /\ IsFiniteSet(Working) /\ Cardinality(Working) <= slots
  /\ slots <= Limit

\* A step of one run moves that run in or out of Working, and the slots with it.
LEMMA WorkingStep ==
  ASSUME TypeOK, TypeOK', LimitInv, NEW r \in Runs, Accounts(r),
         \A k \in Runs \ {r} : st'[k] = st[k]
  PROVE  /\ IsFiniteSet(Working') /\ Cardinality(Working') <= slots'
         /\ slots' <= Limit /\ Unexpired(leases')
<1>1. slots' <= Limit /\ Unexpired(leases')
  BY DEF Accounts, LimitInv
<1>2. /\ IsFiniteSet(Working) /\ Cardinality(Working) <= slots
      /\ Cardinality(Working) \in Nat /\ slots \in Nat /\ slots' \in Nat
  BY FS_CardinalityType DEF LimitInv, TypeOK
<1>3. \A k \in Limited : k \in Runs
  BY OrchestrationAssumption
<1>4. CASE r \notin Limited
  <2>1. Working' = Working /\ slots' = slots
    BY <1>3, <1>4 DEF Working, Accounts
  <2> QED BY <1>1, <1>2, <2>1
<1>5. CASE r \in Limited /\ AtWork(st'[r]) /\ ~AtWork(st[r])
  <2>1. Working' = Working \cup {r} /\ r \notin Working
    BY <1>3, <1>5 DEF Working
  <2>2. IsFiniteSet(Working') /\ Cardinality(Working') = Cardinality(Working) + 1
    BY <1>2, <2>1, FS_AddElement
  <2>3. slots' >= slots + 1
    BY <1>2, <1>5 DEF Accounts, Weight
  <2> QED BY <1>1, <1>2, <1>5, <2>2, <2>3 DEF Accounts, Weight
<1>6. CASE r \in Limited /\ ~AtWork(st'[r]) /\ AtWork(st[r])
  <2>1. Working' = Working \ {r} /\ r \in Working
    BY <1>3, <1>6 DEF Working
  <2>2. IsFiniteSet(Working') /\ Cardinality(Working') = Cardinality(Working) - 1
    BY <1>2, <2>1, FS_RemoveElement
  <2>3. slots' >= slots - 1
    BY <1>2, <1>6 DEF Accounts, Weight
  <2> QED BY <1>1, <1>2, <1>6, <2>2, <2>3
<1>7. CASE r \in Limited /\ (AtWork(st'[r]) <=> AtWork(st[r]))
  <2>1. Working' = Working
    BY <1>3, <1>7 DEF Working
  <2>2. slots' >= slots
    BY <1>2, <1>7 DEF Accounts, Weight
  <2> QED BY <1>1, <1>2, <2>1, <2>2
<1> QED BY <1>4, <1>5, <1>6, <1>7

LEMMA LimitStep ==
  ASSUME CountedWork, TypeOK, TypeOK', LifeInv, LimitInv, [Next]_vars
  PROVE  LimitInv'
<1>1. CASE UNCHANGED vars
  BY <1>1 DEF vars, LimitInv, Calm, Working
<1>2. ASSUME NEW r \in Runs, ClientNext(r) \/ ServiceNext(r) \/ TimeNext(r)
      PROVE  LimitInv'
  <2>1. Absent(r) /\ Calm(r)
    BY DEF LifeInv, LimitInv
  <2>2. Accounts(r)
    BY <1>2, <2>1, ClientAccounts, ServiceAccounts, TimeAccounts
  <2>3. \A k \in Runs \ {r} : st'[k] = st[k]
    BY <1>2, Elsewhere DEF Untouched
  <2>4. /\ IsFiniteSet(Working') /\ Cardinality(Working') <= slots'
        /\ slots' <= Limit /\ Unexpired(leases')
    BY <2>2, <2>3, WorkingStep
  <2>5. ASSUME NEW k \in Runs PROVE Calm(k)'
    <3>1. Absent(k) /\ Calm(k)
      BY DEF LifeInv, LimitInv
    <3>2. Tame(st[k]) => Tame(st'[k])
      BY <2>2, <2>3 DEF Accounts
    <3> QED BY <3>1, <3>2, CalmStep
  <2> QED BY <2>4, <2>5 DEF LimitInv
<1>3. CASE \E l \in LeaseIds : LeaseNext(l)
  BY <1>3 DEF LeaseNext, LeaseExpires, RevokeExpiredLease, CountedWork, LimitInv, Unexpired
<1> QED BY <1>1, <1>2, <1>3 DEF Next

\* ActiveWithinLimit, for any number of runs and slots, either database and
\* either strategy: SecureFlowConcurrencySlots counts every run it lets into
\* Pending, and no other rule gives back a slot while its run is at work, not
\* even a retry in the process of the run.
THEOREM WorkStaysWithinLimit ==
  ASSUME CountedWork
  PROVE  Spec => []ActiveWithinLimit
<1>1. Init => LimitInv
  <2> SUFFICES ASSUME Init PROVE LimitInv
    OBVIOUS
  <2>1. \A r \in Limited : st[r] = NoState
    BY OrchestrationAssumption DEF Init
  <2>2. ~AtWork(NoState) /\ Tame(NoState)
    BY TameStates DEF AtWork, NoState, NewState
  <2>3. Working = {}
    BY <2>1, <2>2 DEF Working
  <2>4. IsFiniteSet(Working) /\ Cardinality(Working) = 0
    BY <2>3, FS_EmptySet
  <2>5. \A r \in Runs : Calm(r)
    BY <2>2 DEF Init, Calm, NoRead
  <2> QED BY <2>4, <2>5, RulesAssumption DEF Init, LimitInv, Unexpired
<1>2. TypeOK /\ TypeOK' /\ LifeInv /\ LimitInv /\ [Next]_vars => LimitInv'
  BY LimitStep
<1>3. TypeOK /\ LimitInv => ActiveWithinLimit
  <2> SUFFICES ASSUME TypeOK, LimitInv PROVE ActiveWithinLimit
    OBVIOUS
  <2> DEFINE active == {r \in Limited : st[r].type \in {"PENDING", "RUNNING", "CANCELLING"}}
  <2>1. active \subseteq Working
    BY DEF Working, AtWork
  <2>2. IsFiniteSet(Working) /\ Cardinality(Working) \in Nat /\ Cardinality(Working) <= Limit
    BY FS_CardinalityType, RulesAssumption DEF LimitInv, TypeOK
  <2>3. Cardinality(active) \in Nat /\ Cardinality(active) <= Cardinality(Working)
    BY <2>1, <2>2, FS_Subset, FS_CardinalityType
  <2> QED BY <2>2, <2>3, RulesAssumption DEF ActiveWithinLimit
<1> QED BY <1>1, <1>2, <1>3, LifeAlways, PTL DEF Spec

=============================================================================
