------------------------ MODULE FlowRunHistoryProofs ------------------------
(***************************************************************************)
(* What the history of a flow run keeps: proofs about the outcome of the   *)
(* three policies, and of the invariants and action properties of          *)
(* FlowRunOrchestration that follow from it.                               *)
(*                                                                         *)
(* The first part follows a transition t through the rules.  Each rule     *)
(* either lets the proposal through (the status stays ACCEPT, and what the *)
(* rule forbids is then known not to be the case) or replaces it by one of *)
(* a few states, after which no later rule governs the transition.         *)
(***************************************************************************)
EXTENDS FlowRunOrchestrationProofs

---------------------------------------------------------------------------
(* The context d of a rule, between the before hooks of the transition t.  *)

\* The client's own proposal, but for the lease and the time it is given.
Original(t, d) ==
  /\ d.status = "ACCEPT"
  /\ d.proposed.type = t.intended
  /\ d.proposed.name = t.proposed.name
  /\ d.proposed.key = t.proposed.key
  /\ d.proposed.persisted = t.proposed.persisted

\* RetryFailedFlows has replaced the failure by a retry.
Retried(t, d) ==
  /\ t.initial.type = "RUNNING" /\ t.intended = "FAILED"
  /\ t.run.count <= Retries
  /\ d.proposed.type = "SCHEDULED" /\ d.proposed.name = "AwaitingRetry"
  /\ d.status = "REJECT" /\ ~d.run.policy.resuming

\* What the other rules put in the place of a proposal.
Substitute(t, s) ==
  \/ s.type = "NONE"
  \/ /\ s.type = "CANCELLED" /\ s.name = "default"
     /\ t.intended \in {"CANCELLING", "PENDING", "RUNNING", "SCHEDULED"}
  \/ /\ s.type = "SCHEDULED" /\ s.name = "AwaitingConcurrencySlot"
     /\ t.intended = "PENDING" /\ t.initial.type # "CANCELLING"
  \/ s.type = "FAILED" /\ s.name = "default" /\ t.initial.type = "PAUSED"

Replaced(t, d) ==
  d.status # "ACCEPT" /\ (Substitute(t, d.proposed) \/ Retried(t, d))

Proposal(t, d) == Original(t, d) \/ Replaced(t, d)

\* What no rule changes, and the columns no before hook changes.
Fixed(t, d) ==
  /\ d.initial = t.initial /\ d.intended = t.intended
  /\ d.run.count = t.run.count /\ d.run.ended = t.run.ended

\* A new attempt forgets the pauses of the last one, unless it is cleaned up.
Anew(t, d) ==
  /\ Terminal(t.initial) /\ t.intended \notin TerminalTypes
  /\ d.entered["Terminal"] = t.intended

Remembers(t, d) ==
  /\ d.run.policy.resuming => t.run.policy.resuming
  /\ \/ d.run.policy.pauseKeys = t.run.policy.pauseKeys
     \/ Retried(t, d)
     \/ Anew(t, d)
  /\ d.saved = t.run.policy

Entries(t, d) ==
  /\ d.entered["Terminal"] # "INVALID" => Terminal(t.initial)
  /\ d.entered["Resuming"] # "INVALID" => t.initial.type = "PAUSED"

Before(t, d) ==
  /\ d \in Context
  /\ Fixed(t, d)
  /\ Proposal(t, d)
  /\ Remembers(t, d)
  /\ Entries(t, d)

\* d comes from c by a rule that leaves the time of an accepted proposal alone.
Follows(c, d) ==
  d.status = "ACCEPT" => c.status = "ACCEPT" /\ d.proposed.sched = c.proposed.sched

\* A rule that governs an accepted proposal governs it by its type.
LEMMA GovernsAccepted ==
  ASSUME NEW t, NEW c, Before(t, c), c.status = "ACCEPT", NEW from, NEW to
  PROVE  /\ Original(t, c)
         /\ Governs(c, from, to) <=> t.initial.type \in from /\ t.intended \in to
BY DEF Before, Proposal, Replaced, Original, Fixed, Governs

\* Once the proposal is replaced no rule but the one for failures of paused
\* runs finds the type that was intended.
LEMMA GovernsReplaced ==
  ASSUME NEW t, NEW c, Before(t, c), c.status # "ACCEPT", NEW from, NEW to,
         Governs(c, from, to)
  PROVE  t.initial.type = "PAUSED" /\ t.intended = "FAILED"
<1>1. /\ c.proposed.type = t.intended /\ t.intended = c.intended /\ c.intended \in StateTypes
      /\ Substitute(t, c.proposed) \/ Retried(t, c)
  BY DEF Before, Proposal, Original, Replaced, Fixed, Governs, Context
<1> QED BY <1>1 DEF Substitute, Retried, StateTypes
LEMMA SubstituteBefore ==
  ASSUME NEW t, NEW c, Before(t, c), c.proposed.type = c.intended,
         NEW s \in State, Substitute(t, s),
         NEW d, d = Reject(c, s) \/ (s = NoState /\ d \in {Abort(c), Delay(c)})
  PROVE  Before(t, d) /\ d.status # "ACCEPT" /\ d.proposed = s /\ d.entered = c.entered
<1>1. c \in Context
  BY DEF Before
<1>2. d \in Context
  BY <1>1, RejectType, AbortType
<1>3. /\ d.initial = c.initial /\ d.intended = c.intended /\ d.run = c.run /\ d.saved = c.saved
      /\ d.entered = c.entered /\ d.proposed = s /\ d.status # "ACCEPT"
  BY <1>1 DEF Reject, Abort, Delay, Context
<1>4. ~Retried(t, c)
  BY DEF Before, Fixed, Retried
<1>5. Replaced(t, d)
  BY <1>3 DEF Replaced
<1> QED BY <1>2, <1>3, <1>4, <1>5 DEF Before, Fixed, Proposal, Remembers, Entries, Anew

\* Entering a rule other than the one for terminal states.
LEMMA EnterBefore ==
  ASSUME NEW t, NEW c, Before(t, c), NEW h \in HookRules \ {"Terminal"},
         h = "Resuming" => t.initial.type = "PAUSED"
  PROVE  /\ Before(t, Enter(h, c)) /\ Follows(c, Enter(h, c))
         /\ Enter(h, c).status = c.status
         /\ Enter(h, c).proposed = c.proposed
         /\ Enter(h, c).entered[h] = c.proposed.type
         /\ \A k \in HookRules \ {h} : Enter(h, c).entered[k] = c.entered[k]
<1> DEFINE d == Enter(h, c)
<1>1. c \in Context /\ d \in Context
  BY EnterType DEF Before
<1>2. /\ d.initial = c.initial /\ d.intended = c.intended /\ d.run = c.run /\ d.saved = c.saved
      /\ d.proposed = c.proposed /\ d.status = c.status
      /\ d.entered[h] = c.proposed.type
      /\ \A k \in HookRules \ {h} : d.entered[k] = c.entered[k]
  BY <1>1 DEF Enter, Context
<1>3. d.entered["Terminal"] = c.entered["Terminal"]
  BY <1>2 DEF HookRules
<1>4. d.entered["Resuming"] # "INVALID" => t.initial.type = "PAUSED"
  BY <1>2 DEF HookRules, Before, Entries
<1> HIDE DEF d
<1>5. Proposal(t, d)
  BY <1>2 DEF Before, Proposal, Original, Replaced, Retried
<1>6. Remembers(t, d)
  BY <1>2, <1>3 DEF Before, Remembers, Retried, Anew
<1>7. Before(t, d) /\ Follows(c, d)
  BY <1>1, <1>2, <1>3, <1>4, <1>5, <1>6 DEF Before, Fixed, Entries, Follows
<1> QED BY <1>2, <1>7 DEF d

\* What touches neither the policy of the run nor the entries of the rules.
LEMMA TimeBefore ==
  ASSUME NEW t, NEW c, Before(t, c), NEW d \in Context,
         d.initial = c.initial, d.intended = c.intended, d.run = c.run, d.saved = c.saved,
         d.entered = c.entered, d.status = c.status,
         d.proposed.type = c.proposed.type, d.proposed.name = c.proposed.name,
         d.proposed.key = c.proposed.key, d.proposed.persisted = c.proposed.persisted
  PROVE  Before(t, d)
<1>1. Proposal(t, d)
  BY DEF Before, Proposal, Original, Replaced, Retried, Substitute
<1> QED BY <1>1 DEF Before, Fixed, Remembers, Retried, Anew, Entries

---------------------------------------------------------------------------
(* The before hooks, one by one.                                           *)

LEMMA PreserveBefore ==
  ASSUME NEW t, NEW c, Before(t, c)
  PROVE  LET d == PreserveDeploymentConcurrencyLeaseId(c)
         IN Before(t, d) /\ Follows(c, d) /\ d.run = c.run /\ d.entered = c.entered
<1> DEFINE d == PreserveDeploymentConcurrencyLeaseId(c)
<1>1. c \in Context /\ d \in Context
  BY PreserveType DEF Before
<1>2. /\ d.initial = c.initial /\ d.intended = c.intended /\ d.run = c.run /\ d.saved = c.saved
      /\ d.entered = c.entered /\ d.status = c.status
      /\ d.proposed.type = c.proposed.type /\ d.proposed.name = c.proposed.name
      /\ d.proposed.key = c.proposed.key /\ d.proposed.persisted = c.proposed.persisted
      /\ d.proposed.sched = c.proposed.sched
  BY <1>1 DEF PreserveDeploymentConcurrencyLeaseId, Context, State
<1> HIDE DEF d
<1>3. Before(t, d) /\ Follows(c, d) /\ d.run = c.run /\ d.entered = c.entered
  BY <1>1, <1>2, TimeBefore DEF Follows
<1> QED BY <1>3 DEF d

\* A rule that either rejects or does nothing.
LEMMA RejectingBefore ==
  ASSUME NEW t, NEW c, Before(t, c), NEW from, NEW to, NEW s \in State, NEW d,
         \/ d = c
         \/ Governs(c, from, to) /\ Substitute(t, s) /\ d = Reject(c, s)
  PROVE  /\ Before(t, d) /\ Follows(c, d) /\ d.entered = c.entered
         /\ d.status = "ACCEPT" => d = c /\ ~(Governs(c, from, to) /\ d = Reject(c, s))
<1>0. Reject(c, s).status # "ACCEPT"
  BY DEF Reject, Before, Context
<1>1. CASE d = c
  BY <1>0, <1>1 DEF Follows
<1>2. CASE Governs(c, from, to) /\ Substitute(t, s) /\ d = Reject(c, s)
  <2>1. c.proposed.type = c.intended
    BY <1>2 DEF Governs
  <2> QED BY <1>2, <2>1, SubstituteBefore DEF Follows
<1> QED BY <1>1, <1>2

LEMMA DuplicateBefore ==
  ASSUME NEW t, NEW c, Before(t, c)
  PROVE  LET d == PreventDuplicateTransitions(c)
         IN Before(t, d) /\ Follows(c, d) /\ d.run = c.run
<1> DEFINE d == PreventDuplicateTransitions(c)
<1>1. \/ d = c
      \/ Governs(c, StateTypes, AllTypes) /\ Substitute(t, NoState) /\ d = Reject(c, NoState)
  BY NoStateType DEF PreventDuplicateTransitions, Substitute
<1>2. d.run = c.run
  BY <1>1 DEF Reject, Before, Context
<1> HIDE DEF d
<1>3. Before(t, d) /\ Follows(c, d)
  BY <1>1, NoStateType, RejectingBefore
<1> QED BY <1>2, <1>3 DEF d

LEMMA EnforceBefore ==
  ASSUME NEW t, NEW c, Before(t, c)
  PROVE  LET d == EnforceCancellingToCancelledTransition(c)
         IN /\ Before(t, d) /\ Follows(c, d)
            /\ d.status = "ACCEPT" /\ t.initial.type = "CANCELLING" => t.intended = "CANCELLED"
<1> DEFINE d == EnforceCancellingToCancelledTransition(c)
           from == {"CANCELLING"}
           to == AllTypes \ {"CANCELLED"}
<1>1. \/ d = c /\ ~Governs(c, from, to)
      \/ Governs(c, from, to) /\ Substitute(t, NoState) /\ d = Reject(c, NoState)
  BY NoStateType DEF EnforceCancellingToCancelledTransition, Substitute
<1>2. t.intended \in AllTypes
  BY DEF Before, Fixed, Context, AllTypes
<1>3. c.status = "ACCEPT" =>
        (Governs(c, from, to) <=> t.initial.type \in from /\ t.intended \in to)
  BY GovernsAccepted
<1> HIDE DEF d
<1>4. /\ Before(t, d) /\ Follows(c, d)
      /\ d.status = "ACCEPT" => d = c /\ ~(Governs(c, from, to) /\ d = Reject(c, NoState))
  BY <1>1, NoStateType, RejectingBefore
<1>5. d = c /\ d.status = "ACCEPT" /\ t.initial.type = "CANCELLING" => t.intended = "CANCELLED"
  BY <1>1, <1>2, <1>3, <1>4 DEF Governs
<1> QED BY <1>4, <1>5 DEF d

LEMMA BypassBefore ==
  ASSUME NEW t, NEW c, Before(t, c)
  PROVE  LET d == BypassCancellingFlowRunsWithNoInfra(c)
         IN Before(t, d) /\ Follows(c, d) /\ d.entered = c.entered
<1> DEFINE d == BypassCancellingFlowRunsWithNoInfra(c)
           from == {"SCHEDULED", "PAUSED"}
           to == {"CANCELLING"}
           s == NewState("CANCELLED")
<1>1. s \in State /\ s.type = "CANCELLED" /\ s.name = "default"
  BY NewStateType DEF NewState, AllTypes, StateTypes
<1>2. Governs(c, from, to) => t.intended = "CANCELLING"
  BY DEF Governs, Before, Fixed
<1>3. \/ d = c
      \/ Governs(c, from, to) /\ Substitute(t, s) /\ d = Reject(c, s)
  BY <1>1, <1>2 DEF BypassCancellingFlowRunsWithNoInfra, Substitute
<1> HIDE DEF d, s
<1>4. Before(t, d) /\ Follows(c, d) /\ d.entered = c.entered
  BY <1>1, <1>3, RejectingBefore
<1> QED BY <1>4 DEF d

LEMMA LateBefore ==
  ASSUME NEW t, NEW c, Before(t, c)
  PROVE  LET d == EnsureOnlyScheduledFlowsMarkedLate(c)
         IN /\ Before(t, d) /\ Follows(c, d) /\ d.entered = c.entered
            /\ d.status = "ACCEPT" /\ t.intended = "SCHEDULED" /\ t.proposed.name = "Late"
                 => t.initial.type \in {"SCHEDULED", "NONE"}
<1> DEFINE d == EnsureOnlyScheduledFlowsMarkedLate(c)
           to == {"SCHEDULED"}
<1>1. \/ /\ d = c
         /\ ~(/\ Governs(c, StateTypes, to) /\ c.proposed.name = "Late"
              /\ c.initial.type # "SCHEDULED")
      \/ Governs(c, StateTypes, to) /\ Substitute(t, NoState) /\ d = Reject(c, NoState)
  BY NoStateType DEF EnsureOnlyScheduledFlowsMarkedLate, Substitute
<1>2. c.initial = t.initial /\ t.initial.type \in StateTypes \cup {"NONE"}
  BY DEF Before, Fixed, Context, AllTypes, State
<1>3. c.status = "ACCEPT" =>
        /\ Governs(c, StateTypes, to) <=> t.initial.type \in StateTypes /\ t.intended \in to
        /\ c.proposed.name = t.proposed.name
  BY GovernsAccepted DEF Original
<1> HIDE DEF d
<1>4. /\ Before(t, d) /\ Follows(c, d) /\ d.entered = c.entered
      /\ d.status = "ACCEPT" => d = c /\ ~(Governs(c, StateTypes, to) /\ d = Reject(c, NoState))
  BY <1>1, NoStateType, RejectingBefore
<1>5. d = c /\ d.status = "ACCEPT" /\ t.intended = "SCHEDULED" /\ t.proposed.name = "Late"
        => t.initial.type \in {"SCHEDULED", "NONE"}
  BY <1>1, <1>2, <1>3, <1>4 DEF Governs
<1> QED BY <1>4, <1>5 DEF d

LEMMA PendingBefore ==
  ASSUME NEW t, NEW c, Before(t, c)
  PROVE  LET d == PreventPendingTransitions(c)
         IN /\ Before(t, d)
            /\ d.status = "ACCEPT" => c.status = "ACCEPT"
            /\ t.initial.type # "PENDING" => Follows(c, d)
            /\ /\ d.status = "ACCEPT" /\ t.intended = "PENDING"
               /\ t.initial.type \in {"PENDING", "CANCELLING", "RUNNING", "CANCELLED"}
               => /\ t.initial.type = "PENDING" /\ t.proposed.name # "default"
                  /\ d.proposed.sched = t.initial.sched
<1> DEFINE d == PreventPendingTransitions(c)
           from == {"PENDING", "CANCELLING", "RUNNING", "CANCELLED"}
           k == [c EXCEPT !.proposed.sched = c.initial.sched,
                          !.proposed.lease = c.initial.lease]
<1>1. c \in Context /\ c.initial = t.initial
  BY DEF Before, Fixed
<1>2. c.status = "ACCEPT" =>
        /\ Governs(c, from, {"PENDING"}) <=> t.initial.type \in from /\ t.intended \in {"PENDING"}
        /\ c.proposed.name = t.proposed.name
  BY GovernsAccepted DEF Original
<1>3. CASE ~Governs(c, from, {"PENDING"})
  <2>1. d = c
    BY <1>3 DEF PreventPendingTransitions
  <2> QED BY <1>2, <1>3, <2>1 DEF Follows
<1>4. CASE Governs(c, from, {"PENDING"})
  <2>1. c.proposed.type = c.intended
    BY <1>4 DEF Governs
  <2>2. CASE d = Abort(c)
    <3>1. Before(t, d) /\ d.status # "ACCEPT"
      BY <2>1, <2>2, NoStateType, SubstituteBefore DEF Substitute
    <3> QED BY <3>1 DEF Follows
  <2>3. CASE d # Abort(c)
    <3>1. d = k /\ t.initial.type = "PENDING" /\ c.proposed.name # "default"
      BY <1>1, <1>4, <2>3 DEF PreventPendingTransitions
    <3>2. /\ k.initial = c.initial /\ k.intended = c.intended /\ k.run = c.run
          /\ k.saved = c.saved /\ k.entered = c.entered /\ k.status = c.status
          /\ k.proposed.type = c.proposed.type /\ k.proposed.name = c.proposed.name
          /\ k.proposed.key = c.proposed.key /\ k.proposed.persisted = c.proposed.persisted
          /\ k.proposed.sched = c.initial.sched
      BY <1>1 DEF Context, State
    <3>3. d \in Context
      BY <1>1, PendingType
    <3>4. Before(t, d)
      <4> HIDE DEF d, k
      <4> QED BY <3>1, <3>2, <3>3, TimeBefore
    <3> QED BY <1>1, <1>2, <3>1, <3>2, <3>4
  <2> QED BY <2>2, <2>3
<1> QED BY <1>3, <1>4

LEMMA AcquireBefore ==
  ASSUME NEW t, NEW c, Before(t, c)
  PROVE  LET d == AcquireLease(c)
         IN Before(t, d) /\ Follows(c, d) /\ d.entered = c.entered /\ d.status = c.status
<1> DEFINE d == AcquireLease(c)
<1>1. c \in Context /\ d \in Context
  BY AcquireType DEF Before
<1>2. /\ d.initial = c.initial /\ d.intended = c.intended /\ d.run = c.run /\ d.saved = c.saved
      /\ d.entered = c.entered /\ d.status = c.status
      /\ d.proposed.type = c.proposed.type /\ d.proposed.name = c.proposed.name
      /\ d.proposed.key = c.proposed.key /\ d.proposed.persisted = c.proposed.persisted
      /\ d.proposed.sched = c.proposed.sched
  BY <1>1 DEF AcquireLease, Context, State
<1> HIDE DEF d
<1>3. Before(t, d) /\ Follows(c, d) /\ d.entered = c.entered /\ d.status = c.status
  BY <1>1, <1>2, TimeBefore DEF Follows
<1> QED BY <1>3 DEF d

LEMMA ValidateBefore ==
  ASSUME NEW t, NEW c, Before(t, c)
  PROVE  LET d == ValidateDeploymentConcurrencyAtRunning(c)
         IN Before(t, d) /\ Follows(c, d)
<1> DEFINE d == ValidateDeploymentConcurrencyAtRunning(c)
           l == c.initial.lease
           k == [c EXCEPT !.proposed.lease = l]
           renewed == [k EXCEPT !.leases[l] = "live"]
           s == NewState("CANCELLED")
<1>1. c \in Context /\ d \in Context
  BY ValidateType DEF Before
<1>2. CASE ~Governs(c, {"PENDING"}, {"RUNNING"})
  BY <1>2 DEF ValidateDeploymentConcurrencyAtRunning, Follows
<1>3. CASE Governs(c, {"PENDING"}, {"RUNNING"})
  <2>1. /\ k \in Context
        /\ k.initial = c.initial /\ k.intended = c.intended /\ k.run = c.run
        /\ k.saved = c.saved /\ k.entered = c.entered /\ k.status = c.status
        /\ k.proposed.type = c.proposed.type /\ k.proposed.name = c.proposed.name
        /\ k.proposed.key = c.proposed.key /\ k.proposed.persisted = c.proposed.persisted
        /\ k.proposed.sched = c.proposed.sched
    BY <1>1 DEF Context, State
  <2>2. /\ renewed.initial = k.initial /\ renewed.intended = k.intended
        /\ renewed.run = k.run /\ renewed.saved = k.saved
        /\ renewed.entered = k.entered /\ renewed.status = k.status
        /\ renewed.proposed = k.proposed
    BY <1>1 DEF Context
  <2>3. /\ s \in State /\ Substitute(t, s)
    <3>1. s \in State /\ s.type = "CANCELLED" /\ s.name = "default"
      BY NewStateType DEF NewState, AllTypes, StateTypes
    <3>2. t.intended = "RUNNING"
      BY <1>3 DEF Governs, Before, Fixed
    <3> QED BY <3>1, <3>2 DEF Substitute
  <2>4. d = k \/ d = renewed \/ d = AcquireLease(k) \/ d = Reject(k, s)
    <3>1. d = IF l = NoLease \/ c.client # "leasing" \/ ~c.limited THEN k
              ELSE IF Exists(c, l) THEN renewed
              ELSE IF CanAcquire(c) THEN AcquireLease(k)
              ELSE Reject(k, s)
      BY <1>3 DEF ValidateDeploymentConcurrencyAtRunning
    <3> HIDE DEF d, k, l, renewed, s
    <3> QED BY <3>1
  <2>5. k.proposed.type = k.intended
    BY <1>3, <2>1 DEF Governs
  <2> HIDE DEF k, l, renewed, s, d
  <2>6. Before(t, k) /\ Follows(c, k)
    BY <2>1, TimeBefore DEF Follows
  <2>7. CASE d = renewed
    BY <1>1, <2>1, <2>2, <2>6, <2>7, TimeBefore DEF Follows, d
  <2>8. CASE d = AcquireLease(k)
    BY <2>6, <2>8, AcquireBefore DEF Follows, d
  <2>9. CASE d = Reject(k, s)
    BY <2>3, <2>5, <2>6, <2>9, SubstituteBefore DEF Follows, d
  <2> QED BY <2>4, <2>6, <2>7, <2>8, <2>9 DEF d
<1> QED BY <1>2, <1>3

LEMMA SecureBefore ==
  ASSUME NEW t, NEW c, Before(t, c)
  PROVE  LET d == SecureFlowConcurrencySlots(c)
         IN Before(t, d) /\ Follows(c, d)
<1> DEFINE d == SecureFlowConcurrencySlots(c)
           from == AllTypes \ {"PENDING", "RUNNING", "CANCELLING"}
           queued == Scheduled("AwaitingConcurrencySlot", "future")
           cancelled == NewState("CANCELLED")
<1>1. CASE ~Governs(c, from, {"PENDING"})
  BY <1>1 DEF SecureFlowConcurrencySlots, Follows
<1>2. CASE Governs(c, from, {"PENDING"})
  <2>1. /\ c.proposed.type = c.intended /\ t.intended = "PENDING"
        /\ t.initial.type # "CANCELLING"
    BY <1>2 DEF Governs, Before, Fixed
  <2>2. queued \in State /\ Substitute(t, queued)
    <3>1. queued \in State /\ queued.type = "SCHEDULED"
      BY ScheduledType DEF StateNames, ScheduledTimes
    <3>2. queued.name = "AwaitingConcurrencySlot"
      BY DEF Scheduled, NewState
    <3> QED BY <2>1, <3>1, <3>2 DEF Substitute
  <2>3. cancelled \in State /\ Substitute(t, cancelled)
    <3>1. cancelled \in State /\ cancelled.type = "CANCELLED" /\ cancelled.name = "default"
      BY NewStateType DEF NewState, AllTypes, StateTypes
    <3> QED BY <2>1, <3>1 DEF Substitute
  <2>4. \E e \in {c, Abort(c), AcquireLease(c), Reject(c, queued), Reject(c, cancelled)} :
          d = Enter("Secure", e)
    BY <1>2 DEF SecureFlowConcurrencySlots
  <2>5. PICK e \in {c, Abort(c), AcquireLease(c), Reject(c, queued), Reject(c, cancelled)} :
          d = Enter("Secure", e)
    BY <2>4
  <2> HIDE DEF d, queued, cancelled
  <2>6. Before(t, e) /\ Follows(c, e)
    <3>1. CASE e = c
      BY <3>1 DEF Follows
    <3>2. CASE e = AcquireLease(c)
      BY <3>2, AcquireBefore
    <3>3. CASE e = Abort(c)
      BY <2>1, <3>3, NoStateType, SubstituteBefore DEF Substitute, Follows
    <3>4. CASE e = Reject(c, queued)
      BY <2>1, <2>2, <3>4, SubstituteBefore DEF Follows
    <3>5. CASE e = Reject(c, cancelled)
      BY <2>1, <2>3, <3>5, SubstituteBefore DEF Follows
    <3> QED BY <2>5, <3>1, <3>2, <3>3, <3>4, <3>5
  <2>7. Before(t, Enter("Secure", e)) /\ Follows(e, Enter("Secure", e))
    BY <2>6, EnterBefore DEF HookRules
  <2>8. Before(t, d) /\ Follows(c, d)
    BY <2>5, <2>6, <2>7 DEF Follows
  <2> QED BY <2>8 DEF d
<1> QED BY <1>1, <1>2

LEMMA RemoveLeaseBefore ==
  ASSUME NEW t, NEW c, Before(t, c)
  PROVE  LET d == RemoveDeploymentConcurrencyLeaseForOldClientVersions(c)
         IN Before(t, d) /\ Follows(c, d)
<1>1. Before(t, Enter("RemoveLease", c)) /\ Follows(c, Enter("RemoveLease", c))
  BY EnterBefore DEF HookRules
<1> QED BY <1>1 DEF RemoveDeploymentConcurrencyLeaseForOldClientVersions, Follows

LEMMA PausingBefore ==
  ASSUME NEW t, NEW c, Before(t, c)
  PROVE  LET d == HandlePausingFlows(c)
         IN /\ Before(t, d) /\ Follows(c, d)
            /\ d.status = "ACCEPT" /\ t.intended = "PAUSED"
                 => t.initial.type = "RUNNING" /\ d.entered["Pausing"] = "PAUSED"
<1> DEFINE d == HandlePausingFlows(c)
<1>0. c.initial = t.initial /\ c.intended = t.intended /\ t.initial.type \in AllTypes
  BY DEF Before, Fixed, Context, State
<1>1. CASE ~Governs(c, AllTypes, {"PAUSED"})
  <2>1. c.status = "ACCEPT" => t.intended # "PAUSED"
    BY <1>0, <1>1, GovernsAccepted
  <2> QED BY <1>1, <2>1 DEF HandlePausingFlows, Follows
<1>2. CASE Governs(c, AllTypes, {"PAUSED"})
  <2>0. c.proposed.type = "PAUSED"
    BY <1>2 DEF Governs
  <2>1. c.proposed.type = c.intended
    BY <1>2 DEF Governs
  <2>2. \E e \in {c, Abort(c), Reject(c, NoState)} :
          d = Enter("Pausing", e) /\ (e = c => t.initial.type = "RUNNING")
    <3>1. CASE c.initial.type = "RUNNING"
      BY <1>0, <1>2, <3>1 DEF HandlePausingFlows
    <3>2. CASE c.initial.type # "RUNNING"
      <4>1. d = Enter("Pausing", Abort(c)) \/ d = Enter("Pausing", Reject(c, NoState))
        BY <1>2, <3>2 DEF HandlePausingFlows
      <4>2. Abort(c).proposed = NoState /\ Reject(c, NoState).proposed = NoState
        BY DEF Abort, Reject, Before, Context
      <4>3. NoState # c.proposed
        BY <2>0, NoStateType
      <4> QED BY <4>1, <4>2, <4>3
    <3> QED BY <3>1, <3>2
  <2>3. PICK e \in {c, Abort(c), Reject(c, NoState)} :
          d = Enter("Pausing", e) /\ (e = c => t.initial.type = "RUNNING")
    BY <2>2
  <2> HIDE DEF d
  <2>4. Before(t, e) /\ Follows(c, e) /\ (e = c \/ e.status # "ACCEPT")
    <3>1. CASE e = c
      BY <3>1 DEF Follows
    <3>2. CASE e = Abort(c)
      BY <2>1, <3>2, NoStateType, SubstituteBefore DEF Substitute, Follows
    <3>3. CASE e = Reject(c, NoState)
      BY <2>1, <3>3, NoStateType, SubstituteBefore DEF Substitute, Follows
    <3> QED BY <2>3, <3>1, <3>2, <3>3
  <2>5. /\ Before(t, d) /\ Follows(e, d) /\ d.status = e.status
        /\ d.entered["Pausing"] = e.proposed.type
    BY <2>3, <2>4, EnterBefore DEF HookRules
  <2>6. /\ Before(t, d) /\ Follows(c, d)
        /\ d.status = "ACCEPT" => t.initial.type = "RUNNING" /\ d.entered["Pausing"] = "PAUSED"
    BY <2>0, <2>3, <2>4, <2>5 DEF Follows
  <2> QED BY <2>6 DEF d
<1> QED BY <1>1, <1>2

LEMMA ResumingBefore ==
  ASSUME NEW t, NEW c, Before(t, c)
  PROVE  LET d == HandleResumingPausedFlows(c)
         IN /\ Before(t, d) /\ Follows(c, d) /\ d.entered["Pausing"] = c.entered["Pausing"]
            /\ d.status = "ACCEPT" /\ t.initial.type = "PAUSED"
                 => t.intended \notin {"PENDING", "PAUSED"}
<1> DEFINE d == HandleResumingPausedFlows(c)
           failed == NewState("FAILED")
<1>0. c.initial = t.initial /\ c.intended = t.intended /\ t.intended \in AllTypes
  BY DEF Before, Fixed, Context, AllTypes
<1>1. CASE ~Governs(c, {"PAUSED"}, AllTypes)
  <2>1. c.status = "ACCEPT" => t.initial.type # "PAUSED"
    BY <1>0, <1>1, GovernsAccepted
  <2> QED BY <1>1, <2>1 DEF HandleResumingPausedFlows, Follows
<1>2. CASE Governs(c, {"PAUSED"}, AllTypes)
  <2>1. c.proposed.type = c.intended
    BY <1>2 DEF Governs
  <2>2. t.initial.type = "PAUSED"
    BY <1>0, <1>2 DEF Governs
  <2>3. \E e \in {c, Reject(c, NoState), Reject(c, failed)} :
          d = Enter("Resuming", e) /\ (e = c => t.intended \notin {"PENDING", "PAUSED"})
    <3>1. CASE c.proposed.type \notin {"PENDING", "PAUSED"}
      BY <1>0, <1>2, <2>1, <3>1 DEF HandleResumingPausedFlows
    <3>2. CASE c.proposed.type \in {"PENDING", "PAUSED"}
      <4>1. d = Enter("Resuming", Reject(c, NoState))
        BY <1>2, <3>2 DEF HandleResumingPausedFlows
      <4>2. Reject(c, NoState).proposed = NoState
        BY DEF Reject, Before, Context
      <4>3. NoState # c.proposed
        BY <3>2, NoStateType
      <4> QED BY <4>1, <4>2, <4>3
    <3> QED BY <3>1, <3>2
  <2>4. PICK e \in {c, Reject(c, NoState), Reject(c, failed)} :
          d = Enter("Resuming", e) /\ (e = c => t.intended \notin {"PENDING", "PAUSED"})
    BY <2>3
  <2>5. failed \in State /\ Substitute(t, failed)
    <3>1. failed \in State /\ failed.type = "FAILED" /\ failed.name = "default"
      BY NewStateType DEF NewState, AllTypes, StateTypes
    <3> QED BY <2>2, <3>1 DEF Substitute
  <2> HIDE DEF d, failed
  <2>6. /\ Before(t, e) /\ Follows(c, e) /\ (e = c \/ e.status # "ACCEPT")
        /\ e.entered = c.entered
    <3>1. CASE e = c
      BY <3>1 DEF Follows
    <3>2. CASE e = Reject(c, NoState)
      BY <2>1, <3>2, NoStateType, SubstituteBefore DEF Substitute, Follows
    <3>3. CASE e = Reject(c, failed)
      BY <2>1, <2>5, <3>3, SubstituteBefore DEF Follows
    <3> QED BY <2>4, <3>1, <3>2, <3>3
  <2>7. /\ Before(t, d) /\ Follows(e, d) /\ d.status = e.status
        /\ d.entered["Pausing"] = e.entered["Pausing"]
    BY <2>2, <2>4, <2>6, EnterBefore DEF HookRules
  <2>8. /\ Before(t, d) /\ Follows(c, d) /\ d.entered["Pausing"] = c.entered["Pausing"]
        /\ d.status = "ACCEPT" => t.intended \notin {"PENDING", "PAUSED"}
    BY <2>4, <2>6, <2>7 DEF Follows
  <2> QED BY <2>8 DEF d
<1> QED BY <1>1, <1>2

LEMMA CopyBefore ==
  ASSUME NEW t, NEW c, Before(t, c)
  PROVE  LET d == CopyScheduledTime(c)
         IN /\ Before(t, d) /\ d.entered = c.entered /\ d.status = c.status
            /\ d.status = "ACCEPT" =>
                 IF /\ t.initial.type = "SCHEDULED" /\ t.intended = "PENDING"
                    /\ c.proposed.sched = "none"
                 THEN d.proposed.sched = t.initial.sched
                 ELSE d.proposed.sched = c.proposed.sched
<1> DEFINE d == CopyScheduledTime(c)
           k == [c EXCEPT !.proposed.sched = c.initial.sched]
           g == Governs(c, {"SCHEDULED"}, {"PENDING"}) /\ c.proposed.sched = "none"
<1>1. c \in Context /\ d \in Context /\ c.initial = t.initial
  BY TimingType DEF Before, Fixed
<1>2. c.status = "ACCEPT" =>
        (g <=> /\ t.initial.type = "SCHEDULED" /\ t.intended = "PENDING"
               /\ c.proposed.sched = "none")
  BY GovernsAccepted
<1>3. /\ k.initial = c.initial /\ k.intended = c.intended /\ k.run = c.run
      /\ k.saved = c.saved /\ k.entered = c.entered /\ k.status = c.status
      /\ k.proposed.type = c.proposed.type /\ k.proposed.name = c.proposed.name
      /\ k.proposed.key = c.proposed.key /\ k.proposed.persisted = c.proposed.persisted
      /\ k.proposed.sched = c.initial.sched
  BY <1>1 DEF Context, State
<1>4. d = IF g THEN k ELSE c
  BY DEF CopyScheduledTime
<1> HIDE DEF k, g
<1>5. Before(t, d)
  <2> HIDE DEF d
  <2> QED BY <1>1, <1>3, <1>4, TimeBefore
<1> HIDE DEF d
<1>6. d.entered = c.entered /\ d.status = c.status
  BY <1>3, <1>4
<1>7. d.proposed.sched = IF g THEN t.initial.sched ELSE c.proposed.sched
  BY <1>1, <1>3, <1>4
<1> QED BY <1>2, <1>5, <1>6, <1>7 DEF d

LEMMA WaitBefore ==
  ASSUME NEW t, NEW c, Before(t, c)
  PROVE  LET d == WaitForScheduledTime(c)
         IN /\ Before(t, d) /\ Follows(c, d) /\ d.entered = c.entered
            /\ /\ d.status = "ACCEPT" /\ t.intended = "RUNNING"
               /\ t.initial.type \in {"SCHEDULED", "PENDING"}
               => t.initial.sched # "future"
<1> DEFINE d == WaitForScheduledTime(c)
           g == Governs(c, {"SCHEDULED", "PENDING"}, {"RUNNING"})
<1>1. c.initial = t.initial
  BY DEF Before, Fixed
<1>2. c.status = "ACCEPT" =>
        (g <=> t.initial.type \in {"SCHEDULED", "PENDING"} /\ t.intended \in {"RUNNING"})
  BY GovernsAccepted
<1>3. CASE g /\ c.initial.sched = "future"
  <2>1. c.proposed.type = c.intended
    BY <1>3 DEF Governs
  <2>2. d = Delay(c)
    BY <1>3 DEF WaitForScheduledTime
  <2>3. Before(t, d) /\ Follows(c, d) /\ d.entered = c.entered /\ d.status # "ACCEPT"
    BY <2>1, <2>2, NoStateType, SubstituteBefore DEF Substitute, Follows
  <2> QED BY <2>3
<1>4. CASE ~(g /\ c.initial.sched = "future")
  <2>1. d = c
    BY <1>4 DEF WaitForScheduledTime
  <2> QED BY <1>1, <1>2, <1>4, <2>1 DEF Follows
<1> QED BY <1>3, <1>4

LEMMA RetryBefore ==
  ASSUME NEW t, NEW c, Before(t, c)
  PROVE  LET d == RetryFailedFlows(c)
         IN Before(t, d) /\ Follows(c, d) /\ d.entered = c.entered
<1> DEFINE d == RetryFailedFlows(c)
           k == [c EXCEPT !.run.policy.retryType = "none"]
           p == [resuming |-> FALSE, pauseKeys |-> {}, retryType |-> "in_process"]
           a == [Scheduled("AwaitingRetry", "future") EXCEPT !.lease = c.initial.lease]
           w == [c EXCEPT !.run.policy = p]
<1>1. /\ c \in Context /\ d \in Context /\ c.initial = t.initial /\ c.intended = t.intended
      /\ c.run.count = t.run.count /\ c.run.ended = t.run.ended
  BY RetryType DEF Before, Fixed
<1>2. CASE ~Governs(c, {"RUNNING"}, {"FAILED"})
  BY <1>2 DEF RetryFailedFlows, Follows
<1>3. CASE Governs(c, {"RUNNING"}, {"FAILED"}) /\ c.run.count > Retries
  <2>1. d = k
    BY <1>3 DEF RetryFailedFlows
  <2>2. /\ k.initial = c.initial /\ k.intended = c.intended /\ k.saved = c.saved
        /\ k.entered = c.entered /\ k.status = c.status /\ k.proposed = c.proposed
        /\ k.run.count = c.run.count /\ k.run.ended = c.run.ended
        /\ k.run.policy.resuming = c.run.policy.resuming
        /\ k.run.policy.pauseKeys = c.run.policy.pauseKeys
    BY <1>1 DEF Context, FlowRun, EmpiricalPolicy
  <2> HIDE DEF d, k
  <2>3. Proposal(t, d) /\ Remembers(t, d) /\ Entries(t, d) /\ Follows(c, d)
    BY <2>1, <2>2 DEF Before, Proposal, Original, Replaced, Retried, Remembers, Anew, Entries,
                      Follows
  <2>4. Before(t, d) /\ Follows(c, d) /\ d.entered = c.entered
    BY <1>1, <2>1, <2>2, <2>3 DEF Before, Fixed
  <2> QED BY <2>4 DEF d
<1>4. CASE Governs(c, {"RUNNING"}, {"FAILED"}) /\ ~(c.run.count > Retries)
  <2>1. d = Reject(w, a)
    BY <1>4 DEF RetryFailedFlows
  <2>2. /\ w.initial = c.initial /\ w.intended = c.intended /\ w.saved = c.saved
        /\ w.entered = c.entered
        /\ w.run.count = c.run.count /\ w.run.ended = c.run.ended
        /\ ~w.run.policy.resuming
    BY <1>1 DEF Context, FlowRun
  <2>3. /\ d.initial = w.initial /\ d.intended = w.intended /\ d.saved = w.saved
        /\ d.entered = w.entered /\ d.run = w.run /\ d.status = "REJECT" /\ d.proposed = a
    BY <1>1, <2>1 DEF Reject, Context
  <2>4. a.type = "SCHEDULED" /\ a.name = "AwaitingRetry"
    BY DEF Scheduled, NewState
  <2>5. t.run.count <= Retries
    BY <1>1, <1>4, RulesAssumption DEF NoRetries, Context, FlowRun
  <2>6. t.initial.type = "RUNNING" /\ t.intended = "FAILED"
    BY <1>1, <1>4 DEF Governs
  <2> HIDE DEF d, w, a
  <2>7. Retried(t, d)
    BY <2>2, <2>3, <2>4, <2>5, <2>6 DEF Retried
  <2>8. Remembers(t, d) /\ Entries(t, d)
    BY <2>2, <2>3, <2>7 DEF Before, Remembers, Entries
  <2>9. Before(t, d) /\ Follows(c, d) /\ d.entered = c.entered
    BY <1>1, <2>2, <2>3, <2>7, <2>8 DEF Before, Fixed, Proposal, Replaced, Follows
  <2> QED BY <2>9 DEF d
<1> QED BY <1>2, <1>3, <1>4

LEMMA TerminalBefore ==
  ASSUME NEW t, NEW c, Before(t, c), c.run = t.run
  PROVE  LET d == HandleFlowTerminalStateTransitions(c)
         IN /\ Before(t, d) /\ Follows(c, d)
            /\ /\ d.status = "ACCEPT" /\ t.intended = "COMPLETED"
               /\ t.initial.type = "COMPLETED" /\ t.initial.persisted
               => t.proposed.persisted
<1> DEFINE d == HandleFlowTerminalStateTransitions(c)
           s == [c EXCEPT !.saved = c.run.policy]
           n == NewAttempt(s)
           g == Governs(c, TerminalTypes, AllTypes)
           lost == LeavesResult(c) \/ DiscardsResult(c)
<1>1. c \in Context /\ c.initial = t.initial /\ c.intended = t.intended /\ t.intended \in AllTypes
  BY DEF Before, Fixed, Context, AllTypes
<1>2. c.status = "ACCEPT" =>
        /\ g <=> t.initial.type \in TerminalTypes /\ t.intended \in AllTypes
        /\ c.proposed.persisted = t.proposed.persisted /\ c.proposed.type = t.intended
  BY GovernsAccepted DEF Original
<1>3. CASE ~g
  <2>1. d = c
    BY <1>3 DEF HandleFlowTerminalStateTransitions
  <2> QED BY <1>1, <1>2, <1>3, <2>1 DEF Follows, TerminalTypes
<1>4. CASE g
  <2>1. c.proposed.type = c.intended
    BY <1>4 DEF Governs
  <2>2. Terminal(t.initial)
    BY <1>1, <1>4 DEF Governs, Terminal
  <2>3. /\ s \in Context
        /\ s.initial = c.initial /\ s.intended = c.intended /\ s.run = c.run
        /\ s.saved = t.run.policy /\ s.entered = c.entered /\ s.status = c.status
        /\ s.proposed = c.proposed
    BY <1>1 DEF Context, FlowRun
  <2> HIDE DEF s
  <2>4. Before(t, s)
    BY <2>3 DEF Before, Fixed, Proposal, Original, Replaced, Retried, Remembers, Anew, Entries
  <2>5. /\ n \in Context
        /\ n.initial = s.initial /\ n.intended = s.intended /\ n.saved = s.saved
        /\ n.entered = s.entered /\ n.status = s.status /\ n.proposed = s.proposed
        /\ n.run.count = s.run.count /\ n.run.ended = s.run.ended
        /\ n.run.policy.resuming => s.run.policy.resuming
        /\ Terminal(s.proposed) => n.run = s.run
    <3>1. NewAttempt(s) \in Context
      BY <2>3, PolicyType DEF NewAttempt, EmpiricalPolicy, RetryTypes
    <3> QED BY <2>3, <3>1 DEF NewAttempt, Context, FlowRun
  <2>6. \E e \in {Abort(s), Reject(s, NoState), n} :
          d = Enter("Terminal", e) /\ (e = n => ~lost)
    <3>1. d = Enter("Terminal",
                IF c.proposed.type \in {"CANCELLING", "PAUSED", "CRASHED"} THEN Abort(s)
                ELSE IF lost THEN Reject(s, NoState)
                ELSE IF c.proposed.type = "SCHEDULED" /\ ~c.deployed THEN Abort(s)
                ELSE NewAttempt(s))
      BY <1>4 DEF HandleFlowTerminalStateTransitions, s
    <3>2. Abort(s).proposed = NoState /\ Reject(s, NoState).proposed = NoState
      BY <2>3 DEF Abort, Reject, Context
    <3>3. NoState # n.proposed
      BY <1>1, <2>1, <2>3, <2>5, NoStateType DEF Context, StateTypes
    <3> HIDE DEF d, n, lost
    <3>4. n = NewAttempt(s)
      BY DEF n
    <3> QED BY <3>1, <3>2, <3>3, <3>4
  <2>7. PICK e \in {Abort(s), Reject(s, NoState), n} :
          d = Enter("Terminal", e) /\ (e = n => ~lost)
    BY <2>6
  <2> HIDE DEF d, n
  <2>8. /\ e \in Context /\ e.initial = c.initial /\ e.intended = c.intended
        /\ e.run.count = c.run.count /\ e.run.ended = c.run.ended /\ e.saved = t.run.policy
        /\ e.entered = c.entered
        /\ e.run.policy.resuming => t.run.policy.resuming
        /\ \/ e.run = t.run
           \/ t.intended \notin TerminalTypes /\ e.proposed.type = t.intended
        /\ \/ e = n /\ e.proposed = c.proposed /\ e.status = c.status
           \/ e.proposed = NoState /\ e.status # "ACCEPT"
    <3>1. CASE e = n
      BY <1>1, <2>1, <2>3, <2>5, <3>1 DEF Terminal
    <3>2. CASE e \in {Abort(s), Reject(s, NoState)}
      <4>1. /\ e.initial = s.initial /\ e.intended = s.intended /\ e.run = s.run
            /\ e.saved = s.saved /\ e.entered = s.entered /\ e.proposed = NoState
            /\ e.status # "ACCEPT"
        BY <2>3, <3>2 DEF Abort, Reject, Context
      <4>2. Abort(s) \in Context /\ Reject(s, NoState) \in Context
        BY <2>3, NoStateType, RejectType, AbortType
      <4> QED BY <2>3, <3>2, <4>1, <4>2
    <3> QED BY <2>7, <3>1, <3>2
  <2>9. /\ d \in Context
        /\ d.initial = e.initial /\ d.intended = e.intended /\ d.run = e.run /\ d.saved = e.saved
        /\ d.proposed = e.proposed /\ d.status = e.status
        /\ d.entered["Terminal"] = e.proposed.type
        /\ d.entered["Resuming"] = e.entered["Resuming"]
    <3>1. d \in Context
      BY <2>7, <2>8, EnterType DEF HookRules
    <3> QED BY <2>7, <2>8, <3>1 DEF Enter, Context, HookRules
  <2>10. Proposal(t, d) /\ Follows(c, d)
    <3>0. ~Retried(t, c)
      BY <2>2 DEF Retried, Terminal, TerminalTypes
    <3>1. CASE e.proposed = c.proposed /\ e.status = c.status
      <4>1. d.proposed = c.proposed /\ d.status = c.status
        BY <2>9, <3>1
      <4> QED BY <3>0, <4>1 DEF Before, Proposal, Original, Replaced, Follows
    <3>2. CASE e.proposed = NoState /\ e.status # "ACCEPT"
      BY <2>9, <3>2, NoStateType DEF Proposal, Replaced, Substitute, Follows
    <3> QED BY <2>8, <3>1, <3>2
  <2>11. Remembers(t, d) /\ Entries(t, d)
    BY <2>2, <2>8, <2>9 DEF Before, Remembers, Anew, Entries
  <2>12. d.status = "ACCEPT" => ~lost
    BY <2>7, <2>8, <2>9
  <2>13. Before(t, d) /\ Follows(c, d)
    BY <1>1, <2>8, <2>9, <2>10, <2>11 DEF Before, Fixed
  <2>14. /\ d.status = "ACCEPT" /\ t.intended = "COMPLETED"
         /\ t.initial.type = "COMPLETED" /\ t.initial.persisted
         => t.proposed.persisted
    BY <1>1, <1>2, <2>12, <2>13 DEF Follows, DiscardsResult
  <2> QED BY <2>13, <2>14 DEF d
<1> QED BY <1>3, <1>4

---------------------------------------------------------------------------
(* All before hooks of CoreFlowPolicy.                                     *)

\* A transition as its handler builds it.
Begun(t) ==
  /\ t \in Context
  /\ t.status = "ACCEPT" /\ t.proposed.type = t.intended
  /\ t.saved = t.run.policy
  /\ t.entered["Terminal"] = "INVALID" /\ t.entered["Resuming"] = "INVALID"

LEMMA BegunBefore ==
  ASSUME NEW t, Begun(t)
  PROVE  Before(t, t) /\ Follows(t, t)
BY DEF Begun, Before, Fixed, Proposal, Original, Remembers, Entries, Follows

\* What is known of a proposal that all rules have let through.
Admitted(t, d) ==
  /\ /\ t.intended = "COMPLETED" /\ t.initial.type = "COMPLETED" /\ t.initial.persisted
     => t.proposed.persisted
  /\ t.initial.type = "CANCELLING" => t.intended = "CANCELLED"
  /\ t.intended = "PENDING" =>
       /\ t.initial.type \notin {"CANCELLING", "RUNNING", "CANCELLED", "PAUSED"}
       /\ t.initial.type = "PENDING" =>
            t.proposed.name # "default" /\ d.proposed.sched = t.initial.sched
       /\ t.initial.type = "SCHEDULED" /\ t.proposed.sched = "none" =>
            d.proposed.sched = t.initial.sched
  /\ t.intended = "SCHEDULED" /\ t.proposed.name = "Late" =>
       t.initial.type \in {"SCHEDULED", "NONE"}
  /\ t.intended = "PAUSED" => t.initial.type = "RUNNING" /\ d.entered["Pausing"] = "PAUSED"
  /\ t.intended = "RUNNING" /\ t.initial.type \in {"SCHEDULED", "PENDING"} =>
       t.initial.sched # "future"

LEMMA CoreBeforeOutcome ==
  ASSUME NEW t, Begun(t)
  PROVE  LET d == CoreBefore(t)
         IN Before(t, d) /\ (d.status = "ACCEPT" => Admitted(t, d))
<1> DEFINE i == t.initial.type
           to == t.intended
           a1 == PreserveDeploymentConcurrencyLeaseId(t)
           a2 == PreventDuplicateTransitions(a1)
           a3 == HandleFlowTerminalStateTransitions(a2)
           a4 == EnforceCancellingToCancelledTransition(a3)
           a5 == BypassCancellingFlowRunsWithNoInfra(a4)
           a6 == PreventPendingTransitions(a5)
           b1 == ValidateDeploymentConcurrencyAtRunning(a6)
           b2 == SecureFlowConcurrencySlots(b1)
           b3 == RemoveDeploymentConcurrencyLeaseForOldClientVersions(b2)
           b4 == EnsureOnlyScheduledFlowsMarkedLate(b3)
           b5 == HandlePausingFlows(b4)
           b6 == HandleResumingPausedFlows(b5)
           b7 == CopyScheduledTime(b6)
           b8 == WaitForScheduledTime(b7)
           b9 == RetryFailedFlows(b8)
           Kept == to = "COMPLETED" /\ i = "COMPLETED" /\ t.initial.persisted
                     => t.proposed.persisted
           Advances == to = "PENDING" =>
                         /\ i \notin {"CANCELLING", "RUNNING", "CANCELLED"}
                         /\ i = "PENDING" => t.proposed.name # "default"
           Timed(d) == /\ to = "PENDING" /\ i = "PENDING" => d.proposed.sched = t.initial.sched
                       /\ i # "PENDING" => d.proposed.sched = t.proposed.sched
<1>1. CoreBefore(t) = b9
  BY DEF CoreBefore, CoreBeforeTiming, CoreBeforeConcurrency
<1>2. Before(t, a1) /\ Follows(t, a1) /\ a1.run = t.run
  BY BegunBefore, PreserveBefore
<1> HIDE DEF a1
<1>3. Before(t, a2) /\ Follows(a1, a2) /\ a2.run = t.run
  BY <1>2, DuplicateBefore
<1> HIDE DEF a2
<1>4. Before(t, a3) /\ Follows(a2, a3) /\ (a3.status = "ACCEPT" => Kept)
  BY <1>3, TerminalBefore
<1> HIDE DEF a3
<1>5. /\ Before(t, a4) /\ Follows(a3, a4)
      /\ a4.status = "ACCEPT" => (i = "CANCELLING" => to = "CANCELLED")
  BY <1>4, EnforceBefore
<1> HIDE DEF a4
<1>6. Before(t, a5) /\ Follows(a4, a5)
  BY <1>5, BypassBefore
<1> HIDE DEF a5
<1>7. a5.status = "ACCEPT" => /\ a4.status = "ACCEPT" /\ a3.status = "ACCEPT"
                              /\ a5.proposed.sched = t.proposed.sched
  BY <1>2, <1>3, <1>4, <1>5, <1>6 DEF Follows
<1>8. /\ Before(t, a6)
      /\ a6.status = "ACCEPT" => a5.status = "ACCEPT" /\ Advances /\ Timed(a6)
  BY <1>6, <1>7, PendingBefore DEF Follows
<1> HIDE DEF a6
<1>9. Before(t, b1) /\ Follows(a6, b1)
  BY <1>8, ValidateBefore
<1> HIDE DEF b1
<1>10. Before(t, b2) /\ Follows(b1, b2)
  BY <1>9, SecureBefore
<1> HIDE DEF b2
<1>11. Before(t, b3) /\ Follows(b2, b3)
  BY <1>10, RemoveLeaseBefore
<1> HIDE DEF b3
<1>12. /\ Before(t, b4) /\ Follows(b3, b4)
       /\ b4.status = "ACCEPT" =>
            (to = "SCHEDULED" /\ t.proposed.name = "Late" => i \in {"SCHEDULED", "NONE"})
  BY <1>11, LateBefore
<1> HIDE DEF b4
<1>13. /\ Before(t, b5) /\ Follows(b4, b5)
       /\ b5.status = "ACCEPT" =>
            (to = "PAUSED" => i = "RUNNING" /\ b5.entered["Pausing"] = "PAUSED")
  BY <1>12, PausingBefore
<1> HIDE DEF b5
<1>14. /\ Before(t, b6) /\ Follows(b5, b6) /\ b6.entered["Pausing"] = b5.entered["Pausing"]
       /\ b6.status = "ACCEPT" => (i = "PAUSED" => to \notin {"PENDING", "PAUSED"})
  BY <1>13, ResumingBefore
<1> HIDE DEF b6
<1>15. b6.status = "ACCEPT" =>
         /\ b5.status = "ACCEPT" /\ b4.status = "ACCEPT" /\ a6.status = "ACCEPT"
         /\ Timed(b6)
  BY <1>8, <1>9, <1>10, <1>11, <1>12, <1>13, <1>14 DEF Follows
<1>16. /\ Before(t, b7) /\ b7.entered = b6.entered /\ b7.status = b6.status
       /\ b7.status = "ACCEPT" =>
            IF i = "SCHEDULED" /\ to = "PENDING" /\ b6.proposed.sched = "none"
            THEN b7.proposed.sched = t.initial.sched
            ELSE b7.proposed.sched = b6.proposed.sched
  BY <1>14, CopyBefore
<1> HIDE DEF b7
<1>17. /\ Before(t, b8) /\ Follows(b7, b8) /\ b8.entered = b7.entered
       /\ b8.status = "ACCEPT" =>
            (to = "RUNNING" /\ i \in {"SCHEDULED", "PENDING"} => t.initial.sched # "future")
  BY <1>16, WaitBefore
<1> HIDE DEF b8
<1>18. Before(t, b9) /\ Follows(b8, b9) /\ b9.entered = b8.entered
  BY <1>17, RetryBefore
<1> HIDE DEF b9
<1>19. ASSUME b9.status = "ACCEPT" PROVE Admitted(t, b9)
  <2>1. /\ b8.status = "ACCEPT" /\ b7.status = "ACCEPT" /\ b6.status = "ACCEPT"
        /\ b9.proposed.sched = b7.proposed.sched
        /\ b9.entered["Pausing"] = b5.entered["Pausing"]
    BY <1>14, <1>16, <1>17, <1>18, <1>19 DEF Follows
  <2>2. /\ b5.status = "ACCEPT" /\ b4.status = "ACCEPT" /\ a6.status = "ACCEPT"
        /\ a4.status = "ACCEPT" /\ a3.status = "ACCEPT" /\ Timed(b6)
    BY <1>7, <1>8, <1>15, <2>1
  <2>3. Kept /\ Advances /\ (i = "CANCELLING" => to = "CANCELLED")
    BY <1>4, <1>5, <1>8, <2>2
  <2>4. /\ to = "PENDING" /\ i = "PENDING" => b9.proposed.sched = t.initial.sched
        /\ to = "PENDING" /\ i = "SCHEDULED" /\ t.proposed.sched = "none" =>
             b9.proposed.sched = t.initial.sched
    BY <1>16, <2>1, <2>2
  <2>5. /\ i = "PAUSED" => to \notin {"PENDING", "PAUSED"}
        /\ to = "PAUSED" => i = "RUNNING" /\ b9.entered["Pausing"] = "PAUSED"
        /\ to = "SCHEDULED" /\ t.proposed.name = "Late" => i \in {"SCHEDULED", "NONE"}
        /\ to = "RUNNING" /\ i \in {"SCHEDULED", "PENDING"} => t.initial.sched # "future"
    BY <1>12, <1>13, <1>14, <1>17, <2>1, <2>2
  <2> QED BY <2>3, <2>4, <2>5 DEF Admitted
<1> QED BY <1>1, <1>18, <1>19

---------------------------------------------------------------------------
(* The transforms and the after hooks, and the outcome of the policies.    *)

\* What the transforms and the after hooks leave alone.
Settled(c, d) ==
  /\ d.initial = c.initial /\ d.intended = c.intended /\ d.saved = c.saved
  /\ d.entered = c.entered /\ d.status = c.status /\ d.proposed = c.proposed

LEMMA GlobalOutcome ==
  ASSUME NEW c \in Context
  PROVE  LET d == GlobalFlowPolicy(c)
         IN /\ d \in Context /\ Settled(c, d)
            /\ d.run.ended = IF c.proposed.type = "NONE" THEN c.run.ended
                             ELSE IF Terminal(c.proposed) THEN TRUE
                             ELSE IF Terminal(c.initial) THEN FALSE
                             ELSE c.run.ended
            /\ d.run.count = IF c.proposed.type = "RUNNING" /\ ~c.run.policy.resuming
                             THEN c.run.count + 1 ELSE c.run.count
            /\ d.run.policy.resuming => c.run.policy.resuming
            /\ d.run.policy.pauseKeys = c.run.policy.pauseKeys
<1> DEFINE d == GlobalFlowPolicy(c)
           g1 == SetStartTime(c)
           g2 == SetEndTime(g1)
           g3 == IncrementFlowRunCount(g2)
           g4 == RemoveResumingIndicator(g3)
<1>0. d \in Context
  BY GlobalType
<1>1. CASE c.proposed.type = "NONE"
  BY <1>0, <1>1 DEF GlobalFlowPolicy, Settled
<1>2. CASE c.proposed.type # "NONE"
  <2>1. d = g4
    BY <1>2 DEF GlobalFlowPolicy
  <2>2. /\ g1 \in Context /\ Settled(c, g1)
        /\ g1.run.ended = c.run.ended /\ g1.run.count = c.run.count
        /\ g1.run.policy = c.run.policy
    BY GlobalRulesType DEF SetStartTime, Settled, Context, FlowRun
  <2> HIDE DEF g1
  <2>3. /\ g2 \in Context /\ Settled(g1, g2)
        /\ g2.run.ended = IF Terminal(g1.proposed) THEN TRUE
                          ELSE IF Terminal(g1.initial) THEN FALSE ELSE g1.run.ended
        /\ g2.run.count = g1.run.count /\ g2.run.policy = g1.run.policy
    <3>0. g2 \in Context
      BY <2>2, GlobalRulesType
    <3>1. CASE Terminal(g1.proposed)
      BY <2>2, <3>0, <3>1 DEF SetEndTime, Settled, Context, FlowRun
    <3>2. CASE ~Terminal(g1.proposed) /\ Terminal(g1.initial)
      BY <2>2, <3>0, <3>2 DEF SetEndTime, Settled, Context, FlowRun
    <3>3. CASE ~Terminal(g1.proposed) /\ ~Terminal(g1.initial)
      BY <2>2, <3>0, <3>3 DEF SetEndTime, Settled, Context, FlowRun
    <3> QED BY <3>1, <3>2, <3>3
  <2> HIDE DEF g2
  <2>4. /\ g3 \in Context /\ Settled(g2, g3)
        /\ g3.run.ended = g2.run.ended /\ g3.run.policy = g2.run.policy
        /\ g3.run.count = IF g2.proposed.type = "RUNNING" /\ ~g2.run.policy.resuming
                          THEN g2.run.count + 1 ELSE g2.run.count
    BY <2>3, GlobalRulesType DEF IncrementFlowRunCount, Settled, Context, FlowRun
  <2> HIDE DEF g3
  <2>5. /\ g4 \in Context /\ Settled(g3, g4)
        /\ g4.run.ended = g3.run.ended /\ g4.run.count = g3.run.count
        /\ g4.run.policy.resuming => g3.run.policy.resuming
        /\ g4.run.policy.pauseKeys = g3.run.policy.pauseKeys
    <3>1. g4 \in Context
      BY <2>4, GlobalRulesType
    <3>2. CASE g4 = g3
      BY <3>1, <3>2 DEF Settled
    <3> DEFINE k == [g3 EXCEPT !.run.policy.resuming = FALSE]
    <3>3. /\ Settled(g3, k) /\ k.run.ended = g3.run.ended /\ k.run.count = g3.run.count
          /\ ~k.run.policy.resuming /\ k.run.policy.pauseKeys = g3.run.policy.pauseKeys
      BY <2>4 DEF Settled, Context, FlowRun, EmpiricalPolicy
    <3>4. g4 = g3 \/ g4 = k
      BY DEF RemoveResumingIndicator
    <3> HIDE DEF g4, k
    <3> QED BY <3>1, <3>2, <3>3, <3>4
  <2> HIDE DEF g4
  <2> QED BY <1>2, <2>1, <2>2, <2>3, <2>4, <2>5 DEF Settled
<1> QED BY <1>1, <1>2

\* A blocking pause is not resumed but scheduled again.
Rescheduled(t, d) ==
  /\ t.initial.type = "PAUSED" /\ ~t.initial.reschedule
  /\ d.proposed.type = "SCHEDULED"

\* The context d while the stack of the transition t unwinds.
Unwinding(t, d) ==
  /\ d \in Context
  /\ d.initial = t.initial /\ d.intended = t.intended
  /\ d.saved = t.run.policy
  /\ Proposal(t, d) /\ Entries(t, d)
  /\ d.run.policy.resuming => t.run.policy.resuming \/ t.initial.type = "PAUSED"
  /\ \/ t.run.policy.pauseKeys \subseteq d.run.policy.pauseKeys
     \/ Retried(t, d) \/ Anew(t, d) \/ Rescheduled(t, d)

\* An after hook that keeps the counters of the run.
Unwinds(c, d) ==
  Settled(c, d) /\ d.run.count = c.run.count /\ d.run.ended = c.run.ended

LEMMA UnwindsKeeps ==
  ASSUME NEW t, NEW c, Unwinding(t, c), NEW d \in Context, Unwinds(c, d),
         d.run.policy.resuming => c.run.policy.resuming,
         c.run.policy.pauseKeys \subseteq d.run.policy.pauseKeys
  PROVE  Unwinding(t, d)
<1>1. Proposal(t, d) /\ (Retried(t, c) => Retried(t, d))
  BY DEF Unwinding, Unwinds, Settled, Proposal, Original, Replaced, Retried
<1> QED BY <1>1 DEF Unwinding, Unwinds, Settled, Entries, Anew, Rescheduled

LEMMA ReleaseUnwinds ==
  ASSUME NEW c \in Context, NEW l
  PROVE  /\ Unwinds(c, Revoke(c, l)) /\ Revoke(c, l).run = c.run
         /\ Unwinds(c, ReleaseLease(c, l)) /\ ReleaseLease(c, l).run = c.run
BY DEF ReleaseLease, Revoke, Unwinds, Settled, Context

LEMMA AfterUnwinding ==
  ASSUME NEW t, NEW c, Unwinding(t, c)
  PROVE  /\ Unwinding(t, ReleaseFlowConcurrencySlots(c))
         /\ Unwinding(t, AfterResuming(c))
         /\ Unwinding(t, AfterPausing(c))
         /\ Unwinding(t, AfterRemoveLease(c))
         /\ Unwinding(t, CleanupSecure(c))
         /\ Unwinds(c, ReleaseFlowConcurrencySlots(c))
         /\ Unwinds(c, AfterResuming(c))
         /\ Unwinds(c, AfterPausing(c))
         /\ Unwinds(c, AfterRemoveLease(c))
         /\ Unwinds(c, CleanupSecure(c))
<1>0. c \in Context /\ c.initial = t.initial
  BY DEF Unwinding
<1>1. /\ ReleaseFlowConcurrencySlots(c) \in Context /\ AfterResuming(c) \in Context
      /\ AfterPausing(c) \in Context /\ AfterRemoveLease(c) \in Context
      /\ CleanupSecure(c) \in Context /\ Unwinds(c, c)
  BY <1>0, AfterType DEF Unwinds, Settled
<1>2. /\ Unwinds(c, ReleaseFlowConcurrencySlots(c)) /\ ReleaseFlowConcurrencySlots(c).run = c.run
      /\ Unwinds(c, AfterRemoveLease(c)) /\ AfterRemoveLease(c).run = c.run
      /\ Unwinds(c, CleanupSecure(c)) /\ CleanupSecure(c).run = c.run
  BY <1>0, <1>1, ReleaseUnwinds DEF ReleaseFlowConcurrencySlots, AfterRemoveLease, CleanupSecure
<1>3. /\ Unwinding(t, ReleaseFlowConcurrencySlots(c)) /\ Unwinding(t, AfterRemoveLease(c))
      /\ Unwinding(t, CleanupSecure(c))
  BY <1>1, <1>2, UnwindsKeeps
<1>4. Unwinds(c, AfterPausing(c)) /\ Unwinding(t, AfterPausing(c))
  <2> DEFINE d == AfterPausing(c)
  <2>1. /\ Unwinds(c, d) /\ d.run.policy.resuming = c.run.policy.resuming
        /\ c.run.policy.pauseKeys \subseteq d.run.policy.pauseKeys
    BY <1>0 DEF AfterPausing, Unwinds, Settled, Context, FlowRun, EmpiricalPolicy
  <2>2. d \in Context
    BY <1>1
  <2> HIDE DEF d
  <2>3. Unwinds(c, d) /\ Unwinding(t, d)
    BY <2>1, <2>2, UnwindsKeeps
  <2> QED BY <2>3 DEF d
<1>5. Unwinds(c, AfterResuming(c)) /\ Unwinding(t, AfterResuming(c))
  <2> DEFINE d == AfterResuming(c)
             g == Survives(c, "Resuming", AllTypes)
             z == [resuming |-> FALSE, pauseKeys |-> {}, retryType |-> "reschedule"]
             v == [c EXCEPT !.run.policy = z]
             w == [c EXCEPT !.run.policy.resuming = TRUE]
             again == ~c.initial.reschedule /\ Validated(c).type = "SCHEDULED"
  <2>0. d \in Context
    BY <1>1
  <2>1. CASE ~g
    <3>1. d = c
      BY <2>1 DEF AfterResuming
    <3> QED BY <1>1, <3>1
  <2>2. CASE g
    <3>1. t.initial.type = "PAUSED"
      <4>1. c.entered["Resuming"] # "INVALID"
        BY <2>2 DEF Survives, AllTypes, StateTypes
      <4> QED BY <4>1 DEF Unwinding, Entries
    <3>2. /\ Unwinds(c, w) /\ w.run.policy.pauseKeys = c.run.policy.pauseKeys
          /\ Unwinds(c, v)
      BY <1>0 DEF Unwinds, Settled, Context, FlowRun, EmpiricalPolicy
    <3>3. d = IF again THEN v ELSE w
      BY <2>2 DEF AfterResuming
    <3>4. ~Retried(t, c) /\ ~Retried(t, d)
      BY <3>1 DEF Retried
    <3>5. again => Rescheduled(t, d)
      BY <1>0, <3>1, <3>2, <3>3 DEF Validated, Rescheduled, Unwinds, Settled
    <3> HIDE DEF d, v, w, again
    <3>6. Unwinds(c, d) /\ (~again => d.run.policy.pauseKeys = c.run.policy.pauseKeys)
      BY <3>2, <3>3
    <3>7. Proposal(t, d)
      BY <3>4, <3>6 DEF Unwinding, Unwinds, Settled, Proposal, Original, Replaced
    <3>8. Unwinding(t, d)
      BY <2>0, <3>1, <3>3, <3>4, <3>5, <3>6, <3>7
         DEF Unwinding, Unwinds, Settled, Entries, Anew, Rescheduled
    <3> QED BY <3>6, <3>8 DEF d
  <2> QED BY <2>1, <2>2
<1> QED BY <1>2, <1>3, <1>4, <1>5

\* A new attempt starts when the run leaves a terminal state for another.
Restarted(t, c) ==
  /\ Terminal(t.initial)
  /\ c.proposed.type # "NONE" /\ ~Terminal(c.proposed)

\* What every policy makes of a transition.
Outcome(t, c) ==
  /\ c \in Context /\ c.initial = t.initial
  /\ Proposal(t, c)
  /\ c.run.ended = IF c.proposed.type = "NONE" THEN t.run.ended
                   ELSE IF Terminal(c.proposed) THEN TRUE
                   ELSE IF Terminal(t.initial) THEN FALSE
                   ELSE t.run.ended
  /\ c.run.count >= t.run.count
  /\ c.proposed.type = "RUNNING" => c.run.count > t.run.count \/ t.run.policy.resuming
  /\ c.run.policy.resuming => t.run.policy.resuming \/ t.initial.type = "PAUSED"
  /\ \/ t.run.policy.pauseKeys \subseteq c.run.policy.pauseKeys
     \/ Retried(t, c) \/ Restarted(t, c) \/ Rescheduled(t, c)

\* The transforms start to unwind what the before hooks leave.
LEMMA GlobalUnwinding ==
  ASSUME NEW t, NEW b, Before(t, b)
  PROVE  LET g == GlobalFlowPolicy(b)
         IN /\ Unwinding(t, g) /\ Settled(b, g)
            /\ g.run.ended = IF g.proposed.type = "NONE" THEN t.run.ended
                             ELSE IF Terminal(g.proposed) THEN TRUE
                             ELSE IF Terminal(t.initial) THEN FALSE
                             ELSE t.run.ended
            /\ g.run.count \in Nat /\ t.run.count \in Nat /\ g.run.count >= t.run.count
            /\ g.proposed.type = "RUNNING" => g.run.count > t.run.count \/ t.run.policy.resuming
<1> DEFINE g == GlobalFlowPolicy(b)
<1>1. b \in Context /\ b.run.count = t.run.count /\ b.run.ended = t.run.ended
      /\ b.initial = t.initial
  BY DEF Before, Fixed
<1>2. /\ g \in Context /\ Settled(b, g)
      /\ g.run.ended = IF b.proposed.type = "NONE" THEN b.run.ended
                       ELSE IF Terminal(b.proposed) THEN TRUE
                       ELSE IF Terminal(b.initial) THEN FALSE
                       ELSE b.run.ended
      /\ g.run.count = IF b.proposed.type = "RUNNING" /\ ~b.run.policy.resuming
                       THEN b.run.count + 1 ELSE b.run.count
      /\ g.run.policy.resuming => b.run.policy.resuming
      /\ g.run.policy.pauseKeys = b.run.policy.pauseKeys
  BY <1>1, GlobalOutcome
<1> HIDE DEF g
<1>3. /\ g.initial = b.initial /\ g.intended = b.intended /\ g.saved = b.saved
      /\ g.entered = b.entered /\ g.status = b.status /\ g.proposed = b.proposed
  BY <1>2 DEF Settled
<1>4. Proposal(t, g) /\ (Retried(t, b) => Retried(t, g)) /\ (Anew(t, b) => Anew(t, g))
  BY <1>2, <1>3 DEF Before, Proposal, Original, Replaced, Retried, Anew
<1>5. Unwinding(t, g)
  BY <1>2, <1>3, <1>4 DEF Before, Fixed, Remembers, Entries, Unwinding
<1>6. b.run.count \in Nat
  BY <1>1 DEF Context, FlowRun
<1>7. b.run.policy.resuming => t.run.policy.resuming
  BY DEF Before, Remembers
<1>8. /\ g.run.count \in Nat /\ t.run.count \in Nat /\ g.run.count >= t.run.count
      /\ g.proposed.type = "RUNNING" => g.run.count > t.run.count \/ t.run.policy.resuming
  BY <1>1, <1>2, <1>3, <1>6, <1>7
<1>9. g.run.ended = IF g.proposed.type = "NONE" THEN t.run.ended
                    ELSE IF Terminal(g.proposed) THEN TRUE
                    ELSE IF Terminal(t.initial) THEN FALSE
                    ELSE t.run.ended
  BY <1>1, <1>2, <1>3
<1> QED BY <1>2, <1>5, <1>8, <1>9 DEF g

LEMMA CoreAfterOutcome ==
  ASSUME NEW t, Begun(t), NEW g, Unwinding(t, g)
  PROVE  LET c == CoreAfter(g)
         IN /\ c \in Context /\ Unwinds(g, c) /\ Proposal(t, c)
            /\ c.run.policy.resuming => t.run.policy.resuming \/ t.initial.type = "PAUSED"
            /\ \/ t.run.policy.pauseKeys \subseteq c.run.policy.pauseKeys
               \/ Retried(t, c) \/ Restarted(t, c) \/ Rescheduled(t, c)
            /\ /\ g.proposed.type = "PAUSED" /\ g.entered["Pausing"] = "PAUSED"
               /\ ~Terminal(t.initial)
               => {g.proposed.key} \cap Keys \subseteq c.run.policy.pauseKeys
<1> DEFINE a1 == ReleaseFlowConcurrencySlots(g)
           a2 == AfterResuming(a1)
           a3 == AfterPausing(a2)
           a4 == AfterRemoveLease(a3)
           a5 == CleanupSecure(a4)
           a6 == CleanupTerminal(a5)
           keyed == g.proposed.type = "PAUSED" /\ g.entered["Pausing"] = "PAUSED"
<1>1. CoreAfter(g) = a6
  BY DEF CoreAfter
<1>2. Unwinding(t, a1) /\ Unwinds(g, a1)
  BY AfterUnwinding
<1> HIDE DEF a1
<1>3. Unwinding(t, a2) /\ Unwinds(g, a2)
  BY <1>2, AfterUnwinding DEF Unwinds, Settled
<1> HIDE DEF a2
<1>4. /\ Unwinding(t, a3) /\ Unwinds(g, a3)
      /\ keyed => {g.proposed.key} \cap Keys \subseteq a3.run.policy.pauseKeys
  <2>1. Unwinding(t, a3) /\ Unwinds(a2, a3)
    BY <1>3, AfterUnwinding
  <2>2. keyed => {a2.proposed.key} \cap Keys \subseteq a3.run.policy.pauseKeys
    BY <1>3 DEF AfterPausing, Survives, Unwinding, Unwinds, Settled, Context, FlowRun,
                EmpiricalPolicy
  <2> QED BY <1>3, <2>1, <2>2 DEF Unwinds, Settled
<1> HIDE DEF a3
<1>5. Unwinding(t, a4) /\ Unwinds(g, a4) /\ a4.run = a3.run
  <2>1. a4.run = a3.run
    BY <1>4, ReleaseUnwinds DEF AfterRemoveLease, Unwinding
  <2> QED BY <1>4, <2>1, AfterUnwinding DEF Unwinds, Settled
<1> HIDE DEF a4
<1>6. Unwinding(t, a5) /\ Unwinds(g, a5) /\ a5.run = a3.run
  <2>1. a5.run = a4.run
    BY <1>5, ReleaseUnwinds DEF CleanupSecure, Unwinding
  <2> QED BY <1>5, <2>1, AfterUnwinding DEF Unwinds, Settled
<1> HIDE DEF a5
<1>7. /\ a6 \in Context /\ Unwinds(a5, a6)
      /\ \/ a6 = a5 /\ ~Fizzles(a5, "Terminal", AllTypes)
         \/ a6.run.policy = t.run.policy /\ Terminal(t.initial)
  <2>1. a6 \in Context
    BY <1>6, AfterType DEF Unwinding
  <2>2. CASE ~Fizzles(a5, "Terminal", AllTypes)
    BY <2>1, <2>2 DEF CleanupTerminal, Unwinds, Settled
  <2>3. CASE Fizzles(a5, "Terminal", AllTypes)
    <3>1. Terminal(t.initial)
      <4>1. a5.entered["Terminal"] # "INVALID"
        BY <2>3 DEF Fizzles, AllTypes, StateTypes
      <4> QED BY <1>6, <4>1 DEF Unwinding, Entries
    <3>2. a6 = [a5 EXCEPT !.run.policy = a5.saved]
      BY <2>3 DEF CleanupTerminal
    <3>3. a5 \in Context /\ a5.saved = t.run.policy
      BY <1>6 DEF Unwinding
    <3> HIDE DEF a6
    <3> QED BY <2>1, <3>1, <3>2, <3>3 DEF Unwinds, Settled, Context, FlowRun
  <2> QED BY <2>2, <2>3
<1> HIDE DEF a6
<1>8. Unwinds(g, a6) /\ Unwinds(a5, a6)
  BY <1>6, <1>7 DEF Unwinds, Settled
<1>9. CASE a6 = a5 /\ ~Fizzles(a5, "Terminal", AllTypes)
  <2>1. Anew(t, a5) => Restarted(t, a5)
    BY <1>6, <1>9 DEF Anew, Restarted, Fizzles, Terminal, Begun, Context, AllTypes, StateTypes
  <2>2. /\ Proposal(t, a5)
        /\ a5.run.policy.resuming => t.run.policy.resuming \/ t.initial.type = "PAUSED"
        /\ \/ t.run.policy.pauseKeys \subseteq a5.run.policy.pauseKeys
           \/ Retried(t, a5) \/ Restarted(t, a5) \/ Rescheduled(t, a5)
    BY <1>6, <2>1 DEF Unwinding
  <2> QED BY <1>1, <1>4, <1>6, <1>7, <1>8, <1>9, <2>2
<1>10. CASE a6.run.policy = t.run.policy /\ Terminal(t.initial)
  <2>1. Proposal(t, a6)
    <3>1. ~Retried(t, a5)
      BY <1>10 DEF Retried, Terminal, TerminalTypes
    <3> QED BY <1>6, <1>8, <3>1 DEF Unwinding, Unwinds, Settled, Proposal, Original, Replaced
  <2> QED BY <1>1, <1>7, <1>8, <1>10, <2>1
<1> QED BY <1>7, <1>9, <1>10

LEMMA CoreOutcome ==
  ASSUME NEW t, Begun(t)
  PROVE  LET c == CoreFlowPolicy(t)
         IN /\ Outcome(t, c)
            /\ c.status = "ACCEPT" =>
                 /\ Original(t, c) /\ Admitted(t, c)
                 /\ t.intended = "PAUSED" =>
                      {t.proposed.key} \cap Keys \subseteq c.run.policy.pauseKeys
<1> DEFINE b == CoreBefore(t)
           g == GlobalFlowPolicy(b)
           c == CoreAfter(g)
<1>1. Before(t, b) /\ (b.status = "ACCEPT" => Admitted(t, b))
  BY CoreBeforeOutcome
<1>2. c = CoreFlowPolicy(t)
  BY DEF CoreFlowPolicy
<1> HIDE DEF b
<1>3. /\ Unwinding(t, g) /\ Settled(b, g)
      /\ g.run.ended = IF g.proposed.type = "NONE" THEN t.run.ended
                       ELSE IF Terminal(g.proposed) THEN TRUE
                       ELSE IF Terminal(t.initial) THEN FALSE
                       ELSE t.run.ended
      /\ g.run.count >= t.run.count
      /\ g.proposed.type = "RUNNING" => g.run.count > t.run.count \/ t.run.policy.resuming
  BY <1>1, GlobalUnwinding
<1> HIDE DEF g
<1>4. /\ c \in Context /\ Unwinds(g, c) /\ Proposal(t, c)
      /\ c.run.policy.resuming => t.run.policy.resuming \/ t.initial.type = "PAUSED"
      /\ \/ t.run.policy.pauseKeys \subseteq c.run.policy.pauseKeys
         \/ Retried(t, c) \/ Restarted(t, c) \/ Rescheduled(t, c)
      /\ /\ g.proposed.type = "PAUSED" /\ g.entered["Pausing"] = "PAUSED"
         /\ ~Terminal(t.initial)
         => {g.proposed.key} \cap Keys \subseteq c.run.policy.pauseKeys
  BY <1>3, CoreAfterOutcome
<1> HIDE DEF c
<1>5. /\ c.initial = t.initial /\ c.run.count = g.run.count /\ c.run.ended = g.run.ended
      /\ c.proposed = g.proposed /\ c.status = g.status /\ c.entered = g.entered
      /\ c.proposed = b.proposed /\ c.status = b.status /\ c.entered = b.entered
  BY <1>3, <1>4 DEF Unwinds, Settled, Unwinding
<1>6. Outcome(t, c)
  BY <1>3, <1>4, <1>5 DEF Outcome
<1>7. ASSUME c.status = "ACCEPT"
      PROVE  /\ Original(t, c) /\ Admitted(t, c)
             /\ t.intended = "PAUSED" =>
                  {t.proposed.key} \cap Keys \subseteq c.run.policy.pauseKeys
  <2>1. Original(t, c)
    BY <1>4, <1>7 DEF Proposal, Replaced
  <2>2. Admitted(t, c)
    BY <1>1, <1>5, <1>7 DEF Admitted
  <2>3. t.intended = "PAUSED" => {t.proposed.key} \cap Keys \subseteq c.run.policy.pauseKeys
    BY <1>4, <1>5, <2>1, <2>2 DEF Original, Admitted, Terminal, TerminalTypes
  <2> QED BY <2>1, <2>2, <2>3
<1> QED BY <1>2, <1>6, <1>7

\* A policy without after hooks of its own rules.
LEMMA PlainOutcome ==
  ASSUME NEW t, Begun(t), NEW b, Before(t, b), b.entered = t.entered,
         NEW c \in Context, Unwinds(GlobalFlowPolicy(b), c), c.run = GlobalFlowPolicy(b).run
  PROVE  Outcome(t, c) /\ c.proposed = b.proposed /\ c.status = b.status
<1> DEFINE g == GlobalFlowPolicy(b)
<1>1. /\ Unwinding(t, g) /\ Settled(b, g)
      /\ g.run.ended = IF g.proposed.type = "NONE" THEN t.run.ended
                       ELSE IF Terminal(g.proposed) THEN TRUE
                       ELSE IF Terminal(t.initial) THEN FALSE
                       ELSE t.run.ended
      /\ g.run.count >= t.run.count
      /\ g.proposed.type = "RUNNING" => g.run.count > t.run.count \/ t.run.policy.resuming
  BY GlobalUnwinding
<1>2. Unwinds(g, c) /\ c.run = g.run
  OBVIOUS
<1> HIDE DEF g
<1>3. Unwinding(t, c)
  BY <1>1, <1>2, UnwindsKeeps
<1>4. ~Anew(t, c)
  <2>1. c.entered["Terminal"] = "INVALID"
    BY <1>1, <1>2 DEF Unwinds, Settled, Begun
  <2>2. t.intended # "INVALID"
    BY DEF Begun, Context, StateTypes
  <2> QED BY <2>1, <2>2 DEF Anew
<1>5. c.proposed = b.proposed /\ c.proposed = g.proposed /\ c.status = b.status
  BY <1>1, <1>2 DEF Unwinds, Settled
<1>6. Outcome(t, c)
  BY <1>1, <1>2, <1>3, <1>4, <1>5 DEF Outcome, Unwinding
<1> QED BY <1>5, <1>6

LEMMA ResultLossBefore ==
  ASSUME NEW t, NEW c, Before(t, c)
  PROVE  LET d == PreventResultDataLoss(c)
         IN /\ Before(t, d) /\ Follows(c, d) /\ d.entered = c.entered
            /\ /\ d.status = "ACCEPT" /\ t.intended = "COMPLETED"
               /\ t.initial.type = "COMPLETED" /\ t.initial.persisted
               => t.proposed.persisted
<1> DEFINE d == PreventResultDataLoss(c)
<1>1. \/ d = c /\ ~(Governs(c, TerminalTypes, TerminalTypes) /\ DiscardsResult(c))
      \/ /\ Governs(c, TerminalTypes, TerminalTypes) /\ Substitute(t, NoState)
         /\ d = Reject(c, NoState)
  BY NoStateType DEF PreventResultDataLoss, Substitute
<1>2. c.initial = t.initial
  BY DEF Before, Fixed
<1>3. c.status = "ACCEPT" =>
        /\ Governs(c, TerminalTypes, TerminalTypes)
             <=> t.initial.type \in TerminalTypes /\ t.intended \in TerminalTypes
        /\ c.proposed.type = t.intended /\ c.proposed.persisted = t.proposed.persisted
  BY GovernsAccepted DEF Original
<1> HIDE DEF d
<1>4. /\ Before(t, d) /\ Follows(c, d) /\ d.entered = c.entered
      /\ d.status = "ACCEPT" =>
           d = c /\ ~(Governs(c, TerminalTypes, TerminalTypes) /\ d = Reject(c, NoState))
  BY <1>1, NoStateType, RejectingBefore
<1>5. /\ d.status = "ACCEPT" /\ t.intended = "COMPLETED"
      /\ t.initial.type = "COMPLETED" /\ t.initial.persisted
      => t.proposed.persisted
  BY <1>1, <1>2, <1>3, <1>4 DEF DiscardsResult, TerminalTypes
<1> QED BY <1>4, <1>5 DEF d

LEMMA MinimalOutcome ==
  ASSUME NEW t, Begun(t)
  PROVE  LET c == MinimalFlowPolicy(t)
         IN /\ Outcome(t, c)
            /\ c.status = "ACCEPT" =>
                 /\ Original(t, c)
                 /\ /\ t.intended = "COMPLETED" /\ t.initial.type = "COMPLETED"
                    /\ t.initial.persisted
                    => t.proposed.persisted
<1> DEFINE a1 == PreserveDeploymentConcurrencyLeaseId(t)
           a2 == PreventResultDataLoss(a1)
           a3 == BypassCancellingFlowRunsWithNoInfra(a2)
           g == GlobalFlowPolicy(a3)
           c == ReleaseFlowConcurrencySlots(g)
           Kept == /\ t.intended = "COMPLETED" /\ t.initial.type = "COMPLETED"
                   /\ t.initial.persisted
                   => t.proposed.persisted
<1>1. c = MinimalFlowPolicy(t)
  BY DEF MinimalFlowPolicy
<1>2. Before(t, a1) /\ a1.entered = t.entered
  BY BegunBefore, PreserveBefore
<1> HIDE DEF a1
<1>3. Before(t, a2) /\ a2.entered = t.entered /\ (a2.status = "ACCEPT" => Kept)
  BY <1>2, ResultLossBefore
<1> HIDE DEF a2
<1>4. Before(t, a3) /\ a3.entered = t.entered /\ (a3.status = "ACCEPT" => a2.status = "ACCEPT")
  BY <1>3, BypassBefore DEF Follows
<1> HIDE DEF a3
<1>5. g \in Context
  BY <1>4, GlobalType DEF Before
<1>6. c \in Context /\ Unwinds(g, c) /\ c.run = g.run
  BY <1>5, AfterType, ReleaseUnwinds DEF ReleaseFlowConcurrencySlots, Unwinds, Settled
<1> HIDE DEF c
<1>7. Outcome(t, c) /\ c.proposed = a3.proposed /\ c.status = a3.status
  BY <1>4, <1>6, PlainOutcome
<1>8. c.status = "ACCEPT" => Original(t, c) /\ Kept
  BY <1>3, <1>4, <1>7 DEF Outcome, Proposal, Replaced
<1> QED BY <1>1, <1>7, <1>8

LEMMA MarkLateOutcome ==
  ASSUME NEW t, Begun(t)
  PROVE  LET c == MarkLateRunsPolicy(t)
         IN /\ Outcome(t, c)
            /\ c.status = "ACCEPT" =>
                 /\ Original(t, c)
                 /\ t.intended = "SCHEDULED" /\ t.proposed.name = "Late" =>
                      t.initial.type \in {"SCHEDULED", "NONE"}
<1> DEFINE a1 == EnsureOnlyScheduledFlowsMarkedLate(t)
           a2 == EnforceDeploymentConcurrencyOnLate(a1)
           c == GlobalFlowPolicy(a2)
           s == NewState("CANCELLED")
           Timely == t.intended = "SCHEDULED" /\ t.proposed.name = "Late" =>
                       t.initial.type \in {"SCHEDULED", "NONE"}
<1>1. c = MarkLateRunsPolicy(t)
  BY DEF MarkLateRunsPolicy
<1>2. Before(t, a1) /\ a1.entered = t.entered /\ (a1.status = "ACCEPT" => Timely)
  BY BegunBefore, LateBefore
<1> HIDE DEF a1
<1>3. /\ Before(t, a2) /\ a2.entered = t.entered
      /\ a2.status = "ACCEPT" => a1.status = "ACCEPT"
  <2>1. s \in State /\ s.type = "CANCELLED" /\ s.name = "default"
    BY NewStateType DEF NewState, AllTypes, StateTypes
  <2>2. Governs(a1, {"SCHEDULED"}, {"SCHEDULED"}) => t.intended = "SCHEDULED"
    BY <1>2 DEF Governs, Before, Fixed
  <2>3. \/ a2 = a1
        \/ /\ Governs(a1, {"SCHEDULED"}, {"SCHEDULED"}) /\ Substitute(t, s)
           /\ a2 = Reject(a1, s)
    BY <2>1, <2>2 DEF EnforceDeploymentConcurrencyOnLate, Substitute
  <2> HIDE DEF a2, s
  <2> QED BY <1>2, <2>1, <2>3, RejectingBefore DEF Follows
<1> HIDE DEF a2
<1>4. c \in Context /\ Unwinds(c, c)
  BY <1>3, GlobalType DEF Before, Unwinds, Settled
<1>5. Outcome(t, c) /\ c.proposed = a2.proposed /\ c.status = a2.status
  BY <1>3, <1>4, PlainOutcome
<1>6. c.status = "ACCEPT" => Original(t, c) /\ Timely
  BY <1>2, <1>3, <1>5 DEF Outcome, Proposal, Replaced
<1> QED BY <1>1, <1>5, <1>6

---------------------------------------------------------------------------
(* What a step does to one run.                                            *)

\* A handler writes the outcome of its transition of r from s and d to p.
Writes(r, s, d, p, client, forced) ==
  LET t == Transition(r, s, d, p, client)
  IN /\ Free # {} /\ p.type \in StateTypes
     /\ \/ ~forced /\ Commit(r, d, CoreFlowPolicy(t), forced)
        \/ forced /\ Commit(r, d, MinimalFlowPolicy(t), forced)
        \/ /\ ~forced /\ p.type = "SCHEDULED" /\ p.name = "Late"
           /\ Commit(r, d, MarkLateRunsPolicy(t), forced)

\* The state and the columns a handler starts from: those of the run, or those
\* it read before it took the lock, when it is resumed or its pause is over.
FromCurrent(r, s, d) ==
  /\ s = st[r] /\ d = run[r]
  /\ Created(r) => Unheld(r)
  /\ reads'[r] \in {reads[r], NoRead}

FromRead(r, s, d, p, forced) ==
  /\ s = reads[r].state /\ d = reads[r].run
  /\ reads'[r] = NoRead
  /\ \/ reads[r].by = "resume" /\ ~forced /\ p.type \in {"SCHEDULED", "RUNNING"}
     \/ reads[r].by = "expire" /\ forced /\ p.type = "FAILED"
  /\ p.name # "Late"

\* Who proposes what.
Proposes(r, p, forced) ==
  /\ forced /\ p.type = "PAUSED" => p \in ForcedRequests
  /\ forced /\ p.type \in {"SCHEDULED", "PENDING", "RUNNING", "PAUSED"} /\ Created(r) =>
       p \in ForcedRequests /\ ForceFlowRunState(r, p)
  /\ ~forced => Created(r)
  /\ ~forced /\ p.type = "PENDING" => \E q \in Requests : p = q.state
  /\ p.name = "Late" =>
       \/ p \in CreateStates \cup ForcedRequests
       \/ ~forced /\ p.type = "SCHEDULED"
       \/ ~forced /\ \E q \in Requests : p = q.state

Transits(r, s, d, p, client, forced) ==
  /\ Writes(r, s, d, p, client, forced)
  /\ FromCurrent(r, s, d) \/ FromRead(r, s, d, p, forced)
  /\ Proposes(r, p, forced)

Untouched(r) ==
  /\ st'[r] = st[r] /\ run'[r] = run[r] /\ hist'[r] = hist[r] /\ reads'[r] = reads[r]

\* A handler reads the run without its lock.
Reading(r) ==
  /\ st'[r] = st[r] /\ run'[r] = run[r] /\ hist'[r] = hist[r]
  /\ Created(r) \/ st[r].timeout = "elapsed"
  /\ reads'[r].state = st[r] /\ reads'[r].run = run[r]
  /\ reads'[r].by = "resume" => st[r].type = "PAUSED"

StepOf(r) ==
  \/ Untouched(r)
  \/ Reading(r)
  \/ SetInfrastructurePid(r)
  \/ DeleteFlowRun(r)
  \/ ScheduledTimePasses(r)
  \/ PauseTimeoutElapses(r)
  \/ \E s \in State, d \in FlowRun, p \in State, client \in ClientVersions, forced \in BOOLEAN :
       Transits(r, s, d, p, client, forced)

LEMMA CommitElsewhere ==
  ASSUME TypeOK, NEW r \in Runs, NEW k \in Runs, k # r, NEW d, NEW c, NEW forced,
         Commit(r, d, c, forced)
  PROVE  st'[k] = st[k] /\ run'[k] = run[k] /\ hist'[k] = hist[k]
<1>1. run'[k] = run[k]
  BY DEF Commit, TypeOK
<1>2. CASE c.proposed.type = "NONE"
  BY <1>1, <1>2 DEF Commit
<1>3. CASE c.proposed.type # "NONE"
  BY <1>1, <1>3 DEF Commit, TypeOK
<1> QED BY <1>2, <1>3

LEMMA Elsewhere ==
  ASSUME TypeOK, NEW r \in Runs, NEW k \in Runs, k # r,
         ClientNext(r) \/ ServiceNext(r) \/ TimeNext(r)
  PROVE  Untouched(k)
<1> USE DEF Untouched
<1>0. ASSUME NEW q, NEW lost, SetFlowRunState(r, q, lost) PROVE Untouched(k)
  BY <1>0, CommitElsewhere DEF SetFlowRunState
<1>1. CASE ClientNext(r)
  <2>1. CASE \E p \in CreateStates : CreateFlowRun(r, p)
    BY <2>1, CommitElsewhere DEF CreateFlowRun
  <2>2. CASE \E q \in Requests, lost \in BOOLEAN : SetFlowRunState(r, q, lost)
    BY <1>0, <2>2
  <2>3. CASE ResendRequest(r)
    BY <1>0, <2>3 DEF ResendRequest
  <2>4. CASE \E p \in ForcedRequests : ForceFlowRunState(r, p)
    BY <2>4, CommitElsewhere DEF ForceFlowRunState
  <2>5. CASE SetInfrastructurePid(r)
    BY <2>5 DEF SetInfrastructurePid, TypeOK
  <2>6. CASE DeleteFlowRun(r)
    BY <2>6 DEF DeleteFlowRun, TypeOK
  <2>7. CASE ReadForResume(r)
    BY <2>7 DEF ReadForResume, Read, TypeOK
  <2>8. CASE ResumeFlowRun(r)
    <3>1. reads'[k] = reads[k]
      BY <2>8 DEF ResumeFlowRun, TypeOK
    <3> QED BY <2>8, <3>1, CommitElsewhere DEF ResumeFlowRun
  <2> QED BY <1>1, <2>1, <2>2, <2>3, <2>4, <2>5, <2>6, <2>7, <2>8 DEF ClientNext
<1>2. CASE ServiceNext(r)
  <2>1. CASE ReadExpiredPause(r) \/ ReadSubflow(r)
    BY <2>1 DEF ReadExpiredPause, ReadSubflow, Read, TypeOK
  <2>2. CASE FailExpiredPause(r)
    <3>1. reads'[k] = reads[k]
      BY <2>2 DEF FailExpiredPause, TypeOK
    <3> QED BY <2>2, <3>1, CommitElsewhere DEF FailExpiredPause
  <2>3. CASE CancelSubflowRun(r)
    <3>1. reads'[k] = reads[k]
      BY <2>3 DEF CancelSubflowRun, TypeOK
    <3> QED BY <2>3, <3>1, CommitElsewhere DEF CancelSubflowRun
  <2>4. CASE MonitorLateRuns(r) \/ EnsureCancellingTimeoutCheck(r) \/ SkipStaleCheck(r)
    BY <2>4 DEF MonitorLateRuns, EnsureCancellingTimeoutCheck, SkipStaleCheck
  <2>5. CASE \E due \in DueTimes(r) : MarkFlowRunLate(r, due)
    BY <2>5, CommitElsewhere DEF MarkFlowRunLate
  <2>6. CASE HandleCancellingTimeout(r)
    BY <2>6, CommitElsewhere DEF HandleCancellingTimeout
  <2> QED BY <1>2, <2>1, <2>2, <2>3, <2>4, <2>5, <2>6 DEF ServiceNext
<1>3. CASE TimeNext(r)
  BY <1>3 DEF TimeNext, ScheduledTimePasses, PauseTimeoutElapses, RenewConcurrencyLease, TypeOK
<1> QED BY <1>1, <1>2, <1>3

\* A run that is not there is in no state, nobody has read it, and it is not
\* queued to be marked late.
Absent(r) == ~Created(r) => st[r] = NoState /\ reads[r] = NoRead /\ r \notin late

LEMMA SetStateStep ==
  ASSUME TypeOK, NEW r \in Runs, NEW q \in Requests, NEW lost \in BOOLEAN,
         SetFlowRunState(r, q, lost)
  PROVE  Transits(r, st[r], run[r], q.state, q.client, FALSE)
<1>1. q.state \in State /\ q.client \in ClientVersions /\ q.state.type \in StateTypes
  BY OrchestrationAssumption
<1>2. Writes(r, st[r], run[r], q.state, q.client, FALSE)
  BY <1>1 DEF SetFlowRunState, Writes, InBounds
<1>3. FromCurrent(r, st[r], run[r])
  BY DEF SetFlowRunState, FromCurrent
<1>4. Proposes(r, q.state, FALSE)
  BY DEF Proposes, SetFlowRunState
<1> QED BY <1>2, <1>3, <1>4 DEF Transits

\* A step of a handler that orchestrates a state, as an instance of StepOf.
LEMMA TransitsStep ==
  ASSUME TypeOK, NEW r \in Runs, NEW s \in State, NEW d \in FlowRun, NEW p \in State,
         NEW client \in ClientVersions, NEW forced \in BOOLEAN,
         Transits(r, s, d, p, client, forced)
  PROVE  StepOf(r)
BY DEF StepOf

LEMMA StepOfClient ==
  ASSUME TypeOK, NEW r \in Runs, Absent(r), ClientNext(r)
  PROVE  StepOf(r)
<1>0. /\ st[r] \in State /\ run[r] \in FlowRun
      /\ reads[r].state \in State /\ reads[r].run \in FlowRun
      /\ "leasing" \in ClientVersions /\ "legacy" \in ClientVersions
      /\ TRUE \in BOOLEAN /\ FALSE \in BOOLEAN
  BY DEF TypeOK, ClientVersions
<1>1. ASSUME NEW p \in CreateStates, CreateFlowRun(r, p)
      PROVE  StepOf(r)
  <2>1. p \in State /\ p.type \in StateTypes /\ p.type \in {"SCHEDULED", "PENDING"}
    BY OrchestrationAssumption DEF StateTypes
  <2>2. ~Created(r) /\ st[r] = NoState
    BY <1>1 DEF CreateFlowRun, Absent
  <2>3. Writes(r, st[r], run[r], p, "legacy", TRUE)
    BY <1>1, <2>1, <2>2 DEF CreateFlowRun, Writes, InBounds
  <2>4. FromCurrent(r, st[r], run[r])
    BY <1>1, <2>2 DEF CreateFlowRun, FromCurrent
  <2>5. Proposes(r, p, TRUE)
    BY <2>1, <2>2 DEF Proposes
  <2>6. Transits(r, st[r], run[r], p, "legacy", TRUE)
    BY <2>3, <2>4, <2>5 DEF Transits
  <2> QED BY <1>0, <2>1, <2>6, TransitsStep
<1>2. ASSUME NEW q \in Requests, NEW lost \in BOOLEAN, SetFlowRunState(r, q, lost)
      PROVE  StepOf(r)
  <2>1. q.state \in State /\ q.client \in ClientVersions
    BY OrchestrationAssumption
  <2> QED BY <1>0, <1>2, <2>1, SetStateStep, TransitsStep
<1>3. CASE ResendRequest(r)
  <2>1. retry[r] \in Requests /\ SetFlowRunState(r, retry[r], FALSE)
    BY <1>3 DEF ResendRequest, TypeOK
  <2> QED BY <1>0, <1>2, <2>1
<1>4. ASSUME NEW p \in ForcedRequests, ForceFlowRunState(r, p)
      PROVE  StepOf(r)
  <2>1. p \in State /\ p.type \in StateTypes
    BY OrchestrationAssumption
  <2>2. Writes(r, st[r], run[r], p, "leasing", TRUE)
    BY <1>4, <2>1 DEF ForceFlowRunState, Writes, InBounds
  <2>3. FromCurrent(r, st[r], run[r])
    BY <1>4 DEF ForceFlowRunState, FromCurrent
  <2>4. Proposes(r, p, TRUE)
    BY <1>4, <2>1 DEF Proposes
  <2>5. Transits(r, st[r], run[r], p, "leasing", TRUE)
    BY <2>2, <2>3, <2>4 DEF Transits
  <2> QED BY <1>0, <2>1, <2>5, TransitsStep
<1>5. CASE SetInfrastructurePid(r) \/ DeleteFlowRun(r)
  BY <1>5 DEF StepOf
<1>6. CASE ReadForResume(r)
  <2>1. Reading(r)
    BY <1>6 DEF ReadForResume, Read, Reading, Created, TypeOK
  <2> QED BY <2>1 DEF StepOf
<1>7. CASE ResumeFlowRun(r)
  <2> DEFINE s == reads[r].state
             p == IF s.reschedule THEN Scheduled("Resuming", "past") ELSE NewState("RUNNING")
  <2>1. /\ p \in State /\ p.type \in {"SCHEDULED", "RUNNING"} /\ p.name # "Late"
    <3>1. /\ NewState("RUNNING") \in State /\ NewState("RUNNING").type = "RUNNING"
          /\ NewState("RUNNING").name = "default"
      BY NewStateType DEF NewState, AllTypes, StateTypes
    <3>2. /\ Scheduled("Resuming", "past") \in State
          /\ Scheduled("Resuming", "past").type = "SCHEDULED"
      BY ScheduledType DEF StateNames, ScheduledTimes
    <3>3. Scheduled("Resuming", "past").name = "Resuming"
      BY DEF Scheduled, NewState
    <3> QED BY <3>1, <3>2, <3>3
  <2>2. /\ Free # {} /\ reads[r].by = "resume" /\ reads'[r] = NoRead
        /\ Commit(r, reads[r].run,
                  CoreFlowPolicy(Transition(r, s, reads[r].run, p, "leasing")), FALSE)
    BY <1>7 DEF ResumeFlowRun, TypeOK
  <2> HIDE DEF p
  <2>3. Writes(r, s, reads[r].run, p, "leasing", FALSE)
    BY <2>1, <2>2 DEF Writes, StateTypes
  <2>4. FromRead(r, s, reads[r].run, p, FALSE) /\ Proposes(r, p, FALSE)
    <3>1. Created(r)
      BY <2>2 DEF Absent, NoRead
    <3> QED BY <2>1, <2>2, <3>1 DEF FromRead, Proposes
  <2>5. Transits(r, s, reads[r].run, p, "leasing", FALSE)
    BY <2>3, <2>4 DEF Transits
  <2> QED BY <1>0, <2>1, <2>5, TransitsStep
<1> QED BY <1>1, <1>2, <1>3, <1>4, <1>5, <1>6, <1>7 DEF ClientNext

LEMMA StepOfService ==
  ASSUME TypeOK, NEW r \in Runs, Absent(r), ServiceNext(r)
  PROVE  StepOf(r)
<1>0. /\ st[r] \in State /\ run[r] \in FlowRun
      /\ reads[r].state \in State /\ reads[r].run \in FlowRun
      /\ "legacy" \in ClientVersions
      /\ TRUE \in BOOLEAN /\ FALSE \in BOOLEAN
  BY DEF TypeOK, ClientVersions
<1>1. \A type \in {"FAILED", "CANCELLED", "CANCELLING"} :
        /\ NewState(type) \in State /\ NewState(type).type = type /\ type \in StateTypes
        /\ NewState(type).name = "default"
  BY NewStateType DEF NewState, AllTypes, StateTypes
<1>2. CASE ReadExpiredPause(r) \/ ReadSubflow(r)
  <2>1. Reading(r)
    BY <1>2 DEF ReadExpiredPause, ReadSubflow, Read, Reading, Created, TypeOK
  <2> QED BY <2>1 DEF StepOf
<1>3. CASE FailExpiredPause(r)
  <2> DEFINE s == reads[r].state
             p == NewState("FAILED")
  <2>1. /\ Free # {} /\ reads[r].by = "expire" /\ reads'[r] = NoRead
        /\ Commit(r, reads[r].run,
                  MinimalFlowPolicy(Transition(r, s, reads[r].run, p, "legacy")), TRUE)
    BY <1>3 DEF FailExpiredPause, TypeOK
  <2>2. p \in State /\ p.type = "FAILED" /\ p.type \in StateTypes /\ p.name = "default"
    BY <1>1
  <2> HIDE DEF p
  <2>3. Writes(r, s, reads[r].run, p, "legacy", TRUE)
    BY <2>1, <2>2 DEF Writes
  <2>4. FromRead(r, s, reads[r].run, p, TRUE) /\ Proposes(r, p, TRUE)
    BY <2>1, <2>2 DEF FromRead, Proposes
  <2>5. Transits(r, s, reads[r].run, p, "legacy", TRUE)
    BY <2>3, <2>4 DEF Transits
  <2> QED BY <1>0, <2>2, <2>5, TransitsStep
<1>4. CASE CancelSubflowRun(r)
  <2> DEFINE p == NewState(IF r \in Deployed THEN "CANCELLING" ELSE "CANCELLED")
  <2>1. /\ Free # {} /\ reads[r].by = "subflow" /\ reads'[r] = NoRead
        /\ Commit(r, run[r], MinimalFlowPolicy(Transition(r, st[r], run[r], p, "legacy")), TRUE)
    BY <1>4 DEF CancelSubflowRun, TypeOK
  <2>2. /\ p \in State /\ p.type \in {"CANCELLING", "CANCELLED"} /\ p.type \in StateTypes
        /\ p.name = "default"
    BY <1>1
  <2> HIDE DEF p
  <2>3. Writes(r, st[r], run[r], p, "legacy", TRUE)
    BY <2>1, <2>2 DEF Writes
  <2>4. FromCurrent(r, st[r], run[r]) /\ Proposes(r, p, TRUE)
    BY <2>1, <2>2 DEF FromCurrent, Proposes, Unheld
  <2>5. Transits(r, st[r], run[r], p, "legacy", TRUE)
    BY <2>3, <2>4 DEF Transits
  <2> QED BY <1>0, <2>2, <2>5, TransitsStep
<1>5. CASE MonitorLateRuns(r) \/ EnsureCancellingTimeoutCheck(r) \/ SkipStaleCheck(r)
  BY <1>5 DEF MonitorLateRuns, EnsureCancellingTimeoutCheck, SkipStaleCheck, StepOf, Untouched
<1>6. ASSUME NEW due \in DueTimes(r), MarkFlowRunLate(r, due)
      PROVE  StepOf(r)
  <2> DEFINE p == Scheduled("Late", due)
  <2>1. /\ p \in State /\ p.type = "SCHEDULED" /\ p.type \in StateTypes /\ p.name = "Late"
    <3>1. due \in ScheduledTimes
      BY <1>0, <1>6 DEF State, DueTimes, ScheduledTimes
    <3> QED BY <3>1, ScheduledType DEF StateNames, StateTypes, Scheduled, NewState
  <2>2. /\ Free # {} /\ Unheld(r) /\ reads'[r] = reads[r] /\ Created(r)
        /\ Commit(r, run[r], MarkLateRunsPolicy(Transition(r, st[r], run[r], p, "legacy")), FALSE)
    BY <1>6 DEF MarkFlowRunLate, Absent
  <2> HIDE DEF p
  <2>3. Writes(r, st[r], run[r], p, "legacy", FALSE)
    BY <2>1, <2>2 DEF Writes
  <2>4. FromCurrent(r, st[r], run[r]) /\ Proposes(r, p, FALSE)
    BY <2>1, <2>2 DEF FromCurrent, Proposes
  <2>5. Transits(r, st[r], run[r], p, "legacy", FALSE)
    BY <2>3, <2>4 DEF Transits
  <2> QED BY <1>0, <2>1, <2>5, TransitsStep
<1>7. CASE HandleCancellingTimeout(r)
  <2> DEFINE p == NewState("CANCELLED")
  <2>1. /\ Free # {} /\ Unheld(r) /\ reads'[r] = reads[r] /\ Created(r)
        /\ Commit(r, run[r], CoreFlowPolicy(Transition(r, st[r], run[r], p, "legacy")), FALSE)
    BY <1>7 DEF HandleCancellingTimeout, Created
  <2>2. p \in State /\ p.type = "CANCELLED" /\ p.type \in StateTypes /\ p.name = "default"
    BY <1>1
  <2> HIDE DEF p
  <2>3. Writes(r, st[r], run[r], p, "legacy", FALSE)
    BY <2>1, <2>2 DEF Writes
  <2>4. FromCurrent(r, st[r], run[r]) /\ Proposes(r, p, FALSE)
    BY <2>1, <2>2 DEF FromCurrent, Proposes
  <2>5. Transits(r, st[r], run[r], p, "legacy", FALSE)
    BY <2>3, <2>4 DEF Transits
  <2> QED BY <1>0, <2>2, <2>5, TransitsStep
<1> QED BY <1>2, <1>3, <1>4, <1>5, <1>6, <1>7 DEF ServiceNext

\* Every step of the system is one of these, for every run.
LEMMA StepKinds ==
  ASSUME TypeOK, NEW r \in Runs, Absent(r), [Next]_vars
  PROVE  StepOf(r)
<1>1. CASE UNCHANGED vars
  BY <1>1 DEF vars, StepOf, Untouched
<1>2. ASSUME NEW k \in Runs, ClientNext(k) \/ ServiceNext(k) \/ TimeNext(k), k # r
      PROVE  StepOf(r)
  BY <1>2, Elsewhere DEF StepOf
<1>3. CASE ClientNext(r)
  BY <1>3, StepOfClient
<1>4. CASE ServiceNext(r)
  BY <1>4, StepOfService
<1>5. CASE TimeNext(r)
  BY <1>5 DEF TimeNext, RenewConcurrencyLease, StepOf, Untouched
<1>6. CASE \E l \in LeaseIds : LeaseNext(l)
  BY <1>6 DEF LeaseNext, LeaseExpires, RevokeExpiredLease, StepOf, Untouched
<1> QED BY <1>1, <1>2, <1>3, <1>4, <1>5, <1>6 DEF Next

---------------------------------------------------------------------------
(* What a handler writes.                                                  *)

LEMMA TransitionBegun ==
  ASSUME TypeOK, Free # {}, NEW r \in Runs, NEW s \in State, NEW d \in FlowRun,
         NEW p \in State, p.type \in StateTypes, NEW client \in ClientVersions
  PROVE  LET t == Transition(r, s, d, p, client)
         IN /\ Begun(t) /\ t.initial = s /\ t.intended = p.type /\ t.proposed = p
            /\ t.run = d
<1>1. Transition(r, s, d, p, client) \in Context
  BY TransitionType
<1> QED BY <1>1 DEF Transition, Begun, HookRules

\* The columns of r after the outcome c of a transition from the columns d.
WritesColumns(r, d, c) ==
  d = run[r] =>
    /\ run'[r].policy = c.run.policy
    /\ run'[r].count = c.run.count
    /\ run'[r].ended = c.run.ended

\* The state and the history of r after the outcome c of the transition t.
WritesState(r, t, c, forced) ==
  IF c.proposed.type = "NONE"
  THEN st'[r] = st[r] /\ hist'[r] = hist[r]
  ELSE st'[r] = c.proposed /\ hist'[r] = Recorded(hist[r], t.initial, c, forced)

\* A rule of the policy has let everything through that it accepts.
Lets(t, c, forced) ==
  c.status = "ACCEPT" =>
    /\ Original(t, c)
    /\ /\ t.intended = "COMPLETED" /\ t.initial.type = "COMPLETED" /\ t.initial.persisted
       => t.proposed.persisted
    /\ ~forced =>
         /\ Admitted(t, c)
         /\ t.intended = "PAUSED" =>
              {t.proposed.key} \cap Keys \subseteq c.run.policy.pauseKeys

LEMMA CommitWrites ==
  ASSUME TypeOK, NEW r \in Runs, NEW d \in FlowRun, NEW t, NEW c \in Context,
         c.initial = t.initial, NEW forced \in BOOLEAN, Commit(r, d, c, forced)
  PROVE  WritesColumns(r, d, c) /\ WritesState(r, t, c, forced)
<1>1. run'[r] = Columns(d, c.run, run[r])
  BY DEF Commit, TypeOK
<1>2. WritesColumns(r, d, c)
  BY <1>1 DEF Columns, Column, WritesColumns
<1>3. CASE c.proposed.type = "NONE"
  BY <1>2, <1>3 DEF Commit, WritesState
<1>4. CASE c.proposed.type # "NONE"
  <2>1. st'[r] = c.proposed
    BY <1>4 DEF Commit, TypeOK
  <2>2. hist'[r] = Recorded(hist[r], c.initial, c, forced)
    BY <1>4 DEF Commit, TypeOK
  <2> QED BY <1>2, <1>4, <2>1, <2>2 DEF WritesState
<1> QED BY <1>3, <1>4

\* The outcome c of the transition t, as r shows it after the step.
Written(r, t, c, forced) ==
  /\ Begun(t) /\ Outcome(t, c) /\ Lets(t, c, forced)
  /\ WritesColumns(r, t.run, c) /\ WritesState(r, t, c, forced)

LEMMA WriteOutcome ==
  ASSUME TypeOK, NEW r \in Runs, NEW s \in State, NEW d \in FlowRun, NEW p \in State,
         NEW client \in ClientVersions, NEW forced \in BOOLEAN,
         Writes(r, s, d, p, client, forced)
  PROVE  \E t, c : /\ Written(r, t, c, forced)
                   /\ t.initial = s /\ t.intended = p.type /\ t.proposed = p /\ t.run = d
<1> DEFINE t == Transition(r, s, d, p, client)
<1>1. /\ Free # {} /\ p.type \in StateTypes
      /\ \/ ~forced /\ Commit(r, d, CoreFlowPolicy(t), forced)
         \/ forced /\ Commit(r, d, MinimalFlowPolicy(t), forced)
         \/ /\ ~forced /\ p.type = "SCHEDULED" /\ p.name = "Late"
            /\ Commit(r, d, MarkLateRunsPolicy(t), forced)
  BY DEF Writes
<1>2. Begun(t) /\ t.initial = s /\ t.intended = p.type /\ t.proposed = p /\ t.run = d
  BY <1>1, TransitionBegun
<1> HIDE DEF t
<1>3. ASSUME NEW c, Outcome(t, c), Lets(t, c, forced), Commit(r, d, c, forced)
      PROVE  Written(r, t, c, forced)
  <2>1. c \in Context /\ c.initial = t.initial
    BY <1>3 DEF Outcome
  <2> QED BY <1>2, <1>3, <2>1, CommitWrites DEF Written
<1>4. CASE ~forced /\ Commit(r, d, CoreFlowPolicy(t), forced)
  <2> DEFINE c == CoreFlowPolicy(t)
  <2>1. /\ Outcome(t, c)
        /\ c.status = "ACCEPT" =>
             /\ Original(t, c) /\ Admitted(t, c)
             /\ t.intended = "PAUSED" =>
                  {t.proposed.key} \cap Keys \subseteq c.run.policy.pauseKeys
    BY <1>2, CoreOutcome
  <2> HIDE DEF c
  <2>2. Lets(t, c, forced)
    BY <2>1 DEF Lets, Admitted
  <2>3. Written(r, t, c, forced)
    BY <1>3, <1>4, <2>1, <2>2 DEF c
  <2> QED BY <1>2, <2>3
<1>5. CASE forced /\ Commit(r, d, MinimalFlowPolicy(t), forced)
  <2> DEFINE c == MinimalFlowPolicy(t)
  <2>1. /\ Outcome(t, c)
        /\ c.status = "ACCEPT" =>
             /\ Original(t, c)
             /\ /\ t.intended = "COMPLETED" /\ t.initial.type = "COMPLETED"
                /\ t.initial.persisted
                => t.proposed.persisted
    BY <1>2, MinimalOutcome
  <2> HIDE DEF c
  <2>2. Lets(t, c, forced)
    BY <1>5, <2>1 DEF Lets
  <2>3. Written(r, t, c, forced)
    BY <1>3, <1>5, <2>1, <2>2 DEF c
  <2> QED BY <1>2, <2>3
<1>6. CASE /\ ~forced /\ p.type = "SCHEDULED" /\ p.name = "Late"
           /\ Commit(r, d, MarkLateRunsPolicy(t), forced)
  <2> DEFINE c == MarkLateRunsPolicy(t)
  <2>1. /\ Outcome(t, c)
        /\ c.status = "ACCEPT" =>
             /\ Original(t, c)
             /\ t.intended = "SCHEDULED" /\ t.proposed.name = "Late" =>
                  t.initial.type \in {"SCHEDULED", "NONE"}
    BY <1>2, MarkLateOutcome
  <2> HIDE DEF c
  <2>2. Lets(t, c, forced)
    BY <1>2, <1>6, <2>1 DEF Lets, Admitted
  <2>3. Written(r, t, c, forced)
    BY <1>3, <1>6, <2>1, <2>2 DEF c
  <2> QED BY <1>2, <2>3
<1> QED BY <1>1, <1>4, <1>5, <1>6

\* The two ways an outcome ends up in the state of the run: as it was proposed,
\* or as a rule has put it there.
LEMMA OutcomeKinds ==
  ASSUME NEW t, NEW c, Outcome(t, c), NEW forced, Lets(t, c, forced)
  PROVE  \/ c.status = "ACCEPT" /\ Original(t, c)
         \/ c.status # "ACCEPT" /\ (Substitute(t, c.proposed) \/ Retried(t, c))
BY DEF Outcome, Proposal, Original, Replaced

\* The history counts the retries that RetryFailedFlows grants.
LEMMA CountsRetries ==
  ASSUME NEW t, NEW c, Outcome(t, c), c.proposed.type # "NONE"
  PROVE  /\ t.initial.type = "RUNNING" /\ c.proposed.name = "AwaitingRetry"
         /\ c.status = "REJECT"
         <=> Retried(t, c)
<1>1. Proposal(t, c)
  BY DEF Outcome
<1> QED BY <1>1 DEF Proposal, Original, Replaced, Substitute, Retried

---------------------------------------------------------------------------
(* Invariants of one run on either database.                               *)

\* Only a run that is there is queued to be marked late.
LEMMA LateStep ==
  ASSUME TypeOK, NEW r \in Runs, [Next]_vars, r \in late'
  PROVE  r \in late \/ Created(r)
<1>1. CASE UNCHANGED vars
  BY <1>1 DEF vars
<1>2. ASSUME NEW k \in Runs, ClientNext(k)
      PROVE  r \in late \/ Created(r)
  BY <1>2 DEF ClientNext, CreateFlowRun, SetFlowRunState, ResendRequest, ForceFlowRunState,
              SetInfrastructurePid, DeleteFlowRun, ReadForResume, Read, ResumeFlowRun
<1>3. ASSUME NEW k \in Runs, ServiceNext(k)
      PROVE  r \in late \/ Created(r)
  BY <1>3 DEF ServiceNext, ReadExpiredPause, Read, FailExpiredPause, ReadSubflow,
              CancelSubflowRun, MonitorLateRuns, MarkFlowRunLate,
              EnsureCancellingTimeoutCheck, SkipStaleCheck, HandleCancellingTimeout, Created
<1>4. ASSUME NEW k \in Runs, TimeNext(k)
      PROVE  r \in late \/ Created(r)
  BY <1>4 DEF TimeNext, ScheduledTimePasses, PauseTimeoutElapses, RenewConcurrencyLease
<1>5. CASE \E l \in LeaseIds : LeaseNext(l)
  BY <1>5 DEF LeaseNext, LeaseExpires, RevokeExpiredLease
<1> QED BY <1>1, <1>2, <1>3, <1>4, <1>5 DEF Next

LEMMA AbsentStep ==
  ASSUME TypeOK, NEW r \in Runs, Absent(r), [Next]_vars
  PROVE  Absent(r)'
<1>1. StepOf(r)
  BY StepKinds
<1>2. r \in late' => r \in late \/ Created(r)
  BY LateStep
<1>3. NoState.type = "NONE" /\ NoState.sched = "none" /\ NoState.timeout = "none"
      /\ NoRead.state = NoState
  BY DEF NoState, NewState, NoRead
<1>4. CASE Untouched(r)
  BY <1>2, <1>4 DEF Untouched, Absent, Created
<1>5. CASE Reading(r) \/ SetInfrastructurePid(r)
  BY <1>3, <1>5 DEF Reading, SetInfrastructurePid, Absent, Created
<1>6. CASE DeleteFlowRun(r)
  BY <1>6 DEF DeleteFlowRun, Absent, TypeOK
<1>7. CASE ScheduledTimePasses(r) \/ PauseTimeoutElapses(r)
  <2>1. Created(r)
    BY <1>3, <1>7 DEF ScheduledTimePasses, PauseTimeoutElapses, Absent
  <2>2. st'[r].type = st[r].type
    BY <1>7 DEF ScheduledTimePasses, PauseTimeoutElapses, TypeOK, State
  <2> QED BY <2>1, <2>2 DEF Absent, Created
<1>8. ASSUME NEW s \in State, NEW d \in FlowRun, NEW p \in State, NEW client \in ClientVersions,
             NEW forced \in BOOLEAN, Transits(r, s, d, p, client, forced)
      PROVE  Absent(r)'
  <2>1. PICK t, c : Written(r, t, c, forced)
    BY <1>8, WriteOutcome DEF Transits
  <2>2. st'[r] = st[r] \/ st'[r].type # "NONE"
    BY <2>1 DEF Written, WritesState
  <2>3. reads'[r] \in {reads[r], NoRead}
    BY <1>8 DEF Transits, FromCurrent, FromRead
  <2> QED BY <1>2, <2>2, <2>3 DEF Absent, Created
<1> QED BY <1>1, <1>4, <1>5, <1>6, <1>7, <1>8 DEF StepOf

LEMMA AbsentInit == Init => \A r \in Runs : Absent(r)
BY DEF Init, Absent

\* The run was submitted at most once, and not since it was scheduled or ended.
Submissions(r) ==
  /\ hist[r].submitted <= 1
  /\ st[r].type \in {"NONE", "SCHEDULED"} \cup TerminalTypes => hist[r].submitted = 0

\* What the transition does to the count of submissions.
LEMMA SubmissionWritten ==
  ASSUME TypeOK, NEW r \in Runs, Submissions(r),
         NEW s \in State, NEW d \in FlowRun, NEW p \in State, NEW client \in ClientVersions,
         NEW forced \in BOOLEAN, Transits(r, s, d, p, client, forced)
  PROVE  Submissions(r)'
<1>1. PICK t, c : /\ Written(r, t, c, forced)
                  /\ t.initial = s /\ t.intended = p.type /\ t.proposed = p
  BY WriteOutcome DEF Transits
<1>2. CASE c.proposed.type = "NONE"
  BY <1>1, <1>2 DEF Written, WritesState, Submissions
<1>3. CASE c.proposed.type # "NONE"
  <2> DEFINE begins == Terminal(c.proposed) \/ c.proposed.type = "SCHEDULED" \/ forced
             since == IF begins THEN 0 ELSE hist[r].submitted
  <2>1. /\ st'[r] = c.proposed
        /\ hist'[r].submitted = since + (IF Resubmission(c.proposed, forced) THEN 1 ELSE 0)
    BY <1>1, <1>3 DEF Written, WritesState, Recorded
  <2>2. hist[r].submitted \in Nat
    BY DEF TypeOK, History
  <2>3. CASE ~Resubmission(c.proposed, forced)
    <3>1. hist'[r].submitted = since
      BY <2>1, <2>2, <2>3
    <3> QED BY <1>3, <2>1, <3>1 DEF Submissions, Terminal
  <2>4. CASE Resubmission(c.proposed, forced)
    <3>1. c.proposed.type = "PENDING" /\ (forced \/ c.proposed.name = "default")
      BY <2>4 DEF Resubmission
    <3>2. since = 0
      <4>1. CASE forced
        BY <4>1
      <4>2. CASE ~forced
        <5>1. c.status = "ACCEPT" /\ Original(t, c)
          BY <1>1, <3>1, OutcomeKinds DEF Written, Substitute, Retried
        <5>2. Admitted(t, c)
          BY <1>1, <4>2, <5>1 DEF Written, Lets
        <5>3. p.type = "PENDING" /\ p.name = "default"
          BY <1>1, <3>1, <4>2, <5>1 DEF Original
        <5>4. s = st[r]
          BY <5>3 DEF Transits, FromCurrent, FromRead
        <5>5. /\ s.type \notin {"CANCELLING", "RUNNING", "CANCELLED", "PAUSED", "PENDING"}
              /\ s.type \in AllTypes
          BY <1>1, <5>2, <5>3 DEF Admitted, State
        <5>6. st[r].type \in {"NONE", "SCHEDULED"} \cup TerminalTypes
          BY <5>4, <5>5 DEF AllTypes, StateTypes, TerminalTypes
        <5> QED BY <5>6 DEF Submissions
      <4> QED BY <4>1, <4>2
    <3>3. hist'[r].submitted = 1
      BY <2>1, <2>4, <3>2
    <3> QED BY <2>1, <3>1, <3>3 DEF Submissions, TerminalTypes
  <2> QED BY <2>3, <2>4
<1> QED BY <1>2, <1>3

LEMMA SubmissionStep ==
  ASSUME TypeOK, NEW r \in Runs, Absent(r), Submissions(r), [Next]_vars
  PROVE  Submissions(r)'
<1>1. StepOf(r)
  BY StepKinds
<1>2. CASE Untouched(r) \/ Reading(r) \/ SetInfrastructurePid(r)
  BY <1>2 DEF Untouched, Reading, SetInfrastructurePid, Submissions
<1>3. CASE DeleteFlowRun(r)
  BY <1>3 DEF DeleteFlowRun, Submissions, NewHistory, TypeOK
<1>4. CASE ScheduledTimePasses(r) \/ PauseTimeoutElapses(r)
  <2>1. st'[r].type = st[r].type /\ hist'[r].submitted = hist[r].submitted
    BY <1>4 DEF ScheduledTimePasses, PauseTimeoutElapses, TypeOK, State, History
  <2> QED BY <2>1 DEF Submissions
<1> QED BY <1>1, <1>2, <1>3, <1>4, SubmissionWritten DEF StepOf

\* The invariant of the runs on either database.
LifeInv == \A r \in Runs : Absent(r) /\ Submissions(r)

LEMMA LifeAlways == Spec => [](TypeOK /\ LifeInv)
<1>1. Init => LifeInv
  BY AbsentInit DEF Init, LifeInv, Submissions, NewHistory
<1>2. TypeOK /\ LifeInv /\ [Next]_vars => LifeInv'
  BY AbsentStep, SubmissionStep DEF LifeInv
<1> QED BY TypeCorrect, <1>1, <1>2, PTL DEF Spec

\* SubmittedOnce: PreventPendingTransitions lets only one of several workers
\* that poll the same scheduled run move it to a plain Pending state, whatever
\* the clients, services and timeouts do to the run in between.
THEOREM RunSubmittedOnce == Spec => []SubmittedOnce
<1>1. TypeOK /\ LifeInv => SubmittedOnce
  BY DEF LifeInv, Submissions, SubmittedOnce
<1> QED BY LifeAlways, <1>1, PTL

\* PersistedResultKept, of one step: a Completed state without a result is
\* proposed over one with a persisted result and goes through no policy.
LEMMA ResultStep ==
  ASSUME TypeOK, NEW r \in Runs, Absent(r), [Next]_vars,
         st[r].type = "COMPLETED", st[r].persisted, st'[r].type = "COMPLETED"
  PROVE  st'[r].persisted
<1>1. StepOf(r)
  BY StepKinds
<1>2. CASE Untouched(r) \/ Reading(r) \/ SetInfrastructurePid(r)
  BY <1>2 DEF Untouched, Reading, SetInfrastructurePid
<1>3. CASE DeleteFlowRun(r)
  BY <1>3, NoStateType DEF DeleteFlowRun, TypeOK
<1>4. CASE ScheduledTimePasses(r) \/ PauseTimeoutElapses(r)
  <2>1. \/ st'[r] = [st[r] EXCEPT !.sched = "past"]
        \/ st'[r] = [st[r] EXCEPT !.timeout = IF @ = "pending" THEN "elapsed" ELSE @]
    BY <1>4 DEF ScheduledTimePasses, PauseTimeoutElapses, TypeOK
  <2>2. st[r] \in State
    BY DEF TypeOK
  <2>3. st'[r].persisted = st[r].persisted
    BY <2>1, <2>2 DEF State
  <2> QED BY <2>3
<1>5. ASSUME NEW s \in State, NEW d \in FlowRun, NEW p \in State, NEW client \in ClientVersions,
             NEW forced \in BOOLEAN, Transits(r, s, d, p, client, forced)
      PROVE  st'[r].persisted
  <2>1. PICK t, c : /\ Written(r, t, c, forced)
                    /\ t.initial = s /\ t.intended = p.type /\ t.proposed = p
    BY <1>5, WriteOutcome DEF Transits
  <2>2. CASE c.proposed.type = "NONE"
    BY <2>1, <2>2 DEF Written, WritesState
  <2>3. CASE c.proposed.type # "NONE"
    <3>1. st'[r] = c.proposed /\ c.proposed.type = "COMPLETED"
      BY <2>1, <2>3 DEF Written, WritesState
    <3>2. c.status = "ACCEPT" /\ Original(t, c)
      BY <2>1, <3>1, OutcomeKinds DEF Written, Substitute, Retried
    <3>3. p.type = "COMPLETED" /\ c.proposed.persisted = p.persisted
      BY <2>1, <3>1, <3>2 DEF Original
    <3>4. s = st[r]
      BY <1>5, <3>3 DEF Transits, FromCurrent, FromRead
    <3> QED BY <2>1, <3>1, <3>2, <3>3, <3>4 DEF Written, Lets
  <2> QED BY <2>2, <2>3
<1> QED BY <1>1, <1>2, <1>3, <1>4, <1>5 DEF StepOf

\* PersistedResultKept: HandleFlowTerminalStateTransitions under the core policy
\* and PreventResultDataLoss under the minimal one keep a persisted result,
\* also from a handler that orchestrates a state it read before.
THEOREM PersistedResultsKept == Spec => PersistedResultKept
<1>1. TypeOK /\ LifeInv /\ [Next]_vars =>
        \A r \in Runs : st[r].type = "COMPLETED" /\ st[r].persisted =>
          (st'[r].type = "COMPLETED" => st'[r].persisted)
  BY ResultStep DEF LifeInv
<1> QED BY LifeAlways, <1>1, PTL DEF Spec, PersistedResultKept

---------------------------------------------------------------------------
(* Runs that are marked late.                                              *)

\* "Late" is the name that mark_flow_run_late gives; clients give it, if at all,
\* to Scheduled states.
LateNames ==
  /\ \A p \in CreateStates \cup ForcedRequests : p.name # "Late"
  /\ \A q \in Requests : q.state.name = "Late" => q.state.type = "SCHEDULED"

LateNamed(r) == st[r].name = "Late" => st[r].type = "SCHEDULED"

LEMMA MarkedStep ==
  ASSUME LateNames, TypeOK, NEW r \in Runs, Absent(r), LateNamed(r), [Next]_vars,
         st'[r].name = "Late"
  PROVE  st[r].type = "SCHEDULED" /\ st'[r].type = "SCHEDULED"
<1>1. StepOf(r)
  BY StepKinds
<1>2. CASE Untouched(r) \/ Reading(r) \/ SetInfrastructurePid(r)
  BY <1>2 DEF Untouched, Reading, SetInfrastructurePid, LateNamed
<1>3. CASE DeleteFlowRun(r)
  BY <1>3 DEF DeleteFlowRun, TypeOK, NoState, NewState
<1>4. CASE ScheduledTimePasses(r) \/ PauseTimeoutElapses(r)
  <2>1. st'[r].name = st[r].name /\ st'[r].type = st[r].type
    BY <1>4 DEF ScheduledTimePasses, PauseTimeoutElapses, TypeOK, State
  <2> QED BY <2>1 DEF LateNamed
<1>5. ASSUME NEW s \in State, NEW d \in FlowRun, NEW p \in State, NEW client \in ClientVersions,
             NEW forced \in BOOLEAN, Transits(r, s, d, p, client, forced)
      PROVE  st[r].type = "SCHEDULED" /\ st'[r].type = "SCHEDULED"
  <2>1. PICK t, c : /\ Written(r, t, c, forced)
                    /\ t.initial = s /\ t.intended = p.type /\ t.proposed = p
    BY <1>5, WriteOutcome DEF Transits
  <2>2. CASE c.proposed.type = "NONE"
    BY <2>1, <2>2 DEF Written, WritesState, LateNamed
  <2>3. CASE c.proposed.type # "NONE"
    <3>1. st'[r] = c.proposed /\ c.proposed.name = "Late"
      BY <2>1, <2>3 DEF Written, WritesState
    <3>2. c.status = "ACCEPT" /\ Original(t, c)
      BY <2>1, <2>3, <3>1, OutcomeKinds DEF Written, Substitute, Retried
    <3>3. p.name = "Late" /\ c.proposed.type = p.type
      BY <2>1, <3>1, <3>2 DEF Original
    <3>4. s = st[r]
      BY <1>5, <3>3 DEF Transits, FromCurrent, FromRead
    <3>5. ~forced /\ p.type = "SCHEDULED" /\ Created(r)
      BY <1>5, <3>3 DEF Transits, Proposes, LateNames
    <3>6. s.type \in {"SCHEDULED", "NONE"}
      BY <2>1, <3>2, <3>3, <3>5 DEF Written, Lets, Admitted
    <3> QED BY <3>1, <3>3, <3>4, <3>5, <3>6 DEF Created
  <2> QED BY <2>2, <2>3
<1> QED BY <1>1, <1>2, <1>3, <1>4, <1>5 DEF StepOf

\* LateOnlyScheduled: however long a mark_flow_run_late task was queued, the run
\* it marks is Scheduled at that moment (EnsureOnlyScheduledFlowsMarkedLate), if
\* nobody else gives other states the name of its state.
THEOREM OnlyScheduledMarkedLate ==
  ASSUME LateNames
  PROVE  Spec => LateOnlyScheduled
<1> DEFINE Named == \A r \in Runs : LateNamed(r)
<1>1. Init => Named
  BY DEF Init, LateNamed, NoState, NewState
<1>2. TypeOK /\ LifeInv /\ Named /\ [Next]_vars => Named'
  BY MarkedStep DEF LifeInv, LateNamed
<1>3. TypeOK /\ LifeInv /\ Named /\ [Next]_vars =>
        \A r \in Runs : st'[r].name = "Late" => st[r].type = "SCHEDULED"
  BY MarkedStep DEF LifeInv
<1> HIDE DEF Named
<1> QED BY LifeAlways, <1>1, <1>2, <1>3, PTL DEF Spec, LateOnlyScheduled

---------------------------------------------------------------------------
(* Requests that are sent again.                                           *)

\* No rule does anything to a transition without a proposal.
LEMMA NothingGoverned ==
  ASSUME NEW c \in Context, c.proposed.type = "NONE", NEW from, NEW to
  PROVE  ~Governs(c, from, to)
BY DEF Governs, Context, StateTypes

LEMMA RejectedInert ==
  ASSUME NEW c \in Context, c.proposed.type = "NONE",
         \A h \in HookRules : c.entered[h] = "INVALID"
  PROVE  CoreAfter(GlobalFlowPolicy(
           RetryFailedFlows(WaitForScheduledTime(CopyScheduledTime(CoreBeforeTiming(
             PreventPendingTransitions(BypassCancellingFlowRunsWithNoInfra(
               EnforceCancellingToCancelledTransition(
                 HandleFlowTerminalStateTransitions(c)))))))))) = c
<1>1. /\ HandleFlowTerminalStateTransitions(c) = c
      /\ EnforceCancellingToCancelledTransition(c) = c
      /\ BypassCancellingFlowRunsWithNoInfra(c) = c
      /\ PreventPendingTransitions(c) = c
  BY NothingGoverned DEF HandleFlowTerminalStateTransitions,
     EnforceCancellingToCancelledTransition, BypassCancellingFlowRunsWithNoInfra,
     PreventPendingTransitions
<1>2. CoreBeforeTiming(c) = c
  <2>1. ValidateDeploymentConcurrencyAtRunning(c) = c
    BY NothingGoverned DEF ValidateDeploymentConcurrencyAtRunning
  <2>2. SecureFlowConcurrencySlots(c) = c
    BY NothingGoverned DEF SecureFlowConcurrencySlots
  <2>3. RemoveDeploymentConcurrencyLeaseForOldClientVersions(c) = c
    BY NothingGoverned DEF RemoveDeploymentConcurrencyLeaseForOldClientVersions
  <2>4. EnsureOnlyScheduledFlowsMarkedLate(c) = c
    BY NothingGoverned DEF EnsureOnlyScheduledFlowsMarkedLate
  <2>5. HandlePausingFlows(c) = c
    BY NothingGoverned DEF HandlePausingFlows
  <2>6. HandleResumingPausedFlows(c) = c
    BY NothingGoverned DEF HandleResumingPausedFlows
  <2> QED BY <2>1, <2>2, <2>3, <2>4, <2>5, <2>6 DEF CoreBeforeTiming
<1>3. CopyScheduledTime(c) = c /\ WaitForScheduledTime(c) = c /\ RetryFailedFlows(c) = c
  BY NothingGoverned DEF CopyScheduledTime, WaitForScheduledTime, RetryFailedFlows
<1>4. GlobalFlowPolicy(c) = c
  BY DEF GlobalFlowPolicy
<1>5. \A h \in HookRules : c.entered[h] \notin AllTypes
  BY DEF AllTypes, StateTypes
<1>6. CoreAfter(c) = c
  <2>1. ReleaseFlowConcurrencySlots(c) = c
    BY DEF ReleaseFlowConcurrencySlots
  <2>2. AfterResuming(c) = c /\ CleanupTerminal(c) = c
    BY <1>5 DEF AfterResuming, CleanupTerminal, Survives, Fizzles, HookRules
  <2>3. AfterPausing(c) = c /\ AfterRemoveLease(c) = c /\ CleanupSecure(c) = c
    BY DEF AfterPausing, AfterRemoveLease, CleanupSecure, Survives, Fizzles, HookRules
  <2> QED BY <2>1, <2>2, <2>3 DEF CoreAfter
<1> QED BY <1>1, <1>2, <1>3, <1>4, <1>6

LEMMA DuplicateRejected ==
  ASSUME NEW t \in Context, t.proposed.type = t.intended, t.initial.type # "NONE",
         t.proposed.tid # NoTid, t.proposed.tid = t.initial.tid,
         \A h \in HookRules : t.entered[h] = "INVALID"
  PROVE  LET c == CoreFlowPolicy(t)
         IN /\ c.proposed.type = "NONE" /\ c.run = t.run
            /\ c.slots = t.slots /\ c.leases = t.leases
<1> DEFINE a == PreserveDeploymentConcurrencyLeaseId(t)
           e == Reject(a, NoState)
<1>1. /\ a \in Context /\ a.initial = t.initial /\ a.intended = t.intended
      /\ a.proposed.type = t.proposed.type /\ a.proposed.tid = t.proposed.tid
      /\ a.run = t.run /\ a.slots = t.slots /\ a.leases = t.leases /\ a.entered = t.entered
  <2>1. a \in Context
    BY PreserveType
  <2> QED BY <2>1 DEF PreserveDeploymentConcurrencyLeaseId, Context, State
<1>2. CoreFlowPolicy(t) =
        CoreAfter(GlobalFlowPolicy(
          RetryFailedFlows(WaitForScheduledTime(CopyScheduledTime(CoreBeforeTiming(
            PreventPendingTransitions(BypassCancellingFlowRunsWithNoInfra(
              EnforceCancellingToCancelledTransition(
                HandleFlowTerminalStateTransitions(PreventDuplicateTransitions(a)))))))))))
  BY DEF CoreFlowPolicy, CoreBefore, CoreBeforeConcurrency
<1> HIDE DEF a
<1>3. PreventDuplicateTransitions(a) = e
  <2>1. Governs(a, StateTypes, AllTypes)
    BY <1>1 DEF Governs, Context, State, AllTypes
  <2> QED BY <1>1, <2>1 DEF PreventDuplicateTransitions
<1>4. /\ e \in Context /\ e.proposed = NoState /\ e.run = a.run
      /\ e.slots = a.slots /\ e.leases = a.leases /\ e.entered = a.entered
  <2>1. e \in Context
    BY <1>1, NoStateType, RejectType
  <2> QED BY <1>1, <2>1 DEF Reject, Context
<1> HIDE DEF e
<1>5. CoreFlowPolicy(t) = e
  BY <1>1, <1>2, <1>3, <1>4, NoStateType, RejectedInert
<1> QED BY <1>1, <1>4, <1>5, NoStateType

\* Only requests with a transition id are sent again.
Resends(r) == retry[r] # NoRequest => retry[r].state.tid # NoTid

LEMMA ResendsStep ==
  ASSUME TypeOK, NEW r \in Runs, Resends(r), [Next]_vars
  PROVE  Resends(r)'
<1>0. ASSUME NEW k \in Runs, Forget(k) PROVE Resends(r)'
  BY <1>0 DEF Forget, Resends, TypeOK
<1>1. ASSUME NEW k \in Runs, NEW q, NEW lost \in BOOLEAN, SetFlowRunState(k, q, lost)
      PROVE  Resends(r)'
  <2>1. /\ retry' = [retry EXCEPT ![k] = IF lost THEN q ELSE NoRequest]
        /\ lost => q.state.tid # NoTid
    BY <1>1 DEF SetFlowRunState
  <2> QED BY <2>1 DEF Resends, TypeOK
<1>2. CASE UNCHANGED vars
  BY <1>2 DEF vars, Resends
<1>3. ASSUME NEW k \in Runs, ClientNext(k)
      PROVE  Resends(r)'
  <2>1. CASE \E q \in Requests, lost \in BOOLEAN : SetFlowRunState(k, q, lost)
    BY <1>1, <2>1
  <2>2. CASE ResendRequest(k)
    BY <1>1, <2>2 DEF ResendRequest
  <2>3. CASE \/ \E p \in CreateStates : CreateFlowRun(k, p)
             \/ \E p \in ForcedRequests : ForceFlowRunState(k, p)
             \/ DeleteFlowRun(k) \/ ResumeFlowRun(k)
    <3>1. Forget(k)
      BY <2>3 DEF CreateFlowRun, ForceFlowRunState, DeleteFlowRun, ResumeFlowRun
    <3> QED BY <1>0, <3>1
  <2>4. CASE SetInfrastructurePid(k) \/ ReadForResume(k)
    BY <2>4 DEF SetInfrastructurePid, ReadForResume, Read, Resends
  <2> QED BY <1>3, <2>1, <2>2, <2>3, <2>4 DEF ClientNext
<1>4. ASSUME NEW k \in Runs, ServiceNext(k)
      PROVE  Resends(r)'
  <2>1. Forget(k) \/ retry' = retry
    BY <1>4 DEF ServiceNext, ReadExpiredPause, Read, FailExpiredPause, ReadSubflow,
                CancelSubflowRun, MonitorLateRuns, MarkFlowRunLate,
                EnsureCancellingTimeoutCheck, SkipStaleCheck, HandleCancellingTimeout
  <2> QED BY <1>0, <2>1 DEF Resends
<1>5. ASSUME NEW k \in Runs, TimeNext(k)
      PROVE  Resends(r)'
  BY <1>5 DEF TimeNext, ScheduledTimePasses, PauseTimeoutElapses, RenewConcurrencyLease, Resends
<1>6. CASE \E l \in LeaseIds : LeaseNext(l)
  BY <1>6 DEF LeaseNext, LeaseExpires, RevokeExpiredLease, Resends
<1> QED BY <1>2, <1>3, <1>4, <1>5, <1>6 DEF Next

LEMMA DuplicateStep ==
  ASSUME TypeOK, NEW r \in Runs, Resends(r), ResendRequest(r), st[r].tid = retry[r].state.tid
  PROVE  UNCHANGED <<st, run, slots, leases>>
<1> DEFINE q == retry[r]
           t == Transition(r, st[r], run[r], q.state, q.client)
           c == CoreFlowPolicy(t)
<1>1. /\ q \in Requests /\ q.state.tid # NoTid /\ Created(r) /\ Free # {}
      /\ Commit(r, run[r], c, FALSE)
  BY DEF ResendRequest, SetFlowRunState, InBounds, Resends, TypeOK
<1>2. q.state \in State /\ q.state.type \in StateTypes /\ q.client \in ClientVersions
  BY <1>1, OrchestrationAssumption
<1>3. t \in Context
  BY <1>1, <1>2, TransitionType DEF TypeOK
<1>4. /\ t.initial = st[r] /\ t.proposed = q.state /\ t.intended = q.state.type
      /\ t.run = run[r] /\ t.slots = slots /\ t.leases = leases
      /\ \A h \in HookRules : t.entered[h] = "INVALID"
  BY DEF Transition
<1> HIDE DEF t
<1>5. c.proposed.type = "NONE" /\ c.run = run[r] /\ c.slots = slots /\ c.leases = leases
  BY <1>1, <1>3, <1>4, DuplicateRejected DEF Created
<1> HIDE DEF c
<1>6. run' = run
  <2>1. Columns(run[r], c.run, run[r]) = run[r]
    BY <1>5 DEF Columns, Column, TypeOK, FlowRun
  <2> QED BY <1>1, <2>1 DEF Commit, TypeOK
<1> QED BY <1>1, <1>5, <1>6 DEF Commit

\* DuplicateLeavesNoTrace: PreventDuplicateTransitions rejects a request that was
\* served although its response was lost, before any rule takes a slot, renews a
\* lease or touches the policy of the run.
THEOREM DuplicatesLeaveNoTrace == Spec => DuplicateLeavesNoTrace
<1> DEFINE Sent == \A r \in Runs : Resends(r)
<1>1. Init => Sent
  BY DEF Init, Resends
<1>2. TypeOK /\ Sent /\ [Next]_vars => Sent'
  BY ResendsStep
<1>3. TypeOK /\ Sent /\ [Next]_vars =>
        \A r \in Runs : ResendRequest(r) /\ st[r].tid = retry[r].state.tid =>
          UNCHANGED <<st, run, slots, leases>>
  BY DuplicateStep
<1> HIDE DEF Sent
<1> QED BY TypeCorrect, <1>1, <1>2, <1>3, PTL DEF Spec, DuplicateLeavesNoTrace

---------------------------------------------------------------------------
(* Invariants of one run on SQLite, where no handler writes what another   *)
(* one has changed since it read it.                                       *)

\* What a handler has read and still writes is the run as it is, but for the
\* time it was scheduled for.
Current(r) ==
  reads[r].by \in {"resume", "expire"} =>
    /\ reads[r].run = run[r]
    /\ reads[r].state = [st[r] EXCEPT !.sched = reads[r].state.sched]
Resumes(r) == reads[r].by = "resume" => reads[r].state.type = "PAUSED"

\* Every retry was granted after a count that no earlier one was granted after.
MaxRetries == IF Retries > 0 THEN Retries ELSE 0
Attempts(r) ==
  /\ hist[r].used <= MaxRetries
  /\ hist[r].used <= run[r].count
  /\ st[r].type \in {"RUNNING", "PAUSED"} \/ run[r].policy.resuming =>
       hist[r].used < run[r].count

Ends(r) == run[r].ended <=> Terminal(st[r])
Pauses(r) == hist[r].fired \subseteq run[r].policy.pauseKeys

\* The transition t of r to p starts from the run as it is.
Rewrites(r, p, t, c, forced) ==
  /\ Begun(t) /\ Outcome(t, c) /\ Lets(t, c, forced)
  /\ t.intended = p.type /\ t.proposed = p /\ t.run = run[r]
  /\ t.initial.type = st[r].type /\ t.initial.reschedule = st[r].reschedule
  /\ \/ t.initial = st[r]
     \/ forced /\ p.type = "FAILED"
     \/ t.initial.type = "PAUSED"
  /\ run'[r].policy = c.run.policy
  /\ run'[r].count = c.run.count
  /\ run'[r].ended = c.run.ended
  /\ WritesState(r, t, c, forced)

LEMMA CurrentWritten ==
  ASSUME TypeOK, NEW r \in Runs, Current(r), Resumes(r),
         NEW s \in State, NEW d \in FlowRun, NEW p \in State, NEW client \in ClientVersions,
         NEW forced \in BOOLEAN, Transits(r, s, d, p, client, forced)
  PROVE  \E t, c : Rewrites(r, p, t, c, forced)
<1>1. PICK t, c : /\ Written(r, t, c, forced)
                  /\ t.initial = s /\ t.intended = p.type /\ t.proposed = p /\ t.run = d
  BY WriteOutcome DEF Transits
<1>2. /\ d = run[r] /\ s.type = st[r].type /\ s.reschedule = st[r].reschedule
      /\ s = st[r] \/ (forced /\ p.type = "FAILED") \/ s.type = "PAUSED"
  <2>1. CASE FromCurrent(r, s, d)
    BY <2>1 DEF FromCurrent
  <2>2. CASE FromRead(r, s, d, p, forced)
    <3>1. /\ s = reads[r].state /\ d = reads[r].run
          /\ reads[r].by \in {"resume", "expire"}
          /\ reads[r].by = "resume" \/ (forced /\ p.type = "FAILED")
      BY <2>2 DEF FromRead
    <3>2. d = run[r] /\ s = [st[r] EXCEPT !.sched = s.sched]
      BY <3>1 DEF Current
    <3>3. st[r] \in State
      BY DEF TypeOK
    <3>4. s.type = st[r].type /\ s.reschedule = st[r].reschedule
      <4> DEFINE x == s.sched
      <4>1. s = [st[r] EXCEPT !.sched = x]
        BY <3>2
      <4> HIDE DEF x
      <4> QED BY <3>3, <4>1 DEF State
    <3> QED BY <3>1, <3>2, <3>4 DEF Resumes
  <2> QED BY <2>1, <2>2 DEF Transits
<1>3. Rewrites(r, p, t, c, forced)
  BY <1>1, <1>2 DEF Rewrites, Written, WritesColumns
<1> QED BY <1>3

LEMMA AttemptsWritten ==
  ASSUME PausesOrchestrated, TypeOK, NEW r \in Runs, Attempts(r), NEW p \in State, NEW forced \in BOOLEAN,
         Proposes(r, p, forced), NEW t, NEW c, Rewrites(r, p, t, c, forced)
  PROVE  Attempts(r)'
<1>1. /\ hist[r].used \in Nat /\ run[r].count \in Nat /\ run'[r].count \in Nat
      /\ run'[r].count = c.run.count /\ run[r].count = t.run.count
      /\ run[r].count <= run'[r].count
      /\ MaxRetries \in Nat
  BY RulesAssumption DEF TypeOK, History, FlowRun, Rewrites, Outcome, Context, MaxRetries
<1>2. /\ run'[r].policy.resuming => run[r].policy.resuming \/ st[r].type = "PAUSED"
      /\ c.proposed.type = "RUNNING" =>
           run[r].count < run'[r].count \/ run[r].policy.resuming
  BY <1>1 DEF Rewrites, Outcome
<1>3. CASE c.proposed.type = "NONE"
  <2>1. st'[r] = st[r] /\ hist'[r] = hist[r]
    BY <1>3 DEF Rewrites, WritesState
  <2> QED BY <1>1, <1>2, <2>1 DEF Attempts
<1>4. CASE c.proposed.type # "NONE" /\ Retried(t, c)
  <2>1. /\ st'[r].type = "SCHEDULED" /\ ~run'[r].policy.resuming
        /\ st[r].type = "RUNNING" /\ run[r].count <= Retries
    BY <1>1, <1>4 DEF Rewrites, WritesState, Retried
  <2>2. hist'[r].used = hist[r].used + 1
    BY <1>1, <1>4, CountsRetries DEF Rewrites, WritesState, Recorded
  <2>3. hist[r].used < run[r].count
    BY <2>1 DEF Attempts
  <2>4. run[r].count <= MaxRetries
    BY <1>1, <2>1, <2>3, RulesAssumption DEF MaxRetries, NoRetries
  <2> QED BY <1>1, <2>1, <2>2, <2>3, <2>4 DEF Attempts
<1>5. CASE c.proposed.type # "NONE" /\ ~Retried(t, c)
  <2>1. st'[r] = c.proposed
    BY <1>5 DEF Rewrites, WritesState
  <2>2. hist'[r].used = hist[r].used
    BY <1>1, <1>5, CountsRetries DEF Rewrites, WritesState, Recorded
  <2>3. c.proposed.type = "PAUSED" => st[r].type = "RUNNING"
    <3>1. HAVE c.proposed.type = "PAUSED"
    <3>2. c.status = "ACCEPT" /\ Original(t, c)
      BY <3>1, OutcomeKinds DEF Rewrites, Substitute, Retried
    <3>3. p.type = "PAUSED"
      BY <3>1, <3>2 DEF Original, Rewrites
    <3>4. ~forced
      BY <3>3 DEF Proposes, PausesOrchestrated
    <3> QED BY <3>2, <3>3, <3>4 DEF Rewrites, Lets, Admitted
  <2> QED BY <1>1, <1>2, <2>1, <2>2, <2>3 DEF Attempts
<1> QED BY <1>3, <1>4, <1>5

LEMMA EndsWritten ==
  ASSUME NEW r \in Runs, Ends(r), NEW p, NEW forced, NEW t, NEW c,
         Rewrites(r, p, t, c, forced)
  PROVE  Ends(r)'
<1>1. /\ run'[r].ended = IF c.proposed.type = "NONE" THEN run[r].ended
                         ELSE IF Terminal(c.proposed) THEN TRUE
                         ELSE IF Terminal(st[r]) THEN FALSE
                         ELSE run[r].ended
      /\ st'[r] = IF c.proposed.type = "NONE" THEN st[r] ELSE c.proposed
  BY DEF Rewrites, Outcome, Terminal, WritesState
<1> QED BY <1>1 DEF Ends

LEMMA PausesWritten ==
  ASSUME TypeOK, NEW r \in Runs, Pauses(r), NEW p \in State, NEW forced \in BOOLEAN,
         Proposes(r, p, forced), NEW t, NEW c, Rewrites(r, p, t, c, forced)
  PROVE  Pauses(r)'
<1> DEFINE keys == {c.proposed.key} \cap Keys
           retried == /\ t.initial.type = "RUNNING" /\ c.proposed.name = "AwaitingRetry"
                      /\ c.status = "REJECT"
           anew == StartsAttempt(t.initial, c.proposed, retried)
           first == IF anew THEN {} ELSE hist[r].fired
<1>1. /\ run'[r].policy.pauseKeys = c.run.policy.pauseKeys
      /\ \/ run[r].policy.pauseKeys \subseteq c.run.policy.pauseKeys
         \/ Retried(t, c) \/ Restarted(t, c) \/ Rescheduled(t, c)
      /\ hist[r].fired \subseteq run[r].policy.pauseKeys
  BY DEF Rewrites, Outcome, Pauses
<1>2. CASE c.proposed.type = "NONE"
  <2>1. hist'[r] = hist[r]
    BY <1>2 DEF Rewrites, WritesState
  <2>2. ~Retried(t, c) /\ ~Restarted(t, c) /\ ~Rescheduled(t, c)
    BY <1>2 DEF Retried, Restarted, Rescheduled
  <2> QED BY <1>1, <2>1, <2>2 DEF Pauses
<1>3. CASE c.proposed.type # "NONE"
  <2>1. hist'[r].fired = IF c.proposed.type = "PAUSED" /\ ~forced THEN first \cup keys ELSE first
    <3>1. hist'[r] = Recorded(hist[r], t.initial, c, forced)
      BY <1>3 DEF Rewrites, WritesState
    <3>2. Recorded(hist[r], t.initial, c, forced).fired =
            IF c.proposed.type = "PAUSED" /\ ~forced THEN first \cup keys ELSE first
      BY DEF Recorded, StartsAttempt
    <3> QED BY <3>1, <3>2
  <2>2. first \subseteq c.run.policy.pauseKeys
    <3>1. Retried(t, c) => retried
      BY <1>3, CountsRetries DEF Rewrites
    <3>2. Retried(t, c) \/ Restarted(t, c) \/ Rescheduled(t, c) => anew
      BY <3>1 DEF StartsAttempt, Restarted, Rescheduled
    <3> QED BY <1>1, <3>2
  <2>3. c.proposed.type = "PAUSED" /\ ~forced => keys \subseteq c.run.policy.pauseKeys
    <3>1. HAVE c.proposed.type = "PAUSED" /\ ~forced
    <3>2. c.status = "ACCEPT" /\ Original(t, c)
      BY <3>1, OutcomeKinds DEF Rewrites, Substitute, Retried
    <3>3. p.type = "PAUSED" /\ c.proposed.key = t.proposed.key
      BY <3>1, <3>2 DEF Original, Rewrites
    <3> QED BY <3>1, <3>2, <3>3 DEF Rewrites, Lets
  <2> HIDE DEF first, keys
  <2> QED BY <1>1, <2>1, <2>2, <2>3 DEF Pauses
<1> QED BY <1>2, <1>3

\* A client that proposes Pending leaves the scheduled time to CopyScheduledTime.
TimelyClients == \A q \in Requests : q.state.type = "PENDING" => q.state.sched = "none"

\* A run that waits still carries the time it waits for, unless it is being
\* cancelled.
Waits(r) ==
  hist[r].waiting =>
    /\ st[r].type \in {"SCHEDULED", "PENDING", "CANCELLING"}
    /\ st[r].type # "CANCELLING" => st[r].sched = "future"

\* A type that no rule puts in the place of another.
LEMMA OwnProposal ==
  ASSUME NEW r, NEW p, NEW t, NEW c, NEW forced, Rewrites(r, p, t, c, forced),
         c.proposed.type \in {"PENDING", "RUNNING", "PAUSED", "CANCELLING"}
  PROVE  /\ c.status = "ACCEPT" /\ Original(t, c) /\ p.type = c.proposed.type
         /\ ~forced => Admitted(t, c)
<1>1. c.status = "ACCEPT" /\ Original(t, c)
  BY OutcomeKinds DEF Rewrites, Substitute, Retried
<1> QED BY <1>1 DEF Original, Rewrites, Lets

LEMMA WaitsWritten ==
  ASSUME TimelyClients, TypeOK, NEW r \in Runs, Waits(r),
         NEW p \in State, NEW forced \in BOOLEAN,
         Proposes(r, p, forced), NEW t, NEW c, Rewrites(r, p, t, c, forced)
  PROVE  Waits(r)'
<1> DEFINE begins == Terminal(c.proposed) \/ c.proposed.type = "SCHEDULED" \/ forced
<1>0. c.proposed \in State
  BY DEF Rewrites, Outcome, Context
<1>1. CASE c.proposed.type = "NONE"
  <2>1. st'[r] = st[r] /\ hist'[r] = hist[r]
    BY <1>1 DEF Rewrites, WritesState
  <2> QED BY <2>1 DEF Waits
<1>2. CASE c.proposed.type # "NONE" /\ begins
  <2>1. /\ st'[r] = c.proposed
        /\ hist'[r] = Recorded(hist[r], t.initial, c, forced)
    BY <1>2 DEF Rewrites, WritesState
  <2>2. Recorded(hist[r], t.initial, c, forced).waiting =
          IF begins THEN c.proposed.type = "SCHEDULED" /\ c.proposed.sched = "future"
                    ELSE hist[r].waiting
    BY DEF Recorded
  <2>3. hist'[r].waiting => c.proposed.type = "SCHEDULED" /\ c.proposed.sched = "future"
    BY <1>2, <2>1, <2>2
  <2> QED BY <2>1, <2>3 DEF Waits
<1>3. CASE c.proposed.type # "NONE" /\ ~begins
  <2>1. /\ st'[r] = c.proposed
        /\ hist'[r] = Recorded(hist[r], t.initial, c, forced)
    BY <1>3 DEF Rewrites, WritesState
  <2>2. hist'[r].waiting => hist[r].waiting
    BY <1>3, <2>1 DEF Recorded
  <2>3. c.proposed.type \in {"PENDING", "RUNNING", "PAUSED", "CANCELLING"} /\ ~forced
    BY <1>0, <1>3 DEF Terminal, TerminalTypes, State, AllTypes, StateTypes
  <2>4. Original(t, c) /\ p.type = c.proposed.type /\ Admitted(t, c)
    BY <2>3, OwnProposal
  <2>5. t.intended = p.type /\ t.proposed = p
    BY DEF Rewrites
  <2>6. ASSUME hist[r].waiting
        PROVE  /\ c.proposed.type \in {"PENDING", "CANCELLING"}
               /\ c.proposed.type # "CANCELLING" => c.proposed.sched = "future"
    <3>1. /\ st[r].type \in {"SCHEDULED", "PENDING", "CANCELLING"}
          /\ st[r].type # "CANCELLING" => st[r].sched = "future"
      BY <2>6 DEF Waits
    <3>2. t.initial = st[r] /\ t.initial.type # "CANCELLING"
      <4>1. t.initial.type = st[r].type
        BY DEF Rewrites
      <4>2. t.initial.type # "CANCELLING"
        BY <2>3, <2>4, <2>5 DEF Admitted
      <4> QED BY <2>3, <3>1, <4>1, <4>2 DEF Rewrites
    <3>3. t.initial.type \in {"SCHEDULED", "PENDING"} /\ t.initial.sched = "future"
      BY <3>1, <3>2
    <3>4. p.type # "RUNNING" /\ p.type # "PAUSED"
      BY <2>4, <2>5, <3>3 DEF Admitted
    <3>5. p.type = "PENDING" => c.proposed.sched = "future"
      <4>1. HAVE p.type = "PENDING"
      <4>2. p.sched = "none"
        BY <2>3, <4>1 DEF Proposes, TimelyClients
      <4> QED BY <2>4, <2>5, <3>3, <4>1, <4>2 DEF Admitted
    <3> QED BY <2>3, <2>4, <3>4, <3>5
  <2> QED BY <2>1, <2>2, <2>6 DEF Waits
<1> QED BY <1>1, <1>2, <1>3

\* The steps of r that write no outcome.
LEMMA QuietStep ==
  ASSUME SnapshotReads, TypeOK, NEW r \in Runs, Absent(r), Current(r), Resumes(r), [Next]_vars,
         \A s \in State, d \in FlowRun, p \in State, client \in ClientVersions,
            forced \in BOOLEAN : ~Transits(r, s, d, p, client, forced)
  PROVE  /\ Current(r)' /\ Resumes(r)'
         /\ \/ /\ st'[r] = NoState /\ run'[r] = NewRun /\ hist'[r] = NewHistory
               /\ DeleteFlowRun(r)
            \/ /\ run'[r].policy = run[r].policy /\ run'[r].count = run[r].count
               /\ run'[r].ended = run[r].ended
               /\ st'[r].type = st[r].type
               /\ hist'[r].used = hist[r].used /\ hist'[r].fired = hist[r].fired
               /\ hist'[r].waiting => hist[r].waiting /\ st'[r].sched = st[r].sched
<1>1. StepOf(r)
  BY StepKinds
<1>0. /\ st[r] \in State /\ run[r] \in FlowRun /\ hist[r] \in History
      /\ reads[r] \in [by: Readers, state: State, run: FlowRun]
      /\ NoRead.by = "none" /\ NoState.sched = "none" /\ NoState.timeout = "none"
      /\ NoRead.state = NoState
  BY DEF TypeOK, NoRead, NoState, NewState
<1>2. CASE Untouched(r)
  BY <1>0, <1>2 DEF Untouched, Current, Resumes
<1>3. CASE Reading(r)
  <2>1. /\ reads'[r].state = st'[r] /\ reads'[r].run = run'[r] /\ st'[r] = st[r]
    BY <1>3 DEF Reading
  <2>2. st[r] = [st[r] EXCEPT !.sched = st[r].sched]
    BY <1>0 DEF State
  <2> QED BY <1>3, <2>1, <2>2 DEF Reading, Current, Resumes
<1>4. CASE SetInfrastructurePid(r)
  <2>1. /\ st'[r] = st[r] /\ hist'[r] = hist[r] /\ reads'[r] = reads[r]
        /\ run'[r] = [run[r] EXCEPT !.pid = TRUE]
        /\ reads[r].by \notin {"resume", "expire"}
    BY <1>4 DEF SetInfrastructurePid, Unheld, TypeOK
  <2>2. /\ run'[r].policy = run[r].policy /\ run'[r].count = run[r].count
        /\ run'[r].ended = run[r].ended
    BY <1>0, <2>1 DEF FlowRun
  <2> QED BY <2>1, <2>2 DEF Current, Resumes
<1>5. CASE DeleteFlowRun(r)
  <2>1. /\ st'[r] = NoState /\ hist'[r] = NewHistory /\ reads'[r] = NoRead
        /\ run'[r] = NewRun
    BY <1>5 DEF DeleteFlowRun, TypeOK
  <2> QED BY <1>0, <1>5, <2>1 DEF Current, Resumes
<1>6. CASE ScheduledTimePasses(r)
  <2>1. /\ st'[r] = [st[r] EXCEPT !.sched = "past"] /\ run' = run /\ reads' = reads
        /\ hist'[r] = [hist[r] EXCEPT !.waiting = FALSE]
    BY <1>6 DEF ScheduledTimePasses, TypeOK
  <2>2. st'[r].type = st[r].type
    BY <1>0, <2>1 DEF State
  <2>3. hist'[r].used = hist[r].used /\ hist'[r].fired = hist[r].fired /\ ~hist'[r].waiting
    BY <1>0, <2>1 DEF History
  <2>4. \A x : [st'[r] EXCEPT !.sched = x] = [st[r] EXCEPT !.sched = x]
    BY <1>0, <2>1 DEF State
  <2> QED BY <2>1, <2>2, <2>3, <2>4 DEF Current, Resumes
<1>7. CASE PauseTimeoutElapses(r)
  <2> DEFINE elapse(s) == [s EXCEPT !.timeout = IF @ = "pending" THEN "elapsed" ELSE @]
  <2>1. /\ st'[r] = elapse(st[r]) /\ run' = run /\ hist' = hist
        /\ reads'[r] = [reads[r] EXCEPT !.state = elapse(reads[r].state)]
    BY <1>7 DEF PauseTimeoutElapses, TypeOK
  <2>2. st'[r].type = st[r].type /\ st'[r].sched = st[r].sched
    BY <1>0, <2>1 DEF State
  <2>3. /\ reads'[r].by = reads[r].by /\ reads'[r].run = reads[r].run
        /\ reads'[r].state = elapse(reads[r].state)
        /\ reads'[r].state.type = reads[r].state.type
        /\ reads'[r].state.sched = reads[r].state.sched
    BY <1>0, <2>1 DEF State
  <2>4. \A x : elapse([st[r] EXCEPT !.sched = x]) = [elapse(st[r]) EXCEPT !.sched = x]
    BY <1>0 DEF State
  <2>5. Current(r)'
    <3> HIDE DEF elapse
    <3>1. ASSUME reads'[r].by \in {"resume", "expire"}
          PROVE  /\ reads'[r].run = run'[r]
                 /\ reads'[r].state = [st'[r] EXCEPT !.sched = reads'[r].state.sched]
      <4> DEFINE x == reads[r].state.sched
      <4>1. reads[r].run = run[r] /\ reads[r].state = [st[r] EXCEPT !.sched = x]
        BY <2>3, <3>1 DEF Current
      <4>2. reads'[r].state.sched = x
        BY <2>3
      <4> HIDE DEF x
      <4> QED BY <2>1, <2>3, <2>4, <4>1, <4>2
    <3> QED BY <3>1 DEF Current
  <2> QED BY <2>1, <2>2, <2>3, <2>5 DEF Resumes
<1> QED BY <1>1, <1>2, <1>3, <1>4, <1>5, <1>6, <1>7 DEF StepOf

LEMMA CurrentKept ==
  ASSUME TypeOK, SnapshotReads, NEW r \in Runs, Absent(r), Current(r), Resumes(r),
         NEW s, NEW d, NEW p, NEW client, NEW forced, Transits(r, s, d, p, client, forced)
  PROVE  Current(r)' /\ Resumes(r)'
<1>1. reads'[r] = NoRead \/ (reads'[r] = reads[r] /\ reads[r].by \notin {"resume", "expire"})
  BY DEF Transits, FromCurrent, FromRead, Unheld, Absent, NoRead
<1>2. NoRead.by = "none"
  BY DEF NoRead
<1> QED BY <1>1, <1>2 DEF Current, Resumes

\* The invariant of the runs on SQLite.
Held(r) ==
  /\ Current(r) /\ Resumes(r)
  /\ PausesOrchestrated => Attempts(r)
  /\ Ends(r) /\ Pauses(r)

LEMMA HeldStep ==
  ASSUME SnapshotReads, TypeOK, NEW r \in Runs, Absent(r), Held(r), [Next]_vars
  PROVE  Held(r)'
<1> USE DEF Held
<1>1. ASSUME NEW s \in State, NEW d \in FlowRun, NEW p \in State, NEW client \in ClientVersions,
             NEW forced \in BOOLEAN, Transits(r, s, d, p, client, forced)
      PROVE  Held(r)'
  <2>1. PICK t, c : Rewrites(r, p, t, c, forced)
    BY <1>1, CurrentWritten
  <2>2. Proposes(r, p, forced)
    BY <1>1 DEF Transits
  <2>3. Current(r)' /\ Resumes(r)'
    BY <1>1, CurrentKept
  <2>4. PausesOrchestrated => Attempts(r)'
    BY <2>1, <2>2, AttemptsWritten
  <2>5. Ends(r)'
    BY <2>1, EndsWritten
  <2>6. Pauses(r)'
    BY <2>1, <2>2, PausesWritten
  <2> QED BY <2>3, <2>4, <2>5, <2>6
<1>2. CASE \A s \in State, d \in FlowRun, p \in State, client \in ClientVersions,
              forced \in BOOLEAN : ~Transits(r, s, d, p, client, forced)
  <2>1. /\ Current(r)' /\ Resumes(r)'
        /\ \/ st'[r] = NoState /\ run'[r] = NewRun /\ hist'[r] = NewHistory
           \/ /\ run'[r].policy = run[r].policy /\ run'[r].count = run[r].count
              /\ run'[r].ended = run[r].ended
              /\ st'[r].type = st[r].type
              /\ hist'[r].used = hist[r].used /\ hist'[r].fired = hist[r].fired
    BY <1>2, QuietStep
  <2>2. CASE st'[r] = NoState /\ run'[r] = NewRun /\ hist'[r] = NewHistory
    <3>1. /\ st'[r].type = "NONE" /\ run'[r].count = 0 /\ ~run'[r].ended
          /\ ~run'[r].policy.resuming /\ hist'[r].used = 0 /\ hist'[r].fired = {}
      BY <2>2, NoStateType DEF NewRun, NewPolicy, NewHistory
    <3>2. MaxRetries \in Nat
      BY RulesAssumption DEF MaxRetries, NoRetries
    <3> QED BY <2>1, <3>1, <3>2 DEF Attempts, Ends, Pauses, Terminal, TerminalTypes
  <2>3. CASE /\ run'[r].policy = run[r].policy /\ run'[r].count = run[r].count
             /\ run'[r].ended = run[r].ended
             /\ st'[r].type = st[r].type
             /\ hist'[r].used = hist[r].used /\ hist'[r].fired = hist[r].fired
    <3>1. PausesOrchestrated => Attempts(r)'
      BY <2>3 DEF Attempts
    <3>2. Ends(r)' /\ Pauses(r)'
      BY <2>3 DEF Ends, Pauses, Terminal
    <3> QED BY <2>1, <3>1, <3>2
  <2> QED BY <2>1, <2>2, <2>3
<1> QED BY <1>1, <1>2

HeldInv == SnapshotReads => \A r \in Runs : Held(r)

LEMMA HeldAlways == Spec => [](TypeOK /\ LifeInv /\ HeldInv)
<1>1. Init => HeldInv
  <2>1. ASSUME Init, NEW r \in Runs
        PROVE  Held(r)
    <3>1. /\ st[r].type = "NONE" /\ run[r].count = 0 /\ ~run[r].ended
          /\ ~run[r].policy.resuming /\ hist[r].used = 0 /\ hist[r].fired = {}
          /\ reads[r].by = "none"
      BY <2>1, NoStateType DEF Init, NewRun, NewPolicy, NewHistory, NoRead
    <3>2. MaxRetries \in Nat
      BY RulesAssumption DEF MaxRetries, NoRetries
    <3> QED BY <3>1, <3>2
            DEF Held, Current, Resumes, Attempts, Ends, Pauses, Terminal, TerminalTypes
  <2> QED BY <2>1 DEF HeldInv
<1>2. TypeOK /\ LifeInv /\ HeldInv /\ [Next]_vars => HeldInv'
  BY HeldStep DEF HeldInv, LifeInv
<1> QED BY LifeAlways, <1>1, <1>2, PTL DEF Spec

\* RetriesBounded: RetryFailedFlows grants no more retries than the flow has,
\* over all attempts of the run: each is granted after a count of its own, which
\* neither pauses nor suspensions, reruns or forced states other than pauses
\* reset.
THEOREM RetriesAlwaysBounded == Spec => []RetriesBounded
<1>1. HeldInv => RetriesBounded
  BY DEF HeldInv, Held, Attempts, MaxRetries, RetriesBounded
<1> QED BY HeldAlways, <1>1, PTL

\* EndTimeMatchesState: whatever policy a transition goes through, SetEndTime
\* leaves the run with an end time exactly when its state is terminal.
THEOREM EndTimesMatch == Spec => []EndTimeMatchesState
<1>1. HeldInv => EndTimeMatchesState
  BY DEF HeldInv, Held, Ends, EndTimeMatchesState
<1> QED BY HeldAlways, <1>1, PTL

\* FiredPausesRemembered: the pause keys that HandlePausingFlows looks up hold
\* every keyed pause it granted in the attempt, across resumptions, suspensions and
\* transitions that are rejected, aborted or cleaned up.
THEOREM PausesRemembered == Spec => []FiredPausesRemembered
<1>1. HeldInv => FiredPausesRemembered
  BY DEF HeldInv, Held, Pauses, FiredPausesRemembered
<1> QED BY HeldAlways, <1>1, PTL

\* NeverEarly: no sequence of named Pending states, late marks, resumptions or
\* cancellations loses the time a run waits for before it is Running, if
\* clients leave the time of a Pending state to CopyScheduledTime.
THEOREM RunNeverStartsEarly ==
  ASSUME TimelyClients
  PROVE  Spec => []NeverEarly
<1> DEFINE Waiting == SnapshotReads => \A r \in Runs : Waits(r)
<1>1. Init => Waiting
  BY DEF Init, Waits, NewHistory
<1>2. TypeOK /\ LifeInv /\ HeldInv /\ Waiting /\ [Next]_vars => Waiting'
  <2> SUFFICES ASSUME SnapshotReads, TypeOK, LifeInv, HeldInv, Waiting, [Next]_vars,
                      NEW r \in Runs
               PROVE  Waits(r)'
    OBVIOUS
  <2>1. Waits(r) /\ Absent(r) /\ Current(r) /\ Resumes(r)
    BY DEF LifeInv, HeldInv, Held
  <2>2. ASSUME NEW s \in State, NEW d \in FlowRun, NEW p \in State,
               NEW client \in ClientVersions, NEW forced \in BOOLEAN,
               Transits(r, s, d, p, client, forced)
        PROVE  Waits(r)'
    <3>1. PICK t, c : Rewrites(r, p, t, c, forced)
      BY <2>1, <2>2, CurrentWritten
    <3> QED BY <2>1, <2>2, <3>1, WaitsWritten DEF Transits
  <2>3. CASE \A s \in State, d \in FlowRun, p \in State, client \in ClientVersions,
                forced \in BOOLEAN : ~Transits(r, s, d, p, client, forced)
    <3>1. \/ hist'[r] = NewHistory
          \/ /\ st'[r].type = st[r].type
             /\ hist'[r].waiting => hist[r].waiting /\ st'[r].sched = st[r].sched
      BY <2>1, <2>3, QuietStep
    <3> QED BY <2>1, <3>1 DEF Waits, NewHistory
  <2> QED BY <2>2, <2>3
<1>3. Waiting => NeverEarly
  BY DEF Waits, NeverEarly
<1> HIDE DEF Waiting
<1> QED BY HeldAlways, <1>1, <1>2, <1>3, PTL DEF Spec

LEMMA CancellingStep ==
  ASSUME SnapshotReads, TypeOK, NEW r \in Runs, Absent(r), Current(r), Resumes(r),
         [Next]_vars, st[r].type = "CANCELLING"
  PROVE  \/ st'[r].type = "CANCELLING" \/ Terminal(st'[r])
         \/ DeleteFlowRun(r)
         \/ \E p \in Restarts : ForceFlowRunState(r, p)
<1>1. ASSUME NEW s \in State, NEW d \in FlowRun, NEW p \in State, NEW client \in ClientVersions,
             NEW forced \in BOOLEAN, Transits(r, s, d, p, client, forced)
      PROVE  \/ st'[r].type = "CANCELLING" \/ Terminal(st'[r])
             \/ \E q \in Restarts : ForceFlowRunState(r, q)
  <2>1. PICK t, c : Rewrites(r, p, t, c, forced)
    BY <1>1, CurrentWritten
  <2>2. CASE c.proposed.type \in {"NONE", "CANCELLING"} \/ Terminal(c.proposed)
    BY <2>1, <2>2 DEF Rewrites, WritesState
  <2>3. CASE c.proposed.type \notin {"NONE", "CANCELLING"} /\ ~Terminal(c.proposed)
    <3>1. t.initial.type = "CANCELLING" /\ t.intended = p.type /\ t.intended \in StateTypes
      BY <2>1 DEF Rewrites, Begun, Context
    <3>2. c.status = "ACCEPT" /\ Original(t, c)
      <4>1. ~Substitute(t, c.proposed) /\ ~Retried(t, c)
        BY <2>3, <3>1 DEF Substitute, Retried, Terminal, TerminalTypes
      <4> QED BY <2>1, <4>1, OutcomeKinds DEF Rewrites
    <3>3. p.type = c.proposed.type
      BY <3>1, <3>2 DEF Original
    <3>4. forced
      BY <2>1, <2>3, <3>1, <3>2, <3>3 DEF Rewrites, Lets, Admitted, Terminal, TerminalTypes
    <3>5. p.type \in {"SCHEDULED", "PENDING", "RUNNING", "PAUSED"}
      BY <2>3, <3>1, <3>3 DEF StateTypes, Terminal, TerminalTypes
    <3>6. p \in Restarts /\ ForceFlowRunState(r, p)
      BY <1>1, <2>1, <3>1, <3>4, <3>5
         DEF Transits, Proposes, Created, Restarts, Rewrites, Terminal, TerminalTypes
    <3> QED BY <3>6
  <2> QED BY <2>2, <2>3
<1>2. CASE \A s \in State, d \in FlowRun, p \in State, client \in ClientVersions,
              forced \in BOOLEAN : ~Transits(r, s, d, p, client, forced)
  <2>1. DeleteFlowRun(r) \/ st'[r].type = st[r].type
    BY <1>2, QuietStep
  <2> QED BY <2>1
<1> QED BY <1>1, <1>2

\* CancellationSticks: no worker, engine, resumption, late mark or retry brings
\* a run back that is being cancelled; only a client that forces it into another
\* state does, or the run is deleted.
THEOREM CancellationsStick == Spec => CancellationSticks
<1>1. TypeOK /\ LifeInv /\ HeldInv /\ [Next]_vars =>
        (SnapshotReads => \A r \in Runs : st[r].type = "CANCELLING" =>
           \/ st'[r].type = "CANCELLING" \/ Terminal(st'[r])
           \/ DeleteFlowRun(r)
           \/ \E p \in Restarts : ForceFlowRunState(r, p))
  BY CancellingStep DEF LifeInv, HeldInv, Held
<1> QED BY HeldAlways, <1>1, PTL DEF Spec, CancellationSticks
=============================================================================
