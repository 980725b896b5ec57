---------------------- MODULE WorkerCleanupQueueProofs ----------------------
(***************************************************************************)
(* Proofs about WorkerCleanupQueue, for all values of its constants: types,*)
(* that the queue implements CleanupLifecycle, that only what was cleaned  *)
(* is acknowledged, that whoever is connected has a dispatch task, and     *)
(* that the registry knows every live reservation a worker is busy with.   *)
(***************************************************************************)
EXTENDS WorkerCleanupQueue, FiniteSetTheorems, TLAPS

-----------------------------------------------------------------------------
(* One entry of the queue                                                   *)

\* What holds of every entry: a reservation is the last one that was issued,
\* only active messages are reserved, and attempts are left for free ones.
Sound(r) ==
  /\ r \in QueueEntries
  /\ r.token \in {0, r.issued}
  /\ r.place # "active" => r.token = 0
  /\ r.place = "active" => r.count <= MaxDeliveryAttempts
  /\ r.place = "active" /\ r.token = 0 => r.count < MaxDeliveryAttempts

QueueInv == \A m \in Messages : Sound(queue[m])

StatusOf(r) ==
  IF r.place # "active" THEN r.place ELSE IF r.token = 0 THEN "waiting" ELSE "held"

\* The steps of CleanupLifecycle, from entry r to entry s, and a reservation is
\* the old one or has a number of its own.
Steps(r, s) ==
  /\ s.issued >= r.issued
  /\ Held(s) => (Held(r) /\ s.token = r.token) \/ s.token > r.issued
  /\ \/ /\ StatusOf(r) \in {"absent"} \cup (IF Retention THEN {"acked"} ELSE {})
        /\ StatusOf(s) = "waiting" /\ s.count = 0
     \/ /\ StatusOf(r) \in {"waiting", "held"} /\ StatusOf(s) = "held"
        /\ r.count < MaxDeliveryAttempts /\ s.count = r.count + 1
     \/ /\ StatusOf(r) = "held" /\ StatusOf(s) = "waiting"
        /\ r.count < MaxDeliveryAttempts /\ s.count = r.count
     \/ StatusOf(r) = "held" /\ StatusOf(s) = "acked" /\ s.count = r.count
     \/ /\ StatusOf(r) = "held" /\ StatusOf(s) = "dead"
        /\ r.count = MaxDeliveryAttempts /\ s.count = r.count
     \/ StatusOf(s) = StatusOf(r) /\ s.count = r.count

\* What the operations do to the fields of an entry
LEMMA Fields ==
  ASSUME NEW r \in QueueEntries
  PROVE  /\ LET s == GivenBack(r) IN
            /\ s \in QueueEntries /\ s.token = 0
            /\ s.count = r.count /\ s.issued = r.issued
            /\ s.place = IF r.count >= MaxDeliveryAttempts THEN "dead" ELSE r.place
         /\ LET s == [r EXCEPT !.place = "acked", !.token = 0] IN
            /\ s \in QueueEntries /\ s.token = 0 /\ s.place = "acked"
            /\ s.count = r.count /\ s.issued = r.issued
         /\ LET s == Reserve(r) IN
            /\ s \in QueueEntries /\ s.token = r.issued + 1 /\ s.place = r.place
            /\ s.count = r.count + 1 /\ s.issued = r.issued + 1
<1>1. /\ r.place \in {"absent", "active", "acked", "dead"}
      /\ r.count \in Nat /\ r.issued \in Nat /\ r.token \in Nat
  BY DEF QueueEntries
<1>2. /\ GivenBack(r) \in QueueEntries /\ GivenBack(r).token = 0
      /\ GivenBack(r).count = r.count /\ GivenBack(r).issued = r.issued
      /\ GivenBack(r).place = IF r.count >= MaxDeliveryAttempts THEN "dead" ELSE r.place
  BY <1>1 DEF GivenBack, QueueEntries
<1>3. LET s == [r EXCEPT !.place = "acked", !.token = 0] IN
        /\ s \in QueueEntries /\ s.token = 0 /\ s.place = "acked"
        /\ s.count = r.count /\ s.issued = r.issued
  BY <1>1 DEF QueueEntries
<1>4. ASSUME NEW a \in Nat, NEW b \in Nat
      PROVE  LET s == [r EXCEPT !.count = a, !.issued = b, !.token = b] IN
               /\ s \in QueueEntries /\ s.token = b /\ s.place = r.place
               /\ s.count = a /\ s.issued = b
  BY DEF QueueEntries
<1>5. r.count + 1 \in Nat /\ r.issued + 1 \in Nat
  BY <1>1
<1>6. LET s == Reserve(r) IN
        /\ s \in QueueEntries /\ s.token = r.issued + 1 /\ s.place = r.place
        /\ s.count = r.count + 1 /\ s.issued = r.issued + 1
  BY <1>4, <1>5 DEF Reserve
<1> QED BY <1>2, <1>3, <1>6

LEMMA SoundFields ==
  ASSUME NEW r, Sound(r)
  PROVE  /\ r \in QueueEntries
         /\ r.place \in {"absent", "active", "acked", "dead"}
         /\ r.count \in Nat /\ r.issued \in Nat /\ r.token \in Nat
  BY DEF Sound, QueueEntries

\* Giving a reservation back is a step: the message waits or is given up.
LEMMA GivenBackSteps ==
  ASSUME NEW r, Sound(r), Held(r)
  PROVE  Sound(GivenBack(r)) /\ Steps(r, GivenBack(r))
<1> DEFINE s == GivenBack(r)
<1>1. /\ s \in QueueEntries /\ s.token = 0 /\ s.count = r.count /\ s.issued = r.issued
      /\ s.place = IF r.count >= MaxDeliveryAttempts THEN "dead" ELSE r.place
  BY SoundFields, Fields
<1> HIDE DEF s
<1>2. Sound(s)
  BY <1>1, SoundFields, CleanupAssumption DEF Sound, Held
<1>3. Steps(r, s)
  BY <1>1, SoundFields, CleanupAssumption DEF Sound, Held, Steps, StatusOf
<1> QED BY <1>2, <1>3 DEF s

\* So is acknowledging it.
LEMMA AckedSteps ==
  ASSUME NEW r, Sound(r), Held(r), NEW s, s = [r EXCEPT !.place = "acked", !.token = 0]
  PROVE  Sound(s) /\ Steps(r, s)
<1>1. /\ s \in QueueEntries /\ s.token = 0 /\ s.place = "acked" /\ s.count = r.count
  BY SoundFields, Fields
<1>2. Sound(s)
  BY <1>1 DEF Sound
<1>3. Steps(r, s)
  BY <1>1, SoundFields DEF Held, Steps, StatusOf
<1> QED BY <1>2, <1>3

\* A free message that is reserved is delivered once more.
LEMMA ReserveSteps ==
  ASSUME NEW r, Sound(r), r.place = "active", r.token = 0
  PROVE  Sound(Reserve(r)) /\ Steps(r, Reserve(r)) /\ Held(Reserve(r))
<1> DEFINE s == Reserve(r)
<1>1. /\ s \in QueueEntries /\ s.token = r.issued + 1 /\ s.place = "active"
      /\ s.count = r.count + 1 /\ s.issued = r.issued + 1
  BY SoundFields, Fields
<1> HIDE DEF s
<1>2. Sound(s) /\ Held(s)
  BY <1>1, SoundFields, CleanupAssumption DEF Sound, Held
<1>3. Steps(r, s)
  BY <1>1, <1>2, SoundFields DEF Sound, Held, Steps, StatusOf
<1> QED BY <1>2, <1>3 DEF s

LEMMA RestSteps ==
  ASSUME NEW r, Sound(r)
  PROVE  Steps(r, r)
  BY SoundFields DEF Steps, StatusOf

\* A delivery may follow the return of the same message in one step.
LEMMA ReserveGivenBackSteps ==
  ASSUME NEW r, Sound(r), Held(r), GivenBack(r).place = "active"
  PROVE  Sound(Reserve(GivenBack(r))) /\ Steps(r, Reserve(GivenBack(r)))
<1> DEFINE s == GivenBack(r)
           u == Reserve(s)
<1>1. s.token = 0 /\ s.count = r.count /\ s.place = "active" /\ s.issued = r.issued
  BY SoundFields, Fields
<1>2. Sound(s)
  BY GivenBackSteps
<1> HIDE DEF s
<1>3. Sound(u) /\ Held(u) /\ u.count = s.count + 1 /\ u.token = s.issued + 1
      /\ u.issued = s.issued + 1
  BY <1>1, <1>2, ReserveSteps, SoundFields, Fields
<1> HIDE DEF u
<1>4. s.count < MaxDeliveryAttempts
  BY <1>1, <1>2 DEF Sound
<1>5. Steps(r, u)
  BY <1>1, <1>3, <1>4, SoundFields DEF Held, Steps, StatusOf
<1> QED BY <1>3, <1>5 DEF s, u

-----------------------------------------------------------------------------
(* The queue                                                                *)

\* The tokens whose acknowledgement is on its way
AcksSent ==
  {t \in Tokens : \E w \in Workers : \E f \in toServer[w] : f.kind = "ack" /\ f.token = t}

\* An entry that is acked was so, or its last delivery is acknowledged now.
Completion(m) ==
  queue'[m].place = "acked" =>
    /\ queue'[m].issued = queue[m].issued
    /\ queue[m].place = "acked" \/ <<m, queue[m].issued>> \in AcksSent

QueueSteps ==
  /\ queue' \in [Messages -> QueueEntries]
  /\ QueueInv'
  /\ \A m \in Messages : Steps(queue[m], queue'[m]) /\ Completion(m)

LEMMA UnchangedSteps ==
  ASSUME TypeOK, QueueInv, UNCHANGED queue
  PROVE  QueueSteps
<1>1. queue' \in [Messages -> QueueEntries] /\ QueueInv'
  BY DEF TypeOK, QueueInv
<1>2. ASSUME NEW m \in Messages PROVE Steps(queue[m], queue'[m]) /\ Completion(m)
  BY RestSteps DEF QueueInv, Completion
<1> QED BY <1>1, <1>2 DEF QueueSteps

\* A step that replaces one entry
LEMMA OneEntrySteps ==
  ASSUME TypeOK, QueueInv, NEW m \in Messages, NEW s,
         queue' = [queue EXCEPT ![m] = s],
         Sound(s), Steps(queue[m], s),
         s.place = "acked" => /\ s.issued = queue[m].issued
                              /\ queue[m].place = "acked" \/ <<m, queue[m].issued>> \in AcksSent
  PROVE  QueueSteps
<1>1. \A n \in Messages : queue'[n] = IF n = m THEN s ELSE queue[n]
  BY DEF TypeOK
<1>2. queue' \in [Messages -> QueueEntries]
  BY DEF TypeOK, Sound
<1>3. QueueInv'
  BY <1>1 DEF QueueInv
<1>4. ASSUME NEW n \in Messages PROVE Steps(queue[n], queue'[n]) /\ Completion(n)
  BY <1>1, RestSteps DEF QueueInv, Completion
<1> QED BY <1>2, <1>3, <1>4 DEF QueueSteps

LEMMA OperateSteps ==
  ASSUME TypeOK, QueueInv, NEW kind, NEW t \in Tokens, Operate(kind, t),
         kind = "ack" => t \in AcksSent
  PROVE  QueueSteps
<1>1. CASE ~Current(queue, t)
  BY <1>1, UnchangedSteps DEF Operate
<1>2. CASE Current(queue, t)
  <2> DEFINE m == t[1]
             r == queue[m]
             s == IF t \in overdue \/ kind = "release" THEN GivenBack(r)
                  ELSE IF kind = "ack" THEN [r EXCEPT !.place = "acked", !.token = 0]
                  ELSE r
  <2>1. m \in Messages /\ Held(r) /\ Sound(r)
    BY <1>2 DEF Current, Tokens, QueueInv
  <2>2. Sound(s) /\ Steps(r, s)
    BY <2>1, GivenBackSteps, AckedSteps, RestSteps
  <2>3. queue' = [queue EXCEPT ![m] = s]
    BY <1>2 DEF Operate
  <2>4. t = <<m, r.issued>>
    BY <1>2, <2>1 DEF Current, Held, Sound, Tokens
  <2>5. ASSUME s.place = "acked" PROVE s.issued = r.issued /\ t \in AcksSent
    <3>1. r.place = "active" /\ r \in QueueEntries
      BY <2>1 DEF Held, Sound
    <3>2. GivenBack(r).place # "acked"
      BY <3>1, Fields
    <3>3. kind = "ack" /\ s = [r EXCEPT !.place = "acked", !.token = 0]
      BY <2>5, <3>1, <3>2
    <3>4. s.issued = r.issued
      BY <3>1, <3>3, Fields
    <3> QED BY <3>3, <3>4
  <2>6. r = queue[m]
    OBVIOUS
  <2> HIDE DEF s, r, m
  <2> QED BY <2>1, <2>2, <2>3, <2>4, <2>5, <2>6, OneEntrySteps
<1> QED BY <1>1, <1>2

LEMMA ExpireDueEntry ==
  ASSUME QueueInv, NEW m \in Messages
  PROVE  /\ Sound(ExpireDue(queue)[m])
         /\ Steps(queue[m], ExpireDue(queue)[m])
         /\ \/ ExpireDue(queue)[m] = queue[m]
            \/ Held(queue[m]) /\ ExpireDue(queue)[m] = GivenBack(queue[m])
         /\ ExpireDue(queue)[m].place = "acked" => ExpireDue(queue)[m] = queue[m]
<1>1. Sound(queue[m])
  BY DEF QueueInv
<1>2. CASE Held(queue[m]) /\ <<m, queue[m].token>> \in overdue
  <2>1. ExpireDue(queue)[m] = GivenBack(queue[m])
    BY <1>2 DEF ExpireDue
  <2>2. GivenBack(queue[m]).place # "acked"
    BY <1>1, <1>2, SoundFields, Fields DEF Held
  <2> QED BY <1>1, <1>2, <2>1, <2>2, GivenBackSteps
<1>3. CASE ~(Held(queue[m]) /\ <<m, queue[m].token>> \in overdue)
  <2>1. ExpireDue(queue)[m] = queue[m]
    BY <1>3 DEF ExpireDue
  <2> QED BY <1>1, <2>1, RestSteps
<1> QED BY <1>2, <1>3

LEMMA ExpireDueSteps ==
  ASSUME TypeOK, QueueInv, queue' = ExpireDue(queue)
  PROVE  QueueSteps
<1>1. \A m \in Messages : queue'[m] \in QueueEntries
  BY ExpireDueEntry DEF Sound
<1>2. queue' \in [Messages -> QueueEntries]
  BY <1>1 DEF ExpireDue
<1>3. QueueInv'
  BY ExpireDueEntry DEF QueueInv
<1>4. ASSUME NEW m \in Messages PROVE Steps(queue[m], queue'[m]) /\ Completion(m)
  BY ExpireDueEntry DEF Completion
<1> QED BY <1>2, <1>3, <1>4 DEF QueueSteps

\* A dispatcher expires what is overdue and reserves a free message at once.
LEMMA DispatchSteps ==
  ASSUME TypeOK, QueueInv, NEW m \in Messages,
         ExpireDue(queue)[m].place = "active", ExpireDue(queue)[m].token = 0,
         queue' = [ExpireDue(queue) EXCEPT ![m] = Reserve(@)]
  PROVE  QueueSteps
<1> DEFINE q == ExpireDue(queue)
<1>1. \A n \in Messages : queue'[n] = IF n = m THEN Reserve(q[m]) ELSE q[n]
  BY DEF ExpireDue
<1>2. Sound(Reserve(q[m])) /\ Held(Reserve(q[m]))
  BY ExpireDueEntry, ReserveSteps
<1>3. Steps(queue[m], Reserve(q[m]))
  BY ExpireDueEntry, ReserveSteps, ReserveGivenBackSteps DEF QueueInv
<1>4. \A n \in Messages : q[n] \in QueueEntries
  BY ExpireDueEntry DEF Sound
<1>5. queue' \in [Messages -> QueueEntries]
  <2>1. q \in [Messages -> QueueEntries]
    BY <1>4 DEF ExpireDue
  <2>2. Reserve(q[m]) \in QueueEntries
    BY <1>2 DEF Sound
  <2> QED BY <2>1, <2>2
<1>6. QueueInv'
  BY <1>1, <1>2, ExpireDueEntry DEF QueueInv
<1>7. ASSUME NEW n \in Messages PROVE Steps(queue[n], queue'[n]) /\ Completion(n)
  <2>1. CASE n = m
    BY <1>1, <1>2, <1>3, <2>1 DEF Completion, Held
  <2>2. CASE n # m
    BY <1>1, <2>2, ExpireDueEntry DEF Completion
  <2> QED BY <2>1, <2>2
<1> QED BY <1>5, <1>6, <1>7 DEF QueueSteps

LEMMA EnqueueSteps ==
  ASSUME TypeOK, QueueInv, NEW m \in Messages, Enqueue(m)
  PROVE  QueueSteps
<1> DEFINE s == [queue[m] EXCEPT !.place = "active", !.count = 0]
<1>1. Sound(queue[m]) /\ queue[m] \in QueueEntries
  BY DEF QueueInv, Sound
<1>2. /\ s \in QueueEntries /\ s.place = "active" /\ s.count = 0
      /\ s.token = queue[m].token /\ s.issued = queue[m].issued
  BY <1>1 DEF QueueEntries
<1>3. queue' = [queue EXCEPT ![m] = s]
  BY DEF Enqueue
<1>4. queue[m].place \in {"absent"} \cup (IF Retention THEN {"acked"} ELSE {})
  BY DEF Enqueue
<1> HIDE DEF s
<1>5. queue[m].place # "active" /\ s.token = 0
  BY <1>1, <1>2, <1>4 DEF Sound
<1>6. Sound(s)
  BY <1>1, <1>2, <1>5, CleanupAssumption DEF Sound
<1>7. Steps(queue[m], s)
  BY <1>1, <1>2, <1>4, <1>5, SoundFields DEF Held, Steps, StatusOf
<1> QED BY <1>2, <1>3, <1>6, <1>7, OneEntrySteps

\* The tokens the operations name
LEMMA NamedTokens ==
  ASSUME TypeOK, NEW w \in Workers
  PROVE  /\ dispatching[w] # Idle => dispatching[w] \in Dispatches /\ dispatching[w].token \in Tokens
         /\ \A f \in toServer[w] :
              f \in Requests /\ f.token \in Tokens /\ (f.kind = "ack" => f.token \in AcksSent)
         /\ \A e \in executing[w] : e \in Executions /\ e.token \in Tokens
<1>1. dispatching[w] \in {Idle} \cup Dispatches /\ toServer[w] \subseteq Requests
      /\ executing[w] \subseteq Executions
  BY DEF TypeOK
<1>2. \A d \in Dispatches : d.token \in Tokens
  BY DEF Dispatches
<1>3. \A f \in Requests : f.token \in Tokens
  BY DEF Requests
<1>4. \A e \in Executions : e.token \in Tokens
  BY DEF Executions
<1> QED BY <1>1, <1>2, <1>3, <1>4 DEF AcksSent

LEMMA ConnectionSteps ==
  ASSUME TypeOK, QueueInv, NEW w \in Workers, Connection(w)
  PROVE  QueueSteps
<1>1. CASE Connect(w) \/ SendReady(w) \/ Disconnect(w) \/ SendMessage(w) \/ Answer(w)
  BY <1>1, UnchangedSteps DEF Connect, SendReady, Disconnect, SendMessage, Answer
<1>2. CASE Dispatch(w)
  <2> DEFINE q == ExpireDue(queue)
             free == {m \in Messages : q[m].place = "active" /\ q[m].token = 0}
  <2>1. \/ \E m \in free : queue' = [q EXCEPT ![m] = Reserve(@)]
        \/ queue' = q
        \/ UNCHANGED queue
    BY <1>2 DEF Dispatch
  <2>2. ASSUME NEW m \in free, queue' = [q EXCEPT ![m] = Reserve(@)]
        PROVE  QueueSteps
    BY <2>2, DispatchSteps
  <2> QED BY <2>1, <2>2, ExpireDueSteps, UnchangedSteps
<1>3. CASE Track(w)
  <2>1. UNCHANGED queue \/ Operate("release", dispatching[w].token)
    BY <1>3 DEF Track
  <2>2. dispatching[w].token \in Tokens
    BY <1>3, NamedTokens DEF Track
  <2> QED BY <2>1, <2>2, UnchangedSteps, OperateSteps
<1>4. CASE SendFails(w)
  <2>1. Operate("release", dispatching[w].token) /\ dispatching[w].token \in Tokens
    BY <1>4, NamedTokens DEF SendFails
  <2> QED BY <2>1, OperateSteps
<1>5. ASSUME NEW f \in toServer[w], Handle(w, f)
      PROVE  QueueSteps
  BY <1>5, NamedTokens, OperateSteps DEF Handle
<1> QED BY <1>1, <1>2, <1>3, <1>4, <1>5 DEF Connection

LEMMA ExecutorSteps ==
  ASSUME TypeOK, QueueInv, NEW w \in Workers, Executor(w)
  PROVE  QueueSteps
<1>1. ASSUME NEW f \in toWorker[w], Receive(w, f.token) \/ Result(w, f)
      PROVE  QueueSteps
  BY <1>1, UnchangedSteps DEF Receive, Result
<1>2. ASSUME NEW e \in executing[w], Delivery(w, e)
      PROVE  QueueSteps
  <2>1. CASE Renew(w, e)
    BY <2>1, NamedTokens, OperateSteps DEF Renew
  <2>2. CASE HandlerReturns(w, e) \/ SendOperation(w, e) \/ OperationFails(w, e)
             \/ LoseReservation(w, e)
    BY <2>2, UnchangedSteps DEF HandlerReturns, SendOperation, OperationFails, LoseReservation
  <2> QED BY <1>2, <2>1, <2>2 DEF Delivery
<1>3. CASE Restart(w)
  BY <1>3, UnchangedSteps DEF Restart
<1> QED BY <1>1, <1>2, <1>3 DEF Executor

LEMMA NextSteps ==
  ASSUME TypeOK, QueueInv, [Next]_vars
  PROVE  QueueSteps
<1>1. ASSUME NEW m \in Messages, Enqueue(m) PROVE QueueSteps
  BY <1>1, EnqueueSteps
<1>2. CASE Reconcile
  BY <1>2, ExpireDueSteps DEF Reconcile
<1>3. ASSUME NEW t, LeaseRunsOut(t) PROVE QueueSteps
  BY <1>3, UnchangedSteps DEF LeaseRunsOut
<1>4. CASE DispatcherExits \/ DispatcherDone
  BY <1>4, UnchangedSteps DEF DispatcherExits, DispatcherDone
<1>5. ASSUME NEW w \in Workers, Connection(w) \/ Executor(w) PROVE QueueSteps
  BY <1>5, ConnectionSteps, ExecutorSteps
<1>6. CASE UNCHANGED vars
  BY <1>6, UnchangedSteps DEF vars
<1> QED BY <1>1, <1>2, <1>3, <1>4, <1>5, <1>6 DEF Next

-----------------------------------------------------------------------------
(* Types                                                                    *)

\* The connection of a worker is closed.
LEMMA ClosedTypes ==
  ASSUME TypeOK, NEW w \in Workers, Closed(w)
  PROVE  /\ conn' \in [Workers -> {"down", "open", "ready"}]
         /\ handling' \in [Workers -> {Idle} \cup Results]
         /\ toServer' \in [Workers -> SUBSET Requests]
         /\ toWorker' \in [Workers -> SUBSET (Deliveries \cup Results)]
  BY DEF TypeOK, Closed

\* A token that is in nobody's way any more, and what a prune leaves
LEMMA InFlightTypes ==
  ASSUME TypeOK
  PROVE  /\ Pruned \in [Workers -> SUBSET Tokens]
         /\ \A w \in Workers : Forgotten(w) \in SUBSET Tokens
  BY DEF TypeOK, Pruned, Forgotten

LEMMA ConnectionTypes ==
  ASSUME TypeOK, NEW w \in Workers, Connection(w), queue' \in [Messages -> QueueEntries]
  PROVE  TypeOK'
<1>1. CASE Connect(w)
  BY <1>1, InFlightTypes DEF Connect, network, worker, TypeOK
<1>2. CASE SendReady(w)
  BY <1>2 DEF SendReady, network, worker, TypeOK
<1>3. CASE Disconnect(w)
  <2>1. dispatching' \in [Workers -> {Idle} \cup Dispatches]
    <3>1. dispatching[w] # Idle => [dispatching[w] EXCEPT !.closed = TRUE] \in Dispatches
      BY NamedTokens DEF Dispatches
    <3> QED BY <1>3, <3>1 DEF Disconnect, TypeOK
  <2>2. inFlight' \in [Workers -> SUBSET Tokens]
    BY <1>3, InFlightTypes DEF Disconnect, TypeOK
  <2>3. faults' \in 0..MaxFaults
    BY <1>3, CleanupAssumption DEF Disconnect, TypeOK
  <2>4. Closed(w) /\ UNCHANGED <<overdue, dispatcher, executing, cleaned>>
    BY <1>3 DEF Disconnect, worker
  <2> QED BY <2>1, <2>2, <2>3, <2>4, ClosedTypes DEF TypeOK
<1>4. CASE Dispatch(w)
  <2>1. dispatching' \in [Workers -> {Idle} \cup Dispatches]
    <3>1. ASSUME NEW m \in Messages
          PROVE  [token |-> <<m, queue[m].issued + 1>>, tracked |-> FALSE, closed |-> FALSE]
                   \in Dispatches
      <4>1. queue[m].issued + 1 \in Nat \ {0}
        BY DEF TypeOK, QueueEntries
      <4> QED BY <4>1 DEF Dispatches, Tokens
    <3> QED BY <1>4, <3>1 DEF Dispatch, TypeOK
  <2>2. inFlight' \in [Workers -> SUBSET Tokens]
    BY <1>4, InFlightTypes DEF Dispatch
  <2> QED BY <1>4, <2>1, <2>2 DEF Dispatch, network, worker, TypeOK
<1>5. CASE Track(w)
  <2>1. dispatching[w] \in Dispatches /\ dispatching[w].token \in Tokens
    BY <1>5, NamedTokens DEF Track
  <2>2. [dispatching[w] EXCEPT !.tracked = TRUE] \in Dispatches
    BY <2>1 DEF Dispatches
  <2>3. dispatching' \in [Workers -> {Idle} \cup Dispatches]
    BY <1>5, <2>2 DEF Track, TypeOK
  <2>4. inFlight' \in [Workers -> SUBSET Tokens]
    BY <1>5, <2>1 DEF Track, TypeOK
  <2> QED BY <1>5, <2>3, <2>4 DEF Track, network, worker, TypeOK
<1>6. CASE SendMessage(w)
  <2>1. [type |-> "message", token |-> dispatching[w].token] \in Deliveries
    BY <1>6, NamedTokens DEF SendMessage, Deliveries
  <2> QED BY <1>6, <2>1 DEF SendMessage, worker, TypeOK
<1>7. CASE SendFails(w)
  <2>1. /\ conn' \in [Workers -> {"down", "open", "ready"}]
        /\ handling' \in [Workers -> {Idle} \cup Results]
        /\ toServer' \in [Workers -> SUBSET Requests]
        /\ toWorker' \in [Workers -> SUBSET (Deliveries \cup Results)]
    BY <1>7, ClosedTypes DEF SendFails, TypeOK
  <2>2. inFlight' \in [Workers -> SUBSET Tokens]
    BY <1>7, InFlightTypes DEF SendFails, TypeOK
  <2>3. faults' \in 0..MaxFaults
    BY <1>7, CleanupAssumption DEF SendFails, TypeOK
  <2>4. dispatching' \in [Workers -> {Idle} \cup Dispatches]
    BY <1>7 DEF SendFails, TypeOK
  <2>5. UNCHANGED <<overdue, dispatcher, executing, cleaned>>
    BY <1>7 DEF SendFails, worker
  <2> QED BY <2>1, <2>2, <2>3, <2>4, <2>5 DEF TypeOK
<1>8. ASSUME NEW f \in toServer[w], Handle(w, f)
      PROVE  TypeOK'
  <2>1. [type |-> "result", token |-> f.token, attempt |-> f.attempt] \in Results
    BY NamedTokens DEF Requests, Results
  <2> QED BY <1>8, <2>1 DEF Handle, worker, TypeOK
<1>9. CASE Answer(w)
  <2>1. handling[w] \in Results
    BY <1>9 DEF Answer, TypeOK
  <2>2. inFlight' \in [Workers -> SUBSET Tokens]
    BY <1>9, InFlightTypes DEF Answer, TypeOK
  <2> QED BY <1>9, <2>1, <2>2 DEF Answer, worker, TypeOK
<1> QED BY <1>1, <1>2, <1>3, <1>4, <1>5, <1>6, <1>7, <1>8, <1>9 DEF Connection

\* A worker replaces a delivery by what it has become, or drops it.
LEMMA ReplaceTypes ==
  ASSUME TypeOK, NEW w \in Workers, NEW e, NEW new \in SUBSET Executions, Replace(w, e, new)
  PROVE  executing' \in [Workers -> SUBSET Executions]
  BY DEF TypeOK, Replace

\* What a delivery becomes
LEMMA BecomesTypes ==
  ASSUME NEW e \in Executions
  PROVE  /\ [e EXCEPT !.phase = "ack"] \in Executions
         /\ [e EXCEPT !.phase = "release"] \in Executions
         /\ [e EXCEPT !.sent = TRUE] \in Executions
         /\ e.attempt # MaxOperationAttempts =>
              [e EXCEPT !.attempt = @ + 1, !.sent = FALSE] \in Executions
<1>1. /\ [e EXCEPT !.phase = "ack"] \in Executions
      /\ [e EXCEPT !.phase = "release"] \in Executions
      /\ [e EXCEPT !.sent = TRUE] \in Executions
  BY DEF Executions
<1>2. ASSUME e.attempt # MaxOperationAttempts
      PROVE  [e EXCEPT !.attempt = @ + 1, !.sent = FALSE] \in Executions
  <2>1. e.attempt + 1 \in 1..MaxOperationAttempts
    BY <1>2, CleanupAssumption DEF Executions
  <2>2. ASSUME NEW n \in 1..MaxOperationAttempts
        PROVE  [e EXCEPT !.attempt = n, !.sent = FALSE] \in Executions
    BY DEF Executions
  <2> QED BY <2>1, <2>2
<1> QED BY <1>1, <1>2

LEMMA DeliveryTypes ==
  ASSUME TypeOK, NEW w \in Workers, NEW e \in executing[w], Delivery(w, e),
         queue' \in [Messages -> QueueEntries]
  PROVE  TypeOK'
<1>0. e \in Executions /\ e.token \in Tokens
  BY NamedTokens
<1>1. CASE HandlerReturns(w, e)
  <2>1. executing' \in [Workers -> SUBSET Executions]
    <3>1. PICK new \in SUBSET Executions : Replace(w, e, new)
      BY <1>0, <1>1, BecomesTypes DEF HandlerReturns
    <3> QED BY <3>1, ReplaceTypes
  <2>2. cleaned' \subseteq Tokens
    BY <1>0, <1>1 DEF HandlerReturns, TypeOK
  <2> QED BY <1>1, <2>1, <2>2 DEF HandlerReturns, server, network, TypeOK
<1>2. CASE SendOperation(w, e)
  <2>1. executing' \in [Workers -> SUBSET Executions]
    BY <1>0, <1>2, BecomesTypes, ReplaceTypes DEF SendOperation
  <2>2. [kind |-> OperationKind(e), token |-> e.token, attempt |-> e.attempt] \in Requests
    BY <1>0 DEF OperationKind, Executions, Requests
  <2>3. toServer' \in [Workers -> SUBSET Requests]
    BY <1>2, <2>2 DEF SendOperation, TypeOK
  <2> QED BY <1>2, <2>1, <2>3 DEF SendOperation, server, TypeOK
<1>3. CASE OperationFails(w, e)
  <2>1. PICK new \in SUBSET Executions : Replace(w, e, new)
    BY <1>0, <1>3, BecomesTypes DEF OperationFails
  <2>2. executing' \in [Workers -> SUBSET Executions]
    BY <2>1, ReplaceTypes
  <2> QED BY <1>3, <2>2 DEF OperationFails, server, network, TypeOK
<1>4. CASE Renew(w, e)
  <2>1. executing' \in [Workers -> SUBSET Executions]
    <3>1. UNCHANGED executing \/ Replace(w, e, {})
      BY <1>4 DEF Renew
    <3> QED BY <3>1, ReplaceTypes DEF TypeOK
  <2> QED BY <1>4, <2>1 DEF Renew, server, network, TypeOK
<1>5. CASE LoseReservation(w, e)
  <2>1. executing' \in [Workers -> SUBSET Executions]
    BY <1>5, ReplaceTypes DEF LoseReservation
  <2> QED BY <1>5, <2>1 DEF LoseReservation, server, network, TypeOK
<1> QED BY <1>1, <1>2, <1>3, <1>4, <1>5 DEF Delivery

LEMMA ExecutorTypes ==
  ASSUME TypeOK, NEW w \in Workers, Executor(w), queue' \in [Messages -> QueueEntries]
  PROVE  TypeOK'
<1>1. ASSUME NEW f \in toWorker[w], Receive(w, f.token)
      PROVE  TypeOK'
  <2>1. f.token \in Tokens
    BY DEF TypeOK, Deliveries, Results
  <2>2. \A phase \in {"running", "rejected"} :
          [token |-> f.token, attempt |-> 1, sent |-> FALSE, phase |-> phase] \in Executions
    <3>1. 1 \in 1..MaxOperationAttempts
      BY CleanupAssumption
    <3> QED BY <2>1, <3>1 DEF Executions
  <2>3. executing' \in [Workers -> SUBSET Executions]
    BY <1>1, <2>2 DEF Receive, TypeOK
  <2> QED BY <1>1, <2>3 DEF Receive, server, TypeOK
<1>2. ASSUME NEW f \in toWorker[w], Result(w, f)
      PROVE  TypeOK'
  BY <1>2 DEF Result, server, TypeOK
<1>3. ASSUME NEW e \in executing[w], Delivery(w, e)
      PROVE  TypeOK'
  BY <1>3, DeliveryTypes
<1>4. CASE Restart(w)
  <2>1. faults' \in 0..MaxFaults
    BY <1>4, CleanupAssumption DEF Restart, TypeOK
  <2>2. /\ executing' \in [Workers -> SUBSET Executions]
        /\ inFlight' \in [Workers -> SUBSET Tokens]
        /\ UNCHANGED <<overdue, dispatcher, dispatching, cleaned>>
    BY <1>4 DEF Restart, TypeOK
  <2>3. Closed(w)
    BY <1>4 DEF Restart
  <2> QED BY <2>1, <2>2, <2>3, ClosedTypes DEF TypeOK
<1> QED BY <1>1, <1>2, <1>3, <1>4 DEF Executor

LEMMA NextTypes ==
  ASSUME TypeOK, QueueInv, [Next]_vars
  PROVE  TypeOK'
<1>0. queue' \in [Messages -> QueueEntries]
  BY NextSteps DEF QueueSteps
<1>1. ASSUME NEW m \in Messages, Enqueue(m) PROVE TypeOK'
  BY <1>0, <1>1 DEF Enqueue, server, network, worker, TypeOK
<1>2. CASE Reconcile
  BY <1>0, <1>2 DEF Reconcile, server, network, worker, TypeOK
<1>3. ASSUME NEW t \in TokensInUse, LeaseRunsOut(t) PROVE TypeOK'
  <2>1. t \in Tokens
    BY DEF TokensInUse, Held, TypeOK, QueueEntries, Tokens
  <2> QED BY <1>0, <1>3, <2>1 DEF LeaseRunsOut, server, network, worker, TypeOK
<1>4. CASE DispatcherExits \/ DispatcherDone
  BY <1>0, <1>4 DEF DispatcherExits, DispatcherDone, network, worker, TypeOK
<1>5. ASSUME NEW w \in Workers, Connection(w) \/ Executor(w) PROVE TypeOK'
  BY <1>0, <1>5, ConnectionTypes, ExecutorTypes
<1>6. CASE UNCHANGED vars
  BY <1>6 DEF vars, server, network, worker, TypeOK
<1> QED BY <1>1, <1>2, <1>3, <1>4, <1>5, <1>6 DEF Next

LEMMA InitTypes ==
  ASSUME Init
  PROVE  TypeOK /\ QueueInv
<1>1. TypeOK
  BY CleanupAssumption DEF Init, TypeOK, QueueEntries
<1>2. QueueInv
  BY DEF Init, QueueInv, Sound, QueueEntries
<1> QED BY <1>1, <1>2

LEMMA TypesAndEntries == Spec => [](TypeOK /\ QueueInv)
<1>1. TypeOK /\ QueueInv /\ [Next]_vars => (TypeOK /\ QueueInv)'
  BY NextSteps, NextTypes DEF QueueSteps
<1> QED BY <1>1, InitTypes, PTL DEF Spec

\* Every variable keeps its type: frames, registry and executors name only
\* tokens that some message can have.
THEOREM TypeCorrect == Spec => []TypeOK
BY TypesAndEntries, PTL

-----------------------------------------------------------------------------
(* The queue implements CleanupLifecycle                                    *)

LEMMA LifecycleStep ==
  ASSUME TypeOK, QueueInv, [Next]_vars
  PROVE  [Lifecycle!Next]_(Lifecycle!lifecycle)
<1>1. SUFFICES ASSUME NEW m \in Messages
               PROVE  \/ Lifecycle!Accept(m) \/ Lifecycle!Deliver(m) \/ Lifecycle!Return(m)
                      \/ Lifecycle!Complete(m) \/ Lifecycle!GiveUp(m) \/ Lifecycle!Rest(m)
  BY DEF Lifecycle!Next
<1>2. Steps(queue[m], queue'[m])
  BY NextSteps DEF QueueSteps
<1>3. Status(m) = StatusOf(queue[m]) /\ Status(m)' = StatusOf(queue'[m])
  BY DEF Status, StatusOf
<1> QED BY <1>2, <1>3 DEF Steps, Lifecycle!Accept, Lifecycle!Deliver, Lifecycle!Return,
           Lifecycle!Complete, Lifecycle!GiveUp, Lifecycle!Rest, Lifecycle!Move

\* The queue implements the lifecycle of its messages, for any number of
\* messages, workers, attempts and faults: whatever connections, executors and
\* clocks do, only a message that is held is completed, it is given up exactly
\* when its attempts are used, and one that is done is never delivered again
\* unless it is stored anew.
THEOREM QueueImplementsLifecycle == Spec => QueueKeepsLifecycle
<1>1. Init => Lifecycle!Init
  BY DEF Init, Lifecycle!Init, Status
<1>2. TypeOK /\ QueueInv /\ [Next]_vars => [Lifecycle!Next]_(Lifecycle!lifecycle)
  BY LifecycleStep
<1> QED BY <1>1, <1>2, TypesAndEntries, PTL DEF Spec, QueueKeepsLifecycle, Lifecycle!Spec

-----------------------------------------------------------------------------
(* Only what was cleaned is acknowledged                                    *)

\* Whoever is about to acknowledge, or has sent it, has cleaned.
AcksFollowHandlers ==
  /\ \A w \in Workers : \A e \in executing[w] : e.phase = "ack" => e.token \in cleaned
  /\ AcksSent \subseteq cleaned

Follows ==
  /\ cleaned \subseteq cleaned'
  /\ \A w \in Workers : \A e \in executing'[w] :
       e.phase = "ack" => e \in executing[w] \/ e.token \in cleaned'
  /\ \A w \in Workers : \A f \in toServer'[w] :
       f.kind = "ack" => f \in toServer[w] \/ f.token \in cleaned'

LEMMA FollowsOn ==
  ASSUME AcksFollowHandlers, Follows
  PROVE  AcksFollowHandlers'
<1>1. \A w \in Workers : \A e \in executing'[w] : e.phase = "ack" => e.token \in cleaned'
  BY DEF AcksFollowHandlers, Follows
<1>2. AcksSent' \subseteq cleaned'
  <2> SUFFICES ASSUME NEW t \in AcksSent' PROVE t \in cleaned'
    OBVIOUS
  <2>1. PICK w \in Workers : \E f \in toServer'[w] : f.kind = "ack" /\ f.token = t
    BY DEF AcksSent
  <2>2. PICK f \in toServer'[w] : f.kind = "ack" /\ f.token = t
    BY <2>1
  <2>3. t \in Tokens
    BY DEF AcksSent
  <2>4. CASE f \in toServer[w]
    BY <2>2, <2>3, <2>4 DEF AcksFollowHandlers, AcksSent, Follows
  <2> QED BY <2>2, <2>4 DEF Follows
<1> QED BY <1>1, <1>2 DEF AcksFollowHandlers

LEMMA ConnectionFollows ==
  ASSUME TypeOK, NEW w \in Workers, Connection(w)
  PROVE  Follows
<1>1. UNCHANGED <<executing, cleaned>>
  BY DEF Connection, Connect, SendReady, Disconnect, Dispatch, Track, SendMessage, SendFails,
         Handle, Answer, worker
<1>2. \A v \in Workers : toServer'[v] \subseteq toServer[v]
  <2>1. CASE Connect(w) \/ SendReady(w) \/ Dispatch(w) \/ Track(w)
    BY <2>1 DEF Connect, SendReady, Dispatch, Track, network
  <2>2. CASE SendMessage(w) \/ Answer(w)
    BY <2>2 DEF SendMessage, Answer
  <2>3. CASE Disconnect(w) \/ SendFails(w)
    BY <2>3 DEF Disconnect, SendFails, Closed, TypeOK
  <2>4. ASSUME NEW f \in toServer[w], Handle(w, f)
        PROVE  \A v \in Workers : toServer'[v] \subseteq toServer[v]
    BY <2>4 DEF Handle, TypeOK
  <2> QED BY <2>1, <2>2, <2>3, <2>4 DEF Connection
<1> QED BY <1>1, <1>2 DEF Follows

LEMMA DeliveryFollows ==
  ASSUME TypeOK, AcksFollowHandlers, NEW w \in Workers, NEW e \in executing[w], Delivery(w, e)
  PROVE  Follows
<1>0. e \in Executions
  BY NamedTokens
<1>1. ASSUME NEW new, Replace(w, e, new)
      PROVE  \A v \in Workers : \A d \in executing'[v] : d \in executing[v] \/ d \in new
  BY <1>1 DEF Replace, TypeOK
<1>2. CASE HandlerReturns(w, e)
  <2>1. UNCHANGED toServer /\ cleaned \subseteq cleaned'
    BY <1>2 DEF HandlerReturns, network
  <2> DEFINE acked == [e EXCEPT !.phase = "ack"]
             released == [e EXCEPT !.phase = "release"]
  <2>2. acked.token = e.token /\ released.phase = "release"
    BY <1>0 DEF Executions
  <2>3. \/ Replace(w, e, {acked}) /\ e.token \in cleaned'
        \/ Replace(w, e, {released})
    BY <1>2 DEF HandlerReturns
  <2> HIDE DEF acked, released
  <2> QED BY <1>1, <2>1, <2>2, <2>3 DEF Follows
<1>3. CASE SendOperation(w, e)
  <2> DEFINE new == [e EXCEPT !.sent = TRUE]
             frame == [kind |-> OperationKind(e), token |-> e.token, attempt |-> e.attempt]
  <2>1. new.phase = e.phase /\ new.token = e.token
    BY <1>0 DEF Executions
  <2>2. e.phase = "ack" => e.token \in cleaned
    BY DEF AcksFollowHandlers
  <2>3. Replace(w, e, {new}) /\ UNCHANGED cleaned
    BY <1>3 DEF SendOperation
  <2>4. \A v \in Workers : \A f \in toServer'[v] : f \in toServer[v] \/ f = frame
    BY <1>3 DEF SendOperation, TypeOK
  <2>5. frame.kind = "ack" => frame.token \in cleaned
    BY <2>2 DEF OperationKind
  <2> HIDE DEF new, frame
  <2> QED BY <1>1, <2>1, <2>2, <2>3, <2>4, <2>5 DEF Follows
<1>4. CASE OperationFails(w, e)
  <2> DEFINE new == [e EXCEPT !.attempt = @ + 1, !.sent = FALSE]
  <2>1. new.phase = e.phase /\ new.token = e.token
    BY <1>0 DEF Executions
  <2>2. e.phase = "ack" => e.token \in cleaned
    BY DEF AcksFollowHandlers
  <2>3. Replace(w, e, {}) \/ Replace(w, e, {new})
    BY <1>4 DEF OperationFails
  <2>4. UNCHANGED <<toServer, cleaned>>
    BY <1>4 DEF OperationFails, network
  <2> HIDE DEF new
  <2> QED BY <1>1, <2>1, <2>2, <2>3, <2>4 DEF Follows
<1>5. CASE Renew(w, e)
  <2>1. UNCHANGED executing \/ Replace(w, e, {})
    BY <1>5 DEF Renew
  <2>2. UNCHANGED <<toServer, cleaned>>
    BY <1>5 DEF Renew, network
  <2> QED BY <1>1, <2>1, <2>2 DEF Follows
<1>6. CASE LoseReservation(w, e)
  <2>1. Replace(w, e, {}) /\ UNCHANGED <<toServer, cleaned>>
    BY <1>6 DEF LoseReservation, network
  <2> QED BY <1>1, <2>1 DEF Follows
<1> QED BY <1>2, <1>3, <1>4, <1>5, <1>6 DEF Delivery

LEMMA NextFollows ==
  ASSUME TypeOK, AcksFollowHandlers, [Next]_vars
  PROVE  Follows
<1>1. CASE UNCHANGED <<network, worker>>
  BY <1>1 DEF network, worker, Follows
<1>2. ASSUME NEW m \in Messages, Enqueue(m) PROVE Follows
  BY <1>1, <1>2 DEF Enqueue
<1>3. ASSUME NEW t, LeaseRunsOut(t) PROVE Follows
  BY <1>1, <1>3 DEF LeaseRunsOut
<1>4. CASE Reconcile \/ DispatcherExits \/ DispatcherDone \/ UNCHANGED vars
  BY <1>1, <1>4 DEF Reconcile, DispatcherExits, DispatcherDone, vars
<1>5. ASSUME NEW w \in Workers, Connection(w) PROVE Follows
  BY <1>5, ConnectionFollows
<1>6. ASSUME NEW w \in Workers, Executor(w) PROVE Follows
  <2>1. ASSUME NEW f \in toWorker[w], Receive(w, f.token)
        PROVE  Follows
    BY <2>1 DEF Receive, TypeOK, Follows
  <2>2. ASSUME NEW f \in toWorker[w], Result(w, f)
        PROVE  Follows
    BY <2>2 DEF Result, TypeOK, Follows
  <2>3. CASE Restart(w)
    BY <2>3 DEF Restart, Closed, TypeOK, Follows
  <2> QED BY <1>6, <2>1, <2>2, <2>3, DeliveryFollows DEF Executor
<1> QED BY <1>2, <1>3, <1>4, <1>5, <1>6 DEF Next

\* A message that is acknowledged was cleaned by its last delivery, for any
\* number of workers, retries and redeliveries: the answer to an earlier
\* delivery, late or repeated, never completes it.
THEOREM AckedAfterCleaning == Spec => []AckedWasCleaned
<1>1. Init => AcksFollowHandlers /\ AckedWasCleaned
  BY DEF Init, AcksFollowHandlers, AcksSent, AckedWasCleaned
<1>2. ASSUME TypeOK, QueueInv, AcksFollowHandlers, AckedWasCleaned, [Next]_vars
      PROVE  AcksFollowHandlers' /\ AckedWasCleaned'
  <2>1. Follows
    BY <1>2, NextFollows
  <2>2. AcksFollowHandlers'
    BY <1>2, <2>1, FollowsOn
  <2>3. ASSUME NEW m \in Messages, queue'[m].place = "acked"
        PROVE  <<m, queue'[m].issued>> \in cleaned'
    <3>1. Completion(m)
      BY <1>2, NextSteps DEF QueueSteps
    <3>2. <<m, queue[m].issued>> \in cleaned
      BY <1>2, <2>3, <3>1 DEF Completion, AcksFollowHandlers, AckedWasCleaned
    <3> QED BY <2>1, <2>3, <3>1, <3>2 DEF Completion, Follows
  <2> QED BY <2>2, <2>3 DEF AckedWasCleaned
<1> QED BY <1>1, <1>2, TypesAndEntries, PTL DEF Spec

-----------------------------------------------------------------------------
(* The dispatch task                                                        *)

\* Whoever is connected has a dispatch task that is not on its way out, for
\* any number of connections that come and go.
THEOREM DispatcherAlwaysServes == Spec => []DispatcherServes
<1>1. Init => DispatcherServes
  BY DEF Init, DispatcherServes
<1>2. ASSUME TypeOK, DispatcherServes, [Next]_vars
      PROVE  DispatcherServes'
  <2>1. ASSUME \A v \in Workers : conn'[v] # "down" => conn[v] # "down", UNCHANGED dispatcher
        PROVE  DispatcherServes'
    BY <1>2, <2>1 DEF DispatcherServes
  <2>2. CASE UNCHANGED <<conn, dispatcher>>
    BY <2>1, <2>2
  <2>3. ASSUME NEW w \in Workers, Closed(w), UNCHANGED dispatcher
        PROVE  DispatcherServes'
    BY <1>2, <2>1, <2>3 DEF Closed, TypeOK
  <2>4. ASSUME NEW w \in Workers, Connection(w) PROVE DispatcherServes'
    <3>1. CASE Connect(w)
      BY <3>1 DEF Connect, DispatcherServes
    <3>2. CASE SendReady(w)
      BY <2>1, <3>2 DEF SendReady, TypeOK
    <3>3. CASE Disconnect(w) \/ SendFails(w)
      BY <2>2, <2>3, <3>3 DEF Disconnect, SendFails
    <3>4. CASE Dispatch(w) \/ Track(w) \/ SendMessage(w) \/ Answer(w)
      BY <2>2, <3>4 DEF Dispatch, Track, SendMessage, Answer
    <3>5. ASSUME NEW f, Handle(w, f) PROVE DispatcherServes'
      BY <2>2, <3>5 DEF Handle
    <3> QED BY <2>4, <3>1, <3>2, <3>3, <3>4, <3>5 DEF Connection
  <2>5. ASSUME NEW w \in Workers, Executor(w) PROVE DispatcherServes'
    <3>1. CASE Restart(w)
      BY <2>3, <3>1 DEF Restart
    <3>2. CASE UNCHANGED server
      BY <2>2, <3>2 DEF server
    <3> QED BY <2>5, <3>1, <3>2 DEF Executor, Receive, Result, Delivery, HandlerReturns,
                 SendOperation, OperationFails, Renew, LoseReservation
  <2>6. CASE DispatcherExits
    BY <2>6 DEF DispatcherExits, DispatcherServes
  <2>7. CASE DispatcherDone
    BY <1>2, <2>7 DEF DispatcherDone, DispatcherServes
  <2>8. ASSUME NEW m \in Messages, Enqueue(m) PROVE DispatcherServes'
    BY <2>2, <2>8 DEF Enqueue, server
  <2>9. ASSUME NEW t, LeaseRunsOut(t) PROVE DispatcherServes'
    BY <2>2, <2>9 DEF LeaseRunsOut, server
  <2>10. CASE Reconcile \/ UNCHANGED vars
    BY <2>2, <2>10 DEF Reconcile, vars, server
  <2> QED BY <1>2, <2>4, <2>5, <2>6, <2>7, <2>8, <2>9, <2>10 DEF Next
<1> QED BY <1>1, <1>2, TypeCorrect, PTL DEF Spec

-----------------------------------------------------------------------------
(* The registry and the deliveries of a worker                              *)

Message(t) == [type |-> "message", token |-> t]

\* A delivery that is registered and goes on to a connection that is not closed
Sending(d, t) == d # Idle /\ d.tracked /\ ~d.closed /\ d.token = t

\* What the worker is busy with, or is about to be
Owed(w, t) ==
  \/ \E e \in executing[w] : e.token = t
  \/ Message(t) \in toWorker[w]
  \/ Sending(dispatching[w], t)

\* What anybody still acts upon
Named(w, t) ==
  \/ Owed(w, t)
  \/ dispatching[w] # Idle /\ dispatching[w].token = t
  \/ handling[w] # Idle /\ handling[w].token = t
  \/ \E f \in toServer[w] : f.token = t

Known(t) == t[2] <= queue[t[1]].issued

Limited(S) == IsFiniteSet(S) /\ Cardinality(S) <= MaxConcurrency

\* A live reservation that is owed is registered; whoever is named was issued,
\* so no later reservation makes it live again; an operation that is being
\* answered has ended its reservation.
Accounted(w) ==
  /\ Limited(inFlight[w])
  /\ \A t \in Tokens : Owed(w, t) /\ Live(t) => t \in inFlight[w]
  /\ \A t \in Tokens : Named(w, t) => Known(t)
  /\ handling[w] # Idle => ~Current(queue, handling[w].token)

CapacityInv == \A w \in Workers : Accounted(w)

LEMMA LimitedSubset ==
  ASSUME NEW S, Limited(S), NEW T \in SUBSET S
  PROVE  Limited(T)
<1>1. IsFiniteSet(T) /\ Cardinality(T) <= Cardinality(S)
  BY FS_Subset DEF Limited
<1>2. Cardinality(T) \in Nat /\ Cardinality(S) \in Nat
  BY <1>1, FS_CardinalityType DEF Limited
<1> QED BY <1>1, <1>2, CleanupAssumption DEF Limited

LEMMA LimitedMore ==
  ASSUME NEW S, Limited(S), Cardinality(S) < MaxConcurrency, NEW x
  PROVE  Limited(S \cup {x})
<1>1. /\ IsFiniteSet(S \cup {x}) /\ Cardinality(S) \in Nat
      /\ Cardinality(S \cup {x}) = IF x \in S THEN Cardinality(S) ELSE Cardinality(S) + 1
  BY FS_AddElement, FS_CardinalityType DEF Limited
<1> QED BY <1>1, CleanupAssumption DEF Limited

\* A token that was issued and is not current stays so.
LEMMA NeverAgain ==
  ASSUME TypeOK, QueueSteps, overdue \subseteq overdue', NEW t \in Tokens, Known(t)
  PROVE  /\ Known(t)'
         /\ Current(queue', t) => Current(queue, t)
         /\ Live(t)' => Live(t)
<1>1. t[1] \in Messages /\ t[2] \in Nat
  BY DEF Tokens
<1>2. /\ queue[t[1]].issued \in Nat /\ queue'[t[1]].issued \in Nat
      /\ queue[t[1]].token \in Nat /\ queue'[t[1]].token \in Nat
  BY <1>1 DEF TypeOK, QueueSteps, QueueEntries
<1>3. Steps(queue[t[1]], queue'[t[1]])
  BY <1>1 DEF QueueSteps
<1>4. Known(t)'
  BY <1>1, <1>2, <1>3 DEF Known, Steps
<1>5. Current(queue', t) => Current(queue, t)
  BY <1>1, <1>2, <1>3 DEF Current, Known, Steps
<1> QED BY <1>4, <1>5 DEF Live

\* What a step may do to a worker
Keeps(w) ==
  /\ Limited(inFlight'[w])
  /\ \A t \in Tokens : Owed(w, t)' => Owed(w, t) \/ t \in inFlight'[w]
  /\ \A t \in Tokens : t \in inFlight[w] => t \in inFlight'[w] \/ ~Live(t)' \/ ~Owed(w, t)'
  /\ \A t \in Tokens : Named(w, t)' => Named(w, t) \/ Known(t)'
  /\ handling'[w] # Idle => handling'[w] = handling[w] \/ ~Current(queue', handling'[w].token)

LEMMA KeepsAccounted ==
  ASSUME TypeOK, QueueSteps, overdue \subseteq overdue', NEW w \in Workers,
         Accounted(w), Keeps(w)
  PROVE  Accounted(w)'
<1>1. ASSUME NEW t \in Tokens, Named(w, t)'
      PROVE  Known(t)'
  BY <1>1, NeverAgain DEF Keeps, Accounted
<1>2. ASSUME NEW t \in Tokens, Owed(w, t)', Live(t)'
      PROVE  t \in inFlight'[w]
  <2>1. CASE Owed(w, t)
    <3>1. Known(t)
      BY <2>1 DEF Accounted, Named
    <3>2. Live(t)
      BY <1>2, <3>1, NeverAgain
    <3> QED BY <1>2, <2>1, <3>2 DEF Accounted, Keeps
  <2> QED BY <1>2, <2>1 DEF Keeps
<1>3. handling'[w] # Idle => ~Current(queue', handling'[w].token)
  <2> SUFFICES ASSUME handling'[w] = handling[w], handling[w] # Idle
               PROVE  ~Current(queue', handling[w].token)
    BY DEF Keeps
  <2>1. handling[w].token \in Tokens
    BY DEF TypeOK, Results
  <2>2. Known(handling[w].token) /\ ~Current(queue, handling[w].token)
    BY <2>1 DEF Accounted, Named
  <2> QED BY <2>1, <2>2, NeverAgain
<1>4. Limited(inFlight'[w])
  BY DEF Keeps
<1> QED BY <1>1, <1>2, <1>3, <1>4 DEF Accounted

\* Whatever happens elsewhere, a worker may lose what is overdue.
LEMMA Undisturbed ==
  ASSUME NEW w \in Workers, Accounted(w), overdue \subseteq overdue',
         executing'[w] = executing[w], toWorker'[w] = toWorker[w],
         dispatching'[w] = dispatching[w], handling'[w] = handling[w],
         toServer'[w] = toServer[w],
         inFlight'[w] = inFlight[w] \/ inFlight'[w] = inFlight[w] \ overdue
  PROVE  Keeps(w)
<1>1. \A t \in Tokens : /\ Owed(w, t)' => Owed(w, t)
                        /\ Named(w, t)' => Named(w, t)
  BY DEF Owed, Named
<1>2. Limited(inFlight'[w])
  BY LimitedSubset DEF Accounted
<1>3. \A t \in Tokens : t \in inFlight[w] => t \in inFlight'[w] \/ ~Live(t)'
  BY DEF Live
<1> QED BY <1>1, <1>2, <1>3 DEF Keeps

\* The end of an operation or of a failed delivery ends the reservation.
LEMMA OperationEnds ==
  ASSUME TypeOK, NEW t \in Tokens, NEW kind \in {"ack", "release"}, Operate(kind, t)
  PROVE  ~Current(queue', t)
<1>1. CASE ~Current(queue, t)
  BY <1>1 DEF Operate
<1>2. CASE Current(queue, t)
  <2> DEFINE r == queue[t[1]]
             s == IF t \in overdue \/ kind = "release" THEN GivenBack(r)
                  ELSE [r EXCEPT !.place = "acked", !.token = 0]
  <2>1. t[1] \in Messages /\ r \in QueueEntries
    BY DEF Tokens, TypeOK
  <2>2. s.token = 0
    BY <2>1, Fields
  <2>3. queue' = [queue EXCEPT ![t[1]] = s]
    BY <1>2 DEF Operate
  <2>4. queue'[t[1]] = s
    BY <2>1, <2>3 DEF TypeOK
  <2> HIDE DEF s
  <2> QED BY <2>2, <2>4 DEF Current, Held
<1> QED BY <1>1, <1>2

LEMMA ConnectionElsewhere ==
  ASSUME TypeOK, CapacityInv, NEW w \in Workers, Connection(w), NEW v \in Workers, v # w
  PROVE  Keeps(v)
<1>1. overdue' = overdue /\ executing' = executing
  BY DEF Connection, Connect, SendReady, Disconnect, Dispatch, Track, SendMessage, SendFails,
         Handle, Answer, worker
<1>2. inFlight'[v] = inFlight[v] \/ inFlight'[v] = inFlight[v] \ overdue
  BY DEF Connection, Connect, SendReady, Disconnect, Dispatch, Track, SendMessage, SendFails,
         Handle, Answer, Pruned, TypeOK
<1>3. dispatching'[v] = dispatching[v]
  BY DEF Connection, Connect, SendReady, Disconnect, Dispatch, Track, SendMessage, SendFails,
         Handle, Answer, TypeOK
<1>4. handling'[v] = handling[v]
  BY DEF Connection, Connect, SendReady, Disconnect, Dispatch, Track, SendMessage, SendFails,
         Handle, Answer, Closed, TypeOK
<1>5. toWorker'[v] = toWorker[v] /\ toServer'[v] = toServer[v]
  BY DEF Connection, Connect, SendReady, Disconnect, Dispatch, Track, SendMessage, SendFails,
         Handle, Answer, Closed, network, TypeOK
<1> QED BY <1>1, <1>2, <1>3, <1>4, <1>5, Undisturbed DEF CapacityInv

LEMMA DisconnectKeeps ==
  ASSUME TypeOK, CapacityInv, NEW w \in Workers, Disconnect(w)
  PROVE  Keeps(w)
<1>1. /\ queue' = queue /\ overdue' = overdue /\ executing'[w] = executing[w]
      /\ toWorker'[w] = {} /\ toServer'[w] = {} /\ handling'[w] = Idle
      /\ inFlight'[w] = Forgotten(w)
  BY DEF Disconnect, Closed, worker, TypeOK
<1>2. /\ dispatching[w] = Idle => dispatching'[w] = Idle
      /\ dispatching[w] # Idle => /\ dispatching'[w].closed /\ dispatching'[w] # Idle
                                  /\ dispatching'[w].token = dispatching[w].token
  <2> DEFINE d == [dispatching[w] EXCEPT !.closed = TRUE]
  <2>1. dispatching'[w] = IF dispatching[w] = Idle THEN Idle ELSE d
    BY DEF Disconnect, TypeOK
  <2>2. dispatching[w] # Idle => d \in Dispatches /\ d.closed /\ d.token = dispatching[w].token
    BY NamedTokens DEF Dispatches
  <2> HIDE DEF d
  <2> QED BY <2>1, <2>2, CleanupAssumption
<1>3. \A t \in Tokens : /\ Owed(w, t)' => Owed(w, t)
                        /\ Named(w, t)' => Named(w, t)
  BY <1>1, <1>2 DEF Owed, Named, Sending
<1>4. Accounted(w)
  BY DEF CapacityInv
<1>5. Limited(inFlight'[w])
  BY <1>1, <1>4, LimitedSubset DEF Forgotten, Accounted
<1>6. \A t \in Tokens : t \in inFlight[w] => t \in inFlight'[w] \/ ~Live(t)'
  BY <1>1, <1>4 DEF Forgotten, Accounted, Live
<1> QED BY <1>1, <1>3, <1>5, <1>6 DEF Keeps

LEMMA DispatchKeeps ==
  ASSUME TypeOK, QueueInv, CapacityInv, NEW w \in Workers, Dispatch(w)
  PROVE  Keeps(w)
<1>1. /\ overdue' = overdue /\ executing' = executing /\ toWorker' = toWorker
      /\ toServer' = toServer /\ handling' = handling /\ dispatching[w] = Idle
      /\ inFlight'[w] = inFlight[w] \ overdue
  BY DEF Dispatch, worker, network, Pruned
<1>2. CASE dispatching' = dispatching
  BY <1>1, <1>2, Undisturbed DEF CapacityInv
<1>3. ASSUME NEW m \in Messages,
             queue' = [ExpireDue(queue) EXCEPT ![m] = Reserve(@)],
             dispatching' = [dispatching EXCEPT ![w] =
               [token |-> <<m, queue[m].issued + 1>>, tracked |-> FALSE, closed |-> FALSE]]
      PROVE  Keeps(w)
  <2> DEFINE t0 == <<m, queue[m].issued + 1>>
             d == [token |-> t0, tracked |-> FALSE, closed |-> FALSE]
  <2>1. dispatching'[w] = d
    BY <1>3 DEF TypeOK
  <2>2. d.token = t0 /\ ~d.tracked
    OBVIOUS
  <2>3. t0[2] <= queue'[t0[1]].issued
    <3>1. ExpireDue(queue)[m].issued = queue[m].issued /\ ExpireDue(queue)[m] \in QueueEntries
      <4>1. queue[m] \in QueueEntries
        BY DEF TypeOK
      <4> QED BY <4>1, ExpireDueEntry, Fields DEF Sound
    <3>2. queue'[m] = Reserve(ExpireDue(queue)[m])
      BY <1>3 DEF ExpireDue
    <3>3. Reserve(ExpireDue(queue)[m]).issued = queue[m].issued + 1
      BY <3>1, Fields
    <3>4. queue[m].issued \in Nat
      BY DEF TypeOK, QueueEntries
    <3> QED BY <3>2, <3>3, <3>4
  <2> HIDE DEF d, t0
  <2>4. \A t \in Tokens : /\ Owed(w, t)' => Owed(w, t)
                          /\ Named(w, t)' => Named(w, t) \/ Known(t)'
    BY <1>1, <2>1, <2>2, <2>3 DEF Owed, Named, Sending, Known
  <2>5. Limited(inFlight'[w])
    BY <1>1, LimitedSubset DEF CapacityInv, Accounted
  <2>6. \A t \in Tokens : t \in inFlight[w] => t \in inFlight'[w] \/ ~Live(t)'
    BY <1>1 DEF Live
  <2> QED BY <1>1, <2>4, <2>5, <2>6 DEF Keeps
<1> QED BY <1>2, <1>3 DEF Dispatch

LEMMA TrackKeeps ==
  ASSUME TypeOK, CapacityInv, NEW w \in Workers, Track(w)
  PROVE  Keeps(w)
<1> DEFINE d == dispatching[w]
<1>1. /\ overdue' = overdue /\ executing' = executing /\ toWorker' = toWorker
      /\ toServer' = toServer /\ handling' = handling
      /\ d # Idle /\ ~d.tracked /\ d \in Dispatches /\ d.token \in Tokens
  BY NamedTokens DEF Track, worker, network
<1>2. CASE /\ ~d.closed /\ Cardinality(inFlight[w] \ overdue) < MaxConcurrency
           /\ inFlight' = [inFlight EXCEPT ![w] = (@ \ overdue) \cup {d.token}]
           /\ dispatching' = [dispatching EXCEPT ![w].tracked = TRUE]
  <2> DEFINE new == [d EXCEPT !.tracked = TRUE]
  <2>1. inFlight'[w] = (inFlight[w] \ overdue) \cup {d.token} /\ dispatching'[w] = new
    BY <1>2 DEF TypeOK
  <2>2. new.token = d.token
    BY <1>1 DEF Dispatches
  <2> HIDE DEF new
  <2>3. Limited(inFlight'[w])
    <3>1. Limited(inFlight[w] \ overdue)
      BY LimitedSubset DEF CapacityInv, Accounted
    <3>2. Limited((inFlight[w] \ overdue) \cup {d.token})
      BY <1>2, <3>1, LimitedMore
    <3> QED BY <2>1, <3>2
  <2>4. \A t \in Tokens : /\ Owed(w, t)' => Owed(w, t) \/ t \in inFlight'[w]
                          /\ Named(w, t)' => Named(w, t)
    BY <1>1, <2>1, <2>2 DEF Owed, Named, Sending
  <2>5. \A t \in Tokens : t \in inFlight[w] => t \in inFlight'[w] \/ ~Live(t)'
    BY <1>1, <2>1 DEF Live
  <2> QED BY <1>1, <2>3, <2>4, <2>5 DEF Keeps
<1>3. CASE /\ dispatching' = [dispatching EXCEPT ![w] = Idle]
           /\ inFlight' = IF d.closed THEN inFlight
                          ELSE [inFlight EXCEPT ![w] = @ \ overdue]
  <2>1. /\ dispatching'[w] = Idle
        /\ inFlight'[w] = inFlight[w] \/ inFlight'[w] = inFlight[w] \ overdue
    BY <1>3 DEF TypeOK
  <2>2. \A t \in Tokens : /\ Owed(w, t)' => Owed(w, t)
                          /\ Named(w, t)' => Named(w, t)
    BY <1>1, <2>1 DEF Owed, Named, Sending
  <2>3. Limited(inFlight'[w])
    BY <2>1, LimitedSubset DEF CapacityInv, Accounted
  <2>4. \A t \in Tokens : t \in inFlight[w] => t \in inFlight'[w] \/ ~Live(t)'
    BY <1>1, <2>1 DEF Live
  <2> QED BY <1>1, <2>2, <2>3, <2>4 DEF Keeps
<1> QED BY <1>2, <1>3 DEF Track

LEMMA SendMessageKeeps ==
  ASSUME TypeOK, CapacityInv, NEW w \in Workers, SendMessage(w)
  PROVE  Keeps(w)
<1> DEFINE d == dispatching[w]
<1>1. /\ executing' = executing /\ toServer' = toServer /\ handling' = handling
      /\ inFlight' = inFlight /\ dispatching'[w] = Idle
      /\ d # Idle /\ d.tracked /\ ~d.closed
      /\ toWorker'[w] = toWorker[w] \cup {Message(d.token)}
  BY DEF SendMessage, worker, Message, TypeOK
<1>2. \A t \in Tokens : Message(t) = Message(d.token) => t = d.token
  BY DEF Message
<1> HIDE DEF d
<1>3. \A t \in Tokens : Owed(w, t)' => Owed(w, t)
  BY <1>1, <1>2 DEF Owed, Sending, d
<1>4. \A t \in Tokens : Named(w, t)' => Named(w, t)
  BY <1>1, <1>3 DEF Named
<1>5. Limited(inFlight'[w])
  BY <1>1 DEF CapacityInv, Accounted
<1> QED BY <1>1, <1>3, <1>4, <1>5 DEF Keeps

LEMMA SendFailsKeeps ==
  ASSUME TypeOK, CapacityInv, NEW w \in Workers, SendFails(w)
  PROVE  Keeps(w)
<1> DEFINE d == dispatching[w]
<1>1. /\ overdue' = overdue /\ executing' = executing /\ dispatching'[w] = Idle
      /\ d # Idle /\ d.token \in Tokens /\ Operate("release", d.token)
  BY NamedTokens DEF SendFails, worker, TypeOK
<1>2. ~Current(queue', d.token)
  BY <1>1, OperationEnds
<1>3. \/ /\ inFlight'[w] = inFlight[w] \ {d.token} /\ handling' = handling
         /\ toWorker' = toWorker /\ toServer' = toServer
      \/ /\ inFlight'[w] = Forgotten(w) \ {d.token} /\ handling'[w] = Idle
         /\ toWorker'[w] = {} /\ toServer'[w] = {}
  BY DEF SendFails, Closed, TypeOK
<1> HIDE DEF d
<1>4. \A t \in Tokens : /\ Owed(w, t)' => Owed(w, t)
                        /\ Named(w, t)' => Named(w, t)
  BY <1>1, <1>3 DEF Owed, Named, Sending
<1>5. Limited(inFlight'[w])
  <2>1. inFlight'[w] \in SUBSET inFlight[w]
    BY <1>3 DEF Forgotten
  <2> QED BY <2>1, LimitedSubset DEF CapacityInv, Accounted
<1>6. handling[w] # Idle => ~Current(queue', handling[w].token)
  <2> SUFFICES ASSUME handling[w] # Idle PROVE ~Current(queue', handling[w].token)
    OBVIOUS
  <2>1. handling[w].token \in Tokens
    BY DEF TypeOK, Results
  <2>2. ~Current(queue, handling[w].token)
    BY DEF CapacityInv, Accounted
  <2> QED
    <3>1. CASE ~Current(queue, d.token)
      BY <1>1, <2>2, <3>1 DEF Operate
    <3>2. CASE Current(queue, d.token)
      <4>1. /\ d.token[1] \in Messages /\ handling[w].token[1] \in Messages
            /\ \A m \in Messages : m # d.token[1] => queue'[m] = queue[m]
        BY <1>1, <2>1, <3>2 DEF Operate, TypeOK, Tokens
      <4>2. queue'[d.token[1]].token = 0
        <5>1. queue[d.token[1]] \in QueueEntries
          BY <4>1 DEF TypeOK
        <5>2. queue'[d.token[1]] = GivenBack(queue[d.token[1]])
          BY <1>1, <3>2, <4>1 DEF Operate, TypeOK
        <5> QED BY <5>1, <5>2, Fields
      <4> QED BY <2>2, <4>1, <4>2 DEF Current, Held
    <3> QED BY <3>1, <3>2
<1>7. \A t \in Tokens : t \in inFlight[w] => t \in inFlight'[w] \/ ~Live(t)'
  BY <1>2, <1>3, <1>6 DEF Forgotten, Live
<1>8. handling'[w] # Idle => handling'[w] = handling[w]
  BY <1>3
<1> QED BY <1>4, <1>5, <1>7, <1>8 DEF Keeps

LEMMA HandleKeeps ==
  ASSUME TypeOK, CapacityInv, NEW w \in Workers, NEW f \in toServer[w], Handle(w, f)
  PROVE  Keeps(w)
<1> DEFINE h == [type |-> "result", token |-> f.token, attempt |-> f.attempt]
<1>1. /\ executing' = executing /\ dispatching' = dispatching /\ inFlight' = inFlight
      /\ toWorker' = toWorker /\ toServer'[w] = toServer[w] \ {f} /\ handling'[w] = h
      /\ Operate(f.kind, f.token)
  BY DEF Handle, worker, TypeOK
<1>2. h.token = f.token /\ f.token \in Tokens /\ f.kind \in {"ack", "release"}
  BY NamedTokens DEF Requests
<1> HIDE DEF h
<1>3. ~Current(queue', handling'[w].token)
  BY <1>1, <1>2, OperationEnds
<1>4. \A t \in Tokens : /\ Owed(w, t)' => Owed(w, t)
                        /\ Named(w, t)' => Named(w, t)
  BY <1>1, <1>2 DEF Owed, Named
<1>5. Limited(inFlight'[w])
  BY <1>1 DEF CapacityInv, Accounted
<1> QED BY <1>1, <1>3, <1>4, <1>5 DEF Keeps

LEMMA AnswerKeeps ==
  ASSUME TypeOK, CapacityInv, NEW w \in Workers, Answer(w)
  PROVE  Keeps(w)
<1>1. /\ executing' = executing /\ dispatching' = dispatching /\ queue' = queue
      /\ overdue' = overdue /\ toServer' = toServer /\ handling'[w] = Idle
      /\ toWorker'[w] = toWorker[w] \cup {handling[w]} /\ inFlight'[w] = Forgotten(w)
      /\ handling[w] \in Results
  BY DEF Answer, worker, TypeOK
<1>2. \A t \in Tokens : Message(t) # handling[w]
  <2>1. handling[w].type = "result"
    BY <1>1 DEF Results
  <2>2. \A t \in Tokens : Message(t).type = "message"
    BY DEF Message
  <2> QED BY <2>1, <2>2
<1>3. \A t \in Tokens : /\ Owed(w, t)' => Owed(w, t)
                        /\ Named(w, t)' => Named(w, t)
  BY <1>1, <1>2 DEF Owed, Named
<1>4. Accounted(w)
  BY DEF CapacityInv
<1>5. Limited(inFlight'[w])
  BY <1>1, <1>4, LimitedSubset DEF Forgotten, Accounted
<1>6. \A t \in Tokens : t \in inFlight[w] => t \in inFlight'[w] \/ ~Live(t)'
  BY <1>1, <1>4 DEF Forgotten, Accounted, Live
<1> QED BY <1>1, <1>3, <1>5, <1>6 DEF Keeps

LEMMA ConnectionKeeps ==
  ASSUME TypeOK, QueueInv, CapacityInv, NEW w \in Workers, Connection(w)
  PROVE  Keeps(w)
<1>1. CASE Connect(w)
  BY <1>1, Undisturbed DEF Connect, Pruned, network, worker, CapacityInv
<1>2. CASE SendReady(w)
  BY <1>2, Undisturbed DEF SendReady, network, worker, CapacityInv
<1> QED BY <1>1, <1>2, DisconnectKeeps, DispatchKeeps, TrackKeeps, SendMessageKeeps,
           SendFailsKeeps, HandleKeeps, AnswerKeeps DEF Connection

LEMMA ExecutorElsewhere ==
  ASSUME TypeOK, CapacityInv, NEW w \in Workers, Executor(w), NEW v \in Workers, v # w
  PROVE  Keeps(v)
<1>1. /\ overdue' = overdue /\ dispatching' = dispatching
      /\ executing'[v] = executing[v] /\ toWorker'[v] = toWorker[v]
      /\ toServer'[v] = toServer[v] /\ handling'[v] = handling[v]
      /\ inFlight'[v] = inFlight[v]
  <2>1. CASE \E f \in toWorker[w] : Receive(w, f.token) \/ Result(w, f)
    BY <2>1 DEF Receive, Result, server, TypeOK
  <2>2. CASE \E e \in executing[w] : Delivery(w, e)
    <3>1. /\ server' = server /\ overdue' = overdue /\ toWorker' = toWorker
          /\ toServer'[v] = toServer[v]
      BY <2>2 DEF Delivery, HandlerReturns, SendOperation, OperationFails, Renew,
         LoseReservation, network, TypeOK
    <3>2. executing'[v] = executing[v]
      BY <2>2 DEF Delivery, HandlerReturns, SendOperation, OperationFails, Renew,
         LoseReservation, Replace, TypeOK
    <3> QED BY <3>1, <3>2 DEF server
  <2>3. CASE Restart(w)
    BY <2>3 DEF Restart, Closed, TypeOK
  <2> QED BY <2>1, <2>2, <2>3 DEF Executor
<1> QED BY <1>1, Undisturbed DEF CapacityInv

\* A delivery keeps its token.
LEMMA DeliveryTokens ==
  ASSUME TypeOK, NEW w \in Workers, NEW e \in executing[w], Delivery(w, e)
  PROVE  \A d \in executing'[w] : \E c \in executing[w] : c.token = d.token
<1>0. e \in Executions
  BY NamedTokens
<1> DEFINE acked == [e EXCEPT !.phase = "ack"]
           released == [e EXCEPT !.phase = "release"]
           sent == [e EXCEPT !.sent = TRUE]
           again == [e EXCEPT !.attempt = @ + 1, !.sent = FALSE]
<1>1. /\ acked.token = e.token /\ released.token = e.token
      /\ sent.token = e.token /\ again.token = e.token
  BY <1>0 DEF Executions
<1>2. \/ UNCHANGED executing
      \/ Replace(w, e, {})
      \/ Replace(w, e, {acked}) \/ Replace(w, e, {released})
      \/ Replace(w, e, {sent}) \/ Replace(w, e, {again})
  BY DEF Delivery, HandlerReturns, SendOperation, OperationFails, Renew, LoseReservation
<1> HIDE DEF acked, released, sent, again
<1> QED BY <1>1, <1>2 DEF Replace, TypeOK

LEMMA DeliveryKeeps ==
  ASSUME TypeOK, CapacityInv, NEW w \in Workers, NEW e \in executing[w], Delivery(w, e)
  PROVE  Keeps(w)
<1>1. /\ dispatching' = dispatching /\ handling' = handling /\ inFlight' = inFlight
      /\ toWorker' = toWorker /\ overdue' = overdue
      /\ \A f \in toServer'[w] : f \in toServer[w] \/ f.token = e.token
  <2> DEFINE frame == [kind |-> OperationKind(e), token |-> e.token, attempt |-> e.attempt]
  <2>1. /\ server' = server /\ overdue' = overdue /\ toWorker' = toWorker
        /\ toServer' = toServer \/ toServer'[w] = toServer[w] \cup {frame}
    BY DEF Delivery, HandlerReturns, SendOperation, OperationFails, Renew,
       LoseReservation, network, TypeOK
  <2>2. frame.token = e.token
    OBVIOUS
  <2> HIDE DEF frame
  <2> QED BY <2>1, <2>2 DEF server
<1>2. \A d \in executing'[w] : \E c \in executing[w] : c.token = d.token
  BY DeliveryTokens
<1>3. \A t \in Tokens : /\ Owed(w, t)' => Owed(w, t)
                        /\ Named(w, t)' => Named(w, t)
  BY <1>1, <1>2 DEF Owed, Named
<1>4. Limited(inFlight'[w])
  BY <1>1 DEF CapacityInv, Accounted
<1> QED BY <1>1, <1>3, <1>4 DEF Keeps

LEMMA ExecutorKeeps ==
  ASSUME TypeOK, CapacityInv, NEW w \in Workers, Executor(w)
  PROVE  Keeps(w)
<1>1. Limited(inFlight[w])
  BY DEF CapacityInv, Accounted
<1>2. ASSUME NEW f \in toWorker[w], Receive(w, f.token)
      PROVE  Keeps(w)
  <2> DEFINE n == [token |-> f.token, attempt |-> 1, sent |-> FALSE,
                   phase |-> IF Cardinality(Borrowed(w)) < MaxConcurrency
                             THEN "running" ELSE "rejected"]
  <2>1. /\ Message(f.token) \in toWorker[w] /\ toWorker'[w] \subseteq toWorker[w]
        /\ executing'[w] = executing[w] \cup {n}
        /\ toServer' = toServer /\ server' = server
    BY <1>2 DEF Receive, Message, TypeOK
  <2>2. n.token = f.token
    OBVIOUS
  <2> HIDE DEF n
  <2>3. \A t \in Tokens : /\ Owed(w, t)' => Owed(w, t)
                          /\ Named(w, t)' => Named(w, t)
    BY <2>1, <2>2 DEF Owed, Named, server
  <2> QED BY <1>1, <2>1, <2>3 DEF Keeps, server
<1>3. ASSUME NEW f \in toWorker[w], Result(w, f)
      PROVE  Keeps(w)
  <2>1. /\ toWorker'[w] \subseteq toWorker[w] /\ executing'[w] \subseteq executing[w]
        /\ toServer' = toServer /\ server' = server
    BY <1>3 DEF Result, TypeOK
  <2>2. \A t \in Tokens : /\ Owed(w, t)' => Owed(w, t)
                          /\ Named(w, t)' => Named(w, t)
    BY <2>1 DEF Owed, Named, server
  <2> QED BY <1>1, <2>1, <2>2 DEF Keeps, server
<1>4. CASE Restart(w)
  <2>1. /\ toWorker'[w] = {} /\ executing'[w] = {} /\ toServer'[w] = {}
        /\ handling'[w] = Idle /\ inFlight'[w] = {} /\ dispatching'[w] = Idle
    BY <1>4 DEF Restart, Closed, TypeOK
  <2>2. \A t \in Tokens : ~Owed(w, t)' /\ ~Named(w, t)'
    BY <2>1 DEF Owed, Named, Sending
  <2>3. Limited(inFlight'[w])
    BY <1>1, <2>1, LimitedSubset
  <2> QED BY <2>1, <2>2, <2>3 DEF Keeps
<1> QED BY <1>2, <1>3, <1>4, DeliveryKeeps DEF Executor

LEMMA NextKeeps ==
  ASSUME TypeOK, QueueInv, CapacityInv, [Next]_vars, NEW v \in Workers
  PROVE  Keeps(v) /\ overdue \subseteq overdue'
<1>1. ASSUME NEW w \in Workers, Connection(w) \/ Executor(w)
      PROVE  Keeps(v) /\ overdue \subseteq overdue'
  <2>1. overdue' = overdue
    BY <1>1 DEF Connection, Connect, SendReady, Disconnect, Dispatch, Track, SendMessage,
       SendFails, Handle, Answer, Executor, Receive, Result, Restart, Delivery,
       HandlerReturns, SendOperation, OperationFails, Renew, LoseReservation
  <2> QED BY <1>1, <2>1, ConnectionElsewhere, ConnectionKeeps, ExecutorElsewhere, ExecutorKeeps
<1>2. ASSUME overdue \subseteq overdue', UNCHANGED <<dispatching, inFlight, handling>>,
             UNCHANGED <<network, worker>>
      PROVE  Keeps(v) /\ overdue \subseteq overdue'
  BY <1>2, Undisturbed DEF CapacityInv, network, worker
<1>3. ASSUME NEW m \in Messages, Enqueue(m) PROVE Keeps(v) /\ overdue \subseteq overdue'
  BY <1>2, <1>3 DEF Enqueue, server
<1>4. ASSUME NEW t, LeaseRunsOut(t) PROVE Keeps(v) /\ overdue \subseteq overdue'
  BY <1>2, <1>4 DEF LeaseRunsOut, server
<1>5. CASE Reconcile \/ DispatcherExits \/ DispatcherDone \/ UNCHANGED vars
  BY <1>2, <1>5 DEF Reconcile, DispatcherExits, DispatcherDone, vars, server
<1> QED BY <1>1, <1>3, <1>4, <1>5 DEF Next

\* What the server believes of a worker's capacity is true, for any number of
\* workers, messages and faults: every live reservation a worker is busy with
\* is in the registry, and the registry never holds more than the worker takes,
\* whatever is lost, late, answered twice or expired on the way
\* (worker_channel_cleanup.py:110).
THEOREM CapacityAlwaysAccounted == Spec => []CapacityAccounted
<1>1. Init => CapacityInv
  <2> SUFFICES ASSUME Init, NEW w \in Workers PROVE Accounted(w)
    BY DEF CapacityInv
  <2>1. Limited({})
    BY FS_EmptySet, CleanupAssumption DEF Limited
  <2>2. \A t \in Tokens : ~Named(w, t) /\ ~Owed(w, t)
    BY DEF Init, Named, Owed, Sending
  <2> QED BY <2>1, <2>2 DEF Init, Accounted
<1>2. ASSUME TypeOK, QueueInv, CapacityInv, [Next]_vars
      PROVE  CapacityInv'
  BY <1>2, NextSteps, NextKeeps, KeepsAccounted DEF CapacityInv
<1>3. TypeOK /\ CapacityInv => CapacityAccounted
  <2> SUFFICES ASSUME TypeOK, CapacityInv, NEW w \in Workers
               PROVE  /\ Cardinality(inFlight[w]) <= MaxConcurrency
                      /\ \A e \in executing[w] : Live(e.token) => e.token \in inFlight[w]
    BY DEF CapacityAccounted
  <2>1. \A e \in executing[w] : e.token \in Tokens
    BY NamedTokens
  <2> QED BY <2>1 DEF CapacityInv, Accounted, Limited, Owed
<1> QED BY <1>1, <1>2, <1>3, TypesAndEntries, PTL DEF Spec
=============================================================================
