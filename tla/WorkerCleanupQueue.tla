------------------------- MODULE WorkerCleanupQueue -------------------------
(***************************************************************************)
(* Cleanup delivery: the server's queue of cleanup messages, the           *)
(* dispatcher that hands them to connected workers, the connections, and   *)
(* the executor of a worker that runs a handler and acknowledges or        *)
(* releases the message.  One work pool.                                   *)
(*                                                                         *)
(* A reservation is named by its token <<m, n>>: the n-th one of message   *)
(* m.  Time is what may happen next: the lease of a token that is in use   *)
(* runs out at any moment (overdue), and a worker, whose clock is its own, *)
(* may think so at any other moment.                                       *)
(***************************************************************************)
EXTENDS Naturals, FiniteSets

CONSTANTS
  Messages, Workers,
  Idle,                  \* a connection that is not busy
  MaxDeliveryAttempts,   \* cleanup_max_delivery_attempts
  Retention,             \* cleanup_completed_idempotency_retention_seconds is set
  MaxConcurrency,        \* max_cleanup_concurrency of a worker
  MaxOperationAttempts,  \* max_operation_attempts of a worker
  MaxTokens,             \* bound: reservations of a message
  MaxFaults              \* bound: connections that break, workers that restart

Tokens == Messages \X (Nat \ {0})

Dispatches == [token : Tokens, tracked : BOOLEAN, closed : BOOLEAN]

Results ==
  [type : {"result"}, token : Tokens, attempt : 1..MaxOperationAttempts]

ASSUME CleanupAssumption ==
  /\ MaxDeliveryAttempts \in Nat \ {0}
  /\ Retention \in BOOLEAN
  /\ MaxConcurrency \in Nat \ {0}
  /\ MaxOperationAttempts \in Nat \ {0}
  /\ MaxTokens \in Nat
  /\ MaxFaults \in Nat
  /\ Idle \notin Dispatches \cup Results

VARIABLES
  queue,        \* messages, reservations, dead letters and acked messages
  overdue,      \* tokens whose lease_expires_at has passed
  conn,         \* the connection of a worker: down, open or ready
  dispatcher,   \* the dispatch task: none, running or exiting
  dispatching,  \* the delivery a connection is busy with
  inFlight,     \* the registry's tokens per worker
  handling,     \* the operation a connection is answering
  toServer, toWorker,  \* frames on their way
  executing,    \* the deliveries a worker is busy with
  cleaned,      \* history: tokens whose handler succeeded
  faults        \* how often a connection or a worker failed

server == <<conn, dispatcher, dispatching, inFlight, handling>>
network == <<toServer, toWorker>>
worker == <<executing, cleaned>>
vars == <<queue, overdue, server, network, worker, faults>>

QueueEntries ==
  [place : {"absent", "active", "acked", "dead"}, count : Nat,
   issued : Nat, token : Nat]

Executions ==
  [token : Tokens, phase : {"running", "ack", "release", "rejected"},
   attempt : 1..MaxOperationAttempts, sent : BOOLEAN]

Requests ==
  [kind : {"ack", "release"}, token : Tokens, attempt : 1..MaxOperationAttempts]

Deliveries == [type : {"message"}, token : Tokens]

TypeOK ==
  /\ queue \in [Messages -> QueueEntries]
  /\ overdue \subseteq Tokens
  /\ conn \in [Workers -> {"down", "open", "ready"}]
  /\ dispatcher \in {"none", "running", "exiting"}
  /\ dispatching \in [Workers -> {Idle} \cup Dispatches]
  /\ inFlight \in [Workers -> SUBSET Tokens]
  /\ handling \in [Workers -> {Idle} \cup Results]
  /\ toServer \in [Workers -> SUBSET Requests]
  /\ toWorker \in [Workers -> SUBSET (Deliveries \cup Results)]
  /\ executing \in [Workers -> SUBSET Executions]
  /\ cleaned \subseteq Tokens
  /\ faults \in 0..MaxFaults

-----------------------------------------------------------------------------
(* The queue (cleanup_queue/memory.py).  Every operation holds its lock.    *)

Held(r) == r.place = "active" /\ r.token # 0

\* Mutant: one attempt too many.
GivenBackOnceMore(r) ==
  [r EXCEPT !.token = 0,
            !.place = IF r.count > MaxDeliveryAttempts THEN "dead" ELSE @]

\* _expire_message_lease_locked, and release: the message becomes free, or a
\* dead letter when it has no attempts left.
GivenBack(r) ==
  [r EXCEPT !.token = 0,
            !.place = IF r.count >= MaxDeliveryAttempts THEN "dead" ELSE @]

\* Mutant: only messages to be given up.
ExpireDueExhausted(q) ==
  [m \in Messages |->
     IF /\ Held(q[m]) /\ <<m, q[m].token>> \in overdue
        /\ q[m].count >= MaxDeliveryAttempts
     THEN GivenBack(q[m]) ELSE q[m]]

\* _expire_due_leases_locked
ExpireDue(q) ==
  [m \in Messages |->
     IF Held(q[m]) /\ <<m, q[m].token>> \in overdue THEN GivenBack(q[m]) ELSE q[m]]

Reserve(r) ==
  [r EXCEPT !.count = @ + 1, !.issued = @ + 1, !.token = r.issued + 1]

Current(q, t) == Held(q[t[1]]) /\ q[t[1]].token = t[2]

Live(t) == Current(queue, t) /\ t \notin overdue

\* ack, release and renew with _validate_current_reservation_locked: whoever
\* is not the holder changes nothing, and a holder who is late loses it.
Operate(kind, t) ==
  queue' =
    IF ~Current(queue, t) THEN queue
    ELSE [queue EXCEPT ![t[1]] =
            IF t \in overdue \/ kind = "release" THEN GivenBack(@)
            ELSE IF kind = "ack" THEN [@ EXCEPT !.place = "acked", !.token = 0]
            ELSE @]

\* A repeated enqueue finds the message and changes nothing, until its
\* completion has been pruned (_prune_completed_idempotency_locked).
Enqueue(m) ==
  /\ \/ queue[m].place = "absent"
     \/ Retention /\ queue[m].place = "acked"
  /\ queue[m].issued + MaxDeliveryAttempts <= MaxTokens
  /\ queue' = [queue EXCEPT ![m].place = "active", ![m].count = 0]
  /\ UNCHANGED <<overdue, server, network, worker, faults>>

\* reconcile_cleanup_delivery: expire_leases
Reconcile ==
  /\ queue' = ExpireDue(queue)
  /\ UNCHANGED <<overdue, server, network, worker, faults>>

LeaseRunsOut(t) ==
  /\ Current(queue, t) \/ \E w \in Workers : t \in inFlight[w]
  /\ overdue' = overdue \cup {t}
  /\ UNCHANGED <<queue, server, network, worker, faults>>

-----------------------------------------------------------------------------
(* Connections and the dispatch task (utilities/worker_channel_cleanup.py,  *)
(* utilities/worker_channel.py).                                            *)

\* Mutants: the comparison is turned around; nothing is pruned.
PrunedLive == [w \in Workers |-> inFlight[w] \cap overdue]
PrunedNever == inFlight

\* _prune_expired_cleanup_reservations_for_work_pool_locked
Pruned == [w \in Workers |-> inFlight[w] \ overdue]

\* Mutant: any task that is not done will serve.
ConnectToAnyTask(w) ==
  /\ conn[w] = "down"
  /\ conn' = [conn EXCEPT ![w] = "open"]
  /\ inFlight' = Pruned
  /\ dispatcher' = IF dispatcher = "none" THEN "running" ELSE dispatcher
  /\ UNCHANGED <<queue, overdue, dispatching, handling, network, worker, faults>>

\* run and register: an exiting dispatch task is replaced by a new one.
Connect(w) ==
  /\ conn[w] = "down"
  /\ conn' = [conn EXCEPT ![w] = "open"]
  /\ inFlight' = Pruned
  /\ dispatcher' = "running"
  /\ UNCHANGED <<queue, overdue, dispatching, handling, network, worker, faults>>

\* _send_loop: the ready frame is out.
SendReady(w) ==
  /\ conn[w] = "open"
  /\ conn' = [conn EXCEPT ![w] = "ready"]
  /\ UNCHANGED <<queue, overdue, dispatcher, dispatching, inFlight, handling,
                 network, worker, faults>>

\* _dispatch_loop: no connection is left.
DispatcherExits ==
  /\ dispatcher = "running"
  /\ \A w \in Workers : conn[w] = "down"
  /\ dispatcher' = "exiting"
  /\ UNCHANGED <<queue, overdue, conn, dispatching, inFlight, handling,
                 network, worker, faults>>

\* The finally of _dispatch_loop, unless a new task has taken over.
DispatcherDone ==
  /\ dispatcher = "exiting"
  /\ dispatcher' = "none"
  /\ UNCHANGED <<queue, overdue, conn, dispatching, inFlight, handling,
                 network, worker, faults>>

\* The answer to an operation ends the token's place in the registry
\* (_sync_cleanup_operation_result), even when it cannot be sent.
Forgotten(w) ==
  IF handling[w] = Idle THEN inFlight[w] ELSE inFlight[w] \ {handling[w].token}

\* The connection of w is gone, with every frame on it and the answer it was
\* about to send; a delivery in progress finds it closed.
Closed(w) ==
  /\ conn' = [conn EXCEPT ![w] = "down"]
  /\ handling' = [handling EXCEPT ![w] = Idle]
  /\ toServer' = [toServer EXCEPT ![w] = {}]
  /\ toWorker' = [toWorker EXCEPT ![w] = {}]

Disconnect(w) ==
  /\ conn[w] # "down"
  /\ faults < MaxFaults
  /\ faults' = faults + 1
  /\ Closed(w)
  /\ inFlight' = [inFlight EXCEPT ![w] = Forgotten(w)]
  /\ dispatching' = [dispatching EXCEPT ![w] =
                       IF @ = Idle THEN Idle ELSE [@ EXCEPT !.closed = TRUE]]
  /\ UNCHANGED <<queue, overdue, dispatcher, worker>>

\* dispatch_available and dispatch_one_cleanup_message up to the reservation:
\* overdue leases are expired first; the preferred work queues decide which
\* free message it is.
Dispatch(w) ==
  /\ conn[w] = "ready"
  /\ dispatching[w] = Idle
  /\ inFlight' = Pruned
  /\ IF Cardinality(Pruned[w]) < MaxConcurrency
     THEN LET q == ExpireDue(queue)
              free == {m \in Messages : q[m].place = "active" /\ q[m].token = 0}
          IN \/ \E m \in free :
                  /\ queue' = [q EXCEPT ![m] = Reserve(@)]
                  /\ dispatching' = [dispatching EXCEPT ![w] =
                       [token |-> <<m, queue[m].issued + 1>>,
                        tracked |-> FALSE, closed |-> FALSE]]
             \/ free = {} /\ queue' = q /\ UNCHANGED dispatching
     ELSE UNCHANGED <<queue, dispatching>>
  /\ UNCHANGED <<overdue, conn, dispatcher, handling, network, worker, faults>>

\* track_cleanup_reservation, or the reservation is released unsent.
Track(w) ==
  LET d == dispatching[w] IN
  /\ d # Idle /\ ~d.tracked
  /\ IF ~d.closed /\ Cardinality(inFlight[w] \ overdue) < MaxConcurrency
     THEN /\ inFlight' = [inFlight EXCEPT ![w] = (@ \ overdue) \cup {d.token}]
          /\ dispatching' = [dispatching EXCEPT ![w].tracked = TRUE]
          /\ UNCHANGED queue
     ELSE /\ Operate("release", d.token)
          /\ dispatching' = [dispatching EXCEPT ![w] = Idle]
          /\ inFlight' = IF d.closed THEN inFlight
                         ELSE [inFlight EXCEPT ![w] = @ \ overdue]
  /\ UNCHANGED <<overdue, conn, dispatcher, handling, network, worker, faults>>

\* _send_frame of the cleanup message
SendMessage(w) ==
  LET d == dispatching[w] IN
  /\ d # Idle /\ d.tracked /\ ~d.closed
  /\ toWorker' = [toWorker EXCEPT ![w] = @ \cup {[type |-> "message", token |-> d.token]}]
  /\ dispatching' = [dispatching EXCEPT ![w] = Idle]
  /\ UNCHANGED <<queue, overdue, conn, dispatcher, inFlight, handling, toServer,
                 worker, faults>>

\* _release_cleanup_delivery_failure on a connection that is closed or, by
\* this failure, closes.
SendFails(w) ==
  LET d == dispatching[w] IN
  /\ d # Idle /\ d.tracked
  /\ IF d.closed
     THEN /\ inFlight' = [inFlight EXCEPT ![w] = @ \ {d.token}]
          /\ UNCHANGED <<conn, handling, toServer, toWorker, faults>>
     ELSE /\ faults < MaxFaults
          /\ faults' = faults + 1
          /\ Closed(w)
          /\ inFlight' = [inFlight EXCEPT ![w] = Forgotten(w) \ {d.token}]
  /\ Operate("release", d.token)
  /\ dispatching' = [dispatching EXCEPT ![w] = Idle]
  /\ UNCHANGED <<overdue, dispatcher, worker>>

\* _handle_cleanup_operation: the queue's part, ...
Handle(w, f) ==
  /\ conn[w] = "ready"
  /\ handling[w] = Idle
  /\ f \in toServer[w]
  /\ toServer' = [toServer EXCEPT ![w] = @ \ {f}]
  /\ Operate(f.kind, f.token)
  /\ handling' = [handling EXCEPT ![w] =
       [type |-> "result", token |-> f.token, attempt |-> f.attempt]]
  /\ UNCHANGED <<overdue, conn, dispatcher, dispatching, inFlight, toWorker,
                 worker, faults>>

\* ... and the answer.
Answer(w) ==
  /\ handling[w] # Idle
  /\ toWorker' = [toWorker EXCEPT ![w] = @ \cup {handling[w]}]
  /\ inFlight' = [inFlight EXCEPT ![w] = Forgotten(w)]
  /\ handling' = [handling EXCEPT ![w] = Idle]
  /\ UNCHANGED <<queue, overdue, conn, dispatcher, dispatching, toServer,
                 worker, faults>>

-----------------------------------------------------------------------------
(* The worker's executor (workers/_cleanup.py).                             *)

Replace(w, e, new) ==
  executing' = [executing EXCEPT ![w] = (@ \ {e}) \cup new]

\* The deliveries that hold the limiter; others are released right away.
Borrowed(w) == {e \in executing[w] : e.phase # "rejected"}

\* execute, when the message is handed to the executor
Receive(w, t) ==
  /\ [type |-> "message", token |-> t] \in toWorker[w]
  /\ toWorker' = [toWorker EXCEPT ![w] = @ \ {[type |-> "message", token |-> t]}]
  /\ executing' = [executing EXCEPT ![w] = @ \cup
       {[token |-> t, attempt |-> 1, sent |-> FALSE,
         phase |-> IF Cardinality(Borrowed(w)) < MaxConcurrency
                   THEN "running" ELSE "rejected"]}]
  /\ UNCHANGED <<queue, overdue, server, toServer, cleaned, faults>>

\* The handler acknowledges or releases.
HandlerReturns(w, e) ==
  /\ e.phase = "running"
  /\ \/ /\ Replace(w, e, {[e EXCEPT !.phase = "ack"]})
        /\ cleaned' = cleaned \cup {e.token}
     \/ /\ Replace(w, e, {[e EXCEPT !.phase = "release"]})
        /\ UNCHANGED cleaned
  /\ UNCHANGED <<queue, overdue, server, network, faults>>

\* Mutant: a message that was refused is acknowledged.
OperationKindAck(e) == IF e.phase = "release" THEN "release" ELSE "ack"

\* _send_operation_once, for the operation that ends the delivery
OperationKind(e) == IF e.phase = "ack" THEN "ack" ELSE "release"

SendOperation(w, e) ==
  /\ e.phase # "running"
  /\ ~e.sent
  /\ conn[w] = "ready"
  /\ toServer' = [toServer EXCEPT ![w] = @ \cup
       {[kind |-> OperationKind(e), token |-> e.token, attempt |-> e.attempt]}]
  /\ Replace(w, e, {[e EXCEPT !.sent = TRUE]})
  /\ UNCHANGED <<queue, overdue, server, toWorker, cleaned, faults>>

\* Mutant: counts one further.
OperationFailsOnceMore(w, e) ==
  /\ e.phase # "running"
  /\ e.sent \/ conn[w] # "ready"
  /\ Replace(w, e, IF e.attempt > MaxOperationAttempts THEN {}
                   ELSE {[e EXCEPT !.attempt = @ + 1, !.sent = FALSE]})
  /\ UNCHANGED <<queue, overdue, server, network, cleaned, faults>>

\* _send_operation_until_resolved: the answer does not come in time, or there
\* is no connection; after the last attempt the worker leaves it there.
OperationFails(w, e) ==
  /\ e.phase # "running"
  /\ e.sent \/ conn[w] # "ready"
  /\ Replace(w, e, IF e.attempt = MaxOperationAttempts THEN {}
                   ELSE {[e EXCEPT !.attempt = @ + 1, !.sent = FALSE]})
  /\ UNCHANGED <<queue, overdue, server, network, cleaned, faults>>

\* _renew_until_finished, with the answer: a renewal that is refused cancels
\* the delivery, one that gets no answer is sent again.
Renew(w, e) ==
  /\ e.phase # "rejected"
  /\ conn[w] = "ready"
  /\ Operate("renew", e.token)
  /\ IF Live(e.token) THEN UNCHANGED executing ELSE Replace(w, e, {})
  /\ UNCHANGED <<overdue, server, network, cleaned, faults>>

\* handle_operation_result: the answer to the pending attempt ends the
\* delivery, whatever it says; any other answer is ignored.
Result(w, f) ==
  LET ended == {e \in executing[w] :
                  /\ e.token = f.token /\ e.attempt = f.attempt
                  /\ e.phase # "running" /\ e.sent}
  IN
  /\ f \in toWorker[w] /\ f.type = "result"
  /\ toWorker' = [toWorker EXCEPT ![w] = @ \ {f}]
  /\ executing' = [executing EXCEPT ![w] = @ \ ended]
  /\ UNCHANGED <<queue, overdue, server, toServer, cleaned, faults>>

\* _lose_reservation: by the worker's clock the lease is over, and the
\* handler or the pending operation is cancelled.
LoseReservation(w, e) ==
  /\ e.phase # "rejected"
  /\ Replace(w, e, {})
  /\ UNCHANGED <<queue, overdue, server, network, cleaned, faults>>

\* A worker dies and starts anew, with a consumer_id the registry does not know.
Restart(w) ==
  /\ faults < MaxFaults
  /\ dispatching[w] = Idle
  /\ faults' = faults + 1
  /\ Closed(w)
  /\ executing' = [executing EXCEPT ![w] = {}]
  /\ inFlight' = [inFlight EXCEPT ![w] = {}]
  /\ UNCHANGED <<queue, overdue, dispatcher, dispatching, cleaned>>

-----------------------------------------------------------------------------

Init ==
  /\ queue = [m \in Messages |->
                [place |-> "absent", count |-> 0, issued |-> 0, token |-> 0]]
  /\ overdue = {}
  /\ conn = [w \in Workers |-> "down"]
  /\ dispatcher = "none"
  /\ dispatching = [w \in Workers |-> Idle]
  /\ inFlight = [w \in Workers |-> {}]
  /\ handling = [w \in Workers |-> Idle]
  /\ toServer = [w \in Workers |-> {}]
  /\ toWorker = [w \in Workers |-> {}]
  /\ executing = [w \in Workers |-> {}]
  /\ cleaned = {}
  /\ faults = 0

Connection(w) ==
  \/ Connect(w) \/ SendReady(w) \/ Disconnect(w)
  \/ Dispatch(w) \/ Track(w) \/ SendMessage(w) \/ SendFails(w)
  \/ \E f \in toServer[w] : Handle(w, f)
  \/ Answer(w)

Delivery(w, e) ==
  \/ HandlerReturns(w, e) \/ SendOperation(w, e) \/ OperationFails(w, e)
  \/ Renew(w, e) \/ LoseReservation(w, e)

Executor(w) ==
  \/ \E f \in toWorker[w] : Receive(w, f.token) \/ Result(w, f)
  \/ \E e \in executing[w] : Delivery(w, e)
  \/ Restart(w)

\* The tokens in use: the others' leases are nobody's business.
TokensInUse ==
  {<<m, queue[m].token>> : m \in {m \in Messages : Held(queue[m])}}
    \cup UNION {inFlight[w] : w \in Workers}

Next ==
  \/ \E m \in Messages : Enqueue(m)
  \/ Reconcile
  \/ \E t \in TokensInUse : LeaseRunsOut(t)
  \/ DispatcherExits \/ DispatcherDone
  \/ \E w \in Workers : Connection(w) \/ Executor(w)

\* The reconciler and the dispatcher are loops, a worker reconnects with a
\* backoff, tasks of the event loops go on, time passes.  Nothing is assumed
\* of producers, faults, renewals, or of a worker that gives up by its clock.
\* One condition for the server and one for the workers are enough: but for
\* what renewals undo, no step of theirs can be taken for ever.
ServerSteps ==
  \/ Reconcile
  \/ \E w \in Workers :
       \/ Connect(w) \/ SendReady(w)
       \/ Dispatch(w) \/ Track(w) \/ SendMessage(w) \/ SendFails(w)
       \/ Answer(w) \/ \E f \in toServer[w] : Handle(w, f)

WorkerSteps ==
  \E w \in Workers :
    \/ \E f \in toWorker[w] : Receive(w, f.token) \/ Result(w, f)
    \/ \E e \in executing[w] :
         HandlerReturns(w, e) \/ SendOperation(w, e) \/ OperationFails(w, e)

Fairness ==
  /\ WF_vars(ServerSteps)
  /\ WF_vars(WorkerSteps)
  /\ WF_vars(\E t \in TokensInUse : LeaseRunsOut(t))

Spec == Init /\ [][Next]_vars /\ Fairness

-----------------------------------------------------------------------------
(* Properties *)

Status(m) ==
  IF queue[m].place # "active" THEN queue[m].place
  ELSE IF queue[m].token = 0 THEN "waiting" ELSE "held"

Lifecycle == INSTANCE CleanupLifecycle
               WITH status <- [m \in Messages |-> Status(m)],
                    count <- [m \in Messages |-> queue[m].count]

\* The queue keeps its promise to every message: it implements the lifecycle.
\* Late acknowledgements, repeated operations, expiries by the reconciler and
\* by dispatchers at the same time never complete a message nobody holds, give
\* up one that has attempts left, or deliver one that is done
\* (cleanup_queue/memory.py:546).
QueueKeepsLifecycle == Lifecycle!Spec

\* A message is acknowledged only if the handler of its last delivery has
\* succeeded: neither an earlier delivery nor one that failed completes it
\* (workers/_cleanup.py:348, memory.py:592).
AckedWasCleaned ==
  \A m \in Messages : queue[m].place = "acked" => <<m, queue[m].issued>> \in cleaned

\* The registry knows every live reservation a worker is busy with, and never
\* more than the worker takes: what the server believes of a worker's capacity
\* stays true through failed sends, lost answers and renewals
\* (worker_channel_cleanup.py:110).
CapacityAccounted ==
  \A w \in Workers :
    /\ Cardinality(inFlight[w]) <= MaxConcurrency
    /\ \A e \in executing[w] :
         Live(e.token) => e.token \in inFlight[w]

\* Whoever is connected has a dispatch task that is not on its way out, even
\* if it connected while the last one was exiting
\* (worker_channel_cleanup.py:220).
DispatcherServes ==
  (\E w \in Workers : conn[w] # "down") => dispatcher = "running"

\* Every stored message ends acknowledged or as a dead letter, although
\* connections break, workers die and frames are lost
\* (cleanup_reconciler.py:41).
EveryMessageSettles ==
  \A m \in Messages : (queue[m].place = "active") ~> (queue[m].place \in {"acked", "dead"})

\* No token occupies the capacity of a worker forever.
CapacityReturns ==
  \A w \in Workers, t \in Messages \X (1..MaxTokens) : (t \in inFlight[w]) ~> (t \notin inFlight[w])
=============================================================================
