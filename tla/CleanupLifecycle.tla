-------------------------- MODULE CleanupLifecycle --------------------------
(***************************************************************************)
(* What the cleanup delivery queue promises about every message, whatever  *)
(* connections, workers and clocks do: the interface documented by         *)
(* WorkerCleanupQueue in server/worker_communication/cleanup_queue/.       *)
(* One step may move several messages, each by one of the actions.         *)
(***************************************************************************)
EXTENDS Naturals

CONSTANTS
  Messages,
  MaxDeliveryAttempts,  \* reservations of a message before it is given up
  Retention             \* whether completed idempotency records are pruned

VARIABLES
  status,  \* where a message is
  count    \* its committed deliveries

lifecycle == <<status, count>>

Init ==
  /\ status = [m \in Messages |-> "absent"]
  /\ count = [m \in Messages |-> 0]

\* m goes from one of the statuses to another.
Move(m, from, to) == status[m] \in from /\ status'[m] = to

\* A producer stores the message.  Storing it again is a duplicate, unless it
\* was completed and the record of that has been pruned.
Accept(m) ==
  /\ Move(m, {"absent"} \cup (IF Retention THEN {"acked"} ELSE {}), "waiting")
  /\ count'[m] = 0

\* It is handed out, possibly the moment the last holder lost it.
Deliver(m) ==
  /\ Move(m, {"waiting", "held"}, "held")
  /\ count[m] < MaxDeliveryAttempts
  /\ count'[m] = count[m] + 1

\* The holder gives it back or loses it, and attempts are left.
Return(m) ==
  /\ Move(m, {"held"}, "waiting")
  /\ count[m] < MaxDeliveryAttempts
  /\ count'[m] = count[m]

Complete(m) == Move(m, {"held"}, "acked") /\ count'[m] = count[m]

\* Only a message that used all of its attempts is given up.
GiveUp(m) ==
  /\ Move(m, {"held"}, "dead")
  /\ count[m] = MaxDeliveryAttempts
  /\ count'[m] = count[m]

Rest(m) == status'[m] = status[m] /\ count'[m] = count[m]

Next ==
  \A m \in Messages :
    Accept(m) \/ Deliver(m) \/ Return(m) \/ Complete(m) \/ GiveUp(m) \/ Rest(m)

Spec == Init /\ [][Next]_lifecycle
=============================================================================
