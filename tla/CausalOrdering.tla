--------------------------- MODULE CausalOrdering ---------------------------
(***************************************************************************)
(* How the triggers consumer evaluates events in causal order: the memory  *)
(* broker's subscription with its retries and dead letters, the consumers, *)
(* the ordering with its waitlist of followers, and the periodic sweep of  *)
(* lost followers.                                                         *)
(*                                                                         *)
(* All of it is one asyncio event loop.  Nothing awaits while it holds the *)
(* ordering's lock, so code runs undivided from one evaluation, poll or    *)
(* fetch of a message to the next; each action below is such a piece.      *)
(***************************************************************************)
EXTENDS Integers, Sequences, FiniteSets, FiniteSetsExt

CONSTANTS
  Events,         \* 1..n, in the order they occurred
  Shapes,         \* the follows links to check: functions from Events
  Consumers,      \* the loops of the consumer
  Sweeper,        \* the task of periodic_evaluation
  MaxRetries,     \* of a subscription
  MaxDepth,       \* MAX_DEPTH_OF_PRECEDING_EVENT
  Duplicated,     \* bound: the events that are delivered twice
  MaxFailures     \* bound: evaluations that raise

NoEvent == 0

ASSUME OrderingAssumption ==
  /\ Events \subseteq Nat \ {NoEvent} /\ IsFiniteSet(Events)
  /\ Shapes \subseteq [Events -> Events \cup {NoEvent}]
  /\ Sweeper \notin Consumers
  /\ Duplicated \subseteq Events
  /\ {MaxRetries, MaxDepth, MaxFailures} \subseteq Nat

Tasks == Consumers \cup {Sweeper}

\* A received event; each copy is received at a time of its own.
Copies == [event : Events, copy : 1..2]

VARIABLES
  follows,     \* the event an event follows
  published,   \* how often an event was delivered by the broker
  inbox,       \* the subscription's queues: copies and their retries
  dead,        \* events with a copy among the dead letters
  calls,       \* the nested evaluations of a task, the current one last
  message,     \* what a consumer is to acknowledge or retry
  waitlist,    \* followers waiting for their leaders
  aged,        \* copies received longer ago than PRECEDING_EVENT_LOOKBACK
  processing, seen,
  failures,    \* how many evaluations have raised
  dropped      \* history: events of the sweeps that were given up

broker == <<published, inbox, dead>>
vars == <<follows, broker, calls, message, waitlist, aged, processing, seen,
          failures, dropped>>

\* phase says what the call waits for: its leader, or its evaluation.  rest
\* are the followers its loop has yet to call, in the order they occurred; the
\* sweep is such a loop, too.
Calls == [of : Copies, phase : {"leader", "evaluation"}, rest : SUBSET Copies]

SweepCall(lost) ==
  [of |-> [event |-> NoEvent, copy |-> 0], phase |-> "evaluation", rest |-> lost]

Call(c, phase) == [of |-> c, phase |-> phase, rest |-> {}]

Messages == [of : Copies, retries : 0..MaxRetries]

TypeOK ==
  /\ follows \in Shapes
  /\ published \in [Events -> 0..2]
  /\ inbox \subseteq Messages
  /\ dead \subseteq Events
  /\ \A t \in Consumers : \A i \in DOMAIN calls[t] : calls[t][i] \in Calls
  /\ \A i \in DOMAIN calls[Sweeper] : i > 1 => calls[Sweeper][i] \in Calls
  /\ \A t \in Consumers : calls[t] # <<>> => message[t] \in Messages
  /\ waitlist \subseteq Copies
  /\ aged \subseteq Copies
  /\ processing \subseteq Events
  /\ seen \subseteq Events
  /\ failures \in 0..MaxFailures
  /\ dropped \subseteq Events

Busy(t) == calls[t] # <<>>
Current(t) == calls[t][Len(calls[t])]

-----------------------------------------------------------------------------
(* The subscription (utilities/messaging/memory.py) *)

Publish(e) ==
  /\ published[e] < IF e \in Duplicated THEN 2 ELSE 1
  /\ published' = [published EXCEPT ![e] = @ + 1]
  /\ inbox' = inbox \cup
       {[of |-> [event |-> e, copy |-> published[e] + 1], retries |-> 0]}
  /\ UNCHANGED <<follows, dead, calls, message, waitlist, aged, processing,
                 seen, failures, dropped>>

\* Mutant: retried for ever.
RetryForever(m) ==
  /\ inbox' = (inbox \ {m}) \cup {[m EXCEPT !.retries = @ + 1]}
  /\ UNCHANGED dead

\* Subscription.retry
Retry(m) ==
  IF m.retries + 1 > MaxRetries
  THEN /\ inbox' = inbox \ {m}
       /\ dead' = dead \cup {m.of.event}
  ELSE /\ inbox' = (inbox \ {m}) \cup {[m EXCEPT !.retries = @ + 1]}
       /\ UNCHANGED dead

Acknowledge(m) == inbox' = inbox \ {m} /\ UNCHANGED dead

-----------------------------------------------------------------------------
(* The ordering (server/events/ordering/memory.py) *)

Leader(c) == follows[c.event]

\* wait_for_leader, where it returns at once
MayProceed(c) ==
  \/ Leader(c) \in {NoEvent, c.event}
  \/ c \in aged
  \/ Leader(c) \in seen

\* The lookback matters to those who wait and to those who still may.
TimePasses(c) ==
  /\ c \in waitlist \/ (~MayProceed(c) /\ \E m \in inbox : m.of = c)
  /\ aged' = aged \cup {c}
  /\ UNCHANGED <<follows, broker, calls, message, waitlist, processing, seen,
                 failures, dropped>>

RecordFollower(c) == {w \in waitlist : w.event # c.event} \cup {c}

\* The one of them that occurred first
First(C) == CHOOSE c \in C : \A d \in C : c.event <= d.event

Followers(e) == {w \in waitlist : Leader(w) = e}

\* Mutant: whoever follows an event that never came waits on.
LostAfterLeader == {w \in waitlist \cap aged : published[Leader(w)] > 0}

Lost == waitlist \cap aged

\* An exception leaves every call of the task: the message is retried, but
\* the event the sweep is at and those after it are gone.
Abort(t) ==
  /\ calls' = [calls EXCEPT ![t] = <<>>]
  /\ IF t = Sweeper
     THEN /\ dropped' = dropped \cup {calls[t][2].of.event}
                               \cup {c.event : c \in calls[t][1].rest}
          /\ UNCHANGED <<inbox, dead>>
     ELSE Retry(message[t]) /\ UNCHANGED dropped
  /\ UNCHANGED message

\* Every call is over: the message is acknowledged, or the sweep complete.
Return(t) ==
  /\ calls' = [calls EXCEPT ![t] = <<>>]
  /\ IF t = Sweeper THEN UNCHANGED <<inbox, dead>> ELSE Acknowledge(message[t])
  /\ UNCHANGED <<message, dropped>>

-----------------------------------------------------------------------------
(* message_handler and reactive_evaluation (server/events/triggers.py) *)

\* Mutant: the one that is refused clears the mark of the other.
RefuseAndForget(m) == Retry(m) /\ processing' = processing \ {m.of.event}

\* EventBeingProcessed
Refuse(m) == Retry(m) /\ UNCHANGED processing

\* A consumer takes a message and gets as far as it can.
Take(t, m) ==
  LET c == m.of
      Enter(phase) ==
        /\ calls' = [calls EXCEPT ![t] = <<Call(c, phase)>>]
        /\ message' = [message EXCEPT ![t] = m]
        /\ processing' = processing \cup {c.event}
        /\ UNCHANGED <<inbox, dead, waitlist>>
  IN
  /\ ~Busy(t)
  /\ m \in inbox /\ \A u \in Consumers : Busy(u) => message[u] # m
  /\ \/ /\ c.event \in seen
        /\ Acknowledge(m)
        /\ UNCHANGED <<calls, message, waitlist, processing>>
     \/ /\ c.event \in processing \ seen
        /\ Refuse(m)
        /\ UNCHANGED <<calls, message, waitlist>>
     \/ /\ c.event \notin processing \cup seen
        /\ \/ MayProceed(c) /\ Enter("evaluation")
           \/ ~MayProceed(c) /\ Leader(c) \in processing /\ Enter("leader")
           \/ \* EventArrivedEarly
              /\ ~MayProceed(c) /\ Leader(c) \notin processing
              /\ waitlist' = RecordFollower(c)
              /\ Acknowledge(m)
              /\ UNCHANGED <<calls, message, processing>>
  /\ UNCHANGED <<follows, published, aged, seen, failures, dropped>>

\* Mutant: a leader that is no longer processed will have been seen.
LeaderSeenUnlessProcessing(t) ==
  /\ Busy(t) /\ Current(t).phase = "leader"
  /\ Leader(Current(t).of) \notin processing
  /\ calls' = [calls EXCEPT ![t][Len(calls[t])].phase = "evaluation"]
  /\ UNCHANGED <<follows, broker, message, waitlist, aged, processing, seen,
                 failures, dropped>>

\* The poll of wait_for_leader finds the leader seen, ...
LeaderSeen(t) ==
  /\ Busy(t) /\ Current(t).phase = "leader"
  /\ Leader(Current(t).of) \in seen
  /\ calls' = [calls EXCEPT ![t][Len(calls[t])].phase = "evaluation"]
  /\ UNCHANGED <<follows, broker, message, waitlist, aged, processing, seen,
                 failures, dropped>>

\* ... or IN_FLIGHT_EVENT_TIMEOUT is over: EventArrivedEarly.
LeaderTakesLong(t) ==
  LET c == Current(t).of IN
  /\ Busy(t) /\ Current(t).phase = "leader"
  /\ waitlist' = RecordFollower(c)
  /\ processing' = processing \ {c.event}
  /\ Return(t)
  /\ UNCHANGED <<follows, published, aged, seen, failures>>

EvaluationFails(t) ==
  /\ Busy(t) /\ Current(t).phase = "evaluation"
  /\ failures < MaxFailures
  /\ failures' = failures + 1
  /\ processing' = processing \ {Current(t).of.event}
  /\ Abort(t)
  /\ UNCHANGED <<follows, published, waitlist, aged, seen>>

\* How deep the followers of a task's n-th call are.
Depth(t, n) == IF t = Sweeper THEN n - 1 ELSE n

\* The exit of preceding_event_confirmed: the event is seen, and its followers
\* are evaluated in order, unless they are too deep.  Calls whose followers are
\* through end and forget that their events were waiting; the next follower in
\* turn is called, or fails every call because it is being processed.
Evaluated(t) ==
  LET e == Current(t).of.event
      n == Len(calls[t])
      found == IF Depth(t, n) > MaxDepth THEN {} ELSE Followers(e)
      stack == [calls[t] EXCEPT ![n].rest = found]
      k == Max({0} \cup {i \in 1..n : stack[i].rest # {}})
      ended == {stack[i].of.event : i \in (k + 1)..n}
      next == First(stack[k].rest)
      left == [SubSeq(stack, 1, k) EXCEPT ![k].rest = @ \ {next}]
  IN
  /\ Busy(t) /\ Current(t).phase = "evaluation"
  /\ seen' = seen \cup {e}
  /\ waitlist' = {w \in waitlist : w.event \notin ended}
  /\ IF k = 0
     THEN Return(t) /\ processing' = processing \ {e}
     ELSE IF next.event \in processing \ {e}
     THEN /\ Abort(t)
          /\ processing' = processing \ {e}
     ELSE /\ calls' = [calls EXCEPT ![t] = Append(left, Call(next, "evaluation"))]
          /\ processing' = (processing \ {e}) \cup {next.event}
          /\ UNCHANGED <<inbox, dead, message, dropped>>
  /\ UNCHANGED <<follows, published, aged, failures>>

\* periodic_evaluation takes the lost followers from the waitlist and evaluates
\* them one by one; it fails if the first one is being processed.
Sweep ==
  LET first == First(Lost) IN
  /\ ~Busy(Sweeper)
  /\ Lost # {}
  /\ waitlist' = waitlist \ Lost
  /\ IF first.event \in processing
     THEN /\ dropped' = dropped \cup {w.event : w \in Lost}
          /\ UNCHANGED <<calls, processing>>
     ELSE /\ calls' = [calls EXCEPT ![Sweeper] =
                         <<SweepCall(Lost \ {first}), Call(first, "evaluation")>>]
          /\ processing' = processing \cup {first.event}
          /\ UNCHANGED dropped
  /\ UNCHANGED <<follows, broker, message, aged, seen, failures>>

-----------------------------------------------------------------------------

Init ==
  /\ follows \in Shapes
  /\ published = [e \in Events |-> 0]
  /\ inbox = {}
  /\ dead = {}
  /\ calls = [t \in Tasks |-> <<>>]
  /\ message = [t \in Consumers |-> {}]
  /\ waitlist = {}
  /\ aged = {}
  /\ processing = {}
  /\ seen = {}
  /\ failures = 0
  /\ dropped = {}

Next ==
  \/ \E e \in Events : Publish(e)
  \/ \E c \in Copies : TimePasses(c)
  \/ \E t \in Consumers :
       \/ \E m \in inbox : Take(t, m)
       \/ LeaderSeen(t) \/ LeaderTakesLong(t)
  \/ \E t \in Tasks : Evaluated(t) \/ EvaluationFails(t)
  \/ Sweep

\* Tasks of the event loop go on, a poll ends at its timeout, the sweep is
\* periodic and time passes.  That evaluations fail is bounded by MaxFailures.
\* One condition is enough: no step of these can be taken for ever.
Progress ==
  \/ \E c \in Copies : TimePasses(c)
  \/ \E t \in Consumers :
       \/ \E m \in inbox : Take(t, m)
       \/ LeaderSeen(t) \/ LeaderTakesLong(t)
  \/ \E t \in Tasks : Evaluated(t)
  \/ Sweep

Spec == Init /\ [][Next]_vars /\ WF_vars(Progress)

-----------------------------------------------------------------------------
(* Properties *)

\* An event is evaluated before the one it follows only if it has waited for
\* the whole lookback, although messages arrive in any order, several times,
\* and leaders fail while followers poll for them (ordering/memory.py:203).
LeaderFirst ==
  \A t \in Tasks : Busy(t) /\ Current(t).phase = "evaluation" => MayProceed(Current(t).of)

\* No two tasks evaluate one event at the same time, and the set of events in
\* process is exactly theirs: no failure leaves an event locked
\* (ordering/memory.py:188).
EvaluatedAlone ==
  /\ processing = {Current(t).of.event : t \in {t \in Tasks : Busy(t)}}
  /\ \A t, u \in Tasks :
       Busy(t) /\ Busy(u) /\ t # u => Current(t).of.event # Current(u).of.event

\* Every event is evaluated in the end, or its retries are exhausted, or it was
\* in a sweep that failed: nobody waits for ever for a leader that is lost, has
\* failed, or was too deep to call its followers, and no other task drops an
\* event (triggers.py:741).
EveryEventEvaluated ==
  \A e \in Events : (published[e] > 0) ~> (e \in seen \cup dead \cup dropped)
=============================================================================
