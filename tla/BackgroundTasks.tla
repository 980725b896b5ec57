--------------------------- MODULE BackgroundTasks ---------------------------
(***************************************************************************)
(* Background task runs on their way from the server to task workers: the  *)
(* queues in the server's memory, one websocket handler per connection     *)
(* that sends a run and awaits its acknowledgement, and workers that       *)
(* acknowledge a run before they have a token to run it with.              *)
(*                                                                         *)
(* A connection can break between any two steps; the handler learns of it  *)
(* only when it sends or receives, so it may take one more run by then.    *)
(***************************************************************************)
EXTENDS Naturals, Sequences, FiniteSets

CONSTANTS
  Runs,          \* deferred task runs
  TaskKeys,
  TaskKey,       \* TaskKey[r]: the task of run r
  Workers,
  Subscribed,    \* Subscribed[w]: the keys of worker w, in the order of its list
  Connections,   \* websocket connections, numbered, each used once
  None,
  ScheduledSize, \* the sizes of a task's two queues
  RetrySize,
  Limit,         \* task runs a worker runs at once
  MaxFaults      \* bound: broken connections and stopped workers

ASSUME TasksAssumption ==
  /\ TaskKey \in [Runs -> TaskKeys]
  /\ IsFiniteSet(Workers)
  /\ \A w \in Workers : Subscribed[w] \in Seq(TaskKeys) \ {<<>>}
  /\ {ScheduledSize, RetrySize, Limit, MaxFaults} \subseteq Nat
  /\ Connections \subseteq Nat
  /\ None \notin Runs \cup Connections

VARIABLES
  scheduled,  \* the two queues of each task key
  retry,
  serving,    \* connections with a handler on the server
  keys,       \* the keys its MultiQueue reads
  sent,       \* the run it took from a queue and awaits an ack for
  open,       \* connections that are not broken
  wire,       \* what a connection carries: a run or its ack
  link,       \* the connection a worker believes to have
  hand,       \* the run a worker acknowledged and has no token for yet
  running,    \* the runs that hold a token of a worker
  faults,
  submitted, acked, starts, unheard, lost  \* history of the runs

queues == <<scheduled, retry>>
handlers == <<serving, keys, sent>>
network == <<open, wire>>
workers == <<link, hand, running>>
history == <<submitted, acked, starts, unheard, lost>>
vars == <<queues, handlers, network, workers, faults, history>>

TypeOK ==
  /\ \A k \in TaskKeys : /\ scheduled[k] \in Seq(Runs) /\ retry[k] \in Seq(Runs)
                         /\ Len(scheduled[k]) <= ScheduledSize
                         /\ Len(retry[k]) <= RetrySize
  /\ serving \subseteq Connections
  /\ \A c \in serving : keys[c] \in {Subscribed[w] : w \in Workers}
  /\ sent \in [Connections -> Runs \cup {None}]
  /\ open \subseteq serving
  /\ wire \in [Connections -> {"nothing", "run", "ack"}]
  /\ link \in [Workers -> Connections \cup {None}]
  /\ hand \in [Workers -> Runs \cup {None}]
  /\ running \in [Workers -> SUBSET Runs]
  /\ \A w \in Workers : Cardinality(running[w]) <= Limit
  /\ faults \in 0..MaxFaults

Init ==
  /\ scheduled = [k \in TaskKeys |-> <<>>] /\ retry = scheduled
  /\ serving = {} /\ keys = [c \in Connections |-> <<>>]
  /\ sent = [c \in Connections |-> None]
  /\ open = {} /\ wire = [c \in Connections |-> "nothing"]
  /\ link = [w \in Workers |-> None] /\ hand = link
  /\ running = [w \in Workers |-> {}]
  /\ faults = 0
  /\ submitted = {} /\ lost = {}
  /\ acked = [r \in Runs |-> 0] /\ starts = acked /\ unheard = acked
-----------------------------------------------------------------------------
(* The queues of a task key.  A put waits while its queue is full.         *)

\* Mutant: no put ever waits.
PutUnbounded(r) ==
  /\ scheduled' = [scheduled EXCEPT ![TaskKey[r]] = Append(@, r)]
  /\ UNCHANGED retry

Put(r) ==
  /\ Len(scheduled[TaskKey[r]]) < ScheduledSize
  /\ scheduled' = [scheduled EXCEPT ![TaskKey[r]] = Append(@, r)]
  /\ UNCHANGED retry

Retry(r) ==
  /\ Len(retry[TaskKey[r]]) < RetrySize
  /\ retry' = [retry EXCEPT ![TaskKey[r]] = Append(@, r)]
  /\ UNCHANGED scheduled

GetFrom(k, r) ==
  \/ /\ retry[k] # <<>> /\ r = Head(retry[k])
     /\ retry' = [retry EXCEPT ![k] = Tail(@)]
     /\ UNCHANGED scheduled
  \/ /\ retry[k] = <<>> /\ scheduled[k] # <<>> /\ r = Head(scheduled[k])
     /\ scheduled' = [scheduled EXCEPT ![k] = Tail(@)]
     /\ UNCHANGED retry

Empty(k) == retry[k] = <<>> /\ scheduled[k] = <<>>

\* Mutant: only the first key is looked at.
GetFirstOnly(list, r) == list # <<>> /\ GetFrom(Head(list), r)

\* MultiQueue: the first key of the list that has a run.
Get(list, r) ==
  \E i \in DOMAIN list : /\ \A j \in 1..(i - 1) : Empty(list[j])
                         /\ GetFrom(list[i], r)

\* A run is set to a deferred scheduled state, AwaitingRetry or another.
EnqueueScheduledTasks(r) ==
  /\ r \notin submitted
  /\ Put(r) \/ Retry(r)
  /\ submitted' = submitted \cup {r}
  /\ UNCHANGED <<handlers, network, workers, faults, acked, starts, unheard, lost>>
-----------------------------------------------------------------------------
(* The websocket handlers.                                                 *)

\* The handler takes a run and sends it, into the void if the client is gone.
Send(c) ==
  /\ c \in serving /\ sent[c] = None
  /\ \E r \in Runs : Get(keys[c], r) /\ sent' = [sent EXCEPT ![c] = r]
  /\ wire' = [wire EXCEPT ![c] = IF c \in open THEN "run" ELSE @]
  /\ UNCHANGED <<serving, keys, open, workers, faults, history>>

Acknowledged(c) ==
  /\ wire[c] = "ack"
  /\ wire' = [wire EXCEPT ![c] = "nothing"]
  /\ sent' = [sent EXCEPT ![c] = None]
  /\ acked' = [acked EXCEPT ![sent[c]] = @ + 1]
  /\ UNCHANGED <<queues, serving, keys, open, workers, faults,
                 submitted, starts, unheard, lost>>

\* Mutant: a full retry queue drops the run.
PutBackIfRoom(c) ==
  \/ Retry(sent[c])
  \/ Len(retry[TaskKey[sent[c]]]) = RetrySize /\ UNCHANGED queues

\* The run goes to the retry queue when the send or the receive fails.
PutBack(c) == Retry(sent[c])

Disconnected(c) ==
  /\ c \in serving \ open /\ wire[c] = "nothing" /\ sent[c] # None
  /\ PutBack(c)
  /\ sent' = [sent EXCEPT ![c] = None]
  /\ serving' = serving \ {c}
  /\ UNCHANGED <<keys, network, workers, faults, history>>

\* Nothing to send for a second, and the socket is found closed.
Forget(c) ==
  /\ c \in serving \ open /\ sent[c] = None /\ wire[c] = "nothing"
  /\ \A i \in DOMAIN keys[c] : Empty(keys[c][i])
  /\ serving' = serving \ {c}
  /\ UNCHANGED <<queues, keys, sent, network, workers, faults, history>>
-----------------------------------------------------------------------------
(* Task workers.                                                           *)

\* The subscription connects, and connects again once it sees the link broken.
Subscribe(w, c) ==
  /\ hand[w] = None /\ link[w] \notin open
  /\ keys[c] = <<>> /\ \A d \in 1..(c - 1) : keys[d] # <<>>
  /\ link' = [link EXCEPT ![w] = c]
  /\ open' = open \cup {c} /\ serving' = serving \cup {c}
  /\ keys' = [keys EXCEPT ![c] = Subscribed[w]]
  /\ UNCHANGED <<queues, sent, wire, hand, running, faults, history>>

\* Mutant: the ack is forgotten.
ReceiveSilently(w) ==
  /\ hand[w] = None /\ link[w] \in open /\ wire[link[w]] = "run"
  /\ hand' = [hand EXCEPT ![w] = sent[link[w]]]
  /\ wire' = [wire EXCEPT ![link[w]] = "nothing"]
  /\ UNCHANGED <<queues, handlers, open, link, running, faults, history>>

\* Subscription.__anext__: the ack is sent before the worker has a token.
Receive(w) ==
  /\ hand[w] = None /\ link[w] \in open /\ wire[link[w]] = "run"
  /\ hand' = [hand EXCEPT ![w] = sent[link[w]]]
  /\ wire' = [wire EXCEPT ![link[w]] = "ack"]
  /\ UNCHANGED <<queues, handlers, open, link, running, faults, history>>

\* One token per run: a second copy of a run that still runs is dropped.
AcquireToken(w, r) ==
  \/ /\ r \in running[w]
     /\ UNCHANGED <<running, starts>>
  \/ /\ r \notin running[w] /\ Cardinality(running[w]) < Limit
     /\ running' = [running EXCEPT ![w] = @ \cup {r}]
     /\ starts' = [starts EXCEPT ![r] = @ + 1]

Submit(w) ==
  /\ hand[w] # None
  /\ AcquireToken(w, hand[w])
  /\ hand' = [hand EXCEPT ![w] = None]
  /\ UNCHANGED <<queues, handlers, network, link, faults,
                 submitted, acked, unheard, lost>>

ReleaseToken(w) ==
  /\ \E r \in running[w] : running' = [running EXCEPT ![w] = @ \ {r}]
  /\ UNCHANGED <<queues, handlers, network, link, hand, faults, history>>
-----------------------------------------------------------------------------
(* Faults: the run on the wire is lost, and its ack may be.                *)

Broken(c) ==
  /\ faults < MaxFaults
  /\ faults' = faults + 1
  /\ open' = open \ {c}
  /\ \/ /\ wire[c] = "ack"
        /\ UNCHANGED <<wire, unheard>>
     \/ /\ wire' = [wire EXCEPT ![c] = "nothing"]
        /\ unheard' = IF wire[c] = "ack"
                      THEN [unheard EXCEPT ![sent[c]] = @ + 1] ELSE unheard

Break(c) ==
  /\ c \in open
  /\ Broken(c)
  /\ UNCHANGED <<queues, handlers, workers, submitted, acked, starts, lost>>

\* What the worker acknowledged or runs is gone with it; a new one starts.
Stop(w) ==
  /\ link[w] \in open
  /\ Broken(link[w])
  /\ lost' = lost \cup ({hand[w]} \ {None})
  /\ link' = [link EXCEPT ![w] = None] /\ hand' = [hand EXCEPT ![w] = None]
  /\ running' = [running EXCEPT ![w] = {}]
  /\ UNCHANGED <<queues, handlers, submitted, acked, starts>>
-----------------------------------------------------------------------------
Next ==
  \/ \E r \in Runs : EnqueueScheduledTasks(r)
  \/ \E c \in Connections :
       Send(c) \/ Acknowledged(c) \/ Disconnected(c) \/ Forget(c) \/ Break(c)
  \/ \E w \in Workers : \/ Receive(w) \/ Submit(w) \/ ReleaseToken(w) \/ Stop(w)
                        \/ \E c \in Connections : Subscribe(w, c)

Spec == Init /\ [][Next]_vars

\* Handlers and workers keep running, task runs end and workers reconnect.  Only
\* faults could go on forever: if some part can act, one eventually does.
Progress ==
  \/ \E c \in Connections : Send(c) \/ Acknowledged(c) \/ Disconnected(c)
  \/ \E w \in Workers : \/ Receive(w) \/ Submit(w) \/ ReleaseToken(w)
                        \/ \E c \in Connections : Subscribe(w, c)

FairSpec == Spec /\ WF_vars(Progress)
-----------------------------------------------------------------------------
Copies(r) ==
  LET In(q) == Cardinality({i \in DOMAIN q : q[i] = r})
  IN  In(scheduled[TaskKey[r]]) + In(retry[TaskKey[r]])
        + Cardinality({c \in Connections : sent[c] = r})

\* A run that was scheduled is in exactly one place of the server, a queue or
\* the hands of one handler, until one acknowledgement of it arrives: the two
\* exits of scheduled_task_subscription (task_runs.py:405-421) neither lose
\* nor double a run, however many connections break.
KeptUntilAcked ==
  \A r \in submitted : Copies(r) + acked[r] = 1

\* A run is started again only when an acknowledgement of it did not reach the
\* server (subscriptions.py:54, task_runs.py:419): no second worker runs it
\* because of a run that was lost on the way or of a handler that outlived its
\* connection.
StartedOnce ==
  \A r \in Runs : starts[r] <= 1 + unheard[r]

\* Every scheduled run is started, unless the worker that had acknowledged it
\* stopped before it had a token (task_worker.py _acquire_token): neither full
\* queues nor saturated workers nor reconnections leave it behind.
EveryRunStarted ==
  \A r \in Runs : r \in submitted ~> (starts[r] > 0 \/ r \in lost)
=============================================================================
