------------------------- MODULE CausalOrderingProofs -------------------------
(***************************************************************************)
(* Proofs about CausalOrdering, for all values of its constants: types,    *)
(* that no two tasks evaluate one event, and that an event is evaluated    *)
(* only after its leader or after its lookback is over.                    *)
(***************************************************************************)
EXTENDS CausalOrdering, SequenceTheorems, WellFoundedInduction, TLAPS

-----------------------------------------------------------------------------
(* Least and greatest numbers, and the first of several copies              *)

LEMMA Least ==
  ASSUME NEW S \in SUBSET Nat, S # {}
  PROVE  \E x \in S : \A y \in S : x <= y
<1> DEFINE Less == OpToRel(<, Nat)
<1>1. IsWellFoundedOn(Less, Nat)
  BY NatLessThanWellFounded
<1>2. PICK x \in S : \A y \in S : <<y, x>> \notin Less
  <2> HIDE DEF Less
  <2> QED BY <1>1, WFMin
<1>3. Less = {p \in Nat \X Nat : p[1] < p[2]}
  BY DEF OpToRel
<1> HIDE DEF Less
<1>4. ASSUME NEW y \in S PROVE x <= y
  <2>1. x \in Nat /\ y \in Nat /\ ~ (y < x)
    BY <1>2, <1>3
  <2> QED BY <2>1
<1> QED BY <1>4

LEMMA MaxFound ==
  ASSUME NEW S \in SUBSET Nat, S # {}, NEW n \in Nat, \A x \in S : x <= n
  PROVE  Max(S) \in S /\ \A x \in S : x <= Max(S)
<1> DEFINE T == {n - x : x \in S}
<1>1. T \in SUBSET Nat /\ T # {}
  <2>1. \A x \in S : n - x \in Nat
    OBVIOUS
  <2> QED BY <2>1
<1>2. PICK y \in T : \A z \in T : y <= z
  BY <1>1, Least
<1>3. PICK x \in S : y = n - x
  OBVIOUS
<1>4. \A z \in S : x >= z
  BY <1>2, <1>3
<1> QED BY <1>4 DEF Max

LEMMA CopyFields ==
  /\ \A c \in Copies : c.event \in Events /\ c.event \in Nat
  /\ \A f \in Calls : /\ f.of \in Copies /\ f.phase \in {"leader", "evaluation"}
                      /\ f.rest \in SUBSET Copies
  /\ \A m \in Messages : m.of \in Copies /\ m.retries \in 0..MaxRetries
  BY OrderingAssumption DEF Copies, Calls, Messages

LEMMA FirstFound ==
  ASSUME NEW C \in SUBSET Copies, C # {}
  PROVE  First(C) \in C /\ \A d \in C : First(C).event <= d.event
<1> DEFINE S == {c.event : c \in C}
<1>1. S \in SUBSET Nat /\ S # {}
  BY CopyFields
<1>2. PICK x \in S : \A y \in S : x <= y
  BY <1>1, Least
<1>3. \E c \in C : \A d \in C : c.event <= d.event
  BY <1>2
<1> QED BY <1>3 DEF First

-----------------------------------------------------------------------------
(* The inductive invariant                                                  *)

Typed ==
  /\ follows \in Shapes
  /\ published \in [Events -> 0..2]
  /\ inbox \subseteq Messages /\ dead \subseteq Events
  /\ DOMAIN message = Consumers
  /\ waitlist \subseteq Copies /\ aged \subseteq Copies
  /\ processing \subseteq Events /\ seen \subseteq Events
  /\ failures \in 0..MaxFailures /\ dropped \subseteq Events

\* The calls of a task; the first one of the sweeper is the loop of the sweep,
\* and it always calls one of its followers.
Frames == [of : Copies \cup {[event |-> NoEvent, copy |-> 0]},
           phase : {"leader", "evaluation"}, rest : SUBSET Copies]

Stack(s, t) ==
  /\ s \in Seq(Frames)
  /\ \A i \in DOMAIN s : (t # Sweeper \/ i > 1) => s[i] \in Calls
  /\ t = Sweeper /\ s # <<>> => Len(s) >= 2

CallsSound ==
  /\ calls \in [Tasks -> Seq(Frames)]
  /\ \A t \in Tasks : Stack(calls[t], t)
  /\ \A t \in Consumers : calls[t] # <<>> => message[t] \in Messages

Proceeding == {c \in Copies : MayProceed(c)}

\* What is being evaluated may be, and so may all the followers a loop has yet
\* to call: their leader was evaluated before the loop began, or they were lost.
Ready(s, P) ==
  /\ \A i \in DOMAIN s : s[i].rest \subseteq P
  /\ s # <<>> /\ s[Len(s)].phase = "evaluation" => s[Len(s)].of \in P

AllReady == \A t \in Tasks : Ready(calls[t], Proceeding)

OrderingInv == Typed /\ CallsSound /\ AllReady /\ EvaluatedAlone

LEMMA InitInv ==
  Init => OrderingInv
<1> SUFFICES ASSUME Init PROVE OrderingInv
  OBVIOUS
<1>1. <<>> \in Seq(Frames) /\ DOMAIN <<>> = {}
  BY EmptySeq, LenProperties
<1>2. Typed
  BY OrderingAssumption DEF Init, Typed
<1>3. CallsSound /\ AllReady
  BY <1>1 DEF Init, CallsSound, Stack, AllReady, Ready, Tasks
<1>4. EvaluatedAlone
  BY DEF Init, EvaluatedAlone, Busy
<1> QED BY <1>2, <1>3, <1>4 DEF OrderingInv

LEMMA CallFields ==
  ASSUME NEW c \in Copies, NEW phase \in {"leader", "evaluation"}
  PROVE  /\ Call(c, phase) \in Calls /\ Call(c, phase) \in Frames
         /\ Call(c, phase).of = c /\ Call(c, phase).phase = phase /\ Call(c, phase).rest = {}
  BY DEF Call, Calls, Frames

\* A busy task is at a call of an event.
LEMMA CurrentCall ==
  ASSUME OrderingInv, NEW t \in Tasks, Busy(t)
  PROVE  /\ calls[t] \in Seq(Frames) /\ Stack(calls[t], t)
         /\ Len(calls[t]) \in Nat \ {0} /\ DOMAIN calls[t] = 1..Len(calls[t])
         /\ Current(t) \in Calls /\ Current(t).of \in Copies
         /\ Current(t).of.event \in Events
         /\ Current(t).of.event \in processing
<1>1. calls[t] \in Seq(Frames) /\ Stack(calls[t], t) /\ calls[t] # <<>>
  BY DEF OrderingInv, CallsSound, Busy
<1>2. Len(calls[t]) \in Nat \ {0} /\ DOMAIN calls[t] = 1..Len(calls[t])
  BY <1>1, EmptySeq, LenProperties
<1>3. Current(t) \in Calls
  BY <1>1, <1>2 DEF Stack, Current
<1>4. Current(t).of \in Copies /\ Current(t).of.event \in Events
  BY <1>3, CopyFields
<1>5. Current(t).of.event \in processing
  BY DEF OrderingInv, EvaluatedAlone
<1> QED BY <1>1, <1>2, <1>3, <1>4, <1>5

LEMMA EmptyStack ==
  ASSUME NEW t
  PROVE  Stack(<<>>, t) /\ \A P : Ready(<<>>, P)
<1>1. <<>> \in Seq(Frames) /\ DOMAIN <<>> = {}
  BY EmptySeq, LenProperties
<1> QED BY <1>1 DEF Stack, Ready

\* What may proceed may proceed for ever.
LEMMA ProceedingGrows ==
  ASSUME follows' = follows, seen \subseteq seen', aged \subseteq aged'
  PROVE  Proceeding \subseteq Proceeding'
  BY DEF Proceeding, MayProceed, Leader

\* Only one task's calls change in a step.
LEMMA OneStack ==
  ASSUME OrderingInv, NEW t \in Tasks, NEW s, Stack(s, t), Ready(s, Proceeding'),
         calls' = [calls EXCEPT ![t] = s], Proceeding \subseteq Proceeding',
         t \in Consumers /\ s # <<>> => message'[t] \in Messages,
         \A u \in Consumers \ {t} : message'[u] = message[u]
  PROVE  CallsSound' /\ AllReady'
<1>1. /\ calls \in [Tasks -> Seq(Frames)] /\ \A u \in Tasks : Stack(calls[u], u)
      /\ \A u \in Consumers : calls[u] # <<>> => message[u] \in Messages
      /\ \A u \in Tasks : Ready(calls[u], Proceeding)
  BY DEF OrderingInv, CallsSound, AllReady
<1>2. s \in Seq(Frames)
  BY DEF Stack
<1>3. /\ calls' \in [Tasks -> Seq(Frames)] /\ calls'[t] = s
      /\ \A u \in Tasks \ {t} : calls'[u] = calls[u]
  BY <1>1, <1>2
<1>4. \A u \in Tasks : Stack(calls'[u], u)
  BY <1>1, <1>3
<1>5. \A u \in Consumers : calls'[u] # <<>> => message'[u] \in Messages
  BY <1>1, <1>3 DEF Tasks
<1>6. CallsSound'
  BY <1>3, <1>4, <1>5 DEF CallsSound
<1>7. ASSUME NEW u \in Tasks
      PROVE  Ready(calls'[u], Proceeding')
  <2>1. CASE u = t
    BY <1>3, <2>1
  <2>2. CASE u # t
    <3>1. Ready(calls[u], Proceeding) /\ calls'[u] = calls[u]
      BY <1>1, <1>3, <2>2
    <3>2. Ready(calls[u], Proceeding')
      BY <3>1 DEF Ready
    <3> QED BY <3>1, <3>2
  <2> QED BY <2>1, <2>2
<1>8. AllReady'
  BY <1>7 DEF AllReady
<1> QED BY <1>6, <1>8

LEMMA NoStack ==
  ASSUME OrderingInv, calls' = calls, message' = message, Proceeding \subseteq Proceeding'
  PROVE  CallsSound' /\ AllReady'
<1>1. CallsSound'
  BY DEF OrderingInv, CallsSound
<1>2. AllReady'
  BY DEF OrderingInv, AllReady, Ready
<1> QED BY <1>1, <1>2

\* A task whose calls are over leaves the mark of its own event only.
LEMMA AloneLeaves ==
  ASSUME OrderingInv, NEW t \in Tasks, Busy(t), calls' = [calls EXCEPT ![t] = <<>>],
         processing' = processing \ {Current(t).of.event}
  PROVE  EvaluatedAlone'
<1>1. /\ calls \in [Tasks -> Seq(Frames)]
      /\ processing = {Current(u).of.event : u \in {u \in Tasks : Busy(u)}}
      /\ \A u, v \in Tasks :
           Busy(u) /\ Busy(v) /\ u # v => Current(u).of.event # Current(v).of.event
  BY DEF OrderingInv, CallsSound, EvaluatedAlone
<1>2. /\ calls'[t] = <<>> /\ \A u \in Tasks \ {t} : calls'[u] = calls[u]
  BY <1>1
<1> DEFINE busy == {u \in Tasks : calls'[u] # <<>>}
           event(u) == calls'[u][Len(calls'[u])].of.event
<1>3. busy = {u \in Tasks : Busy(u)} \ {t}
  BY <1>2 DEF Busy
<1>4. \A u \in busy : event(u) = Current(u).of.event
  BY <1>2, <1>3 DEF Current
<1> HIDE DEF busy, event
<1>5. processing' = {event(u) : u \in busy}
  BY <1>1, <1>3, <1>4
<1>6. \A u, v \in busy : u # v => event(u) # event(v)
  BY <1>1, <1>3, <1>4
<1> QED BY <1>5, <1>6 DEF EvaluatedAlone, Busy, Current, busy, event

\* The mark of the event a task is at
Mark(t) == IF Busy(t) THEN {Current(t).of.event} ELSE {}

\* A task that goes on with another event has marked it, and nobody else had.
LEMMA AloneEnters ==
  ASSUME OrderingInv, NEW t \in Tasks, NEW s, s # <<>>, calls' = [calls EXCEPT ![t] = s],
         s[Len(s)].of.event \notin processing \ Mark(t),
         processing' = (processing \ Mark(t)) \cup {s[Len(s)].of.event}
  PROVE  EvaluatedAlone'
<1> DEFINE e == s[Len(s)].of.event
           old == Mark(t)
<1>1. /\ calls \in [Tasks -> Seq(Frames)]
      /\ processing = {Current(u).of.event : u \in {u \in Tasks : Busy(u)}}
      /\ \A u, v \in Tasks :
           Busy(u) /\ Busy(v) /\ u # v => Current(u).of.event # Current(v).of.event
  BY DEF OrderingInv, CallsSound, EvaluatedAlone
<1>2. /\ calls'[t] = s /\ \A u \in Tasks \ {t} : calls'[u] = calls[u]
  BY <1>1
<1> DEFINE busy == {u \in Tasks : calls'[u] # <<>>}
           event(u) == calls'[u][Len(calls'[u])].of.event
<1>3. busy = {u \in Tasks : Busy(u)} \cup {t}
  BY <1>2 DEF Busy
<1>4. /\ event(t) = e /\ e \notin processing \ old /\ processing' = (processing \ old) \cup {e}
      /\ \A u \in busy \ {t} : Busy(u) /\ event(u) = Current(u).of.event
  BY <1>2, <1>3 DEF Current
<1>5. processing \ old = {Current(u).of.event : u \in {u \in Tasks : Busy(u)} \ {t}}
  BY <1>1 DEF Mark
<1> HIDE DEF busy, event, e, old
<1>6. processing' = {event(u) : u \in busy}
  BY <1>3, <1>4, <1>5
<1>7. \A u, v \in busy : u # v => event(u) # event(v)
  <2> SUFFICES ASSUME NEW u \in busy, NEW v \in busy, u # v, v # t
               PROVE  event(u) # event(v)
    OBVIOUS
  <2>1. Busy(v) /\ v \in Tasks /\ event(v) = Current(v).of.event
    BY <1>3, <1>4
  <2>2. CASE u = t
    BY <1>4, <1>5, <2>1, <2>2
  <2>3. CASE u # t
    BY <1>1, <1>3, <1>4, <2>1, <2>3
  <2> QED BY <2>2, <2>3
<1> QED BY <1>6, <1>7 DEF EvaluatedAlone, Busy, Current, busy, event

LEMMA AloneFrame ==
  ASSUME OrderingInv, calls' = calls, processing' = processing
  PROVE  EvaluatedAlone'
  BY DEF OrderingInv, EvaluatedAlone, Busy, Current

-----------------------------------------------------------------------------
(* Each step preserves the invariant                                        *)

LEMMA RetryTyped ==
  ASSUME inbox \subseteq Messages, dead \subseteq Events, NEW m \in Messages, Retry(m)
  PROVE  inbox' \subseteq Messages /\ dead' \subseteq Events
<1>1. m.of \in Copies /\ m.of.event \in Events /\ m.retries \in 0..MaxRetries /\ MaxRetries \in Nat
  BY CopyFields, OrderingAssumption
<1>2. ASSUME NEW a \in 0..MaxRetries
      PROVE  [m EXCEPT !.retries = a] \in Messages
  BY DEF Messages
<1>3. CASE m.retries + 1 > MaxRetries
  BY <1>1, <1>3 DEF Retry
<1>4. CASE ~ (m.retries + 1 > MaxRetries)
  <2>1. m.retries + 1 \in 0..MaxRetries
    BY <1>1, <1>4
  <2>2. [m EXCEPT !.retries = @ + 1] \in Messages
    BY <1>2, <2>1
  <2> QED BY <1>4, <2>2 DEF Retry
<1> QED BY <1>3, <1>4

LEMMA KeptByPublish ==
  ASSUME OrderingInv, NEW e \in Events, Publish(e)
  PROVE  OrderingInv'
<1>1. /\ published[e] < IF e \in Duplicated THEN 2 ELSE 1
      /\ published' = [published EXCEPT ![e] = @ + 1]
      /\ inbox' = inbox \cup {[of |-> [event |-> e, copy |-> published[e] + 1], retries |-> 0]}
      /\ UNCHANGED <<follows, dead, calls, message, waitlist, aged, processing,
                     seen, failures, dropped>>
  BY DEF Publish
<1>2. published[e] \in Nat /\ published[e] + 1 \in 1..2 /\ published \in [Events -> 0..2]
  BY <1>1 DEF OrderingInv, Typed
<1>3. [of |-> [event |-> e, copy |-> published[e] + 1], retries |-> 0] \in Messages
  BY <1>2, OrderingAssumption DEF Messages, Copies
<1>4. published' \in [Events -> 0..2]
  BY <1>1, <1>2
<1>5. Typed'
  BY <1>1, <1>3, <1>4 DEF OrderingInv, Typed
<1>6. CallsSound' /\ AllReady' /\ EvaluatedAlone'
  BY <1>1, ProceedingGrows, NoStack, AloneFrame
<1> QED BY <1>5, <1>6 DEF OrderingInv

LEMMA KeptByTimePasses ==
  ASSUME OrderingInv, NEW c \in Copies, TimePasses(c)
  PROVE  OrderingInv'
<1>1. /\ aged' = aged \cup {c}
      /\ UNCHANGED <<follows, broker, calls, message, waitlist, processing, seen,
                     failures, dropped>>
  BY DEF TimePasses
<1>2. Typed'
  BY <1>1 DEF OrderingInv, Typed, broker
<1>3. CallsSound' /\ AllReady' /\ EvaluatedAlone'
  BY <1>1, ProceedingGrows, NoStack, AloneFrame
<1> QED BY <1>2, <1>3 DEF OrderingInv

\* The first call of a consumer
LEMMA FirstCall ==
  ASSUME NEW c \in Copies, NEW phase \in {"leader", "evaluation"}, NEW t \in Consumers,
         NEW P, phase = "evaluation" => c \in P
  PROVE  LET s == <<Call(c, phase)>> IN
         Stack(s, t) /\ Ready(s, P) /\ s # <<>> /\ s[Len(s)].of.event = c.event
<1> DEFINE f == Call(c, phase)
           s == <<f>>
<1>1. /\ f \in Calls /\ f \in Frames /\ f.of = c /\ f.phase = phase /\ f.rest = {}
  BY CallFields
<1>2. t # Sweeper
  BY OrderingAssumption
<1> HIDE DEF f
<1>3. s \in Seq(Frames) /\ Len(s) = 1 /\ DOMAIN s = 1..1 /\ s[1] = f /\ s # <<>>
  BY <1>1
<1> HIDE DEF s
<1>4. Stack(s, t)
  BY <1>1, <1>2, <1>3 DEF Stack
<1>5. Ready(s, P)
  BY <1>1, <1>3 DEF Ready
<1>6. s[Len(s)].of.event = c.event
  BY <1>1, <1>3
<1> QED BY <1>3, <1>4, <1>5, <1>6 DEF s, f

LEMMA KeptByTake ==
  ASSUME OrderingInv, NEW t \in Consumers, NEW m \in inbox, Take(t, m)
  PROVE  OrderingInv'
<1> DEFINE c == m.of
<1>1. /\ ~Busy(t) /\ UNCHANGED <<follows, published, aged, seen, failures, dropped>>
  BY DEF Take
<1>2. m \in Messages /\ c \in Copies /\ c.event \in Events /\ t \in Tasks
  BY CopyFields DEF OrderingInv, Typed, Tasks
<1>3. Proceeding \subseteq Proceeding'
  BY <1>1, ProceedingGrows
<1>4. CASE Acknowledge(m) /\ UNCHANGED <<calls, message, waitlist, processing>>
  <2>1. Typed'
    BY <1>1, <1>4 DEF OrderingInv, Typed, Acknowledge
  <2> QED BY <1>3, <1>4, <2>1, NoStack, AloneFrame DEF OrderingInv
<1>5. CASE Refuse(m) /\ UNCHANGED <<calls, message, waitlist>>
  <2>1. inbox' \subseteq Messages /\ dead' \subseteq Events /\ processing' = processing
    BY <1>2, <1>5, RetryTyped DEF Refuse, OrderingInv, Typed
  <2>2. Typed'
    BY <1>1, <1>5, <2>1 DEF OrderingInv, Typed
  <2> QED BY <1>3, <1>5, <2>1, <2>2, NoStack, AloneFrame DEF OrderingInv
<1>6. CASE /\ waitlist' = RecordFollower(c) /\ Acknowledge(m)
           /\ UNCHANGED <<calls, message, processing>>
  <2>1. Typed'
    BY <1>1, <1>2, <1>6 DEF OrderingInv, Typed, Acknowledge, RecordFollower
  <2> QED BY <1>3, <1>6, <2>1, NoStack, AloneFrame DEF OrderingInv
<1>7. ASSUME NEW phase \in {"leader", "evaluation"}, phase = "evaluation" => MayProceed(c),
             c.event \notin processing,
             calls' = [calls EXCEPT ![t] = <<Call(c, phase)>>],
             message' = [message EXCEPT ![t] = m],
             processing' = processing \cup {c.event},
             UNCHANGED <<inbox, dead, waitlist>>
      PROVE  OrderingInv'
  <2> DEFINE s == <<Call(c, phase)>>
  <2>1. Typed'
    BY <1>1, <1>2, <1>7 DEF OrderingInv, Typed
  <2>2. phase = "evaluation" => c \in Proceeding'
    BY <1>2, <1>3, <1>7 DEF Proceeding
  <2>3. Stack(s, t) /\ Ready(s, Proceeding') /\ s # <<>> /\ s[Len(s)].of.event = c.event
    BY <1>2, <2>2, FirstCall
  <2>4. calls' = [calls EXCEPT ![t] = s]
    BY <1>7
  <2>5. /\ message'[t] \in Messages
        /\ \A u \in Consumers \ {t} : message'[u] = message[u]
    BY <1>2, <1>7 DEF OrderingInv, Typed
  <2> HIDE DEF s, c
  <2>6. CallsSound' /\ AllReady'
    BY <1>2, <1>3, <2>3, <2>4, <2>5, OneStack
  <2>7. EvaluatedAlone'
    <3>1. /\ s[Len(s)].of.event \notin processing \ Mark(t)
          /\ processing' = (processing \ Mark(t)) \cup {s[Len(s)].of.event}
      BY <1>1, <1>7, <2>3 DEF Mark
    <3> QED BY <1>2, <2>3, <2>4, <3>1, AloneEnters
  <2> QED BY <2>1, <2>6, <2>7 DEF OrderingInv
<1>8. CASE /\ c.event \notin processing \cup seen
           /\ calls' = [calls EXCEPT ![t] = <<Call(c, "evaluation")>>]
           /\ message' = [message EXCEPT ![t] = m]
           /\ processing' = processing \cup {c.event}
           /\ UNCHANGED <<inbox, dead, waitlist>> /\ MayProceed(c)
  BY <1>7, <1>8
<1>9. CASE /\ c.event \notin processing \cup seen
           /\ calls' = [calls EXCEPT ![t] = <<Call(c, "leader")>>]
           /\ message' = [message EXCEPT ![t] = m]
           /\ processing' = processing \cup {c.event}
           /\ UNCHANGED <<inbox, dead, waitlist>>
  BY <1>7, <1>9
<1> QED BY <1>4, <1>5, <1>6, <1>8, <1>9 DEF Take

\* Replacing the call a task is at
LEMMA LastReplaced ==
  ASSUME NEW t, NEW s, Stack(s, t), s # <<>>, NEW f \in Calls
  PROVE  LET n == Len(s)
             r == [s EXCEPT ![n] = f] IN
         /\ Stack(r, t) /\ r # <<>> /\ Len(r) = n /\ r[n] = f /\ DOMAIN r = 1..n
         /\ \A i \in 1..n : i # n => r[i] = s[i]
<1> DEFINE n == Len(s)
           r == [s EXCEPT ![n] = f]
<1>1. s \in Seq(Frames) /\ n \in Nat \ {0} /\ DOMAIN s = 1..n /\ f \in Frames
  BY EmptySeq, LenProperties DEF Stack, Calls, Frames
<1>2. /\ r \in Seq(Frames) /\ Len(r) = n
      /\ \A i \in 1..n : r[i] = IF i = n THEN f ELSE s[i]
  BY <1>1, ExceptSeq
<1> HIDE DEF r
<1>3. DOMAIN r = 1..n /\ r # <<>>
  BY <1>1, <1>2, EmptySeq, LenProperties
<1>4. Stack(r, t)
  BY <1>1, <1>2, <1>3 DEF Stack
<1> HIDE DEF n
<1> QED BY <1>1, <1>2, <1>3, <1>4 DEF r, n

\* The leader that was waited for has been seen: the follower may proceed.
LEMMA KeptByLeaderSeen ==
  ASSUME OrderingInv, NEW t \in Consumers, LeaderSeen(t)
  PROVE  OrderingInv'
<1> DEFINE n == Len(calls[t])
           f == [Current(t) EXCEPT !.phase = "evaluation"]
           s == [calls[t] EXCEPT ![n] = f]
<1>1. /\ Busy(t) /\ Leader(Current(t).of) \in seen
      /\ calls' = [calls EXCEPT ![t][n].phase = "evaluation"]
      /\ UNCHANGED <<follows, broker, message, waitlist, aged, processing, seen,
                     failures, dropped>>
  BY DEF LeaderSeen
<1>2. t \in Tasks
  BY DEF Tasks
<1>3. /\ Stack(calls[t], t) /\ n \in Nat \ {0} /\ DOMAIN calls[t] = 1..n
      /\ Current(t) \in Calls /\ Current(t).of \in Copies /\ calls[t] # <<>>
      /\ Current(t).of.event \in processing /\ calls \in [Tasks -> Seq(Frames)]
  BY <1>1, <1>2, CurrentCall DEF Busy, OrderingInv, CallsSound
<1>4. calls' = [calls EXCEPT ![t] = s]
  BY <1>1, <1>2, <1>3 DEF Current
<1>5. /\ f \in Calls /\ f.of = Current(t).of /\ f.rest = Current(t).rest
      /\ f.phase = "evaluation"
  BY <1>3 DEF Calls
<1> HIDE DEF f
<1>6. /\ Stack(s, t) /\ s # <<>> /\ Len(s) = n /\ s[n] = f /\ DOMAIN s = 1..n
      /\ \A i \in 1..n : i # n => s[i] = calls[t][i]
  BY <1>3, <1>5, LastReplaced
<1> HIDE DEF s
<1>7. Proceeding \subseteq Proceeding'
  BY <1>1, ProceedingGrows
<1>8. Ready(s, Proceeding')
  <2>1. Ready(calls[t], Proceeding)
    BY <1>2 DEF OrderingInv, AllReady
  <2>2. \A i \in 1..n : s[i].rest = calls[t][i].rest
    BY <1>3, <1>5, <1>6 DEF Current
  <2>3. Current(t).of \in Proceeding
    BY <1>1, <1>3 DEF Proceeding, MayProceed
  <2> QED BY <1>3, <1>5, <1>6, <1>7, <2>1, <2>2, <2>3 DEF Ready
<1>9. message'[t] \in Messages /\ \A u \in Consumers \ {t} : message'[u] = message[u]
  BY <1>1, <1>3 DEF OrderingInv, CallsSound
<1>10. CallsSound' /\ AllReady'
  BY <1>2, <1>4, <1>6, <1>7, <1>8, <1>9, OneStack
<1>11. EvaluatedAlone'
  <2>1. s[Len(s)].of.event = Current(t).of.event
    BY <1>5, <1>6
  <2>2. /\ s[Len(s)].of.event \notin processing \ Mark(t)
        /\ processing' = (processing \ Mark(t)) \cup {s[Len(s)].of.event}
    BY <1>1, <1>3, <2>1 DEF Mark
  <2> QED BY <1>2, <1>4, <1>6, <2>2, AloneEnters
<1>12. Typed'
  BY <1>1 DEF OrderingInv, Typed, broker
<1> QED BY <1>10, <1>11, <1>12 DEF OrderingInv

\* What a failure or the end of a task's calls does to its message
LEMMA MessageDone ==
  ASSUME OrderingInv, NEW t \in Tasks, Busy(t), Abort(t) \/ Return(t)
  PROVE  /\ calls' = [calls EXCEPT ![t] = <<>>] /\ message' = message
         /\ inbox' \subseteq Messages /\ dead' \subseteq Events /\ dropped' \subseteq Events
<1>1. t = Sweeper \/ t \in Consumers
  BY DEF Tasks
<1>2. /\ inbox \subseteq Messages /\ dead \subseteq Events /\ dropped \subseteq Events
      /\ t \in Consumers => message[t] \in Messages
  BY DEF OrderingInv, Typed, CallsSound, Busy
<1>3. CASE Return(t)
  BY <1>1, <1>2, <1>3 DEF Return, Acknowledge
<1>4. CASE Abort(t) /\ t # Sweeper
  <2>1. message[t] \in Messages /\ Retry(message[t]) /\ dropped' = dropped
    BY <1>1, <1>2, <1>4 DEF Abort
  <2>2. inbox' \subseteq Messages /\ dead' \subseteq Events
    BY <1>2, <2>1, RetryTyped
  <2> QED BY <1>2, <1>4, <2>1, <2>2 DEF Abort
<1>5. CASE Abort(t) /\ t = Sweeper
  <2>1. /\ calls[t] \in Seq(Frames) /\ Len(calls[t]) \in Nat /\ Len(calls[t]) >= 2
        /\ DOMAIN calls[t] = 1..Len(calls[t]) /\ Stack(calls[t], t)
    BY <1>5, CurrentCall DEF Stack, Busy
  <2>2. calls[t][2] \in Calls /\ calls[t][1] \in Frames
    BY <2>1 DEF Stack
  <2>3. calls[t][2].of.event \in Events
    BY <2>2, CopyFields
  <2>4. \A c \in calls[t][1].rest : c.event \in Events
    BY <2>2, CopyFields DEF Frames
  <2> QED BY <1>2, <1>5, <2>3, <2>4 DEF Abort
<1> QED BY <1>3, <1>4, <1>5

LEMMA KeptWhenDone ==
  ASSUME OrderingInv, NEW t \in Tasks, Busy(t), Abort(t) \/ Return(t),
         processing' = processing \ {Current(t).of.event},
         waitlist' \subseteq Copies, seen \subseteq seen', seen' \subseteq Events,
         failures' \in 0..MaxFailures, UNCHANGED <<follows, published, aged>>
  PROVE  OrderingInv'
<1>1. /\ calls' = [calls EXCEPT ![t] = <<>>] /\ message' = message
      /\ inbox' \subseteq Messages /\ dead' \subseteq Events /\ dropped' \subseteq Events
  BY MessageDone
<1>2. Typed'
  BY <1>1 DEF OrderingInv, Typed
<1>3. Proceeding \subseteq Proceeding'
  BY ProceedingGrows
<1>4. CallsSound' /\ AllReady'
  BY <1>1, <1>3, EmptyStack, OneStack
<1>5. EvaluatedAlone'
  BY <1>1, AloneLeaves
<1> QED BY <1>2, <1>4, <1>5 DEF OrderingInv

LEMMA KeptByLeaderTakesLong ==
  ASSUME OrderingInv, NEW t \in Consumers, LeaderTakesLong(t)
  PROVE  OrderingInv'
<1>1. /\ Busy(t) /\ waitlist' = RecordFollower(Current(t).of) /\ Return(t)
      /\ processing' = processing \ {Current(t).of.event}
      /\ UNCHANGED <<follows, published, aged, seen, failures>>
  BY DEF LeaderTakesLong
<1>2. t \in Tasks
  BY DEF Tasks
<1>3. waitlist' \subseteq Copies
  BY <1>1, <1>2, CurrentCall DEF OrderingInv, Typed, RecordFollower
<1>4. seen \subseteq seen' /\ seen' \subseteq Events /\ failures' \in 0..MaxFailures
  BY <1>1 DEF OrderingInv, Typed
<1> QED BY <1>1, <1>2, <1>3, <1>4, KeptWhenDone

LEMMA KeptByEvaluationFails ==
  ASSUME OrderingInv, NEW t \in Tasks, EvaluationFails(t)
  PROVE  OrderingInv'
<1>1. /\ Busy(t) /\ Abort(t) /\ processing' = processing \ {Current(t).of.event}
      /\ failures < MaxFailures /\ failures' = failures + 1
      /\ UNCHANGED <<follows, published, waitlist, aged, seen>>
  BY DEF EvaluationFails
<1>2. /\ waitlist' \subseteq Copies /\ seen \subseteq seen' /\ seen' \subseteq Events
      /\ failures' \in 0..MaxFailures
  BY <1>1, OrderingAssumption DEF OrderingInv, Typed
<1> QED BY <1>1, <1>2, KeptWhenDone

\* The loop of the sweep and the first follower it calls
LEMMA SweepCalls ==
  ASSUME NEW C \in SUBSET Copies, NEW c \in Copies, NEW P, C \subseteq P, c \in P
  PROVE  LET s == <<SweepCall(C), Call(c, "evaluation")>> IN
         Stack(s, Sweeper) /\ Ready(s, P) /\ s # <<>> /\ s[Len(s)].of.event = c.event
<1> DEFINE f == SweepCall(C)
           g == Call(c, "evaluation")
           s == <<f, g>>
<1>1. f \in Frames /\ f.rest = C
  BY DEF SweepCall, Frames
<1>2. /\ g \in Calls /\ g \in Frames /\ g.of = c /\ g.phase = "evaluation" /\ g.rest = {}
  BY CallFields
<1> HIDE DEF f, g
<1>3. /\ s \in Seq(Frames) /\ Len(s) = 2 /\ DOMAIN s = 1..2 /\ s[1] = f /\ s[2] = g
      /\ s # <<>>
  BY <1>1, <1>2
<1> HIDE DEF s
<1>4. Stack(s, Sweeper)
  BY <1>2, <1>3 DEF Stack
<1>5. Ready(s, P)
  BY <1>1, <1>2, <1>3 DEF Ready
<1>6. s[Len(s)].of.event = c.event
  BY <1>2, <1>3
<1> QED BY <1>3, <1>4, <1>5, <1>6 DEF s, f, g

LEMMA KeptBySweep ==
  ASSUME OrderingInv, Sweep
  PROVE  OrderingInv'
<1> DEFINE first == First(Lost)
           s == <<SweepCall(Lost \ {first}), Call(first, "evaluation")>>
<1>1. /\ ~Busy(Sweeper) /\ Lost # {} /\ waitlist' = waitlist \ Lost
      /\ UNCHANGED <<follows, broker, message, aged, seen, failures>>
  BY DEF Sweep
<1>2. Lost \in SUBSET Copies /\ Lost \subseteq aged
  BY DEF Lost, OrderingInv, Typed
<1>3. first \in Lost /\ first \in Copies /\ first.event \in Events
  BY <1>1, <1>2, FirstFound, CopyFields
<1>4. Sweeper \in Tasks /\ Sweeper \notin Consumers
  BY OrderingAssumption DEF Tasks
<1> HIDE DEF first
<1>5. Proceeding \subseteq Proceeding' /\ Lost \subseteq Proceeding'
  <2>1. Proceeding \subseteq Proceeding'
    BY <1>1, ProceedingGrows
  <2>2. Lost \subseteq Proceeding
    BY <1>2 DEF Proceeding, MayProceed
  <2> QED BY <2>1, <2>2
<1>6. CASE /\ dropped' = dropped \cup {w.event : w \in Lost}
           /\ UNCHANGED <<calls, processing>>
  <2>1. \A w \in Lost : w.event \in Events
    BY <1>2, CopyFields
  <2>2. Typed'
    BY <1>1, <1>6, <2>1 DEF OrderingInv, Typed, broker
  <2> QED BY <1>1, <1>5, <1>6, <2>2, NoStack, AloneFrame DEF OrderingInv
<1>7. CASE /\ first.event \notin processing
           /\ calls' = [calls EXCEPT ![Sweeper] = s]
           /\ processing' = processing \cup {first.event} /\ UNCHANGED dropped
  <2>1. Typed'
    BY <1>1, <1>3, <1>7 DEF OrderingInv, Typed, broker
  <2>2. Stack(s, Sweeper) /\ Ready(s, Proceeding') /\ s # <<>> /\ s[Len(s)].of.event = first.event
    <3>1. Lost \ {first} \in SUBSET Copies /\ Lost \ {first} \subseteq Proceeding'
      BY <1>2, <1>5
    <3> QED BY <1>3, <1>5, <3>1, SweepCalls
  <2> HIDE DEF s
  <2>3. CallsSound' /\ AllReady'
    BY <1>1, <1>4, <1>5, <1>7, <2>2, OneStack
  <2>4. /\ s[Len(s)].of.event \notin processing \ Mark(Sweeper)
        /\ processing' = (processing \ Mark(Sweeper)) \cup {s[Len(s)].of.event}
    BY <1>1, <1>7, <2>2 DEF Mark
  <2>5. EvaluatedAlone'
    BY <1>4, <1>7, <2>2, <2>4, AloneEnters
  <2> QED BY <2>1, <2>3, <2>5 DEF OrderingInv
<1> QED BY <1>6, <1>7 DEF Sweep, first

LEMMA WithRest ==
  ASSUME NEW f \in Frames, NEW C \in SUBSET Copies
  PROVE  LET g == [f EXCEPT !.rest = C] IN
         g \in Frames /\ g.rest = C /\ g.of = f.of /\ (f \in Calls => g \in Calls)
  BY DEF Frames, Calls

\* The deepest loop of a task with a follower left once the last one is given C
Deepest(s, C) ==
  LET n == Len(s)
      stack == [s EXCEPT ![n].rest = C]
  IN  Max({0} \cup {i \in 1..n : stack[i].rest # {}})

\* That follower
NextOf(s, C, k) == First([s EXCEPT ![Len(s)].rest = C][k].rest)

\* The calls of the task when it is called
GoneOn(s, C, k, next) ==
  LET stack == [s EXCEPT ![Len(s)].rest = C]
      left == [SubSeq(stack, 1, k) EXCEPT ![k].rest = @ \ {next}]
  IN  Append(left, Call(next, "evaluation"))

LEMMA LoopGoesOn ==
  ASSUME NEW t, NEW s, Stack(s, t), s # <<>>, NEW P, Ready(s, P),
         NEW found \in SUBSET Copies, found \subseteq P
  PROVE  LET k == Deepest(s, found)
             next == NextOf(s, found, k)
             new == GoneOn(s, found, k, next)
         IN  k # 0 => /\ next \in Copies /\ Stack(new, t) /\ Ready(new, P) /\ new # <<>>
                      /\ new[Len(new)].of.event = next.event
<1> DEFINE n == Len(s)
           stack == [s EXCEPT ![n].rest = found]
           deep == {0} \cup {i \in 1..n : stack[i].rest # {}}
           k == Max(deep)
           next == First(stack[k].rest)
           left == [SubSeq(stack, 1, k) EXCEPT ![k].rest = @ \ {next}]
           g == Call(next, "evaluation")
           new == Append(left, g)
<1> SUFFICES ASSUME k # 0
             PROVE  /\ next \in Copies /\ Stack(new, t) /\ Ready(new, P) /\ new # <<>>
                    /\ new[Len(new)].of.event = next.event
  BY DEF Deepest, NextOf, GoneOn
<1>1. s \in Seq(Frames) /\ n \in Nat \ {0} /\ DOMAIN s = 1..n
  BY EmptySeq, LenProperties DEF Stack
<1>2. /\ stack \in Seq(Frames) /\ Len(stack) = n /\ DOMAIN stack = 1..n
      /\ \A i \in 1..n : stack[i].rest \subseteq P
      /\ \A i \in 1..n : (t # Sweeper \/ i > 1) => stack[i] \in Calls
  <2> DEFINE f == [s[n] EXCEPT !.rest = found]
  <2>1. s[n] \in Calls /\ s[n] \in Frames
    BY <1>1 DEF Stack
  <2>2. f \in Calls /\ f.rest = found
    BY <2>1, WithRest
  <2>3. stack = [s EXCEPT ![n] = f]
    BY <1>1
  <2> HIDE DEF f
  <2>4. /\ Stack([s EXCEPT ![n] = f], t) /\ Len([s EXCEPT ![n] = f]) = n
        /\ [s EXCEPT ![n] = f][n] = f /\ DOMAIN [s EXCEPT ![n] = f] = 1..n
        /\ \A i \in 1..n : i # n => [s EXCEPT ![n] = f][i] = s[i]
    BY <2>2, LastReplaced
  <2> HIDE DEF stack, n
  <2>5. Stack(stack, t) /\ Len(stack) = n /\ stack[n] = f /\ DOMAIN stack = 1..n
        /\ \A i \in 1..n : i # n => stack[i] = s[i]
    BY <2>3, <2>4
  <2>6. \A i \in 1..n : stack[i].rest \subseteq P
    BY <1>1, <2>2, <2>5 DEF Ready
  <2> QED BY <2>5, <2>6 DEF Stack
<1> HIDE DEF stack
<1>3. k \in 1..n /\ stack[k].rest # {}
  <2>1. deep \in SUBSET Nat /\ deep # {} /\ \A i \in deep : i <= n
    BY <1>1
  <2>2. k \in deep
    <3> HIDE DEF deep, n
    <3> QED BY <1>1, <2>1, MaxFound
  <2> QED BY <2>2
<1> HIDE DEF k
<1>4. stack[k] \in Frames /\ stack[k].rest \in SUBSET Copies /\ stack[k].rest \subseteq P
  <2> HIDE DEF n, next, left, g, new
  <2>1. stack[k] \in Frames
    BY <1>2, <1>3, ElementOfSeq
  <2>2. stack[k].rest \in SUBSET Copies
    BY <2>1 DEF Frames
  <2> QED BY <1>2, <1>3, <2>1, <2>2
<1>5. next \in Copies /\ next \in P
  BY <1>3, <1>4, FirstFound
<1>6. g \in Calls /\ g \in Frames /\ g.of = next /\ g.phase = "evaluation" /\ g.rest = {}
  BY <1>5, CallFields
<1> DEFINE sub == SubSeq(stack, 1, k)
           h == [stack[k] EXCEPT !.rest = @ \ {next}]
<1> HIDE DEF next, n
<1>7. sub \in Seq(Frames) /\ Len(sub) = k /\ \A i \in 1..k : sub[i] = stack[i]
  <2>1. \A i \in 1..k : stack[i] \in Frames
    BY <1>1, <1>2, <1>3
  <2>2. 1 \in Int /\ k \in Int /\ k \in Nat /\ 1 <= k
    BY <1>1, <1>3
  <2> QED BY <2>1, <2>2, SubSeqProperties
<1>8. /\ h \in Frames /\ h.rest = stack[k].rest \ {next}
      /\ stack[k] \in Calls => h \in Calls
  <2>1. stack[k].rest \ {next} \in SUBSET Copies
    BY <1>4
  <2> QED BY <1>4, <2>1, WithRest
<1> HIDE DEF sub, h
<1>9. left = [sub EXCEPT ![k] = h]
  <2>1. sub[k] = stack[k] /\ DOMAIN sub = 1..k /\ k \in DOMAIN sub
    BY <1>1, <1>3, <1>7, LenProperties
  <2>2. left = [SubSeq(stack, 1, k) EXCEPT ![k].rest = @ \ {next}]
    OBVIOUS
  <2> QED BY <2>1, <2>2 DEF sub, h
<1>10. /\ left \in Seq(Frames) /\ Len(left) = k
       /\ \A i \in 1..k : left[i] = IF i = k THEN h ELSE stack[i]
  <2>1. k \in 1..Len(sub)
    BY <1>1, <1>3, <1>7
  <2> HIDE DEF left
  <2> QED BY <1>7, <1>8, <1>9, <2>1, ExceptSeq
<1> HIDE DEF left, g
<1>11. /\ new \in Seq(Frames) /\ new # <<>> /\ Len(new) = k + 1 /\ DOMAIN new = 1..(k + 1)
       /\ \A i \in 1..k : new[i] = left[i]
       /\ new[k + 1] = g
  BY <1>6, <1>10, AppendProperties, LenProperties
<1> HIDE DEF new
<1>12. Stack(new, t)
  <2>1. \A i \in 1..k : (t # Sweeper \/ i > 1) => new[i] \in Calls
    BY <1>1, <1>2, <1>3, <1>8, <1>10, <1>11
  <2> QED BY <1>1, <1>3, <1>6, <1>11, <2>1 DEF Stack
<1>13. Ready(new, P)
  <2>1. \A i \in 1..k : new[i].rest \subseteq P
    BY <1>1, <1>2, <1>3, <1>4, <1>8, <1>10, <1>11
  <2> QED BY <1>1, <1>3, <1>5, <1>6, <1>11, <2>1 DEF Ready
<1>14. new[Len(new)].of.event = next.event
  BY <1>6, <1>11
<1> QED BY <1>5, <1>11, <1>12, <1>13, <1>14

\* A seen event's followers may proceed, and the loop goes on with the next one.
LEMMA KeptByEvaluated ==
  ASSUME OrderingInv, NEW t \in Tasks, Evaluated(t)
  PROVE  OrderingInv'
<1> DEFINE e == Current(t).of.event
           n == Len(calls[t])
           found == IF Depth(t, n) > MaxDepth THEN {} ELSE Followers(e)
           stack == [calls[t] EXCEPT ![n].rest = found]
           k == Max({0} \cup {i \in 1..n : stack[i].rest # {}})
           ended == {stack[i].of.event : i \in (k + 1)..n}
           next == First(stack[k].rest)
           left == [SubSeq(stack, 1, k) EXCEPT ![k].rest = @ \ {next}]
           new == Append(left, Call(next, "evaluation"))
<1>1. /\ Busy(t) /\ seen' = seen \cup {e}
      /\ waitlist' = {w \in waitlist : w.event \notin ended}
      /\ UNCHANGED <<follows, published, aged, failures>>
  BY DEF Evaluated
<1>2. \/ Return(t) /\ processing' = processing \ {e}
      \/ Abort(t) /\ processing' = processing \ {e}
      \/ /\ k # 0 /\ next.event \notin processing \ {e}
         /\ calls' = [calls EXCEPT ![t] = new]
         /\ processing' = (processing \ {e}) \cup {next.event}
         /\ UNCHANGED <<inbox, dead, message, dropped>>
  BY DEF Evaluated
<1>3. /\ Stack(calls[t], t) /\ calls[t] # <<>> /\ e \in Events
  BY <1>1, CurrentCall DEF Busy
<1>4. /\ waitlist \subseteq Copies /\ seen \subseteq Events /\ failures \in 0..MaxFailures
      /\ waitlist' \subseteq Copies /\ seen \subseteq seen' /\ seen' \subseteq Events
      /\ failures' \in 0..MaxFailures
  <2> HIDE DEF e, ended
  <2> QED BY <1>1, <1>3 DEF OrderingInv, Typed
<1>5. Proceeding \subseteq Proceeding'
  BY <1>1, <1>4, ProceedingGrows
<1>6. found \in SUBSET Copies /\ found \subseteq Proceeding'
  <2>1. \A w \in Followers(e) : w \in waitlist /\ Leader(w) = e /\ Leader(w)' = e
    BY <1>1 DEF Followers, Leader
  <2>2. Followers(e) \subseteq Proceeding'
    BY <1>1, <1>4, <2>1 DEF Proceeding, MayProceed
  <2> QED BY <1>4, <2>1, <2>2
<1>7. CASE (Return(t) \/ Abort(t)) /\ processing' = processing \ {e}
  BY <1>1, <1>4, <1>7, KeptWhenDone
<1>8. CASE /\ k # 0 /\ next.event \notin processing \ {e}
           /\ calls' = [calls EXCEPT ![t] = new]
           /\ processing' = (processing \ {e}) \cup {next.event}
           /\ UNCHANGED <<inbox, dead, message, dropped>>
  <2>1. Ready(calls[t], Proceeding')
    <3>1. Ready(calls[t], Proceeding)
      BY DEF OrderingInv, AllReady
    <3> QED BY <1>5, <3>1 DEF Ready
  <2> HIDE DEF found
  <2>2. k # 0 => /\ next \in Copies /\ Stack(new, t) /\ Ready(new, Proceeding') /\ new # <<>>
                 /\ new[Len(new)].of.event = next.event
    <3>1. k = Deepest(calls[t], found)
      BY DEF Deepest
    <3>2. next = NextOf(calls[t], found, k)
      BY DEF NextOf
    <3>3. new = GoneOn(calls[t], found, k, next)
      BY DEF GoneOn
    <3> HIDE DEF e, n, stack, k, left, next, new
    <3> QED BY <1>3, <1>6, <2>1, <3>1, <3>2, <3>3, LoopGoesOn
  <2> HIDE DEF e, k, next, new
  <2>3. /\ next.event \in Events /\ Stack(new, t) /\ Ready(new, Proceeding') /\ new # <<>>
        /\ new[Len(new)].of.event = next.event
    BY <1>8, <2>2, CopyFields
  <2>4. Typed'
    BY <1>1, <1>4, <1>8, <2>3 DEF OrderingInv, Typed
  <2>5. /\ t \in Consumers => message'[t] \in Messages
        /\ \A u \in Consumers \ {t} : message'[u] = message[u]
    BY <1>3, <1>8 DEF OrderingInv, CallsSound
  <2>6. CallsSound' /\ AllReady'
    BY <1>5, <1>8, <2>3, <2>5, OneStack
  <2>7. Mark(t) = {e}
    BY <1>1 DEF Mark, e
  <2>8. /\ new[Len(new)].of.event \notin processing \ Mark(t)
        /\ processing' = (processing \ Mark(t)) \cup {new[Len(new)].of.event}
    BY <1>8, <2>3, <2>7
  <2>9. EvaluatedAlone'
    BY <1>8, <2>3, <2>8, AloneEnters
  <2> QED BY <2>4, <2>6, <2>9 DEF OrderingInv
<1> QED BY <1>2, <1>7, <1>8

LEMMA StepKeepsInv ==
  OrderingInv /\ [Next]_vars => OrderingInv'
<1> SUFFICES ASSUME OrderingInv, [Next]_vars PROVE OrderingInv'
  OBVIOUS
<1>1. CASE UNCHANGED vars
  <2>1. UNCHANGED <<follows, published, inbox, dead, calls, message, waitlist, aged,
                    processing, seen, failures, dropped>>
    BY <1>1 DEF vars, broker
  <2>2. Typed'
    BY <2>1 DEF OrderingInv, Typed
  <2>3. CallsSound' /\ AllReady' /\ EvaluatedAlone'
    BY <2>1, ProceedingGrows, NoStack, AloneFrame
  <2> QED BY <2>2, <2>3 DEF OrderingInv
<1>2. CASE \E e \in Events : Publish(e)
  BY <1>2, KeptByPublish
<1>3. CASE \E c \in Copies : TimePasses(c)
  BY <1>3, KeptByTimePasses
<1>4. CASE \E t \in Consumers : \E m \in inbox : Take(t, m)
  BY <1>4, KeptByTake
<1>5. CASE \E t \in Consumers : LeaderSeen(t)
  BY <1>5, KeptByLeaderSeen
<1>6. CASE \E t \in Consumers : LeaderTakesLong(t)
  BY <1>6, KeptByLeaderTakesLong
<1>7. CASE \E t \in Tasks : Evaluated(t)
  BY <1>7, KeptByEvaluated
<1>8. CASE \E t \in Tasks : EvaluationFails(t)
  BY <1>8, KeptByEvaluationFails
<1>9. CASE Sweep
  BY <1>9, KeptBySweep
<1> QED BY <1>1, <1>2, <1>3, <1>4, <1>5, <1>6, <1>7, <1>8, <1>9 DEF Next

LEMMA Invariance ==
  Spec => []OrderingInv
<1>1. OrderingInv /\ [Next]_vars => OrderingInv'
  BY StepKeepsInv
<1> QED BY <1>1, InitInv, PTL DEF Spec

-----------------------------------------------------------------------------
(* The theorems                                                             *)

\* Every variable keeps the values it is meant to have; in particular a busy
\* consumer has a message of the subscription to acknowledge or to retry, and
\* no message is retried more often than the subscription allows
\* (utilities/messaging/memory.py).
THEOREM TypeCorrect == Spec => []TypeOK
<1>1. OrderingInv => TypeOK
  <2> SUFFICES ASSUME OrderingInv PROVE TypeOK
    OBVIOUS
  <2>1. Sweeper \notin Consumers /\ Consumers \subseteq Tasks /\ Sweeper \in Tasks
    BY OrderingAssumption DEF Tasks
  <2>2. \A t \in Consumers : \A i \in DOMAIN calls[t] : calls[t][i] \in Calls
    BY <2>1 DEF OrderingInv, CallsSound, Stack
  <2>3. \A i \in DOMAIN calls[Sweeper] : i > 1 => calls[Sweeper][i] \in Calls
    BY <2>1 DEF OrderingInv, CallsSound, Stack
  <2> QED BY <2>2, <2>3 DEF OrderingInv, Typed, CallsSound, TypeOK
<1> QED BY <1>1, Invariance, PTL

\* An event is evaluated only if it follows none, its leader has been seen or it
\* has waited for the whole lookback: in whatever order its copies, its leader
\* and its followers arrive, whatever fails, and however deep the followers of
\* followers are (server/events/ordering/memory.py:203).
THEOREM NoFollowerOvertakes == Spec => []LeaderFirst
<1>1. OrderingInv => LeaderFirst
  BY DEF OrderingInv, AllReady, Ready, Proceeding, LeaderFirst, Current, Busy
<1> QED BY <1>1, Invariance, PTL

\* The events in process are exactly those the consumers and the sweep are at,
\* and each is one task's: a copy, a retry, a loop over followers and the sweep
\* never evaluate an event at once, and no failure leaves an event locked
\* (server/events/ordering/memory.py:188).
THEOREM NoEventLockedOrDoubled == Spec => []EvaluatedAlone
<1>1. OrderingInv => EvaluatedAlone
  BY DEF OrderingInv
<1> QED BY <1>1, Invariance, PTL
=============================================================================
