------------------------- MODULE BackgroundTasksProofs -------------------------
(***************************************************************************)
(* Proofs about BackgroundTasks, for all values of its constants: types,   *)
(* that every scheduled run is in one place until it is acknowledged, and  *)
(* that a run is started twice only after an acknowledgement was lost.     *)
(***************************************************************************)
EXTENDS BackgroundTasks, FiniteSetTheorems, SequenceTheorems, TLAPS

-----------------------------------------------------------------------------
(* Counting where a function has a value                                    *)

At(f, r) == {x \in DOMAIN f : f[x] = r}

Count(f, r) == Cardinality(At(f, r))

Same(x, y) == IF x = y THEN 1 ELSE 0

With(f, a, v) == [f EXCEPT ![a] = v]

\* Writing v over something else adds one v and nothing else.
LEMMA CountWritten ==
  ASSUME NEW f, NEW a \in DOMAIN f, NEW v, NEW r,
         f[a] # r, IsFiniteSet(At(f, r))
  PROVE  LET g == With(f, a, v) IN
         /\ IsFiniteSet(At(g, r))
         /\ Count(f, r) \in Nat
         /\ Count(g, r) = Count(f, r) + Same(v, r)
<1> DEFINE g == With(f, a, v)
<1>1. Cardinality(At(f, r)) \in Nat
  BY FS_CardinalityType
<1>2. CASE v = r
  <2>1. At(g, r) = At(f, r) \cup {a} /\ a \notin At(f, r)
    BY <1>2 DEF At, With
  <2> HIDE DEF g
  <2>2. /\ IsFiniteSet(At(f, r) \cup {a})
        /\ Cardinality(At(f, r) \cup {a}) = Cardinality(At(f, r)) + 1
    BY <2>1, FS_AddElement
  <2> QED BY <1>1, <1>2, <2>1, <2>2 DEF Count, Same, g
<1>3. CASE v # r
  <2>1. At(g, r) = At(f, r)
    BY <1>3 DEF At, With
  <2> HIDE DEF g
  <2> QED BY <1>1, <1>3, <2>1 DEF Count, Same, g
<1> QED BY <1>2, <1>3

\* Writing another value over v takes one v away.
LEMMA CountErased ==
  ASSUME NEW f, NEW a \in DOMAIN f, NEW v, NEW r,
         v # r, IsFiniteSet(At(f, r))
  PROVE  LET g == With(f, a, v) IN
         /\ IsFiniteSet(At(g, r))
         /\ Count(g, r) \in Nat
         /\ Count(f, r) = Count(g, r) + Same(f[a], r)
<1> DEFINE g == With(f, a, v)
<1>1. At(g, r) = At(f, r) \ {a} /\ (a \in At(f, r) <=> f[a] = r)
  BY DEF At, With
<1> HIDE DEF g
<1>2. /\ IsFiniteSet(At(f, r) \ {a}) /\ Cardinality(At(f, r)) \in Nat
      /\ Cardinality(At(f, r) \ {a}) \in Nat
      /\ Cardinality(At(f, r) \ {a}) =
           IF a \in At(f, r) THEN Cardinality(At(f, r)) - 1 ELSE Cardinality(At(f, r))
  BY FS_RemoveElement, FS_CardinalityType
<1>3. Count(f, r) = Count(g, r) + Same(f[a], r)
  BY <1>1, <1>2 DEF Count, Same
<1> QED BY <1>1, <1>2, <1>3 DEF Count, g

\* A value that is nowhere counts nothing.
LEMMA CountNowhere ==
  ASSUME NEW f, NEW r, \A x \in DOMAIN f : f[x] # r
  PROVE  IsFiniteSet(At(f, r)) /\ Count(f, r) = 0
<1>1. At(f, r) = {}
  BY DEF At
<1> QED BY <1>1, FS_EmptySet DEF Count

LEMMA CountSeq ==
  ASSUME NEW q \in Seq(Runs), NEW r
  PROVE  IsFiniteSet(At(q, r)) /\ Count(q, r) \in Nat
<1>1. Len(q) \in Nat /\ DOMAIN q = 1..Len(q)
  BY LenProperties
<1>2. IsFiniteSet(1..Len(q)) /\ At(q, r) \in SUBSET (1..Len(q))
  BY <1>1, FS_Interval DEF At
<1>3. IsFiniteSet(At(q, r))
  BY <1>2, FS_Subset
<1> QED BY <1>3, FS_CardinalityType DEF Count

\* A put adds one copy, at the end.
LEMMA CountAppend ==
  ASSUME NEW q \in Seq(Runs), NEW x \in Runs, NEW r
  PROVE  Count(Append(q, x), r) = Count(q, r) + Same(x, r)
<1> DEFINE n == Len(q)
           p == Append(q, x)
<1>1. /\ n \in Nat /\ DOMAIN q = 1..n /\ DOMAIN p = 1..(n + 1)
      /\ p[n + 1] = x /\ \A i \in 1..n : p[i] = q[i]
  BY AppendProperties, LenProperties
<1>2. IsFiniteSet(At(q, r)) /\ Count(q, r) \in Nat
  BY CountSeq
<1> HIDE DEF n, p
<1>3. CASE x = r
  <2>1. At(p, r) = At(q, r) \cup {n + 1} /\ n + 1 \notin At(q, r)
    BY <1>1, <1>3 DEF At
  <2>2. Cardinality(At(q, r) \cup {n + 1}) = Cardinality(At(q, r)) + 1
    BY <1>2, <2>1, FS_AddElement
  <2> QED BY <1>2, <1>3, <2>1, <2>2 DEF Count, Same, p
<1>4. CASE x # r
  <2>1. At(p, r) = At(q, r)
    BY <1>1, <1>4 DEF At
  <2> QED BY <1>2, <1>4, <2>1 DEF Count, Same, p
<1> QED BY <1>3, <1>4

\* A get takes the first one; the others move up.
LEMMA CountTail ==
  ASSUME NEW q \in Seq(Runs), q # <<>>, NEW r
  PROVE  /\ Count(Tail(q), r) \in Nat
         /\ Count(q, r) = Count(Tail(q), r) + Same(Head(q), r)
<1> DEFINE p == Tail(q)
           up == [i \in At(p, r) |-> i + 1]
           moved == At(q, r) \ {1}
<1>1. /\ Len(q) \in Nat \ {0} /\ DOMAIN q = 1..Len(q) /\ Head(q) = q[1]
      /\ p \in Seq(Runs) /\ DOMAIN p = 1..(Len(q) - 1)
      /\ \A i \in DOMAIN p : p[i] = q[i + 1]
  BY EmptySeq, HeadTailProperties, LenProperties
<1>2. /\ IsFiniteSet(At(q, r)) /\ Count(q, r) \in Nat
      /\ IsFiniteSet(At(p, r)) /\ Count(p, r) \in Nat
  BY <1>1, CountSeq
<1> HIDE DEF p
<1>3. up \in Bijection(At(p, r), moved)
  <2>1. \A i \in At(p, r) : i \in Nat /\ i + 1 \in moved
    BY <1>1 DEF At
  <2>2. \A j \in moved : j - 1 \in At(p, r) /\ j \in Nat
    BY <1>1 DEF At
  <2>3. up \in Injection(At(p, r), moved)
    BY <2>1 DEF Injection, IsInjective
  <2>4. up \in Surjection(At(p, r), moved)
    <3>1. \A j \in moved : j - 1 \in At(p, r) /\ up[j - 1] = j
      BY <2>2
    <3>2. up \in [At(p, r) -> moved]
      BY <2>1
    <3> HIDE DEF up, moved
    <3> QED BY <3>1, <3>2 DEF Surjection
  <2> QED BY <2>3, <2>4 DEF Bijection
<1>4. Cardinality(moved) = Cardinality(At(p, r))
  <2>1. ExistsBijection(At(p, r), moved)
    BY <1>3 DEF ExistsBijection
  <2> HIDE DEF moved
  <2> QED BY <2>1, <1>2, FS_Bijection
<1>5. /\ Cardinality(At(q, r)) \in Nat
      /\ Cardinality(moved) =
           IF 1 \in At(q, r) THEN Cardinality(At(q, r)) - 1 ELSE Cardinality(At(q, r))
  BY <1>2, FS_RemoveElement, FS_CardinalityType
<1>6. 1 \in At(q, r) <=> Head(q) = r
  BY <1>1 DEF At
<1> HIDE DEF moved
<1> QED BY <1>2, <1>4, <1>5, <1>6 DEF Count, Same, p
-----------------------------------------------------------------------------
(* The inductive invariant                                                  *)

\* The queues are typed, and each holds runs of its own task only.
Placed(f, size) ==
  /\ f \in [TaskKeys -> Seq(Runs)]
  /\ \A k \in TaskKeys : /\ Len(f[k]) <= size
                         /\ \A i \in DOMAIN f[k] : TaskKey[f[k][i]] = k

QueuesSound == Placed(scheduled, ScheduledSize) /\ Placed(retry, RetrySize)

\* A run is in the hands of a live handler only, and what a connection carries
\* is the run its handler waits for, or the ack of it.
HandlersSound ==
  /\ serving \subseteq Connections /\ IsFiniteSet(serving) /\ open \subseteq serving
  /\ keys \in [Connections -> {<<>>} \cup {Subscribed[w] : w \in Workers}]
  /\ sent \in [Connections -> Runs \cup {None}]
  /\ wire \in [Connections -> {"nothing", "run", "ack"}]
  /\ \A c \in Connections : /\ c \in serving => keys[c] # <<>>
                            /\ sent[c] # None => c \in serving
                            /\ wire[c] # "nothing" => sent[c] # None
                            /\ wire[c] = "run" => c \in open

WorkersSound ==
  /\ link \in [Workers -> Connections \cup {None}]
  /\ hand \in [Workers -> Runs \cup {None}]
  /\ running \in [Workers -> SUBSET Runs]
  /\ \A w \in Workers : IsFiniteSet(running[w]) /\ Cardinality(running[w]) <= Limit
  /\ faults \in 0..MaxFaults

HistorySound ==
  /\ submitted \subseteq Runs
  /\ acked \in [Runs -> Nat] /\ starts \in [Runs -> Nat] /\ unheard \in [Runs -> Nat]

Queued(r) == Count(scheduled[TaskKey[r]], r) + Count(retry[TaskKey[r]], r)

\* Nothing that was not scheduled is anywhere, and what was is in one place
\* until it is acknowledged.
Conserved ==
  \A r \in Runs : Queued(r) + Count(sent, r) + acked[r] = IF r \in submitted THEN 1 ELSE 0

\* The run whose ack a connection carries
Acks == [c \in Connections |-> IF wire[c] = "ack" THEN sent[c] ELSE None]

\* Every start, and every run in the hand of a worker, had an acknowledgement
\* of its own: one that arrived, one that was lost or one still on the wire.
Backed ==
  \A r \in Runs : starts[r] + Count(hand, r) <= acked[r] + unheard[r] + Count(Acks, r)

TasksInv ==
  QueuesSound /\ HandlersSound /\ WorkersSound /\ HistorySound /\ Conserved /\ Backed

LEMMA InvTypes ==
  TasksInv => TypeOK
<1> SUFFICES ASSUME TasksInv PROVE TypeOK
  OBVIOUS
<1>1. \A k \in TaskKeys : /\ scheduled[k] \in Seq(Runs) /\ retry[k] \in Seq(Runs)
                          /\ Len(scheduled[k]) <= ScheduledSize
                          /\ Len(retry[k]) <= RetrySize
  BY DEF TasksInv, QueuesSound, Placed
<1>2. /\ serving \subseteq Connections /\ open \subseteq serving
      /\ sent \in [Connections -> Runs \cup {None}]
      /\ wire \in [Connections -> {"nothing", "run", "ack"}]
      /\ \A c \in serving : keys[c] \in {Subscribed[w] : w \in Workers}
  BY DEF TasksInv, HandlersSound
<1> QED BY <1>1, <1>2 DEF TasksInv, WorkersSound, TypeOK

LEMMA InitInv ==
  Init => TasksInv
<1> SUFFICES ASSUME Init PROVE TasksInv
  OBVIOUS
<1> USE DEF Init
<1>1. QueuesSound
  <2>1. <<>> \in Seq(Runs) /\ Len(<<>>) = 0 /\ DOMAIN <<>> = {}
    BY EmptySeq, LenProperties
  <2> QED BY <2>1, TasksAssumption DEF QueuesSound, Placed
<1>2. HandlersSound
  BY FS_EmptySet DEF HandlersSound
<1>3. WorkersSound
  BY FS_EmptySet, TasksAssumption DEF WorkersSound
<1>4. HistorySound
  BY DEF HistorySound
<1>5. ASSUME NEW r \in Runs
      PROVE  /\ Queued(r) = 0 /\ Count(sent, r) = 0 /\ Count(hand, r) = 0
             /\ Count(Acks, r) \in Nat
  <2>1. TaskKey[r] \in TaskKeys /\ r # None
    BY TasksAssumption
  <2>2. Count(<<>>, r) = 0 /\ Count(sent, r) = 0 /\ Count(hand, r) = 0
    BY <2>1, CountNowhere
  <2>3. Count(Acks, r) = 0
    BY <2>1, CountNowhere DEF Acks
  <2> QED BY <2>1, <2>2, <2>3 DEF Queued
<1>6. Conserved
  BY <1>5 DEF Conserved, Same
<1>7. Backed
  BY <1>5 DEF Backed
<1> QED BY <1>1, <1>2, <1>3, <1>4, <1>6, <1>7 DEF TasksInv

-----------------------------------------------------------------------------
(* What puts and gets do to the queues                                      *)

WithLast(f, r) == [f EXCEPT ![TaskKey[r]] = Append(@, r)]

WithoutFirst(f, k) == [f EXCEPT ![k] = Tail(@)]

LEMMA Appended ==
  ASSUME NEW size \in Nat, NEW f, Placed(f, size), NEW r \in Runs, Len(f[TaskKey[r]]) < size
  PROVE  LET g == WithLast(f, r) IN
         /\ Placed(g, size)
         /\ \A s \in Runs : Count(g[TaskKey[s]], s) = Count(f[TaskKey[s]], s) + Same(r, s)
<1> DEFINE k == TaskKey[r]
           g == WithLast(f, r)
<1>1. k \in TaskKeys /\ f \in [TaskKeys -> Seq(Runs)] /\ f[k] \in Seq(Runs)
  BY TasksAssumption DEF Placed
<1>2. /\ g \in [TaskKeys -> Seq(Runs)] /\ g[k] = Append(f[k], r)
      /\ \A l \in TaskKeys \ {k} : g[l] = f[l]
  BY <1>1, AppendProperties DEF WithLast
<1>3. /\ Len(f[k]) \in Nat /\ Len(g[k]) = Len(f[k]) + 1
      /\ DOMAIN f[k] = 1..Len(f[k]) /\ DOMAIN g[k] = 1..(Len(f[k]) + 1)
      /\ g[k][Len(f[k]) + 1] = r /\ \A i \in 1..Len(f[k]) : g[k][i] = f[k][i]
  BY <1>1, <1>2, AppendProperties, LenProperties
<1> HIDE DEF k, g
<1>4. Placed(g, size)
  <2>1. Len(g[k]) <= size /\ \A i \in DOMAIN g[k] : TaskKey[g[k][i]] = k
    BY <1>1, <1>3 DEF Placed, k
  <2> QED BY <1>2, <2>1 DEF Placed
<1>5. ASSUME NEW s \in Runs
      PROVE  Count(g[TaskKey[s]], s) = Count(f[TaskKey[s]], s) + Same(r, s)
  <2>1. TaskKey[s] \in TaskKeys
    BY TasksAssumption
  <2>2. CASE TaskKey[s] = k
    <3>1. g[TaskKey[s]] = Append(f[k], r) /\ f[TaskKey[s]] = f[k]
      BY <1>2, <2>2
    <3> QED BY <1>1, <3>1, CountAppend
  <2>3. CASE TaskKey[s] # k
    <3>1. g[TaskKey[s]] = f[TaskKey[s]] /\ f[TaskKey[s]] \in Seq(Runs) /\ r # s
      BY <1>1, <1>2, <2>1, <2>3 DEF k
    <3> QED BY <3>1, CountSeq DEF Same
  <2> QED BY <2>2, <2>3
<1> QED BY <1>4, <1>5 DEF g

LEMMA Taken ==
  ASSUME NEW size \in Nat, NEW f, Placed(f, size), NEW k \in TaskKeys, f[k] # <<>>
  PROVE  LET g == WithoutFirst(f, k) IN
         /\ Head(f[k]) \in Runs /\ Placed(g, size)
         /\ \A s \in Runs : /\ Count(g[TaskKey[s]], s) \in Nat
                            /\ Count(f[TaskKey[s]], s)
                                 = Count(g[TaskKey[s]], s) + Same(Head(f[k]), s)
<1> DEFINE g == WithoutFirst(f, k)
<1>1. f \in [TaskKeys -> Seq(Runs)] /\ f[k] \in Seq(Runs)
  BY DEF Placed
<1>2. /\ Tail(f[k]) \in Seq(Runs) /\ Head(f[k]) \in Runs /\ Head(f[k]) = f[k][1]
      /\ Len(f[k]) \in Nat \ {0} /\ DOMAIN f[k] = 1..Len(f[k])
      /\ Len(Tail(f[k])) = Len(f[k]) - 1 /\ DOMAIN Tail(f[k]) = 1..(Len(f[k]) - 1)
      /\ \A i \in DOMAIN Tail(f[k]) : Tail(f[k])[i] = f[k][i + 1]
  BY <1>1, EmptySeq, HeadTailProperties, LenProperties
<1>3. /\ g \in [TaskKeys -> Seq(Runs)] /\ g[k] = Tail(f[k])
      /\ \A l \in TaskKeys \ {k} : g[l] = f[l]
  BY <1>1, <1>2 DEF WithoutFirst
<1> HIDE DEF g
<1>4. Placed(g, size)
  <2>1. Len(g[k]) <= size /\ \A i \in DOMAIN g[k] : TaskKey[g[k][i]] = k
    BY <1>2, <1>3 DEF Placed
  <2> QED BY <1>3, <2>1 DEF Placed
<1>5. TaskKey[Head(f[k])] = k
  BY <1>2 DEF Placed
<1>6. ASSUME NEW s \in Runs
      PROVE  /\ Count(g[TaskKey[s]], s) \in Nat
             /\ Count(f[TaskKey[s]], s) = Count(g[TaskKey[s]], s) + Same(Head(f[k]), s)
  <2>1. TaskKey[s] \in TaskKeys
    BY TasksAssumption
  <2>2. CASE TaskKey[s] = k
    BY <1>1, <1>3, <2>2, CountTail
  <2>3. CASE TaskKey[s] # k
    <3>1. g[TaskKey[s]] = f[TaskKey[s]] /\ f[TaskKey[s]] \in Seq(Runs) /\ Head(f[k]) # s
      BY <1>1, <1>3, <1>5, <2>1, <2>3
    <3> QED BY <3>1, CountSeq DEF Same
  <2> QED BY <2>2, <2>3
<1> QED BY <1>2, <1>4, <1>6 DEF g

LEMMA QueuedType ==
  ASSUME QueuesSound, NEW s \in Runs
  PROVE  /\ Count(scheduled[TaskKey[s]], s) \in Nat
         /\ Count(retry[TaskKey[s]], s) \in Nat /\ Queued(s) \in Nat
<1>1. TaskKey[s] \in TaskKeys
  BY TasksAssumption
<1>2. scheduled[TaskKey[s]] \in Seq(Runs) /\ retry[TaskKey[s]] \in Seq(Runs)
  BY <1>1 DEF QueuesSound, Placed
<1> QED BY <1>2, CountSeq DEF Queued

LEMMA SameType ==
  \A r, s : Same(r, s) \in Nat
  BY DEF Same

LEMMA Puts ==
  ASSUME QueuesSound, NEW r \in Runs, Put(r) \/ Retry(r)
  PROVE  QueuesSound' /\ \A s \in Runs : Queued(s)' = Queued(s) + Same(r, s)
<1>1. /\ ScheduledSize \in Nat /\ RetrySize \in Nat
      /\ Placed(scheduled, ScheduledSize) /\ Placed(retry, RetrySize)
  BY TasksAssumption DEF QueuesSound
<1>2. CASE Put(r)
  <2>1. /\ scheduled' = WithLast(scheduled, r) /\ retry' = retry
        /\ Len(scheduled[TaskKey[r]]) < ScheduledSize
    BY <1>2 DEF Put, WithLast
  <2>2. /\ Placed(scheduled', ScheduledSize)
        /\ \A s \in Runs : Count(scheduled'[TaskKey[s]], s)
                             = Count(scheduled[TaskKey[s]], s) + Same(r, s)
    BY <1>1, <2>1, Appended
  <2>3. QueuesSound'
    BY <1>1, <2>1, <2>2 DEF QueuesSound
  <2>4. ASSUME NEW s \in Runs
        PROVE  Queued(s)' = Queued(s) + Same(r, s)
    <3>1. /\ Count(scheduled'[TaskKey[s]], s) = Count(scheduled[TaskKey[s]], s) + Same(r, s)
          /\ Count(retry'[TaskKey[s]], s) = Count(retry[TaskKey[s]], s)
      BY <2>1, <2>2
    <3> QED BY <3>1, QueuedType, SameType DEF Queued
  <2> QED BY <2>3, <2>4
<1>3. CASE Retry(r)
  <2>1. /\ retry' = WithLast(retry, r) /\ scheduled' = scheduled
        /\ Len(retry[TaskKey[r]]) < RetrySize
    BY <1>3 DEF Retry, WithLast
  <2>2. /\ Placed(retry', RetrySize)
        /\ \A s \in Runs : Count(retry'[TaskKey[s]], s)
                             = Count(retry[TaskKey[s]], s) + Same(r, s)
    BY <1>1, <2>1, Appended
  <2>3. QueuesSound'
    BY <1>1, <2>1, <2>2 DEF QueuesSound
  <2>4. ASSUME NEW s \in Runs
        PROVE  Queued(s)' = Queued(s) + Same(r, s)
    <3>1. /\ Count(retry'[TaskKey[s]], s) = Count(retry[TaskKey[s]], s) + Same(r, s)
          /\ Count(scheduled'[TaskKey[s]], s) = Count(scheduled[TaskKey[s]], s)
      BY <2>1, <2>2
    <3> QED BY <3>1, QueuedType, SameType DEF Queued
  <2> QED BY <2>3, <2>4
<1> QED BY <1>2, <1>3

LEMMA Gets ==
  ASSUME QueuesSound, NEW list \in Seq(TaskKeys), NEW r, Get(list, r)
  PROVE  /\ r \in Runs /\ QueuesSound'
         /\ \A s \in Runs : Queued(s)' \in Nat /\ Queued(s) = Queued(s)' + Same(r, s)
<1>1. /\ ScheduledSize \in Nat /\ RetrySize \in Nat
      /\ Placed(scheduled, ScheduledSize) /\ Placed(retry, RetrySize)
  BY TasksAssumption DEF QueuesSound
<1>2. PICK k \in TaskKeys : GetFrom(k, r)
  BY LenProperties DEF Get
<1>3. CASE retry[k] # <<>>
  <2>1. /\ retry' = WithoutFirst(retry, k) /\ scheduled' = scheduled
        /\ r = Head(retry[k]) /\ retry[k] # <<>>
    BY <1>2, <1>3 DEF GetFrom, WithoutFirst
  <2>2. /\ r \in Runs /\ Placed(retry', RetrySize)
        /\ \A s \in Runs : /\ Count(retry'[TaskKey[s]], s) \in Nat
                           /\ Count(retry[TaskKey[s]], s)
                                = Count(retry'[TaskKey[s]], s) + Same(r, s)
    BY <1>1, <2>1, Taken
  <2>3. QueuesSound'
    BY <1>1, <2>1, <2>2 DEF QueuesSound
  <2>4. ASSUME NEW s \in Runs
        PROVE  Queued(s)' \in Nat /\ Queued(s) = Queued(s)' + Same(r, s)
    <3>1. /\ Count(retry'[TaskKey[s]], s) \in Nat
          /\ Count(retry[TaskKey[s]], s) = Count(retry'[TaskKey[s]], s) + Same(r, s)
          /\ Count(scheduled'[TaskKey[s]], s) = Count(scheduled[TaskKey[s]], s)
      BY <2>1, <2>2
    <3> QED BY <3>1, QueuedType, SameType DEF Queued
  <2> QED BY <2>2, <2>3, <2>4
<1>4. CASE retry[k] = <<>>
  <2>1. /\ scheduled' = WithoutFirst(scheduled, k) /\ retry' = retry
        /\ r = Head(scheduled[k]) /\ scheduled[k] # <<>>
    BY <1>2, <1>4 DEF GetFrom, WithoutFirst
  <2>2. /\ r \in Runs /\ Placed(scheduled', ScheduledSize)
        /\ \A s \in Runs : /\ Count(scheduled'[TaskKey[s]], s) \in Nat
                           /\ Count(scheduled[TaskKey[s]], s)
                                = Count(scheduled'[TaskKey[s]], s) + Same(r, s)
    BY <1>1, <2>1, Taken
  <2>3. QueuesSound'
    BY <1>1, <2>1, <2>2 DEF QueuesSound
  <2>4. ASSUME NEW s \in Runs
        PROVE  Queued(s)' \in Nat /\ Queued(s) = Queued(s)' + Same(r, s)
    <3>1. /\ Count(scheduled'[TaskKey[s]], s) \in Nat
          /\ Count(scheduled[TaskKey[s]], s) = Count(scheduled'[TaskKey[s]], s) + Same(r, s)
          /\ Count(retry'[TaskKey[s]], s) = Count(retry[TaskKey[s]], s)
      BY <2>1, <2>2
    <3> QED BY <3>1, QueuedType, SameType DEF Queued
  <2> QED BY <2>2, <2>3, <2>4
<1> QED BY <1>3, <1>4

-----------------------------------------------------------------------------
(* What the other parts of the state count                                  *)

LEMMA Counts ==
  ASSUME TasksInv, NEW r \in Runs
  PROVE  /\ IsFiniteSet(At(sent, r)) /\ IsFiniteSet(At(Acks, r)) /\ IsFiniteSet(At(hand, r))
         /\ Count(sent, r) \in Nat /\ Count(Acks, r) \in Nat /\ Count(hand, r) \in Nat
         /\ Count(Acks, r) <= Count(sent, r)
         /\ acked[r] \in Nat /\ starts[r] \in Nat /\ unheard[r] \in Nat
         /\ r # None
<1>1. r # None
  BY TasksAssumption
<1>2. /\ At(sent, r) \in SUBSET serving /\ IsFiniteSet(serving)
      /\ At(Acks, r) \in SUBSET At(sent, r)
  BY <1>1 DEF TasksInv, HandlersSound, At, Acks
<1>3. At(hand, r) \in SUBSET Workers /\ IsFiniteSet(Workers)
  BY TasksAssumption DEF TasksInv, WorkersSound, At
<1>4. /\ IsFiniteSet(At(sent, r)) /\ IsFiniteSet(At(Acks, r)) /\ IsFiniteSet(At(hand, r))
      /\ Cardinality(At(Acks, r)) <= Cardinality(At(sent, r))
  BY <1>2, <1>3, FS_Subset
<1>5. acked[r] \in Nat /\ starts[r] \in Nat /\ unheard[r] \in Nat
  BY DEF TasksInv, HistorySound
<1> QED BY <1>1, <1>4, <1>5, FS_CardinalityType DEF Count

\* Frames: which parts of the state each part of the invariant reads
LEMMA QueuesFrame ==
  ASSUME TasksInv, UNCHANGED queues
  PROVE  QueuesSound' /\ \A s \in Runs : Queued(s)' = Queued(s)
  BY DEF TasksInv, QueuesSound, Queued, queues

LEMMA HandlersFrame ==
  ASSUME TasksInv, UNCHANGED <<handlers, network>>
  PROVE  HandlersSound'
  BY DEF TasksInv, HandlersSound, handlers, network

LEMMA WorkersFrame ==
  ASSUME TasksInv, UNCHANGED <<workers, faults>>
  PROVE  WorkersSound'
  BY DEF TasksInv, WorkersSound, workers

LEMMA HistoryFrame ==
  ASSUME TasksInv, UNCHANGED <<submitted, acked, starts, unheard>>
  PROVE  HistorySound'
  BY DEF TasksInv, HistorySound

LEMMA ConservedFrame ==
  ASSUME TasksInv, UNCHANGED <<queues, sent, submitted, acked>>
  PROVE  Conserved'
<1>1. \A s \in Runs : Queued(s)' = Queued(s)
  BY QueuesFrame
<1> QED BY <1>1 DEF TasksInv, Conserved

LEMMA BackedFrame ==
  ASSUME TasksInv, UNCHANGED <<sent, wire, hand, acked, starts, unheard>>
  PROVE  Backed'
<1>1. Acks' = Acks
  BY DEF Acks
<1> QED BY <1>1 DEF TasksInv, Backed

-----------------------------------------------------------------------------
(* Each step preserves the invariant                                        *)

LEMMA KeptByEnqueueScheduledTasks ==
  ASSUME TasksInv, NEW r \in Runs, EnqueueScheduledTasks(r)
  PROVE  TasksInv'
<1> USE DEF EnqueueScheduledTasks
<1>1. QueuesSound' /\ \A s \in Runs : Queued(s)' = Queued(s) + Same(r, s)
  BY Puts DEF TasksInv
<1>2. HandlersSound' /\ WorkersSound'
  BY HandlersFrame, WorkersFrame
<1>3. HistorySound'
  BY DEF TasksInv, HistorySound, history
<1>4. Conserved'
  <2>1. ASSUME NEW s \in Runs
        PROVE  Queued(s)' + Count(sent, s) + acked[s] = IF s \in submitted' THEN 1 ELSE 0
    <3>1. /\ Queued(s) \in Nat /\ Count(sent, s) \in Nat /\ acked[s] \in Nat
          /\ Queued(s) + Count(sent, s) + acked[s] = IF s \in submitted THEN 1 ELSE 0
      BY Counts, QueuedType DEF TasksInv, Conserved
    <3>2. CASE s = r
      BY <1>1, <3>1, <3>2 DEF Same
    <3>3. CASE s # r
      BY <1>1, <3>1, <3>3 DEF Same
    <3> QED BY <3>2, <3>3
  <2> QED BY <2>1 DEF Conserved, handlers
<1>5. Backed'
  BY BackedFrame DEF handlers, network, workers
<1> QED BY <1>1, <1>2, <1>3, <1>4, <1>5 DEF TasksInv

\* A handler without a run has nothing on its connection.
LEMMA Idle ==
  ASSUME TasksInv, NEW c \in Connections
  PROVE  /\ sent[c] = None => wire[c] = "nothing"
         /\ sent[c] # None => sent[c] \in Runs
         /\ Acks[c] = IF wire[c] = "ack" THEN sent[c] ELSE None
         /\ Acks \in [Connections -> Runs \cup {None}]
  BY DEF TasksInv, HandlersSound, Acks

LEMMA KeptBySend ==
  ASSUME TasksInv, NEW c \in Connections, Send(c)
  PROVE  TasksInv'
<1>1. /\ c \in serving /\ sent[c] = None
      /\ wire' = [wire EXCEPT ![c] = IF c \in open THEN "run" ELSE @]
      /\ UNCHANGED <<serving, keys, open, workers, faults, history>>
  BY DEF Send
<1>2. PICK r \in Runs : Get(keys[c], r) /\ sent' = [sent EXCEPT ![c] = r]
  BY DEF Send
<1>3. keys[c] \in Seq(TaskKeys)
  <2>1. PICK w \in Workers : keys[c] = Subscribed[w]
    BY <1>1 DEF TasksInv, HandlersSound
  <2> QED BY <2>1, TasksAssumption
<1>4. QueuesSound' /\ \A s \in Runs : Queued(s)' \in Nat /\ Queued(s) = Queued(s)' + Same(r, s)
  BY <1>2, <1>3, Gets DEF TasksInv
<1>5. HandlersSound'
  <2>1. /\ HandlersSound /\ wire[c] = "nothing"
        /\ wire' \in [Connections -> {"nothing", "run", "ack"}]
        /\ sent' \in [Connections -> Runs \cup {None}]
    BY <1>1, <1>2, Idle DEF TasksInv, HandlersSound
  <2>2. \A d \in Connections : /\ d \in serving => keys[d] # <<>>
                               /\ sent'[d] # None => d \in serving
                               /\ wire'[d] # "nothing" => sent'[d] # None
                               /\ wire'[d] = "run" => d \in open
    <3>1. r # None
      BY TasksAssumption
    <3> QED BY <1>1, <1>2, <2>1, <3>1 DEF HandlersSound
  <2> QED BY <1>1, <2>1, <2>2 DEF HandlersSound
<1>6. WorkersSound' /\ HistorySound'
  BY <1>1, WorkersFrame, HistoryFrame DEF history
<1>7. ASSUME NEW s \in Runs
      PROVE  Count(sent', s) = Count(sent, s) + Same(r, s)
  <2>1. DOMAIN sent = Connections /\ sent[c] # s /\ IsFiniteSet(At(sent, s))
    BY <1>1, Counts DEF TasksInv, HandlersSound
  <2>2. sent' = With(sent, c, r)
    BY <1>2 DEF With
  <2>3. Count(With(sent, c, r), s) = Count(sent, s) + Same(r, s)
    BY <2>1, CountWritten
  <2> QED BY <2>2, <2>3
<1>8. Conserved'
  <2>1. ASSUME NEW s \in Runs
        PROVE  Queued(s)' + Count(sent', s) + acked[s] = IF s \in submitted THEN 1 ELSE 0
    <3>1. /\ Queued(s) \in Nat /\ Count(sent, s) \in Nat /\ acked[s] \in Nat
          /\ Queued(s) + Count(sent, s) + acked[s] = IF s \in submitted THEN 1 ELSE 0
      BY Counts, QueuedType DEF TasksInv, Conserved
    <3> QED BY <1>4, <1>7, <3>1, SameType
  <2> QED BY <1>1, <2>1 DEF Conserved, history
<1>9. Backed'
  <2>1. Acks' = Acks
    BY <1>1, <1>2, Idle DEF Acks, TasksInv, HandlersSound
  <2> QED BY <1>1, <2>1 DEF TasksInv, Backed, history, workers
<1> QED BY <1>4, <1>5, <1>6, <1>8, <1>9 DEF TasksInv

LEMMA KeptByAcknowledged ==
  ASSUME TasksInv, NEW c \in Connections, Acknowledged(c)
  PROVE  TasksInv'
<1> DEFINE r == sent[c]
<1>1. /\ wire[c] = "ack" /\ wire' = [wire EXCEPT ![c] = "nothing"]
      /\ sent' = [sent EXCEPT ![c] = None] /\ acked' = [acked EXCEPT ![r] = @ + 1]
      /\ UNCHANGED <<queues, serving, keys, open, workers, faults,
                     submitted, starts, unheard>>
  BY DEF Acknowledged
<1>2. r \in Runs /\ r # None
  BY <1>1, Idle, TasksAssumption
<1>3. QueuesSound' /\ \A s \in Runs : Queued(s)' = Queued(s)
  BY <1>1, QueuesFrame
<1>4. HandlersSound'
  BY <1>1 DEF TasksInv, HandlersSound
<1>5. WorkersSound'
  BY <1>1, WorkersFrame
<1>6. /\ acked' \in [Runs -> Nat]
      /\ \A s \in Runs : acked'[s] = acked[s] + Same(r, s)
  <2>1. acked \in [Runs -> Nat]
    BY DEF TasksInv, HistorySound
  <2> HIDE DEF r
  <2> QED BY <1>1, <1>2, <2>1 DEF Same
<1>7. HistorySound'
  BY <1>1, <1>6 DEF TasksInv, HistorySound
<1>8. ASSUME NEW s \in Runs
      PROVE  /\ Count(sent', s) \in Nat /\ Count(sent, s) = Count(sent', s) + Same(r, s)
             /\ Count(Acks', s) \in Nat /\ Count(Acks, s) = Count(Acks', s) + Same(r, s)
  <2>1. /\ DOMAIN sent = Connections /\ None # s
        /\ IsFiniteSet(At(sent, s)) /\ IsFiniteSet(At(Acks, s))
    BY Counts DEF TasksInv, HandlersSound
  <2>2. /\ Acks' = With(Acks, c, None) /\ Acks[c] = r /\ sent' = With(sent, c, None)
        /\ DOMAIN Acks = Connections
    BY <1>1, Idle DEF Acks, TasksInv, HandlersSound, With
  <2>3. /\ Count(With(sent, c, None), s) \in Nat
        /\ Count(sent, s) = Count(With(sent, c, None), s) + Same(sent[c], s)
    BY <2>1, CountErased
  <2>4. /\ Count(With(Acks, c, None), s) \in Nat
        /\ Count(Acks, s) = Count(With(Acks, c, None), s) + Same(Acks[c], s)
    BY <2>1, <2>2, CountErased
  <2> QED BY <2>2, <2>3, <2>4
<1> HIDE DEF r
<1>9. Conserved'
  <2>1. ASSUME NEW s \in Runs
        PROVE  Queued(s)' + Count(sent', s) + acked'[s] = IF s \in submitted THEN 1 ELSE 0
    <3>1. /\ Queued(s) \in Nat /\ Count(sent, s) \in Nat /\ acked[s] \in Nat
          /\ Queued(s) + Count(sent, s) + acked[s] = IF s \in submitted THEN 1 ELSE 0
      BY Counts, QueuedType DEF TasksInv, Conserved
    <3> QED BY <1>3, <1>6, <1>8, <3>1, SameType
  <2> QED BY <1>1, <2>1 DEF Conserved
<1>10. Backed'
  <2>1. ASSUME NEW s \in Runs
        PROVE  starts[s] + Count(hand, s) <= acked'[s] + unheard[s] + Count(Acks', s)
    <3>1. /\ acked[s] \in Nat /\ unheard[s] \in Nat
          /\ starts[s] + Count(hand, s) <= acked[s] + unheard[s] + Count(Acks, s)
      BY Counts DEF TasksInv, Backed
    <3> QED BY <1>6, <1>8, <3>1, Counts, SameType
  <2> QED BY <1>1, <2>1 DEF Backed, workers
<1> QED BY <1>3, <1>4, <1>5, <1>7, <1>9, <1>10 DEF TasksInv

LEMMA KeptByDisconnected ==
  ASSUME TasksInv, NEW c \in Connections, Disconnected(c)
  PROVE  TasksInv'
<1> DEFINE r == sent[c]
<1>1. /\ wire[c] = "nothing" /\ r # None /\ Retry(r)
      /\ sent' = [sent EXCEPT ![c] = None] /\ serving' = serving \ {c} /\ c \notin open
      /\ UNCHANGED <<keys, network, workers, faults, history>>
  BY DEF Disconnected, PutBack
<1>2. r \in Runs
  BY <1>1, Idle
<1>3. QueuesSound' /\ \A s \in Runs : Queued(s)' = Queued(s) + Same(r, s)
  <2> HIDE DEF r
  <2> QED BY <1>1, <1>2, Puts DEF TasksInv
<1>4. HandlersSound'
  <2>1. IsFiniteSet(serving \ {c})
    BY FS_RemoveElement DEF TasksInv, HandlersSound
  <2> QED BY <1>1, <2>1 DEF TasksInv, HandlersSound, network
<1>5. WorkersSound' /\ HistorySound'
  BY <1>1, WorkersFrame, HistoryFrame DEF history
<1>6. ASSUME NEW s \in Runs
      PROVE  Count(sent', s) \in Nat /\ Count(sent, s) = Count(sent', s) + Same(r, s)
  <2>1. DOMAIN sent = Connections /\ None # s /\ IsFiniteSet(At(sent, s))
    BY Counts DEF TasksInv, HandlersSound
  <2>2. sent' = With(sent, c, None)
    BY <1>1 DEF With
  <2>3. /\ Count(With(sent, c, None), s) \in Nat
        /\ Count(sent, s) = Count(With(sent, c, None), s) + Same(sent[c], s)
    BY <2>1, CountErased
  <2> QED BY <2>2, <2>3
<1> HIDE DEF r
<1>7. Conserved'
  <2>1. ASSUME NEW s \in Runs
        PROVE  Queued(s)' + Count(sent', s) + acked[s] = IF s \in submitted THEN 1 ELSE 0
    <3>1. /\ Queued(s) \in Nat /\ Count(sent, s) \in Nat /\ acked[s] \in Nat
          /\ Queued(s) + Count(sent, s) + acked[s] = IF s \in submitted THEN 1 ELSE 0
      BY Counts, QueuedType DEF TasksInv, Conserved
    <3> QED BY <1>3, <1>6, <3>1, SameType
  <2> QED BY <1>1, <2>1 DEF Conserved, history
<1>8. Backed'
  <2>1. Acks' = Acks
    BY <1>1 DEF Acks, TasksInv, HandlersSound, network
  <2> QED BY <1>1, <2>1 DEF TasksInv, Backed, history, workers
<1> QED BY <1>3, <1>4, <1>5, <1>7, <1>8 DEF TasksInv

LEMMA KeptByForget ==
  ASSUME TasksInv, NEW c \in Connections, Forget(c)
  PROVE  TasksInv'
<1>1. /\ sent[c] = None /\ c \notin open /\ serving' = serving \ {c}
      /\ UNCHANGED <<queues, keys, sent, network, workers, faults, history>>
  BY DEF Forget
<1>2. HandlersSound'
  <2>1. IsFiniteSet(serving \ {c})
    BY FS_RemoveElement DEF TasksInv, HandlersSound
  <2> QED BY <1>1, <2>1 DEF TasksInv, HandlersSound, network
<1>3. QueuesSound' /\ WorkersSound' /\ HistorySound' /\ Conserved' /\ Backed'
  BY <1>1, QueuesFrame, WorkersFrame, HistoryFrame, ConservedFrame, BackedFrame
     DEF history, network, workers
<1> QED BY <1>2, <1>3 DEF TasksInv

\* A connection that is used for the first time carries nothing.
LEMMA KeptBySubscribe ==
  ASSUME TasksInv, NEW w \in Workers, NEW c \in Connections, Subscribe(w, c)
  PROVE  TasksInv'
<1>1. /\ keys[c] = <<>> /\ link' = [link EXCEPT ![w] = c]
      /\ open' = open \cup {c} /\ serving' = serving \cup {c}
      /\ keys' = [keys EXCEPT ![c] = Subscribed[w]]
      /\ UNCHANGED <<queues, sent, wire, hand, running, faults, history>>
  BY DEF Subscribe
<1>2. HandlersSound'
  <2>1. IsFiniteSet(serving \cup {c})
    BY FS_AddElement DEF TasksInv, HandlersSound
  <2>2. Subscribed[w] # <<>>
    BY TasksAssumption
  <2>3. keys' \in [Connections -> {<<>>} \cup {Subscribed[v] : v \in Workers}]
    BY <1>1 DEF TasksInv, HandlersSound
  <2> QED BY <1>1, <2>1, <2>2, <2>3 DEF TasksInv, HandlersSound
<1>3. WorkersSound'
  BY <1>1 DEF TasksInv, WorkersSound
<1>4. QueuesSound' /\ HistorySound' /\ Conserved' /\ Backed'
  BY <1>1, QueuesFrame, HistoryFrame, ConservedFrame, BackedFrame DEF history
<1> QED BY <1>2, <1>3, <1>4 DEF TasksInv

\* The ack goes out as the run comes in: one more of each.
LEMMA KeptByReceive ==
  ASSUME TasksInv, NEW w \in Workers, Receive(w)
  PROVE  TasksInv'
<1> DEFINE c == link[w]
           r == sent[c]
<1>1. /\ hand[w] = None /\ c \in open /\ wire[c] = "run"
      /\ hand' = [hand EXCEPT ![w] = r] /\ wire' = [wire EXCEPT ![c] = "ack"]
      /\ UNCHANGED <<queues, handlers, open, link, running, faults, history>>
  BY DEF Receive
<1>2. c \in Connections
  BY <1>1 DEF TasksInv, HandlersSound
<1>3. r \in Runs /\ r # None
  BY <1>1, <1>2, TasksAssumption DEF TasksInv, HandlersSound
<1> HIDE DEF c
<1>4. HandlersSound'
  BY <1>1, <1>2, <1>3 DEF TasksInv, HandlersSound, handlers
<1>5. WorkersSound'
  BY <1>1, <1>3 DEF TasksInv, WorkersSound
<1>6. QueuesSound' /\ HistorySound' /\ Conserved'
  BY <1>1, QueuesFrame, HistoryFrame, ConservedFrame DEF history, handlers
<1>7. ASSUME NEW s \in Runs
      PROVE  /\ Count(hand', s) = Count(hand, s) + Same(r, s)
             /\ Count(Acks', s) = Count(Acks, s) + Same(r, s)
  <2>1. /\ DOMAIN hand = Workers /\ hand[w] # s /\ IsFiniteSet(At(hand, s))
        /\ DOMAIN Acks = Connections /\ Acks[c] # s /\ IsFiniteSet(At(Acks, s))
    BY <1>1, <1>2, Counts DEF TasksInv, WorkersSound, Acks
  <2>2. hand' = With(hand, w, r)
    BY <1>1 DEF With
  <2>3. Acks' = With(Acks, c, r)
    BY <1>1, <1>2 DEF With, Acks, handlers, TasksInv, HandlersSound
  <2>4. Count(With(hand, w, r), s) = Count(hand, s) + Same(r, s)
    BY <2>1, CountWritten
  <2>5. Count(With(Acks, c, r), s) = Count(Acks, s) + Same(r, s)
    BY <1>2, <2>1, CountWritten
  <2> QED BY <2>2, <2>3, <2>4, <2>5
<1> HIDE DEF r
<1>8. Backed'
  <2>1. ASSUME NEW s \in Runs
        PROVE  starts[s] + Count(hand', s) <= acked[s] + unheard[s] + Count(Acks', s)
    <3>1. starts[s] + Count(hand, s) <= acked[s] + unheard[s] + Count(Acks, s)
      BY DEF TasksInv, Backed
    <3> QED BY <1>7, <3>1, Counts, SameType
  <2> QED BY <1>1, <2>1 DEF Backed, history
<1> QED BY <1>4, <1>5, <1>6, <1>8 DEF TasksInv

\* A hand that is emptied counts one run less.
LEMMA HandEmptied ==
  ASSUME TasksInv, NEW w \in Workers, hand' = [hand EXCEPT ![w] = None], NEW s \in Runs
  PROVE  Count(hand', s) \in Nat /\ Count(hand, s) = Count(hand', s) + Same(hand[w], s)
<1>1. DOMAIN hand = Workers /\ None # s /\ IsFiniteSet(At(hand, s))
  BY Counts DEF TasksInv, WorkersSound
<1>2. hand' = With(hand, w, None)
  BY DEF With
<1>3. /\ Count(With(hand, w, None), s) \in Nat
      /\ Count(hand, s) = Count(With(hand, w, None), s) + Same(hand[w], s)
  BY <1>1, CountErased
<1> QED BY <1>2, <1>3

\* A start uses up the hand it comes from.
LEMMA KeptBySubmit ==
  ASSUME TasksInv, NEW w \in Workers, Submit(w)
  PROVE  TasksInv'
<1> DEFINE r == hand[w]
<1>1. /\ r # None /\ AcquireToken(w, r) /\ hand' = [hand EXCEPT ![w] = None]
      /\ UNCHANGED <<queues, handlers, network, link, faults, submitted, acked, unheard>>
  BY DEF Submit
<1>2. /\ r \in Runs /\ hand' \in [Workers -> Runs \cup {None}]
      /\ running \in [Workers -> SUBSET Runs] /\ starts \in [Runs -> Nat]
  BY <1>1 DEF TasksInv, WorkersSound, HistorySound
<1>3. \A s \in Runs : /\ Count(hand', s) \in Nat
                      /\ Count(hand, s) = Count(hand', s) + Same(r, s)
  BY <1>1, HandEmptied
<1> HIDE DEF r
<1>4. /\ running' \in [Workers -> SUBSET Runs]
      /\ \A v \in Workers : IsFiniteSet(running'[v]) /\ Cardinality(running'[v]) <= Limit
  <2>1. CASE UNCHANGED running
    BY <1>2, <2>1 DEF TasksInv, WorkersSound
  <2>2. CASE /\ r \notin running[w] /\ Cardinality(running[w]) < Limit
             /\ running' = [running EXCEPT ![w] = @ \cup {r}]
    <3>1. /\ IsFiniteSet(running[w] \cup {r})
          /\ Cardinality(running[w] \cup {r}) = Cardinality(running[w]) + 1
          /\ Cardinality(running[w]) \in Nat
      BY <2>2, FS_AddElement, FS_CardinalityType DEF TasksInv, WorkersSound
    <3>2. Limit \in Nat
      BY TasksAssumption
    <3>3. /\ running' \in [Workers -> SUBSET Runs] /\ running'[w] = running[w] \cup {r}
          /\ \A v \in Workers \ {w} : running'[v] = running[v]
      BY <1>2, <2>2
    <3>4. Cardinality(running[w] \cup {r}) <= Limit
      BY <2>2, <3>1, <3>2
    <3> QED BY <3>1, <3>3, <3>4 DEF TasksInv, WorkersSound
  <2> QED BY <1>1, <2>1, <2>2 DEF AcquireToken
<1>5. /\ starts' \in [Runs -> Nat]
      /\ \A s \in Runs : starts'[s] <= starts[s] + Same(r, s)
  BY <1>1, <1>2 DEF AcquireToken, Same
<1>6. QueuesSound' /\ HandlersSound' /\ Conserved'
  BY <1>1, QueuesFrame, HandlersFrame, ConservedFrame DEF handlers
<1>7. WorkersSound'
  BY <1>1, <1>2, <1>4 DEF TasksInv, WorkersSound
<1>8. HistorySound'
  BY <1>1, <1>5 DEF TasksInv, HistorySound
<1>9. Backed'
  <2>1. Acks' = Acks
    BY <1>1 DEF Acks, handlers, network
  <2>2. ASSUME NEW s \in Runs
        PROVE  starts'[s] + Count(hand', s) <= acked[s] + unheard[s] + Count(Acks, s)
    <3>1. starts[s] + Count(hand, s) <= acked[s] + unheard[s] + Count(Acks, s)
      BY DEF TasksInv, Backed
    <3>2. starts'[s] \in Nat
      BY <1>5
    <3> QED BY <1>3, <1>5, <3>1, <3>2, Counts, SameType
  <2> QED BY <1>1, <2>1, <2>2 DEF Backed
<1> QED BY <1>6, <1>7, <1>8, <1>9 DEF TasksInv

LEMMA KeptByReleaseToken ==
  ASSUME TasksInv, NEW w \in Workers, ReleaseToken(w)
  PROVE  TasksInv'
<1>1. PICK r \in running[w] : running' = [running EXCEPT ![w] = @ \ {r}]
  BY DEF ReleaseToken
<1>2. UNCHANGED <<queues, handlers, network, link, hand, faults, history>>
  BY DEF ReleaseToken
<1>3. WorkersSound'
  <2>1. IsFiniteSet(running[w]) /\ Cardinality(running[w]) <= Limit
    BY DEF TasksInv, WorkersSound
  <2>2. /\ IsFiniteSet(running[w] \ {r}) /\ Cardinality(running[w] \ {r}) <= Limit
    <3>1. /\ IsFiniteSet(running[w] \ {r}) /\ Cardinality(running[w]) \in Nat
          /\ Cardinality(running[w] \ {r}) = Cardinality(running[w]) - 1
      BY <2>1, FS_RemoveElement, FS_CardinalityType
    <3> QED BY <2>1, <3>1, TasksAssumption
  <2> QED BY <1>1, <1>2, <2>2 DEF TasksInv, WorkersSound
<1>4. /\ QueuesSound' /\ HandlersSound' /\ HistorySound' /\ Conserved' /\ Backed'
  BY <1>2, QueuesFrame, HandlersFrame, HistoryFrame, ConservedFrame, BackedFrame
     DEF history, handlers, network
<1> QED BY <1>3, <1>4 DEF TasksInv

\* A break may take the ack off the wire, and then it stays unheard.
LEMMA BrokenKeeps ==
  ASSUME TasksInv, NEW c \in Connections, Broken(c), UNCHANGED handlers
  PROVE  /\ HandlersSound' /\ faults' \in 0..MaxFaults
         /\ unheard' \in [Runs -> Nat]
         /\ \A s \in Runs : /\ Count(Acks', s) \in Nat
                            /\ unheard'[s] + Count(Acks', s) = unheard[s] + Count(Acks, s)
<1>1. faults' \in 0..MaxFaults
  BY TasksAssumption DEF Broken, TasksInv, WorkersSound
<1>2. open' = open \ {c} /\ unheard \in [Runs -> Nat]
  BY DEF Broken, TasksInv, HistorySound
<1>3. CASE wire[c] = "ack" /\ UNCHANGED <<wire, unheard>>
  <2>1. HandlersSound'
    BY <1>2, <1>3 DEF TasksInv, HandlersSound, handlers
  <2>2. Acks' = Acks
    BY <1>3 DEF Acks, handlers
  <2> QED BY <1>1, <1>2, <1>3, <2>1, <2>2, Counts
<1>4. CASE wire[c] # "ack" /\ wire' = [wire EXCEPT ![c] = "nothing"] /\ unheard' = unheard
  <2>1. HandlersSound'
    BY <1>2, <1>4 DEF TasksInv, HandlersSound, handlers
  <2>2. Acks' = Acks
    BY <1>4 DEF Acks, handlers, TasksInv, HandlersSound
  <2> QED BY <1>1, <1>2, <1>4, <2>1, <2>2, Counts
<1>5. CASE /\ wire[c] = "ack" /\ wire' = [wire EXCEPT ![c] = "nothing"]
           /\ unheard' = [unheard EXCEPT ![sent[c]] = @ + 1]
  <2>1. HandlersSound'
    BY <1>2, <1>5 DEF TasksInv, HandlersSound, handlers
  <2>2. sent[c] \in Runs /\ Acks[c] = sent[c] /\ DOMAIN Acks = Connections
    BY <1>5, Idle DEF TasksInv, HandlersSound, Acks
  <2>3. Acks' = With(Acks, c, None)
    BY <1>5 DEF With, Acks, handlers, TasksInv, HandlersSound
  <2>4. ASSUME NEW s \in Runs
        PROVE  /\ Count(Acks', s) \in Nat
               /\ unheard'[s] + Count(Acks', s) = unheard[s] + Count(Acks, s)
    <3>1. IsFiniteSet(At(Acks, s)) /\ None # s
      BY Counts
    <3>2. /\ Count(With(Acks, c, None), s) \in Nat
          /\ Count(Acks, s) = Count(With(Acks, c, None), s) + Same(Acks[c], s)
      BY <2>2, <3>1, CountErased
    <3>3. unheard[s] \in Nat /\ unheard'[s] = unheard[s] + Same(sent[c], s)
      BY <1>2, <1>5, <2>2 DEF Same
    <3> QED BY <2>2, <2>3, <3>2, <3>3, SameType
  <2>5. unheard' \in [Runs -> Nat]
    BY <1>2, <1>5, <2>2
  <2> QED BY <1>1, <2>1, <2>4, <2>5
<1> QED BY <1>3, <1>4, <1>5 DEF Broken

\* A break changes neither what started nor what is in a hand.
LEMMA KeptByBreak ==
  ASSUME TasksInv, NEW c \in Connections, Break(c)
  PROVE  TasksInv'
<1>1. Broken(c) /\ UNCHANGED <<queues, handlers, workers, submitted, acked, starts>>
  BY DEF Break
<1>2. /\ HandlersSound' /\ faults' \in 0..MaxFaults /\ unheard' \in [Runs -> Nat]
      /\ \A s \in Runs : /\ Count(Acks', s) \in Nat
                         /\ unheard'[s] + Count(Acks', s) = unheard[s] + Count(Acks, s)
  BY <1>1, BrokenKeeps
<1>3. QueuesSound' /\ Conserved'
  BY <1>1, QueuesFrame, ConservedFrame DEF handlers
<1>4. WorkersSound' /\ HistorySound'
  BY <1>1, <1>2 DEF TasksInv, WorkersSound, HistorySound, workers
<1>5. Backed'
  <2>1. ASSUME NEW s \in Runs
        PROVE  starts[s] + Count(hand, s) <= acked[s] + unheard'[s] + Count(Acks', s)
    <3>1. starts[s] + Count(hand, s) <= acked[s] + unheard[s] + Count(Acks, s)
      BY DEF TasksInv, Backed
    <3>2. unheard'[s] \in Nat
      BY <1>2
    <3> QED BY <1>2, <3>1, <3>2, Counts
  <2> QED BY <1>1, <2>1 DEF Backed, workers
<1> QED BY <1>2, <1>3, <1>4, <1>5 DEF TasksInv

LEMMA KeptByStop ==
  ASSUME TasksInv, NEW w \in Workers, Stop(w)
  PROVE  TasksInv'
<1>1. /\ link[w] \in open /\ Broken(link[w])
      /\ link' = [link EXCEPT ![w] = None] /\ hand' = [hand EXCEPT ![w] = None]
      /\ running' = [running EXCEPT ![w] = {}]
      /\ UNCHANGED <<queues, handlers, submitted, acked, starts>>
  BY DEF Stop
<1>2. link[w] \in Connections
  BY <1>1 DEF TasksInv, HandlersSound
<1>3. /\ HandlersSound' /\ faults' \in 0..MaxFaults /\ unheard' \in [Runs -> Nat]
      /\ \A s \in Runs : /\ Count(Acks', s) \in Nat
                         /\ unheard'[s] + Count(Acks', s) = unheard[s] + Count(Acks, s)
  BY <1>1, <1>2, BrokenKeeps
<1>4. QueuesSound' /\ Conserved'
  BY <1>1, QueuesFrame, ConservedFrame DEF handlers
<1>5. HistorySound'
  BY <1>1, <1>3 DEF TasksInv, HistorySound
<1>6. WorkersSound'
  <2>1. IsFiniteSet({}) /\ Cardinality({}) <= Limit
    BY FS_EmptySet, TasksAssumption
  <2> QED BY <1>1, <1>3, <2>1 DEF TasksInv, WorkersSound
<1>7. Backed'
  <2>1. ASSUME NEW s \in Runs
        PROVE  starts[s] + Count(hand', s) <= acked[s] + unheard'[s] + Count(Acks', s)
    <3>1. starts[s] + Count(hand, s) <= acked[s] + unheard[s] + Count(Acks, s)
      BY DEF TasksInv, Backed
    <3>2. unheard'[s] \in Nat
      BY <1>3
    <3>3. Count(hand', s) \in Nat /\ Count(hand, s) = Count(hand', s) + Same(hand[w], s)
      BY <1>1, HandEmptied
    <3> QED BY <1>3, <3>1, <3>2, <3>3, Counts, SameType
  <2> QED BY <1>1, <2>1 DEF Backed
<1> QED BY <1>3, <1>4, <1>5, <1>6, <1>7 DEF TasksInv

LEMMA StepKeepsInv ==
  TasksInv /\ [Next]_vars => TasksInv'
<1> SUFFICES ASSUME TasksInv, [Next]_vars PROVE TasksInv'
  OBVIOUS
<1>1. CASE UNCHANGED vars
  BY <1>1, QueuesFrame, HandlersFrame, WorkersFrame, HistoryFrame, ConservedFrame, BackedFrame
     DEF TasksInv, vars, handlers, network, workers, history
<1>2. CASE \E r \in Runs : EnqueueScheduledTasks(r)
  BY <1>2, KeptByEnqueueScheduledTasks
<1>3. CASE \E c \in Connections :
             Send(c) \/ Acknowledged(c) \/ Disconnected(c) \/ Forget(c) \/ Break(c)
  BY <1>3, KeptBySend, KeptByAcknowledged, KeptByDisconnected, KeptByForget, KeptByBreak
<1>4. CASE \E w \in Workers : \/ Receive(w) \/ Submit(w) \/ ReleaseToken(w) \/ Stop(w)
                              \/ \E c \in Connections : Subscribe(w, c)
  BY <1>4, KeptByReceive, KeptBySubmit, KeptByReleaseToken, KeptByStop, KeptBySubscribe
<1> QED BY <1>1, <1>2, <1>3, <1>4 DEF Next

LEMMA Invariance ==
  Spec => []TasksInv
  BY InitInv, StepKeepsInv, PTL DEF Spec

-----------------------------------------------------------------------------
(* The theorems                                                             *)

\* Runs, handlers, connections and workers keep their types, the two queues of
\* a task their sizes (server/task_queue.py) and a worker its limit of runs.
THEOREM TypeCorrect ==
  Spec => []TypeOK
  BY Invariance, InvTypes, PTL

\* A scheduled run is in exactly one queue or one handler until exactly one
\* acknowledgement of it has arrived (scheduled_task_subscription): neither
\* exit of a handler loses or doubles it, however many connections break.
THEOREM NoRunLostOrDoubled ==
  Spec => []KeptUntilAcked
<1>1. TasksInv => KeptUntilAcked
  <2> SUFFICES ASSUME TasksInv, NEW r \in submitted
               PROVE  Copies(r) + acked[r] = 1
    BY DEF KeptUntilAcked
  <2>1. r \in Runs
    BY DEF TasksInv, HistorySound
  <2>2. At(sent, r) = {c \in Connections : sent[c] = r}
    BY DEF At, TasksInv, HandlersSound
  <2>3. Copies(r) = Queued(r) + Count(sent, r)
    BY <2>2 DEF Copies, Queued, Count, At
  <2> QED BY <2>1, <2>3 DEF TasksInv, Conserved
<1> QED BY <1>1, Invariance, PTL

\* A run is started once, and once more at most for each acknowledgement that
\* a broken connection lost (subscriptions.py, task_runs.py): an outstanding
\* or acknowledged run leaves no copy that another worker could start.
THEOREM NoStartWithoutLostAck ==
  Spec => []StartedOnce
<1>1. TasksInv => StartedOnce
  <2> SUFFICES ASSUME TasksInv, NEW r \in Runs
               PROVE  starts[r] <= 1 + unheard[r]
    BY DEF StartedOnce
  <2>1. starts[r] + Count(hand, r) <= acked[r] + unheard[r] + Count(Acks, r)
    BY DEF TasksInv, Backed
  <2>2. Queued(r) + Count(sent, r) + acked[r] <= 1
    BY DEF TasksInv, Conserved
  <2>3. Queued(r) \in Nat
    BY QueuedType DEF TasksInv
  <2> QED BY <2>1, <2>2, <2>3, Counts
<1> QED BY <1>1, Invariance, PTL
=============================================================================
