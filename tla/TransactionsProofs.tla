------------------------- MODULE TransactionsProofs -------------------------
(***************************************************************************)
(* Proofs about Transactions, for any number of threads, keys and          *)
(* transactions, however deeply nested.                                    *)
(***************************************************************************)
EXTENDS Transactions, SequenceTheorems, TLAPS

-----------------------------------------------------------------------------
(* The inductive invariant: transactions x, a stack of calls s              *)

Kids(x, t) == x[t].children

\* t is a transaction of thread p.
Of(x, p, t) == t \in DOMAIN x /\ x[t].thread = p

\* Nobody has to commit or roll back t any more.
Over(x, t) == Final(x[t]) \/ x[t].undone

\* t was committed by its own commit.
Made(x, t) == x[t].state = "COMMITTED" /\ ~x[t].found

\* A parent has taken responsibility for t.
Adopted(x, t) == \E q \in DOMAIN x : \E i \in DOMAIN Kids(x, q) : Kids(x, q)[i] = t

\* A parent is older than its children, and of the same thread.
Family(x) ==
  \A t \in DOMAIN x :
    /\ x[t].parent # None => Of(x, x[t].thread, x[t].parent) /\ x[t].parent < t
    /\ \A i \in DOMAIN Kids(x, t) :
         /\ Kids(x, t)[i] \in DOMAIN x
         /\ x[Kids(x, t)[i]].parent = t

\* Call c has called d.
Link(x, c, d) ==
  /\ c.op \in {"reset", "committing", "undoing"}
  /\ c.op = "reset" => d.txn = c.txn
  /\ c.op = "committing" => c.i >= 1 /\ d.txn = Kids(x, c.txn)[c.i]
  /\ c.op = "undoing" => c.i < Len(Kids(x, c.txn)) /\ d.txn = Kids(x, c.txn)[c.i + 1]

\* A commit goes on only while its transaction is not final, and only after the
\* children it has called are over; the last of them may be the one on top.
Sound(x, c, top) ==
  /\ c.op \in {"committing", "undoing"} => c.i <= Len(Kids(x, c.txn))
  /\ c.op \in {"committing", "writing"} => ~Final(x[c.txn])
  /\ c.op = "committing" =>
       \A j \in 1..c.i : Over(x, Kids(x, c.txn)[j]) \/ (~top /\ j = c.i)
  /\ c.op = "writing" => \A j \in DOMAIN Kids(x, c.txn) : Over(x, Kids(x, c.txn)[j])

\* Calls go from a transaction to younger ones, from __exit__ or from a parent
\* that reset rolls back.
Stack(x, p, s) ==
  /\ s \in Seq(Calls)
  /\ \A i \in 1..Len(s) : Of(x, p, s[i].txn) /\ Sound(x, s[i], i = Len(s))
  /\ \A i \in 1..Len(s) : s[i].op = "reset" => i = 1
  /\ \A i, j \in 1..Len(s) : i < j /\ s[i].op # "reset" => s[i].txn < s[j].txn
  /\ \A i \in 1..Len(s) : i # Len(s) => Link(x, s[i], s[i + 1])
  /\ Len(s) > 0 => s[1].op \in {"reset", "rollback", "undoing"}

\* A parent that may yet be given a child.
Waiting(x, q) == q # None => ~Made(x, q) /\ ~Adopted(x, q)

\* Only __exit__ is left to do for a.
Resetting(s) == Len(s) > 0 /\ s[Len(s)].op = "reset"

\* What a thread's blocks b, its active transaction a and its calls s go back to.
Context(x, p, b, a, s) ==
  /\ a # None => Of(x, p, a) /\ ~Adopted(x, a) /\ (Made(x, a) => Resetting(s))
  /\ \A i \in DOMAIN b : /\ Of(x, p, b[i]) /\ ~Adopted(x, b[i])
                         /\ Waiting(x, x[b[i]].parent)
  /\ \A i, j \in DOMAIN b : i < j => b[i] < b[j]
  /\ Len(s) > 0 /\ s[1].op = "reset" =>
       /\ ~Adopted(x, s[1].txn) /\ Waiting(x, x[s[1].txn].parent)
       /\ \A i \in DOMAIN b : b[i] < s[1].txn

\* Stack s goes through the children of t.
Undoing(s, t) == \E i \in 1..Len(s) : s[i].op = "undoing" /\ s[i].txn = t

\* A transaction that is rolled back has run its hooks, and will have given up
\* its lock when its rollback returns.
RolledBack(x, s, t) ==
  /\ x[t].value = "undone" => x[t].state = "ROLLED_BACK"
  /\ x[t].state = "ROLLED_BACK" /\ ~x[t].undone =>
       Undoing(s, t)

\* Whoever has begun holds the lock until it is over.
Holding(x, l, t) == x[t].key # None /\ ~Over(x, t) => l[x[t].key] = t

StacksSound == \A p \in Threads : Stack(txn, p, calls[p])
ContextsSound == \A p \in Threads : Context(txn, p, blocks[p], active[p], calls[p])
RollbacksSound == \A t \in DOMAIN txn : RolledBack(txn, calls[txn[t].thread], t)
LocksHeld == \A t \in DOMAIN txn : Holding(txn, locks, t)

\* A record is owed by whoever found it and by whoever was to write it.
Owed(x, t) == x[t].found \/ (x[t].writes /\ x[t].state = "COMMITTED")

OwedRecorded ==
  \A t \in DOMAIN txn : Owed(txn, t) /\ txn[t].key # None => store[txn[t].key] # "absent"

TransactionInv ==
  /\ TypeOK /\ Family(txn)
  /\ StacksSound /\ ContextsSound /\ RollbacksSound /\ LocksHeld
  /\ OwedRecorded /\ UndoneNotWritten /\ ChildrenSettled

-----------------------------------------------------------------------------
(* Stacks                                                                   *)

LEMMA StackIndex ==
  ASSUME NEW s \in Seq(Calls), s # <<>>
  PROVE  /\ Len(s) \in Nat \ {0} /\ DOMAIN s = 1..Len(s)
         /\ Top(s) \in Calls /\ Top(s) = s[Len(s)]
<1>1. Len(s) \in Nat \ {0} /\ DOMAIN s = 1..Len(s)
  BY EmptySeq, LenProperties
<1> QED BY <1>1, LenProperties DEF Top

LEMMA ReturnedIs ==
  ASSUME NEW s \in Seq(Calls), s # <<>>
  PROVE  /\ Returned(s) \in Seq(Calls) /\ Len(Returned(s)) = Len(s) - 1
         /\ \A i \in 1..Len(s) - 1 : Returned(s)[i] = s[i]
<1>1. Len(s) \in Nat \ {0} /\ DOMAIN s = 1..Len(s) /\ \A i \in 1..Len(s) : s[i] \in Calls
  BY StackIndex, LenProperties
<1>2. \A i \in 1..Len(s) - 1 : s[i] \in Calls
  BY <1>1
<1>3. Len(s) - 1 \in Int /\ 1 \in Int
  BY <1>1
<1> DEFINE n == Len(s) - 1
<1> HIDE DEF n
<1>4. n \in Int /\ \A i \in 1..n : s[i] \in Calls
  BY <1>2, <1>3 DEF n
<1>5. /\ SubSeq(s, 1, n) \in Seq(Calls) /\ Len(SubSeq(s, 1, n)) = IF 1 <= n THEN n - 1 + 1 ELSE 0
      /\ \A i \in 1..n - 1 + 1 : SubSeq(s, 1, n)[i] = s[1 + i - 1]
  BY <1>4, SubSeqProperties
<1>6. /\ Len(SubSeq(s, 1, n)) = n /\ \A i \in 1..n : SubSeq(s, 1, n)[i] = s[i]
  BY <1>1, <1>5 DEF n
<1> QED BY <1>5, <1>6 DEF Returned, n

LEMMA EnteredIs ==
  ASSUME NEW s \in Seq(Calls), s # <<>>, NEW c \in Calls
  PROVE  /\ Entered(s, c) \in Seq(Calls) /\ Len(Entered(s, c)) = Len(s)
         /\ \A i \in 1..Len(s) - 1 : Entered(s, c)[i] = s[i]
         /\ Entered(s, c)[Len(s)] = c
<1>1. Len(s) \in Nat \ {0}
  BY StackIndex
<1>2. /\ Returned(s) \in Seq(Calls) /\ Len(Returned(s)) = Len(s) - 1
      /\ \A i \in 1..Len(s) - 1 : Returned(s)[i] = s[i]
  BY ReturnedIs
<1> QED BY <1>1, <1>2, AppendProperties DEF Entered

\* The lower part of a stack, with another call of the same transaction on top.
LEMMA CutStack ==
  ASSUME NEW x, NEW p, NEW s, Stack(x, p, s), NEW k \in 1..Len(s),
         NEW r \in Seq(Calls), Len(r) = k, \A i \in 1..k - 1 : r[i] = s[i],
         r[k].txn = s[k].txn, r[k].op = "reset" => s[k].op = "reset",
         s[k].op = "reset" => r[k].op = "reset",
         Sound(x, r[k], TRUE), k = 1 => r[1].op \in {"reset", "rollback", "undoing"}
  PROVE  Stack(x, p, r)
<1>1. Len(s) \in Nat /\ k \in Nat
  BY LenProperties DEF Stack
<1>2. ASSUME NEW i \in 1..k PROVE Of(x, p, r[i].txn) /\ Sound(x, r[i], i = Len(r))
  <2>1. CASE i = k
    <3>1. Of(x, p, r[i].txn)
      BY <2>1 DEF Stack
    <3>2. (i = Len(r)) = TRUE
      BY <2>1
    <3> QED BY <2>1, <3>1, <3>2
  <2>2. CASE i # k
    <3>1. i \in 1..k - 1 /\ i # Len(r) /\ i # Len(s) /\ i \in 1..Len(s)
      BY <1>1, <2>2
    <3>2. (i = Len(r)) = FALSE /\ (i = Len(s)) = FALSE
      BY <3>1
    <3>3. Of(x, p, s[i].txn) /\ Sound(x, s[i], i = Len(s)) /\ r[i] = s[i]
      BY <3>1 DEF Stack
    <3> QED BY <3>2, <3>3
  <2> QED BY <2>1, <2>2
<1>3. ASSUME NEW i \in 1..k PROVE r[i].txn = s[i].txn /\ (r[i].op = "reset" <=> s[i].op = "reset")
  BY <1>1
<1>4. \A i \in 1..k : i \in 1..Len(s)
  BY <1>1
<1>5. \A i \in 1..k : r[i].op = "reset" => i = 1
  BY <1>3, <1>4 DEF Stack
<1>6. \A i, j \in 1..k : i < j /\ r[i].op # "reset" => r[i].txn < r[j].txn
  BY <1>3, <1>4 DEF Stack
<1>7. ASSUME NEW i \in 1..k, i # k PROVE Link(x, r[i], r[i + 1])
  <2>1. i \in 1..k - 1 /\ i + 1 \in 1..k /\ i # Len(s)
    BY <1>1, <1>7
  <2>2. Link(x, s[i], s[i + 1]) /\ r[i] = s[i] /\ r[i + 1].txn = s[i + 1].txn
    BY <1>3, <1>4, <2>1 DEF Stack
  <2> QED BY <2>2 DEF Link
<1>8. r[1].op \in {"reset", "rollback", "undoing"}
  <2>1. CASE k = 1
    BY <2>1
  <2>2. CASE k # 1
    <3>1. 1 \in 1..k - 1 /\ Len(s) > 0
      BY <1>1, <2>2
    <3> QED BY <3>1 DEF Stack
  <2> QED BY <2>1, <2>2
<1> QED BY <1>2, <1>5, <1>6, <1>7, <1>8 DEF Stack

\* The call on top goes on.
LEMMA EnterStack ==
  ASSUME NEW x, NEW p, NEW s, Stack(x, p, s), s # <<>>, NEW c \in Calls,
         c.txn = Top(s).txn, c.op # "reset", Top(s).op # "reset", Sound(x, c, TRUE),
         Len(s) = 1 => c.op \in {"rollback", "undoing"}
  PROVE  Stack(x, p, Entered(s, c))
<1>1. s \in Seq(Calls)
  BY DEF Stack
<1>2. Len(s) \in Nat \ {0} /\ Top(s) = s[Len(s)]
  BY <1>1, StackIndex
<1> DEFINE r == Entered(s, c)
           k == Len(s)
<1>3. /\ r \in Seq(Calls) /\ Len(r) = k /\ \A i \in 1..k - 1 : r[i] = s[i] /\ r[k] = c
  BY <1>1, EnteredIs
<1>4. r[k] = c /\ k \in 1..Len(s)
  BY <1>1, <1>2, EnteredIs
<1> HIDE DEF r
<1> QED BY <1>2, <1>3, <1>4, CutStack DEF r

\* The call on top has returned, and its transaction is over.
LEMMA ReturnStack ==
  ASSUME NEW x, NEW p, NEW s, Stack(x, p, s), s # <<>>, Over(x, Top(s).txn)
  PROVE  Stack(x, p, Returned(s))
<1>1. s \in Seq(Calls)
  BY DEF Stack
<1>2. Len(s) \in Nat \ {0} /\ Top(s) = s[Len(s)]
  BY <1>1, StackIndex
<1> DEFINE r == Returned(s)
           k == Len(s) - 1
<1>3. r \in Seq(Calls) /\ Len(r) = k /\ \A i \in 1..k : r[i] = s[i]
  BY <1>1, ReturnedIs
<1> HIDE DEF r
<1>4. CASE k = 0
  BY <1>3, <1>4 DEF Stack, r
<1>5. CASE k # 0
  <2>1. k \in 1..Len(s) /\ k # Len(s) /\ k + 1 = Len(s) /\ r[k] = s[k]
    BY <1>2, <1>3, <1>5
  <2>2. Sound(x, s[k], k = Len(s)) /\ Link(x, s[k], s[k + 1])
    BY <2>1 DEF Stack
  <2>3. (k = Len(s)) = FALSE
    BY <2>1
  <2>4. s[k].op = "committing" => Over(x, Kids(x, s[k].txn)[s[k].i])
    BY <1>2, <2>1, <2>2 DEF Link
  <2>5. Sound(x, r[k], TRUE)
    BY <2>1, <2>2, <2>3, <2>4 DEF Sound
  <2>6. k = 1 => r[1].op \in {"reset", "rollback", "undoing"}
    <3>1. s[1].op \in {"reset", "rollback", "undoing"}
      BY <1>2 DEF Stack
    <3>2. k = 1 => r[1] = s[1]
      BY <2>1
    <3> QED BY <3>1, <3>2
  <2>7. \A i \in 1..k - 1 : r[i] = s[i]
    BY <1>2, <1>3
  <2>8. k \in 1..Len(s) /\ r \in Seq(Calls) /\ Len(r) = k
    BY <1>3, <2>1
  <2> HIDE DEF k
  <2> QED BY <2>1, <2>5, <2>6, <2>7, <2>8, CutStack DEF r
<1> QED BY <1>4, <1>5

\* The call on top calls a child.
LEMMA CallStack ==
  ASSUME NEW x, NEW p, NEW s, Stack(x, p, s), s # <<>>, NEW c \in Calls, NEW d \in Calls,
         c.txn = Top(s).txn, c.op \in {"committing", "undoing"},
         Top(s).op # "reset", Len(s) = 1 => c.op = "undoing",
         d.op # "reset", Of(x, p, d.txn), Sound(x, d, TRUE), c.txn < d.txn,
         Sound(x, c, FALSE), Link(x, c, d)
  PROVE  Stack(x, p, Append(Entered(s, c), d))
<1>1. s \in Seq(Calls)
  BY DEF Stack
<1>2. Len(s) \in Nat \ {0} /\ Top(s) = s[Len(s)]
  BY <1>1, StackIndex
<1> DEFINE e == Entered(s, c)
           r == Append(e, d)
           k == Len(s)
<1>3. /\ e \in Seq(Calls) /\ Len(e) = k /\ \A i \in 1..k - 1 : e[i] = s[i]
      /\ e[k] = c
  BY <1>1, EnteredIs
<1> HIDE DEF e
<1>4. /\ r \in Seq(Calls) /\ Len(r) = k + 1 /\ \A i \in 1..k : r[i] = e[i]
      /\ r[k + 1] = d
  BY <1>3, AppendProperties
<1>5. /\ \A i \in 1..k - 1 : r[i] = s[i]
      /\ r[k] = c /\ s[k].txn = c.txn /\ s[k].op # "reset"
  BY <1>2, <1>3, <1>4
<1> HIDE DEF r
<1> HIDE DEF k
<1>k. k \in Nat \ {0} /\ k = Len(s)
  BY <1>2 DEF k
<1>6. \A i \in 1..k : r[i].txn = s[i].txn /\ (r[i].op = "reset" <=> s[i].op = "reset")
  BY <1>k, <1>5
<1>7. ASSUME NEW i \in 1..k + 1 PROVE Of(x, p, r[i].txn) /\ Sound(x, r[i], i = Len(r))
  <2>1. CASE i = k + 1
    <3>1. (i = Len(r)) = TRUE
      BY <1>4, <2>1
    <3> QED BY <1>4, <2>1, <3>1
  <2>2. CASE i = k
    <3>1. (i = Len(r)) = FALSE
      BY <1>k, <1>4, <2>2
    <3>2. Of(x, p, s[k].txn)
      BY <1>k DEF Stack
    <3> QED BY <1>5, <2>2, <3>1, <3>2
  <2>3. CASE i \in 1..k - 1
    <3>1. (i = Len(r)) = FALSE /\ (i = Len(s)) = FALSE /\ i \in 1..Len(s)
      BY <1>k, <1>4, <2>3
    <3>2. Of(x, p, s[i].txn) /\ Sound(x, s[i], i = Len(s)) /\ r[i] = s[i]
      BY <1>5, <2>3, <3>1 DEF Stack
    <3> QED BY <3>1, <3>2
  <2> QED BY <1>k, <2>1, <2>2, <2>3
<1>8. \A i \in 1..k + 1 : r[i].op = "reset" => i = 1
  <2>1. \A i \in 1..k : r[i].op = "reset" => i = 1
    BY <1>k, <1>6 DEF Stack
  <2> QED BY <1>k, <1>4, <2>1
<1>9. ASSUME NEW i \in 1..k + 1, NEW j \in 1..k + 1, i < j, r[i].op # "reset"
      PROVE  r[i].txn < r[j].txn
  <2>1. CASE j \in 1..k
    BY <1>k, <1>6, <1>9, <2>1 DEF Stack
  <2>2. CASE j = k + 1
    <3>1. i \in 1..k
      BY <1>k, <1>9, <2>2
    <3>2. i = k \/ (i \in 1..k - 1 /\ r[i].txn < c.txn)
      BY <1>k, <1>5, <1>6, <1>9, <3>1 DEF Stack
    <3>3. \A l \in 1..k + 1 : r[l].txn \in Nat
      <4>1. \A l \in 1..k + 1 : r[l] \in Calls
        BY <1>4, LenProperties
      <4> QED BY <4>1, TransactionAssumption DEF Calls, Ids
    <3>4. r[i].txn \in Nat /\ c.txn \in Nat /\ d.txn \in Nat
      BY <1>k, <1>4, <1>5, <3>3
    <3> QED BY <1>4, <1>5, <2>2, <3>2, <3>4
  <2> QED BY <1>k, <2>1, <2>2
<1>10. ASSUME NEW i \in 1..k + 1, i # k + 1 PROVE Link(x, r[i], r[i + 1])
  <2>1. CASE i = k
    BY <1>4, <1>5, <2>1
  <2>2. CASE i \in 1..k - 1
    <3>1. i \in 1..Len(s) /\ i # Len(s) /\ i + 1 \in 1..k
      BY <1>k, <2>2
    <3>2. Link(x, s[i], s[i + 1]) /\ r[i] = s[i] /\ r[i + 1].txn = s[i + 1].txn
      BY <1>5, <1>6, <2>2, <3>1 DEF Stack
    <3> QED BY <3>2 DEF Link
  <2> QED BY <1>k, <1>10, <2>1, <2>2
<1>11. r[1].op \in {"reset", "rollback", "undoing"}
  <2>1. CASE k = 1
    BY <1>k, <1>5, <2>1
  <2>2. CASE k # 1
    <3>1. 1 \in 1..k - 1 /\ Len(s) > 0
      BY <1>k, <2>2
    <3> QED BY <1>5, <3>1 DEF Stack
  <2> QED BY <2>1, <2>2
<1>12. Stack(x, p, r)
  BY <1>4, <1>7, <1>8, <1>9, <1>10, <1>11 DEF Stack
<1> QED BY <1>12 DEF r, e

\* An error leaves the call on top.
LEMMA RaiseStack ==
  ASSUME NEW x, NEW p, NEW s, Stack(x, p, s), s # <<>>
  PROVE  Stack(x, p, Raised(s))
<1>1. s \in Seq(Calls)
  BY DEF Stack
<1>2. Len(s) \in Nat \ {0} /\ \A i \in 1..Len(s) : s[i] \in Calls
  BY <1>1, StackIndex, LenProperties
<1> DEFINE rest == Returned(s)
           k == Len(s) - 1
<1>3. rest \in Seq(Calls) /\ Len(rest) = k /\ \A i \in 1..k : rest[i] = s[i]
  BY <1>1, ReturnedIs
<1> HIDE DEF rest
<1>4. Stack(x, p, <<>>)
  BY EmptySeq DEF Stack
<1>5. CASE rest = <<>>
  BY <1>4, <1>5 DEF Raised, rest
<1>6. CASE rest # <<>>
  <2>1. k \in Nat \ {0} /\ Top(rest) = rest[k]
    BY <1>3, <1>6, StackIndex
  <2>2. k \in 1..Len(s) /\ k # Len(s) /\ rest[k] = s[k]
    BY <1>2, <1>3, <2>1
  <2>3. Sound(x, s[k], k = Len(s)) /\ Link(x, s[k], s[k + 1]) /\ s[k] \in Calls
    BY <1>2, <2>2 DEF Stack
  <2>4. s[k].op = "committing" => k # 1
    BY <1>2, <2>2 DEF Stack
  <2> DEFINE up(c) == Entered(rest, c)
  <2>5. ASSUME NEW c \in Calls, c.txn = s[k].txn, c.op \in {"rollback", "undoing"},
               s[k].op # "reset", Sound(x, c, TRUE)
        PROVE  Stack(x, p, up(c))
    <3>1. /\ up(c) \in Seq(Calls) /\ Len(up(c)) = k
          /\ \A i \in 1..k - 1 : up(c)[i] = rest[i]
          /\ up(c)[k] = c
      <4>1. /\ Entered(rest, c) \in Seq(Calls) /\ Len(Entered(rest, c)) = Len(rest)
            /\ \A i \in 1..Len(rest) - 1 : Entered(rest, c)[i] = rest[i]
            /\ Entered(rest, c)[Len(rest)] = c
        BY <1>3, <1>6, EnteredIs
      <4> QED BY <1>3, <4>1
    <3>2. \A i \in 1..k - 1 : up(c)[i] = s[i]
      BY <1>3, <2>1, <3>1
    <3>3. k \in 1..Len(s)
      BY <2>2
    <3> HIDE DEF up, k
    <3> QED BY <2>5, <3>1, <3>2, <3>3, CutStack
  <2>6. CASE s[k].op = "committing"
    <3> DEFINE c == Call("rollback", s[k].txn)
    <3>1. c \in Calls /\ c.txn = s[k].txn /\ c.op = "rollback"
      BY <2>3 DEF Call, Calls
    <3>2. Sound(x, c, TRUE)
      BY <3>1 DEF Sound
    <3>3. Raised(s) = up(c)
      BY <1>6, <2>1, <2>2, <2>6 DEF Raised, rest
    <3> QED BY <2>5, <2>6, <3>1, <3>2, <3>3
  <2>7. CASE s[k].op = "undoing"
    <3> DEFINE c == [s[k] EXCEPT !.i = 0]
    <3>1. c \in Calls /\ c.txn = s[k].txn /\ c.op = "undoing" /\ c.i = 0
      BY <2>3, <2>7 DEF Calls
    <3>2. 0 <= Len(Kids(x, s[k].txn))
      BY <2>3, <2>7 DEF Sound, Calls
    <3>3. Sound(x, c, TRUE)
      BY <3>1, <3>2 DEF Sound
    <3>4. Raised(s) = up(c)
      BY <1>6, <2>1, <2>2, <2>7 DEF Raised, rest
    <3> QED BY <2>5, <2>7, <3>1, <3>3, <3>4
  <2>8. CASE s[k].op = "reset"
    BY <1>4, <1>6, <2>1, <2>2, <2>8 DEF Raised, rest
  <2> QED BY <2>3, <2>6, <2>7, <2>8 DEF Link
<1> QED BY <1>5, <1>6

\* Other states of the transactions.
LEMMA KeepStack ==
  ASSUME NEW x, NEW y, NEW p, NEW s, Stack(x, p, s),
         \A t : Of(x, p, t) => Of(y, p, t) /\ Kids(y, t) = Kids(x, t)
                               /\ (Over(x, t) => Over(y, t)),
         \A t : Of(x, p, t) => \A i \in DOMAIN Kids(x, t) : Of(x, p, Kids(x, t)[i]),
         \A t : Of(x, p, t) => Kids(x, t) \in Seq(Ids),
         \A i \in 1..Len(s) : s[i].op \in {"committing", "writing"} => ~Final(y[s[i].txn])
  PROVE  Stack(y, p, s)
<1>1. s \in Seq(Calls) /\ Len(s) \in Nat /\ \A i \in 1..Len(s) : s[i] \in Calls
  BY LenProperties DEF Stack
<1>2. ASSUME NEW i \in 1..Len(s), NEW top \in BOOLEAN, Sound(x, s[i], top)
      PROVE  Sound(y, s[i], top)
  <2> DEFINE t == s[i].txn
  <2>1. Of(x, p, t)
    BY DEF Stack
  <2>2. Kids(y, t) = Kids(x, t) /\ Kids(x, t) \in Seq(Ids) /\ DOMAIN Kids(x, t) = 1..Len(Kids(x, t))
        /\ Len(Kids(x, t)) \in Nat
    BY <2>1, LenProperties
  <2>3. \A j \in DOMAIN Kids(x, t) : Over(x, Kids(x, t)[j]) => Over(y, Kids(x, t)[j])
    BY <2>1
  <2>4. s[i].op = "committing" => \A j \in 1..s[i].i : j \in DOMAIN Kids(x, t)
    BY <1>1, <1>2, <2>2 DEF Sound, Calls
  <2> QED BY <1>2, <2>2, <2>3, <2>4 DEF Sound
<1>3. \A i \in 1..Len(s) : (i = Len(s)) \in BOOLEAN
  OBVIOUS
<1>4. \A i \in 1..Len(s) : Of(y, p, s[i].txn) /\ Sound(y, s[i], i = Len(s))
  BY <1>2, <1>3 DEF Stack
<1>5. \A i \in 1..Len(s) : i # Len(s) => Link(y, s[i], s[i + 1])
  <2>1. \A i \in 1..Len(s) : Kids(y, s[i].txn) = Kids(x, s[i].txn)
    BY DEF Stack
  <2> QED BY <2>1 DEF Stack, Link
<1> QED BY <1>4, <1>5 DEF Stack

\* After a step of its innermost call, stack s is r: still the same __exit__, if
\* any, and the same rollbacks, but for the one on top if that is lost.
Follows(s, r, lost) ==
  /\ Len(r) > 0 /\ r[1].op = "reset" => Len(s) > 0 /\ s[1] = r[1]
  /\ \A t : Undoing(s, t) /\ ~(lost /\ Top(s).op = "undoing" /\ Top(s).txn = t)
              => Undoing(r, t)

LEMMA EnterFollows ==
  ASSUME NEW s \in Seq(Calls), s # <<>>, NEW c \in Calls, c.op # "reset",
         c.txn = Top(s).txn, Top(s).op = "undoing" => c.op = "undoing"
  PROVE  Follows(s, Entered(s, c), FALSE)
<1>1. Len(s) \in Nat \ {0} /\ Top(s) = s[Len(s)]
  BY StackIndex
<1> DEFINE r == Entered(s, c)
<1>2. Len(r) = Len(s) /\ r[Len(s)] = c /\ \A i \in 1..Len(s) - 1 : r[i] = s[i]
  BY EnteredIs
<1> HIDE DEF r
<1>3. \A i \in 1..Len(s) : r[i] = s[i] \/ (i = Len(s) /\ r[i] = c)
  BY <1>1, <1>2
<1>4. r[1].op = "reset" => s[1] = r[1]
  BY <1>1, <1>3
<1>5. ASSUME NEW t, Undoing(s, t) PROVE Undoing(r, t)
  BY <1>1, <1>2, <1>3, <1>5 DEF Undoing
<1>6. Follows(s, r, FALSE)
  BY <1>1, <1>4, <1>5 DEF Follows
<1> QED BY <1>6 DEF r

LEMMA CallFollows ==
  ASSUME NEW s \in Seq(Calls), s # <<>>, NEW c \in Calls, NEW d \in Calls, c.op # "reset",
         c.txn = Top(s).txn, Top(s).op = "undoing" => c.op = "undoing"
  PROVE  Follows(s, Append(Entered(s, c), d), FALSE)
<1> DEFINE e == Entered(s, c)
           r == Append(e, d)
<1>1. Follows(s, e, FALSE)
  BY EnterFollows
<1>2. e \in Seq(Calls) /\ Len(e) = Len(s) /\ Len(s) \in Nat \ {0}
  BY EnteredIs, StackIndex
<1> HIDE DEF e
<1>3. Len(r) = Len(e) + 1 /\ \A i \in 1..Len(e) : r[i] = e[i]
  BY <1>2, AppendProperties
<1> HIDE DEF r
<1>4. 1 \in 1..Len(e) /\ Len(e) > 0 /\ \A i \in 1..Len(e) : i \in 1..Len(r)
  BY <1>2, <1>3
<1>5. \A t : Undoing(e, t) => Undoing(r, t)
  BY <1>3, <1>4 DEF Undoing
<1>6. Follows(s, r, FALSE)
  BY <1>1, <1>3, <1>4, <1>5 DEF Follows
<1> QED BY <1>6 DEF r, e

LEMMA ReturnFollows ==
  ASSUME NEW s \in Seq(Calls), s # <<>>
  PROVE  Follows(s, Returned(s), TRUE)
<1>1. Len(s) \in Nat \ {0} /\ Top(s) = s[Len(s)]
  BY StackIndex
<1> DEFINE r == Returned(s)
<1>2. Len(r) = Len(s) - 1 /\ \A i \in 1..Len(s) - 1 : r[i] = s[i]
  BY ReturnedIs
<1> HIDE DEF r
<1>3. Len(r) > 0 => s[1] = r[1]
  BY <1>1, <1>2
<1>4. ASSUME NEW t, Undoing(s, t), ~(Top(s).op = "undoing" /\ Top(s).txn = t)
      PROVE  Undoing(r, t)
  <2>1. PICK i \in 1..Len(s) : s[i].op = "undoing" /\ s[i].txn = t
    BY <1>4 DEF Undoing
  <2>2. i # Len(s)
    BY <1>1, <1>4, <2>1
  <2>3. i \in 1..Len(r) /\ r[i] = s[i]
    BY <1>1, <1>2, <2>2
  <2> QED BY <2>1, <2>3 DEF Undoing
<1>5. Follows(s, r, TRUE)
  BY <1>1, <1>3, <1>4 DEF Follows
<1> QED BY <1>5 DEF r

LEMMA RaiseFollows ==
  ASSUME NEW x, NEW p, NEW s, Stack(x, p, s), s # <<>>
  PROVE  Follows(s, Raised(s), TRUE)
<1>1. s \in Seq(Calls)
  BY DEF Stack
<1>2. Len(s) \in Nat \ {0} /\ Top(s) = s[Len(s)] /\ \A i \in 1..Len(s) : s[i] \in Calls
  BY <1>1, StackIndex, LenProperties
<1> DEFINE rest == Returned(s)
           k == Len(s) - 1
<1>3. rest \in Seq(Calls) /\ Len(rest) = k /\ \A i \in 1..k : rest[i] = s[i]
  BY <1>1, ReturnedIs
<1>4. Follows(s, rest, TRUE)
  BY <1>1, ReturnFollows
<1> HIDE DEF rest
<1>5. CASE rest = <<>>
  BY <1>4, <1>5 DEF Raised, rest
<1>6. CASE rest # <<>>
  <2>1. k \in Nat \ {0} /\ Top(rest) = rest[k]
    BY <1>3, <1>6, StackIndex
  <2>2. k \in 1..Len(s) /\ k # Len(s) /\ rest[k] = s[k] /\ s[k] \in Calls
    BY <1>2, <1>3, <2>1
  <2>3. Link(x, s[k], s[k + 1])
    BY <2>2 DEF Stack
  <2>4. ASSUME NEW c \in Calls, c.txn = s[k].txn, c.op # "reset",
               s[k].op = "undoing" => c.op = "undoing"
        PROVE  Follows(s, Entered(rest, c), TRUE)
    <3>1. Follows(rest, Entered(rest, c), FALSE)
      BY <1>3, <1>6, <2>1, <2>2, <2>4, EnterFollows
    <3>2. Len(rest) > 0
      BY <1>3, <2>1
    <3> QED BY <1>4, <3>1, <3>2 DEF Follows
  <2>5. CASE s[k].op = "committing"
    <3> DEFINE c == Call("rollback", s[k].txn)
    <3>1. c \in Calls /\ c.txn = s[k].txn /\ c.op = "rollback"
      BY <2>2 DEF Call, Calls
    <3>2. Raised(s) = Entered(rest, c)
      BY <1>6, <2>1, <2>2, <2>5 DEF Raised, rest
    <3> QED BY <2>4, <2>5, <3>1, <3>2
  <2>6. CASE s[k].op = "undoing"
    <3> DEFINE c == [s[k] EXCEPT !.i = 0]
    <3>1. c \in Calls /\ c.txn = s[k].txn /\ c.op = "undoing"
      BY <2>2, <2>6 DEF Calls
    <3>2. Raised(s) = Entered(rest, c)
      BY <1>6, <2>1, <2>2, <2>6 DEF Raised, rest
    <3> QED BY <2>4, <2>6, <3>1, <3>2
  <2>7. CASE s[k].op = "reset"
    <3>1. k = 1
      BY <2>2, <2>7 DEF Stack
    <3>2. Raised(s) = <<>> /\ Len(<<>>) = 0
      BY <1>6, <2>1, <2>2, <2>7 DEF Raised, rest
    <3>3. ASSUME NEW t, Undoing(s, t) PROVE Top(s).op = "undoing" /\ Top(s).txn = t
      <4>1. PICK i \in 1..Len(s) : s[i].op = "undoing" /\ s[i].txn = t
        BY <3>3 DEF Undoing
      <4>2. s[1].op = "reset" /\ Len(s) = 2
        <5>1. s[k] = s[1]
          BY <3>1
        <5>2. Len(s) = 2
          BY <1>2, <3>1
        <5> QED BY <2>7, <5>1, <5>2
      <4>3. i = Len(s)
        BY <4>1, <4>2
      <4> QED BY <1>2, <4>1, <4>3
    <3> QED BY <3>2, <3>3 DEF Follows
  <2> QED BY <2>3, <2>5, <2>6, <2>7 DEF Link
<1> QED BY <1>5, <1>6

-----------------------------------------------------------------------------
(* A step of one thread                                                     *)

LEMMA Typed ==
  ASSUME TypeOK
  PROVE  /\ txn \in Seq(Txns) /\ Len(txn) \in Nat /\ DOMAIN txn = 1..Len(txn)
         /\ DOMAIN txn \subseteq Ids /\ Ids \subseteq Nat /\ None \notin Ids /\ None = 0
         /\ \A t \in DOMAIN txn : /\ txn[t] \in Txns /\ Kids(txn, t) \in Seq(Ids)
                                  /\ DOMAIN Kids(txn, t) = 1..Len(Kids(txn, t))
                                  /\ Len(Kids(txn, t)) \in Nat
<1>1. txn \in Seq(Txns) /\ Len(txn) <= MaxTransactions
  BY DEF TypeOK
<1>2. Len(txn) \in Nat /\ DOMAIN txn = 1..Len(txn) /\ \A t \in DOMAIN txn : txn[t] \in Txns
  BY <1>1, LenProperties
<1>3. DOMAIN txn \subseteq Ids /\ Ids \subseteq Nat /\ None \notin Ids /\ None = 0
  BY <1>1, <1>2, TransactionAssumption DEF Ids, None
<1>4. \A t \in DOMAIN txn : Kids(txn, t) \in Seq(Ids)
  BY <1>2 DEF Txns, Kids
<1>5. \A t \in DOMAIN txn : /\ DOMAIN Kids(txn, t) = 1..Len(Kids(txn, t))
                            /\ Len(Kids(txn, t)) \in Nat
  BY <1>4, LenProperties
<1> QED BY <1>1, <1>2, <1>3, <1>4, <1>5

\* What a thread goes back to is its own.
LEMMA Relatives ==
  ASSUME TypeOK, Family(txn), NEW t \in DOMAIN txn
  PROVE  /\ \A i \in DOMAIN Kids(txn, t) :
              /\ Of(txn, txn[t].thread, Kids(txn, t)[i])
              /\ t < Kids(txn, t)[i] /\ Adopted(txn, Kids(txn, t)[i])
         /\ txn[t].parent # None => Of(txn, txn[t].thread, txn[t].parent) /\ txn[t].parent < t
<1>1. ASSUME NEW i \in DOMAIN Kids(txn, t)
      PROVE  /\ Of(txn, txn[t].thread, Kids(txn, t)[i])
             /\ t < Kids(txn, t)[i] /\ Adopted(txn, Kids(txn, t)[i])
  <2> DEFINE c == Kids(txn, t)[i]
  <2>1. c \in DOMAIN txn /\ txn[c].parent = t /\ t # None
    BY Typed DEF Family
  <2>2. Of(txn, txn[c].thread, t) /\ t < c
    BY <2>1 DEF Family
  <2>3. Adopted(txn, c)
    BY DEF Adopted
  <2> QED BY <2>1, <2>2, <2>3 DEF Of
<1> QED BY <1>1 DEF Family

\* The others do not notice.
LEMMA OthersStep ==
  ASSUME TransactionInv, NEW p, NEW y, NEW q \in Threads, q # p,
         \A u \in DOMAIN txn : txn[u].thread # p => u \in DOMAIN y /\ y[u] = txn[u],
         \A u \in DOMAIN txn : txn[u].thread # p /\ Adopted(y, u) => Adopted(txn, u)
  PROVE  /\ Stack(y, q, calls[q])
         /\ Context(y, q, blocks[q], active[q], calls[q])
<1>1. TypeOK /\ Family(txn) /\ Stack(txn, q, calls[q])
      /\ Context(txn, q, blocks[q], active[q], calls[q])
  BY DEF TransactionInv, StacksSound, ContextsSound
<1>2. ASSUME NEW u, Of(txn, q, u)
      PROVE  /\ u \in DOMAIN txn /\ Of(y, q, u) /\ y[u] = txn[u] /\ Kids(y, u) = Kids(txn, u)
             /\ Made(y, u) <=> Made(txn, u)
             /\ Over(txn, u) => Over(y, u)
             /\ Adopted(y, u) => Adopted(txn, u)
             /\ Kids(txn, u) \in Seq(Ids)
             /\ \A i \in DOMAIN Kids(txn, u) : Of(txn, q, Kids(txn, u)[i])
             /\ txn[u].parent # None => Of(txn, q, txn[u].parent)
  <2>1. u \in DOMAIN txn /\ txn[u].thread = q
    BY <1>2 DEF Of
  <2>2. y[u] = txn[u] /\ u \in DOMAIN y
    BY <2>1
  <2> QED BY <1>1, <2>1, <2>2, Relatives, Typed DEF Of, Kids, Made, Over
<1>3. \A i \in 1..Len(calls[q]) : /\ Of(txn, q, calls[q][i].txn)
                                  /\ Sound(txn, calls[q][i], i = Len(calls[q]))
  BY <1>1 DEF Stack
<1>4. \A i \in 1..Len(calls[q]) :
        calls[q][i].op \in {"committing", "writing"} => ~Final(y[calls[q][i].txn])
  BY <1>2, <1>3 DEF Sound
<1>5. Stack(y, q, calls[q])
  BY <1>1, <1>2, <1>4, KeepStack
<1>6. \A u : Of(txn, q, u) /\ Waiting(txn, txn[u].parent) => Waiting(y, y[u].parent)
  BY <1>2 DEF Waiting
<1>7. Len(calls[q]) \in Nat /\ (Len(calls[q]) > 0 => Of(txn, q, calls[q][1].txn))
  <2>1. Len(calls[q]) \in Nat
    BY <1>1, LenProperties DEF Stack
  <2> QED BY <1>3, <2>1
<1>8. Context(y, q, blocks[q], active[q], calls[q])
  BY <1>1, <1>2, <1>6, <1>7 DEF Context
<1> QED BY <1>5, <1>8

\* What the innermost call of thread p may do to its transaction t, to the stack
\* s of p, to the locks l and the store d, if they become y, r, m and e.
TopStep(p, t, y, r, m, e) ==
  LET s == calls[p] IN
  /\ s # <<>> /\ Top(s).op # "reset" /\ Top(s).txn = t
  /\ y \in Seq(Txns) /\ DOMAIN y = DOMAIN txn
  /\ \A u \in DOMAIN txn \ {t} : y[u] = txn[u]
  /\ y[t].key = txn[t].key /\ y[t].thread = txn[t].thread /\ y[t].found = txn[t].found
  /\ y[t].parent = txn[t].parent /\ y[t].children = txn[t].children
  /\ Over(txn, t) => Over(y, t)
  /\ Stack(y, p, r) /\ Follows(s, r, y[t].undone)
  /\ y[t].value = "undone" => y[t].state = "ROLLED_BACK"
  /\ y[t].state = "ROLLED_BACK" /\ ~y[t].undone => Undoing(r, t)
  /\ Made(y, t) => \/ Made(txn, t)
                   \/ /\ Adopted(txn, t) \/ (s[1].op = "reset" /\ s[1].txn = t /\ Resetting(r))
                      /\ \A i \in DOMAIN Kids(txn, t) : Over(txn, Kids(txn, t)[i])
  /\ m \in [Keys -> Ids \cup {None}]
  /\ \A k \in Keys : m[k] = locks[k] \/ (locks[k] = t /\ k = txn[t].key /\ Over(y, t))
  /\ e \in [Keys -> Values \cup {"absent"}]
  /\ \A k \in Keys : e[k] # "undone" /\ (store[k] # "absent" => e[k] # "absent")
  /\ Owed(y, t) /\ txn[t].key # None => e[txn[t].key] # "absent"

LEMMA TopStepKeepsInv ==
  ASSUME TransactionInv, NEW p \in Threads, NEW t, NEW r,
         TopStep(p, t, txn', r, locks', store'),
         calls' = [calls EXCEPT ![p] = r], blocks' = blocks, active' = active
  PROVE  TransactionInv'
<1> DEFINE x == txn
           y == txn'
           s == calls[p]
<1>1. TypeOK /\ Family(x) /\ Stack(x, p, s) /\ Context(x, p, blocks[p], active[p], s)
  BY DEF TransactionInv, StacksSound, ContextsSound
<1>2. /\ s # <<>> /\ Top(s).op # "reset" /\ Top(s).txn = t
      /\ y \in Seq(Txns) /\ DOMAIN y = DOMAIN x
      /\ \A u \in DOMAIN x \ {t} : y[u] = x[u]
      /\ y[t].key = x[t].key /\ y[t].thread = x[t].thread /\ y[t].found = x[t].found
      /\ y[t].parent = x[t].parent /\ y[t].children = x[t].children
      /\ Over(x, t) => Over(y, t)
      /\ Stack(y, p, r) /\ Follows(s, r, y[t].undone)
  BY DEF TopStep
<1>3. s \in Seq(Calls) /\ Len(s) \in Nat \ {0} /\ Top(s) = s[Len(s)]
  BY <1>1, <1>2, StackIndex DEF Stack
<1>4. Of(x, p, t) /\ t \in DOMAIN x
  <2>1. Len(s) \in 1..Len(s) /\ t = s[Len(s)].txn
    BY <1>2, <1>3
  <2>2. Of(x, p, t)
    BY <1>1, <2>1 DEF Stack
  <2> QED BY <2>2 DEF Of
<1>5. /\ calls' \in [Threads -> Seq(Calls)] /\ calls'[p] = r
      /\ \A q \in Threads \ {p} : calls'[q] = calls[q]
  <2>1. r \in Seq(Calls) /\ calls \in [Threads -> Seq(Calls)]
    BY <1>1, <1>2 DEF Stack, TypeOK
  <2> QED BY <2>1
<1>6. \A u \in DOMAIN x : /\ y[u].key = x[u].key /\ y[u].thread = x[u].thread
                          /\ y[u].found = x[u].found /\ y[u].parent = x[u].parent
                          /\ y[u].children = x[u].children /\ Kids(y, u) = Kids(x, u)
                          /\ Over(x, u) => Over(y, u)
  BY <1>2 DEF Kids, Over
<1>7. \A u : Adopted(y, u) <=> Adopted(x, u)
  BY <1>2, <1>6 DEF Adopted
<1>8. \A q, u : Of(y, q, u) <=> Of(x, q, u)
  BY <1>2, <1>6 DEF Of
<1>9. TypeOK'
  <2>1. locks' \in [Keys -> Ids \cup {None}] /\ store' \in [Keys -> Values \cup {"absent"}]
    BY DEF TopStep
  <2>2. Len(y) = Len(x)
    BY <1>1, <1>2, LenProperties DEF TypeOK
  <2> QED BY <1>1, <1>2, <1>5, <2>1, <2>2 DEF TypeOK
<1>10. Family(y)
  BY <1>1, <1>2, <1>6, <1>8 DEF Family
<1>11. ASSUME NEW q \in Threads
       PROVE  /\ Stack(y, q, calls'[q])
              /\ Context(y, q, blocks'[q], active'[q], calls'[q])
  <2>1. CASE q # p
    <3>1. \A u \in DOMAIN x : x[u].thread # p => u \in DOMAIN y /\ y[u] = x[u]
      BY <1>2, <1>4 DEF Of
    <3>2. Stack(y, q, calls[q]) /\ Context(y, q, blocks[q], active[q], calls[q])
      BY <1>7, <2>1, <3>1, OthersStep
    <3> QED BY <1>5, <2>1, <3>2
  <2>2. CASE q = p
    <3>1. /\ active[p] # None => Of(y, p, active[p]) /\ ~Adopted(y, active[p])
          /\ active[p] # None => ~Made(x, active[p])
      BY <1>1, <1>2, <1>3, <1>7, <1>8 DEF Context, Resetting
    <3>2. /\ \A i \in DOMAIN blocks[p] : /\ Of(y, p, blocks[p][i]) /\ ~Adopted(y, blocks[p][i])
                                        /\ Waiting(x, x[blocks[p][i]].parent)
          /\ \A i, j \in DOMAIN blocks[p] : i < j => blocks[p][i] < blocks[p][j]
      BY <1>1, <1>7, <1>8 DEF Context
    <3>3. Len(r) > 0 /\ r[1].op = "reset" => s[1] = r[1] /\ s[1].op = "reset"
      BY <1>2 DEF Follows
    <3>4. s[1].op = "reset" =>
            /\ ~Adopted(y, s[1].txn) /\ Waiting(x, x[s[1].txn].parent)
            /\ \A i \in DOMAIN blocks[p] : blocks[p][i] < s[1].txn
      BY <1>1, <1>3, <1>7 DEF Context
    <3>5. \A u \in DOMAIN x : Made(y, u) /\ ~Made(x, u) =>
            /\ u = t
            /\ \/ Adopted(x, u)
               \/ s[1].op = "reset" /\ s[1].txn = u /\ Resetting(r)
      BY <1>2 DEF TopStep, Made
    <3>6. active[p] # None => (Made(y, active[p]) => Resetting(r))
      BY <1>1, <1>7, <1>8, <3>1, <3>5 DEF Of
    <3>7. ASSUME NEW u \in DOMAIN x, Waiting(x, x[u].parent),
                 s[1].op = "reset" => u <= s[1].txn
          PROVE  Waiting(y, y[u].parent)
      <4> DEFINE q0 == x[u].parent
      <4>1. q0 # None => q0 \in DOMAIN x /\ q0 < u /\ ~Made(x, q0) /\ ~Adopted(x, q0)
        BY <1>1, <3>7, Relatives DEF Waiting, Of
      <4>2. q0 # None /\ s[1].op = "reset" => s[1].txn # q0
        <5>1. s[1] \in Calls
          BY <1>3, LenProperties
        <5>2. q0 # None => s[1].txn \in Nat /\ u \in Nat /\ q0 \in Nat
          BY <1>1, <4>1, <5>1, Typed DEF Calls
        <5> QED BY <3>7, <4>1, <5>2
      <4>3. q0 # None => ~Made(y, q0)
        BY <3>5, <4>1, <4>2
      <4> QED BY <1>6, <1>7, <4>1, <4>3 DEF Waiting
    <3>8. \A i \in DOMAIN blocks[p] : Waiting(y, y[blocks[p][i]].parent)
      <4> SUFFICES ASSUME NEW i \in DOMAIN blocks[p]
                   PROVE  Waiting(y, y[blocks[p][i]].parent)
        OBVIOUS
      <4>1. blocks[p][i] \in DOMAIN x /\ Waiting(x, x[blocks[p][i]].parent)
        BY <1>8, <3>2 DEF Of
      <4>2. s[1].op = "reset" => blocks[p][i] <= s[1].txn
        <5>1. s[1] \in Calls
          BY <1>3, LenProperties
        <5>2. s[1].txn \in Nat /\ blocks[p][i] \in Nat
          BY <1>1, <4>1, <5>1, Typed DEF Calls
        <5> QED BY <3>4, <5>2
      <4> QED BY <3>7, <4>1, <4>2
    <3>9. s[1].op = "reset" => Waiting(y, y[s[1].txn].parent)
      <4>1. s[1].txn \in DOMAIN x
        BY <1>1, <1>3 DEF Stack, Of
      <4>2. s[1].txn <= s[1].txn
        BY <1>1, <4>1, Typed
      <4> QED BY <3>4, <3>7, <4>1, <4>2
    <3>10. Context(y, p, blocks[p], active[p], r)
      BY <3>1, <3>2, <3>3, <3>4, <3>6, <3>8, <3>9 DEF Context
    <3> QED BY <1>2, <1>5, <2>2, <3>10
  <2> QED BY <2>1, <2>2
<1>12. ASSUME NEW u \in DOMAIN y PROVE RolledBack(y, calls'[y[u].thread], u)
  <2>1. x[u].thread \in Threads /\ u \in DOMAIN x /\ RolledBack(x, calls[x[u].thread], u)
    BY <1>1, <1>2, Typed DEF TransactionInv, RollbacksSound, Txns
  <2>2. CASE u = t
    <3>1. y[u].thread = p
      BY <1>2, <1>4, <2>2 DEF Of
    <3> QED BY <1>5, <2>2, <3>1 DEF RolledBack, TopStep
  <2>3. CASE u # t
    <3>1. y[u] = x[u]
      BY <1>2, <2>1, <2>3
    <3>2. CASE x[u].thread # p
      BY <1>5, <2>1, <3>1, <3>2 DEF RolledBack
    <3>3. CASE x[u].thread = p
      <4>1. Undoing(s, u) => Undoing(r, u)
        BY <1>2, <2>3 DEF Follows
      <4> QED BY <1>5, <2>1, <3>1, <3>3, <4>1 DEF RolledBack
    <3> QED BY <3>2, <3>3
  <2> QED BY <2>2, <2>3
<1>13. ASSUME NEW u \in DOMAIN y PROVE Holding(y, locks', u)
  <2> SUFFICES ASSUME y[u].key # None, ~Over(y, u) PROVE locks'[y[u].key] = u
    BY DEF Holding
  <2>1. u \in DOMAIN x /\ x[u].key = y[u].key /\ ~Over(x, u)
    BY <1>2, <1>6
  <2>2. locks[x[u].key] = u /\ x[u].key \in Keys
    BY <1>1, <2>1, Typed DEF TransactionInv, LocksHeld, Holding, Txns
  <2>3. u = t => ~Over(y, t)
    OBVIOUS
  <2> QED BY <2>1, <2>2, <2>3 DEF TopStep
<1>14. OwedRecorded'
  <2> SUFFICES ASSUME NEW u \in DOMAIN y, Owed(y, u), y[u].key # None
               PROVE  store'[y[u].key] # "absent"
    BY DEF OwedRecorded, Owed
  <2>1. u \in DOMAIN x /\ x[u].key = y[u].key
    BY <1>2, <1>6
  <2>2. x[u].key \in Keys
    BY <1>1, <2>1, Typed DEF Txns
  <2>3. CASE u = t
    BY <2>1, <2>3 DEF TopStep
  <2>4. CASE u # t
    <3>1. Owed(x, u)
      BY <1>2, <2>1, <2>4 DEF Owed
    <3>2. store[x[u].key] # "absent"
      BY <2>1, <3>1 DEF TransactionInv, OwedRecorded
    <3> QED BY <2>1, <2>2, <3>2 DEF TopStep
  <2> QED BY <2>3, <2>4
<1>15. UndoneNotWritten'
  BY DEF TopStep, UndoneNotWritten
<1>16. ChildrenSettled'
  <2> SUFFICES ASSUME NEW u \in DOMAIN y, Made(y, u), NEW i \in DOMAIN y[u].children
               PROVE  Over(y, y[u].children[i])
    BY DEF ChildrenSettled, Made, Over
  <2>1. u \in DOMAIN x /\ y[u].children = Kids(x, u)
    BY <1>2, <1>6 DEF Kids
  <2>2. Kids(x, u)[i] \in DOMAIN x
    BY <1>1, <2>1, Relatives DEF Of
  <2>3. Over(x, Kids(x, u)[i])
    <3>1. CASE Made(x, u)
      BY <2>1, <3>1 DEF TransactionInv, ChildrenSettled, Made, Over, Kids
    <3>2. CASE ~Made(x, u)
      <4>1. u = t
        BY <1>2, <2>1, <3>2 DEF Made
      <4> QED BY <2>1, <3>2, <4>1 DEF TopStep
    <3> QED BY <3>1, <3>2
  <2> QED BY <1>6, <2>1, <2>2, <2>3
<1> QED BY <1>9, <1>10, <1>11, <1>12, <1>13, <1>14, <1>15, <1>16
    DEF TransactionInv, StacksSound, ContextsSound, RollbacksSound, LocksHeld

LEMMA TopCall ==
  ASSUME TransactionInv, NEW p \in Threads, calls[p] # <<>>
  PROVE  LET s == calls[p]
             t == Top(s).txn
         IN /\ s \in Seq(Calls) /\ Stack(txn, p, s) /\ Top(s) \in Calls
            /\ Len(s) \in Nat \ {0} /\ Top(s) = s[Len(s)]
            /\ Of(txn, p, t) /\ t \in DOMAIN txn /\ Sound(txn, Top(s), TRUE)
            /\ Len(s) = 1 => Top(s).op \in {"reset", "rollback", "undoing"}
            /\ Top(s).op = "reset" => Len(s) = 1
            /\ Top(s).op # "reset" /\ Len(s) # 1 =>
                 Adopted(txn, t) \/ (Len(s) = 2 /\ s[1].op = "reset" /\ s[1].txn = t)
<1> DEFINE s == calls[p]
           t == Top(s).txn
<1>1. TypeOK /\ Family(txn) /\ Stack(txn, p, s) /\ s \in Seq(Calls)
  BY DEF TransactionInv, StacksSound, Stack
<1>2. Len(s) \in Nat \ {0} /\ Top(s) = s[Len(s)] /\ Top(s) \in Calls
  BY <1>1, StackIndex
<1> HIDE DEF s
<1>3. Len(s) \in 1..Len(s) /\ (Len(s) = Len(s)) = TRUE
  BY <1>2
<1>4. Of(txn, p, t) /\ Sound(txn, Top(s), TRUE)
  BY <1>1, <1>2, <1>3 DEF Stack
<1>5. t \in DOMAIN txn
  BY <1>4 DEF Of
<1>6. Len(s) = 1 => Top(s).op \in {"reset", "rollback", "undoing"}
  BY <1>1, <1>2 DEF Stack
<1>7. Top(s).op = "reset" => Len(s) = 1
  BY <1>1, <1>2, <1>3 DEF Stack
<1>8. ASSUME Top(s).op # "reset", Len(s) # 1
      PROVE  Adopted(txn, t) \/ (Len(s) = 2 /\ s[1].op = "reset" /\ s[1].txn = t)
  <2> DEFINE k == Len(s) - 1
  <2>1. k \in 1..Len(s) /\ k # Len(s) /\ s[k + 1] = Top(s)
    <3>1. \A n \in Nat \ {0} : n # 1 => n > 1
      OBVIOUS
    <3>2. Len(s) > 1
      BY <1>2, <1>8, <3>1, Zenon
    <3> QED BY <1>2, <3>2
  <2>2. /\ Link(txn, s[k], s[k + 1]) /\ Of(txn, p, s[k].txn)
        /\ Sound(txn, s[k], k = Len(s)) /\ s[k] \in Calls
    BY <1>1, <2>1, LenProperties DEF Stack
  <2>3. CASE s[k].op = "reset"
    <3>1. k = 1
      BY <1>1, <2>1, <2>3 DEF Stack
    <3>2. s[k] = s[1] /\ Len(s) = 2
      <4>1. s[k] = s[1]
        BY <3>1
      <4>2. Len(s) = 2
        BY <1>2, <3>1
      <4> QED BY <4>1, <4>2
    <3>3. s[k].txn = t
      BY <2>1, <2>2, <2>3 DEF Link
    <3> QED BY <2>3, <3>2, <3>3
  <2>4. CASE s[k].op \in {"committing", "undoing"}
    <3> DEFINE q == s[k].txn
    <3>1. /\ q \in DOMAIN txn /\ s[k].i \in Nat /\ s[k].i <= Len(Kids(txn, q))
          /\ DOMAIN Kids(txn, q) = 1..Len(Kids(txn, q)) /\ Len(Kids(txn, q)) \in Nat
      BY <1>1, <2>2, <2>4, Typed DEF Of, Sound, Calls
    <3>2. \E j \in DOMAIN Kids(txn, q) : Kids(txn, q)[j] = t
      <4>1. CASE s[k].op = "committing"
        <5>1. s[k].i \in DOMAIN Kids(txn, q) /\ Kids(txn, q)[s[k].i] = t
          BY <2>1, <2>2, <3>1, <4>1 DEF Link
        <5> QED BY <5>1
      <4>2. CASE s[k].op = "undoing"
        <5>1. s[k].i + 1 \in DOMAIN Kids(txn, q) /\ Kids(txn, q)[s[k].i + 1] = t
          BY <2>1, <2>2, <3>1, <4>2 DEF Link
        <5> QED BY <5>1
      <4> QED BY <2>4, <4>1, <4>2
    <3> QED BY <3>1, <3>2 DEF Adopted
  <2> QED BY <2>2, <2>3, <2>4 DEF Link
<1> QED BY <1>1, <1>2, <1>4, <1>5, <1>6, <1>7, <1>8 DEF s

\* Only the stack changes.
LEMMA ContinueKeepsInv ==
  ASSUME TransactionInv, NEW p \in Threads, calls[p] # <<>>, Top(calls[p]).op # "reset",
         NEW r, Continue(p, r), Stack(txn, p, r),
         \/ Follows(calls[p], r, FALSE)
         \/ Follows(calls[p], r, TRUE) /\ Top(calls[p]).op # "undoing"
  PROVE  TransactionInv'
<1> DEFINE t == Top(calls[p]).txn
<1>1. t \in DOMAIN txn /\ Of(txn, p, t)
  BY TopCall
<1>2. Follows(calls[p], r, txn[t].undone)
  BY DEF Follows
<1>3. RolledBack(txn, calls[p], t)
  BY <1>1 DEF TransactionInv, RollbacksSound, Of
<1>4. txn[t].state = "ROLLED_BACK" /\ ~txn[t].undone => Undoing(r, t)
  BY <1>2, <1>3 DEF RolledBack, Follows
<1>5. TypeOK /\ UndoneNotWritten /\ OwedRecorded
  BY DEF TransactionInv
<1>6. TopStep(p, t, txn, r, locks, store)
  BY <1>1, <1>2, <1>3, <1>4, <1>5
     DEF TopStep, TypeOK, UndoneNotWritten, OwedRecorded, RolledBack
<1>7. /\ txn' = txn /\ locks' = locks /\ store' = store /\ blocks' = blocks
      /\ active' = active /\ calls' = [calls EXCEPT ![p] = r]
  BY DEF Continue
<1>8. TopStep(p, t, txn', r, locks', store')
  BY <1>6, <1>7
<1> HIDE DEF t
<1> QED BY <1>7, <1>8, TopStepKeepsInv

LEMMA CommitContinues ==
  ASSUME TransactionInv, NEW p \in Threads,
         CommitBegins(p) \/ CommitStartsWriting(p) \/ CommitFails(p) \/ RollbackHookFails(p)
  PROVE  TransactionInv'
<1> DEFINE s == calls[p]
           t == Top(s).txn
<1>1. /\ s # <<>> /\ Top(s).op \in {"commit", "committing", "writing", "rollback"}
  BY DEF CommitBegins, CommitStartsWriting, CommitFails, RollbackHookFails,
         ChildrenCommitted, In
<1>2. /\ s \in Seq(Calls) /\ Stack(txn, p, s) /\ Top(s) \in Calls
      /\ t \in DOMAIN txn /\ Sound(txn, Top(s), TRUE)
      /\ Len(s) = 1 => Top(s).op \in {"reset", "rollback", "undoing"}
  BY <1>1, TopCall
<1>3. /\ DOMAIN Kids(txn, t) = 1..Len(Kids(txn, t)) /\ Len(Kids(txn, t)) \in Nat
      /\ t \in Ids /\ Top(s).i \in Nat
  BY <1>2, Typed DEF TransactionInv, Calls
<1>4. ASSUME NEW op \in {"committing", "writing", "rollback", "undoing"},
             Continue(p, Entered(s, Call(op, t))), Sound(txn, Call(op, t), TRUE),
             Top(s).op = "rollback" => op = "undoing"
      PROVE  TransactionInv'
  <2> DEFINE c == Call(op, t)
  <2>1. c \in Calls /\ c.txn = t /\ c.op = op /\ c.op # "reset"
    BY <1>3 DEF Call, Calls
  <2>2. Len(s) = 1 => c.op \in {"rollback", "undoing"}
    BY <1>1, <1>2, <1>4, <2>1
  <2>3. Sound(txn, c, TRUE) /\ Continue(p, Entered(s, c))
    BY <1>4
  <2> HIDE DEF c
  <2>4. Top(s).op # "reset" /\ (Top(s).op = "undoing" => c.op = "undoing")
    BY <1>1
  <2>5. Stack(txn, p, Entered(s, c))
    BY <1>1, <1>2, <2>1, <2>2, <2>3, <2>4, EnterStack
  <2>6. Follows(s, Entered(s, c), FALSE)
    BY <1>1, <1>2, <2>1, <2>4, EnterFollows
  <2> QED BY <1>1, <2>3, <2>4, <2>5, <2>6, ContinueKeepsInv
<1>5. CASE CommitBegins(p)
  <2>1. Sound(txn, Call("committing", t), TRUE)
    <3>1. ~Final(txn[t])
      BY <1>5 DEF CommitBegins, Current, NothingToCommit
    <3> QED BY <1>3, <3>1 DEF Sound, Call
  <2>2. Continue(p, Entered(s, Call("committing", t))) /\ Top(s).op = "commit"
    BY <1>5 DEF CommitBegins, Current, In
  <2> QED BY <1>4, <2>1, <2>2
<1>6. CASE CommitStartsWriting(p)
  <2>1. /\ Top(s).op = "committing" /\ Top(s).i >= Len(Kids(txn, t))
        /\ Continue(p, Entered(s, Call("writing", t)))
    BY <1>6 DEF CommitStartsWriting, ChildrenCommitted, ChildrenToCommit, Current, In, Kids
  <2>2. ~Final(txn[t]) /\ \A j \in DOMAIN Kids(txn, t) : Over(txn, Kids(txn, t)[j])
    BY <1>2, <1>3, <2>1 DEF Sound
  <2>3. Sound(txn, Call("writing", t), TRUE)
    BY <2>2 DEF Sound, Call
  <2> QED BY <1>4, <2>1, <2>3
<1>7. CASE CommitFails(p)
  <2>1. Sound(txn, Call("rollback", t), TRUE)
    BY DEF Sound, Call
  <2>2. /\ Continue(p, Entered(s, Call("rollback", t)))
        /\ Top(s).op \in {"committing", "writing"}
    BY <1>7 DEF CommitFails, ChildrenCommitted, Current, In
  <2> QED BY <1>4, <2>1, <2>2
<1>8. CASE RollbackHookFails(p)
  <2>1. Sound(txn, Call("undoing", t), TRUE)
    BY <1>3 DEF Sound, Call
  <2>2. Continue(p, Entered(s, Call("undoing", t)))
    BY <1>8 DEF RollbackHookFails, Current
  <2> QED BY <1>4, <2>1, <2>2
<1> QED BY <1>5, <1>6, <1>7, <1>8

LEMMA RollbackSettledKeepsInv ==
  ASSUME TransactionInv, NEW p \in Threads, RollbackSettled(p)
  PROVE  TransactionInv'
<1> DEFINE s == calls[p]
<1>1. s # <<>> /\ Top(s).op = "rollback" /\ Continue(p, Returned(s)) /\ Over(txn, Top(s).txn)
  BY DEF RollbackSettled, In, Current, Over
<1>2. s \in Seq(Calls) /\ Stack(txn, p, s)
  BY <1>1, TopCall
<1>3. Stack(txn, p, Returned(s)) /\ Follows(s, Returned(s), TRUE)
  BY <1>1, <1>2, ReturnStack, ReturnFollows
<1> QED BY <1>1, <1>3, ContinueKeepsInv

LEMMA ChildCalls ==
  ASSUME TransactionInv, NEW p \in Threads, CommitChild(p) \/ RollbackChild(p)
  PROVE  TransactionInv'
<1> DEFINE s == calls[p]
           t == Top(s).txn
           n == Top(s).i
<1>1. s # <<>> /\ Top(s).op \in {"committing", "undoing"}
  BY DEF CommitChild, RollbackChild, In
<1>2. /\ s \in Seq(Calls) /\ Stack(txn, p, s) /\ Top(s) \in Calls
      /\ Of(txn, p, t) /\ t \in DOMAIN txn /\ Sound(txn, Top(s), TRUE)
      /\ Len(s) = 1 => Top(s).op \in {"reset", "rollback", "undoing"}
  BY <1>1, TopCall
<1>3. /\ DOMAIN Kids(txn, t) = 1..Len(Kids(txn, t)) /\ Len(Kids(txn, t)) \in Nat
      /\ t \in Ids /\ n \in Nat /\ Kids(txn, t) \in Seq(Ids)
  BY <1>2, Typed DEF TransactionInv, Calls
<1>4. n <= Len(Kids(txn, t))
  BY <1>1, <1>2 DEF Sound
<1>5. ASSUME NEW m \in Nat, NEW j \in DOMAIN Kids(txn, t), NEW op \in {"commit", "rollback"},
             LET c == [Top(s) EXCEPT !.i = m]
                 d == Call(op, Kids(txn, t)[j])
             IN /\ Sound(txn, c, FALSE) /\ Link(txn, c, d)
                /\ Continue(p, Append(Entered(s, c), d))
      PROVE  TransactionInv'
  <2> DEFINE c == [Top(s) EXCEPT !.i = m]
             d == Call(op, Kids(txn, t)[j])
  <2>1. c \in Calls /\ c.txn = t /\ c.op = Top(s).op
    BY <1>2 DEF Calls
  <2>2. d.op = op /\ d.txn = Kids(txn, t)[j] /\ d.i = 0
    BY DEF Call
  <2>3. d.txn \in Ids
    BY <1>3, <2>2, ElementOfSeq
  <2>4. d \in Calls
    BY <2>3 DEF Call, Calls
  <2>5. Of(txn, p, d.txn) /\ c.txn < d.txn
    BY <1>2, <2>1, <2>2, Relatives DEF TransactionInv, Of
  <2>6. Sound(txn, d, TRUE)
    BY <2>2 DEF Sound
  <2>7. Sound(txn, c, FALSE) /\ Link(txn, c, d) /\ Continue(p, Append(Entered(s, c), d))
    BY <1>5
  <2> HIDE DEF c, d
  <2>8. d.op # "reset" /\ c.op # "reset" /\ (Top(s).op = "undoing" => c.op = "undoing")
        /\ (Len(s) = 1 => c.op = "undoing") /\ c.op \in {"committing", "undoing"}
        /\ c.txn = Top(s).txn /\ Top(s).op # "reset"
    BY <1>1, <1>2, <2>1, <2>2
  <2>9. Stack(txn, p, Append(Entered(s, c), d))
    BY <1>1, <1>2, <2>1, <2>4, <2>5, <2>6, <2>7, <2>8, CallStack
  <2>10. Follows(s, Append(Entered(s, c), d), FALSE)
    BY <1>1, <1>2, <2>1, <2>4, <2>8, CallFollows
  <2> QED BY <1>1, <2>7, <2>9, <2>10, ContinueKeepsInv
<1>6. CASE CommitChild(p)
  <2> DEFINE c == [Top(s) EXCEPT !.i = n + 1]
             d == Call("commit", Kids(txn, t)[n + 1])
  <2>1. /\ Top(s).op = "committing" /\ n < Len(Kids(txn, t))
        /\ Continue(p, Append(Entered(s, c), d))
    BY <1>6 DEF CommitChild, ChildrenToCommit, In, Kids
  <2>2. n + 1 \in Nat /\ n + 1 \in DOMAIN Kids(txn, t)
    BY <1>3, <2>1
  <2>3. c.op = "committing" /\ c.txn = t /\ c.i = n + 1 /\ d.txn = Kids(txn, t)[n + 1]
    BY <1>2, <2>1 DEF Call, Calls
  <2>4. Link(txn, c, d)
    BY <1>3, <2>3 DEF Link
  <2>5. ~Final(txn[t]) /\ \A j \in 1..n : Over(txn, Kids(txn, t)[j])
    BY <1>2, <2>1 DEF Sound
  <2>6. Sound(txn, c, FALSE)
    <3>1. \A j \in 1..n + 1 : j \in 1..n \/ j = n + 1
      BY <1>3
    <3> QED BY <1>3, <2>2, <2>3, <2>5, <3>1 DEF Sound
  <2> QED BY <1>5, <2>1, <2>2, <2>4, <2>6
<1>7. CASE RollbackChild(p)
  <2> DEFINE c == [Top(s) EXCEPT !.i = n - 1]
             d == Call("rollback", Kids(txn, t)[n])
  <2>1. /\ Top(s).op = "undoing" /\ n > 0
        /\ Continue(p, Append(Entered(s, c), d))
    BY <1>7 DEF RollbackChild, In, Kids
  <2>2. n - 1 \in Nat /\ n \in DOMAIN Kids(txn, t) /\ (n - 1) + 1 = n
    BY <1>3, <1>4, <2>1
  <2>3. c.op = "undoing" /\ c.txn = t /\ c.i = n - 1 /\ d.txn = Kids(txn, t)[n]
    BY <1>2, <2>1 DEF Call, Calls
  <2>4. Link(txn, c, d) /\ Sound(txn, c, FALSE)
    BY <1>3, <1>4, <2>2, <2>3 DEF Link, Sound
  <2> QED BY <1>5, <2>1, <2>2, <2>4
<1> QED BY <1>6, <1>7

LEMMA ReleaseIs ==
  ASSUME TypeOK, NEW t, Release(t)
  PROVE  /\ locks' \in [Keys -> Ids \cup {None}]
         /\ \A k \in Keys : locks'[k] = locks[k] \/ (locks[k] = t /\ k = txn[t].key)
BY DEF Release, TypeOK

LEMMA CommitSettledKeepsInv ==
  ASSUME TransactionInv, NEW p \in Threads, CommitSettled(p)
  PROVE  TransactionInv'
<1> DEFINE s == calls[p]
           t == Top(s).txn
           r == IF Refused(t) THEN Raised(s) ELSE Returned(s)
<1>1. /\ s # <<>> /\ Top(s).op = "commit" /\ Over(txn, t) /\ Release(t)
      /\ txn' = txn /\ store' = store /\ blocks' = blocks /\ active' = active
      /\ calls' = [calls EXCEPT ![p] = r]
  BY DEF CommitSettled, In, Current, Over, NothingToCommit, ReleaseAndReturn
<1>2. s \in Seq(Calls) /\ Stack(txn, p, s) /\ t \in DOMAIN txn /\ Of(txn, p, t)
  BY <1>1, TopCall
<1>3. TypeOK /\ UndoneNotWritten /\ OwedRecorded /\ RolledBack(txn, s, t)
  BY <1>2 DEF TransactionInv, RollbacksSound, Of
<1>4. Stack(txn, p, r) /\ Follows(s, r, TRUE)
  BY <1>1, <1>2, ReturnStack, ReturnFollows, RaiseStack, RaiseFollows
<1> HIDE DEF r
<1>5. Follows(s, r, txn[t].undone)
  BY <1>1, <1>4 DEF Follows
<1>6. txn[t].state = "ROLLED_BACK" /\ ~txn[t].undone => Undoing(r, t)
  BY <1>3, <1>5 DEF RolledBack, Follows
<1>7. /\ locks' \in [Keys -> Ids \cup {None}]
      /\ \A k \in Keys : locks'[k] = locks[k] \/ (locks[k] = t /\ k = txn[t].key)
  BY <1>1, <1>3, ReleaseIs
<1>8. TopStep(p, t, txn, r, locks', store)
  BY <1>1, <1>2, <1>3, <1>4, <1>5, <1>6, <1>7
     DEF TopStep, TypeOK, UndoneNotWritten, OwedRecorded, RolledBack
<1>9. TopStep(p, t, txn', r, locks', store')
  BY <1>1, <1>8
<1> HIDE DEF t
<1> QED BY <1>1, <1>9, TopStepKeepsInv

\* A new record for one transaction.
LEMMA Replace ==
  ASSUME TypeOK, NEW t \in DOMAIN txn, NEW v \in Txns
  PROVE  LET y == [txn EXCEPT ![t] = v]
         IN /\ y \in Seq(Txns) /\ DOMAIN y = DOMAIN txn /\ Len(y) = Len(txn)
            /\ y[t] = v /\ \A u \in DOMAIN txn \ {t} : y[u] = txn[u]
<1>1. txn \in Seq(Txns) /\ t \in 1..Len(txn) /\ DOMAIN txn = 1..Len(txn)
  BY Typed
<1>2. [txn EXCEPT ![t] = v] \in Seq(Txns) /\ Len([txn EXCEPT ![t] = v]) = Len(txn)
  BY <1>1, ExceptSeq
<1> QED BY <1>2

\* Other states of the transaction on top.
LEMMA KeepOwnStack ==
  ASSUME TransactionInv, NEW p \in Threads, NEW s, Stack(txn, p, s), s # <<>>,
         NEW y, DOMAIN y = DOMAIN txn,
         \A u \in DOMAIN txn \ {Top(s).txn} : y[u] = txn[u],
         LET t == Top(s).txn
         IN y[t].thread = txn[t].thread /\ y[t].children = txn[t].children
            /\ (Over(txn, t) => Over(y, t)),
         Top(s).op \notin {"committing", "writing"}
  PROVE  Stack(y, p, s)
<1>1. TypeOK /\ Family(txn)
  BY DEF TransactionInv
<1>2. \A u : Of(txn, p, u) => Of(y, p, u) /\ Kids(y, u) = Kids(txn, u)
                               /\ (Over(txn, u) => Over(y, u))
  BY DEF Of, Kids, Over
<1>3. \A u : Of(txn, p, u) => \A i \in DOMAIN Kids(txn, u) : Of(txn, p, Kids(txn, u)[i])
  BY <1>1, Relatives DEF Of
<1>4. \A u : Of(txn, p, u) => Kids(txn, u) \in Seq(Ids)
  BY <1>1, Typed DEF Of
<1>5. ASSUME NEW i \in 1..Len(s), s[i].op \in {"committing", "writing"}
      PROVE  ~Final(y[s[i].txn])
  <2>1. s \in Seq(Calls)
    BY DEF Stack
  <2>2. Len(s) \in Nat \ {0} /\ Top(s) = s[Len(s)] /\ Len(s) \in 1..Len(s)
    BY <2>1, StackIndex
  <2>3. Of(txn, p, s[i].txn) /\ Sound(txn, s[i], i = Len(s))
    BY DEF Stack
  <2>4. i < Len(s) /\ s[i].op # "reset"
    BY <1>5, <2>2
  <2>5. s[i].txn < Top(s).txn
    BY <2>2, <2>4 DEF Stack
  <2>6. s[i].txn \in Nat
    BY <1>1, <2>3, Typed DEF Of
  <2>7. s[i].txn # Top(s).txn
    BY <2>5, <2>6
  <2> QED BY <1>5, <2>3, <2>7 DEF Of, Sound
<1> QED BY <1>2, <1>3, <1>4, <1>5, KeepStack

LEMMA RollbackReleasesKeepsInv ==
  ASSUME TransactionInv, NEW p \in Threads, RollbackReleases(p)
  PROVE  TransactionInv'
<1> DEFINE s == calls[p]
           t == Top(s).txn
           y == [txn EXCEPT ![t] = [txn[t] EXCEPT !.undone = TRUE]]
           r == IF Refused(t) THEN Raised(s) ELSE Returned(s)
<1>1. /\ s # <<>> /\ Top(s).op = "undoing" /\ Release(t)
      /\ txn' = y /\ store' = store /\ blocks' = blocks /\ active' = active
      /\ calls' = [calls EXCEPT ![p] = r]
  BY DEF RollbackReleases, In, Current, ReleaseAndReturn
<1>2. s \in Seq(Calls) /\ Stack(txn, p, s) /\ t \in DOMAIN txn /\ Of(txn, p, t)
  BY <1>1, TopCall
<1>3. TypeOK /\ UndoneNotWritten /\ OwedRecorded /\ RolledBack(txn, s, t) /\ txn[t] \in Txns
  BY <1>2, Typed DEF TransactionInv, RollbacksSound, Of
<1>4. [txn[t] EXCEPT !.undone = TRUE] \in Txns
  BY <1>3 DEF Txns
<1>5. /\ y \in Seq(Txns) /\ DOMAIN y = DOMAIN txn /\ y[t] = [txn[t] EXCEPT !.undone = TRUE]
      /\ \A u \in DOMAIN txn \ {t} : y[u] = txn[u]
  BY <1>2, <1>3, <1>4, Replace
<1> HIDE DEF y
<1>6. /\ y[t].key = txn[t].key /\ y[t].thread = txn[t].thread /\ y[t].found = txn[t].found
      /\ y[t].parent = txn[t].parent /\ y[t].children = txn[t].children
      /\ y[t].state = txn[t].state /\ y[t].value = txn[t].value /\ y[t].undone = TRUE
      /\ y[t].writes = txn[t].writes
  BY <1>3, <1>5 DEF Txns
<1>7. Over(y, t)
  BY <1>6 DEF Over
<1>8. Stack(y, p, s)
  BY <1>1, <1>2, <1>5, <1>6, <1>7, KeepOwnStack
<1>9. Stack(y, p, r) /\ Follows(s, r, TRUE)
  BY <1>1, <1>2, <1>7, <1>8, ReturnStack, ReturnFollows, RaiseStack, RaiseFollows
<1> HIDE DEF r
<1>10. /\ locks' \in [Keys -> Ids \cup {None}]
       /\ \A k \in Keys : locks'[k] = locks[k] \/ (locks[k] = t /\ k = txn[t].key)
  BY <1>1, <1>3, ReleaseIs
<1>11. (Made(y, t) => Made(txn, t)) /\ (Owed(y, t) => Owed(txn, t))
  BY <1>6 DEF Made, Owed
<1>12. TopStep(p, t, y, r, locks', store)
  BY <1>1, <1>2, <1>3, <1>5, <1>6, <1>7, <1>9, <1>10, <1>11
     DEF TopStep, TypeOK, UndoneNotWritten, OwedRecorded, RolledBack
<1>13. TopStep(p, t, txn', r, locks', store')
  BY <1>1, <1>12
<1> HIDE DEF t
<1> QED BY <1>1, <1>13, TopStepKeepsInv

LEMMA RollbackRunsHooksKeepsInv ==
  ASSUME TransactionInv, NEW p \in Threads, RollbackRunsHooks(p)
  PROVE  TransactionInv'
<1> DEFINE s == calls[p]
           t == Top(s).txn
           v == [txn[t] EXCEPT !.state = "ROLLED_BACK", !.value = "undone"]
           y == [txn EXCEPT ![t] = v]
           c == [op |-> "undoing", txn |-> t, i |-> Len(Kids(txn, t))]
           r == Entered(s, c)
<1>1. s # <<>> /\ Top(s).op = "rollback"
  BY DEF RollbackRunsHooks, In
<1>2. /\ s \in Seq(Calls) /\ Stack(txn, p, s) /\ t \in DOMAIN txn /\ Of(txn, p, t)
      /\ Len(s) \in Nat \ {0}
  BY <1>1, TopCall
<1>3. TypeOK /\ UndoneNotWritten /\ OwedRecorded /\ txn[t] \in Txns
  BY <1>2, Typed DEF TransactionInv
<1>4. /\ txn' = y /\ store' = store /\ blocks' = blocks /\ active' = active /\ locks' = locks
      /\ calls' = [calls EXCEPT ![p] = r]
  <2>1. txn' = [txn EXCEPT ![t].state = "ROLLED_BACK", ![t].value = "undone"]
    BY DEF RollbackRunsHooks, Current
  <2>2. txn' = y
    BY <1>2, <1>3, <2>1 DEF Txns
  <2> QED BY <2>2 DEF RollbackRunsHooks, Current, Kids
<1>5. v \in Txns
  BY <1>3 DEF Txns, States, Values
<1>6. /\ y \in Seq(Txns) /\ DOMAIN y = DOMAIN txn /\ y[t] = v
      /\ \A u \in DOMAIN txn \ {t} : y[u] = txn[u]
  BY <1>2, <1>3, <1>5, Replace
<1> HIDE DEF y
<1>7. /\ y[t].key = txn[t].key /\ y[t].thread = txn[t].thread /\ y[t].found = txn[t].found
      /\ y[t].parent = txn[t].parent /\ y[t].children = txn[t].children
      /\ y[t].state = "ROLLED_BACK" /\ y[t].value = "undone" /\ y[t].undone = txn[t].undone
  BY <1>3, <1>6 DEF Txns
<1>8. Over(y, t)
  BY <1>7 DEF Over, Final
<1>9. Stack(y, p, s)
  BY <1>1, <1>2, <1>6, <1>7, <1>8, KeepOwnStack
<1>10. /\ c \in Calls /\ c.txn = t /\ c.op = "undoing" /\ Sound(y, c, TRUE)
  BY <1>2, <1>3, <1>7, Typed DEF Calls, Sound, Kids
<1> HIDE DEF c
<1>11. Stack(y, p, r) /\ Follows(s, r, FALSE)
  BY <1>1, <1>2, <1>9, <1>10, EnterStack, EnterFollows
<1>12. Undoing(r, t)
  <2>1. Len(r) = Len(s) /\ r[Len(s)] = c
    BY <1>1, <1>2, <1>10, EnteredIs
  <2> QED BY <1>2, <1>10, <2>1 DEF Undoing
<1> HIDE DEF r
<1>13. Follows(s, r, y[t].undone)
  BY <1>11 DEF Follows
<1>14. ~Made(y, t) /\ (Owed(y, t) => Owed(txn, t))
  BY <1>7 DEF Made, Owed
<1>15. TopStep(p, t, y, r, locks, store)
  BY <1>1, <1>2, <1>3, <1>6, <1>7, <1>8, <1>11, <1>12, <1>13, <1>14
     DEF TopStep, TypeOK, UndoneNotWritten, OwedRecorded
<1>16. TopStep(p, t, txn', r, locks', store')
  BY <1>4, <1>15
<1> HIDE DEF t
<1> QED BY <1>4, <1>16, TopStepKeepsInv

LEMMA CommitWritesKeepsInv ==
  ASSUME TransactionInv, NEW p \in Threads, CommitWrites(p)
  PROVE  TransactionInv'
<1> DEFINE s == calls[p]
           t == Top(s).txn
           v == [txn[t] EXCEPT !.state = "COMMITTED"]
           y == [txn EXCEPT ![t] = v]
           c == Call("commit", t)
           e == Entered(s, c)
           r == Returned(s)
<1>1. /\ s # <<>> /\ Top(s).op = "writing" /\ Written(t) /\ Release(t)
      /\ txn' = y /\ blocks' = blocks /\ active' = active
      /\ calls' = [calls EXCEPT ![p] = r]
  BY DEF CommitWrites, In, Current
<1>2. /\ s \in Seq(Calls) /\ Stack(txn, p, s) /\ t \in DOMAIN txn /\ Of(txn, p, t)
      /\ Len(s) \in Nat \ {0} /\ Len(s) # 1 /\ Sound(txn, Top(s), TRUE)
      /\ Adopted(txn, t) \/ (Len(s) = 2 /\ s[1].op = "reset" /\ s[1].txn = t)
  <2>1. /\ s \in Seq(Calls) /\ Stack(txn, p, s) /\ t \in DOMAIN txn /\ Of(txn, p, t)
        /\ Len(s) \in Nat \ {0} /\ Sound(txn, Top(s), TRUE)
        /\ Len(s) = 1 => Top(s).op \in {"reset", "rollback", "undoing"}
        /\ Top(s).op # "reset" /\ Len(s) # 1 =>
             Adopted(txn, t) \/ (Len(s) = 2 /\ s[1].op = "reset" /\ s[1].txn = t)
    BY <1>1, TopCall
  <2>2. Len(s) # 1 /\ Top(s).op # "reset"
    BY <1>1, <2>1
  <2> QED BY <2>1, <2>2
<1>3. /\ TypeOK /\ UndoneNotWritten /\ OwedRecorded /\ RolledBack(txn, s, t)
      /\ txn[t] \in Txns /\ t \in Ids
  BY <1>2, Typed DEF TransactionInv, RollbacksSound, Of
<1>4. v \in Txns
  BY <1>3 DEF Txns, States
<1>5. /\ y \in Seq(Txns) /\ DOMAIN y = DOMAIN txn /\ y[t] = v
      /\ \A u \in DOMAIN txn \ {t} : y[u] = txn[u]
  BY <1>2, <1>3, <1>4, Replace
<1> HIDE DEF y
<1>6. /\ y[t].key = txn[t].key /\ y[t].thread = txn[t].thread /\ y[t].found = txn[t].found
      /\ y[t].parent = txn[t].parent /\ y[t].children = txn[t].children
      /\ y[t].state = "COMMITTED" /\ y[t].value = txn[t].value /\ y[t].undone = txn[t].undone
      /\ y[t].writes = txn[t].writes
  BY <1>3, <1>5 DEF Txns
<1>7. Over(y, t)
  BY <1>6 DEF Over, Final
<1>8. /\ ~Final(txn[t]) /\ \A i \in DOMAIN Kids(txn, t) : Over(txn, Kids(txn, t)[i])
  BY <1>1, <1>2 DEF Sound
<1>9. txn[t].value # "undone" /\ txn[t].value \in Values
  BY <1>3, <1>8 DEF RolledBack, Final, Txns
<1>10. Stack(y, p, r)
  <2>1. c \in Calls /\ c.txn = t /\ c.op = "commit" /\ Sound(txn, c, TRUE)
    BY <1>3 DEF Call, Calls, Sound
  <2> HIDE DEF c
  <2>2. /\ Stack(txn, p, e) /\ e \in Seq(Calls) /\ Len(e) = Len(s) /\ e[Len(s)] = c
        /\ \A i \in 1..Len(s) - 1 : e[i] = s[i]
    BY <1>1, <1>2, <2>1, EnterStack, EnteredIs
  <2> HIDE DEF e
  <2>3. e # <<>> /\ Top(e) = c
    BY <1>2, <2>2, EmptySeq DEF Top
  <2>4. Stack(y, p, e)
    <3>1. Top(e).txn = t /\ Top(e).op \notin {"committing", "writing"}
      BY <2>1, <2>3
    <3>2. /\ \A u \in DOMAIN txn \ {Top(e).txn} : y[u] = txn[u]
          /\ y[Top(e).txn].thread = txn[Top(e).txn].thread
          /\ y[Top(e).txn].children = txn[Top(e).txn].children
          /\ Over(y, Top(e).txn)
      BY <1>5, <1>6, <1>7, <3>1
    <3> HIDE DEF t
    <3> QED BY <1>5, <2>2, <2>3, <3>1, <3>2, KeepOwnStack
  <2>5. Stack(y, p, Returned(e))
    BY <1>7, <2>1, <2>3, <2>4, ReturnStack
  <2>6. Returned(e) = r
    <3>1. /\ Returned(e) \in Seq(Calls) /\ Len(Returned(e)) = Len(s) - 1
          /\ \A i \in 1..Len(s) - 1 : Returned(e)[i] = e[i]
      BY <2>2, <2>3, ReturnedIs
    <3>2. /\ Returned(s) \in Seq(Calls) /\ Len(Returned(s)) = Len(s) - 1
          /\ \A i \in 1..Len(s) - 1 : Returned(s)[i] = s[i]
      BY <1>1, <1>2, ReturnedIs
    <3> HIDE DEF r
    <3>3. \A i \in 1..Len(r) : Returned(e)[i] = r[i]
      BY <2>2, <3>1, <3>2 DEF r
    <3>4. Len(Returned(e)) = Len(r) /\ r \in Seq(Calls)
      BY <3>1, <3>2 DEF r
    <3> QED BY <3>1, <3>3, <3>4, SeqEqual
  <2> QED BY <2>5, <2>6
<1>11. Follows(s, r, TRUE)
  BY <1>1, <1>2, ReturnFollows
<1>12. Follows(s, r, y[t].undone)
  BY <1>1, <1>11 DEF Follows
<1>13. Adopted(txn, t) \/ (s[1].op = "reset" /\ s[1].txn = t /\ Resetting(r))
  <2> SUFFICES ASSUME Len(s) = 2, s[1].op = "reset", s[1].txn = t PROVE Resetting(r)
    BY <1>2
  <2>1. Len(Returned(s)) = Len(s) - 1 /\ \A i \in 1..Len(s) - 1 : Returned(s)[i] = s[i]
    BY <1>1, <1>2, ReturnedIs
  <2> HIDE DEF s
  <2>2. Len(Returned(s)) = 1 /\ Returned(s)[1] = s[1]
    BY <2>1
  <2> QED BY <2>2 DEF Resetting, r
<1> HIDE DEF r
<1>14. /\ locks' \in [Keys -> Ids \cup {None}]
       /\ \A k \in Keys : locks'[k] = locks[k] \/ (locks[k] = t /\ k = txn[t].key)
  BY <1>1, <1>3, ReleaseIs
<1>15. /\ store' \in [Keys -> Values \cup {"absent"}]
       /\ \A k \in Keys : store'[k] # "undone" /\ (store[k] # "absent" => store'[k] # "absent")
  <2>1. store' = [k \in Keys |-> IF Puts(t, k) THEN txn[t].value ELSE store[k]]
    BY <1>1 DEF Written
  <2>2. txn[t].value # "absent"
    BY <1>9 DEF Values
  <2> QED BY <1>3, <1>9, <2>1, <2>2 DEF TypeOK, UndoneNotWritten
<1>16. Owed(y, t) /\ txn[t].key # None => store'[txn[t].key] # "absent"
  <2> SUFFICES ASSUME Owed(y, t), txn[t].key # None PROVE store'[txn[t].key] # "absent"
    OBVIOUS
  <2> DEFINE k == txn[t].key
  <2>1. k \in Keys
    BY <1>3 DEF Txns
  <2>2. CASE txn[t].found
    <3>1. store[k] # "absent"
      BY <1>2, <1>3, <2>2 DEF OwedRecorded, Owed
    <3> QED BY <1>15, <2>1, <3>1
  <2>3. CASE txn[t].writes
    <3>1. Puts(t, k) /\ txn[t].value # "absent"
      BY <1>9, <2>3 DEF Puts, Values
    <3> QED BY <1>1, <2>1, <3>1 DEF Written
  <2> QED BY <1>6, <2>2, <2>3 DEF Owed
<1>17. TopStep(p, t, y, r, locks', store')
  BY <1>1, <1>2, <1>5, <1>6, <1>7, <1>8, <1>9, <1>10, <1>12, <1>13, <1>14, <1>15, <1>16
     DEF TopStep
<1>18. TopStep(p, t, txn', r, locks', store')
  BY <1>1, <1>17
<1> HIDE DEF t
<1> QED BY <1>1, <1>18, TopStepKeepsInv

\* An idle thread has nothing on its stack, so its rollbacks have returned.
LEMMA IdleThread ==
  ASSUME TransactionInv, NEW p \in Threads, Idle(p)
  PROVE  /\ active[p] # None => Of(txn, p, active[p]) /\ ~Adopted(txn, active[p])
                                /\ ~Made(txn, active[p])
         /\ \A u : Of(txn, p, u) /\ txn[u].state = "ROLLED_BACK" => txn[u].undone
         /\ \A x : Stack(x, p, <<>>)
<1>1. Len(<<>>) = 0 /\ calls[p] = <<>>
  BY DEF Idle
<1>2. Context(txn, p, blocks[p], active[p], calls[p])
  BY DEF TransactionInv, ContextsSound
<1>3. \A u : Of(txn, p, u) => RolledBack(txn, calls[p], u)
  BY DEF TransactionInv, RollbacksSound, Of
<1>4. \A x : Stack(x, p, <<>>)
  BY EmptySeq DEF Stack
<1>5. \A u : ~Undoing(calls[p], u)
  BY <1>1 DEF Undoing
<1> QED BY <1>1, <1>2, <1>3, <1>4, <1>5 DEF Context, Resetting, RolledBack

LEMMA StageKeepsInv ==
  ASSUME TransactionInv, NEW p \in Threads, Stage(p)
  PROVE  TransactionInv'
<1> DEFINE t == Innermost(p)
           v == [txn[t] EXCEPT !.state = "STAGED", !.value = "staged"]
           x == txn
           y == [txn EXCEPT ![t] = v]
           b == blocks[p]
<1>1. TypeOK /\ Family(x) /\ Idle(p) /\ b # <<>> /\ b \in Seq(Ids) /\ calls[p] = <<>>
  BY DEF Stage, InBlock, Idle, TransactionInv, TypeOK
<1>2. Len(b) \in DOMAIN b /\ t = b[Len(b)]
  <2>1. Len(b) \in Nat \ {0} /\ DOMAIN b = 1..Len(b)
    BY <1>1, EmptySeq, LenProperties
  <2> QED BY <2>1 DEF Innermost
<1>3. Context(x, p, b, active[p], calls[p])
  BY DEF TransactionInv, ContextsSound
<1>4. Of(x, p, t) /\ t \in DOMAIN x
  BY <1>2, <1>3 DEF Context, Of
<1>5. x[t] \in Txns /\ v \in Txns
  BY <1>1, <1>4, Typed DEF Txns, States, Values
<1>6. /\ x[t].state # "COMMITTED" /\ txn' = y /\ blocks' = blocks /\ active' = active
      /\ calls' = calls /\ store' = store /\ locks' = locks
  <2>1. txn' = [txn EXCEPT ![t].state = "STAGED", ![t].value = "staged"]
    BY DEF Stage
  <2>2. txn' = y
    BY <1>4, <1>5, <2>1 DEF Txns
  <2> QED BY <2>2 DEF Stage
<1>7. /\ y \in Seq(Txns) /\ DOMAIN y = DOMAIN x /\ Len(y) = Len(x) /\ y[t] = v
      /\ \A u \in DOMAIN x \ {t} : y[u] = x[u]
  BY <1>1, <1>4, <1>5, Replace
<1> HIDE DEF y
<1>8. /\ y[t].key = x[t].key /\ y[t].thread = x[t].thread /\ y[t].found = x[t].found
      /\ y[t].parent = x[t].parent /\ y[t].children = x[t].children
      /\ y[t].state = "STAGED" /\ y[t].value = "staged" /\ y[t].undone = x[t].undone
      /\ y[t].writes = x[t].writes
  BY <1>5, <1>7 DEF Txns
<1>9. Over(x, t) => x[t].undone
  BY <1>1, <1>4, <1>6, IdleThread DEF Over, Final
<1>10. \A u \in DOMAIN x : /\ y[u].key = x[u].key /\ y[u].thread = x[u].thread
                           /\ y[u].parent = x[u].parent /\ Kids(y, u) = Kids(x, u)
                           /\ Over(x, u) <=> Over(y, u)
                           /\ Made(y, u) => Made(x, u)
                           /\ Owed(y, u) => Owed(x, u)
  <2>1. Owed(y, t) => Owed(x, t)
    BY <1>8 DEF Owed
  <2>2. \A u \in DOMAIN x : Owed(y, u) => Owed(x, u)
    BY <1>7, <2>1 DEF Owed
  <2>3. \A u \in DOMAIN x : /\ y[u].key = x[u].key /\ y[u].thread = x[u].thread
                            /\ y[u].parent = x[u].parent /\ Kids(y, u) = Kids(x, u)
                            /\ Over(x, u) <=> Over(y, u)
                            /\ Made(y, u) => Made(x, u)
    BY <1>6, <1>7, <1>8, <1>9 DEF Kids, Over, Made, Final
  <2> QED BY <2>2, <2>3
<1>11. (\A u : Adopted(y, u) <=> Adopted(x, u)) /\ (\A q, u : Of(y, q, u) <=> Of(x, q, u))
  BY <1>7, <1>10 DEF Adopted, Of
<1>12. TypeOK'
  BY <1>1, <1>6, <1>7 DEF TypeOK
<1>13. Family(y)
  BY <1>1, <1>7, <1>10, <1>11 DEF Family
<1>14. ASSUME NEW q \in Threads
       PROVE  Stack(y, q, calls[q]) /\ Context(y, q, blocks[q], active[q], calls[q])
  <2>1. CASE q # p
    <3>1. \A u \in DOMAIN x : x[u].thread # p => u \in DOMAIN y /\ y[u] = x[u]
      BY <1>4, <1>7 DEF Of
    <3> QED BY <1>11, <2>1, <3>1, OthersStep
  <2>2. CASE q = p
    <3>1. \A u : Of(x, p, u) /\ Waiting(x, x[u].parent) => Waiting(y, y[u].parent)
      BY <1>1, <1>10, <1>11, Relatives DEF Waiting, Of
    <3>2. active[p] # None => Of(x, p, active[p]) /\ ~Adopted(x, active[p])
                              /\ ~Made(x, active[p])
      BY <1>1, IdleThread
    <3>3. Len(calls[p]) = 0
      BY <1>1
    <3>4. active[p] # None => /\ Of(y, p, active[p]) /\ ~Adopted(y, active[p])
                              /\ ~Made(y, active[p])
      BY <1>10, <1>11, <3>2 DEF Of
    <3>5. /\ \A i \in DOMAIN b : Of(x, p, b[i]) /\ ~Adopted(x, b[i]) /\ Waiting(x, x[b[i]].parent)
          /\ \A i, j \in DOMAIN b : i < j => b[i] < b[j]
      BY <1>3 DEF Context
    <3>6. \A i \in DOMAIN b : Of(y, p, b[i]) /\ ~Adopted(y, b[i]) /\ Waiting(y, y[b[i]].parent)
      BY <1>11, <3>1, <3>5
    <3>7. Context(y, p, b, active[p], calls[p])
      BY <3>3, <3>4, <3>5, <3>6 DEF Context
    <3> QED BY <1>1, <2>2, <3>7, IdleThread
  <2> QED BY <2>1, <2>2
<1>15. \A u \in DOMAIN y : RolledBack(y, calls[y[u].thread], u)
  <2> SUFFICES ASSUME NEW u \in DOMAIN y PROVE RolledBack(y, calls[y[u].thread], u)
    OBVIOUS
  <2>1. RolledBack(x, calls[x[u].thread], u)
    BY <1>7 DEF TransactionInv, RollbacksSound
  <2> QED BY <1>7, <1>8, <1>10, <2>1 DEF RolledBack
<1>16. \A u \in DOMAIN y : Holding(y, locks, u)
  BY <1>7, <1>10 DEF TransactionInv, LocksHeld, Holding
<1>17. OwedRecorded'
  <2>1. \A u \in DOMAIN y : Owed(y, u) /\ y[u].key # None => store[y[u].key] # "absent"
    BY <1>7, <1>10 DEF TransactionInv, OwedRecorded
  <2> QED BY <1>6, <2>1 DEF OwedRecorded, Owed
<1>18. UndoneNotWritten'
  BY <1>6 DEF TransactionInv, UndoneNotWritten
<1>19. ChildrenSettled'
  <2> SUFFICES ASSUME NEW u \in DOMAIN y, Made(y, u), NEW i \in DOMAIN y[u].children
               PROVE  Over(y, y[u].children[i])
    BY <1>6 DEF ChildrenSettled, Made, Over
  <2>1. u \in DOMAIN x /\ Made(x, u) /\ y[u].children = x[u].children
    BY <1>7, <1>10 DEF Kids
  <2>2. Over(x, x[u].children[i])
    BY <2>1 DEF TransactionInv, ChildrenSettled, Made, Over
  <2>3. x[u].children[i] \in DOMAIN x
    BY <1>1, <2>1 DEF Family, Kids
  <2> QED BY <1>10, <2>1, <2>2, <2>3
<1> HIDE DEF b, t
<1> QED BY <1>6, <1>12, <1>13, <1>14, <1>15, <1>16, <1>17, <1>18, <1>19
    DEF TransactionInv, StacksSound, ContextsSound, RollbacksSound, LocksHeld

LEMMA BeginKeepsInv ==
  ASSUME TransactionInv, NEW p \in Threads, Begin(p)
  PROVE  TransactionInv'
<1> DEFINE x == txn
           y == txn'
           t == Len(txn) + 1
           a == active[p]
           b == blocks[p]
<1>1. /\ TypeOK /\ Family(x) /\ calls[p] = <<>> /\ Idle(p) /\ t \in Ids
      /\ b \in Seq(Ids) /\ a \in Ids \cup {None}
  BY DEF Begin, Idle, TransactionInv, TypeOK
<1>2. /\ x \in Seq(Txns) /\ Len(x) \in Nat /\ DOMAIN x = 1..Len(x) /\ Len(x) < t /\ t \in Nat
      /\ t \notin DOMAIN x /\ t # None /\ Len(x) + 1 = t /\ \A u \in DOMAIN x : u < t /\ u \in Nat
  BY <1>1, Typed
<1>3. PICK k \in Keys \cup {None}, mode \in {"EAGER", "LAZY", "OFF"},
           overwrite \in BOOLEAN, writes \in BOOLEAN :
        /\ k # None => Acquire(p, k)
        /\ LET found == k # None /\ ~overwrite /\ store[k] # "absent" IN
           txn' = Append(txn,
             [state |-> Prepared(found), key |-> k, mode |-> mode,
              writes |-> k # None /\ writes, parent |-> active[p], children |-> <<>>,
              value |-> "nothing", thread |-> p, found |-> found, undone |-> FALSE])
        /\ locks' = IF k = None THEN locks ELSE [locks EXCEPT ![k] = t]
  BY DEF Begin
<1> DEFINE found == k # None /\ ~overwrite /\ store[k] # "absent"
           wr == k # None /\ writes
           v == [state |-> Prepared(found), key |-> k, mode |-> mode,
                 writes |-> wr, parent |-> a, children |-> <<>>,
                 value |-> "nothing", thread |-> p, found |-> found, undone |-> FALSE]
<1>4. v.state = Prepared(found) /\ v.key = k /\ v.parent = a /\ v.children = <<>>
      /\ v.value = "nothing" /\ v.thread = p /\ v.found = found /\ v.undone = FALSE
  OBVIOUS
<1>5. v \in Txns /\ v.state \in {"COMMITTED", "ACTIVE"}
  <2>1. found \in BOOLEAN /\ wr \in BOOLEAN
    OBVIOUS
  <2>2. <<>> \in Seq(Ids)
    BY EmptySeq
  <2> HIDE DEF found, wr
  <2> QED BY <1>1, <2>1, <2>2 DEF Txns, States, Values, Prepared
<1>6. /\ v.state = "COMMITTED" => v.found = TRUE
      /\ v.state = "COMMITTED" \/ v.found => k # None /\ store[k] # "absent"
  <2>1. Prepared(found) = "COMMITTED" => found
    BY DEF Prepared
  <2> QED BY <1>4, <2>1
<1>7. y = Append(x, v)
  BY <1>3
<1> HIDE DEF v, found, wr
<1>8. /\ y \in Seq(Txns) /\ Len(y) = t /\ y[t] = v /\ \A u \in 1..Len(x) : y[u] = x[u]
  BY <1>2, <1>5, <1>7, AppendProperties
<1> HIDE DEF y
<1>9. /\ DOMAIN y = DOMAIN x \cup {t} /\ y[t] = v /\ \A u \in DOMAIN x : y[u] = x[u]
  <2>1. DOMAIN y = 1..t
    BY <1>8, LenProperties
  <2>2. 1..t = 1..Len(x) \cup {t}
    BY <1>2
  <2> QED BY <1>2, <1>8, <2>1, <2>2
<1>10. \A u \in DOMAIN x : Kids(y, u) = Kids(x, u) /\ (Over(y, u) <=> Over(x, u))
                           /\ (Made(y, u) <=> Made(x, u))
  BY <1>9 DEF Kids, Over, Made
<1>11. DOMAIN Kids(y, t) = {} /\ ~Made(y, t)
  <2>1. Kids(y, t) = <<>>
    BY <1>4, <1>9 DEF Kids
  <2>2. DOMAIN Kids(y, t) = {}
    BY <2>1
  <2>3. ~Made(y, t)
    BY <1>6, <1>9 DEF Made
  <2> QED BY <2>2, <2>3
<1>12. (\A u : Adopted(y, u) <=> Adopted(x, u)) /\ ~Adopted(y, t)
  <2>1. \A u : Adopted(y, u) <=> Adopted(x, u)
    BY <1>9, <1>10, <1>11 DEF Adopted
  <2>2. ~Adopted(x, t)
    BY <1>1, <1>2 DEF Adopted, Family
  <2> QED BY <2>1, <2>2
<1>13. \A q, u : Of(x, q, u) => Of(y, q, u)
  BY <1>9 DEF Of
<1>14. Of(y, p, t)
  BY <1>4, <1>9 DEF Of
<1>15. a # None => Of(x, p, a) /\ ~Adopted(x, a) /\ ~Made(x, a)
  BY <1>1, IdleThread
<1>16. /\ blocks' = [blocks EXCEPT ![p] = Append(b, t)] /\ active' = [active EXCEPT ![p] = t]
       /\ calls' = calls /\ store' = store
       /\ locks' = IF k = None THEN locks ELSE [locks EXCEPT ![k] = t]
  BY <1>3 DEF Begin
<1>17. TypeOK'
  <2>1. Append(b, t) \in Seq(Ids)
    BY <1>1, AppendProperties
  <2>2. t <= MaxTransactions
    BY <1>1, TransactionAssumption DEF Ids
  <2>3. /\ blocks' \in [Threads -> Seq(Ids)] /\ active' \in [Threads -> Ids \cup {None}]
        /\ calls' \in [Threads -> Seq(Calls)] /\ store' \in [Keys -> Values \cup {"absent"}]
    BY <1>1, <1>16, <2>1 DEF TypeOK
  <2>4. locks' \in [Keys -> Ids \cup {None}]
    BY <1>1, <1>16 DEF TypeOK
  <2> HIDE DEF t
  <2> QED BY <1>8, <2>2, <2>3, <2>4 DEF TypeOK, y
<1> HIDE DEF t
<1>18. Family(y)
  <2> SUFFICES ASSUME NEW u \in DOMAIN y
               PROVE  /\ y[u].parent # None =>
                           Of(y, y[u].thread, y[u].parent) /\ y[u].parent < u
                      /\ \A i \in DOMAIN Kids(y, u) :
                           /\ Kids(y, u)[i] \in DOMAIN y
                           /\ y[Kids(y, u)[i]].parent = u
    BY DEF Family
  <2>1. CASE u = t
    <3>1. y[u].parent = a /\ y[u].thread = p
      BY <1>4, <1>9, <2>1
    <3>2. a # None => Of(y, p, a) /\ a < t
      BY <1>2, <1>13, <1>15 DEF Of
    <3> QED BY <1>11, <2>1, <3>1, <3>2
  <2>2. CASE u # t
    <3>1. u \in DOMAIN x /\ y[u] = x[u] /\ Kids(y, u) = Kids(x, u)
      BY <1>9, <1>10, <2>2
    <3>2. x[u].parent # None => Of(y, x[u].thread, x[u].parent) /\ x[u].parent < u
      BY <1>1, <1>13, <3>1 DEF Family
    <3>3. \A i \in DOMAIN Kids(x, u) : Kids(x, u)[i] \in DOMAIN x /\ x[Kids(x, u)[i]].parent = u
      BY <1>1, <3>1 DEF Family
    <3> QED BY <1>9, <3>1, <3>2, <3>3
  <2> QED BY <2>1, <2>2
<1>19. ASSUME NEW q \in Threads
       PROVE  Stack(y, q, calls'[q]) /\ Context(y, q, blocks'[q], active'[q], calls'[q])
  <2>1. CASE q # p
    <3>1. \A u \in DOMAIN x : x[u].thread # p => u \in DOMAIN y /\ y[u] = x[u]
      BY <1>9
    <3>2. Stack(y, q, calls[q]) /\ Context(y, q, blocks[q], active[q], calls[q])
      BY <1>12, <2>1, <3>1, OthersStep
    <3>3. blocks'[q] = blocks[q] /\ active'[q] = active[q]
      BY <1>1, <1>16, <2>1 DEF TypeOK
    <3> QED BY <1>16, <3>2, <3>3
  <2>2. CASE q = p
    <3> DEFINE c == Append(b, t)
    <3>1. blocks'[p] = c /\ active'[p] = t /\ calls'[p] = <<>>
      BY <1>1, <1>16 DEF TypeOK
    <3>2. /\ Len(b) \in Nat /\ DOMAIN b = 1..Len(b) /\ c \in Seq(Ids) /\ Len(c) = Len(b) + 1
          /\ c[Len(b) + 1] = t /\ \A i \in 1..Len(b) : c[i] = b[i]
      BY <1>1, AppendProperties, LenProperties
    <3>3. DOMAIN c = 1..(Len(b) + 1)
      BY <3>2, LenProperties
    <3> HIDE DEF c
    <3>4. ASSUME NEW i \in DOMAIN c
          PROVE  (i \in DOMAIN b /\ c[i] = b[i]) \/ (i = Len(b) + 1 /\ c[i] = t)
      BY <3>2, <3>3
    <3>5. /\ \A i \in DOMAIN b : Of(x, p, b[i]) /\ ~Adopted(x, b[i]) /\ Waiting(x, x[b[i]].parent)
          /\ \A i, j \in DOMAIN b : i < j => b[i] < b[j]
      BY DEF TransactionInv, ContextsSound, Context
    <3>6. Waiting(y, a)
      BY <1>10, <1>12, <1>15 DEF Waiting, Of
    <3>7. ASSUME NEW u, Of(x, p, u), Waiting(x, x[u].parent) PROVE Waiting(y, y[u].parent)
      <4>1. x[u].parent # None => x[u].parent \in DOMAIN x
        BY <1>1, <3>7 DEF Family, Of
      <4> QED BY <1>9, <1>10, <1>12, <3>7, <4>1 DEF Waiting, Of
    <3>8. ASSUME NEW i \in DOMAIN c
          PROVE  Of(y, p, c[i]) /\ ~Adopted(y, c[i]) /\ Waiting(y, y[c[i]].parent)
      <4>1. CASE i \in DOMAIN b /\ c[i] = b[i]
        BY <1>12, <1>13, <3>5, <3>7, <4>1
      <4>2. CASE c[i] = t
        <5>1. y[t].parent = a
          BY <1>4, <1>9
        <5> QED BY <1>12, <1>14, <3>6, <4>2, <5>1
      <4> QED BY <3>4, <4>1, <4>2
    <3>9. ASSUME NEW i \in DOMAIN c, NEW j \in DOMAIN c, i < j PROVE c[i] < c[j]
      <4>1. i \in DOMAIN b /\ c[i] = b[i] /\ b[i] < t
        <5>1. i # Len(b) + 1
          BY <3>2, <3>3, <3>9
        <5>2. i \in DOMAIN b /\ c[i] = b[i]
          BY <3>4, <5>1
        <5> QED BY <1>2, <3>5, <5>2 DEF Of
      <4> QED BY <3>4, <3>5, <3>9, <4>1
    <3>10. Len(<<>>) = 0
      OBVIOUS
    <3>11. Context(y, p, c, t, <<>>)
      BY <1>11, <1>12, <1>14, <3>8, <3>9, <3>10 DEF Context
    <3> QED BY <1>1, <2>2, <3>1, <3>11, IdleThread
  <2> QED BY <2>1, <2>2
<1>20. ASSUME NEW u \in DOMAIN y PROVE RolledBack(y, calls'[y[u].thread], u)
  <2>1. CASE u = t
    BY <1>4, <1>5, <1>9, <2>1 DEF RolledBack
  <2>2. CASE u # t
    <3>1. u \in DOMAIN x /\ y[u] = x[u]
      BY <1>9, <2>2
    <3>2. RolledBack(x, calls[x[u].thread], u)
      BY <3>1 DEF TransactionInv, RollbacksSound
    <3> QED BY <1>16, <3>1, <3>2 DEF RolledBack
  <2> QED BY <2>1, <2>2
<1>21. ASSUME NEW u \in DOMAIN y PROVE Holding(y, locks', u)
  <2> SUFFICES ASSUME y[u].key # None, ~Over(y, u) PROVE locks'[y[u].key] = u
    BY DEF Holding
  <2>1. CASE u = t
    BY <1>1, <1>4, <1>9, <1>16, <2>1 DEF TypeOK
  <2>2. CASE u # t
    <3>1. u \in DOMAIN x /\ y[u] = x[u] /\ ~Over(x, u)
      BY <1>9, <1>10, <2>2
    <3>2. locks[x[u].key] = u /\ u # None
      BY <1>1, <3>1, Typed DEF TransactionInv, LocksHeld, Holding
    <3>3. k # None => locks[k] = None
      BY <1>3 DEF Acquire
    <3>4. k # None => k # x[u].key
      BY <3>2, <3>3
    <3>5. x[u].key \in Keys
      BY <1>1, <3>1, Typed DEF Txns
    <3>6. CASE k = None
      BY <1>16, <3>1, <3>2, <3>6
    <3>7. CASE k # None
      <4>1. locks' = [locks EXCEPT ![k] = t] /\ locks \in [Keys -> Ids \cup {None}]
        BY <1>1, <1>16, <3>7 DEF TypeOK
      <4> QED BY <3>1, <3>2, <3>4, <3>5, <3>7, <4>1
    <3> QED BY <3>6, <3>7
  <2> QED BY <2>1, <2>2
<1>22. OwedRecorded'
  <2> SUFFICES ASSUME NEW u \in DOMAIN y, Owed(y, u), y[u].key # None
               PROVE  store'[y[u].key] # "absent"
    BY DEF OwedRecorded, Owed, y
  <2>1. CASE u = t
    <3>1. v.state = "COMMITTED" \/ v.found
      BY <1>9, <2>1 DEF Owed
    <3> QED BY <1>4, <1>6, <1>9, <1>16, <2>1, <3>1
  <2>2. CASE u # t
    <3>1. u \in DOMAIN x /\ y[u] = x[u] /\ Owed(x, u)
      BY <1>9, <2>2 DEF Owed
    <3> QED BY <1>16, <3>1 DEF TransactionInv, OwedRecorded
  <2> QED BY <2>1, <2>2
<1>23. UndoneNotWritten'
  BY <1>16 DEF TransactionInv, UndoneNotWritten
<1>24. ChildrenSettled'
  <2> SUFFICES ASSUME NEW u \in DOMAIN y, Made(y, u), NEW i \in DOMAIN y[u].children
               PROVE  Over(y, y[u].children[i])
    BY DEF ChildrenSettled, Made, Over, y
  <2>1. u \in DOMAIN x /\ Made(x, u) /\ y[u].children = x[u].children
    BY <1>9, <1>10, <1>11
  <2>2. Over(x, x[u].children[i])
    BY <2>1 DEF TransactionInv, ChildrenSettled, Made, Over
  <2>3. x[u].children[i] \in DOMAIN x
    BY <1>1, <2>1 DEF Family, Kids
  <2> QED BY <1>10, <2>1, <2>2, <2>3
<1> HIDE DEF b, a
<1> QED BY <1>17, <1>18, <1>19, <1>20, <1>21, <1>22, <1>23, <1>24
    DEF TransactionInv, StacksSound, ContextsSound, RollbacksSound, LocksHeld, y

LEMMA ExitKeepsInv ==
  ASSUME TransactionInv, NEW p \in Threads, InBlock(p),
         NEW op \in {"reset", "commit", "rollback"}, Exit(p, op)
  PROVE  TransactionInv'
<1> DEFINE b == blocks[p]
           n == Len(b) - 1
           d == SubSeq(b, 1, n)
           t == Innermost(p)
           c == Call("reset", t)
           r == IF op = "reset" THEN <<c>> ELSE <<c, Call(op, t)>>
<1>1. /\ TypeOK /\ Family(txn) /\ calls[p] = <<>> /\ Idle(p) /\ b # <<>> /\ b \in Seq(Ids)
  BY DEF InBlock, Idle, TransactionInv, TypeOK
<1>2. /\ txn' = txn /\ active' = active /\ store' = store /\ locks' = locks
      /\ blocks' = [blocks EXCEPT ![p] = d] /\ calls' = [calls EXCEPT ![p] = r]
  BY DEF Exit
<1>3. Len(b) \in Nat \ {0} /\ DOMAIN b = 1..Len(b) /\ t = b[Len(b)] /\ Len(b) \in DOMAIN b
  <2>1. Len(b) \in Nat \ {0} /\ DOMAIN b = 1..Len(b)
    BY <1>1, EmptySeq, LenProperties
  <2> QED BY <2>1 DEF Innermost
<1>4. Context(txn, p, b, active[p], calls[p])
  BY DEF TransactionInv, ContextsSound
<1>5. Of(txn, p, t) /\ ~Adopted(txn, t) /\ Waiting(txn, txn[t].parent) /\ t \in Ids
  BY <1>1, <1>3, <1>4, Typed DEF Context, Of
<1>6. \A i \in 1..Len(b) : b[i] \in Ids
  BY <1>1, ElementOfSeq
<1>7. d \in Seq(Ids) /\ Len(d) = n /\ DOMAIN d = 1..n /\ \A i \in 1..n : d[i] = b[i]
  <2>1. n \in Nat /\ \A i \in 1..n : i \in 1..Len(b)
    BY <1>3
  <2> HIDE DEF n
  <2>2. \A i \in 1..n : b[i] \in Ids
    BY <1>6, <2>1
  <2>3. n \in Int /\ 1 \in Int
    BY <2>1
  <2>4. /\ SubSeq(b, 1, n) \in Seq(Ids)
        /\ Len(SubSeq(b, 1, n)) = IF 1 <= n THEN n - 1 + 1 ELSE 0
        /\ \A i \in 1..n - 1 + 1 : SubSeq(b, 1, n)[i] = b[1 + i - 1]
    BY <2>2, <2>3, SubSeqProperties
  <2>5. Len(SubSeq(b, 1, n)) = n /\ \A i \in 1..n : SubSeq(b, 1, n)[i] = b[i]
    BY <2>1, <2>4
  <2>6. DOMAIN SubSeq(b, 1, n) = 1..n
    BY <2>4, <2>5, LenProperties
  <2> QED BY <2>4, <2>5, <2>6
<1>8. \A i \in DOMAIN d : i \in DOMAIN b /\ d[i] = b[i] /\ i < Len(b)
  BY <1>3, <1>7
<1> HIDE DEF d, n
<1>9. /\ c \in Calls /\ c.op = "reset" /\ c.txn = t
      /\ Call(op, t) \in {q \in Calls : q.op = op /\ q.txn = t} \/ op = "reset"
  BY <1>5 DEF Call, Calls
<1>10. Stack(txn, p, r)
  <2>1. CASE op = "reset"
    <3>1. r = <<c>>
      BY <2>1
    <3> HIDE DEF c, r
    <3>2. r \in Seq(Calls) /\ Len(r) = 1 /\ r[1] = c
      BY <1>9, <3>1
    <3>3. \A top \in BOOLEAN : Sound(txn, c, top)
      BY <1>9 DEF Sound
    <3>4. \A i \in 1..Len(r) : i = 1 /\ r[i] = c
      BY <3>2
    <3>5. \A i \in 1..Len(r) : Of(txn, p, r[i].txn) /\ Sound(txn, r[i], i = Len(r))
      BY <1>5, <1>9, <3>3, <3>4
    <3> QED BY <1>9, <3>2, <3>4, <3>5 DEF Stack
  <2>2. CASE op # "reset"
    <3> DEFINE e == Call(op, t)
    <3>1. r = <<c, e>> /\ e \in Calls /\ e.op = op /\ e.txn = t
      BY <1>9, <2>2
    <3> HIDE DEF c, e, r
    <3>2. r \in Seq(Calls) /\ Len(r) = 2 /\ r[1] = c /\ r[2] = e
      BY <1>9, <3>1
    <3>3. \A top \in BOOLEAN : Sound(txn, c, top) /\ Sound(txn, e, top)
      BY <1>9, <3>1 DEF Sound
    <3>4. \A i \in 1..Len(r) : (i = 1 /\ r[i] = c) \/ (i = 2 /\ r[i] = e)
      BY <3>2
    <3>5. \A i \in 1..Len(r) : Of(txn, p, r[i].txn) /\ Sound(txn, r[i], i = Len(r))
      BY <1>5, <1>9, <3>1, <3>3, <3>4
    <3>6. \A i \in 1..Len(r) : r[i].op = "reset" => i = 1
      BY <2>2, <3>1, <3>4
    <3>7. \A i, j \in 1..Len(r) : i < j /\ r[i].op # "reset" => r[i].txn < r[j].txn
      BY <1>9, <3>2, <3>4
    <3>8. \A i \in 1..Len(r) : i # Len(r) => Link(txn, r[i], r[i + 1])
      <4>1. Link(txn, c, e)
        BY <1>9, <3>1 DEF Link
      <4>2. \A i \in 1..Len(r) : i # Len(r) => i = 1 /\ i + 1 = 2
        BY <3>2
      <4> QED BY <3>2, <4>1, <4>2
    <3> QED BY <1>9, <3>2, <3>5, <3>6, <3>7, <3>8 DEF Stack
  <2> QED BY <2>1, <2>2
<1>11. r \in Seq(Calls) /\ Len(r) > 0 /\ r[1] = c
  BY <1>9
<1>12. Context(txn, p, d, active[p], r)
  <2>1. active[p] # None => /\ Of(txn, p, active[p]) /\ ~Adopted(txn, active[p])
                            /\ ~Made(txn, active[p])
    BY <1>1, IdleThread
  <2>2. \A i \in DOMAIN d : Of(txn, p, d[i]) /\ ~Adopted(txn, d[i]) /\ Waiting(txn, txn[d[i]].parent)
    BY <1>4, <1>8 DEF Context
  <2>3. \A i, j \in DOMAIN d : i < j => d[i] < d[j]
    BY <1>4, <1>8 DEF Context
  <2>4. \A i \in DOMAIN d : d[i] < t
    BY <1>3, <1>4, <1>8 DEF Context
  <2> HIDE DEF c, r
  <2> QED BY <1>5, <1>9, <1>11, <2>1, <2>2, <2>3, <2>4 DEF Context
<1> HIDE DEF r, c, t
<1>13. /\ blocks'[p] = d /\ calls'[p] = r
       /\ \A q \in Threads \ {p} : blocks'[q] = blocks[q] /\ calls'[q] = calls[q]
  BY <1>1, <1>2 DEF TypeOK
<1>14. TypeOK'
  BY <1>1, <1>2, <1>7, <1>11 DEF TypeOK
<1>15. ASSUME NEW q \in Threads
       PROVE  Stack(txn, q, calls'[q]) /\ Context(txn, q, blocks'[q], active[q], calls'[q])
  <2>1. CASE q = p
    BY <1>10, <1>12, <1>13, <2>1
  <2>2. CASE q # p
    BY <1>13, <2>2 DEF TransactionInv, StacksSound, ContextsSound
  <2> QED BY <2>1, <2>2
<1>16. ASSUME NEW u \in DOMAIN txn PROVE RolledBack(txn, calls'[txn[u].thread], u)
  <2>1. RolledBack(txn, calls[txn[u].thread], u) /\ txn[u].thread \in Threads
    BY <1>1, Typed DEF TransactionInv, RollbacksSound, Txns
  <2>2. CASE txn[u].thread = p
    <3>1. txn[u].state = "ROLLED_BACK" => txn[u].undone
      BY <1>1, <2>2, IdleThread DEF Of
    <3> QED BY <2>1, <3>1 DEF RolledBack
  <2>3. CASE txn[u].thread # p
    BY <1>13, <2>1, <2>3
  <2> QED BY <2>2, <2>3
<1>17. LocksHeld' /\ OwedRecorded' /\ UndoneNotWritten' /\ ChildrenSettled'
  BY <1>2 DEF TransactionInv, LocksHeld, OwedRecorded, UndoneNotWritten, ChildrenSettled
<1> QED BY <1>1, <1>2, <1>14, <1>15, <1>16, <1>17
    DEF TransactionInv, StacksSound, ContextsSound, RollbacksSound

LEMMA ResetKeepsInv ==
  ASSUME TransactionInv, NEW p \in Threads, Reset(p)
  PROVE  TransactionInv'
<1> DEFINE x == txn
           y == txn'
           s == calls[p]
           b == blocks[p]
           t == Top(s).txn
           q == x[t].parent
           v == [x[q] EXCEPT !.children = Append(@, t)]
           c == Call("rollback", q)
           r == IF q # None /\ x[t].state = "ROLLED_BACK" THEN <<c>> ELSE <<>>
<1>1. /\ s # <<>> /\ Top(s).op = "reset"
      /\ y = (IF q = None THEN x ELSE [x EXCEPT ![q].children = Append(@, t)])
      /\ active' = [active EXCEPT ![p] = q] /\ calls' = [calls EXCEPT ![p] = r]
      /\ blocks' = blocks /\ store' = store /\ locks' = locks
  BY DEF Reset, In, Current
<1>2. /\ TypeOK /\ Family(x) /\ Context(x, p, b, active[p], s)
  BY DEF TransactionInv, ContextsSound
<1>3. /\ s \in Seq(Calls) /\ Len(s) = 1 /\ s[1] = Top(s) /\ Of(x, p, t) /\ t \in DOMAIN x
  <2>1. /\ s \in Seq(Calls) /\ Top(s) = s[Len(s)] /\ Of(x, p, t) /\ t \in DOMAIN x
        /\ Top(s).op = "reset" => Len(s) = 1
    BY <1>1, TopCall
  <2> QED BY <1>1, <2>1
<1>4. \A u : ~Undoing(s, u)
  <2>1. \A i \in 1..Len(s) : i = 1
    BY <1>3
  <2>2. s[1].op = "reset"
    BY <1>1, <1>3
  <2> QED BY <2>1, <2>2 DEF Undoing
<1>5. ~Adopted(x, t) /\ Waiting(x, q) /\ \A i \in DOMAIN b : b[i] < t
  <2>1. Len(s) > 0 /\ s[1].op = "reset"
    BY <1>1, <1>3
  <2> QED BY <1>2, <1>3, <2>1 DEF Context
<1>6. q # None => Of(x, p, q) /\ q \in DOMAIN x /\ q < t /\ q # t
  <2>1. q # None => Of(x, x[t].thread, q) /\ q < t
    BY <1>2, <1>3, Relatives
  <2>2. t \in Nat /\ (q # None => q \in DOMAIN x)
    BY <1>2, <1>3, <2>1, Typed DEF Of
  <2>3. q # None => q \in Nat
    BY <1>2, <2>2, Typed
  <2>4. q # None /\ q < t => q # t
    BY <2>2, <2>3
  <2> QED BY <1>3, <2>1, <2>2, <2>4 DEF Of
<1>7. None \notin DOMAIN x /\ t \in Ids /\ x[t] \in Txns /\ q \in Ids \cup {None}
  BY <1>2, <1>3, Typed DEF Txns
<1>8. /\ y \in Seq(Txns) /\ DOMAIN y = DOMAIN x /\ Len(y) = Len(x)
      /\ \A u \in DOMAIN x \ {q} : y[u] = x[u]
      /\ q # None => y[q] = v
  <2>1. CASE q = None
    BY <1>1, <1>2, <2>1, Typed
  <2>2. CASE q # None
    <3>1. x[q] \in Txns /\ x[q].children \in Seq(Ids)
      BY <1>2, <1>6, <2>2, Typed DEF Kids
    <3>2. Append(x[q].children, t) \in Seq(Ids)
      BY <1>7, <3>1, AppendProperties
    <3>3. v \in Txns
      BY <3>1, <3>2 DEF Txns
    <3>4. y = [x EXCEPT ![q] = v]
      BY <1>1, <1>6, <2>2
    <3> HIDE DEF v, y
    <3>5. q \in DOMAIN txn
      BY <1>6, <2>2
    <3> HIDE DEF q
    <3> QED BY <1>2, <3>3, <3>4, <3>5, Replace
  <2> QED BY <2>1, <2>2
<1> HIDE DEF y
<1>9. \A u \in DOMAIN x : /\ y[u].key = x[u].key /\ y[u].thread = x[u].thread
                          /\ y[u].found = x[u].found /\ y[u].parent = x[u].parent
                          /\ y[u].state = x[u].state /\ y[u].value = x[u].value
                          /\ y[u].undone = x[u].undone /\ y[u].writes = x[u].writes
  <2> SUFFICES ASSUME NEW u \in DOMAIN x
               PROVE  /\ y[u].key = x[u].key /\ y[u].thread = x[u].thread
                      /\ y[u].found = x[u].found /\ y[u].parent = x[u].parent
                      /\ y[u].state = x[u].state /\ y[u].value = x[u].value
                      /\ y[u].undone = x[u].undone /\ y[u].writes = x[u].writes
    OBVIOUS
  <2>1. x[u] \in Txns
    BY <1>2, Typed
  <2>2. CASE u # q
    BY <1>8, <2>2
  <2>3. CASE u = q
    <3>1. y[u] = [x[u] EXCEPT !.children = Append(@, t)]
      BY <1>7, <1>8, <2>3
    <3> HIDE DEF t, q
    <3> QED BY <2>1, <3>1 DEF Txns
  <2> QED BY <2>2, <2>3
<1>10. \A u \in DOMAIN x \ {q} : Kids(y, u) = Kids(x, u)
  BY <1>8 DEF Kids
<1>11. q # None => Kids(y, q) = Append(Kids(x, q), t)
  <2>1. q # None => x[q] \in Txns
    BY <1>2, <1>6, Typed
  <2>2. q # None => y[q] = v
    BY <1>8
  <2> HIDE DEF q, t
  <2> QED BY <2>1, <2>2 DEF Kids, Txns
<1>12. q # None => /\ \A i \in DOMAIN Kids(x, q) :
                        i \in DOMAIN Kids(y, q) /\ Kids(y, q)[i] = Kids(x, q)[i]
                   /\ \A i \in DOMAIN Kids(y, q) :
                        (i \in DOMAIN Kids(x, q) /\ Kids(y, q)[i] = Kids(x, q)[i])
                        \/ Kids(y, q)[i] = t
                   /\ \E i \in DOMAIN Kids(y, q) : Kids(y, q)[i] = t
  <2> SUFFICES ASSUME q # None
               PROVE  /\ \A i \in DOMAIN Kids(x, q) :
                           i \in DOMAIN Kids(y, q) /\ Kids(y, q)[i] = Kids(x, q)[i]
                      /\ \A i \in DOMAIN Kids(y, q) :
                           (i \in DOMAIN Kids(x, q) /\ Kids(y, q)[i] = Kids(x, q)[i])
                           \/ Kids(y, q)[i] = t
                      /\ \E i \in DOMAIN Kids(y, q) : Kids(y, q)[i] = t
    OBVIOUS
  <2>1. /\ Kids(x, q) \in Seq(Ids) /\ DOMAIN Kids(x, q) = 1..Len(Kids(x, q))
        /\ Len(Kids(x, q)) \in Nat /\ Kids(y, q) = Append(Kids(x, q), t)
    BY <1>2, <1>6, <1>11, Typed
  <2> DEFINE k == Kids(x, q)
             l == Kids(y, q)
             m == Len(Kids(x, q))
  <2>2. /\ l \in Seq(Ids) /\ Len(l) = m + 1 /\ l[m + 1] = t
        /\ \A i \in 1..m : l[i] = k[i]
    BY <1>7, <2>1, AppendProperties
  <2>3. DOMAIN l = 1..(m + 1) /\ DOMAIN k = 1..m /\ m \in Nat
    BY <2>1, <2>2, LenProperties
  <2> HIDE DEF m, k, l
  <2>4. /\ \A i \in DOMAIN k : i \in DOMAIN l /\ l[i] = k[i]
        /\ \A i \in DOMAIN l : (i \in DOMAIN k /\ l[i] = k[i]) \/ l[i] = t
        /\ \E i \in DOMAIN l : l[i] = t
    BY <2>2, <2>3
  <2> QED BY <2>4 DEF k, l
<1>13. \A u : Adopted(y, u) <=> Adopted(x, u) \/ (q # None /\ u = t)
  <2>1. ASSUME NEW u, Adopted(x, u) PROVE Adopted(y, u)
    <3>0. PICK w \in DOMAIN x : \E i \in DOMAIN Kids(x, w) : Kids(x, w)[i] = u
      BY <2>1 DEF Adopted
    <3>1. PICK i \in DOMAIN Kids(x, w) : Kids(x, w)[i] = u
      BY <3>0
    <3>2. i \in DOMAIN Kids(y, w) /\ Kids(y, w)[i] = u
      <4>1. CASE w = q
        <5>1. q # None
          BY <1>7, <4>1
        <5> HIDE DEF q
        <5> QED BY <1>12, <3>1, <4>1, <5>1
      <4>2. CASE w # q
        BY <1>10, <3>1, <4>2
      <4> QED BY <4>1, <4>2
    <3>3. w \in DOMAIN y
      BY <1>8
    <3> QED BY <3>2, <3>3 DEF Adopted
  <2>2. ASSUME q # None PROVE Adopted(y, t)
    BY <1>6, <1>8, <1>12, <2>2 DEF Adopted
  <2>3. ASSUME NEW u, Adopted(y, u), u # t PROVE Adopted(x, u)
    <3>0. PICK w \in DOMAIN y : \E i \in DOMAIN Kids(y, w) : Kids(y, w)[i] = u
      BY <2>3 DEF Adopted
    <3>1. PICK i \in DOMAIN Kids(y, w) : Kids(y, w)[i] = u
      BY <3>0
    <3>2. i \in DOMAIN Kids(x, w) /\ Kids(x, w)[i] = u
      <4>1. CASE w = q
        <5>1. q # None
          BY <1>7, <1>8, <4>1
        <5> HIDE DEF q, t
        <5> QED BY <1>12, <2>3, <3>1, <4>1, <5>1
      <4>2. CASE w # q
        BY <1>8, <1>10, <3>1, <4>2
      <4> QED BY <4>1, <4>2
    <3>3. w \in DOMAIN x
      BY <1>8
    <3> QED BY <3>2, <3>3 DEF Adopted
  <2>4. ASSUME q = None, Adopted(y, t) PROVE Adopted(x, t)
    BY <1>7, <1>8, <1>10, <2>4 DEF Adopted
  <2> QED BY <2>1, <2>2, <2>3, <2>4
<1>14. /\ \A u \in DOMAIN x : (Over(y, u) <=> Over(x, u)) /\ (Made(y, u) <=> Made(x, u))
       /\ \A w, u : Of(y, w, u) <=> Of(x, w, u)
  BY <1>8, <1>9 DEF Over, Made, Final, Of
<1> HIDE DEF r, t, q
<1>15. r \in Seq(Calls) /\ Stack(y, p, r) /\ ~(Len(r) > 0 /\ r[1].op = "reset")
  <2>1. CASE r = <<>>
    <3>1. Len(r) = 0 /\ r \in Seq(Calls)
      BY <2>1, EmptySeq
    <3> QED BY <3>1 DEF Stack
  <2>2. CASE r # <<>>
    <3>1. r = <<c>> /\ q # None
      BY <2>2 DEF r
    <3>2. c \in Calls /\ c.op = "rollback" /\ c.txn = q
      BY <1>7, <3>1 DEF Call, Calls
    <3> HIDE DEF c
    <3>3. r \in Seq(Calls) /\ Len(r) = 1 /\ r[1] = c
      BY <3>1, <3>2
    <3>4. \A i \in 1..Len(r) : i = 1 /\ r[i] = c
      BY <3>3
    <3>5. Of(y, p, q) /\ \A top \in BOOLEAN : Sound(y, c, top)
      BY <1>6, <1>14, <3>1, <3>2 DEF Sound
    <3>6. \A i \in 1..Len(r) : Of(y, p, r[i].txn) /\ Sound(y, r[i], i = Len(r))
      BY <3>2, <3>4, <3>5
    <3> QED BY <3>2, <3>3, <3>4, <3>6 DEF Stack
  <2> QED BY <2>1, <2>2
<1>16. Context(y, p, b, q, r)
  <2>1. \A i \in DOMAIN b : Of(x, p, b[i]) /\ ~Adopted(x, b[i]) /\ Waiting(x, x[b[i]].parent)
    BY <1>2 DEF Context
  <2>2. \A i, j \in DOMAIN b : i < j => b[i] < b[j]
    BY <1>2 DEF Context
  <2>3. q # None => Of(y, p, q) /\ ~Adopted(y, q) /\ ~Made(y, q)
    BY <1>5, <1>6, <1>13, <1>14 DEF Waiting
  <2>4. ASSUME NEW i \in DOMAIN b
        PROVE  Of(y, p, b[i]) /\ ~Adopted(y, b[i]) /\ Waiting(y, y[b[i]].parent)
    <3> DEFINE u == b[i]
               w == x[u].parent
    <3>1. u \in DOMAIN x /\ u < t /\ Waiting(x, w) /\ y[u].parent = w
      BY <1>5, <1>9, <2>1 DEF Of
    <3>2. w # None => w \in DOMAIN x /\ w < u
      BY <1>2, <3>1, Relatives DEF Of
    <3>3. u \in Nat /\ t \in Nat /\ (w # None => w \in Nat)
      BY <1>2, <1>3, <3>1, <3>2, Typed
    <3>4. u # t
      BY <3>1, <3>3
    <3>5. w # None => w # t
      BY <3>1, <3>2, <3>3
    <3>6. Waiting(y, w)
      BY <1>13, <1>14, <3>1, <3>2, <3>5 DEF Waiting
    <3> QED BY <1>13, <1>14, <2>1, <3>1, <3>4, <3>6
  <2> QED BY <1>15, <2>2, <2>3, <2>4 DEF Context
<1>17. /\ calls'[p] = r /\ active'[p] = q
       /\ \A w \in Threads \ {p} : calls'[w] = calls[w] /\ active'[w] = active[w]
  BY <1>1, <1>2 DEF TypeOK
<1>18. TypeOK'
  BY <1>1, <1>2, <1>7, <1>8, <1>15 DEF TypeOK, y
<1>19. Family(y)
  <2> SUFFICES ASSUME NEW u \in DOMAIN y
               PROVE  /\ y[u].parent # None =>
                           Of(y, y[u].thread, y[u].parent) /\ y[u].parent < u
                      /\ \A i \in DOMAIN Kids(y, u) :
                           /\ Kids(y, u)[i] \in DOMAIN y
                           /\ y[Kids(y, u)[i]].parent = u
    BY DEF Family
  <2>1. u \in DOMAIN x /\ y[u].parent = x[u].parent /\ y[u].thread = x[u].thread
    BY <1>8, <1>9
  <2>2. x[u].parent # None => Of(y, x[u].thread, x[u].parent) /\ x[u].parent < u
    BY <1>2, <1>14, <2>1 DEF Family
  <2>3. \A i \in DOMAIN Kids(x, u) : Kids(x, u)[i] \in DOMAIN x /\ x[Kids(x, u)[i]].parent = u
    BY <1>2, <2>1 DEF Family
  <2>4. \A i \in DOMAIN Kids(y, u) : Kids(y, u)[i] \in DOMAIN x /\ x[Kids(y, u)[i]].parent = u
    <3>1. CASE u = q
      <4>1. x[t].parent = q
        BY DEF q
      <4>2. q # None
        BY <1>7, <2>1, <3>1
      <4> QED BY <1>3, <1>12, <2>3, <3>1, <4>1, <4>2
    <3>2. CASE u # q
      BY <1>10, <2>1, <2>3, <3>2
    <3> QED BY <3>1, <3>2
  <2> QED BY <1>8, <1>9, <2>1, <2>2, <2>4
<1>20. ASSUME NEW w \in Threads
       PROVE  Stack(y, w, calls'[w]) /\ Context(y, w, blocks'[w], active'[w], calls'[w])
  <2>1. CASE w # p
    <3>1. \A u \in DOMAIN x : x[u].thread # p => u \in DOMAIN y /\ y[u] = x[u]
      BY <1>6, <1>7, <1>8 DEF Of
    <3>2. \A u \in DOMAIN x : x[u].thread # p /\ Adopted(y, u) => Adopted(x, u)
      BY <1>3, <1>13 DEF Of
    <3>3. Stack(y, w, calls[w]) /\ Context(y, w, blocks[w], active[w], calls[w])
      BY <2>1, <3>1, <3>2, OthersStep
    <3> QED BY <1>1, <1>17, <2>1, <3>3
  <2>2. CASE w = p
    BY <1>1, <1>15, <1>16, <1>17, <2>2
  <2> QED BY <2>1, <2>2
<1>21. ASSUME NEW u \in DOMAIN y PROVE RolledBack(y, calls'[y[u].thread], u)
  <2>1. /\ u \in DOMAIN x /\ RolledBack(x, calls[x[u].thread], u) /\ x[u].thread \in Threads
    BY <1>2, <1>8, Typed DEF TransactionInv, RollbacksSound, Txns
  <2>2. CASE x[u].thread = p
    BY <1>4, <1>9, <2>1, <2>2 DEF RolledBack
  <2>3. CASE x[u].thread # p
    BY <1>9, <1>17, <2>1, <2>3 DEF RolledBack
  <2> QED BY <2>2, <2>3
<1>22. \A u \in DOMAIN y : Holding(y, locks, u)
  BY <1>8, <1>9, <1>14 DEF TransactionInv, LocksHeld, Holding
<1>23. OwedRecorded'
  <2>1. \A u \in DOMAIN y : Owed(y, u) => Owed(x, u)
    BY <1>8, <1>9 DEF Owed
  <2>2. \A u \in DOMAIN y : Owed(y, u) /\ y[u].key # None => store[y[u].key] # "absent"
    BY <1>8, <1>9, <2>1 DEF TransactionInv, OwedRecorded
  <2> QED BY <1>1, <2>2 DEF OwedRecorded, Owed, y
<1>24. UndoneNotWritten'
  BY <1>1 DEF TransactionInv, UndoneNotWritten
<1>25. ChildrenSettled'
  <2> SUFFICES ASSUME NEW u \in DOMAIN y, Made(y, u), NEW i \in DOMAIN y[u].children
               PROVE  Over(y, y[u].children[i])
    BY DEF ChildrenSettled, Made, Over, y
  <2>1. u \in DOMAIN x /\ Made(x, u)
    BY <1>8, <1>14
  <2>2. u # q
    BY <1>5, <1>7, <2>1 DEF Waiting
  <2>3. y[u].children = x[u].children
    BY <1>8, <2>1, <2>2
  <2>4. Over(x, x[u].children[i])
    BY <2>1, <2>3 DEF TransactionInv, ChildrenSettled, Made, Over
  <2>5. x[u].children[i] \in DOMAIN x
    BY <1>2, <2>1, <2>3 DEF Family, Kids
  <2> QED BY <1>14, <2>3, <2>4, <2>5
<1> HIDE DEF b, s
<1> QED BY <1>1, <1>18, <1>19, <1>20, <1>21, <1>22, <1>23, <1>24, <1>25
    DEF TransactionInv, StacksSound, ContextsSound, RollbacksSound, LocksHeld, y

-----------------------------------------------------------------------------
(* Every reachable state *)

LEMMA InitInv == Init => TransactionInv
<1> SUFFICES ASSUME Init PROVE TransactionInv
  OBVIOUS
<1>1. /\ txn = <<>> /\ DOMAIN txn = {} /\ Len(txn) = 0
      /\ \A p \in Threads : blocks[p] = <<>> /\ active[p] = None /\ calls[p] = <<>>
  BY DEF Init
<1>2. TypeOK
  <2>1. /\ txn \in Seq(Txns) /\ <<>> \in Seq(Ids) /\ <<>> \in Seq(Calls)
        /\ Len(txn) <= MaxTransactions
    BY <1>1, EmptySeq, TransactionAssumption
  <2> QED BY <2>1 DEF TypeOK, Init
<1>3. StacksSound
  <2>1. \A p : Stack(txn, p, <<>>)
    BY EmptySeq DEF Stack
  <2> QED BY <1>1, <2>1 DEF StacksSound
<1>4. ContextsSound
  <2>1. Len(<<>>) = 0 /\ DOMAIN <<>> = {}
    OBVIOUS
  <2>2. \A p : Context(txn, p, <<>>, None, <<>>)
    BY <2>1 DEF Context
  <2>3. \A p \in Threads : Context(txn, p, blocks[p], active[p], calls[p])
    BY <1>1, <2>2
  <2> QED BY <2>3 DEF ContextsSound
<1>5. UndoneNotWritten
  BY DEF Init, UndoneNotWritten
<1> QED BY <1>1, <1>2, <1>3, <1>4, <1>5
    DEF TransactionInv, Family, RollbacksSound, LocksHeld, OwedRecorded, ChildrenSettled

LEMMA NextKeepsInv == TransactionInv /\ [Next]_vars => TransactionInv'
<1> SUFFICES ASSUME TransactionInv, [Next]_vars PROVE TransactionInv'
  OBVIOUS
<1>1. CASE Next
  <2>1. PICK p \in Threads :
          \/ Begin(p) \/ Stage(p) \/ Leave(p) \/ Fail(p)
          \/ CommitNext(p) \/ RollbackNext(p) \/ Reset(p)
    BY <1>1 DEF Next
  <2>2. CASE Begin(p)
    BY <2>2, BeginKeepsInv
  <2>3. CASE Stage(p)
    BY <2>3, StageKeepsInv
  <2>4. CASE Leave(p)
    <3>1. InBlock(p) /\ \E op \in {"reset", "commit", "rollback"} : Exit(p, op)
      BY <2>4 DEF Leave
    <3> QED BY <3>1, ExitKeepsInv
  <2>5. CASE Fail(p)
    <3>1. InBlock(p) /\ Exit(p, "rollback")
      BY <2>5 DEF Fail
    <3> QED BY <3>1, ExitKeepsInv
  <2>6. CASE CommitNext(p)
    BY <2>6, CommitSettledKeepsInv, CommitContinues, ChildCalls, CommitWritesKeepsInv DEF CommitNext
  <2>7. CASE RollbackNext(p)
    BY <2>7, RollbackSettledKeepsInv, RollbackRunsHooksKeepsInv, CommitContinues, ChildCalls,
       RollbackReleasesKeepsInv DEF RollbackNext
  <2>8. CASE Reset(p)
    BY <2>8, ResetKeepsInv
  <2> QED BY <2>1, <2>2, <2>3, <2>4, <2>5, <2>6, <2>7, <2>8
<1>2. CASE UNCHANGED vars
  BY <1>2 DEF vars, TransactionInv, TypeOK, StacksSound, ContextsSound, RollbacksSound, LocksHeld,
              OwedRecorded, UndoneNotWritten, ChildrenSettled
<1> QED BY <1>1, <1>2

\* Who has called whom, who has adopted whom and who holds which lock: an
\* invariant of every step.
THEOREM TransactionInvariant == Spec => []TransactionInv
BY InitInv, NextKeepsInv, PTL DEF Spec

\* The records keep their types: no transaction stays PENDING once it has been
\* entered, and what leaves a block are the calls of commit, rollback and reset.
THEOREM TypeCorrect == Spec => []TypeOK
<1>1. TransactionInv => TypeOK
  BY DEF TransactionInv
<1> QED BY <1>1, TransactionInvariant, PTL

\* CommittedHasRecord: a committed transaction that was to write its record, or
\* that found one when it began, has it, whatever failed around it: commit sets
\* the state after the write only, and no record is ever removed.
THEOREM CommittedAlwaysRecorded == Spec => []CommittedHasRecord
<1>1. TransactionInv => CommittedHasRecord
  BY DEF TransactionInv, OwedRecorded, Owed, CommittedHasRecord
<1> QED BY <1>1, TransactionInvariant, PTL

\* A value whose rollback hooks have run is never written, since a transaction
\* that was rolled back is final for every commit that reaches it later.
THEOREM UndoneNeverWritten == Spec => []UndoneNotWritten
<1>1. TransactionInv => UndoneNotWritten
  BY DEF TransactionInv
<1> QED BY <1>1, TransactionInvariant, PTL

\* A parent commits after all its children, however deep they are nested and
\* whichever of them failed: none is left over.
THEOREM ChildrenAlwaysSettled == Spec => []ChildrenSettled
<1>1. TransactionInv => ChildrenSettled
  BY DEF TransactionInv
<1> QED BY <1>1, TransactionInvariant, PTL

\* Two transactions of one key are not under way together: whoever is not over
\* holds the key's lock.
THEOREM OneTransactionPerKey == Spec => []OneAtATime
<1>1. ASSUME TransactionInv, NEW t \in DOMAIN txn, NEW u \in DOMAIN txn,
             txn[t].key # None, txn[t].key = txn[u].key,
             {txn[t].state, txn[u].state} \subseteq {"ACTIVE", "STAGED"},
             ~txn[t].undone, ~txn[u].undone
      PROVE  t = u
  <2>1. ~Over(txn, t) /\ ~Over(txn, u)
    BY <1>1 DEF Over, Final
  <2>2. locks[txn[t].key] = t /\ locks[txn[u].key] = u
    BY <1>1, <2>1 DEF TransactionInv, LocksHeld, Holding
  <2> QED BY <1>1, <2>2
<1>2. TransactionInv => OneAtATime
  BY <1>1 DEF OneAtATime
<1> QED BY <1>2, TransactionInvariant, PTL

\* Only commit writes, and whoever gets there has held the lock of its key
\* since it began, unless a child has rolled it back.
LEMMA OnlyCommitWrites ==
  ASSUME TransactionInv, Next, NEW k \in Keys, store'[k] # store[k]
  PROVE  \E t \in DOMAIN txn :
           /\ txn[t].key = k /\ txn'[t].state = "COMMITTED"
           /\ locks[k] = t \/ txn[t].undone
<1>1. PICK p \in Threads :
        \/ Begin(p) \/ Stage(p) \/ Leave(p) \/ Fail(p)
        \/ CommitNext(p) \/ RollbackNext(p) \/ Reset(p)
  BY DEF Next
<1>2. CommitWrites(p)
  <2>1. ~Begin(p) /\ ~Stage(p) /\ ~Reset(p)
    BY DEF Begin, Stage, Reset
  <2>2. ~Leave(p) /\ ~Fail(p)
    BY DEF Leave, Fail, Exit
  <2>3. /\ ~CommitSettled(p) /\ ~CommitBegins(p) /\ ~CommitChild(p)
        /\ ~CommitStartsWriting(p) /\ ~CommitFails(p)
    BY DEF CommitSettled, CommitBegins, CommitChild, CommitStartsWriting, CommitFails, Continue
  <2>4. ~RollbackNext(p)
    BY DEF RollbackNext, RollbackSettled, RollbackRunsHooks, RollbackHookFails, RollbackChild,
           RollbackReleases, Continue
  <2> QED BY <1>1, <2>1, <2>2, <2>3, <2>4 DEF CommitNext
<1> DEFINE t == Top(calls[p]).txn
<1>3. /\ calls[p] # <<>> /\ Top(calls[p]).op = "writing" /\ Written(t)
      /\ txn' = [txn EXCEPT ![t].state = "COMMITTED"]
  BY <1>2 DEF CommitWrites, In, Current
<1>4. t \in DOMAIN txn /\ ~Final(txn[t]) /\ txn[t] \in Txns
  BY <1>3, TopCall, Typed DEF Sound, TransactionInv
<1>5. txn[t].key = k /\ k # None
  <2>1. store' = [l \in Keys |-> IF Puts(t, l) THEN txn[t].value ELSE store[l]]
    BY <1>3 DEF Written
  <2>2. ~Puts(t, k) => store'[k] = store[k]
    BY <2>1
  <2>3. Puts(t, k) => k = txn[t].key
    BY DEF Puts
  <2> HIDE DEF t
  <2> QED BY <2>2, <2>3, TransactionAssumption
<1>6. txn'[t].state = "COMMITTED"
  BY <1>3, <1>4 DEF Txns
<1>7. locks[k] = t \/ txn[t].undone
  BY <1>4, <1>5 DEF TransactionInv, LocksHeld, Holding, Over
<1> QED BY <1>4, <1>5, <1>6, <1>7

\* A record is written by a transaction with the lock of its key.
THEOREM WritesAlwaysUnderLock == Spec => WritesUnderLock
<1> DEFINE Locked ==
      \A k \in Keys : store'[k] # store[k] =>
        \E t \in DOMAIN txn :
          /\ txn[t].key = k /\ txn'[t].state = "COMMITTED"
          /\ locks[k] = t \/ txn[t].undone
<1>1. TransactionInv /\ [Next]_vars => [Locked]_vars
  BY OnlyCommitWrites
<1> QED BY <1>1, TransactionInvariant, PTL DEF Spec, WritesUnderLock
=============================================================================
