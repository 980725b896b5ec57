---------------------------- MODULE Transactions ----------------------------
(***************************************************************************)
(* Client transactions: threads open nested transactions, stage values in  *)
(* them and leave them normally or by an exception; who takes part in a    *)
(* commit or a rollback, what is written and which locks are held.         *)
(*                                                                         *)
(* A thread that leaves a block has a stack of calls: __exit__ with its    *)
(* reset, and the commits and rollbacks it makes, child by child.  Threads *)
(* interleave between any two of them.  The store's locks are one atomic   *)
(* test and set, as those of FileSystemLockManager.                        *)
(***************************************************************************)
EXTENDS Integers, Sequences

CONSTANTS
  Threads,
  Keys,
  MaxTransactions   \* bound

None == 0

ASSUME TransactionAssumption ==
  /\ None \notin Keys
  /\ MaxTransactions \in Nat

Ids == 1..MaxTransactions

VARIABLES
  txn,      \* the transactions, in the order they were opened
  blocks,   \* the with-blocks a thread is in
  active,   \* its context variable: what get_transaction() returns
  calls,    \* the methods it is in while it leaves a block, the innermost last
  store,    \* the records in the result store
  locks     \* who holds the lock of a key

vars == <<txn, blocks, active, calls, store, locks>>

\* No transaction is left PENDING once it has been entered.
States == {"ACTIVE", "STAGED", "COMMITTED", "ROLLED_BACK"}

\* value is "undone" once rollback hooks have run for it.
Values == {"nothing", "staged", "undone"}

Txns ==
  [state : States, key : Keys \cup {None}, mode : {"EAGER", "LAZY", "OFF"},
   writes : BOOLEAN,   \* it has a key and write_on_commit
   parent : Ids \cup {None}, children : Seq(Ids), value : Values,
   thread : Threads,   \* the one whose context it lives in
   found : BOOLEAN,    \* history: committed when it began
   undone : BOOLEAN]   \* history: a rollback gave up its lock

\* A commit is "committing" once it goes through the children, of which it has
\* called i, and "writing" once the store has let it; a rollback is "undoing"
\* once its hooks are over, with i children left to roll back.
Calls ==
  [op : {"reset", "commit", "committing", "writing", "rollback", "undoing"},
   txn : Ids, i : Nat]

TypeOK ==
  /\ txn \in Seq(Txns) /\ Len(txn) <= MaxTransactions
  /\ blocks \in [Threads -> Seq(Ids)]
  /\ active \in [Threads -> Ids \cup {None}]
  /\ calls \in [Threads -> Seq(Calls)]
  /\ store \in [Keys -> Values \cup {"absent"}]
  /\ locks \in [Keys -> Ids \cup {None}]

-----------------------------------------------------------------------------
(* The stack of a thread, and the locks *)

Call(op, t) == [op |-> op, txn |-> t, i |-> 0]

Top(s) == s[Len(s)]
Returned(s) == SubSeq(s, 1, Len(s) - 1)
Entered(s, c) == Append(Returned(s), c)

\* An error has left the call on top.  A commit rolls back instead, a rollback
\* goes on to its finally clause, and __exit__ ends without its reset.
Raised(s) ==
  LET rest == Returned(s) IN
  IF rest = <<>> THEN <<>>
  ELSE LET caller == Top(rest) IN
       CASE caller.op = "committing" -> Entered(rest, Call("rollback", caller.txn))
         [] caller.op = "undoing" -> Entered(rest, [caller EXCEPT !.i = 0])
         [] caller.op = "reset" -> <<>>

In(p, op) == calls[p] # <<>> /\ Top(calls[p]).op = op
Current(p) == Top(calls[p]).txn

\* FileSystemLockManager.release_lock: whoever releases the lock of another
\* one gets an error; a lock that is gone is none.
Refused(t) == txn[t].key # None /\ locks[txn[t].key] \notin {None, t}

Release(t) ==
  locks' = [k \in Keys |-> IF k = txn[t].key /\ locks[k] = t THEN None ELSE locks[k]]

ReleaseAndReturn(p, t) ==
  /\ Release(t)
  /\ calls' = [calls EXCEPT ![p] = IF Refused(t) THEN Raised(@) ELSE Returned(@)]

\* A call that leaves everything but the stack as it is.
Continue(p, s) ==
  /\ calls' = [calls EXCEPT ![p] = s]
  /\ UNCHANGED <<txn, blocks, active, store, locks>>

-----------------------------------------------------------------------------
(* commit *)

Final(x) == x.state \in {"COMMITTED", "ROLLED_BACK"}

\* Mutant: a rolled back transaction goes on to commit.
Decided(x) == x.state = "COMMITTED"

NothingToCommit(x) == Final(x)

CommitSettled(p) ==
  /\ In(p, "commit") /\ NothingToCommit(txn[Current(p)])
  /\ ReleaseAndReturn(p, Current(p))
  /\ UNCHANGED <<txn, blocks, active, store>>

CommitBegins(p) ==
  /\ In(p, "commit") /\ ~NothingToCommit(txn[Current(p)])
  /\ Continue(p, Entered(calls[p], Call("committing", Current(p))))

\* Mutant: the last child is left out.
ChildrenBut(t) == Len(txn[t].children) - 1

ChildrenToCommit(t) == Len(txn[t].children)

CommitChild(p) ==
  /\ In(p, "committing")
  /\ LET c == Top(calls[p]) IN
     /\ c.i < ChildrenToCommit(c.txn)
     /\ Continue(p, Append(Entered(calls[p], [c EXCEPT !.i = @ + 1]),
                           Call("commit", txn[c.txn].children[c.i + 1])))

ChildrenCommitted(p) ==
  In(p, "committing") /\ Top(calls[p]).i >= ChildrenToCommit(Current(p))

\* persist_result_record refuses a key that another one has locked; it is not
\* called without a key or write_on_commit.
CommitStartsWriting(p) ==
  /\ ChildrenCommitted(p)
  /\ txn[Current(p)].writes => ~Refused(Current(p))
  /\ Continue(p, Entered(calls[p], Call("writing", Current(p))))

\* A hook or the write raises.
CommitFails(p) ==
  /\ ChildrenCommitted(p) \/ In(p, "writing")
  /\ Continue(p, Entered(calls[p], Call("rollback", Current(p))))

\* The record of the key, and no other
Puts(t, k) == txn[t].writes /\ k = txn[t].key

\* Mutant: an error in writing is ignored.
WrittenOrNot(t) ==
  \E failed \in BOOLEAN :
    store' = [k \in Keys |-> IF Puts(t, k) /\ ~failed THEN txn[t].value ELSE store[k]]

Written(t) == store' = [k \in Keys |-> IF Puts(t, k) THEN txn[t].value ELSE store[k]]

\* An error in the release finds the transaction committed and is swallowed.
CommitWrites(p) ==
  /\ In(p, "writing")
  /\ LET t == Current(p) IN
     /\ txn' = [txn EXCEPT ![t].state = "COMMITTED"]
     /\ Written(t)
     /\ Release(t)
  /\ calls' = [calls EXCEPT ![p] = Returned(@)]
  /\ UNCHANGED <<blocks, active>>

-----------------------------------------------------------------------------
(* rollback *)

RollbackSettled(p) ==
  /\ In(p, "rollback") /\ Final(txn[Current(p)])
  /\ Continue(p, Returned(calls[p]))

\* The hooks run, and then the children's, the last one first.
RollbackRunsHooks(p) ==
  /\ In(p, "rollback") /\ ~Final(txn[Current(p)])
  /\ LET t == Current(p) IN
     /\ txn' = [txn EXCEPT ![t].state = "ROLLED_BACK", ![t].value = "undone"]
     /\ calls' = [calls EXCEPT ![p] =
          Entered(@, [op |-> "undoing", txn |-> t, i |-> Len(txn[t].children)])]
  /\ UNCHANGED <<blocks, active, store, locks>>

\* A hook that raises leaves the state and the children as they were.
RollbackHookFails(p) ==
  /\ In(p, "rollback") /\ ~Final(txn[Current(p)])
  /\ Continue(p, Entered(calls[p], Call("undoing", Current(p))))

RollbackChild(p) ==
  /\ In(p, "undoing")
  /\ LET c == Top(calls[p]) IN
     /\ c.i > 0
     /\ Continue(p, Append(Entered(calls[p], [c EXCEPT !.i = @ - 1]),
                           Call("rollback", txn[c.txn].children[c.i])))

\* The finally clause
RollbackReleases(p) ==
  /\ In(p, "undoing") /\ Top(calls[p]).i = 0
  /\ txn' = [txn EXCEPT ![Current(p)].undone = TRUE]
  /\ ReleaseAndReturn(p, Current(p))
  /\ UNCHANGED <<blocks, active, store>>

-----------------------------------------------------------------------------
(* The with-statement *)

Idle(p) == calls[p] = <<>>
InBlock(p) == Idle(p) /\ blocks[p] # <<>>
Innermost(p) == blocks[p][Len(blocks[p])]

\* Mutant: the state is not prepared before begin.
PreparedLate(found) == IF found THEN "COMMITTED" ELSE "PENDING"

\* prepare_transaction, then begin
Prepared(found) == IF found THEN "COMMITTED" ELSE "ACTIVE"

\* Mutant: the holder is the thread.
AcquireByThread(p, k) ==
  \/ locks[k] = None
  \/ \E i \in DOMAIN blocks[p] : blocks[p][i] = locks[k]

\* begin waits as long as the lock is taken.
Acquire(p, k) == locks[k] = None

\* __enter__; the commit mode is given or inherited.  The task engine writes the
\* results of tasks that persist them, and clears write_on_commit before it
\* leaves the block of an attempt that failed: only commit looks at it, so that
\* is as if it had begun without.
Begin(p) ==
  LET t == Len(txn) + 1 IN
  /\ Idle(p) /\ t \in Ids
  /\ \E k \in Keys \cup {None}, mode \in {"EAGER", "LAZY", "OFF"},
        overwrite \in BOOLEAN, writes \in BOOLEAN :
       /\ k # None => Acquire(p, k)
       /\ LET found == k # None /\ ~overwrite /\ store[k] # "absent" IN
          txn' = Append(txn,
            [state |-> Prepared(found), key |-> k, mode |-> mode,
             writes |-> k # None /\ writes, parent |-> active[p], children |-> <<>>,
             value |-> "nothing", thread |-> p, found |-> found, undone |-> FALSE])
       /\ locks' = IF k = None THEN locks ELSE [locks EXCEPT ![k] = t]
  /\ blocks' = [blocks EXCEPT ![p] = Append(@, t)]
  /\ active' = [active EXCEPT ![p] = t]
  /\ UNCHANGED <<calls, store>>

\* stage: also a transaction that was rolled back can stage a value.
Stage(p) ==
  /\ InBlock(p)
  /\ LET t == Innermost(p) IN
     /\ txn[t].state # "COMMITTED"
     /\ txn' = [txn EXCEPT ![t].state = "STAGED", ![t].value = "staged"]
  /\ UNCHANGED <<blocks, active, calls, store, locks>>

\* __exit__ calls op, unless a parent takes over, and then reset.
Exit(p, op) ==
  /\ blocks' = [blocks EXCEPT ![p] = SubSeq(@, 1, Len(@) - 1)]
  /\ calls' = [calls EXCEPT ![p] =
       IF op = "reset" THEN <<Call("reset", Innermost(p))>>
       ELSE <<Call("reset", Innermost(p)), Call(op, Innermost(p))>>]
  /\ UNCHANGED <<txn, active, store, locks>>

Leave(p) ==
  /\ InBlock(p)
  /\ LET x == txn[Innermost(p)] IN
     Exit(p, IF x.mode = "EAGER" THEN "commit"
             ELSE IF x.parent # None THEN "reset"
             ELSE IF x.mode = "OFF" THEN "rollback" ELSE "commit")

\* Whoever surrounds the block catches the exception or fails, too.
Fail(p) == InBlock(p) /\ Exit(p, "rollback")

\* reset: the parent takes over, and is rolled back with its child.
Reset(p) ==
  /\ In(p, "reset")
  /\ LET t == Current(p)
         q == txn[t].parent
     IN
     /\ txn' = IF q = None THEN txn ELSE [txn EXCEPT ![q].children = Append(@, t)]
     /\ active' = [active EXCEPT ![p] = q]
     /\ calls' = [calls EXCEPT ![p] =
          IF q # None /\ txn[t].state = "ROLLED_BACK" THEN <<Call("rollback", q)>> ELSE <<>>]
  /\ UNCHANGED <<blocks, store, locks>>

Init ==
  /\ txn = <<>>
  /\ blocks = [p \in Threads |-> <<>>]
  /\ active = [p \in Threads |-> None]
  /\ calls = [p \in Threads |-> <<>>]
  /\ store = [k \in Keys |-> "absent"]
  /\ locks = [k \in Keys |-> None]

CommitNext(p) ==
  \/ CommitSettled(p) \/ CommitBegins(p) \/ CommitChild(p)
  \/ CommitStartsWriting(p) \/ CommitFails(p) \/ CommitWrites(p)

RollbackNext(p) ==
  \/ RollbackSettled(p) \/ RollbackRunsHooks(p) \/ RollbackHookFails(p)
  \/ RollbackChild(p) \/ RollbackReleases(p)

Next == \E p \in Threads :
  Begin(p) \/ Stage(p) \/ Leave(p) \/ Fail(p) \/ CommitNext(p) \/ RollbackNext(p) \/ Reset(p)

Spec == Init /\ [][Next]_vars

-----------------------------------------------------------------------------
(* Properties *)

\* A transaction that was to write its record, or was committed because it found
\* one, is not COMMITTED without it, even if a hook or the write failed and
\* children had committed before (transactions.py:357).  One without
\* write_on_commit, of a task that does not persist its result, leaves none.
CommittedHasRecord ==
  \A t \in DOMAIN txn :
    /\ txn[t].state = "COMMITTED" /\ txn[t].key # None
    /\ txn[t].writes \/ txn[t].found
    => store[txn[t].key] # "absent"

\* What a transaction had staged when it was rolled back is never written,
\* neither by itself nor by a parent that commits later (transactions.py:332).
UndoneNotWritten == \A k \in Keys : store[k] # "undone"

\* A parent commits after all of its children have been committed or rolled
\* back: none of them is left over with a lock (transactions.py:349).  A child
\* whose rollback hooks raised is over, though it is still STAGED.
ChildrenSettled ==
  \A t \in DOMAIN txn :
    txn[t].state = "COMMITTED" /\ ~txn[t].found =>
      \A i \in DOMAIN txn[t].children :
        LET c == txn[txn[t].children[i]] IN Final(c) \/ c.undone

\* A record is written by a transaction that has the lock of its key since it
\* began, whatever nested, adopted or failed in between; only one that a child
\* rolled back and that went on has no lock (transactions.py:361).
WritesUnderLock ==
  [][\A k \in Keys : store'[k] # store[k] =>
       \E t \in DOMAIN txn :
         /\ txn[t].key = k /\ txn'[t].state = "COMMITTED"
         /\ locks[k] = t \/ txn[t].undone]_vars

\* Two transactions of one key are not under way at the same time, nested ones
\* neither, unless one has been rolled back by a child and gone on without its
\* lock (transactions.py:299).
OneAtATime ==
  \A t, u \in DOMAIN txn :
    /\ txn[t].key # None /\ txn[t].key = txn[u].key
    /\ {txn[t].state, txn[u].state} \subseteq {"ACTIVE", "STAGED"}
    /\ ~txn[t].undone /\ ~txn[u].undone
    => t = u
=============================================================================
