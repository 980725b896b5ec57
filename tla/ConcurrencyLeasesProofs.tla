---------------------- MODULE ConcurrencyLeasesProofs ----------------------
(***************************************************************************)
(* Proofs about ConcurrencyLeases, for any clients, limits and leases:     *)
(* types, that every stored lease can be found by the repossessor, and     *)
(* that slots cover leases and limits hold when the handlers of a lease    *)
(* take turns.                                                             *)
(***************************************************************************)
EXTENDS ConcurrencyLeases, FiniteSetTheorems, Functions, TLAPS

-----------------------------------------------------------------------------
(* Types                                                                    *)

\* A client in a block or on its way out knows its lease.
Known == \A c \in Clients : pc[c] \in {"inside", "releasing"} => lease[c] \in Leases

LEMMA AnsweredTypes ==
  ASSUME TypeOK, Known, NEW l, Answered(l)
  PROVE  /\ pc' \in [Clients -> Places] /\ lease' \in [Clients -> Leases \cup {None}]
         /\ Known'
  BY DEF TypeOK, Known, Answered, Waiting, Places

LEMMA ClientTypes ==
  ASSUME TypeOK, Known, NEW c \in Clients, ClientNext(c)
  PROVE  TypeOK' /\ Known'
<1>1. CASE Acquire(c)
  BY <1>1 DEF Acquire, storage, handlers, TypeOK, Known, Places
<1>2. CASE GiveUp(c)
  BY <1>2 DEF GiveUp, storage, handlers, TypeOK, Known, Places
<1>3. CASE CancelAcquisition(c)
  BY <1>3 DEF CancelAcquisition, storage, handlers, TypeOK, Known, Places
<1>4. CASE RenewLease(c)
  <2>1. lease[c] \in Leases
    BY <1>4 DEF RenewLease, Known
  <2> QED BY <1>4, <2>1 DEF RenewLease, TypeOK, Known, Status
<1>5. CASE Leave(c)
  BY <1>5 DEF Leave, storage, handlers, TypeOK, Known, Places
<1> QED BY <1>1, <1>2, <1>3, <1>4, <1>5 DEF ClientNext

\* What the counters are after the steps of the database
LEMMA CounterTypes ==
  ASSUME TypeOK, NEW ks
  PROVE  \A k \in Limits : Incremented(ks)[k] \in 0..Limit[k] /\ Decremented(ks)[k] \in 0..Limit[k]
<1> TAKE k \in Limits
<1>1. slots[k] \in 0..Limit[k] /\ Limit[k] \in Nat \ {0}
  BY LeasesAssumption DEF TypeOK
<1>2. Incremented(ks)[k] \in 0..Limit[k]
  BY <1>1 DEF Incremented, Room
<1>3. Decremented(ks)[k] \in 0..Limit[k]
  BY <1>1 DEF Decremented
<1> QED BY <1>2, <1>3

LEMMA RequestTypes ==
  ASSUME TypeOK, Known, NEW c \in Clients, RequestNext(c)
  PROVE  TypeOK' /\ Known'
<1>1. CASE BulkIncrementActiveSlots(c)
  BY <1>1, CounterTypes DEF BulkIncrementActiveSlots, storage, TypeOK, Known
<1>2. CASE CreateLease(c)
  BY <1>2 DEF CreateLease, Fresh, TypeOK, Known, Status
<1>3. ASSUME NEW lost \in BOOLEAN, AnswerGrant(c, lost)
      PROVE  TypeOK' /\ Known'
  BY <1>3 DEF AnswerGrant, Granted, TypeOK, Known, Status, Places
<1>4. ASSUME NEW i \in Handlers, ReleaseSlots(c, i)
      PROVE  TypeOK' /\ Known'
  <2>1. release' \in [Leases \X Handlers -> {"none", "decrement", "revoke", "unindex"}]
    BY <1>4 DEF ReleaseSlots, ReadLease, TypeOK
  <2>2. /\ pc' \in [Clients -> Places] /\ lease' \in [Clients -> Leases \cup {None}]
        /\ Known'
    BY <1>4, AnsweredTypes DEF ReleaseSlots, TypeOK, Known
  <2> QED BY <1>4, <2>1, <2>2 DEF ReleaseSlots, storage, TypeOK
<1> QED BY <1>1, <1>2, <1>3, <1>4 DEF RequestNext, GrantNext

LEMMA HandlerTypes ==
  ASSUME TypeOK, Known, NEW l \in Leases, NEW i \in Handlers, HandlerNext(l, i)
  PROVE  TypeOK' /\ Known'
<1>1. CASE BulkDecrementActiveSlots(l, i)
  BY <1>1, CounterTypes DEF BulkDecrementActiveSlots, storage, TypeOK, Known
<1>2. CASE RevokeLease(l, i)
  BY <1>2 DEF RevokeLease, TypeOK, Known, Status
<1>3. ASSUME NEW lost \in BOOLEAN, AnswerRelease(l, i, lost)
      PROVE  TypeOK' /\ Known'
  <2>1. /\ pc' \in [Clients -> Places] /\ lease' \in [Clients -> Leases \cup {None}]
        /\ Known'
    BY <1>3, AnsweredTypes DEF AnswerRelease, TypeOK, Known
  <2> QED BY <1>3, <2>1 DEF AnswerRelease, TypeOK, Status
<1> QED BY <1>1, <1>2, <1>3 DEF HandlerNext

LEMMA StorageTypes ==
  ASSUME TypeOK, Known, NEW l \in Leases, LeaseExpires(l) \/ StorageNext(l)
  PROVE  TypeOK' /\ Known'
<1>1. CASE LeaseExpires(l)
  BY <1>1 DEF LeaseExpires, handlers, TypeOK, Known, Status
<1>2. CASE UpdateExpirationIndex(l)
  BY <1>2 DEF UpdateExpirationIndex, TypeOK, Known, Status
<1>3. CASE EntryExpires(l)
  BY <1>3 DEF EntryExpires, handlers, TypeOK, Known, Status
<1>4. CASE MonitorExpiredLeases(l)
  BY <1>4 DEF MonitorExpiredLeases, TypeOK, Known, Status
<1>5. CASE RevokeExpiredLease(l)
  BY <1>5 DEF RevokeExpiredLease, Unindexed, TypeOK, Known, Status
<1>6. CASE RevokeInTransaction(l)
  BY <1>6 DEF RevokeInTransaction, TypeOK, Known, Status
<1>7. CASE CommitRevocation(l)
  BY <1>7, CounterTypes DEF CommitRevocation, storage, TypeOK, Known
<1> QED BY <1>1, <1>2, <1>3, <1>4, <1>5, <1>6, <1>7 DEF StorageNext

LEMMA NextTypes ==
  ASSUME TypeOK, Known, [Next]_vars
  PROVE  TypeOK' /\ Known'
<1>1. CASE StopServer
  BY <1>1 DEF StopServer, TypeOK, Known, Status
<1>2. CASE UNCHANGED vars
  BY <1>2 DEF vars, storage, handlers, TypeOK, Known
<1> QED BY <1>1, <1>2, ClientTypes, RequestTypes, HandlerTypes, StorageTypes DEF Next

LEMMA TypesAndKnown == Spec => [](TypeOK /\ Known)
<1>1. ASSUME Init
      PROVE  TypeOK /\ Known
  <2>1. \A k \in Limits : slots[k] \in 0..Limit[k]
    BY <1>1, LeasesAssumption DEF Init
  <2>2. release \in [Leases \X Handlers -> {"none", "decrement", "revoke", "unindex"}]
    BY <1>1 DEF Init
  <2> QED BY <1>1, <2>1, <2>2 DEF Init, TypeOK, Known, Places, Status
<1>2. TypeOK /\ Known /\ [Next]_vars => (TypeOK /\ Known)'
  BY NextTypes
<1> QED BY <1>1, <1>2, PTL DEF Spec

\* Every variable keeps its type; no counter leaves 0..limit, although slots
\* are taken and given back by handlers, clients and tasks of their own.
THEOREM TypeCorrect == Spec => []TypeOK
BY TypesAndKnown, PTL

-----------------------------------------------------------------------------
(* Leases can be found                                                      *)

\* A handler removes the entry of a lease only after the lease.
EntryLast == \A l \in Leases, i \in Handlers : release[<<l, i>>] = "unindex" => file[l] = "absent"

LEMMA IndexFrame ==
  ASSUME EntryLast, LeasesIndexed,
         UNCHANGED <<file, index, release, renewing, stopped>>,
         \A c \in Clients, l \in Leases : grant[c] = l => grant'[c] = l
  PROVE  EntryLast' /\ LeasesIndexed'
  BY DEF EntryLast, LeasesIndexed, Interrupted

LEMMA ClientIndex ==
  ASSUME TypeOK, Known, EntryLast, LeasesIndexed, NEW c \in Clients, ClientNext(c)
  PROVE  EntryLast' /\ LeasesIndexed'
<1>1. CASE Acquire(c) \/ GiveUp(c) \/ CancelAcquisition(c) \/ Leave(c)
  BY <1>1, IndexFrame DEF Acquire, GiveUp, CancelAcquisition, Leave, storage, handlers
<1>2. CASE RenewLease(c)
  <2>1. lease[c] \in Leases
    BY <1>2 DEF RenewLease, Known
  <2>2. \A l \in Leases : file'[l] = "absent" <=> file[l] = "absent"
    BY <1>2, <2>1 DEF RenewLease, TypeOK
  <2>3. EntryLast'
    BY <1>2, <2>2 DEF RenewLease, EntryLast
  <2>4. LeasesIndexed'
    BY <1>2, <2>1, <2>2 DEF RenewLease, LeasesIndexed, Interrupted, TypeOK
  <2> QED BY <2>3, <2>4
<1> QED BY <1>1, <1>2 DEF ClientNext

LEMMA RequestIndex ==
  ASSUME TypeOK, Known, EntryLast, LeasesIndexed, NEW c \in Clients, RequestNext(c)
  PROVE  EntryLast' /\ LeasesIndexed'
<1>1. CASE BulkIncrementActiveSlots(c)
  <2>1. \A d \in Clients, l \in Leases : grant[d] = l => grant'[d] = l
    BY <1>1, LeasesAssumption DEF BulkIncrementActiveSlots, TypeOK
  <2> QED BY <1>1, <2>1, IndexFrame DEF BulkIncrementActiveSlots, storage
<1>2. CASE CreateLease(c)
  <2>1. PICK l \in Fresh(Names[c]) :
          file' = [file EXCEPT ![l] = "live"] /\ grant' = [grant EXCEPT ![c] = l]
    BY <1>2 DEF CreateLease
  <2>2. l \in Leases /\ \A i \in Handlers : release[<<l, i>>] = "none"
    BY <2>1 DEF Fresh, Releasing
  <2>3. EntryLast'
    BY <1>2, <2>1, <2>2 DEF CreateLease, EntryLast, TypeOK
  <2>4. \A d \in Clients, k \in Leases : grant[d] = k => grant'[d] = k
    BY <1>2, <2>1, LeasesAssumption DEF CreateLease, TypeOK
  <2>5. grant'[c] = l
    BY <2>1 DEF TypeOK
  <2>6. LeasesIndexed'
    BY <1>2, <2>1, <2>2, <2>4, <2>5 DEF CreateLease, LeasesIndexed, Interrupted, TypeOK
  <2> QED BY <2>3, <2>6
<1>3. ASSUME NEW lost \in BOOLEAN, AnswerGrant(c, lost)
      PROVE  EntryLast' /\ LeasesIndexed'
  <2>1. EntryLast'
    BY <1>3 DEF AnswerGrant, EntryLast
  <2>2. \A d \in Clients, k \in Leases : k # grant[c] /\ grant[d] = k => grant'[d] = k
    BY <1>3 DEF AnswerGrant, TypeOK
  <2>3. LeasesIndexed'
    BY <1>3, <2>2 DEF AnswerGrant, LeasesIndexed, Interrupted, TypeOK
  <2> QED BY <2>1, <2>3
<1>4. ASSUME NEW i \in Handlers, ReleaseSlots(c, i)
      PROVE  EntryLast' /\ LeasesIndexed'
  <2>1. EntryLast'
    BY <1>4 DEF ReleaseSlots, ReadLease, storage, EntryLast, TypeOK
  <2>2. LeasesIndexed'
    BY <1>4 DEF ReleaseSlots, storage, LeasesIndexed, Interrupted
  <2> QED BY <2>1, <2>2
<1> QED BY <1>1, <1>2, <1>3, <1>4 DEF RequestNext, GrantNext

LEMMA HandlerIndex ==
  ASSUME TypeOK, EntryLast, LeasesIndexed, NEW l \in Leases, NEW i \in Handlers,
         HandlerNext(l, i)
  PROVE  EntryLast' /\ LeasesIndexed'
<1>1. CASE BulkDecrementActiveSlots(l, i)
  BY <1>1 DEF BulkDecrementActiveSlots, storage, EntryLast, LeasesIndexed, Interrupted, TypeOK
<1>2. CASE RevokeLease(l, i)
  BY <1>2 DEF RevokeLease, EntryLast, LeasesIndexed, Interrupted, TypeOK
<1>3. ASSUME NEW lost \in BOOLEAN, AnswerRelease(l, i, lost)
      PROVE  EntryLast' /\ LeasesIndexed'
  <2>1. file[l] = "absent"
    BY <1>3 DEF AnswerRelease, EntryLast
  <2> QED BY <1>3, <2>1 DEF AnswerRelease, EntryLast, LeasesIndexed, Interrupted, TypeOK
<1> QED BY <1>1, <1>2, <1>3 DEF HandlerNext

LEMMA StorageIndex ==
  ASSUME TypeOK, EntryLast, LeasesIndexed, NEW l \in Leases,
         LeaseExpires(l) \/ StorageNext(l)
  PROVE  EntryLast' /\ LeasesIndexed'
<1>1. CASE LeaseExpires(l)
  BY <1>1 DEF LeaseExpires, handlers, EntryLast, LeasesIndexed, Interrupted, TypeOK
<1>2. CASE UpdateExpirationIndex(l)
  BY <1>2 DEF UpdateExpirationIndex, EntryLast, LeasesIndexed, Interrupted, TypeOK
<1>3. CASE EntryExpires(l)
  BY <1>3 DEF EntryExpires, handlers, EntryLast, LeasesIndexed, Interrupted, TypeOK
<1>4. CASE MonitorExpiredLeases(l)
  BY <1>4 DEF MonitorExpiredLeases, EntryLast, LeasesIndexed, Interrupted, TypeOK
<1>5. CASE RevokeExpiredLease(l)
  BY <1>5 DEF RevokeExpiredLease, Unindexed, EntryLast, LeasesIndexed, Interrupted, TypeOK
<1>6. CASE RevokeInTransaction(l)
  BY <1>6 DEF RevokeInTransaction, EntryLast, LeasesIndexed, Interrupted, TypeOK
<1>7. CASE CommitRevocation(l)
  BY <1>7, IndexFrame DEF CommitRevocation, storage
<1> QED BY <1>1, <1>2, <1>3, <1>4, <1>5, <1>6, <1>7 DEF StorageNext

\* The repossessor finds every lease that is stored, or a handler is about to
\* see to it: for any number of leases and handlers, and whatever storage
\* steps of renewals, releases and revocations interleave.
THEOREM LeasesAlwaysIndexed == Spec => []LeasesIndexed
<1>1. Init => EntryLast /\ LeasesIndexed
  BY DEF Init, EntryLast, LeasesIndexed
<1>2. ASSUME TypeOK, Known, EntryLast, LeasesIndexed, [Next]_vars
      PROVE  EntryLast' /\ LeasesIndexed'
  <2>1. CASE StopServer
    <3>1. EntryLast'
      BY <2>1 DEF StopServer, EntryLast
    <3>2. CASE Persistent
      BY <2>1, <3>1, <3>2 DEF StopServer, LeasesIndexed, Interrupted
    <3>3. CASE ~Persistent
      BY <2>1, <3>1, <3>3 DEF StopServer, LeasesIndexed
    <3> QED BY <3>1, <3>2, <3>3
  <2>2. CASE UNCHANGED vars
    BY <1>2, <2>2, IndexFrame DEF vars, storage, handlers
  <2> QED BY <1>2, <2>1, <2>2, ClientIndex, RequestIndex, HandlerIndex, StorageIndex DEF Next
<1> QED BY <1>1, <1>2, TypesAndKnown, PTL DEF Spec

-----------------------------------------------------------------------------
(* Handlers of a lease that take turns                                      *)

\* What each of them may rely on after it has read the lease
Turns ==
  /\ EntryLast
  /\ \A l \in Leases : Releasing(l) => revoking[l] = "none"
  /\ \A l \in Leases, i \in Handlers : release[<<l, i>>] = "decrement" => file[l] # "absent"
  /\ \A l \in Leases : revoking[l] = "read" => file[l] # "absent"
  /\ \A l \in Leases : revoking[l] = "revoked" => file[l] = "absent"

LEMMA TurnsFrame ==
  ASSUME Turns, UNCHANGED <<release, revoking>>,
         \A l \in Leases : file'[l] = "absent" <=> file[l] = "absent"
  PROVE  Turns'
  BY DEF Turns, EntryLast, Releasing

LEMMA ClientTurns ==
  ASSUME TypeOK, Known, Turns, NEW c \in Clients, ClientNext(c)
  PROVE  Turns'
<1>1. CASE Acquire(c) \/ GiveUp(c) \/ CancelAcquisition(c) \/ Leave(c)
  BY <1>1, TurnsFrame DEF Acquire, GiveUp, CancelAcquisition, Leave, storage, handlers
<1>2. CASE RenewLease(c)
  <2>1. lease[c] \in Leases
    BY <1>2 DEF RenewLease, Known
  <2>2. \A l \in Leases : file'[l] = "absent" <=> file[l] = "absent"
    BY <1>2, <2>1 DEF RenewLease, TypeOK
  <2> QED BY <1>2, <2>2, TurnsFrame DEF RenewLease
<1> QED BY <1>1, <1>2 DEF ClientNext

LEMMA RequestTurns ==
  ASSUME TypeOK, Known, Turns, ~Overlap, NEW c \in Clients, RequestNext(c)
  PROVE  Turns'
<1>1. CASE BulkIncrementActiveSlots(c) \/ \E lost \in BOOLEAN : AnswerGrant(c, lost)
  BY <1>1, TurnsFrame DEF BulkIncrementActiveSlots, AnswerGrant, storage
<1>2. CASE CreateLease(c)
  <2>1. PICK l \in Fresh(Names[c]) : file' = [file EXCEPT ![l] = "live"]
    BY <1>2 DEF CreateLease
  <2>2. /\ l \in Leases /\ revoking[l] = "none"
        /\ \A i \in Handlers : release[<<l, i>>] = "none"
    BY <2>1 DEF Fresh, Releasing
  <2>3. UNCHANGED <<release, revoking>>
    BY <1>2 DEF CreateLease
  <2> QED BY <2>1, <2>2, <2>3 DEF Turns, EntryLast, Releasing, TypeOK
<1>3. ASSUME NEW i \in Handlers, ReleaseSlots(c, i)
      PROVE  Turns'
  <2> DEFINE l == lease[c]
  <2>1. l \in Leases /\ revoking[l] = "none"
    BY <1>3 DEF ReleaseSlots, Known
  <2>2. release' = [release EXCEPT ![<<l, i>>] = ReadLease(l)]
    BY <1>3 DEF ReleaseSlots
  <2>3. ReadLease(l) = "none" \/ (ReadLease(l) = "decrement" /\ file[l] # "absent")
    BY DEF ReadLease
  <2>4. UNCHANGED <<file, revoking>>
    BY <1>3 DEF ReleaseSlots, storage
  <2> HIDE DEF l
  <2>5. \A k \in Leases, j \in Handlers :
          \/ release'[<<k, j>>] = release[<<k, j>>]
          \/ k = l /\ (release'[<<k, j>>] = "none"
                      \/ (release'[<<k, j>>] = "decrement" /\ file[k] # "absent"))
    BY <2>1, <2>2, <2>3 DEF TypeOK
  <2>6. EntryLast'
    BY <2>4, <2>5 DEF Turns, EntryLast
  <2>7. \A k \in Leases : Releasing(k)' => revoking'[k] = "none"
    BY <2>1, <2>4, <2>5 DEF Turns, Releasing
  <2> QED BY <2>4, <2>5, <2>6, <2>7 DEF Turns
<1> QED BY <1>1, <1>2, <1>3 DEF RequestNext, GrantNext

LEMMA HandlerTurns ==
  ASSUME TypeOK, Turns, ~Overlap, NEW l \in Leases, NEW i \in Handlers, HandlerNext(l, i)
  PROVE  Turns'
<1>0. \A j \in Handlers : j = i
  BY DEF Handlers
<1>1. CASE BulkDecrementActiveSlots(l, i)
  BY <1>0, <1>1 DEF BulkDecrementActiveSlots, storage, Turns, EntryLast, Releasing, TypeOK
<1>2. CASE RevokeLease(l, i)
  BY <1>0, <1>2 DEF RevokeLease, Turns, EntryLast, Releasing, TypeOK
<1>3. ASSUME NEW lost \in BOOLEAN, AnswerRelease(l, i, lost)
      PROVE  Turns'
  BY <1>0, <1>3 DEF AnswerRelease, Turns, EntryLast, Releasing, TypeOK
<1> QED BY <1>1, <1>2, <1>3 DEF HandlerNext

LEMMA StorageTurns ==
  ASSUME TypeOK, Turns, ~Overlap, NEW l \in Leases, LeaseExpires(l) \/ StorageNext(l)
  PROVE  Turns'
<1>1. CASE LeaseExpires(l)
  <2>1. \A k \in Leases : file'[k] = "absent" <=> file[k] = "absent"
    BY <1>1 DEF LeaseExpires, TypeOK
  <2> QED BY <1>1, <2>1, TurnsFrame DEF LeaseExpires, handlers
<1>2. CASE UpdateExpirationIndex(l) \/ EntryExpires(l) \/ MonitorExpiredLeases(l)
  BY <1>2, TurnsFrame DEF UpdateExpirationIndex, EntryExpires, MonitorExpiredLeases, handlers
<1>3. CASE RevokeExpiredLease(l)
  BY <1>3 DEF RevokeExpiredLease, StillExpired, Turns, EntryLast, Releasing, TypeOK
<1>4. CASE RevokeInTransaction(l)
  <2>1. \A i \in Handlers : release[<<l, i>>] = "none"
    BY <1>4 DEF RevokeInTransaction, Turns, Releasing
  <2> QED BY <1>4, <2>1 DEF RevokeInTransaction, Turns, EntryLast, Releasing, TypeOK
<1>5. CASE CommitRevocation(l)
  <2>1. UNCHANGED <<file, release>>
    BY <1>5 DEF CommitRevocation, storage
  <2>2. revoking' = [revoking EXCEPT ![l] = "none"]
    BY <1>5 DEF CommitRevocation
  <2> QED BY <2>1, <2>2 DEF Turns, EntryLast, Releasing, TypeOK
<1> QED BY <1>1, <1>2, <1>3, <1>4, <1>5 DEF StorageNext

LEMMA NextTurns ==
  ASSUME TypeOK, Known, Turns, ~Overlap, [Next]_vars
  PROVE  Turns'
<1>1. CASE StopServer
  BY <1>1 DEF StopServer, Turns, EntryLast, Releasing
<1>2. CASE UNCHANGED vars
  BY <1>2, TurnsFrame DEF vars, storage, handlers
<1> QED BY <1>1, <1>2, ClientTurns, RequestTurns, HandlerTurns, StorageTurns DEF Next

-----------------------------------------------------------------------------
(* Slots cover leases                                                       *)

\* A lease that nobody has begun to give back, or whose slots the repossessor
\* is about to give back
Owes(l) ==
  \/ file[l] # "absent" /\ \A i \in Handlers : release[<<l, i>>] \notin {"revoke", "unindex"}
  \/ revoking[l] = "revoked"

Owed(k) == {l \in Leases : k \in ResourceIds[l] /\ Owes(l)}

Covered == \A k \in Limits : slots[k] >= Cardinality(Owed(k)) + Cardinality(Granting(k))

LEMMA SubsetsFinite ==
  /\ \A S \in SUBSET Leases : IsFiniteSet(S) /\ Cardinality(S) \in Nat
  /\ \A S \in SUBSET Clients : IsFiniteSet(S) /\ Cardinality(S) \in Nat
BY LeasesAssumption, FS_Subset, FS_CardinalityType

LEMMA OneMore ==
  ASSUME NEW S, NEW x, IsFiniteSet(S)
  PROVE  /\ IsFiniteSet(S \cup {x})
         /\ Cardinality(S \cup {x}) \in Nat
         /\ Cardinality(S \cup {x}) <= Cardinality(S) + 1
<1> DEFINE m == Cardinality(S \cup {x})
           n == Cardinality(S)
<1>1. IsFiniteSet(S \cup {x}) /\ (m = n \/ m = n + 1)
  BY FS_AddElement
<1>2. m \in Nat /\ n \in Nat
  BY <1>1, FS_CardinalityType
<1>3. m <= n + 1
  <2> HIDE DEF m, n
  <2> QED BY <1>1, <1>2
<1> QED BY <1>1, <1>2, <1>3

\* Nothing is owed that was not owed, and no slot given out.
LEMMA OwesLess ==
  ASSUME TypeOK, Covered, UNCHANGED slots,
         \A l \in Leases : Owes(l)' => Owes(l),
         \A c \in Clients : grant'[c] = "leasing" => grant[c] = "leasing"
  PROVE  Covered'
<1> SUFFICES ASSUME NEW k \in Limits
             PROVE  slots[k] >= Cardinality(Owed(k)') + Cardinality(Granting(k)')
  BY DEF Covered
<1>1. Owed(k)' \in SUBSET Owed(k) /\ Granting(k)' \in SUBSET Granting(k)
  BY DEF Owed, Granting
<1>2. Owed(k) \in SUBSET Leases /\ Granting(k) \in SUBSET Clients
  BY DEF Owed, Granting
<1>3. Cardinality(Owed(k)') <= Cardinality(Owed(k))
      /\ Cardinality(Granting(k)') <= Cardinality(Granting(k))
  BY <1>1, <1>2, SubsetsFinite, FS_Subset
<1>4. /\ Cardinality(Owed(k)') \in Nat /\ Cardinality(Owed(k)) \in Nat
      /\ Cardinality(Granting(k)') \in Nat /\ Cardinality(Granting(k)) \in Nat
  BY <1>1, <1>2, SubsetsFinite
<1>5. slots[k] \in Int /\ slots[k] >= Cardinality(Owed(k)) + Cardinality(Granting(k))
  BY LeasesAssumption DEF TypeOK, Covered
<1> QED BY <1>3, <1>4, <1>5

\* Slots are taken for all limits of a request or for none.
LEMMA IncrementCovers ==
  ASSUME TypeOK, Covered, NEW c \in Clients, BulkIncrementActiveSlots(c)
  PROVE  Covered'
<1>1. \A l \in Leases : Owes(l)' <=> Owes(l)
  BY DEF BulkIncrementActiveSlots, storage, Owes
<1> SUFFICES ASSUME NEW k \in Limits
             PROVE  slots'[k] >= Cardinality(Owed(k)') + Cardinality(Granting(k)')
  BY DEF Covered
<1>2. Owed(k)' = Owed(k)
  BY <1>1 DEF Owed
<1>3. Owed(k) \in SUBSET Leases /\ Granting(k) \in SUBSET Clients /\ Granting(k)' \in SUBSET Clients
  BY DEF Owed, Granting
<1>4. /\ Cardinality(Owed(k)) \in Nat
      /\ Cardinality(Granting(k)') \in Nat /\ Cardinality(Granting(k)) \in Nat
      /\ IsFiniteSet(Granting(k))
  BY <1>3, SubsetsFinite
<1>5. slots[k] \in Int /\ slots[k] >= Cardinality(Owed(k)) + Cardinality(Granting(k))
  BY LeasesAssumption DEF TypeOK, Covered
<1>6. slots'[k] = slots[k] + (IF k \in Names[c] /\ \A j \in Names[c] : Room(j) THEN 1 ELSE 0)
  BY DEF BulkIncrementActiveSlots, Incremented
<1>7. CASE k \in Names[c] /\ \A j \in Names[c] : Room(j)
  <2>1. Granting(k)' \in SUBSET (Granting(k) \cup {c})
    BY DEF BulkIncrementActiveSlots, Granting, TypeOK
  <2>2. Cardinality(Granting(k)') <= Cardinality(Granting(k) \cup {c})
    BY <1>4, <2>1, FS_AddElement, FS_Subset
  <2>3. /\ Cardinality(Granting(k) \cup {c}) \in Nat
        /\ Cardinality(Granting(k) \cup {c}) <= Cardinality(Granting(k)) + 1
    BY <1>4, OneMore
  <2> QED BY <1>2, <1>4, <1>5, <1>6, <1>7, <2>2, <2>3
<1>8. CASE ~(k \in Names[c] /\ \A j \in Names[c] : Room(j))
  <2>1. Granting(k)' \in SUBSET Granting(k)
    BY <1>8, LeasesAssumption DEF BulkIncrementActiveSlots, Granting, TypeOK
  <2>2. Cardinality(Granting(k)') <= Cardinality(Granting(k))
    BY <1>4, <2>1, FS_Subset
  <2> QED BY <1>2, <1>4, <1>5, <1>6, <1>8, <2>2
<1> QED BY <1>7, <1>8

\* The slots that were taken become those of the lease.
LEMMA CreateCovers ==
  ASSUME TypeOK, Covered, NEW c \in Clients, CreateLease(c)
  PROVE  Covered'
<1>1. PICK l \in Fresh(Names[c]) :
        file' = [file EXCEPT ![l] = "live"] /\ grant' = [grant EXCEPT ![c] = l]
  BY DEF CreateLease
<1>2. l \in Leases /\ ResourceIds[l] = Names[c] /\ l # "leasing"
  BY <1>1, LeasesAssumption DEF Fresh
<1>3. \A n \in Leases : n # l => (Owes(n)' <=> Owes(n))
  BY <1>1 DEF CreateLease, Owes, TypeOK
<1> SUFFICES ASSUME NEW k \in Limits
             PROVE  slots'[k] >= Cardinality(Owed(k)') + Cardinality(Granting(k)')
  BY DEF Covered
<1>4. slots'[k] = slots[k] /\ slots[k] \in Int
      /\ slots[k] >= Cardinality(Owed(k)) + Cardinality(Granting(k))
  BY LeasesAssumption DEF CreateLease, TypeOK, Covered
<1>5. /\ Owed(k) \in SUBSET Leases /\ Owed(k)' \in SUBSET Leases
      /\ Granting(k) \in SUBSET Clients /\ Granting(k)' \in SUBSET Clients
  BY DEF Owed, Granting
<1>6. /\ Cardinality(Owed(k)) \in Nat /\ Cardinality(Owed(k)') \in Nat /\ IsFiniteSet(Owed(k))
      /\ Cardinality(Granting(k)') \in Nat /\ Cardinality(Granting(k)) \in Nat
      /\ IsFiniteSet(Granting(k))
  BY <1>5, SubsetsFinite
<1>7. Granting(k)' = Granting(k) \ {c}
  BY <1>1, <1>2 DEF Granting, TypeOK
<1>8. CASE k \in Names[c]
  <2>1. c \in Granting(k)
    BY <1>8 DEF CreateLease, Granting
  <2>2. Cardinality(Granting(k)') = Cardinality(Granting(k)) - 1
    BY <1>6, <1>7, <2>1, FS_RemoveElement
  <2>3. Owed(k)' \in SUBSET (Owed(k) \cup {l})
    BY <1>3 DEF Owed
  <2>4. /\ IsFiniteSet(Owed(k) \cup {l}) /\ Cardinality(Owed(k) \cup {l}) \in Nat
        /\ Cardinality(Owed(k) \cup {l}) <= Cardinality(Owed(k)) + 1
    BY <1>6, OneMore
  <2>5. Cardinality(Owed(k)') <= Cardinality(Owed(k) \cup {l})
    BY <2>3, <2>4, FS_Subset
  <2> QED BY <1>4, <1>6, <2>2, <2>4, <2>5
<1>9. CASE k \notin Names[c]
  <2>1. Owed(k)' = Owed(k)
    BY <1>2, <1>3, <1>9 DEF Owed
  <2>2. Cardinality(Granting(k)') <= Cardinality(Granting(k))
    BY <1>6, <1>7, FS_Subset
  <2> QED BY <1>4, <1>6, <2>1, <2>2
<1> QED BY <1>8, <1>9

\* The slots of a lease are given back once.
LEMMA DecrementCovers ==
  ASSUME TypeOK, Covered, UNCHANGED grant, NEW l \in Leases,
         slots' = Decremented(ResourceIds[l]), Owes(l), ~Owes(l)',
         \A n \in Leases : n # l => (Owes(n)' <=> Owes(n))
  PROVE  Covered'
<1> SUFFICES ASSUME NEW k \in Limits
             PROVE  slots'[k] >= Cardinality(Owed(k)') + Cardinality(Granting(k)')
  BY DEF Covered
<1>1. slots'[k] = IF k \in ResourceIds[l] /\ slots[k] > 0 THEN slots[k] - 1 ELSE slots[k]
  BY DEF Decremented
<1>2. slots[k] \in Int /\ slots[k] >= Cardinality(Owed(k)) + Cardinality(Granting(k))
  BY LeasesAssumption DEF TypeOK, Covered
<1>3. /\ Owed(k) \in SUBSET Leases /\ Granting(k) \in SUBSET Clients
      /\ Granting(k)' = Granting(k)
  BY DEF Owed, Granting
<1>4. Cardinality(Owed(k)) \in Nat /\ Cardinality(Granting(k)) \in Nat /\ IsFiniteSet(Owed(k))
  BY <1>3, SubsetsFinite
<1>5. CASE k \in ResourceIds[l]
  <2>1. l \in Owed(k) /\ Owed(k)' = Owed(k) \ {l}
    BY <1>5 DEF Owed
  <2>2. Cardinality(Owed(k)') = Cardinality(Owed(k)) - 1
    BY <1>4, <2>1, FS_RemoveElement
  <2> QED BY <1>1, <1>2, <1>3, <1>4, <2>2
<1>6. CASE k \notin ResourceIds[l]
  <2>1. Owed(k)' = Owed(k)
    BY <1>6 DEF Owed
  <2> QED BY <1>1, <1>2, <1>3, <1>6, <2>1
<1> QED BY <1>5, <1>6

LEMMA ClientCovers ==
  ASSUME TypeOK, Known, Covered, NEW c \in Clients, ClientNext(c)
  PROVE  Covered'
<1>1. CASE Acquire(c) \/ GiveUp(c) \/ CancelAcquisition(c) \/ Leave(c)
  <2>1. UNCHANGED <<slots, file, release, revoking, grant>>
    BY <1>1 DEF Acquire, GiveUp, CancelAcquisition, Leave, storage, handlers
  <2> QED BY <2>1, OwesLess DEF Owes
<1>2. CASE RenewLease(c)
  <2>1. lease[c] \in Leases
    BY <1>2 DEF RenewLease, Known
  <2>2. \A l \in Leases : file'[l] = "absent" <=> file[l] = "absent"
    BY <1>2, <2>1 DEF RenewLease, TypeOK
  <2>3. UNCHANGED <<slots, release, revoking, grant>>
    BY <1>2 DEF RenewLease
  <2> QED BY <2>2, <2>3, OwesLess DEF Owes
<1> QED BY <1>1, <1>2 DEF ClientNext

LEMMA RequestCovers ==
  ASSUME TypeOK, Known, Turns, Covered, NEW c \in Clients, RequestNext(c)
  PROVE  Covered'
<1>1. ASSUME NEW lost \in BOOLEAN, AnswerGrant(c, lost)
      PROVE  Covered'
  <2>1. UNCHANGED <<slots, file, release, revoking>>
    BY <1>1 DEF AnswerGrant
  <2>2. \A d \in Clients : grant'[d] = "leasing" => grant[d] = "leasing"
    BY <1>1, LeasesAssumption DEF AnswerGrant, TypeOK
  <2> QED BY <2>1, <2>2, OwesLess DEF Owes
<1>2. ASSUME NEW i \in Handlers, ReleaseSlots(c, i)
      PROVE  Covered'
  <2>1. UNCHANGED <<slots, file, revoking, grant>>
    BY <1>2 DEF ReleaseSlots, storage
  <2>2. /\ release[<<lease[c], i>>] = "none"
        /\ release' = [release EXCEPT ![<<lease[c], i>>] = ReadLease(lease[c])]
    BY <1>2 DEF ReleaseSlots
  <2>3. \A l \in Leases, j \in Handlers :
          release[<<l, j>>] \in {"revoke", "unindex"} => release'[<<l, j>>] = release[<<l, j>>]
    BY <2>2 DEF TypeOK
  <2> QED BY <2>1, <2>3, OwesLess DEF Owes
<1> QED BY <1>1, <1>2, IncrementCovers, CreateCovers DEF RequestNext, GrantNext

LEMMA HandlerCovers ==
  ASSUME TypeOK, Turns, Covered, ~Overlap, NEW l \in Leases, NEW i \in Handlers,
         HandlerNext(l, i)
  PROVE  Covered'
<1>0. \A j \in Handlers : j = i
  BY DEF Handlers
<1>1. CASE BulkDecrementActiveSlots(l, i)
  <2>1. slots' = Decremented(ResourceIds[l]) /\ UNCHANGED <<grant, file, revoking>>
    BY <1>1 DEF BulkDecrementActiveSlots, storage
  <2>2. release[<<l, i>>] = "decrement" /\ release' = [release EXCEPT ![<<l, i>>] = "revoke"]
    BY <1>1 DEF BulkDecrementActiveSlots
  <2>3. file[l] # "absent" /\ revoking[l] = "none"
    BY <2>2 DEF Turns, Releasing
  <2>4. Owes(l) /\ ~Owes(l)'
    BY <1>0, <2>1, <2>2, <2>3 DEF Owes, TypeOK
  <2>5. \A n \in Leases : n # l => (Owes(n)' <=> Owes(n))
    BY <2>1, <2>2 DEF Owes, TypeOK
  <2> QED BY <2>1, <2>4, <2>5, DecrementCovers
<1>2. CASE RevokeLease(l, i)
  <2>1. /\ UNCHANGED <<slots, grant, revoking>>
        /\ file' = [file EXCEPT ![l] = "absent"]
        /\ release' = [release EXCEPT ![<<l, i>>] = "unindex"]
    BY <1>2 DEF RevokeLease
  <2>2. \A n \in Leases : Owes(n)' => Owes(n)
    BY <2>1 DEF Owes, TypeOK
  <2> QED BY <2>1, <2>2, OwesLess
<1>3. ASSUME NEW lost \in BOOLEAN, AnswerRelease(l, i, lost)
      PROVE  Covered'
  <2>1. /\ UNCHANGED <<slots, grant, revoking, file>>
        /\ release' = [release EXCEPT ![<<l, i>>] = "none"]
        /\ file[l] = "absent"
    BY <1>3 DEF AnswerRelease, Turns, EntryLast
  <2>2. \A n \in Leases : Owes(n)' => Owes(n)
    BY <2>1 DEF Owes, TypeOK
  <2> QED BY <2>1, <2>2, OwesLess
<1> QED BY <1>1, <1>2, <1>3 DEF HandlerNext

LEMMA StorageCovers ==
  ASSUME TypeOK, Turns, Covered, NEW l \in Leases, LeaseExpires(l) \/ StorageNext(l)
  PROVE  Covered'
<1>1. CASE LeaseExpires(l)
  <2>1. \A k \in Leases : file'[k] = "absent" <=> file[k] = "absent"
    BY <1>1 DEF LeaseExpires, TypeOK
  <2> QED BY <1>1, <2>1, OwesLess DEF LeaseExpires, handlers, Owes
<1>2. CASE UpdateExpirationIndex(l) \/ EntryExpires(l) \/ MonitorExpiredLeases(l)
  <2>1. UNCHANGED <<slots, file, release, revoking, grant>>
    BY <1>2 DEF UpdateExpirationIndex, EntryExpires, MonitorExpiredLeases, handlers
  <2> QED BY <2>1, OwesLess DEF Owes
<1>3. CASE RevokeExpiredLease(l)
  <2>1. /\ UNCHANGED <<slots, file, release, grant>>
        /\ \A n \in Leases : revoking'[n] = "revoked" => revoking[n] = "revoked"
    BY <1>3 DEF RevokeExpiredLease, TypeOK
  <2> QED BY <2>1, OwesLess DEF Owes
<1>4. CASE RevokeInTransaction(l)
  <2>1. /\ UNCHANGED <<slots, release, grant>>
        /\ file' = [file EXCEPT ![l] = "absent"]
        /\ revoking' = [revoking EXCEPT ![l] = "revoked"]
    BY <1>4 DEF RevokeInTransaction
  <2>2. Owes(l)
    BY <1>4 DEF RevokeInTransaction, Turns, Releasing, Owes
  <2>3. \A n \in Leases : Owes(n)' => Owes(n)
    BY <2>1, <2>2 DEF Owes, TypeOK
  <2> QED BY <2>1, <2>3, OwesLess
<1>5. CASE CommitRevocation(l)
  <2>1. /\ slots' = Decremented(ResourceIds[l]) /\ UNCHANGED <<grant, file, release>>
        /\ revoking' = [revoking EXCEPT ![l] = "none"] /\ revoking[l] = "revoked"
    BY <1>5 DEF CommitRevocation, storage
  <2>2. file[l] = "absent"
    BY <2>1 DEF Turns
  <2>3. Owes(l) /\ ~Owes(l)'
    BY <2>1, <2>2 DEF Owes, TypeOK
  <2>4. \A n \in Leases : n # l => (Owes(n)' <=> Owes(n))
    BY <2>1 DEF Owes, TypeOK
  <2> QED BY <2>1, <2>3, <2>4, DecrementCovers
<1> QED BY <1>1, <1>2, <1>3, <1>4, <1>5 DEF StorageNext

LEMMA NextCovers ==
  ASSUME TypeOK, Known, Turns, ~Overlap, Interrupted \/ Covered, [Next]_vars
  PROVE  Interrupted' \/ Covered'
<1>1. CASE StopServer
  <2>1. CASE Persistent
    BY <1>1, <2>1 DEF StopServer, Interrupted
  <2>2. CASE ~Persistent
    <3>1. CASE Covered
      <4>1. UNCHANGED slots
        BY <1>1 DEF StopServer
      <4>2. \A l \in Leases : ~Owes(l)'
        BY <1>1, <2>2 DEF StopServer, Owes
      <4>3. \A c \in Clients : grant'[c] # "leasing"
        BY <1>1, LeasesAssumption DEF StopServer
      <4> QED BY <3>1, <4>1, <4>2, <4>3, OwesLess
    <3> QED BY <2>2, <3>1 DEF Interrupted
  <2> QED BY <2>1, <2>2
<1>2. CASE Interrupted
  <2>1. stopped' = stopped \/ StopServer
    BY DEF Next, vars, ClientNext, Acquire, GiveUp, CancelAcquisition, RenewLease, Leave,
           RequestNext, BulkIncrementActiveSlots, GrantNext, CreateLease, AnswerGrant,
           ReleaseSlots, HandlerNext, BulkDecrementActiveSlots, RevokeLease, AnswerRelease,
           LeaseExpires, StorageNext, UpdateExpirationIndex, EntryExpires,
           MonitorExpiredLeases, RevokeExpiredLease, RevokeInTransaction, CommitRevocation
  <2> QED BY <1>1, <1>2, <2>1 DEF Interrupted
<1>3. CASE Covered
  <2>1. CASE UNCHANGED vars
    <3>1. UNCHANGED <<slots, file, release, revoking, grant>>
      BY <2>1 DEF vars, storage, handlers
    <3> QED BY <1>3, <3>1, OwesLess DEF Owes
  <2> QED BY <1>1, <1>3, <2>1, ClientCovers, RequestCovers, HandlerCovers, StorageCovers DEF Next
<1> QED BY <1>2, <1>3

LEMMA Coverage ==
  ASSUME ~Overlap
  PROVE  Spec => [](TypeOK /\ Known /\ Turns /\ (Interrupted \/ Covered))
<1>1. ASSUME Init
      PROVE  Turns /\ Covered
  <2>1. Turns
    BY <1>1 DEF Init, Turns, EntryLast, Releasing
  <2>2. \A k \in Limits : Owed(k) = {} /\ Granting(k) = {} /\ slots[k] = 0
    BY <1>1, LeasesAssumption DEF Init, Owed, Owes, Granting
  <2>3. Covered
    BY <2>2, FS_EmptySet DEF Covered
  <2> QED BY <2>1, <2>3
<1>2. TypeOK /\ Known /\ Turns /\ (Interrupted \/ Covered) /\ [Next]_vars
        => (Turns /\ (Interrupted \/ Covered))'
  BY NextTurns, NextCovers
<1> QED BY <1>1, <1>2, TypesAndKnown, PTL DEF Spec

\* When the handlers of a lease take turns no lease is given back twice, for
\* any number of clients, limits and leases: slots cover what is in the
\* storage and what is being granted, also after lost answers, repeated
\* releases and revocations that race with renewals.
THEOREM SlotsAlwaysCover ==
  ASSUME ~Overlap
  PROVE  Spec => []SlotsCoverLeases
<1>1. ASSUME TypeOK, Covered, NEW k \in Limits
      PROVE  slots[k] >= Cardinality(Backed(k)) + Cardinality(Granting(k))
  <2>1. Backed(k) \in SUBSET Owed(k) /\ Owed(k) \in SUBSET Leases /\ Granting(k) \in SUBSET Clients
    BY DEF Backed, Owed, Owes, Granting
  <2>2. Backed(k) \in SUBSET Leases
    BY <2>1
  <2>3. Cardinality(Backed(k)) <= Cardinality(Owed(k))
    BY <2>1, SubsetsFinite, FS_Subset
  <2>4. /\ Cardinality(Backed(k)) \in Nat /\ Cardinality(Owed(k)) \in Nat
        /\ Cardinality(Granting(k)) \in Nat
    BY <2>1, <2>2, SubsetsFinite
  <2>5. slots[k] \in Int /\ slots[k] >= Cardinality(Owed(k)) + Cardinality(Granting(k))
    BY <1>1, LeasesAssumption DEF TypeOK, Covered
  <2> QED BY <2>3, <2>4, <2>5
<1>2. TypeOK /\ (Interrupted \/ Covered) => SlotsCoverLeases
  BY <1>1 DEF SlotsCoverLeases
<1> QED BY <1>2, Coverage, PTL

-----------------------------------------------------------------------------
(* Limits hold                                                              *)

\* A lease is granted to one client, and not given back while it is inside.
Own ==
  /\ \A c, d \in Clients : lease[c] \in Leases /\ lease[c] = lease[d] => c = d
  /\ \A c, d \in Clients : grant[c] \in Leases /\ grant[c] = grant[d] => c = d
  /\ \A c, d \in Clients : grant[c] \in Leases => lease[d] # grant[c]
  /\ \A c \in Clients : grant[c] \in Leases => ~Releasing(grant[c])
  /\ \A c \in Clients : pc[c] = "inside" => ~Releasing(lease[c])

\* Leases are forgotten and releases come to their end.
LEMMA OwnFrame ==
  ASSUME Known, Own,
         \A c \in Clients : lease'[c] = lease[c] \/ lease'[c] \notin Leases,
         \A c \in Clients : grant'[c] = grant[c] \/ grant'[c] \notin Leases,
         \A c \in Clients : pc'[c] = "inside" => pc[c] = "inside" /\ lease'[c] = lease[c],
         \A l \in Leases : Releasing(l)' => Releasing(l)
  PROVE  Own'
<1>1. \A c, d \in Clients : lease'[c] \in Leases /\ lease'[c] = lease'[d] => c = d
  BY DEF Own
<1>2. \A c, d \in Clients : grant'[c] \in Leases /\ grant'[c] = grant'[d] => c = d
  BY DEF Own
<1>3. \A c, d \in Clients : grant'[c] \in Leases => lease'[d] # grant'[c]
  BY DEF Own
<1>4. ASSUME NEW c \in Clients, grant'[c] \in Leases PROVE ~Releasing(grant[c])'
  <2>1. grant'[c] = grant[c] /\ ~Releasing(grant[c])
    BY <1>4 DEF Own
  <2>2. \A i \in Handlers : release'[<<grant[c], i>>] = "none"
    BY <1>4, <2>1 DEF Releasing
  <2> QED BY <2>1, <2>2 DEF Releasing
<1>5. ASSUME NEW c \in Clients, pc'[c] = "inside" PROVE ~Releasing(lease[c])'
  <2>1. lease'[c] = lease[c] /\ ~Releasing(lease[c]) /\ lease[c] \in Leases
    BY <1>5 DEF Own, Known
  <2>2. \A i \in Handlers : release'[<<lease[c], i>>] = "none"
    BY <2>1 DEF Releasing
  <2> QED BY <2>1, <2>2 DEF Releasing
<1> QED BY <1>1, <1>2, <1>3, <1>4, <1>5 DEF Own

LEMMA ClientOwns ==
  ASSUME TypeOK, Known, Own, NEW c \in Clients, ClientNext(c)
  PROVE  Own'
<1>1. UNCHANGED <<grant, release>>
  BY DEF ClientNext, Acquire, GiveUp, CancelAcquisition, RenewLease, Leave, handlers
<1>2. \A d \in Clients : lease'[d] = lease[d] \/ lease'[d] \notin Leases
  BY LeasesAssumption DEF ClientNext, Acquire, GiveUp, CancelAcquisition, RenewLease, Leave, TypeOK
<1>3. \A d \in Clients : pc'[d] = "inside" => pc[d] = "inside" /\ lease'[d] = lease[d]
  BY DEF ClientNext, Acquire, GiveUp, CancelAcquisition, RenewLease, Leave, TypeOK
<1> QED BY <1>1, <1>2, <1>3, OwnFrame DEF Releasing

\* The answer to the releases of a lease
LEMMA AnsweredClients ==
  ASSUME TypeOK, NEW l, Answered(l)
  PROVE  /\ \A c \in Clients : lease'[c] = lease[c] \/ lease'[c] \notin Leases
         /\ \A c \in Clients : pc'[c] = "inside" => pc[c] = "inside" /\ lease'[c] = lease[c]
  BY LeasesAssumption DEF Answered, Waiting, TypeOK

LEMMA RequestOwns ==
  ASSUME TypeOK, Known, Own, NEW c \in Clients, RequestNext(c)
  PROVE  Own'
<1>1. CASE BulkIncrementActiveSlots(c)
  <2>1. UNCHANGED <<pc, lease, release>>
    BY <1>1 DEF BulkIncrementActiveSlots
  <2>2. \A d \in Clients : grant'[d] = grant[d] \/ grant'[d] \notin Leases
    BY <1>1, LeasesAssumption DEF BulkIncrementActiveSlots, TypeOK
  <2> QED BY <2>1, <2>2, OwnFrame DEF Releasing
<1>2. CASE CreateLease(c)
  <2>1. PICK l \in Fresh(Names[c]) : grant' = [grant EXCEPT ![c] = l]
    BY <1>2 DEF CreateLease
  <2>2. /\ l \in Leases /\ ~Releasing(l)
        /\ \A d \in Clients : lease[d] # l /\ grant[d] # l
    BY <2>1 DEF Fresh
  <2>3. UNCHANGED <<pc, lease, release>>
    BY <1>2 DEF CreateLease
  <2>4. \A d \in Clients : grant'[d] = IF d = c THEN l ELSE grant[d]
    BY <2>1 DEF TypeOK
  <2> QED BY <2>2, <2>3, <2>4 DEF Own, Releasing
<1>3. ASSUME NEW lost \in BOOLEAN, AnswerGrant(c, lost)
      PROVE  Own'
  <2>1. grant[c] \in Leases /\ UNCHANGED release
    BY <1>3 DEF AnswerGrant
  <2>2. \A d \in Clients : grant'[d] = IF d = c THEN None ELSE grant[d]
    BY <1>3 DEF AnswerGrant, TypeOK
  <2>3. CASE UNCHANGED <<pc, lease>>
    <3>1. \A d \in Clients : grant'[d] = grant[d] \/ grant'[d] \notin Leases
      BY <2>2, LeasesAssumption
    <3> QED BY <2>1, <2>3, <3>1, OwnFrame DEF Releasing
  <2>4. CASE /\ pc' = [pc EXCEPT ![c] = Granted(c)]
             /\ lease' = [lease EXCEPT ![c] = grant[c]]
    <3>1. \A d \in Clients : lease'[d] = IF d = c THEN grant[c] ELSE lease[d]
      BY <2>4 DEF TypeOK
    <3>2. \A d \in Clients : d # c => pc'[d] = pc[d]
      BY <2>4 DEF TypeOK
    <3>3. \A a, b \in Clients : lease'[a] \in Leases /\ lease'[a] = lease'[b] => a = b
      BY <2>1, <3>1 DEF Own
    <3>4. \A a, b \in Clients : grant'[a] \in Leases /\ grant'[a] = grant'[b] => a = b
      BY <2>2, LeasesAssumption DEF Own
    <3>5. \A a, b \in Clients : grant'[a] \in Leases => lease'[b] # grant'[a]
      BY <2>1, <2>2, <3>1, LeasesAssumption DEF Own
    <3>6. ASSUME NEW d \in Clients, grant'[d] \in Leases PROVE ~Releasing(grant[d])'
      <4>1. grant'[d] = grant[d] /\ ~Releasing(grant[d])
        BY <2>2, <3>6, LeasesAssumption DEF Own
      <4> QED BY <2>1, <4>1 DEF Releasing
    <3>7. ASSUME NEW d \in Clients, pc'[d] = "inside" PROVE ~Releasing(lease[d])'
      <4>1. ~Releasing(lease'[d])
        BY <2>1, <3>1, <3>2, <3>7 DEF Own
      <4> QED BY <2>1, <4>1 DEF Releasing
    <3> QED BY <3>3, <3>4, <3>5, <3>6, <3>7 DEF Own
  <2> QED BY <1>3, <2>3, <2>4 DEF AnswerGrant
<1>4. ASSUME NEW i \in Handlers, ReleaseSlots(c, i)
      PROVE  Own'
  <2>1. pc[c] = "releasing" /\ lease[c] \in Leases /\ UNCHANGED grant
    BY <1>4 DEF ReleaseSlots, Known
  <2>2. /\ \A d \in Clients : lease'[d] = lease[d] \/ lease'[d] \notin Leases
        /\ \A d \in Clients : pc'[d] = "inside" => pc[d] = "inside" /\ lease'[d] = lease[d]
    BY <1>4, AnsweredClients DEF ReleaseSlots
  <2>3. \A l \in Leases : l # lease[c] => (Releasing(l)' <=> Releasing(l))
    BY <1>4, <2>1 DEF ReleaseSlots, Releasing, TypeOK
  <2>4. \A d \in Clients : grant[d] \in Leases => grant[d] # lease[c]
    BY DEF Own
  <2>5. \A d \in Clients : pc[d] = "inside" => lease[d] # lease[c] /\ lease[d] \in Leases
    BY <2>1 DEF Own, Known
  <2>6. \A a, b \in Clients : lease'[a] \in Leases /\ lease'[a] = lease'[b] => a = b
    BY <2>2 DEF Own
  <2>7. \A a, b \in Clients : grant'[a] \in Leases => lease'[b] # grant'[a]
    BY <2>1, <2>2 DEF Own
  <2>8. ASSUME NEW d \in Clients, grant'[d] \in Leases PROVE ~Releasing(grant[d])'
    <3>1. ~Releasing(grant[d]) /\ grant'[d] = grant[d] /\ grant[d] # lease[c]
      BY <2>1, <2>4, <2>8 DEF Own
    <3>2. \A j \in Handlers : release'[<<grant[d], j>>] = "none"
      BY <2>3, <2>8, <3>1 DEF Releasing
    <3> QED BY <3>1, <3>2 DEF Releasing
  <2>9. ASSUME NEW d \in Clients, pc'[d] = "inside" PROVE ~Releasing(lease[d])'
    <3>1. ~Releasing(lease[d]) /\ lease'[d] = lease[d] /\ lease[d] # lease[c] /\ lease[d] \in Leases
      BY <2>2, <2>5, <2>9 DEF Own
    <3>2. \A j \in Handlers : release'[<<lease[d], j>>] = "none"
      BY <2>3, <3>1 DEF Releasing
    <3> QED BY <3>1, <3>2 DEF Releasing
  <2> QED BY <2>1, <2>6, <2>7, <2>8, <2>9 DEF Own
<1> QED BY <1>1, <1>2, <1>3, <1>4 DEF RequestNext, GrantNext

LEMMA HandlerOwns ==
  ASSUME TypeOK, Known, Own, NEW l \in Leases, NEW i \in Handlers, HandlerNext(l, i)
  PROVE  Own'
<1>1. /\ UNCHANGED grant
      /\ \A k \in Leases : Releasing(k)' => Releasing(k)
  BY DEF HandlerNext, BulkDecrementActiveSlots, RevokeLease, AnswerRelease, Releasing, TypeOK
<1>2. UNCHANGED <<pc, lease>> \/ Answered(l)
  BY DEF HandlerNext, BulkDecrementActiveSlots, RevokeLease, AnswerRelease
<1> QED BY <1>1, <1>2, AnsweredClients, OwnFrame

LEMMA NextOwns ==
  ASSUME TypeOK, Known, Own, [Next]_vars
  PROVE  Own'
<1>1. CASE StopServer
  <2>1. UNCHANGED <<pc, lease>> /\ \A l \in Leases : ~Releasing(l)'
    BY <1>1 DEF StopServer, Releasing
  <2>2. \A c \in Clients : grant'[c] \notin Leases
    BY <1>1, LeasesAssumption DEF StopServer
  <2> QED BY <2>1, <2>2, OwnFrame
<1>2. ASSUME UNCHANGED <<pc, lease, grant, release>>
      PROVE  Own'
  BY <1>2, OwnFrame DEF Releasing
<1>3. CASE UNCHANGED vars
  BY <1>2, <1>3 DEF vars, handlers
<1>4. ASSUME NEW l \in Leases, LeaseExpires(l) \/ StorageNext(l)
      PROVE  Own'
  BY <1>2, <1>4 DEF LeaseExpires, StorageNext, UpdateExpirationIndex, EntryExpires, handlers,
     MonitorExpiredLeases, RevokeExpiredLease, RevokeInTransaction, CommitRevocation
<1> QED BY <1>1, <1>3, <1>4, ClientOwns, RequestOwns, HandlerOwns DEF Next

\* When the handlers of a lease take turns a limit is never exceeded by the
\* clients that hold a lease, for any number of clients, limits and slots.
THEOREM LimitsHold ==
  ASSUME ~Overlap
  PROVE  Spec => []WithinLimit
<1>1. Init => Own
  BY LeasesAssumption DEF Init, Own, Releasing
<1>2. TypeOK /\ Known /\ Own /\ [Next]_vars => Own'
  BY NextOwns
<1>3. ASSUME TypeOK, Known, Covered, Own, NEW k \in Limits
      PROVE  Cardinality({c \in Clients : /\ pc[c] = "inside" /\ k \in ResourceIds[lease[c]]
                                          /\ file[lease[c]] # "absent"}) <= Limit[k]
  <2> DEFINE S == {c \in Clients : /\ pc[c] = "inside" /\ k \in ResourceIds[lease[c]]
                                   /\ file[lease[c]] # "absent"}
             f == [c \in S |-> lease[c]]
  <2>1. \A c \in S : lease[c] \in Owed(k)
    BY <1>3 DEF Known, Own, Owed, Owes, Releasing
  <2>2. \A c, d \in S : lease[c] = lease[d] => c = d
    BY <1>3 DEF Known, Own
  <2>3. f \in Injection(S, Owed(k))
    BY <2>1, <2>2 DEF Injection, IsInjective
  <2>4. Owed(k) \in SUBSET Leases /\ Granting(k) \in SUBSET Clients /\ S \in SUBSET Clients
    BY DEF Owed, Granting
  <2> HIDE DEF S, f
  <2>5. Cardinality(S) <= Cardinality(Owed(k))
    BY <2>3, <2>4, SubsetsFinite, FS_Injection
  <2>6. /\ Cardinality(S) \in Nat /\ Cardinality(Owed(k)) \in Nat
        /\ Cardinality(Granting(k)) \in Nat
    BY <2>4, SubsetsFinite
  <2>7. /\ slots[k] \in Int /\ Limit[k] \in Int /\ slots[k] <= Limit[k]
        /\ slots[k] >= Cardinality(Owed(k)) + Cardinality(Granting(k))
    BY <1>3, LeasesAssumption DEF TypeOK, Covered
  <2>8. Cardinality(S) <= Limit[k]
    BY <2>5, <2>6, <2>7
  <2> QED BY <2>8 DEF S
<1>4. TypeOK /\ Known /\ (Interrupted \/ Covered) /\ Own => WithinLimit
  BY <1>3 DEF WithinLimit
<1> QED BY <1>1, <1>2, <1>4, Coverage, PTL DEF Spec
=============================================================================
