-------------------------- MODULE ConcurrencyLeases --------------------------
(***************************************************************************)
(* Global concurrency limits with leases: clients that enter and leave     *)
(* concurrency() blocks, the requests of theirs the server is working on,  *)
(* the database that counts slots, the lease storage, and the repossessor  *)
(* that takes back what nobody renews.                                     *)
(*                                                                         *)
(* The storage is not part of a database transaction, and a handler awaits *)
(* between its steps: each is an action.  A lease is a file and an entry   *)
(* in the index of expirations, written one after the other; the storage   *)
(* in memory writes both at once, which is one of the schedules here.      *)
(***************************************************************************)
EXTENDS Integers, FiniteSets

CONSTANTS
  Clients,     \* each in one concurrency() block at a time
  Names,       \* Names[c]: the limits the block of c asks for
  Limits,      \* active concurrency limits without slot decay
  Limit,       \* Limit[k]: its slots
  Leases,      \* lease ids; those nothing refers to are used again
  ResourceIds, \* ResourceIds[l]: the limits a lease with this id is for
  None,
  Overlap,     \* TRUE: two handlers may give back one lease at the same time
  Persistent   \* TRUE: the lease storage survives a stop of the server

ASSUME LeasesAssumption ==
  /\ Names \in [Clients -> SUBSET Limits]
  /\ Limit \in [Limits -> Nat \ {0}]
  /\ ResourceIds \in [Leases -> SUBSET Limits]
  /\ Overlap \in BOOLEAN /\ Persistent \in BOOLEAN
  /\ IsFiniteSet(Clients) /\ IsFiniteSet(Leases)
  /\ None \notin Leases /\ "leasing" \notin Leases /\ None # "leasing"

VARIABLES
  pc,        \* where each client is
  lease,     \* the lease it knows of
  slots,     \* active_slots of each limit
  file,      \* the leases in the storage
  index,     \* the index of expirations
  grant,     \* increment-with-lease: None, "leasing", or the lease to index
  release,   \* decrement-with-lease: how far each handler of a lease is
  renewing,  \* renewed leases whose index entry is not yet written
  queued,    \* leases with a queued revoke_expired_lease task
  revoking,  \* how far the running task of a lease is
  stopped    \* history: the server has stopped once

vars == <<pc, lease, slots, file, index, grant, release, renewing,
          queued, revoking, stopped>>

storage == <<file, index>>
handlers == <<grant, release, renewing, queued, revoking>>

\* cancelled: while it acquired;  releasing: the client, the acquisition service
\* for a cancelled client, or, if the first release failed or was cancelled,
\* the ConcurrencyContext, which sends another one.
Places == {"idle", "acquiring", "cancelled", "inside", "releasing"}
Status == {"absent", "live", "expired"}
Handlers == IF Overlap THEN 1..2 ELSE {1}

TypeOK ==
  /\ pc \in [Clients -> Places]
  /\ lease \in [Clients -> Leases \cup {None}]
  /\ \A k \in Limits : slots[k] \in 0..Limit[k]
  /\ file \in [Leases -> Status]
  /\ index \in [Leases -> Status]
  /\ grant \in [Clients -> Leases \cup {None, "leasing"}]
  /\ release \in [Leases \X Handlers -> {"none", "decrement", "revoke", "unindex"}]
  /\ renewing \subseteq Leases
  /\ queued \subseteq Leases
  /\ revoking \in [Leases -> {"none", "read", "revoked"}]
  /\ stopped \in BOOLEAN

Init ==
  /\ pc = [c \in Clients |-> "idle"]
  /\ lease = [c \in Clients |-> None]
  /\ slots = [k \in Limits |-> 0]
  /\ file = [l \in Leases |-> "absent"]
  /\ index = [l \in Leases |-> "absent"]
  /\ grant = [c \in Clients |-> None]
  /\ release = [h \in Leases \X Handlers |-> "none"]
  /\ renewing = {}
  /\ queued = {}
  /\ revoking = [l \in Leases |-> "none"]
  /\ stopped = FALSE

Releasing(l) == \E i \in Handlers : release[<<l, i>>] # "none"

\* Ids are never used twice; the model recycles those nothing refers to.
Fresh(ks) == {l \in Leases :
  /\ ResourceIds[l] = ks
  /\ file[l] = "absent" /\ index[l] = "absent"
  /\ l \notin renewing \cup queued /\ revoking[l] = "none" /\ ~Releasing(l)
  /\ \A c \in Clients : lease[c] # l /\ grant[c] # l}

-----------------------------------------------------------------------------
(* Clients enter a block.                                                  *)

Acquire(c) ==
  /\ pc[c] = "idle" /\ grant[c] = None
  /\ pc' = [pc EXCEPT ![c] = "acquiring"]
  /\ UNCHANGED <<lease, slots, storage, handlers, stopped>>

\* A timeout, or no retries left, or the client crashes: its requests are
\* dropped, not their handlers.  The last release is tried once.
GiveUp(c) ==
  /\ pc[c] # "idle"
  /\ pc' = [pc EXCEPT ![c] = "idle"]
  /\ lease' = [lease EXCEPT ![c] = None]
  /\ UNCHANGED <<slots, storage, handlers, stopped>>

CancelAcquisition(c) ==
  /\ pc[c] = "acquiring"
  /\ pc' = [pc EXCEPT ![c] = "cancelled"]
  /\ UNCHANGED <<lease, slots, storage, handlers, stopped>>

\* Mutant: one slot too many.
RoomForOneMore(k) == slots[k] <= Limit[k]

Room(k) == slots[k] < Limit[k]

\* Mutant: the limits that have room keep their slots.
IncrementedPartly(ks) ==
  [k \in Limits |-> slots[k] + (IF k \in ks /\ Room(k) THEN 1 ELSE 0)]

\* All limits or none: the transaction is rolled back.
Incremented(ks) ==
  [k \in Limits |-> slots[k] + (IF k \in ks /\ \A j \in ks : Room(j) THEN 1 ELSE 0)]

\* A client that is denied (423) asks again later.
BulkIncrementActiveSlots(c) ==
  /\ pc[c] \in {"acquiring", "cancelled"} /\ grant[c] = None
  /\ slots' = Incremented(Names[c])
  /\ grant' = [grant EXCEPT ![c] = IF \A k \in Names[c] : Room(k) THEN "leasing" ELSE None]
  /\ UNCHANGED <<pc, lease, storage, release, renewing, queued, revoking, stopped>>

CreateLease(c) ==
  /\ grant[c] = "leasing"
  /\ \E l \in Fresh(Names[c]) :
       /\ file' = [file EXCEPT ![l] = "live"]
       /\ grant' = [grant EXCEPT ![c] = l]
  /\ UNCHANGED <<pc, lease, slots, index, release, renewing, queued, revoking, stopped>>

Granted(c) == IF pc[c] = "acquiring" THEN "inside" ELSE "releasing"

\* The index is written and the answer sent.  A client that does not get it
\* asks again: it never learns of this lease.
AnswerGrant(c, lost) ==
  /\ grant[c] \in Leases
  /\ index' = [index EXCEPT ![grant[c]] = "live"]
  /\ grant' = [grant EXCEPT ![c] = None]
  /\ IF lost \/ pc[c] \notin {"acquiring", "cancelled"}
     THEN UNCHANGED <<pc, lease>>
     ELSE /\ pc' = [pc EXCEPT ![c] = Granted(c)]
          /\ lease' = [lease EXCEPT ![c] = grant[c]]
  /\ UNCHANGED <<slots, file, release, renewing, queued, revoking, stopped>>

-----------------------------------------------------------------------------
(* The renewal thread of a client in its block.  A failure (410) cancels a *)
(* strict client, which then leaves; the others go on without a slot.      *)

RenewLease(c) ==
  /\ pc[c] = "inside"
  /\ IF file[lease[c]] = "absent"
     THEN /\ index' = [index EXCEPT ![lease[c]] = "absent"]
          /\ UNCHANGED <<file, renewing>>
     ELSE /\ file' = [file EXCEPT ![lease[c]] = "live"]
          /\ renewing' = renewing \cup {lease[c]}
          /\ UNCHANGED index
  /\ UNCHANGED <<pc, lease, slots, grant, release, queued, revoking, stopped>>

UpdateExpirationIndex(l) ==
  /\ l \in renewing
  /\ index' = [index EXCEPT ![l] = "live"]
  /\ renewing' = renewing \ {l}
  /\ UNCHANGED <<pc, lease, slots, file, grant, release, queued, revoking, stopped>>

-----------------------------------------------------------------------------
(* Clients leave a block.                                                  *)

Leave(c) ==
  /\ pc[c] = "inside"
  /\ pc' = [pc EXCEPT ![c] = "releasing"]
  /\ UNCHANGED <<lease, slots, storage, handlers, stopped>>

Waiting(c, l) == pc[c] = "releasing" /\ lease[c] = l

Answered(l) ==
  /\ pc' = [c \in Clients |-> IF Waiting(c, l) THEN "idle" ELSE pc[c]]
  /\ lease' = [c \in Clients |-> IF Waiting(c, l) THEN None ELSE lease[c]]

\* Mutant: a lease that is gone is given back like the others.
ReadLeaseAnyway(l) == "decrement"

\* Where the handler that reads the lease goes on.
ReadLease(l) == IF file[l] = "absent" THEN "none" ELSE "decrement"

\* Also sent again when the answer was lost.
ReleaseSlots(c, i) ==
  LET l == lease[c] IN
  /\ pc[c] = "releasing" /\ release[<<l, i>>] = "none"
  /\ Overlap \/ revoking[l] = "none"
  /\ release' = [release EXCEPT ![<<l, i>>] = ReadLease(l)]
  /\ IF ReadLease(l) = "none" THEN Answered(l) ELSE UNCHANGED <<pc, lease>>
  /\ UNCHANGED <<slots, storage, grant, renewing, queued, revoking, stopped>>

Decremented(ks) ==
  [k \in Limits |-> IF k \in ks /\ slots[k] > 0 THEN slots[k] - 1 ELSE slots[k]]

BulkDecrementActiveSlots(l, i) ==
  /\ release[<<l, i>>] = "decrement"
  /\ slots' = Decremented(ResourceIds[l])
  /\ release' = [release EXCEPT ![<<l, i>>] = "revoke"]
  /\ UNCHANGED <<pc, lease, storage, grant, renewing, queued, revoking, stopped>>

RevokeLease(l, i) ==
  /\ release[<<l, i>>] = "revoke"
  /\ file' = [file EXCEPT ![l] = "absent"]
  /\ release' = [release EXCEPT ![<<l, i>>] = "unindex"]
  /\ UNCHANGED <<pc, lease, slots, index, grant, renewing, queued, revoking, stopped>>

AnswerRelease(l, i, lost) ==
  /\ release[<<l, i>>] = "unindex"
  /\ index' = [index EXCEPT ![l] = "absent"]
  /\ release' = [release EXCEPT ![<<l, i>>] = "none"]
  /\ IF lost THEN UNCHANGED <<pc, lease>> ELSE Answered(l)
  /\ UNCHANGED <<slots, file, grant, renewing, queued, revoking, stopped>>

-----------------------------------------------------------------------------
(* Time and the repossessor.                                               *)

LeaseExpires(l) ==
  /\ file[l] = "live"
  /\ file' = [file EXCEPT ![l] = "expired"]
  /\ UNCHANGED <<pc, lease, slots, index, handlers, stopped>>

\* The entry may be older than the lease.
EntryExpires(l) ==
  /\ index[l] = "live"
  /\ index' = [index EXCEPT ![l] = "expired"]
  /\ UNCHANGED <<pc, lease, slots, file, handlers, stopped>>

\* monitor_expired_leases; a stale entry is repaired.  A lease that is gone is
\* reported as well, for its entry to go.  The task's key is unique.
MonitorExpiredLeases(l) ==
  /\ index[l] = "expired" /\ l \notin queued /\ revoking[l] = "none"
  /\ IF file[l] = "live"
     THEN index' = [index EXCEPT ![l] = "live"] /\ UNCHANGED queued
     ELSE queued' = queued \cup {l} /\ UNCHANGED index
  /\ UNCHANGED <<pc, lease, slots, file, grant, release, renewing, revoking, stopped>>

StillExpired(l) == file[l] = "expired"

\* Mutant: the entry goes whatever has become of the lease.
UnindexedAlways(l) == [index EXCEPT ![l] = "absent"]

Unindexed(l) == IF file[l] = "absent" THEN [index EXCEPT ![l] = "absent"] ELSE index

RevokeExpiredLease(l) ==
  /\ l \in queued
  /\ Overlap \/ ~Releasing(l)
  /\ queued' = queued \ {l}
  /\ revoking' = [revoking EXCEPT ![l] = IF StillExpired(l) THEN "read" ELSE "none"]
  /\ index' = Unindexed(l)
  /\ UNCHANGED <<pc, lease, slots, file, grant, release, renewing, stopped>>

\* The lease goes before the transaction is committed.
RevokeInTransaction(l) ==
  /\ revoking[l] = "read"
  /\ file' = [file EXCEPT ![l] = "absent"]
  /\ index' = [index EXCEPT ![l] = "absent"]
  /\ revoking' = [revoking EXCEPT ![l] = "revoked"]
  /\ UNCHANGED <<pc, lease, slots, grant, release, renewing, queued, stopped>>

CommitRevocation(l) ==
  /\ revoking[l] = "revoked"
  /\ slots' = Decremented(ResourceIds[l])
  /\ revoking' = [revoking EXCEPT ![l] = "none"]
  /\ UNCHANGED <<pc, lease, storage, grant, release, renewing, queued, stopped>>

\* Requests and tasks end; what the database has not committed is undone.
StopServer ==
  /\ grant' = [c \in Clients |-> None]
  /\ release' = [h \in Leases \X Handlers |-> "none"]
  /\ renewing' = {}
  /\ queued' = {}
  /\ revoking' = [l \in Leases |-> "none"]
  /\ IF Persistent THEN UNCHANGED <<file, index>>
     ELSE /\ file' = [l \in Leases |-> "absent"]
          /\ index' = [l \in Leases |-> "absent"]
  /\ stopped' = TRUE
  /\ UNCHANGED <<pc, lease, slots>>

-----------------------------------------------------------------------------

ClientNext(c) ==
  \/ Acquire(c)
  \/ GiveUp(c)
  \/ CancelAcquisition(c)
  \/ RenewLease(c)
  \/ Leave(c)

GrantNext(c) == CreateLease(c) \/ \E lost \in BOOLEAN : AnswerGrant(c, lost)

RequestNext(c) ==
  \/ BulkIncrementActiveSlots(c)
  \/ GrantNext(c)
  \/ \E i \in Handlers : ReleaseSlots(c, i)

HandlerNext(l, i) ==
  \/ BulkDecrementActiveSlots(l, i)
  \/ RevokeLease(l, i)
  \/ \E lost \in BOOLEAN : AnswerRelease(l, i, lost)

StorageNext(l) ==
  \/ UpdateExpirationIndex(l)
  \/ EntryExpires(l)
  \/ MonitorExpiredLeases(l)
  \/ RevokeExpiredLease(l)
  \/ RevokeInTransaction(l)
  \/ CommitRevocation(l)

Next ==
  \/ \E c \in Clients : ClientNext(c) \/ RequestNext(c)
  \/ \E l \in Leases, i \in Handlers : HandlerNext(l, i)
  \/ \E l \in Leases : LeaseExpires(l) \/ StorageNext(l)
  \/ StopServer

\* Handlers that run finish, time passes, and the repossessor is a perpetual
\* service; nothing is asked of clients.
Fairness ==
  /\ \A c \in Clients : WF_vars(GrantNext(c))
  /\ \A l \in Leases, i \in Handlers : WF_vars(HandlerNext(l, i))
  /\ \A l \in Leases : WF_vars(LeaseExpires(l)) /\ WF_vars(StorageNext(l))

Spec == Init /\ [][Next]_vars
FairSpec == Spec /\ Fairness

-----------------------------------------------------------------------------
(* Properties                                                              *)

\* What a limit has given out and not taken back.
Granting(k) == {c \in Clients : grant[c] = "leasing" /\ k \in Names[c]}
Backed(k) == {l \in Leases :
  /\ k \in ResourceIds[l] /\ file[l] # "absent"
  /\ \A i \in Handlers : release[<<l, i>>] \notin {"revoke", "unindex"}}

\* A stop leaves leases behind whose handler was between two steps.
Interrupted == Persistent /\ stopped

\* The counter of a limit covers every lease that nobody has begun to give
\* back, also after lost answers, repeated releases, expirations that race
\* with renewals, and stops of the server (concurrency_limits_v2.py:426): no
\* lease is given back twice.
SlotsCoverLeases ==
  Interrupted \/ \A k \in Limits : slots[k] >= Cardinality(Backed(k)) + Cardinality(Granting(k))

\* No more clients are in a block with a lease that the server knows than
\* the limit has slots.
WithinLimit ==
  Interrupted \/ \A k \in Limits :
    Cardinality({c \in Clients : /\ pc[c] = "inside" /\ k \in ResourceIds[lease[c]]
                                 /\ file[lease[c]] # "absent"}) <= Limit[k]

\* A lease in the storage can be found by the repossessor: it has an entry in
\* the index, or a handler is about to write or remove one, unless the server
\* stopped between the two writes (filesystem.py:206-209).
LeasesIndexed ==
  \A l \in Leases : file[l] # "absent" /\ index[l] = "absent"
    => Interrupted \/ l \in renewing \/ \E c \in Clients : grant[c] = l

\* When no client is in a block any more all slots come back and the storage
\* is empty, whatever was cancelled, lost or crashed; only a server that stops
\* between two steps leaks a slot (repossessor.py:31).
SlotsReturn ==
  [](~stopped) /\ <>[](\A c \in Clients : pc[c] = "idle")
    => <>[](/\ \A k \in Limits : slots[k] = 0
            /\ \A l \in Leases : file[l] = "absent" /\ index[l] = "absent")
=============================================================================
