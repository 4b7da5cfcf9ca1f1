------------------------- MODULE SyncQueueProperties ------------------------
(***************************************************************************)
(* What the job queue must do, what it is said to do and does not, and the *)
(* inductive invariants behind the theorems of SyncQueueProofs.            *)
(***************************************************************************)
EXTENDS SyncQueue

(* What must hold.                                                         *)

(* A worker that is processing a job still owns its row: nobody reclaimed, *)
(* settled or took it meanwhile.  markDone and markFailed name the row by  *)
(* id alone, so they are only right as long as this holds.                 *)
RowLock ==
  \A w \in Workers : hand[w] # NoJob =>
    /\ Processing(hand[w])
    /\ lockedBy[hand[w]] = w

(* A job that is done has seen every change acknowledged onto it, also the *)
(* ones folded in while a worker was claiming it.  enqueue does not lock   *)
(* the row between its findFirst and its update; jobs that only name the   *)
(* record survive that, because they read the record afterwards.           *)
DoneCoversEveryEvent ==
  \A j \in Jobs :
    status[j] = "done" /\ key[j] \in LiveKeys
      => covers[j] <= synced[key[j]]

(* Attempts beyond SYNC_JOB_MAX_ATTEMPTS are paid for by faults, one each: *)
(* a worker that died holding the job, or a markFailed that failed.        *)
RetryBudget ==
  \A j \in Jobs :
    /\ attempts[j] <= MaxAttempts + faults
    /\ Pending(j) => attempts[j] < MaxAttempts + faults

(* A settled job is never processed again, and done never becomes failed:  *)
(* no late markDone or markFailed reaches a row that someone else settled. *)
SettledStays ==
  [][\A j \in Jobs : status[j] \in {"done", "failed"}
                       => status'[j] = status[j]]_vars

(* Every job is settled in the end, through retries, crashes of its worker *)
(* and reclaims by another.                                                *)
EveryJobSettles ==
  \A j \in Jobs : Pending(j) \/ Processing(j)
                    ~> status[j] \in {"done", "failed"}

-----------------------------------------------------------------------------
(* The queue implements ChangeDelivery for the keys whose jobs name the    *)
(* record only.                                                            *)

LiveChanges == LiveKeys \X (1 .. MaxVersion)

On(j, c) == key[j] = c[1] /\ c[2] <= covers[j]

Changed  == {c \in LiveChanges : c[2] <= version[c[1]]}
Promised == {c \in LiveChanges : \E j \in Jobs : On(j, c)}
Covered  == {c \in LiveChanges : c[2] <= synced[c[1]]}
GivenUp  == {c \in LiveChanges : \E j \in Jobs :
                                    On(j, c) /\ status[j] = "failed"}

Delivery == INSTANCE ChangeDelivery WITH
  Changes  <- LiveChanges,
  changed  <- Changed,
  promised <- Promised,
  covered  <- Covered,
  givenUp  <- GivenUp

(* Every change that was acknowledged is in the end covered by a sync that *)
(* ran to its end, or found on a failed job; none is forgotten on the way. *)
ImplementsDelivery == Delivery!DeliverySpec

-----------------------------------------------------------------------------
(* What the repository says, and what the code keeps of it only in part:   *)
(* the first holds unless workers are slow, the others do not hold.        *)

(* src/sync/worker.ts: a job returns to the pool when its worker died, so  *)
(* no two workers ever process the same row.                               *)
JobInOneHand ==
  \A v, w \in Workers : v # w => hand[v] = NoJob \/ hand[v] # hand[w]

(* src/sync/queue.ts: two jobs sharing a key are never processed           *)
(* concurrently.                                                           *)
KeyExclusion ==
  \A v, w \in Workers :
    v # w /\ hand[v] # NoJob /\ hand[w] # NoJob
      => key[hand[v]] # key[hand[w]]

(* docs/oxid-module-contract.md: an event answered 202 is delivered.  Here *)
(* for every key, also those whose jobs carry field values.                *)
AcceptedIsDelivered ==
  \A j \in Jobs :
    status[j] = "done" => covers[j] <= synced[key[j]]

-----------------------------------------------------------------------------
(* Inductive invariants.                                                   *)

(* A held row is locked by its holder, and its lock is young. *)
LockInv ==
  /\ RowLock
  /\ \A w \in Workers : hand[w] # NoJob => ~stale[hand[w]]

(* A worker whose job was reclaimed goes on with it, so that several can   *)
(* hold one row; its requeuers have decided to make it pending again.      *)
Holders(j) == {w \in Workers : hand[w] = j}
Requeuers(j) == {w \in Holders(j) : phase[w] = "marking" /\ retry[w]}

(* One claim of the row is to come that needs none of its holders.         *)
Open(j) == Pending(j) \/ (Processing(j) /\ (stale[j] \/ ~Held(j)))
OpenClaims(j) == IF Open(j) THEN 1 ELSE 0

(* A second hand on a row is paid for by a fault, and so is every claim    *)
(* beyond the maximum, the ones still to come included.                    *)
HandsPaid(j) == Cardinality(Holders(j)) + OpenClaims(j) <= 1 + faults
ClaimsPaid(j) ==
  attempts[j] + OpenClaims(j) + Cardinality(Requeuers(j))
    <= MaxAttempts + faults

BudgetInv ==
  \A j \in Jobs :
    /\ IsFiniteSet(Holders(j))
    /\ HandsPaid(j)
    /\ ClaimsPaid(j)
    /\ status[j] = "absent" => attempts[j] = 0

EventOK(e) ==
  /\ e.version <= version[e.key]
  /\ e.key \in LiveKeys => ~e.carried

(* What is announced was made, and live keys are announced by id; a sender *)
(* that found a row holds an event for the key of that row.                *)
EventsInv ==
  /\ \A e \in outbox : EventOK(e)
  /\ \A s \in Senders : event[s] # None => EventOK(event[s])
  /\ \A s \in Senders : found[s] # NoJob => /\ event[s] # None
                                            /\ key[found[s]] = event[s].key

(* Rows carry nothing the source has not held, live keys nothing at all. *)
RowsInv ==
  \A j \in Jobs : j <= created =>
    /\ covers[j] <= version[key[j]]
    /\ payload[j] <= version[key[j]]
    /\ key[j] \in LiveKeys => payload[j] = 0

(* Nor do workers see anything else. *)
SeenInv ==
  /\ \A w \in Workers : hand[w] # NoJob =>
       /\ seen[w] <= version[KeyInHand(w)]
       /\ phase[w] = "claimed" /\ KeyInHand(w) \in LiveKeys => seen[w] = 0
  /\ \A k \in Keys : synced[k] <= version[k]

VersionInv == EventsInv /\ RowsInv /\ SeenInv

(* Whoever works on j, or worked on it last, has seen version v. *)
SeenEnough(j, v) ==
  /\ status[j] = "done" => v <= synced[key[j]]
  /\ \A w \in Workers : hand[w] = j =>
       /\ phase[w] = "hydrated" => v <= seen[w]
       /\ phase[w] = "finished" => v <= synced[key[j]]

(* ... both what was folded into the row and what a sender that found the  *)
(* row pending is still about to fold into it.                             *)
CoverInv ==
  /\ \A j \in Jobs : key[j] \in LiveKeys => SeenEnough(j, covers[j])
  /\ \A s \in Senders : found[s] # NoJob /\ event[s].key \in LiveKeys
       => SeenEnough(found[s], event[s].version)

(* Together they are preserved by every step, unless workers are slow;     *)
(* TypeOK and BudgetInv are in any case.                                   *)
QueueInv == TypeOK /\ LockInv /\ BudgetInv /\ VersionInv /\ CoverInv
=============================================================================
