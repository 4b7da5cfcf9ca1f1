----------------------------- MODULE SyncQueue ------------------------------
(***************************************************************************)
(* The sync_jobs table and the actors around it: the webhook routes and    *)
(* the reconcile sweep that enqueue (src/db/repositories/syncJobs.ts,      *)
(* enqueue), and the polling workers that reclaim, claim, process and      *)
(* settle jobs (src/sync/worker.ts).                                       *)
(*                                                                         *)
(* One step is one statement sent to the database, or one call to an       *)
(* outside system; everything between two awaits is one step.  The         *)
(* content of a source record is its version, a number that grows with     *)
(* every edit.  Time is abstracted to two facts: whether runAfter has      *)
(* passed (due) and whether lockedAt is older than STALE_LOCK_MS (stale).  *)
(***************************************************************************)
EXTENDS Naturals, FiniteSets

CONSTANTS
  Keys,         \* dedupe keys, one per direction and record
  IdKeys,       \* keys whose webhook carries only an id (HubSpot contacts)
  SweptKeys,    \* keys the reconcile sweep enqueues with the fields it read
  Workers,      \* SyncWorker instances, one per process
  Senders,      \* requests (or sweeps) that can be inside enqueue at once
  MaxAttempts,  \* SYNC_JOB_MAX_ATTEMPTS
  BatchSize,    \* jobs drained by one tick
  None,         \* SQL null
  SlowWorkers,  \* may a live worker hold a job longer than STALE_LOCK_MS?
  MaxJobs,      \* bound: rows the table can hold
  MaxVersion,   \* bound: edits of one record
  MaxFaults     \* bound: crashes, stops, database errors and overdue locks

ASSUME SyncQueueAssumption ==
  /\ IdKeys \subseteq Keys
  /\ SweptKeys \subseteq Keys
  /\ None \notin Keys \cup Workers
  /\ MaxAttempts \in Nat \ {0}
  /\ BatchSize \in Nat \ {0}
  /\ SlowWorkers \in BOOLEAN
  /\ MaxJobs \in Nat \ {0}
  /\ MaxVersion \in Nat
  /\ MaxFaults \in Nat

Jobs == 1 .. MaxJobs        \* row ids, in the order of createdAt
NoJob == 0
Versions == 0 .. MaxVersion

(* Keys whose jobs never carry field values: what is synced is whatever    *)
(* the source holds when the job is processed.                             *)
LiveKeys == IdKeys \ SweptKeys

VARIABLES
  version,    \* edits made so far to the source record of a key
  outbox,     \* events sent and not yet acknowledged
  created,    \* rows created so far in sync_jobs; its columns:
  status,     \*   'pending', 'processing', 'done', 'failed'
  key,        \*   integrationId and dedupeKey
  payload,    \*   the version carried, 0 for an id alone
  covers,     \*   ghost: newest change acknowledged onto the row
  attempts,   \*   claims so far
  due,        \*   has runAfter passed?
  stale,      \*   is lockedAt older than STALE_LOCK_MS?
  lockedBy,   \*   the worker of the last claim, or None
  event,      \* the event a sender is enqueueing, or None
  found,      \* the row its findFirst returned, or NoJob
  phase,      \* where a worker is in tick
  left,       \* jobs it may still take in this tick
  todo,       \* candidates of its claim transaction not yet visited
  busy,       \* keys with a processing row in that transaction's snapshot
  hand,       \* the job it is processing, or NoJob
  seen,       \* the version it works with, 0 while it holds only an id
  retry,      \* after a failure: will the job be tried again?
  stopped,    \* stop() was called
  synced,     \* ghost: highest version a finished sync worked with
  faults      \* ghost: faults so far

sourceVars == <<version, outbox>>
contentVars == <<created, key, payload, covers>>
lockVars == <<status, attempts, due, stale, lockedBy>>
tableVars == <<contentVars, lockVars>>
senderVars == <<event, found>>
claimVars == <<left, todo, busy>>
handVars == <<hand, seen, retry>>
ghostVars == <<synced, faults>>
vars == <<sourceVars, tableVars, senderVars, phase, claimVars, handVars,
          stopped, ghostVars>>

Statuses == {"absent", "pending", "processing", "done", "failed"}
Phases == {"idle", "polling", "walking", "claimed", "hydrated", "finished",
           "failing", "marking"}

Event == [key : Keys, version : Versions, carried : BOOLEAN]

ASSUME NoneIsNoEvent == None \notin Event

SourceOK ==
  /\ version \in [Keys -> Versions]
  /\ outbox \subseteq Event

TableOK ==
  /\ created \in 0 .. MaxJobs
  /\ status \in [Jobs -> Statuses]
  /\ key \in [Jobs -> Keys \cup {None}]
  /\ payload \in [Jobs -> Versions]
  /\ covers \in [Jobs -> Versions]
  /\ attempts \in [Jobs -> Nat]
  /\ due \in [Jobs -> BOOLEAN]
  /\ stale \in [Jobs -> BOOLEAN]
  /\ lockedBy \in [Jobs -> Workers \cup {None}]

SenderOK ==
  /\ event \in [Senders -> Event \cup {None}]
  /\ found \in [Senders -> Jobs \cup {NoJob}]

ClaimOK ==
  /\ phase \in [Workers -> Phases]
  /\ left \in [Workers -> 0 .. BatchSize]
  /\ todo \in [Workers -> SUBSET Jobs]
  /\ busy \in [Workers -> SUBSET Keys]
  /\ stopped \in [Workers -> BOOLEAN]

HandOK ==
  /\ hand \in [Workers -> Jobs \cup {NoJob}]
  /\ seen \in [Workers -> Versions]
  /\ retry \in [Workers -> BOOLEAN]

GhostOK ==
  /\ synced \in [Keys -> Versions]
  /\ faults \in 0 .. MaxFaults

(* Rows are created in order and never deleted, so that whatever a sender  *)
(* or a worker refers to exists and has a key.                             *)
RowsExist ==
  /\ \A j \in Jobs : IF j <= created
                     THEN status[j] # "absent" /\ key[j] \in Keys
                     ELSE status[j] = "absent" /\ key[j] = None
  /\ \A s \in Senders : found[s] <= created
  /\ \A w \in Workers : hand[w] <= created

(* A job is in hand exactly while it is being processed, and then this     *)
(* tick has room for it.                                                   *)
Busy == {"claimed", "hydrated", "finished", "failing", "marking"}

PhasesOK ==
  /\ \A w \in Workers : hand[w] # NoJob <=> phase[w] \in Busy
  /\ \A w \in Workers : phase[w] \in Busy \cup {"walking"} => left[w] > 0

(* TypeOK: every column, request and worker has a value of its type, and   *)
(* the two facts above hold.                                               *)
TypeOK ==
  /\ SourceOK
  /\ TableOK
  /\ SenderOK
  /\ ClaimOK
  /\ HandOK
  /\ GhostOK
  /\ RowsExist
  /\ PhasesOK

Init ==
  /\ version = [k \in Keys |-> 0]
  /\ outbox = {}
  /\ created = 0
  /\ status = [j \in Jobs |-> "absent"]
  /\ key = [j \in Jobs |-> None]
  /\ payload = [j \in Jobs |-> 0]
  /\ covers = [j \in Jobs |-> 0]
  /\ attempts = [j \in Jobs |-> 0]
  /\ due = [j \in Jobs |-> FALSE]
  /\ stale = [j \in Jobs |-> FALSE]
  /\ lockedBy = [j \in Jobs |-> None]
  /\ event = [s \in Senders |-> None]
  /\ found = [s \in Senders |-> NoJob]
  /\ phase = [w \in Workers |-> "idle"]
  /\ left = [w \in Workers |-> 0]
  /\ todo = [w \in Workers |-> {}]
  /\ busy = [w \in Workers |-> {}]
  /\ hand = [w \in Workers |-> NoJob]
  /\ seen = [w \in Workers |-> 0]
  /\ retry = [w \in Workers |-> FALSE]
  /\ stopped = [w \in Workers |-> FALSE]
  /\ synced = [k \in Keys |-> 0]
  /\ faults = 0

Larger(a, b) == IF a >= b THEN a ELSE b

Fault == faults < MaxFaults /\ faults' = faults + 1 /\ UNCHANGED synced

Pending(j) == status[j] = "pending"
Processing(j) == status[j] = "processing"
Held(j) == \E w \in Workers : hand[w] = j

-----------------------------------------------------------------------------
(* The outside: edits, events, and the reconcile sweep.                    *)

(* The record of k is edited; its system sends an event, with the record's *)
(* fields (OXID) or with its id alone (HubSpot).                           *)
Edit(k) ==
  /\ version[k] < MaxVersion
  /\ version' = [version EXCEPT ![k] = @ + 1]
  /\ outbox' = outbox \cup {[key |-> k, version |-> version[k] + 1,
                             carried |-> k \notin IdKeys]}
  /\ UNCHANGED <<tableVars, senderVars, phase, claimVars, handVars, stopped,
                 ghostVars>>

(* The sweep lists the record and is about to enqueue the fields it read.  *)
Sweep(k) ==
  /\ k \in SweptKeys
  /\ version[k] > 0
  /\ outbox' = outbox \cup {[key |-> k, version |-> version[k],
                             carried |-> TRUE]}
  /\ UNCHANGED <<version, tableVars, senderVars, phase, claimVars, handVars,
                 stopped, ghostVars>>

-----------------------------------------------------------------------------
(* enqueue: a findFirst, then an update of the row found or a create; no   *)
(* transaction holds the two together.                                     *)

(* Slip: the findFirst without its status filter. *)
AnyOpenRowFor(k) ==
  {j \in Jobs : key[j] = k /\ (Pending(j) \/ Processing(j))}

PendingFor(k) == {j \in Jobs : key[j] = k /\ Pending(j)}

(* An event stays in the outbox until it is acknowledged, so a second      *)
(* sender may be handed the same event: the source timed out and retried.  *)
EnqueueFind(s, e) ==
  /\ event[s] = None
  /\ event' = [event EXCEPT ![s] = e]
  /\ \/ /\ PendingFor(e.key) = {}
        /\ found' = [found EXCEPT ![s] = NoJob]
     \/ \E j \in PendingFor(e.key) :
          /\ \A i \in PendingFor(e.key) : j <= i
          /\ found' = [found EXCEPT ![s] = j]
  /\ UNCHANGED <<sourceVars, tableVars, phase, claimVars, handVars, stopped,
                 ghostVars>>

Carried(e) == IF e.carried THEN e.version ELSE 0

(* The sender has its answer; an acknowledged event leaves the outbox.     *)
Return(s) ==
  /\ event' = [event EXCEPT ![s] = None]
  /\ found' = [found EXCEPT ![s] = NoJob]
  /\ UNCHANGED <<version, phase, claimVars, handVars, stopped>>

(* The update names the row by id only: whatever its status is by now.     *)
EnqueueFold(s) ==
  LET e == event[s]
  IN /\ e # None
     /\ found[s] # NoJob
     /\ payload' = [payload EXCEPT ![found[s]] = Carried(e)]
     /\ due' = [due EXCEPT ![found[s]] = TRUE]
     /\ covers' = [covers EXCEPT ![found[s]] = Larger(@, e.version)]
     /\ outbox' = outbox \ {e}
     /\ Return(s)
     /\ UNCHANGED <<created, key, status, attempts, stale, lockedBy, ghostVars>>

EnqueueCreate(s) ==
  LET e == event[s]
  IN /\ e # None
     /\ found[s] = NoJob
     /\ created < MaxJobs
     /\ created' = created + 1
     /\ status' = [status EXCEPT ![created + 1] = "pending"]
     /\ key' = [key EXCEPT ![created + 1] = e.key]
     /\ payload' = [payload EXCEPT ![created + 1] = Carried(e)]
     /\ covers' = [covers EXCEPT ![created + 1] = e.version]
     /\ due' = [due EXCEPT ![created + 1] = TRUE]
     /\ outbox' = outbox \ {e}
     /\ Return(s)
     /\ UNCHANGED <<attempts, stale, lockedBy, ghostVars>>

(* The web process dies or the database refuses: no acknowledgement, the   *)
(* source still has the event and sends it again.                          *)
EnqueueError(s) ==
  /\ event[s] # None
  /\ Fault
  /\ Return(s)
  /\ UNCHANGED <<outbox, tableVars>>

-----------------------------------------------------------------------------
(* Time.                                                                   *)

BecomeDue(j) ==
  /\ Pending(j)
  /\ ~due[j]
  /\ due' = [due EXCEPT ![j] = TRUE]
  /\ UNCHANGED <<contentVars, status, attempts, stale, lockedBy, sourceVars,
                 senderVars, phase, claimVars, handVars, stopped, ghostVars>>

(* lockedAt falls behind the cutoff: always in the end when the worker is  *)
(* gone, and, when SlowWorkers, also under a worker that still runs.       *)
BecomeStale(j) ==
  /\ Processing(j)
  /\ ~stale[j]
  /\ \/ ~Held(j) /\ UNCHANGED ghostVars
     \/ SlowWorkers /\ Held(j) /\ Fault
  /\ stale' = [stale EXCEPT ![j] = TRUE]
  /\ UNCHANGED <<contentVars, status, attempts, due, lockedBy, sourceVars,
                 senderVars, phase, claimVars, handVars, stopped>>

-----------------------------------------------------------------------------
(* tick: reclaim, then up to BatchSize times claim and process.            *)

(* Slips: the age test forgotten; no row ever matched. *)
AnyLock(j) == Processing(j)
NoLock(j) == FALSE

Reclaimable(j) == Processing(j) /\ stale[j]

ReclaimStale(w) ==
  /\ phase[w] = "idle"
  /\ ~stopped[w]
  /\ status' = [j \in Jobs |-> IF Reclaimable(j) THEN "pending" ELSE status[j]]
  /\ stale' = [j \in Jobs |-> stale[j] /\ ~Reclaimable(j)]
  /\ lockedBy' = [j \in Jobs |-> IF Reclaimable(j) THEN None ELSE lockedBy[j]]
  /\ phase' = [phase EXCEPT ![w] = "polling"]
  /\ left' = [left EXCEPT ![w] = BatchSize]
  /\ UNCHANGED <<contentVars, attempts, due, sourceVars, senderVars, todo, busy,
                 handVars, stopped, ghostVars>>

(* Slip: a batch that never ends. *)
NeverUsedUp(w) == TRUE

BatchLeft(w) == left[w] > 0

(* The claim transaction takes its snapshot: the due candidates (take: 25  *)
(* of them, more than any instance here holds) and the keys that are being *)
(* processed, which every later `blocked` query of it reads.               *)
ClaimBegin(w) ==
  /\ phase[w] = "polling"
  /\ BatchLeft(w)
  /\ phase' = [phase EXCEPT ![w] = "walking"]
  /\ todo' = [todo EXCEPT ![w] = {j \in Jobs : Pending(j) /\ due[j]}]
  /\ busy' = [busy EXCEPT ![w] = {k \in Keys :
                                \E j \in Jobs : Processing(j) /\ key[j] = k}]
  /\ UNCHANGED <<sourceVars, tableVars, senderVars, left, handVars, stopped,
                 ghostVars>>

(* Slip: the updateMany without its status = 'pending' condition. *)
NotBlocked(w, j) == key[j] \notin busy[w]

Claimable(w, j) == key[j] \notin busy[w] /\ Pending(j)

(* A candidate whose key was being processed in the snapshot, or that is   *)
(* no longer pending (count # 1), is passed over.  Candidates are visited  *)
(* in any order: no property here depends on ORDER BY runAfter.            *)
ClaimSkip(w, j) ==
  /\ phase[w] = "walking"
  /\ j \in todo[w]
  /\ ~Claimable(w, j)
  /\ todo' = [todo EXCEPT ![w] = @ \ {j}]
  /\ UNCHANGED <<sourceVars, tableVars, senderVars, phase, left, busy,
                 handVars, stopped, ghostVars>>

(* updateMany WHERE id AND status = 'pending', then commit.  The worker    *)
(* takes the payload of that moment with it.                               *)
Claim(w, j) ==
  /\ phase[w] = "walking"
  /\ j \in todo[w]
  /\ Claimable(w, j)
  /\ status' = [status EXCEPT ![j] = "processing"]
  /\ lockedBy' = [lockedBy EXCEPT ![j] = w]
  /\ stale' = [stale EXCEPT ![j] = FALSE]
  /\ attempts' = [attempts EXCEPT ![j] = @ + 1]
  /\ hand' = [hand EXCEPT ![w] = j]
  /\ seen' = [seen EXCEPT ![w] = payload[j]]
  /\ phase' = [phase EXCEPT ![w] = "claimed"]
  /\ todo' = [todo EXCEPT ![w] = {}]
  /\ busy' = [busy EXCEPT ![w] = {}]
  /\ UNCHANGED <<contentVars, due, sourceVars, senderVars, left, retry,
                 stopped, ghostVars>>

(* The memory of a worker that has left its tick, or was just started.     *)
Forget(w) ==
  /\ phase' = [phase EXCEPT ![w] = "idle"]
  /\ left' = [left EXCEPT ![w] = 0]
  /\ todo' = [todo EXCEPT ![w] = {}]
  /\ busy' = [busy EXCEPT ![w] = {}]
  /\ hand' = [hand EXCEPT ![w] = NoJob]
  /\ seen' = [seen EXCEPT ![w] = 0]
  /\ retry' = [retry EXCEPT ![w] = FALSE]
  /\ UNCHANGED <<sourceVars, tableVars, senderVars>>

(* Nothing to claim, the batch is used up, or the database refused.        *)
TickEnd(w) ==
  /\ \/ phase[w] = "walking" /\ todo[w] = {} /\ UNCHANGED ghostVars
     \/ phase[w] = "polling" /\ ~BatchLeft(w) /\ UNCHANGED ghostVars
     \/ phase[w] \in {"polling", "walking"} /\ Fault
  /\ Forget(w)
  /\ UNCHANGED stopped

-----------------------------------------------------------------------------
(* process: hydrate, sync, and settle the row by its id.                   *)

KeyInHand(w) == key[hand[w]]

(* The worker moves on within the processing of one job.                   *)
Proceed(w, to) ==
  /\ phase' = [phase EXCEPT ![w] = to]
  /\ UNCHANGED <<sourceVars, tableVars, senderVars, claimVars, hand, stopped>>

(* A payload with fields is used as it is; an id is looked up.             *)
Hydrate(w) ==
  /\ phase[w] = "claimed"
  /\ seen' = [seen EXCEPT ![w] = IF @ = 0 THEN version[KeyInHand(w)] ELSE @]
  /\ Proceed(w, "hydrated")
  /\ UNCHANGED <<retry, ghostVars>>

(* syncContact or processClosedOrder returns, whatever it decided to do.   *)
Sync(w) ==
  /\ phase[w] = "hydrated"
  /\ synced' = [synced EXCEPT ![KeyInHand(w)] = Larger(@, seen[w])]
  /\ Proceed(w, "finished")
  /\ UNCHANGED <<seen, retry, faults>>

(* It throws instead; `retryable` is what the error says of itself.        *)
SyncThrows(w) ==
  /\ phase[w] \in {"claimed", "hydrated"}
  /\ \E retryable \in BOOLEAN : retry' = [retry EXCEPT ![w] = retryable]
  /\ Proceed(w, "failing")
  /\ UNCHANGED <<seen, ghostVars>>

(* The database refuses markDone: process catches that like any error.     *)
MarkDoneThrows(w) ==
  /\ phase[w] = "finished"
  /\ Fault
  /\ retry' = [retry EXCEPT ![w] = TRUE]
  /\ Proceed(w, "failing")
  /\ UNCHANGED seen

(* Slip: exhausted one attempt late. *)
ExhaustedLate(j) == attempts[j] > MaxAttempts

Exhausted(j) == attempts[j] >= MaxAttempts

(* markFailed reads the row ... *)
MarkFailedRead(w) ==
  /\ phase[w] = "failing"
  /\ retry' = [retry EXCEPT ![w] = @ /\ ~Exhausted(hand[w])]
  /\ Proceed(w, "marking")
  /\ UNCHANGED <<seen, ghostVars>>

(* The row is written and the worker goes on to the next claim.            *)
Settle(w, result, isDue) ==
  /\ status' = [status EXCEPT ![hand[w]] = result]
  /\ due' = [due EXCEPT ![hand[w]] = isDue]
  /\ stale' = [stale EXCEPT ![hand[w]] = FALSE]
  /\ lockedBy' = [lockedBy EXCEPT ![hand[w]] = None]
  /\ phase' = [phase EXCEPT ![w] = "polling"]
  /\ left' = [left EXCEPT ![w] = @ - 1]
  /\ hand' = [hand EXCEPT ![w] = NoJob]
  /\ seen' = [seen EXCEPT ![w] = 0]
  /\ retry' = [retry EXCEPT ![w] = FALSE]
  /\ UNCHANGED <<contentVars, attempts, sourceVars, senderVars, todo, busy,
                 stopped, ghostVars>>

MarkDone(w) ==
  /\ phase[w] = "finished"
  /\ Settle(w, "done", due[hand[w]])

(* Slip: a job that is given up is filed as done. *)
VerdictDone(w) == IF retry[w] THEN "pending" ELSE "done"

Verdict(w) == IF retry[w] THEN "pending" ELSE "failed"

(* ... and then writes what it decided; a retry waits for its backoff.     *)
MarkFailedWrite(w) ==
  /\ phase[w] = "marking"
  /\ Settle(w, Verdict(w), due[hand[w]] /\ ~retry[w])

(* markFailed itself throws: tick gives up and the row stays processing.   *)
MarkFailedThrows(w) ==
  /\ phase[w] \in {"failing", "marking"}
  /\ Fault
  /\ Forget(w)
  /\ UNCHANGED stopped

-----------------------------------------------------------------------------
(* Process life cycle.                                                     *)

(* The process dies and is started again; its row stays processing.        *)
Crash(w) ==
  /\ phase[w] # "idle"
  /\ Fault
  /\ Forget(w)
  /\ stopped' = [stopped EXCEPT ![w] = FALSE]

(* SIGTERM: no further tick begins, the tick under way runs to its end.    *)
Stop(w) ==
  /\ ~stopped[w]
  /\ Fault
  /\ stopped' = [stopped EXCEPT ![w] = TRUE]
  /\ UNCHANGED <<sourceVars, tableVars, senderVars, phase, claimVars, handVars>>

(* stop() has returned, the process exits, and a new one is deployed.      *)
Restart(w) ==
  /\ stopped[w]
  /\ phase[w] = "idle"
  /\ stopped' = [stopped EXCEPT ![w] = FALSE]
  /\ UNCHANGED <<sourceVars, tableVars, senderVars, phase, claimVars, handVars,
                 ghostVars>>

-----------------------------------------------------------------------------
EnqueueStep(s) ==
  \/ \E e \in outbox : EnqueueFind(s, e)
  \/ EnqueueFold(s)
  \/ EnqueueCreate(s)

WorkerStep(w) ==
  \/ ReclaimStale(w)
  \/ ClaimBegin(w)
  \/ \E j \in Jobs : ClaimSkip(w, j) \/ Claim(w, j)
  \/ TickEnd(w)
  \/ Hydrate(w)
  \/ Sync(w)
  \/ SyncThrows(w)
  \/ MarkDone(w)
  \/ MarkFailedRead(w)
  \/ MarkFailedWrite(w)
  \/ Restart(w)

FaultStep(w) ==
  \/ MarkDoneThrows(w)
  \/ MarkFailedThrows(w)
  \/ Crash(w)
  \/ Stop(w)

Next ==
  \/ \E k \in Keys : Edit(k) \/ Sweep(k)
  \/ \E s \in Senders : EnqueueStep(s) \/ EnqueueError(s)
  \/ \E j \in Jobs : BecomeDue(j) \/ BecomeStale(j)
  \/ \E w \in Workers : WorkerStep(w) \/ FaultStep(w)

Spec == Init /\ [][Next]_vars

(* The poll timer keeps firing, outside calls return or time out, senders  *)
(* retry, and clocks advance.  Nothing is fair about edits and faults.     *)
Fairness ==
  /\ \A s \in Senders : WF_vars(EnqueueStep(s))
  /\ \A j \in Jobs : WF_vars(BecomeDue(j)) /\ WF_vars(BecomeStale(j))
  /\ \A w \in Workers : WF_vars(WorkerStep(w))

FairSpec == Spec /\ Fairness
=============================================================================
