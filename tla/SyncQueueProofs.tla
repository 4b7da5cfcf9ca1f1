-------------------------- MODULE SyncQueueProofs ---------------------------
(***************************************************************************)
(* Theorems about SyncQueue, for every set of keys, workers and senders    *)
(* and every value of the bounds.                                          *)
(***************************************************************************)
EXTENDS SyncQueueProperties, TLAPS, FiniteSetTheorems

(* Every variable starts with a value of its type ... *)
LEMMA TypeInit == Init => TypeOK
  BY SyncQueueAssumption
  DEF Init, TypeOK, SourceOK, TableOK, SenderOK, ClaimOK, HandOK, GhostOK,
      RowsExist, PhasesOK, Jobs, NoJob, Versions, Event, Phases, Statuses, Busy

(* What an event is made of. *)
LEMMA EventFields ==
  ASSUME NEW e \in Event
  PROVE  /\ e.key \in Keys
         /\ e.version \in Versions
         /\ e.carried \in BOOLEAN
         /\ Carried(e) \in Versions
  BY SyncQueueAssumption DEF Event, Carried, Versions

(* ... and every step gives it one. *)
LEMMA TypeStep == TypeOK /\ [Next]_vars => TypeOK'
  <1> USE SyncQueueAssumption
  <1> SUFFICES ASSUME TypeOK, [Next]_vars PROVE TypeOK'
    OBVIOUS
  <1> USE DEF TypeOK, sourceVars, contentVars, lockVars, tableVars, senderVars,
              claimVars, handVars, ghostVars
  <1>1. ASSUME NEW k \in Keys, Edit(k) PROVE TypeOK'
    <2>1. TableOK' /\ SenderOK' /\ ClaimOK' /\ HandOK' /\ GhostOK' /\ RowsExist' /\ PhasesOK'
      BY <1>1
      DEF Edit, TableOK, SenderOK, ClaimOK, HandOK, GhostOK, RowsExist,
          PhasesOK
    <2>2. SourceOK'
      <3> DEFINE e == [key |-> k, version |-> version[k] + 1,
                       carried |-> k \notin IdKeys]
      <3>1. version[k] + 1 \in Versions
        BY <1>1 DEF Edit, SourceOK, Versions
      <3>2. (k \notin IdKeys) \in BOOLEAN
        OBVIOUS
      <3>3. e \in Event
        BY <3>1, <3>2 DEF Event
      <3>4. version' \in [Keys -> Versions]
        BY <1>1, <3>1 DEF Edit, SourceOK
      <3>5. outbox' = outbox \cup {e}
        BY <1>1 DEF Edit
      <3> HIDE DEF e
      <3> QED
        BY <3>3, <3>4, <3>5 DEF SourceOK
    <2> QED
      BY <2>1, <2>2
  <1>2. ASSUME NEW k \in Keys, Sweep(k) PROVE TypeOK'
    <2>1. TableOK' /\ SenderOK' /\ ClaimOK' /\ HandOK' /\ GhostOK' /\ RowsExist' /\ PhasesOK'
      BY <1>2
      DEF Sweep, TableOK, SenderOK, ClaimOK, HandOK, GhostOK, RowsExist,
          PhasesOK
    <2>2. SourceOK'
      <3> DEFINE e == [key |-> k, version |-> version[k], carried |-> TRUE]
      <3>1. e \in Event
        BY DEF Event, SourceOK
      <3>2. outbox' = outbox \cup {e} /\ version' = version
        BY <1>2 DEF Sweep
      <3> HIDE DEF e
      <3> QED
        BY <3>1, <3>2 DEF SourceOK
    <2> QED
      BY <2>1, <2>2
  <1>3. ASSUME NEW s \in Senders, NEW e \in outbox, EnqueueFind(s, e) PROVE TypeOK'
    <2>1. SourceOK' /\ TableOK' /\ ClaimOK' /\ HandOK' /\ GhostOK' /\ PhasesOK'
      BY <1>3
      DEF EnqueueFind, SourceOK, TableOK, ClaimOK, HandOK, GhostOK, PhasesOK
    <2>2. SenderOK'
      BY <1>3 DEF EnqueueFind, PendingFor, SourceOK, SenderOK
    <2>3. RowsExist'
      <3>1. \A j \in PendingFor(e.key) : j <= created
        BY DEF PendingFor, Pending, RowsExist
      <3>2. \A t \in Senders : found'[t] <= created
        BY <1>3, <3>1 DEF EnqueueFind, RowsExist, SenderOK, TableOK, NoJob
      <3> QED
        BY <1>3, <3>2 DEF EnqueueFind, RowsExist
    <2> QED
      BY <2>1, <2>2, <2>3
  <1>4. ASSUME NEW s \in Senders, EnqueueFold(s) PROVE TypeOK'
    <2>1. ClaimOK' /\ HandOK' /\ GhostOK' /\ PhasesOK'
      BY <1>4 DEF EnqueueFold, Return, ClaimOK, HandOK, GhostOK, PhasesOK
    <2>2. SourceOK'
      BY <1>4
      DEF EnqueueFold, Return, SourceOK, RowsExist, PhasesOK, Busy, Jobs, NoJob
    <2>3. TableOK'
      <3>1. event[s] \in Event /\ found[s] \in Jobs
        BY <1>4 DEF EnqueueFold, SenderOK
      <3>2. event[s].version \in Versions /\ Carried(event[s]) \in Versions
        BY <3>1, EventFields
      <3>3. Larger(covers[found[s]], event[s].version) \in Versions
        BY <3>1, <3>2 DEF Larger, TableOK
      <3> QED
        BY <1>4, <3>1, <3>2, <3>3 DEF EnqueueFold, TableOK
    <2>4. SenderOK'
      BY <1>4
      DEF EnqueueFold, Return, SenderOK, RowsExist, PhasesOK, Busy, Jobs, NoJob
    <2>5. RowsExist'
      BY <1>4
      DEF EnqueueFold, Return, RowsExist, SenderOK, HandOK, TableOK, Jobs,
          NoJob
    <2> QED
      BY <2>1, <2>2, <2>3, <2>4, <2>5
  <1>5. ASSUME NEW s \in Senders, EnqueueCreate(s) PROVE TypeOK'
    <2>1. ClaimOK' /\ HandOK' /\ GhostOK' /\ PhasesOK'
      BY <1>5 DEF EnqueueCreate, Return, ClaimOK, HandOK, GhostOK, PhasesOK
    <2>2. SourceOK'
      BY <1>5
      DEF EnqueueCreate, Return, SourceOK, RowsExist, PhasesOK, Busy, Jobs,
          NoJob
    <2>3. TableOK'
      <3>1. event[s] \in Event
        BY <1>5 DEF EnqueueCreate, SenderOK
      <3>2. /\ event[s].key \in Keys
            /\ event[s].version \in Versions
            /\ Carried(event[s]) \in Versions
        BY <3>1, EventFields
      <3>3. created + 1 \in Jobs /\ created + 1 \in 0 .. MaxJobs
        BY <1>5 DEF EnqueueCreate, TableOK, Jobs
      <3> QED
        BY <1>5, <3>2, <3>3 DEF EnqueueCreate, TableOK, Statuses
    <2>4. SenderOK'
      BY <1>5
      DEF EnqueueCreate, Return, SenderOK, RowsExist, PhasesOK, Busy, Jobs,
          NoJob
    <2>5. RowsExist'
      <3>1. event[s].key \in Keys
        BY <1>5, EventFields DEF EnqueueCreate, SenderOK
      <3>2. \A w \in Workers : hand'[w] <= created'
        <4>1. UNCHANGED hand /\ created' = created + 1
          BY <1>5 DEF EnqueueCreate, Return, handVars
        <4>2. created \in Nat
          BY DEF TableOK
        <4>3. \A w \in Workers : hand[w] \in Nat /\ hand[w] <= created
          BY DEF RowsExist, HandOK, Jobs, NoJob
        <4> QED
          BY <4>1, <4>2, <4>3
      <3>3. \A t \in Senders : found'[t] <= created'
        BY <1>5
        DEF EnqueueCreate, Return, RowsExist, SenderOK, TableOK, Jobs, NoJob
      <3>4. \A j \in Jobs : IF j <= created'
                            THEN status'[j] # "absent" /\ key'[j] \in Keys
                            ELSE status'[j] = "absent" /\ key'[j] = None
        BY <1>5, <3>1 DEF EnqueueCreate, RowsExist, TableOK, Jobs
      <3> QED
        BY <3>2, <3>3, <3>4 DEF RowsExist
    <2> QED
      BY <2>1, <2>2, <2>3, <2>4, <2>5
  <1>6. ASSUME NEW s \in Senders, EnqueueError(s) PROVE TypeOK'
    <2>1. SourceOK' /\ TableOK' /\ ClaimOK' /\ HandOK' /\ PhasesOK'
      BY <1>6
      DEF EnqueueError, Return, Fault, SourceOK, TableOK, ClaimOK, HandOK,
          PhasesOK
    <2>2. SenderOK'
      BY <1>6 DEF EnqueueError, Return, Fault, SenderOK
    <2>3. GhostOK'
      BY <1>6 DEF EnqueueError, Return, Fault, GhostOK
    <2>4. RowsExist'
      BY <1>6
      DEF EnqueueError, Return, Fault, RowsExist, SenderOK, HandOK, TableOK,
          Jobs, NoJob
    <2> QED
      BY <2>1, <2>2, <2>3, <2>4
  <1>7. ASSUME NEW j \in Jobs, BecomeDue(j) PROVE TypeOK'
    <2>1. SourceOK' /\ SenderOK' /\ ClaimOK' /\ HandOK' /\ GhostOK' /\ RowsExist' /\ PhasesOK'
      BY <1>7
      DEF BecomeDue, SourceOK, SenderOK, ClaimOK, HandOK, GhostOK, RowsExist,
          PhasesOK
    <2>2. TableOK'
      BY <1>7 DEF BecomeDue, TableOK
    <2> QED
      BY <2>1, <2>2
  <1>8. ASSUME NEW j \in Jobs, BecomeStale(j) PROVE TypeOK'
    <2>1. SourceOK' /\ SenderOK' /\ ClaimOK' /\ HandOK' /\ RowsExist' /\ PhasesOK'
      BY <1>8
      DEF BecomeStale, Fault, SourceOK, SenderOK, ClaimOK, HandOK, RowsExist,
          PhasesOK
    <2>2. TableOK'
      BY <1>8 DEF BecomeStale, Fault, TableOK
    <2>3. GhostOK'
      BY <1>8 DEF BecomeStale, Fault, GhostOK
    <2> QED
      BY <2>1, <2>2, <2>3
  <1>9. ASSUME NEW w \in Workers, ReclaimStale(w) PROVE TypeOK'
    <2>1. SourceOK' /\ SenderOK' /\ HandOK' /\ GhostOK'
      BY <1>9 DEF ReclaimStale, SourceOK, SenderOK, HandOK, GhostOK
    <2>2. TableOK'
      BY <1>9
      DEF ReclaimStale, TableOK, Statuses, RowsExist, PhasesOK, Busy, Jobs,
          NoJob
    <2>3. ClaimOK'
      BY <1>9
      DEF ReclaimStale, ClaimOK, Phases, RowsExist, PhasesOK, Busy, Jobs, NoJob
    <2>4. RowsExist'
      BY <1>9
      DEF ReclaimStale, RowsExist, SenderOK, HandOK, TableOK, Jobs, NoJob,
          Reclaimable, Processing
    <2>5. PhasesOK'
      BY <1>9 DEF ReclaimStale, PhasesOK, ClaimOK, HandOK, Busy, Jobs, NoJob
    <2> QED
      BY <2>1, <2>2, <2>3, <2>4, <2>5
  <1>10. ASSUME NEW w \in Workers, ClaimBegin(w) PROVE TypeOK'
    <2>1. SourceOK' /\ TableOK' /\ SenderOK' /\ HandOK' /\ GhostOK' /\ RowsExist'
      BY <1>10
      DEF ClaimBegin, BatchLeft, SourceOK, TableOK, SenderOK, HandOK, GhostOK,
          RowsExist
    <2>2. ClaimOK'
      BY <1>10
      DEF ClaimBegin, BatchLeft, ClaimOK, Phases, RowsExist, PhasesOK, Busy,
          Jobs, NoJob
    <2>3. PhasesOK'
      BY <1>10
      DEF ClaimBegin, BatchLeft, PhasesOK, ClaimOK, HandOK, Busy, Jobs, NoJob
    <2> QED
      BY <2>1, <2>2, <2>3
  <1>11. ASSUME NEW w \in Workers, NEW j \in Jobs, ClaimSkip(w, j) PROVE TypeOK'
    <2>1. SourceOK' /\ TableOK' /\ SenderOK' /\ HandOK' /\ GhostOK' /\ RowsExist' /\ PhasesOK'
      BY <1>11
      DEF ClaimSkip, SourceOK, TableOK, SenderOK, HandOK, GhostOK, RowsExist,
          PhasesOK
    <2>2. ClaimOK'
      BY <1>11 DEF ClaimSkip, ClaimOK
    <2> QED
      BY <2>1, <2>2
  <1>12. ASSUME NEW w \in Workers, NEW j \in Jobs, Claim(w, j) PROVE TypeOK'
    <2>1. SourceOK' /\ SenderOK' /\ GhostOK'
      BY <1>12 DEF Claim, SourceOK, SenderOK, GhostOK
    <2>2. TableOK'
      BY <1>12
      DEF Claim, TableOK, Statuses, RowsExist, PhasesOK, Busy, Jobs, NoJob
    <2>3. ClaimOK'
      BY <1>12
      DEF Claim, ClaimOK, Phases, RowsExist, PhasesOK, Busy, Jobs, NoJob
    <2>4. HandOK'
      BY <1>12
      DEF Claim, HandOK, TableOK, RowsExist, PhasesOK, Busy, Jobs, NoJob
    <2>5. RowsExist'
      BY <1>12
      DEF Claim, RowsExist, SenderOK, HandOK, TableOK, Jobs, NoJob, Claimable,
          Pending
    <2>6. PhasesOK'
      BY <1>12 DEF Claim, PhasesOK, ClaimOK, HandOK, Busy, Jobs, NoJob
    <2> QED
      BY <2>1, <2>2, <2>3, <2>4, <2>5, <2>6
  <1>13. ASSUME NEW w \in Workers, TickEnd(w) PROVE TypeOK'
    <2>1. SourceOK' /\ TableOK' /\ SenderOK'
      BY <1>13 DEF TickEnd, Forget, Fault, SourceOK, TableOK, SenderOK
    <2>2. ClaimOK'
      BY <1>13 DEF TickEnd, Forget, Fault, ClaimOK, Phases
    <2>3. HandOK'
      BY <1>13 DEF TickEnd, Forget, Fault, HandOK, Versions
    <2>4. GhostOK'
      BY <1>13 DEF TickEnd, Forget, Fault, GhostOK
    <2>5. RowsExist'
      BY <1>13
      DEF TickEnd, Forget, Fault, RowsExist, SenderOK, HandOK, TableOK, Jobs,
          NoJob
    <2>6. PhasesOK'
      BY <1>13
      DEF TickEnd, Forget, Fault, PhasesOK, ClaimOK, HandOK, Busy, Jobs, NoJob
    <2> QED
      BY <2>1, <2>2, <2>3, <2>4, <2>5, <2>6
  <1>14. ASSUME NEW w \in Workers, Hydrate(w) PROVE TypeOK'
    <2>1. SourceOK' /\ TableOK' /\ SenderOK' /\ GhostOK' /\ RowsExist'
      BY <1>14
      DEF Hydrate, Proceed, SourceOK, TableOK, SenderOK, GhostOK, RowsExist
    <2>2. ClaimOK'
      BY <1>14
      DEF Hydrate, Proceed, ClaimOK, Phases, RowsExist, PhasesOK, Busy, Jobs,
          NoJob
    <2>3. HandOK'
      BY <1>14
      DEF Hydrate, Proceed, HandOK, SourceOK, KeyInHand, Versions, RowsExist,
          PhasesOK, Busy, Jobs, NoJob
    <2>4. PhasesOK'
      BY <1>14
      DEF Hydrate, Proceed, PhasesOK, ClaimOK, HandOK, Busy, Jobs, NoJob
    <2> QED
      BY <2>1, <2>2, <2>3, <2>4
  <1>15. ASSUME NEW w \in Workers, Sync(w) PROVE TypeOK'
    <2>1. SourceOK' /\ TableOK' /\ SenderOK' /\ HandOK' /\ RowsExist'
      BY <1>15
      DEF Sync, Proceed, SourceOK, TableOK, SenderOK, HandOK, RowsExist
    <2>2. ClaimOK'
      BY <1>15
      DEF Sync, Proceed, ClaimOK, Phases, RowsExist, PhasesOK, Busy, Jobs,
          NoJob
    <2>3. GhostOK'
      BY <1>15
      DEF Sync, Proceed, GhostOK, HandOK, KeyInHand, Larger, Versions,
          RowsExist, PhasesOK, Busy, Jobs, NoJob
    <2>4. PhasesOK'
      BY <1>15 DEF Sync, Proceed, PhasesOK, ClaimOK, HandOK, Busy, Jobs, NoJob
    <2> QED
      BY <2>1, <2>2, <2>3, <2>4
  <1>16. ASSUME NEW w \in Workers, SyncThrows(w) PROVE TypeOK'
    <2>1. SourceOK' /\ TableOK' /\ SenderOK' /\ GhostOK' /\ RowsExist'
      BY <1>16
      DEF SyncThrows, Proceed, SourceOK, TableOK, SenderOK, GhostOK, RowsExist
    <2>2. ClaimOK'
      BY <1>16 DEF SyncThrows, Proceed, ClaimOK, Phases
    <2>3. HandOK'
      BY <1>16 DEF SyncThrows, Proceed, HandOK
    <2>4. PhasesOK'
      BY <1>16
      DEF SyncThrows, Proceed, PhasesOK, ClaimOK, HandOK, Busy, Jobs, NoJob
    <2> QED
      BY <2>1, <2>2, <2>3, <2>4
  <1>17. ASSUME NEW w \in Workers, MarkDone(w) PROVE TypeOK'
    <2>1. SourceOK' /\ SenderOK' /\ GhostOK'
      BY <1>17 DEF MarkDone, Settle, SourceOK, SenderOK, GhostOK
    <2>2. TableOK'
      BY <1>17
      DEF MarkDone, Settle, TableOK, HandOK, Statuses, RowsExist, PhasesOK,
          Busy, Jobs, NoJob
    <2>3. ClaimOK'
      BY <1>17
      DEF MarkDone, Settle, ClaimOK, Phases, RowsExist, PhasesOK, Busy, Jobs,
          NoJob
    <2>4. HandOK'
      BY <1>17
      DEF MarkDone, Settle, HandOK, Versions, RowsExist, PhasesOK, Busy, Jobs,
          NoJob
    <2>5. RowsExist'
      BY <1>17
      DEF MarkDone, Settle, RowsExist, SenderOK, HandOK, TableOK, Jobs, NoJob
    <2>6. PhasesOK'
      BY <1>17
      DEF MarkDone, Settle, PhasesOK, ClaimOK, HandOK, Busy, Jobs, NoJob
    <2> QED
      BY <2>1, <2>2, <2>3, <2>4, <2>5, <2>6
  <1>18. ASSUME NEW w \in Workers, MarkFailedRead(w) PROVE TypeOK'
    <2>1. SourceOK' /\ TableOK' /\ SenderOK' /\ GhostOK' /\ RowsExist'
      BY <1>18
      DEF MarkFailedRead, Proceed, SourceOK, TableOK, SenderOK, GhostOK,
          RowsExist
    <2>2. ClaimOK'
      BY <1>18 DEF MarkFailedRead, Proceed, ClaimOK, Phases
    <2>3. HandOK'
      BY <1>18 DEF MarkFailedRead, Proceed, HandOK
    <2>4. PhasesOK'
      BY <1>18
      DEF MarkFailedRead, Proceed, PhasesOK, ClaimOK, HandOK, Busy, Jobs, NoJob
    <2> QED
      BY <2>1, <2>2, <2>3, <2>4
  <1>19. ASSUME NEW w \in Workers, MarkFailedWrite(w) PROVE TypeOK'
    <2>1. SourceOK' /\ SenderOK' /\ GhostOK'
      BY <1>19 DEF MarkFailedWrite, Settle, SourceOK, SenderOK, GhostOK
    <2>2. TableOK'
      BY <1>19
      DEF MarkFailedWrite, Settle, TableOK, HandOK, Verdict, Statuses,
          RowsExist, PhasesOK, Busy, Jobs, NoJob
    <2>3. ClaimOK'
      BY <1>19
      DEF MarkFailedWrite, Settle, ClaimOK, Phases, RowsExist, PhasesOK, Busy,
          Jobs, NoJob
    <2>4. HandOK'
      BY <1>19
      DEF MarkFailedWrite, Settle, HandOK, Versions, RowsExist, PhasesOK, Busy,
          Jobs, NoJob
    <2>5. RowsExist'
      BY <1>19
      DEF MarkFailedWrite, Settle, RowsExist, SenderOK, HandOK, TableOK, Jobs,
          NoJob, Verdict
    <2>6. PhasesOK'
      BY <1>19
      DEF MarkFailedWrite, Settle, PhasesOK, ClaimOK, HandOK, Busy, Jobs, NoJob
    <2> QED
      BY <2>1, <2>2, <2>3, <2>4, <2>5, <2>6
  <1>20. ASSUME NEW w \in Workers, Restart(w) PROVE TypeOK'
    <2>1. SourceOK' /\ TableOK' /\ SenderOK' /\ HandOK' /\ GhostOK' /\ RowsExist' /\ PhasesOK'
      BY <1>20
      DEF Restart, SourceOK, TableOK, SenderOK, HandOK, GhostOK, RowsExist,
          PhasesOK
    <2>2. ClaimOK'
      BY <1>20 DEF Restart, ClaimOK
    <2> QED
      BY <2>1, <2>2
  <1>21. ASSUME NEW w \in Workers, MarkDoneThrows(w) PROVE TypeOK'
    <2>1. SourceOK' /\ TableOK' /\ SenderOK' /\ RowsExist'
      BY <1>21
      DEF MarkDoneThrows, Proceed, Fault, SourceOK, TableOK, SenderOK,
          RowsExist
    <2>2. ClaimOK'
      BY <1>21 DEF MarkDoneThrows, Proceed, Fault, ClaimOK, Phases
    <2>3. HandOK'
      BY <1>21 DEF MarkDoneThrows, Proceed, Fault, HandOK
    <2>4. GhostOK'
      BY <1>21 DEF MarkDoneThrows, Proceed, Fault, GhostOK
    <2>5. PhasesOK'
      BY <1>21
      DEF MarkDoneThrows, Proceed, Fault, PhasesOK, ClaimOK, HandOK, Busy,
          Jobs, NoJob
    <2> QED
      BY <2>1, <2>2, <2>3, <2>4, <2>5
  <1>22. ASSUME NEW w \in Workers, MarkFailedThrows(w) PROVE TypeOK'
    <2>1. SourceOK' /\ TableOK' /\ SenderOK'
      BY <1>22 DEF MarkFailedThrows, Forget, Fault, SourceOK, TableOK, SenderOK
    <2>2. ClaimOK'
      BY <1>22 DEF MarkFailedThrows, Forget, Fault, ClaimOK, Phases
    <2>3. HandOK'
      BY <1>22 DEF MarkFailedThrows, Forget, Fault, HandOK, Versions
    <2>4. GhostOK'
      BY <1>22 DEF MarkFailedThrows, Forget, Fault, GhostOK
    <2>5. RowsExist'
      BY <1>22
      DEF MarkFailedThrows, Forget, Fault, RowsExist, SenderOK, HandOK,
          TableOK, Jobs, NoJob
    <2>6. PhasesOK'
      BY <1>22
      DEF MarkFailedThrows, Forget, Fault, PhasesOK, ClaimOK, HandOK, Busy,
          Jobs, NoJob
    <2> QED
      BY <2>1, <2>2, <2>3, <2>4, <2>5, <2>6
  <1>23. ASSUME NEW w \in Workers, Crash(w) PROVE TypeOK'
    <2>1. SourceOK' /\ TableOK' /\ SenderOK'
      BY <1>23 DEF Crash, Forget, Fault, SourceOK, TableOK, SenderOK
    <2>2. ClaimOK'
      BY <1>23 DEF Crash, Forget, Fault, ClaimOK, Phases
    <2>3. HandOK'
      BY <1>23 DEF Crash, Forget, Fault, HandOK, Versions
    <2>4. GhostOK'
      BY <1>23 DEF Crash, Forget, Fault, GhostOK
    <2>5. RowsExist'
      BY <1>23
      DEF Crash, Forget, Fault, RowsExist, SenderOK, HandOK, TableOK, Jobs,
          NoJob
    <2>6. PhasesOK'
      BY <1>23
      DEF Crash, Forget, Fault, PhasesOK, ClaimOK, HandOK, Busy, Jobs, NoJob
    <2> QED
      BY <2>1, <2>2, <2>3, <2>4, <2>5, <2>6
  <1>24. ASSUME NEW w \in Workers, Stop(w) PROVE TypeOK'
    <2>1. SourceOK' /\ TableOK' /\ SenderOK' /\ HandOK' /\ RowsExist' /\ PhasesOK'
      BY <1>24
      DEF Stop, Fault, SourceOK, TableOK, SenderOK, HandOK, RowsExist, PhasesOK
    <2>2. ClaimOK'
      BY <1>24 DEF Stop, Fault, ClaimOK
    <2>3. GhostOK'
      BY <1>24 DEF Stop, Fault, GhostOK
    <2> QED
      BY <2>1, <2>2, <2>3
  <1>25. CASE UNCHANGED vars
    BY <1>25 DEF vars, SourceOK, TableOK, SenderOK, ClaimOK, HandOK, GhostOK,
      RowsExist, PhasesOK
  <1> QED
    BY <1>1, <1>2, <1>3, <1>4, <1>5, <1>6, <1>7, <1>8, <1>9, <1>10, <1>11,
       <1>12, <1>13, <1>14, <1>15, <1>16, <1>17, <1>18, <1>19, <1>20, <1>21,
       <1>22, <1>23, <1>24, <1>25
    DEF Next, EnqueueStep, WorkerStep, FaultStep


(* Every variable keeps its type, and every reference its row. *)
THEOREM TypeCorrect == Spec => []TypeOK
  BY TypeInit, TypeStep, PTL DEF Spec

(* No step takes a row from under the worker that holds it. *)
LEMMA LockStep ==
  ASSUME ~SlowWorkers, TypeOK, LockInv, [Next]_vars
  PROVE  LockInv'
  <1> USE SyncQueueAssumption
    DEF sourceVars, contentVars, lockVars, tableVars, senderVars,
              claimVars, handVars, ghostVars
  <1>1. ASSUME NEW k \in Keys, Edit(k) PROVE LockInv'
    BY <1>1 DEF Edit, LockInv, RowLock, Processing
  <1>2. ASSUME NEW k \in Keys, Sweep(k) PROVE LockInv'
    BY <1>2 DEF Sweep, LockInv, RowLock, Processing
  <1>3. ASSUME NEW s \in Senders, NEW e \in outbox, EnqueueFind(s, e) PROVE LockInv'
    BY <1>3 DEF EnqueueFind, LockInv, RowLock, Processing
  <1>4. ASSUME NEW s \in Senders, EnqueueFold(s) PROVE LockInv'
    BY <1>4 DEF EnqueueFold, Return, LockInv, RowLock, Processing
  <1>5. ASSUME NEW s \in Senders, EnqueueCreate(s) PROVE LockInv'
    BY <1>5
    DEF EnqueueCreate, Return, LockInv, RowLock, TypeOK, TableOK, HandOK,
        RowsExist, Jobs, NoJob, Processing
  <1>6. ASSUME NEW s \in Senders, EnqueueError(s) PROVE LockInv'
    BY <1>6 DEF EnqueueError, Return, Fault, LockInv, RowLock, Processing
  <1>7. ASSUME NEW j \in Jobs, BecomeDue(j) PROVE LockInv'
    BY <1>7 DEF BecomeDue, LockInv, RowLock, Processing
  <1>8. ASSUME NEW j \in Jobs, BecomeStale(j) PROVE LockInv'
    <2>1. \A w \in Workers : hand[w] # j
      BY <1>8 DEF BecomeStale, Held
    <2>2. /\ \A i \in Jobs : i # j => stale'[i] = stale[i]
          /\ UNCHANGED <<status, lockedBy, hand>>
      BY <1>8 DEF BecomeStale, TypeOK, TableOK
    <2> QED
      BY <2>1, <2>2 DEF LockInv, RowLock, Processing, TypeOK, HandOK
  <1>9. ASSUME NEW w \in Workers, ReclaimStale(w) PROVE LockInv'
    BY <1>9
    DEF ReclaimStale, LockInv, RowLock, Reclaimable, TypeOK, TableOK, HandOK,
        Jobs, NoJob, Processing
  <1>10. ASSUME NEW w \in Workers, ClaimBegin(w) PROVE LockInv'
    BY <1>10 DEF ClaimBegin, BatchLeft, LockInv, RowLock, Processing
  <1>11. ASSUME NEW w \in Workers, NEW j \in Jobs, ClaimSkip(w, j) PROVE LockInv'
    BY <1>11 DEF ClaimSkip, LockInv, RowLock, Processing
  <1>12. ASSUME NEW w \in Workers, NEW j \in Jobs, Claim(w, j) PROVE LockInv'
    BY <1>12
    DEF Claim, LockInv, RowLock, Claimable, Pending, Processing, TypeOK,
        TableOK, HandOK, Jobs, NoJob
  <1>13. ASSUME NEW w \in Workers, TickEnd(w) PROVE LockInv'
    BY <1>13
    DEF TickEnd, Forget, Fault, LockInv, RowLock, TypeOK, HandOK, Processing
  <1>14. ASSUME NEW w \in Workers, Hydrate(w) PROVE LockInv'
    BY <1>14 DEF Hydrate, Proceed, LockInv, RowLock, Processing
  <1>15. ASSUME NEW w \in Workers, Sync(w) PROVE LockInv'
    BY <1>15 DEF Sync, Proceed, LockInv, RowLock, Processing
  <1>16. ASSUME NEW w \in Workers, SyncThrows(w) PROVE LockInv'
    BY <1>16 DEF SyncThrows, Proceed, LockInv, RowLock, Processing
  <1>17. ASSUME NEW w \in Workers, MarkDone(w) PROVE LockInv'
    BY <1>17
    DEF MarkDone, Settle, LockInv, RowLock, TypeOK, TableOK, HandOK, PhasesOK,
        Busy, Processing, Jobs, NoJob
  <1>18. ASSUME NEW w \in Workers, MarkFailedRead(w) PROVE LockInv'
    BY <1>18 DEF MarkFailedRead, Proceed, LockInv, RowLock, Processing
  <1>19. ASSUME NEW w \in Workers, MarkFailedWrite(w) PROVE LockInv'
    BY <1>19
    DEF MarkFailedWrite, Settle, LockInv, RowLock, TypeOK, TableOK, HandOK,
        PhasesOK, Busy, Processing, Jobs, NoJob, Verdict
  <1>20. ASSUME NEW w \in Workers, Restart(w) PROVE LockInv'
    BY <1>20 DEF Restart, LockInv, RowLock, Processing
  <1>21. ASSUME NEW w \in Workers, MarkDoneThrows(w) PROVE LockInv'
    BY <1>21 DEF MarkDoneThrows, Proceed, Fault, LockInv, RowLock, Processing
  <1>22. ASSUME NEW w \in Workers, MarkFailedThrows(w) PROVE LockInv'
    BY <1>22
    DEF MarkFailedThrows, Forget, Fault, LockInv, RowLock, TypeOK, HandOK,
        Processing
  <1>23. ASSUME NEW w \in Workers, Crash(w) PROVE LockInv'
    BY <1>23
    DEF Crash, Forget, Fault, LockInv, RowLock, TypeOK, HandOK, Processing
  <1>24. ASSUME NEW w \in Workers, Stop(w) PROVE LockInv'
    BY <1>24 DEF Stop, Fault, LockInv, RowLock, Processing
  <1>25. CASE UNCHANGED vars
    BY <1>25 DEF vars, LockInv, RowLock, Processing
  <1> QED
    BY <1>1, <1>2, <1>3, <1>4, <1>5, <1>6, <1>7, <1>8, <1>9, <1>10, <1>11,
       <1>12, <1>13, <1>14, <1>15, <1>16, <1>17, <1>18, <1>19, <1>20, <1>21,
       <1>22, <1>23, <1>24, <1>25
    DEF Next, EnqueueStep, WorkerStep, FaultStep

-----------------------------------------------------------------------------
(* What every attempt over the limit is paid with, also by slow workers.   *)

JobPaid(j) ==
  /\ IsFiniteSet(Holders(j))
  /\ HandsPaid(j)
  /\ ClaimsPaid(j)
  /\ status[j] = "absent" => attempts[j] = 0

(* The numbers the budget adds up. *)
LEMMA BudgetNumbers ==
  ASSUME TypeOK, BudgetInv, NEW j \in Jobs
  PROVE  /\ JobPaid(j)
         /\ IsFiniteSet(Requeuers(j))
         /\ Requeuers(j) \subseteq Holders(j)
         /\ Cardinality(Holders(j)) \in Nat
         /\ Cardinality(Requeuers(j)) \in Nat
         /\ Cardinality(Requeuers(j)) <= Cardinality(Holders(j))
         /\ attempts[j] \in Nat /\ faults \in Nat /\ MaxAttempts \in Nat \ {0}
         /\ OpenClaims(j) \in {0, 1}
         /\ Holders(j) = {} <=> ~Held(j)
         /\ Cardinality(Holders(j)) = 0 <=> Holders(j) = {}
  <1>1. JobPaid(j)
    BY DEF BudgetInv, JobPaid
  <1>2. Requeuers(j) \subseteq Holders(j)
    BY DEF Requeuers
  <1>3. /\ IsFiniteSet(Requeuers(j))
        /\ Cardinality(Requeuers(j)) <= Cardinality(Holders(j))
    BY <1>1, <1>2, FS_Subset DEF JobPaid
  <1>4. /\ Cardinality(Holders(j)) \in Nat /\ Cardinality(Requeuers(j)) \in Nat
        /\ Cardinality(Holders(j)) = 0 <=> Holders(j) = {}
    BY <1>1, <1>3, FS_CardinalityType, FS_EmptySet DEF JobPaid
  <1>5. Holders(j) = {} <=> ~Held(j)
    BY DEF Holders, Held
  <1> QED
    BY <1>1, <1>2, <1>3, <1>4, <1>5, SyncQueueAssumption
    DEF TypeOK, TableOK, GhostOK, OpenClaims

(* A step keeps the budget when what it adds is paid for: a hand or a      *)
(* claim to come by a fault or a claim that was to come, an attempt by the *)
(* claim that it was.                                                      *)
LEMMA PaidStep ==
  ASSUME TypeOK, TypeOK', BudgetInv, NEW j \in Jobs,
         IsFiniteSet(Holders(j))',
         (status[j] = "absent" => attempts[j] = 0)',
         Cardinality(Holders(j))' + OpenClaims(j)' + faults
           <= Cardinality(Holders(j)) + OpenClaims(j) + faults',
         attempts'[j] + OpenClaims(j)' + Cardinality(Requeuers(j))' + faults
           <= attempts[j] + OpenClaims(j) + Cardinality(Requeuers(j)) + faults'
  PROVE  JobPaid(j)'
  <1>1. IsFiniteSet(Requeuers(j)')
    BY FS_Subset DEF Requeuers
  <1>2. /\ Cardinality(Holders(j)') \in Nat /\ Cardinality(Requeuers(j)') \in Nat
        /\ attempts'[j] \in Nat /\ faults' \in Nat /\ OpenClaims(j)' \in {0, 1}
    BY <1>1, FS_CardinalityType DEF TypeOK, TableOK, GhostOK, OpenClaims
  <1> QED
    BY <1>2, BudgetNumbers DEF JobPaid, HandsPaid, ClaimsPaid

(* Nobody takes or leaves the row, nobody decides to requeue it. *)
LEMMA PaidQuietly ==
  ASSUME TypeOK, TypeOK', BudgetInv, NEW j \in Jobs,
         hand' = hand, Requeuers(j)' \subseteq Requeuers(j),
         attempts'[j] = attempts[j], status'[j] = "absent" => status[j] = "absent",
         OpenClaims(j)' + faults <= OpenClaims(j) + faults'
  PROVE  JobPaid(j)'
  <1>1. Holders(j)' = Holders(j)
    BY DEF Holders
  <1>2. Cardinality(Requeuers(j)') <= Cardinality(Requeuers(j))
        /\ Cardinality(Requeuers(j)') \in Nat
    BY BudgetNumbers, FS_Subset, FS_CardinalityType
  <1>3. faults' \in Nat /\ OpenClaims(j)' \in {0, 1}
    BY DEF TypeOK, GhostOK, OpenClaims
  <1>4. /\ IsFiniteSet(Holders(j))' /\ (status[j] = "absent" => attempts[j] = 0)'
    BY <1>1, BudgetNumbers DEF JobPaid
  <1> QED
    BY <1>1, <1>2, <1>3, <1>4, BudgetNumbers, PaidStep

(* A worker lets go of what it held: a fault, unless it writes the row. *)
LEMMA PaidLettingGo ==
  ASSUME TypeOK, TypeOK', BudgetInv, NEW j \in Jobs, NEW w \in Workers,
         hand' = [hand EXCEPT ![w] = NoJob],
         retry' = [retry EXCEPT ![w] = FALSE],
         \A v \in Workers \ {w} : phase'[v] = phase[v],
         attempts' = attempts,
         status'[j] = "absent" => status[j] = "absent",
         hand[w] # j => OpenClaims(j)' <= OpenClaims(j) /\ faults' >= faults,
         hand[w] = j =>
           \/ faults' = faults + 1
           \/ faults' = faults /\ OpenClaims(j)' = 0
           \/ faults' = faults /\ w \in Requeuers(j)
  PROVE  JobPaid(j)'
  <1>1. /\ Holders(j)' = Holders(j) \ {w}
        /\ Requeuers(j)' = Requeuers(j) \ {w}
        /\ w \in Holders(j) <=> hand[w] = j
    BY DEF Holders, Requeuers, TypeOK, HandOK, Jobs, NoJob
  <1>2. /\ IsFiniteSet(Holders(j)')
        /\ Cardinality(Holders(j)') =
             IF hand[w] = j THEN Cardinality(Holders(j)) - 1
                            ELSE Cardinality(Holders(j))
        /\ Cardinality(Requeuers(j)') =
             IF w \in Requeuers(j) THEN Cardinality(Requeuers(j)) - 1
                                   ELSE Cardinality(Requeuers(j))
    <2>1. IsFiniteSet(Holders(j)) /\ IsFiniteSet(Requeuers(j))
      BY BudgetNumbers DEF JobPaid
    <2>2. /\ IsFiniteSet(Holders(j) \ {w})
          /\ Cardinality(Holders(j) \ {w}) =
               IF w \in Holders(j) THEN Cardinality(Holders(j)) - 1
                                   ELSE Cardinality(Holders(j))
      BY <2>1, FS_RemoveElement
    <2>3. Cardinality(Requeuers(j) \ {w}) =
            IF w \in Requeuers(j) THEN Cardinality(Requeuers(j)) - 1
                                  ELSE Cardinality(Requeuers(j))
      BY <2>1, FS_RemoveElement
    <2> QED
      BY <1>1, <2>2, <2>3
  <1>3. faults' \in Nat /\ OpenClaims(j)' \in {0, 1} /\ attempts'[j] = attempts[j]
    BY DEF TypeOK, GhostOK, OpenClaims
  <1>4. (status[j] = "absent" => attempts[j] = 0)'
    BY BudgetNumbers DEF JobPaid
  <1>5. w \in Requeuers(j) => hand[w] = j
    BY DEF Requeuers, Holders
  <1> QED
    BY <1>2, <1>3, <1>4, <1>5, BudgetNumbers, PaidStep

(* A lock grows old: under a live worker that is a fault; without one the  *)
(* claim of the worker that takes over was to come already.                *)
LEMMA PaidStale ==
  ASSUME TypeOK, TypeOK', BudgetInv, NEW i \in Jobs, BecomeStale(i),
         NEW j \in Jobs
  PROVE  JobPaid(j)'
  <1>1. /\ UNCHANGED <<status, attempts, hand, phase, retry>>
        /\ \A k \in Jobs \ {i} : stale'[k] = stale[k]
    BY DEF BecomeStale, lockVars, handVars, TypeOK, TableOK
  <1>2. \/ ~Held(i) /\ faults' = faults
        \/ faults' = faults + 1
    BY DEF BecomeStale, Fault, ghostVars
  <1>3. OpenClaims(j)' + faults <= OpenClaims(j) + faults'
    <2>1. (Held(j) <=> Held(j)') /\ (Pending(j) <=> Pending(j)')
          /\ (Processing(j) <=> Processing(j)')
      BY <1>1 DEF Held, Pending, Processing
    <2>2. OpenClaims(j)' = OpenClaims(j) \/ (i = j /\ Held(j))
      BY <1>1, <2>1 DEF OpenClaims, Open, BecomeStale, TypeOK, TableOK
    <2>3. OpenClaims(j)' \in {0, 1} /\ OpenClaims(j) \in {0, 1}
          /\ faults \in Nat /\ faults' \in Nat
      BY DEF OpenClaims, TypeOK, GhostOK
    <2> QED
      BY <1>2, <2>2, <2>3
  <1>4. Requeuers(j)' \subseteq Requeuers(j)
    BY <1>1 DEF Requeuers, Holders
  <1> QED
    BY <1>1, <1>3, <1>4, PaidQuietly

(* The claim that was to come is made. *)
LEMMA PaidClaim ==
  ASSUME TypeOK, TypeOK', BudgetInv, NEW w \in Workers, NEW i \in Jobs,
         Claim(w, i), NEW j \in Jobs
  PROVE  JobPaid(j)'
  <1>1. /\ hand[w] = NoJob /\ Pending(i) /\ faults' = faults
        /\ hand' = [hand EXCEPT ![w] = i]
        /\ phase' = [phase EXCEPT ![w] = "claimed"] /\ retry' = retry
        /\ status' = [status EXCEPT ![i] = "processing"]
        /\ stale' = [stale EXCEPT ![i] = FALSE]
        /\ attempts' = [attempts EXCEPT ![i] = @ + 1]
    BY DEF Claim, Claimable, ghostVars, TypeOK, PhasesOK, Busy
  <1>2. Requeuers(j)' = Requeuers(j)
    BY <1>1 DEF Requeuers, Holders, TypeOK, ClaimOK, HandOK, Jobs, NoJob
  <1>3. CASE i = j
    <2>1. Holders(j)' = Holders(j) \cup {w} /\ w \notin Holders(j)
      BY <1>1, <1>3 DEF Holders, TypeOK, HandOK, Jobs, NoJob
    <2>2. /\ IsFiniteSet(Holders(j)')
          /\ Cardinality(Holders(j)') = Cardinality(Holders(j)) + 1
      BY <2>1, BudgetNumbers, FS_AddElement DEF JobPaid
    <2>3. Held(j)' /\ ~Pending(j)' /\ ~stale'[j]
      BY <1>1, <1>3 DEF Held, Pending, TypeOK, HandOK, TableOK
    <2>4. OpenClaims(j) = 1 /\ OpenClaims(j)' = 0
      BY <1>1, <1>3, <2>3 DEF OpenClaims, Open
    <2>5. attempts'[j] = attempts[j] + 1 /\ status'[j] # "absent"
      BY <1>1, <1>3 DEF TypeOK, TableOK
    <2> QED
      BY <1>1, <1>2, <2>2, <2>4, <2>5, BudgetNumbers, PaidStep
  <1>4. CASE i # j
    <2>1. Holders(j)' = Holders(j)
      BY <1>1, <1>4 DEF Holders, TypeOK, HandOK, Jobs, NoJob
    <2>2. /\ status'[j] = status[j] /\ stale'[j] = stale[j]
          /\ attempts'[j] = attempts[j]
      BY <1>1, <1>4 DEF TypeOK, TableOK
    <2>3. Held(j)' <=> Held(j)
      BY <2>1 DEF Held, Holders
    <2>4. OpenClaims(j)' = OpenClaims(j)
      BY <2>2, <2>3 DEF OpenClaims, Open, Pending, Processing
    <2>5. (status[j] = "absent" => attempts[j] = 0)' /\ IsFiniteSet(Holders(j)')
      BY <2>1, <2>2, BudgetNumbers DEF JobPaid
    <2> QED
      BY <1>1, <1>2, <2>1, <2>2, <2>4, <2>5, BudgetNumbers, PaidStep
  <1> QED
    BY <1>3, <1>4

(* Whoever decides to requeue has read a count below the maximum, and the  *)
(* other hands, the claim to come included, are paid for.                  *)
LEMMA PaidVerdict ==
  ASSUME TypeOK, TypeOK', BudgetInv, NEW w \in Workers, MarkFailedRead(w),
         NEW j \in Jobs
  PROVE  JobPaid(j)'
  <1>1. /\ hand' = hand /\ faults' = faults /\ phase[w] = "failing"
        /\ UNCHANGED <<status, stale, attempts>>
        /\ phase' = [phase EXCEPT ![w] = "marking"]
        /\ retry' = [retry EXCEPT ![w] = @ /\ ~Exhausted(hand[w])]
    BY DEF MarkFailedRead, Proceed, ghostVars, tableVars, lockVars
  <1>2. OpenClaims(j)' = OpenClaims(j)
    BY <1>1 DEF OpenClaims, Open, Pending, Processing, Held
  <1>3. CASE Requeuers(j)' \subseteq Requeuers(j)
    <2>1. OpenClaims(j)' + faults <= OpenClaims(j) + faults'
      BY <1>1, <1>2, BudgetNumbers
    <2> QED
      BY <1>1, <1>3, <2>1, PaidQuietly
  <1>4. CASE ~(Requeuers(j)' \subseteq Requeuers(j))
    <2>1. /\ hand[w] = j /\ attempts[j] < MaxAttempts
          /\ Requeuers(j)' = Requeuers(j) \cup {w}
          /\ w \notin Requeuers(j) /\ w \in Holders(j)
      <3>1. PICK v \in Workers : v \in Requeuers(j)' /\ v \notin Requeuers(j)
        BY <1>4 DEF Requeuers, Holders
      <3>2. v = w
        BY <1>1, <3>1 DEF Requeuers, Holders, TypeOK, ClaimOK, HandOK
      <3>3. hand[w] = j /\ ~Exhausted(j)
        BY <1>1, <3>1, <3>2 DEF Requeuers, Holders, TypeOK, HandOK
      <3>4. attempts[j] < MaxAttempts
        BY <3>3, BudgetNumbers DEF Exhausted
      <3>5. Requeuers(j)' = Requeuers(j) \cup {w}
        BY <1>1, <3>1, <3>2 DEF Requeuers, Holders, TypeOK, ClaimOK, HandOK
      <3> QED
        BY <3>1, <3>2, <3>3, <3>4, <3>5 DEF Holders
    <2>2. Cardinality(Requeuers(j)') = Cardinality(Requeuers(j)) + 1
      BY <2>1, BudgetNumbers, FS_AddElement
    <2>3. Cardinality(Requeuers(j)') <= Cardinality(Holders(j))
      BY <2>1, BudgetNumbers, FS_Subset DEF JobPaid
    <2>4. Holders(j)' = Holders(j)
      BY <1>1 DEF Holders
    <2>5. ClaimsPaid(j)' /\ HandsPaid(j)'
      BY <1>1, <1>2, <2>1, <2>2, <2>3, <2>4, BudgetNumbers
      DEF JobPaid, HandsPaid, ClaimsPaid
    <2> QED
      BY <1>1, <2>4, <2>5, BudgetNumbers DEF JobPaid
  <1> QED
    BY <1>3, <1>4

(* The row is written: as pending by a requeuer only. *)
LEMMA PaidSettle ==
  ASSUME TypeOK, TypeOK', BudgetInv, NEW w \in Workers,
         MarkDone(w) \/ MarkFailedWrite(w), NEW j \in Jobs
  PROVE  JobPaid(j)'
  <1> DEFINE result == IF phase[w] = "finished" THEN "done" ELSE Verdict(w)
  <1>1. /\ hand[w] \in Jobs /\ faults' = faults /\ attempts' = attempts
        /\ hand' = [hand EXCEPT ![w] = NoJob]
        /\ retry' = [retry EXCEPT ![w] = FALSE]
        /\ phase' = [phase EXCEPT ![w] = "polling"]
        /\ status' = [status EXCEPT ![hand[w]] = result]
        /\ stale' = [stale EXCEPT ![hand[w]] = FALSE]
    BY DEF MarkDone, MarkFailedWrite, Settle, ghostVars, TypeOK, PhasesOK,
           HandOK, Busy
  <1>2. \A v \in Workers \ {w} : phase'[v] = phase[v]
    BY <1>1 DEF TypeOK, ClaimOK
  <1>3. result \in {"done", "failed"} \/ (result = "pending" /\ w \in Requeuers(hand[w]))
    BY DEF MarkDone, MarkFailedWrite, Verdict, Requeuers, Holders
  <1>4. ASSUME hand[w] # j
        PROVE  OpenClaims(j)' <= OpenClaims(j)
    <2>1. Held(j)' <=> Held(j)
      BY <1>1, <1>4 DEF Held, TypeOK, HandOK, Jobs, NoJob
    <2>2. status'[j] = status[j] /\ stale'[j] = stale[j]
      BY <1>1, <1>4 DEF TypeOK, TableOK
    <2>3. OpenClaims(j)' = OpenClaims(j)
      BY <2>1, <2>2 DEF OpenClaims, Open, Pending, Processing
    <2> QED
      BY <2>3, BudgetNumbers
  <1>5. ASSUME hand[w] = j
        PROVE  OpenClaims(j)' = 0 \/ w \in Requeuers(j)
    BY <1>1, <1>3, <1>5
    DEF OpenClaims, Open, Pending, Processing, TypeOK, TableOK
  <1>6. status'[j] = "absent" => status[j] = "absent"
    BY <1>1, <1>3 DEF TypeOK, TableOK
  <1>7. faults' >= faults
    BY <1>1, BudgetNumbers
  <1> QED
    BY <1>1, <1>2, <1>4, <1>5, <1>6, <1>7, PaidLettingGo

(* A worker dies, or gives up, with or without a job in hand. *)
LEMMA PaidForget ==
  ASSUME TypeOK, TypeOK', BudgetInv, NEW w \in Workers, Fault, Forget(w),
         NEW j \in Jobs
  PROVE  JobPaid(j)'
  <1>1. /\ faults' = faults + 1
        /\ UNCHANGED <<status, stale, attempts>>
        /\ hand' = [hand EXCEPT ![w] = NoJob]
        /\ retry' = [retry EXCEPT ![w] = FALSE]
        /\ phase' = [phase EXCEPT ![w] = "idle"]
    BY DEF Fault, Forget, tableVars, lockVars
  <1>2. \A v \in Workers \ {w} : phase'[v] = phase[v]
    BY <1>1 DEF TypeOK, ClaimOK
  <1>3. ASSUME hand[w] # j
        PROVE  OpenClaims(j)' <= OpenClaims(j)
    <2>1. Held(j)' <=> Held(j)
      BY <1>1, <1>3 DEF Held, TypeOK, HandOK, Jobs, NoJob
    <2>2. OpenClaims(j)' = OpenClaims(j)
      BY <1>1, <2>1 DEF OpenClaims, Open, Pending, Processing
    <2> QED
      BY <2>2, BudgetNumbers
  <1>4. faults' >= faults
    BY <1>1, BudgetNumbers
  <1> QED
    BY <1>1, <1>2, <1>3, <1>4, PaidLettingGo

(* The steps that leave every lock and every count as it is. *)
LEMMA PaidElsewhere ==
  ASSUME TypeOK, TypeOK', BudgetInv, NEW j \in Jobs,
         UNCHANGED <<status, stale, attempts>>, hand' = hand, faults' >= faults,
         \A v \in Workers : phase'[v] = "marking" /\ retry'[v]
                              => phase[v] = "marking" /\ retry[v]
  PROVE  JobPaid(j)'
  <1>1. Requeuers(j)' \subseteq Requeuers(j)
    BY DEF Requeuers, Holders
  <1>2. OpenClaims(j)' = OpenClaims(j)
    BY DEF OpenClaims, Open, Pending, Processing, Held
  <1>3. faults' \in Nat
    BY DEF TypeOK, GhostOK
  <1> QED
    BY <1>1, <1>2, <1>3, BudgetNumbers, PaidQuietly

(* A new row is pending: its first claim is within the maximum. *)
LEMMA PaidCreate ==
  ASSUME TypeOK, TypeOK', BudgetInv, NEW s \in Senders, EnqueueCreate(s),
         NEW j \in Jobs
  PROVE  JobPaid(j)'
  <1>1. /\ hand' = hand /\ phase' = phase /\ retry' = retry /\ faults' = faults
        /\ attempts' = attempts /\ stale' = stale
        /\ created + 1 \in Jobs
        /\ status' = [status EXCEPT ![created + 1] = "pending"]
    BY DEF EnqueueCreate, Return, handVars, ghostVars, TypeOK, TableOK, Jobs
  <1>2. CASE j = created + 1
    <2>1. status[j] = "absent" /\ ~Held(j)
      BY <1>2 DEF TypeOK, TableOK, HandOK, RowsExist, Held, Jobs, NoJob
    <2>2. Holders(j) = {} /\ Holders(j)' = {} /\ Requeuers(j)' = {}
      BY <1>1, <2>1 DEF Held, Holders, Requeuers
    <2>3. /\ attempts'[j] = 0 /\ status'[j] # "absent"
      BY <1>1, <1>2, <2>1, BudgetNumbers DEF JobPaid, TypeOK, TableOK
    <2>4. OpenClaims(j)' <= 1 /\ OpenClaims(j)' \in Nat
      BY DEF OpenClaims
    <2>5. IsFiniteSet(Holders(j)') /\ Cardinality(Holders(j)') = 0
          /\ Cardinality(Requeuers(j)') = 0
      BY <2>2, FS_EmptySet
    <2>6. faults \in Nat /\ MaxAttempts \in Nat /\ MaxAttempts >= 1
      BY BudgetNumbers
    <2>7. HandsPaid(j)'
      BY <1>1, <2>4, <2>5, <2>6 DEF HandsPaid
    <2>8. ClaimsPaid(j)'
      BY <1>1, <2>3, <2>4, <2>5, <2>6 DEF ClaimsPaid
    <2> QED
      BY <2>3, <2>5, <2>7, <2>8 DEF JobPaid
  <1>3. CASE j # created + 1
    <2>1. status'[j] = status[j]
      BY <1>1, <1>3 DEF TypeOK, TableOK
    <2>2. OpenClaims(j)' = OpenClaims(j)
      BY <1>1, <2>1 DEF OpenClaims, Open, Pending, Processing, Held
    <2>3. Requeuers(j)' = Requeuers(j)
      BY <1>1 DEF Requeuers, Holders
    <2>4. OpenClaims(j)' + faults <= OpenClaims(j) + faults'
      BY <1>1, <2>2, BudgetNumbers
    <2> QED
      BY <1>1, <2>1, <2>3, <2>4, PaidQuietly
  <1> QED
    BY <1>2, <1>3

(* reclaimStale turns old locks into pending rows: the claim to come stays.*)
LEMMA PaidReclaim ==
  ASSUME TypeOK, TypeOK', BudgetInv, NEW w \in Workers, ReclaimStale(w),
         NEW j \in Jobs
  PROVE  JobPaid(j)'
  <1>1. /\ hand' = hand /\ retry' = retry /\ faults' = faults
        /\ attempts' = attempts /\ phase[w] = "idle"
        /\ phase' = [phase EXCEPT ![w] = "polling"]
        /\ status'[j] = IF Reclaimable(j) THEN "pending" ELSE status[j]
        /\ stale'[j] = (stale[j] /\ ~Reclaimable(j))
    BY DEF ReclaimStale, handVars, ghostVars
  <1>2. OpenClaims(j)' = OpenClaims(j)
    BY <1>1
    DEF OpenClaims, Open, Pending, Processing, Held, Reclaimable, TypeOK,
        TableOK
  <1>3. Requeuers(j)' \subseteq Requeuers(j)
    BY <1>1 DEF Requeuers, Holders, TypeOK, ClaimOK
  <1>4. status'[j] = "absent" => status[j] = "absent"
    BY <1>1
  <1>5. OpenClaims(j)' + faults <= OpenClaims(j) + faults'
    BY <1>1, <1>2, BudgetNumbers
  <1> QED
    BY <1>1, <1>3, <1>4, <1>5, PaidQuietly

(* Every attempt over the limit is paid for, whoever makes it. *)
LEMMA BudgetStep ==
  ASSUME TypeOK, BudgetInv, [Next]_vars
  PROVE  BudgetInv'
  <1> SUFFICES ASSUME NEW j \in Jobs PROVE JobPaid(j)'
    BY DEF BudgetInv, JobPaid
  <1> USE DEF sourceVars, contentVars, lockVars, tableVars, senderVars,
              claimVars, handVars, ghostVars
  <1>0. TypeOK'
    BY TypeStep
  <1>1. faults \in Nat /\ (Fault => faults' >= faults)
    BY DEF Fault, TypeOK, GhostOK
  <1>2. ASSUME NEW s \in Senders, EnqueueCreate(s) PROVE JobPaid(j)'
    BY <1>0, <1>2, PaidCreate
  <1>3. ASSUME NEW i \in Jobs, BecomeStale(i) PROVE JobPaid(j)'
    BY <1>0, <1>3, PaidStale
  <1>4. ASSUME NEW w \in Workers, ReclaimStale(w) PROVE JobPaid(j)'
    BY <1>0, <1>4, PaidReclaim
  <1>5. ASSUME NEW w \in Workers, NEW i \in Jobs, Claim(w, i) PROVE JobPaid(j)'
    BY <1>0, <1>5, PaidClaim
  <1>6. ASSUME NEW w \in Workers, MarkDone(w) \/ MarkFailedWrite(w)
        PROVE  JobPaid(j)'
    BY <1>0, <1>6, PaidSettle
  <1>7. ASSUME NEW w \in Workers, MarkFailedRead(w) PROVE JobPaid(j)'
    BY <1>0, <1>7, PaidVerdict
  <1>8. ASSUME NEW w \in Workers, MarkFailedThrows(w) \/ Crash(w)
        PROVE  JobPaid(j)'
    BY <1>0, <1>8, PaidForget DEF MarkFailedThrows, Crash
  <1>9. ASSUME NEW w \in Workers, TickEnd(w) PROVE JobPaid(j)'
    <2>1. hand[w] = NoJob
      BY <1>9 DEF TickEnd, TypeOK, PhasesOK, Busy
    <2>2. hand' = hand /\ UNCHANGED <<status, stale, attempts>>
      BY <1>9, <2>1 DEF TickEnd, Forget, TypeOK, HandOK
    <2>3. faults' >= faults
      BY <1>1, <1>9 DEF TickEnd
    <2>4. \A v \in Workers : phase'[v] = "marking" /\ retry'[v]
                               => phase[v] = "marking" /\ retry[v]
      BY <1>9 DEF TickEnd, Forget, TypeOK, ClaimOK, HandOK
    <2> QED
      BY <1>0, <2>2, <2>3, <2>4, PaidElsewhere
  <1>10. ASSUME NEW w \in Workers,
                \/ ClaimBegin(w) \/ (\E i \in Jobs : ClaimSkip(w, i))
                \/ Hydrate(w) \/ Sync(w) \/ SyncThrows(w) \/ Restart(w)
                \/ MarkDoneThrows(w) \/ Stop(w)
         PROVE  JobPaid(j)'
    <2>1. /\ hand' = hand /\ UNCHANGED <<status, stale, attempts>>
          /\ faults' >= faults
      BY <1>1, <1>10
      DEF ClaimBegin, ClaimSkip, Hydrate, Sync, SyncThrows, Restart,
          MarkDoneThrows, Stop, Proceed
    <2>2. \A v \in Workers : phase'[v] = "marking" /\ retry'[v]
                               => phase[v] = "marking" /\ retry[v]
      BY <1>10
      DEF ClaimBegin, ClaimSkip, Hydrate, Sync, SyncThrows, Restart,
          MarkDoneThrows, Stop, Proceed, TypeOK, ClaimOK, HandOK
    <2> QED
      BY <1>0, <2>1, <2>2, PaidElsewhere
  <1>11. ASSUME \/ \E k \in Keys : Edit(k) \/ Sweep(k)
                \/ \E i \in Jobs : BecomeDue(i)
                \/ UNCHANGED vars
         PROVE  JobPaid(j)'
    <2>1. UNCHANGED <<status, stale, attempts, hand, phase, retry, faults>>
      BY <1>11 DEF Edit, Sweep, BecomeDue, vars
    <2> QED
      BY <1>0, <1>1, <2>1, PaidElsewhere
  <1>12. ASSUME NEW w \in Workers, WorkerStep(w) \/ FaultStep(w)
         PROVE  JobPaid(j)'
    BY <1>4, <1>5, <1>6, <1>7, <1>8, <1>9, <1>10, <1>12
    DEF WorkerStep, FaultStep
  <1> QED
    <2>1. ASSUME NEW s \in Senders, EnqueueStep(s) \/ EnqueueError(s)
          PROVE  JobPaid(j)'
      <3>1. CASE EnqueueCreate(s)
        BY <1>2, <3>1
      <3>2. CASE ~EnqueueCreate(s)
        <4>1. /\ UNCHANGED <<status, stale, attempts, hand, phase, retry>>
              /\ faults' >= faults
          BY <1>1, <2>1, <3>2
          DEF EnqueueStep, EnqueueFind, EnqueueFold, EnqueueError, Return
        <4> QED
          BY <1>0, <4>1, PaidElsewhere
      <3> QED
        BY <3>1, <3>2
    <2>2. ASSUME NEW k \in Keys, Edit(k) \/ Sweep(k)
          PROVE  JobPaid(j)'
      BY <1>11, <2>2
    <2>3. ASSUME NEW i \in Jobs, BecomeDue(i) \/ BecomeStale(i)
          PROVE  JobPaid(j)'
      BY <1>3, <1>11, <2>3
    <2>4. CASE UNCHANGED vars
      BY <1>11, <2>4
    <2> QED
      BY <1>12, <2>1, <2>2, <2>3, <2>4 DEF Next

(* No row is locked, and no attempt spent, to begin with. *)
LEMMA LockBudgetInit == Init => LockInv /\ BudgetInv
  <1> SUFFICES ASSUME Init PROVE LockInv /\ BudgetInv
    OBVIOUS
  <1>1. LockInv
    BY DEF Init, LockInv, RowLock
  <1>2. ASSUME NEW j \in Jobs PROVE JobPaid(j)
    <2>1. Holders(j) = {} /\ Requeuers(j) = {} /\ OpenClaims(j) = 0
      BY DEF Init, Holders, Requeuers, OpenClaims, Open, Pending, Processing,
             Jobs, NoJob
    <2> QED
      BY <2>1, FS_EmptySet, SyncQueueAssumption
      DEF Init, JobPaid, HandsPaid, ClaimsPaid
  <1> QED
    BY <1>1, <1>2 DEF BudgetInv, JobPaid

(* The budget holds however slow the workers are ... *)
LEMMA BudgetAlways == Spec => [](TypeOK /\ BudgetInv)
  <1>1. Init => TypeOK /\ BudgetInv
    BY TypeInit, LockBudgetInit
  <1>2. TypeOK /\ BudgetInv /\ [Next]_vars => (TypeOK /\ BudgetInv)'
    BY TypeStep, BudgetStep
  <1> QED
    BY <1>1, <1>2, PTL DEF Spec

(* ... and the locks hold unless they are. *)
LEMMA LockAlways ==
  ASSUME ~SlowWorkers
  PROVE  Spec => [](TypeOK /\ LockInv)
  <1>1. Init => TypeOK /\ LockInv
    BY TypeInit, LockBudgetInit
  <1>2. TypeOK /\ LockInv /\ [Next]_vars => (TypeOK /\ LockInv)'
    BY TypeStep, LockStep
  <1> QED
    BY <1>1, <1>2, PTL DEF Spec

(* A worker that is processing a job owns its row, as long as no live      *)
(* worker outlasts STALE_LOCK_MS.                                          *)
THEOREM RowLockHolds ==
  ASSUME ~SlowWorkers
  PROVE  Spec => []RowLock
  <1>1. LockInv => RowLock
    BY DEF LockInv
  <1> QED
    BY <1>1, LockAlways, PTL

(* A row is in one hand only: two workers that hold it would both be the   *)
(* one in its lockedBy.                                                    *)
THEOREM OneHandHolds ==
  ASSUME ~SlowWorkers
  PROVE  Spec => []JobInOneHand
  <1>1. LockInv => JobInOneHand
    BY DEF LockInv, RowLock, JobInOneHand
  <1> QED
    BY <1>1, LockAlways, PTL

(* Every attempt beyond the maximum is paid for by a fault, also when slow *)
(* workers process a job side by side and each may put it back.            *)
THEOREM RetryBudgetHolds == Spec => []RetryBudget
  <1>1. TypeOK /\ BudgetInv => RetryBudget
    <2> SUFFICES ASSUME TypeOK, BudgetInv, NEW j \in Jobs
                 PROVE  /\ attempts[j] <= MaxAttempts + faults
                        /\ Pending(j) => attempts[j] < MaxAttempts + faults
      BY DEF RetryBudget
    <2>1. Pending(j) => OpenClaims(j) = 1
      BY DEF OpenClaims, Open
    <2> QED
      BY <2>1, BudgetNumbers DEF JobPaid, ClaimsPaid
  <1> QED
    BY <1>1, BudgetAlways, PTL

(* No step touches the status of a settled row, because whoever writes one *)
(* by its id holds it, and what is held is processing.                     *)
LEMMA SettledStep ==
  ASSUME TypeOK, LockInv, [Next]_vars,
         NEW j \in Jobs, status[j] \in {"done", "failed"}
  PROVE  status'[j] = status[j]
  <1> USE DEF sourceVars, contentVars, lockVars, tableVars, senderVars,
              claimVars, handVars, ghostVars
  <1>1. ASSUME NEW s \in Senders, EnqueueCreate(s) PROVE status'[j] = status[j]
    BY <1>1, SyncQueueAssumption
    DEF EnqueueCreate, TypeOK, TableOK, RowsExist, Jobs
  <1>2. ASSUME NEW w \in Workers, ReclaimStale(w) PROVE status'[j] = status[j]
    BY <1>2 DEF ReclaimStale, Reclaimable, Processing
  <1>3. ASSUME NEW w \in Workers, NEW i \in Jobs, Claim(w, i)
        PROVE  status'[j] = status[j]
    BY <1>3 DEF Claim, Claimable, Pending, TypeOK, TableOK
  <1>4. ASSUME NEW w \in Workers, MarkDone(w) \/ MarkFailedWrite(w)
        PROVE  status'[j] = status[j]
    <2>1. hand[w] # NoJob
      BY <1>4 DEF MarkDone, MarkFailedWrite, TypeOK, PhasesOK, Busy
    <2>2. hand[w] # j
      BY <2>1 DEF LockInv, RowLock, Processing
    <2> QED
      BY <1>4, <2>2 DEF MarkDone, MarkFailedWrite, Settle, TypeOK, TableOK
  <1>5. CASE UNCHANGED status
    BY <1>5
  <1> QED
    BY <1>1, <1>2, <1>3, <1>4, <1>5
    DEF Next, EnqueueStep, WorkerStep, FaultStep, Edit, Sweep, EnqueueFind,
        EnqueueFold, EnqueueError, BecomeDue, BecomeStale, ClaimBegin,
        ClaimSkip, TickEnd, Hydrate, Sync, SyncThrows, MarkFailedRead, Restart,
        MarkDoneThrows, MarkFailedThrows, Crash, Stop, Forget, Proceed, vars

(* A settled job is never processed again, and done never becomes failed. *)
THEOREM SettledStaysHolds ==
  ASSUME ~SlowWorkers
  PROVE  Spec => SettledStays
  <1>1. TypeOK /\ LockInv /\ [Next]_vars
          => [\A j \in Jobs : status[j] \in {"done", "failed"}
                                => status'[j] = status[j]]_vars
    BY SettledStep
  <1> QED
    BY <1>1, LockAlways, PTL DEF Spec, SettledStays

-----------------------------------------------------------------------------
(* Delivery: a done job has seen every change acknowledged onto it, and    *)
(* the queue keeps what ChangeDelivery promises.                           *)

(* What a worker does leaves the source, the rows' contents and the        *)
(* senders alone.                                                          *)
LEMMA WorkerFrame ==
  ASSUME NEW w \in Workers, WorkerStep(w) \/ FaultStep(w)
  PROVE  UNCHANGED <<version, outbox, created, key, payload, covers, event,
                     found>>
  BY DEF WorkerStep, FaultStep, ReclaimStale, ClaimBegin, ClaimSkip, Claim,
     TickEnd, Hydrate, Sync, SyncThrows, MarkDone, MarkFailedRead,
     MarkFailedWrite, Restart, MarkDoneThrows, MarkFailedThrows, Crash, Stop,
     Forget, Proceed, Settle, sourceVars, contentVars, tableVars, senderVars

(* Nor does the clock touch them, or what workers hold. *)
LEMMA ClockFrame ==
  ASSUME NEW j \in Jobs, BecomeDue(j) \/ BecomeStale(j)
  PROVE  UNCHANGED <<version, outbox, created, key, payload, covers, event,
                     found, status, phase, hand, seen, synced>>
  BY DEF BecomeDue, BecomeStale, Fault, sourceVars, contentVars, senderVars,
     handVars, ghostVars

(* What enqueue does leaves the source's records and the workers alone. *)
LEMMA SenderFrame ==
  ASSUME NEW s \in Senders, EnqueueStep(s) \/ EnqueueError(s)
  PROVE  UNCHANGED <<version, phase, hand, seen, synced>>
  BY DEF EnqueueStep, EnqueueFind, EnqueueFold, EnqueueCreate, EnqueueError,
     Return, Fault, sourceVars, handVars, ghostVars

(* An edit or a sweep only adds an event. *)
LEMMA SourceFrame ==
  ASSUME NEW k \in Keys, Edit(k) \/ Sweep(k)
  PROVE  UNCHANGED <<created, key, payload, covers, event, found, status,
                     phase, hand, seen, synced>>
  BY DEF Edit, Sweep, contentVars, lockVars, tableVars, senderVars, handVars,
     ghostVars

(* Records never lose a version. *)
LEMMA VersionsGrow ==
  ASSUME TypeOK, [Next]_vars
  PROVE  \A k \in Keys : version[k] <= version'[k]
  <1>1. ASSUME NEW k \in Keys, Edit(k)
        PROVE  \A i \in Keys : version[i] <= version'[i]
    BY <1>1, SyncQueueAssumption DEF Edit, TypeOK, SourceOK, Versions
  <1>2. (\A k \in Keys : ~Edit(k)) => UNCHANGED version
    BY WorkerFrame, ClockFrame, SenderFrame DEF Next, Sweep, vars, sourceVars
  <1> QED
    BY <1>1, <1>2, SyncQueueAssumption DEF TypeOK, SourceOK, Versions

(* Rows keep their key. *)
LEMMA KeysStay ==
  ASSUME TypeOK, [Next]_vars
  PROVE  /\ created <= created'
         /\ \A j \in Jobs : j <= created => key'[j] = key[j]
  <1>1. ASSUME NEW s \in Senders, EnqueueCreate(s)
        PROVE  /\ created <= created'
               /\ \A j \in Jobs : j <= created => key'[j] = key[j]
    BY <1>1, SyncQueueAssumption DEF EnqueueCreate, TypeOK, TableOK, Jobs
  <1>2. (\A s \in Senders : ~EnqueueCreate(s)) => UNCHANGED <<created, key>>
    BY WorkerFrame, ClockFrame, SourceFrame
    DEF Next, EnqueueStep, EnqueueFind, EnqueueFold, EnqueueError, vars,
        tableVars, contentVars
  <1> QED
    BY <1>1, <1>2, SyncQueueAssumption DEF TypeOK, TableOK

-----------------------------------------------------------------------------
(* An event that is true stays true. *)
LEMMA EventStays ==
  ASSUME TypeOK, [Next]_vars, NEW e \in Event, EventOK(e)
  PROVE  /\ e.version <= version'[e.key]
         /\ e.key \in LiveKeys => ~e.carried
  <1>1. e.version <= version[e.key] /\ (e.key \in LiveKeys => ~e.carried)
    BY DEF EventOK
  <1>2. e.key \in Keys /\ e.version \in Nat
    BY EventFields, SyncQueueAssumption DEF Versions
  <1>3. version[e.key] \in Nat /\ version'[e.key] \in Nat
    BY <1>2, TypeStep, SyncQueueAssumption DEF TypeOK, SourceOK, Versions
  <1> QED
    BY <1>1, <1>2, <1>3, VersionsGrow

(* Events stay true to the source, and senders to the row they found. *)
LEMMA EventsStep ==
  ASSUME TypeOK, EventsInv, [Next]_vars
  PROVE  EventsInv'
  <1>1. \A e \in outbox : EventOK(e)'
    BY EventStays DEF EventsInv, EventOK, TypeOK, SourceOK
  <1>2. \A s \in Senders : event[s] # None => EventOK(event[s])
    BY DEF EventsInv
  <1>3. ASSUME NEW k \in Keys, Edit(k) PROVE EventsInv'
    <2> DEFINE e == [key |-> k, version |-> version[k] + 1,
                     carried |-> k \notin IdKeys]
    <2>1. outbox' = outbox \cup {e} /\ version'[k] = version[k] + 1
      BY <1>3 DEF Edit, TypeOK, SourceOK
    <2>2. UNCHANGED <<event, found, key>>
      BY <1>3, SourceFrame
    <2>3. ASSUME NEW x, x = e PROVE EventOK(x)'
      <3>1. x.key = k /\ x.version = version[k] + 1 /\ x.carried = (k \notin IdKeys)
        BY <2>3
      <3>2. k \in IdKeys => ~x.carried
        BY <3>1, Zenon
      <3>3. version'[k] \in Nat
        BY <2>1, SyncQueueAssumption DEF TypeOK, SourceOK, Versions
      <3> QED
        BY <2>1, <3>1, <3>2, <3>3 DEF EventOK, LiveKeys
    <2> HIDE DEF e
    <2>4. \A s \in Senders : event[s] # None => EventOK(event[s])'
      BY <1>2, <2>2, EventStays DEF EventOK, TypeOK, SenderOK
    <2> QED
      BY <1>1, <2>1, <2>2, <2>3, <2>4 DEF EventsInv
  <1>4. ASSUME NEW k \in Keys, Sweep(k) PROVE EventsInv'
    <2> DEFINE e == [key |-> k, version |-> version[k], carried |-> TRUE]
    <2>1. outbox' = outbox \cup {e} /\ UNCHANGED <<version, event, found, key>>
      BY <1>4, SourceFrame DEF Sweep
    <2>2. ASSUME NEW x, x = e PROVE EventOK(x)'
      <3>1. x.key = k /\ x.version = version[k] /\ k \in SweptKeys
        BY <1>4, <2>2 DEF Sweep
      <3>2. version[k] \in Nat
        BY SyncQueueAssumption DEF TypeOK, SourceOK, Versions
      <3> QED
        BY <2>1, <3>1, <3>2 DEF EventOK, LiveKeys
    <2> HIDE DEF e
    <2> QED
      BY <1>1, <2>1, <2>2 DEF EventsInv, EventOK
  <1>5. ASSUME NEW s \in Senders, NEW e \in outbox, EnqueueFind(s, e)
        PROVE  EventsInv'
    <2>1. /\ event' = [event EXCEPT ![s] = e]
          /\ UNCHANGED <<version, outbox, key>>
          /\ event[s] = None
      BY <1>5 DEF EnqueueFind, sourceVars, tableVars, contentVars
    <2>2. /\ e.key \in Keys
          /\ e # None
          /\ EventOK(e)
      BY EventFields, NoneIsNoEvent DEF EventsInv, TypeOK, SourceOK
    <2>3. found' = [found EXCEPT ![s] = found'[s]]
          /\ (found'[s] # NoJob => key[found'[s]] = e.key)
      BY <1>5 DEF EnqueueFind, PendingFor, TypeOK, SenderOK
    <2> QED
      BY <2>1, <2>2, <2>3 DEF EventsInv, EventOK, TypeOK, SenderOK
  <1>6. ASSUME NEW s \in Senders,
               EnqueueFold(s) \/ EnqueueCreate(s) \/ EnqueueError(s)
        PROVE  EventsInv'
    <2>1. /\ event' = [event EXCEPT ![s] = None]
          /\ found' = [found EXCEPT ![s] = NoJob]
          /\ outbox' \subseteq outbox
          /\ UNCHANGED version
      BY <1>6 DEF EnqueueFold, EnqueueCreate, EnqueueError, Return
    <2>2. \A r \in Senders : found[r] # NoJob =>
            found[r] \in Jobs /\ found[r] <= created
      BY DEF TypeOK, SenderOK, RowsExist
    <2>3. \A r \in Senders : found[r] # NoJob => key'[found[r]] = key[found[r]]
      BY <2>2, KeysStay
    <2> QED
      BY <2>1, <2>3 DEF EventsInv, EventOK, TypeOK, SenderOK
  <1>7. ASSUME UNCHANGED <<version, outbox, key, event, found>>
        PROVE  EventsInv'
    BY <1>7 DEF EventsInv, EventOK
  <1> QED
    BY <1>3, <1>4, <1>5, <1>6, <1>7, WorkerFrame, ClockFrame
    DEF Next, EnqueueStep, vars, sourceVars, tableVars, contentVars, senderVars

(* Rows hold nothing the source has not held. *)
LEMMA RowsStep ==
  ASSUME TypeOK, EventsInv, RowsInv, [Next]_vars
  PROVE  RowsInv'
  <1> USE SyncQueueAssumption
  <1> DEFINE Row(j, k, c, p) == /\ c <= version'[k]
                                /\ p <= version'[k]
                                /\ k \in LiveKeys => p = 0
  <1>1. \A j \in Jobs : j <= created => Row(j, key[j], covers[j], payload[j])
    <2> SUFFICES ASSUME NEW j \in Jobs, j <= created
                 PROVE  Row(j, key[j], covers[j], payload[j])
      OBVIOUS
    <2>1. key[j] \in Keys /\ covers[j] \in Nat /\ payload[j] \in Nat
      BY DEF TypeOK, TableOK, RowsExist, Versions
    <2>2. /\ version[key[j]] \in Nat
          /\ version'[key[j]] \in Nat
          /\ version[key[j]] <= version'[key[j]]
      BY <2>1, VersionsGrow, TypeStep DEF TypeOK, SourceOK, Versions
    <2> QED
      BY <2>1, <2>2 DEF RowsInv
  <1>2. \A s \in Senders : event[s] # None =>
          /\ event[s].key \in Keys
          /\ Row(0, event[s].key, event[s].version, Carried(event[s]))
    <2> SUFFICES ASSUME NEW s \in Senders, event[s] # None
                 PROVE  /\ event[s].key \in Keys
                        /\ Row(0, event[s].key, event[s].version,
                               Carried(event[s]))
      OBVIOUS
    <2>1. event[s] \in Event /\ EventOK(event[s])
      BY DEF TypeOK, SenderOK, EventsInv
    <2>2. /\ event[s].key \in Keys
          /\ event[s].version <= version'[event[s].key]
          /\ event[s].key \in LiveKeys => ~event[s].carried
      BY <2>1, EventFields, EventStays
    <2>3. version'[event[s].key] \in Nat
      BY <2>2, TypeStep DEF TypeOK, SourceOK, Versions
    <2> QED
      BY <2>2, <2>3 DEF Carried
  <1>3. ASSUME NEW s \in Senders, EnqueueFold(s) PROVE RowsInv'
    <2>1. /\ event[s] # None /\ found[s] \in Jobs /\ found[s] <= created
          /\ key[found[s]] = event[s].key
      BY <1>3 DEF EnqueueFold, EventsInv, TypeOK, SenderOK, RowsExist
    <2>2. /\ payload' = [payload EXCEPT ![found[s]] = Carried(event[s])]
          /\ covers' = [covers EXCEPT ![found[s]] = Larger(@, event[s].version)]
          /\ UNCHANGED <<created, key>>
      BY <1>3 DEF EnqueueFold
    <2>3. Row(0, key[found[s]], covers'[found[s]], payload'[found[s]])
      BY <1>1, <1>2, <2>1, <2>2 DEF Larger, TypeOK, TableOK
    <2> QED
      BY <1>1, <2>1, <2>2, <2>3 DEF RowsInv, TypeOK, TableOK
  <1>4. ASSUME NEW s \in Senders, EnqueueCreate(s) PROVE RowsInv'
    <2>1. /\ created' = created + 1 /\ created + 1 \in Jobs
          /\ key' = [key EXCEPT ![created + 1] = event[s].key]
          /\ payload' = [payload EXCEPT ![created + 1] = Carried(event[s])]
          /\ covers' = [covers EXCEPT ![created + 1] = event[s].version]
          /\ event[s] # None
      BY <1>4 DEF EnqueueCreate, TypeOK, TableOK, Jobs
    <2>2. \A j \in Jobs : j <= created' => j <= created \/ j = created + 1
      BY <2>1 DEF Jobs, TypeOK, TableOK
    <2>3. \A j \in Jobs : j <= created => j # created + 1
      BY DEF Jobs, TypeOK, TableOK
    <2>4. Row(0, key'[created + 1], covers'[created + 1], payload'[created + 1])
      BY <1>2, <2>1 DEF TypeOK, TableOK
    <2>5. ASSUME NEW j \in Jobs, j <= created
          PROVE  Row(j, key'[j], covers'[j], payload'[j])
      <3>1. key'[j] = key[j] /\ covers'[j] = covers[j] /\ payload'[j] = payload[j]
        BY <2>1, <2>3, <2>5 DEF TypeOK, TableOK
      <3> QED
        BY <1>1, <2>5, <3>1
    <2> QED
      BY <2>2, <2>4, <2>5 DEF RowsInv
  <1>5. ASSUME UNCHANGED <<created, key, payload, covers>> PROVE RowsInv'
    BY <1>1, <1>5 DEF RowsInv
  <1> QED
    BY <1>3, <1>4, <1>5, WorkerFrame, ClockFrame, SourceFrame
    DEF Next, EnqueueStep, EnqueueFind, EnqueueError, vars, tableVars,
        contentVars

(* Nothing is seen or synced that the source has not held. *)
LEMMA SeenStep ==
  ASSUME TypeOK, RowsInv, SeenInv, [Next]_vars
  PROVE  SeenInv'
  <1> USE SyncQueueAssumption
  <1>1. ASSUME NEW k \in Keys, NEW n \in Nat, n <= version[k]
        PROVE  n <= version'[k]
    <2>1. version[k] \in Nat /\ version'[k] \in Nat /\ version[k] <= version'[k]
      BY VersionsGrow, TypeStep DEF TypeOK, SourceOK, Versions
    <2> QED
      BY <1>1, <2>1
  <1>2. ASSUME NEW j \in Jobs, j <= created
        PROVE  key[j] \in Keys /\ key'[j] = key[j]
    BY <1>2, KeysStay DEF TypeOK, RowsExist
  <1>3. \A v \in Workers : hand[v] # NoJob =>
          /\ hand[v] \in Jobs
          /\ key[hand[v]] \in Keys
          /\ key'[hand[v]] = key[hand[v]]
          /\ seen[v] <= version'[key[hand[v]]]
    <2> SUFFICES ASSUME NEW v \in Workers, hand[v] # NoJob
                 PROVE  /\ hand[v] \in Jobs
                        /\ key[hand[v]] \in Keys
                        /\ key'[hand[v]] = key[hand[v]]
                        /\ seen[v] <= version'[key[hand[v]]]
      OBVIOUS
    <2>1. hand[v] \in Jobs /\ hand[v] <= created /\ seen[v] \in Nat
      BY DEF TypeOK, HandOK, RowsExist, Versions
    <2>2. key[hand[v]] \in Keys /\ key'[hand[v]] = key[hand[v]]
      BY <1>2, <2>1
    <2> QED
      BY <1>1, <2>1, <2>2 DEF SeenInv, KeyInHand
  <1>4. \A k \in Keys : synced[k] <= version'[k]
    BY <1>1 DEF SeenInv, TypeOK, GhostOK, Versions
  <1>5. ASSUME UNCHANGED synced,
               \A v \in Workers : hand'[v] # NoJob =>
                 /\ hand'[v] = hand[v]
                 /\ seen'[v] = seen[v]
                 /\ phase'[v] = "claimed" => phase[v] = "claimed"
        PROVE  SeenInv'
    BY <1>3, <1>4, <1>5 DEF SeenInv, KeyInHand
  <1>6. ASSUME NEW w \in Workers, NEW j \in Jobs, Claim(w, j) PROVE SeenInv'
    <2>1. /\ hand' = [hand EXCEPT ![w] = j]
          /\ seen' = [seen EXCEPT ![w] = payload[j]]
          /\ phase' = [phase EXCEPT ![w] = "claimed"]
          /\ UNCHANGED synced
          /\ status[j] = "pending"
      BY <1>6 DEF Claim, Claimable, Pending, ghostVars
    <2>2. /\ j <= created
          /\ key[j] \in Keys
          /\ key'[j] = key[j]
          /\ payload[j] \in Nat
      BY <1>2, <2>1 DEF TypeOK, TableOK, RowsExist, Versions
    <2>3. /\ payload[j] <= version'[key[j]]
          /\ key[j] \in LiveKeys => payload[j] = 0
      BY <1>1, <2>2 DEF RowsInv
    <2> QED
      BY <1>3, <1>4, <2>1, <2>2, <2>3
      DEF SeenInv, KeyInHand, TypeOK, HandOK, ClaimOK
  <1>7. ASSUME NEW w \in Workers, Hydrate(w) PROVE SeenInv'
    <2>1. /\ seen' = [seen EXCEPT ![w] = IF @ = 0 THEN version[KeyInHand(w)]
                                                  ELSE @]
          /\ phase' = [phase EXCEPT ![w] = "hydrated"]
          /\ UNCHANGED <<version, hand, synced>>
      BY <1>7 DEF Hydrate, Proceed, sourceVars, ghostVars
    <2>2. hand[w] # NoJob
      BY <1>7 DEF Hydrate, TypeOK, PhasesOK, Busy
    <2>3. version[KeyInHand(w)] <= version'[KeyInHand(w)]
      BY <1>3, <2>1, <2>2 DEF KeyInHand, TypeOK, SourceOK, Versions
    <2> QED
      BY <1>3, <1>4, <2>1, <2>3 DEF SeenInv, KeyInHand, TypeOK, HandOK, ClaimOK
  <1>8. ASSUME NEW w \in Workers, Sync(w) PROVE SeenInv'
    <2>1. /\ synced' = [synced EXCEPT ![KeyInHand(w)] = Larger(@, seen[w])]
          /\ phase' = [phase EXCEPT ![w] = "finished"]
          /\ UNCHANGED <<hand, seen>>
      BY <1>8 DEF Sync, Proceed
    <2>2. hand[w] # NoJob
      BY <1>8 DEF Sync, TypeOK, PhasesOK, Busy
    <2>3. \A k \in Keys : synced'[k] <= version'[k]
      BY <1>3, <1>4, <2>1, <2>2 DEF Larger, KeyInHand, TypeOK, GhostOK
    <2> QED
      BY <1>3, <2>1, <2>3 DEF SeenInv, KeyInHand, TypeOK, ClaimOK
  <1>9. ASSUME NEW w \in Workers,
               \/ ReclaimStale(w) \/ ClaimBegin(w)
               \/ \E j \in Jobs : ClaimSkip(w, j)
               \/ Stop(w) \/ Restart(w)
        PROVE  SeenInv'
    <2>1. UNCHANGED <<hand, seen, synced>>
      BY <1>9 DEF ReclaimStale, ClaimBegin, ClaimSkip, Stop, Restart, Fault,
                  handVars, ghostVars
    <2>2. \A v \in Workers : phase'[v] = "claimed" => phase[v] = "claimed"
      BY <1>9 DEF ReclaimStale, ClaimBegin, ClaimSkip, Stop, Restart, TypeOK,
                  ClaimOK
    <2> QED
      BY <1>5, <2>1, <2>2
  <1>10. ASSUME NEW w \in Workers,
                TickEnd(w) \/ MarkFailedThrows(w) \/ Crash(w)
         PROVE  SeenInv'
    <2>1. Forget(w) /\ UNCHANGED synced
      BY <1>10 DEF TickEnd, MarkFailedThrows, Crash, Fault, ghostVars
    <2> QED
      BY <1>5, <2>1 DEF Forget, TypeOK, ClaimOK, HandOK
  <1>11. ASSUME NEW w \in Workers, MarkDone(w) \/ MarkFailedWrite(w)
         PROVE  SeenInv'
    <2>1. /\ hand' = [hand EXCEPT ![w] = NoJob]
          /\ seen' = [seen EXCEPT ![w] = 0]
          /\ phase' = [phase EXCEPT ![w] = "polling"]
          /\ UNCHANGED synced
      BY <1>11 DEF MarkDone, MarkFailedWrite, Settle, ghostVars
    <2> QED
      BY <1>5, <2>1 DEF TypeOK, ClaimOK, HandOK
  <1>12. ASSUME NEW w \in Workers,
                SyncThrows(w) \/ MarkDoneThrows(w) \/ MarkFailedRead(w)
         PROVE  SeenInv'
    <2>1. /\ \E to \in {"failing", "marking"} : phase' = [phase EXCEPT ![w] = to]
          /\ UNCHANGED <<hand, seen, synced>>
      BY <1>12 DEF SyncThrows, MarkDoneThrows, MarkFailedRead, Proceed, Fault,
                   ghostVars
    <2> QED
      BY <1>5, <2>1 DEF TypeOK, ClaimOK
  <1>13. CASE UNCHANGED <<phase, hand, seen, synced>>
    BY <1>5, <1>13
  <1> QED
    BY <1>6, <1>7, <1>8, <1>9, <1>10, <1>11, <1>12, <1>13, SenderFrame,
       ClockFrame, SourceFrame
    DEF Next, WorkerStep, FaultStep, vars, handVars, ghostVars

-----------------------------------------------------------------------------
(* What was seen stays seen: no step loses a version between the worker    *)
(* that read it, the sync that finished with it and the row that is done.  *)
LEMMA SeenEnoughStays ==
  ASSUME TypeOK, LockInv, SeenInv, [Next]_vars,
         NEW j \in Jobs, j <= created, key[j] \in LiveKeys,
         NEW n \in Nat, n <= version[key[j]], SeenEnough(j, n)
  PROVE  SeenEnough(j, n)'
  <1> USE SyncQueueAssumption
  <1>1. key[j] \in Keys /\ key'[j] = key[j]
    BY KeysStay DEF TypeOK, RowsExist
  <1>2. ASSUME UNCHANGED synced,
               status'[j] = "done" => status[j] = "done",
               \A v \in Workers : hand'[v] = j /\ phase'[v] \in {"hydrated", "finished"}
                 => hand[v] = j /\ seen'[v] = seen[v] /\ phase[v] = phase'[v]
        PROVE  SeenEnough(j, n)'
    BY <1>1, <1>2 DEF SeenEnough
  <1>3. ASSUME NEW w \in Workers, Hydrate(w) PROVE SeenEnough(j, n)'
    <2>1. /\ seen' = [seen EXCEPT ![w] = IF @ = 0 THEN version[KeyInHand(w)]
                                                  ELSE @]
          /\ phase' = [phase EXCEPT ![w] = "hydrated"]
          /\ UNCHANGED <<status, hand, synced>>
          /\ phase[w] = "claimed"
      BY <1>3 DEF Hydrate, Proceed, tableVars, lockVars, ghostVars
    <2>2. hand[w] = j => seen'[w] = version[key[j]]
      BY <2>1, j # NoJob DEF SeenInv, KeyInHand, TypeOK, HandOK, Jobs, NoJob
    <2> QED
      BY <1>1, <2>1, <2>2 DEF SeenEnough, TypeOK, HandOK, ClaimOK
  <1>4. ASSUME NEW w \in Workers, Sync(w) PROVE SeenEnough(j, n)'
    <2>1. /\ synced' = [synced EXCEPT ![KeyInHand(w)] = Larger(@, seen[w])]
          /\ phase' = [phase EXCEPT ![w] = "finished"]
          /\ UNCHANGED <<status, hand, seen>>
          /\ phase[w] = "hydrated"
      BY <1>4 DEF Sync, Proceed, tableVars, lockVars
    <2>2. n <= synced[key[j]] => n <= synced'[key[j]]
      BY <1>1, <2>1 DEF Larger, TypeOK, GhostOK, HandOK, Versions
    <2>3. hand[w] = j => n <= synced'[key[j]]
      BY <1>1, <2>1 DEF Larger, KeyInHand, SeenEnough, TypeOK, GhostOK, HandOK,
                        Versions
    <2> QED
      BY <1>1, <2>1, <2>2, <2>3 DEF SeenEnough, TypeOK, ClaimOK
  <1>5. ASSUME NEW w \in Workers, NEW i \in Jobs, Claim(w, i)
        PROVE  SeenEnough(j, n)'
    <2>1. /\ hand' = [hand EXCEPT ![w] = i]
          /\ seen' = [seen EXCEPT ![w] = payload[i]]
          /\ phase' = [phase EXCEPT ![w] = "claimed"]
          /\ status' = [status EXCEPT ![i] = "processing"]
          /\ UNCHANGED synced
      BY <1>5 DEF Claim, ghostVars
    <2> QED
      BY <1>2, <2>1 DEF TypeOK, TableOK, HandOK, ClaimOK
  <1>6. ASSUME NEW w \in Workers, MarkDone(w) \/ MarkFailedWrite(w)
        PROVE  SeenEnough(j, n)'
    <2>1. /\ hand' = [hand EXCEPT ![w] = NoJob]
          /\ seen' = [seen EXCEPT ![w] = 0]
          /\ phase' = [phase EXCEPT ![w] = "polling"]
          /\ UNCHANGED synced
      BY <1>6 DEF MarkDone, MarkFailedWrite, Settle, ghostVars
    <2>2. status'[j] = "done" => status[j] = "done" \/ n <= synced[key[j]]
      <3>1. CASE MarkDone(w)
        BY <3>1 DEF MarkDone, Settle, SeenEnough, TypeOK, TableOK
      <3>2. CASE MarkFailedWrite(w)
        BY <3>2 DEF MarkFailedWrite, Settle, Verdict, TypeOK, TableOK
      <3> QED
        BY <1>6, <3>1, <3>2
    <2>3. \A v \in Workers : hand'[v] = j =>
            hand[v] = j /\ phase'[v] = phase[v] /\ seen'[v] = seen[v]
      BY <2>1 DEF TypeOK, HandOK, ClaimOK, Jobs, NoJob
    <2> QED
      BY <1>1, <2>1, <2>2, <2>3 DEF SeenEnough
  <1>7. ASSUME NEW w \in Workers,
               TickEnd(w) \/ MarkFailedThrows(w) \/ Crash(w)
        PROVE  SeenEnough(j, n)'
    <2>1. Forget(w) /\ UNCHANGED synced
      BY <1>7 DEF TickEnd, MarkFailedThrows, Crash, Fault, ghostVars
    <2> QED
      BY <1>2, <2>1 DEF Forget, tableVars, lockVars, TypeOK, ClaimOK, HandOK
  <1>8. ASSUME NEW w \in Workers,
               \/ ReclaimStale(w) \/ ClaimBegin(w)
               \/ \E i \in Jobs : ClaimSkip(w, i)
               \/ Stop(w) \/ Restart(w)
        PROVE  SeenEnough(j, n)'
    <2>1. UNCHANGED <<hand, seen, synced>>
      BY <1>8 DEF ReclaimStale, ClaimBegin, ClaimSkip, Stop, Restart, Fault,
                  handVars, ghostVars
    <2>2. /\ \A v \in Workers : phase'[v] \in {"hydrated", "finished"}
                                  => phase[v] = phase'[v]
          /\ status'[j] = "done" => status[j] = "done"
      BY <1>8
      DEF ReclaimStale, ClaimBegin, ClaimSkip, Stop, Restart, tableVars,
                  lockVars, TypeOK, ClaimOK
    <2> QED
      BY <1>2, <2>1, <2>2
  <1>9. ASSUME NEW w \in Workers,
               SyncThrows(w) \/ MarkDoneThrows(w) \/ MarkFailedRead(w)
        PROVE  SeenEnough(j, n)'
    <2>1. /\ \E to \in {"failing", "marking"} : phase' = [phase EXCEPT ![w] = to]
          /\ UNCHANGED <<status, hand, seen, synced>>
      BY <1>9 DEF SyncThrows, MarkDoneThrows, MarkFailedRead, Proceed, Fault,
                  tableVars, lockVars, ghostVars
    <2> QED
      BY <1>2, <2>1 DEF TypeOK, ClaimOK
  <1>10. ASSUME NEW s \in Senders, EnqueueStep(s) \/ EnqueueError(s)
         PROVE  SeenEnough(j, n)'
    <2>1. status'[j] = status[j]
      BY <1>10 DEF EnqueueStep, EnqueueFind, EnqueueFold, EnqueueCreate,
         EnqueueError, tableVars, lockVars, TypeOK, TableOK, Jobs
    <2> QED
      BY <1>2, <1>10, <2>1, SenderFrame
  <1>11. CASE UNCHANGED <<status, phase, hand, seen, synced>>
    BY <1>2, <1>11
  <1> QED
    BY <1>3, <1>4, <1>5, <1>6, <1>7, <1>8, <1>9, <1>10, <1>11, ClockFrame,
       SourceFrame
    DEF Next, WorkerStep, FaultStep, vars, tableVars, lockVars, handVars,
        ghostVars

(* A row that is pending owes nothing yet. *)
LEMMA PendingOwesNothing ==
  ASSUME LockInv, TypeOK, NEW j \in Jobs, Pending(j), NEW n \in Nat
  PROVE  SeenEnough(j, n)
  <1>1. \A w \in Workers : hand[w] # j
    BY DEF LockInv, RowLock, Pending, Processing, Jobs, NoJob
  <1> QED
    BY <1>1 DEF SeenEnough, Pending

(* A done job has seen all that was acknowledged onto it. *)
LEMMA CoverStep ==
  ASSUME TypeOK, LockInv, VersionInv, CoverInv, [Next]_vars
  PROVE  CoverInv'
  <1> USE SyncQueueAssumption
  <1>1. \A j \in Jobs : j <= created /\ key[j] \in LiveKeys
                          => SeenEnough(j, covers[j])
    BY DEF CoverInv
  <1> DEFINE After(j, n) ==
        /\ status'[j] = "done" => n <= synced'[key'[j]]
        /\ \A w \in Workers : hand'[w] = j =>
             /\ phase'[w] = "hydrated" => n <= seen'[w]
             /\ phase'[w] = "finished" => n <= synced'[key'[j]]
  <1>2. ASSUME NEW j \in Jobs, j <= created, key[j] \in LiveKeys,
               NEW n \in Nat, n <= version[key[j]], SeenEnough(j, n)
        PROVE  After(j, n)
    BY <1>2, SeenEnoughStays DEF VersionInv, SeenEnough
  <1> HIDE DEF After
  <1>3. ASSUME NEW j \in Jobs, j <= created, key[j] \in LiveKeys
        PROVE  After(j, covers[j])
    BY <1>1, <1>2, <1>3 DEF VersionInv, RowsInv, TypeOK, TableOK, Versions
  <1>4. ASSUME NEW s \in Senders, event[s] # None
        PROVE  event[s].version \in Nat /\ event[s].version <= version[event[s].key]
    <2>1. event[s] \in Event /\ EventOK(event[s])
      BY <1>4 DEF VersionInv, EventsInv, TypeOK, SenderOK
    <2> QED
      BY <2>1, EventFields DEF EventOK, Versions
  <1>5. ASSUME NEW s \in Senders, found[s] # NoJob, event[s].key \in LiveKeys
        PROVE  /\ found[s] \in Jobs /\ found[s] <= created
               /\ key[found[s]] = event[s].key
               /\ After(found[s], event[s].version)
    <2>1. /\ found[s] \in Jobs /\ found[s] <= created
          /\ key[found[s]] = event[s].key /\ event[s] # None
      BY <1>5 DEF VersionInv, EventsInv, TypeOK, SenderOK, RowsExist
    <2>2. SeenEnough(found[s], event[s].version)
      BY <1>5 DEF CoverInv
    <2> QED
      BY <1>2, <1>4, <1>5, <2>1, <2>2
  <1>6. ASSUME \A j \in Jobs : key'[j] \in LiveKeys => After(j, covers'[j]),
               \A s \in Senders : found'[s] # NoJob /\ event'[s].key \in LiveKeys
                 => After(found'[s], event'[s].version)
        PROVE  CoverInv'
    BY <1>6 DEF CoverInv, SeenEnough, After
  <1>7. \A j \in Jobs : key[j] \in LiveKeys => j <= created
    BY DEF LiveKeys, TypeOK, RowsExist
  <1>8. ASSUME NEW s \in Senders, NEW e \in outbox, EnqueueFind(s, e)
        PROVE  CoverInv'
    <2>1. /\ UNCHANGED <<key, status, covers, created>>
          /\ event' = [event EXCEPT ![s] = e]
      BY <1>8 DEF EnqueueFind, tableVars, contentVars, lockVars
    <2>2. /\ found'[s] = NoJob \/ found'[s] \in PendingFor(e.key)
          /\ \A r \in Senders : r # s => found'[r] = found[r]
      BY <1>8 DEF EnqueueFind, TypeOK, SenderOK
    <2>3. ASSUME found'[s] # NoJob, e.key \in LiveKeys
          PROVE  After(found'[s], e.version)
      <3> DEFINE j == found'[s]
      <3>1. j \in Jobs /\ key[j] = e.key /\ Pending(j)
        BY <2>2, <2>3 DEF PendingFor
      <3>2. e \in Event /\ EventOK(e) /\ e.version \in Nat
        BY EventFields DEF VersionInv, EventsInv, TypeOK, SourceOK, Versions
      <3>3. SeenEnough(j, e.version)
        BY <3>1, <3>2, PendingOwesNothing
      <3>4. j <= created /\ key[j] \in LiveKeys /\ e.version <= version[key[j]]
        BY <1>7, <2>3, <3>1, <3>2 DEF EventOK
      <3> HIDE DEF j
      <3>5. After(j, e.version)
        BY <1>2, <3>1, <3>2, <3>3, <3>4
      <3> QED
        BY <3>5 DEF j
    <2> QED
      BY <1>3, <1>5, <1>6, <1>7, <2>1, <2>2, <2>3 DEF TypeOK, SenderOK
  <1>9. ASSUME NEW s \in Senders, EnqueueFold(s) PROVE CoverInv'
    <2>1. /\ event[s] # None /\ found[s] # NoJob
          /\ covers' = [covers EXCEPT ![found[s]] = Larger(@, event[s].version)]
          /\ UNCHANGED <<created, key>>
          /\ event' = [event EXCEPT ![s] = None]
          /\ found' = [found EXCEPT ![s] = NoJob]
      BY <1>9 DEF EnqueueFold, Return
    <2>2. found[s] \in Jobs /\ key[found[s]] = event[s].key
      BY <2>1 DEF VersionInv, EventsInv, TypeOK, SenderOK
    <2>3. key[found[s]] \in LiveKeys => After(found[s], covers'[found[s]])
      BY <1>3, <1>5, <1>7, <2>1, <2>2 DEF Larger, TypeOK, TableOK
    <2>4. \A j \in Jobs : key'[j] \in LiveKeys => After(j, covers'[j])
      BY <1>3, <1>7, <2>1, <2>3 DEF TypeOK, TableOK
    <2> QED
      BY <1>5, <1>6, <2>1, <2>4 DEF TypeOK, SenderOK
  <1>10. ASSUME NEW s \in Senders, EnqueueCreate(s) PROVE CoverInv'
    <2> DEFINE j == created + 1
    <2>1. /\ j \in Jobs /\ created' = j
          /\ key' = [key EXCEPT ![j] = event[s].key]
          /\ covers' = [covers EXCEPT ![j] = event[s].version]
          /\ status' = [status EXCEPT ![j] = "pending"]
          /\ event' = [event EXCEPT ![s] = None]
          /\ found' = [found EXCEPT ![s] = NoJob]
          /\ UNCHANGED hand
      BY <1>10 DEF EnqueueCreate, Return, handVars, TypeOK, TableOK, Jobs
    <2>2. \A i \in Jobs : i <= created => i # j
      BY DEF TypeOK, TableOK, Jobs
    <2>3. \A w \in Workers : hand[w] # j
      BY DEF TypeOK, TableOK, HandOK, RowsExist, Jobs, NoJob
    <2> HIDE DEF j
    <2>4. After(j, covers'[j])
      BY <2>1, <2>3 DEF After, TypeOK, TableOK
    <2>5. \A i \in Jobs : key'[i] \in LiveKeys => After(i, covers'[i])
      BY <1>3, <1>7, <2>1, <2>2, <2>4 DEF TypeOK, TableOK
    <2> QED
      BY <1>5, <1>6, <2>1, <2>5 DEF TypeOK, SenderOK
  <1>11. ASSUME NEW s \in Senders, EnqueueError(s) PROVE CoverInv'
    <2>1. /\ UNCHANGED <<key, covers>>
          /\ event' = [event EXCEPT ![s] = None]
          /\ found' = [found EXCEPT ![s] = NoJob]
      BY <1>11 DEF EnqueueError, Return, tableVars, contentVars
    <2> QED
      BY <1>3, <1>5, <1>6, <1>7, <2>1 DEF TypeOK, SenderOK
  <1>12. CASE UNCHANGED <<key, covers, event, found>>
    BY <1>3, <1>5, <1>6, <1>7, <1>12
  <1> QED
    BY <1>8, <1>9, <1>10, <1>11, <1>12, WorkerFrame, ClockFrame, SourceFrame
    DEF Next, EnqueueStep, vars, tableVars, contentVars, senderVars

-----------------------------------------------------------------------------
(* Nothing is announced, seen or owed to begin with. *)
LEMMA DeliveryInit == Init => VersionInv /\ CoverInv
  <1> SUFFICES ASSUME Init PROVE VersionInv /\ CoverInv
    OBVIOUS
  <1> USE SyncQueueAssumption
  <1>1. EventsInv /\ RowsInv /\ SeenInv
    BY DEF Init, EventsInv, RowsInv, SeenInv, Jobs, NoJob
  <1>2. CoverInv
    BY DEF Init, CoverInv, LiveKeys
  <1> QED
    BY <1>1, <1>2 DEF VersionInv

(* Unless workers are slow, the whole invariant holds at all times. *)
THEOREM QueueInvHolds ==
  ASSUME ~SlowWorkers
  PROVE  Spec => []QueueInv
  <1>1. Init => QueueInv
    BY TypeInit, LockBudgetInit, DeliveryInit DEF QueueInv
  <1>2. QueueInv /\ [Next]_vars => QueueInv'
    BY TypeStep, LockStep, BudgetStep, EventsStep, RowsStep, SeenStep,
       CoverStep
    DEF QueueInv, VersionInv
  <1> QED
    BY <1>1, <1>2, PTL DEF Spec

(* A job that is done, and only named its record, has been synced with a   *)
(* version as new as every change acknowledged onto it, also those folded  *)
(* in by a sender that had found the row before a worker claimed it.       *)
THEOREM DoneCoversEveryEventHolds ==
  ASSUME ~SlowWorkers
  PROVE  Spec => []DoneCoversEveryEvent
  <1>1. QueueInv => DoneCoversEveryEvent
    BY DEF QueueInv, CoverInv, SeenEnough, DoneCoversEveryEvent
  <1> QED
    BY <1>1, QueueInvHolds, PTL

-----------------------------------------------------------------------------
(* The queue implements ChangeDelivery: one lemma for each of its actions, *)
(* and one for the steps that it does not see.                             *)

LEMMA ChangeParts ==
  ASSUME NEW c \in LiveChanges
  PROVE  c[1] \in Keys /\ c[1] \in LiveKeys /\ c[2] \in 1 .. MaxVersion
  BY SyncQueueAssumption DEF LiveChanges, LiveKeys

LEMMA PromisesAreMade ==
  ASSUME TypeOK, RowsInv
  PROVE  Promised \subseteq Changed
  <1> SUFFICES ASSUME NEW c \in LiveChanges, NEW j \in Jobs, On(j, c)
               PROVE  c[2] <= version[c[1]]
    BY DEF Promised, Changed
  <1>1. c[1] \in Keys /\ c[2] \in Nat /\ key[j] = c[1] /\ c[2] <= covers[j]
    BY ChangeParts, SyncQueueAssumption DEF On
  <1>2. j <= created
    BY <1>1, SyncQueueAssumption DEF TypeOK, RowsExist
  <1>3. covers[j] <= version[c[1]]
    BY <1>1, <1>2 DEF RowsInv
  <1> QED
    BY <1>1, <1>3, SyncQueueAssumption
    DEF TypeOK, SourceOK, TableOK, Versions

LEMMA EditMakes ==
  ASSUME TypeOK, NEW k \in Keys, Edit(k)
  PROVE  Delivery!Make
  <1>1. UNCHANGED <<key, covers, status, synced>>
    BY SourceFrame
  <1>2. \A i \in Keys : version[i] <= version'[i]
    BY SyncQueueAssumption DEF Edit, TypeOK, SourceOK, Versions
  <1>3. Changed \subseteq Changed'
    <2> SUFFICES ASSUME NEW c \in LiveChanges, c[2] <= version[c[1]]
                 PROVE  c[2] <= version'[c[1]]
      BY DEF Changed
    <2>1. version'[c[1]] \in Nat /\ version[c[1]] \in Nat /\ c[2] \in Nat
      BY ChangeParts, SyncQueueAssumption
      DEF Edit, TypeOK, SourceOK, Versions
    <2> QED
      BY <1>2, <2>1, ChangeParts
  <1>4. Changed' \subseteq LiveChanges
    BY DEF Changed
  <1>5. UNCHANGED <<Promised, Covered, GivenUp>>
    BY <1>1 DEF Promised, Covered, GivenUp, On
  <1> QED
    BY <1>3, <1>4, <1>5 DEF Delivery!Make

(* What is folded into a row, or opens one, promises the event's change    *)
(* and takes no promise back.                                              *)
LEMMA EnqueueAcknowledges ==
  ASSUME TypeOK, EventsInv, TypeOK', (Promised \subseteq Changed)',
         NEW s \in Senders, EnqueueFold(s) \/ EnqueueCreate(s)
  PROVE  Delivery!Acknowledge
  <1>1. UNCHANGED <<version, synced>>
    BY DEF EnqueueFold, EnqueueCreate, Return, ghostVars
  <1>2. ASSUME NEW j \in Jobs, key[j] \in Keys
        PROVE  /\ key'[j] = key[j]
               /\ covers[j] <= covers'[j]
               /\ status'[j] = status[j]
    <2>1. j <= created
      BY <1>2, SyncQueueAssumption DEF TypeOK, RowsExist
    <2>2. CASE EnqueueFold(s)
      <3>1. /\ UNCHANGED <<key, status>>
            /\ covers' = [covers EXCEPT ![found[s]] =
                            Larger(@, event[s].version)]
            /\ event[s] # None
        BY <2>2 DEF EnqueueFold
      <3>2. event[s].version \in Nat
        BY <3>1, EventFields, SyncQueueAssumption
        DEF TypeOK, SenderOK, Versions
      <3> QED
        BY <3>1, <3>2, SyncQueueAssumption
        DEF Larger, TypeOK, TableOK, Versions
    <2>3. CASE EnqueueCreate(s)
      <3>1. created + 1 # j /\ covers[j] \in Nat
        BY <2>1, SyncQueueAssumption DEF TypeOK, TableOK, Jobs, Versions
      <3> QED
        BY <2>3, <3>1 DEF EnqueueCreate, TypeOK, TableOK
    <2> QED
      BY <2>2, <2>3
  <1>3. ASSUME NEW c \in LiveChanges, NEW j \in Jobs, On(j, c)
        PROVE  On(j, c)' /\ status'[j] = status[j]
    <2>1. key[j] = c[1] /\ c[2] <= covers[j] /\ c[1] \in Keys /\ c[2] \in Nat
      BY <1>3, ChangeParts DEF On
    <2>2. key'[j] = key[j] /\ covers[j] <= covers'[j] /\ status'[j] = status[j]
      BY <1>2, <2>1
    <2>3. covers[j] \in Nat /\ covers'[j] \in Nat
      BY SyncQueueAssumption DEF TypeOK, TableOK, Versions
    <2> QED
      BY <2>1, <2>2, <2>3 DEF On
  <1>4. Promised \subseteq Promised'
    BY <1>3 DEF Promised
  <1>5. GivenUp \subseteq GivenUp'
    BY <1>3 DEF GivenUp
  <1>6. Changed' = Changed /\ Covered' = Covered
    BY <1>1 DEF Changed, Covered
  <1>7. GivenUp' \subseteq Promised'
    BY DEF GivenUp, Promised
  <1> QED
    BY <1>4, <1>5, <1>6, <1>7 DEF Delivery!Acknowledge

LEMMA SyncCovers ==
  ASSUME TypeOK, SeenInv', NEW w \in Workers, Sync(w)
  PROVE  Delivery!Cover
  <1>1. UNCHANGED <<version, key, covers, status>>
    BY DEF Sync, Proceed, sourceVars, tableVars, contentVars, lockVars
  <1>2. UNCHANGED <<Changed, Promised, GivenUp>>
    BY <1>1 DEF Changed, Promised, GivenUp, On
  <1>3. ASSUME NEW k \in Keys
        PROVE  /\ synced[k] <= synced'[k] /\ synced'[k] <= version'[k]
               /\ synced[k] \in Nat /\ synced'[k] \in Nat /\ version'[k] \in Nat
    BY <1>1, SyncQueueAssumption
    DEF Sync, SeenInv, Larger, TypeOK, SourceOK, GhostOK, HandOK, Versions
  <1>4. Covered \subseteq Covered'
    BY <1>3, ChangeParts DEF Covered
  <1>5. Covered' \subseteq Changed
    BY <1>1, <1>3, ChangeParts DEF Covered, Changed
  <1> QED
    BY <1>2, <1>4, <1>5 DEF Delivery!Cover

(* A row that is given up was in hand, so that no verdict is overwritten.  *)
LEMMA FailureGivesUp ==
  ASSUME TypeOK, LockInv, NEW w \in Workers, MarkFailedWrite(w)
  PROVE  Delivery!GiveUp
  <1>1. UNCHANGED <<version, synced, key, covers>>
    BY DEF MarkFailedWrite, Settle, sourceVars, contentVars, ghostVars
  <1>2. UNCHANGED <<Changed, Promised, Covered>>
    BY <1>1 DEF Changed, Promised, Covered, On
  <1>3. GivenUp' \subseteq Promised
    BY <1>1 DEF GivenUp, Promised, On
  <1>4. \A j \in Jobs : status[j] = "failed" => status'[j] = "failed"
    BY DEF MarkFailedWrite, Settle, LockInv, RowLock, Processing, TypeOK,
           TableOK, PhasesOK, Busy
  <1>5. GivenUp \subseteq GivenUp'
    BY <1>1, <1>4 DEF GivenUp, On
  <1> QED
    BY <1>2, <1>3, <1>5 DEF Delivery!GiveUp

(* A step that moves no version, no row's content and no failed row is     *)
(* not seen.                                                               *)
LEMMA Unseen ==
  ASSUME UNCHANGED <<version, synced, key, covers>>,
         \A j \in Jobs : status'[j] = "failed" <=> status[j] = "failed"
  PROVE  UNCHANGED <<Changed, Promised, Covered, GivenUp>>
  BY DEF Changed, Promised, Covered, GivenUp, On

LEMMA StepDelivers ==
  ASSUME QueueInv, QueueInv', (Promised \subseteq Changed)', [Next]_vars
  PROVE  Delivery!DeliveryNext
         \/ UNCHANGED <<Changed, Promised, Covered, GivenUp>>
  <1> USE DEF QueueInv, VersionInv
  <1>1. ASSUME NEW k \in Keys, Edit(k) \/ Sweep(k)
        PROVE  Delivery!Make
               \/ UNCHANGED <<Changed, Promised, Covered, GivenUp>>
    BY <1>1, EditMakes, Unseen, SourceFrame DEF Sweep
  <1>2. ASSUME NEW s \in Senders, EnqueueStep(s) \/ EnqueueError(s)
        PROVE  Delivery!Acknowledge
               \/ UNCHANGED <<Changed, Promised, Covered, GivenUp>>
    BY <1>2, EnqueueAcknowledges, Unseen, SenderFrame
    DEF EnqueueStep, EnqueueFind, EnqueueError, tableVars, contentVars,
        lockVars
  <1>3. ASSUME NEW w \in Workers, WorkerStep(w) \/ FaultStep(w),
               ~Sync(w), ~MarkFailedWrite(w)
        PROVE  UNCHANGED <<Changed, Promised, Covered, GivenUp>>
    <2>1. UNCHANGED <<version, synced, key, covers>>
      BY <1>3, WorkerFrame
      DEF WorkerStep, FaultStep, ReclaimStale, ClaimBegin, ClaimSkip, Claim,
          TickEnd, Hydrate, SyncThrows, MarkDone, MarkFailedRead, Restart,
          MarkDoneThrows, MarkFailedThrows, Crash, Stop, Fault, Settle,
          ghostVars
    <2>2. \A j \in Jobs : status'[j] = "failed" <=> status[j] = "failed"
      <3>1. ASSUME NEW i \in Jobs, Claim(w, i)
            PROVE  \A j \in Jobs : status'[j] = "failed" <=> status[j] = "failed"
        BY <3>1 DEF Claim, Claimable, Pending, TypeOK, TableOK
      <3>2. ASSUME MarkDone(w)
            PROVE  \A j \in Jobs : status'[j] = "failed" <=> status[j] = "failed"
        BY <3>2 DEF MarkDone, Settle, LockInv, RowLock, Processing, TypeOK,
                    TableOK, PhasesOK, Busy
      <3>3. ASSUME ReclaimStale(w)
            PROVE  \A j \in Jobs : status'[j] = "failed" <=> status[j] = "failed"
        BY <3>3 DEF ReclaimStale, Reclaimable, Processing, TypeOK, TableOK
      <3>4. ASSUME UNCHANGED status
            PROVE  \A j \in Jobs : status'[j] = "failed" <=> status[j] = "failed"
        BY <3>4
      <3> QED
        BY <1>3, <3>1, <3>2, <3>3, <3>4
        DEF WorkerStep, FaultStep, ClaimBegin, ClaimSkip, TickEnd, Hydrate,
            SyncThrows, MarkFailedRead, Restart, MarkDoneThrows,
            MarkFailedThrows, Crash, Stop, Forget, Proceed, tableVars, lockVars
    <2> QED
      BY <2>1, <2>2, Unseen
  <1>4. ASSUME NEW w \in Workers, WorkerStep(w) \/ FaultStep(w)
        PROVE  Delivery!Cover \/ Delivery!GiveUp
               \/ UNCHANGED <<Changed, Promised, Covered, GivenUp>>
    BY <1>3, <1>4, SyncCovers, FailureGivesUp
  <1>5. ASSUME NEW j \in Jobs, BecomeDue(j) \/ BecomeStale(j)
        PROVE  UNCHANGED <<Changed, Promised, Covered, GivenUp>>
    BY <1>5, ClockFrame, Unseen
  <1>6. ASSUME UNCHANGED vars
        PROVE  UNCHANGED <<Changed, Promised, Covered, GivenUp>>
    BY <1>6, Unseen
    DEF vars, sourceVars, tableVars, contentVars, lockVars, ghostVars
  <1> QED
    BY <1>1, <1>2, <1>4, <1>5, <1>6 DEF Next, Delivery!DeliveryNext

(* The queue implements ChangeDelivery, as far as safety goes: enqueue     *)
(* acknowledges only what was made, markFailed gives up only what was      *)
(* promised, and nothing promised, covered or given up is taken back.      *)
THEOREM QueueDelivers ==
  ASSUME ~SlowWorkers
  PROVE  Spec => Delivery!DeliverySafety
  <1>1. Init => Delivery!DeliveryInit
    BY ChangeParts, SyncQueueAssumption
    DEF Init, Delivery!DeliveryInit, Changed, Promised, Covered, GivenUp, On,
        LiveChanges
  <1>2. QueueInv => Promised \subseteq Changed
    BY PromisesAreMade DEF QueueInv, VersionInv
  <1>3. QueueInv /\ QueueInv' /\ (Promised \subseteq Changed)' /\ [Next]_vars
          => [Delivery!DeliveryNext]_Delivery!deliveryVars
    BY StepDelivers DEF Delivery!deliveryVars
  <1> QED
    BY <1>1, <1>2, <1>3, QueueInvHolds, PTL DEF Spec, Delivery!DeliverySafety
=============================================================================
