------------------------------- MODULE Reconcile -------------------------------
(***************************************************************************)
(* The sweep (src/jobs/reconcile.ts) over one active tenant: its window,   *)
(* its watermark, the paged scan of HubSpot and the comparison with the    *)
(* hash of the last sync.                                                  *)
(*                                                                         *)
(* The other tenants of a pass only take time before this one, or end the  *)
(* pass.  The queue is one payload per record (the fold of enqueue), and a *)
(* sync is one step: SyncQueue and ContactSync show the inside of both.    *)
(* Customers have an email; those without one are passed over by both.     *)
(***************************************************************************)
EXTENDS Integers, FiniteSets

CONSTANTS
  Processes,       \* processes that run startReconcileSchedule
  Contacts,        \* HubSpot contacts
  Customers,       \* OXID customers
  Contents,        \* what a record may hold
  Never,           \* lastReconciledAt is null
  None,            \* no job, nothing listed
  Live,            \* the payload of a HubSpot event: the id alone
  Overlap,         \* WINDOW_OVERLAP_MS
  Lookback,        \* FIRST_RUN_LOOKBACK_MS
  PageSize,        \* contacts per page
  MaxPages,        \* pages per scan
  Skew,            \* how far the clocks of the systems may be off
  ShopLists,       \* does the OXID adapter list modified customers?
  FirstPassInTime, \* is a first pass clean before Lookback is over?
  Backlog,         \* may a job wait for longer than a sweep interval?
  MaxTime,         \* bound: clock
  MaxEdits,        \* bound: edits
  MaxFaults        \* bound: calls and statements that fail

ASSUME ReconcileAssumption ==
  /\ Contacts \cap Customers = {}
  /\ Never \notin Int
  /\ None \notin Contents \cup {Live} /\ Live \notin Contents
  /\ Overlap \in Nat /\ Lookback \in Nat /\ Skew \in Nat
  /\ PageSize \in Nat \ {0} /\ MaxPages \in Nat \ {0}
  /\ ShopLists \in BOOLEAN /\ FirstPassInTime \in BOOLEAN /\ Backlog \in BOOLEAN
  /\ MaxTime \in Nat /\ MaxEdits \in Nat /\ MaxFaults \in Nat

VARIABLES
  clock,
  mark,     \* lastReconciledAt
  content,  \* record -> what it holds
  stamp,    \* record -> its modification time, by the clock of its system
  queue,    \* record -> payload of its pending job, or None
  hash,     \* record -> lastSyncedHash of its mapping
  phase,    \* process -> where it is in its pass; its local variables:
  start,    \*   `now` of the pass
  since,    \*   start of the window
  listed,   \*   the records returned so far, with their stamps
  pages,    \*   pages fetched
  got,      \*   record -> fields returned and not yet dealt with, or None
  changed,  \*   the record found to have changed, until it is enqueued
  errors,   \*   has a scan failed?
  edits,    \* edits so far
  faults,   \* faults so far
  cut       \* ghost: a scan ended at MaxPages with records left

recordVars == <<content, stamp>>
queueVars == <<queue, hash>>
passVars == <<start, since>>
scanVars == <<listed, pages, cut>>
handVars == <<got, changed>>
countVars == <<edits, faults>>
vars == <<clock, mark, recordVars, queueVars, phase, passVars, scanVars,
          handVars, errors, countVars>>

Records == Contacts \cup Customers
Times == 0 .. MaxTime
Stamps == -Skew .. MaxTime + Skew
Phases == {"idle", "list", "contacts", "queueContacts", "customers",
           "queueCustomers", "mark"}

NothingGot == [r \in Records |-> None]

(* TypeOK: a window never begins in the future, nor before the look-back of *)
(* a first pass, and what is queued or listed is what a record may hold.   *)
TypeOK ==
  /\ clock \in Times
  /\ mark \in Times \cup {Never}
  /\ content \in [Records -> Contents]
  /\ stamp \in [Records -> Stamps]
  /\ queue \in [Records -> Contents \cup {Live, None}]
  /\ hash \in [Records -> Contents]
  /\ phase \in [Processes -> Phases]
  /\ start \in [Processes -> Times]
  /\ since \in [Processes -> -(Lookback + Overlap) .. MaxTime]
  /\ listed \in [Processes -> SUBSET (Contacts \X Stamps)]
  /\ pages \in [Processes -> 0 .. MaxPages]
  /\ got \in [Processes -> [Records -> Contents \cup {None}]]
  /\ changed \in [Processes -> SUBSET Records]
  /\ errors \in [Processes -> BOOLEAN]
  /\ edits \in 0 .. MaxEdits
  /\ faults \in 0 .. MaxFaults
  /\ cut \in BOOLEAN

(* A tenant whose records have been synced and not been swept yet. *)
Init ==
  /\ clock = 0
  /\ mark = Never
  /\ content \in [Records -> Contents]
  /\ stamp = [r \in Records |-> 0]
  /\ queue = [r \in Records |-> None]
  /\ hash = content
  /\ phase = [p \in Processes |-> "idle"]
  /\ start = [p \in Processes |-> 0]
  /\ since = [p \in Processes |-> 0]
  /\ listed = [p \in Processes |-> {}]
  /\ pages = [p \in Processes |-> 0]
  /\ got = [p \in Processes |-> NothingGot]
  /\ changed = [p \in Processes |-> {}]
  /\ errors = [p \in Processes |-> FALSE]
  /\ edits = 0
  /\ faults = 0
  /\ cut = FALSE

-----------------------------------------------------------------------------
(* Around the sweep.                                                       *)

Tick ==
  /\ clock < MaxTime
  /\ FirstPassInTime /\ mark = Never => clock < Lookback
  /\ clock' = clock + 1
  /\ UNCHANGED <<mark, recordVars, queueVars, phase, passVars, scanVars,
                 handVars, errors, countVars>>

(* A record is edited; its event is accepted (told), or lost because the   *)
(* service was down.  A HubSpot event carries the id, an OXID event the    *)
(* fields.                                                                 *)
Edit(r, v, told, skew) ==
  /\ edits < MaxEdits
  /\ v # content[r]
  /\ edits' = edits + 1
  /\ content' = [content EXCEPT ![r] = v]
  /\ stamp' = [stamp EXCEPT ![r] = clock + skew]
  /\ queue' = IF told
              THEN [queue EXCEPT ![r] = IF r \in Contacts THEN Live ELSE v]
              ELSE queue
  /\ UNCHANGED <<clock, mark, hash, phase, passVars, scanVars, handVars,
                 errors, faults>>

(* A worker syncs the job of a record. *)
Sync(r) ==
  /\ queue[r] # None
  /\ hash' = [hash EXCEPT ![r] = IF queue[r] = Live THEN content[r] ELSE queue[r]]
  /\ queue' = [queue EXCEPT ![r] = None]
  /\ UNCHANGED <<clock, mark, recordVars, phase, passVars, scanVars, handVars,
                 errors, countVars>>

-----------------------------------------------------------------------------
(* A pass.                                                                 *)

Go(p, where) == phase' = [phase EXCEPT ![p] = where]

(* What was listed and is not queued yet is given up. *)
DropHand(p) ==
  /\ got' = [got EXCEPT ![p] = NothingGot]
  /\ changed' = [changed EXCEPT ![p] = {}]

(* The pass is over, and its local variables with it. *)
Leave(p) ==
  /\ Go(p, "idle")
  /\ start' = [start EXCEPT ![p] = 0]
  /\ since' = [since EXCEPT ![p] = 0]
  /\ listed' = [listed EXCEPT ![p] = {}]
  /\ pages' = [pages EXCEPT ![p] = 0]
  /\ DropHand(p)
  /\ errors' = [errors EXCEPT ![p] = FALSE]

(* Slip: the overlap with the wrong sign. *)
OverlapAhead(at, now) == (IF at = Never THEN now - Lookback ELSE at) + Overlap

WindowStart(at, now) == (IF at = Never THEN now - Lookback ELSE at) - Overlap

(* The interval is over and no pass of this process is running. *)
Begin(p) ==
  /\ phase[p] = "idle"
  /\ Backlog \/ \A r \in Records : queue[r] = None
  /\ start' = [start EXCEPT ![p] = clock]
  /\ Go(p, "list")
  /\ UNCHANGED <<clock, mark, recordVars, queueVars, since, scanVars,
                 handVars, errors, countVars>>

(* listActive, and the window of this tenant. *)
ListActive(p) ==
  /\ phase[p] = "list"
  /\ since' = [since EXCEPT ![p] = WindowStart(mark, start[p])]
  /\ Go(p, "contacts")
  /\ UNCHANGED <<clock, mark, recordVars, queueVars, start, scanVars,
                 handVars, errors, countVars>>

(* Contacts of the window behind the cursor of the search.  A contact that *)
(* is modified during the scan moves to the end of the order.              *)
Ahead(p) ==
  {r \in Contacts : stamp[r] >= since[p] /\ <<r, stamp[r]>> \notin listed[p]}

(* The next page: the oldest of them, PageSize at most. *)
IsPage(S, all) ==
  /\ S \subseteq all
  /\ Cardinality(S) <= PageSize
  /\ S # all => Cardinality(S) = PageSize
  /\ \A r \in S, q \in all \ S : stamp[r] <= stamp[q]

(* The fields of S are read. *)
Read(p, S) ==
  got' = [got EXCEPT ![p] = [r \in Records |-> IF r \in S THEN content[r]
                                               ELSE got[p][r]]]

Page(p) ==
  /\ phase[p] = "contacts"
  /\ pages[p] < MaxPages
  /\ \E S \in SUBSET Ahead(p) :
       /\ IsPage(S, Ahead(p))
       /\ Read(p, S)
       /\ listed' = [listed EXCEPT ![p] = @ \cup {<<r, stamp[r]>> : r \in S}]
       /\ pages' = [pages EXCEPT ![p] = @ + 1]
       /\ LET last == S = Ahead(p) \/ pages[p] + 1 = MaxPages
          IN /\ Go(p, IF last THEN "queueContacts" ELSE "contacts")
             /\ cut' = (cut \/ (last /\ S # Ahead(p)))
  /\ UNCHANGED <<clock, mark, recordVars, queueVars, passVars, changed,
                 errors, countVars>>

(* enqueueIfChanged looks up the mapping of the next record, taken in any  *)
(* order, and compares the hash; it enqueues after an await of its own.    *)
Consider(p, r) ==
  /\ phase[p] \in {"queueContacts", "queueCustomers"}
  /\ changed[p] = {} /\ got[p][r] # None
  /\ IF hash[r] = got[p][r]
     THEN got' = [got EXCEPT ![p][r] = None] /\ UNCHANGED changed
     ELSE changed' = [changed EXCEPT ![p] = {r}] /\ UNCHANGED got
  /\ UNCHANGED <<clock, mark, recordVars, queueVars, phase, passVars,
                 scanVars, errors, countVars>>

Enqueue(p, r) ==
  /\ r \in changed[p]
  /\ queue' = [queue EXCEPT ![r] = got[p][r]]
  /\ got' = [got EXCEPT ![p][r] = None]
  /\ changed' = [changed EXCEPT ![p] = {}]
  /\ UNCHANGED <<clock, mark, recordVars, hash, phase, passVars, scanVars,
                 errors, countVars>>

ContactsDone(p) ==
  /\ phase[p] = "queueContacts"
  /\ got[p] = NothingGot
  /\ Go(p, "customers")
  /\ UNCHANGED <<clock, mark, recordVars, queueVars, passVars, scanVars,
                 handVars, errors, countVars>>

(* listModifiedSince of the shop: one call; OxapiClient returns nothing.   *)
ListCustomers(p) ==
  /\ phase[p] = "customers"
  /\ Read(p, {r \in Customers : ShopLists /\ stamp[r] >= since[p]})
  /\ Go(p, "queueCustomers")
  /\ UNCHANGED <<clock, mark, recordVars, queueVars, passVars, scanVars,
                 changed, errors, countVars>>

CustomersDone(p) ==
  /\ phase[p] = "queueCustomers"
  /\ got[p] = NothingGot
  /\ Go(p, "mark")
  /\ UNCHANGED <<clock, mark, recordVars, queueVars, passVars, scanVars,
                 handVars, errors, countVars>>

Fault ==
  /\ faults < MaxFaults
  /\ faults' = faults + 1
  /\ UNCHANGED edits

(* A scan, or one of its enqueues, throws: the rest of this side is left. *)
ScanFails(p) ==
  /\ \/ phase[p] \in {"contacts", "queueContacts"} /\ Go(p, "customers")
     \/ phase[p] \in {"customers", "queueCustomers"} /\ Go(p, "mark")
  /\ Fault
  /\ errors' = [errors EXCEPT ![p] = TRUE]
  /\ DropHand(p)
  /\ UNCHANGED <<clock, mark, recordVars, queueVars, passVars, scanVars>>

(* Slip: the watermark moves although a side has failed. *)
AlwaysClean(p) == TRUE

Clean(p) == ~errors[p]

(* Slip: the watermark is the time at which the pass ends. *)
EndOfPass(p) == clock

MarkAt(p) == start[p]

SetMark(p) ==
  /\ phase[p] = "mark"
  /\ mark' = IF Clean(p) THEN MarkAt(p) ELSE mark
  /\ Leave(p)
  /\ UNCHANGED <<clock, recordVars, queueVars, cut, countVars>>

(* The pass ends here: listActive or setLastReconciledAt throws, for this  *)
(* tenant or another, or the process dies.                                 *)
PassFails(p) ==
  /\ phase[p] # "idle"
  /\ Fault
  /\ Leave(p)
  /\ UNCHANGED <<clock, mark, recordVars, queueVars, cut>>

-----------------------------------------------------------------------------
ReconcileStep(p) ==
  \/ Begin(p) \/ ListActive(p)
  \/ Page(p) \/ ContactsDone(p)
  \/ ListCustomers(p) \/ CustomersDone(p)
  \/ \E r \in Records : Consider(p, r) \/ Enqueue(p, r)
  \/ SetMark(p)

Next ==
  \/ Tick
  \/ \E r \in Records : Sync(r)
  \/ \E r \in Records, v \in Contents, told \in BOOLEAN, skew \in -Skew .. Skew :
       Edit(r, v, told, skew)
  \/ \E p \in Processes : ReconcileStep(p) \/ ScanFails(p) \/ PassFails(p)

Spec == Init /\ [][Next]_vars

(* The interval comes round and every call returns or throws; workers take *)
(* what is queued.                                                         *)
Fairness ==
  /\ \A p \in Processes : WF_vars(ReconcileStep(p))
  /\ \A r \in Records : WF_vars(Sync(r))

FairSpec == Spec /\ Fairness
=============================================================================
