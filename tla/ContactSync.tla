------------------------------ MODULE ContactSync -----------------------------
(***************************************************************************)
(* syncContact (src/sync/syncContact.ts): one contact record is taken from *)
(* its source to the other system, for both directions, with its mapping   *)
(* row, the loop guard and the echo that every write causes.               *)
(*                                                                         *)
(* A step is one statement sent to the database or one call to HubSpot or  *)
(* to the shop.  The job queue is reduced to what module SyncQueue shows   *)
(* of it: a set of jobs, at most one in work per record, each tried again  *)
(* after a failure.  The two systems are modelled by how the code uses     *)
(* them; the shop is the one behind OxapiClient.                           *)
(***************************************************************************)
EXTENDS EntityMappings, FiniteSets

CONSTANTS
  Workers,    \* jobs in work at once
  Kinds,      \* which edits people make
  PushAlways, \* does the shop push on every save, or only on a change?
  CarriesId,  \* does the shop's payload carry `oxid`?
  Gone,       \* a deleted record
  Followed,   \* ghost: the person whose edits are followed, or None
  MaxEdits,   \* bound: edits people make and events sent again
  MaxFaults   \* bound: calls or statements that fail

ASSUME SyncAssumption ==
  /\ Gone # None
  /\ Followed \in Maybe(Mails)
  /\ PushAlways \in BOOLEAN
  /\ CarriesId \in BOOLEAN
  /\ MaxEdits \in Nat
  /\ MaxFaults \in Nat

VARIABLES
  hub,      \* HubSpot: contact id -> contact, None (not yet) or Gone
  shop,     \* OXID: object id -> user, None or Gone
  rows,     \* entity_mappings
  made,     \* rows created so far
  jobs,     \* pending jobs
  failed,   \* jobs given up: the error was not retryable
  phase,    \* where a worker is in syncContact; its local variables:
  job,      \*   the job in work, or NoJob
  contact,  \*   the hydrated record
  row,      \*   id of its mapping row
  snap,     \*   that row as it was when it was read
  other,    \*   a second row that holds one of the keys
  link,     \*   columns linkCounterpart is to write
  todo,     \*   columns it has still to look for in other rows
  dest,     \*   the record written in the other system, or None
  edits,    \* edits made so far
  faults,   \* faults so far
  touched,  \* ghost: systems where the followed person was edited since
            \*   all was quiet, and "echo" when the event of a write was
            \*   distorted
  last      \* ghost: the name of the last edit of that person

storeVars == <<hub, shop>>
tableVars == <<rows, made>>
queueVars == <<jobs, failed>>
matchVars == <<row, snap, other>>
linkVars == <<link, todo>>
localVars == <<job, contact, matchVars, linkVars, dest>>
countVars == <<edits, faults, touched, last>>
vars == <<storeVars, tableVars, queueVars, phase, localVars, countVars>>

HubContact == [mail : Maybe(Mails), name : Maybe(Names), ox : Maybe(ShopIds)]
ShopUser == [mail : Mails, name : Maybe(Names), firm : Maybe(Firms)]

ASSUME RecordAssumption ==
  {None, Gone} \cap (HubContact \cup ShopUser \cup Contact) = {}

(* A HubSpot job names a contact; an OXID job is keyed by email and        *)
(* carries the record, or the fact that it was deleted.                    *)
HubJob == [side : {"hub"}, id : HubIds]
ShopJob == [side : {"shop"}, id : Mails, body : Contact \cup {Gone}]
Job == HubJob \cup ShopJob

NoJob == [side |-> "none"]
NoContact == [mail |-> None, name |-> None, firm |-> None, ox |-> None]
BlankRow == [hub |-> None, mail |-> None, ox |-> None, hash |-> None]

Matching == {"findFirst", "findSecond", "insert", "raced", "merge"}
Linking == {"link", "collide", "absorb", "relink", "linked", "reread"}
Writing == {"lookHub", "searchHub", "createHub", "updateHub", "updateShop",
            "insertShop"}
Phases == {"idle", "hydrate", "guard", "record", "finish"}
            \cup Matching \cup Linking \cup Writing

StoreOK ==
  /\ hub \in [HubIds -> HubContact \cup {None, Gone}]
  /\ shop \in [ShopIds -> ShopUser \cup {None, Gone}]

TableOK ==
  /\ rows \in Tables
  /\ made \in 0 .. MaxRows

QueueOK ==
  /\ jobs \subseteq Job
  /\ failed \subseteq Job

LocalsOK ==
  /\ phase \in [Workers -> Phases]
  /\ job \in [Workers -> Job \cup {NoJob}]
  /\ contact \in [Workers -> Contact]
  /\ row \in [Workers -> RowIds \cup {NoRow}]
  /\ snap \in [Workers -> Row]
  /\ other \in [Workers -> RowIds \cup {NoRow}]
  /\ link \in [Workers -> Link]
  /\ todo \in [Workers -> SUBSET Columns]
  /\ dest \in [Workers -> Maybe(HubIds \cup ShopIds)]

CountOK ==
  /\ edits \in 0 .. MaxEdits
  /\ faults \in 0 .. MaxFaults
  /\ touched \subseteq {"hub", "shop", "echo"}
  /\ last \in Maybe(Names)

(* TypeOK: every variable is of its type; a job that is put back is one    *)
(* that was claimed, and a row is created with a key of its own column.    *)
TypeOK == StoreOK /\ TableOK /\ QueueOK /\ LocalsOK /\ CountOK

Init ==
  /\ hub = [h \in HubIds |-> None]
  /\ shop = [u \in ShopIds |-> None]
  /\ rows = [r \in RowIds |-> None]
  /\ made = 0
  /\ jobs = {}
  /\ failed = {}
  /\ phase = [w \in Workers |-> "idle"]
  /\ job = [w \in Workers |-> NoJob]
  /\ contact = [w \in Workers |-> NoContact]
  /\ row = [w \in Workers |-> NoRow]
  /\ snap = [w \in Workers |-> BlankRow]
  /\ other = [w \in Workers |-> NoRow]
  /\ link = [w \in Workers |-> NoLink]
  /\ todo = [w \in Workers |-> {}]
  /\ dest = [w \in Workers |-> None]
  /\ edits = 0
  /\ faults = 0
  /\ touched = {}
  /\ last = None

InHub(h) == hub[h] \notin {None, Gone}
InShop(u) == shop[u] \notin {None, Gone}

Quiet ==
  /\ jobs = {}
  /\ \A w \in Workers : phase[w] = "idle"

-----------------------------------------------------------------------------
(* The two systems and the events they send.                               *)

HubMail(m) == {h \in HubIds : InHub(h) /\ m # None /\ hub[h].mail = m}
ShopMail(m) == {u \in ShopIds : InShop(u) /\ shop[u].mail = m}

(* What the shop posts for user u: the canonical form of the raw record.   *)
Payload(u, user) == [mail |-> user.mail, name |-> user.name,
                     firm |-> user.firm, ox |-> IF CarriesId THEN u ELSE None]

(* Slip: the pending job keeps the payload it has. *)
QueuedOld(j) ==
  IF \E i \in jobs : i.side = j.side /\ i.id = j.id THEN {jobs}
  ELSE {jobs \cup {j}}

(* enqueue: a new event replaces the payload of a pending job of its key.  *)
Queued(j) ==
  LET same == {i \in jobs : i.side = j.side /\ i.id = j.id}
  IN IF same = {} THEN {jobs \cup {j}}
     ELSE {(jobs \ {i}) \cup {j} : i \in same}

PushShop(u, user) ==
  jobs' \in Queued([side |-> "shop", id |-> user.mail,
                    body |-> Payload(u, user)])

(* HubSpot reports creations and changes of mapped properties, no more.    *)
SaveHub(h, new) ==
  /\ hub' = [hub EXCEPT ![h] = new]
  /\ IF hub[h] # new THEN jobs' \in Queued([side |-> "hub", id |-> h])
                     ELSE jobs' = jobs

SaveShop(u, new) ==
  /\ shop' = [shop EXCEPT ![u] = new]
  /\ IF PushAlways \/ shop[u] # new THEN PushShop(u, new) ELSE jobs' = jobs

-----------------------------------------------------------------------------
(* People.                                                                 *)

(* An edit of the records of these people. *)
Edit(kind, system, people, name) ==
  /\ kind \in Kinds
  /\ edits < MaxEdits
  /\ edits' = edits + 1
  /\ IF Followed # None /\ Followed \in people
     THEN /\ touched' = (IF Quiet THEN {} ELSE touched) \cup {system}
          /\ last' = name
     ELSE UNCHANGED <<touched, last>>
  /\ UNCHANGED <<tableVars, failed, phase, localVars, faults>>

HubCreate(h, m, n) ==
  /\ hub[h] = None
  /\ HubMail(m) = {}
  /\ SaveHub(h, [mail |-> m, name |-> n, ox |-> None])
  /\ Edit(IF m = None THEN "hubNoMail" ELSE "hubCreate", "hub", {m}, n)
  /\ UNCHANGED shop

HubEdit(h, n) ==
  /\ InHub(h)
  /\ n # hub[h].name
  /\ SaveHub(h, [hub[h] EXCEPT !.name = n])
  /\ Edit(IF n = None THEN "hubClear" ELSE "hubEdit", "hub",
          {hub[h].mail}, n)
  /\ UNCHANGED shop

HubNewMail(h, m) ==
  /\ InHub(h)
  /\ HubMail(m) = {}
  /\ SaveHub(h, [hub[h] EXCEPT !.mail = m])
  /\ Edit("hubMail", "hub", {hub[h].mail, m}, hub[h].name)
  /\ UNCHANGED shop

(* Deletions are not among the subscribed events. *)
HubDelete(h) ==
  /\ InHub(h)
  /\ hub' = [hub EXCEPT ![h] = Gone]
  /\ Edit("hubDelete", "hub", {hub[h].mail}, None)
  /\ UNCHANGED <<shop, jobs>>

ShopCreate(u, m, n, f) ==
  /\ shop[u] = None
  /\ ShopMail(m) = {}
  /\ SaveShop(u, [mail |-> m, name |-> n, firm |-> f])
  /\ Edit("shopCreate", "shop", {m}, n)
  /\ UNCHANGED hub

ShopEdit(u, n) ==
  /\ InShop(u)
  /\ n # shop[u].name
  /\ SaveShop(u, [shop[u] EXCEPT !.name = n])
  /\ Edit(IF n = None THEN "shopClear" ELSE "shopEdit", "shop",
          {shop[u].mail}, n)
  /\ UNCHANGED hub

ShopNewMail(u, m) ==
  /\ InShop(u)
  /\ ShopMail(m) = {}
  /\ SaveShop(u, [shop[u] EXCEPT !.mail = m])
  /\ Edit("shopMail", "shop", {shop[u].mail, m}, shop[u].name)
  /\ UNCHANGED hub

ShopDelete(u) ==
  /\ InShop(u)
  /\ shop' = [shop EXCEPT ![u] = Gone]
  /\ jobs' \in Queued([side |-> "shop", id |-> shop[u].mail, body |-> Gone])
  /\ Edit("shopDelete", "shop", {shop[u].mail}, None)
  /\ UNCHANGED hub

(* An event of HubSpot that is delivered twice, and a shop user that is    *)
(* saved without a change: the record is queued once more.                 *)
Again ==
  /\ "again" \in Kinds
  /\ edits < MaxEdits
  /\ edits' = edits + 1
  /\ UNCHANGED <<storeVars, tableVars, failed, phase, localVars, faults,
                 touched, last>>

HubAgain(h) ==
  /\ InHub(h)
  /\ jobs' \in Queued([side |-> "hub", id |-> h])
  /\ Again

ShopAgain(u) ==
  /\ InShop(u)
  /\ PushShop(u, shop[u])
  /\ Again

-----------------------------------------------------------------------------
(* The end of a job.                                                       *)

Forget(w) ==
  /\ phase' = [phase EXCEPT ![w] = "idle"]
  /\ job' = [job EXCEPT ![w] = NoJob]
  /\ contact' = [contact EXCEPT ![w] = NoContact]
  /\ row' = [row EXCEPT ![w] = NoRow]
  /\ snap' = [snap EXCEPT ![w] = BlankRow]
  /\ other' = [other EXCEPT ![w] = NoRow]
  /\ link' = [link EXCEPT ![w] = NoLink]
  /\ todo' = [todo EXCEPT ![w] = {}]
  /\ dest' = [dest EXCEPT ![w] = None]

(* Slip: the job is never marked as done. *)
ReturnUndone(w) ==
  Forget(w) /\ jobs' = jobs \cup {job[w]} /\ UNCHANGED failed

(* syncContact returns: the job is done, whatever its result says.         *)
Return(w) == Forget(w) /\ UNCHANGED queueVars

(* Slip: a job that failed is filed as done. *)
Swallow(w) == Forget(w) /\ UNCHANGED queueVars

(* It throws a retryable error: the job is pending again.                  *)
Throw(w) == Forget(w) /\ jobs' = jobs \cup {job[w]} /\ UNCHANGED failed

(* It throws an error that is not retryable.                               *)
GiveUp(w) == Forget(w) /\ failed' = failed \cup {job[w]} /\ UNCHANGED jobs

(* A call or a statement fails, its connection breaks after it has taken   *)
(* effect, or the process dies and the lock of the job goes stale.  An     *)
(* answer may also be final (a 4xx, an integration that is not active).    *)
Fail(w) ==
  /\ phase[w] # "idle"
  /\ faults < MaxFaults
  /\ faults' = faults + 1
  /\ Throw(w) \/ GiveUp(w)
  /\ UNCHANGED <<storeVars, tableVars, edits, touched, last>>

-----------------------------------------------------------------------------
(* The beginning: claim and hydrate.                                       *)

InWork(j) ==
  \E v \in Workers : job[v] # NoJob /\ job[v].side = j.side /\ job[v].id = j.id

Claim(w, j) ==
  /\ phase[w] = "idle"
  /\ j \in jobs
  /\ ~InWork(j)
  /\ jobs' = jobs \ {j}
  /\ job' = [job EXCEPT ![w] = j]
  /\ phase' = [phase EXCEPT ![w] = "hydrate"]
  /\ UNCHANGED <<storeVars, tableVars, failed, contact, matchVars, linkVars,
                 dest, countVars>>

FromHub(w) == job[w].side = "hub"

(* canonicalFromHubspot: the company is not a property of the contact.     *)
FromHubContact(c) ==
  [mail |-> c.mail, name |-> c.name, firm |-> None, ox |-> c.ox]

Source(w) ==
  IF FromHub(w)
  THEN IF InHub(job[w].id) THEN FromHubContact(hub[job[w].id]) ELSE Gone
  ELSE job[w].body

Syncable(w) == Source(w) # Gone /\ Source(w).mail # None

(* Deleted, not found, or without an email: nothing is synced.             *)
HydrateNothing(w) ==
  /\ phase[w] = "hydrate"
  /\ ~Syncable(w)
  /\ Return(w)
  /\ UNCHANGED <<storeVars, tableVars, countVars>>

Hydrate(w) ==
  /\ phase[w] = "hydrate"
  /\ Syncable(w)
  /\ contact' = [contact EXCEPT ![w] = Source(w)]
  /\ phase' = [phase EXCEPT ![w] = "findFirst"]
  /\ UNCHANGED <<storeVars, tableVars, queueVars, job, matchVars, linkVars,
                 dest, countVars>>

-----------------------------------------------------------------------------
(* findOrCreateMapping.                                                    *)

(* The frame of a step that only moves the worker and its view of rows.    *)
OnlyMatch(w) ==
  UNCHANGED <<storeVars, queueVars, job, contact, dest, countVars>>

Go(w, p) == phase' = [phase EXCEPT ![w] = p]

Take(w, r) ==
  /\ row' = [row EXCEPT ![w] = r]
  /\ snap' = [snap EXCEPT ![w] = rows[r]]

ByHub(w) == Owners(rows, "hub", job[w].id)
ByMail(w) == Owners(rows, "mail", contact[w].mail)

(* By HubSpot id, for a job of HubSpot; by email, for a job of the shop,   *)
(* and then that is all.                                                   *)
FindFirst(w) ==
  /\ phase[w] = "findFirst"
  /\ LET mine == IF FromHub(w) THEN ByHub(w) ELSE ByMail(w)
     IN /\ \/ mine = {} /\ UNCHANGED <<row, snap>>
           \/ \E r \in mine : Take(w, r)
        /\ Go(w, IF FromHub(w) THEN "findSecond"
                 ELSE IF mine = {} THEN "insert" ELSE "guard")
  /\ UNCHANGED <<tableVars, other, linkVars>>
  /\ OnlyMatch(w)

(* By email.  Two different rows are merged into the HubSpot one; a row    *)
(* found by email alone is given the HubSpot id.                           *)
FindSecond(w) ==
  /\ phase[w] = "findSecond"
  /\ \/ /\ ByMail(w) \subseteq {row[w]}
        /\ Go(w, IF row[w] = NoRow THEN "insert" ELSE "guard")
        /\ UNCHANGED <<matchVars, link>>
     \/ \E r \in ByMail(w) \ {row[w]} :
          IF row[w] # NoRow
          THEN /\ other' = [other EXCEPT ![w] = r]
               /\ Go(w, "merge")
               /\ UNCHANGED <<row, snap, link>>
          ELSE /\ Take(w, r)
               /\ link' = [link EXCEPT ![w] = [NoLink EXCEPT !.hub = job[w].id]]
               /\ Go(w, "link")
               /\ UNCHANGED other
  /\ UNCHANGED <<tableVars, todo>>
  /\ OnlyMatch(w)

(* mergeMappings needs both rows to be there still.                        *)
Mergeable(w) == {row[w], other[w]} \subseteq Live(rows)

MergeFound(w) ==
  /\ phase[w] = "merge"
  /\ Mergeable(w)
  /\ rows' = Merge(rows, row[w], other[w])
  /\ snap' = [snap EXCEPT ![w] = rows'[row[w]]]
  /\ other' = [other EXCEPT ![w] = NoRow]
  /\ Go(w, "guard")
  /\ UNCHANGED <<made, row, linkVars>>
  /\ OnlyMatch(w)

(* Slip: the row is keyed by the id of the job, whatever its side. *)
JobKey(w) == [NoLink EXCEPT !.hub = job[w].id]

FirstKey(w) ==
  IF FromHub(w) THEN [NoLink EXCEPT !.hub = job[w].id]
                ELSE [NoLink EXCEPT !.mail = contact[w].mail]

Insert(w) ==
  /\ phase[w] = "insert"
  /\ made < MaxRows
  /\ ~Clashes(rows, NoRow, FirstKey(w))
  /\ made' = made + 1
  /\ rows' = [rows EXCEPT ![made + 1] = NewRow(FirstKey(w))]
  /\ row' = [row EXCEPT ![w] = made + 1]
  /\ snap' = [snap EXCEPT ![w] = NewRow(FirstKey(w))]
  /\ Go(w, "guard")
  /\ UNCHANGED <<other, linkVars>>
  /\ OnlyMatch(w)

(* P2002: someone else was faster; their row is looked up.                 *)
InsertClash(w) ==
  /\ phase[w] = "insert"
  /\ Clashes(rows, NoRow, FirstKey(w))
  /\ Go(w, "raced")
  /\ UNCHANGED <<tableVars, matchVars, linkVars>>
  /\ OnlyMatch(w)

Raced(w) ==
  /\ phase[w] = "raced"
  /\ \E r \in (IF FromHub(w) THEN ByHub(w) ELSE ByMail(w)) : Take(w, r)
  /\ Go(w, "guard")
  /\ UNCHANGED <<tableVars, other, linkVars>>
  /\ OnlyMatch(w)

-----------------------------------------------------------------------------
(* linkCounterpart, called to adopt a row found by email and, after the    *)
(* write (dest is known then), to complete the mapping.                    *)

LinkRow(w) ==
  /\ phase[w] = "link"
  /\ IF row[w] \in Live(rows) /\ Clashes(rows, row[w], link[w])
     THEN /\ todo' = [todo EXCEPT
                ![w] = {col \in Columns : link[w][col] # None}]
          /\ Go(w, "collide")
          /\ UNCHANGED rows
     ELSE /\ rows' = Update(rows, row[w], link[w])
          /\ Go(w, "linked")
          /\ UNCHANGED todo
  /\ UNCHANGED <<made, matchVars, link>>
  /\ OnlyMatch(w)

(* The columns are looked for in this order. *)
NextColumn(S) ==
  IF "mail" \in S THEN "mail" ELSE IF "hub" \in S THEN "hub" ELSE "ox"

Collide(w) ==
  /\ phase[w] = "collide"
  /\ todo[w] # {}
  /\ LET col == NextColumn(todo[w])
         rivals == Owners(rows, col, link[w][col]) \ {row[w]}
     IN /\ todo' = [todo EXCEPT ![w] = @ \ {col}]
        /\ \/ /\ rivals = {}
              /\ UNCHANGED <<phase, other>>
           \/ \E r \in rivals :
                /\ other' = [other EXCEPT ![w] = r]
                /\ Go(w, "absorb")
  /\ UNCHANGED <<tableVars, row, snap, link>>
  /\ OnlyMatch(w)

Absorb(w) ==
  /\ phase[w] = "absorb"
  /\ Mergeable(w)
  /\ rows' = Merge(rows, row[w], other[w])
  /\ other' = [other EXCEPT ![w] = NoRow]
  /\ Go(w, "collide")
  /\ UNCHANGED <<made, row, snap, linkVars>>
  /\ OnlyMatch(w)

(* The second updateMany; it can still break a key.                        *)
Relink(w) ==
  /\ phase[w] = "collide"
  /\ todo[w] = {}
  /\ row[w] \in Live(rows) => ~Clashes(rows, row[w], link[w])
  /\ rows' = Update(rows, row[w], link[w])
  /\ Go(w, "linked")
  /\ UNCHANGED <<made, matchVars, linkVars>>
  /\ OnlyMatch(w)

(* The findById that ends linkCounterpart.  After an adoption the caller   *)
(* reads the row once more; after a write the hash is next.                *)
Linked(w) ==
  /\ phase[w] = "linked"
  /\ row[w] \in Live(rows)
  /\ Go(w, IF dest[w] = None THEN "reread" ELSE "record")
  /\ link' = [link EXCEPT ![w] = NoLink]
  /\ UNCHANGED <<tableVars, matchVars, todo>>
  /\ OnlyMatch(w)

Reread(w) ==
  /\ phase[w] = "reread"
  /\ IF row[w] \in Live(rows) THEN Take(w, row[w]) ELSE UNCHANGED <<row, snap>>
  /\ Go(w, "guard")
  /\ UNCHANGED <<tableVars, other, linkVars>>
  /\ OnlyMatch(w)

(* What these statements throw when the row they need is gone, or the key  *)
(* is taken again.  None of it is an AppError, so all of it is retryable.  *)
MappingThrows(w) ==
  /\ \/ phase[w] \in {"merge", "absorb"} /\ ~Mergeable(w)
     \/ /\ phase[w] = "raced"
        /\ (IF FromHub(w) THEN ByHub(w) ELSE ByMail(w)) = {}
     \/ /\ phase[w] = "collide"
        /\ todo[w] = {}
        /\ row[w] \in Live(rows)
        /\ Clashes(rows, row[w], link[w])
     \/ phase[w] = "linked" /\ row[w] \notin Live(rows)
  /\ Throw(w)
  /\ UNCHANGED <<storeVars, tableVars, countVars>>

-----------------------------------------------------------------------------
(* The loop guard, on the row as it was read.                              *)

(* Slip: a record that was synced once is taken for unchanged. *)
SyncedBefore(w) == snap[w].hash # None

(* Slip: no loop guard. *)
AlwaysChanged(w) == FALSE

Unchanged(w) == snap[w].hash = contact[w]

Skip(w) ==
  /\ phase[w] = "guard"
  /\ Unchanged(w)
  /\ Return(w)
  /\ UNCHANGED <<storeVars, tableVars, countVars>>

Proceed(w) ==
  /\ phase[w] = "guard"
  /\ ~Unchanged(w)
  /\ Go(w, IF FromHub(w) THEN "updateShop"
           ELSE IF snap[w].hub # None THEN "lookHub" ELSE "searchHub")
  /\ UNCHANGED <<tableVars, matchVars, linkVars>>
  /\ OnlyMatch(w)

-----------------------------------------------------------------------------
(* writeToHubspot.                                                         *)

(* A write to the shop is distorted if its event carries other values than *)
(* the ones recordSync keeps the hash of: an id the shop just assigned, a  *)
(* company, or a value it keeps because an empty one is not sent.          *)
Distorts(w) ==
  /\ FromHub(w) /\ phase'[w] = "link"
  /\ PushAlways \/ shop' # shop
  /\ Payload(dest'[w], shop'[dest'[w]]) # contact[w]

OnlyWrite(w) ==
  /\ touched' = IF contact[w].mail = Followed /\ Distorts(w)
                THEN touched \cup {"echo"} ELSE touched
  /\ UNCHANGED <<tableVars, failed, job, contact, matchVars, todo, edits,
                 faults, last>>

(* getContact of the mapped id; a contact that is gone is matched again.   *)
LookHub(w) ==
  /\ phase[w] = "lookHub"
  /\ IF InHub(snap[w].hub)
     THEN /\ dest' = [dest EXCEPT ![w] = snap[w].hub]
          /\ Go(w, "updateHub")
     ELSE Go(w, "searchHub") /\ UNCHANGED dest
  /\ UNCHANGED <<storeVars, jobs, link>>
  /\ OnlyWrite(w)

SearchHub(w) ==
  /\ phase[w] = "searchHub"
  /\ \/ /\ HubMail(contact[w].mail) = {}
        /\ Go(w, "createHub")
        /\ UNCHANGED dest
     \/ \E h \in HubMail(contact[w].mail) :
          /\ dest' = [dest EXCEPT ![w] = h]
          /\ Go(w, "updateHub")
  /\ UNCHANGED <<storeVars, jobs, link>>
  /\ OnlyWrite(w)

(* Every mapped property is written; null clears it.                       *)
ToHub(c) == [mail |-> c.mail, name |-> c.name, ox |-> c.ox]

(* Written: the counterpart is linked with what is now known.              *)
WroteHub(w, h) ==
  /\ dest' = [dest EXCEPT ![w] = h]
  /\ link' = [link EXCEPT ![w] = [NoLink EXCEPT !.hub = h,
                                                !.ox = contact[w].ox]]
  /\ Go(w, "link")

CreateHub(w, h) ==
  /\ phase[w] = "createHub"
  /\ HubMail(contact[w].mail) = {}
  /\ hub[h] = None
  /\ SaveHub(h, ToHub(contact[w]))
  /\ WroteHub(w, h)
  /\ UNCHANGED shop
  /\ OnlyWrite(w)

(* 409: the contact exists by now, and the error names it.                 *)
CreateHubConflict(w) ==
  /\ phase[w] = "createHub"
  /\ \E h \in HubMail(contact[w].mail) : dest' = [dest EXCEPT ![w] = h]
  /\ Go(w, "updateHub")
  /\ UNCHANGED <<storeVars, jobs, link>>
  /\ OnlyWrite(w)

Acceptable(w) ==
  InHub(dest[w]) /\ HubMail(contact[w].mail) \subseteq {dest[w]}

UpdateHub(w) ==
  /\ phase[w] = "updateHub"
  /\ Acceptable(w)
  /\ SaveHub(dest[w], ToHub(contact[w]))
  /\ WroteHub(w, dest[w])
  /\ UNCHANGED shop
  /\ OnlyWrite(w)

(* 404, or 409 since another contact has the email: not retryable.         *)
UpdateHubRefused(w) ==
  /\ phase[w] = "updateHub"
  /\ ~Acceptable(w)
  /\ GiveUp(w)
  /\ UNCHANGED <<storeVars, tableVars, countVars>>

-----------------------------------------------------------------------------
(* writeToOxid: updateUsers by `oxid` when it is known, else by email, and *)
(* insertUsers when there is no such user.                                 *)

RecordId(w) == Else(contact[w].ox, snap[w].ox)

(* Slip: the user is looked for without an email. *)
AnyUser(w) == {u \in ShopIds : InShop(u)}

Users(w) ==
  IF RecordId(w) # None
  THEN {u \in {RecordId(w)} : InShop(u)}
  ELSE ShopMail(contact[w].mail)

(* Empty values are not sent, and an update by id does not send the email. *)
ToShop(c, user) ==
  [user EXCEPT !.name = Else(c.name, @), !.firm = Else(c.firm, @)]

(* Slip: the counterpart is not linked. *)
WroteUnlinked(w, u) ==
  /\ dest' = [dest EXCEPT ![w] = u]
  /\ Go(w, "record")
  /\ UNCHANGED link

WroteShop(w, u) ==
  /\ dest' = [dest EXCEPT ![w] = u]
  /\ link' = [link EXCEPT ![w] = [NoLink EXCEPT !.mail = contact[w].mail,
                                                !.ox = u]]
  /\ Go(w, "link")

UpdateShop(w) ==
  /\ phase[w] = "updateShop"
  /\ \E u \in Users(w) :
       /\ SaveShop(u, ToShop(contact[w], shop[u]))
       /\ WroteShop(w, u)
  /\ UNCHANGED hub
  /\ OnlyWrite(w)

UserNotFound(w) ==
  /\ phase[w] = "updateShop"
  /\ Users(w) = {}
  /\ Go(w, "insertShop")
  /\ UNCHANGED <<storeVars, jobs, dest, link>>
  /\ OnlyWrite(w)

InsertShop(w, u) ==
  /\ phase[w] = "insertShop"
  /\ ShopMail(contact[w].mail) = {}
  /\ shop[u] = None
  /\ SaveShop(u, ToShop(contact[w], [mail |-> contact[w].mail,
                                     name |-> None, firm |-> None]))
  /\ WroteShop(w, u)
  /\ UNCHANGED hub
  /\ OnlyWrite(w)

(* The user exists by now: the shop refuses, status 200, not retryable.    *)
InsertShopRefused(w) ==
  /\ phase[w] = "insertShop"
  /\ ShopMail(contact[w].mail) # {}
  /\ GiveUp(w)
  /\ UNCHANGED <<storeVars, tableVars, countVars>>

-----------------------------------------------------------------------------
(* recordSync, then the entry in the audit log and markDone.               *)

RecordSync(w) ==
  /\ phase[w] = "record"
  /\ rows' = Record(rows, row[w], contact[w])
  /\ Go(w, "finish")
  /\ UNCHANGED <<made, matchVars, linkVars>>
  /\ OnlyMatch(w)

Finish(w) ==
  /\ phase[w] = "finish"
  /\ Return(w)
  /\ UNCHANGED <<storeVars, tableVars, countVars>>

-----------------------------------------------------------------------------
HubUser(h) ==
  \/ \E m \in Maybe(Mails), n \in Maybe(Names) : HubCreate(h, m, n)
  \/ \E n \in Maybe(Names) : HubEdit(h, n)
  \/ \E m \in Maybe(Mails) : HubNewMail(h, m)
  \/ HubDelete(h)
  \/ HubAgain(h)

ShopUserStep(u) ==
  \/ \E m \in Mails, n \in Names, f \in Maybe(Firms) : ShopCreate(u, m, n, f)
  \/ \E n \in Maybe(Names) : ShopEdit(u, n)
  \/ \E m \in Mails : ShopNewMail(u, m)
  \/ ShopDelete(u)
  \/ ShopAgain(u)

Match(w) ==
  \/ FindFirst(w) \/ FindSecond(w) \/ MergeFound(w)
  \/ Insert(w) \/ InsertClash(w) \/ Raced(w) \/ MappingThrows(w)

LinkCounterpart(w) ==
  LinkRow(w) \/ Collide(w) \/ Absorb(w) \/ Relink(w) \/ Linked(w) \/ Reread(w)

WriteToHubspot(w) ==
  \/ LookHub(w) \/ SearchHub(w)
  \/ \E h \in HubIds : CreateHub(w, h)
  \/ CreateHubConflict(w) \/ UpdateHub(w) \/ UpdateHubRefused(w)

WriteToOxid(w) ==
  \/ UpdateShop(w) \/ UserNotFound(w)
  \/ \E u \in ShopIds : InsertShop(w, u)
  \/ InsertShopRefused(w)

SyncContact(w) ==
  \/ \E j \in jobs : Claim(w, j)
  \/ HydrateNothing(w) \/ Hydrate(w)
  \/ Match(w) \/ LinkCounterpart(w)
  \/ Skip(w) \/ Proceed(w)
  \/ WriteToHubspot(w) \/ WriteToOxid(w)
  \/ RecordSync(w) \/ Finish(w)

Next ==
  \/ \E h \in HubIds : HubUser(h)
  \/ \E u \in ShopIds : ShopUserStep(u)
  \/ \E w \in Workers : SyncContact(w) \/ Fail(w)

Spec == Init /\ [][Next]_vars

(* Workers keep working; nothing is fair about people and faults.          *)
FairSpec == Spec /\ \A w \in Workers : WF_vars(SyncContact(w))
=============================================================================
