-------------------------- MODULE ContactSyncProofs --------------------------
(***************************************************************************)
(* Theorems about ContactSync, for every set of records and workers and    *)
(* every value of the bounds.                                              *)
(***************************************************************************)
EXTENDS ContactSyncProperties, TLAPS

-----------------------------------------------------------------------------
(* The inductive invariant behind SyncedRowsAreLinked.                     *)

(* Row ids are handed out in order and never again. *)
RowsAreMade == \A r \in Live(rows) : r <= made

(* Where the row in hand has the key of the job's own side. *)
Owned == {"findSecond", "merge", "reread", "guard", "record"} \cup Writing
AtLink == {"link", "collide", "absorb", "linked"}
ShopWriting == {"updateShop", "insertShop"}
HubWriting == Writing \ ShopWriting

HasOwnKey(r, w) ==
  IF FromHub(w) THEN rows[r].hub # None ELSE rows[r].mail # None

KnowsOwnKey(w) ==
  phase[w] \in Owned \cup {"linked"} \/ (phase[w] \in AtLink /\ dest[w] # None)

KnowsBothKeys(w) ==
  phase[w] = "record" \/ (phase[w] = "linked" /\ dest[w] # None)

(* A row in hand may be merged away; while it is there, it has the keys    *)
(* that the worker has seen or written.                                    *)
RowKeys(w) ==
  row[w] \in Live(rows) =>
    /\ KnowsOwnKey(w) => HasOwnKey(row[w], w)
    /\ KnowsBothKeys(w) => rows[row[w]].hub # None /\ rows[row[w]].mail # None

(* What linkCounterpart is to write completes the row. *)
LinkCompletes(w) ==
  phase[w] \in AtLink =>
    IF dest[w] = None THEN FromHub(w) /\ link[w].hub # None
    ELSE IF FromHub(w) THEN link[w].mail # None ELSE link[w].hub # None

Sides(w) ==
  /\ phase[w] \in {"findSecond", "merge", "reread"} \cup ShopWriting =>
       FromHub(w)
  /\ phase[w] \in HubWriting => ~FromHub(w)

Locals(w) ==
  /\ phase[w] # "idle" => job[w] \in Job
  /\ phase[w] \in {"idle", "hydrate", "findFirst"} => row[w] = NoRow
  /\ phase[w] \in {"idle", "hydrate", "findFirst", "findSecond"} =>
       dest[w] = None
  /\ phase[w] \notin {"idle", "hydrate"} => contact[w].mail # None
  /\ phase[w] \in {"merge", "absorb"} => row[w] # other[w]
  /\ phase[w] = "lookHub" => snap[w].hub # None
  /\ phase[w] = "updateHub" => dest[w] \in HubIds
  /\ row[w] <= made

WorkerInv(w) ==
  Locals(w) /\ Sides(w) /\ LinkCompletes(w) /\ RowKeys(w)

SyncInv ==
  /\ TypeOK
  /\ RowsAreMade
  /\ SyncedRowsAreLinked
  /\ \A w \in Workers : WorkerInv(w)

-----------------------------------------------------------------------------
(* The statements on the table.                                            *)

(* u has the rows of t that are still there, with no key lost. *)
KeepsKeys(t, u) ==
  \A r \in Live(u) : r \in Live(t) =>
    /\ t[r].hub # None => u[r].hub # None
    /\ t[r].mail # None => u[r].mail # None

LinkedTable(t) ==
  \A r \in Live(t) : t[r].hash # None => t[r].hub # None /\ t[r].mail # None

(* A row of a table, field by field. *)
LEMMA RowFields ==
  ASSUME NEW t \in Tables, NEW r \in Live(t)
  PROVE  /\ r \in RowIds
         /\ t[r] \in Row
         /\ t[r].hub \in Maybe(HubIds) /\ t[r].mail \in Maybe(Mails)
         /\ t[r].ox \in Maybe(ShopIds) /\ t[r].hash \in Maybe(Contact)
  <1>1. r \in RowIds /\ t[r] # None
    BY DEF Live
  <1>2. t[r] \in Row
    BY <1>1 DEF Tables
  <1> QED
    BY <1>1, <1>2 DEF Row

(* a ?? b is of the type of both, and not null if either is not. *)
LEMMA ElseFacts ==
  ASSUME NEW S, NEW a \in Maybe(S), NEW b \in Maybe(S)
  PROVE  /\ Else(a, b) \in Maybe(S)
         /\ a # None \/ b # None => Else(a, b) # None
         /\ a # None => Else(a, b) = a
         /\ a = None => Else(a, b) = b
  BY DEF Else, Maybe

(* updateMany of linkCounterpart. *)
LEMMA UpdateFacts ==
  ASSUME NEW t \in Tables, NEW r \in RowIds \cup {NoRow}, NEW values \in Link,
         LinkedTable(t)
  PROVE  LET u == Update(t, r, values)
         IN /\ u \in Tables /\ Live(u) = Live(t)
            /\ KeepsKeys(t, u) /\ LinkedTable(u)
            /\ r \in Live(t) =>
                 /\ values.hub # None => u[r].hub # None
                 /\ values.mail # None => u[r].mail # None
  <1> DEFINE u == Update(t, r, values)
  <1>1. CASE r \notin Live(t)
    <2>1. u = t
      BY <1>1 DEF Update
    <2> QED
      BY <1>1, <2>1 DEF KeepsKeys
  <1>2. CASE r \in Live(t)
    <2> DEFINE new == [hub |-> Else(values.hub, t[r].hub),
                       mail |-> Else(values.mail, t[r].mail),
                       ox |-> Else(values.ox, t[r].ox),
                       hash |-> t[r].hash]
    <2>1. /\ r \in RowIds
          /\ t[r].hub \in Maybe(HubIds) /\ t[r].mail \in Maybe(Mails)
          /\ t[r].ox \in Maybe(ShopIds) /\ t[r].hash \in Maybe(Contact)
      BY <1>2, RowFields
    <2>2. /\ values.hub \in Maybe(HubIds) /\ values.mail \in Maybe(Mails)
          /\ values.ox \in Maybe(ShopIds)
      BY DEF Link
    <2>3. new \in Row
      BY <2>1, <2>2, ElseFacts DEF Row
    <2>4. /\ values.hub # None \/ t[r].hub # None => new.hub # None
          /\ values.mail # None \/ t[r].mail # None => new.mail # None
          /\ new.hash = t[r].hash
      BY <2>1, <2>2, ElseFacts
    <2>5. u = [t EXCEPT ![r] = new]
      BY <1>2 DEF Update
    <2>6. new # None
      BY <2>3, NoneIsNoRow
    <2> HIDE DEF new, u
    <2>7. u \in Tables /\ u[r] = new /\ \A s \in RowIds \ {r} : u[s] = t[s]
      BY <2>1, <2>3, <2>5 DEF Tables
    <2>8. Live(u) = Live(t)
      BY <1>2, <2>6, <2>7 DEF Live
    <2>9. KeepsKeys(t, u)
      BY <2>4, <2>7 DEF KeepsKeys, Live
    <2>10. LinkedTable(u)
      BY <1>2, <2>4, <2>7, <2>8 DEF LinkedTable, Live
    <2>11. QED
      BY <2>4, <2>7, <2>8, <2>9, <2>10 DEF u
  <1> QED
    BY <1>1, <1>2

(* mergeMappings. *)
LEMMA MergeFacts ==
  ASSUME NEW t \in Tables, NEW keep \in Live(t), NEW absorb \in Live(t),
         keep # absorb, LinkedTable(t)
  PROVE  LET u == Merge(t, keep, absorb)
         IN /\ u \in Tables /\ Live(u) = Live(t) \ {absorb}
            /\ KeepsKeys(t, u) /\ LinkedTable(u)
            /\ u[keep] \in Row
  <1> DEFINE u == Merge(t, keep, absorb)
             a == t[keep]
             b == t[absorb]
             new == [hub |-> Else(a.hub, b.hub), mail |-> Else(a.mail, b.mail),
                     ox |-> Else(a.ox, b.ox), hash |-> Else(a.hash, b.hash)]
  <1>1. /\ keep \in RowIds
        /\ a.hub \in Maybe(HubIds) /\ a.mail \in Maybe(Mails)
        /\ a.ox \in Maybe(ShopIds) /\ a.hash \in Maybe(Contact)
    BY RowFields
  <1>2. /\ absorb \in RowIds
        /\ b.hub \in Maybe(HubIds) /\ b.mail \in Maybe(Mails)
        /\ b.ox \in Maybe(ShopIds) /\ b.hash \in Maybe(Contact)
    BY RowFields
  <1>3. new \in Row
    BY <1>1, <1>2, ElseFacts DEF Row
  <1>4. /\ a.hub # None \/ b.hub # None => new.hub # None
        /\ a.mail # None \/ b.mail # None => new.mail # None
        /\ new.hash # None => a.hash # None \/ b.hash # None
    BY <1>1, <1>2, ElseFacts
  <1>5. new.hash # None => new.hub # None /\ new.mail # None
    BY <1>4 DEF LinkedTable
  <1>6. u = [t EXCEPT ![keep] = new, ![absorb] = None]
    BY DEF Merge
  <1>7. new # None
    BY <1>3, NoneIsNoRow
  <1> HIDE DEF new, u, a, b
  <1>8. /\ u \in Tables /\ u[keep] = new /\ u[absorb] = None
        /\ \A s \in RowIds \ {keep, absorb} : u[s] = t[s]
    BY <1>1, <1>2, <1>3, <1>6 DEF Tables
  <1>9. Live(u) = Live(t) \ {absorb}
    BY <1>1, <1>2, <1>7, <1>8 DEF Live
  <1>10. KeepsKeys(t, u)
    BY <1>4, <1>8, <1>9 DEF KeepsKeys, Live, a
  <1>11. LinkedTable(u)
    BY <1>5, <1>8, <1>9 DEF LinkedTable, Live
  <1> QED
    BY <1>3, <1>8, <1>9, <1>10, <1>11 DEF u

(* create: the row of a new id. *)
LEMMA InsertFacts ==
  ASSUME NEW t \in Tables, NEW r \in RowIds, r \notin Live(t),
         NEW values \in Link, LinkedTable(t)
  PROVE  LET u == [t EXCEPT ![r] = NewRow(values)]
         IN /\ u \in Tables /\ Live(u) = Live(t) \cup {r}
            /\ KeepsKeys(t, u) /\ LinkedTable(u)
            /\ u[r] = NewRow(values) /\ NewRow(values) \in Row
  <1> DEFINE u == [t EXCEPT ![r] = NewRow(values)]
  <1>1. NewRow(values) \in Row
    BY DEF NewRow, Link, Row, Maybe
  <1>2. NewRow(values) # None
    BY <1>1, NoneIsNoRow
  <1>3. NewRow(values).hash = None
    BY DEF NewRow
  <1>4. /\ u \in Tables /\ u[r] = NewRow(values)
        /\ \A s \in RowIds \ {r} : u[s] = t[s]
    BY <1>1 DEF Tables
  <1> HIDE DEF u
  <1>5. Live(u) = Live(t) \cup {r}
    BY <1>2, <1>4 DEF Live
  <1>6. KeepsKeys(t, u) /\ LinkedTable(u)
    BY <1>3, <1>4, <1>5 DEF KeepsKeys, LinkedTable, Live
  <1> QED
    BY <1>1, <1>4, <1>5, <1>6 DEF u

(* recordSync on a row with both keys. *)
LEMMA RecordFacts ==
  ASSUME NEW t \in Tables, NEW r \in RowIds \cup {NoRow}, NEW c \in Contact,
         LinkedTable(t),
         r \in Live(t) => t[r].hub # None /\ t[r].mail # None
  PROVE  LET u == Record(t, r, c)
         IN /\ u \in Tables /\ Live(u) = Live(t)
            /\ KeepsKeys(t, u) /\ LinkedTable(u)
  <1> DEFINE u == Record(t, r, c)
  <1>1. CASE r \notin Live(t)
    BY <1>1 DEF Record, KeepsKeys
  <1>2. CASE r \in Live(t)
    <2> DEFINE new == [t[r] EXCEPT !.hash = c]
    <2>1. r \in RowIds /\ t[r] \in Row
      BY <1>2, RowFields
    <2>2. new \in Row /\ new.hub = t[r].hub /\ new.mail = t[r].mail
      BY <2>1 DEF Row, Maybe
    <2>3. u = [t EXCEPT ![r] = new]
      BY <1>2 DEF Record
    <2>4. new # None
      BY <2>2, NoneIsNoRow
    <2> HIDE DEF new, u
    <2>5. u \in Tables /\ u[r] = new /\ \A s \in RowIds \ {r} : u[s] = t[s]
      BY <2>1, <2>2, <2>3 DEF Tables
    <2>6. Live(u) = Live(t)
      BY <1>2, <2>4, <2>5 DEF Live
    <2>7. KeepsKeys(t, u) /\ LinkedTable(u)
      BY <1>2, <2>2, <2>5, <2>6 DEF KeepsKeys, LinkedTable, Live
    <2> QED
      BY <2>5, <2>6, <2>7 DEF u
  <1> QED
    BY <1>1, <1>2

-----------------------------------------------------------------------------
(* The two systems and the queue.                                          *)

LEMMA ConstantFacts ==
  /\ None \notin HubIds \cup ShopIds \cup Mails \cup Names \cup Firms
  /\ MaxRows \in Nat /\ MaxEdits \in Nat /\ MaxFaults \in Nat
  /\ None \notin Row /\ None \notin Contact /\ Gone # None
  /\ NoJob \notin Job /\ NoRow \notin RowIds
  BY MappingsAssumption, SyncAssumption, NoneIsNoRow
  DEF NoJob, Job, HubJob, ShopJob, NoRow, RowIds

LEMMA QueuedFacts ==
  ASSUME QueueOK, NEW j \in Job, jobs' \in Queued(j)
  PROVE  jobs' \subseteq Job
  BY DEF QueueOK, Queued

LEMMA HubRecord ==
  ASSUME StoreOK, NEW h \in HubIds, InHub(h)
  PROVE  /\ hub[h] \in HubContact
         /\ hub[h].mail \in Maybe(Mails) /\ hub[h].name \in Maybe(Names)
         /\ hub[h].ox \in Maybe(ShopIds)
  <1>1. hub[h] \in HubContact
    BY DEF StoreOK, InHub
  <1> QED
    BY <1>1 DEF HubContact

LEMMA ShopRecord ==
  ASSUME StoreOK, NEW u \in ShopIds, InShop(u)
  PROVE  /\ shop[u] \in ShopUser
         /\ shop[u].mail \in Mails /\ shop[u].name \in Maybe(Names)
         /\ shop[u].firm \in Maybe(Firms)
  <1>1. shop[u] \in ShopUser
    BY DEF StoreOK, InShop
  <1> QED
    BY <1>1 DEF ShopUser

LEMMA PayloadFacts ==
  ASSUME NEW u \in ShopIds, NEW user \in ShopUser
  PROVE  /\ Payload(u, user) \in Contact
         /\ [side |-> "shop", id |-> user.mail, body |-> Payload(u, user)]
              \in ShopJob
  <1>1. /\ user.mail \in Mails /\ user.name \in Maybe(Names)
        /\ user.firm \in Maybe(Firms)
    BY DEF ShopUser
  <1>2. Payload(u, user) \in Contact
    BY <1>1 DEF Payload, Contact, Maybe
  <1> QED
    BY <1>1, <1>2 DEF ShopJob

LEMMA PushShopFacts ==
  ASSUME QueueOK, NEW u \in ShopIds, NEW user \in ShopUser, PushShop(u, user)
  PROVE  jobs' \subseteq Job
  BY PayloadFacts, QueuedFacts DEF PushShop, Job

LEMMA SaveHubFacts ==
  ASSUME StoreOK, QueueOK, NEW h \in HubIds, NEW new \in HubContact,
         SaveHub(h, new)
  PROVE  /\ hub' \in [HubIds -> HubContact \cup {None, Gone}]
         /\ jobs' \subseteq Job
  <1>1. hub' \in [HubIds -> HubContact \cup {None, Gone}]
    BY DEF SaveHub, StoreOK
  <1>2. [side |-> "hub", id |-> h] \in Job
    BY DEF Job, HubJob
  <1>3. jobs' \in Queued([side |-> "hub", id |-> h]) \/ jobs' = jobs
    BY DEF SaveHub
  <1> QED
    BY <1>1, <1>2, <1>3, QueuedFacts DEF QueueOK

LEMMA SaveShopFacts ==
  ASSUME StoreOK, QueueOK, NEW u \in ShopIds, NEW new \in ShopUser,
         SaveShop(u, new)
  PROVE  /\ shop' \in [ShopIds -> ShopUser \cup {None, Gone}]
         /\ jobs' \subseteq Job
  <1>1. shop' \in [ShopIds -> ShopUser \cup {None, Gone}]
    BY DEF SaveShop, StoreOK
  <1>2. PushShop(u, new) \/ jobs' = jobs
    BY DEF SaveShop
  <1> QED
    BY <1>1, <1>2, PushShopFacts DEF QueueOK

(* What people do changes neither the table nor a worker. *)
LEMMA EditFacts ==
  ASSUME CountOK, NEW kind, NEW system \in {"hub", "shop"},
         NEW people, NEW name \in Maybe(Names),
         Edit(kind, system, people, name)
  PROVE  /\ CountOK'
         /\ failed' = failed
         /\ UNCHANGED <<tableVars, phase, localVars>>
  <1>1. edits' \in 0 .. MaxEdits
    BY ConstantFacts DEF Edit, CountOK
  <1>2. touched' \subseteq {"hub", "shop", "echo"}
    BY DEF Edit, CountOK
  <1> QED
    BY <1>1, <1>2 DEF Edit, CountOK

LEMMA HubUserStep ==
  ASSUME TypeOK, NEW h \in HubIds, HubUser(h)
  PROVE  TypeOK' /\ UNCHANGED <<tableVars, phase, localVars>>
  <1> USE DEF TypeOK
  <1> DEFINE Goal == /\ StoreOK' /\ QueueOK' /\ CountOK'
                     /\ UNCHANGED <<tableVars, phase, localVars>>
  <1>1. ASSUME NEW m \in Maybe(Mails), NEW n \in Maybe(Names), HubCreate(h, m, n)
        PROVE  Goal
    <2>1. [mail |-> m, name |-> n, ox |-> None] \in HubContact
      BY DEF HubContact, Maybe
    <2> QED
      BY <1>1, <2>1, SaveHubFacts, EditFacts DEF HubCreate, StoreOK, QueueOK
  <1>2. ASSUME NEW n \in Maybe(Names), HubEdit(h, n)
        PROVE  Goal
    <2>1. [hub[h] EXCEPT !.name = n] \in HubContact
      BY <1>2, HubRecord DEF HubEdit, HubContact
    <2> QED
      BY <1>2, <2>1, SaveHubFacts, EditFacts DEF HubEdit, StoreOK, QueueOK
  <1>3. ASSUME NEW m \in Maybe(Mails), HubNewMail(h, m)
        PROVE  Goal
    <2>1. [hub[h] EXCEPT !.mail = m] \in HubContact
      BY <1>3, HubRecord DEF HubNewMail, HubContact
    <2> QED
      BY <1>3, <2>1, HubRecord, SaveHubFacts, EditFacts
      DEF HubNewMail, StoreOK, QueueOK
  <1>4. ASSUME HubDelete(h)
        PROVE  Goal
    <2>1. None \in Maybe(Names)
      BY DEF Maybe
    <2> QED
      BY <1>4, <2>1, EditFacts DEF HubDelete, StoreOK, QueueOK
  <1>5. ASSUME HubAgain(h)
        PROVE  Goal
    <2>1. [side |-> "hub", id |-> h] \in Job
      BY DEF Job, HubJob
    <2>2. jobs' \subseteq Job
      BY <1>5, <2>1, QueuedFacts DEF HubAgain
    <2> QED
      BY <1>5, <2>2, ConstantFacts
      DEF HubAgain, Again, storeVars, StoreOK, QueueOK, CountOK
  <1>6. Goal
    BY <1>1, <1>2, <1>3, <1>4, <1>5 DEF HubUser
  <1> QED
    BY <1>6
    DEF TableOK, LocalsOK, tableVars, localVars, matchVars, linkVars

LEMMA ShopUserStepFacts ==
  ASSUME TypeOK, NEW u \in ShopIds, ShopUserStep(u)
  PROVE  TypeOK' /\ UNCHANGED <<tableVars, phase, localVars>>
  <1> USE DEF TypeOK
  <1> DEFINE Goal == /\ StoreOK' /\ QueueOK' /\ CountOK'
                     /\ UNCHANGED <<tableVars, phase, localVars>>
  <1>1. ASSUME NEW m \in Mails, NEW n \in Names, NEW f \in Maybe(Firms),
               ShopCreate(u, m, n, f)
        PROVE  Goal
    <2>1. [mail |-> m, name |-> n, firm |-> f] \in ShopUser /\ n \in Maybe(Names)
      BY DEF ShopUser, Maybe
    <2> QED
      BY <1>1, <2>1, SaveShopFacts, EditFacts DEF ShopCreate, StoreOK, QueueOK
  <1>2. ASSUME NEW n \in Maybe(Names), ShopEdit(u, n)
        PROVE  Goal
    <2>1. [shop[u] EXCEPT !.name = n] \in ShopUser
      BY <1>2, ShopRecord DEF ShopEdit, ShopUser
    <2> QED
      BY <1>2, <2>1, SaveShopFacts, EditFacts DEF ShopEdit, StoreOK, QueueOK
  <1>3. ASSUME NEW m \in Mails, ShopNewMail(u, m)
        PROVE  Goal
    <2>1. [shop[u] EXCEPT !.mail = m] \in ShopUser
      BY <1>3, ShopRecord DEF ShopNewMail, ShopUser
    <2> QED
      BY <1>3, <2>1, ShopRecord, SaveShopFacts, EditFacts
      DEF ShopNewMail, StoreOK, QueueOK
  <1>4. ASSUME ShopDelete(u)
        PROVE  Goal
    <2>1. None \in Maybe(Names)
      BY DEF Maybe
    <2>2. [side |-> "shop", id |-> shop[u].mail, body |-> Gone] \in Job
      BY <1>4, ShopRecord DEF ShopDelete, Job, ShopJob
    <2>3. jobs' \subseteq Job
      BY <1>4, <2>2, QueuedFacts DEF ShopDelete
    <2> QED
      BY <1>4, <2>1, <2>3, EditFacts DEF ShopDelete, StoreOK, QueueOK
  <1>5. ASSUME ShopAgain(u)
        PROVE  Goal
    <2>1. jobs' \subseteq Job
      BY <1>5, ShopRecord, PushShopFacts DEF ShopAgain
    <2> QED
      BY <1>5, <2>1, ConstantFacts
      DEF ShopAgain, Again, storeVars, StoreOK, QueueOK, CountOK
  <1>6. Goal
    BY <1>1, <1>2, <1>3, <1>4, <1>5 DEF ShopUserStep
  <1> QED
    BY <1>6
    DEF TableOK, LocalsOK, tableVars, localVars, matchVars, linkVars

-----------------------------------------------------------------------------
(* What one worker's step leaves to the others.                            *)

SameAt(v) ==
  /\ phase'[v] = phase[v] /\ job'[v] = job[v] /\ contact'[v] = contact[v]
  /\ row'[v] = row[v] /\ snap'[v] = snap[v] /\ other'[v] = other[v]
  /\ link'[v] = link[v] /\ todo'[v] = todo[v] /\ dest'[v] = dest[v]

OthersSame(w) == \A v \in Workers \ {w} : SameAt(v)

(* Rows are added, completed or merged away. *)
RowsGrow ==
  /\ made <= made'
  /\ KeepsKeys(rows, rows')
  /\ \A r \in Live(rows') : r \in Live(rows) \/ r > made

TableStep ==
  /\ TableOK' /\ RowsAreMade' /\ SyncedRowsAreLinked'
  /\ RowsGrow

WorkerStep(w) ==
  /\ StoreOK' /\ QueueOK' /\ LocalsOK' /\ CountOK'
  /\ OthersSame(w) /\ TableStep /\ WorkerInv(w)'

LEMMA WorkerStays ==
  ASSUME TableOK, LocalsOK, NEW v \in Workers, WorkerInv(v), SameAt(v),
         TableOK', RowsGrow
  PROVE  WorkerInv(v)'
  <1>1. Locals(v)' /\ Sides(v)' /\ LinkCompletes(v)'
    <2>1. row[v] \in Nat /\ made \in Nat /\ made' \in Nat
      BY ConstantFacts DEF LocalsOK, TableOK, RowIds, NoRow
    <2>2. FromHub(v)' = FromHub(v)
      BY DEF SameAt, FromHub
    <2>3. row[v] <= made'
      BY <2>1 DEF WorkerInv, Locals, RowsGrow
    <2>4. Locals(v)'
      BY <2>3 DEF WorkerInv, Locals, SameAt
    <2>5. Sides(v)'
      BY <2>2 DEF WorkerInv, Sides, SameAt
    <2>6. LinkCompletes(v)'
      BY <2>2 DEF WorkerInv, LinkCompletes, SameAt
    <2> QED
      BY <2>4, <2>5, <2>6
  <1>2. RowKeys(v)'
    <2>1. SUFFICES ASSUME row[v] \in Live(rows')
                   PROVE  /\ KnowsOwnKey(v) => HasOwnKey(row[v], v)'
                          /\ KnowsBothKeys(v) => /\ rows'[row[v]].hub # None
                                                 /\ rows'[row[v]].mail # None
      BY DEF RowKeys, KnowsOwnKey, KnowsBothKeys, SameAt, HasOwnKey, FromHub
    <2>2. row[v] \in Live(rows)
      <3>1. row[v] <= made /\ row[v] \in Nat /\ made \in Nat
        BY ConstantFacts
        DEF WorkerInv, Locals, LocalsOK, TableOK, RowIds, NoRow
      <3> QED
        BY <2>1, <3>1 DEF RowsGrow
    <2>3. /\ rows[row[v]].hub # None => rows'[row[v]].hub # None
          /\ rows[row[v]].mail # None => rows'[row[v]].mail # None
      BY <2>1, <2>2 DEF RowsGrow, KeepsKeys
    <2>4. /\ KnowsOwnKey(v) => HasOwnKey(row[v], v)
          /\ KnowsBothKeys(v) => /\ rows[row[v]].hub # None
                                 /\ rows[row[v]].mail # None
      BY <2>2 DEF WorkerInv, RowKeys
    <2> QED
      BY <2>3, <2>4 DEF HasOwnKey, FromHub, SameAt
  <1> QED
    BY <1>1, <1>2 DEF WorkerInv

(* A step of one worker preserves the invariant if it does for that worker. *)
LEMMA WorkerStepInv ==
  ASSUME SyncInv, NEW w \in Workers, WorkerStep(w)
  PROVE  SyncInv'
  <1>1. ASSUME NEW v \in Workers PROVE WorkerInv(v)'
    <2>1. CASE v = w
      BY <2>1 DEF WorkerStep
    <2>2. CASE v # w
      BY <2>2, WorkerStays
      DEF SyncInv, TypeOK, WorkerStep, OthersSame, TableStep
    <2> QED
      BY <2>1, <2>2
  <1> QED
    BY <1>1 DEF SyncInv, TypeOK, WorkerStep, TableStep

LEMMA SyncedIsLinkedTable == SyncedRowsAreLinked <=> LinkedTable(rows)
  BY DEF SyncedRowsAreLinked, LinkedTable

LEMMA SameTable ==
  ASSUME TableOK, RowsAreMade, SyncedRowsAreLinked, UNCHANGED tableVars
  PROVE  TableStep
  <1>1. made \in Nat
    BY ConstantFacts DEF TableOK
  <1>2. rows' = rows /\ made' = made
    BY DEF tableVars
  <1> QED
    BY <1>1, <1>2
    DEF TableStep, TableOK, RowsAreMade, SyncedRowsAreLinked, RowsGrow,
        KeepsKeys

(* Rows change but are not added. *)
LEMMA SameRows ==
  ASSUME TableOK, RowsAreMade, made' = made, rows' \in Tables,
         Live(rows') \subseteq Live(rows), KeepsKeys(rows, rows'),
         LinkedTable(rows')
  PROVE  TableStep
  <1>1. made \in Nat
    BY ConstantFacts DEF TableOK
  <1> QED
    BY <1>1
    DEF TableStep, TableOK, RowsAreMade, SyncedRowsAreLinked, LinkedTable,
        RowsGrow

(* A worker that has ended a job knows nothing. *)
LEMMA ForgetFacts ==
  ASSUME TableOK, LocalsOK, NEW w \in Workers, Forget(w), TableStep
  PROVE  LocalsOK' /\ OthersSame(w) /\ WorkerInv(w)'
  <1>1. LocalsOK'
    <2>1. /\ NoContact \in Contact /\ BlankRow \in Row /\ NoLink \in Link
          /\ None \in Maybe(HubIds \cup ShopIds) /\ "idle" \in Phases
      BY DEF NoContact, Contact, BlankRow, Row, NoLink, Link, Maybe, Phases
    <2> QED
      BY <2>1 DEF Forget, LocalsOK
  <1>2. OthersSame(w)
    BY DEF Forget, LocalsOK, OthersSame, SameAt
  <1>3. /\ phase'[w] = "idle" /\ job'[w] = NoJob /\ row'[w] = NoRow
        /\ dest'[w] = None
    BY DEF Forget, LocalsOK
  <1>4. NoRow <= made'
    BY ConstantFacts DEF TableStep, TableOK, NoRow
  <1>5. NoRow \notin Live(rows')
    BY DEF NoRow, Live, RowIds
  <1>6. Locals(w)'
    BY <1>3, <1>4 DEF Locals
  <1>7. Sides(w)' /\ LinkCompletes(w)'
    BY <1>3 DEF Sides, LinkCompletes, ShopWriting, HubWriting, Writing, AtLink
  <1>8. RowKeys(w)'
    BY <1>3, <1>5 DEF RowKeys
  <1> QED
    BY <1>1, <1>2, <1>6, <1>7, <1>8 DEF WorkerInv

LEMMA EndFacts ==
  ASSUME SyncInv, NEW w \in Workers, phase[w] # "idle",
         Return(w) \/ Throw(w) \/ GiveUp(w),
         UNCHANGED <<storeVars, tableVars>>, CountOK'
  PROVE  WorkerStep(w)
  <1>1. Forget(w)
    BY DEF Return, Throw, GiveUp
  <1>2. TableStep
    BY SameTable DEF SyncInv, TypeOK
  <1>3. QueueOK'
    BY DEF Return, Throw, GiveUp, SyncInv, TypeOK, QueueOK, queueVars,
           WorkerInv,
           Locals
  <1>4. StoreOK'
    BY DEF SyncInv, TypeOK, StoreOK, storeVars
  <1> QED
    BY <1>1, <1>2, <1>3, <1>4, ForgetFacts DEF SyncInv, TypeOK, WorkerStep

-----------------------------------------------------------------------------
(* Claim, hydrate and failure.                                             *)

LEMMA OnlyMatchFacts ==
  ASSUME TypeOK, NEW w \in Workers, OnlyMatch(w)
  PROVE  /\ StoreOK' /\ QueueOK' /\ CountOK'
         /\ job' = job /\ contact' = contact /\ dest' = dest
  BY DEF OnlyMatch, TypeOK, StoreOK, QueueOK, CountOK, storeVars, queueVars,
         countVars

LEMMA ClaimStep ==
  ASSUME SyncInv, NEW w \in Workers, NEW j \in jobs, Claim(w, j)
  PROVE  WorkerStep(w)
  <1> USE DEF SyncInv, TypeOK
  <1>1. StoreOK' /\ CountOK'
    BY DEF Claim, StoreOK, CountOK, storeVars, countVars
  <1>2. QueueOK' /\ j \in Job
    BY DEF Claim, QueueOK
  <1>3. TableStep
    BY SameTable DEF Claim
  <1>4. LocalsOK'
    <2>1. "hydrate" \in Phases
      BY DEF Phases
    <2> QED
      BY <1>2, <2>1 DEF Claim, LocalsOK, matchVars, linkVars
  <1>5. OthersSame(w)
    BY DEF Claim, LocalsOK, OthersSame, SameAt, matchVars, linkVars
  <1>6. /\ phase[w] = "idle" /\ phase'[w] = "hydrate" /\ job'[w] = j
        /\ row'[w] = row[w] /\ dest'[w] = dest[w]
    BY DEF Claim, LocalsOK, matchVars
  <1>7. row[w] = NoRow /\ dest[w] = None
    BY <1>6 DEF WorkerInv, Locals
  <1>8. NoRow <= made' /\ NoRow \notin Live(rows')
    BY <1>3, ConstantFacts DEF TableStep, TableOK, NoRow, Live, RowIds
  <1>9. WorkerInv(w)'
    <2>1. Locals(w)'
      BY <1>2, <1>6, <1>7, <1>8 DEF Locals
    <2>2. Sides(w)' /\ LinkCompletes(w)'
      BY <1>6
      DEF Sides, LinkCompletes, ShopWriting, HubWriting, Writing, AtLink
    <2>3. RowKeys(w)'
      BY <1>6, <1>7, <1>8 DEF RowKeys
    <2> QED
      BY <2>1, <2>2, <2>3 DEF WorkerInv
  <1> QED
    BY <1>1, <1>2, <1>3, <1>4, <1>5, <1>9 DEF WorkerStep

LEMMA SourceFacts ==
  ASSUME SyncInv, NEW w \in Workers, phase[w] = "hydrate", Syncable(w)
  PROVE  Source(w) \in Contact /\ Source(w).mail # None
  <1> USE DEF SyncInv, TypeOK
  <1>1. job[w] \in Job
    BY DEF WorkerInv, Locals
  <1>2. CASE FromHub(w)
    <2>1. job[w].id \in HubIds
      BY <1>1, <1>2 DEF FromHub, Job, HubJob, ShopJob
    <2>2. InHub(job[w].id)
      BY <1>2 DEF Syncable, Source
    <2>3. FromHubContact(hub[job[w].id]) \in Contact
      BY <2>1, <2>2, HubRecord DEF FromHubContact, Contact, Maybe
    <2> QED
      BY <1>2, <2>2, <2>3 DEF Syncable, Source
  <1>3. CASE ~FromHub(w)
    <2>1. job[w].body \in Contact \cup {Gone}
      BY <1>1, <1>3 DEF FromHub, Job, HubJob, ShopJob
    <2> QED
      BY <1>3, <2>1 DEF Syncable, Source
  <1> QED
    BY <1>2, <1>3

LEMMA HydrateStep ==
  ASSUME SyncInv, NEW w \in Workers, Hydrate(w)
  PROVE  WorkerStep(w)
  <1> USE DEF SyncInv, TypeOK
  <1>1. Source(w) \in Contact /\ Source(w).mail # None
    BY SourceFacts DEF Hydrate
  <1>2. StoreOK' /\ QueueOK' /\ CountOK'
    BY DEF Hydrate, StoreOK, QueueOK, CountOK, storeVars, queueVars, countVars
  <1>3. TableStep
    BY SameTable DEF Hydrate
  <1>4. LocalsOK'
    <2>1. "findFirst" \in Phases
      BY DEF Phases, Matching
    <2> QED
      BY <1>1, <2>1 DEF Hydrate, LocalsOK, matchVars, linkVars
  <1>5. OthersSame(w)
    BY DEF Hydrate, LocalsOK, OthersSame, SameAt, matchVars, linkVars
  <1>6. /\ phase[w] = "hydrate" /\ phase'[w] = "findFirst" /\ job'[w] = job[w]
        /\ row'[w] = row[w] /\ dest'[w] = dest[w] /\ contact'[w] = Source(w)
    BY DEF Hydrate, LocalsOK, matchVars
  <1>7. row[w] = NoRow /\ dest[w] = None /\ job[w] \in Job
    BY <1>6 DEF WorkerInv, Locals
  <1>8. NoRow <= made' /\ NoRow \notin Live(rows')
    BY <1>3, ConstantFacts DEF TableStep, TableOK, NoRow, Live, RowIds
  <1>9. WorkerInv(w)'
    <2>1. Locals(w)'
      BY <1>1, <1>6, <1>7, <1>8 DEF Locals
    <2>2. Sides(w)' /\ LinkCompletes(w)'
      BY <1>6
      DEF Sides, LinkCompletes, ShopWriting, HubWriting, Writing, AtLink
    <2>3. RowKeys(w)'
      BY <1>6, <1>7, <1>8 DEF RowKeys
    <2> QED
      BY <2>1, <2>2, <2>3 DEF WorkerInv
  <1> QED
    BY <1>1, <1>2, <1>3, <1>4, <1>5, <1>9 DEF WorkerStep

LEMMA FailStep ==
  ASSUME SyncInv, NEW w \in Workers, Fail(w)
  PROVE  WorkerStep(w)
  <1>1. CountOK'
    BY ConstantFacts DEF Fail, SyncInv, TypeOK, CountOK
  <1> QED
    BY <1>1, EndFacts DEF Fail

(* The other ways in which a job ends. *)
LEMMA EndStep ==
  ASSUME SyncInv, NEW w \in Workers,
         \/ HydrateNothing(w) \/ MappingThrows(w) \/ Skip(w) \/ Finish(w)
         \/ UpdateHubRefused(w) \/ InsertShopRefused(w)
  PROVE  WorkerStep(w)
  <1>1. phase[w] # "idle"
    BY DEF HydrateNothing, MappingThrows, Skip, Finish, UpdateHubRefused,
           InsertShopRefused
  <1>2. CountOK'
    BY DEF HydrateNothing, MappingThrows, Skip, Finish, UpdateHubRefused,
           InsertShopRefused, SyncInv, TypeOK, CountOK, countVars
  <1>3. /\ Return(w) \/ Throw(w) \/ GiveUp(w)
        /\ UNCHANGED <<storeVars, tableVars>>
    BY DEF HydrateNothing, MappingThrows, Skip, Finish, UpdateHubRefused,
           InsertShopRefused
  <1> QED
    BY <1>1, <1>2, <1>3, EndFacts

-----------------------------------------------------------------------------
(* findOrCreateMapping.                                                    *)

(* A row found by a key has that key. *)
LEMMA FoundFacts ==
  ASSUME TypeOK, RowsAreMade, NEW w \in Workers, NEW r \in ByHub(w) \cup ByMail(w)
  PROVE  /\ r \in RowIds /\ r \in Live(rows) /\ r <= made /\ rows[r] \in Row
         /\ r # NoRow
         /\ r \in ByHub(w) => rows[r].hub # None
         /\ r \in ByMail(w) => rows[r].mail # None
  <1>1. r \in Live(rows)
    BY DEF ByHub, ByMail, Owners
  <1>2. /\ r \in ByHub(w) => rows[r]["hub"] # None
        /\ r \in ByMail(w) => rows[r]["mail"] # None
    BY DEF ByHub, ByMail, Owners
  <1>3. r \in RowIds /\ rows[r] \in Row
    BY <1>1, RowFields DEF TypeOK, TableOK
  <1> QED
    BY <1>1, <1>2, <1>3 DEF RowsAreMade, NoRow, RowIds

(* What the invariant says of a worker in the middle of syncContact. *)
LEMMA MiddleFacts ==
  ASSUME SyncInv, NEW w \in Workers, phase[w] \notin {"idle", "hydrate"}
  PROVE  /\ job[w] \in Job /\ contact[w] \in Contact /\ contact[w].mail # None
         /\ contact[w].mail \in Maybe(Mails) /\ contact[w].ox \in Maybe(ShopIds)
         /\ FromHub(w) => job[w].id \in HubIds
  <1>1. job[w] \in Job /\ contact[w] \in Contact /\ contact[w].mail # None
    BY DEF SyncInv, TypeOK, LocalsOK, WorkerInv, Locals
  <1>2. FromHub(w) => job[w].id \in HubIds
    BY <1>1 DEF FromHub, Job, HubJob, ShopJob
  <1> QED
    BY <1>1, <1>2 DEF Contact

LEMMA FindFirstStep ==
  ASSUME SyncInv, NEW w \in Workers, FindFirst(w)
  PROVE  WorkerStep(w)
  <1> USE DEF SyncInv, TypeOK
  <1>1. StoreOK' /\ QueueOK' /\ CountOK'
        /\ job' = job /\ contact' = contact /\ dest' = dest
    BY OnlyMatchFacts DEF FindFirst
  <1>2. TableStep
    BY SameTable DEF FindFirst
  <1> DEFINE mine == IF FromHub(w) THEN ByHub(w) ELSE ByMail(w)
             next == IF FromHub(w) THEN "findSecond"
                     ELSE IF mine = {} THEN "insert" ELSE "guard"
  <1>3. /\ phase[w] = "findFirst" /\ phase' = [phase EXCEPT ![w] = next]
        /\ other' = other /\ link' = link /\ todo' = todo
    BY DEF FindFirst, Go, linkVars
  <1>4. PICK r : \/ mine = {} /\ r = NoRow /\ row' = row /\ snap' = snap
                 \/ r \in mine /\ Take(w, r)
    BY DEF FindFirst
  <1>5. mine \subseteq ByHub(w) \cup ByMail(w) /\ next \in Phases
    BY DEF Phases, Matching
  <1>6. LocalsOK'
    BY <1>1, <1>3, <1>4, <1>5, FoundFacts DEF LocalsOK, Take
  <1>7. OthersSame(w)
    BY <1>1, <1>3, <1>4 DEF LocalsOK, OthersSame, SameAt, Take
  <1>8. row[w] = NoRow /\ dest[w] = None
    BY <1>3 DEF WorkerInv, Locals
  <1>9. row'[w] = r /\ phase'[w] = next
    BY <1>3, <1>4, <1>8 DEF LocalsOK, Take
  <1>10. FromHub(w)' = FromHub(w)
    BY <1>1 DEF FromHub
  <1>11. job[w] \in Job /\ contact[w].mail # None
    BY <1>3, MiddleFacts
  <1>12. WorkerInv(w)'
    <2>1. made' = made /\ rows' = rows /\ NoRow <= made
      BY ConstantFacts DEF FindFirst, tableVars, TableOK, NoRow
    <2>2. r <= made
      BY <1>4, <1>5, <2>1, FoundFacts
    <2>3. Locals(w)'
      BY <1>1, <1>8, <1>9, <1>11, <2>1, <2>2, <1>4 DEF Locals
    <2>4. Sides(w)' /\ LinkCompletes(w)'
      BY <1>9, <1>10
      DEF Sides, LinkCompletes, ShopWriting, HubWriting, Writing, AtLink
    <2>5. r \in Live(rows) => HasOwnKey(r, w)
      <3>1. NoRow \notin Live(rows)
        BY DEF NoRow, Live, RowIds
      <3>2. r \in mine => HasOwnKey(r, w)
        BY FoundFacts DEF HasOwnKey
      <3> QED
        BY <1>4, <3>1, <3>2
    <2>6. RowKeys(w)'
      BY <1>9, <1>10, <2>1, <2>5
      DEF RowKeys, HasOwnKey, KnowsBothKeys
    <2> QED
      BY <2>3, <2>4, <2>6 DEF WorkerInv
  <1> QED
    BY <1>1, <1>2, <1>6, <1>7, <1>12 DEF WorkerStep

LEMMA FindSecondStep ==
  ASSUME SyncInv, NEW w \in Workers, FindSecond(w)
  PROVE  WorkerStep(w)
  <1> USE DEF SyncInv, TypeOK
  <1>1. StoreOK' /\ QueueOK' /\ CountOK'
        /\ job' = job /\ contact' = contact /\ dest' = dest
    BY OnlyMatchFacts DEF FindSecond
  <1>2. TableStep /\ rows' = rows /\ made' = made
    BY SameTable DEF FindSecond, tableVars
  <1>3. phase[w] = "findSecond" /\ todo' = todo
    BY DEF FindSecond
  <1>4. /\ FromHub(w) /\ dest[w] = None /\ row[w] <= made
        /\ row[w] \in Live(rows) => HasOwnKey(row[w], w)
    BY <1>3 DEF WorkerInv, Locals, Sides, RowKeys, KnowsOwnKey, Owned
  <1>5. job[w] \in Job /\ contact[w].mail # None /\ job[w].id \in HubIds
    BY <1>3, <1>4, MiddleFacts
  <1>6. FromHub(w)' = FromHub(w)
    BY <1>1 DEF FromHub
  <1>7. CASE /\ Go(w, IF row[w] = NoRow THEN "insert" ELSE "guard")
             /\ UNCHANGED <<matchVars, link>>
    <2>1. LocalsOK' /\ OthersSame(w)
      <3>1. {"insert", "guard"} \subseteq Phases
        BY DEF Phases, Matching
      <3> QED
        BY <1>1, <1>3, <1>7, <3>1
        DEF LocalsOK, OthersSame, SameAt, Go, matchVars
    <2>2. phase'[w] \in {"insert", "guard"} /\ row'[w] = row[w]
      BY <1>7 DEF Go, LocalsOK, matchVars
    <2>3. Locals(w)'
      BY <1>1, <1>2, <1>4, <1>5, <2>2 DEF Locals
    <2>4. Sides(w)' /\ LinkCompletes(w)'
      BY <2>2
      DEF Sides, LinkCompletes, ShopWriting, HubWriting, Writing, AtLink
    <2>5. RowKeys(w)'
      BY <1>2, <1>4, <1>6, <2>2 DEF RowKeys, HasOwnKey, KnowsBothKeys
    <2> QED
      BY <1>1, <1>2, <2>1, <2>3, <2>4, <2>5 DEF WorkerStep, WorkerInv
  <1>8. ASSUME NEW r \in ByMail(w) \ {row[w]},
               other' = [other EXCEPT ![w] = r], Go(w, "merge"),
               UNCHANGED <<row, snap, link>>
        PROVE  WorkerStep(w)
    <2>1. r \in RowIds /\ "merge" \in Phases
      BY FoundFacts DEF Phases, Matching
    <2>2. LocalsOK' /\ OthersSame(w)
      BY <1>1, <1>3, <1>8, <2>1 DEF LocalsOK, OthersSame, SameAt, Go
    <2>3. phase'[w] = "merge" /\ row'[w] = row[w] /\ other'[w] = r
      BY <1>8 DEF Go, LocalsOK
    <2>4. Locals(w)'
      BY <1>1, <1>2, <1>4, <1>5, <2>3 DEF Locals
    <2>5. Sides(w)' /\ LinkCompletes(w)'
      BY <1>4, <1>6, <2>3
      DEF Sides, LinkCompletes, ShopWriting, HubWriting, Writing, AtLink
    <2>6. RowKeys(w)'
      BY <1>2, <1>4, <1>6, <2>3 DEF RowKeys, HasOwnKey, KnowsBothKeys
    <2> QED
      BY <1>1, <1>2, <2>2, <2>4, <2>5, <2>6 DEF WorkerStep, WorkerInv
  <1>9. ASSUME NEW r \in ByMail(w) \ {row[w]}, Take(w, r),
               link' = [link EXCEPT ![w] = [NoLink EXCEPT !.hub = job[w].id]],
               Go(w, "link"), UNCHANGED other
        PROVE  WorkerStep(w)
    <2>1. /\ r \in RowIds /\ rows[r] \in Row /\ r <= made
          /\ "link" \in Phases
      BY FoundFacts DEF Phases, Linking
    <2>2. [NoLink EXCEPT !.hub = job[w].id] \in Link
      BY <1>5 DEF NoLink, Link, Maybe
    <2>3. LocalsOK' /\ OthersSame(w)
      BY <1>1, <1>3, <1>9, <2>1, <2>2
      DEF LocalsOK, OthersSame, SameAt, Go, Take
    <2>4. /\ phase'[w] = "link" /\ row'[w] = r /\ dest'[w] = None
          /\ link'[w].hub = job[w].id
      BY <1>1, <1>4, <1>9 DEF Go, LocalsOK, Take, NoLink
    <2>5. Locals(w)'
      BY <1>1, <1>2, <1>5, <2>1, <2>4 DEF Locals
    <2>6. Sides(w)'
      BY <2>4 DEF Sides, ShopWriting, HubWriting, Writing
    <2>7. LinkCompletes(w)'
      BY <1>4, <1>5, <1>6, <2>4, ConstantFacts DEF LinkCompletes
    <2>8. RowKeys(w)'
      BY <2>4 DEF RowKeys, KnowsOwnKey, KnowsBothKeys, Owned, Writing
    <2> QED
      BY <1>1, <1>2, <2>3, <2>5, <2>6, <2>7, <2>8 DEF WorkerStep, WorkerInv
  <1> QED
    BY <1>7, <1>8, <1>9 DEF FindSecond

LEMMA MergeFoundStep ==
  ASSUME SyncInv, NEW w \in Workers, MergeFound(w)
  PROVE  WorkerStep(w)
  <1> USE DEF SyncInv, TypeOK
  <1>1. StoreOK' /\ QueueOK' /\ CountOK'
        /\ job' = job /\ contact' = contact /\ dest' = dest
    BY OnlyMatchFacts DEF MergeFound
  <1>2. /\ phase[w] = "merge" /\ row[w] \in Live(rows) /\ other[w] \in Live(rows)
        /\ made' = made /\ row' = row /\ link' = link /\ todo' = todo
        /\ other' = [other EXCEPT ![w] = NoRow]
        /\ snap' = [snap EXCEPT ![w] = rows'[row[w]]]
        /\ phase' = [phase EXCEPT ![w] = "guard"]
        /\ rows' = Merge(rows, row[w], other[w])
    BY DEF MergeFound, Mergeable, linkVars, Go
  <1>3. row[w] # other[w] /\ row[w] <= made /\ FromHub(w) /\ HasOwnKey(row[w], w)
    BY <1>2 DEF WorkerInv, Locals, Sides, RowKeys, KnowsOwnKey, Owned
  <1>4. /\ rows' \in Tables /\ Live(rows') = Live(rows) \ {other[w]}
        /\ KeepsKeys(rows, rows') /\ LinkedTable(rows') /\ rows'[row[w]] \in Row
    BY <1>2, <1>3, MergeFacts, SyncedIsLinkedTable DEF TableOK
  <1>5. TableStep
    BY <1>2, <1>4, SameRows
  <1>6. LocalsOK' /\ OthersSame(w)
    <2>1. "guard" \in Phases /\ NoRow \in RowIds \cup {NoRow}
      BY DEF Phases
    <2> QED
      BY <1>1, <1>2, <1>4, <2>1 DEF LocalsOK, OthersSame, SameAt
  <1>7. phase'[w] = "guard"
    BY <1>2 DEF LocalsOK
  <1>8. job[w] \in Job /\ contact[w].mail # None
    BY <1>2, MiddleFacts
  <1>9. WorkerInv(w)'
    <2>1. Locals(w)'
      BY <1>1, <1>2, <1>3, <1>7, <1>8 DEF Locals
    <2>2. Sides(w)' /\ LinkCompletes(w)'
      BY <1>7
      DEF Sides, LinkCompletes, ShopWriting, HubWriting, Writing, AtLink
    <2>3. FromHub(w)' = FromHub(w)
      BY <1>1 DEF FromHub
    <2>4. HasOwnKey(row[w], w)'
      BY <1>2, <1>3, <1>4, <2>3 DEF HasOwnKey, KeepsKeys
    <2>5. RowKeys(w)'
      BY <1>2, <1>7, <2>4 DEF RowKeys, HasOwnKey, KnowsBothKeys
    <2> QED
      BY <2>1, <2>2, <2>5 DEF WorkerInv
  <1> QED
    BY <1>1, <1>5, <1>6, <1>9 DEF WorkerStep

LEMMA FirstKeyFacts ==
  ASSUME SyncInv, NEW w \in Workers, phase[w] \notin {"idle", "hydrate"}
  PROVE  /\ FirstKey(w) \in Link
         /\ FromHub(w) => NewRow(FirstKey(w)).hub # None
         /\ ~FromHub(w) => NewRow(FirstKey(w)).mail # None
  BY MiddleFacts, ConstantFacts DEF FirstKey, NoLink, Link, NewRow, Maybe

LEMMA InsertStep ==
  ASSUME SyncInv, NEW w \in Workers, Insert(w)
  PROVE  WorkerStep(w)
  <1> USE DEF SyncInv, TypeOK
  <1>1. StoreOK' /\ QueueOK' /\ CountOK'
        /\ job' = job /\ contact' = contact /\ dest' = dest
    BY OnlyMatchFacts DEF Insert
  <1> DEFINE new == NewRow(FirstKey(w))
             r == made + 1
  <1>2. /\ phase[w] = "insert" /\ made < MaxRows /\ made' = r
        /\ rows' = [rows EXCEPT ![r] = new]
        /\ row' = [row EXCEPT ![w] = r]
        /\ snap' = [snap EXCEPT ![w] = new]
        /\ phase' = [phase EXCEPT ![w] = "guard"]
        /\ other' = other /\ link' = link /\ todo' = todo
    BY DEF Insert, linkVars, Go
  <1>3. FirstKey(w) \in Link /\ (FromHub(w) => new.hub # None)
        /\ (~FromHub(w) => new.mail # None)
    BY <1>2, FirstKeyFacts
  <1>4. /\ made \in Nat /\ r \in RowIds /\ r \notin Live(rows) /\ made' \in 0 .. MaxRows
    BY <1>2, ConstantFacts DEF TableOK, RowIds, RowsAreMade
  <1> HIDE DEF r
  <1>5. /\ rows' \in Tables /\ Live(rows') = Live(rows) \cup {r}
        /\ KeepsKeys(rows, rows') /\ LinkedTable(rows')
        /\ rows'[r] = new /\ new \in Row
    BY <1>2, <1>3, <1>4, InsertFacts, SyncedIsLinkedTable DEF TableOK
  <1> HIDE DEF new
  <1>6. TableStep
    <2>1. RowsAreMade'
      BY <1>2, <1>4, <1>5 DEF RowsAreMade, r, Live, RowIds
    <2>2. RowsGrow
      <3>1. made <= made' /\ r > made
        BY <1>2, <1>4 DEF r
      <3>2. \A s \in Live(rows') : s \in Live(rows) \/ s > made
        BY <1>5, <3>1
      <3> QED
        BY <1>5, <3>1, <3>2 DEF RowsGrow
    <2> QED
      BY <1>4, <1>5, <2>1, <2>2
      DEF TableStep, TableOK, SyncedRowsAreLinked, LinkedTable
  <1>7. LocalsOK' /\ OthersSame(w)
    <2>1. "guard" \in Phases
      BY DEF Phases
    <2> QED
      BY <1>1, <1>2, <1>4, <1>5, <2>1 DEF LocalsOK, OthersSame, SameAt
  <1>8. phase'[w] = "guard" /\ row'[w] = r
    BY <1>2 DEF LocalsOK
  <1>9. job[w] \in Job /\ contact[w].mail # None
    BY <1>2, MiddleFacts
  <1>10. WorkerInv(w)'
    <2>1. Locals(w)'
      BY <1>1, <1>2, <1>4, <1>8, <1>9 DEF Locals, r
    <2>2. Sides(w)' /\ LinkCompletes(w)'
      BY <1>8
      DEF Sides, LinkCompletes, ShopWriting, HubWriting, Writing, AtLink
    <2>3. RowKeys(w)'
      BY <1>1, <1>3, <1>5, <1>8 DEF RowKeys, HasOwnKey, FromHub, KnowsBothKeys
    <2> QED
      BY <2>1, <2>2, <2>3 DEF WorkerInv
  <1> QED
    BY <1>1, <1>6, <1>7, <1>10 DEF WorkerStep

LEMMA InsertClashStep ==
  ASSUME SyncInv, NEW w \in Workers, InsertClash(w)
  PROVE  WorkerStep(w)
  <1> USE DEF SyncInv, TypeOK
  <1>1. StoreOK' /\ QueueOK' /\ CountOK'
        /\ job' = job /\ contact' = contact /\ dest' = dest
    BY OnlyMatchFacts DEF InsertClash
  <1>2. TableStep /\ rows' = rows /\ made' = made
    BY SameTable DEF InsertClash, tableVars
  <1>3. LocalsOK' /\ OthersSame(w)
    <2>1. "raced" \in Phases
      BY DEF Phases, Matching
    <2> QED
      BY <1>1, <2>1
      DEF InsertClash, LocalsOK, OthersSame, SameAt, Go, matchVars, linkVars
  <1>4. phase[w] = "insert" /\ phase'[w] = "raced" /\ row'[w] = row[w]
    BY DEF InsertClash, Go, LocalsOK, matchVars
  <1>5. job[w] \in Job /\ contact[w].mail # None /\ row[w] <= made
    BY <1>4, MiddleFacts DEF WorkerInv, Locals
  <1>6. Locals(w)'
    BY <1>1, <1>2, <1>4, <1>5 DEF Locals
  <1>7. Sides(w)' /\ LinkCompletes(w)'
    BY <1>4 DEF Sides, LinkCompletes, ShopWriting, HubWriting, Writing, AtLink
  <1>8. RowKeys(w)'
    BY <1>4 DEF RowKeys, KnowsOwnKey, KnowsBothKeys, Owned, Writing, AtLink
  <1> QED
    BY <1>1, <1>2, <1>3, <1>6, <1>7, <1>8 DEF WorkerStep, WorkerInv

LEMMA RacedStep ==
  ASSUME SyncInv, NEW w \in Workers, Raced(w)
  PROVE  WorkerStep(w)
  <1> USE DEF SyncInv, TypeOK
  <1>1. StoreOK' /\ QueueOK' /\ CountOK'
        /\ job' = job /\ contact' = contact /\ dest' = dest
    BY OnlyMatchFacts DEF Raced
  <1>2. TableStep /\ rows' = rows /\ made' = made
    BY SameTable DEF Raced, tableVars
  <1>3. PICK r \in (IF FromHub(w) THEN ByHub(w) ELSE ByMail(w)) : Take(w, r)
    BY DEF Raced
  <1>4. /\ r \in RowIds /\ rows[r] \in Row /\ r <= made /\ HasOwnKey(r, w)
    BY <1>3, FoundFacts DEF HasOwnKey
  <1>5. LocalsOK' /\ OthersSame(w)
    <2>1. "guard" \in Phases
      BY DEF Phases
    <2> QED
      BY <1>1, <1>3, <1>4, <2>1
      DEF Raced, Take, LocalsOK, OthersSame, SameAt, Go, linkVars
  <1>6. phase[w] = "raced" /\ phase'[w] = "guard" /\ row'[w] = r
    BY <1>3 DEF Raced, Take, Go, LocalsOK
  <1>7. job[w] \in Job /\ contact[w].mail # None
    BY <1>6, MiddleFacts
  <1>8. Locals(w)'
    BY <1>1, <1>2, <1>4, <1>6, <1>7 DEF Locals
  <1>9. Sides(w)' /\ LinkCompletes(w)'
    BY <1>6 DEF Sides, LinkCompletes, ShopWriting, HubWriting, Writing, AtLink
  <1>10. RowKeys(w)'
    BY <1>1, <1>2, <1>4, <1>6 DEF RowKeys, HasOwnKey, FromHub, KnowsBothKeys
  <1> QED
    BY <1>1, <1>2, <1>5, <1>8, <1>9, <1>10 DEF WorkerStep, WorkerInv

-----------------------------------------------------------------------------
(* linkCounterpart.                                                        *)

(* What a worker in linkCounterpart is about to write. *)
LEMMA LinkingFacts ==
  ASSUME SyncInv, NEW w \in Workers, phase[w] \in AtLink
  PROVE  /\ job[w] \in Job /\ contact[w].mail # None /\ row[w] <= made
         /\ row[w] \in RowIds \cup {NoRow} /\ link[w] \in Link
         /\ dest[w] = None => FromHub(w) /\ link[w].hub # None
         /\ dest[w] # None /\ FromHub(w) => link[w].mail # None
         /\ dest[w] # None /\ ~FromHub(w) => link[w].hub # None
         /\ dest[w] # None /\ row[w] \in Live(rows) => HasOwnKey(row[w], w)
  BY MiddleFacts
  DEF AtLink, SyncInv, TypeOK, LocalsOK, WorkerInv, Locals, LinkCompletes,
      RowKeys,
      KnowsOwnKey

(* Once the columns are written, the row is complete, if it is still there. *)
LEMMA UpdateStep ==
  ASSUME SyncInv, NEW w \in Workers, phase[w] \in AtLink,
         rows' = Update(rows, row[w], link[w]), Go(w, "linked"),
         made' = made, UNCHANGED <<matchVars, link>>, OnlyMatch(w),
         todo' \in [Workers -> SUBSET Columns],
         \A v \in Workers \ {w} : todo'[v] = todo[v]
  PROVE  WorkerStep(w)
  <1> USE DEF SyncInv, TypeOK
  <1>1. StoreOK' /\ QueueOK' /\ CountOK'
        /\ job' = job /\ contact' = contact /\ dest' = dest
    BY OnlyMatchFacts
  <1>2. /\ job[w] \in Job /\ contact[w].mail # None /\ row[w] <= made
        /\ row[w] \in RowIds \cup {NoRow} /\ link[w] \in Link
        /\ dest[w] = None => FromHub(w) /\ link[w].hub # None
        /\ dest[w] # None /\ FromHub(w) => link[w].mail # None
        /\ dest[w] # None /\ ~FromHub(w) => link[w].hub # None
        /\ dest[w] # None /\ row[w] \in Live(rows) => HasOwnKey(row[w], w)
    BY LinkingFacts
  <1>3. /\ rows' \in Tables /\ Live(rows') = Live(rows)
        /\ KeepsKeys(rows, rows') /\ LinkedTable(rows')
        /\ row[w] \in Live(rows) =>
             /\ link[w].hub # None => rows'[row[w]].hub # None
             /\ link[w].mail # None => rows'[row[w]].mail # None
    BY <1>2, UpdateFacts, SyncedIsLinkedTable DEF TableOK
  <1>4. TableStep
    BY <1>3, SameRows
  <1>5. LocalsOK' /\ OthersSame(w)
    <2>1. "linked" \in Phases
      BY DEF Phases, Linking
    <2> QED
      BY <1>1, <2>1 DEF LocalsOK, OthersSame, SameAt, Go, matchVars
  <1>6. phase'[w] = "linked" /\ row'[w] = row[w]
    BY DEF LocalsOK, Go, matchVars
  <1>7. FromHub(w)' = FromHub(w)
    BY <1>1 DEF FromHub
  <1>8. Locals(w)'
    BY <1>1, <1>2, <1>6 DEF Locals
  <1>9. Sides(w)'
    BY <1>6 DEF Sides, ShopWriting, HubWriting, Writing
  <1>10. LinkCompletes(w)'
    BY <1>1, <1>2, <1>6, <1>7 DEF LinkCompletes
  <1>11. RowKeys(w)'
    <2>1. row[w] \in Live(rows) /\ dest[w] # None =>
            rows'[row[w]].hub # None /\ rows'[row[w]].mail # None
      BY <1>2, <1>3 DEF HasOwnKey, KeepsKeys
    <2>2. row[w] \in Live(rows) /\ dest[w] = None => rows'[row[w]].hub # None
      BY <1>2, <1>3
    <2> QED
      BY <1>1, <1>2, <1>3, <1>6, <1>7, <2>1, <2>2
      DEF RowKeys, KnowsBothKeys, HasOwnKey
  <1> QED
    BY <1>1, <1>4, <1>5, <1>8, <1>9, <1>10, <1>11 DEF WorkerStep, WorkerInv

(* A step within linkCounterpart that changes no row. *)
LEMMA StayAtLink ==
  ASSUME SyncInv, NEW w \in Workers, phase[w] \in AtLink,
         UNCHANGED <<tableVars, row, snap, link>>, OnlyMatch(w), LocalsOK',
         OthersSame(w), phase'[w] \in {"collide", "absorb"},
         phase'[w] = "absorb" => row[w] # other'[w]
  PROVE  WorkerStep(w)
  <1> USE DEF SyncInv, TypeOK
  <1>1. StoreOK' /\ QueueOK' /\ CountOK'
        /\ job' = job /\ contact' = contact /\ dest' = dest
    BY OnlyMatchFacts
  <1>2. TableStep /\ rows' = rows /\ made' = made
    BY SameTable DEF tableVars
  <1>3. /\ job[w] \in Job /\ contact[w].mail # None /\ row[w] <= made
        /\ dest[w] # None /\ row[w] \in Live(rows) => HasOwnKey(row[w], w)
    BY LinkingFacts
  <1>4. FromHub(w)' = FromHub(w)
    BY <1>1 DEF FromHub
  <1>5. Locals(w)'
    BY <1>1, <1>2, <1>3 DEF Locals
  <1>6. Sides(w)'
    BY DEF Sides, ShopWriting, HubWriting, Writing
  <1>7. LinkCompletes(w)'
    BY <1>1, <1>4, LinkingFacts DEF LinkCompletes
  <1>8. RowKeys(w)'
    BY <1>1, <1>2, <1>3, <1>4
    DEF RowKeys, KnowsOwnKey, KnowsBothKeys, HasOwnKey, Owned, Writing
  <1> QED
    BY <1>1, <1>2, <1>5, <1>6, <1>7, <1>8 DEF WorkerStep, WorkerInv

LEMMA LinkRowStep ==
  ASSUME SyncInv, NEW w \in Workers, LinkRow(w)
  PROVE  WorkerStep(w)
  <1> USE DEF SyncInv, TypeOK
  <1>1. phase[w] \in AtLink /\ OnlyMatch(w) /\ made' = made
        /\ UNCHANGED <<matchVars, link>>
    BY DEF LinkRow, AtLink
  <1>2. CASE row[w] \in Live(rows) /\ Clashes(rows, row[w], link[w])
    <2>1. /\ rows' = rows /\ Go(w, "collide")
          /\ todo' = [todo EXCEPT
               ![w] = {col \in Columns : link[w][col] # None}]
      BY <1>2 DEF LinkRow
    <2>2. LocalsOK' /\ OthersSame(w) /\ phase'[w] = "collide"
      <3>1. "collide" \in Phases /\ {col \in Columns : link[w][col] # None} \in SUBSET Columns
        BY DEF Phases, Linking
      <3> QED
        BY <1>1, <2>1, <3>1, OnlyMatchFacts
        DEF LocalsOK, OthersSame, SameAt, Go, matchVars
    <2> QED
      BY <1>1, <2>1, <2>2, StayAtLink DEF tableVars, matchVars
  <1>3. CASE ~(row[w] \in Live(rows) /\ Clashes(rows, row[w], link[w]))
    <2>1. /\ rows' = Update(rows, row[w], link[w]) /\ Go(w, "linked")
          /\ todo' = todo
      BY <1>3 DEF LinkRow
    <2> QED
      BY <1>1, <2>1, UpdateStep DEF LocalsOK
  <1> QED
    BY <1>2, <1>3

LEMMA RelinkStep ==
  ASSUME SyncInv, NEW w \in Workers, Relink(w)
  PROVE  WorkerStep(w)
  <1>1. /\ phase[w] \in AtLink /\ rows' = Update(rows, row[w], link[w])
        /\ Go(w, "linked") /\ made' = made /\ UNCHANGED <<matchVars, link>>
        /\ OnlyMatch(w) /\ todo' = todo
    BY DEF Relink, AtLink, linkVars
  <1> QED
    BY <1>1, UpdateStep DEF SyncInv, TypeOK, LocalsOK

LEMMA CollideStep ==
  ASSUME SyncInv, NEW w \in Workers, Collide(w)
  PROVE  WorkerStep(w)
  <1> USE DEF SyncInv, TypeOK
  <1>1. /\ phase[w] = "collide" /\ OnlyMatch(w)
        /\ UNCHANGED <<tableVars, row, snap, link>>
    BY DEF Collide
  <1> DEFINE col == NextColumn(todo[w])
             rivals == Owners(rows, col, link[w][col]) \ {row[w]}
  <1>2. todo' = [todo EXCEPT ![w] = @ \ {col}]
    BY DEF Collide
  <1>3. PICK r : \/ UNCHANGED <<phase, other>>
                 \/ /\ r \in rivals
                    /\ other' = [other EXCEPT ![w] = r]
                    /\ Go(w, "absorb")
    BY DEF Collide
  <1>4. r \in rivals => r \in RowIds /\ r # row[w]
    BY DEF Owners, Live
  <1> HIDE DEF rivals, col
  <1>5. LocalsOK' /\ OthersSame(w)
    <2>1. "absorb" \in Phases
      BY DEF Phases, Linking
    <2> QED
      BY <1>1, <1>2, <1>3, <1>4, <2>1, OnlyMatchFacts
      DEF LocalsOK, OthersSame, SameAt, Go
  <1>6. /\ phase'[w] \in {"collide", "absorb"}
        /\ phase'[w] = "absorb" => other'[w] # row[w]
    BY <1>1, <1>3, <1>4 DEF LocalsOK, Go
  <1> QED
    BY <1>1, <1>5, <1>6, StayAtLink DEF AtLink

LEMMA AbsorbStep ==
  ASSUME SyncInv, NEW w \in Workers, Absorb(w)
  PROVE  WorkerStep(w)
  <1> USE DEF SyncInv, TypeOK
  <1>1. StoreOK' /\ QueueOK' /\ CountOK'
        /\ job' = job /\ contact' = contact /\ dest' = dest
    BY OnlyMatchFacts DEF Absorb
  <1>2. /\ phase[w] = "absorb" /\ row[w] \in Live(rows) /\ other[w] \in Live(rows)
        /\ made' = made /\ row' = row /\ snap' = snap /\ link' = link
        /\ todo' = todo /\ other' = [other EXCEPT ![w] = NoRow]
        /\ phase' = [phase EXCEPT ![w] = "collide"]
        /\ rows' = Merge(rows, row[w], other[w])
    BY DEF Absorb, Mergeable, linkVars, Go
  <1>3. phase[w] \in AtLink /\ row[w] # other[w]
    BY <1>2 DEF WorkerInv, Locals, AtLink
  <1>4. /\ rows' \in Tables /\ Live(rows') = Live(rows) \ {other[w]}
        /\ KeepsKeys(rows, rows') /\ LinkedTable(rows')
    BY <1>2, <1>3, MergeFacts, SyncedIsLinkedTable DEF TableOK
  <1>5. TableStep
    BY <1>2, <1>4, SameRows
  <1>6. LocalsOK' /\ OthersSame(w)
    <2>1. "collide" \in Phases /\ NoRow \in RowIds \cup {NoRow}
      BY DEF Phases, Linking
    <2> QED
      BY <1>1, <1>2, <2>1 DEF LocalsOK, OthersSame, SameAt
  <1>7. phase'[w] = "collide"
    BY <1>2 DEF LocalsOK
  <1>8. /\ job[w] \in Job /\ contact[w].mail # None /\ row[w] <= made
        /\ dest[w] # None => HasOwnKey(row[w], w)
    BY <1>2, <1>3, LinkingFacts
  <1>9. FromHub(w)' = FromHub(w)
    BY <1>1 DEF FromHub
  <1>10. Locals(w)'
    BY <1>1, <1>2, <1>7, <1>8 DEF Locals
  <1>11. Sides(w)'
    BY <1>7 DEF Sides, ShopWriting, HubWriting, Writing
  <1>12. LinkCompletes(w)'
    BY <1>1, <1>2, <1>3, <1>9, LinkingFacts DEF LinkCompletes
  <1>13. RowKeys(w)'
    <2>1. dest[w] # None => HasOwnKey(row[w], w)'
      BY <1>2, <1>3, <1>4, <1>8, <1>9 DEF HasOwnKey, KeepsKeys
    <2> QED
      BY <1>1, <1>2, <1>7, <2>1
      DEF RowKeys, KnowsOwnKey, KnowsBothKeys, HasOwnKey, Owned, Writing
  <1> QED
    BY <1>1, <1>5, <1>6, <1>10, <1>11, <1>12, <1>13 DEF WorkerStep, WorkerInv

LEMMA LinkedStep ==
  ASSUME SyncInv, NEW w \in Workers, Linked(w)
  PROVE  WorkerStep(w)
  <1> USE DEF SyncInv, TypeOK
  <1>1. StoreOK' /\ QueueOK' /\ CountOK'
        /\ job' = job /\ contact' = contact /\ dest' = dest
    BY OnlyMatchFacts DEF Linked
  <1>2. TableStep /\ rows' = rows /\ made' = made
    BY SameTable DEF Linked, tableVars
  <1> DEFINE next == IF dest[w] = None THEN "reread" ELSE "record"
  <1>3. phase[w] = "linked" /\ phase'[w] = next /\ row'[w] = row[w]
    BY DEF Linked, Go, LocalsOK, matchVars
  <1>4. LocalsOK' /\ OthersSame(w)
    <2>1. next \in Phases /\ NoLink \in Link
      BY DEF Phases, Linking, NoLink, Link, Maybe
    <2> QED
      BY <1>1, <2>1 DEF Linked, LocalsOK, OthersSame, SameAt, Go, matchVars
  <1>5. /\ job[w] \in Job /\ contact[w].mail # None /\ row[w] <= made
        /\ dest[w] = None => FromHub(w)
    BY <1>3, LinkingFacts DEF AtLink
  <1>6. FromHub(w)' = FromHub(w)
    BY <1>1 DEF FromHub
  <1>7. Locals(w)'
    BY <1>1, <1>2, <1>3, <1>5 DEF Locals
  <1>8. Sides(w)' /\ LinkCompletes(w)'
    BY <1>3, <1>5, <1>6
    DEF Sides, LinkCompletes, ShopWriting, HubWriting, Writing, AtLink
  <1>9. RowKeys(w)'
    <2>1. row[w] \in Live(rows) =>
            /\ HasOwnKey(row[w], w)
            /\ dest[w] # None =>
                 rows[row[w]].hub # None /\ rows[row[w]].mail # None
      BY <1>3 DEF WorkerInv, RowKeys, KnowsOwnKey, KnowsBothKeys
    <2> QED
      BY <1>1, <1>2, <1>3, <1>6, <2>1 DEF RowKeys, HasOwnKey, KnowsBothKeys
  <1> QED
    BY <1>1, <1>2, <1>4, <1>7, <1>8, <1>9 DEF WorkerStep, WorkerInv

LEMMA RereadStep ==
  ASSUME SyncInv, NEW w \in Workers, Reread(w)
  PROVE  WorkerStep(w)
  <1> USE DEF SyncInv, TypeOK
  <1>1. StoreOK' /\ QueueOK' /\ CountOK'
        /\ job' = job /\ contact' = contact /\ dest' = dest
    BY OnlyMatchFacts DEF Reread
  <1>2. TableStep /\ rows' = rows /\ made' = made
    BY SameTable DEF Reread, tableVars
  <1>3. phase[w] = "reread" /\ phase'[w] = "guard"
    BY DEF Reread, Go, LocalsOK
  <1>4. LocalsOK' /\ OthersSame(w) /\ row'[w] = row[w]
    <2>1. "guard" \in Phases
      BY DEF Phases
    <2>2. row[w] \in Live(rows) => rows[row[w]] \in Row
      BY RowFields DEF TableOK
    <2> QED
      BY <1>1, <2>1, <2>2
      DEF Reread, Take, LocalsOK, OthersSame, SameAt, Go, linkVars
  <1>5. /\ job[w] \in Job /\ contact[w].mail # None /\ row[w] <= made
        /\ row[w] \in Live(rows) => HasOwnKey(row[w], w)
    BY <1>3, MiddleFacts DEF WorkerInv, Locals, RowKeys, KnowsOwnKey, Owned
  <1>6. Locals(w)'
    BY <1>1, <1>2, <1>3, <1>4, <1>5 DEF Locals
  <1>7. Sides(w)' /\ LinkCompletes(w)'
    BY <1>3 DEF Sides, LinkCompletes, ShopWriting, HubWriting, Writing, AtLink
  <1>8. RowKeys(w)'
    BY <1>1, <1>2, <1>3, <1>4, <1>5
    DEF RowKeys, HasOwnKey, FromHub, KnowsBothKeys
  <1> QED
    BY <1>1, <1>2, <1>4, <1>6, <1>7, <1>8 DEF WorkerStep, WorkerInv

-----------------------------------------------------------------------------
(* The guard and the writes.                                               *)

(* While a worker writes, its row is not touched by its own step. *)
LEMMA OnlyWriteFacts ==
  ASSUME SyncInv, NEW w \in Workers, OnlyWrite(w)
  PROVE  /\ TableStep /\ CountOK'
         /\ rows' = rows /\ made' = made /\ failed' = failed /\ job' = job
         /\ contact' = contact /\ row' = row /\ snap' = snap /\ other' = other
         /\ todo' = todo /\ FromHub(w)' = FromHub(w)
  <1>1. TableStep
    BY SameTable DEF OnlyWrite, SyncInv, TypeOK
  <1>2. CountOK'
    <2>1. touched' \subseteq {"hub", "shop", "echo"}
      BY DEF OnlyWrite, SyncInv, TypeOK, CountOK
    <2> QED
      BY <2>1 DEF OnlyWrite, SyncInv, TypeOK, CountOK
  <1> QED
    BY <1>1, <1>2 DEF OnlyWrite, tableVars, matchVars, FromHub

LEMMA ProceedStep ==
  ASSUME SyncInv, NEW w \in Workers, Proceed(w)
  PROVE  WorkerStep(w)
  <1> USE DEF SyncInv, TypeOK
  <1>1. StoreOK' /\ QueueOK' /\ CountOK'
        /\ job' = job /\ contact' = contact /\ dest' = dest
    BY OnlyMatchFacts DEF Proceed
  <1>2. TableStep /\ rows' = rows /\ made' = made
    BY SameTable DEF Proceed, tableVars
  <1> DEFINE next == IF FromHub(w) THEN "updateShop"
                     ELSE IF snap[w].hub # None THEN "lookHub" ELSE "searchHub"
  <1>3. /\ phase[w] = "guard" /\ phase'[w] = next
        /\ row'[w] = row[w] /\ snap'[w] = snap[w]
    BY DEF Proceed, Go, LocalsOK, matchVars
  <1>4. LocalsOK' /\ OthersSame(w)
    <2>1. next \in Phases
      BY DEF Phases, Writing
    <2> QED
      BY <1>1, <2>1
      DEF Proceed, LocalsOK, OthersSame, SameAt, Go, matchVars, linkVars
  <1>5. /\ job[w] \in Job /\ contact[w].mail # None /\ row[w] <= made
        /\ row[w] \in Live(rows) => HasOwnKey(row[w], w)
    BY <1>3, MiddleFacts DEF WorkerInv, Locals, RowKeys, KnowsOwnKey, Owned
  <1>6. FromHub(w)' = FromHub(w)
    BY <1>1 DEF FromHub
  <1>7. Locals(w)'
    BY <1>1, <1>2, <1>3, <1>5 DEF Locals
  <1>8. Sides(w)' /\ LinkCompletes(w)'
    BY <1>3, <1>6
    DEF Sides, LinkCompletes, ShopWriting, HubWriting, Writing, AtLink
  <1>9. RowKeys(w)'
    BY <1>1, <1>2, <1>3, <1>5, <1>6 DEF RowKeys, HasOwnKey, KnowsBothKeys
  <1> QED
    BY <1>1, <1>2, <1>4, <1>7, <1>8, <1>9 DEF WorkerStep, WorkerInv

(* A step from one phase of the writing to the next. *)
LEMMA WritingStep ==
  ASSUME SyncInv, NEW w \in Workers, phase[w] \in Writing, OnlyWrite(w),
         UNCHANGED <<storeVars, jobs, link>>,
         NEW p \in Writing, Go(w, p),
         p \in ShopWriting => FromHub(w), p \in HubWriting => ~FromHub(w),
         p # "lookHub", p = "updateHub" => dest'[w] \in HubIds,
         dest' \in [Workers -> Maybe(HubIds \cup ShopIds)],
         \A v \in Workers \ {w} : dest'[v] = dest[v]
  PROVE  WorkerStep(w)
  <1> USE DEF SyncInv, TypeOK
  <1>1. /\ TableStep /\ CountOK'
        /\ rows' = rows /\ made' = made /\ failed' = failed /\ job' = job
        /\ contact' = contact /\ row' = row /\ snap' = snap /\ other' = other
        /\ todo' = todo /\ FromHub(w)' = FromHub(w)
    BY OnlyWriteFacts
  <1>2. StoreOK' /\ QueueOK'
    BY <1>1 DEF StoreOK, QueueOK, storeVars
  <1>3. LocalsOK' /\ OthersSame(w) /\ phase'[w] = p
    <2>1. p \in Phases
      BY DEF Phases
    <2> QED
      BY <1>1, <2>1 DEF LocalsOK, OthersSame, SameAt, Go
  <1>4. /\ job[w] \in Job /\ contact[w].mail # None /\ row[w] <= made
        /\ row[w] \in Live(rows) => HasOwnKey(row[w], w)
    BY MiddleFacts DEF WorkerInv, Locals, RowKeys, KnowsOwnKey, Owned, Writing
  <1>5. Locals(w)'
    BY <1>1, <1>3, <1>4 DEF Locals, Writing
  <1>6. Sides(w)'
    BY <1>1, <1>3 DEF Sides, Writing, ShopWriting, HubWriting
  <1>7. LinkCompletes(w)'
    BY <1>3 DEF LinkCompletes, AtLink, Writing
  <1>8. RowKeys(w)'
    BY <1>1, <1>3, <1>4 DEF RowKeys, HasOwnKey, KnowsBothKeys, Writing
  <1> QED
    BY <1>1, <1>2, <1>3, <1>5, <1>6, <1>7, <1>8 DEF WorkerStep, WorkerInv

LEMMA LookHubStep ==
  ASSUME SyncInv, NEW w \in Workers, LookHub(w)
  PROVE  WorkerStep(w)
  <1> USE DEF SyncInv, TypeOK
  <1>1. /\ phase[w] = "lookHub" /\ OnlyWrite(w)
        /\ UNCHANGED <<storeVars, jobs, link>>
    BY DEF LookHub
  <1>2. phase[w] \in Writing /\ ~FromHub(w) /\ snap[w].hub \in HubIds
    <2>1. snap[w].hub # None /\ snap[w] \in Row
      BY <1>1 DEF WorkerInv, Locals, LocalsOK
    <2> QED
      BY <1>1, <2>1
      DEF Writing, HubWriting, ShopWriting, WorkerInv, Sides, Row, Maybe
  <1>3. CASE InHub(snap[w].hub)
    <2>1. dest' = [dest EXCEPT ![w] = snap[w].hub] /\ Go(w, "updateHub")
      BY <1>3 DEF LookHub
    <2>2. /\ dest' \in [Workers -> Maybe(HubIds \cup ShopIds)]
          /\ dest'[w] \in HubIds /\ \A v \in Workers \ {w} : dest'[v] = dest[v]
      BY <1>2, <2>1 DEF LocalsOK, Maybe
    <2> QED
      BY <1>1, <1>2, <2>1, <2>2, WritingStep DEF Writing, ShopWriting
  <1>4. CASE ~InHub(snap[w].hub)
    <2>1. dest' = dest /\ Go(w, "searchHub")
      BY <1>4 DEF LookHub
    <2>2. dest \in [Workers -> Maybe(HubIds \cup ShopIds)]
      BY DEF LocalsOK
    <2> QED
      BY <1>1, <1>2, <2>1, <2>2, WritingStep DEF Writing, ShopWriting
  <1> QED
    BY <1>3, <1>4

LEMMA SearchHubStep ==
  ASSUME SyncInv, NEW w \in Workers, SearchHub(w)
  PROVE  WorkerStep(w)
  <1> USE DEF SyncInv, TypeOK
  <1>1. /\ phase[w] = "searchHub" /\ OnlyWrite(w)
        /\ UNCHANGED <<storeVars, jobs, link>>
    BY DEF SearchHub
  <1>2. phase[w] \in Writing /\ ~FromHub(w)
    BY <1>1 DEF Writing, HubWriting, ShopWriting, WorkerInv, Sides
  <1>3. CASE dest' = dest /\ Go(w, "createHub")
    <2>1. dest \in [Workers -> Maybe(HubIds \cup ShopIds)]
      BY DEF LocalsOK
    <2> QED
      BY <1>1, <1>2, <1>3, <2>1, WritingStep DEF Writing, ShopWriting
  <1>4. ASSUME NEW h \in HubMail(contact[w].mail),
               dest' = [dest EXCEPT ![w] = h], Go(w, "updateHub")
        PROVE  WorkerStep(w)
    <2>1. h \in HubIds
      BY DEF HubMail
    <2>2. /\ dest' \in [Workers -> Maybe(HubIds \cup ShopIds)]
          /\ dest'[w] \in HubIds /\ \A v \in Workers \ {w} : dest'[v] = dest[v]
      BY <1>4, <2>1 DEF LocalsOK, Maybe
    <2> QED
      BY <1>1, <1>2, <1>4, <2>2, WritingStep DEF Writing, ShopWriting
  <1> QED
    BY <1>3, <1>4 DEF SearchHub

LEMMA CreateHubConflictStep ==
  ASSUME SyncInv, NEW w \in Workers, CreateHubConflict(w)
  PROVE  WorkerStep(w)
  <1> USE DEF SyncInv, TypeOK
  <1>1. /\ phase[w] = "createHub" /\ OnlyWrite(w) /\ Go(w, "updateHub")
        /\ UNCHANGED <<storeVars, jobs, link>>
    BY DEF CreateHubConflict
  <1>2. phase[w] \in Writing /\ ~FromHub(w)
    BY <1>1 DEF Writing, HubWriting, ShopWriting, WorkerInv, Sides
  <1>3. PICK h \in HubMail(contact[w].mail) : dest' = [dest EXCEPT ![w] = h]
    BY DEF CreateHubConflict
  <1>4. h \in HubIds
    BY DEF HubMail
  <1>5. /\ dest' \in [Workers -> Maybe(HubIds \cup ShopIds)]
        /\ dest'[w] \in HubIds /\ \A v \in Workers \ {w} : dest'[v] = dest[v]
    BY <1>3, <1>4 DEF LocalsOK, Maybe
  <1> QED
    BY <1>1, <1>2, <1>5, WritingStep DEF Writing, ShopWriting

LEMMA UserNotFoundStep ==
  ASSUME SyncInv, NEW w \in Workers, UserNotFound(w)
  PROVE  WorkerStep(w)
  <1> USE DEF SyncInv, TypeOK
  <1>1. /\ phase[w] = "updateShop" /\ OnlyWrite(w) /\ Go(w, "insertShop")
        /\ UNCHANGED <<storeVars, jobs, link>> /\ dest' = dest
    BY DEF UserNotFound
  <1>2. phase[w] \in Writing /\ FromHub(w)
    BY <1>1 DEF Writing, ShopWriting, WorkerInv, Sides
  <1>3. dest \in [Workers -> Maybe(HubIds \cup ShopIds)]
    BY DEF LocalsOK
  <1> QED
    BY <1>1, <1>2, <1>3, WritingStep DEF Writing, HubWriting, ShopWriting

(* A write, after which the worker links what it wrote to. *)
LEMMA WroteStep ==
  ASSUME SyncInv, NEW w \in Workers, phase[w] \in Writing, OnlyWrite(w),
         StoreOK', jobs' \subseteq Job,
         NEW d \in HubIds \cup ShopIds, NEW l \in Link,
         FromHub(w) => l.mail # None, ~FromHub(w) => l.hub # None,
         dest' = [dest EXCEPT ![w] = d], link' = [link EXCEPT ![w] = l],
         Go(w, "link")
  PROVE  WorkerStep(w)
  <1> USE DEF SyncInv, TypeOK
  <1>1. /\ TableStep /\ CountOK'
        /\ rows' = rows /\ made' = made /\ failed' = failed /\ job' = job
        /\ contact' = contact /\ row' = row /\ snap' = snap /\ other' = other
        /\ todo' = todo /\ FromHub(w)' = FromHub(w)
    BY OnlyWriteFacts
  <1>2. QueueOK'
    BY <1>1 DEF QueueOK
  <1>3. /\ LocalsOK' /\ OthersSame(w)
        /\ phase'[w] = "link" /\ dest'[w] = d /\ link'[w] = l
    <2>1. "link" \in Phases /\ d \in Maybe(HubIds \cup ShopIds)
      BY DEF Phases, Linking, Maybe
    <2> QED
      BY <1>1, <2>1 DEF LocalsOK, OthersSame, SameAt, Go
  <1>4. /\ job[w] \in Job /\ contact[w].mail # None /\ row[w] <= made
        /\ row[w] \in Live(rows) => HasOwnKey(row[w], w)
    BY MiddleFacts DEF WorkerInv, Locals, RowKeys, KnowsOwnKey, Owned, Writing
  <1>5. d # None
    BY ConstantFacts
  <1>6. Locals(w)'
    BY <1>1, <1>3, <1>4 DEF Locals
  <1>7. Sides(w)'
    BY <1>3 DEF Sides, Writing, ShopWriting, HubWriting
  <1>8. LinkCompletes(w)'
    BY <1>1, <1>3, <1>5 DEF LinkCompletes
  <1>9. RowKeys(w)'
    BY <1>1, <1>3, <1>4 DEF RowKeys, HasOwnKey, KnowsBothKeys
  <1> QED
    BY <1>1, <1>2, <1>3, <1>6, <1>7, <1>8, <1>9 DEF WorkerStep, WorkerInv

LEMMA WroteHubStep ==
  ASSUME SyncInv, NEW w \in Workers, phase[w] \in HubWriting,
         phase[w] # "lookHub", NEW h \in HubIds,
         SaveHub(h, ToHub(contact[w])), WroteHub(w, h), UNCHANGED shop,
         OnlyWrite(w)
  PROVE  WorkerStep(w)
  <1> USE DEF SyncInv, TypeOK
  <1>1. phase[w] \in Writing /\ ~FromHub(w) /\ phase[w] \notin {"idle", "hydrate"}
    BY DEF HubWriting, Writing, WorkerInv, Sides
  <1>2. /\ contact[w] \in Contact /\ contact[w].mail \in Maybe(Mails)
        /\ contact[w].ox \in Maybe(ShopIds) /\ contact[w].name \in Maybe(Names)
    BY <1>1, MiddleFacts DEF Contact
  <1>3. ToHub(contact[w]) \in HubContact
    BY <1>2 DEF ToHub, HubContact
  <1>4. StoreOK' /\ jobs' \subseteq Job
    BY <1>3, SaveHubFacts DEF StoreOK
  <1> DEFINE l == [NoLink EXCEPT !.hub = h, !.ox = contact[w].ox]
  <1>5. l \in Link /\ l.hub # None
    BY <1>2, ConstantFacts DEF NoLink, Link, Maybe
  <1>6. /\ dest' = [dest EXCEPT ![w] = h] /\ link' = [link EXCEPT ![w] = l]
        /\ Go(w, "link")
    BY DEF WroteHub
  <1> HIDE DEF l
  <1> QED
    BY <1>1, <1>4, <1>5, <1>6, WroteStep

LEMMA WroteShopStep ==
  ASSUME SyncInv, NEW w \in Workers, phase[w] \in ShopWriting,
         NEW u \in ShopIds, NEW new \in ShopUser, SaveShop(u, new),
         WroteShop(w, u), UNCHANGED hub, OnlyWrite(w)
  PROVE  WorkerStep(w)
  <1> USE DEF SyncInv, TypeOK
  <1>1. phase[w] \in Writing /\ FromHub(w) /\ phase[w] \notin {"idle", "hydrate"}
    BY DEF ShopWriting, Writing, WorkerInv, Sides
  <1>2. contact[w].mail \in Maybe(Mails) /\ contact[w].mail # None
    BY <1>1, MiddleFacts
  <1>3. StoreOK' /\ jobs' \subseteq Job
    BY SaveShopFacts DEF StoreOK
  <1> DEFINE l == [NoLink EXCEPT !.mail = contact[w].mail, !.ox = u]
  <1>4. l \in Link /\ l.mail # None
    BY <1>2 DEF NoLink, Link, Maybe
  <1>5. /\ dest' = [dest EXCEPT ![w] = u] /\ link' = [link EXCEPT ![w] = l]
        /\ Go(w, "link")
    BY DEF WroteShop
  <1> HIDE DEF l
  <1> QED
    BY <1>1, <1>3, <1>4, <1>5, WroteStep

LEMMA CreateHubStep ==
  ASSUME SyncInv, NEW w \in Workers, NEW h \in HubIds, CreateHub(w, h)
  PROVE  WorkerStep(w)
  BY WroteHubStep DEF CreateHub, HubWriting, ShopWriting, Writing

LEMMA UpdateHubStep ==
  ASSUME SyncInv, NEW w \in Workers, UpdateHub(w)
  PROVE  WorkerStep(w)
  <1>1. dest[w] \in HubIds
    BY DEF UpdateHub, SyncInv, WorkerInv, Locals
  <1> QED
    BY <1>1, WroteHubStep DEF UpdateHub, HubWriting, ShopWriting, Writing

(* What an update sends to a user of the shop. *)
LEMMA ToShopFacts ==
  ASSUME NEW c \in Contact, NEW user \in ShopUser
  PROVE  ToShop(c, user) \in ShopUser
  <1>1. /\ user.mail \in Mails /\ user.name \in Maybe(Names)
        /\ user.firm \in Maybe(Firms)
        /\ c.name \in Maybe(Names) /\ c.firm \in Maybe(Firms)
    BY DEF ShopUser, Contact
  <1>2. /\ Else(c.name, user.name) \in Maybe(Names)
        /\ Else(c.firm, user.firm) \in Maybe(Firms)
    BY <1>1, ElseFacts
  <1> QED
    BY <1>1, <1>2 DEF ToShop, ShopUser

LEMMA UpdateShopStep ==
  ASSUME SyncInv, NEW w \in Workers, UpdateShop(w)
  PROVE  WorkerStep(w)
  <1>1. phase[w] = "updateShop" /\ UNCHANGED hub /\ OnlyWrite(w)
    BY DEF UpdateShop
  <1>2. PICK u \in Users(w) :
          SaveShop(u, ToShop(contact[w], shop[u])) /\ WroteShop(w, u)
    BY DEF UpdateShop
  <1>3. contact[w] \in Contact /\ RecordId(w) \in Maybe(ShopIds)
    <2>1. contact[w] \in Contact /\ contact[w].ox \in Maybe(ShopIds)
      BY <1>1, MiddleFacts
    <2>2. snap[w].ox \in Maybe(ShopIds)
      BY DEF SyncInv, TypeOK, LocalsOK, Row
    <2> QED
      BY <2>1, <2>2, ElseFacts DEF RecordId
  <1>4. u \in ShopIds /\ InShop(u)
    BY <1>3 DEF Users, ShopMail, Maybe
  <1>5. ToShop(contact[w], shop[u]) \in ShopUser
    BY <1>3, <1>4, ShopRecord, ToShopFacts DEF SyncInv, TypeOK
  <1> QED
    BY <1>1, <1>2, <1>4, <1>5, WroteShopStep DEF ShopWriting

LEMMA InsertShopStep ==
  ASSUME SyncInv, NEW w \in Workers, NEW u \in ShopIds, InsertShop(w, u)
  PROVE  WorkerStep(w)
  <1> DEFINE blank == [mail |-> contact[w].mail, name |-> None, firm |-> None]
  <1>1. /\ phase[w] = "insertShop" /\ SaveShop(u, ToShop(contact[w], blank))
        /\ WroteShop(w, u) /\ UNCHANGED hub /\ OnlyWrite(w)
    BY DEF InsertShop
  <1>2. contact[w] \in Contact /\ contact[w].mail \in Mails
    BY <1>1, MiddleFacts DEF Maybe
  <1>3. blank \in ShopUser
    BY <1>2 DEF ShopUser, Maybe
  <1> HIDE DEF blank
  <1>4. ToShop(contact[w], blank) \in ShopUser
    BY <1>2, <1>3, ToShopFacts
  <1> QED
    BY <1>1, <1>4, WroteShopStep DEF ShopWriting

LEMMA RecordSyncStep ==
  ASSUME SyncInv, NEW w \in Workers, RecordSync(w)
  PROVE  WorkerStep(w)
  <1> USE DEF SyncInv, TypeOK
  <1>1. StoreOK' /\ QueueOK' /\ CountOK'
        /\ job' = job /\ contact' = contact /\ dest' = dest
    BY OnlyMatchFacts DEF RecordSync
  <1>2. /\ phase[w] = "record" /\ phase'[w] = "finish" /\ row'[w] = row[w]
        /\ made' = made /\ rows' = Record(rows, row[w], contact[w])
    BY DEF RecordSync, Go, LocalsOK, matchVars
  <1>3. /\ job[w] \in Job /\ contact[w] \in Contact /\ contact[w].mail # None
        /\ row[w] <= made /\ row[w] \in RowIds \cup {NoRow}
        /\ row[w] \in Live(rows) =>
             rows[row[w]].hub # None /\ rows[row[w]].mail # None
    BY <1>2, MiddleFacts
    DEF WorkerInv, Locals, RowKeys, KnowsBothKeys, LocalsOK
  <1>4. /\ rows' \in Tables /\ Live(rows') = Live(rows)
        /\ KeepsKeys(rows, rows') /\ LinkedTable(rows')
    BY <1>2, <1>3, RecordFacts, SyncedIsLinkedTable DEF TableOK
  <1>5. TableStep
    BY <1>2, <1>4, SameRows
  <1>6. LocalsOK' /\ OthersSame(w)
    <2>1. "finish" \in Phases
      BY DEF Phases
    <2> QED
      BY <1>1, <2>1
      DEF RecordSync, LocalsOK, OthersSame, SameAt, Go, matchVars, linkVars
  <1>7. Locals(w)'
    BY <1>1, <1>2, <1>3 DEF Locals
  <1>8. Sides(w)' /\ LinkCompletes(w)'
    BY <1>2 DEF Sides, LinkCompletes, ShopWriting, HubWriting, Writing, AtLink
  <1>9. RowKeys(w)'
    BY <1>2 DEF RowKeys, KnowsOwnKey, KnowsBothKeys, Owned, Writing, AtLink
  <1> QED
    BY <1>1, <1>5, <1>6, <1>7, <1>8, <1>9 DEF WorkerStep, WorkerInv

-----------------------------------------------------------------------------
(* The invariant and what it implies.                                      *)

LEMMA SyncInvInit == Init => SyncInv
  <1> SUFFICES ASSUME Init PROVE SyncInv
    OBVIOUS
  <1>1. StoreOK /\ QueueOK
    BY DEF Init, StoreOK, QueueOK
  <1>2. TableOK
    BY ConstantFacts DEF Init, TableOK, Tables
  <1>3. LocalsOK
    <2>1. /\ NoContact \in Contact /\ BlankRow \in Row /\ NoLink \in Link
          /\ None \in Maybe(HubIds \cup ShopIds) /\ "idle" \in Phases
      BY DEF NoContact, Contact, BlankRow, Row, NoLink, Link, Maybe, Phases
    <2> QED
      BY <2>1 DEF Init, LocalsOK
  <1>4. CountOK
    BY ConstantFacts DEF Init, CountOK, Maybe
  <1>5. Live(rows) = {} /\ made = 0
    BY DEF Init, Live
  <1>6. ASSUME NEW w \in Workers PROVE WorkerInv(w)
    <2>1. /\ phase[w] = "idle" /\ row[w] = NoRow /\ dest[w] = None
      BY DEF Init
    <2>2. Locals(w)
      BY <1>5, <2>1 DEF Locals, NoRow
    <2>3. Sides(w) /\ LinkCompletes(w)
      BY <2>1
      DEF Sides, LinkCompletes, ShopWriting, HubWriting, Writing, AtLink
    <2>4. RowKeys(w)
      BY <1>5 DEF RowKeys
    <2> QED
      BY <2>2, <2>3, <2>4 DEF WorkerInv
  <1> QED
    BY <1>1, <1>2, <1>3, <1>4, <1>5, <1>6
    DEF SyncInv, TypeOK, RowsAreMade, SyncedRowsAreLinked

(* Neither table nor worker is touched by what people do. *)
LEMMA PeopleStepInv ==
  ASSUME SyncInv, TypeOK', UNCHANGED <<tableVars, phase, localVars>>
  PROVE  SyncInv'
  <1> USE DEF SyncInv, TypeOK
  <1>1. TableStep
    BY SameTable
  <1>2. ASSUME NEW v \in Workers PROVE WorkerInv(v)'
    BY <1>1, WorkerStays DEF TableStep, SameAt, localVars, matchVars, linkVars
  <1> QED
    BY <1>1, <1>2 DEF TableStep

LEMMA MatchStep ==
  ASSUME SyncInv, NEW w \in Workers, Match(w)
  PROVE  WorkerStep(w)
  BY FindFirstStep, FindSecondStep, MergeFoundStep, InsertStep,
     InsertClashStep,
     RacedStep, EndStep DEF Match

LEMMA LinkCounterpartStep ==
  ASSUME SyncInv, NEW w \in Workers, LinkCounterpart(w)
  PROVE  WorkerStep(w)
  BY LinkRowStep, CollideStep, AbsorbStep, RelinkStep, LinkedStep, RereadStep
  DEF LinkCounterpart

LEMMA WriteStep ==
  ASSUME SyncInv, NEW w \in Workers, WriteToHubspot(w) \/ WriteToOxid(w)
  PROVE  WorkerStep(w)
  BY LookHubStep, SearchHubStep, CreateHubStep, CreateHubConflictStep,
     UpdateHubStep, UpdateShopStep, UserNotFoundStep, InsertShopStep, EndStep
  DEF WriteToHubspot, WriteToOxid

LEMMA SyncContactStep ==
  ASSUME SyncInv, NEW w \in Workers, SyncContact(w)
  PROVE  WorkerStep(w)
  BY ClaimStep, HydrateStep, MatchStep, LinkCounterpartStep, ProceedStep,
     WriteStep, RecordSyncStep, EndStep DEF SyncContact

LEMMA SyncInvStep == SyncInv /\ [Next]_vars => SyncInv'
  <1> SUFFICES ASSUME SyncInv, [Next]_vars PROVE SyncInv'
    OBVIOUS
  <1>1. ASSUME NEW h \in HubIds, HubUser(h) PROVE SyncInv'
    BY <1>1, HubUserStep, PeopleStepInv DEF SyncInv
  <1>2. ASSUME NEW u \in ShopIds, ShopUserStep(u) PROVE SyncInv'
    BY <1>2, ShopUserStepFacts, PeopleStepInv DEF SyncInv
  <1>3. ASSUME NEW w \in Workers, SyncContact(w) PROVE SyncInv'
    BY <1>3, SyncContactStep, WorkerStepInv
  <1>4. ASSUME NEW w \in Workers, Fail(w) PROVE SyncInv'
    BY <1>4, FailStep, WorkerStepInv
  <1>5. CASE UNCHANGED vars
    <2>1. TypeOK'
      BY <1>5 DEF vars, storeVars, tableVars, queueVars, localVars, matchVars,
         linkVars, countVars, SyncInv, TypeOK, StoreOK, TableOK, QueueOK, LocalsOK,
         CountOK
    <2> QED
      BY <1>5, <2>1, PeopleStepInv DEF vars
  <1> QED
    BY <1>1, <1>2, <1>3, <1>4, <1>5 DEF Next

(* The invariant that the theorems below rest on holds in every reachable  *)
(* state: what a worker of syncContact has found, created or written       *)
(* stays true of its row, whatever the other workers merge and link.       *)
THEOREM SyncInvHolds == Spec => []SyncInv
  BY SyncInvInit, SyncInvStep, PTL DEF Spec

(* Every variable keeps to its type: in particular no row is created       *)
(* without a column, no job is queued that names nothing, and a worker     *)
(* that writes knows the record it writes to (syncContact.ts).             *)
THEOREM ContactTypeCorrect == Spec => []TypeOK
  <1>1. SyncInv => TypeOK
    BY DEF SyncInv
  <1> QED
    BY <1>1, SyncInvHolds, PTL

(* A mapping row with a sync hash names both the HubSpot contact and the   *)
(* email of the shop user, for any number of workers, records, failures    *)
(* and merges: the loop guard never skips a contact that has no            *)
(* counterpart (linkCounterpart before recordSync, mergeMappings).         *)
THEOREM SyncedRowsAreLinkedHolds == Spec => []SyncedRowsAreLinked
  <1>1. SyncInv => SyncedRowsAreLinked
    BY DEF SyncInv
  <1> QED
    BY <1>1, SyncInvHolds, PTL

LEMMA KeysStayStep == SyncInv /\ [Next]_vars => KeepsKeys(rows, rows')
  <1> SUFFICES ASSUME SyncInv, [Next]_vars PROVE KeepsKeys(rows, rows')
    OBVIOUS
  <1>1. CASE rows' = rows
    BY <1>1 DEF KeepsKeys
  <1>2. ASSUME NEW w \in Workers, WorkerStep(w) PROVE KeepsKeys(rows, rows')
    BY <1>2 DEF WorkerStep, TableStep, RowsGrow
  <1>3. ASSUME NEW h \in HubIds, HubUser(h) PROVE rows' = rows
    BY <1>3, HubUserStep DEF SyncInv, tableVars
  <1>4. ASSUME NEW u \in ShopIds, ShopUserStep(u) PROVE rows' = rows
    BY <1>4, ShopUserStepFacts DEF SyncInv, tableVars
  <1>5. UNCHANGED vars => rows' = rows
    BY DEF vars, tableVars
  <1>6. ASSUME NEW w \in Workers, SyncContact(w) \/ Fail(w) PROVE WorkerStep(w)
    BY <1>6, SyncContactStep, FailStep
  <1> QED
    BY <1>1, <1>2, <1>3, <1>4, <1>5, <1>6 DEF Next

(* A mapping row that is there, and still there after a step, has lost     *)
(* neither its HubSpot id nor its email: updateMany keeps the columns it   *)
(* is not given, and a merge fills the kept row from the absorbed one      *)
(* (entityMappings.ts).                                                    *)
THEOREM KeysStay == Spec => [][KeepsKeys(rows, rows')]_vars
  BY SyncInvHolds, KeysStayStep, PTL DEF Spec
=============================================================================
