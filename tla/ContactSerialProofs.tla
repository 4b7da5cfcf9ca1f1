-------------------------- MODULE ContactSerialProofs --------------------------
(***************************************************************************)
(* With one worker and no failure, the two records of a person agree in    *)
(* the end, what the loop guard skips had nothing to do, and the last edit *)
(* prevails: for any number of people, records and edits.                  *)
(*                                                                         *)
(* The hash of a person's row is what relates the two records: each side   *)
(* holds what was hashed, or has a job to tell.                            *)
(***************************************************************************)
EXTENDS ContactPersonProofs

(* One job at a time, nothing fails, and the shop pushes every save: one   *)
(* of the two the contract of the shop module allows, and the only one     *)
(* that answers a write of ours which leaves out an emptied value.         *)
Serial ==
  /\ \A v, w \in Workers : v = w
  /\ MaxFaults = 0
  /\ PushAlways

Waits(side, id) == \E j \in jobs : j.side = side /\ j.id = id

Working(side, id) == \E w \in Workers : job[w].side = side /\ job[w].id = id

(* The queue holds one job of a key, that of the shop with the newest      *)
(* record.                                                                 *)
OneJobEach ==
  \A i, j \in jobs : i.side = j.side /\ i.id = j.id => i = j

OneUserEach ==
  \A m \in Mails : \A u, v \in ShopIds :
    ShopOf(shop, m, u) /\ ShopOf(shop, m, v) => u = v

HasUser(m) == \E u \in ShopIds : ShopOf(shop, m, u)

(* The user of person m is as record c has it. *)
ShopIs(m, c) ==
  \A u \in ShopIds : ShopOf(shop, m, u) => Payload(u, shop[u]) = c

NewestWaits ==
  \A j \in jobs : j.side = "shop" => HasUser(j.id) /\ ShopIs(j.id, j.body)

(* A row is whole once it was hashed; the one in hand may still become it. *)
Whole(r) == rows[r].hub # None /\ rows[r].mail # None /\ rows[r].hash # None

RowsWhole ==
  \A r \in Live(rows) :
    Whole(r) \/ \E w \in Workers : row[w] = r /\ phase[w] # "finish"

HashedHasUser ==
  \A r \in Live(rows) : rows[r].hash # None => HasUser(rows[r].mail)

Hashed(m, c) ==
  c # None /\ \E r \in Live(rows) : rows[r].mail = m /\ rows[r].hash = c

HashedHub(m, record) == \E c \in Contact : Hashed(m, c) /\ record = ToHub(c)

(* Each record holds what was hashed, or a job is there to tell.           *)
HubHashed ==
  \A m \in Mails : \A h \in HubIds : HubOf(hub, m, h) =>
    Waits("hub", h) \/ Working("hub", h) \/ HashedHub(m, hub[h])

ShopHashed ==
  \A m \in Mails : \A u \in ShopIds : ShopOf(shop, m, u) =>
    Waits("shop", m) \/ Working("shop", m) \/ Hashed(m, Payload(u, shop[u]))

HubTells(m, c) ==
  \A h \in HubIds : HubOf(hub, m, h) => hub[h] = ToHub(c) \/ Waits("hub", h)

ShopTells(m, c) == ShopIs(m, c) \/ Waits("shop", m)

Begun == {"findFirst", "findSecond", "insert"}
Sent == {"link", "linked", "record", "finish"}
Fetched == {"guard"} \cup Writing \cup Sent

(* What a worker took from its source, and what it sent to the other       *)
(* system, is still there, or a job waits.                                 *)
SourceTells(w) ==
  LET m == contact[w].mail
  IN /\ phase[w] # "idle" /\ ~FromHub(w) => HasUser(job[w].id)
     /\ phase[w] = "hydrate" /\ ~FromHub(w) =>
          ShopTells(job[w].id, job[w].body)
     /\ phase[w] \in Begun \cup Fetched =>
          IF FromHub(w) THEN HubTells(m, contact[w])
                        ELSE ShopTells(m, contact[w])

SentTells(w) ==
  LET m == contact[w].mail
  IN phase[w] \in Sent =>
       /\ HasUser(m)
       /\ IF FromHub(w) THEN ShopTells(m, contact[w])
                        ELSE HubTells(m, contact[w])

(* Its row is the only one of its person, as it was read; nothing is       *)
(* merged, adopted or raced for.                                           *)
RowInHand(w) ==
  /\ phase[w] \in {"idle", "hydrate"} \cup Begun \cup Fetched
  /\ phase[w] = "idle" => row[w] = NoRow
  /\ phase[w] = "insert" => row[w] = NoRow
  /\ phase[w] = "findSecond" => row[w] \in Live(rows) \cup {NoRow}
  /\ phase[w] \in Fetched => row[w] \in Live(rows)
  /\ phase[w] \in Sent => dest[w] # None
  /\ phase[w] \in {"findSecond", "insert"} \cup Fetched =>
       \A r \in Live(rows) \ {row[w]} : rows[r].mail # contact[w].mail
  /\ phase[w] \in {"findSecond", "guard"} /\ row[w] # NoRow =>
       snap[w] = rows[row[w]]
  /\ phase[w] = "finish" =>
       Whole(row[w]) /\ rows[row[w]].hash = contact[w]

SerialWorker(w) == SourceTells(w) /\ SentTells(w) /\ RowInHand(w)

InStep ==
  /\ OneJobEach /\ OneUserEach /\ NewestWaits
  /\ RowsWhole /\ HashedHasUser
  /\ HubHashed /\ ShopHashed
  /\ \A w \in Workers : SerialWorker(w)

SerialInv == failed = {} => InStep

-----------------------------------------------------------------------------
(* What the ghosts say of the followed person: the system it was edited in *)
(* leads, and no job of the other one has anything to say against it.      *)

TheContact(h) == HubOf(hub, Followed, h)
TheUser(u) == ShopOf(shop, Followed, u)

Unknown ==
  /\ \A h \in HubIds : ~TheContact(h)
  /\ \A u \in ShopIds : ~TheUser(u)

(* Record c is what the hash of the row is of, or is about to be of. *)
Sends(w) ==
  phase[w] \in {"link", "linked", "record"} /\ contact[w].mail = Followed

Told(c) ==
  \/ \E w \in Workers : Sends(w) /\ contact[w] = c
  \/ (\A w \in Workers : ~Sends(w)) /\ Hashed(Followed, c)

(* The loop guard will skip every job of the shop. *)
HubLeads ==
  /\ \E h \in HubIds : TheContact(h)
  /\ \A h \in HubIds : TheContact(h) => hub[h].name = last
  /\ \A j \in jobs : j.side = "shop" /\ j.id = Followed => Told(j.body)
  /\ \A w \in Workers : job[w].side = "shop" /\ job[w].id = Followed =>
       /\ Told(job[w].body)
       /\ phase[w] \in {"hydrate", "findFirst", "insert", "guard"}

(* The loop guard will skip every job of HubSpot, or the shop's answer to  *)
(* its write carries the company and is distorted.                         *)
HasFirm == \A u \in ShopIds : TheUser(u) => shop[u].firm # None

ShopLeads ==
  /\ \E u \in ShopIds : TheUser(u)
  /\ \A u \in ShopIds : TheUser(u) => shop[u].name = last
  /\ \A h \in HubIds : TheContact(h) /\ (Waits("hub", h) \/ Working("hub", h)) =>
       Told(FromHubContact(hub[h])) \/ HasFirm
  /\ \A w \in Workers : FromHub(w) /\ TheContact(job[w].id) =>
       /\ phase[w] \in {"hydrate", "findFirst", "findSecond", "insert", "guard",
                        "updateShop"}
       /\ phase[w] # "hydrate" => contact[w] = FromHubContact(hub[job[w].id])
       /\ phase[w] = "updateShop" => HasFirm

(* The contact in hand is the record of the job, and that of HubSpot has   *)
(* no company; the company of a user never changes.                        *)
HandIsSource(w) ==
  phase[w] \notin {"idle", "hydrate"} =>
    IF FromHub(w) THEN contact[w].firm = None ELSE contact[w] = job[w].body

FirmStays ==
  \A u \in ShopIds : There(shop[u]) =>
    /\ \A c \in Contact :
         Hashed(shop[u].mail, c) => c.firm \in {None, shop[u].firm}
    /\ \A w \in Workers : job[w].side = "shop" /\ job[w].id = shop[u].mail =>
         job[w].body.firm = shop[u].firm

SourceInv == (\A w \in Workers : HandIsSource(w)) /\ FirmStays

LeadInv ==
  /\ touched = {} => Unknown
  /\ touched = {"hub"} => HubLeads
  /\ touched = {"shop"} => ShopLeads

LastEditInv ==
  /\ Followed = None => touched = {}
  /\ Followed # None /\ failed = {} => SourceInv /\ LeadInv

-----------------------------------------------------------------------------
(* One job at a time: the queue and the two systems.                       *)

Only(w) == \A v \in Workers : v = w

LEMMA QueuedOnce ==
  ASSUME OneJobEach, NEW j, jobs' \in Queued(j)
  PROVE  /\ OneJobEach' /\ j \in jobs'
         /\ \A side, id : Waits(side, id) => Waits(side, id)'
         /\ \A i \in jobs' : \/ i = j
                             \/ i \in jobs /\ ~(i.side = j.side /\ i.id = j.id)
  <1> DEFINE same == {i \in jobs : i.side = j.side /\ i.id = j.id}
  <1>1. CASE same = {}
    <2>1. jobs' = jobs \cup {j}
      BY <1>1 DEF Queued
    <2> QED
      BY <1>1, <2>1 DEF OneJobEach, Waits
  <1>2. CASE same # {}
    <2>1. PICK i \in same : jobs' = (jobs \ {i}) \cup {j}
      BY <1>2 DEF Queued
    <2>2. i \in jobs /\ i.side = j.side /\ i.id = j.id
      OBVIOUS
    <2>3. \A k \in jobs : k.side = j.side /\ k.id = j.id => k = i
      BY <2>2 DEF OneJobEach
    <2> HIDE DEF same
    <2> QED
      BY <2>1, <2>2, <2>3 DEF OneJobEach, Waits
  <1> QED
    BY <1>1, <1>2

LEMMA UsersStay ==
  ASSUME StoresGrow(hub, shop, hub', shop')
  PROVE  \A m : HasUser(m) => HasUser(m)'
  BY DEF StoresGrow, HasUser, ShopOf

(* A contact is saved, or reported once more: who had an up-to-date copy   *)
(* of a contact still has one, or a job waits.                             *)
LEMMA HubSaved ==
  ASSUME InStep, PersonInv, NEW h \in HubIds, NEW new,
         hub'[h] = new, \A g \in HubIds \ {h} : hub'[g] = hub[g],
         \/ jobs' \in Queued([side |-> "hub", id |-> h])
         \/ jobs' = jobs /\ hub[h] = new,
         UNCHANGED <<shop, rows, job>>, OneEach(hub', shop')
  PROVE  /\ OneJobEach' /\ OneUserEach' /\ NewestWaits'
         /\ HubHashed' /\ ShopHashed'
         /\ \A n : \A m \in Mails : HubTells(m, n) => HubTells(m, n)'
         /\ \A m, n : ShopTells(m, n) => ShopTells(m, n)'
         /\ \A c : \A m \in Mails :
              HubOf(hub', m, h) /\ new = ToHub(c) => HubTells(m, c)'
  <1> DEFINE j == [side |-> "hub", id |-> h]
  <1>1. shop' = shop /\ rows' = rows /\ job' = job
    OBVIOUS
  <1>2. /\ OneJobEach' /\ \A side, id : Waits(side, id) => Waits(side, id)'
        /\ hub[h] = new \/ Waits("hub", h)'
        /\ \A i \in jobs' : i.side = "shop" => i \in jobs
    <2>1. CASE jobs' \in Queued(j)
      BY <2>1, QueuedOnce DEF InStep, Waits
    <2>2. CASE jobs' = jobs /\ hub[h] = new
      BY <2>2 DEF InStep, OneJobEach, Waits
    <2> QED
      BY <2>1, <2>2
  <1>3. OneUserEach' /\ NewestWaits'
    BY <1>1, <1>2 DEF InStep, OneUserEach, NewestWaits, HasUser, ShopIs,
                      Payload
  <1>4. ASSUME NEW m \in Mails, NEW n, HubTells(m, n)
        PROVE  HubTells(m, n)'
    BY <1>2, <1>4 DEF HubTells, HubOf
  <1>5. ASSUME NEW c, NEW m \in Mails, HubOf(hub', m, h), new = ToHub(c)
        PROVE  HubTells(m, c)'
    BY <1>5 DEF HubTells, OneEach
  <1>6. HubHashed'
    <2>1. SUFFICES ASSUME NEW m \in Mails, NEW g \in HubIds, HubOf(hub', m, g),
                          NEW n, n = hub'[g]
                   PROVE  \/ Waits("hub", g)' \/ Working("hub", g)'
                          \/ HashedHub(m, n)'
      BY DEF HubHashed, HubOf, HashedHub, Hashed
    <2>2. CASE hub'[g] = hub[g]
      <3>1. HubOf(hub, m, g)
        BY <2>1, <2>2 DEF HubOf
      <3>2. Waits("hub", g) \/ Working("hub", g) \/ HashedHub(m, hub[g])
        BY <3>1 DEF InStep, HubHashed, HashedHub
      <3> QED
        BY <1>1, <1>2, <2>1, <2>2, <3>2 DEF Working, HashedHub, Hashed
    <2>3. CASE hub'[g] # hub[g]
      <3>1. g = h
        BY <2>3
      <3> QED
        BY <1>2, <2>3, <3>1
    <2> QED
      BY <2>2, <2>3
  <1>7. ShopHashed'
    BY <1>1, <1>2 DEF InStep, ShopHashed, Working, Hashed, Payload
  <1>8. \A m, n : ShopTells(m, n) => ShopTells(m, n)'
    BY <1>1, <1>2 DEF ShopTells, ShopIs, Payload
  <1> QED
    BY <1>2, <1>3, <1>4, <1>5, <1>6, <1>7, <1>8

(* A user is saved and pushed. *)
LEMMA ShopPushed ==
  ASSUME InStep, NEW u \in ShopIds, NEW new \in ShopUser, PushShop(u, new),
         shop'[u] = new, \A v \in ShopIds \ {u} : shop'[v] = shop[v],
         UNCHANGED <<hub, rows, job>>,
         There(shop[u]) => new.mail = shop[u].mail,
         ~There(shop[u]) => ShopMail(new.mail) = {}
  PROVE  /\ OneJobEach' /\ OneUserEach' /\ NewestWaits'
         /\ HubHashed' /\ ShopHashed'
         /\ \A n : \A m \in Mails : HubTells(m, n) => HubTells(m, n)'
         /\ \A m, n : ShopTells(m, n) => ShopTells(m, n)'
         /\ \A n : ShopTells(new.mail, n)'
         /\ ShopOf(shop', new.mail, u)
  <1> DEFINE j == [side |-> "shop", id |-> new.mail, body |-> Payload(u, new)]
  <1>1. /\ shop'[u] = new /\ \A v \in ShopIds \ {u} : shop'[v] = shop[v]
        /\ hub' = hub /\ rows' = rows /\ job' = job
    OBVIOUS
  <1>2. jobs' \in Queued(j) /\ j.side = "shop" /\ j.id = new.mail
        /\ j.body = Payload(u, new)
    BY DEF PushShop
  <1> HIDE DEF j
  <1>3. /\ OneJobEach' /\ Waits("shop", new.mail)'
        /\ \A side, id : Waits(side, id) => Waits(side, id)'
        /\ \A i \in jobs' : \/ i = j
                            \/ i \in jobs /\ ~(i.side = j.side /\ i.id = j.id)
    BY <1>2, QueuedOnce DEF InStep, Waits
  <1>4. There(new)
    BY RecordAssumption DEF There
  <1>5. /\ ShopOf(shop', new.mail, u)
        /\ \A v \in ShopIds \ {u} : ~ShopOf(shop, new.mail, v)
    <2>1. CASE There(shop[u])
      BY <1>1, <1>4, <2>1 DEF InStep, OneUserEach, ShopOf, ShopUser
    <2>2. CASE ~There(shop[u])
      BY <1>1, <1>4, <2>2 DEF ShopMail, ShopOf, InShop, There
    <2> QED
      BY <2>1, <2>2
  <1>6. \A m, v : v # u \/ m # new.mail =>
          (ShopOf(shop', m, v) <=> v # u /\ ShopOf(shop, m, v))
    BY <1>1 DEF ShopOf
  <1>7. OneUserEach'
    <2>1. SUFFICES ASSUME NEW m \in Mails, NEW v \in ShopIds, NEW x \in ShopIds,
                          ShopOf(shop', m, v), ShopOf(shop', m, x)
                   PROVE  v = x
      BY DEF OneUserEach
    <2>2. CASE m = new.mail
      BY <1>5, <1>6, <2>1, <2>2
    <2>3. CASE m # new.mail
      <3>1. ShopOf(shop, m, v) /\ ShopOf(shop, m, x)
        BY <1>6, <2>1, <2>3
      <3> QED
        BY <3>1 DEF InStep, OneUserEach
    <2> QED
      BY <2>2, <2>3
  <1>8. NewestWaits'
    <2>1. ASSUME NEW i \in jobs', i.side = "shop"
          PROVE  HasUser(i.id)' /\ ShopIs(i.id, i.body)'
      <3>1. CASE i = j
        BY <1>1, <1>2, <1>5, <1>6, <3>1 DEF HasUser, ShopIs, Payload
      <3>2. CASE i # j
        <4>1. i \in jobs /\ i.id # new.mail
          BY <1>2, <1>3, <2>1, <3>2
        <4>2. HasUser(i.id) /\ ShopIs(i.id, i.body)
          BY <2>1, <4>1 DEF InStep, NewestWaits
        <4>3. ~ShopOf(shop, i.id, u)
          BY <4>1 DEF ShopOf
        <4> QED
          BY <1>1, <1>6, <4>1, <4>2, <4>3 DEF HasUser, ShopIs, Payload
      <3> QED
        BY <3>1, <3>2
    <2> QED
      BY <2>1 DEF NewestWaits
  <1>9. \A m, n : ShopTells(m, n) => ShopTells(m, n)'
    BY <1>1, <1>3, <1>6 DEF ShopTells, ShopIs, Payload
  <1>10. ShopHashed'
    <2>1. SUFFICES ASSUME NEW m \in Mails, NEW v \in ShopIds, ShopOf(shop', m, v),
                          NEW n, n = Payload(v, shop'[v])
                   PROVE  \/ Waits("shop", m)' \/ Working("shop", m)'
                          \/ Hashed(m, n)'
      BY DEF ShopHashed, ShopOf, Hashed, Payload
    <2>2. CASE v = u
      <3>1. m = new.mail
        BY <1>1, <2>1, <2>2 DEF ShopOf
      <3> QED
        BY <1>3, <3>1
    <2>3. CASE v # u
      <3>1. ShopOf(shop, m, v) /\ shop'[v] = shop[v]
        BY <1>1, <1>6, <2>1, <2>3
      <3>2. \/ Waits("shop", m) \/ Working("shop", m)
            \/ Hashed(m, Payload(v, shop[v]))
        BY <3>1 DEF InStep, ShopHashed, Payload
      <3> QED
        BY <1>1, <1>3, <2>1, <3>1, <3>2 DEF Working, Hashed
    <2> QED
      BY <2>2, <2>3
  <1>11. HubHashed' /\ \A n : \A m \in Mails : HubTells(m, n) => HubTells(m, n)'
    BY <1>1, <1>3 DEF InStep, HubHashed, Working, HashedHub, Hashed, HubTells
  <1> QED
    BY <1>3, <1>5, <1>7, <1>8, <1>9, <1>10, <1>11 DEF ShopTells

(* People change records only: what the worker holds is told, or still so. *)
LEMMA PeopleInStep ==
  ASSUME SyncInv, PersonInv, InStep, UNCHANGED <<tableVars, phase, localVars>>,
         StoresGrow(hub, shop, hub', shop'),
         OneJobEach', OneUserEach', NewestWaits',
         \A n : \A m \in Mails : HubTells(m, n) => HubTells(m, n)',
         \A m, n : ShopTells(m, n) => ShopTells(m, n)',
         HubHashed', ShopHashed'
  PROVE  InStep'
  <1>1. /\ rows' = rows /\ phase' = phase /\ job' = job /\ contact' = contact
        /\ row' = row /\ snap' = snap /\ dest' = dest
    BY DEF tableVars, localVars, matchVars
  <1>2. \A m : HasUser(m) => HasUser(m)'
    BY UsersStay
  <1>3. RowsWhole' /\ HashedHasUser'
    BY <1>1, <1>2 DEF InStep, RowsWhole, Whole, HashedHasUser
  <1>4. ASSUME NEW w \in Workers
        PROVE  SerialWorker(w)'
    <2>1. SerialWorker(w)
      BY DEF InStep
    <2>2. phase[w] \in Begun \cup Fetched => contact[w].mail \in Mails
      BY HandFacts DEF Begun, Fetched, Sent, Writing
    <2>3. SourceTells(w)'
      BY <1>1, <1>2, <2>1, <2>2 DEF SerialWorker, SourceTells, FromHub
    <2>4. SentTells(w)'
      BY <1>1, <1>2, <2>1, <2>2 DEF SerialWorker, SentTells, FromHub, Fetched
    <2>5. RowInHand(w)'
      BY <1>1, <2>1 DEF SerialWorker, RowInHand, Whole
    <2> QED
      BY <2>3, <2>4, <2>5 DEF SerialWorker
  <1> QED
    BY <1>3, <1>4 DEF InStep

LEMMA SerialHubUser ==
  ASSUME Steady, SyncInv, PersonInv, InStep, NEW h \in HubIds, HubUser(h)
  PROVE  InStep'
  <1>1. UNCHANGED <<tableVars, phase, localVars>>
    BY HubUserStep DEF SyncInv
  <1>2. Grow
    BY PersonHubUser DEF PersonStep
  <1>3. rows' = rows /\ job' = job
    BY <1>1 DEF tableVars, localVars
  <1>4. ASSUME NEW new, SaveHub(h, new), shop' = shop
        PROVE  InStep'
    <2>1. /\ hub'[h] = new /\ \A g \in HubIds \ {h} : hub'[g] = hub[g]
          /\ \/ jobs' \in Queued([side |-> "hub", id |-> h])
             \/ jobs' = jobs /\ hub[h] = new
      BY <1>4 DEF SaveHub, SyncInv, TypeOK, StoreOK
    <2> QED
      BY <1>1, <1>2, <1>3, <1>4, <2>1, HubSaved, PeopleInStep DEF Grow
  <1>5. ASSUME HubAgain(h)
        PROVE  InStep'
    <2>1. /\ hub' = hub /\ shop' = shop
          /\ jobs' \in Queued([side |-> "hub", id |-> h])
      BY <1>5 DEF HubAgain, Again, storeVars
    <2> QED
      BY <1>1, <1>2, <1>3, <2>1, HubSaved, PeopleInStep DEF Grow
  <1>6. ~HubDelete(h) /\ \A m \in Maybe(Mails) : ~HubNewMail(h, m)
    BY DEF HubDelete, HubNewMail, Edit, Steady
  <1> QED
    BY <1>4, <1>5, <1>6 DEF HubUser, HubCreate, HubEdit

LEMMA SerialShopUser ==
  ASSUME Steady, PushAlways, SyncInv, PersonInv, InStep,
         NEW u \in ShopIds, ShopUserStep(u)
  PROVE  InStep'
  <1>1. UNCHANGED <<tableVars, phase, localVars>>
    BY ShopUserStepFacts DEF SyncInv
  <1>2. Grow
    BY PersonShopUser DEF PersonStep
  <1>3. rows' = rows /\ job' = job
    BY <1>1 DEF tableVars, localVars
  <1>4. ASSUME NEW new \in ShopUser, SaveShop(u, new), hub' = hub,
               There(shop[u]) => new.mail = shop[u].mail,
               ~There(shop[u]) => ShopMail(new.mail) = {}
        PROVE  InStep'
    <2>1. /\ shop'[u] = new /\ \A v \in ShopIds \ {u} : shop'[v] = shop[v]
          /\ PushShop(u, new)
      BY <1>4 DEF SaveShop, SyncInv, TypeOK, StoreOK
    <2> QED
      BY <1>1, <1>2, <1>3, <1>4, <2>1, ShopPushed, PeopleInStep DEF Grow
  <1>5. ASSUME NEW m \in Mails, NEW n \in Names, NEW f \in Maybe(Firms),
               ShopCreate(u, m, n, f)
        PROVE  InStep'
    <2> DEFINE new == [mail |-> m, name |-> n, firm |-> f]
    <2>1. new \in ShopUser /\ new.mail = m
      BY DEF ShopUser, Maybe
    <2>2. SaveShop(u, new) /\ hub' = hub /\ ~There(shop[u]) /\ ShopMail(m) = {}
      BY <1>5 DEF ShopCreate, There
    <2> HIDE DEF new
    <2> QED
      BY <1>4, <2>1, <2>2
  <1>6. ASSUME NEW n \in Maybe(Names), ShopEdit(u, n)
        PROVE  InStep'
    <2> DEFINE new == [shop[u] EXCEPT !.name = n]
    <2>1. InShop(u) /\ SaveShop(u, new) /\ hub' = hub
      BY <1>6 DEF ShopEdit
    <2>2. new \in ShopUser /\ new.mail = shop[u].mail /\ There(shop[u])
      BY <2>1, ShopRecord DEF ShopUser, InShop, There, SyncInv, TypeOK
    <2> HIDE DEF new
    <2> QED
      BY <1>4, <2>1, <2>2
  <1>7. ASSUME ShopAgain(u)
        PROVE  InStep'
    <2>1. /\ InShop(u) /\ PushShop(u, shop[u]) /\ hub' = hub /\ shop' = shop
      BY <1>7 DEF ShopAgain, Again, storeVars
    <2>2. shop[u] \in ShopUser /\ There(shop[u])
      BY <2>1, ShopRecord DEF InShop, There, SyncInv, TypeOK
    <2> QED
      BY <1>1, <1>2, <1>3, <2>1, <2>2, ShopPushed, PeopleInStep DEF Grow
  <1>8. ~ShopDelete(u) /\ \A m \in Mails : ~ShopNewMail(u, m)
    BY DEF ShopDelete, ShopNewMail, Edit, Steady
  <1> QED
    BY <1>5, <1>6, <1>7, <1>8 DEF ShopUserStep

-----------------------------------------------------------------------------
(* Steps of the worker that change neither system nor queue nor table.     *)

LEMMA SameWorld ==
  ASSUME InStep, UNCHANGED <<storeVars, rows, jobs, job>>
  PROVE  /\ OneJobEach' /\ OneUserEach' /\ NewestWaits' /\ HashedHasUser'
         /\ HubHashed' /\ ShopHashed'
  <1>1. hub' = hub /\ shop' = shop /\ rows' = rows /\ jobs' = jobs /\ job' = job
    BY DEF storeVars
  <1>2. OneJobEach' /\ OneUserEach' /\ NewestWaits' /\ HashedHasUser'
    BY <1>1
    DEF InStep, OneJobEach, OneUserEach, NewestWaits, HashedHasUser, HasUser,
        ShopIs, Payload
  <1>3. HubHashed' /\ ShopHashed'
    BY <1>1
    DEF InStep, HubHashed, ShopHashed, Waits, Working, HashedHub, Hashed,
        Payload
  <1> QED
    BY <1>2, <1>3

(* What was fetched and sent is told as it was. *)
LEMMA TellsStay ==
  ASSUME NEW w, SerialWorker(w), UNCHANGED <<storeVars, jobs, job, contact>>,
         phase[w] \in Begun \cup Fetched, phase'[w] \in Begun \cup Fetched,
         phase'[w] \in Sent => phase[w] \in Sent
  PROVE  SourceTells(w)' /\ SentTells(w)'
  <1>1. /\ hub' = hub /\ shop' = shop /\ jobs' = jobs
        /\ job' = job /\ contact' = contact
    BY DEF storeVars
  <1>2. phase[w] # "hydrate" /\ phase'[w] # "hydrate" /\ phase[w] # "idle"
    BY DEF Begun, Fetched, Sent, Writing
  <1> QED
    BY <1>1, <1>2
    DEF SerialWorker, SourceTells, SentTells, FromHub, HasUser, HubTells,
        ShopTells, ShopIs, Payload, Waits

LEMMA LocalStep ==
  ASSUME InStep, NEW w \in Workers, Only(w),
         UNCHANGED <<storeVars, rows, jobs, job, contact>>,
         phase[w] \in Begun \cup Fetched,
         phase'[w] \in Begun \cup Fetched, phase'[w] # "finish",
         phase'[w] \in Sent => phase[w] \in Sent,
         row'[w] = row[w] \/ row[w] \notin Live(rows),
         RowInHand(w)'
  PROVE  InStep'
  <1>1. rows' = rows /\ SerialWorker(w)
    BY DEF InStep
  <1>2. RowsWhole'
    BY <1>1 DEF InStep, RowsWhole, Whole, Only
  <1>3. \A v \in Workers : SerialWorker(v)'
    BY <1>1, TellsStay DEF SerialWorker, Only
  <1> QED
    BY <1>2, <1>3, SameWorld DEF InStep

(* A row of a person that is not in hand has both keys. *)
LEMMA OtherRow ==
  ASSUME InStep, NEW w \in Workers, Only(w), NEW m \in Mails,
         NEW r \in Live(rows), r # row[w], KeysOf(hub, shop, m, rows[r])
  PROVE  rows[r].mail = m /\ rows[r].hub # None /\ HubOf(hub, m, rows[r].hub)
  BY DEF InStep, RowsWhole, Whole, Only, KeysOf

LEMMA SerialFindFirst ==
  ASSUME SyncInv, PersonInv, InStep, NEW w \in Workers, Only(w), FindFirst(w)
  PROVE  InStep'
  <1> DEFINE m == contact[w].mail
             mine == IF FromHub(w) THEN ByHub(w) ELSE ByMail(w)
             next == IF FromHub(w) THEN "findSecond"
                     ELSE IF mine = {} THEN "insert" ELSE "guard"
  <1>1. /\ UNCHANGED <<storeVars, rows, jobs, job, contact>>
        /\ contact' = contact /\ rows' = rows
    BY MatchFrame DEF FindFirst, tableVars, queueVars
  <1>2. phase[w] = "findFirst" /\ phase'[w] = next
    BY DEF FindFirst, Go, SyncInv, TypeOK, LocalsOK
  <1>3. PersonHand(w) /\ m \in Mails /\ m # None
    BY <1>2, HandFacts
  <1>4. row[w] = NoRow /\ NoRow \notin Live(rows)
    BY <1>2 DEF SyncInv, WorkerInv, Locals, Live, RowIds, NoRow
  <1>5. \A r \in Live(rows) : KeysOf(hub, shop, m, rows[r]) =>
          rows[r].mail = m /\ rows[r].hub # None /\ HubOf(hub, m, rows[r].hub)
    BY <1>3, <1>4, OtherRow
  <1>6. \A r \in Live(rows) : rows[r].mail = m => r \in mine
    <2>1. SUFFICES ASSUME NEW r \in Live(rows), rows[r].mail = m
                   PROVE  r \in mine
      OBVIOUS
    <2>2. KeysOf(hub, shop, m, rows[r])
      BY <1>3, <2>1, FoundPerson DEF PersonInv
    <2>3. FromHub(w) => rows[r].hub = job[w].id /\ job[w].id # None
      BY <1>3, <1>5, <2>2 DEF PersonHand, PersonInv, OneEach, HubOf
    <2> QED
      BY <1>3, <2>1, <2>3 DEF ByHub, ByMail, Owners
  <1>7. PICK r : \/ mine = {} /\ r = NoRow /\ row' = row /\ snap' = snap
                 \/ r \in mine /\ Take(w, r)
    BY DEF FindFirst
  <1>8. CASE mine = {} /\ r = NoRow /\ row' = row /\ snap' = snap
    <2>1. phase'[w] \in {"findSecond", "insert"} /\ row'[w] = NoRow
      BY <1>2, <1>4, <1>8
    <2>2. \A s \in Live(rows) : rows[s].mail # m
      BY <1>6, <1>8
    <2>3. RowInHand(w)'
      BY <1>1, <2>1, <2>2 DEF RowInHand, Begun, Fetched, Sent, Writing
    <2> QED
      BY <1>1, <1>2, <1>4, <2>1, <2>3, LocalStep
      DEF Begun, Fetched, Sent, Writing
  <1>9. CASE r \in mine /\ Take(w, r)
    <2>1. r \in Live(rows) /\ row'[w] = r /\ snap'[w] = rows[r]
      BY <1>9 DEF ByHub, ByMail, Owners, Take, SyncInv, TypeOK, LocalsOK
    <2>2. phase'[w] \in {"findSecond", "guard"}
      BY <1>2, <1>9
    <2>3. \A s \in Live(rows) \ {r} : rows[s].mail # m
      <3>1. \A s \in mine : s = r
        BY <1>9 DEF ByHub, ByMail, Owners, PersonInv, UniqueKeys, Columns
      <3> QED
        BY <1>6, <3>1
    <2>4. RowInHand(w)'
      BY <1>1, <2>1, <2>2, <2>3 DEF RowInHand, Begun, Fetched, Sent, Writing
    <2> QED
      BY <1>1, <1>2, <1>4, <2>2, <2>4, LocalStep
      DEF Begun, Fetched, Sent, Writing
  <1> QED
    BY <1>7, <1>8, <1>9

LEMMA SerialFindSecond ==
  ASSUME SyncInv, PersonInv, InStep, NEW w \in Workers, Only(w), FindSecond(w)
  PROVE  InStep'
  <1> DEFINE m == contact[w].mail
  <1>1. /\ UNCHANGED <<storeVars, rows, jobs, job, contact>>
        /\ contact' = contact /\ rows' = rows
    BY MatchFrame DEF FindSecond, tableVars, queueVars
  <1>2. phase[w] = "findSecond" /\ RowInHand(w)
    BY DEF FindSecond, InStep, SerialWorker
  <1>3. ByMail(w) \subseteq {row[w]}
    BY <1>2 DEF RowInHand, ByMail, Owners
  <1>4. /\ Go(w, IF row[w] = NoRow THEN "insert" ELSE "guard")
        /\ row' = row /\ snap' = snap
    BY <1>3 DEF FindSecond, matchVars
  <1>5. phase'[w] = IF row[w] = NoRow THEN "insert" ELSE "guard"
    BY <1>4 DEF Go, SyncInv, TypeOK, LocalsOK
  <1>6. RowInHand(w)'
    BY <1>1, <1>2, <1>4, <1>5 DEF RowInHand, Begun, Fetched, Sent, Writing
  <1> QED
    BY <1>1, <1>2, <1>4, <1>5, <1>6, LocalStep
    DEF Begun, Fetched, Sent, Writing

LEMMA SerialProceed ==
  ASSUME SyncInv, InStep, NEW w \in Workers, Only(w), Proceed(w)
  PROVE  InStep'
  <1>1. /\ UNCHANGED <<storeVars, rows, jobs, job, contact>>
        /\ contact' = contact /\ rows' = rows /\ row' = row
    BY MatchFrame DEF Proceed, tableVars, queueVars, matchVars
  <1>2. phase[w] = "guard" /\ RowInHand(w)
        /\ phase'[w] \in {"updateShop", "lookHub", "searchHub"}
    BY DEF Proceed, Go, InStep, SerialWorker, SyncInv, TypeOK, LocalsOK
  <1>3. RowInHand(w)'
    BY <1>1, <1>2 DEF RowInHand, Begun, Fetched, Sent, Writing
  <1> QED
    BY <1>1, <1>2, <1>3, LocalStep DEF Begun, Fetched, Sent, Writing

LEMMA SerialLook ==
  ASSUME SyncInv, InStep, NEW w \in Workers, Only(w),
         \/ LookHub(w) \/ SearchHub(w) \/ CreateHubConflict(w)
         \/ UserNotFound(w)
  PROVE  InStep'
  <1>1. /\ OnlyWrite(w) /\ UNCHANGED <<storeVars, jobs>>
    BY DEF LookHub, SearchHub, CreateHubConflict, UserNotFound
  <1>2. contact' = contact /\ rows' = rows /\ row' = row /\ job' = job
    BY <1>1, OnlyWriteFacts
  <1>3. phase[w] \in Writing /\ RowInHand(w) /\ phase'[w] \in Writing
    BY DEF LookHub, SearchHub, CreateHubConflict, UserNotFound, Writing, Go,
       InStep, SerialWorker, SyncInv, TypeOK, LocalsOK
  <1>4. RowInHand(w)'
    BY <1>2, <1>3 DEF RowInHand, Begun, Fetched, Sent, Writing
  <1> QED
    BY <1>1, <1>2, <1>3, <1>4, LocalStep DEF Begun, Fetched, Sent, Writing

LEMMA SerialLinked ==
  ASSUME SyncInv, InStep, NEW w \in Workers, Only(w), Linked(w)
  PROVE  InStep'
  <1>1. /\ UNCHANGED <<storeVars, rows, jobs, job, contact>>
        /\ contact' = contact /\ rows' = rows /\ row' = row /\ dest' = dest
    BY MatchFrame DEF Linked, tableVars, queueVars, matchVars
  <1>2. phase[w] = "linked" /\ RowInHand(w)
    BY DEF Linked, InStep, SerialWorker
  <1>3. phase'[w] = "record"
    BY <1>2 DEF Linked, Go, RowInHand, Sent, SyncInv, TypeOK, LocalsOK
  <1>4. RowInHand(w)'
    BY <1>1, <1>2, <1>3 DEF RowInHand, Begun, Fetched, Sent, Writing
  <1> QED
    BY <1>1, <1>2, <1>3, <1>4, LocalStep DEF Begun, Fetched, Sent, Writing

-----------------------------------------------------------------------------
(* The beginning and the end of a job.                                     *)

LEMMA SerialClaim ==
  ASSUME SyncInv, PersonInv, InStep, NEW w \in Workers, Only(w),
         NEW j \in jobs, Claim(w, j)
  PROVE  InStep'
  <1>1. /\ hub' = hub /\ shop' = shop /\ rows' = rows /\ jobs' = jobs \ {j}
        /\ contact' = contact /\ row' = row /\ phase[w] = "idle"
        /\ job'[w] = j /\ phase'[w] = "hydrate"
    BY DEF Claim, storeVars, tableVars, matchVars, SyncInv, TypeOK, LocalsOK
  <1>2. row[w] = NoRow /\ job[w] = NoJob /\ NoRow \notin Live(rows)
    BY <1>1 DEF InStep, SerialWorker, RowInHand, PersonInv, PersonWorker,
                Live, RowIds, NoRow
  <1>3. j.side = "hub" \/ j.side = "shop"
    BY DEF SyncInv, TypeOK, QueueOK, Job, HubJob, ShopJob
  <1>4. /\ \A side, id : ~(side = j.side /\ id = j.id) =>
             (Waits(side, id)' <=> Waits(side, id))
        /\ Working(j.side, j.id)'
        /\ \A id : \A side \in {"hub", "shop"} : ~Working(side, id)
    BY <1>1, <1>2 DEF Waits, Working, Only, NoJob
  <1>5. OneJobEach' /\ OneUserEach' /\ NewestWaits' /\ HashedHasUser'
    BY <1>1
    DEF InStep, OneJobEach, OneUserEach, NewestWaits, HashedHasUser, HasUser,
        ShopIs, Payload
  <1>6. RowsWhole'
    BY <1>1, <1>2 DEF InStep, RowsWhole, Whole, Only
  <1>7. HubHashed'
    BY <1>1, <1>4 DEF InStep, HubHashed, Hashed, HashedHub
  <1>8. ShopHashed'
    BY <1>1, <1>4 DEF InStep, ShopHashed, Hashed, Payload
  <1>9. SerialWorker(w)'
    <2>1. j.side # "hub" => HasUser(j.id)' /\ ShopTells(j.id, j.body)'
      BY <1>1, <1>3
      DEF InStep, NewestWaits, HasUser, ShopIs, ShopTells, Payload
    <2>2. SourceTells(w)' /\ SentTells(w)'
      BY <1>1, <2>1
      DEF SourceTells, SentTells, FromHub, Begun, Fetched, Sent, Writing
    <2>3. RowInHand(w)'
      BY <1>1 DEF RowInHand, Begun, Fetched, Sent, Writing
    <2> QED
      BY <2>2, <2>3 DEF SerialWorker
  <1> QED
    BY <1>5, <1>6, <1>7, <1>8, <1>9 DEF InStep, Only

(* A contact read from HubSpot and written back is the same. *)
LEMMA HubReadsBack ==
  ASSUME NEW c \in HubContact
  PROVE  ToHub(FromHubContact(c)) = c
  BY DEF HubContact, ToHub, FromHubContact

LEMMA SerialHydrate ==
  ASSUME SyncInv, PersonInv, InStep, NEW w \in Workers, Only(w), Hydrate(w)
  PROVE  InStep'
  <1>1. /\ UNCHANGED <<storeVars, rows, jobs, job>>
        /\ rows' = rows /\ row' = row /\ job' = job /\ hub' = hub
        /\ shop' = shop /\ jobs' = jobs
        /\ phase[w] = "hydrate" /\ Syncable(w)
        /\ contact'[w] = Source(w) /\ phase'[w] = "findFirst"
    BY DEF Hydrate, storeVars, tableVars, queueVars, matchVars, SyncInv,
           TypeOK, LocalsOK
  <1>2. PersonJob(hub, shop, job[w]) /\ SourceTells(w)
    BY <1>1 DEF PersonInv, PersonWorker, InStep, SerialWorker
  <1>3. RowsWhole'
    BY <1>1 DEF InStep, RowsWhole, Whole, Only
  <1>4. SourceTells(w)'
    <2>1. CASE FromHub(w)
      <3>1. /\ job[w].id \in HubIds /\ There(hub[job[w].id])
            /\ contact'[w] = FromHubContact(hub[job[w].id])
            /\ contact'[w].mail = hub[job[w].id].mail
        BY <1>1, <1>2, <2>1
        DEF PersonJob, FromHub, Syncable, Source, FromHubContact
      <3>2. contact'[w].mail \in Mails
        BY <1>1, SourceFacts DEF Contact, Maybe
      <3>3. \A h \in HubIds : HubOf(hub, contact'[w].mail, h) => h = job[w].id
        BY <3>1, <3>2 DEF PersonInv, OneEach, HubOf
      <3>4. hub[job[w].id] = ToHub(contact'[w])
        BY <3>1, HubRecord, HubReadsBack DEF There, InHub, SyncInv, TypeOK
      <3> QED
        BY <1>1, <2>1, <3>3, <3>4 DEF SourceTells, HubTells, FromHub
    <2>2. CASE ~FromHub(w)
      <3>1. contact'[w] = job[w].body /\ job[w].body.mail = job[w].id
        BY <1>1, <1>2, <2>2 DEF PersonJob, FromHub, Source
      <3>2. HasUser(job[w].id) /\ ShopTells(job[w].id, job[w].body)
        BY <1>1, <1>2, <2>2 DEF SourceTells
      <3> QED
        BY <1>1, <2>2, <3>1, <3>2
        DEF SourceTells, FromHub, HasUser, ShopTells, ShopIs, Waits, Payload
    <2> QED
      BY <2>1, <2>2
  <1>5. SentTells(w)' /\ RowInHand(w)'
    BY <1>1 DEF SentTells, RowInHand, Begun, Fetched, Sent, Writing
  <1> QED
    BY <1>1, <1>3, <1>4, <1>5, SameWorld DEF InStep, SerialWorker, Only

(* A job may end once every row is whole and its record is in the hash, or *)
(* has no email.                                                           *)
LEMMA SerialReturn ==
  ASSUME SyncInv, InStep, NEW w \in Workers, Only(w), Return(w),
         UNCHANGED <<storeVars, tableVars>>,
         \A r \in Live(rows) : Whole(r),
         \A m \in Mails : \A h \in HubIds :
           HubOf(hub, m, h) /\ job[w].side = "hub" /\ job[w].id = h =>
             Waits("hub", h) \/ HashedHub(m, hub[h]),
         \A m \in Mails : \A u \in ShopIds :
           ShopOf(shop, m, u) /\ job[w].side = "shop" /\ job[w].id = m =>
             Waits("shop", m) \/ Hashed(m, Payload(u, shop[u]))
  PROVE  InStep'
  <1>1. /\ hub' = hub /\ shop' = shop /\ rows' = rows /\ jobs' = jobs
        /\ phase'[w] = "idle" /\ row'[w] = NoRow
    BY DEF Return, Forget, storeVars, tableVars, queueVars, SyncInv, TypeOK,
           LocalsOK
  <1>2. OneJobEach' /\ OneUserEach' /\ NewestWaits' /\ HashedHasUser'
    BY <1>1
    DEF InStep, OneJobEach, OneUserEach, NewestWaits, HashedHasUser, HasUser,
        ShopIs, Payload
  <1>3. RowsWhole'
    BY <1>1 DEF RowsWhole, Whole
  <1>4. HubHashed'
    BY <1>1 DEF InStep, HubHashed, Waits, Working, Hashed, Only, HashedHub
  <1>5. ShopHashed'
    BY <1>1 DEF InStep, ShopHashed, Waits, Working, Hashed, Only, Payload
  <1>6. SerialWorker(w)'
    BY <1>1 DEF SerialWorker, SourceTells, SentTells, RowInHand, Begun,
                Fetched, Sent, Writing
  <1> QED
    BY <1>2, <1>3, <1>4, <1>5, <1>6 DEF InStep, Only

LEMMA SerialHydrateNothing ==
  ASSUME SyncInv, PersonInv, InStep, NEW w \in Workers, Only(w),
         HydrateNothing(w)
  PROVE  InStep'
  <1>1. /\ phase[w] = "hydrate" /\ ~Syncable(w) /\ Return(w)
        /\ UNCHANGED <<storeVars, tableVars>>
    BY DEF HydrateNothing
  <1>2. /\ row[w] = NoRow /\ NoRow \notin Live(rows) /\ job[w] \in Job
        /\ PersonJob(hub, shop, job[w])
    BY <1>1 DEF SyncInv, WorkerInv, Locals, Live, RowIds, NoRow, PersonInv,
                PersonWorker
  <1>3. \A r \in Live(rows) : Whole(r)
    BY <1>2 DEF InStep, RowsWhole, Only
  <1>4. FromHub(w) /\ hub[job[w].id].mail = None
    <2>1. CASE FromHub(w)
      <3>1. InHub(job[w].id) /\ job[w].id \in HubIds
        BY <1>2, <2>1 DEF PersonJob, FromHub, There, InHub
      <3>2. FromHubContact(hub[job[w].id]) \in Contact
        BY <3>1, HubRecord DEF FromHubContact, Contact, Maybe, SyncInv, TypeOK
      <3> QED
        BY <1>1, <2>1, <3>1, <3>2, RecordAssumption
        DEF Syncable, Source, FromHubContact
    <2>2. CASE ~FromHub(w)
      <3>1. job[w].side = "shop" /\ job[w].id \in Mails
        BY <1>2, <2>2, JobKinds DEF FromHub
      <3> QED
        BY <1>1, <1>2, <2>2, <3>1, ConstantFacts
        DEF PersonJob, Syncable, Source
    <2> QED
      BY <2>1, <2>2
  <1>5. job[w].side # "shop" /\ None \notin Mails
    BY <1>4, ConstantFacts DEF FromHub
  <1> QED
    BY <1>1, <1>3, <1>4, <1>5, SerialReturn DEF HubOf

(* The record of the job is the one in the hash of the row in hand. *)
LEMMA SerialDone ==
  ASSUME SyncInv, PersonInv, InStep, NEW w \in Workers, Only(w), Return(w),
         UNCHANGED <<storeVars, tableVars>>, phase[w] \in Fetched,
         row[w] \in Live(rows), Whole(row[w]), rows[row[w]].hash = contact[w]
  PROVE  InStep'
  <1> DEFINE m == contact[w].mail
  <1>1. \A r \in Live(rows) : Whole(r)
    BY DEF InStep, RowsWhole, Only
  <1>2. PersonHand(w) /\ m \in Mails /\ contact[w] \in Contact /\ SourceTells(w)
    BY HandFacts DEF InStep, SerialWorker, Fetched, Sent, Writing
  <1>3. rows[row[w]].mail = m
    BY <1>2 DEF PersonHand, KeysOf, Whole
  <1>4. Hashed(m, contact[w])
    BY <1>2, <1>3, NoneIsNoRow DEF Hashed, Whole
  <1>5. IF FromHub(w) THEN HubTells(m, contact[w])
                      ELSE ShopTells(m, contact[w])
    BY <1>2 DEF SourceTells
  <1>6. \A n \in Mails : \A h \in HubIds :
          HubOf(hub, n, h) /\ job[w].side = "hub" /\ job[w].id = h =>
            Waits("hub", h) \/ HashedHub(n, hub[h])
    <2>1. SUFFICES ASSUME NEW n \in Mails, NEW h \in HubIds, HubOf(hub, n, h),
                          job[w].side = "hub", job[w].id = h
                   PROVE  Waits("hub", h) \/ HashedHub(n, hub[h])
      OBVIOUS
    <2>2. HubOf(hub, m, h) /\ FromHub(w)
      BY <1>2, <2>1 DEF PersonHand, FromHub
    <2>3. n = m
      BY <2>1, <2>2 DEF HubOf
    <2> QED
      BY <1>2, <1>4, <1>5, <2>2, <2>3 DEF HubTells, HashedHub
  <1>7. \A n \in Mails : \A u \in ShopIds :
          ShopOf(shop, n, u) /\ job[w].side = "shop" /\ job[w].id = n =>
            Waits("shop", n) \/ Hashed(n, Payload(u, shop[u]))
    BY <1>2, <1>4, <1>5 DEF PersonHand, FromHub, ShopTells, ShopIs, Payload
  <1> QED
    BY <1>1, <1>6, <1>7, SerialReturn

LEMMA SerialSkip ==
  ASSUME SyncInv, PersonInv, InStep, NEW w \in Workers, Only(w), Skip(w)
  PROVE  InStep'
  <1>1. /\ phase[w] = "guard" /\ snap[w].hash = contact[w] /\ Return(w)
        /\ UNCHANGED <<storeVars, tableVars>>
    BY DEF Skip, Unchanged
  <1>2. /\ row[w] \in Live(rows) /\ row[w] # NoRow /\ snap[w] = rows[row[w]]
    BY <1>1
    DEF InStep, SerialWorker, RowInHand, Fetched, Live, RowIds, NoRow
  <1>3. contact[w] # None
    BY <1>1, HandFacts, NoneIsNoRow
  <1>4. Whole(row[w])
    BY <1>1, <1>2, <1>3 DEF SyncInv, SyncedRowsAreLinked, Whole
  <1> QED
    BY <1>1, <1>2, <1>4, SerialDone DEF Fetched

LEMMA SerialFinish ==
  ASSUME SyncInv, PersonInv, InStep, NEW w \in Workers, Only(w), Finish(w)
  PROVE  InStep'
  <1>1. phase[w] = "finish" /\ Return(w) /\ UNCHANGED <<storeVars, tableVars>>
    BY DEF Finish
  <1>2. row[w] \in Live(rows) /\ Whole(row[w]) /\ rows[row[w]].hash = contact[w]
    BY <1>1 DEF InStep, SerialWorker, RowInHand, Fetched, Sent
  <1> QED
    BY <1>1, <1>2, SerialDone DEF Fetched, Sent

-----------------------------------------------------------------------------
(* The mapping row: one job at a time never finds a key taken.             *)

LEMMA NoClash ==
  ASSUME PersonInv, InStep, NEW w \in Workers, Only(w),
         NEW m \in Mails, NEW values, KeysOf(hub, shop, m, values),
         \A r \in Live(rows) \ {row[w]} : rows[r].mail # m
  PROVE  ~Clashes(rows, row[w], values)
  <1>1. SUFFICES ASSUME NEW col \in Columns,
                        NEW r \in Owners(rows, col, values[col]), r # row[w]
                 PROVE  FALSE
    BY DEF Clashes
  <1>2. r \in Live(rows) /\ values[col] # None /\ rows[r][col] = values[col]
    BY DEF Owners
  <1>3. KeysOf(hub, shop, m, rows[r])
    <2>1. CASE col = "hub"
      BY <1>2, <2>1, FoundPerson DEF PersonInv, KeysOf
    <2>2. CASE col = "mail"
      BY <1>2, <2>2, FoundPerson DEF PersonInv, KeysOf
    <2>3. CASE col = "ox"
      BY <1>2, <2>3, FoundPerson DEF PersonInv, KeysOf
    <2> QED
      BY <2>1, <2>2, <2>3 DEF Columns
  <1> QED
    BY <1>1, <1>2, <1>3, OtherRow

LEMMA FirstKeyOf ==
  ASSUME SyncInv, PersonInv, NEW w \in Workers, phase[w] = "insert"
  PROVE  /\ contact[w].mail \in Mails /\ FirstKey(w) \in Link
         /\ KeysOf(hub, shop, contact[w].mail, FirstKey(w))
  <1>1. PersonHand(w) /\ contact[w].mail \in Mails
    BY HandFacts
  <1> QED
    BY <1>1, FirstKeyFacts DEF FirstKey, NoLink, PersonHand, KeysOf

LEMMA NoInsertClash ==
  ASSUME SyncInv, PersonInv, InStep, NEW w \in Workers, Only(w)
  PROVE  ~InsertClash(w)
  <1>1. SUFFICES ASSUME InsertClash(w)
                 PROVE  FALSE
    OBVIOUS
  <1>2. /\ phase[w] = "insert" /\ Clashes(rows, NoRow, FirstKey(w))
        /\ row[w] = NoRow
        /\ \A r \in Live(rows) \ {row[w]} : rows[r].mail # contact[w].mail
    BY <1>1 DEF InsertClash, InStep, SerialWorker, RowInHand
  <1> QED
    BY <1>2, FirstKeyOf, NoClash

LEMMA SerialInsert ==
  ASSUME SyncInv, PersonInv, InStep, NEW w \in Workers, Only(w), Insert(w)
  PROVE  InStep' /\ \A m, c : Hashed(m, c)' <=> Hashed(m, c)
  <1> DEFINE r == made + 1
             key == FirstKey(w)
  <1>1. /\ UNCHANGED <<storeVars, jobs, job, contact>>
        /\ hub' = hub /\ shop' = shop /\ jobs' = jobs /\ job' = job
        /\ contact' = contact
    BY MatchFrame DEF Insert, storeVars, queueVars
  <1>2. /\ phase[w] = "insert" /\ made < MaxRows
        /\ rows' = [rows EXCEPT ![r] = NewRow(key)]
        /\ row'[w] = r /\ snap'[w] = NewRow(key) /\ phase'[w] = "guard"
    BY DEF Insert, Go, SyncInv, TypeOK, LocalsOK
  <1>3. key \in Link /\ r \in RowIds /\ r \notin Live(rows)
    BY <1>2, FirstKeyOf, ConstantFacts
    DEF SyncInv, TypeOK, TableOK, RowIds, RowsAreMade
  <1> HIDE DEF r, key
  <1>4. /\ Live(rows') = Live(rows) \cup {r} /\ rows'[r] = NewRow(key)
        /\ \A s \in Live(rows) : rows'[s] = rows[s]
    <2>1. \A s \in RowIds \ {r} : rows'[s] = rows[s]
      BY <1>2 DEF SyncInv, TypeOK, TableOK, Tables
    <2> QED
      BY <1>2, <1>3, <2>1, InsertFacts, SyncedIsLinkedTable
      DEF SyncInv, TypeOK, TableOK, Live
  <1>5. SerialWorker(w) /\ row[w] \notin Live(rows) /\ rows'[r].hash = None
    BY <1>2, <1>4
    DEF InStep, SerialWorker, RowInHand, Live, RowIds, NoRow, NewRow
  <1>6. OneJobEach' /\ OneUserEach' /\ NewestWaits'
    BY <1>1
    DEF InStep, OneJobEach, OneUserEach, NewestWaits, HasUser, ShopIs, Payload
  <1>7. HashedHasUser'
    BY <1>1, <1>4, <1>5 DEF InStep, HashedHasUser, HasUser
  <1>8. \A m, n : Hashed(m, n)' <=> Hashed(m, n)
    BY <1>4, <1>5 DEF Hashed
  <1>9. HubHashed' /\ ShopHashed'
    BY <1>1, <1>8
    DEF InStep, HubHashed, ShopHashed, Waits, Working, Payload, HashedHub
  <1>10. RowsWhole'
    BY <1>2, <1>4, <1>5 DEF InStep, RowsWhole, Whole, Only
  <1>11. SourceTells(w)' /\ SentTells(w)'
    BY <1>1, <1>2, <1>5, TellsStay DEF Begun, Fetched, Sent, Writing
  <1>12. RowInHand(w)'
    <2>1. \A s \in Live(rows) : rows[s].mail # contact[w].mail
      BY <1>2, <1>5 DEF SerialWorker, RowInHand
    <2> QED
      BY <1>1, <1>2, <1>4, <2>1 DEF RowInHand, Begun, Fetched, Sent, Writing
  <1> QED
    BY <1>6, <1>7, <1>8, <1>9, <1>10, <1>11, <1>12
    DEF InStep, SerialWorker, Only

(* linkCounterpart: the columns are written, and what was hashed stays. *)
LEMMA SerialLinkRow ==
  ASSUME SyncInv, PersonInv, InStep, NEW w \in Workers, Only(w), LinkRow(w)
  PROVE  InStep' /\ \A k, c : Hashed(k, c)' <=> Hashed(k, c)
  <1> DEFINE m == contact[w].mail
             r == row[w]
  <1>1. /\ UNCHANGED <<storeVars, jobs, job, contact>>
        /\ hub' = hub /\ shop' = shop /\ jobs' = jobs /\ job' = job
        /\ contact' = contact /\ dest' = dest /\ row' = row
    BY MatchFrame DEF LinkRow, storeVars, queueVars, matchVars
  <1>2. /\ phase[w] = "link" /\ SerialWorker(w) /\ r \in Live(rows)
        /\ dest[w] # None
        /\ \A s \in Live(rows) \ {r} : rows[s].mail # m
    BY DEF LinkRow, InStep, SerialWorker, RowInHand, Fetched, Sent
  <1>3. /\ m \in Mails /\ KeysOf(hub, shop, m, link[w])
        /\ KeysOf(hub, shop, m, rows[r]) /\ link[w] \in Link
    BY <1>2, HandFacts DEF PersonHand, SyncInv, TypeOK, LocalsOK
  <1>4. ~Clashes(rows, r, link[w])
    BY <1>2, <1>3, NoClash
  <1>5. rows' = Update(rows, r, link[w]) /\ phase'[w] = "linked"
    BY <1>4 DEF LinkRow, Go, SyncInv, TypeOK, LocalsOK
  <1>6. /\ Live(rows') = Live(rows)
        /\ \A s \in Live(rows) \ {r} : rows'[s] = rows[s]
        /\ rows'[r].hash = rows[r].hash
        /\ rows[r].hash # None => rows'[r].mail = rows[r].mail
    <2>1. r \in RowIds /\ rows \in Tables
      BY <1>2 DEF Live, SyncInv, TypeOK, TableOK
    <2>2. Live(rows') = Live(rows)
      BY <1>3, <1>5, <2>1, UpdateFacts, SyncedIsLinkedTable DEF SyncInv
    <2>3. /\ \A s \in RowIds \ {r} : rows'[s] = rows[s]
          /\ rows'[r].hash = rows[r].hash
          /\ rows'[r].mail = Else(link[w].mail, rows[r].mail)
      BY <1>2, <1>5, <2>1 DEF Update, Tables
    <2>4. rows[r].hash # None => rows[r].mail = m
      BY <1>2, <1>3 DEF SyncInv, SyncedRowsAreLinked, KeysOf
    <2> QED
      BY <1>3, <2>2, <2>3, <2>4 DEF Live, Else, KeysOf
  <1> HIDE DEF m, r
  <1>7. OneJobEach' /\ OneUserEach' /\ NewestWaits'
    BY <1>1
    DEF InStep, OneJobEach, OneUserEach, NewestWaits, HasUser, ShopIs, Payload
  <1>8. \A s \in Live(rows) : rows[s].hash # None =>
          rows'[s].hash = rows[s].hash /\ rows'[s].mail = rows[s].mail
    BY <1>6
  <1>9. HashedHasUser'
    BY <1>1, <1>6 DEF InStep, HashedHasUser, HasUser
  <1>10. \A k, n : Hashed(k, n)' <=> Hashed(k, n)
    BY <1>6, <1>8 DEF Hashed
  <1>11. HubHashed' /\ ShopHashed'
    BY <1>1, <1>10
    DEF InStep, HubHashed, ShopHashed, Waits, Working, Payload, HashedHub
  <1>12. RowsWhole'
    BY <1>1, <1>5, <1>6 DEF InStep, RowsWhole, Whole, Only, r
  <1>13. SourceTells(w)' /\ SentTells(w)'
    BY <1>1, <1>2, <1>5, TellsStay DEF Fetched, Sent
  <1>14. RowInHand(w)'
    BY <1>1, <1>2, <1>5, <1>6
    DEF RowInHand, Begun, Fetched, Sent, Writing, m, r
  <1> QED
    BY <1>7, <1>9, <1>10, <1>11, <1>12, <1>13, <1>14
    DEF InStep, SerialWorker, Only

(* recordSync: source and destination hold what is hashed, or a job tells. *)
LEMMA SerialRecordSync ==
  ASSUME SyncInv, PersonInv, InStep, NEW w \in Workers, Only(w), RecordSync(w)
  PROVE  /\ InStep'
         /\ \A k, n :
              IF k = contact[w].mail THEN Hashed(k, n)' <=> n = contact[w]
              ELSE Hashed(k, n)' <=> Hashed(k, n)
  <1> DEFINE m == contact[w].mail
             r == row[w]
             c == contact[w]
  <1>1. /\ UNCHANGED <<storeVars, jobs, job, contact>>
        /\ hub' = hub /\ shop' = shop /\ jobs' = jobs /\ job' = job
        /\ contact' = contact /\ dest' = dest /\ row' = row
    BY MatchFrame DEF RecordSync, storeVars, queueVars, matchVars
  <1>2. /\ phase[w] = "record" /\ SerialWorker(w) /\ r \in Live(rows)
        /\ dest[w] # None
        /\ \A s \in Live(rows) \ {r} : rows[s].mail # m
    BY DEF RecordSync, InStep, SerialWorker, RowInHand, Fetched, Sent
  <1>3. /\ m \in Mails /\ contact[w] \in Contact /\ contact[w] # None
        /\ KeysOf(hub, shop, m, rows[r])
    BY <1>2, HandFacts, NoneIsNoRow DEF PersonHand
  <1>4. rows[r].hub # None /\ rows[r].mail # None /\ rows[r].mail = m
    BY <1>2, <1>3 DEF SyncInv, WorkerInv, RowKeys, KnowsBothKeys, KeysOf
  <1>5. rows' = Record(rows, r, contact[w]) /\ phase'[w] = "finish"
    BY DEF RecordSync, Go, SyncInv, TypeOK, LocalsOK
  <1>6. /\ Live(rows') = Live(rows)
        /\ \A s \in Live(rows) \ {r} : rows'[s] = rows[s]
        /\ rows'[r].hash = contact[w]
        /\ rows'[r].mail = rows[r].mail /\ rows'[r].hub = rows[r].hub
    <2>1. r \in RowIds /\ rows \in Tables /\ rows[r] \in Row
      BY <1>2, RowFields DEF SyncInv, TypeOK, TableOK
    <2>2. Live(rows') = Live(rows)
      BY <1>3, <1>4, <1>5, <2>1, RecordFacts, SyncedIsLinkedTable DEF SyncInv
    <2>3. /\ \A s \in RowIds \ {r} : rows'[s] = rows[s]
          /\ rows'[r] = [rows[r] EXCEPT !.hash = contact[w]]
      BY <1>2, <1>5, <2>1 DEF Record, Tables
    <2> QED
      BY <2>1, <2>2, <2>3 DEF Live, Row
  <1>7. /\ HasUser(m) /\ HubTells(m, c) /\ ShopTells(m, c)
    BY <1>2 DEF SerialWorker, SourceTells, SentTells, Fetched, Sent
  <1>8. \A k, n : k = m /\ n = c => Hashed(k, n)'
    BY <1>1, <1>2, <1>3, <1>4, <1>6 DEF Hashed
  <1>9. c \in Contact
    BY <1>3
  <1> HIDE DEF m, r, c
  <1>10. OneJobEach' /\ OneUserEach' /\ NewestWaits'
    BY <1>1
    DEF InStep, OneJobEach, OneUserEach, NewestWaits, HasUser, ShopIs, Payload
  <1>11. HashedHasUser'
    BY <1>1, <1>4, <1>6, <1>7 DEF InStep, HashedHasUser, HasUser
  <1>12. /\ \A k, n : k # m => (Hashed(k, n)' <=> Hashed(k, n))
         /\ \A k, n : k = m /\ Hashed(k, n)' => n = c
    <2>1. \A k, n : k # m => (Hashed(k, n)' <=> Hashed(k, n))
      BY <1>2, <1>4, <1>6 DEF Hashed
    <2>2. \A k, n : k = m /\ Hashed(k, n)' => n = c
      BY <1>2, <1>4, <1>6 DEF Hashed, c
    <2> QED
      BY <2>1, <2>2
  <1>13. HubHashed'
    <2>1. SUFFICES ASSUME NEW k \in Mails, NEW h \in HubIds, HubOf(hub, k, h),
                          NEW n, n = hub[h]
                   PROVE  \/ Waits("hub", h)' \/ Working("hub", h)'
                          \/ HashedHub(k, n)'
      BY <1>1 DEF HubHashed, Hashed, HashedHub
    <2>2. CASE k = m
      BY <1>1, <1>7, <1>8, <1>9, <2>1, <2>2 DEF HubTells, HashedHub, Waits
    <2>3. CASE k # m
      BY <1>1, <1>12, <2>1, <2>3
      DEF InStep, HubHashed, Waits, Working, HashedHub
    <2> QED
      BY <2>2, <2>3
  <1>14. ShopHashed'
    <2>1. SUFFICES ASSUME NEW k \in Mails, NEW u \in ShopIds, ShopOf(shop, k, u),
                          NEW n, n = Payload(u, shop[u])
                   PROVE  \/ Waits("shop", k)' \/ Working("shop", k)'
                          \/ Hashed(k, n)'
      BY <1>1 DEF ShopHashed, Hashed, Payload
    <2>2. CASE k = m
      BY <1>1, <1>7, <1>8, <2>1, <2>2 DEF ShopTells, ShopIs, Waits, Payload
    <2>3. CASE k # m
      BY <1>1, <1>12, <2>1, <2>3
      DEF InStep, ShopHashed, Waits, Working, Payload
    <2> QED
      BY <2>2, <2>3
  <1>15. RowsWhole'
    BY <1>1, <1>3, <1>4, <1>6 DEF InStep, RowsWhole, Whole, Only, r
  <1>16. SourceTells(w)' /\ SentTells(w)'
    BY <1>1, <1>2, <1>5, TellsStay DEF Fetched, Sent
  <1>17. RowInHand(w)'
    BY <1>1, <1>2, <1>3, <1>4, <1>5, <1>6
    DEF RowInHand, Whole, Begun, Fetched, Sent, Writing, m, r
  <1> QED
    <2>1. InStep'
      BY <1>10, <1>11, <1>13, <1>14, <1>15, <1>16, <1>17
      DEF InStep, SerialWorker, Only
    <2> QED
      BY <1>8, <1>12, <2>1 DEF m, c

-----------------------------------------------------------------------------
(* The writes: the other system holds what was fetched, or tells of it.    *)

LEMMA SerialWrote ==
  ASSUME SyncInv, InStep, NEW w \in Workers, Only(w), OnlyWrite(w),
         phase[w] \in Writing, Go(w, "link"), dest'[w] # None,
         StoresGrow(hub, shop, hub', shop'),
         OneJobEach', OneUserEach', NewestWaits', HubHashed', ShopHashed',
         NEW m, m = contact[w].mail, NEW n, n = contact[w],
         HasUser(m)', HubTells(m, n)', ShopTells(m, n)'
  PROVE  InStep'
  <1>1. /\ rows' = rows /\ job' = job /\ contact' = contact /\ row' = row
        /\ phase'[w] = "link" /\ SerialWorker(w)
    BY OnlyWriteFacts DEF Go, SyncInv, TypeOK, LocalsOK, InStep
  <1>2. \A k : HasUser(k) => HasUser(k)'
    BY UsersStay
  <1>3. HashedHasUser'
    BY <1>1, <1>2 DEF InStep, HashedHasUser
  <1>4. RowsWhole'
    BY <1>1 DEF InStep, RowsWhole, Whole, Only
  <1>5. ~FromHub(w) => HasUser(job[w].id)
    BY <1>1 DEF SerialWorker, SourceTells, Writing
  <1>6. SourceTells(w)' /\ SentTells(w)'
    BY <1>1, <1>2, <1>5 DEF SourceTells, SentTells, FromHub
  <1>7. RowInHand(w)'
    BY <1>1 DEF SerialWorker, RowInHand, Begun, Fetched, Sent, Writing
  <1> QED
    BY <1>3, <1>4, <1>6, <1>7 DEF InStep, SerialWorker, Only

LEMMA SerialWriteHub ==
  ASSUME SyncInv, PersonInv, InStep, NEW w \in Workers, Only(w),
         (\E h \in HubIds : CreateHub(w, h)) \/ UpdateHub(w)
  PROVE  InStep'
  <1>1. PICK h \in HubIds :
          /\ phase[w] \in {"createHub", "updateHub"}
          /\ SaveHub(h, ToHub(contact[w])) /\ WroteHub(w, h) /\ shop' = shop
          /\ OnlyWrite(w)
    <2>1. phase[w] = "updateHub" => dest[w] \in HubIds
      BY DEF SyncInv, WorkerInv, Locals
    <2> QED
      BY <2>1 DEF CreateHub, UpdateHub
  <1>2. PICK m, n, new :
          /\ m \in Mails /\ m = contact[w].mail /\ n = contact[w]
          /\ new = ToHub(contact[w])
    BY <1>1, HandFacts DEF Writing
  <1>3. /\ new.mail = m /\ There(new)
        /\ phase[w] \in Writing /\ SerialWorker(w)
    <2>1. new \in HubContact
      BY <1>1, <1>2, HandFacts DEF Writing, ToHub, HubContact, Contact
    <2> QED
      BY <1>1, <1>2, <2>1, RecordAssumption
      DEF ToHub, There, Writing, InStep
  <1>4. ~FromHub(w) /\ job[w].id = m
    BY <1>1, <1>2, HandFacts
    DEF SyncInv, WorkerInv, Sides, HubWriting, ShopWriting, Writing, PersonHand
  <1>5. StoresGrow(hub, shop, hub', shop') /\ OneEach(hub', shop')
    BY PersonWroteHub DEF PersonStep, Grow
  <1>6. /\ hub'[h] = new /\ \A g \in HubIds \ {h} : hub'[g] = hub[g]
        /\ \/ jobs' \in Queued([side |-> "hub", id |-> h])
           \/ jobs' = jobs /\ hub[h] = new
    BY <1>1, <1>2 DEF SaveHub, SyncInv, TypeOK, StoreOK
  <1>7. /\ rows' = rows /\ job' = job
    BY <1>1, OnlyWriteFacts
  <1>8. /\ OneJobEach' /\ OneUserEach' /\ NewestWaits'
        /\ HubHashed' /\ ShopHashed'
        /\ \A x : \A k \in Mails : HubTells(k, x) => HubTells(k, x)'
        /\ \A k, x : ShopTells(k, x) => ShopTells(k, x)'
        /\ \A x : \A k \in Mails :
             HubOf(hub', k, h) /\ new = ToHub(x) => HubTells(k, x)'
    BY <1>1, <1>5, <1>6, <1>7, HubSaved
  <1>9. HubTells(m, n)'
    <2>1. HubOf(hub', m, h)
      BY <1>3, <1>6 DEF HubOf
    <2> QED
      BY <1>2, <1>8, <2>1
  <1>10. HasUser(m)' /\ ShopTells(m, n)'
    <2>1. HasUser(m) /\ ShopTells(m, n)
      BY <1>1, <1>2, <1>3, <1>4
      DEF SerialWorker, SourceTells, Fetched, Writing
    <2> QED
      BY <1>5, <1>8, <2>1, UsersStay
  <1>11. dest'[w] # None /\ Go(w, "link")
    BY <1>1, ConstantFacts DEF WroteHub, SyncInv, TypeOK, LocalsOK
  <1> QED
    BY <1>1, <1>2, <1>3, <1>5, <1>8, <1>9, <1>10, <1>11, SerialWrote

LEMMA SerialWroteShop ==
  ASSUME PushAlways, SyncInv, PersonInv, InStep, NEW w \in Workers, Only(w),
         phase[w] \in ShopWriting, OnlyWrite(w), PersonStep,
         NEW u \in ShopIds, NEW new \in ShopUser, SaveShop(u, new),
         WroteShop(w, u), hub' = hub, new.mail = contact[w].mail,
         There(shop[u]) => shop[u].mail = new.mail,
         ~There(shop[u]) => ShopMail(new.mail) = {}
  PROVE  InStep'
  <1>1. PICK m, n : m \in Mails /\ m = contact[w].mail /\ n = contact[w]
    BY HandFacts DEF ShopWriting
  <1>2. phase[w] \in Writing /\ SerialWorker(w) /\ FromHub(w)
    BY DEF ShopWriting, Writing, InStep, SyncInv, WorkerInv, Sides
  <1>3. StoresGrow(hub, shop, hub', shop')
    BY DEF PersonStep, Grow
  <1>4. /\ shop'[u] = new /\ \A v \in ShopIds \ {u} : shop'[v] = shop[v]
        /\ PushShop(u, new)
    BY DEF SaveShop, SyncInv, TypeOK, StoreOK
  <1>5. rows' = rows /\ job' = job
    BY OnlyWriteFacts
  <1>6. /\ OneJobEach' /\ OneUserEach' /\ NewestWaits'
        /\ HubHashed' /\ ShopHashed'
        /\ \A x : \A k \in Mails : HubTells(k, x) => HubTells(k, x)'
        /\ \A x : ShopTells(new.mail, x)'
        /\ ShopOf(shop', new.mail, u)
    BY <1>4, <1>5, ShopPushed
  <1>7. HubTells(m, n)'
    <2>1. HubTells(m, n)
      BY <1>1, <1>2 DEF SerialWorker, SourceTells, Fetched
    <2> QED
      BY <1>1, <1>6, <2>1
  <1>8. HasUser(m)' /\ ShopTells(m, n)'
    BY <1>1, <1>6 DEF HasUser, ShopTells, ShopIs, Payload
  <1>9. dest'[w] # None /\ Go(w, "link")
    BY ConstantFacts DEF WroteShop, SyncInv, TypeOK, LocalsOK
  <1> QED
    BY <1>1, <1>2, <1>3, <1>6, <1>7, <1>8, <1>9, SerialWrote

LEMMA SerialUpdateShop ==
  ASSUME PushAlways, SyncInv, PersonInv, InStep, NEW w \in Workers, Only(w),
         UpdateShop(w)
  PROVE  InStep'
  <1> DEFINE m == contact[w].mail
  <1>1. phase[w] = "updateShop" /\ hub' = hub /\ OnlyWrite(w)
    BY DEF UpdateShop
  <1>2. PICK u \in Users(w) :
          SaveShop(u, ToShop(contact[w], shop[u])) /\ WroteShop(w, u)
    BY DEF UpdateShop
  <1>3. PersonHand(w) /\ contact[w] \in Contact
    BY <1>1, HandFacts
  <1>4. ShopOf(shop, m, u)
    <2>1. CASE RecordId(w) # None
      BY <1>2, <1>3, <2>1 DEF Users, RecordId, Else, PersonHand, KeysOf
    <2>2. CASE RecordId(w) = None
      BY <1>2, <2>2 DEF Users, ShopMail, ShopOf, InShop, There
    <2> QED
      BY <2>1, <2>2
  <1>5. u \in ShopIds /\ shop[u] \in ShopUser /\ shop[u].mail = m /\ There(shop[u])
    BY <1>4, ShopRecord DEF ShopOf, There, InShop, SyncInv, TypeOK
  <1>6. ToShop(contact[w], shop[u]) \in ShopUser
        /\ ToShop(contact[w], shop[u]).mail = m
    BY <1>3, <1>5, ToShopFacts DEF ToShop, ShopUser
  <1> QED
    BY <1>1, <1>2, <1>5, <1>6, PersonUpdateShop, SerialWroteShop
    DEF ShopWriting

LEMMA SerialInsertShop ==
  ASSUME PushAlways, SyncInv, PersonInv, InStep, NEW w \in Workers, Only(w),
         NEW u \in ShopIds, InsertShop(w, u)
  PROVE  InStep'
  <1> DEFINE m == contact[w].mail
             blank == [mail |-> m, name |-> None, firm |-> None]
  <1>1. /\ phase[w] = "insertShop" /\ hub' = hub /\ OnlyWrite(w)
        /\ shop[u] = None /\ ShopMail(m) = {}
        /\ SaveShop(u, ToShop(contact[w], blank)) /\ WroteShop(w, u)
    BY DEF InsertShop
  <1>2. contact[w] \in Contact /\ m \in Mails
    BY <1>1, HandFacts
  <1>3. blank \in ShopUser /\ blank.mail = m
    BY <1>2 DEF ShopUser, Maybe
  <1> HIDE DEF blank
  <1>4. ToShop(contact[w], blank) \in ShopUser
        /\ ToShop(contact[w], blank).mail = m
    BY <1>2, <1>3, ToShopFacts DEF ToShop, ShopUser
  <1> QED
    BY <1>1, <1>4, PersonInsertShop, SerialWroteShop DEF ShopWriting, There

-----------------------------------------------------------------------------
(* The invariant and what it implies.                                      *)

(* Nothing is merged, adopted or raced for, and no row is gone. *)
LEMMA SerialNever ==
  ASSUME InStep, NEW w \in Workers
  PROVE  /\ ~MergeFound(w) /\ ~Raced(w) /\ ~Collide(w) /\ ~Absorb(w)
         /\ ~Relink(w) /\ ~Reread(w) /\ ~MappingThrows(w)
  <1>1. /\ phase[w] \notin {"merge", "raced", "collide", "absorb", "reread"}
        /\ phase[w] = "linked" => row[w] \in Live(rows)
    BY DEF InStep, SerialWorker, RowInHand, Begun, Fetched, Sent, Writing
  <1> QED
    BY <1>1
    DEF MergeFound, Raced, Collide, Absorb, Relink, Reread, MappingThrows

LEMMA FailedStay ==
  ASSUME [Next]_vars
  PROVE  failed \subseteq failed'
  <1>1. ASSUME NEW h \in HubIds, HubUser(h)
        PROVE  failed' = failed
    BY <1>1 DEF HubUser, HubCreate, HubEdit, HubNewMail, HubDelete, HubAgain,
                Edit, Again
  <1>2. ASSUME NEW u \in ShopIds, ShopUserStep(u)
        PROVE  failed' = failed
    BY <1>2 DEF ShopUserStep, ShopCreate, ShopEdit, ShopNewMail, ShopDelete,
                ShopAgain, Edit, Again
  <1>3. ASSUME NEW w \in Workers, SyncContact(w) \/ Fail(w)
        PROVE  failed \subseteq failed'
    <2>1. CASE Match(w) \/ LinkCounterpart(w) \/ Proceed(w) \/ RecordSync(w)
      BY <2>1
      DEF Match, FindFirst, FindSecond, MergeFound, Insert, InsertClash, Raced,
          MappingThrows, Throw, LinkCounterpart, LinkRow, Collide, Absorb,
          Relink, Linked, Reread, Proceed, RecordSync, OnlyMatch, queueVars
    <2>2. CASE WriteToHubspot(w) \/ WriteToOxid(w)
      BY <2>2
      DEF WriteToHubspot, LookHub, SearchHub, CreateHub, CreateHubConflict,
          UpdateHub, UpdateHubRefused, WriteToOxid, UpdateShop, UserNotFound,
          InsertShop, InsertShopRefused, OnlyWrite, GiveUp
    <2>3. CASE \/ \E j \in jobs : Claim(w, j)
               \/ Hydrate(w) \/ HydrateNothing(w) \/ Skip(w) \/ Finish(w)
               \/ Fail(w)
      BY <2>3
      DEF Claim, Hydrate, HydrateNothing, Skip, Finish, Fail, Return, Throw,
          GiveUp, queueVars
    <2> QED
      BY <1>3, <2>1, <2>2, <2>3 DEF SyncContact
  <1> QED
    BY <1>1, <1>2, <1>3 DEF Next, vars, queueVars

LEMMA SerialSyncContact ==
  ASSUME PushAlways, SyncInv, PersonInv, InStep, NEW w \in Workers, Only(w),
         SyncContact(w), failed' = {}
  PROVE  InStep'
  <1>1. ~UpdateHubRefused(w) /\ ~InsertShopRefused(w)
    BY DEF UpdateHubRefused, InsertShopRefused, GiveUp
  <1>2. CASE Match(w)
    BY <1>2, SerialFindFirst, SerialFindSecond, SerialInsert, NoInsertClash,
       SerialNever DEF Match
  <1>3. CASE LinkCounterpart(w)
    BY <1>3, SerialLinkRow, SerialLinked, SerialNever DEF LinkCounterpart
  <1>4. CASE WriteToHubspot(w)
    BY <1>1, <1>4, SerialLook, SerialWriteHub DEF WriteToHubspot
  <1>5. CASE WriteToOxid(w)
    BY <1>1, <1>5, SerialLook, SerialUpdateShop, SerialInsertShop
    DEF WriteToOxid
  <1> QED
    BY <1>2, <1>3, <1>4, <1>5, SerialClaim, SerialHydrateNothing,
       SerialHydrate,
       SerialSkip, SerialProceed, SerialRecordSync, SerialFinish DEF SyncContact

LEMMA SerialInvInit == Init => SerialInv
  <1>1. SUFFICES ASSUME Init PROVE InStep
    BY DEF SerialInv
  <1>2. Live(rows) = {}
    BY <1>1 DEF Init, Live
  <1>3. /\ \A h \in HubIds : ~There(hub[h])
        /\ \A u \in ShopIds : ~There(shop[u])
        /\ jobs = {}
        /\ \A w \in Workers : phase[w] = "idle" /\ row[w] = NoRow
    BY <1>1 DEF Init, There
  <1>4. OneJobEach /\ OneUserEach /\ NewestWaits /\ RowsWhole /\ HashedHasUser
    BY <1>2, <1>3
    DEF OneJobEach, OneUserEach, NewestWaits, RowsWhole, HashedHasUser, ShopOf
  <1>5. HubHashed /\ ShopHashed
    BY <1>3 DEF HubHashed, ShopHashed, HubOf, ShopOf, Payload, HashedHub
  <1>6. \A w \in Workers : SerialWorker(w)
    BY <1>3 DEF SerialWorker, SourceTells, SentTells, RowInHand, Begun,
                Fetched, Sent, Writing
  <1> QED
    BY <1>4, <1>5, <1>6 DEF InStep

LEMMA SerialStutter ==
  ASSUME InStep, UNCHANGED vars
  PROVE  InStep'
  <1>1. /\ hub' = hub /\ shop' = shop /\ rows' = rows /\ jobs' = jobs
        /\ phase' = phase /\ job' = job /\ contact' = contact /\ row' = row
        /\ snap' = snap /\ dest' = dest
    BY DEF vars, storeVars, tableVars, queueVars, localVars, matchVars
  <1>2. RowsWhole'
    BY <1>1 DEF InStep, RowsWhole, Whole
  <1>3. ASSUME NEW w \in Workers PROVE SerialWorker(w)'
    <2>1. SerialWorker(w)
      BY DEF InStep
    <2> QED
      BY <1>1, <2>1
      DEF SerialWorker, SourceTells, SentTells, RowInHand, FromHub, HasUser,
          HubTells, ShopTells, ShopIs, Waits, Whole, Payload
  <1> QED
    BY <1>1, <1>2, <1>3, SameWorld DEF InStep, storeVars

LEMMA SerialNext ==
  ASSUME Steady, Serial, SyncInv, PersonInv, SerialInv, [Next]_vars
  PROVE  SerialInv'
  <1>1. SUFFICES ASSUME failed' = {}
                 PROVE  InStep'
    BY DEF SerialInv
  <1>2. InStep /\ PushAlways
    BY <1>1, FailedStay DEF SerialInv, Serial
  <1>3. ASSUME NEW w \in Workers, SyncContact(w) \/ Fail(w)
        PROVE  InStep'
    <2>1. Only(w)
      BY DEF Only, Serial
    <2>2. ~Fail(w)
      BY ConstantFacts DEF Fail, Serial, SyncInv, TypeOK, CountOK
    <2> QED
      BY <1>1, <1>2, <1>3, <2>1, <2>2, SerialSyncContact
  <1> QED
    BY <1>2, <1>3, SerialHubUser, SerialShopUser, SerialStutter DEF Next

(* One job at a time and without failure, the hash of a person's row ties  *)
(* the two records together: each side holds what was hashed, or a job is  *)
(* there to tell (loop guard and recordSync of syncContact.ts).            *)
THEOREM SerialInvHolds ==
  ASSUME Steady, Serial
  PROVE  Spec => []SerialInv
  <1>1. SyncInv /\ PersonInv /\ SerialInv /\ [Next]_vars => SerialInv'
    BY SerialNext
  <1> QED
    BY <1>1, SerialInvInit, SyncInvHolds, PersonInvHolds, PTL DEF Spec

(* A quiet system has no job to tell. *)
LEMMA NothingToTell ==
  ASSUME PersonInv, Quiet, NEW side \in {"hub", "shop"}, NEW id
  PROVE  ~Waits(side, id) /\ ~Working(side, id)
  BY DEF PersonInv, PersonWorker, Quiet, Waits, Working, NoJob

LEMMA HashedOnce ==
  ASSUME PersonInv, NEW m \in Mails, NEW n, NEW k, Hashed(m, n), Hashed(m, k)
  PROVE  n = k
  <1>1. PICK r \in Live(rows) : rows[r].mail = m /\ rows[r].hash = n
    BY DEF Hashed
  <1>2. PICK s \in Live(rows) : rows[s].mail = m /\ rows[s].hash = k
    BY DEF Hashed
  <1>3. m # None
    BY ConstantFacts
  <1>4. r = s
    BY <1>1, <1>2, <1>3 DEF PersonInv, UniqueKeys, Columns
  <1> QED
    BY <1>1, <1>2, <1>4

LEMMA InStepAgrees == SyncInv /\ PersonInv /\ SerialInv => Agreement
  <1>1. SUFFICES ASSUME SyncInv, PersonInv, SerialInv, AllSynced,
                        NEW h \in HubIds, NEW u \in ShopIds, SamePerson(h, u)
                 PROVE  hub[h].name = shop[u].name
    BY DEF Agreement
  <1> DEFINE m == shop[u].mail
  <1>2. m \in Mails /\ HubOf(hub, m, h) /\ ShopOf(shop, m, u)
    BY <1>1, ShopRecord
    DEF SamePerson, InHub, InShop, HubOf, ShopOf, There, SyncInv, TypeOK
  <1>3. HubHashed /\ ShopHashed
    BY <1>1 DEF SerialInv, InStep, AllSynced
  <1>4. HashedHub(m, hub[h]) /\ Hashed(m, Payload(u, shop[u]))
    BY <1>1, <1>2, <1>3, NothingToTell
    DEF HubHashed, ShopHashed, AllSynced
  <1> QED
    BY <1>1, <1>2, <1>4, HashedOnce DEF HashedHub, ToHub, Payload

(* Agreement, one job at a time: when every job is done, the two records   *)
(* of a person hold the same values, whichever system was edited, in       *)
(* which order, and however often an event was sent.                       *)
THEOREM AgreementHolds ==
  ASSUME Steady, Serial
  PROVE  Spec => []Agreement
  BY SyncInvHolds, PersonInvHolds, SerialInvHolds, InStepAgrees, PTL

LEMMA InStepSkips ==
  ASSUME Serial, SyncInv, PersonInv, InStep, NEW w \in Workers,
         phase[w] = "guard", Unchanged(w)
  PROVE  Holds(w) \/ OwnChangePending(w)
  <1> DEFINE m == contact[w].mail
  <1>1. /\ PersonHand(w) /\ m \in Mails /\ m # None /\ contact[w] # None
        /\ snap[w].hash = contact[w]
    BY HandFacts, NoneIsNoRow DEF Unchanged
  <1>2. /\ row[w] \in Live(rows) /\ snap[w] = rows[row[w]]
    BY DEF InStep, SerialWorker, RowInHand, Fetched, Live, RowIds, NoRow
  <1>3. /\ snap[w].hub # None /\ snap[w].mail = m
        /\ HubOf(hub, m, snap[w].hub)
    BY <1>1, <1>2 DEF SyncInv, SyncedRowsAreLinked, PersonHand, KeysOf
  <1>4. Hashed(m, contact[w])
    BY <1>1, <1>2, <1>3 DEF Hashed
  <1>5. job[w].side = "hub" \/ job[w].side = "shop"
    BY HandFacts, JobKinds
  <1>6. \A id : \A side \in {"hub", "shop"} :
          /\ Waits(side, id) /\ side # job[w].side => OwnChangePending(w)
          /\ Working(side, id) => side = job[w].side
    BY DEF Waits, Working, OwnChangePending, NoJob, Serial
  <1>7. CASE FromHub(w)
    <2>1. PICK u \in Users(w) : ShopOf(shop, m, u)
      <3>1. CASE RecordId(w) # None
        BY <1>1, <3>1 DEF PersonHand, RecordId, Else, KeysOf, Users, ShopOf,
                          There, InShop
      <3>2. CASE RecordId(w) = None
        <4>1. HasUser(m)
          BY <1>1, <1>2, <1>3 DEF InStep, HashedHasUser
        <4> QED
          BY <3>2, <4>1 DEF HasUser, Users, ShopMail, ShopOf, There, InShop
      <3> QED
        BY <3>1, <3>2
    <2>2. Waits("shop", m) \/ Hashed(m, Payload(u, shop[u]))
      BY <1>1, <1>6, <1>7, <2>1 DEF InStep, ShopHashed, ShopOf, FromHub
    <2>3. CASE Waits("shop", m)
      BY <1>6, <1>7, <2>3 DEF FromHub
    <2>4. CASE Hashed(m, Payload(u, shop[u]))
      BY <1>1, <1>4, <1>7, <2>1, <2>4, HashedOnce DEF Holds, Payload
    <2> QED
      BY <2>2, <2>3, <2>4
  <1>8. CASE ~FromHub(w)
    <2>1. job[w].side = "shop"
      BY <1>5, <1>8 DEF FromHub
    <2>2. snap[w].hub \in HubIds /\ InHub(snap[w].hub)
      BY <1>3 DEF HubOf, There, InHub
    <2>3. Waits("hub", snap[w].hub) \/ HashedHub(m, hub[snap[w].hub])
      BY <1>1, <1>3, <1>6, <2>1, <2>2 DEF InStep, HubHashed
    <2>4. CASE Waits("hub", snap[w].hub)
      BY <1>6, <2>1, <2>4
    <2>5. CASE HashedHub(m, hub[snap[w].hub])
      BY <1>1, <1>4, <1>8, <2>2, <2>5, HashedOnce DEF Holds, HashedHub, ToHub
    <2> QED
      BY <2>3, <2>4, <2>5
  <1> QED
    BY <1>7, <1>8

(* SkipMeansNoOp, one job at a time and as long as no job was given up:    *)
(* what the loop guard skips is what the destination holds, or the         *)
(* destination has a change of its own that waits to be synced.            *)
THEOREM SkipMeansNoOpHolds ==
  ASSUME Steady, Serial
  PROVE  Spec => [](failed = {} => SkipMeansNoOp)
  <1>1. SyncInv /\ PersonInv /\ SerialInv => (failed = {} => SkipMeansNoOp)
    BY InStepSkips DEF SerialInv, SkipMeansNoOp
  <1> QED
    BY <1>1, SyncInvHolds, PersonInvHolds, SerialInvHolds, PTL

-----------------------------------------------------------------------------
(* The followed person.                                                    *)

(* Whose job is in work is known in the system it came from. *)
LEMMA AtWork ==
  ASSUME PersonInv, InStep, NEW w \in Workers
  PROVE  /\ job[w].side = "shop" => HasUser(job[w].id) /\ phase[w] # "idle"
         /\ job[w].side = "hub" => There(hub[job[w].id]) /\ phase[w] # "idle"
  <1>1. phase[w] = "idle" => job[w] = NoJob
    BY DEF PersonInv, PersonWorker
  <1>2. phase[w] # "idle" => PersonJob(hub, shop, job[w]) /\ SourceTells(w)
    BY DEF PersonInv, PersonWorker, InStep, SerialWorker
  <1> QED
    BY <1>1, <1>2 DEF NoJob, PersonJob, SourceTells, FromHub

LEMMA HashedContact ==
  ASSUME SyncInv, NEW m, NEW c, Hashed(m, c)
  PROVE  c \in Contact
  <1>1. PICK r \in Live(rows) : rows[r].hash = c /\ c # None
    BY DEF Hashed
  <1>2. rows[r].hash \in Maybe(Contact)
    BY <1>1, RowFields DEF SyncInv, TypeOK, TableOK
  <1> QED
    BY <1>1, <1>2 DEF Maybe

(* The job in hand is of the person of the contact in hand. *)
LEMMA HandsJob ==
  ASSUME SyncInv, PersonInv, NEW w \in Workers,
         phase[w] \notin {"idle", "hydrate"}
  PROVE  /\ FromHub(w) => HubOf(hub, contact[w].mail, job[w].id)
         /\ ~FromHub(w) => job[w].side = "shop" /\ job[w].id = contact[w].mail
  BY HandFacts, JobKinds DEF PersonHand, FromHub

(* At the guard, a contact that is hashed is skipped. *)
LEMMA ToldIsSkipped ==
  ASSUME SyncInv, PersonInv, InStep, NEW w \in Workers, Only(w),
         phase[w] = "guard", contact[w].mail = Followed, Told(contact[w])
  PROVE  Unchanged(w)
  <1>1. Hashed(Followed, contact[w])
    BY DEF Told, Sends, Only
  <1>2. PICK r \in Live(rows) : rows[r].mail = Followed /\ rows[r].hash = contact[w]
    BY <1>1 DEF Hashed
  <1>3. RowInHand(w)
    BY DEF InStep, SerialWorker
  <1>4. r = row[w]
    BY <1>2, <1>3 DEF RowInHand, Fetched
  <1>5. row[w] # NoRow
    BY <1>2, <1>4 DEF Live, RowIds, NoRow
  <1> QED
    BY <1>2, <1>3, <1>4, <1>5 DEF RowInHand, Unchanged

LEMMA SourceStays ==
  ASSUME SourceInv, NEW w \in Workers, Only(w), UNCHANGED <<shop, job>>,
         HandIsSource(w)', \A k, c : Hashed(k, c)' => Hashed(k, c)
  PROVE  SourceInv'
  <1>1. shop' = shop /\ job' = job
    OBVIOUS
  <1>2. FirmStays'
    BY <1>1 DEF SourceInv, FirmStays
  <1> QED
    BY <1>2 DEF SourceInv, Only

LEMMA ToldStays ==
  ASSUME NEW w \in Workers, Only(w), Sends(w)' <=> Sends(w),
         Sends(w) => contact'[w] = contact[w],
         \A k, c : Hashed(k, c) => Hashed(k, c)'
  PROVE  \A c : Told(c) => Told(c)'
  BY DEF Told, Only

HubLeadPhases == {"hydrate", "findFirst", "insert", "guard"}
ShopLeadPhases ==
  {"hydrate", "findFirst", "findSecond", "insert", "guard", "updateShop"}

(* A step of the worker that changes neither system. *)
LEMMA LeadStays ==
  ASSUME LeadInv, NEW w \in Workers, Only(w),
         UNCHANGED <<storeVars, touched, last>>, jobs' \subseteq jobs,
         \A c : Told(c) => Told(c)',
         \A id : job'[w].side = "hub" /\ job'[w].id = id =>
           Waits("hub", id) \/ Working("hub", id),
         HubLeads /\ job'[w].side = "shop" /\ job'[w].id = Followed =>
           Told(job'[w].body) /\ phase'[w] \in HubLeadPhases,
         ShopLeads /\ job'[w].side = "hub" /\ TheContact(job'[w].id) =>
           /\ phase'[w] \in ShopLeadPhases
           /\ phase'[w] # "hydrate" =>
                contact'[w] = FromHubContact(hub[job'[w].id])
           /\ phase'[w] = "updateShop" => HasFirm
  PROVE  LeadInv'
  <1>1. hub' = hub /\ shop' = shop /\ touched' = touched /\ last' = last
    BY DEF storeVars
  <1>2. /\ Unknown => Unknown'
        /\ \A h : TheContact(h)' <=> TheContact(h)
        /\ \A u : TheUser(u)' <=> TheUser(u)
        /\ HasFirm => HasFirm'
    BY <1>1 DEF Unknown, TheContact, TheUser, HasFirm
  <1>3. HubLeads => HubLeads'
    BY <1>1, <1>2 DEF HubLeads, Only, HubLeadPhases
  <1>4. ShopLeads => ShopLeads'
    <2> HAVE ShopLeads
    <2>1. /\ \E u \in ShopIds : TheUser(u)'
          /\ \A u \in ShopIds : TheUser(u)' => shop'[u].name = last'
      BY <1>1, <1>2 DEF ShopLeads
    <2>2. \A h \in HubIds :
            TheContact(h)' /\ (Waits("hub", h)' \/ Working("hub", h)') =>
              Told(FromHubContact(hub[h]))' \/ HasFirm'
      <3>1. \A h : Waits("hub", h)' \/ Working("hub", h)' =>
                     Waits("hub", h) \/ Working("hub", h)
        BY DEF Waits, Working, Only
      <3> QED
        BY <1>1, <1>2, <3>1 DEF ShopLeads
    <2>3. FromHub(w)' /\ TheContact(job'[w].id) =>
            /\ phase'[w] \in ShopLeadPhases
            /\ phase'[w] # "hydrate" =>
                 contact'[w] = FromHubContact(hub'[job'[w].id])
            /\ phase'[w] = "updateShop" => HasFirm'
      BY <1>1, <1>2 DEF FromHub
    <2>4. TheContact(job[w].id)' <=> TheContact(job'[w].id)
      BY <1>1 DEF TheContact
    <2> QED
      BY <1>1, <2>1, <2>2, <2>3, <2>4 DEF ShopLeads, Only, ShopLeadPhases
  <1> QED
    BY <1>1, <1>2, <1>3, <1>4 DEF LeadInv

(* Steps of the worker that leave the hashes as they are and send nothing. *)
LEMMA LeadMoves ==
  ASSUME SyncInv, PersonInv, InStep, SourceInv, LeadInv, NEW w \in Workers,
         Only(w), UNCHANGED <<storeVars, jobs, job, contact, touched, last>>,
         phase[w] \in Begun \cup {"guard"} \cup Writing,
         \A k, c : Hashed(k, c)' <=> Hashed(k, c),
         ~Sends(w)',
         phase'[w] # "idle" /\ phase'[w] # "hydrate",
         HubLeads /\ phase[w] \in HubLeadPhases /\ ~FromHub(w)
           /\ contact[w].mail = Followed /\ Told(contact[w]) =>
             phase'[w] \in HubLeadPhases,
         ShopLeads /\ phase[w] \in ShopLeadPhases /\ FromHub(w)
           /\ contact[w].mail = Followed
           /\ (Told(contact[w]) \/ HasFirm) =>
             /\ phase'[w] \in ShopLeadPhases
             /\ phase'[w] = "updateShop" => HasFirm
  PROVE  SourceInv' /\ LeadInv'
  <1>1. /\ shop' = shop /\ hub' = hub /\ job' = job /\ contact' = contact
    BY DEF storeVars
  <1>2. phase[w] \notin {"idle", "hydrate", "link", "linked", "record", "finish"}
    BY DEF Begun, Writing
  <1>3. HandIsSource(w)'
    BY <1>1, <1>2 DEF SourceInv, HandIsSource, FromHub
  <1>4. \A c : Told(c) => Told(c)'
    BY <1>2, ToldStays DEF Sends
  <1>5. FromHub(w) => HubOf(hub, contact[w].mail, job[w].id)
    BY <1>2, HandsJob
  <1>6. ASSUME HubLeads, job[w].side = "shop", job[w].id = Followed
        PROVE  phase'[w] \in HubLeadPhases
    <2>1. ~FromHub(w)
      BY <1>6 DEF FromHub
    <2>2. contact[w].mail = Followed
      BY <1>2, <1>6, <2>1, HandsJob
    <2>3. Told(contact[w]) /\ phase[w] \in HubLeadPhases
      BY <1>2, <1>6, <2>1 DEF HubLeads, HubLeadPhases, SourceInv, HandIsSource
    <2> QED
      BY <1>6, <2>1, <2>2, <2>3
  <1>7. ASSUME ShopLeads, FromHub(w), TheContact(job[w].id)
        PROVE  /\ phase'[w] \in ShopLeadPhases
               /\ phase'[w] # "hydrate" =>
                    contact'[w] = FromHubContact(hub[job[w].id])
               /\ phase'[w] = "updateShop" => HasFirm
    <2>1. contact[w].mail = Followed
      BY <1>5, <1>7 DEF TheContact, HubOf
    <2>2. /\ phase[w] \in ShopLeadPhases
          /\ contact[w] = FromHubContact(hub[job[w].id])
      BY <1>2, <1>7 DEF ShopLeads, ShopLeadPhases
    <2>3. Told(contact[w]) \/ HasFirm
      <3>1. job[w].id \in HubIds /\ Working("hub", job[w].id)
        BY <1>7 DEF TheContact, HubOf, Working, FromHub
      <3> QED
        BY <1>7, <2>2, <3>1 DEF ShopLeads
    <2> QED
      BY <1>1, <1>7, <2>1, <2>2, <2>3
  <1>8. HubLeads /\ job[w].side = "shop" /\ job[w].id = Followed =>
          Told(job[w].body)
    BY DEF HubLeads
  <1>9. LeadInv'
    BY <1>1, <1>4, <1>6, <1>7, <1>8, LeadStays DEF FromHub, Working
  <1> QED
    BY <1>1, <1>3, <1>9, SourceStays

LEMMA LeadMatch ==
  ASSUME SyncInv, PersonInv, InStep, SourceInv, LeadInv, NEW w \in Workers,
         Only(w), FindFirst(w) \/ FindSecond(w) \/ Insert(w)
  PROVE  SourceInv' /\ LeadInv'
  <1>1. /\ UNCHANGED <<storeVars, jobs, job, contact, touched, last>>
        /\ contact' = contact
    BY MatchFrame DEF FindFirst, FindSecond, Insert, OnlyMatch, queueVars,
                      countVars
  <1>2. \A k, c : Hashed(k, c)' <=> Hashed(k, c)
    <2>1. CASE Insert(w)
      BY <2>1, SerialInsert
    <2>2. CASE ~Insert(w)
      <3>1. rows' = rows
        BY <2>2 DEF FindFirst, FindSecond, tableVars
      <3> QED
        BY <3>1 DEF Hashed
    <2> QED
      BY <2>1, <2>2
  <1>3. phase[w] \in Begun
    BY DEF FindFirst, FindSecond, Insert, Begun
  <1>4. /\ FindFirst(w) => phase'[w] = IF FromHub(w) THEN "findSecond"
                                       ELSE IF ByMail(w) = {} THEN "insert"
                                       ELSE "guard"
        /\ Insert(w) => phase'[w] = "guard"
    BY DEF FindFirst, Insert, Go, SyncInv, TypeOK, LocalsOK
  <1>5. FindSecond(w) =>
          FromHub(w) /\ phase'[w] \in {"insert", "guard"}
    <2> HAVE FindSecond(w)
    <2>1. phase[w] = "findSecond" /\ dest[w] = None /\ dest' = dest /\ FromHub(w)
      BY DEF FindSecond, OnlyMatch, SyncInv, WorkerInv, Locals, Sides
    <2>2. RowInHand(w)'
      BY SerialFindSecond DEF InStep, SerialWorker
    <2>3. phase'[w] \in {"insert", "guard", "merge", "link"}
      BY DEF FindSecond, Go, SyncInv, TypeOK, LocalsOK
    <2> QED
      BY <2>1, <2>2, <2>3 DEF RowInHand, Begun, Fetched, Sent, Writing
  <1>6. phase'[w] \in {"findSecond", "insert", "guard"}
        /\ (~FromHub(w) => phase'[w] # "findSecond")
    BY <1>4, <1>5
  <1> QED
    BY <1>1, <1>2, <1>3, <1>6, LeadMoves
    DEF Sends, HubLeadPhases, ShopLeadPhases

LEMMA LeadProceed ==
  ASSUME SyncInv, PersonInv, InStep, SourceInv, LeadInv, NEW w \in Workers,
         Only(w), Proceed(w)
  PROVE  SourceInv' /\ LeadInv'
  <1>1. /\ UNCHANGED <<storeVars, jobs, job, contact, touched, last>>
        /\ contact' = contact /\ rows' = rows
    BY MatchFrame DEF Proceed, OnlyMatch, queueVars, countVars, tableVars
  <1>2. phase[w] = "guard" /\ ~Unchanged(w)
    BY DEF Proceed
  <1>3. phase'[w] \in Writing /\ phase'[w] = IF FromHub(w) THEN "updateShop"
                          ELSE IF snap[w].hub # None THEN "lookHub"
                          ELSE "searchHub"
    BY DEF Proceed, Go, SyncInv, TypeOK, LocalsOK, Writing
  <1>4. ~(contact[w].mail = Followed /\ Told(contact[w]))
    BY <1>2, ToldIsSkipped
  <1>5. \A k, c : Hashed(k, c)' <=> Hashed(k, c)
    BY <1>1 DEF Hashed
  <1>6. ~Sends(w)' /\ phase'[w] # "idle" /\ phase'[w] # "hydrate"
    BY <1>3 DEF Sends, Writing
  <1>7. FromHub(w) => phase'[w] \in ShopLeadPhases
    BY <1>3 DEF ShopLeadPhases
  <1> QED
    BY <1>1, <1>2, <1>4, <1>5, <1>6, <1>7, LeadMoves

LEMMA LeadLook ==
  ASSUME SyncInv, PersonInv, InStep, SourceInv, LeadInv, NEW w \in Workers,
         Only(w), \/ LookHub(w) \/ SearchHub(w) \/ CreateHubConflict(w)
                  \/ UserNotFound(w)
  PROVE  SourceInv' /\ LeadInv'
  <1>1. phase[w] \in Writing /\ phase'[w] \in Writing /\ phase'[w] # "link"
    BY DEF LookHub, SearchHub, CreateHubConflict, UserNotFound, Go, SyncInv,
           TypeOK, LocalsOK, Writing
  <1>2. /\ UNCHANGED <<storeVars, jobs, job, contact, touched, last>>
        /\ rows' = rows /\ contact' = contact
    BY <1>1 DEF LookHub, SearchHub, CreateHubConflict, UserNotFound, OnlyWrite,
                Distorts, tableVars
  <1>3. \A k, c : Hashed(k, c)' <=> Hashed(k, c)
    BY <1>2 DEF Hashed
  <1>4. ~Sends(w)' /\ phase'[w] # "idle" /\ phase'[w] # "hydrate"
        /\ phase[w] \notin HubLeadPhases
    BY <1>1 DEF Sends, Writing, HubLeadPhases
  <1>5. ASSUME ShopLeads, FromHub(w), contact[w].mail = Followed
        PROVE  FALSE
    <2>1. UserNotFound(w)
      <3>1. phase[w] \notin HubWriting
        BY <1>5 DEF SyncInv, WorkerInv, Sides
      <3> QED
        BY <3>1 DEF HubWriting, Writing, ShopWriting, LookHub, SearchHub,
                    CreateHubConflict
    <2>2. PersonHand(w) /\ Users(w) = {}
      BY <2>1, HandFacts DEF UserNotFound
    <2>3. PICK u \in ShopIds : TheUser(u)
      BY <1>5 DEF ShopLeads
    <2>4. RecordId(w) # None => ShopOf(shop, Followed, RecordId(w))
      BY <1>5, <2>2 DEF PersonHand, RecordId, Else, KeysOf
    <2>5. CASE RecordId(w) # None
      BY <2>2, <2>4, <2>5 DEF Users, ShopOf, There, InShop
    <2>6. CASE RecordId(w) = None
      BY <1>5, <2>2, <2>3, <2>6
      DEF Users, ShopMail, TheUser, ShopOf, There, InShop
    <2> QED
      BY <2>5, <2>6
  <1> QED
    BY <1>1, <1>2, <1>3, <1>4, <1>5, LeadMoves

LEMMA LeadHydrate ==
  ASSUME SyncInv, PersonInv, InStep, SourceInv, LeadInv, NEW w \in Workers,
         Only(w), Hydrate(w)
  PROVE  SourceInv' /\ LeadInv'
  <1>1. /\ UNCHANGED <<storeVars, jobs, touched, last>>
        /\ shop' = shop /\ job' = job /\ rows' = rows
        /\ phase[w] = "hydrate" /\ Syncable(w)
        /\ contact'[w] = Source(w) /\ phase'[w] = "findFirst"
    BY DEF Hydrate, storeVars, tableVars, queueVars, countVars, SyncInv,
           TypeOK, LocalsOK
  <1>2. FromHub(w) => contact'[w] = FromHubContact(hub[job[w].id])
    BY <1>1 DEF Source, Syncable
  <1>3. HandIsSource(w)'
    BY <1>1, <1>2 DEF HandIsSource, FromHub, Source, FromHubContact
  <1>4. \A k, c : Hashed(k, c)' <=> Hashed(k, c)
    BY <1>1 DEF Hashed
  <1>5. SourceInv' /\ \A c : Told(c) => Told(c)'
    BY <1>1, <1>3, <1>4, SourceStays, ToldStays DEF Sends
  <1>6. HubLeads /\ job[w].side = "shop" /\ job[w].id = Followed =>
          Told(job[w].body)
    BY DEF HubLeads
  <1>7. LeadInv'
    BY <1>1, <1>2, <1>5, <1>6, LeadStays
    DEF FromHub, Working, HubLeadPhases, ShopLeadPhases
  <1> QED
    BY <1>5, <1>7

(* The row of the followed person is hashed, and who leads is not in work. *)
LEMMA LeadLinks ==
  ASSUME SyncInv, PersonInv, InStep, SourceInv, LeadInv, NEW w \in Workers,
         Only(w), LinkRow(w) \/ Linked(w) \/ RecordSync(w)
  PROVE  SourceInv' /\ LeadInv'
  <1> DEFINE c == contact[w]
  <1>1. /\ UNCHANGED <<storeVars, jobs, job, touched, last>>
        /\ shop' = shop /\ job' = job /\ contact' = contact
    BY MatchFrame DEF LinkRow, Linked, RecordSync, OnlyMatch, queueVars,
                      countVars, storeVars
  <1>2. phase[w] \in {"link", "linked", "record"}
    BY DEF LinkRow, Linked, RecordSync
  <1>3. HandIsSource(w)
    BY DEF SourceInv
  <1>4. /\ FromHub(w) => HubOf(hub, c.mail, job[w].id)
        /\ ~FromHub(w) => job[w].side = "shop" /\ job[w].id = c.mail
    BY <1>2, HandsJob
  <1>5. CASE LinkRow(w) \/ Linked(w)
    <2>1. \A k, n : Hashed(k, n)' <=> Hashed(k, n)
      <3>1. Linked(w) => rows' = rows
        BY DEF Linked, tableVars
      <3> QED
        BY <1>5, <3>1, SerialLinkRow DEF Hashed
    <2>2. phase'[w] \in {"linked", "record"}
      <3>1. LinkRow(w) => phase'[w] \in {"linked", "collide"}
        BY DEF LinkRow, Go, SyncInv, TypeOK, LocalsOK
      <3>2. LinkRow(w) => RowInHand(w)'
        BY SerialLinkRow DEF InStep, SerialWorker
      <3>3. Linked(w) => phase'[w] = "record"
        BY <1>2 DEF Linked, Go, InStep, SerialWorker, RowInHand, Sent, SyncInv,
                    TypeOK, LocalsOK
      <3> QED
        BY <1>5, <3>1, <3>2, <3>3 DEF RowInHand, Begun, Fetched, Sent, Writing
    <2>3. HandIsSource(w)'
      BY <1>1, <1>2, <1>3, <2>2 DEF HandIsSource, FromHub
    <2> QED
      <3>1. SourceInv' /\ \A n : Told(n) => Told(n)'
        BY <1>1, <1>2, <2>1, <2>2, <2>3, SourceStays, ToldStays DEF Sends
      <3>2. LeadInv'
        BY <1>1, <1>2, <1>4, <3>1, LeadStays
        DEF HubLeads, ShopLeads, FromHub, Working
      <3> QED
        BY <3>1, <3>2
  <1>6. CASE RecordSync(w)
    <2>1. \A k, n : IF k = c.mail THEN Hashed(k, n)' <=> n = c
                    ELSE Hashed(k, n)' <=> Hashed(k, n)
      BY <1>6, SerialRecordSync
    <2>2. phase[w] = "record" /\ phase'[w] = "finish"
      BY <1>6 DEF RecordSync, Go, SyncInv, TypeOK, LocalsOK
    <2>3. HandIsSource(w)'
      BY <1>1, <1>3, <2>2 DEF HandIsSource, FromHub
    <2>4. ASSUME NEW n, Told(n)
          PROVE  Told(n)'
      <3>1. \A v \in Workers : ~Sends(v)'
        BY <2>2 DEF Sends, Only
      <3>2. CASE c.mail = Followed
        BY <2>1, <2>2, <2>4, <3>1, <3>2 DEF Told, Sends, Only
      <3>3. CASE c.mail # Followed
        BY <2>1, <2>4, <3>1, <3>3 DEF Told, Sends, Only
      <3> QED
        BY <3>2, <3>3
    <2>5. FirmStays'
      <3>1. SUFFICES ASSUME NEW u \in ShopIds, There(shop[u]),
                            NEW n \in Contact,
                            NEW m, m = shop[u].mail, Hashed(m, n)'
                     PROVE  n.firm \in {None, shop[u].firm}
        BY <1>1 DEF SourceInv, FirmStays
      <3>2. CASE m = c.mail
        <4>1. n = c
          BY <2>1, <3>1, <3>2
        <4>2. CASE FromHub(w)
          BY <1>3, <2>2, <4>1, <4>2 DEF HandIsSource
        <4>3. CASE ~FromHub(w)
          BY <1>3, <1>4, <2>2, <3>1, <3>2, <4>1, <4>3
          DEF HandIsSource, SourceInv, FirmStays
        <4> QED
          BY <4>2, <4>3
      <3>3. CASE m # c.mail
        BY <2>1, <3>1, <3>3 DEF SourceInv, FirmStays
      <3> QED
        BY <3>2, <3>3
    <2>6. LeadInv'
      BY <1>1, <1>2, <1>4, <2>4, LeadStays
      DEF HubLeads, ShopLeads, FromHub, Working
    <2> QED
      BY <2>3, <2>5, <2>6 DEF SourceInv, Only
  <1> QED
    BY <1>5, <1>6

(* A worker that has no more to send returns. *)
LEMMA LeadReturns ==
  ASSUME SyncInv, SourceInv, LeadInv, NEW w \in Workers, Only(w),
         HydrateNothing(w) \/ Skip(w) \/ Finish(w)
  PROVE  SourceInv' /\ LeadInv'
  <1>1. /\ UNCHANGED <<storeVars, jobs, touched, last>>
        /\ shop' = shop /\ rows' = rows /\ jobs' = jobs
        /\ ~Sends(w) /\ phase'[w] = "idle" /\ job'[w] = NoJob
    BY DEF HydrateNothing, Skip, Finish, Return, Forget, Sends, storeVars,
           tableVars, queueVars, countVars, SyncInv, TypeOK, LocalsOK
  <1>2. \A c : Told(c) => Told(c)'
    BY <1>1, ToldStays DEF Sends, Hashed
  <1>3. SourceInv'
    BY <1>1 DEF SourceInv, HandIsSource, FirmStays, Only, Hashed, NoJob
  <1>4. LeadInv'
    BY <1>1, <1>2, LeadStays DEF NoJob
  <1> QED
    BY <1>3, <1>4

LEMMA LeadClaim ==
  ASSUME SyncInv, InStep, SourceInv, LeadInv, NEW w \in Workers, Only(w),
         NEW j \in jobs, Claim(w, j)
  PROVE  SourceInv' /\ LeadInv'
  <1>1. /\ UNCHANGED <<storeVars, touched, last>>
        /\ shop' = shop /\ rows' = rows /\ jobs' \subseteq jobs
        /\ ~Sends(w) /\ phase'[w] = "hydrate" /\ job'[w] = j
    BY DEF Claim, Sends, storeVars, tableVars, countVars, SyncInv, TypeOK,
           LocalsOK
  <1>2. \A c : Told(c) => Told(c)'
    BY <1>1, ToldStays DEF Sends, Hashed
  <1>3. ASSUME NEW u \in ShopIds, There(shop[u]), j.side = "shop",
               j.id = shop[u].mail
        PROVE  j.body.firm = shop[u].firm
    <2>1. Payload(u, shop[u]) = j.body
      BY <1>3 DEF InStep, NewestWaits, ShopIs, ShopOf
    <2> QED
      BY <2>1 DEF Payload
  <1>4. SourceInv'
    BY <1>1, <1>3 DEF SourceInv, HandIsSource, FirmStays, Only, Hashed
  <1>5. HubLeads /\ j.side = "shop" /\ j.id = Followed => Told(j.body)
    BY DEF HubLeads
  <1>6. LeadInv'
    BY <1>1, <1>2, <1>5, LeadStays DEF Waits, HubLeadPhases, ShopLeadPhases
  <1> QED
    BY <1>4, <1>6

(* Records of others are changed: nothing is new of the followed person.   *)
LEMMA LeadOther ==
  ASSUME LeadInv, UNCHANGED <<touched, last, job>>,
         \A h \in HubIds : TheContact(h)' <=> TheContact(h),
         \A h \in HubIds : TheContact(h) =>
           hub'[h] = hub[h] /\ (Waits("hub", h)' => Waits("hub", h)),
         \A u \in ShopIds : TheUser(u)' <=> TheUser(u),
         \A u \in ShopIds : TheUser(u) => shop'[u] = shop[u],
         \A j \in jobs' : j.side = "shop" /\ j.id = Followed => j \in jobs,
         \A c : Told(c) => Told(c)',
         \A w \in Workers :
           \/ phase'[w] = phase[w] /\ contact'[w] = contact[w]
           \/ /\ ~(job[w].side = "shop" /\ job[w].id = Followed)
              /\ ~(FromHub(w) /\ TheContact(job[w].id))
  PROVE  LeadInv'
  <1>1. touched' = touched /\ last' = last /\ job' = job
    OBVIOUS
  <1>2. Unknown => Unknown'
    BY DEF Unknown
  <1>3. HubLeads => HubLeads'
    BY <1>1 DEF HubLeads
  <1>4. HasFirm => HasFirm'
    BY DEF HasFirm
  <1>5. ShopLeads => ShopLeads'
    <2> HAVE ShopLeads
    <2>1. /\ \E u \in ShopIds : TheUser(u)'
          /\ \A u \in ShopIds : TheUser(u)' => shop'[u].name = last'
      BY <1>1 DEF ShopLeads
    <2>2. ASSUME NEW h \in HubIds, TheContact(h)',
                 Waits("hub", h)' \/ Working("hub", h)'
          PROVE  Told(FromHubContact(hub[h]))' \/ HasFirm'
      <3>1. TheContact(h) /\ hub'[h] = hub[h]
        BY <2>2
      <3>2. Waits("hub", h) \/ Working("hub", h)
        BY <1>1, <2>2, <3>1 DEF Working
      <3>3. \A c : c = FromHubContact(hub[h]) => Told(c)' \/ HasFirm'
        BY <1>4, <3>1, <3>2 DEF ShopLeads
      <3> QED
        BY <3>1, <3>3
    <2>3. ASSUME NEW w \in Workers, FromHub(w)', TheContact(job[w].id)'
          PROVE  /\ phase'[w] \in ShopLeadPhases
                 /\ phase'[w] # "hydrate" =>
                      contact'[w] = FromHubContact(hub'[job'[w].id])
                 /\ phase'[w] = "updateShop" => HasFirm'
      <3>1. FromHub(w) /\ job[w].id \in HubIds
        BY <1>1, <2>3 DEF FromHub, TheContact, HubOf
      <3>2. PICK h \in HubIds : h = job[w].id
        BY <3>1
      <3>3. TheContact(h) /\ hub'[h] = hub[h]
        BY <1>1, <2>3, <3>2
      <3>4. phase'[w] = phase[w] /\ contact'[w] = contact[w]
        BY <3>1, <3>2, <3>3
      <3> QED
        BY <1>1, <1>4, <3>1, <3>2, <3>3, <3>4 DEF ShopLeads, ShopLeadPhases
    <2> QED
      BY <2>1, <2>2, <2>3 DEF ShopLeads, ShopLeadPhases
  <1> QED
    BY <1>1, <1>2, <1>3, <1>5 DEF LeadInv

(* A contact is saved: of the shop's jobs, none is new. *)
LEMMA HubJobsOnly ==
  ASSUME NEW h, \/ jobs' \in Queued([side |-> "hub", id |-> h])
                \/ jobs' = jobs
  PROVE  /\ \A j \in jobs' : j.side = "shop" => j \in jobs
         /\ \A g : g # h /\ Waits("hub", g)' => Waits("hub", g)
  BY DEF Queued, Waits

LEMMA ShopJobsOnly ==
  ASSUME NEW u, NEW user, PushShop(u, user)
  PROVE  /\ \A j \in jobs' : j.side = "shop" /\ j.id # user.mail => j \in jobs
         /\ \A h : Waits("hub", h)' => Waits("hub", h)
  BY DEF PushShop, Queued, Waits

LEMMA LeadWriteHub ==
  ASSUME SyncInv, PersonInv, InStep, SourceInv, LeadInv, Followed \in Mails,
         NEW w \in Workers, Only(w),
         (\E h \in HubIds : CreateHub(w, h)) \/ UpdateHub(w)
  PROVE  SourceInv' /\ LeadInv'
  <1> DEFINE m == contact[w].mail
  <1>1. PICK h \in HubIds :
          /\ phase[w] \in {"createHub", "updateHub"}
          /\ SaveHub(h, ToHub(contact[w])) /\ WroteHub(w, h) /\ shop' = shop
          /\ OnlyWrite(w)
          /\ hub[h] = None \/ HubOf(hub, m, h)
    <2>1. phase[w] = "updateHub" => dest[w] \in HubIds /\ HubOf(hub, m, dest[w])
      BY HandFacts DEF SyncInv, WorkerInv, Locals, PersonHand
    <2> QED
      BY <2>1 DEF CreateHub, UpdateHub
  <1>2. ~FromHub(w) /\ job[w].side = "shop" /\ job[w].id = m /\ m \in Mails
        /\ contact[w] \in Contact
    BY <1>1, HandFacts, HandsJob
    DEF SyncInv, WorkerInv, Sides, HubWriting, ShopWriting, Writing
  <1>3. contact[w] = job[w].body
    BY <1>1, <1>2 DEF SourceInv, HandIsSource
  <1>4. /\ rows' = rows /\ job' = job /\ contact' = contact
        /\ phase'[w] = "link" /\ touched' = touched /\ last' = last
    BY <1>1, <1>2, OnlyWriteFacts
    DEF WroteHub, OnlyWrite, Distorts, Go, SyncInv, TypeOK, LocalsOK
  <1>5. /\ hub'[h] = ToHub(contact[w]) /\ \A g \in HubIds \ {h} : hub'[g] = hub[g]
        /\ \A j \in jobs' : j.side = "shop" => j \in jobs
        /\ \A g : g # h /\ Waits("hub", g)' => Waits("hub", g)
    BY <1>1, HubJobsOnly DEF SaveHub, SyncInv, TypeOK, StoreOK
  <1>6. HubOf(hub', m, h)
    <2>1. ToHub(contact[w]) \in HubContact /\ ToHub(contact[w]).mail = m
      BY <1>2 DEF ToHub, HubContact, Contact
    <2> QED
      BY <1>5, <2>1, RecordAssumption DEF HubOf, There
  <1>7. HasUser(m)
    BY <1>2, AtWork
  <1>8. \A k, c : Hashed(k, c)' <=> Hashed(k, c)
    BY <1>4 DEF Hashed
  <1>9. SourceInv'
    <2>1. HandIsSource(w)'
      BY <1>2, <1>3, <1>4 DEF HandIsSource, FromHub
    <2> QED
      BY <1>1, <1>4, <1>8, <2>1, SourceStays
  <1>10. ~Sends(w)
    BY <1>1 DEF Sends
  <1>11. CASE m # Followed
    <2>1. /\ \A g \in HubIds : TheContact(g)' <=> TheContact(g)
          /\ \A g \in HubIds : TheContact(g) => g # h
      BY <1>1, <1>5, <1>6, <1>11 DEF TheContact, HubOf, There
    <2>2. \A c : Told(c) => Told(c)'
      BY <1>4, <1>8, <1>10, <1>11, ToldStays DEF Sends
    <2>3. \A u \in ShopIds : TheUser(u)' <=> TheUser(u)
      BY <1>1 DEF TheUser
    <2>4. \A v \in Workers : /\ ~(job[v].side = "shop" /\ job[v].id = Followed)
                             /\ ~(FromHub(v) /\ TheContact(job[v].id))
      BY <1>2, <1>11 DEF Only
    <2>5. LeadInv'
      BY <1>1, <1>4, <1>5, <2>1, <2>2, <2>3, <2>4, LeadOther
    <2> QED
      BY <1>9, <2>5
  <1>12. CASE m = Followed
    <2>1. ~Unknown /\ ~HubLeads
      BY <1>1, <1>2, <1>7, <1>12 DEF Unknown, HasUser, TheUser, HubLeads
    <2>2. Sends(w)'
      BY <1>4, <1>12 DEF Sends
    <2>3. ASSUME ShopLeads
          PROVE  ShopLeads'
      <3>1. \A u : TheUser(u)' <=> TheUser(u)
        BY <1>1 DEF TheUser
      <3>2. \A g \in HubIds : TheContact(g)' => g = h
        <4>1. OneEach(hub', shop')
          BY PersonWroteHub DEF PersonStep, Grow
        <4> QED
          BY <1>6, <1>12, <4>1 DEF TheContact, OneEach
      <3>3. FromHubContact(hub'[h]) =
              [contact[w] EXCEPT !.firm = None]
        BY <1>2, <1>5 DEF FromHubContact, ToHub, Contact
      <3>4. CASE contact[w].firm = None
        <4>1. FromHubContact(hub'[h]) = contact[w]
          BY <1>2, <3>3, <3>4 DEF Contact
        <4>2. \A c : c = contact[w] => Told(c)'
          BY <1>4, <2>2 DEF Told
        <4>3. Told(FromHubContact(hub[h]))'
          BY <4>1, <4>2
        <4> QED
          BY <1>1, <1>2, <1>4, <2>3, <3>1, <3>2, <4>3
          DEF ShopLeads, Only, FromHub
      <3>5. CASE contact[w].firm # None
        <4>1. \A u \in ShopIds : TheUser(u) => shop[u].firm # None
          BY <1>2, <1>3, <1>12, <3>5 DEF SourceInv, FirmStays, TheUser, ShopOf
        <4>2. HasFirm'
          BY <1>1, <3>1, <4>1 DEF HasFirm
        <4> QED
          BY <1>1, <1>2, <1>4, <2>3, <3>1, <4>2 DEF ShopLeads, Only, FromHub
      <3> QED
        BY <3>4, <3>5
    <2> QED
      BY <1>4, <1>9, <2>1, <2>3 DEF LeadInv
  <1> QED
    BY <1>11, <1>12

LEMMA LeadWroteShop ==
  ASSUME PushAlways, SyncInv, PersonInv, InStep, InStep', SourceInv, LeadInv,
         Followed \in Mails, NEW w \in Workers, Only(w),
         phase[w] \in ShopWriting, OnlyWrite(w),
         NEW u \in ShopIds, NEW new \in ShopUser, SaveShop(u, new),
         WroteShop(w, u), hub' = hub, new.mail = contact[w].mail,
         IF ShopOf(shop, new.mail, u)
         THEN new.firm = Else(contact[w].firm, shop[u].firm)
         ELSE /\ phase[w] = "insertShop" /\ shop[u] = None
              /\ ShopMail(new.mail) = {}
  PROVE  SourceInv' /\ LeadInv'
  <1>1. PICK m \in Mails : m = new.mail
    BY DEF ShopUser
  <1>2. /\ FromHub(w) /\ HubOf(hub, m, job[w].id) /\ contact[w].firm = None
        /\ contact[w].mail = m
    BY <1>1, HandsJob
    DEF SyncInv, WorkerInv, Sides, ShopWriting, SourceInv, HandIsSource
  <1>3. /\ shop'[u] = new /\ \A v \in ShopIds \ {u} : shop'[v] = shop[v]
        /\ PushShop(u, new)
    BY DEF SaveShop, SyncInv, TypeOK, StoreOK
  <1>4. /\ rows' = rows /\ job' = job /\ contact' = contact
        /\ phase'[w] = "link" /\ dest'[w] = u /\ last' = last
        /\ touched' = IF m = Followed /\ Payload(u, new) # contact[w]
                      THEN touched \cup {"echo"} ELSE touched
    <2>1. phase'[w] = "link" /\ dest'[w] = u
      BY DEF WroteShop, Go, SyncInv, TypeOK, LocalsOK
    <2>2. Distorts(w) <=> Payload(u, new) # contact[w]
      BY <1>2, <1>3, <2>1 DEF Distorts
    <2> QED
      BY <1>2, <2>1, <2>2, OnlyWriteFacts DEF OnlyWrite
  <1>5. /\ \A j \in jobs' : j.side = "shop" /\ j.id # m => j \in jobs
        /\ \A h : Waits("hub", h)' => Waits("hub", h)
    BY <1>1, <1>3, ShopJobsOnly
  <1>6. ShopOf(shop', m, u)
    BY <1>1, <1>3, RecordAssumption DEF ShopOf, There
  <1>7. ShopOf(shop, m, u) => new.firm = shop[u].firm
    BY <1>1, <1>2 DEF Else
  <1>8. SourceInv'
    <2>1. HandIsSource(w)'
      BY <1>2, <1>4 DEF HandIsSource, FromHub
    <2>2. FirmStays'
      <3>1. \A x \in Workers : job'[x].side # "shop"
        BY <1>2, <1>4 DEF FromHub, Only
      <3>2. SUFFICES ASSUME NEW v \in ShopIds, There(shop'[v]),
                            NEW k, k = shop'[v].mail,
                            NEW c \in Contact, Hashed(k, c)'
                     PROVE  c.firm \in {None, shop'[v].firm}
        BY <3>1 DEF FirmStays
      <3>3. CASE v # u \/ ShopOf(shop, m, u)
        <4>1. There(shop[v]) /\ shop'[v].mail = shop[v].mail
              /\ shop'[v].firm = shop[v].firm
          BY <1>1, <1>3, <1>7, <3>2, <3>3 DEF ShopOf
        <4> QED
          BY <1>4, <3>2, <4>1 DEF SourceInv, FirmStays, Hashed
      <3>4. CASE v = u /\ ~ShopOf(shop, m, u)
        <4>1. ~HasUser(m)
          BY <1>1, <3>4 DEF HasUser, ShopMail, ShopOf, InShop, There
        <4>2. \A n : ~Hashed(m, n)
          BY <4>1 DEF InStep, HashedHasUser, Hashed
        <4> QED
          BY <1>1, <1>3, <1>4, <3>2, <3>4, <4>2 DEF Hashed
      <3> QED
        BY <3>3, <3>4
    <2> QED
      BY <2>1, <2>2 DEF SourceInv, Only
  <1>9. ~Sends(w) /\ \A k, c : Hashed(k, c)' <=> Hashed(k, c)
    BY <1>4 DEF Sends, ShopWriting, Hashed
  <1>10. CASE m # Followed
    <2>1. /\ \A v \in ShopIds : TheUser(v)' <=> TheUser(v)
          /\ \A v \in ShopIds : TheUser(v) => v # u
      BY <1>1, <1>3, <1>6, <1>10 DEF TheUser, ShopOf, There
    <2>2. \A c : Told(c) => Told(c)'
      BY <1>2, <1>4, <1>9, <1>10, ToldStays DEF Sends
    <2>3. \A h \in HubIds : TheContact(h)' <=> TheContact(h)
      BY DEF TheContact
    <2>4. \A v \in Workers : /\ ~(job[v].side = "shop" /\ job[v].id = Followed)
                             /\ ~(FromHub(v) /\ TheContact(job[v].id))
      BY <1>2, <1>10 DEF Only, FromHub, TheContact, HubOf
    <2>5. LeadInv'
      BY <1>3, <1>4, <1>5, <1>10, <2>1, <2>2, <2>3, <2>4, LeadOther
    <2> QED
      BY <1>8, <2>5
  <1>11. CASE m = Followed
    <2>1. ~Unknown /\ TheContact(job[w].id)
      BY <1>2, <1>11 DEF Unknown, TheContact, HubOf
    <2>2. CASE Payload(u, new) # contact[w]
      <3>1. touched' = touched \cup {"echo"}
        BY <1>4, <1>11, <2>2
      <3>2. touched' # {} /\ touched' # {"hub"} /\ touched' # {"shop"}
        BY <3>1
      <3> QED
        BY <1>8, <3>2 DEF LeadInv
    <2>3. CASE Payload(u, new) = contact[w]
      <3>1. touched' = touched
        BY <1>4, <2>3
      <3>2. \A c : c = contact[w] => Told(c)'
        BY <1>2, <1>4, <1>11 DEF Told, Sends
      <3>3. HubLeads => HubLeads'
        <4>1. \A j \in jobs' : j.side = "shop" /\ j.id = Followed =>
                j.body = contact[w]
          BY <1>3, <1>6, <1>11, <2>3
          DEF InStep, NewestWaits, ShopIs, Payload
        <4>2. \A h : TheContact(h)' <=> TheContact(h)
          BY DEF TheContact
        <4> QED
          BY <1>2, <1>4, <3>2, <4>1, <4>2 DEF HubLeads, Only, FromHub
      <3>4. ~ShopLeads
        <4>1. SUFFICES ASSUME ShopLeads PROVE FALSE
          OBVIOUS
        <4>2. phase[w] = "updateShop" /\ HasFirm
          BY <1>2, <2>1, <4>1 DEF ShopLeads, ShopWriting
        <4>3. ShopOf(shop, m, u)
          BY <1>1, <4>2
        <4>4. new.firm # None
          BY <1>7, <1>11, <4>2, <4>3 DEF HasFirm, TheUser
        <4> QED
          BY <1>2, <2>3, <4>4 DEF Payload
      <3> QED
        BY <1>8, <2>1, <3>1, <3>3, <3>4 DEF LeadInv
    <2> QED
      BY <2>2, <2>3
  <1> QED
    BY <1>10, <1>11

LEMMA LeadWriteShop ==
  ASSUME PushAlways, SyncInv, PersonInv, InStep, InStep', SourceInv, LeadInv,
         Followed \in Mails, NEW w \in Workers, Only(w),
         UpdateShop(w) \/ \E u \in ShopIds : InsertShop(w, u)
  PROVE  SourceInv' /\ LeadInv'
  <1> DEFINE m == contact[w].mail
  <1>1. CASE UpdateShop(w)
    <2>1. phase[w] = "updateShop" /\ hub' = hub /\ OnlyWrite(w)
      BY <1>1 DEF UpdateShop
    <2>2. PICK u \in Users(w) :
            SaveShop(u, ToShop(contact[w], shop[u])) /\ WroteShop(w, u)
      BY <1>1 DEF UpdateShop
    <2>3. ShopOf(shop, m, u) /\ contact[w] \in Contact
      <3>1. PersonHand(w) /\ contact[w] \in Contact
        BY <2>1, HandFacts
      <3>2. CASE RecordId(w) # None
        BY <2>2, <3>1, <3>2 DEF Users, RecordId, Else, PersonHand, KeysOf
      <3>3. CASE RecordId(w) = None
        BY <2>2, <3>1, <3>3 DEF Users, ShopMail, ShopOf, InShop, There
      <3> QED
        BY <3>2, <3>3
    <2>4. u \in ShopIds /\ shop[u] \in ShopUser /\ shop[u].mail = m
      BY <2>3, ShopRecord DEF ShopOf, There, InShop, SyncInv, TypeOK
    <2>5. /\ ToShop(contact[w], shop[u]) \in ShopUser
          /\ ToShop(contact[w], shop[u]).mail = m
          /\ ToShop(contact[w], shop[u]).firm = Else(contact[w].firm, shop[u].firm)
      BY <2>3, <2>4, ToShopFacts DEF ToShop, ShopUser
    <2> QED
      BY <2>1, <2>2, <2>3, <2>4, <2>5, LeadWroteShop DEF ShopWriting
  <1>2. ASSUME NEW u \in ShopIds, InsertShop(w, u)
        PROVE  SourceInv' /\ LeadInv'
    <2> DEFINE blank == [mail |-> m, name |-> None, firm |-> None]
    <2>1. /\ phase[w] = "insertShop" /\ hub' = hub /\ OnlyWrite(w)
          /\ shop[u] = None /\ ShopMail(m) = {}
          /\ SaveShop(u, ToShop(contact[w], blank)) /\ WroteShop(w, u)
      BY <1>2 DEF InsertShop
    <2>2. contact[w] \in Contact /\ m \in Mails
      BY <2>1, HandFacts
    <2>3. blank \in ShopUser /\ blank.mail = m
      BY <2>2 DEF ShopUser, Maybe
    <2> HIDE DEF blank
    <2>4. ToShop(contact[w], blank) \in ShopUser
          /\ ToShop(contact[w], blank).mail = m
      BY <2>2, <2>3, ToShopFacts DEF ToShop, ShopUser
    <2>5. ~ShopOf(shop, m, u)
      BY <2>1 DEF ShopOf, There
    <2> QED
      BY <2>1, <2>4, <2>5, LeadWroteShop DEF ShopWriting
  <1> QED
    BY <1>1, <1>2

-----------------------------------------------------------------------------
(* People edit the followed person, and events are sent again.             *)

(* Nothing is told of a person nobody knows, or in a quiet system. *)
LEMMA NothingOfUnknown ==
  ASSUME PersonInv, InStep, Followed \in Mails, Quiet \/ Unknown
  PROVE  /\ \A j \in jobs : ~(j.side = "shop" /\ j.id = Followed)
         /\ \A w \in Workers : ~(job[w].side = "shop" /\ job[w].id = Followed)
         /\ \A h \in HubIds : TheContact(h) =>
              ~Waits("hub", h) /\ ~Working("hub", h)
         /\ \A w \in Workers : ~(FromHub(w) /\ TheContact(job[w].id))
  <1>1. CASE Quiet
    <2>1. \A w \in Workers : job[w].side \notin {"hub", "shop"}
      BY <1>1, AtWork DEF Quiet
    <2> QED
      BY <1>1, <2>1 DEF Quiet, Waits, Working, FromHub
  <1>2. CASE Unknown
    <2>1. ~HasUser(Followed)
      BY <1>2 DEF Unknown, HasUser, TheUser
    <2>2. \A h : ~TheContact(h)
      BY <1>2 DEF Unknown, TheContact, HubOf
    <2> QED
      BY <2>1, <2>2, AtWork DEF InStep, NewestWaits
  <1> QED
    BY <1>1, <1>2

LEMMA ToldByPeople ==
  ASSUME UNCHANGED <<rows, phase, contact>>
  PROVE  \A c : Told(c)' <=> Told(c)
  BY DEF Told, Sends, Hashed

(* What a contact holds is told, unless it is to be synced anyway.         *)
LEMMA ContactIsTold ==
  ASSUME SyncInv, PersonInv, InStep, SourceInv, Followed \in Mails, ShopLeads,
         NEW h \in HubIds, TheContact(h), \A v, w \in Workers : v = w
  PROVE  Told(FromHubContact(hub[h])) \/ HasFirm
  <1>1. SUFFICES ASSUME ~Waits("hub", h), ~Working("hub", h)
                 PROVE  Told(FromHubContact(hub[h])) \/ HasFirm
    BY DEF ShopLeads
  <1>2. PICK c \in Contact : Hashed(Followed, c) /\ hub[h] = ToHub(c)
    BY <1>1 DEF InStep, HubHashed, HashedHub, TheContact
  <1>3. ASSUME NEW n \in Contact, hub[h] = ToHub(n), n.firm = None
        PROVE  n = FromHubContact(hub[h])
    BY <1>3 DEF ToHub, FromHubContact, Contact
  <1>4. CASE \A w \in Workers : ~Sends(w)
    <2>1. CASE c.firm = None
      BY <1>2, <1>3, <1>4, <2>1 DEF Told
    <2>2. CASE c.firm # None
      <3>1. \A u \in ShopIds : TheUser(u) => shop[u].firm = c.firm
        BY <1>2, <2>2 DEF SourceInv, FirmStays, TheUser, ShopOf
      <3> QED
        BY <2>2, <3>1 DEF HasFirm
    <2> QED
      BY <2>1, <2>2
  <1>5. ASSUME NEW w \in Workers, Sends(w)
        PROVE  Told(FromHubContact(hub[h])) \/ HasFirm
    <2>1. phase[w] \in {"link", "linked", "record"} /\ contact[w].mail = Followed
      BY <1>5 DEF Sends
    <2>2. /\ contact[w] \in Contact
          /\ FromHub(w) => TheContact(job[w].id)
          /\ ~FromHub(w) => job[w].side = "shop" /\ job[w].id = Followed
      BY <2>1, HandFacts, HandsJob DEF TheContact
    <2>3. ~FromHub(w)
      BY <2>1, <2>2 DEF ShopLeads
    <2>4. hub[h] = ToHub(contact[w])
      BY <1>1, <2>1, <2>3
      DEF InStep, SerialWorker, SentTells, Sent, HubTells, TheContact
    <2>5. CASE contact[w].firm = None
      BY <1>3, <1>5, <2>2, <2>4, <2>5 DEF Told
    <2>6. CASE contact[w].firm # None
      <3>1. contact[w] = job[w].body
        BY <2>1, <2>3 DEF SourceInv, HandIsSource
      <3>2. \A u \in ShopIds : TheUser(u) => shop[u].firm = contact[w].firm
        BY <2>2, <2>3, <3>1 DEF SourceInv, FirmStays, TheUser, ShopOf
      <3> QED
        BY <2>6, <3>2 DEF HasFirm
    <2> QED
      BY <2>5, <2>6
  <1> QED
    BY <1>4, <1>5

(* What a user holds is told. *)
LEMMA UserIsTold ==
  ASSUME SyncInv, PersonInv, InStep, SourceInv, Followed \in Mails, HubLeads,
         NEW u \in ShopIds, TheUser(u), \A v, w \in Workers : v = w
  PROVE  Told(Payload(u, shop[u]))
  <1> DEFINE c == Payload(u, shop[u])
  <1>1. CASE Waits("shop", Followed)
    <2>1. PICK j \in jobs : j.side = "shop" /\ j.id = Followed
      BY <1>1 DEF Waits
    <2>2. Told(j.body) /\ j.body = c
      BY <2>1 DEF HubLeads, InStep, NewestWaits, ShopIs, TheUser
    <2> QED
      BY <2>2
  <1>2. CASE ~Waits("shop", Followed) /\ Working("shop", Followed)
    <2>1. PICK w \in Workers : job[w].side = "shop" /\ job[w].id = Followed
      BY <1>2 DEF Working
    <2>2. Told(job[w].body) /\ phase[w] \in HubLeadPhases
      BY <2>1 DEF HubLeads, HubLeadPhases
    <2>3. SourceTells(w) /\ ~FromHub(w)
      BY <2>1 DEF InStep, SerialWorker, FromHub
    <2>4. CASE phase[w] = "hydrate"
      <3>1. c = job[w].body
        BY <1>2, <2>1, <2>3, <2>4 DEF SourceTells, ShopTells, ShopIs, TheUser
      <3> QED
        BY <2>2, <3>1
    <2>5. CASE phase[w] # "hydrate"
      <3>1. contact[w] = job[w].body /\ contact[w].mail = Followed
        BY <2>1, <2>2, <2>3, <2>5, HandsJob
        DEF SourceInv, HandIsSource, HubLeadPhases
      <3>2. c = contact[w]
        BY <1>2, <2>2, <2>3, <2>5, <3>1
        DEF SourceTells, ShopTells, ShopIs, TheUser, HubLeadPhases, Begun,
            Fetched
      <3> QED
        BY <2>2, <3>1, <3>2
    <2> QED
      BY <2>4, <2>5
  <1>3. CASE ~Waits("shop", Followed) /\ ~Working("shop", Followed)
    <2>1. Hashed(Followed, c)
      BY <1>3 DEF InStep, ShopHashed, TheUser
    <2>2. ASSUME NEW w \in Workers, Sends(w)
          PROVE  Told(c)
      <3>1. phase[w] \in {"link", "linked", "record"} /\ contact[w].mail = Followed
        BY <2>2 DEF Sends
      <3>2. FromHub(w)
        BY <1>3, <3>1, HandsJob DEF Working
      <3>3. c = contact[w]
        BY <1>3, <3>1, <3>2
        DEF InStep, SerialWorker, SentTells, Sent, ShopTells, ShopIs, TheUser
      <3> QED
        BY <2>2, <3>3 DEF Told
    <2> QED
      BY <2>1, <2>2 DEF Told
  <1> QED
    BY <1>1, <1>2, <1>3

LEMMA LeadHubUser ==
  ASSUME Steady, SyncInv, PersonInv, InStep, SourceInv, LeadInv,
         Followed \in Mails, \A v, w \in Workers : v = w,
         NEW h \in HubIds, HubUser(h)
  PROVE  SourceInv' /\ LeadInv'
  <1>1. /\ rows' = rows /\ phase' = phase /\ job' = job /\ contact' = contact
        /\ shop' = shop
    <2>1. UNCHANGED <<tableVars, phase, localVars>>
      BY HubUserStep DEF SyncInv
    <2> QED
      BY <2>1 DEF tableVars, localVars, HubUser, HubCreate, HubEdit,
                  HubNewMail, HubDelete, HubAgain, Again, storeVars
  <1>2. SourceInv'
    BY <1>1 DEF SourceInv, HandIsSource, FirmStays, FromHub, Hashed
  <1>3. \A c : Told(c)' <=> Told(c)
    BY <1>1, ToldByPeople
  <1>4. \A u \in ShopIds : TheUser(u)' <=> TheUser(u)
    BY <1>1 DEF TheUser
  <1>5. ASSUME NEW kind, NEW n, NEW new, SaveHub(h, new), new # None, new # Gone,
               new.name = n, There(hub[h]) => new.mail = hub[h].mail,
               Edit(kind, "hub", {new.mail}, n)
        PROVE  LeadInv'
    <2>1. /\ hub'[h] = new /\ \A g \in HubIds \ {h} : hub'[g] = hub[g]
          /\ \A j \in jobs' : j.side = "shop" => j \in jobs
          /\ \A g : g # h /\ Waits("hub", g)' => Waits("hub", g)
      BY <1>5, HubJobsOnly DEF SaveHub, SyncInv, TypeOK, StoreOK
    <2>2. CASE new.mail # Followed
      <3>1. touched' = touched /\ last' = last
        BY <1>5, <2>2 DEF Edit
      <3>2. /\ \A g \in HubIds : TheContact(g)' <=> TheContact(g)
            /\ \A g \in HubIds : TheContact(g) => g # h
        BY <1>5, <2>1, <2>2 DEF TheContact, HubOf, There
      <3> QED
        BY <1>1, <1>3, <1>4, <2>1, <3>1, <3>2, LeadOther
    <2>3. CASE new.mail = Followed
      <3>1. touched' = (IF Quiet THEN {} ELSE touched) \cup {"hub"} /\ last' = n
        BY <1>5, <2>3, ConstantFacts DEF Edit
      <3>2. TheContact(h)'
        BY <1>5, <2>1, <2>3 DEF TheContact, HubOf, There
      <3>3. \A g \in HubIds : TheContact(g)' => g = h
        <4>1. OneEach(hub', shop')
          BY PersonHubUser DEF PersonStep, Grow
        <4> QED
          BY <3>2, <4>1 DEF TheContact, OneEach
      <3>4. ASSUME touched' = {"hub"}
            PROVE  HubLeads'
        <4>1. Quiet \/ touched = {} \/ touched = {"hub"}
          BY <3>1, <3>4
        <4>2. Quiet \/ Unknown \/ HubLeads
          BY <4>1 DEF LeadInv
        <4>3. /\ \A j \in jobs : j.side = "shop" /\ j.id = Followed =>
                   Told(j.body)
              /\ \A w \in Workers : job[w].side = "shop" /\ job[w].id = Followed =>
                   /\ Told(job[w].body)
                   /\ phase[w] \in HubLeadPhases
          BY <4>2, NothingOfUnknown DEF HubLeads, HubLeadPhases
        <4>4. \A w \in Workers : job[w].side = "shop" /\ job[w].id = Followed =>
                Told(job[w].body)'
          BY <1>1, <1>3, <4>3
        <4> QED
          BY <1>1, <1>3, <1>5, <2>1, <3>1, <3>2, <3>3, <4>3, <4>4
          DEF HubLeads, HubLeadPhases
      <3> QED
        BY <3>1, <3>4 DEF LeadInv
    <2> QED
      BY <2>2, <2>3
  <1>6. ASSUME HubAgain(h)
        PROVE  LeadInv'
    <2>1. /\ hub' = hub /\ touched' = touched /\ last' = last
          /\ jobs' \in Queued([side |-> "hub", id |-> h])
      BY <1>6 DEF HubAgain, Again, storeVars
    <2>2. /\ \A j \in jobs' : j.side = "shop" => j \in jobs
          /\ \A g : g # h /\ Waits("hub", g)' => Waits("hub", g)
      BY <2>1, HubJobsOnly
    <2>3. \A g : TheContact(g)' <=> TheContact(g)
      BY <2>1 DEF TheContact
    <2>4. CASE TheContact(h)
      <3>1. Unknown => Unknown'
        BY <1>4, <2>3 DEF Unknown
      <3>2. HubLeads => HubLeads'
        BY <1>1, <1>3, <2>1, <2>2, <2>3 DEF HubLeads
      <3>3. ASSUME ShopLeads
            PROVE  ShopLeads'
        <4>1. HasFirm' <=> HasFirm
          BY <1>1, <1>4 DEF HasFirm
        <4>2. Told(FromHubContact(hub[h])) \/ HasFirm
          BY <2>4, <3>3, ContactIsTold
        <4>3. \A g \in HubIds : TheContact(g) =>
                (Waits("hub", g)' \/ Working("hub", g)' =>
                   Told(FromHubContact(hub[g])) \/ HasFirm)
          <5>1. \A g : Working("hub", g)' <=> Working("hub", g)
            BY <1>1 DEF Working
          <5> QED
            BY <2>2, <3>3, <4>2, <5>1 DEF ShopLeads
        <4>4. \A g \in HubIds : Told(FromHubContact(hub[g])) =>
                Told(FromHubContact(hub[g]))'
          BY <1>3, <2>1
        <4>5. \A w : FromHub(w)' <=> FromHub(w)
          BY <1>1 DEF FromHub
        <4>6. \A w \in Workers : FromHub(w)' /\ TheContact(job[w].id)' =>
                FromHub(w) /\ TheContact(job[w].id)
          BY <1>1, <2>3, <4>5
        <4> QED
          BY <1>1, <1>4, <2>1, <2>3, <3>3, <4>1, <4>3, <4>4, <4>6 DEF ShopLeads
      <3> QED
        BY <2>1, <3>1, <3>2, <3>3 DEF LeadInv
    <2>5. CASE ~TheContact(h)
      BY <1>1, <1>3, <1>4, <2>1, <2>2, <2>3, <2>5, LeadOther
    <2> QED
      BY <2>4, <2>5
  <1>7. ASSUME NEW m \in Maybe(Mails), NEW n \in Maybe(Names), HubCreate(h, m, n)
        PROVE  LeadInv'
    <2> DEFINE new == [mail |-> m, name |-> n, ox |-> None]
    <2>1. new \in HubContact /\ new.mail = m /\ new.name = n
      BY DEF HubContact, Maybe
    <2>2. PICK kind : SaveHub(h, new) /\ ~There(hub[h]) /\ Edit(kind, "hub", {m}, n)
      BY <1>7 DEF HubCreate, There
    <2>3. new # None /\ new # Gone
      BY <2>1, RecordAssumption
    <2> HIDE DEF new
    <2> QED
      BY <1>5, <2>1, <2>2, <2>3
  <1>8. ASSUME NEW n \in Maybe(Names), HubEdit(h, n)
        PROVE  LeadInv'
    <2> DEFINE new == [hub[h] EXCEPT !.name = n]
    <2>1. PICK kind : /\ InHub(h) /\ SaveHub(h, new)
                      /\ Edit(kind, "hub", {hub[h].mail}, n)
      BY <1>8 DEF HubEdit
    <2>2. hub[h] \in HubContact
      BY <2>1, HubRecord DEF SyncInv, TypeOK
    <2>3. new \in HubContact /\ new.mail = hub[h].mail /\ new.name = n
      BY <2>2 DEF HubContact
    <2>4. new # None /\ new # Gone
      BY <2>3, RecordAssumption
    <2> HIDE DEF new
    <2> QED
      BY <1>5, <2>1, <2>3, <2>4
  <1>9. ~HubDelete(h) /\ \A m \in Maybe(Mails) : ~HubNewMail(h, m)
    BY DEF HubDelete, HubNewMail, Edit, Steady
  <1> QED
    BY <1>2, <1>6, <1>7, <1>8, <1>9 DEF HubUser

LEMMA LeadShopUser ==
  ASSUME Steady, PushAlways, SyncInv, PersonInv, InStep, InStep', SourceInv,
         LeadInv, Followed \in Mails, \A v, w \in Workers : v = w,
         NEW u \in ShopIds, ShopUserStep(u)
  PROVE  SourceInv' /\ LeadInv'
  <1>1. /\ rows' = rows /\ phase' = phase /\ job' = job /\ contact' = contact
        /\ hub' = hub
    <2>1. UNCHANGED <<tableVars, phase, localVars>>
      BY ShopUserStepFacts DEF SyncInv
    <2> QED
      BY <2>1 DEF tableVars, localVars, ShopUserStep, ShopCreate, ShopEdit,
                  ShopNewMail, ShopDelete, ShopAgain, Again, storeVars
  <1>2. \A c : Told(c)' <=> Told(c)
    BY <1>1, ToldByPeople
  <1>3. \A h : TheContact(h)' <=> TheContact(h)
    BY <1>1 DEF TheContact
  <1>4. /\ \A k, c : Hashed(k, c)' <=> Hashed(k, c)
        /\ \A w \in Workers : HandIsSource(w)'
    BY <1>1 DEF Hashed, SourceInv, HandIsSource, FromHub
  <1>5. ASSUME NEW kind, NEW n, NEW new \in ShopUser, SaveShop(u, new),
               new.name = n,
               There(shop[u]) =>
                 new.mail = shop[u].mail /\ new.firm = shop[u].firm,
               ~There(shop[u]) => ShopMail(new.mail) = {},
               Edit(kind, "shop", {new.mail}, n)
        PROVE  SourceInv' /\ LeadInv'
    <2>1. PICK m \in Mails : m = new.mail
      BY DEF ShopUser
    <2>2. /\ shop'[u] = new /\ \A v \in ShopIds \ {u} : shop'[v] = shop[v]
          /\ PushShop(u, new)
      BY <1>5 DEF SaveShop, SyncInv, TypeOK, StoreOK
    <2>3. /\ \A j \in jobs' : j.side = "shop" /\ j.id # m => j \in jobs
          /\ \A h : Waits("hub", h)' => Waits("hub", h)
      BY <2>1, <2>2, ShopJobsOnly
    <2>4. There(new)
      BY RecordAssumption DEF There
    <2>5. ~There(shop[u]) => ~HasUser(m)
      BY <1>5, <2>1 DEF HasUser, ShopMail, ShopOf, InShop, There
    <2>6. SourceInv'
      <3>1. SUFFICES ASSUME NEW v \in ShopIds, There(shop'[v]),
                            NEW k, k = shop'[v].mail
                     PROVE  /\ \A c \in Contact : Hashed(k, c)' =>
                                 c.firm \in {None, shop'[v].firm}
                            /\ \A w \in Workers :
                                 job'[w].side = "shop" /\ job'[w].id = k =>
                                   job'[w].body.firm = shop'[v].firm
        BY <1>4 DEF SourceInv, FirmStays, Hashed
      <3>2. CASE v # u \/ There(shop[u])
        <4>1. /\ There(shop[v]) /\ shop'[v].mail = shop[v].mail
              /\ shop'[v].firm = shop[v].firm
          BY <1>5, <2>2, <3>1, <3>2
        <4> QED
          BY <1>1, <1>4, <3>1, <4>1 DEF SourceInv, FirmStays
      <3>3. CASE v = u /\ ~There(shop[u])
        <4>1. k = m /\ ~HasUser(m)
          BY <2>1, <2>2, <2>5, <3>1, <3>3
        <4>2. \A c : ~Hashed(m, c)
          BY <4>1 DEF InStep, HashedHasUser, Hashed
        <4>3. \A w \in Workers : ~(job[w].side = "shop" /\ job[w].id = m)
          BY <4>1, AtWork
        <4> QED
          BY <1>1, <1>4, <4>1, <4>2, <4>3
      <3> QED
        BY <3>2, <3>3
    <2>7. CASE m # Followed
      <3>1. touched' = touched /\ last' = last
        BY <1>5, <2>1, <2>7 DEF Edit
      <3>2. /\ \A v \in ShopIds : TheUser(v)' <=> TheUser(v)
            /\ \A v \in ShopIds : TheUser(v) => v # u
        BY <1>5, <2>1, <2>2, <2>4, <2>7 DEF TheUser, ShopOf, There
      <3>3. LeadInv'
        BY <1>1, <1>2, <1>3, <2>2, <2>3, <2>7, <3>1, <3>2, LeadOther
      <3> QED
        BY <2>6, <3>3
    <2>8. CASE m = Followed
      <3>1. touched' = (IF Quiet THEN {} ELSE touched) \cup {"shop"} /\ last' = n
        BY <1>5, <2>1, <2>8, ConstantFacts DEF Edit
      <3>2. TheUser(u)'
        BY <2>1, <2>2, <2>4, <2>8 DEF TheUser, ShopOf
      <3>3. \A v \in ShopIds : TheUser(v)' => v = u
        BY <3>2 DEF TheUser, InStep, OneUserEach
      <3>4. ASSUME touched' = {"shop"}
            PROVE  ShopLeads'
        <4>1. Quiet \/ touched = {} \/ touched = {"shop"}
          BY <3>1, <3>4
        <4>2. Quiet \/ Unknown \/ ShopLeads
          BY <4>1 DEF LeadInv
        <4>3. CASE Quiet \/ Unknown
          <5>1. /\ \A h \in HubIds : TheContact(h) =>
                     ~Waits("hub", h) /\ ~Working("hub", h)
                /\ \A w \in Workers : ~(FromHub(w) /\ TheContact(job[w].id))
            BY <4>3, NothingOfUnknown
          <5>2. \A h : Working("hub", h)' <=> Working("hub", h)
            BY <1>1 DEF Working
          <5>3. \A w : (FromHub(w) /\ TheContact(job[w].id))' <=>
                         FromHub(w) /\ TheContact(job[w].id)
            BY <1>1 DEF FromHub, TheContact
          <5> QED
            BY <1>3, <1>5, <2>2, <2>3, <3>1, <3>2, <3>3, <5>1, <5>2, <5>3
            DEF ShopLeads
        <4>4. CASE ShopLeads
          <5>1. There(shop[u])
            <6>1. HasUser(m)
              BY <2>8, <4>4 DEF ShopLeads, HasUser, TheUser
            <6> QED
              BY <2>5, <6>1
          <5>2. HasFirm => HasFirm'
            <6>1. TheUser(u)
              BY <1>5, <2>1, <2>8, <5>1 DEF TheUser, ShopOf
            <6> QED
              BY <1>5, <2>2, <3>3, <5>1, <6>1 DEF HasFirm
          <5>3. \A h \in HubIds : TheContact(h) =>
                  (Waits("hub", h)' \/ Working("hub", h)' =>
                     Told(FromHubContact(hub[h])) \/ HasFirm)
            <6>1. \A h : Working("hub", h)' <=> Working("hub", h)
              BY <1>1 DEF Working
            <6> QED
              BY <2>3, <4>4, <6>1 DEF ShopLeads
          <5>4. \A h \in HubIds : Told(FromHubContact(hub[h])) =>
                  Told(FromHubContact(hub[h]))'
            BY <1>1, <1>2
          <5>5. \A w : (FromHub(w) /\ TheContact(job[w].id))' <=>
                         FromHub(w) /\ TheContact(job[w].id)
            BY <1>1 DEF FromHub, TheContact
          <5> QED
            BY <1>1, <1>3, <1>5, <2>2, <3>1, <3>2, <3>3, <4>4, <5>2, <5>3,
               <5>4, <5>5
            DEF ShopLeads
        <4> QED
          BY <4>2, <4>3, <4>4
      <3> QED
        BY <2>6, <3>1, <3>4 DEF LeadInv
    <2> QED
      BY <2>7, <2>8
  <1>6. ASSUME ShopAgain(u)
        PROVE  SourceInv' /\ LeadInv'
    <2>1. /\ shop' = shop /\ touched' = touched /\ last' = last
          /\ InShop(u) /\ PushShop(u, shop[u])
      BY <1>6 DEF ShopAgain, Again, storeVars
    <2>2. /\ \A j \in jobs' : j.side = "shop" /\ j.id # shop[u].mail => j \in jobs
          /\ \A h : Waits("hub", h)' => Waits("hub", h)
      BY <2>1, ShopJobsOnly
    <2>3. \A v : TheUser(v)' <=> TheUser(v)
      BY <2>1 DEF TheUser
    <2>4. SourceInv'
      BY <1>1, <1>4, <2>1 DEF SourceInv, FirmStays
    <2>5. CASE TheUser(u)
      <3>1. Unknown => Unknown'
        BY <1>3, <2>3 DEF Unknown
      <3>2. ASSUME HubLeads
            PROVE  HubLeads'
        <4>1. Told(Payload(u, shop[u]))
          BY <2>5, <3>2, UserIsTold
        <4>2. ASSUME NEW j \in jobs', j.side = "shop", j.id = Followed
              PROVE  Told(j.body)
          <5>1. Payload(u, shop[u]) = j.body
            BY <2>1, <2>5, <4>2
            DEF InStep, NewestWaits, ShopIs, Payload, TheUser
          <5> QED
            BY <4>1, <5>1
        <4>3. \A w \in Workers : job[w].side = "shop" /\ job[w].id = Followed =>
                Told(job[w].body)'
          BY <1>1, <1>2, <3>2 DEF HubLeads
        <4> QED
          BY <1>1, <1>2, <1>3, <2>1, <3>2, <4>2, <4>3 DEF HubLeads
      <3>3. ASSUME ShopLeads
            PROVE  ShopLeads'
        <4>1. HasFirm' <=> HasFirm
          BY <2>1, <2>3 DEF HasFirm
        <4>2. \A h \in HubIds : TheContact(h) =>
                (Waits("hub", h)' \/ Working("hub", h)' =>
                   Told(FromHubContact(hub[h])) \/ HasFirm)
          <5>1. \A h : Working("hub", h)' <=> Working("hub", h)
            BY <1>1 DEF Working
          <5> QED
            BY <2>2, <3>3, <5>1 DEF ShopLeads
        <4>3. \A h \in HubIds : Told(FromHubContact(hub[h])) =>
                Told(FromHubContact(hub[h]))'
          BY <1>1, <1>2
        <4>4. \A w : (FromHub(w) /\ TheContact(job[w].id))' <=>
                       FromHub(w) /\ TheContact(job[w].id)
          BY <1>1 DEF FromHub, TheContact
        <4> QED
          BY <1>1, <1>3, <2>1, <2>3, <3>3, <4>1, <4>2, <4>3, <4>4 DEF ShopLeads
      <3> QED
        BY <2>1, <2>4, <3>1, <3>2, <3>3 DEF LeadInv
    <2>6. CASE ~TheUser(u)
      <3>1. shop[u].mail # Followed
        BY <2>1, <2>6 DEF TheUser, ShopOf, InShop, There
      <3>2. LeadInv'
        BY <1>1, <1>2, <1>3, <2>1, <2>2, <2>3, <3>1, LeadOther
      <3> QED
        BY <2>4, <3>2
    <2> QED
      BY <2>5, <2>6
  <1>7. ASSUME NEW m \in Mails, NEW n \in Names, NEW f \in Maybe(Firms),
               ShopCreate(u, m, n, f)
        PROVE  SourceInv' /\ LeadInv'
    <2> DEFINE new == [mail |-> m, name |-> n, firm |-> f]
    <2>1. new \in ShopUser /\ new.mail = m /\ new.name = n
      BY DEF ShopUser, Maybe
    <2>2. PICK kind : /\ SaveShop(u, new) /\ ~There(shop[u]) /\ ShopMail(m) = {}
                      /\ Edit(kind, "shop", {m}, n)
      BY <1>7 DEF ShopCreate, There
    <2> HIDE DEF new
    <2> QED
      BY <1>5, <2>1, <2>2
  <1>8. ASSUME NEW n \in Maybe(Names), ShopEdit(u, n)
        PROVE  SourceInv' /\ LeadInv'
    <2> DEFINE new == [shop[u] EXCEPT !.name = n]
    <2>1. PICK kind : /\ InShop(u) /\ SaveShop(u, new)
                      /\ Edit(kind, "shop", {shop[u].mail}, n)
      BY <1>8 DEF ShopEdit
    <2>2. shop[u] \in ShopUser /\ There(shop[u])
      BY <2>1, ShopRecord DEF InShop, There, SyncInv, TypeOK
    <2>3. /\ new \in ShopUser /\ new.mail = shop[u].mail /\ new.name = n
          /\ new.firm = shop[u].firm
      BY <2>2 DEF ShopUser
    <2> HIDE DEF new
    <2> QED
      BY <1>5, <2>1, <2>2, <2>3
  <1>9. ~ShopDelete(u) /\ \A m \in Mails : ~ShopNewMail(u, m)
    BY DEF ShopDelete, ShopNewMail, Edit, Steady
  <1> QED
    BY <1>6, <1>7, <1>8, <1>9 DEF ShopUserStep

-----------------------------------------------------------------------------
(* The invariant and what it implies.                                      *)

LEMMA LeadSyncContact ==
  ASSUME PushAlways, SyncInv, PersonInv, InStep, InStep', SourceInv, LeadInv,
         Followed \in Mails, NEW w \in Workers, Only(w), SyncContact(w),
         failed' = {}
  PROVE  SourceInv' /\ LeadInv'
  <1>1. ~UpdateHubRefused(w) /\ ~InsertShopRefused(w)
    BY DEF UpdateHubRefused, InsertShopRefused, GiveUp
  <1>2. CASE Match(w)
    BY <1>2, LeadMatch, NoInsertClash, SerialNever DEF Match
  <1>3. CASE LinkCounterpart(w) \/ RecordSync(w)
    BY <1>3, LeadLinks, SerialNever DEF LinkCounterpart
  <1>4. CASE WriteToHubspot(w)
    BY <1>1, <1>4, LeadLook, LeadWriteHub DEF WriteToHubspot
  <1>5. CASE WriteToOxid(w)
    BY <1>1, <1>5, LeadLook, LeadWriteShop DEF WriteToOxid
  <1> QED
    BY <1>2, <1>3, <1>4, <1>5, LeadClaim, LeadReturns, LeadHydrate, LeadProceed
    DEF SyncContact

(* Nobody is followed: nothing is recorded of anyone. *)
LEMMA NobodyFollowed ==
  ASSUME SyncInv, PersonInv, Followed = None, touched = {}, [Next]_vars
  PROVE  touched' = {}
  <1>1. ASSUME NEW kind, NEW system, NEW people, NEW name,
               Edit(kind, system, people, name)
        PROVE  touched' = {}
    BY <1>1 DEF Edit
  <1>2. ASSUME NEW w \in Workers, OnlyWrite(w), phase[w] \in Writing
        PROVE  touched' = {}
    <2>1. contact[w].mail # None
      BY <1>2, HandFacts DEF Writing
    <2> QED
      BY <1>2, <2>1 DEF OnlyWrite
  <1>3. ASSUME NEW h \in HubIds, HubUser(h)
        PROVE  touched' = {}
    BY <1>1, <1>3 DEF HubUser, HubCreate, HubEdit, HubNewMail, HubDelete,
                      HubAgain, Again
  <1>4. ASSUME NEW u \in ShopIds, ShopUserStep(u)
        PROVE  touched' = {}
    BY <1>1, <1>4 DEF ShopUserStep, ShopCreate, ShopEdit, ShopNewMail,
                      ShopDelete, ShopAgain, Again
  <1>5. ASSUME NEW w \in Workers, SyncContact(w) \/ Fail(w)
        PROVE  touched' = {}
    <2>1. CASE Match(w) \/ LinkCounterpart(w) \/ Proceed(w) \/ RecordSync(w)
      BY <2>1
      DEF Match, FindFirst, FindSecond, MergeFound, Insert, InsertClash, Raced,
          MappingThrows, LinkCounterpart, LinkRow, Collide, Absorb, Relink,
          Linked, Reread, Proceed, RecordSync, OnlyMatch, countVars
    <2>2. CASE WriteToHubspot(w) \/ WriteToOxid(w)
      BY <1>2, <2>2
      DEF WriteToHubspot, LookHub, SearchHub, CreateHub, CreateHubConflict,
          UpdateHub, UpdateHubRefused, WriteToOxid, UpdateShop, UserNotFound,
          InsertShop, InsertShopRefused, countVars, Writing
    <2>3. CASE \/ \E j \in jobs : Claim(w, j)
               \/ Hydrate(w) \/ HydrateNothing(w) \/ Skip(w) \/ Finish(w)
               \/ Fail(w)
      BY <2>3 DEF Claim, Hydrate, HydrateNothing, Skip, Finish, Fail, countVars
    <2> QED
      BY <1>5, <2>1, <2>2, <2>3 DEF SyncContact
  <1> QED
    BY <1>3, <1>4, <1>5 DEF Next, vars, countVars

LEMMA LeadStutter ==
  ASSUME SourceInv, LeadInv, UNCHANGED vars
  PROVE  SourceInv' /\ LeadInv'
  <1>1. /\ hub' = hub /\ shop' = shop /\ rows' = rows /\ jobs' = jobs
        /\ phase' = phase /\ job' = job /\ contact' = contact
        /\ touched' = touched /\ last' = last
    BY DEF vars, storeVars, tableVars, queueVars, localVars, countVars
  <1>2. SourceInv'
    BY <1>1 DEF SourceInv, HandIsSource, FirmStays, FromHub, Hashed
  <1>3. /\ \A h : TheContact(h)' <=> TheContact(h)
        /\ \A u : TheUser(u)' <=> TheUser(u)
        /\ \A h : Waits("hub", h)' => Waits("hub", h)
        /\ \A c : Told(c) => Told(c)'
    BY <1>1, ToldByPeople DEF TheContact, TheUser, Waits
  <1> QED
    BY <1>1, <1>2, <1>3, LeadOther

LEMMA LastEditInvInit == Init => LastEditInv
  <1>1. SUFFICES ASSUME Init
                 PROVE  touched = {} /\ SourceInv /\ Unknown
    BY DEF LastEditInv, LeadInv
  <1>2. /\ \A h \in HubIds : ~There(hub[h])
        /\ \A u \in ShopIds : ~There(shop[u])
        /\ \A w \in Workers : phase[w] = "idle"
        /\ touched = {}
    BY <1>1 DEF Init, There
  <1> QED
    BY <1>2 DEF SourceInv, HandIsSource, FirmStays, Unknown, TheContact,
                TheUser, HubOf, ShopOf

LEMMA LastEditNext ==
  ASSUME Steady, Serial, SyncInv, PersonInv, SerialInv, LastEditInv, [Next]_vars
  PROVE  LastEditInv'
  <1>1. Followed = None => touched' = {}
    BY NobodyFollowed DEF LastEditInv
  <1>2. ASSUME Followed # None, failed' = {}
        PROVE  SourceInv' /\ LeadInv'
    <2>1. /\ InStep /\ SourceInv /\ LeadInv /\ PushAlways
          /\ \A v, w \in Workers : v = w
      BY <1>2, FailedStay DEF SerialInv, LastEditInv, Serial
    <2>2. InStep'
      BY <1>2, SerialNext DEF SerialInv
    <2>3. Followed \in Mails
      BY <1>2, SyncAssumption DEF Maybe
    <2>4. ASSUME NEW w \in Workers, SyncContact(w) \/ Fail(w)
          PROVE  SourceInv' /\ LeadInv'
      <3>1. Only(w)
        BY <2>1 DEF Only
      <3>2. ~Fail(w)
        BY ConstantFacts DEF Fail, Serial, SyncInv, TypeOK, CountOK
      <3> QED
        BY <1>2, <2>1, <2>2, <2>3, <2>4, <3>1, <3>2, LeadSyncContact
    <2> QED
      BY <2>1, <2>2, <2>3, <2>4, LeadHubUser, LeadShopUser, LeadStutter
      DEF Next
  <1> QED
    BY <1>1, <1>2 DEF LastEditInv

(* One job at a time and without failure, the system in which a person was *)
(* edited leads: its record has the last edit, and whatever the other one  *)
(* still has to say of the person is already in the hash of the row, so    *)
(* that the loop guard skips it (syncContact.ts, hash.ts).                 *)
THEOREM LastEditInvHolds ==
  ASSUME Steady, Serial
  PROVE  Spec => []LastEditInv
  <1>1. SyncInv /\ PersonInv /\ SerialInv /\ LastEditInv /\ [Next]_vars =>
          LastEditInv'
    BY LastEditNext
  <1> QED
    BY <1>1, LastEditInvInit, SyncInvHolds, PersonInvHolds, SerialInvHolds, PTL
    DEF Spec

(* In a quiet system the two records of a person have been told, each.     *)
LEMMA BothAreThere ==
  ASSUME SyncInv, PersonInv, InStep, Quiet, NEW m \in Mails
  PROVE  /\ \A h \in HubIds : HubOf(hub, m, h) =>
              \E u \in ShopIds : ShopOf(shop, m, u) /\ SamePerson(h, u)
         /\ \A u \in ShopIds : ShopOf(shop, m, u) =>
              \E h \in HubIds : HubOf(hub, m, h) /\ SamePerson(h, u)
  <1>1. ASSUME NEW c, Hashed(m, c)
        PROVE  HasUser(m) /\ \E h \in HubIds : HubOf(hub, m, h)
    <2>1. PICK r \in Live(rows) : rows[r].mail = m /\ rows[r].hash = c /\ c # None
      BY <1>1 DEF Hashed
    <2>2. HasUser(m)
      BY <2>1 DEF InStep, HashedHasUser
    <2>3. rows[r].hub # None
      BY <2>1 DEF SyncInv, SyncedRowsAreLinked
    <2>4. PICK n \in Mails : KeysOf(hub, shop, n, rows[r])
      BY DEF PersonInv, PersonRows
    <2>5. HubOf(hub, m, rows[r].hub)
      BY <2>1, <2>3, <2>4, ConstantFacts DEF KeysOf
    <2> QED
      BY <2>2, <2>5 DEF HubOf
  <1>2. ASSUME NEW h \in HubIds, HubOf(hub, m, h)
        PROVE  \E u \in ShopIds : ShopOf(shop, m, u) /\ SamePerson(h, u)
    <2>1. HasUser(m)
      BY <1>1, <1>2, NothingToTell DEF InStep, HubHashed, HashedHub
    <2> QED
      BY <1>2, <2>1
      DEF HasUser, HubOf, ShopOf, SamePerson, There, InHub, InShop
  <1>3. ASSUME NEW u \in ShopIds, ShopOf(shop, m, u)
        PROVE  \E h \in HubIds : HubOf(hub, m, h) /\ SamePerson(h, u)
    <2>1. Hashed(m, Payload(u, shop[u]))
      BY <1>3, NothingToTell DEF InStep, ShopHashed
    <2>2. PICK h \in HubIds : HubOf(hub, m, h)
      BY <1>1, <2>1
    <2> QED
      BY <1>3, <2>2 DEF HubOf, ShopOf, SamePerson, There, InHub, InShop
  <1> QED
    BY <1>2, <1>3

LEMMA LeaderPrevails ==
  SyncInv /\ PersonInv /\ SerialInv /\ LastEditInv => LastEditPrevails
  <1>1. SUFFICES ASSUME SyncInv, PersonInv, SerialInv, LastEditInv, AllSynced,
                        touched \in {{"hub"}, {"shop"}}
                 PROVE  /\ \A h \in HubIds : InHub(h) /\ hub[h].mail = Followed =>
                             /\ hub[h].name = last
                             /\ \E u \in ShopIds : SamePerson(h, u)
                        /\ \A u \in ShopIds :
                             InShop(u) /\ shop[u].mail = Followed =>
                               /\ shop[u].name = last
                               /\ \E h \in HubIds : SamePerson(h, u)
    BY DEF LastEditPrevails
  <1>2. Followed # None /\ InStep /\ LeadInv /\ Quiet
    BY <1>1 DEF LastEditInv, SerialInv, AllSynced
  <1>3. Followed \in Mails
    BY <1>2, SyncAssumption DEF Maybe
  <1>4. HubLeads \/ ShopLeads
    BY <1>1, <1>2 DEF LeadInv
  <1>5. \A h \in HubIds, u \in ShopIds :
          SamePerson(h, u) => hub[h].name = shop[u].name
    BY <1>1, InStepAgrees DEF Agreement
  <1>6. /\ \A h \in HubIds : InHub(h) /\ hub[h].mail = Followed => TheContact(h)
        /\ \A u \in ShopIds : InShop(u) /\ shop[u].mail = Followed => TheUser(u)
    BY DEF InHub, InShop, TheContact, TheUser, HubOf, ShopOf, There
  <1>7. /\ \A h \in HubIds : TheContact(h) =>
             \E u \in ShopIds : TheUser(u) /\ SamePerson(h, u)
        /\ \A u \in ShopIds : TheUser(u) =>
             \E h \in HubIds : TheContact(h) /\ SamePerson(h, u)
    BY <1>1, <1>2, <1>3, BothAreThere DEF TheContact, TheUser
  <1>8. /\ \A h \in HubIds : TheContact(h) => hub[h].name = last
        /\ \A u \in ShopIds : TheUser(u) => shop[u].name = last
    BY <1>4, <1>5, <1>7 DEF HubLeads, ShopLeads
  <1> QED
    BY <1>6, <1>7, <1>8

(* LastEditPrevails, one job at a time and without failure: if a person    *)
(* was edited in one system only since all was quiet, and no write's event *)
(* was distorted, both systems hold the last of those edits in the end.    *)
THEOREM LastEditPrevailsHolds ==
  ASSUME Steady, Serial
  PROVE  Spec => []LastEditPrevails
  BY LeaderPrevails, SyncInvHolds, PersonInvHolds, SerialInvHolds,
     LastEditInvHolds, PTL
=============================================================================
