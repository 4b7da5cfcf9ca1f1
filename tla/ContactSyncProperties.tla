------------------------- MODULE ContactSyncProperties ------------------------
(***************************************************************************)
(* What a shop owner who keeps customers in both systems expects of        *)
(* ContactSync.  A job the code gave up for good (failed) waives the       *)
(* properties of the final state: its change is lost, visibly.             *)
(***************************************************************************)
EXTENDS ContactSync

(* A HubSpot contact and a shop user are one person if they have the same  *)
(* email.                                                                  *)
SamePerson(h, u) == InHub(h) /\ InShop(u) /\ hub[h].mail = shop[u].mail

AllSynced == Quiet /\ failed = {}

(* Agreement: once every job is done, the two records of a person hold the *)
(* same values in the fields that are mapped both ways, whichever system   *)
(* was edited, in which order, and however often an event was sent.        *)
Agreement ==
  AllSynced =>
    \A h \in HubIds, u \in ShopIds :
      SamePerson(h, u) => hub[h].name = shop[u].name

(* LastEditPrevails: if a person was edited in one system only since all   *)
(* was quiet, and no write's event was distorted, both systems hold the    *)
(* last of those edits in the end: neither the echo of a write nor an      *)
(* older record overwrites it (loop guard, hash.ts).  A distorted echo is  *)
(* not recognised and may well undo an edit made meanwhile.                *)
LastEditPrevails ==
  AllSynced /\ touched \in {{"hub"}, {"shop"}} =>
    /\ \A h \in HubIds : InHub(h) /\ hub[h].mail = Followed =>
         hub[h].name = last /\ \E u \in ShopIds : SamePerson(h, u)
    /\ \A u \in ShopIds : InShop(u) /\ shop[u].mail = Followed =>
         shop[u].name = last /\ \E h \in HubIds : SamePerson(h, u)

Holds(w) ==
  IF FromHub(w)
  THEN \E u \in Users(w) : shop[u].name = contact[w].name
  ELSE InHub(snap[w].hub) /\ hub[snap[w].hub].name = contact[w].name

OwnChangePending(w) ==
  \E j \in jobs \cup {job[v] : v \in Workers \ {w}} :
    j # NoJob /\ j.side # job[w].side

(* SkipMeansNoOp: a job the loop guard skips had nothing to do, as the     *)
(* comment of the guard says: the destination holds the values, or it has  *)
(* a change of its own that is still to be synced.                         *)
SkipMeansNoOp ==
  \A w \in Workers :
    phase[w] = "guard" /\ Unchanged(w) => Holds(w) \/ OwnChangePending(w)

(* SyncedRowsAreLinked: a row with a hash names the HubSpot contact and    *)
(* the email of the shop user, so that a contact without a counterpart is  *)
(* never skipped; in the code this rests on the order link, recordSync     *)
(* and on merges that keep the keys of the row they absorb.                *)
SyncedRowsAreLinked ==
  \A r \in Live(rows) :
    rows[r].hash # None => rows[r].hub # None /\ rows[r].mail # None

(* RowsJoinOnePerson: a mapping row never joins the records of two people, *)
(* whoever created, completed and merged it: its HubSpot contact, its      *)
(* email and its shop user have one email.                                 *)
RowsJoinOnePerson ==
  \A r \in Live(rows) :
    \E m \in Mails :
      /\ rows[r].hub # None => InHub(rows[r].hub) /\ hub[rows[r].hub].mail = m
      /\ rows[r].mail # None => rows[r].mail = m
      /\ rows[r].ox # None => InShop(rows[r].ox) /\ shop[rows[r].ox].mail = m

(* OneRowEach: once every job is done, a person has one mapping row, also  *)
(* when jobs of both directions created one each at the same time.         *)
OneRowEach ==
  AllSynced =>
    \A h \in HubIds, u \in ShopIds : SamePerson(h, u) =>
      Cardinality({r \in Live(rows) : \/ rows[r].hub = h
                                      \/ rows[r].mail = shop[u].mail
                                      \/ rows[r].ox = u}) = 1

(* NoHalfMappedRows: a row that a job created before it failed, or that    *)
(* only one direction knew of, is completed or merged away by the time     *)
(* every job is done.                                                      *)
NoHalfMappedRows ==
  AllSynced =>
    \A r \in Live(rows) : rows[r].hub # None /\ rows[r].mail # None

(* HubLinkStays: no step points a row from a HubSpot contact that is there *)
(* to another one, or to none; two jobs write and merge the same row.      *)
HubLinkStays ==
  [][\A r \in Live(rows) \cap Live(rows') :
       rows[r].hub # None /\ InHub(rows[r].hub) =>
         rows'[r].hub = rows[r].hub]_vars

(* EchoesDieOut: when nobody edits any more, there comes a time after      *)
(* which no job is waiting or in work: the two directions do not answer    *)
(* each other's writes for ever.                                           *)
EchoesDieOut == <>[]Quiet
=============================================================================
