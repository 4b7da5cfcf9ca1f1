---------------------------- MODULE FieldProperties ---------------------------
(***************************************************************************)
(* What a field map must keep of a person's values, and what the loop      *)
(* guard is said to do.                                                    *)
(***************************************************************************)
EXTENDS FieldSync

OwnProperty(f) ==
  f \in Bound(map) /\ \A g \in Bound(map) \ {f} : map[g].hub # map[f].hub

(* Everything the shop's record holds has a property of its own to go to;  *)
(* and if the map leaves out the shop's id, so does HubSpot.               *)
NothingLeftBehind ==
  /\ \A f \in Bound(map) : OwnProperty(f)
  /\ \A f \in Read(map) \ Bound(map) : hash[f] = Blank
  /\ hash["oxidId"] = Blank => props["ox_user_id"] = Blank

(* HubEchoIsSkipped: the event that HubSpot sends after a write of ours    *)
(* yields the hash that was stored with that write, although it is read    *)
(* through another half of the map than the one that was written from.     *)
HubEchoIsSkipped ==
  wrote = "hub" /\ NothingLeftBehind => Skip(FromHub(props, map))

(* Neither record lacks the email without which a sync returns at once,     *)
(* and an edit of that email is reported.                                  *)
BothSyncable ==
  /\ map["email"].hub \in Watched
  /\ Syncable(FromOxid(user, map))
  /\ Syncable(FromHub(props, map))

(* Fields that HubSpot alone can tell: an empty shop id is read elsewhere. *)
Told(f) ==
  /\ OwnProperty(f)
  /\ map[f].hub \in Watched
  /\ f = "oxidId" => props[map[f].hub] # Blank

(* FieldsAgree: when all jobs are done, a field with a property of its own *)
(* has the same value on both sides, an emptied one included: after edits  *)
(* of both in any order, several of them merged into one job, and under a  *)
(* map that was changed at any time, once a write has used it.             *)
FieldsAgree ==
  ~hubJob /\ body = None /\ ~remapped /\ BothSyncable =>
    \A f \in Fields :
      Told(f) => Normal(f, props[map[f].hub]) = FromOxid(user, map)[f]

(* EchoesAreFew: an edit costs at most four writes.  HubSpot cannot hold   *)
(* the company and may be given another spelling, so the answers of both   *)
(* sides to a write may be no echoes to the loop guard, but they end: as    *)
(* long as what is written of a field is read again (SingleColumns).       *)
EchoesAreFew == writes <= 4 * edits

(* SingleColumns: no house number in the row that is written to, and no    *)
(* map that writes one field where another one is read.                    *)
HouseNumber == <<"user", "oxstreetnr">>

Rows == {"user", "delivery"}

ReadFrom(f, b) ==
  {b.oxid}
  \cup (IF b.transform = "pick" THEN Places \cap (Rows \X {b.oxid[2]})
        ELSE {})
  \cup (IF b.transform = "street" THEN Rows \X {"oxstreet", "oxstreetnr"}
        ELSE {})
  \cup (IF f = "country" \/ b.oxid[2] \in {"oxcountry", "oxcountryid"}
        THEN Rows \X {"oxcountry", "oxcountryid"} ELSE {})
  \cup (IF f = "salutation" THEN {<<"salutation", "title">>, <<"user", "oxsal">>}
        ELSE {})

OwnColumns(m) ==
  \A f \in Bound(m), g \in Read(m) \ {"email", "oxidId"} :
    f # g /\ Writable(m[g].oxid) => m[g].oxid \notin ReadFrom(f, m[f])

Unnumbered(m) == \A f \in Fields : m[f].oxid # HouseNumber

MapsUsed == {Default} \cup {Ensured(given) : given \in Offered}

SingleColumns ==
  /\ \A m \in MapsUsed : OwnColumns(m) /\ Unnumbered(m)
  /\ \A e \in ShopEdits : e[1] # HouseNumber

-----------------------------------------------------------------------------
(* EchoInv, the invariant behind HubEchoIsSkipped: a hash holds normal     *)
(* forms of fields that the map reads; and the last write, if it was to    *)
(* HubSpot, left there what the hash was made of, field by field.          *)
EchoInv ==
  /\ \A f \in Fields : Normal(f, hash[f]) = hash[f]
  /\ wrote = "hub" =>
       /\ \A f \in Fields \ Read(map) : hash[f] = Blank
       /\ \A f \in Fields : OwnProperty(f) => props[map[f].hub] = hash[f]

(* AgreeInv, the invariant behind FieldsAgree: what waits is the record of *)
(* now, and a side from which nothing waits is the one that was hashed.    *)
ShopHashed ==
  body = None /\ ~remapped /\ Syncable(FromOxid(user, map)) =>
    Hash(FromOxid(user, map)) = hash

HubHashed ==
  /\ ~hubJob /\ ~remapped
  /\ map["email"].hub \in Watched
  /\ Syncable(FromHub(props, map))
  => \A f \in Fields : Told(f) => Normal(f, props[map[f].hub]) = hash[f]

AgreeInv == body \in {None, user} /\ ShopHashed /\ HubHashed

(* FewInv, the invariant behind EchoesAreFew: what is still to be written  *)
(* without a further edit is paid for.  Once HubSpot holds what the shop   *)
(* says, it stays so, and a write to it changes nothing.                   *)
Met == ToHub(FromOxid(user, map), map, props) = props

ToCome ==
  IF Met THEN (IF hubJob THEN 2 ELSE 0) + (IF body = None THEN 0 ELSE 1)
  ELSE IF hubJob THEN 4
  ELSE IF body = None THEN 0 ELSE 3

FewInv ==
  /\ map \in MapsUsed
  /\ user[HouseNumber] = Blank
  /\ writes + ToCome <= 4 * edits
=============================================================================
