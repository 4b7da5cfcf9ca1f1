------------------------------- MODULE FieldMap -------------------------------
(***************************************************************************)
(* A tenant's field map (src/sync/tenantFieldMap.ts) and what is read and  *)
(* written through it: from a shop's user record or a HubSpot contact to   *)
(* the canonical fields, from there to HubSpot's properties and the        *)
(* columns of the User API, and the hash of the loop guard.                *)
(*                                                                         *)
(* A text is a sequence of words, the empty one standing for '', null and  *)
(* a missing key.  A place in a user record is a row and a column.  Fields *)
(* that are bound and read alike have one representative: lastName is as   *)
(* firstName, city and zip are as phone.                                   *)
(***************************************************************************)
EXTENDS Naturals, Sequences

CONSTANTS
  None,
  Words,
  Plain  \* the spelling of a word that normalizeValue leaves

ASSUME WordAssumption ==
  /\ Plain \in [Words -> Words]
  /\ \A w \in Words : Plain[Plain[w]] = Plain[w]

Text == Seq(Words)
Blank == <<>>

Fields == {"email", "firstName", "salutation", "phone", "company",
           "address", "country", "oxidId"}

(* canonicalFields: the order in which a map is gone through. *)
Rank == [email |-> 1, firstName |-> 2, salutation |-> 3, phone |-> 4,
         company |-> 5, address |-> 6, country |-> 7, oxidId |-> 8]

Last(F) == CHOOSE f \in F : \A g \in F : Rank[g] <= Rank[f]

(* The user's own row, its first delivery address, nested objects. *)
AddressColumns == {"oxfon", "oxcompany", "oxstreet", "oxstreetnr",
                   "oxcountry", "oxcountryid"}
Places ==
  {"user"} \X ({"oxid", "oxusername", "oxfname", "oxsal"} \cup AddressColumns)
    \cup {"delivery"} \X AddressColumns
    \cup {<<"salutation", "title">>}

Properties == {"email", "firstname", "salutation", "phone", "company",
               "address", "country", "ox_user_id", "oxid_id"}

User == [Places -> Text]
Props == [Properties -> Text]
Hashes == [Fields -> Text]

Binding == [oxid : Places \cup {None}, hub : Properties \cup {None},
            transform : {"none", "street", "pick"}]
Map == [Fields -> Binding]

-----------------------------------------------------------------------------
(* Maps.                                                                   *)

Bind(column, property, transform) ==
  [oxid |-> <<"user", column>>, hub |-> property, transform |-> transform]

(* defaultTenantFieldMap: a company is an object of its own in HubSpot.    *)
Default ==
  [email |-> Bind("oxusername", "email", "none"),
   firstName |-> Bind("oxfname", "firstname", "none"),
   salutation |-> Bind("oxsal", "salutation", "none"),
   phone |-> Bind("oxfon", "phone", "pick"),
   company |-> Bind("oxcompany", None, "pick"),
   address |-> Bind("oxstreet", "address", "street"),
   country |-> Bind("oxcountry", "country", "pick"),
   oxidId |-> Bind("oxid", "ox_user_id", "none")]

(* scrubUnmappedOxidId, for one binding. *)
Scrub(b) ==
  IF b.oxid = None \/ b.hub = None THEN [b EXCEPT !.oxid = None, !.hub = None]
  ELSE IF b.hub = "oxid_id" THEN [b EXCEPT !.hub = "ox_user_id"]
  ELSE b

(* Slip: a map is stored as it was sent. *)
AsGiven(given) == given

(* ensureAllCanonicalFields: a map that is saved may lack fields. *)
Ensured(given) ==
  LET full == [f \in Fields |-> IF f \in DOMAIN given THEN given[f]
                                ELSE Default[f]]
  IN [full EXCEPT !["oxidId"] = Scrub(@)]

Read(m) == {f \in Fields : m[f].oxid # None}
Bound(m) == {f \in Read(m) : m[f].hub # None}

(* watchedHubspotProperties: the app subscribes once, for all tenants. *)
Watched == {Default[f].hub : f \in Bound(Default)} \cup {"email", "ox_user_id"}

(* suggestMapFromKeys: the first of a field's usual places that the sample *)
(* of the shop has.                                                        *)
UsualPlaces(f) ==
  CASE f = "salutation" -> <<<<"salutation", "title">>, <<"user", "oxsal">>>>
    [] f = "country" -> <<<<"user", "oxcountry">>, <<"user", "oxcountryid">>,
                          <<"delivery", "oxcountryid">>>>
    [] f \in {"phone", "company", "address"} ->
         <<Default[f].oxid, <<"delivery", Default[f].oxid[2]>>>>
    [] OTHER -> <<Default[f].oxid>>

Suggested(keys) ==
  [f \in Fields |->
     LET found == SelectSeq(UsualPlaces(f), LAMBDA place : place \in keys)
     IN [Default[f] EXCEPT
           !.oxid = IF found = <<>> THEN @ ELSE Head(found),
           !.hub = IF f = "oxidId" /\ found = <<>> THEN None ELSE @]]

-----------------------------------------------------------------------------
(* Values.                                                                 *)

Or(t, u) == IF t # Blank THEN t ELSE u

Spelled(t) == [i \in DOMAIN t |-> Plain[t[i]]]

(* normalizeValue: email, phone and address have a normal form. *)
Normal(f, t) ==
  IF f \in {"email", "phone", "address"} THEN Spelled(t) ELSE t

(* Slip: what is missing and what is empty have different hashes. *)
HashAsItIs(contact) == contact

(* contactHash: a missing field and an empty one are the same. *)
Hash(contact) ==
  [f \in Fields |-> IF f \in DOMAIN contact THEN Normal(f, contact[f])
                    ELSE Blank]

-----------------------------------------------------------------------------
(* Reading.                                                                *)

CountryPlaces == {<<"user", "oxcountry">>, <<"user", "oxcountryid">>}

Country(u, row) == Or(u[<<row, "oxcountry">>], u[<<row, "oxcountryid">>])

(* Slip: the company is part of the address. *)
StreetOfFirm(u, row) == u[<<row, "oxcompany">>] \o u[<<row, "oxstreet">>]

(* formatOxidStreet: street and number on one line. *)
Street(u, row) == u[<<row, "oxstreet">>] \o u[<<row, "oxstreetnr">>]

Salutation(u) == Or(u[<<"salutation", "title">>], u[<<"user", "oxsal">>])

(* What a transform reads in a row: `street` does not even look at the     *)
(* column that is bound.                                                   *)
Transformed(u, b, row) ==
  IF b.transform = "street" THEN Street(u, row)
  ELSE IF b.oxid[2] \in {"oxcountry", "oxcountryid"} THEN Country(u, row)
  ELSE IF <<row, b.oxid[2]>> \in Places THEN u[<<row, b.oxid[2]>>]
  ELSE Blank

(* pickOxidField: the user's own row, then its delivery address, whatever  *)
(* the row of the place that is bound.                                     *)
Pick(u, b) == Or(Transformed(u, b, "user"), Transformed(u, b, "delivery"))

(* readOxidBinding. *)
ReadBinding(u, f, b) ==
  IF b.transform \in {"street", "pick"} THEN Pick(u, b)
  ELSE IF f = "salutation"
  THEN IF b.oxid[2] = "oxsal" THEN Salutation(u)
       ELSE Or(u[b.oxid], Salutation(u))
  ELSE IF f = "country" \/ b.oxid \in CountryPlaces
  THEN Or(u[b.oxid], Country(u, "user"))
  ELSE u[b.oxid]

(* canonicalFromOxidUser: every field with a place in the shop. *)
FromOxid(u, m) ==
  [f \in Read(m) |-> Normal(f, ReadBinding(u, f, m[f]))]

(* canonicalFromHubspot: every field with a property; the shop's id is     *)
(* read from ox_user_id if the map gives none.                             *)
FromHub(props, m) ==
  [f \in Bound(m) \cup {"oxidId"} |->
     LET t == IF f \in Bound(m) THEN Normal(f, props[m[f].hub]) ELSE Blank
     IN IF f = "oxidId" THEN Or(t, props["ox_user_id"]) ELSE t]

-----------------------------------------------------------------------------
(* Writing.                                                                *)

Bidders(contact, m, p) ==
  {f \in Bound(m) \cap DOMAIN contact : m[f].hub = p}

(* Slip: an empty value is not sent to HubSpot. *)
ToHubFilled(contact, m, props) ==
  [p \in Properties |->
     LET F == {f \in Bidders(contact, m, p) : contact[f] # Blank}
     IN IF F = {} THEN props[p] ELSE contact[Last(F)]]

(* toHubspotPropertiesWithMap: an empty value clears the property, and of  *)
(* two fields with one property the later is sent.                         *)
ToHub(contact, m, props) ==
  [p \in Properties |->
     LET F == Bidders(contact, m, p)
     IN IF F = {} THEN props[p] ELSE contact[Last(F)]]

(* isWritableOxidUserPath: a dotted path and the id are for reading only. *)
Writable(place) == place[1] = "user" /\ place[2] # "oxid"

Sent(contact, m) ==
  {f \in (Read(m) \cap DOMAIN contact) \ {"email", "oxidId"} :
     Writable(m[f].oxid) /\ contact[f] # Blank}

(* buildOxidUserRecord, and the shop's updateUsers, which leaves what is   *)
(* not sent: with the id known, withUpdateIdentity sends no email.         *)
ToShop(contact, m, u) ==
  [place \in Places |->
     LET F == {f \in Sent(contact, m) : m[f].oxid = place}
     IN IF F = {} THEN u[place] ELSE contact[Last(F)]]
=============================================================================
