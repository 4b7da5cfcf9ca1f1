------------------------------ MODULE FieldProofs -----------------------------
(***************************************************************************)
(* For every map, every text and every spelling: values keep their type,   *)
(* the event of our own write to HubSpot is skipped, the fields agree when *)
(* all is done, and, without house numbers, echoes are few.                *)
(***************************************************************************)
EXTENDS FieldProperties, SequenceTheorems, TLAPS

(* Texts.                                                                  *)

LEMMA BlankIsText == Blank \in Text
  BY EmptySeq DEF Blank, Text

LEMMA OneWord ==
  ASSUME NEW w \in Words
  PROVE  <<w>> \in Text /\ <<w>> # Blank /\ Len(<<w>>) = 1 /\ <<w>>[1] = w
  BY DEF Text, Blank

LEMMA OrIsText ==
  ASSUME NEW t \in Text, NEW u \in Text
  PROVE  Or(t, u) \in Text
  BY DEF Or

LEMMA SpelledFacts ==
  ASSUME NEW t \in Text
  PROVE  Spelled(t) \in Text /\ Spelled(Spelled(t)) = Spelled(t)
  <1>1. PICK n \in Nat : t \in [1 .. n -> Words]
    BY SeqDef DEF Text
  <1>2. Spelled(t) \in [1 .. n -> Words]
    BY <1>1, WordAssumption DEF Spelled
  <1>3. Spelled(t) \in Text
    BY <1>2, SeqDef DEF Text
  <1>4. \A i \in 1 .. n : Spelled(Spelled(t))[i] = Spelled(t)[i]
    BY <1>1, <1>2, WordAssumption DEF Spelled
  <1>5. Spelled(Spelled(t)) \in [1 .. n -> Words]
    BY <1>2, WordAssumption DEF Spelled
  <1> QED
    BY <1>2, <1>3, <1>4, <1>5

(* normalizeValue: a normal form is its own normal form. *)
LEMMA NormalFacts ==
  ASSUME NEW f, NEW t \in Text
  PROVE  Normal(f, t) \in Text /\ Normal(f, Normal(f, t)) = Normal(f, t)
  BY SpelledFacts DEF Normal

LEMMA NormalBlank ==
  ASSUME NEW f
  PROVE  Normal(f, Blank) = Blank
  <1>1. Spelled(Blank) = Blank
    BY DEF Spelled, Blank
  <1> QED
    BY <1>1 DEF Normal

(* contactHash: one normal text for each field, whatever is missing. *)
LEMMA HashFacts ==
  ASSUME NEW contact, \A f \in DOMAIN contact : contact[f] \in Text
  PROVE  /\ Hash(contact) \in Hashes
         /\ \A f \in Fields : Normal(f, Hash(contact)[f]) = Hash(contact)[f]
         /\ \A f \in Fields \ DOMAIN contact : Hash(contact)[f] = Blank
  <1>1. ASSUME NEW f \in Fields
        PROVE  /\ Hash(contact)[f] \in Text
               /\ Normal(f, Hash(contact)[f]) = Hash(contact)[f]
    BY NormalFacts, NormalBlank, BlankIsText DEF Hash
  <1>2. Hash(contact) \in Hashes
    BY <1>1 DEF Hash, Hashes
  <1> QED
    BY <1>1, <1>2 DEF Hash

-----------------------------------------------------------------------------
(* Maps.                                                                   *)

LEMMA PlaceFacts ==
  /\ \A row \in {"user", "delivery"}, column \in AddressColumns :
       <<row, column>> \in Places
  /\ \A column \in {"oxid", "oxusername", "oxfname", "oxsal"} :
       <<"user", column>> \in Places
  /\ <<"salutation", "title">> \in Places
  BY DEF Places, AddressColumns

LEMMA BindFacts ==
  ASSUME NEW column \in {"oxid", "oxusername", "oxfname", "oxsal"}
                          \cup AddressColumns,
         NEW p \in Properties \cup {None},
         NEW transform \in {"none", "street", "pick"}
  PROVE  Bind(column, p, transform) \in Binding
  BY PlaceFacts DEF Bind, Binding

LEMMA DefaultIsMap == Default \in Map
  <1>1. \A f \in Fields : Default[f] \in Binding
    BY BindFacts DEF Default, Fields, Properties, AddressColumns
  <1>2. Default = [f \in Fields |-> Default[f]]
    BY DEF Default, Fields
  <1> QED
    BY <1>1, <1>2 DEF Map

LEMMA ScrubFacts ==
  ASSUME NEW b \in Binding
  PROVE  Scrub(b) \in Binding
  BY DEF Scrub, Binding, Properties

LEMMA EnsuredIsMap ==
  ASSUME NEW given \in Offered
  PROVE  Ensured(given) \in Map
  <1> DEFINE full == [f \in Fields |-> IF f \in DOMAIN given THEN given[f]
                                       ELSE Default[f]]
  <1>1. full \in Map
    BY DefaultIsMap, FieldAssumption DEF Map
  <1> HIDE DEF full
  <1>2. [full EXCEPT !["oxidId"] = Scrub(@)] \in Map
    BY <1>1, ScrubFacts DEF Map, Fields
  <1> QED
    BY <1>2 DEF Ensured, full

LEMMA LastFacts ==
  ASSUME NEW F \in SUBSET Fields, F # {}
  PROVE  Last(F) \in F
  <1>1. \E f \in F : \A g \in F : Rank[g] <= Rank[f]
    <2>1. CASE "oxidId" \in F
      BY <2>1 DEF Rank, Fields
    <2>2. CASE "oxidId" \notin F /\ "country" \in F
      BY <2>2 DEF Rank, Fields
    <2>3. CASE "oxidId" \notin F /\ "country" \notin F /\ "address" \in F
      BY <2>3 DEF Rank, Fields
    <2>4. CASE /\ "oxidId" \notin F /\ "country" \notin F
               /\ "address" \notin F /\ "company" \in F
      BY <2>4 DEF Rank, Fields
    <2>5. CASE /\ "oxidId" \notin F /\ "country" \notin F
               /\ "address" \notin F /\ "company" \notin F
      <3>1. F \subseteq {"email", "firstName", "salutation", "phone"}
        BY <2>5 DEF Fields
      <3>2. CASE "phone" \in F
        BY <3>1, <3>2 DEF Rank
      <3>3. CASE "phone" \notin F /\ "salutation" \in F
        BY <3>1, <3>3 DEF Rank
      <3>4. CASE "phone" \notin F /\ "salutation" \notin F
        <4>1. CASE "firstName" \in F
          BY <3>1, <3>4, <4>1 DEF Rank
        <4>2. CASE F = {"email"}
          BY <4>2 DEF Rank
        <4> QED
          BY <3>1, <3>4, <4>1, <4>2
      <3> QED
        BY <3>2, <3>3, <3>4
    <2> QED
      BY <2>1, <2>2, <2>3, <2>4, <2>5
  <1> QED
    BY <1>1 DEF Last

-----------------------------------------------------------------------------
(* Reading and writing.                                                    *)

LEMMA CountryIsText ==
  ASSUME NEW u \in User, NEW row \in {"user", "delivery"}
  PROVE  Country(u, row) \in Text
  BY OrIsText, PlaceFacts DEF Country, User, AddressColumns

LEMMA StreetIsText ==
  ASSUME NEW u \in User, NEW row \in {"user", "delivery"}
  PROVE  Street(u, row) \in Text
  <1>1. u[<<row, "oxstreet">>] \in Seq(Words) /\ u[<<row, "oxstreetnr">>] \in Seq(Words)
    BY PlaceFacts DEF User, AddressColumns, Text
  <1> QED
    BY <1>1, ConcatProperties DEF Street, Text

LEMMA SalutationIsText ==
  ASSUME NEW u \in User
  PROVE  Salutation(u) \in Text
  BY OrIsText, PlaceFacts DEF Salutation, User

LEMMA ReadIsText ==
  ASSUME NEW u \in User, NEW f, NEW b \in Binding, b.oxid # None
  PROVE  ReadBinding(u, f, b) \in Text
  <1>1. u[b.oxid] \in Text
    BY DEF Binding, User
  <1>2. ASSUME NEW row \in {"user", "delivery"}
        PROVE  Transformed(u, b, row) \in Text
    <2>1. <<row, b.oxid[2]>> \in Places => u[<<row, b.oxid[2]>>] \in Text
      BY DEF User
    <2> QED
      BY <2>1, StreetIsText, CountryIsText, BlankIsText DEF Transformed
  <1>3. Pick(u, b) \in Text
    BY <1>2, OrIsText DEF Pick
  <1>4. CASE b.transform \notin {"street", "pick"}
    BY <1>1, <1>4, SalutationIsText, CountryIsText, OrIsText DEF ReadBinding
  <1> QED
    BY <1>3, <1>4 DEF ReadBinding

(* canonicalFromOxidUser: normal texts for the fields that are read. *)
LEMMA FromOxidFacts ==
  ASSUME NEW u \in User, NEW m \in Map
  PROVE  /\ DOMAIN FromOxid(u, m) = Read(m)
         /\ \A f \in Read(m) :
              /\ FromOxid(u, m)[f] \in Text
              /\ Normal(f, FromOxid(u, m)[f]) = FromOxid(u, m)[f]
  <1>1. ASSUME NEW f \in Read(m)
        PROVE  ReadBinding(u, f, m[f]) \in Text
    BY ReadIsText DEF Read, Map
  <1> QED
    BY <1>1, NormalFacts DEF FromOxid

(* canonicalFromHubspot: texts for the fields that are bound, and the id. *)
LEMMA FromHubFacts ==
  ASSUME NEW p \in Props, NEW m \in Map
  PROVE  /\ DOMAIN FromHub(p, m) = Bound(m) \cup {"oxidId"}
         /\ \A f \in Bound(m) \cup {"oxidId"} : FromHub(p, m)[f] \in Text
  <1>1. ASSUME NEW f \in Bound(m)
        PROVE  p[m[f].hub] \in Text
    BY DEF Bound, Read, Map, Binding, Props
  <1>2. p["ox_user_id"] \in Text
    BY DEF Props, Properties
  <1> QED
    BY <1>1, <1>2, NormalFacts, OrIsText, BlankIsText DEF FromHub

LEMMA ToHubIsProps ==
  ASSUME NEW p \in Props, NEW m \in Map, NEW contact,
         \A f \in DOMAIN contact : contact[f] \in Text
  PROVE  ToHub(contact, m, p) \in Props
  <1>1. ASSUME NEW q \in Properties
        PROVE  ToHub(contact, m, p)[q] \in Text
    <2>1. Bidders(contact, m, q) \in SUBSET Fields
      BY DEF Bidders, Bound, Read
    <2>2. Bidders(contact, m, q) # {} => Last(Bidders(contact, m, q)) \in DOMAIN contact
      BY <2>1, LastFacts DEF Bidders
    <2> QED
      BY <2>2 DEF ToHub, Props
  <1> QED
    BY <1>1 DEF ToHub, Props

LEMMA ToShopIsUser ==
  ASSUME NEW u \in User, NEW m \in Map, NEW contact,
         \A f \in DOMAIN contact : contact[f] \in Text
  PROVE  ToShop(contact, m, u) \in User
  <1>1. ASSUME NEW place \in Places
        PROVE  ToShop(contact, m, u)[place] \in Text
    <2> DEFINE F == {f \in Sent(contact, m) : m[f].oxid = place}
    <2>1. F \in SUBSET Fields /\ F \subseteq DOMAIN contact
      BY DEF Sent, Read
    <2>2. ToShop(contact, m, u)[place] = IF F = {} THEN u[place]
                                         ELSE contact[Last(F)]
      BY DEF ToShop
    <2> HIDE DEF F
    <2>3. F # {} => Last(F) \in DOMAIN contact
      BY <2>1, LastFacts
    <2> QED
      BY <2>2, <2>3 DEF User
  <1> QED
    BY <1>1 DEF ToShop, User

-----------------------------------------------------------------------------
(* Types.                                                                  *)

LEMMA FieldInit == Init => TypeOK /\ EchoInv
  <1> SUFFICES ASSUME Init PROVE TypeOK /\ EchoInv
    OBVIOUS
  <1>1. user \in User
    BY FieldAssumption, OneWord, BlankIsText DEF Init, User
  <1>2. props \in Props
    BY FieldAssumption, OneWord, BlankIsText DEF Init, Props
  <1>3. map \in Map
    BY DefaultIsMap DEF Init
  <1>4. hash \in Hashes /\ \A f \in Fields : Normal(f, hash[f]) = hash[f]
    BY <1>1, DefaultIsMap, FromOxidFacts, HashFacts DEF Init
  <1>5. edits \in 0 .. MaxEdits /\ writes \in Nat
    BY FieldAssumption DEF Init
  <1>6. hubJob \in BOOLEAN /\ remapped \in BOOLEAN
    BY DEF Init
  <1>7. TypeOK
    BY <1>1, <1>2, <1>3, <1>4, <1>5, <1>6 DEF Init, TypeOK
  <1> QED
    BY <1>4, <1>7, NoneIsNoSystem DEF Init, EchoInv

LEMMA EditFacts ==
  ASSUME TypeOK, Edit
  PROVE  /\ edits' \in 0 .. MaxEdits
         /\ wrote' = None
         /\ hash' = hash /\ hash' \in Hashes
         /\ writes' \in Nat
  BY FieldAssumption DEF Edit, TypeOK

LEMMA HubEditStep ==
  ASSUME TypeOK, NEW p \in Properties, NEW t \in Text, EditHub(p, t)
  PROVE  TypeOK' /\ wrote' = None /\ hash' = hash
  <1>1. props' \in Props
    BY DEF EditHub, SaveHub, TypeOK, Props
  <1>2. hubJob' \in BOOLEAN
    BY DEF EditHub, SaveHub, TypeOK
  <1> QED
    BY <1>1, <1>2, EditFacts DEF EditHub, TypeOK

LEMMA ShopEditStep ==
  ASSUME TypeOK, NEW place \in Places, NEW t \in Text, EditShop(place, t)
  PROVE  TypeOK' /\ wrote' = None /\ hash' = hash
  <1>1. user' \in User /\ body' \in User
    BY DEF EditShop, SaveShop, TypeOK, User
  <1> QED
    BY <1>1, EditFacts DEF EditShop, TypeOK

LEMMA RemapStep ==
  ASSUME TypeOK, NEW m \in Map, Remap(m)
  PROVE  TypeOK' /\ wrote' = None /\ hash' = hash
  BY EditFacts DEF Remap, TypeOK

LEMMA WrittenFacts ==
  ASSUME TypeOK, NEW contact, \A f \in DOMAIN contact : contact[f] \in Text,
         NEW system \in {"hub", "shop"}, Written(contact, system)
  PROVE  /\ hash' = Hash(contact) /\ hash' \in Hashes
         /\ writes' \in Nat
         /\ wrote' = system /\ wrote' \in {None, "hub", "shop"}
         /\ remapped' \in BOOLEAN
         /\ map' = map /\ edits' = edits
  <1>1. Hash(contact) \in Hashes
    BY HashFacts
  <1>2. writes' \in Nat
    BY DEF Written, TypeOK
  <1>3. remapped' \in BOOLEAN
    BY DEF Written
  <1> QED
    BY <1>1, <1>2, <1>3 DEF Written

(* A sync to HubSpot is skipped, or leaves the contact it read: its normal *)
(* texts are the hash, and each property that one field alone goes to      *)
(* holds that field's text.                                                *)
LEMMA ToHubStep ==
  ASSUME TypeOK, EchoInv, SyncToHub
  PROVE  TypeOK' /\ EchoInv'
  <1> DEFINE contact == FromOxid(body, map)
  <1>1. body \in User /\ map \in Map
    BY DEF SyncToHub, TypeOK
  <1>2. CASE Skip(contact)
    BY <1>2 DEF SyncToHub, TypeOK, EchoInv, ghostVars, Read, OwnProperty, Bound
  <1>3. CASE ~Skip(contact)
    <2>1. /\ DOMAIN contact = Read(map)
          /\ \A f \in Read(map) : /\ contact[f] \in Text
                                  /\ Normal(f, contact[f]) = contact[f]
      BY <1>1, FromOxidFacts
    <2>2. /\ SaveHub(ToHub(contact, map, props))
          /\ body' = None
          /\ Written(contact, "hub")
          /\ UNCHANGED user
      BY <1>3 DEF SyncToHub
    <2> HIDE DEF contact
    <2>3. props' \in Props /\ hubJob' \in BOOLEAN
      BY <1>1, <2>1, <2>2, ToHubIsProps DEF SaveHub, TypeOK
    <2>4. /\ hash' = Hash(contact) /\ hash' \in Hashes /\ writes' \in Nat
          /\ wrote' = "hub" /\ remapped' \in BOOLEAN
          /\ map' = map /\ edits' = edits
      BY <2>1, <2>2, WrittenFacts
    <2>5. TypeOK'
      BY <2>2, <2>3, <2>4 DEF TypeOK
    <2>6. \A f \in Fields : Normal(f, hash'[f]) = hash'[f]
      BY <2>1, <2>4, HashFacts
    <2>7. \A f \in Fields \ Read(map) : hash'[f] = Blank
      BY <2>1, <2>4, HashFacts
    <2>8. ASSUME NEW f \in Fields, OwnProperty(f)
          PROVE  props'[map[f].hub] = hash'[f]
      <3>1. /\ f \in Bound(map) /\ f \in Read(map)
            /\ map[f].hub \in Properties
        BY <1>1, <2>8 DEF OwnProperty, Bound, Read, Map, Binding
      <3>2. Bidders(contact, map, map[f].hub) = {f}
        BY <2>1, <2>8, <3>1 DEF Bidders, OwnProperty
      <3>3. Last({f}) = f
        BY <2>8, LastFacts
      <3>4. props'[map[f].hub] = contact[f]
        BY <2>2, <3>1, <3>2, <3>3 DEF SaveHub, ToHub
      <3>5. hash'[f] = contact[f]
        BY <2>1, <2>4, <3>1 DEF Hash
      <3> QED
        BY <3>4, <3>5
    <2>9. \A f \in Fields : OwnProperty(f)' => OwnProperty(f)
      BY <2>4 DEF OwnProperty, Bound, Read
    <2>10. \A f \in Fields \ Read(map') : f \in Fields \ Read(map)
      BY <2>4
    <2>11. EchoInv'
      BY <2>4, <2>6, <2>7, <2>8, <2>9, <2>10 DEF EchoInv
    <2> QED
      BY <2>5, <2>11
  <1> QED
    BY <1>2, <1>3

LEMMA ToShopStep ==
  ASSUME TypeOK, EchoInv, SyncToShop
  PROVE  TypeOK' /\ EchoInv'
  <1> DEFINE contact == FromHub(props, map)
  <1>1. props \in Props /\ map \in Map /\ user \in User
    BY DEF TypeOK
  <1>2. CASE Skip(contact)
    BY <1>2
    DEF SyncToShop, TypeOK, EchoInv, ghostVars, Read, OwnProperty, Bound
  <1>3. CASE ~Skip(contact)
    <2>1. \A f \in DOMAIN contact : contact[f] \in Text
      BY <1>1, FromHubFacts
    <2>2. /\ SaveShop(ToShop(contact, map, user))
          /\ hubJob' = FALSE
          /\ Written(contact, "shop")
          /\ UNCHANGED props
      BY <1>3 DEF SyncToShop
    <2> HIDE DEF contact
    <2>3. user' \in User /\ body' \in User
      BY <1>1, <2>1, <2>2, ToShopIsUser DEF SaveShop
    <2>4. /\ hash' = Hash(contact) /\ hash' \in Hashes /\ writes' \in Nat
          /\ wrote' = "shop" /\ remapped' \in BOOLEAN
          /\ map' = map /\ edits' = edits
      BY <2>1, <2>2, WrittenFacts
    <2>5. TypeOK'
      BY <2>2, <2>3, <2>4 DEF TypeOK
    <2>6. \A f \in Fields : Normal(f, hash'[f]) = hash'[f]
      BY <2>1, <2>4, HashFacts
    <2> QED
      BY <2>4, <2>5, <2>6 DEF EchoInv
  <1> QED
    BY <1>2, <1>3

LEMMA FieldStep ==
  ASSUME TypeOK, EchoInv, [Next]_vars
  PROVE  TypeOK' /\ EchoInv'
  <1>1. ASSUME wrote' = None, hash' = hash
        PROVE  EchoInv'
    BY <1>1, NoneIsNoSystem DEF EchoInv
  <1>2. ASSUME NEW e \in HubEdits, EditHub(e[1], e[2])
        PROVE  TypeOK' /\ EchoInv'
    <2>1. e[1] \in Properties /\ e[2] \in Text
      BY FieldAssumption
    <2> QED
      BY <1>1, <1>2, <2>1, HubEditStep
  <1>3. ASSUME NEW e \in ShopEdits, EditShop(e[1], e[2])
        PROVE  TypeOK' /\ EchoInv'
    <2>1. e[1] \in Places /\ e[2] \in Text
      BY FieldAssumption
    <2> QED
      BY <1>1, <1>3, <2>1, ShopEditStep
  <1>4. ASSUME NEW given \in Offered, SaveMap(given)
        PROVE  TypeOK' /\ EchoInv'
    BY <1>1, <1>4, EnsuredIsMap, RemapStep DEF SaveMap
  <1>5. ASSUME UseDefaults
        PROVE  TypeOK' /\ EchoInv'
    BY <1>1, <1>5, DefaultIsMap, RemapStep DEF UseDefaults
  <1>6. ASSUME UNCHANGED vars
        PROVE  TypeOK' /\ EchoInv'
    BY <1>6 DEF vars, ghostVars, TypeOK, EchoInv, OwnProperty, Bound, Read
  <1> QED
    BY <1>2, <1>3, <1>4, <1>5, <1>6, ToHubStep, ToShopStep DEF Next

(* Whatever people enter, and whatever maps they save: every value stays   *)
(* in its type, and EchoInv holds.                                         *)
THEOREM FieldInvHolds == Spec => [](TypeOK /\ EchoInv)
  <1>1. TypeOK /\ EchoInv /\ [Next]_vars => (TypeOK /\ EchoInv)'
    BY FieldStep
  <1> QED
    BY <1>1, FieldInit, PTL DEF Spec

(* Every value stays in its type: the maps that are saved are made         *)
(* complete, and what is read and written through them are texts.          *)
THEOREM FieldTypeCorrect == Spec => []TypeOK
  BY FieldInvHolds, PTL

-----------------------------------------------------------------------------
(* The echo.                                                               *)

(* What our own write left in HubSpot hashes to what was stored with it.   *)
LEMMA EchoHashesAlike ==
  ASSUME TypeOK, EchoInv, wrote = "hub", NothingLeftBehind
  PROVE  Hash(FromHub(props, map)) = hash
  <1> DEFINE contact == FromHub(props, map)
  <1>1. /\ DOMAIN contact = Bound(map) \cup {"oxidId"}
        /\ \A f \in Bound(map) \cup {"oxidId"} : contact[f] \in Text
    BY FromHubFacts DEF TypeOK
  <1>2. ASSUME NEW f \in Fields
        PROVE  /\ hash[f] \in Text /\ Normal(f, hash[f]) = hash[f]
               /\ f \notin Bound(map) => hash[f] = Blank
               /\ f \in Bound(map) => props[map[f].hub] = hash[f]
    BY DEF TypeOK, Hashes, EchoInv, NothingLeftBehind
  <1>3. ASSUME NEW f \in Fields, f # "oxidId"
        PROVE  Hash(contact)[f] = hash[f]
    <2>1. CASE f \in Bound(map)
      BY <1>1, <1>2, <1>3, <2>1 DEF Hash, FromHub
    <2>2. CASE f \notin Bound(map)
      BY <1>1, <1>2, <1>3, <2>2 DEF Hash
    <2> QED
      BY <2>1, <2>2
  <1>4. Hash(contact)["oxidId"] = hash["oxidId"]
    <2>1. "oxidId" \in Fields /\ contact["oxidId"] = Or(hash["oxidId"], props["ox_user_id"])
      BY <1>2 DEF FromHub, Fields
    <2>2. contact["oxidId"] = hash["oxidId"]
      BY <2>1 DEF Or, NothingLeftBehind
    <2> QED
      BY <1>1, <1>2, <2>1, <2>2 DEF Hash
  <1>5. Hash(contact) \in Hashes
    BY <1>1, HashFacts
  <1> QED
    BY <1>3, <1>4, <1>5 DEF TypeOK, Hashes

(* The event that HubSpot sends after a write of ours is skipped, under    *)
(* any map that gives each field a property of its own and loses nothing   *)
(* that was hashed.                                                        *)
THEOREM HubEchoIsSkippedHolds == Spec => []HubEchoIsSkipped
  <1>1. TypeOK /\ EchoInv => HubEchoIsSkipped
    BY EchoHashesAlike DEF HubEchoIsSkipped, Skip, Unchanged
  <1> QED
    BY <1>1, FieldInvHolds, PTL

-----------------------------------------------------------------------------
(* Agreement.                                                              *)

(* The fields of both readings that a hash is made of. *)
LEMMA ShopHashFields ==
  ASSUME NEW u \in User, NEW m \in Map, NEW f \in Read(m)
  PROVE  Hash(FromOxid(u, m))[f] = FromOxid(u, m)[f]
  BY FromOxidFacts DEF Hash, Read

LEMMA HubHashFields ==
  ASSUME TypeOK, NEW f \in Fields, Told(f)
  PROVE  Hash(FromHub(props, map))[f] = Normal(f, props[map[f].hub])
  <1> DEFINE t == props[map[f].hub]
  <1>1. f \in Bound(map)
    BY DEF Told, OwnProperty
  <1>2. t \in Text
    BY <1>1 DEF TypeOK, Props, Map, Binding, Bound, Read
  <1>3. FromHub(props, map)[f] = Normal(f, t)
    BY <1>1 DEF FromHub, Told, Or, Normal
  <1>4. Normal(f, Normal(f, t)) = Normal(f, t)
    BY <1>2, NormalFacts
  <1> QED
    BY <1>1, <1>3, <1>4 DEF Hash, FromHub

(* Whether a contact of HubSpot is synced depends on its email alone. *)
LEMMA SyncableByMail ==
  ASSUME NEW m, NEW p, NEW q,
         "email" \in Bound(m) => p[m["email"].hub] = q[m["email"].hub]
  PROVE  Syncable(FromHub(p, m)) <=> Syncable(FromHub(q, m))
  <1>1. /\ "email" \in Fields /\ "email" # "oxidId"
        /\ DOMAIN FromHub(p, m) = Bound(m) \cup {"oxidId"}
        /\ DOMAIN FromHub(q, m) = Bound(m) \cup {"oxidId"}
    BY DEF FromHub, Fields
  <1>2. CASE "email" \in Bound(m)
    BY <1>1, <1>2 DEF FromHub, Syncable, Hash
  <1>3. CASE "email" \notin Bound(m)
    BY <1>1, <1>3 DEF Syncable, Hash
  <1> QED
    BY <1>2, <1>3

LEMMA AgreeInit == Init => AgreeInv
  <1> SUFFICES ASSUME Init PROVE AgreeInv
    OBVIOUS
  <1> DEFINE contact == FromOxid(user, Default)
  <1>1. TypeOK
    BY FieldInit
  <1>2. user \in User /\ Default \in Map /\ map = Default
        /\ hash = Hash(contact)
    BY <1>1, DefaultIsMap DEF TypeOK, Init
  <1>3. /\ \A place \in Places :
             place \notin {<<"user", "oxusername">>, <<"user", "oxid">>} =>
               user[place] = Blank
        /\ user[<<"user", "oxusername">>] = <<Mail>>
        /\ user[<<"user", "oxid">>] = <<Id>>
    BY PlaceFacts DEF Init, MailPlace, IdPlace
  <1>4. ASSUME NEW f \in Fields, f \in Bound(Default)
        PROVE  props[Default[f].hub] = ReadBinding(user, f, Default[f])
    <2>1. /\ \A row \in {"user", "delivery"}, column \in AddressColumns :
               user[<<row, column>>] = Blank
          /\ user[<<"user", "oxfname">>] = Blank /\ user[<<"user", "oxsal">>] = Blank
          /\ user[<<"salutation", "title">>] = Blank
      BY <1>3, PlaceFacts DEF AddressColumns
    <2>2. Blank \o Blank = Blank
      BY DEF Blank
    <2>3. /\ \A row \in {"user", "delivery"} :
               Street(user, row) = Blank /\ Country(user, row) = Blank
          /\ Salutation(user) = Blank
      BY <2>1, <2>2 DEF Street, Country, Salutation, Or, AddressColumns
    <2>4. CASE f = "email"
      BY <1>3, <2>4
      DEF Init, ReadBinding, Default, Bind, CountryPlaces, Properties
    <2>5. CASE f = "oxidId"
      BY <1>3, <2>5
      DEF Init, ReadBinding, Default, Bind, CountryPlaces, Properties
    <2>6. CASE f = "firstName"
      BY <2>1, <2>6
      DEF Init, ReadBinding, Default, Bind, CountryPlaces, Properties
    <2>7. CASE f = "salutation"
      BY <2>3, <2>7 DEF Init, ReadBinding, Default, Bind, Properties
    <2>8. CASE f = "phone"
      BY <2>1, <2>8
      DEF Init, ReadBinding, Pick, Transformed, Or, Default, Bind,
         Properties, AddressColumns
    <2>9. CASE f = "address"
      BY <2>3, <2>9
      DEF Init, ReadBinding, Pick, Transformed, Or, Default, Bind,
         Properties
    <2>10. CASE f = "country"
      BY <2>3, <2>10
      DEF Init, ReadBinding, Pick, Transformed, Or, Default, Bind,
         Properties
    <2>11. f # "company"
      BY <1>4 DEF Bound, Default, Bind
    <2> QED
      BY <2>4, <2>5, <2>6, <2>7, <2>8, <2>9, <2>10, <2>11 DEF Fields
  <1>5. ASSUME NEW f \in Fields, Told(f)
        PROVE  Normal(f, props[map[f].hub]) = hash[f]
    <2>1. f \in Bound(Default) /\ f \in Read(Default)
      BY <1>2, <1>5 DEF Told, OwnProperty, Bound
    <2>2. contact[f] = Normal(f, ReadBinding(user, f, Default[f]))
      BY <2>1 DEF FromOxid
    <2>3. hash[f] = contact[f]
      BY <1>2, <2>1, ShopHashFields
    <2> QED
      BY <1>2, <1>4, <2>1, <2>2, <2>3
  <1> QED
    BY <1>2, <1>5 DEF Init, AgreeInv, ShopHashed, HubHashed

(* What people do: the record of the shop waits, or HubSpot's event does   *)
(* unless the property is not watched, or a new map waits for a write.     *)
LEMMA AgreeHubEdit ==
  ASSUME TypeOK, AgreeInv, NEW p \in Properties, NEW t \in Text, EditHub(p, t)
  PROVE  AgreeInv'
  <1>1. /\ props' = [props EXCEPT ![p] = t]
        /\ hubJob' = (hubJob \/ \E q \in Watched : props'[q] # props[q])
        /\ hash' = hash /\ UNCHANGED <<user, map, body, remapped>>
    BY DEF EditHub, SaveHub, Edit
  <1>2. ShopHashed' /\ body' \in {None, user'}
    BY <1>1 DEF AgreeInv, ShopHashed
  <1>3. HubHashed'
    <2>1. SUFFICES ASSUME ~hubJob', ~remapped', map["email"].hub \in Watched,
                          Syncable(FromHub(props', map)),
                          NEW f \in Fields, Told(f)'
                   PROVE  Normal(f, props'[map[f].hub]) = hash[f]
      BY <1>1 DEF HubHashed
    <2>2. ~hubJob /\ \A q \in Watched : props'[q] = props[q]
      BY <1>1, <2>1
    <2>3. Syncable(FromHub(props, map))
      BY <2>1, <2>2, SyncableByMail
    <2>4. Told(f) /\ props'[map[f].hub] = props[map[f].hub]
      BY <1>1, <2>1, <2>2 DEF Told, OwnProperty, Bound, Read
    <2> QED
      BY <1>1, <2>1, <2>2, <2>3, <2>4 DEF AgreeInv, HubHashed
  <1> QED
    BY <1>2, <1>3 DEF AgreeInv

LEMMA AgreeShopEdit ==
  ASSUME TypeOK, AgreeInv, NEW place \in Places, NEW t \in Text,
         EditShop(place, t)
  PROVE  AgreeInv'
  <1>1. /\ body' = user' /\ hash' = hash
        /\ UNCHANGED <<props, map, hubJob, remapped>>
    BY DEF EditShop, SaveShop, Edit
  <1>2. body' # None
    BY <1>1, ShopEditStep, NoneIsNoUser DEF TypeOK
  <1>3. HubHashed'
    BY <1>1 DEF AgreeInv, HubHashed, Told, OwnProperty, Bound, Read
  <1> QED
    BY <1>1, <1>2, <1>3 DEF AgreeInv, ShopHashed

LEMMA AgreeRemap ==
  ASSUME AgreeInv, NEW m, Remap(m)
  PROVE  AgreeInv'
  BY DEF Remap, AgreeInv, ShopHashed, HubHashed

(* A sync to HubSpot is skipped if the shop's record is the one hashed, or *)
(* makes it the one hashed and gives HubSpot its values.                   *)
LEMMA AgreeToHub ==
  ASSUME TypeOK, EchoInv, AgreeInv, SyncToHub
  PROVE  AgreeInv'
  <1> DEFINE contact == FromOxid(user, map)
  <1>1. body = user /\ user \in User /\ map \in Map /\ body' = None
        /\ user' = user /\ map' = map
    BY DEF SyncToHub, AgreeInv, TypeOK, Written
  <1>2. CASE Skip(contact)
    <2>1. UNCHANGED <<props, map, hash, hubJob, remapped>>
      BY <1>1, <1>2 DEF SyncToHub, ghostVars
    <2>2. HubHashed'
      BY <2>1 DEF AgreeInv, HubHashed, Told, OwnProperty, Bound, Read
    <2>3. ShopHashed'
      BY <1>1, <1>2, <2>1 DEF ShopHashed, Skip, Unchanged
    <2> QED
      BY <1>1, <2>2, <2>3 DEF AgreeInv
  <1>3. CASE ~Skip(contact)
    <2>1. hash' = Hash(contact) /\ wrote' = "hub"
      BY <1>1, <1>3 DEF SyncToHub, Written
    <2>2. ShopHashed'
      BY <1>1, <2>1 DEF ShopHashed
    <2>3. EchoInv'
      BY ToHubStep
    <2>4. ASSUME NEW f \in Fields, Told(f)'
          PROVE  Normal(f, props'[map'[f].hub]) = hash'[f]
      BY <2>1, <2>3, <2>4 DEF Told, EchoInv
    <2> QED
      BY <1>1, <2>2, <2>4 DEF AgreeInv, HubHashed
  <1> QED
    BY <1>2, <1>3

(* A sync to the shop is skipped if HubSpot's contact is the one hashed,   *)
(* or makes it the one hashed; the shop then answers with its record.      *)
LEMMA AgreeToShop ==
  ASSUME TypeOK, EchoInv, AgreeInv, SyncToShop
  PROVE  AgreeInv'
  <1> DEFINE contact == FromHub(props, map)
  <1>1. map' = map /\ props' = props /\ TypeOK'
    BY ToShopStep DEF SyncToShop, Written
  <1>2. Syncable(contact) => hash' = Hash(contact)
    BY DEF SyncToShop, Skip, Unchanged, Written
  <1>3. HubHashed'
    <2>1. SUFFICES ASSUME Syncable(contact), NEW f \in Fields, Told(f)
                   PROVE  Normal(f, props[map[f].hub]) = hash'[f]
      BY <1>1 DEF HubHashed, Told, OwnProperty, Bound, Read
    <2> QED
      BY <1>2, <2>1, HubHashFields
  <1>4. body' \in {None, user'} /\ ShopHashed'
    <2>1. CASE Skip(contact)
      BY <2>1 DEF SyncToShop, AgreeInv, ShopHashed, ghostVars
    <2>2. CASE ~Skip(contact)
      <3>1. body' = user'
        BY <2>2 DEF SyncToShop, SaveShop
      <3>2. body' # None
        BY <1>1, <3>1, NoneIsNoUser DEF TypeOK
      <3> QED
        BY <3>1, <3>2 DEF ShopHashed
    <2> QED
      BY <2>1, <2>2
  <1> QED
    BY <1>3, <1>4 DEF AgreeInv

LEMMA AgreeStep ==
  ASSUME TypeOK, EchoInv, AgreeInv, [Next]_vars
  PROVE  AgreeInv'
  <1>1. ASSUME NEW e \in HubEdits, EditHub(e[1], e[2])
        PROVE  AgreeInv'
    <2>1. e[1] \in Properties /\ e[2] \in Text
      BY FieldAssumption
    <2> QED
      BY <1>1, <2>1, AgreeHubEdit
  <1>2. ASSUME NEW e \in ShopEdits, EditShop(e[1], e[2])
        PROVE  AgreeInv'
    <2>1. e[1] \in Places /\ e[2] \in Text
      BY FieldAssumption
    <2> QED
      BY <1>2, <2>1, AgreeShopEdit
  <1>3. CASE UNCHANGED vars
    BY <1>3 DEF vars, ghostVars, AgreeInv, ShopHashed, HubHashed, Told,
       OwnProperty, Bound, Read
  <1> QED
    BY <1>1, <1>2, <1>3, AgreeRemap, AgreeToHub, AgreeToShop
    DEF Next, SaveMap, UseDefaults

(* When nothing waits, both sides hold what was hashed: for any map, any   *)
(* edits in any order and any spelling, the fields that HubSpot tells and  *)
(* that have a property of their own are the same on both sides            *)
(* (tenantFieldMap.ts, hash.ts and the loop guard of syncContact).         *)
THEOREM FieldsAgreeHolds == Spec => []FieldsAgree
  <1>1. TypeOK /\ AgreeInv => FieldsAgree
    <2>1. SUFFICES ASSUME TypeOK, AgreeInv, ~hubJob, body = None, ~remapped,
                          BothSyncable, NEW f \in Fields, Told(f)
                   PROVE  Normal(f, props[map[f].hub]) = FromOxid(user, map)[f]
      BY DEF FieldsAgree
    <2>2. hash = Hash(FromOxid(user, map))
      BY <2>1 DEF AgreeInv, ShopHashed, BothSyncable
    <2>3. Normal(f, props[map[f].hub]) = hash[f]
      BY <2>1 DEF AgreeInv, HubHashed, BothSyncable
    <2>4. hash[f] = FromOxid(user, map)[f]
      BY <2>1, <2>2, ShopHashFields DEF Told, OwnProperty, Bound, TypeOK
    <2> QED
      BY <2>3, <2>4
  <1>2. TypeOK /\ EchoInv /\ AgreeInv /\ [Next]_vars => AgreeInv'
    BY AgreeStep
  <1> QED
    BY <1>1, <1>2, AgreeInit, FieldInvHolds, PTL DEF Spec

-----------------------------------------------------------------------------
(* Echoes end: what was read of a field and is written back is read again. *)

LEMMA ReadFromPlaces ==
  ASSUME NEW f, NEW b \in Binding, b.oxid # None
  PROVE  ReadFrom(f, b) \subseteq Places
  <1>1. b.oxid \in Places
    BY DEF Binding
  <1>2. Rows \X {"oxstreet", "oxstreetnr", "oxcountry", "oxcountryid"}
          \subseteq Places
    BY PlaceFacts DEF Rows, AddressColumns
  <1>3. <<"salutation", "title">> \in Places /\ <<"user", "oxsal">> \in Places
    BY PlaceFacts DEF Places
  <1> QED
    BY <1>1, <1>2, <1>3 DEF ReadFrom

(* readOxidBinding looks at no place outside of ReadFrom. *)
LEMMA ReadsOnlyThere ==
  ASSUME NEW u, NEW v, NEW f, NEW b,
         \A place \in ReadFrom(f, b) : u[place] = v[place]
  PROVE  ReadBinding(u, f, b) = ReadBinding(v, f, b)
  <1>1. u[b.oxid] = v[b.oxid]
    BY DEF ReadFrom
  <1>2. ASSUME f = "country" \/ b.oxid[2] \in {"oxcountry", "oxcountryid"},
               NEW row \in Rows
        PROVE  Country(u, row) = Country(v, row)
    BY <1>2 DEF ReadFrom, Country, Rows
  <1>3. ASSUME b.transform \in {"street", "pick"}, NEW row \in Rows
        PROVE  Transformed(u, b, row) = Transformed(v, b, row)
    <2>1. CASE b.transform = "street"
      BY <1>3, <2>1 DEF ReadFrom, Transformed, Street, Rows
    <2>2. CASE b.transform = "pick"
      BY <1>2, <1>3, <2>2 DEF ReadFrom, Transformed, Rows
    <2> QED
      BY <1>3, <2>1, <2>2
  <1>4. b.transform \in {"street", "pick"} => Pick(u, b) = Pick(v, b)
    BY <1>3 DEF Pick, Rows
  <1>5. f = "salutation" => Salutation(u) = Salutation(v)
    BY DEF ReadFrom, Salutation
  <1>6. f = "country" \/ b.oxid \in CountryPlaces =>
          Country(u, "user") = Country(v, "user")
    BY <1>2 DEF CountryPlaces, Rows
  <1> QED
    BY <1>1, <1>4, <1>5, <1>6 DEF ReadBinding

(* A value that was read and is written to the user's own row, or what     *)
(* normalizeValue made of it, is read again, if no house number follows.   *)
LEMMA ReadsBack ==
  ASSUME NEW u \in User, NEW v \in User, NEW f, NEW b \in Binding,
         b.oxid # None, Writable(b.oxid), v[HouseNumber] = Blank,
         b.oxid # HouseNumber, v[b.oxid] # Blank,
         v[b.oxid] = Normal(f, ReadBinding(u, f, b)),
         \A place \in ReadFrom(f, b) \ {b.oxid} : u[place] = v[place]
  PROVE  Normal(f, ReadBinding(v, f, b)) = Normal(f, ReadBinding(u, f, b))
  <1> DEFINE t == v[b.oxid]
  <1>1. /\ t \in Text /\ t # Blank
        /\ Normal(f, t) = t /\ t = Normal(f, ReadBinding(u, f, b))
    BY ReadIsText, NormalFacts DEF Binding, User
  <1>2. SUFFICES \/ ReadBinding(v, f, b) = t
                 \/ ReadBinding(v, f, b) = ReadBinding(u, f, b)
    BY <1>1
  <1>3. b.oxid = <<"user", b.oxid[2]>> /\ b.oxid \in Places
    BY DEF Writable, Binding, Places
  <1>4. CASE b.transform = "street"
    <2>1. CASE b.oxid = <<"user", "oxstreet">>
      <3>1. Street(v, "user") = t \o Blank
        BY <2>1 DEF Street, HouseNumber
      <3>2. Street(v, "user") = t
        BY <1>1, <3>1 DEF Text, Blank
      <3> QED
        BY <1>1, <1>4, <3>2 DEF ReadBinding, Pick, Transformed, Or
    <2>2. CASE b.oxid # <<"user", "oxstreet">>
      <3>1. \A row \in Rows : Street(v, row) = Street(u, row)
        <4>1. ASSUME NEW row \in Rows, NEW column \in {"oxstreet", "oxstreetnr"}
              PROVE  <<row, column>> \in ReadFrom(f, b) \ {b.oxid}
          <5>1. <<row, column>> \in ReadFrom(f, b)
            BY <1>4 DEF ReadFrom
          <5>2. row # "user" => <<row, column>> # b.oxid
            BY DEF Writable
          <5>3. row = "user" => <<row, column>> # b.oxid
            BY <2>2 DEF HouseNumber
          <5> QED
            BY <5>1, <5>2, <5>3
        <4> QED
          BY <4>1 DEF Street
      <3> QED
        BY <1>4, <3>1 DEF ReadBinding, Pick, Transformed, Rows
    <2> QED
      BY <2>1, <2>2
  <1>5. CASE b.transform = "pick" /\ b.oxid[2] \in {"oxcountry", "oxcountryid"}
    <2>1. CASE b.oxid[2] = "oxcountry"
      BY <1>1, <1>3, <1>5, <2>1
      DEF ReadBinding, Pick, Transformed, Country, Or
    <2>2. CASE b.oxid[2] = "oxcountryid"
      <3>1. v[<<"user", "oxcountry">>] = u[<<"user", "oxcountry">>]
        BY <1>3, <1>5, <2>2 DEF ReadFrom, Rows
      <3>2. CASE u[<<"user", "oxcountry">>] = Blank
        BY <1>1, <1>3, <1>5, <2>2, <3>1, <3>2
        DEF ReadBinding, Pick, Transformed, Country, Or
      <3>3. CASE u[<<"user", "oxcountry">>] # Blank
        BY <1>3, <1>5, <2>2, <3>1, <3>3
        DEF ReadBinding, Pick, Transformed, Country, Or
      <3> QED
        BY <3>2, <3>3
    <2> QED
      BY <1>5, <2>1, <2>2
  <1>6. CASE b.transform = "pick" /\ b.oxid[2] \notin {"oxcountry", "oxcountryid"}
    BY <1>1, <1>3, <1>6 DEF ReadBinding, Pick, Transformed, Or
  <1>7. CASE b.transform \notin {"street", "pick"} /\ f = "salutation"
    <2>1. CASE b.oxid[2] = "oxsal"
      <3>1. u[<<"salutation", "title">>] = v[<<"salutation", "title">>]
        BY <1>3, <1>7 DEF ReadFrom
      <3> QED
        BY <1>1, <1>3, <1>7, <2>1, <3>1 DEF ReadBinding, Salutation, Or
    <2> QED
      BY <1>1, <1>7, <2>1 DEF ReadBinding, Or
  <1>8. CASE b.transform \notin {"street", "pick"} /\ f # "salutation"
    BY <1>1, <1>8 DEF ReadBinding, Or
  <1> QED
    BY <1>4, <1>5, <1>6, <1>7, <1>8

LEMMA MapsUsedAreMaps == MapsUsed \subseteq Map
  BY DefaultIsMap, EnsuredIsMap DEF MapsUsed

(* Of the fields that share a property, the one that is sent. *)
Spokesman(m, f) == f = Last({g \in Bound(m) : m[g].hub = m[f].hub})

LEMMA BoundBidders ==
  ASSUME NEW u \in User, NEW m \in Map, NEW p
  PROVE  Bidders(FromOxid(u, m), m, p) = {f \in Bound(m) : m[f].hub = p}
  BY FromOxidFacts DEF Bidders, Bound

LEMMA MetMeans ==
  ASSUME NEW u \in User, NEW m \in Map, NEW p \in Props
  PROVE  ToHub(FromOxid(u, m), m, p) = p <=>
           \A f \in Bound(m) :
             Spokesman(m, f) => p[m[f].hub] = FromOxid(u, m)[f]
  <1> DEFINE c == FromOxid(u, m)
             Of(q) == {f \in Bound(m) : m[f].hub = q}
  <1>1. \A q : Bidders(c, m, q) = Of(q)
    BY BoundBidders
  <1>2. ASSUME NEW q \in Properties, Of(q) # {}
        PROVE  /\ Last(Of(q)) \in Bound(m) /\ m[Last(Of(q))].hub = q
               /\ Spokesman(m, Last(Of(q)))
    <2>1. Of(q) \in SUBSET Fields
      BY DEF Bound, Read
    <2>2. Last(Of(q)) \in Of(q)
      BY <1>2, <2>1, LastFacts
    <2> QED
      BY <2>2 DEF Spokesman
  <1>3. ASSUME NEW f \in Bound(m), Spokesman(m, f)
        PROVE  /\ m[f].hub \in Properties /\ Of(m[f].hub) # {}
               /\ Last(Of(m[f].hub)) = f
    BY <1>3 DEF Spokesman, Bound, Read, Map, Binding
  <1>4. ToHub(c, m, p) =
          [q \in Properties |-> IF Of(q) = {} THEN p[q] ELSE c[Last(Of(q))]]
    BY <1>1 DEF ToHub
  <1>5. ASSUME ToHub(c, m, p) = p, NEW f \in Bound(m), Spokesman(m, f)
        PROVE  p[m[f].hub] = c[f]
    BY <1>3, <1>4, <1>5
  <1>6. ASSUME \A f \in Bound(m) : Spokesman(m, f) => p[m[f].hub] = c[f]
        PROVE  ToHub(c, m, p) = p
    <2>1. \A q \in Properties : ToHub(c, m, p)[q] = p[q]
      BY <1>2, <1>4, <1>6
    <2> QED
      BY <1>4, <2>1 DEF Props
  <1> QED
    BY <1>5, <1>6

(* What is written to the shop in the place of a field, and nowhere else   *)
(* of what the field is read from.                                         *)
LEMMA WrittenAlone ==
  ASSUME NEW u \in User, NEW m \in Map, OwnColumns(m), NEW contact,
         NEW f \in Bound(m)
  PROVE  /\ \A place \in ReadFrom(f, m[f]) :
              place # m[f].oxid \/ f \notin Sent(contact, m) =>
                ToShop(contact, m, u)[place] = u[place]
         /\ f \in Sent(contact, m) =>
              ToShop(contact, m, u)[m[f].oxid] = contact[f]
  <1> DEFINE At(place) == {g \in Sent(contact, m) : m[g].oxid = place}
  <1>1. ASSUME NEW g \in Sent(contact, m), m[g].oxid \in ReadFrom(f, m[f])
        PROVE  g = f
    BY <1>1 DEF Sent, OwnColumns
  <1>2. m[f].oxid \in ReadFrom(f, m[f]) /\ m[f].oxid \in Places
    BY DEF ReadFrom, Bound, Read, Map, Binding
  <1>3. ASSUME NEW place \in ReadFrom(f, m[f]),
               place # m[f].oxid \/ f \notin Sent(contact, m)
        PROVE  ToShop(contact, m, u)[place] = u[place]
    <2>1. At(place) = {}
      BY <1>1, <1>3
    <2>2. place \in Places
      BY ReadFromPlaces DEF Bound, Read, Map
    <2> QED
      BY <2>1, <2>2 DEF ToShop
  <1>4. ASSUME f \in Sent(contact, m)
        PROVE  ToShop(contact, m, u)[m[f].oxid] = contact[f]
    <2>1. At(m[f].oxid) = {f}
      BY <1>1, <1>2, <1>4
    <2>2. Last({f}) = f
      BY LastFacts DEF Bound, Read
    <2> QED
      BY <1>2, <2>1, <2>2 DEF ToShop
  <1> QED
    BY <1>3, <1>4

(* Once HubSpot holds what the shop says, a sync to the shop changes       *)
(* nothing of it that HubSpot would be told.                               *)
LEMMA ReadAgain ==
  ASSUME NEW u \in User, NEW m \in Map, NEW p \in Props,
         OwnColumns(m), Unnumbered(m), u[HouseNumber] = Blank,
         NEW f \in Bound(m), p[m[f].hub] = FromOxid(u, m)[f]
  PROVE  LET v == ToShop(FromHub(p, m), m, u)
         IN  FromOxid(v, m)[f] = FromOxid(u, m)[f]
  <1> DEFINE contact == FromHub(p, m)
             v == ToShop(contact, m, u)
  <1>1. v \in User
    BY FromHubFacts, ToShopIsUser
  <1>2. /\ f \in Read(m) /\ f \in Fields /\ m[f] \in Binding
        /\ m[f].oxid # None /\ m[f].oxid \in Places
    BY DEF Bound, Read, Map, Binding
  <1>3. v[HouseNumber] = Blank
    <2>1. HouseNumber \in Places
      BY PlaceFacts DEF HouseNumber, AddressColumns
    <2>2. {g \in Sent(contact, m) : m[g].oxid = HouseNumber} = {}
      BY DEF Unnumbered, Sent, Read
    <2> QED
      BY <2>1, <2>2 DEF ToShop
  <1>4. CASE f \notin Sent(contact, m)
    <2>1. \A place \in ReadFrom(f, m[f]) : u[place] = v[place]
      BY <1>4, WrittenAlone
    <2> QED
      BY <1>2, <2>1, ReadsOnlyThere DEF FromOxid
  <1>5. CASE f \in Sent(contact, m)
    <2>1. /\ v[m[f].oxid] = contact[f] /\ contact[f] # Blank
          /\ Writable(m[f].oxid) /\ f # "oxidId"
      BY <1>5, WrittenAlone DEF Sent
    <2>2. contact[f] = Normal(f, p[m[f].hub])
      BY <2>1 DEF FromHub
    <2>3. contact[f] = Normal(f, ReadBinding(u, f, m[f]))
      BY <1>2, <2>2, FromOxidFacts DEF FromOxid
    <2>4. \A place \in ReadFrom(f, m[f]) \ {m[f].oxid} : u[place] = v[place]
      BY WrittenAlone
    <2>5. m[f].oxid # HouseNumber
      BY <1>2 DEF Unnumbered
    <2>6. Normal(f, ReadBinding(v, f, m[f])) = Normal(f, ReadBinding(u, f, m[f]))
      BY <1>1, <1>2, <1>3, <2>1, <2>3, <2>4, <2>5, ReadsBack
    <2> QED
      BY <1>2, <2>6 DEF FromOxid
  <1> QED
    BY <1>4, <1>5

LEMMA FewInit == Init => FewInv
  <1> SUFFICES ASSUME Init PROVE FewInv
    OBVIOUS
  <1>1. map \in MapsUsed
    BY DEF Init, MapsUsed
  <1>2. user[HouseNumber] = Blank
    BY PlaceFacts DEF Init, HouseNumber, AddressColumns, MailPlace, IdPlace
  <1>3. ToCome = 0
    BY DEF Init, ToCome
  <1> QED
    BY <1>1, <1>2, <1>3 DEF Init, FewInv

LEMMA StillPaid ==
  ASSUME NEW w \in Nat, NEW n \in Nat, NEW more \in 0 .. 4,
         NEW x \in Nat, NEW still \in 0 .. 4,
         w + more <= 4 * n
  PROVE  /\ x + still <= w + more => x + still <= 4 * n
         /\ w + still <= 4 * (n + 1)
  OBVIOUS

(* An edit or a new map pays for all that may follow it. *)
LEMMA FewEdit ==
  ASSUME TypeOK, FewInv, Edit, map' \in MapsUsed, user'[HouseNumber] = Blank
  PROVE  FewInv'
  <1>1. ToCome \in 0 .. 4 /\ ToCome' \in 0 .. 4
    BY DEF ToCome
  <1>2. edits' = edits + 1 /\ writes' = writes /\ edits \in Nat /\ writes \in Nat
    BY DEF Edit, TypeOK
  <1>3. writes' + ToCome' <= 4 * edits'
    <2>1. writes + ToCome <= 4 * edits
      BY DEF FewInv
    <2>2. writes + ToCome' <= 4 * (edits + 1)
      BY <1>1, <1>2, <2>1, StillPaid
    <2> QED
      BY <1>2, <2>2
  <1> QED
    BY <1>3 DEF FewInv

LEMMA FewToHub ==
  ASSUME TypeOK, AgreeInv, FewInv, SyncToHub
  PROVE  FewInv'
  <1> DEFINE contact == FromOxid(user, map)
  <1>1. /\ body = user /\ body # None /\ body' = None
        /\ user' = user /\ map' = map /\ edits' = edits
    BY DEF SyncToHub, AgreeInv, Written
  <1>2. /\ edits \in Nat /\ writes \in Nat /\ hubJob \in BOOLEAN
        /\ user \in User /\ map \in Map /\ props \in Props
    BY DEF TypeOK
  <1>3. writes' + ToCome' <= writes + ToCome
    <2>1. CASE Skip(contact)
      <3>1. writes' = writes /\ hubJob' = hubJob /\ props' = props
        BY <1>1, <2>1 DEF SyncToHub, ghostVars
      <3>2. Met' <=> Met
        BY <1>1, <3>1 DEF Met
      <3> QED
        BY <1>1, <1>2, <3>1, <3>2 DEF ToCome
    <2>2. CASE ~Skip(contact)
      <3>1. /\ props' = ToHub(contact, map, props) /\ writes' = writes + 1
            /\ hubJob' = (hubJob \/ \E q \in Watched : props'[q] # props[q])
        BY <1>1, <2>2 DEF SyncToHub, SaveHub, Written
      <3>2. Met'
        <4>1. \A q \in Properties :
                Bidders(contact, map, q) # {} =>
                  props'[q] = contact[Last(Bidders(contact, map, q))]
          BY <3>1 DEF ToHub
        <4>2. ToHub(contact, map, props') = props'
          BY <3>1, <4>1 DEF ToHub
        <4> QED
          BY <1>1, <4>2 DEF Met
      <3>3. Met => hubJob' = hubJob
        BY <1>1, <1>2, <3>1 DEF Met
      <3>4. hubJob' \in BOOLEAN
        BY <1>2, <3>1
      <3> QED
        BY <1>1, <1>2, <3>1, <3>2, <3>3, <3>4 DEF ToCome
    <2> QED
      BY <2>1, <2>2
  <1>4. ToCome \in 0 .. 4 /\ ToCome' \in 0 .. 4 /\ writes' \in Nat
    BY <1>1, <1>2 DEF ToCome, SyncToHub, Written, ghostVars
  <1>5. writes + ToCome <= 4 * edits
    BY DEF FewInv
  <1>6. writes' + ToCome' <= 4 * edits'
    BY <1>1, <1>2, <1>3, <1>4, <1>5, StillPaid
  <1> QED
    BY <1>1, <1>6 DEF FewInv

LEMMA FewToShop ==
  ASSUME SingleColumns, TypeOK, FewInv, SyncToShop
  PROVE  FewInv'
  <1> DEFINE contact == FromHub(props, map)
  <1>1. /\ hubJob = TRUE /\ hubJob' = FALSE
        /\ props' = props /\ map' = map /\ edits' = edits
    BY DEF SyncToShop, Written, TypeOK
  <1>2. /\ edits \in Nat /\ writes \in Nat
        /\ user \in User /\ map \in Map /\ props \in Props
    BY DEF TypeOK
  <1>3. OwnColumns(map) /\ Unnumbered(map) /\ user[HouseNumber] = Blank
    BY DEF SingleColumns, FewInv
  <1>4. user'[HouseNumber] = Blank /\ writes' + ToCome' <= writes + ToCome
    <2>1. CASE Skip(contact)
      <3>1. writes' = writes /\ body' = body /\ user' = user
        BY <2>1 DEF SyncToShop, ghostVars
      <3>2. Met' <=> Met
        BY <1>1, <3>1 DEF Met
      <3> QED
        BY <1>1, <1>2, <1>3, <3>1, <3>2 DEF ToCome
    <2>2. CASE ~Skip(contact)
      <3>1. user' = ToShop(contact, map, user) /\ writes' = writes + 1
        BY <2>2 DEF SyncToShop, SaveShop, Written
      <3>2. user' \in User
        BY <1>2, <3>1, FromHubFacts, ToShopIsUser
      <3>3. Met => Met'
        <4>1. SUFFICES ASSUME Met, NEW f \in Bound(map), Spokesman(map, f)
                       PROVE  props[map[f].hub] = FromOxid(user', map)[f]
          BY <1>1, <1>2, <3>2, MetMeans DEF Met
        <4>2. props[map[f].hub] = FromOxid(user, map)[f]
          BY <1>2, <4>1, MetMeans DEF Met
        <4> QED
          BY <1>2, <1>3, <3>1, <4>2, ReadAgain
      <3>4. user'[HouseNumber] = Blank
        <4>1. HouseNumber \in Places
          BY PlaceFacts DEF HouseNumber, AddressColumns
        <4>2. {g \in Sent(contact, map) : map[g].oxid = HouseNumber} = {}
          BY <1>3 DEF Unnumbered, Sent, Read
        <4> QED
          BY <1>3, <3>1, <4>1, <4>2 DEF ToShop
      <3> QED
        BY <1>1, <1>2, <3>1, <3>3, <3>4 DEF ToCome
    <2> QED
      BY <2>1, <2>2
  <1>5. ToCome \in 0 .. 4 /\ ToCome' \in 0 .. 4 /\ writes' \in Nat
    BY <1>1, <1>2 DEF ToCome, SyncToShop, Written, ghostVars
  <1>6. writes + ToCome <= 4 * edits
    BY DEF FewInv
  <1>7. writes' + ToCome' <= 4 * edits'
    BY <1>1, <1>2, <1>4, <1>5, <1>6, StillPaid
  <1> QED
    BY <1>1, <1>4, <1>7 DEF FewInv

LEMMA FewStep ==
  ASSUME SingleColumns, TypeOK, AgreeInv, FewInv, [Next]_vars
  PROVE  FewInv'
  <1>1. ASSUME NEW e \in HubEdits, EditHub(e[1], e[2])
        PROVE  FewInv'
    BY <1>1, FewEdit DEF EditHub, FewInv
  <1>2. ASSUME NEW e \in ShopEdits, EditShop(e[1], e[2])
        PROVE  FewInv'
    <2>1. user'[HouseNumber] = Blank
      <3>1. HouseNumber \in Places
        BY PlaceFacts DEF HouseNumber, AddressColumns
      <3> QED
        BY <1>2, <3>1 DEF EditShop, SaveShop, SingleColumns, FewInv, TypeOK, User
    <2> QED
      BY <1>2, <2>1, FewEdit DEF EditShop, FewInv
  <1>3. ASSUME NEW m \in MapsUsed, Remap(m)
        PROVE  FewInv'
    BY <1>3, FewEdit DEF Remap, FewInv
  <1>4. CASE UNCHANGED vars
    BY <1>4 DEF vars, ghostVars, FewInv, ToCome, Met
  <1> QED
    BY <1>1, <1>2, <1>3, <1>4, FewToHub, FewToShop
    DEF Next, SaveMap, UseDefaults, MapsUsed

(* EchoesAreFew: where no field of a map is written to what another one is *)
(* read from, and no house number is kept apart from the street, an edit   *)
(* costs at most four writes, for every map, text and order of the syncs   *)
(* (syncContact.ts, tenantFieldMap.ts).                                    *)
THEOREM EchoesAreFewHolds ==
  ASSUME SingleColumns
  PROVE  Spec => []EchoesAreFew
  <1>1. TypeOK /\ FewInv => EchoesAreFew
    <2>1. ToCome >= 0
      BY DEF ToCome
    <2> QED
      BY <2>1 DEF TypeOK, FewInv, EchoesAreFew, ToCome
  <1>2. TypeOK /\ EchoInv /\ AgreeInv /\ [Next]_vars => AgreeInv'
    BY AgreeStep
  <1>3. TypeOK /\ AgreeInv /\ FewInv /\ [Next]_vars => FewInv'
    BY FewStep
  <1> QED
    BY <1>1, <1>2, <1>3, AgreeInit, FewInit, FieldInvHolds, PTL DEF Spec
=============================================================================
