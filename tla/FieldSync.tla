------------------------------- MODULE FieldSync ------------------------------
(***************************************************************************)
(* One person, known to both systems, field by field: the edits on either  *)
(* side, the map that is changed meanwhile, and the syncs of both          *)
(* directions with their loop guard.  What can go wrong within a sync is   *)
(* the subject of ContactSync; here a sync is one step and the values are  *)
(* those of module FieldMap.                                               *)
(***************************************************************************)
EXTENDS FieldMap

CONSTANTS
  Mail, Id,  \* the person's email, and the shop's id
  Offered,   \* maps that the settings pages send, perhaps without some fields
  HubEdits,  \* <<property, text>> that people enter in HubSpot
  ShopEdits, \* <<place, text>> that people or the shop enter
  MaxEdits   \* bound: edits and saved maps

MailPlace == <<"user", "oxusername">>
IdPlace == <<"user", "oxid">>

(* In the shop the person keeps email and id: the webhook refuses a record *)
(* without an email, and one with another email is another row's.          *)
ASSUME FieldAssumption ==
  /\ Mail \in Words /\ Plain[Mail] = Mail
  /\ Id \in Words
  /\ \A given \in Offered : /\ DOMAIN given \subseteq Fields
                            /\ \A f \in DOMAIN given : given[f] \in Binding
  /\ HubEdits \subseteq Properties \X Text
  /\ ShopEdits \subseteq (Places \ {MailPlace, IdPlace}) \X Text
  /\ MaxEdits \in Nat

ASSUME NoneIsNoSystem == None \notin {"hub", "shop"}
ASSUME NoneIsNoUser == None \notin User

VARIABLES
  props,  \* the contact in HubSpot
  user,   \* the user in the shop
  map,    \* fieldMappingJson of the integration, parsed
  hash,   \* lastSyncedHash of the row
  hubJob, \* is a job of HubSpot pending?
  body,   \* the record of the shop's pending job, or None
  edits,
  writes,   \* ghost: writes by syncs
  wrote,    \* ghost: where the last one went, None after an edit or a new map
  remapped  \* ghost: was a map saved since the last write?

ghostVars == <<writes, wrote, remapped>>
vars == <<props, user, map, hash, hubJob, body, edits, ghostVars>>

TypeOK ==
  /\ props \in Props
  /\ user \in User
  /\ map \in Map
  /\ hash \in Hashes
  /\ hubJob \in BOOLEAN
  /\ body \in User \cup {None}
  /\ edits \in 0 .. MaxEdits
  /\ writes \in Nat
  /\ wrote \in {None, "hub", "shop"}
  /\ remapped \in BOOLEAN

(* Both hold the same email and the shop's id, and that was synced. *)
Init ==
  /\ user = [place \in Places |->
               IF place = MailPlace THEN <<Mail>>
               ELSE IF place = IdPlace THEN <<Id>> ELSE Blank]
  /\ props = [p \in Properties |-> IF p = "email" THEN <<Mail>>
                                   ELSE IF p = "ox_user_id" THEN <<Id>>
                                   ELSE Blank]
  /\ map = Default
  /\ hash = Hash(FromOxid(user, Default))
  /\ hubJob = FALSE
  /\ body = None
  /\ edits = 0
  /\ writes = 0
  /\ wrote = None
  /\ remapped = FALSE

-----------------------------------------------------------------------------
Edit ==
  /\ edits < MaxEdits
  /\ edits' = edits + 1
  /\ wrote' = None
  /\ UNCHANGED <<hash, writes>>

(* HubSpot reports changes of the properties that the app watches. *)
SaveHub(new) ==
  /\ props' = new
  /\ hubJob' = (hubJob \/ \E p \in Watched : new[p] # props[p])

(* The shop pushes the record on every save; the newest one is kept. *)
SaveShop(new) == user' = new /\ body' = new

EditHub(p, t) ==
  /\ props[p] # t
  /\ SaveHub([props EXCEPT ![p] = t])
  /\ Edit
  /\ UNCHANGED <<user, map, body, remapped>>

EditShop(place, t) ==
  /\ user[place] # t
  /\ SaveShop([user EXCEPT ![place] = t])
  /\ Edit
  /\ UNCHANGED <<props, map, hubJob, remapped>>

Remap(m) ==
  /\ map' = m
  /\ remapped' = TRUE
  /\ Edit
  /\ UNCHANGED <<props, user, hubJob, body>>

(* PUT /mapping of the wizard and of the settings; nothing is synced.      *)
SaveMap(given) == Ensured(given)["email"].oxid # None /\ Remap(Ensured(given))

UseDefaults == Remap(Default)

-----------------------------------------------------------------------------
(* The loop guard of syncContact, and emailOf before it. *)
Unchanged(contact) == Hash(contact) = hash
Syncable(contact) == Hash(contact)["email"] # Blank

Skip(contact) == ~Syncable(contact) \/ Unchanged(contact)

Written(contact, system) ==
  /\ hash' = Hash(contact)
  /\ writes' = writes + 1
  /\ wrote' = system
  /\ remapped' = FALSE
  /\ UNCHANGED <<map, edits>>

(* hydrate maps the raw record anew, with the map of now. *)
SyncToHub ==
  /\ body # None
  /\ LET contact == FromOxid(body, map)
     IN IF Skip(contact)
        THEN /\ body' = None
             /\ UNCHANGED <<props, user, map, hash, hubJob, edits, ghostVars>>
        ELSE /\ SaveHub(ToHub(contact, map, props))
             /\ body' = None
             /\ Written(contact, "hub")
             /\ UNCHANGED user

SyncToShop ==
  /\ hubJob
  /\ hubJob' = FALSE
  /\ LET contact == FromHub(props, map)
     IN IF Skip(contact)
        THEN UNCHANGED <<props, user, map, hash, body, edits, ghostVars>>
        ELSE /\ SaveShop(ToShop(contact, map, user))
             /\ Written(contact, "shop")
             /\ UNCHANGED props

Next ==
  \/ \E e \in HubEdits : EditHub(e[1], e[2])
  \/ \E e \in ShopEdits : EditShop(e[1], e[2])
  \/ \E given \in Offered : SaveMap(given)
  \/ UseDefaults
  \/ SyncToHub
  \/ SyncToShop

Spec == Init /\ [][Next]_vars
=============================================================================
