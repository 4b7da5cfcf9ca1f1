------------------------------- MODULE Pairing --------------------------------
(***************************************************************************)
(* A tenant's row of `integrations` from the installation in HubSpot to    *)
(* the connected shop: the OAuth callbacks of both sides, the start of the *)
(* shop's OAuth from the connect page or the settings, and, all the while, *)
(* the token services on the same columns.                                 *)
(*                                                                         *)
(* A request is an actor of its own; its steps are its statements and the  *)
(* exchange of the code, which no other step depends on until its pair is  *)
(* stored.                                                                 *)
(***************************************************************************)
EXTENDS TokenService

CONSTANTS
  Requests,   \* callbacks of the shops' OAuth in work at once
  ReportsId,  \* does the token answer of a shop carry `shop_id`?
  MaxStarts   \* bound: shop connections started

ASSUME PairingAssumption ==
  /\ ReportsId \in BOOLEAN
  /\ MaxStarts \in Nat

VARIABLES
  installed, \* tenants that have a row
  shopId,    \* oxidShopId, unique in the table
  states,    \* OAuth states we have signed
  request,   \* a callback's progress and local variables
  starts,
  restarted  \* ghost: tenants with a connection started since the last one
             \* that was completed

rowVars == <<installed, shopId>>
tokenVars == <<columnVars, siteVars, expired, serviceVars, faults, ghostVars>>
vars == <<tokenVars, rowVars, states, request, starts, restarted>>

(* A generated id is named by the pair of the callback that made it; shops *)
(* have their own.                                                         *)
Ids == Shops \cup Pairs
MaybeId == Ids \cup {None}

Hub(t) == <<t, "hubspot">>
Ox(t) == <<t, "oxid">>

State == [of : Tenants, shop : Shops]

Request == [phase : {"idle", "exchange", "check", "attach"},
            of : Tenants \cup {None}, shop : Shops \cup {None},
            id : MaybeId, new : MaybePair]
NoRequest == [phase |-> "idle", of |-> None, shop |-> None,
              id |-> None, new |-> NoToken]

End(q) == request' = [request EXCEPT ![q] = NoRequest]

(* Slip: neither the check nor a key of the table. *)
NeverTaken(t, id) == FALSE

Taken(t, id) == \E u \in Tenants \ {t} : shopId[u] = id

-----------------------------------------------------------------------------
(* GET /oauth/callback: HubSpot's pair, and upsertFromHubspotInstall.  A   *)
(* portal that installs again keeps its shop.                              *)
Install(t) ==
  /\ installed' = installed \cup {t}
  /\ IF Hub(t) \in Accounts
     THEN /\ Issue(HubSpot)
          /\ live' = live \cup {NewPair}
          /\ token' = [token EXCEPT ![Hub(t)] = NewPair]
     ELSE UNCHANGED <<siteVars, token>>
  /\ UNCHANGED <<at, expired, serviceVars, faults, ghostVars, shopId, states,
                 request, starts, restarted>>

(* startOxidOAuth: the state is signed and saveOxidOAuthCredentials done   *)
(* before the person has been to the shop, connected tenant or not.        *)
StartOxidOAuth(t, s) ==
  /\ t \in installed
  /\ starts < MaxStarts
  /\ starts' = starts + 1
  /\ states' = states \cup {[of |-> t, shop |-> s]}
  /\ at' = [at EXCEPT ![t] = s]
  /\ restarted' = restarted \cup {t}
  /\ UNCHANGED <<token, siteVars, expired, serviceVars, faults, ghostVars,
                 rowVars, request>>

(* GET /oxid/oauth/callback: the state is verified, the row is read ...    *)
(* A state is not used up; that one expires is a callback that never comes. *)
Callback(q, st) ==
  /\ request[q].phase = "idle"
  /\ st \in states
  /\ request' = [request EXCEPT ![q] =
       [phase |-> "exchange", of |-> st.of, shop |-> st.shop,
        id |-> shopId[st.of], new |-> NoToken]]
  /\ UNCHANGED <<tokenVars, rowVars, states, starts, restarted>>

(* Without a shop_id in the answer, the id is the row's or a new one.      *)
IdOf(r) ==
  IF ReportsId THEN r.shop ELSE IF r.id = None THEN NewPair ELSE r.id

(* ... the code exchanged at the shop of the state, not of the row ...     *)
ExchangeCode(q) ==
  LET r == request[q]
  IN /\ r.phase = "exchange"
     /\ Issue(r.shop)
     /\ live' = live \cup {NewPair}
     /\ request' = [request EXCEPT ![q] =
          [phase |-> IF ReportsId THEN "check" ELSE "attach",
           of |-> r.of, shop |-> r.shop, id |-> IdOf(r), new |-> NewPair]]
     /\ UNCHANGED <<columnVars, expired, serviceVars, faults, ghostVars,
                    rowVars, states, starts, restarted>>

(* ... findByOxidShopId: another portal's shop is refused ...              *)
CheckConflict(q) ==
  LET r == request[q]
  IN /\ r.phase = "check"
     /\ IF Taken(r.of, r.id) THEN End(q)
        ELSE request' = [request EXCEPT ![q].phase = "attach"]
     /\ UNCHANGED <<tokenVars, rowVars, states, starts, restarted>>

(* Slip: the URL and the client are left as the last start saved them. *)
AsStarted(r) == at

ShopOf(r) == [at EXCEPT ![r.of] = r.shop]

(* ... and attachOxidFromOAuth, all columns in one statement, unless the   *)
(* unique key on oxidShopId refuses it.                                    *)
AttachOxid(q) ==
  LET r == request[q]
  IN /\ r.phase = "attach"
     /\ ~Taken(r.of, r.id)
     /\ shopId' = [shopId EXCEPT ![r.of] = r.id]
     /\ at' = ShopOf(r)
     /\ token' = [token EXCEPT ![Ox(r.of)] = r.new]
     /\ restarted' = restarted \ {r.of}
     /\ crossed' = crossed \ {Ox(r.of)}
     /\ End(q)
     /\ UNCHANGED <<siteVars, expired, serviceVars, faults, wasted, installed,
                    states, starts>>

(* A request that fails leaves the row as it is: the key is taken, the     *)
(* shop refuses the code, a statement throws, the process dies.            *)
CallbackFails(q) ==
  /\ request[q].phase # "idle"
  /\ End(q)
  /\ UNCHANGED <<tokenVars, rowVars, states, starts, restarted>>

-----------------------------------------------------------------------------
Init ==
  /\ TokenInit
  /\ installed = {}
  /\ shopId = [t \in Tenants |-> None]
  /\ states = {}
  /\ request = [q \in Requests |-> NoRequest]
  /\ starts = 0
  /\ restarted = {}

PairingStep ==
  \/ \E t \in Tenants : Install(t)
  \/ \E t \in Tenants, s \in Shops : StartOxidOAuth(t, s)
  \/ \E q \in Requests, st \in State : Callback(q, st)
  \/ \E q \in Requests :
       ExchangeCode(q) \/ CheckConflict(q) \/ AttachOxid(q) \/ CallbackFails(q)

Next ==
  \/ TokenStep /\ UNCHANGED <<rowVars, states, request, starts, restarted>>
  \/ PairingStep

Spec == Init /\ [][Next]_vars
=============================================================================
