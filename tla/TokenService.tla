----------------------------- MODULE TokenService -----------------------------
(***************************************************************************)
(* The two token services (src/hubspot/tokenService.ts and                 *)
(* src/oxid/tokenService.ts): who needs an access token reads the          *)
(* tenant's row, takes the stored token if it is not about to expire, or   *)
(* joins the refresh that its process has in flight, or starts one.        *)
(*                                                                         *)
(* The two are one algorithm on different columns, so an account is a      *)
(* tenant with one side.  A pair of access and refresh token, which is     *)
(* always issued and stored together, is the number of its issue.  A step  *)
(* is a statement, an answer of a token endpoint, or what a process does   *)
(* between two of them.                                                    *)
(***************************************************************************)
EXTENDS Naturals

CONSTANTS
  Tenants,   \* rows of `integrations`
  Accounts,  \* tenants with a side
  Shops,     \* OXID shops: base URL and the client credentials that fit it
  Rotating,  \* sites whose refresh tokens are good for one refresh
  Processes, \* each has an inFlight map of its own
  Callers,   \* the calls to HubSpot or a shop that need a token, once each
  None,
  MaxTokens, \* bound: pairs issued
  MaxFaults  \* bound: calls and statements that fail, processes that die

HubSpot == "HubSpot"
Sites == Shops \cup {HubSpot}
Sides == {"hubspot", "oxid"}

ASSUME TokenAssumption ==
  /\ Accounts \subseteq Tenants \X Sides
  /\ None \notin Sites
  /\ MaxTokens \in Nat
  /\ MaxFaults \in Nat

VARIABLES
  token,   \* the pair in an account's columns, or NoToken
  at,      \* the shop whose URL and client credentials a row holds, or None
  issued,  \* pairs issued so far
  issuer,  \* the site that issued a pair
  live,    \* pairs whose refresh token its site still accepts
  expired, \* pairs whose access token is past the margin of the code
  call,    \* a caller's progress and local variables
  flight,  \* the entries of the inFlight maps
  faults,
  wasted,  \* ghost: pairs that were exchanged for one that got lost
  crossed  \* ghost: accounts where a refresh stored its pair over another
           \* one than it had read

columnVars == <<token, at>>
siteVars == <<issued, issuer, live>>
serviceVars == <<call, flight>>
ghostVars == <<wasted, crossed>>

NoToken == 0
Pairs == 1 .. MaxTokens
MaybePair == 0 .. MaxTokens

Side(a) == a[2]
Site(a) == IF Side(a) = "hubspot" THEN HubSpot ELSE at[a[1]]

(* `read` and `from` are what the row held: its pair and, for OXID, the    *)
(* shop and client the refresh goes to.                                    *)
Call == [phase : {"idle", "decide", "waiting", "done"},
         host : Processes \cup {None}, acct : Accounts \cup {None},
         read : MaybePair, from : Sites \cup {None}]
NoCall == [phase |-> "idle", host |-> None, acct |-> None,
           read |-> NoToken, from |-> None]
EndedCall == [NoCall EXCEPT !.phase = "done"]

Flight == [phase : {"none", "asking", "storing", "settling"},
           read : MaybePair, from : Sites \cup {None}, new : MaybePair]
NoFlight == [phase |-> "none", read |-> NoToken, from |-> None,
             new |-> NoToken]

NewPair == issued + 1

(* Nothing is issued beyond the bound. *)
Issue(s) ==
  /\ issued < MaxTokens
  /\ issued' = issued + 1
  /\ issuer' = [issuer EXCEPT ![NewPair] = s]

Fault == faults < MaxFaults /\ faults' = faults + 1

-----------------------------------------------------------------------------
(* A caller: getValidAccessTokenForIntegration, getValidOxidToken.         *)

(* Slip: the client credentials, which are saved before the person has     *)
(* been to the shop, are taken for a connection.                           *)
HasClient(a) == token[a] # NoToken \/ Site(a) \in Shops

HasCredentials(a) == token[a] # NoToken

(* findById, or findByPortalId; without credentials that is all. *)
FindRow(c, p, a) ==
  /\ call[c].phase = "idle"
  /\ HasCredentials(a)
  /\ call' = [call EXCEPT ![c] =
       [phase |-> "decide", host |-> p, acct |-> a, read |-> token[a],
        from |-> Site(a)]]
  /\ UNCHANGED <<columnVars, siteVars, expired, flight, faults, ghostVars>>

IsFresh(n) == n \notin expired

GiveCached(c) ==
  /\ call[c].phase = "decide"
  /\ IsFresh(call[c].read)
  /\ call' = [call EXCEPT ![c] = EndedCall]
  /\ UNCHANGED <<columnVars, siteVars, expired, flight, faults, ghostVars>>

(* No await lies between the look into inFlight and the entry made there. *)
Refresh(c) ==
  LET p == call[c].host
      a == call[c].acct
  IN /\ call[c].phase = "decide"
     /\ ~IsFresh(call[c].read)
     /\ call' = [call EXCEPT ![c].phase = "waiting"]
     /\ flight' = IF flight[p][a].phase # "none" THEN flight
                  ELSE [flight EXCEPT ![p][a] =
                          [phase |-> "asking", read |-> call[c].read,
                           from |-> call[c].from, new |-> NoToken]]
     /\ UNCHANGED <<columnVars, siteVars, expired, faults, ghostVars>>

-----------------------------------------------------------------------------
(* A refresh in flight.                                                    *)

Asking(p, a) == flight[p][a].phase = "asking"
Storing(p, a) == flight[p][a].phase = "storing"

(* The site asked knows the token and has not replaced it. *)
Accepts(f) == f.read \in live /\ issuer[f.read] = f.from

(* refreshAccessToken, refreshOxidAccessToken: the site's new pair, ... *)
Exchange(p, a) ==
  LET f == flight[p][a]
  IN /\ Issue(f.from)
     /\ live' = (IF f.from \in Rotating THEN live \ {f.read} ELSE live)
                  \cup {NewPair}

Exchanged(p, a) ==
  /\ Asking(p, a)
  /\ Accepts(flight[p][a])
  /\ Exchange(p, a)
  /\ flight' = [flight EXCEPT ![p][a].phase = "storing",
                              ![p][a].new = NewPair]
  /\ UNCHANGED <<columnVars, expired, call, faults, ghostVars>>

(* ... or its refusal, which the callers see as a 4xx. *)
Refused(p, a) ==
  /\ Asking(p, a)
  /\ ~Accepts(flight[p][a])
  /\ flight' = [flight EXCEPT ![p][a].phase = "settling"]
  /\ UNCHANGED <<columnVars, siteVars, expired, call, faults, ghostVars>>

(* No answer, although the site may have replaced the token; beyond the    *)
(* bound there never is one.                                               *)
ExchangeFails(p, a) ==
  /\ Asking(p, a)
  /\ Fault \/ (issued = MaxTokens /\ UNCHANGED faults)
  /\ \/ /\ UNCHANGED <<siteVars, wasted>>
     \/ /\ Accepts(flight[p][a])
        /\ Exchange(p, a)
        /\ wasted' = wasted \cup {flight[p][a].read}
  /\ flight' = [flight EXCEPT ![p][a].phase = "settling"]
  /\ UNCHANGED <<columnVars, expired, call, crossed>>

(* Slip: the access token is stored, the refresh token is not. *)
StoreAccessToken(p, a) ==
  /\ Storing(p, a)
  /\ flight' = [flight EXCEPT ![p][a].phase = "settling"]
  /\ UNCHANGED <<columnVars, siteVars, expired, call, faults, ghostVars>>

(* updateHubspotTokens, updateOxidTokens: by id, whatever the row holds. *)
Store(p, a) ==
  LET f == flight[p][a]
  IN /\ Storing(p, a)
     /\ token' = [token EXCEPT ![a] = f.new]
     /\ crossed' = IF token[a] = f.read THEN crossed ELSE crossed \cup {a}
     /\ flight' = [flight EXCEPT ![p][a].phase = "settling"]
     /\ UNCHANGED <<at, siteVars, expired, call, faults, wasted>>

StoreFails(p, a) ==
  /\ Storing(p, a)
  /\ Fault
  /\ wasted' = wasted \cup {flight[p][a].read}
  /\ flight' = [flight EXCEPT ![p][a].phase = "settling",
                              ![p][a].new = NoToken]
  /\ UNCHANGED <<columnVars, siteVars, expired, call, crossed>>

(* Those who wait for the promise have the new token, or the error. *)
Resolved(p, a) ==
  [c \in Callers |->
     IF call[c].phase = "waiting" /\ call[c].host = p /\ call[c].acct = a
     THEN EndedCall ELSE call[c]]

(* Slip: the entry stays in the map. *)
SettleAndKeep(p, a) ==
  /\ flight[p][a].phase = "settling"
  /\ call' = Resolved(p, a)
  /\ UNCHANGED <<columnVars, siteVars, expired, flight, faults, ghostVars>>

(* finally: the entry is deleted, whichever way the refresh ended.         *)
Settle(p, a) ==
  /\ flight[p][a].phase = "settling"
  /\ call' = Resolved(p, a)
  /\ flight' = [flight EXCEPT ![p][a] = NoFlight]
  /\ UNCHANGED <<columnVars, siteVars, expired, faults, ghostVars>>

-----------------------------------------------------------------------------
(* Around them.                                                            *)

(* A process dies at work, with its callers and its map. *)
Die(p) ==
  /\ \E c \in Callers : call[c].host = p
  /\ Fault
  /\ call' = [c \in Callers |-> IF call[c].host = p THEN EndedCall ELSE call[c]]
  /\ flight' = [flight EXCEPT ![p] = [a \in Accounts |-> NoFlight]]
  /\ wasted' = wasted \cup {flight[p][a].read : a \in
                              {b \in Accounts : Storing(p, b)}}
  /\ UNCHANGED <<columnVars, siteVars, expired, crossed>>

(* Pairs have one lifetime, and no call takes that long: a pair does not   *)
(* expire while someone waits for one that was issued before it.  Of pairs *)
(* that nobody can read it makes no difference.                            *)
Expire(n) ==
  /\ \E a \in Accounts : token[a] = n
  /\ n \notin expired
  /\ \A c \in Callers : call[c].phase = "waiting" =>
       LET f == flight[call[c].host][call[c].acct]
       IN f.new = NoToken \/ f.new > n
  /\ expired' = expired \cup {n}
  /\ UNCHANGED <<columnVars, siteVars, call, flight, faults, ghostVars>>

FlightStep(p, a) ==
  \/ Exchanged(p, a) \/ Refused(p, a) \/ ExchangeFails(p, a)
  \/ Store(p, a) \/ StoreFails(p, a)
  \/ Settle(p, a)

TokenStep ==
  \/ \E c \in Callers, p \in Processes, a \in Accounts : FindRow(c, p, a)
  \/ \E c \in Callers : GiveCached(c) \/ Refresh(c)
  \/ \E p \in Processes, a \in Accounts : FlightStep(p, a)
  \/ \E p \in Processes : Die(p)
  \/ \E n \in Pairs : Expire(n)

TokenInit ==
  /\ token = [a \in Accounts |-> NoToken]
  /\ at = [t \in Tenants |-> None]
  /\ issued = 0
  /\ issuer = [n \in Pairs |-> None]
  /\ live = {}
  /\ expired = {}
  /\ call = [c \in Callers |-> NoCall]
  /\ flight = [p \in Processes |-> [a \in Accounts |-> NoFlight]]
  /\ faults = 0
  /\ wasted = {}
  /\ crossed = {}

TokenTypeOK ==
  /\ token \in [Accounts -> MaybePair]
  /\ at \in [Tenants -> Shops \cup {None}]
  /\ issued \in MaybePair
  /\ issuer \in [Pairs -> Sites \cup {None}]
  /\ live \subseteq 1 .. issued
  /\ expired \subseteq 1 .. issued
  /\ call \in [Callers -> Call]
  /\ flight \in [Processes -> [Accounts -> Flight]]
  /\ faults \in 0 .. MaxFaults
  /\ wasted \subseteq 1 .. issued
  /\ crossed \subseteq Accounts
=============================================================================
