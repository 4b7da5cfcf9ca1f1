----------------------------- MODULE PairingProofs ----------------------------
(***************************************************************************)
(* PairingInv holds in every reachable state, for any number of tenants,   *)
(* shops, processes, callers and callbacks; the properties of a row follow *)
(* from it.                                                                *)
(***************************************************************************)
EXTENDS PairingProperties, TLAPS

LEMMA ConstantFacts ==
  /\ MaxTokens \in Nat /\ MaxFaults \in Nat /\ MaxStarts \in Nat
  /\ Accounts \subseteq Tenants \X Sides
  /\ None \notin Sites /\ HubSpot \in Sites /\ Shops \subseteq Sites
  /\ NoToken \in MaybePair /\ NoToken \notin Pairs
  BY TokenAssumption, PairingAssumption
  DEF Sites, NoToken, MaybePair, Pairs

LEMMA AccountFacts ==
  ASSUME NEW t \in Tenants, NEW u \in Tenants
  PROVE  /\ Ox(t) # Hub(u)
         /\ Ox(t) = Ox(u) => t = u
         /\ Hub(t) = Hub(u) => t = u
  BY DEF Ox, Hub

(* A new pair, and what is known of its issue. *)
LEMMA IssueFacts ==
  ASSUME Columns, NEW s, Issue(s)
  PROVE  /\ NewPair \in Pairs /\ NewPair = issued + 1 /\ issued' = NewPair
         /\ issued \in Nat /\ issued' \in MaybePair
         /\ 1 .. issued \subseteq 1 .. issued'
         /\ issuer'[NewPair] = s
         /\ \A n \in 1 .. issued : n # NewPair /\ issuer'[n] = issuer[n]
         /\ s \in Sites \cup {None} =>
              issuer' \in [Pairs -> Sites \cup {None}]
  BY ConstantFacts
  DEF Columns, TokenTypeOK, Issue, NewPair, Pairs, MaybePair

LEMMA SiteFacts ==
  ASSUME Columns, NEW a \in Accounts
  PROVE  Site(a) \in Sites \cup {None}
  BY ConstantFacts DEF Columns, TokenTypeOK, Site, Sites, Sides

-----------------------------------------------------------------------------
(* Types.                                                                  *)

LEMMA FindRowType ==
  ASSUME Columns, NEW c \in Callers, NEW p \in Processes, NEW a \in Accounts,
         FindRow(c, p, a)
  PROVE  TokenTypeOK'
  <1>1. call' \in [Callers -> Call]
    BY SiteFacts DEF FindRow, HasCredentials, Columns, TokenTypeOK, Call
  <1> QED
    BY <1>1 DEF FindRow, HasCredentials, Columns, TokenTypeOK, columnVars, siteVars, ghostVars

LEMMA EndedCallFacts == EndedCall \in Call
  BY ConstantFacts DEF EndedCall, NoCall, Call, NoToken, MaybePair

LEMMA GiveCachedType ==
  ASSUME Columns, NEW c \in Callers, GiveCached(c)
  PROVE  TokenTypeOK'
  <1>1. call' \in [Callers -> Call]
    BY EndedCallFacts DEF GiveCached, Columns, TokenTypeOK
  <1> QED
    BY <1>1
    DEF GiveCached, Columns, TokenTypeOK, columnVars, siteVars, ghostVars

LEMMA RefreshType ==
  ASSUME Columns, IssueInv, NEW c \in Callers, Refresh(c)
  PROVE  TokenTypeOK'
  <1>1. call[c] \in Call
    BY DEF Columns, TokenTypeOK
  <1>2. call' \in [Callers -> Call]
    BY <1>1 DEF Refresh, Columns, TokenTypeOK, Call
  <1>3. flight' \in [Processes -> [Accounts -> Flight]]
    <2>1. [phase |-> "asking", read |-> call[c].read,
           from |-> call[c].from, new |-> NoToken] \in Flight
      BY <1>1, ConstantFacts DEF Call, Flight, NoToken, MaybePair
    <2> QED
      BY <2>1 DEF Refresh, Columns, TokenTypeOK
  <1> QED
    BY <1>2, <1>3
    DEF Refresh, Columns, TokenTypeOK, columnVars, siteVars, ghostVars

LEMMA FlightFacts ==
  ASSUME Columns, NEW p \in Processes, NEW a \in Accounts
  PROVE  flight[p][a] \in Flight
  BY DEF Columns, TokenTypeOK

LEMMA ExchangeFacts ==
  ASSUME Columns, IssueInv, NEW p \in Processes, NEW a \in Accounts,
         Asking(p, a), Exchange(p, a)
  PROVE  /\ issued' \in MaybePair
         /\ issuer' \in [Pairs -> Sites \cup {None}]
         /\ live' \subseteq 1 .. issued'
         /\ expired \subseteq 1 .. issued' /\ wasted \subseteq 1 .. issued'
         /\ flight[p][a].read \in 1 .. issued
  <1>1. flight[p][a].from \in Sites \cup {None} /\ Issue(flight[p][a].from)
    BY FlightFacts DEF Flight, Exchange
  <1>2. NewPair \in 1 .. issued'
    BY <1>1, IssueFacts DEF MaybePair, Pairs
  <1>3. live' \subseteq 1 .. issued'
    BY <1>1, <1>2, IssueFacts DEF Exchange, Columns, TokenTypeOK
  <1>4. flight[p][a].read \in 1 .. issued
    BY DEF IssueInv, FlightIssued, Asking
  <1> QED
    BY <1>1, <1>3, <1>4, IssueFacts DEF Columns, TokenTypeOK

LEMMA FlightType ==
  ASSUME Columns, IssueInv, NEW p \in Processes, NEW a \in Accounts,
         FlightStep(p, a)
  PROVE  TokenTypeOK'
  <1> USE DEF Columns, TokenTypeOK, columnVars, siteVars, ghostVars
  <1>1. flight[p][a] \in Flight
    BY FlightFacts
  <1>2. CASE Exchanged(p, a)
    <2>1. [flight[p][a] EXCEPT !.phase = "storing", !.new = NewPair] \in Flight
      BY <1>1, <1>2, IssueFacts
      DEF Exchanged, Exchange, Flight, Pairs, MaybePair
    <2>2. flight' \in [Processes -> [Accounts -> Flight]]
      BY <1>1, <1>2, <2>1 DEF Exchanged
    <2> QED
      BY <1>2, <2>2, ExchangeFacts DEF Exchanged
  <1>3. CASE Refused(p, a)
    BY <1>1, <1>3 DEF Refused, Flight
  <1>4. CASE ExchangeFails(p, a)
    <2>1. faults' \in 0 .. MaxFaults
      BY <1>4, ConstantFacts DEF ExchangeFails, Fault
    <2>2. flight' \in [Processes -> [Accounts -> Flight]]
      BY <1>1, <1>4 DEF ExchangeFails, Flight
    <2>3. CASE UNCHANGED <<siteVars, wasted>>
      BY <1>4, <2>1, <2>2, <2>3 DEF ExchangeFails
    <2>4. CASE Exchange(p, a) /\ wasted' = wasted \cup {flight[p][a].read}
      <3>1. flight[p][a].read \in 1 .. issued'
        BY <1>4, <2>4, ExchangeFacts, IssueFacts DEF Exchange, ExchangeFails
      <3> QED
        BY <1>4, <2>1, <2>2, <2>4, <3>1, ExchangeFacts DEF ExchangeFails
    <2> QED
      BY <1>4, <2>3, <2>4 DEF ExchangeFails
  <1>5. CASE Store(p, a)
    BY <1>1, <1>5 DEF Store, Flight
  <1>6. CASE StoreFails(p, a)
    <2>1. [flight[p][a] EXCEPT !.phase = "settling", !.new = NoToken] \in Flight
      BY <1>1, ConstantFacts DEF Flight
    <2>2. flight' \in [Processes -> [Accounts -> Flight]]
      BY <1>6, <2>1 DEF StoreFails
    <2>3. wasted' \subseteq 1 .. issued
      BY <1>6 DEF StoreFails, Storing, IssueInv, FlightIssued
    <2>4. faults' \in 0 .. MaxFaults
      BY <1>6, ConstantFacts DEF StoreFails, Fault
    <2> QED
      BY <1>6, <2>2, <2>3, <2>4 DEF StoreFails
  <1>7. CASE Settle(p, a)
    <2>1. call' \in [Callers -> Call]
      BY <1>7, EndedCallFacts DEF Settle, Resolved
    <2>2. NoFlight \in Flight
      BY ConstantFacts DEF NoFlight, Flight, NoToken, MaybePair
    <2> QED
      BY <1>7, <2>1, <2>2 DEF Settle
  <1> QED
    BY <1>2, <1>3, <1>4, <1>5, <1>6, <1>7 DEF FlightStep

LEMMA DieType ==
  ASSUME Columns, IssueInv, NEW p \in Processes, Die(p)
  PROVE  TokenTypeOK'
  <1> USE DEF Columns, TokenTypeOK, columnVars, siteVars
  <1>1. call' \in [Callers -> Call]
    BY EndedCallFacts DEF Die
  <1>2. flight' \in [Processes -> [Accounts -> Flight]]
    <2>1. NoFlight \in Flight
      BY ConstantFacts DEF NoFlight, Flight, NoToken, MaybePair
    <2> QED
      BY <2>1 DEF Die
  <1>3. faults' \in 0 .. MaxFaults
    BY ConstantFacts DEF Die, Fault
  <1>4. wasted' \subseteq 1 .. issued
    BY DEF Die, Storing, IssueInv, FlightIssued
  <1> QED
    BY <1>1, <1>2, <1>3, <1>4 DEF Die

LEMMA ExpireType ==
  ASSUME Columns, IssueInv, NEW n \in Pairs, Expire(n)
  PROVE  TokenTypeOK'
  <1>1. expired' \subseteq 1 .. issued
    BY DEF Expire, IssueInv, Columns, TokenTypeOK, Pairs, MaybePair
  <1> QED
    BY <1>1 DEF Expire, Columns, TokenTypeOK, columnVars, siteVars, ghostVars

(* Only the pairs of a row, and what was issued, change here. *)
LEMMA NewPairType ==
  ASSUME Columns, NEW s \in Sites, Issue(s), live' = live \cup {NewPair},
         NEW new \in [Accounts -> MaybePair], token' = new,
         UNCHANGED <<at, expired, serviceVars, faults, ghostVars>>
  PROVE  TokenTypeOK'
  <1>1. live' \subseteq 1 .. issued' /\ expired \subseteq 1 .. issued'
        /\ wasted \subseteq 1 .. issued'
    <2>1. NewPair \in 1 .. issued'
      BY IssueFacts DEF MaybePair, Pairs
    <2> QED
      BY <2>1, IssueFacts DEF Columns, TokenTypeOK
  <1> QED
    BY <1>1, IssueFacts DEF Columns, TokenTypeOK, serviceVars, ghostVars

LEMMA InstallType ==
  ASSUME Columns, NEW t \in Tenants, Install(t)
  PROVE  Columns'
  <1>1. TokenTypeOK'
    <2>1. CASE Hub(t) \in Accounts
      <3>1. Issue(HubSpot) /\ NewPair \in MaybePair
        BY <2>1, IssueFacts DEF Install, Pairs, MaybePair
      <3>2. token' \in [Accounts -> MaybePair]
        BY <2>1, <3>1 DEF Install, Columns, TokenTypeOK
      <3> QED
        BY <2>1, <3>1, <3>2, NewPairType, ConstantFacts DEF Install
    <2>2. CASE Hub(t) \notin Accounts
      BY <2>2
      DEF Install, Columns, TokenTypeOK, siteVars, serviceVars, ghostVars
    <2> QED
      BY <2>1, <2>2
  <1> QED
    BY <1>1 DEF Install, Columns

LEMMA StartType ==
  ASSUME Columns, NEW t \in Tenants, NEW s \in Shops, StartOxidOAuth(t, s)
  PROVE  Columns'
  <1>1. starts' \in 0 .. MaxStarts
    BY ConstantFacts DEF StartOxidOAuth, Columns
  <1>2. states' \subseteq State
    BY DEF StartOxidOAuth, Columns, State
  <1> QED
    BY <1>1, <1>2
    DEF StartOxidOAuth, Columns, TokenTypeOK, siteVars, serviceVars, ghostVars,
        rowVars

LEMMA RequestFacts ==
  ASSUME Columns, NEW q \in Requests
  PROVE  request[q] \in Request /\ NoRequest \in Request
  BY ConstantFacts
  DEF Columns, Request, NoRequest, NoToken, MaybePair, MaybeId

LEMMA CallbackType ==
  ASSUME Columns, NEW q \in Requests, NEW st \in State, Callback(q, st)
  PROVE  Columns'
  <1>1. [phase |-> "exchange", of |-> st.of, shop |-> st.shop,
         id |-> shopId[st.of], new |-> NoToken] \in Request
    BY ConstantFacts DEF Columns, State, Request, NoToken, MaybePair
  <1> QED
    BY <1>1 DEF Callback, Columns, TokenTypeOK, tokenVars, columnVars, siteVars,
                serviceVars, ghostVars, rowVars

LEMMA ExchangeCodeType ==
  ASSUME Columns, IssueInv, NEW q \in Requests, ExchangeCode(q)
  PROVE  Columns'
  <1>1. /\ Issue(request[q].shop)
        /\ request[q].shop \in Shops /\ request[q].shop \in Sites
    BY ConstantFacts DEF ExchangeCode, IssueInv, RequestIssued
  <1>2. request' \in [Requests -> Request]
    <2>1. NewPair \in Pairs
      BY <1>1, IssueFacts
    <2>2. NewPair \in MaybePair /\ NewPair \in MaybeId
      BY <2>1, ConstantFacts DEF Pairs, MaybePair, MaybeId, Ids
    <2>3. request[q].of \in Tenants /\ request[q].id \in MaybeId
      BY RequestFacts DEF ExchangeCode, IssueInv, RequestIssued, Request
    <2>4. IdOf(request[q]) \in MaybeId
      BY <1>1, <2>2, <2>3 DEF IdOf, MaybeId, Ids
    <2> DEFINE new == [phase |-> IF ReportsId THEN "check" ELSE "attach",
                       of |-> request[q].of, shop |-> request[q].shop,
                       id |-> IdOf(request[q]), new |-> NewPair]
    <2>5. new \in Request
      BY <1>1, <2>2, <2>3, <2>4 DEF Request
    <2>6. request' = [request EXCEPT ![q] = new]
      BY DEF ExchangeCode
    <2> HIDE DEF new
    <2> QED
      BY <2>5, <2>6 DEF Columns
  <1>3. TokenTypeOK'
    BY <1>1, NewPairType DEF ExchangeCode, columnVars, Columns, TokenTypeOK
  <1> QED
    BY <1>2, <1>3 DEF ExchangeCode, Columns, rowVars

LEMMA RequestType ==
  ASSUME Columns, IssueInv, NEW q \in Requests,
         CheckConflict(q) \/ CallbackFails(q)
  PROVE  Columns'
  <1>1. request' \in [Requests -> Request]
    <2>1. [request[q] EXCEPT !.phase = "attach"] \in Request
      BY RequestFacts DEF Request
    <2> QED
      BY <2>1, RequestFacts DEF CheckConflict, CallbackFails, End, Columns
  <1> QED
    BY <1>1 DEF CheckConflict, CallbackFails, Columns, TokenTypeOK, tokenVars,
                columnVars, siteVars, serviceVars, ghostVars, rowVars

LEMMA AttachType ==
  ASSUME Columns, IssueInv, NEW q \in Requests, AttachOxid(q)
  PROVE  Columns'
  <1>1. /\ request[q].of \in Tenants /\ request[q].shop \in Shops
        /\ request[q].id \in MaybeId /\ request[q].new \in MaybePair
    BY RequestFacts DEF AttachOxid, IssueInv, RequestIssued, Request
  <1>2. /\ shopId' \in [Tenants -> MaybeId]
        /\ at' \in [Tenants -> Shops \cup {None}]
        /\ token' \in [Accounts -> MaybePair]
        /\ request' \in [Requests -> Request]
    BY <1>1, RequestFacts
    DEF AttachOxid, ShopOf, End, Columns, TokenTypeOK
  <1> QED
    BY <1>2 DEF AttachOxid, Columns, TokenTypeOK, siteVars, serviceVars

LEMMA StutterType ==
  ASSUME Columns, UNCHANGED vars
  PROVE  Columns'
  BY DEF Columns, TokenTypeOK, vars, tokenVars, columnVars, siteVars,
         serviceVars, ghostVars, rowVars

LEMMA TokenType ==
  ASSUME Columns, IssueInv, TokenStep,
         UNCHANGED <<rowVars, states, request, starts, restarted>>
  PROVE  Columns'
  <1>1. TokenTypeOK'
    BY FindRowType, GiveCachedType, RefreshType, FlightType, DieType,
       ExpireType
    DEF TokenStep
  <1> QED
    BY <1>1 DEF Columns, rowVars

LEMMA TypeStep ==
  ASSUME Columns, IssueInv, [Next]_vars
  PROVE  Columns'
  <1>1. CASE PairingStep
    BY <1>1, InstallType, StartType, CallbackType, ExchangeCodeType,
       RequestType, AttachType DEF PairingStep
  <1> QED
    BY <1>1, TokenType, StutterType DEF Next

-----------------------------------------------------------------------------
(* What is held has been issued.                                           *)

LEMMA IssuedGrows ==
  ASSUME Columns, IssueInv, [Next]_vars
  PROVE  UNCHANGED <<issued, issuer>> \/ \E s \in Sites : Issue(s)
  <1>1. ASSUME NEW p \in Processes, NEW a \in Accounts, FlightStep(p, a)
        PROVE  UNCHANGED <<issued, issuer>> \/ \E s \in Sites : Issue(s)
    <2>1. Asking(p, a) => flight[p][a].read \in 1 .. issued
      BY DEF IssueInv, FlightIssued, Asking
    <2>2. Asking(p, a) /\ Accepts(flight[p][a]) => flight[p][a].from \in Sites
      BY <2>1 DEF Accepts, IssueInv, IssuersKnown
    <2> QED
      BY <1>1, <2>2
      DEF FlightStep, Exchanged, Refused, ExchangeFails, Store, StoreFails,
          Settle, Exchange, siteVars
  <1>2. CASE TokenStep
    BY <1>1, <1>2
    DEF TokenStep, FindRow, HasCredentials, GiveCached, Refresh, Die, Expire, siteVars
  <1>3. CASE PairingStep
    BY <1>3, ConstantFacts
    DEF PairingStep, Install, StartOxidOAuth, Callback, ExchangeCode,
        CheckConflict, AttachOxid, CallbackFails, tokenVars, siteVars, IssueInv,
        RequestIssued
  <1> QED
    BY <1>2, <1>3 DEF Next, vars, tokenVars, siteVars

LEMMA IssuersStay ==
  ASSUME Columns, IssueInv, [Next]_vars
  PROVE  /\ issued \in Nat /\ issued' \in Nat /\ issued <= issued'
         /\ \A n \in 1 .. issued : n \in 1 .. issued' /\ issuer'[n] = issuer[n]
         /\ IssuersKnown'
  <1>1. issued \in Nat
    BY DEF Columns, TokenTypeOK, MaybePair
  <1>2. CASE UNCHANGED <<issued, issuer>>
    BY <1>1, <1>2 DEF IssueInv, IssuersKnown
  <1>3. CASE \E s \in Sites : Issue(s)
    BY <1>1, <1>3, IssueFacts DEF IssueInv, IssuersKnown, MaybePair
  <1> QED
    BY <1>2, <1>3, IssuedGrows

(* What a step can make of a row's pair, a call, an entry and a request.   *)
LEMMA TokenCases ==
  ASSUME Columns, IssueInv, [Next]_vars, NEW a \in Accounts
  PROVE  \/ token'[a] = token[a]
         \/ \E p \in Processes : Store(p, a) /\ token'[a] = flight[p][a].new
         \/ \E t \in Tenants :
              a = Hub(t) /\ Install(t) /\ Issue(HubSpot) /\ token'[a] = NewPair
         \/ \E q \in Requests :
              AttachOxid(q) /\ a = Ox(request[q].of) /\ token'[a] = request[q].new
  <1> USE DEF Columns, TokenTypeOK
  <1>1. ASSUME NEW p \in Processes, NEW b \in Accounts, FlightStep(p, b)
        PROVE  \/ token'[a] = token[a]
               \/ Store(p, a) /\ token'[a] = flight[p][a].new
    BY <1>1
    DEF FlightStep, Exchanged, Refused, ExchangeFails, Store, StoreFails,
                Settle, columnVars
  <1>2. CASE TokenStep
    BY <1>1, <1>2
    DEF TokenStep, FindRow, HasCredentials, GiveCached, Refresh, Die, Expire, columnVars
  <1>3. ASSUME NEW t \in Tenants, Install(t)
        PROVE  \/ token'[a] = token[a]
               \/ a = Hub(t) /\ Issue(HubSpot) /\ token'[a] = NewPair
    BY <1>3 DEF Install
  <1>4. ASSUME NEW q \in Requests, AttachOxid(q)
        PROVE  \/ token'[a] = token[a]
               \/ a = Ox(request[q].of) /\ token'[a] = request[q].new
    BY <1>4 DEF AttachOxid
  <1>5. CASE PairingStep
    BY <1>3, <1>4, <1>5
    DEF PairingStep, StartOxidOAuth, Callback, ExchangeCode, CheckConflict,
        CallbackFails, tokenVars, columnVars
  <1> QED
    BY <1>2, <1>5 DEF Next, vars, tokenVars, columnVars

Ended(c) ==
  /\ call'[c] = EndedCall
  /\ call[c].phase = "waiting" =>
       flight'[call[c].host][call[c].acct] = NoFlight

LEMMA CallCases ==
  ASSUME Columns, IssueInv, [Next]_vars, NEW c \in Callers
  PROVE  \/ call'[c] = call[c]
         \/ Ended(c)
         \/ \E p \in Processes, a \in Accounts :
              /\ FindRow(c, p, a)
              /\ call'[c].phase = "decide" /\ call'[c].host = p
              /\ call'[c].acct = a /\ call'[c].read = token[a]
         \/ /\ Refresh(c)
            /\ call'[c].phase = "waiting" /\ call'[c].host = call[c].host
            /\ call'[c].acct = call[c].acct /\ call'[c].read = call[c].read
  <1> USE DEF Columns, TokenTypeOK
  <1>1. ASSUME NEW p \in Processes, NEW a \in Accounts, FlightStep(p, a)
        PROVE  call'[c] = call[c] \/ Ended(c)
    <2>1. CASE Settle(p, a)
      BY <2>1 DEF Settle, Resolved, Ended
    <2> QED
      BY <1>1, <2>1
      DEF FlightStep, Exchanged, Refused, ExchangeFails, Store, StoreFails
  <1>2. ASSUME NEW d \in Callers, GiveCached(d)
        PROVE  call'[c] = call[c] \/ Ended(c)
    BY <1>2 DEF GiveCached, Ended
  <1>3. ASSUME NEW d \in Callers, NEW p \in Processes, NEW a \in Accounts,
               FindRow(d, p, a)
        PROVE  \/ call'[c] = call[c]
               \/ /\ c = d
                  /\ call'[c].phase = "decide" /\ call'[c].host = p
                  /\ call'[c].acct = a /\ call'[c].read = token[a]
    BY <1>3 DEF FindRow, HasCredentials
  <1>4. ASSUME NEW d \in Callers, Refresh(d)
        PROVE  \/ call'[c] = call[c]
               \/ /\ c = d
                  /\ call'[c].phase = "waiting" /\ call'[c].host = call[c].host
                  /\ call'[c].acct = call[c].acct /\ call'[c].read = call[c].read
    <2>1. call[c] \in Call
      OBVIOUS
    <2> QED
      BY <1>4, <2>1 DEF Refresh, Call
  <1>5. ASSUME NEW p \in Processes, Die(p)
        PROVE  call'[c] = call[c] \/ Ended(c)
    <2>1. call[c].phase = "waiting" => call[c].acct \in Accounts
      BY DEF IssueInv, CallIssued
    <2> QED
      BY <1>5, <2>1 DEF Die, Ended
  <1>6. CASE TokenStep
    BY <1>1, <1>2, <1>3, <1>4, <1>5, <1>6 DEF TokenStep, Expire
  <1>7. CASE PairingStep
    BY <1>7
    DEF PairingStep, Install, StartOxidOAuth, Callback, ExchangeCode,
        CheckConflict, AttachOxid, CallbackFails, tokenVars, serviceVars
  <1> QED
    BY <1>6, <1>7 DEF Next, vars, tokenVars, serviceVars

(* Begun, asked, or on to its end. *)
Begun(p, a) ==
  /\ flight[p][a].phase = "none"
  /\ \E c \in Callers :
       /\ Refresh(c) /\ call[c].host = p /\ call[c].acct = a
       /\ flight'[p][a].read = call[c].read
  /\ flight'[p][a].phase = "asking" /\ flight'[p][a].new = NoToken

Granted(p, a) ==
  /\ Exchanged(p, a) /\ flight'[p][a].phase = "storing"
  /\ flight'[p][a].read = flight[p][a].read
  /\ flight'[p][a].from = flight[p][a].from
  /\ flight'[p][a].new = NewPair

Ending(p, a) ==
  /\ flight[p][a].phase \in {"asking", "storing"}
  /\ flight'[p][a].phase = "settling"
  /\ flight'[p][a].read = flight[p][a].read
  /\ flight'[p][a].new \in {flight[p][a].new, NoToken}

Settled(p, a) ==
  /\ flight'[p][a] = NoFlight
  /\ \A c \in Callers : Waits(c, p, a) => call'[c] = EndedCall

LEMMA FlightCases ==
  ASSUME Columns, IssueInv, [Next]_vars, NEW p \in Processes, NEW a \in Accounts
  PROVE  \/ flight'[p][a] = flight[p][a]
         \/ Settled(p, a)
         \/ Begun(p, a) \/ Granted(p, a) \/ Ending(p, a)
  <1> USE DEF Columns, TokenTypeOK
  <1>1. flight[p][a] \in Flight
    BY FlightFacts
  <1>2. ASSUME NEW r \in Processes, NEW b \in Accounts, FlightStep(r, b)
        PROVE  \/ flight'[p][a] = flight[p][a]
               \/ Settled(p, a)
               \/ Granted(p, a) \/ Ending(p, a)
    <2>1. CASE p = r /\ a = b
      <3>1. CASE Exchanged(p, a)
        BY <1>1, <3>1 DEF Exchanged, Granted, Flight
      <3>2. CASE Refused(p, a) \/ ExchangeFails(p, a) \/ Store(p, a)
        BY <1>1, <3>2
        DEF Refused, ExchangeFails, Store, Ending, Asking, Storing, Flight
      <3>3. CASE StoreFails(p, a)
        BY <1>1, <3>3 DEF StoreFails, Ending, Storing, Flight
      <3>4. CASE Settle(p, a)
        BY <3>4 DEF Settle, Resolved, Settled, Waits
      <3> QED
        BY <1>2, <2>1, <3>1, <3>2, <3>3, <3>4 DEF FlightStep
    <2>2. CASE ~(p = r /\ a = b)
      BY <1>2, <2>2 DEF FlightStep, Exchanged, Refused, ExchangeFails, Store,
                        StoreFails, Settle
    <2> QED
      BY <2>1, <2>2
  <1>3. ASSUME NEW c \in Callers, Refresh(c)
        PROVE  flight'[p][a] = flight[p][a] \/ Begun(p, a)
    <2>1. call[c].host \in Processes /\ call[c].acct \in Accounts
      BY <1>3 DEF Refresh, IssueInv, CallIssued
    <2>2. CASE flight' = flight
      BY <2>2
    <2>3. CASE ~(call[c].host = p /\ call[c].acct = a)
      BY <1>3, <2>1, <2>3 DEF Refresh
    <2>4. CASE /\ call[c].host = p /\ call[c].acct = a
               /\ flight[p][a].phase = "none"
      BY <1>3, <2>4 DEF Refresh, Begun
    <2> QED
      BY <1>3, <2>2, <2>3, <2>4 DEF Refresh
  <1>4. ASSUME NEW r \in Processes, Die(r)
        PROVE  flight'[p][a] = flight[p][a] \/ Settled(p, a)
    BY <1>4 DEF Die, Settled, Waits
  <1>5. CASE TokenStep
    BY <1>2, <1>3, <1>4, <1>5 DEF TokenStep, FindRow, HasCredentials, GiveCached, Expire
  <1>6. CASE PairingStep
    BY <1>6
    DEF PairingStep, Install, StartOxidOAuth, Callback, ExchangeCode,
        CheckConflict, AttachOxid, CallbackFails, tokenVars, serviceVars
  <1> QED
    BY <1>5, <1>6 DEF Next, vars, tokenVars, serviceVars

LEMMA RequestCases ==
  ASSUME Columns, IssueInv, [Next]_vars, NEW q \in Requests
  PROVE  \/ request'[q] = request[q]
         \/ request'[q].phase \in {"idle", "exchange"} /\ RequestIssued(q)'
         \/ /\ ExchangeCode(q) /\ Answered(q)'
            /\ request'[q].of = request[q].of /\ request'[q].shop = request[q].shop
            /\ request'[q].new = NewPair /\ request'[q].id = IdOf(request[q])
         \/ /\ Answered(q) /\ Answered(q)'
            /\ request'[q].of = request[q].of /\ request'[q].shop = request[q].shop
            /\ request'[q].new = request[q].new /\ request'[q].id = request[q].id
            /\ ~Taken(request[q].of, request[q].id) /\ request'[q].phase = "attach"
            /\ UNCHANGED <<shopId, siteVars, token>>
  <1> USE DEF Columns, TokenTypeOK
  <1>1. CASE TokenStep /\ UNCHANGED request
    BY <1>1
  <1>2. ASSUME NEW r \in Requests, CheckConflict(r)
        PROVE  \/ request'[q] = request[q]
               \/ request'[q].phase = "idle"
               \/ /\ Answered(q) /\ Answered(q)'
                  /\ request'[q].of = request[q].of
                  /\ request'[q].shop = request[q].shop
                  /\ request'[q].new = request[q].new
                  /\ request'[q].id = request[q].id
                  /\ ~Taken(request[q].of, request[q].id)
                  /\ request'[q].phase = "attach"
                  /\ UNCHANGED <<shopId, siteVars, token>>
    BY <1>2, RequestFacts DEF CheckConflict, End, NoRequest, Answered, Request,
                              tokenVars, columnVars, rowVars
  <1>3. ASSUME NEW r \in Requests, AttachOxid(r) \/ CallbackFails(r)
        PROVE  request'[q] = request[q] \/ request'[q].phase = "idle"
    BY <1>3 DEF AttachOxid, CallbackFails, End, NoRequest
  <1>4. ASSUME NEW r \in Requests, NEW st \in State, Callback(r, st)
        PROVE  \/ request'[q] = request[q]
               \/ request'[q].phase = "exchange" /\ RequestIssued(q)'
    BY <1>4, ConstantFacts
    DEF Callback, State, RequestIssued, Answered, NoToken, tokenVars, siteVars,
        MaybePair
  <1>5. ASSUME NEW r \in Requests, ExchangeCode(r)
        PROVE  \/ request'[q] = request[q]
               \/ /\ q = r /\ Answered(q)'
                  /\ request'[q].of = request[q].of
                  /\ request'[q].shop = request[q].shop
                  /\ request'[q].new = NewPair
                  /\ request'[q].id = IdOf(request[q])
    BY <1>5 DEF ExchangeCode, Answered
  <1>6. request'[q].phase = "idle" => RequestIssued(q)'
    BY DEF RequestIssued
  <1>7. CASE PairingStep
    BY <1>2, <1>3, <1>4, <1>5, <1>6, <1>7
    DEF PairingStep, Install, StartOxidOAuth
  <1> QED
    BY <1>1, <1>7 DEF Next, vars

LEMMA IssueStep ==
  ASSUME Columns, IssueInv, [Next]_vars
  PROVE  IssueInv'
  <1> USE DEF Columns, TokenTypeOK, IssueInv
  <1>1. issued <= issued' /\ issued \in Nat /\ issued' \in Nat /\ IssuersKnown'
    BY IssuersStay
  <1>2. \A s : Issue(s) => NewPair = issued' /\ NewPair # NoToken
    BY <1>1 DEF Issue, NewPair, NoToken
  <1>3. ASSUME NEW a \in Accounts
        PROVE  token'[a] <= issued'
    <2>1. token[a] \in Nat /\ token[a] <= issued
      BY DEF MaybePair
    <2>2. ASSUME NEW p \in Processes, Store(p, a)
          PROVE  flight[p][a].new \in Nat /\ flight[p][a].new <= issued
      BY <2>2, FlightFacts DEF Store, Storing, FlightIssued, Flight, MaybePair
    <2>3. ASSUME NEW q \in Requests, AttachOxid(q)
          PROVE  request[q].new \in Nat /\ request[q].new <= issued
      BY <2>3, RequestFacts DEF AttachOxid, RequestIssued, Request, MaybePair
    <2> QED
      BY <1>1, <1>2, <2>1, <2>2, <2>3, TokenCases
  <1>4. ASSUME NEW c \in Callers
        PROVE  CallIssued(c)'
    <2>1. CASE \/ call'[c] = call[c]
               \/ /\ Refresh(c) /\ call'[c].phase = "waiting"
                  /\ call'[c].host = call[c].host /\ call'[c].acct = call[c].acct
                  /\ call'[c].read = call[c].read
      BY <1>1, <2>1 DEF CallIssued, Refresh
    <2>2. CASE Ended(c)
      BY <2>2 DEF Ended, CallIssued, EndedCall, NoCall
    <2>3. CASE \E p \in Processes, a \in Accounts :
                 /\ FindRow(c, p, a)
                 /\ call'[c].phase = "decide" /\ call'[c].host = p
                 /\ call'[c].acct = a /\ call'[c].read = token[a]
      BY <1>1, <2>3 DEF CallIssued, FindRow, HasCredentials, NoToken, MaybePair
    <2> QED
      BY <2>1, <2>2, <2>3, CallCases
  <1>5. ASSUME NEW p \in Processes, NEW a \in Accounts
        PROVE  FlightIssued(p, a)'
    <2>1. flight[p][a] \in Flight /\ FlightIssued(p, a)
      BY FlightFacts
    <2>2. CASE flight'[p][a] = flight[p][a]
      BY <1>1, <2>1, <2>2 DEF FlightIssued, Flight, MaybePair, Asking, Storing
    <2>3. CASE Settled(p, a)
      BY <2>3 DEF Settled, FlightIssued, NoFlight
    <2>4. CASE Begun(p, a)
      <3>1. flight'[p][a].read \in 1 .. issued
        BY <2>4 DEF Begun, CallIssued, Refresh
      <3> QED
        BY <1>1, <2>4, <3>1 DEF Begun, FlightIssued, Asking, Storing, NoToken
    <2>5. CASE Granted(p, a)
      <3>1. \E s : Issue(s)
        BY <2>5 DEF Granted, Exchanged, Exchange
      <3> QED
        BY <1>1, <1>2, <2>1, <2>5, <3>1
        DEF Granted, Exchanged, FlightIssued, Asking, Storing
    <2>6. CASE Ending(p, a)
      BY <1>1, <2>1, <2>6
      DEF Ending, FlightIssued, Asking, Storing, Flight, MaybePair, NoToken
    <2> QED
      BY <2>2, <2>3, <2>4, <2>5, <2>6, FlightCases
  <1>6. ASSUME NEW q \in Requests
        PROVE  RequestIssued(q)'
    <2>1. RequestIssued(q) /\ request[q].new \in Nat
      BY RequestFacts DEF Request, MaybePair
    <2>2. CASE request'[q] = request[q]
      BY <1>1, <2>1, <2>2 DEF RequestIssued, Answered
    <2>3. ASSUME ExchangeCode(q), request'[q].of = request[q].of,
                 request'[q].shop = request[q].shop, request'[q].new = NewPair
          PROVE  RequestIssued(q)'
      BY <1>1, <1>2, <2>1, <2>3 DEF ExchangeCode, RequestIssued
    <2>4. ASSUME Answered(q), request'[q].of = request[q].of,
                 request'[q].shop = request[q].shop,
                 request'[q].new = request[q].new
          PROVE  RequestIssued(q)'
      BY <1>1, <2>1, <2>4 DEF RequestIssued, Answered
    <2> QED
      BY <2>2, <2>3, <2>4, RequestCases
  <1> QED
    BY <1>1, <1>3, <1>4, <1>5, <1>6

-----------------------------------------------------------------------------
(* Those who wait.                                                         *)

LEMMA ExpiredCases ==
  ASSUME [Next]_vars
  PROVE  expired' = expired \/ \E n \in Pairs : Expire(n)
  <1>1. CASE TokenStep
    <2>1. ASSUME NEW c \in Callers, NEW p \in Processes, NEW a \in Accounts,
                 FindRow(c, p, a)
          PROVE  expired' = expired
      BY <2>1 DEF FindRow
    <2>2. ASSUME NEW p \in Processes, NEW a \in Accounts, FlightStep(p, a)
          PROVE  expired' = expired
      BY <2>2 DEF FlightStep, Exchanged, Refused, ExchangeFails, Store,
                  StoreFails, Settle
    <2>3. ASSUME NEW c \in Callers, GiveCached(c) \/ Refresh(c)
          PROVE  expired' = expired
      BY <2>3 DEF GiveCached, Refresh
    <2>4. ASSUME NEW p \in Processes, Die(p)
          PROVE  expired' = expired
      BY <2>4 DEF Die
    <2> QED
      BY <1>1, <2>1, <2>2, <2>3, <2>4 DEF TokenStep
  <1>2. CASE PairingStep
    BY <1>2
    DEF PairingStep, Install, StartOxidOAuth, Callback, ExchangeCode,
        CheckConflict, AttachOxid, CallbackFails, tokenVars
  <1> QED
    BY <1>1, <1>2 DEF Next, vars, tokenVars

LEMMA RefreshFacts ==
  ASSUME Columns, IssueInv, NEW c \in Callers, NEW p, NEW a, Refresh(c),
         call[c].host = p, call[c].acct = a
  PROVE  /\ p \in Processes /\ a \in Accounts /\ Waits(c, p, a)'
         /\ call[c].read \in expired /\ call'[c].read = call[c].read
         /\ \/ flight'[p][a] = flight[p][a] /\ flight[p][a].phase # "none"
            \/ flight'[p][a].phase = "asking" /\ flight'[p][a].new = NoToken
  <1>1. p \in Processes /\ a \in Accounts
    BY DEF Refresh, IssueInv, CallIssued
  <1>2. call[c] \in Call /\ flight[p] \in [Accounts -> Flight]
    BY <1>1 DEF Columns, TokenTypeOK
  <1>3. Waits(c, p, a)' /\ call'[c].read = call[c].read
    BY <1>2 DEF Refresh, Waits, Call, Columns, TokenTypeOK
  <1>4. \/ flight'[p][a] = flight[p][a] /\ flight[p][a].phase # "none"
        \/ flight'[p][a].phase = "asking" /\ flight'[p][a].new = NoToken
    BY <1>1, <1>2 DEF Refresh, Columns, TokenTypeOK
  <1> QED
    BY <1>1, <1>3, <1>4 DEF Refresh, IsFresh

LEMMA WaiterStep ==
  ASSUME Columns, IssueInv, [Next]_vars, NEW p \in Processes, NEW a \in Accounts,
         HasWaiter(p, a)
  PROVE  HasWaiter(p, a)'
  <1>1. CASE Begun(p, a)
    BY <1>1, RefreshFacts DEF Begun, HasWaiter
  <1>2. CASE Settled(p, a)
    BY <1>2 DEF Settled, NoFlight, HasWaiter
  <1>3. CASE /\ flight[p][a].phase # "none" /\ flight'[p][a].phase # "none"
    <2>1. PICK c \in Callers : Waits(c, p, a)
      BY <1>3 DEF HasWaiter
    <2>2. call'[c] = call[c]
      <3>1. ~Ended(c)
        BY <1>3, <2>1 DEF Ended, Waits, NoFlight
      <3> QED
        BY <2>1, <3>1, CallCases DEF Waits, FindRow, HasCredentials, Refresh
    <2> QED
      BY <2>1, <2>2 DEF HasWaiter, Waits
  <1>4. CASE flight'[p][a].phase = "none"
    BY <1>4 DEF HasWaiter
  <1>5. Granted(p, a) \/ Ending(p, a) => flight[p][a].phase # "none"
    BY DEF Granted, Exchanged, Asking, Ending
  <1>6. flight'[p][a] = flight[p][a] =>
          flight'[p][a].phase = flight[p][a].phase
    OBVIOUS
  <1> QED
    BY <1>1, <1>2, <1>3, <1>4, <1>5, <1>6, FlightCases

LEMMA OutlastsStep ==
  ASSUME Columns, IssueInv, [Next]_vars, NEW p \in Processes, NEW a \in Accounts,
         HasWaiter(p, a), OutlastsExpired(p, a)
  PROVE  OutlastsExpired(p, a)'
  <1>1. CASE \E n \in Pairs : Expire(n)
    <2>1. PICK n \in Pairs : Expire(n)
      BY <1>1
    <2>2. flight' = flight /\ expired' = expired \cup {n}
      BY <2>1 DEF Expire
    <2>3. CASE flight[p][a].phase = "none"
      BY <2>2, <2>3 DEF OutlastsExpired
    <2>4. CASE flight[p][a].phase # "none"
      <3>1. PICK c \in Callers : Waits(c, p, a)
        BY <2>4 DEF HasWaiter
      <3>2. flight[p][a].new = NoToken \/ flight[p][a].new > n
        BY <2>1, <3>1 DEF Expire, Waits
      <3> QED
        BY <2>2, <3>2 DEF OutlastsExpired
    <2> QED
      BY <2>3, <2>4
  <1>2. CASE expired' = expired
    <2>1. CASE Granted(p, a)
      <3>1. NewPair = issued + 1 /\ issued \in Nat /\ expired \subseteq 1 .. issued
        BY DEF NewPair, Columns, TokenTypeOK, MaybePair
      <3> QED
        BY <1>2, <2>1, <3>1 DEF Granted, OutlastsExpired
    <2>2. CASE Begun(p, a) \/ Settled(p, a)
      BY <2>2 DEF Begun, Settled, NoFlight, OutlastsExpired
    <2>3. CASE flight'[p][a] = flight[p][a] \/ Ending(p, a)
      BY <1>2, <2>3 DEF Ending, OutlastsExpired
    <2> QED
      BY <2>1, <2>2, <2>3, FlightCases
  <1> QED
    BY <1>1, <1>2, ExpiredCases

LEMMA NewerStep ==
  ASSUME Columns, IssueInv, WaitInv, [Next]_vars
  PROVE  RefreshedIsNewer'
  <1> DEFINE Newer(c) ==
        LET f == flight[call[c].host][call[c].acct]
        IN f.phase # "none" /\ (f.new # NoToken => f.new > call[c].read)
  <1> SUFFICES ASSUME NEW c \in Callers, call'[c].phase = "waiting"
               PROVE  Newer(c)'
    BY DEF RefreshedIsNewer
  <1>1. CASE call'[c] = call[c]
    <2> DEFINE p == call[c].host
               a == call[c].acct
    <2>1. /\ p \in Processes /\ a \in Accounts /\ call[c].read \in 1 .. issued
          /\ Waits(c, p, a) /\ Newer(c)
      BY <1>1 DEF IssueInv, CallIssued, WaitInv, RefreshedIsNewer, Waits
    <2>2. CASE flight'[p][a] = flight[p][a]
      BY <1>1, <2>1, <2>2
    <2>3. ~Settled(p, a)
      BY <1>1, <2>1 DEF Settled, EndedCall, NoCall, Waits
    <2>4. ~Begun(p, a)
      BY <2>1 DEF Begun
    <2>5. CASE Granted(p, a)
      <3>1. NewPair = issued + 1 /\ issued \in Nat
        BY DEF NewPair, Columns, TokenTypeOK, MaybePair
      <3> QED
        BY <1>1, <2>1, <2>5, <3>1 DEF Granted
    <2>6. CASE Ending(p, a)
      BY <1>1, <2>1, <2>6 DEF Ending
    <2> QED
      BY <2>1, <2>2, <2>3, <2>4, <2>5, <2>6, FlightCases
  <1>2. CASE Refresh(c)
    <2>0. PICK p, a : call[c].host = p /\ call[c].acct = a
      OBVIOUS
    <2>1. /\ p \in Processes /\ a \in Accounts /\ Waits(c, p, a)'
          /\ call[c].read \in expired /\ call'[c].read = call[c].read
          /\ \/ flight'[p][a] = flight[p][a] /\ flight[p][a].phase # "none"
             \/ flight'[p][a].phase = "asking" /\ flight'[p][a].new = NoToken
      BY <1>2, <2>0, RefreshFacts
    <2>2. OutlastsExpired(p, a)
      BY <2>1 DEF WaitInv
    <2> QED
      BY <2>1, <2>2 DEF OutlastsExpired, Waits
  <1>3. ~Ended(c)
    BY DEF Ended, EndedCall, NoCall
  <1> QED
    BY <1>1, <1>2, <1>3, CallCases

LEMMA WaitStep ==
  ASSUME Columns, IssueInv, WaitInv, [Next]_vars
  PROVE  WaitInv'
  BY WaiterStep, OutlastsStep, NewerStep DEF WaitInv

-----------------------------------------------------------------------------
(* Who knows a pair.                                                       *)

LEMMA KnownIssued ==
  ASSUME Columns, IssueInv, NEW a \in Accounts, NEW n \in Pairs, Knows(a, n)
  PROVE  n <= issued
  BY DEF Knows, IssueInv, CallIssued, FlightIssued, Columns, TokenTypeOK,
         MaybePair

LEMMA NewPairFacts ==
  ASSUME Columns, IssueInv
  PROVE  /\ NewPair = issued + 1 /\ issued \in Nat
         /\ \A a \in Accounts : ~(NewPair \in Pairs /\ Knows(a, NewPair))
         /\ \A p \in Processes, a \in Accounts :
              flight[p][a].phase # "none" => flight[p][a].new # NewPair
         /\ \A q \in Requests :
              request[q].phase # "idle" => request[q].new # NewPair
  <1>1. NewPair = issued + 1 /\ issued \in Nat
    BY DEF NewPair, Columns, TokenTypeOK, MaybePair
  <1>2. \A p \in Processes, a \in Accounts : flight[p][a].new \in Nat
    BY FlightFacts DEF Flight, MaybePair
  <1>3. \A q \in Requests : request[q].new \in Nat
    BY RequestFacts DEF Request, MaybePair
  <1> QED
    BY <1>1, <1>2, <1>3, KnownIssued DEF IssueInv, FlightIssued, RequestIssued

(* A step lets an account know a pair it did not know only in these ways.  *)
Arrives(a, n) ==
  \/ \E p \in Processes : Store(p, a) /\ n = flight[p][a].new
  \/ \E t \in Tenants : a = Hub(t) /\ Install(t) /\ Issue(HubSpot) /\ n = NewPair
  \/ \E q \in Requests :
       AttachOxid(q) /\ a = Ox(request[q].of) /\ n = request[q].new

LEMMA KnowsCases ==
  ASSUME Columns, IssueInv, [Next]_vars, NEW a \in Accounts, NEW n, Knows(a, n)'
  PROVE  Knows(a, n) \/ Arrives(a, n)
  <1>1. CASE token'[a] = n
    BY <1>1, TokenCases DEF Knows, Arrives
  <1>2. CASE \E c \in Callers : call'[c].phase \in {"decide", "waiting"}
                                  /\ call'[c].acct = a /\ call'[c].read = n
    <2>1. PICK c \in Callers : call'[c].phase \in {"decide", "waiting"}
                                 /\ call'[c].acct = a /\ call'[c].read = n
      BY <1>2
    <2>2. ~Ended(c)
      BY <2>1 DEF Ended, EndedCall, NoCall
    <2>3. CASE \E p \in Processes, b \in Accounts :
                 /\ FindRow(c, p, b)
                 /\ call'[c].phase = "decide" /\ call'[c].host = p
                 /\ call'[c].acct = b /\ call'[c].read = token[b]
      BY <2>1, <2>3 DEF Knows
    <2>4. CASE \/ call'[c] = call[c]
               \/ /\ Refresh(c) /\ call'[c].acct = call[c].acct
                  /\ call'[c].read = call[c].read
      BY <2>1, <2>4 DEF Knows, Refresh
    <2> QED
      BY <2>2, <2>3, <2>4, CallCases
  <1>3. CASE \E p \in Processes :
               flight'[p][a].phase # "none" /\ flight'[p][a].read = n
    <2>1. PICK p \in Processes :
            flight'[p][a].phase # "none" /\ flight'[p][a].read = n
      BY <1>3
    <2>2. ~Settled(p, a)
      BY <2>1 DEF Settled, NoFlight
    <2>3. CASE flight'[p][a] = flight[p][a] \/ Granted(p, a) \/ Ending(p, a)
      BY <2>1, <2>3 DEF Knows, Granted, Exchanged, Asking, Ending
    <2>4. CASE Begun(p, a)
      BY <2>1, <2>4 DEF Knows, Begun, Refresh
    <2> QED
      BY <2>2, <2>3, <2>4, FlightCases
  <1> QED
    BY <1>1, <1>2, <1>3 DEF Knows

(* What arrives was known to nobody, and works.                            *)
LEMMA ArrivesFacts ==
  ASSUME Columns, IssueInv, PairInv, NEW a \in Accounts, NEW n \in Pairs,
         Arrives(a, n)
  PROVE  /\ n \in live'
         /\ \A b \in Accounts : ~Knows(b, n) /\ (Arrives(b, n) => b = a)
  <1>1. ASSUME NEW p \in Processes, NEW b \in Accounts, Store(p, b)
        PROVE  /\ Storing(p, b) /\ Unread(flight[p][b].new) /\ live' = live
               /\ flight[p][b].new # NewPair
               /\ \A q \in Requests : Answered(q) => request[q].new # flight[p][b].new
    BY <1>1, NewPairFacts
    DEF Store, siteVars, PairInv, StoringUnread, Storing
  <1>2. ASSUME NEW q \in Requests, AttachOxid(q)
        PROVE  /\ Answered(q) /\ Unread(request[q].new) /\ live' = live
               /\ request[q].new # NewPair
    BY <1>2, NewPairFacts
    DEF AttachOxid, siteVars, PairInv, AnswerUnread, Answered
  <1>3. ASSUME NEW t \in Tenants, Install(t), Hub(t) \in Accounts
        PROVE  /\ NewPair \in live'
               /\ \A u \in Tenants : Install(u) /\ Hub(u) \in Accounts => u = t
    <2>1. \A u \in Tenants : u # t => token'[Hub(u)] = token[Hub(u)] \/ Hub(u) \notin Accounts
      BY <1>3, AccountFacts DEF Install, Columns, TokenTypeOK
    <2>2. \A u \in Tenants : Hub(u) \in Accounts => token[Hub(u)] # NewPair
      BY NewPairFacts DEF IssueInv, Columns, TokenTypeOK, MaybePair
    <2> QED
      BY <1>3, <2>1, <2>2 DEF Install, Columns, TokenTypeOK
  <1>4. \A p, r \in Processes, b \in Accounts :
          Store(p, a) /\ Store(r, b) /\ flight[r][b].new = flight[p][a].new => b = a
    BY <1>1 DEF PairInv, StoringUnread
  <1>5. \A q, r \in Requests :
          AttachOxid(q) /\ AttachOxid(r) /\ request[r].new = request[q].new => r = q
    BY <1>2 DEF PairInv, AnswerUnread
  <1>6. CASE \E p \in Processes : Store(p, a) /\ n = flight[p][a].new
    BY <1>1, <1>2, <1>4, <1>6 DEF Arrives, Unread
  <1>7. CASE \E t \in Tenants : a = Hub(t) /\ Install(t) /\ Issue(HubSpot) /\ n = NewPair
    BY <1>1, <1>2, <1>3, <1>7, NewPairFacts DEF Arrives
  <1>8. CASE \E q \in Requests :
               AttachOxid(q) /\ a = Ox(request[q].of) /\ n = request[q].new
    BY <1>1, <1>2, <1>5, <1>8 DEF Arrives, Unread
  <1> QED
    BY <1>6, <1>7, <1>8 DEF Arrives

LEMMA KnownOnceStep ==
  ASSUME Columns, IssueInv, PairInv, [Next]_vars
  PROVE  KnownOnce'
  BY KnowsCases, ArrivesFacts DEF KnownOnce, PairInv, Pairs

(* A site replaces only a pair that was sent to it.                        *)
LEMMA LiveCases ==
  ASSUME [Next]_vars, NEW n \in live, n \notin live'
  PROVE  \E p \in Processes, a \in Accounts :
           /\ Asking(p, a) /\ flight[p][a].read = n
           /\ Exchanged(p, a) \/ n \in wasted'
  <1>1. ASSUME NEW p \in Processes, NEW a \in Accounts, FlightStep(p, a)
        PROVE  /\ Asking(p, a) /\ flight[p][a].read = n
               /\ Exchanged(p, a) \/ n \in wasted'
    BY <1>1
    DEF FlightStep, Exchanged, Refused, ExchangeFails, Store, StoreFails,
                Settle, Exchange, siteVars
  <1>2. CASE TokenStep
    BY <1>1, <1>2
    DEF TokenStep, FindRow, HasCredentials, GiveCached, Refresh, Die, Expire, siteVars
  <1>3. CASE PairingStep
    BY <1>3
    DEF PairingStep, Install, StartOxidOAuth, Callback, ExchangeCode,
        CheckConflict, AttachOxid, CallbackFails, tokenVars, siteVars
  <1> QED
    BY <1>2, <1>3 DEF Next, vars, tokenVars, siteVars

(* A pair that nobody knows stays so, unless it arrives.                   *)
LEMMA UnreadStays ==
  ASSUME Columns, IssueInv, [Next]_vars, NEW n \in Pairs, Unread(n),
         \A a \in Accounts : ~Arrives(a, n)
  PROVE  Unread(n)'
  <1>1. n \in live'
    BY LiveCases DEF Unread, Knows, Asking
  <1>2. \A a \in Accounts : ~Knows(a, n)'
    BY KnowsCases DEF Unread
  <1> QED
    BY <1>1, <1>2 DEF Unread

(* At most one entry, and no request, gets an answer in a step.            *)
LEMMA GrantedAlone ==
  ASSUME Columns, NEW p \in Processes, NEW a \in Accounts, Granted(p, a)
  PROVE  /\ NewPair \in live' /\ NewPair \in Pairs
         /\ \A r \in Processes, b \in Accounts : Granted(r, b) => r = p /\ b = a
         /\ \A q \in Requests : ~ExchangeCode(q)
         /\ \A t \in Tenants : ~Install(t)
  <1>1. flight[p][a].phase = "asking" /\ flight'[p][a].phase = "storing"
    BY DEF Granted, Exchanged, Asking
  <1>2. ASSUME NEW r \in Processes, NEW b \in Accounts, Granted(r, b)
        PROVE  r = p /\ b = a
    <2>1. flight' = [flight EXCEPT ![r][b].phase = "storing",
                                   ![r][b].new = NewPair]
      BY <1>2 DEF Granted, Exchanged
    <2>2. r # p => flight'[p] = flight[p]
      BY <2>1 DEF Columns, TokenTypeOK
    <2>3. r = p /\ b # a => flight'[p][a] = flight[p][a]
      BY <2>1 DEF Columns, TokenTypeOK
    <2> QED
      BY <1>1, <2>2, <2>3
  <1>3. NewPair \in live' /\ NewPair \in Pairs
    BY IssueFacts DEF Granted, Exchanged, Exchange
  <1> QED
    BY <1>1, <1>2, <1>3 DEF ExchangeCode, Install, serviceVars

LEMMA CodeAlone ==
  ASSUME Columns, NEW q \in Requests, ExchangeCode(q)
  PROVE  /\ NewPair \in live' /\ NewPair \in Pairs
         /\ \A r \in Requests : ExchangeCode(r) => r = q
         /\ \A t \in Tenants : ~Install(t)
  <1>1. request[q].phase = "exchange" /\ request'[q].phase # "exchange"
    BY DEF ExchangeCode, Columns
  <1>2. ASSUME NEW r \in Requests, ExchangeCode(r)
        PROVE  r = q
    BY <1>1, <1>2 DEF ExchangeCode, Columns
  <1>3. NewPair \in live' /\ NewPair \in Pairs
    BY IssueFacts DEF ExchangeCode
  <1> QED
    BY <1>1, <1>2, <1>3 DEF Install

(* What was issued in this step to an entry or a request.                  *)
LEMMA FreshUnread ==
  ASSUME Columns, IssueInv, [Next]_vars, NEW n \in Pairs, n = NewPair, n \in live',
         \A t \in Tenants : ~Install(t)
  PROVE  Unread(n)'
  <1>1. \A a \in Accounts : ~Knows(a, n) /\ ~Arrives(a, n)
    BY NewPairFacts DEF Arrives, Store, Storing, AttachOxid
  <1>2. \A a \in Accounts : ~Knows(a, n)'
    BY <1>1, KnowsCases
  <1> QED
    BY <1>2 DEF Unread

LEMMA StoringUnreadStep ==
  ASSUME Columns, IssueInv, PairInv, [Next]_vars,
         NEW p \in Processes, NEW a \in Accounts
  PROVE  StoringUnread(p, a)'
  <1> SUFFICES ASSUME Storing(p, a)'
               PROVE  StoringUnread(p, a)'
    BY DEF StoringUnread
  <1>1. PICK n : n = flight'[p][a].new
    OBVIOUS
  <1>2. Granted(p, a) \/ flight'[p][a] = flight[p][a]
    BY FlightCases DEF Storing, Settled, NoFlight, Begun, Ending
  <1>3. \A r \in Processes, b \in Accounts :
          Storing(r, b)' => Granted(r, b) \/ flight'[r][b] = flight[r][b]
    BY FlightCases DEF Storing, Settled, NoFlight, Begun, Ending
  <1>4. \A q \in Requests : Answered(q)' =>
          \/ ExchangeCode(q) /\ request'[q].new = NewPair
          \/ Answered(q) /\ request'[q].new = request[q].new
    BY RequestCases DEF Answered
  <1>5. CASE Granted(p, a)
    <2>1. n = NewPair /\ n \in Pairs /\ n \in live'
      BY <1>1, <1>5, GrantedAlone DEF Granted
    <2>2. Unread(n)'
      BY <1>5, <2>1, FreshUnread, GrantedAlone
    <2>3. \A r \in Processes, b \in Accounts :
            Storing(r, b)' /\ flight'[r][b].new = n => r = p /\ b = a
      BY <1>3, <1>5, <2>1, GrantedAlone, NewPairFacts DEF Storing
    <2>4. \A q \in Requests : Answered(q)' => request'[q].new # n
      BY <1>4, <1>5, <2>1, GrantedAlone, NewPairFacts DEF Answered
    <2> QED
      BY <1>1, <2>2, <2>3, <2>4 DEF StoringUnread, Storing, Answered, Unread
  <1>6. CASE flight'[p][a] = flight[p][a]
    <2>1. Storing(p, a) /\ n = flight[p][a].new
      BY <1>1, <1>6 DEF Storing
    <2>2. n \in Pairs /\ n # NewPair
      <3>1. flight[p][a].new \in MaybePair /\ flight[p][a].new # NoToken
        BY <2>1, FlightFacts DEF Flight, IssueInv, FlightIssued, Storing
      <3> QED
        BY <2>1, <3>1, NewPairFacts DEF MaybePair, Pairs, NoToken, Storing
    <2>3. \A b \in Accounts : ~Arrives(b, n)
      <3>1. ~Store(p, a)
        <4>1. Store(p, a) => flight'[p][a].phase = "settling"
          BY FlightFacts DEF Store, Columns, TokenTypeOK, Flight
        <4> QED
          BY <1>6, <2>1, <4>1 DEF Storing
      <3> QED
        BY <2>1, <2>2, <3>1
        DEF Arrives, PairInv, StoringUnread, Store, AttachOxid, Answered
    <2>4. Unread(n)'
      BY <2>1, <2>2, <2>3, UnreadStays DEF PairInv, StoringUnread
    <2>5. \A r \in Processes, b \in Accounts :
            Storing(r, b)' /\ flight'[r][b].new = n => r = p /\ b = a
      BY <1>3, <2>1, <2>2 DEF PairInv, StoringUnread, Storing, Granted
    <2>6. \A q \in Requests : Answered(q)' => request'[q].new # n
      BY <1>4, <2>1, <2>2 DEF PairInv, StoringUnread
    <2> QED
      BY <1>1, <2>4, <2>5, <2>6 DEF StoringUnread, Storing, Answered, Unread
  <1> QED
    BY <1>2, <1>5, <1>6

LEMMA AnswerUnreadStep ==
  ASSUME Columns, IssueInv, PairInv, [Next]_vars, NEW q \in Requests
  PROVE  AnswerUnread(q)'
  <1> SUFFICES ASSUME Answered(q)'
               PROVE  AnswerUnread(q)'
    BY DEF AnswerUnread
  <1>1. PICK n : n = request'[q].new
    OBVIOUS
  <1>2. \A r \in Requests : Answered(r)' =>
          \/ ExchangeCode(r) /\ request'[r].new = NewPair
          \/ Answered(r) /\ request'[r].new = request[r].new
    BY RequestCases DEF Answered
  <1>3. CASE ExchangeCode(q) /\ n = NewPair
    <2>1. n \in Pairs /\ n \in live'
      BY <1>3, CodeAlone
    <2>2. Unread(n)'
      BY <1>3, <2>1, FreshUnread, CodeAlone
    <2>3. \A r \in Requests : Answered(r)' /\ request'[r].new = n => r = q
      BY <1>2, <1>3, CodeAlone, NewPairFacts DEF Answered
    <2> QED
      BY <1>1, <2>2, <2>3 DEF AnswerUnread, Answered, Unread
  <1>4. CASE Answered(q) /\ n = request[q].new
    <2>1. n \in Pairs /\ n # NewPair
      <3>1. request[q].new \in MaybePair /\ request[q].new # NoToken
        BY <1>4, RequestFacts DEF Request, IssueInv, RequestIssued, Answered
      <3> QED
        BY <1>4, <3>1, NewPairFacts DEF MaybePair, Pairs, NoToken, Answered
    <2>2. \A b \in Accounts : ~Arrives(b, n)
      <3>1. ~AttachOxid(q)
        BY DEF AttachOxid, End, NoRequest, Answered, Columns
      <3> QED
        BY <1>4, <2>1, <3>1
        DEF Arrives, PairInv, AnswerUnread, StoringUnread, Store, AttachOxid,
            Answered
    <2>3. Unread(n)'
      BY <1>4, <2>1, <2>2, UnreadStays DEF PairInv, AnswerUnread
    <2>4. \A r \in Requests : Answered(r)' /\ request'[r].new = n => r = q
      BY <1>2, <1>4, <2>1 DEF PairInv, AnswerUnread
    <2> QED
      BY <1>1, <2>3, <2>4 DEF AnswerUnread, Answered, Unread
  <1> QED
    BY <1>1, <1>2, <1>3, <1>4

LEMMA PairStep ==
  ASSUME Columns, IssueInv, PairInv, [Next]_vars
  PROVE  PairInv'
  BY KnownOnceStep, StoringUnreadStep, AnswerUnreadStep DEF PairInv

-----------------------------------------------------------------------------
(* The pair of a row works.                                                *)

LEMMA WastedGrows ==
  ASSUME [Next]_vars
  PROVE  wasted \subseteq wasted'
  <1>1. CASE TokenStep
    BY <1>1
    DEF TokenStep, FindRow, HasCredentials, GiveCached, Refresh, FlightStep,
        Exchanged, Refused,
        ExchangeFails, Store, StoreFails, Settle, Die, Expire, ghostVars
  <1>2. CASE PairingStep
    BY <1>2
    DEF PairingStep, Install, StartOxidOAuth, Callback, ExchangeCode,
        CheckConflict, AttachOxid, CallbackFails, tokenVars, ghostVars
  <1> QED
    BY <1>1, <1>2 DEF Next, vars, tokenVars, ghostVars

(* A pair to be stored is stored, or lost with a fault.                    *)
LEMMA StoringCases ==
  ASSUME Columns, IssueInv, [Next]_vars, NEW p \in Processes, NEW a \in Accounts,
         Storing(p, a)
  PROVE  \/ Storing(p, a)' /\ flight'[p][a].read = flight[p][a].read
         \/ Store(p, a)
         \/ flight[p][a].read \in wasted'
  <1> USE DEF Columns, TokenTypeOK
  <1>1. ASSUME NEW r \in Processes, NEW b \in Accounts, FlightStep(r, b)
        PROVE  \/ flight'[p][a] = flight[p][a]
               \/ Store(p, a)
               \/ flight[p][a].read \in wasted'
    <2>1. CASE p = r /\ a = b
      BY <1>1, <2>1
      DEF FlightStep, Exchanged, Refused, ExchangeFails, StoreFails, Settle,
          Asking, Storing
    <2>2. CASE ~(p = r /\ a = b)
      BY <1>1, <2>2 DEF FlightStep, Exchanged, Refused, ExchangeFails, Store,
                        StoreFails, Settle
    <2> QED
      BY <2>1, <2>2
  <1>2. ASSUME NEW c \in Callers, Refresh(c)
        PROVE  flight'[p][a] = flight[p][a]
    BY <1>2, IssueInv DEF Refresh, Storing, IssueInv, CallIssued
  <1>3. ASSUME NEW r \in Processes, Die(r)
        PROVE  flight'[p][a] = flight[p][a] \/ flight[p][a].read \in wasted'
    BY <1>3 DEF Die
  <1>4. CASE TokenStep
    BY <1>1, <1>2, <1>3, <1>4
    DEF TokenStep, FindRow, HasCredentials, GiveCached, Expire, Storing
  <1>5. CASE PairingStep
    BY <1>5
    DEF PairingStep, Install, StartOxidOAuth, Callback, ExchangeCode,
        CheckConflict, AttachOxid, CallbackFails, tokenVars, serviceVars, Storing
  <1> QED
    BY <1>4, <1>5 DEF Next, vars, tokenVars, serviceVars, Storing

LEMMA TokensWorkStep ==
  ASSUME Columns, IssueInv, PairInv, StoredTokensWork, [Next]_vars
  PROVE  StoredTokensWork'
  <1> SUFFICES ASSUME NEW a \in Accounts, token'[a] # NoToken
               PROVE  \/ token'[a] \in live' \cup wasted'
                      \/ \E p \in Processes :
                           Storing(p, a)' /\ flight'[p][a].read = token'[a]
    BY DEF StoredTokensWork, Storing
  <1>1. CASE token'[a] # token[a]
    <2>1. token'[a] \in Pairs
      BY TypeStep DEF Columns, TokenTypeOK, MaybePair, Pairs, NoToken
    <2>2. Arrives(a, token'[a])
      BY <1>1, TokenCases DEF Arrives
    <2> QED
      BY <2>1, <2>2, ArrivesFacts
  <1>2. CASE token'[a] = token[a]
    <2>1. PICK n : n = token[a]
      OBVIOUS
    <2>2. n \in Pairs /\ Knows(a, n)
      BY <1>2, <2>1 DEF Columns, TokenTypeOK, MaybePair, Pairs, NoToken, Knows
    <2>3. CASE n \in wasted
      BY <1>2, <2>1, <2>3, WastedGrows
    <2>4. CASE n \in live /\ n \notin live' /\ n \notin wasted'
      <3>1. PICK p \in Processes, b \in Accounts :
              Asking(p, b) /\ flight[p][b].read = n /\ Exchanged(p, b)
        BY <2>4, LiveCases
      <3>2. b = a
        BY <2>2, <3>1 DEF Knows, PairInv, KnownOnce, Asking
      <3>3. Storing(p, a)' /\ flight'[p][a].read = n
        BY <3>1, <3>2, FlightFacts
        DEF Exchanged, Storing, Columns, TokenTypeOK, Flight
      <3> QED
        BY <1>2, <2>1, <3>3
    <2>5. CASE \E p \in Processes : Storing(p, a) /\ flight[p][a].read = n
      <3>1. PICK p \in Processes : Storing(p, a) /\ flight[p][a].read = n
        BY <2>5
      <3>2. CASE Store(p, a)
        <4>1. token'[a] = flight[p][a].new /\ Arrives(a, flight[p][a].new)
          BY <3>2 DEF Store, Arrives, Columns, TokenTypeOK
        <4>2. token'[a] \in Pairs
          BY TypeStep DEF Columns, TokenTypeOK, MaybePair, Pairs, NoToken
        <4> QED
          BY <4>1, <4>2, ArrivesFacts
      <3> QED
        BY <1>2, <2>1, <3>1, <3>2, StoringCases
    <2> QED
      BY <1>2, <2>1, <2>3, <2>4, <2>5 DEF StoredTokensWork
  <1> QED
    BY <1>1, <1>2

-----------------------------------------------------------------------------
(* The shop of a row.                                                      *)

(* What a step may do to the shop's columns of tenant t.                   *)
LEMMA ShopCases ==
  ASSUME Columns, IssueInv, [Next]_vars, NEW t \in Tenants
  PROVE  \/ /\ UNCHANGED shopId /\ at'[t] = at[t]
            /\ t \in restarted' <=> t \in restarted
         \/ UNCHANGED <<shopId, token, crossed>> /\ t \in restarted'
         \/ \E q \in Requests : AttachOxid(q)
  <1>1. CASE TokenStep /\ UNCHANGED <<rowVars, restarted>>
    <2>1. at' = at
      BY <1>1
      DEF TokenStep, FindRow, HasCredentials, GiveCached, Refresh, FlightStep,
        Exchanged, Refused, ExchangeFails, Store, StoreFails, Settle, Die, Expire,
                  columnVars
    <2> QED
      BY <1>1, <2>1 DEF rowVars
  <1>2. ASSUME NEW u \in Tenants, NEW s \in Shops, StartOxidOAuth(u, s)
        PROVE  \/ /\ UNCHANGED shopId /\ at'[t] = at[t]
                  /\ t \in restarted' <=> t \in restarted
               \/ UNCHANGED <<shopId, token, crossed>> /\ t \in restarted'
    BY <1>2 DEF StartOxidOAuth, rowVars, ghostVars, Columns, TokenTypeOK
  <1>3. CASE PairingStep
    BY <1>2, <1>3
    DEF PairingStep, Install, Callback, ExchangeCode, CheckConflict,
        CallbackFails, tokenVars, columnVars, rowVars
  <1> QED
    BY <1>1, <1>3 DEF Next, vars, tokenVars, columnVars, rowVars

LEMMA AttachFacts ==
  ASSUME Columns, IssueInv, ShopInv, NEW q \in Requests, AttachOxid(q),
         NEW t \in Tenants
  PROVE  /\ UNCHANGED <<issued, issuer, flight>>
         /\ t # request[q].of =>
              /\ shopId'[t] = shopId[t] /\ at'[t] = at[t]
              /\ Ox(t) \in Accounts => token'[Ox(t)] = token[Ox(t)]
              /\ t \in restarted' <=> t \in restarted
              /\ Ox(t) \in crossed' <=> Ox(t) \in crossed
         /\ t = request[q].of =>
              /\ shopId'[t] = request[q].id /\ at'[t] = request[q].shop
              /\ Ox(t) \in Accounts => token'[Ox(t)] = request[q].new
  BY AccountFacts
  DEF AttachOxid, ShopOf, siteVars, serviceVars, Columns, TokenTypeOK, IssueInv,
      RequestIssued

LEMMA CrossedStays ==
  ASSUME [Next]_vars, \A q \in Requests : ~AttachOxid(q)
  PROVE  crossed \subseteq crossed'
  <1>1. CASE TokenStep
    BY <1>1
    DEF TokenStep, FindRow, HasCredentials, GiveCached, Refresh, FlightStep,
        Exchanged, Refused,
        ExchangeFails, Store, StoreFails, Settle, Die, Expire, ghostVars
  <1>2. CASE PairingStep
    BY <1>2
    DEF PairingStep, Install, StartOxidOAuth, Callback, ExchangeCode,
        CheckConflict, CallbackFails, tokenVars, ghostVars
  <1> QED
    BY <1>1, <1>2 DEF Next, vars, tokenVars, ghostVars

(* Without a callback a row may get another pair, but of the same site.    *)
LEMMA GrantorStays ==
  ASSUME Columns, IssueInv, ShopInv, [Next]_vars, NEW t \in Tenants,
         \A q \in Requests : ~AttachOxid(q),
         Known(t)', Ox(t) \notin crossed'
  PROVE  Known(t) /\ Ox(t) \notin crossed /\ Grantor(t)' = Grantor(t)
  <1>1. Ox(t) \in Accounts /\ Ox(t) \notin crossed
    BY CrossedStays DEF Known
  <1>2. token[Ox(t)] \in 0 .. issued
    BY <1>1 DEF IssueInv, Columns, TokenTypeOK, MaybePair
  <1>3. CASE token'[Ox(t)] = token[Ox(t)]
    BY <1>1, <1>2, <1>3, IssuersStay DEF Known, Grantor, NoToken
  <1>4. ASSUME NEW p \in Processes, Store(p, Ox(t)),
               token'[Ox(t)] = flight[p][Ox(t)].new
        PROVE  Known(t) /\ Grantor(t)' = Grantor(t)
    <2>1. Storing(p, Ox(t)) /\ token[Ox(t)] = flight[p][Ox(t)].read
      BY <1>1, <1>4 DEF Store
    <2>2. /\ flight[p][Ox(t)].read \in 1 .. issued
          /\ issuer[flight[p][Ox(t)].new] = issuer[flight[p][Ox(t)].read]
      BY <1>1, <2>1 DEF IssueInv, FlightIssued, Storing, ShopInv, StoringFrom
    <2>3. issuer' = issuer
      BY <1>4 DEF Store, siteVars
    <2> QED
      BY <1>1, <1>4, <2>1, <2>2, <2>3 DEF Known, Grantor, NoToken
  <1>5. \A u \in Tenants : Ox(t) # Hub(u)
    BY AccountFacts
  <1> QED
    BY <1>1, <1>3, <1>4, <1>5, TokenCases

LEMMA StoringFromStep ==
  ASSUME Columns, IssueInv, ShopInv, [Next]_vars,
         NEW p \in Processes, NEW a \in Accounts
  PROVE  StoringFrom(p, a)'
  <1>1. CASE Granted(p, a)
    <2>1. /\ Issue(flight[p][a].from) /\ issuer[flight[p][a].read] = flight[p][a].from
          /\ flight[p][a].read \in 1 .. issued
      BY <1>1
      DEF Granted, Exchanged, Exchange, Accepts, IssueInv, FlightIssued, Asking
    <2> QED
      BY <1>1, <2>1, IssueFacts DEF Granted, StoringFrom
  <1>2. CASE flight'[p][a] = flight[p][a]
    <2>1. Storing(p, a) =>
            flight[p][a].read \in 1 .. issued /\ flight[p][a].new \in 1 .. issued
      BY FlightFacts
      DEF IssueInv, FlightIssued, Storing, Flight, MaybePair, NoToken, Columns,
          TokenTypeOK
    <2> QED
      BY <1>2, <2>1, IssuersStay DEF StoringFrom, Storing, ShopInv
  <1>3. CASE ~Storing(p, a)'
    BY <1>3 DEF StoringFrom
  <1> QED
    BY <1>1, <1>2, <1>3, FlightCases
    DEF Storing, Settled, NoFlight, Begun, Ending

LEMMA AnswerFromStep ==
  ASSUME Columns, IssueInv, ShopInv, [Next]_vars, NEW q \in Requests
  PROVE  AnswerFrom(q)'
  <1>1. Answered(q) => request[q].new \in 1 .. issued
    BY RequestFacts
    DEF IssueInv, RequestIssued, Answered, Request, MaybePair, NoToken, Columns,
        TokenTypeOK
  <1>2. CASE \/ request'[q] = request[q]
             \/ /\ Answered(q) /\ request'[q].shop = request[q].shop
                /\ request'[q].new = request[q].new /\ request'[q].id = request[q].id
    BY <1>1, <1>2, IssuersStay DEF ShopInv, AnswerFrom, Answered
  <1>3. CASE /\ ExchangeCode(q) /\ request'[q].shop = request[q].shop
             /\ request'[q].new = NewPair /\ request'[q].id = IdOf(request[q])
    BY <1>3, IssueFacts DEF ExchangeCode, IdOf, AnswerFrom
  <1>4. CASE ~Answered(q)'
    BY <1>4 DEF AnswerFrom
  <1> QED
    BY <1>2, <1>3, <1>4, RequestCases DEF Answered

LEMMA AttachStep ==
  ASSUME Columns, IssueInv, ShopInv, NEW q \in Requests, AttachOxid(q)
  PROVE  RowIsOneShop' /\ IdsUnique' /\ IdOfGrantor'
  <1>1. PICK o \in Tenants : o = request[q].of
    BY DEF AttachOxid, IssueInv, RequestIssued
  <1>2. /\ issuer' = issuer /\ ~Taken(o, request[q].id)
        /\ issuer[request[q].new] = request[q].shop
        /\ ReportsId => request[q].id = request[q].shop
    BY <1>1 DEF AttachOxid, siteVars, ShopInv, AnswerFrom, Answered
  <1>3. \A t \in Tenants : t # o =>
          /\ Known(t)' <=> Known(t)
          /\ Known(t) => Grantor(t)' = Grantor(t)
          /\ shopId'[t] = shopId[t] /\ at'[t] = at[t]
          /\ t \in restarted' <=> t \in restarted
          /\ Ox(t) \in crossed' <=> Ox(t) \in crossed
    BY <1>1, <1>2, AttachFacts DEF Known, Grantor
  <1>4. /\ Known(o)' => Grantor(o)' = request[q].shop
        /\ shopId'[o] = request[q].id /\ at'[o] = request[q].shop
    BY <1>1, <1>2, AttachFacts DEF Known, Grantor
  <1>5. RowIsOneShop'
    BY <1>3, <1>4 DEF ShopInv, RowIsOneShop
  <1>6. IdsUnique'
    BY <1>2, <1>3, <1>4 DEF ShopInv, IdsUnique, Taken
  <1>7. IdOfGrantor'
    BY <1>2, <1>3, <1>4 DEF ShopInv, IdOfGrantor
  <1> QED
    BY <1>5, <1>6, <1>7

LEMMA ShopStep ==
  ASSUME Columns, IssueInv, ShopInv, [Next]_vars
  PROVE  ShopInv'
  <1>1. CASE \A q \in Requests : ~AttachOxid(q)
    <2>1. RowIsOneShop'
      BY <1>1, ShopCases, GrantorStays DEF ShopInv, RowIsOneShop
    <2>2. IdsUnique'
      BY <1>1, ShopCases DEF ShopInv, IdsUnique
    <2>3. IdOfGrantor'
      BY <1>1, ShopCases, GrantorStays DEF ShopInv, IdOfGrantor
    <2> QED
      BY <2>1, <2>2, <2>3, StoringFromStep, AnswerFromStep DEF ShopInv
  <1>2. CASE \E q \in Requests : AttachOxid(q)
    BY <1>2, AttachStep, StoringFromStep, AnswerFromStep DEF ShopInv
  <1> QED
    BY <1>1, <1>2

-----------------------------------------------------------------------------
(* The theorems.                                                           *)

LEMMA InitInv == Init => PairingInv
  <1> SUFFICES ASSUME Init
               PROVE  PairingInv
    OBVIOUS
  <1> USE DEF Init, TokenInit
  <1>1. Columns
    BY ConstantFacts
    DEF Columns, TokenTypeOK, MaybePair, MaybeId, NoToken, NoCall, Call,
        NoFlight,
        Flight, NoRequest, Request
  <1>2. IssueInv
    BY DEF IssueInv, IssuersKnown, CallIssued, NoCall, FlightIssued, NoFlight,
           RequestIssued, NoRequest, NoToken
  <1>3. WaitInv
    BY DEF WaitInv, RefreshedIsNewer, NoCall, HasWaiter, OutlastsExpired,
           NoFlight
  <1>4. PairInv
    <2>1. KnownOnce
      BY ConstantFacts DEF KnownOnce, Knows, NoCall, NoFlight
    <2> QED
      BY <2>1
      DEF PairInv, StoringUnread, Storing, NoFlight, AnswerUnread, Answered,
                  NoRequest
  <1>5. StoredTokensWork
    BY DEF StoredTokensWork
  <1>6. ShopInv
    BY DEF ShopInv, StoringFrom, Storing, NoFlight, AnswerFrom, Answered,
           NoRequest,
           RowIsOneShop, Known, IdsUnique, IdOfGrantor
  <1> QED
    BY <1>1, <1>2, <1>3, <1>4, <1>5, <1>6 DEF PairingInv

(* PairingInv is inductive.                                                *)
THEOREM PairingInvHolds == Spec => []PairingInv
  <1>1. PairingInv /\ [Next]_vars => PairingInv'
    BY TypeStep, IssueStep, WaitStep, PairStep, TokensWorkStep, ShopStep
    DEF PairingInv
  <1> QED
    BY InitInv, <1>1, PTL DEF Spec

(* Every column, map entry and local variable is of its type, and whoever   *)
(* is at work with a token has one that was issued.                        *)
THEOREM PairingTypeCorrect == Spec => []TypeOK
  <1>1. PairingInv => TypeOK
    BY DEF PairingInv, TypeOK
  <1> QED
    BY PairingInvHolds, <1>1, PTL

(* A row's refresh token is good, about to be replaced, or lost with a     *)
(* fault (tokenService.ts of both sides), for any number of processes.     *)
THEOREM StoredTokensWorkHolds == Spec => []StoredTokensWork
  <1>1. PairingInv => StoredTokensWork
    BY DEF PairingInv
  <1> QED
    BY PairingInvHolds, <1>1, PTL

(* Who joins a refresh in flight gets a token that is newer than its own.  *)
THEOREM RefreshedIsNewerHolds == Spec => []RefreshedIsNewer
  <1>1. PairingInv => RefreshedIsNewer
    BY DEF PairingInv, WaitInv
  <1> QED
    BY PairingInvHolds, <1>1, PTL

(* URL, client and tokens of a row are of one shop (attachOxidFromOAuth).  *)
THEOREM RowIsOneShopHolds == Spec => []RowIsOneShop
  <1>1. PairingInv => RowIsOneShop
    BY DEF PairingInv, ShopInv
  <1> QED
    BY PairingInvHolds, <1>1, PTL

(* No two portals have tokens of one shop, if shops report their ids.      *)
THEOREM OneShopOnePortalHolds == Spec => []OneShopOnePortal
  <1>1. PairingInv => OneShopOnePortal
    <2> SUFFICES ASSUME PairingInv, ReportsId, NEW t \in Tenants, NEW u \in Tenants,
                        Known(t), Known(u), Ox(t) \notin crossed,
                        Ox(u) \notin crossed, Grantor(t) = Grantor(u)
                 PROVE  t = u
      BY DEF OneShopOnePortal
    <2>1. shopId[t] = Grantor(t) /\ shopId[u] = Grantor(t)
      BY DEF PairingInv, ShopInv, IdOfGrantor
    <2>2. Grantor(t) \in Sites
      BY DEF PairingInv, IssueInv, IssuersKnown, Grantor, Known, NoToken,
             Columns, TokenTypeOK, MaybePair
    <2> QED
      BY <2>1, <2>2, ConstantFacts DEF PairingInv, ShopInv, IdsUnique
  <1> QED
    BY PairingInvHolds, <1>1, PTL

===============================================================================
