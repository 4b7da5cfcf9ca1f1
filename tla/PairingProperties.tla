--------------------------- MODULE PairingProperties --------------------------
(***************************************************************************)
(* What a tenant's row must be good for, while several processes refresh   *)
(* its tokens and people connect it.                                       *)
(***************************************************************************)
EXTENDS Pairing

Columns ==
  /\ TokenTypeOK
  /\ installed \subseteq Tenants
  /\ shopId \in [Tenants -> MaybeId]
  /\ states \subseteq State
  /\ request \in [Requests -> Request]
  /\ starts \in 0 .. MaxStarts
  /\ restarted \subseteq Tenants

(* Whatever is held somewhere has been issued, by a known site. *)
IssuersKnown == \A n \in 1 .. issued : issuer[n] \in Sites

CallIssued(c) ==
  call[c].phase \in {"decide", "waiting"} =>
    /\ call[c].host \in Processes
    /\ call[c].acct \in Accounts
    /\ call[c].read \in 1 .. issued

FlightIssued(p, a) ==
  flight[p][a].phase # "none" =>
    /\ flight[p][a].read \in 1 .. issued
    /\ flight[p][a].new <= issued
    /\ Asking(p, a) => flight[p][a].new = NoToken
    /\ Storing(p, a) => flight[p][a].new # NoToken

Answered(q) == request[q].phase \in {"check", "attach"}

RequestIssued(q) ==
  request[q].phase # "idle" =>
    /\ request[q].of \in Tenants /\ request[q].shop \in Shops
    /\ request[q].new <= issued
    /\ Answered(q) => request[q].new # NoToken

IssueInv ==
  /\ IssuersKnown
  /\ \A a \in Accounts : token[a] <= issued
  /\ \A c \in Callers : CallIssued(c)
  /\ \A p \in Processes, a \in Accounts : FlightIssued(p, a)
  /\ \A q \in Requests : RequestIssued(q)

(* TypeOK: besides the columns' types, nobody works with a token that is    *)
(* not there: who has passed the check for credentials holds the row's      *)
(* pair, also while a connection has been started (URL and client saved)    *)
(* and the callback is still to come; a refresh has a pair to exchange, and *)
(* something to store once it was answered; so has a callback.             *)
TypeOK == Columns /\ IssueInv

(* StoredTokensWork: a refresh token that its site has replaced is not     *)
(* left in the row: either the refresh that used it is about to store the  *)
(* new one, or the new one was lost between the two (a fault).  So however *)
(* many processes refresh at once, with reads as old as may be, and people *)
(* connect again meanwhile, nobody is locked out.                          *)
StoredTokensWork ==
  \A a \in Accounts : token[a] # NoToken =>
    \/ token[a] \in live \cup wasted
    \/ \E p \in Processes : Storing(p, a) /\ flight[p][a].read = token[a]

(* RefreshedIsNewer: who found its token about to expire waits for an      *)
(* entry of inFlight that is there, and is not given the same token again, *)
(* nor an older one, also when it joins a refresh begun before it came, or *)
(* one that has already stored its pair.                                   *)
RefreshedIsNewer ==
  \A c \in Callers : call[c].phase = "waiting" =>
    LET f == flight[call[c].host][call[c].acct]
    IN /\ f.phase # "none"
       /\ f.new # NoToken => f.new > call[c].read

Known(t) == Ox(t) \in Accounts /\ token[Ox(t)] # NoToken
Grantor(t) == issuer[token[Ox(t)]]

(* RowIsOneShop: base URL, client credentials and tokens of a row are of   *)
(* one shop, unless a connection was started and not completed, or a       *)
(* refresh overtaken by a callback put the older shop's tokens back.       *)
RowIsOneShop ==
  \A t \in Tenants :
    Known(t) /\ t \notin restarted /\ Ox(t) \notin crossed
      => Grantor(t) = at[t]

(* OneShopOnePortal: no two portals hold tokens of one shop, provided that *)
(* shops report their id; also while callbacks of both are between their   *)
(* conflict check and their update, and refreshes of either are under way. *)
OneShopOnePortal ==
  ReportsId =>
    \A t, u \in Tenants :
      Known(t) /\ Known(u) /\ Ox(t) \notin crossed /\ Ox(u) \notin crossed
        /\ Grantor(t) = Grantor(u) => t = u

-----------------------------------------------------------------------------
(* The inductive invariants behind them.                                   *)

(* A refresh has someone who waits for it, so that nothing expires that is *)
(* as new as its pair. *)
Waits(c, p, a) ==
  call[c].phase = "waiting" /\ call[c].host = p /\ call[c].acct = a

HasWaiter(p, a) ==
  flight[p][a].phase # "none" => \E c \in Callers : Waits(c, p, a)

OutlastsExpired(p, a) ==
  flight[p][a].phase # "none" /\ flight[p][a].new # NoToken =>
    \A n \in expired : flight[p][a].new > n

WaitInv ==
  /\ RefreshedIsNewer
  /\ \A p \in Processes, a \in Accounts : HasWaiter(p, a) /\ OutlastsExpired(p, a)

(* Who can send pair n to a site as a's: the row, or who has read it. *)
Knows(a, n) ==
  \/ token[a] = n
  \/ \E c \in Callers : call[c].phase \in {"decide", "waiting"}
                          /\ call[c].acct = a /\ call[c].read = n
  \/ \E p \in Processes : flight[p][a].phase # "none" /\ flight[p][a].read = n

Unread(n) == n \in live /\ \A a \in Accounts : ~Knows(a, n)

KnownOnce ==
  \A a, b \in Accounts, n \in Pairs : Knows(a, n) /\ Knows(b, n) => a = b

StoringUnread(p, a) ==
  Storing(p, a) =>
    /\ Unread(flight[p][a].new)
    /\ \A r \in Processes, b \in Accounts :
         Storing(r, b) /\ flight[r][b].new = flight[p][a].new => r = p /\ b = a
    /\ \A q \in Requests : Answered(q) => request[q].new # flight[p][a].new

AnswerUnread(q) ==
  Answered(q) =>
    /\ Unread(request[q].new)
    /\ \A r \in Requests :
         Answered(r) /\ request[r].new = request[q].new => r = q

(* No pair serves two accounts, and one that is on its way into a row is   *)
(* known to nobody else, hence not replaced. *)
PairInv ==
  /\ KnownOnce
  /\ \A p \in Processes, a \in Accounts : StoringUnread(p, a)
  /\ \A q \in Requests : AnswerUnread(q)

(* Pairs come from the site they were asked of; with ids from the shops,   *)
(* a row has the id of the shop that issued its pair. *)
StoringFrom(p, a) ==
  Storing(p, a) =>
    /\ issuer[flight[p][a].read] = flight[p][a].from
    /\ issuer[flight[p][a].new] = flight[p][a].from

AnswerFrom(q) ==
  Answered(q) =>
    /\ issuer[request[q].new] = request[q].shop
    /\ ReportsId => request[q].id = request[q].shop

IdsUnique ==
  \A t, u \in Tenants : shopId[t] = shopId[u] /\ shopId[t] # None => t = u

IdOfGrantor ==
  ReportsId =>
    \A t \in Tenants :
      Known(t) /\ Ox(t) \notin crossed => Grantor(t) = shopId[t]

ShopInv ==
  /\ \A p \in Processes, a \in Accounts : StoringFrom(p, a)
  /\ \A q \in Requests : AnswerFrom(q)
  /\ RowIsOneShop
  /\ IdsUnique
  /\ IdOfGrantor

PairingInv ==
  Columns /\ IssueInv /\ WaitInv /\ PairInv /\ StoredTokensWork /\ ShopInv
=============================================================================
