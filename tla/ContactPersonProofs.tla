-------------------------- MODULE ContactPersonProofs --------------------------
(***************************************************************************)
(* While nobody changes an email or deletes a record, the rows of the      *)
(* mapping table are each of one person, and in the end complete and one   *)
(* per person: for any number of workers, records, edits and failures.     *)
(*                                                                         *)
(* A person is an email then, and what the mapping rows and the workers    *)
(* hold belongs to one person each.  The operators of the invariant take   *)
(* the stores (H, S) and the table (t) as parameters, so that they can     *)
(* speak of both ends of a step.                                           *)
(***************************************************************************)
EXTENDS ContactSyncProofs, FiniteSetTheorems

Steady ==
  Kinds \cap {"hubMail", "hubDelete", "shopMail", "shopDelete"} = {}

There(record) == record \notin {None, Gone}

HubOf(H, m, h) == h \in HubIds /\ There(H[h]) /\ H[h].mail = m
ShopOf(S, m, u) == u \in ShopIds /\ There(S[u]) /\ S[u].mail = m

(* The keys k (of a row, a snapshot or a link) are those of person m.      *)
KeysOf(H, S, m, k) ==
  /\ k.hub # None => HubOf(H, m, k.hub)
  /\ k.mail \in {None, m}
  /\ k.ox # None => ShopOf(S, m, k.ox)

Keyed(k) == k.hub # None \/ k.mail # None

(* One contact per email, and it carries the id of its own shop user.      *)
OneEach(H, S) ==
  /\ \A h, g \in HubIds : \A m \in Mails :
       HubOf(H, m, h) /\ HubOf(H, m, g) => h = g
  /\ \A h \in HubIds :
       There(H[h]) /\ H[h].ox # None => ShopOf(S, H[h].mail, H[h].ox)

UniqueKeys(t) ==
  \A r, s \in Live(t) : \A col \in Columns :
    t[r][col] # None /\ t[r][col] = t[s][col] => r = s

PersonRows(H, S, t) ==
  \A r \in Live(t) : Keyed(t[r]) /\ \E m \in Mails : KeysOf(H, S, m, t[r])

Complete(t, m) == \E r \in Live(t) : t[r].mail = m /\ t[r].hub # None

(* A job speaks of a contact that is there, or of the record of a person.  *)
PersonJob(H, S, j) ==
  IF j.side = "hub" THEN j.id \in HubIds /\ There(H[j.id])
  ELSE /\ j.body # Gone
       /\ j.body.mail = j.id
       /\ j.body.ox # None => ShopOf(S, j.id, j.body.ox)

(* A worker past hydrate holds keys of the person of its contact; what it  *)
(* saw with a hash, and what it has linked, is a row with both keys.       *)
PersonHand(w) ==
  LET m == contact[w].mail
  IN /\ IF FromHub(w) THEN HubOf(hub, m, job[w].id) ELSE job[w].id = m
     /\ contact[w].ox # None => ShopOf(shop, m, contact[w].ox)
     /\ row[w] \in Live(rows) => KeysOf(hub, shop, m, rows[row[w]])
     /\ phase[w] \in {"merge", "absorb"} =>
          /\ other[w] <= made
          /\ other[w] \in Live(rows) => KeysOf(hub, shop, m, rows[other[w]])
     /\ KeysOf(hub, shop, m, snap[w])
     /\ KeysOf(hub, shop, m, link[w])
     /\ phase[w] = "updateHub" => HubOf(hub, m, dest[w])
     /\ snap[w].hash # None \/ phase[w] \in {"record", "finish"} =>
          Complete(rows, m)

PersonWorker(w) ==
  /\ phase[w] = "idle" => job[w] = NoJob
  /\ phase[w] # "idle" => PersonJob(hub, shop, job[w])
  /\ phase[w] \in {"idle", "hydrate", "findFirst"} =>
       snap[w] = BlankRow /\ link[w] = NoLink
  /\ phase[w] \notin {"idle", "hydrate"} => PersonHand(w)

(* A job of this key waits, was given up or is in work (J, F and W).       *)
OpenIn(J, F, W, side, id) ==
  \/ \E j \in J \cup F : j.side = side /\ j.id = id
  \/ \E w \in Workers : W[w].side = side /\ W[w].id = id

Open(side, id) == OpenIn(jobs, failed, job, side, id)

(* Every contact with an email has a row, and every row both keys, or a    *)
(* job is there to see to it.                                              *)
ContactsOpen ==
  \A h \in HubIds :
    There(hub[h]) /\ hub[h].mail # None =>
      Open("hub", h) \/ \E r \in Live(rows) : rows[r].hub = h

RowsOpen ==
  \A r \in Live(rows) :
    /\ rows[r].mail = None => Open("hub", rows[r].hub)
    /\ rows[r].hub = None => Open("shop", rows[r].mail)

PersonInv ==
  /\ OneEach(hub, shop)
  /\ UniqueKeys(rows)
  /\ PersonRows(hub, shop, rows)
  /\ \A j \in jobs : PersonJob(hub, shop, j)
  /\ \A w \in Workers : PersonWorker(w)
  /\ ContactsOpen
  /\ RowsOpen

-----------------------------------------------------------------------------
(* Persons.                                                                *)

StoresGrow(H, S, G, T) ==
  /\ \A h \in HubIds : There(H[h]) => There(G[h]) /\ G[h].mail = H[h].mail
  /\ \A u \in ShopIds : There(S[u]) => There(T[u]) /\ T[u].mail = S[u].mail

(* Keys stay those of their person. *)
LEMMA KeysGrow ==
  ASSUME NEW H, NEW S, NEW G, NEW T, StoresGrow(H, S, G, T)
  PROVE  /\ \A m, h : HubOf(H, m, h) => HubOf(G, m, h)
         /\ \A m, u : ShopOf(S, m, u) => ShopOf(T, m, u)
         /\ \A m, k : KeysOf(H, S, m, k) => KeysOf(G, T, m, k)
         /\ \A j : PersonJob(H, S, j) => PersonJob(G, T, j)
  <1>1. /\ \A m, h : HubOf(H, m, h) => HubOf(G, m, h)
        /\ \A m, u : ShopOf(S, m, u) => ShopOf(T, m, u)
    BY DEF StoresGrow, HubOf, ShopOf
  <1>2. \A m, k : KeysOf(H, S, m, k) => KeysOf(G, T, m, k)
    BY <1>1 DEF KeysOf
  <1>3. \A j : PersonJob(H, S, j) => PersonJob(G, T, j)
    BY <1>1 DEF PersonJob, StoresGrow
  <1> QED
    BY <1>1, <1>2, <1>3

LEMMA SameStoresGrow ==
  ASSUME NEW H, NEW S
  PROVE  StoresGrow(H, S, H, S)
  BY DEF StoresGrow

(* A key tells the person. *)
LEMMA KeysOnce ==
  ASSUME NEW H, NEW S, NEW m, NEW n, NEW k,
         KeysOf(H, S, m, k), KeysOf(H, S, n, k),
         Keyed(k) \/ k.ox # None
  PROVE  m = n
  BY DEF KeysOf, Keyed, HubOf, ShopOf

LEMMA NoKeys ==
  ASSUME NEW H, NEW S, NEW m
  PROVE  KeysOf(H, S, m, NoLink) /\ KeysOf(H, S, m, BlankRow)
  BY DEF KeysOf, NoLink, BlankRow

(* Two sets of keys of one person, put together. *)
LEMMA KeysElse ==
  ASSUME NEW H, NEW S, NEW m, NEW a, NEW b, NEW k,
         KeysOf(H, S, m, a), KeysOf(H, S, m, b),
         k.hub = Else(a.hub, b.hub), k.mail = Else(a.mail, b.mail),
         k.ox = Else(a.ox, b.ox)
  PROVE  KeysOf(H, S, m, k)
  BY DEF KeysOf, Else

-----------------------------------------------------------------------------
(* Statements on the table, for the rows of person m.                      *)

(* From t to u no row changes its person, no person loses a row, and none  *)
(* that has both keys loses one.                                           *)
Moves(H, S, t, u) ==
  /\ UniqueKeys(u)
  /\ PersonRows(H, S, u)
  /\ \A r \in Live(t) \cap Live(u) : \A m \in Mails :
       KeysOf(H, S, m, t[r]) => KeysOf(H, S, m, u[r])
  /\ \A m \in Mails : Complete(t, m) => Complete(u, m)
  /\ \A r \in Live(t) :
       t[r].hub # None => \E s \in Live(u) : u[s].hub = t[r].hub
  /\ \A r \in Live(t) \cap Live(u) :
       /\ u[r].mail = None =>
            \E s \in Live(t) : t[s].mail = None /\ t[s].hub = u[r].hub
       /\ u[r].hub = None =>
            \E s \in Live(t) : t[s].hub = None /\ t[s].mail = u[r].mail

LEMMA SameMoves ==
  ASSUME NEW H, NEW S, NEW t, UniqueKeys(t), PersonRows(H, S, t)
  PROVE  Moves(H, S, t, t)
  BY DEF Moves

(* updateMany, of keys that clash with no other row. *)
LEMMA UpdateMoves ==
  ASSUME NEW H, NEW S, OneEach(H, S),
         NEW t \in Tables, UniqueKeys(t), PersonRows(H, S, t),
         NEW m \in Mails, NEW values \in Link, KeysOf(H, S, m, values),
         NEW r, r \in Live(t) => /\ KeysOf(H, S, m, t[r])
                                 /\ ~Clashes(t, r, values)
  PROVE  Moves(H, S, t, Update(t, r, values))
  <1> DEFINE u == Update(t, r, values)
  <1>1. CASE r \notin Live(t)
    <2>1. u = t
      BY <1>1 DEF Update
    <2> QED
      BY <2>1, SameMoves
  <1>2. CASE r \in Live(t)
    <2> DEFINE new == [hub |-> Else(values.hub, t[r].hub),
                       mail |-> Else(values.mail, t[r].mail),
                       ox |-> Else(values.ox, t[r].ox),
                       hash |-> t[r].hash]
    <2>1. /\ r \in RowIds /\ t[r] \in Row
          /\ t[r].hub \in Maybe(HubIds) /\ t[r].mail \in Maybe(Mails)
          /\ t[r].ox \in Maybe(ShopIds) /\ t[r].hash \in Maybe(Contact)
      BY <1>2, RowFields
    <2>2. /\ values.hub \in Maybe(HubIds) /\ values.mail \in Maybe(Mails)
          /\ values.ox \in Maybe(ShopIds)
      BY DEF Link
    <2>3. new \in Row /\ new # None
      BY <2>1, <2>2, ElseFacts, NoneIsNoRow DEF Row
    <2>4. KeysOf(H, S, m, t[r]) /\ Keyed(t[r]) /\ KeysOf(H, S, m, new)
      BY <1>2, KeysElse DEF PersonRows
    <2>5. u = [t EXCEPT ![r] = new]
      BY <1>2 DEF Update
    <2>6. /\ new.hub = Else(values.hub, t[r].hub)
          /\ new.mail = Else(values.mail, t[r].mail)
          /\ new.ox = Else(values.ox, t[r].ox)
      OBVIOUS
    <2>7. \A col \in Columns : new[col] = Else(values[col], t[r][col])
      BY DEF Columns
    <2> HIDE DEF new, u
    <2>8. u[r] = new /\ \A s \in RowIds \ {r} : u[s] = t[s]
      BY <2>1, <2>5 DEF Tables
    <2>9. Live(u) = Live(t) /\ \A s \in Live(t) : s # r => u[s] = t[s]
      BY <1>2, <2>3, <2>8 DEF Live
    <2>10. ASSUME NEW s \in Live(t), s # r, NEW col \in Columns,
                  new[col] # None
           PROVE  new[col] # t[s][col]
      <3>1. CASE values[col] = None
        BY <1>2, <2>7, <2>10, <3>1 DEF Else, UniqueKeys
      <3>2. CASE values[col] # None
        <4>1. s \notin Owners(t, col, values[col])
          BY <1>2, <2>10 DEF Clashes
        <4> QED
          BY <2>7, <2>10, <3>2, <4>1 DEF Else, Owners
      <3> QED
        BY <3>1, <3>2
    <2>11. UniqueKeys(u)
      BY <2>8, <2>9, <2>10 DEF UniqueKeys
    <2>12. Keyed(new)
      BY <2>4, <2>6 DEF Keyed, Else
    <2>13. PersonRows(H, S, u)
      BY <2>4, <2>8, <2>9, <2>12 DEF PersonRows
    <2>14. ASSUME NEW s \in Live(t), NEW n \in Mails, KeysOf(H, S, n, t[s])
           PROVE  KeysOf(H, S, n, u[s])
      BY <2>4, <2>8, <2>9, <2>14, KeysOnce
    <2>15. /\ t[r].hub # None => new.hub = t[r].hub
           /\ t[r].mail # None => new.mail = m /\ t[r].mail = m
           /\ new.hub = None => t[r].hub = None
           /\ new.mail = None => t[r].mail = None
      BY <2>4, <2>6 DEF Else, KeysOf, OneEach, HubOf
    <2>16. \A n \in Mails : Complete(t, n) => Complete(u, n)
      <3>1. SUFFICES ASSUME NEW n \in Mails, NEW s \in Live(t),
                            t[s].mail = n, t[s].hub # None
                     PROVE  u[s].mail = n /\ u[s].hub # None
        BY <2>9 DEF Complete
      <3>2. n # None
        BY ConstantFacts
      <3> QED
        BY <2>8, <2>9, <2>15, <3>1, <3>2
    <2>17. \A s \in Live(t) : t[s].hub # None => u[s].hub = t[s].hub
      BY <2>8, <2>9, <2>15
    <2>18. ASSUME NEW s \in Live(t)
           PROVE  /\ u[s].mail = None => t[s].mail = None /\ t[s].hub = u[s].hub
                  /\ u[s].hub = None => t[s].hub = None /\ t[s].mail = u[s].mail
      <3>1. CASE s = r
        BY <2>4, <2>8, <2>15, <3>1 DEF Keyed
      <3> QED
        BY <2>9, <3>1
    <2> QED
      BY <2>9, <2>11, <2>13, <2>14, <2>16, <2>17, <2>18 DEF Moves, u
  <1> QED
    BY <1>1, <1>2

(* mergeMappings, of two rows of one person. *)
LEMMA MergeMoves ==
  ASSUME NEW H, NEW S, OneEach(H, S),
         NEW t \in Tables, UniqueKeys(t), PersonRows(H, S, t),
         NEW m \in Mails, NEW keep \in Live(t), NEW absorb \in Live(t),
         keep # absorb, KeysOf(H, S, m, t[keep]), KeysOf(H, S, m, t[absorb])
  PROVE  /\ Moves(H, S, t, Merge(t, keep, absorb))
         /\ KeysOf(H, S, m, Merge(t, keep, absorb)[keep])
  <1> DEFINE u == Merge(t, keep, absorb)
             a == t[keep]
             b == t[absorb]
             new == [hub |-> Else(a.hub, b.hub), mail |-> Else(a.mail, b.mail),
                     ox |-> Else(a.ox, b.ox), hash |-> Else(a.hash, b.hash)]
  <1>1. /\ keep \in RowIds
        /\ a.hub \in Maybe(HubIds) /\ a.mail \in Maybe(Mails)
        /\ a.ox \in Maybe(ShopIds) /\ a.hash \in Maybe(Contact)
    BY RowFields
  <1>2. /\ absorb \in RowIds
        /\ b.hub \in Maybe(HubIds) /\ b.mail \in Maybe(Mails)
        /\ b.ox \in Maybe(ShopIds) /\ b.hash \in Maybe(Contact)
    BY RowFields
  <1>3. new \in Row /\ new # None
    BY <1>1, <1>2, ElseFacts, NoneIsNoRow DEF Row
  <1>4. KeysOf(H, S, m, a) /\ KeysOf(H, S, m, b) /\ Keyed(a) /\ Keyed(b)
        /\ KeysOf(H, S, m, new)
    BY KeysElse DEF PersonRows
  <1>5. u = [t EXCEPT ![keep] = new, ![absorb] = None]
    BY DEF Merge
  <1>6. /\ new.hub = Else(a.hub, b.hub) /\ new.mail = Else(a.mail, b.mail)
        /\ \A col \in Columns : new[col] = Else(a[col], b[col])
    BY DEF Columns
  <1> HIDE DEF new, u
  <1>7. /\ u[keep] = new /\ u[absorb] = None
        /\ \A s \in RowIds \ {keep, absorb} : u[s] = t[s]
    BY <1>1, <1>2, <1>5 DEF Tables
  <1>8. /\ Live(u) = Live(t) \ {absorb} /\ keep \in Live(u)
        /\ \A s \in Live(u) : s # keep => u[s] = t[s]
    BY <1>1, <1>2, <1>3, <1>7 DEF Live
  <1>9. UniqueKeys(u)
    <2>1. ASSUME NEW s \in Live(u), s # keep, NEW col \in Columns,
                 new[col] # None
          PROVE  new[col] # u[s][col]
      BY <1>6, <1>8, <2>1 DEF UniqueKeys, Else
    <2> QED
      BY <1>7, <1>8, <2>1 DEF UniqueKeys
  <1>10. Keyed(new)
    BY <1>4, <1>6 DEF Keyed, Else
  <1>11. PersonRows(H, S, u)
    BY <1>4, <1>7, <1>8, <1>10 DEF PersonRows
  <1>12. ASSUME NEW s \in Live(u), NEW n \in Mails, KeysOf(H, S, n, t[s])
         PROVE  KeysOf(H, S, n, u[s])
    BY <1>4, <1>7, <1>8, <1>12, KeysOnce
  <1>13. /\ \A k \in {a, b} : /\ k.hub # None => new.hub = k.hub
                              /\ k.mail # None => new.mail = m /\ k.mail = m
         /\ new.hub = None => a.hub = None /\ b.hub = None
         /\ new.mail = None => a.mail = None /\ b.mail = None
    BY <1>4, <1>6 DEF Else, KeysOf, OneEach, HubOf
  <1>14. \A n \in Mails : Complete(t, n) => Complete(u, n)
    <2>1. SUFFICES ASSUME NEW n \in Mails, NEW s \in Live(t),
                          t[s].mail = n, t[s].hub # None
                   PROVE  \E r \in Live(u) : u[r].mail = n /\ u[r].hub # None
      BY DEF Complete
    <2>2. n # None
      BY ConstantFacts
    <2>3. CASE s \in {keep, absorb}
      BY <1>7, <1>8, <1>13, <2>1, <2>2, <2>3
    <2>4. CASE s \notin {keep, absorb}
      BY <1>8, <2>1, <2>4
    <2> QED
      BY <2>3, <2>4
  <1>15. \A s \in Live(t) :
           t[s].hub # None => \E r \in Live(u) : u[r].hub = t[s].hub
    <2>1. SUFFICES ASSUME NEW s \in Live(t), t[s].hub # None
                   PROVE  \E r \in Live(u) : u[r].hub = t[s].hub
      OBVIOUS
    <2>2. CASE s \in {keep, absorb}
      BY <1>7, <1>8, <1>13, <2>1, <2>2
    <2>3. CASE s \notin {keep, absorb}
      BY <1>8, <2>3
    <2> QED
      BY <2>2, <2>3
  <1>16. ASSUME NEW s \in Live(u)
         PROVE  /\ u[s].mail = None =>
                     \E r \in Live(t) : t[r].mail = None /\ t[r].hub = u[s].hub
                /\ u[s].hub = None =>
                     \E r \in Live(t) : t[r].hub = None /\ t[r].mail = u[s].mail
    <2>1. CASE s = keep
      <3>1. u[s].mail = None => a.mail = None /\ a.hub = new.hub
        BY <1>4, <1>7, <1>13, <2>1 DEF Keyed
      <3>2. u[s].hub = None => a.hub = None /\ a.mail = new.mail
        BY <1>4, <1>7, <1>13, <2>1 DEF Keyed
      <3> QED
        BY <1>7, <2>1, <3>1, <3>2
    <2>2. CASE s # keep
      BY <1>8, <2>2
    <2> QED
      BY <2>1, <2>2
  <1> QED
    BY <1>4, <1>7, <1>8, <1>9, <1>11, <1>12, <1>14, <1>15, <1>16 DEF Moves, u

Added(t, r, values) == [t EXCEPT ![r] = NewRow(values)]

(* create, of a key that clashes with no row. *)
LEMMA InsertMoves ==
  ASSUME NEW H, NEW S,
         NEW t \in Tables, UniqueKeys(t), PersonRows(H, S, t),
         NEW m \in Mails, NEW values \in Link, KeysOf(H, S, m, values),
         Keyed(values), ~Clashes(t, NoRow, values),
         NEW r \in RowIds, r \notin Live(t)
  PROVE  LET u == Added(t, r, values)
         IN /\ Moves(H, S, t, u) /\ Live(u) = Live(t) \cup {r}
            /\ u[r] = NewRow(values) /\ KeysOf(H, S, m, NewRow(values))
  <1> DEFINE u == Added(t, r, values)
             new == NewRow(values)
  <1>1. /\ new \in Row /\ KeysOf(H, S, m, new) /\ Keyed(new)
        /\ \A col \in Columns : new[col] = values[col]
    BY DEF NewRow, Link, Row, Maybe, KeysOf, Keyed, Columns
  <1>2. new # None
    BY <1>1, NoneIsNoRow
  <1>3. u[r] = new /\ \A s \in RowIds \ {r} : u[s] = t[s]
    BY DEF Tables, Added
  <1> HIDE DEF u, new
  <1>4. Live(u) = Live(t) \cup {r} /\ \A s \in Live(t) : u[s] = t[s]
    BY <1>2, <1>3 DEF Live
  <1>5. ASSUME NEW s \in Live(t), NEW col \in Columns, new[col] # None
        PROVE  new[col] # t[s][col]
    <2>1. s # NoRow
      BY DEF Live, RowIds, NoRow
    <2>2. s \notin Owners(t, col, values[col])
      BY <2>1 DEF Clashes
    <2> QED
      BY <1>1, <1>5, <2>2 DEF Owners
  <1>6. UniqueKeys(u)
    BY <1>3, <1>4, <1>5 DEF UniqueKeys
  <1>7. PersonRows(H, S, u)
    BY <1>1, <1>3, <1>4 DEF PersonRows
  <1>8. Moves(H, S, t, u)
    BY <1>4, <1>6, <1>7 DEF Moves, Complete
  <1> QED
    BY <1>1, <1>3, <1>4, <1>8 DEF u, new

(* recordSync leaves the keys as they are. *)
LEMMA RecordMoves ==
  ASSUME NEW H, NEW S, NEW t \in Tables, UniqueKeys(t), PersonRows(H, S, t),
         NEW r, NEW c \in Contact
  PROVE  Moves(H, S, t, Record(t, r, c))
  <1> DEFINE u == Record(t, r, c)
  <1>1. CASE r \notin Live(t)
    BY <1>1, SameMoves DEF Record
  <1>2. CASE r \in Live(t)
    <2> DEFINE new == [t[r] EXCEPT !.hash = c]
    <2>1. r \in RowIds /\ t[r] \in Row
      BY <1>2, RowFields
    <2>2. /\ new \in Row /\ new.hub = t[r].hub /\ new.mail = t[r].mail
          /\ new.ox = t[r].ox
      BY <2>1 DEF Row, Maybe
    <2>3. u = [t EXCEPT ![r] = new] /\ new # None
      BY <1>2, <2>2, NoneIsNoRow DEF Record
    <2> HIDE DEF new, u
    <2>4. u[r] = new /\ \A s \in RowIds \ {r} : u[s] = t[s]
      BY <2>1, <2>3 DEF Tables
    <2>5. Live(u) = Live(t)
      BY <2>1, <2>3, <2>4, <1>2 DEF Live
    <2>6. \A s \in Live(t) : /\ u[s].hub = t[s].hub /\ u[s].mail = t[s].mail
                             /\ u[s].ox = t[s].ox
      BY <2>2, <2>4 DEF Live
    <2>7. \A s \in Live(t) : \A n :
            KeysOf(H, S, n, u[s]) <=> KeysOf(H, S, n, t[s])
      BY <2>6 DEF KeysOf
    <2>8. UniqueKeys(u) /\ PersonRows(H, S, u)
      <3>1. UniqueKeys(u)
        BY <2>5, <2>6 DEF UniqueKeys, Columns
      <3>2. PersonRows(H, S, u)
        BY <2>5, <2>6, <2>7 DEF PersonRows, Keyed
      <3> QED
        BY <3>1, <3>2
    <2> QED
      BY <2>5, <2>6, <2>7, <2>8 DEF Moves, Complete, u
  <1> QED
    BY <1>1, <1>2

-----------------------------------------------------------------------------
(* What a step leaves of the persons.                                      *)

Grow ==
  /\ StoresGrow(hub, shop, hub', shop')
  /\ OneEach(hub', shop')
  /\ UniqueKeys(rows')
  /\ PersonRows(hub', shop', rows')
  /\ \A r \in Live(rows) \cap Live(rows') : \A m \in Mails :
       KeysOf(hub, shop, m, rows[r]) => KeysOf(hub', shop', m, rows'[r])
  /\ \A m \in Mails : Complete(rows, m) => Complete(rows', m)
  /\ \A r \in Live(rows) :
       rows[r].hub # None => \E s \in Live(rows') : rows'[s].hub = rows[r].hub
  /\ \A r \in Live(rows) \cap Live(rows') :
       /\ rows'[r].mail = None =>
            \E s \in Live(rows) : rows[s].mail = None /\ rows[s].hub = rows'[r].hub
       /\ rows'[r].hub = None =>
            \E s \in Live(rows) : rows[s].hub = None /\ rows[s].mail = rows'[r].mail

LEMMA GrowByTable ==
  ASSUME PersonInv, UNCHANGED storeVars, Moves(hub, shop, rows, rows')
  PROVE  Grow
  <1>1. hub' = hub /\ shop' = shop
    BY DEF storeVars
  <1>2. StoresGrow(hub, shop, hub', shop') /\ OneEach(hub', shop')
    BY <1>1, SameStoresGrow DEF PersonInv
  <1> QED
    BY <1>1, <1>2 DEF Grow, Moves

LEMMA GrowByStores ==
  ASSUME PersonInv, rows' = rows, StoresGrow(hub, shop, hub', shop'),
         OneEach(hub', shop')
  PROVE  Grow
  <1>1. \A m, k : KeysOf(hub, shop, m, k) => KeysOf(hub', shop', m, k)
    BY KeysGrow
  <1>2. UniqueKeys(rows') /\ PersonRows(hub', shop', rows')
    BY <1>1 DEF PersonInv, PersonRows
  <1> QED
    BY <1>1, <1>2 DEF Grow

LEMMA GrowBySame ==
  ASSUME PersonInv, UNCHANGED storeVars, rows' = rows
  PROVE  Grow
  BY SameMoves, GrowByTable DEF PersonInv

(* The email of the contact that a worker has in hand is a person. *)
LEMMA HandFacts ==
  ASSUME SyncInv, PersonInv, NEW w \in Workers,
         phase[w] \notin {"idle", "hydrate"}
  PROVE  /\ PersonHand(w)
         /\ contact[w].mail \in Mails /\ contact[w].mail # None
         /\ contact[w] \in Contact /\ job[w] \in Job
         /\ row[w] \in Nat /\ row[w] <= made /\ made \in Nat
  <1>1. /\ contact[w].mail # None /\ contact[w].mail \in Maybe(Mails)
        /\ contact[w] \in Contact /\ job[w] \in Job
    BY MiddleFacts
  <1>2. row[w] \in Nat /\ row[w] <= made /\ made \in Nat
    BY ConstantFacts
    DEF SyncInv, TypeOK, LocalsOK, TableOK, WorkerInv, Locals, RowIds, NoRow
  <1> QED
    BY <1>1, <1>2 DEF PersonInv, PersonWorker, Maybe

(* A row that was there keeps its person. *)
LEMMA RowStays ==
  ASSUME Grow, RowsGrow, NEW m \in Mails, NEW r \in Nat, r <= made,
         made \in Nat, r \in Live(rows) => KeysOf(hub, shop, m, rows[r]),
         r \in Live(rows')
  PROVE  KeysOf(hub', shop', m, rows'[r])
  <1>1. r \in Live(rows)
    BY DEF RowsGrow
  <1> QED
    BY <1>1 DEF Grow

LEMMA OtherFacts ==
  ASSUME SyncInv, NEW w \in Workers
  PROVE  other[w] \in Nat /\ made \in Nat
  BY ConstantFacts DEF SyncInv, TypeOK, LocalsOK, TableOK, RowIds, NoRow

LEMMA PersonStays ==
  ASSUME SyncInv, PersonInv, Grow, RowsGrow, made' \in Nat,
         NEW v \in Workers, SameAt(v)
  PROVE  PersonWorker(v)'
  <1>1. PersonWorker(v)
    BY DEF PersonInv
  <1>2. phase'[v] # "idle" => PersonJob(hub', shop', job'[v])
    BY <1>1, KeysGrow DEF PersonWorker, SameAt, Grow
  <1>3. ASSUME phase[v] \notin {"idle", "hydrate"}
        PROVE  PersonHand(v)'
    <2> DEFINE m == contact[v].mail
    <2>1. /\ PersonHand(v) /\ m \in Mails /\ row[v] \in Nat /\ row[v] <= made
          /\ made \in Nat /\ other[v] \in Nat
      BY <1>3, HandFacts, OtherFacts
    <2>2. /\ IF FromHub(v) THEN HubOf(hub', m, job[v].id) ELSE job[v].id = m
          /\ contact[v].ox # None => ShopOf(shop', m, contact[v].ox)
          /\ KeysOf(hub', shop', m, snap[v]) /\ KeysOf(hub', shop', m, link[v])
          /\ phase[v] = "updateHub" => HubOf(hub', m, dest[v])
      BY <2>1, KeysGrow DEF Grow, PersonHand
    <2>3. row[v] \in Live(rows') => KeysOf(hub', shop', m, rows'[row[v]])
      BY <2>1, RowStays DEF PersonHand
    <2>4. phase[v] \in {"merge", "absorb"} =>
            /\ other[v] <= made'
            /\ other[v] \in Live(rows') => KeysOf(hub', shop', m, rows'[other[v]])
      BY <2>1, RowStays DEF PersonHand, RowsGrow
    <2>5. snap[v].hash # None \/ phase[v] \in {"record", "finish"} =>
            Complete(rows', m)
      BY <2>1 DEF PersonHand, Grow
    <2> QED
      BY <2>2, <2>3, <2>4, <2>5 DEF PersonHand, SameAt, FromHub
  <1> QED
    BY <1>1, <1>2, <1>3 DEF PersonWorker, SameAt

(* A worker that goes on with its contact. *)
LEMMA HandStep ==
  ASSUME SyncInv, PersonInv, NEW w \in Workers, Grow,
         phase[w] \notin {"idle", "hydrate"},
         contact'[w] = contact[w], job'[w] = job[w],
         phase'[w] \notin {"idle", "hydrate", "findFirst"},
         NEW m, m = contact[w].mail,
         row'[w] \in Live(rows') => KeysOf(hub', shop', m, rows'[row'[w]]),
         phase'[w] \in {"merge", "absorb"} =>
           /\ other'[w] <= made'
           /\ other'[w] \in Live(rows') =>
                KeysOf(hub', shop', m, rows'[other'[w]]),
         KeysOf(hub', shop', m, snap'[w]), KeysOf(hub', shop', m, link'[w]),
         phase'[w] = "updateHub" => HubOf(hub', m, dest'[w]),
         snap'[w].hash # None \/ phase'[w] \in {"record", "finish"} =>
           Complete(rows', m)
  PROVE  PersonWorker(w)'
  <1>1. PersonWorker(w) /\ PersonHand(w)
    BY HandFacts DEF PersonInv
  <1>2. PersonJob(hub', shop', job'[w])
    BY <1>1, KeysGrow DEF PersonWorker, Grow
  <1>3. /\ IF FromHub(w) THEN HubOf(hub', m, job'[w].id) ELSE job'[w].id = m
        /\ contact'[w].ox # None => ShopOf(shop', m, contact'[w].ox)
    BY <1>1, KeysGrow DEF PersonHand, Grow
  <1>4. PersonHand(w)'
    BY <1>3 DEF PersonHand, FromHub
  <1> QED
    BY <1>2, <1>4 DEF PersonWorker

-----------------------------------------------------------------------------
(* Open jobs.                                                              *)

(* What was open stays so, or the person has a complete row now. *)
OpenStays ==
  \A m \in Mails :
    /\ \A h : HubOf(hub, m, h) /\ OpenIn(jobs, failed, job, "hub", h) =>
         OpenIn(jobs', failed', job', "hub", h) \/ Complete(rows', m)
    /\ OpenIn(jobs, failed, job, "shop", m) =>
         OpenIn(jobs', failed', job', "shop", m) \/ Complete(rows', m)

NewAreOpen ==
  /\ \A h \in HubIds :
       There(hub'[h]) /\ hub'[h].mail # None /\ ~There(hub[h]) =>
         OpenIn(jobs', failed', job', "hub", h)
  /\ \A r \in Live(rows') \ Live(rows) :
       /\ rows'[r].mail = None =>
            OpenIn(jobs', failed', job', "hub", rows'[r].hub)
       /\ rows'[r].hub = None =>
            OpenIn(jobs', failed', job', "shop", rows'[r].mail)

(* A complete row of a person is the row of their contact. *)
LEMMA CompleteRow ==
  ASSUME NEW H, NEW S, NEW t, OneEach(H, S), PersonRows(H, S, t),
         NEW m \in Mails, Complete(t, m), NEW h, HubOf(H, m, h)
  PROVE  \E r \in Live(t) : t[r].hub = h /\ t[r].mail = m
  <1>1. PICK r \in Live(t) : t[r].mail = m /\ t[r].hub # None
    BY DEF Complete
  <1>2. PICK n \in Mails : KeysOf(H, S, n, t[r])
    BY DEF PersonRows
  <1>3. n = m
    BY <1>1, <1>2, ConstantFacts DEF KeysOf
  <1> QED
    BY <1>1, <1>2, <1>3 DEF KeysOf, OneEach, HubOf

LEMMA ContactsStayOpen ==
  ASSUME SyncInv, PersonInv, Grow, OpenStays, NewAreOpen
  PROVE  ContactsOpen'
  <1>1. SUFFICES ASSUME NEW h \in HubIds, There(hub'[h]), hub'[h].mail # None
                 PROVE  \/ OpenIn(jobs', failed', job', "hub", h)
                        \/ \E r \in Live(rows') : rows'[r].hub = h
    BY DEF ContactsOpen, Open
  <1>2. CASE ~There(hub[h])
    BY <1>1, <1>2 DEF NewAreOpen
  <1>3. CASE There(hub[h])
    <2> DEFINE m == hub[h].mail
    <2>1. m # None /\ hub'[h].mail = m
      BY <1>1, <1>3 DEF Grow, StoresGrow
    <2>2. m \in Mails /\ HubOf(hub, m, h) /\ HubOf(hub', m, h)
      BY <1>1, <1>3, <2>1, HubRecord
      DEF HubOf, There, InHub, Maybe, SyncInv, TypeOK
    <2>3. CASE \E r \in Live(rows) : rows[r].hub = h
      <3>1. h # None
        BY ConstantFacts
      <3> QED
        BY <2>3, <3>1 DEF Grow
    <2>4. CASE Complete(rows', m)
      BY <2>2, <2>4, CompleteRow DEF Grow
    <2> QED
      BY <1>3, <2>1, <2>2, <2>3, <2>4
      DEF PersonInv, ContactsOpen, Open, OpenStays
  <1> QED
    BY <1>2, <1>3

LEMMA RowsStayOpen ==
  ASSUME PersonInv, Grow, OpenStays, NewAreOpen
  PROVE  RowsOpen'
  <1>1. SUFFICES ASSUME NEW r \in Live(rows')
                 PROVE  /\ rows'[r].mail = None =>
                             OpenIn(jobs', failed', job', "hub", rows'[r].hub)
                        /\ rows'[r].hub = None =>
                             OpenIn(jobs', failed', job', "shop", rows'[r].mail)
    BY DEF RowsOpen, Open
  <1>2. CASE r \notin Live(rows)
    BY <1>2 DEF NewAreOpen
  <1>3. CASE r \in Live(rows)
    <2>1. /\ Keyed(rows'[r]) /\ UniqueKeys(rows')
          /\ OneEach(hub', shop') /\ PersonRows(hub', shop', rows')
      BY DEF Grow, PersonRows
    <2>2. ASSUME rows'[r].mail = None
          PROVE  OpenIn(jobs', failed', job', "hub", rows'[r].hub)
      <3> DEFINE h == rows'[r].hub
      <3>1. PICK s \in Live(rows) : rows[s].mail = None /\ rows[s].hub = h
        BY <1>3, <2>2 DEF Grow
      <3>2. PICK m \in Mails : KeysOf(hub, shop, m, rows[s])
        BY DEF PersonInv, PersonRows
      <3>3. HubOf(hub, m, h) /\ HubOf(hub', m, h)
        BY <2>1, <2>2, <3>1, <3>2, KeysGrow DEF KeysOf, Keyed, Grow
      <3>4. OpenIn(jobs, failed, job, "hub", h)
        BY <3>1 DEF PersonInv, RowsOpen, Open
      <3>5. ASSUME Complete(rows', m)
            PROVE  FALSE
        <4>1. PICK q \in Live(rows') : rows'[q].hub = h /\ rows'[q].mail = m
          BY <2>1, <3>3, <3>5, CompleteRow
        <4>2. q = r
          BY <2>1, <2>2, <4>1 DEF UniqueKeys, Columns, Keyed
        <4> QED
          BY <2>2, <4>1, <4>2, ConstantFacts
      <3> QED
        BY <3>3, <3>4, <3>5 DEF OpenStays
    <2>3. ASSUME rows'[r].hub = None
          PROVE  OpenIn(jobs', failed', job', "shop", rows'[r].mail)
      <3> DEFINE m == rows'[r].mail
      <3>1. PICK s \in Live(rows) : rows[s].hub = None /\ rows[s].mail = m
        BY <1>3, <2>3 DEF Grow
      <3>2. m \in Mails /\ m # None
        BY <2>1, <2>3 DEF PersonRows, KeysOf, Keyed
      <3>3. OpenIn(jobs, failed, job, "shop", m)
        BY <3>1 DEF PersonInv, RowsOpen, Open
      <3>4. ASSUME Complete(rows', m)
            PROVE  FALSE
        BY <2>1, <2>3, <3>2, <3>4 DEF Complete, UniqueKeys, Columns
      <3> QED
        BY <3>2, <3>3, <3>4 DEF OpenStays
    <2> QED
      BY <2>2, <2>3
  <1> QED
    BY <1>2, <1>3

PersonStep == PersonInv' /\ Grow

(* What every step has to show. *)
LEMMA PersonInvNext ==
  ASSUME SyncInv, PersonInv, Grow, RowsGrow, made' \in Nat,
         \A j \in jobs' : PersonJob(hub', shop', j),
         \A v \in Workers : SameAt(v) \/ PersonWorker(v)',
         OpenStays, NewAreOpen
  PROVE  PersonStep
  <1>1. \A v \in Workers : PersonWorker(v)'
    BY PersonStays
  <1>2. ContactsOpen' /\ RowsOpen'
    BY ContactsStayOpen, RowsStayOpen
  <1> QED
    BY <1>1, <1>2 DEF PersonStep, PersonInv, Grow

-----------------------------------------------------------------------------
(* Steps of a worker that change neither system nor queue.                 *)

LEMMA NoneNew ==
  ASSUME hub' = hub, Live(rows') \subseteq Live(rows)
  PROVE  NewAreOpen
  BY DEF NewAreOpen

LEMMA StayInHand ==
  ASSUME SyncInv, PersonInv, NEW w \in Workers, WorkerStep(w),
         UNCHANGED <<storeVars, queueVars>>, job' = job, contact' = contact,
         Grow, NewAreOpen,
         phase[w] \notin {"idle", "hydrate"},
         phase'[w] \notin {"idle", "hydrate", "findFirst"},
         NEW m, m = contact[w].mail,
         row'[w] \in Live(rows') => KeysOf(hub, shop, m, rows'[row'[w]]),
         phase'[w] \in {"merge", "absorb"} =>
           /\ other'[w] <= made'
           /\ other'[w] \in Live(rows') =>
                KeysOf(hub, shop, m, rows'[other'[w]]),
         KeysOf(hub, shop, m, snap'[w]), KeysOf(hub, shop, m, link'[w]),
         phase'[w] = "updateHub" => HubOf(hub, m, dest'[w]),
         snap'[w].hash # None \/ phase'[w] \in {"record", "finish"} =>
           Complete(rows', m)
  PROVE  PersonStep
  <1>1. /\ hub' = hub /\ shop' = shop /\ jobs' = jobs /\ failed' = failed
        /\ contact'[w] = contact[w] /\ job'[w] = job[w]
    BY DEF storeVars, queueVars
  <1>2. PersonWorker(w)'
    BY <1>1, HandStep
  <1>3. RowsGrow /\ made' \in Nat /\ OthersSame(w)
    BY ConstantFacts DEF WorkerStep, TableStep, TableOK
  <1>4. \A j \in jobs' : PersonJob(hub', shop', j)
    BY <1>1 DEF PersonInv
  <1>5. OpenStays
    BY <1>1 DEF OpenStays
  <1> QED
    BY <1>2, <1>3, <1>4, <1>5, PersonInvNext DEF OthersSame

(* A row that has a key of person m is theirs. *)
LEMMA FoundPerson ==
  ASSUME PersonRows(hub, shop, rows), NEW m \in Mails, NEW r \in Live(rows),
         \/ rows[r].hub # None /\ HubOf(hub, m, rows[r].hub)
         \/ rows[r].mail = m
         \/ rows[r].ox # None /\ ShopOf(shop, m, rows[r].ox)
  PROVE  KeysOf(hub, shop, m, rows[r])
  <1>1. PICK n \in Mails : KeysOf(hub, shop, n, rows[r])
    BY DEF PersonRows
  <1>2. m = n
    BY <1>1, ConstantFacts DEF KeysOf, HubOf, ShopOf
  <1> QED
    BY <1>1, <1>2

LEMMA HashedIsComplete ==
  ASSUME NEW H, NEW S, NEW t, LinkedTable(t), NEW m, NEW r \in Live(t),
         KeysOf(H, S, m, t[r]), t[r].hash # None
  PROVE  Complete(t, m)
  BY DEF LinkedTable, KeysOf, Complete

LEMMA MatchFrame ==
  ASSUME NEW w, OnlyMatch(w)
  PROVE  UNCHANGED <<storeVars, queueVars>> /\ job' = job /\ contact' = contact
         /\ dest' = dest
  BY DEF OnlyMatch

LEMMA PersonFindFirst ==
  ASSUME SyncInv, PersonInv, NEW w \in Workers, FindFirst(w)
  PROVE  PersonStep
  <1> DEFINE m == contact[w].mail
             mine == IF FromHub(w) THEN ByHub(w) ELSE ByMail(w)
             next == IF FromHub(w) THEN "findSecond"
                     ELSE IF mine = {} THEN "insert" ELSE "guard"
  <1>1. WorkerStep(w)
    BY FindFirstStep
  <1>2. /\ UNCHANGED <<storeVars, queueVars>> /\ job' = job /\ contact' = contact
        /\ rows' = rows /\ hub' = hub
    BY MatchFrame DEF FindFirst, tableVars, storeVars
  <1>3. Grow /\ NewAreOpen
    BY <1>2, GrowBySame, NoneNew
  <1>4. /\ phase[w] = "findFirst" /\ phase' = [phase EXCEPT ![w] = next]
        /\ link' = link
    BY DEF FindFirst, Go, linkVars
  <1>5. phase'[w] \in {"findSecond", "insert", "guard"}
    BY <1>4 DEF SyncInv, TypeOK, LocalsOK
  <1>6. PersonHand(w) /\ m \in Mails
    BY <1>4, HandFacts
  <1>7. snap[w] = BlankRow /\ row[w] = NoRow /\ NoRow \notin Live(rows)
    BY <1>4
    DEF PersonInv, PersonWorker, SyncInv, WorkerInv, Locals, Live, RowIds,
        NoRow
  <1>8. PICK r : \/ mine = {} /\ r = NoRow /\ row' = row /\ snap' = snap
                 \/ r \in mine /\ Take(w, r)
    BY DEF FindFirst
  <1>9. CASE row' = row /\ snap' = snap
    <2>1. KeysOf(hub, shop, m, snap'[w]) /\ snap'[w].hash = None
      BY <1>7, <1>9, NoKeys DEF BlankRow
    <2> QED
      BY <1>1, <1>2, <1>3, <1>4, <1>5, <1>6, <1>7, <1>9, <2>1, StayInHand
      DEF PersonHand
  <1>10. CASE r \in mine /\ Take(w, r)
    <2>1. r \in Live(rows)
      BY <1>10 DEF ByHub, ByMail, Owners
    <2>2. IF FromHub(w) THEN rows[r].hub = job[w].id /\ rows[r].hub # None
          ELSE rows[r].mail = m
      BY <1>10 DEF ByHub, ByMail, Owners
    <2>3. KeysOf(hub, shop, m, rows[r])
      BY <1>6, <2>1, <2>2, FoundPerson DEF PersonInv, PersonHand
    <2>4. rows[r].hash # None => Complete(rows, m)
      BY <2>1, <2>3, HashedIsComplete, SyncedIsLinkedTable DEF SyncInv
    <2>5. row'[w] = r /\ snap'[w] = rows[r]
      BY <1>10 DEF Take, SyncInv, TypeOK, LocalsOK
    <2> QED
      BY <1>1, <1>2, <1>3, <1>4, <1>5, <1>6, <2>3, <2>4, <2>5, StayInHand
      DEF PersonHand
  <1> QED
    BY <1>8, <1>9, <1>10

LEMMA PersonFindSecond ==
  ASSUME SyncInv, PersonInv, NEW w \in Workers, FindSecond(w)
  PROVE  PersonStep
  <1> DEFINE m == contact[w].mail
  <1>1. WorkerStep(w)
    BY FindSecondStep
  <1>2. /\ UNCHANGED <<storeVars, queueVars>> /\ job' = job /\ contact' = contact
        /\ rows' = rows /\ hub' = hub /\ made' = made
    BY MatchFrame DEF FindSecond, tableVars, storeVars
  <1>3. Grow /\ NewAreOpen
    BY <1>2, GrowBySame, NoneNew
  <1>4. phase[w] = "findSecond"
    BY DEF FindSecond
  <1>5. PersonHand(w) /\ m \in Mails
    BY <1>4, HandFacts
  <1>6. CASE /\ Go(w, IF row[w] = NoRow THEN "insert" ELSE "guard")
             /\ UNCHANGED <<matchVars, link>>
    <2>1. /\ phase'[w] \in {"insert", "guard"} /\ row'[w] = row[w]
          /\ snap'[w] = snap[w] /\ link'[w] = link[w]
      BY <1>6 DEF Go, matchVars, SyncInv, TypeOK, LocalsOK
    <2> QED
      BY <1>1, <1>2, <1>3, <1>4, <1>5, <2>1, StayInHand DEF PersonHand
  <1>7. ASSUME NEW r \in ByMail(w) \ {row[w]},
               other' = [other EXCEPT ![w] = r], Go(w, "merge"),
               UNCHANGED <<row, snap, link>>
        PROVE  PersonStep
    <2>1. r \in Live(rows) /\ rows[r].mail = m /\ r <= made
      BY DEF ByMail, Owners, SyncInv, RowsAreMade
    <2>2. KeysOf(hub, shop, m, rows[r])
      BY <1>5, <2>1, FoundPerson DEF PersonInv
    <2>3. phase'[w] = "merge" /\ other'[w] = r
      BY <1>7 DEF Go, SyncInv, TypeOK, LocalsOK
    <2> QED
      BY <1>1, <1>2, <1>3, <1>4, <1>5, <1>7, <2>1, <2>2, <2>3, StayInHand
      DEF PersonHand
  <1>8. ASSUME NEW r \in ByMail(w) \ {row[w]}, Take(w, r),
               link' = [link EXCEPT ![w] = [NoLink EXCEPT !.hub = job[w].id]],
               Go(w, "link"), UNCHANGED other
        PROVE  PersonStep
    <2>1. r \in Live(rows) /\ rows[r].mail = m
      BY DEF ByMail, Owners
    <2>2. KeysOf(hub, shop, m, rows[r])
      BY <1>5, <2>1, FoundPerson DEF PersonInv
    <2>3. rows[r].hash # None => Complete(rows, m)
      BY <2>1, <2>2, HashedIsComplete, SyncedIsLinkedTable DEF SyncInv
    <2>4. /\ phase'[w] = "link" /\ row'[w] = r /\ snap'[w] = rows[r]
          /\ link'[w] = [NoLink EXCEPT !.hub = job[w].id]
      BY <1>8 DEF Go, Take, SyncInv, TypeOK, LocalsOK
    <2>5. FromHub(w)
      BY <1>4 DEF SyncInv, WorkerInv, Sides
    <2>6. KeysOf(hub, shop, m, link'[w])
      BY <1>5, <2>4, <2>5 DEF PersonHand, KeysOf, NoLink
    <2> QED
      BY <1>1, <1>2, <1>3, <1>4, <2>2, <2>3, <2>4, <2>6, StayInHand
  <1> QED
    BY <1>6, <1>7, <1>8 DEF FindSecond

LEMMA PersonMergeFound ==
  ASSUME SyncInv, PersonInv, NEW w \in Workers, MergeFound(w)
  PROVE  PersonStep
  <1> DEFINE m == contact[w].mail
  <1>1. WorkerStep(w)
    BY MergeFoundStep
  <1>2. /\ UNCHANGED <<storeVars, queueVars>> /\ job' = job /\ contact' = contact
        /\ hub' = hub
    BY MatchFrame DEF MergeFound, storeVars
  <1>3. /\ phase[w] = "merge" /\ row[w] \in Live(rows) /\ other[w] \in Live(rows)
        /\ rows' = Merge(rows, row[w], other[w])
        /\ row'[w] = row[w] /\ link'[w] = link[w] /\ snap'[w] = rows'[row[w]]
        /\ phase'[w] = "guard"
    BY DEF MergeFound, Mergeable, linkVars, Go, SyncInv, TypeOK, LocalsOK
  <1>4. PersonHand(w) /\ m \in Mails /\ row[w] # other[w]
    BY <1>3, HandFacts DEF SyncInv, WorkerInv, Locals
  <1>5. /\ Moves(hub, shop, rows, rows')
        /\ KeysOf(hub, shop, m, rows'[row[w]])
    BY <1>3, <1>4, MergeMoves
    DEF PersonInv, PersonHand, SyncInv, TypeOK, TableOK
  <1>6. Live(rows') = Live(rows) \ {other[w]} /\ LinkedTable(rows')
    BY <1>3, <1>4, MergeFacts, SyncedIsLinkedTable DEF SyncInv, TypeOK, TableOK
  <1>7. Grow /\ NewAreOpen
    BY <1>2, <1>5, <1>6, GrowByTable, NoneNew
  <1>8. snap'[w].hash # None => Complete(rows', m)
    BY <1>3, <1>4, <1>5, <1>6, HashedIsComplete
  <1> QED
    BY <1>1, <1>2, <1>3, <1>4, <1>5, <1>7, <1>8, StayInHand DEF PersonHand

LEMMA PersonInsert ==
  ASSUME SyncInv, PersonInv, NEW w \in Workers, Insert(w)
  PROVE  PersonStep
  <1> DEFINE m == contact[w].mail
             r == made + 1
             key == FirstKey(w)
  <1>1. WorkerStep(w)
    BY InsertStep
  <1>2. /\ UNCHANGED <<storeVars, queueVars>> /\ job' = job /\ contact' = contact
        /\ hub' = hub /\ jobs' = jobs
    BY MatchFrame DEF Insert, storeVars, queueVars
  <1>3. /\ phase[w] = "insert" /\ made < MaxRows /\ ~Clashes(rows, NoRow, key)
        /\ rows' = [rows EXCEPT ![r] = NewRow(key)]
        /\ row'[w] = r /\ link'[w] = link[w] /\ snap'[w] = NewRow(key)
        /\ phase'[w] = "guard"
    BY DEF Insert, linkVars, Go, SyncInv, TypeOK, LocalsOK
  <1>4. PersonHand(w) /\ m \in Mails /\ key \in Link /\ job[w] \in Job
    BY <1>3, HandFacts, FirstKeyFacts
  <1>5. r \in RowIds /\ r \notin Live(rows)
    BY <1>3, ConstantFacts DEF SyncInv, TypeOK, TableOK, RowIds, RowsAreMade
  <1>6. /\ IF FromHub(w) THEN key.hub = job[w].id /\ key.mail = None
           ELSE key.hub = None /\ key.mail = job[w].id
        /\ KeysOf(hub, shop, m, key) /\ Keyed(key)
    BY <1>3, <1>4, ConstantFacts, MiddleFacts
    DEF FirstKey, NoLink, PersonHand, KeysOf, Keyed
  <1> HIDE DEF r, key, m
  <1>7. /\ Moves(hub, shop, rows, rows') /\ Live(rows') = Live(rows) \cup {r}
        /\ rows'[r] = NewRow(key) /\ KeysOf(hub, shop, m, NewRow(key))
    <2>1. rows \in Tables /\ UniqueKeys(rows) /\ PersonRows(hub, shop, rows)
      BY DEF PersonInv, SyncInv, TypeOK, TableOK
    <2>2. /\ ~Clashes(rows, NoRow, key) /\ Keyed(key) /\ key \in Link
          /\ KeysOf(hub, shop, m, key) /\ m \in Mails /\ r \in RowIds
          /\ r \notin Live(rows) /\ rows' = Added(rows, r, key)
      BY <1>3, <1>4, <1>5, <1>6 DEF Added
    <2> QED
      BY <2>1, <2>2, InsertMoves
  <1> USE DEF m
  <1>8. Grow
    BY <1>2, <1>7, GrowByTable
  <1>9. NewAreOpen
    <2>1. rows'[r].hub = key.hub /\ rows'[r].mail = key.mail
      BY <1>7 DEF NewRow
    <2>2. job[w].side = IF FromHub(w) THEN "hub" ELSE "shop"
      BY <1>4 DEF FromHub, Job, HubJob, ShopJob
    <2>3. /\ rows'[r].mail = None =>
               OpenIn(jobs', failed', job', "hub", rows'[r].hub)
          /\ rows'[r].hub = None =>
               OpenIn(jobs', failed', job', "shop", rows'[r].mail)
      BY <1>2, <1>6, <2>1, <2>2 DEF OpenIn, Keyed
    <2> QED
      BY <1>2, <1>7, <2>3 DEF NewAreOpen
  <1>10. snap'[w].hash = None
    BY <1>3 DEF NewRow
  <1> QED
    BY <1>1, <1>2, <1>3, <1>4, <1>7, <1>8, <1>9, <1>10, StayInHand
    DEF PersonHand

LEMMA PersonInsertClash ==
  ASSUME SyncInv, PersonInv, NEW w \in Workers, InsertClash(w)
  PROVE  PersonStep
  <1>1. WorkerStep(w)
    BY InsertClashStep
  <1>2. /\ UNCHANGED <<storeVars, queueVars>> /\ job' = job /\ contact' = contact
        /\ rows' = rows /\ hub' = hub
    BY MatchFrame DEF InsertClash, tableVars, storeVars
  <1>3. Grow /\ NewAreOpen
    BY <1>2, GrowBySame, NoneNew
  <1>4. /\ phase[w] = "insert" /\ phase'[w] = "raced" /\ row'[w] = row[w]
        /\ snap'[w] = snap[w] /\ link'[w] = link[w]
    BY DEF InsertClash, Go, matchVars, linkVars, SyncInv, TypeOK, LocalsOK
  <1>5. PersonHand(w)
    BY <1>4, HandFacts
  <1> QED
    BY <1>1, <1>2, <1>3, <1>4, <1>5, StayInHand DEF PersonHand

LEMMA PersonRaced ==
  ASSUME SyncInv, PersonInv, NEW w \in Workers, Raced(w)
  PROVE  PersonStep
  <1> DEFINE m == contact[w].mail
  <1>1. WorkerStep(w)
    BY RacedStep
  <1>2. /\ UNCHANGED <<storeVars, queueVars>> /\ job' = job /\ contact' = contact
        /\ rows' = rows /\ hub' = hub
    BY MatchFrame DEF Raced, tableVars, storeVars
  <1>3. Grow /\ NewAreOpen
    BY <1>2, GrowBySame, NoneNew
  <1>4. phase[w] = "raced" /\ phase'[w] = "guard" /\ link'[w] = link[w]
    BY DEF Raced, Go, linkVars, SyncInv, TypeOK, LocalsOK
  <1>5. PersonHand(w) /\ m \in Mails
    BY <1>4, HandFacts
  <1>6. PICK r \in (IF FromHub(w) THEN ByHub(w) ELSE ByMail(w)) : Take(w, r)
    BY DEF Raced
  <1>7. /\ r \in Live(rows)
        /\ IF FromHub(w) THEN rows[r].hub = job[w].id /\ rows[r].hub # None
           ELSE rows[r].mail = m
    BY <1>6 DEF ByHub, ByMail, Owners
  <1>8. KeysOf(hub, shop, m, rows[r])
    BY <1>5, <1>7, FoundPerson DEF PersonInv, PersonHand
  <1>9. rows[r].hash # None => Complete(rows, m)
    BY <1>7, <1>8, HashedIsComplete, SyncedIsLinkedTable DEF SyncInv
  <1>10. row'[w] = r /\ snap'[w] = rows[r]
    BY <1>6 DEF Take, SyncInv, TypeOK, LocalsOK
  <1> QED
    BY <1>1, <1>2, <1>3, <1>4, <1>5, <1>8, <1>9, <1>10, StayInHand
    DEF PersonHand

(* linkCounterpart writes keys of the worker's person to a row of theirs. *)
LEMMA PersonUpdate ==
  ASSUME SyncInv, PersonInv, NEW w \in Workers, WorkerStep(w),
         phase[w] \in AtLink, OnlyMatch(w), Go(w, "linked"),
         UNCHANGED <<matchVars, link>>,
         row[w] \in Live(rows) => ~Clashes(rows, row[w], link[w]),
         rows' = Update(rows, row[w], link[w])
  PROVE  PersonStep
  <1> DEFINE m == contact[w].mail
  <1>1. /\ UNCHANGED <<storeVars, queueVars>> /\ job' = job /\ contact' = contact
        /\ hub' = hub
    BY MatchFrame DEF storeVars
  <1>2. PersonHand(w) /\ m \in Mails
    BY HandFacts DEF AtLink
  <1>3. link[w] \in Link
    BY DEF SyncInv, TypeOK, LocalsOK
  <1>4. /\ phase'[w] = "linked" /\ row'[w] = row[w] /\ snap'[w] = snap[w]
        /\ link'[w] = link[w]
    BY DEF Go, matchVars, SyncInv, TypeOK, LocalsOK
  <1>5. Moves(hub, shop, rows, rows')
    BY <1>2, <1>3, UpdateMoves
    DEF PersonInv, PersonHand, SyncInv, TypeOK, TableOK
  <1>6. Live(rows') = Live(rows)
    BY <1>3, UpdateFacts, SyncedIsLinkedTable
    DEF SyncInv, TypeOK, TableOK, LocalsOK
  <1>7. Grow /\ NewAreOpen
    BY <1>1, <1>5, <1>6, GrowByTable, NoneNew
  <1>8. row[w] \in Live(rows') => KeysOf(hub, shop, m, rows'[row[w]])
    BY <1>2, <1>5, <1>6 DEF PersonHand, Moves
  <1>9. snap[w].hash # None => Complete(rows', m)
    BY <1>2, <1>5 DEF PersonHand, Moves
  <1> QED
    BY <1>1, <1>2, <1>4, <1>7, <1>8, <1>9, StayInHand DEF PersonHand, AtLink

LEMMA PersonLinkRow ==
  ASSUME SyncInv, PersonInv, NEW w \in Workers, LinkRow(w)
  PROVE  PersonStep
  <1>1. WorkerStep(w)
    BY LinkRowStep
  <1>2. /\ phase[w] = "link" /\ OnlyMatch(w) /\ UNCHANGED <<matchVars, link>>
    BY DEF LinkRow
  <1>3. CASE row[w] \in Live(rows) /\ Clashes(rows, row[w], link[w])
    <2>1. rows' = rows /\ Go(w, "collide")
      BY <1>3 DEF LinkRow
    <2>2. /\ UNCHANGED <<storeVars, queueVars>> /\ job' = job
          /\ contact' = contact /\ hub' = hub
      BY <1>2, MatchFrame DEF storeVars
    <2>3. Grow /\ NewAreOpen
      BY <2>1, <2>2, GrowBySame, NoneNew
    <2>4. /\ phase'[w] = "collide" /\ row'[w] = row[w]
          /\ snap'[w] = snap[w] /\ link'[w] = link[w]
      BY <1>2, <2>1 DEF Go, matchVars, SyncInv, TypeOK, LocalsOK
    <2>5. PersonHand(w)
      BY <1>2, HandFacts
    <2> QED
      BY <1>1, <1>2, <2>1, <2>2, <2>3, <2>4, <2>5, StayInHand DEF PersonHand
  <1>4. CASE ~(row[w] \in Live(rows) /\ Clashes(rows, row[w], link[w]))
    <2>1. rows' = Update(rows, row[w], link[w]) /\ Go(w, "linked")
      BY <1>4 DEF LinkRow
    <2> QED
      BY <1>1, <1>2, <1>4, <2>1, PersonUpdate DEF AtLink
  <1> QED
    BY <1>3, <1>4

LEMMA PersonRelink ==
  ASSUME SyncInv, PersonInv, NEW w \in Workers, Relink(w)
  PROVE  PersonStep
  BY RelinkStep, PersonUpdate DEF Relink, AtLink, linkVars

LEMMA PersonCollide ==
  ASSUME SyncInv, PersonInv, NEW w \in Workers, Collide(w)
  PROVE  PersonStep
  <1> DEFINE m == contact[w].mail
             col == NextColumn(todo[w])
             rivals == Owners(rows, col, link[w][col]) \ {row[w]}
  <1>1. WorkerStep(w)
    BY CollideStep
  <1>2. /\ UNCHANGED <<storeVars, queueVars>> /\ job' = job /\ contact' = contact
        /\ rows' = rows /\ hub' = hub /\ made' = made
    BY MatchFrame DEF Collide, tableVars, storeVars
  <1>3. Grow /\ NewAreOpen
    BY <1>2, GrowBySame, NoneNew
  <1>4. /\ phase[w] = "collide" /\ row'[w] = row[w] /\ snap'[w] = snap[w]
        /\ link'[w] = link[w]
    BY DEF Collide
  <1>5. PersonHand(w) /\ m \in Mails
    BY <1>4, HandFacts
  <1>6. CASE UNCHANGED <<phase, other>>
    BY <1>1, <1>2, <1>3, <1>4, <1>5, <1>6, StayInHand DEF PersonHand
  <1>7. ASSUME NEW r \in rivals, other' = [other EXCEPT ![w] = r],
               Go(w, "absorb")
        PROVE  PersonStep
    <2>1. /\ r \in Live(rows) /\ link[w][col] # None
          /\ rows[r][col] = link[w][col] /\ r <= made
      BY DEF Owners, SyncInv, RowsAreMade
    <2>2. col \in {"hub", "mail", "ox"}
      BY DEF NextColumn
    <2>3. KeysOf(hub, shop, m, link[w])
      BY <1>5 DEF PersonHand
    <2>4. \/ rows[r].hub # None /\ HubOf(hub, m, rows[r].hub)
          \/ rows[r].mail = m
          \/ rows[r].ox # None /\ ShopOf(shop, m, rows[r].ox)
      <3> HIDE DEF col
      <3>1. CASE col = "hub"
        BY <2>1, <2>3, <3>1 DEF KeysOf
      <3>2. CASE col = "mail"
        BY <2>1, <2>3, <3>2 DEF KeysOf
      <3>3. CASE col = "ox"
        BY <2>1, <2>3, <3>3 DEF KeysOf
      <3> QED
        BY <2>2, <3>1, <3>2, <3>3
    <2>5. KeysOf(hub, shop, m, rows[r])
      BY <1>5, <2>1, <2>4, FoundPerson DEF PersonInv
    <2>6. phase'[w] = "absorb" /\ other'[w] = r
      BY <1>7 DEF Go, SyncInv, TypeOK, LocalsOK
    <2> QED
      BY <1>1, <1>2, <1>3, <1>4, <1>5, <2>1, <2>5, <2>6, StayInHand
      DEF PersonHand
  <1> QED
    BY <1>6, <1>7 DEF Collide

LEMMA PersonAbsorb ==
  ASSUME SyncInv, PersonInv, NEW w \in Workers, Absorb(w)
  PROVE  PersonStep
  <1> DEFINE m == contact[w].mail
  <1>1. WorkerStep(w)
    BY AbsorbStep
  <1>2. /\ UNCHANGED <<storeVars, queueVars>> /\ job' = job /\ contact' = contact
        /\ hub' = hub
    BY MatchFrame DEF Absorb, storeVars
  <1>3. /\ phase[w] = "absorb" /\ row[w] \in Live(rows) /\ other[w] \in Live(rows)
        /\ rows' = Merge(rows, row[w], other[w])
        /\ row'[w] = row[w] /\ link'[w] = link[w] /\ snap'[w] = snap[w]
        /\ phase'[w] = "collide"
    BY DEF Absorb, Mergeable, linkVars, Go, SyncInv, TypeOK, LocalsOK
  <1>4. PersonHand(w) /\ m \in Mails /\ row[w] # other[w]
    BY <1>3, HandFacts DEF SyncInv, WorkerInv, Locals
  <1>5. /\ Moves(hub, shop, rows, rows')
        /\ KeysOf(hub, shop, m, rows'[row[w]])
    BY <1>3, <1>4, MergeMoves
    DEF PersonInv, PersonHand, SyncInv, TypeOK, TableOK
  <1>6. Live(rows') = Live(rows) \ {other[w]}
    BY <1>3, <1>4, MergeFacts, SyncedIsLinkedTable DEF SyncInv, TypeOK, TableOK
  <1>7. Grow /\ NewAreOpen
    BY <1>2, <1>5, <1>6, GrowByTable, NoneNew
  <1>8. snap[w].hash # None => Complete(rows', m)
    BY <1>4, <1>5 DEF PersonHand, Moves
  <1> QED
    BY <1>1, <1>2, <1>3, <1>4, <1>5, <1>7, <1>8, StayInHand DEF PersonHand

LEMMA PersonLinked ==
  ASSUME SyncInv, PersonInv, NEW w \in Workers, Linked(w)
  PROVE  PersonStep
  <1> DEFINE m == contact[w].mail
  <1>1. WorkerStep(w)
    BY LinkedStep
  <1>2. /\ UNCHANGED <<storeVars, queueVars>> /\ job' = job /\ contact' = contact
        /\ rows' = rows /\ hub' = hub
    BY MatchFrame DEF Linked, tableVars, storeVars
  <1>3. Grow /\ NewAreOpen
    BY <1>2, GrowBySame, NoneNew
  <1>4. /\ phase[w] = "linked" /\ row[w] \in Live(rows)
        /\ phase'[w] = IF dest[w] = None THEN "reread" ELSE "record"
        /\ row'[w] = row[w] /\ snap'[w] = snap[w] /\ link'[w] = NoLink
    BY DEF Linked, Go, matchVars, SyncInv, TypeOK, LocalsOK
  <1>5. PersonHand(w)
    BY <1>4, HandFacts
  <1>6. phase'[w] = "record" => Complete(rows, m)
    <2>1. dest[w] # None =>
            rows[row[w]].hub # None /\ rows[row[w]].mail # None
      BY <1>4 DEF SyncInv, WorkerInv, RowKeys, KnowsBothKeys
    <2> QED
      BY <1>4, <1>5, <2>1 DEF PersonHand, KeysOf, Complete
  <1> QED
    BY <1>1, <1>2, <1>3, <1>4, <1>5, <1>6, NoKeys, StayInHand DEF PersonHand

LEMMA PersonReread ==
  ASSUME SyncInv, PersonInv, NEW w \in Workers, Reread(w)
  PROVE  PersonStep
  <1> DEFINE m == contact[w].mail
  <1>1. WorkerStep(w)
    BY RereadStep
  <1>2. /\ UNCHANGED <<storeVars, queueVars>> /\ job' = job /\ contact' = contact
        /\ rows' = rows /\ hub' = hub
    BY MatchFrame DEF Reread, tableVars, storeVars
  <1>3. Grow /\ NewAreOpen
    BY <1>2, GrowBySame, NoneNew
  <1>4. phase[w] = "reread" /\ phase'[w] = "guard" /\ link'[w] = link[w]
    BY DEF Reread, Go, linkVars, SyncInv, TypeOK, LocalsOK
  <1>5. PersonHand(w) /\ m \in Mails
    BY <1>4, HandFacts
  <1>6. /\ row'[w] = row[w]
        /\ \/ row[w] \in Live(rows) /\ snap'[w] = rows[row[w]]
           \/ snap'[w] = snap[w]
    BY DEF Reread, Take, SyncInv, TypeOK, LocalsOK
  <1>7. row[w] \in Live(rows) /\ rows[row[w]].hash # None => Complete(rows, m)
    BY <1>5, HashedIsComplete, SyncedIsLinkedTable DEF PersonHand, SyncInv
  <1> QED
    BY <1>1, <1>2, <1>3, <1>4, <1>5, <1>6, <1>7, StayInHand DEF PersonHand

LEMMA PersonProceed ==
  ASSUME SyncInv, PersonInv, NEW w \in Workers, Proceed(w)
  PROVE  PersonStep
  <1>1. WorkerStep(w)
    BY ProceedStep
  <1>2. /\ UNCHANGED <<storeVars, queueVars>> /\ job' = job /\ contact' = contact
        /\ rows' = rows /\ hub' = hub
    BY MatchFrame DEF Proceed, tableVars, storeVars
  <1>3. Grow /\ NewAreOpen
    BY <1>2, GrowBySame, NoneNew
  <1>4. /\ phase[w] = "guard"
        /\ phase'[w] \in {"updateShop", "lookHub", "searchHub"}
        /\ row'[w] = row[w] /\ snap'[w] = snap[w] /\ link'[w] = link[w]
    BY DEF Proceed, Go, matchVars, linkVars, SyncInv, TypeOK, LocalsOK
  <1>5. PersonHand(w)
    BY <1>4, HandFacts
  <1> QED
    BY <1>1, <1>2, <1>3, <1>4, <1>5, StayInHand DEF PersonHand

(* The steps of a write that only look. *)
LEMMA PersonLook ==
  ASSUME SyncInv, PersonInv, NEW w \in Workers,
         \/ LookHub(w) \/ SearchHub(w) \/ CreateHubConflict(w)
         \/ UserNotFound(w)
  PROVE  PersonStep
  <1> DEFINE m == contact[w].mail
  <1>1. WorkerStep(w)
    BY LookHubStep, SearchHubStep, CreateHubConflictStep, UserNotFoundStep
  <1>2. /\ OnlyWrite(w) /\ UNCHANGED <<storeVars, jobs, link>>
        /\ phase[w] \in Writing
    BY DEF LookHub, SearchHub, CreateHubConflict, UserNotFound, Writing
  <1>3. /\ UNCHANGED <<storeVars, queueVars>> /\ job' = job /\ contact' = contact
        /\ rows' = rows /\ hub' = hub /\ row' = row /\ snap' = snap
    BY <1>2, OnlyWriteFacts DEF queueVars, storeVars
  <1>4. Grow /\ NewAreOpen
    BY <1>3, GrowBySame, NoneNew
  <1>5. PersonHand(w) /\ m \in Mails /\ m # None
    BY <1>2, HandFacts DEF Writing
  <1>6. \/ phase'[w] \in {"searchHub", "createHub", "insertShop"}
        \/ phase'[w] = "updateHub" /\ HubOf(hub, m, dest'[w])
    <2>1. \A h \in HubMail(m) : HubOf(hub, m, h)
      BY DEF HubMail, HubOf, InHub, There
    <2>2. LookHub(w) => snap[w].hub # None
      BY DEF LookHub, SyncInv, WorkerInv, Locals
    <2> QED
      BY <1>5, <2>1, <2>2
      DEF LookHub, SearchHub, CreateHubConflict, UserNotFound, Go, PersonHand,
          KeysOf, SyncInv, TypeOK, LocalsOK
  <1> QED
    BY <1>1, <1>2, <1>3, <1>4, <1>5, <1>6, StayInHand DEF PersonHand, Writing

LEMMA PersonRecordSync ==
  ASSUME SyncInv, PersonInv, NEW w \in Workers, RecordSync(w)
  PROVE  PersonStep
  <1> DEFINE m == contact[w].mail
  <1>1. WorkerStep(w)
    BY RecordSyncStep
  <1>2. /\ UNCHANGED <<storeVars, queueVars>> /\ job' = job /\ contact' = contact
        /\ hub' = hub
    BY MatchFrame DEF RecordSync, storeVars
  <1>3. /\ phase[w] = "record" /\ phase'[w] = "finish" /\ row'[w] = row[w]
        /\ snap'[w] = snap[w] /\ link'[w] = link[w]
        /\ rows' = Record(rows, row[w], contact[w])
    BY DEF RecordSync, Go, matchVars, linkVars, SyncInv, TypeOK, LocalsOK
  <1>4. PersonHand(w) /\ m \in Mails /\ contact[w] \in Contact
    BY <1>3, HandFacts
  <1>5. Moves(hub, shop, rows, rows')
    BY <1>3, <1>4, RecordMoves DEF PersonInv, SyncInv, TypeOK, TableOK
  <1>6. Live(rows') = Live(rows)
    <2>1. row[w] \in Live(rows) =>
            rows[row[w]].hub # None /\ rows[row[w]].mail # None
      BY <1>3 DEF SyncInv, WorkerInv, RowKeys, KnowsBothKeys
    <2>2. row[w] \in RowIds \cup {NoRow}
      BY DEF SyncInv, TypeOK, LocalsOK
    <2> QED
      BY <1>3, <1>4, <2>1, <2>2, RecordFacts, SyncedIsLinkedTable
      DEF SyncInv, TypeOK, TableOK
  <1>7. Grow /\ NewAreOpen
    BY <1>2, <1>5, <1>6, GrowByTable, NoneNew
  <1>8. Complete(rows', m)
    BY <1>3, <1>4, <1>5 DEF PersonHand, Moves
  <1>9. row[w] \in Live(rows') => KeysOf(hub, shop, m, rows'[row[w]])
    BY <1>4, <1>5, <1>6 DEF PersonHand, Moves
  <1> QED
    BY <1>1, <1>2, <1>3, <1>4, <1>7, <1>8, <1>9, StayInHand DEF PersonHand

-----------------------------------------------------------------------------
(* The end of a job, and its beginning.                                    *)

LEMMA JobKinds ==
  ASSUME NEW j \in Job
  PROVE  /\ j.side = "hub" => j \in HubJob /\ j.id \in HubIds
         /\ j.side # "hub" => j \in ShopJob /\ j.side = "shop" /\ j.id \in Mails
         /\ j # NoJob
  BY DEF Job, HubJob, ShopJob, NoJob

LEMMA PersonEnd ==
  ASSUME SyncInv, PersonInv, NEW w \in Workers, WorkerStep(w), Forget(w),
         UNCHANGED <<storeVars, tableVars>>,
         \A j \in jobs' : PersonJob(hub, shop, j), OpenStays
  PROVE  PersonStep
  <1>1. UNCHANGED storeVars /\ hub' = hub /\ shop' = shop /\ rows' = rows
    BY DEF storeVars, tableVars
  <1>2. Grow /\ NewAreOpen
    BY <1>1, GrowBySame, NoneNew
  <1>3. PersonWorker(w)'
    BY DEF Forget, PersonWorker, SyncInv, TypeOK, LocalsOK
  <1>4. RowsGrow /\ made' \in Nat /\ OthersSame(w)
    BY ConstantFacts DEF WorkerStep, TableStep, TableOK
  <1> QED
    BY <1>1, <1>2, <1>3, <1>4, PersonInvNext DEF OthersSame

(* The job goes back to the queue, or is put aside for good. *)
LEMMA PersonBack ==
  ASSUME SyncInv, PersonInv, NEW w \in Workers, WorkerStep(w),
         Throw(w) \/ GiveUp(w), phase[w] # "idle",
         UNCHANGED <<storeVars, tableVars>>
  PROVE  PersonStep
  <1>1. PersonJob(hub, shop, job[w])
    BY DEF PersonInv, PersonWorker
  <1>2. /\ Forget(w) /\ jobs \subseteq jobs' /\ failed \subseteq failed'
        /\ jobs' \subseteq jobs \cup {job[w]}
        /\ job[w] \in jobs' \cup failed'
        /\ \A v \in Workers \ {w} : job'[v] = job[v]
    BY DEF Throw, GiveUp, Forget, SyncInv, TypeOK, LocalsOK
  <1>3. \A j \in jobs' : PersonJob(hub, shop, j)
    BY <1>1, <1>2 DEF PersonInv
  <1>4. \A side, id : OpenIn(jobs, failed, job, side, id) =>
          OpenIn(jobs', failed', job', side, id)
    BY <1>2 DEF OpenIn
  <1>5. OpenStays
    BY <1>4 DEF OpenStays
  <1> QED
    BY <1>2, <1>3, <1>5, PersonEnd

(* The job is done, and its person has a complete row. *)
LEMMA PersonDone ==
  ASSUME SyncInv, PersonInv, NEW w \in Workers, WorkerStep(w), Return(w),
         UNCHANGED <<storeVars, tableVars>>,
         \A m \in Mails :
           Complete(rows, m) \/ IF FromHub(w) THEN ~HubOf(hub, m, job[w].id)
                                ELSE job[w].id # m
  PROVE  PersonStep
  <1>1. /\ Forget(w) /\ jobs' = jobs /\ failed' = failed /\ rows' = rows
        /\ \A v \in Workers \ {w} : job'[v] = job[v]
    BY DEF Return, Forget, queueVars, tableVars, SyncInv, TypeOK, LocalsOK
  <1>2. \A j \in jobs' : PersonJob(hub, shop, j)
    BY <1>1 DEF PersonInv
  <1>3. ASSUME NEW side, NEW id, OpenIn(jobs, failed, job, side, id),
               ~(job[w].side = side /\ job[w].id = id)
        PROVE  OpenIn(jobs', failed', job', side, id)
    BY <1>1, <1>3 DEF OpenIn
  <1>4. OpenStays
    BY <1>1, <1>3 DEF OpenStays, FromHub
  <1> QED
    BY <1>1, <1>2, <1>4, PersonEnd

LEMMA PersonEnds ==
  ASSUME SyncInv, PersonInv, NEW w \in Workers,
         \/ HydrateNothing(w) \/ MappingThrows(w) \/ Skip(w) \/ Finish(w)
         \/ UpdateHubRefused(w) \/ InsertShopRefused(w) \/ Fail(w)
  PROVE  PersonStep
  <1>1. WorkerStep(w)
    BY EndStep, FailStep
  <1>2. CASE \/ MappingThrows(w) \/ UpdateHubRefused(w)
             \/ InsertShopRefused(w) \/ Fail(w)
    BY <1>1, <1>2, PersonBack
    DEF MappingThrows, UpdateHubRefused, InsertShopRefused, Fail
  <1>3. CASE Skip(w) \/ Finish(w)
    <2> DEFINE m == contact[w].mail
    <2>1. phase[w] \in {"guard", "finish"} /\ Return(w)
          /\ UNCHANGED <<storeVars, tableVars>>
      BY <1>3 DEF Skip, Finish
    <2>2. PersonHand(w) /\ contact[w] \in Contact
      BY <2>1, HandFacts
    <2>3. Complete(rows, m)
      <3>1. Skip(w) => snap[w].hash # None
        BY <2>2, ConstantFacts DEF Skip, Unchanged
      <3> QED
        BY <1>3, <2>2, <3>1 DEF PersonHand, Finish
    <2>4. \A n \in Mails :
            n # m => IF FromHub(w) THEN ~HubOf(hub, n, job[w].id)
                     ELSE job[w].id # n
      BY <2>2 DEF PersonHand, HubOf
    <2> QED
      BY <1>1, <2>1, <2>3, <2>4, PersonDone
  <1>4. CASE HydrateNothing(w)
    <2>1. phase[w] = "hydrate" /\ ~Syncable(w) /\ Return(w)
          /\ UNCHANGED <<storeVars, tableVars>>
      BY <1>4 DEF HydrateNothing
    <2>2. job[w] \in Job /\ PersonJob(hub, shop, job[w])
      BY <2>1 DEF SyncInv, WorkerInv, Locals, PersonInv, PersonWorker
    <2>3. FromHub(w)
      BY <2>1, <2>2, JobKinds, ConstantFacts
      DEF FromHub, PersonJob, Syncable, Source
    <2>4. hub[job[w].id].mail = None
      <3>1. InHub(job[w].id) /\ job[w].id \in HubIds
        BY <2>2, <2>3 DEF PersonJob, FromHub, There, InHub
      <3>2. FromHubContact(hub[job[w].id]) \in Contact
        BY <3>1, HubRecord DEF FromHubContact, Contact, Maybe, SyncInv, TypeOK
      <3> QED
        BY <2>1, <2>3, <3>1, <3>2, RecordAssumption
        DEF Syncable, Source, FromHubContact
    <2> QED
      BY <1>1, <2>1, <2>3, <2>4, PersonDone, ConstantFacts DEF HubOf
  <1> QED
    BY <1>2, <1>3, <1>4

LEMMA PersonClaim ==
  ASSUME SyncInv, PersonInv, NEW w \in Workers, NEW j \in jobs, Claim(w, j)
  PROVE  PersonStep
  <1>1. WorkerStep(w)
    BY ClaimStep
  <1>2. /\ UNCHANGED storeVars /\ hub' = hub /\ shop' = shop /\ rows' = rows
        /\ jobs' = jobs \ {j} /\ failed' = failed /\ job' = [job EXCEPT ![w] = j]
        /\ phase[w] = "idle" /\ phase'[w] = "hydrate"
        /\ snap' = snap /\ link' = link
    BY DEF Claim, storeVars, tableVars, matchVars, linkVars, SyncInv, TypeOK,
           LocalsOK
  <1>3. Grow /\ NewAreOpen
    BY <1>2, GrowBySame, NoneNew
  <1>4. job[w] = NoJob /\ job'[w] = j
    BY <1>2 DEF PersonInv, PersonWorker, SyncInv, TypeOK, LocalsOK
  <1>5. PersonWorker(w)'
    BY <1>2, <1>4 DEF PersonInv, PersonWorker
  <1>6. \A v \in Workers \ {w} : job'[v] = job[v]
    BY <1>2 DEF SyncInv, TypeOK, LocalsOK
  <1>7. ASSUME NEW side \in {"hub", "shop"}, NEW id,
               OpenIn(jobs, failed, job, side, id)
        PROVE  OpenIn(jobs', failed', job', side, id)
    BY <1>2, <1>4, <1>6, <1>7 DEF OpenIn, NoJob
  <1>8. OpenStays
    BY <1>7 DEF OpenStays
  <1>9. RowsGrow /\ made' \in Nat /\ OthersSame(w)
    BY <1>1, ConstantFacts DEF WorkerStep, TableStep, TableOK
  <1>10. \A i \in jobs' : PersonJob(hub', shop', i)
    BY <1>2 DEF PersonInv
  <1> QED
    BY <1>3, <1>5, <1>8, <1>9, <1>10, PersonInvNext DEF OthersSame

(* What is hydrated is the record of the person the job is about. *)
LEMMA PersonHydrate ==
  ASSUME SyncInv, PersonInv, NEW w \in Workers, Hydrate(w)
  PROVE  PersonStep
  <1> DEFINE c == Source(w)
             m == c.mail
  <1>1. WorkerStep(w)
    BY HydrateStep
  <1>2. /\ UNCHANGED storeVars /\ hub' = hub /\ shop' = shop /\ rows' = rows
        /\ jobs' = jobs /\ failed' = failed /\ job' = job
        /\ phase[w] = "hydrate" /\ phase'[w] = "findFirst" /\ contact'[w] = c
        /\ row' = row /\ snap' = snap /\ link' = link /\ Syncable(w)
    BY DEF Hydrate, storeVars, tableVars, queueVars, matchVars, linkVars,
           SyncInv,
           TypeOK, LocalsOK
  <1>3. Grow /\ NewAreOpen /\ OpenStays
    BY <1>2, GrowBySame, NoneNew DEF OpenStays
  <1>4. /\ job[w] \in Job /\ PersonJob(hub, shop, job[w])
        /\ snap[w] = BlankRow /\ link[w] = NoLink /\ row[w] = NoRow
    BY <1>2 DEF SyncInv, WorkerInv, Locals, PersonInv, PersonWorker
  <1>5. /\ IF FromHub(w) THEN HubOf(hub, m, job[w].id) ELSE job[w].id = m
        /\ c.ox # None => ShopOf(shop, m, c.ox)
    <2>1. CASE FromHub(w)
      <3>1. job[w].id \in HubIds /\ There(hub[job[w].id]) /\ InHub(job[w].id)
        BY <1>4, <2>1 DEF PersonJob, FromHub, There, InHub
      <3>2. c = FromHubContact(hub[job[w].id])
        BY <2>1, <3>1 DEF Source
      <3>3. m = hub[job[w].id].mail /\ c.ox = hub[job[w].id].ox
        BY <3>2 DEF FromHubContact
      <3> QED
        BY <2>1, <3>1, <3>3 DEF HubOf, PersonInv, OneEach
    <2>2. CASE ~FromHub(w)
      BY <1>4, <2>2 DEF Source, PersonJob, FromHub
    <2> QED
      BY <2>1, <2>2
  <1>6. /\ NoRow \notin Live(rows)
        /\ KeysOf(hub, shop, m, snap[w]) /\ KeysOf(hub, shop, m, link[w])
        /\ snap[w].hash = None
    BY <1>4, NoKeys DEF Live, RowIds, NoRow, BlankRow
  <1> HIDE DEF c
  <1>7. PersonHand(w)'
    BY <1>2, <1>4, <1>5, <1>6 DEF PersonHand, FromHub
  <1>8. PersonWorker(w)'
    BY <1>2, <1>4, <1>7 DEF PersonWorker
  <1>9. RowsGrow /\ made' \in Nat /\ OthersSame(w)
    BY <1>1, ConstantFacts DEF WorkerStep, TableStep, TableOK
  <1>10. \A i \in jobs' : PersonJob(hub', shop', i)
    BY <1>2 DEF PersonInv
  <1> QED
    BY <1>3, <1>8, <1>9, <1>10, PersonInvNext DEF OthersSame

-----------------------------------------------------------------------------
(* Changes of the two systems, by workers and by people.                   *)

(* Every job keeps its key, and every job there is now speaks of a person. *)
JobsKept ==
  /\ \A k \in jobs : \E i \in jobs' : i.side = k.side /\ i.id = k.id
  /\ \A j \in jobs' : PersonJob(hub', shop', j)

LEMMA QueuedKeeps ==
  ASSUME PersonInv, StoresGrow(hub, shop, hub', shop'), NEW j,
         jobs' \in Queued(j), PersonJob(hub', shop', j)
  PROVE  JobsKept /\ j \in jobs'
  <1>1. /\ \A k \in jobs : \E i \in jobs' : i.side = k.side /\ i.id = k.id
        /\ j \in jobs' /\ jobs' \subseteq jobs \cup {j}
    BY DEF Queued
  <1>2. \A k \in jobs : PersonJob(hub', shop', k)
    BY KeysGrow DEF PersonInv
  <1> QED
    BY <1>1, <1>2 DEF JobsKept

LEMMA SameJobsKept ==
  ASSUME PersonInv, StoresGrow(hub, shop, hub', shop'), jobs' = jobs
  PROVE  JobsKept
  BY KeysGrow DEF PersonInv, JobsKept

LEMMA StoresStep ==
  ASSUME SyncInv, PersonInv, rows' = rows, RowsGrow, made' \in Nat,
         StoresGrow(hub, shop, hub', shop'), OneEach(hub', shop'),
         failed' = failed, job' = job, JobsKept,
         \A h \in HubIds : There(hub'[h]) /\ ~There(hub[h]) =>
           \E j \in jobs' : j.side = "hub" /\ j.id = h,
         \A v \in Workers : SameAt(v) \/ PersonWorker(v)'
  PROVE  PersonStep
  <1>1. Grow
    BY GrowByStores
  <1>2. \A side, id : OpenIn(jobs, failed, job, side, id) =>
          OpenIn(jobs', failed', job', side, id)
    BY DEF OpenIn, JobsKept
  <1>3. OpenStays
    BY <1>2 DEF OpenStays
  <1>4. NewAreOpen
    BY DEF NewAreOpen, OpenIn
  <1> QED
    BY <1>1, <1>3, <1>4, PersonInvNext DEF JobsKept

(* A contact of HubSpot is created, or keeps its email. *)
LEMMA SaveHubGrow ==
  ASSUME SyncInv, PersonInv, NEW h \in HubIds, NEW new \in HubContact,
         SaveHub(h, new), shop' = shop,
         There(hub[h]) => new.mail = hub[h].mail,
         ~There(hub[h]) => HubMail(new.mail) = {},
         new.ox # None => ShopOf(shop, new.mail, new.ox)
  PROVE  /\ StoresGrow(hub, shop, hub', shop') /\ OneEach(hub', shop')
         /\ JobsKept
         /\ \A g \in HubIds : There(hub'[g]) /\ ~There(hub[g]) =>
              \E j \in jobs' : j.side = "hub" /\ j.id = g
  <1>1. There(new)
    BY RecordAssumption DEF There
  <1>2. hub'[h] = new /\ \A g \in HubIds \ {h} : hub'[g] = hub[g]
    BY DEF SaveHub, SyncInv, TypeOK, StoreOK
  <1>3. StoresGrow(hub, shop, hub', shop')
    BY <1>1, <1>2 DEF StoresGrow
  <1>4. \A g \in HubIds \ {h} : \A m \in Mails :
          HubOf(hub, m, g) => ~(new.mail = m)
    <2>1. SUFFICES ASSUME NEW g \in HubIds, g # h, NEW m \in Mails,
                          HubOf(hub, m, g), new.mail = m
                   PROVE  FALSE
      OBVIOUS
    <2>2. CASE There(hub[h])
      BY <2>1, <2>2 DEF PersonInv, OneEach, HubOf
    <2>3. CASE ~There(hub[h])
      BY <2>1, <2>3, ConstantFacts DEF HubMail, HubOf, There, InHub
    <2> QED
      BY <2>2, <2>3
  <1>5. OneEach(hub', shop')
    BY <1>1, <1>2, <1>4 DEF OneEach, HubOf, PersonInv
  <1> DEFINE j == [side |-> "hub", id |-> h]
  <1>6. PersonJob(hub', shop', j)
    BY <1>1, <1>2 DEF PersonJob
  <1>7. CASE jobs' \in Queued(j)
    <2>1. JobsKept /\ j \in jobs'
      BY <1>3, <1>6, <1>7, QueuedKeeps
    <2> QED
      BY <1>2, <1>3, <1>5, <2>1
  <1>8. CASE jobs' = jobs /\ hub[h] = new
    BY <1>1, <1>2, <1>3, <1>5, <1>8, SameJobsKept
  <1> QED
    BY <1>7, <1>8 DEF SaveHub

(* A user of the shop is created, or keeps its email. *)
LEMMA PushKeeps ==
  ASSUME SyncInv, PersonInv, StoresGrow(hub, shop, hub', shop'),
         NEW u \in ShopIds, NEW user \in ShopUser, PushShop(u, user),
         ShopOf(shop', user.mail, u)
  PROVE  JobsKept
  <1> DEFINE j == [side |-> "shop", id |-> user.mail, body |-> Payload(u, user)]
  <1>1. /\ Payload(u, user).mail = user.mail
        /\ Payload(u, user).ox \in {u, None}
        /\ Payload(u, user) # Gone
    BY PayloadFacts, RecordAssumption DEF Payload
  <1>2. /\ j.side = "shop" /\ j.id = user.mail /\ j.body = Payload(u, user)
        /\ jobs' \in Queued(j)
    BY DEF PushShop
  <1> HIDE DEF j
  <1>3. PersonJob(hub', shop', j)
    BY <1>1, <1>2 DEF PersonJob
  <1> QED
    BY <1>2, <1>3, QueuedKeeps

LEMMA SaveShopGrow ==
  ASSUME SyncInv, PersonInv, NEW u \in ShopIds, NEW new \in ShopUser,
         SaveShop(u, new), hub' = hub,
         There(shop[u]) => new.mail = shop[u].mail
  PROVE  /\ StoresGrow(hub, shop, hub', shop') /\ OneEach(hub', shop')
         /\ JobsKept /\ ShopOf(shop', new.mail, u)
  <1>1. There(new)
    BY RecordAssumption DEF There
  <1>2. shop'[u] = new /\ \A v \in ShopIds \ {u} : shop'[v] = shop[v]
    BY DEF SaveShop, SyncInv, TypeOK, StoreOK
  <1>3. /\ StoresGrow(hub, shop, hub', shop')
        /\ ShopOf(shop', new.mail, u)
    BY <1>1, <1>2 DEF StoresGrow, ShopOf
  <1>4. OneEach(hub', shop')
    BY <1>3, KeysGrow DEF OneEach, PersonInv
  <1> QED
    BY <1>3, <1>4, PushKeeps, SameJobsKept DEF SaveShop

(* A worker has written to the other system and goes on to link. *)
LEMMA PersonWrote ==
  ASSUME SyncInv, PersonInv, NEW w \in Workers, WorkerStep(w), OnlyWrite(w),
         phase[w] \in Writing, Go(w, "link"),
         StoresGrow(hub, shop, hub', shop'), OneEach(hub', shop'), JobsKept,
         \A h \in HubIds : There(hub'[h]) /\ ~There(hub[h]) =>
           \E j \in jobs' : j.side = "hub" /\ j.id = h,
         KeysOf(hub', shop', contact[w].mail, link'[w])
  PROVE  PersonStep
  <1> DEFINE m == contact[w].mail
  <1>1. /\ rows' = rows /\ made' = made /\ failed' = failed /\ job' = job
        /\ contact' = contact /\ row' = row /\ snap' = snap
    BY OnlyWriteFacts
  <1>2. phase'[w] = "link"
    BY DEF Go, SyncInv, TypeOK, LocalsOK
  <1>3. PersonHand(w) /\ phase[w] \notin {"idle", "hydrate"}
    BY HandFacts DEF Writing
  <1>4. Grow
    BY <1>1, GrowByStores
  <1>5. /\ row'[w] \in Live(rows') => KeysOf(hub', shop', m, rows'[row'[w]])
        /\ KeysOf(hub', shop', m, snap'[w])
        /\ snap'[w].hash # None => Complete(rows', m)
    BY <1>1, <1>3, KeysGrow DEF PersonHand
  <1>6. PersonWorker(w)'
    BY <1>1, <1>2, <1>3, <1>4, <1>5, HandStep
  <1>7. RowsGrow /\ made' \in Nat /\ OthersSame(w)
    BY ConstantFacts DEF WorkerStep, TableStep, TableOK
  <1> QED
    BY <1>1, <1>6, <1>7, StoresStep DEF OthersSame

LEMMA PersonWroteHub ==
  ASSUME SyncInv, PersonInv, NEW w \in Workers,
         (\E h \in HubIds : CreateHub(w, h)) \/ UpdateHub(w)
  PROVE  PersonStep
  <1> DEFINE m == contact[w].mail
             new == ToHub(contact[w])
  <1>1. WorkerStep(w)
    BY CreateHubStep, UpdateHubStep
  <1>2. PICK h \in HubIds :
          /\ phase[w] \in {"createHub", "updateHub"}
          /\ phase[w] = "createHub" => HubMail(m) = {} /\ hub[h] = None
          /\ phase[w] = "updateHub" => h = dest[w]
          /\ SaveHub(h, new) /\ WroteHub(w, h) /\ shop' = shop /\ OnlyWrite(w)
    <2>1. phase[w] = "updateHub" => dest[w] \in HubIds
      BY DEF SyncInv, WorkerInv, Locals
    <2> QED
      BY <2>1 DEF CreateHub, UpdateHub
  <1>3. phase[w] \in Writing /\ PersonHand(w) /\ contact[w] \in Contact
    BY <1>2, HandFacts DEF Writing
  <1>4. new \in HubContact /\ new.mail = m /\ new.ox = contact[w].ox
    BY <1>3 DEF ToHub, HubContact, Contact
  <1> HIDE DEF new
  <1>5. /\ There(hub[h]) => new.mail = hub[h].mail
        /\ ~There(hub[h]) => HubMail(new.mail) = {}
        /\ new.ox # None => ShopOf(shop, new.mail, new.ox)
    BY <1>2, <1>3, <1>4 DEF PersonHand, HubOf, There
  <1>6. /\ StoresGrow(hub, shop, hub', shop') /\ OneEach(hub', shop')
        /\ JobsKept
        /\ \A g \in HubIds : There(hub'[g]) /\ ~There(hub[g]) =>
             \E j \in jobs' : j.side = "hub" /\ j.id = g
    BY <1>2, <1>4, <1>5, SaveHubGrow
  <1>7. HubOf(hub', m, h)
    BY <1>2, <1>4, RecordAssumption
    DEF SaveHub, HubOf, There, SyncInv, TypeOK, StoreOK
  <1>8. /\ link'[w] = [NoLink EXCEPT !.hub = h, !.ox = contact[w].ox]
        /\ Go(w, "link")
    BY <1>2 DEF WroteHub, SyncInv, TypeOK, LocalsOK
  <1>9. KeysOf(hub', shop', m, link'[w])
    BY <1>2, <1>3, <1>7, <1>8 DEF PersonHand, KeysOf, NoLink
  <1> QED
    BY <1>1, <1>2, <1>3, <1>6, <1>8, <1>9, PersonWrote

LEMMA PersonWroteShop ==
  ASSUME SyncInv, PersonInv, NEW w \in Workers, WorkerStep(w), OnlyWrite(w),
         phase[w] \in ShopWriting, NEW u \in ShopIds, NEW new \in ShopUser,
         SaveShop(u, new), WroteShop(w, u), hub' = hub,
         new.mail = contact[w].mail,
         There(shop[u]) => shop[u].mail = contact[w].mail
  PROVE  PersonStep
  <1> DEFINE m == contact[w].mail
  <1>1. /\ StoresGrow(hub, shop, hub', shop') /\ OneEach(hub', shop')
        /\ JobsKept /\ ShopOf(shop', m, u)
    BY SaveShopGrow
  <1>2. /\ link'[w] = [NoLink EXCEPT !.mail = m, !.ox = u] /\ Go(w, "link")
    BY DEF WroteShop, SyncInv, TypeOK, LocalsOK
  <1>3. KeysOf(hub', shop', m, link'[w])
    BY <1>1, <1>2 DEF KeysOf, NoLink
  <1> QED
    BY <1>1, <1>2, <1>3, PersonWrote DEF ShopWriting, Writing

LEMMA PersonUpdateShop ==
  ASSUME SyncInv, PersonInv, NEW w \in Workers, UpdateShop(w)
  PROVE  PersonStep
  <1> DEFINE m == contact[w].mail
  <1>1. /\ WorkerStep(w) /\ phase[w] = "updateShop" /\ hub' = hub
        /\ OnlyWrite(w)
    BY UpdateShopStep DEF UpdateShop
  <1>2. PICK u \in Users(w) :
          SaveShop(u, ToShop(contact[w], shop[u])) /\ WroteShop(w, u)
    BY DEF UpdateShop
  <1>3. PersonHand(w) /\ contact[w] \in Contact
    BY <1>1, HandFacts
  <1>4. ShopOf(shop, m, u)
    <2>1. CASE RecordId(w) # None
      BY <1>2, <1>3, <2>1 DEF Users, RecordId, Else, PersonHand, KeysOf
    <2>2. CASE RecordId(w) = None
      BY <1>2, <2>2 DEF Users, ShopMail, ShopOf, InShop, There
    <2> QED
      BY <2>1, <2>2
  <1>5. u \in ShopIds /\ shop[u] \in ShopUser /\ shop[u].mail = m
    BY <1>4, ShopRecord DEF ShopOf, There, InShop, SyncInv, TypeOK
  <1>6. ToShop(contact[w], shop[u]) \in ShopUser
        /\ ToShop(contact[w], shop[u]).mail = m
    BY <1>3, <1>5, ToShopFacts DEF ToShop, ShopUser
  <1> QED
    BY <1>1, <1>2, <1>5, <1>6, PersonWroteShop DEF ShopWriting

LEMMA PersonInsertShop ==
  ASSUME SyncInv, PersonInv, NEW w \in Workers, NEW u \in ShopIds,
         InsertShop(w, u)
  PROVE  PersonStep
  <1> DEFINE m == contact[w].mail
             blank == [mail |-> m, name |-> None, firm |-> None]
  <1>1. /\ WorkerStep(w) /\ phase[w] = "insertShop" /\ hub' = hub
        /\ OnlyWrite(w) /\ shop[u] = None
        /\ SaveShop(u, ToShop(contact[w], blank)) /\ WroteShop(w, u)
    BY InsertShopStep DEF InsertShop
  <1>2. contact[w] \in Contact /\ m \in Mails
    BY <1>1, HandFacts
  <1>3. blank \in ShopUser /\ blank.mail = m
    BY <1>2 DEF ShopUser, Maybe
  <1> HIDE DEF blank
  <1>4. ToShop(contact[w], blank) \in ShopUser
        /\ ToShop(contact[w], blank).mail = m
    BY <1>2, <1>3, ToShopFacts DEF ToShop, ShopUser
  <1> QED
    BY <1>1, <1>4, PersonWroteShop DEF ShopWriting, There

-----------------------------------------------------------------------------
(* What people do, emails and deletions apart.                             *)

LEMMA PersonPeople ==
  ASSUME SyncInv, PersonInv, UNCHANGED <<tableVars, phase, localVars>>,
         failed' = failed,
         StoresGrow(hub, shop, hub', shop'), OneEach(hub', shop'), JobsKept,
         \A h \in HubIds : There(hub'[h]) /\ ~There(hub[h]) =>
           \E j \in jobs' : j.side = "hub" /\ j.id = h
  PROVE  PersonStep
  <1>1. /\ rows' = rows /\ job' = job /\ \A v \in Workers : SameAt(v)
    BY DEF tableVars, localVars, matchVars, linkVars, SameAt
  <1>2. RowsGrow /\ made' \in Nat
    BY SameTable, ConstantFacts DEF SyncInv, TypeOK, TableStep, TableOK
  <1> QED
    BY <1>1, <1>2, StoresStep

LEMMA PersonHubUser ==
  ASSUME Steady, SyncInv, PersonInv, NEW h \in HubIds, HubUser(h)
  PROVE  PersonStep
  <1>1. UNCHANGED <<tableVars, phase, localVars>>
    BY HubUserStep DEF SyncInv
  <1>2. ASSUME NEW m \in Maybe(Mails), NEW n \in Maybe(Names), HubCreate(h, m, n)
        PROVE  PersonStep
    <2> DEFINE new == [mail |-> m, name |-> n, ox |-> None]
    <2>1. new \in HubContact /\ new.mail = m /\ new.ox = None
      BY DEF HubContact, Maybe
    <2>2. /\ SaveHub(h, new) /\ shop' = shop /\ ~There(hub[h])
          /\ HubMail(m) = {} /\ failed' = failed
      BY <1>2 DEF HubCreate, Edit, There
    <2> HIDE DEF new
    <2> QED
      BY <1>1, <2>1, <2>2, SaveHubGrow, PersonPeople
  <1>3. ASSUME NEW n \in Maybe(Names), HubEdit(h, n)
        PROVE  PersonStep
    <2> DEFINE new == [hub[h] EXCEPT !.name = n]
    <2>1. /\ InHub(h) /\ SaveHub(h, new) /\ shop' = shop /\ failed' = failed
      BY <1>3 DEF HubEdit, Edit
    <2>2. /\ new \in HubContact /\ new.mail = hub[h].mail
          /\ new.ox = hub[h].ox /\ There(hub[h])
      BY <2>1, HubRecord DEF HubContact, InHub, There, SyncInv, TypeOK
    <2> HIDE DEF new
    <2>3. new.ox # None => ShopOf(shop, new.mail, new.ox)
      BY <2>2 DEF PersonInv, OneEach
    <2> QED
      BY <1>1, <2>1, <2>2, <2>3, SaveHubGrow, PersonPeople
  <1>4. ASSUME HubAgain(h)
        PROVE  PersonStep
    <2>1. /\ InHub(h) /\ jobs' \in Queued([side |-> "hub", id |-> h])
          /\ hub' = hub /\ shop' = shop /\ failed' = failed
      BY <1>4 DEF HubAgain, Again, storeVars
    <2>2. StoresGrow(hub, shop, hub', shop') /\ OneEach(hub', shop')
      BY <2>1, SameStoresGrow DEF PersonInv
    <2>3. PersonJob(hub', shop', [side |-> "hub", id |-> h])
      BY <2>1 DEF PersonJob, InHub, There
    <2> QED
      BY <1>1, <2>1, <2>2, <2>3, QueuedKeeps, PersonPeople
  <1>5. ~HubDelete(h) /\ \A m \in Maybe(Mails) : ~HubNewMail(h, m)
    BY DEF HubDelete, HubNewMail, Edit, Steady
  <1> QED
    BY <1>2, <1>3, <1>4, <1>5 DEF HubUser

LEMMA PersonShopUser ==
  ASSUME Steady, SyncInv, PersonInv, NEW u \in ShopIds, ShopUserStep(u)
  PROVE  PersonStep
  <1>1. UNCHANGED <<tableVars, phase, localVars>>
    BY ShopUserStepFacts DEF SyncInv
  <1>2. ASSUME NEW m \in Mails, NEW n \in Names, NEW f \in Maybe(Firms),
               ShopCreate(u, m, n, f)
        PROVE  PersonStep
    <2> DEFINE new == [mail |-> m, name |-> n, firm |-> f]
    <2>1. new \in ShopUser
      BY DEF ShopUser, Maybe
    <2>2. /\ SaveShop(u, new) /\ hub' = hub /\ ~There(shop[u])
          /\ failed' = failed
      BY <1>2 DEF ShopCreate, Edit, There
    <2> HIDE DEF new
    <2> QED
      BY <1>1, <2>1, <2>2, SaveShopGrow, PersonPeople
  <1>3. ASSUME NEW n \in Maybe(Names), ShopEdit(u, n)
        PROVE  PersonStep
    <2> DEFINE new == [shop[u] EXCEPT !.name = n]
    <2>1. /\ InShop(u) /\ SaveShop(u, new) /\ hub' = hub /\ failed' = failed
      BY <1>3 DEF ShopEdit, Edit
    <2>2. new \in ShopUser /\ new.mail = shop[u].mail
      BY <2>1, ShopRecord DEF ShopUser, SyncInv, TypeOK
    <2> HIDE DEF new
    <2> QED
      BY <1>1, <2>1, <2>2, SaveShopGrow, PersonPeople
  <1>4. ASSUME ShopAgain(u)
        PROVE  PersonStep
    <2>1. /\ InShop(u) /\ PushShop(u, shop[u])
          /\ hub' = hub /\ shop' = shop /\ failed' = failed
      BY <1>4 DEF ShopAgain, Again, storeVars
    <2>2. StoresGrow(hub, shop, hub', shop') /\ OneEach(hub', shop')
      BY <2>1, SameStoresGrow DEF PersonInv
    <2>3. shop[u] \in ShopUser /\ ShopOf(shop', shop[u].mail, u)
      BY <2>1, ShopRecord DEF ShopOf, InShop, There, SyncInv, TypeOK
    <2> QED
      BY <1>1, <2>1, <2>2, <2>3, PushKeeps, PersonPeople
  <1>5. ~ShopDelete(u) /\ \A m \in Mails : ~ShopNewMail(u, m)
    BY DEF ShopDelete, ShopNewMail, Edit, Steady
  <1> QED
    BY <1>2, <1>3, <1>4, <1>5 DEF ShopUserStep

-----------------------------------------------------------------------------
(* The invariant and what it implies.                                      *)

LEMMA PersonInvInit == Init => PersonInv
  <1> SUFFICES ASSUME Init PROVE PersonInv
    OBVIOUS
  <1>1. Live(rows) = {} /\ jobs = {}
    BY DEF Init, Live
  <1>2. \A h \in HubIds : ~There(hub[h])
    BY DEF Init, There
  <1>3. \A w \in Workers : PersonWorker(w)
    BY DEF Init, PersonWorker
  <1>4. OneEach(hub, shop) /\ ContactsOpen
    BY <1>2 DEF OneEach, ContactsOpen, HubOf
  <1>5. UniqueKeys(rows) /\ PersonRows(hub, shop, rows) /\ RowsOpen
    BY <1>1 DEF UniqueKeys, PersonRows, RowsOpen
  <1> QED
    BY <1>1, <1>3, <1>4, <1>5 DEF PersonInv

LEMMA PersonSyncContact ==
  ASSUME SyncInv, PersonInv, NEW w \in Workers, SyncContact(w)
  PROVE  PersonStep
  <1>1. CASE Match(w)
    BY <1>1, PersonFindFirst, PersonFindSecond, PersonMergeFound, PersonInsert,
       PersonInsertClash, PersonRaced, PersonEnds DEF Match
  <1>2. CASE LinkCounterpart(w)
    BY <1>2, PersonLinkRow, PersonCollide, PersonAbsorb, PersonRelink,
       PersonLinked, PersonReread DEF LinkCounterpart
  <1>3. CASE WriteToHubspot(w) \/ WriteToOxid(w)
    BY <1>3, PersonLook, PersonWroteHub, PersonUpdateShop, PersonInsertShop,
       PersonEnds DEF WriteToHubspot, WriteToOxid
  <1> QED
    BY <1>1, <1>2, <1>3, PersonClaim, PersonHydrate, PersonProceed,
       PersonRecordSync, PersonEnds DEF SyncContact

LEMMA PersonNext ==
  ASSUME Steady, SyncInv, PersonInv, [Next]_vars
  PROVE  PersonStep
  <1>1. CASE Next
    BY <1>1, PersonHubUser, PersonShopUser, PersonSyncContact, PersonEnds
    DEF Next
  <1>2. CASE UNCHANGED vars
    <2>1. /\ UNCHANGED <<tableVars, phase, localVars>> /\ failed' = failed
          /\ hub' = hub /\ shop' = shop /\ jobs' = jobs
      BY <1>2 DEF vars, storeVars, queueVars
    <2>2. StoresGrow(hub, shop, hub', shop') /\ OneEach(hub', shop')
      BY <2>1, SameStoresGrow DEF PersonInv
    <2> QED
      BY <2>1, <2>2, SameJobsKept, PersonPeople
  <1> QED
    BY <1>1, <1>2

(* While no email changes and no record is deleted, contacts, shop users,  *)
(* jobs, mapping rows and the keys a worker holds belong to one person     *)
(* each, and a person whose mapping is not complete has a job that is      *)
(* waiting, in work or given up (syncContact.ts, entityMappings.ts).       *)
THEOREM PersonInvHolds ==
  ASSUME Steady
  PROVE  Spec => []PersonInv
  <1>1. SyncInv /\ PersonInv /\ [Next]_vars => PersonInv'
    BY PersonNext DEF PersonStep
  <1> QED
    BY <1>1, PersonInvInit, SyncInvHolds, PTL DEF Spec

(* A mapping row never joins the records of two people: what a worker      *)
(* finds, links, merges and records is of the person of its job, however   *)
(* many workers and failures there are (findOrCreateMapping,               *)
(* linkCounterpart).                                                       *)
THEOREM RowsJoinOnePersonHolds ==
  ASSUME Steady
  PROVE  Spec => []RowsJoinOnePerson
  <1>1. PersonInv => RowsJoinOnePerson
    BY ConstantFacts
    DEF PersonInv, PersonRows, KeysOf, HubOf, ShopOf, There, RowsJoinOnePerson,
        InHub, InShop
  <1> QED
    BY <1>1, PersonInvHolds, PTL

LEMMA HubLinkStep ==
  ASSUME Steady, SyncInv, PersonInv, [Next]_vars,
         NEW r \in Live(rows) \cap Live(rows'), rows[r].hub # None
  PROVE  rows'[r].hub = rows[r].hub
  <1>1. Grow
    BY PersonNext DEF PersonStep
  <1>2. rows'[r].hub # None
    BY KeysStayStep DEF KeepsKeys
  <1>3. PICK m \in Mails : KeysOf(hub, shop, m, rows[r])
    BY DEF PersonInv, PersonRows
  <1>4. /\ HubOf(hub', m, rows[r].hub) /\ HubOf(hub', m, rows'[r].hub)
    BY <1>1, <1>2, <1>3, KeysGrow DEF Grow, KeysOf
  <1> QED
    BY <1>1, <1>4 DEF Grow, OneEach, HubOf

(* No step points a mapping row from one HubSpot contact to another, or to *)
(* none, however the jobs of both directions interleave                    *)
(* (entityMappings.ts).                                                    *)
THEOREM HubLinkStaysHolds ==
  ASSUME Steady
  PROVE  Spec => HubLinkStays
  <1>1. SyncInv /\ PersonInv /\ [Next]_vars =>
          [\A r \in Live(rows) \cap Live(rows') :
             rows[r].hub # None /\ InHub(rows[r].hub) =>
               rows'[r].hub = rows[r].hub]_vars
    BY HubLinkStep
  <1> QED
    BY <1>1, SyncInvHolds, PersonInvHolds, PTL DEF Spec, HubLinkStays

(* Once every job is done, no job is open. *)
LEMMA NothingOpen ==
  ASSUME PersonInv, AllSynced, NEW side \in {"hub", "shop"}, NEW id
  PROVE  ~Open(side, id)
  <1>1. \A w \in Workers : job[w].side = "none"
    BY DEF AllSynced, Quiet, PersonInv, PersonWorker, NoJob
  <1> QED
    BY <1>1 DEF Open, OpenIn, AllSynced, Quiet

LEMMA SyncedIsWhole == PersonInv => NoHalfMappedRows
  BY NothingOpen DEF PersonInv, RowsOpen, NoHalfMappedRows

(* Once every job is done, every mapping row names a contact and an email: *)
(* what a job that failed, or one that only knew one side, left behind has *)
(* been completed or merged away (linkCounterpart).                        *)
THEOREM NoHalfMappedRowsHolds ==
  ASSUME Steady
  PROVE  Spec => []NoHalfMappedRows
  BY SyncedIsWhole, PersonInvHolds, PTL

LEMMA OneRowIfSynced ==
  ASSUME SyncInv, PersonInv, AllSynced, NEW h \in HubIds, NEW u \in ShopIds,
         SamePerson(h, u)
  PROVE  Cardinality({r \in Live(rows) : \/ rows[r].hub = h
                                         \/ rows[r].mail = shop[u].mail
                                         \/ rows[r].ox = u}) = 1
  <1> DEFINE m == shop[u].mail
  <1>1. m \in Mails /\ m # None /\ hub[h].mail = m
        /\ HubOf(hub, m, h) /\ ShopOf(shop, m, u)
    BY ShopRecord, ConstantFacts
    DEF SamePerson, HubOf, ShopOf, InHub, InShop, There, SyncInv, TypeOK
  <1>2. PICK r \in Live(rows) : rows[r].hub = h
    BY <1>1, NothingOpen DEF PersonInv, ContactsOpen, HubOf
  <1>3. \A s \in Live(rows) : rows[s].hub # None /\ rows[s].mail # None
    BY SyncedIsWhole DEF NoHalfMappedRows
  <1>4. \A s \in Live(rows), n \in Mails :
          KeysOf(hub, shop, n, rows[s]) => rows[s].mail = n
    BY <1>3 DEF KeysOf
  <1>5. rows[r].mail = m
    BY <1>1, <1>2, <1>4, FoundPerson, ConstantFacts DEF PersonInv
  <1>6. ASSUME NEW s \in Live(rows),
               rows[s].hub = h \/ rows[s].mail = m \/ rows[s].ox = u
        PROVE  s = r
    <2>1. rows[s].mail = m
      BY <1>1, <1>4, <1>6, FoundPerson, ConstantFacts DEF PersonInv
    <2> QED
      BY <1>1, <1>5, <2>1 DEF PersonInv, UniqueKeys, Columns
  <1>7. {s \in Live(rows) : rows[s].hub = h \/ rows[s].mail = m
                              \/ rows[s].ox = u} = {r}
    BY <1>2, <1>6
  <1> QED
    BY <1>7, FS_Singleton

(* Once every job is done, a person with a record in both systems has      *)
(* exactly one mapping row, also when jobs of both directions created one  *)
(* each (mergeMappings, P2002).                                            *)
THEOREM OneRowEachHolds ==
  ASSUME Steady
  PROVE  Spec => []OneRowEach
  <1>1. SyncInv /\ PersonInv => OneRowEach
    BY OneRowIfSynced DEF OneRowEach
  <1> QED
    BY <1>1, SyncInvHolds, PersonInvHolds, PTL
=============================================================================
