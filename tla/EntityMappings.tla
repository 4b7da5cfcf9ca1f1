---------------------------- MODULE EntityMappings ----------------------------
(***************************************************************************)
(* The entity_mappings table of one tenant                                 *)
(* (src/db/repositories/entityMappings.ts), as operators on its value: a   *)
(* function from row ids to rows, None where there is no row.  Each        *)
(* operator is one statement, or one transaction, sent to the database.    *)
(***************************************************************************)
EXTENDS Naturals

CONSTANTS
  HubIds,    \* HubSpot contact ids
  ShopIds,   \* OXID object ids (`oxid`)
  Mails,     \* normalised email addresses
  Names,     \* values of the fields that are mapped both ways
  Firms,     \* values of `company`, which HubSpot contacts do not hold
  None,      \* null, undefined and the empty string
  MaxRows    \* bound: rows ever created

ASSUME MappingsAssumption ==
  /\ None \notin HubIds \cup ShopIds \cup Mails \cup Names \cup Firms
  /\ MaxRows \in Nat

RowIds == 1 .. MaxRows
NoRow == 0

Maybe(S) == S \cup {None}

(* A contact in canonical form; its hash is collision-free, so that the    *)
(* contents themselves stand for it.                                       *)
Contact == [mail : Maybe(Mails), name : Maybe(Names), firm : Maybe(Firms),
            ox : Maybe(ShopIds)]

Row == [hub : Maybe(HubIds), mail : Maybe(Mails), ox : Maybe(ShopIds),
        hash : Maybe(Contact)]

ASSUME NoneIsNoRow == None \notin Row /\ None \notin Contact

(* The three unique columns, and values for some of them.                  *)
Columns == {"hub", "mail", "ox"}
Link == [hub : Maybe(HubIds), mail : Maybe(Mails), ox : Maybe(ShopIds)]
NoLink == [hub |-> None, mail |-> None, ox |-> None]

Tables == [RowIds -> Row \cup {None}]

Live(t) == {r \in RowIds : t[r] # None}

(* The findUnique of a column: no two rows share a value (Clashes). *)
Owners(t, col, value) == {r \in Live(t) : value # None /\ t[r][col] = value}

(* The SQL coalescing of JavaScript: a ?? b. *)
Else(a, b) == IF a # None THEN a ELSE b

(* Slip: a table without unique keys. *)
NeverClashes(t, r, link) == FALSE

(* Would writing these columns to row r break a unique key (P2002)?        *)
Clashes(t, r, link) ==
  \E col \in Columns : Owners(t, col, link[col]) \ {r} # {}

(* Slip: an undefined column is written as null. *)
Overwrite(t, r, link) ==
  IF r \in Live(t)
  THEN [t EXCEPT ![r] = [hub |-> link.hub, mail |-> link.mail, ox |-> link.ox,
                         hash |-> @.hash]]
  ELSE t

(* updateMany WHERE id: no row, no effect; undefined columns are kept.     *)
Update(t, r, link) ==
  IF r \in Live(t)
  THEN [t EXCEPT ![r] = [hub |-> Else(link.hub, @.hub),
                         mail |-> Else(link.mail, @.mail),
                         ox |-> Else(link.ox, @.ox),
                         hash |-> @.hash]]
  ELSE t

NewRow(link) == [hub |-> link.hub, mail |-> link.mail, ox |-> link.ox,
                 hash |-> None]

(* mergeMappings: the kept row wins column by column, hash included.       *)
Merge(t, keep, absorb) ==
  [t EXCEPT ![keep] = [hub |-> Else(@.hub, t[absorb].hub),
                       mail |-> Else(@.mail, t[absorb].mail),
                       ox |-> Else(@.ox, t[absorb].ox),
                       hash |-> Else(@.hash, t[absorb].hash)],
            ![absorb] = None]

(* recordSync: the hash of what was written, if the row is still there.    *)
Record(t, r, contact) ==
  IF r \in Live(t) THEN [t EXCEPT ![r].hash = contact] ELSE t
=============================================================================
