--------------------------- MODULE ClosedOrdersProofs ---------------------------
(***************************************************************************)
(* Proofs about closed orders, for every set of workers, jobs and names,   *)
(* whatever people do to the companies.                                    *)
(***************************************************************************)
EXTENDS ClosedOrdersProperties, TLAPS

USE OrdersAssumption DEF OrdersAssumption

LEMMA OrderInit == Init => TypeOK /\ OrderInv
<1> SUFFICES ASSUME Init PROVE TypeOK /\ OrderInv
  OBVIOUS
<1>1. TypeOK
  BY DEF Init, TypeOK, AtWork, Places, Upserting, Ordering, CompanyIds, Row
<1>2. OneHand
  BY DEF Init, OneHand
<1>3. DealBudget
  BY DEF Init, DealBudget, BeforeDeal, Places, Upserting, Ordering
<1>4. AttemptBudget
  BY DEF Init, AttemptBudget
<1>5. DealProgress
  BY DEF Init, DealProgress, DoneOrderHasDeal
<1> QED
  BY <1>1, <1>2, <1>3, <1>4, <1>5 DEF OrderInv

-----------------------------------------------------------------------------
(* Steps that neither begin nor end an attempt, nor touch a deal.          *)

QuietStep(w) ==
  \/ FindContact(w) \/ CreateContact(w)
  \/ NoCompany(w) \/ FindRow(w) \/ CreateRow(w) \/ RereadRow(w)
  \/ GetCompany(w) \/ SearchCompany(w) \/ UpdateCompany(w) \/ CreateCompany(w)
  \/ LinkCompany(w) \/ RecordCompany(w) \/ CompanyFails(w)
  \/ Associate(w)

(* What these have in common. *)
LEMMA QuietFacts ==
  ASSUME TypeOK, NEW w \in Workers, QuietStep(w)
  PROVE  /\ UNCHANGED <<status, attempts, firm, deals, job, lost>>
         /\ at[w] \in BeforeDeal
         /\ at'[w] \in BeforeDeal \cup {"log"}
         /\ at'[w] = "log" => job[w] \notin Orders
         /\ \A v \in Workers \ {w} : at'[v] = at[v]
         /\ \A c \in CompanyIds : companies[c] = Gone => companies'[c] = Gone
<1> USE DEF TypeOK, Go, WithRow, NewRow, Continue, BeforeDeal, Places, Upserting,
  Ordering, queueVars, hubVars, countVars
<1>1. CASE FindContact(w)
  BY <1>1 DEF FindContact
<1>2. CASE CreateContact(w)
  BY <1>2 DEF CreateContact
<1>3. CASE FindRow(w)
  BY <1>3 DEF FindRow
<1>4. CASE CreateRow(w)
  BY <1>4 DEF CreateRow
<1>5. CASE GetCompany(w)
  BY <1>5 DEF GetCompany
<1>6. CASE SearchCompany(w)
  BY <1>6 DEF SearchCompany
<1>7. CASE UpdateCompany(w)
  BY <1>7 DEF UpdateCompany
<1>8. CASE CreateCompany(w)
  BY <1>8 DEF CreateCompany
<1>9. CASE LinkCompany(w)
  BY <1>9 DEF LinkCompany
<1>10. CASE RecordCompany(w)
  BY <1>10 DEF RecordCompany
<1>11. CASE CompanyFails(w)
  BY <1>11 DEF CompanyFails, CatchCompany, Fault
<1>12. CASE Associate(w)
  BY <1>12 DEF Associate
<1>13. CASE NoCompany(w)
  BY <1>13 DEF NoCompany
<1>14. CASE RereadRow(w)
  BY <1>14 DEF RereadRow
<1> QED
  BY <1>1, <1>2, <1>3, <1>4, <1>5, <1>6, <1>7, <1>8, <1>9, <1>10, <1>11, <1>12,
     <1>13, <1>14
    DEF QuietStep

LEMMA QuietInv ==
  ASSUME TypeOK, OrderInv, NEW w \in Workers, QuietStep(w)
  PROVE  OrderInv'
<1>1. /\ UNCHANGED <<status, attempts, firm, deals, job, lost>>
      /\ at[w] \in BeforeDeal
      /\ at'[w] \in BeforeDeal \cup {"log"}
      /\ at'[w] = "log" => job[w] \notin Orders
      /\ \A v \in Workers \ {w} : at'[v] = at[v]
      /\ \A c \in CompanyIds : companies[c] = Gone => companies'[c] = Gone
  BY QuietFacts
<1>2. OneHand'
  BY <1>1 DEF OrderInv, OneHand
<1>3. DealBudget'
  BY <1>1 DEF OrderInv, DealBudget, BeforeDeal
<1>4. AttemptBudget'
  BY <1>1 DEF OrderInv, AttemptBudget
<1>5. DealProgress'
  BY <1>1
  DEF OrderInv, DealProgress, DoneOrderHasDeal, Complete, Lacking, BeforeDeal
<1> QED
  BY <1>2, <1>3, <1>4, <1>5 DEF OrderInv

(* The types of the columns and variables; AtWork is apart. *)
Columns ==
  /\ status \in [Jobs -> {"none", "pending", "processing", "done", "failed"}]
  /\ attempts \in [Jobs -> Nat]
  /\ firm \in [Jobs -> Company \cup {None}]
  /\ contacts \subseteq Orders
  /\ companies \in [CompanyIds -> Company \cup {None, Gone}]
  /\ rows \in [Names -> Row \cup {None}]
  /\ deals \in [Jobs -> Seq(Deal)]
  /\ at \in [Workers -> Places]
  /\ job \in [Workers -> Jobs \cup {None}]
  /\ company \in [Workers -> CompanyIds \cup {None}]
  /\ edits \in 0 .. MaxEdits
  /\ faults \in 0 .. MaxFaults
  /\ lost \in [Jobs -> Nat]

LEMMA TypeParts == TypeOK <=> Columns /\ \A w \in Workers : AtWork(w)
  BY DEF TypeOK, Columns

(* Rows keep their shape when a column is written. *)
LEMMA RowFacts ==
  /\ \A r \in Row : r.company \in CompanyIds \cup {None}
  /\ \A r \in Row, c \in CompanyIds : [r EXCEPT !.company = c] \in Row
  /\ \A r \in Row, h \in Company : [r EXCEPT !.hash = h] \in Row
  /\ NewRow \in Row /\ NewRow.company = None
  BY DEF Row, NewRow

(* The company of a job in hand, if it has one. *)
LEMMA ContentFacts ==
  ASSUME TypeOK, NEW w \in Workers, at[w] # "idle"
  PROVE  /\ job[w] \in Jobs
         /\ Content(w) # None => Content(w) \in Company /\ Name(w) \in Names
         /\ at[w] \in Upserting \ {"findRow"} => Content(w) # None
<1>1. Columns /\ AtWork(w)
  BY TypeParts
<1>2. job[w] \in Jobs
  BY <1>1 DEF Columns, AtWork
<1>3. Content(w) \in Company \cup {None}
  BY <1>1, <1>2 DEF Columns, Content
<1>4. at[w] \in Upserting \ {"findRow"} => Content(w) # None
  BY <1>1 DEF AtWork, Content
<1> QED
  BY <1>2, <1>3, <1>4 DEF Name, Company

(* A worker that moves to a place that fits leaves the others as they are. *)
LEMMA Moved ==
  ASSUME TypeOK, NEW w \in Workers, NEW p \in Places, NEW c \in CompanyIds \cup {None},
         at' = [at EXCEPT ![w] = p],
         company' = [company EXCEPT ![w] = c],
         UNCHANGED <<status, attempts, firm, deals, job, edits, lost>>,
         contacts' \subseteq Orders,
         companies' \in [CompanyIds -> Company \cup {None, Gone}],
         rows' \in [Names -> Row \cup {None}],
         \A n \in Names : rows[n] # None => rows'[n] # None,
         faults' \in 0 .. MaxFaults,
         at[w] # "idle", p # "idle",
         p \in {"get", "update", "link", "record", "associate"} => c # None,
         p \in Ordering => job[w] \in Orders,
         p \in Upserting \ {"findRow"} => Content(w) # None,
         p \in Upserting \ {"findRow", "createRow"} => rows'[Name(w)] # None
  PROVE  TypeOK'
<1>1. Columns /\ \A v \in Workers : AtWork(v)
  BY TypeParts
<1>2. Columns'
  BY <1>1 DEF Columns
<1>3. ASSUME NEW v \in Workers PROVE AtWork(v)'
  <2>1. CASE v = w
    BY <1>1, <2>1 DEF Columns, AtWork, Name, Content
  <2>2. CASE v # w
    <3>1. at'[v] = at[v] /\ company'[v] = company[v] /\ job'[v] = job[v]
      BY <1>1, <2>2 DEF Columns
    <3>2. at[v] \in Upserting \ {"findRow", "createRow"} => firm[job[v]].name \in Names
      BY ContentFacts DEF Name, Content, Upserting
    <3>3. "idle" \notin Upserting
      BY DEF Upserting
    <3> QED
      BY <1>1, <3>1, <3>2, <3>3 DEF AtWork
  <2> QED
    BY <2>1, <2>2
<1> QED
  BY <1>2, <1>3 DEF TypeOK, Columns

LEMMA RowMoves ==
  ASSUME TypeOK, NEW w \in Workers, NEW r \in Row, at[w] # "idle",
         WithRow(w, r),
         UNCHANGED <<queueVars, hubVars, job, countVars>>,
         rows' \in [Names -> Row \cup {None}],
         \A n \in Names : rows[n] # None => rows'[n] # None,
         rows'[Name(w)] # None, Content(w) # None
  PROVE  TypeOK'
<1>1. Columns /\ r.company \in CompanyIds \cup {None}
  BY TypeParts, RowFacts
<1>2. PICK p \in {"search", "associate", "get"} :
        at' = [at EXCEPT ![w] = p] /\ (p # "search" => r.company # None)
  BY DEF WithRow, Go
<1>3. p \in Places /\ p \notin Ordering /\ p # "idle"
      /\ (p \in {"get", "update", "link", "record", "associate"} => p # "search")
  BY DEF Places, Ordering, Upserting
<1>4. company' = [company EXCEPT ![w] = r.company]
  BY DEF WithRow
<1> QED
  BY <1>1, <1>2, <1>3, <1>4, Moved DEF Columns, queueVars, hubVars, countVars

LEMMA QuietType ==
  ASSUME TypeOK, NEW w \in Workers, QuietStep(w)
  PROVE  TypeOK'
<1>1. at[w] # "idle"
  BY DEF QuietStep, FindContact, CreateContact, NoCompany, FindRow, RereadRow,
    CreateRow, GetCompany,
    SearchCompany, UpdateCompany, CreateCompany, LinkCompany, RecordCompany,
    CompanyFails, Associate, Upserting
<1>2. /\ job[w] \in Jobs
      /\ Content(w) # None => Content(w) \in Company /\ Name(w) \in Names
      /\ at[w] \in Upserting \ {"findRow"} => Content(w) # None
  BY <1>1, ContentFacts
<1>3. Columns /\ \A v \in Workers : AtWork(v)
  BY TypeParts
<1>4. company = [company EXCEPT ![w] = company[w]]
      /\ company[w] \in CompanyIds \cup {None}
  BY <1>3 DEF Columns
<1>5. Content(w) # None /\ rows[Name(w)] # None => rows[Name(w)] \in Row
  BY <1>2, <1>3 DEF Columns
<1>6. at[w] \in Upserting \ {"findRow", "createRow"} => rows[Name(w)] # None
  BY <1>3 DEF AtWork, Name, Content
<1>11. CASE FindContact(w)
  <2>1. PICK p \in {"findRow", "createContact"} : at' = [at EXCEPT ![w] = p]
    BY <1>11 DEF FindContact, Go
  <2>2. /\ {"findRow", "createContact"} \subseteq Places
        /\ "findRow" \notin Ordering /\ "createContact" \notin Upserting
    BY DEF Places, Ordering, Upserting
  <2>3. job[w] \in Orders
    BY <1>3, <1>11 DEF AtWork, FindContact, Ordering
  <2> QED
    BY <1>1, <1>3, <1>4, <1>11, <2>1, <2>2, <2>3, Moved
      DEF Columns, FindContact, queueVars, hubVars, countVars
<1>12. CASE CreateContact(w)
  <2>1. at' = [at EXCEPT ![w] = "findRow"] /\ contacts' \subseteq Orders
    BY <1>3, <1>12 DEF Columns, CreateContact, Go, AtWork, Ordering
  <2>2. /\ {"findRow", "createContact"} \subseteq Places
        /\ "findRow" \notin Ordering /\ "createContact" \notin Upserting
    BY DEF Places, Ordering, Upserting
  <2>3. job[w] \in Orders
    BY <1>3, <1>12 DEF AtWork, CreateContact, Ordering
  <2> QED
    BY <1>1, <1>3, <1>4, <1>12, <2>1, <2>2, <2>3, Moved
      DEF Columns, CreateContact, queueVars, hubVars, countVars
<1>13. CASE FindRow(w)
  <2> Content(w) # None
    BY <1>13 DEF FindRow
  <2>1. CASE rows[Name(w)] = None
    <3>1. at' = [at EXCEPT ![w] = "createRow"] /\ UNCHANGED company /\ UNCHANGED rows
      BY <1>13, <2>1 DEF FindRow, Go
    <3>2. "createRow" \in Places /\ "createRow" \notin Ordering
      BY DEF Places, Upserting, Ordering
    <3> QED
      BY <1>1, <1>3, <1>4, <1>13, <3>1, <3>2, Moved
        DEF Columns, FindRow, queueVars, hubVars, countVars
  <2>2. CASE rows[Name(w)] # None
    BY <1>1, <1>2, <1>3, <1>5, <1>13, <2>2, RowMoves
    DEF Columns, FindRow
  <2> QED
    BY <2>1, <2>2
<1>14. CASE CreateRow(w)
  <2> Content(w) # None
    BY <1>2, <1>14 DEF CreateRow, Upserting
  <2>1. CASE rows[Name(w)] = None
    <3>1. rows' = [rows EXCEPT ![Name(w)] = NewRow] /\ WithRow(w, NewRow)
      BY <1>14, <2>1 DEF CreateRow
    <3>2. /\ rows' \in [Names -> Row \cup {None}]
          /\ \A n \in Names : rows[n] # None => rows'[n] # None
          /\ rows'[Name(w)] # None
      BY <1>2, <1>3, <3>1, RowFacts DEF Columns
    <3> QED
      BY <1>1, <1>14, <3>1, <3>2, RowFacts, RowMoves DEF CreateRow
  <2>2. CASE rows[Name(w)] # None
    <3>1. at' = [at EXCEPT ![w] = "rereadRow"] /\ UNCHANGED company /\ UNCHANGED rows
      BY <1>14, <2>2 DEF CreateRow, Go
    <3>2. "rereadRow" \in Places /\ "rereadRow" \notin Ordering
      BY DEF Places, Upserting, Ordering
    <3> QED
      BY <1>1, <1>3, <1>4, <1>14, <2>2, <3>1, <3>2, Moved
        DEF Columns, CreateRow, queueVars, hubVars, countVars
  <2> QED
    BY <2>1, <2>2
<1>22. CASE RereadRow(w)
  <2>1. at[w] \in Upserting \ {"findRow", "createRow"}
    BY <1>22 DEF RereadRow, Upserting
  <2>2. Content(w) # None /\ rows[Name(w)] \in Row /\ rows[Name(w)] # None
    BY <1>2, <1>5, <1>6, <2>1
  <2> QED
    BY <1>1, <1>3, <1>22, <2>2, RowMoves DEF Columns, RereadRow
<1>15. CASE GetCompany(w)
  <2>1. at[w] = "get" /\ "get" \in Upserting /\ company[w] # None
    BY <1>3, <1>15 DEF GetCompany, Upserting, AtWork
  <2>2. PICK p \in {"search", "update"}, c \in {None, company[w]} :
          /\ at' = [at EXCEPT ![w] = p]
          /\ company' = [company EXCEPT ![w] = c]
          /\ p = "update" => c = company[w]
    <3>1. CASE companies[company[w]] = Gone
      BY <1>15, <3>1 DEF GetCompany, Go
    <3>2. CASE companies[company[w]] # Gone
      BY <1>4, <1>15, <3>2 DEF GetCompany, Go
    <3> QED
      BY <3>1, <3>2
  <2>3. p \in Places /\ p \notin Ordering /\ p # "idle"
        /\ (p \in {"get", "update", "link", "record", "associate"} => p = "update")
    BY DEF Places, Ordering, Upserting
  <2> QED
    BY <1>1, <1>2, <1>3, <1>4, <1>6, <1>15, <2>1, <2>2, <2>3, Moved
      DEF Columns, GetCompany, queueVars, hubVars, countVars
<1>16. CASE SearchCompany(w)
  <2>1. PICK p \in {"create", "update"}, c \in CompanyIds \cup {None} :
          /\ at' = [at EXCEPT ![w] = p]
          /\ company' = [company EXCEPT ![w] = c]
          /\ p = "update" => c # None
    <3>1. CASE Named(Name(w)) = {} /\ Go(w, "create") /\ UNCHANGED company
      BY <1>4, <3>1 DEF Go
    <3>2. ASSUME NEW c \in Named(Name(w)),
                 company' = [company EXCEPT ![w] = c], Go(w, "update")
          PROVE  \E p \in {"create", "update"}, d \in CompanyIds \cup {None} :
                   /\ at' = [at EXCEPT ![w] = p]
                   /\ company' = [company EXCEPT ![w] = d]
                   /\ p = "update" => d # None
      <4>1. c \in CompanyIds /\ c # None
        BY DEF Named, CompanyIds
      <4> QED
        BY <3>2, <4>1 DEF Go
    <3> QED
      BY <1>16, <3>1, <3>2 DEF SearchCompany
  <2>2. p \in Places /\ p \notin Ordering /\ p # "idle"
        /\ (p \in {"get", "update", "link", "record", "associate"} => p = "update")
        /\ at[w] \in Upserting \ {"findRow", "createRow"}
    BY <1>16 DEF Places, Ordering, Upserting, SearchCompany
  <2> QED
    BY <1>1, <1>2, <1>3, <1>6, <1>16, <2>1, <2>2, Moved
      DEF Columns, SearchCompany, queueVars, hubVars, countVars
<1>17. CASE UpdateCompany(w)
  <2>1. /\ "link" \in Places /\ "link" \notin Ordering
        /\ at[w] \in Upserting \ {"findRow", "createRow"} /\ company[w] # None
    BY <1>3, <1>17 DEF Places, Ordering, Upserting, UpdateCompany, AtWork
  <2>2. companies' \in [CompanyIds -> Company \cup {None, Gone}]
    BY <1>2, <1>3, <1>17 DEF Columns, UpdateCompany
  <2> QED
    BY <1>1, <1>2, <1>3, <1>4, <1>6, <1>17, <2>1, <2>2, Moved
      DEF Columns, UpdateCompany, Go, queueVars, hubVars, countVars
<1>18. CASE CreateCompany(w)
  <2>1. PICK c \in CompanyIds : /\ companies' = [companies EXCEPT ![c] = Content(w)]
                                /\ company' = [company EXCEPT ![w] = c]
    BY <1>18 DEF CreateCompany
  <2>2. /\ "link" \in Places /\ "link" \notin Ordering /\ c # None
        /\ at[w] \in Upserting \ {"findRow", "createRow"}
    BY <1>18 DEF Places, Ordering, Upserting, CreateCompany, CompanyIds
  <2>3. companies' \in [CompanyIds -> Company \cup {None, Gone}]
    BY <1>2, <1>3, <2>1 DEF Columns
  <2> QED
    BY <1>1, <1>2, <1>3, <1>6, <1>18, <2>1, <2>2, <2>3, Moved
      DEF Columns, CreateCompany, Go, queueVars, hubVars, countVars
<1>19. CASE LinkCompany(w)
  <2>1. /\ "record" \in Places /\ "record" \notin Ordering
        /\ at[w] \in Upserting \ {"findRow", "createRow"} /\ company[w] # None
    BY <1>3, <1>19 DEF Places, Ordering, Upserting, LinkCompany, AtWork
  <2>2. rows[Name(w)] \in Row /\ company[w] \in CompanyIds
    BY <1>2, <1>4, <1>5, <1>6, <2>1
  <2>3. rows' = [rows EXCEPT ![Name(w)] = [rows[Name(w)] EXCEPT !.company = company[w]]]
    BY <1>19 DEF LinkCompany
  <2>4. /\ rows' \in [Names -> Row \cup {None}]
        /\ \A n \in Names : rows[n] # None => rows'[n] # None
        /\ rows'[Name(w)] # None
    BY <1>2, <1>3, <2>1, <2>2, <2>3, RowFacts DEF Columns
  <2> QED
    BY <1>1, <1>2, <1>3, <1>4, <1>19, <2>1, <2>4, Moved
      DEF Columns, LinkCompany, Go, queueVars, hubVars, countVars
<1>20. CASE RecordCompany(w)
  <2>1. /\ "associate" \in Places /\ "associate" \notin Ordering \cup Upserting
        /\ at[w] \in Upserting \ {"findRow", "createRow"} /\ company[w] # None
    BY <1>3, <1>20 DEF Places, Ordering, Upserting, RecordCompany, AtWork
  <2>2. rows[Name(w)] \in Row
    BY <1>2, <1>5, <1>6, <2>1
  <2>3. rows' = [rows EXCEPT ![Name(w)] = [rows[Name(w)] EXCEPT !.hash = Content(w)]]
    BY <1>20 DEF RecordCompany
  <2>4. /\ rows' \in [Names -> Row \cup {None}]
        /\ \A n \in Names : rows[n] # None => rows'[n] # None
    BY <1>2, <1>3, <2>1, <2>2, <2>3, RowFacts DEF Columns
  <2> QED
    BY <1>1, <1>2, <1>3, <1>4, <1>20, <2>1, <2>4, Moved
      DEF Columns, RecordCompany, Go, queueVars, hubVars, countVars
<1>21. CASE CompanyFails(w) \/ Associate(w) \/ NoCompany(w)
  <2>1. PICK p \in {"deal", "log"}, c \in {None, company[w]} :
          /\ at' = [at EXCEPT ![w] = p]
          /\ company' = [company EXCEPT ![w] = c]
          /\ p = "deal" => job[w] \in Orders
    BY <1>4, <1>21 DEF CompanyFails, CatchCompany, Associate, NoCompany, Continue, Go
  <2>2. p \in Places /\ p \notin Upserting /\ (p \in Ordering => p = "deal")
        /\ p \notin {"idle", "get", "update", "link", "record", "associate"}
    BY DEF Places, Ordering, Upserting
  <2>3. faults' \in 0 .. MaxFaults
    BY <1>3, <1>21 DEF Columns, CompanyFails, Fault, Associate, NoCompany, countVars
  <2>4. UNCHANGED <<status, attempts, firm, contacts, companies, deals, rows,
                    job, edits, lost>>
    BY <1>21
    DEF CompanyFails, CatchCompany, Associate, NoCompany, queueVars, hubVars, countVars
  <2> QED
    BY <1>1, <1>3, <1>4, <2>1, <2>2, <2>3, <2>4, Moved DEF Columns
<1> QED
  BY <1>11, <1>12, <1>13, <1>14, <1>15, <1>16, <1>17, <1>18, <1>19, <1>20,
     <1>21, <1>22
    DEF QuietStep

-----------------------------------------------------------------------------
(* Steps that begin or end an attempt, and those of others.                *)

LEMMA EventStep ==
  ASSUME TypeOK, OrderInv, NEW j \in Jobs, NEW f \in Company \cup {None}, Event(j, f)
  PROVE  TypeOK' /\ OrderInv'
<1> USE DEF Event, queueVars, hubVars, workerVars, countVars
<1>1. TypeOK'
  <2>1. Columns /\ \A v \in Workers : AtWork(v)
    BY TypeParts
  <2>2. Columns'
    BY <2>1 DEF Columns
  <2>3. \A v \in Workers : job[v] # j
    BY DEF OrderInv, OneHand
  <2>4. \A v \in Workers : at[v] # "idle" => firm'[job[v]] = firm[job[v]]
    BY <2>1, <2>3, ContentFacts DEF Columns
  <2>5. \A v \in Workers : AtWork(v)'
    BY <2>1, <2>4 DEF AtWork, Upserting
  <2> QED
    BY <2>2, <2>5 DEF TypeOK, Columns
<1>2. OneHand'
  BY DEF TypeOK, OrderInv, OneHand
<1>3. DealBudget'
  BY DEF TypeOK, OrderInv, DealBudget
<1>4. AttemptBudget'
  BY DEF TypeOK, OrderInv, AttemptBudget
<1>5. DealProgress'
  BY DEF TypeOK, OrderInv, DealProgress, DoneOrderHasDeal, Complete, Lacking
<1> QED
  BY <1>1, <1>2, <1>3, <1>4, <1>5 DEF OrderInv

LEMMA ClaimStep ==
  ASSUME TypeOK, OrderInv, NEW w \in Workers, NEW j \in Jobs, Claim(w, j)
  PROVE  TypeOK' /\ OrderInv'
<1>1. PICK p \in {"findContact", "findRow"} :
        at' = [at EXCEPT ![w] = p] /\ (p = "findContact" => j \in Orders)
  BY DEF Claim
<1>2. /\ p \in Places /\ p \in BeforeDeal /\ p \notin {"idle", "items", "log"}
      /\ p \notin {"get", "update", "link", "record", "associate"}
      /\ p \in Ordering => p = "findContact"
      /\ p \notin Upserting \ {"findRow"}
  BY DEF Places, BeforeDeal, Upserting, Ordering
<1>3. /\ at[w] = "idle" /\ status[j] = "pending"
      /\ status' = [status EXCEPT ![j] = "processing"]
      /\ attempts' = [attempts EXCEPT ![j] = @ + 1]
      /\ job' = [job EXCEPT ![w] = j]
      /\ UNCHANGED <<firm, contacts, companies, deals, rows, company, edits, faults,
                     lost>>
  BY DEF Claim, Claimable, hubVars, countVars
<1>4. Columns /\ \A v \in Workers : AtWork(v)
  BY TypeParts
<1>5. Columns'
  BY <1>1, <1>2, <1>3, <1>4 DEF Columns
<1>6. \A v \in Workers : AtWork(v)'
  BY <1>1, <1>2, <1>3, <1>4 DEF Columns, AtWork
<1>7. \A v \in Workers : job[v] # j
  BY <1>3 DEF OrderInv, OneHand
<1>8. OneHand'
  BY <1>3, <1>4, <1>7 DEF Columns, OrderInv, OneHand
<1>9. DealBudget'
  BY <1>1, <1>2, <1>3, <1>4, <1>7 DEF Columns, OrderInv, DealBudget
<1>10. AttemptBudget'
  BY <1>3, <1>4 DEF Columns, OrderInv, AttemptBudget
<1>11. DealProgress'
  BY <1>1, <1>2, <1>3, <1>4, <1>7
    DEF Columns, OrderInv, DealProgress, DoneOrderHasDeal, Complete, Lacking
<1> QED
  BY <1>5, <1>6, <1>8, <1>9, <1>10, <1>11 DEF TypeOK, Columns, OrderInv

(* A worker leaves its job: with what is paid for if it is to be done again, *)
(* with a reason if it has failed, with a deal if it is done.               *)
LEMMA Ended ==
  ASSUME TypeOK, OrderInv, NEW w \in Workers, at[w] # "idle", Leave(w),
         NEW s \in {"pending", "failed", "done"},
         status' = [status EXCEPT ![job[w]] = s],
         UNCHANGED <<attempts, firm, contacts, companies, deals, rows, edits>>,
         faults' \in 0 .. MaxFaults,
         lost' \in [Jobs -> Nat],
         \A j \in Jobs : lost'[j] >= lost[j],
         s = "pending" => lost'[job[w]] >= lost[job[w]] + 1,
         s = "failed" => lost'[job[w]] > 0 \/ \E c \in CompanyIds : companies[c] = Gone,
         s = "done" /\ job[w] \in Orders => Complete(job[w])
  PROVE  TypeOK' /\ OrderInv'
<1>1. /\ at' = [at EXCEPT ![w] = "idle"]
      /\ job' = [job EXCEPT ![w] = None]
      /\ company' = [company EXCEPT ![w] = None]
  BY DEF Leave, Go
<1>2. Columns /\ \A v \in Workers : AtWork(v)
  BY TypeParts
<1>3. job[w] \in Jobs /\ status[job[w]] = "processing"
  BY ContentFacts DEF OrderInv, OneHand
<1>4. "idle" \in Places /\ "idle" \notin Ordering \cup Upserting \cup BeforeDeal
  BY DEF Places, Ordering, Upserting, BeforeDeal
<1>5. Columns'
  BY <1>1, <1>2, <1>3, <1>4 DEF Columns
<1>6. \A v \in Workers : AtWork(v)'
  BY <1>1, <1>2, <1>4 DEF Columns, AtWork
<1>7. \A v \in Workers \ {w} : job[v] # job[w] /\ job'[v] = job[v] /\ at'[v] = at[v]
  BY <1>1, <1>2, <1>3 DEF Columns, OrderInv, OneHand
<1>8. OneHand'
  BY <1>1, <1>2, <1>3, <1>7 DEF Columns, OrderInv, OneHand
<1>9. \A j \in Jobs : Len(deals[j]) \in Nat
  BY <1>2 DEF Columns
<1>10. DealBudget'
  <2>1. \A j \in Jobs : status'[j] = "none" => deals[j] = <<>>
    BY <1>2, <1>3 DEF Columns, OrderInv, DealBudget
  <2>2. \A j \in Jobs : Len(deals[j]) <= lost'[j] + 1
    BY <1>2, <1>9 DEF Columns, OrderInv, DealBudget
  <2>3. \A j \in Jobs : status'[j] \in {"none", "pending"} => Len(deals[j]) <= lost'[j]
    BY <1>2, <1>3, <1>9 DEF Columns, OrderInv, DealBudget
  <2>4. \A v \in Workers : at'[v] \in BeforeDeal => Len(deals[job'[v]]) <= lost'[job'[v]]
    <3> SUFFICES ASSUME NEW v \in Workers, at'[v] \in BeforeDeal
                 PROVE  Len(deals[job'[v]]) <= lost'[job'[v]]
      OBVIOUS
    <3>1. v # w
      BY <1>1, <1>2, <1>4 DEF Columns
    <3>2. job[v] \in Jobs
      BY <1>4, <1>7, <3>1, ContentFacts
    <3> QED
      BY <1>2, <1>7, <1>9, <3>1, <3>2 DEF Columns, OrderInv, DealBudget
  <2> QED
    BY <2>1, <2>2, <2>3, <2>4 DEF DealBudget
<1>11. AttemptBudget'
  BY <1>2, <1>3 DEF Columns, OrderInv, AttemptBudget
<1>12. DealProgress'
  BY <1>1, <1>2, <1>3, <1>7
    DEF Columns, OrderInv, DealProgress, DoneOrderHasDeal, Complete, Lacking
<1> QED
  BY <1>5, <1>6, <1>8, <1>10, <1>11, <1>12 DEF TypeOK, Columns, OrderInv

LEMMA FinishStep ==
  ASSUME TypeOK, OrderInv, NEW w \in Workers, Finish(w)
  PROVE  TypeOK' /\ OrderInv'
<1>1. job[w] \in Orders => Complete(job[w])
  BY DEF Finish, OrderInv, DealProgress
<1>2. /\ at[w] # "idle" /\ Leave(w) /\ status' = [status EXCEPT ![job[w]] = "done"]
      /\ UNCHANGED <<attempts, firm, contacts, companies, deals, rows, edits,
                     faults, lost>>
  BY DEF Finish, hubVars, countVars
<1>3. /\ faults' \in 0 .. MaxFaults /\ lost' \in [Jobs -> Nat]
      /\ \A j \in Jobs : lost'[j] >= lost[j]
  BY <1>2 DEF TypeOK
<1> QED
  BY <1>1, <1>2, <1>3, Ended

LEMMA FailStep ==
  ASSUME TypeOK, OrderInv, NEW w \in Workers, JobFails(w) \/ Die(w)
  PROVE  TypeOK' /\ OrderInv'
<1>1. /\ at[w] # "idle" /\ Leave(w) /\ faults' \in 0 .. MaxFaults
      /\ lost' = [lost EXCEPT ![job[w]] = @ + 1]
      /\ UNCHANGED <<attempts, firm, contacts, companies, deals, rows, edits>>
  BY DEF JobFails, Die, Throw, Fault, Ordering, hubVars, TypeOK
<1>2. PICK s \in {"pending", "failed"} : status' = [status EXCEPT ![job[w]] = s]
  BY DEF JobFails, Die, Throw
<1>3. /\ job[w] \in Jobs /\ lost' \in [Jobs -> Nat]
      /\ \A j \in Jobs : lost'[j] >= lost[j]
      /\ lost'[job[w]] >= lost[job[w]] + 1 /\ lost'[job[w]] > 0
  BY <1>1, ContentFacts DEF TypeOK
<1> QED
  BY <1>1, <1>2, <1>3, Ended

LEMMA RefusedStep ==
  ASSUME TypeOK, OrderInv, NEW w \in Workers, DealRefused(w)
  PROVE  TypeOK' /\ OrderInv'
<1>1. \E c \in CompanyIds : companies[c] = Gone
  BY DEF DealRefused, TypeOK
<1>2. /\ at[w] # "idle" /\ Leave(w) /\ status' = [status EXCEPT ![job[w]] = "failed"]
      /\ UNCHANGED <<attempts, firm, contacts, companies, deals, rows, edits,
                     faults, lost>>
  BY DEF DealRefused, Throw, hubVars, countVars
<1>3. /\ faults' \in 0 .. MaxFaults /\ lost' \in [Jobs -> Nat]
      /\ \A j \in Jobs : lost'[j] >= lost[j]
  BY <1>2 DEF TypeOK
<1> QED
  BY <1>1, <1>2, <1>3, Ended

-----------------------------------------------------------------------------
(* The deal and its items.                                                 *)

LEMMA DealStep ==
  ASSUME TypeOK, OrderInv, NEW w \in Workers, CreateDeal(w)
  PROVE  TypeOK' /\ OrderInv'
<1> DEFINE j == job[w]
           deal == [company |-> company[w], items |-> 0]
<1>1. /\ at[w] = "deal" /\ at' = [at EXCEPT ![w] = "items"]
      /\ deals' = [deals EXCEPT ![j] = Append(deals[j], deal)]
      /\ UNCHANGED <<status, attempts, firm, contacts, companies, rows, job,
                     company, edits, faults, lost>>
  BY DEF CreateDeal, Go, queueVars, countVars
<1>2. Columns /\ \A v \in Workers : AtWork(v)
  BY TypeParts
<1>3. j \in Orders /\ j \in Jobs /\ deal \in Deal /\ deals[j] \in Seq(Deal)
      /\ status[j] = "processing" /\ Len(deals[j]) <= lost[j]
  <2>1. "deal" \in Ordering /\ "deal" \in BeforeDeal
    BY DEF Ordering, BeforeDeal, Places
  <2>2. j \in Orders /\ j \in Jobs /\ deals[j] \in Seq(Deal) /\ deal \in Deal
    <3>1. j \in Orders /\ j \in Jobs
      BY <1>1, <1>2, <2>1 DEF AtWork
    <3>2. company[w] \in CompanyIds \cup {None} /\ 0 \in 0 .. Items
      BY <1>2 DEF Columns
    <3>3. deal \in Deal
      BY <3>2 DEF Deal
    <3> QED
      BY <1>2, <3>1, <3>3 DEF Columns
  <2>3. j # None /\ status[j] = "processing"
    BY <2>2 DEF OrderInv, OneHand
  <2> QED
    BY <1>1, <2>1, <2>2, <2>3 DEF OrderInv, DealBudget
<1>4. /\ "items" \in Places /\ "items" \in Ordering
      /\ "items" \notin BeforeDeal \cup Upserting
  BY DEF Places, Ordering, BeforeDeal, Upserting
<1>5. /\ Append(deals[j], deal) \in Seq(Deal)
      /\ Len(Append(deals[j], deal)) = Len(deals[j]) + 1
      /\ Append(deals[j], deal)[Len(deals[j]) + 1] = deal
      /\ Len(deals[j]) \in Nat
  BY <1>3
<1>6. deals' \in [Jobs -> Seq(Deal)] /\ deals'[j] = Append(deals[j], deal)
      /\ \A k \in Jobs \ {j} : deals'[k] = deals[k]
  BY <1>1, <1>2, <1>3, <1>5 DEF Columns
<1>7. Columns'
  BY <1>1, <1>2, <1>4, <1>6 DEF Columns
<1>8. \A v \in Workers : AtWork(v)'
  BY <1>1, <1>2, <1>3, <1>4 DEF Columns, AtWork
<1>9. OneHand'
  BY <1>1 DEF OrderInv, OneHand
<1>10. \A v \in Workers \ {w} : at[v] # "idle" => job[v] \in Jobs \ {j}
  BY <1>2, <1>3, ContentFacts DEF OrderInv, OneHand
<1>11. DealBudget'
  <2>1. \A k \in Jobs : status[k] = "none" => deals'[k] = <<>>
    BY <1>3, <1>6 DEF OrderInv, DealBudget
  <2>2. \A k \in Jobs : Len(deals'[k]) <= lost[k] + 1
    <3>1. \A k \in Jobs : lost[k] \in Nat /\ Len(deals[k]) <= lost[k] + 1
      BY <1>2 DEF Columns, OrderInv, DealBudget
    <3>2. Len(deals'[j]) = Len(deals[j]) + 1
      BY <1>5, <1>6
    <3>3. Len(deals'[j]) <= lost[j] + 1
      <4>1. Len(deals[j]) \in Nat /\ lost[j] \in Nat /\ Len(deals[j]) <= lost[j]
        BY <1>3, <1>5, <3>1
      <4> QED
        BY <3>2, <4>1
    <3>4. ASSUME NEW k \in Jobs, k # j PROVE Len(deals'[k]) <= lost[k] + 1
      <4>1. deals'[k] = deals[k]
        BY <1>6, <3>4
      <4> QED
        BY <3>1, <4>1
    <3> HIDE DEF j
    <3> QED
      BY <3>3, <3>4
  <2>3. \A k \in Jobs : status[k] \in {"none", "pending"} => Len(deals'[k]) <= lost[k]
    BY <1>3, <1>6 DEF OrderInv, DealBudget
  <2>4. \A v \in Workers : at'[v] \in BeforeDeal => Len(deals'[job[v]]) <= lost[job[v]]
    BY <1>1, <1>2, <1>4, <1>6, <1>10
    DEF Columns, OrderInv, DealBudget, BeforeDeal
  <2> QED
    BY <1>1, <2>1, <2>2, <2>3, <2>4 DEF DealBudget
<1>12. AttemptBudget'
  BY <1>1 DEF OrderInv, AttemptBudget
<1>13. DealProgress'
  <2>1. Lacking(j)'
    BY <1>1, <1>5, <1>6 DEF Lacking
  <2>2. \A k \in Jobs \ {j} : Lacking(k)' = Lacking(k) /\ Complete(k)' = Complete(k)
    BY <1>6 DEF Lacking, Complete
  <2>3. \A v \in Workers : at'[v] = "items" => Lacking(job[v])'
    BY <1>1, <1>2, <1>10, <2>1, <2>2 DEF Columns, OrderInv, DealProgress
  <2>4. \A v \in Workers : at'[v] = "log" /\ job[v] \in Orders => Complete(job[v])'
    BY <1>1, <1>2, <1>10, <2>2 DEF Columns, OrderInv, DealProgress
  <2>5. DoneOrderHasDeal'
    BY <1>1, <1>3, <2>2 DEF OrderInv, DealProgress, DoneOrderHasDeal
  <2> QED
    BY <1>1, <2>3, <2>4, <2>5 DEF DealProgress
<1> QED
  BY <1>7, <1>8, <1>9, <1>11, <1>12, <1>13 DEF TypeOK, Columns, OrderInv

LEMMA ItemStep ==
  ASSUME TypeOK, OrderInv, NEW w \in Workers, CreateLineItem(w)
  PROVE  TypeOK' /\ OrderInv'
<1> DEFINE j == job[w]
           n == Len(deals[j])
           deal == [deals[j][n] EXCEPT !.items = deals[j][n].items + 1]
           more == [deals[j] EXCEPT ![n] = deal]
<1>1. PICK p \in {"log", "items"} :
        /\ at' = [at EXCEPT ![w] = p]
        /\ p = "log" => deals[j][n].items + 1 = Items
        /\ p = "items" => deals[j][n].items + 1 # Items
  BY DEF CreateLineItem, Go, ThisDeal
<1>2. /\ at[w] = "items" /\ deals' = [deals EXCEPT ![j] = more]
      /\ UNCHANGED <<status, attempts, firm, contacts, companies, rows, job,
                     company, edits, faults, lost>>
  BY DEF CreateLineItem, ThisDeal, queueVars, countVars
<1>3. Columns /\ \A v \in Workers : AtWork(v)
  BY TypeParts
<1>4. j \in Orders /\ j \in Jobs /\ deals[j] \in Seq(Deal) /\ status[j] = "processing"
      /\ Lacking(j)
  BY <1>2, <1>3 DEF Columns, AtWork, Ordering, OrderInv, OneHand, DealProgress
<1>5. n \in 1 .. Len(deals[j]) /\ deals[j][n] \in Deal /\ deals[j][n].items < Items
  BY <1>4 DEF Lacking
<1>6. deal \in Deal /\ deal.items = deals[j][n].items + 1
  BY <1>5 DEF Deal
<1>7. more \in Seq(Deal) /\ Len(more) = n /\ more[n] = deal
  BY <1>4, <1>5, <1>6
<1>8. deals' \in [Jobs -> Seq(Deal)] /\ deals'[j] = more
      /\ \A k \in Jobs \ {j} : deals'[k] = deals[k]
  BY <1>2, <1>3, <1>4, <1>7 DEF Columns
<1>9. p \in Places /\ p \notin BeforeDeal \cup Upserting /\ p # "idle"
      /\ p \notin {"get", "update", "link", "record", "associate"}
  BY DEF Places, Ordering, BeforeDeal, Upserting
<1>10. Columns'
  BY <1>1, <1>2, <1>3, <1>8, <1>9 DEF Columns
<1>11. \A v \in Workers : AtWork(v)'
  BY <1>1, <1>2, <1>3, <1>4, <1>9 DEF Columns, AtWork
<1>12. OneHand'
  BY <1>2 DEF OrderInv, OneHand
<1>13. \A v \in Workers \ {w} : at[v] # "idle" => job[v] \in Jobs \ {j}
  BY <1>3, <1>4, ContentFacts DEF OrderInv, OneHand
<1>14. \A k \in Jobs : Len(deals'[k]) = Len(deals[k]) /\ (k # j => deals'[k] = deals[k])
  BY <1>7, <1>8
<1>15. DealBudget'
  <2>1. \A k \in Jobs : status[k] = "none" => deals'[k] = <<>>
    BY <1>4, <1>8 DEF OrderInv, DealBudget
  <2>2. \A v \in Workers : at'[v] \in BeforeDeal => Len(deals'[job[v]]) <= lost[job[v]]
    BY <1>1, <1>3, <1>9, <1>13, <1>14
    DEF Columns, OrderInv, DealBudget, BeforeDeal
  <2> QED
    BY <1>2, <1>14, <2>1, <2>2 DEF OrderInv, DealBudget
<1>16. AttemptBudget'
  BY <1>2 DEF OrderInv, AttemptBudget
<1>17. DealProgress'
  <2>1. p = "items" => Lacking(j)'
    BY <1>1, <1>2, <1>5, <1>6, <1>7, <1>8 DEF Lacking, Deal
  <2>2. p = "log" => Complete(j)'
    <3>1. p = "log" => deals'[j][n].items = Items
      BY <1>1, <1>6, <1>7, <1>8
    <3>2. n \in 1 .. Len(deals'[j])
      BY <1>5, <1>7, <1>8
    <3>3. job'[w] = j
      BY <1>2
    <3> QED
      BY <3>1, <3>2, <3>3 DEF Complete
  <2>3. \A k \in Jobs \ {j} : Lacking(k)' = Lacking(k) /\ Complete(k)' = Complete(k)
    BY <1>8 DEF Lacking, Complete
  <2>4. \A v \in Workers : at'[v] = "items" => Lacking(job[v])'
    BY <1>1, <1>2, <1>3, <1>13, <2>1, <2>3 DEF Columns, OrderInv, DealProgress
  <2>5. \A v \in Workers : at'[v] = "log" /\ job[v] \in Orders => Complete(job[v])'
    BY <1>1, <1>2, <1>3, <1>13, <2>2, <2>3 DEF Columns, OrderInv, DealProgress
  <2>6. DoneOrderHasDeal'
    BY <1>2, <1>4, <2>3 DEF OrderInv, DealProgress, DoneOrderHasDeal
  <2> QED
    BY <1>2, <2>4, <2>5, <2>6 DEF DealProgress
<1> QED
  BY <1>10, <1>11, <1>12, <1>15, <1>16, <1>17 DEF TypeOK, Columns, OrderInv

-----------------------------------------------------------------------------
(* People, and the whole.                                                  *)

LEMMA PeopleStep ==
  ASSUME TypeOK, OrderInv, NEW c \in CompanyIds,
         Delete(c) \/ \E n \in Names : Rename(c, n)
  PROVE  TypeOK' /\ OrderInv'
<1>1. PICK to \in Company \cup {Gone} : companies' = [companies EXCEPT ![c] = to]
  BY DEF Delete, Rename, Change, Company
<1>2. /\ companies[c] \in Company /\ edits < MaxEdits /\ edits' = edits + 1
      /\ UNCHANGED <<status, attempts, firm, contacts, deals, rows, at, job,
                     company, faults,
                     lost>>
  BY DEF Delete, Rename, Change, queueVars, workerVars
<1>3. TypeOK'
  BY <1>1, <1>2 DEF TypeOK, AtWork
<1>4. \A d \in CompanyIds : companies[d] = Gone => companies'[d] = Gone
  BY <1>1, <1>2 DEF TypeOK
<1>5. OneHand' /\ DealBudget'
  BY <1>2 DEF OrderInv, OneHand, DealBudget
<1>6. AttemptBudget'
  BY <1>2, <1>4 DEF OrderInv, AttemptBudget
<1>7. DealProgress'
  BY <1>2 DEF OrderInv, DealProgress, DoneOrderHasDeal, Complete, Lacking
<1> QED
  BY <1>3, <1>5, <1>6, <1>7 DEF OrderInv

LEMMA OrderStep == TypeOK /\ OrderInv /\ [Next]_vars => TypeOK' /\ OrderInv'
<1> SUFFICES ASSUME TypeOK, OrderInv, [Next]_vars PROVE TypeOK' /\ OrderInv'
  OBVIOUS
<1>1. CASE \E j \in Jobs, f \in Company \cup {None} : Event(j, f)
  BY <1>1, EventStep
<1>2. CASE \E w \in Workers : JobFails(w) \/ Die(w)
  BY <1>2, FailStep
<1>3. CASE \E w \in Workers : Process(w)
  <2> PICK w \in Workers : Process(w)
    BY <1>3
  <2>1. CASE \E j \in Jobs : Claim(w, j)
    BY <2>1, ClaimStep
  <2>2. CASE QuietStep(w)
    BY <2>2, QuietType, QuietInv
  <2>3. CASE CreateDeal(w)
    BY <2>3, DealStep
  <2>4. CASE DealRefused(w)
    BY <2>4, RefusedStep
  <2>5. CASE CreateLineItem(w)
    BY <2>5, ItemStep
  <2>6. CASE Finish(w)
    BY <2>6, FinishStep
  <2> QED
    BY <2>1, <2>2, <2>3, <2>4, <2>5, <2>6 DEF Process, QuietStep
<1>4. CASE \E c \in CompanyIds : Delete(c) \/ \E n \in Names : Rename(c, n)
  BY <1>4, PeopleStep
<1>5. CASE UNCHANGED vars
  <2> USE <1>5 DEF vars, queueVars, hubVars, workerVars, countVars
  <2>1. TypeOK'
    BY DEF TypeOK, AtWork
  <2>2. OneHand' /\ DealBudget' /\ AttemptBudget'
    BY DEF OrderInv, OneHand, DealBudget, AttemptBudget
  <2>3. DealProgress'
    BY DEF OrderInv, DealProgress, DoneOrderHasDeal, Complete, Lacking
  <2> QED
    BY <2>1, <2>2, <2>3 DEF OrderInv
<1> QED
  BY <1>1, <1>2, <1>3, <1>4, <1>5 DEF Next

(* Whatever fails and whatever people do, every variable keeps its type and *)
(* the invariant of attempts and deals holds.                               *)
THEOREM OrderInvariant == Spec => [](TypeOK /\ OrderInv)
  BY OrderInit, OrderStep, PTL DEF Spec

(* The columns of jobs and companies, and the place of every worker in the  *)
(* handlers, are those the code can be in.                                  *)
THEOREM OrdersTypeCorrect == Spec => []TypeOK
  BY OrderInvariant, PTL

(* A job that is tried again never makes more than one deal an attempt, so  *)
(* an order has at most one deal more than it had attempts that were lost.  *)
THEOREM DealsArePaidForHolds == Spec => []DealsArePaidFor
<1>1. TypeOK /\ OrderInv => DealsArePaidFor
  BY DEF TypeOK, OrderInv, DealBudget, DealsArePaidFor
<1> QED
  BY <1>1, OrderInvariant, PTL

(* An order is marked done only with a deal that has all its line items.    *)
THEOREM DoneOrderHasDealHolds == Spec => []DoneOrderHasDeal
<1>1. OrderInv => DoneOrderHasDeal
  BY DEF OrderInv, DealProgress
<1> QED
  BY <1>1, OrderInvariant, PTL

(* As long as nobody deletes a company, no failure of the company's upsert  *)
(* fails a job or makes it start again.                                     *)
THEOREM CompanyCostsNothingHolds == Spec => []CompanyCostsNothing
<1>1. OrderInv => CompanyCostsNothing
  BY DEF OrderInv, AttemptBudget, CompanyCostsNothing,
         CompanyNeverCostsTheOrder,
    FailsByItself
<1> QED
  BY <1>1, OrderInvariant, PTL
=============================================================================
