------------------------------ MODULE ClosedOrders ------------------------------
(***************************************************************************)
(* The side effects of jobs in HubSpot: companies, and deals with their    *)
(* line items (src/sync/processClosedOrder.ts, syncCompany.ts).            *)
(*                                                                         *)
(* A closed order finds or creates its contact, upserts and associates the *)
(* company of the buyer as best it can, and creates the deal and the line  *)
(* items.  The job of a customer (syncContact) upserts the company in the  *)
(* same way once the contact is written.  Each await is a step.  A         *)
(* company's name stands for its companyKey, and each order has an email   *)
(* of its own.                                                             *)
(***************************************************************************)
EXTENDS Naturals, Sequences

CONSTANTS
  Workers,
  Jobs,          \* rows of sync_jobs
  Orders,        \* those of closed orders; the others are of customers
  Firms,         \* job -> the companies its payload may have, None for none
  Names,         \* names of companies
  Details,       \* their other fields
  Items,         \* line items of an order
  MaxAttempts,
  People,        \* what people do to companies in HubSpot: "rename", "delete"
  MaxCompanies,  \* bound: companies ever created
  MaxEdits,      \* bound: what people do
  MaxFaults,     \* bound: calls that fail, workers that die
  None,          \* null
  Gone           \* a deleted company

Company == [name : Names, detail : Details]
CompanyIds == 1 .. MaxCompanies
Row == [company : CompanyIds \cup {None}, hash : Company \cup {None}]

ASSUME OrdersAssumption ==
  /\ Orders \subseteq Jobs
  /\ Firms \in [Jobs -> SUBSET (Company \cup {None})]
  /\ MaxAttempts \in Nat \ {0}
  /\ Items \in Nat \ {0}
  /\ MaxCompanies \in Nat /\ MaxEdits \in Nat /\ MaxFaults \in Nat
  /\ None \notin Nat \cup Company \cup Row \cup Jobs
  /\ Gone \notin Company /\ Gone # None

VARIABLES
  status, attempts,  \* columns of sync_jobs
  firm,              \* the company in a job's payload, or None
  contacts,          \* orders whose email has a contact
  companies,         \* HubSpot: id -> company, None or Gone
  rows,              \* company_mappings: name -> row, or None
  deals,             \* HubSpot: job -> the deals made for it, in order
  at,                \* worker -> where it is
  job,               \*           its job
  company,           \*           companyId
  edits, faults,
  lost               \* ghost: job -> attempts that failed outside the company's
                     \*   upsert, or whose worker died

queueVars == <<status, attempts, firm>>
hubVars == <<contacts, companies, deals>>
workerVars == <<at, job, company>>
countVars == <<edits, faults, lost>>
vars == <<queueVars, hubVars, rows, workerVars, countVars>>

Deal == [company : CompanyIds \cup {None}, items : 0 .. Items]

(* Inside the try of the company, before companyId is known, and at the    *)
(* association.                                                            *)
Upserting == {"findRow", "createRow", "rereadRow", "get", "search", "update",
              "create", "link", "record"}
Ordering == {"findContact", "createContact", "deal", "items"}
Places == {"idle", "associate", "log"} \cup Upserting \cup Ordering

AtWork(w) ==
  /\ at[w] = "idle" <=> job[w] = None
  /\ at[w] \in {"get", "update", "link", "record", "associate"} => company[w] # None
  /\ at[w] \in Ordering => job[w] \in Orders
  /\ at[w] \in Upserting \ {"findRow"} => firm[job[w]] # None
  /\ at[w] \in Upserting \ {"findRow", "createRow"} =>
       rows[firm[job[w]].name] # None

(* TypeOK: a worker has a job exactly while it is busy, upserts a company   *)
(* only if its payload has one, knows the company it is about to write and  *)
(* has its row, and deals are orders' only.                                *)
TypeOK ==
  /\ status \in [Jobs -> {"none", "pending", "processing", "done", "failed"}]
  /\ attempts \in [Jobs -> Nat]
  /\ firm \in [Jobs -> Company \cup {None}]
  /\ contacts \subseteq Orders
  /\ companies \in [CompanyIds -> Company \cup {None, Gone}]
  /\ rows \in [Names -> Row \cup {None}]
  /\ deals \in [Jobs -> Seq(Deal)]
  /\ at \in [Workers -> Places]
  /\ job \in [Workers -> Jobs \cup {None}]
  /\ company \in [Workers -> CompanyIds \cup {None}]
  /\ edits \in 0 .. MaxEdits
  /\ faults \in 0 .. MaxFaults
  /\ lost \in [Jobs -> Nat]
  /\ \A w \in Workers : AtWork(w)

Init ==
  /\ status = [j \in Jobs |-> "none"]
  /\ attempts = [j \in Jobs |-> 0]
  /\ firm = [j \in Jobs |-> None]
  /\ contacts = {}
  /\ companies = [c \in CompanyIds |-> None]
  /\ rows = [n \in Names |-> None]
  /\ deals = [j \in Jobs |-> <<>>]
  /\ at = [w \in Workers |-> "idle"]
  /\ job = [w \in Workers |-> None]
  /\ company = [w \in Workers |-> None]
  /\ edits = 0
  /\ faults = 0
  /\ lost = [j \in Jobs |-> 0]

-----------------------------------------------------------------------------
(* The queue, as SyncQueue leaves it.                                      *)

(* An event is accepted, in a row of its own.  (Two rows of one key are in  *)
(* work one after the other, so that they are two jobs here.)              *)
Event(j, f) ==
  /\ status[j] = "none"
  /\ f \in Firms[j]
  /\ status' = [status EXCEPT ![j] = "pending"]
  /\ firm' = [firm EXCEPT ![j] = f]
  /\ UNCHANGED <<attempts, hubVars, rows, workerVars, countVars>>

(* Slip: a row that is being processed is taken as well. *)
AlsoProcessing(j) == status[j] \in {"pending", "processing"}

Claimable(j) == status[j] = "pending"

Claim(w, j) ==
  /\ at[w] = "idle"
  /\ Claimable(j)
  /\ status' = [status EXCEPT ![j] = "processing"]
  /\ attempts' = [attempts EXCEPT ![j] = @ + 1]
  /\ job' = [job EXCEPT ![w] = j]
  /\ at' = [at EXCEPT ![w] = IF j \in Orders THEN "findContact" ELSE "findRow"]
  /\ UNCHANGED <<firm, hubVars, rows, company, countVars>>

Content(w) == firm[job[w]]
Name(w) == Content(w).name
Go(w, place) == at' = [at EXCEPT ![w] = place]

(* The worker is done with its job. *)
Leave(w) ==
  /\ Go(w, "idle")
  /\ job' = [job EXCEPT ![w] = None]
  /\ company' = [company EXCEPT ![w] = None]

-----------------------------------------------------------------------------
(* ensureContactFromOrder.                                                 *)

FindContact(w) ==
  /\ at[w] = "findContact"
  /\ Go(w, IF job[w] \in contacts THEN "findRow" ELSE "createContact")
  /\ UNCHANGED <<queueVars, hubVars, rows, job, company, countVars>>

(* A conflict is answered with the contact that is there. *)
CreateContact(w) ==
  /\ at[w] = "createContact"
  /\ contacts' = contacts \cup {job[w]}
  /\ Go(w, "findRow")
  /\ UNCHANGED <<queueVars, companies, deals, rows, job, company, countVars>>

-----------------------------------------------------------------------------
(* syncCompanyFromContact.                                                 *)

(* The job goes on, with or without a company. *)
Continue(w) == Go(w, IF job[w] \in Orders THEN "deal" ELSE "log")

(* Slip: a row without a company is not told apart. *)
AlwaysGet(w, row) ==
  /\ company' = [company EXCEPT ![w] = row.company]
  /\ Go(w, IF row.hash = Content(w) THEN "associate" ELSE "get")

(* What follows once the row is known: a company that was synced like this *)
(* before is not written again.                                            *)
WithRow(w, row) ==
  /\ company' = [company EXCEPT ![w] = row.company]
  /\ Go(w, IF row.company = None THEN "search"
           ELSE IF row.hash = Content(w) THEN "associate" ELSE "get")

(* skipped_no_company: there is nothing to upsert or to associate. *)
NoCompany(w) ==
  /\ at[w] = "findRow"
  /\ Content(w) = None
  /\ Continue(w)
  /\ UNCHANGED <<queueVars, hubVars, rows, job, company, countVars>>

FindRow(w) ==
  /\ at[w] = "findRow"
  /\ Content(w) # None
  /\ IF rows[Name(w)] = None
     THEN Go(w, "createRow") /\ UNCHANGED company
     ELSE WithRow(w, rows[Name(w)])
  /\ UNCHANGED <<queueVars, hubVars, rows, job, countVars>>

NewRow == [company |-> None, hash |-> None]

(* Slip: create answers a conflict by calling itself, so that who has lost *)
(* the race asks for the row again and again and is refused each time.     *)
CreateAgain(w) ==
  /\ at[w] = "createRow"
  /\ IF rows[Name(w)] = None
     THEN rows' = [rows EXCEPT ![Name(w)] = NewRow] /\ WithRow(w, NewRow)
     ELSE Go(w, "createRow") /\ UNCHANGED <<rows, company>>
  /\ UNCHANGED <<queueVars, hubVars, job, countVars>>

(* create: if another has created the row meanwhile (P2002), ...           *)
CreateRow(w) ==
  /\ at[w] = "createRow"
  /\ IF rows[Name(w)] = None
     THEN rows' = [rows EXCEPT ![Name(w)] = NewRow] /\ WithRow(w, NewRow)
     ELSE Go(w, "rereadRow") /\ UNCHANGED <<rows, company>>
  /\ UNCHANGED <<queueVars, hubVars, job, countVars>>

(* ... it is read once again.  Rows are never deleted, so it is there; the *)
(* conflict is thrown on if it were not.                                   *)
RereadRow(w) ==
  /\ at[w] = "rereadRow"
  /\ WithRow(w, rows[Name(w)])
  /\ UNCHANGED <<queueVars, hubVars, rows, job, countVars>>

GetCompany(w) ==
  /\ at[w] = "get"
  /\ IF companies[company[w]] = Gone
     THEN Go(w, "search") /\ company' = [company EXCEPT ![w] = None]
     ELSE Go(w, "update") /\ UNCHANGED company
  /\ UNCHANGED <<queueVars, hubVars, rows, job, countVars>>

Named(n) == {c \in CompanyIds : companies[c] \in Company /\ companies[c].name = n}

(* The search returns one of them at most. *)
SearchCompany(w) ==
  /\ at[w] = "search"
  /\ \/ /\ Named(Name(w)) = {}
        /\ Go(w, "create")
        /\ UNCHANGED company
     \/ \E c \in Named(Name(w)) :
          company' = [company EXCEPT ![w] = c] /\ Go(w, "update")
  /\ UNCHANGED <<queueVars, hubVars, rows, job, countVars>>

UpdateCompany(w) ==
  /\ at[w] = "update"
  /\ companies[company[w]] # Gone
  /\ companies' = [companies EXCEPT ![company[w]] = Content(w)]
  /\ Go(w, "link")
  /\ UNCHANGED <<queueVars, contacts, deals, rows, job, company, countVars>>

(* A name is no unique key in HubSpot: every create makes a company. *)
CreateCompany(w) ==
  /\ at[w] = "create"
  /\ \E c \in CompanyIds :
       /\ companies[c] = None
       /\ \A d \in CompanyIds : d < c => companies[d] # None
       /\ companies' = [companies EXCEPT ![c] = Content(w)]
       /\ company' = [company EXCEPT ![w] = c]
  /\ Go(w, "link")
  /\ UNCHANGED <<queueVars, contacts, deals, rows, job, countVars>>

(* The unique key of hubspotCompanyId. *)
Taken(c, n) == \E m \in Names \ {n} : rows[m] # None /\ rows[m].company = c

(* upsertByCompanyKey; rows are never deleted. *)
LinkCompany(w) ==
  /\ at[w] = "link"
  /\ ~Taken(company[w], Name(w))
  /\ rows' = [rows EXCEPT ![Name(w)].company = company[w]]
  /\ Go(w, "record")
  /\ UNCHANGED <<queueVars, hubVars, job, company, countVars>>

RecordCompany(w) ==
  /\ at[w] = "record"
  /\ rows' = [rows EXCEPT ![Name(w)].hash = Content(w)]
  /\ Go(w, "associate")
  /\ UNCHANGED <<queueVars, hubVars, job, company, countVars>>

(* associateContactWithCompany.  If it throws, the catch goes on with the   *)
(* companyId that was set before, also if the company does not exist.      *)
Associate(w) ==
  /\ at[w] = "associate"
  /\ Continue(w)
  /\ UNCHANGED <<queueVars, hubVars, rows, job, company, countVars>>
-----------------------------------------------------------------------------
(* The deal.                                                               *)

CreateDeal(w) ==
  /\ at[w] = "deal"
  /\ company[w] # None => companies[company[w]] # Gone
  /\ deals' = [deals EXCEPT ![job[w]] =
                 Append(@, [company |-> company[w], items |-> 0])]
  /\ Go(w, "items")
  /\ UNCHANGED <<queueVars, contacts, companies, rows, job, company, countVars>>

(* deal.id is that of the last deal made for the job. *)
ThisDeal(w) == Len(deals[job[w]])

CreateLineItem(w) ==
  /\ at[w] = "items"
  /\ deals' = [deals EXCEPT ![job[w]][ThisDeal(w)].items = @ + 1]
  /\ Go(w, IF deals[job[w]][ThisDeal(w)].items + 1 = Items THEN "log" ELSE "items")
  /\ UNCHANGED <<queueVars, contacts, companies, rows, job, company, countVars>>

(* The audit entry, and markDone. *)
Finish(w) ==
  /\ at[w] = "log"
  /\ status' = [status EXCEPT ![job[w]] = "done"]
  /\ Leave(w)
  /\ UNCHANGED <<attempts, firm, hubVars, rows, countVars>>

-----------------------------------------------------------------------------
(* What goes wrong.                                                        *)

(* Slip: a line item that fails is logged only. *)
ThrowButItems(w, retryable) ==
  IF at[w] = "items" THEN Go(w, "log") /\ UNCHANGED <<status, job, company>>
  ELSE /\ status' = [status EXCEPT ![job[w]] =
                       IF retryable /\ attempts[job[w]] < MaxAttempts
                       THEN "pending" ELSE "failed"]
       /\ Leave(w)

(* The catch of process, and markFailed. *)
Throw(w, retryable) ==
  /\ status' = [status EXCEPT ![job[w]] =
                  IF retryable /\ attempts[job[w]] < MaxAttempts
                  THEN "pending" ELSE "failed"]
  /\ Leave(w)

Fault ==
  /\ faults < MaxFaults
  /\ faults' = faults + 1

(* Slip: the company's error is thrown on. *)
Rethrow(w) == Throw(w, TRUE)

(* The catch around the company. *)
CatchCompany(w) ==
  /\ company' = [company EXCEPT ![w] = None]
  /\ Continue(w)
  /\ UNCHANGED <<status, job>>

(* A call fails, the company has been deleted, or another row has it.      *)
CompanyFails(w) ==
  /\ at[w] \in Upserting /\ Content(w) # None
  /\ \/ Fault
     \/ /\ \/ at[w] = "update" /\ companies[company[w]] = Gone
           \/ at[w] = "link" /\ Taken(company[w], Name(w))
        /\ UNCHANGED faults
  /\ CatchCompany(w)
  /\ UNCHANGED <<attempts, firm, hubVars, rows, edits, lost>>

(* A call outside it fails: a network error, or an answer that is final. *)
JobFails(w) ==
  /\ at[w] \in Ordering \cup {"log"}
  /\ Fault
  /\ \E retryable \in BOOLEAN : Throw(w, retryable)
  /\ lost' = [lost EXCEPT ![job[w]] = @ + 1]
  /\ UNCHANGED <<attempts, firm, hubVars, rows, edits>>

(* HubSpot refuses a deal that is to be associated with what is not there. *)
DealRefused(w) ==
  /\ at[w] = "deal"
  /\ company[w] # None /\ companies[company[w]] = Gone
  /\ Throw(w, FALSE)
  /\ UNCHANGED <<attempts, firm, hubVars, rows, countVars>>

(* A worker dies; once its lock is stale, the row is pending again. *)
Die(w) ==
  /\ at[w] # "idle"
  /\ Fault
  /\ status' = [status EXCEPT ![job[w]] = "pending"]
  /\ Leave(w)
  /\ lost' = [lost EXCEPT ![job[w]] = @ + 1]
  /\ UNCHANGED <<attempts, firm, hubVars, rows, edits>>

-----------------------------------------------------------------------------
(* People at work in HubSpot.                                              *)

Change(kind, c, to) ==
  /\ kind \in People
  /\ edits < MaxEdits
  /\ edits' = edits + 1
  /\ companies[c] \in Company
  /\ companies' = [companies EXCEPT ![c] = to]
  /\ UNCHANGED <<queueVars, contacts, deals, rows, workerVars, faults, lost>>

Rename(c, n) == Change("rename", c, [companies[c] EXCEPT !.name = n])

Delete(c) == Change("delete", c, Gone)

-----------------------------------------------------------------------------
Process(w) ==
  \/ \E j \in Jobs : Claim(w, j)
  \/ FindContact(w) \/ CreateContact(w)
  \/ NoCompany(w) \/ FindRow(w) \/ CreateRow(w) \/ RereadRow(w)
  \/ GetCompany(w) \/ SearchCompany(w) \/ UpdateCompany(w) \/ CreateCompany(w)
  \/ LinkCompany(w) \/ RecordCompany(w) \/ CompanyFails(w)
  \/ Associate(w)
  \/ CreateDeal(w) \/ DealRefused(w) \/ CreateLineItem(w)
  \/ Finish(w)

Next ==
  \/ \E j \in Jobs, f \in Company \cup {None} : Event(j, f)
  \/ \E w \in Workers : Process(w) \/ JobFails(w) \/ Die(w)
  \/ \E c \in CompanyIds : Delete(c) \/ \E n \in Names : Rename(c, n)

Spec == Init /\ [][Next]_vars

(* Workers keep ticking, and every call returns or throws. *)
FairSpec == Spec /\ \A w \in Workers : WF_vars(Process(w))
=============================================================================
