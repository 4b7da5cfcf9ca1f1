------------------------- MODULE ClosedOrdersProperties -------------------------
(***************************************************************************)
(* What an order leaves behind in HubSpot, whatever fails.                 *)
(***************************************************************************)
EXTENDS ClosedOrders

(* DealsArePaidFor: createDeal has no key that HubSpot could tell a retry  *)
(* by, so each attempt that is lost may leave a deal behind; no more do.   *)
DealsArePaidFor ==
  \A j \in Jobs : Len(deals[j]) <= IF status[j] = "none" THEN 0 ELSE 1 + lost[j]

(* DoneOrderHasDeal: an order whose job is done has a deal with all of its *)
(* line items, however many half-made ones there are.                      *)
Complete(j) == \E i \in 1 .. Len(deals[j]) : deals[j][i].items = Items

DoneOrderHasDeal == \A j \in Orders : status[j] = "done" => Complete(j)

(* CompanyNeverCostsTheOrder: "company upsert/association failed;          *)
(* continuing with deal" (processClosedOrder.ts): a job fails, or is tried *)
(* again, only if something other than its company has failed.             *)
FailsByItself(j) ==
  /\ status[j] = "failed" => lost[j] > 0
  /\ attempts[j] <= lost[j] + 1

CompanyNeverCostsTheOrder == \A j \in Jobs : FailsByItself(j)

(* CompanyCostsNothing: the same as long as no company is deleted.         *)
CompanyCostsNothing ==
  (\A c \in CompanyIds : companies[c] # Gone) => CompanyNeverCostsTheOrder

(* EveryJobEnds: in the end every job that was accepted is done or failed, *)
(* also when workers meet on one company's row.                            *)
EveryJobEnds == <>[](\A j \in Jobs : status[j] \in {"none", "done", "failed"})

-----------------------------------------------------------------------------
(* The invariant behind them.                                              *)

(* A job in hand is being processed, by one worker. *)
OneHand ==
  /\ \A w \in Workers : job[w] # None => status[job[w]] = "processing"
  /\ \A v, w \in Workers : v # w /\ job[w] # None => job[v] # job[w]

(* Places at which this attempt has made no deal yet. *)
BeforeDeal == Places \ {"idle", "items", "log"}

(* A job that is about to begin, and a worker before its deal, have a deal *)
(* to make; an attempt makes one only.                                     *)
DealBudget ==
  /\ \A j \in Jobs : status[j] = "none" => deals[j] = <<>>
  /\ \A j \in Jobs : Len(deals[j]) <= lost[j] + 1
  /\ \A j \in Jobs : status[j] \in {"none", "pending"} => Len(deals[j]) <= lost[j]
  /\ \A w \in Workers : at[w] \in BeforeDeal => Len(deals[job[w]]) <= lost[job[w]]

AttemptBudget ==
  /\ \A j \in Jobs : attempts[j] <= lost[j] + 1
  /\ \A j \in Jobs : status[j] \in {"none", "pending"} => attempts[j] <= lost[j]
  /\ \A j \in Jobs : status[j] = "failed" =>
       lost[j] > 0 \/ \E c \in CompanyIds : companies[c] = Gone

(* The last deal of a job lacks items while its worker creates them, and   *)
(* is complete when it is done with that.                                  *)
Lacking(j) == Len(deals[j]) > 0 /\ deals[j][Len(deals[j])].items < Items

DealProgress ==
  /\ \A w \in Workers : at[w] = "items" => Lacking(job[w])
  /\ \A w \in Workers : at[w] = "log" /\ job[w] \in Orders => Complete(job[w])
  /\ DoneOrderHasDeal

OrderInv == OneHand /\ DealBudget /\ AttemptBudget /\ DealProgress
=============================================================================
