-------------------------- MODULE ReconcileProperties --------------------------
(***************************************************************************)
(* What the sweep is for: changes whose event was lost.                    *)
(***************************************************************************)
EXTENDS Reconcile

(* What will be synced last of r, as things stand, is what r holds. *)
Accounted(r) ==
  IF queue[r] = None THEN hash[r] = content[r] ELSE queue[r] \in {Live, content[r]}

(* A pass that began now would list r. *)
InWindow(r) == stamp[r] >= WindowStart(mark, clock)

(* SweepMissesNothing: a change that is neither synced nor about to be is  *)
(* in the window of the next pass, whatever failed in the passes so far:   *)
(* "Only advance the watermark when both sides were scanned cleanly,       *)
(* otherwise the failed side's window would be lost for good"              *)
(* (reconcile.ts).                                                         *)
SweepMissesNothing == \A r \in Records : Accounted(r) \/ InWindow(r)

(* NothingFallsBetween: the same, up to the first scan that was cut at     *)
(* MaxPages.                                                               *)
NothingFallsBetween == cut \/ SweepMissesNothing

(* LostEventsAreFound: once nobody edits any more, every change is synced  *)
(* in the end, those whose event was lost included.                        *)
LostEventsAreFound == <>[](cut \/ \A r \in Records : hash[r] = content[r])

-----------------------------------------------------------------------------
(* The invariant behind NothingFallsBetween.                               *)

(* What it takes: one process sweeps, jobs are done before the next pass   *)
(* begins, clocks differ by less than the overlap, a first pass is clean   *)
(* in time, and the shop lists its customers.                              *)
Punctual ==
  /\ \A p, q \in Processes : p = q
  /\ ~Backlog
  /\ Skew <= Overlap
  /\ FirstPassInTime
  /\ ShopLists

(* The watermark and the windows are behind the clock, and a pass is not   *)
(* behind the watermark.                                                   *)
ClockInv ==
  /\ mark = Never => clock <= Lookback
  /\ mark # Never => mark <= clock
  /\ \A p \in Processes : phase[p] # "idle" =>
       /\ start[p] <= clock
       /\ mark # Never => mark <= start[p]
       /\ phase[p] # "list" => since[p] = WindowStart(mark, start[p])

(* r has not been modified since the pass of p began. *)
Settled(p, r) == stamp[r] < start[p] - Overlap

(* Of such a record, nothing out of date is queued or in hand. *)
NothingOld ==
  \A p \in Processes, r \in Records : phase[p] # "idle" /\ Settled(p, r) =>
    /\ queue[r] \in {None, content[r]}
    /\ got[p][r] \in {None, content[r]}

(* What was listed is in hand, and so is what was found to have changed. *)
ListedInHand ==
  \A p \in Processes :
    /\ \A r \in changed[p] : got[p][r] # None
    /\ phase[p] \notin {"queueContacts", "queueCustomers"} => changed[p] = {}
    /\ phase[p] \in {"idle", "list"} => listed[p] = {} /\ got[p] = NothingGot
    /\ phase[p] = "contacts" => \A r \in Contacts :
         Settled(p, r) /\ <<r, stamp[r]>> \in listed[p] => got[p][r] = content[r]

(* Once a side has been scanned, its records are accounted for or in hand; *)
(* once they are queued, they are accounted for.                           *)
SideDone(p, side, scanned, queued) ==
  \A r \in side : Settled(p, r) =>
    /\ phase[p] \in scanned => Accounted(r) \/ got[p][r] = content[r]
    /\ phase[p] \in queued => Accounted(r)

SidesDone ==
  \A p \in Processes : cut \/ errors[p] \/
    /\ SideDone(p, Contacts, {"queueContacts"},
                {"customers", "queueCustomers", "mark"})
    /\ SideDone(p, Customers, {"queueCustomers"}, {"mark"})

(* What is still to be found was modified after the watermark, or no more  *)
(* than the overlap before it.                                             *)
FoundByOverlap ==
  mark # Never =>
    cut \/ \A r \in Records : Accounted(r) \/ stamp[r] >= mark - Overlap

SweepInv ==
  /\ ClockInv
  /\ NothingOld
  /\ ListedInHand
  /\ SidesDone
  /\ FoundByOverlap
=============================================================================
