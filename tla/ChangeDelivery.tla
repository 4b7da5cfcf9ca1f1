--------------------------- MODULE ChangeDelivery ---------------------------
(***************************************************************************)
(* What the job queue promises to the systems that send it events, told    *)
(* without rows, workers or locks.                                         *)
(*                                                                         *)
(* A change is a pair <<record key, version>>.  The source makes a change; *)
(* a webhook route acknowledges it, which makes it a promise; later the    *)
(* change is either covered by a sync that ran to its end, or it is given  *)
(* up in the open, as a job left 'failed'.  Nothing is ever taken back,    *)
(* and no promise is forgotten.                                            *)
(***************************************************************************)
CONSTANT Changes       \* every change the source may ever make

VARIABLES changed,     \* made at the source
          promised,    \* acknowledged to the sender
          covered,     \* seen by a sync that ran to its end
          givenUp      \* left behind on a failed job

deliveryVars == <<changed, promised, covered, givenUp>>

Settled(c) == c \in covered \cup givenUp

DeliveryInit ==
  /\ changed = {}
  /\ promised = {}
  /\ covered = {}
  /\ givenUp = {}

(* The source makes further changes. *)
Make ==
  /\ changed' \in SUBSET Changes
  /\ changed \subseteq changed'
  /\ UNCHANGED <<promised, covered, givenUp>>

(* Changes that were made are acknowledged; a change may be acknowledged   *)
(* onto a job that has already failed, which settles it at once.           *)
Acknowledge ==
  /\ promised' \in SUBSET changed
  /\ promised \subseteq promised'
  /\ givenUp' \in SUBSET promised'
  /\ givenUp \subseteq givenUp'
  /\ UNCHANGED <<changed, covered>>

(* A sync ends: it covers some of the changes made so far, possibly ones   *)
(* that nobody has announced yet.                                          *)
Cover ==
  /\ covered' \in SUBSET changed
  /\ covered \subseteq covered'
  /\ UNCHANGED <<changed, promised, givenUp>>

(* A job fails for good: promises are given up, never silently.            *)
GiveUp ==
  /\ givenUp' \in SUBSET promised
  /\ givenUp \subseteq givenUp'
  /\ UNCHANGED <<changed, promised, covered>>

DeliveryNext == Make \/ Acknowledge \/ Cover \/ GiveUp

(* A change is promised and open, and this step settles it. *)
Settle(c) ==
  /\ c \in promised
  /\ ~Settled(c)
  /\ DeliveryNext
  /\ Settled(c)'

DeliverySafety == DeliveryInit /\ [][DeliveryNext]_deliveryVars

DeliverySpec ==
  /\ DeliverySafety
  /\ \A c \in Changes : WF_deliveryVars(Settle(c))
=============================================================================
