------------------------------ MODULE MCReconcile ------------------------------
(* Instances of Reconcile for TLC: the model values are in the .cfg files. *)
EXTENDS ReconcileProperties, TLC

(* The values of a field are interchangeable (safety runs only). *)
AlikeContents == Permutations(Contents)

(* What a record holds is compared with what the same record held only, so *)
(* all of them may as well begin with one value.                           *)
FirstContent == CHOOSE v \in Contents : TRUE

SweepInit == Init /\ content = [r \in Records |-> FirstContent]

SweepSpec == SweepInit /\ [][Next]_vars /\ Fairness
=============================================================================
