----------------------------- MODULE MCSyncQueue ----------------------------
(***************************************************************************)
(* SyncQueue for TLC: keys, workers and senders are model values.          *)
(***************************************************************************)
EXTENDS SyncQueueProperties, TLC

CONSTANTS k1, k2, w1, w2, s1, s2

(* Workers and senders are interchangeable; row ids are not, they are      *)
(* ordered by createdAt.                                                   *)
Symmetry == Permutations(Workers) \cup Permutations(Senders)
=============================================================================
