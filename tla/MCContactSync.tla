---------------------------- MODULE MCContactSync -----------------------------
(* Instances of ContactSync for TLC.                                       *)
EXTENDS ContactSyncProperties, TLC

Records ==
  Permutations(HubIds) \cup Permutations(ShopIds) \cup Permutations(Mails)
Ids == Records \cup Permutations(Workers)
=============================================================================
