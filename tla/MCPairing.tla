------------------------------- MODULE MCPairing ------------------------------
(* Two portals, each with its shop, and HubSpot's account of one of them.  *)
EXTENDS PairingProperties, TLC

CONSTANTS t1, t2

MCAccounts == {Hub(t1), Ox(t1), Ox(t2)}

Alike ==
  Permutations(Shops) \cup Permutations(Requests)
    \cup Permutations(Callers) \cup Permutations(Processes)
=============================================================================
