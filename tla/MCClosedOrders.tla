----------------------------- MODULE MCClosedOrders -----------------------------
(* Instances of ClosedOrders for TLC. *)
EXTENDS ClosedOrdersProperties, TLC

CONSTANTS w1, w2, o1, c1, c2, acme, bolt, x, y

(* An order of Bolt, or of a person without a company, and two customers:  *)
(* one of Acme, one of Bolt at another address.                            *)
MCFirms == o1 :> {[name |-> bolt, detail |-> x], None}
        @@ c1 :> {[name |-> acme, detail |-> x]}
        @@ c2 :> {[name |-> bolt, detail |-> y]}
=============================================================================
