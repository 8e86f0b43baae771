------------------------- MODULE MCWebhookHydration -------------------------
(* Instances of WebhookHydration for TLC.                                  *)
EXTENDS WebhookHydration, TLC

CONSTANTS d1, d2, s1, s2, o1, o2, v1

(* Two purchase orders that one directive names, and a delivery that       *)
(* another one does, of the same store or of another.                      *)
OneStoreOrTwo == d1 :> {s1} @@ d2 :> {s1, s2}
EachItsOwn == d1 :> {o1, o2} @@ d2 :> {v1}

OrdersAndDeliveries ==
    o1 :> "purchase-orders" @@ o2 :> "purchase-orders" @@ v1 :> "deliveries"
=============================================================================
