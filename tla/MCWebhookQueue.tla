--------------------------- MODULE MCWebhookQueue ---------------------------
(* Instances of WebhookQueue for TLC.                                      *)
EXTENDS WebhookQueue, TLC

CONSTANTS p1, p2, s1

(* A purchase order of a store and an unregistered event.                  *)
OrderAndUnknown == p1 :> "order" @@ p2 :> "unknown"
StoreAndApp == p1 :> s1 @@ p2 :> NoStore

(* Two authorization changes of one store.                                 *)
TwoAuthorizations == p1 :> "authorization" @@ p2 :> "authorization"
SameStore == p1 :> s1 @@ p2 :> s1

(* The platform retries the purchase order.                                *)
OrderTwice == p1 :> 2 @@ p2 :> 1
EachOnce == p1 :> 1 @@ p2 :> 1

Symmetry == Permutations(Workers) \cup Permutations(Requests)
=============================================================================
