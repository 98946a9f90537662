--------------------------- MODULE MCStripeBilling ---------------------------
(***************************************************************************)
(* StripeBilling for TLC: two configured prices and one unknown to the     *)
(* configuration.                                                          *)
(***************************************************************************)
EXTENDS StripeBilling, TLC

CONSTANTS team, business, unmapped   \* Prices

AllPrices == {team, business, unmapped}

Configured == team :> "team" @@ business :> "business"

\* Subscriptions, customers and delivery slots are only compared.
Interchangeable ==
    Permutations(Subs) \cup Permutations(Customers) \cup Permutations(Deliveries)
=============================================================================
