---------------------------- MODULE DealContract ----------------------------
(***************************************************************************)
(* What one negotiated offer promises to the two parties, without the      *)
(* server, the log or Shopify: the merchant answers once, the buyer can    *)
(* only agree to the price of that answer, and an agreed deal is turned    *)
(* into at most one checkout, at exactly that price.  Negotiation          *)
(* implements it (Negotiation!Contract).                                   *)
(***************************************************************************)
EXTENDS Naturals

CONSTANTS Offers, Prices

VARIABLES phase,     \* of each offer
          price,     \* the price on the table
          checkouts  \* the prices of the checkouts the buyer was given

dealVars == <<phase, price, checkouts>>

DealInit ==
  /\ phase     = [o \in Offers |-> "none"]
  /\ price     = [o \in Offers |-> 0]
  /\ checkouts = [o \in Offers |-> <<>>]

Move(o, from, to) == phase[o] = from /\ phase' = [phase EXCEPT ![o] = to]

Propose(o) ==
  /\ Move(o, "none", "offered")
  /\ \E p \in Prices : price' = [price EXCEPT ![o] = p]
  /\ UNCHANGED checkouts

TakeOffer(o) == Move(o, "offered", "terms") /\ UNCHANGED <<price, checkouts>>

Counter(o) ==
  /\ Move(o, "offered", "terms")
  /\ \E p \in Prices : price' = [price EXCEPT ![o] = p]
  /\ UNCHANGED checkouts

Decline(o) == Move(o, "offered", "declined") /\ UNCHANGED <<price, checkouts>>
Agree(o)   == Move(o, "terms", "agreed") /\ UNCHANGED <<price, checkouts>>

OpenCheckout(o) ==
  /\ Move(o, "agreed", "payable")
  /\ checkouts' = [checkouts EXCEPT ![o] = <<price[o]>>]
  /\ UNCHANGED price

DealStep(o) ==
  \/ Propose(o) \/ TakeOffer(o) \/ Counter(o) \/ Decline(o)
  \/ Agree(o) \/ OpenCheckout(o)

DealSpec == DealInit /\ [][\E o \in Offers : DealStep(o)]_dealVars
=============================================================================
