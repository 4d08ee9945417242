\* One negotiation under several faults.
SPECIFICATION FairSpec
CONSTANTS
  Offers = {o1}
  Nobody = Nobody
  Prices = {1, 2, 3}
  MaxLog = 14
  MaxDrafts = 4
  MaxFaults = 3
INVARIANTS
  NegotiationInv
  AgreedPrice
  OneCheckout
PROPERTIES
  FailsClosed
  Contract
  QueueReleased
\* A declined offer, or a checkout left started, has no next step.
CHECK_DEADLOCK FALSE
