SPECIFICATION Spec
CONSTANTS
  drill = drill
  glue = glue
  Requests = {r1, r2}
  Products <- MCProducts
  Prices <- MCPrices
  Tiers <- MCTiers
  Codes <- MCCodes
  Deliveries <- MCDeliveries
  MaxQuantity = 2
  MaxUses = 1
INVARIANTS DiscountsWithinSubtotal CodeEarned QuoteKept
PROPERTY RemovedStaysRemoved
SYMMETRY MCSymmetry
