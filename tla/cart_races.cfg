SPECIFICATION CartSpec
CONSTANTS
  s1 = s1  s2 = s2
  Requests = {r1, r2}
  Skus = {s1, s2}
  InitialVariants <- Offers
  Variants <- OneOffer
  MaxQuantity = 2
  MaxEdits = 1
SYMMETRY Symmetry
INVARIANTS CartTypeOK CartsAddUp
PROPERTY WritesOnlyItsItems
