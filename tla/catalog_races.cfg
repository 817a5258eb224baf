SPECIFICATION Spec
CONSTANTS
  Requests = {r1, r2}
  Skus = {s1, s2}
  Names = {n1, n2}
  MaxVariants = 1
  MaxQuantity = 2
  MaxProducts = 2
  MaxCategories = 2
  MaxOrders = 1
SYMMETRY Symmetry
INVARIANTS CatalogTypeOK NoSharedSku SoldStaysSold CategoryNamesUnique
CHECK_DEADLOCK FALSE
