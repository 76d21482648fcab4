CONSTANTS
  s1 = s1
  s2 = s2
  Sub = {s1, s2}
  Product = {"academy", "workflow_support"}
  ProductOf <- MCProductOf
  Handler = {h1, h2}
  Visitor = {v1}
  EventLimit = 4
  ToldInOrder = TRUE
SPECIFICATION Spec
SYMMETRY MCSymmetry
INVARIANTS
  AccessIsPaid
  PayingIsLetIn
