CONSTANTS
  s1 = s1
  s2 = s2
  Sub = {s1}
  Product = {"academy", "workflow_support"}
  ProductOf <- MCProductOf
  Handler = {h1}
  Visitor = {v1}
  EventLimit = 3
  ToldInOrder = FALSE
SPECIFICATION Spec
SYMMETRY MCSymmetry
INVARIANTS
  AccessIsPaid
