CONSTANTS
  root = root
  a = a
  b = b
  p1 = p1
  p2 = p2
  t1 = t1
  t2 = t2
  Subject = {root, a, b}
  Deployments <- Extended
  NoneWithdrawn = TRUE
  Token = {t1, t2}
  Page = {p1, p2}
  Described = {"policy"}
  Catalog = {"group"}
  Reseeding = FALSE
  SeedsValid = {TRUE}
  WriteLimit = 5
  Nobody = Nobody
SPECIFICATION OpenSpec
SYMMETRY Interchangeable
CHECK_DEADLOCK FALSE
PROPERTIES
  LastAdministrator
  OnlyAdministrators
  NoSilentOverwrite
