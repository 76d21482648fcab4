SPECIFICATION ConfigurationSpec
CONSTANTS
  a1 = a1
  a2 = a2
  g1 = g1
  g2 = g2
  t1 = t1
  p1 = p1
  p2 = p2
  family = family
  Nobody = Nobody
  Attorney = {a1, a2}
  Group = {g1, g2}
  Type = {t1}
  Area = {family}
  Registered = {p1}
  Key <- MCKey
  Documents <- MCDocuments
  Seeds <- MCSeeds
  SeedAttorneys <- MCSeedAttorneys
  SeedGroups <- MCSeedGroups
  SeedTypes <- MCSeedTypes
  Memberships <- MCMemberships
  Followed <- Domain
INVARIANTS
  SavedIsRead
  RefusedForCause
  ReadyMeansRoutable
PROPERTY LiveEditsWin
