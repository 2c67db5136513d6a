SPECIFICATION CommunitySpec
CONSTANTS
  eve = eve
  bob = bob
  cy = cy
  Participants = {eve, bob, cy}
  Creator = eve
  Comments = {k1}
  Images = {i1}
  k1 = k1
  i1 = i1
  Spent <- OneItemLeft
  Reports = {r1, r2}
  Workers = {w1, w2}
  NoPerson = NoPerson
  Nothing = Nothing
  People = {eve}
  Orgs = {o1}
  Ids = {1, 2, 3}
  Preset <- DefaultNames
  Names <- SkillNames
  Stem <- StemOf
  StopWords = {"help"}
  Listed <- Texts
  Realiased = {1}
  Editors = {w1, w2}
  Default = Default
  None = None
SYMMETRY Same
INVARIANTS
  CommunityTypeOK
  OnlyThePairSees
  ReportsHold
  SelectionsWereAllowed
  SuggestionsFit
CHECK_DEADLOCK FALSE
