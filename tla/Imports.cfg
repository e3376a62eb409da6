\* Two processes apply three reviewed catalogues of sessions, in two repositories, or two
\* proposals and two plans for one Epic, beside hooks, decisions and a fault.
CONSTANTS
  Nothing = None
  Importers = {p1, p2}
  MaxImportFaults = 1
  Natives = {n1, n2}
  Conversations = {c1, c2, c3}
  Codebases = {r1, r2}
  Worktrees = {w1, w2}
  Items = {i1, i2}
  Home <- TwoHomes
  Belongs <- TwoItems
  Listed <- TwoCatalogues
  Registrations <- NoneOrMoved
  OpenPlaces <- OpenPaths
  Reviewed <- Selections
  SlugOf <- OneSlug
  TitleOf <- OwnTitle
  n1 = n1
  n2 = n2
  c1 = c1
  c2 = c2
  c3 = c3
  r1 = r1
  r2 = r2
  w1 = w1
  w2 = w2
  q1 = q1
  q2 = q2
  i1 = i1
  i2 = i2
  v1 = v1
  v2 = v2
  MaxSessionImports = 2
  MaxActs = 2
  Slugs = {"epic"}
  Proposals = {"A", "B"}
  Plans = {"V", "W"}
  MaxApprovals = 2
SPECIFICATION ImportsSpec
CHECK_DEADLOCK FALSE
INVARIANTS
  CandidatesAreTheirs
  EpicsAreTrue
PROPERTIES
  DecisionsStay
  ImportsEnd
