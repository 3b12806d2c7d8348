SPECIFICATION Spec
CONSTANTS
  Requests = {r1, r2, s1}
  Scrapers = {s1}
  Exchanges <- Mixed
  CredentialsSet = TRUE
  Watched <- Watch
SYMMETRY Symmetry
INVARIANTS
  TypeOK
  CountersAgreeAtRest
  ScrapeSkewBounded
CHECK_DEADLOCK FALSE
