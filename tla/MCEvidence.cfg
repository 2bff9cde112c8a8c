SPECIFICATION Spec
CONSTANTS
  run = run
  rival = rival
  Client = {run, rival}
  Self = run
  Limit = 2
  Place <- Places
  CategoryOf <- Categories
  MarksOf <- Marks
  Unlocated = {"grill"}
  Listings <- SomeListings
  UsualListing <- Best
  Requests <- SomeRequests
  Injectors <- SomeInjectors
  Malformed = Malformed
  NoAnswer = NoAnswer
  NoPlace = NoPlace
  MaxDrafts = 3
  MaxChosen = 3
  Surprises = 3
INVARIANT TypeOK
INVARIANT CacheFaithful
INVARIANT EvidenceBacked
INVARIANT ReviewAgrees
INVARIANT GrantsBounded
INVARIANT EndlessOnlyByDeath
CHECK_DEADLOCK FALSE
