CONSTANTS
  Owners = {o1, o2}
  Known = o1
  Sessions = {s1, s2}
  Calls = {c1, c2}
  Nobody = Nobody
  MaxTokens = 3
  MaxElsewhere = 1
  MaxLosses = 1
  Guests = {g1, g2, g3, g4}
  MaximumConcurrent = 2
  MaximumQueued = 2
  MaximumCreates = 3
  Window = 2
  MaxTime = 4
  Commands = {k1, k2}
  Names = {n1}
  AdminName = n1
  NoOne = NoOne
  Codes = {i1}
  Wrong = wrong
  Clients = {a1}
  Attempts = {t1, t2}
  MaximumFailures = 2
  GuessWindow = 2
  MaxTracked = 1
  InviteTicks = 1
  MaxTries = 2
  LastTime = 2
  MaxErrors = 1
SPECIFICATION MCSpec
INVARIANTS ReplacementIsTheOwners ShowsTheCookiesOwner GuestsStayWithinTheRate PlacesAreTakenWhileOneWaits EachIsMadeOnce GuessesStayBounded
SYMMETRY Symmetry
CHECK_DEADLOCK FALSE
