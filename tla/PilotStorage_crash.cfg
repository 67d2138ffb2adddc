CONSTANTS
  Processes = {p1}
  Keys = {k1, k2}
  None = None
  o1 = o1
  OrderOf <- OneOrder
  MaxPerOrder = 1
  MaxTotal = 2
  StaleAge = 1
  WaitLimit = 2
  MaxCrashes = 2
  MaxFaults = 1
  Runners = {q1, q2}
  NoRunner = NoRunner
  ReclaimsAlone = TRUE
  MaxStarts = 2
  MaxMishaps = 2
SPECIFICATION MCSpec
INVARIANTS EvidenceIsBacked WhatExistsIsNamed
PROPERTIES KeepsItsPromise ServiceResumes LeftoversAreReclaimed
