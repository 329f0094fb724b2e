SPECIFICATION Spec
CONSTANTS
  Users = {u1, u2, u3}
  Procs = {p1, p2}
  Requests = {r1}
  Ops = {rotate, issue}
  ParkOps = {issue}
  Thresholds = {1, 2}
  TTL = 1
  MaxTime = 2
  None = None
SYMMETRY Symmetry
INVARIANTS
  AtMostOnce
  FourEyes
  DenialIsFinal
  DeliveredWasIssued
PROPERTIES
  ImplementsGate
