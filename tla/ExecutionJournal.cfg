SPECIFICATION Spec
CONSTANTS
  Device = {d1}
  Op = {o1}
  Holder = {h1, h2}
  Payload = {x}
  Fences = {1, 2}
  Call = {c1, c2}
  Drain = {p1, p2}
  MaxSub = 2
  MaxCrash = 1
  SlowStart = FALSE
  NoEnvelope = NoEnvelope
  NoHolder = NoHolder
  Free = Free
SYMMETRY Symmetry
INVARIANT DrainedMeansSilent
INVARIANT ExecutedOnce
PROPERTY KeepsPromise
