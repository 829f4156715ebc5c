\* A limit of a third of the NAV: 3 -> 4 is committed, 3 -> 6 is parked.
CONSTANTS
  NAVs = {3, 4, 6}
  Windows = {0, 2}
  DefaultWindow = 1
  Deviations = {0, 3333}
  GracePeriods = {0, 1}
  DefaultGrace = 1
  MaxTime = 3
SPECIFICATION Spec
INVARIANTS TypeOK FreshMeansQuoted
PROPERTIES QuoteTimeMonotone ReadingPromised
