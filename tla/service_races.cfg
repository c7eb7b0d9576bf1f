SPECIFICATION Spec
CONSTANTS
  Owners = {o1}
  Runners = {r1, r2}
  NoRunner = NoRunner
  Prices = {p1}
  NoPrice = NoPrice
  Numbers = {n1}
  Bookings = {b1}
  NoRow = NoRow
  NoBooking = NoBooking
  Requests = {q1, q2, q3}
  NoRequest = NoRequest
  MaxDeclines = 1
  Faults = {}
SYMMETRY Symmetry
INVARIANTS
  TypeOK
  LegalHistory
  OneWriterPerVersion
  NoNilDereference
  NothingUnannounced
PROPERTIES
  StepsAreAtomic
  RunnerLeavesByDecline
  ConflictsHaveWinners
  FeedImplemented
