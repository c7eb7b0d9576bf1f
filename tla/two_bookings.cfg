SPECIFICATION Spec
CONSTANTS
  Owners = {o1}
  Runners = {r1}
  NoRunner = NoRunner
  Prices = {p1}
  NoPrice = NoPrice
  Numbers = {n1, n2}
  Bookings = {b1, b2}
  NoRow = NoRow
  NoBooking = NoBooking
  Requests = {q1, q2}
  NoRequest = NoRequest
  MaxDeclines = 0
  Faults = {"db"}
SYMMETRY Symmetry
PROPERTIES
  StepsAreAtomic
