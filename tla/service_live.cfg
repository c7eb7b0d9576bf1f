SPECIFICATION FairSpec
CONSTANTS
  Owners = {o1, o2}
  Runners = {r1, r2}
  NoRunner = NoRunner
  Prices = {p1}
  NoPrice = NoPrice
  Numbers = {n1}
  Bookings = {b1}
  NoRow = NoRow
  NoBooking = NoBooking
  Requests = {q1, q2}
  NoRequest = NoRequest
  MaxDeclines = 1
  Faults = {}
PROPERTIES
  CallsAnswered
  CommitsAnnounced
