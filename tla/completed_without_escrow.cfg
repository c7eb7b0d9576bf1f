SPECIFICATION ConsumerSpec
CONSTANTS
  Owners = {o1}
  Runners = {r1}
  NoRunner = NoRunner
  Prices = {p1}
  NoPrice = NoPrice
  Numbers = {n1}
  Bookings = {b1}
  NoRow = NoRow
  NoBooking = NoBooking
  Requests = {q1, consumer}
  NoRequest = NoRequest
  MaxDeclines = 0
  Faults = {}
  Consumer = consumer
  MaxPayments = 3
  Policies = {"retry"}
INVARIANTS
  CompletedAfterEscrow
