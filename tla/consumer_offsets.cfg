SPECIFICATION FairServerSpec
CONSTANTS
  Owners = {o1}
  Runners = {r1}
  NoRunner = NoRunner
  Prices = {p1}
  NoPrice = NoPrice
  Numbers = {n1}
  Bookings = {b1}
  NoRow = NoRow
  NoBooking = NoBooking
  Requests = {q1, consumer}
  NoRequest = NoRequest
  MaxDeclines = 1
  Faults = {"db", "broker", "crash"}
  Consumer = consumer
  MaxPayments = 2
  Policies = {"retry", "stop", "skip"}
  AppEnvs = {"development", "production"}
INVARIANTS
  CommittedMeansCompleted
  CompletedOnce
  OrderlyStopLosesOnlyCompletions
PROPERTIES
  NoDeclineWithoutTable
  LostCompletionsAreSettled
  EscrowSettles
  ReleasesSettleOnceServed
