--------------------------- MODULE MCBookingService ---------------------------
(* BookingService on small sets of model values. *)
EXTENDS BookingServiceRefines, TLC

\* Goroutines, users, bookings and numbers are only compared for equality.
Symmetry ==
  Permutations(Requests) \cup Permutations(Runners) \cup Permutations(Owners)
    \cup Permutations(Bookings) \cup Permutations(Numbers)

=============================================================================
