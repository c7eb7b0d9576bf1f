---------------------------- MODULE BookingColumns ----------------------------
(***************************************************************************)
(* The columns of the bookings table that the list queries look at: a row   *)
(* has an owner for good, and a runner that comes and goes.  Everything     *)
(* else a call changes leaves them alone; BookingServiceRefines shows that  *)
(* BookingService changes them in no other way.                             *)
(***************************************************************************)
CONSTANTS Ids,      \* booking ids
          Owners,   \* values of owner_id
          Runners,  \* values of runner_id
          Nobody    \* the owner of an id without a row, the runner of an open job

ASSUME NobodyAssumption == Nobody \notin Owners /\ Nobody \notin Runners

VARIABLES owner, runner

columns == <<owner, runner>>

ColumnsInit ==
  /\ owner = [b \in Ids |-> Nobody]
  /\ runner = [b \in Ids |-> Nobody]

Insert(b) ==
  /\ owner[b] = Nobody
  /\ \E o \in Owners : owner' = [owner EXCEPT ![b] = o]
  /\ UNCHANGED runner

Assign(b) ==
  /\ owner[b] # Nobody /\ runner[b] = Nobody
  /\ \E r \in Runners : runner' = [runner EXCEPT ![b] = r]
  /\ UNCHANGED owner

Release(b) ==
  /\ runner[b] # Nobody
  /\ runner' = [runner EXCEPT ![b] = Nobody]
  /\ UNCHANGED owner

ColumnsNext == \E b \in Ids : Insert(b) \/ Assign(b) \/ Release(b)

ColumnsSpec == ColumnsInit /\ [][ColumnsNext]_columns

=============================================================================
