----------------------------- MODULE BookingFeed -----------------------------
(***************************************************************************)
(* What a consumer of the booking events may rely on, and no more: each     *)
(* change of a job owes it at most one notice, a notice is given after its  *)
(* change, at most once, and tells of it truly.  Notices may be given in    *)
(* any order and some never are.  BookingServiceRefines shows that          *)
(* BookingService implements it.                                            *)
(***************************************************************************)
EXTENDS Naturals, Sequences

CONSTANTS Jobs,
          Notices, \* what a consumer can be told of a change
          Silence  \* owed for a change that nobody is told of

VARIABLES
  owed, \* what each change of a job owes the consumers, in the order of the changes
  given \* the notices given, each with the number of its change

feedVars == <<owed, given>>

FeedInit ==
  /\ owed = [j \in Jobs |-> << >>]
  /\ given = [j \in Jobs |-> << >>]

Change(j, notice) ==
  /\ owed' = [owed EXCEPT ![j] = Append(@, notice)]
  /\ UNCHANGED given

Told(j, n) == \E i \in 1 .. Len(given[j]) : given[j][i].change = n

Tell(j, n) ==
  /\ owed[j][n] # Silence
  /\ ~Told(j, n)
  /\ given' = [given EXCEPT ![j] = Append(@, [change |-> n, notice |-> owed[j][n]])]
  /\ UNCHANGED owed

FeedNext ==
  \E j \in Jobs :
    \/ \E notice \in Notices \cup {Silence} : Change(j, notice)
    \/ \E n \in 1 .. Len(owed[j]) : Tell(j, n)

Feed == FeedInit /\ [][FeedNext]_feedVars

=============================================================================
