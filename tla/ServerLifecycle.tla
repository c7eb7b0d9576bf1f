---------------------------- MODULE ServerLifecycle ----------------------------
(***************************************************************************)
(* cmd/server/main.go around PaymentConsumer: the process starts, serves,   *)
(* is told to stop, drains, exits and starts again.  The consumer runs from *)
(* before the HTTP server listens; a signal cancels its context at once and *)
(* main never waits for it, while the calls of the HTTP server are waited   *)
(* for, but no longer than ten seconds.                                     *)
(*                                                                          *)
(* A deployment is calm, or in trouble for all of its life.  In a calm one  *)
(* nothing of Faults happens, nothing kills the process and every call is   *)
(* done within the ten seconds: what still goes wrong there is main's own   *)
(* doing.                                                                   *)
(***************************************************************************)
EXTENDS PaymentConsumer, BookingSafety

CONSTANT AppEnvs \* the values APP_ENV may have

ASSUME AppEnvsAssumption == AppEnvs \subseteq {"development", "production"}
ASSUME AllFaultsAssumption == Faults = {"db", "broker", "crash"}

VARIABLES
  phase,  \* how far main has got
  appEnv, \* cfg.AppEnv
  calm    \* whether nothing fails by itself

mainVars == <<phase, appEnv, calm>>
serverVars == <<allVars, mainVars>>

Phases == {"down", "booting", "serving", "draining", "closing"}

GoTo(p) == phase' = p /\ UNCHANGED <<appEnv, calm>>

ServerInit ==
  /\ ConsumerInit
  /\ phase = "down"
  /\ appEnv \in AppEnvs
  /\ calm \in BOOLEAN

\* Connections, migrations, wiring, and the consumer goroutine; a start that
\* fails before that is log.Fatal and changes nothing.
Boot == phase = "down" /\ GoTo("booting") /\ UNCHANGED allVars

ListenAndServe == phase = "booting" /\ GoTo("serving") /\ UNCHANGED allVars

\* <-quit and cancel().
Signal == phase = "serving" /\ GoTo("draining") /\ UNCHANGED allVars

\* Mutant: main does not wait for the calls in progress.
ShutdownAtOnce == phase = "draining" /\ GoTo("closing") /\ UNCHANGED allVars

\* srv.Shutdown returns when every call is answered, or when ten seconds are
\* over.
Shutdown ==
  /\ phase = "draining"
  /\ (\A q \in Handlers : calls[q] = Idle) \/ ~calm
  /\ GoTo("closing") /\ UNCHANGED allVars

\* main returns: its deferred calls, and the end of every goroutine; a consumer
\* that starts later goes on from the offset committed.
Exit == phase = "closing" /\ Restart /\ GoTo("down")

\* The process is killed, or ListenAndServe returns an error: log.Fatal.
Dies == phase # "down" /\ ~calm /\ Restart /\ GoTo("down")

\* The auto-migration of development does not create the table
\* booking_decline_reasons: no insert into it takes effect.
ReasonsStored == appEnv = "development" => declineReasons' = declineReasons

InsertFails(q) ==
  /\ appEnv = "development" /\ calls[q].pc = "insert"
  /\ StatementFails(q)

\* Connections that are open when the listener is closed may still bring a
\* call while Shutdown waits.
CallArrives(q) ==
  /\ phase \in {"serving", "draining"}
  /\ Ask(q) \/ (~calm /\ ReadFails(q))
  /\ UNCHANGED <<consumerVars, mainVars>>

CallGoesOn(q) ==
  /\ phase \in {"serving", "draining", "closing"}
  /\ \/ (Progress(q) \/ Respond(q)) /\ ReasonsStored
     \/ InsertFails(q)
     \/ ~calm /\ Failure(q) /\ ReasonsStored
  /\ UNCHANGED <<consumerVars, mainVars>>

\* With its context cancelled the consumer's statements and its event fail, or
\* were under way and take effect; of the rest the end of main cuts it off.
Consumes ==
  /\ phase # "down"
  /\ HandleMessage \/ ((~calm \/ phase \in {"draining", "closing"}) /\ HandlingFails)
  /\ UNCHANGED mainVars

ServerNext ==
  \/ Boot \/ ListenAndServe \/ Signal \/ Shutdown \/ Exit \/ Dies
  \/ Consumes
  \/ \E m \in Messages : PublishPayment(m) /\ UNCHANGED mainVars
  \/ \E q \in Handlers : CallArrives(q) \/ CallGoesOn(q)

ServerSpec == ServerInit /\ [][ServerNext]_serverVars

\* Goroutines that have something to do are scheduled while the process lives;
\* nothing makes it live on, or start again.
ServerFairness ==
  WF_serverVars(Consumes) /\ \A q \in Handlers : WF_serverVars(CallGoesOn(q))

FairServerSpec == ServerSpec /\ ServerFairness

-----------------------------------------------------------------------------
\* However often a calm deployment is stopped and started, the only changes
\* no event announces are declines, and completions the consumer was cut off
\* from announcing: no change made by an HTTP call is lost (main.go:184-193).
OrderlyStopLosesOnlyCompletions ==
  calm => \A b \in Bookings : \A v \in 1 .. Len(history[b]) :
    \/ v > 1 /\ Released(history[b], v - 1)
    \/ \E i \in 1 .. Len(topic[b]) : topic[b][i].version = v
    \/ \E q \in Requests : /\ calls[q].pc = "publish"
                           /\ calls[q].booking = b
                           /\ calls[q].bk.version = v
    \/ /\ history[b][v].status = StatusCompleted
       /\ \E i \in 1 .. Len(payments) : payments[i] = b

\* Where the table of the reasons is missing no runner ever gets rid of a
\* booking: the update of the decline is rolled back with its insert
\* (main.go:62-67, booking_service.go:411-423).
NoDeclineWithoutTable ==
  [][appEnv = "development" =>
       \A b \in Bookings :
         bookings[b] # NoRow /\ bookings[b].runner # NoRunner
           => bookings'[b].runner = bookings[b].runner]_serverVars

\* A release of the escrow of b is next, or queued behind messages that an
\* error cannot hold back.
Waiting(b) ==
  /\ consuming
  /\ \E i \in position .. Len(payments) :
       /\ payments[i] = b
       /\ IF i = position THEN calls[Consumer] = Idle ELSE policy = "skip"

\* The release of the escrow of a delivered booking whose turn comes in a calm
\* deployment completes it, unless the process is told to stop first: losing
\* the race against the owner's confirmation is the only way to fail, and then
\* the booking is completed too.  Behind a message that keeps failing a release
\* settles nothing if lib-common retries, or stops (kafka_consumer.go:81-93).
EscrowSettles ==
  \A b \in Bookings :
    calm /\ phase = "serving" /\ Waiting(b) /\ Status(b) = StatusDelivered
      ~> Status(b) = StatusCompleted \/ phase # "serving"

\* If Consume returns an error the process serves on without a consumer, and
\* every release behind the one that failed waits.  None is lost by that: once
\* a process stays up and its consumer stays alive, every release on the topic
\* settles its booking, those too that were published while nobody consumed or
\* were being handled when an earlier process ended (main.go:117-122, 185).
ReleasesSettleOnceServed ==
  policy = "stop" /\ <>[](phase = "serving" /\ consuming) =>
    \A b \in Bookings :
      (\E i \in 1 .. Len(payments) : payments[i] = b) ~> Status(b) = StatusCompleted

=============================================================================
