--------------------------- MODULE PaymentConsumer ---------------------------
(***************************************************************************)
(* events/kafka_consumer.go beside BookingService: one goroutine reads the  *)
(* payment topic and completes the booking of each released escrow through  *)
(* the same CompleteBooking the HTTP routes use.  Its calls occupy the slot *)
(* Consumer of Requests and interleave with those of the other goroutines.  *)
(*                                                                          *)
(* The consumer of lib-common that calls handleMessage is not in the        *)
(* repository.  What it does with a handler's error is a parameter:         *)
(*   "retry"  hand the same message over again,                             *)
(*   "skip"   go on to the next one without committing the offset,          *)
(*   "stop"   return the error from Consume, after which main.go:117-122    *)
(*            has no consumer until the process starts again.               *)
(***************************************************************************)
EXTENDS BookingService

CONSTANTS Consumer,    \* the goroutine that consumes the payment topic
          Policies,    \* what lib-common may do with an error
          MaxPayments  \* bound: messages on the payment topic

ASSUME ConsumerAssumption == Consumer \in Requests
ASSUME PoliciesAssumption == Policies \subseteq {"retry", "skip", "stop"}
ASSUME MaxPaymentsAssumption == MaxPayments \in Nat

VARIABLES
  payments,  \* the payment topic, every message ever published
  position,  \* index of the message handed over next
  committed, \* index of the message a new consumer starts from
  consuming, \* whether Consume is running
  policy     \* the member of Policies lib-common follows

consumerVars == <<payments, position, committed, consuming, policy>>
allVars == <<vars, consumerVars>>

Handlers == Requests \ {Consumer}

\* A payment message is the booking whose escrow was released, or NoBooking
\* when handleMessage has nothing to do: another event type, malformed JSON.
Messages == Bookings \cup {NoBooking}

ConsumerInit ==
  /\ Init
  /\ payments = << >>
  /\ position = 1 /\ committed = 1
  /\ consuming = TRUE
  /\ policy \in Policies

\* service-payment: it may release the escrow of a booking at any time, and
\* its own producer may send a message twice.
PublishPayment(m) ==
  /\ Len(payments) < MaxPayments
  /\ m # NoBooking => bookings[m] # NoRow
  /\ payments' = Append(payments, m)
  /\ UNCHANGED <<vars, position, committed, consuming, policy>>

HandedOver == consuming /\ position <= Len(payments) /\ calls[Consumer] = Idle

\* The offset of a message is committed when its handler returns nil.
Acknowledge ==
  /\ position' = position + 1
  /\ committed' = position + 1

\* Mutant: every message takes the default branch.
IgnoreAnyMessage ==
  /\ HandedOver
  /\ Acknowledge
  /\ UNCHANGED <<vars, payments, consuming, policy>>

\* default: and the two "Don't retry malformed" returns of handleMessage.
IgnoreMessage ==
  /\ HandedOver /\ payments[position] = NoBooking
  /\ Acknowledge
  /\ UNCHANGED <<vars, payments, consuming, policy>>

handleEscrowReleased ==
  /\ HandedOver /\ payments[position] # NoBooking
  /\ CompleteBooking(Consumer, payments[position])
  /\ UNCHANGED consumerVars

ReleaseUnread ==
  /\ HandedOver /\ payments[position] # NoBooking
  /\ ReadFails(Consumer)
  /\ UNCHANGED consumerVars

\* Mutant: the error of CompleteBooking is logged and swallowed.
AlwaysHandled(reply) == TRUE

Handled(reply) == reply = "ok"

HandlerReturns ==
  LET reply == calls[Consumer].reply IN
  /\ Respond(Consumer)
  /\ \/ /\ Handled(reply)
        /\ Acknowledge /\ UNCHANGED consuming
     \/ /\ ~Handled(reply) /\ policy = "retry"
        /\ UNCHANGED <<position, committed, consuming>>
     \/ /\ ~Handled(reply) /\ policy = "skip"
        /\ position' = position + 1
        /\ UNCHANGED <<committed, consuming>>
     \/ /\ ~Handled(reply) /\ policy = "stop"
        /\ consuming' = FALSE
        /\ UNCHANGED <<position, committed>>
  /\ UNCHANGED <<payments, policy>>

Restart ==
  /\ Crash
  /\ position' = committed
  /\ consuming' = TRUE
  /\ UNCHANGED <<payments, committed, policy>>

HandleMessage ==
  \/ IgnoreMessage
  \/ handleEscrowReleased
  \/ Progress(Consumer) /\ UNCHANGED consumerVars
  \/ HandlerReturns

HandlingFails ==
  \/ ReleaseUnread
  \/ Failure(Consumer) /\ UNCHANGED consumerVars

Consume == HandleMessage \/ HandlingFails

Serve(q) == Continue(q) /\ UNCHANGED consumerVars

ConsumerNext ==
  \/ Consume
  \/ \E m \in Messages : PublishPayment(m)
  \/ \E q \in Handlers : Serve(q) \/ (Arrive(q) /\ UNCHANGED consumerVars)
  \/ Restart

ConsumerSpec == ConsumerInit /\ [][ConsumerNext]_allVars

-----------------------------------------------------------------------------
ConsumerTypeOK ==
  /\ payments \in Seq(Messages)
  /\ position \in 1 .. Len(payments) + 1
  /\ committed \in 1 .. position
  /\ consuming \in BOOLEAN
  /\ policy \in Policies

Status(b) == IF bookings[b] = NoRow THEN "none" ELSE bookings[b].status

\* At least once: unless errors are skipped, an offset is committed only past
\* messages whose bookings are completed, whatever failed or crashed between
\* the commit of the booking, its event and the commit of the offset
\* (kafka_consumer.go:81-93).
CommittedMeansCompleted ==
  policy # "skip" =>
    \A i \in 1 .. committed - 1 :
      payments[i] # NoBooking => Status(payments[i]) = StatusCompleted

\* At most once: however often an escrow release is delivered, retried or
\* raced by the owner's confirmation, a booking is completed by one call and
\* announced as completed once.
CompletedOnce ==
  \A b \in Bookings :
    /\ \A v, w \in 1 .. Len(history[b]) :
         history[b][v].status = StatusCompleted /\ history[b][w].status = StatusCompleted
           => v = w
    /\ \A i, j \in 1 .. Len(topic[b]) :
         topic[b][i].type = "complete" /\ topic[b][j].type = "complete" => i = j

\* The owner's confirmation and the release race for the same booking: the one
\* refused for its version has lost to a completion, so the error the consumer
\* is given, and lib-common takes for a failure like any other, hides nothing
\* that is still to be settled (kafka_consumer.go:81-93, booking_handler.go:194).
LostCompletionsAreSettled ==
  [][\A q \in Requests : Conflict(q) /\ calls[q].op = "complete" =>
       Status(calls[q].booking) = StatusCompleted]_allVars

\* booking_service.go:229: "CompleteBooking finalizes the booking after
\* payment escrow is released."
CompletedAfterEscrow ==
  \A b \in Bookings :
    Status(b) = StatusCompleted => \E i \in 1 .. Len(payments) : payments[i] = b

=============================================================================
