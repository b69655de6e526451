----------------------------- MODULE LeaseQueue -----------------------------
(***************************************************************************)
(* A queue service that leases messages to consumers, as SQS (visibility   *)
(* timeout, receipt handles) and a Pub/Sub subscription (ack deadline, ack *)
(* IDs) do. External to the repository: modelled from what sqs.go and      *)
(* gcppubsub.go ask of it and the answers they handle.                     *)
(***************************************************************************)
EXTENDS Naturals, FiniteSets, FiniteSetsExt

CONSTANTS
    Messages,       \* messages that may be sent; a message stands for its body
    MaxDeliveries,  \* deliveries of one message the runs consider (a bound)
    MaxInAll        \* deliveries of all messages together (a bound)

ASSUME DeliveriesAssumption ==
    /\ MaxDeliveries \in Nat \ {0}
    /\ MaxInAll \in Nat

VARIABLES
    queue,          \* where each message is
    deliveries      \* how often each message was delivered

leaseVars == <<queue, deliveries>>

Places == {"unsent", "delayed", "ready", "leased", "gone"}
Sent == {m \in Messages : queue[m] # "unsent"}
InSource == {m \in Messages : queue[m] \in {"delayed", "ready", "leased"}}

\* Every delivery has a handle of its own (ReceiptHandle, ack ID).
Handles == Messages \X (1 .. MaxDeliveries)
MessageOf(h) == h[1]
NextHandle(m) == <<m, deliveries[m] + 1>>
Current(h) == queue[MessageOf(h)] = "leased" /\ deliveries[MessageOf(h)] = h[2]

LeaseTypeOK ==
    /\ queue \in [Messages -> Places]
    /\ deliveries \in [Messages -> 0 .. MaxDeliveries]

LeaseInit ==
    /\ queue = [m \in Messages |-> "unsent"]
    /\ deliveries = [m \in Messages |-> 0]

MoveTo(S, place) ==
    /\ queue' = [m \in Messages |-> IF m \in S THEN place ELSE queue[m]]
    /\ UNCHANGED deliveries

LeaseEnqueue(S, place) ==
    /\ \A m \in S : queue[m] = "unsent"
    /\ MoveTo(S, place)

LeaseDeliver(S) ==
    /\ Cardinality(S) + MapThenSumSet(LAMBDA m : deliveries[m], Messages) <= MaxInAll
    /\ \A m \in S : queue[m] = "ready" /\ deliveries[m] < MaxDeliveries
    /\ queue' = [m \in Messages |-> IF m \in S THEN "leased" ELSE queue[m]]
    /\ deliveries' = [m \in Messages |->
                         IF m \in S THEN deliveries[m] + 1 ELSE deliveries[m]]

\* Acknowledging a current handle removes the message. Acknowledging one whose
\* lease has run out is answered with success too, but may remove nothing.
AckEffect(h, ok) ==
    LET m == MessageOf(h) IN
    \/ m \in InSource /\ MoveTo({m}, "gone")
    \/ ~ (ok /\ Current(h)) /\ UNCHANGED leaseVars

LeasePurge(S) == MoveTo(S, "gone")

LeaseExpires(m) == queue[m] = "leased" /\ MoveTo({m}, "ready")

DelayElapses(m) == queue[m] = "delayed" /\ MoveTo({m}, "ready")
=============================================================================
