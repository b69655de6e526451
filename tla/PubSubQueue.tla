---------------------------- MODULE PubSubQueue ----------------------------
(***************************************************************************)
(* The Google Cloud Pub/Sub messaging backend (src/messaging/gcppubsub.go) *)
(* shared by several goroutines. A queue is a topic and a subscription;    *)
(* each half may be missing. DeadLetter is emulated as in sqs.go: publish  *)
(* the body remembered in pending, then ack. Unlike sqs.go, Purge (a Seek) *)
(* and Close empty pending, in a critical section of their own.            *)
(*                                                                         *)
(* One action per critical section of mu and one per RPC.                  *)
(***************************************************************************)
EXTENDS LeaseQueue

CONSTANTS
    Callers,            \* goroutines that share the backend
    MaxMessages,        \* maxMessages of a Receive
    Topic,              \* cfg.Topic # ""
    Subscription,       \* cfg.Subscription # ""
    DeadLetterTopic     \* cfg.DeadLetterTopic # ""

ASSUME ConfigAssumption ==
    /\ MaxMessages \in Nat \ {0}
    /\ Topic \in BOOLEAN
    /\ Subscription \in BOOLEAN
    /\ DeadLetterTopic \in BOOLEAN

VARIABLES
    dead,           \* messages published to the dead-letter topic
    open,           \* the gRPC clients are not closed
    pending,        \* ack ID -> body, under mu
    pc,             \* where each caller is
    tok,            \* the ack IDs its call works on
    body,           \* the body its DeadLetter publishes, if any
    \* History, read by properties only.
    acked,          \* messages whose Send or SendBatch reported success
    returned,       \* ack IDs a Receive returned to the application
    owed,           \* those of this process that were not given to Delete nor
                    \* moved by DeadLetter with success
    discarded,      \* messages given to Delete or Purge
    condemned       \* messages given to DeadLetter

callVars == <<pc, tok, body>>
askVars == <<discarded, condemned>>
historyVars == <<acked, returned, owed>>
vars == <<leaseVars, dead, open, pending, callVars, askVars, historyVars>>

PCs == {"idle", "received", "ack", "publish", "ackDead", "forget", "clear", "closing"}

Return(c) ==
    /\ pc' = [pc EXCEPT ![c] = "idle"]
    /\ tok' = [tok EXCEPT ![c] = {}]
    /\ body' = [body EXCEPT ![c] = {}]

Goto(c, place) ==
    /\ pc' = [pc EXCEPT ![c] = place]
    /\ UNCHANGED <<tok, body>>

Init ==
    /\ LeaseInit
    /\ dead = {}
    /\ open = TRUE
    /\ pending = [h \in {} |-> MessageOf(h)]
    /\ pc = [c \in Callers |-> "idle"]
    /\ tok = [c \in Callers |-> {}]
    /\ body = [c \in Callers |-> {}]
    /\ acked = {} /\ returned = {} /\ owed = {}
    /\ discarded = {} /\ condemned = {}
-----------------------------------------------------------------------------
(* Send and SendBatch: one Publish request, taken whole or not at all. A   *)
(* call that fails although it was taken would differ only in a smaller    *)
(* acked. A delay is refused before anything is sent.                      *)

SendBatch(c, S) ==
    /\ pc[c] = "idle"
    /\ open /\ Topic
    /\ LeaseEnqueue(S, "ready")
    /\ acked' = acked \cup S
    /\ UNCHANGED <<dead, open, pending, callVars, askVars, returned, owed>>

Send(c, m, delayed) == ~ delayed /\ SendBatch(c, {m})

\* A Pull whose answer is lost leaves messages leased that nobody can ack.
Receive(c, S) ==
    /\ pc[c] = "idle"
    /\ open /\ Subscription
    /\ S # {}
    /\ Cardinality(S) <= MaxMessages
    /\ LeaseDeliver(S)
    /\ \/ /\ pc' = [pc EXCEPT ![c] = "received"]
          /\ tok' = [tok EXCEPT ![c] = {NextHandle(m) : m \in S}]
       \/ UNCHANGED <<pc, tok>>
    /\ UNCHANGED <<dead, open, pending, body, askVars, historyVars>>

Remember_SharedBody(p, T) ==
    LET last == MessageOf(CHOOSE h \in T : TRUE) IN
    [h \in DOMAIN p \cup T |-> IF h \in T THEN last ELSE p[h]]

Remember(p, T) == [h \in DOMAIN p \cup T |-> IF h \in T THEN MessageOf(h) ELSE p[h]]

Register(c) ==
    /\ pc[c] = "received"
    /\ pending' = Remember(pending, tok[c])
    /\ returned' = returned \cup tok[c]
    /\ owed' = owed \cup tok[c]
    /\ Return(c)
    /\ UNCHANGED <<leaseVars, dead, open, askVars, acked>>
-----------------------------------------------------------------------------
(* Delete: acknowledge, then forget whatever the answer. The application   *)
(* may use any ack ID that was returned to it, one it has used before too. *)

Delete(c, h) ==
    /\ pc[c] = "idle"
    /\ Subscription
    /\ pc' = [pc EXCEPT ![c] = "ack"]
    /\ tok' = [tok EXCEPT ![c] = {h}]
    /\ discarded' = discarded \cup {MessageOf(h)}
    /\ owed' = owed \ {h}
    /\ UNCHANGED <<leaseVars, dead, open, pending, body, condemned, acked, returned>>

\* A closed client answers every request with an error.
Acknowledge(h, ok) ==
    IF open THEN AckEffect(h, ok) ELSE ~ ok /\ UNCHANGED leaseVars

AcknowledgeDeleted(c) ==
    /\ pc[c] = "ack"
    /\ \E h \in tok[c], ok \in BOOLEAN : Acknowledge(h, ok)
    /\ Goto(c, "forget")
    /\ UNCHANGED <<dead, open, pending, askVars, historyVars>>

Forget(c) ==
    /\ pc[c] = "forget"
    /\ pending' = [h \in DOMAIN pending \ tok[c] |-> pending[h]]
    /\ Return(c)
    /\ UNCHANGED <<leaseVars, dead, open, askVars, historyVars>>
-----------------------------------------------------------------------------
(* DeadLetter: look the body up, publish it, ack, forget.                  *)

\* An ack ID that is not pending, or no DeadLetterTopic, is an error that
\* changes nothing.
DeadLetter(c, h) ==
    /\ pc[c] = "idle"
    /\ h \in DOMAIN pending
    /\ DeadLetterTopic
    /\ pc' = [pc EXCEPT ![c] = "publish"]
    /\ tok' = [tok EXCEPT ![c] = {h}]
    /\ body' = [body EXCEPT ![c] = {pending[h]}]
    /\ condemned' = condemned \cup {MessageOf(h)}
    /\ UNCHANGED <<leaseVars, dead, open, pending, discarded, historyVars>>

\* The copy may be published although the call fails; only success goes on.
PublishDead_ErrorIgnored(c) ==
    /\ pc[c] = "publish"
    /\ dead' \in {dead, dead \cup body[c]}
    /\ Goto(c, "ackDead")
    /\ UNCHANGED <<leaseVars, open, pending, askVars, historyVars>>

PublishDead(c) ==
    /\ pc[c] = "publish"
    /\ \/ open /\ dead' = dead \cup body[c] /\ (Goto(c, "ackDead") \/ Return(c))
       \/ UNCHANGED dead /\ Return(c)
    /\ UNCHANGED <<leaseVars, open, pending, askVars, historyVars>>

\* A failed ack keeps the ack ID, so that DeadLetter can be repeated.
AcknowledgeDead_AlwaysForget(c) ==
    /\ pc[c] = "ackDead"
    /\ \E h \in tok[c], ok \in BOOLEAN :
          /\ Acknowledge(h, ok)
          /\ owed' = IF ok THEN owed \ {h} ELSE owed
    /\ Goto(c, "forget")
    /\ UNCHANGED <<dead, open, pending, askVars, acked, returned>>

AcknowledgeDead(c) ==
    /\ pc[c] = "ackDead"
    /\ \E h \in tok[c], ok \in BOOLEAN :
          /\ Acknowledge(h, ok)
          /\ IF ok THEN Goto(c, "forget") ELSE Return(c)
          /\ owed' = IF ok THEN owed \ {h} ELSE owed
    /\ UNCHANGED <<dead, open, pending, askVars, acked, returned>>
-----------------------------------------------------------------------------
\* Purge: the Seek acknowledges everything published so far, even when its
\* answer is lost and the call fails ...
Purge(c) ==
    /\ pc[c] = "idle"
    /\ open /\ Subscription
    /\ LeasePurge(InSource)
    /\ discarded' = discarded \cup InSource
    /\ Goto(c, "clear") \/ UNCHANGED callVars
    /\ UNCHANGED <<dead, open, pending, condemned, historyVars>>

\* ... and a critical section after it empties pending.
ClearPending(c) ==
    /\ pc[c] = "clear"
    /\ pending' = [h \in {} |-> MessageOf(h)]
    /\ Return(c)
    /\ UNCHANGED <<leaseVars, dead, open, askVars, historyVars>>

\* Close empties pending under mu, then closes the clients. What the process
\* still held is given up, so nothing is owed to it any more.
Close(c) ==
    /\ pc[c] = "idle"
    /\ pending' = [h \in {} |-> MessageOf(h)]
    /\ owed' = {}
    /\ Goto(c, "closing")
    /\ UNCHANGED <<leaseVars, dead, open, askVars, acked, returned>>

CloseClients(c) ==
    /\ pc[c] = "closing"
    /\ open' = FALSE
    /\ Return(c)
    /\ UNCHANGED <<leaseVars, dead, pending, askVars, historyVars>>

Restart ==
    /\ open' = TRUE
    /\ pending' = [h \in {} |-> MessageOf(h)]
    /\ pc' = [c \in Callers |-> "idle"]
    /\ tok' = [c \in Callers |-> {}]
    /\ body' = [c \in Callers |-> {}]
    /\ owed' = {}
    /\ UNCHANGED <<leaseVars, dead, askVars, acked, returned>>

Step(c) ==
    \/ Register(c) \/ AcknowledgeDeleted(c) \/ Forget(c)
    \/ PublishDead(c) \/ AcknowledgeDead(c)
    \/ ClearPending(c) \/ CloseClients(c)

Call(c) ==
    \/ \E m \in Messages, delayed \in BOOLEAN : Send(c, m, delayed)
    \/ \E S \in SUBSET Messages : SendBatch(c, S) \/ Receive(c, S)
    \/ \E h \in returned : Delete(c, h) \/ DeadLetter(c, h)
    \/ Purge(c) \/ Close(c)

Service ==
    /\ \E m \in Messages : LeaseExpires(m)
    /\ UNCHANGED <<dead, open, pending, callVars, askVars, historyVars>>

Next == (\E c \in Callers : Step(c) \/ Call(c)) \/ Service \/ Restart

Spec == Init /\ [][Next]_vars
-----------------------------------------------------------------------------
\* Every variable has its type, and an ack ID is pending with its own body.
TypeOK ==
    /\ LeaseTypeOK
    /\ dead \subseteq Messages
    /\ open \in BOOLEAN
    /\ DOMAIN pending \subseteq Handles
    /\ \A h \in DOMAIN pending : pending[h] = MessageOf(h)
    /\ pc \in [Callers -> PCs]
    /\ tok \in [Callers -> SUBSET Handles]
    /\ body \in [Callers -> SUBSET Messages]
    /\ acked \subseteq Messages
    /\ owed \subseteq returned /\ returned \subseteq Handles
    /\ discarded \subseteq Messages
    /\ condemned \subseteq Messages

\* A message whose send was acknowledged is in the subscription, in the
\* dead-letter topic or discarded, whatever failed, raced or restarted since
\* (gcppubsub.go:158-178, 239-275).
AcknowledgedNotLost == acked \subseteq InSource \cup dead \cup discarded

\* An ack ID the application still owes a settlement leaves pending only when
\* Purge or Close empties the map, or with the process: no failed DeadLetter
\* and no settlement of another ack ID takes it away (gcppubsub.go:245-275).
ForgottenOnlyByPurgeOrClose ==
    [][\A h \in owed \cap owed' \cap DOMAIN pending :
          h \in DOMAIN pending' \/ \E c \in Callers : ClearPending(c) \/ Close(c)]_vars

\* gcppubsub.go:43-45 says "pending maps ack ID -> raw message body, retained
\* between Receive and Delete/DeadLetter": as long as its message was neither
\* deleted nor purged, an unsettled ack ID can be dead-lettered.
RetainedUntilSettled ==
    \A h \in owed : MessageOf(h) \notin discarded => h \in DOMAIN pending

\* gcppubsub.go implements the contract of messaging.Backend.
Contract ==
    INSTANCE QueueContract WITH
        sent <- Sent, source <- InSource, dead <- dead,
        discarded <- discarded, condemned <- condemned

ImplementsContract == Contract!Spec
-----------------------------------------------------------------------------
(* The inductive invariant behind AcknowledgedNotLost, the refinement and  *)
(* ForgottenOnlyByPurgeOrClose.                                            *)

\* The ack IDs some delivery has used: a new delivery's is none of them.
Issued(h) == 0 < h[2] /\ h[2] <= deliveries[MessageOf(h)]

\* Only a message that was sent is delivered, only an issued ack ID is returned.
HandlesIssued ==
    /\ \A m \in Messages : queue[m] = "unsent" => deliveries[m] = 0
    /\ \A h \in returned : Issued(h)
    /\ \A c \in Callers : \A h \in tok[c] : Issued(h)

\* Between the answer to a Pull and its registration, an ack ID is one Receive's alone.
ReceivedOnce ==
    \A c \in Callers : pc[c] = "received" =>
        /\ tok[c] \cap returned = {}
        /\ \A d \in Callers : pc[d] = "received" /\ c # d => tok[c] \cap tok[d] = {}

\* A Delete, and the end of a DeadLetter, has an ack ID that is owed no more.
DeleteShape(c) ==
    \E h \in returned : tok[c] = {h} /\ h \notin owed

\* A DeadLetter has a returned ack ID and its message, which was condemned.
DeadLetterShape(c) ==
    \E h \in returned :
        /\ tok[c] = {h} /\ body[c] = {MessageOf(h)}
        /\ MessageOf(h) \in condemned

\* What a call holds at each place.
Shaped(c) ==
    /\ pc[c] \in {"ack", "forget"} => DeleteShape(c)
    /\ pc[c] \in {"publish", "ackDead"} => DeadLetterShape(c)
    /\ pc[c] = "ack" => \A h \in tok[c] : MessageOf(h) \in discarded
    /\ pc[c] = "ackDead" => body[c] \subseteq dead

CallShape == \A c \in Callers : Shaped(c)

\* Messages that left the subscription are accounted for, and a reported one had entered it.
Accounted ==
    /\ acked \subseteq Sent
    /\ Sent \ InSource \subseteq dead \cup discarded

Inv ==
    /\ TypeOK
    /\ HandlesIssued
    /\ ReceivedOnce
    /\ CallShape
    /\ Accounted
=============================================================================
