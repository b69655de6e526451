---------------------------- MODULE ServiceBus ----------------------------
(***************************************************************************)
(* The Azure Service Bus messaging backend (src/messaging/azurebus.go) as  *)
(* it is used: one backend shared by several goroutines (Callers), each    *)
(* running one call at a time, against a queue that hands messages out     *)
(* under expiring peek locks.                                              *)
(*                                                                         *)
(* The mutex mu makes each critical section one action. Receive and        *)
(* settle (the body of Delete and DeadLetter) leave the mutex around every *)
(* call to the SDK, so they are split there: an action per critical        *)
(* section and an action per SDK call. The queue, its locks and the        *)
(* receivers of the SDK are external and modelled from how azurebus.go     *)
(* uses them.                                                              *)
(***************************************************************************)
EXTENDS Naturals, FiniteSets

CONSTANTS
    Callers,        \* goroutines that share the backend
    Messages,       \* messages that may be sent
    Receivers,      \* SDK receivers the runs may open (a bound)
    MaxDeliveries,  \* deliveries of one message the runs consider (a bound)
    MaxMessages     \* maxMessages of a Receive, and the 100 of Purge

ASSUME BoundsAssumption ==
    /\ MaxDeliveries \in Nat \ {0}
    /\ MaxMessages \in Nat \ {0}

VARIABLES
    \* The queue.
    queue,          \* where each message is
    deliveries,     \* how often each message was delivered
    \* The SDK client and its receivers.
    clientOpen,
    receiver,       \* "new", "open" or "closed"
    \* The backend: the two maps that mu protects.
    pending,        \* lock token -> the receiver that can settle it
    receiverTokens, \* receiver -> its outstanding lock tokens
    \* The calls in progress.
    pc,             \* where each caller is
    rx,             \* the receivers its call works on
    tok,            \* the lock tokens its call works on
    \* History, read by properties only.
    delivered,      \* the tokens each receiver of this process delivered
    shutdown,       \* Close has emptied the maps
    purgeScope,     \* what was visible in the queue when a Purge began
    discarded,      \* messages given to Delete or drained by Purge
    condemned       \* messages given to DeadLetter

brokerVars  == <<queue, deliveries>>
sdkVars     == <<clientOpen, receiver>>
backendVars == <<pending, receiverTokens>>
callVars    == <<pc, rx, tok>>
askVars     == <<discarded, condemned>>
historyVars == <<delivered, shutdown, purgeScope>>
vars == <<brokerVars, sdkVars, backendVars, callVars, askVars, historyVars>>

(***************************************************************************)
(* A peek lock belongs to one delivery of one message, so the pair stands  *)
(* for the lock token that azurebus.go hex-encodes into the ReceiptHandle. *)
(***************************************************************************)
Tokens == Messages \X (1 .. MaxDeliveries)
MessageOf(t) == t[1]
LockHeld(t) == queue[MessageOf(t)] = "locked" /\ deliveries[MessageOf(t)] = t[2]
NextToken(m) == <<m, deliveries[m] + 1>>

Places == {"unsent", "scheduled", "active", "locked", "completed", "dead"}
InQueue == {m \in Messages : queue[m] \in {"scheduled", "active", "locked"}}
Visible == {m \in Messages : queue[m] \in {"active", "locked"}}

PCs == {"idle", "receiving", "received", "complete", "deadletter", "release",
        "closing", "purging", "drained", "shutdown"}
\* A settle that has claimed its token and not yet run its second critical
\* section.
SettlePCs == {"complete", "deadletter", "release"}

\* The SDK reaches the queue only through an open receiver of an open client.
Usable(r) == clientOpen /\ receiver[r] = "open"

\* Go map updates: m[k] = v for every k in K, and delete(m, k).
MapPut(f, K, v) == [k \in DOMAIN f \cup K |-> IF k \in K THEN v ELSE f[k]]
MapDelete(f, K) == [k \in DOMAIN f \ K |-> f[k]]

Finish(c) == pc' = [pc EXCEPT ![c] = "idle"]
-----------------------------------------------------------------------------
Init ==
    /\ queue = [m \in Messages |-> "unsent"]
    /\ deliveries = [m \in Messages |-> 0]
    /\ clientOpen = TRUE
    /\ receiver = [r \in Receivers |-> "new"]
    /\ pending = [t \in {} |-> CHOOSE r \in Receivers : TRUE]
    /\ receiverTokens = [r \in {} |-> {}]
    /\ pc = [c \in Callers |-> "idle"]
    /\ rx = [c \in Callers |-> {}]
    /\ tok = [c \in Callers |-> {}]
    /\ delivered = [r \in Receivers |-> {}]
    /\ shutdown = FALSE
    /\ purgeScope = [c \in Callers |-> {}]
    /\ discarded = {}
    /\ condemned = {}
-----------------------------------------------------------------------------
(* Send and SendBatch open a sender of their own and touch no backend      *)
(* state. A batch is sent whole or not at all; an error may still mean     *)
(* that the queue took it, and a failed call that sent nothing changes     *)
(* nothing, so only the effect on the queue is modelled.                   *)

Enqueue(S, place) ==
    /\ clientOpen
    /\ \A m \in S : queue[m] = "unsent"
    /\ queue' = [m \in Messages |-> IF m \in S THEN place ELSE queue[m]]
    /\ UNCHANGED <<deliveries, sdkVars, backendVars, callVars, askVars,
                   historyVars>>

Send(c, m, delayed) ==
    /\ pc[c] = "idle"
    /\ Enqueue({m}, IF delayed THEN "scheduled" ELSE "active")

SendBatch(c, S) == pc[c] = "idle" /\ Enqueue(S, "active")

-----------------------------------------------------------------------------
(* Receive and Purge each open a receiver of their own.                    *)

OpenReceiver(c, next) ==
    /\ pc[c] = "idle"
    /\ \E r \in Receivers :
          /\ receiver[r] = "new"
          /\ receiver' = [receiver EXCEPT ![r] = "open"]
          /\ rx' = [rx EXCEPT ![c] = {r}]
    /\ pc' = [pc EXCEPT ![c] = next]
    /\ UNCHANGED <<brokerVars, clientOpen, backendVars, tok, askVars,
                   delivered, shutdown>>

\* ReceiveMessages returned the messages S, locked for the receiver r.
Deliver(c, r, S) ==
    /\ Usable(r)
    /\ S # {}
    /\ Cardinality(S) <= MaxMessages
    /\ \A m \in S : queue[m] = "active" /\ deliveries[m] < MaxDeliveries
    /\ queue' = [m \in Messages |-> IF m \in S THEN "locked" ELSE queue[m]]
    /\ deliveries' =
          [m \in Messages |-> IF m \in S THEN deliveries[m] + 1 ELSE deliveries[m]]
    /\ tok' = [tok EXCEPT ![c] = {NextToken(m) : m \in S}]
    /\ UNCHANGED <<sdkVars, backendVars, shutdown, purgeScope>>

Receive(c) ==
    /\ OpenReceiver(c, "receiving")
    /\ UNCHANGED purgeScope

ReceiveMessages(c, S) ==
    /\ pc[c] = "receiving"
    /\ \E r \in rx[c] :
          /\ Deliver(c, r, S)
          /\ delivered' = [delivered EXCEPT ![r] = {NextToken(m) : m \in S}]
    /\ pc' = [pc EXCEPT ![c] = "received"]
    /\ UNCHANGED <<rx, askVars>>

\* No message (the wait or the caller's context ran out) or an error: the
\* receiver is closed before Receive returns. Messages may well be there.
ReceiveNothing_NoClose(c) ==
    /\ pc[c] = "receiving"
    /\ Finish(c)
    /\ rx' = [rx EXCEPT ![c] = {}]
    /\ UNCHANGED <<brokerVars, sdkVars, backendVars, tok, askVars, historyVars>>

ReceiveNothing(c) ==
    /\ pc[c] = "receiving"
    /\ pc' = [pc EXCEPT ![c] = "closing"]
    /\ UNCHANGED <<brokerVars, sdkVars, backendVars, rx, tok, askVars,
                   historyVars>>

\* The critical section of Receive: both maps learn the delivered tokens.
RegisterPending_OnlyFirst(p, T, r) ==
    LET t == CHOOSE t \in T : TRUE IN MapPut(p, {t}, r)

RegisterPending(p, T, r) == MapPut(p, T, r)

Register(c) ==
    /\ pc[c] = "received"
    /\ \E r \in rx[c] :
          /\ pending' = RegisterPending(pending, tok[c], r)
          /\ receiverTokens' = MapPut(receiverTokens, {r}, tok[c])
    /\ Finish(c)
    /\ rx' = [rx EXCEPT ![c] = {}]
    /\ tok' = [tok EXCEPT ![c] = {}]
    /\ UNCHANGED <<brokerVars, sdkVars, askVars, historyVars>>
-----------------------------------------------------------------------------
(* settle: Delete completes the message, DeadLetter dead-letters it.       *)

\* The first critical section takes the token out of pending. A token that is
\* not there is an error that changes nothing, so only the other case steps.
ClaimPending_Kept(p, t) == p

ClaimPending(p, t) == MapDelete(p, {t})

Claim(c, t, op) ==
    /\ pc[c] = "idle"
    /\ t \in DOMAIN pending
    /\ pending' = ClaimPending(pending, t)
    /\ pc' = [pc EXCEPT ![c] = op]
    /\ rx' = [rx EXCEPT ![c] = {pending[t]}]
    /\ tok' = [tok EXCEPT ![c] = {t}]
    /\ UNCHANGED <<brokerVars, sdkVars, receiverTokens, historyVars>>

Delete(c, t) ==
    /\ Claim(c, t, "complete")
    /\ discarded' = discarded \cup {MessageOf(t)}
    /\ UNCHANGED condemned

DeadLetter(c, t) ==
    /\ Claim(c, t, "deadletter")
    /\ condemned' = condemned \cup {MessageOf(t)}
    /\ UNCHANGED discarded

\* What fn asks the queue for.
SettledAs_AlwaysComplete(op) == "completed"

SettledAs(op) == IF op = "complete" THEN "completed" ELSE "dead"

\* fn reached the queue while the lock still stood; the answer may be lost.
SettleApplied(c) ==
    /\ pc[c] \in {"complete", "deadletter"}
    /\ \A r \in rx[c] : Usable(r)
    /\ \E t \in tok[c] :
          /\ LockHeld(t)
          /\ queue' = [queue EXCEPT ![MessageOf(t)] = SettledAs(pc[c])]
    /\ pc' = [pc EXCEPT ![c] = "release"]
    /\ UNCHANGED <<deliveries, sdkVars, backendVars, rx, tok, askVars,
                   historyVars>>

\* fn failed: lock lost, receiver or client closed, or no connection.
SettleRejected(c) ==
    /\ pc[c] \in {"complete", "deadletter"}
    /\ pc' = [pc EXCEPT ![c] = "release"]
    /\ UNCHANGED <<brokerVars, sdkVars, backendVars, rx, tok, askVars,
                   historyVars>>

\* The second critical section, whatever fn answered: the token leaves its
\* receiver's set, and the receiver that has no token left leaves the map and
\* is closed after the unlock.
TokensLeft_Kept(T, t) == T

TokensLeft(T, t) == T \ {t}

ForgetReceiver_EmptySetStays(tokens, r) == [tokens EXCEPT ![r] = {}]

ForgetReceiver(tokens, r) == MapDelete(tokens, {r})

Release(c) ==
    /\ pc[c] = "release"
    /\ \E r \in rx[c], t \in tok[c] :
          IF r \in DOMAIN receiverTokens
          THEN LET left == TokensLeft(receiverTokens[r], t) IN
               IF left = {}
               THEN /\ receiverTokens' = ForgetReceiver(receiverTokens, r)
                    /\ pc' = [pc EXCEPT ![c] = "closing"]
                    /\ UNCHANGED rx
               ELSE /\ receiverTokens' = [receiverTokens EXCEPT ![r] = left]
                    /\ Finish(c)
                    /\ rx' = [rx EXCEPT ![c] = {}]
          ELSE /\ Finish(c)
               /\ rx' = [rx EXCEPT ![c] = {}]
               /\ UNCHANGED receiverTokens
    /\ tok' = [tok EXCEPT ![c] = {}]
    /\ UNCHANGED <<brokerVars, sdkVars, pending, askVars, historyVars>>

\* The deferred Close of the one receiver a Receive, settle or Purge works on.
CloseReceiver(c) ==
    /\ pc[c] \in {"closing", "drained"}
    /\ receiver' = [r \in Receivers |-> IF r \in rx[c] THEN "closed" ELSE receiver[r]]
    /\ Finish(c)
    /\ rx' = [rx EXCEPT ![c] = {}]
    /\ purgeScope' = [purgeScope EXCEPT ![c] = {}]
    /\ UNCHANGED <<brokerVars, clientOpen, backendVars, tok, askVars,
                   delivered, shutdown>>

-----------------------------------------------------------------------------
(* Purge: receive and complete until a receive brings nothing. It never    *)
(* reads or writes the maps.                                               *)

Purge(c) ==
    /\ OpenReceiver(c, "purging")
    /\ purgeScope' = [purgeScope EXCEPT ![c] = Visible]

PurgeReceive(c, S) ==
    /\ pc[c] = "purging"
    /\ tok[c] = {}
    /\ \E r \in rx[c] : Deliver(c, r, S)
    /\ discarded' = discarded \cup S
    /\ UNCHANGED <<pc, rx, condemned, delivered>>

PurgeComplete(c, t) ==
    /\ pc[c] = "purging"
    /\ t \in tok[c]
    /\ \A r \in rx[c] : Usable(r)
    /\ LockHeld(t)
    /\ queue' = [queue EXCEPT ![MessageOf(t)] = "completed"]
    /\ \/ /\ tok' = [tok EXCEPT ![c] = @ \ {t}]
          /\ UNCHANGED pc
       \/ /\ tok' = [tok EXCEPT ![c] = {}]     \* completed, answer lost
          /\ pc' = [pc EXCEPT ![c] = "closing"]
    /\ UNCHANGED <<deliveries, sdkVars, backendVars, rx, askVars, historyVars>>

\* An error of ReceiveMessages or CompleteMessage ends the Purge with an error.
PurgeFails(c) ==
    /\ pc[c] = "purging"
    /\ pc' = [pc EXCEPT ![c] = "closing"]
    /\ tok' = [tok EXCEPT ![c] = {}]
    /\ UNCHANGED <<brokerVars, sdkVars, backendVars, rx, askVars, historyVars>>

\* No message and no error, or DeadlineExceeded, which the five seconds and the
\* caller's own context both raise: Purge returns nil.
PurgeDrained(c) ==
    /\ pc[c] = "purging"
    /\ tok[c] = {}
    /\ pc' = [pc EXCEPT ![c] = "drained"]
    /\ UNCHANGED <<brokerVars, sdkVars, backendVars, rx, tok, askVars,
                   historyVars>>

-----------------------------------------------------------------------------
(* Close empties the maps under mu, then closes the receivers it found and *)
(* the client.                                                             *)

Close(c) ==
    /\ pc[c] = "idle"
    /\ pc' = [pc EXCEPT ![c] = "shutdown"]
    /\ rx' = [rx EXCEPT ![c] = DOMAIN receiverTokens]
    /\ receiverTokens' = MapDelete(receiverTokens, DOMAIN receiverTokens)
    /\ pending' = MapDelete(pending, DOMAIN pending)
    /\ shutdown' = TRUE
    /\ UNCHANGED <<brokerVars, sdkVars, tok, askVars, delivered, purgeScope>>

CloseNextReceiver(c) ==
    /\ pc[c] = "shutdown"
    /\ \E r \in rx[c] :
          /\ receiver' = [receiver EXCEPT ![r] = "closed"]
          /\ rx' = [rx EXCEPT ![c] = @ \ {r}]
    /\ UNCHANGED <<brokerVars, clientOpen, backendVars, pc, tok, askVars,
                   historyVars>>

CloseClient(c) ==
    /\ pc[c] = "shutdown"
    /\ rx[c] = {}
    /\ clientOpen' = FALSE
    /\ Finish(c)
    /\ UNCHANGED <<brokerVars, receiver, backendVars, rx, tok, askVars,
                   historyVars>>

-----------------------------------------------------------------------------
(* The queue on its own, and the process dying and starting again.         *)

LockExpires(m) ==
    /\ queue[m] = "locked"
    /\ queue' = [queue EXCEPT ![m] = "active"]
    /\ UNCHANGED <<deliveries, sdkVars, backendVars, callVars, askVars,
                   historyVars>>

DelayElapses(m) ==
    /\ queue[m] = "scheduled"
    /\ queue' = [queue EXCEPT ![m] = "active"]
    /\ UNCHANGED <<deliveries, sdkVars, backendVars, callVars, askVars,
                   historyVars>>

\* Nothing is persisted: a new process has a new client and empty maps, and
\* the receivers of the old one are gone.
Restart ==
    /\ clientOpen' = TRUE
    /\ receiver' = [r \in Receivers |->
                        IF receiver[r] = "open" THEN "closed" ELSE receiver[r]]
    /\ pending' = MapDelete(pending, DOMAIN pending)
    /\ receiverTokens' = MapDelete(receiverTokens, DOMAIN receiverTokens)
    /\ pc' = [c \in Callers |-> "idle"]
    /\ rx' = [c \in Callers |-> {}]
    /\ tok' = [c \in Callers |-> {}]
    /\ delivered' = [r \in Receivers |-> {}]
    /\ shutdown' = FALSE
    /\ purgeScope' = [c \in Callers |-> {}]
    /\ UNCHANGED <<brokerVars, askVars>>

-----------------------------------------------------------------------------
\* What a caller does next in the call it is in.
Step(c) ==
    \/ \E S \in SUBSET Messages : ReceiveMessages(c, S) \/ PurgeReceive(c, S)
    \/ ReceiveNothing(c) \/ Register(c)
    \/ SettleApplied(c) \/ SettleRejected(c) \/ Release(c)
    \/ \E t \in tok[c] : PurgeComplete(c, t)
    \/ PurgeFails(c) \/ PurgeDrained(c)
    \/ CloseReceiver(c) \/ CloseNextReceiver(c) \/ CloseClient(c)

\* The calls an idle caller may begin.
Call(c) ==
    \/ \E m \in Messages, delayed \in BOOLEAN : Send(c, m, delayed)
    \/ \E S \in SUBSET Messages : SendBatch(c, S)
    \/ Receive(c) \/ Purge(c) \/ Close(c)
    \/ \E t \in DOMAIN pending : Delete(c, t) \/ DeadLetter(c, t)

Next ==
    \/ \E c \in Callers : Step(c) \/ Call(c)
    \/ \E m \in Messages : LockExpires(m) \/ DelayElapses(m)
    \/ Restart

Spec == Init /\ [][Next]_vars

\* Every call returns: the SDK answers or the caller's context ends the wait.
\* Nobody is obliged to begin a call, in particular not to settle a message.
FairSpec == Spec /\ \A c \in Callers : WF_vars(Step(c))
\* Every variable has its type; in particular receiverTokens has no empty set: a receiver
\* without tokens is taken out of the map, not left there (azurebus.go:236-237).
TypeOK ==
    /\ queue \in [Messages -> Places]
    /\ deliveries \in [Messages -> 0 .. MaxDeliveries]
    /\ clientOpen \in BOOLEAN
    /\ receiver \in [Receivers -> {"new", "open", "closed"}]
    /\ DOMAIN pending \subseteq Tokens
    /\ pending \in [DOMAIN pending -> Receivers]
    /\ DOMAIN receiverTokens \subseteq Receivers
    /\ receiverTokens \in [DOMAIN receiverTokens -> (SUBSET Tokens) \ {{}}]
    /\ pc \in [Callers -> PCs]
    /\ rx \in [Callers -> SUBSET Receivers]
    /\ tok \in [Callers -> SUBSET Tokens]
    /\ delivered \in [Receivers -> SUBSET Tokens]
    /\ shutdown \in BOOLEAN
    /\ purgeScope \in [Callers -> SUBSET Messages]
    /\ discarded \subseteq Messages
    /\ condemned \subseteq Messages

Settling(c) == pc[c] \in SettlePCs

\* The tokens of r that are still pending, or that a settle has claimed and not
\* yet taken out of the set of r.
Outstanding(r) ==
    {t \in Tokens :
        \/ t \in DOMAIN pending /\ pending[t] = r
        \/ \E c \in Callers : Settling(c) /\ r \in rx[c] /\ t \in tok[c]}

\* The two maps and the settles in flight tell one story (azurebus.go:33-38): a
\* pending token belongs to a tracked receiver, and the tokens of a tracked
\* receiver are exactly its outstanding ones.
MapsAgree ==
    /\ \A t \in DOMAIN pending : pending[t] \in DOMAIN receiverTokens
    /\ \A r \in DOMAIN receiverTokens : receiverTokens[r] = Outstanding(r)

\* Whoever shares a handle, one call at most settles it (azurebus.go:220-225):
\* a claimed token is neither pending nor claimed by another call.
OneSettlerPerToken ==
    \A c \in Callers : Settling(c) =>
        /\ tok[c] \cap DOMAIN pending = {}
        /\ \A d \in Callers \ {c} : Settling(d) => tok[c] \cap tok[d] = {}

\* "the receiver must outlive its in-flight messages" (azurebus.go:24-25): until
\* Close is called, a token that is pending, or that a settle is giving to
\* the queue, belongs to an open receiver: no other settle closed it.
ReceiverOutlivesTokens ==
    ~ shutdown =>
        /\ \A t \in DOMAIN pending : receiver[pending[t]] = "open"
        /\ \A c \in Callers, r \in Receivers :
              pc[c] \in {"complete", "deadletter"} /\ r \in rx[c] => receiver[r] = "open"

\* No receiver is forgotten (azurebus.go:164-171, 234-241, 327-339): one that is
\* open is in the map, where a settle or Close will find it, or held by a call
\* that is going to close or register it.
NoReceiverLeak ==
    \A r \in Receivers : receiver[r] = "open" =>
        r \in DOMAIN receiverTokens \/ \E c \in Callers : r \in rx[c]

\* A tracked receiver whose last handle was taken is closed in the end, even
\* when settling failed (azurebus.go:231-241).
DrainedReceiverCloses ==
    \A r \in Receivers :
        (r \in DOMAIN receiverTokens /\ \A t \in DOMAIN pending : pending[t] # r)
            ~> receiver[r] = "closed"

\* azurebus.go:22-23 says "Each Receive opens a receiver that stays open until
\* every message it delivered has been settled via Delete or DeadLetter".
ReceiverOpenUntilSettled ==
    \A r \in Receivers : receiver[r] = "closed" /\ ~ shutdown =>
        \A t \in delivered[r] : queue[MessageOf(t)] \in {"completed", "dead"}

\* messaging.go:73 says "Purge deletes all messages in the queue": when it
\* returns nil, and its last receive left nothing it could have been given,
\* none of the messages that were there when it began is still in the queue.
PurgeDeletesAll ==
    \A c \in Callers :
        pc[c] = "drained" /\ (\A m \in Messages : queue[m] # "active")
            => purgeScope[c] \cap InQueue = {}

\* The backend implements the contract of messaging.Backend: here messages
\* leave the source by being completed or dead-lettered, never otherwise.
Contract ==
    INSTANCE QueueContract WITH
        sent      <- {m \in Messages : queue[m] # "unsent"},
        source    <- InQueue,
        dead      <- {m \in Messages : queue[m] = "dead"},
        discarded <- discarded,
        condemned <- condemned

ImplementsContract == Contract!Spec
-----------------------------------------------------------------------------
(* The inductive invariant: what the properties above need to be preserved *)
(* by every step, and the contract needs to be implemented by every step.  *)
(* ServiceBusProofs proves it, a run checks it.                            *)

\* A call between two critical sections that alone knows its receiver.
FreshPCs == {"receiving", "received", "purging"}

\* What a call holds at each point.
CallShape ==
    \A c \in Callers :
        /\ pc[c] = "idle" => rx[c] = {}
        /\ pc[c] \notin {"idle", "shutdown"} => \E r \in Receivers : rx[c] = {r}
        /\ Settling(c) => \E t \in Tokens : tok[c] = {t}
        /\ pc[c] = "received" => tok[c] # {}
        /\ pc[c] \in {"idle", "receiving", "closing", "drained", "shutdown"}
              => tok[c] = {}

\* A lock token is in one place, and no token precedes its delivery.
TokensOnce ==
    \A c \in Callers :
        /\ tok[c] \cap DOMAIN pending = {}
        /\ \A d \in Callers \ {c} : tok[c] \cap tok[d] = {}

TokensIssued ==
    /\ \A t \in DOMAIN pending : t[2] <= deliveries[MessageOf(t)]
    /\ \A c \in Callers : \A t \in tok[c] : t[2] <= deliveries[MessageOf(t)]

\* Who may close a receiver: nobody while it is tracked, only the call that
\* opened it before that.
ReceiverOwners ==
    /\ \A r \in DOMAIN receiverTokens : receiver[r] = "open"
    /\ \A c \in Callers : \A r \in rx[c] :
          /\ receiver[r] # "new"
          /\ ~ Settling(c) => r \notin DOMAIN receiverTokens
          /\ pc[c] \in FreshPCs =>
                /\ receiver[r] = "open"
                /\ \A d \in Callers \ {c} : r \notin rx[d]

\* A settle works on a tracked receiver, unless Close took it away.
SettleTracked ==
    \A c \in Callers : Settling(c) => \A r \in rx[c] :
        \/ r \in DOMAIN receiverTokens
        \/ /\ shutdown
           /\ \/ receiver[r] = "closed"
              \/ \E d \in Callers : pc[d] = "shutdown" /\ r \in rx[d]

\* What a call does to a message, the application asked for, and only a message
\* that was sent is ever delivered.
CallsAsked ==
    /\ \A c \in Callers : \A t \in tok[c] :
          /\ pc[c] \in {"complete", "purging"} => MessageOf(t) \in discarded
          /\ pc[c] = "deadletter" => MessageOf(t) \in condemned
    /\ \A m \in Messages : deliveries[m] > 0 => queue[m] # "unsent"

Inv ==
    /\ TypeOK
    /\ CallShape
    /\ TokensOnce
    /\ TokensIssued
    /\ MapsAgree
    /\ ReceiverOwners
    /\ SettleTracked
    /\ NoReceiverLeak
    /\ CallsAsked
=============================================================================
