------------------------------ MODULE SqsQueue ------------------------------
(***************************************************************************)
(* The AWS SQS messaging backend (src/messaging/sqs.go): one backend       *)
(* shared by several goroutines. SQS has no per-message dead-lettering, so *)
(* DeadLetter sends the body, remembered in pending since Receive, to the  *)
(* DLQ and then deletes the original: two calls that can fail separately,  *)
(* after a third that may have to find the DLQ first.                      *)
(*                                                                         *)
(* One action per critical section of mu and one per call to SQS.          *)
(***************************************************************************)
EXTENDS LeaseQueue

CONSTANTS
    Callers,        \* goroutines that share the backend
    MaxMessages,    \* maxMessages of a Receive
    BatchLimit,     \* entries SQS takes in one request (10)
    ConfiguredURL,  \* Config.DLQURL, or NoURL
    PolicyURL,      \* where the queue's RedrivePolicy points, or NoURL
    NoURL           \* the empty string

ASSUME LimitsAssumption ==
    /\ MaxMessages \in Nat \ {0}
    /\ BatchLimit \in Nat \ {0}

VARIABLES
    dead,           \* messages with a copy in the dead-letter queue
    pending,        \* receipt handle -> body, under mu
    dlqURL,         \* the DLQ's URL once known, under mu
    pc,             \* where each caller is
    tok,            \* the handles its call works on
    body,           \* the body its DeadLetter sends, if any
    \* History, read by properties only.
    acked,          \* messages whose Send or SendBatch reported success
    returned,       \* handles a Receive returned to the application
    owed,           \* those of this process that were not given to Delete nor
                    \* moved by DeadLetter with success
    discarded,      \* messages given to Delete or Purge
    condemned       \* messages given to DeadLetter

callVars == <<pc, tok, body>>
askVars == <<discarded, condemned>>
historyVars == <<acked, returned, owed>>
vars == <<leaseVars, dead, pending, dlqURL, callVars, askVars, historyVars>>

PCs == {"idle", "received", "delete", "resolve", "query", "cache", "send",
        "remove", "forget"}
URLs == {NoURL, ConfiguredURL, PolicyURL}

\* A call returns: its locals are gone.
Return(c) ==
    /\ pc' = [pc EXCEPT ![c] = "idle"]
    /\ tok' = [tok EXCEPT ![c] = {}]
    /\ body' = [body EXCEPT ![c] = {}]

Goto(c, place) ==
    /\ pc' = [pc EXCEPT ![c] = place]
    /\ UNCHANGED <<tok, body>>

Init ==
    /\ LeaseInit
    /\ dead = {}
    /\ pending = [h \in {} |-> MessageOf(h)]
    /\ dlqURL = ConfiguredURL
    /\ pc = [c \in Callers |-> "idle"]
    /\ tok = [c \in Callers |-> {}]
    /\ body = [c \in Callers |-> {}]
    /\ acked = {} /\ returned = {} /\ owed = {}
    /\ discarded = {} /\ condemned = {}
-----------------------------------------------------------------------------
(* Sending. A call that fails although SQS took its messages would differ  *)
(* only in a smaller acked, so it is no case of its own.                   *)

Send(c, m, delayed) ==
    /\ pc[c] = "idle"
    /\ LeaseEnqueue({m}, IF delayed THEN "delayed" ELSE "ready")
    /\ acked' = acked \cup {m}
    /\ UNCHANGED <<dead, pending, dlqURL, callVars, askVars, returned, owed>>

\* One request, never split: more entries than SQS takes fail as a whole.
\* Otherwise SQS takes some entries and fails others, and one that failed makes
\* the whole call fail, ids of the sent ones and all.
BatchReported_Successful(S, taken) == S

BatchReported(S, taken) == IF taken = S THEN S ELSE {}

SendBatch(c, S, taken) ==
    /\ pc[c] = "idle"
    /\ Cardinality(S) <= BatchLimit
    /\ taken \subseteq S
    /\ \A m \in S : queue[m] = "unsent"
    /\ LeaseEnqueue(taken, "ready")
    /\ acked' = acked \cup BatchReported(S, taken)
    /\ UNCHANGED <<dead, pending, dlqURL, callVars, askVars, returned, owed>>
-----------------------------------------------------------------------------
(* Receiving: SQS answers, then body and handle are recorded. An answer    *)
(* that is lost leaves messages leased that nobody has a handle of.        *)

Receive(c, S) ==
    /\ pc[c] = "idle"
    /\ S # {}
    /\ Cardinality(S) <= MaxMessages
    /\ Cardinality(S) <= BatchLimit
    /\ LeaseDeliver(S)
    /\ \/ /\ pc' = [pc EXCEPT ![c] = "received"]
          /\ tok' = [tok EXCEPT ![c] = {NextHandle(m) : m \in S}]
       \/ UNCHANGED <<pc, tok>>
    /\ UNCHANGED <<dead, pending, dlqURL, body, askVars, historyVars>>

Remember_SharedBody(p, T) ==
    LET last == MessageOf(CHOOSE h \in T : TRUE) IN
    [h \in DOMAIN p \cup T |-> IF h \in T THEN last ELSE p[h]]

Remember(p, T) ==
    [h \in DOMAIN p \cup T |-> IF h \in T THEN MessageOf(h) ELSE p[h]]

Register(c) ==
    /\ pc[c] = "received"
    /\ pending' = Remember(pending, tok[c])
    /\ returned' = returned \cup tok[c]
    /\ owed' = owed \cup tok[c]
    /\ Return(c)
    /\ UNCHANGED <<leaseVars, dead, dlqURL, askVars, acked>>
-----------------------------------------------------------------------------
(* Delete asks SQS whether the handle is pending or not, and forgets it    *)
(* whatever SQS answers. The application may use any handle that was       *)
(* returned to it, one it has used before too.                             *)

Delete(c, h) ==
    /\ pc[c] = "idle"
    /\ pc' = [pc EXCEPT ![c] = "delete"]
    /\ tok' = [tok EXCEPT ![c] = {h}]
    /\ discarded' = discarded \cup {MessageOf(h)}
    /\ owed' = owed \ {h}
    /\ UNCHANGED <<leaseVars, dead, pending, dlqURL, body, condemned, acked, returned>>

DeleteMessage(c) ==
    /\ pc[c] = "delete"
    /\ \E h \in tok[c], ok \in BOOLEAN : AckEffect(h, ok)
    /\ Goto(c, "forget")
    /\ UNCHANGED <<dead, pending, dlqURL, askVars, historyVars>>

\* The last critical section of Delete and of a DeadLetter that succeeded.
Forget(c) ==
    /\ pc[c] = "forget"
    /\ pending' = [h \in DOMAIN pending \ tok[c] |-> pending[h]]
    /\ Return(c)
    /\ UNCHANGED <<leaseVars, dead, dlqURL, askVars, historyVars>>
-----------------------------------------------------------------------------
(* DeadLetter: look the body up, find the DLQ, send, delete, forget.       *)

\* A handle that is not pending is an error that changes nothing.
DeadLetter(c, h) ==
    /\ pc[c] = "idle"
    /\ h \in DOMAIN pending
    /\ pc' = [pc EXCEPT ![c] = "resolve"]
    /\ tok' = [tok EXCEPT ![c] = {h}]
    /\ body' = [body EXCEPT ![c] = {pending[h]}]
    /\ condemned' = condemned \cup {MessageOf(h)}
    /\ UNCHANGED <<leaseVars, dead, pending, dlqURL, discarded, historyVars>>

\* resolveDLQURL: the cached URL is read under mu, the policy is asked without.
ReadCachedURL(c) ==
    /\ pc[c] = "resolve"
    /\ Goto(c, IF dlqURL # NoURL THEN "send" ELSE "query")
    /\ UNCHANGED <<leaseVars, dead, pending, dlqURL, askVars, historyVars>>

QueryPolicy(c) ==
    /\ pc[c] = "query"
    /\ \/ PolicyURL # NoURL /\ Goto(c, "cache")
       \/ Return(c)     \* no policy, or GetQueueAttributes or GetQueueUrl failed
    /\ UNCHANGED <<leaseVars, dead, pending, dlqURL, askVars, historyVars>>

CacheURL(c) ==
    /\ pc[c] = "cache"
    /\ dlqURL' = PolicyURL
    /\ Goto(c, "send")
    /\ UNCHANGED <<leaseVars, dead, pending, askVars, historyVars>>

\* The copy may arrive although the call fails; only success goes on.
SendToDLQ_ErrorIgnored(c) ==
    /\ pc[c] = "send"
    /\ dead' \in {dead, dead \cup body[c]}
    /\ Goto(c, "remove")
    /\ UNCHANGED <<leaseVars, pending, dlqURL, askVars, historyVars>>

SendToDLQ(c) ==
    /\ pc[c] = "send"
    /\ \/ dead' = dead \cup body[c] /\ (Goto(c, "remove") \/ Return(c))
       \/ UNCHANGED dead /\ Return(c)
    /\ UNCHANGED <<leaseVars, pending, dlqURL, askVars, historyVars>>

\* The original goes. A failure keeps the handle, so DeadLetter can be repeated,
\* at the price of a second copy.
AfterRemove_AlwaysForget(ok) == "forget"

AfterRemove(ok) == IF ok THEN "forget" ELSE "idle"

RemoveOriginal(c) ==
    /\ pc[c] = "remove"
    /\ \E h \in tok[c], ok \in BOOLEAN :
          /\ AckEffect(h, ok)
          /\ IF AfterRemove(ok) = "idle" THEN Return(c) ELSE Goto(c, "forget")
          /\ owed' = IF ok THEN owed \ {h} ELSE owed
    /\ UNCHANGED <<dead, pending, dlqURL, askVars, acked, returned>>
-----------------------------------------------------------------------------
\* PurgeQueue takes leased messages too; pending is not touched. Close does
\* nothing, so it has no action.
Purge(c) ==
    /\ pc[c] = "idle"
    /\ LeasePurge(InSource)
    /\ discarded' = discarded \cup InSource
    /\ UNCHANGED <<dead, pending, dlqURL, callVars, condemned, historyVars>>

\* A new process knows no handle and no looked-up URL.
Restart ==
    /\ pending' = [h \in {} |-> MessageOf(h)]
    /\ dlqURL' = ConfiguredURL
    /\ pc' = [c \in Callers |-> "idle"]
    /\ tok' = [c \in Callers |-> {}]
    /\ body' = [c \in Callers |-> {}]
    /\ owed' = {}
    /\ UNCHANGED <<leaseVars, dead, askVars, acked, returned>>

Step(c) ==
    \/ Register(c) \/ DeleteMessage(c) \/ Forget(c)
    \/ ReadCachedURL(c) \/ QueryPolicy(c) \/ CacheURL(c)
    \/ SendToDLQ(c) \/ RemoveOriginal(c)

Call(c) ==
    \/ \E m \in Messages, delayed \in BOOLEAN : Send(c, m, delayed)
    \/ \E S \in SUBSET Messages : \E taken \in SUBSET S : SendBatch(c, S, taken)
    \/ \E S \in SUBSET Messages : Receive(c, S)
    \/ \E h \in returned : Delete(c, h) \/ DeadLetter(c, h)
    \/ Purge(c)

Service ==
    /\ \E m \in Messages : LeaseExpires(m) \/ DelayElapses(m)
    /\ UNCHANGED <<dead, pending, dlqURL, callVars, askVars, historyVars>>

Next == (\E c \in Callers : Step(c) \/ Call(c)) \/ Service \/ Restart

Spec == Init /\ [][Next]_vars
-----------------------------------------------------------------------------
\* Every variable has its type, and a handle is pending with its own body.
TypeOK ==
    /\ LeaseTypeOK
    /\ dead \subseteq Messages
    /\ DOMAIN pending \subseteq Handles
    /\ \A h \in DOMAIN pending : pending[h] = MessageOf(h)
    /\ dlqURL \in URLs
    /\ pc \in [Callers -> PCs]
    /\ tok \in [Callers -> SUBSET Handles]
    /\ body \in [Callers -> SUBSET Messages]
    /\ acked \subseteq Messages
    /\ owed \subseteq returned /\ returned \subseteq Handles
    /\ discarded \subseteq Messages
    /\ condemned \subseteq Messages

\* A send that reported success is never undone by anything but a request:
\* its message is in the queue, in the DLQ or discarded, after whatever failed
\* sends, batches in part, dead-letterings and restarts (sqs.go:99-127, 195-226).
AcknowledgedNotLost == acked \subseteq InSource \cup dead \cup discarded

\* sqs.go:38-40, "retained between Receive and Delete/DeadLetter": a handle stays
\* dead-letterable until Delete is called on it or DeadLetter succeeds, so a
\* DeadLetter that failed halfway can be repeated.
RetainedUntilSettled == owed \subseteq DOMAIN pending

\* sqs.go implements the contract of messaging.Backend.
Contract ==
    INSTANCE QueueContract WITH
        sent <- Sent, source <- InSource, dead <- dead,
        discarded <- discarded, condemned <- condemned

ImplementsContract == Contract!Spec
-----------------------------------------------------------------------------
(* The inductive invariant behind AcknowledgedNotLost, RetainedUntilSettled*)
(* and ImplementsContract.                                                 *)

\* The handles some delivery has used: a new delivery's is none of them.
Issued(h) == 0 < h[2] /\ h[2] <= deliveries[MessageOf(h)]

\* Only a message that was sent is delivered, only an issued handle is returned.
HandlesIssued ==
    /\ \A m \in Messages : queue[m] = "unsent" => deliveries[m] = 0
    /\ \A h \in returned : Issued(h)
    /\ \A c \in Callers : \A h \in tok[c] : Issued(h)

\* Between SQS's answer and its registration, a handle is one Receive's alone.
ReceivedOnce ==
    \A c \in Callers : pc[c] = "received" =>
        /\ tok[c] \cap returned = {}
        /\ \A d \in Callers : pc[d] = "received" /\ c # d => tok[c] \cap tok[d] = {}

\* A Delete, and the end of a DeadLetter, has a handle that is owed no more.
DeleteShape(c) ==
    \E h \in returned : tok[c] = {h} /\ h \notin owed

\* A DeadLetter has a returned handle and its message, which was condemned.
DeadLetterShape(c) ==
    \E h \in returned :
        /\ tok[c] = {h} /\ body[c] = {MessageOf(h)}
        /\ MessageOf(h) \in condemned

\* What a call holds at each place.
Shaped(c) ==
    /\ pc[c] \in {"delete", "forget"} => DeleteShape(c)
    /\ pc[c] \in {"resolve", "query", "cache", "send", "remove"} => DeadLetterShape(c)
    /\ pc[c] = "delete" => \A h \in tok[c] : MessageOf(h) \in discarded
    /\ pc[c] = "remove" => body[c] \subseteq dead

CallShape == \A c \in Callers : Shaped(c)

\* Messages that left the queue are accounted for, and a reported one had entered it.
Accounted ==
    /\ acked \subseteq Sent
    /\ Sent \ InSource \subseteq dead \cup discarded

Inv ==
    /\ TypeOK
    /\ HandlesIssued
    /\ ReceivedOnce
    /\ CallShape
    /\ Accounted
    /\ RetainedUntilSettled
=============================================================================
