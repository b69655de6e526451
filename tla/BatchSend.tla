----------------------------- MODULE BatchSend -----------------------------
(***************************************************************************)
(* Sending a batch through the backends of src/email (SES, Azure           *)
(* Communication Services, SMTP) and of src/pubsub (SNS, Event Grid). They *)
(* keep no state between calls: what there is to get wrong is which        *)
(* messages a service has accepted when a call returns, and what a caller  *)
(* that calls again then does. Send and Publish are batches of one.        *)
(***************************************************************************)
EXTENDS Mime

CONSTANTS
    Mails,          \* batches of the email backends, sequences of EmailMessages
    Events,         \* batches of the pub/sub backends; what the entries hold is left out
    Backends,       \* the backends Init chooses from
    snsBatchLimit,  \* entries of one SNS request; 10 in the code
    MaxCalls,       \* a bound: how often the caller sends the batch
    MaxLost,        \* a bound: how many answers are lost
    NoMail

Email  == {"ses", "azure_acs", "smtp"}
PubSub == {"sns", "azure_eventgrid"}

ASSUME BatchesAssumption ==
    \A b \in Mails \cup Events : b \in Seq({b[i] : i \in DOMAIN b}) \ {<<>>}
ASSUME MailsAssumption ==
    \A b \in Mails : \A i \in DOMAIN b :
        /\ b[i].text \in BOOLEAN /\ b[i].html \in BOOLEAN
        /\ b[i].attachments \in Nat
        /\ b[i].recipients \subseteq {"To", "Cc", "Bcc"}
ASSUME BackendsAssumption == Backends \subseteq Email \cup PubSub
ASSUME LimitAssumption == snsBatchLimit \in Nat \ {0}
ASSUME BoundsAssumption == MaxCalls \in Nat \ {0} /\ MaxLost \in Nat

VARIABLES
    backend,
    batch,
    defaultFrom,    \* whether the backend was given a sender
    pos,            \* the message that is being sent, or the first of a chunk
    step,           \* how far the SMTP dialogue has come
    raw,            \* the MIME message of that send, or NoMail
    envelope,       \* the recipients the SMTP server has taken in it
    ids,            \* how many ids were collected
    answer,         \* running, nil, or an error: of the core package or not
    now,            \* how often each message was accepted during this call
    before,         \* and during earlier calls
    reached,        \* the recipients an accepted mail was accepted for
    calls, lost

input  == <<backend, batch, defaultFrom>>
dialog == <<step, raw, envelope>>
vars == <<input, pos, dialog, ids, answer, now, before, reached, calls, lost>>

Index == DOMAIN batch
Mail  == batch[pos]

-----------------------------------------------------------------------------
Init ==
    /\ backend \in Backends
    /\ batch \in IF backend \in Email THEN Mails ELSE Events
    /\ defaultFrom \in IF backend \in Email THEN BOOLEAN ELSE {FALSE}
    /\ pos = 1
    /\ step = "start" /\ raw = NoMail /\ envelope = {}
    /\ ids = 0
    /\ answer = "running"
    /\ now = [i \in Index |-> 0]
    /\ before = [i \in Index |-> 0]
    /\ reached = [i \in Index |-> {}]
    /\ calls = 1
    /\ lost = 0

Running(b) == backend = b /\ answer = "running"

Hangup == step' = "start" /\ raw' = NoMail /\ envelope' = {}

NothingAccepted == UNCHANGED <<now, reached, lost>>

\* The service accepts the messages of S.
Accept(S) == now' = [i \in Index |-> IF i \in S THEN now[i] + 1 ELSE now[i]]

\* One mail is accepted for recipients.
AcceptMail(recipients) ==
    /\ Accept({pos})
    /\ reached' = [reached EXCEPT ![pos] = recipients]

\* The service accepts the messages of S, but its answer does not arrive.
AnswerLost(S) ==
    /\ lost < MaxLost
    /\ lost' = lost + 1
    /\ Accept(S)

\* The AWS and Azure clients send a request again when its answer is lost.
Resend == UNCHANGED <<input, pos, dialog, ids, answer, before, calls>>

-----------------------------------------------------------------------------
(* The loop over a batch, sendBatchLoop or the chunks of SNS.              *)

\* The call returns an error, and no ids.
Fail_SkipsMessage(error) ==
    /\ pos' = IF pos = Len(batch) THEN pos ELSE pos + 1
    /\ answer' = IF pos = Len(batch) THEN error ELSE "running"
    /\ Hangup
    /\ UNCHANGED <<input, ids, before, calls>>

Fail(error) ==
    /\ answer' = error
    /\ ids' = 0
    /\ Hangup
    /\ UNCHANGED <<input, pos, before, calls>>

\* The messages up to last were sent: the call goes on, or returns the ids.
GoOn_FromLast(last) ==
    /\ pos' = IF last = Len(batch) THEN last + 1 ELSE last
    /\ ids' = ids + (last + 1 - pos)
    /\ answer' = IF last = Len(batch) THEN "nil" ELSE "running"
    /\ Hangup
    /\ UNCHANGED <<input, before, calls>>

GoOn(last) ==
    /\ pos' = last + 1
    /\ ids' = ids + (last + 1 - pos)
    /\ answer' = IF last = Len(batch) THEN "nil" ELSE "running"
    /\ Hangup
    /\ UNCHANGED <<input, before, calls>>

\* The caller calls again after an error, with the whole batch: it was given no
\* ids to tell which messages were sent.
Again ==
    /\ answer \notin {"running", "nil"}
    /\ calls < MaxCalls
    /\ calls' = calls + 1
    /\ answer' = "running"
    /\ pos' = 1
    /\ before' = [i \in Index |-> before[i] + now[i]]
    /\ now' = [i \in Index |-> 0]
    /\ UNCHANGED <<input, dialog, ids, reached, lost>>

-----------------------------------------------------------------------------
(* src/email. Every Send resolves the sender, then builds its message.     *)

\* resolveSender: a sender, and at least one body.
ResolveSender(msg) == (msg.from \/ defaultFrom) /\ (msg.text \/ msg.html)

Build(message) ==
    /\ step = "start"
    /\ ResolveSender(Mail)
    /\ step' = "built"
    /\ raw' = message
    /\ NothingAccepted
    /\ UNCHANGED <<input, pos, envelope, ids, answer, before, calls>>

\* Invalid, or refused by the service: an error of the core package.
SendFails_Unmapped ==
    /\ step = "start" => ~ResolveSender(Mail)
    /\ NothingAccepted
    /\ Fail("raw")

SendFails ==
    /\ step = "start" => ~ResolveSender(Mail)
    /\ NothingAccepted
    /\ Fail("core_error")

\* Mail with attachments or headers of its own goes out as a MIME message, which
\* has no Message-Id of the backend's; other mail as its fields.
SESSend ==
    /\ Running("ses")
    /\ \/ Build(IF Mail.attachments > 0 \/ Mail.headers # {}
                THEN BuildMIME(Mail, FALSE) ELSE NoMail)
       \/ SendFails
       \/ /\ step = "built"
          /\ \/ AcceptMail(Mail.recipients) /\ GoOn(pos) /\ UNCHANGED lost
             \/ AnswerLost({pos}) /\ reached' = [reached EXCEPT ![pos] = Mail.recipients] /\ Resend

\* One POST, never repeated; a token that cannot be had is a failure before it.
ACSSend ==
    /\ Running("azure_acs")
    /\ \/ Build(NoMail)
       \/ SendFails
       \/ /\ step = "built"
          /\ \/ AcceptMail(Mail.recipients) /\ GoOn(pos) /\ UNCHANGED lost
             \/ /\ AnswerLost({pos})
                /\ reached' = [reached EXCEPT ![pos] = Mail.recipients]
                /\ Fail("core_error")

SMTPSend ==
    /\ Running("smtp")
    /\ \/ Build(BuildMIME(Mail, TRUE))
       \/ step # "quit" /\ SendFails

\* To, Cc and Bcc alike are recipients of the envelope.
Envelope_OfHeaders(msg) == msg.recipients \cap {"To", "Cc"}

Envelope(msg) == msg.recipients

Reply(from, to) ==
    /\ step = from
    /\ step' = to
    /\ UNCHANGED <<input, pos, raw, ids, answer, before, calls>>

\* The connection, with its TLS handshake or STARTTLS.
Dial ==
    /\ Running("smtp")
    /\ Reply("built", "connected")
    /\ NothingAccepted
    /\ UNCHANGED envelope

TakeRecipient ==
    \E to \in Envelope(Mail) \ envelope :
        /\ Reply("mail", "mail")
        /\ envelope' = envelope \cup {to}
        /\ NothingAccepted

\* AUTH and MAIL, then RCPT for each recipient, DATA, the message and its dot, QUIT:
\* a refusal of any of them returns (SMTPSend), only the last one unmapped.
Deliver ==
    /\ Running("smtp")
    /\ \/ Reply("connected", "mail") /\ NothingAccepted /\ UNCHANGED envelope
       \/ TakeRecipient
       \/ /\ envelope = Envelope(Mail)
          /\ Reply("mail", "data")
          /\ NothingAccepted
          /\ UNCHANGED envelope
       \/ Reply("data", "quit") /\ AcceptMail(envelope) /\ UNCHANGED <<envelope, lost>>
       \/ /\ step = "data"
          /\ AnswerLost({pos})
          /\ reached' = [reached EXCEPT ![pos] = envelope]
          /\ Fail("core_error")
       \/ /\ step = "quit"
          /\ NothingAccepted
          /\ GoOn(pos) \/ Fail("raw")

-----------------------------------------------------------------------------
(* src/pubsub. One request takes a chunk of the batch, or all of it.       *)

\* The entries of the chunk that starts at pos.
Chunk == {i \in Index : pos <= i /\ i < pos + snsBatchLimit}

Request(entries) ==
    \/ NothingAccepted /\ Fail("core_error")
    \/ AnswerLost(entries) /\ Resend /\ UNCHANGED reached
    \/ /\ Accept(entries)
       /\ UNCHANGED <<reached, lost>>
       /\ \E last \in entries : (\A i \in entries : i <= last) /\ GoOn(last)

SNSPublish ==
    /\ Running("sns")
    /\ Len(batch) = 1
    /\ Request({1})

\* SNS may refuse some entries of a request: an error, though it took the others.
SNSPublishBatch_FailedIgnored ==
    /\ Running("sns")
    /\ \/ Request(Chunk)
       \/ \E refused \in (SUBSET Chunk) \ {{}} :
             /\ Accept(Chunk \ refused)
             /\ UNCHANGED <<reached, lost>>
             /\ \E last \in Chunk : (\A i \in Chunk : i <= last) /\ GoOn(last)

SNSPublishBatch ==
    /\ Running("sns")
    /\ \/ Request(Chunk)
       \/ \E refused \in (SUBSET Chunk) \ {{}} :
             \/ AnswerLost(Chunk \ refused) /\ Resend /\ UNCHANGED reached
             \/ Accept(Chunk \ refused) /\ Fail("core_error") /\ UNCHANGED <<reached, lost>>

\* An event that cannot be made fails the call before anything is sent.
EventGridPublish ==
    /\ Running("azure_eventgrid")
    /\ Len(batch) = 1
    /\ Request({1})

EventGridPublishBatch ==
    /\ Running("azure_eventgrid")
    /\ Request(Index)

-----------------------------------------------------------------------------
Next ==
    \/ Again
    \/ SESSend \/ ACSSend \/ SMTPSend \/ Dial \/ Deliver
    \/ SNSPublish \/ SNSPublishBatch \/ EventGridPublish \/ EventGridPublishBatch

Spec == Init /\ [][Next]_vars
-----------------------------------------------------------------------------
\* Every variable has its type.
TypeOK ==
    /\ backend \in Backends
    /\ batch \in IF backend \in Email THEN Mails ELSE Events
    /\ pos \in 1..(Len(batch) + 1)
    /\ answer \in {"running", "nil", "core_error", "raw"}
    /\ pos > Len(batch) => answer = "nil"
    /\ step \in {"start", "built", "connected", "mail", "data", "quit"}
    /\ envelope \in SUBSET {"To", "Cc", "Bcc"}
    /\ ids \in 0..Len(batch)
    /\ now \in [Index -> 0..(MaxLost + 1)]
    /\ before \in [Index -> Nat]
    /\ reached \in [Index -> SUBSET {"To", "Cc", "Bcc"}]
    /\ calls \in 1..MaxCalls
    /\ lost \in 0..MaxLost

\* A batch call that returns nil returns one id per message, and the service has
\* accepted every one, over any chunks and entries it refused on the way
\* (email.go:141-152, sns.go:73-108, eventgrid.go:67-82).
NilMeansSent ==
    answer = "nil" => ids = Len(batch) /\ \A i \in Index : now[i] > 0

\* One call never has a message accepted twice, but for an answer that was lost.
OncePerCall == \A i \in Index : now[i] <= 1 + lost

\* A call that failed has sent everything before the failing request, and nothing
\* after it: an email batch stops at the message, SNS at the chunk, and Event
\* Grid takes the batch in one request.
StopsAtFailure ==
    \A i \in Index :
        /\ i < pos => now[i] > 0
        /\ now[i] > 0 => i <= CASE backend \in Email -> pos
                              [] backend = "sns" -> pos + snsBatchLimit - 1
                              [] OTHER -> Len(batch)

\* Mail is accepted for every recipient, Bcc included, or for none: a recipient the
\* SMTP server refuses ends the dialogue before the message (smtp.go:88-92, 122-126).
AllRecipientsOrNone ==
    backend \in Email =>
        \A i \in Index :
            IF now[i] + before[i] > 0
            THEN reached[i] = batch[i].recipients ELSE reached[i] = {}

\* The one error that is not of the core package (smtp.go:137) says the opposite
\* of what it seems to: the message was accepted, and sending it again doubles it.
RawErrorMeansSent == answer = "raw" => now[pos] > 0

\* The MIME message carries each body and each attachment once and in order, for
\* every combination of them (mime.go:53-169).
MailBodyWhole == raw # NoMail => Leaves(raw.tree) = Expected(Mail)

\* Its header lines are each there once: a key of the caller's own headers that names
\* one, in whatever case, is left out, and every other one goes out; a key with a blank
\* is no header name, and is not compared (mime.go:21-51). Bcc is never among them
\* unless the caller wrote it there (mime.go:21-22).
MailHeadersOnce == raw # NoMail => HeadersOnce(raw, Mail)
-----------------------------------------------------------------------------
(* The inductive invariant behind them.                                    *)

\* How far a call has come, and what it has collected: an error leaves no ids.
Place ==
    /\ answer = "running" =>
          /\ pos <= Len(batch) /\ ids = pos - 1
          /\ backend = "azure_eventgrid" => pos = 1
    /\ answer = "nil" => pos = Len(batch) + 1 /\ ids = Len(batch)
    /\ answer \in {"core_error", "raw"} => pos <= Len(batch) /\ ids = 0

\* Where the SMTP dialogue stands, and the message of the mail that is being sent.
Dialogue ==
    /\ step # "start" => answer = "running" /\ backend \in Email
    /\ step = "data" => envelope = Mail.recipients
    /\ step = "quit" => now[pos] > 0
    /\ raw # NoMail =>
          /\ step # "start"
          /\ Mail.text \/ Mail.html
          /\ \E withID \in BOOLEAN : raw = BuildMIME(Mail, withID)

\* What is still to be sent in this call was accepted in requests whose answer was
\* lost, at most.
NotYet ==
    answer = "running" =>
        \A i \in Index : pos <= i /\ ~(i = pos /\ step = "quit") => now[i] <= lost

Inv ==
    /\ TypeOK
    /\ Place
    /\ Dialogue
    /\ NotYet
    /\ OncePerCall
    /\ StopsAtFailure
    /\ AllRecipientsOrNone
    /\ RawErrorMeansSent
=============================================================================
