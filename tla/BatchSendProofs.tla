--------------------------- MODULE BatchSendProofs ---------------------------
(***************************************************************************)
(* Proofs about BatchSend for any batches, any chunk size, any number of   *)
(* calls and of lost answers, and about the MIME message of any mail.      *)
(***************************************************************************)
EXTENDS BatchSend, FiniteSetTheorems, SequenceTheorems, TLAPS

(***************************************************************************)
(* What a step does to a batch, whichever backend takes it.                *)
(***************************************************************************)

\* The last entry that the request under way may carry.
Furthest == CASE backend \in Email -> pos
              [] backend = "sns" -> pos + snsBatchLimit - 1
              [] OTHER -> Len(batch)

\* The service accepts the entries of S, of the request under way; a mail it
\* accepts for all of its recipients, and Event Grid the whole batch.
Takes(S) ==
    /\ answer = "running" /\ step # "quit"
    /\ S \subseteq Index
    /\ backend = "azure_eventgrid" => S = Index
    /\ \A i \in S : pos <= i /\ i <= Furthest
    /\ Accept(S)
    /\ IF backend \in Email
       THEN S = {pos} /\ reached' = [reached EXCEPT ![pos] = Mail.recipients]
       ELSE UNCHANGED reached

\* Its answer is lost: the client asks again, or the call fails.
Unanswered(S) ==
    /\ Takes(S)
    /\ lost < MaxLost
    /\ lost' = lost + 1
    /\ Resend \/ Fail("core_error")

\* Its answer arrives: an entry was refused, the dialogue comes to QUIT, or the
\* request was taken as a whole.
Answered(S) ==
    /\ Takes(S)
    /\ lost' = lost
    /\ \/ Fail("core_error")
       \/ backend = "smtp" /\ Reply("data", "quit") /\ UNCHANGED envelope
       \/ \E last \in S : S = pos .. last /\ GoOn(last)

\* A mail is built, or its dialogue goes on.
Talks ==
    /\ answer = "running" /\ backend \in Email /\ step # "quit"
    /\ NothingAccepted
    /\ UNCHANGED <<input, pos, ids, answer, before, calls>>
    /\ step' \in {"built", "connected", "mail", "data"}
    /\ envelope' \subseteq {"To", "Cc", "Bcc"}
    /\ step' = "data" => envelope' = Mail.recipients
    /\ \/ raw' = raw /\ step # "start"
       \/ raw' = NoMail
       \/ ResolveSender(Mail) /\ \E withID \in BOOLEAN : raw' = BuildMIME(Mail, withID)

\* The server has answered QUIT, or has not.
Quits ==
    /\ answer = "running" /\ backend \in Email /\ step = "quit"
    /\ NothingAccepted
    /\ GoOn(pos) \/ Fail("raw")

\* The batch is a sequence, and its mails have the fields of an EmailMessage.
LEMMA BatchFacts ==
  ASSUME TypeOK
  PROVE  /\ Len(batch) \in Nat \ {0}
         /\ Index = 1 .. Len(batch)
         /\ backend \in Email =>
               \A i \in Index : batch[i].recipients \subseteq {"To", "Cc", "Bcc"}
<1>1. batch \in Mails \cup Events
  BY DEF TypeOK
<1>2. batch \in Seq({batch[i] : i \in DOMAIN batch}) /\ batch # <<>>
  BY <1>1, BatchesAssumption
<1>3. Len(batch) \in Nat \ {0} /\ Index = 1 .. Len(batch)
  BY <1>2 DEF Index
<1>4. backend \in Email => batch \in Mails
  BY DEF TypeOK
<1> QED
  BY <1>3, <1>4, MailsAssumption DEF Index

\* Where a call that runs is, in numbers.
LEMMA RunningFacts ==
  ASSUME Inv, answer = "running"
  PROVE  /\ pos \in Index /\ pos \in Nat /\ pos <= Len(batch) /\ ids = pos - 1
         /\ backend \notin Email => step = "start"
         /\ Furthest \in Int
  BY BatchFacts, LimitAssumption DEF Inv, TypeOK, Place, Dialogue, Furthest

\* What a request takes and how far the call then is, for the three shapes of
\* entries that the pub/sub backends put in one request.
LEMMA RequestKinds ==
  ASSUME Inv, answer = "running", backend \in PubSub, NEW entries, Request(entries),
         \/ entries = {1} /\ Len(batch) = 1
         \/ entries = Chunk /\ backend = "sns"
         \/ entries = Index /\ backend = "azure_eventgrid"
  PROVE  \/ NothingAccepted /\ Fail("core_error")
         \/ Unanswered(entries)
         \/ Answered(entries)
<1> backend \notin Email /\ step = "start"
  BY RunningFacts DEF PubSub, Email
<1>0. pos \in Index /\ pos \in Nat /\ Len(batch) \in Nat \ {0} /\ Index = 1 .. Len(batch)
  BY RunningFacts, BatchFacts DEF Inv
<1>1. /\ entries \subseteq Index
      /\ backend = "azure_eventgrid" => entries = Index
      /\ \A i \in entries : pos <= i /\ i <= Furthest
      /\ \A last \in entries : (\A i \in entries : i <= last) => entries = pos .. last
  <2>1. CASE entries = {1} /\ Len(batch) = 1
    <3>1. pos = 1
      BY <2>1, <1>0
    <3> QED
      BY <2>1, <3>1, <1>0, LimitAssumption DEF Furthest, PubSub
  <2>2. CASE entries = Chunk /\ backend = "sns"
    BY <2>2, <1>0, LimitAssumption DEF Furthest, Chunk
  <2>3. CASE entries = Index /\ backend = "azure_eventgrid"
    <3>1. pos = 1
      BY <2>3 DEF Inv, Place
    <3> QED
      BY <2>3, <3>1, <1>0 DEF Furthest
  <2> QED
    BY <2>1, <2>2, <2>3
<1>2. CASE NothingAccepted /\ Fail("core_error")
  BY <1>2
<1>3. CASE AnswerLost(entries) /\ Resend /\ UNCHANGED reached
  BY <1>1, <1>3 DEF AnswerLost, Unanswered, Takes
<1>4. CASE /\ Accept(entries)
           /\ UNCHANGED <<reached, lost>>
           /\ \E last \in entries : (\A i \in entries : i <= last) /\ GoOn(last)
  <2>1. PICK last \in entries : (\A i \in entries : i <= last) /\ GoOn(last)
    BY <1>4
  <2>2. entries = pos .. last
    BY <1>1, <2>1
  <2>3. Takes(entries)
    BY <1>1, <1>4 DEF Takes
  <2>4. lost' = lost
    BY <1>4
  <2> QED
    BY <2>1, <2>2, <2>3, <2>4 DEF Answered
<1> QED
  BY <1>2, <1>3, <1>4 DEF Request

\* A mail that is accepted is a request of one entry.
LEMMA MailTaken ==
  ASSUME Inv, answer = "running", step # "quit", backend \in Email, Accept({pos}),
         reached' = [reached EXCEPT ![pos] = Mail.recipients]
  PROVE  Takes({pos})
<1>1. pos \in Index /\ pos \in Nat
  BY RunningFacts
<1>2. Furthest = pos
  BY DEF Furthest, Email
<1>3. {pos} \subseteq Index /\ \A i \in {pos} : pos <= i /\ i <= Furthest
  BY <1>1, <1>2
<1>4. backend # "azure_eventgrid"
  BY DEF Email
<1> QED
  BY <1>3, <1>4, Zenon DEF Takes

\* Every step is of one of these kinds.
LEMMA StepKinds ==
  ASSUME Inv, [Next]_vars
  PROVE  \/ UNCHANGED vars
         \/ Again
         \/ Talks
         \/ answer = "running" /\ NothingAccepted /\ Fail("core_error")
         \/ Quits
         \/ \E S \in SUBSET Index : Unanswered(S) \/ Answered(S)
<1> DEFINE Goal == \/ UNCHANGED vars
                   \/ Again
                   \/ Talks
                   \/ answer = "running" /\ NothingAccepted /\ Fail("core_error")
                   \/ Quits
                   \/ \E S \in SUBSET Index : Unanswered(S) \/ Answered(S)
<1>0. answer = "running" => /\ pos \in Index /\ Index = 1 .. Len(batch)
                            /\ pos \in Nat /\ {pos} = pos .. pos
  BY RunningFacts, BatchFacts DEF Inv
<1>1. ASSUME answer = "running", backend \in Email, NEW message,
             message = NoMail \/ \E withID \in BOOLEAN : message = BuildMIME(Mail, withID),
             Build(message)
      PROVE  Talks
  BY <1>1 DEF Build, Talks, Inv, TypeOK
<1>2. ASSUME answer = "running", SendFails
      PROVE  Goal
  BY <1>2 DEF SendFails
<1>3. CASE SESSend
  <2> answer = "running" /\ backend = "ses" /\ backend \in Email
    BY <1>3 DEF SESSend, Running, Email
  <2>1. CASE Build(IF Mail.attachments > 0 \/ Mail.headers # {}
                   THEN BuildMIME(Mail, FALSE) ELSE NoMail)
    BY <1>1, <2>1
  <2>2. CASE step = "built" /\ AcceptMail(Mail.recipients) /\ GoOn(pos) /\ UNCHANGED lost
    <3>1. Takes({pos})
      BY <2>2, MailTaken DEF AcceptMail
    <3> QED
      BY <1>0, <2>2, <3>1 DEF Answered
  <2>3. CASE /\ step = "built" /\ AnswerLost({pos})
             /\ reached' = [reached EXCEPT ![pos] = Mail.recipients] /\ Resend
    <3>1. Takes({pos})
      BY <2>3, MailTaken DEF AnswerLost
    <3> QED
      BY <1>0, <2>3, <3>1 DEF AnswerLost, Unanswered
  <2> QED
    BY <1>2, <1>3, <2>1, <2>2, <2>3 DEF SESSend
<1>4. CASE ACSSend
  <2> answer = "running" /\ backend = "azure_acs" /\ backend \in Email
    BY <1>4 DEF ACSSend, Running, Email
  <2>1. CASE Build(NoMail)
    BY <1>1, <2>1
  <2>2. CASE step = "built" /\ AcceptMail(Mail.recipients) /\ GoOn(pos) /\ UNCHANGED lost
    <3>1. Takes({pos})
      BY <2>2, MailTaken DEF AcceptMail
    <3> QED
      BY <1>0, <2>2, <3>1 DEF Answered
  <2>3. CASE /\ step = "built" /\ AnswerLost({pos})
             /\ reached' = [reached EXCEPT ![pos] = Mail.recipients] /\ Fail("core_error")
    <3>1. Takes({pos})
      BY <2>3, MailTaken DEF AnswerLost
    <3> QED
      BY <1>0, <2>3, <3>1 DEF AnswerLost, Unanswered
  <2> QED
    BY <1>2, <1>4, <2>1, <2>2, <2>3 DEF ACSSend
<1>5. CASE SMTPSend
  <2> answer = "running" /\ backend = "smtp" /\ backend \in Email
    BY <1>5 DEF SMTPSend, Running, Email
  <2>1. CASE Build(BuildMIME(Mail, TRUE))
    BY <1>1, <2>1
  <2> QED
    BY <1>2, <1>5, <2>1 DEF SMTPSend
<1>6. CASE Dial
  BY <1>6 DEF Dial, Running, Reply, Talks, Email, NothingAccepted, Inv, TypeOK
<1>7. CASE Deliver
  <2> answer = "running" /\ backend = "smtp" /\ backend \in Email
    BY <1>7 DEF Deliver, Running, Email
  <2>1. CASE Reply("connected", "mail") /\ NothingAccepted /\ UNCHANGED envelope
    BY <2>1 DEF Reply, Talks, Inv, TypeOK
  <2>2. CASE TakeRecipient
    BY <1>0, <2>2, BatchFacts DEF TakeRecipient, Reply, Talks, Envelope, Inv, TypeOK, Mail
  <2>3. CASE /\ envelope = Envelope(Mail)
             /\ Reply("mail", "data")
             /\ NothingAccepted
             /\ UNCHANGED envelope
    BY <2>3 DEF Reply, Talks, Envelope, Inv, TypeOK
  <2>4. CASE Reply("data", "quit") /\ AcceptMail(envelope) /\ UNCHANGED <<envelope, lost>>
    <3>1. Takes({pos})
      BY <2>4, MailTaken DEF AcceptMail, Reply, Inv, Dialogue
    <3> QED
      BY <1>0, <2>4, <3>1 DEF Answered
  <2>5. CASE /\ step = "data" /\ AnswerLost({pos})
             /\ reached' = [reached EXCEPT ![pos] = envelope] /\ Fail("core_error")
    <3>1. Takes({pos})
      BY <2>5, MailTaken DEF AnswerLost, Inv, Dialogue
    <3> QED
      BY <1>0, <2>5, <3>1 DEF AnswerLost, Unanswered
  <2>6. CASE step = "quit" /\ NothingAccepted /\ (GoOn(pos) \/ Fail("raw"))
    BY <2>6 DEF Quits
  <2> QED
    BY <1>7, <2>1, <2>2, <2>3, <2>4, <2>5, <2>6 DEF Deliver
<1>8. CASE SNSPublish
  <2>1. answer = "running" /\ backend \in PubSub /\ Len(batch) = 1 /\ Request({1})
    BY <1>8 DEF SNSPublish, Running, PubSub
  <2>2. {1} \in SUBSET Index
    BY <1>0, <2>1
  <2>3. \/ NothingAccepted /\ Fail("core_error")
        \/ Unanswered({1})
        \/ Answered({1})
    BY <2>1, RequestKinds
  <2> QED
    BY <2>1, <2>2, <2>3
<1>9. CASE SNSPublishBatch
  <2> answer = "running" /\ backend = "sns" /\ backend \in PubSub
    BY <1>9 DEF SNSPublishBatch, Running, PubSub
  <2>1. CASE Request(Chunk)
    BY <2>1, RequestKinds DEF Chunk
  <2>2. ASSUME NEW refused \in (SUBSET Chunk) \ {{}},
               \/ AnswerLost(Chunk \ refused) /\ Resend /\ UNCHANGED reached
               \/ Accept(Chunk \ refused) /\ Fail("core_error") /\ UNCHANGED <<reached, lost>>
        PROVE  Goal
    <3> DEFINE S == Chunk \ refused
    <3>1. step = "start" /\ backend \notin Email
      BY RunningFacts DEF Email
    <3>2. S \subseteq Index /\ \A i \in S : pos <= i /\ i <= Furthest
      BY <1>0, <3>1, LimitAssumption DEF Chunk, Furthest
    <3>3. Takes(S)
      BY <2>2, <3>1, <3>2 DEF Takes, AnswerLost
    <3>4. Unanswered(S) \/ Answered(S)
      BY <2>2, <3>3 DEF Unanswered, Answered, AnswerLost
    <3> QED
      BY <3>2, <3>4
  <2> QED
    BY <1>9, <2>1, <2>2 DEF SNSPublishBatch
<1>10. CASE EventGridPublish
  <2>1. answer = "running" /\ backend \in PubSub /\ Len(batch) = 1 /\ Request({1})
    BY <1>10 DEF EventGridPublish, Running, PubSub
  <2>2. {1} \in SUBSET Index
    BY <1>0, <2>1
  <2>3. \/ NothingAccepted /\ Fail("core_error")
        \/ Unanswered({1})
        \/ Answered({1})
    BY <2>1, RequestKinds
  <2> QED
    BY <2>1, <2>2, <2>3
<1>11. CASE EventGridPublishBatch
  BY <1>11, RequestKinds DEF EventGridPublishBatch, Running, PubSub
<1> QED
  BY <1>3, <1>4, <1>5, <1>6, <1>7, <1>8, <1>9, <1>10, <1>11 DEF Next

(***************************************************************************)
(* Each kind of step keeps each part of the invariant.                     *)
(***************************************************************************)

\* A call that fails stays where it is and has no ids.
LEMMA FailEffect ==
  ASSUME NEW error, Fail(error)
  PROVE  /\ UNCHANGED <<backend, batch, defaultFrom, pos, before, calls>>
         /\ ids' = 0 /\ answer' = error
         /\ step' = "start" /\ raw' = NoMail /\ envelope' = {}
  BY DEF Fail, Hangup, input

\* A call that goes on after entry last has an id for each entry up to it.
LEMMA GoOnEffect ==
  ASSUME Inv, answer = "running", NEW last \in Index, pos <= last, GoOn(last)
  PROVE  /\ UNCHANGED <<backend, batch, defaultFrom, before, calls>>
         /\ last \in Nat /\ last <= Len(batch)
         /\ pos' = last + 1 /\ ids' = last
         /\ \/ last = Len(batch) /\ answer' = "nil"
            \/ last < Len(batch) /\ answer' = "running"
         /\ step' = "start" /\ raw' = NoMail /\ envelope' = {}
<1>1. /\ pos \in Nat /\ ids = pos - 1 /\ Index = 1 .. Len(batch) /\ Len(batch) \in Nat
  BY RunningFacts, BatchFacts DEF Inv
<1>2. last \in Nat /\ last <= Len(batch)
  BY <1>1
<1> QED
  BY <1>1, <1>2 DEF GoOn, Hangup, input

\* What a request takes had been taken in requests whose answer was lost, at most.
LEMMA TakenBefore ==
  ASSUME Inv, answer = "running", step # "quit"
  PROVE  /\ lost \in Nat
         /\ \A i \in Index : i \in Nat /\ (pos <= i => now[i] \in 0 .. lost)
<1>1. \A i \in Index : i \in Nat
  BY BatchFacts DEF Inv
<1>2. lost \in Nat /\ \A i \in Index : now[i] \in Nat
  BY BoundsAssumption DEF Inv, TypeOK
<1> QED
  BY <1>1, <1>2 DEF Inv, NotYet

\* A mail's dialogue is over, or has not begun.
Resets == step' = "start" /\ raw' = NoMail /\ envelope' = {}

\* A call is at the entry after last, or has returned.
GoesOn(last) ==
    /\ last \in Nat /\ last <= Len(batch)
    /\ pos' = last + 1 /\ ids' = last
    /\ \/ last = Len(batch) /\ answer' = "nil"
       \/ last < Len(batch) /\ answer' = "running"
    /\ Resets

\* A call fails before the service has accepted anything more.
Refused ==
    /\ answer = "running" /\ answer' = "core_error"
    /\ ids' = 0 /\ Resets
    /\ UNCHANGED <<backend, batch, defaultFrom, pos, now, before, reached, calls, lost>>

\* A dialogue ends, after the mail was accepted.
Ended ==
    /\ answer = "running" /\ backend \in Email /\ step = "quit"
    /\ UNCHANGED <<backend, batch, defaultFrom, now, before, reached, calls, lost>>
    /\ \/ UNCHANGED pos /\ ids' = 0 /\ answer' = "raw" /\ Resets
       \/ GoesOn(pos)

\* The entries of S are accepted; how the request ends, whichever way: it is made
\* again, it fails, the dialogue comes to QUIT, or the call goes on.
Requested(S) ==
    /\ answer = "running" /\ step # "quit"
    /\ UNCHANGED <<backend, batch, defaultFrom, before, calls>>
    /\ \A i \in S : i \in Nat /\ pos <= i /\ i <= Furthest /\ now[i] \in 0 .. lost
    /\ backend = "azure_eventgrid" => S = Index
    /\ now' = [i \in Index |-> IF i \in S THEN now[i] + 1 ELSE now[i]]
    /\ \/ backend \notin Email /\ reached' = reached
       \/ /\ backend \in Email
          /\ S = {pos} /\ reached' = [reached EXCEPT ![pos] = Mail.recipients]
    /\ \/ lost' = lost
       \/ lost < MaxLost /\ lost' = lost + 1
    /\ \/ lost' = lost + 1 /\ UNCHANGED <<pos, step, raw, envelope, ids, answer>>
       \/ UNCHANGED pos /\ ids' = 0 /\ answer' = "core_error" /\ Resets
       \/ /\ backend = "smtp" /\ step = "data" /\ step' = "quit"
          /\ UNCHANGED <<pos, raw, envelope, ids, answer>>
       \/ \E last \in S : S = pos .. last /\ GoesOn(last)

LEMMA RequestEffect ==
  ASSUME Inv, NEW S \in SUBSET Index, Unanswered(S) \/ Answered(S)
  PROVE  Requested(S)
<1>1. Takes(S) /\ answer = "running" /\ step # "quit"
  BY Zenon DEF Unanswered, Answered, Takes
<1>2. /\ \A i \in S : i \in Nat /\ pos <= i /\ i <= Furthest /\ now[i] \in 0 .. lost
      /\ backend = "azure_eventgrid" => S = Index
      /\ now' = [i \in Index |-> IF i \in S THEN now[i] + 1 ELSE now[i]]
      /\ \/ backend \notin Email /\ reached' = reached
         \/ /\ backend \in Email
            /\ S = {pos} /\ reached' = [reached EXCEPT ![pos] = Mail.recipients]
  BY <1>1, TakenBefore, Zenon DEF Takes, Accept
<1>3. \/ lost' = lost
      \/ lost < MaxLost /\ lost' = lost + 1
  BY DEF Unanswered, Answered
<1>4. /\ UNCHANGED <<backend, batch, defaultFrom, before, calls>>
      /\ \/ lost' = lost + 1 /\ UNCHANGED <<pos, step, raw, envelope, ids, answer>>
         \/ UNCHANGED pos /\ ids' = 0 /\ answer' = "core_error" /\ Resets
         \/ /\ backend = "smtp" /\ step = "data" /\ step' = "quit"
            /\ UNCHANGED <<pos, raw, envelope, ids, answer>>
         \/ \E last \in S : S = pos .. last /\ GoesOn(last)
  <2>1. CASE lost' = lost + 1 /\ Resend
    BY <2>1 DEF Resend, input, dialog
  <2>2. CASE Fail("core_error")
    BY <2>2, FailEffect, Zenon DEF Resets
  <2>3. CASE backend = "smtp" /\ Reply("data", "quit") /\ UNCHANGED envelope
    BY <2>3 DEF Reply, input
  <2>4. ASSUME NEW last \in S, S = pos .. last, GoOn(last)
        PROVE  UNCHANGED <<backend, batch, defaultFrom, before, calls>> /\ GoesOn(last)
    <3>1. last \in Index /\ pos <= last
      BY <1>2, <2>4
    <3> QED
      BY <1>1, <2>4, <3>1, GoOnEffect DEF GoesOn, Resets
  <2>5. CASE \E last \in S : S = pos .. last /\ GoOn(last)
    BY <2>4, <2>5, Zenon
  <2> QED
    BY <2>1, <2>2, <2>3, <2>5, Zenon DEF Unanswered, Answered
<1> QED
  BY <1>1, <1>2, <1>3, <1>4, Zenon DEF Requested

LEMMA QuitEffect ==
  ASSUME Inv, Quits
  PROVE  Ended
<1>1. /\ answer = "running" /\ backend \in Email /\ step = "quit"
      /\ UNCHANGED <<now, reached, lost>>
  BY DEF Quits, NothingAccepted
<1>2. CASE Fail("raw")
  BY <1>1, <1>2, FailEffect, Zenon DEF Ended, Resets
<1>3. CASE GoOn(pos)
  <2>1. pos \in Index /\ pos <= pos
    BY <1>1, RunningFacts
  <2> QED
    BY <1>1, <1>3, <2>1, GoOnEffect DEF Ended, GoesOn, Resets
<1> QED
  BY <1>2, <1>3 DEF Quits

\* So every step is of one of these kinds.
LEMMA Steps ==
  ASSUME Inv, [Next]_vars
  PROVE  \/ UNCHANGED vars
         \/ Again
         \/ Talks
         \/ Refused
         \/ Ended
         \/ \E S \in SUBSET Index : Requested(S)
<1>1. CASE answer = "running" /\ NothingAccepted /\ Fail("core_error")
  BY <1>1, FailEffect, Zenon DEF Refused, NothingAccepted, Resets
<1> QED
  BY <1>1, RequestEffect, QuitEffect, StepKinds, Zenon

-----------------------------------------------------------------------------
(* The invariant, first what it says of types.                             *)

LEMMA InitInv == Init => Inv
<1> SUFFICES ASSUME Init PROVE Inv
  OBVIOUS
<1>1. batch \in Mails \cup Events
  BY DEF Init
<1>2. batch \in Seq({batch[i] : i \in DOMAIN batch}) /\ batch # <<>>
  BY <1>1, BatchesAssumption
<1>3. Len(batch) \in Nat \ {0} /\ Index = 1 .. Len(batch)
  BY <1>2 DEF Index
<1>4. TypeOK
  BY <1>3, BoundsAssumption DEF Init, TypeOK
<1>5. Place /\ Dialogue /\ NotYet /\ OncePerCall
  BY <1>3, BoundsAssumption DEF Init, Place, Dialogue, NotYet, OncePerCall
<1>6. StopsAtFailure /\ AllRecipientsOrNone /\ RawErrorMeansSent
  BY <1>3 DEF Init, StopsAtFailure, AllRecipientsOrNone, RawErrorMeansSent
<1> QED
  BY <1>4, <1>5, <1>6 DEF Inv

LEMMA TypeStep == Inv /\ [Next]_vars => TypeOK'
<1> SUFFICES ASSUME Inv, [Next]_vars PROVE TypeOK'
  OBVIOUS
<1>0. /\ Len(batch) \in Nat \ {0} /\ Index = 1 .. Len(batch)
      /\ answer = "running" => pos \in Index /\ pos \in Nat
  BY BatchFacts, RunningFacts DEF Inv
<1>1. CASE UNCHANGED vars
  BY <1>1 DEF vars, input, dialog, Inv, TypeOK, Index
<1>2. CASE Again
  BY <1>0, <1>2, BoundsAssumption DEF Again, input, dialog, Inv, TypeOK, Index
<1>3. CASE Talks
  BY <1>3 DEF Talks, NothingAccepted, input, Inv, TypeOK, Index
<1>4. CASE Refused
  BY <1>0, <1>4 DEF Refused, Resets, Inv, TypeOK, Index
<1>5. CASE Ended
  <2>1. /\ pos' \in 1 .. (Len(batch) + 1)
        /\ answer' \in {"running", "nil", "raw"}
        /\ pos' > Len(batch) => answer' = "nil"
        /\ ids' \in 0 .. Len(batch)
    BY <1>0, <1>5 DEF Ended, GoesOn
  <2>2. step' = "start" /\ envelope' = {}
    BY <1>5 DEF Ended, GoesOn, Resets
  <2> QED
    BY <1>5, <2>1, <2>2 DEF Ended, Inv, TypeOK, Index
<1>6. ASSUME NEW S \in SUBSET Index, Requested(S)
      PROVE  TypeOK'
  <2>1. lost' \in 0 .. MaxLost
    BY <1>6, BoundsAssumption DEF Requested, Inv, TypeOK
  <2>2. now' \in [Index -> 0 .. (MaxLost + 1)]
    BY <1>6, BoundsAssumption DEF Requested, Inv, TypeOK
  <2>3. reached' \in [Index -> SUBSET {"To", "Cc", "Bcc"}]
    BY <1>0, <1>6, BatchFacts DEF Requested, Inv, TypeOK, Mail
  <2>4. UNCHANGED <<backend, batch, before, calls, Index>>
    BY <1>6 DEF Requested, Index
  <2>5. /\ pos' \in 1 .. (Len(batch) + 1)
        /\ answer' \in {"running", "nil", "core_error"}
        /\ pos' > Len(batch) => answer' = "nil"
        /\ ids' \in 0 .. Len(batch)
    BY <1>0, <1>6 DEF Requested, GoesOn, Inv, TypeOK
  <2>6. /\ step' \in {"start", "built", "connected", "mail", "data", "quit"}
        /\ envelope' \in SUBSET {"To", "Cc", "Bcc"}
    BY <1>6 DEF Requested, GoesOn, Resets, Inv, TypeOK
  <2> QED
    BY <2>1, <2>2, <2>3, <2>4, <2>5, <2>6 DEF Inv, TypeOK
<1> QED
  BY <1>1, <1>2, <1>3, <1>4, <1>5, <1>6, Steps

-----------------------------------------------------------------------------
(* Where the call and the dialogue stand.                                  *)

LEMMA PlaceStep == Inv /\ [Next]_vars => Place'
<1> SUFFICES ASSUME Inv, [Next]_vars PROVE Place'
  OBVIOUS
<1>0. /\ Len(batch) \in Nat \ {0} /\ Index = 1 .. Len(batch) /\ Place
      /\ answer = "running" => pos \in Nat /\ pos <= Len(batch)
  BY BatchFacts, RunningFacts DEF Inv
<1>1. CASE UNCHANGED vars
  BY <1>0, <1>1 DEF vars, input, Place
<1>2. CASE Again
  <2>1. answer \in {"core_error", "raw"}
    BY <1>2 DEF Again, Inv, TypeOK
  <2> QED
    BY <1>0, <1>2, <2>1 DEF Again, input, Place
<1>3. CASE Talks
  BY <1>0, <1>3 DEF Talks, input, Place
<1>4. CASE Refused
  BY <1>0, <1>4 DEF Refused, Place
<1>5. CASE Ended
  BY <1>0, <1>5 DEF Ended, GoesOn, Place, Email
<1>6. ASSUME NEW S \in SUBSET Index, Requested(S)
      PROVE  Place'
  <2>1. /\ answer = "running" /\ UNCHANGED <<backend, batch>>
        /\ backend = "azure_eventgrid" => S = Index
    BY <1>6 DEF Requested
  <2>2. CASE UNCHANGED <<pos, ids, answer>>
    BY <1>0, <2>1, <2>2 DEF Place
  <2>3. CASE UNCHANGED pos /\ ids' = 0 /\ answer' = "core_error"
    BY <1>0, <2>1, <2>3 DEF Place
  <2>4. ASSUME NEW last \in S, S = pos .. last, GoesOn(last)
        PROVE  Place'
    <3>1. backend = "azure_eventgrid" => last = Len(batch)
      BY <1>0, <2>1, <2>4 DEF GoesOn
    <3> QED
      BY <1>0, <2>1, <2>4, <3>1 DEF GoesOn, Place
  <2> QED
    BY <1>6, <2>2, <2>3, <2>4 DEF Requested
<1> QED
  BY <1>1, <1>2, <1>3, <1>4, <1>5, <1>6, Steps

LEMMA DialogueStep == Inv /\ [Next]_vars => Dialogue'
<1> SUFFICES ASSUME Inv, [Next]_vars PROVE Dialogue'
  OBVIOUS
<1>0. /\ Dialogue /\ now \in [Index -> 0 .. (MaxLost + 1)] /\ MaxLost \in Nat
      /\ answer = "running" => pos \in Index
  BY BoundsAssumption, RunningFacts DEF Inv, TypeOK
<1>1. CASE UNCHANGED vars
  BY <1>0, <1>1 DEF vars, input, dialog, Dialogue, Mail
<1>2. CASE Again
  BY <1>0, <1>2 DEF Again, input, dialog, Dialogue
<1>3. CASE Talks
  <2>1. /\ answer' = "running" /\ backend' \in Email /\ step' \notin {"start", "quit"}
        /\ Mail' = Mail
    BY <1>3 DEF Talks, input, Mail
  <2>2. raw' # NoMail =>
          (Mail.text \/ Mail.html) /\ \E withID \in BOOLEAN : raw' = BuildMIME(Mail, withID)
    BY <1>0, <1>3, Zenon DEF Talks, Dialogue, ResolveSender
  <2>3. step' = "data" => envelope' = Mail.recipients
    BY <1>3 DEF Talks
  <2> QED
    BY <2>1, <2>2, <2>3 DEF Dialogue
<1>4. CASE Refused
  BY <1>4 DEF Refused, Resets, Dialogue
<1>5. CASE Ended
  BY <1>5 DEF Ended, GoesOn, Resets, Dialogue
<1>6. ASSUME NEW S \in SUBSET Index, Requested(S)
      PROVE  Dialogue'
  <2>1. CASE UNCHANGED <<pos, step, raw, envelope, answer>>
    BY <1>0, <1>6, <2>1 DEF Requested, Dialogue, Mail
  <2>2. CASE Resets
    BY <2>2 DEF Resets, Dialogue
  <2>3. CASE /\ backend = "smtp" /\ step = "data" /\ step' = "quit"
             /\ UNCHANGED <<pos, raw, envelope, ids, answer>>
    <3>1. now'[pos] > 0 /\ backend \in Email /\ answer = "running" /\ UNCHANGED <<backend, batch>>
      BY <1>0, <1>6, <2>3 DEF Requested, Email
    <3> QED
      BY <1>0, <2>3, <3>1 DEF Dialogue, Mail
  <2> QED
    BY <1>6, <2>1, <2>2, <2>3 DEF Requested, GoesOn
<1> QED
  BY <1>1, <1>2, <1>3, <1>4, <1>5, <1>6, Steps

-----------------------------------------------------------------------------
(* How often each entry is accepted.                                       *)

LEMMA NotYetStep == Inv /\ [Next]_vars => NotYet'
<1> SUFFICES ASSUME Inv, [Next]_vars PROVE NotYet'
  OBVIOUS
<1>0. /\ Index = 1 .. Len(batch) /\ Len(batch) \in Nat \ {0}
      /\ now \in [Index -> 0 .. (MaxLost + 1)] /\ lost \in Nat /\ MaxLost \in Nat /\ NotYet
      /\ answer = "running" => pos \in Nat /\ pos \in Index
  BY BatchFacts, BoundsAssumption, RunningFacts DEF Inv, TypeOK
<1>1. CASE UNCHANGED vars
  BY <1>0, <1>1 DEF vars, input, dialog, NotYet, Index
<1>2. CASE Again
  BY <1>0, <1>2 DEF Again, input, dialog, NotYet, Index
<1>3. CASE Talks
  BY <1>0, <1>3 DEF Talks, NothingAccepted, input, NotYet, Index
<1>4. CASE Refused
  BY <1>4 DEF Refused, NotYet
<1>5. CASE Ended
  BY <1>0, <1>5 DEF Ended, GoesOn, Resets, NotYet, Index
<1>6. ASSUME NEW S \in SUBSET Index, Requested(S)
      PROVE  NotYet'
  <2>1. /\ answer = "running" /\ step # "quit" /\ lost <= lost' /\ lost' \in Nat
        /\ UNCHANGED Index
        /\ \A i \in Index : /\ i \in Nat
                            /\ i \in S => now'[i] <= lost + 1
                            /\ i \notin S => now'[i] = now[i]
    BY <1>0, <1>6 DEF Requested, Index
  <2>2. \A i \in Index : pos <= i => now[i] \in Nat /\ now[i] <= lost
    BY <1>0, <2>1 DEF NotYet
  <2>3. CASE lost' = lost + 1 /\ UNCHANGED pos
    BY <1>0, <2>1, <2>2, <2>3 DEF NotYet
  <2>4. CASE answer' = "core_error"
    BY <2>4 DEF NotYet
  <2>5. CASE backend = "smtp" /\ step' = "quit" /\ UNCHANGED pos
    <3>1. S = {pos}
      BY <1>6, <2>5 DEF Requested, Email
    <3> QED
      BY <1>0, <2>1, <2>2, <2>5, <3>1 DEF NotYet
  <2>6. ASSUME NEW last \in S, S = pos .. last, GoesOn(last)
        PROVE  NotYet'
    BY <1>0, <2>1, <2>2, <2>6 DEF GoesOn, NotYet
  <2> QED
    BY <1>6, <2>3, <2>4, <2>5, <2>6 DEF Requested
<1> QED
  BY <1>1, <1>2, <1>3, <1>4, <1>5, <1>6, Steps

LEMMA OnceStep == Inv /\ [Next]_vars => OncePerCall'
<1> SUFFICES ASSUME Inv, [Next]_vars PROVE OncePerCall'
  OBVIOUS
<1>0. /\ now \in [Index -> 0 .. (MaxLost + 1)] /\ lost \in Nat /\ MaxLost \in Nat
      /\ OncePerCall
  BY BoundsAssumption DEF Inv, TypeOK
<1>1. CASE UNCHANGED vars
  BY <1>0, <1>1 DEF vars, input, OncePerCall, Index
<1>2. CASE Again
  BY <1>0, <1>2 DEF Again, input, OncePerCall, Index
<1>3. CASE Talks
  BY <1>0, <1>3 DEF Talks, NothingAccepted, input, OncePerCall, Index
<1>4. CASE Refused
  BY <1>0, <1>4 DEF Refused, OncePerCall, Index
<1>5. CASE Ended
  BY <1>0, <1>5 DEF Ended, OncePerCall, Index
<1>6. ASSUME NEW S \in SUBSET Index, Requested(S)
      PROVE  OncePerCall'
  <2>1. lost <= lost' /\ lost' \in Nat /\ UNCHANGED Index
    BY <1>0, <1>6 DEF Requested, Index
  <2>2. \A i \in Index : now'[i] <= lost + 1
    BY <1>0, <1>6 DEF Requested, OncePerCall
  <2>3. \A i \in Index : now'[i] \in Nat
    BY <1>0, <1>6 DEF Requested
  <2> QED
    BY <1>0, <2>1, <2>2, <2>3 DEF OncePerCall
<1> QED
  BY <1>1, <1>2, <1>3, <1>4, <1>5, <1>6, Steps

\* Every entry before the place was accepted, none after the request under way.
LEMMA StopsStep == Inv /\ [Next]_vars => StopsAtFailure'
<1> SUFFICES ASSUME Inv, [Next]_vars PROVE StopsAtFailure'
  OBVIOUS
<1>0. /\ Index = 1 .. Len(batch) /\ Len(batch) \in Nat \ {0} /\ snsBatchLimit \in Nat
      /\ now \in [Index -> 0 .. (MaxLost + 1)] /\ MaxLost \in Nat /\ pos \in Nat
  BY BatchFacts, BoundsAssumption, LimitAssumption DEF Inv, TypeOK
<1>a. \A i \in Index : /\ i < pos => now[i] > 0
                       /\ now[i] > 0 => i <= Furthest
  BY Zenon DEF Inv, StopsAtFailure, Furthest
<1>b. ASSUME \A i \in Index' : /\ i < pos' => now'[i] > 0
                               /\ now'[i] > 0 => i <= Furthest'
      PROVE  StopsAtFailure'
  BY <1>b, Zenon DEF StopsAtFailure, Furthest
<1>1. CASE UNCHANGED <<backend, batch, pos, now>>
  BY <1>1, <1>a, <1>b DEF Furthest, Index
<1>2. CASE Again
  BY <1>0, <1>2, <1>b DEF Again, input, Index
<1>3. CASE Ended
  <2>1. /\ step = "quit" /\ pos \in Index /\ UNCHANGED <<now, backend, batch, Index>>
        /\ backend \in Email
        /\ UNCHANGED pos \/ pos' = pos + 1
    BY <1>3, RunningFacts DEF Ended, GoesOn, Index
  <2>2. now[pos] > 0
    BY <2>1 DEF Inv, Dialogue
  <2>3. Furthest = pos /\ Furthest' = pos'
    BY <2>1 DEF Furthest, Email
  <2> QED
    BY <1>0, <1>a, <1>b, <2>1, <2>2, <2>3
<1>4. ASSUME NEW S \in SUBSET Index, Requested(S)
      PROVE  StopsAtFailure'
  <2>1. /\ UNCHANGED <<backend, batch, Index>>
        /\ \A i \in S : i \in Nat /\ pos <= i /\ i <= Furthest /\ now'[i] > 0
        /\ \A i \in Index \ S : now'[i] = now[i]
    BY <1>0, <1>4 DEF Requested, Index
  <2>2. CASE UNCHANGED pos
    <3>1. UNCHANGED Furthest
      BY <2>1, <2>2 DEF Furthest
    <3> QED
      BY <1>a, <1>b, <2>1, <2>2, <3>1
  <2>3. ASSUME NEW last \in S, S = pos .. last, GoesOn(last)
        PROVE  StopsAtFailure'
    <3>1. pos' = last + 1 /\ last \in Nat /\ last <= Len(batch) /\ pos <= last
      BY <2>1, <2>3 DEF GoesOn
    <3>2. \A i \in Index : i \in Nat /\ i <= Len(batch)
      BY <1>0
    <3>3. \A i \in Index : i <= Furthest => i <= Furthest'
      BY <1>0, <2>1, <3>1, <3>2 DEF Furthest
    <3>4. \A i \in Index : i < pos' => now'[i] > 0
      BY <1>0, <1>a, <2>1, <2>3, <3>1, <3>2
    <3> QED
      BY <1>a, <1>b, <2>1, <3>3, <3>4
  <2> QED
    BY <1>4, <2>2, <2>3 DEF Requested
<1>5. UNCHANGED vars \/ Talks \/ Refused => UNCHANGED <<backend, batch, pos, now>>
  BY DEF vars, input, Talks, NothingAccepted, Refused
<1> QED
  BY <1>1, <1>2, <1>3, <1>4, <1>5, Steps

LEMMA RecipientsStep == Inv /\ [Next]_vars => AllRecipientsOrNone'
<1> SUFFICES ASSUME Inv, [Next]_vars PROVE AllRecipientsOrNone'
  OBVIOUS
<1>0. /\ now \in [Index -> 0 .. (MaxLost + 1)] /\ before \in [Index -> Nat]
      /\ reached \in [Index -> SUBSET {"To", "Cc", "Bcc"}]
      /\ MaxLost \in Nat /\ AllRecipientsOrNone
  BY BoundsAssumption DEF Inv, TypeOK
<1>1. CASE UNCHANGED <<backend, batch, now, before, reached>>
  BY <1>0, <1>1 DEF AllRecipientsOrNone, Index
<1>2. CASE Again
  <2>1. /\ UNCHANGED <<backend, batch, reached, Index>>
        /\ \A i \in Index : now'[i] + before'[i] = now[i] + before[i]
    BY <1>0, <1>2 DEF Again, input, Index
  <2> QED
    BY <1>0, <2>1 DEF AllRecipientsOrNone
<1>3. ASSUME NEW S \in SUBSET Index, Requested(S)
      PROVE  AllRecipientsOrNone'
  <2>1. UNCHANGED <<backend, batch, before, Index>>
    BY <1>3 DEF Requested, Index
  <2>2. CASE backend \notin Email
    BY <2>1, <2>2 DEF AllRecipientsOrNone
  <2>3. CASE backend \in Email
    <3>1. /\ S = {pos} /\ pos \in Index
          /\ now'[pos] > 0 /\ reached'[pos] = batch[pos].recipients
          /\ \A i \in Index \ {pos} : now'[i] = now[i] /\ reached'[i] = reached[i]
      BY <1>0, <1>3, <2>3 DEF Requested, Mail
    <3>2. now'[pos] + before'[pos] > 0
      <4>1. now'[pos] \in Nat /\ before[pos] \in Nat
        BY <1>0, <1>3, <3>1 DEF Requested
      <4> QED
        BY <2>1, <3>1, <4>1
    <3> QED
      BY <1>0, <2>1, <3>1, <3>2 DEF AllRecipientsOrNone
  <2> QED
    BY <2>2, <2>3
<1>4. UNCHANGED vars \/ Talks \/ Refused \/ Ended
        => UNCHANGED <<backend, batch, now, before, reached>>
  BY DEF vars, input, Talks, NothingAccepted, Refused, Ended
<1> QED
  BY <1>1, <1>2, <1>3, <1>4, Steps

\* Only a dialogue that ends says "raw".
LEMMA RawStep == Inv /\ [Next]_vars => RawErrorMeansSent'
<1> SUFFICES ASSUME Inv, [Next]_vars, answer' = "raw" PROVE now'[pos'] > 0
  BY DEF RawErrorMeansSent
<1>1. CASE UNCHANGED vars
  BY <1>1 DEF vars, input, Inv, RawErrorMeansSent
<1>2. CASE Ended
  BY <1>2 DEF Ended, GoesOn, Inv, Dialogue
<1>3. ASSUME NEW S \in SUBSET Index, Requested(S)
      PROVE  answer' # "raw"
  BY <1>3 DEF Requested, GoesOn
<1>4. ~Again /\ ~Talks /\ ~Refused
  BY DEF Again, Talks, Refused
<1> QED
  BY <1>1, <1>2, <1>3, <1>4, Steps

\* The inductive invariant holds in every reachable state of any batches sent through
\* any of the five backends (email.go:141-152, sns.go:73-108, eventgrid.go:67-82).
THEOREM InvHolds == Spec => []Inv
<1>1. Inv /\ [Next]_vars => Inv'
  BY TypeStep, PlaceStep, DialogueStep, NotYetStep, OnceStep, StopsStep, RecipientsStep,
     RawStep DEF Inv
<1> QED
  BY InitInv, <1>1, PTL DEF Spec

-----------------------------------------------------------------------------
(* What a caller of Send, SendBatch, Publish and PublishBatch can rely on. *)

\* Every variable keeps its type.
THEOREM TypeCorrect == Spec => []TypeOK
<1>1. Inv => TypeOK
  BY DEF Inv
<1> QED
  BY InvHolds, <1>1, PTL

\* A nil error comes with one id per message, and with every message accepted
\* (email.go:141-152, sns.go:73-108, eventgrid.go:67-82).
THEOREM NilIsDelivered == Spec => []NilMeansSent
<1>1. Inv => NilMeansSent
  <2> SUFFICES ASSUME Inv, answer = "nil"
               PROVE  ids = Len(batch) /\ \A i \in Index : now[i] > 0
    BY DEF NilMeansSent
  <2>1. pos = Len(batch) + 1 /\ ids = Len(batch)
    BY DEF Inv, Place
  <2>2. \A i \in Index : i < pos
    BY <2>1, BatchFacts DEF Inv
  <2> QED
    BY <2>1, <2>2 DEF Inv, StopsAtFailure
<1> QED
  BY InvHolds, <1>1, PTL

\* A call has a message accepted more than once only through answers that were lost.
THEOREM DuplicatesAreLostAnswers == Spec => []OncePerCall
<1>1. Inv => OncePerCall
  BY DEF Inv
<1> QED
  BY InvHolds, <1>1, PTL

\* A call that fails has sent all that precedes the failing request and nothing that
\* follows it, for any chunk size (sns.go:73-108).
THEOREM FailureStopsTheBatch == Spec => []StopsAtFailure
<1>1. Inv => StopsAtFailure
  BY DEF Inv
<1> QED
  BY InvHolds, <1>1, PTL

\* Mail reaches all of its recipients or none (smtp.go:88-92, 122-126).
THEOREM RecipientsTogether == Spec => []AllRecipientsOrNone
<1>1. Inv => AllRecipientsOrNone
  BY DEF Inv
<1> QED
  BY InvHolds, <1>1, PTL

\* The unmapped error of QUIT comes only after the mail was accepted (smtp.go:137).
THEOREM RawErrorIsLate == Spec => []RawErrorMeansSent
<1>1. Inv => RawErrorMeansSent
  BY DEF Inv
<1> QED
  BY InvHolds, <1>1, PTL

(***************************************************************************)
(* The MIME message of a mail.                                             *)
(***************************************************************************)

LEMMA PairConcat ==
  ASSUME NEW x, NEW y
  PROVE  <<x>> \o <<y>> = <<x, y>>
<1> DEFINE Both == {x, y}
           pair == <<x>> \o <<y>>
<1>1. <<x>> \in Seq(Both) /\ <<y>> \in Seq(Both) /\ <<x, y>> \in Seq(Both)
  OBVIOUS
<1>2. /\ pair \in Seq(Both) /\ Len(pair) = Len(<<x>>) + Len(<<y>>)
      /\ \A i \in 1 .. Len(<<x>>) + Len(<<y>>) :
            pair[i] = IF i <= Len(<<x>>) THEN <<x>>[i] ELSE <<y>>[i - Len(<<x>>)]
  BY <1>1, ConcatProperties
<1>3. Len(<<x>>) = 1 /\ Len(<<y>>) = 1
  OBVIOUS
<1> HIDE DEF pair
<1>4. Len(pair) = 2 /\ pair[1] = x /\ pair[2] = y
  BY <1>2, <1>3
<1>5. pair = <<x, y>>
  BY <1>1, <1>2, <1>4, SeqEqual
<1> QED
  BY <1>5 DEF pair

\* The leaves of a tree of one or two levels.
Under(t) == IF t.parts = <<>> THEN <<t.type>> ELSE [i \in DOMAIN t.parts |-> t.parts[i].type]

\* The leaves that are bodies, the plain text first.
Bodies(m) == (IF m.text THEN <<"text">> ELSE <<>>) \o (IF m.html THEN <<"html">> ELSE <<>>)

LEMMA LeavesOf ==
  ASSUME NEW tree
  PROVE  Leaves(tree) =
           IF tree.type # "mixed" THEN Under(tree)
           ELSE Under(tree.parts[1])
                \o [i \in 1 .. (Len(tree.parts) - 1) |-> tree.parts[i + 1].type]
  BY DEF Leaves, Under

\* BuildBody writes the bodies there are.
LEMMA UnderBody ==
  ASSUME NEW m, m.text \in BOOLEAN, m.html \in BOOLEAN, m.text \/ m.html
  PROVE  /\ Under(BuildBody(m)) = Bodies(m)
         /\ Bodies(m) \in Seq({"text", "html", "attachment"})
<1>1. CASE m.text /\ m.html
  <2>1. BuildBody(m).parts = <<Leaf("text"), Leaf("html")>>
    BY <1>1 DEF BuildBody, WriteAlternative
  <2>2. Under(BuildBody(m)) = <<"text", "html">>
    BY <2>1 DEF Under, Leaf
  <2>3. Bodies(m) = <<"text">> \o <<"html">>
    BY <1>1 DEF Bodies
  <2> QED
    BY <2>2, <2>3, PairConcat
<1>2. CASE m.text /\ ~m.html
  <2>1. BuildBody(m) = Leaf("text")
    BY <1>2 DEF BuildBody
  <2>2. Under(BuildBody(m)) = <<"text">>
    BY <2>1 DEF Under, Leaf
  <2>3. Bodies(m) = <<"text">> \o <<>>
    BY <1>2 DEF Bodies
  <2> QED
    BY <2>2, <2>3, ConcatEmptySeq
<1>3. CASE ~m.text /\ m.html
  <2>1. BuildBody(m) = Leaf("html")
    BY <1>3 DEF BuildBody
  <2>2. Under(BuildBody(m)) = <<"html">>
    BY <2>1 DEF Under, Leaf
  <2>3. Bodies(m) = <<>> \o <<"html">>
    BY <1>3 DEF Bodies
  <2> QED
    BY <2>2, <2>3, ConcatEmptySeq
<1> QED
  BY <1>1, <1>2, <1>3

\* The parts of a multipart/mixed: a body, then the attachments.
LEMMA MixedParts ==
  ASSUME NEW m, m.attachments \in Nat
  PROVE  /\ BuildMixed(m).type = "mixed"
         /\ BuildMixed(m).parts[1] = WriteBodyPart(m)
         /\ Len(BuildMixed(m).parts) = m.attachments + 1
         /\ \A i \in 1 .. m.attachments : BuildMixed(m).parts[i + 1] = Leaf("attachment")
<1> DEFINE body == WriteBodyPart(m)
           attached == [i \in 1 .. m.attachments |-> Leaf("attachment")]
           Kinds == {body, Leaf("attachment")}
<1>1. <<body>> \in Seq(Kinds) /\ Len(<<body>>) = 1 /\ <<body>>[1] = body
  OBVIOUS
<1>2. attached \in Seq(Kinds) /\ Len(attached) = m.attachments
  OBVIOUS
<1>3. BuildMixed(m).type = "mixed" /\ BuildMixed(m).parts = <<body>> \o attached
  BY DEF BuildMixed
<1> HIDE DEF body, attached
<1>4. /\ Len(<<body>> \o attached) = 1 + m.attachments
      /\ \A i \in 1 .. 1 + m.attachments :
            (<<body>> \o attached)[i] = IF i <= 1 THEN <<body>>[i] ELSE attached[i - 1]
  BY <1>1, <1>2, ConcatProperties
<1>5. \A i \in 1 .. m.attachments : attached[i] = Leaf("attachment")
  BY DEF attached
<1> QED
  BY <1>1, <1>3, <1>4, <1>5 DEF body

\* The tree that BuildMIME writes has the leaves a mail asks for.
LEMMA TreeLeaves ==
  ASSUME NEW m, m.text \in BOOLEAN, m.html \in BOOLEAN, m.text \/ m.html,
         m.attachments \in Nat, NEW w \in BOOLEAN
  PROVE  Leaves(BuildMIME(m, w).tree) = Expected(m)
<1> DEFINE attached == [i \in 1 .. m.attachments |-> "attachment"]
<1>1. Expected(m) = Bodies(m) \o attached
  BY DEF Expected, Bodies
<1>2. CASE m.attachments = 0
  <2>1. attached = <<>>
    BY <1>2
  <2>2. BuildMIME(m, w).tree = BuildBody(m)
    BY <1>2 DEF BuildMIME
  <2>3. BuildBody(m).type # "mixed"
    BY DEF BuildBody, WriteAlternative, Leaf
  <2> HIDE DEF attached
  <2> QED
    <3>1. Leaves(BuildBody(m)) = Under(BuildBody(m))
      BY <2>3, LeavesOf, Zenon
    <3>2. Bodies(m) \o <<>> = Bodies(m)
      BY UnderBody, ConcatEmptySeq
    <3>3. Under(BuildBody(m)) = Bodies(m)
      BY UnderBody
    <3>4. Expected(m) = Bodies(m)
      BY <1>1, <2>1, <3>2
    <3> QED
      BY <2>2, <3>1, <3>3, <3>4
<1>3. CASE m.attachments > 0
  <2>1. BuildMIME(m, w).tree = BuildMixed(m)
    BY <1>3 DEF BuildMIME
  <2>2. WriteBodyPart(m) = BuildBody(m)
    BY DEF WriteBodyPart, BuildBody
  <2> DEFINE parts == BuildMixed(m).parts
  <2>3. Leaves(BuildMixed(m)) =
          Under(parts[1]) \o [i \in 1 .. (Len(parts) - 1) |-> parts[i + 1].type]
    BY LeavesOf, MixedParts
  <2>4. /\ Len(parts) - 1 = m.attachments
        /\ \A i \in 1 .. m.attachments : parts[i + 1].type = "attachment"
    <3>1. Leaf("attachment").type = "attachment"
      BY DEF Leaf
    <3>2. Len(parts) = m.attachments + 1
      BY MixedParts
    <3>3. \A i \in 1 .. m.attachments : parts[i + 1] = Leaf("attachment")
      BY MixedParts
    <3> QED
      BY <3>1, <3>2, <3>3
  <2>5. [i \in 1 .. (Len(parts) - 1) |-> parts[i + 1].type] = attached
    BY <2>4
  <2>6. Under(parts[1]) = Bodies(m)
    BY <2>2, MixedParts, UnderBody
  <2> HIDE DEF attached, parts
  <2> QED
    BY <1>1, <2>1, <2>3, <2>5, <2>6
<1> QED
  BY <1>2, <1>3

\* A sequence of lines, each of S and there once.
Once(s, S) == s \in Seq(Managed) /\ IsInjective(s) /\ Range(s) \subseteq S

\* It stays one when a line of another name is added, or none.
LEMMA OneMoreLine ==
  ASSUME NEW S, NEW s, Once(s, S), NEW n \in Managed, n \notin S, NEW o \in {<<>>, <<n>>}
  PROVE  /\ Once(s \o o, S \cup {n})
         /\ Range(s) \subseteq Range(s \o o)
         /\ o = <<n>> => n \in Range(s \o o)
<1> USE DEF Once
<1>1. CASE o = <<n>>
  <2> DEFINE t == s \o <<n>>
  <2>1. t \in Seq(Managed) /\ Len(t) = Len(s) + 1 /\ t[Len(s) + 1] = n
        /\ \A i \in 1 .. Len(s) : t[i] = s[i]
    OBVIOUS
  <2>2. DOMAIN s = 1 .. Len(s) /\ DOMAIN t = 1 .. (Len(s) + 1) /\ Len(s) \in Nat
    BY <2>1
  <2> HIDE DEF t
  <2>3. Range(s) \subseteq Range(t) /\ n \in Range(t) /\ Range(t) \subseteq S \cup {n}
    <3>1. \A i \in DOMAIN t : i \in DOMAIN s \/ i = Len(s) + 1
      BY <2>2
    <3>2. \A i \in DOMAIN s : s[i] \in Range(t)
      BY <2>1, <2>2 DEF Range
    <3>3. n \in Range(t)
      BY <2>1, <2>2 DEF Range
    <3> QED
      BY <2>1, <2>2, <3>1, <3>2, <3>3 DEF Range
  <2>4. \A i \in DOMAIN s : s[i] # n
    BY DEF Range
  <2>5. IsInjective(t)
    <3> SUFFICES ASSUME NEW i \in DOMAIN t, NEW j \in DOMAIN t, t[i] = t[j]
                 PROVE  i = j
      BY DEF IsInjective
    <3> QED
      BY <2>1, <2>2, <2>4 DEF IsInjective
  <2>6. s \o o = t
    BY <1>1 DEF t
  <2> QED
    BY <2>1, <2>3, <2>5, <2>6
<1>2. CASE o = <<>>
  <2>1. s \o o = s /\ o # <<n>>
    BY <1>2
  <2> QED
    BY <2>1
<1> QED
  BY <1>1, <1>2

\* What the backend writes of itself: each line once, whichever it writes, those it
\* must write, and none that the switch does not know.
LEMMA OwnLinesOnce ==
  ASSUME NEW m, NEW w, NEW tree
  PROVE  /\ Once(OwnLines(m, w, tree), Managed)
         /\ {"From", "Subject", "Mime-Version", "Content-Type"}
               \subseteq Range(OwnLines(m, w, tree))
<1> DEFINE s0 == <<"From">>
           o1 == Optional("To" \in m.recipients, "To")
           o2 == Optional("Cc" \in m.recipients, "Cc")
           o3 == Optional(m.replyTo, "Reply-To")
           o4 == Optional(TRUE, "Subject")
           o5 == Optional(w, "Message-Id")
           o6 == Optional(TRUE, "Mime-Version")
           o7 == Optional(TRUE, "Content-Type")
           o8 == Optional(Single(tree), "Content-Transfer-Encoding")
           s1 == s0 \o o1
           s2 == s1 \o o2
           s3 == s2 \o o3
           s4 == s3 \o o4
           s5 == s4 \o o5
           s6 == s5 \o o6
           s7 == s6 \o o7
           s8 == s7 \o o8
           S0 == {"From"}
           S1 == S0 \cup {"To"}
           S2 == S1 \cup {"Cc"}
           S3 == S2 \cup {"Reply-To"}
           S4 == S3 \cup {"Subject"}
           S5 == S4 \cup {"Message-Id"}
           S6 == S5 \cup {"Mime-Version"}
           S7 == S6 \cup {"Content-Type"}
           S8 == S7 \cup {"Content-Transfer-Encoding"}
<1>0. Once(s0, S0) /\ "From" \in Range(s0)
  <2>1. "From" \in Managed
    BY DEF Managed
  <2>2. s0 \in Seq(Managed) /\ DOMAIN s0 = {1} /\ s0[1] = "From"
    BY <2>1
  <2> QED
    BY <2>2 DEF Once, IsInjective, Range
<1>1. /\ Once(s1, S1) /\ Range(s0) \subseteq Range(s1)
  <2>1. "To" \in Managed /\ "To" \notin S0
    BY DEF Managed
  <2>2. o1 \in {<<>>, <<"To">>}
    BY DEF Optional
  <2> HIDE DEF S0, s0, o1
  <2> QED
    BY <1>0, <2>1, <2>2, OneMoreLine
<1>2. /\ Once(s2, S2) /\ Range(s1) \subseteq Range(s2)
  <2>1. "Cc" \in Managed /\ "Cc" \notin S1
    BY DEF Managed
  <2>2. o2 \in {<<>>, <<"Cc">>}
    BY DEF Optional
  <2> HIDE DEF S1, s1, o2
  <2> QED
    BY <1>1, <2>1, <2>2, OneMoreLine
<1>3. /\ Once(s3, S3) /\ Range(s2) \subseteq Range(s3)
  <2>1. "Reply-To" \in Managed /\ "Reply-To" \notin S2
    BY DEF Managed
  <2>2. o3 \in {<<>>, <<"Reply-To">>}
    BY DEF Optional
  <2> HIDE DEF S2, s2, o3
  <2> QED
    BY <1>2, <2>1, <2>2, OneMoreLine
<1>4. /\ Once(s4, S4) /\ Range(s3) \subseteq Range(s4)
      /\ "Subject" \in Range(s4)
  <2>1. "Subject" \in Managed /\ "Subject" \notin S3
    BY DEF Managed
  <2>2. o4 = <<"Subject">>
    BY DEF Optional
  <2> HIDE DEF S3, s3, o4
  <2> QED
    BY <1>3, <2>1, <2>2, OneMoreLine
<1>5. /\ Once(s5, S5) /\ Range(s4) \subseteq Range(s5)
  <2>1. "Message-Id" \in Managed /\ "Message-Id" \notin S4
    BY DEF Managed
  <2>2. o5 \in {<<>>, <<"Message-Id">>}
    BY DEF Optional
  <2> HIDE DEF S4, s4, o5
  <2> QED
    BY <1>4, <2>1, <2>2, OneMoreLine
<1>6. /\ Once(s6, S6) /\ Range(s5) \subseteq Range(s6)
      /\ "Mime-Version" \in Range(s6)
  <2>1. "Mime-Version" \in Managed /\ "Mime-Version" \notin S5
    BY DEF Managed
  <2>2. o6 = <<"Mime-Version">>
    BY DEF Optional
  <2> HIDE DEF S5, s5, o6
  <2> QED
    BY <1>5, <2>1, <2>2, OneMoreLine
<1>7. /\ Once(s7, S7) /\ Range(s6) \subseteq Range(s7)
      /\ "Content-Type" \in Range(s7)
  <2>1. "Content-Type" \in Managed /\ "Content-Type" \notin S6
    BY DEF Managed
  <2>2. o7 = <<"Content-Type">>
    BY DEF Optional
  <2> HIDE DEF S6, s6, o7
  <2> QED
    BY <1>6, <2>1, <2>2, OneMoreLine
<1>8. /\ Once(s8, S8) /\ Range(s7) \subseteq Range(s8)
  <2>1. "Content-Transfer-Encoding" \in Managed /\ "Content-Transfer-Encoding" \notin S7
    BY DEF Managed
  <2>2. o8 \in {<<>>, <<"Content-Transfer-Encoding">>}
    BY DEF Optional
  <2> HIDE DEF S7, s7, o8
  <2> QED
    BY <1>7, <2>1, <2>2, OneMoreLine
<1>9. OwnLines(m, w, tree) = s8
  BY DEF OwnLines
<1>10. S8 = Managed
  BY DEF Managed
<1> HIDE DEF s0, s1, s2, s3, s4, s5, s6, s7, s8
<1> QED
  BY <1>0, <1>1, <1>2, <1>3, <1>4, <1>5, <1>6, <1>7, <1>8, <1>9, <1>10

\* A caller's line is none that a reader takes for one of the backend's, and only such
\* keys are left out.
LEMMA CallersKeys ==
  ASSUME NEW m, NEW k \in m.headers
  PROVE  /\ k \in CallerLines(m) => \A n \in Managed : ~ReadAs(k, n)
         /\ k.name \notin Managed => k \in CallerLines(m)
<1>1. ASSUME NEW n \in Managed, ReadAs(k, n)
      PROVE  CanonicalMIMEHeaderKey(k) \in SwitchCases
  BY <1>1 DEF ReadAs, CanonicalMIMEHeaderKey, SwitchCases
<1>2. ASSUME CanonicalMIMEHeaderKey(k) \in SwitchCases
      PROVE  k.name \in Managed
  <2>1. PICK n \in Managed : CanonicalMIMEHeaderKey(k) = [name |-> n, spelling |-> "canonical"]
    BY <1>2 DEF SwitchCases, Key
  <2>2. CanonicalMIMEHeaderKey(k).name = k.name
    BY DEF CanonicalMIMEHeaderKey, Key
  <2> QED
    BY <2>1, <2>2
<1> QED
  BY <1>1, <1>2 DEF CallerLines

\* So every line is there once.
LEMMA HeadersAreOnce ==
  ASSUME NEW m, NEW w
  PROVE  HeadersOnce(BuildMIME(m, w), m)
<1>1. PICK tree : BuildMIME(m, w) = [own |-> OwnLines(m, w, tree),
                                     callers |-> CallerLines(m), tree |-> tree]
  BY DEF BuildMIME
<1>2. /\ BuildMIME(m, w).own = OwnLines(m, w, tree)
      /\ BuildMIME(m, w).callers = CallerLines(m)
  BY <1>1
<1>3. CallerLines(m) \subseteq m.headers
  BY DEF CallerLines
<1>4. "Bcc" \notin Managed
  BY DEF Managed
<1> QED
  BY <1>2, <1>3, <1>4, OwnLinesOnce, CallersKeys DEF HeadersOnce, Once

\* While a MIME message is being sent, it is the one of the mail at pos.
LEMMA RawIsMail ==
  ASSUME Inv, raw # NoMail
  PROVE  /\ Mail.text \in BOOLEAN /\ Mail.html \in BOOLEAN /\ Mail.attachments \in Nat
         /\ Mail.text \/ Mail.html
         /\ \E withID \in BOOLEAN : raw = BuildMIME(Mail, withID)
<1>1. /\ answer = "running" /\ backend \in Email
      /\ Mail.text \/ Mail.html
      /\ \E withID \in BOOLEAN : raw = BuildMIME(Mail, withID)
  BY Zenon DEF Inv, Dialogue
<1>2. batch \in Mails /\ pos \in DOMAIN batch
  BY <1>1, RunningFacts DEF Inv, TypeOK, Index
<1>3. /\ Mail.text \in BOOLEAN /\ Mail.html \in BOOLEAN /\ Mail.attachments \in Nat
  BY <1>2, MailsAssumption DEF Mail
<1> QED
  BY <1>1, <1>3, Zenon

\* The message on its way has each body and each attachment of its mail once and in
\* order, for any number of attachments (mime.go:53-169).
THEOREM BodyIsWhole == Spec => []MailBodyWhole
<1>1. Inv => MailBodyWhole
  <2> SUFFICES ASSUME Inv, raw # NoMail PROVE Leaves(raw.tree) = Expected(Mail)
    BY DEF MailBodyWhole
  <2> HIDE DEF Mail
  <2>1. PICK withID \in BOOLEAN : raw = BuildMIME(Mail, withID)
    BY RawIsMail
  <2>2. Leaves(BuildMIME(Mail, withID).tree) = Expected(Mail)
    BY RawIsMail, TreeLeaves
  <2> QED
    BY <2>1, <2>2, Zenon
<1> QED
  BY InvHolds, <1>1, PTL

\* Its header lines are each there once, whichever of them it has and whatever header
\* names the caller adds, in whatever case; every other header of the caller's is there,
\* and no Bcc but the caller's own (mime.go:21-51).
THEOREM HeadersOnceEach == Spec => []MailHeadersOnce
<1>1. Inv => MailHeadersOnce
  <2> SUFFICES ASSUME Inv, raw # NoMail PROVE HeadersOnce(raw, Mail)
    BY DEF MailHeadersOnce
  <2> HIDE DEF Mail
  <2>1. PICK withID \in BOOLEAN : raw = BuildMIME(Mail, withID)
    BY RawIsMail
  <2>2. HeadersOnce(BuildMIME(Mail, withID), Mail)
    BY RawIsMail, HeadersAreOnce
  <2> QED
    BY <2>1, <2>2, Zenon
<1> QED
  BY InvHolds, <1>1, PTL
=============================================================================
