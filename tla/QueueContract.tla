--------------------------- MODULE QueueContract ---------------------------
(***************************************************************************)
(* What messaging.Backend (src/messaging/messaging.go) promises about the  *)
(* fate of a message, whichever provider is behind it: a message leaves    *)
(* the source queue only because the application asked for it (Delete or   *)
(* Purge) or because a copy of it is already in the dead-letter queue, and *)
(* only messages the application condemned are ever dead-lettered.         *)
(* Everything else a backend does (receivers, receipt handles, pending     *)
(* maps, retries, crashes, redelivery) is invisible here.                  *)
(*                                                                         *)
(* ServiceBus, SqsQueue and PubSubQueue are each shown to implement it.    *)
(***************************************************************************)

CONSTANT Messages

VARIABLES
    sent,       \* messages some Send or SendBatch put in the queue
    source,     \* messages the source queue still holds, locked or not
    dead,       \* messages the dead-letter queue holds at least once
    discarded,  \* messages the application asked to remove (Delete, Purge)
    condemned   \* messages the application asked to dead-letter

contractVars == <<sent, source, dead, discarded, condemned>>

Init ==
    /\ sent = {}
    /\ source = {}
    /\ dead = {}
    /\ discarded = {}
    /\ condemned = {}

\* Send or SendBatch: fresh messages enter the queue.
Enqueue(S) ==
    /\ S \cap sent = {}
    /\ sent' = sent \cup S
    /\ source' = source \cup S
    /\ UNCHANGED <<dead, discarded, condemned>>

\* The application calls Delete or Purge. Purge may ask for and remove in one
\* call, so the messages it removes may leave in the same step.
Discard(S) ==
    /\ S \subseteq sent
    /\ discarded' = discarded \cup S
    /\ \E R \in SUBSET S : source' = source \ R
    /\ UNCHANGED <<sent, dead, condemned>>

\* The application calls DeadLetter on a message it received.
Condemn(m) ==
    /\ m \in sent
    /\ condemned' = condemned \cup {m}
    /\ UNCHANGED <<sent, source, dead, discarded>>

\* A copy reaches the dead-letter queue; a native dead-letter operation takes
\* the message out of the source in the same step, an emulated one does not.
MoveToDead(m) ==
    /\ m \in condemned
    /\ dead' = dead \cup {m}
    /\ source' \in {source, source \ {m}}
    /\ UNCHANGED <<sent, discarded, condemned>>

\* The source queue drops a message.
Remove(m) ==
    /\ m \in discarded \cup dead
    /\ source' = source \ {m}
    /\ UNCHANGED <<sent, dead, discarded, condemned>>

Next ==
    \/ \E S \in SUBSET Messages : Enqueue(S) \/ Discard(S)
    \/ \E m \in Messages : Condemn(m) \/ MoveToDead(m) \/ Remove(m)

Spec == Init /\ [][Next]_contractVars

-----------------------------------------------------------------------------
TypeOK ==
    /\ sent \subseteq Messages
    /\ source \subseteq sent
    /\ dead \subseteq condemned
    /\ discarded \subseteq sent
    /\ condemned \subseteq sent

\* No message is lost: one that left the source queue was discarded by the
\* application or is in the dead-letter queue.
NothingLost == sent \ source \subseteq discarded \cup dead
=============================================================================
