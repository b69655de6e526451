--------------------------- MODULE SqsQueueProofs ---------------------------
(***************************************************************************)
(* Proofs about SqsQueue for any number of goroutines, messages and        *)
(* deliveries, wherever the DLQ's URL comes from.                          *)
(***************************************************************************)
EXTENDS SqsQueue, TLAPS

(***************************************************************************)
(* The queue service.                                                      *)
(***************************************************************************)

\* A delivery leases ready messages and counts; what the bound on all deliveries
\* together says is not needed.
LEMMA DeliverEffect ==
  ASSUME NEW S \in SUBSET Messages, LeaseDeliver(S)
  PROVE  /\ \A m \in S : queue[m] = "ready" /\ deliveries[m] < MaxDeliveries
         /\ queue' = [m \in Messages |-> IF m \in S THEN "leased" ELSE queue[m]]
         /\ deliveries' = [m \in Messages |->
                              IF m \in S THEN deliveries[m] + 1 ELSE deliveries[m]]
  BY Zenon DEF LeaseDeliver

\* A handle names a message and one of its deliveries.
LEMMA HandleParts ==
  ASSUME NEW h \in Handles
  PROVE  MessageOf(h) \in Messages /\ h[2] \in 1 .. MaxDeliveries
  BY DEF Handles, MessageOf

\* The handles of a delivery are handles, and none that was issued before.
LEMMA NextHandles ==
  ASSUME LeaseTypeOK, NEW S \in SUBSET Messages, LeaseDeliver(S)
  PROVE  /\ {NextHandle(m) : m \in S} \subseteq Handles
         /\ \A h \in {NextHandle(m) : m \in S} :
               /\ MessageOf(h) \in S
               /\ h[2] = deliveries[MessageOf(h)] + 1
               /\ 0 < h[2] /\ h[2] <= deliveries'[MessageOf(h)]
<1>1. \A m \in S : /\ deliveries[m] \in 0 .. MaxDeliveries /\ deliveries[m] < MaxDeliveries
                   /\ deliveries'[m] = deliveries[m] + 1
  BY DeliverEffect DEF LeaseTypeOK
<1> QED
  BY <1>1, DeliveriesAssumption DEF Handles, NextHandle, MessageOf

\* Every step of the service keeps the types of its variables, the number of
\* deliveries of a message never falls, and a sent message stays sent.
LEMMA LeaseSteps ==
  ASSUME LeaseTypeOK,
         \/ \E S \in SUBSET Messages : LeaseEnqueue(S, "ready") \/ LeaseEnqueue(S, "delayed")
         \/ \E S \in SUBSET Messages : LeaseDeliver(S)
         \/ \E h \in Handles, ok \in BOOLEAN : AckEffect(h, ok)
         \/ LeasePurge(InSource)
         \/ \E m \in Messages : LeaseExpires(m) \/ DelayElapses(m)
         \/ UNCHANGED leaseVars
  PROVE  /\ LeaseTypeOK'
         /\ \A m \in Messages :
               /\ deliveries[m] <= deliveries'[m]
               /\ queue'[m] = "unsent" => queue[m] = "unsent" /\ deliveries'[m] = deliveries[m]
<1>1. CASE \E S \in SUBSET Messages : LeaseEnqueue(S, "ready") \/ LeaseEnqueue(S, "delayed")
  BY <1>1 DEF LeaseEnqueue, MoveTo, LeaseTypeOK, Places
<1>2. ASSUME NEW S \in SUBSET Messages, LeaseDeliver(S)
      PROVE  /\ LeaseTypeOK'
             /\ \A m \in Messages :
                   /\ deliveries[m] <= deliveries'[m]
                   /\ queue'[m] = "unsent" => queue[m] = "unsent" /\ deliveries'[m] = deliveries[m]
  BY <1>2, DeliverEffect, DeliveriesAssumption DEF LeaseTypeOK, Places
<1>3. CASE \E h \in Handles, ok \in BOOLEAN : AckEffect(h, ok)
  BY <1>3 DEF AckEffect, MoveTo, LeaseTypeOK, Places, leaseVars
<1>4. CASE LeasePurge(InSource)
  BY <1>4 DEF LeasePurge, MoveTo, LeaseTypeOK, Places
<1>5. CASE \E m \in Messages : LeaseExpires(m) \/ DelayElapses(m)
  BY <1>5 DEF LeaseExpires, DelayElapses, MoveTo, LeaseTypeOK, Places
<1>6. CASE UNCHANGED leaseVars
  BY <1>6 DEF LeaseTypeOK, leaseVars
<1> QED
  BY <1>1, <1>2, <1>3, <1>4, <1>5, <1>6

-----------------------------------------------------------------------------
(* The invariant, first what it says of the queue and of types.            *)

LEMMA InitInv == Init => Inv
<1> SUFFICES ASSUME Init PROVE Inv
  OBVIOUS
<1> USE DEF Init, LeaseInit
<1>1. LeaseTypeOK
  BY DeliveriesAssumption DEF LeaseTypeOK, Places
<1>2. TypeOK
  BY <1>1 DEF TypeOK, URLs, PCs
<1>3. HandlesIssued /\ ReceivedOnce /\ CallShape
  BY DEF HandlesIssued, ReceivedOnce, CallShape, Shaped
<1>4. Accounted /\ RetainedUntilSettled
  BY DEF Accounted, RetainedUntilSettled, Sent, InSource
<1> QED
  BY <1>2, <1>3, <1>4 DEF Inv

\* Whatever step the system takes, the service takes one of its own.
LEMMA ServiceStep ==
  ASSUME TypeOK, [Next]_vars
  PROVE  \/ \E S \in SUBSET Messages : LeaseEnqueue(S, "ready") \/ LeaseEnqueue(S, "delayed")
         \/ \E S \in SUBSET Messages : LeaseDeliver(S)
         \/ \E h \in Handles, ok \in BOOLEAN : AckEffect(h, ok)
         \/ LeasePurge(InSource)
         \/ \E m \in Messages : LeaseExpires(m) \/ DelayElapses(m)
         \/ UNCHANGED leaseVars
<1>1. ASSUME NEW c \in Callers, Step(c)
      PROVE  (\E h \in Handles, ok \in BOOLEAN : AckEffect(h, ok)) \/ UNCHANGED leaseVars
  <2>1. tok[c] \subseteq Handles
    BY DEF TypeOK
  <2> QED
    BY <1>1, <2>1 DEF Step, Register, DeleteMessage, Forget, ReadCachedURL, QueryPolicy,
       CacheURL, SendToDLQ, RemoveOriginal
<1>2. ASSUME NEW c \in Callers, Call(c)
      PROVE  \/ \E S \in SUBSET Messages : LeaseEnqueue(S, "ready") \/ LeaseEnqueue(S, "delayed")
             \/ \E S \in SUBSET Messages : LeaseDeliver(S)
             \/ LeasePurge(InSource)
             \/ UNCHANGED leaseVars
  <2>1. ASSUME NEW m \in Messages, NEW delayed \in BOOLEAN, Send(c, m, delayed)
        PROVE  \E S \in SUBSET Messages : LeaseEnqueue(S, "ready") \/ LeaseEnqueue(S, "delayed")
    <3>1. {m} \in SUBSET Messages
      OBVIOUS
    <3> QED
      BY <2>1, <3>1, Zenon DEF Send
  <2>2. ASSUME NEW S \in SUBSET Messages, NEW taken \in SUBSET S, SendBatch(c, S, taken)
        PROVE  LeaseEnqueue(taken, "ready") /\ taken \in SUBSET Messages
    BY <2>2 DEF SendBatch
  <2>3. ASSUME NEW S \in SUBSET Messages, Receive(c, S)
        PROVE  LeaseDeliver(S)
    BY <2>3 DEF Receive
  <2> QED
    BY <1>2, <2>1, <2>2, <2>3, Zenon DEF Call, Delete, DeadLetter, Purge
<1>3. CASE Service
  BY <1>3 DEF Service
<1>4. CASE Restart \/ UNCHANGED vars
  BY <1>4 DEF Restart, vars
<1> QED
  BY <1>1, <1>2, <1>3, <1>4 DEF Next

\* Every variable keeps its type.
LEMMA TypeStep == Inv /\ [Next]_vars => TypeOK'
<1> SUFFICES ASSUME Inv, [Next]_vars PROVE TypeOK'
  OBVIOUS
<1>1. LeaseTypeOK' /\ TypeOK
  BY ServiceStep, LeaseSteps DEF Inv, TypeOK
<1> USE <1>1 DEF TypeOK, PCs, URLs, callVars, askVars, historyVars
<1>2. ASSUME NEW c \in Callers, NEW m \in Messages, NEW delayed \in BOOLEAN,
             Send(c, m, delayed)
      PROVE  TypeOK'
  BY <1>2 DEF Send
<1>3. ASSUME NEW c \in Callers, NEW S \in SUBSET Messages, NEW taken \in SUBSET S,
             SendBatch(c, S, taken)
      PROVE  TypeOK'
  BY <1>3 DEF SendBatch, BatchReported
<1>4. ASSUME NEW c \in Callers, NEW S \in SUBSET Messages, Receive(c, S)
      PROVE  TypeOK'
  <2>1. {NextHandle(m) : m \in S} \subseteq Handles
    BY <1>4, NextHandles DEF Receive
  <2> QED
    BY <1>4, <2>1 DEF Receive
<1>5. ASSUME NEW c \in Callers, Register(c) PROVE TypeOK'
  <2>1. tok[c] \subseteq Handles
    OBVIOUS
  <2> QED
    BY <1>5, <2>1 DEF Register, Remember, Return
<1>6. ASSUME NEW c \in Callers, NEW h \in returned, Delete(c, h) \/ DeadLetter(c, h)
      PROVE  TypeOK'
  <2>1. MessageOf(h) \in Messages /\ h \in Handles
    BY HandleParts
  <2>2. CASE Delete(c, h)
    BY <2>1, <2>2 DEF Delete
  <2>3. CASE DeadLetter(c, h)
    BY <2>1, <2>3 DEF DeadLetter
  <2> QED
    BY <1>6, <2>2, <2>3
<1>7. ASSUME NEW c \in Callers, DeleteMessage(c) \/ Forget(c)
      PROVE  TypeOK'
  BY <1>7 DEF DeleteMessage, Forget, Goto, Return
<1>8. ASSUME NEW c \in Callers, ReadCachedURL(c) \/ QueryPolicy(c) \/ CacheURL(c)
      PROVE  TypeOK'
  BY <1>8 DEF ReadCachedURL, QueryPolicy, CacheURL, Goto, Return
<1>9. ASSUME NEW c \in Callers, SendToDLQ(c) PROVE TypeOK'
  BY <1>9 DEF SendToDLQ, Goto, Return
<1>10. ASSUME NEW c \in Callers, RemoveOriginal(c) PROVE TypeOK'
  BY <1>10 DEF RemoveOriginal, Goto, Return
<1>11. ASSUME NEW c \in Callers, Purge(c) PROVE TypeOK'
  BY <1>11 DEF Purge, InSource
<1>12. CASE Service
  BY <1>12 DEF Service
<1>13. CASE Restart
  BY <1>13 DEF Restart
<1>14. CASE UNCHANGED vars
  BY <1>14 DEF vars
<1> QED
  BY <1>2, <1>3, <1>4, <1>5, <1>6, <1>7, <1>8, <1>9, <1>10, <1>11, <1>12, <1>13, <1>14
     DEF Next, Step, Call

-----------------------------------------------------------------------------
(* What it says of the handles.                                            *)

\* A handle that is received or returned was issued by a delivery.
LEMMA HandlesStep == Inv /\ [Next]_vars => HandlesIssued'
<1> SUFFICES ASSUME Inv, [Next]_vars PROVE HandlesIssued'
  OBVIOUS
<1> USE DEF Inv
<1>1. /\ \A m \in Messages : queue'[m] = "unsent" => deliveries'[m] = 0
      /\ \A h \in Handles : Issued(h) => Issued(h)'
  <2>1. \A m \in Messages :
           /\ deliveries[m] <= deliveries'[m]
           /\ deliveries[m] \in Nat /\ deliveries'[m] \in Nat
           /\ queue'[m] = "unsent" => queue[m] = "unsent" /\ deliveries'[m] = deliveries[m]
    BY ServiceStep, LeaseSteps DEF TypeOK, LeaseTypeOK
  <2>2. \A h \in Handles : MessageOf(h) \in Messages /\ h[2] \in Nat
    BY HandleParts
  <2> QED
    BY <2>1, <2>2 DEF HandlesIssued, Issued, MessageOf
<1>2. (\A h \in returned : Issued(h)') /\ \A c \in Callers : \A h \in tok[c] : Issued(h)'
  BY <1>1 DEF HandlesIssued, TypeOK
<1>3. SUFFICES (\A h \in returned' : Issued(h)') /\ \A c \in Callers : \A h \in tok'[c] : Issued(h)'
  BY <1>1 DEF HandlesIssued
<1>4. ASSUME NEW c \in Callers, NEW S \in SUBSET Messages, Receive(c, S)
      PROVE  (\A h \in returned' : Issued(h)') /\ \A d \in Callers : \A h \in tok'[d] : Issued(h)'
  <2>1. \A h \in {NextHandle(m) : m \in S} : Issued(h)'
    BY <1>4, NextHandles DEF Receive, Issued, TypeOK, MessageOf
  <2> QED
    BY <1>2, <1>4, <2>1 DEF Receive, TypeOK, historyVars
<1>5. CASE \A c \in Callers : tok'[c] \subseteq tok[c] \cup returned
  <2>1. returned' = returned \/ \E c \in Callers : returned' = returned \cup tok[c]
    BY DEF Next, Step, Call, Register, DeleteMessage, Forget, ReadCachedURL, QueryPolicy,
       CacheURL, SendToDLQ, RemoveOriginal, Send, SendBatch, Receive, Delete, DeadLetter,
       Purge, Service, Restart, vars, historyVars
  <2> QED
    BY <1>2, <1>5, <2>1
<1>6. \/ \E c \in Callers, S \in SUBSET Messages : Receive(c, S)
      \/ \A c \in Callers : tok'[c] \subseteq tok[c] \cup returned
  <2>1. ASSUME NEW c \in Callers, Step(c)
        PROVE  \A d \in Callers : tok'[d] \subseteq tok[d]
    BY <2>1 DEF Step, Register, DeleteMessage, Forget, ReadCachedURL, QueryPolicy,
       CacheURL, SendToDLQ, RemoveOriginal, Goto, Return, TypeOK
  <2>2. ASSUME NEW c \in Callers, NEW h \in returned, Delete(c, h) \/ DeadLetter(c, h)
        PROVE  \A d \in Callers : tok'[d] \subseteq tok[d] \cup returned
    BY <2>2 DEF Delete, DeadLetter, TypeOK
  <2>3. CASE \/ Service \/ Restart \/ UNCHANGED vars
             \/ \E c \in Callers : Purge(c)
    BY <2>3 DEF Service, Restart, vars, Purge, callVars
  <2>4. CASE \/ \E c \in Callers, m \in Messages, delayed \in BOOLEAN : Send(c, m, delayed)
             \/ \E c \in Callers, S \in SUBSET Messages : \E taken \in SUBSET S :
                    SendBatch(c, S, taken)
    BY <2>4 DEF Send, SendBatch, callVars
  <2> QED
    BY <2>1, <2>2, <2>3, <2>4 DEF Next, Call
<1> QED
  BY <1>4, <1>5, <1>6

\* No two Receives hold one handle, and none holds one that was returned.
LEMMA ReceivedStep == Inv /\ [Next]_vars => ReceivedOnce'
<1> SUFFICES ASSUME Inv, [Next]_vars PROVE ReceivedOnce'
  OBVIOUS
<1> USE DEF Inv, ReceivedOnce
<1>1. ASSUME NEW c \in Callers, NEW S \in SUBSET Messages, Receive(c, S)
      PROVE  ReceivedOnce'
  <2>1. \A h \in {NextHandle(m) : m \in S} :
           h[2] = deliveries[MessageOf(h)] + 1 /\ MessageOf(h) \in Messages
    BY <1>1, NextHandles DEF Receive, TypeOK
  <2>2. \A h \in {NextHandle(m) : m \in S} : ~ Issued(h)
    BY <2>1 DEF Issued, TypeOK, LeaseTypeOK
  <2>3. /\ \A h \in returned : Issued(h)
        /\ \A d \in Callers : \A h \in tok[d] : Issued(h)
    BY DEF HandlesIssued
  <2> QED
    BY <1>1, <2>2, <2>3 DEF Receive, TypeOK, historyVars
<1>2. ASSUME NEW c \in Callers, Register(c) PROVE ReceivedOnce'
  BY <1>2 DEF Register, Return, TypeOK
<1>3. ASSUME returned' = returned,
             \A d \in Callers : pc'[d] = "received" => pc[d] = "received" /\ tok'[d] = tok[d]
      PROVE  ReceivedOnce'
  BY <1>3
<1>4. ASSUME NEW c \in Callers, Step(c), ~ Register(c)
      PROVE  ReceivedOnce'
  <2>1. /\ returned' = returned
        /\ \A d \in Callers : pc'[d] = "received" => pc[d] = "received" /\ tok'[d] = tok[d]
    BY <1>4 DEF Step, DeleteMessage, Forget, ReadCachedURL, QueryPolicy, CacheURL,
       SendToDLQ, RemoveOriginal, AfterRemove, Goto, Return, TypeOK, historyVars
  <2> QED
    BY <1>3, <2>1
<1>5. ASSUME NEW c \in Callers, NEW h \in returned, Delete(c, h) \/ DeadLetter(c, h)
      PROVE  ReceivedOnce'
  <2>1. /\ returned' = returned
        /\ \A d \in Callers : pc'[d] = "received" => pc[d] = "received" /\ tok'[d] = tok[d]
    BY <1>5 DEF Delete, DeadLetter, TypeOK, historyVars
  <2> QED
    BY <1>3, <2>1
<1>6. CASE \/ Service \/ Restart \/ UNCHANGED vars
           \/ \E c \in Callers : Purge(c)
           \/ \E c \in Callers, m \in Messages, delayed \in BOOLEAN : Send(c, m, delayed)
           \/ \E c \in Callers, S \in SUBSET Messages : \E taken \in SUBSET S :
                  SendBatch(c, S, taken)
  <2>1. /\ returned' = returned
        /\ \A d \in Callers : pc'[d] = "received" => pc[d] = "received" /\ tok'[d] = tok[d]
    BY <1>6 DEF Service, Restart, vars, Purge, Send, SendBatch, callVars, historyVars
  <2> QED
    BY <1>3, <2>1
<1> QED
  BY <1>1, <1>2, <1>4, <1>5, <1>6 DEF Next, Call

-----------------------------------------------------------------------------
(* What it says of the calls.                                              *)

\* Which places belong to a Delete or DeadLetter, and that they keep what they hold:
\* the shapes of a call survive whatever the others do.
LEMMA ShapeFrame ==
  ASSUME CallShape, ReceivedOnce, NEW c \in Callers,
         pc'[c] = pc[c], tok'[c] = tok[c], body'[c] = body[c],
         \/ owed' \subseteq owed /\ returned' = returned
         \/ \E d \in Callers : /\ d # c /\ pc[d] = "received"
                               /\ owed' = owed \cup tok[d]
                               /\ returned' = returned \cup tok[d],
         condemned \subseteq condemned', discarded \subseteq discarded', dead \subseteq dead'
  PROVE  Shaped(c)'
<1> USE DEF Shaped
<1>1. CASE pc[c] \in {"delete", "forget"}
  <2>1. PICK h \in returned : tok[c] = {h} /\ h \notin owed
    BY <1>1 DEF CallShape, DeleteShape
  <2>2. h \in returned' /\ h \notin owed'
    BY <2>1 DEF ReceivedOnce
  <2> QED
    BY <1>1, <2>1, <2>2 DEF CallShape, DeleteShape, MessageOf
<1>2. CASE pc[c] \in {"resolve", "query", "cache", "send", "remove"}
  <2>1. PICK h \in returned : /\ tok[c] = {h} /\ body[c] = {MessageOf(h)}
                              /\ MessageOf(h) \in condemned
    BY <1>2 DEF CallShape, DeadLetterShape
  <2> QED
    BY <1>2, <2>1 DEF CallShape, DeadLetterShape, MessageOf
<1> QED
  BY <1>1, <1>2

\* Only the caller that moves has to be looked at.
LEMMA ShapeOthers ==
  ASSUME Inv, NEW c \in Callers,
         \A d \in Callers \ {c} : pc'[d] = pc[d] /\ tok'[d] = tok[d] /\ body'[d] = body[d],
         \/ owed' \subseteq owed /\ returned' = returned
         \/ /\ pc[c] = "received"
            /\ owed' = owed \cup tok[c] /\ returned' = returned \cup tok[c],
         condemned \subseteq condemned', discarded \subseteq discarded', dead \subseteq dead',
         Shaped(c)'
  PROVE  CallShape'
<1> SUFFICES ASSUME NEW d \in Callers, d # c PROVE Shaped(d)'
  BY DEF CallShape
<1> QED
  BY ShapeFrame DEF Inv

\* A call holds at each place what it needs there.
LEMMA ShapeStep == Inv /\ [Next]_vars => CallShape'
<1> SUFFICES ASSUME Inv, [Next]_vars PROVE CallShape'
  OBVIOUS
<1> USE DEF askVars, historyVars, callVars
<1>1. TypeOK /\ CallShape
  BY DEF Inv
<1>2. ASSUME NEW c \in Callers, NEW S \in SUBSET Messages, Receive(c, S)
      PROVE  CallShape'
  <2>1. Shaped(c)'
    BY <1>1, <1>2 DEF Receive, TypeOK, Shaped
  <2> QED
    BY <1>1, <1>2, <2>1, ShapeOthers DEF Receive, TypeOK
<1>3. ASSUME NEW c \in Callers, Register(c) PROVE CallShape'
  <2>1. Shaped(c)'
    BY <1>1, <1>3 DEF Register, Return, TypeOK, Shaped
  <2> QED
    BY <1>1, <1>3, <2>1, ShapeOthers DEF Register, Return, TypeOK
<1>4. ASSUME NEW c \in Callers, NEW h \in returned, Delete(c, h)
      PROVE  CallShape'
  <2>1. DeleteShape(c)'
    BY <1>1, <1>4 DEF Delete, TypeOK, DeleteShape
  <2>2. Shaped(c)'
    BY <1>1, <1>4, <2>1 DEF Delete, TypeOK, Shaped, MessageOf
  <2> QED
    BY <1>1, <1>4, <2>2, ShapeOthers DEF Delete, TypeOK
<1>5. ASSUME NEW c \in Callers, DeleteMessage(c) PROVE CallShape'
  <2>1. DeleteShape(c)
    BY <1>1, <1>5 DEF DeleteMessage, CallShape, Shaped
  <2>2. Shaped(c)'
    BY <1>1, <1>5, <2>1 DEF DeleteMessage, Goto, TypeOK, Shaped, DeleteShape
  <2> QED
    BY <1>1, <1>5, <2>2, ShapeOthers DEF DeleteMessage, Goto, TypeOK
<1>6. ASSUME NEW c \in Callers, Forget(c) PROVE CallShape'
  <2>1. Shaped(c)'
    BY <1>1, <1>6 DEF Forget, Return, TypeOK, Shaped
  <2> QED
    BY <1>1, <1>6, <2>1, ShapeOthers DEF Forget, Return, TypeOK
<1>7. ASSUME NEW c \in Callers, NEW h \in returned, DeadLetter(c, h)
      PROVE  CallShape'
  <2>1. DeadLetterShape(c)'
    BY <1>1, <1>7 DEF DeadLetter, TypeOK, DeadLetterShape, MessageOf
  <2>2. Shaped(c)'
    BY <1>1, <1>7, <2>1 DEF DeadLetter, TypeOK, Shaped
  <2> QED
    BY <1>1, <1>7, <2>2, ShapeOthers DEF DeadLetter, TypeOK
<1>8. ASSUME NEW c \in Callers, ReadCachedURL(c) \/ QueryPolicy(c) \/ CacheURL(c)
      PROVE  CallShape'
  <2>1. DeadLetterShape(c) /\ UNCHANGED <<dead, askVars, historyVars>>
    BY <1>1, <1>8 DEF ReadCachedURL, QueryPolicy, CacheURL, CallShape, Shaped
  <2>2. /\ pc'[c] \in {"idle", "query", "cache", "send"}
        /\ pc'[c] = "idle" \/ UNCHANGED <<tok, body>>
    BY <1>1, <1>8 DEF ReadCachedURL, QueryPolicy, CacheURL, Goto, Return, TypeOK
  <2>3. Shaped(c)'
    BY <2>1, <2>2 DEF Shaped, DeadLetterShape, MessageOf
  <2>4. \A d \in Callers \ {c} : pc'[d] = pc[d] /\ tok'[d] = tok[d] /\ body'[d] = body[d]
    BY <1>1, <1>8 DEF ReadCachedURL, QueryPolicy, CacheURL, Goto, Return, TypeOK
  <2> QED
    BY <2>1, <2>3, <2>4, ShapeOthers
<1>9. ASSUME NEW c \in Callers, SendToDLQ(c) PROVE CallShape'
  <2>1. DeadLetterShape(c)
    BY <1>1, <1>9 DEF SendToDLQ, CallShape, Shaped
  <2>2. Shaped(c)'
    BY <1>1, <1>9, <2>1 DEF SendToDLQ, Goto, Return, TypeOK, Shaped, DeadLetterShape, MessageOf
  <2> QED
    BY <1>1, <1>9, <2>2, ShapeOthers DEF SendToDLQ, Goto, Return, TypeOK
<1>10. ASSUME NEW c \in Callers, RemoveOriginal(c) PROVE CallShape'
  <2>1. PICK h \in returned : tok[c] = {h}
    BY <1>1, <1>10 DEF RemoveOriginal, CallShape, Shaped, DeadLetterShape
  <2>2. PICK ok \in BOOLEAN :
          /\ IF AfterRemove(ok) = "idle" THEN Return(c) ELSE Goto(c, "forget")
          /\ owed' = IF ok THEN owed \ {h} ELSE owed
    BY <1>10, <2>1 DEF RemoveOriginal
  <2>3. Shaped(c)'
    BY <1>1, <1>10, <2>1, <2>2
       DEF RemoveOriginal, AfterRemove, Goto, Return, TypeOK, Shaped, DeleteShape
  <2>4. \A d \in Callers \ {c} : pc'[d] = pc[d] /\ tok'[d] = tok[d] /\ body'[d] = body[d]
    BY <1>1, <2>2 DEF Goto, Return, TypeOK
  <2> QED
    BY <1>10, <2>2, <2>3, <2>4, ShapeOthers DEF RemoveOriginal
<1>11. CASE Restart
  BY <1>11 DEF Restart, CallShape, Shaped
<1>12. CASE \/ Service \/ UNCHANGED vars
            \/ \E c \in Callers : Purge(c)
            \/ \E c \in Callers, m \in Messages, delayed \in BOOLEAN : Send(c, m, delayed)
            \/ \E c \in Callers, S \in SUBSET Messages : \E taken \in SUBSET S :
                   SendBatch(c, S, taken)
  <2>1. /\ UNCHANGED <<dead, pc, tok, body, condemned, returned, owed>>
        /\ discarded \subseteq discarded'
    BY <1>12 DEF Service, vars, Purge, Send, SendBatch
  <2> QED
    BY <2>1, ShapeFrame DEF Inv, CallShape
<1> QED
  BY <1>2, <1>3, <1>4, <1>5, <1>6, <1>7, <1>8, <1>9, <1>10, <1>11, <1>12 DEF Next, Step, Call

-----------------------------------------------------------------------------
(* What each step of the service does to the messages it holds.            *)

LEMMA EnqueueMoves ==
  ASSUME NEW S \in SUBSET Messages, NEW place \in {"ready", "delayed"},
         LeaseEnqueue(S, place)
  PROVE  S \cap Sent = {} /\ Sent' = Sent \cup S /\ InSource' = InSource \cup S
  BY DEF LeaseEnqueue, MoveTo, Sent, InSource

LEMMA DeliverMoves ==
  ASSUME NEW S \in SUBSET Messages, LeaseDeliver(S)
  PROVE  Sent' = Sent /\ InSource' = InSource
  BY DeliverEffect DEF Sent, InSource

LEMMA AckMoves ==
  ASSUME NEW h \in Handles, NEW ok \in BOOLEAN, AckEffect(h, ok)
  PROVE  /\ Sent' = Sent
         /\ InSource' \in {InSource, InSource \ {MessageOf(h)}}
<1>1. CASE UNCHANGED leaseVars
  BY <1>1 DEF leaseVars, Sent, InSource
<1>2. CASE MessageOf(h) \in InSource /\ MoveTo({MessageOf(h)}, "gone")
  <2>1. InSource' = InSource \ {MessageOf(h)}
    BY <1>2 DEF MoveTo, InSource
  <2> QED
    BY <1>2, <2>1 DEF MoveTo, Sent, InSource
<1> QED
  BY <1>1, <1>2 DEF AckEffect

LEMMA PurgeMoves ==
  ASSUME LeasePurge(InSource)
  PROVE  Sent' = Sent /\ InSource' = {}
  BY DEF LeasePurge, MoveTo, Sent, InSource

LEMMA ElapseMoves ==
  ASSUME NEW m \in Messages, LeaseExpires(m) \/ DelayElapses(m)
  PROVE  Sent' = Sent /\ InSource' = InSource
  BY DEF LeaseExpires, DelayElapses, MoveTo, Sent, InSource

-----------------------------------------------------------------------------
(* The contract.                                                           *)

LEMMA ContractInit == Init => Contract!Init
  BY DEF Init, LeaseInit, Contract!Init, Sent, InSource

\* A step that leaves the queue, the DLQ and the requests alone is a stutter.
LEMMA ContractStutter ==
  ASSUME UNCHANGED <<leaseVars, dead, askVars>>
  PROVE  UNCHANGED Contract!contractVars
  BY DEF leaseVars, askVars, Contract!contractVars, Sent, InSource

\* The message of a handle that was returned had been sent.
LEMMA ReturnedSent ==
  ASSUME Inv, NEW h \in returned
  PROVE  MessageOf(h) \in Sent /\ MessageOf(h) \in Messages
<1>1. h \in Handles /\ MessageOf(h) \in Messages /\ h[2] \in Nat
  BY HandleParts DEF Inv, TypeOK
<1>2. deliveries[MessageOf(h)] \in Nat /\ 0 < h[2] /\ h[2] <= deliveries[MessageOf(h)]
  BY <1>1 DEF Inv, TypeOK, LeaseTypeOK, HandlesIssued, Issued
<1> QED
  BY <1>1, <1>2 DEF Inv, HandlesIssued, Sent

\* Every step of the backend and of SQS is a step of the contract or invisible to it.
LEMMA ContractStep == Inv /\ [Next]_vars => [Contract!Next]_(Contract!contractVars)
<1> SUFFICES ASSUME Inv, [Next]_vars
             PROVE  Contract!Next \/ UNCHANGED Contract!contractVars
  OBVIOUS
<1> USE DEF leaseVars, askVars
<1>1. ASSUME NEW S \in SUBSET Messages, NEW place \in {"ready", "delayed"},
             LeaseEnqueue(S, place), UNCHANGED <<dead, askVars>>
      PROVE  Contract!Next
  <2>1. Contract!Enqueue(S)
    BY <1>1, EnqueueMoves DEF Contract!Enqueue
  <2> QED
    BY <2>1 DEF Contract!Next
<1>2. ASSUME NEW c \in Callers, NEW m \in Messages, NEW delayed \in BOOLEAN,
             Send(c, m, delayed)
      PROVE  Contract!Next
  <2>1. {m} \in SUBSET Messages
    OBVIOUS
  <2>2. \E place \in {"ready", "delayed"} : LeaseEnqueue({m}, place)
    BY <1>2, Zenon DEF Send
  <2> QED
    BY <1>1, <1>2, <2>1, <2>2 DEF Send
<1>3. ASSUME NEW c \in Callers, NEW S \in SUBSET Messages, NEW taken \in SUBSET S,
             SendBatch(c, S, taken)
      PROVE  Contract!Next
  <2>1. taken \in SUBSET Messages
    OBVIOUS
  <2> QED
    BY <1>1, <1>3, <2>1 DEF SendBatch
<1>4. ASSUME NEW c \in Callers, NEW S \in SUBSET Messages, Receive(c, S)
      PROVE  UNCHANGED Contract!contractVars
  BY <1>4, DeliverMoves DEF Receive, Contract!contractVars
<1>5. ASSUME NEW c \in Callers, NEW h \in returned, Delete(c, h)
      PROVE  Contract!Next
  <2>1. InSource' = InSource \ {}
    BY <1>5 DEF Delete, InSource
  <2>2. Contract!Discard({MessageOf(h)})
    BY <1>5, <2>1, ReturnedSent DEF Delete, Contract!Discard, Sent
  <2> QED
    BY <2>2, ReturnedSent DEF Contract!Next
<1>6. ASSUME NEW c \in Callers, NEW h \in returned, DeadLetter(c, h)
      PROVE  Contract!Next
  <2>1. Contract!Condemn(MessageOf(h))
    BY <1>6, ReturnedSent DEF DeadLetter, Contract!Condemn, Sent, InSource
  <2> QED
    BY <2>1, ReturnedSent DEF Contract!Next
<1>7. ASSUME NEW c \in Callers, DeleteMessage(c) PROVE Contract!Next \/ UNCHANGED Contract!contractVars
  <2>1. PICK h \in tok[c], ok \in BOOLEAN : AckEffect(h, ok)
    BY <1>7 DEF DeleteMessage
  <2>2. h \in Handles /\ MessageOf(h) \in Messages /\ MessageOf(h) \in discarded
    BY <1>7, HandleParts DEF DeleteMessage, Inv, TypeOK, CallShape, Shaped
  <2>3. UNCHANGED <<dead, askVars>> /\ Sent' = Sent
        /\ InSource' \in {InSource, InSource \ {MessageOf(h)}}
    BY <1>7, <2>1, <2>2, AckMoves DEF DeleteMessage
  <2>4. CASE InSource' = InSource \ {MessageOf(h)}
    BY <2>2, <2>3, <2>4 DEF Contract!Next, Contract!Remove
  <2> QED
    BY <2>3, <2>4 DEF Contract!contractVars
<1>8. ASSUME NEW c \in Callers, SendToDLQ(c) PROVE Contract!Next \/ UNCHANGED Contract!contractVars
  <2>1. PICK h \in returned : body[c] = {MessageOf(h)} /\ MessageOf(h) \in condemned
    BY <1>8 DEF SendToDLQ, Inv, CallShape, Shaped, DeadLetterShape
  <2>2. CASE dead' = dead \cup body[c]
    <3>1. Contract!MoveToDead(MessageOf(h))
      BY <1>8, <2>1, <2>2 DEF SendToDLQ, Contract!MoveToDead, Sent, InSource
    <3> QED
      BY <2>1, <3>1, ReturnedSent DEF Contract!Next
  <2> QED
    BY <1>8, <2>2, ContractStutter DEF SendToDLQ
<1>9. ASSUME NEW c \in Callers, RemoveOriginal(c) PROVE Contract!Next \/ UNCHANGED Contract!contractVars
  <2>1. PICK h \in tok[c], ok \in BOOLEAN : AckEffect(h, ok)
    BY <1>9 DEF RemoveOriginal
  <2>2. h \in Handles /\ MessageOf(h) \in Messages /\ MessageOf(h) \in dead
    BY <1>9, HandleParts DEF RemoveOriginal, Inv, TypeOK, CallShape, Shaped, DeadLetterShape
  <2>3. UNCHANGED <<dead, askVars>> /\ Sent' = Sent
        /\ InSource' \in {InSource, InSource \ {MessageOf(h)}}
    BY <1>9, <2>1, <2>2, AckMoves DEF RemoveOriginal
  <2>4. CASE InSource' = InSource \ {MessageOf(h)}
    BY <2>2, <2>3, <2>4 DEF Contract!Next, Contract!Remove
  <2> QED
    BY <2>3, <2>4 DEF Contract!contractVars
<1>10. ASSUME NEW c \in Callers, Purge(c) PROVE Contract!Next
  <2>1. InSource' = InSource \ InSource /\ Sent' = Sent /\ InSource \subseteq Sent
    BY <1>10, PurgeMoves DEF Purge, InSource, Sent
  <2>2. Contract!Discard(InSource)
    BY <1>10, <2>1 DEF Purge, Contract!Discard
  <2>3. InSource \in SUBSET Messages
    BY DEF InSource
  <2> QED
    BY <2>2, <2>3 DEF Contract!Next
<1>11. CASE Service
  BY <1>11, ElapseMoves DEF Service, Contract!contractVars
<1>12. CASE \/ Restart \/ UNCHANGED vars
            \/ \E c \in Callers : \/ Register(c) \/ Forget(c) \/ ReadCachedURL(c)
                                  \/ QueryPolicy(c) \/ CacheURL(c)
  BY <1>12, ContractStutter
     DEF Restart, vars, Register, Forget, ReadCachedURL, QueryPolicy, CacheURL
<1> QED
  BY <1>2, <1>3, <1>4, <1>5, <1>6, <1>7, <1>8, <1>9, <1>10, <1>11, <1>12 DEF Next, Step, Call

-----------------------------------------------------------------------------
(* The rest of the invariant.                                              *)

\* What leaves the queue is accounted for, and what is reported has entered it.
LEMMA AccountedStep == Inv /\ [Next]_vars => Accounted'
<1> SUFFICES ASSUME Inv, [Next]_vars PROVE Accounted'
  OBVIOUS
<1>1. Sent' \ InSource' \subseteq dead' \cup discarded'
  <2>1. [Contract!Next]_(Contract!contractVars) /\ Sent \ InSource \subseteq dead \cup discarded
    BY ContractStep DEF Inv, Accounted
  <2> QED
    BY <2>1 DEF Contract!Next, Contract!contractVars, Contract!Enqueue, Contract!Discard,
       Contract!Condemn, Contract!MoveToDead, Contract!Remove
<1>2. acked \subseteq Sent /\ Sent \subseteq Sent'
  <2>1. [Contract!Next]_(Contract!contractVars)
    BY ContractStep
  <2> QED
    BY <2>1 DEF Contract!Next, Contract!contractVars, Contract!Enqueue, Contract!Discard,
       Contract!Condemn, Contract!MoveToDead, Contract!Remove, Inv, Accounted
<1>3. ASSUME NEW c \in Callers, NEW m \in Messages, NEW delayed \in BOOLEAN,
             Send(c, m, delayed)
      PROVE  acked' \subseteq Sent'
  <2>1. \E place \in {"ready", "delayed"} : LeaseEnqueue({m}, place)
    BY <1>3, Zenon DEF Send
  <2>2. m \in Sent'
    BY <2>1, EnqueueMoves
  <2> QED
    BY <1>2, <1>3, <2>2 DEF Send
<1>4. ASSUME NEW c \in Callers, NEW S \in SUBSET Messages, NEW taken \in SUBSET S,
             SendBatch(c, S, taken)
      PROVE  acked' \subseteq Sent'
  <2>1. taken \in SUBSET Messages /\ LeaseEnqueue(taken, "ready")
    BY <1>4 DEF SendBatch
  <2>2. taken \subseteq Sent'
    BY <2>1, EnqueueMoves
  <2> QED
    BY <1>2, <1>4, <2>2 DEF SendBatch, BatchReported
<1>5. acked' = acked => acked' \subseteq Sent'
  BY <1>2
<1>6. acked' \subseteq Sent'
  BY <1>3, <1>4, <1>5 DEF Next, Step, Call, Register, DeleteMessage, Forget, ReadCachedURL,
     QueryPolicy, CacheURL, SendToDLQ, RemoveOriginal, Receive, Delete, DeadLetter, Purge,
     Service, Restart, vars, historyVars
<1> QED
  BY <1>1, <1>6 DEF Accounted

\* A handle leaves pending when a call that settled it forgets it, and with the process.
LEMMA RetainedStep == Inv /\ [Next]_vars => RetainedUntilSettled'
<1> SUFFICES ASSUME Inv, [Next]_vars PROVE RetainedUntilSettled'
  OBVIOUS
<1> USE DEF RetainedUntilSettled, historyVars
<1>1. owed \subseteq DOMAIN pending
  BY DEF Inv
<1>2. ASSUME NEW c \in Callers, Register(c) PROVE RetainedUntilSettled'
  BY <1>1, <1>2 DEF Register, Remember
<1>3. ASSUME NEW c \in Callers, Forget(c) PROVE RetainedUntilSettled'
  <2>1. \A h \in tok[c] : h \notin owed
    BY <1>3 DEF Forget, Inv, CallShape, Shaped, DeleteShape
  <2> QED
    BY <1>1, <1>3, <2>1 DEF Forget
<1>4. CASE Restart
  BY <1>4 DEF Restart
<1>5. CASE owed' \subseteq owed /\ pending' = pending
  BY <1>1, <1>5
<1> QED
  BY <1>2, <1>3, <1>4, <1>5 DEF Next, Step, Call, DeleteMessage, ReadCachedURL, QueryPolicy,
     CacheURL, SendToDLQ, RemoveOriginal, Send, SendBatch, Receive, Delete, DeadLetter, Purge,
     Service, vars

-----------------------------------------------------------------------------
\* The inductive invariant holds in every state of the SQS backend, for any number of
\* goroutines, messages and deliveries (sqs.go, all operations).
THEOREM InvHolds == Spec => []Inv
<1>1. Inv /\ [Next]_vars => Inv'
  BY TypeStep, HandlesStep, ReceivedStep, ShapeStep, AccountedStep, RetainedStep DEF Inv
<1> QED
  BY <1>1, InitInv, PTL DEF Spec

\* Every variable keeps its type, and a pending handle maps to its own body.
THEOREM TypeCorrect == Spec => []TypeOK
<1>1. Inv => TypeOK
  BY DEF Inv
<1> QED
  BY <1>1, InvHolds, PTL

\* A Send or SendBatch that reported success is never undone: its message is in the queue,
\* in the DLQ or discarded on request, whatever failed or restarted since.
THEOREM AcknowledgedNeverLost == Spec => []AcknowledgedNotLost
<1>1. Inv => AcknowledgedNotLost
  BY DEF Inv, Accounted, AcknowledgedNotLost
<1> QED
  BY <1>1, InvHolds, PTL

\* A handle stays dead-letterable until Delete is called on it or DeadLetter succeeds
\* (sqs.go:38-40), however many calls run at once and wherever a DeadLetter failed.
THEOREM HandlesRetained == Spec => []RetainedUntilSettled
<1>1. Inv => RetainedUntilSettled
  BY DEF Inv
<1> QED
  BY <1>1, InvHolds, PTL

\* The SQS backend keeps the contract of messaging.Backend, with its DeadLetter of three
\* calls that can fail one by one.
THEOREM Implementation == Spec => ImplementsContract
<1> QED
  BY InvHolds, ContractInit, ContractStep, PTL DEF Spec, ImplementsContract, Contract!Spec
=============================================================================
