-------------------------- MODULE ServiceBusProofs --------------------------
(***************************************************************************)
(* Proofs about ServiceBus for any number of goroutines, messages and      *)
(* receivers.                                                              *)
(***************************************************************************)
EXTENDS ServiceBus, TLAPS

(***************************************************************************)
(* Type correctness is inductive by itself but for three facts about what  *)
(* a call holds, which CallShape and TokensIssued give.                    *)
(***************************************************************************)

\* The initial state satisfies the inductive invariant.
LEMMA InitInv == Init => Inv
<1> SUFFICES ASSUME Init PROVE Inv
    OBVIOUS
<1> USE DEF Init
<1>1. TypeOK
  <2>1. deliveries \in [Messages -> 0 .. MaxDeliveries]
      BY BoundsAssumption
  <2>2. clientOpen \in BOOLEAN /\ shutdown \in BOOLEAN
      OBVIOUS
  <2>3. pending \in [DOMAIN pending -> Receivers] /\ DOMAIN pending \subseteq Tokens
      OBVIOUS
  <2>4. /\ receiverTokens \in [DOMAIN receiverTokens -> (SUBSET Tokens) \ {{}}]
        /\ DOMAIN receiverTokens \subseteq Receivers
      OBVIOUS
  <2>5. pc \in [Callers -> PCs] /\ queue \in [Messages -> Places]
      BY DEF PCs, Places
  <2> QED BY <2>1, <2>2, <2>3, <2>4, <2>5 DEF TypeOK
<1>2. CallShape
    BY DEF CallShape, Settling, SettlePCs
<1>3. TokensOnce /\ TokensIssued
    BY DEF TokensOnce, TokensIssued
<1>4. MapsAgree
    BY DEF MapsAgree
<1>5. ReceiverOwners /\ SettleTracked /\ NoReceiverLeak
    BY DEF ReceiverOwners, SettleTracked, NoReceiverLeak
<1>6. CallsAsked
    BY DEF CallsAsked
<1> QED BY <1>1, <1>2, <1>3, <1>4, <1>5, <1>6 DEF Inv

\* A step of a caller, a call it begins, a step of the queue or a restart keeps
\* every variable in its type.
LEMMA TypeStep == Inv /\ [Next]_vars => TypeOK'
<1> SUFFICES ASSUME Inv, [Next]_vars PROVE TypeOK'
    OBVIOUS
<1> USE BoundsAssumption DEF Inv, TypeOK, brokerVars, sdkVars, backendVars,
        callVars, askVars, historyVars, Places, PCs
<1>1. ASSUME NEW c \in Callers, NEW S \in SUBSET Messages, ReceiveMessages(c, S)
      PROVE  TypeOK'
  <2>1. {NextToken(m) : m \in S} \subseteq Tokens
      BY <1>1 DEF ReceiveMessages, Deliver, NextToken, Tokens
  <2>2. deliveries' \in [Messages -> 0 .. MaxDeliveries]
      BY <1>1 DEF ReceiveMessages, Deliver
  <2> QED BY <1>1, <2>1, <2>2 DEF ReceiveMessages, Deliver
<1>2. ASSUME NEW c \in Callers, NEW S \in SUBSET Messages, PurgeReceive(c, S)
      PROVE  TypeOK'
  <2>1. {NextToken(m) : m \in S} \subseteq Tokens
      BY <1>2 DEF PurgeReceive, Deliver, NextToken, Tokens
  <2>2. deliveries' \in [Messages -> 0 .. MaxDeliveries]
      BY <1>2 DEF PurgeReceive, Deliver
  <2> QED BY <1>2, <2>1, <2>2 DEF PurgeReceive, Deliver
<1>3. ASSUME NEW c \in Callers, ReceiveNothing(c) PROVE TypeOK'
    BY <1>3 DEF ReceiveNothing
<1>4. ASSUME NEW c \in Callers, Register(c) PROVE TypeOK'
  <2>1. PICK r \in rx[c] : /\ pending' = RegisterPending(pending, tok[c], r)
                           /\ receiverTokens' = MapPut(receiverTokens, {r}, tok[c])
      BY <1>4 DEF Register
  <2>2. tok[c] # {} /\ tok[c] \subseteq Tokens /\ r \in Receivers
      BY <1>4 DEF Register, CallShape
  <2>3. /\ DOMAIN receiverTokens' \subseteq Receivers
        /\ receiverTokens' \in [DOMAIN receiverTokens' -> (SUBSET Tokens) \ {{}}]
      BY <2>1, <2>2 DEF MapPut
  <2>4. DOMAIN pending' \subseteq Tokens /\ pending' \in [DOMAIN pending' -> Receivers]
      BY <2>1, <2>2 DEF RegisterPending, MapPut
  <2> QED BY <1>4, <2>3, <2>4 DEF Register, Finish
<1>5. ASSUME NEW c \in Callers, SettleApplied(c) PROVE TypeOK'
    BY <1>5 DEF SettleApplied, SettledAs, MessageOf, Tokens
<1>6. ASSUME NEW c \in Callers, SettleRejected(c) PROVE TypeOK'
    BY <1>6 DEF SettleRejected
<1>7. ASSUME NEW c \in Callers, Release(c) PROVE TypeOK'
  <2>1. PICK r \in rx[c], t \in tok[c] :
          IF r \in DOMAIN receiverTokens
          THEN LET left == TokensLeft(receiverTokens[r], t) IN
               IF left = {}
               THEN /\ receiverTokens' = ForgetReceiver(receiverTokens, r)
                    /\ pc' = [pc EXCEPT ![c] = "closing"]
                    /\ UNCHANGED rx
               ELSE /\ receiverTokens' = [receiverTokens EXCEPT ![r] = left]
                    /\ Finish(c)
                    /\ rx' = [rx EXCEPT ![c] = {}]
          ELSE /\ Finish(c)
               /\ rx' = [rx EXCEPT ![c] = {}]
               /\ UNCHANGED receiverTokens
      BY <1>7 DEF Release
  <2>2. DOMAIN receiverTokens' \subseteq Receivers
        /\ receiverTokens' \in [DOMAIN receiverTokens' -> (SUBSET Tokens) \ {{}}]
      BY <2>1 DEF TokensLeft, ForgetReceiver, MapDelete
  <2>3. pc' \in [Callers -> PCs] /\ rx' \in [Callers -> SUBSET Receivers]
      BY <2>1 DEF Finish
  <2> QED BY <1>7, <2>2, <2>3 DEF Release
<1>8. ASSUME NEW c \in Callers, NEW t \in tok[c], PurgeComplete(c, t) PROVE TypeOK'
    BY <1>8 DEF PurgeComplete, MessageOf, Tokens
<1>9. ASSUME NEW c \in Callers, PurgeFails(c) \/ PurgeDrained(c) PROVE TypeOK'
    BY <1>9 DEF PurgeFails, PurgeDrained
<1>10. ASSUME NEW c \in Callers, CloseReceiver(c) PROVE TypeOK'
    BY <1>10 DEF CloseReceiver, Finish
<1>11. ASSUME NEW c \in Callers, CloseNextReceiver(c) \/ CloseClient(c) PROVE TypeOK'
  <2>1. CASE CloseNextReceiver(c)
      BY <2>1 DEF CloseNextReceiver
  <2>2. CASE CloseClient(c)
    <3>1. clientOpen' \in BOOLEAN
        BY <2>2 DEF CloseClient
    <3> QED BY <2>2, <3>1 DEF CloseClient, Finish
  <2> QED BY <1>11, <2>1, <2>2
<1>12. ASSUME NEW c \in Callers, NEW S \in SUBSET Messages, SendBatch(c, S) PROVE TypeOK'
    BY <1>12 DEF SendBatch, Enqueue
<1>13. ASSUME NEW c \in Callers, NEW m \in Messages, NEW delayed \in BOOLEAN,
              Send(c, m, delayed)
       PROVE  TypeOK'
    BY <1>13 DEF Send, Enqueue
<1>14. ASSUME NEW c \in Callers, Receive(c) \/ Purge(c) PROVE TypeOK'
    BY <1>14 DEF Receive, Purge, OpenReceiver, Visible
<1>15. ASSUME NEW c \in Callers, Close(c) PROVE TypeOK'
    BY <1>15 DEF Close, MapDelete
<1>16. ASSUME NEW c \in Callers, NEW t \in DOMAIN pending, Delete(c, t) \/ DeadLetter(c, t)
       PROVE  TypeOK'
  <2>1. Claim(c, t, "complete") \/ Claim(c, t, "deadletter")
      BY <1>16 DEF Delete, DeadLetter
  <2>2. DOMAIN pending' \subseteq Tokens /\ pending' \in [DOMAIN pending' -> Receivers]
      BY <2>1 DEF Claim, ClaimPending, MapDelete
  <2>3. MessageOf(t) \in Messages
      BY DEF MessageOf, Tokens
  <2>4. discarded' \subseteq Messages /\ condemned' \subseteq Messages
      BY <1>16, <2>3 DEF Delete, DeadLetter
  <2> QED BY <2>1, <2>2, <2>4 DEF Claim
<1>17. ASSUME NEW m \in Messages, LockExpires(m) \/ DelayElapses(m) PROVE TypeOK'
    BY <1>17 DEF LockExpires, DelayElapses
<1>18. ASSUME Restart PROVE TypeOK'
    BY <1>18 DEF Restart, MapDelete
<1>19. ASSUME UNCHANGED vars PROVE TypeOK'
    BY <1>19 DEF vars
<1> QED
    BY <1>1, <1>2, <1>3, <1>4, <1>5, <1>6, <1>7, <1>8, <1>9, <1>10, <1>11, <1>12,
       <1>13, <1>14, <1>15, <1>16, <1>17, <1>18, <1>19 DEF Next, Step, Call

-----------------------------------------------------------------------------
\* The part of the invariant that is about calls, tokens and receivers.
Structure ==
    /\ CallShape
    /\ TokensOnce
    /\ TokensIssued
    /\ MapsAgree
    /\ ReceiverOwners
    /\ SettleTracked
    /\ NoReceiverLeak

\* A step that leaves the maps, the calls and the receivers alone.
LEMMA FrameStep ==
    ASSUME Inv, UNCHANGED <<backendVars, callVars, receiver, deliveries, shutdown>>
    PROVE  Structure'
<1> USE DEF Inv, TypeOK, Settling, SettlePCs, FreshPCs, backendVars,
        callVars, sdkVars, brokerVars, historyVars
<1>1. CallShape'
    BY DEF CallShape
<1>2. TokensOnce'
    BY DEF TokensOnce
<1>3. TokensIssued'
    BY DEF TokensIssued
<1>4. MapsAgree'
    BY DEF MapsAgree, Outstanding
<1>5. ReceiverOwners'
    BY DEF ReceiverOwners
<1>6. SettleTracked'
    BY DEF SettleTracked
<1>7. NoReceiverLeak'
    BY DEF NoReceiverLeak
<1> QED BY <1>1, <1>2, <1>3, <1>4, <1>5, <1>6, <1>7 DEF Structure

\* Receive and Purge open a receiver nobody knows.
LEMMA OpenStep ==
    ASSUME Inv, NEW c \in Callers, NEW next \in FreshPCs \ {"received"},
           OpenReceiver(c, next)
    PROVE  Structure'
<1> USE DEF Inv, TypeOK, Settling, SettlePCs, FreshPCs, backendVars,
        callVars, sdkVars, brokerVars, historyVars
<1>1. CallShape'
    BY DEF CallShape, OpenReceiver
<1>2. TokensOnce'
    BY DEF TokensOnce, OpenReceiver
<1>3. TokensIssued'
    BY DEF TokensIssued, OpenReceiver
<1>4. MapsAgree'
    BY DEF MapsAgree, OpenReceiver, Outstanding
<1>5. ReceiverOwners'
    BY DEF ReceiverOwners, OpenReceiver
<1>6. SettleTracked'
    BY DEF SettleTracked, OpenReceiver
<1>7. NoReceiverLeak'
  <2>1. PICK r \in Receivers : rx' = [rx EXCEPT ![c] = {r}]
                                  /\ receiver' = [receiver EXCEPT ![r] = "open"]
      BY DEF OpenReceiver
  <2>2. rx[c] = {}
      BY DEF OpenReceiver, CallShape
  <2>3. SUFFICES ASSUME NEW q \in Receivers, receiver'[q] = "open",
                        q \notin DOMAIN receiverTokens
                 PROVE  \E d \in Callers : q \in rx'[d]
      BY DEF OpenReceiver, NoReceiverLeak
  <2>4. CASE q = r
      BY <2>1, <2>4
  <2>5. CASE q # r
    <3>1. receiver[q] = "open"
        BY <2>1, <2>3, <2>5
    <3>2. PICK d \in Callers : q \in rx[d]
        BY <3>1, <2>3 DEF NoReceiverLeak
    <3> QED BY <2>1, <2>2, <3>2
  <2> QED BY <2>4, <2>5
<1> QED BY <1>1, <1>2, <1>3, <1>4, <1>5, <1>6, <1>7 DEF Structure

\* New lock tokens are new: no call and no map holds them.
LEMMA FreshTokens ==
    ASSUME TypeOK, TokensIssued, NEW m \in Messages
    PROVE  /\ NextToken(m) \notin DOMAIN pending
           /\ \A c \in Callers : NextToken(m) \notin tok[c]
<1>1. NextToken(m)[2] = deliveries[m] + 1 /\ MessageOf(NextToken(m)) = m
    BY DEF NextToken, MessageOf
<1>2. deliveries[m] \in Nat
    BY DEF TypeOK
<1>3. ~ (deliveries[m] + 1 <= deliveries[m])
    BY <1>2
<1> QED BY <1>1, <1>3 DEF TokensIssued

\* Receive is given messages under new locks.
LEMMA ReceiveMessagesStep ==
    ASSUME Inv, NEW c \in Callers, NEW S \in SUBSET Messages, ReceiveMessages(c, S)
    PROVE  Structure'
<1> USE DEF Inv, TypeOK, Settling, SettlePCs, FreshPCs, backendVars,
        callVars, sdkVars, brokerVars, historyVars
<1> DEFINE T == {NextToken(m) : m \in S}
<1>a. T \cap DOMAIN pending = {} /\ \A d \in Callers : T \cap tok[d] = {}
  <2>1. \A m \in S : /\ NextToken(m) \notin DOMAIN pending
                     /\ \A d \in Callers : NextToken(m) \notin tok[d]
      BY FreshTokens
  <2> QED BY <2>1
<1>b. /\ tok' = [tok EXCEPT ![c] = T]
      /\ S # {}
      /\ deliveries' = [m \in Messages |->
                           IF m \in S THEN deliveries[m] + 1 ELSE deliveries[m]]
      /\ UNCHANGED <<rx, receiver, pending, receiverTokens, shutdown>>
    BY DEF ReceiveMessages, Deliver
<1>c. ~ Settling(c) /\ ~ Settling(c)'
    BY DEF ReceiveMessages
<1>d. T # {}
    BY <1>b
<1>1. CallShape'
    BY <1>b, <1>d DEF CallShape, ReceiveMessages
<1>2. TokensOnce'
    BY <1>a, <1>b DEF TokensOnce
<1>3. TokensIssued'
  <2>1. \A m \in Messages : deliveries[m] <= deliveries'[m]
      BY <1>b
  <2>2. \A t \in T : t[2] <= deliveries'[MessageOf(t)]
      BY <1>b DEF NextToken, MessageOf
  <2>3. \A t \in Tokens : MessageOf(t) \in Messages /\ t[2] \in Nat
      BY DEF MessageOf, Tokens
  <2>4. \A t \in DOMAIN pending' : t[2] <= deliveries'[MessageOf(t)]
    <3> TAKE t \in DOMAIN pending'
    <3>1. t[2] <= deliveries[MessageOf(t)] /\ t \in Tokens
        BY <1>b DEF TokensIssued
    <3>2. deliveries[MessageOf(t)] \in Nat /\ deliveries'[MessageOf(t)] \in Nat
        BY <2>3, <3>1, <1>b
    <3> QED BY <2>1, <2>3, <3>1, <3>2
  <2>5. \A d \in Callers : \A t \in tok'[d] : t[2] <= deliveries'[MessageOf(t)]
    <3> TAKE d \in Callers
    <3> TAKE t \in tok'[d]
    <3>1. CASE d = c
        BY <3>1, <1>b, <2>2
    <3>2. CASE d # c
      <4>1. t[2] <= deliveries[MessageOf(t)] /\ t \in Tokens
          BY <3>2, <1>b DEF TokensIssued
      <4>2. deliveries[MessageOf(t)] \in Nat /\ deliveries'[MessageOf(t)] \in Nat
          BY <2>3, <4>1, <1>b
      <4> QED BY <2>1, <2>3, <4>1, <4>2
    <3> QED BY <3>1, <3>2
  <2> QED BY <2>4, <2>5 DEF TokensIssued
<1>4. MapsAgree'
  <2>1. \A d \in Callers : Settling(d)' <=> Settling(d)
      BY <1>c DEF ReceiveMessages
  <2>2. \A d \in Callers : Settling(d) => tok'[d] = tok[d]
      BY <1>b, <1>c
  <2>3. \A r : Outstanding(r)' = Outstanding(r)
      BY <1>b, <2>1, <2>2 DEF Outstanding
  <2> QED BY <1>b, <2>3 DEF MapsAgree
<1>5. ReceiverOwners'
    BY <1>b DEF ReceiverOwners, ReceiveMessages
<1>6. SettleTracked'
    BY <1>b DEF SettleTracked, ReceiveMessages
<1>7. NoReceiverLeak'
    BY <1>b DEF NoReceiverLeak
<1> QED BY <1>1, <1>2, <1>3, <1>4, <1>5, <1>6, <1>7 DEF Structure

\* So is Purge, to complete them at once.
LEMMA PurgeReceiveStep ==
    ASSUME Inv, NEW c \in Callers, NEW S \in SUBSET Messages, PurgeReceive(c, S)
    PROVE  Structure'
<1> USE DEF Inv, TypeOK, Settling, SettlePCs, FreshPCs, backendVars,
        callVars, sdkVars, brokerVars, historyVars
<1> DEFINE T == {NextToken(m) : m \in S}
<1>a. T \cap DOMAIN pending = {} /\ \A d \in Callers : T \cap tok[d] = {}
  <2>1. \A m \in S : /\ NextToken(m) \notin DOMAIN pending
                     /\ \A d \in Callers : NextToken(m) \notin tok[d]
      BY FreshTokens
  <2> QED BY <2>1
<1>b. /\ tok' = [tok EXCEPT ![c] = T]
      /\ S # {}
      /\ deliveries' = [m \in Messages |->
                           IF m \in S THEN deliveries[m] + 1 ELSE deliveries[m]]
      /\ UNCHANGED <<rx, receiver, pending, receiverTokens, shutdown>>
    BY DEF PurgeReceive, Deliver
<1>c. ~ Settling(c) /\ ~ Settling(c)'
    BY DEF PurgeReceive
<1>d. T # {}
    BY <1>b
<1>1. CallShape'
    BY <1>b, <1>d DEF CallShape, PurgeReceive
<1>2. TokensOnce'
    BY <1>a, <1>b DEF TokensOnce
<1>3. TokensIssued'
  <2>1. \A m \in Messages : deliveries[m] <= deliveries'[m]
      BY <1>b
  <2>2. \A t \in T : t[2] <= deliveries'[MessageOf(t)]
      BY <1>b DEF NextToken, MessageOf
  <2>3. \A t \in Tokens : MessageOf(t) \in Messages /\ t[2] \in Nat
      BY DEF MessageOf, Tokens
  <2>4. \A t \in DOMAIN pending' : t[2] <= deliveries'[MessageOf(t)]
    <3> TAKE t \in DOMAIN pending'
    <3>1. t[2] <= deliveries[MessageOf(t)] /\ t \in Tokens
        BY <1>b DEF TokensIssued
    <3>2. deliveries[MessageOf(t)] \in Nat /\ deliveries'[MessageOf(t)] \in Nat
        BY <2>3, <3>1, <1>b
    <3> QED BY <2>1, <2>3, <3>1, <3>2
  <2>5. \A d \in Callers : \A t \in tok'[d] : t[2] <= deliveries'[MessageOf(t)]
    <3> TAKE d \in Callers
    <3> TAKE t \in tok'[d]
    <3>1. CASE d = c
        BY <3>1, <1>b, <2>2
    <3>2. CASE d # c
      <4>1. t[2] <= deliveries[MessageOf(t)] /\ t \in Tokens
          BY <3>2, <1>b DEF TokensIssued
      <4>2. deliveries[MessageOf(t)] \in Nat /\ deliveries'[MessageOf(t)] \in Nat
          BY <2>3, <4>1, <1>b
      <4> QED BY <2>1, <2>3, <4>1, <4>2
    <3> QED BY <3>1, <3>2
  <2> QED BY <2>4, <2>5 DEF TokensIssued
<1>4. MapsAgree'
  <2>1. \A d \in Callers : Settling(d)' <=> Settling(d)
      BY <1>c DEF PurgeReceive
  <2>2. \A d \in Callers : Settling(d) => tok'[d] = tok[d]
      BY <1>b, <1>c
  <2>3. \A r : Outstanding(r)' = Outstanding(r)
      BY <1>b, <2>1, <2>2 DEF Outstanding
  <2> QED BY <1>b, <2>3 DEF MapsAgree
<1>5. ReceiverOwners'
    BY <1>b DEF ReceiverOwners, PurgeReceive
<1>6. SettleTracked'
    BY <1>b DEF SettleTracked, PurgeReceive
<1>7. NoReceiverLeak'
    BY <1>b DEF NoReceiverLeak
<1> QED BY <1>1, <1>2, <1>3, <1>4, <1>5, <1>6, <1>7 DEF Structure

\* Receive gives up: its receiver, still unknown to the maps, is to be closed.
LEMMA ReceiveNothingStep ==
    ASSUME Inv, NEW c \in Callers, ReceiveNothing(c)
    PROVE  Structure'
<1> USE DEF Inv, TypeOK, Settling, SettlePCs, FreshPCs, backendVars,
        callVars, sdkVars, brokerVars, historyVars
<1>1. CallShape'
    BY DEF CallShape, ReceiveNothing
<1>2. TokensOnce'
    BY DEF TokensOnce, ReceiveNothing
<1>3. TokensIssued'
    BY DEF TokensIssued, ReceiveNothing
<1>4. MapsAgree'
    BY DEF MapsAgree, ReceiveNothing, Outstanding
<1>5. ReceiverOwners'
    BY DEF ReceiverOwners, ReceiveNothing
<1>6. SettleTracked'
    BY DEF SettleTracked, ReceiveNothing
<1>7. NoReceiverLeak'
    BY DEF NoReceiverLeak, ReceiveNothing
<1> QED BY <1>1, <1>2, <1>3, <1>4, <1>5, <1>6, <1>7 DEF Structure

\* Receive registers its tokens with both maps.
LEMMA RegisterStep ==
    ASSUME Inv, NEW c \in Callers, Register(c)
    PROVE  Structure'
<1> USE DEF Inv, TypeOK, Settling, SettlePCs, FreshPCs, backendVars,
        callVars, sdkVars, brokerVars, historyVars
<1>a. PICK r \in Receivers : rx[c] = {r}
    BY DEF CallShape, Register
<1>b. /\ pending' = MapPut(pending, tok[c], r)
      /\ receiverTokens' = MapPut(receiverTokens, {r}, tok[c])
      /\ pc' = [pc EXCEPT ![c] = "idle"]
      /\ rx' = [rx EXCEPT ![c] = {}]
      /\ tok' = [tok EXCEPT ![c] = {}]
      /\ UNCHANGED <<receiver, deliveries, shutdown>>
    BY <1>a DEF Register, RegisterPending, Finish
<1>c. r \notin DOMAIN receiverTokens /\ \A d \in Callers \ {c} : r \notin rx[d]
    BY <1>a DEF ReceiverOwners, Register
<1>1. CallShape'
    BY DEF CallShape, Register, RegisterPending, MapPut, Finish
<1>2. TokensOnce'
    BY DEF TokensOnce, Register, RegisterPending, MapPut, Finish
<1>3. TokensIssued'
    BY DEF TokensIssued, Register, RegisterPending, MapPut, Finish
<1>4. MapsAgree'
  <2>1. tok[c] # {} /\ tok[c] \cap DOMAIN pending = {}
      BY DEF Register, CallShape, TokensOnce
  <2>2. \A t \in DOMAIN pending' : pending'[t] \in DOMAIN receiverTokens'
      BY <1>b DEF MapPut, MapsAgree
  <2>3. ASSUME NEW q \in DOMAIN receiverTokens'
        PROVE  receiverTokens'[q] # {} /\ receiverTokens'[q] = Outstanding(q)'
    <3>1. CASE q = r
      <4>1. receiverTokens'[r] = tok[c]
          BY <1>b DEF MapPut
      <4>2. \A t \in Tokens : t \in DOMAIN pending' /\ pending'[t] = r <=> t \in tok[c]
          BY <1>b, <1>c DEF MapPut, MapsAgree
      <4>3. \A d \in Callers : r \notin rx'[d]
          BY <1>b, <1>c
      <4>4. Outstanding(r)' = tok[c]
          BY <4>2, <4>3 DEF Outstanding
      <4> QED BY <2>1, <3>1, <4>1, <4>4
    <3>2. CASE q # r
      <4>1. q \in DOMAIN receiverTokens /\ receiverTokens'[q] = receiverTokens[q]
          BY <1>b, <3>2 DEF MapPut
      <4>2. \A t \in Tokens : t \in DOMAIN pending' /\ pending'[t] = q
                              <=> t \in DOMAIN pending /\ pending[t] = q
          BY <1>b, <2>1, <3>2 DEF MapPut
      <4>3. \A d \in Callers : Settling(d)' /\ q \in rx'[d] <=> Settling(d) /\ q \in rx[d]
          BY <1>a, <1>b, <3>2 DEF Register
      <4>4. \A d \in Callers : Settling(d) => tok'[d] = tok[d]
          BY <1>b DEF Register
      <4>5. Outstanding(q)' = Outstanding(q)
          BY <4>2, <4>3, <4>4 DEF Outstanding
      <4> QED BY <4>1, <4>5 DEF MapsAgree
    <3> QED BY <3>1, <3>2
  <2> QED BY <2>2, <2>3 DEF MapsAgree
<1>5. ReceiverOwners'
    BY DEF ReceiverOwners, Register, RegisterPending, MapPut, Finish
<1>6. SettleTracked'
    BY DEF SettleTracked, Register, RegisterPending, MapPut, Finish
<1>7. NoReceiverLeak'
  <2> SUFFICES ASSUME NEW q \in Receivers, receiver'[q] = "open",
                      q \notin DOMAIN receiverTokens'
               PROVE  \E d \in Callers : q \in rx'[d]
      BY DEF NoReceiverLeak
  <2>1. q # r /\ q \notin DOMAIN receiverTokens /\ receiver[q] = "open"
      BY <1>b DEF MapPut
  <2>2. PICK d \in Callers : q \in rx[d]
      BY <2>1 DEF NoReceiverLeak
  <2> QED BY <1>a, <1>b, <2>1, <2>2
<1> QED BY <1>1, <1>2, <1>3, <1>4, <1>5, <1>6, <1>7 DEF Structure

\* A settle claims a token.
LEMMA ClaimStep ==
    ASSUME Inv, NEW c \in Callers, NEW t \in DOMAIN pending,
           NEW op \in {"complete", "deadletter"}, Claim(c, t, op)
    PROVE  Structure'
<1> USE DEF Inv, TypeOK, Settling, SettlePCs, FreshPCs, backendVars,
        callVars, sdkVars, brokerVars, historyVars
<1> DEFINE r == pending[t]
<1>a. /\ r \in DOMAIN receiverTokens /\ receiver[r] = "open" /\ r \in Receivers
      /\ t \in Tokens
    BY DEF MapsAgree, ReceiverOwners
<1>b. /\ pending' = MapDelete(pending, {t})
      /\ pc' = [pc EXCEPT ![c] = op]
      /\ rx' = [rx EXCEPT ![c] = {r}]
      /\ tok' = [tok EXCEPT ![c] = {t}]
      /\ UNCHANGED <<receiver, receiverTokens, deliveries, shutdown>>
    BY DEF Claim, ClaimPending
<1>c. pc[c] = "idle" /\ rx[c] = {} /\ tok[c] = {}
    BY DEF Claim, CallShape
<1>1. CallShape'
    BY DEF CallShape, Claim, ClaimPending, MapDelete
<1>2. TokensOnce'
    BY DEF TokensOnce, Claim, ClaimPending, MapDelete
<1>3. TokensIssued'
    BY DEF TokensIssued, Claim, ClaimPending, MapDelete
<1>4. MapsAgree'
  <2>1. ASSUME NEW q
        PROVE  Outstanding(q)' = Outstanding(q)
    <3>1. \A u \in Tokens \ {t} : u \in DOMAIN pending' /\ pending'[u] = q
                                  <=> u \in DOMAIN pending /\ pending[u] = q
        BY <1>b DEF MapDelete
    <3>2. t \notin DOMAIN pending' /\ (t \in DOMAIN pending /\ pending[t] = q <=> q = r)
        BY <1>b DEF MapDelete
    <3>3. \A d \in Callers \ {c} : /\ Settling(d)' <=> Settling(d)
                                  /\ rx'[d] = rx[d] /\ tok'[d] = tok[d]
        BY <1>b
    <3>4. ~ Settling(c) /\ Settling(c)' /\ rx'[c] = {r} /\ tok'[c] = {t}
        BY <1>b, <1>c
    <3>5. \A d \in Callers : t \notin tok[d]
        BY DEF TokensOnce
    <3> QED BY <3>1, <3>2, <3>3, <3>4, <3>5, <1>a DEF Outstanding
  <2>2. \A u \in DOMAIN pending' : pending'[u] \in DOMAIN receiverTokens
      BY <1>b DEF MapDelete, MapsAgree
  <2> QED BY <1>b, <2>1, <2>2 DEF MapsAgree
<1>5. ReceiverOwners'
    BY <1>a, <1>b, <1>c DEF ReceiverOwners
<1>6. SettleTracked'
    BY <1>a, <1>b, <1>c DEF SettleTracked
<1>7. NoReceiverLeak'
    BY <1>b, <1>c DEF NoReceiverLeak
<1> QED BY <1>1, <1>2, <1>3, <1>4, <1>5, <1>6, <1>7 DEF Structure

\* The queue answered a settle.
LEMMA SettleStep ==
    ASSUME Inv, NEW c \in Callers, SettleApplied(c) \/ SettleRejected(c)
    PROVE  Structure'
<1> USE DEF Inv, TypeOK, Settling, SettlePCs, FreshPCs, backendVars,
        callVars, sdkVars, brokerVars, historyVars
<1>1. CallShape'
    BY DEF CallShape, SettleApplied, SettleRejected
<1>2. TokensOnce'
    BY DEF TokensOnce, SettleApplied, SettleRejected
<1>3. TokensIssued'
    BY DEF TokensIssued, SettleApplied, SettleRejected
<1>4. MapsAgree'
    BY DEF MapsAgree, SettleApplied, SettleRejected, Outstanding
<1>5. ReceiverOwners'
    BY DEF ReceiverOwners, SettleApplied, SettleRejected
<1>6. SettleTracked'
    BY DEF SettleTracked, SettleApplied, SettleRejected
<1>7. NoReceiverLeak'
    BY DEF NoReceiverLeak, SettleApplied, SettleRejected
<1> QED BY <1>1, <1>2, <1>3, <1>4, <1>5, <1>6, <1>7 DEF Structure

\* A call closes the receiver it alone holds.
LEMMA CloseReceiverStep ==
    ASSUME Inv, NEW c \in Callers, CloseReceiver(c)
    PROVE  Structure'
<1> USE DEF Inv, TypeOK, Settling, SettlePCs, FreshPCs, backendVars,
        callVars, sdkVars, brokerVars, historyVars
<1>1. CallShape'
    BY DEF CallShape, CloseReceiver, Finish
<1>2. TokensOnce'
    BY DEF TokensOnce, CloseReceiver, Finish
<1>3. TokensIssued'
    BY DEF TokensIssued, CloseReceiver, Finish
<1>4. MapsAgree'
    BY DEF MapsAgree, CloseReceiver, Finish, Outstanding
<1>5. ReceiverOwners'
    BY DEF ReceiverOwners, CloseReceiver, Finish
<1>6. SettleTracked'
    BY DEF SettleTracked, CloseReceiver, Finish
<1>7. NoReceiverLeak'
    BY DEF NoReceiverLeak, CloseReceiver, Finish
<1> QED BY <1>1, <1>2, <1>3, <1>4, <1>5, <1>6, <1>7 DEF Structure

\* Close empties the maps.
LEMMA CloseStep ==
    ASSUME Inv, NEW c \in Callers, Close(c)
    PROVE  Structure'
<1> USE DEF Inv, TypeOK, Settling, SettlePCs, FreshPCs, backendVars,
        callVars, sdkVars, brokerVars, historyVars
<1>a. /\ DOMAIN receiverTokens' = {} /\ DOMAIN pending' = {}
      /\ rx' = [rx EXCEPT ![c] = DOMAIN receiverTokens]
      /\ UNCHANGED receiver
    BY DEF Close, MapDelete
<1>b. rx[c] = {}
    BY DEF Close, CallShape
<1>1. CallShape'
    BY DEF CallShape, Close, MapDelete
<1>2. TokensOnce'
    BY DEF TokensOnce, Close, MapDelete
<1>3. TokensIssued'
    BY DEF TokensIssued, Close, MapDelete
<1>4. MapsAgree'
    BY DEF MapsAgree, Close, MapDelete, Outstanding
<1>5. ReceiverOwners'
    BY DEF ReceiverOwners, Close, MapDelete
<1>6. SettleTracked'
    BY DEF SettleTracked, Close, MapDelete
<1>7. NoReceiverLeak'
    BY <1>a, <1>b DEF NoReceiverLeak
<1> QED BY <1>1, <1>2, <1>3, <1>4, <1>5, <1>6, <1>7 DEF Structure

\* Close closes the receivers it found, then the client.
LEMMA CloseNextStep ==
    ASSUME Inv, NEW c \in Callers, CloseNextReceiver(c) \/ CloseClient(c)
    PROVE  Structure'
<1> USE DEF Inv, TypeOK, Settling, SettlePCs, FreshPCs, backendVars,
        callVars, sdkVars, brokerVars, historyVars
<1>1. CallShape'
    BY DEF CallShape, CloseNextReceiver, CloseClient, Finish
<1>2. TokensOnce'
    BY DEF TokensOnce, CloseNextReceiver, CloseClient, Finish
<1>3. TokensIssued'
    BY DEF TokensIssued, CloseNextReceiver, CloseClient, Finish
<1>4. MapsAgree'
  <2>1. \A r : Outstanding(r)' = Outstanding(r)
      BY DEF Outstanding, CloseNextReceiver, CloseClient, Finish
  <2> QED BY <2>1 DEF MapsAgree, CloseNextReceiver, CloseClient, Finish
<1>5. ReceiverOwners'
    BY DEF ReceiverOwners, CloseNextReceiver, CloseClient, Finish
<1>6. SettleTracked'
    BY DEF SettleTracked, CloseNextReceiver, CloseClient, Finish
<1>7. NoReceiverLeak'
    BY DEF NoReceiverLeak, CloseNextReceiver, CloseClient, Finish
<1> QED BY <1>1, <1>2, <1>3, <1>4, <1>5, <1>6, <1>7 DEF Structure

\* Purge ends, by an error or an empty receive.
LEMMA PurgeEndStep ==
    ASSUME Inv, NEW c \in Callers, PurgeFails(c) \/ PurgeDrained(c)
    PROVE  Structure'
<1> USE DEF Inv, TypeOK, Settling, SettlePCs, FreshPCs, backendVars,
        callVars, sdkVars, brokerVars, historyVars
<1>1. CallShape'
    BY DEF CallShape, PurgeFails, PurgeDrained
<1>2. TokensOnce'
    BY DEF TokensOnce, PurgeFails, PurgeDrained
<1>3. TokensIssued'
    BY DEF TokensIssued, PurgeFails, PurgeDrained
<1>4. MapsAgree'
  <2>1. \A r : Outstanding(r)' = Outstanding(r)
      BY DEF Outstanding, PurgeFails, PurgeDrained
  <2> QED BY <2>1 DEF MapsAgree, PurgeFails, PurgeDrained
<1>5. ReceiverOwners'
    BY DEF ReceiverOwners, PurgeFails, PurgeDrained
<1>6. SettleTracked'
    BY DEF SettleTracked, PurgeFails, PurgeDrained
<1>7. NoReceiverLeak'
    BY DEF NoReceiverLeak, PurgeFails, PurgeDrained
<1> QED BY <1>1, <1>2, <1>3, <1>4, <1>5, <1>6, <1>7 DEF Structure

\* Purge completes a message of its own.
LEMMA PurgeCompleteStep ==
    ASSUME Inv, NEW c \in Callers, NEW t \in tok[c], PurgeComplete(c, t)
    PROVE  Structure'
<1> USE DEF Inv, TypeOK, Settling, SettlePCs, FreshPCs, backendVars,
        callVars, sdkVars, brokerVars, historyVars
<1>1. CallShape'
    BY DEF CallShape, PurgeComplete
<1>2. TokensOnce'
    BY DEF TokensOnce, PurgeComplete
<1>3. TokensIssued'
    BY DEF TokensIssued, PurgeComplete
<1>4. MapsAgree'
  <2>1. \A r : Outstanding(r)' = Outstanding(r)
      BY DEF Outstanding, PurgeComplete
  <2> QED BY <2>1 DEF MapsAgree, PurgeComplete
<1>5. ReceiverOwners'
    BY DEF ReceiverOwners, PurgeComplete
<1>6. SettleTracked'
    BY DEF SettleTracked, PurgeComplete
<1>7. NoReceiverLeak'
    BY DEF NoReceiverLeak, PurgeComplete
<1> QED BY <1>1, <1>2, <1>3, <1>4, <1>5, <1>6, <1>7 DEF Structure

\* A new process starts with nothing.
LEMMA RestartStep ==
    ASSUME Inv, Restart
    PROVE  Structure'
<1> USE DEF Inv, TypeOK, Settling, SettlePCs, FreshPCs, backendVars,
        callVars, sdkVars, brokerVars, historyVars
<1>1. CallShape'
    BY DEF CallShape, Restart, MapDelete
<1>2. TokensOnce'
    BY DEF TokensOnce, Restart, MapDelete
<1>3. TokensIssued'
    BY DEF TokensIssued, Restart, MapDelete
<1>4. MapsAgree'
    BY DEF MapsAgree, Restart, MapDelete, Outstanding
<1>5. ReceiverOwners'
    BY DEF ReceiverOwners, Restart, MapDelete
<1>6. SettleTracked'
    BY DEF SettleTracked, Restart, MapDelete
<1>7. NoReceiverLeak'
    BY DEF NoReceiverLeak, Restart, MapDelete
<1> QED BY <1>1, <1>2, <1>3, <1>4, <1>5, <1>6, <1>7 DEF Structure

\* A settle gives its token back and perhaps takes its receiver out of the map.
LEMMA ReleaseStep ==
    ASSUME Inv, NEW c \in Callers, Release(c)
    PROVE  Structure'
<1> USE DEF Inv, TypeOK, Settling, SettlePCs, FreshPCs, backendVars,
        callVars, sdkVars, brokerVars, historyVars
<1>a. PICK r \in Receivers, t \in Tokens : rx[c] = {r} /\ tok[c] = {t}
    BY DEF CallShape, Release
<1>b. /\ t \notin DOMAIN pending
      /\ \A d \in Callers \ {c} : t \notin tok[d]
    BY <1>a DEF TokensOnce
<1>c. /\ tok' = [tok EXCEPT ![c] = {}]
      /\ UNCHANGED <<pending, receiver, deliveries, shutdown>>
    BY DEF Release
<1>d. /\ \A d \in Callers \ {c} : pc'[d] = pc[d] /\ rx'[d] = rx[d] /\ tok'[d] = tok[d]
      /\ tok'[c] = {} /\ Settling(c) /\ ~ Settling(c)'
      /\ pc' \in [Callers -> PCs] /\ rx' \in [Callers -> SUBSET Receivers]
    BY <1>c DEF Release, Finish, PCs
<1>e. \/ /\ r \in DOMAIN receiverTokens
         /\ receiverTokens[r] \ {t} = {}
         /\ receiverTokens' = MapDelete(receiverTokens, {r})
         /\ pc'[c] = "closing" /\ rx'[c] = {r}
      \/ /\ r \in DOMAIN receiverTokens
         /\ receiverTokens[r] \ {t} # {}
         /\ receiverTokens' = [receiverTokens EXCEPT ![r] = receiverTokens[r] \ {t}]
         /\ pc'[c] = "idle" /\ rx'[c] = {}
      \/ /\ r \notin DOMAIN receiverTokens
         /\ receiverTokens' = receiverTokens
         /\ pc'[c] = "idle" /\ rx'[c] = {}
    BY <1>a DEF Release, TokensLeft, ForgetReceiver, Finish
<1>f. \A q : Outstanding(q)' = Outstanding(q) \ {t}
    BY <1>a, <1>b, <1>c, <1>d DEF Outstanding
<1>g. \A q : q # r => t \notin Outstanding(q)
    BY <1>a, <1>b DEF Outstanding
<1>h. \A q \in DOMAIN receiverTokens' : q \in DOMAIN receiverTokens
    BY <1>e DEF MapDelete
<1>i. ASSUME NEW d \in Callers, Settling(d)', r \in rx'[d], r \in DOMAIN receiverTokens
      PROVE  receiverTokens[r] \ {t} # {}
  <2>1. d # c /\ Settling(d) /\ r \in rx[d]
      BY <1>d, <1>i
  <2>2. PICK u \in Tokens : u \in tok[d]
      BY <2>1 DEF CallShape
  <2>3. u \in Outstanding(r) /\ u # t
      BY <1>b, <2>1, <2>2 DEF Outstanding
  <2> QED BY <1>i, <2>3 DEF MapsAgree
<1>1. CallShape'
    BY <1>d, <1>e DEF CallShape
<1>2. TokensOnce'
    BY <1>c, <1>d DEF TokensOnce
<1>3. TokensIssued'
    BY <1>c DEF TokensIssued
<1>4. MapsAgree'
  <2>1. ASSUME NEW u \in DOMAIN pending'
        PROVE  pending'[u] \in DOMAIN receiverTokens'
    <3>1. /\ u \in DOMAIN pending /\ pending'[u] = pending[u] /\ u # t
          /\ pending[u] \in DOMAIN receiverTokens
        BY <1>b, <1>c DEF MapsAgree
    <3>2. u \in Outstanding(pending[u])
        BY <3>1 DEF Outstanding
    <3>3. u \in receiverTokens[pending[u]]
        BY <3>1, <3>2 DEF MapsAgree
    <3> QED BY <1>e, <3>1, <3>3 DEF MapDelete
  <2>2. ASSUME NEW q \in DOMAIN receiverTokens'
        PROVE  receiverTokens'[q] # {} /\ receiverTokens'[q] = Outstanding(q)'
    <3>1. receiverTokens[q] # {} /\ receiverTokens[q] = Outstanding(q)
        BY <1>h DEF MapsAgree
    <3>2. CASE q = r
      <4>1. receiverTokens'[q] = receiverTokens[r] \ {t} /\ receiverTokens[r] \ {t} # {}
          BY <1>e, <3>2 DEF MapDelete
      <4> QED BY <1>f, <3>1, <3>2, <4>1
    <3>3. CASE q # r
      <4>1. receiverTokens'[q] = receiverTokens[q]
          BY <1>e, <1>h, <3>3 DEF MapDelete
      <4> QED BY <1>f, <1>g, <3>1, <3>3, <4>1
    <3> QED BY <3>2, <3>3
  <2> QED BY <2>1, <2>2 DEF MapsAgree
<1>5. ReceiverOwners'
  <2>1. \A q \in DOMAIN receiverTokens' : receiver'[q] = "open"
      BY <1>c, <1>h DEF ReceiverOwners
  <2>2. ASSUME NEW d \in Callers, NEW q \in rx'[d]
        PROVE  /\ receiver'[q] # "new"
               /\ ~ Settling(d)' => q \notin DOMAIN receiverTokens'
               /\ pc'[d] \in FreshPCs =>
                     /\ receiver'[q] = "open"
                     /\ \A e \in Callers \ {d} : q \notin rx'[e]
    <3>1. CASE d = c
      <4>1. q = r /\ q \in rx[c] /\ pc'[c] = "closing" /\ q \notin DOMAIN receiverTokens'
          BY <1>a, <1>e, <3>1 DEF MapDelete
      <4> QED BY <1>c, <3>1, <4>1 DEF ReceiverOwners
    <3>2. CASE d # c
      <4>1. /\ q \in rx[d] /\ pc'[d] = pc[d]
            /\ \A e \in Callers : rx'[e] \subseteq rx[e]
          BY <1>a, <1>d, <1>e, <3>2
      <4> QED BY <1>c, <1>h, <4>1 DEF ReceiverOwners
    <3> QED BY <3>1, <3>2
  <2> QED BY <2>1, <2>2 DEF ReceiverOwners
<1>6. SettleTracked'
  <2> SUFFICES ASSUME NEW d \in Callers, Settling(d)', NEW q \in rx'[d],
                      q \notin DOMAIN receiverTokens'
               PROVE  /\ shutdown'
                      /\ \/ receiver'[q] = "closed"
                         \/ \E e \in Callers : pc'[e] = "shutdown" /\ q \in rx'[e]
      BY DEF SettleTracked
  <2>1. d # c /\ Settling(d) /\ q \in rx[d]
      BY <1>d
  <2>2. q \notin DOMAIN receiverTokens
      BY <1>e, <1>i DEF MapDelete
  <2>3. /\ shutdown
        /\ \/ receiver[q] = "closed"
           \/ \E e \in Callers : pc[e] = "shutdown" /\ q \in rx[e]
      BY <2>1, <2>2 DEF SettleTracked
  <2>4. pc[c] # "shutdown"
      BY <1>d
  <2> QED BY <1>c, <1>d, <2>3, <2>4
<1>7. NoReceiverLeak'
  <2> SUFFICES ASSUME NEW q \in Receivers, receiver'[q] = "open",
                      q \notin DOMAIN receiverTokens'
               PROVE  \E d \in Callers : q \in rx'[d]
      BY DEF NoReceiverLeak
  <2>1. CASE q \in DOMAIN receiverTokens
      BY <1>e, <2>1 DEF MapDelete
  <2>2. CASE q \notin DOMAIN receiverTokens
    <3>1. PICK d \in Callers : q \in rx[d]
        BY <1>c, <2>2 DEF NoReceiverLeak
    <3>2. CASE d = c
      <4>1. \E e \in Callers : pc[e] = "shutdown" /\ q \in rx[e]
          BY <1>c, <1>d, <2>2, <3>1, <3>2 DEF SettleTracked
      <4> QED BY <1>d, <4>1
    <3>3. CASE d # c
        BY <1>d, <3>1, <3>3
    <3> QED BY <3>2, <3>3
  <2> QED BY <2>1, <2>2
<1> QED BY <1>1, <1>2, <1>3, <1>4, <1>5, <1>6, <1>7 DEF Structure

-----------------------------------------------------------------------------
\* No step does to a message what the application did not ask for.
LEMMA AskedStep == Inv /\ [Next]_vars => CallsAsked'
<1> SUFFICES ASSUME Inv, [Next]_vars PROVE CallsAsked'
    OBVIOUS
<1> USE BoundsAssumption DEF Inv, TypeOK, CallsAsked, brokerVars, sdkVars, backendVars,
        callVars, askVars, historyVars
<1>1. ASSUME NEW c \in Callers, NEW S \in SUBSET Messages, ReceiveMessages(c, S)
      PROVE  CallsAsked'
    BY <1>1 DEF ReceiveMessages, Deliver
<1>2. ASSUME NEW c \in Callers, NEW S \in SUBSET Messages, PurgeReceive(c, S)
      PROVE  CallsAsked'
  <2>1. \A t \in {NextToken(m) : m \in S} : MessageOf(t) \in S
      BY DEF NextToken, MessageOf
  <2>2. /\ tok' = [tok EXCEPT ![c] = {NextToken(m) : m \in S}]
        /\ pc[c] = "purging"
        /\ discarded' = discarded \cup S
        /\ UNCHANGED <<pc, condemned>>
      BY <1>2 DEF PurgeReceive, Deliver
  <2>3. \A d \in Callers : \A t \in tok'[d] :
          /\ pc'[d] \in {"complete", "purging"} => MessageOf(t) \in discarded'
          /\ pc'[d] = "deadletter" => MessageOf(t) \in condemned'
      BY <2>1, <2>2
  <2>4. \A m \in Messages : deliveries'[m] > 0 => queue'[m] # "unsent"
      BY <1>2 DEF PurgeReceive, Deliver
  <2> QED BY <2>3, <2>4
<1>3. ASSUME NEW c \in Callers,
             ReceiveNothing(c) \/ PurgeFails(c) \/ PurgeDrained(c) \/ SettleRejected(c)
      PROVE  CallsAsked'
    BY <1>3 DEF ReceiveNothing, PurgeFails, PurgeDrained, SettleRejected
<1>4. ASSUME NEW c \in Callers, Register(c) PROVE CallsAsked'
    BY <1>4 DEF Register, Finish
<1>5. ASSUME NEW c \in Callers, SettleApplied(c) PROVE CallsAsked'
    BY <1>5 DEF SettleApplied, SettledAs
<1>6. ASSUME NEW c \in Callers, Release(c) PROVE CallsAsked'
  <2>1. /\ tok' = [tok EXCEPT ![c] = {}]
        /\ UNCHANGED <<queue, deliveries, discarded, condemned>>
        /\ \A d \in Callers \ {c} : pc'[d] = pc[d]
      BY <1>6 DEF Release, Finish
  <2> QED BY <2>1
<1>7. ASSUME NEW c \in Callers, NEW t \in tok[c], PurgeComplete(c, t) PROVE CallsAsked'
    BY <1>7 DEF PurgeComplete
<1>8. ASSUME NEW c \in Callers,
             CloseReceiver(c) \/ CloseNextReceiver(c) \/ CloseClient(c) \/ Close(c)
      PROVE  CallsAsked'
    BY <1>8 DEF CloseReceiver, CloseNextReceiver, CloseClient, Close, Finish
<1>9. ASSUME NEW S, NEW place \in {"scheduled", "active"}, Enqueue(S, place)
      PROVE  CallsAsked'
    BY <1>9 DEF Enqueue
<1>10. ASSUME NEW c \in Callers, NEW m \in Messages, NEW delayed \in BOOLEAN,
              Send(c, m, delayed)
       PROVE  CallsAsked'
    BY <1>9, <1>10 DEF Send
<1>11. ASSUME NEW c \in Callers, NEW S, SendBatch(c, S) PROVE CallsAsked'
    BY <1>9, <1>11 DEF SendBatch
<1>12. ASSUME NEW c \in Callers, Receive(c) \/ Purge(c) PROVE CallsAsked'
  <2>1. /\ tok[c] = {}
        /\ \A d \in Callers \ {c} : pc'[d] = pc[d]
        /\ UNCHANGED <<tok, queue, deliveries, discarded, condemned>>
      BY <1>12 DEF Receive, Purge, OpenReceiver, CallShape
  <2> QED BY <2>1
<1>13. ASSUME NEW c \in Callers, NEW t \in DOMAIN pending, Delete(c, t) \/ DeadLetter(c, t)
       PROVE  CallsAsked'
    BY <1>13 DEF Delete, DeadLetter, Claim
<1>14. ASSUME NEW m \in Messages, LockExpires(m) \/ DelayElapses(m) PROVE CallsAsked'
    BY <1>14 DEF LockExpires, DelayElapses
<1>15. CASE Restart
    BY <1>15 DEF Restart
<1>16. CASE UNCHANGED vars
    BY <1>16 DEF vars
<1> QED
    BY <1>1, <1>2, <1>3, <1>4, <1>5, <1>6, <1>7, <1>8, <1>10, <1>11, <1>12, <1>13, <1>14,
       <1>15, <1>16 DEF Next, Step, Call

-----------------------------------------------------------------------------
\* Every step keeps the invariant.
LEMMA StructureStep == Inv /\ [Next]_vars => Structure'
<1> SUFFICES ASSUME Inv, [Next]_vars PROVE Structure'
    OBVIOUS
<1> USE DEF brokerVars, sdkVars, backendVars, callVars, askVars, historyVars
<1>1. ASSUME NEW c \in Callers, Step(c) PROVE Structure'
  <2>1. ASSUME NEW S \in SUBSET Messages, ReceiveMessages(c, S) \/ PurgeReceive(c, S)
        PROVE  Structure'
      BY <2>1, ReceiveMessagesStep, PurgeReceiveStep
  <2>2. ASSUME NEW t \in tok[c], PurgeComplete(c, t) PROVE Structure'
      BY <2>2, PurgeCompleteStep
  <2> QED
      BY <1>1, <2>1, <2>2, ReceiveNothingStep, RegisterStep, SettleStep, ReleaseStep,
         PurgeEndStep, CloseReceiverStep, CloseNextStep DEF Step
<1>2. ASSUME NEW c \in Callers, Call(c) PROVE Structure'
  <2>1. ASSUME NEW S, NEW place, Enqueue(S, place) PROVE Structure'
      BY <2>1, FrameStep DEF Enqueue
  <2>2. CASE Receive(c) \/ Purge(c)
    <3>1. OpenReceiver(c, "receiving") \/ OpenReceiver(c, "purging")
        BY <2>2 DEF Receive, Purge
    <3> QED BY <3>1, OpenStep DEF FreshPCs
  <2>3. ASSUME NEW t \in DOMAIN pending, Delete(c, t) \/ DeadLetter(c, t)
        PROVE  Structure'
      BY <2>3, ClaimStep DEF Delete, DeadLetter
  <2> QED BY <1>2, <2>1, <2>2, <2>3, CloseStep DEF Call, Send, SendBatch
<1>3. ASSUME NEW m \in Messages, LockExpires(m) \/ DelayElapses(m) PROVE Structure'
    BY <1>3, FrameStep DEF LockExpires, DelayElapses
<1>4. CASE Restart
    BY <1>4, RestartStep
<1>5. CASE UNCHANGED vars
    BY <1>5, FrameStep DEF vars
<1> QED BY <1>1, <1>2, <1>3, <1>4, <1>5 DEF Next

\* So the invariant is inductive.
LEMMA InvStep == Inv /\ [Next]_vars => Inv'
<1> QED BY TypeStep, StructureStep, AskedStep DEF Structure, Inv

\* Inv is an invariant, for any number of goroutines, messages and receivers.
THEOREM InvHolds == Spec => []Inv
<1> QED BY InitInv, InvStep, PTL DEF Spec

\* Every variable always has its type.
THEOREM TypeCorrect == Spec => []TypeOK
<1>1. Inv => TypeOK
    BY DEF Inv
<1> QED BY <1>1, InvHolds, PTL

\* pending, receiverTokens and the settles in flight never disagree
\* (azurebus.go:33-38).
THEOREM MapsAlwaysAgree == Spec => []MapsAgree
<1>1. Inv => MapsAgree
    BY DEF Inv
<1> QED BY <1>1, InvHolds, PTL

\* However many goroutines are given the same handle, one settles it.
THEOREM OneSettler == Spec => []OneSettlerPerToken
<1>1. Inv => OneSettlerPerToken
    BY DEF Inv, TokensOnce, OneSettlerPerToken
<1> QED BY <1>1, InvHolds, PTL

\* Until Close, no settle closes a receiver under another one or under a token
\* still to be settled.
THEOREM ReceiversOutliveTokens == Spec => []ReceiverOutlivesTokens
<1>1. Inv => ReceiverOutlivesTokens
  <2> SUFFICES ASSUME Inv, ~ shutdown
               PROVE  /\ \A t \in DOMAIN pending : receiver[pending[t]] = "open"
                      /\ \A c \in Callers, r \in Receivers :
                            pc[c] \in {"complete", "deadletter"} /\ r \in rx[c]
                                => receiver[r] = "open"
      BY DEF ReceiverOutlivesTokens
  <2>1. \A t \in DOMAIN pending : receiver[pending[t]] = "open"
      BY DEF Inv, MapsAgree, ReceiverOwners
  <2>2. ASSUME NEW c \in Callers, NEW r \in Receivers,
               pc[c] \in {"complete", "deadletter"}, r \in rx[c]
        PROVE  receiver[r] = "open"
    <3>1. r \in DOMAIN receiverTokens
        BY <2>2 DEF Inv, SettleTracked, Settling, SettlePCs
    <3> QED BY <3>1 DEF Inv, ReceiverOwners
  <2> QED BY <2>1, <2>2
<1> QED BY <1>1, InvHolds, PTL

\* An open receiver is always tracked or held by a call.
THEOREM NoReceiverLeaks == Spec => []NoReceiverLeak
<1>1. Inv => NoReceiverLeak
    BY DEF Inv
<1> QED BY <1>1, InvHolds, PTL

-----------------------------------------------------------------------------
(* ServiceBus implements QueueContract.                                    *)

\* The initial state is an initial state of the contract.
LEMMA ContractInit == Init => Contract!Init
<1> QED BY DEF Init, Contract!Init, InQueue

\* Whatever does not touch the queue or the two history sets is a stutter.
LEMMA ContractStutter ==
    ASSUME UNCHANGED <<queue, discarded, condemned>>
    PROVE  UNCHANGED Contract!contractVars
<1> QED BY DEF Contract!contractVars, InQueue

\* Moving between places of the queue is a stutter too.
LEMMA ContractMove ==
    ASSUME NEW S \in SUBSET Messages, NEW place \in {"active", "locked"},
           \A m \in S : queue[m] \in {"scheduled", "active", "locked"},
           queue' = [m \in Messages |-> IF m \in S THEN place ELSE queue[m]]
    PROVE  /\ {m \in Messages : queue'[m] # "unsent"} = {m \in Messages : queue[m] # "unsent"}
           /\ InQueue' = InQueue
           /\ {m \in Messages : queue'[m] = "dead"} = {m \in Messages : queue[m] = "dead"}
<1> QED BY DEF InQueue

\* A message leaves the queue because it was discarded, or by being dead-lettered.
LEMMA ContractSettle ==
    ASSUME TypeOK, NEW m \in Messages, NEW place \in {"completed", "dead"},
           queue[m] = "locked", queue' = [queue EXCEPT ![m] = place],
           UNCHANGED <<discarded, condemned>>,
           place = "completed" => m \in discarded,
           place = "dead" => m \in condemned
    PROVE  Contract!Next
<1>1. InQueue' = InQueue \ {m}
    BY DEF InQueue, TypeOK
<1>2. {n \in Messages : queue'[n] # "unsent"} = {n \in Messages : queue[n] # "unsent"}
    BY DEF TypeOK
<1>3. CASE place = "completed"
  <2>1. {n \in Messages : queue'[n] = "dead"} = {n \in Messages : queue[n] = "dead"}
      BY <1>3 DEF TypeOK
  <2>2. Contract!Remove(m)
      BY <1>1, <1>2, <1>3, <2>1 DEF Contract!Remove
  <2> QED BY <2>2 DEF Contract!Next
<1>4. CASE place = "dead"
  <2>1. {n \in Messages : queue'[n] = "dead"}
          = {n \in Messages : queue[n] = "dead"} \cup {m}
      BY <1>4 DEF TypeOK
  <2>2. Contract!MoveToDead(m)
      BY <1>1, <1>2, <1>4, <2>1 DEF Contract!MoveToDead
  <2> QED BY <2>2 DEF Contract!Next
<1> QED BY <1>3, <1>4

\* A settle asks for the message of a token that was delivered, hence sent.
LEMMA ContractAsk ==
    ASSUME Inv, NEW t \in DOMAIN pending, UNCHANGED queue,
           \/ /\ discarded' = discarded \cup {MessageOf(t)}
              /\ condemned' = condemned
           \/ /\ condemned' = condemned \cup {MessageOf(t)}
              /\ discarded' = discarded
    PROVE  Contract!Next
<1> DEFINE m == MessageOf(t)
<1>1. m \in Messages /\ t[2] \in 1 .. MaxDeliveries /\ t[2] <= deliveries[m]
    BY DEF Inv, TypeOK, TokensIssued, Tokens, MessageOf
<1>2. deliveries[m] \in 0 .. MaxDeliveries
    BY <1>1 DEF Inv, TypeOK
<1>3. deliveries[m] > 0
    BY <1>1, <1>2, BoundsAssumption
<1>4. queue[m] # "unsent"
    BY <1>1, <1>3 DEF Inv, CallsAsked
<1>5. CASE discarded' = discarded \cup {m} /\ condemned' = condemned
  <2>1. InQueue' = InQueue \ {}
      BY DEF InQueue
  <2>2. Contract!Discard({m})
      BY <1>1, <1>4, <1>5, <2>1 DEF Contract!Discard
  <2> QED BY <1>1, <2>2 DEF Contract!Next
<1>6. CASE condemned' = condemned \cup {m} /\ discarded' = discarded
  <2>1. Contract!Condemn(m)
      BY <1>1, <1>4, <1>6 DEF Contract!Condemn, InQueue
  <2> QED BY <1>1, <2>1 DEF Contract!Next
<1> QED BY <1>5, <1>6

\* Every step of the backend is a step of the contract or invisible to it.
LEMMA ContractStep == Inv /\ [Next]_vars => [Contract!Next]_(Contract!contractVars)
<1> SUFFICES ASSUME Inv, [Next]_vars
             PROVE  Contract!Next \/ UNCHANGED Contract!contractVars
    OBVIOUS
<1> USE DEF Inv, TypeOK, brokerVars, sdkVars, backendVars, callVars, askVars, historyVars
<1>1. ASSUME NEW c \in Callers, NEW S \in SUBSET Messages, ReceiveMessages(c, S)
      PROVE  UNCHANGED Contract!contractVars
    BY <1>1, ContractMove DEF ReceiveMessages, Deliver, Contract!contractVars
<1>2. ASSUME NEW c \in Callers, NEW S \in SUBSET Messages, PurgeReceive(c, S)
      PROVE  Contract!Next
  <2>1. /\ \A m \in S : queue[m] = "active"
        /\ queue' = [m \in Messages |-> IF m \in S THEN "locked" ELSE queue[m]]
        /\ discarded' = discarded \cup S
        /\ condemned' = condemned
      BY <1>2 DEF PurgeReceive, Deliver
  <2>2. S \subseteq {m \in Messages : queue[m] # "unsent"}
      BY <2>1
  <2>3. InQueue' = InQueue \ {}
      BY <2>1, ContractMove
  <2>4. Contract!Discard(S)
      BY <2>1, <2>2, <2>3, ContractMove DEF Contract!Discard
  <2> QED BY <2>4 DEF Contract!Next
<1>3. ASSUME NEW c \in Callers, SettleApplied(c) PROVE Contract!Next
  <2>1. PICK t \in tok[c] : /\ LockHeld(t)
                            /\ queue' = [queue EXCEPT ![MessageOf(t)] = SettledAs(pc[c])]
      BY <1>3 DEF SettleApplied
  <2>2. /\ pc[c] \in {"complete", "deadletter"}
        /\ UNCHANGED <<discarded, condemned>>
      BY <1>3 DEF SettleApplied
  <2>3. /\ MessageOf(t) \in Messages
        /\ queue[MessageOf(t)] = "locked"
        /\ pc[c] = "complete" => MessageOf(t) \in discarded
        /\ pc[c] = "deadletter" => MessageOf(t) \in condemned
      BY <2>1 DEF LockHeld, CallsAsked, MessageOf, Tokens
  <2> QED BY <2>1, <2>2, <2>3, ContractSettle DEF SettledAs
<1>4. ASSUME NEW c \in Callers, NEW t \in tok[c], PurgeComplete(c, t) PROVE Contract!Next
  <2>1. /\ MessageOf(t) \in Messages /\ MessageOf(t) \in discarded
        /\ queue[MessageOf(t)] = "locked"
        /\ queue' = [queue EXCEPT ![MessageOf(t)] = "completed"]
        /\ UNCHANGED <<discarded, condemned>>
      BY <1>4 DEF PurgeComplete, LockHeld, CallsAsked, MessageOf, Tokens
  <2> QED BY <2>1, ContractSettle
<1>5. ASSUME NEW S \in SUBSET Messages, NEW place \in {"scheduled", "active"},
             Enqueue(S, place)
      PROVE  Contract!Next
  <2>1. /\ {m \in Messages : queue'[m] # "unsent"}
             = {m \in Messages : queue[m] # "unsent"} \cup S
        /\ InQueue' = InQueue \cup S
        /\ {m \in Messages : queue'[m] = "dead"} = {m \in Messages : queue[m] = "dead"}
        /\ S \cap {m \in Messages : queue[m] # "unsent"} = {}
        /\ UNCHANGED <<discarded, condemned>>
      BY <1>5 DEF Enqueue, InQueue
  <2>2. Contract!Enqueue(S)
      BY <2>1 DEF Contract!Enqueue
  <2> QED BY <2>2 DEF Contract!Next
<1>6. ASSUME NEW c \in Callers, NEW t \in DOMAIN pending, Delete(c, t) \/ DeadLetter(c, t)
      PROVE  Contract!Next
    BY <1>6, ContractAsk DEF Delete, DeadLetter, Claim
<1>7. ASSUME NEW m \in Messages, LockExpires(m) \/ DelayElapses(m)
      PROVE  UNCHANGED Contract!contractVars
  <2>1. /\ queue[m] \in {"scheduled", "locked"}
        /\ queue' = [queue EXCEPT ![m] = "active"]
        /\ UNCHANGED <<discarded, condemned>>
      BY <1>7 DEF LockExpires, DelayElapses
  <2>2. queue' = [n \in Messages |-> IF n \in {m} THEN "active" ELSE queue[n]]
      BY <2>1
  <2> QED BY <2>1, <2>2, ContractMove DEF Contract!contractVars
<1>8. ASSUME NEW c \in Callers,
             \/ ReceiveNothing(c) \/ Register(c) \/ SettleRejected(c) \/ Release(c)
             \/ PurgeFails(c) \/ PurgeDrained(c) \/ CloseReceiver(c)
             \/ CloseNextReceiver(c) \/ CloseClient(c)
             \/ Receive(c) \/ Purge(c) \/ Close(c)
      PROVE  UNCHANGED Contract!contractVars
  <2>1. UNCHANGED <<queue, discarded, condemned>>
      BY <1>8 DEF ReceiveNothing, Register, SettleRejected, Release, PurgeFails,
         PurgeDrained, CloseReceiver, CloseNextReceiver, CloseClient, Receive, Purge,
         OpenReceiver, Close
  <2> QED BY <2>1, ContractStutter
<1>9. CASE Restart \/ UNCHANGED vars
    BY <1>9, ContractStutter DEF Restart, vars
<1> QED
    BY <1>1, <1>2, <1>3, <1>4, <1>5, <1>6, <1>7, <1>8, <1>9
       DEF Next, Step, Call, Send, SendBatch

\* The Service Bus backend keeps the contract of messaging.Backend: with any
\* number of goroutines, failed settles, expired locks and restarts, a message
\* leaves the queue only by being discarded or dead-lettered on request.
THEOREM Implementation == Spec => ImplementsContract
<1> QED BY InvHolds, ContractInit, ContractStep, PTL DEF Spec, ImplementsContract, Contract!Spec

ContractTheorems ==
    INSTANCE QueueContractProofs WITH
        sent      <- {m \in Messages : queue[m] # "unsent"},
        source    <- InQueue,
        dead      <- {m \in Messages : queue[m] = "dead"},
        discarded <- discarded,
        condemned <- condemned

\* Hence no message is lost (azurebus.go, all operations): one that was sent and
\* is not in the queue any more was given to Delete or drained by Purge, or is in
\* the dead-letter queue.
THEOREM NoMessageLost == Spec => []Contract!NothingLost
<1>1. Contract!Init => ContractTheorems!Init
  BY DEF Contract!Init, ContractTheorems!Init
<1>2. [Contract!Next]_(Contract!contractVars)
        => [ContractTheorems!Next]_(ContractTheorems!contractVars)
  BY DEF Contract!Next, Contract!contractVars, Contract!Enqueue, Contract!Discard,
     Contract!Condemn, Contract!MoveToDead, Contract!Remove,
     ContractTheorems!Next, ContractTheorems!contractVars, ContractTheorems!Enqueue,
     ContractTheorems!Discard, ContractTheorems!Condemn, ContractTheorems!MoveToDead,
     ContractTheorems!Remove
<1>3. ContractTheorems!NothingLost => Contract!NothingLost
  BY DEF ContractTheorems!NothingLost, Contract!NothingLost
<1>4. ContractTheorems!Spec =>
        [](ContractTheorems!TypeOK /\ ContractTheorems!NothingLost)
  BY ContractTheorems!ContractKeepsMessages
<1> QED
  BY <1>1, <1>2, <1>3, <1>4, Implementation, PTL
     DEF ImplementsContract, Contract!Spec, ContractTheorems!Spec
=============================================================================
