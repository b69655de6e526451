------------------------ MODULE QueueContractProofs ------------------------
(***************************************************************************)
(* What the contract of messaging.Backend guarantees by itself: nothing is *)
(* lost. Every backend shown to implement the contract inherits it.        *)
(***************************************************************************)
EXTENDS QueueContract, TLAPS

\* The initial queue is empty, so nothing can have been lost.
LEMMA ContractInit == Init => TypeOK /\ NothingLost
  BY DEF Init, TypeOK, NothingLost

\* No step loses a message: Discard and MoveToDead account for what leaves the
\* source in the same step, Remove takes only what is accounted for.
LEMMA ContractNext ==
  TypeOK /\ NothingLost /\ [Next]_contractVars => TypeOK' /\ NothingLost'
<1> SUFFICES ASSUME TypeOK, NothingLost, [Next]_contractVars
             PROVE  TypeOK' /\ NothingLost'
  OBVIOUS
<1> USE DEF TypeOK, NothingLost
<1>1. CASE UNCHANGED contractVars
  BY <1>1 DEF contractVars
<1>2. ASSUME NEW S \in SUBSET Messages, Enqueue(S)
      PROVE  TypeOK' /\ NothingLost'
  BY <1>2 DEF Enqueue
<1>3. ASSUME NEW S \in SUBSET Messages, Discard(S)
      PROVE  TypeOK' /\ NothingLost'
  BY <1>3 DEF Discard
<1>4. ASSUME NEW m \in Messages, Condemn(m)
      PROVE  TypeOK' /\ NothingLost'
  BY <1>4 DEF Condemn
<1>5. ASSUME NEW m \in Messages, MoveToDead(m)
      PROVE  TypeOK' /\ NothingLost'
  BY <1>5 DEF MoveToDead
<1>6. ASSUME NEW m \in Messages, Remove(m)
      PROVE  TypeOK' /\ NothingLost'
  BY <1>6 DEF Remove
<1> QED
  BY <1>1, <1>2, <1>3, <1>4, <1>5, <1>6 DEF Next

\* A message that left the source queue was discarded by the application or is in
\* the dead-letter queue (the meaning of the contract of messaging.go:53-79).
THEOREM ContractKeepsMessages == Spec => [](TypeOK /\ NothingLost)
<1>1. Init => TypeOK /\ NothingLost
  BY ContractInit
<1>2. TypeOK /\ NothingLost /\ [Next]_contractVars => (TypeOK /\ NothingLost)'
  BY ContractNext
<1> QED
  BY <1>1, <1>2, PTL DEF Spec
=============================================================================
