------------------------- MODULE CredentialsProofs -------------------------
(***************************************************************************)
(* The timeout of imdsTimeoutWrapper, a field without a lock, is read and  *)
(* written by one caller at a time, and the chain comes to the Azure CLI   *)
(* only past a deadline, for any number of callers and calls.              *)
(***************************************************************************)
EXTENDS Credentials, TLAPS

LEMMA TimeoutInit == Init => TimeoutInv
<1> SUFFICES ASSUME Init PROVE TimeoutInv
  OBVIOUS
<1>1. TypeOK
  <2>1. env \in Environments
    BY DEF Init, NoEnv, Environments
  <2>2. calls \in [Callers -> 0..MaxCalls]
    BY CredentialsAssumption DEF Init
  <2>3. /\ ctx \in [Callers -> {"live", "cancelled", "expired"}]
        /\ at \in [Callers -> Sources \cup {"idle", "waiting", "probing", "asking"}]
        /\ \A c \in Callers : at[c] = "idle"
    BY DEF Init
  <2> QED
    BY <2>1, <2>2, <2>3 DEF Init, TypeOK
<1>2. OneIterates /\ ProbeShape /\ AtWinner
  BY DEF Init, OneIterates, ProbeShape, AtWinner, AtSource, None
<1>3. Unused
  BY DEF Init, Unused, Conn, None
<1> QED
  BY <1>1, <1>2, <1>3 DEF TimeoutInv

\* What a source answers: the caller leaves it, for the next source or for good. The
\* timeout is not switched on, and is off when the managed identity becomes the winner.
LEMMA GotKeeps ==
  ASSUME TimeoutInv, NEW c \in Callers, AtSource(c), NEW s \in Sources,
         NEW outcome, Got(c, s, outcome),
         timeoutOn' \in BOOLEAN, timeoutOn' => timeoutOn,
         outcome = "token" /\ s = "mi" => ~timeoutOn',
         timedOut' \in BOOLEAN, blind' \in BOOLEAN,
         UNCHANGED <<core, ctx, calls>>
  PROVE  TimeoutInv'
<1> USE DEF TimeoutInv
<1>1. /\ After(s) \in {"mi", "cli", "no more"}
      /\ c = iterating => winner = None
      /\ c # iterating => winner # None /\ iterating = None
  BY CallersAssumption DEF After, Sources, OneIterates, AtSource, TypeOK
<1>2. CASE outcome = "unavailable" /\ iterating = c /\ After(s) # "no more"
  <2>1. /\ at' = [at EXCEPT ![c] = After(s)] /\ After(s) \in {"mi", "cli"}
        /\ iterating' = iterating /\ winner' = winner
    BY <1>1, <1>2 DEF Got
  <2> USE <1>1, <1>2, <2>1
  <2>2. TypeOK'
    BY DEF TypeOK, Sources, core
  <2>3. OneIterates' /\ AtWinner'
    BY DEF OneIterates, AtWinner, AtSource, TypeOK
  <2>4. ProbeShape'
    BY DEF ProbeShape, TypeOK, core
  <2>5. Unused'
    BY DEF Unused, AtSource, TypeOK, core
  <2> QED
    BY <2>2, <2>3, <2>4, <2>5
<1>3. CASE ~(outcome = "unavailable" /\ iterating = c /\ After(s) # "no more")
  <2>1. /\ at' = [at EXCEPT ![c] = "idle"]
        /\ iterating' = None
        /\ winner' = winner \/ (iterating = c /\ outcome = "token" /\ winner' = s)
    BY <1>1, <1>3 DEF Got
  <2>2. \A d \in Callers : iterating = c /\ d # c => ~AtSource(d)
    BY <1>1 DEF OneIterates
  <2> USE <1>1, <2>1, <2>2
  <2>3. TypeOK'
    BY CallersAssumption DEF TypeOK, Sources, core, OneIterates, AtSource
  <2>4. OneIterates' /\ AtWinner'
    BY DEF OneIterates, AtWinner, AtSource, TypeOK
  <2>5. ProbeShape'
    BY DEF ProbeShape, TypeOK, core, AtSource, OneIterates
  <2>6. Unused'
    BY DEF Unused, AtSource, TypeOK, core
  <2> QED
    BY <2>3, <2>4, <2>5, <2>6
<1> QED
  BY <1>2, <1>3

LEMMA TimeoutStep == TimeoutInv /\ [Next]_vars => TimeoutInv'
<1> SUFFICES ASSUME TimeoutInv, [Next]_vars PROVE TimeoutInv'
  OBVIOUS
<1>1. CASE Construct
  <2> USE <1>1 DEF Construct, TimeoutInv
  <2>1. \A c \in Callers : at[c] = "idle" /\ winner = None /\ ~timeoutOn
    BY DEF Unused, ProbeShape, TypeOK
  <2>2. TypeOK'
    BY DEF TypeOK, AtSource
  <2>3. OneIterates' /\ AtWinner' /\ Unused'
    BY DEF OneIterates, AtWinner, AtSource, Unused
  <2>4. ProbeShape'
    BY <2>1 DEF ProbeShape, Unused, None
  <2> QED
    BY <2>2, <2>3, <2>4
<1>2. ASSUME NEW c \in Callers, Call(c) PROVE TimeoutInv'
  <2> USE <1>2 DEF Call, TimeoutInv
  <2>1. config = Built /\ conn' = conn /\ config' = config
    BY DEF Unused, core
  <2>2. TypeOK'
    <3>1. calls' \in [Callers -> 0..MaxCalls]
      BY CredentialsAssumption DEF TypeOK
    <3>2. /\ at' \in [Callers -> Sources \cup {"idle", "waiting", "probing", "asking"}]
          /\ iterating # c /\ \A d \in Callers : d # c => at'[d] = at[d]
          /\ at'[c] = "waiting" \/ winner # None
      BY CallersAssumption DEF TypeOK
    <3> QED
      BY <3>1, <3>2 DEF TypeOK, core
  <2>3. OneIterates' /\ AtWinner' /\ Unused'
    BY <2>1 DEF OneIterates, AtWinner, AtSource, Unused, TypeOK, Sources
  <2>4. ProbeShape'
    BY <2>1 DEF ProbeShape, TypeOK, Sources
  <2> QED
    BY <2>2, <2>3, <2>4
<1>3. ASSUME NEW c \in Callers, StopWaiting(c) PROVE TimeoutInv'
  <2> USE <1>3 DEF StopWaiting, TimeoutInv
  <2>1. FirstSource \in {"wi", "mi"}
    BY DEF FirstSource
  <2>2. TypeOK'
    BY <2>1, CallersAssumption DEF TypeOK, core, Sources
  <2>3. OneIterates' /\ AtWinner' /\ Unused'
    BY <2>1, CallersAssumption DEF OneIterates, AtWinner, AtSource, Unused, TypeOK, Sources, core
  <2>4. ProbeShape'
    <3>1. at'[c] \in Sources /\ \A d \in Callers : d # c => at'[d] = at[d]
      BY <2>1 DEF TypeOK, Sources
    <3>2. \A d \in Callers : at[d] = "probing" => iterating = d /\ iterating' = d
      BY CallersAssumption DEF ProbeShape
    <3> QED
      BY <3>1, <3>2 DEF ProbeShape, Sources, core
  <2> QED
    BY <2>2, <2>3, <2>4
<1>4. ASSUME NEW c \in Callers, AskWorkloadIdentity(c) \/ AskCLI(c) PROVE TimeoutInv'
  <2>1. AtSource(c) /\ timeoutOn' = timeoutOn /\ UNCHANGED <<core, ctx, calls, timedOut, blind>>
    BY <1>4 DEF AskWorkloadIdentity, AskCLI, AtSource
  <2>2. \E outcome : Got(c, "wi", outcome) \/ Got(c, "cli", outcome)
    BY <1>4 DEF AskWorkloadIdentity, AskCLI
  <2> QED
    BY <2>1, <2>2, GotKeeps DEF TimeoutInv, TypeOK, Sources
<1>5. ASSUME NEW c \in Callers, StartManagedIdentity(c) PROVE TimeoutInv'
  <2> USE <1>5 DEF StartManagedIdentity, TimeoutInv
  <2>1. TypeOK'
    BY DEF TypeOK, core
  <2>2. OneIterates' /\ AtWinner' /\ Unused'
    BY DEF OneIterates, AtWinner, AtSource, Unused, TypeOK, core
  <2>3. timeoutOn => c = iterating
    BY DEF OneIterates, AtSource, ProbeShape, AtWinner
  <2>4. ProbeShape'
    BY <2>3 DEF ProbeShape, TypeOK, core
  <2> QED
    BY <2>1, <2>2, <2>4
<1>6. ASSUME NEW c \in Callers, AskManagedIdentity(c) PROVE TimeoutInv'
  <2>1. AtSource(c) /\ ~timeoutOn /\ UNCHANGED <<core, ctx, calls, timeoutOn, timedOut, blind>>
    BY <1>6 DEF AskManagedIdentity, Ended, AtSource, TimeoutInv, ProbeShape
  <2>2. \E outcome : Got(c, "mi", outcome)
    BY <1>6 DEF AskManagedIdentity
  <2> QED
    BY <2>1, <2>2, GotKeeps DEF TimeoutInv, TypeOK, Sources
<1>7. ASSUME NEW c \in Callers, ProbeAnswered(c) \/ ProbeTimesOut(c) \/ ProbeCancelled(c)
      PROVE  TimeoutInv'
  <2>1. AtSource(c) /\ UNCHANGED <<core, ctx, calls>>
    BY <1>7 DEF ProbeAnswered, ProbeTimesOut, ProbeCancelled, Ended, AtSource
  <2>2. CASE ProbeTimesOut(c)
    <3>1. /\ Got(c, "mi", "unavailable") /\ timeoutOn' = timeoutOn
          /\ timedOut' \in BOOLEAN /\ blind' \in BOOLEAN
      BY <2>2 DEF ProbeTimesOut, DeadlineHit, TimeoutInv, TypeOK
    <3> QED
      BY <2>1, <3>1, GotKeeps DEF TimeoutInv, TypeOK, Sources
  <2>3. CASE ProbeAnswered(c) \/ ProbeCancelled(c)
    <3>1. \E outcome : Got(c, "mi", outcome)
      BY <2>3 DEF ProbeAnswered, ProbeCancelled, Responded
    <3>2. timeoutOn' = FALSE /\ timedOut' \in BOOLEAN /\ blind' \in BOOLEAN
      BY <2>3 DEF ProbeAnswered, ProbeCancelled, Responded, TimeoutInv, TypeOK
    <3> QED
      BY <2>1, <3>1, <3>2, GotKeeps DEF Sources
  <2> QED
    BY <1>7, <2>2, <2>3
<1>8. ASSUME NEW c \in Callers, ConnectionFails(c) PROVE TimeoutInv'
  <2>1. /\ AtSource(c) /\ UNCHANGED <<core, ctx, calls>>
        /\ Got(c, "mi", "error")
        /\ timeoutOn' \in BOOLEAN /\ timedOut' \in BOOLEAN /\ blind' \in BOOLEAN
        /\ timeoutOn' => timeoutOn
    BY <1>8 DEF ConnectionFails, Responded, Ended, AtSource, TimeoutInv, TypeOK
  <2> QED
    BY <2>1, GotKeeps DEF Sources
<1>9. ASSUME NEW c \in Callers, ContextEnds(c) PROVE TimeoutInv'
  <2> USE <1>9 DEF ContextEnds, TimeoutInv
  <2>1. TypeOK'
    BY DEF TypeOK, core
  <2>2. OneIterates' /\ AtWinner' /\ Unused' /\ ProbeShape'
    BY DEF OneIterates, AtWinner, AtSource, Unused, ProbeShape, core
  <2> QED
    BY <2>1, <2>2
<1>10. CASE UNCHANGED vars
  <2> USE <1>10 DEF vars, TimeoutInv
  <2>1. TypeOK'
    BY DEF TypeOK
  <2>2. OneIterates' /\ AtWinner' /\ Unused' /\ ProbeShape'
    BY DEF OneIterates, AtWinner, AtSource, Unused, ProbeShape
  <2> QED
    BY <2>1, <2>2
<1> QED
  BY <1>1, <1>2, <1>3, <1>4, <1>5, <1>6, <1>7, <1>8, <1>9, <1>10 DEF Next, GoOn

\* Every variable of the chain keeps its type, and one caller at most goes through its
\* sources, for any number of callers and calls.
THEOREM CredentialsTypeCorrect == Spec => []TypeOK
<1>1. TimeoutInv => TypeOK
  BY DEF TimeoutInv
<1> QED
  BY <1>1, TimeoutInit, TimeoutStep, PTL DEF Spec

\* imdsTimeoutWrapper.timeout is never read or written by two callers at once, and not
\* written any more when the managed identity is the source they all use.
THEOREM TimeoutNeverShared == Spec => []TimeoutNotShared
<1>1. TimeoutInv => TimeoutNotShared
  BY CallersAssumption
     DEF TimeoutInv, TimeoutNotShared, ProbeShape, OneIterates, AtSource
<1> QED
  BY <1>1, TimeoutInit, TimeoutStep, PTL DEF Spec

-----------------------------------------------------------------------------
(* The Azure CLI comes after a deadline.                                   *)

\* The only way to the CLI is an attempt at the managed identity that ended "unavailable".
LEMMA GotDeadline ==
  ASSUME DeadlineInv, NEW c \in Callers, AtSource(c), NEW s \in Sources,
         NEW outcome, Got(c, s, outcome), UNCHANGED core,
         s = "cli" => at[c] = "cli",
         s = "mi" /\ outcome = "unavailable" /\ env.mi \in {"up", "failing"} => timedOut',
         timedOut => timedOut'
  PROVE  CliShape'
<1>1. After(s) = "cli" => s = "mi"
  BY DEF After, Sources
<1>2. winner' = winner \/ winner' = s
  BY DEF Got
<1>3. \A d \in Callers : at'[d] = "cli" =>
         at[d] = "cli" \/ (s = "mi" /\ outcome = "unavailable")
  BY <1>1 DEF Got, DeadlineInv, TimeoutInv, TypeOK
<1> QED
  BY <1>2, <1>3 DEF CliShape, DeadlineInv, core

LEMMA DeadlineStep == DeadlineInv /\ [Next]_vars => CliShape'
<1> SUFFICES ASSUME DeadlineInv, [Next]_vars PROVE CliShape'
  OBVIOUS
<1> USE DEF DeadlineInv
<1>1. CASE Construct
  BY <1>1 DEF Construct, CliShape, Unused, TimeoutInv, None
<1>2. ASSUME NEW c \in Callers, Call(c) PROVE CliShape'
  <2>1. \A d \in Callers : at'[d] = "cli" => at[d] = "cli" \/ winner = "cli"
    BY <1>2 DEF Call, TimeoutInv, TypeOK
  <2> QED
    BY <1>2, <2>1 DEF Call, CliShape, core
<1>3. ASSUME NEW c \in Callers, StopWaiting(c) PROVE CliShape'
  <2>1. \A d \in Callers : at'[d] = "cli" => at[d] = "cli" \/ winner = "cli"
    BY <1>3 DEF StopWaiting, FirstSource, TimeoutInv, TypeOK
  <2> QED
    BY <1>3, <2>1 DEF StopWaiting, CliShape, core
<1>4. ASSUME NEW c \in Callers, AskWorkloadIdentity(c) \/ AskCLI(c) PROVE CliShape'
  <2>1. AtSource(c) /\ UNCHANGED <<core, timedOut>>
    BY <1>4 DEF AskWorkloadIdentity, AskCLI, AtSource
  <2>2. \E outcome : Got(c, "wi", outcome) \/ (at[c] = "cli" /\ Got(c, "cli", outcome))
    BY <1>4 DEF AskWorkloadIdentity, AskCLI
  <2> QED
    BY <2>1, <2>2, GotDeadline DEF Sources
<1>5. ASSUME NEW c \in Callers, StartManagedIdentity(c) PROVE CliShape'
  BY <1>5 DEF StartManagedIdentity, CliShape, TimeoutInv, TypeOK, core
<1>6. ASSUME NEW c \in Callers,
             \/ AskManagedIdentity(c) \/ ProbeAnswered(c) \/ ProbeTimesOut(c)
             \/ ProbeCancelled(c) \/ ConnectionFails(c)
      PROVE  CliShape'
  <2>1. AtSource(c) /\ UNCHANGED core
    BY <1>6 DEF AskManagedIdentity, ProbeAnswered, ProbeTimesOut, ProbeCancelled,
       ConnectionFails, Ended, AtSource
  <2>2. \E outcome :
           /\ Got(c, "mi", outcome)
           /\ outcome = "unavailable" /\ env.mi \in {"up", "failing"} => timedOut'
           /\ timedOut => timedOut'
    <3>1. CASE AskManagedIdentity(c)
      BY <3>1 DEF AskManagedIdentity, Unless, Answer
    <3>2. CASE ProbeAnswered(c)
      BY <3>2 DEF ProbeAnswered, Responded, Answer
    <3>3. CASE ProbeTimesOut(c)
      BY <3>3 DEF ProbeTimesOut, DeadlineHit
    <3>4. CASE ProbeCancelled(c) \/ ConnectionFails(c)
      BY <3>4 DEF ProbeCancelled, ConnectionFails, Responded
    <3> QED
      BY <1>6, <3>1, <3>2, <3>3, <3>4
  <2> QED
    BY <2>1, <2>2, GotDeadline DEF Sources
<1>7. CASE UNCHANGED vars \/ \E c \in Callers : ContextEnds(c)
  BY <1>7 DEF vars, ContextEnds, CliShape, core
<1> QED
  BY <1>1, <1>2, <1>3, <1>4, <1>5, <1>6, <1>7 DEF Next, GoOn

\* Where IMDS has an identity to give, the Azure CLI becomes the identity of the process
\* only after a first attempt ran into a deadline, for any number of callers and calls
\* (imdsTimeoutWrapper.GetToken: every other failure is not "unavailable").
THEOREM CliOnlyAfterADeadline == Spec => []CliOnlyAfterDeadline
<1>1. Init => DeadlineInv
  BY TimeoutInit DEF Init, DeadlineInv, CliShape, None
<1>2. DeadlineInv /\ [Next]_vars => DeadlineInv'
  BY TimeoutStep, DeadlineStep DEF DeadlineInv
<1>3. DeadlineInv => CliOnlyAfterDeadline
  BY DEF DeadlineInv, CliShape, CliOnlyAfterDeadline
<1> QED
  BY <1>1, <1>2, <1>3, PTL DEF Spec
=============================================================================
