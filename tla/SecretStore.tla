---------------------------- MODULE SecretStore ----------------------------
(***************************************************************************)
(* What SetSecret and DeleteSecret of secrets.Backend promise              *)
(* (src/secrets/secrets.go), told by what a call returns. One that returns *)
(* nil has taken effect, once and whole, on the secrets as they were at    *)
(* one moment between call and return. One that returns an error has       *)
(* changed nothing, or, where an answer may be lost on its way, has taken  *)
(* effect in the same manner. One that dies with its process has done      *)
(* either: what it changed stays.                                          *)
(***************************************************************************)
EXTENDS Naturals

CONSTANTS
    Clients, Names, Values, NoRequest,
    AnswersMayBeLost    \* whether an error may hide an update that was made

VARIABLES
    secrets,    \* name -> value, for the names that are set
    request,    \* the update each client's call is to make
    applied,    \* the call has made it
    answer      \* what the client's last call returned, if it did

Sets    == [op : {"set"}, name : Names, value : Values]
Deletes == [op : {"delete"}, name : Names]
Requests == Sets \cup Deletes

Updated(s, q) ==
    IF q.op = "set"
    THEN [n \in DOMAIN s \cup {q.name} |-> IF n = q.name THEN q.value ELSE s[n]]
    ELSE [n \in DOMAIN s \ {q.name} |-> s[n]]
-----------------------------------------------------------------------------
Init ==
    /\ secrets = [n \in {} |-> CHOOSE v \in Values : TRUE]
    /\ request = [c \in Clients |-> NoRequest]
    /\ applied = [c \in Clients |-> FALSE]
    /\ answer = [c \in Clients |-> "none"]

Ask(c, q) ==
    /\ request[c] = NoRequest
    /\ request' = [request EXCEPT ![c] = q]
    /\ answer' = [answer EXCEPT ![c] = "none"]
    /\ UNCHANGED <<secrets, applied>>

TakeEffect(c) ==
    /\ request[c] # NoRequest
    /\ ~applied[c]
    /\ secrets' = Updated(secrets, request[c])
    /\ applied' = [applied EXCEPT ![c] = TRUE]
    /\ UNCHANGED <<request, answer>>

Return(c, a) ==
    /\ request[c] # NoRequest
    /\ request' = [request EXCEPT ![c] = NoRequest]
    /\ applied' = [applied EXCEPT ![c] = FALSE]
    /\ answer' = [answer EXCEPT ![c] = a]

\* The update is made by now, at the latest as the call returns.
Succeed(c) ==
    /\ Return(c, "nil")
    /\ secrets' = IF applied[c] THEN secrets ELSE Updated(secrets, request[c])

Fail(c) ==
    /\ Return(c, "error")
    /\ \/ UNCHANGED secrets /\ (applied[c] => AnswersMayBeLost)
       \/ AnswersMayBeLost /\ ~applied[c] /\ secrets' = Updated(secrets, request[c])

\* The process of the clients in S dies.
Crash(S) ==
    /\ request' = [c \in Clients |-> IF c \in S THEN NoRequest ELSE request[c]]
    /\ applied' = [c \in Clients |-> IF c \in S THEN FALSE ELSE applied[c]]
    /\ answer' = [c \in Clients |-> IF c \in S THEN "none" ELSE answer[c]]
    /\ UNCHANGED secrets

Next ==
    \/ \E S \in SUBSET Clients : Crash(S)
    \/ \E c \in Clients :
          \/ TakeEffect(c) \/ Succeed(c) \/ Fail(c)
          \/ \E q \in Requests : Ask(c, q)

Spec == Init /\ [][Next]_<<secrets, request, applied, answer>>
=============================================================================
