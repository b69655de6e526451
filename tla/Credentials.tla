---------------------------- MODULE Credentials ----------------------------
(***************************************************************************)
(* The life of a backend's credential: a constructor turns the fields that *)
(* are set into a connection (module Connections); when that is the Azure  *)
(* chain, callers then ask the chain for tokens concurrently. The chain is *)
(*   workload identity -> managed identity (IMDS) -> Azure CLI             *)
(* with a wrapper around the managed identity that bounds the first        *)
(* attempt (core/azurecred.go). ChainedTokenCredential itself is external: *)
(* one caller at a time goes through the sources, only an "unavailable"    *)
(* error leads to the next one, and the first to answer is kept for good.  *)
(***************************************************************************)
EXTENDS Connections, Functions

CONSTANTS
    Configs,   \* what can be asked for: a kind, the set of fields given, the options of a URI among them
    Callers,   \* goroutines that ask for a token
    MaxCalls   \* bound: calls one of them makes

ASSUME CredentialsAssumption == MaxCalls \in Nat
ASSUME CallersAssumption == None \notin Callers

VARIABLES
    config,     \* what is asked for, until the constructor has run
    conn,       \* what the constructor returned
    env,        \* what each source of the chain would do
    timeoutOn,  \* imdsTimeoutWrapper.timeout > 0
    winner,     \* successfulCredential
    iterating,  \* the caller that goes through the sources
    at,         \* where each caller is
    ctx,        \* its context: "live", "cancelled" or "expired"
    calls,      \* the calls it made
    timedOut,   \* history: a first attempt ended at a deadline
    blind       \* history: the timeout was dropped without an answer of IMDS

vars == <<config, conn, env, timeoutOn, winner, iterating, at, ctx, calls, timedOut, blind>>
core == <<config, conn, env>>

Sources == {"wi", "mi", "cli"}

Environments ==
    [wi : {"absent", "up", "denied"},  \* absent: no variables, not in the chain
     mi : {"up", "failing", "no identity", "blackhole"},  \* blackhole: never replies
     cli : {"up", "absent"}]

-----------------------------------------------------------------------------
(* The constructor.                                                        *)

Kind(package, provider, method) ==
    [package |-> package, provider |-> provider, method |-> method]

New(k, set, query) ==
    CASE k.package = "storage"   -> StorageNew(k.provider, set)
      [] k.package = "messaging" -> MessagingNew(k.provider, set)
      [] k.package = "secrets"   -> SecretsNew(k.provider, set)
      [] k.package = "email"     -> EmailNew(k.provider, set)
      [] k.package = "pubsub"    -> PubSubNew(k.provider, set)
      [] k.package = "cache"     -> CacheNew(k.provider, k.method, set)
      [] k.package = "document"  -> DocumentNew(k.provider, set, query)

Built == [kind |-> Kind(None, None, None), set |-> {}, query |-> {}]
NoEnv == [wi |-> "absent", mi |-> "blackhole", cli |-> "absent"]

Init ==
    /\ config \in Configs
    /\ conn = Conn(None, None)
    /\ env = NoEnv
    /\ timeoutOn = FALSE
    /\ winner = None /\ iterating = None
    /\ at = [c \in Callers |-> "idle"]
    /\ ctx = [c \in Callers |-> "live"]
    /\ calls = [c \in Callers |-> 0]
    /\ timedOut = FALSE /\ blind = FALSE

\* A backend keeps the client it made, not the Config. The environment it runs in is any.
Construct ==
    /\ config # Built
    /\ config' = Built
    /\ conn' = New(config.kind, config.set, config.query)
    /\ IF conn'.id = "chain"
       THEN env' \in Environments /\ timeoutOn' = TRUE
       ELSE UNCHANGED <<env, timeoutOn>>
    /\ UNCHANGED <<winner, iterating, at, ctx, calls, timedOut, blind>>

-----------------------------------------------------------------------------
(* The chain. A workload identity without its variables is not a source.   *)

FirstSource_Cli == IF env.wi # "absent" THEN "wi" ELSE "cli"

FirstSource == IF env.wi # "absent" THEN "wi" ELSE "mi"

After(source) == IF source = "wi" THEN "mi" ELSE IF source = "mi" THEN "cli" ELSE "no more"

Call(c) ==
    /\ conn.id = "chain" /\ at[c] = "idle" /\ calls[c] < MaxCalls
    /\ calls' = [calls EXCEPT ![c] = @ + 1]
    /\ ctx' = [ctx EXCEPT ![c] = "live"]
    /\ at' = [at EXCEPT ![c] = IF winner = None THEN "waiting" ELSE winner]
    /\ UNCHANGED <<core, timeoutOn, winner, iterating, timedOut, blind>>

\* The wait does not look at the context. It ends with a winner or with its own turn.
StopWaiting(c) ==
    /\ at[c] = "waiting"
    /\ \/ /\ winner # None
          /\ at' = [at EXCEPT ![c] = winner]
          /\ UNCHANGED iterating
       \/ /\ winner = None /\ iterating = None
          /\ at' = [at EXCEPT ![c] = FirstSource]
          /\ iterating' = c
    /\ UNCHANGED <<core, timeoutOn, winner, ctx, calls, timedOut, blind>>

Got_ErrorStaysIterating(c, s, outcome) ==
    LET more == outcome = "unavailable" /\ iterating = c /\ After(s) # "no more"
    IN  /\ at' = [at EXCEPT ![c] = IF more THEN After(s) ELSE "idle"]
        /\ iterating' = IF iterating = c /\ outcome = "token" THEN None ELSE iterating
        /\ winner' = IF iterating = c /\ outcome = "token" THEN s ELSE winner

\* GetToken of source s ends for c with a token, with an error that says the source is
\* unavailable, or with another error.
Got(c, s, outcome) ==
    LET more == outcome = "unavailable" /\ iterating = c /\ After(s) # "no more"
    IN  /\ at' = [at EXCEPT ![c] = IF more THEN After(s) ELSE "idle"]
        /\ iterating' = IF iterating = c /\ ~more THEN None ELSE iterating
        /\ winner' = IF iterating = c /\ outcome = "token" THEN s ELSE winner

Unless(c, outcome) == IF ctx[c] = "live" THEN outcome ELSE "error"

AskWorkloadIdentity(c) ==
    /\ at[c] = "wi"
    /\ Got(c, "wi", Unless(c, IF env.wi = "up" THEN "token" ELSE "error"))
    /\ UNCHANGED <<core, timeoutOn, ctx, calls, timedOut, blind>>

AskCLI(c) ==
    /\ at[c] = "cli"
    /\ Got(c, "cli", Unless(c, IF env.cli = "up" THEN "token" ELSE "unavailable"))
    /\ UNCHANGED <<core, timeoutOn, ctx, calls, timedOut, blind>>

ContextEnds(c) ==
    /\ at[c] # "idle" /\ ctx[c] = "live"
    /\ \E how \in {"cancelled", "expired"} : ctx' = [ctx EXCEPT ![c] = how]
    /\ UNCHANGED <<core, timeoutOn, winner, iterating, at, calls, timedOut, blind>>

-----------------------------------------------------------------------------
(* imdsTimeoutWrapper.GetToken: the timeout is read when the call starts   *)
(* and dropped when it ends.                                               *)

StartManagedIdentity_NoTimeout(c) ==
    /\ at[c] = "mi"
    /\ at' = [at EXCEPT ![c] = "asking"]
    /\ UNCHANGED <<core, timeoutOn, winner, iterating, ctx, calls, timedOut, blind>>

StartManagedIdentity(c) ==
    /\ at[c] = "mi"
    /\ at' = [at EXCEPT ![c] = IF timeoutOn THEN "probing" ELSE "asking"]
    /\ UNCHANGED <<core, timeoutOn, winner, iterating, ctx, calls, timedOut, blind>>

DeadlineHit_DropsTimeout(c) ==
    /\ timedOut' = TRUE
    /\ timeoutOn' = FALSE
    /\ UNCHANGED blind
    /\ Got(c, "mi", "unavailable")

\* c.Err() is DeadlineExceeded, the probe's or the caller's: unavailable, whatever came back.
DeadlineHit(c) ==
    /\ timedOut' = TRUE
    /\ UNCHANGED <<timeoutOn, blind>>
    /\ Got(c, "mi", "unavailable")

Responded_KeepsTimeout(c, outcome, answered) ==
    /\ UNCHANGED <<timeoutOn, timedOut>>
    /\ blind' = (blind \/ ~answered)
    /\ Got(c, "mi", outcome)

\* Everything else counts as a response, a cancelled caller and a failed connection too.
Responded(c, outcome, answered) ==
    /\ timeoutOn' = FALSE
    /\ blind' = (blind \/ ~answered)
    /\ UNCHANGED timedOut
    /\ Got(c, "mi", outcome)

Answer ==
    CASE env.mi = "up" -> "token"
      [] env.mi = "failing" -> "error"
      [] OTHER -> "unavailable"

Ended(c) == UNCHANGED <<core, ctx, calls>>

ProbeAnswered(c) ==
    /\ at[c] = "probing" /\ ctx[c] = "live" /\ env.mi # "blackhole"
    /\ Responded(c, Answer, TRUE)
    /\ Ended(c)

\* The two seconds are over, or the caller's own deadline is.
ProbeTimesOut(c) ==
    /\ at[c] = "probing" /\ ctx[c] # "cancelled"
    /\ DeadlineHit(c)
    /\ Ended(c)

ProbeCancelled(c) ==
    /\ at[c] = "probing" /\ ctx[c] = "cancelled"
    /\ Responded(c, "error", FALSE)
    /\ Ended(c)

\* The address is unreachable instead of silent: an error, but not "unavailable".
ConnectionFails(c) ==
    /\ at[c] \in {"probing", "asking"} /\ ctx[c] = "live" /\ env.mi = "blackhole"
    /\ IF at[c] = "probing"
       THEN Responded(c, "error", FALSE)
       ELSE Got(c, "mi", "error") /\ UNCHANGED <<timeoutOn, timedOut, blind>>
    /\ Ended(c)

\* Without the timeout only the service or the caller's context ends the attempt.
AskManagedIdentity(c) ==
    /\ at[c] = "asking"
    /\ ctx[c] # "live" \/ env.mi # "blackhole"
    /\ Got(c, "mi", Unless(c, Answer))
    /\ UNCHANGED <<timeoutOn, timedOut, blind>>
    /\ Ended(c)

-----------------------------------------------------------------------------

GoOn(c) ==
    \/ StopWaiting(c) \/ AskWorkloadIdentity(c) \/ AskCLI(c)
    \/ StartManagedIdentity(c) \/ AskManagedIdentity(c)
    \/ ProbeAnswered(c) \/ ProbeTimesOut(c) \/ ProbeCancelled(c)

Next == Construct \/ \E c \in Callers : Call(c) \/ GoOn(c) \/ ContextEnds(c) \/ ConnectionFails(c)

\* A started call goes on: every source answers, fails or runs into a deadline, where one
\* is set. Nothing says that a context ends, or that an unreachable address refuses.
Spec == Init /\ [][Next]_vars /\ \A c \in Callers : WF_vars(GoOn(c))

-----------------------------------------------------------------------------
(* Properties.                                                             *)

\* The values the credential's state takes: at most one caller goes through the sources,
\* and only it, or a caller of the source that won, is at a source.
TypeOK ==
    /\ env \in Environments
    /\ timeoutOn \in BOOLEAN /\ timedOut \in BOOLEAN /\ blind \in BOOLEAN
    /\ winner \in Sources \cup {None}
    /\ iterating \in Callers \cup {None}
    /\ ctx \in [Callers -> {"live", "cancelled", "expired"}]
    /\ calls \in [Callers -> 0..MaxCalls]
    /\ at \in [Callers -> Sources \cup {"idle", "waiting", "probing", "asking"}]
    /\ \A c \in Callers : at[c] \notin {"idle", "waiting"} => c = iterating \/ winner # None
    /\ iterating # None => at[iterating] \notin {"idle", "waiting"}

CredentialFields ==
    {"AWSAccessKeyID", "ProfileName", "ConnectionString", "AccountKey", "SASToken",
     "ClientSecret", "AccessKey", "ServiceAccountFile", "ServiceAccountJSON", "URI",
     "AccessToken", "Password", "AuthToken", "AuthString", "Username"}

\* SMTP does not authenticate with a password alone.
Credential(kind, set) ==
    (CredentialFields \cap set) \ (IF kind.provider = "smtp" THEN {"Password"} ELSE {})

\* An explicit credential is never passed over: for every provider and every combination of
\* fields, a constructor that is given one uses one of those given, or refuses; and it says
\* to have an explicit one only when one was given. So no backend runs as the ambient
\* identity of its host in place of the one it was configured with (the routing switches).
CredentialAsConfigured ==
    [][config # Built =>
          LET given == Credential(config.kind, config.set)
          IN  \/ conn'.id = "error"
              \/ given = {} /\ conn'.uses = None
              \/ conn'.uses \in given]_vars

DefaultPlain ==
    {Kind("cache", "redis", "from_url"), Kind("cache", "redis", "from_credentials"),
     Kind("cache", "memorystore", "from_auth_string")}

\* A Redis connection is unencrypted only where the caller said so, or on the three methods
\* whose default is plain and where nothing but the ignored CACerts asks for TLS; a client
\* certificate and a server CA always come with TLS; the certificate is verified for the
\* host, save for a redis:// URL with CACerts (tlsOrDefault, buildTLSConfig).
TLSAsAsked ==
    [][config # Built /\ config.kind.package = "cache" /\ conn'.id # "error" =>
          LET set == config.set
          IN  /\ ~conn'.tls =>
                   \/ "TLS off" \in set
                   \/ config.kind \in DefaultPlain /\ set \cap {"TLS on", "rediss"} = {}
              /\ "TLS off" \in set => ~conn'.tls
              /\ conn'.id = "certificate" \/ config.kind.method = "from_server_ca_cert" => conn'.tls
              /\ conn'.tls => conn'.ca = ("CACerts" \in set)
              /\ conn'.tls /\ conn'.name # "host" =>
                   config.kind.method = "from_url" /\ "rediss" \notin set]_vars

\* What the options of a URI set a required one to, ssl standing for tls.
Values(required, options) ==
    LET names == {required.name} \cup (IF required.name = "tls" THEN {"ssl"} ELSE {})
    IN  {o.value : o \in {p \in options : p.name \in names}}

Required == Range(FirestoreRequired)

Dialled(uri) == uri.given \cup Range(uri.added)

\* Whatever options and values the caller's URI has, the one Firestore is dialled with sets
\* every mandatory option to the value Firestore wants, unless the caller set it to another:
\* "every path applies them" (firestore.go:24) is true of what the URI leaves open only, and
\* retryWrites=true or tls=false stays. Nothing is added that the caller gave, or twice; tls
\* and ssl meet only where the caller wrote both; and there is a way to authenticate
\* (firestoreURI, ensureFirestoreParams).
FirestoreURIComplete ==
    [][config # Built /\ config.kind.provider = "firestore" =>
          LET given == conn'.given
              added == conn'.added
              names == Names(Dialled(conn'))
          IN  /\ \A r \in Required :
                    Values(r, given) \subseteq {r.value} => Values(r, Dialled(conn')) = {r.value}
              /\ \A i \in DOMAIN added : added[i].name \notin Names(given)
              /\ \A i, j \in DOMAIN added : added[i].name = added[j].name => i = j
              /\ {"tls", "ssl"} \subseteq names => {"tls", "ssl"} \subseteq Names(given)
              /\ "authmechanism" \in names \/ "userinfo" \in config.set]_vars

\* imdsTimeoutWrapper.timeout has no lock: while a caller is in a first attempt, no other
\* reads it or writes it, and once the managed identity is what every caller uses at once,
\* nobody writes it any more. (This rests on the chain going through its sources one caller
\* at a time.)
TimeoutNotShared ==
    /\ \A c, d \in Callers :
          c # d /\ at[c] = "probing" => at[d] \notin {"mi", "probing", "asking"}
    /\ winner = "mi" => ~timeoutOn

\* Where IMDS has an identity to give, the Azure CLI becomes the identity of the process only after a first
\* attempt ran into a deadline: no other failure of the managed identity may lead past it.
CliOnlyAfterDeadline ==
    winner = "cli" /\ env.mi \in {"up", "failing"} => timedOut

\* Every call for a token returns, wherever the process runs, the contexts having a deadline
\* or not - as long as the timeout was not dropped without an answer of IMDS. Once a caller
\* cancelled during the first attempt, or the connection failed then, there is no timeout
\* left, and a silent address holds a call without a deadline for ever.
CallsReturn == \A c \in Callers : at[c] # "idle" ~> (at[c] = "idle" \/ blind)

-----------------------------------------------------------------------------
(* The inductive invariants behind TimeoutNotShared and                    *)
(* CliOnlyAfterDeadline.                                                   *)

AtSource(c) == at[c] \notin {"idle", "waiting"}

\* Until there is a winner one caller is at the sources, afterwards nobody goes through them.
OneIterates ==
    /\ iterating # None => winner = None
    /\ \A c \in Callers : AtSource(c) => c = iterating \/ winner # None

\* Who is in a first attempt goes through the sources; who is in an unbounded one
\* found the timeout dropped.
ProbeShape ==
    /\ \A c \in Callers : at[c] = "probing" => c = iterating
    /\ (\E c \in Callers : at[c] = "asking") => ~timeoutOn
    /\ winner = "mi" => ~timeoutOn
    /\ timeoutOn => config = Built

\* Nobody asks for a token before the constructor has run.
Unused == config # Built => conn.id # "chain" /\ winner = None /\ \A c \in Callers : at[c] = "idle"

\* A caller of the source that won is at that source.
AtWinner ==
    \A c \in Callers :
        AtSource(c) /\ winner # None /\ at[c] \in {"mi", "asking"} => winner = "mi"

\* The parts of TypeOK the proof needs, and what keeps the timeout one caller's.
TimeoutInv ==
    /\ TypeOK /\ OneIterates /\ ProbeShape /\ Unused /\ AtWinner

\* Where IMDS has an identity to give, nobody is at the Azure CLI, winner or not, before
\* a deadline was hit.
CliShape ==
    /\ env.mi \in {"up", "failing"}
    /\ winner = "cli" \/ \E c \in Callers : at[c] = "cli"
    => timedOut

DeadlineInv == TimeoutInv /\ CliShape
=============================================================================
