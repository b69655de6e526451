---------------------------- MODULE KeyedStores ----------------------------
(***************************************************************************)
(* The backends that keep one value per name in a service: the buckets of  *)
(* src/storage (S3, Azure Blob) and the secrets of src/secrets (AWS        *)
(* Secrets Manager, Azure Key Vault, the environment). One request to the  *)
(* service is atomic, a call of the library is not: Move is a copy and a   *)
(* delete, SetSecret of Secrets Manager a put and a create, a listing one  *)
(* request per page. Reads of one name are left out: they change nothing.  *)
(***************************************************************************)
EXTENDS Naturals, FiniteSets

CONSTANTS
    Clients,    \* goroutines, or processes, that use the store
    Names,      \* keys of objects, names of secrets; a listing asks for all of them
    Objects,    \* payloads
    Backends,   \* the backends Init chooses from
    None,
    Partial,    \* the empty blob at the target of a copy that has not succeeded
    Deleted,    \* a Key Vault secret in its retention period
    NoRequest

Storage == {"s3", "azureblob"}
Secrets == {"awssm", "keyvault", "env"}

ASSUME BackendsAssumption == Backends \subseteq Storage \cup Secrets
ASSUME ReservedAssumption ==
    /\ {None, Partial, Deleted} \cap Objects = {}
    /\ None # Partial /\ None # Deleted /\ Partial # Deleted
    /\ None \notin [src : Names, object : Objects]

VARIABLES
    backend,
    store,      \* what the service holds under each name
    copying,    \* Azure: the copy that is still filling a name, or None
    call,       \* the call each client is in, or NoRequest
    second,     \* the call's first request was answered and its second is due
    answer,     \* what each client's last update of a secret returned
    seen,       \* the progress of a listing, and what there was while it ran
    owed,       \* objects nobody has asked to remove, see NothingLost
    kept        \* name -> object an answered write left there, see AnsweredWriteStays

callVars == <<call, second>>
vars == <<backend, store, copying, callVars, answer, seen, owed, kept>>

Sets    == [op : {"set"}, name : Names, value : Objects]
Deletes == [op : {"delete"}, name : Names]
Copies  == [op : {"copy", "move"}, src : Names, dst : Names]
List    == [op |-> "list"]
Calls   == Sets \cup Deletes \cup {List} \cup (IF backend \in Storage THEN Copies ELSE {})

In(c, op) == call[c] # NoRequest /\ call[c].op = op

Touched(c) ==
    IF call[c] = NoRequest \/ In(c, "list") THEN {}
    ELSE IF call[c].op \in {"copy", "move"} THEN {call[c].src, call[c].dst}
    ELSE {call[c].name}

Present(st) == {n \in Names : st[n] \in Objects \cup {Partial}}

NothingSeen == [left |-> {}, got |-> {}, stay |-> {}, ever |-> {}]

-----------------------------------------------------------------------------
Init ==
    /\ backend \in Backends
    /\ store = [n \in Names |-> None]
    /\ copying = [n \in Names |-> None]
    /\ call = [c \in Clients |-> NoRequest]
    /\ second = [c \in Clients |-> FALSE]
    /\ answer = [c \in Clients |-> "none"]
    /\ seen = [c \in Clients |-> NothingSeen]
    /\ owed = {}
    /\ kept = [n \in Names |-> None]

\* Only what an update of a secret returns is kept, for SecretStore.
Answer(c, a) == answer' = [answer EXCEPT ![c] = IF backend \in Secrets THEN a ELSE @]

\* A client calls the library; what it touches may change from here on. One
\* listing at a time is enough (a bound): listings change nothing.
Call(c, q) ==
    /\ call[c] = NoRequest
    /\ q = List => \A d \in Clients : ~In(d, "list")
    /\ call' = [call EXCEPT ![c] = q]
    /\ IF q = List THEN UNCHANGED answer ELSE Answer(c, "none")
    /\ seen' = [seen EXCEPT ![c] =
                   IF q = List
                   THEN [left |-> Names, got |-> {},
                         stay |-> Present(store), ever |-> Present(store)]
                   ELSE NothingSeen]
    /\ kept' = [n \in Names |->
                   IF \/ q.op \in {"set", "delete"} /\ q.name = n
                      \/ q.op \in {"copy", "move"} /\ n \in {q.src, q.dst}
                   THEN None ELSE kept[n]]
    /\ UNCHANGED <<backend, store, copying, second, owed>>

\* The call returns and does nothing more.
Return(c) ==
    /\ call' = [call EXCEPT ![c] = NoRequest]
    /\ second' = [second EXCEPT ![c] = FALSE]

\* A call whose next request is refused, or is never sent, returns an error.
GiveUp(c) ==
    /\ call[c] # NoRequest
    /\ IF In(c, "list") THEN UNCHANGED answer ELSE Answer(c, "error")
    /\ Return(c)
    /\ seen' = [seen EXCEPT ![c] = NothingSeen]
    /\ UNCHANGED <<backend, store, copying, owed, kept>>

\* The last request was made, but its answer is lost: to a time limit, a cancelled
\* context, or since the client has died, which no one can tell from an error.
AnswerLost(c) == backend # "env" /\ Answer(c, "error")

\* The next request is the call's second one.
Continue(c) ==
    /\ second' = [second EXCEPT ![c] = TRUE]
    /\ UNCHANGED call

-----------------------------------------------------------------------------
(* Requests. Azure refuses to change a blob that is the target of a copy.  *)

Holds(st) ==
    /\ store' = st
    /\ seen' = [c \in Clients |->
                   IF In(c, "list")
                   THEN [seen[c] EXCEPT !.stay = @ \cap Present(st), !.ever = @ \cup Present(st)]
                   ELSE seen[c]]

\* Someone's Move has copied n and is about to delete it.
AboutToGo(n) == \E d \in Clients : In(d, "move") /\ second[d] /\ call[d].src = n

Write(n, o) ==
    /\ copying[n] = None
    /\ Holds([store EXCEPT ![n] = o])
    /\ owed' = ((owed \cup {o}) \cap Objects)
                  \ ((IF AboutToGo(n) THEN {o} ELSE {})
                     \cup (IF store[n] = o THEN {} ELSE {store[n]}))

Keep(c, n, o) ==
    kept' = IF \E d \in Clients \ {c} : n \in Touched(d)
            THEN kept
            ELSE [kept EXCEPT ![n] = o]

Answered(c, n, o) ==
    \/ Answer(c, "nil") /\ Keep(c, n, o)
    \/ AnswerLost(c) /\ UNCHANGED kept

Set(c) ==
    /\ In(c, "set")
    /\ Write(call[c].name, call[c].value)
    /\ Answered(c, call[c].name, call[c].value)
    /\ Return(c)
    /\ UNCHANGED <<backend, copying>>

\* Azure refuses to delete what is not there, the others answer that it is gone.
Delete(c, left) ==
    /\ In(c, "delete")
    /\ copying[call[c].name] = None
    /\ Holds([store EXCEPT ![call[c].name] = IF @ \in Objects \cup {Partial} THEN left ELSE @])
    /\ owed' = owed \ {store[call[c].name]}
    /\ \/ /\ backend \in {"azureblob", "keyvault"} => call[c].name \in Present(store)
          /\ Answer(c, "nil")
       \/ AnswerLost(c)
    /\ Return(c)
    /\ UNCHANGED <<backend, copying, kept>>

\* A page lists some of the names that were not reached yet, as they are now.
\* HasMorePages, More: until every name was reached.
AfterPage_First(left, page) == {}

AfterPage(left, page) == left \ page

Page(c, pages) ==
    /\ In(c, "list")
    /\ \E page \in pages :
          seen' = [seen EXCEPT ![c].got = @ \cup (page \cap Present(store)),
                               ![c].left = AfterPage(@, page)]
    /\ UNCHANGED <<backend, store, copying, callVars, answer, owed, kept>>

Source(c) == store[call[c].src]

\* The copy was made when its request is answered.
CopyNow(c) ==
    /\ ~second[c]
    /\ Source(c) \in Objects \cup {Partial}
    /\ copying[call[c].src] = None
    /\ Write(call[c].dst, Source(c))
    /\ UNCHANGED <<backend, copying>>

\* The delete of a Move: nobody has asked to remove what is there by now.
DeleteSource(c) ==
    /\ second[c]
    /\ copying[call[c].src] = None
    /\ Holds([store EXCEPT ![call[c].src] = None])
    /\ Answer(c, "nil") \/ AnswerLost(c)
    /\ Return(c)
    /\ UNCHANGED <<backend, copying, kept>>

Pages(c) == (SUBSET seen[c].left) \ {{}}

-----------------------------------------------------------------------------
(* src/storage/s3.go. UploadStream reads everything and calls Upload.      *)

S3Upload(c) == backend = "s3" /\ Set(c)

S3Delete(c) == backend = "s3" /\ Delete(c, None)

\* S3 refuses to copy an object onto itself when nothing else changes.
S3Copy(c) ==
    /\ backend = "s3"
    /\ In(c, "copy")
    /\ call[c].src # call[c].dst
    /\ CopyNow(c)
    /\ Answered(c, call[c].dst, Source(c))
    /\ Return(c)

S3Move_AnyCopy(c) ==
    /\ backend = "s3"
    /\ In(c, "move")
    /\ \/ ~second[c] /\ Continue(c) /\ UNCHANGED <<backend, store, copying, answer, seen, owed, kept>>
       \/ DeleteSource(c) /\ UNCHANGED owed

S3Move(c) ==
    /\ backend = "s3"
    /\ In(c, "move")
    /\ \/ /\ call[c].src # call[c].dst
          /\ CopyNow(c)
          /\ Continue(c)
          /\ UNCHANGED <<answer, kept>>
       \/ DeleteSource(c) /\ UNCHANGED owed

S3ListIter(c) == backend = "s3" /\ Page(c, Pages(c))

-----------------------------------------------------------------------------
(* src/storage/azureblob.go. StartCopyFromURL may return with the copy     *)
(* pending; Copy and Move take it for done. A blob may be copied to itself.*)

AzureUpload(c) == backend = "azureblob" /\ Set(c)

AzureDelete(c) == backend = "azureblob" /\ Delete(c, None)

CopyLater(c) ==
    /\ ~second[c]
    /\ call[c].src # call[c].dst
    /\ Source(c) \in Objects
    /\ copying[call[c].src] = None
    /\ Write(call[c].dst, Partial)
    /\ copying' = [copying EXCEPT ![call[c].dst] = [src |-> call[c].src, object |-> Source(c)]]
    /\ UNCHANGED <<backend, kept>>

AzureCopy(c) ==
    /\ backend = "azureblob"
    /\ In(c, "copy")
    /\ \/ CopyNow(c) /\ Answered(c, call[c].dst, Source(c))
       \/ CopyLater(c) /\ (Answer(c, "nil") \/ AnswerLost(c))
    /\ Return(c)

\* A Move to itself, and a Move whose copy is still pending, delete the only copy.
AzureMove(c) ==
    /\ backend = "azureblob"
    /\ In(c, "move")
    /\ \/ /\ (CopyNow(c) /\ UNCHANGED kept) \/ CopyLater(c)
          /\ Continue(c)
          /\ UNCHANGED answer
       \/ /\ DeleteSource(c)
          /\ owed' = IF call[c].src = call[c].dst \/ copying[call[c].dst] # None
                     THEN owed \ {Source(c)} ELSE owed

AzureListIter(c) == backend = "azureblob" /\ Page(c, Pages(c))

\* The service finishes a copy, if its source is still what it was.
CopyCompletes(n) ==
    /\ copying[n] # None
    /\ LET k == copying[n] IN
       /\ Holds([store EXCEPT ![n] = IF store[k.src] = k.object THEN k.object ELSE Partial])
       /\ owed' = IF AboutToGo(n) THEN owed \ {k.object} ELSE owed
    /\ copying' = [copying EXCEPT ![n] = None]
    /\ UNCHANGED <<backend, callVars, answer, kept>>

-----------------------------------------------------------------------------
(* src/secrets/awssecretsmanager.go                                        *)

\* Put; not found: create, which another first writer may have done by then.
SMSetSecret_NotFoundIsDone(c) ==
    /\ backend = "awssm"
    /\ \/ ~second[c] /\ Set(c)
       \/ /\ In(c, "set") /\ store[call[c].name] = None
          /\ Answered(c, call[c].name, call[c].value)
          /\ Return(c)
          /\ UNCHANGED <<backend, store, copying, seen, owed>>

SMSetSecret_Recreates(c) ==
    /\ backend = "awssm"
    /\ In(c, "set")
    /\ \/ /\ ~second[c]
          /\ Holds([store EXCEPT ![call[c].name] = None])
          /\ Continue(c)
          /\ UNCHANGED <<backend, copying, answer, owed, kept>>
       \/ second[c] /\ Set(c)

SMSetSecret(c) ==
    /\ backend = "awssm"
    /\ In(c, "set")
    /\ \/ ~second[c] /\ store[call[c].name] # None /\ Set(c)
       \/ /\ ~second[c] /\ store[call[c].name] = None
          /\ Continue(c)
          /\ UNCHANGED <<backend, store, copying, answer, seen, owed, kept>>
       \/ second[c] /\ store[call[c].name] = None /\ Set(c)

SMDeleteSecret_Recoverable(c) == backend = "awssm" /\ Delete(c, Deleted)

\* ForceDeleteWithoutRecovery: no retention period.
SMDeleteSecret(c) == backend = "awssm" /\ Delete(c, None)

SMListSecrets(c) == backend = "awssm" /\ Page(c, Pages(c))

-----------------------------------------------------------------------------
(* src/secrets/azurekeyvault.go. DeleteSecret is a soft delete: the vault  *)
(* keeps the name, and refuses to set it, until the retention period ends. *)

KVSetSecret(c) ==
    /\ backend = "keyvault"
    /\ In(c, "set")
    /\ store[call[c].name] # Deleted
    /\ Set(c)

KVDeleteSecret(c) == backend = "keyvault" /\ Delete(c, Deleted)

KVListSecrets(c) == backend = "keyvault" /\ Page(c, Pages(c))

RetentionEnds(n) ==
    /\ store[n] = Deleted
    /\ Holds([store EXCEPT ![n] = None])
    /\ UNCHANGED <<backend, copying, callVars, answer, owed, kept>>

-----------------------------------------------------------------------------
(* src/secrets/local.go, EnvSecretBackend. os.Environ copies every variable*)
(* at once.                                                                *)

EnvSetSecret(c) == backend = "env" /\ Set(c)

EnvDeleteSecret(c) == backend = "env" /\ Delete(c, None)

EnvListSecrets(c) == backend = "env" /\ Page(c, {seen[c].left} \ {{}})

-----------------------------------------------------------------------------
Next ==
    \/ \E c \in Clients :
          \/ \E q \in Calls : Call(c, q)
          \/ GiveUp(c)
          \/ S3Upload(c) \/ S3Delete(c) \/ S3Copy(c) \/ S3Move(c) \/ S3ListIter(c)
          \/ AzureUpload(c) \/ AzureDelete(c) \/ AzureCopy(c) \/ AzureMove(c)
          \/ AzureListIter(c)
          \/ SMSetSecret(c) \/ SMDeleteSecret(c) \/ SMListSecrets(c)
          \/ KVSetSecret(c) \/ KVDeleteSecret(c) \/ KVListSecrets(c)
          \/ EnvSetSecret(c) \/ EnvDeleteSecret(c) \/ EnvListSecrets(c)
    \/ \E n \in Names : CopyCompletes(n) \/ RetentionEnds(n)

Spec == Init /\ [][Next]_vars
-----------------------------------------------------------------------------
\* Every variable has its type, and only Key Vault retains what was deleted.
TypeOK ==
    /\ backend \in Backends
    /\ store \in [Names -> Objects \cup {None, Partial, Deleted}]
    /\ \A n \in Names : store[n] = Deleted => backend = "keyvault"
    /\ copying \in [Names -> [src : Names, object : Objects] \cup {None}]
    /\ call \in [Clients -> Calls \cup {NoRequest}]
    /\ second \in [Clients -> BOOLEAN]
    /\ answer \in [Clients -> {"none", "nil", "error"}]
    /\ seen \in [Clients -> [left : SUBSET Names, got : SUBSET Names,
                             stay : SUBSET Names, ever : SUBSET Names]]
    /\ owed \subseteq Objects
    /\ kept \in [Names -> Objects \cup {None, Partial}]

\* However uploads, copies, moves and failures interleave, an object is in the
\* store until a caller overwrites or deletes it, but for three cases of Move
\* (s3.go:188-196, azureblob.go:210-218): it was written to the source of a Move
\* between its copy and its delete, its copy was pending when the source was
\* deleted, or it was moved to its own key on Azure.
NothingLost == \A o \in owed : \E n \in Names : store[n] = o

\* A listing that returns no error names everything that was there from its first
\* page to its last, and nothing that was never there, over any pages and any
\* changes between them (s3.go:145-164 and its three siblings).
ListSeesWhatStays ==
    \A c \in Clients :
        In(c, "list") /\ seen[c].left = {} =>
            seen[c].stay \subseteq seen[c].got /\ seen[c].got \subseteq seen[c].ever

\* What a Set, an Upload or a Copy that returned nil has written is there until
\* another call names it; a Copy of Azure only when it was not left pending.
AnsweredWriteStays == \A n \in Names : kept[n] # None => store[n] = kept[n]

\* The secrets a service holds, and the updates callers wait for; none on the storage backends.
SecretsHeld ==
    IF backend \in Secrets
    THEN [n \in {m \in Names : store[m] \in Objects} |-> store[n]]
    ELSE [n \in {} |-> None]

UpdatesAsked ==
    [c \in Clients |->
        IF backend \in Secrets /\ ~In(c, "list") THEN call[c] ELSE NoRequest]

SecretStore ==
    INSTANCE SecretStore WITH
        Values <- Objects,
        AnswersMayBeLost <- TRUE,
        secrets <- SecretsHeld,
        request <- UpdatesAsked,
        applied <- [c \in Clients |-> FALSE]

\* The remote secret stores and the environment keep the promise of secrets.Backend:
\* a SetSecret, in one request or two, and a DeleteSecret that return nil have taken
\* effect, whole and at one moment, and one that returns an error has done nothing,
\* or the same where its answer was lost (awssecretsmanager.go:74-108,
\* azurekeyvault.go:70-82, local.go:46-58).
ImplementsSecretStore == SecretStore!Spec
-----------------------------------------------------------------------------
(* The inductive invariant behind them.                                    *)

\* No second request is due for a client that is in no call, and S3 moves nothing to itself.
Due ==
    \A c \in Clients : second[c] =>
        /\ call[c] # NoRequest
        /\ backend = "s3" /\ In(c, "move") => call[c].src # call[c].dst

\* Only Azure copies later, and nothing but the copy changes the blob it fills.
Filling ==
    \A n \in Names : copying[n] # None => store[n] = Partial /\ backend = "azureblob"

\* A name whose last write was answered is named by no call and filled by no copy.
KeptUntouched ==
    \A n \in Names : kept[n] # None =>
        store[n] = kept[n] /\ copying[n] = None /\ \A c \in Clients : n \notin Touched(c)

\* A listing has got what stayed, as far as it has come.
Listing ==
    \A c \in Clients : In(c, "list") =>
        /\ seen[c].stay \ seen[c].left \subseteq seen[c].got
        /\ seen[c].got \subseteq seen[c].ever
        /\ seen[c].stay \subseteq Present(store)
        /\ Present(store) \subseteq seen[c].ever

\* d will delete n and take for granted that its copy is elsewhere. Not so when it moves
\* n to itself, or when the service is still copying what n holds: owed gives that up.
Dooms(d, n) ==
    /\ In(d, "move") /\ second[d] /\ call[d].src = n
    /\ call[d].dst # n
    /\ copying[call[d].dst] = None \/ copying[call[d].dst] # [src |-> n, object |-> store[n]]

Safe(n) == \A d \in Clients : ~Dooms(d, n)

\* An object that is owed is under a name that no Move is about to delete.
OwedSafe == \A o \in owed : \E n \in Names : store[n] = o /\ Safe(n)

Inv ==
    /\ TypeOK
    /\ Due
    /\ Filling
    /\ KeptUntouched
    /\ Listing
    /\ OwedSafe
=============================================================================
