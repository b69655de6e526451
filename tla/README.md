# A verification project for cloudrift-go

cloudrift-go puts one Go interface over several cloud services: messaging, secrets,
storage, email, pubsub, cache and document databases. Each package has a `Backend`
interface, a `Config`, a `New` that routes to a provider, and one file per provider.
Callers are told to construct a backend once and share it between goroutines
(`src/README.md`, "Connection pooling & lifecycle"), so every backend with state of its
own is a concurrent program.

This directory holds TLA+ modules of the parts with state and control of their own, the
TLC configurations that check them, and TLAPS proofs. Every definition translates the
code under `src/`; `PROJECT.json` maps each to its lines.

## Inventory

| component | state it keeps | operations | what is hard | here |
|---|---|---|---|---|
| messaging, Azure Service Bus (`azurebus.go`) | `pending` (lock token to receiver and message), `receiverTokens` (receiver to open tokens), both under `mu`; one AMQP client | Send, SendBatch, Receive, Delete, DeadLetter, Purge, Close | `settle` leaves the mutex around the SDK call; receivers must be closed once, and neither too early nor never; locks expire; answers get lost | modelled, checked, proved |
| messaging, AWS SQS (`sqs.go`) | `pending` (receipt handle to body), `dlqURL`, under `mu` | the same; DeadLetter is emulated: find the DLQ, send, delete | partial failure between the calls, retries, partial batches, redelivery | modelled, checked, proved |
| messaging, Google Pub/Sub (`gcppubsub.go`) | `pending` (ack ID to body) under `mu`; two gRPC clients | the same; Purge is a Seek and then clears `pending` | the same, and the gap between Seek and clear | modelled, checked, proved |
| messaging factory (`messaging.go`) | none | New, SendJSON, newID | | the interface is the contract, New is modelled |
| secrets, JSON file (`local.go`) | the file | GetSecret, SetSecret, DeleteSecret, ListSecrets | crashes and write errors in the middle of a save; several writers and one temporary name | modelled, checked, proved |
| secrets, environment and mapping (`local.go`) | the process environment; a Go map without a mutex | the same | data race on the map | environment modelled, checked, proved; mapping not |
| secrets, AWS and Azure | none (clients) | the same; AWS SetSecret is put, then create; Azure deletes softly | two first writers; names in their retention period | modelled, checked, proved |
| storage (S3, Azure Blob) | none (clients) | Upload, Delete, Copy, Move, ListIter; reads | Move is copy then delete; the Azure copy is asynchronous; listings are paged | modelled, checked, proved |
| email (SMTP, SES, ACS) | none (clients) | Send, SendBatch | failure after acceptance; loop over a batch; headers and parts of the message | modelled, checked, proved |
| pubsub (SNS, Event Grid) | none (clients) | Publish, PublishBatch | chunks and entries that fail one by one | modelled, checked, proved |
| cache (Redis family) | pool | constructors; Redis commands | encryption and certificate host of every constructor | constructors modelled, checked; commands not |
| core (`azurecred.go`) | the probe timeout of a shared credential | GetToken | unsynchronised read and write; whose deadline ran out; cancelled callers | modelled, checked, proved but for liveness |
| document (`document.go` and providers) | none (client) | constructors | mandatory options of the Firestore URI and their values | the URI modelled, checked |
| core errors | none | | | not modelled: constants |

The components do not call each other, except that Azure providers share the credential of
`core`. Inside a component, goroutines interact through the maps under `mu`, through the
receivers and clients of the SDK, and through the service on the other side.

What makes each correct:

- messaging: no message is lost, that is, one leaves the queue only because the application
  asked (Delete, Purge) or because it is in the dead-letter queue, and only what the
  application condemned gets there. For Service Bus also: one settle per handle, the two maps
  agree, no receiver leaks, none is closed under a message in flight, and a receiver without
  messages is closed in the end. For SQS and Pub/Sub: a handle that was not settled stays
  dead-letterable, in particular after a DeadLetter that failed halfway.
- object and secret stores: what a caller wrote stays until a caller asks otherwise; a listing
  that returns no error names all that was there throughout; a secret changes whole, once.
- email and pubsub: nil means that all was accepted; an error says where the batch stopped; mail
  goes to all its recipients or to none; a MIME message has each part and managed header once.
- constructors and the Azure chain: an explicit credential is never passed over for an ambient one,
  a connection is encrypted where asked, calls for a token return, and a timeout field without
  a lock is one goroutine's at a time.
- secrets: a call that returns nil has made its change, once and whole, to the secrets there
  were; one that returns an error has changed nothing, or the same where an answer of a service
  was lost; what a call that dies has changed stays. The file is a whole JSON object at all times.

`PROJECT.json` lists the hazards at their lines, the ones without a property included.

## Modules

| module | what it is |
|---|---|
| `QueueContract` | abstract: what `messaging.Backend` promises about the fate of a message |
| `ServiceBus` | `azurebus.go`, implements `QueueContract` |
| `LeaseQueue` | external: a queue that leases messages, shared by the next two |
| `SqsQueue`, `PubSubQueue` | `sqs.go` and `gcppubsub.go` composed with `LeaseQueue`, implement `QueueContract` |
| `SecretStore` | abstract: what SetSecret and DeleteSecret of `secrets.Backend` promise, told by what they return |
| `FileSecrets` | `local.go`'s file backend at the level of system calls, implements `SecretStore` |
| `KeyedStores` | `s3.go`, `azureblob.go`, `awssecretsmanager.go`, `azurekeyvault.go` and the environment backend of `local.go`: one value per name in a service; the secret ones implement `SecretStore` |
| `Mime` | `mime.go`: headers and parts of a message, as operators |
| `BatchSend` | the backends of `email` and `pubsub`, uses `Mime` |
| `Connections` | every constructor of every package, as operators from the fields given to the connection made |
| `Credentials` | a constructor, then the Azure chain of `azurecred.go` that some of them build |
| `MC*` | the instances TLC checks, with their symmetry |
| `QueueContractProofs`, `ServiceBusProofs`, `SqsQueueProofs`, `PubSubQueueProofs`, `FileSecretsProofs`, `KeyedStoresProofs`, `BatchSendProofs`, `CredentialsProofs` | theorems, one module for each of the above |

Every module with theorems about it ends with its inductive invariant, in named parts: `Inv`, `FileInv`,
or `TimeoutInv` and `DeadlineInv`.

A definition with an underscore in its name, such as `S3Move_AnyCopy`, is the definition before the
underscore with a plausible bug. It is used by no specification: `PROJECT.json` names it as the mutant
of a property, which fails when it is put in place of the original.

### How they correspond to the code

**Concurrency.** A goroutine is a member of `Callers` (`Writers` for the file) and runs one call
at a time; `pc[c]` says where it is. A critical section of `mu` is one action, a call to the SDK
or the service is one action, and everything between two of them is local and joins one of
its neighbours. `Step(c)` is what a started call does next, `Call(c)` what an idle goroutine may
begin. `Restart` (`Crash` for the file) ends the process at any point: the maps are memory and
start empty, the service keeps its messages.

**ServiceBus.** `pending` and `receiverTokens` are the code's maps. A lock token is a pair of
message and delivery number, since a lock belongs to one delivery. `settle` is four
actions: `Delete`/`DeadLetter` (first critical section), `SettleApplied` or `SettleRejected` (the SDK
call), `Release` (second critical section), `CloseReceiver` (the deferred Close). `SettleRejected` may
follow a settle that could have worked (no connection), and after `SettleApplied` the code
goes on the same way whether the answer arrives or not. A Receive or settle that returns an
error before it changed anything has no action. A receiver is a member of `Receivers`, "new" until
a Receive or Purge opens it.

**SqsQueue, PubSubQueue.** `LeaseQueue` gives every delivery a handle of its own. `AckEffect` is the
service's answer to a delete or ack: with a current handle success means the message is gone;
with an expired one success means nothing, and an error may hide an effect. The local variables
of a call are `tok` and `body`. The DLQ is the set `dead` of messages with at least one copy there,
because the code makes no attempt at a single copy. `returned` and `owed` are history: the handles
the application was given, and those among them it has not settled.

**FileSecrets.** `os.WriteFile` is an open that creates or truncates `path+".tmp"` (`OpenTemp`) and a
write into the inode that was opened (`WriteTemp`, or `WritePart` when it fails or dies half way),
`os.Rename` moves whatever file has the temporary name by then. `content[i]` tells a whole object
from bytes that are none, and keeps the length, since a short write over a longer text leaves its
tail. `Update` is the load of a call and its change, or the load's error; `ReturnNil` and `ReturnError`
are steps of their own, so a crash may fall between the rename and the return. `answer` is history: what each
writer's last call returned.

**SecretStore.** `TakeEffect` is the moment a call's update is made, `Succeed` and `Fail` what it returns:
nil only when the update is made by then, an error only when it is not, unless `AnswersMayBeLost`, in which case
an error may hide it. `Crash` keeps what was made. `FileSecrets` implements it with `AnswersMayBeLost` false:
its errors are the truth, because the rename is the last thing that can fail. `KeyedStores` implements it with true;
for a goroutine there, being cancelled, a time limit and dying look alike, so its calls end by an answer
(`Answer`), which may be lost (`AnswerLost`), or by `GiveUp`. The environment's answers are not lost.

**KeyedStores.** `Call` begins a call, each request to the service is one action, and `GiveUp` is any
way for a call to end before its next request: an error, a cancelled context, a crash. A
request is applied before its call returns or not at all, and what it answered may be lost. `answer`
is kept for the secret backends only. `second` says that Move has copied, or
that SetSecret of Secrets Manager has been told "not found". `CopyCompletes` is Azure's, after
`StartCopyFromURL` has returned; `RetentionEnds` is Key Vault's. UploadStream is an Upload (S3 reads
the stream first, Azure commits its blocks at the end). `owed` and `kept` are history.

**BatchSend.** `pos` is the loop variable of `sendBatchLoop`, or the start of a chunk. The
dialogue of `smtp.go` is one action per command, `step` and `envelope` its progress. The AWS and Azure SDKs
send a request again when its answer is lost (`Resend`); ACS and SMTP do not. `Again` is the
caller, who was given no ids and has only the whole batch to send. An EmailMessage is the set of
fields it has.

**Mime.** A key of the caller's `Headers` is the header it names and a spelling: as
`CanonicalMIMEHeaderKey` returns it, in another case, or with a blank, in which case that function leaves it
as it is. The cases of the switch in `buildMIME` are a set of keys, and the caller's lines are those whose canonical
key is in none. The backend's own lines are a sequence, in the order they are written. A reader of the mail (`ReadAs`) compares
names, not spellings, and takes a key with a blank for no header.

**Connections, Credentials.** A configuration is the set of fields that are given; a connection is
which credential it uses, whether it is encrypted, which host the certificate is verified for and, for
a document database, the options the caller's URI has and those added to it, each a name and a value: a
caller's may repeat or contradict one another. `New` picks the constructor. When the connection is the chain, `Construct` picks the
environment, and callers ask for tokens. `ChainedTokenCredential` is external: one caller at a time
iterates (`iterating`), the others wait, the first source to answer is kept (`winner`).
The attempt of `imdsTimeoutWrapper` is split at its call to the inner credential: `timeoutOn` is read
by `StartManagedIdentity` and dropped when the call ends.

## What TLC checks

| run | instance | shows |
|---|---|---|
| `sb_safety` | 2 callers, 2 messages, 2 deliveries of each, 3 receivers, batches of 2 | `TypeOK`, `MapsAgree`, `OneSettlerPerToken`, `ReceiverOutlivesTokens`, `NoReceiverLeak`, the inductive invariant `Inv`, and that every behaviour is one of `QueueContract` |
| `sb_live` | 2 callers, 2 messages, 1 delivery, 2 receivers, no symmetry | `DrainedReceiverCloses` |
| `sqs` | 2 callers, 2 messages, 2 deliveries of each and 3 in all, DLQ found in the policy | `TypeOK`, `AcknowledgedNotLost`, `RetainedUntilSettled`, `ImplementsContract` |
| `pubsub` | the same bounds, topic, subscription and dead-letter topic configured | `TypeOK`, `AcknowledgedNotLost`, `ForgottenOnlyByPurgeOrClose`, `ImplementsContract` |
| `file_single` | 1 writer, 3 names, 2 values | `TypeOK`, `LiveFileWhole`, the inductive invariant `FileInv`, `ImplementsStore` |
| `keyed` | the 5 backends, 2 clients, 3 names, 2 objects | `TypeOK`, `NothingLost`, `ListSeesWhatStays`, `AnsweredWriteStays`, and that every behaviour of a secret backend is one of `SecretStore` (`ImplementsSecretStore`) |
| `sending` | the 5 backends, every mail shape, batches of up to 3 mails or 5 events, chunks of 2, 2 calls, 1 lost answer | `TypeOK`, `NilMeansSent`, `OncePerCall`, `StopsAtFailure`, `AllRecipientsOrNone`, `RawErrorMeansSent`, `MailBodyWhole`, `MailHeadersOnce` |
| `credentials` | every constructor on every combination of its fields, and every set of options of a Firestore URI; the chain with 2 callers, 2 calls each, in every environment | `TypeOK`, `TimeoutNotShared`, `CliOnlyAfterDeadline`, `CredentialAsConfigured`, `TLSAsAsked`, `FirestoreURIComplete`, `CallsReturn` |
| `sb_receiver`, `sb_purge`, `pubsub_purge`, `file_shared` | as above; 2 writers | each finds a disagreement with a comment of the source, see below |

Why the bounds are enough: two goroutines are needed for a race and the maps give a third
nothing new to race for; two messages make a receiver with a sibling token; two deliveries make
a stale token next to a current one; three receivers allow two Receives and a Purge, or a Receive
on each side of a Close. In the file store a second name is what a lost update or a shorter
object needs. TLC has not to be trusted beyond these bounds for what the next section proves.
In `keyed` three names
are a Move chain (a to b to c), two clients are what overtakes a Move between its two requests, and
one listing at a time is enough because listings change nothing. In `sending` three
messages in chunks of two give a full chunk, a short one and a boundary; the second call is the retry.
In `credentials` the second caller is the one that waits, and the second call of each is made with the winner or
the error of the first; the chain has three sources, all of them there.
`MaxDeliveries`, `MaxInAll`, `MaxCalls`, `MaxLost`, `Receivers` and `Inodes` are bounds of the model; `MaxMessages` and
`BatchLimit` are parameters of the code. `BatchLimit` is 10 in SQS and 2 here,
and so is `snsBatchLimit`. Deadlock is checked except in `sending` and `credentials`, whose callers
make a bounded number of calls and then stop.

**Fairness.** `FairSpec` of `ServiceBus` assumes weak fairness of `Step(c)` for every caller: a
call that was begun goes on, because SDK calls return when the service answers or the context
ends and the mutex is never held across one. It does not assume that anybody begins a call, so
`DrainedReceiverCloses` holds though nobody need ever settle a message. A Receive with
`waitTime` 0 and a context without a deadline need not return; the assumption excludes it.
`Spec` of `Credentials` assumes weak fairness of `GoOn(c)` for every caller: a wait ends when the iteration
does, a source that answers answers, and a deadline that is set fires. It says nothing of
contexts, which need not have a deadline, nor of an unreachable address, which need not refuse. `blind` marks
the one way in which a call can then be left hanging, described below.

**Findings.**

1. `sb_receiver`: a Delete or DeadLetter that fails still gives up the handle and, if it was the
   last one, closes the receiver (`azurebus.go:231-240`), against the comment at lines 22-23. The
   message is delivered again when its lock expires, but the application cannot retry.
2. `sb_purge`: Purge returns nil while messages locked by other receivers remain
   (`azurebus.go:300-302`), against `messaging.go:73`. The run counts only messages that were in the
   queue when the Purge began, and only states in which nothing is left that the Purge
   could have been given.
3. `pubsub_purge`: `clear(pending)` comes after the Seek (`gcppubsub.go:292-300`) and drops the entry of a
   message published and received in between, against lines 43-45.
4. `file_shared`: two writers share one temporary name (`local.go:178`), so a Rename can make live a
   file another goroutine has just truncated, against lines 137-138 and 172. When that
   goroutine then fails or dies, no SetSecret can repair the store, since each begins with a load.

**What the properties had to leave room for.** These are not disagreements with a comment or test, but
behaviour of the code a caller should know of; each is an exception a property names or
a case it excludes.

- `NothingLost`: a Move deletes what was uploaded to its source between its copy and its delete
  (`s3.go:188-196`); two opposite Moves can lose the object; Azure's Move deletes the source while its copy is
  pending (`azureblob.go:210-218`), and an object moved to its own key.
- `ImplementsSecretStore`: an error may hide an update whose answer was lost, so a caller cannot tell; after a Key Vault DeleteSecret, SetSecret of that name fails until the retention
  period ends; of two first writers in Secrets Manager one fails at the create.
- `RawErrorMeansSent`: an error of QUIT is returned after the message was accepted (`smtp.go:137`), so a
  retry doubles it. `StopsAtFailure`: a batch that fails returns no ids (`email.go:146`, `sns.go:96`), so a retry
  sends its beginning again, and a message that is always refused holds up those behind it.
- `MailHeadersOnce`: a caller's own Message-Id is dropped, and its own "Bcc" header goes out. A key with a blank
  before its colon (`Subject `) is not canonicalised (`mime.go:44`) and goes out beside the backend's own; the property takes
  it for no header, and a reader that accepts the obsolete blank sees two. A key with a line break, which goes out as several
  lines, is left out of the model.
- `FirestoreURIComplete`: a caller's URI that sets `retryWrites=true` or `tls=false` counts as complete and is dialled as it
  is, because `firestore.go:84-95` looks at names only; so the "every path applies them" of lines 23-24 holds of what a URI leaves
  open, not of what it contradicts. A URI with both tls and ssl, which the driver rejects, is passed through.
- `CallsReturn`: a caller cancelled during the first attempt, or a connection that fails then, counts as a response and
  drops the timeout (`azurecred.go:84`); a silent address then holds every call whose context has no deadline.
- `CliOnlyAfterDeadline`: a first answer of IMDS slower than the timeout makes the CLI the identity for good.
- `CredentialAsConfigured`: a field that is no credential by itself is ignored, so an AWSSecretAccessKey without its
  key ID, or a TenantID without a secret, runs as the ambient identity; an SMTP password without
  a user name is not used. ACS takes the plain managed identity, not the chain (`azureacs.go`).
- `TLSAsAsked`: CACerts does not switch TLS on, and with a `redis://` URL it verifies the certificate for host and port
  (`standalone.go:32-43`).

## What is proved

Each theorem holds for every value of the constants its module declares: any number of goroutines, messages,
deliveries, names, objects, batches and calls. The assumptions are named in those modules and TLC
evaluates them in every run:

- bounds and limits are positive (`BoundsAssumption`, `DeliveriesAssumption`, `LimitsAssumption`,
  `LimitAssumption`, `CredentialsAssumption`), options are set or not (`ConfigAssumption`);
- the values that stand for "no file", "no caller", "a partial copy" are not files, callers or objects
  (`ReservedAssumption`, `CallersAssumption`), and the file store has finitely many names (`NamesAssumption`);
- a batch is a sequence with an entry in it, and a mail has the fields of an EmailMessage
  (`BatchesAssumption`, `MailsAssumption`); `BackendsAssumption` says which backends there are.

| module | theorems |
|---|---|
| `QueueContractProofs` | `ContractKeepsMessages`: whatever implements the contract loses nothing |
| `ServiceBusProofs` | `InvHolds`; from it `TypeCorrect`, `MapsAlwaysAgree`, `OneSettler`, `ReceiversOutliveTokens`, `NoReceiverLeaks`, `Implementation` (`ImplementsContract`), `NoMessageLost` |
| `SqsQueueProofs` | `InvHolds`; from it `TypeCorrect`, `AcknowledgedNeverLost`, `HandlesRetained` (`RetainedUntilSettled`), `Implementation` (`ImplementsContract`) |
| `PubSubQueueProofs` | `InvHolds`; from it `TypeCorrect`, `AcknowledgedNeverLost`, `ForgottenOnlyOnRequest` (an action property), `Implementation` (`ImplementsContract`) |
| `FileSecretsProofs` | under the hypothesis `OneWriter` that each states: `FileInvHolds`, `FileTypeCorrect`, `LiveFileAlwaysWhole`, `StoreImplemented` |
| `KeyedStoresProofs` | `InvHolds`; from it `TypeCorrect`, `ObjectsNotLost` (`NothingLost`), `ListingComplete` (`ListSeesWhatStays`), `AnsweredWriteKept`, `Implementation` (`ImplementsSecretStore`) |
| `BatchSendProofs` | `InvHolds`; from it `TypeCorrect`, `NilIsDelivered`, `DuplicatesAreLostAnswers` (`OncePerCall`), `FailureStopsTheBatch`, `RecipientsTogether`, `RawErrorIsLate`, `BodyIsWhole`, `HeadersOnceEach` |
| `CredentialsProofs` | `CredentialsTypeCorrect`, `TimeoutNeverShared`, `CliOnlyAfterADeadline` |

The runs `sb_safety` and `file_single` check their inductive invariant. For the other modules it was checked
the same way before it was proved: add `Inv` to the `INVARIANTS` of `MCSqsQueue.cfg`,
`MCPubSubQueue_safety.cfg`, `MCKeyedStores.cfg` or `MCBatchSend.cfg`.

**The argument for Service Bus.** `MapsAgree` is not inductive: whether `Release` leaves the right
set depends on no other settle holding the same token (`TokensOnce`), on new lock tokens being new
(`TokensIssued`), and on what a call holds at each `pc` (`CallShape`). That a receiver is open as long
as it is tracked (`ReceiverOwners`) needs in turn that only its opener or nobody can close it, and that a
settle's receiver is tracked unless Close took it (`SettleTracked`). `CallsAsked` ties what a call does
to a message to what the application asked, which is what refinement needs. `Inv` is their
conjunction with `TypeOK` and `NoReceiverLeak`. One lemma per action shows that it keeps the
structural part, `TypeStep` and `AskedStep` the rest, `StructureStep` collects them.

**The argument for SQS and Pub/Sub.** A message that left the queue is accounted for (`Accounted`), and a call
that is about to delete one holds a handle whose message was discarded, or is in the DLQ already (`CallShape`: at
`remove` and `ackDead` the body is in `dead`). That a settled handle is not owed again needs that a
delivery's handle is new: `HandlesIssued` bounds those in use by the number of deliveries, and `ReceivedOnce`
says that between the answer of the service and the critical section that registers it, a handle is in one Receive only.
For the contract, `LeasePurge` and the expiry of leases move only what the contract lets
move; the service's steps are one lemma (`LeaseSteps`), the backend's one per action.

**The argument for the keyed stores.** `NothingLost` is not inductive: the object could be under a name that a Move is
about to delete. `OwedSafe` says that every owed object is under some name that no Move `Dooms`: a Move comes
to its delete by a copy that puts the object under another name, and what is written to a name about to
go is not owed, the first exception of `NothingLost`. `AnsweredWriteStays` becomes `KeptUntouched`: no running call names it and no copy fills
it. `Listing` relates what a listing has got to where its pages have come. `Filling` and `Due` are what Azure's later
copy and the second requests need. The refinement maps a request of Secrets Manager to the update that is applied
when the service takes it, the first of the two or the second, which is also the step at which the call
returns: nil is returned by no other step (`SetReturns`, `DeleteReturns`, `UpdateReturns`), and a call that gives up has changed nothing.

**The argument for batches.** Every action of the five backends is reduced to one of five kinds (`Steps`): a call begins
again, a dialogue goes on, a call fails before anything more is accepted, QUIT is answered, or a request takes a set of
entries (`Requested`). A request takes entries at or after `pos` only, and those it took are what `pos` skips
if its answer arrives. So entries before `pos` were accepted (`StopsAtFailure`), those at or after it only in
requests whose answer was lost (`NotYet`), and the ids are counted along (`Place`). `Dialogue` says that DATA
comes after every recipient was taken and that the MIME message is the one of the mail being sent. About that message,
`TreeLeaves` and `HeadersAreOnce` hold of any mail: `OwnLinesOnce` goes through the backend's lines one by one
(`OneMoreLine`), and `CallersKeys` says that none of the caller's is read as one the switch is for, because what
it compares is the canonical key.

**The argument for the file.** With one writer the temporary file is its own (`TempFileMine`): truncated
when it is opened, whole when it is written, and never the live one. `BufferIsUpdate` says that what
it is going to hold is the update of what is still live, so the Rename is the one step at which the
call takes effect: it maps to `TakeEffect`. Only after it can the call return nil, and no error can come after it,
which is why `Succeed` and `Fail` say what was done. Both parts fail for two writers.

**The argument for the chain.** Whoever is at a source goes through the sources or comes after the
winner (`OneIterates`); whoever is in a first attempt goes through the sources, and an unbounded attempt means that the
timeout is gone (`ProbeShape`); a caller at the managed identity after there is a winner is
there because it won (`AtWinner`), which it can only do once the timeout is gone. Nobody asks before
the constructor has run (`Unused`). `TimeoutInv` is their conjunction with `TypeOK`. All that can end
an attempt goes through `Got`, so `GotKeeps` is the lemma the actions share. For the CLI, `CliShape` says
the same of whoever is at it as `CliOnlyAfterDeadline` of the winner; `DeadlineInv` adds it to `TimeoutInv`.

**Only model-checked.** Liveness (`DrainedReceiverCloses`, `CallsReturn`) is outside of what the prover does.
`CredentialAsConfigured`, `TLSAsAsked` and `FirestoreURIComplete` relate a constructor's connection to the fields it was given;
which fields it can be given is a finite table (`Fields` of `MCCredentials`), and the run takes every
kind with every subset of its fields, so a theorem would have that table as its hypothesis and add nothing. The violations are
counterexamples and have no theorem.

## Not modelled

- The cache commands: each is one request, or one script, that the server applies at once, and the backends
  keep nothing between them. What is left is in go-redis (it may send an increment or a script again
  when a reply is lost) and in the server.
- The mapping secrets backend: a Go map without a mutex, whose concurrent use has no outcome to state a
  property of, and which alone is a function.
- `core/errors.go`, the pool options of `document`, and the native clients it hands out.
- SendJSON, newID, encodings, signatures, attributes, message bodies beyond their identity, error
  wrapping (which error class is returned, save where a property is about it) and logging.
- Reads: GetQueueDepth, HealthCheck, GetSecret, Download, Exists, GetMetadata, PresignedURL, and
  ListSecrets of the file; they change nothing. `HealthCheck` takes a missing bucket for a healthy one.
- A service's own dead-lettering, after Service Bus's maximum of deliveries, SQS's `maxReceiveCount` or the dead-letter
  policy of a Pub/Sub subscription: a message then leaves the queue without a DeadLetter of the application.
- A listing of Secrets Manager that lags behind: a page is taken as a consistent view of the service.
- FIFO order, which no backend promises; clock skew in Purge's Seek; power loss without fsync;
  integer conversions of delays; the order of attachments among themselves.

`ReadFile` is one step: with one writer the live inode never changes, and with two the run looks
at the file itself. A request that is applied after its call gave up is not modelled for the keyed
stores; it is for the queues, as an error that hides an effect. The account URL of an Azure backend is
taken to have no query of its own.

## Plan

1. The contract's `ContractKeepsMessages` as a corollary for SQS and Pub/Sub, as `NoMessageLost` is for Service Bus.
2. Lemmas on the constructors of `Connections` for any set of fields, where no table is needed
   (`EnsureFirestoreParams`, `BuildTLSConfig`).
3. What of `FileSecrets` still holds with several writers: that the live file is only ever one that some writer opened.
