---------------------------- MODULE FileSecrets ----------------------------
(***************************************************************************)
(* The file-backed secret store (src/secrets/local.go, FileSecretBackend). *)
(* SetSecret and DeleteSecret load the file, change the map and save it:   *)
(* truncate or create path+".tmp", write it, rename it over path. There is *)
(* no mutex and the temporary name is the same for every writer, so every  *)
(* system call is a step of its own. Files are inodes: a writer keeps      *)
(* writing the inode it opened, whatever name that inode has by then.      *)
(***************************************************************************)
EXTENDS Naturals, FiniteSets

CONSTANTS
    Writers,    \* goroutines, or processes, that update the one file
    Names,
    Values,
    Inodes,     \* files the file system may hold (a bound, see FreeInode)
    NoFile,
    NoRequest,
    Torn        \* bytes that are no JSON object: nothing, a prefix, an object and a tail

VARIABLES
    content,    \* inode -> the JSON object it holds, if any, and its length
    path,       \* the inode of path, or NoFile
    tmp,        \* the inode of path+".tmp", or NoFile
    pc,         \* where each writer is
    req,        \* the update it was called for
    buf,        \* the object it is about to save
    fd,         \* the inode its temporary file was opened on
    answer      \* what its last call returned, if it did

fileVars   == <<content, path, tmp>>
writerVars == <<pc, req, buf, fd, answer>>
vars == <<fileVars, writerVars>>

Objects == UNION {[D -> Values] : D \in SUBSET Names}
EmptyObject == [n \in {} |-> CHOOSE v \in Values : TRUE]

\* The length of an object, in units of one entry and two braces. Only its order
\* matters; the values of an instance are taken to be equally long.
Length(o) == Cardinality(DOMAIN o) + 1
EmptyFile == [object |-> Torn, length |-> 0]

FreeInode == {i \in Inodes : i \notin {path, tmp} /\ \A w \in Writers : fd[w] # i}

SecretStore ==
    INSTANCE SecretStore WITH
        Clients <- Writers,
        secrets <- IF path = NoFile THEN EmptyObject ELSE content[path].object,
        request <- req,
        applied <- [w \in Writers |-> pc[w] = "renamed"],
        AnswersMayBeLost <- FALSE

ASSUME NamesAssumption == IsFiniteSet(Names)

ASSUME ReservedAssumption ==
    /\ NoFile \notin Inodes
    /\ Torn \notin Objects
    /\ NoRequest \notin SecretStore!Requests

-----------------------------------------------------------------------------
Init ==
    /\ content = [i \in Inodes |-> EmptyFile]
    /\ path = NoFile
    /\ tmp = NoFile
    /\ pc = [w \in Writers |-> "idle"]
    /\ req = [w \in Writers |-> NoRequest]
    /\ buf = [w \in Writers |-> EmptyObject]
    /\ fd = [w \in Writers |-> NoFile]
    /\ answer = [w \in Writers |-> "none"]

\* load: a missing file reads as empty, a torn one is an error.
Load == IF path = NoFile THEN EmptyObject ELSE content[path].object

\* data[name] = value on what load returned.
Assign(o, n, v) == [k \in DOMAIN o \cup {n} |-> IF k = n THEN v ELSE o[k]]

\* A call begins with a load: a torn file is an error, and any file may be unreadable.
Update(w, q, o) ==
    /\ pc[w] = "idle"
    /\ req' = [req EXCEPT ![w] = q]
    /\ answer' = [answer EXCEPT ![w] = "none"]
    /\ \/ /\ Load # Torn
          /\ pc' = [pc EXCEPT ![w] = "loaded"]
          /\ buf' = [buf EXCEPT ![w] = o]
       \/ /\ pc' = [pc EXCEPT ![w] = "unread"]
          /\ UNCHANGED buf
    /\ UNCHANGED <<fileVars, fd>>

SetSecret(w, n, v) ==
    Update(w, [op |-> "set", name |-> n, value |-> v], Assign(Load, n, v))

DeleteSecret(w, n) ==
    Update(w, [op |-> "delete", name |-> n],
           [k \in DOMAIN Load \ {n} |-> Load[k]])

\* os.WriteFile, the open: O_TRUNC keeps the inode of a file that exists.
Opened_NoTrunc(i) == IF i = tmp THEN content[i] ELSE EmptyFile

Opened(i) == EmptyFile

OpenTemp(w) ==
    /\ pc[w] = "loaded"
    /\ \E i \in IF tmp = NoFile THEN FreeInode ELSE {tmp} :
          /\ tmp' = i
          /\ content' = [content EXCEPT ![i] = Opened(i)]
          /\ fd' = [fd EXCEPT ![w] = i]
    /\ pc' = [pc EXCEPT ![w] = "opened"]
    /\ UNCHANGED <<path, req, buf, answer>>

\* Bytes are written from offset 0 of the open file: they replace what another
\* writer put there, but a longer text keeps its tail.
Overlay(old, o) ==
    IF old.length > Length(o)
    THEN [object |-> Torn, length |-> old.length]
    ELSE [object |-> o, length |-> Length(o)]

WriteTemp(w) ==
    /\ pc[w] = "opened"
    /\ content' = [content EXCEPT ![fd[w]] = Overlay(@, buf[w])]
    /\ fd' = [fd EXCEPT ![w] = NoFile]
    /\ pc' = [pc EXCEPT ![w] = "written"]
    /\ UNCHANGED <<path, tmp, req, buf, answer>>

\* The write stops half way; its error, or a crash, ends the call.
WritePart(w) ==
    /\ pc[w] = "opened"
    /\ content' = [content EXCEPT ![fd[w]] =
                      [object |-> Torn, length |-> IF @.length = 0 THEN 1 ELSE @.length]]
    /\ pc' = [pc EXCEPT ![w] = "failing"]
    /\ UNCHANGED <<path, tmp, req, buf, fd, answer>>

Return(w, a) ==
    /\ pc' = [pc EXCEPT ![w] = "idle"]
    /\ req' = [req EXCEPT ![w] = NoRequest]
    /\ buf' = [buf EXCEPT ![w] = EmptyObject]
    /\ fd' = [fd EXCEPT ![w] = NoFile]
    /\ answer' = [answer EXCEPT ![w] = a]
    /\ UNCHANGED fileVars

\* load failed, or the open, the write or the rename: the call returns that error
\* and leaves what there is of the temporary file.
ReturnError(w) ==
    /\ pc[w] \in {"unread", "loaded", "failing", "written"}
    /\ Return(w, "error")

\* os.Rename acts on the name path+".tmp", whoever wrote the file it names.
ReadyToRename_ErrorIgnored(w) == pc[w] \in {"written", "failing"}

ReadyToRename(w) == pc[w] = "written"

\* The name path+".tmp" after the rename.
TempLeft_Linked == tmp

TempLeft == NoFile

Rename(w) ==
    /\ ReadyToRename(w)
    /\ tmp # NoFile
    /\ path' = tmp
    /\ tmp' = TempLeft
    /\ pc' = [pc EXCEPT ![w] = "renamed"]
    /\ UNCHANGED <<content, req, buf, fd, answer>>

\* save and its caller return nil.
Saved_RenameIgnored(w) == pc[w] \in {"written", "renamed"}

Saved(w) == pc[w] = "renamed"

ReturnNil(w) == Saved(w) /\ Return(w, "nil")

\* The process dies. The temporary file stays, the next writer truncates it.
Crash ==
    /\ pc' = [w \in Writers |-> "idle"]
    /\ req' = [w \in Writers |-> NoRequest]
    /\ buf' = [w \in Writers |-> EmptyObject]
    /\ fd' = [w \in Writers |-> NoFile]
    /\ answer' = [w \in Writers |-> "none"]
    /\ UNCHANGED fileVars

Next ==
    \/ \E w \in Writers :
          \/ \E n \in Names : DeleteSecret(w, n) \/ \E v \in Values : SetSecret(w, n, v)
          \/ OpenTemp(w) \/ WriteTemp(w) \/ WritePart(w) \/ Rename(w)
          \/ ReturnNil(w) \/ ReturnError(w)
    \/ Crash

Spec == Init /\ [][Next]_vars
-----------------------------------------------------------------------------
\* Every variable has its type, and the two names are two files.
TypeOK ==
    /\ content \in [Inodes -> [object : Objects \cup {Torn}, length : Nat]]
    /\ path \in Inodes \cup {NoFile}
    /\ tmp \in Inodes \cup {NoFile}
    /\ path = tmp => path = NoFile
    /\ pc \in [Writers -> {"idle", "unread", "loaded", "opened", "failing", "written", "renamed"}]
    /\ req \in [Writers -> SecretStore!Requests \cup {NoRequest}]
    /\ buf \in [Writers -> Objects]
    /\ fd \in [Writers -> Inodes \cup {NoFile}]
    /\ answer \in [Writers -> {"none", "nil", "error"}]

\* local.go:137-138 and 172 say that writes are atomic: whatever a crash or a
\* failing write leaves behind, the file that load reads is a whole JSON object.
LiveFileWhole == path # NoFile => content[path].object # Torn

\* The store keeps the promise of secrets.Backend (local.go:204-220): a call that
\* returns nil has applied its own change, once, to the secrets there were, and one
\* that returns an error has changed nothing; one that dies with the process has done
\* the one or the other, and what it changed stays.
ImplementsStore == SecretStore!Spec
-----------------------------------------------------------------------------
(* What makes both true of a single writer; FileSecretsProofs shows it.    *)

OneWriter == \A v, w \in Writers : v = w

\* The temporary file is the one writer's own: whole once it is written, and
\* what it holds is the update of what is still the live file.
TempFileMine ==
    \A w \in Writers :
        /\ pc[w] \in {"opened", "failing"} => tmp # NoFile /\ fd[w] = tmp
        /\ pc[w] = "opened" => content[tmp] = EmptyFile
        /\ pc[w] = "written" => tmp # NoFile /\ content[tmp].object = buf[w]

BufferIsUpdate ==
    \A w \in Writers :
        /\ IF pc[w] = "idle" THEN req[w] = NoRequest ELSE req[w] \in SecretStore!Requests
        /\ pc[w] \in {"loaded", "opened", "failing", "written"} =>
              buf[w] = SecretStore!Updated(Load, req[w])

FileInv ==
    /\ TypeOK
    /\ LiveFileWhole
    /\ TempFileMine
    /\ BufferIsUpdate
=============================================================================
