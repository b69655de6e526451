------------------------- MODULE FileSecretsProofs -------------------------
(***************************************************************************)
(* The file-backed secret store with a single writer: whatever fails or    *)
(* crashes, the live file is whole and the store keeps its promise. (With  *)
(* a second writer neither is true, see MCFileSecrets_shared.cfg.)         *)
(***************************************************************************)
EXTENDS FileSecrets, FiniteSetTheorems, TLAPS

\* The length of an object is a positive number.
LEMMA LengthPositive ==
  ASSUME NEW o \in Objects
  PROVE  Length(o) \in Nat /\ Length(o) > 0
<1>1. PICK D \in SUBSET Names : o \in [D -> Values]
  BY DEF Objects
<1>2. DOMAIN o = D /\ IsFiniteSet(D)
  BY <1>1, NamesAssumption, FS_Subset
<1> QED
  BY <1>2, FS_CardinalityType DEF Length

\* The empty map is an object.
LEMMA EmptyIsObject == EmptyObject \in Objects
<1>1. EmptyObject \in [{} -> Values]
  BY DEF EmptyObject
<1> QED
  BY <1>1 DEF Objects

\* What load returns without an error is an object.
LEMMA LoadIsObject ==
  ASSUME TypeOK, Load # Torn
  PROVE  Load \in Objects
  BY EmptyIsObject DEF TypeOK, Load

\* Setting or deleting a name in an object gives an object.
LEMMA UpdateIsObject ==
  ASSUME NEW o \in Objects, NEW n \in Names
  PROVE  /\ \A v \in Values : Assign(o, n, v) \in Objects
         /\ [k \in DOMAIN o \ {n} |-> o[k]] \in Objects
<1>1. PICK D \in SUBSET Names : o \in [D -> Values]
  BY DEF Objects
<1>2. \A v \in Values : Assign(o, n, v) \in [D \cup {n} -> Values]
  BY <1>1 DEF Assign
<1>3. [k \in DOMAIN o \ {n} |-> o[k]] \in [D \ {n} -> Values]
  BY <1>1
<1>4. \A E \in SUBSET Names : [E -> Values] \subseteq Objects
  BY DEF Objects
<1>5. D \cup {n} \in SUBSET Names /\ D \ {n} \in SUBSET Names
  OBVIOUS
<1> QED
  BY <1>2, <1>3, <1>4, <1>5

\* A write into an empty file leaves exactly what was written.
LEMMA OverlayEmpty ==
  ASSUME NEW o \in Objects
  PROVE  Overlay(EmptyFile, o) = [object |-> o, length |-> Length(o)]
  BY LengthPositive DEF Overlay, EmptyFile

\* The initial state, without any file, satisfies the invariant.
LEMMA FileInit == Init => FileInv
<1> SUFFICES ASSUME Init PROVE FileInv
  OBVIOUS
<1>1. TypeOK
  BY EmptyIsObject DEF Init, TypeOK, EmptyFile
<1>2. LiveFileWhole /\ TempFileMine /\ BufferIsUpdate
  BY DEF Init, LiveFileWhole, TempFileMine, BufferIsUpdate
<1> QED
  BY <1>1, <1>2 DEF FileInv
-----------------------------------------------------------------------------
\* A call begins: the live file is whole, and the buffer is its update.
LEMMA UpdateStep ==
  ASSUME OneWriter, FileInv, NEW w \in Writers, NEW q \in SecretStore!Requests,
         NEW o \in Objects, o = SecretStore!Updated(Load, q), Update(w, q, o)
  PROVE  FileInv'
<1> USE DEF FileInv
<1>1. /\ pc[w] = "idle" /\ req' = [req EXCEPT ![w] = q] /\ UNCHANGED <<fileVars, fd>>
      /\ answer' = [answer EXCEPT ![w] = "none"]
      /\ \/ pc' = [pc EXCEPT ![w] = "loaded"] /\ buf' = [buf EXCEPT ![w] = o]
         \/ pc' = [pc EXCEPT ![w] = "unread"] /\ buf' = buf
  BY DEF Update
<1>2. TypeOK'
  BY <1>1 DEF TypeOK, fileVars
<1>3. LiveFileWhole'
  BY <1>1 DEF LiveFileWhole, fileVars
<1>4. TempFileMine'
  BY <1>1 DEF TempFileMine, TypeOK, fileVars
<1>5. BufferIsUpdate'
  <2>1. Load' = Load
    BY <1>1 DEF Load, fileVars
  <2>2. \A v \in Writers : v = w
    BY DEF OneWriter
  <2>3. /\ req'[w] = q
        /\ \/ pc'[w] = "unread"
           \/ pc'[w] = "loaded" /\ buf'[w] = o
    BY <1>1 DEF TypeOK
  <2> QED
    BY <2>1, <2>2, <2>3 DEF BufferIsUpdate, SecretStore!Updated
<1> QED
  BY <1>2, <1>3, <1>4, <1>5

\* Opening the temporary file truncates it, and never touches the live file.
LEMMA OpenStep ==
  ASSUME OneWriter, FileInv, NEW w \in Writers, OpenTemp(w)
  PROVE  FileInv'
<1> USE DEF FileInv
<1>1. PICK i \in Inodes : /\ i # path
                          /\ tmp' = i
                          /\ content' = [content EXCEPT ![i] = EmptyFile]
                          /\ fd' = [fd EXCEPT ![w] = i]
  BY ReservedAssumption DEF OpenTemp, FreeInode, Opened, TypeOK
<1>2. /\ pc[w] = "loaded" /\ pc' = [pc EXCEPT ![w] = "opened"]
      /\ UNCHANGED <<path, req, buf, answer>>
  BY DEF OpenTemp
<1>3. Load' = Load
  BY <1>1, <1>2 DEF Load, TypeOK
<1>4. TypeOK'
  BY <1>1, <1>2, ReservedAssumption DEF TypeOK, EmptyFile
<1>5. LiveFileWhole'
  BY <1>1, <1>2 DEF LiveFileWhole, TypeOK
<1>6. TempFileMine'
  BY <1>1, <1>2, ReservedAssumption DEF TempFileMine, TypeOK, OneWriter
<1>7. BufferIsUpdate'
  <2>1. \A v \in Writers : v = w
    BY DEF OneWriter
  <2>2. pc[w] = "loaded" /\ pc'[w] = "opened" /\ req' = req /\ buf' = buf
    BY <1>2 DEF TypeOK
  <2> QED
    BY <1>3, <2>1, <2>2 DEF BufferIsUpdate, SecretStore!Updated
<1> QED
  BY <1>4, <1>5, <1>6, <1>7

\* Writing, in whole or in part, changes only the temporary file.
LEMMA WriteStep ==
  ASSUME OneWriter, FileInv, NEW w \in Writers, WriteTemp(w) \/ WritePart(w)
  PROVE  FileInv'
<1> USE DEF FileInv
<1>1. /\ pc[w] = "opened" /\ tmp # NoFile /\ fd[w] = tmp /\ tmp # path
      /\ content[tmp] = EmptyFile /\ tmp \in Inodes
      /\ UNCHANGED <<path, tmp, req, buf, answer>>
  BY DEF WriteTemp, WritePart, TempFileMine, TypeOK
<1>2. PICK f \in [object : Objects \cup {Torn}, length : Nat] :
         /\ content' = [content EXCEPT ![tmp] = f]
         /\ \/ /\ pc' = [pc EXCEPT ![w] = "written"] /\ f.object = buf[w]
               /\ fd' = [fd EXCEPT ![w] = NoFile]
            \/ pc' = [pc EXCEPT ![w] = "failing"] /\ fd' = fd
  <2>1. CASE WriteTemp(w)
    <3> DEFINE f == [object |-> buf[w], length |-> Length(buf[w])]
    <3>1. buf[w] \in Objects
      BY DEF TypeOK
    <3>2. Overlay(EmptyFile, buf[w]) = f
      BY <3>1, OverlayEmpty
    <3>3. f \in [object : Objects \cup {Torn}, length : Nat]
      BY <3>1, LengthPositive
    <3>4. content' = [content EXCEPT ![tmp] = f]
      BY <1>1, <2>1, <3>2 DEF WriteTemp
    <3> HIDE DEF f
    <3>5. f.object = buf[w]
      BY DEF f
    <3> QED
      BY <2>1, <3>3, <3>4, <3>5 DEF WriteTemp
  <2>2. CASE WritePart(w)
    BY <1>1, <2>2 DEF WritePart, TypeOK, EmptyFile
  <2> QED
    BY <2>1, <2>2
<1>3. Load' = Load
  BY <1>1, <1>2 DEF Load, TypeOK
<1>4. TypeOK'
  BY <1>1, <1>2 DEF TypeOK
<1>5. LiveFileWhole'
  BY <1>1, <1>2 DEF LiveFileWhole, TypeOK
<1>6. TempFileMine'
  BY <1>1, <1>2 DEF TempFileMine, TypeOK, OneWriter
<1>7. BufferIsUpdate'
  <2>1. \A v \in Writers : v = w
    BY DEF OneWriter
  <2>2. pc[w] = "opened" /\ pc'[w] \in {"failing", "written"}
    BY <1>1, <1>2 DEF TypeOK
  <2>3. req' = req /\ buf' = buf
    BY <1>1
  <2> QED
    BY <1>3, <2>1, <2>2, <2>3 DEF BufferIsUpdate, SecretStore!Updated
<1> QED
  BY <1>4, <1>5, <1>6, <1>7

\* The rename makes the whole temporary file the live one.
LEMMA RenameStep ==
  ASSUME OneWriter, FileInv, NEW w \in Writers, Rename(w)
  PROVE  FileInv'
<1> USE DEF FileInv
<1>1. /\ pc[w] = "written" /\ tmp # NoFile /\ content[tmp].object = buf[w]
      /\ path' = tmp /\ tmp' = NoFile /\ pc' = [pc EXCEPT ![w] = "renamed"]
      /\ UNCHANGED <<content, req, buf, fd, answer>>
  BY DEF Rename, ReadyToRename, TempLeft, TempFileMine
<1>2. TypeOK'
  BY <1>1 DEF TypeOK
<1>3. LiveFileWhole'
  BY <1>1, ReservedAssumption DEF LiveFileWhole, TypeOK
<1>4. TempFileMine' /\ BufferIsUpdate'
  BY <1>1 DEF TempFileMine, BufferIsUpdate, TypeOK, OneWriter
<1> QED
  BY <1>2, <1>3, <1>4

\* A call that returns, or a process that dies, leaves the files as they are.
LEMMA ReturnStep ==
  ASSUME OneWriter, FileInv,
         (\E w \in Writers : ReturnNil(w) \/ ReturnError(w)) \/ Crash
  PROVE  FileInv'
<1> USE DEF FileInv
<1>1. /\ UNCHANGED fileVars
      /\ pc' = [v \in Writers |-> "idle"] /\ req' = [v \in Writers |-> NoRequest]
      /\ buf' = [v \in Writers |-> EmptyObject] /\ fd' = [v \in Writers |-> NoFile]
      /\ answer' \in [Writers -> {"none", "nil", "error"}]
  <2>1. CASE Crash
    BY <2>1 DEF Crash
  <2>2. ASSUME NEW w \in Writers, ReturnNil(w) \/ ReturnError(w)
        PROVE  <1>1
    <3>1. \A v \in Writers : v = w
      BY DEF OneWriter
    <3>2. PICK a \in {"nil", "error"} : Return(w, a)
      BY <2>2 DEF ReturnNil, ReturnError
    <3> QED
      BY <3>1, <3>2 DEF Return, TypeOK
  <2> QED
    BY <2>1, <2>2
<1>2. TypeOK'
  BY <1>1, EmptyIsObject DEF TypeOK, fileVars
<1>3. LiveFileWhole' /\ TempFileMine' /\ BufferIsUpdate'
  BY <1>1 DEF LiveFileWhole, TempFileMine, BufferIsUpdate, fileVars
<1> QED
  BY <1>2, <1>3

\* What a SetSecret or DeleteSecret starts with.
LEMMA CallIsUpdate ==
  ASSUME FileInv, NEW w \in Writers, NEW n \in Names,
         DeleteSecret(w, n) \/ \E v \in Values : SetSecret(w, n, v)
  PROVE  \E q \in SecretStore!Requests, o \in Objects :
            o = SecretStore!Updated(Load, q) /\ Update(w, q, o)
<1>1. Load \in Objects
  BY LoadIsObject, EmptyIsObject, ReservedAssumption DEF FileInv, LiveFileWhole, Load
<1>2. CASE DeleteSecret(w, n)
  <2> DEFINE q == [op |-> "delete", name |-> n]
  <2>1. q \in SecretStore!Requests
    BY DEF SecretStore!Requests, SecretStore!Deletes
  <2>2. SecretStore!Updated(Load, q) = [k \in DOMAIN Load \ {n} |-> Load[k]]
    BY DEF SecretStore!Updated
  <2> QED
    BY <1>1, <1>2, <2>1, <2>2, UpdateIsObject DEF DeleteSecret
<1>3. ASSUME NEW v \in Values, SetSecret(w, n, v)
      PROVE  \E q \in SecretStore!Requests, o \in Objects :
                o = SecretStore!Updated(Load, q) /\ Update(w, q, o)
  <2> DEFINE q == [op |-> "set", name |-> n, value |-> v]
  <2>1. q \in SecretStore!Requests
    BY DEF SecretStore!Requests, SecretStore!Sets
  <2>2. SecretStore!Updated(Load, q) = Assign(Load, n, v)
    BY DEF SecretStore!Updated, Assign
  <2> QED
    BY <1>1, <1>3, <2>1, <2>2, UpdateIsObject DEF SetSecret
<1> QED
  BY <1>2, <1>3

\* With one writer every step keeps the invariant.
LEMMA FileStep == OneWriter /\ FileInv /\ [Next]_vars => FileInv'
<1> SUFFICES ASSUME OneWriter, FileInv, [Next]_vars PROVE FileInv'
  OBVIOUS
<1>1. CASE UNCHANGED vars
  <2>1. TypeOK'
    BY <1>1 DEF FileInv, TypeOK, vars, fileVars, writerVars
  <2>2. LiveFileWhole' /\ TempFileMine'
    BY <1>1 DEF FileInv, LiveFileWhole, TempFileMine, vars, fileVars, writerVars
  <2>3. Load' = Load /\ pc' = pc /\ req' = req /\ buf' = buf
    BY <1>1 DEF Load, vars, fileVars, writerVars
  <2>4. BufferIsUpdate'
    BY <2>3 DEF FileInv, BufferIsUpdate, SecretStore!Updated
  <2> QED
    BY <2>1, <2>2, <2>4 DEF FileInv
<1>2. ASSUME NEW w \in Writers, NEW n \in Names,
             DeleteSecret(w, n) \/ \E v \in Values : SetSecret(w, n, v)
      PROVE  FileInv'
  BY <1>2, CallIsUpdate, UpdateStep
<1>3. ASSUME NEW w \in Writers,
             \/ OpenTemp(w) \/ WriteTemp(w) \/ WritePart(w) \/ Rename(w)
      PROVE  FileInv'
  BY <1>3, OpenStep, WriteStep, RenameStep
<1>4. CASE (\E w \in Writers : ReturnNil(w) \/ ReturnError(w)) \/ Crash
  BY <1>4, ReturnStep
<1> QED
  BY <1>1, <1>2, <1>3, <1>4 DEF Next
-----------------------------------------------------------------------------
\* FileInv is an invariant of a store with one writer.
THEOREM FileInvHolds == OneWriter => (Spec => []FileInv)
<1> SUFFICES ASSUME OneWriter PROVE Spec => []FileInv
  OBVIOUS
<1>1. FileInv /\ [Next]_vars => FileInv'
  BY FileStep
<1> QED
  BY <1>1, FileInit, PTL DEF Spec

\* With one writer the files, the buffers and the requests keep their types: what a
\* call is going to save is an object, and the live file is an inode or absent.
THEOREM FileTypeCorrect == OneWriter => (Spec => []TypeOK)
<1>1. FileInv => TypeOK
  BY DEF FileInv
<1> QED
  BY <1>1, FileInvHolds, PTL

\* With one writer the live file is always a whole JSON object, whatever writes
\* failed and whenever the process died (local.go:172-186).
THEOREM LiveFileAlwaysWhole == OneWriter => (Spec => []LiveFileWhole)
<1>1. FileInv => LiveFileWhole
  BY DEF FileInv
<1> QED
  BY <1>1, FileInvHolds, PTL

\* The update of a call is made once it has renamed.
Applied == [w \in Writers |-> pc[w] = "renamed"]

\* What a return looks like from outside.
LEMMA ReturnSeen ==
  ASSUME TypeOK, NEW w \in Writers, NEW a, Return(w, a), req[w] # NoRequest
  PROVE  SecretStore!Return(w, a) /\ UNCHANGED Load
<1>1. Applied' = [Applied EXCEPT ![w] = FALSE]
  BY DEF Return, Applied, TypeOK
<1>2. UNCHANGED Load
  BY DEF Return, Load, fileVars
<1> QED
  BY <1>1, <1>2 DEF Return, SecretStore!Return, Applied

\* With one writer every step is a step of the store secrets.Backend promises, or
\* invisible to it.
LEMMA StoreStep == OneWriter /\ FileInv /\ [Next]_vars =>
                     [SecretStore!Next]_<<Load, req, Applied, answer>>
<1> SUFFICES ASSUME OneWriter, FileInv, [Next]_vars
             PROVE  [SecretStore!Next]_<<Load, req, Applied, answer>>
  OBVIOUS
<1> USE DEF FileInv
<1>1. CASE UNCHANGED vars
  BY <1>1 DEF vars, fileVars, writerVars, Load, Applied
<1>2. ASSUME NEW w \in Writers, NEW n \in Names,
             DeleteSecret(w, n) \/ \E v \in Values : SetSecret(w, n, v)
      PROVE  SecretStore!Next
  <2>1. PICK q \in SecretStore!Requests, o \in Objects : Update(w, q, o)
    BY <1>2, CallIsUpdate
  <2>2. req[w] = NoRequest /\ UNCHANGED <<Load, Applied>>
    BY <2>1 DEF Update, BufferIsUpdate, Load, Applied, TypeOK, fileVars
  <2>3. SecretStore!Ask(w, q)
    BY <2>1, <2>2 DEF SecretStore!Ask, Update, Applied, Load
  <2> QED
    BY <2>3 DEF SecretStore!Next
<1>3. ASSUME NEW w \in Writers, Rename(w)
      PROVE  SecretStore!Next
  <2>1. /\ pc[w] = "written" /\ tmp # NoFile /\ content[tmp].object = buf[w]
        /\ path' = tmp /\ pc' = [pc EXCEPT ![w] = "renamed"]
        /\ UNCHANGED <<content, req, answer>>
    BY <1>3 DEF Rename, ReadyToRename, TempFileMine
  <2>2. req[w] # NoRequest /\ buf[w] = SecretStore!Updated(Load, req[w])
    BY <2>1, ReservedAssumption DEF BufferIsUpdate
  <2>3. ~Applied[w] /\ Applied' = [Applied EXCEPT ![w] = TRUE]
    BY <2>1 DEF Applied, TypeOK
  <2>4. Load' = SecretStore!Updated(Load, req[w])
    BY <2>1, <2>2 DEF Load
  <2>5. SecretStore!TakeEffect(w)
    BY <2>1, <2>2, <2>3, <2>4 DEF SecretStore!TakeEffect, Applied, Load
  <2> QED
    BY <2>5 DEF SecretStore!Next
<1>4. ASSUME NEW w \in Writers, ReturnNil(w)
      PROVE  SecretStore!Next
  <2>1. pc[w] = "renamed" /\ Return(w, "nil")
    BY <1>4 DEF ReturnNil, Saved
  <2>2. req[w] # NoRequest /\ Applied[w]
    BY <2>1, ReservedAssumption DEF BufferIsUpdate, Applied
  <2>3. SecretStore!Return(w, "nil") /\ UNCHANGED Load
    BY <2>1, <2>2, ReturnSeen
  <2>4. SecretStore!Succeed(w)
    BY <2>2, <2>3 DEF SecretStore!Succeed, Applied, Load
  <2> QED
    BY <2>4 DEF SecretStore!Next
<1>5. ASSUME NEW w \in Writers, ReturnError(w)
      PROVE  SecretStore!Next
  <2>1. pc[w] \notin {"idle", "renamed"} /\ Return(w, "error")
    BY <1>5 DEF ReturnError
  <2>2. req[w] # NoRequest /\ ~Applied[w]
    BY <2>1, ReservedAssumption DEF BufferIsUpdate, Applied
  <2>3. SecretStore!Return(w, "error") /\ UNCHANGED Load
    BY <2>1, <2>2, ReturnSeen
  <2>4. SecretStore!Fail(w)
    BY <2>2, <2>3 DEF SecretStore!Fail, Applied, Load
  <2> QED
    BY <2>4 DEF SecretStore!Next
<1>6. CASE Crash
  <2>1. UNCHANGED Load
    BY <1>6 DEF Crash, Load, fileVars
  <2>2. Applied' = [w \in Writers |-> FALSE]
    BY <1>6 DEF Crash, Applied
  <2>3. SecretStore!Crash(Writers)
    BY <1>6, <2>1, <2>2 DEF Crash, SecretStore!Crash, Applied, Load
  <2> QED
    BY <2>3 DEF SecretStore!Next
<1>7. ASSUME NEW w \in Writers, OpenTemp(w)
      PROVE  UNCHANGED <<Load, req, Applied, answer>>
  <2>1. PICK i \in Inodes : i # path /\ content' = [content EXCEPT ![i] = EmptyFile]
    BY <1>7, ReservedAssumption DEF OpenTemp, FreeInode, Opened, TypeOK
  <2> QED
    BY <1>7, <2>1 DEF OpenTemp, Load, Applied, TypeOK
<1>8. ASSUME NEW w \in Writers, WriteTemp(w) \/ WritePart(w)
      PROVE  UNCHANGED <<Load, req, Applied, answer>>
  <2>1. fd[w] = tmp /\ tmp # NoFile /\ tmp # path
    BY <1>8 DEF WriteTemp, WritePart, TempFileMine, TypeOK
  <2> QED
    BY <1>8, <2>1 DEF WriteTemp, WritePart, Load, Applied, TypeOK
<1> QED
  BY <1>1, <1>2, <1>3, <1>4, <1>5, <1>6, <1>7, <1>8 DEF Next

\* With one writer a SetSecret or DeleteSecret that returns nil has applied its change,
\* once, to the secrets there were, and one that returns an error has changed nothing.
\* A process that dies during a call leaves the one or the other, and what was changed
\* stays, also when it dies between the rename and the return (local.go:172-220).
THEOREM StoreImplemented == OneWriter => (Spec => ImplementsStore)
<1> SUFFICES ASSUME OneWriter PROVE Spec => ImplementsStore
  OBVIOUS
<1>1. Init => SecretStore!Init
  BY DEF Init, SecretStore!Init, EmptyObject
<1>2. FileInv /\ [Next]_vars => [SecretStore!Next]_<<Load, req, Applied, answer>>
  BY StoreStep
<1> QED
  BY <1>1, <1>2, FileInvHolds, PTL
     DEF Spec, ImplementsStore, SecretStore!Spec, Load, Applied
=============================================================================
