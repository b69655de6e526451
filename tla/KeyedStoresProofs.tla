------------------------- MODULE KeyedStoresProofs -------------------------
(***************************************************************************)
(* Proofs about KeyedStores, for any clients, names and objects: what a    *)
(* caller may rely on of the storage and of the remote secret backends,    *)
(* and that the latter implement SecretStore.                              *)
(***************************************************************************)
EXTENDS KeyedStores, TLAPS

-----------------------------------------------------------------------------
(* The steps of the backends, by what they ask of the service.             *)

PutNotFound(c) ==
    /\ In(c, "set") /\ ~second[c]
    /\ Continue(c)
    /\ UNCHANGED <<backend, store, copying, answer, seen, owed, kept>>

Removes(c) == Delete(c, None) \/ (backend = "keyvault" /\ Delete(c, Deleted))

CopyDone(c) == In(c, "copy") /\ CopyNow(c) /\ Answered(c, call[c].dst, Source(c)) /\ Return(c)

CopyPending(c) ==
    /\ In(c, "copy")
    /\ backend = "azureblob" /\ CopyLater(c)
    /\ Answer(c, "nil") \/ AnswerLost(c)
    /\ Return(c)

MoveCopies(c) ==
    /\ In(c, "move")
    /\ backend = "s3" => call[c].src # call[c].dst
    /\ \/ CopyNow(c) /\ UNCHANGED kept
       \/ backend = "azureblob" /\ CopyLater(c)
    /\ Continue(c)
    /\ UNCHANGED answer

MoveDeletes(c) ==
    /\ In(c, "move")
    /\ DeleteSource(c)
    /\ owed' = IF call[c].src = call[c].dst \/ copying[call[c].dst] # None
               THEN owed \ {Source(c)} ELSE owed

StorageStep(c) == CopyDone(c) \/ CopyPending(c) \/ MoveCopies(c) \/ MoveDeletes(c)

\* What a client's call holds, by its operation.
LEMMA CallParts ==
  ASSUME TypeOK, NEW c \in Clients
  PROVE  /\ In(c, "set") => call[c].name \in Names /\ call[c].value \in Objects
         /\ In(c, "delete") => call[c].name \in Names
         /\ In(c, "copy") \/ In(c, "move") => /\ backend \in Storage
                                              /\ call[c].src \in Names /\ call[c].dst \in Names
         /\ In(c, "list") => call[c] = List
<1>1. call[c] # NoRequest => call[c] \in Calls
  BY DEF TypeOK
<1> QED
  BY <1>1 DEF In, Calls, Sets, Deletes, Copies, List

LEMMA StepKinds ==
  ASSUME Inv, [Next]_vars
  PROVE  \/ \E c \in Clients :
               \/ \E q \in Calls : Call(c, q)
               \/ GiveUp(c) \/ Set(c) \/ PutNotFound(c)
               \/ Removes(c)
               \/ \E pages \in SUBSET SUBSET seen[c].left : Page(c, pages)
               \/ backend \in Storage /\ StorageStep(c)
         \/ backend \in Storage /\ \E n \in Names : CopyCompletes(n)
         \/ \E n \in Names : RetentionEnds(n)
         \/ UNCHANGED vars
<1>1. ASSUME NEW c \in Clients, S3Upload(c) \/ S3Delete(c) \/ S3ListIter(c)
      PROVE  \/ Set(c) \/ Removes(c)
             \/ \E pages \in SUBSET SUBSET seen[c].left : Page(c, pages)
  BY <1>1 DEF S3Upload, S3Delete, S3ListIter, Pages, Removes
<1>2. ASSUME NEW c \in Clients, AzureUpload(c) \/ AzureDelete(c) \/ AzureListIter(c)
      PROVE  \/ Set(c) \/ Removes(c)
             \/ \E pages \in SUBSET SUBSET seen[c].left : Page(c, pages)
  BY <1>2 DEF AzureUpload, AzureDelete, AzureListIter, Pages, Removes
<1>3. ASSUME NEW c \in Clients, SMSetSecret(c) \/ SMDeleteSecret(c) \/ SMListSecrets(c)
      PROVE  \/ Set(c) \/ PutNotFound(c) \/ Removes(c)
             \/ \E pages \in SUBSET SUBSET seen[c].left : Page(c, pages)
  BY <1>3 DEF SMSetSecret, SMDeleteSecret, SMListSecrets, PutNotFound, Pages, Removes
<1>4. ASSUME NEW c \in Clients, KVSetSecret(c) \/ KVDeleteSecret(c) \/ KVListSecrets(c)
      PROVE  \/ Set(c) \/ Removes(c)
             \/ \E pages \in SUBSET SUBSET seen[c].left : Page(c, pages)
  BY <1>4 DEF KVSetSecret, KVDeleteSecret, KVListSecrets, Pages, Removes
<1>5. ASSUME NEW c \in Clients, EnvSetSecret(c) \/ EnvDeleteSecret(c) \/ EnvListSecrets(c)
      PROVE  \/ Set(c) \/ Removes(c)
             \/ \E pages \in SUBSET SUBSET seen[c].left : Page(c, pages)
  BY <1>5 DEF EnvSetSecret, EnvDeleteSecret, EnvListSecrets, Removes
<1>6. ASSUME NEW c \in Clients, S3Copy(c) \/ AzureCopy(c)
      PROVE  backend \in Storage /\ StorageStep(c)
  BY <1>6 DEF S3Copy, AzureCopy, StorageStep, CopyDone, CopyPending, Storage
<1>7. ASSUME NEW c \in Clients, S3Move(c)
      PROVE  backend \in Storage /\ StorageStep(c)
  <2>1. CASE MoveCopies(c)
    BY <1>7, <2>1 DEF S3Move, StorageStep, Storage
  <2>2. CASE DeleteSource(c) /\ UNCHANGED owed
    <3>1. second[c] /\ backend = "s3" /\ In(c, "move")
      BY <1>7, <2>2 DEF S3Move, DeleteSource
    <3>2. call[c].src # call[c].dst
      BY <3>1 DEF Inv, Due
    <3>3. copying[call[c].dst] = None
      BY <3>1, CallParts DEF Inv, Filling
    <3> QED
      BY <2>2, <3>1, <3>2, <3>3 DEF MoveDeletes, StorageStep, Storage
  <2> QED
    BY <1>7, <2>1, <2>2 DEF S3Move, MoveCopies
<1>8. ASSUME NEW c \in Clients, AzureMove(c)
      PROVE  backend \in Storage /\ StorageStep(c)
  BY <1>8 DEF AzureMove, StorageStep, MoveCopies, MoveDeletes, Storage
<1>9. ASSUME NEW n \in Names, CopyCompletes(n) PROVE backend \in Storage
  BY <1>9 DEF CopyCompletes, Inv, Filling, Storage
<1> QED
  BY <1>1, <1>2, <1>3, <1>4, <1>5, <1>6, <1>7, <1>8, <1>9 DEF Next

-----------------------------------------------------------------------------
(* Types.                                                                  *)

LEMMA InitInv == Init => Inv
<1> SUFFICES ASSUME Init PROVE Inv
  OBVIOUS
<1> USE DEF Init
<1>1. TypeOK
  BY ReservedAssumption DEF TypeOK, NothingSeen
<1>2. Due /\ Filling /\ KeptUntouched
  BY DEF Due, Filling, KeptUntouched
<1>3. Listing /\ OwedSafe
  BY DEF Listing, In, OwedSafe
<1> QED
  BY <1>1, <1>2, <1>3 DEF Inv

\* What a write leaves, in the names and in the listings.
LEMMA HoldsTypes ==
  ASSUME TypeOK, NEW st \in [Names -> Objects \cup {None, Partial, Deleted}], Holds(st),
         \A n \in Names : st[n] = Deleted => backend = "keyvault"
  PROVE  /\ store' \in [Names -> Objects \cup {None, Partial, Deleted}]
         /\ \A n \in Names : store'[n] = Deleted => backend = "keyvault"
         /\ seen' \in [Clients -> [left : SUBSET Names, got : SUBSET Names,
                                   stay : SUBSET Names, ever : SUBSET Names]]
<1>1. Present(st) \subseteq Names
  BY DEF Present
<1>2. store' = st
  BY DEF Holds
<1>3. seen' \in [Clients -> [left : SUBSET Names, got : SUBSET Names,
                            stay : SUBSET Names, ever : SUBSET Names]]
  <2> DEFINE Progress == [left : SUBSET Names, got : SUBSET Names,
                          stay : SUBSET Names, ever : SUBSET Names]
             after(c) == [seen[c] EXCEPT !.stay = @ \cap Present(st),
                                         !.ever = @ \cup Present(st)]
  <2>1. ASSUME NEW c \in Clients
        PROVE  seen[c] \in Progress /\ after(c) \in Progress
    BY <1>1 DEF TypeOK
  <2>2. seen' = [c \in Clients |-> IF In(c, "list") THEN after(c) ELSE seen[c]]
    BY DEF Holds
  <2> HIDE DEF Progress, after
  <2>3. seen' \in [Clients -> Progress]
    BY <2>1, <2>2
  <2> QED
    BY <2>3 DEF Progress
<1> QED
  BY <1>2, <1>3

LEMMA WriteTypes ==
  ASSUME TypeOK, NEW n \in Names, NEW o \in Objects \cup {Partial}, Write(n, o)
  PROVE  /\ store' \in [Names -> Objects \cup {None, Partial, Deleted}]
         /\ \A m \in Names : store'[m] = Deleted => backend = "keyvault"
         /\ seen' \in [Clients -> [left : SUBSET Names, got : SUBSET Names,
                                   stay : SUBSET Names, ever : SUBSET Names]]
         /\ owed' \subseteq Objects
<1> DEFINE st == [store EXCEPT ![n] = o]
<1>1. st \in [Names -> Objects \cup {None, Partial, Deleted}]
  BY DEF TypeOK
<1>2. \A m \in Names : st[m] = Deleted => backend = "keyvault"
  BY ReservedAssumption DEF TypeOK
<1>3. Holds(st) /\ owed' \subseteq Objects
  BY DEF Write
<1> HIDE DEF st
<1> QED
  BY <1>1, <1>2, <1>3, HoldsTypes

\* What a call returns is nil or an error.
LEMMA AnswerTypes ==
  ASSUME TypeOK, NEW c \in Clients, NEW a \in {"none", "nil", "error"}, Answer(c, a)
  PROVE  answer' \in [Clients -> {"none", "nil", "error"}]
  BY DEF TypeOK, Answer

LEMMA CallTypes ==
  ASSUME TypeOK, NEW c \in Clients, Return(c) \/ Continue(c), UNCHANGED backend
  PROVE  /\ call' \in [Clients -> Calls' \cup {NoRequest}]
         /\ second' \in [Clients -> BOOLEAN]
<1>1. Calls' = Calls
  BY DEF Calls
<1> QED
  BY <1>1 DEF TypeOK, Return, Continue

\* What one page leaves of the progress of a listing.
LEMMA PageEffect ==
  ASSUME TypeOK, NEW c \in Clients, NEW pages \in SUBSET SUBSET seen[c].left, Page(c, pages)
  PROVE  \E page \in SUBSET seen[c].left :
            seen' = [seen EXCEPT ![c] = [left |-> seen[c].left \ page,
                                         got |-> seen[c].got \cup (page \cap Present(store)),
                                         stay |-> seen[c].stay, ever |-> seen[c].ever]]
<1>1. PICK page \in pages :
        seen' = [seen EXCEPT ![c].got = @ \cup (page \cap Present(store)),
                             ![c].left = AfterPage(@, page)]
  BY DEF Page
<1> DEFINE s == [seen EXCEPT ![c].got = @ \cup (page \cap Present(store))]
           r == [left |-> seen[c].left \ page,
                 got |-> seen[c].got \cup (page \cap Present(store)),
                 stay |-> seen[c].stay, ever |-> seen[c].ever]
<1>2. seen' = [s EXCEPT ![c].left = AfterPage(@, page)]
  BY <1>1
<1>3. s = [seen EXCEPT ![c] = [seen[c] EXCEPT !.got = @ \cup (page \cap Present(store))]]
  BY DEF TypeOK
<1>4. s[c] = [left |-> seen[c].left, got |-> seen[c].got \cup (page \cap Present(store)),
              stay |-> seen[c].stay, ever |-> seen[c].ever]
  BY <1>3 DEF TypeOK
<1> HIDE DEF s
<1>5. seen' = [s EXCEPT ![c] = [s[c] EXCEPT !.left = AfterPage(@, page)]]
  BY <1>2
<1>6. [s[c] EXCEPT !.left = AfterPage(@, page)] = r
  BY <1>4 DEF AfterPage
<1>7. seen' = [seen EXCEPT ![c] = r]
  BY <1>3, <1>5, <1>6 DEF TypeOK
<1> QED
  BY <1>7

LEMMA TypeStep ==
  ASSUME Inv, [Next]_vars
  PROVE  TypeOK'
<1> USE DEF Inv, TypeOK
<1>1. ASSUME NEW c \in Clients, NEW q \in Calls, Call(c, q) PROVE TypeOK'
  <2>1. Calls' = Calls /\ Present(store) \subseteq Names
    BY <1>1 DEF Call, Calls, Present
  <2>2. kept' \in [Names -> Objects \cup {None, Partial}]
    BY <1>1 DEF Call
  <2>3. seen' \in [Clients -> [left : SUBSET Names, got : SUBSET Names,
                               stay : SUBSET Names, ever : SUBSET Names]]
    BY <1>1, <2>1 DEF Call, NothingSeen
  <2>4. call' \in [Clients -> Calls' \cup {NoRequest}]
    BY <1>1, <2>1 DEF Call
  <2>5. answer' \in [Clients -> {"none", "nil", "error"}]
    BY <1>1, AnswerTypes DEF Call
  <2> QED
    BY <1>1, <2>2, <2>3, <2>4, <2>5 DEF Call
<1>2. ASSUME NEW c \in Clients, GiveUp(c) PROVE TypeOK'
  <2>1. call' \in [Clients -> Calls' \cup {NoRequest}] /\ second' \in [Clients -> BOOLEAN]
    BY <1>2, CallTypes DEF GiveUp
  <2>2. answer' \in [Clients -> {"none", "nil", "error"}]
    BY <1>2, AnswerTypes DEF GiveUp
  <2> QED
    BY <1>2, <2>1, <2>2 DEF GiveUp, NothingSeen
<1>3. ASSUME NEW c \in Clients, Set(c) PROVE TypeOK'
  <2>1. call[c].name \in Names /\ call[c].value \in Objects
    BY <1>3, CallParts DEF Set
  <2>2. call' \in [Clients -> Calls' \cup {NoRequest}] /\ second' \in [Clients -> BOOLEAN]
    BY <1>3, CallTypes DEF Set
  <2>3. kept' \in [Names -> Objects \cup {None, Partial}]
    BY <1>3, <2>1 DEF Set, Answered, Keep
  <2>4. answer' \in [Clients -> {"none", "nil", "error"}]
    BY <1>3, AnswerTypes DEF Set, Answered, AnswerLost
  <2> QED
    BY <1>3, <2>1, <2>2, <2>3, <2>4, WriteTypes DEF Set
<1>4. ASSUME NEW c \in Clients, PutNotFound(c) PROVE TypeOK'
  BY <1>4, CallTypes DEF PutNotFound
<1>5. ASSUME NEW c \in Clients, NEW left \in {None, Deleted}, Delete(c, left),
             left = Deleted => backend = "keyvault"
      PROVE  TypeOK'
  <2>1. call' \in [Clients -> Calls' \cup {NoRequest}] /\ second' \in [Clients -> BOOLEAN]
    BY <1>5, CallTypes DEF Delete
  <2> DEFINE st == [store EXCEPT ![call[c].name] = IF @ \in Objects \cup {Partial}
                                                   THEN left ELSE @]
  <2>2. /\ st \in [Names -> Objects \cup {None, Partial, Deleted}]
        /\ \A n \in Names : st[n] = Deleted => backend = "keyvault"
    BY <1>5, ReservedAssumption
  <2>3. answer' \in [Clients -> {"none", "nil", "error"}]
    BY <1>5, AnswerTypes DEF Delete, AnswerLost
  <2>4. Holds(st) /\ owed' \subseteq owed /\ UNCHANGED <<backend, copying, kept>>
    BY <1>5 DEF Delete
  <2> HIDE DEF st
  <2> QED
    BY <2>1, <2>2, <2>3, <2>4, HoldsTypes
<1>6. ASSUME NEW c \in Clients, NEW pages \in SUBSET SUBSET seen[c].left, Page(c, pages)
      PROVE  TypeOK'
  <2>1. Present(store) \subseteq Names
    BY DEF Present
  <2>2. seen' \in [Clients -> [left : SUBSET Names, got : SUBSET Names,
                               stay : SUBSET Names, ever : SUBSET Names]]
    BY <1>6, <2>1, PageEffect
  <2>3. Calls' = Calls
    BY <1>6 DEF Page, Calls
  <2> QED
    BY <1>6, <2>2, <2>3 DEF Page, callVars
<1>7. ASSUME NEW c \in Clients, backend \in Storage, StorageStep(c) PROVE TypeOK'
  <2>1. call' \in [Clients -> Calls' \cup {NoRequest}] /\ second' \in [Clients -> BOOLEAN]
    BY <1>7, CallTypes DEF StorageStep, CopyDone, CopyPending, MoveCopies, MoveDeletes,
       CopyNow, CopyLater, DeleteSource
  <2>2. call[c].src \in Names /\ call[c].dst \in Names
    BY <1>7, CallParts DEF StorageStep, CopyDone, CopyPending, MoveCopies, MoveDeletes
  <2>3. CASE CopyDone(c)
    <3>1. kept' \in [Names -> Objects \cup {None, Partial}]
      BY <2>2, <2>3 DEF CopyDone, CopyNow, Answered, Keep
    <3>2. answer' \in [Clients -> {"none", "nil", "error"}]
      BY <2>3, AnswerTypes DEF CopyDone, Answered, AnswerLost
    <3> QED
      BY <2>1, <2>2, <2>3, <3>1, <3>2, WriteTypes DEF CopyDone, CopyNow
  <2>4. CASE CopyPending(c)
    <3>1. answer' \in [Clients -> {"none", "nil", "error"}]
      BY <2>4, AnswerTypes DEF CopyPending, AnswerLost
    <3> QED
      BY <2>1, <2>2, <2>4, <3>1, WriteTypes DEF CopyPending, CopyLater
  <2>5. CASE MoveCopies(c)
    <3>1. CASE CopyNow(c) /\ UNCHANGED kept
      BY <2>1, <2>2, <2>5, <3>1, WriteTypes DEF MoveCopies, CopyNow
    <3>2. CASE CopyLater(c)
      BY <2>1, <2>2, <2>5, <3>2, WriteTypes DEF MoveCopies, CopyLater
    <3> QED
      BY <2>5, <3>1, <3>2 DEF MoveCopies
  <2>6. CASE MoveDeletes(c)
    <3> DEFINE st == [store EXCEPT ![call[c].src] = None]
    <3>1. /\ st \in [Names -> Objects \cup {None, Partial, Deleted}]
          /\ \A n \in Names : st[n] = Deleted => backend = "keyvault"
      BY ReservedAssumption
    <3>2. answer' \in [Clients -> {"none", "nil", "error"}]
      BY <2>6, AnswerTypes DEF MoveDeletes, DeleteSource, AnswerLost
    <3>3. Holds(st) /\ owed' \subseteq owed /\ UNCHANGED <<backend, copying, kept>>
      BY <2>6 DEF MoveDeletes, DeleteSource
    <3> HIDE DEF st
    <3> QED
      BY <2>1, <3>1, <3>2, <3>3, HoldsTypes
  <2> QED
    BY <1>7, <2>3, <2>4, <2>5, <2>6 DEF StorageStep
<1>8. ASSUME NEW n \in Names, CopyCompletes(n) PROVE TypeOK'
  <2>1. copying[n].object \in Objects
    BY <1>8 DEF CopyCompletes
  <2> DEFINE st == [store EXCEPT ![n] = IF store[copying[n].src] = copying[n].object
                                        THEN copying[n].object ELSE Partial]
  <2>2. /\ st \in [Names -> Objects \cup {None, Partial, Deleted}]
        /\ \A m \in Names : st[m] = Deleted => backend = "keyvault"
    BY <2>1, ReservedAssumption
  <2>3. Calls' = Calls
    BY <1>8 DEF CopyCompletes, Calls
  <2>4. Holds(st) /\ owed' \subseteq owed
        /\ UNCHANGED <<backend, callVars, answer, kept>>
        /\ copying' = [copying EXCEPT ![n] = None]
    BY <1>8 DEF CopyCompletes
  <2> HIDE DEF st
  <2> QED
    BY <2>2, <2>3, <2>4, HoldsTypes DEF callVars
<1>9. ASSUME NEW n \in Names, RetentionEnds(n) PROVE TypeOK'
  <2>1. /\ [store EXCEPT ![n] = None] \in [Names -> Objects \cup {None, Partial, Deleted}]
        /\ \A m \in Names : [store EXCEPT ![n] = None][m] = Deleted => backend = "keyvault"
    BY ReservedAssumption
  <2>2. Calls' = Calls
    BY <1>9 DEF RetentionEnds, Calls
  <2> QED
    BY <1>9, <2>1, <2>2, HoldsTypes DEF RetentionEnds, callVars
<1>10. CASE UNCHANGED vars
  <2>1. Calls' = Calls
    BY <1>10 DEF vars, Calls
  <2> QED
    BY <1>10, <2>1 DEF vars, callVars
<1> QED
  BY <1>1, <1>2, <1>3, <1>4, <1>5, <1>6, <1>7, <1>8, <1>9, <1>10, StepKinds,
     ReservedAssumption DEF Removes
-----------------------------------------------------------------------------
(* Calls, copies and answered writes.                                      *)

LEMMA DueStep ==
  ASSUME Inv, [Next]_vars
  PROVE  Due'
<1> USE DEF Inv, TypeOK, Due
<1>1. ASSUME NEW c \in Clients, Return(c), UNCHANGED backend PROVE Due'
  BY <1>1 DEF Return, In
<1>2. ASSUME NEW c \in Clients, Continue(c), UNCHANGED backend, call[c] # NoRequest,
             backend = "s3" /\ In(c, "move") => call[c].src # call[c].dst
      PROVE  Due'
  BY <1>2 DEF Continue, In
<1>3. ASSUME NEW c \in Clients, NEW q \in Calls, Call(c, q) PROVE Due'
  BY <1>3 DEF Call, In
<1>4. ASSUME NEW c \in Clients, PutNotFound(c) PROVE Due'
  BY <1>2, <1>4 DEF PutNotFound, In
<1>5. ASSUME NEW c \in Clients, StorageStep(c) PROVE Due'
  <2>1. CASE MoveCopies(c)
    BY <1>2, <2>1 DEF MoveCopies, CopyNow, CopyLater, In
  <2> QED
    BY <1>1, <1>5, <2>1
       DEF StorageStep, CopyDone, CopyPending, MoveDeletes, CopyNow, CopyLater, DeleteSource
<1>6. ASSUME NEW c \in Clients, NEW pages, Page(c, pages) PROVE Due'
  BY <1>6 DEF Page, In, callVars
<1>7. CASE \/ \E n \in Names : CopyCompletes(n) \/ RetentionEnds(n)
           \/ UNCHANGED vars
  BY <1>7 DEF CopyCompletes, RetentionEnds, vars, callVars, In
<1> QED
  BY <1>1, <1>3, <1>4, <1>5, <1>6, <1>7, StepKinds DEF GiveUp, Set, Delete, Removes

LEMMA FillingStep ==
  ASSUME Inv, [Next]_vars
  PROVE  Filling'
<1> USE DEF Inv, TypeOK, Filling
<1>1. ASSUME NEW n \in Names, NEW o, copying[n] = None, Holds([store EXCEPT ![n] = o]),
             UNCHANGED <<backend, copying>>
      PROVE  Filling'
  BY <1>1 DEF Holds
<1>2. ASSUME NEW c \in Clients, Set(c) PROVE Filling'
  BY <1>1, <1>2, CallParts DEF Set, Write
<1>3. ASSUME NEW c \in Clients, NEW left, Delete(c, left) PROVE Filling'
  BY <1>1, <1>3, CallParts DEF Delete
<1>4. ASSUME NEW c \in Clients, In(c, "copy") \/ In(c, "move"), CopyNow(c) PROVE Filling'
  BY <1>1, <1>4, CallParts DEF CopyNow, Write
<1>5. ASSUME NEW c \in Clients, In(c, "copy") \/ In(c, "move"), CopyLater(c),
             backend = "azureblob"
      PROVE  Filling'
  BY <1>5, CallParts DEF CopyLater, Write, Holds
<1>6. ASSUME NEW c \in Clients, MoveDeletes(c) PROVE Filling'
  BY <1>1, <1>6, CallParts DEF MoveDeletes, DeleteSource
<1>7. ASSUME NEW n \in Names, CopyCompletes(n) PROVE Filling'
  BY <1>7 DEF CopyCompletes, Holds
<1>8. ASSUME NEW n \in Names, RetentionEnds(n) PROVE Filling'
  BY <1>1, <1>8, ReservedAssumption DEF RetentionEnds
<1>9. CASE \/ UNCHANGED vars
           \/ \E c \in Clients : \/ \E q \in Calls : Call(c, q)
                                 \/ GiveUp(c) \/ PutNotFound(c)
                                 \/ \E pages : Page(c, pages)
  BY <1>9 DEF vars, Call, GiveUp, PutNotFound, Page
<1> QED
  BY <1>2, <1>3, <1>4, <1>5, <1>6, <1>7, <1>8, <1>9, StepKinds
     DEF StorageStep, CopyDone, CopyPending, MoveCopies, Removes

\* A step that changes only names its call touches, and lets the call end or go on,
\* disturbs no answered write.
LEMMA KeptFrame ==
  ASSUME Inv, NEW c \in Clients, Return(c) \/ Continue(c), UNCHANGED kept,
         \A n \in Names : n \in Touched(c) \/ (store'[n] = store[n] /\ copying'[n] = copying[n])
  PROVE  KeptUntouched'
<1>1. \A d \in Clients : Touched(d)' \subseteq Touched(d)
  BY DEF Return, Continue, Touched, In, Inv, TypeOK
<1> QED
  BY <1>1 DEF Inv, KeptUntouched

\* The write of a call is answered: its name is kept, unless another call touches it.
LEMMA KeptWrite ==
  ASSUME Inv, NEW c \in Clients, NEW n \in Touched(c), n \in Names, NEW o,
         copying[n] = None, Holds([store EXCEPT ![n] = o]), Keep(c, n, o), Return(c),
         UNCHANGED copying
  PROVE  KeptUntouched'
<1>1. \A d \in Clients : Touched(d)' = IF d = c THEN {} ELSE Touched(d)
  BY DEF Return, Touched, In, Inv, TypeOK
<1>2. /\ store'[n] = o /\ kept[n] = None
      /\ \A m \in Names \ {n} : store'[m] = store[m] /\ kept'[m] = kept[m]
      /\ kept'[n] # None => \A d \in Clients \ {c} : n \notin Touched(d)
      /\ kept'[n] # None => kept'[n] = o
  BY DEF Holds, Keep, Inv, TypeOK, KeptUntouched
<1> QED
  BY <1>1, <1>2 DEF Inv, KeptUntouched

LEMMA KeptStep ==
  ASSUME Inv, [Next]_vars
  PROVE  KeptUntouched'
<1> USE DEF Inv, TypeOK
<1>1. ASSUME NEW c \in Clients, NEW q \in Calls, Call(c, q) PROVE KeptUntouched'
  <2>1. \A d \in Clients \ {c} : Touched(d)' = Touched(d)
    BY <1>1 DEF Call, Touched, In
  <2>2. \A n \in Touched(c)' : kept'[n] = None \/ n \notin Names
    BY <1>1 DEF Call, Touched, In, Calls, Sets, Deletes, Copies, List
  <2>3. \A n \in Names : kept'[n] # None => kept'[n] = kept[n]
    BY <1>1 DEF Call
  <2> QED
    BY <1>1, <2>1, <2>2, <2>3 DEF Call, KeptUntouched
<1>2. ASSUME NEW c \in Clients, GiveUp(c) \/ PutNotFound(c) PROVE KeptUntouched'
  BY <1>2, KeptFrame DEF GiveUp, PutNotFound
<1>3. ASSUME NEW c \in Clients, Set(c) PROVE KeptUntouched'
  <2>1. call[c].name \in Touched(c) /\ call[c].name \in Names
    BY <1>3, CallParts DEF Set, Touched, In
  <2>2. \A n \in Names : n \in Touched(c) \/ (store'[n] = store[n] /\ copying'[n] = copying[n])
    BY <1>3, <2>1 DEF Set, Write, Holds
  <2> QED
    BY <1>3, <2>1, <2>2, KeptWrite, KeptFrame DEF Set, Write, Answered
<1>4. ASSUME NEW c \in Clients, NEW left, Delete(c, left) PROVE KeptUntouched'
  <2>1. call[c].name \in Touched(c)
    BY <1>4 DEF Delete, Touched, In
  <2> QED
    BY <1>4, <2>1, KeptFrame DEF Delete, Holds
<1>5. ASSUME NEW c \in Clients, In(c, "copy") \/ In(c, "move")
      PROVE  /\ call[c].src \in Touched(c) /\ call[c].dst \in Touched(c)
             /\ call[c].dst \in Names
  BY <1>5, CallParts DEF Touched, In
<1>6. ASSUME NEW c \in Clients, CopyDone(c) PROVE KeptUntouched'
  <2>1. \A n \in Names : n \in Touched(c) \/ (store'[n] = store[n] /\ copying'[n] = copying[n])
    BY <1>5, <1>6 DEF CopyDone, CopyNow, Write, Holds
  <2> QED
    BY <1>5, <1>6, <2>1, KeptWrite, KeptFrame DEF CopyDone, CopyNow, Write, Answered
<1>7. ASSUME NEW c \in Clients, CopyPending(c) \/ MoveCopies(c) PROVE KeptUntouched'
  <2>1. \A n \in Names : n \in Touched(c) \/ (store'[n] = store[n] /\ copying'[n] = copying[n])
    BY <1>5, <1>7 DEF CopyPending, MoveCopies, CopyNow, CopyLater, Write, Holds
  <2> QED
    BY <1>7, <2>1, KeptFrame DEF CopyPending, MoveCopies, CopyLater
<1>8. ASSUME NEW c \in Clients, MoveDeletes(c) PROVE KeptUntouched'
  BY <1>5, <1>8, KeptFrame DEF MoveDeletes, DeleteSource, Holds
<1>9. ASSUME NEW n \in Names, CopyCompletes(n) \/ RetentionEnds(n) PROVE KeptUntouched'
  <2>1. kept[n] = None
    BY <1>9, ReservedAssumption DEF CopyCompletes, RetentionEnds, KeptUntouched
  <2>2. \A m \in Names \ {n} : store'[m] = store[m] /\ copying'[m] = copying[m]
    BY <1>9 DEF CopyCompletes, RetentionEnds, Holds
  <2> QED
    BY <1>9, <2>1, <2>2 DEF CopyCompletes, RetentionEnds, KeptUntouched, callVars, Touched, In
<1>10. CASE UNCHANGED vars \/ \E c \in Clients : \E pages : Page(c, pages)
  BY <1>10 DEF vars, callVars, Page, KeptUntouched, Touched, In
<1> QED
  BY <1>1, <1>2, <1>3, <1>4, <1>6, <1>7, <1>8, <1>9, <1>10, StepKinds DEF StorageStep, Removes

-----------------------------------------------------------------------------
(* Listings.                                                               *)

\* A request that changes the store leaves every listing in order.
LEMMA ListingHolds ==
  ASSUME Inv, NEW st, Holds(st),
         \A d \in Clients : In(d, "list")' => In(d, "list")
  PROVE  Listing'
<1>1. Present(store)' = Present(st)
  BY DEF Holds, Present
<1>2. ASSUME NEW d \in Clients, In(d, "list")
      PROVE  /\ seen'[d].left = seen[d].left /\ seen'[d].got = seen[d].got
             /\ seen'[d].stay = seen[d].stay \cap Present(st)
             /\ seen'[d].ever = seen[d].ever \cup Present(st)
  BY <1>2 DEF Holds, Inv, TypeOK
<1> QED
  BY <1>1, <1>2 DEF Inv, Listing

LEMMA ListingStep ==
  ASSUME Inv, [Next]_vars
  PROVE  Listing'
<1> USE DEF Inv, TypeOK
<1>1. ASSUME NEW c \in Clients, NEW q \in Calls, Call(c, q) PROVE Listing'
  <2>1. Present(store) \subseteq Names /\ Present(store)' = Present(store)
    BY <1>1 DEF Call, Present
  <2>2. \A d \in Clients \ {c} : (In(d, "list")' <=> In(d, "list")) /\ seen'[d] = seen[d]
    BY <1>1 DEF Call, In
  <2>3. CASE q = List
    BY <1>1, <2>1, <2>2, <2>3 DEF Call, Listing
  <2>4. CASE q # List
    <3>1. ~In(c, "list")'
      BY <1>1, <2>4 DEF Call, In, Calls, Sets, Deletes, Copies, List
    <3> QED
      BY <2>1, <2>2, <3>1 DEF Listing
  <2> QED
    BY <2>3, <2>4
<1>2. ASSUME NEW c \in Clients, Return(c) \/ Continue(c)
      PROVE  \A d \in Clients : In(d, "list")' => In(d, "list") /\ (d # c \/ Continue(c))
  BY <1>2 DEF Return, Continue, In
<1>3. ASSUME NEW c \in Clients, GiveUp(c) PROVE Listing'
  <2>1. \A d \in Clients : In(d, "list")' => d # c /\ In(d, "list")
    BY <1>3 DEF GiveUp, Return, In
  <2> QED
    BY <1>3, <2>1 DEF GiveUp, Listing, Present
<1>4. ASSUME NEW c \in Clients, PutNotFound(c) PROVE Listing'
  BY <1>4 DEF PutNotFound, Continue, Listing, Present, In
<1>5. ASSUME NEW c \in Clients, NEW left, Set(c) \/ Delete(c, left) PROVE Listing'
  BY <1>2, <1>5, ListingHolds DEF Set, Write, Delete
<1>6. ASSUME NEW c \in Clients, StorageStep(c) PROVE Listing'
  <2>1. \A d \in Clients : In(d, "list")' => In(d, "list")
    BY <1>2, <1>6 DEF StorageStep, CopyDone, CopyPending, MoveCopies, MoveDeletes, DeleteSource
  <2>2. \E st : Holds(st)
    BY <1>6 DEF StorageStep, CopyDone, CopyPending, MoveCopies, MoveDeletes, DeleteSource,
       CopyNow, CopyLater, Write
  <2> QED
    BY <2>1, <2>2, ListingHolds
<1>7. ASSUME NEW c \in Clients, NEW pages \in SUBSET SUBSET seen[c].left, Page(c, pages)
      PROVE  Listing'
  <2>1. PICK page \in SUBSET seen[c].left :
           seen' = [seen EXCEPT ![c] = [left |-> seen[c].left \ page,
                                        got |-> seen[c].got \cup (page \cap Present(store)),
                                        stay |-> seen[c].stay, ever |-> seen[c].ever]]
    BY <1>7, PageEffect
  <2>2. /\ \A d \in Clients : In(d, "list")' <=> In(d, "list")
        /\ Present(store)' = Present(store)
    BY <1>7 DEF Page, In, callVars, Present
  <2>3. \A d \in Clients \ {c} : seen'[d] = seen[d]
    BY <2>1
  <2>4. /\ seen'[c].left = seen[c].left \ page
        /\ seen'[c].got = seen[c].got \cup (page \cap Present(store))
        /\ seen'[c].stay = seen[c].stay /\ seen'[c].ever = seen[c].ever
    BY <2>1
  <2>5. ASSUME In(c, "list")
        PROVE  /\ seen'[c].stay \ seen'[c].left \subseteq seen'[c].got
               /\ seen'[c].got \subseteq seen'[c].ever
               /\ seen'[c].stay \subseteq Present(store)
               /\ Present(store) \subseteq seen'[c].ever
    BY <2>4, <2>5 DEF Listing
  <2> QED
    BY <2>2, <2>3, <2>5 DEF Listing
<1>8. ASSUME NEW n \in Names, CopyCompletes(n) \/ RetentionEnds(n) PROVE Listing'
  <2>1. \E st : Holds(st)
    BY <1>8 DEF CopyCompletes, RetentionEnds
  <2> QED
    BY <1>8, <2>1, ListingHolds DEF CopyCompletes, RetentionEnds, callVars, In
<1>9. CASE UNCHANGED vars
  BY <1>9 DEF vars, callVars, Listing, Present, In
<1> QED
  BY <1>1, <1>3, <1>4, <1>5, <1>6, <1>7, <1>8, <1>9, StepKinds DEF Removes
-----------------------------------------------------------------------------
(* Objects that are owed.                                                  *)

\* A write leaves every owed object but the one it overwrites where it was safe, and
\* the one it writes is owed only if no Move is about to delete the name.
LEMMA WriteSafe ==
  ASSUME Inv, NEW n \in Names, NEW o, Write(n, o)
  PROVE  /\ \A p \in owed' \ {o} : \E m \in Names \ {n} : store[m] = p /\ Safe(m)
         /\ o \in owed' => ~AboutToGo(n)
         /\ \A m \in Names \ {n} : store'[m] = store[m]
         /\ store'[n] = o
<1>1. \A p \in owed' \ {o} : p \in owed /\ p # store[n]
  BY DEF Write
<1>2. store' = [store EXCEPT ![n] = o]
  BY DEF Write, Holds
<1> QED
  BY <1>1, <1>2 DEF Write, Inv, OwedSafe, TypeOK

\* A name stays safe unless a Move has just begun to doom it.
LEMMA SafeKept ==
  ASSUME NEW m \in Names, Safe(m), \A d \in Clients : Dooms(d, m)' => Dooms(d, m)
  PROVE  Safe(m)'
  BY DEF Safe

\* Moves that went on before the step, and see the same name and the same copy, doom
\* what they doomed.
LEMMA DoomsSame ==
  ASSUME NEW d \in Clients, NEW m \in Names,
         In(d, "move")' /\ second'[d] => In(d, "move") /\ second[d] /\ call'[d] = call[d],
         In(d, "move") => copying'[call[d].dst] = copying[call[d].dst],
         store'[m] = store[m]
  PROVE  Dooms(d, m)' => Dooms(d, m)
  BY DEF Dooms

\* A name nobody is about to delete is safe.
LEMMA NotGoingSafe ==
  ASSUME NEW m \in Names, ~AboutToGo(m)
  PROVE  Safe(m)
  BY DEF AboutToGo, Safe, Dooms

LEMMA OwedFrame ==
  ASSUME Inv, owed' \subseteq owed, UNCHANGED copying,
         \A m \in Names : store'[m] = store[m] \/ store[m] \notin owed' \/ ~Safe(m),
         \A d \in Clients : In(d, "move")' /\ second'[d] =>
                               In(d, "move") /\ second[d] /\ call'[d] = call[d]
  PROVE  OwedSafe'
<1> SUFFICES ASSUME NEW o \in owed' PROVE \E n \in Names : store'[n] = o /\ Safe(n)'
  BY DEF OwedSafe
<1>1. PICK n \in Names : store[n] = o /\ Safe(n)
  BY DEF Inv, OwedSafe
<1>2. store'[n] = store[n]
  BY <1>1
<1>3. Safe(n)'
  BY <1>1, <1>2, DoomsSame, SafeKept
<1> QED
  BY <1>1, <1>2, <1>3

\* A call that returns, or a SetSecret that goes on, dooms nothing new.
LEMMA NoNewMove ==
  ASSUME TypeOK, NEW c \in Clients,
         Return(c) \/ (Continue(c) /\ ~In(c, "move")) \/ UNCHANGED callVars
  PROVE  \A d \in Clients : In(d, "move")' /\ second'[d] =>
                               In(d, "move") /\ second[d] /\ call'[d] = call[d]
  BY DEF Return, Continue, callVars, In, TypeOK

LEMMA OwedSet ==
  ASSUME Inv, NEW c \in Clients, NEW n \in Names, NEW o,
         Write(n, o), Return(c), UNCHANGED copying
  PROVE  OwedSafe'
<1> SUFFICES ASSUME NEW p \in owed' PROVE \E m \in Names : store'[m] = p /\ Safe(m)'
  BY DEF OwedSafe
<1>1. \A m \in Names : store'[m] = store[m] /\ Safe(m) => Safe(m)'
  BY NoNewMove, DoomsSame, SafeKept DEF Inv
<1>2. CASE p # o
  BY <1>1, <1>2, WriteSafe
<1>3. CASE p = o
  <2>1. ~AboutToGo(n) /\ store'[n] = o
    BY <1>3, WriteSafe
  <2>2. ~AboutToGo(n)'
    BY <2>1, NoNewMove DEF AboutToGo, Inv
  <2>3. Safe(n)'
    BY <2>2 DEF AboutToGo, Safe, Dooms
  <2> QED
    BY <1>3, <2>1, <2>3
<1> QED
  BY <1>2, <1>3

\* The first request of a Move, that was answered: the copy is where the Move says.
LEMMA OwedMoveCopied ==
  ASSUME Inv, NEW c \in Clients, In(c, "move"), CopyNow(c), Continue(c)
  PROVE  OwedSafe'
<1> DEFINE n == call[c].src
           t == call[c].dst
<1>1. n \in Names /\ t \in Names /\ ~second[c] /\ copying' = copying /\ Write(t, Source(c))
  BY CallParts DEF Inv, CopyNow
<1>2. call' = call /\ \A d \in Clients \ {c} : second'[d] = second[d]
  BY DEF Continue, Inv, TypeOK
<1>3. \A m \in Names : \A d \in Clients :
         store'[m] = store[m] /\ (d # c \/ m # n) => (Dooms(d, m)' => Dooms(d, m))
  BY <1>1, <1>2 DEF Dooms, In, Continue
<1> SUFFICES ASSUME NEW p \in owed' PROVE \E m \in Names : store'[m] = p /\ Safe(m)'
  BY DEF OwedSafe
<1>4. CASE p # Source(c)
  <2>1. PICK m \in Names \ {t} : store[m] = p /\ Safe(m) /\ store'[m] = store[m]
    BY <1>1, <1>4, WriteSafe
  <2>2. m # n
    BY <1>4, <2>1 DEF Source
  <2> QED
    BY <1>3, <2>1, <2>2, SafeKept
<1>5. CASE p = Source(c)
  <2>1. ~AboutToGo(t) /\ store'[t] = p
    BY <1>1, <1>5, WriteSafe
  <2>2. ASSUME NEW d \in Clients, d # c PROVE ~Dooms(d, t)'
    <3>1. ~(In(d, "move") /\ second[d] /\ call[d].src = t)
      BY <2>1 DEF AboutToGo
    <3> QED
      BY <1>2, <2>2, <3>1 DEF Dooms, In
  <2>3. ~Dooms(c, t)'
    BY <1>2 DEF Dooms
  <2> QED
    BY <1>1, <1>2, <2>1, <2>2, <2>3 DEF Safe
<1> QED
  BY <1>4, <1>5

\* A copy that Azure makes later: what is at the source stays safe there, for the delete
\* of a pending Move is known to lose it.
LEMMA OwedCopyLater ==
  ASSUME Inv, NEW c \in Clients,
         (In(c, "copy") /\ Return(c)) \/ (In(c, "move") /\ Continue(c)),
         CopyLater(c)
  PROVE  OwedSafe'
<1> DEFINE n == call[c].src
           t == call[c].dst
<1>1. n \in Names /\ t \in Names /\ n # t /\ ~second[c] /\ Write(t, Partial)
  BY CallParts DEF Inv, CopyLater
<1>2. /\ copying[t] = None
      /\ copying'[t] = [src |-> n, object |-> store[n]] /\ copying'[t] # None
      /\ \A m \in Names \ {t} : copying'[m] = copying[m]
  BY <1>1, ReservedAssumption DEF CopyLater, Source, Write, Inv, TypeOK
<1>3. \A d \in Clients \ {c} : call'[d] = call[d] /\ second'[d] = second[d]
  BY DEF Continue, Return, Inv, TypeOK
<1>4. store'[n] = store[n]
  BY <1>1, WriteSafe
<1>5. ASSUME NEW m \in Names, store'[m] = store[m], Safe(m)
      PROVE  Safe(m)'
  <2>1. ASSUME NEW d \in Clients \ {c} PROVE ~Dooms(d, m)'
    <3>1. In(d, "move") => call[d].dst \in Names
      BY CallParts DEF Inv
    <3> QED
      BY <1>2, <1>3, <1>5, <2>1, <3>1 DEF Dooms, In, Safe
  <2>2. ~Dooms(c, m)'
    BY <1>1, <1>2, <1>4 DEF Dooms, In, Continue, Return, Inv, TypeOK
  <2> QED
    BY <2>1, <2>2 DEF Safe
<1> SUFFICES ASSUME NEW p \in owed' PROVE \E m \in Names : store'[m] = p /\ Safe(m)'
  BY DEF OwedSafe
<1>6. p # Partial
  BY <1>1, ReservedAssumption DEF Write
<1> QED
  BY <1>1, <1>5, <1>6, WriteSafe

\* The delete of a Move takes only what it doomed, or what owed gives up with it.
LEMMA OwedMoveDeletes ==
  ASSUME Inv, NEW c \in Clients, MoveDeletes(c)
  PROVE  OwedSafe'
<1>1. call[c].src \in Names /\ call[c].dst \in Names /\ second[c] /\ In(c, "move")
  BY CallParts DEF Inv, MoveDeletes, DeleteSource
<1>2. \A m \in Names \ {call[c].src} : store'[m] = store[m]
  BY DEF MoveDeletes, DeleteSource, Holds, Inv, TypeOK
<1>3. Safe(call[c].src) => store[call[c].src] \notin owed'
  BY <1>1 DEF Safe, Dooms, MoveDeletes, Source
<1>4. owed' \subseteq owed /\ UNCHANGED copying /\ Return(c)
  BY DEF MoveDeletes, DeleteSource
<1> QED
  BY <1>2, <1>3, <1>4, NoNewMove, OwedFrame DEF Inv

\* A copy that is finished dooms the source of its Move, and holds what was there.
LEMMA OwedCopyCompletes ==
  ASSUME Inv, NEW n \in Names, CopyCompletes(n)
  PROVE  OwedSafe'
<1> DEFINE k == copying[n]
<1>1. /\ k # None /\ k.src \in Names /\ k.object \in Objects /\ store[n] = Partial
  BY DEF CopyCompletes, Inv, TypeOK, Filling
<1>2. /\ store'[n] = IF store[k.src] = k.object THEN k.object ELSE Partial
      /\ \A m \in Names \ {n} : store'[m] = store[m] /\ copying'[m] = copying[m]
      /\ copying'[n] = None
      /\ owed' = IF AboutToGo(n) THEN owed \ {k.object} ELSE owed
      /\ UNCHANGED callVars
  BY <1>1 DEF CopyCompletes, Holds, Inv, TypeOK
<1> SUFFICES ASSUME NEW p \in owed' PROVE \E m \in Names : store'[m] = p /\ Safe(m)'
  BY DEF OwedSafe
<1>3. PICK m \in Names : store[m] = p /\ Safe(m)
  BY <1>2 DEF Inv, OwedSafe
<1>4. m # n
  BY <1>1, <1>2, <1>3, ReservedAssumption DEF Inv, TypeOK
<1>5. CASE Safe(m)'
  BY <1>2, <1>3, <1>4, <1>5
<1>6. CASE ~Safe(m)'
  <2>1. PICK d \in Clients : Dooms(d, m)' /\ ~Dooms(d, m)
    BY <1>3, <1>6 DEF Safe
  <2>2. call[d].dst = n
    <3>1. In(d, "move") /\ call[d].dst \in Names
      BY <1>2, <2>1, CallParts DEF Dooms, In, callVars, Inv
    <3> QED
      BY <1>2, <1>4, <2>1, <3>1 DEF Dooms, In, callVars
  <2>3. k = [src |-> m, object |-> p]
    BY <1>2, <1>3, <1>4, <2>1, <2>2 DEF Dooms, In, callVars
  <2>4. k.src = m /\ k.object = p
    BY <2>3
  <2>5. store'[n] = p /\ ~AboutToGo(n)
    BY <1>2, <1>3, <2>4
  <2>6. Safe(n)'
    BY <1>2, <2>5 DEF AboutToGo, Safe, Dooms, In, callVars
  <2> QED
    BY <2>5, <2>6
<1> QED
  BY <1>5, <1>6

LEMMA OwedStep ==
  ASSUME Inv, [Next]_vars
  PROVE  OwedSafe'
<1>1. ASSUME NEW c \in Clients, NEW q \in Calls, Call(c, q) PROVE OwedSafe'
  <2>1. \A d \in Clients : second'[d] => d # c /\ call'[d] = call[d]
    BY <1>1 DEF Call, Inv, TypeOK, Due
  <2> QED
    BY <1>1, <2>1, OwedFrame DEF Call, In
<1>2. ASSUME NEW c \in Clients, GiveUp(c) \/ PutNotFound(c) PROVE OwedSafe'
  <2>1. PutNotFound(c) => ~In(c, "move")
    BY DEF PutNotFound, In
  <2> QED
    BY <1>2, <2>1, NoNewMove, OwedFrame DEF GiveUp, PutNotFound, Inv
<1>3. ASSUME NEW c \in Clients, Set(c) PROVE OwedSafe'
  BY <1>3, CallParts, OwedSet DEF Set, Inv
<1>4. ASSUME NEW c \in Clients, NEW left, Delete(c, left) PROVE OwedSafe'
  <2>1. \A m \in Names : store'[m] = store[m] \/ store[m] \notin owed'
    BY <1>4 DEF Delete, Holds, Inv, TypeOK
  <2> QED
    BY <1>4, <2>1, NoNewMove, OwedFrame DEF Delete, Inv
<1>5. ASSUME NEW c \in Clients, NEW pages, Page(c, pages) PROVE OwedSafe'
  <2>1. UNCHANGED <<store, copying, callVars, owed>>
    BY <1>5 DEF Page
  <2> QED
    BY <2>1, OwedFrame DEF callVars, In
<1>6. ASSUME NEW c \in Clients, CopyDone(c) PROVE OwedSafe'
  BY <1>6, CallParts, OwedSet DEF CopyDone, CopyNow, Inv
<1>7. ASSUME NEW c \in Clients, CopyPending(c) PROVE OwedSafe'
  <2>1. In(c, "copy") /\ Return(c) /\ CopyLater(c)
    BY <1>7 DEF CopyPending
  <2> QED
    BY <2>1, OwedCopyLater
<1>8. ASSUME NEW c \in Clients, MoveCopies(c) PROVE OwedSafe'
  BY <1>8, OwedMoveCopied, OwedCopyLater DEF MoveCopies
<1>9. ASSUME NEW n \in Names, RetentionEnds(n) PROVE OwedSafe'
  <2>1. \A m \in Names : store'[m] = store[m] \/ store[m] \notin owed'
    BY <1>9, ReservedAssumption DEF RetentionEnds, Holds, Inv, TypeOK
  <2> QED
    BY <1>9, <2>1, OwedFrame DEF RetentionEnds, callVars, In
<1>10. CASE UNCHANGED vars
  BY <1>10, OwedFrame DEF vars, callVars, In
<1> QED
  BY <1>1, <1>2, <1>3, <1>4, <1>5, <1>6, <1>7, <1>8, <1>9, <1>10, StepKinds,
     OwedMoveDeletes, OwedCopyCompletes DEF StorageStep, Removes
-----------------------------------------------------------------------------
(* The secret backends implement SecretStore.                              *)

LEMMA SecretsInit == Init => SecretStore!Init
<1> SUFFICES ASSUME Init PROVE SecretStore!Init
  OBVIOUS
<1>1. SecretsHeld = [n \in {} |-> CHOOSE v \in Objects : TRUE]
  <2>1. {m \in Names : store[m] \in Objects} = {}
    BY ReservedAssumption DEF Init
  <2> QED
    BY <2>1 DEF SecretsHeld
<1>2. UpdatesAsked = [c \in Clients |-> NoRequest]
  BY DEF Init, UpdatesAsked, In
<1> QED
  BY <1>1, <1>2 DEF SecretStore!Init, Init

\* The secrets are what they were when no name won or lost an object.
LEMMA SecretsSame ==
  ASSUME UNCHANGED backend,
         backend \in Secrets => \A n \in Names :
            store'[n] = store[n] \/ {store[n], store'[n]} \cap Objects = {}
  PROVE  UNCHANGED SecretsHeld
<1>1. CASE backend \in Secrets
  <2>1. {m \in Names : store'[m] \in Objects} = {m \in Names : store[m] \in Objects}
    BY <1>1
  <2>2. \A n \in {m \in Names : store[m] \in Objects} : store'[n] = store[n]
    BY <1>1
  <2> QED
    BY <1>1, <2>1, <2>2 DEF SecretsHeld
<1>2. CASE backend \notin Secrets
  BY <1>2 DEF SecretsHeld
<1> QED
  BY <1>1, <1>2

\* The updates that are asked for when c's call returns, or goes on.
LEMMA AskedAfter ==
  ASSUME TypeOK, NEW c \in Clients, UNCHANGED backend
  PROVE  /\ Return(c) => UpdatesAsked' = [UpdatesAsked EXCEPT ![c] = NoRequest]
         /\ call' = call => UNCHANGED UpdatesAsked
  BY DEF Return, UpdatesAsked, In, TypeOK

\* A call that returns after its update was made: its answer came, or was lost.
LEMMA UpdateReturns ==
  ASSUME Inv, backend \in Secrets, NEW c \in Clients, UpdatesAsked[c] # NoRequest,
         SecretsHeld' = SecretStore!Updated(SecretsHeld, UpdatesAsked[c]),
         Return(c), UNCHANGED backend, Answer(c, "nil") \/ Answer(c, "error")
  PROVE  SecretStore!Succeed(c) \/ SecretStore!Fail(c)
<1>1. UpdatesAsked' = [UpdatesAsked EXCEPT ![c] = NoRequest]
  BY AskedAfter DEF Inv
<1>2. PICK a \in {"nil", "error"} : answer' = [answer EXCEPT ![c] = a]
  BY DEF Answer
<1>3. [d \in Clients |-> FALSE]' = [[d \in Clients |-> FALSE] EXCEPT ![c] = FALSE]
  OBVIOUS
<1>4. SecretStore!Return(c, a)
  BY <1>1, <1>2, <1>3 DEF SecretStore!Return
<1> QED
  BY <1>2, <1>4 DEF SecretStore!Succeed, SecretStore!Fail

LEMMA SetReturns ==
  ASSUME Inv, backend \in Secrets, NEW c \in Clients, Set(c)
  PROVE  SecretStore!Succeed(c) \/ SecretStore!Fail(c)
<1> DEFINE n == call[c].name
           o == call[c].value
<1>1. n \in Names /\ o \in Objects /\ In(c, "set") /\ UNCHANGED backend /\ Return(c)
  BY CallParts DEF Inv, Set
<1>2. store' = [store EXCEPT ![n] = o]
  BY DEF Set, Write, Holds
<1>3. UpdatesAsked[c] = call[c] /\ call[c] # NoRequest /\ call[c].op = "set"
  BY <1>1 DEF UpdatesAsked, In
<1>4. SecretsHeld' = SecretStore!Updated(SecretsHeld, call[c])
  <2>1. {m \in Names : store'[m] \in Objects} = {m \in Names : store[m] \in Objects} \cup {n}
    BY <1>1, <1>2 DEF Inv, TypeOK
  <2>2. SecretsHeld = [m \in {k \in Names : store[k] \in Objects} |-> store[m]]
    BY DEF SecretsHeld
  <2>3. SecretsHeld' = [m \in {k \in Names : store'[k] \in Objects} |-> store'[m]]
    BY <1>1 DEF SecretsHeld
  <2>4. SecretStore!Updated(SecretsHeld, call[c]) =
          [m \in {k \in Names : store[k] \in Objects} \cup {n} |->
             IF m = n THEN o ELSE store[m]]
    BY <1>3, <2>2 DEF SecretStore!Updated
  <2> QED
    BY <1>1, <1>2, <2>1, <2>3, <2>4 DEF Inv, TypeOK
<1> QED
  BY <1>1, <1>3, <1>4, UpdateReturns DEF Set, Answered, AnswerLost

LEMMA DeleteReturns ==
  ASSUME Inv, backend \in Secrets, NEW c \in Clients, NEW left \in {None, Deleted},
         Delete(c, left)
  PROVE  SecretStore!Succeed(c) \/ SecretStore!Fail(c)
<1> DEFINE n == call[c].name
<1>1. n \in Names /\ In(c, "delete") /\ UNCHANGED backend /\ Return(c)
  BY CallParts DEF Inv, Delete
<1>2. store' = [store EXCEPT ![n] = IF @ \in Objects \cup {Partial} THEN left ELSE @]
  BY DEF Delete, Holds
<1>3. UpdatesAsked[c] = call[c] /\ call[c] # NoRequest /\ call[c].op = "delete"
  BY <1>1 DEF UpdatesAsked, In
<1>4. SecretsHeld' = SecretStore!Updated(SecretsHeld, call[c])
  <2>1. store'[n] \notin Objects
    BY <1>1, <1>2, ReservedAssumption DEF Inv, TypeOK
  <2>2. {m \in Names : store'[m] \in Objects} = {m \in Names : store[m] \in Objects} \ {n}
    BY <1>1, <1>2, <2>1 DEF Inv, TypeOK
  <2>3. SecretsHeld = [m \in {k \in Names : store[k] \in Objects} |-> store[m]]
    BY DEF SecretsHeld
  <2>4. SecretsHeld' = [m \in {k \in Names : store'[k] \in Objects} |-> store'[m]]
    BY <1>1 DEF SecretsHeld
  <2>5. SecretStore!Updated(SecretsHeld, call[c]) =
          [m \in {k \in Names : store[k] \in Objects} \ {n} |-> store[m]]
    BY <1>3, <2>3 DEF SecretStore!Updated
  <2>6. \A m \in {k \in Names : store[k] \in Objects} \ {n} : store'[m] = store[m]
    BY <1>2 DEF Inv, TypeOK
  <2> QED
    BY <2>2, <2>4, <2>5, <2>6
<1> QED
  BY <1>1, <1>3, <1>4, UpdateReturns DEF Delete, AnswerLost

\* Where no secret backend is in use, nothing is seen of any call.
LEMMA StorageUnseen ==
  ASSUME Inv, [Next]_vars, backend \notin Secrets
  PROVE  UNCHANGED <<SecretsHeld, UpdatesAsked, answer>>
<1>1. ASSUME NEW c \in Clients, NEW a, Answer(c, a)
      PROVE  UNCHANGED answer
  BY <1>1 DEF Answer, Inv, TypeOK
<1> DEFINE Same == UNCHANGED <<backend, answer>>
<1>2. ASSUME NEW c \in Clients, NEW q \in Calls, Call(c, q) PROVE Same
  BY <1>1, <1>2 DEF Call
<1>3. ASSUME NEW c \in Clients, GiveUp(c) \/ PutNotFound(c) PROVE Same
  BY <1>1, <1>3 DEF GiveUp, PutNotFound
<1>4. ASSUME NEW c \in Clients, Set(c) \/ Removes(c) PROVE Same
  BY <1>1, <1>4 DEF Set, Answered, AnswerLost, Removes, Delete
<1>5. ASSUME NEW c \in Clients, CopyDone(c) \/ CopyPending(c) PROVE Same
  BY <1>1, <1>5 DEF CopyDone, CopyPending, CopyNow, CopyLater, Answered, AnswerLost
<1>6. ASSUME NEW c \in Clients, MoveCopies(c) \/ MoveDeletes(c) PROVE Same
  BY <1>1, <1>6 DEF MoveCopies, CopyNow, CopyLater, MoveDeletes, DeleteSource, AnswerLost
<1>7. ASSUME NEW c \in Clients, NEW pages, Page(c, pages) PROVE Same
  BY <1>7 DEF Page
<1>8. ASSUME NEW n \in Names, CopyCompletes(n) \/ RetentionEnds(n) PROVE Same
  BY <1>8 DEF CopyCompletes, RetentionEnds
<1>9. ASSUME UNCHANGED vars PROVE Same
  BY <1>9 DEF vars
<1>10. Same
  BY <1>2, <1>3, <1>4, <1>5, <1>6, <1>7, <1>8, <1>9, StepKinds DEF StorageStep
<1> QED
  BY <1>10 DEF SecretsHeld, UpdatesAsked

LEMMA SecretsStep ==
  ASSUME Inv, [Next]_vars
  PROVE  [SecretStore!Next]_<<SecretsHeld, UpdatesAsked, [c \in Clients |-> FALSE], answer>>
<1> SUFFICES SecretStore!Next \/ UNCHANGED <<SecretsHeld, UpdatesAsked, answer>>
  OBVIOUS
<1>1. CASE backend \notin Secrets
  BY <1>1, StorageUnseen
<1>2. CASE backend \in Secrets /\ backend \notin Storage
  <2>1. ASSUME NEW c \in Clients, NEW q \in Calls, Call(c, q)
        PROVE  SecretStore!Next \/ UNCHANGED <<SecretsHeld, UpdatesAsked, answer>>
    <3>1. UNCHANGED SecretsHeld /\ UNCHANGED backend /\ call[c] = NoRequest
          /\ call' = [call EXCEPT ![c] = q]
      BY <2>1, SecretsSame DEF Call
    <3>2. CASE q = List
      <4>1. answer' = answer
        BY <2>1, <3>2 DEF Call, Inv, TypeOK
      <4>2. UpdatesAsked' = UpdatesAsked
        BY <3>1, <3>2 DEF UpdatesAsked, In, List, Inv, TypeOK
      <4> QED
        BY <3>1, <4>1, <4>2
    <3>3. CASE q \in Sets \cup Deletes
      <4>1. q.op # "list" /\ q \in SecretStore!Requests
        BY <3>3 DEF Sets, Deletes, SecretStore!Requests, SecretStore!Sets, SecretStore!Deletes
      <4>2. answer' = [answer EXCEPT ![c] = "none"]
        <5>1. q # List
          BY <4>1 DEF List
        <5> QED
          BY <1>2, <2>1, <5>1 DEF Call, Answer
      <4>3. UpdatesAsked[c] = NoRequest /\ UpdatesAsked' = [UpdatesAsked EXCEPT ![c] = q]
        BY <1>2, <3>1, <4>1 DEF UpdatesAsked, In, Inv, TypeOK
      <4>4. SecretStore!Ask(c, q)
        BY <3>1, <4>2, <4>3 DEF SecretStore!Ask
      <4> QED
        BY <4>1, <4>4 DEF SecretStore!Next
    <3> QED
      BY <1>2, <3>2, <3>3 DEF Calls
  <2>2. ASSUME NEW c \in Clients, GiveUp(c)
        PROVE  SecretStore!Next \/ UNCHANGED <<SecretsHeld, UpdatesAsked, answer>>
    <3>1. /\ UNCHANGED SecretsHeld /\ UpdatesAsked' = [UpdatesAsked EXCEPT ![c] = NoRequest]
          /\ call[c] # NoRequest
      BY <2>2, SecretsSame, AskedAfter DEF GiveUp, Inv
    <3>2. CASE In(c, "list")
      <4>1. UpdatesAsked[c] = NoRequest /\ answer' = answer
        BY <2>2, <3>2 DEF UpdatesAsked, GiveUp
      <4> QED
        BY <3>1, <4>1 DEF UpdatesAsked
    <3>3. CASE ~In(c, "list")
      <4>1. UpdatesAsked[c] # NoRequest
        BY <1>2, <3>1, <3>3 DEF UpdatesAsked
      <4>2. answer' = [answer EXCEPT ![c] = "error"]
        BY <1>2, <2>2, <3>3 DEF GiveUp, Answer
      <4>3. [d \in Clients |-> FALSE]' = [[d \in Clients |-> FALSE] EXCEPT ![c] = FALSE]
        OBVIOUS
      <4>4. SecretStore!Return(c, "error")
        BY <3>1, <4>1, <4>2, <4>3 DEF SecretStore!Return
      <4>5. SecretStore!Fail(c)
        BY <3>1, <4>4 DEF SecretStore!Fail
      <4> QED
        BY <4>5 DEF SecretStore!Next
    <3> QED
      BY <3>2, <3>3
  <2>3. ASSUME NEW c \in Clients, Set(c) PROVE SecretStore!Next
    BY <1>2, <2>3, SetReturns DEF SecretStore!Next
  <2>4. ASSUME NEW c \in Clients, Removes(c)
        PROVE  SecretStore!Next
    BY <1>2, <2>4, DeleteReturns DEF SecretStore!Next, Removes
  <2>5. ASSUME NEW c \in Clients, PutNotFound(c) \/ \E pages : Page(c, pages)
        PROVE  UNCHANGED <<SecretsHeld, UpdatesAsked, answer>>
    BY <2>5, SecretsSame, AskedAfter DEF PutNotFound, Continue, Page, callVars, Inv
  <2>6. ASSUME NEW n \in Names, RetentionEnds(n)
        PROVE  UNCHANGED <<SecretsHeld, UpdatesAsked, answer>>
    <3>1. \A m \in Names : store'[m] = store[m] \/ {store[m], store'[m]} \cap Objects = {}
      BY <2>6, ReservedAssumption DEF RetentionEnds, Holds, Inv, TypeOK
    <3>2. UNCHANGED backend /\ call' = call /\ answer' = answer
      BY <2>6 DEF RetentionEnds, callVars
    <3>3. UNCHANGED UpdatesAsked
      BY <3>2 DEF UpdatesAsked, In
    <3> QED
      BY <3>1, <3>2, <3>3, SecretsSame
  <2>7. CASE UNCHANGED vars
    BY <2>7 DEF vars, callVars, SecretsHeld, UpdatesAsked, In
  <2> QED
    BY <1>2, <2>1, <2>2, <2>3, <2>4, <2>5, <2>6, <2>7, StepKinds
<1> QED
  BY <1>1, <1>2 DEF Storage, Secrets

-----------------------------------------------------------------------------
\* The inductive invariant of every storage and remote secret backend, for any clients,
\* names and objects, whichever requests fail and however the calls interleave.
THEOREM InvHolds == Spec => []Inv
<1>1. Inv /\ [Next]_vars => Inv'
  BY TypeStep, DueStep, FillingStep, KeptStep, ListingStep, OwedStep DEF Inv
<1> QED
  BY <1>1, InitInv, PTL DEF Spec

\* Every variable keeps its type.
THEOREM TypeCorrect == Spec => []TypeOK
<1>1. Inv => TypeOK
  BY DEF Inv
<1> QED
  BY <1>1, InvHolds, PTL

\* However uploads, copies, moves and failures interleave, an object stays in the store
\* until a caller overwrites or deletes it, but for the three cases of Move that owed
\* names (s3.go:188-196, azureblob.go:210-218).
THEOREM ObjectsNotLost == Spec => []NothingLost
<1>1. Inv => NothingLost
  BY DEF Inv, OwedSafe, NothingLost
<1> QED
  BY <1>1, InvHolds, PTL

\* A listing that returns no error names everything that was there from its first page to
\* its last, and nothing that never was, over any pages and any changes between them
\* (s3.go:145-164 and its three siblings).
THEOREM ListingComplete == Spec => []ListSeesWhatStays
<1>1. Inv => ListSeesWhatStays
  BY DEF Inv, Listing, ListSeesWhatStays
<1> QED
  BY <1>1, InvHolds, PTL

\* What a Set, an Upload or a Copy that returned nil has written is there until another
\* call names it.
THEOREM AnsweredWriteKept == Spec => []AnsweredWriteStays
<1>1. Inv => AnsweredWriteStays
  BY DEF Inv, KeptUntouched, AnsweredWriteStays
<1> QED
  BY <1>1, InvHolds, PTL

\* Secrets Manager with its put and create, Key Vault with its soft delete and the
\* environment implement the store secrets.Backend promises: a SetSecret or DeleteSecret
\* that returns nil has taken effect, once and at one moment, and one that returns an
\* error has done nothing, or the same where its answer was lost.
THEOREM Implementation == Spec => ImplementsSecretStore
<1> QED
  BY InvHolds, SecretsInit, SecretsStep, PTL DEF Spec, ImplementsSecretStore, SecretStore!Spec
=============================================================================
