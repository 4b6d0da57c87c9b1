--------------------------- MODULE BlockStoreProofs ---------------------------
(***************************************************************************)
(* Proofs about BlockStore, for any number of requests, blocks, payloads,  *)
(* crashes and power failures: the store never shows a torn file, leaks no *)
(* temp file while the process lives, and implements AtomicBlocks.         *)
(***************************************************************************)
EXTENDS BlockStore, TLAPS

(* StorageInv, taken apart by what it speaks of: one request ...           *)
SoundCall(s) ==
    /\ s \in CallState
    /\ s.pc \notin {"idle", "body"} => (s.kind = "put" => s.file \in File)
    /\ s.pc # "idle" => s.id \in Ids /\ s.answer = "none"
    /\ s.pc \in {"body", "put", "temp", "written", "synced"} => s.kind = "put"
    /\ s.pc \in {"get", "opened"} => s.kind = "get"
    /\ s.pc = "delete" => s.kind = "delete"
    /\ s.pc \in {"done", "failed"} => s.kind # "none"
    /\ s.pc = "get" => s.file = NoFile
    /\ s.pc = "opened" => s.file # NoFile
    /\ s.pc \in {"written", "synced"} => s.file.whole
    /\ s.pc = "synced" => s.file.synced
    /\ s.kind = "get" => s.file.whole

(* ... a file that has a name ...                                          *)
SoundFile(f) == f \in File \cup {NoFile} /\ f.whole /\ f.synced

FilesInv ==
    /\ names \in [Ids -> File \cup {NoFile}] /\ durable \in [Ids -> File \cup {NoFile}]
    /\ \A i \in Ids : SoundFile(names[i]) /\ SoundFile(durable[i])

(* ... and the temp files.                                                 *)
TempsInv ==
    /\ temps \subseteq TempFile /\ epoch \in 0..MaxCrashes
    /\ \A f \in temps : f.epoch <= epoch
    /\ TempsAccountedFor

LEMMA StorageParts ==
    StorageInv <=> /\ call \in [Calls -> CallState] /\ \A o \in Calls : SoundCall(call[o])
                   /\ FilesInv /\ TempsInv
  BY DEF StorageInv, TypeOK, CallInv, SyncInv, NeverTorn, SoundCall, SoundFile, FilesInv, TempsInv

LEMMA NoFileIsSound == SoundFile(NoFile)
  BY DEF SoundFile, NoFile

LEMMA IdleIsSound ==
    ASSUME NEW kind \in {"none", "get", "put", "delete"},
           NEW answer \in {"none", "200", "204", "400", "404", "503"}
    PROVE  SoundCall(Idle(kind, answer))
  BY DEF SoundCall, CallState, Idle, NoFile

(* A step of one request that leaves it sound, and the files, and whose    *)
(* temp file is there only while the put goes on.                          *)
LEMMA RequestStep ==
    ASSUME StorageInv, NEW o \in Calls, NEW s, SoundCall(s), Set(o, s),
           FilesInv', epoch' = epoch, temps' \subseteq temps \cup {MyTemp(o), Stuck},
           MyTemp(o) \in temps' => s.pc \in {"temp", "written", "synced"}
    PROVE  StorageInv'
  <1>i. /\ call \in [Calls -> CallState] /\ \A q \in Calls : SoundCall(call[q])
        /\ TempsInv
    BY StorageParts
  <1>1. /\ call' \in [Calls -> CallState] /\ call'[o] = s
        /\ \A q \in Calls \ {o} : call'[q] = call[q]
    BY <1>i DEF Set, SoundCall
  <1>2. \A q \in Calls : SoundCall(call'[q])
    BY <1>i, <1>1
  <1>3. temps' \subseteq TempFile /\ \A f \in temps' : f.epoch <= epoch
    BY <1>i, BlockAssumption DEF TempsInv, TempFile, MyTemp, Stuck
  <1>4. ASSUME NEW f \in temps', ~(f.epoch < epoch), f # Stuck
        PROVE  call'[f.owner].pc \in {"temp", "written", "synced"}
    <2>0. f \in temps \/ f = MyTemp(o)
      BY <1>4
    <2>1. f \in [owner : Calls, epoch : 0..MaxCrashes] /\ f.epoch = epoch
      BY <1>3, <1>4, <1>i, BlockAssumption DEF TempsInv, TempFile
    <2>2. CASE f.owner = o
      <3>1. f = MyTemp(o)
        BY <2>1, <2>2 DEF MyTemp, TempFile
      <3> QED
        BY <1>1, <2>2, <3>1
    <2>3. CASE f.owner # o
      <3>1. f \in temps
        BY <2>0, <2>3 DEF MyTemp
      <3> QED
        BY <1>4, <1>i, <1>1, <2>1, <2>3, <3>1 DEF TempsInv, TempsAccountedFor
    <2> QED
      BY <2>2, <2>3
  <1>5. TempsInv'
    BY <1>i, <1>3, <1>4 DEF TempsInv, TempsAccountedFor
  <1> QED
    BY <1>1, <1>2, <1>5 DEF StorageInv, TypeOK, CallInv, SyncInv, NeverTorn, SoundCall,
       SoundFile, FilesInv, TempsInv

(* The same for a step that touches no file at all.                        *)
LEMMA PlainStep ==
    ASSUME StorageInv, NEW o \in Calls, NEW s, SoundCall(s), Set(o, s),
           UNCHANGED <<names, durable, temps, epoch>>,
           call[o].pc \in {"temp", "written", "synced"} =>
               s.pc \in {"temp", "written", "synced"}
    PROVE  StorageInv'
  <1>1. FilesInv' /\ (TempsInv /\ temps' \subseteq temps)
    BY StorageParts DEF FilesInv
  <1>2. MyTemp(o) \in temps => call[o].pc \in {"temp", "written", "synced"}
    BY <1>1, BlockAssumption DEF TempsInv, TempsAccountedFor, MyTemp, Stuck
  <1> QED
    BY <1>1, <1>2, RequestStep

-----------------------------------------------------------------------------
LEMMA StorageInit == Init => StorageInv
  <1> SUFFICES ASSUME Init PROVE StorageInv
    OBVIOUS
  <1>1. call \in [Calls -> CallState] /\ \A o \in Calls : SoundCall(call[o])
    BY IdleIsSound DEF Init, SoundCall
  <1>2. FilesInv /\ TempsInv
    BY NoFileIsSound, BlockAssumption DEF Init, FilesInv, TempsInv, TempsAccountedFor, SoundFile
  <1> QED
    BY <1>1, <1>2, StorageParts

(* The handlers: what a request does before and after its storage call.    *)
LEMMA HandlerStep ==
    ASSUME StorageInv, NEW o \in Calls,
           \/ \E i \in Ids : StartGet(o, i) \/ StartPut(o, i) \/ StartDelete(o, i)
           \/ \E v \in Payloads : ReceiveBody(o, v)
           \/ RefuseRoute(o) \/ RefuseBody(o) \/ Respond(o) \/ Disconnect(o)
    PROVE  StorageInv'
  <1>c. call[o] \in CallState /\ SoundCall(call[o])
    BY StorageParts
  <1>1. ASSUME NEW i \in Ids, StartGet(o, i) \/ StartPut(o, i) \/ StartDelete(o, i)
        PROVE  StorageInv'
    <2> DEFINE s(pc, kind) == [Idle("none", "none") EXCEPT !.pc = pc, !.kind = kind,
                                                           !.id = i, !.attached = TRUE]
    <2>1. SoundCall(s("get", "get")) /\ SoundCall(s("body", "put"))
          /\ SoundCall(s("delete", "delete"))
      BY DEF SoundCall, CallState, Idle, NoFile
    <2>2. \/ Set(o, s("get", "get")) \/ Set(o, s("body", "put")) \/ Set(o, s("delete", "delete"))
      BY <1>1 DEF StartGet, StartPut, StartDelete, Begin
    <2>3. call[o].pc = "idle" /\ UNCHANGED <<names, durable, temps, epoch>>
      BY <1>1 DEF StartGet, StartPut, StartDelete
    <2> HIDE DEF s
    <2> QED
      BY <2>1, <2>2, <2>3, PlainStep
  <1>2. ASSUME NEW v \in Payloads, ReceiveBody(o, v) PROVE StorageInv'
    <2> DEFINE s == [call[o] EXCEPT !.pc = "put",
                        !.file = [val |-> v, whole |-> FALSE, synced |-> FALSE]]
    <2>1. SoundCall(s)
      BY <1>2, <1>c DEF ReceiveBody, SoundCall, CallState, File
    <2> QED
      BY <1>2, <2>1, PlainStep DEF ReceiveBody
  <1>3. CASE RefuseRoute(o) \/ RefuseBody(o)
    BY <1>3, IdleIsSound, PlainStep DEF RefuseRoute, RefuseBody
  <1>4. CASE Respond(o)
    <2>1. Status(o) \in {"200", "204", "404", "503"}
      BY <1>4 DEF Respond, Status
    <2>2. SoundCall(Idle(call[o].kind, IF call[o].attached THEN Status(o) ELSE "none"))
      BY <1>c, <2>1, IdleIsSound DEF CallState
    <2> QED
      BY <1>4, <2>2, PlainStep DEF Respond
  <1>5. CASE Disconnect(o)
    <2>1. SoundCall([call[o] EXCEPT !.attached = FALSE])
      BY <1>c DEF SoundCall, CallState
    <2>2. [call[o] EXCEPT !.attached = FALSE].pc = call[o].pc
      BY <1>c DEF CallState
    <2> QED
      BY <1>5, <2>1, <2>2, IdleIsSound, PlainStep DEF Disconnect
  <1> QED
    BY <1>1, <1>2, <1>3, <1>4, <1>5

(* run_put, get and delete of LocalFsProvider.                             *)
LEMMA ProviderStep ==
    ASSUME StorageInv, NEW o \in Calls,
           \/ CreateTemp(o) \/ WriteAll(o) \/ SyncAll(o) \/ Persist(o) \/ PutFails(o)
           \/ OpenFile(o) \/ ReadFile(o) \/ RemoveFile(o) \/ CallFails(o)
    PROVE  StorageInv'
  <1>c. /\ call[o] \in CallState /\ SoundCall(call[o])
        /\ FilesInv
    BY StorageParts
  <1>1. CASE CreateTemp(o)
    <2>1. SoundCall([call[o] EXCEPT !.pc = "temp"]) /\ [call[o] EXCEPT !.pc = "temp"].pc = "temp"
      BY <1>1, <1>c DEF CreateTemp, SoundCall, CallState
    <2>2. FilesInv'
      BY <1>1, <1>c DEF CreateTemp, FilesInv
    <2> QED
      BY <1>1, <2>1, <2>2, RequestStep DEF CreateTemp, Goto
  <1>2. CASE WriteAll(o)
    <2> DEFINE s == [call[o] EXCEPT !.pc = "written", !.file.whole = TRUE]
    <2>1. SoundCall(s) /\ s.pc = "written"
      BY <1>2, <1>c DEF WriteAll, SoundCall, CallState, File, NoFile
    <2> QED
      BY <1>2, <2>1, PlainStep DEF WriteAll
  <1>3. CASE SyncAll(o)
    <2> DEFINE s == [call[o] EXCEPT !.pc = "synced", !.file.synced = TRUE]
    <2>1. SoundCall(s) /\ s.pc = "synced"
      BY <1>3, <1>c DEF SyncAll, SoundCall, CallState, File, NoFile
    <2> QED
      BY <1>3, <2>1, PlainStep DEF SyncAll
  <1>4. CASE Persist(o)
    <2>1. SoundCall([call[o] EXCEPT !.pc = "done"])
      BY <1>4, <1>c DEF Persist, SoundCall, CallState
    <2>2. SoundFile(call[o].file) /\ call[o].id \in Ids
      BY <1>4, <1>c DEF Persist, SoundCall, SoundFile
    <2>3. FilesInv'
      BY <1>4, <1>c, <2>2 DEF Persist, FilesInv, SoundFile
    <2>4. MyTemp(o) \notin temps' /\ temps' \subseteq temps
      BY <1>4 DEF Persist
    <2> QED
      BY <1>4, <2>1, <2>3, <2>4, RequestStep DEF Persist, Goto
  <1>5. CASE PutFails(o)
    <2>1. SoundCall([call[o] EXCEPT !.pc = "failed"])
      BY <1>5, <1>c DEF PutFails, SoundCall, CallState
    <2>0. MyTemp(o) # Stuck
      BY BlockAssumption DEF MyTemp, Stuck
    <2>2. FilesInv' /\ MyTemp(o) \notin temps' /\ temps' \subseteq temps \cup {Stuck}
      BY <1>5, <1>c, <2>0 DEF PutFails, FilesInv
    <2> QED
      BY <1>5, <2>1, <2>2, RequestStep DEF PutFails, Goto
  <1>6. CASE OpenFile(o)
    <2> DEFINE file == names[call[o].id]
               s == [call[o] EXCEPT !.file = file,
                                    !.pc = IF file = NoFile THEN "done" ELSE "opened"]
    <2>1. SoundFile(file)
      BY <1>6, <1>c DEF OpenFile, SoundCall, FilesInv
    <2> HIDE DEF file
    <2>2. SoundCall(s)
      BY <1>6, <1>c, <2>1 DEF OpenFile, SoundCall, SoundFile, CallState
    <2> QED
      BY <1>6, <2>2, PlainStep DEF OpenFile, file
  <1>7. CASE ReadFile(o)
    <2>1. SoundCall([call[o] EXCEPT !.pc = "done"])
      BY <1>7, <1>c DEF ReadFile, SoundCall, CallState
    <2> QED
      BY <1>7, <2>1, PlainStep DEF ReadFile, Goto
  <1>8. CASE RemoveFile(o)
    <2>1. SoundCall([call[o] EXCEPT !.pc = "done"])
      BY <1>8, <1>c DEF RemoveFile, SoundCall, CallState
    <2>2. FilesInv'
      BY <1>8, <1>c, NoFileIsSound DEF RemoveFile, FilesInv, SoundFile
    <2>3. MyTemp(o) \notin temps
      BY <1>8, StorageParts, BlockAssumption DEF RemoveFile, TempsInv, TempsAccountedFor, MyTemp,
           Stuck
    <2> QED
      BY <1>8, <2>1, <2>2, <2>3, RequestStep DEF RemoveFile, Goto
  <1>9. CASE CallFails(o)
    <2>1. SoundCall([call[o] EXCEPT !.pc = "failed"])
      BY <1>9, <1>c DEF CallFails, SoundCall, CallState
    <2> QED
      BY <1>9, <2>1, PlainStep DEF CallFails, Goto
  <1> QED
    BY <1>1, <1>2, <1>3, <1>4, <1>5, <1>6, <1>7, <1>8, <1>9

(* A write-back, a crash or a power failure: every file on disk is synced, *)
(* so that none loses contents, and the temp files become another run's.   *)
LEMMA EnvironmentStep ==
    ASSUME StorageInv, (\E i \in Ids : WriteBack(i)) \/ Crash \/ PowerLoss
    PROVE  StorageInv'
  <1>i. /\ call \in [Calls -> CallState] /\ \A o \in Calls : SoundCall(call[o])
        /\ FilesInv /\ TempsInv
    BY StorageParts
  <1>1. FilesInv'
    <2>1. CASE \E i \in Ids : WriteBack(i)
      BY <2>1, <1>i DEF WriteBack, FilesInv
    <2>2. CASE Crash
      BY <2>2, <1>i DEF Crash, FilesInv
    <2>3. CASE PowerLoss
      <3>1. \A i \in Ids : [durable[i] EXCEPT !.whole = @ /\ durable[i].synced] = durable[i]
        BY <1>i DEF FilesInv, SoundFile, File, NoFile
      <3>2. names' = durable /\ durable' = durable
        BY <1>i, <2>3, <3>1 DEF PowerLoss, FilesInv
      <3> QED
        BY <1>i, <3>2 DEF FilesInv
    <2> QED
      BY <2>1, <2>2, <2>3
  <1>2. /\ call' \in [Calls -> CallState] /\ \A o \in Calls : SoundCall(call'[o])
        /\ TempsInv'
    <2>1. CASE \E i \in Ids : WriteBack(i)
      BY <2>1, <1>i DEF WriteBack, TempsInv, TempsAccountedFor
    <2>2. CASE Restart /\ temps' = temps
      <3>1. \A o \in Calls : call'[o] = Idle("none", "none")
        BY <2>2 DEF Restart
      <3>2. call' \in [Calls -> CallState]
        BY <2>2, IdleIsSound DEF Restart, SoundCall
      <3>3. TempsInv'
        BY <1>i, <2>2, BlockAssumption DEF Restart, TempsInv, TempsAccountedFor, TempFile, Stuck
      <3> QED
        BY <3>1, <3>2, <3>3, IdleIsSound
    <2> QED
      BY <2>1, <2>2 DEF Crash, PowerLoss
  <1> QED
    BY <1>1, <1>2 DEF StorageInv, TypeOK, CallInv, SyncInv, NeverTorn, SoundCall,
       SoundFile, FilesInv, TempsInv

(* The inductive invariant of the store.                                   *)
THEOREM StorageSound == Spec => []StorageInv
  <1>1. StorageInv /\ UNCHANGED vars => StorageInv'
    BY DEF StorageInv, TypeOK, CallInv, SyncInv, NeverTorn, TempsAccountedFor, vars
  <1>2. StorageInv /\ [Next]_vars => StorageInv'
    BY <1>1, HandlerStep, ProviderStep, EnvironmentStep DEF Next
  <1> QED
    BY <1>2, StorageInit, PTL DEF Spec

(* Requests and files are what run_put, get and delete expect to find.     *)
THEOREM BlocksTyped == Spec => []TypeOK
  <1>1. StorageInv => TypeOK
    BY DEF StorageInv
  <1> QED
    BY <1>1, StorageSound, PTL

(* No GET and no restart ever meets a partly written block.                *)
THEOREM BlocksNeverTorn == Spec => []NeverTorn
  <1>1. StorageInv => NeverTorn
    BY DEF StorageInv
  <1> QED
    BY <1>1, StorageSound, PTL

(* Whatever fails, and whoever leaves, a put that ended left no temp file. *)
THEOREM NoTempIsLeaked == Spec => []TempsAccountedFor
  <1>1. StorageInv => TempsAccountedFor
    BY DEF StorageInv
  <1> QED
    BY <1>1, StorageSound, PTL

-----------------------------------------------------------------------------
(* The refinement.  A get takes effect when it opens the file, a put by    *)
(* its rename, a delete by its unlink; what comes before and after, up to  *)
(* the answer, changes nothing that a caller can tell.                     *)

(* A step of one request, seen as a call of the trait.                     *)
LEMMA AbstractSet ==
    ASSUME NEW o \in Calls, NEW s, Set(o, s), StorageInv
    PROVE  /\ AbstractCalls' = [AbstractCalls EXCEPT ![o] = AbstractCall(s)]
           /\ AbstractCalls[o] = AbstractCall(call[o])
           /\ AbstractCall(s) = AbstractCall(call[o]) => AbstractCalls' = AbstractCalls
  <1>1. call \in [Calls -> CallState]
    BY StorageParts
  <1>2. call' = [q \in Calls |-> IF q = o THEN s ELSE call[q]]
    BY <1>1 DEF Set
  <1> QED
    BY <1>2 DEF AbstractCalls

LEMMA AbstractFilesUnchanged ==
    (names' = names => AbstractBlocks' = AbstractBlocks)
    /\ (durable' = durable => AbstractStable' = AbstractStable)
  BY DEF AbstractBlocks, AbstractStable

(* The value of a block is the payload of its file.                        *)
LEMMA AbstractValue ==
    ASSUME StorageInv
    PROVE  /\ AbstractBlocks = [i \in Ids |-> names[i].val]
           /\ AbstractStable = [i \in Ids |-> durable[i].val]
  BY StorageParts DEF FilesInv, SoundFile, AbstractBlocks, AbstractStable, Value

LEMMA AbsentIsNoBlock ==
    ASSUME NEW f \in File \cup {NoFile}
    PROVE  f = NoFile <=> f.val = NoBlock
  BY BlockAssumption DEF File, NoFile

(* What the phases of a request look like to a caller of the trait.        *)
LEMMA AbstractIdle ==
    ASSUME NEW kind, NEW answer
    PROVE  AbstractCall(Idle(kind, answer)) =
              Atomic!Idle(IF kind = "none" THEN "none" ELSE answer)
  BY DEF AbstractCall, Phase, Idle, Atomic!Idle

LEMMA AbstractBody ==
    ASSUME NEW s, SoundCall(s), s.pc = "body"
    PROVE  AbstractCall(s) = Atomic!Idle("none")
  BY DEF SoundCall, AbstractCall, Phase, Atomic!Idle

LEMMA AbstractRunning ==
    ASSUME NEW s, SoundCall(s), s.pc \notin {"idle", "body"}
    PROVE  AbstractCall(s) =
              [pc |-> IF \/ s.pc \in {"opened", "done"}
                         \/ s.pc = "failed" /\ s.kind = "get" /\ s.file # NoFile
                      THEN "done" ELSE "pending",
               kind |-> s.kind, id |-> s.id, val |-> s.file.val, answer |-> "none"]
  BY DEF AbstractCall, Phase

(* The handlers invoke the trait's calls and return their results.         *)
LEMMA HandlerRefines ==
    ASSUME StorageInv, NEW o \in Calls,
           \/ \E i \in Ids : StartGet(o, i) \/ StartPut(o, i) \/ StartDelete(o, i)
           \/ \E v \in Payloads : ReceiveBody(o, v)
           \/ RefuseRoute(o) \/ RefuseBody(o) \/ Respond(o) \/ Disconnect(o)
    PROVE  Atomic!Next \/ UNCHANGED Atomic!vars
  <1>c. SoundCall(call[o]) /\ call[o] \in CallState
    BY StorageParts
  <1>u. UNCHANGED <<AbstractBlocks, AbstractStable>>
    BY AbstractFilesUnchanged DEF StartGet, StartPut, StartDelete, ReceiveBody, RefuseRoute,
       RefuseBody, Respond, Disconnect
  <1>i. call[o].pc \in {"idle", "body"} => AbstractCall(call[o]).pc = "idle"
    BY DEF AbstractCall, Phase
  <1>f. ASSUME call[o].pc \in {"idle", "body"},
               NEW s, Set(o, s), AbstractCall(s) = Atomic!Idle("none")
        PROVE  Atomic!Next
    BY <1>f, <1>i, <1>u, AbstractSet DEF Atomic!Forget, Atomic!Next
  <1>v. ASSUME call[o].pc \in {"idle", "body"},
               NEW s, Set(o, s), NEW kind \in {"get", "put", "delete"}, NEW i \in Ids,
               NEW v \in Payloads \cup {NoBlock},
               AbstractCall(s) = [pc |-> "pending", kind |-> kind, id |-> i,
                                  val |-> v, answer |-> "none"]
        PROVE  Atomic!Next
    <2>1. Atomic!Invoke(o, kind, i, v)
      BY <1>v, <1>i, <1>u, AbstractSet DEF Atomic!Invoke
    <2> QED
      BY <2>1 DEF Atomic!Next
  <1>1. ASSUME NEW i \in Ids, StartGet(o, i) \/ StartDelete(o, i) PROVE Atomic!Next
    <2> DEFINE s(kind) == [Idle("none", "none") EXCEPT !.pc = kind, !.kind = kind,
                                                       !.id = i, !.attached = TRUE]
    <2>1. ASSUME NEW kind \in {"get", "delete"}
          PROVE  AbstractCall(s(kind)) = [pc |-> "pending", kind |-> kind, id |-> i,
                                          val |-> NoBlock, answer |-> "none"]
      BY <2>1 DEF AbstractCall, Phase, Idle, NoFile
    <2>2. call[o].pc = "idle" /\ (Set(o, s("get")) \/ Set(o, s("delete")))
      BY <1>1 DEF StartGet, StartDelete, Begin
    <2> HIDE DEF s
    <2> QED
      BY <1>v, <2>1, <2>2
  <1>2. ASSUME NEW i \in Ids, StartPut(o, i) PROVE Atomic!Next
    <2> DEFINE s == [Idle("none", "none") EXCEPT !.pc = "body", !.kind = "put",
                                                 !.id = i, !.attached = TRUE]
    <2>1. AbstractCall(s) = Atomic!Idle("none")
      BY DEF AbstractCall, Phase, Idle, Atomic!Idle
    <2>2. call[o].pc = "idle" /\ Set(o, s)
      BY <1>2 DEF StartPut, Begin
    <2> HIDE DEF s
    <2> QED
      BY <1>f, <2>1, <2>2
  <1>3. ASSUME NEW v \in Payloads, ReceiveBody(o, v) PROVE Atomic!Next
    <2> DEFINE s == [call[o] EXCEPT !.pc = "put",
                        !.file = [val |-> v, whole |-> FALSE, synced |-> FALSE]]
    <2>1. /\ call[o].pc = "body" /\ Set(o, s)
          /\ call[o].kind = "put" /\ call[o].id \in Ids
      BY <1>3, <1>c DEF ReceiveBody, SoundCall
    <2>2. AbstractCall(s) = [pc |-> "pending", kind |-> "put", id |-> call[o].id,
                             val |-> v, answer |-> "none"]
      BY <1>c, <2>1 DEF AbstractCall, Phase, CallState
    <2> HIDE DEF s
    <2> QED
      BY <1>v, <2>1, <2>2
  <1>4. CASE RefuseRoute(o) \/ RefuseBody(o)
    <2>1. PICK answer : Set(o, Idle("none", answer)) /\ call[o].pc \in {"idle", "body"}
      BY <1>4 DEF RefuseRoute, RefuseBody
    <2> QED
      BY <1>f, <2>1, AbstractIdle
  <1>5. CASE Disconnect(o)
    <2>1. CASE call[o].pc = "body"
      BY <1>5, <2>1, <1>f, AbstractIdle DEF Disconnect
    <2>2. CASE call[o].pc # "body"
      <3>1. AbstractCall([call[o] EXCEPT !.attached = FALSE]) = AbstractCall(call[o])
        BY <1>c DEF AbstractCall, Phase, CallState
      <3> QED
        BY <1>5, <1>u, <2>2, <3>1, AbstractSet DEF Disconnect, Atomic!vars
    <2> QED
      BY <2>1, <2>2
  <1>6. CASE Respond(o)
    <2> DEFINE answer == IF call[o].attached THEN Status(o) ELSE "none"
               c == AbstractCall(call[o])
    <2>1. AbstractCalls' = [AbstractCalls EXCEPT ![o] = Atomic!Idle(answer)]
          /\ AbstractCalls[o] = c
      BY <1>6, <1>c, AbstractSet, AbstractIdle DEF Respond, SoundCall
    <2>2. /\ c.pc = IF call[o].pc = "failed" /\ ~(call[o].kind = "get" /\ call[o].file # NoFile)
                    THEN "pending" ELSE "done"
          /\ c.kind = call[o].kind /\ c.val = call[o].file.val
      BY <1>6, <1>c, AbstractRunning DEF Respond
    <2>3. call[o].file # NoFile <=> call[o].file.val # NoBlock
      BY <1>c, AbsentIsNoBlock DEF CallState
    <2>4. CASE c.pc = "pending"
      <3>1. call[o].pc = "failed"
        BY <2>2, <2>4
      <3>2. answer \in {"503", "none"}
        BY <3>1 DEF Status
      <3>3. Atomic!Abandon(o)
        BY <2>1, <2>4, <3>2, <1>u DEF Atomic!Abandon
      <3> QED
        BY <3>3 DEF Atomic!Next
    <2>5. CASE c.pc = "done"
      <3>1. answer \in {Atomic!Success(o), "none"} \cup (IF c.kind = "get" THEN {"503"} ELSE {})
        BY <1>6, <2>1, <2>2, <2>3, <2>5 DEF Respond, Status, Atomic!Success
      <3> HIDE DEF answer, c
      <3>2. Atomic!Return(o)
        BY <2>1, <2>5, <3>1, <1>u DEF Atomic!Return
      <3> QED
        BY <3>2 DEF Atomic!Next
    <2> QED
      BY <2>2, <2>4, <2>5
  <1> QED
    BY <1>1, <1>2, <1>3, <1>4, <1>5, <1>6

(* The provider's calls take effect at one of their steps.                 *)
LEMMA ProviderRefines ==
    ASSUME StorageInv, NEW o \in Calls,
           \/ CreateTemp(o) \/ WriteAll(o) \/ SyncAll(o) \/ Persist(o) \/ PutFails(o)
           \/ OpenFile(o) \/ ReadFile(o) \/ RemoveFile(o) \/ CallFails(o)
    PROVE  Atomic!Next \/ UNCHANGED Atomic!vars
  <1>c. SoundCall(call[o]) /\ call[o] \in CallState
    BY StorageParts
  <1>n. call[o].pc \notin {"idle", "body"}
    BY DEF CreateTemp, WriteAll, SyncAll, Persist, PutFails, OpenFile, ReadFile, RemoveFile,
       CallFails
  <1>a. AbstractCalls[o] = AbstractCall(call[o])
    BY DEF AbstractCalls
  <1>s. ASSUME UNCHANGED <<names, durable>>, NEW s, Set(o, s),
               AbstractCall(s) = AbstractCall(call[o])
        PROVE  UNCHANGED Atomic!vars
    BY <1>s, AbstractSet, AbstractFilesUnchanged DEF Atomic!vars
  <1>1. CASE CreateTemp(o) \/ PutFails(o) \/ ReadFile(o) \/ CallFails(o)
    <2>1. PICK pc \in {"temp", "failed", "done"} :
             /\ Goto(o, pc) /\ UNCHANGED <<names, durable>>
             /\ pc = "temp" => call[o].pc = "put"
             /\ pc = "failed" => \/ call[o].pc \in {"put", "temp", "written", "synced"}
                                 \/ call[o].pc \in {"get", "opened", "delete"}
             /\ pc = "done" => call[o].pc = "opened"
      BY <1>1 DEF CreateTemp, PutFails, ReadFile, CallFails
    <2>2. AbstractCall([call[o] EXCEPT !.pc = pc]) = AbstractCall(call[o])
      BY <1>c, <1>n, <2>1 DEF AbstractCall, Phase, SoundCall, CallState
    <2> QED
      BY <1>s, <2>1, <2>2 DEF Goto
  <1>2. CASE WriteAll(o) \/ SyncAll(o)
    <2>1. ASSUME NEW s, s.pc \in {"written", "synced"}, call[o].pc \in {"temp", "written"},
                 s.kind = call[o].kind, s.id = call[o].id, s.file.val = call[o].file.val
          PROVE  AbstractCall(s) = AbstractCall(call[o])
      BY <2>1 DEF AbstractCall, Phase
    <2>2. CASE WriteAll(o)
      <3> DEFINE s == [call[o] EXCEPT !.pc = "written", !.file.whole = TRUE]
      <3>1. /\ s.pc = "written" /\ s.kind = call[o].kind /\ s.id = call[o].id
            /\ s.file.val = call[o].file.val
        BY <1>c DEF CallState, File, NoFile
      <3>2. Set(o, s) /\ UNCHANGED <<names, durable>> /\ call[o].pc \in {"temp", "written"}
        BY <2>2 DEF WriteAll
      <3> HIDE DEF s
      <3>3. AbstractCall(s) = AbstractCall(call[o])
        BY <2>1, <3>1, <3>2
      <3> QED
        BY <1>s, <3>2, <3>3
    <2>3. CASE SyncAll(o)
      <3> DEFINE s == [call[o] EXCEPT !.pc = "synced", !.file.synced = TRUE]
      <3>1. /\ s.pc = "synced" /\ s.kind = call[o].kind /\ s.id = call[o].id
            /\ s.file.val = call[o].file.val
        BY <1>c DEF CallState, File, NoFile
      <3>2. Set(o, s) /\ UNCHANGED <<names, durable>> /\ call[o].pc \in {"temp", "written"}
        BY <2>3 DEF SyncAll
      <3> HIDE DEF s
      <3>3. AbstractCall(s) = AbstractCall(call[o])
        BY <2>1, <3>1, <3>2
      <3> QED
        BY <1>s, <3>2, <3>3
    <2> QED
      BY <1>2, <2>2, <2>3
  <1>3. CASE Persist(o)
    <2> DEFINE s == [call[o] EXCEPT !.pc = "done"]
    <2>1. /\ call[o].pc = "synced" /\ call[o].kind = "put" /\ call[o].id \in Ids
          /\ SoundFile(call[o].file)
      BY <1>3, <1>c DEF Persist, SoundCall, SoundFile
    <2>2. AbstractCall(call[o]) = [pc |-> "pending", kind |-> "put", id |-> call[o].id,
                                   val |-> call[o].file.val, answer |-> "none"]
      BY <1>c, <2>1, AbstractRunning
    <2>3. AbstractCall(s) = [pc |-> "done", kind |-> "put", id |-> call[o].id,
                             val |-> call[o].file.val, answer |-> "none"]
      BY <1>c, <2>1 DEF AbstractCall, Phase, CallState
    <2>4. AbstractBlocks' = [AbstractBlocks EXCEPT ![call[o].id] = call[o].file.val]
      BY <1>3, <2>1, StorageParts DEF Persist, AbstractBlocks, FilesInv, SoundFile, Value
    <2>5. Set(o, s) /\ AbstractStable' = AbstractStable
      BY <1>3, AbstractFilesUnchanged DEF Persist, Goto
    <2> HIDE DEF s
    <2>6. AbstractCalls' = [AbstractCalls EXCEPT ![o].pc = "done"]
      <3>1. AbstractCall(s) = [AbstractCalls[o] EXCEPT !.pc = "done"]
        BY <1>a, <2>2, <2>3
      <3> QED
        BY <2>5, <3>1, AbstractSet
    <2>7. /\ AbstractCalls[o].pc = "pending" /\ AbstractCalls[o].kind = "put"
          /\ AbstractCalls[o].id = call[o].id /\ AbstractCalls[o].val = call[o].file.val
      BY <1>a, <2>2
    <2>8. Atomic!TakeEffect(o)
      BY <2>4, <2>5, <2>6, <2>7 DEF Atomic!TakeEffect
    <2> QED
      BY <2>8 DEF Atomic!Next
  <1>4. CASE RemoveFile(o)
    <2> DEFINE s == [call[o] EXCEPT !.pc = "done"]
    <2>1. call[o].pc = "delete" /\ call[o].kind = "delete" /\ call[o].id \in Ids
      BY <1>4, <1>c DEF RemoveFile, SoundCall
    <2>2. AbstractCall(call[o]) = [pc |-> "pending", kind |-> "delete", id |-> call[o].id,
                                   val |-> call[o].file.val, answer |-> "none"]
      BY <1>c, <2>1, AbstractRunning
    <2>3. AbstractCall(s) = [pc |-> "done", kind |-> "delete", id |-> call[o].id,
                             val |-> call[o].file.val, answer |-> "none"]
      BY <1>c, <2>1 DEF AbstractCall, Phase, CallState
    <2>4. AbstractBlocks' = [AbstractBlocks EXCEPT ![call[o].id] = NoBlock]
      BY <1>4, <2>1, StorageParts DEF RemoveFile, AbstractBlocks, FilesInv, Value, NoFile
    <2>5. Set(o, s) /\ AbstractStable' = AbstractStable
      BY <1>4, AbstractFilesUnchanged DEF RemoveFile, Goto
    <2> HIDE DEF s
    <2>6. AbstractCalls' = [AbstractCalls EXCEPT ![o].pc = "done"]
      <3>1. AbstractCall(s) = [AbstractCalls[o] EXCEPT !.pc = "done"]
        BY <1>a, <2>2, <2>3
      <3> QED
        BY <2>5, <3>1, AbstractSet
    <2>7. /\ AbstractCalls[o].pc = "pending" /\ AbstractCalls[o].kind = "delete"
          /\ AbstractCalls[o].id = call[o].id /\ AbstractCalls[o].val = call[o].file.val
      BY <1>a, <2>2
    <2>8. Atomic!TakeEffect(o)
      BY <2>4, <2>5, <2>6, <2>7 DEF Atomic!TakeEffect
    <2> QED
      BY <2>8 DEF Atomic!Next
  <1>5. CASE OpenFile(o)
    <2> DEFINE file == names[call[o].id]
               s == [call[o] EXCEPT !.file = file,
                                    !.pc = IF file = NoFile THEN "done" ELSE "opened"]
    <2>1. call[o].pc = "get" /\ call[o].kind = "get" /\ call[o].id \in Ids
      BY <1>5, <1>c DEF OpenFile, SoundCall
    <2>2. AbstractCall(call[o]) = [pc |-> "pending", kind |-> "get", id |-> call[o].id,
                                   val |-> call[o].file.val, answer |-> "none"]
      BY <1>c, <2>1, AbstractRunning
    <2>3. AbstractCall(s) = [pc |-> "done", kind |-> "get", id |-> call[o].id,
                             val |-> file.val, answer |-> "none"]
      BY <1>c, <2>1 DEF AbstractCall, Phase, CallState
    <2>4. AbstractBlocks[call[o].id] = file.val
      BY <2>1, AbstractValue
    <2>5. Set(o, s) /\ AbstractStable' = AbstractStable /\ AbstractBlocks' = AbstractBlocks
      BY <1>5, AbstractFilesUnchanged DEF OpenFile
    <2> HIDE DEF s, file
    <2>6. AbstractCalls' = [AbstractCalls EXCEPT
             ![o] = [pc |-> "done", kind |-> "get", id |-> call[o].id,
                     val |-> AbstractBlocks[call[o].id], answer |-> "none"]]
      BY <2>3, <2>4, <2>5, AbstractSet
    <2>7. /\ AbstractCalls[o].pc = "pending" /\ AbstractCalls[o].kind = "get"
          /\ AbstractCalls[o].id = call[o].id /\ AbstractCalls[o].val = call[o].file.val
      BY <1>a, <2>2
    <2>8. Atomic!TakeEffect(o)
      BY <2>4, <2>5, <2>6, <2>7 DEF Atomic!TakeEffect
    <2> QED
      BY <2>8 DEF Atomic!Next
  <1> QED
    BY <1>1, <1>2, <1>3, <1>4, <1>5

(* The environment's steps are the trait's.                                *)
LEMMA EnvironmentRefines ==
    ASSUME StorageInv, (\E i \in Ids : WriteBack(i)) \/ Crash \/ PowerLoss
    PROVE  Atomic!Next
  <1>1. ASSUME NEW i \in Ids, WriteBack(i) PROVE Atomic!Next
    <2>1. AbstractStable' = [AbstractStable EXCEPT ![i] = AbstractBlocks[i]]
      BY <1>1, StorageParts DEF WriteBack, AbstractStable, AbstractBlocks, FilesInv
    <2>2. UNCHANGED <<AbstractBlocks, AbstractCalls>>
      BY <1>1 DEF WriteBack, AbstractBlocks, AbstractCalls
    <2> QED
      BY <2>1, <2>2 DEF Atomic!Settle, Atomic!Next
  <1>2. ASSUME Restart PROVE AbstractCalls' = [o \in Calls |-> Atomic!Idle("none")]
    BY <1>2, AbstractIdle DEF Restart, AbstractCalls
  <1>3. CASE Crash
    BY <1>2, <1>3, AbstractFilesUnchanged DEF Crash, Atomic!Crash, Atomic!Next
  <1>4. CASE PowerLoss
    <2>1. \A i \in Ids : [durable[i] EXCEPT !.whole = @ /\ durable[i].synced] = durable[i]
      BY StorageParts DEF FilesInv, SoundFile, File, NoFile
    <2>2. names' = durable /\ durable' = durable
      BY <1>4, <2>1, StorageParts DEF PowerLoss, FilesInv
    <2>3. AbstractBlocks' = AbstractStable /\ AbstractStable' = AbstractStable
      BY <2>2 DEF AbstractBlocks, AbstractStable
    <2> QED
      BY <1>2, <1>4, <2>3 DEF PowerLoss, Atomic!PowerLoss, Atomic!Next
  <1> QED
    BY <1>1, <1>3, <1>4

(* Refinement: the routes over LocalFsProvider implement AtomicBlocks.     *)
THEOREM BlocksAreAtomic == Spec => ImplementsAtomicBlocks
  <1>1. Init => Atomic!Init
    <2>1. Value(NoFile) = NoBlock
      BY DEF Value, NoFile
    <2> QED
      BY <2>1, AbstractIdle DEF Init, Atomic!Init, AbstractBlocks, AbstractStable, AbstractCalls
  <1>2. UNCHANGED vars => UNCHANGED Atomic!vars
    BY DEF vars, Atomic!vars, AbstractBlocks, AbstractStable, AbstractCalls
  <1>3. StorageInv /\ [Next]_vars => [Atomic!Next]_(Atomic!vars)
    BY <1>2, HandlerRefines, ProviderRefines, EnvironmentRefines DEF Next
  <1> QED
    BY <1>1, <1>3, StorageSound, PTL DEF Spec, ImplementsAtomicBlocks, Atomic!Spec

=============================================================================
