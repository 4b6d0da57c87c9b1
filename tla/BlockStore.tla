------------------------------ MODULE BlockStore ------------------------------
(***************************************************************************)
(* The block routes (server/src/routes/api/blocks.rs) on top of the local  *)
(* file system provider (server/src/storage/local_fs.rs): GET, PUT and     *)
(* DELETE handlers that run concurrently, each doing its file work on a    *)
(* blocking thread that outlives the handler, over a file system that may  *)
(* fail any call, a process that may be killed and a machine that may lose *)
(* power at any point.                                                     *)
(***************************************************************************)
EXTENDS Naturals

CONSTANTS
    Calls,       \* requests that may be in progress at the same time
    Ids,         \* well-formed block ids
    Payloads,    \* payloads of the configured size
    NoBlock,     \* no file under that name
    MaxCrashes   \* bound on process crashes and power failures

ASSUME BlockAssumption ==
    /\ NoBlock \notin Payloads
    /\ MaxCrashes \in Nat
    /\ "none" \notin Calls

VARIABLES
    names,    \* the files under the block paths
    durable,  \* what the directories hold on disk
    temps,    \* the .put.*.tmp files: whose, and of which run of the process
    call,     \* what each request is doing
    epoch     \* how often the process was restarted

vars == <<names, durable, temps, call, epoch>>

(* A file: its payload, whether all of it was written, whether that is on  *)
(* disk.                                                                   *)
File == [val : Payloads, whole : BOOLEAN, synced : BOOLEAN]

NoFile == [val |-> NoBlock, whole |-> TRUE, synced |-> TRUE]

(* The temp files that could not be unlinked, whosever they were.          *)
Stuck == [owner |-> "none", epoch |-> 0]

TempFile == [owner : Calls, epoch : 0..MaxCrashes] \cup {Stuck}

(* "body": handle_put awaits the body; "put", "temp", "written", "synced": *)
(* run_put; "get": before the open of tokio::fs::read, "opened": after it; *)
(* "delete": before the unlink; "done": the file work is over; "failed":   *)
(* it returned Backend.  attached: the handler is still there.             *)
CallState ==
    [pc : {"idle", "body", "put", "temp", "written", "synced",
           "get", "opened", "delete", "done", "failed"},
     kind : {"none", "get", "put", "delete"},
     id : Ids \cup {"none"},
     file : File \cup {NoFile},
     attached : BOOLEAN,
     answer : {"none", "200", "204", "400", "404", "503"}]

(* No request; kind and answer are those of the last storage call.         *)
Idle(kind, answer) ==
    [pc |-> "idle", kind |-> kind, id |-> "none", file |-> NoFile,
     attached |-> FALSE, answer |-> answer]

Init ==
    /\ names = [i \in Ids |-> NoFile]
    /\ durable = names
    /\ temps = {}
    /\ call = [o \in Calls |-> Idle("none", "none")]
    /\ epoch = 0

Set(o, s) == call' = [call EXCEPT ![o] = s]

Goto(o, pc) == Set(o, [call[o] EXCEPT !.pc = pc])

MyTemp(o) == [owner |-> o, epoch |-> epoch]

-----------------------------------------------------------------------------
(* The handlers.                                                           *)

Begin(o, pc, kind, i) ==
    Set(o, [Idle("none", "none") EXCEPT !.pc = pc, !.kind = kind, !.id = i, !.attached = TRUE])

(* handle_block with an id that BlockId::parse refuses, or with a method   *)
(* other than these three.                                                 *)
RefuseRoute(o) ==
    /\ call[o].pc = "idle"
    /\ Set(o, Idle("none", "404"))
    /\ UNCHANGED <<names, durable, temps, epoch>>

(* handle_block, with a well-formed id.                                    *)
StartGet(o, i) ==
    /\ call[o].pc = "idle"
    /\ Begin(o, "get", "get", i)
    /\ UNCHANGED <<names, durable, temps, epoch>>

StartDelete(o, i) ==
    /\ call[o].pc = "idle"
    /\ Begin(o, "delete", "delete", i)
    /\ UNCHANGED <<names, durable, temps, epoch>>

StartPut(o, i) ==
    /\ call[o].pc = "idle"
    /\ Begin(o, "body", "put", i)
    /\ UNCHANGED <<names, durable, temps, epoch>>

(* handle_put: the declared length is wrong, the body is cut off, or its   *)
(* length differs from block_size_bytes.                                   *)
RefuseBody(o) ==
    /\ call[o].pc = "body"
    /\ Set(o, Idle("none", "400"))
    /\ UNCHANGED <<names, durable, temps, epoch>>

(* Mutant: run_put is given no payload.                                    *)
MutReceiveNothing(o, v) ==
    /\ call[o].pc = "body"
    /\ Goto(o, "put")
    /\ UNCHANGED <<names, durable, temps, epoch>>

(* handle_put: a body of exactly the configured size; storage.put starts   *)
(* the blocking run_put.                                                   *)
ReceiveBody(o, v) ==
    /\ call[o].pc = "body"
    /\ Set(o, [call[o] EXCEPT !.pc = "put",
                  !.file = [val |-> v, whole |-> FALSE, synced |-> FALSE]])
    /\ UNCHANGED <<names, durable, temps, epoch>>

(* handle_get, handle_put, handle_delete after their storage call.         *)
Status(o) ==
    CASE call[o].pc = "failed" -> "503"
      [] call[o].pc = "done" /\ call[o].kind # "get" -> "204"
      [] call[o].pc = "done" /\ call[o].kind = "get" ->
            IF call[o].file = NoFile THEN "404" ELSE "200"

Respond(o) ==
    /\ call[o].pc \in {"done", "failed"}
    /\ Set(o, Idle(call[o].kind, IF call[o].attached THEN Status(o) ELSE "none"))
    /\ UNCHANGED <<names, durable, temps, epoch>>

(* The client goes away and the handler's future is dropped.  A handler    *)
(* that still waits for the body is gone; the blocking threads of the      *)
(* others run on.                                                          *)
Disconnect(o) ==
    /\ call[o].attached
    /\ Set(o, IF call[o].pc = "body" THEN Idle("none", "none")
                                     ELSE [call[o] EXCEPT !.attached = FALSE])
    /\ UNCHANGED <<names, durable, temps, epoch>>

-----------------------------------------------------------------------------
(* LocalFsProvider.                                                        *)

(* run_put: the shard directories, their modes and the temp file.          *)
CreateTemp(o) ==
    /\ call[o].pc = "put"
    /\ temps' = temps \cup {MyTemp(o)}
    /\ Goto(o, "temp")
    /\ UNCHANGED <<names, durable, epoch>>

(* write_all returns Ok: every byte is in the file, none need be on disk.  *)
WriteAll(o) ==
    /\ call[o].pc = "temp"
    /\ Set(o, [call[o] EXCEPT !.pc = "written", !.file.whole = TRUE])
    /\ UNCHANGED <<names, durable, temps, epoch>>

SyncAll(o) ==
    /\ call[o].pc = "written"
    /\ Set(o, [call[o] EXCEPT !.pc = "synced", !.file.synced = TRUE])
    /\ UNCHANGED <<names, durable, temps, epoch>>

(* Mutant: the rename comes before the payload is on disk.                 *)
MutPersistUnsynced(o) ==
    /\ call[o].pc \in {"written", "synced"}
    /\ names' = [names EXCEPT ![call[o].id] = call[o].file]
    /\ temps' = temps \ {MyTemp(o)}
    /\ Goto(o, "done")
    /\ UNCHANGED <<durable, epoch>>

(* persist: the rename onto the block path.                                *)
Persist(o) ==
    /\ call[o].pc = "synced"
    /\ names' = [names EXCEPT ![call[o].id] = call[o].file]
    /\ temps' = temps \ {MyTemp(o)}
    /\ Goto(o, "done")
    /\ UNCHANGED <<durable, epoch>>

(* Mutant: the temp file is not unlinked when a step fails.                *)
MutPutFailsLeaks(o) ==
    /\ call[o].pc \in {"put", "temp", "written", "synced"}
    /\ Goto(o, "failed")
    /\ UNCHANGED <<names, durable, temps, epoch>>

(* Any step of run_put fails; dropping the NamedTempFile unlinks it, and   *)
(* ignores it when the unlink fails too.                                   *)
PutFails(o) ==
    /\ call[o].pc \in {"put", "temp", "written", "synced"}
    /\ \/ temps' = temps \ {MyTemp(o)}
       \/ /\ call[o].pc # "put"
          /\ temps' = (temps \ {MyTemp(o)}) \cup {Stuck}
    /\ Goto(o, "failed")
    /\ UNCHANGED <<names, durable, epoch>>

(* get: the open.  From here on the reader holds that file, whatever       *)
(* happens to the name.                                                    *)
OpenFile(o) ==
    LET file == names[call[o].id]
    IN  /\ call[o].pc = "get"
        /\ Set(o, [call[o] EXCEPT !.file = file,
                                  !.pc = IF file = NoFile THEN "done" ELSE "opened"])
        /\ UNCHANGED <<names, durable, temps, epoch>>

(* Mutant: the file is opened a second time by name.                       *)
MutReadByName(o) ==
    /\ call[o].pc = "opened"
    /\ Set(o, [call[o] EXCEPT !.pc = "done", !.file = names[call[o].id]])
    /\ UNCHANGED <<names, durable, temps, epoch>>

(* get: the reads up to the end of the open file.                          *)
ReadFile(o) ==
    /\ call[o].pc = "opened"
    /\ Goto(o, "done")
    /\ UNCHANGED <<names, durable, temps, epoch>>

(* delete: the unlink; NotFound is success.                                *)
RemoveFile(o) ==
    /\ call[o].pc = "delete"
    /\ names' = [names EXCEPT ![call[o].id] = NoFile]
    /\ Goto(o, "done")
    /\ UNCHANGED <<durable, temps, epoch>>

(* get or delete returns Backend.                                          *)
CallFails(o) ==
    /\ call[o].pc \in {"get", "opened", "delete"}
    /\ Goto(o, "failed")
    /\ UNCHANGED <<names, durable, temps, epoch>>

-----------------------------------------------------------------------------
(* The environment.                                                        *)

(* The kernel writes a directory entry back; run_put never asks it to.     *)
WriteBack(i) ==
    /\ durable' = [durable EXCEPT ![i] = names[i]]
    /\ UNCHANGED <<names, temps, call, epoch>>

Restart ==
    /\ epoch < MaxCrashes
    /\ epoch' = epoch + 1
    /\ call' = [o \in Calls |-> Idle("none", "none")]

(* The process is killed and started again; the file system stays.         *)
Crash ==
    /\ Restart
    /\ UNCHANGED <<names, durable, temps>>

(* The power fails: names fall back to what is on disk, and a file that    *)
(* was not synced may have lost any part of its contents.                  *)
PowerLoss ==
    /\ Restart
    /\ names' = [i \in Ids |-> [durable[i] EXCEPT !.whole = @ /\ durable[i].synced]]
    /\ durable' = names'
    /\ UNCHANGED temps

Next ==
    \/ \E o \in Calls :
          \/ \E i \in Ids : StartGet(o, i) \/ StartPut(o, i) \/ StartDelete(o, i)
          \/ \E v \in Payloads : ReceiveBody(o, v)
          \/ RefuseRoute(o) \/ RefuseBody(o) \/ Respond(o) \/ Disconnect(o)
          \/ CreateTemp(o) \/ WriteAll(o) \/ SyncAll(o) \/ Persist(o) \/ PutFails(o)
          \/ OpenFile(o) \/ ReadFile(o) \/ RemoveFile(o) \/ CallFails(o)
    \/ \E i \in Ids : WriteBack(i)
    \/ Crash
    \/ PowerLoss

Spec == Init /\ [][Next]_vars

-----------------------------------------------------------------------------
(* Properties.                                                             *)

(* Every variable has its type, only requests that are past the body hold  *)
(* a payload, and no temp file is from a later run of the process.         *)
TypeOK ==
    /\ names \in [Ids -> File \cup {NoFile}]
    /\ durable \in [Ids -> File \cup {NoFile}]
    /\ temps \subseteq TempFile
    /\ call \in [Calls -> CallState]
    /\ epoch \in 0..MaxCrashes
    /\ \A f \in temps : f.epoch <= epoch
    /\ \A o \in Calls : call[o].pc \notin {"idle", "body"} =>
          /\ call[o].id \in Ids
          /\ call[o].kind = "put" => call[o].file \in File

(* The contract of put: no block path ever leads to an empty or partly     *)
(* written file and no reader ever holds one, before or after a crash or a *)
(* power failure, because run_put syncs before it renames.                 *)
NeverTorn ==
    /\ \A i \in Ids : names[i].whole /\ durable[i].whole
    /\ \A o \in Calls : call[o].kind = "get" => call[o].file.whole

(* An aborted put leaves no temp file behind: each one on disk belongs to  *)
(* a put that is running, or was left by a process that died or by an      *)
(* unlink that failed.                                                     *)
TempsAccountedFor ==
    \A f \in temps : \/ f.epoch < epoch
                     \/ f = Stuck
                     \/ call[f.owner].pc \in {"temp", "written", "synced"}

(* What the invariants above rest on.  A request is where its kind of call *)
(* can be, and has what its place implies: a reader that has not opened    *)
(* the file holds none, a put holds a payload.                             *)
CallInv ==
    \A o \in Calls :
        /\ call[o].pc # "idle" => call[o].id \in Ids /\ call[o].answer = "none"
        /\ call[o].pc \in {"body", "put", "temp", "written", "synced"} => call[o].kind = "put"
        /\ call[o].pc \in {"get", "opened"} => call[o].kind = "get"
        /\ call[o].pc = "delete" => call[o].kind = "delete"
        /\ call[o].pc \in {"done", "failed"} => call[o].kind # "none"
        /\ call[o].pc = "get" => call[o].file = NoFile
        /\ call[o].pc = "opened" => call[o].file # NoFile

(* A file has a name only after it was written and synced, on disk too.    *)
SyncInv ==
    /\ \A i \in Ids : names[i].synced /\ durable[i].synced
    /\ \A o \in Calls :
          /\ call[o].pc \in {"written", "synced"} => call[o].file.whole
          /\ call[o].pc = "synced" => call[o].file.synced

(* The inductive invariant.                                                *)
StorageInv == TypeOK /\ CallInv /\ SyncInv /\ NeverTorn /\ TempsAccountedFor

(* How far a call has come, seen as a call of the trait: a get is decided  *)
(* when it opens the file, a put by its rename, a delete by its unlink.    *)
Phase(c) ==
    CASE c.pc \in {"idle", "body"} -> "idle"
      [] c.pc \in {"opened", "done"} -> "done"
      [] c.pc = "failed" /\ c.kind = "get" /\ c.file # NoFile -> "done"
      [] OTHER -> "pending"

AbstractCall(c) ==
    IF Phase(c) = "idle"
    THEN [pc |-> "idle", kind |-> "none", id |-> "none", val |-> NoBlock,
          answer |-> IF c.kind = "none" THEN "none" ELSE c.answer]
    ELSE [pc |-> Phase(c), kind |-> c.kind, id |-> c.id, val |-> c.file.val, answer |-> "none"]

Value(file) == IF file.whole THEN file.val ELSE "torn"

AbstractBlocks == [i \in Ids |-> Value(names[i])]
AbstractStable == [i \in Ids |-> Value(durable[i])]
AbstractCalls == [o \in Calls |-> AbstractCall(call[o])]

Atomic == INSTANCE AtomicBlocks WITH
              blocks <- AbstractBlocks, stable <- AbstractStable, call <- AbstractCalls

(* LocalFsProvider keeps the promises of StorageProvider: every call takes *)
(* effect at one instant between its start and its answer or not at all, a *)
(* PUT or DELETE answered 503 changed nothing, one whose client left is    *)
(* applied once or not at all, and a crash loses no acknowledged write.    *)
ImplementsAtomicBlocks == Atomic!Spec

=============================================================================
