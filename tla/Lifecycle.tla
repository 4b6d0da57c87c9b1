------------------------------- MODULE Lifecycle -------------------------------
(***************************************************************************)
(* The life of a server process: main (server/src/main.rs), run and        *)
(* serve_with_shutdown (app.rs), the signal handlers and the shutdown      *)
(* broadcast (shutdown/mod.rs), the choice of the storage backend and its  *)
(* start-up probe (storage/mod.rs, local_fs.rs).                           *)
(*                                                                         *)
(* Several processes may be started on the same address and block root, as *)
(* in a restart that overlaps.  A request in flight is only known by       *)
(* whether its future lives and whether a storage call of it occupies a    *)
(* blocking thread; AuthPipeline and BlockStore say what it does.          *)
(***************************************************************************)
EXTENDS Integers, Sequences, SequencesExt

CONSTANTS
    Procs,     \* server processes
    Conns,     \* requests a process may have in flight
    Nobody,    \* no process
    MaxStarts  \* bound on starts, over all processes

ASSUME LifecycleAssumption == Nobody \notin Procs /\ MaxStarts \in Nat

VARIABLES
    proc,    \* the processes
    port,    \* the process that listens on bind_address
    probe,   \* the process that made the probe file in the block root
    litter,  \* history: a probe file may have been left behind
    starts   \* starts so far

vars == <<proc, port, probe, litter, starts>>

(* handled: the signal handlers are installed; signalled: a signal waits   *)
(* in them; accepting: the accept loop runs; timer: the drain timer; open: *)
(* live request futures; blocking: requests with a storage call on a       *)
(* blocking thread; events: the lifecycle events emitted; exit: how the    *)
(* process ends.                                                           *)
Fresh ==
    [pc |-> "load", handled |-> FALSE, signalled |-> FALSE, accepting |-> FALSE,
     timer |-> "off", open |-> {}, blocking |-> {}, events |-> <<>>, exit |-> "none"]

Init ==
    /\ proc = [p \in Procs |-> [Fresh EXCEPT !.pc = "ended"]]
    /\ port = Nobody
    /\ probe = Nobody
    /\ litter = FALSE
    /\ starts = 0

-----------------------------------------------------------------------------
Set(p, s) == proc' = [proc EXCEPT ![p] = s]

Goto(p, pc) == Set(p, [proc[p] EXCEPT !.pc = pc])

Emitted(p, event) == Contains(proc[p].events, event)

Ended(how) == [Fresh EXCEPT !.pc = "ended", !.exit = how]

(* The process is gone, and its listener with it; its history stays.       *)
End(p, how) ==
    /\ Set(p, [Ended(how) EXCEPT !.events = proc[p].events, !.signalled = proc[p].signalled])
    /\ port' = IF port = p THEN Nobody ELSE port

-----------------------------------------------------------------------------
(* The start.                                                              *)

Start(p) ==
    /\ proc[p].pc = "ended"
    /\ starts < MaxStarts
    /\ starts' = starts + 1
    /\ Set(p, Fresh)
    /\ UNCHANGED <<port, probe, litter>>

(* A step of the bootstrap fails: run returns an error, main exits with 1. *)
StartFails(p) ==
    /\ proc[p].pc \in {"load", "contexts", "storage", "bind", "install"}
    /\ End(p, "1")
    /\ UNCHANGED <<probe, litter, starts>>

(* The runtime is built, config::load returns.                             *)
LoadConfig(p) ==
    /\ proc[p].pc = "load"
    /\ Goto(p, "contexts")
    /\ UNCHANGED <<port, probe, litter, starts>>

(* init_contexts returns.                                                  *)
InitContexts(p) ==
    /\ proc[p].pc = "contexts"
    /\ Goto(p, "storage")
    /\ UNCHANGED <<port, probe, litter, starts>>

(* init_from_config: without a storage backend there is no probe.          *)
SkipProbe(p) ==
    /\ proc[p].pc = "storage"
    /\ Goto(p, "bind")
    /\ UNCHANGED <<port, probe, litter, starts>>

(* run_init_probe renames its temporary file to the probe's name, if there *)
(* is no file of this name (persist_noclobber).                            *)
PersistProbe(p) ==
    /\ proc[p].pc = "storage"
    /\ probe = Nobody
    /\ probe' = p
    /\ Goto(p, "probed")
    /\ UNCHANGED <<port, litter, starts>>

(* Mutant: the probe file is not removed.                                  *)
MutUnlinkProbe(p) ==
    /\ proc[p].pc = "probed"
    /\ Goto(p, "bind")
    /\ UNCHANGED <<port, probe, litter, starts>>

(* The best-effort unlink.                                                 *)
UnlinkProbe(p) ==
    /\ proc[p].pc = "probed"
    /\ \/ probe' = Nobody /\ UNCHANGED litter
       \/ litter' = (probe # Nobody) /\ UNCHANGED probe
    /\ Goto(p, "bind")
    /\ UNCHANGED <<port, starts>>

Bind(p) ==
    /\ proc[p].pc = "bind"
    /\ port = Nobody
    /\ port' = p
    /\ Goto(p, "install")
    /\ UNCHANGED <<probe, litter, starts>>

(* install_signals.                                                        *)
InstallSignals(p) ==
    /\ proc[p].pc = "install"
    /\ Set(p, [proc[p] EXCEPT !.pc = "announce", !.handled = TRUE])
    /\ UNCHANGED <<port, probe, litter, starts>>

(* Mutant: the timeout is wrapped around the whole serve future, as in the *)
(* sketch that app.rs corrects.                                            *)
MutAnnounceArmsTimer(p) ==
    /\ proc[p].pc = "announce"
    /\ Set(p, [proc[p] EXCEPT !.pc = "draining", !.accepting = TRUE, !.timer = "armed",
                  !.events = Append(@, "started")])
    /\ UNCHANGED <<port, probe, litter, starts>>

(* The coordinator is made, the background tasks are spawned, the start is *)
(* announced, the router is built and serving begins.                      *)
Announce(p) ==
    /\ proc[p].pc = "announce"
    /\ Set(p, [proc[p] EXCEPT !.pc = "serving", !.accepting = TRUE,
                  !.events = Append(@, "started")])
    /\ UNCHANGED <<port, probe, litter, starts>>

-----------------------------------------------------------------------------
(* Requests.                                                               *)

Request(p, open, blocking) ==
    /\ Set(p, [proc[p] EXCEPT !.open = open, !.blocking = blocking])
    /\ UNCHANGED <<port, probe, litter, starts>>

Connect(p, c) ==
    /\ proc[p].pc \in {"serving", "draining"} /\ proc[p].accepting
    /\ c \notin proc[p].open \cup proc[p].blocking
    /\ Request(p, proc[p].open \cup {c}, proc[p].blocking)

(* The handler hands its call to a blocking thread (spawn_blocking).       *)
CallStorage(p, c) ==
    /\ c \in proc[p].open \ proc[p].blocking
    /\ Request(p, proc[p].open, proc[p].blocking \cup {c})

StorageReturns(p, c) ==
    /\ c \in proc[p].blocking
    /\ Request(p, proc[p].open, proc[p].blocking \ {c})

(* The response is sent, or the client disconnects; a storage call that    *)
(* the client does not wait for goes on.                                   *)
RequestEnds(p, c) ==
    /\ c \in proc[p].open
    /\ Request(p, proc[p].open \ {c}, proc[p].blocking)

-----------------------------------------------------------------------------
(* The shutdown.                                                           *)

(* SIGINT, SIGTERM or SIGHUP.  Before the handlers are installed the       *)
(* default disposition ends the process.                                   *)
Signal(p) ==
    /\ proc[p].pc # "ended"
    /\ \/ /\ proc[p].handled
          /\ Set(p, [proc[p] EXCEPT !.signalled = TRUE])
          /\ UNCHANGED <<port, litter>>
       \/ /\ ~proc[p].handled
          /\ End(p, "signal")
          /\ litter' = (litter \/ probe = p)
    /\ UNCHANGED <<probe, starts>>

(* The coordinator's future resolves in the task that axum runs it in:     *)
(* the event, the watch, the notification of serve_with_shutdown.          *)
ResolveShutdown(p) ==
    /\ proc[p].pc \in {"serving", "returned"}
    /\ proc[p].signalled /\ ~Emitted(p, "initiated")
    /\ Set(p, [proc[p] EXCEPT !.events = Append(@, "initiated")])
    /\ UNCHANGED <<port, probe, litter, starts>>

(* The accept loop notices that the future has resolved and drops the      *)
(* listener, so that another process may bind while this one drains.       *)
StopAccepting(p) ==
    /\ proc[p].accepting /\ Emitted(p, "initiated")
    /\ Set(p, [proc[p] EXCEPT !.accepting = FALSE])
    /\ port' = IF port = p THEN Nobody ELSE port
    /\ UNCHANGED <<probe, litter, starts>>

(* Phase 1 ends with the notification; the drain timer is armed.           *)
StartDrain(p) ==
    /\ proc[p].pc = "serving" /\ Emitted(p, "initiated")
    /\ Set(p, [proc[p] EXCEPT !.pc = "draining", !.timer = "armed"])
    /\ UNCHANGED <<port, probe, litter, starts>>

TimerElapses(p) ==
    /\ proc[p].pc = "draining" /\ proc[p].timer = "armed"
    /\ Set(p, [proc[p] EXCEPT !.timer = "elapsed"])
    /\ UNCHANGED <<port, probe, litter, starts>>

(* Mutant: the accept loop outlives serve_with_shutdown.                   *)
MutReturns(p, event, how) ==
    /\ Set(p, [proc[p] EXCEPT !.pc = "returned", !.events = Append(@, event), !.exit = how])
    /\ port' = IF port = p THEN Nobody ELSE port
    /\ UNCHANGED <<probe, litter, starts>>

(* serve_with_shutdown returns: the serve future and the listener, if the  *)
(* accept loop still has it, are dropped; the connections' tasks go on.    *)
Returns(p, event, how) ==
    /\ Set(p, [proc[p] EXCEPT !.pc = "returned", !.accepting = FALSE,
                  !.events = Append(@, event), !.exit = how])
    /\ port' = IF port = p THEN Nobody ELSE port
    /\ UNCHANGED <<probe, litter, starts>>

(* Mutant: only the accept loop is waited for.                             *)
MutServeDone(p) == ~proc[p].accepting

(* The serve future is ready: no connection is accepted or served.         *)
ServeDone(p) == ~proc[p].accepting /\ proc[p].open = {}

(* The serve future completes, in phase 1 or 2.                            *)
Drained(p) ==
    /\ proc[p].pc \in {"serving", "draining"}
    /\ ServeDone(p)
    /\ Returns(p, "clean", "0")

(* Mutant: the drain is not bounded.                                       *)
MutDrainTimesOut(p) == FALSE /\ UNCHANGED vars

(* Mutant: the forced close is reported, and the drain then waited for.    *)
MutDrainTimesOutWaits(p) ==
    /\ proc[p].pc = "draining" /\ proc[p].timer = "elapsed"
    /\ ~ServeDone(p)
    /\ Set(p, [proc[p] EXCEPT !.timer = "off", !.events = Append(@, "forced")])
    /\ UNCHANGED <<port, probe, litter, starts>>

(* The drain timer elapses first.                                          *)
DrainTimesOut(p) ==
    /\ proc[p].pc = "draining" /\ proc[p].timer = "elapsed"
    /\ ~ServeDone(p)
    /\ Returns(p, "forced", "0")

(* The serve future fails, in phase 1 or 2.                                *)
ServeFails(p) ==
    /\ proc[p].pc \in {"serving", "draining"}
    /\ Returns(p, "forced", "1")

(* main returns and drops the runtime, which drops every task ...          *)
DropTasks(p) ==
    /\ proc[p].pc = "returned"
    /\ Set(p, [proc[p] EXCEPT !.pc = "dropping", !.open = {}])
    /\ UNCHANGED <<port, probe, litter, starts>>

(* ... and waits for the storage calls on its blocking threads.            *)
DropRuntime(p) ==
    /\ proc[p].pc = "dropping"
    /\ proc[p].blocking = {}
    /\ End(p, proc[p].exit)
    /\ UNCHANGED <<probe, litter, starts>>

-----------------------------------------------------------------------------
(* The environment.                                                        *)

(* SIGKILL, or the machine goes down.                                      *)
Kill(p) ==
    /\ proc[p].pc # "ended"
    /\ End(p, "killed")
    /\ litter' = (litter \/ probe = p)
    /\ UNCHANGED <<probe, starts>>

(* The operator removes a probe file that stands in the way.               *)
RemoveLitter ==
    /\ litter /\ \A p \in Procs : proc[p].pc # "probed"
    /\ probe' = Nobody /\ litter' = FALSE
    /\ UNCHANGED <<proc, port, starts>>

(* What the process's main task does; a step of the start may fail.        *)
MainStep(p) ==
    \/ LoadConfig(p) \/ InitContexts(p) \/ SkipProbe(p) \/ PersistProbe(p)
    \/ UnlinkProbe(p) \/ Bind(p) \/ InstallSignals(p) \/ Announce(p) \/ StartFails(p)
    \/ StartDrain(p) \/ Drained(p) \/ DrainTimesOut(p)
    \/ DropTasks(p) \/ DropRuntime(p)

Next ==
    \/ \E p \in Procs :
          \/ Start(p) \/ MainStep(p) \/ ServeFails(p)
          \/ ResolveShutdown(p) \/ StopAccepting(p) \/ TimerElapses(p)
          \/ \E c \in Conns : \/ Connect(p, c) \/ CallStorage(p, c)
                              \/ StorageReturns(p, c) \/ RequestEnds(p, c)
          \/ Signal(p) \/ Kill(p)
    \/ RemoveLitter

(* The runtime polls the tasks that can run and fires its timers, and a    *)
(* storage call returns.  Nothing says that a request ever ends.           *)
Fairness ==
    \A p \in Procs :
        /\ WF_vars(MainStep(p))
        /\ WF_vars(ResolveShutdown(p))
        /\ WF_vars(StopAccepting(p))
        /\ WF_vars(TimerElapses(p))
        /\ \A c \in Conns : WF_vars(StorageReturns(p, c))

Spec == Init /\ [][Next]_vars

FairSpec == Spec /\ Fairness

-----------------------------------------------------------------------------
(* Properties.                                                             *)

Starting == {"load", "contexts", "storage", "probed", "bind", "install", "announce"}

ProcState ==
    [pc : Starting \cup {"serving", "draining", "returned", "dropping", "ended"},
     handled : BOOLEAN, signalled : BOOLEAN, accepting : BOOLEAN,
     timer : {"off", "armed", "elapsed"},
     open : SUBSET Conns, blocking : SUBSET Conns,
     events : Seq({"started", "initiated", "clean", "forced"}),
     exit : {"none", "0", "1", "signal", "killed"}]

(* The state is well formed, and only the process that listens accepts.    *)
TypeOK ==
    /\ proc \in [Procs -> ProcState]
    /\ port \in Procs \cup {Nobody} /\ probe \in Procs \cup {Nobody}
    /\ litter \in BOOLEAN
    /\ starts \in 0..MaxStarts
    /\ \A p \in Procs : proc[p].accepting => port = p

AtMostOne(events, kinds) ==
    \A i, j \in DOMAIN events : events[i] \in kinds /\ events[j] \in kinds => i = j

Completed(p) == Emitted(p, "clean") \/ Emitted(p, "forced")

(* server.shutdown.completed is emitted exactly once, whichever of the     *)
(* terminal paths a process takes that was announced, whatever signals     *)
(* arrive and however the two phases interleave with the accept loop.      *)
CompletedExactlyOnce ==
    \A p \in Procs :
        /\ AtMostOne(proc[p].events, {"clean", "forced"})
        /\ AtMostOne(proc[p].events, {"initiated"})
        /\ proc[p].pc = "ended" /\ Emitted(p, "started") /\ proc[p].exit # "killed"
              => Completed(p)

(* Once a process is announced, no signal ends it by the default           *)
(* disposition: it ends itself, and then with exit code 0 only because a   *)
(* signal asked it to.  In particular the drain timer alone never ends a   *)
(* server.                                                                 *)
SignalsAreHandled ==
    \A p \in Procs :
        proc[p].pc = "ended" /\ Emitted(p, "started")
            => /\ proc[p].exit # "signal"
               /\ proc[p].exit = "0" => proc[p].signalled /\ Emitted(p, "initiated")

(* A shutdown is reported clean only if no request was cut off, and a      *)
(* request is cut off by an exit with code 0 only after the drain time.    *)
CleanMeansDrained ==
    [][\A p \in Procs :
          proc[p].pc # "returned" /\ proc'[p].pc = "returned" =>
              /\ Last(proc'[p].events) = "clean" => proc[p].open = {}
              /\ proc[p].open # {} /\ proc'[p].exit = "0" => proc[p].timer = "elapsed"]_vars

(* A probe file is there only while its process is about to remove it, or  *)
(* because a process was ended just then or could not remove it: no start  *)
(* is refused for what an orderly run of the server left behind.           *)
ProbeAccountedFor ==
    probe # Nobody => litter \/ proc[probe].pc = "probed"

(* A process that was asked to stop ends, even if its requests never do.   *)
SignalEndsServer ==
    \A p \in Procs :
        Emitted(p, "started") /\ proc[p].signalled ~> proc[p].pc = "ended"

-----------------------------------------------------------------------------
(* What the invariants rest on: where a process is tells what it has       *)
(* installed, announced and holds.                                         *)
PhaseInv ==
    \A p \in Procs :
        LET q == proc[p]
        IN  /\ q.handled <=> q.pc \in {"announce", "serving", "draining", "returned", "dropping"}
            /\ q.pc \in Starting => q.events = <<>> /\ ~q.accepting
            /\ q.pc \in {"install", "announce"} => port = p
            /\ q.pc \in {"serving", "draining"} => Emitted(p, "started") /\ ~Completed(p)
            /\ q.pc = "serving" /\ ~q.accepting => Emitted(p, "initiated")
            /\ q.pc = "draining" => Emitted(p, "initiated")
            /\ q.pc \in {"returned", "dropping"} =>
                  /\ Completed(p) /\ ~q.accepting /\ q.exit \in {"0", "1"}
                  /\ q.exit = "0" => Emitted(p, "initiated")
            /\ Emitted(p, "initiated") => q.signalled

(* The inductive invariant.                                                *)
LifecycleInv ==
    TypeOK /\ PhaseInv /\ CompletedExactlyOnce /\ SignalsAreHandled /\ ProbeAccountedFor

=============================================================================
