---------------------------- MODULE LifecycleProofs ----------------------------
(***************************************************************************)
(* Proofs about Lifecycle, for any number of processes, starts and         *)
(* requests.                                                               *)
(***************************************************************************)
EXTENDS Lifecycle, TLAPS

Events == {"started", "initiated", "clean", "forced"}

(* What an event adds to the log of a process.                             *)
LEMMA EmptyLog ==
    /\ <<>> \in Seq(Events)
    /\ \A e : ~Contains(<<>>, e)
    /\ \A kinds : AtMostOne(<<>>, kinds)
  BY DEF Contains, AtMostOne

LEMMA AppendedLog ==
    ASSUME NEW log \in Seq(Events), NEW event \in Events
    PROVE  /\ Append(log, event) \in Seq(Events)
           /\ Last(Append(log, event)) = event
           /\ \A e : Contains(Append(log, event), e) <=> Contains(log, e) \/ e = event
  <1>1. /\ Append(log, event) \in Seq(Events) /\ Len(log) \in Nat
        /\ Len(Append(log, event)) = Len(log) + 1
        /\ Append(log, event)[Len(log) + 1] = event
        /\ \A i \in 1..Len(log) : Append(log, event)[i] = log[i]
    OBVIOUS
  <1>2. ASSUME NEW e PROVE Contains(Append(log, event), e) <=> Contains(log, e) \/ e = event
    BY <1>1 DEF Contains
  <1> QED
    BY <1>1, <1>2 DEF Last

LEMMA AppendedOnce ==
    ASSUME NEW log \in Seq(Events), NEW event \in Events, NEW kinds, AtMostOne(log, kinds),
           event \in kinds => \A e \in kinds : ~Contains(log, e)
    PROVE  AtMostOne(Append(log, event), kinds)
  <1>1. /\ Len(log) \in Nat /\ DOMAIN log = 1..Len(log)
        /\ DOMAIN Append(log, event) = 1..(Len(log) + 1)
        /\ Append(log, event)[Len(log) + 1] = event
        /\ \A i \in 1..Len(log) : Append(log, event)[i] = log[i]
    OBVIOUS
  <1>2. event \in kinds => \A i \in 1..Len(log) : log[i] \notin kinds
    BY DEF Contains
  <1> QED
    BY <1>1, <1>2 DEF AtMostOne

-----------------------------------------------------------------------------
(* LifecycleInv, taken apart by process: q may be the state of process p   *)
(* while the process po listens.                                           *)
SoundProc(p, q, po) ==
    LET emitted(e) == Contains(q.events, e)
        completed == emitted("clean") \/ emitted("forced")
    IN  /\ q \in ProcState
        /\ q.accepting => po = p
        /\ q.handled <=> q.pc \in {"announce", "serving", "draining", "returned", "dropping"}
        /\ q.pc \in Starting => q.events = <<>> /\ ~q.accepting
        /\ q.pc \in {"install", "announce"} => po = p
        /\ q.pc \in {"serving", "draining"} => emitted("started") /\ ~completed
        /\ q.pc = "serving" /\ ~q.accepting => emitted("initiated")
        /\ q.pc = "draining" => emitted("initiated")
        /\ q.pc \in {"returned", "dropping"} =>
              /\ completed /\ ~q.accepting /\ q.exit \in {"0", "1"}
              /\ q.exit = "0" => emitted("initiated")
        /\ emitted("initiated") => q.signalled
        /\ AtMostOne(q.events, {"clean", "forced"})
        /\ AtMostOne(q.events, {"initiated"})
        /\ q.pc = "ended" /\ emitted("started") /\ q.exit # "killed" => completed
        /\ q.pc = "ended" /\ emitted("started") => 
              /\ q.exit # "signal"
              /\ q.exit = "0" => q.signalled /\ emitted("initiated")

SharedInv ==
    /\ port \in Procs \cup {Nobody} /\ probe \in Procs \cup {Nobody}
    /\ litter \in BOOLEAN
    /\ starts \in 0..MaxStarts

LEMMA LifecycleParts ==
    LifecycleInv <=> /\ proc \in [Procs -> ProcState]
                     /\ \A p \in Procs : SoundProc(p, proc[p], port)
                     /\ SharedInv /\ ProbeAccountedFor
  BY DEF LifecycleInv, TypeOK, PhaseInv, CompletedExactlyOnce, SignalsAreHandled, Completed,
     Emitted, SoundProc, SharedInv

(* The same in the next state.                                             *)
LEMMA LifecyclePartsNext ==
    ASSUME proc' \in [Procs -> ProcState], \A p \in Procs : SoundProc(p, proc'[p], port'),
           SharedInv', ProbeAccountedFor'
    PROVE  LifecycleInv'
  BY DEF LifecycleInv, TypeOK, PhaseInv, CompletedExactlyOnce, SignalsAreHandled, Completed,
     Emitted, SoundProc, SharedInv

(* A step of one process, which may start or stop to listen.               *)
LEMMA ProcessStep ==
    ASSUME LifecycleInv, NEW p \in Procs, NEW s, Set(p, s), SoundProc(p, s, port'),
           port' = port \/ (port = Nobody /\ port' = p) \/ (port = p /\ port' = Nobody),
           SharedInv', ProbeAccountedFor'
    PROVE  LifecycleInv'
  <1>1. /\ proc \in [Procs -> ProcState] /\ SharedInv
        /\ \A q \in Procs : SoundProc(q, proc[q], port)
    BY LifecycleParts
  <1>2. s \in ProcState
    BY DEF SoundProc
  <1>3. /\ proc' \in [Procs -> ProcState] /\ proc'[p] = s
        /\ \A q \in Procs \ {p} : proc'[q] = proc[q]
    BY <1>1, <1>2 DEF Set
  <1>4. ASSUME NEW q \in Procs \ {p} PROVE SoundProc(q, proc'[q], port')
    <2>1. port' = port \/ port # q
      BY <1>4, LifecycleAssumption
    <2>2. SoundProc(q, proc[q], port) => SoundProc(q, proc[q], port')
      BY <2>1 DEF SoundProc
    <2> QED
      BY <1>1, <1>3, <2>2
  <1> QED
    BY <1>3, <1>4, LifecyclePartsNext

(* A step that makes or removes no probe file.                             *)
LEMMA QuietStep ==
    ASSUME LifecycleInv, NEW p \in Procs, NEW s, Set(p, s), SoundProc(p, s, port'),
           port' = port \/ (port = Nobody /\ port' = p) \/ (port = p /\ port' = Nobody),
           UNCHANGED probe, litter' \in BOOLEAN, litter => litter', starts' \in 0..MaxStarts,
           proc[p].pc = "probed" /\ probe = p => litter' \/ s.pc = "probed"
    PROVE  LifecycleInv'
  <1>1. proc \in [Procs -> ProcState] /\ SharedInv /\ ProbeAccountedFor
    BY LifecycleParts
  <1>2. SharedInv'
    BY <1>1 DEF SharedInv
  <1>3. /\ proc'[p] = s
        /\ \A q \in Procs \ {p} : proc'[q] = proc[q]
    BY <1>1 DEF Set
  <1>4. ProbeAccountedFor'
    BY <1>1, <1>3 DEF ProbeAccountedFor, SharedInv
  <1> QED
    BY <1>2, <1>4, ProcessStep

(* What is known of the process that takes a step.                         *)
LEMMA BeforeStep ==
    ASSUME LifecycleInv, NEW p \in Procs
    PROVE  /\ SoundProc(p, proc[p], port) /\ proc[p] \in ProcState
           /\ proc[p].events \in Seq(Events)
           /\ SharedInv /\ ProbeAccountedFor
           /\ proc \in [Procs -> ProcState]
  BY LifecycleParts DEF SoundProc, ProcState, Events

-----------------------------------------------------------------------------
(* The start.                                                              *)

LEMMA FreshIsSound ==
    ASSUME NEW p \in Procs, NEW po
    PROVE  SoundProc(p, Fresh, po) /\ SoundProc(p, [Fresh EXCEPT !.pc = "ended"], po)
  <1>1. Fresh \in ProcState /\ [Fresh EXCEPT !.pc = "ended"] \in ProcState
    BY EmptyLog DEF Fresh, ProcState, Starting, Events
  <1>2. SoundProc(p, Fresh, po)
    BY <1>1, EmptyLog DEF SoundProc, Fresh, Starting
  <1>3. SoundProc(p, [Fresh EXCEPT !.pc = "ended"], po)
    BY <1>1, EmptyLog DEF SoundProc, Fresh, Starting
  <1> QED
    BY <1>2, <1>3

LEMMA InitIsSound == Init => LifecycleInv
  <1> SUFFICES ASSUME Init PROVE LifecycleInv
    OBVIOUS
  <1>1. \A p \in Procs : SoundProc(p, proc[p], port) /\ proc[p] \in ProcState
    BY FreshIsSound DEF Init, SoundProc
  <1>2. SharedInv /\ ProbeAccountedFor
    <2>1. litter \in BOOLEAN
      BY DEF Init
    <2>2. starts \in 0..MaxStarts
      BY LifecycleAssumption DEF Init
    <2> QED
      BY <2>1, <2>2 DEF Init, SharedInv, ProbeAccountedFor
  <1>3. proc \in [Procs -> ProcState]
    BY <1>1 DEF Init
  <1> QED
    BY <1>1, <1>2, <1>3, LifecycleParts

LEMMA StartIsSound ==
    ASSUME LifecycleInv, NEW p \in Procs, Start(p) PROVE LifecycleInv'
  <1>1. SharedInv
    BY BeforeStep
  <1>2. SoundProc(p, Fresh, port')
    BY FreshIsSound
  <1>3. starts' \in 0..MaxStarts /\ litter' \in BOOLEAN
    BY <1>1, LifecycleAssumption DEF Start, SharedInv
  <1> QED
    BY <1>2, <1>3, QuietStep DEF Start

(* A process ends in an orderly way, or before it was announced, or is     *)
(* killed.                                                                 *)
LEMMA EndIsSound ==
    ASSUME LifecycleInv, NEW p \in Procs, NEW how \in {"0", "1", "signal", "killed"},
           End(p, how), UNCHANGED <<probe, starts>>,
           litter' \in BOOLEAN, litter => litter',
           probe = p /\ proc[p].pc = "probed" => litter',
           \/ proc[p].pc \in Starting
           \/ how = "killed"
           \/ proc[p].pc = "dropping" /\ how = proc[p].exit
    PROVE  LifecycleInv'
  <1> DEFINE q == proc[p]
             s == [Ended(how) EXCEPT !.events = q.events, !.signalled = q.signalled]
  <1>1. /\ SoundProc(p, q, port) /\ q \in ProcState
        /\ q.events \in Seq(Events) /\ SharedInv
    BY BeforeStep
  <1>2. /\ s.pc = "ended" /\ s.handled = FALSE /\ s.signalled = q.signalled
        /\ s.accepting = FALSE /\ s.timer = "off" /\ s.open = {} /\ s.blocking = {}
        /\ s.events = q.events /\ s.exit = how
    BY DEF Ended, Fresh
  <1>3. s \in ProcState
    BY <1>1 DEF Ended, Fresh, ProcState, Events
  <1>4. SoundProc(p, s, port')
    <2>1. q.pc \in Starting => q.events = <<>> /\ \A e : ~Contains(q.events, e)
      BY <1>1, EmptyLog DEF SoundProc
    <2> QED
      BY <1>1, <1>2, <1>3, <2>1 DEF SoundProc, Starting
  <1>5. Set(p, s) /\ (port' = port \/ (port = p /\ port' = Nobody))
    BY DEF End
  <1>6. starts' \in 0..MaxStarts
    BY <1>1 DEF SharedInv
  <1> QED
    BY <1>4, <1>5, <1>6, QuietStep

LEMMA EndingIsSound ==
    ASSUME LifecycleInv, NEW p \in Procs, StartFails(p) \/ DropRuntime(p) \/ Kill(p)
    PROVE  LifecycleInv'
  <1>1. SoundProc(p, proc[p], port) /\ proc[p] \in ProcState /\ SharedInv
    BY BeforeStep
  <1>2. CASE StartFails(p)
    BY <1>1, <1>2, EndIsSound DEF StartFails, Starting, SharedInv
  <1>3. CASE DropRuntime(p)
    BY <1>1, <1>3, EndIsSound DEF DropRuntime, SoundProc, SharedInv
  <1>4. CASE Kill(p)
    BY <1>1, <1>4, EndIsSound DEF Kill, SharedInv
  <1> QED
    BY <1>2, <1>3, <1>4

(* The steps of the bootstrap before the process listens.                  *)
LEMMA GotoIsSound ==
    ASSUME LifecycleInv, NEW p \in Procs, NEW pc,
           pc \in {"contexts", "storage", "probed", "bind"}
             \/ (pc = "install" /\ port' = p),
           proc[p].pc \in {"load", "contexts", "storage", "probed", "bind"},
           Goto(p, pc)
    PROVE  \E s : Set(p, s) /\ SoundProc(p, s, port') /\ s.pc = pc
  <1> DEFINE q == proc[p]
             s == [q EXCEPT !.pc = pc]
  <1>1. SoundProc(p, q, port) /\ q \in ProcState
    BY BeforeStep
  <1>2. s \in ProcState /\ s.pc = pc /\ s.handled = q.handled /\ s.accepting = q.accepting
        /\ s.events = q.events /\ s.signalled = q.signalled /\ s.exit = q.exit
    BY <1>1 DEF ProcState, Starting
  <1>3. SoundProc(p, s, port')
    <2>1. q.events = <<>> /\ ~q.accepting /\ ~q.handled
      BY <1>1 DEF SoundProc, Starting
    <2> QED
      BY <1>2, <2>1, EmptyLog DEF SoundProc
  <1> QED
    BY <1>2, <1>3 DEF Goto

LEMMA BootstrapIsSound ==
    ASSUME LifecycleInv, NEW p \in Procs,
           LoadConfig(p) \/ InitContexts(p) \/ SkipProbe(p) \/ Bind(p)
    PROVE  LifecycleInv'
  <1>1. PICK s : Set(p, s) /\ SoundProc(p, s, port')
    <2>1. CASE LoadConfig(p)
      BY <2>1, GotoIsSound DEF LoadConfig
    <2>2. CASE InitContexts(p)
      BY <2>2, GotoIsSound DEF InitContexts
    <2>3. CASE SkipProbe(p)
      BY <2>3, GotoIsSound DEF SkipProbe
    <2>4. CASE Bind(p)
      BY <2>4, GotoIsSound DEF Bind
    <2> QED
      BY <2>1, <2>2, <2>3, <2>4
  <1>2. SharedInv
    BY BeforeStep
  <1>3. /\ UNCHANGED <<probe, litter, starts>>
        /\ port' = port \/ (port = Nobody /\ port' = p)
        /\ proc[p].pc # "probed"
    BY DEF LoadConfig, InitContexts, SkipProbe, Bind
  <1> QED
    BY <1>1, <1>2, <1>3, QuietStep DEF SharedInv

(* The probe.                                                              *)
LEMMA ProbeIsSound ==
    ASSUME LifecycleInv, NEW p \in Procs, PersistProbe(p) \/ UnlinkProbe(p)
    PROVE  LifecycleInv'
  <1>1. /\ SharedInv /\ ProbeAccountedFor /\ proc \in [Procs -> ProcState]
    BY BeforeStep
  <1>2. CASE PersistProbe(p)
    <2>1. PICK s : Set(p, s) /\ SoundProc(p, s, port') /\ s.pc = "probed"
      BY <1>2, GotoIsSound DEF PersistProbe
    <2>2. SharedInv' /\ ProbeAccountedFor'
      BY <1>1, <1>2, <2>1 DEF PersistProbe, SharedInv, ProbeAccountedFor, Set
    <2> QED
      BY <1>2, <2>1, <2>2, ProcessStep DEF PersistProbe
  <1>3. CASE UnlinkProbe(p)
    <2>1. PICK s : Set(p, s) /\ SoundProc(p, s, port') /\ s.pc = "bind"
      BY <1>3, GotoIsSound DEF UnlinkProbe
    <2>2. SharedInv' /\ ProbeAccountedFor'
      BY <1>1, <1>3, <2>1 DEF UnlinkProbe, SharedInv, ProbeAccountedFor
    <2> QED
      BY <1>3, <2>1, <2>2, ProcessStep DEF UnlinkProbe
  <1> QED
    BY <1>2, <1>3

LEMMA RemoveLitterIsSound ==
    ASSUME LifecycleInv, RemoveLitter PROVE LifecycleInv'
  BY LifecycleParts, LifecyclePartsNext DEF RemoveLitter, SharedInv, ProbeAccountedFor

-----------------------------------------------------------------------------
(* Serving.                                                                *)

(* The handlers are installed before anything is announced.                *)
LEMMA InstallIsSound ==
    ASSUME LifecycleInv, NEW p \in Procs, InstallSignals(p) PROVE LifecycleInv'
  <1> DEFINE q == proc[p]
             s == [q EXCEPT !.pc = "announce", !.handled = TRUE]
  <1>1. SoundProc(p, q, port) /\ q \in ProcState /\ SharedInv
    BY BeforeStep
  <1>2. /\ s.pc = "announce" /\ s.handled = TRUE /\ s.accepting = q.accepting
        /\ s.events = q.events /\ s.signalled = q.signalled /\ s.exit = q.exit
    BY <1>1 DEF ProcState
  <1>3. s \in ProcState
    BY <1>1 DEF ProcState, Starting
  <1>4. SoundProc(p, s, port')
    <2>1. q.events = <<>> /\ ~q.accepting /\ port' = p
      BY <1>1 DEF SoundProc, Starting, InstallSignals
    <2> QED
      BY <1>2, <1>3, <2>1, EmptyLog DEF SoundProc
  <1> QED
    BY <1>1, <1>4, QuietStep DEF InstallSignals, SharedInv

LEMMA AnnounceIsSound ==
    ASSUME LifecycleInv, NEW p \in Procs, Announce(p) PROVE LifecycleInv'
  <1> DEFINE q == proc[p]
             s == [q EXCEPT !.pc = "serving", !.accepting = TRUE, !.events = Append(@, "started")]
  <1>1. SoundProc(p, q, port) /\ q \in ProcState /\ SharedInv /\ q.events \in Seq(Events)
    BY BeforeStep
  <1>2. /\ s.pc = "serving" /\ s.handled = q.handled /\ s.accepting = TRUE
        /\ s.events = Append(q.events, "started") /\ s.signalled = q.signalled
        /\ s.exit = q.exit
    BY <1>1 DEF ProcState
  <1>3. q.events = <<>> /\ port' = p /\ q.handled
    BY <1>1 DEF SoundProc, Starting, Announce
  <1>4. /\ Append(q.events, "started") \in Seq(Events)
        /\ \A e : Contains(s.events, e) <=> e = "started"
    <2>1. "started" \in Events
      BY DEF Events
    <2>2. /\ Append(q.events, "started") \in Seq(Events)
          /\ \A e : Contains(Append(q.events, "started"), e)
                     <=> Contains(q.events, e) \/ e = "started"
      BY <1>1, <2>1, AppendedLog
    <2>3. \A e : ~Contains(q.events, e)
      BY <1>3, EmptyLog
    <2> QED
      BY <1>2, <2>2, <2>3
  <1>5. s \in ProcState
    BY <1>1, <1>4 DEF ProcState, Events
  <1>6. AtMostOne(s.events, {"clean", "forced"}) /\ AtMostOne(s.events, {"initiated"})
    BY <1>1, <1>2, AppendedOnce DEF Events, SoundProc
  <1>7. SoundProc(p, s, port')
    BY <1>2, <1>3, <1>4, <1>5, <1>6 DEF SoundProc, Starting
  <1> QED
    BY <1>1, <1>7, QuietStep DEF Announce, SharedInv

(* What a request does is not the main task's business.                    *)
LEMMA RequestIsSound ==
    ASSUME LifecycleInv, NEW p \in Procs, NEW open \in SUBSET Conns,
           NEW blocking \in SUBSET Conns, Request(p, open, blocking)
    PROVE  LifecycleInv'
  <1> DEFINE q == proc[p]
             s == [q EXCEPT !.open = open, !.blocking = blocking]
  <1>1. SoundProc(p, q, port) /\ q \in ProcState /\ SharedInv
    BY BeforeStep
  <1>2. /\ s.pc = q.pc /\ s.handled = q.handled /\ s.accepting = q.accepting
        /\ s.events = q.events /\ s.signalled = q.signalled /\ s.exit = q.exit
    BY <1>1 DEF ProcState
  <1>3. s \in ProcState
    BY <1>1 DEF ProcState
  <1>4. SoundProc(p, s, port')
    BY <1>1, <1>2, <1>3 DEF SoundProc, Request
  <1> QED
    BY <1>1, <1>2, <1>4, QuietStep DEF Request, SharedInv

LEMMA RequestsAreSound ==
    ASSUME LifecycleInv, NEW p \in Procs, NEW c \in Conns,
           Connect(p, c) \/ CallStorage(p, c) \/ StorageReturns(p, c) \/ RequestEnds(p, c)
    PROVE  LifecycleInv'
  <1>1. proc[p].open \in SUBSET Conns /\ proc[p].blocking \in SUBSET Conns
    BY BeforeStep DEF ProcState
  <1>2. CASE Connect(p, c)
    BY <1>1, <1>2, RequestIsSound DEF Connect
  <1>3. CASE CallStorage(p, c)
    BY <1>1, <1>3, RequestIsSound DEF CallStorage
  <1>4. CASE StorageReturns(p, c)
    BY <1>1, <1>4, RequestIsSound DEF StorageReturns
  <1>5. CASE RequestEnds(p, c)
    BY <1>1, <1>5, RequestIsSound DEF RequestEnds
  <1> QED
    BY <1>2, <1>3, <1>4, <1>5

-----------------------------------------------------------------------------
(* The shutdown.                                                           *)

LEMMA SignalIsSound ==
    ASSUME LifecycleInv, NEW p \in Procs, Signal(p) PROVE LifecycleInv'
  <1> DEFINE q == proc[p]
             s == [q EXCEPT !.signalled = TRUE]
  <1>1. SoundProc(p, q, port) /\ q \in ProcState /\ SharedInv
    BY BeforeStep
  <1>2. CASE q.handled
    <2>1. /\ s.pc = q.pc /\ s.handled = q.handled /\ s.accepting = q.accepting
          /\ s.events = q.events /\ s.signalled = TRUE /\ s.exit = q.exit
      BY <1>1 DEF ProcState
    <2>2. s \in ProcState
      BY <1>1 DEF ProcState
    <2>3. Set(p, s) /\ UNCHANGED <<port, litter, probe, starts>>
      BY <1>2 DEF Signal
    <2>4. SoundProc(p, s, port')
      BY <1>1, <2>1, <2>2, <2>3 DEF SoundProc
    <2> QED
      BY <1>1, <2>1, <2>3, <2>4, QuietStep DEF SharedInv
  <1>3. CASE ~q.handled
    <2>1. q.pc \in Starting
      BY <1>1, <1>3 DEF SoundProc, ProcState, Signal
    <2>2. End(p, "signal") /\ litter' = (litter \/ probe = p) /\ UNCHANGED <<probe, starts>>
      BY <1>3 DEF Signal
    <2> QED
      BY <1>1, <2>1, <2>2, EndIsSound DEF SharedInv
  <1> QED
    BY <1>2, <1>3

LEMMA ResolveIsSound ==
    ASSUME LifecycleInv, NEW p \in Procs, ResolveShutdown(p) PROVE LifecycleInv'
  <1> DEFINE q == proc[p]
             s == [q EXCEPT !.events = Append(@, "initiated")]
  <1>1. SoundProc(p, q, port) /\ q \in ProcState /\ SharedInv /\ q.events \in Seq(Events)
    BY BeforeStep
  <1>2. /\ s.pc = q.pc /\ s.handled = q.handled /\ s.accepting = q.accepting
        /\ s.events = Append(q.events, "initiated") /\ s.signalled = q.signalled
        /\ s.exit = q.exit
    BY <1>1 DEF ProcState
  <1>3. /\ q.pc \in {"serving", "returned"} /\ q.signalled
        /\ ~Contains(q.events, "initiated")
    BY DEF ResolveShutdown, Emitted
  <1>4. /\ Append(q.events, "initiated") \in Seq(Events)
        /\ \A e : Contains(s.events, e) <=> Contains(q.events, e) \/ e = "initiated"
    BY <1>1, <1>2, AppendedLog DEF Events
  <1>5. s \in ProcState
    BY <1>1, <1>4 DEF ProcState, Events
  <1>6. AtMostOne(s.events, {"clean", "forced"}) /\ AtMostOne(s.events, {"initiated"})
    BY <1>1, <1>2, <1>3, AppendedOnce DEF Events, SoundProc
  <1>7. SoundProc(p, s, port')
    BY <1>1, <1>2, <1>3, <1>4, <1>5, <1>6 DEF SoundProc, Starting, ResolveShutdown
  <1> QED
    BY <1>1, <1>2, <1>7, QuietStep DEF ResolveShutdown, SharedInv

(* The accept loop, the notification and the timer change no log.          *)
LEMMA DrainIsSound ==
    ASSUME LifecycleInv, NEW p \in Procs,
           StopAccepting(p) \/ StartDrain(p) \/ TimerElapses(p) \/ DropTasks(p)
    PROVE  LifecycleInv'
  <1> DEFINE q == proc[p]
  <1>1. SoundProc(p, q, port) /\ q \in ProcState /\ SharedInv
    BY BeforeStep
  <1>2. /\ UNCHANGED <<probe, litter, starts>>
        /\ port' = port \/ (StopAccepting(p) /\ port = p /\ port' = Nobody)
    BY DEF StopAccepting, StartDrain, TimerElapses, DropTasks
  <1>3. CASE StopAccepting(p)
    <2> DEFINE s == [q EXCEPT !.accepting = FALSE]
    <2>1. /\ s.pc = q.pc /\ s.handled = q.handled /\ s.accepting = FALSE
          /\ s.events = q.events /\ s.signalled = q.signalled /\ s.exit = q.exit
      BY <1>1 DEF ProcState
    <2>2. s \in ProcState
      BY <1>1 DEF ProcState
    <2>3. SoundProc(p, s, port')
      <3>1. q.pc \notin {"install", "announce"}
        BY <1>1, <1>3 DEF SoundProc, StopAccepting, Starting
      <3> QED
        BY <1>1, <2>1, <2>2, <3>1, <1>3 DEF SoundProc, StopAccepting, Emitted
    <2> QED
      <3>1. Set(p, s)
        BY <1>3 DEF StopAccepting
      <3>2. litter' \in BOOLEAN /\ starts' \in 0..MaxStarts
        BY <1>1, <1>2 DEF SharedInv
      <3> QED
        BY <1>2, <2>1, <2>3, <3>1, <3>2, QuietStep
  <1>4. CASE StartDrain(p)
    <2>0. UNCHANGED port
      BY <1>4 DEF StartDrain
    <2> DEFINE s == [q EXCEPT !.pc = "draining", !.timer = "armed"]
    <2>1. /\ s.pc = "draining" /\ s.handled = q.handled /\ s.accepting = q.accepting
          /\ s.events = q.events /\ s.signalled = q.signalled /\ s.exit = q.exit
      BY <1>1 DEF ProcState
    <2>2. s \in ProcState
      BY <1>1 DEF ProcState
    <2>3. SoundProc(p, s, port')
      BY <1>1, <1>2, <1>4, <2>0, <2>1, <2>2 DEF SoundProc, StartDrain, Emitted, Starting
    <2> QED
      BY <1>1, <1>2, <1>4, <2>0, <2>1, <2>3, QuietStep DEF SharedInv, StartDrain
  <1>5. CASE TimerElapses(p)
    <2>0. UNCHANGED port
      BY <1>5 DEF TimerElapses
    <2> DEFINE s == [q EXCEPT !.timer = "elapsed"]
    <2>1. /\ s.pc = q.pc /\ s.handled = q.handled /\ s.accepting = q.accepting
          /\ s.events = q.events /\ s.signalled = q.signalled /\ s.exit = q.exit
      BY <1>1 DEF ProcState
    <2>2. s \in ProcState
      BY <1>1 DEF ProcState
    <2>3. SoundProc(p, s, port')
      BY <1>1, <2>0, <2>1, <2>2 DEF SoundProc
    <2> QED
      BY <1>1, <1>2, <1>5, <2>0, <2>1, <2>3, QuietStep DEF SharedInv, TimerElapses
  <1>6. CASE DropTasks(p)
    <2>0. UNCHANGED port
      BY <1>6 DEF DropTasks
    <2> DEFINE s == [q EXCEPT !.pc = "dropping", !.open = {}]
    <2>1. /\ s.pc = "dropping" /\ s.handled = q.handled /\ s.accepting = q.accepting
          /\ s.events = q.events /\ s.signalled = q.signalled /\ s.exit = q.exit
      BY <1>1 DEF ProcState
    <2>2. s \in ProcState
      BY <1>1 DEF ProcState
    <2>3. SoundProc(p, s, port')
      BY <1>1, <1>2, <1>6, <2>0, <2>1, <2>2 DEF SoundProc, DropTasks, Starting
    <2> QED
      BY <1>1, <1>2, <1>6, <2>0, <2>1, <2>3, QuietStep DEF SharedInv, DropTasks
  <1> QED
    BY <1>3, <1>4, <1>5, <1>6

(* serve_with_shutdown returns once, and 0 only after a signal.            *)
LEMMA ReturnsIsSound ==
    ASSUME LifecycleInv, NEW p \in Procs, NEW event \in {"clean", "forced"},
           NEW how \in {"0", "1"}, Returns(p, event, how),
           proc[p].pc \in {"serving", "draining"},
           how = "0" => proc[p].pc = "draining" \/ ~proc[p].accepting
    PROVE  LifecycleInv'
  <1> DEFINE q == proc[p]
             s == [q EXCEPT !.pc = "returned", !.accepting = FALSE,
                            !.events = Append(@, event), !.exit = how]
  <1>1. SoundProc(p, q, port) /\ q \in ProcState /\ SharedInv /\ q.events \in Seq(Events)
    BY BeforeStep
  <1>2. /\ s.pc = "returned" /\ s.handled = q.handled /\ s.accepting = FALSE
        /\ s.events = Append(q.events, event) /\ s.signalled = q.signalled
        /\ s.exit = how
    BY <1>1 DEF ProcState
  <1>3. /\ Append(q.events, event) \in Seq(Events)
        /\ \A e : Contains(s.events, e) <=> Contains(q.events, e) \/ e = event
    BY <1>1, <1>2, AppendedLog DEF Events
  <1>4. s \in ProcState
    BY <1>1, <1>3 DEF ProcState, Events
  <1>5. /\ ~Contains(q.events, "clean") /\ ~Contains(q.events, "forced")
        /\ how = "0" => Contains(q.events, "initiated")
    BY <1>1 DEF SoundProc
  <1>6. AtMostOne(s.events, {"clean", "forced"}) /\ AtMostOne(s.events, {"initiated"})
    BY <1>1, <1>2, <1>5, AppendedOnce DEF Events, SoundProc
  <1>7. SoundProc(p, s, port')
    BY <1>1, <1>2, <1>3, <1>4, <1>5, <1>6 DEF SoundProc, Starting
  <1>8. /\ Set(p, s) /\ UNCHANGED <<probe, litter, starts>>
        /\ port' = port \/ (port = p /\ port' = Nobody)
    BY DEF Returns
  <1> QED
    BY <1>1, <1>7, <1>8, QuietStep DEF SharedInv

LEMMA ReturningIsSound ==
    ASSUME LifecycleInv, NEW p \in Procs, Drained(p) \/ DrainTimesOut(p) \/ ServeFails(p)
    PROVE  LifecycleInv'
  <1>1. CASE Drained(p)
    BY <1>1, ReturnsIsSound DEF Drained, ServeDone
  <1>2. CASE DrainTimesOut(p)
    BY <1>2, ReturnsIsSound DEF DrainTimesOut
  <1>3. CASE ServeFails(p)
    BY <1>3, ReturnsIsSound DEF ServeFails
  <1> QED
    BY <1>1, <1>2, <1>3

-----------------------------------------------------------------------------
LEMMA NextIsSound == LifecycleInv /\ [Next]_vars => LifecycleInv'
  <1> SUFFICES ASSUME LifecycleInv, [Next]_vars PROVE LifecycleInv'
    OBVIOUS
  <1>1. CASE UNCHANGED vars
    BY <1>1, LifecycleParts, LifecyclePartsNext DEF vars, SharedInv, ProbeAccountedFor
  <1>2. CASE RemoveLitter
    BY <1>2, RemoveLitterIsSound
  <1>3. ASSUME NEW p \in Procs, Start(p) \/ MainStep(p) \/ Signal(p) \/ Kill(p)
                    \/ ServeFails(p) \/ ResolveShutdown(p) \/ StopAccepting(p) \/ TimerElapses(p)
        PROVE  LifecycleInv'
    BY <1>3, StartIsSound, EndingIsSound, BootstrapIsSound, ProbeIsSound, InstallIsSound,
       AnnounceIsSound, SignalIsSound, ResolveIsSound, DrainIsSound, ReturningIsSound
       DEF MainStep
  <1>4. ASSUME NEW p \in Procs, NEW c \in Conns,
               Connect(p, c) \/ CallStorage(p, c) \/ StorageReturns(p, c) \/ RequestEnds(p, c)
        PROVE  LifecycleInv'
    BY <1>4, RequestsAreSound
  <1> QED
    BY <1>1, <1>2, <1>3, <1>4 DEF Next

(* The inductive invariant: at every point of the start, of serving and of *)
(* the two-phase shutdown the log, the handlers, the listener and the      *)
(* probe file of a process are what its place in the code says.            *)
THEOREM LifecycleSound == Spec => []LifecycleInv
  BY InitIsSound, NextIsSound, PTL DEF Spec

(* The state stays well formed, and at most the process that holds the     *)
(* address accepts connections, however starts and ends overlap.           *)
THEOREM LifecycleTyped == Spec => []TypeOK
  BY LifecycleSound, PTL DEF LifecycleInv

(* Every announced process that is not killed emits                        *)
(* server.shutdown.completed exactly once.                                 *)
THEOREM CompletedIsEmittedOnce == Spec => []CompletedExactlyOnce
  BY LifecycleSound, PTL DEF LifecycleInv

(* An announced process never dies of a signal's default disposition, and  *)
(* exits with 0 only if a signal asked for it.                             *)
THEOREM SignalsNeverKill == Spec => []SignalsAreHandled
  BY LifecycleSound, PTL DEF LifecycleInv

(* Every probe file is about to be removed or was left by a process that   *)
(* was ended, or failed to remove it.                                      *)
THEOREM ProbesAreAccountedFor == Spec => []ProbeAccountedFor
  BY LifecycleSound, PTL DEF LifecycleInv

-----------------------------------------------------------------------------
(* What CleanMeansDrained says of one step.                                *)
DrainedStep ==
    \A p \in Procs :
        proc[p].pc # "returned" /\ proc'[p].pc = "returned" =>
            /\ Last(proc'[p].events) = "clean" => proc[p].open = {}
            /\ proc[p].open # {} /\ proc'[p].exit = "0" => proc[p].timer = "elapsed"

LEMMA AfterSet ==
    ASSUME LifecycleInv, NEW p \in Procs, NEW s, Set(p, s)
    PROVE  proc'[p] = s /\ \A r \in Procs \ {p} : proc'[r] = proc[r]
  BY LifecycleParts DEF Set

(* Only serve_with_shutdown returns.                                       *)
LEMMA ReturnsDrained ==
    ASSUME LifecycleInv, NEW p \in Procs, NEW event \in {"clean", "forced"}, NEW how,
           Returns(p, event, how),
           event = "clean" => proc[p].open = {},
           proc[p].open # {} /\ how = "0" => proc[p].timer = "elapsed"
    PROVE  DrainedStep
  <1> DEFINE q == proc[p]
             s == [q EXCEPT !.pc = "returned", !.accepting = FALSE,
                            !.events = Append(@, event), !.exit = how]
  <1>1. proc \in [Procs -> ProcState] /\ q \in ProcState /\ q.events \in Seq(Events)
    BY BeforeStep
  <1>2. s.events = Append(q.events, event) /\ s.exit = how
    BY <1>1 DEF ProcState
  <1>3. Last(s.events) = event
    BY <1>1, <1>2, AppendedLog DEF Events
  <1>4. proc'[p] = s /\ \A r \in Procs \ {p} : proc'[r] = proc[r]
    BY AfterSet DEF Returns
  <1> QED
    BY <1>2, <1>3, <1>4 DEF DrainedStep

LEMMA NextDrains == LifecycleInv /\ [Next]_vars => DrainedStep
  <1> SUFFICES ASSUME LifecycleInv, [Next]_vars PROVE DrainedStep
    OBVIOUS
  <1>1. CASE UNCHANGED vars \/ RemoveLitter
    BY <1>1 DEF vars, RemoveLitter, DrainedStep
  <1>2. ASSUME NEW p \in Procs, Drained(p) \/ DrainTimesOut(p) \/ ServeFails(p)
        PROVE  DrainedStep
    <2>1. CASE Drained(p)
      BY <2>1, ReturnsDrained DEF Drained, ServeDone
    <2>2. CASE DrainTimesOut(p)
      BY <2>2, ReturnsDrained DEF DrainTimesOut
    <2>3. CASE ServeFails(p)
      BY <2>3, ReturnsDrained DEF ServeFails
    <2> QED
      BY <1>2, <2>1, <2>2, <2>3
  <1>3. ASSUME NEW p \in Procs,
               \/ Start(p) \/ LoadConfig(p) \/ InitContexts(p) \/ SkipProbe(p)
               \/ PersistProbe(p) \/ UnlinkProbe(p) \/ Bind(p) \/ InstallSignals(p)
               \/ Announce(p) \/ StartFails(p) \/ StartDrain(p) \/ DropTasks(p)
               \/ DropRuntime(p) \/ Kill(p) \/ Signal(p) \/ ResolveShutdown(p)
               \/ StopAccepting(p) \/ TimerElapses(p)
               \/ \E c \in Conns : \/ Connect(p, c) \/ CallStorage(p, c)
                                   \/ StorageReturns(p, c) \/ RequestEnds(p, c)
        PROVE  DrainedStep
    <2> DEFINE Alone == \A r \in Procs \ {p} : proc'[r] = proc[r]
    <2>1. proc[p] \in ProcState
      BY BeforeStep
    <2>2. CASE Start(p)
      BY <2>2, AfterSet DEF Start, Fresh, DrainedStep
    <2>3. ASSUME NEW pc \in Starting, Goto(p, pc) PROVE DrainedStep
      <3>1. proc'[p] = [proc[p] EXCEPT !.pc = pc] /\ Alone
        BY <2>3, AfterSet DEF Goto
      <3>2. proc'[p].pc = pc
        BY <2>1, <3>1 DEF ProcState
      <3> QED
        BY <3>1, <3>2 DEF DrainedStep, Starting
    <2>4. CASE \/ LoadConfig(p) \/ InitContexts(p) \/ SkipProbe(p)
               \/ PersistProbe(p) \/ UnlinkProbe(p) \/ Bind(p)
      BY <2>3, <2>4 DEF LoadConfig, InitContexts, SkipProbe, PersistProbe, UnlinkProbe,
         Bind, Starting
    <2>5. ASSUME NEW how, End(p, how) PROVE DrainedStep
      <3> DEFINE s == [Ended(how) EXCEPT !.events = proc[p].events,
                                         !.signalled = proc[p].signalled]
      <3>1. s.pc = "ended"
        BY DEF Ended, Fresh
      <3>2. proc'[p] = s /\ Alone
        BY <2>5, AfterSet DEF End
      <3> QED
        BY <3>1, <3>2 DEF DrainedStep
    <2>6. CASE StartFails(p) \/ DropRuntime(p) \/ Kill(p)
      BY <2>5, <2>6 DEF StartFails, DropRuntime, Kill
    <2>7. CASE InstallSignals(p)
      <3> DEFINE s == [proc[p] EXCEPT !.pc = "announce", !.handled = TRUE]
      <3>1. s.pc = "announce"
        BY <2>1 DEF ProcState
      <3>2. proc'[p] = s /\ Alone
        BY <2>7, AfterSet DEF InstallSignals
      <3> QED
        BY <3>1, <3>2 DEF DrainedStep
    <2>8. CASE Announce(p)
      <3> DEFINE s == [proc[p] EXCEPT !.pc = "serving", !.accepting = TRUE,
                                  !.events = Append(@, "started")]
      <3>1. s.pc = "serving"
        BY <2>1 DEF ProcState
      <3>2. proc'[p] = s /\ Alone
        BY <2>8, AfterSet DEF Announce
      <3> QED
        BY <3>1, <3>2 DEF DrainedStep
    <2>9. CASE StartDrain(p)
      <3> DEFINE s == [proc[p] EXCEPT !.pc = "draining", !.timer = "armed"]
      <3>1. s.pc = "draining"
        BY <2>1 DEF ProcState
      <3>2. proc'[p] = s /\ Alone
        BY <2>9, AfterSet DEF StartDrain
      <3> QED
        BY <3>1, <3>2 DEF DrainedStep
    <2>10. CASE DropTasks(p)
      BY <2>1, <2>10, AfterSet DEF DropTasks, ProcState, DrainedStep
    <2>11. CASE Signal(p)
      <3>1. CASE ~proc[p].handled
        BY <2>5, <2>11, <3>1 DEF Signal
      <3>2. CASE proc[p].handled
        BY <2>1, <2>11, <3>2, AfterSet DEF Signal, ProcState, DrainedStep
      <3> QED
        BY <3>1, <3>2
    <2>12. CASE ResolveShutdown(p)
      BY <2>1, <2>12, AfterSet DEF ResolveShutdown, ProcState, DrainedStep
    <2>13. CASE StopAccepting(p)
      BY <2>1, <2>13, AfterSet DEF StopAccepting, ProcState, DrainedStep
    <2>14. CASE TimerElapses(p)
      BY <2>1, <2>14, AfterSet DEF TimerElapses, ProcState, DrainedStep
    <2>15. ASSUME NEW open, NEW blocking, Request(p, open, blocking) PROVE DrainedStep
      <3> DEFINE s == [proc[p] EXCEPT !.open = open, !.blocking = blocking]
      <3>1. s.pc = proc[p].pc
        BY <2>1 DEF ProcState
      <3>2. proc'[p] = s /\ Alone
        BY <2>15, AfterSet DEF Request
      <3> QED
        BY <3>1, <3>2 DEF DrainedStep
    <2>16. CASE \E c \in Conns : \/ Connect(p, c) \/ CallStorage(p, c)
                                \/ StorageReturns(p, c) \/ RequestEnds(p, c)
      BY <2>15, <2>16 DEF Connect, CallStorage, StorageReturns, RequestEnds
    <2> QED
      BY <1>3, <2>2, <2>4, <2>6, <2>7, <2>8, <2>9, <2>10, <2>11, <2>12, <2>13, <2>14, <2>16
  <1> QED
    BY <1>1, <1>2, <1>3 DEF Next, MainStep

(* A shutdown is reported clean only when no request was cut off; one is   *)
(* cut off by an exit with code 0 only after the whole drain time.         *)
THEOREM CleanIsDrained == Spec => CleanMeansDrained
  <1>1. LifecycleInv /\ [Next]_vars => [DrainedStep]_vars
    BY NextDrains
  <1> QED
    BY <1>1, LifecycleSound, PTL DEF Spec, CleanMeansDrained, DrainedStep

=============================================================================
