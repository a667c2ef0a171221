------------------------------- MODULE Start -------------------------------
(***************************************************************************)
(* The life of olrd: a start that first reverts an unconfirmed change and  *)
(* then puts stored intent back in force module by module, while the loops *)
(* already started (recovery's retry, the gateway's probes, the delegated  *)
(* prefix) act under the apply lock; listening; stopping.                  *)
(*                                                                         *)
(* A module's configuration is a version of its section. The kernel        *)
(* forgets its share at a reboot; files and units survive one.             *)
(***************************************************************************)
EXTENDS Naturals, Sequences, FiniteSets, TLC

CONSTANTS
    Editable,  \* modules an operator edits in this instance
    MaxEdits,  \* bound: edits
    MaxStops,  \* bound: crashes, reboots and stops
    MaxFaults  \* bound: failed applies and saves

(* Mutant of StartSeq: the addresses are not put back. *)
StartSeqUnaddressed == <<"firewall", "dial", "host", "socksout", "gateway", "nat", "iptv", "remote", "dns">>

(* The order of the start, and of a rollback. *)
StartSeq == <<"firewall", "link", "dial", "host", "socksout", "gateway", "nat", "iptv", "remote", "dns">>
RollbackSeq == <<"dial", "link", "remote", "dns", "socksout", "gateway", "nat", "iptv", "firewall">>
Modules == {"firewall", "link", "dial", "host", "socksout", "gateway", "nat", "iptv", "remote", "dns"}
Forgotten == {"firewall", "link", "dial", "gateway", "nat", "remote"} \* kernel state
Guarded == {"link", "dial", "gateway", "nat", "remote"} \* what a packet could pass through
Locked == {"firewall", "host"} \* start steps that take the apply lock
Loops == <<"activity", "latency", "seen">> \* history, in the order they are stopped

Off == 0        \* an empty section
Gone == 9       \* forgotten by the kernel

VARIABLES
    doc,     \* the document: module -> version
    live,    \* module -> version in force, or Gone
    pc,      \* "down", "load", "start", "listen", "ready", "stop"
    at,      \* position in StartSeq, in Loops while stopping
    held,    \* the section the current start step has loaded, or none: a sequence
    trial,   \* the journal: [state, before]; state "none", "pending" or "failed"
    revert,  \* a rollback under way: position in RollbackSeq, 0 when there is none
    edit,    \* an edit under way: <<module>> saved but not yet applied
    dirty,   \* loops with history not saved
    running, \* loops running
    dbOpen,
    failed,  \* modules whose last apply failed (ghost)
    rolled,  \* a retry rolled back while the start was under way (ghost)
    lost,    \* a clean stop left history behind (ghost)
    edits, stops, faults

apply == <<doc, live, failed>>
journal == <<trial, revert, rolled>>
history == <<dirty, running, dbOpen, lost>>
bounds == <<edits, stops, faults>>
vars == <<apply, pc, at, held, journal, edit, history, bounds>>

Fault == faults < MaxFaults /\ faults' = faults + 1
NoTrial == [state |-> "none", before |-> [m \in {} |-> Off]]

(* The apply lock is one holder's at a time. *)
LockFree == revert = 0 /\ edit = <<>>

(* A module's Apply: the section is saved and put in force, or fails. *)
Program(m, v, fails) ==
    /\ IF fails THEN Fault ELSE faults' = faults
    /\ live' = IF fails THEN live ELSE [live EXCEPT ![m] = v]
    /\ failed' = IF fails THEN failed \cup {m} ELSE failed \ {m}

(***************************************************************************)
(* Start.                                                                  *)
(***************************************************************************)
(* A runtime database that cannot be opened leaves history in memory only. *)
Boot == \E opened \in BOOLEAN :
    /\ pc = "down" /\ pc' = "load"
    /\ IF opened THEN faults' = faults ELSE Fault
    /\ dbOpen' = opened /\ at' = 1 /\ held' = <<>>
    /\ UNCHANGED <<apply, journal, edit, dirty, running, lost, edits, stops>>

(* revert: the old document is saved first; when that fails nothing else   *)
(* is done and the retry is due.                                           *)
Reverts(saved) ==
    /\ IF saved THEN faults' = faults ELSE Fault
    /\ revert' = IF saved THEN 1 ELSE 0
    /\ doc' = IF saved THEN trial.before ELSE doc
    /\ trial' = IF saved THEN trial ELSE [trial EXCEPT !.state = "failed"]

(* Recovery.Load: an interrupted trial is rolled back before anything else *)
(* starts; recovery.Run follows.                                           *)
RecoveryLoad == \E saved \in BOOLEAN :
    /\ pc = "load" /\ revert = 0
    /\ IF trial.state = "none" THEN saved /\ UNCHANGED <<revert, doc, trial, faults>> ELSE Reverts(saved)
    /\ pc' = IF trial.state # "none" /\ saved THEN pc ELSE "start"
    /\ UNCHANGED <<live, failed, at, held, rolled, edit, history, edits, stops>>

(* recovery.Run: the deadline passed, or a rollback that failed is due again. *)
Retry == \E saved \in BOOLEAN :
    /\ trial.state # "none" /\ pc \in {"start", "listen", "ready"} /\ LockFree
    /\ Reverts(saved)
    /\ rolled' = (rolled \/ pc = "start")
    /\ UNCHANGED <<live, failed, pc, at, held, edit, history, edits, stops>>

(* recovery.Rollback, one module at a time; sections neither document has  *)
(* are left out, the firewall never.                                       *)
Rollback == \E fails \in BOOLEAN :
    LET m == RollbackSeq[revert]
        skip == doc[m] = Off /\ m # "firewall" IN
    /\ revert \in 1..Len(RollbackSeq) /\ pc # "down"
    /\ (skip => ~fails)
    /\ IF skip THEN UNCHANGED <<live, failed, faults>> ELSE Program(m, doc[m], fails)
    /\ revert' = revert + 1
    /\ UNCHANGED <<doc, pc, at, held, trial, rolled, edit, history, edits, stops>>

(* clear, or the journal stays and the retry is due. *)
RollbackEnds ==
    /\ revert > Len(RollbackSeq) /\ pc # "down"
    /\ revert' = 0
    /\ trial' = IF failed = {} THEN NoTrial ELSE [trial EXCEPT !.state = "failed"]
    /\ pc' = IF pc = "load" THEN "start" ELSE pc
    /\ UNCHANGED <<apply, at, held, rolled, edit, history, bounds>>

Step == StartSeq[at]
Starting == pc = "start" /\ at <= Len(StartSeq)
Passed == at' = at + 1 /\ held' = <<>>

(* What a start step leaves alone: an empty gateway, no forwards, no       *)
(* tunnel, and a resolver that answers as its settings say.                *)
Skips(m) ==
    /\ m \in {"gateway", "nat", "remote", "dial", "dns"}
    /\ doc[m] = Off \/ (m = "dns" /\ live[m] = doc[m])

(* startLink, startDial, ...: load, then apply; no lock is held. *)
StartLoads ==
    /\ Starting /\ Step \notin Locked /\ held = <<>>
    /\ IF Skips(Step) THEN Passed ELSE held' = <<doc[Step]>> /\ at' = at
    /\ UNCHANGED <<apply, pc, journal, edit, history, bounds>>

(* Restore puts addresses back and saves nothing; the others save what     *)
(* they loaded.                                                            *)
StartApplies == \E fails \in BOOLEAN :
    /\ Starting /\ held # <<>>
    /\ Program(Step, held[1], fails)
    /\ doc' = IF Step \in {"link", "dial"} THEN doc ELSE [doc EXCEPT ![Step] = held[1]]
    /\ Passed
    /\ UNCHANGED <<pc, journal, edit, history, edits, stops>>

(* reapplyFirewall and startHost wait for the lock, thirty seconds. *)
StartLocked == \E fails \in BOOLEAN :
    /\ Starting /\ Step \in Locked /\ (LockFree \/ fails)
    /\ Program(Step, doc[Step], fails)
    /\ Passed
    /\ UNCHANGED <<doc, pc, journal, edit, history, edits, stops>>

(* A probe's verdict and a new prefix are programmed under the lock as     *)
(* soon as their loops run.                                                *)
Background == \E m \in {"gateway", "link"}, fails \in BOOLEAN :
    /\ LockFree /\ doc[m] # Off
    /\ \/ pc = "start" /\ at > (IF m = "gateway" THEN 6 ELSE 3)
       \/ pc \in {"listen", "ready"}
    /\ live[m] # doc[m] \* otherwise nothing is planned
    /\ Program(m, doc[m], fails)
    /\ UNCHANGED <<doc, pc, at, held, journal, edit, history, edits, stops>>

(* The history loops start after the modules. *)
StartLoops ==
    /\ pc = "start" /\ at > Len(StartSeq)
    /\ pc' = "listen" /\ at' = 1 /\ running' = {Loops[k] : k \in 1..Len(Loops)}
    /\ UNCHANGED <<apply, held, journal, edit, dirty, dbOpen, lost, bounds>>

(* Both listeners are bound before systemd is told; a socket that cannot   *)
(* be bound ends the daemon, deferred saves included.                      *)
Listen == \E bound \in BOOLEAN :
    /\ pc = "listen"
    /\ IF bound THEN faults' = faults /\ pc' = "ready" ELSE Fault /\ pc' = "stop"
    /\ UNCHANGED <<apply, at, held, journal, edit, history, edits, stops>>

(***************************************************************************)
(* Requests.                                                               *)
(***************************************************************************)
(* A disruptive edit begins a trial; while one is pending its owner may    *)
(* make further edits.                                                     *)
Edit == \E m \in Editable, v \in {0, 1, 2}, disruptive \in BOOLEAN :
    /\ pc = "ready" /\ LockFree /\ trial.state # "failed" /\ edits < MaxEdits
    /\ doc[m] # v
    /\ doc' = [doc EXCEPT ![m] = v] /\ edit' = <<m>> /\ edits' = edits + 1
    /\ trial' = IF disruptive /\ trial.state = "none" THEN [state |-> "pending", before |-> doc] ELSE trial
    /\ UNCHANGED <<live, failed, pc, at, held, revert, rolled, history, stops, faults>>

EditApplies == \E fails \in BOOLEAN :
    /\ edit # <<>> /\ pc = "ready"
    /\ Program(edit[1], doc[edit[1]], fails)
    /\ edit' = <<>>
    /\ UNCHANGED <<doc, pc, at, held, journal, history, edits, stops>>

Confirm ==
    /\ trial.state = "pending" /\ pc = "ready" /\ LockFree /\ trial' = NoTrial
    /\ UNCHANGED <<apply, pc, at, held, revert, rolled, edit, history, bounds>>

(***************************************************************************)
(* History, stopping, crashing.                                            *)
(***************************************************************************)
Observe == \E l \in running :
    /\ dirty' = dirty \cup {l}
    /\ UNCHANGED <<apply, pc, at, held, journal, edit, running, dbOpen, lost, bounds>>

Checkpoint == \E l \in running :
    /\ l \in dirty /\ dbOpen /\ dirty' = dirty \ {l}
    /\ UNCHANGED <<apply, pc, at, held, journal, edit, running, dbOpen, lost, bounds>>

(* SIGTERM: requests are given ten seconds, then the deferred calls run. *)
Stop ==
    /\ pc = "ready" /\ edit = <<>> /\ revert = 0
    /\ stops < MaxStops /\ stops' = stops + 1
    /\ pc' = "stop" /\ at' = 1
    /\ UNCHANGED <<apply, held, journal, edit, history, edits, faults>>

(* Each loop is stopped, waited for, and then saved a last time. *)
StopLoop ==
    /\ pc = "stop" /\ at <= Len(Loops)
    /\ IF Loops[at] \in running
       THEN running' = running \ {Loops[at]} /\ UNCHANGED <<dirty, at>>
       ELSE /\ dirty' = IF dbOpen THEN dirty \ {Loops[at]} ELSE dirty
            /\ at' = at + 1 /\ UNCHANGED running
    /\ UNCHANGED <<apply, pc, held, journal, edit, dbOpen, lost, bounds>>

(* The database is closed last. *)
Exit ==
    /\ pc = "stop" /\ at > Len(Loops)
    /\ pc' = "down" /\ dbOpen' = FALSE /\ lost' = (lost \/ (dbOpen /\ dirty # {}))
    /\ running' = {} /\ dirty' = {} /\ held' = <<>> /\ revert' = 0 /\ edit' = <<>>
    /\ rolled' = FALSE
    /\ UNCHANGED <<apply, at, trial, bounds>>

(* A crash, or power lost: the kernel then forgets, units come back with   *)
(* their files.                                                            *)
Crash == \E reboot \in BOOLEAN :
    /\ pc # "down" /\ stops < MaxStops /\ stops' = stops + 1
    /\ pc' = "down" /\ at' = 1 /\ held' = <<>> /\ revert' = 0 /\ edit' = <<>>
    /\ running' = {} /\ dirty' = {} /\ dbOpen' = FALSE /\ rolled' = FALSE
    /\ live' = [m \in Modules |-> IF reboot /\ m \in Forgotten THEN Gone ELSE live[m]]
    /\ UNCHANGED <<doc, failed, trial, lost, edits, faults>>

Init ==
    /\ doc \in {[m \in Modules |-> 1], [m \in Modules |-> IF m \in {"link", "dial"} THEN 1 ELSE Off]}
    /\ live = [m \in Modules |-> IF m \in Forgotten THEN Gone ELSE doc[m]]
    /\ pc = "down" /\ at = 1 /\ held = <<>> /\ trial = NoTrial /\ revert = 0 /\ edit = <<>>
    /\ dirty = {} /\ running = {} /\ dbOpen = FALSE /\ failed = {} /\ rolled = FALSE /\ lost = FALSE
    /\ edits = 0 /\ stops = 0 /\ faults = 0

Next ==
    \/ Boot \/ RecoveryLoad \/ Retry \/ Rollback \/ RollbackEnds
    \/ StartLoads \/ StartApplies \/ StartLocked \/ Background \/ StartLoops \/ Listen
    \/ Edit \/ EditApplies \/ Confirm \/ Observe \/ Checkpoint
    \/ Stop \/ StopLoop \/ Exit \/ Crash

Spec == Init /\ [][Next]_vars

(***************************************************************************)
(* What is promised of a start and of a stop.                              *)
(***************************************************************************)
(* When systemd is told the daemon is ready, everything stored is in force *)
(* again, but what failed: after a reboot, a crash between saving and      *)
(* applying, or an interrupted change rolled back, with the loops at work  *)
(* meanwhile (run, StartSeq).                                              *)
Restored ==
    (pc = "ready" /\ edit = <<>> /\ revert = 0 /\ ~rolled) =>
      \A m \in Modules \ failed : doc[m] # Off => live[m] = doc[m]

(* A clean stop saves every observation, those made while it was stopping  *)
(* included (the deferred calls of run).                                   *)
StopSaves == ~lost

(* No address, route, forward or tunnel comes up before the firewall: it   *)
(* goes before all of them at a start (run). TLC refutes it: a rollback at *)
(* the start applies every module in document order first (daemon.go:964). *)
FilterFirst ==
    [][\A m \in Guarded : (live[m] = Gone /\ live'[m] # Gone) =>
         (live["firewall"] # Gone \/ "firewall" \in failed)]_vars

(* A rollback that succeeded leaves the document as it was before the      *)
(* change: no start step puts back what it had loaded (Rollback, Run). TLC *)
(* refutes it: the start steps load, apply and save outside the lock       *)
(* (daemon.go:1083).                                                       *)
RollbackHolds ==
    [][pc = "start" => \A m \in Modules : doc'[m] # doc[m] =>
         (trial.state # "none" /\ doc' = trial.before)]_vars
=============================================================================
