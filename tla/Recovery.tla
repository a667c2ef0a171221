------------------------------ MODULE Recovery ------------------------------
(***************************************************************************)
(* Connectivity trials: the global apply lock, the configuration store,    *)
(* the recovery journal and the handlers that change them                  *)
(* (internal/core/{lock,apply_gate,recovery,backup,file}.go and the        *)
(* Rollback the daemon installs).                                          *)
(*                                                                         *)
(* One request, timer or startup step at a time holds the lock; `op' is    *)
(* its program counter, so that a crash or a power loss can fall between   *)
(* any two of its writes.  A configuration document is a model value; the  *)
(* kernel and backend state a document asks for is represented by the      *)
(* document itself, so `runtime' is the set of documents something of      *)
(* which is present on the machine.                                        *)
(*                                                                         *)
(* A file is [vis, may]: the content a reader sees, and the contents a     *)
(* power loss may leave behind.  WriteFileAtomic makes a content visible   *)
(* with a rename and durable with the directory sync that follows it, and  *)
(* either half may fail.                                                   *)
(***************************************************************************)
EXTENDS Naturals

CONSTANTS
  Docs,       \* configuration documents
  InitDoc,    \* the document the router was installed with
  NoDoc,      \* absent Before/From field of a record
  Faults,     \* the faults the environment may inject, see FaultKinds
  MaxFaults,  \* bound: faults, crashes and power losses in one behaviour
  MaxTrials   \* bound: trials begun in one behaviour

FaultKinds ==
  { "crash",          \* the daemon is killed
    "power",          \* the machine loses power
    "read",           \* a file cannot be read
    "capture",        \* the runtime snapshot cannot be taken
    "write",          \* a replacement fails before its rename
    "dirsync",        \* a directory sync fails after a rename or unlink,
                      \* at any point but the four below
    "beginDirsync",   \* ... after the rename that creates the journal
    "confirmDirsync", \* ... after the unlink that confirms a trial
    "saveDirsync",    \* ... after the rename that stores an edit
    "markDirsync",    \* ... after the rename that journals a recovery
    "unlink",         \* the journal cannot be removed
    "program" }       \* programming kernel or backends fails part-way

ASSUME ConstantsAssumption ==
  /\ InitDoc \in Docs
  /\ NoDoc \notin Docs
  /\ Faults \subseteq FaultKinds
  /\ MaxFaults \in Nat
  /\ MaxTrials \in Nat

VARIABLES
  store,     \* the configuration file
  journal,   \* the recovery journal file
  trial,     \* Recovery.trial, the daemon's memory of the journal
  op,        \* the holder of the apply lock and its next step
  up,        \* the daemon is running
  runtime,   \* documents whose kernel or backend state is present
  ids,       \* trial IDs issued so far
  budget,    \* faults still available
  accepted,  \* ghost: documents the operator may find after a restart
  tried      \* ghost: documents stored in this trial

vars == <<store, journal, trial, op, up, runtime, ids, budget,
          accepted, tried>>

-----------------------------------------------------------------------------
(* Files. *)

Files(S) == [vis : S, may : SUBSET S]

File(c) == [vis |-> c, may |-> {c}]

\* Fault variant of Renamed: the new content is taken for durable nowhere.
RenamedBlind(f, c) == [vis |-> c, may |-> f.may]

\* The rename inside WriteFileAtomic, or os.Remove: visible, not yet durable.
Renamed(f, c) == [vis |-> c, may |-> f.may \cup {c}]

\* The directory sync that follows.
Synced(f) == [vis |-> f.vis, may |-> {f.vis}]

(* Trial records, in memory and in the journal.  `due' is the answer to     *)
(* !time.Now().Before(Deadline); an ID of 0 is the empty ID.                *)

Record(i, st, b, f, d) ==
  [id |-> i, state |-> st, before |-> b, from |-> f, due |-> d]

\* No trial (r.trial == nil), and no journal file.
Idle == Record(0, "idle", NoDoc, NoDoc, FALSE)

States == {"idle", "pending", "recovering", "failed"}

Records == [id : Nat, state : States, before : Docs \cup {NoDoc},
            from : Docs \cup {NoDoc}, due : BOOLEAN]

(* The lock holder. *)

Stages ==
  {"free", "protect", "begin", "beginSync", "save", "saveSync", "program",
   "revert", "markSync", "putback", "putbackSync", "repair",
   "fail", "failSync", "remove", "removeSync"}

Causes == {"none", "edit", "disrupt", "restore", "confirm", "revert", "timeout", "boot"}

Holder(st, c, d, p, h) ==
  [stage |-> st, cause |-> c, doc |-> d, prev |-> p, header |-> h]

Holders == [stage : Stages, cause : Causes, doc : Docs \cup {NoDoc},
            prev : Docs \cup {NoDoc}, header : Nat]

Free == Holder("free", "none", NoDoc, NoDoc, 0)

At(st) == up /\ op.stage = st

Go(st) == op' = [op EXCEPT !.stage = st]

\* The deferred release in Lock.Do.
Release == op' = Free

\* Lock.Do: fn runs only once the lock is free.  A waiter whose context is
\* cancelled returns without running fn and changes nothing.
LockDo(c, st, d, h) ==
  /\ At("free")
  /\ op' = Holder(st, c, d, NoDoc, h)

(* Faults come out of a budget. *)

Fault(f) ==
  /\ f \in Faults
  /\ budget > 0
  /\ budget' = budget - 1

NoFault == UNCHANGED budget

-----------------------------------------------------------------------------
Init ==
  /\ store = File(InitDoc)
  /\ journal = File(Idle)
  /\ trial = Idle
  /\ op = Free
  /\ up = TRUE
  /\ runtime = {InitDoc}
  /\ ids = 0
  /\ budget = MaxFaults
  /\ accepted = {InitDoc}
  /\ tried = {}

-----------------------------------------------------------------------------
(* Requests that edit configuration. *)

\* The mutation guard Recovery.Wrap installs, evaluated by Lock.Do once the
\* lock is held: edits are refused while a trial is open unless they carry
\* its ID before its deadline.
MutationGuard(h) ==
  \/ trial.state = "idle"
  \/ trial.state = "pending" /\ ~trial.due /\ h = trial.id

\* ApplyGate.Check: a dry run, or an unconfirmed disruptive change that does
\* not repair stored intent, is held before anything is written.
Held(dryRun, confirm, disruptive, repair) ==
  dryRun \/ (disruptive /\ ~confirm /\ ~repair)

\* A module's mutating handler up to its gate.  A request that is refused by
\* the guard, held by the gate, invalid or stale (If-Match) changes nothing.
\* A repair applies the document already stored.
Edit ==
  \E h \in 0..ids, d \in Docs, dryRun, confirm, disruptive, repair \in BOOLEAN :
    /\ MutationGuard(h)
    /\ repair => d = store.vis
    /\ ~Held(dryRun, confirm, disruptive, repair)
    /\ disruptive => (ids < MaxTrials \/ trial.state # "idle")
    /\ IF disruptive THEN LockDo("disrupt", "protect", d, h)
                     ELSE LockDo("edit", "save", d, h)
    /\ UNCHANGED <<store, journal, trial, up, runtime, ids, budget, accepted,
                   tried>>

\* ProtectConnectivity: an edit that carries the ID of the trial still open
\* continues it, deadline unchanged; any other disruptive edit begins one.
Continues == op.header # 0 /\ trial.id = op.header
             /\ trial.state = "pending" /\ ~trial.due

Protect ==
  /\ At("protect")
  /\ Go(IF Continues THEN "save" ELSE "begin")
  /\ UNCHANGED <<store, journal, trial, up, runtime, ids, budget, accepted,
                 tried>>

\* Recovery.Begin up to the rename of the journal.  It fails if a trial
\* exists, if the store cannot be read, the runtime not captured or the
\* journal not written: nothing has changed then.
Begin ==
  /\ At("begin")
  /\ \/ /\ trial.state = "idle"
        /\ journal' = Renamed(journal,
                        Record(ids + 1, "pending", store.vis, NoDoc, FALSE))
        /\ ids' = ids + 1 /\ tried' = {}
        /\ Go("beginSync")
        /\ NoFault
     \/ /\ trial.state # "idle" /\ NoFault
        /\ Release
        /\ UNCHANGED <<journal, ids, tried>>
     \/ /\ Fault("read") \/ Fault("capture") \/ Fault("write")
        /\ Release
        /\ UNCHANGED <<journal, ids, tried>>
  /\ UNCHANGED <<store, trial, up, runtime, accepted>>

\* The directory sync of persist and the assignment to r.trial.  On an error
\* the request is refused although the journal is visible.
BeginSync ==
  /\ At("beginSync")
  /\ \/ /\ journal' = Synced(journal)
        /\ trial' = journal.vis
        /\ accepted' = {journal.vis.before}
        /\ Go("save")
        /\ NoFault
     \/ /\ Fault("beginDirsync")
        /\ Release
        /\ UNCHANGED <<journal, trial, accepted>>
  /\ UNCHANGED <<store, up, runtime, ids, tried>>

\* What a handler does when storing or programming fails: an edit reports the
\* error and leaves the rest to the trial, Backup.restore reverts at once.
AfterFailure == IF op.cause = "restore" THEN Go("revert") ELSE Release

\* Ghost: an edit that interrupts nothing, outside a trial, is accepted by
\* being made.
Outside == op.cause = "edit" /\ trial.state = "idle"

\* Store.Save up to its rename.
Save ==
  /\ At("save")
  /\ \/ /\ store' = Renamed(store, op.doc)
        /\ op' = [op EXCEPT !.stage = "saveSync", !.prev = store.vis]
        /\ accepted' = IF Outside THEN accepted \cup {op.doc} ELSE accepted
        /\ tried' = IF trial.state = "idle" THEN tried
                                            ELSE tried \cup {op.doc}
        /\ NoFault
     \/ /\ Fault("write")
        /\ AfterFailure
        /\ UNCHANGED <<store, accepted, tried>>
  /\ UNCHANGED <<journal, trial, up, runtime, ids>>

SaveSync ==
  /\ At("saveSync")
  /\ \/ /\ store' = Synced(store)
        /\ accepted' = IF Outside THEN {store.vis} ELSE accepted
        /\ Go("program")
        /\ NoFault
     \/ /\ Fault("saveDirsync")
        /\ AfterFailure
        /\ UNCHANGED <<store, accepted>>
  /\ UNCHANGED <<journal, trial, up, runtime, ids, tried>>

\* Programming `want' in place of `was': everything, or on a failure any part.
Programmed(was, want) == (runtime \ {was}) \cup {want}

PartlyProgrammed(was, want) ==
  {(runtime \ gone) \cup new : gone \in SUBSET ({was} \ {want}),
                               new \in SUBSET {want}}

\* The module's writer and its dependents, which retire what the previous
\* document asked for and the new one does not.
Program ==
  /\ At("program")
  /\ \/ /\ runtime' = Programmed(op.prev, op.doc)
        /\ Release
        /\ NoFault
     \/ /\ Fault("program")
        /\ runtime' \in PartlyProgrammed(op.prev, op.doc)
        /\ AfterFailure
  /\ UNCHANGED <<store, journal, trial, up, ids, accepted, tried>>

\* Backup.restore: a confirmed restore always begins a trial of its own and
\* then programs the uploaded document through Rollback.
Restore ==
  \E h \in 0..ids, d \in Docs :
    /\ MutationGuard(h)
    /\ ids < MaxTrials
    /\ LockDo("restore", "begin", d, h)
    /\ UNCHANGED <<store, journal, trial, up, runtime, ids, budget, accepted,
                   tried>>

-----------------------------------------------------------------------------
(* Closing a trial. *)

\* Fault variant of Confirm: any open trial may be confirmed.
ConfirmAny ==
  /\ trial.id # 0
  /\ LockDo("confirm", "remove", NoDoc, trial.id)
  /\ UNCHANGED <<store, journal, trial, up, runtime, ids, budget, accepted,
                 tried>>

\* Recovery.finish(false) up to clear().
Confirm ==
  /\ trial.id # 0
  /\ trial.state = "pending" /\ ~trial.due
  /\ LockDo("confirm", "remove", NoDoc, trial.id)
  /\ UNCHANGED <<store, journal, trial, up, runtime, ids, budget, accepted,
                 tried>>

\* Recovery.finish(true) up to revert().
Revert ==
  /\ trial.id # 0
  /\ LockDo("revert", "revert", NoDoc, trial.id)
  /\ UNCHANGED <<store, journal, trial, up, runtime, ids, budget, accepted,
                 tried>>

\* Fault variant of Tick: a failed recovery is not retried.
TickPendingOnly ==
  /\ trial.state = "pending" /\ trial.id # 0 /\ trial.due
  /\ LockDo("timeout", "revert", NoDoc, 0)
  /\ UNCHANGED <<store, journal, trial, up, runtime, ids, budget, accepted,
                 tried>>

\* One tick of Recovery.Run that finds the deadline passed, both before and
\* after it gets the lock.
Tick ==
  /\ trial.state # "idle" /\ trial.id # 0 /\ trial.due
  /\ LockDo("timeout", "revert", NoDoc, 0)
  /\ UNCHANGED <<store, journal, trial, up, runtime, ids, budget, accepted,
                 tried>>

\* Fault variant of Marked: From is read from the store at every attempt.
MarkedAfresh ==
  [trial EXCEPT !.state = "recovering", !.from = store.vis]

\* The copy revert works on: the trial's own document is kept in From across
\* retries, because the store will no longer hold it.
Marked ==
  [trial EXCEPT !.state = "recovering",
                !.from = IF trial.from = NoDoc THEN store.vis ELSE trial.from]

\* revert: read the store, then journal the decision (rename).  An error
\* returns with the trial as it was.
MarkRecovering ==
  /\ At("revert")
  /\ \/ /\ journal' = Renamed(journal, Marked)
        /\ Go("markSync")
        /\ NoFault
     \/ /\ Fault("write") \/ (trial.from = NoDoc /\ Fault("read"))
        /\ Release
        /\ UNCHANGED journal
  /\ UNCHANGED <<store, trial, up, runtime, ids, accepted, tried>>

MarkSync ==
  /\ At("markSync")
  /\ \/ /\ journal' = Synced(journal)
        /\ trial' = Marked
        /\ Go("putback")
        /\ NoFault
     \/ /\ Fault("markDirsync")
        /\ Release
        /\ UNCHANGED <<journal, trial>>
  /\ UNCHANGED <<store, up, runtime, ids, accepted, tried>>

\* Rollback: store the previous document first ...
PutBack ==
  /\ At("putback")
  /\ \/ /\ store' = Renamed(store, trial.before)
        /\ Go("putbackSync")
        /\ NoFault
     \/ /\ Fault("write")
        /\ Go("fail")
        /\ UNCHANGED store
  /\ UNCHANGED <<journal, trial, up, runtime, ids, accepted, tried>>

PutBackSync ==
  /\ At("putbackSync")
  /\ \/ /\ store' = Synced(store)
        /\ Go("repair")
        /\ NoFault
     \/ /\ Fault("dirsync")
        /\ Go("fail")
        /\ UNCHANGED store
  /\ UNCHANGED <<journal, trial, up, runtime, ids, accepted, tried>>

\* ... then every module's repair, one failure not stopping the next.
Repair ==
  /\ At("repair")
  /\ \/ /\ runtime' = Programmed(trial.from, trial.before)
        /\ Go("remove")
        /\ NoFault
     \/ /\ Fault("program")
        /\ runtime' \in PartlyProgrammed(trial.from, trial.before)
        /\ Go("fail")
  /\ UNCHANGED <<store, journal, trial, up, ids, accepted, tried>>

\* The failed branch of revert: a new deadline, in memory and (rename) on disk.
Failed == [trial EXCEPT !.state = "failed", !.due = FALSE]

Fail ==
  /\ At("fail")
  /\ trial' = Failed
  /\ \/ /\ journal' = Renamed(journal, Failed)
        /\ Go("failSync")
        /\ NoFault
     \/ /\ Fault("write")
        /\ Release
        /\ UNCHANGED journal
  /\ UNCHANGED <<store, up, runtime, ids, accepted, tried>>

FailSync ==
  /\ At("failSync")
  /\ Release
  /\ \/ journal' = Synced(journal) /\ NoFault
     \/ Fault("dirsync") /\ UNCHANGED journal
  /\ UNCHANGED <<store, trial, up, runtime, ids, accepted, tried>>

\* clear(): remove the journal, sync its directory, forget the trial.  From
\* the unlink until the sync a confirming operator may get either outcome.
Remove ==
  /\ At("remove")
  /\ \/ /\ journal' = Renamed(journal, Idle)
        /\ accepted' = IF op.cause = "confirm" THEN accepted \cup store.may
                                               ELSE accepted
        /\ Go("removeSync")
        /\ NoFault
     \/ /\ Fault("unlink")
        /\ Release
        /\ UNCHANGED <<journal, accepted>>
  /\ UNCHANGED <<store, trial, up, runtime, ids, tried>>

\* Fault variant of RemoveSync: the outcome is acknowledged without the sync.
RemoveUnsynced ==
  /\ At("removeSync")
  /\ Release
  /\ trial' = Idle
  /\ accepted' = store.may
  /\ UNCHANGED <<store, journal, up, runtime, ids, budget, tried>>

RemoveSync ==
  /\ At("removeSync")
  /\ Release
  /\ \/ /\ journal' = Synced(journal)
        /\ trial' = Idle
        /\ accepted' = store.may
        /\ NoFault
     \/ /\ Fault(IF op.cause = "confirm" THEN "confirmDirsync" ELSE "dirsync")
        /\ UNCHANGED <<journal, trial, accepted>>
  /\ UNCHANGED <<store, up, runtime, ids, tried>>

-----------------------------------------------------------------------------
(* The background and the environment. *)

\* The loops that take the lock without the mutation guard (supervision, the
\* prober, delegation, QoS, the firewall follower) and the start sequence
\* apply what is stored; they retire nothing.
Reconcile ==
  /\ At("free")
  /\ runtime' = runtime \cup {store.vis}
  /\ UNCHANGED <<store, journal, trial, op, up, ids, budget, accepted, tried>>

\* The deadline is wall-clock time and passes on disk too.
PastDue(r) == IF r.state = "idle" THEN r ELSE [r EXCEPT !.due = TRUE]

DeadlinePasses ==
  /\ up
  /\ trial.state # "idle" /\ ~trial.due
  /\ trial' = PastDue(trial)
  /\ journal' = [vis |-> PastDue(journal.vis),
                 may |-> {PastDue(j) : j \in journal.may}]
  /\ UNCHANGED <<store, op, up, runtime, ids, budget, accepted, tried>>

Stopped ==
  /\ up' = FALSE
  /\ op' = Free
  /\ trial' = Idle
  /\ UNCHANGED <<ids, accepted, tried>>

\* kill -9: memory goes, files and runtime stay.
Crash ==
  /\ up
  /\ Fault("crash")
  /\ Stopped
  /\ UNCHANGED <<store, journal, runtime>>

\* Power loss: each file comes back with one of the contents it may hold.
\* (One that follows a crash has the same outcomes as one in its place.)
PowerLoss ==
  /\ up
  /\ Fault("power")
  /\ Stopped
  /\ \E s \in store.may, j \in journal.may :
       /\ store' = File(s)
       /\ journal' = File(j)
  /\ runtime' = {}

\* Recovery.Load, before anything else is started.  A journal that cannot be
\* read leaves a failed trial without an ID.  The files a dead daemon left
\* unsynced have been written back by the kernel by the time a new one reads
\* them.
Boot ==
  /\ ~up
  /\ up' = TRUE
  /\ store' = Synced(store)
  /\ journal' = Synced(journal)
  /\ \/ /\ journal.vis.state = "idle" /\ NoFault
        /\ UNCHANGED <<trial, op>>
     \/ /\ journal.vis.state # "idle" /\ NoFault
        /\ trial' \in {journal.vis, PastDue(journal.vis)}
        /\ op' = Holder("revert", "boot", NoDoc, NoDoc, 0)
     \/ /\ Fault("read")
        /\ trial' = Record(0, "failed", NoDoc, NoDoc, FALSE)
        /\ UNCHANGED op
  /\ UNCHANGED <<runtime, ids, accepted, tried>>

-----------------------------------------------------------------------------
\* The lock holder's next step.
Step ==
  \/ Protect \/ Begin \/ BeginSync \/ Save \/ SaveSync \/ Program
  \/ MarkRecovering \/ MarkSync \/ PutBack \/ PutBackSync \/ Repair
  \/ Fail \/ FailSync \/ Remove \/ RemoveSync

Next ==
  \/ Edit \/ Restore \/ Confirm \/ Revert \/ Tick
  \/ Step
  \/ Reconcile \/ DeadlinePasses \/ Crash \/ PowerLoss \/ Boot

Spec == Init /\ [][Next]_vars

\* The holder of the lock runs on, a dead daemon is restarted by its service
\* manager, time passes, and the runner, one of the goroutines queued first
\* in first out on the lock's channel, gets its turn.
FairSpec ==
  /\ Spec
  /\ WF_vars(Step)
  /\ WF_vars(Boot)
  /\ WF_vars(DeadlinePasses)
  /\ SF_vars(Tick)
-----------------------------------------------------------------------------
(* Properties. *)

\* The state has its declared shape, and what a reader sees of a file is one
\* of the contents the file may hold.
TypeOK ==
  /\ store \in Files(Docs)
  /\ store.vis \in store.may
  /\ journal \in Files(Records)
  /\ journal.vis \in journal.may
  /\ trial \in Records
  /\ op \in Holders
  /\ up \in BOOLEAN
  /\ runtime \subseteq Docs
  /\ ids \in Nat
  /\ budget \in Nat
  /\ accepted \subseteq Docs
  /\ tried \subseteq Docs

\* Every journalled record, and the trial in memory if it has an ID, names
\* the document to come back to; a dead daemon holds neither lock nor trial.
RecordsOK ==
  /\ \A j \in journal.may :
       j.state # "idle" => j.id # 0 /\ j.before \in Docs
  /\ trial.id # 0 => trial.state # "idle" /\ trial.before \in Docs
  /\ trial.id = 0 => trial.state \in {"idle", "failed"}
  /\ ~up => trial.state = "idle" /\ op.stage = "free"

\* Where the lock holder stands, against the trial and the files.
StagesOK ==
  /\ op.stage \in {"protect", "begin", "beginSync", "save", "saveSync",
                   "program"} => op.doc \in Docs
  /\ op.stage = "beginSync" =>
       trial.state = "idle" /\ journal.vis.state = "pending"
  /\ op.stage \in {"save", "saveSync", "program"} =>
       /\ trial.state \in {"idle", "pending"}
       /\ op.cause # "edit" => trial.state = "pending"
  /\ op.stage \in {"revert", "markSync", "failSync"} => trial.id # 0
  /\ op.stage \in {"putback", "putbackSync", "repair", "fail"} =>
       trial.state = "recovering"
  /\ op.stage = "putbackSync" => store.vis = trial.before
  /\ op.stage = "repair" => store.may = {trial.before}
  /\ op.stage \in {"remove", "removeSync"} =>
       IF op.cause = "confirm"
         THEN trial.state = "pending"
         ELSE trial.state = "recovering" /\ store.may = {trial.before}
  /\ op.stage \notin {"remove", "removeSync"} => op.cause # "confirm"
  /\ op.stage = "removeSync" => journal.vis.state = "idle"

\* What makes Restartable inductive: memory and the journal agree about a
\* trial except between a write and its sync, so that edits within a trial
\* always find the journal durable and edits outside find none.
AcceptedOK ==
  /\ \A j \in journal.may : j.state # "idle" => j.before \in accepted
  /\ (\E j \in journal.may : j.state = "idle") => store.may \subseteq accepted
  /\ trial.id # 0 => trial.before \in accepted
  /\ (trial.state = "pending" /\ op.stage # "removeSync") =>
       \A j \in journal.may : j.state # "idle"
  /\ (up /\ trial.state = "idle" /\ op.stage # "beginSync") =>
       \A j \in journal.may : j.state = "idle"

\* The document a router comes back with when it restarts on these contents:
\* Load reverts a journalled trial before anything else is started.
AfterRestart(s, j) == IF j.state = "idle" THEN s ELSE j.before

\* Whenever the daemon dies or the power fails, the configuration the router
\* comes back with is one the operator accepted: an unconfirmed trial is
\* undone, a confirmed one and every edit outside a trial is kept.
Restartable ==
  \A s \in store.may, j \in journal.may : AfterRestart(s, j) \in accepted

\* The inductive invariant behind Restartable: records and lock holder are
\* consistent, and so are memory, journal and store.
TrialConsistent == RecordsOK /\ StagesOK /\ AcceptedOK

\* What a record must say of the trial it stands for, for a recovery from it to
\* retire that trial: until recovery is decided there is no From and the one
\* document tried is the one stored; from then on From is that document, and
\* the store holds it or the previous one.
Retires(r) ==
  /\ r.state = "pending" => r.from = NoDoc
  /\ r.state \in {"recovering", "failed"} =>
       r.from \in Docs /\ store.may \subseteq {r.from, r.before}
  /\ \A d \in runtime : tried = {d} /\ d # r.before =>
       IF r.from = NoDoc THEN store.vis = d ELSE r.from = d

\* The inductive invariant behind RevertCompletes: every record a restart may
\* find, and the one in memory, retires the trial; edits find only undecided
\* records; and the journal is removed once the previous document alone runs.
RetiresOK ==
  /\ \A j \in journal.may : j.state # "idle" => Retires(j)
  /\ trial.id # 0 => Retires(trial)
  /\ trial.state = "pending" /\ op.stage \notin {"markSync", "removeSync"} =>
       \A j \in journal.may : j.state = "pending"
  /\ op.stage \in {"saveSync", "program"} => store.vis = op.doc
  /\ trial.state = "pending" /\ op.stage # "saveSync" => store.may = {store.vis}
  /\ op.stage \in {"remove", "removeSync"} /\ op.cause # "confirm" =>
       /\ trial.before \in runtime
       /\ trial.from \in runtime => trial.from = trial.before

\* A trial that ends other than by confirmation leaves the previous document
\* stored and programmed and nothing of the document it was reverted from, nor
\* of the one document it tried if it was only one, however many failed
\* attempts, crashes and restarts came before.
RevertCompletes ==
  [][(up' /\ trial.id # 0 /\ trial'.state = "idle" /\ op.cause # "confirm")
       => /\ store'.vis = trial.before
          /\ trial.before \in runtime'
          /\ trial.from \in runtime' => trial.from = trial.before
          /\ \A d \in runtime' : tried = {d} => d = trial.before]_vars

\* docs/configuration-safety.md: a timeout retires the addresses and routes
\* the trial introduced -- all of them, not only the last document's. TLC
\* refutes it for a trial that tried two documents: recovery is given the
\* last one only (recovery.go:209).
TrialRetired ==
  [][(up' /\ trial.id # 0 /\ trial'.state = "idle" /\ op.cause # "confirm")
       => tried \cap runtime' \subseteq {trial.before}]_vars

\* An open trial is eventually closed, by its operator or by the runner,
\* however often recovery fails first (a journal that could not be read at
\* startup has no ID and is left to the console).
TrialCloses == (up /\ trial.id # 0) ~> (trial.id = 0)

-----------------------------------------------------------------------------
(* Recovery implements TrialContract.  The open trial is the one in the    *)
(* running daemon's memory, and what the journal holds when memory has     *)
(* none: between the journal's rename and its sync, and while the daemon   *)
(* is down.                                                                *)
Current == IF up /\ trial.id # 0 THEN trial ELSE journal.vis

Phase ==
  CASE Current.state = "idle" -> "none"
    [] Current.state = "pending" -> "open"
    [] OTHER -> "doomed"

Contract == INSTANCE TrialContract
              WITH config <- store.vis, base <- Current.before, phase <- Phase

\* What makes the mapping inductive.  An absent journal names no document; the
\* journal and the trial in memory name the same one; a trial whose recovery
\* was decided is nowhere on disk as one that may still be kept, and is absent
\* there only once the previous document is durable; the journal of a trial
\* that is beginning is the only one; the decision to recover is visible before
\* it is made durable; a daemon that could not read its journal
\* leaves it alone.  The store holds one document, except while an edit is
\* being stored and while a previous document that is visible again is not yet
\* durable.
ContractOK ==
  /\ \A j \in journal.may : j.state = "idle" => j.before = NoDoc
  /\ trial.id # 0 =>
       \A j \in journal.may : j.state # "idle" => j.before = trial.before
  /\ trial.state \in {"recovering", "failed"} /\ trial.id # 0 =>
       \A j \in journal.may :
         /\ j.state # "pending"
         /\ j.state = "idle" => store.may = {trial.before}
  /\ op.stage = "beginSync" =>
       \A j \in journal.may : j.state = "idle" \/ j = journal.vis
  /\ op.stage = "markSync" => journal.vis.state = "recovering"
  /\ trial.state = "failed" /\ trial.id = 0 => journal.may = {journal.vis}
  /\ \/ ~up \/ store.may = {store.vis} \/ op.stage = "saveSync"
     \/ /\ trial.state \in {"recovering", "failed"} /\ trial.id # 0
        /\ store.vis = trial.before

\* Every step of the detailed recovery, with its crashes, power losses and
\* failed writes, is a step of the contract or changes nothing it can see: in
\* particular a trial whose recovery was decided is never kept, the document
\* it returns to is the one in force when it began, and no edit slips in while
\* it is being undone.
ContractSpec == Contract!Spec
=============================================================================
