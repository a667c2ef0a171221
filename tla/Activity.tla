------------------------------ MODULE Activity ------------------------------
(***************************************************************************)
(* How many bytes an inspected device sent: sampled from the connection    *)
(* table, added up by hour, and checkpointed to one file per device and    *)
(* hour.                                                                   *)
(*                                                                         *)
(* A sample reads the table outside the lock, a checkpoint may fail before *)
(* or after its file was replaced, a session may end with its last bytes   *)
(* unsaved and another begin.  Every byte is still counted once.           *)
(***************************************************************************)
EXTENDS Naturals, FiniteSets, FiniteSetsExt, SequencesExt, TLC

CONSTANTS
    Devices,      \* inspected devices, each with one connection
    StorageLimit, \* files that fit the storage limit, at least 2
    Retention,    \* hours a file is kept
    MaxHour,      \* bound: the clock
    MaxBytes,     \* bound: bytes sent
    MaxSessions,  \* bound: sessions begun
    MaxFaults     \* bound: failed reads and writes, crashes

NoDevice == "none"

VARIABLES
    now,      \* the hour
    conn,     \* device -> the connection's counter in the kernel
    on,       \* a session is recording (started)
    dev,      \* the session's device, kept when its last checkpoint failed
    sid,      \* sessionID
    baseline, \* the next sample only sets prev
    prev,     \* the counter of the last sample
    pending,  \* hour -> bytes not yet on disk
    disk,     \* <<device, hour>> -> bytes in that file
    sample,   \* a sample between reading the table and the lock: <<sid, seen>>, or <<>>
    sent,     \* device -> bytes sent while recorded (ghost)
    counted,  \* device -> bytes added (ghost)
    gone,     \* device -> bytes pruned, or lost with the memory (ghost)
    sessions, faults

vars == <<now, conn, on, dev, sid, baseline, prev, pending, disk, sample, sent, counted, gone, sessions, faults>>
ghosts == <<sent, counted>>

MayFail == faults < MaxFaults
Count(failed) == faults' = IF failed THEN faults + 1 ELSE faults
Get(f, x) == IF x \in DOMAIN f THEN f[x] ELSE 0
With(f, x, y) == (x :> y) @@ f
Total(f) == MapThenSumSet(LAMBDA x : f[x], DOMAIN f)
Kept(d, files) == Total([h \in {k[2] : k \in {k \in DOMAIN files : k[1] = d}} |-> files[<<d, h>>]])

(***************************************************************************)
(* Files.                                                                  *)
(***************************************************************************)
(* Expired files go, then the oldest until what is to be written fits; the *)
(* file it replaces is protected and counted as well.                      *)
pruneStorage(files, reserve, protected) ==
    LET fresh == {k \in DOMAIN files : k[2] + 1 > now - Retention}
        excess == Cardinality(fresh) + reserve - StorageLimit
        spare == fresh \ protected
        oldest == {out \in SUBSET spare :
                     /\ Cardinality(out) = (IF excess < 0 THEN 0 ELSE excess)
                     /\ \A k \in out, l \in spare \ out : k[2] <= l[2]}
    IN  [k \in fresh \ CHOOSE o \in oldest : TRUE |-> files[k]]

writeJSON(files, k, bytes) ==
    With(pruneStorage(files, 1, {k} \cap DOMAIN files), k, bytes)

Merge(files, h) == writeJSON(files, <<dev, h>>, Get(files, <<dev, h>>) + pending[h])

(* The hours written, oldest first. *)
Written(files, hours) == FoldLeft(Merge, files, SetToSortSeq(hours, <))

(* What pruning removed of the files and of the hours just written (ghost). *)
Pruned(done) == gone' = [d \in Devices |->
    LET lost == {h \in 0..MaxHour : /\ <<d, h>> \notin DOMAIN disk'
                                    /\ <<d, h>> \in DOMAIN disk \cup {<<dev, e>> : e \in done}}
    IN  gone[d] + MapThenSumSet(LAMBDA h : Get(disk, <<d, h>>) + IF d = dev /\ h \in done THEN pending[h] ELSE 0, lost)]

(* checkpointLocked.  An error stops it at some hour: that hour's file was *)
(* not replaced and stays pending, or it was and only its directory could  *)
(* not be synced; the last file is the device's state.                     *)
(* Mutant: an hour whose write reports an error always stays pending.      *)
CheckpointKeeps(ok) ==
    LET hours == DOMAIN pending IN
    IF dev = NoDevice THEN disk' = pruneStorage(disk, 0, {}) /\ pending' = pending /\ Pruned({})
    ELSE \E done \in SUBSET hours :
        /\ \A h \in done, l \in hours \ done : h < l
        /\ ok => done = hours
        /\ disk' = IF ok THEN pruneStorage(Written(disk, done), 0, {}) ELSE Written(disk, done)
        /\ pending' = [h \in hours \ (IF ok THEN done ELSE {}) |-> pending[h]]
        /\ Pruned(done)

checkpoint(ok) ==
    LET hours == DOMAIN pending IN
    IF dev = NoDevice THEN disk' = pruneStorage(disk, 0, {}) /\ pending' = pending /\ Pruned({})
    ELSE \E done \in SUBSET hours :
        /\ \A h \in done, l \in hours \ done : h < l
        /\ ok => done = hours
        /\ disk' = IF ok THEN pruneStorage(Written(disk, done), 0, {}) ELSE Written(disk, done)
        /\ pending' = [h \in hours \ done |-> pending[h]]
        /\ Pruned(done)

(***************************************************************************)
(* Sessions.                                                               *)
(***************************************************************************)
reset ==
    /\ sid' = sid + 1 /\ on' = FALSE /\ dev' = NoDevice /\ baseline' = FALSE

(* BeginDevice: the old session's bytes are saved first, or it fails.      *)
(* What is on disk is loaded to be shown, not to be written again.         *)
BeginDevice == \E d \in Devices, saves \in BOOLEAN :
    /\ sessions < MaxSessions
    /\ sessions' = sessions + 1
    /\ ~saves => MayFail
    /\ checkpoint(saves)
    /\ IF ~saves
       THEN /\ faults' = faults + 1
            /\ UNCHANGED <<on, dev, sid, baseline, prev>>
       ELSE \E reads, writes \in BOOLEAN :
            /\ ~(reads /\ writes) => MayFail
            /\ Count(~(reads /\ writes))
            /\ dev' = d /\ sid' = sid + 1
            /\ on' = writes
            /\ baseline' = ~reads
            /\ prev' = IF reads THEN conn[d] ELSE 0
    /\ UNCHANGED <<now, conn, sample, ghosts>>

(* End: when the checkpoint fails the bytes are kept to be tried again.    *)
EndSession == \E saves \in BOOLEAN :
    /\ dev # NoDevice
    /\ ~saves => MayFail
    /\ Count(~saves)
    /\ checkpoint(saves)
    /\ prev' = 0
    /\ IF saves THEN reset ELSE on' = FALSE /\ UNCHANGED <<dev, sid, baseline>>
    /\ UNCHANGED <<now, conn, sample, ghosts, sessions>>

(* The sampler's tick with no session, and Close.                          *)
Checkpoint == \E saves \in BOOLEAN :
    /\ ~saves => MayFail
    /\ Count(~saves)
    /\ checkpoint(saves)
    /\ UNCHANGED <<now, conn, on, dev, sid, baseline, prev, sample, ghosts, sessions>>

(***************************************************************************)
(* Samples.                                                                *)
(***************************************************************************)
(* What an earlier checkpoint left is saved before the table is read.      *)
SampleRead == \E saves \in BOOLEAN :
    /\ on /\ sample = <<>>
    /\ ~saves => MayFail /\ pending # <<>>
    /\ Count(~saves)
    /\ IF pending = <<>> THEN UNCHANGED <<disk, pending, gone>>
       ELSE checkpoint(saves)
    /\ sample' = IF saves THEN <<sid, conn[dev]>> ELSE <<>>
    /\ UNCHANGED <<now, conn, on, dev, sid, baseline, prev, ghosts, sessions>>

Current == on /\ sample[1] = sid

add == IF sample[2] >= prev THEN sample[2] - prev ELSE 0

(* The bytes go to the hour the sample is applied in.                      *)
SampleApply ==
    /\ sample # <<>>
    /\ IF ~Current THEN UNCHANGED <<prev, baseline, pending, counted>>
       ELSE /\ prev' = sample[2]
            /\ baseline' = FALSE
            /\ LET bytes == IF baseline THEN 0 ELSE add
               IN  /\ pending' = IF bytes = 0 THEN pending ELSE With(pending, now, Get(pending, now) + bytes)
                   /\ counted' = [counted EXCEPT ![dev] = @ + bytes]
    /\ sample' = <<>>
    /\ UNCHANGED <<now, conn, on, dev, sid, disk, sent, gone, sessions, faults>>

(***************************************************************************)
(* The environment.                                                        *)
(***************************************************************************)
Traffic == \E d \in Devices :
    /\ Total(sent) + conn[d] < MaxBytes
    /\ conn' = [conn EXCEPT ![d] = @ + 1]
    /\ sent' = IF on /\ dev = d THEN [sent EXCEPT ![d] = @ + 1] ELSE sent
    /\ UNCHANGED <<now, on, dev, sid, baseline, prev, pending, disk, sample, counted, gone, sessions, faults>>

Reconnect == \E d \in Devices :
    /\ conn[d] > 0
    /\ conn' = [conn EXCEPT ![d] = 0]
    /\ UNCHANGED <<now, on, dev, sid, baseline, prev, pending, disk, sample, ghosts, gone, sessions, faults>>

Tick ==
    /\ now < MaxHour
    /\ now' = now + 1
    /\ UNCHANGED <<conn, on, dev, sid, baseline, prev, pending, disk, sample, ghosts, gone, sessions, faults>>

(* The daemon is killed: what was not on disk is lost, and SetStorage      *)
(* prunes when it is back.                                                 *)
Crash ==
    /\ MayFail
    /\ faults' = faults + 1
    /\ disk' = pruneStorage(disk, 0, {})
    /\ pending' = <<>> /\ on' = FALSE /\ dev' = NoDevice /\ baseline' = FALSE /\ prev' = 0
    /\ sid' = 0 /\ sample' = <<>>
    /\ gone' = [d \in Devices |-> gone[d] + Kept(d, [k \in DOMAIN disk \ DOMAIN disk' |-> disk[k]])
                                 + IF d = dev THEN Total(pending) ELSE 0]
    /\ UNCHANGED <<now, conn, ghosts, sessions>>

Init ==
    /\ now = 0
    /\ conn \in [Devices -> {0, 1}]
    /\ on = FALSE /\ dev = NoDevice /\ sid = 0 /\ baseline = FALSE /\ prev = 0
    /\ pending = <<>> /\ disk = <<>> /\ sample = <<>>
    /\ sent = [d \in Devices |-> 0] /\ counted = sent /\ gone = sent
    /\ sessions = 0 /\ faults = 0

Next ==
    \/ BeginDevice \/ EndSession \/ Checkpoint \/ SampleRead \/ SampleApply
    \/ Traffic \/ Reconnect \/ Tick \/ Crash

Spec == Init /\ [][Next]_vars

(***************************************************************************)
(* Properties.                                                             *)
(***************************************************************************)
(* Every byte counted is on disk, waiting to be written, or was removed as *)
(* too old or too much, exactly once, and no byte is counted that was not  *)
(* sent while the device was recorded: a failed checkpoint is retried and  *)
(* one that failed after its file was replaced is not, and a sample taken  *)
(* for an earlier session is dropped (checkpointLocked,                    *)
(* activity_storage.go:163; Sample, activity.go:264).                      *)
CountedOnce ==
    \A d \in Devices :
        /\ counted[d] = Kept(d, disk) + gone[d] + IF d = dev THEN Total(pending) ELSE 0
        /\ counted[d] <= sent[d]

(* The files never exceed the storage limit, also while one of them is     *)
(* being replaced (pruneStorageLocked, activity_storage.go:458).           *)
WithinStorage == Cardinality(DOMAIN disk) <= StorageLimit

=============================================================================
