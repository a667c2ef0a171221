----------------------------- MODULE FlowArchive -----------------------------
(***************************************************************************)
(* The archive of captured requests.                                       *)
(*                                                                         *)
(* The proxy's addon saves a flow as three files, the flow, its detail and *)
(* its summary, and saves it again when a websocket on it ends.  A rewrite *)
(* links the previous files into a rollback directory, replaces them one   *)
(* by one and renames the directory to commit; what a killed proxy leaves  *)
(* is put right when the archive is next opened.  The daemon lists, clears *)
(* and prunes the same files under the same lock file, and a version is    *)
(* never mixed with another or lost by a crash.                            *)
(***************************************************************************)
EXTENDS Naturals, FiniteSets, FiniteSetsExt, TLC

CONSTANTS
    Limits,     \* storage limits an operator sets, in units of a flow's size
    Age,        \* retention, in units of the clock
    MaxTime,    \* bound: the clock, which also names the flows
    MaxVersion, \* bound: how often a flow is saved
    MaxFaults   \* bound: crashes of the proxy and of the daemon, failed writes

VARIABLES
    now,      \* the clock
    files,    \* flow -> its files: [mitm, json, meta], each a version or 0
    tx,       \* flow -> the directory of a rewrite under way: [kind, prev]
    live,     \* flow -> version, the flows the proxy still holds
    writer,   \* the save under way: [at, id, v, old], or Idle
    open,     \* the addon has opened the archive
    cleared,  \* the device's .cleared_before
    limit,    \* the retention file's size limit
    due,      \* the limit was lowered and nothing was pruned yet (ghost)
    saved,    \* flow -> the version that is safely stored (ghost)
    faults

vars == <<now, files, tx, live, writer, open, cleared, limit, due, saved, faults>>

None == [mitm |-> 0, json |-> 0, meta |-> 0]
Idle == [at |-> "idle"]
Ids == DOMAIN files
Suffixes == {"mitm", "json", "meta"}

With(f, x, y) == (x :> y) @@ f
Without(f, xs) == [y \in DOMAIN f \ xs |-> f[y]]
Put(i, s, v) == With(files, i, [(IF i \in Ids THEN files[i] ELSE None) EXCEPT ![s] = v])

(* The flow file is what takes space: version v of a flow has size v.      *)
Size(fs) == MapThenSumSet(LAMBDA i : fs[i].mitm, DOMAIN fs)
archiveExpired(i) == i + Age < now
Complete(f) == \A s \in Suffixes : f[s] # 0
Free == writer = Idle

(***************************************************************************)
(* Pruning: expired flows, then the oldest until the rest fits.  The flow  *)
(* being rewritten is protected from the addon's pruning.                  *)
(***************************************************************************)
Unexpired(fs) == Without(fs, {i \in DOMAIN fs : archiveExpired(i)})

Pruned(fs, target, protected) ==
    LET flows == {i \in DOMAIN fs : fs[i].mitm # 0 /\ i \notin protected}
        Oldest(gone) == \A i \in gone, j \in flows \ gone : i < j
        enough == {gone \in SUBSET flows : Oldest(gone) /\ Size(Without(fs, gone)) <= target}
    IN  IF enough = {} THEN Without(fs, flows)
        ELSE Without(fs, CHOOSE g \in enough : \A h \in enough : Cardinality(g) <= Cardinality(h))

sweep(fs, reserve, protected) ==
    Pruned(Unexpired(fs), IF reserve > limit THEN 0 ELSE limit - reserve, protected)
Fits(fs, size) == size <= limit /\ Size(fs) + size <= limit

(***************************************************************************)
(* The proxy.  A crash may come between any two steps of a save.           *)
(***************************************************************************)
(* _finish_transaction: the previous files come back, or go away.          *)
finish(fs, i, t) ==
    IF t.kind = "committed" THEN fs
    ELSE With(fs, i, [s \in Suffixes |-> IF t.prev[s] # 0 THEN t.prev[s]
                                         ELSE IF i \in DOMAIN fs THEN fs[i][s] ELSE 0])

recover(fs) ==
    LET restored == [i \in DOMAIN fs |-> IF i \in DOMAIN tx THEN finish(fs, i, tx[i])[i] ELSE fs[i]]
    IN  Without(restored, {i \in DOMAIN restored : ~Complete(restored[i])})

(* HistoryArchive.__init__, which sweeps with startup=True.                *)
Open ==
    /\ ~open /\ Free
    /\ open' = TRUE
    /\ LET fs == [i \in Ids \cup DOMAIN tx |-> IF i \in Ids THEN files[i] ELSE None]
       IN  files' = sweep(recover(fs), 0, {})
    /\ tx' = <<>>
    /\ due' = FALSE
    /\ saved' = [i \in DOMAIN files' |-> IF i \in DOMAIN saved THEN saved[i] ELSE files'[i].meta]
    /\ UNCHANGED <<now, live, writer, cleared, limit, faults>>

Request ==
    /\ open /\ now < MaxTime
    /\ now' = now + 1
    /\ live' = With(live, now', 1)
    /\ UNCHANGED <<files, tx, writer, open, cleared, limit, due, saved, faults>>

WebsocketEnd == \E i \in DOMAIN live :
    /\ live[i] < MaxVersion
    /\ live' = [live EXCEPT ![i] = @ + 1]
    /\ UNCHANGED <<now, files, tx, writer, open, cleared, limit, due, saved, faults>>

(* persist: what was cleared or has expired is not saved; the rest makes   *)
(* room for the temporary file first.                                      *)
Persist == \E i \in DOMAIN live :
    LET v == live[i]
        fs == IF Fits(files, v) THEN files ELSE sweep(files, v, {i})
    IN  /\ open /\ Free
        /\ i \in DOMAIN saved => saved[i] < v
        /\ ~archiveExpired(i) /\ i > cleared
        /\ files' = fs
        /\ saved' = Without(saved, DOMAIN saved \ DOMAIN fs)
        /\ due' = (due /\ fs = files)
        /\ IF ~Fits(fs, v) THEN /\ writer' = Idle /\ live' = Without(live, {i})
           ELSE /\ writer' = [at |-> IF i \in DOMAIN fs /\ fs[i].meta # 0 THEN "link" ELSE "mitm", id |-> i, v |-> v]
                /\ UNCHANGED live
        /\ UNCHANGED <<now, tx, open, cleared, limit, faults>>

LinkPrevious ==
    /\ writer.at = "link"
    /\ tx' = With(tx, writer.id, [kind |-> "rollback", prev |-> files[writer.id]])
    /\ writer' = [writer EXCEPT !.at = "mitm"]
    /\ UNCHANGED <<now, files, live, open, cleared, limit, due, saved, faults>>

After == [mitm |-> "json", json |-> "meta", meta |-> "commit"]
ReplaceFile ==
    /\ writer.at \in Suffixes
    /\ files' = Put(writer.id, writer.at, writer.v)
    /\ writer' = [writer EXCEPT !.at = After[writer.at]]
    /\ UNCHANGED <<now, tx, live, open, cleared, limit, due, saved, faults>>

Commit ==
    /\ writer.at = "commit"
    /\ tx' = IF writer.id \in DOMAIN tx THEN [tx EXCEPT ![writer.id].kind = "committed"] ELSE tx
    /\ writer' = [writer EXCEPT !.at = "finish"]
    /\ saved' = With(saved, writer.id, writer.v)
    /\ UNCHANGED <<now, files, live, open, cleared, limit, due, faults>>

Finish ==
    /\ writer.at = "finish"
    /\ tx' = Without(tx, {writer.id})
    /\ writer' = Idle
    /\ UNCHANGED <<now, files, live, open, cleared, limit, due, saved, faults>>

(* A write that fails: the previous version comes back, or the files of a  *)
(* flow that had none are removed.                                         *)
PersistFails ==
    /\ writer.at \in {"json", "meta", "commit"} /\ faults < MaxFaults
    /\ files' = IF writer.id \in DOMAIN tx THEN finish(files, writer.id, tx[writer.id])
                ELSE Without(files, {writer.id})
    /\ tx' = Without(tx, {writer.id})
    /\ writer' = Idle
    /\ live' = Without(live, {writer.id})
    /\ faults' = faults + 1
    /\ UNCHANGED <<now, open, cleared, limit, due, saved>>

PeriodicSweep ==
    /\ open /\ Free
    /\ files' = sweep(files, 0, {})
    /\ saved' = Without(saved, DOMAIN saved \ DOMAIN files')
    /\ due' = FALSE
    /\ UNCHANGED <<now, tx, live, writer, open, cleared, limit, faults>>

ProxyCrash ==
    /\ open /\ faults < MaxFaults
    /\ open' = FALSE /\ live' = <<>> /\ writer' = Idle
    /\ faults' = faults + 1
    /\ UNCHANGED <<now, files, tx, cleared, limit, due, saved>>

ProxyStop ==
    /\ open /\ Free
    /\ open' = FALSE /\ live' = <<>>
    /\ UNCHANGED <<now, files, tx, writer, cleared, limit, due, saved, faults>>

(***************************************************************************)
(* The daemon.                                                             *)
(***************************************************************************)
SweepHistory ==
    /\ Free
    /\ files' = sweep(files, 0, {})
    /\ saved' = Without(saved, DOMAIN saved \ DOMAIN files')
    /\ due' = FALSE
    /\ UNCHANGED <<now, tx, live, writer, open, cleared, limit, faults>>

archiveAdvanceClear(cutoff) == IF cleared > cutoff THEN cleared ELSE cutoff

(* DELETE /history.  The cutoff was read before the lock was taken; it is  *)
(* summaries that are walked, and a crash leaves one flow partly removed.  *)
Clear == \E cutoff \in {now - 1, now} \cap Nat, partly \in BOOLEAN :
    LET fs == sweep(files, 0, {})
        upto == archiveAdvanceClear(cutoff)
        hit == {i \in DOMAIN fs : fs[i].meta # 0 /\ i <= upto}
    IN  /\ Free
        /\ partly => faults < MaxFaults
        /\ faults' = IF partly THEN faults + 1 ELSE faults
        /\ cleared' = upto
        /\ IF ~partly THEN files' = Without(fs, hit)
           ELSE \E i \in hit : files' = [fs EXCEPT ![i].meta = 0]
        /\ saved' = Without(saved, DOMAIN saved \ {i \in DOMAIN files' : files'[i].meta # 0})
        /\ due' = FALSE
        /\ UNCHANGED <<now, tx, live, writer, open, limit>>

retention == \E l \in Limits \ {limit} :
    /\ limit' = l
    /\ due' = (due \/ l < limit)
    /\ UNCHANGED <<now, files, tx, live, writer, open, cleared, saved, faults>>

Listed == {i \in Ids : files[i].meta # 0 /\ files[i].mitm # 0 /\ ~archiveExpired(i)}

Init ==
    /\ now = 0 /\ files = <<>> /\ tx = <<>> /\ live = <<>> /\ writer = Idle
    /\ open = FALSE /\ cleared = 0 /\ limit \in Limits
    /\ due = FALSE /\ saved = <<>> /\ faults = 0

Next ==
    \/ Open \/ Request \/ WebsocketEnd
    \/ Persist \/ LinkPrevious \/ ReplaceFile \/ Commit \/ Finish \/ PersistFails
    \/ PeriodicSweep \/ ProxyCrash \/ ProxyStop
    \/ SweepHistory \/ Clear \/ retention

Spec == Init /\ [][Next]_vars

(***************************************************************************)
(* Properties.                                                             *)
(***************************************************************************)
(* Whenever the archive is open and nobody is writing, a flow that was     *)
(* saved and not pruned or cleared is there in full, in the version that   *)
(* was saved last: an interrupted or failed rewrite neither mixes two      *)
(* versions nor loses the older one (_persist, addon.py:370).              *)
SavedInFull ==
    open /\ Free =>
        /\ \A i \in DOMAIN saved : i \in Ids /\ files[i] = [s \in Suffixes |-> saved[i]]
        /\ \A i \in Listed : i \in DOMAIN saved

(* Outside a save and once a lowered limit was enforced, the archive and   *)
(* what a save is adding stay within the limit (_reserve, addon.py:298;    *)
(* SweepHistory, archive.go:504).                                          *)
WithinLimit == ~due => Size(files) <= limit

(* Nothing captured up to a completed clear is listed again ("the clear    *)
(* watermark also prevents a later websocket completion from restoring     *)
(* this snapshot", archive.go:294). TLC refutes it: a rewrite interrupted  *)
(* before the clear is finished after it.                                  *)
ClearedStaysCleared == \A i \in Listed : i > cleared

=============================================================================
