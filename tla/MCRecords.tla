---------------------------- MODULE MCRecords -------------------------------
(***************************************************************************)
(* What olrd keeps account of while it runs, checked in one run: traffic,  *)
(* activity, latency and captured flows, and the two background followers  *)
(* that keep a record of what they applied, the delegated prefix and the   *)
(* supervised backends. Each behaviour is one component's, and `which`     *)
(* says whose: in the behaviours of the others the backends, which this    *)
(* module extends, rest in their initial state.                            *)
(***************************************************************************)
EXTENDS Backends

CONSTANTS NoValue

VARIABLES
    which,  \* the component this behaviour is of
    on, sets, exits, now, previous, last, buckets, entries, saved, db, truth,
    counted, packets, faults, conn, dev, sid, baseline, prev, pending, disk,
    sample, sent, gone, sessions, doc, sites, results, inflight, probes,
    dirty, revision, snapshot, sampling, chosen, edits, files, tx, live,
    writer, open, cleared, limit, due, want, running, cur, phase, cancelled,
    withdrawing, prefix, calls, waiting, record, nets, addrs, routes, leases,
    watches, rollbacks, otherOp, otherApplies, otherBudget

all == <<which, vars,
    on, sets, exits, now, previous, last, buckets, entries, saved, db, truth,
    counted, packets, faults, conn, dev, sid, baseline, prev, pending, disk,
    sample, sent, gone, sessions, doc, sites, results, inflight, probes,
    dirty, revision, snapshot, sampling, chosen, edits, files, tx, live,
    writer, open, cleared, limit, due, want, running, cur, phase, cancelled,
    withdrawing, prefix, calls, waiting, record, nets, addrs, routes, leases,
    watches, rollbacks, otherOp, otherApplies, otherBudget>>

(* Backends: the two units of dns, started in this order. *)
MCUnitsOf == [dns |-> <<"resolver", "relay">>]

(* The other components and their instances. *)
TheTraffic == INSTANCE Traffic WITH
    Devices <- {"d", "e"}, Marks <- {"x"}, ExitMarks <- {"x"}, Sizes <- {1},
    BucketLen <- 3, Retention <- 0, Entries <- 1, MaxTime <- 5,
    MaxPackets <- 2, MaxFaults <- 2
TheActivity == INSTANCE Activity WITH
    Devices <- {"a", "b"}, StorageLimit <- 2, Retention <- 2, MaxHour <- 2,
    MaxBytes <- 2, MaxSessions <- 2, MaxFaults <- 1
TheLatency == INSTANCE Latency WITH
    Common <- {"g"}, Custom <- {}, Exits <- {"x"}, Direct <- "direct",
    Targets <- {"t"}, Auto <- "auto", HourSize <- 2, Retention <- 0,
    MaxTime <- 3, MaxProbes <- 2, MaxEdits <- 3, MaxFaults <- 1
TheArchive == INSTANCE FlowArchive WITH
    Limits <- {2, 3}, Age <- 1, MaxTime <- 3, MaxVersion <- 2, MaxFaults <- 2
TheDelegation == INSTANCE Delegation WITH
    None <- NoValue, Keys <- {"k1", "k2"}, Delegable <- {"p1", "p2"},
    Loops <- {"l1", "l2"}, Requests <- {"r1"}, Faults <- {},
    MaxCallers <- 1, MaxLeases <- 3, MaxWatches <- 2, MaxRollbacks <- 1,
    MaxApplies <- 1, MaxFaults <- 0,
    op <- otherOp, applies <- otherApplies, budget <- otherBudget

(* The variables of the other components stay at NA. *)
NA == 0

TheTrafficInit ==
    /\ which = "traffic" /\ TheTraffic!Init /\ Init
    /\ conn = NA /\ dev = NA /\ sid = NA /\ baseline = NA /\ prev = NA
    /\ pending = NA /\ disk = NA /\ sample = NA /\ sent = NA /\ gone = NA
    /\ sessions = NA /\ doc = NA /\ sites = NA /\ results = NA
    /\ inflight = NA /\ probes = NA /\ dirty = NA /\ revision = NA
    /\ snapshot = NA /\ sampling = NA /\ chosen = NA /\ edits = NA
    /\ files = NA /\ tx = NA /\ live = NA /\ writer = NA /\ open = NA
    /\ cleared = NA /\ limit = NA /\ due = NA /\ want = NA /\ running = NA
    /\ cur = NA /\ phase = NA /\ cancelled = NA /\ withdrawing = NA
    /\ prefix = NA /\ calls = NA /\ waiting = NA /\ record = NA /\ nets = NA
    /\ addrs = NA /\ routes = NA /\ leases = NA /\ watches = NA
    /\ rollbacks = NA /\ otherOp = NA /\ otherApplies = NA
    /\ otherBudget = NA
TheTrafficRest ==
    UNCHANGED <<which, vars,
        conn, dev, sid, baseline, prev, pending, disk, sample, sent, gone,
        sessions, doc, sites, results, inflight, probes, dirty, revision,
        snapshot, sampling, chosen, edits, files, tx, live, writer, open,
        cleared, limit, due, want, running, cur, phase, cancelled,
        withdrawing, prefix, calls, waiting, record, nets, addrs, routes,
        leases, watches, rollbacks, otherOp, otherApplies, otherBudget>>
TheTrafficNext ==
    which = "traffic" /\ TheTraffic!Next /\ TheTrafficRest

TheActivityInit ==
    /\ which = "activity" /\ TheActivity!Init /\ Init
    /\ sets = NA /\ exits = NA /\ previous = NA /\ last = NA /\ buckets = NA
    /\ entries = NA /\ saved = NA /\ db = NA /\ truth = NA /\ packets = NA
    /\ doc = NA /\ sites = NA /\ results = NA /\ inflight = NA /\ probes = NA
    /\ dirty = NA /\ revision = NA /\ snapshot = NA /\ sampling = NA
    /\ chosen = NA /\ edits = NA /\ files = NA /\ tx = NA /\ live = NA
    /\ writer = NA /\ open = NA /\ cleared = NA /\ limit = NA /\ due = NA
    /\ want = NA /\ running = NA /\ cur = NA /\ phase = NA /\ cancelled = NA
    /\ withdrawing = NA /\ prefix = NA /\ calls = NA /\ waiting = NA
    /\ record = NA /\ nets = NA /\ addrs = NA /\ routes = NA /\ leases = NA
    /\ watches = NA /\ rollbacks = NA /\ otherOp = NA /\ otherApplies = NA
    /\ otherBudget = NA
TheActivityRest ==
    UNCHANGED <<which, vars,
        sets, exits, previous, last, buckets, entries, saved, db, truth,
        packets, doc, sites, results, inflight, probes, dirty, revision,
        snapshot, sampling, chosen, edits, files, tx, live, writer, open,
        cleared, limit, due, want, running, cur, phase, cancelled,
        withdrawing, prefix, calls, waiting, record, nets, addrs, routes,
        leases, watches, rollbacks, otherOp, otherApplies, otherBudget>>
TheActivityNext ==
    which = "activity" /\ TheActivity!Next /\ TheActivityRest

TheLatencyInit ==
    /\ which = "latency" /\ TheLatency!Init /\ Init
    /\ on = NA /\ sets = NA /\ exits = NA /\ previous = NA /\ last = NA
    /\ buckets = NA /\ entries = NA /\ saved = NA /\ truth = NA
    /\ counted = NA /\ packets = NA /\ conn = NA /\ dev = NA /\ sid = NA
    /\ baseline = NA /\ prev = NA /\ pending = NA /\ disk = NA /\ sample = NA
    /\ sent = NA /\ gone = NA /\ sessions = NA /\ files = NA /\ tx = NA
    /\ live = NA /\ writer = NA /\ open = NA /\ cleared = NA /\ limit = NA
    /\ due = NA /\ want = NA /\ running = NA /\ cur = NA /\ phase = NA
    /\ cancelled = NA /\ withdrawing = NA /\ prefix = NA /\ calls = NA
    /\ waiting = NA /\ record = NA /\ nets = NA /\ addrs = NA /\ routes = NA
    /\ leases = NA /\ watches = NA /\ rollbacks = NA /\ otherOp = NA
    /\ otherApplies = NA /\ otherBudget = NA
TheLatencyRest ==
    UNCHANGED <<which, vars,
        on, sets, exits, previous, last, buckets, entries, saved, truth,
        counted, packets, conn, dev, sid, baseline, prev, pending, disk,
        sample, sent, gone, sessions, files, tx, live, writer, open, cleared,
        limit, due, want, running, cur, phase, cancelled, withdrawing,
        prefix, calls, waiting, record, nets, addrs, routes, leases, watches,
        rollbacks, otherOp, otherApplies, otherBudget>>
TheLatencyNext ==
    which = "latency" /\ TheLatency!Next /\ TheLatencyRest

TheArchiveInit ==
    /\ which = "flows" /\ TheArchive!Init /\ Init
    /\ on = NA /\ sets = NA /\ exits = NA /\ previous = NA /\ last = NA
    /\ buckets = NA /\ entries = NA /\ db = NA /\ truth = NA /\ counted = NA
    /\ packets = NA /\ conn = NA /\ dev = NA /\ sid = NA /\ baseline = NA
    /\ prev = NA /\ pending = NA /\ disk = NA /\ sample = NA /\ sent = NA
    /\ gone = NA /\ sessions = NA /\ doc = NA /\ sites = NA /\ results = NA
    /\ inflight = NA /\ probes = NA /\ dirty = NA /\ revision = NA
    /\ snapshot = NA /\ sampling = NA /\ chosen = NA /\ edits = NA
    /\ want = NA /\ running = NA /\ cur = NA /\ phase = NA /\ cancelled = NA
    /\ withdrawing = NA /\ prefix = NA /\ calls = NA /\ waiting = NA
    /\ record = NA /\ nets = NA /\ addrs = NA /\ routes = NA /\ leases = NA
    /\ watches = NA /\ rollbacks = NA /\ otherOp = NA /\ otherApplies = NA
    /\ otherBudget = NA
TheArchiveRest ==
    UNCHANGED <<which, vars,
        on, sets, exits, previous, last, buckets, entries, db, truth,
        counted, packets, conn, dev, sid, baseline, prev, pending, disk,
        sample, sent, gone, sessions, doc, sites, results, inflight, probes,
        dirty, revision, snapshot, sampling, chosen, edits, want, running,
        cur, phase, cancelled, withdrawing, prefix, calls, waiting, record,
        nets, addrs, routes, leases, watches, rollbacks, otherOp,
        otherApplies, otherBudget>>
TheArchiveNext ==
    which = "flows" /\ TheArchive!Next /\ TheArchiveRest

TheDelegationInit ==
    /\ which = "delegation" /\ TheDelegation!Init /\ Init
    /\ on = NA /\ sets = NA /\ exits = NA /\ now = NA /\ previous = NA
    /\ last = NA /\ buckets = NA /\ entries = NA /\ saved = NA /\ db = NA
    /\ truth = NA /\ counted = NA /\ packets = NA /\ faults = NA /\ conn = NA
    /\ dev = NA /\ sid = NA /\ baseline = NA /\ prev = NA /\ pending = NA
    /\ disk = NA /\ sample = NA /\ sent = NA /\ gone = NA /\ sessions = NA
    /\ doc = NA /\ sites = NA /\ results = NA /\ inflight = NA /\ probes = NA
    /\ dirty = NA /\ revision = NA /\ snapshot = NA /\ sampling = NA
    /\ chosen = NA /\ edits = NA /\ files = NA /\ tx = NA /\ live = NA
    /\ writer = NA /\ open = NA /\ cleared = NA /\ limit = NA /\ due = NA
TheDelegationRest ==
    UNCHANGED <<which, vars,
        on, sets, exits, now, previous, last, buckets, entries, saved, db,
        truth, counted, packets, faults, conn, dev, sid, baseline, prev,
        pending, disk, sample, sent, gone, sessions, doc, sites, results,
        inflight, probes, dirty, revision, snapshot, sampling, chosen, edits,
        files, tx, live, writer, open, cleared, limit, due>>
TheDelegationNext ==
    which = "delegation" /\ TheDelegation!Next /\ TheDelegationRest

TheBackendsInit ==
    /\ which = "backends" /\ Init
    /\ on = NA /\ sets = NA /\ exits = NA /\ now = NA /\ previous = NA
    /\ last = NA /\ buckets = NA /\ entries = NA /\ saved = NA /\ db = NA
    /\ truth = NA /\ counted = NA /\ packets = NA /\ faults = NA /\ conn = NA
    /\ dev = NA /\ sid = NA /\ baseline = NA /\ prev = NA /\ pending = NA
    /\ disk = NA /\ sample = NA /\ sent = NA /\ gone = NA /\ sessions = NA
    /\ doc = NA /\ sites = NA /\ results = NA /\ inflight = NA /\ probes = NA
    /\ dirty = NA /\ revision = NA /\ snapshot = NA /\ sampling = NA
    /\ chosen = NA /\ edits = NA /\ files = NA /\ tx = NA /\ live = NA
    /\ writer = NA /\ open = NA /\ cleared = NA /\ limit = NA /\ due = NA
    /\ want = NA /\ running = NA /\ cur = NA /\ phase = NA /\ cancelled = NA
    /\ withdrawing = NA /\ prefix = NA /\ calls = NA /\ waiting = NA
    /\ record = NA /\ nets = NA /\ addrs = NA /\ routes = NA /\ leases = NA
    /\ watches = NA /\ rollbacks = NA /\ otherOp = NA /\ otherApplies = NA
    /\ otherBudget = NA
TheBackendsRest ==
    UNCHANGED <<which,
        on, sets, exits, now, previous, last, buckets, entries, saved, db,
        truth, counted, packets, faults, conn, dev, sid, baseline, prev,
        pending, disk, sample, sent, gone, sessions, doc, sites, results,
        inflight, probes, dirty, revision, snapshot, sampling, chosen, edits,
        files, tx, live, writer, open, cleared, limit, due, want, running,
        cur, phase, cancelled, withdrawing, prefix, calls, waiting, record,
        nets, addrs, routes, leases, watches, rollbacks, otherOp,
        otherApplies, otherBudget>>
TheBackendsNext ==
    which = "backends" /\ Next /\ TheBackendsRest

RecordsInit ==
    \/ TheTrafficInit \/ TheActivityInit \/ TheLatencyInit
    \/ TheArchiveInit \/ TheDelegationInit \/ TheBackendsInit
RecordsNext ==
    \/ TheTrafficNext \/ TheActivityNext \/ TheLatencyNext
    \/ TheArchiveNext \/ TheDelegationNext \/ TheBackendsNext

RecordsSpec == RecordsInit /\ [][RecordsNext]_all

(***************************************************************************)
(* Properties.                                                             *)
(***************************************************************************)
(* Traffic: the kernel charges every byte to one device in the direction   *)
(* the device sees, for forwarded, published and local conversations       *)
(* alike; what a save skips because it was saved already is in the         *)
(* database with that value, after failed saves and restarts; and the      *)
(* history stays within its bound while half hours expire                  *)
(* (kernel_linux.go:575, activity.go:191, :263).                           *)
(* Inspection: every byte counted is on disk, waiting, or was removed as   *)
(* too old or too much, exactly once, and none that was not sent while its *)
(* device was recorded; a captured flow that was saved and not pruned or   *)
(* cleared is there in full, in the version saved last; and both stay      *)
(* within their storage limits, also while a file is being replaced        *)
(* (activity_storage.go:163, :458, addon.py:370, :298, archive.go:504).    *)
RecordsKept ==
    /\ which = "traffic" =>
           TheTraffic!ChargedOnce /\ TheTraffic!SkippedIsSaved /\ TheTraffic!WithinEntries
    /\ which = "activity" => TheActivity!CountedOnce /\ TheActivity!WithinStorage
    /\ which = "flows" => TheArchive!SavedInFull /\ TheArchive!WithinLimit

(* Latency: an hour's sample in memory is in the database or still to be   *)
(* saved; a row shows the spinner exactly while its own probe runs; a      *)
(* measurement begun before the operator chose a target does not save its  *)
(* own; and a probe that ends late never replaces the sample of one begun  *)
(* after it, even when its site was edited away and back                   *)
(* (latency_history.go:98, latency_custom.go:256, :401, latency.go:385).   *)
ResultsKept ==
    [][which = "latency" =>
           /\ TheLatency!HistorySaved' /\ TheLatency!Spinner'
           /\ TheLatency!ChoiceStays' /\ TheLatency!NeverOlder]_all

(* Delegation: never more than one loop publishes, and once every call of  *)
(* Watch has returned it runs on the uplink stored; however announcements, *)
(* edits and the follower interleave, a box at rest has recorded and       *)
(* routed the prefix published and no other, and as long as nobody has     *)
(* programmed the networks themselves the follower alone keeps their       *)
(* addresses right (dial/delegation.go:137, daemon/delegation.go:45).      *)
PrefixInForce ==
    which = "delegation" =>
        /\ TheDelegation!OneLoop /\ TheDelegation!LoopMatchesStored
        /\ TheDelegation!RecordCurrent /\ TheDelegation!AddressesFollow
=============================================================================
