------------------------------ MODULE Latency ------------------------------
(***************************************************************************)
(* The gateway's response-time monitors.                                   *)
(*                                                                         *)
(* One watches sites, each through an exit of its own: a round every half  *)
(* hour, probes on demand, a sample per hour kept in memory and saved in   *)
(* the runtime database.  Probes finish in any order, while sites are      *)
(* edited, after later probes, and the database may refuse a save.         *)
(* The other measures the Internet against one target, which it chooses    *)
(* itself when the operator has chosen none.                               *)
(***************************************************************************)
EXTENDS Naturals, FiniteSets, FiniteSetsExt, TLC

CONSTANTS
    Common,    \* sites of the catalogue: always monitored
    Custom,    \* sites the operator may add
    Exits,     \* exits a site can be measured through
    Direct,    \* the site's exit is not set
    Targets,   \* Internet targets
    Auto,      \* no target chosen
    HourSize,  \* instants in an hour
    Retention, \* hours a sample is kept
    MaxTime,   \* bound: the clock
    MaxProbes, \* bound: probes under way
    MaxEdits,  \* bound: edits and measurements asked for
    MaxFaults  \* bound: failed saves, restarts

Routes == Exits \cup {Direct}
Names == Common \cup Custom

VARIABLES
    now,
    doc,      \* the stored document: [sites, target]
    sites,    \* the monitor's copy: name -> exit
    results,  \* <<name, exit>> -> [at, samples: hour -> at, measuring]
    inflight, \* keys an on-demand probe is measuring
    probes,   \* probes under way: [key, started, asked]
    dirty,    \* samples not saved yet: <<key, hour, at>>
    db,       \* <<key, hour>> -> at
    revision, \* of the Internet target
    snapshot, \* the target the Internet monitor shows
    sampling, \* its measurement under way: the [target, revision] it read, or none
    chosen,   \* the target the operator last asked for (ghost)
    edits, faults

site == <<sites, results, inflight, probes, dirty, db>>
internet == <<revision, snapshot, sampling, chosen>>
vars == <<now, doc, site, internet, edits, faults>>

Never == 0 \* CheckedAt before the first measurement
Hour(t) == t \div HourSize
Fresh(h) == h + Retention >= Hour(now)
With(f, x, y) == (x :> y) @@ f
Empty == [x \in {} |-> 0]
Limit(f, S) == [x \in S \cap DOMAIN f |-> f[x]]
SiteLists == {f \in UNION {[D -> Routes] : D \in SUBSET Names} : Common \subseteq DOMAIN f}
Edit == edits < MaxEdits /\ edits' = edits + 1

(***************************************************************************)
(* Sites.                                                                  *)
(***************************************************************************)
allSites(ss) == {<<n, ss[n]>> : n \in DOMAIN ss}

(* A row keeps its history while it names the same address and exit. *)
resetResults(ss) == [k \in allSites(ss) |->
    IF k \in DOMAIN results THEN [results[k] EXCEPT !.measuring = k \in inflight]
                            ELSE [at |-> Never, samples |-> Empty, measuring |-> k \in inflight]]

Adopt(ss) == sites' = ss /\ results' = IF ss = sites THEN results ELSE resetResults(ss)

(* refreshConfig: a document edited elsewhere is taken over. *)
Snapshot ==
    /\ sites # doc.sites
    /\ Adopt(doc.sites)
    /\ UNCHANGED <<now, doc, inflight, probes, dirty, db, internet, edits, faults>>

(* PUT /config: the document changes, the monitors are not told. *)
PutConfig == \E ss \in SiteLists, t \in Targets \cup {Auto} :
    /\ Edit
    /\ doc' = [sites |-> ss, target |-> t]
    /\ chosen' = t
    /\ UNCHANGED <<now, site, revision, snapshot, sampling, faults>>

(* The catalogue's exits a list does not mention come from memory. *)
Replace == \E list \in UNION {[D -> Routes] : D \in SUBSET Names} :
    /\ Edit
    /\ LET ss == list @@ Limit(sites, Common) IN
         /\ doc' = [doc EXCEPT !.sites = ss]
         /\ sites' = ss /\ results' = resetResults(ss)
    /\ UNCHANGED <<now, inflight, probes, dirty, db, internet, faults>>

(* Measure: nothing if the site is already being measured. *)
Measure == \E n \in DOMAIN doc.sites :
    LET k == <<n, doc.sites[n]>>
        rows == IF doc.sites = sites THEN results ELSE resetResults(doc.sites) IN
    /\ Edit /\ Cardinality(probes) < MaxProbes
    /\ sites' = doc.sites
    /\ IF k \in inflight THEN results' = rows /\ UNCHANGED <<inflight, probes>>
       ELSE /\ inflight' = inflight \cup {k}
            /\ results' = [rows EXCEPT ![k].measuring = TRUE]
            /\ probes' = probes \cup {[key |-> k, started |-> now, asked |-> TRUE]}
    /\ UNCHANGED <<now, doc, dirty, db, internet, faults>>

(* A round starts a probe of every site, at a restart only of those that   *)
(* have no sample this hour and are not being measured.                    *)
Round == \E missingOnly \in BOOLEAN :
    LET rows == IF doc.sites = sites THEN results ELSE resetResults(doc.sites)
        due == {k \in allSites(doc.sites) :
                  missingOnly => k \notin inflight /\ Hour(now) \notin DOMAIN rows[k].samples}
        new == {[key |-> k, started |-> now, asked |-> FALSE] : k \in due} IN
    /\ ~\E p \in probes : ~p.asked
    /\ due # {} /\ Cardinality(probes) + Cardinality(due) <= MaxProbes
    /\ Adopt(doc.sites)
    /\ probes' = probes \cup new
    /\ UNCHANGED <<now, doc, inflight, dirty, db, internet, edits, faults>>

(***************************************************************************)
(* History.                                                                *)
(***************************************************************************)
Latest(rows) == {r \in rows : \A o \in rows : (o[1] = r[1] /\ o[2] = r[2]) => o[3] <= r[3]}

(* Mutant: a save overwrites what is stored. *)
SaveOver(rows) ==
    LET fresh == {r \in rows : Fresh(r[2])}
        old == Limit(db, {x \in DOMAIN db : Fresh(x[2])})
    IN  [x \in {<<r[1], r[2]>> : r \in fresh} |->
            (CHOOSE r \in fresh : <<r[1], r[2]>> = x)[3]] @@ old

(* Of two samples of one hour the one begun later stays. *)
SaveLatencySamples(rows) ==
    LET fresh == {r \in rows : Fresh(r[2])}
        old == Limit(db, {x \in DOMAIN db : Fresh(x[2])})
        new == [x \in {<<r[1], r[2]>> : r \in fresh} |->
                  (CHOOSE r \in fresh : <<r[1], r[2]>> = x)[3]]
    IN  [x \in DOMAIN old \cup DOMAIN new |->
            Max({f[x] : f \in {g \in {old, new} : x \in DOMAIN g}})]

saveHistory(rows) == \E failed \in BOOLEAN :
    LET pending == Latest({r \in rows : Fresh(r[2])}) IN
    /\ (failed => faults < MaxFaults) /\ faults' = IF failed THEN faults + 1 ELSE faults
    /\ IF rows = {} THEN ~failed /\ db' = db
       ELSE db' = IF failed THEN db ELSE SaveLatencySamples(pending)
    /\ dirty' = IF failed THEN pending ELSE {}

(* The sample takes its hour's place unless a later one holds it; the row  *)
(* shows it unless it shows a later one.                                   *)
Merged(row, started) ==
    LET h == Hour(started)
        kept == h \in DOMAIN row.samples /\ row.samples[h] > started
        all == IF kept THEN row.samples ELSE With(row.samples, h, started)
    IN  [row EXCEPT !.samples = Limit(all, {x \in DOMAIN all : Fresh(x)}),
                    !.at = IF @ > started THEN @ ELSE started]

Accepted(k, started) == LET h == Hour(started) IN
    ~(h \in DOMAIN results[k].samples /\ results[k].samples[h] > started)

(* A probe ends.  The result of a site no longer monitored is dropped. *)
storeResult == \E p \in probes :
    LET busy == IF p.asked THEN inflight \ {p.key} ELSE inflight
        known == p.key \in DOMAIN results IN
    /\ probes' = probes \ {p} /\ inflight' = busy
    /\ results' = IF known
                  THEN [results EXCEPT ![p.key] =
                          [Merged(@, p.started) EXCEPT !.measuring = p.key \in busy]]
                  ELSE results
    /\ saveHistory(IF known /\ Accepted(p.key, p.started)
                   THEN dirty \cup {<<p.key, Hour(p.started), p.started>>} ELSE dirty)
    /\ UNCHANGED <<now, doc, sites, internet, edits>>

(***************************************************************************)
(* The Internet target.                                                    *)
(***************************************************************************)
SetTarget == \E t \in Targets \cup {Auto} :
    /\ Edit
    /\ doc' = [doc EXCEPT !.target = t]
    /\ revision' = revision + 1 /\ snapshot' = t /\ chosen' = t
    /\ UNCHANGED <<now, site, sampling, faults>>

Sample ==
    /\ sampling = {}
    /\ sampling' = {[target |-> doc.target, revision |-> revision]}
    /\ UNCHANGED <<now, doc, site, revision, snapshot, chosen, edits, faults>>

Current(s) == doc.target = s.target /\ revision = s.revision

(* publish, under the apply lock: the fastest target that answered is      *)
(* saved when none was chosen.                                             *)
Publish == \E s \in sampling, answers \in SUBSET Targets :
    LET best == {t \in answers : s.target \in {Auto, t}} IN
    /\ sampling' = {}
    /\ \E t \in IF best = {} THEN {s.target} ELSE best :
         IF Current(s) THEN /\ snapshot' = t
                            /\ doc' = IF s.target = Auto THEN [doc EXCEPT !.target = t] ELSE doc
                       ELSE UNCHANGED <<snapshot, doc>>
    /\ UNCHANGED <<now, site, revision, chosen, edits, faults>>

(***************************************************************************)
(* Time, restarts.                                                         *)
(***************************************************************************)
Tick == now < MaxTime /\ now' = now + 1 /\ UNCHANGED <<doc, site, internet, edits, faults>>

(* OpenCustomLatencyConfig and RestoreHistory. *)
Restored(k) == LET mine == {x \in DOMAIN db : x[1] = k /\ Fresh(x[2])} IN
    [at |-> Max({db[x] : x \in mine} \cup {Never}),
     samples |-> [h \in {x[2] : x \in mine} |-> db[<<k, h>>]], measuring |-> FALSE]

Restart ==
    /\ faults < MaxFaults /\ faults' = faults + 1
    /\ sites' = doc.sites /\ results' = [k \in allSites(doc.sites) |-> Restored(k)]
    /\ inflight' = {} /\ probes' = {} /\ dirty' = {} /\ sampling' = {}
    /\ snapshot' = doc.target /\ revision' = 0
    /\ UNCHANGED <<now, doc, db, chosen, edits>>

Init ==
    /\ now = 1 /\ doc \in [sites : SiteLists, target : {Auto}]
    /\ sites = doc.sites
    /\ results = [k \in allSites(doc.sites) |-> [at |-> Never, samples |-> Empty, measuring |-> FALSE]]
    /\ inflight = {} /\ probes = {} /\ dirty = {} /\ db = Empty
    /\ revision = 0 /\ snapshot = Auto /\ sampling = {} /\ chosen = Auto
    /\ edits = 0 /\ faults = 0

Next == \/ Snapshot \/ PutConfig \/ Replace \/ Measure \/ Round \/ storeResult
        \/ SetTarget \/ Sample \/ Publish \/ Tick \/ Restart

Spec == Init /\ [][Next]_vars

(***************************************************************************)
(* What the monitors promise.                                              *)
(***************************************************************************)
(* An hour's sample in memory is in the database or still to be saved,     *)
(* whatever saves failed: a failed save (saveHistoryLocked) loses nothing. *)
HistorySaved == \A k \in DOMAIN results : \A h \in DOMAIN results[k].samples :
    LET at == results[k].samples[h] IN
    Fresh(h) => \/ <<k, h>> \in DOMAIN db /\ db[<<k, h>>] >= at
                \/ \E r \in dirty : r[1] = k /\ r[2] = h /\ r[3] >= at

(* A probe that ends late never replaces the sample of one begun after it, *)
(* in memory (storeResult) or in the database (SaveLatencySamples), even   *)
(* when the site was edited away and back in between.                      *)
NeverOlder == \A x \in DOMAIN db \cap DOMAIN db' : db'[x] >= db[x]

(* A row shows the spinner exactly while its own probe runs, through edits *)
(* that rename, reroute, remove and bring back the site (resetResults).    *)
Spinner == \A k \in DOMAIN results : results[k].measuring <=> k \in inflight

(* A target the operator chose stays: a measurement begun before the       *)
(* choice does not save its own (publish).                                 *)
ChoiceStays == chosen # Auto => doc.target = chosen
=============================================================================
