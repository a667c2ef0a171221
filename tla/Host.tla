-------------------------------- MODULE Host --------------------------------
(***************************************************************************)
(* What the router takes from the distribution's own network               *)
(* configuration, and gives back: the DHCP client's IPv4 and IPv6 on the   *)
(* interfaces it writes, through marked blocks in the client's file; the   *)
(* kernel's automatic IPv6 addressing; the box's resolvers.                *)
(*                                                                         *)
(* Originals are kept in the runtime database before the first write, so   *)
(* that a crash, a failed write or a restart in between still leaves       *)
(* something to put back.                                                  *)
(***************************************************************************)
EXTENDS Naturals, Sequences, FiniteSets, FiniteSetsExt, TLC

CONSTANTS
    Ifaces,
    Servers,   \* lists of resolvers an uplink may name
    None,
    Kinds,     \* what /etc/resolv.conf is: "file", "resolved" or "other"
    MaxEdits,  \* bound: changes of the configuration
    MaxHost,   \* bound: changes the distribution makes
    MaxHand,   \* bound: lines an operator deletes from the client's file
    MaxFaults  \* bound: failed steps and crashes

VARIABLES
    want,      \* Desired: [v4, v6, dns], and auto: interface -> wanted or not
    conf,      \* /etc/dhcpcd.conf, line by line
    loaded,    \* what the running client read of it: is resolv.conf off limits
    kind,      \* resolvKind
    resolv,    \* /etc/resolv.conf: [ours, body], or None
    dropin,    \* the resolved drop-in's servers, or None
    original,  \* "host:resolv" in the database: what to put back, or None
    ra,        \* per interface <<autoconf, accept_ra>>
    originals, \* "host:ipv6" in the database: interface -> what to put back
    present,   \* interfaces the kernel has
    managed,   \* interfaces another manager configures
    job,       \* the apply under way
    ok,        \* the last apply succeeded
    had,       \* what resolv.conf was when it was taken (ghost)
    before,    \* per interface what the host itself last set (ghost)
    edits, moves, hand, faults

files == <<conf, resolv, dropin, original, ra, originals>>
host == <<loaded, kind, present, managed, had, before>>
bounds == <<edits, moves, hand, faults>>
vars == <<want, files, host, job, ok, bounds>>

Fault == faults < MaxFaults /\ faults' = faults + 1
Idle == [pc |-> "idle", todo |-> {}, failed |-> FALSE, read |-> None]
With(f, x, y) == (x :> y) @@ f
Without(f, x) == [y \in DOMAIN f \ {x} |-> f[y]]
HostContents == {[ours |-> FALSE, body |-> "h1"], [ours |-> FALSE, body |-> "h2"]}
HostRA == {<<"1", "1">>, <<"1", "0">>}

(***************************************************************************)
(* What is wanted (hostDesired): a network's members and a static uplink   *)
(* lose the client's IPv4, a delegating uplink and an interface whose      *)
(* automatic addressing is off lose its IPv6, a static uplink names the    *)
(* resolvers.                                                              *)
(***************************************************************************)
Nothing == [v4 |-> {}, v6 |-> {}, auto |-> [i \in {} |-> TRUE], dns |-> None]

hostDesired ==
    UNION {{[v4 |-> v4, v6 |-> pd \cup {i \in controlled : ~on[i]}, auto |-> on, dns |-> dns] :
               on \in [controlled -> BOOLEAN], v4 \in SUBSET Ifaces, dns \in Servers \cup {None},
               pd \in {{}} \cup {{i} : i \in Ifaces}} :
           controlled \in SUBSET Ifaces}

(***************************************************************************)
(* The client's file.                                                      *)
(***************************************************************************)
Line(k, v) == [kind |-> k, val |-> v]
Begin == Line("begin", {})
End == Line("end", {})
Operator == <<Line("op1", {}), Line("op2", {})>>

(* The settings of one interface. *)
Setting(w, i) ==
    CASE i \in DOMAIN w.auto /\ i \notin w.v6 -> IF i \in w.v4 THEN "noipv4" ELSE "ipv6"
      [] i \in w.v4 /\ i \in w.v6 -> "noipv4 noipv6"
      [] i \in w.v6 /\ i \notin w.v4 -> "ipv4only"
      [] OTHER -> "ipv6only"

(* stripBlocks: from a begin marker to the next end marker; a begin marker *)
(* with no end marker after it stays.                                      *)
stripBlocks(c) ==
    LET From[k \in 1..(Len(c) + 1)] ==
          IF k > Len(c) THEN <<>>
          ELSE LET ends == {j \in (k + 1)..Len(c) : c[j].kind = "end"} IN
               IF c[k].kind = "begin" /\ ends # {} THEN From[Min(ends) + 1]
               ELSE <<c[k]>> \o From[k + 1] IN
    From[1]

renderDhcpcd(c, w) ==
    LET taken == w.v4 \cup w.v6 \cup DOMAIN w.auto IN
    (IF w.dns = None THEN <<>> ELSE <<Begin, Line("nohook", {}), End>>)
      \o stripBlocks(c)
      \o (IF taken = {} THEN <<>>
          ELSE <<Begin, Line("interfaces", {<<i, Setting(w, i)>> : i \in taken}), End>>)

NoHook(c) == \E k \in 1..Len(c) : c[k].kind = "nohook"

(***************************************************************************)
(* Apply.                                                                  *)
(***************************************************************************)
(* CheckIPv6Auto: refused while another manager configures the interface.  *)
CheckIPv6Auto(w) == DOMAIN w.auto \cap managed = {}

Goto(pc, todo) == job' = [job EXCEPT !.pc = pc, !.todo = todo]
Failed(pc, todo) == job' = [job EXCEPT !.pc = pc, !.todo = todo, !.failed = TRUE]

(* After a link or uplink change is saved, and when the daemon starts. *)
Apply == \E w \in hostDesired :
    /\ job.pc = "idle"
    /\ (w # want => edits < MaxEdits)
    /\ edits' = IF w = want THEN edits ELSE edits + 1
    /\ want' = w /\ ok' = FALSE
    /\ job' = IF CheckIPv6Auto(w)
              THEN [Idle EXCEPT !.pc = "before", !.todo = DOMAIN w.auto] ELSE Idle
    /\ UNCHANGED <<files, host, moves, hand, faults>>

Wanted(i) == IF want.auto[i] THEN <<"1", "2">> ELSE <<"0", "0">>

(* Mutant of Kept: the first write comes before the original is kept. *)
KeptAfter(i, stop) ==
    IF i \in DOMAIN want.auto /\ i \notin DOMAIN originals /\ stop \notin {"save", "autoconf", "accept"}
    THEN With(originals, i, ra[i]) ELSE originals

(* The original is kept before the first write. *)
Kept(i, stop) ==
    IF i \in DOMAIN want.auto /\ i \notin DOMAIN originals /\ stop # "save"
    THEN With(originals, i, ra[i]) ELSE originals

(* applyIPv6Auto, one interface: keep the original, write both settings,   *)
(* forget the original of a released one. stop is where it failed.         *)
Stops == {"save", "autoconf", "accept", "forget"}
SetIPv6(i, stop) ==
    LET controlled == i \in DOMAIN want.auto
        kept == Kept(i, stop)
        next == IF controlled THEN Wanted(i) ELSE originals[i] IN
    /\ ra' = CASE i \notin present -> ra
               [] i \in present /\ stop \in {"save", "autoconf"} -> ra
               [] i \in present /\ stop = "accept" -> [ra EXCEPT ![i][1] = next[1]]
               [] OTHER -> [ra EXCEPT ![i] = next]
    /\ originals' = CASE i \notin present -> originals
                      [] i \in present /\ ~controlled /\ stop = "none" -> Without(originals, i)
                      [] OTHER -> kept

applyIPv6Auto(phase) == \E i \in job.todo, stop \in Stops \cup {"none"}, crash \in BOOLEAN :
    /\ job.pc = phase
    /\ (stop \in {"save", "forget"} => i \in present)
    /\ IF stop = "none" THEN ~crash /\ faults' = faults ELSE Fault
    /\ SetIPv6(i, stop)
    /\ IF crash THEN job' = Idle
       ELSE IF stop = "none" /\ i \in present THEN Goto(phase, job.todo \ {i})
       ELSE Failed(phase, job.todo \ {i})
    /\ UNCHANGED <<want, conf, resolv, dropin, original, host, ok, edits, moves, hand>>

(* Originals are captured before the client reloads; a failure there ends  *)
(* the apply.                                                              *)
captured ==
    /\ job.pc = "before" /\ job.todo = {}
    /\ IF job.failed THEN job' = Idle ELSE Goto("dhcpcd", {})
    /\ UNCHANGED <<want, files, host, ok, bounds>>

(* applyDhcpcd: nothing to say when the file is as wanted already. *)
applyDhcpcd == \E fails \in BOOLEAN :
    LET next == renderDhcpcd(conf, want) IN
    /\ job.pc = "dhcpcd"
    /\ IF fails THEN Fault ELSE faults' = faults
    /\ IF fails THEN conf' = conf /\ Failed("resolv", {})
       ELSE conf' = next /\ Goto(IF next = conf THEN "resolv" ELSE "signal", {})
    /\ UNCHANGED <<want, resolv, dropin, original, ra, originals, host, ok, edits, moves, hand>>

(* Every running client is told to read it again; one that has just gone   *)
(* is a failed step.                                                       *)
signal == \E fails \in BOOLEAN :
    /\ job.pc = "signal"
    /\ IF fails THEN Fault ELSE faults' = faults
    /\ loaded' = NoHook(conf)
    /\ IF fails THEN Failed("resolv", {}) ELSE Goto("resolv", {})
    /\ UNCHANGED <<want, files, kind, present, managed, had, before, ok, edits, moves, hand>>

After == DOMAIN want.auto \cup DOMAIN originals

(* The second pass also visits the interfaces that were let go. *)
Released == After

Ours(s) == [ours |-> TRUE, body |-> s]

(* Kept once, the first time: never olr's own file. *)
MustKeep == resolv # None /\ ~resolv.ours /\ original = None

(* applyResolvFile: decided from what was read. keep, write, putback and forget are its steps. *)
applyResolvFile ==
    /\ job.pc = "resolv" /\ kind = "file"
    /\ job' = [job EXCEPT !.pc =
                  CASE want.dns = None /\ resolv # None /\ original # None
                         -> IF resolv.ours THEN "putback" ELSE "after"
                    [] want.dns # None /\ resolv # Ours(want.dns) -> IF MustKeep THEN "keep" ELSE "write"
                    [] OTHER -> "after", !.todo = Released, !.read = resolv]
    /\ UNCHANGED <<want, files, host, ok, bounds>>

(* One step of it, which may fail: what follows it is then left out. *)
ResolvStep(pc, then) == \E fails \in BOOLEAN :
    /\ job.pc = pc
    /\ IF fails THEN Fault /\ Failed("after", Released)
       ELSE faults' = faults /\ Goto(then, Released)
    /\ original' = IF fails THEN original
                   ELSE CASE pc = "keep" -> job.read
                          [] pc = "forget" -> None
                          [] OTHER -> original
    /\ resolv' = IF fails THEN resolv
                 ELSE CASE pc = "write" -> Ours(want.dns)
                        [] pc = "putback" -> original
                        [] OTHER -> resolv
    /\ had' = IF pc = "write" /\ ~fails /\ ~(job.read # None /\ job.read.ours) THEN job.read ELSE had
    /\ UNCHANGED <<want, conf, dropin, ra, originals, loaded, kind, present, managed, before,
                   ok, edits, moves, hand>>

keepResolv == ResolvStep("keep", "write")
writeResolv == ResolvStep("write", "after")
putBackResolv == ResolvStep("putback", "forget")
forgetResolv == ResolvStep("forget", "after")

(* applyResolved: a drop-in and a restart. A link elsewhere is left alone. *)
applyResolved == \E fails \in BOOLEAN :
    /\ job.pc = "resolv" /\ kind = "resolved"
    /\ (fails => dropin # want.dns)
    /\ IF fails THEN Fault /\ Failed("after", Released)
       ELSE faults' = faults /\ Goto("after", Released)
    /\ dropin' \in IF fails THEN {dropin, want.dns} ELSE {want.dns}
    /\ UNCHANGED <<want, conf, resolv, original, ra, originals, host, ok, edits, moves, hand>>

resolvOther ==
    /\ job.pc = "resolv" /\ kind = "other" /\ Goto("after", Released)
    /\ UNCHANGED <<want, files, host, ok, bounds>>

finish ==
    /\ job.pc = "after" /\ job.todo = {}
    /\ job' = Idle /\ ok' = ~job.failed
    /\ UNCHANGED <<want, files, host, bounds>>

Crash ==
    /\ job.pc # "idle" /\ Fault /\ job' = Idle
    /\ UNCHANGED <<want, files, host, ok, edits, moves, hand>>

(***************************************************************************)
(* The distribution.                                                       *)
(***************************************************************************)
Move == moves < MaxHost /\ moves' = moves + 1

(* A client that was not told to leave resolv.conf alone writes it. *)
HostWritesResolv == \E c \in HostContents :
    /\ Move /\ ~loaded /\ kind = "file" /\ resolv' = c /\ resolv # c
    /\ UNCHANGED <<want, conf, dropin, original, ra, originals, host, job, ok, edits, hand, faults>>

(* The client or an administrator sets an interface's automatic            *)
(* addressing; an interface that was away is back with the defaults.       *)
HostSetsRA == \E i \in Ifaces, v \in HostRA :
    /\ Move
    /\ present' = present \cup {i}
    /\ ra' = [ra EXCEPT ![i] = v]
    /\ before' = IF i \in DOMAIN originals THEN before ELSE [before EXCEPT ![i] = v]
    /\ UNCHANGED <<want, conf, resolv, dropin, original, originals, loaded, kind, managed, had,
                   job, ok, edits, hand, faults>>

HostChanges == \E i \in Ifaces :
    /\ Move
    /\ \/ present' = present \ {i} /\ managed' = managed
       \/ managed' = managed \cup {i} /\ present' = present
    /\ UNCHANGED <<want, files, loaded, kind, had, before, job, ok, edits, hand, faults>>

(* An operator deletes a line of the client's file. *)
HandEdit == \E k \in 1..Len(conf) :
    /\ hand < MaxHand /\ hand' = hand + 1 /\ job.pc = "idle"
    /\ conf[k].kind \in {"begin", "end"}
    /\ conf' = SubSeq(conf, 1, k - 1) \o SubSeq(conf, k + 1, Len(conf))
    /\ UNCHANGED <<want, resolv, dropin, original, ra, originals, host, job, ok, edits, moves, faults>>

Init ==
    /\ want = Nothing /\ conf = Operator /\ loaded = FALSE /\ kind \in Kinds
    /\ resolv \in {None} \cup HostContents /\ dropin = None /\ original = None
    /\ ra = [i \in Ifaces |-> <<"1", "1">>] /\ originals = Nothing.auto
    /\ present = Ifaces /\ managed = {} /\ job = Idle /\ ok = TRUE
    /\ had = None /\ before = ra /\ edits = 0 /\ moves = 0 /\ hand = 0 /\ faults = 0

Next ==
    \/ Apply \/ applyIPv6Auto("before") \/ captured \/ applyDhcpcd \/ signal
    \/ applyResolvFile \/ keepResolv \/ writeResolv \/ putBackResolv \/ forgetResolv
    \/ applyResolved \/ resolvOther \/ applyIPv6Auto("after") \/ finish \/ Crash
    \/ HostWritesResolv \/ HostSetsRA \/ HostChanges \/ HandEdit

Spec == Init /\ [][Next]_vars

(***************************************************************************)
(* What is promised of the host.                                           *)
(***************************************************************************)
(* An interface olr holds no original for has the automatic addressing the *)
(* host itself last gave it: whatever failed or crashed, nothing olr wrote *)
(* is left where nothing remembers what to put back (applyIPv6Auto).       *)
HandedBack == \A i \in present \ DOMAIN originals : ra[i] = before[i]

(* While resolv.conf is olr's, the host's own file that it replaced is     *)
(* kept, never olr's, however often the servers change and whatever fails  *)
(* in between (applyResolvFile).                                           *)
OriginalKept ==
    resolv # None =>
      ((resolv.ours /\ had # None) => (original # None /\ ~original.ours))

(* An apply that succeeds with nothing wanted leaves nothing of olr's      *)
(* behind: no block, no drop-in, no setting still to be put back, no file  *)
(* unless there was none before (Apply).                                   *)
LeavesNothing ==
    (ok /\ job.pc = "idle" /\ want = Nothing /\ hand = 0) =>
      /\ conf = Operator /\ dropin = None /\ originals = Nothing.auto
      /\ resolv # None => (resolv.ours => had = None)

(* What an operator wrote in the client's file stays there: a begin marker *)
(* whose end was deleted takes nothing of theirs with it (stripBlocks).    *)
(* TLC refutes it: up to the next end marker the lines between are taken   *)
(* for the block's.                                                        *)
OperatorLinesKept ==
    \A x \in {"op1", "op2"} : \E k \in 1..Len(conf) : conf[k].kind = x
=============================================================================
