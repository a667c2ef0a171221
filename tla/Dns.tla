-------------------------------- MODULE Dns ---------------------------------
(***************************************************************************)
(* DNS: the relay every client asks, the resolver behind it, and the files *)
(* both are driven by.                                                     *)
(*                                                                         *)
(* The relay decides two things about a query: whether the policy of the   *)
(* client's address blocks the name, and which resolver is asked, the one  *)
(* of the exit the gateway sends this client through.  The second is       *)
(* rendered from the gateway's and link's documents, so a gateway change   *)
(* re-applies DNS, and it does so after it gave the apply lock back.       *)
(***************************************************************************)
EXTENDS Naturals, FiniteSets, TLC

CONSTANTS
    Where,      \* client -> the network it is attached to
    NetChoices, \* tables of networks link can hold: name -> subnet
    Suffixes,   \* name -> the names it lies under, itself included
    Local,      \* the names under the local domain
    Policies,   \* policy tables an operator stores: name -> [clients, block, allow]
    Exits,      \* exits of the gateway; the resolver of an exit is named after it
    MaxInFlight,\* bound: refreshes under way
    MaxEdits,   \* bound: requests
    MaxFaults   \* bound: steps that fail, and restarts

VARIABLES
    doc,       \* the stored document: [dns, gw, nets, tunnel]
    files,     \* rendered: [policy, relay, routes, unbound]
    relay,     \* the relay: [up, policy, conf, routes], what it has read
    resolver,  \* unbound: [up, hosts]
    boot,      \* units that start at boot
    refreshes, \* DNS refreshes under way after a gateway change: id -> state
    asked,     \* what the last request of each module asked for (ghost)
    behind,    \* the files do not follow the document (ghost)
    failed,    \* a unit did not follow the files (ghost)
    edits, faults

vars == <<doc, files, relay, resolver, boot, refreshes, asked, behind, failed, edits, faults>>

Clients == DOMAIN Where
Unbound == "unbound"

(***************************************************************************)
(* Rendering.                                                              *)
(***************************************************************************)
Assigned(g, n) == IF n \in DOMAIN g.nets THEN g.nets[n] ELSE g.default

NoRoutes == [default |-> "", exits |-> {}, nets |-> <<>>, devs |-> <<>>]
renderRoutes(d) ==
    LET g == d.gw
        used == DOMAIN d.nets
    IN  IF ~g.on \/ g.dns = {} THEN [NoRoutes EXCEPT !.default = IF g.on THEN g.default ELSE ""]
        ELSE [default |-> g.default, exits |-> g.dns,
              nets |-> [s \in {d.nets[n] : n \in used} |->
                            Assigned(g, CHOOSE n \in used : d.nets[n] = s)],
              devs |-> g.devs]

(* The dial-in address is added to pinned addresses when the backend was   *)
(* given the view of the tunnel.                                           *)
renderRelay(d, tunnel) == [pin |-> d.pin, also |-> d.pin /\ tunnel]

Render(cfg, d, tunnel) ==
    [policy |-> cfg.policies, relay |-> renderRelay(cfg, tunnel),
     routes |-> renderRoutes(d), unbound |-> cfg.hosts]

(* What the applier's backend() renders, with the view, and what its       *)
(* Backend field does, without.                                            *)
backend(cfg, d) == Render(cfg, d, d.tunnel)
Backend(cfg, d) == Render(cfg, d, FALSE)

(***************************************************************************)
(* The plan.                                                               *)
(***************************************************************************)
serviceAction(on, running, changed, reloadOnly) ==
    CASE on /\ ~running -> "start"
      [] ~on /\ running -> "stop"
      [] ~on \/ ~changed -> "none"
      [] OTHER -> IF reloadOnly THEN "reload" ELSE "restart"

BuildPlan(cfg, d) ==
    LET r == backend(cfg, d)
        changed == {f \in DOMAIN r : r[f] # files[f]}
        want == IF cfg.on THEN {"resolver", "relay"} ELSE {}
    IN  [changes |-> changed,
         resolver |-> serviceAction(cfg.on, resolver.up, "unbound" \in changed, FALSE),
         relay |-> serviceAction(cfg.on, relay.up, changed \ {"unbound"} # {}, "relay" \notin changed),
         boot |-> want]

nothingToDo(p) == p.changes = {} /\ p.resolver = "none" /\ p.relay = "none" /\ p.boot = boot
Disruptive(p) == "stop" \in {p.resolver, p.relay}

(***************************************************************************)
(* The apply.  `at` counts the steps done: the document, the files in the  *)
(* order of their paths, the units at boot, and the two units, the         *)
(* resolver first unless they are being stopped.                           *)
(***************************************************************************)
Store == 1
FileStep == [policy |-> 2, relay |-> 3, routes |-> 4, unbound |-> 5]
Enable == 6
First == 7
Second == 8

UnitStep(p) ==
    IF Disruptive(p) THEN [relay |-> First, resolver |-> Second]
    ELSE [resolver |-> First, relay |-> Second]

LoadRelay(f) == [up |-> TRUE, policy |-> f.policy, conf |-> f.relay, routes |-> f.routes]
RelayStep(act, f) ==
    CASE act \in {"start", "restart"} -> LoadRelay(f)
      [] act = "reload" -> [relay EXCEPT !.policy = f.policy, !.routes = f.routes]
      [] act = "stop" -> [relay EXCEPT !.up = FALSE]
      [] act = "none" -> relay
ResolverStep(act, f) ==
    CASE act \in {"start", "restart"} -> [up |-> TRUE, hosts |-> f.unbound]
      [] act = "stop" -> [resolver EXCEPT !.up = FALSE]
      [] act = "none" -> resolver

(* The plan is built with backend(), the files are written from Backend.   *)
Written(cfg, d, p, at) ==
    LET r == Backend(cfg, d)
    IN  [f \in DOMAIN files |-> IF f \in p.changes /\ at >= FileStep[f] THEN r[f] ELSE files[f]]

Act(cfg, p, at) ==
    LET d == doc'
        when == UnitStep(p)
    IN  /\ at < Second => faults < MaxFaults
        /\ faults' = IF at < Second THEN faults + 1 ELSE faults
        /\ IF nothingToDo(p) THEN UNCHANGED <<files, relay, resolver, boot>>
           ELSE /\ files' = Written(cfg, d, p, at)
                /\ boot' = IF at >= Enable THEN p.boot ELSE boot
                /\ relay' = IF at >= when.relay THEN RelayStep(p.relay, files') ELSE relay
                /\ resolver' = IF at >= when.resolver THEN ResolverStep(p.resolver, files') ELSE resolver
        /\ failed' = ((failed /\ ~(/\ at = Second
                                   /\ p.relay \in {"start", "restart", "stop"}
                                   /\ p.resolver \in {"start", "restart", "stop"}))
                      \/ (at >= Store /\ at < Second))

(* Nothing is under way that could still put an older document back.       *)
Alone == DOMAIN refreshes = {}

(* A locked apply of cfg: the module's part of the document is replaced.   *)
ApplyChecked(cfg, at) ==
    /\ doc' = IF at >= Store THEN [doc EXCEPT !.dns = cfg] ELSE doc
    /\ Act(cfg, BuildPlan(cfg, doc), at)
    /\ asked' = IF at >= Store THEN [asked EXCEPT !.dns = cfg] ELSE asked
    /\ behind' = (IF at = Second THEN ~Alone \/ (behind /\ ~cfg.on)
                  ELSE (behind \/ at >= Store))

Edit == edits < MaxEdits /\ edits' = edits + 1

validatePolicies(ps) ==
    /\ Cardinality({p \in DOMAIN ps : ps[p].clients = {}}) <= 1
    /\ \A p, q \in DOMAIN ps : p # q => ps[p].clients \cap ps[q].clients = {}

mutate(cfg) ==
    /\ Edit
    /\ validatePolicies(cfg.policies)
    /\ \E at \in 0..Second, confirm \in BOOLEAN :
        /\ ~(Disruptive(BuildPlan(cfg, doc)) /\ ~confirm)
        /\ ApplyChecked(cfg, at)
    /\ UNCHANGED refreshes

setEnabled == mutate([doc.dns EXCEPT !.on = ~@])
SetListen == mutate([doc.dns EXCEPT !.pin = ~@])
SetHost == \E n \in Local \ doc.dns.hosts : mutate([doc.dns EXCEPT !.hosts = @ \cup {n}])
RemoveHost == \E n \in doc.dns.hosts : mutate([doc.dns EXCEPT !.hosts = @ \ {n}])
SetPolicies == \E ps \in Policies : mutate([doc.dns EXCEPT !.policies = ps])
postApply == mutate(doc.dns)

(***************************************************************************)
(* Other modules' requests.  They store their own part of the document;    *)
(* link and the tunnel re-apply DNS under the lock, the gateway starts a   *)
(* refresh once it has left it, unless its own apply failed.               *)
(***************************************************************************)
dnsDependent(d) ==
    \E at \in (IF d.dns.on THEN 0..Second ELSE {Second}) :
        /\ doc' = d
        /\ IF d.dns.on THEN Act(d.dns, BuildPlan(d.dns, d), at)
           ELSE UNCHANGED <<files, relay, resolver, boot, failed, faults>>
        /\ behind' = (at < Second \/ ~Alone \/ (behind /\ ~d.dns.on))

followNetworks == \E ns \in NetChoices :
    /\ Edit /\ ns # doc.nets
    /\ dnsDependent([doc EXCEPT !.nets = ns])
    /\ asked' = [asked EXCEPT !.nets = ns]
    /\ UNCHANGED refreshes

remoteFollow ==
    /\ Edit
    /\ dnsDependent([doc EXCEPT !.tunnel = ~@])
    /\ asked' = [asked EXCEPT !.tunnel = ~@]
    /\ UNCHANGED refreshes

(* A refresh of DNS, on the request's own goroutine and without the lock.  *)
Watch ==
    \E i \in 1..MaxInFlight \ DOMAIN refreshes :
        refreshes' = (i :> [at |-> "begin"]) @@ refreshes

gatewayApply(g) ==
    /\ Edit /\ g # doc.gw
    /\ DOMAIN refreshes # 1..MaxInFlight
    /\ doc' = [doc EXCEPT !.gw = g]
    /\ asked' = [asked EXCEPT !.gw = g]
    /\ \E ok \in BOOLEAN :
        /\ ~ok => faults < MaxFaults
        /\ faults' = IF ok THEN faults ELSE faults + 1
        /\ IF ok THEN Watch ELSE UNCHANGED refreshes
        /\ behind' = (behind \/ ~ok \/ ~Alone)
    /\ UNCHANGED <<files, relay, resolver, boot, failed>>

SetGateway == gatewayApply([doc.gw EXCEPT !.on = ~@])
SetExitDNS == \E e \in Exits : gatewayApply([doc.gw EXCEPT !.dns = IF e \in @ THEN @ \ {e} ELSE @ \cup {e}])
AssignNetwork == \E n \in DOMAIN doc.nets, e \in Exits :
    gatewayApply([doc.gw EXCEPT !.nets = (n :> e) @@ @])
AssignDevice == \E c \in Clients, e \in Exits :
    gatewayApply([doc.gw EXCEPT !.devs = (c :> e) @@ @])

(***************************************************************************)
(* The refresh, step by step: dnsApplier.Load, the plan, Store.Load and    *)
(* Store.Save with everything after it.                                    *)
(***************************************************************************)
Step(i, r) == refreshes' = (i :> r) @@ refreshes
End(i) == refreshes' = [j \in DOMAIN refreshes \ {i} |-> refreshes[j]]

RefreshLoad(i) ==
    /\ refreshes[i].at = "begin"
    /\ IF doc.dns.on THEN Step(i, [at |-> "plan", cfg |-> doc.dns]) ELSE End(i)
    /\ behind' = (behind \/ ~doc.dns.on)
    /\ UNCHANGED <<doc, files, relay, resolver, boot, asked, failed, edits, faults>>

RefreshPlan(i) ==
    /\ refreshes[i].at = "plan"
    /\ Step(i, [at |-> "read", cfg |-> refreshes[i].cfg, plan |-> BuildPlan(refreshes[i].cfg, doc)])
    /\ UNCHANGED <<doc, files, relay, resolver, boot, asked, behind, failed, edits, faults>>

RefreshRead(i) ==
    /\ refreshes[i].at = "read"
    /\ Step(i, [at |-> "save", cfg |-> refreshes[i].cfg, plan |-> refreshes[i].plan, doc |-> doc])
    /\ UNCHANGED <<doc, files, relay, resolver, boot, asked, behind, failed, edits, faults>>

RefreshSave(i) ==
    LET r == refreshes[i] IN
    /\ r.at = "save"
    /\ \E at \in 0..Second :
        /\ doc' = IF at >= Store THEN [r.doc EXCEPT !.dns = r.cfg] ELSE doc
        /\ Act(r.cfg, r.plan, at)
        /\ behind' = (behind \/ at < Second)
    /\ End(i)
    /\ UNCHANGED <<asked, edits>>

Refresh == \E i \in DOMAIN refreshes : RefreshLoad(i) \/ RefreshPlan(i) \/ RefreshRead(i) \/ RefreshSave(i)

(***************************************************************************)
(* A restart of olrd, or of the whole box: the refreshes under way are     *)
(* gone, the units that start at boot come back with the files as they     *)
(* are, and startDNS applies the stored document if that changes a file or *)
(* starts a unit.                                                          *)
(***************************************************************************)
startDNS ==
    /\ faults < MaxFaults
    /\ refreshes' = <<>>
    /\ LET p == BuildPlan(doc.dns, doc)
           due == doc.dns.on /\ (p.changes # {} \/ "start" \in {p.resolver, p.relay})
       IN  IF ~due THEN UNCHANGED <<files, relay, resolver, boot>>
           ELSE /\ files' = Written(doc.dns, doc, p, Second)
                /\ boot' = p.boot
                /\ relay' = RelayStep(p.relay, files')
                /\ resolver' = ResolverStep(p.resolver, files')
    /\ behind' = ~doc.dns.on
    /\ faults' = faults + 1
    /\ UNCHANGED <<doc, asked, failed, edits>>

(* The box went down: what it starts is what startDNS then finds.          *)
Reboot ==
    /\ faults < MaxFaults /\ faults' = faults + 1
    /\ refreshes' = <<>>
    /\ relay' = IF "relay" \in boot THEN LoadRelay(files) ELSE [relay EXCEPT !.up = FALSE]
    /\ resolver' = IF "resolver" \in boot THEN [up |-> TRUE, hosts |-> files.unbound]
                   ELSE [resolver EXCEPT !.up = FALSE]
    /\ behind' = (behind \/ ~Alone \/ relay'.up # doc.dns.on)
    /\ UNCHANGED <<doc, files, boot, asked, failed, edits>>

(***************************************************************************)
(* The relay.  Policies by the longest client prefix, allow before block;  *)
(* then the resolver of the client's exit, if the client can be told apart *)
(* from the devices of its network that have an exit of their own.         *)
(***************************************************************************)
Address(c) == doc.nets[Where[c]]
Prefixes(c) == {[bits |-> 32, of |-> c], [bits |-> 24, of |-> Address(c)]}

policyFor(ps, c) ==
    LET hits == {<<p, x>> \in (DOMAIN ps) \X Prefixes(c) : x \in ps[p].clients}
        best == {h \in hits : \A g \in hits : g[2].bits <= h[2].bits}
    IN  IF hits # {} THEN (CHOOSE h \in best : TRUE)[1]
        ELSE IF \E p \in DOMAIN ps : ps[p].clients = {} THEN CHOOSE p \in DOMAIN ps : ps[p].clients = {}
        ELSE ""

matches(set, name) == Suffixes[name] \cap set # {}

Decide(ps, c, name) ==
    LET p == policyFor(ps, c)
    IN  p # "" /\ ~matches(ps[p].allow, name) /\ matches(ps[p].block, name)

dnsFor(rt, e) == IF e \in rt.exits THEN e ELSE Unbound
NetworkExit(rt, c) == IF Address(c) \in DOMAIN rt.nets THEN rt.nets[Address(c)] ELSE rt.default
DeviceDNSMayDiffer(rt, c) ==
    \E d \in DOMAIN rt.devs : dnsFor(rt, rt.devs[d]) # dnsFor(rt, NetworkExit(rt, c))

(* Mutant of Select: a client that is not identified goes with its network.*)
SelectNetwork(rt, c, seen) ==
    IF seen = "known" /\ c \in DOMAIN rt.devs THEN dnsFor(rt, rt.devs[c]) ELSE dnsFor(rt, NetworkExit(rt, c))

Select(rt, c, seen) ==
    IF seen = "known" /\ c \in DOMAIN rt.devs THEN dnsFor(rt, rt.devs[c])
    ELSE IF seen # "known" /\ DeviceDNSMayDiffer(rt, c) THEN "servfail"
    ELSE dnsFor(rt, NetworkExit(rt, c))

(* `seen` is what the lease file and the neighbour table say of the        *)
(* client: its address, nothing, or two of them.                           *)
resolve(c, name, seen) ==
    CASE Decide(relay.policy, c, name) -> "blocked"
      [] relay.routes.exits # {} /\ name \notin Local -> Select(relay.routes, c, seen)
      [] OTHER -> Unbound

(***************************************************************************)
(* Specification.                                                          *)
(***************************************************************************)
NoDNS == [on |-> FALSE, pin |-> FALSE, hosts |-> {}, policies |-> <<>>]
NoGateway(e) == [on |-> FALSE, default |-> e, nets |-> <<>>, devs |-> <<>>, dns |-> {}]
NoFiles == [policy |-> <<>>, relay |-> renderRelay(NoDNS, FALSE), routes |-> NoRoutes, unbound |-> {}]

(* A box where nothing was set up, and one that serves DNS and has a       *)
(* gateway whose exits have resolvers of their own.                        *)
Fresh(e, ns) == [dns |-> NoDNS, gw |-> NoGateway(e), nets |-> ns, tunnel |-> FALSE]
Serving(e, ns) == [Fresh(e, ns) EXCEPT !.dns.on = TRUE, !.gw.on = TRUE, !.gw.dns = Exits]

Init ==
    /\ \E e \in Exits, ns \in NetChoices : doc \in {Fresh(e, ns), Serving(e, ns)}
    /\ files = IF doc.dns.on THEN Backend(doc.dns, doc) ELSE NoFiles
    /\ relay = [LoadRelay(files) EXCEPT !.up = doc.dns.on]
    /\ resolver = [up |-> doc.dns.on, hosts |-> files.unbound]
    /\ boot = IF doc.dns.on THEN {"resolver", "relay"} ELSE {}
    /\ refreshes = <<>> /\ asked = doc
    /\ behind = FALSE /\ failed = FALSE /\ edits = 0 /\ faults = 0

Next ==
    \/ setEnabled \/ SetListen \/ SetHost \/ RemoveHost \/ SetPolicies \/ postApply
    \/ followNetworks \/ remoteFollow
    \/ SetGateway \/ SetExitDNS \/ AssignNetwork \/ AssignDevice
    \/ Refresh
    \/ startDNS \/ Reboot

Spec == Init /\ [][Next]_vars

(***************************************************************************)
(* Properties.                                                             *)
(***************************************************************************)
(* The exit the gateway's document sends a client through, and the answer  *)
(* the documents promise the client for a name.                            *)
ExitOf(c) == IF c \in DOMAIN doc.gw.devs THEN doc.gw.devs[c] ELSE Assigned(doc.gw, Where[c])
DnsOf(e) == IF doc.gw.on /\ e \in doc.gw.dns THEN e ELSE Unbound
Promised(c, name) ==
    IF Decide(doc.dns.policies, c, name) THEN "blocked"
    ELSE IF name \in Local THEN Unbound ELSE DnsOf(ExitOf(c))

(* Once every change went through and no refresh is under way, a query is  *)
(* blocked exactly when the stored policies block it, and otherwise is     *)
(* asked of the resolver of the client's own exit; a client that cannot be *)
(* identified is refused rather than asked elsewhere, and only where the   *)
(* answer depends on who it is (Relay.resolve, relay.go:192; Routes.Select,*)
(* routes.go:115).                                                         *)
Resolves ==
    ~behind /\ ~failed /\ Alone =>
        /\ relay.up = doc.dns.on /\ resolver.up = doc.dns.on
        /\ doc.dns.on =>
            /\ resolver.hosts = doc.dns.hosts
            /\ \A c \in Clients, name \in DOMAIN Suffixes, seen \in {"known", "unknown", "ambiguous"} :
                LET r == resolve(c, name, seen) IN
                \/ r = Promised(c, name)
                \/ /\ r = "servfail" /\ seen # "known"
                   /\ \E d \in DOMAIN doc.gw.devs :
                        DnsOf(doc.gw.devs[d]) # DnsOf(Assigned(doc.gw, Where[c]))

(* The dial-in address, which every client configuration of the tunnel     *)
(* names, is one the relay answers on (Applier.DialIn, dns/apply.go:37).   *)
(* TLC refutes it: the address is never written to the relay's             *)
(* configuration.                                                          *)
DialInAnswered ==
    ~behind /\ ~failed /\ Alone /\ doc.dns.on /\ doc.tunnel => ~relay.conf.pin \/ relay.conf.also

(* Every module's part of the document is what the last request of that    *)
(* module stored: nothing puts an older one back (ApplyLock,               *)
(* core/lock.go:25). TLC refutes it: the refresh after a gateway edit      *)
(* loads before, and saves after, another request (daemon.go:600).         *)
EditsSurvive == doc = asked

=============================================================================
