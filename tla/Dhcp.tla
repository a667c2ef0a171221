-------------------------------- MODULE Dhcp --------------------------------
(***************************************************************************)
(* The DHCP server olr drives: pools on networks, reservations, the files  *)
(* rendered from them and the leases clients hold.                         *)
(*                                                                         *)
(* A pool names a network and follows it: its range may be derived from    *)
(* the network's subnet, and a change of the networks re-applies the       *)
(* stored document.  dnsmasq reads its main file when it starts and the    *)
(* reservations and options again on a reload.                             *)
(***************************************************************************)
EXTENDS Integers, FiniteSets, TLC

CONSTANTS
    StaticReserve,  \* host number a derived range starts at
    MinSuggested,   \* smallest range worth leaving a static block for
    MaxSuggested,   \* cap on a derived range
    Where,      \* client -> the network it is attached to
    NetChoices, \* tables of networks link can hold: name -> [subnet, router]
    Ranges,     \* explicit ranges an operator gives a pool, None to derive it
    Gateways,   \* gateways an operator names, NoGateway for the router
    Fixed,      \* addresses an operator reserves
    MaxEdits,   \* bound: requests and changes of the networks
    MaxFaults   \* bound: steps that fail, and reboots

VARIABLES
    nets,     \* the networks: name -> [subnet, router]
    doc,      \* the stored document: [on, pools, res]
    files,    \* rendered: [main, hosts, opts]
    proc,     \* dnsmasq: [up, main, hosts, opts], what it has read
    boot,     \* the unit starts at boot
    leases,   \* <<client, address>> of every lease that has not expired
    moved,    \* the networks changed and the document did not follow (ghost)
    failed,   \* a step failed since dnsmasq last started (ghost)
    asked,    \* the last step was no request, or a confirmed one (ghost)
    edits, faults

vars == <<nets, doc, files, proc, boot, leases, moved, failed, asked, edits, faults>>

(***************************************************************************)
(* IPv4 subnet arithmetic (core/subnet.go).  An address is a number; a     *)
(* subnet is <<first, size>>; a range is <<start, end>>, both ends         *)
(* included, or None.                                                      *)
(***************************************************************************)
None == <<>>

Broadcast(s) == s[1] + s[2] - 1
InSubnet(s, a) == s[1] <= a /\ a <= Broadcast(s)

(* Everything between the network and the broadcast address.               *)
HostRange(s) == IF s[2] < 4 THEN None ELSE <<s[1] + 1, Broadcast(s) - 1>>

RangeSize(lo, hi) == IF lo > hi THEN 0 ELSE hi - lo + 1
InRange(r, a) == r # None /\ r[1] <= a /\ a <= r[2]
Addresses(r) == IF r = None THEN {} ELSE r[1]..r[2]

(* The larger side of the router.                                          *)
BesideRouter(h, router) ==
    CASE ~InRange(h, router) -> h
      [] OTHER -> IF RangeSize(router + 1, h[2]) >= RangeSize(h[1], router - 1)
                  THEN <<router + 1, h[2]>> ELSE <<h[1], router - 1>>

(* The static block is given up before the range is.                       *)
LeaveStatics(s, r) ==
    LET reserved == s[1] + StaticReserve
    IN  IF InRange(r, reserved) /\ RangeSize(reserved, r[2]) >= MinSuggested
        THEN <<reserved, r[2]>> ELSE r

Capped(r) ==
    IF RangeSize(r[1], r[2]) > MaxSuggested THEN <<r[1], r[1] + MaxSuggested - 1>> ELSE r

SuggestRange(s, router) ==
    LET side == BesideRouter(HostRange(s), router)
    IN  IF HostRange(s) = None \/ side[1] > side[2] THEN None
        ELSE Capped(LeaveStatics(s, side))

Clients == DOMAIN Where
NoGateway == 0

(***************************************************************************)
(* Validation against the networks there are.                              *)
(***************************************************************************)
Range(p, n) == IF p.range # None THEN p.range ELSE SuggestRange(n.subnet, n.router)

validatePoolIPv4(p, n) ==
    LET r == Range(p, n) IN
    /\ r # None
    /\ InSubnet(n.subnet, r[1]) /\ InSubnet(n.subnet, r[2])
    /\ {n.router, n.subnet[1], Broadcast(n.subnet)} \cap Addresses(r) = {}
    /\ p.gw # NoGateway => InSubnet(n.subnet, p.gw)

validateOverlaps(d, ns) ==
    \A m, n \in DOMAIN d.pools : m # n =>
        Addresses(Range(d.pools[m], ns[m])) \cap Addresses(Range(d.pools[n], ns[n])) = {}

(* An address is reserved once, in the subnet of some pool.                *)
validateReservations(d, ns) ==
    /\ \A c, e \in DOMAIN d.res : c # e => d.res[c] # d.res[e]
    /\ \A c \in DOMAIN d.res : \E n \in DOMAIN d.pools : InSubnet(ns[n].subnet, d.res[c])

Validate(d, ns) ==
    /\ DOMAIN d.pools \subseteq DOMAIN ns
    /\ \A n \in DOMAIN d.pools : validatePoolIPv4(d.pools[n], ns[n])
    /\ validateOverlaps(d, ns)
    /\ validateReservations(d, ns)

(***************************************************************************)
(* Rendering, and what of it a reload picks up.                            *)
(***************************************************************************)
renderMain(d, ns) ==
    [n \in DOMAIN d.pools |-> [range |-> Range(d.pools[n], ns[n]), subnet |-> ns[n].subnet]]
renderOptions(d) ==
    LET named == {n \in DOMAIN d.pools : d.pools[n].gw # NoGateway}
    IN  [n \in named |-> d.pools[n].gw]
Render(d, ns) == [main |-> renderMain(d, ns), hosts |-> d.res, opts |-> renderOptions(d)]

serviceAction(on, running, changed, reloadOnly) ==
    CASE on /\ ~running -> "start"
      [] ~on /\ running -> "stop"
      [] ~on \/ ~changed -> "none"
      [] OTHER -> IF reloadOnly THEN "reload" ELSE "restart"

Action(d, running) ==
    LET r == Render(d, nets)
    IN  serviceAction(d.on, running, r # files, r.main = files.main)

(* Can the holder of lease l keep its address under document d?            *)
servedBy(d, ns, l) ==
    IF l[1] \in DOMAIN d.res THEN d.res[l[1]] = l[2]
    ELSE /\ \A c \in DOMAIN d.res : d.res[c] # l[2]
         /\ \E n \in DOMAIN d.pools : InRange(Range(d.pools[n], ns[n]), l[2])

Dropped(d, ns) == {l \in leases : d.on => ~servedBy(d, ns, l)}

classify(d, running) ==
    IF Action(d, running) = "stop" \/ (running /\ Dropped(d, nets) # {})
    THEN "disruptive" ELSE "restart"

(***************************************************************************)
(* The apply.  It stops at the first step that fails: `at` counts the      *)
(* steps that were done, the document, the three kinds of file in the      *)
(* order of their paths, and the unit.                                     *)
(***************************************************************************)
Store == 1
Main == 2
Hosts == 3
Opts == 4
Unit == 5

Written(d, ns, at) ==
    LET r == Render(d, ns)
    IN  [main  |-> IF at >= Main THEN r.main ELSE files.main,
         hosts |-> IF at >= Hosts THEN r.hosts ELSE files.hosts,
         opts  |-> IF at >= Opts THEN r.opts ELSE files.opts]

Loaded(f) == [up |-> TRUE, main |-> f.main, hosts |-> f.hosts, opts |-> f.opts]

ServiceStep(act, f) ==
    CASE act \in {"start", "restart"} -> Loaded(f)
      [] act = "reload" -> [proc EXCEPT !.hosts = f.hosts, !.opts = f.opts]
      [] act = "stop" -> [proc EXCEPT !.up = FALSE]
      [] act = "none" -> proc

(* A unit whose status cannot be read counts as stopped: turning it off is *)
(* then nothing to do, and turning it on starts it, which a dnsmasq that   *)
(* runs after all refuses by holding the port.                             *)
ApplyChecked(d, ns, running, at) ==
    LET r == Render(d, ns)
        act == serviceAction(d.on, running, r # files, r.main = files.main)
        blocked == act = "start" /\ proc.up
    IN  /\ blocked => at < Unit
        /\ at < Unit \/ (running # proc.up) => faults < MaxFaults
        /\ faults' = IF at < Unit \/ running # proc.up THEN faults + 1 ELSE faults
        /\ doc' = IF at >= Store THEN d ELSE doc
        /\ files' = Written(d, ns, at)
        /\ proc' = IF at = Unit THEN ServiceStep(act, files') ELSE proc
        /\ boot' = IF at = Unit /\ running = proc.up THEN d.on ELSE boot
        /\ failed' = IF at = Unit /\ running = proc.up
                     THEN failed /\ act \notin {"start", "restart", "stop"}
                     ELSE failed \/ at >= Store

Edit == edits < MaxEdits /\ edits' = edits + 1

mutate(d, confirm) ==
    /\ Edit
    /\ Validate(d, nets)
    /\ \E running \in {proc.up, FALSE}, at \in 0..Unit :
        /\ ~(classify(d, running) = "disruptive" /\ ~confirm)
        /\ ApplyChecked(d, nets, running, at)
        /\ moved' = (moved /\ at < Unit)
    /\ asked' = confirm
    /\ UNCHANGED <<nets, leases>>

(***************************************************************************)
(* Requests.                                                               *)
(***************************************************************************)
Without(f, x) == [y \in DOMAIN f \ {x} |-> f[y]]

setEnabled == \E confirm \in BOOLEAN : mutate([doc EXCEPT !.on = ~@], confirm)
SetPool == \E n \in DOMAIN nets, r \in Ranges, g \in Gateways, confirm \in BOOLEAN :
    mutate([doc EXCEPT !.pools = (n :> [range |-> r, gw |-> g]) @@ @], confirm)
RemovePool == \E n \in DOMAIN doc.pools, confirm \in BOOLEAN :
    mutate([doc EXCEPT !.pools = Without(@, n)], confirm)
SetReservation == \E c \in Clients, a \in Fixed, confirm \in BOOLEAN :
    mutate([doc EXCEPT !.res = (c :> a) @@ @], confirm)
RemoveReservation == \E c \in DOMAIN doc.res, confirm \in BOOLEAN :
    mutate([doc EXCEPT !.res = Without(@, c)], confirm)
postApply == \E confirm \in BOOLEAN : mutate(doc, confirm)

(* Mutant of dhcpDependent: the server is left as it is.                   *)
LeftAlone(ns) ==
    /\ moved' = (moved \/ ~Validate(doc, ns))
    /\ UNCHANGED <<doc, files, proc, boot, failed, faults>>

(* The stored document is applied to the networks as they are now; a       *)
(* document they no longer fit is refused and only reported.               *)
dhcpDependent(ns) ==
    \/ /\ ~Validate(doc, ns)
       /\ moved' = TRUE
       /\ UNCHANGED <<doc, files, proc, boot, failed, faults>>
    \/ /\ Validate(doc, ns)
       /\ \E running \in {proc.up, FALSE}, at \in 0..Unit :
            /\ ApplyChecked(doc, ns, running, at)
            /\ moved' = (at < Unit)

LinkChange == \E ns \in NetChoices :
    /\ ns # nets
    /\ Edit
    /\ nets' = ns
    /\ dhcpDependent(ns)
    /\ asked' = TRUE
    /\ UNCHANGED leases

(***************************************************************************)
(* dnsmasq and its clients.  A range serves the network whose interface is *)
(* in its subnet; a host entry fixes its client's address and keeps        *)
(* everybody else off it.                                                  *)
(***************************************************************************)
Serves(p, ns, n) == p.up /\ n \in DOMAIN p.main /\ n \in DOMAIN ns /\ p.main[n].subnet = ns[n].subnet
Offers(p, ns, c, a) ==
    LET n == Where[c] IN
    /\ Serves(p, ns, n)
    /\ IF c \in DOMAIN p.hosts THEN p.hosts[c] = a /\ InSubnet(ns[n].subnet, a)
       ELSE /\ InRange(p.main[n].range, a)
            /\ \A e \in DOMAIN p.hosts : p.hosts[e] # a

Lease == \E c \in Clients, a \in UNION {Addresses(proc.main[n].range) : n \in DOMAIN proc.main} \cup Fixed :
    /\ Offers(proc, nets, c, a)
    /\ \A l \in leases : l[1] # c /\ l[2] # a
    /\ leases' = leases \cup {<<c, a>>} /\ asked' = TRUE
    /\ UNCHANGED <<nets, doc, files, proc, boot, moved, failed, edits, faults>>

Expire == \E l \in leases :
    /\ leases' = leases \ {l} /\ asked' = TRUE
    /\ UNCHANGED <<nets, doc, files, proc, boot, moved, failed, edits, faults>>

Reboot ==
    /\ faults < MaxFaults /\ faults' = faults + 1
    /\ proc' = IF boot THEN Loaded(files) ELSE [proc EXCEPT !.up = FALSE]
    /\ asked' = TRUE
    /\ UNCHANGED <<nets, doc, files, boot, leases, moved, failed, edits>>

NoFiles == [main |-> <<>>, hosts |-> <<>>, opts |-> <<>>]

Init ==
    /\ nets \in NetChoices
    /\ doc = [on |-> FALSE, pools |-> <<>>, res |-> <<>>]
    /\ files = NoFiles
    /\ proc = [up |-> FALSE, main |-> <<>>, hosts |-> <<>>, opts |-> <<>>]
    /\ boot = FALSE /\ leases = {} /\ moved = FALSE /\ failed = FALSE /\ asked = TRUE
    /\ edits = 0 /\ faults = 0

Next ==
    \/ setEnabled \/ SetPool \/ RemovePool
    \/ SetReservation \/ RemoveReservation \/ postApply
    \/ LinkChange
    \/ Lease \/ Expire \/ Reboot

Spec == Init /\ [][Next]_vars

(***************************************************************************)
(* Properties.                                                             *)
(***************************************************************************)
(* Once every request and every change of the networks went through, the   *)
(* server runs exactly when the document says so, and each pool hands out  *)
(* addresses of its own network only, none of them the router's, with a    *)
(* gateway the clients can reach and every reservation where it can be     *)
(* offered (validatePoolIPv4, validate.go:215; dhcpDependent,              *)
(* dependents.go:95).                                                      *)
Served ==
    ~moved /\ ~failed =>
        /\ proc.up = doc.on
        /\ doc.on =>
            /\ DOMAIN proc.main = DOMAIN doc.pools /\ proc.hosts = doc.res
            /\ \A n \in DOMAIN proc.main :
                /\ Serves(proc, nets, n)
                /\ Addresses(proc.main[n].range) # {}
                /\ Addresses(proc.main[n].range)
                     \subseteq Addresses(HostRange(nets[n].subnet)) \ {nets[n].router}
                /\ n \in DOMAIN proc.opts => InSubnet(nets[n].subnet, proc.opts[n])
            /\ \A c \in DOMAIN proc.hosts : \E n \in DOMAIN proc.main :
                InSubnet(proc.main[n].subnet, proc.hosts[c])

(* A request nobody confirmed leaves every client that could renew its     *)
(* lease able to renew it (Dropped, plan.go:380).                          *)
KeepsRenewing ==
    ~asked' => \A l \in leases : Offers(proc, nets, l[1], l[2]) => Offers(proc', nets', l[1], l[2])

=============================================================================
