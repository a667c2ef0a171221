---------------------------- MODULE MCServices ------------------------------
(***************************************************************************)
(* The modules that turn a section of the document into files, units and   *)
(* kernel state, checked in one run: each behaviour is one component's,    *)
(* and `which` says whose: in the behaviours of the others the uplink,     *)
(* which this module extends, rests in its initial state.                  *)
(***************************************************************************)
EXTENDS Uplink

VARIABLES
    which,  \* the component this behaviour is of
    devs, files, proc, boot, agreed, clean, behind, asked, nets, leases,
    moved, failed, devices, pending, flight, now, decisions, calls, file,
    unit, loaded, settled, links, opened, followed, moves, otherDoc,
    otherEdits, otherFaults

all == <<which, vars,
    devs, files, proc, boot, agreed, clean, behind, asked, nets, leases,
    moved, failed, devices, pending, flight, now, decisions, calls, file,
    unit, loaded, settled, links, opened, followed, moves, otherDoc,
    otherEdits, otherFaults>>

(* uplink *)
UplinkStatics == {<<1, 1>>, <<2, 1>>}

(* dhcp: networks whose router or subnet moves, and a second network *)
Lan(first, router) == [subnet |-> <<first, 8>>, router |-> router]
DhcpNets ==
    { [lan |-> Lan(8, 9)], [lan |-> Lan(8, 12)], [lan |-> Lan(16, 17)],
      [lan |-> Lan(8, 9), iot |-> Lan(16, 22)] }
DhcpRanges == {<<>>, <<11, 12>>}

(* The components and their instances. *)
TheIngress == INSTANCE Ingress WITH
    Names <- {"a", "b"}, Domains <- {"x", "y"}, Devices <- {"d", "e"},
    Tokens <- {"t", "u"}, MaxEdits <- 3, MaxFaults <- 2,
    doc <- otherDoc, edits <- otherEdits, faults <- otherFaults
TheDhcp == INSTANCE Dhcp WITH
    Where <- [c |-> "lan", d |-> "lan"], NetChoices <- DhcpNets,
    Ranges <- DhcpRanges, Gateways <- {0, 10}, Fixed <- {10, 13, 18},
    StaticReserve <- 4, MinSuggested <- 2, MaxSuggested <- 3, MaxEdits <- 3,
    MaxFaults <- 1,
    doc <- otherDoc, edits <- otherEdits, faults <- otherFaults
TheEquipment == INSTANCE Equipment WITH
    Ids <- {"a", "b"}, LaneOf <- [a |-> 1, b |-> 2], Records <- {"x", "m"},
    Operators <- {"x"}, Ops <- {"o", "p"}, Tokens <- {"t", "u"},
    Requests <- {"r"}, Window <- 0, MaxPending <- 1, MaxTime <- 1,
    MaxEdits <- 1, MaxFaults <- 1,
    edits <- otherEdits, faults <- otherFaults
TheSocksOut == INSTANCE SocksOut WITH
    Proxies <- {1, 2}, Reapplies <- {"r"}, MaxEdits <- 3, MaxFaults <- 2,
    doc <- otherDoc, edits <- otherEdits, faults <- otherFaults
TheIptv == INSTANCE Iptv WITH
    Ifaces <- {"e0", "e1", "e2"}, Networks <- {"lan"}, None <- "none",
    Reapplies <- {"r"}, MaxEdits <- 2, MaxMoves <- 1, MaxFaults <- 1,
    doc <- otherDoc, edits <- otherEdits, faults <- otherFaults

(* The variables of the other components stay at NA. *)
NA == 0

TheUplinkInit ==
    /\ which = "uplink" /\ Init
    /\ devs = NA /\ files = NA /\ proc = NA /\ boot = NA /\ agreed = NA
    /\ clean = NA /\ behind = NA /\ asked = NA /\ nets = NA /\ leases = NA
    /\ moved = NA /\ failed = NA /\ devices = NA /\ pending = NA
    /\ flight = NA /\ now = NA /\ decisions = NA /\ calls = NA /\ file = NA
    /\ unit = NA /\ loaded = NA /\ settled = NA /\ links = NA /\ opened = NA
    /\ followed = NA /\ moves = NA /\ otherDoc = NA /\ otherEdits = NA
    /\ otherFaults = NA
TheUplinkRest ==
    UNCHANGED <<which,
        devs, files, proc, boot, agreed, clean, behind, asked, nets, leases,
        moved, failed, devices, pending, flight, now, decisions, calls, file,
        unit, loaded, settled, links, opened, followed, moves, otherDoc,
        otherEdits, otherFaults>>
TheUplinkNext ==
    which = "uplink" /\ Next /\ TheUplinkRest

TheIngressInit ==
    /\ which = "ingress" /\ TheIngress!Init /\ Init /\ kern = Bare0
    /\ asked = NA /\ nets = NA /\ leases = NA /\ moved = NA /\ failed = NA
    /\ devices = NA /\ pending = NA /\ flight = NA /\ now = NA
    /\ decisions = NA /\ calls = NA /\ file = NA /\ unit = NA /\ loaded = NA
    /\ settled = NA /\ links = NA /\ opened = NA /\ followed = NA
    /\ moves = NA
TheIngressRest ==
    UNCHANGED <<which, vars,
        asked, nets, leases, moved, failed, devices, pending, flight, now,
        decisions, calls, file, unit, loaded, settled, links, opened,
        followed, moves>>
TheIngressNext ==
    which = "ingress" /\ TheIngress!Next /\ TheIngressRest

TheDhcpInit ==
    /\ which = "dhcp" /\ TheDhcp!Init /\ Init /\ kern = Bare0
    /\ devs = NA /\ agreed = NA /\ clean = NA /\ behind = NA /\ devices = NA
    /\ pending = NA /\ flight = NA /\ now = NA /\ decisions = NA
    /\ calls = NA /\ file = NA /\ unit = NA /\ loaded = NA /\ settled = NA
    /\ links = NA /\ opened = NA /\ followed = NA /\ moves = NA
TheDhcpRest ==
    UNCHANGED <<which, vars,
        devs, agreed, clean, behind, devices, pending, flight, now,
        decisions, calls, file, unit, loaded, settled, links, opened,
        followed, moves>>
TheDhcpNext ==
    which = "dhcp" /\ TheDhcp!Next /\ TheDhcpRest

TheEquipmentInit ==
    /\ which = "equipment" /\ TheEquipment!Init /\ Init /\ kern = Bare0
    /\ devs = NA /\ files = NA /\ proc = NA /\ boot = NA /\ agreed = NA
    /\ clean = NA /\ behind = NA /\ asked = NA /\ nets = NA /\ leases = NA
    /\ moved = NA /\ failed = NA /\ file = NA /\ unit = NA /\ loaded = NA
    /\ settled = NA /\ links = NA /\ opened = NA /\ followed = NA
    /\ moves = NA /\ otherDoc = NA
TheEquipmentRest ==
    UNCHANGED <<which, vars,
        devs, files, proc, boot, agreed, clean, behind, asked, nets, leases,
        moved, failed, file, unit, loaded, settled, links, opened, followed,
        moves, otherDoc>>
TheEquipmentNext ==
    which = "equipment" /\ TheEquipment!Next /\ TheEquipmentRest

TheSocksOutInit ==
    /\ which = "socksout" /\ TheSocksOut!Init /\ Init /\ kern = Bare0
    /\ devs = NA /\ files = NA /\ proc = NA /\ boot = NA /\ agreed = NA
    /\ clean = NA /\ asked = NA /\ nets = NA /\ leases = NA /\ moved = NA
    /\ failed = NA /\ devices = NA /\ pending = NA /\ flight = NA /\ now = NA
    /\ decisions = NA /\ calls = NA /\ links = NA /\ opened = NA
    /\ followed = NA /\ moves = NA
TheSocksOutRest ==
    UNCHANGED <<which, vars,
        devs, files, proc, boot, agreed, clean, asked, nets, leases, moved,
        failed, devices, pending, flight, now, decisions, calls, links,
        opened, followed, moves>>
TheSocksOutNext ==
    which = "socksout" /\ TheSocksOut!Next /\ TheSocksOutRest

TheIptvInit ==
    /\ which = "iptv" /\ TheIptv!Init /\ Init /\ kern = Bare0
    /\ devs = NA /\ files = NA /\ proc = NA /\ boot = NA /\ agreed = NA
    /\ clean = NA /\ asked = NA /\ nets = NA /\ leases = NA /\ moved = NA
    /\ failed = NA /\ devices = NA /\ pending = NA /\ flight = NA /\ now = NA
    /\ decisions = NA /\ calls = NA
TheIptvRest ==
    UNCHANGED <<which, vars,
        devs, files, proc, boot, agreed, clean, asked, nets, leases, moved,
        failed, devices, pending, flight, now, decisions, calls>>
TheIptvNext ==
    which = "iptv" /\ TheIptv!Next /\ TheIptvRest

ServicesInit ==
    \/ TheUplinkInit \/ TheIngressInit \/ TheDhcpInit
    \/ TheEquipmentInit \/ TheSocksOutInit \/ TheIptvInit
ServicesNext ==
    \/ TheUplinkNext \/ TheIngressNext \/ TheDhcpNext
    \/ TheEquipmentNext \/ TheSocksOutNext \/ TheIptvNext

ServicesSpec == ServicesInit /\ [][ServicesNext]_all

(***************************************************************************)
(* Properties.                                                             *)
(***************************************************************************)
(* Ingress: a request that reports success leaves the proxy running the    *)
(* stored document with the credential and addresses of that moment,       *)
(* unless an earlier one failed between the file and the proxy             *)
(* (plan.go:338).                                                          *)
(* Dhcp: once every request and every change of the networks went through, *)
(* the server runs as the document says and each pool hands out addresses  *)
(* of its own network, none of them the router's, with a gateway clients   *)
(* can reach and every reservation offered (dhcpDependent,                 *)
(* dependents.go:95).                                                      *)
(* SocksOut and Iptv: a change that succeeds leaves the process running    *)
(* what is stored, and for IPTV no interface to igmpproxy's default,       *)
(* unless an earlier one failed between the file and the process; the      *)
(* firewall lets the stream of the stored document through, though the     *)
(* change failed (socksout/apply.go:141, iptv/http.go:64).                 *)
Served ==
    /\ which = "ingress" => TheIngress!Published
    /\ which = "dhcp" => TheDhcp!Served
    /\ which = "socksout" => TheSocksOut!Connected
    /\ which = "iptv" => TheIptv!Streaming

(* What the apply gate is for: a request nobody confirmed takes no         *)
(* published name away (classify, ingress/plan.go:363) and leaves every    *)
(* client able to renew the lease it could renew (Dropped,                 *)
(* dhcp/plan.go:380), whatever drift or half-applied change was there.     *)
(* And no wireless client of an access point is disconnected but by a      *)
(* decision about that device as it is configured and that operation, made *)
(* in time and never used before (network/service.go:162).                 *)
NothingTakenUnconfirmed ==
    [][/\ which = "ingress" => TheIngress!LosesAgreed
       /\ which = "dhcp" => TheDhcp!KeepsRenewing
       /\ which = "equipment" => TheEquipment!CallsAsDecided]_all
=============================================================================
