---------------------------- MODULE MCPolicies ------------------------------
(***************************************************************************)
(* The networks, who of them goes which way and who is answered by whom,   *)
(* checked in one run: the addresses of the interfaces, the gateway's      *)
(* rules for packets and the relay's for DNS queries, under every edit.    *)
(* Each behaviour is one component's, and `which` says whose: in the       *)
(* behaviours of the others the networks, which this module extends, rest  *)
(* in an initial state.                                                    *)
(***************************************************************************)
EXTENDS Link, Sequences, TLC

VARIABLES
    which,  \* the component this behaviour is of
    config, health, tunUp, tunSeen, conn, files, relay, resolver, boot,
    refreshes, behind, failed, otherDoc, otherAsked, otherEdits, otherFaults

all == <<which, vars,
    config, health, tunUp, tunSeen, conn, files, relay, resolver, boot,
    refreshes, behind, failed, otherDoc, otherAsked, otherEdits, otherFaults>>

(* link: blocks of IPv4 addresses and IPv6 numbering, delegated prefixes *)
LinkBlocks == { [v4 |-> <<4, "a", 1>>, v6 |-> <<"none">>],
                [v4 |-> <<4, "a", 2>>, v6 |-> <<"static", 1>>],
                [v4 |-> <<4, "b", 1>>, v6 |-> <<"delegated", 0>>] }
LinkPrefixes == {<<"p", 1>>, <<"q", 2>>}

(* gateway: two served networks, an uplink that can be an exit's interface *)
(* or hold its next hop, and the SOCKS5 TUN                                *)
GwNetworks == {"lan0", "lan1", "wan2"}
Narrow == [id |-> "narrow", fam |-> 4, bits |-> 24]
Wide == [id |-> "wide", fam |-> 4, bits |-> 8]
GwAddresses == {"near", "far", "other", "lan", "self"}
GwWithin == [a \in GwAddresses |->
    CASE a = "near" -> {Narrow, Wide} [] a = "far" -> {Wide} [] OTHER -> {}]
GwLinks ==
    [l \in GwNetworks \cup {"socks"} |->
        [known |-> TRUE, up |-> TRUE, adopted |-> l # "socks",
         fams |-> CASE l = "lan0" -> {4, 6} [] l = "socks" -> {} [] OTHER -> {4}]]

Blank(kind, on, fam) ==
    [via |-> [kind |-> kind, on |-> on, fam |-> fam, dev |-> "-"],
     ipv6 |-> "unset", fail |-> "unset", snat |-> "unset", probe |-> TRUE, dns |-> "none"]
ByTun == Blank("interface", "socks", 0)
ByNextHop == [Blank("next_hop", "wan2", 4) EXCEPT !.ipv6 = "direct", !.fail = "direct"]
Blocked == Blank("blocked", "-", 0)
GwBodies ==
    {Blank("interface", "wan2", 0), ByTun, [ByTun EXCEPT !.fail = "direct"],
     ByNextHop, [Blocked EXCEPT !.dns = "custom"], Blocked}

(* The factory document, and documents of two exits in slots 2 and 1: one  *)
(* serves the LAN, a device is direct and each destination rule uses one.  *)
GwStored ==
    {[enabled |-> TRUE, exits |-> <<>>, default |-> 0, nets |-> <<>>, devs |-> <<>>, dests |-> <<>>]}
    \cup
    {[enabled |-> TRUE, default |-> 0,
      exits |-> <<[name |-> 1, slot |-> 2] @@ b[1], [name |-> 2, slot |-> 1] @@ b[2]>>,
      nets |-> "lan0" :> 1, devs |-> "m1" :> 0, dests |-> Narrow :> 2 @@ Wide :> 1] :
        b \in {<<ByTun, Blocked>>, <<ByNextHop, ByTun>>}}

Flow(src, fam, mac, dst) == [src |-> src, fam |-> fam, mac |-> mac, dst |-> dst, dnat |-> FALSE]
GwFlows ==
    {Flow("lan0", 4, "m1", "near"), Flow("lan0", 6, "m1", "other"), Flow("lan1", 4, "m2", "far"),
     Flow("lan0", 4, "m2", "lan"), [Flow("lan0", 4, "m1", "near") EXCEPT !.dnat = TRUE]}

(* dns: names under a blocked suffix, a local name, overlapping policies *)
DnsSuffixes == [x \in {"ads.site", "site", "nas.home"} |->
                  IF x = "ads.site" THEN {"ads.site", "site"} ELSE {x}]
Policy(cs, b, a) == [clients |-> cs, block |-> b, allow |-> a]
OfSubnet(s) == [bits |-> 24, of |-> s]
OfHost(c) == [bits |-> 32, of |-> c]
DnsPolicies ==
    { [kids |-> Policy({OfSubnet("s1")}, {"site"}, {"ads.site"}),
       mine |-> Policy({OfHost("phone")}, {"ads.site"}, {})],
      [all |-> Policy({}, {"site"}, {}), mine |-> Policy({OfHost("phone")}, {}, {})],
      [all |-> Policy({}, {"site"}, {}), two |-> Policy({}, {}, {})] }

(* The components and their instances. *)
TheGateway == INSTANCE GatewayEdits WITH
    MaxSlot <- 2, Networks <- GwNetworks, Tun <- "socks",
    DestPrefixes <- {Narrow, Wide}, Addresses <- GwAddresses,
    Within <- GwWithin, Names <- {1, 2}, Bodies <- GwBodies,
    Devices <- {"m1"}, Links <- GwLinks, Stored <- GwStored,
    Flows <- GwFlows, MaxEdits <- 2, edits <- otherEdits
TheDns == INSTANCE Dns WITH
    Where <- [phone |-> "lan", console |-> "lan"],
    NetChoices <- {[lan |-> "s1"], [lan |-> "s2"]}, Suffixes <- DnsSuffixes,
    Local <- {"nas.home"}, Policies <- DnsPolicies, Exits <- {"x", "y"},
    MaxInFlight <- 1, MaxEdits <- 3, MaxFaults <- 1,
    doc <- otherDoc, asked <- otherAsked, edits <- otherEdits, faults <- otherFaults

(* The variables of the other components stay at NA. *)
NA == 0

TheLinkInit ==
    /\ which = "link" /\ Init
    /\ config = NA /\ health = NA /\ tunUp = NA /\ tunSeen = NA
    /\ conn = NA /\ files = NA /\ relay = NA /\ resolver = NA /\ boot = NA
    /\ refreshes = NA /\ behind = NA /\ failed = NA /\ otherDoc = NA
    /\ otherAsked = NA /\ otherEdits = NA /\ otherFaults = NA
TheLinkRest ==
    UNCHANGED <<which,
        config, health, tunUp, tunSeen, conn, files, relay, resolver, boot,
        refreshes, behind, failed, otherDoc, otherAsked, otherEdits,
        otherFaults>>
TheLinkNext ==
    which = "link" /\ Next /\ TheLinkRest

TheGatewayInit ==
    /\ which = "gateway" /\ TheGateway!Init /\ Init /\ doc.adopted = {}
    /\ files = NA /\ relay = NA /\ resolver = NA /\ boot = NA
    /\ refreshes = NA /\ behind = NA /\ failed = NA /\ otherDoc = NA
    /\ otherAsked = NA /\ otherFaults = NA
TheGatewayRest ==
    UNCHANGED <<which, vars,
        files, relay, resolver, boot, refreshes, behind, failed, otherDoc,
        otherAsked, otherFaults>>
TheGatewayNext ==
    which = "gateway" /\ TheGateway!Next /\ TheGatewayRest

TheDnsInit ==
    /\ which = "dns" /\ TheDns!Init /\ Init /\ doc.adopted = {}
    /\ config = NA /\ health = NA /\ tunUp = NA /\ tunSeen = NA
    /\ conn = NA
TheDnsRest ==
    UNCHANGED <<which, vars,
        config, health, tunUp, tunSeen, conn>>
TheDnsNext ==
    which = "dns" /\ TheDns!Next /\ TheDnsRest

PoliciesInit ==
    \/ TheLinkInit \/ TheGatewayInit \/ TheDnsInit
PoliciesNext ==
    \/ TheLinkNext \/ TheGatewayNext \/ TheDnsNext

PoliciesSpec == PoliciesInit /\ [][PoliciesNext]_all

(***************************************************************************)
(* Properties.                                                             *)
(***************************************************************************)
(* Gateway: the rendered rules, tables and routes send the first packet of *)
(* every flow where the configuration says, and what is assigned to the    *)
(* SOCKS5 TUN never leaves another way while the TUN is gone (render.go,   *)
(* kernel_linux.go).                                                       *)
SteersAsIntended == which = "gateway" => TheGateway!SteersAsIntended

(* Gateway: an open connection stays with its exit through every edit that *)
(* keeps that exit in use, renaming it and adding, changing or removing    *)
(* others included (resources.go:166).                                     *)
PinnedConnection == [][which = "gateway" => TheGateway!KeepsExit]_all

(* Dns: once every change went through, a query is blocked exactly when    *)
(* the stored policies block it and is otherwise asked of the resolver of  *)
(* the client's own exit; a client that cannot be identified is refused    *)
(* only where the answer depends on who it is (relay.go:192,               *)
(* routes.go:115).                                                         *)
Resolves == which = "dns" => TheDns!Resolves
=============================================================================
