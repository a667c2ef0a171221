----------------------------- MODULE DataPlane -----------------------------
(***************************************************************************)
(* The two nftables tables that decide what crosses the router, olr_nat    *)
(* and olr_filter, and everything that keeps them in step with the         *)
(* configuration: the modules whose edits change what they are computed    *)
(* from, the dependents an edit re-applies before it releases the apply    *)
(* lock (daemon/dependents.go), the event stream (core/events.go) and the  *)
(* firewall's follower (daemon/firewall.go), and the daemon's start.       *)
(*                                                                         *)
(* A handler runs under the apply lock, so it is one step.  The kernel     *)
(* keeps its tables over a crash of the daemon and loses them when the     *)
(* router reboots.                                                         *)
(***************************************************************************)
EXTENDS Integers, Sequences, FiniteSets, TLC

LOCAL INSTANCE SequencesExt

CONSTANTS
    Wires,         \* interface -> [nets, own]: its IPv4 prefix and addresses when up
    Lans,          \* interfaces a network may be made of
    Wans,          \* interfaces that face the internet
    Tunnel,        \* the WireGuard interface
    TunnelPrefix,  \* the addresses of its peers
    Broker,        \* the 6in4 tunnel server
    Forwards,      \* forwards an operator may write
    IPTVs,         \* IPTV documents: [enabled, up, nets]
    Packets,       \* packets that may arrive: [iif, src, dst, proto, port]
    NatMaxSlot,    \* resources.go:48, 256 in the daemon
    EventBuffer,   \* events.go:49, 16 in the daemon
    MaxEdits,      \* bound: edits in one behaviour
    MaxFaults      \* bound: failed applies, timeouts, restarts

NoIface == "-"

ASSUME IPTVsAssumption == \A d \in IPTVs : d.nets \in Seq(Lans)
(* A network has an IPv4 prefix; the uplinks, the networks and the tunnel  *)
(* are different interfaces, and NoIface is none of them.                  *)
ASSUME InterfacesAssumption ==
    /\ Lans \subseteq DOMAIN Wires /\ \A l \in Lans : Wires[l].nets # {}
    /\ Lans \cap Wans = {}
    /\ Tunnel \notin Lans \cup Wans \cup DOMAIN Wires
    /\ NoIface \notin Lans \cup Wans \cup {Tunnel}

(***************************************************************************)
(* The two nftables tables of olr as pure operators.                       *)
(*                                                                         *)
(* olr_nat, which internal/gateway/nat decides: port forwards and their    *)
(* validation, the rules they render to, the masquerades beside them and   *)
(* what the rendered table does to one packet.  A prefix is the set of     *)
(* addresses it contains, a port range a pair, a forward's name its rank   *)
(* in the sort order.  links: interface -> [adopted, nets, v6, own], with  *)
(* nets the IPv4 prefixes on it, v6 whether it also has an IPv6 one and    *)
(* own the router's addresses on it.  A rule is a record and a chain a set *)
(* of rules; where two rules of one chain match a packet the text of the   *)
(* rule decides, so either may win.                                        *)
(*                                                                         *)
(* olr_filter, which internal/firewall renders, and what its chains do to  *)
(* a packet [iif, oif, src, proto, port, ct, dnat]: oif is NoIface on the  *)
(* way to the router itself, ct is the connection state and dnat whether   *)
(* NAT chose the destination.                                              *)
(***************************************************************************)
Each(proto) == IF proto = "both" THEN {"tcp", "udp"} ELSE {IF proto = "" THEN "tcp" ELSE proto}
IsPort(n) == n \in Nat /\ n # 0 /\ n < 2^16    \* a uint16 that is not the wildcard
ValidRange(r) == IsPort(r[1]) /\ IsPort(r[2]) /\ r[1] <= r[2]
Single(r) == r[1] = r[2]
Overlaps(r, s) == r[1] <= s[2] /\ s[1] <= r[2]
InsidePorts(f) == IF Single(f.port) THEN <<f.dport, f.dport>> ELSE f.port
HairpinOrDefault(f) == f.hairpin # "off"

Adopted(links) == {l \in DOMAIN links : links[l].adopted}
IsLocalAddress(links, a) == \E l \in DOMAIN links : a \in links[l].own
PrefixesContaining(links, a) ==
    {p \in UNION {links[l].nets : l \in Adopted(links)} : a \in p}
InsideInterfaces(links, outward) ==
    {l \in Adopted(links) \ {outward} : links[l].nets # {} \/ links[l].v6}
DialInInterfaces(links, tunnel, uplink) ==
    {l \in Adopted(links) \ {tunnel, uplink} : links[l].nets # {}}
OverlapsServed(links, prefix, tunnel, uplink) ==
    \E l \in Adopted(links) \ {tunnel, uplink} : \E p \in links[l].nets : p \cap prefix # {}

(***************************************************************************)
(* The document and its edits.                                             *)
(***************************************************************************)
(* A slot that is valid and not taken by an earlier forward stays; the     *)
(* others take the lowest free ones in order, while there are any.         *)
allocateForwardSlots(fs) ==
    LET kept == [i \in DOMAIN fs |->
                    IF fs[i].slot \in 1..NatMaxSlot /\ \A j \in 1..(i-1) : fs[j].slot # fs[i].slot
                    THEN fs[i].slot ELSE 0]
        free == SetToSortSeq((1..NatMaxSlot) \ {kept[i] : i \in DOMAIN fs}, LAMBDA a, b : a < b)
        rank(i) == Cardinality({j \in 1..i : kept[j] = 0})
    IN  [i \in DOMAIN fs |->
            [fs[i] EXCEPT !.slot = IF kept[i] # 0 THEN kept[i]
                                   ELSE IF rank(i) <= Len(free) THEN free[rank(i)] ELSE 0]]

NormalizeForwards(fs) == allocateForwardSlots(SortSeq(fs, LAMBDA a, b : a.name < b.name))

FindForward(fs, name) == {i \in DOMAIN fs : fs[i].name = name}
RemoveForward(fs, name) == SelectSeq(fs, LAMBDA f : f.name # name)
UpsertForward(fs, f) ==
    NormalizeForwards(
        IF FindForward(fs, f.name) = {} THEN Append(fs, f)
        ELSE [i \in DOMAIN fs |->
                IF fs[i].name # f.name THEN fs[i]
                ELSE [f EXCEPT !.slot = IF @ = 0 THEN fs[i].slot ELSE @]])
RenameForward(fs, from, to) ==
    LET i == CHOOSE k \in FindForward(fs, from) : TRUE
    IN  NormalizeForwards(Append(RemoveForward(fs, from), [fs[i] EXCEPT !.name = to]))

(***************************************************************************)
(* Validation.                                                             *)
(***************************************************************************)
validateName(fs) == \A i, j \in DOMAIN fs : i # j => fs[i].name # fs[j].name
validateSlot(fs) ==
    /\ \A i \in DOMAIN fs : fs[i].slot \in 1..NatMaxSlot
    /\ \A i, j \in DOMAIN fs : i # j => fs[i].slot # fs[j].slot
validateIn(f, links) == f.in \in Adopted(links)
validatePorts(f) ==
    ValidRange(f.port) /\ IsPort(f.dport) /\ (Single(f.port) \/ f.dport = f.port[1])
validateTo(f, links) == f.to # NoIface /\ ~IsLocalAddress(links, f.to)

(* Mutant of validateOverlaps: protocols compared by name, so "both" and   *)
(* "tcp" never clash.                                                      *)
ByProtocolName(fs) ==
    \A i, j \in DOMAIN fs : i # j =>
        ~(fs[i].in = fs[j].in /\ fs[i].proto = fs[j].proto /\ Overlaps(fs[i].port, fs[j].port))

validateOverlaps(fs) ==
    \A i, j \in DOMAIN fs : i # j =>
        ~(/\ fs[i].in = fs[j].in
          /\ Each(fs[i].proto) \cap Each(fs[j].proto) # {}
          /\ Overlaps(fs[i].port, fs[j].port))

ValidForwards(fs, links) ==
    /\ validateName(fs) /\ validateSlot(fs) /\ validateOverlaps(fs)
    /\ \A i \in DOMAIN fs : validateIn(fs[i], links) /\ validatePorts(fs[i]) /\ validateTo(fs[i], links)

(***************************************************************************)
(* Config.NAT: the gateway section, the uplink dial holds, the prefixes of *)
(* the networks link serves and the WireGuard tunnel put together.         *)
(***************************************************************************)
ConfigNAT(gw, uplink, networks, dialIn) ==
    [enabled  |-> gw.enabled,
     forwards |-> gw.forwards,
     dialIn   |-> IF dialIn.prefix = {} THEN {}
                 ELSE {[prefix |-> dialIn.prefix, tunnel |-> dialIn.tunnel, uplink |-> uplink]},
     egress   |-> IF gw.snat /\ uplink # NoIface /\ networks # {}
                  THEN {[out |-> uplink,
                         sources |-> networks \cup
                            (IF dialIn.prefix = {} \/ \E n \in networks : n \cap dialIn.prefix # {}
                             THEN {} ELSE {dialIn.prefix})]}
                  ELSE {}]

ProgramsNothing(c) == c.forwards = <<>> /\ c.egress = {} /\ c.dialIn = {}

(***************************************************************************)
(* Render.                                                                 *)
(***************************************************************************)
NoNat == [enabled |-> FALSE, dnat |-> {}, hairpin |-> {}, masq |-> {}, dialIn |-> {}, egress |-> {}]

PerProtocol(fs, R(_, _)) ==
    UNION {UNION {R(fs[i], pr) : pr \in Each(fs[i].proto)} : i \in DOMAIN fs}

dnatRules(f, pr) ==
    {[for |-> f.name, in |-> f.in, proto |-> pr, port |-> f.port,
      to |-> f.to, ports |-> InsidePorts(f), counter |-> f.slot]}
hairpinRules(f, pr, links) ==
    IF ~HairpinOrDefault(f) THEN {}
    ELSE {[for |-> f.name, in |-> l, proto |-> pr, port |-> f.port,
           to |-> f.to, ports |-> InsidePorts(f), counter |-> 0] : l \in InsideInterfaces(links, f.in)}
masqRules(f, pr, links) ==
    IF ~HairpinOrDefault(f) THEN {}
    ELSE {[prefix |-> p, to |-> f.to, ports |-> InsidePorts(f), proto |-> pr] :
              p \in PrefixesContaining(links, f.to)}

RenderNat(c, links) ==
    IF ~c.enabled THEN NoNat
    ELSE [enabled |-> TRUE,
          dnat    |-> PerProtocol(c.forwards, dnatRules),
          hairpin |-> PerProtocol(c.forwards, LAMBDA f, pr : hairpinRules(f, pr, links)),
          masq    |-> PerProtocol(c.forwards, LAMBDA f, pr : masqRules(f, pr, links)),
          dialIn  |-> UNION {IF OverlapsServed(links, d.prefix, d.tunnel, d.uplink) THEN {}
                             ELSE {[prefix |-> d.prefix, out |-> l] :
                                       l \in DialInInterfaces(links, d.tunnel, d.uplink)} :
                                d \in c.dialIn},
          egress  |-> c.egress]

(***************************************************************************)
(* BuildPlan and classify.  used: the counters of the running table that   *)
(* have counted a packet; a rebuilt table starts every counter at zero.    *)
(***************************************************************************)
removedForwards(have, want) ==
    {r.for : r \in (have.dnat \ want.dnat) \cup (have.hairpin \ want.hairpin)}
everUsed(have, names, used) ==
    {n \in names : \E r \in have.dnat : r.for = n /\ r.counter \in used}
classifyNat(have, want, used) ==
    IF have = want THEN "none"
    ELSE IF everUsed(have, removedForwards(have, want), used) # {} THEN "disruptive" ELSE "reload"

(***************************************************************************)
(* One new connection through the table.  p: [iif, src, dst, proto, port]. *)
(***************************************************************************)
dnatExprs(r, p, links) ==
    /\ p.iif = r.in
    /\ IsLocalAddress(links, p.dst)
    /\ p.proto = r.proto
    /\ p.port \in r.port[1]..r.port[2]

masqExprs(r, src, dst, proto, port) ==
    src \in r.prefix /\ dst = r.to /\ proto = r.proto /\ port \in r.ports[1]..r.ports[2]
dialInExprs(r, src, oif) == src \in r.prefix /\ oif = r.out
egressExprs(r, src, oif) == oif = r.out /\ \E s \in r.sources : src \in s

(* The rules that may translate p: those of the forwards first.            *)
Translations(k, p, links) ==
    LET by(R) == {r \in R : dnatExprs(r, p, links)}
    IN  IF by(k.dnat) # {} THEN by(k.dnat) ELSE by(k.hairpin)
ToPort(r, port) == IF Single(r.ports) THEN r.ports[1] ELSE port

Masqueraded(k, src, dst, proto, port, oif) ==
    \/ \E r \in k.masq : masqExprs(r, src, dst, proto, port)
    \/ \E r \in k.dialIn : dialInExprs(r, src, oif)
    \/ \E r \in k.egress : egressExprs(r, src, oif)

-----------------------------------------------------------------------------
(* The filter.                                                             *)

NoFilter == [enabled |-> FALSE, native |-> FALSE, inside |-> {}, input |-> <<>>, forward |-> <<>>]
NativeFilter == [NoFilter EXCEPT !.enabled = TRUE, !.native = TRUE]

Rule(kind, arg) == [kind |-> kind, arg |-> arg, sources |-> {"outside", "inside", "local"}]

(* Every rule is written once per class of source it can match, so that    *)
(* each class has a counter of its own.                                    *)
splitSources(rules, inside) ==
    LET class(iface) == IF iface = "lo" THEN "local"
                        ELSE IF iface \in inside THEN "inside" ELSE "outside"
        of(r) == CASE r.kind = "from_inside" ->
                          {"inside"} \cup (IF "lo" \in inside THEN {"local"} ELSE {})
                   [] r.kind = "loopback" -> {"local"}
                   [] r.kind = "iptv_igmp" -> {class(r.arg)}
                   [] r.kind = "iptv_stream" -> {class(r.arg.up)}
                   [] OTHER -> r.sources
    IN  [i \in DOMAIN rules |-> [rules[i] EXCEPT !.sources = of(rules[i])]]

One(kind) == <<Rule(kind, "-")>>
EachOf(kind, s) == [i \in DOMAIN s |-> Rule(kind, s[i])]

(* The two chains up to the rule that drops what is left.  openings is     *)
(* sorted, and IPTV is off when it has no upstream.                        *)
inputRules(openings, iptv) ==
    LET igmp == IF iptv.up = "-" THEN <<>> ELSE Append(iptv.down, iptv.up)
    IN  One("established") \o One("loopback") \o One("from_inside") \o One("icmp")
        \o One("icmpv6") \o One("dhcp") \o EachOf("iptv_igmp", igmp)
        \o EachOf("opening", openings)

forwardRules(iptv) ==
    LET streams == IF iptv.up = "-" THEN <<>>
                   ELSE [i \in DOMAIN iptv.down |-> [up |-> iptv.up, down |-> iptv.down[i]]]
    IN  One("established") \o One("from_inside") \o One("to_not_inside")
        \o One("port_forward") \o One("icmpv6") \o EachOf("iptv_stream", streams)

RenderIPTV(c, inside, openings, iptv) ==
    IF ~c.enabled THEN NoFilter
    ELSE [enabled |-> TRUE, native |-> FALSE, inside |-> inside,
          input   |-> splitSources(inputRules(openings, iptv) \o One("drop"), inside),
          forward |-> splitSources(forwardRules(iptv) \o One("drop"), inside)]

sourceExprs(d, p) == IF p.iif = "lo" THEN "local"
                     ELSE IF p.iif \in d.inside THEN "inside" ELSE "outside"

baseRuleExprs(d, r, p) ==
    CASE r.kind = "established"   -> p.ct = "established"
      [] r.kind = "loopback"      -> p.iif = "lo"
      [] r.kind = "from_inside"   -> p.iif \in d.inside
      [] r.kind = "to_not_inside" -> p.oif \notin d.inside
      [] r.kind = "icmp"          -> p.proto = "icmp"
      [] r.kind = "icmpv6"        -> p.proto = "icmpv6"
      [] r.kind = "dhcp"          -> p.proto = "dhcp"
      [] r.kind = "opening"       -> r.arg.proto = p.proto
                                     /\ (IF p.proto = "6in4" THEN r.arg.from = p.src ELSE r.arg.port = p.port)
      [] r.kind = "port_forward"  -> p.dnat
      [] r.kind = "iptv_igmp"     -> p.proto = "igmp" /\ p.iif = r.arg
      [] r.kind = "iptv_stream"   -> p.proto = "multicast" /\ p.iif = r.arg.up /\ p.oif = r.arg.down
      [] r.kind = "drop"          -> TRUE

(* A packet is dropped when the first rule that matches it says so; a      *)
(* chain no rule of which matches accepts, as does a router without the    *)
(* table.                                                                  *)
ruleExprs(d, rules, p) ==
    LET hits == {i \in DOMAIN rules : sourceExprs(d, p) \in rules[i].sources
                                      /\ baseRuleExprs(d, rules[i], p)}
    IN  ~\E i \in hits : rules[i].kind = "drop" /\ \A j \in hits : i <= j

Accepts(d, p) == ruleExprs(d, IF p.oif = "-" THEN d.input ELSE d.forward, p)

(***************************************************************************)
(* Plan.                                                                   *)
(***************************************************************************)
ErrNoInside(c, inside) == c.enabled /\ inside = {}
lockout(d, via) == d.enabled /\ via \notin {"-", "lo"} /\ via \notin d.inside

(* Native rules are the operator's own text, so replacing them, and        *)
(* switching them off, always asks first.                                  *)
FilterImpact(c, have, want, via) ==
    IF have = want THEN "none"
    ELSE IF c.native \/ lockout(want, via) THEN "disruptive" ELSE "reload"

(***************************************************************************)
(* The state.                                                              *)
(***************************************************************************)
VARIABLES
    st,        \* the stored document, one field per module
    nat,       \* the kernel's olr_nat
    used,      \* counters of olr_nat that have counted
    filter,    \* the kernel's olr_filter
    queue,     \* the follower's subscription: modules that published "applied"
    follower,  \* NoModule, or the event it is waiting for the lock with
    behind,    \* tables that a fault, or an edit nobody follows, left behind
    edits, faults

vars == <<st, nat, used, filter, queue, follower, behind, edits, faults>>

NoModule == "none"
Modules == {"link", "dial", "remote", "ingress", "gateway", "firewall", "iptv"}

(***************************************************************************)
(* What the tables are computed from.                                      *)
(***************************************************************************)
LinksOf(s) ==
    [l \in DOMAIN Wires |->
        IF l \in s.nets \cup Wans
        THEN [adopted |-> TRUE, v6 |-> FALSE, nets |-> Wires[l].nets, own |-> Wires[l].own]
        ELSE [adopted |-> TRUE, v6 |-> FALSE, nets |-> {}, own |-> {}]]

natOf(s) ==
    ConfigNAT(s.gw, s.uplink, UNION {Wires[l].nets : l \in s.nets},
              [prefix |-> IF s.wg THEN TunnelPrefix ELSE {}, tunnel |-> Tunnel])
NatWant(s) == RenderNat(natOf(s), LinksOf(s))

(* A document the forwards of which no longer fit the interfaces cannot be *)
(* applied: Plan validates before it renders.                              *)
NatApplies(s) == ValidForwards(s.gw.forwards, LinksOf(s))

Inside(s) == s.nets \cup (IF s.wg THEN {Tunnel} ELSE {})
Opening(proto, port, from) == [proto |-> proto, port |-> port, from |-> from]
Openings(s) ==
    (IF s.tun /\ s.uplink # NoIface THEN <<Opening("6in4", 0, Broker)>> ELSE <<>>)
    \o (IF s.ingress THEN <<Opening("tcp", 3, "-"), Opening("tcp", 4, "-")>> ELSE <<>>)
    \o (IF s.socks THEN <<Opening("tcp", 9, "-")>> ELSE <<>>)
    \o (IF s.ingress THEN <<Opening("udp", 4, "-")>> ELSE <<>>)
    \o (IF s.wg THEN <<Opening("udp", 8, "-")>> ELSE <<>>)

(* iptv.Resolve: the upstream must be an uplink-like interface that no     *)
(* network has, and every network must be there once and have its member.  *)
Members(s) == {s.iptv.nets[i] : i \in DOMAIN s.iptv.nets}
Resolves(s) ==
    ~s.iptv.enabled
    \/ /\ s.iptv.up \in Wans /\ s.iptv.up \notin s.nets
       /\ s.iptv.nets # <<>> /\ Members(s) \subseteq s.nets
       /\ \A i, j \in DOMAIN s.iptv.nets : s.iptv.nets[i] = s.iptv.nets[j] => i = j
Resolve(s) == IF s.iptv.enabled THEN [up |-> s.iptv.up, down |-> s.iptv.nets]
              ELSE [up |-> NoIface, down |-> <<>>]

FilterWant(s) ==
    IF s.fw.native THEN IF s.fw.enabled THEN NativeFilter ELSE NoFilter
    ELSE RenderIPTV(s.fw, Inside(s), Openings(s), Resolve(s))

(* BuildPlan refuses to enclose nothing, and it cannot be computed at all  *)
(* while the IPTV document does not resolve.                               *)
FilterApplies(s) == s.fw.native \/ (~ErrNoInside(s.fw, Inside(s)) /\ (s.fw.enabled => Resolves(s)))

(***************************************************************************)
(* Steps that handlers are made of.                                        *)
(***************************************************************************)
(* Publish never blocks: a full subscription loses the event.              *)
Publish(q, m) == IF Len(q) < EventBuffer THEN Append(q, m) ELSE q

(* Mutant of firewallFollows: remote access is forgotten.                  *)
Deaf == {"dial", "link", "ingress"}

(* The modules the follower listens to.                                    *)
firewallFollows == {"dial", "link", "remote", "ingress"}

Left(table, yes) == IF yes THEN behind \cup {table} ELSE behind \ {table}

Fault(yes) == /\ yes => faults < MaxFaults
              /\ faults' = IF yes THEN faults + 1 ELSE faults
Edited == edits < MaxEdits /\ edits' = edits + 1

Dropped(m) == Publish(queue, m) = queue
Announce(m, left) ==
    /\ queue' = Publish(queue, m)
    /\ behind' = left \cup (IF m \in firewallFollows /\ Dropped(m) THEN {"filter"} ELSE {})

(***************************************************************************)
(* Handlers.                                                               *)
(***************************************************************************)
(* link's and dial's apply: once the document is stored, a change that     *)
(* fails in the kernel re-applies no dependent and publishes nothing.      *)
Followed(m, s, broken, natFails) ==
    LET ok == NatApplies(s) /\ ~natFails
        natLeft == IF broken \/ ~ok THEN {"nat"} ELSE {}
    IN  /\ Edited /\ Fault(broken \/ natFails)
        /\ s # st /\ st' = s
        /\ ~(broken /\ natFails)
        /\ nat' = IF broken \/ ~ok THEN nat ELSE NatWant(s)
        /\ used' = IF nat' = nat THEN used ELSE {}
        /\ IF broken
           THEN behind' = behind \cup {"nat", "filter"} /\ UNCHANGED queue
           ELSE Announce(m, (behind \ {"nat"}) \cup natLeft)
        /\ UNCHANGED <<filter, follower>>

linkApply == \E ns \in SUBSET Lans, broken, natFails \in BOOLEAN :
    ns # {} /\ Followed("link", [st EXCEPT !.nets = ns], broken, natFails)

dialApply == \E u \in Wans \cup {NoIface}, t, broken, natFails \in BOOLEAN :
    /\ t => u # NoIface
    /\ Followed("dial", [st EXCEPT !.uplink = u, !.tun = t], broken, natFails)

(* remote publishes whenever it attempted a step, and its Follow           *)
(* re-applies olr_nat after the tunnel.                                    *)
tunnelApply == \E natFails \in BOOLEAN :
    Followed("remote", [st EXCEPT !.wg = ~@], FALSE, natFails)

(* Services that only change what the firewall opens.                      *)
Opened(m, s) ==
    /\ Edited /\ Fault(FALSE)
    /\ st' = s
    /\ Announce(m, behind)
    /\ UNCHANGED <<nat, used, filter, follower>>
socksApply == Opened("remote", [st EXCEPT !.socks = ~@])
ingressApply == Opened("ingress", [st EXCEPT !.ingress = ~@])

(* The gateway's own handlers store the section and program the policy     *)
(* routes.  olr_nat, which is computed from the same section, is not       *)
(* re-applied.                                                             *)
patchGateway == \E on, snat \in BOOLEAN :
    LET s == [st EXCEPT !.gw.enabled = on, !.gw.snat = snat]
    IN  /\ Edited /\ Fault(FALSE) /\ s # st
        /\ st' = s
        /\ Announce("gateway", IF NatWant(s) = nat THEN behind ELSE behind \cup {"nat"})
        /\ UNCHANGED <<nat, used, filter, follower>>

(* nat.HTTP.mutateWith.                                                    *)
NatEdit(fs, confirm, fails) ==
    LET s == [st EXCEPT !.gw.forwards = fs]
        plan == classifyNat(nat, NatWant(s), used)
    IN  /\ Edited /\ Fault(fails) /\ NatApplies(s)
        /\ plan = "disruptive" => confirm
        /\ st' = s
        /\ nat' = IF fails THEN nat ELSE NatWant(s)
        /\ used' = IF nat' = nat THEN used ELSE {}
        /\ IF fails \/ plan = "none"
           THEN /\ behind' = Left("nat", fails /\ plan # "none")
                /\ UNCHANGED queue
           ELSE Announce("gateway", behind \ {"nat"})
        /\ UNCHANGED <<filter, follower>>

putForward == \E f \in Forwards, confirm, fails \in BOOLEAN :
    NatEdit(UpsertForward(st.gw.forwards, f), confirm, fails)
renameForward == \E i \in DOMAIN st.gw.forwards, to \in {f.name : f \in Forwards}, confirm \in BOOLEAN :
    /\ FindForward(st.gw.forwards, to) = {}
    /\ NatEdit(UpsertForward(RenameForward(st.gw.forwards, st.gw.forwards[i].name, to),
                             [st.gw.forwards[i] EXCEPT !.name = to]), confirm, FALSE)
deleteForward == \E i \in DOMAIN st.gw.forwards, confirm, fails \in BOOLEAN :
    NatEdit(RemoveForward(st.gw.forwards, st.gw.forwards[i].name), confirm, fails)
postForwardsApply == NatEdit(st.gw.forwards, TRUE, FALSE)

(* firewall.HTTP.mutate; via is the interface the request came in on.      *)
FilterEdit(c, via, confirm, fails) ==
    LET s == [st EXCEPT !.fw = c]
        plan == FilterImpact(c, filter, FilterWant(s), via)
    IN  /\ Edited /\ Fault(fails)
        /\ FilterApplies(s)
        /\ plan = "disruptive" => confirm
        /\ st' = s
        /\ filter' = IF fails THEN filter ELSE FilterWant(s)
        /\ behind' = Left("filter", fails /\ plan # "none")
        /\ queue' = IF fails \/ plan = "none" THEN queue ELSE Publish(queue, "firewall")
        /\ UNCHANGED <<nat, used, follower>>

firewallMutate == \E c \in [enabled : BOOLEAN, native : BOOLEAN],
                     via \in Lans \cup Wans, confirm, fails \in BOOLEAN :
    FilterEdit(c, via, confirm, fails)

(* firewall.Applier.Reapply: no caller, so nobody to lock out.             *)
Reapply(s, fails) ==
    LET ok == FilterApplies(s) /\ ~fails
    IN  /\ filter' = IF ok THEN FilterWant(s) ELSE filter
        /\ behind' = Left("filter", ~ok)

(* iptv.HTTP.change re-applies the firewall in the same transaction, also  *)
(* when its own document was refused, but leaves native rules alone.       *)
iptvChange == \E d \in IPTVs, fails \in BOOLEAN :
    LET new == [st EXCEPT !.iptv = d]
        s == IF Resolves(new) THEN new ELSE st
    IN  /\ Edited /\ Fault(fails)
        /\ st' = s
        /\ IF s.fw.native THEN UNCHANGED <<filter, behind>> ELSE Reapply(s, fails)
        /\ queue' = IF ~Resolves(new) \/ (~s.fw.native /\ (fails \/ ~FilterApplies(s)))
                    THEN queue ELSE Publish(queue, "iptv")
        /\ UNCHANGED <<nat, used, follower>>

(***************************************************************************)
(* The follower.                                                           *)
(***************************************************************************)
(* Mutant of followFirewall: bursts are coalesced, but nothing ever takes   *)
(* the last event.                                                         *)
Coalesces ==
    /\ follower = NoModule /\ Len(queue) > 1
    /\ queue' = Tail(queue)
    /\ follower' = IF Head(queue) \in firewallFollows THEN Head(queue) ELSE NoModule
    /\ UNCHANGED <<st, nat, used, filter, behind, edits, faults>>

followFirewall ==
    /\ follower = NoModule /\ queue # <<>>
    /\ queue' = Tail(queue)
    /\ follower' = IF Head(queue) \in firewallFollows THEN Head(queue) ELSE NoModule
    /\ UNCHANGED <<st, nat, used, filter, behind, edits, faults>>

(* reapplyFirewall with the lock in hand.  When the rules changed it       *)
(* publishes, to itself among others.                                      *)
reapplyFirewall == \E fails \in BOOLEAN :
    /\ follower # NoModule
    /\ Fault(fails)
    /\ follower' = NoModule
    /\ IF st.fw.native THEN UNCHANGED <<filter, behind>> ELSE Reapply(st, fails)
    /\ queue' = IF filter' # filter THEN Publish(queue, "firewall") ELSE queue
    /\ UNCHANGED <<st, nat, used, edits>>

(* Thirty seconds without the lock, and the event is gone.                 *)
followerGivesUp ==
    /\ follower # NoModule /\ Fault(TRUE)
    /\ follower' = NoModule
    /\ behind' = Left("filter", FilterWant(st) # filter)
    /\ UNCHANGED <<st, nat, used, filter, queue, edits>>

(***************************************************************************)
(* The daemon ends, or the router does, and the daemon starts again:       *)
(* reapplyFirewall("startup"), then startForwards, which touches nothing   *)
(* when the document asks for nothing.                                     *)
(***************************************************************************)
Restart(reboot) ==
    LET f0 == IF reboot THEN NoFilter ELSE filter
        n0 == IF reboot THEN NoNat ELSE nat
        skip == ProgramsNothing(natOf(st)) \/ ~NatApplies(st)
        n1 == IF skip THEN n0 ELSE NatWant(st)
        f1 == IF FilterApplies(st) THEN FilterWant(st) ELSE f0
    IN  /\ Fault(TRUE)
        /\ nat' = n1 /\ filter' = f1
        /\ used' = IF n1 = nat THEN used ELSE {}
        /\ behind' = (IF n1 # NatWant(st) THEN {"nat"} ELSE {})
                     \cup (IF f1 # FilterWant(st) THEN {"filter"} ELSE {})
        /\ queue' = <<>> /\ follower' = NoModule
        /\ UNCHANGED <<st, edits>>

restart == \E reboot \in BOOLEAN : Restart(reboot)

(***************************************************************************)
(* The kernel.  Where a new connection ends up, and under whose address.   *)
(***************************************************************************)
RouteTo(s, dst) ==
    LET on == {l \in s.nets \cup Wans : \E n \in Wires[l].nets : dst \in n}
    IN  CASE on # {} -> CHOOSE l \in on : TRUE
          [] s.wg /\ dst \in TunnelPrefix -> Tunnel
          [] OTHER -> s.uplink

Ends(s, p, dst, port, dnat) ==
    LET local == IsLocalAddress(LinksOf(s), dst)
        oif == IF local THEN NoIface ELSE RouteTo(s, dst)
        seen == [iif |-> p.iif, oif |-> oif, src |-> p.src, proto |-> p.proto, port |-> port,
                 ct |-> "new", dnat |-> dnat]
    IN  IF (~local /\ oif = NoIface) \/ ~Accepts(filter, seen) THEN <<"dropped">>
        ELSE IF local THEN <<"router", port>>
        ELSE <<"device", dst, port, oif, Masqueraded(nat, p.src, dst, p.proto, port, oif)>>

Fates(p) ==
    LET T == Translations(nat, p, LinksOf(st))
    IN  IF T = {} THEN {Ends(st, p, p.dst, p.port, FALSE)}
        ELSE {Ends(st, p, r.to, ToPort(r, p.port), TRUE) : r \in T}

arrive == \E p \in Packets :
    LET hit == {r.counter : r \in Translations(nat, p, LinksOf(st))} \ {0}
    IN  /\ ~(hit \subseteq used)
        /\ used' = used \cup hit
        /\ UNCHANGED <<st, nat, filter, queue, follower, behind, edits, faults>>

(***************************************************************************)
(* Specification.                                                          *)
(***************************************************************************)
Init ==
    /\ \E ns \in {{l} : l \in Lans}, w \in Wans, on \in BOOLEAN,
          fs \in {<<>>} \cup {UpsertForward(<<>>, f) : f \in Forwards} :
          st = [nets |-> ns, uplink |-> w, tun |-> FALSE, wg |-> on, socks |-> FALSE,
                ingress |-> FALSE, gw |-> [enabled |-> TRUE, snat |-> TRUE, forwards |-> fs],
                fw |-> [enabled |-> on, native |-> FALSE],
                iptv |-> [enabled |-> FALSE, up |-> NoIface, nets |-> <<>>]]
    /\ NatApplies(st)
    /\ nat = NatWant(st) /\ filter = FilterWant(st)
    /\ used = {} /\ queue = <<>> /\ follower = NoModule
    /\ behind = {} /\ edits = 0 /\ faults = 0

Next ==
    \/ linkApply \/ dialApply \/ tunnelApply \/ socksApply \/ ingressApply
    \/ patchGateway \/ putForward \/ renameForward \/ deleteForward \/ postForwardsApply
    \/ firewallMutate \/ iptvChange
    \/ followFirewall \/ reapplyFirewall \/ followerGivesUp
    \/ restart \/ arrive

(* The follower is a goroutine that always gets the lock in the end: every *)
(* holder releases it, and waiters are served in order.                    *)
Spec == Init /\ [][Next]_vars /\ WF_vars(followFirewall) /\ WF_vars(reapplyFirewall)

(***************************************************************************)
(* Properties.                                                             *)
(***************************************************************************)
Settled ==
    /\ behind = {} /\ follower = NoModule
    /\ \A i \in DOMAIN queue : queue[i] \notin firewallFollows

Covers(f, p) == p.proto \in Each(f.proto) /\ p.port \in f.port[1]..f.port[2]
Delivery(f, p) == <<f.to, IF Single(f.port) THEN f.dport ELSE p.port>>

(* What the router itself answers outside: the protocols that are always   *)
(* admitted, IGMP where IPTV is on, and the services that are on.          *)
Admitted(p, port) ==
    \/ p.proto \in {"icmp", "icmpv6", "dhcp"}
    \/ p.proto = "igmp" /\ st.iptv.enabled /\ p.iif \in Members(st) \cup {st.iptv.up}
    \/ p.proto = "udp" /\ port = 8 /\ st.wg
    \/ p.proto = "tcp" /\ port = 9 /\ st.socks
    \/ p.proto = "tcp" /\ port \in {3, 4} /\ st.ingress
    \/ p.proto = "udp" /\ port = 4 /\ st.ingress
    \/ p.proto = "6in4" /\ p.src = Broker /\ st.tun

(* A forward that leads p to the end e: one written for the interface p    *)
(* came in on, or a hairpin, which AnswersOnItsUplink is about.            *)
ForwardedBy(f, p, e) ==
    /\ st.gw.enabled /\ Covers(f, p) /\ <<e[2], e[3]>> = Delivery(f, p)
    /\ f.in = p.iif \/ HairpinOrDefault(f)

(* With the firewall on and nothing left to follow, a connection from      *)
(* outside gets as far as a device only through a forward, as a stream of  *)
(* IPTV or as ICMPv6, and as far as the router only to a service that is on; *)
(* a service that was turned off, a forward that was deleted and a network *)
(* that was added are all accounted for, whichever module they were edited *)
(* in.                                                                     *)
OutsideStopped ==
    Settled /\ st.fw.enabled /\ ~st.fw.native =>
        \A p \in Packets : p.iif \notin Inside(st) \cup {"lo"} =>
            \A e \in Fates(p) :
                /\ e[1] = "router" => Admitted(p, e[2])
                /\ e[1] = "device" /\ e[4] \in Inside(st) =>
                      \/ \E i \in DOMAIN st.gw.forwards : ForwardedBy(st.gw.forwards[i], p, e)
                      \/ p.proto = "multicast" /\ st.iptv.enabled
                         /\ p.iif = st.iptv.up /\ e[4] \in Members(st)
                      \/ p.proto = "icmpv6"

(* The packets forward i is for: they come to an address of the router on  *)
(* the forward's own interface, or, with hairpin and when no other forward *)
(* covers them, from a network.                                            *)
InsideOf(f, p) == p.iif \in st.nets /\ HairpinOrDefault(f)
MeantFor(i, p) ==
    LET f == st.gw.forwards[i]
    IN  /\ IsLocalAddress(LinksOf(st), p.dst) /\ Covers(f, p) /\ RouteTo(st, f.to) # NoIface
        /\ \/ p.iif = f.in
           \/ /\ InsideOf(f, p)
              /\ \A j \in DOMAIN st.gw.forwards \ {i} : ~Covers(st.gw.forwards[j], p)

(* What the document promises is also delivered: a forward leads to its    *)
(* device and to no other, from outside and, with hairpin, from inside,    *)
(* where the reply comes back through the router because the client's      *)
(* address was replaced; a device's own connections and a WireGuard peer's *)
(* leave under an address that can be replied to.                          *)
Delivered ==
    Settled /\ NatApplies(st) /\ st.gw.enabled /\ ~st.fw.native =>
        \A p \in Packets : \A e \in Fates(p) :
            /\ \A i \in DOMAIN st.gw.forwards :
                  LET f == st.gw.forwards[i]
                  IN  MeantFor(i, p) =>
                        /\ e[1] = "device" /\ <<e[2], e[3]>> = Delivery(f, p)
                        /\ (InsideOf(f, p) /\ \E n \in Wires[p.iif].nets : {p.src, f.to} \subseteq n) => e[5]
            /\ (/\ e[1] = "device" /\ st.gw.snat /\ e[4] = st.uplink /\ p.iif \in st.nets
                /\ \E n \in Wires[p.iif].nets : p.src \in n) => e[5]
            /\ (/\ e[1] = "device" /\ st.wg /\ p.iif = Tunnel /\ p.src \in TunnelPrefix
                /\ e[4] \in st.nets
                /\ ~OverlapsServed(LinksOf(st), TunnelPrefix, Tunnel, st.uplink)) => e[5]

(* Once edits stop, the filter the kernel runs becomes the one the stored  *)
(* documents call for, unless an event, an apply or the lock was lost on   *)
(* the way.                                                                *)
FilterCatchesUp == <>[](filter = FilterWant(st) \/ "filter" \in behind)

(* Turning the gateway off closes every forwarded port in the request that *)
(* does it (config.go:71-72): no fault, no queue and no other module is    *)
(* involved. TLC refutes it: the forwards are translated until the next    *)
(* NAT apply, whichever module causes it.                                  *)
OffClosesPorts ==
    faults = 0 /\ ~st.gw.enabled => \A p \in Packets : Translations(nat, p, LinksOf(st)) = {}

(* A forward is for the uplink it names: a box can have two uplinks, and a *)
(* forward that silently applied to both would be a policy nobody wrote    *)
(* (config.go:155-157). TLC refutes it for a box with a second uplink: the *)
(* hairpin rule of a forward takes packets that arrive there.              *)
AnswersOnItsUplink ==
    \A p \in Packets : p.iif \in Wans =>
        \A r \in Translations(nat, p, LinksOf(st)) :
            \A i \in DOMAIN st.gw.forwards :
                st.gw.forwards[i].name = r.for => st.gw.forwards[i].in = p.iif
=============================================================================
