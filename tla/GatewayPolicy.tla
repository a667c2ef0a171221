--------------------------- MODULE GatewayPolicy ---------------------------
(***************************************************************************)
(* What the gateway module decides, as pure operators: the configuration   *)
(* and its edits (internal/gateway/config.go, resources.go,                *)
(* destination.go), its validation (validate.go), the kernel objects it    *)
(* renders (render.go) and how the rendered nftables rules, ip rules and   *)
(* route tables steer one packet (kernel_linux.go).  Gateway.tla puts the  *)
(* operators into the daemon; Intended is the reference they are compared  *)
(* with.                                                                   *)
(*                                                                         *)
(* Data.  An exit name is its rank in the sort order of names and 0 is the *)
(* empty name.  A mark is the byte MarkMask owns, so an exit's mark, route *)
(* table and rule priority are all its slot.  A network prefix is the pair *)
(* of an interface and an address family.                                  *)
(***************************************************************************)
EXTENDS Integers, Sequences, FiniteSets, TLC

LOCAL INSTANCE SequencesExt
LOCAL INSTANCE FiniteSetsExt

CONSTANTS
    MaxSlot,      \* resources.go:44, 80 in the daemon
    Networks,     \* interfaces a network or an exit may be on
    Tun,          \* socksout.Interface, the managed SOCKS5 TUN
    DestPrefixes,    \* destination prefixes: records [id, fam, bits]
    Addresses,    \* destination addresses
    Within        \* address -> the prefixes that contain it

ASSUME MaxSlotAssumption == MaxSlot \in 1..80
ASSUME TunAssumption == Tun \notin Networks

Families == {4, 6}
NoName == 0
NoIface == "-"
DirectMark == 255

(***************************************************************************)
(* Configuration.                                                          *)
(*   exits    sequence of [name, slot, via, ipv6, fail, snat, probe, dns]  *)
(*   via      [kind, on, fam, dev]: the interface of an "interface" exit,  *)
(*            or the network the next hop's address is on and its family   *)
(*   nets     Config.Interfaces, devs Config.Devices, dests                *)
(*            Config.Destinations, each a function on the keys listed      *)
(***************************************************************************)
Find(c, name) == {i \in DOMAIN c.exits : c.exits[i].name = name}
Exit(c, name) == c.exits[Min(Find(c, name))]

Restrict0(f, S) == [k \in S |-> f[k]]
Put(f, k, v) == [x \in DOMAIN f \cup {k} |-> IF x = k THEN v ELSE f[x]]
Without(f, k) == Restrict0(f, DOMAIN f \ {k})

(* A listed network without an exit of its own uses the default; a network *)
(* nobody listed resolves to the default too, but Render only visits the   *)
(* listed ones.                                                            *)
Assigned(c, net) ==
    IF net \in DOMAIN c.nets /\ c.nets[net] # NoName THEN c.nets[net] ELSE c.default

InUse(c, name) ==
    /\ name # NoName
    /\ \/ \E p \in DOMAIN c.dests : c.dests[p] = name
       \/ c.default = name
       \/ \E n \in DOMAIN c.nets : c.nets[n] = name
       \/ \E d \in DOMAIN c.devs : c.devs[d] = name

IPv6OrDefault(e) == IF e.ipv6 = "unset" THEN "block" ELSE e.ipv6
FailOrDefault(e) == IF e.fail = "unset" THEN "block" ELSE e.fail
SNATOrDefault(e) == e.via.kind = "next_hop" /\ e.snat # "off"

(* Mutant of allocateSlots: slots handed out anew on every save, in order. *)
Renumbered(es) ==
    [i \in DOMAIN es |-> [es[i] EXCEPT !.slot = IF i <= MaxSlot THEN i ELSE 0]]

(* A slot that is valid and that no earlier exit holds stays; every other  *)
(* exit gets the lowest slot still free, in order, until none is left.     *)
allocateSlots(es) ==
    LET kept == [i \in DOMAIN es |->
                    IF es[i].slot \in 1..MaxSlot /\ \A j \in 1..(i-1) : es[j].slot # es[i].slot
                    THEN es[i].slot ELSE 0]
        free == (1..MaxSlot) \ Range(kept)
        rank(i) == Cardinality({j \in 1..i : kept[j] = 0})
        nth(k) == CHOOSE s \in free : Cardinality({t \in free : t <= s}) = k
    IN  [i \in DOMAIN es |->
            [es[i] EXCEPT !.slot =
                IF kept[i] # 0 THEN kept[i]
                ELSE IF rank(i) <= Cardinality(free) THEN nth(rank(i)) ELSE 0]]

Normalize(c) ==
    LET clean == [i \in DOMAIN c.exits |->
                    [c.exits[i] EXCEPT !.dns = IF @ = "olr" THEN "none" ELSE @]]
    IN  [c EXCEPT !.exits = allocateSlots(SortSeq(clean, LAMBDA a, b : a.name < b.name))]

Upsert(c, e) ==
    IF Find(c, e.name) = {}
    THEN Normalize([c EXCEPT !.exits = Append(@, e)])
    ELSE LET i == Min(Find(c, e.name))
         IN  Normalize([c EXCEPT !.exits[i] =
                 [e EXCEPT !.slot = IF @ = 0 THEN c.exits[i].slot ELSE @]])

RemoveExit(c, name) == [c EXCEPT !.exits = RemoveAt(@, Min(Find(c, name)))]

(* Every reference follows the exit, and the exit keeps its slot.          *)
Rename(c, from, to) ==
    LET move(n) == IF n = from THEN to ELSE n
        moved(f) == [k \in DOMAIN f |-> move(f[k])]
    IN  Normalize([c EXCEPT
            !.exits = Append(RemoveExit(c, from).exits, [Exit(c, from) EXCEPT !.name = to]),
            !.default = move(@), !.nets = moved(@), !.devs = moved(@), !.dests = moved(@)])

Empty(c) == c.exits = <<>> /\ c.default = NoName
            /\ DOMAIN c.nets \cup DOMAIN c.devs \cup DOMAIN c.dests = {}

(***************************************************************************)
(* Validation.  links: interface -> [known, adopted, up, fams].            *)
(***************************************************************************)
InterfaceWithPrefix(links, net, fam) ==
    net \in DOMAIN links /\ links[net].adopted /\ fam \in links[net].fams

validateVia(e, links) ==
    CASE e.via.kind = "interface" ->
            e.via.on # NoIface /\ e.via.fam = 0 /\ e.via.dev = NoIface
      [] e.via.kind = "next_hop"  ->
            /\ e.via.fam \in Families
            /\ IF e.via.dev # NoIface
               THEN e.via.dev = e.via.on /\ InterfaceWithPrefix(links, e.via.dev, e.via.fam)
               ELSE InterfaceWithPrefix(links, e.via.on, e.via.fam)
      [] e.via.kind = "blocked"   ->
            e.via.on = NoIface /\ e.via.fam = 0 /\ e.via.dev = NoIface
      [] OTHER -> FALSE

(* "self" is a resolver address that belongs to this router.               *)
validateDNS(e) ==
    \/ e.dns = "none"
    \/ /\ e.via.kind # "blocked"
       /\ \/ e.dns = "custom"
          \/ e.dns = "exit" /\ e.via.kind = "next_hop" /\ e.via.fam = 4

validateTun(e) ==
    (e.via.kind = "interface" /\ e.via.on = Tun) =>
        IPv6OrDefault(e) # "direct" /\ FailOrDefault(e) # "direct"

validateExits(c, links) ==
    /\ \A i, j \in DOMAIN c.exits :
          i # j => c.exits[i].name # c.exits[j].name /\ c.exits[i].slot # c.exits[j].slot
    /\ \A i \in DOMAIN c.exits :
          LET e == c.exits[i]
          IN  /\ e.name # NoName
              /\ e.slot \in 1..MaxSlot
              /\ validateVia(e, links)
              /\ validateDNS(e)
              /\ validateTun(e)

validateAssignments(c, links) ==
    \A net \in DOMAIN c.nets :
        /\ links[net].known /\ links[net].adopted /\ links[net].fams # {}
        /\ c.nets[net] # NoName => Find(c, c.nets[net]) # {}

validateDevices(c) ==
    \A mac \in DOMAIN c.devs : c.devs[mac] # NoName => Find(c, c.devs[mac]) # {}

validateDestinations(c) == \A p \in DOMAIN c.dests : Find(c, c.dests[p]) # {}

validateDefault(c) == c.default # NoName => Find(c, c.default) # {}

Validate(c, links) ==
    /\ validateExits(c, links)
    /\ validateDefault(c)
    /\ validateAssignments(c, links)
    /\ validateDevices(c)
    /\ validateDestinations(c)

(***************************************************************************)
(* Rendering.                                                              *)
(***************************************************************************)
Down(health, name) == name \in DOMAIN health /\ ~health[name]

Carries(e, fam) ==
    CASE e.via.kind = "interface" -> fam = 4 \/ e.via.on # Tun
      [] e.via.kind = "next_hop"  -> e.via.fam = fam
      [] OTHER                    -> TRUE

Unreachable(e, fam, metric) ==
    [table |-> e.slot, fam |-> fam, type |-> "unreachable", to |-> NoIface, metric |-> metric]
Via(e, fam) ==
    [table |-> e.slot, fam |-> fam, type |-> "via", to |-> e.via.on, metric |-> 0]

(* The set holds the family's route, or is empty for an exit that leaves   *)
(* IPv6 to the box's own path.                                             *)
exitRoute(e, fam, down) ==
    CASE down                       -> {Unreachable(e, fam, 0)}
      [] e.via.kind = "blocked"     -> {Unreachable(e, fam, 0)}
      [] Carries(e, fam)            -> {Via(e, fam)}
      [] fam = 4                    -> {Unreachable(e, fam, 0)}
      [] IPv6OrDefault(e) = "direct" -> {}
      [] OTHER                      -> {Unreachable(e, fam, 0)}

isTun(e) == e.via.kind = "interface" /\ e.via.on = Tun

renderExit(e, links, health) ==
    LET down == Down(health, e.name)
        routes(fam) ==
            LET r == IF isTun(e) /\ fam = 4 /\ ~down /\ ~links[Tun].up
                     THEN {Unreachable(e, fam, 0)} ELSE exitRoute(e, fam, down)
            IN  IF isTun(e) /\ Via(e, fam) \in r THEN r \cup {Unreachable(e, fam, 100)} ELSE r
    IN  IF down /\ FailOrDefault(e) = "direct"
        THEN [routes |-> {}, rules |-> {}]
        ELSE [routes |-> UNION {routes(fam) : fam \in Families},
              rules  |-> {[mark |-> e.slot, fam |-> fam] :
                              fam \in {f \in Families : routes(f) # {}}}]

UsedExits(c) == {c.exits[i] : i \in {j \in DOMAIN c.exits : InUse(c, c.exits[j].name)}}

sourcePrefixes(links) ==
    {s \in Networks \X Families : links[s[1]].adopted /\ s[2] \in links[s[1]].fams}

renderDevices(c, links) ==
    {[mac |-> mac, src |-> s, mark |-> IF c.devs[mac] = NoName THEN DirectMark
                                       ELSE Exit(c, c.devs[mac]).slot] :
        mac \in DOMAIN c.devs, s \in sourcePrefixes(links)}

renderSources(c, links) ==
    {[src |-> s, mark |-> Exit(c, Assigned(c, s[1])).slot] :
        s \in {x \in sourcePrefixes(links) :
                  x[1] \in DOMAIN c.nets /\ Assigned(c, x[1]) # NoName}}

(* Mutant of renderDestinations: shortest prefix first.                    *)
ShortestFirst(c, links) ==
    LET order == SetToSortSeq(DOMAIN c.dests, LAMBDA a, b : a.bits < b.bits)
    IN  [i \in DOMAIN order |->
            [dst  |-> order[i], mark |-> Exit(c, c.dests[order[i]]).slot,
             srcs |-> {s \in sourcePrefixes(links) : s[2] = order[i].fam}]]

(* Longest prefix first: the first match sets the mark.                    *)
renderDestinations(c, links) ==
    LET order == SetToSortSeq(DOMAIN c.dests, LAMBDA a, b : a.bits > b.bits)
    IN  [i \in DOMAIN order |->
            [dst  |-> order[i], mark |-> Exit(c, c.dests[order[i]]).slot,
             srcs |-> {s \in sourcePrefixes(links) : s[2] = order[i].fam}]]

(* The nftables table.  `restore` are the marks the first rules copy back  *)
(* from the connection.                                                    *)
NoTable == [on |-> FALSE, restore |-> {}, dests |-> <<>>, devs |-> {}, srcs |-> {}, snat |-> {}]

renderTable(c, links, health) ==
    [on      |-> TRUE,
     restore |-> {e.slot : e \in UsedExits(c)} \cup
                 {r.mark : r \in {d \in renderDevices(c, links) : d.mark = DirectMark}},
     dests   |-> renderDestinations(c, links),
     devs    |-> renderDevices(c, links),
     srcs    |-> renderSources(c, links),
     snat    |-> {e.slot : e \in {x \in UsedExits(c) :
                                     SNATOrDefault(x) /\ ~Down(health, x.name)}}]

LocalRules == {[mark |-> 0, fam |-> fam] : fam \in Families}

Render(c, links, health) ==
    IF ~c.enabled THEN [table |-> NoTable, rules |-> {}, routes |-> {}]
    ELSE LET parts == {renderExit(e, links, health) : e \in UsedExits(c)}
         IN  [table  |-> renderTable(c, links, health),
              rules  |-> LocalRules \cup UNION {x.rules : x \in parts},
              routes |-> UNION {x.routes : x \in parts}]

(***************************************************************************)
(* One packet.  src and fam say which network prefix its source address is *)
(* in, mac who sent it, dst where it goes, ct the mark its connection      *)
(* carries and dnat whether the connection was translated on the way in.   *)
(***************************************************************************)
Eligible(p) == ~p.dnat /\ p.dst # "self"

restoreExprs(t, p) == IF p.ct \in t.restore THEN p.ct ELSE 0

destinationExprs(t, p) ==
    LET hit == {i \in DOMAIN t.dests : <<p.src, p.fam>> \in t.dests[i].srcs
                                       /\ t.dests[i].dst \in Within[p.dst]}
    IN  IF hit = {} THEN 0 ELSE t.dests[Min(hit)].mark

deviceExprs(t, p) ==
    LET hit == {r \in t.devs : r.mac = p.mac /\ r.src = <<p.src, p.fam>>}
    IN  IF hit = {} THEN 0 ELSE (CHOOSE r \in hit : TRUE).mark

sourceExprs(t, p) ==
    LET hit == {r \in t.srcs : r.src = <<p.src, p.fam>>}
    IN  IF hit = {} THEN 0 ELSE (CHOOSE r \in hit : TRUE).mark

(* The chain: restore, destinations, devices, networks.  A rule after the  *)
(* first only matches a packet nothing has marked yet.                     *)
Classify(t, p) ==
    CASE ~t.on                      -> 0
      [] restoreExprs(t, p) # 0     -> restoreExprs(t, p)
      [] ~Eligible(p)               -> 0
      [] destinationExprs(t, p) # 0 -> destinationExprs(t, p)
      [] deviceExprs(t, p) # 0      -> deviceExprs(t, p)
      [] OTHER                      -> sourceExprs(t, p)

(* accountExprs saves the mark into the connection.                        *)
accountExprs(t, p) ==
    IF Classify(t, p) \in t.restore THEN Classify(t, p) ELSE p.ct

(* Where a packet ends: at the router, on main's default route, at an      *)
(* unreachable route, or through <<mark, interface>>.                      *)
Box == <<"box">>
Main == <<"main">>
Unreached == <<"unreachable">>

(* ip rule: the local rule reads every route of main but the default one,  *)
(* then the packet's mark selects a table, then main.                      *)
Lookup(k, p, mark) ==
    LET own == {r \in k.routes : r.table = mark /\ r.fam = p.fam}
        best == CHOOSE r \in own : \A q \in own : r.metric <= q.metric
    IN  CASE p.dst = "self" -> Box
          [] p.dst = "lan" /\ [mark |-> 0, fam |-> p.fam] \in k.rules -> Main
          [] mark # 0 /\ [mark |-> mark, fam |-> p.fam] \in k.rules /\ own # {} ->
                IF best.type = "via" THEN <<mark, best.to>> ELSE Unreached
          [] OTHER -> Main

Fate(k, p) == Lookup(k, p, Classify(k.table, p))

(***************************************************************************)
(* The reference: a destination rule, else the device's own choice, else   *)
(* its network's; then what that exit does with the family.                *)
(***************************************************************************)
Chosen(c, links, p) ==
    LET covering == {d \in DOMAIN c.dests : d \in Within[p.dst] /\ d.fam = p.fam}
        longest == CHOOSE d \in covering : \A q \in covering : d.bits >= q.bits
    IN  CASE ~Eligible(p) \/ <<p.src, p.fam>> \notin sourcePrefixes(links) -> NoName
          [] covering # {}        -> c.dests[longest]
          [] p.mac \in DOMAIN c.devs -> c.devs[p.mac]
          [] p.src \in DOMAIN c.nets -> Assigned(c, p.src)
          [] OTHER                -> NoName

ExitFate(e, links, health, fam) ==
    LET down == Down(health, e.name)
    IN  CASE down -> IF FailOrDefault(e) = "direct" THEN Main ELSE Unreached
          [] e.via.kind = "blocked" -> Unreached
          [] isTun(e) /\ ~links[Tun].up -> Unreached
          [] Carries(e, fam) -> <<e.slot, e.via.on>>
          [] fam = 6 /\ IPv6OrDefault(e) = "direct" -> Main
          [] OTHER -> Unreached

Intended(c, links, health, p) ==
    LET name == Chosen(c, links, p)
    IN  CASE p.dst = "self" -> Box
          [] ~c.enabled \/ p.dst = "lan" \/ name = NoName -> Main
          [] OTHER -> ExitFate(Exit(c, name), links, health, p.fam)
=============================================================================
