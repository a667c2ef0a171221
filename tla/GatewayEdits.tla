---------------------------- MODULE GatewayEdits ----------------------------
(***************************************************************************)
(* The gateway's configuration under its HTTP edits (internal/gateway/     *)
(* http.go and destination.go), with every kernel write taken as done: what*)
(* the kernel holds is Render of the stored configuration, the probe       *)
(* verdicts and the links.  The module asks whether the rendered objects   *)
(* steer every packet where the configuration says, for every              *)
(* configuration the edits can reach; Gateway.tla asks what happens while  *)
(* an apply is under way.                                                  *)
(*                                                                         *)
(* One connection is followed through the edits: the mark the classifier   *)
(* saved into it decides where its packets go from then on.                *)
(***************************************************************************)
EXTENDS GatewayPolicy

CONSTANTS
    Names,        \* exit names an edit may use, positive numbers
    Bodies,       \* exits as a request states them: no name, no slot
    Devices,      \* MAC addresses
    Links,        \* interface -> [known, adopted, up, fams]
    Stored,       \* documents the daemon may find in its store
    Flows,        \* the packets looked at: [src, fam, mac, dst, dnat]
    MaxEdits      \* bound on the edits of a behaviour

VARIABLES
    config,       \* the gateway section of the stored document
    health,       \* Prober.health
    tunUp,        \* whether the SOCKS5 TUN is up now
    tunSeen,      \* ... and whether it was at the last render
    conn,         \* an open connection: <<flow, saved mark, exit it took>>
    edits         \* edits made, at most MaxEdits

vars == <<config, health, tunUp, tunSeen, conn, edits>>

NoConn == <<>>
LinksWith(up) == [Links EXCEPT ![Tun].up = up]
LinksNow == LinksWith(tunUp)

(* The kernel takes a route away with its interface, and only an apply     *)
(* brings it back.                                                         *)
Kernel ==
    LET k == Render(config, LinksWith(tunSeen), health)
    IN  IF tunUp THEN k ELSE [k EXCEPT !.routes = {r \in @ : r.to # Tun}]

Packet(f, ct) == [src |-> f.src, fam |-> f.fam, mac |-> f.mac, dst |-> f.dst,
                  dnat |-> f.dnat, ct |-> ct]

(* Prober.Watch probes the exits in use that have a probe.                 *)
Watched(c) ==
    {n \in Names : Find(c, n) # {} /\ InUse(c, n) /\ Exit(c, n).probe
                   /\ Exit(c, n).via.kind # "blocked"}

Init ==
    /\ config \in {c \in Stored : Validate(c, Links)}
    /\ health = [n \in Watched(config) |-> TRUE]
    /\ tunUp = TRUE /\ tunSeen = TRUE
    /\ conn = NoConn /\ edits = 0

(* mutateWith: the edited configuration is normalised and refused unless   *)
(* it validates; nothing else of the request can keep it from the store    *)
(* here.  A stored edit is rendered, which looks at the links again, and   *)
(* Prober.Watch forgets the verdicts of exits it no longer probes.         *)
Mutate(c) ==
    LET n == Normalize(c)
    IN  /\ edits < MaxEdits
        /\ Validate(n, LinksNow)
        /\ n # config
        /\ config' = n
        /\ tunSeen' = tunUp
        /\ health' = [x \in Watched(n) |-> IF x \in DOMAIN health THEN health[x] ELSE TRUE]
        /\ edits' = edits + 1
        /\ UNCHANGED tunUp

Edit(c) == Mutate(c) /\ UNCHANGED conn

Body(b, name) == [name |-> name, slot |-> 0, via |-> b.via, ipv6 |-> b.ipv6,
                  fail |-> b.fail, snat |-> b.snat, probe |-> b.probe, dns |-> b.dns]

putExit(name, b) == Edit(Upsert(config, Body(b, name)))

renameExit(from, to, b) ==
    /\ Find(config, from) # {} /\ Find(config, to) = {}
    /\ Mutate(Upsert(Rename(config, from, to), Body(b, to)))
    /\ conn' = IF conn # NoConn /\ conn[3] = from THEN [conn EXCEPT ![3] = to] ELSE conn

deleteExit(name) == Find(config, name) # {} /\ Edit(RemoveExit(config, name))

putAssignment(net, name) == Edit([config EXCEPT !.nets = Put(@, net, name)])
deleteAssignment(net) ==
    net \in DOMAIN config.nets /\ Edit([config EXCEPT !.nets = Without(@, net)])

putDevice(mac, name) == Edit([config EXCEPT !.devs = Put(@, mac, name)])
deleteDevice(mac) ==
    mac \in DOMAIN config.devs /\ Edit([config EXCEPT !.devs = Without(@, mac)])

editDestination(p, name) == Edit([config EXCEPT !.dests = Put(@, p, name)])
deleteDestination(p) ==
    p \in DOMAIN config.dests /\ Edit([config EXCEPT !.dests = Without(@, p)])

patchDefault(name) == Edit([config EXCEPT !.default = name])
patchEnabled(on) == Edit([config EXCEPT !.enabled = on])

(* A probe verdict, and the re-apply it causes.                            *)
Verdict(name) ==
    /\ name \in DOMAIN health
    /\ health' = [health EXCEPT ![name] = ~@]
    /\ tunSeen' = tunUp
    /\ UNCHANGED <<config, tunUp, conn, edits>>

(* The TUN goes away or comes back under the kernel; nothing re-applies.   *)
TunMoves ==
    /\ tunUp' = ~tunUp
    /\ UNCHANGED <<config, health, tunSeen, conn, edits>>

(* A connection's first packet.                                            *)
Open(f) ==
    /\ conn = NoConn
    /\ LET p == Packet(f, 0)
       IN  conn' = <<f, accountExprs(Kernel.table, p), Chosen(config, LinksNow, p)>>
    /\ UNCHANGED <<config, health, tunUp, tunSeen, edits>>

Next ==
    \/ \E n \in Names, b \in Bodies : putExit(n, b)
    \/ \E m, n \in Names, b \in Bodies : renameExit(m, n, b)
    \/ \E n \in Names : deleteExit(n)
    \/ \E net \in Networks, n \in Names \cup {NoName} : putAssignment(net, n)
    \/ \E net \in Networks : deleteAssignment(net)
    \/ \E d \in Devices, n \in Names \cup {NoName} : putDevice(d, n)
    \/ \E d \in Devices : deleteDevice(d)
    \/ \E p \in DestPrefixes, n \in Names : editDestination(p, n)
    \/ \E p \in DestPrefixes : deleteDestination(p)
    \/ \E n \in Names \cup {NoName} : patchDefault(n)
    \/ \E on \in BOOLEAN : patchEnabled(on)
    \/ \E n \in Names : Verdict(n)
    \/ TunMoves
    \/ \E f \in Flows : Open(f)

Spec == Init /\ [][Next]_vars

-----------------------------------------------------------------------------
(* What an edit costs, which decides whether it needs confirm=true: it is  *)
(* disruptive when a route or an ip rule moves and somebody active is on a *)
(* network the new rules classify, or when the operator is.                *)
movedPaths(obs, d) == obs.routes # d.routes \/ obs.rules # d.rules

activeUsers(d, active) ==
    {s \in active : \/ \E r \in d.table.srcs : r.src = s
                    \/ \E i \in DOMAIN d.table.dests : s \in d.table.dests[i].srcs}

adminAffected(d, admin) == \E r \in d.table.srcs : r.src = admin

classify(obs, d, active, admin) ==
    CASE obs = d -> "none"
      [] movedPaths(obs, d) /\ activeUsers(d, active) # {} -> "disruptive"
      [] adminAffected(d, admin) -> "disruptive"
      [] OTHER -> "reload"

-----------------------------------------------------------------------------
(* The rendered rules, tables and routes send the first packet of every    *)
(* flow where the configuration says (render.go, kernel_linux.go): the     *)
(* longest destination rule, else the device's choice, else its network's, *)
(* and then what that exit does with the family when it is up, down,       *)
(* blocked or carries only the other family.                               *)
AsIntended ==
    tunUp = tunSeen =>
        LET k == Kernel
        IN  \A f \in Flows : Fate(k, Packet(f, 0)) =
                              Intended(config, LinksNow, health, Packet(f, 0))

(* Traffic assigned to the managed SOCKS5 TUN never leaves any other way,  *)
(* even while the TUN is gone and nothing has re-applied yet: validate.go  *)
(* requires the exit to fail closed and render.go keeps an unreachable     *)
(* route under the TUN's own.                                              *)
TunFailsClosed ==
    LET k == Kernel
    IN  \A f \in Flows :
        LET n == Chosen(config, LinksNow, Packet(f, 0))
        IN  (config.enabled /\ n # NoName /\ f.dst \notin {"self", "lan"}
             /\ isTun(Exit(config, n))) =>
                Fate(k, Packet(f, 0)) \in {Unreached, <<Exit(config, n).slot, Tun>>}

(* Both: every packet goes where the configuration says, and what is       *)
(* assigned to the TUN goes nowhere else while it is gone.                 *)
SteersAsIntended == AsIntended /\ TunFailsClosed

(* An open connection stays with its exit through every edit that keeps    *)
(* that exit in use, renaming it and adding, changing or removing others   *)
(* included: the slot is stored and preserved, so the mark saved in the    *)
(* connection still means the same exit (resources.go:166-178).            *)
KeepsExit ==
    (/\ conn # NoConn /\ conn[2] \notin {0, DirectMark} /\ config'.enabled
     /\ Find(config, conn[3]) # {} /\ Exit(config, conn[3]).slot = conn[2]
     /\ conn' # NoConn /\ Find(config', conn'[3]) # {} /\ InUse(config', conn'[3])
     /\ conn[1].dst \notin {"self", "lan"} /\ tunUp' = tunSeen')
    => Fate(Kernel', Packet(conn[1], conn[2])) =
       ExitFate(Exit(config', conn'[3]), LinksNow', health', conn[1].fam)

PinnedConnection == [][KeepsExit]_vars

(* "ImpactReload changes the classifier without moving anybody's traffic.  *)
(* Established connections keep their exit" (plan.go:33-37): an edit that  *)
(* needs no confirmation leaves an open connection on its path. TLC        *)
(* refutes it: a connection that a destination rule placed moves when the  *)
(* gateway is turned off.                                                  *)
ReloadMovesNobody ==
    [][ (/\ edits' # edits /\ conn # NoConn
         /\ LET s == <<conn[1].src, conn[1].fam>>
            IN  classify(Kernel, Kernel', {s}, <<NoIface, 4>>) = "reload")
        => Fate(Kernel', Packet(conn[1], conn[2])) = Fate(Kernel, Packet(conn[1], conn[2])) ]_vars
=============================================================================
