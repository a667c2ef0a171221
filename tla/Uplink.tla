------------------------------- MODULE Uplink -------------------------------
(***************************************************************************)
(* The way out: the uplink's address and default route, the 6in4 tunnel    *)
(* and its source routing, and how an edit moves the kernel from one way   *)
(* out to another.                                                         *)
(*                                                                         *)
(* An apply runs its kernel operations one after another under the apply   *)
(* lock; each may be refused, and the daemon may die between two of them.  *)
(* An address is <<link, host>>; the gateway of a link is its host 0.      *)
(***************************************************************************)
EXTENDS Integers, Sequences

CONSTANTS
    Devs,        \* interfaces handed to olr that carry no network
    Statics,     \* static addresses an uplink may be given
    Servers,     \* tunnel brokers
    Sources,     \* prefixes a broker may have routed to the box
    MaxEdits,    \* bound: requests in one behaviour
    MaxFaults    \* bound: refused operations, crashes and reboots

VARIABLES
    doc,     \* the stored document: [up, broker]
    kern,    \* the kernel
    host,    \* the interface the distribution was told to leave alone
    op,      \* the apply under way, or Idle
    worked,  \* the box had a way out when the apply under way began (ghost)
    edits, faults

vars == <<doc, kern, host, op, worked, edits, faults>>

None == <<>>
Idle == [todo |-> <<>>, confirmed |-> TRUE]

(***************************************************************************)
(* The document.  An uplink is [dev, v4, v6]; v6 is nothing, prefix        *)
(* delegation, or a tunnel to a server.  A broker assignment is [on,       *)
(* server, src] and may be stored without being used.                      *)
(***************************************************************************)
Uplinks == [dev : Devs, v4 : Statics \cup {None}, v6 : {None, <<"pd">>} \cup {<<"6in4", s>> : s \in Servers}]
Brokers == [on : BOOLEAN, server : Servers, src : SUBSET Sources \ {{}}]

HasTunnel(u) == u # None /\ u.v6 # None /\ u.v6[1] = "6in4"
HasPD(u) == u # None /\ u.v6 = <<"pd">>
HasIPv4(u) == u # None /\ u.v4 # None
Enabled(d) == d.broker # None /\ d.broker.on

ActiveTunnel(d) ==
    IF Enabled(d) /\ d.up # None THEN <<d.broker.server>>
    ELSE IF HasTunnel(d.up) THEN <<d.up.v6[2]>> ELSE None

Validate(d) == Enabled(d) => d.up # None /\ ~HasTunnel(d.up)

Gateway(a) == <<a[1], 0>>

DesiredFor(d) ==
    [dev    |-> IF d.up = None THEN None ELSE <<d.up.dev>>,
     addr   |-> IF HasIPv4(d.up) THEN d.up.v4 ELSE None,
     ra     |-> HasPD(d.up) \/ (Enabled(d) /\ d.up # None),
     tunnel |-> IF ActiveTunnel(d) = None THEN None
                ELSE [remote |-> ActiveTunnel(d)[1],
                      local  |-> IF HasIPv4(d.up) THEN d.up.v4 ELSE None,
                      source |-> Enabled(d),
                      src    |-> IF Enabled(d) THEN d.broker.src ELSE {}]]

(* What a change leaves behind: the address of the stored uplink, when     *)
(* both are static and they differ.                                        *)
Retiring(before, after) ==
    IF HasIPv4(before.up) /\ HasIPv4(after.up)
       /\ (before.up.dev # after.up.dev \/ before.up.v4 # after.up.v4)
    THEN <<before.up.dev, before.up.v4>> ELSE None
RemovingTunnel(before, after) == ActiveTunnel(before) # None /\ ActiveTunnel(after) = None
Inventory(d) == d.broker # None /\ ~d.broker.on /\ ~HasTunnel(d.up)
profileOnlyChange(a, b) == a.broker # b.broker /\ a.up = b.up /\ DesiredFor(a) = DesiredFor(b)

(***************************************************************************)
(* The kernel: addresses and state of the interfaces, the default route,   *)
(* the tunnel device, the IPv6 default route and the broker's own table.   *)
(***************************************************************************)
(* A way out that works: the default route leaves by an interface that is  *)
(* up and holds an address on the gateway's link.                          *)
Works(k) ==
    /\ k.route # None
    /\ k.route.dev \in k.up
    /\ \E a \in k.addrs[k.route.dev] : Gateway(a) = k.route.via

sitMatches(t, want) == t.remote = want.remote /\ t.local = want.local
Touch(k, d) == [k EXCEPT !.up = @ \cup {d}]

(* The tunnel step, and its parts in their order: a device of another kind *)
(* is refused, one with other ends is replaced (which takes its routes     *)
(* with it), and the route is the main table's or the broker's.            *)
Sit(k, t) ==
    IF k.sit # None /\ sitMatches(k.sit, t) THEN k
    ELSE [k EXCEPT !.sit = [remote |-> t.remote, local |-> t.local],
                   !.v6 = IF @ = "tunnel" THEN "none" ELSE @, !.table = FALSE]
applyBrokerRouting(k, t) == [k EXCEPT !.table = TRUE, !.rules = t.src]
TunnelRoute(k, t) == IF t.source THEN applyBrokerRouting(k, t) ELSE [k EXCEPT !.v6 = "tunnel"]
Bare(k) == [k EXCEPT !.sit = None, !.v6 = IF @ = "tunnel" THEN "none" ELSE @, !.table = FALSE]
clearBrokerRouting(k) == [k EXCEPT !.table = FALSE, !.rules = {}]
removeTunnel(k) == Bare(clearBrokerRouting(k))

(***************************************************************************)
(* The plan: what an apply would do to the kernel, and how much it hurts.  *)
(***************************************************************************)
PlanTunnel(t, k) ==
    IF t = None THEN [steps |-> FALSE, hurts |-> FALSE]
    ELSE LET create == k.sit = None \/ ~sitMatches(k.sit, t)
             route  == IF t.source THEN ~k.table \/ k.rules # t.src ELSE k.v6 # "tunnel"
         IN  [steps |-> create \/ route,
              hurts |-> (create /\ k.sit # None) \/ (~t.source /\ (route \/ create) /\ k.v6 = "native")]

(* Mutant of ReplacesGateway: the same gateway on another interface passes *)
(* for the same route.                                                     *)
ReplacesNextHop(w, k) == k.route # None /\ k.route.via # Gateway(w.addr)

ReplacesGateway(w, k) ==
    k.route # None /\ (k.route.via # Gateway(w.addr) \/ <<k.route.dev>> # w.dev)

(* Disruptive: a default route is replaced, an address the box answers at  *)
(* goes, a tunnel is replaced or removed, or a broker in use changes.      *)
Disruptive(before, after, k) ==
    LET w == DesiredFor(after) IN
    \/ before.broker # after.broker /\ (Enabled(before) \/ Enabled(after))
    \/ /\ ~profileOnlyChange(before, after)
       /\ \/ HasIPv4(after.up) /\ ReplacesGateway(w, k)
          \/ /\ HasIPv4(before.up) /\ HasIPv4(after.up)
             /\ before.up # after.up /\ before.up.v4 # after.up.v4
          \/ PlanTunnel(w.tunnel, k).hurts
          \/ (RemovingTunnel(before, after) \/ Inventory(after)) /\ k.sit # None
          \/ /\ Retiring(before, after) # None
             /\ Retiring(before, after)[2] \in k.addrs[Retiring(before, after)[1]]

(***************************************************************************)
(* An apply.                                                               *)
(***************************************************************************)
Start(want, todo, ok) ==
    /\ op' = [want |-> want, todo |-> todo, failed |-> FALSE, confirmed |-> ok]
    /\ worked' = Works(kern)

Steps(w) ==
    (IF w.dev = None THEN <<>>
     ELSE (IF w.addr # None THEN <<"addr">> ELSE <<>>) \o <<"up">>
          \o (IF w.addr # None THEN <<"route">> ELSE <<>>)
          \o (IF w.ra THEN <<"ra">> ELSE <<>>))
    \o (IF w.tunnel # None THEN <<"sit", "tunnel">> ELSE IF w.remove THEN <<"remove">> ELSE <<>>)
    \o (IF w.retire # None /\ w.dev # None THEN <<"retire">> ELSE <<>>)

Want(before, after, remove) ==
    LET w == DesiredFor(after)
    IN  [dev |-> w.dev, addr |-> w.addr, ra |-> w.ra, tunnel |-> w.tunnel,
         retire |-> Retiring(before, after), remove |-> remove]

(* The request.  A disruptive plan needs confirmation; the document is     *)
(* saved before the kernel is touched.  Details of an assignment that is   *)
(* not in use change the document and nothing else.                        *)
ApplyChecked(next, ok) ==
    /\ op = Idle /\ edits < MaxEdits
    /\ Validate(next)
    /\ ok \/ ~Disruptive(doc, next, kern)
    /\ doc' = next /\ edits' = edits + 1
    /\ IF profileOnlyChange(doc, next) THEN UNCHANGED <<op, worked>>
       ELSE LET w == Want(doc, next, RemovingTunnel(doc, next) \/ Inventory(next))
            IN  Start(w, Append(Steps(w), "host"), ok)
    /\ UNCHANGED <<kern, host, faults>>

putUplink == \E u \in Uplinks, ok \in BOOLEAN : ApplyChecked([doc EXCEPT !.up = u], ok)
deleteUplink == \E ok \in BOOLEAN : doc.up # None /\ ApplyChecked([doc EXCEPT !.up = None], ok)
patchBroker == \E b \in Brokers \cup {None}, ok \in BOOLEAN : ApplyChecked([doc EXCEPT !.broker = b], ok)
putConfig == \E u \in Uplinks, b \in Brokers, ok \in BOOLEAN :
    ApplyChecked([up |-> u, broker |-> b], ok)
postApply == \E ok \in BOOLEAN : ApplyChecked(doc, ok)

(* A trial that is not confirmed, or is rolled back, programs the document *)
(* it came from; what the candidate wrote is retired.                      *)
Recover ==
    /\ op = Idle /\ faults < MaxFaults
    /\ \E u \in Uplinks :
          /\ doc' = [doc EXCEPT !.up = u] /\ Validate(doc')
          /\ LET w == Want(doc, doc', RemovingTunnel(doc, doc')) IN Start(w, Steps(w), TRUE)
    /\ faults' = faults + 1
    /\ UNCHANGED <<kern, host, edits>>

(* Putting the uplink back when the daemon starts.                         *)
Restore(k) ==
    LET w == Want(doc, doc, FALSE) IN
    /\ op' = [want |-> w, todo |-> Steps(w), failed |-> FALSE, confirmed |-> TRUE]
    /\ worked' = Works(k)

(* Mutant of Retire: the old address goes whatever happened before it.     *)
RetireAlways(k, w, failed) == [k EXCEPT !.addrs[w.retire[1]] = @ \ {w.retire[2]}]

(* The previous address goes last, and only when nothing was refused.      *)
Retire(k, w, failed) ==
    IF failed THEN k ELSE [k EXCEPT !.addrs[w.retire[1]] = @ \ {w.retire[2]}]

(* What one operation does to the kernel when it is not refused.           *)
Done(k, w, step, failed) ==
    CASE step = "addr"   -> [k EXCEPT !.addrs[w.dev[1]] = @ \cup {w.addr}]
      [] step = "up"     -> Touch(k, w.dev[1])
      [] step = "route"  -> [k EXCEPT !.route = [dev |-> w.dev[1], via |-> Gateway(w.addr)]]
      [] step = "ra"     -> [k EXCEPT !.ra = @ \cup {w.dev[1]}]
      [] step = "sit"    -> Sit(k, w.tunnel)
      [] step = "tunnel" -> TunnelRoute(k, w.tunnel)
      [] step = "remove" -> removeTunnel(k)
      [] step = "retire" -> Retire(k, w, failed)
      [] step = "host"   -> k

(* The kernel takes a route only through a link the interface is on; a     *)
(* tunnel whose device could not be made has no route; the distribution    *)
(* is told last, and only after a clean apply.                             *)
Refused(k, w, step) ==
    step = "route" /\ ~(w.dev[1] \in k.up /\ w.addr \in k.addrs[w.dev[1]])
Skipped(k, step, o) ==
    \/ step = "tunnel" /\ ~(k.sit # None /\ sitMatches(k.sit, o.want.tunnel))
    \/ step = "host" /\ o.failed

Advance(o, bad) ==
    op' = IF Len(o.todo) = 1 THEN Idle
          ELSE [want |-> o.want, todo |-> Tail(o.todo), failed |-> o.failed \/ bad,
                confirmed |-> o.confirmed]

Apply ==
    /\ op # Idle /\ op.todo # <<>>
    /\ LET step == Head(op.todo) IN
       \/ /\ Skipped(kern, step, op)
          /\ Advance(op, FALSE) /\ UNCHANGED <<kern, host, faults>>
       \/ /\ ~Skipped(kern, step, op) /\ ~Refused(kern, op.want, step)
          /\ kern' = Done(kern, op.want, step, op.failed)
          /\ host' = IF step = "host" THEN op.want.dev ELSE host
          /\ Advance(op, FALSE) /\ UNCHANGED faults
       \/ /\ ~Skipped(kern, step, op) /\ Refused(kern, op.want, step)
          /\ Advance(op, TRUE) /\ UNCHANGED <<kern, host, faults>>
       \/ /\ ~Skipped(kern, step, op) /\ faults < MaxFaults /\ faults' = faults + 1
          /\ Advance(op, TRUE) /\ UNCHANGED <<kern, host>>
    /\ UNCHANGED <<doc, worked, edits>>

(* An apply with nothing to do.                                            *)
Nothing ==
    /\ op # Idle /\ op.todo = <<>>
    /\ op' = Idle /\ UNCHANGED <<doc, kern, host, worked, edits, faults>>

(* The daemon dies; the kernel keeps what it has.                          *)
Crash ==
    /\ faults < MaxFaults /\ faults' = faults + 1
    /\ Restore(kern) /\ UNCHANGED <<doc, kern, host, edits>>

(* The machine reboots: olr's addresses are gone, and unless it was told   *)
(* to leave the interface alone the distribution brings its own.           *)
Bare0 == [addrs |-> [d \in Devs |-> {}], up |-> {}, route |-> None, ra |-> {},
          sit |-> None, v6 |-> "none", table |-> FALSE, rules |-> {}]
Distribution(d, a) ==
    [Bare0 EXCEPT !.addrs[d] = {a}, !.up = {d}, !.route = [dev |-> d, via |-> Gateway(a)], !.v6 = "native"]

Reboot ==
    /\ faults < MaxFaults /\ faults' = faults + 1
    /\ kern' \in {Bare0} \cup {Distribution(d, a) : d \in {e \in Devs : <<e>> # host}, a \in Statics}
    /\ Restore(kern') /\ UNCHANGED <<doc, host, edits>>

Init ==
    /\ doc = [up |-> None, broker |-> None]
    /\ kern \in {Bare0} \cup {Distribution(d, a) : d \in Devs, a \in Statics}
    /\ host = None /\ op = Idle /\ worked = FALSE /\ edits = 0 /\ faults = 0

Next == putUplink \/ deleteUplink \/ patchBroker \/ putConfig \/ postApply \/ Recover
        \/ Apply \/ Nothing \/ Crash \/ Reboot

Spec == Init /\ [][Next]_vars

(***************************************************************************)
(* Properties.                                                             *)
(***************************************************************************)
(* A box that reaches the internet when an apply begins still reaches it   *)
(* after each of the apply's operations, whichever of them is refused and  *)
(* wherever the daemon dies: the new address and route are in place before *)
(* the old address goes, and a half-applied change keeps the old address   *)
(* (writer_linux.go:146-149).                                              *)
WayOutKept == op # Idle /\ worked => Works(kern)

(* A request that was not confirmed never replaces a default route the     *)
(* box already had, takes the tunnel away or moves IPv6 off its native     *)
(* route (buildPlan, uplinkImpact): whatever drift or half-applied change  *)
(* the kernel was left with.                                               *)
KeepsRoutes ==
    Apply /\ ~op.confirmed =>
        /\ kern.route # None => kern'.route = kern.route
        /\ kern.v6 = "native" => kern'.v6 = "native"
        /\ kern.sit # None => kern'.sit = kern.sit

(* No operation of a request that was not confirmed replaces a default     *)
(* route or a tunnel (the apply gate on buildPlan's impact).               *)
RoutesSpared == [][KeepsRoutes]_vars

=============================================================================
