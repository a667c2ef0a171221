---------------------------- MODULE UplinkProofs ----------------------------
(***************************************************************************)
(* The way out, for any interfaces, addresses, brokers and prefixes: a box *)
(* that reaches the internet when an apply begins reaches it after each of *)
(* the apply's operations.                                                 *)
(*                                                                         *)
(* WayOutKept alone is not inductive: taking the previous address away is  *)
(* safe only because of what earlier operations of the same apply did, and *)
(* because none of them was refused.  OnTheWay says at every operation     *)
(* what those before it have put in place.                                 *)
(*                                                                         *)
(* KeepsRoutes is about the same operations when nobody confirmed them:    *)
(* the gate looks at the kernel once, before the first of them.            *)
(***************************************************************************)
EXTENDS Uplink, TLAPS, SequenceTheorems

StepNames == {"addr", "up", "route", "ra", "sit", "tunnel", "remove", "retire", "host"}

(* The operations of a sequence, and that the previous address goes after  *)
(* the new one, its interface and its route are in place.                  *)
Left(s) == {s[i] : i \in 1..Len(s)}
Building == {"addr", "up", "route"}
RetiresLast(s) == \A i, j \in 1..Len(s) : s[i] \in Building /\ s[j] = "retire" => i < j

(***************************************************************************)
(* Sequences of operations.                                                *)
(***************************************************************************)
LEMMA Single ==
    ASSUME NEW x \in StepNames
    PROVE  <<x>> \in Seq(StepNames) /\ Left(<<x>>) = {x} /\ RetiresLast(<<x>>)
  BY DEF Left, RetiresLast, Building

LEMMA None1 == <<>> \in Seq(StepNames) /\ Left(<<>>) = {} /\ RetiresLast(<<>>)
  BY DEF Left, RetiresLast

LEMMA Joined ==
    ASSUME NEW s \in Seq(StepNames), NEW t \in Seq(StepNames)
    PROVE  /\ s \o t \in Seq(StepNames)
           /\ Left(s \o t) = Left(s) \cup Left(t)
           /\ RetiresLast(s) /\ RetiresLast(t)
                /\ ("retire" \notin Left(s) \/ Left(t) \cap Building = {}) => RetiresLast(s \o t)
  <1>1. /\ s \o t \in Seq(StepNames) /\ Len(s \o t) = Len(s) + Len(t)
        /\ \A i \in 1..Len(s) + Len(t) :
             (s \o t)[i] = IF i <= Len(s) THEN s[i] ELSE t[i - Len(s)]
    BY ConcatProperties
  <1>2. Len(s) \in Nat /\ Len(t) \in Nat
    OBVIOUS
  <1>3. ASSUME NEW x \in Left(s \o t)
        PROVE  x \in Left(s) \cup Left(t)
    BY <1>1, <1>2, <1>3 DEF Left
  <1>4. ASSUME NEW i \in 1..Len(s)
        PROVE  i \in 1..Len(s) + Len(t) /\ (s \o t)[i] = s[i]
    BY <1>1, <1>2
  <1>5. ASSUME NEW i \in 1..Len(t)
        PROVE  i + Len(s) \in 1..Len(s) + Len(t) /\ (s \o t)[i + Len(s)] = t[i]
    BY <1>1, <1>2
  <1>6. Left(s) \subseteq Left(s \o t) /\ Left(t) \subseteq Left(s \o t)
    <2>1. \A i \in 1..Len(s) : s[i] \in Left(s \o t)
      BY <1>1, <1>4 DEF Left
    <2>2. \A i \in 1..Len(t) : t[i] \in Left(s \o t)
      BY <1>1, <1>5 DEF Left
    <2> QED BY <2>1, <2>2 DEF Left
  <1>7. ASSUME RetiresLast(s), RetiresLast(t), "retire" \notin Left(s) \/ Left(t) \cap Building = {},
               NEW i \in 1..Len(s \o t), NEW j \in 1..Len(s \o t),
               (s \o t)[i] \in Building, (s \o t)[j] = "retire"
        PROVE  i < j
    <2>1. CASE i <= Len(s) /\ j <= Len(s)
      BY <1>1, <1>2, <1>7, <2>1 DEF RetiresLast
    <2>2. CASE i <= Len(s) /\ ~(j <= Len(s))
      BY <1>1, <1>2, <2>2
    <2>3. CASE ~(i <= Len(s)) /\ ~(j <= Len(s))
      <3>1. /\ i - Len(s) \in 1..Len(t) /\ j - Len(s) \in 1..Len(t)
            /\ t[i - Len(s)] \in Building /\ t[j - Len(s)] = "retire"
        BY <1>1, <1>2, <1>7, <2>3
      <3> QED BY <1>1, <1>2, <1>7, <3>1 DEF RetiresLast
    <2>4. CASE ~(i <= Len(s)) /\ j <= Len(s)
      <3>1. i - Len(s) \in 1..Len(t) /\ t[i - Len(s)] \in Building
        BY <1>1, <1>2, <1>7, <2>4
      <3>2. j \in 1..Len(s) /\ s[j] = "retire"
        BY <1>1, <1>2, <1>7, <2>4
      <3> QED BY <1>7, <3>1, <3>2 DEF Left
    <2> QED BY <2>1, <2>2, <2>3, <2>4
  <1> QED BY <1>1, <1>3, <1>6, <1>7 DEF RetiresLast

(* An operation less.                                                      *)
LEMMA Rest ==
    ASSUME NEW s \in Seq(StepNames), s # <<>>, RetiresLast(s)
    PROVE  /\ Tail(s) \in Seq(StepNames) /\ RetiresLast(Tail(s))
           /\ Head(s) \in StepNames
           /\ Left(s) = Left(Tail(s)) \cup {Head(s)}
           /\ Head(s) = "retire" => Left(s) \cap Building = {}
  <1>1. /\ Tail(s) \in Seq(StepNames) /\ Len(Tail(s)) = Len(s) - 1 /\ Len(s) \in Nat
        /\ \A i \in 1..Len(Tail(s)) : Tail(s)[i] = s[i + 1]
        /\ Head(s) = s[1] /\ Head(s) \in StepNames /\ 1 \in 1..Len(s)
    BY HeadTailProperties
  <1>2. RetiresLast(Tail(s))
    BY <1>1 DEF RetiresLast
  <1>3. Left(s) = Left(Tail(s)) \cup {Head(s)}
    <2>1. \A i \in 1..Len(s) : i = 1 \/ (i - 1 \in 1..Len(Tail(s)) /\ s[i] = Tail(s)[i - 1])
      BY <1>1
    <2>2. \A i \in 1..Len(Tail(s)) : i + 1 \in 1..Len(s) /\ Tail(s)[i] = s[i + 1]
      BY <1>1
    <2> QED BY <1>1, <2>1, <2>2 DEF Left
  <1>4. Head(s) = "retire" => Left(s) \cap Building = {}
    BY <1>1 DEF RetiresLast, Left
  <1> QED BY <1>1, <1>2, <1>3, <1>4

(* The operations of an apply, in the order Steps gives them.              *)
LEMMA StepsOrdered ==
    ASSUME NEW w
    PROVE  /\ Steps(w) \in Seq(StepNames) /\ RetiresLast(Steps(w))
           /\ "retire" \in Left(Steps(w)) => w.retire # None /\ w.dev # None
           /\ w.dev # None => "up" \in Left(Steps(w))
           /\ w.dev # None /\ w.addr # None => {"addr", "route"} \subseteq Left(Steps(w))
           /\ w.dev = None => Left(Steps(w)) \cap (Building \cup {"ra"}) = {}
           /\ w.addr = None => Left(Steps(w)) \cap {"addr", "route"} = {}
           /\ w.tunnel = None => Left(Steps(w)) \cap {"sit", "tunnel"} = {}
           /\ "remove" \in Left(Steps(w)) => w.tunnel = None /\ w.remove
  <1> DEFINE addr == IF w.addr # None THEN <<"addr">> ELSE <<>>
             route == IF w.addr # None THEN <<"route">> ELSE <<>>
             ra == IF w.ra THEN <<"ra">> ELSE <<>>
             link == IF w.dev = None THEN <<>> ELSE addr \o <<"up">> \o route \o ra
             tunnel == IF w.tunnel # None THEN <<"sit", "tunnel">>
                       ELSE IF w.remove THEN <<"remove">> ELSE <<>>
             retire == IF w.retire # None /\ w.dev # None THEN <<"retire">> ELSE <<>>
             Plain(s) == s \in Seq(StepNames) /\ RetiresLast(s) /\ "retire" \notin Left(s)
  <1>0. Steps(w) = link \o tunnel \o retire
    BY DEF Steps
  <1>1. Plain(addr) /\ Left(addr) = IF w.addr # None THEN {"addr"} ELSE {}
    BY Single, None1 DEF StepNames
  <1>2. Plain(route) /\ Left(route) = IF w.addr # None THEN {"route"} ELSE {}
    BY Single, None1 DEF StepNames
  <1>3. Plain(ra) /\ Left(ra) \subseteq {"ra"}
    BY Single, None1 DEF StepNames
  <1>4. Plain(<<"up">>) /\ Left(<<"up">>) = {"up"}
    BY Single DEF StepNames
  <1>5. Plain(tunnel) /\ Left(tunnel) = IF w.tunnel # None THEN {"sit", "tunnel"}
                                         ELSE IF w.remove THEN {"remove"} ELSE {}
    <2>1. <<"sit", "tunnel">> = <<"sit">> \o <<"tunnel">>
      OBVIOUS
    <2>2. Plain(<<"sit">>) /\ Left(<<"sit">>) = {"sit"}
      BY Single DEF StepNames
    <2>3. Plain(<<"tunnel">>) /\ Left(<<"tunnel">>) = {"tunnel"}
      BY Single DEF StepNames
    <2>4. Plain(<<"sit">> \o <<"tunnel">>) /\ Left(<<"sit">> \o <<"tunnel">>) = {"sit", "tunnel"}
      BY <2>2, <2>3, Joined
    <2>5. Plain(<<"remove">>) /\ Left(<<"remove">>) = {"remove"}
      BY Single DEF StepNames
    <2> QED BY <2>1, <2>4, <2>5, None1
  <1>6. /\ retire \in Seq(StepNames) /\ RetiresLast(retire)
        /\ Left(retire) = IF w.retire # None /\ w.dev # None THEN {"retire"} ELSE {}
    BY Single, None1 DEF StepNames
  <1> HIDE DEF addr, route, ra, tunnel, retire
  <1>7. Plain(link) /\ Left(link) = IF w.dev = None THEN {}
                                   ELSE Left(addr) \cup {"up"} \cup Left(route) \cup Left(ra)
    <2> DEFINE one == addr \o <<"up">>
               two == one \o route
    <2>1. Plain(one) /\ Left(one) = Left(addr) \cup {"up"}
      BY <1>1, <1>4, Joined
    <2>2. Plain(two) /\ Left(two) = Left(one) \cup Left(route)
      <3> HIDE DEF one
      <3> QED BY <1>2, <2>1, Joined
    <2>3. Plain(two \o ra) /\ Left(two \o ra) = Left(two) \cup Left(ra)
      <3> HIDE DEF two
      <3> QED BY <1>3, <2>2, Joined
    <2> QED BY <2>1, <2>2, <2>3, None1
  <1> HIDE DEF link
  <1>8. Plain(link \o tunnel) /\ Left(link \o tunnel) = Left(link) \cup Left(tunnel)
    BY <1>5, <1>7, Joined
  <1>9. /\ link \o tunnel \o retire \in Seq(StepNames)
        /\ Left(link \o tunnel \o retire) = Left(link) \cup Left(tunnel) \cup Left(retire)
        /\ RetiresLast(link \o tunnel \o retire)
    BY <1>6, <1>8, Joined
  <1> QED BY <1>0, <1>1, <1>2, <1>3, <1>5, <1>6, <1>7, <1>9 DEF Building

(***************************************************************************)
(* The inductive invariant.                                                *)
(***************************************************************************)
IsKernel(k) ==
    /\ k = [addrs |-> k.addrs, up |-> k.up, route |-> k.route, ra |-> k.ra,
            sit |-> k.sit, v6 |-> k.v6, table |-> k.table, rules |-> k.rules]
    /\ k.addrs = [d \in Devs |-> k.addrs[d]]
    /\ k.up \subseteq Devs
    /\ k.route # None => k.route.dev \in Devs

IsWant(w) ==
    /\ w.dev # None => w.dev[1] \in Devs
    /\ w.addr # None => w.dev # None
    /\ w.retire # None => /\ w.dev # None /\ w.addr # None
                          /\ w.dev[1] # w.retire[1] \/ w.addr # w.retire[2]

IsOp(o) ==
    /\ o = [want |-> o.want, todo |-> o.todo, failed |-> o.failed, confirmed |-> o.confirmed]
    /\ o.failed \in BOOLEAN
    /\ o.todo \in Seq(StepNames) /\ RetiresLast(o.todo)
    /\ IsWant(o.want)
    /\ o.want.dev = None => Left(o.todo) \cap (Building \cup {"ra"}) = {}
    /\ o.want.addr = None => Left(o.todo) \cap {"addr", "route"} = {}
    /\ "retire" \in Left(o.todo) => o.want.retire # None

IsDocument(d) == d = [up |-> d.up, broker |-> d.broker] /\ d.up \in Uplinks \cup {None}

Shaped == IsDocument(doc) /\ IsKernel(kern) /\ (op # Idle => IsOp(op))

(* What the operations of the apply under way have put in place, as long   *)
(* as none was refused.                                                    *)
OnTheWay ==
    op # Idle /\ op.want.addr # None /\ ~op.failed =>
        /\ "addr" \notin Left(op.todo) => op.want.addr \in kern.addrs[op.want.dev[1]]
        /\ "up" \notin Left(op.todo) => op.want.dev[1] \in kern.up
        /\ "route" \notin Left(op.todo) =>
              kern.route = [dev |-> op.want.dev[1], via |-> Gateway(op.want.addr)]

IInv == Shaped /\ OnTheWay /\ WayOutKept

(* A route is something.                                                   *)
LEMMA RouteIsSome == \A d, v : [dev |-> d, via |-> v] # None
  BY DEF None

LEMMA LinkIsSome == \A d : <<d>> # None /\ <<d>>[1] = d
  BY DEF None

(* What an apply wants of the kernel.                                      *)
LEMMA WantIsWant ==
    ASSUME NEW before, NEW after, NEW remove,
           before.up \in Uplinks \cup {None}, after.up \in Uplinks \cup {None}
    PROVE  IsWant(Want(before, after, remove))
  <1> DEFINE w == Want(before, after, remove)
  <1>1. /\ w.dev = IF after.up = None THEN None ELSE <<after.up.dev>>
        /\ w.addr = IF HasIPv4(after.up) THEN after.up.v4 ELSE None
        /\ w.retire = Retiring(before, after)
    BY DEF Want, DesiredFor
  <1>2. w.dev # None => w.dev[1] = after.up.dev /\ after.up.dev \in Devs
    BY <1>1, LinkIsSome DEF Uplinks
  <1>3. w.addr # None => HasIPv4(after.up) /\ w.addr = after.up.v4 /\ w.dev # None
    BY <1>1, LinkIsSome DEF HasIPv4
  <1>4. w.retire # None =>
          /\ HasIPv4(after.up) /\ w.retire[1] = before.up.dev /\ w.retire[2] = before.up.v4
          /\ before.up.dev # after.up.dev \/ before.up.v4 # after.up.v4
    BY <1>1 DEF Retiring
  <1>5. HasIPv4(after.up) => w.addr = after.up.v4 /\ w.addr # None /\ w.dev # None
    BY <1>1, LinkIsSome DEF HasIPv4
  <1>6. IsWant(w)
    <2> HIDE DEF w
    <2> QED BY <1>2, <1>3, <1>4, <1>5 DEF IsWant
  <1> QED BY <1>6

(* An apply that begins: everything is still to do, and the way out is     *)
(* what it is.                                                             *)
LEMMA Begun ==
    ASSUME NEW w, IsWant(w), NEW ok, NEW todo, todo \in {Steps(w), Append(Steps(w), "host")},
           op' = [want |-> w, todo |-> todo, failed |-> FALSE, confirmed |-> ok]
    PROVE  IsOp(op') /\ OnTheWay'
  <1>2. /\ Steps(w) \in Seq(StepNames) /\ RetiresLast(Steps(w))
        /\ "retire" \in Left(Steps(w)) => w.retire # None /\ w.dev # None
        /\ w.dev # None => "up" \in Left(Steps(w))
        /\ w.dev # None /\ w.addr # None => {"addr", "route"} \subseteq Left(Steps(w))
        /\ w.dev = None => Left(Steps(w)) \cap (Building \cup {"ra"}) = {}
        /\ w.addr = None => Left(Steps(w)) \cap {"addr", "route"} = {}
    BY StepsOrdered
  <1>3. <<"host">> \in Seq(StepNames) /\ RetiresLast(<<"host">>) /\ Left(<<"host">>) = {"host"}
    BY Single DEF StepNames
  <1>4. Append(Steps(w), "host") = Steps(w) \o <<"host">>
    <2>1. "host" \in StepNames
      BY DEF StepNames
    <2> HIDE DEF StepNames
    <2> QED BY <1>2, <2>1, AppendIsConcat
  <1>5. /\ todo \in Seq(StepNames) /\ RetiresLast(todo)
        /\ Left(todo) = Left(Steps(w)) \/ Left(todo) = Left(Steps(w)) \cup {"host"}
    BY <1>2, <1>3, <1>4, Joined DEF Building
  <1>6. IsOp(op')
    BY <1>2, <1>5 DEF IsOp, Building
  <1>7. w.addr # None => {"addr", "up", "route"} \subseteq Left(todo)
    BY <1>2, <1>5 DEF IsWant
  <1> QED BY <1>6, <1>7 DEF OnTheWay

(***************************************************************************)
(* One operation.                                                          *)
(***************************************************************************)
(* An operation that only adds keeps a way out that works.                 *)
LEMMA AddingKeeps ==
    ASSUME NEW k, NEW n, IsKernel(k), Works(k), n.route = k.route, k.up \subseteq n.up,
           \A d \in Devs : k.addrs[d] \subseteq n.addrs[d]
    PROVE  Works(n)
  BY DEF IsKernel, Works

(* What each operation does to addresses, interfaces and the default       *)
(* route: only "retire" takes anything away, and only when nothing failed. *)
LEMMA Operation ==
    ASSUME NEW k, IsKernel(k), NEW w, IsWant(w), NEW step \in StepNames, NEW failed \in BOOLEAN,
           step \in Building \cup {"ra"} => w.dev # None,
           step \in {"addr", "route"} => w.addr # None,
           step = "retire" => w.retire # None,
           ~Refused(k, w, step), NEW n, n = Done(k, w, step, failed)
    PROVE  /\ IsKernel(n)
           /\ step # "retire" \/ failed =>
                k.up \subseteq n.up /\ \A d \in Devs : k.addrs[d] \subseteq n.addrs[d]
           /\ step = "retire" => n.up = k.up /\ n.route = k.route
           /\ step = "retire" /\ ~failed => \A d \in Devs : \A a \in k.addrs[d] :
                a \in n.addrs[d] \/ (d = w.retire[1] /\ a = w.retire[2])
           /\ step # "route" => n.route = k.route
           /\ step = "addr" => w.addr \in n.addrs[w.dev[1]]
           /\ step = "up" => w.dev[1] \in n.up
           /\ step = "route" =>
                n.route = [dev |-> w.dev[1], via |-> Gateway(w.addr)] /\ Works(n)
  <1> DEFINE Same(m) == m = [addrs |-> m.addrs, up |-> m.up, route |-> m.route, ra |-> m.ra,
                            sit |-> m.sit, v6 |-> m.v6, table |-> m.table, rules |-> m.rules]
                        /\ m.addrs = k.addrs /\ m.up = k.up /\ m.route = k.route
  <1>0. Same(k) /\ (step \in Building \cup {"ra"} => w.dev[1] \in Devs)
    BY DEF IsKernel, IsWant
  <1>1. CASE step = "addr"
    <2>1. n = [k EXCEPT !.addrs[w.dev[1]] = @ \cup {w.addr}]
      BY <1>1 DEF Done
    <2>2. /\ n = [addrs |-> n.addrs, up |-> n.up, route |-> n.route, ra |-> n.ra,
                  sit |-> n.sit, v6 |-> n.v6, table |-> n.table, rules |-> n.rules]
          /\ n.addrs = [k.addrs EXCEPT ![w.dev[1]] = @ \cup {w.addr}]
          /\ n.up = k.up /\ n.route = k.route
      BY <2>1, <1>0
    <2> QED BY <1>0, <1>1, <2>2 DEF IsKernel, Building
  <1>2. CASE step = "up"
    <2>1. n = [k EXCEPT !.up = @ \cup {w.dev[1]}]
      BY <1>2 DEF Done, Touch
    <2>2. /\ n = [addrs |-> n.addrs, up |-> n.up, route |-> n.route, ra |-> n.ra,
                  sit |-> n.sit, v6 |-> n.v6, table |-> n.table, rules |-> n.rules]
          /\ n.addrs = k.addrs /\ n.up = k.up \cup {w.dev[1]} /\ n.route = k.route
      BY <2>1, <1>0
    <2> QED BY <1>0, <1>2, <2>2 DEF IsKernel, Building
  <1>3. CASE step = "route"
    <2> DEFINE r == [dev |-> w.dev[1], via |-> Gateway(w.addr)]
    <2>1. n = [k EXCEPT !.route = r]
      BY <1>3 DEF Done
    <2>2. /\ n = [addrs |-> n.addrs, up |-> n.up, route |-> n.route, ra |-> n.ra,
                  sit |-> n.sit, v6 |-> n.v6, table |-> n.table, rules |-> n.rules]
          /\ n.addrs = k.addrs /\ n.up = k.up /\ n.route = r
      BY <2>1, <1>0
    <2>3. w.dev[1] \in k.up /\ w.addr \in k.addrs[w.dev[1]]
      BY <1>3 DEF Refused
    <2>4. r # None /\ r.dev = w.dev[1] /\ r.via = Gateway(w.addr)
      BY RouteIsSome
    <2> HIDE DEF r
    <2>5. Works(n)
      BY <2>2, <2>3, <2>4 DEF Works
    <2>6. IsKernel(n)
      BY <1>0, <1>3, <2>2, <2>4 DEF IsKernel, Building
    <2> QED BY <1>3, <2>2, <2>5, <2>6 DEF r
  <1>4. CASE step = "retire"
    <2>1. CASE failed
      <3>1. n = k
        BY <1>4, <2>1 DEF Done, Retire
      <3> QED BY <1>4, <2>1, <3>1
    <2>2. CASE ~failed
      <3>1. n = [k EXCEPT !.addrs[w.retire[1]] = @ \ {w.retire[2]}]
        BY <1>4, <2>2 DEF Done, Retire
      <3>2. /\ n = [addrs |-> n.addrs, up |-> n.up, route |-> n.route, ra |-> n.ra,
                    sit |-> n.sit, v6 |-> n.v6, table |-> n.table, rules |-> n.rules]
            /\ n.addrs = [k.addrs EXCEPT ![w.retire[1]] = @ \ {w.retire[2]}]
            /\ n.up = k.up /\ n.route = k.route
        BY <3>1, <1>0
      <3> QED BY <1>0, <1>4, <2>2, <3>2 DEF IsKernel
    <2> QED BY <2>1, <2>2
  <1>5. CASE step \in {"ra", "sit", "tunnel", "remove", "host"}
    <2>1. Same(n)
      <3>1. CASE step = "ra"
        BY <1>0, <3>1 DEF Done
      <3>2. CASE step = "sit"
        <4>1. n = Sit(k, w.tunnel)
          BY <3>2 DEF Done
        <4> QED BY <1>0, <4>1 DEF Sit
      <3>3. CASE step = "tunnel"
        <4>1. n = TunnelRoute(k, w.tunnel)
          BY <3>3 DEF Done
        <4> QED BY <1>0, <4>1 DEF TunnelRoute, applyBrokerRouting
      <3>4. CASE step = "remove"
        <4>1. n = Bare(clearBrokerRouting(k))
          BY <3>4 DEF Done, removeTunnel
        <4>2. PICK c : c = clearBrokerRouting(k)
          OBVIOUS
        <4>3. Same(c)
          BY <1>0, <4>2 DEF clearBrokerRouting
        <4> QED BY <4>1, <4>2, <4>3 DEF Bare
      <3>5. CASE step = "host"
        BY <1>0, <3>5 DEF Done
      <3> QED BY <1>5, <3>1, <3>2, <3>3, <3>4, <3>5
    <2> QED BY <1>5, <2>1 DEF IsKernel
  <1> QED BY <1>1, <1>2, <1>3, <1>4, <1>5 DEF StepNames

LEMMA Advanced ==
    ASSUME IsOp(op), op.todo # <<>>, NEW bad \in BOOLEAN, Advance(op, bad), op' # Idle
    PROVE  /\ IsOp(op') /\ op'.want = op.want /\ op'.confirmed = op.confirmed
           /\ op'.failed = (op.failed \/ bad)
           /\ Left(op.todo) = Left(op'.todo) \cup {Head(op.todo)}
  <1>1. op' = [want |-> op.want, todo |-> Tail(op.todo), failed |-> op.failed \/ bad,
               confirmed |-> op.confirmed]
    BY DEF Advance
  <1>2. /\ Tail(op.todo) \in Seq(StepNames) /\ RetiresLast(Tail(op.todo))
        /\ Left(op.todo) = Left(Tail(op.todo)) \cup {Head(op.todo)}
    BY Rest DEF IsOp
  <1> QED BY <1>1, <1>2 DEF IsOp

(* An operation leaves the box its way out, whether it is carried out,     *)
(* refused or not needed.                                                  *)
LEMMA ApplyKeeps ==
    ASSUME IInv, Apply
    PROVE  IInv'
  <1> DEFINE step == Head(op.todo)
             w == op.want
  <1>1. IsOp(op) /\ IsKernel(kern) /\ op.todo # <<>> /\ op # Idle
    BY DEF IInv, Shaped, Apply
  <1>2. /\ step \in StepNames /\ step \in Left(op.todo)
        /\ step = "retire" => Left(op.todo) \cap Building = {}
    BY <1>1, Rest DEF IsOp
  <1>3. IsWant(w) /\ op.failed \in BOOLEAN
    BY <1>1 DEF IsOp
  <1>4. doc' = doc /\ worked' = worked
    BY DEF Apply
  <1>5. CASE kern' = kern /\ Advance(op, TRUE)
    <2>1. op' # Idle => IsOp(op') /\ op'.failed
      BY <1>1, <1>5, Advanced
    <2> QED BY <1>1, <1>4, <1>5, <2>1 DEF IInv, Shaped, OnTheWay, WayOutKept
  <1>6. CASE kern' = kern /\ Advance(op, FALSE) /\ step \notin Building
    <2>1. op' # Idle => /\ IsOp(op') /\ op'.want = w /\ op'.failed = op.failed
                        /\ Left(op.todo) = Left(op'.todo) \cup {step}
      BY <1>1, <1>3, <1>6, Advanced
    <2> QED BY <1>1, <1>4, <1>6, <2>1 DEF IInv, Shaped, OnTheWay, WayOutKept, Building
  <1>7. CASE kern' = Done(kern, w, step, op.failed) /\ Advance(op, FALSE) /\ ~Refused(kern, w, step)
    <2>1. op' # Idle => /\ IsOp(op') /\ op'.want = w /\ op'.failed = op.failed
                        /\ Left(op.todo) = Left(op'.todo) \cup {step}
      BY <1>1, <1>3, <1>7, Advanced
    <2>2. /\ step \in Building \cup {"ra"} => w.dev # None
          /\ step \in {"addr", "route"} => w.addr # None
          /\ step = "retire" => w.retire # None
      BY <1>1, <1>2 DEF IsOp
    <2> HIDE DEF step, w
    <2>3. /\ IsKernel(kern')
          /\ step # "retire" \/ op.failed =>
               kern.up \subseteq kern'.up /\ \A d \in Devs : kern.addrs[d] \subseteq kern'.addrs[d]
          /\ step = "retire" => kern'.up = kern.up /\ kern'.route = kern.route
          /\ step = "retire" /\ ~op.failed => \A d \in Devs : \A a \in kern.addrs[d] :
               a \in kern'.addrs[d] \/ (d = w.retire[1] /\ a = w.retire[2])
          /\ step # "route" => kern'.route = kern.route
          /\ step = "addr" => w.addr \in kern'.addrs[w.dev[1]]
          /\ step = "up" => w.dev[1] \in kern'.up
          /\ step = "route" =>
               kern'.route = [dev |-> w.dev[1], via |-> Gateway(w.addr)] /\ Works(kern')
      BY <1>1, <1>2, <1>3, <1>7, <2>2, Operation
    <2>4. Shaped'
      BY <1>4, <2>1, <2>3 DEF IInv, Shaped
    <2>5. CASE step # "retire" \/ op.failed
      <3>1. WayOutKept'
        <4>1. CASE step = "route"
          BY <2>3, <4>1 DEF WayOutKept
        <4>2. CASE step # "route"
          <5>1. Works(kern) => Works(kern')
            BY <1>1, <2>3, <2>5, <4>2, AddingKeeps
          <5> QED BY <1>1, <1>4, <5>1 DEF IInv, WayOutKept
        <4> QED BY <4>1, <4>2
      <3>2. OnTheWay'
        <4> SUFFICES ASSUME op' # Idle, op'.want.addr # None, ~op'.failed
                     PROVE  /\ "addr" \notin Left(op'.todo) => w.addr \in kern'.addrs[w.dev[1]]
                            /\ "up" \notin Left(op'.todo) => w.dev[1] \in kern'.up
                            /\ "route" \notin Left(op'.todo) =>
                                  kern'.route = [dev |-> w.dev[1], via |-> Gateway(w.addr)]
          BY <2>1 DEF OnTheWay
        <4>1. /\ "addr" \notin Left(op.todo) => w.addr \in kern.addrs[w.dev[1]]
              /\ "up" \notin Left(op.todo) => w.dev[1] \in kern.up
              /\ "route" \notin Left(op.todo) =>
                    kern.route = [dev |-> w.dev[1], via |-> Gateway(w.addr)]
          BY <1>1, <2>1 DEF IInv, OnTheWay, w
        <4>2. w.dev[1] \in Devs
          BY <1>3, <2>1 DEF IsWant
        <4> QED BY <2>1, <2>3, <2>5, <4>1, <4>2
      <3> QED BY <2>4, <3>1, <3>2 DEF IInv
    <2>6. CASE step = "retire" /\ ~op.failed
      <3>1. /\ w.addr # None /\ w.dev # None /\ w.dev[1] \in Devs
            /\ w.dev[1] # w.retire[1] \/ w.addr # w.retire[2]
        BY <1>3, <2>2, <2>6 DEF IsWant
      <3>2. /\ w.addr \in kern.addrs[w.dev[1]] /\ w.dev[1] \in kern.up
            /\ kern.route = [dev |-> w.dev[1], via |-> Gateway(w.addr)]
        BY <1>1, <1>2, <2>6, <3>1 DEF IInv, OnTheWay, Building, w
      <3>3. /\ w.addr \in kern'.addrs[w.dev[1]] /\ w.dev[1] \in kern'.up
            /\ kern'.route = [dev |-> w.dev[1], via |-> Gateway(w.addr)]
        BY <2>3, <2>6, <3>1, <3>2
      <3>4. Works(kern')
        BY <3>3, RouteIsSome DEF Works
      <3> QED BY <2>1, <2>4, <3>3, <3>4 DEF IInv, OnTheWay, WayOutKept
    <2> QED BY <2>5, <2>6
  <1>8. Skipped(kern, step, op) => step \notin Building
    BY DEF Skipped, Building
  <1> QED BY <1>5, <1>6, <1>7, <1>8 DEF Apply

(* A request, a rollback and a start leave a plan of which nothing has     *)
(* been done.                                                              *)
LEMMA StartKeeps ==
    ASSUME IInv, NEW before, NEW remove, NEW todo, NEW ok,
           IsDocument(before), IsDocument(doc'),
           todo \in {Steps(Want(before, doc', remove)),
                     Append(Steps(Want(before, doc', remove)), "host")},
           op' = [want |-> Want(before, doc', remove), todo |-> todo, failed |-> FALSE,
                  confirmed |-> ok],
           IsKernel(kern'), worked' = Works(kern')
    PROVE  IInv'
  <1>1. IsWant(Want(before, doc', remove))
    BY WantIsWant DEF IsDocument
  <1>2. IsOp(op') /\ OnTheWay'
    BY <1>1, Begun
  <1> QED BY <1>2 DEF IInv, Shaped, WayOutKept

LEMMA RequestKeeps ==
    ASSUME IInv, NEW next, NEW ok, IsDocument(next), ApplyChecked(next, ok)
    PROVE  IInv'
  <1>1. doc' = next /\ kern' = kern /\ IsDocument(doc) /\ IsKernel(kern)
    BY DEF ApplyChecked, IInv, Shaped
  <1>2. CASE UNCHANGED <<op, worked>>
    BY <1>1, <1>2 DEF IInv, Shaped, OnTheWay, WayOutKept
  <1>3. CASE ~profileOnlyChange(doc, next)
    <2> DEFINE w == Want(doc, next, RemovingTunnel(doc, next) \/ Inventory(next))
    <2>1. /\ op' = [want |-> w, todo |-> Append(Steps(w), "host"), failed |-> FALSE, confirmed |-> ok]
          /\ worked' = Works(kern)
      BY <1>3 DEF ApplyChecked, Start
    <2>2. PICK remove : remove = (RemovingTunnel(doc, next) \/ Inventory(next))
      OBVIOUS
    <2> QED BY <1>1, <2>1, <2>2, StartKeeps
  <1> QED BY <1>2, <1>3 DEF ApplyChecked

LEMMA BareKernels ==
    /\ IsKernel(Bare0)
    /\ \A d \in Devs : \A a \in Statics : IsKernel(Distribution(d, a))
  <1>1. IsKernel(Bare0)
    BY DEF Bare0, IsKernel, None
  <1>2. ASSUME NEW d \in Devs, NEW a \in Statics
        PROVE  IsKernel(Distribution(d, a))
    <2>1. PICK n : n = Distribution(d, a)
      OBVIOUS
    <2>2. /\ n = [addrs |-> n.addrs, up |-> n.up, route |-> n.route, ra |-> n.ra,
                  sit |-> n.sit, v6 |-> n.v6, table |-> n.table, rules |-> n.rules]
          /\ n.addrs = [[e \in Devs |-> {}] EXCEPT ![d] = {a}]
          /\ n.up = {d} /\ n.route = [dev |-> d, via |-> Gateway(a)]
      BY <2>1 DEF Distribution, Bare0
    <2>3. n.route.dev = d
      <3>1. n.route = [dev |-> d, via |-> Gateway(a)]
        BY <2>2
      <3> QED BY <3>1
    <2>4. n.addrs = [e \in Devs |-> n.addrs[e]]
      <3>1. n.addrs = [[e \in Devs |-> {}] EXCEPT ![d] = {a}]
        BY <2>2
      <3> QED BY <3>1
    <2>5. IsKernel(n)
      BY <2>2, <2>3, <2>4 DEF IsKernel
    <2> QED BY <2>1, <2>5
  <1> QED BY <1>1, <1>2

LEMMA Edited ==
    ASSUME NEW d, IsDocument(d)
    PROVE  /\ \A u \in Uplinks \cup {None} : IsDocument([d EXCEPT !.up = u])
           /\ \A b : IsDocument([d EXCEPT !.broker = b])
  <1>1. ASSUME NEW u \in Uplinks \cup {None}
        PROVE  IsDocument([d EXCEPT !.up = u])
    <2>1. [d EXCEPT !.up = u] = [up |-> u, broker |-> d.broker]
      BY DEF IsDocument
    <2>2. PICK n : n = [up |-> u, broker |-> d.broker]
      OBVIOUS
    <2> QED BY <2>1, <2>2 DEF IsDocument
  <1>2. ASSUME NEW b
        PROVE  IsDocument([d EXCEPT !.broker = b])
    <2>1. [d EXCEPT !.broker = b] = [up |-> d.up, broker |-> b]
      BY DEF IsDocument
    <2>2. PICK n : n = [up |-> d.up, broker |-> b]
      OBVIOUS
    <2> QED BY <2>1, <2>2 DEF IsDocument
  <1> QED BY <1>1, <1>2

LEMMA Kept ==
    ASSUME IInv, [Next]_vars
    PROVE  IInv'
  <1>0. IsDocument(doc) /\ IsKernel(kern)
    BY DEF IInv, Shaped
  <1>1. CASE putUplink
    <2>1. PICK u \in Uplinks, ok \in BOOLEAN : ApplyChecked([doc EXCEPT !.up = u], ok)
      BY <1>1 DEF putUplink
    <2> QED BY <1>0, <2>1, Edited, RequestKeeps
  <1>2. CASE deleteUplink
    <2>1. PICK ok \in BOOLEAN : ApplyChecked([doc EXCEPT !.up = None], ok)
      BY <1>2 DEF deleteUplink
    <2> QED BY <1>0, <2>1, Edited, RequestKeeps
  <1>3. CASE patchBroker
    <2>1. PICK b \in Brokers \cup {None}, ok \in BOOLEAN : ApplyChecked([doc EXCEPT !.broker = b], ok)
      BY <1>3 DEF patchBroker
    <2> QED BY <1>0, <2>1, Edited, RequestKeeps
  <1>4. CASE putConfig
    <2>1. PICK u \in Uplinks, b \in Brokers, ok \in BOOLEAN : ApplyChecked([up |-> u, broker |-> b], ok)
      BY <1>4 DEF putConfig
    <2>2. PICK n : n = [up |-> u, broker |-> b]
      OBVIOUS
    <2>3. IsDocument(n)
      BY <2>2 DEF IsDocument
    <2> QED BY <2>1, <2>2, <2>3, RequestKeeps
  <1>5. CASE postApply
    BY <1>0, <1>5, RequestKeeps DEF postApply
  <1>6. CASE Recover
    <2>1. PICK u \in Uplinks : doc' = [doc EXCEPT !.up = u]
      BY <1>6 DEF Recover
    <2>2. IsDocument(doc')
      BY <1>0, <2>1, Edited
    <2>3. PICK remove : remove = RemovingTunnel(doc, doc')
      OBVIOUS
    <2> QED BY <1>0, <1>6, <2>2, <2>3, StartKeeps DEF Recover, Start
  <1>7. CASE Apply
    BY <1>7, ApplyKeeps
  <1>8. CASE Nothing
    BY <1>0, <1>8 DEF Nothing, IInv, Shaped, OnTheWay, WayOutKept
  <1>9. CASE Crash
    <2>1. IsDocument(doc') /\ IsKernel(kern') /\ doc' = doc
      BY <1>0, <1>9 DEF Crash
    <2> QED BY <1>0, <1>9, <2>1, StartKeeps DEF Crash, Restore
  <1>10. CASE Reboot
    <2>1. IsDocument(doc') /\ doc' = doc
      BY <1>0, <1>10 DEF Reboot
    <2>2. IsKernel(kern')
      BY <1>10, BareKernels DEF Reboot
    <2> QED BY <1>0, <1>10, <2>1, <2>2, StartKeeps DEF Reboot, Restore
  <1>11. CASE UNCHANGED vars
    BY <1>11 DEF vars, IInv, Shaped, OnTheWay, WayOutKept
  <1> QED BY <1>1, <1>2, <1>3, <1>4, <1>5, <1>6, <1>7, <1>8, <1>9, <1>10, <1>11 DEF Next

(* At every operation of an apply, what the ones before it were for is in  *)
(* place unless one of them was refused (Writer.Apply's order).            *)
THEOREM AlwaysUnderWay == Spec => []IInv
  <1>1. Init => IInv
    BY BareKernels DEF Init, IInv, Shaped, IsDocument, OnTheWay, WayOutKept
  <1> QED BY <1>1, Kept, PTL DEF Spec

(* A box that reaches the internet when an apply begins reaches it after   *)
(* each of the apply's operations, whichever is refused and wherever the   *)
(* daemon dies: the previous address goes last (writer_linux.go:146).      *)
THEOREM StaysConnected == Spec => []WayOutKept
  <1>1. IInv => WayOutKept
    BY DEF IInv
  <1> QED BY <1>1, AlwaysUnderWay, PTL

(***************************************************************************)
(* What an unconfirmed request may not do.  The gate looks at the kernel   *)
(* once, before the first operation; Unhurt is what of its answer is still *)
(* true when the operation it was about is next.                           *)
(***************************************************************************)
RouteShaped == kern.route # None => kern.route = [dev |-> kern.route.dev, via |-> kern.route.via]

Unhurt ==
    op # Idle /\ ~op.confirmed =>
        /\ "route" \in Left(op.todo) =>
              kern.route \in {None, [dev |-> op.want.dev[1], via |-> Gateway(op.want.addr)]}
        /\ "sit" \in Left(op.todo) /\ kern.sit # None => sitMatches(kern.sit, op.want.tunnel)
        /\ "tunnel" \in Left(op.todo) /\ ~op.want.tunnel.source => kern.v6 # "native"
        /\ "remove" \in Left(op.todo) => kern.sit = None

OneTunnelStep ==
    op # Idle /\ "remove" \in Left(op.todo) => "sit" \notin Left(op.todo)

GateHolds == RouteShaped /\ Unhurt /\ OneTunnelStep

(* What each operation does to the tunnel and to IPv6.                     *)
LEMMA TunnelOperation ==
    ASSUME NEW k, IsKernel(k), NEW w, NEW step \in StepNames, NEW failed \in BOOLEAN,
           NEW n, n = Done(k, w, step, failed)
    PROVE  /\ step \notin {"sit", "tunnel", "remove"} => n.sit = k.sit /\ n.v6 = k.v6
           /\ step = "sit" /\ k.sit # None /\ sitMatches(k.sit, w.tunnel) => n = k
           /\ step = "sit" => sitMatches(n.sit, w.tunnel)
           /\ step = "tunnel" => n.sit = k.sit
           /\ step = "tunnel" /\ w.tunnel.source => n.v6 = k.v6
           /\ step = "tunnel" /\ ~w.tunnel.source => n.v6 # "native"
           /\ step = "remove" => n.sit = None
           /\ step \in {"sit", "remove"} => (n.v6 = "native" <=> k.v6 = "native")
           /\ step # "route" => n.route = k.route
           /\ step = "route" => n.route = [dev |-> w.dev[1], via |-> Gateway(w.addr)]
  <1>0. k = [addrs |-> k.addrs, up |-> k.up, route |-> k.route, ra |-> k.ra,
             sit |-> k.sit, v6 |-> k.v6, table |-> k.table, rules |-> k.rules]
    BY DEF IsKernel
  <1>1. CASE step = "addr"
    <2>1. n = [k EXCEPT !.addrs = [k.addrs EXCEPT ![w.dev[1]] = @ \cup {w.addr}]]
      BY <1>0, <1>1 DEF Done
    <2> QED BY <1>0, <1>1, <2>1
  <1>2. CASE step = "up"
    BY <1>0, <1>2 DEF Done, Touch
  <1>3. CASE step = "route"
    <2> DEFINE r == [dev |-> w.dev[1], via |-> Gateway(w.addr)]
    <2>1. n = [k EXCEPT !.route = r]
      BY <1>3 DEF Done
    <2> HIDE DEF r
    <2>2. n.route = r /\ n.sit = k.sit /\ n.v6 = k.v6
      BY <1>0, <2>1
    <2> QED BY <1>3, <2>2 DEF r
  <1>4. CASE step = "ra"
    BY <1>0, <1>4 DEF Done
  <1>5. CASE step = "sit"
    <2>1. n = Sit(k, w.tunnel)
      BY <1>5 DEF Done
    <2>2. CASE k.sit # None /\ sitMatches(k.sit, w.tunnel)
      BY <1>5, <2>1, <2>2 DEF Sit
    <2>3. CASE ~(k.sit # None /\ sitMatches(k.sit, w.tunnel))
      <3>1. PICK s : s = [remote |-> w.tunnel.remote, local |-> w.tunnel.local]
        OBVIOUS
      <3>2. PICK v : v = IF k.v6 = "tunnel" THEN "none" ELSE k.v6
        OBVIOUS
      <3>3. n = [k EXCEPT !.sit = s, !.v6 = v, !.table = FALSE]
        BY <1>0, <2>1, <2>3, <3>1, <3>2 DEF Sit
      <3>4. n.sit = s /\ n.v6 = v /\ n.route = k.route
        BY <1>0, <3>3
      <3>5. sitMatches(s, w.tunnel)
        BY <3>1 DEF sitMatches
      <3>6. v = "native" <=> k.v6 = "native"
        BY <3>2
      <3> QED BY <1>5, <2>3, <3>4, <3>5, <3>6
    <2> QED BY <2>2, <2>3
  <1>6. CASE step = "tunnel"
    <2>1. n = TunnelRoute(k, w.tunnel)
      BY <1>6 DEF Done
    <2>2. CASE w.tunnel.source
      BY <1>0, <1>6, <2>1, <2>2 DEF TunnelRoute, applyBrokerRouting
    <2>3. CASE ~w.tunnel.source
      BY <1>0, <1>6, <2>1, <2>3 DEF TunnelRoute
    <2> QED BY <2>2, <2>3
  <1>7. CASE step = "remove"
    <2>1. PICK c : c = clearBrokerRouting(k)
      OBVIOUS
    <2>2. n = Bare(c)
      BY <1>7, <2>1 DEF Done, removeTunnel
    <2>3. c = [addrs |-> k.addrs, up |-> k.up, route |-> k.route, ra |-> k.ra,
               sit |-> k.sit, v6 |-> k.v6, table |-> FALSE, rules |-> {}]
      BY <1>0, <2>1 DEF clearBrokerRouting
    <2>4. PICK v : v = IF k.v6 = "tunnel" THEN "none" ELSE k.v6
      OBVIOUS
    <2>5. n.sit = None /\ n.v6 = v /\ n.route = k.route
      BY <2>2, <2>3, <2>4 DEF Bare
    <2>6. v = "native" <=> k.v6 = "native"
      BY <2>4
    <2> QED BY <1>7, <2>5, <2>6
  <1>8. CASE step = "retire"
    <2>1. CASE failed
      BY <1>8, <2>1 DEF Done, Retire
    <2>2. CASE ~failed
      <3>1. n = [k EXCEPT !.addrs = [k.addrs EXCEPT ![w.retire[1]] = @ \ {w.retire[2]}]]
        BY <1>0, <1>8, <2>2 DEF Done, Retire
      <3> QED BY <1>0, <1>8, <3>1
    <2> QED BY <2>1, <2>2
  <1>9. CASE step = "host"
    BY <1>9 DEF Done
  <1> QED BY <1>1, <1>2, <1>3, <1>4, <1>5, <1>6, <1>7, <1>8, <1>9 DEF StepNames

(* An operation of an unconfirmed request takes nothing, and leaves to the *)
(* ones after it what the gate saw.                                        *)
LEMMA OperationSpares ==
    ASSUME IInv, GateHolds, Apply
    PROVE  GateHolds' /\ KeepsRoutes
  <1> DEFINE step == Head(op.todo)
             w == op.want
             target == [dev |-> w.dev[1], via |-> Gateway(w.addr)]
  <1>1. IsOp(op) /\ IsKernel(kern) /\ op.todo # <<>> /\ op # Idle
    BY DEF IInv, Shaped, Apply
  <1>2. step \in StepNames /\ step \in Left(op.todo) /\ op.failed \in BOOLEAN
    BY <1>1, Rest DEF IsOp
  <1>3. op' # Idle => /\ op'.want = w /\ op'.confirmed = op.confirmed
                      /\ Left(op.todo) = Left(op'.todo) \cup {step}
    BY <1>1, Advanced DEF Apply
  <1>4. CASE kern' = kern
    <2>1. GateHolds'
      BY <1>1, <1>3, <1>4 DEF GateHolds, RouteShaped, Unhurt, OneTunnelStep
    <2> QED BY <1>4, <2>1 DEF KeepsRoutes
  <1>5. CASE kern' = Done(kern, w, step, op.failed)
    <2> HIDE DEF step, w
    <2>1. /\ step \notin {"sit", "tunnel", "remove"} => kern'.sit = kern.sit /\ kern'.v6 = kern.v6
          /\ step = "sit" /\ kern.sit # None /\ sitMatches(kern.sit, w.tunnel) => kern' = kern
          /\ step = "sit" => sitMatches(kern'.sit, w.tunnel)
          /\ step = "tunnel" => kern'.sit = kern.sit
          /\ step = "tunnel" /\ w.tunnel.source => kern'.v6 = kern.v6
          /\ step = "tunnel" /\ ~w.tunnel.source => kern'.v6 # "native"
          /\ step = "remove" => kern'.sit = None
          /\ step \in {"sit", "remove"} => (kern'.v6 = "native" <=> kern.v6 = "native")
          /\ step # "route" => kern'.route = kern.route
          /\ step = "route" => kern'.route = target
      BY <1>1, <1>2, <1>5, TunnelOperation
    <2>2. ~op.confirmed =>
             /\ "route" \in Left(op.todo) => kern.route \in {None, target}
             /\ "sit" \in Left(op.todo) /\ kern.sit # None => sitMatches(kern.sit, w.tunnel)
             /\ "tunnel" \in Left(op.todo) /\ ~w.tunnel.source => kern.v6 # "native"
             /\ "remove" \in Left(op.todo) => kern.sit = None
      BY <1>1 DEF GateHolds, Unhurt, w
    <2>3. "remove" \in Left(op.todo) => "sit" \notin Left(op.todo)
      BY <1>1 DEF GateHolds, OneTunnelStep
    <2>4. RouteShaped'
      <3>1. target.dev = w.dev[1] /\ target.via = Gateway(w.addr)
        OBVIOUS
      <3> QED BY <2>1, <3>1 DEF GateHolds, RouteShaped
    <2> HIDE DEF target
    <2>5. OneTunnelStep'
      BY <1>3, <2>3 DEF OneTunnelStep
    <2>6. ASSUME op' # Idle, ~op'.confirmed
          PROVE  /\ "route" \in Left(op'.todo) => kern'.route \in {None, target}
                 /\ "sit" \in Left(op'.todo) /\ kern'.sit # None => sitMatches(kern'.sit, w.tunnel)
                 /\ "tunnel" \in Left(op'.todo) /\ ~w.tunnel.source => kern'.v6 # "native"
                 /\ "remove" \in Left(op'.todo) => kern'.sit = None
      <3>1. "route" \in Left(op'.todo) => kern'.route \in {None, target}
        BY <1>3, <2>1, <2>2, <2>6
      <3>2. "sit" \in Left(op'.todo) /\ kern'.sit # None => sitMatches(kern'.sit, w.tunnel)
        BY <1>3, <2>1, <2>2, <2>6
      <3>3. "tunnel" \in Left(op'.todo) /\ ~w.tunnel.source => kern'.v6 # "native"
        BY <1>3, <2>1, <2>2, <2>6
      <3>4. "remove" \in Left(op'.todo) => kern'.sit = None
        BY <1>2, <1>3, <2>1, <2>2, <2>3, <2>6
      <3> QED BY <3>1, <3>2, <3>3, <3>4
    <2>7. Unhurt'
      BY <1>3, <2>6 DEF Unhurt, target
    <2>8. ASSUME ~op.confirmed
          PROVE  /\ kern.route # None => kern'.route = kern.route
                 /\ kern.v6 = "native" => kern'.v6 = "native"
                 /\ kern.sit # None => kern'.sit = kern.sit
      <3>1. kern.route # None => kern'.route = kern.route
        BY <1>2, <2>1, <2>2, <2>8
      <3>2. kern.v6 = "native" => kern'.v6 = "native"
        BY <1>2, <2>1, <2>2, <2>8
      <3>3. kern.sit # None => kern'.sit = kern.sit
        BY <1>2, <2>1, <2>2, <2>8
      <3> QED BY <3>1, <3>2, <3>3
    <2> QED BY <2>4, <2>5, <2>7, <2>8 DEF GateHolds, KeepsRoutes
  <1> QED BY <1>4, <1>5 DEF Apply

(* The operations of an apply that begins.                                 *)
LEMMA BegunWith ==
    ASSUME NEW w, NEW todo, todo \in {Steps(w), Append(Steps(w), "host")}
    PROVE  /\ Left(todo) \subseteq Left(Steps(w)) \cup {"host"}
           /\ "route" \in Left(todo) => w.addr # None
           /\ Left(todo) \cap {"sit", "tunnel"} # {} => w.tunnel # None
           /\ "remove" \in Left(todo) => w.tunnel = None /\ w.remove
  <1>1. Steps(w) \in Seq(StepNames)
    BY StepsOrdered
  <1>2. "host" \in StepNames
    BY DEF StepNames
  <1>3. <<"host">> \in Seq(StepNames) /\ Left(<<"host">>) = {"host"}
    BY <1>2, Single
  <1>4. Append(Steps(w), "host") = Steps(w) \o <<"host">>
    <2> HIDE DEF StepNames
    <2> QED BY <1>1, <1>2, AppendIsConcat
  <1>5. Left(todo) \subseteq Left(Steps(w)) \cup {"host"}
    BY <1>1, <1>3, <1>4, Joined
  <1> QED BY <1>5, StepsOrdered

(* A start or a rollback asks nobody, so only its operations are at stake. *)
LEMMA ConfirmedStart ==
    ASSUME NEW w, NEW todo, NEW failed, todo \in {Steps(w), Append(Steps(w), "host")},
           op' = [want |-> w, todo |-> todo, failed |-> failed, confirmed |-> TRUE], RouteShaped'
    PROVE  GateHolds'
  BY BegunWith DEF GateHolds, Unhurt, OneTunnelStep

(* What a plan that is not disruptive leaves alone (buildPlan).            *)
LEMMA GateSays ==
    ASSUME NEW before, NEW after, NEW k, ~Disruptive(before, after, k),
           ~profileOnlyChange(before, after), NEW w, w = DesiredFor(after)
    PROVE  /\ HasIPv4(after.up) /\ k.route # None =>
                k.route.via = Gateway(w.addr) /\ <<k.route.dev>> = w.dev
           /\ w.tunnel # None /\ k.sit # None => sitMatches(k.sit, w.tunnel)
           /\ w.tunnel # None /\ ~w.tunnel.source => k.v6 # "native"
           /\ RemovingTunnel(before, after) \/ Inventory(after) => k.sit = None
  <1>1. HasIPv4(after.up) => ~ReplacesGateway(w, k)
    BY DEF Disruptive
  <1>2. ~PlanTunnel(w.tunnel, k).hurts
    BY DEF Disruptive
  <1>3. RemovingTunnel(before, after) \/ Inventory(after) => k.sit = None
    BY DEF Disruptive
  <1>4. ASSUME w.tunnel # None
        PROVE  /\ k.sit # None => sitMatches(k.sit, w.tunnel)
               /\ ~w.tunnel.source => k.v6 # "native"
    <2> DEFINE t == w.tunnel
               create == k.sit = None \/ ~sitMatches(k.sit, t)
               route  == IF t.source THEN ~k.table \/ k.rules # t.src ELSE k.v6 # "tunnel"
    <2>1. PICK H : H = ((create /\ k.sit # None) \/ (~t.source /\ (route \/ create) /\ k.v6 = "native"))
      OBVIOUS
    <2>2. PICK S : S = (create \/ route)
      OBVIOUS
    <2>3. PlanTunnel(t, k) = [steps |-> S, hurts |-> H]
      BY <1>4, <2>1, <2>2 DEF PlanTunnel
    <2>4. ~H
      BY <1>2, <2>3
    <2> QED BY <2>1, <2>4
  <1> QED BY <1>1, <1>3, <1>4 DEF ReplacesGateway

(* A request: what the gate saw is what the first operation will meet.     *)
LEMMA RequestSpares ==
    ASSUME IInv, GateHolds, NEW next, NEW ok \in BOOLEAN, ApplyChecked(next, ok)
    PROVE  GateHolds'
  <1>1. kern' = kern
    BY DEF ApplyChecked
  <1>2. CASE UNCHANGED <<op, worked>>
    BY <1>1, <1>2 DEF GateHolds, RouteShaped, Unhurt, OneTunnelStep
  <1>3. CASE ~profileOnlyChange(doc, next)
    <2> DEFINE d == DesiredFor(next)
    <2>1. PICK remove : remove = (RemovingTunnel(doc, next) \/ Inventory(next))
      OBVIOUS
    <2>2. PICK w : w = Want(doc, next, remove)
      OBVIOUS
    <2>3. op' = [want |-> w, todo |-> Append(Steps(w), "host"), failed |-> FALSE, confirmed |-> ok]
      BY <1>3, <2>1, <2>2 DEF ApplyChecked, Start
    <2>4. /\ w.dev = d.dev /\ w.addr = d.addr /\ w.tunnel = d.tunnel /\ w.remove = remove
      BY <2>2 DEF Want
    <2>5. w.addr # None => HasIPv4(next.up)
      BY <2>4 DEF DesiredFor
    <2>6. PICK todo : todo = Append(Steps(w), "host")
      OBVIOUS
    <2>7. /\ op' # Idle => op'.want = w /\ op'.todo = todo /\ op'.confirmed = ok
          /\ "route" \in Left(todo) => w.addr # None
          /\ Left(todo) \cap {"sit", "tunnel"} # {} => w.tunnel # None
          /\ "remove" \in Left(todo) => w.tunnel = None /\ w.remove
      BY <2>3, <2>6, BegunWith
    <2>8. RouteShaped'
      BY <1>1 DEF GateHolds, RouteShaped
    <2>9. OneTunnelStep'
      BY <2>7 DEF OneTunnelStep
    <2>10. ASSUME ~ok
           PROVE  /\ "route" \in Left(todo) =>
                        kern.route \in {None, [dev |-> w.dev[1], via |-> Gateway(w.addr)]}
                  /\ "sit" \in Left(todo) /\ kern.sit # None => sitMatches(kern.sit, w.tunnel)
                  /\ "tunnel" \in Left(todo) /\ ~w.tunnel.source => kern.v6 # "native"
                  /\ "remove" \in Left(todo) => kern.sit = None
      <3>1. ~Disruptive(doc, next, kern)
        BY <2>10 DEF ApplyChecked
      <3>2. /\ HasIPv4(next.up) /\ kern.route # None =>
                  kern.route.via = Gateway(d.addr) /\ <<kern.route.dev>> = d.dev
            /\ d.tunnel # None /\ kern.sit # None => sitMatches(kern.sit, d.tunnel)
            /\ d.tunnel # None /\ ~d.tunnel.source => kern.v6 # "native"
            /\ RemovingTunnel(doc, next) \/ Inventory(next) => kern.sit = None
        BY <1>3, <3>1, GateSays
      <3> HIDE DEF d
      <3>3. ASSUME "route" \in Left(todo), kern.route # None
            PROVE  kern.route = [dev |-> w.dev[1], via |-> Gateway(w.addr)]
        <4>1. kern.route.via = Gateway(w.addr) /\ <<kern.route.dev>> = w.dev
          BY <2>4, <2>5, <2>7, <3>2, <3>3
        <4>2. kern.route.dev = w.dev[1]
          BY <4>1, LinkIsSome
        <4>3. kern.route = [dev |-> kern.route.dev, via |-> kern.route.via]
          BY <3>3 DEF GateHolds, RouteShaped
        <4> QED BY <4>1, <4>2, <4>3
      <3>4. "sit" \in Left(todo) /\ kern.sit # None => sitMatches(kern.sit, w.tunnel)
        BY <2>4, <2>7, <3>2
      <3>5. "tunnel" \in Left(todo) /\ ~w.tunnel.source => kern.v6 # "native"
        BY <2>4, <2>7, <3>2
      <3>6. "remove" \in Left(todo) => kern.sit = None
        BY <2>1, <2>4, <2>7, <3>2
      <3> QED BY <3>3, <3>4, <3>5, <3>6
    <2>11. Unhurt'
      BY <1>1, <2>7, <2>10 DEF Unhurt
    <2> QED BY <2>8, <2>9, <2>11 DEF GateHolds
  <1> QED BY <1>2, <1>3 DEF ApplyChecked

LEMMA BareRoutes ==
    \A k \in {Bare0} \cup {Distribution(d, a) : d \in Devs, a \in Statics} :
        k.route # None => k.route = [dev |-> k.route.dev, via |-> k.route.via]
  <1>1. Bare0.route = None
    BY DEF Bare0
  <1>2. ASSUME NEW d \in Devs, NEW a \in Statics
        PROVE  LET r == Distribution(d, a).route IN r = [dev |-> r.dev, via |-> r.via]
    <2>1. PICK r : r = Distribution(d, a).route
      OBVIOUS
    <2>2. r = [dev |-> d, via |-> Gateway(a)]
      BY <2>1 DEF Distribution, Bare0
    <2>3. r = [dev |-> r.dev, via |-> r.via]
      BY <2>2
    <2> QED BY <2>1, <2>3
  <1> QED BY <1>1, <1>2

LEMMA Spared ==
    ASSUME IInv, GateHolds, [Next]_vars
    PROVE  GateHolds' /\ [KeepsRoutes]_vars
  <1>1. CASE Apply
    BY <1>1, OperationSpares
  <1>2. ~Apply => KeepsRoutes
    BY DEF KeepsRoutes
  <1>3. CASE putUplink \/ deleteUplink \/ patchBroker \/ putConfig \/ postApply
    <2>1. CASE putUplink
      BY <1>1, <1>2, <2>1, RequestSpares DEF putUplink
    <2>2. CASE deleteUplink
      BY <1>1, <1>2, <2>2, RequestSpares DEF deleteUplink
    <2>3. CASE patchBroker
      BY <1>1, <1>2, <2>3, RequestSpares DEF patchBroker
    <2>4. CASE putConfig
      BY <1>1, <1>2, <2>4, RequestSpares DEF putConfig
    <2>5. CASE postApply
      BY <1>1, <1>2, <2>5, RequestSpares DEF postApply
    <2> QED BY <1>3, <2>1, <2>2, <2>3, <2>4, <2>5
  <1>4. CASE Recover
    <2>1. kern' = kern
      BY <1>4 DEF Recover
    <2>2. RouteShaped'
      BY <2>1 DEF GateHolds, RouteShaped
    <2>3. PICK w : op' = [want |-> w, todo |-> Steps(w), failed |-> FALSE, confirmed |-> TRUE]
      BY <1>4 DEF Recover, Start
    <2>4. GateHolds'
      BY <2>2, <2>3, ConfirmedStart
    <2> QED BY <1>1, <1>2, <2>4
  <1>5. CASE Nothing
    <2>1. GateHolds'
      BY <1>5 DEF Nothing, GateHolds, RouteShaped, Unhurt, OneTunnelStep
    <2> QED BY <1>1, <1>2, <2>1
  <1>6. CASE Crash \/ Reboot
    <2>1. RouteShaped'
      BY <1>6, BareRoutes DEF Crash, Reboot, GateHolds, RouteShaped
    <2>2. Restore(kern) \/ Restore(kern')
      BY <1>6 DEF Crash, Reboot
    <2>3. LET w == Want(doc, doc, FALSE)
          IN  op' = [want |-> w, todo |-> Steps(w), failed |-> FALSE, confirmed |-> TRUE]
      BY <2>2 DEF Restore
    <2>4. PICK w : w = Want(doc, doc, FALSE)
      OBVIOUS
    <2>5. op' = [want |-> w, todo |-> Steps(w), failed |-> FALSE, confirmed |-> TRUE]
      BY <2>3, <2>4
    <2>6. GateHolds'
      BY <2>1, <2>5, ConfirmedStart
    <2> QED BY <1>1, <1>2, <2>6
  <1>7. CASE UNCHANGED vars
    <2>1. GateHolds'
      BY <1>7 DEF vars, GateHolds, RouteShaped, Unhurt, OneTunnelStep
    <2> QED BY <1>7, <2>1
  <1> QED BY <1>1, <1>3, <1>4, <1>5, <1>6, <1>7 DEF Next

(* No operation of a request that was not confirmed replaces a default     *)
(* route, takes IPv6 off its native route or replaces or removes a tunnel, *)
(* whatever drift, refusals and restarts the kernel was left with          *)
(* (buildPlan, uplinkImpact): what the gate saw before the first operation *)
(* still holds at the operation it was about.                              *)
THEOREM UnconfirmedKeepsRoutes == Spec => RoutesSpared
  <1>1. Init => GateHolds
    BY BareRoutes DEF Init, GateHolds, RouteShaped, Unhurt, OneTunnelStep
  <1> QED BY <1>1, AlwaysUnderWay, Spared, PTL DEF Spec, RoutesSpared

=============================================================================
