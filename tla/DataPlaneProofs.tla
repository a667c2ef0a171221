-------------------------- MODULE DataPlaneProofs --------------------------
(***************************************************************************)
(* What the two nftables tables let through, for any interfaces, networks, *)
(* forwards and packets.  First that they are in step with the stored      *)
(* document unless a fault or a pending event accounts for the difference, *)
(* then what a table that is in step does to a packet.                     *)
(***************************************************************************)
EXTENDS DataPlane, TLAPS, SequenceTheorems

-----------------------------------------------------------------------------
(* The tables and the document.                                            *)
Shaped(s) ==
    /\ s = [nets |-> s.nets, uplink |-> s.uplink, tun |-> s.tun, wg |-> s.wg,
            socks |-> s.socks, ingress |-> s.ingress, gw |-> s.gw, fw |-> s.fw, iptv |-> s.iptv]
    /\ s.gw = [enabled |-> s.gw.enabled, snat |-> s.gw.snat, forwards |-> s.gw.forwards]
    /\ s.fw \in [enabled : BOOLEAN, native : BOOLEAN]
    /\ s.nets \subseteq Lans /\ s.uplink \in Wans \cup {NoIface} /\ s.iptv.nets \in Seq(Lans)

(* An event the follower has yet to answer.                                *)
Pending == follower # NoModule \/ \E i \in DOMAIN queue : queue[i] \in firewallFollows

NatInStep == "nat" \in behind \/ nat = NatWant(st)
FilterInStep == \/ "filter" \in behind
                \/ filter = FilterWant(st)
                \/ ~st.fw.native /\ Pending

InStep == Shaped(st) /\ queue \in Seq(Modules) /\ NatInStep /\ FilterInStep

(* The firewall's table follows from its own section alone while the rules *)
(* are the operator's, and from no forward or gateway setting ever.        *)
LEMMA NativeFilterWant ==
    ASSUME NEW s, NEW t, s.fw = t.fw, s.fw.native
    PROVE  FilterWant(s) = FilterWant(t)
BY DEF FilterWant

LEMMA FilterIgnoresGateway ==
    ASSUME NEW s, NEW t, s.fw = t.fw, s.nets = t.nets, s.wg = t.wg, s.socks = t.socks,
           s.ingress = t.ingress, s.tun = t.tun, s.uplink = t.uplink, s.iptv = t.iptv
    PROVE  FilterWant(s) = FilterWant(t)
BY DEF FilterWant, Inside, Openings, Resolve

LEMMA NatIgnoresServices ==
    ASSUME NEW s, NEW t, s.gw = t.gw, s.nets = t.nets, s.uplink = t.uplink, s.wg = t.wg
    PROVE  NatWant(s) = NatWant(t)
BY DEF NatWant, natOf, LinksOf

(* Publish appends or drops.                                               *)
LEMMA Published ==
    ASSUME NEW q \in Seq(Modules), NEW m \in Modules
    PROVE  /\ Publish(q, m) \in Seq(Modules)
           /\ \A i \in DOMAIN q : i \in DOMAIN Publish(q, m) /\ Publish(q, m)[i] = q[i]
           /\ Publish(q, m) # q => \E i \in DOMAIN Publish(q, m) : Publish(q, m)[i] = m
<1>1. CASE Publish(q, m) = q
  BY <1>1
<1>2. CASE Publish(q, m) = Append(q, m)
  BY <1>2, AppendProperties
<1> QED  BY <1>1, <1>2 DEF Publish

(* Announcing an edit of m accounts for the filter: the follower will hear *)
(* of it, or it is not one the follower listens to.                        *)
LEMMA Announced ==
    ASSUME NEW m \in Modules, NEW left, queue \in Seq(Modules), Announce(m, left),
           follower' = follower
    PROVE  /\ queue' \in Seq(Modules)
           /\ left \subseteq behind' /\ behind' \subseteq left \cup {"filter"}
           /\ Pending => Pending'
           /\ m \in firewallFollows => "filter" \in behind' \/ Pending'
<1>1. queue' = Publish(queue, m)
  BY DEF Announce
<1>2. Pending => Pending'
  BY <1>1, Published DEF Pending
<1>3. m \in firewallFollows => "filter" \in behind' \/ Pending'
  BY <1>1, Published DEF Pending, Announce, Dropped
<1> QED  BY <1>1, <1>2, <1>3, Published DEF Announce

LEMMA InitInStep == Init => InStep
<1> SUFFICES ASSUME Init PROVE InStep
  OBVIOUS
<1>0. <<>> \in Seq(Lans) /\ <<>> \in Seq(Modules)
  BY EmptySeq
<1>1. PICK l \in Lans, w \in Wans, on \in BOOLEAN,
           fs \in {<<>>} \cup {UpsertForward(<<>>, f) : f \in Forwards} :
        st = [nets |-> {l}, uplink |-> w, tun |-> FALSE, wg |-> on, socks |-> FALSE,
              ingress |-> FALSE, gw |-> [enabled |-> TRUE, snat |-> TRUE, forwards |-> fs],
              fw |-> [enabled |-> on, native |-> FALSE],
              iptv |-> [enabled |-> FALSE, up |-> NoIface, nets |-> <<>>]]
  BY DEF Init
<1>2. st.iptv.nets = <<>> /\ st.nets = {l} /\ st.fw = [enabled |-> on, native |-> FALSE]
      /\ st.gw = [enabled |-> TRUE, snat |-> TRUE, forwards |-> fs]
  BY <1>1
<1>3. Shaped(st)
  BY <1>0, <1>1, <1>2 DEF Shaped
<1> QED  BY <1>3, <1>0 DEF Init, InStep, NatInStep, FilterInStep

(* An edit of the networks, the uplink or the tunnel.                      *)
LEMMA FollowedInStep ==
    ASSUME InStep, NEW m \in firewallFollows, NEW s, NEW broken \in BOOLEAN,
           NEW natFails \in BOOLEAN, Shaped(s), s.fw = st.fw, Followed(m, s, broken, natFails)
    PROVE  InStep'
<1>0. /\ st' = s /\ filter' = filter /\ follower' = follower /\ m \in Modules
      /\ Shaped(st') /\ queue \in Seq(Modules)
  BY DEF Followed, InStep, firewallFollows, Modules
<1>1. CASE broken
  <2>1. behind' = behind \cup {"nat", "filter"} /\ queue' = queue
    BY <1>1 DEF Followed
  <2> QED  BY <1>0, <2>1 DEF InStep, NatInStep, FilterInStep
<1>2. CASE ~broken
  <2> DEFINE ok == NatApplies(s) /\ ~natFails
             left == (behind \ {"nat"}) \cup (IF ~ok THEN {"nat"} ELSE {})
  <2>1. Announce(m, left)
    BY <1>2 DEF Followed
  <2>2. nat' = IF ~ok THEN nat ELSE NatWant(s)
    BY <1>2 DEF Followed
  <2>3. NatInStep'
    BY <1>0, <2>1, <2>2, Announced DEF NatInStep
  <2>4. FilterInStep'
    <3>1. CASE st.fw.native
      <4>1. FilterWant(s) = FilterWant(st)
        BY <3>1, NativeFilterWant
      <4> QED  BY <1>0, <2>1, <3>1, <4>1, Announced DEF FilterInStep, InStep
    <3>2. CASE ~st.fw.native
      BY <1>0, <2>1, <3>2, Announced DEF FilterInStep
    <3> QED  BY <3>1, <3>2
  <2> QED  BY <1>0, <2>1, <2>3, <2>4, Announced DEF InStep
<1> QED  BY <1>1, <1>2

(* An edit that leaves the firewall's own section and tables alone and     *)
(* that the follower hears of.                                             *)
LEMMA OpenedInStep ==
    ASSUME InStep, NEW m \in firewallFollows, NEW s, Shaped(s), s.fw = st.fw, s.gw = st.gw,
           s.nets = st.nets, s.uplink = st.uplink, s.wg = st.wg, Opened(m, s)
    PROVE  InStep'
<1>0. /\ st' = s /\ filter' = filter /\ nat' = nat /\ follower' = follower /\ m \in Modules
      /\ Announce(m, behind) /\ queue \in Seq(Modules)
  BY DEF Opened, InStep, firewallFollows, Modules
<1>1. NatInStep'
  BY <1>0, Announced, NatIgnoresServices DEF InStep, NatInStep
<1>2. FilterInStep'
  <2>1. CASE st.fw.native
    BY <1>0, <2>1, NativeFilterWant, Announced DEF FilterInStep, InStep
  <2>2. CASE ~st.fw.native
    BY <1>0, <2>2, Announced DEF FilterInStep
  <2> QED  BY <2>1, <2>2
<1> QED  BY <1>0, <1>1, <1>2, Announced DEF InStep


(* The gateway's handlers change what olr_nat is computed from and do not  *)
(* re-apply it.                                                            *)
LEMMA PatchGatewayInStep == InStep /\ patchGateway => InStep'
<1> SUFFICES ASSUME InStep, NEW on \in BOOLEAN, NEW snat \in BOOLEAN,
                    NEW s, s = [st EXCEPT !.gw.enabled = on, !.gw.snat = snat],
                    st' = s, UNCHANGED <<nat, filter, follower>>,
                    Announce("gateway", IF NatWant(s) = nat THEN behind
                                        ELSE behind \cup {"nat"})
             PROVE  InStep'
  BY DEF patchGateway
<1>1. Shaped(s) /\ s.fw = st.fw /\ s.iptv = st.iptv /\ s.nets = st.nets /\ s.wg = st.wg
      /\ s.socks = st.socks /\ s.ingress = st.ingress /\ s.tun = st.tun /\ s.uplink = st.uplink
  BY DEF InStep, Shaped
<1>2. FilterWant(s) = FilterWant(st)
  BY <1>1, FilterIgnoresGateway
<1>3. "gateway" \in Modules /\ queue \in Seq(Modules)
  BY DEF Modules, InStep
<1>4. NatInStep' /\ FilterInStep'
  BY <1>1, <1>2, <1>3, Announced DEF InStep, NatInStep, FilterInStep
<1> QED  BY <1>1, <1>3, <1>4, Announced DEF InStep

(* An edit of the forwards rebuilds olr_nat or leaves it behind.           *)
LEMMA NatEditInStep ==
    ASSUME InStep, NEW fs, NEW confirm, NEW fails \in BOOLEAN, NatEdit(fs, confirm, fails)
    PROVE  InStep'
<1> DEFINE s == [st EXCEPT !.gw.forwards = fs]
           plan == classifyNat(nat, NatWant(s), used)
<1>1. /\ st' = s /\ filter' = filter /\ follower' = follower
      /\ nat' = IF fails THEN nat ELSE NatWant(s)
      /\ IF fails \/ plan = "none"
         THEN behind' = Left("nat", fails /\ plan # "none") /\ UNCHANGED queue
         ELSE Announce("gateway", behind \ {"nat"})
  BY DEF NatEdit
<1>2. Shaped(s) /\ s.fw = st.fw /\ s.iptv = st.iptv /\ s.nets = st.nets /\ s.wg = st.wg
      /\ s.socks = st.socks /\ s.ingress = st.ingress /\ s.tun = st.tun /\ s.uplink = st.uplink
  BY DEF InStep, Shaped
<1>3. FilterWant(s) = FilterWant(st)
  BY <1>2, FilterIgnoresGateway
<1>4. plan = "none" <=> nat = NatWant(s)
  BY DEF classifyNat
<1>5. "gateway" \in Modules /\ queue \in Seq(Modules)
  BY DEF Modules, InStep
<1> HIDE DEF s, plan
<1>6. CASE fails \/ plan = "none"
  <2>1. behind' = Left("nat", fails /\ plan # "none") /\ queue' = queue
    BY <1>1, <1>6
  <2>2. NatInStep'
    BY <1>1, <1>4, <1>6, <2>1 DEF NatInStep, Left
  <2>3. FilterInStep'
    BY <1>1, <1>2, <1>3, <2>1 DEF FilterInStep, InStep, Left, Pending
  <2> QED  BY <1>1, <1>2, <2>1, <2>2, <2>3 DEF InStep
<1>7. CASE ~(fails \/ plan = "none")
  <2>1. Announce("gateway", behind \ {"nat"}) /\ nat' = NatWant(s)
    BY <1>1, <1>7
  <2> QED  BY <1>1, <1>2, <1>3, <1>5, <2>1, Announced DEF InStep, NatInStep, FilterInStep
<1> QED  BY <1>6, <1>7

(* Publishing to a full subscription or not, the events in it stay.        *)
LEMMA StillPending ==
    ASSUME InStep, follower' = follower,
           queue' = queue \/ \E m \in Modules : queue' = Publish(queue, m)
    PROVE  queue' \in Seq(Modules) /\ (Pending => Pending')
BY Published DEF InStep, Pending

(* The firewall's own edits, and a re-apply of it, write the table or      *)
(* leave it behind.                                                        *)
LEMMA FilterEditInStep ==
    ASSUME InStep, NEW c \in [enabled : BOOLEAN, native : BOOLEAN], NEW via, NEW confirm,
           NEW fails \in BOOLEAN, FilterEdit(c, via, confirm, fails)
    PROVE  InStep'
<1> DEFINE s == [st EXCEPT !.fw = c]
           plan == FilterImpact(c, filter, FilterWant(s), via)
<1>1. /\ st' = s /\ nat' = nat /\ follower' = follower
      /\ filter' = IF fails THEN filter ELSE FilterWant(s)
      /\ behind' = Left("filter", fails /\ plan # "none")
      /\ queue' = queue \/ queue' = Publish(queue, "firewall")
  BY DEF FilterEdit
<1>2. Shaped(s) /\ s.gw = st.gw /\ s.nets = st.nets /\ s.wg = st.wg /\ s.uplink = st.uplink
  BY DEF InStep, Shaped
<1>3. plan = "none" <=> filter = FilterWant(s)
  BY DEF FilterImpact
<1> HIDE DEF s, plan
<1>4. NatInStep'
  BY <1>1, <1>2, NatIgnoresServices DEF InStep, NatInStep, Left
<1>5. FilterInStep'
  BY <1>1, <1>3 DEF FilterInStep, Left
<1> QED  BY <1>1, <1>2, <1>4, <1>5, StillPending DEF InStep, Modules

LEMMA ReapplyInStep ==
    ASSUME InStep, NEW s, NEW fails, Shaped(s), st' = s, nat' = nat, s.gw = st.gw,
           s.nets = st.nets, s.uplink = st.uplink, s.wg = st.wg, Reapply(s, fails),
           queue' \in Seq(Modules)
    PROVE  InStep'
BY NatIgnoresServices DEF InStep, NatInStep, FilterInStep, Reapply, Left

LEMMA IptvInStep == InStep /\ iptvChange => InStep'
<1> SUFFICES ASSUME InStep, NEW d \in IPTVs, NEW fails \in BOOLEAN,
                    NEW s \in {st, [st EXCEPT !.iptv = d]}, st' = s,
                    IF s.fw.native THEN UNCHANGED <<filter, behind>> ELSE Reapply(s, fails),
                    queue' = queue \/ queue' = Publish(queue, "iptv"),
                    UNCHANGED <<nat, follower>>
             PROVE  InStep'
  BY DEF iptvChange
<1>1. /\ Shaped(s) /\ s.gw = st.gw /\ s.nets = st.nets /\ s.wg = st.wg /\ s.uplink = st.uplink
      /\ s.fw = st.fw
  BY IPTVsAssumption DEF InStep, Shaped
<1>2. queue' \in Seq(Modules)
  BY StillPending DEF Modules
<1>3. CASE s.fw.native
  <2>1. FilterWant(s) = FilterWant(st)
    BY <1>1, <1>3, NativeFilterWant
  <2>2. NatWant(s) = NatWant(st)
    BY <1>1, NatIgnoresServices
  <2> QED  BY <1>1, <1>2, <1>3, <2>1, <2>2 DEF InStep, NatInStep, FilterInStep
<1>4. CASE ~s.fw.native
  BY <1>1, <1>2, <1>4, ReapplyInStep
<1> QED  BY <1>3, <1>4

(* The follower takes an event, answers it, or gives up on it.             *)
LEMMA FollowerInStep ==
    ASSUME InStep, followFirewall \/ reapplyFirewall \/ followerGivesUp
    PROVE  InStep'
<1>1. CASE followFirewall
  <2>1. /\ follower = NoModule /\ queue # <<>> /\ queue' = Tail(queue)
        /\ follower' = IF Head(queue) \in firewallFollows THEN Head(queue) ELSE NoModule
        /\ UNCHANGED <<st, nat, filter, behind>>
    BY <1>1 DEF followFirewall
  <2>2. queue \in Seq(Modules)
    BY DEF InStep
  <2>3. Pending => Pending'
    <3> SUFFICES ASSUME Pending, follower' = NoModule PROVE Pending'
      BY DEF Pending
    <3>1. PICK i \in DOMAIN queue : queue[i] \in firewallFollows
      BY <2>1 DEF Pending
    <3>2. i # 1 /\ i \in 1..Len(queue)
      BY <2>1, <2>2, <3>1 DEF firewallFollows, NoModule
    <3>3. i - 1 \in DOMAIN queue' /\ queue'[i - 1] = queue[i]
      BY <2>1, <2>2, <3>2, HeadTailProperties
    <3> QED  BY <3>1, <3>3 DEF Pending
  <2> QED  BY <2>1, <2>2, <2>3, HeadTailProperties DEF InStep, NatInStep, FilterInStep
<1>2. ASSUME NEW fails \in BOOLEAN, st' = st, nat' = nat,
             IF st.fw.native THEN UNCHANGED <<filter, behind>> ELSE Reapply(st, fails),
             queue' = queue \/ queue' = Publish(queue, "firewall")
      PROVE  InStep'
  <2>1. queue' \in Seq(Modules) /\ Shaped(st)
    BY <1>2, Published DEF InStep, Modules
  <2>2. CASE st.fw.native
    BY <1>2, <2>1, <2>2 DEF InStep, NatInStep, FilterInStep
  <2>3. CASE ~st.fw.native
    BY <1>2, <2>1, <2>3, ReapplyInStep
  <2> QED  BY <2>2, <2>3
<1>3. CASE reapplyFirewall
  BY <1>2, <1>3 DEF reapplyFirewall
<1>4. CASE followerGivesUp
  BY <1>4 DEF followerGivesUp, Left, InStep, NatInStep, FilterInStep
<1> QED  BY <1>1, <1>3, <1>4

LEMMA RestartInStep ==
    ASSUME InStep, restart
    PROVE  InStep'
<1> SUFFICES ASSUME NEW reboot \in BOOLEAN, Restart(reboot)
             PROVE  InStep'
  BY DEF restart
<1>1. /\ st' = st /\ queue' = <<>>
      /\ nat' # NatWant(st) => "nat" \in behind'
      /\ filter' # FilterWant(st) => "filter" \in behind'
  BY DEF Restart
<1> QED  BY <1>1, EmptySeq DEF InStep, NatInStep, FilterInStep

LEMMA DialDocument ==
    ASSUME NEW s, Shaped(s), NEW u \in Wans \cup {NoIface}, NEW t
    PROVE  /\ Shaped([s EXCEPT !.uplink = u, !.tun = t])
           /\ [s EXCEPT !.uplink = u, !.tun = t].fw = s.fw
<1>1. ASSUME NEW a, NEW b, NEW c, NEW d, NEW e, NEW f, NEW g, NEW h, NEW i, NEW r,
             s = [nets |-> a, uplink |-> b, tun |-> c, wg |-> d, socks |-> e, ingress |-> f,
                  gw |-> g, fw |-> h, iptv |-> i],
             r = [s EXCEPT !.uplink = u, !.tun = t]
      PROVE  r = [nets |-> a, uplink |-> u, tun |-> t, wg |-> d, socks |-> e, ingress |-> f,
                  gw |-> g, fw |-> h, iptv |-> i]
  BY ONLY <1>1
<1>2. s = [nets |-> s.nets, uplink |-> s.uplink, tun |-> s.tun, wg |-> s.wg, socks |-> s.socks,
           ingress |-> s.ingress, gw |-> s.gw, fw |-> s.fw, iptv |-> s.iptv]
  BY DEF Shaped
<1>3. [s EXCEPT !.uplink = u, !.tun = t] =
          [nets |-> s.nets, uplink |-> u, tun |-> t, wg |-> s.wg, socks |-> s.socks,
           ingress |-> s.ingress, gw |-> s.gw, fw |-> s.fw, iptv |-> s.iptv]
  BY ONLY <1>1, <1>2, Zenon
<1> DEFINE r == [s EXCEPT !.uplink = u, !.tun = t]
<1> HIDE DEF r
<1>4. r = [nets |-> s.nets, uplink |-> u, tun |-> t, wg |-> s.wg, socks |-> s.socks,
           ingress |-> s.ingress, gw |-> s.gw, fw |-> s.fw, iptv |-> s.iptv]
  BY <1>3 DEF r
<1>5. Shaped(r) /\ r.fw = s.fw
  BY <1>4 DEF Shaped
<1> QED  BY <1>5 DEF r

LEMMA NextInStep == InStep /\ [Next]_vars => InStep'
<1> SUFFICES ASSUME InStep, [Next]_vars PROVE InStep'
  OBVIOUS
<1>0. Shaped(st)
  BY DEF InStep
<1>1. CASE linkApply
  <2>1. PICK ns \in SUBSET Lans, broken \in BOOLEAN, natFails \in BOOLEAN :
           Followed("link", [st EXCEPT !.nets = ns], broken, natFails)
    BY <1>1 DEF linkApply
  <2>2. Shaped([st EXCEPT !.nets = ns]) /\ [st EXCEPT !.nets = ns].fw = st.fw
    BY <1>0 DEF Shaped
  <2> QED  BY <2>1, <2>2, FollowedInStep DEF firewallFollows
<1>2. CASE dialApply
  <2>1. PICK u \in Wans \cup {NoIface}, t \in BOOLEAN, broken \in BOOLEAN, natFails \in BOOLEAN :
           Followed("dial", [st EXCEPT !.uplink = u, !.tun = t], broken, natFails)
    BY <1>2 DEF dialApply
  <2>2. /\ Shaped([st EXCEPT !.uplink = u, !.tun = t])
        /\ [st EXCEPT !.uplink = u, !.tun = t].fw = st.fw
    BY <1>0, DialDocument, Zenon
  <2> QED  BY <2>1, <2>2, FollowedInStep DEF firewallFollows
<1>3. CASE tunnelApply
  <2>1. PICK natFails \in BOOLEAN : Followed("remote", [st EXCEPT !.wg = ~st.wg], FALSE, natFails)
    BY <1>3 DEF tunnelApply
  <2>2. Shaped([st EXCEPT !.wg = ~st.wg]) /\ [st EXCEPT !.wg = ~st.wg].fw = st.fw
    BY <1>0 DEF Shaped
  <2> QED  BY <2>1, <2>2, FollowedInStep DEF firewallFollows
<1>4. CASE socksApply
  <2> DEFINE s == [st EXCEPT !.socks = ~st.socks]
  <2>1. Shaped(s) /\ s.fw = st.fw /\ s.gw = st.gw /\ s.nets = st.nets /\ s.uplink = st.uplink
        /\ s.wg = st.wg
    BY <1>0 DEF Shaped
  <2>2. Opened("remote", s)
    BY <1>4 DEF socksApply
  <2> QED  BY <2>1, <2>2, OpenedInStep DEF firewallFollows
<1>5. CASE ingressApply
  <2> DEFINE s == [st EXCEPT !.ingress = ~st.ingress]
  <2>1. Shaped(s) /\ s.fw = st.fw /\ s.gw = st.gw /\ s.nets = st.nets /\ s.uplink = st.uplink
        /\ s.wg = st.wg
    BY <1>0 DEF Shaped
  <2>2. Opened("ingress", s)
    BY <1>5 DEF ingressApply
  <2> QED  BY <2>1, <2>2, OpenedInStep DEF firewallFollows
<1>6. CASE patchGateway
  BY <1>6, PatchGatewayInStep
<1>7. CASE putForward \/ renameForward \/ deleteForward \/ postForwardsApply
  BY <1>7, NatEditInStep DEF putForward, renameForward, deleteForward, postForwardsApply
<1>8. CASE firewallMutate
  BY <1>8, FilterEditInStep DEF firewallMutate
<1>9. CASE iptvChange
  BY <1>9, IptvInStep
<1>10. CASE followFirewall \/ reapplyFirewall \/ followerGivesUp
  BY <1>10, FollowerInStep
<1>11. CASE restart
  BY <1>11, RestartInStep
<1>12. CASE arrive \/ UNCHANGED vars
  BY <1>12 DEF arrive, vars, InStep, NatInStep, FilterInStep, Pending
<1> QED  BY <1>1, <1>2, <1>3, <1>4, <1>5, <1>6, <1>7, <1>8, <1>9, <1>10, <1>11, <1>12 DEF Next

(* Both tables are what the stored document calls for, unless a fault, an  *)
(* edit nobody follows or an event still under way accounts for the        *)
(* difference: the inductive invariant, for any number of edits, events    *)
(* and faults.                                                             *)
THEOREM TablesInStep == Spec => []InStep
<1> QED  BY InitInStep, NextInStep, PTL DEF Spec

-----------------------------------------------------------------------------
(* The firewall and one packet.                                            *)

(* The rules of the two chains before the last one, by the rule they are.  *)
InputKinds == {"established", "loopback", "from_inside", "icmp", "icmpv6", "dhcp"}
ForwardKinds == {"established", "from_inside", "to_not_inside", "port_forward", "icmpv6"}
Opened6in4(s) == IF s.tun THEN {Opening("6in4", 0, Broker)} ELSE {}
OpenedIngress(s) ==
    IF s.ingress THEN {Opening("tcp", 3, "-"), Opening("tcp", 4, "-"), Opening("udp", 4, "-")} ELSE {}
OpenedRemote(s) == (IF s.socks THEN {Opening("tcp", 9, "-")} ELSE {})
                   \cup (IF s.wg THEN {Opening("udp", 8, "-")} ELSE {})
OpeningSet(s) == Opened6in4(s) \cup OpenedIngress(s) \cup OpenedRemote(s)
InputRuleSet(s) ==
    {Rule(k, "-") : k \in InputKinds}
          \cup {Rule("opening", o) : o \in OpeningSet(s)}
          \cup {Rule("iptv_igmp", l) : l \in IF s.iptv.enabled THEN Members(s) \cup {s.iptv.up} ELSE {}}
ForwardRuleSet(s) ==
    {Rule(k, "-") : k \in ForwardKinds} \cup {Rule("iptv_stream", [up |-> s.iptv.up, down |-> l]) :
                   l \in IF s.iptv.enabled THEN Members(s) ELSE {}}

LEMMA EachRules ==
    ASSUME NEW R, NEW k, NEW S, NEW s \in Seq(S), \A x \in S : Rule(k, x) \in R
    PROVE  EachOf(k, s) \in Seq(R)
<1>1. Len(s) \in Nat /\ DOMAIN s = 1..Len(s) /\ \A i \in 1..Len(s) : s[i] \in S
  OBVIOUS
<1> QED  BY <1>1 DEF EachOf

(* A chain of the firewall: rules that accept, each once per class of      *)
(* source, and a last one that drops what is left.                         *)
IsChain(split, n, d, p, R, rules) ==
    /\ n \in Nat /\ DOMAIN split = 1..(n + 1)
    /\ split[n + 1].kind = "drop" /\ split[n + 1].sources = {"outside", "inside", "local"}
    /\ \A i \in 1..n : /\ rules[i] \in R /\ split[i].kind = rules[i].kind
                       /\ baseRuleExprs(d, split[i], p) = baseRuleExprs(d, rules[i], p)

LEMMA ChainShape ==
    ASSUME NEW d, NEW p, NEW inside, NEW R, NEW rules \in Seq(R),
           \A r \in R : r = Rule(r.kind, r.arg) /\ r.kind # "drop"
    PROVE  IsChain(splitSources(rules \o One("drop"), inside), Len(rules), d, p, R, rules)
<1> DEFINE chain == rules \o One("drop")
           split == splitSources(chain, inside)
           n == Len(rules) + 1
<1>1. /\ Len(rules) \in Nat /\ DOMAIN chain = 1..n
      /\ \A i \in 1..Len(rules) : chain[i] = rules[i] /\ rules[i] \in R
      /\ chain[n] = Rule("drop", "-")
  BY DEF One
<1>2. \A i \in 1..n : chain[i] = Rule(chain[i].kind, chain[i].arg)
  <2>1. Rule("drop", "-").kind = "drop" /\ Rule("drop", "-").arg = "-"
    BY DEF Rule
  <2> QED  BY <1>1, <2>1
<1>3. split = splitSources(chain, inside)
  OBVIOUS
<1> HIDE DEF split, chain
<1>4. n \in 1..n
  BY <1>1
<1>5. DOMAIN split = 1..n
  BY <1>1, <1>3 DEF splitSources
<1>6. \A i \in 1..n : \E src : split[i] = [chain[i] EXCEPT !.sources = src]
  <2>1. DOMAIN chain = 1..n
    BY <1>1
  <2> QED  BY ONLY <1>3, <2>1 DEF splitSources
<1>7. \A i \in 1..n : split[i].kind = chain[i].kind /\ split[i].arg = chain[i].arg
  BY <1>2, <1>6 DEF Rule
<1>8. split[n] = [chain[n] EXCEPT !.sources = chain[n].sources]
  <2>1. chain[n].kind = "drop"
    BY <1>1 DEF Rule
  <2>2. n \in DOMAIN chain
    BY <1>1, <1>4
  <2> QED  BY ONLY <1>3, <2>1, <2>2 DEF splitSources
<1>9. split[n].kind = "drop" /\ split[n].sources = {"outside", "inside", "local"}
  BY <1>1, <1>4, <1>8 DEF Rule
<1>10. \A i \in 1..n : baseRuleExprs(d, split[i], p) = baseRuleExprs(d, chain[i], p)
  <2>1. ASSUME NEW a, NEW b, a.kind = b.kind, a.arg = b.arg
        PROVE  baseRuleExprs(d, a, p) = baseRuleExprs(d, b, p)
    BY ONLY <2>1 DEF baseRuleExprs
  <2> QED  BY ONLY <1>7, <2>1, Zenon
<1>11. IsChain(split, Len(rules), d, p, R, rules)
  BY <1>1, <1>5, <1>7, <1>9, <1>10 DEF IsChain
<1> QED  BY <1>11 DEF split, chain

(* So whatever passes it from outside passed by a rule other than the last. *)
LEMMA PassedByRule ==
    ASSUME NEW d, NEW p, NEW inside, NEW R, NEW rules \in Seq(R),
           \A r \in R : r = Rule(r.kind, r.arg) /\ r.kind # "drop",
           sourceExprs(d, p) = "outside",
           ruleExprs(d, splitSources(rules \o One("drop"), inside), p)
    PROVE  \E r \in R : baseRuleExprs(d, r, p)
<1> DEFINE split == splitSources(rules \o One("drop"), inside)
           n == Len(rules) + 1
<1>1. IsChain(split, Len(rules), d, p, R, rules)
  BY ChainShape
<1>2. Len(rules) \in Nat
  OBVIOUS
<1>3. ruleExprs(d, split, p)
  OBVIOUS
<1> HIDE DEF split
<1>4. n \in 1..n /\ "outside" \in split[n].sources /\ baseRuleExprs(d, split[n], p)
  BY <1>1, <1>2 DEF IsChain, baseRuleExprs
<1>5. PICK i \in 1..n : baseRuleExprs(d, split[i], p) /\ ~(n <= i)
  BY <1>1, <1>3, <1>4 DEF IsChain, ruleExprs
<1>6. i \in 1..Len(rules)
  BY <1>2, <1>5
<1> QED  BY <1>1, <1>5, <1>6 DEF IsChain

(* And what another rule matches passes it.                                *)
LEMMA RulePasses ==
    ASSUME NEW d, NEW p, NEW inside, NEW R, NEW rules \in Seq(R),
           \A r \in R : r = Rule(r.kind, r.arg) /\ r.kind # "drop",
           NEW i \in 1..Len(rules), baseRuleExprs(d, rules[i], p),
           sourceExprs(d, p) \in splitSources(rules \o One("drop"), inside)[i].sources
    PROVE  ruleExprs(d, splitSources(rules \o One("drop"), inside), p)
<1> DEFINE split == splitSources(rules \o One("drop"), inside)
           n == Len(rules) + 1
<1>1. IsChain(split, Len(rules), d, p, R, rules)
  BY ChainShape
<1>2. Len(rules) \in Nat /\ sourceExprs(d, p) \in split[i].sources
  OBVIOUS
<1> HIDE DEF split
<1>3. \A j \in 1..n : split[j].kind = "drop" => j = n
  BY <1>1, <1>2 DEF IsChain
<1>4. i \in 1..n /\ ~(n <= i)
  BY <1>2
<1>5. ruleExprs(d, split, p)
  BY <1>1, <1>2, <1>3, <1>4 DEF ruleExprs, IsChain
<1> QED  BY <1>5 DEF split

(* The chains are made of those rules.                                     *)
LEMMA Chains ==
    ASSUME NEW s, s.iptv.nets \in Seq(Lans)
    PROVE  /\ inputRules(Openings(s), Resolve(s)) \in Seq(InputRuleSet(s))
           /\ forwardRules(Resolve(s)) \in Seq(ForwardRuleSet(s))
           /\ \A r \in InputRuleSet(s) \cup ForwardRuleSet(s) :
                 r = Rule(r.kind, r.arg) /\ r.kind # "drop"
           /\ EachOf("iptv_stream",
                     IF Resolve(s).up = "-" THEN <<>>
                     ELSE [i \in DOMAIN Resolve(s).down |->
                              [up |-> Resolve(s).up, down |-> Resolve(s).down[i]]])
              \in Seq(ForwardRuleSet(s))
<1> DEFINE I == InputRuleSet(s)
           F == ForwardRuleSet(s)
<1>1. \A r \in I \cup F : r = Rule(r.kind, r.arg) /\ r.kind # "drop"
  BY DEF InputRuleSet, ForwardRuleSet, InputKinds, ForwardKinds, Rule
<1>2. (\A k \in InputKinds : One(k) \in Seq(I)) /\ (\A k \in ForwardKinds : One(k) \in Seq(F))
  BY DEF One, InputRuleSet, ForwardRuleSet
<1>3. EachOf("opening", Openings(s)) \in Seq(I)
  <2> DEFINE O == OpeningSet(s)
  <2>0. /\ s.tun => Opening("6in4", 0, Broker) \in O
        /\ s.ingress => {Opening("tcp", 3, "-"), Opening("tcp", 4, "-"), Opening("udp", 4, "-")} \subseteq O
        /\ s.socks => Opening("tcp", 9, "-") \in O
        /\ s.wg => Opening("udp", 8, "-") \in O
    BY DEF OpeningSet, Opened6in4, OpenedIngress, OpenedRemote
  <2> HIDE DEF O
  <2>1. /\ (IF s.tun /\ s.uplink # NoIface THEN <<Opening("6in4", 0, Broker)>> ELSE <<>>) \in Seq(O)
        /\ (IF s.ingress THEN <<Opening("tcp", 3, "-"), Opening("tcp", 4, "-")>> ELSE <<>>) \in Seq(O)
        /\ (IF s.socks THEN <<Opening("tcp", 9, "-")>> ELSE <<>>) \in Seq(O)
        /\ (IF s.ingress THEN <<Opening("udp", 4, "-")>> ELSE <<>>) \in Seq(O)
        /\ (IF s.wg THEN <<Opening("udp", 8, "-")>> ELSE <<>>) \in Seq(O)
    BY <2>0
  <2>2. Openings(s) \in Seq(O)
    BY ONLY <2>1, ConcatProperties DEF Openings
  <2>3. \A o \in O : Rule("opening", o) \in I
    BY DEF O, InputRuleSet
  <2> QED  BY <2>2, <2>3, EachRules
<1>4. /\ EachOf("iptv_igmp", IF Resolve(s).up = "-" THEN <<>> ELSE Append(Resolve(s).down, Resolve(s).up))
         \in Seq(I)
      /\ EachOf("iptv_stream",
                IF Resolve(s).up = "-" THEN <<>>
                ELSE [i \in DOMAIN Resolve(s).down |-> [up |-> Resolve(s).up, down |-> Resolve(s).down[i]]])
         \in Seq(F)
  <2>1. CASE Resolve(s).up = "-"
    <3>1. <<>> \in Seq({}) /\ EachOf("iptv_igmp", <<>>) \in Seq(I) /\ EachOf("iptv_stream", <<>>) \in Seq(F)
      BY DEF EachOf
    <3> QED  BY <2>1, <3>1
  <2>2. CASE Resolve(s).up # "-"
    <3>1. s.iptv.enabled /\ Resolve(s).up = s.iptv.up /\ Resolve(s).down = s.iptv.nets
      BY <2>2 DEF Resolve, NoIface
    <3>2. s.iptv.nets \in Seq(Members(s))
      BY DEF Members
    <3> DEFINE U == Members(s) \cup {s.iptv.up}
               V == {[up |-> s.iptv.up, down |-> l] : l \in Members(s)}
               streams == [i \in DOMAIN s.iptv.nets |-> [up |-> s.iptv.up, down |-> s.iptv.nets[i]]]
    <3>3. Append(s.iptv.nets, s.iptv.up) \in Seq(U)
      <4>1. s.iptv.nets \in Seq(U) /\ s.iptv.up \in U
        BY <3>2
      <4> HIDE DEF U
      <4> QED  BY ONLY <4>1, AppendProperties
    <3>4. streams \in Seq(V)
      <4>1. Len(s.iptv.nets) \in Nat /\ DOMAIN s.iptv.nets = 1..Len(s.iptv.nets)
            /\ \A i \in 1..Len(s.iptv.nets) : s.iptv.nets[i] \in Members(s)
        BY <3>2
      <4> QED  BY <4>1
    <3>5. \A l \in U : Rule("iptv_igmp", l) \in I
      BY <3>1 DEF InputRuleSet
    <3>6. \A v \in V : Rule("iptv_stream", v) \in F
      BY <3>1 DEF ForwardRuleSet
    <3> HIDE DEF U, V, streams, I, F
    <3>7. EachOf("iptv_igmp", Append(s.iptv.nets, s.iptv.up)) \in Seq(I) /\ EachOf("iptv_stream", streams) \in Seq(F)
      BY <3>3, <3>4, <3>5, <3>6, EachRules
    <3> QED  BY <2>2, <3>1, <3>7 DEF streams
  <2> QED  BY <2>1, <2>2
<1> QED  BY <1>1, <1>2, <1>3, <1>4, ConcatProperties DEF inputRules, forwardRules, InputKinds, ForwardKinds

LEMMA ChainsOfDocument ==
    ASSUME InStep
    PROVE  /\ inputRules(Openings(st), Resolve(st)) \in Seq(InputRuleSet(st))
           /\ forwardRules(Resolve(st)) \in Seq(ForwardRuleSet(st))
           /\ \A r \in InputRuleSet(st) : r = Rule(r.kind, r.arg) /\ r.kind # "drop"
           /\ \A r \in ForwardRuleSet(st) : r = Rule(r.kind, r.arg) /\ r.kind # "drop"
           /\ EachOf("iptv_stream",
                     IF Resolve(st).up = "-" THEN <<>>
                     ELSE [i \in DOMAIN Resolve(st).down |->
                              [up |-> Resolve(st).up, down |-> Resolve(st).down[i]]])
              \in Seq(ForwardRuleSet(st))
<1>1. st.iptv.nets \in Seq(Lans)
  BY DEF InStep, Shaped
<1> QED  BY ONLY <1>1, Chains

-----------------------------------------------------------------------------
(* What a settled router's tables are.                                     *)
LEMMA SettledTables ==
    ASSUME InStep, Settled
    PROVE  /\ nat = NatWant(st)
           /\ ~st.fw.native =>
                 filter = RenderIPTV(st.fw, Inside(st), Openings(st), Resolve(st))
<1>1. ~Pending /\ behind = {}
  BY DEF Settled, Pending
<1> QED  BY <1>1 DEF InStep, NatInStep, FilterInStep, FilterWant

(* From outside, the input chain admits what Admitted lists.               *)
LEMMA AdmittedBySettled ==
    ASSUME InStep, Settled, st.fw.enabled, ~st.fw.native,
           NEW p, p.iif \notin Inside(st) \cup {"lo"}, NEW port, NEW dnat,
           Accepts(filter, [iif |-> p.iif, oif |-> NoIface, src |-> p.src, proto |-> p.proto,
                            port |-> port, ct |-> "new", dnat |-> dnat])
    PROVE  Admitted(p, port)
<1> DEFINE seen == [iif |-> p.iif, oif |-> NoIface, src |-> p.src, proto |-> p.proto,
                    port |-> port, ct |-> "new", dnat |-> dnat]
<1>1. /\ filter.inside = Inside(st)
      /\ filter.input = splitSources(inputRules(Openings(st), Resolve(st)) \o One("drop"), Inside(st))
  BY SettledTables DEF RenderIPTV
<1>2. sourceExprs(filter, seen) = "outside"
  BY <1>1 DEF sourceExprs
<1>3. ruleExprs(filter, filter.input, seen)
  BY DEF Accepts, NoIface
<1>4. PICK r \in InputRuleSet(st) : baseRuleExprs(filter, r, seen)
  BY <1>1, <1>2, <1>3, ChainsOfDocument, PassedByRule
<1>5. CASE r \in {Rule(k, "-") : k \in InputKinds}
  <2>1. PICK k \in InputKinds : r.kind = k
    BY <1>5 DEF Rule
  <2>2. k \notin {"established", "loopback", "from_inside"}
    BY <1>1, <1>4, <2>1 DEF baseRuleExprs
  <2> QED  BY <1>4, <2>1, <2>2 DEF baseRuleExprs, InputKinds, Admitted
<1>6. CASE r \in {Rule("opening", o) : o \in OpeningSet(st)}
  <2>1. PICK o \in OpeningSet(st) : r.kind = "opening" /\ r.arg = o
    BY <1>6 DEF Rule
  <2>2. /\ o.proto = p.proto
        /\ IF p.proto = "6in4" THEN o.from = p.src ELSE o.port = port
    BY <1>4, <2>1 DEF baseRuleExprs
  <2>3. CASE o \in Opened6in4(st)
    BY <2>2, <2>3 DEF Opened6in4, Opening, Admitted
  <2>4. CASE o \in OpenedIngress(st)
    BY <2>2, <2>4 DEF OpenedIngress, Opening, Admitted
  <2>5. CASE o \in OpenedRemote(st)
    BY <2>2, <2>5 DEF OpenedRemote, Opening, Admitted
  <2> QED  BY <2>3, <2>4, <2>5 DEF OpeningSet
<1>7. CASE r \in {Rule("iptv_igmp", l) :
                     l \in IF st.iptv.enabled THEN Members(st) \cup {st.iptv.up} ELSE {}}
  <2>1. PICK l \in Members(st) \cup {st.iptv.up} :
           st.iptv.enabled /\ r.kind = "iptv_igmp" /\ r.arg = l
    BY <1>7 DEF Rule
  <2> QED  BY <1>4, <2>1 DEF baseRuleExprs, Admitted
<1> QED  BY <1>5, <1>6, <1>7 DEF InputRuleSet

(* From outside, the forward chain lets through to a network what NAT      *)
(* chose the destination of, a stream of IPTV, or ICMPv6.                  *)
LEMMA ForwardedBySettled ==
    ASSUME InStep, Settled, st.fw.enabled, ~st.fw.native,
           NEW p, p.iif \notin Inside(st) \cup {"lo"}, NEW port, NEW dnat,
           NEW oif \in Inside(st), oif # NoIface,
           Accepts(filter, [iif |-> p.iif, oif |-> oif, src |-> p.src, proto |-> p.proto,
                            port |-> port, ct |-> "new", dnat |-> dnat])
    PROVE  \/ dnat
           \/ p.proto = "multicast" /\ st.iptv.enabled /\ p.iif = st.iptv.up /\ oif \in Members(st)
           \/ p.proto = "icmpv6"
<1> DEFINE seen == [iif |-> p.iif, oif |-> oif, src |-> p.src, proto |-> p.proto,
                    port |-> port, ct |-> "new", dnat |-> dnat]
<1>1. /\ filter.inside = Inside(st)
      /\ filter.forward = splitSources(forwardRules(Resolve(st)) \o One("drop"), Inside(st))
  BY SettledTables DEF RenderIPTV
<1>2. sourceExprs(filter, seen) = "outside"
  BY <1>1 DEF sourceExprs
<1>3. ruleExprs(filter, filter.forward, seen)
  BY DEF Accepts, NoIface
<1>4. PICK r \in ForwardRuleSet(st) : baseRuleExprs(filter, r, seen)
  BY <1>1, <1>2, <1>3, ChainsOfDocument, PassedByRule
<1>5. CASE r \in {Rule(k, "-") : k \in ForwardKinds}
  <2>1. PICK k \in ForwardKinds : r.kind = k
    BY <1>5 DEF Rule
  <2>2. k \notin {"established", "from_inside", "to_not_inside"}
    BY <1>1, <1>4, <2>1 DEF baseRuleExprs
  <2> QED  BY <1>4, <2>1, <2>2 DEF baseRuleExprs, ForwardKinds
<1>6. CASE r \in {Rule("iptv_stream", [up |-> st.iptv.up, down |-> l]) :
                     l \in IF st.iptv.enabled THEN Members(st) ELSE {}}
  <2>1. PICK l \in Members(st) :
           st.iptv.enabled /\ r.kind = "iptv_stream" /\ r.arg = [up |-> st.iptv.up, down |-> l]
    BY <1>6 DEF Rule
  <2> QED  BY <1>4, <2>1 DEF baseRuleExprs
<1> QED  BY <1>5, <1>6 DEF ForwardRuleSet

(* The rules of olr_nat, forward by forward.                               *)
LEMMA Rendered ==
    ASSUME NEW c, NEW L, c.enabled
    PROVE  /\ \A r : r \in RenderNat(c, L).dnat <=>
                  \E i \in DOMAIN c.forwards : \E pr \in Each(c.forwards[i].proto) :
                      r \in dnatRules(c.forwards[i], pr)
           /\ \A r : r \in RenderNat(c, L).hairpin <=>
                  \E i \in DOMAIN c.forwards : \E pr \in Each(c.forwards[i].proto) :
                      r \in hairpinRules(c.forwards[i], pr, L)
           /\ \A r : r \in RenderNat(c, L).masq <=>
                  \E i \in DOMAIN c.forwards : \E pr \in Each(c.forwards[i].proto) :
                      r \in masqRules(c.forwards[i], pr, L)
<1> DEFINE fs == c.forwards
<1>2. \A r : r \in RenderNat(c, L).dnat <=>
          \E i \in DOMAIN fs : \E pr \in Each(fs[i].proto) : r \in dnatRules(fs[i], pr)
  <2> DEFINE of(i) == UNION {dnatRules(fs[i], pr) : pr \in Each(fs[i].proto)}
  <2>1. RenderNat(c, L).dnat = UNION {of(i) : i \in DOMAIN fs}
    BY DEF RenderNat, PerProtocol
  <2>2. \A r, i : r \in of(i) <=> \E pr \in Each(fs[i].proto) : r \in dnatRules(fs[i], pr)
    OBVIOUS
  <2> HIDE DEF of
  <2> QED  BY ONLY <2>1, <2>2
<1>3. \A r : r \in RenderNat(c, L).hairpin <=>
          \E i \in DOMAIN fs : \E pr \in Each(fs[i].proto) : r \in hairpinRules(fs[i], pr, L)
  <2> DEFINE of(i) == UNION {hairpinRules(fs[i], pr, L) : pr \in Each(fs[i].proto)}
  <2>1. RenderNat(c, L).hairpin = UNION {of(i) : i \in DOMAIN fs}
    BY DEF RenderNat, PerProtocol
  <2>2. \A r, i : r \in of(i) <=> \E pr \in Each(fs[i].proto) : r \in hairpinRules(fs[i], pr, L)
    OBVIOUS
  <2> HIDE DEF of
  <2> QED  BY ONLY <2>1, <2>2
<1>4. \A r : r \in RenderNat(c, L).masq <=>
          \E i \in DOMAIN fs : \E pr \in Each(fs[i].proto) : r \in masqRules(fs[i], pr, L)
  <2> DEFINE of(i) == UNION {masqRules(fs[i], pr, L) : pr \in Each(fs[i].proto)}
  <2>1. RenderNat(c, L).masq = UNION {of(i) : i \in DOMAIN fs}
    BY DEF RenderNat, PerProtocol
  <2>2. \A r, i : r \in of(i) <=> \E pr \in Each(fs[i].proto) : r \in masqRules(fs[i], pr, L)
    OBVIOUS
  <2> HIDE DEF of
  <2> QED  BY ONLY <2>1, <2>2
<1> QED  BY <1>2, <1>3, <1>4

LEMMA RenderedSettled ==
    ASSUME InStep, Settled, st.gw.enabled
    PROVE  /\ \A r : r \in nat.dnat <=>
                  \E i \in DOMAIN st.gw.forwards : \E pr \in Each(st.gw.forwards[i].proto) :
                      r \in dnatRules(st.gw.forwards[i], pr)
           /\ \A r : r \in nat.hairpin <=>
                  \E i \in DOMAIN st.gw.forwards : \E pr \in Each(st.gw.forwards[i].proto) :
                      r \in hairpinRules(st.gw.forwards[i], pr, LinksOf(st))
           /\ \A r : r \in nat.masq <=>
                  \E i \in DOMAIN st.gw.forwards : \E pr \in Each(st.gw.forwards[i].proto) :
                      r \in masqRules(st.gw.forwards[i], pr, LinksOf(st))
<1> DEFINE c == natOf(st)
           L == LinksOf(st)
<1>1. nat = RenderNat(c, L) /\ c.forwards = st.gw.forwards /\ c.enabled
  BY SettledTables DEF NatWant, natOf, ConfigNAT
<1> HIDE DEF c, L
<1>2. /\ \A r : r \in RenderNat(c, L).dnat <=>
             \E i \in DOMAIN c.forwards : \E pr \in Each(c.forwards[i].proto) :
                 r \in dnatRules(c.forwards[i], pr)
      /\ \A r : r \in RenderNat(c, L).hairpin <=>
             \E i \in DOMAIN c.forwards : \E pr \in Each(c.forwards[i].proto) :
                 r \in hairpinRules(c.forwards[i], pr, L)
      /\ \A r : r \in RenderNat(c, L).masq <=>
             \E i \in DOMAIN c.forwards : \E pr \in Each(c.forwards[i].proto) :
                 r \in masqRules(c.forwards[i], pr, L)
  BY <1>1, Rendered, Zenon
<1>3. /\ \A r : r \in nat.dnat <=>
             \E i \in DOMAIN st.gw.forwards : \E pr \in Each(st.gw.forwards[i].proto) :
                 r \in dnatRules(st.gw.forwards[i], pr)
      /\ \A r : r \in nat.hairpin <=>
             \E i \in DOMAIN st.gw.forwards : \E pr \in Each(st.gw.forwards[i].proto) :
                 r \in hairpinRules(st.gw.forwards[i], pr, L)
      /\ \A r : r \in nat.masq <=>
             \E i \in DOMAIN st.gw.forwards : \E pr \in Each(st.gw.forwards[i].proto) :
                 r \in masqRules(st.gw.forwards[i], pr, L)
  BY ONLY <1>1, <1>2, Zenon
<1> QED  BY <1>3 DEF L

(* A rule that translates a packet comes from a forward that covers it and *)
(* leads where that forward does.                                          *)
LEMMA TranslatedByForward ==
    ASSUME InStep, Settled, NEW p, NEW r \in Translations(nat, p, LinksOf(st))
    PROVE  /\ st.gw.enabled
           /\ \E i \in DOMAIN st.gw.forwards :
                 LET f == st.gw.forwards[i]
                 IN  /\ Covers(f, p) /\ <<r.to, ToPort(r, p.port)>> = Delivery(f, p)
                     /\ f.in = p.iif \/ HairpinOrDefault(f)
<1> DEFINE fs == st.gw.forwards
           L == LinksOf(st)
<1>1. nat = RenderNat(natOf(st), L) /\ natOf(st).forwards = fs /\ natOf(st).enabled = st.gw.enabled
  BY SettledTables DEF NatWant, natOf, ConfigNAT
<1>2. r \in nat.dnat \cup nat.hairpin /\ dnatExprs(r, p, L)
  BY DEF Translations
<1>3. st.gw.enabled
  BY <1>1, <1>2 DEF RenderNat, NoNat, PerProtocol
<1>4. PICK i \in DOMAIN fs :
         \E pr \in Each(fs[i].proto) :
            r \in dnatRules(fs[i], pr) \/ r \in hairpinRules(fs[i], pr, L)
  BY <1>2, <1>3, RenderedSettled, Zenon
<1> DEFINE f == fs[i]
<1>5. /\ r.proto \in Each(f.proto) /\ r.port = f.port /\ r.to = f.to /\ r.ports = InsidePorts(f)
      /\ r.in = f.in \/ HairpinOrDefault(f)
  BY <1>4 DEF dnatRules, hairpinRules
<1>6. Covers(f, p) /\ (f.in = p.iif \/ HairpinOrDefault(f))
  BY <1>2, <1>5 DEF dnatExprs, Covers
<1>7. <<r.to, ToPort(r, p.port)>> = Delivery(f, p)
  BY <1>5 DEF ToPort, Single, InsidePorts, Delivery
<1> QED  BY <1>3, <1>6, <1>7

(* Every end of a packet is one the kernel chose for a translation, or for *)
(* none.                                                                   *)
LEMMA Fated ==
    ASSUME NEW p, NEW e \in Fates(p)
    PROVE  \E dst, port, dnat :
              /\ e = Ends(st, p, dst, port, dnat)
              /\ dnat => \E r \in Translations(nat, p, LinksOf(st)) :
                            dst = r.to /\ port = ToPort(r, p.port)
<1>1. CASE e = Ends(st, p, p.dst, p.port, FALSE)
  <2> WITNESS p.dst, p.port, FALSE
  <2> QED  BY <1>1
<1>2. CASE \E r \in Translations(nat, p, LinksOf(st)) :
              e = Ends(st, p, r.to, ToPort(r, p.port), TRUE)
  <2>1. PICK r \in Translations(nat, p, LinksOf(st)) : e = Ends(st, p, r.to, ToPort(r, p.port), TRUE)
    BY <1>2
  <2> WITNESS r.to, ToPort(r, p.port), TRUE
  <2> QED  BY <2>1
<1> QED  BY <1>1, <1>2 DEF Fates

(* OutsideStopped of DataPlane: with the firewall on and nothing left to   *)
(* follow, a connection from outside reaches a device only through a       *)
(* forward, an IPTV stream or as ICMPv6, and the router only for a service *)
(* that is on.  It follows from the two tables being in step.              *)
LEMMA InStepStops == InStep => OutsideStopped
<1> SUFFICES ASSUME InStep, Settled, st.fw.enabled, ~st.fw.native,
                    NEW p \in Packets, p.iif \notin Inside(st) \cup {"lo"}, NEW e \in Fates(p)
             PROVE  /\ e[1] = "router" => Admitted(p, e[2])
                    /\ e[1] = "device" /\ e[4] \in Inside(st) =>
                          \/ \E i \in DOMAIN st.gw.forwards : ForwardedBy(st.gw.forwards[i], p, e)
                          \/ p.proto = "multicast" /\ st.iptv.enabled
                             /\ p.iif = st.iptv.up /\ e[4] \in Members(st)
                          \/ p.proto = "icmpv6"
  BY DEF OutsideStopped
<1>1. PICK dst, port, dnat :
         /\ e = Ends(st, p, dst, port, dnat)
         /\ dnat => \E r \in Translations(nat, p, LinksOf(st)) : dst = r.to /\ port = ToPort(r, p.port)
  BY Fated
<1> DEFINE local == IsLocalAddress(LinksOf(st), dst)
           oif == IF local THEN NoIface ELSE RouteTo(st, dst)
           seen == [iif |-> p.iif, oif |-> oif, src |-> p.src, proto |-> p.proto, port |-> port,
                    ct |-> "new", dnat |-> dnat]
<1>2. e[1] = "router" => /\ oif = NoIface /\ e[2] = port
                         /\ Accepts(filter, seen)
  BY <1>1 DEF Ends
<1>3. e[1] = "device" => /\ oif # NoIface /\ e[2] = dst /\ e[3] = port /\ e[4] = oif
                         /\ Accepts(filter, seen)
  BY <1>1 DEF Ends
<1>4. ASSUME e[1] = "router" PROVE Admitted(p, e[2])
  BY <1>2, <1>4, AdmittedBySettled
<1>5. ASSUME e[1] = "device", e[4] \in Inside(st)
      PROVE  \/ \E i \in DOMAIN st.gw.forwards : ForwardedBy(st.gw.forwards[i], p, e)
             \/ p.proto = "multicast" /\ st.iptv.enabled
                /\ p.iif = st.iptv.up /\ e[4] \in Members(st)
             \/ p.proto = "icmpv6"
  <2>1. \/ dnat
        \/ p.proto = "multicast" /\ st.iptv.enabled /\ p.iif = st.iptv.up /\ oif \in Members(st)
        \/ p.proto = "icmpv6"
    BY <1>3, <1>5, ForwardedBySettled
  <2>2. ASSUME dnat PROVE \E i \in DOMAIN st.gw.forwards : ForwardedBy(st.gw.forwards[i], p, e)
    <3>1. PICK r \in Translations(nat, p, LinksOf(st)) : dst = r.to /\ port = ToPort(r, p.port)
      BY <1>1, <2>2
    <3>2. PICK i \in DOMAIN st.gw.forwards :
             /\ st.gw.enabled /\ Covers(st.gw.forwards[i], p)
             /\ <<r.to, ToPort(r, p.port)>> = Delivery(st.gw.forwards[i], p)
             /\ st.gw.forwards[i].in = p.iif \/ HairpinOrDefault(st.gw.forwards[i])
      BY TranslatedByForward
    <3>3. ForwardedBy(st.gw.forwards[i], p, e)
      BY <1>3, <1>5, <3>1, <3>2 DEF ForwardedBy
    <3> QED  BY <3>3
  <2> QED  BY <1>3, <1>5, <2>1, <2>2
<1> QED  BY <1>4, <1>5

(* OutsideStopped of DataPlane: on a settled router with the filter on,    *)
(* nothing from outside gets further than what is configured lets it       *)
(* (firewall/render.go, nat/render.go and the follower that keeps them in  *)
(* step).                                                                  *)
THEOREM OutsideIsStopped == Spec => []OutsideStopped
<1> QED  BY TablesInStep, InStepStops, PTL

-----------------------------------------------------------------------------
(* What the document promises is delivered.                                *)

LEMMA FrontKept ==
    ASSUME NEW S, NEW a \in Seq(S), NEW b \in Seq(S), NEW k \in 1..Len(a)
    PROVE  a \o b \in Seq(S) /\ k \in 1..Len(a \o b) /\ (a \o b)[k] = a[k]
OBVIOUS

(* A packet NAT chose the destination of passes the forward chain, from    *)
(* wherever it comes.                                                      *)
LEMMA ForwardPasses ==
    ASSUME InStep, Settled, ~st.fw.native, NEW seen, seen.dnat, seen.oif # "-"
    PROVE  Accepts(filter, seen)
<1>1. filter = RenderIPTV(st.fw, Inside(st), Openings(st), Resolve(st))
  BY SettledTables
<1>2. CASE ~st.fw.enabled
  <2>1. filter.forward = <<>>
    BY <1>1, <1>2 DEF RenderIPTV, NoFilter
  <2> QED  BY <2>1 DEF Accepts, ruleExprs
<1>3. CASE st.fw.enabled
  <2> DEFINE rules == forwardRules(Resolve(st))
             split == splitSources(rules \o One("drop"), Inside(st))
  <2>1. filter.forward = split
    BY <1>1, <1>3 DEF RenderIPTV
  <2>2. rules \in Seq(ForwardRuleSet(st))
        /\ \A r \in ForwardRuleSet(st) : r = Rule(r.kind, r.arg) /\ r.kind # "drop"
    BY ChainsOfDocument
  <2>3. 4 \in 1..Len(rules) /\ rules[4] = Rule("port_forward", "-")
    <3> DEFINE F == ForwardRuleSet(st)
               front == One("established") \o One("from_inside") \o One("to_not_inside")
                        \o One("port_forward")
               streams == EachOf("iptv_stream",
                   IF Resolve(st).up = "-" THEN <<>>
                   ELSE [i \in DOMAIN Resolve(st).down |->
                            [up |-> Resolve(st).up, down |-> Resolve(st).down[i]]])
    <3>1. streams \in Seq(F)
      BY ChainsOfDocument
    <3>2. front \in Seq(F) /\ Len(front) = 4 /\ front[4] = Rule("port_forward", "-")
      <4>1. \A k \in ForwardKinds : Rule(k, "-") \in F
        BY DEF ForwardRuleSet
      <4> HIDE DEF F
      <4> QED  BY <4>1 DEF One, ForwardKinds
    <3>3. One("icmpv6") \in Seq(F)
      BY DEF One, ForwardRuleSet, ForwardKinds
    <3>4. rules = (front \o One("icmpv6")) \o streams
      BY DEF forwardRules
    <3> DEFINE icmp == One("icmpv6")
    <3>5. icmp \in Seq(F) /\ rules = (front \o icmp) \o streams
      BY <3>3, <3>4
    <3> HIDE DEF F, front, streams, rules, icmp
    <3>6. front \o icmp \in Seq(F) /\ 4 \in 1..Len(front \o icmp) /\ (front \o icmp)[4] = front[4]
      <4>1. front \in Seq(F) /\ icmp \in Seq(F) /\ 4 \in 1..Len(front)
        BY <3>2, <3>5
      <4> QED  BY ONLY <4>1, FrontKept
    <3>7. 4 \in 1..Len(rules) /\ rules[4] = (front \o icmp)[4]
      BY <3>1, <3>5, <3>6, FrontKept
    <3> QED  BY <3>2, <3>6, <3>7
  <2>4. baseRuleExprs(filter, rules[4], seen)
    BY <2>3 DEF baseRuleExprs, Rule
  <2>5. sourceExprs(filter, seen) \in split[4].sources
    <3> DEFINE chain == rules \o One("drop")
    <3>1. 4 \in DOMAIN chain /\ chain[4] = Rule("port_forward", "-")
      <4>1. rules \in Seq(ForwardRuleSet(st))
        BY <2>2
      <4> HIDE DEF rules
      <4> QED  BY <2>3, <4>1 DEF One
    <3> HIDE DEF chain
    <3>2. chain[4].kind = "port_forward" /\ chain[4].sources = {"outside", "inside", "local"}
      BY <3>1 DEF Rule
    <3>3. splitSources(chain, Inside(st))[4] = [chain[4] EXCEPT !.sources = chain[4].sources]
      BY ONLY <3>1, <3>2 DEF splitSources
    <3>4. splitSources(chain, Inside(st))[4].sources = {"outside", "inside", "local"}
      BY <3>1, <3>2, <3>3 DEF Rule
    <3> QED  BY <3>4 DEF chain, sourceExprs
  <2>6. ruleExprs(filter, split, seen)
    BY <2>2, <2>3, <2>4, <2>5, RulePasses
  <2> QED  BY <2>1, <2>6 DEF Accepts
<1> QED  BY <1>2, <1>3

(* The forwards of a document that applies: their ports are ports, they    *)
(* lead elsewhere, and no two of one interface cover the same packet.      *)
LEMMA ForwardsApart ==
    ASSUME NatApplies(st), NEW i \in DOMAIN st.gw.forwards
    PROVE  LET f == st.gw.forwards[i]
           IN  /\ f.port[1] \in Nat /\ f.port[2] \in Nat /\ f.dport \in Nat
               /\ ~IsLocalAddress(LinksOf(st), f.to)
               /\ \A p : \A j \in DOMAIN st.gw.forwards :
                     st.gw.forwards[j].in = f.in /\ Covers(f, p) /\ Covers(st.gw.forwards[j], p)
                        => i = j
<1> DEFINE fs == st.gw.forwards
           f == fs[i]
<1>1. /\ validateOverlaps(fs) /\ validatePorts(f) /\ ~IsLocalAddress(LinksOf(st), f.to)
  BY DEF NatApplies, ValidForwards, validateTo
<1>2. \A j \in DOMAIN fs : fs[j].port[1] \in Nat /\ fs[j].port[2] \in Nat /\ fs[j].dport \in Nat
  <2> TAKE j \in DOMAIN fs
  <2>1. validatePorts(fs[j])
    BY DEF NatApplies, ValidForwards
  <2> QED  BY <2>1 DEF validatePorts, ValidRange, IsPort
<1>3. \A p : \A j \in DOMAIN fs : fs[j].in = f.in /\ Covers(f, p) /\ Covers(fs[j], p) => i = j
  <2> SUFFICES ASSUME NEW p, NEW j \in DOMAIN fs, fs[j].in = f.in, Covers(f, p), Covers(fs[j], p)
               PROVE  i = j
    OBVIOUS
  <2>1. Each(f.proto) \cap Each(fs[j].proto) # {}
    BY DEF Covers
  <2>2. Overlaps(f.port, fs[j].port)
    BY <1>2 DEF Covers, Overlaps
  <2> QED  BY <1>1, <2>1, <2>2 DEF validateOverlaps
<1> QED  BY <1>1, <1>2, <1>3

(* A network's interface as NAT sees it.                                   *)
LEMMA NetworkLink ==
    ASSUME InStep, NEW l \in st.nets
    PROVE  /\ l \in Lans /\ l \in DOMAIN Wires /\ l \in DOMAIN LinksOf(st)
           /\ LinksOf(st)[l].adopted /\ LinksOf(st)[l].nets = Wires[l].nets /\ Wires[l].nets # {}
           /\ l # Tunnel /\ l # st.uplink /\ l # NoIface
<1>1. l \in Lans /\ st.uplink \in Wans \cup {NoIface}
  BY DEF InStep, Shaped
<1>2. l \in DOMAIN Wires /\ Wires[l].nets # {} /\ l # Tunnel /\ l # st.uplink /\ l # NoIface
  BY <1>1, InterfacesAssumption
<1> QED  BY <1>1, <1>2 DEF LinksOf

(* What is meant for a forward is translated, and by that forward alone.   *)
LEMMA OnlyItsForward ==
    ASSUME InStep, Settled, NatApplies(st), st.gw.enabled,
           NEW p, NEW i \in DOMAIN st.gw.forwards, MeantFor(i, p)
    PROVE  /\ Translations(nat, p, LinksOf(st)) # {}
           /\ \A r \in Translations(nat, p, LinksOf(st)) :
                 <<r.to, ToPort(r, p.port)>> = Delivery(st.gw.forwards[i], p)
<1> DEFINE fs == st.gw.forwards
           f == fs[i]
           L == LinksOf(st)
           T == Translations(nat, p, L)
           Rule0(l, c) == [for |-> f.name, in |-> l, proto |-> p.proto, port |-> f.port,
                           to |-> f.to, ports |-> InsidePorts(f), counter |-> c]
<1>1. IsLocalAddress(L, p.dst) /\ p.proto \in Each(f.proto) /\ p.port \in f.port[1]..f.port[2] /\ Covers(f, p)
  BY DEF MeantFor, Covers
<1>2. CASE p.iif = f.in
  <2>1. Rule0(f.in, f.slot) \in nat.dnat
    <3>1. Rule0(f.in, f.slot) \in dnatRules(f, p.proto)
      BY DEF dnatRules
    <3> HIDE DEF Rule0
    <3> QED  BY <1>1, <3>1, RenderedSettled, Zenon
  <2>2. dnatExprs(Rule0(f.in, f.slot), p, L)
    BY <1>1, <1>2 DEF dnatExprs
  <2>3. T # {} /\ T \subseteq nat.dnat /\ \A r \in T : dnatExprs(r, p, L)
    BY <2>1, <2>2 DEF Translations
  <2>4. ASSUME NEW r \in T PROVE <<r.to, ToPort(r, p.port)>> = Delivery(f, p)
    <3>1. PICK j \in DOMAIN fs : \E pr \in Each(fs[j].proto) : r \in dnatRules(fs[j], pr)
      BY <2>3, RenderedSettled, Zenon
    <3>2. /\ r.proto \in Each(fs[j].proto) /\ r.port = fs[j].port /\ r.to = fs[j].to
          /\ r.ports = InsidePorts(fs[j]) /\ r.in = fs[j].in
      BY <3>1 DEF dnatRules
    <3>3. fs[j].in = f.in /\ Covers(fs[j], p)
      BY <1>2, <2>3, <3>2 DEF dnatExprs, Covers
    <3>4. i = j
      BY <1>1, <3>3, ForwardsApart
    <3> QED  BY <3>2, <3>4 DEF ToPort, Single, InsidePorts, Delivery
  <2> QED  BY <2>3, <2>4
<1>3. CASE /\ InsideOf(f, p) /\ p.iif # f.in
           /\ \A j \in DOMAIN fs \ {i} : ~Covers(fs[j], p)
  <2>1. p.iif \in InsideInterfaces(L, f.in)
    BY <1>3, NetworkLink DEF InsideOf, InsideInterfaces, Adopted
  <2>2. Rule0(p.iif, 0) \in nat.hairpin
    <3>1. Rule0(p.iif, 0) \in hairpinRules(f, p.proto, L)
      BY <1>3, <2>1 DEF hairpinRules, InsideOf
    <3> HIDE DEF Rule0
    <3> QED  BY <1>1, <3>1, RenderedSettled, Zenon
  <2>3. dnatExprs(Rule0(p.iif, 0), p, L)
    BY <1>1 DEF dnatExprs
  <2>4. T # {}
    BY <2>2, <2>3 DEF Translations
  <2>5. ASSUME NEW r \in T PROVE <<r.to, ToPort(r, p.port)>> = Delivery(f, p)
    <3>1. PICK j \in DOMAIN fs : Covers(fs[j], p) /\ <<r.to, ToPort(r, p.port)>> = Delivery(fs[j], p)
      BY TranslatedByForward
    <3>2. i = j
      BY <1>3, <3>1
    <3> QED  BY <3>1, <3>2
  <2> QED  BY <2>4, <2>5
<1> QED  BY <1>2, <1>3 DEF MeantFor

(* A hairpin's client and device on one network: the reply comes back      *)
(* through the router.                                                     *)
LEMMA HairpinMasqueraded ==
    ASSUME InStep, Settled, NatApplies(st), st.gw.enabled,
           NEW p, NEW i \in DOMAIN st.gw.forwards, MeantFor(i, p), InsideOf(st.gw.forwards[i], p),
           NEW n \in Wires[p.iif].nets, p.src \in n, st.gw.forwards[i].to \in n,
           NEW port, <<st.gw.forwards[i].to, port>> = Delivery(st.gw.forwards[i], p), NEW oif
    PROVE  Masqueraded(nat, p.src, st.gw.forwards[i].to, p.proto, port, oif)
<1> DEFINE f == st.gw.forwards[i]
           L == LinksOf(st)
           r == [prefix |-> n, to |-> f.to, ports |-> InsidePorts(f), proto |-> p.proto]
<1>1. p.proto \in Each(f.proto) /\ p.port \in f.port[1]..f.port[2] /\ HairpinOrDefault(f)
      /\ p.iif \in st.nets
  BY DEF MeantFor, Covers, InsideOf
<1>2. n \in PrefixesContaining(L, f.to)
  BY <1>1, NetworkLink DEF PrefixesContaining, Adopted
<1>3. r \in nat.masq
  <2>1. r \in masqRules(f, p.proto, L)
    BY <1>1, <1>2 DEF masqRules
  <2> HIDE DEF r
  <2> QED  BY <1>1, <2>1, RenderedSettled, Zenon
<1>4. port \in InsidePorts(f)[1]..InsidePorts(f)[2]
  BY <1>1, ForwardsApart DEF InsidePorts, Delivery, Single
<1>5. masqExprs(r, p.src, f.to, p.proto, port)
  BY <1>4 DEF masqExprs
<1> HIDE DEF r
<1> QED  BY <1>3, <1>5 DEF Masqueraded

(* The masquerades of the uplink and of WireGuard's peers.                 *)
LEMMA EgressMasqueraded ==
    ASSUME InStep, Settled, st.gw.enabled, st.gw.snat, st.uplink # NoIface,
           NEW l \in st.nets, NEW n \in Wires[l].nets, NEW src \in n,
           NEW dst, NEW proto, NEW port
    PROVE  Masqueraded(nat, src, dst, proto, port, st.uplink)
<1> DEFINE networks == UNION {Wires[k].nets : k \in st.nets}
<1>1. n \in networks
  OBVIOUS
<1> HIDE DEF networks
<1>2. nat.egress = natOf(st).egress
  BY SettledTables DEF NatWant, RenderNat, PerProtocol, natOf, ConfigNAT
<1>3. \E r \in natOf(st).egress : r.out = st.uplink /\ networks \subseteq r.sources
  BY <1>1 DEF natOf, ConfigNAT, networks
<1> QED  BY <1>1, <1>2, <1>3 DEF Masqueraded, egressExprs

LEMMA PeersMasqueraded ==
    ASSUME InStep, Settled, st.gw.enabled, st.wg, NEW src \in TunnelPrefix, NEW oif \in st.nets,
           ~OverlapsServed(LinksOf(st), TunnelPrefix, Tunnel, st.uplink),
           NEW dst, NEW proto, NEW port
    PROVE  Masqueraded(nat, src, dst, proto, port, oif)
<1> DEFINE d == [prefix |-> TunnelPrefix, tunnel |-> Tunnel, uplink |-> st.uplink]
           r == [prefix |-> TunnelPrefix, out |-> oif]
           L == LinksOf(st)
<1>1. natOf(st).enabled /\ natOf(st).dialIn = {d}
  BY DEF natOf, ConfigNAT
<1>2. nat = RenderNat(natOf(st), L)
  BY SettledTables DEF NatWant
<1>3. oif \in DialInInterfaces(L, Tunnel, st.uplink)
  BY NetworkLink DEF DialInInterfaces, Adopted
<1>4. nat.dialIn = UNION {IF OverlapsServed(L, e.prefix, e.tunnel, e.uplink) THEN {}
                          ELSE {[prefix |-> e.prefix, out |-> l] :
                                    l \in DialInInterfaces(L, e.tunnel, e.uplink)} :
                             e \in natOf(st).dialIn}
  BY <1>1, <1>2 DEF RenderNat, PerProtocol
<1>5. r \in nat.dialIn
  <2>1. nat.dialIn = {[prefix |-> TunnelPrefix, out |-> l] : l \in DialInInterfaces(L, Tunnel, st.uplink)}
    BY <1>1, <1>4
  <2> QED  BY <1>3, <2>1
<1>6. dialInExprs(r, src, oif)
  BY DEF dialInExprs
<1> HIDE DEF r
<1> QED  BY <1>5, <1>6 DEF Masqueraded

(* Where a packet gets, given where NAT sends it.                          *)
LEMMA EndsAtDevice ==
    ASSUME NEW p, NEW dst, NEW port, NEW dnat, NEW e, e = Ends(st, p, dst, port, dnat), e[1] = "device"
    PROVE  /\ e[4] = RouteTo(st, dst) /\ e[4] # NoIface
           /\ e[5] = Masqueraded(nat, p.src, dst, p.proto, port, e[4])
BY DEF Ends

LEMMA InStepDelivers == InStep => Delivered
<1> SUFFICES ASSUME InStep, Settled, NatApplies(st), st.gw.enabled, ~st.fw.native,
                    NEW p \in Packets, NEW e \in Fates(p)
             PROVE  /\ \A i \in DOMAIN st.gw.forwards : MeantFor(i, p) =>
                          /\ e[1] = "device" /\ <<e[2], e[3]>> = Delivery(st.gw.forwards[i], p)
                          /\ (/\ InsideOf(st.gw.forwards[i], p)
                              /\ \E n \in Wires[p.iif].nets : {p.src, st.gw.forwards[i].to} \subseteq n)
                             => e[5]
                    /\ (/\ e[1] = "device" /\ st.gw.snat /\ e[4] = st.uplink /\ p.iif \in st.nets
                        /\ \E n \in Wires[p.iif].nets : p.src \in n) => e[5]
                    /\ (/\ e[1] = "device" /\ st.wg /\ p.iif = Tunnel /\ p.src \in TunnelPrefix
                        /\ e[4] \in st.nets
                        /\ ~OverlapsServed(LinksOf(st), TunnelPrefix, Tunnel, st.uplink)) => e[5]
  BY DEF Delivered
<1>1. PICK dst, port, dnat : e = Ends(st, p, dst, port, dnat)
  BY Fated
<1>2. ASSUME NEW i \in DOMAIN st.gw.forwards, MeantFor(i, p)
      PROVE  /\ e[1] = "device" /\ <<e[2], e[3]>> = Delivery(st.gw.forwards[i], p)
             /\ (/\ InsideOf(st.gw.forwards[i], p)
                 /\ \E n \in Wires[p.iif].nets : {p.src, st.gw.forwards[i].to} \subseteq n)
                => e[5]
  <2> DEFINE f == st.gw.forwards[i]
             T == Translations(nat, p, LinksOf(st))
  <2>1. T # {} /\ \A r \in T : <<r.to, ToPort(r, p.port)>> = Delivery(f, p)
    BY <1>2, OnlyItsForward
  <2>2. PICK r \in T : e = Ends(st, p, r.to, ToPort(r, p.port), TRUE)
    BY <2>1 DEF Fates
  <2> DEFINE to == ToPort(r, p.port)
  <2>3. r.to = f.to /\ <<f.to, to>> = Delivery(f, p)
    BY <2>1, <2>2 DEF Delivery
  <2>4. ~IsLocalAddress(LinksOf(st), f.to) /\ RouteTo(st, f.to) # NoIface
    BY <1>2, ForwardsApart DEF MeantFor
  <2>5. Accepts(filter, [iif |-> p.iif, oif |-> RouteTo(st, f.to), src |-> p.src, proto |-> p.proto,
                         port |-> to, ct |-> "new", dnat |-> TRUE])
    BY <2>4, ForwardPasses DEF NoIface
  <2>6. e = <<"device", f.to, to, RouteTo(st, f.to),
              Masqueraded(nat, p.src, f.to, p.proto, to, RouteTo(st, f.to))>>
    BY <2>2, <2>3, <2>4, <2>5 DEF Ends
  <2>7. e[1] = "device" /\ e[2] = f.to /\ e[3] = to
        /\ e[5] = Masqueraded(nat, p.src, f.to, p.proto, to, RouteTo(st, f.to))
    BY <2>6
  <2>8. ASSUME InsideOf(f, p), NEW n \in Wires[p.iif].nets, {p.src, f.to} \subseteq n PROVE e[5]
    <3>1. Masqueraded(nat, p.src, f.to, p.proto, to, RouteTo(st, f.to))
      BY <1>2, <2>3, <2>8, HairpinMasqueraded
    <3> QED  BY <2>7, <3>1
  <2> QED  BY <2>3, <2>7, <2>8
<1>3. ASSUME e[1] = "device", st.gw.snat, e[4] = st.uplink, p.iif \in st.nets,
             NEW n \in Wires[p.iif].nets, p.src \in n
      PROVE  e[5]
  BY <1>1, <1>3, EndsAtDevice, EgressMasqueraded
<1>4. ASSUME e[1] = "device", st.wg, p.src \in TunnelPrefix, e[4] \in st.nets,
             ~OverlapsServed(LinksOf(st), TunnelPrefix, Tunnel, st.uplink)
      PROVE  e[5]
  BY <1>1, <1>4, EndsAtDevice, PeersMasqueraded
<1> QED  BY <1>2, <1>3, <1>4

(* Delivered of DataPlane: on a settled router whose forwards apply, a     *)
(* forward leads every packet it is for to its device and nowhere else,    *)
(* whatever the firewall is set to, and connections that need their source *)
(* address replaced have it replaced.                                      *)
THEOREM ForwardsDeliver == Spec => []Delivered
<1> QED  BY TablesInStep, InStepDelivers, PTL
=============================================================================
