----------------------------- MODULE MCGateway -----------------------------
(* Instances of Gateway for TLC: one served LAN and two uplinks.           *)
EXTENDS Gateway

MCNetworks == {"lan0", "wan2", "wan3"}
MCLinks ==
    [l \in MCNetworks \cup {Tun} |->
        [known |-> TRUE, up |-> TRUE, adopted |-> l # Tun,
         fams |-> IF l = Tun THEN {} ELSE {4}]]

One(name, slot, kind, on, fail) ==
    [name |-> name, slot |-> slot, ipv6 |-> "direct", fail |-> fail, snat |-> "unset",
     probe |-> name = 1, dns |-> "none",
     via |-> [kind |-> kind, on |-> on, fam |-> IF kind = "next_hop" THEN 4 ELSE 0,
              dev |-> NoIface]]
Doc(es, n) == [enabled |-> TRUE, exits |-> es, default |-> NoName,
               nets |-> "lan0" :> n, devs |-> <<>>, dests |-> <<>>]

Proxy == One(1, 1, "next_hop", "wan2", "unset")
Fallback == One(2, 2, "interface", "wan3", "unset")
Off == [enabled |-> FALSE, exits |-> <<>>, default |-> NoName,
        nets |-> <<>>, devs |-> <<>>, dests |-> <<>>]

MCWithin == [a \in Addresses |-> {}]

MCDocs == {Off, Doc(<<Proxy>>, 1), Doc(<<Proxy, Fallback>>, 2),
           Doc(<<[Proxy EXCEPT !.fail = "direct"], Fallback>>, 1),
           Doc(<<[Fallback EXCEPT !.slot = 1]>>, 2)}
ProxyDocs == {Doc(<<Proxy>>, 1)}

Packet(ct) == [src |-> "lan0", fam |-> 4, mac |-> "m", dst |-> "other", dnat |-> FALSE, ct |-> ct]
MCFlows == {Packet(0), Packet(1), Packet(2)}
=============================================================================
