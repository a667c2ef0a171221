---------------------------- MODULE MCDataPlane ----------------------------
(* The instance of DataPlane: two networks and one uplink.                 *)
EXTENDS DataPlane

MCWires ==
    ("lan0" :> [nets |-> {{"a1", "a2", "ra"}}, own |-> {"ra"}]) @@
    ("lan1" :> [nets |-> {{"b1", "rb"}}, own |-> {"rb"}]) @@
    ("wan0" :> [nets |-> {{"isp", "rw"}}, own |-> {"rw"}])

Fwd(n, in, proto, port, to, hairpin) ==
    [name |-> n, in |-> in, proto |-> proto, port |-> port, to |-> to, dport |-> port[1],
     hairpin |-> hairpin, slot |-> 0]
MCForwards ==
    {Fwd(1, "wan0", "both", <<4, 5>>, "a1", "unset"), Fwd(2, "wan0", "", <<5, 5>>, "b1", "off"),
     [Fwd(2, "wan0", "udp", <<6, 6>>, "a2", "unset") EXCEPT !.dport = 7]}
MCIPTVs == {[enabled |-> TRUE, up |-> "wan0", nets |-> <<"lan0">>],
            [enabled |-> FALSE, up |-> "wan0", nets |-> <<>>]}

Pk(iif, src, dst, proto, port) == [iif |-> iif, src |-> src, dst |-> dst, proto |-> proto, port |-> port]
Outside == {Pk("wan0", "inet", d, pr, 5) : d \in {"rw", "b1"}, pr \in {"tcp", "udp"}}
           \cup {Pk("wan0", "inet", "rw", "udp", 8), Pk("wan0", "inet", "rw", "tcp", 9),
                 Pk("wan0", "inet", "rw", "tcp", 4), Pk("wan0", "broker", "rw", "6in4", 0),
                 Pk("wan0", "inet", "rw", "6in4", 0), Pk("wan0", "inet", "a2", "multicast", 0),
                 Pk("wan0", "inet", "rw", "udp", 6), Pk("wan0", "inet", "rw", "icmp", 0),
                 Pk("wan0", "inet", "rw", "tcp", 3)}
FromInside == {Pk("lan0", "a2", "rw", "tcp", 5), Pk("lan0", "a2", "rw", "tcp", 4), Pk("lan1", "b1", "rw", "udp", 5),
               Pk("lan0", "a1", "rw", "udp", 6), Pk("lan0", "a1", "inet", "tcp", 5), Pk("wg0", "w1", "a1", "tcp", 5),
               Pk("wg0", "w1", "inet", "tcp", 5)}
MCPackets == Outside \cup FromInside
=============================================================================
