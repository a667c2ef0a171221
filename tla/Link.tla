-------------------------------- MODULE Link --------------------------------
(***************************************************************************)
(* The networks of the box and the addresses their interfaces carry.       *)
(*                                                                         *)
(* A request plans, is held for confirmation if the plan takes an address  *)
(* away, stores the document and then writes the kernel; every kernel      *)
(* operation may fail on its own and the writer goes on with the rest.     *)
(* Addresses of other programs live on the same interfaces.                *)
(***************************************************************************)
EXTENDS Integers, FiniteSets

CONSTANTS
    Names,      \* names of networks
    Ifaces,     \* interfaces of the box
    Blocks,     \* the address settings a network is given: [v4, v6]
    Delegated,  \* delegated prefixes, each with the number of /64s it holds
    MaxEdits,   \* bound: requests in one behaviour
    MaxFaults   \* bound: failed steps, outside changes and reboots

VARIABLES
    doc,      \* the stored document: [adopted, nets, uplink]
    lease,    \* the delegated prefix: <<id, room>>, or None
    kernel,   \* interface -> [here, up, addrs]
    before,   \* the document an open connectivity trial would restore, or None
    placed,   \* addresses the router put on an interface (ghost)
    excused,  \* addresses kept on request or whose removal failed (ghost)
    clean,    \* the last step was a request that reported success (ghost)
    asked,    \* the last request was confirmed, or named one address (ghost)
    edits, faults

vars == <<doc, lease, kernel, before, placed, excused, clean, asked, edits, faults>>

None == <<>>
NoIface == "none"
NoBlock == <<"none">>
Uplink == <<4, "isp", 1>>    \* the uplink's static address
Foreign == {<<4, "other", 1>>, <<6, "other", 1>>}
IPv4(a) == a[1] = 4

(* What decoding and Validate accept in a network: an IPv4 address or      *)
(* none, and IPv6 numbering that is none, static or delegated.             *)
ASSUME BlocksAssumption ==
    \A b \in Blocks : /\ b.v4 = None \/ IPv4(b.v4)
                      /\ b.v6[1] \in {"none", "static", "delegated"}

(***************************************************************************)
(* The addresses a document calls for.                                     *)
(***************************************************************************)
NthSubnet64(p, n) == IF p # None /\ n < p[2] THEN <<6, p[1], n>> ELSE None

Resolve(n, p) ==
    CASE n.v6[1] = "none" -> None
      [] n.v6[1] = "static" -> <<6, "static", n.v6[2]>>
      [] n.v6[1] = "delegated" -> NthSubnet64(p, n.v6[2])

Members(d) == {d.nets[n].member : n \in DOMAIN d.nets}
(* <<interface, address>> of every router address, by family.              *)
Router4(d) == {<<d.nets[n].member, d.nets[n].v4>> : n \in {m \in DOMAIN d.nets : d.nets[m].v4 # None}}
Router6(d, p) == {<<d.nets[n].member, Resolve(d.nets[n], p)>> :
                    n \in {m \in DOMAIN d.nets : Resolve(d.nets[m], p) # None}}
DesiredFor(d, p) == Router4(d) \cup Router6(d, p)

(* Mutant of RetiredFor: an interface still in a network keeps the IPv6    *)
(* address of its old one, as it would if only IPv4 were owned.            *)
RetiredIfLeft(was, now, p, q) ==
    {x \in DesiredFor(was, p) : x[1] \notin Members(now)}

(* Router addresses the documents part with: IPv4 where the interface left *)
(* every network, IPv6 wherever it is no longer called for.                *)
RetiredFor(was, now, p, q) ==
    {x \in Router4(was) : x[1] \notin Members(now)} \cup (Router6(was, p) \ Router6(now, q))

(* An adopted interface carries at most one network, and networks share no *)
(* subnet and no /64 of the delegated prefix.                              *)
validateNetworks(d, m, n) == d.nets[m].member # d.nets[n].member
validateSubnetOverlap(d, m, n) ==
    None \notin {d.nets[m].v4, d.nets[n].v4} => d.nets[m].v4[2] # d.nets[n].v4[2]
validateSubnet6Overlap(d, m, n) == d.nets[m].v6 = d.nets[n].v6 => d.nets[m].v6 = NoBlock

Validate(d) ==
    /\ Members(d) \subseteq d.adopted
    /\ \A m, n \in DOMAIN d.nets : m # n =>
        /\ validateNetworks(d, m, n)
        /\ validateSubnetOverlap(d, m, n)
        /\ validateSubnet6Overlap(d, m, n)

(***************************************************************************)
(* The kernel operations of an apply, and the plan shown for them.         *)
(***************************************************************************)
On(i) == {<<i, a>> : a \in kernel[i].addrs}
Here == {i \in Ifaces : kernel[i].here}
Carried == UNION {On(i) : i \in Here}

Adds(want) == {x \in want : x \notin Carried}

(* An IPv4 address on a member that its network does not call for.         *)
Stray(d) == {x \in Carried : x[1] \in Members(d) /\ IPv4(x[2]) /\ x \notin Router4(d)}

PlanAddrs(d) == [add |-> {x \in Adds(DesiredFor(d, lease)) : x[1] \in Here},
                 del |-> Stray(d),
                 up  |-> {i \in Members(d) \cap Here : ~kernel[i].up}]
PlanRetire(was, d) == RetiredFor(was, d, lease, lease) \cap Carried

(* A network as the plan compares it.                                      *)
networkImpact(a, b) ==
    IF \/ a.member # b.member
       \/ a.v4 # None /\ a.v4 # b.v4
       \/ a.v6 # NoBlock /\ a.v6 # b.v6
    THEN "disruptive" ELSE "restart"

(* Mutant of Disruptive: the plan looks at the networks and not at what    *)
(* the interfaces carry.                                                   *)
DisruptiveNetworks(d, keep) ==
    \/ \E n \in DOMAIN doc.nets \cap DOMAIN d.nets :
            doc.nets[n] # d.nets[n] /\ networkImpact(doc.nets[n], d.nets[n]) = "disruptive"
    \/ ~keep /\ DOMAIN doc.nets \ DOMAIN d.nets # {}

(* buildPlan: the strongest impact of the changes it lists.                *)
Disruptive(d, keep) ==
    \/ DisruptiveNetworks(d, keep)
    \/ PlanAddrs(d).del # {}
    \/ ~keep /\ PlanRetire(doc, d) # {}

Empty(d, keep) ==
    d = doc /\ PlanAddrs(d) = [add |-> {}, del |-> {}, up |-> {}] /\ (keep \/ PlanRetire(doc, d) = {})

(* The writer: `retire` is what is taken off by name, `owned` the members  *)
(* whose other IPv4 addresses go too.  `done` is what succeeded.           *)
Ops(want, owned, retire) ==
    {<<"add", x>> : x \in Adds(want)}
        \cup {<<"del", x>> : x \in {y \in Carried : y \in retire \/ (y[1] \in owned /\ IPv4(y[2]) /\ y \notin want)}}
        \cup {<<"up", <<i, None>>>> : i \in {j \in owned : ~kernel[j].up}}

(* An interface that is not there makes every operation on it fail.        *)
Fails(ops) == {o \in ops : o[2][1] \notin Here}

Write(ops, done) ==
    LET of(kind, i) == {o[2][2] : o \in {p \in done : p[1] = kind /\ p[2][1] = i}} IN
    /\ kernel' = [i \in Ifaces |->
                    [kernel[i] EXCEPT !.addrs = (@ \cup of("add", i)) \ of("del", i),
                                      !.up = @ \/ of("up", i) # {}]]
    /\ placed' = (placed \cup {o[2] : o \in {p \in done : p[1] = "add"}})
                    \ {o[2] : o \in {p \in done : p[1] = "del"}}

(* linuxWriter.Apply, with whatever of it fails.                           *)
Apply(ops, done) ==
    /\ done \subseteq ops \ Fails(ops)
    /\ done # ops \ Fails(ops) => faults < MaxFaults
    /\ faults' = IF done = ops \ Fails(ops) THEN faults ELSE faults + 1
    /\ Write(ops, done)

(***************************************************************************)
(* A request (mutate, apply): plan, hold, store, write.                    *)
(***************************************************************************)
mutate(d, keep, confirm) ==
    LET retire == IF keep THEN {} ELSE RetiredFor(doc, d, lease, lease)
        ops == Ops(DesiredFor(d, lease), Members(d), retire)
    IN  /\ edits < MaxEdits /\ edits' = edits + 1
        /\ Validate(d)
        /\ ~(Disruptive(d, keep) /\ ~confirm)
        /\ before' = IF Disruptive(d, keep) THEN doc ELSE before
        /\ Disruptive(d, keep) => before = None
        /\ doc' = d /\ asked' = confirm
        /\ \E done \in SUBSET ops :
              /\ Apply(ops, done)
              /\ clean' = (done = ops)
              /\ excused' = excused \cup (RetiredFor(doc, d, lease, lease) \ {o[2] : o \in done})
                                    \cup {o[2] : o \in {p \in ops \ done : p[1] = "del"}}
        /\ UNCHANGED lease

Doc(adopted, nets) == [adopted |-> adopted, nets |-> nets, uplink |-> doc.uplink]
Block(b, i) == [member |-> i, v4 |-> b.v4, v6 |-> b.v6]
Set(nets, n, net) == [m \in DOMAIN nets \cup {n} |-> IF m = n THEN net ELSE nets[m]]

(* PUT and PATCH of the document: a network set or moved, two exchanged,   *)
(* one removed, an interface adopted or released, or the document as it is.*)
putNetwork == \E n \in Names, i \in Ifaces, b \in Blocks, keep, confirm \in BOOLEAN :
    mutate(Doc(doc.adopted, Set(doc.nets, n, Block(b, i))), keep, confirm)
removeNetwork == \E n \in DOMAIN doc.nets, keep, confirm \in BOOLEAN :
    mutate(Doc(doc.adopted, [m \in DOMAIN doc.nets \ {n} |-> doc.nets[m]]), keep, confirm)
swapNetworks == \E confirm \in BOOLEAN :
    /\ Cardinality(DOMAIN doc.nets) = 2
    /\ mutate(Doc(doc.adopted, [n \in DOMAIN doc.nets |->
            [doc.nets[n] EXCEPT !.member = CHOOSE i \in Members(doc) : i # @]]), FALSE, confirm)
adopt == \E is \in SUBSET Ifaces, confirm \in BOOLEAN :
    is # doc.adopted /\ mutate(Doc(is, doc.nets), FALSE, confirm)
reapply == \E keep, confirm \in BOOLEAN : mutate(doc, keep, confirm)

(* DELETE of one address, on an adopted interface no network owns; the     *)
(* uplink's own is refused.                                                *)
RemoveAddress(x) ==
    /\ x \in Carried
    /\ x[1] \in doc.adopted \ Members(doc)
    /\ x # <<doc.uplink, Uplink>>
    /\ Apply({<<"del", x>>}, {<<"del", x>>})
deleteAddress ==
    /\ edits < MaxEdits /\ edits' = edits + 1
    /\ \E x \in Carried : IPv4(x[2]) /\ RemoveAddress(x)
    /\ clean' = FALSE /\ asked' = TRUE
    /\ UNCHANGED <<doc, lease, before, excused>>

(* The uplink is given an interface and its address, and the trial of that *)
(* change is kept; dial refuses an interface that carries a network.       *)
setUplink ==
    /\ edits < MaxEdits /\ edits' = edits + 1
    /\ before = None
    /\ \E i \in (Here \cap doc.adopted) \ Members(doc) :
        /\ doc.uplink = NoIface
        /\ doc' = [doc EXCEPT !.uplink = i]
        /\ kernel' = [kernel EXCEPT ![i].addrs = @ \cup {Uplink}]
    /\ clean' = FALSE /\ asked' = TRUE
    /\ UNCHANGED <<lease, before, placed, excused, faults>>

(***************************************************************************)
(* Recovery: the trial is kept, or its document is put back and what the   *)
(* abandoned one added is retired.                                         *)
(***************************************************************************)
Keep == before # None /\ before' = None
        /\ UNCHANGED <<doc, lease, kernel, placed, excused, clean, asked, edits, faults>>

Recover(abandoned, d) ==
    Ops(DesiredFor(d, lease), Members(d), RetiredFor(abandoned, d, lease, lease))

Rollback ==
    /\ before # None
    /\ LET ops == Recover(doc, before)
       IN  /\ doc' = before
           /\ \E done \in SUBSET ops :
                /\ Apply(ops, done)
                /\ clean' = (done = ops)
                /\ excused' = excused \cup {o[2] : o \in {p \in ops \ done : p[1] = "del"}}
    /\ before' = None /\ asked' = TRUE
    /\ UNCHANGED <<lease, edits>>

(* The delegated prefix moves and the networks follow it: the new router   *)
(* addresses are added and the old ones retired, and nothing else changes. *)
FollowDelegation == \E p \in Delegated \cup {None} :
    /\ p # lease /\ lease' = p
    /\ LET ops == Ops(Router6(doc, p), {}, RetiredFor(doc, doc, lease, p))
       IN  \E done \in SUBSET ops :
              /\ Apply(ops, done)
              /\ excused' = excused \cup {o[2] : o \in {q \in ops \ done : q[1] = "del"}}
              /\ clean' = (clean /\ done = ops)
    /\ edits < MaxEdits /\ edits' = edits + 1
    /\ asked' = TRUE
    /\ UNCHANGED <<doc, before>>

(***************************************************************************)
(* The world: a cable, another program, a reboot.  At start the stored     *)
(* addresses are added and nothing is removed.                             *)
(***************************************************************************)
Fault == faults < MaxFaults /\ faults' = faults + 1

Unplug(i) ==
    /\ Fault
    /\ kernel' = [kernel EXCEPT ![i] = [here |-> ~kernel[i].here, up |-> FALSE, addrs |-> {}]]
    /\ placed' = {x \in placed : x[1] # i}
    /\ clean' = FALSE /\ asked' = TRUE
    /\ UNCHANGED <<doc, lease, before, excused, edits>>

OtherProgram == \E i \in Here, a \in Foreign :
    /\ Fault
    /\ kernel' = [kernel EXCEPT ![i].addrs = @ \cup {a}]
    /\ clean' = FALSE /\ asked' = TRUE
    /\ UNCHANGED <<doc, lease, before, placed, excused, edits>>

Restore ==
    /\ Fault
    /\ LET want == {x \in DesiredFor(doc, lease) : x[1] \in Here}
       IN  /\ kernel' = [i \in Ifaces |->
                [here |-> kernel[i].here, up |-> i \in Members(doc) /\ i \in Here,
                 addrs |-> {x[2] : x \in {y \in want : y[1] = i}}
                            \cup (IF i = doc.uplink /\ i \in Here THEN {Uplink} ELSE {})]]
           /\ placed' = want
    /\ clean' = FALSE /\ asked' = TRUE
    /\ UNCHANGED <<doc, lease, before, excused, edits>>

Init ==
    /\ doc \in {[adopted |-> is, nets |-> <<>>, uplink |-> NoIface] : is \in {{}, Ifaces}}
    /\ lease = None
    /\ kernel \in [Ifaces -> {[here |-> TRUE, up |-> FALSE, addrs |-> {}]}]
    /\ before = None /\ placed = {} /\ excused = {} /\ clean = FALSE /\ asked = FALSE
    /\ edits = 0 /\ faults = 0

Next ==
    \/ putNetwork \/ removeNetwork \/ swapNetworks \/ adopt \/ reapply
    \/ deleteAddress \/ setUplink \/ FollowDelegation
    \/ Keep \/ Rollback
    \/ \E i \in Ifaces : Unplug(i)
    \/ OtherProgram \/ Restore

Spec == Init /\ [][Next]_vars

(***************************************************************************)
(* Properties.                                                             *)
(***************************************************************************)
(* A request that reports success leaves every member up, with its router  *)
(* addresses and no IPv4 address besides (Apply, apply.go:210; PlanAddrs,  *)
(* writer.go:158), and so does a move of the delegated prefix that follows.*)
Addressed ==
    clean => \A i \in Members(doc) :
                /\ kernel[i].up
                /\ {x \in DesiredFor(doc, lease) : x[1] = i} \subseteq On(i)
                /\ {x \in On(i) : IPv4(x[2])} \subseteq Router4(doc)

(* No address the router put on an interface stays there once no network   *)
(* calls for it, whichever request, rollback or prefix took the network    *)
(* away, unless it was kept on request or its removal failed (RetiredFor,  *)
(* writer.go:234).                                                         *)
NothingLeft == placed \subseteq DesiredFor(doc, lease) \cup excused

(* Both: the interfaces carry what the networks call for, and nothing the  *)
(* router put there for a network that is gone.                            *)
NetworksInForce == Addressed /\ NothingLeft

(* A request nobody confirmed takes no address off any interface, the      *)
(* uplink's and other programs' included, whatever drift and half-applied  *)
(* changes the interfaces were left with (buildPlan, view.go:339).         *)
KeepsAddresses == ~asked' => \A i \in Ifaces : kernel[i].addrs \subseteq kernel'[i].addrs

(* No request that was not confirmed takes an address off an interface,    *)
(* whoever put it there (the apply gate on buildPlan's impact).            *)
AddressesSpared == [][KeepsAddresses]_vars

(* "WAN interfaces are `dial`'s and are never members ... the refusal is   *)
(* what makes this paragraph true" (writer.go:141). TLC refutes it:        *)
(* nothing in link refuses the uplink's interface.                         *)
UplinkIsNoMember == doc.uplink \notin Members(doc)

=============================================================================
