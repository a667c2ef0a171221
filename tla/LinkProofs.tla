----------------------------- MODULE LinkProofs -----------------------------
(***************************************************************************)
(* The networks, for any names, interfaces, addresses and prefixes: what a *)
(* request that reports success leaves on the interfaces, that nothing of  *)
(* a network that is gone stays there, and that an unconfirmed request     *)
(* takes no address away.                                                  *)
(*                                                                         *)
(* NothingLeft is not inductive alone: that a router address no longer     *)
(* called for is among the removals of the next apply needs that it is     *)
(* really on its interface (PlacedIsThere), and Addressed that an          *)
(* interface that is gone carries nothing (IsKernel).                      *)
(***************************************************************************)
EXTENDS Link, TLAPS

(* The shapes of a network, a document and the kernel.                     *)
IsNet(n) ==
    /\ n = [member |-> n.member, v4 |-> n.v4, v6 |-> n.v6]
    /\ n.v4 = None \/ IPv4(n.v4)
    /\ n.v6[1] \in {"none", "static", "delegated"}
IsDoc(d) ==
    /\ d = [adopted |-> d.adopted, nets |-> d.nets, uplink |-> d.uplink]
    /\ d.adopted \subseteq Ifaces
    /\ Members(d) \subseteq Ifaces
    /\ \A n \in DOMAIN d.nets : IsNet(d.nets[n])
IsKernel(k) ==
    /\ k = [i \in Ifaces |-> k[i]]
    /\ \A i \in Ifaces :
        /\ k[i] = [here |-> k[i].here, up |-> k[i].up, addrs |-> k[i].addrs]
        /\ k[i].here \in BOOLEAN /\ k[i].up \in BOOLEAN
        /\ ~k[i].here => k[i].addrs = {}
Shape ==
    /\ IsDoc(doc) /\ (before # None => IsDoc(before)) /\ IsKernel(kernel)
    /\ clean \in BOOLEAN /\ asked \in BOOLEAN

(* What the router put on an interface is there.                           *)
PlacedIsThere == \A x \in placed : x[1] \in Ifaces /\ x[2] \in kernel[x[1]].addrs /\ x = <<x[1], x[2]>>

IInv == Shape /\ PlacedIsThere /\ Addressed /\ NothingLeft

(***************************************************************************)
(* Operators.                                                              *)
(***************************************************************************)
LEMMA PairIsSome == \A a, b, c : <<a, b, c>> # None
  BY DEF None

LEMMA InCarried ==
    ASSUME IsKernel(kernel)
    PROVE  /\ \A i \in Ifaces : \A a : <<i, a>> \in Carried <=> a \in kernel[i].addrs
           /\ \A x \in Carried : x[1] \in Ifaces /\ x[2] \in kernel[x[1]].addrs /\ x = <<x[1], x[2]>>
                                 /\ kernel[x[1]].here
  <1>1. ASSUME NEW x \in Carried
        PROVE  x[1] \in Ifaces /\ x[2] \in kernel[x[1]].addrs /\ x = <<x[1], x[2]>> /\ kernel[x[1]].here
    <2>1. PICK i \in Ifaces : kernel[i].here /\ x \in On(i)
      BY DEF Carried, Here
    <2>2. PICK a \in kernel[i].addrs : x = <<i, a>>
      BY <2>1 DEF On
    <2> QED BY <2>1, <2>2
  <1>2. ASSUME NEW i \in Ifaces, NEW a, a \in kernel[i].addrs
        PROVE  <<i, a>> \in Carried
    <2>1. i \in Here
      BY <1>2 DEF IsKernel, Here
    <2>2. <<i, a>> \in On(i)
      BY <1>2 DEF On
    <2> QED BY <2>1, <2>2 DEF Carried
  <1> QED BY <1>1, <1>2

(* The addresses of a document, by family.                                 *)
LEMMA Families ==
    ASSUME NEW d, IsDoc(d), NEW p
    PROVE  /\ \A x \in Router4(d) : /\ x = <<x[1], x[2]>> /\ x[1] \in Members(d) /\ x[1] \in Ifaces
                                    /\ IPv4(x[2])
           /\ \A x \in Router6(d, p) : /\ x = <<x[1], x[2]>> /\ x[1] \in Members(d) /\ x[1] \in Ifaces
                                       /\ ~IPv4(x[2])
  <1>1. ASSUME NEW x \in Router4(d)
        PROVE  x = <<x[1], x[2]>> /\ x[1] \in Members(d) /\ x[1] \in Ifaces /\ IPv4(x[2])
    <2>1. PICK n \in DOMAIN d.nets : d.nets[n].v4 # None /\ x = <<d.nets[n].member, d.nets[n].v4>>
      BY DEF Router4
    <2> QED BY <2>1 DEF IsDoc, IsNet, Members
  <1>2. ASSUME NEW x \in Router6(d, p)
        PROVE  x = <<x[1], x[2]>> /\ x[1] \in Members(d) /\ x[1] \in Ifaces /\ ~IPv4(x[2])
    <2>1. PICK n \in DOMAIN d.nets :
              Resolve(d.nets[n], p) # None /\ x = <<d.nets[n].member, Resolve(d.nets[n], p)>>
      BY DEF Router6
    <2>2. d.nets[n].v6[1] \in {"none", "static", "delegated"}
      BY DEF IsDoc, IsNet
    <2>3. Resolve(d.nets[n], p)[1] = 6
      BY <2>1, <2>2 DEF Resolve, NthSubnet64
    <2> QED BY <2>1, <2>3 DEF IsDoc, Members, IPv4
  <1> QED BY <1>1, <1>2

(* The operations of an apply, by kind.                                    *)
LEMMA InOps ==
    ASSUME IsKernel(kernel), NEW want, NEW owned, NEW retire,
           \A x \in want : x = <<x[1], x[2]>> /\ x[1] \in Ifaces
    PROVE  /\ \A i, a : <<"add", <<i, a>>>> \in Ops(want, owned, retire)
                         <=> <<i, a>> \in want /\ <<i, a>> \notin Carried
           /\ \A i, a : <<"del", <<i, a>>>> \in Ops(want, owned, retire)
                         <=> /\ <<i, a>> \in Carried
                             /\ <<i, a>> \in retire \/ (i \in owned /\ IPv4(a) /\ <<i, a>> \notin want)
           /\ \A i : <<"up", <<i, None>>>> \in Ops(want, owned, retire) <=> i \in owned /\ ~kernel[i].up
           /\ \A o \in Ops(want, owned, retire) :
                 /\ o = <<o[1], <<o[2][1], o[2][2]>>>> /\ o[1] \in {"add", "del", "up"}
                 /\ o[1] = "up" => o[2][2] = None
  <1> DEFINE adds == {<<"add", x>> : x \in Adds(want)}
             gone == {y \in Carried : y \in retire \/ (y[1] \in owned /\ IPv4(y[2]) /\ y \notin want)}
             dels == {<<"del", x>> : x \in gone}
             ups  == {<<"up", <<i, None>>>> : i \in {j \in owned : ~kernel[j].up}}
  <1>0. Ops(want, owned, retire) = adds \cup dels \cup ups
    BY DEF Ops
  <1>1. \A o \in adds : o[1] = "add" /\ o[2] \in Adds(want) /\ o = <<"add", o[2]>>
    OBVIOUS
  <1>2. \A o \in dels : o[1] = "del" /\ o[2] \in gone /\ o = <<"del", o[2]>>
    OBVIOUS
  <1>3. \A o \in ups : /\ o[1] = "up" /\ o[2][1] \in owned /\ ~kernel[o[2][1]].up
                       /\ o = <<"up", <<o[2][1], o[2][2]>>>> /\ o[2][2] = None
    OBVIOUS
  <1>4. \A x \in gone : x = <<x[1], x[2]>>
    BY InCarried
  <1>5. \A x \in Adds(want) : x \in want /\ x \notin Carried
    BY DEF Adds
  <1>6. \A x : x \in want /\ x \notin Carried => <<"add", x>> \in adds
    BY DEF Adds
  <1>7. \A x \in gone : <<"del", x>> \in dels
    OBVIOUS
  <1>8. \A i : i \in owned /\ ~kernel[i].up => <<"up", <<i, None>>>> \in ups
    OBVIOUS
  <1>9. \A i, a : <<i, a>> \in gone <=> /\ <<i, a>> \in Carried
                                        /\ <<i, a>> \in retire \/ (i \in owned /\ IPv4(a) /\ <<i, a>> \notin want)
    OBVIOUS
  <1> HIDE DEF adds, dels, ups, gone
  <1>10. ASSUME NEW i, NEW a
         PROVE  /\ <<"add", <<i, a>>>> \in adds \cup dels \cup ups <=> <<i, a>> \in want /\ <<i, a>> \notin Carried
                /\ <<"del", <<i, a>>>> \in adds \cup dels \cup ups <=> <<i, a>> \in gone
    <2> DEFINE ao == <<"add", <<i, a>>>>
               do == <<"del", <<i, a>>>>
    <2>1. ao[1] = "add" /\ ao[2] = <<i, a>> /\ do[1] = "del" /\ do[2] = <<i, a>>
      OBVIOUS
    <2> HIDE DEF ao, do
    <2>2. ao \in adds \cup dels \cup ups => <<i, a>> \in want /\ <<i, a>> \notin Carried
      BY <1>1, <1>2, <1>3, <1>5, <2>1
    <2>3. do \in adds \cup dels \cup ups => <<i, a>> \in gone
      BY <1>1, <1>2, <1>3, <2>1
    <2> QED BY <1>6, <1>7, <2>2, <2>3 DEF ao, do
  <1>11. ASSUME NEW i
         PROVE  <<"up", <<i, None>>>> \in adds \cup dels \cup ups <=> i \in owned /\ ~kernel[i].up
    <2> DEFINE uo == <<"up", <<i, None>>>>
    <2>1. uo[1] = "up" /\ uo[2][1] = i
      OBVIOUS
    <2> HIDE DEF uo
    <2>2. uo \in adds \cup dels \cup ups => i \in owned /\ ~kernel[i].up
      BY <1>1, <1>2, <1>3, <2>1
    <2> QED BY <1>8, <2>2 DEF uo
  <1>12. ASSUME NEW o \in adds \cup dels \cup ups
         PROVE  /\ o = <<o[1], <<o[2][1], o[2][2]>>>> /\ o[1] \in {"add", "del", "up"}
                /\ o[1] = "up" => o[2][2] = None
    <2>1. CASE o \in adds
      <3>1. o = <<"add", o[2]>> /\ o[2] = <<o[2][1], o[2][2]>> /\ o[1] = "add"
        BY <1>1, <1>5, <2>1
      <3> QED BY <3>1
    <2>2. CASE o \in dels
      <3>1. o = <<"del", o[2]>> /\ o[2] = <<o[2][1], o[2][2]>> /\ o[1] = "del"
        BY <1>2, <1>4, <2>2
      <3> QED BY <3>1
    <2>3. CASE o \in ups
      BY <1>3, <2>3
    <2> QED BY <2>1, <2>2, <2>3
  <1> QED BY <1>0, <1>9, <1>10, <1>11, <1>12

(* What is asked of operations that are written.                           *)
AreOps(ops) ==
    \A o \in ops : /\ o = <<o[1], <<o[2][1], o[2][2]>>>> /\ o[1] \in {"add", "del", "up"}
                   /\ o[1] = "up" => o[2][2] = None

(* What a write leaves, interface by interface and address by address.     *)
LEMMA Written ==
    ASSUME IsKernel(kernel), NEW ops, AreOps(ops), NEW done, done \subseteq ops \ Fails(ops),
           Write(ops, done)
    PROVE  /\ IsKernel(kernel')
           /\ \A i \in Ifaces :
                /\ kernel'[i].here = kernel[i].here
                /\ kernel'[i].up <=> kernel[i].up \/ <<"up", <<i, None>>>> \in done
                /\ \A a : a \in kernel'[i].addrs <=>
                            /\ a \in kernel[i].addrs \/ <<"add", <<i, a>>>> \in done
                            /\ <<"del", <<i, a>>>> \notin done
           /\ \A i, a : <<i, a>> \in placed' <=> /\ <<i, a>> \in placed \/ <<"add", <<i, a>>>> \in done
                                                 /\ <<"del", <<i, a>>>> \notin done
           /\ \A x \in placed' : x \in placed \/ <<"add", x>> \in done
           /\ \A o \in done : o[2][1] \in Ifaces => kernel[o[2][1]].here
  <1> DEFINE of(kind, i) == {o[2][2] : o \in {p \in done : p[1] = kind /\ p[2][1] = i}}
  <1>1. \A kind, i, a : a \in of(kind, i) <=> \E o \in done : o[1] = kind /\ o[2][1] = i /\ o[2][2] = a
    OBVIOUS
  <1>2. \A o \in done : o = <<o[1], <<o[2][1], o[2][2]>>>> /\ (o[1] = "up" => o[2][2] = None)
    BY DEF AreOps
  <1>3. \A kind, i, a : a \in of(kind, i) <=> <<kind, <<i, a>>>> \in done
    <2> TAKE kind, i, a
    <2> DEFINE w == <<kind, <<i, a>>>>
    <2>1. w[1] = kind /\ w[2][1] = i /\ w[2][2] = a
      OBVIOUS
    <2>2. w \in done => a \in of(kind, i)
      <3> HIDE DEF w, of
      <3> QED BY <1>1, <2>1
    <2>3. ASSUME a \in of(kind, i) PROVE w \in done
      <3>1. PICK o \in done : o[1] = kind /\ o[2][1] = i /\ o[2][2] = a
        BY <1>1, <2>3
      <3>2. o = w
        BY <1>2, <3>1
      <3> QED BY <3>2
    <2> QED BY <2>2, <2>3
  <1>4. \A i : of("up", i) # {} <=> <<"up", <<i, None>>>> \in done
    <2> TAKE i
    <2>1. ASSUME NEW a \in of("up", i) PROVE <<"up", <<i, None>>>> \in done
      <3>1. PICK o \in done : o[1] = "up" /\ o[2][1] = i /\ o[2][2] = a
        BY <1>1, <2>1
      <3>2. a = None
        BY <1>2, <3>1
      <3> HIDE DEF of
      <3> QED BY <1>3, <2>1, <3>2
    <2> HIDE DEF of
    <2> QED BY <1>3, <2>1
  <1>5. kernel' = [i \in Ifaces |-> [kernel[i] EXCEPT !.addrs = (@ \cup of("add", i)) \ of("del", i),
                                                      !.up = @ \/ of("up", i) # {}]]
    BY DEF Write
  <1> HIDE DEF of
  <1>6. ASSUME NEW i \in Ifaces
        PROVE  /\ kernel'[i] = [here |-> kernel'[i].here, up |-> kernel'[i].up, addrs |-> kernel'[i].addrs]
               /\ kernel'[i].here = kernel[i].here
               /\ kernel'[i].up = (kernel[i].up \/ of("up", i) # {})
               /\ kernel'[i].addrs = (kernel[i].addrs \cup of("add", i)) \ of("del", i)
    <2>0. PICK k : k = kernel[i]
      OBVIOUS
    <2>1. PICK A : A = (k.addrs \cup of("add", i)) \ of("del", i)
      OBVIOUS
    <2>2. PICK U : U = (k.up \/ of("up", i) # {})
      OBVIOUS
    <2>3. kernel'[i] = [k EXCEPT !.addrs = (@ \cup of("add", i)) \ of("del", i),
                                 !.up = @ \/ of("up", i) # {}]
      BY <1>5, <2>0
    <2>4. kernel'[i] = [k EXCEPT !.addrs = A, !.up = U]
      BY <2>1, <2>2, <2>3
    <2>5. k = [here |-> k.here, up |-> k.up, addrs |-> k.addrs]
      BY <2>0 DEF IsKernel
    <2>6. kernel'[i] = [here |-> k.here, up |-> U, addrs |-> A]
      BY <2>4, <2>5
    <2>7. /\ kernel'[i] = [here |-> kernel'[i].here, up |-> kernel'[i].up, addrs |-> kernel'[i].addrs]
          /\ kernel'[i].here = k.here /\ kernel'[i].up = U /\ kernel'[i].addrs = A
      BY <2>6
    <2>8. kernel'[i].up = (kernel[i].up \/ of("up", i) # {})
      BY <2>0, <2>2, <2>7
    <2> QED BY <2>0, <2>1, <2>7, <2>8
  <1>7. ASSUME NEW i \in Ifaces
        PROVE  /\ kernel'[i].here = kernel[i].here
               /\ kernel'[i].up <=> kernel[i].up \/ <<"up", <<i, None>>>> \in done
               /\ \A a : a \in kernel'[i].addrs <=>
                            /\ a \in kernel[i].addrs \/ <<"add", <<i, a>>>> \in done
                            /\ <<"del", <<i, a>>>> \notin done
    <2>1. kernel'[i].addrs = (kernel[i].addrs \cup of("add", i)) \ of("del", i)
      BY <1>6
    <2>2. kernel'[i].up = (kernel[i].up \/ of("up", i) # {})
      BY <1>6
    <2>3. kernel'[i].here = kernel[i].here
      BY <1>6
    <2>4. kernel'[i].up <=> kernel[i].up \/ <<"up", <<i, None>>>> \in done
      BY <1>4, <2>2
    <2>5. \A a : a \in kernel'[i].addrs <=>
                            /\ a \in kernel[i].addrs \/ <<"add", <<i, a>>>> \in done
                            /\ <<"del", <<i, a>>>> \notin done
      BY <1>3, <2>1
    <2> QED BY <2>3, <2>4, <2>5
  <1>8. \A o \in done : o[2][1] \in Ifaces => kernel[o[2][1]].here
    BY DEF Fails, Here
  <1>9. IsKernel(kernel')
    <2>1. kernel' = [i \in Ifaces |-> kernel'[i]]
      BY <1>5
    <2>2. ASSUME NEW i \in Ifaces
          PROVE  /\ kernel'[i] = [here |-> kernel'[i].here, up |-> kernel'[i].up, addrs |-> kernel'[i].addrs]
                 /\ kernel'[i].here \in BOOLEAN /\ kernel'[i].up \in BOOLEAN
      <3>1. kernel'[i].here = kernel[i].here /\ kernel'[i].up = (kernel[i].up \/ of("up", i) # {})
        BY <1>6
      <3> QED BY <1>6, <3>1 DEF IsKernel
    <2>3. ASSUME NEW i \in Ifaces, ~kernel'[i].here PROVE kernel'[i].addrs = {}
      <3>1. ~kernel[i].here /\ kernel[i].addrs = {}
        BY <1>7, <2>3 DEF IsKernel
      <3>2. \A a : <<"add", <<i, a>>>> \notin done
        <4> SUFFICES ASSUME NEW a, <<"add", <<i, a>>>> \in done PROVE FALSE
          OBVIOUS
        <4>1. PICK o \in done : o = <<"add", <<i, a>>>>
          OBVIOUS
        <4>2. o[2][1] = i
          BY <4>1
        <4> QED BY <1>8, <3>1, <4>2
      <3> QED BY <1>7, <3>1, <3>2
    <2> QED BY <2>1, <2>2, <2>3 DEF IsKernel
  <1>10. \A o \in done : o = <<o[1], o[2]>>
    <2> SUFFICES ASSUME NEW o \in done PROVE o = <<o[1], o[2]>>
      OBVIOUS
    <2>1. PICK k, x : o = <<k, x>>
      BY <1>2
    <2> QED BY <2>1
  <1>11. \A kind, x : (x \in {o[2] : o \in {p \in done : p[1] = kind}}) <=> <<kind, x>> \in done
    <2> TAKE kind, x
    <2>1. ASSUME NEW o \in done, o[1] = kind, o[2] = x PROVE <<kind, x>> \in done
      BY <1>10, <2>1
    <2>2. PICK w : w = <<kind, x>>
      OBVIOUS
    <2>3. w[1] = kind /\ w[2] = x
      BY <2>2
    <2> QED BY <2>1, <2>2, <2>3
  <1>12. \A x : x \in placed' <=> (x \in placed \/ <<"add", x>> \in done) /\ <<"del", x>> \notin done
    <2> DEFINE A == {o[2] : o \in {p \in done : p[1] = "add"}}
               B == {o[2] : o \in {p \in done : p[1] = "del"}}
    <2>1. placed' = (placed \cup A) \ B
      BY DEF Write
    <2>2. \A x : (x \in A <=> <<"add", x>> \in done) /\ (x \in B <=> <<"del", x>> \in done)
      BY <1>11
    <2> HIDE DEF A, B
    <2> QED BY <2>1, <2>2
  <1> QED BY <1>7, <1>8, <1>9, <1>12

(* What an apply leaves, whatever of it fails.                             *)
LEMMA Applied ==
    ASSUME IsKernel(kernel), PlacedIsThere, NEW want, NEW owned, NEW retire,
           \A x \in want : x = <<x[1], x[2]>> /\ x[1] \in Ifaces,
           NEW done \in SUBSET Ops(want, owned, retire),
           Apply(Ops(want, owned, retire), done)
    PROVE  /\ IsKernel(kernel')
           /\ PlacedIsThere'
           /\ \A x \in placed' : x \in want \/ x \in placed
           /\ \A x \in placed \cap placed' :
                 x \in retire \/ (x[1] \in owned /\ IPv4(x[2]) /\ x \notin want)
                    => x \in {o[2] : o \in {p \in Ops(want, owned, retire) \ done : p[1] = "del"}}
           /\ \A x \in placed \cap placed' : x[2] # None => x \notin {o[2] : o \in done}
           /\ \A i \in Ifaces : kernel[i].up => kernel'[i].up
           /\ done = Ops(want, owned, retire) =>
                /\ \A i \in owned \cap Ifaces : kernel'[i].up
                /\ \A x \in want : x \notin retire => x[2] \in kernel'[x[1]].addrs
                /\ \A i \in Ifaces : \A a \in kernel'[i].addrs :
                      <<i, a>> \in want \/ (a \in kernel[i].addrs /\ ~(i \in owned /\ IPv4(a)))
           /\ \A i \in Ifaces : \A a \in kernel[i].addrs : a \notin kernel'[i].addrs =>
                 <<i, a>> \in retire \/ (i \in owned /\ IPv4(a) /\ <<i, a>> \notin want)
  <1> DEFINE ops == Ops(want, owned, retire)
  <1>1. /\ \A i, a : <<"add", <<i, a>>>> \in ops <=> <<i, a>> \in want /\ <<i, a>> \notin Carried
        /\ \A i, a : <<"del", <<i, a>>>> \in ops
                       <=> /\ <<i, a>> \in Carried
                           /\ <<i, a>> \in retire \/ (i \in owned /\ IPv4(a) /\ <<i, a>> \notin want)
        /\ \A i : <<"up", <<i, None>>>> \in ops <=> i \in owned /\ ~kernel[i].up
    BY InOps
  <1>2. AreOps(ops)
    BY InOps DEF AreOps
  <1>3. done \subseteq ops /\ done \subseteq ops \ Fails(ops) /\ Write(ops, done)
    BY DEF Apply
  <1>4. \A i \in Ifaces : \A a : <<i, a>> \in Carried <=> a \in kernel[i].addrs
    BY InCarried
  <1> HIDE DEF ops
  <1>5. /\ IsKernel(kernel')
        /\ \A i \in Ifaces :
                /\ kernel'[i].up <=> kernel[i].up \/ <<"up", <<i, None>>>> \in done
                /\ \A a : a \in kernel'[i].addrs <=>
                            /\ a \in kernel[i].addrs \/ <<"add", <<i, a>>>> \in done
                            /\ <<"del", <<i, a>>>> \notin done
        /\ \A i, a : <<i, a>> \in placed' <=> /\ <<i, a>> \in placed \/ <<"add", <<i, a>>>> \in done
                                              /\ <<"del", <<i, a>>>> \notin done
        /\ \A x \in placed' : x \in placed \/ <<"add", x>> \in done
    BY <1>2, <1>3, Written
  <1>6. \A x : <<"add", x>> \in ops => x = <<x[1], x[2]>>
    <2> SUFFICES ASSUME NEW x, <<"add", x>> \in ops PROVE x = <<x[1], x[2]>>
      OBVIOUS
    <2>1. PICK o \in ops : o = <<"add", x>>
      OBVIOUS
    <2>2. o[2] = x /\ o = <<o[1], <<o[2][1], o[2][2]>>>>
      BY <1>2, <2>1 DEF AreOps
    <2>3. PICK i, a : x = <<i, a>>
      BY <2>1, <2>2
    <2> QED BY <2>3
  <1>7. \A x \in placed' : x = <<x[1], x[2]>> /\ (x \in placed \/ x \in want)
    <2> SUFFICES ASSUME NEW x \in placed' PROVE x = <<x[1], x[2]>> /\ (x \in placed \/ x \in want)
      OBVIOUS
    <2>1. CASE x \in placed
      BY <2>1 DEF PlacedIsThere
    <2>2. CASE <<"add", x>> \in done
      <3>1. x = <<x[1], x[2]>>
        BY <1>3, <1>6, <2>2
      <3>2. <<"add", <<x[1], x[2]>>>> \in ops
        BY <1>3, <2>2, <3>1
      <3> QED BY <1>1, <3>1, <3>2
    <2> QED BY <1>5, <2>1, <2>2
  <1>8. PlacedIsThere'
    <2> SUFFICES ASSUME NEW x \in placed'
                 PROVE  x[1] \in Ifaces /\ x[2] \in kernel'[x[1]].addrs /\ x = <<x[1], x[2]>>
      BY DEF PlacedIsThere
    <2>1. PICK i, a : x = <<i, a>> /\ i = x[1] /\ a = x[2]
      BY <1>7
    <2>2. i \in Ifaces
      BY <1>7, <2>1 DEF PlacedIsThere
    <2>3. <<i, a>> \in placed => a \in kernel[i].addrs
      BY <2>1 DEF PlacedIsThere
    <2>4. a \in kernel'[i].addrs
      BY <1>5, <2>1, <2>2, <2>3
    <2> QED BY <2>1, <2>2, <2>4
  <1>9. ASSUME NEW x \in placed \cap placed',
               x \in retire \/ (x[1] \in owned /\ IPv4(x[2]) /\ x \notin want)
        PROVE  x \in {o[2] : o \in {p \in ops \ done : p[1] = "del"}}
    <2>1. PICK i, a : x = <<i, a>> /\ i = x[1] /\ a = x[2] /\ i \in Ifaces /\ a \in kernel[i].addrs
      BY DEF PlacedIsThere
    <2>2. PICK w : w = <<"del", <<i, a>>>>
      OBVIOUS
    <2>3. w \in ops
      BY <1>1, <1>4, <1>9, <2>1, <2>2
    <2>4. w \notin done
      BY <1>5, <2>1, <2>2
    <2>5. w[1] = "del" /\ w[2] = x
      BY <2>1, <2>2
    <2> QED BY <2>3, <2>4, <2>5
  <1>10. ASSUME NEW x \in placed \cap placed', x[2] # None, NEW o \in done, o[2] = x
         PROVE  FALSE
    <2>1. PICK i, a : x = <<i, a>> /\ i = x[1] /\ a = x[2] /\ i \in Ifaces /\ a \in kernel[i].addrs
      BY DEF PlacedIsThere
    <2>2. /\ o = <<o[1], <<o[2][1], o[2][2]>>>> /\ o[1] \in {"add", "del", "up"}
          /\ o[1] = "up" => o[2][2] = None
      BY <1>2, <1>3 DEF AreOps
    <2>3. o[2][1] = i /\ o[2][2] = a
      BY <1>10, <2>1
    <2>4. o[1] # "up"
      BY <1>10, <2>1, <2>2, <2>3
    <2>5. o = <<o[1], <<i, a>>>>
      BY <2>2, <2>3
    <2>6. o[1] # "add"
      BY <1>1, <1>3, <1>4, <2>1, <2>5
    <2>7. o[1] # "del"
      <3>1. <<"del", <<i, a>>>> \notin done
        BY <1>5, <2>1
      <3> QED BY <2>5, <3>1
    <2> QED BY <2>2, <2>4, <2>6, <2>7
  <1>11. ASSUME done = ops
         PROVE  /\ \A i \in owned \cap Ifaces : kernel'[i].up
                /\ \A x \in want : x \notin retire => x[2] \in kernel'[x[1]].addrs
                /\ \A i \in Ifaces : \A a \in kernel'[i].addrs :
                      <<i, a>> \in want \/ (a \in kernel[i].addrs /\ ~(i \in owned /\ IPv4(a)))
    <2>1. \A i \in owned \cap Ifaces : kernel'[i].up
      BY <1>1, <1>5, <1>11
    <2>2. ASSUME NEW x \in want, x \notin retire PROVE x[2] \in kernel'[x[1]].addrs
      <3>1. PICK i, a : x = <<i, a>> /\ i = x[1] /\ a = x[2] /\ i \in Ifaces
        OBVIOUS
      <3>2. <<"del", <<i, a>>>> \notin done
        BY <1>1, <1>11, <2>2, <3>1
      <3>3. a \in kernel[i].addrs \/ <<"add", <<i, a>>>> \in done
        BY <1>1, <1>4, <1>11, <3>1
      <3> QED BY <1>5, <3>1, <3>2, <3>3
    <2>3. ASSUME NEW i \in Ifaces, NEW a \in kernel'[i].addrs, <<i, a>> \notin want
          PROVE  a \in kernel[i].addrs /\ ~(i \in owned /\ IPv4(a))
      <3>1. <<"del", <<i, a>>>> \notin done /\ <<"add", <<i, a>>>> \notin done /\ a \in kernel[i].addrs
        BY <1>1, <1>3, <1>5, <2>3
      <3> QED BY <1>1, <1>4, <1>11, <2>3, <3>1
    <2> QED BY <2>1, <2>2, <2>3
  <1>12. ASSUME NEW i \in Ifaces, NEW a \in kernel[i].addrs, a \notin kernel'[i].addrs
         PROVE  <<i, a>> \in retire \/ (i \in owned /\ IPv4(a) /\ <<i, a>> \notin want)
    <2>1. <<"del", <<i, a>>>> \in ops
      BY <1>3, <1>5, <1>12
    <2> QED BY <1>1, <2>1
  <1>13. \A i \in Ifaces : kernel[i].up => kernel'[i].up
    BY <1>5
  <1>14. \A x \in placed \cap placed' : x[2] # None => x \notin {o[2] : o \in done}
    BY <1>10
  <1>15. \A x \in placed' : x \in want \/ x \in placed
    BY <1>7
  <1>16. \A x \in placed \cap placed' :
                 x \in retire \/ (x[1] \in owned /\ IPv4(x[2]) /\ x \notin want)
                    => x \in {o[2] : o \in {p \in ops \ done : p[1] = "del"}}
    BY <1>9
  <1>17. done = ops =>
                /\ \A i \in owned \cap Ifaces : kernel'[i].up
                /\ \A x \in want : x \notin retire => x[2] \in kernel'[x[1]].addrs
                /\ \A i \in Ifaces : \A a \in kernel'[i].addrs :
                      <<i, a>> \in want \/ (a \in kernel[i].addrs /\ ~(i \in owned /\ IPv4(a)))
    BY <1>11
  <1>18. \A i \in Ifaces : \A a \in kernel[i].addrs : a \notin kernel'[i].addrs =>
                 <<i, a>> \in retire \/ (i \in owned /\ IPv4(a) /\ <<i, a>> \notin want)
    BY <1>12
  <1>19. IsKernel(kernel')
    BY <1>5
  <1> QED BY <1>8, <1>13, <1>14, <1>15, <1>16, <1>17, <1>18, <1>19 DEF ops

(* What a document parts with is not what the next one calls for, and has  *)
(* its place on an interface; what it calls for and does not part with the *)
(* next one calls for, but for IPv4 on an interface still in a network.    *)
LEMMA Retired ==
    ASSUME NEW was, IsDoc(was), NEW d, IsDoc(d), NEW p, NEW q
    PROVE  /\ \A x \in RetiredFor(was, d, p, q) : x \notin DesiredFor(d, q) /\ x[2] # None
           /\ \A x \in DesiredFor(was, p) :
                 \/ x \in DesiredFor(d, q) \/ x \in RetiredFor(was, d, p, q)
                 \/ x[1] \in Members(d) /\ IPv4(x[2])
           /\ \A x \in RetiredFor(was, was, p, q) : ~IPv4(x[2])
           /\ \A x \in DesiredFor(d, q) : x = <<x[1], x[2]>> /\ x[1] \in Ifaces /\ x[1] \in Members(d)
           /\ \A x \in DesiredFor(d, q) : IPv4(x[2]) => x \in Router4(d)
  <1>1. /\ \A x \in Router4(was) : x = <<x[1], x[2]>> /\ x[1] \in Members(was) /\ IPv4(x[2])
        /\ \A x \in Router6(was, p) : ~IPv4(x[2])
    BY Families
  <1>2. /\ \A x \in Router4(d) : x = <<x[1], x[2]>> /\ x[1] \in Members(d) /\ x[1] \in Ifaces /\ IPv4(x[2])
        /\ \A x \in Router6(d, q) : x = <<x[1], x[2]>> /\ x[1] \in Members(d) /\ x[1] \in Ifaces /\ ~IPv4(x[2])
    BY Families
  <1>3. ASSUME NEW x \in Router4(was) \cup Router6(was, p) PROVE x[2] # None
    <2>1. CASE x \in Router4(was)
      BY <2>1 DEF Router4
    <2>2. CASE x \in Router6(was, p)
      BY <2>2 DEF Router6
    <2> QED BY <2>1, <2>2
  <1>4. \A x \in RetiredFor(was, d, p, q) : x \notin DesiredFor(d, q)
    BY <1>1, <1>2 DEF RetiredFor, DesiredFor
  <1>5. \A x \in RetiredFor(was, d, p, q) : x[2] # None
    BY <1>3 DEF RetiredFor
  <1>6. \A x \in DesiredFor(was, p) :
                 \/ x \in DesiredFor(d, q) \/ x \in RetiredFor(was, d, p, q)
                 \/ x[1] \in Members(d) /\ IPv4(x[2])
    BY <1>1 DEF RetiredFor, DesiredFor
  <1>7. \A x \in RetiredFor(was, was, p, q) : ~IPv4(x[2])
    BY <1>1 DEF RetiredFor
  <1>8. \A x \in DesiredFor(d, q) : x = <<x[1], x[2]>> /\ x[1] \in Ifaces /\ x[1] \in Members(d)
    BY <1>2 DEF DesiredFor
  <1>9. \A x \in DesiredFor(d, q) : IPv4(x[2]) => x \in Router4(d)
    BY <1>2 DEF DesiredFor
  <1> QED BY <1>4, <1>5, <1>6, <1>7, <1>8, <1>9

(* Addressed, on the interfaces themselves.                                *)
AddressedOn(d, p, k) ==
    \A i \in Members(d) :
        /\ k[i].up
        /\ \A x \in DesiredFor(d, p) : x[1] = i => x[2] \in k[i].addrs
        /\ \A a \in k[i].addrs : IPv4(a) => <<i, a>> \in Router4(d)

LEMMA AddressedIs ==
    ASSUME IsDoc(doc)
    PROVE  Addressed <=> (clean => AddressedOn(doc, lease, kernel))
  <1>1. \A x \in DesiredFor(doc, lease) : x = <<x[1], x[2]>>
    BY Families DEF DesiredFor
  <1>2. ASSUME NEW i
        PROVE  /\ ({x \in DesiredFor(doc, lease) : x[1] = i} \subseteq On(i))
                    <=> (\A x \in DesiredFor(doc, lease) : x[1] = i => x[2] \in kernel[i].addrs)
               /\ ({x \in On(i) : IPv4(x[2])} \subseteq Router4(doc))
                    <=> (\A a \in kernel[i].addrs : IPv4(a) => <<i, a>> \in Router4(doc))
    <2>1. \A x : x \in On(i) <=> \E a \in kernel[i].addrs : x = <<i, a>>
      BY DEF On
    <2>2. \A a : <<i, a>>[1] = i /\ <<i, a>>[2] = a
      OBVIOUS
    <2>3. ({x \in DesiredFor(doc, lease) : x[1] = i} \subseteq On(i))
                    => (\A x \in DesiredFor(doc, lease) : x[1] = i => x[2] \in kernel[i].addrs)
      BY <2>1, <2>2
    <2>4. (\A x \in DesiredFor(doc, lease) : x[1] = i => x[2] \in kernel[i].addrs)
            => ({x \in DesiredFor(doc, lease) : x[1] = i} \subseteq On(i))
      BY <1>1, <2>1
    <2>5. ({x \in On(i) : IPv4(x[2])} \subseteq Router4(doc))
                    => (\A a \in kernel[i].addrs : IPv4(a) => <<i, a>> \in Router4(doc))
      BY <2>1, <2>2
    <2>6. (\A a \in kernel[i].addrs : IPv4(a) => <<i, a>> \in Router4(doc))
            => ({x \in On(i) : IPv4(x[2])} \subseteq Router4(doc))
      BY <2>1, <2>2
    <2> QED BY <2>3, <2>4, <2>5, <2>6
  <1>3. Addressed <=> (clean => \A i \in Members(doc) :
                /\ kernel[i].up
                /\ {x \in DesiredFor(doc, lease) : x[1] = i} \subseteq On(i)
                /\ {x \in On(i) : IPv4(x[2])} \subseteq Router4(doc))
    BY DEF Addressed
  <1> QED BY <1>2, <1>3 DEF AddressedOn

LEMMA AddressedNext ==
    ASSUME IsDoc(doc')
    PROVE  Addressed' <=> (clean' => AddressedOn(doc', lease', kernel'))
  <1>1. (IsDoc(doc) => (Addressed <=> (clean => AddressedOn(doc, lease, kernel))))'
    BY AddressedIs, PTL
  <1>2. AddressedOn(doc, lease, kernel)' <=> AddressedOn(doc', lease', kernel')
    BY DEF AddressedOn
  <1>3. IsDoc(doc)' <=> IsDoc(doc')
    OBVIOUS
  <1> QED BY <1>1, <1>2, <1>3

(* The apply of a document, complete.                                      *)
LEMMA AppliedAll ==
    ASSUME IsKernel(kernel), PlacedIsThere, NEW was, IsDoc(was), NEW d, IsDoc(d),
           NEW retire, retire \subseteq RetiredFor(was, d, lease, lease),
           NEW done \in SUBSET Ops(DesiredFor(d, lease), Members(d), retire),
           Apply(Ops(DesiredFor(d, lease), Members(d), retire), done),
           done = Ops(DesiredFor(d, lease), Members(d), retire)
    PROVE  AddressedOn(d, lease, kernel')
  <1> DEFINE want == DesiredFor(d, lease)
  <1>1. /\ \A x \in retire : x \notin want
        /\ \A x \in want : x = <<x[1], x[2]>> /\ x[1] \in Ifaces
        /\ \A x \in want : IPv4(x[2]) => x \in Router4(d)
    BY Retired
  <1>2. Members(d) \subseteq Ifaces
    BY DEF IsDoc
  <1>3. /\ \A i \in Members(d) \cap Ifaces : kernel'[i].up
        /\ \A x \in want : x \notin retire => x[2] \in kernel'[x[1]].addrs
        /\ \A i \in Ifaces : \A a \in kernel'[i].addrs :
              <<i, a>> \in want \/ (a \in kernel[i].addrs /\ ~(i \in Members(d) /\ IPv4(a)))
    BY <1>1, Applied
  <1> HIDE DEF want
  <1>4. ASSUME NEW i \in Members(d), NEW a \in kernel'[i].addrs, IPv4(a) PROVE <<i, a>> \in Router4(d)
    <2>1. <<i, a>> \in want
      BY <1>2, <1>3, <1>4
    <2>2. PICK x : x = <<i, a>>
      OBVIOUS
    <2>3. x[2] = a
      BY <2>2
    <2> QED BY <1>1, <1>4, <2>1, <2>2, <2>3
  <1>5. \A i \in Members(d) : kernel'[i].up
    BY <1>2, <1>3
  <1>6. \A i \in Members(d) : \A x \in want : x[1] = i => x[2] \in kernel'[i].addrs
    BY <1>1, <1>3
  <1> QED BY <1>4, <1>5, <1>6 DEF AddressedOn, want

(***************************************************************************)
(* Documents.                                                              *)
(***************************************************************************)
LEMMA DocIsDoc ==
    ASSUME NEW is, is \subseteq Ifaces, NEW nets,
           \A n \in DOMAIN nets : IsNet(nets[n]) /\ nets[n].member \in Ifaces
    PROVE  IsDoc(Doc(is, nets))
  <1> DEFINE d == Doc(is, nets)
  <1>1. d.adopted = is /\ d.nets = nets /\ d.uplink = doc.uplink
    BY DEF Doc
  <1>2. d = [adopted |-> d.adopted, nets |-> d.nets, uplink |-> d.uplink]
    BY DEF Doc
  <1> HIDE DEF d
  <1>3. Members(d) \subseteq Ifaces
    BY <1>1 DEF Members
  <1>4. IsDoc(d)
    BY <1>1, <1>2, <1>3 DEF IsDoc
  <1> QED BY <1>4 DEF d

LEMMA NetOf ==
    ASSUME NEW d, IsDoc(d), NEW n \in DOMAIN d.nets
    PROVE  IsNet(d.nets[n]) /\ d.nets[n].member \in Ifaces
  BY DEF IsDoc, Members

(* Every document a request stores is one: a block that decodes keeps its  *)
(* shape, and Validate lets only adopted interfaces be members.            *)
LEMMA PutIsDoc ==
    ASSUME IsDoc(doc), NEW n, NEW i \in Ifaces, NEW b \in Blocks
    PROVE  IsDoc(Doc(doc.adopted, Set(doc.nets, n, Block(b, i))))
  <1> DEFINE nets == Set(doc.nets, n, Block(b, i))
  <1>1. DOMAIN nets = DOMAIN doc.nets \cup {n}
    BY DEF Set
  <1>2. ASSUME NEW m \in DOMAIN nets PROVE nets[m] = IF m = n THEN Block(b, i) ELSE doc.nets[m]
    BY DEF Set
  <1>3. IsNet(Block(b, i)) /\ Block(b, i).member = i
    <2>1. PICK c : c = Block(b, i)
      OBVIOUS
    <2>2. c = [member |-> i, v4 |-> b.v4, v6 |-> b.v6]
      BY <2>1 DEF Block
    <2>3. c.member = i /\ c.v4 = b.v4 /\ c.v6 = b.v6
      BY <2>2
    <2>4. c = [member |-> c.member, v4 |-> c.v4, v6 |-> c.v6]
      BY <2>2, <2>3
    <2> QED BY <2>1, <2>3, <2>4, BlocksAssumption DEF IsNet
  <1> HIDE DEF nets
  <1>4. \A m \in DOMAIN nets : IsNet(nets[m]) /\ nets[m].member \in Ifaces
    BY <1>1, <1>2, <1>3, NetOf
  <1>5. doc.adopted \subseteq Ifaces
    BY DEF IsDoc
  <1>6. IsDoc(Doc(doc.adopted, nets))
    BY <1>4, <1>5, DocIsDoc
  <1> QED BY <1>6 DEF nets

LEMMA RemoveIsDoc ==
    ASSUME IsDoc(doc), NEW n
    PROVE  IsDoc(Doc(doc.adopted, [m \in DOMAIN doc.nets \ {n} |-> doc.nets[m]]))
  <1> DEFINE nets == [m \in DOMAIN doc.nets \ {n} |-> doc.nets[m]]
  <1>1. \A m \in DOMAIN nets : m \in DOMAIN doc.nets /\ nets[m] = doc.nets[m]
    OBVIOUS
  <1> HIDE DEF nets
  <1>2. \A m \in DOMAIN nets : IsNet(nets[m]) /\ nets[m].member \in Ifaces
    BY <1>1, NetOf
  <1>3. doc.adopted \subseteq Ifaces
    BY DEF IsDoc
  <1>4. IsDoc(Doc(doc.adopted, nets))
    BY <1>2, <1>3, DocIsDoc
  <1> QED BY <1>4 DEF nets

LEMMA SwapIsDoc ==
    ASSUME IsDoc(doc), NEW nets,
           nets = [n \in DOMAIN doc.nets |->
                    [doc.nets[n] EXCEPT !.member = CHOOSE i \in Members(doc) : i # @]],
           Validate(Doc(doc.adopted, nets))
    PROVE  IsDoc(Doc(doc.adopted, nets))
  <1>1. doc.adopted \subseteq Ifaces
    BY DEF IsDoc
  <1>2. ASSUME NEW n \in DOMAIN nets PROVE IsNet(nets[n])
    <2>1. n \in DOMAIN doc.nets
      OBVIOUS
    <2>2. PICK w : w = doc.nets[n]
      OBVIOUS
    <2>3. PICK c : c = CHOOSE i \in Members(doc) : i # w.member
      OBVIOUS
    <2>4. nets[n] = [w EXCEPT !.member = c]
      BY <2>1, <2>2, <2>3
    <2>5. IsNet(w)
      BY <2>1, <2>2, NetOf
    <2>6. w = [member |-> w.member, v4 |-> w.v4, v6 |-> w.v6]
      BY <2>5 DEF IsNet
    <2>7. PICK z : z = nets[n]
      OBVIOUS
    <2>8. z = [member |-> c, v4 |-> w.v4, v6 |-> w.v6]
      BY <2>4, <2>6, <2>7
    <2>9. z.member = c /\ z.v4 = w.v4 /\ z.v6 = w.v6
      BY <2>8
    <2>10. z = [member |-> z.member, v4 |-> z.v4, v6 |-> z.v6]
      BY <2>8, <2>9
    <2> QED BY <2>5, <2>7, <2>9, <2>10 DEF IsNet
  <1>3. Members(Doc(doc.adopted, nets)) \subseteq doc.adopted
    BY DEF Validate, Doc
  <1>4. \A n \in DOMAIN nets : nets[n].member \in Ifaces
    BY <1>1, <1>3 DEF Members, Doc
  <1> QED BY <1>1, <1>2, <1>4, DocIsDoc

LEMMA AdoptIsDoc ==
    ASSUME IsDoc(doc), NEW is \in SUBSET Ifaces
    PROVE  IsDoc(Doc(is, doc.nets))
  <1>1. \A m \in DOMAIN doc.nets : IsNet(doc.nets[m]) /\ doc.nets[m].member \in Ifaces
    BY NetOf
  <1> QED BY <1>1, DocIsDoc

(***************************************************************************)
(* The actions.                                                            *)
(***************************************************************************)
(* A request.                                                              *)
LEMMA MutateKeeps ==
    ASSUME IInv, NEW d, IsDoc(d), NEW keep \in BOOLEAN, NEW confirm \in BOOLEAN,
           mutate(d, keep, confirm)
    PROVE  IInv'
  <1> DEFINE all == RetiredFor(doc, d, lease, lease)
             retire == IF keep THEN {} ELSE all
             want == DesiredFor(d, lease)
             ops == Ops(want, Members(d), retire)
  <1>1. IsDoc(doc) /\ IsKernel(kernel) /\ PlacedIsThere /\ NothingLeft
    BY DEF IInv, Shape
  <1>2. PICK done \in SUBSET ops :
            /\ Apply(ops, done) /\ clean' = (done = ops)
            /\ excused' = excused \cup (all \ {o[2] : o \in done})
                                  \cup {o[2] : o \in {p \in ops \ done : p[1] = "del"}}
    BY DEF mutate
  <1>3. doc' = d /\ asked' = confirm /\ lease' = lease /\ (before' = doc \/ before' = before)
    BY DEF mutate
  <1>4. retire \subseteq all
    OBVIOUS
  <1>5. /\ \A x \in all : x \notin want /\ x[2] # None
        /\ \A x \in DesiredFor(doc, lease) : x \in want \/ x \in all \/ (x[1] \in Members(d) /\ IPv4(x[2]))
        /\ \A x \in want : x = <<x[1], x[2]>> /\ x[1] \in Ifaces
    BY <1>1, Retired
  <1>6. /\ IsKernel(kernel')
        /\ PlacedIsThere'
        /\ \A x \in placed' : x \in want \/ x \in placed
        /\ \A x \in placed \cap placed' :
              x \in retire \/ (x[1] \in Members(d) /\ IPv4(x[2]) /\ x \notin want)
                 => x \in {o[2] : o \in {p \in ops \ done : p[1] = "del"}}
        /\ \A x \in placed \cap placed' : x[2] # None => x \notin {o[2] : o \in done}
    <2>1. \A x \in want : x = <<x[1], x[2]>> /\ x[1] \in Ifaces
      BY <1>5
    <2> HIDE DEF want, retire
    <2> QED BY <1>1, <1>2, <2>1, Applied
  <1>7. Shape'
    <2>1. IsDoc(doc)' /\ (before # None => IsDoc(before))'
      BY <1>1, <1>3 DEF IInv, Shape
    <2>2. (clean \in BOOLEAN)' /\ (asked \in BOOLEAN)'
      BY <1>2, <1>3
    <2> QED BY <1>6, <2>1, <2>2 DEF Shape
  <1>8. NothingLeft'
    <2> SUFFICES ASSUME NEW x \in placed', x \notin want PROVE x \in excused'
      BY <1>3 DEF NothingLeft
    <2>1. x \in placed
      BY <1>6
    <2>2. x \in DesiredFor(doc, lease) \/ x \in excused
      BY <1>1, <2>1 DEF NothingLeft
    <2> HIDE DEF all, want, ops
    <2>3. CASE x \in excused
      BY <1>2, <2>3
    <2>4. CASE x \in all
      BY <1>2, <1>5, <1>6, <2>1, <2>4
    <2>5. CASE x[1] \in Members(d) /\ IPv4(x[2])
      BY <1>2, <1>6, <2>1, <2>5
    <2> QED BY <1>5, <2>2, <2>3, <2>4, <2>5
  <1>9. Addressed'
    <2>1. ASSUME clean' PROVE AddressedOn(d, lease, kernel')
      <3>1. done = ops
        BY <1>2, <2>1
      <3> HIDE DEF retire
      <3> QED BY <1>1, <1>2, <1>4, <3>1, AppliedAll
    <2>2. Addressed' <=> (clean' => AddressedOn(d, lease, kernel'))
      <3>1. IsDoc(doc')
        BY <1>3
      <3> QED BY <1>3, <3>1, AddressedNext
    <2> QED BY <2>1, <2>2
  <1> QED BY <1>6, <1>7, <1>8, <1>9 DEF IInv

(* The trial's document put back.                                          *)
LEMMA RollbackKeeps == IInv /\ Rollback => IInv'
  <1> SUFFICES ASSUME IInv, Rollback PROVE IInv'
    OBVIOUS
  <1> DEFINE retire == RetiredFor(doc, before, lease, lease)
             want == DesiredFor(before, lease)
             ops == Ops(want, Members(before), retire)
  <1>1. /\ IsDoc(doc) /\ IsDoc(before) /\ IsKernel(kernel) /\ PlacedIsThere /\ NothingLeft
    BY DEF IInv, Shape, Rollback
  <1>2. PICK done \in SUBSET ops :
            /\ Apply(ops, done) /\ clean' = (done = ops)
            /\ excused' = excused \cup {o[2] : o \in {p \in ops \ done : p[1] = "del"}}
    BY DEF Rollback, Recover
  <1>3. doc' = before /\ asked' = TRUE /\ lease' = lease /\ before' = None
    BY DEF Rollback
  <1>4. /\ \A x \in DesiredFor(doc, lease) : x \in want \/ x \in retire \/ (x[1] \in Members(before) /\ IPv4(x[2]))
        /\ \A x \in want : x = <<x[1], x[2]>> /\ x[1] \in Ifaces
    BY <1>1, Retired
  <1>5. /\ IsKernel(kernel')
        /\ PlacedIsThere'
        /\ \A x \in placed' : x \in want \/ x \in placed
        /\ \A x \in placed \cap placed' :
              x \in retire \/ (x[1] \in Members(before) /\ IPv4(x[2]) /\ x \notin want)
                 => x \in {o[2] : o \in {p \in ops \ done : p[1] = "del"}}
    <2>1. \A x \in want : x = <<x[1], x[2]>> /\ x[1] \in Ifaces
      BY <1>4
    <2> HIDE DEF want, retire
    <2> QED BY <1>1, <1>2, <2>1, Applied
  <1>6. Shape'
    <2>1. IsDoc(doc)' /\ (before # None => IsDoc(before))'
      BY <1>1, <1>3
    <2>2. (clean \in BOOLEAN)' /\ (asked \in BOOLEAN)'
      BY <1>2, <1>3
    <2> QED BY <1>5, <2>1, <2>2 DEF Shape
  <1>7. NothingLeft'
    <2> SUFFICES ASSUME NEW x \in placed', x \notin want PROVE x \in excused'
      BY <1>3 DEF NothingLeft
    <2>1. x \in placed
      BY <1>5
    <2>2. x \in DesiredFor(doc, lease) \/ x \in excused
      BY <1>1, <2>1 DEF NothingLeft
    <2> HIDE DEF retire, want, ops
    <2>3. CASE x \in excused
      BY <1>2, <2>3
    <2>4. CASE x \in retire
      BY <1>2, <1>5, <2>1, <2>4
    <2>5. CASE x[1] \in Members(before) /\ IPv4(x[2])
      BY <1>2, <1>5, <2>1, <2>5
    <2> QED BY <1>4, <2>2, <2>3, <2>4, <2>5
  <1>8. Addressed'
    <2>1. ASSUME clean' PROVE AddressedOn(before, lease, kernel')
      <3>1. done = ops
        BY <1>2, <2>1
      <3>2. retire \subseteq RetiredFor(doc, before, lease, lease)
        OBVIOUS
      <3> HIDE DEF retire
      <3> QED BY <1>1, <1>2, <3>1, <3>2, AppliedAll
    <2>2. IsDoc(doc')
      BY <1>1, <1>3
    <2> QED BY <1>3, <2>1, <2>2, AddressedNext
  <1> QED BY <1>5, <1>6, <1>7, <1>8 DEF IInv

(* The prefix followed: only IPv6 addresses move.                          *)
LEMMA FollowKeeps == IInv /\ FollowDelegation => IInv'
  <1> SUFFICES ASSUME IInv, NEW p \in Delegated \cup {None},
                      FollowDelegation!(p)
               PROVE  IInv'
    BY DEF FollowDelegation
  <1> DEFINE retire == RetiredFor(doc, doc, lease, p)
             want == Router6(doc, p)
             ops == Ops(want, {}, retire)
  <1>1. IsDoc(doc) /\ IsKernel(kernel) /\ PlacedIsThere /\ NothingLeft /\ Addressed
    BY DEF IInv, Shape
  <1>2. PICK done \in SUBSET ops :
            /\ Apply(ops, done) /\ clean' = (clean /\ done = ops)
            /\ excused' = excused \cup {o[2] : o \in {q \in ops \ done : q[1] = "del"}}
    OBVIOUS
  <1>3. doc' = doc /\ asked' = TRUE /\ lease' = p /\ before' = before
    OBVIOUS
  <1>4. /\ \A x \in DesiredFor(doc, lease) : x \in DesiredFor(doc, p) \/ x \in retire
        /\ \A x \in retire : ~IPv4(x[2]) /\ x \notin DesiredFor(doc, p)
        /\ \A x \in want : x = <<x[1], x[2]>> /\ x[1] \in Ifaces /\ ~IPv4(x[2])
    <2>1. \A x \in DesiredFor(doc, lease) : x \in DesiredFor(doc, p) \/ x \in retire
      BY DEF RetiredFor, DesiredFor
    <2>2. \A x \in retire : ~IPv4(x[2]) /\ x \notin DesiredFor(doc, p)
      BY <1>1, Retired
    <2>3. \A x \in want : x = <<x[1], x[2]>> /\ x[1] \in Ifaces /\ ~IPv4(x[2])
      BY <1>1, Families
    <2> QED BY <2>1, <2>2, <2>3
  <1>5. /\ IsKernel(kernel')
        /\ PlacedIsThere'
        /\ \A x \in placed' : x \in want \/ x \in placed
        /\ \A x \in placed \cap placed' :
              x \in retire => x \in {o[2] : o \in {q \in ops \ done : q[1] = "del"}}
        /\ \A i \in Ifaces : kernel[i].up => kernel'[i].up
        /\ done = ops =>
             /\ \A x \in want : x \notin retire => x[2] \in kernel'[x[1]].addrs
             /\ \A i \in Ifaces : \A a \in kernel'[i].addrs : <<i, a>> \in want \/ a \in kernel[i].addrs
        /\ \A i \in Ifaces : \A a \in kernel[i].addrs : a \notin kernel'[i].addrs => <<i, a>> \in retire
    <2>1. \A x \in want : x = <<x[1], x[2]>> /\ x[1] \in Ifaces
      BY <1>4
    <2> HIDE DEF want, retire
    <2>2. Apply(Ops(want, {}, retire), done) /\ done \in SUBSET Ops(want, {}, retire)
      BY <1>2
    <2>3. /\ IsKernel(kernel')
          /\ PlacedIsThere'
          /\ \A x \in placed' : x \in want \/ x \in placed
          /\ \A x \in placed \cap placed' :
                 x \in retire \/ (x[1] \in {} /\ IPv4(x[2]) /\ x \notin want)
                    => x \in {o[2] : o \in {q \in ops \ done : q[1] = "del"}}
          /\ \A i \in Ifaces : kernel[i].up => kernel'[i].up
          /\ done = ops =>
                /\ \A x \in want : x \notin retire => x[2] \in kernel'[x[1]].addrs
                /\ \A i \in Ifaces : \A a \in kernel'[i].addrs :
                      <<i, a>> \in want \/ (a \in kernel[i].addrs /\ ~(i \in {} /\ IPv4(a)))
          /\ \A i \in Ifaces : \A a \in kernel[i].addrs : a \notin kernel'[i].addrs =>
                 <<i, a>> \in retire \/ (i \in {} /\ IPv4(a) /\ <<i, a>> \notin want)
      BY <1>1, <2>1, <2>2, Applied
    <2> QED BY <2>3
  <1>6. Shape'
    <2>1. IsDoc(doc)' /\ (before # None => IsDoc(before))'
      BY <1>3 DEF IInv, Shape
    <2>2. (clean \in BOOLEAN)' /\ (asked \in BOOLEAN)'
      BY <1>2, <1>3
    <2> QED BY <1>5, <2>1, <2>2 DEF Shape
  <1>7. NothingLeft'
    <2>0. want \subseteq DesiredFor(doc, p)
      BY DEF DesiredFor
    <2> SUFFICES ASSUME NEW x \in placed', x \notin DesiredFor(doc, p) PROVE x \in excused'
      BY <1>3 DEF NothingLeft
    <2>1. x \in placed
      BY <1>5, <2>0
    <2>2. x \in DesiredFor(doc, lease) \/ x \in excused
      BY <1>1, <2>1 DEF NothingLeft
    <2> HIDE DEF retire, want, ops
    <2>3. CASE x \in excused
      BY <1>2, <2>3
    <2>4. CASE x \in retire
      BY <1>2, <1>5, <2>1, <2>4
    <2> QED BY <1>4, <2>2, <2>3, <2>4
  <1>8. Addressed'
    <2>1. IsDoc(doc')
      BY <1>1, <1>3
    <2>2. Members(doc) \subseteq Ifaces
      BY <1>1 DEF IsDoc
    <2>3. ASSUME clean' PROVE AddressedOn(doc, p, kernel')
      <3>1. clean /\ done = ops
        BY <1>2, <2>3
      <3>2. AddressedOn(doc, lease, kernel)
        BY <1>1, <3>1, AddressedIs
      <3>3. ASSUME NEW i \in Members(doc) PROVE kernel'[i].up
        BY <1>5, <2>2, <3>2 DEF AddressedOn
      <3>4. ASSUME NEW i \in Members(doc), NEW a \in kernel'[i].addrs, IPv4(a)
            PROVE  <<i, a>> \in Router4(doc)
        <4>1. PICK x : x = <<i, a>>
          OBVIOUS
        <4>2. x[2] = a
          BY <4>1
        <4>3. x \notin want
          BY <1>4, <3>4, <4>2
        <4>4. a \in kernel[i].addrs
          BY <1>5, <2>2, <3>1, <3>4, <4>1, <4>3
        <4> QED BY <3>2, <3>4, <4>4 DEF AddressedOn
      <3>5. ASSUME NEW i \in Members(doc), NEW x \in DesiredFor(doc, p), x[1] = i
            PROVE  x[2] \in kernel'[i].addrs
        <4>1. x \notin retire
          BY <1>4
        <4>2. CASE x \in want
          BY <1>5, <3>1, <3>5, <4>1, <4>2
        <4>3. CASE x \in Router4(doc)
          <5>1. x \in DesiredFor(doc, lease)
            BY <4>3 DEF DesiredFor
          <5>2. x[2] \in kernel[i].addrs
            BY <3>2, <3>5, <5>1 DEF AddressedOn
          <5>3. x = <<i, x[2]>>
            BY <1>1, <3>5, <4>3, Families
          <5> QED BY <1>5, <2>2, <4>1, <5>2, <5>3
        <4> QED BY <4>2, <4>3 DEF DesiredFor
      <3> QED BY <3>3, <3>4, <3>5 DEF AddressedOn
    <2> QED BY <1>3, <2>1, <2>3, AddressedNext
  <1> QED BY <1>5, <1>6, <1>7, <1>8 DEF IInv

(* A step after which no request is reported: it keeps what is placed in   *)
(* place, and the documents and what they call for as they are.            *)
LEMMA OutsideKeeps ==
    ASSUME IInv, IsKernel(kernel'), PlacedIsThere',
           IsDoc(doc'), Router4(doc') = Router4(doc), Router6(doc', lease) = Router6(doc, lease),
           placed' \subseteq placed \cup DesiredFor(doc, lease),
           UNCHANGED <<lease, before, excused>>, clean' = FALSE, asked' = TRUE
    PROVE  IInv'
  <1>1. Shape'
    BY DEF IInv, Shape
  <1>2. Addressed'
    BY DEF Addressed
  <1>3. NothingLeft'
    BY DEF IInv, NothingLeft, DesiredFor
  <1> QED BY <1>1, <1>2, <1>3 DEF IInv

LEMMA DeleteAddressKeeps == IInv /\ deleteAddress => IInv'
  <1> SUFFICES ASSUME IInv, deleteAddress PROVE IInv'
    OBVIOUS
  <1>1. IsDoc(doc) /\ IsKernel(kernel) /\ PlacedIsThere
    BY DEF IInv, Shape
  <1>2. PICK x \in Carried : RemoveAddress(x)
    BY DEF deleteAddress
  <1>3. PICK i, a : x = <<i, a>>
    BY <1>1, InCarried
  <1> DEFINE ops == {<<"del", <<i, a>>>>}
  <1>4. ops \subseteq ops \ Fails(ops) /\ Write(ops, ops)
    BY <1>2, <1>3 DEF RemoveAddress, Apply
  <1>5. AreOps(ops)
    <2> SUFFICES ASSUME NEW o, o = <<"del", <<i, a>>>>
                 PROVE  /\ o = <<o[1], <<o[2][1], o[2][2]>>>> /\ o[1] \in {"add", "del", "up"}
                        /\ o[1] = "up" => o[2][2] = None
      BY DEF AreOps
    <2>1. o[1] = "del" /\ o[2][1] = i /\ o[2][2] = a
      OBVIOUS
    <2> QED BY <2>1
  <1>6. \A y : <<"add", y>> \notin ops
    <2> SUFFICES ASSUME NEW y, <<"add", y>> = <<"del", <<i, a>>>> PROVE FALSE
      OBVIOUS
    <2> QED OBVIOUS
  <1> HIDE DEF ops
  <1>7. /\ IsKernel(kernel')
        /\ \A j \in Ifaces : \A b : b \in kernel'[j].addrs <=>
                                    b \in kernel[j].addrs /\ <<"del", <<j, b>>>> \notin ops
        /\ \A j, b : <<j, b>> \in placed' <=> <<j, b>> \in placed /\ <<"del", <<j, b>>>> \notin ops
        /\ \A y \in placed' : y \in placed
    <2>1. /\ IsKernel(kernel')
          /\ \A j \in Ifaces :
                \A b : b \in kernel'[j].addrs <=>
                            /\ b \in kernel[j].addrs \/ <<"add", <<j, b>>>> \in ops
                            /\ <<"del", <<j, b>>>> \notin ops
          /\ \A j, b : <<j, b>> \in placed' <=> /\ <<j, b>> \in placed \/ <<"add", <<j, b>>>> \in ops
                                                /\ <<"del", <<j, b>>>> \notin ops
          /\ \A y \in placed' : y \in placed \/ <<"add", y>> \in ops
      BY <1>1, <1>4, <1>5, Written
    <2> QED BY <1>6, <2>1
  <1>8. PlacedIsThere'
    <2> SUFFICES ASSUME NEW y \in placed'
                 PROVE  y[1] \in Ifaces /\ y[2] \in kernel'[y[1]].addrs /\ y = <<y[1], y[2]>>
      BY DEF PlacedIsThere
    <2>1. PICK j, b : y = <<j, b>> /\ y[1] = j /\ y[2] = b /\ j \in Ifaces /\ b \in kernel[j].addrs
      BY <1>1, <1>7 DEF PlacedIsThere
    <2>2. b \in kernel'[j].addrs
      BY <1>7, <2>1
    <2> QED BY <2>1, <2>2
  <1>9. /\ UNCHANGED <<doc, lease, before, excused>> /\ clean' = FALSE /\ asked' = TRUE
    BY DEF deleteAddress
  <1>10. placed' \subseteq placed
    BY <1>7
  <1> QED BY <1>1, <1>7, <1>8, <1>9, <1>10, OutsideKeeps

(* One more address on an interface that is there.                         *)
LEMMA OneMore ==
    ASSUME IsKernel(kernel), PlacedIsThere, NEW i \in Here, NEW a,
           kernel' = [kernel EXCEPT ![i].addrs = @ \cup {a}], placed' = placed
    PROVE  IsKernel(kernel') /\ PlacedIsThere'
  <1>0. i \in Ifaces /\ kernel[i].here
    BY DEF Here
  <1>1. PICK k : k = kernel[i]
    OBVIOUS
  <1>2. kernel' = [kernel EXCEPT ![i] = [k EXCEPT !.addrs = k.addrs \cup {a}]]
    BY <1>1
  <1>3. k = [here |-> k.here, up |-> k.up, addrs |-> k.addrs]
    BY <1>0, <1>1 DEF IsKernel
  <1>4. PICK z : z = [here |-> k.here, up |-> k.up, addrs |-> k.addrs \cup {a}]
    OBVIOUS
  <1>5. [k EXCEPT !.addrs = k.addrs \cup {a}] = z
    BY <1>3, <1>4
  <1>6. kernel' = [kernel EXCEPT ![i] = z]
    BY <1>2, <1>5
  <1>7. DOMAIN kernel = Ifaces /\ kernel = [j \in Ifaces |-> kernel[j]]
    BY DEF IsKernel
  <1>8. kernel' = [j \in Ifaces |-> IF j = i THEN z ELSE kernel[j]]
    BY <1>6, <1>7
  <1>9. /\ z.here = k.here /\ z.up = k.up /\ z.addrs = k.addrs \cup {a}
        /\ z = [here |-> z.here, up |-> z.up, addrs |-> z.addrs]
    BY <1>4
  <1>10. kernel' = [j \in Ifaces |-> kernel'[j]]
    BY <1>8
  <1>11. ASSUME NEW j \in Ifaces
         PROVE  /\ kernel'[j] = [here |-> kernel'[j].here, up |-> kernel'[j].up, addrs |-> kernel'[j].addrs]
                /\ kernel'[j].here \in BOOLEAN /\ kernel'[j].up \in BOOLEAN
                /\ ~kernel'[j].here => kernel'[j].addrs = {}
    <2>1. CASE j = i
      <3>1. kernel'[j] = z
        BY <1>8, <2>1
      <3>2. z.here \in BOOLEAN /\ z.up \in BOOLEAN /\ z.here
        BY <1>0, <1>1, <1>9 DEF IsKernel
      <3> QED BY <1>9, <3>1, <3>2
    <2>2. CASE j # i
      <3>1. kernel'[j] = kernel[j]
        BY <1>8, <2>2
      <3> QED BY <3>1 DEF IsKernel
    <2> QED BY <2>1, <2>2
  <1>12. IsKernel(kernel')
    BY <1>10, <1>11 DEF IsKernel
  <1>13. \A j \in Ifaces : kernel[j].addrs \subseteq kernel'[j].addrs
    BY <1>1, <1>8, <1>9
  <1>14. PlacedIsThere'
    BY <1>13 DEF PlacedIsThere
  <1> QED BY <1>12, <1>14

LEMMA OtherProgramKeeps == IInv /\ OtherProgram => IInv'
  <1> SUFFICES ASSUME IInv, NEW i \in Here, NEW a \in Foreign, OtherProgram!(i, a) PROVE IInv'
    BY DEF OtherProgram
  <1>1. IsDoc(doc) /\ IsKernel(kernel) /\ PlacedIsThere
    BY DEF IInv, Shape
  <1>2. /\ kernel' = [kernel EXCEPT ![i].addrs = @ \cup {a}]
        /\ UNCHANGED <<doc, lease, before, placed, excused>> /\ clean' = FALSE /\ asked' = TRUE
    OBVIOUS
  <1>3. IsKernel(kernel') /\ PlacedIsThere'
    BY <1>1, <1>2, OneMore
  <1> QED BY <1>1, <1>2, <1>3, OutsideKeeps

LEMMA SetUplinkKeeps == IInv /\ setUplink => IInv'
  <1> SUFFICES ASSUME IInv, setUplink PROVE IInv'
    OBVIOUS
  <1>1. IsDoc(doc) /\ IsKernel(kernel) /\ PlacedIsThere
    BY DEF IInv, Shape
  <1>2. PICK i \in (Here \cap doc.adopted) \ Members(doc) :
            /\ doc' = [doc EXCEPT !.uplink = i]
            /\ kernel' = [kernel EXCEPT ![i].addrs = @ \cup {Uplink}]
    BY DEF setUplink
  <1>3. UNCHANGED <<lease, before, placed, excused>> /\ clean' = FALSE /\ asked' = TRUE
    BY DEF setUplink
  <1>4. IsKernel(kernel') /\ PlacedIsThere'
    BY <1>1, <1>2, <1>3, OneMore
  <1>5. doc = [adopted |-> doc.adopted, nets |-> doc.nets, uplink |-> doc.uplink]
    BY <1>1 DEF IsDoc
  <1>6. doc' = [adopted |-> doc.adopted, nets |-> doc.nets, uplink |-> i]
    BY <1>2, <1>5
  <1>7. PICK e : e = doc'
    OBVIOUS
  <1>8. /\ e.adopted = doc.adopted /\ e.nets = doc.nets
        /\ e = [adopted |-> e.adopted, nets |-> e.nets, uplink |-> e.uplink]
    BY <1>6, <1>7
  <1>9. Members(e) = Members(doc) /\ Router4(e) = Router4(doc) /\ Router6(e, lease) = Router6(doc, lease)
    BY <1>8 DEF Members, Router4, Router6
  <1>10. IsDoc(e)
    BY <1>1, <1>8, <1>9 DEF IsDoc
  <1> QED BY <1>3, <1>4, <1>7, <1>9, <1>10, OutsideKeeps

LEMMA UnplugKeeps == ASSUME IInv, NEW i \in Ifaces, Unplug(i) PROVE IInv'
  <1>1. IsDoc(doc) /\ IsKernel(kernel) /\ PlacedIsThere
    BY DEF IInv, Shape
  <1>2. PICK z : z = [here |-> ~kernel[i].here, up |-> FALSE, addrs |-> {}]
    OBVIOUS
  <1>3. kernel' = [kernel EXCEPT ![i] = z]
    BY <1>2 DEF Unplug
  <1>4. DOMAIN kernel = Ifaces
    BY <1>1 DEF IsKernel
  <1>5. kernel' = [j \in Ifaces |-> IF j = i THEN z ELSE kernel[j]]
    BY <1>1, <1>3, <1>4 DEF IsKernel
  <1>6. /\ z = [here |-> z.here, up |-> z.up, addrs |-> z.addrs]
        /\ z.here \in BOOLEAN /\ z.up \in BOOLEAN /\ z.addrs = {}
    BY <1>2
  <1>7. IsKernel(kernel')
    <2>1. kernel' = [j \in Ifaces |-> kernel'[j]]
      BY <1>5
    <2>2. \A j \in Ifaces : kernel'[j] = z \/ kernel'[j] = kernel[j]
      BY <1>5
    <2> QED BY <1>1, <1>6, <2>1, <2>2 DEF IsKernel
  <1>8. placed' = {x \in placed : x[1] # i}
    BY DEF Unplug
  <1>9. PlacedIsThere'
    BY <1>1, <1>5, <1>8 DEF PlacedIsThere
  <1>10. UNCHANGED <<doc, lease, before, excused>> /\ clean' = FALSE /\ asked' = TRUE
    BY DEF Unplug
  <1> QED BY <1>1, <1>7, <1>8, <1>9, <1>10, OutsideKeeps

(* The box starts: the stored addresses and nothing else.                  *)
LEMMA RestoreKeeps == IInv /\ Restore => IInv'
  <1> SUFFICES ASSUME IInv, Restore PROVE IInv'
    OBVIOUS
  <1> DEFINE want == {x \in DesiredFor(doc, lease) : x[1] \in Here}
             at(i) == {x[2] : x \in {y \in want : y[1] = i}}
                        \cup (IF i = doc.uplink /\ i \in Here THEN {Uplink} ELSE {})
  <1>1. IsDoc(doc) /\ IsKernel(kernel)
    BY DEF IInv, Shape
  <1>2. kernel' = [i \in Ifaces |->
                    [here |-> kernel[i].here, up |-> i \in Members(doc) /\ i \in Here, addrs |-> at(i)]]
    BY DEF Restore
  <1>3. placed' = want
    BY DEF Restore
  <1>4. \A x \in want : x = <<x[1], x[2]>> /\ x[1] \in Ifaces /\ x[2] \in at(x[1])
    <2>1. \A x \in DesiredFor(doc, lease) : x = <<x[1], x[2]>> /\ x[1] \in Ifaces
      BY <1>1, Retired
    <2> QED BY <2>1
  <1>5. \A i \in Ifaces : ~kernel[i].here => at(i) = {}
    BY DEF Here
  <1> HIDE DEF want, at
  <1>6. ASSUME NEW i \in Ifaces
        PROVE  /\ kernel'[i] = [here |-> kernel'[i].here, up |-> kernel'[i].up, addrs |-> kernel'[i].addrs]
               /\ kernel'[i].here \in BOOLEAN /\ kernel'[i].up \in BOOLEAN
               /\ kernel'[i].here = kernel[i].here /\ kernel'[i].addrs = at(i)
    <2>1. PICK u : u = (i \in Members(doc) /\ i \in Here)
      OBVIOUS
    <2>2. u \in BOOLEAN
      BY <2>1
    <2>3. kernel'[i] = [here |-> kernel[i].here, up |-> u, addrs |-> at(i)]
      BY <1>2, <2>1
    <2>4. kernel[i].here \in BOOLEAN
      BY <1>1 DEF IsKernel
    <2> QED BY <2>2, <2>3, <2>4
  <1>7. kernel' = [i \in Ifaces |-> kernel'[i]]
    BY <1>2
  <1>8. IsKernel(kernel')
    BY <1>5, <1>6, <1>7 DEF IsKernel
  <1>9. PlacedIsThere'
    BY <1>3, <1>4, <1>6 DEF PlacedIsThere
  <1>10. UNCHANGED <<doc, lease, before, excused>> /\ clean' = FALSE /\ asked' = TRUE
    BY DEF Restore
  <1>11. placed' \subseteq DesiredFor(doc, lease)
    BY <1>3 DEF want
  <1> QED BY <1>1, <1>8, <1>9, <1>10, <1>11, OutsideKeeps

(* Every edit is a request for a document.                                 *)
LEMMA EditsMutate ==
    ASSUME IsDoc(doc),
           putNetwork \/ removeNetwork \/ swapNetworks \/ adopt \/ reapply
    PROVE  \E d : IsDoc(d) /\ \E keep, confirm \in BOOLEAN : mutate(d, keep, confirm)
  <1>1. CASE putNetwork
    <2>1. PICK n \in Names, i \in Ifaces, b \in Blocks, keep \in BOOLEAN, confirm \in BOOLEAN :
              mutate(Doc(doc.adopted, Set(doc.nets, n, Block(b, i))), keep, confirm)
      BY <1>1 DEF putNetwork
    <2>2. IsDoc(Doc(doc.adopted, Set(doc.nets, n, Block(b, i))))
      BY PutIsDoc
    <2> QED BY <2>1, <2>2
  <1>2. CASE removeNetwork
    <2>1. PICK n \in DOMAIN doc.nets, keep \in BOOLEAN, confirm \in BOOLEAN :
              mutate(Doc(doc.adopted, [m \in DOMAIN doc.nets \ {n} |-> doc.nets[m]]), keep, confirm)
      BY <1>2 DEF removeNetwork
    <2>2. IsDoc(Doc(doc.adopted, [m \in DOMAIN doc.nets \ {n} |-> doc.nets[m]]))
      BY RemoveIsDoc
    <2> QED BY <2>1, <2>2
  <1>3. CASE swapNetworks
    <2>1. PICK nets : nets = [n \in DOMAIN doc.nets |->
                        [doc.nets[n] EXCEPT !.member = CHOOSE i \in Members(doc) : i # @]]
      OBVIOUS
    <2>2. PICK confirm \in BOOLEAN : mutate(Doc(doc.adopted, nets), FALSE, confirm)
      BY <1>3, <2>1 DEF swapNetworks
    <2>3. Validate(Doc(doc.adopted, nets))
      BY <2>2 DEF mutate
    <2>4. IsDoc(Doc(doc.adopted, nets))
      BY <2>1, <2>3, SwapIsDoc
    <2> QED BY <2>2, <2>4
  <1>4. CASE adopt
    <2>1. PICK is \in SUBSET Ifaces, confirm \in BOOLEAN : mutate(Doc(is, doc.nets), FALSE, confirm)
      BY <1>4 DEF adopt
    <2>2. IsDoc(Doc(is, doc.nets))
      BY AdoptIsDoc
    <2> QED BY <2>1, <2>2
  <1>5. CASE reapply
    BY <1>5 DEF reapply
  <1> QED BY <1>1, <1>2, <1>3, <1>4, <1>5

LEMMA InitInForce == Init => IInv
  <1> SUFFICES ASSUME Init PROVE IInv
    OBVIOUS
  <1>1. PICK is \in {{}, Ifaces} : doc = [adopted |-> is, nets |-> <<>>, uplink |-> NoIface]
    BY DEF Init
  <1>2. /\ doc.adopted = is /\ doc.nets = <<>>
        /\ doc = [adopted |-> doc.adopted, nets |-> doc.nets, uplink |-> doc.uplink]
    BY <1>1
  <1>3. DOMAIN doc.nets = {}
    BY <1>2
  <1>4. Members(doc) = {}
    BY <1>3 DEF Members
  <1>5. IsDoc(doc)
    BY <1>1, <1>2, <1>3, <1>4 DEF IsDoc
  <1>6. IsKernel(kernel)
    <2>1. \A i \in Ifaces : kernel[i] = [here |-> TRUE, up |-> FALSE, addrs |-> {}]
      BY DEF Init
    <2>2. kernel = [i \in Ifaces |-> kernel[i]]
      BY DEF Init
    <2>3. ASSUME NEW i \in Ifaces
          PROVE  /\ kernel[i].here = TRUE /\ kernel[i].up = FALSE /\ kernel[i].addrs = {}
                 /\ kernel[i] = [here |-> kernel[i].here, up |-> kernel[i].up, addrs |-> kernel[i].addrs]
      BY <2>1
    <2>4. \A i \in Ifaces : kernel[i].here \in BOOLEAN /\ kernel[i].up \in BOOLEAN
      BY <2>3
    <2> QED BY <2>2, <2>3, <2>4 DEF IsKernel
  <1>7. Shape
    BY <1>5, <1>6 DEF Init, Shape
  <1>8. PlacedIsThere /\ Addressed /\ NothingLeft
    BY DEF Init, PlacedIsThere, Addressed, NothingLeft
  <1> QED BY <1>7, <1>8 DEF IInv

LEMMA NextInForce == ASSUME IInv, [Next]_vars PROVE IInv'
  <1>0. IsDoc(doc)
    BY DEF IInv, Shape
  <1>1. CASE putNetwork \/ removeNetwork \/ swapNetworks \/ adopt \/ reapply
    BY <1>0, <1>1, EditsMutate, MutateKeeps
  <1>2. CASE deleteAddress
    BY <1>2, DeleteAddressKeeps
  <1>3. CASE setUplink
    BY <1>3, SetUplinkKeeps
  <1>4. CASE FollowDelegation
    BY <1>4, FollowKeeps
  <1>5. CASE Keep
    BY <1>5 DEF Keep, IInv, Shape, PlacedIsThere, Addressed, NothingLeft, On
  <1>6. CASE Rollback
    BY <1>6, RollbackKeeps
  <1>7. CASE \E i \in Ifaces : Unplug(i)
    BY <1>7, UnplugKeeps
  <1>8. CASE OtherProgram
    BY <1>8, OtherProgramKeeps
  <1>9. CASE Restore
    BY <1>9, RestoreKeeps
  <1>10. CASE UNCHANGED vars
    BY <1>10 DEF vars, IInv, Shape, PlacedIsThere, Addressed, NothingLeft, On
  <1> QED BY <1>1, <1>2, <1>3, <1>4, <1>5, <1>6, <1>7, <1>8, <1>9, <1>10 DEF Next

(* A request that is not confirmed plans no removal, and so makes none.    *)
LEMMA UnconfirmedRemovesNothing ==
    ASSUME IInv, NEW d, IsDoc(d), NEW keep \in BOOLEAN, NEW confirm \in BOOLEAN,
           mutate(d, keep, confirm), ~confirm
    PROVE  \A i \in Ifaces : kernel[i].addrs \subseteq kernel'[i].addrs
  <1> DEFINE all == RetiredFor(doc, d, lease, lease)
             retire == IF keep THEN {} ELSE all
             want == DesiredFor(d, lease)
             ops == Ops(want, Members(d), retire)
  <1>1. IsDoc(doc) /\ IsKernel(kernel) /\ PlacedIsThere
    BY DEF IInv, Shape
  <1>2. PICK done \in SUBSET ops : Apply(ops, done)
    BY DEF mutate
  <1>3. ~Disruptive(d, keep)
    BY DEF mutate
  <1>4. Stray(d) = {}
    BY <1>3 DEF Disruptive, PlanAddrs
  <1>5. keep \/ all \cap Carried = {}
    BY <1>3 DEF Disruptive, PlanRetire
  <1>6. \A x \in want : x = <<x[1], x[2]>> /\ x[1] \in Ifaces
    BY <1>1, Retired
  <1>7. \A i \in Ifaces : \A a \in kernel[i].addrs : a \notin kernel'[i].addrs =>
            <<i, a>> \in retire \/ (i \in Members(d) /\ IPv4(a) /\ <<i, a>> \notin want)
    <2> HIDE DEF want, retire
    <2> QED BY <1>1, <1>2, <1>6, Applied
  <1> SUFFICES ASSUME NEW i \in Ifaces, NEW a \in kernel[i].addrs, a \notin kernel'[i].addrs
               PROVE  FALSE
    OBVIOUS
  <1>8. PICK x : x = <<i, a>>
    OBVIOUS
  <1>9. x[1] = i /\ x[2] = a
    BY <1>8
  <1>10. x \in Carried
    BY <1>1, <1>8, InCarried
  <1>11. x \notin retire
    BY <1>5, <1>10
  <1>12. i \in Members(d) /\ IPv4(a) /\ x \notin want
    BY <1>7, <1>8, <1>11
  <1>13. x \notin Router4(d)
    BY <1>12 DEF DesiredFor
  <1>14. x \in Stray(d)
    BY <1>9, <1>10, <1>12, <1>13 DEF Stray
  <1> QED BY <1>4, <1>14

(***************************************************************************)
(* Theorems.                                                               *)
(***************************************************************************)
(* The inductive invariant of the networks, for any blocks a request can   *)
(* carry (mutate, apply.go:210).                                           *)
LEMMA AlwaysInForce == Spec => []IInv
  <1>1. IInv /\ [Next]_vars => IInv'
    BY NextInForce
  <1> QED BY <1>1, InitInForce, PTL DEF Spec

(* After any request that reports success every member interface is up,    *)
(* has its router addresses and no other IPv4 address, and no address the  *)
(* router placed outlives its network unless it was kept on request or its *)
(* removal failed: through failed kernel operations, rollbacks, moves of   *)
(* the delegated prefix, unplugged interfaces and reboots (apply.go:210,   *)
(* writer.go:158, writer.go:234).                                          *)
THEOREM NetworksStayInForce == Spec => []NetworksInForce
  <1>1. IInv => NetworksInForce
    BY DEF IInv, NetworksInForce
  <1> QED BY <1>1, AlwaysInForce, PTL

(* A request nobody confirmed takes no address off any interface: whatever *)
(* the writer would remove is in the plan that holds the request           *)
(* (buildPlan, view.go:339).                                               *)
THEOREM UnconfirmedKeepsAddresses == Spec => AddressesSpared
  <1>1. ASSUME IInv, [Next]_vars PROVE [KeepsAddresses]_vars
    <2>0. IsDoc(doc)
      BY <1>1 DEF IInv, Shape
    <2>1. CASE putNetwork \/ removeNetwork \/ swapNetworks \/ adopt \/ reapply
      <3>1. PICK d : IsDoc(d) /\ \E keep, confirm \in BOOLEAN : mutate(d, keep, confirm)
        BY <2>0, <2>1, EditsMutate
      <3>2. PICK keep \in BOOLEAN, confirm \in BOOLEAN : mutate(d, keep, confirm)
        BY <3>1
      <3>3. asked' = confirm
        BY <3>2 DEF mutate
      <3> QED BY <1>1, <3>1, <3>2, <3>3, UnconfirmedRemovesNothing DEF KeepsAddresses
    <2>2. CASE deleteAddress \/ setUplink \/ FollowDelegation \/ Rollback
                \/ (\E i \in Ifaces : Unplug(i)) \/ OtherProgram \/ Restore
      BY <2>2 DEF deleteAddress, setUplink, FollowDelegation, Rollback, Unplug, OtherProgram, Restore,
                  KeepsAddresses
    <2>3. CASE Keep
      BY <2>3 DEF Keep, KeepsAddresses
    <2> QED BY <1>1, <2>1, <2>2, <2>3 DEF Next
  <1> QED BY <1>1, AlwaysInForce, PTL DEF Spec, AddressesSpared

=============================================================================
