---------------------------- MODULE RemoteProofs ----------------------------
(***************************************************************************)
(* Remote access, for any names, ports, interfaces and addresses: the      *)
(* kernel holds the stored tunnel once a change went through, and no       *)
(* unconfirmed request locks out a device that could dial in.              *)
(*                                                                         *)
(* The first is not inductive on its own.  A tunnel that moves to another  *)
(* name leaves an interface behind, and undoing a trial may move it back;  *)
(* so InStep speaks of every interface: one the last apply finished with   *)
(* holds the stored tunnel if the tunnel has its name, and nothing if not. *)
(***************************************************************************)
EXTENDS Remote, TLAPS

(***************************************************************************)
(* The inductive invariant.                                                *)
(***************************************************************************)
IsPeer(p) == p = [key |-> p.key, addr |-> p.addr]
IsTunnel(w) ==
    /\ w = [on |-> w.on, iface |-> w.iface, port |-> w.port, public |-> w.public,
            key |-> w.key, addr |-> w.addr, peers |-> w.peers]
    /\ w.on \in BOOLEAN /\ w.iface \in Ifaces
    /\ \A n \in DOMAIN w.peers : IsPeer(w.peers[n])
IsProxy(s) ==
    /\ s = [on |-> s.on, port |-> s.port, public |-> s.public, pw |-> s.pw]
    /\ s.on \in BOOLEAN

(* A stored document: whatever is switched on has its key or password.     *)
IsDocument(c) ==
    /\ c = [host |-> c.host, wg |-> c.wg, socks |-> c.socks]
    /\ IsTunnel(c.wg) /\ IsProxy(c.socks)
    /\ c.wg.on => c.wg.key # 0
    /\ c.socks.on => c.socks.pw # 0

IsKernel(k) ==
    /\ k = [i \in Ifaces |-> k[i]]
    /\ \A i \in Ifaces : k[i] = [lines |-> k[i].lines, up |-> k[i].up] /\ k[i].up \in BOOLEAN

IsUnit(u) == u = [file |-> u.file, running |-> u.running, boot |-> u.boot]

Shaped ==
    /\ IsDocument(cfg)
    /\ trial # NoTrial => IsDocument(trial)
    /\ IsKernel(kern)
    /\ IsUnit(proxy)

(* What an interface holds when the document is in force on it.            *)
Wanted(c, i) == IF i = c.wg.iface THEN Render(c.wg) ELSE {}

InStep == \A i \in Ifaces \ (behind \cup Taken) : kern[i].lines = Wanted(cfg, i)

(* Every file and link handed out says where to dial.                      *)
Dialled == \A g \in given : g.dial # <<>>

IInv == Shaped /\ InStep /\ Dialled

(***************************************************************************)
(* What the operators return.                                              *)
(***************************************************************************)
(* The lines of a document: none when it is off, and otherwise one with    *)
(* the name, one with the key, one with the port, and one per device.      *)
LEMMA Lines ==
    ASSUME NEW w
    PROVE  /\ ~w.on => Render(w) = {}
           /\ w.on => <<"interface", w.iface>> \in Render(w)
           /\ \A k : <<"public-key", k>> \in Render(w) <=> w.on /\ k = w.key
           /\ \A p : <<"listen-port", p>> \in Render(w) <=> w.on /\ p = w.port
  BY DEF Render, RouterAddr

LEMMA PeerLine ==
    ASSUME NEW w, NEW k, NEW a
    PROVE  <<"peer", k, a>> \in Render(w) <=>
             w.on /\ \E n \in DOMAIN w.peers : w.peers[n].key = k /\ w.peers[n].addr = a
  BY DEF Render, RouterAddr

(* Apply without a failed step leaves the interface with exactly the       *)
(* document's lines, and up when the tunnel is on.                         *)
LEMMA CleanApply ==
    ASSUME IsKernel(kern), NEW w, w.on \in BOOLEAN, w.iface \in Ifaces, ~Foreign(w.iface)
    PROVE  /\ Programmed(w, {}).lines = Render(w)
           /\ w.on => Programmed(w, {}).up
  <1> DEFINE part == {l \in Render(w) : l[1] = "address"}
  <1>1. w.on => part \cup (Render(w) \ part) \cup {<<"interface", w.iface>>} = Render(w)
    BY Lines
  <1>2. CASE ~w.on
    BY <1>2, Lines DEF Programmed, Absent
  <1>3. CASE w.on
    <2>1. Programmed(w, {}) = [lines |-> part \cup (Render(w) \ part) \cup {<<"interface", w.iface>>},
                               up |-> TRUE]
      BY <1>3 DEF Programmed
    <2> QED BY <1>1, <1>3, <2>1
  <1> QED BY <1>2, <1>3

(* Whatever fails, what Apply leaves is an interface.                      *)
LEMMA AppliedShape ==
    ASSUME IsKernel(kern), NEW w, w.iface \in Ifaces, NEW failed
    PROVE  LET k == Programmed(w, failed)
           IN  k = [lines |-> k.lines, up |-> k.up] /\ k.up \in BOOLEAN
  BY DEF Programmed, Absent, IsKernel

(* The proxy after an apply: when no step failed, it runs what it ran, or  *)
(* what the document says if the plan had it started or restarted.         *)
LEMMA AfterApply ==
    ASSUME IsUnit(proxy), NEW c, NEW p, NEW failed
    PROVE  /\ IsUnit(After(c, p, failed))
           /\ p.action = "none" => After(c, p, "").running = proxy.running
           /\ ~EmptyPlan(p) /\ p.action # "none" => After(c, p, "").running = RenderSocks(c.socks)
  <1> DEFINE want == RenderSocks(c.socks)
             wrote == [proxy EXCEPT !.file = want]
             booted == [wrote EXCEPT !.boot = c.socks.on]
             ran == [booted EXCEPT !.running = want]
  <1>1. wrote = [file |-> want, running |-> proxy.running, boot |-> proxy.boot]
    BY DEF IsUnit
  <1>2. /\ After(c, p, failed) \in {proxy, wrote, booted, ran}
        /\ p.action = "none" => After(c, p, "") \in {proxy, booted}
        /\ ~EmptyPlan(p) /\ p.action # "none" => After(c, p, "") = ran
    BY DEF After
  <1> HIDE DEF want, wrote
  <1>3. booted = [file |-> want, running |-> proxy.running, boot |-> c.socks.on]
    BY <1>1
  <1> HIDE DEF booted
  <1>4. ran = [file |-> want, running |-> want, boot |-> c.socks.on]
    BY <1>3
  <1> HIDE DEF ran
  <1>5. IsUnit(After(c, p, failed))
    BY <1>1, <1>2, <1>3, <1>4 DEF IsUnit
  <1> DEFINE end == After(c, p, "")
  <1>a. booted.running = proxy.running /\ ran.running = want
    BY <1>3, <1>4
  <1>b. /\ p.action = "none" => end \in {proxy, booted}
        /\ ~EmptyPlan(p) /\ p.action # "none" => end = ran
    BY <1>2
  <1> HIDE DEF end
  <1>6. p.action = "none" => end.running = proxy.running
    BY <1>a, <1>b
  <1>7. ~EmptyPlan(p) /\ p.action # "none" => end.running = want
    BY <1>a, <1>b, Zenon
  <1> USE DEF end
  <1> QED BY <1>5, <1>6, <1>7 DEF want

LEMMA SetPeerShape ==
    ASSUME NEW w, IsTunnel(w), NEW n, NEW p, IsPeer(p)
    PROVE  IsTunnel(SetPeer(w, n, p)) /\ SetPeer(w, n, p).iface = w.iface
           /\ SetPeer(w, n, p).on = w.on
  <1>1. SetPeer(w, n, p) = [on |-> w.on, iface |-> w.iface, port |-> w.port, public |-> w.public,
                            key |-> w.key, addr |-> w.addr,
                            peers |-> [x \in DOMAIN w.peers \cup {n} |->
                                           IF x = n THEN p ELSE w.peers[x]]]
    BY DEF SetPeer, IsTunnel
  <1> QED BY <1>1 DEF IsTunnel

LEMMA Rekeyed ==
    ASSUME NEW p, IsPeer(p), NEW k
    PROVE  IsPeer([p EXCEPT !.key = k])
  BY DEF IsPeer

(* A body differs from the stored tunnel in one field, or in its ports.    *)
LEMMA FieldShape ==
    ASSUME NEW w, IsTunnel(w)
    PROVE  /\ \A x \in BOOLEAN : LET v == [w EXCEPT !.on = x] IN IsTunnel(v) /\ v.iface = w.iface
           /\ \A x : LET v == [w EXCEPT !.key = x] IN IsTunnel(v) /\ v.iface = w.iface
           /\ \A x : LET v == Ported(w, x) IN IsTunnel(v) /\ v.iface = w.iface
           /\ \A x : LET v == [w EXCEPT !.addr = x] IN IsTunnel(v) /\ v.iface = w.iface
           /\ \A x \in Ifaces : LET v == [w EXCEPT !.iface = x] IN IsTunnel(v) /\ v.iface = x
  <1>1. ASSUME NEW x \in BOOLEAN
        PROVE  LET v == [w EXCEPT !.on = x] IN IsTunnel(v) /\ v.iface = w.iface
    BY DEF IsTunnel
  <1>2. ASSUME NEW x
        PROVE  LET v == [w EXCEPT !.key = x] IN IsTunnel(v) /\ v.iface = w.iface
    BY DEF IsTunnel
  <1>3. ASSUME NEW x
        PROVE  LET v == Ported(w, x) IN IsTunnel(v) /\ v.iface = w.iface
    <2>1. Ported(w, x) = [on |-> w.on, iface |-> w.iface, port |-> x[1], public |-> x[2],
                          key |-> w.key, addr |-> w.addr, peers |-> w.peers]
      <3> DEFINE u == [w EXCEPT !.port = x[1]]
      <3>1. u = [on |-> w.on, iface |-> w.iface, port |-> x[1], public |-> w.public,
                 key |-> w.key, addr |-> w.addr, peers |-> w.peers]
        BY DEF IsTunnel
      <3>2. Ported(w, x) = [u EXCEPT !.public = x[2]]
        BY DEF Ported
      <3> HIDE DEF u
      <3> QED BY <3>1, <3>2
    <2> QED BY <2>1 DEF IsTunnel
  <1>4. ASSUME NEW x
        PROVE  LET v == [w EXCEPT !.addr = x] IN IsTunnel(v) /\ v.iface = w.iface
    BY DEF IsTunnel
  <1>5. ASSUME NEW x \in Ifaces
        PROVE  LET v == [w EXCEPT !.iface = x] IN IsTunnel(v) /\ v.iface = x
    BY DEF IsTunnel
  <1> QED BY <1>1, <1>2, <1>3, <1>4, <1>5

LEMMA RemovePeerShape ==
    ASSUME NEW w, IsTunnel(w), NEW n
    PROVE  IsTunnel(RemovePeer(w, n)) /\ RemovePeer(w, n).iface = w.iface
           /\ RemovePeer(w, n).on = w.on
  <1>1. RemovePeer(w, n) = [on |-> w.on, iface |-> w.iface, port |-> w.port, public |-> w.public,
                            key |-> w.key, addr |-> w.addr,
                            peers |-> [x \in DOMAIN w.peers \ {n} |-> w.peers[x]]]
    BY DEF RemovePeer, IsTunnel
  <1> QED BY <1>1 DEF IsTunnel

(***************************************************************************)
(* The steps.                                                              *)
(***************************************************************************)
(* A request that changes the tunnel, by what it hands Mutate: a tunnel    *)
(* that is well-formed, files that say where to dial, and, when the tunnel *)
(* gets another name, nothing else that is new.                            *)
Renames(w) == \A f \in DOMAIN w \ {"iface"} : w[f] = cfg.wg[f]
TunnelEdit(w, confirm, files, failed) ==
    /\ Mutate(w, confirm, files, failed)
    /\ IsTunnel(w)
    /\ \A g \in files : g.dial # <<>>
    /\ cfg.wg.on /\ w.iface # cfg.wg.iface => Renames(w)

LEMMA ClientFile ==
    ASSUME NEW w, NEW p, cfg.host # NoHost
    PROVE  ClientConfig(w, p).dial # <<>>
  BY DEF ClientConfig, DialAddress

LEMMA putPeerEdits ==
    ASSUME Shaped, NEW n, NEW confirm, NEW failed,
           \/ putPeer(n, confirm, failed) \/ rekeyPeer(n, confirm, failed)
           \/ reissuePeer(n, confirm, failed) \/ deletePeer(n, confirm, failed)
    PROVE  \E w, files : TunnelEdit(w, confirm, files, failed)
  <1>w. IsTunnel(cfg.wg)
    BY DEF Shaped, IsDocument
  <1>1. CASE putPeer(n, confirm, failed)
    <2> DEFINE p == [key |-> Fresh, addr |-> NextAddress(cfg.wg)]
               w == SetPeer(cfg.wg, n, p)
    <2>1. Mutate(w, confirm, {ClientConfig(w, p)}, failed) /\ cfg.host # NoHost
      BY <1>1 DEF putPeer
    <2>2. IsPeer(p)
      BY DEF IsPeer
    <2> HIDE DEF p
    <2>3. IsTunnel(w) /\ w.iface = cfg.wg.iface
      BY <1>w, <2>2, SetPeerShape
    <2> HIDE DEF w
    <2>4. ClientConfig(w, p).dial # <<>>
      BY <2>1, ClientFile
    <2>5. TunnelEdit(w, confirm, {ClientConfig(w, p)}, failed)
      BY <2>1, <2>3, <2>4 DEF TunnelEdit
    <2> QED BY <2>5
  <1>2. CASE rekeyPeer(n, confirm, failed)
    <2> DEFINE p == [cfg.wg.peers[n] EXCEPT !.key = Fresh]
               w == SetPeer(cfg.wg, n, p)
    <2>1. Mutate(w, confirm, {}, failed) /\ n \in DOMAIN cfg.wg.peers
      BY <1>2 DEF rekeyPeer
    <2>a. IsPeer(cfg.wg.peers[n])
      BY <1>w, <2>1 DEF IsTunnel
    <2>2. IsPeer(p)
      BY <2>a, Rekeyed
    <2> HIDE DEF p
    <2>3. IsTunnel(w) /\ w.iface = cfg.wg.iface
      BY <1>w, <2>2, SetPeerShape
    <2> HIDE DEF w
    <2>5. TunnelEdit(w, confirm, {}, failed)
      BY <2>1, <2>3 DEF TunnelEdit
    <2> QED BY <2>5
  <1>3. CASE reissuePeer(n, confirm, failed)
    <2> DEFINE p == [cfg.wg.peers[n] EXCEPT !.key = Fresh]
               w == SetPeer(cfg.wg, n, p)
    <2>1. Mutate(w, confirm, {ClientConfig(w, p)}, failed) /\ n \in DOMAIN cfg.wg.peers
          /\ cfg.host # NoHost
      BY <1>3 DEF reissuePeer
    <2>a. IsPeer(cfg.wg.peers[n])
      BY <1>w, <2>1 DEF IsTunnel
    <2>2. IsPeer(p)
      BY <2>a, Rekeyed
    <2> HIDE DEF p
    <2>3. IsTunnel(w) /\ w.iface = cfg.wg.iface
      BY <1>w, <2>2, SetPeerShape
    <2> HIDE DEF w
    <2>4. ClientConfig(w, p).dial # <<>>
      BY <2>1, ClientFile
    <2>5. TunnelEdit(w, confirm, {ClientConfig(w, p)}, failed)
      BY <2>1, <2>3, <2>4 DEF TunnelEdit
    <2> QED BY <2>5
  <1>4. CASE deletePeer(n, confirm, failed)
    <2> DEFINE w == RemovePeer(cfg.wg, n)
    <2>1. Mutate(w, confirm, {}, failed)
      BY <1>4 DEF deletePeer
    <2>3. IsTunnel(w) /\ w.iface = cfg.wg.iface
      BY <1>w, RemovePeerShape
    <2> HIDE DEF w
    <2>5. TunnelEdit(w, confirm, {}, failed)
      BY <2>1, <2>3 DEF TunnelEdit
    <2> QED BY <2>5
  <1> QED BY <1>1, <1>2, <1>3, <1>4

LEMMA patchPeerEdits ==
    ASSUME Shaped, NEW n, NEW to, patchPeer(n, to)
    PROVE  \E w : TunnelEdit(w, FALSE, {}, {})
  <1> DEFINE v == RemovePeer(cfg.wg, n)
             w == SetPeer(v, to, cfg.wg.peers[n])
  <1>1. Mutate(w, FALSE, {}, {}) /\ n \in DOMAIN cfg.wg.peers
    BY DEF patchPeer, RenamePeer, CanRename
  <1>2. IsTunnel(cfg.wg) /\ IsPeer(cfg.wg.peers[n])
    BY <1>1 DEF Shaped, IsDocument, IsTunnel
  <1>3. IsTunnel(v) /\ v.iface = cfg.wg.iface
    BY <1>2, RemovePeerShape
  <1> HIDE DEF v
  <1>4. IsTunnel(w) /\ w.iface = cfg.wg.iface
    BY <1>2, <1>3, SetPeerShape
  <1> HIDE DEF w
  <1>5. TunnelEdit(w, FALSE, {}, {})
    BY <1>1, <1>4 DEF TunnelEdit
  <1> QED BY <1>5

(* The body of a PUT or a PATCH, with the key it gets: a tunnel whose name *)
(* moves is otherwise the stored one, since that one, being on, has a key. *)
LEMMA putConfigEdits ==
    ASSUME Shaped, NEW b \in Bodies, NEW confirm, NEW failed,
           putWireGuardConfig(b, confirm, failed)
    PROVE  \E w : TunnelEdit(w, confirm, {}, failed)
  <1> DEFINE kept == preserveKey(b, cfg.wg)
             w == GenerateFor(kept, Fresh)
  <1>1. Mutate(w, confirm, {}, failed)
    BY DEF putWireGuardConfig
  <1>w. IsTunnel(cfg.wg) /\ (cfg.wg.on => cfg.wg.key # 0)
    BY DEF Shaped, IsDocument
  <1> DEFINE v == [cfg.wg EXCEPT !.key = -1]
  <1>v. IsTunnel(v) /\ v.iface = cfg.wg.iface
    BY <1>w, FieldShape
  <1>2. /\ IsTunnel(b)
        /\ b.iface # cfg.wg.iface => b = [v EXCEPT !.iface = b.iface]
    <2>1. \/ \E x \in BOOLEAN : b = [v EXCEPT !.on = x]
          \/ b = [v EXCEPT !.key = 0]
          \/ \E x : b = Ported(v, x)
          \/ \E x \in Ifaces : b = [v EXCEPT !.iface = x]
          \/ \E x : b = [v EXCEPT !.addr = x]
      <3> DEFINE ons == {[v EXCEPT !.on = x] : x \in BOOLEAN}
                 ports == {Ported(v, x) : x \in Ports \X (Ports \cup {0})}
                 names == {[v EXCEPT !.iface = x] : x \in Ifaces}
                 addrs == {[v EXCEPT !.addr = x] : x \in 1..Tail}
      <3>1. b \in ons \cup {[v EXCEPT !.key = 0]} \cup ports \cup names \cup addrs
        BY DEF Bodies
      <3> HIDE DEF v
      <3>2. b \in ons => \E x \in BOOLEAN : b = [v EXCEPT !.on = x]
        OBVIOUS
      <3>3. b \in ports => \E x : b = Ported(v, x)
        OBVIOUS
      <3>4. b \in names => \E x \in Ifaces : b = [v EXCEPT !.iface = x]
        OBVIOUS
      <3>5. b \in addrs => \E x : b = [v EXCEPT !.addr = x]
        OBVIOUS
      <3> HIDE DEF ons, ports, names, addrs
      <3> QED BY <3>1, <3>2, <3>3, <3>4, <3>5
    <2> HIDE DEF v
    <2>2. CASE \E x \in BOOLEAN : b = [v EXCEPT !.on = x]
      BY <1>v, <2>2, FieldShape
    <2>3. CASE b = [v EXCEPT !.key = 0]
      BY <1>v, <2>3, FieldShape
    <2>4. CASE \E x : b = Ported(v, x)
      BY <1>v, <2>4, FieldShape
    <2>5. CASE \E x \in Ifaces : b = [v EXCEPT !.iface = x]
      BY <1>v, <2>5, FieldShape
    <2>6. CASE \E x : b = [v EXCEPT !.addr = x]
      BY <1>v, <2>6, FieldShape
    <2> QED BY <2>1, <2>2, <2>3, <2>4, <2>5, <2>6
  <1>3. /\ IsTunnel(kept) /\ kept.iface = b.iface
        /\ b.iface # cfg.wg.iface => kept = [cfg.wg EXCEPT !.iface = b.iface]
    <2>1. IsTunnel(kept) /\ kept.iface = b.iface
      BY <1>2, FieldShape DEF preserveKey
    <2>2. b.iface # cfg.wg.iface => kept = [cfg.wg EXCEPT !.iface = b.iface]
      BY <1>w, <1>2 DEF preserveKey, IsTunnel
    <2> QED BY <2>1, <2>2
  <1> HIDE DEF kept
  <1>4. /\ IsTunnel(w) /\ w.iface = kept.iface
        /\ w = kept \/ kept.key = 0
    BY <1>3 DEF GenerateFor, IsTunnel
  <1>5. cfg.wg.on /\ w.iface # cfg.wg.iface => Renames(w)
    BY <1>w, <1>3, <1>4 DEF Renames, IsTunnel
  <1> HIDE DEF w
  <1>6. TunnelEdit(w, confirm, {}, failed)
    BY <1>1, <1>4, <1>5 DEF TunnelEdit
  <1> QED BY <1>6

LEMMA postApplyEdits ==
    ASSUME Shaped, NEW failed, postApply(failed)
    PROVE  TunnelEdit(cfg.wg, TRUE, {}, failed)
  BY DEF postApply, Shaped, IsDocument, TunnelEdit

(* The kernel after a request that changes the tunnel: untouched, or the   *)
(* one interface programmed.                                               *)
LEMMA MutatedKernel ==
    ASSUME Shaped, NEW w, NEW confirm, NEW files, NEW failed, IsTunnel(w),
           Mutate(w, confirm, files, failed)
    PROVE  /\ cfg' = [host |-> cfg.host, wg |-> w, socks |-> cfg.socks]
           /\ IsDocument(cfg')
           /\ IsKernel(kern')
           /\ \A i \in Ifaces \ {w.iface} : kern'[i] = kern[i]
           /\ ask'.clean /\ ~Foreign(w.iface) => kern'[w.iface].lines = Render(w)
           /\ ask'.clean /\ ~Foreign(w.iface) /\ w.on /\ kern[w.iface].lines # Render(w)
                => kern'[w.iface].up
           /\ kern[w.iface].lines = Render(w) => kern' = kern
  <1> DEFINE changes == diffLines(kern[w.iface].lines, Render(w))
             refused == changes # {} /\ PortInUse(w)
             done == Programmed(w, failed)
  <1>1. /\ w.on => w.key # 0
        /\ cfg' = [cfg EXCEPT !.wg = w]
        /\ kern' = IF changes = {} \/ refused THEN kern ELSE [kern EXCEPT ![w.iface] = done]
        /\ ask' = [confirm |-> confirm, clean |-> failed = {} /\ ~refused]
    BY DEF Mutate, ValidateWireGuard, Asked
  <1>2. cfg' = [host |-> cfg.host, wg |-> w, socks |-> cfg.socks]
    BY <1>1 DEF Shaped, IsDocument
  <1>3. IsDocument(cfg')
    BY <1>1, <1>2 DEF Shaped, IsDocument
  <1>4. done = [lines |-> done.lines, up |-> done.up] /\ done.up \in BOOLEAN
    BY AppliedShape DEF Shaped, IsTunnel
  <1>5. changes = {} <=> kern[w.iface].lines = Render(w)
    BY DEF diffLines
  <1>6. ask'.clean /\ ~Foreign(w.iface) /\ changes # {} =>
            done.lines = Render(w) /\ (w.on => done.up) /\ ~refused
    <2>1. ask'.clean => failed = {} /\ ~refused
      <3> HIDE DEF refused
      <3> QED BY <1>1
    <2>2. ~Foreign(w.iface) => /\ Programmed(w, {}).lines = Render(w)
                               /\ w.on => Programmed(w, {}).up
      BY CleanApply DEF Shaped, IsTunnel
    <2> HIDE DEF changes, refused
    <2> QED BY <2>1, <2>2
  <1> HIDE DEF changes, refused, done
  <1>7. IsKernel(kern') /\ \A i \in Ifaces \ {w.iface} : kern'[i] = kern[i]
    BY <1>1, <1>4 DEF Shaped, IsKernel, IsTunnel
  <1>8. changes # {} /\ ~refused => kern'[w.iface] = done
    BY <1>1 DEF Shaped, IsKernel, IsTunnel
  <1>9. /\ ask'.clean /\ ~Foreign(w.iface) => kern'[w.iface].lines = Render(w)
        /\ ask'.clean /\ ~Foreign(w.iface) /\ w.on /\ kern[w.iface].lines # Render(w)
                => kern'[w.iface].up
        /\ kern[w.iface].lines = Render(w) => kern' = kern
    BY <1>1, <1>5, <1>6, <1>8
  <1> QED BY <1>2, <1>3, <1>7, <1>9

LEMMA TunnelEditKeeps ==
    ASSUME IInv, NEW w, NEW confirm, NEW files, NEW failed,
           TunnelEdit(w, confirm, files, failed)
    PROVE  IInv'
  <1>1. /\ Mutate(w, confirm, files, failed) /\ IsTunnel(w) /\ Shaped
        /\ \A g \in files : g.dial # <<>>
    BY DEF TunnelEdit, IInv
  <1>2. /\ trial' = trial \/ trial' = cfg
        /\ proxy' = proxy
        /\ given' = given \cup files
        /\ behind \cup Renamed(w.iface) \subseteq behind' \cup {w.iface}
        /\ ~ask'.clean => w.iface \in behind'
    BY <1>1 DEF Mutate, Asked
  <1>3. /\ cfg' = [host |-> cfg.host, wg |-> w, socks |-> cfg.socks]
        /\ IsDocument(cfg') /\ IsKernel(kern')
        /\ \A i \in Ifaces \ {w.iface} : kern'[i] = kern[i]
        /\ ask'.clean /\ ~Foreign(w.iface) => kern'[w.iface].lines = Render(w)
    BY <1>1, MutatedKernel
  <1>4. Shaped'
    BY <1>1, <1>2, <1>3 DEF Shaped
  <1>5. ASSUME NEW i \in Ifaces \ (behind' \cup Taken)
        PROVE  kern'[i].lines = Wanted(cfg', i)
    <2>1. CASE i = w.iface
      BY <1>2, <1>3, <2>1 DEF Wanted, Foreign
    <2>2. CASE i # w.iface
      <3>1. i \notin behind /\ i # cfg.wg.iface
        BY <1>2, <2>2 DEF Renamed
      <3>2. kern[i].lines = {}
        BY <3>1 DEF IInv, InStep, Wanted
      <3> QED BY <1>3, <2>2, <3>2 DEF Wanted
    <2> QED BY <2>1, <2>2
  <1>6. Dialled'
    BY <1>1, <1>2 DEF IInv, Dialled
  <1> QED BY <1>4, <1>5, <1>6 DEF IInv, InStep

LEMMA patchConfigKeeps ==
    ASSUME IInv, NEW h, NEW confirm, patchConfig(h, confirm)
    PROVE  IInv' /\ cfg' = [host |-> h, wg |-> cfg.wg, socks |-> cfg.socks]
  <1>1. /\ cfg' = [cfg EXCEPT !.host = h]
        /\ UNCHANGED <<kern, proxy, trial, given, behind>>
    BY DEF patchConfig
  <1>2. cfg' = [host |-> h, wg |-> cfg.wg, socks |-> cfg.socks]
    BY <1>1 DEF IInv, Shaped, IsDocument
  <1>3. Shaped'
    BY <1>1, <1>2 DEF IInv, Shaped, IsDocument
  <1>4. InStep'
    BY <1>1, <1>2 DEF IInv, InStep, Wanted
  <1> QED BY <1>1, <1>2, <1>3, <1>4 DEF IInv, Dialled

LEMMA ProxyFields ==
    ASSUME NEW s, IsProxy(s)
    PROVE  /\ \A x \in BOOLEAN : IsProxy([s EXCEPT !.on = x])
           /\ \A x : IsProxy([s EXCEPT !.pw = x])
           /\ \A x : IsProxy(Ported(s, x))
  <1>1. ASSUME NEW x \in BOOLEAN PROVE IsProxy([s EXCEPT !.on = x])
    BY DEF IsProxy
  <1>2. ASSUME NEW x PROVE IsProxy([s EXCEPT !.pw = x])
    BY DEF IsProxy
  <1>3. ASSUME NEW x PROVE IsProxy(Ported(s, x))
    <2> DEFINE u == [s EXCEPT !.port = x[1]]
    <2>1. u = [on |-> s.on, port |-> x[1], public |-> s.public, pw |-> s.pw]
      BY DEF IsProxy
    <2>2. Ported(s, x) = [u EXCEPT !.public = x[2]]
      BY DEF Ported
    <2> HIDE DEF u
    <2>3. Ported(s, x) = [on |-> s.on, port |-> x[1], public |-> x[2], pw |-> s.pw]
      BY <2>1, <2>2
    <2> QED BY <2>3 DEF IsProxy
  <1> QED BY <1>1, <1>2, <1>3

LEMMA patchSocksEdits ==
    ASSUME IInv, NEW b \in SocksBodies, NEW confirm, NEW failed,
           patchSocksConfig(b, confirm, failed)
    PROVE  \E s : IsProxy(s) /\ mutateProxy(s, confirm, failed)
  <1> DEFINE v == [cfg.socks EXCEPT !.pw = -1]
             kept == [b EXCEPT !.pw = IF @ = -1 THEN cfg.socks.pw ELSE @]
             s == WithGeneratedPassword(kept, Fresh)
  <1>1. mutateProxy(s, confirm, failed)
    BY DEF patchSocksConfig
  <1>2. IsProxy(v)
    BY ProxyFields DEF IInv, Shaped, IsDocument
  <1>3. \/ \E x \in BOOLEAN : b = [v EXCEPT !.on = x]
        \/ b = [v EXCEPT !.pw = 0]
        \/ \E x : b = Ported(v, x)
    <2> DEFINE ons == {[v EXCEPT !.on = x] : x \in BOOLEAN}
               ports == {Ported(v, x) : x \in Ports \X (Ports \cup {0})}
    <2>1. b \in ons \cup {[v EXCEPT !.pw = 0]} \cup ports
      BY DEF SocksBodies
    <2> HIDE DEF v
    <2>2. b \in ons => \E x \in BOOLEAN : b = [v EXCEPT !.on = x]
      OBVIOUS
    <2>3. b \in ports => \E x : b = Ported(v, x)
      OBVIOUS
    <2> HIDE DEF ons, ports
    <2> QED BY <2>1, <2>2, <2>3
  <1> HIDE DEF v
  <1>4. IsProxy(b)
    BY <1>2, <1>3, ProxyFields
  <1>5. IsProxy(kept)
    BY <1>4, ProxyFields
  <1> HIDE DEF kept
  <1>6. IsProxy(s)
    BY <1>5, ProxyFields DEF WithGeneratedPassword
  <1> HIDE DEF s
  <1> QED BY <1>1, <1>6

LEMMA mutateProxyKeeps ==
    ASSUME IInv, NEW s, IsProxy(s), NEW confirm, NEW failed,
           mutateProxy(s, confirm, failed)
    PROVE  IInv' /\ cfg' = [host |-> cfg.host, wg |-> cfg.wg, socks |-> s]
  <1>1. /\ cfg' = [cfg EXCEPT !.socks = s]
        /\ s.on => s.pw # 0
        /\ UNCHANGED <<kern, trial, given>>
        /\ behind' \cup {"socks"} = behind \cup {"socks"}
        /\ proxy' = After([cfg EXCEPT !.socks = s], BuildSocksPlan([cfg EXCEPT !.socks = s]), failed)
    BY DEF mutateProxy, ValidateSocks, Settled
  <1>2. cfg' = [host |-> cfg.host, wg |-> cfg.wg, socks |-> s]
    BY <1>1 DEF IInv, Shaped, IsDocument
  <1>u. IsUnit(proxy')
    BY <1>1, AfterApply DEF IInv, Shaped
  <1>3. Shaped'
    BY <1>1, <1>2, <1>u DEF IInv, Shaped, IsDocument
  <1>4. InStep'
    BY <1>1, <1>2, InterfacesAssumption DEF IInv, InStep, Wanted
  <1> QED BY <1>1, <1>2, <1>3, <1>4 DEF IInv, Dialled

LEMMA getSocksLinkKeeps ==
    ASSUME IInv, getSocksLink
    PROVE  IInv'
  <1>1. /\ UNCHANGED <<cfg, kern, proxy, trial, behind>>
        /\ SocksClientURL(cfg) # <<>>
        /\ given' = given \cup {[kind |-> "socks", pw |-> cfg.socks.pw,
                                 dial |-> DialAddress(cfg, cfg.socks)]}
    BY DEF getSocksLink
  <1>2. DialAddress(cfg, cfg.socks) # <<>>
    BY <1>1 DEF SocksClientURL
  <1>3. Dialled'
    BY <1>1, <1>2 DEF IInv, Dialled
  <1> QED BY <1>1, <1>3 DEF IInv, Shaped, InStep

(* Undoing a trial: the name the tunnel had is cleared, and the one it     *)
(* gets back holds what the restored document says, or nothing when the    *)
(* tunnel was off before and after.                                        *)
LEMMA RecoverKeeps ==
    ASSUME IInv, Recover
    PROVE  IInv'
  <1> DEFINE w == trial.wg
             left == Cleared(cfg.wg, w)
             same == left[w.iface].lines = Render(w)
             idle == ~w.on /\ ~cfg.wg.on
             done == Programmed(w, {})
  <1>1. /\ trial # NoTrial /\ cfg' = trial /\ trial' = NoTrial /\ given' = given
        /\ kern' = IF idle \/ same \/ Foreign(w.iface) THEN left
                   ELSE [left EXCEPT ![w.iface] = done]
        /\ behind' = behind \ ({"socks"} \cup IF idle THEN {} ELSE {w.iface})
    BY DEF Recover
  <1>u. IsUnit(proxy')
    BY AfterApply DEF Recover, IInv, Shaped
  <1>2. IsDocument(trial) /\ IsTunnel(w) /\ IsTunnel(cfg.wg) /\ IsKernel(kern)
    BY <1>1 DEF IInv, Shaped, IsDocument
  <1>3. done = [lines |-> done.lines, up |-> done.up] /\ done.up \in BOOLEAN
        /\ (~Foreign(w.iface) => done.lines = Render(w))
    BY <1>2, AppliedShape, CleanApply DEF IsTunnel
  <1> HIDE DEF done
  <1>4. /\ IsKernel(left)
        /\ \A i \in Ifaces \ {cfg.wg.iface} : left[i] = kern[i]
        /\ ~cfg.wg.on \/ cfg.wg.iface = w.iface => left = kern
        /\ cfg.wg.on /\ cfg.wg.iface # w.iface /\ ~Foreign(cfg.wg.iface)
             => left[cfg.wg.iface].lines = {}
    BY <1>2 DEF Cleared, Absent, IsKernel, IsTunnel
  <1> HIDE DEF left
  <1>5. IsKernel(kern')
    BY <1>1, <1>2, <1>3, <1>4 DEF IsKernel, IsTunnel
  <1>6. ASSUME NEW i \in Ifaces \ (behind' \cup Taken)
        PROVE  kern'[i].lines = Wanted(cfg', i)
    <2>1. CASE i = w.iface
      <3>1. ~Foreign(i)
        BY DEF Foreign
      <3>2. CASE idle
        <4>1. i \notin behind
          BY <1>1, <3>2, InterfacesAssumption
        <4>2. kern[i].lines = {}
          BY <3>2, <4>1, Lines DEF IInv, InStep, Wanted
        <4>3. Render(w) = {}
          BY <3>2, Lines
        <4> QED BY <1>1, <1>4, <2>1, <3>2, <4>2, <4>3 DEF Wanted
      <3>3. CASE ~idle
        BY <1>1, <1>2, <1>3, <1>4, <2>1, <3>1, <3>3 DEF Wanted, IsKernel
      <3> QED BY <3>2, <3>3
    <2>2. CASE i # w.iface
      <3>1. i \notin behind
        BY <1>1, <2>2, InterfacesAssumption
      <3>2. kern'[i] = left[i]
        BY <1>1, <1>4, <2>2 DEF IsKernel
      <3>3. CASE i = cfg.wg.iface
        <4>1. CASE cfg.wg.on
          BY <1>1, <1>4, <2>2, <3>2, <3>3, <4>1 DEF Wanted, Foreign
        <4>2. CASE ~cfg.wg.on
          <5>1. kern[i].lines = {}
            BY <3>1, <3>3, <4>2, Lines DEF IInv, InStep, Wanted
          <5> QED BY <1>1, <1>4, <2>2, <3>2, <4>2, <5>1 DEF Wanted
        <4> QED BY <4>1, <4>2
      <3>4. CASE i # cfg.wg.iface
        BY <1>1, <1>4, <2>2, <3>1, <3>2, <3>4 DEF IInv, InStep, Wanted
      <3> QED BY <3>3, <3>4
    <2> QED BY <2>1, <2>2
  <1> QED BY <1>1, <1>2, <1>5, <1>6, <1>u DEF IInv, Shaped, InStep, Dialled

(* Starting, after a reboot or not: the interface gets what the document   *)
(* says, unless there is no document, and then nothing is on.              *)
LEMMA startRemoteKeeps ==
    ASSUME IInv, NEW reboot \in BOOLEAN, startRemote(reboot)
    PROVE  IInv'
  <1> DEFINE w == cfg.wg
             k == IF reboot THEN [i \in Ifaces |-> Absent] ELSE kern
             put == IF w.on THEN [lines |-> Render(w), up |-> TRUE] ELSE Absent
  <1>1. /\ UNCHANGED <<cfg, trial, given>>
        /\ kern' = IF Empty(cfg) \/ Foreign(w.iface) \/ k[w.iface].lines = Render(w) THEN k
                   ELSE [k EXCEPT ![w.iface] = put]
        /\ behind' = IF ~Empty(cfg) \/ w.iface \notin behind THEN behind \ {w.iface}
                     ELSE behind \cup {w.iface}
    BY DEF startRemote, Settled
  <1>u. IsUnit(proxy')
    BY DEF startRemote, IInv, Shaped, IsUnit
  <1>2. IsTunnel(w) /\ IsKernel(kern)
    BY DEF IInv, Shaped, IsDocument
  <1>3. /\ IsKernel(k)
        /\ \A i \in Ifaces : k[i] = kern[i] \/ k[i].lines = {}
    BY <1>2 DEF IsKernel, Absent
  <1>4. put = [lines |-> put.lines, up |-> put.up] /\ put.up \in BOOLEAN
        /\ put.lines = Render(w)
    BY <1>2, Lines DEF Absent, IsTunnel
  <1>5. Empty(cfg) => Render(w) = {}
    BY Lines DEF Empty
  <1> HIDE DEF k, put
  <1>6. IsKernel(kern')
    BY <1>1, <1>2, <1>3, <1>4 DEF IsKernel, IsTunnel
  <1>7. ASSUME NEW i \in Ifaces \ (behind' \cup Taken)
        PROVE  kern'[i].lines = Wanted(cfg', i)
    <2>1. CASE i = w.iface
      <3>1. CASE Empty(cfg)
        <4>1. i \notin behind
          BY <1>1, <2>1, <3>1
        <4>2. kern[i].lines = Render(w)
          BY <2>1, <4>1 DEF IInv, InStep, Wanted
        <4> QED BY <1>1, <1>3, <1>5, <2>1, <3>1, <4>2 DEF Wanted
      <3>2. CASE ~Empty(cfg)
        BY <1>1, <1>3, <1>4, <2>1, <3>2 DEF Wanted, Foreign, IsKernel
      <3> QED BY <3>1, <3>2
    <2>2. CASE i # w.iface
      <3>1. i \notin behind
        BY <1>1, <2>2
      <3>2. kern[i].lines = {}
        BY <2>2, <3>1 DEF IInv, InStep, Wanted
      <3>3. kern'[i] = k[i]
        BY <1>1, <1>3, <2>2 DEF IsKernel
      <3> QED BY <1>1, <1>3, <2>2, <3>2, <3>3 DEF Wanted
    <2> QED BY <2>1, <2>2
  <1> QED BY <1>1, <1>6, <1>7, <1>u DEF IInv, Shaped, InStep, Dialled

LEMMA StartsInStep ==
    ASSUME Init
    PROVE  IInv
  <1>1. cfg.wg.iface \in Ifaces
    BY InterfacesAssumption DEF Init
  <1>a. \E h, i, p :
            cfg = [host |-> h,
                   wg |-> [on |-> FALSE, iface |-> i, port |-> p, public |-> 0, key |-> 0,
                           addr |-> 1, peers |-> <<>>],
                   socks |-> [on |-> FALSE, port |-> p, public |-> 0, pw |-> 0]]
    BY DEF Init
  <1>b. PICK h, i, p :
            cfg = [host |-> h,
                   wg |-> [on |-> FALSE, iface |-> i, port |-> p, public |-> 0, key |-> 0,
                           addr |-> 1, peers |-> <<>>],
                   socks |-> [on |-> FALSE, port |-> p, public |-> 0, pw |-> 0]]
    BY <1>a
  <1>2. /\ IsTunnel(cfg.wg) /\ ~cfg.wg.on
        /\ IsProxy(cfg.socks) /\ ~cfg.socks.on
        /\ cfg = [host |-> cfg.host, wg |-> cfg.wg, socks |-> cfg.socks]
    <2>1. IsTunnel(cfg.wg) /\ ~cfg.wg.on
      <3>1. cfg.wg = [on |-> FALSE, iface |-> i, port |-> p, public |-> 0, key |-> 0,
                      addr |-> 1, peers |-> <<>>]
        BY <1>b
      <3>2. \A n \in DOMAIN cfg.wg.peers : IsPeer(cfg.wg.peers[n])
        BY <3>1
      <3> QED BY <1>1, <3>1, <3>2 DEF IsTunnel
    <2>2. IsProxy(cfg.socks) /\ ~cfg.socks.on
      BY <1>b DEF IsProxy
    <2> QED BY <1>b, <2>1, <2>2
  <1>3. Shaped
    BY <1>2 DEF Init, Shaped, IsDocument, IsKernel, IsUnit, Absent
  <1>4. InStep
    BY <1>2, Lines DEF Init, InStep, Wanted, Absent
  <1> QED BY <1>3, <1>4 DEF Init, IInv, Dialled

LEMMA Kept ==
    ASSUME IInv, [Next]_vars
    PROVE  IInv'
  <1> USE DEF IInv
  <1>1. ASSUME NEW n \in Names, NEW yes \in BOOLEAN, NEW f \in Faults,
               putPeer(n, yes, f) \/ rekeyPeer(n, yes, f) \/ reissuePeer(n, yes, f) \/ deletePeer(n, yes, f)
        PROVE  IInv'
    BY <1>1, putPeerEdits, TunnelEditKeeps
  <1>2. ASSUME NEW n \in Names, NEW to \in Names, patchPeer(n, to)
        PROVE  IInv'
    BY <1>2, patchPeerEdits, TunnelEditKeeps
  <1>3. ASSUME NEW b \in Bodies, NEW yes \in BOOLEAN, NEW f \in Faults, putWireGuardConfig(b, yes, f)
        PROVE  IInv'
    BY <1>3, putConfigEdits, TunnelEditKeeps
  <1>4. ASSUME NEW f \in Faults, postApply(f)
        PROVE  IInv'
    BY <1>4, postApplyEdits, TunnelEditKeeps
  <1>5. ASSUME NEW h, NEW yes, patchConfig(h, yes)
        PROVE  IInv'
    BY <1>5, patchConfigKeeps
  <1>6. ASSUME NEW b \in SocksBodies, NEW yes \in BOOLEAN, NEW f, patchSocksConfig(b, yes, f)
        PROVE  IInv'
    BY <1>6, patchSocksEdits, mutateProxyKeeps
  <1>7. ASSUME NEW f, postSocksApply(f)
        PROVE  IInv'
    BY <1>7, mutateProxyKeeps DEF postSocksApply, Shaped, IsDocument
  <1>8. CASE getSocksLink
    BY <1>8, getSocksLinkKeeps
  <1>9. CASE Keep
    BY <1>9 DEF Keep, Shaped, InStep, Dialled
  <1>10. CASE Recover
    BY <1>10, RecoverKeeps
  <1>11. ASSUME NEW b \in BOOLEAN, startRemote(b)
         PROVE  IInv'
    BY <1>11, startRemoteKeeps
  <1>12. CASE UNCHANGED vars
    BY <1>12 DEF vars, Shaped, InStep, Dialled
  <1> HIDE DEF IInv
  <1> QED
    BY <1>1, <1>2, <1>3, <1>4, <1>5, <1>6, <1>7, <1>8, <1>9, <1>10, <1>11, <1>12 DEF Next

(* Every interface is either known to be half programmed, or somebody      *)
(* else's, or holds exactly what the document says of it.                  *)
THEOREM TunnelInStep == Spec => []IInv
  <1>1. Init => IInv
    BY StartsInStep
  <1>2. IInv /\ [Next]_vars => IInv'
    BY Kept
  <1> QED BY <1>1, <1>2, PTL DEF Spec

(* A device that was removed is out: once the last change of the tunnel    *)
(* went through, the interface accepts the stored devices and no other,    *)
(* after any failed apply, undone trial, rename or reboot (diffLines,      *)
(* wg_plan.go:211; Recover, wg_apply.go:119).                              *)
THEOREM RemovedIsOut == Spec => []OnlyStoredDevices
  <1>1. IInv => OnlyStoredDevices
    BY DEF IInv, Shaped, IsDocument, IsTunnel, InStep, Wanted, OnlyStoredDevices, Foreign
  <1> QED BY <1>1, TunnelInStep, PTL

(***************************************************************************)
(* Nobody is locked out.                                                   *)
(***************************************************************************)
(* What a plan that is not disruptive leaves alone: the box's key, every   *)
(* device at its address, and either the port or the address dialled.      *)
LEMMA NotDisruptive ==
    ASSUME NEW c, NEW was, NEW before, NEW after,
           classify(c, was, before, after) # "disruptive"
    PROVE  /\ before # {} => after # {}
           /\ \A l \in before : l[1] = "public-key" => l \in after
           /\ \A l \in before : l[1] = "peer" => l \in after
           /\ \A l \in before : l[1] = "listen-port" /\ l \notin after /\ Peers(after) # {} =>
                DialAddress(was, was.wg) = DialAddress(c, c.wg)
  <1> DEFINE ch == diffLines(before, after)
             redial == /\ changedLine(ch, "listen-port") /\ Peers(after) # {}
                       /\ DialAddress(was, was.wg) # DialAddress(c, c.wg)
  <1>1. ch = {} \/ /\ ~(after = {} /\ before # {})
                   /\ gonePeers(before, after) = {} /\ movedPeers(before, after) = {}
                   /\ ~changedLine(ch, "public-key") /\ ~redial
    BY DEF classify
  <1>2. CASE ch = {}
    <2>1. before = after
      BY <1>2 DEF diffLines
    <2> QED BY <2>1
  <1>3. CASE ch # {}
    <2>1. before # {} => after # {}
      BY <1>1, <1>3
    <2>2. ASSUME NEW l \in before, l[1] = "public-key" PROVE l \in after
      BY <1>1, <1>3, <2>2 DEF changedLine, diffLines
    <2>3. ASSUME NEW l \in before, l[1] = "peer" PROVE l \in after
      <3>1. l \in Peers(before)
        BY <2>3 DEF Peers
      <3>2. \E k \in Peers(after) : Key(k) = Key(l)
        BY <1>1, <1>3, <3>1 DEF gonePeers
      <3> QED BY <1>1, <1>3, <3>1, <3>2 DEF movedPeers
    <2>4. ASSUME NEW l \in before, l[1] = "listen-port", l \notin after, Peers(after) # {}
          PROVE  DialAddress(was, was.wg) = DialAddress(c, c.wg)
      <3>1. changedLine(ch, "listen-port")
        BY <2>4 DEF changedLine, diffLines
      <3> QED BY <1>1, <1>3, <2>4, <3>1
    <2> QED BY <2>1, <2>2, <2>3, <2>4
  <1> QED BY <1>2, <1>3

LEMMA SameDial ==
    ASSUME NEW c, NEW d, NEW s, NEW t, c.host = d.host, s.public = t.public, s.port = t.port
    PROVE  DialAddress(c, s) = DialAddress(d, t)
  BY DEF DialAddress, portOr

(* A request that changes the tunnel.                                      *)
LEMMA TunnelEditSpares ==
    ASSUME IInv, NEW w, NEW confirm, NEW files, NEW failed,
           TunnelEdit(w, confirm, files, failed),
           ~ask'.confirm, ask'.clean, ~OnlyOutside, ~FoundDone,
           NEW g \in given, Works(g)
    PROVE  Works(g)'
  <1> DEFINE old == kern[cfg.wg.iface].lines
             new == Render(w)
  <1>1. /\ Mutate(w, confirm, files, failed) /\ IsTunnel(w) /\ Shaped
        /\ cfg.wg.on /\ w.iface # cfg.wg.iface => Renames(w)
    BY DEF TunnelEdit, IInv
  <1>2. /\ proxy' = proxy
        /\ ~(Foreign(w.iface) /\ w.on)
        /\ classify([cfg EXCEPT !.wg = w], cfg, kern[w.iface].lines, new) = "disruptive" => confirm
        /\ ask' = [confirm |-> confirm, clean |-> ask'.clean]
    BY <1>1 DEF Mutate, Asked
  <1>3. /\ cfg' = [host |-> cfg.host, wg |-> w, socks |-> cfg.socks]
        /\ cfg' = [cfg EXCEPT !.wg = w]
        /\ ~Foreign(w.iface) => kern'[w.iface].lines = new
        /\ ~Foreign(w.iface) /\ w.on /\ kern[w.iface].lines # new => kern'[w.iface].up
        /\ kern[w.iface].lines = new => kern' = kern
    <2>1. cfg' = [cfg EXCEPT !.wg = w]
      BY <1>1 DEF Mutate
    <2> QED BY <1>1, <2>1, MutatedKernel
  <1>4. classify(cfg', cfg, kern[w.iface].lines, new) # "disruptive"
    BY <1>2, <1>3
  <1>5. CASE g.kind # "wg"
    <2>1. Honoured(g)'
      BY <1>3, <1>5, SameDial DEF Works, Honoured
    <2>2. Admitted(g)'
      BY <1>2, <1>3, <1>5 DEF Works, Admitted
    <2> QED BY <2>1, <2>2 DEF Works
  <1>6. CASE g.kind = "wg"
    <2>1. /\ cfg.wg.on /\ g.server = cfg.wg.key /\ g.dial = DialAddress(cfg, cfg.wg)
          /\ \E n \in DOMAIN cfg.wg.peers : cfg.wg.peers[n] = [key |-> g.key, addr |-> g.addr]
          /\ kern[cfg.wg.iface].up
          /\ <<"public-key", g.server>> \in old /\ <<"peer", g.key, g.addr>> \in old
          /\ <<"listen-port", cfg.wg.port>> \in old
      BY <1>6 DEF Works, Honoured, Admitted
    <2>2. SUFFICES /\ w.on /\ g.server = w.key /\ g.dial = DialAddress(cfg', w)
                   /\ \E n \in DOMAIN w.peers : w.peers[n] = [key |-> g.key, addr |-> g.addr]
                   /\ kern'[w.iface].up
      <3>1. {<<"public-key", g.server>>, <<"peer", g.key, g.addr>>, <<"listen-port", w.port>>}
              \subseteq new
        <4>1. PICK n \in DOMAIN w.peers : w.peers[n] = [key |-> g.key, addr |-> g.addr]
          BY <2>2
        <4>2. w.peers[n].key = g.key /\ w.peers[n].addr = g.addr
          BY <4>1
        <4>3. <<"peer", g.key, g.addr>> \in new
          BY <2>2, <4>2, PeerLine
        <4>4. <<"public-key", g.server>> \in new /\ <<"listen-port", w.port>> \in new
          BY <2>2, Lines
        <4> QED BY <4>3, <4>4
      <3>2. kern'[w.iface].lines = new
        BY <1>2, <1>3, <2>2
      <3> QED BY <1>3, <1>6, <2>2, <3>1, <3>2 DEF Works, Honoured, Admitted
    <2>3. CASE w.iface = cfg.wg.iface
      <3>1. /\ old # {} => new # {}
            /\ \A l \in old : l[1] = "public-key" => l \in new
            /\ \A l \in old : l[1] = "peer" => l \in new
            /\ \A l \in old : l[1] = "listen-port" /\ l \notin new /\ Peers(new) # {} =>
                 DialAddress(cfg, cfg.wg) = DialAddress(cfg', cfg'.wg)
        BY <1>4, <2>3, NotDisruptive
      <3> HIDE DEF old
      <3>2. <<"public-key", g.server>> \in new /\ <<"peer", g.key, g.addr>> \in new
        BY <2>1, <3>1
      <3>3. w.on /\ g.server = w.key
        BY <3>2, Lines
      <3>4. \E n \in DOMAIN w.peers : w.peers[n] = [key |-> g.key, addr |-> g.addr]
        <4>1. PICK n \in DOMAIN w.peers : w.peers[n].key = g.key /\ w.peers[n].addr = g.addr
          BY <3>2, PeerLine
        <4>2. IsPeer(w.peers[n])
          BY <1>1 DEF IsTunnel
        <4> QED BY <4>1, <4>2 DEF IsPeer
      <3>5. g.dial = DialAddress(cfg', w)
        <4>1. CASE <<"listen-port", cfg.wg.port>> \in new
          <5>1. w.port = cfg.wg.port
            BY <4>1, Lines
          <5>2. w.public = cfg.wg.public
            BY <1>3, <5>1 DEF OnlyOutside
          <5> QED BY <1>3, <2>1, <5>1, <5>2, SameDial
        <4>2. CASE <<"listen-port", cfg.wg.port>> \notin new
          <5>1. Peers(new) # {}
            BY <3>2 DEF Peers
          <5>2. DialAddress(cfg, cfg.wg) = DialAddress(cfg', cfg'.wg)
            BY <2>1, <3>1, <4>2, <5>1
          <5> QED BY <1>3, <2>1, <5>2
        <4> QED BY <4>1, <4>2
      <3>6. kern'[w.iface].up
        BY <1>2, <1>3, <2>1, <2>3, <3>3
      <3> QED BY <3>3, <3>4, <3>5, <3>6
    <2>4. CASE w.iface # cfg.wg.iface
      <3>1. /\ w.on = cfg.wg.on /\ w.key = cfg.wg.key /\ w.port = cfg.wg.port
            /\ w.public = cfg.wg.public /\ w.peers = cfg.wg.peers
        BY <1>1, <2>1, <2>4 DEF Renames, IsTunnel
      <3>2. g.dial = DialAddress(cfg', w)
        BY <1>3, <2>1, <3>1, SameDial
      <3>3. kern'[w.iface].up
        BY <1>2, <1>3, <2>1, <2>4, <3>1 DEF FoundDone
      <3> QED BY <2>1, <3>1, <3>2, <3>3
    <2> QED BY <2>3, <2>4
  <1> QED BY <1>5, <1>6

(* A change of the address both ways in are dialled at: whoever works is   *)
(* known to the document, so the change is held.                           *)
LEMMA patchConfigSpares ==
    ASSUME IInv, NEW h, NEW confirm, patchConfig(h, confirm), ~ask'.confirm,
           NEW g \in given, Works(g)
    PROVE  Works(g)'
  <1>1. /\ cfg' = [host |-> h, wg |-> cfg.wg, socks |-> cfg.socks]
        /\ UNCHANGED <<kern, proxy>> /\ ask' = [confirm |-> confirm, clean |-> TRUE]
        /\ classifyEndpoint(cfg, [cfg EXCEPT !.host = h]) = "disruptive" => confirm
    BY patchConfigKeeps DEF patchConfig, Asked
  <1>2. cfg' = [cfg EXCEPT !.host = h]
    BY DEF patchConfig
  <1>3. g.dial # <<>> /\ (g.kind = "wg" => DOMAIN cfg.wg.peers # {})
        /\ (g.kind # "wg" => cfg.socks.on /\ cfg.socks.pw # 0)
    BY DEF IInv, Dialled, Shaped, IsDocument, Works, Honoured
  <1>4. cfg.host # NoHost
    BY <1>3 DEF Works, Honoured, DialAddress
  <1>5. cfg'.host = cfg.host
    BY <1>1, <1>2, <1>3, <1>4 DEF classifyEndpoint
  <1>6. Honoured(g)'
    BY <1>1, <1>5, SameDial DEF Works, Honoured
  <1>7. Admitted(g)'
    BY <1>1 DEF Works, Admitted
  <1> QED BY <1>6, <1>7 DEF Works

(* A request that changes the proxy.  The plan is empty, and then the file *)
(* already is what the document says, or it was compared with every link.  *)
LEMMA mutateProxySpares ==
    ASSUME IInv, NEW s, IsProxy(s), NEW confirm, NEW failed,
           mutateProxy(s, confirm, failed),
           ~ask'.confirm, ask'.clean, ~OnlyOutside, ~FoundDone,
           NEW g \in given, Works(g)
    PROVE  Works(g)'
  <1> DEFINE c == [cfg EXCEPT !.socks = s]
             p == BuildSocksPlan(c)
  <1>1. /\ cfg' = [host |-> cfg.host, wg |-> cfg.wg, socks |-> s]
        /\ cfg' = c /\ kern' = kern
        /\ classifySocks(c, cfg, p) = "disruptive" => confirm
        /\ proxy' = After(c, p, failed)
        /\ ask' = [confirm |-> confirm, clean |-> failed = ""]
    BY mutateProxyKeeps DEF mutateProxy, Asked
  <1>2. failed = "" /\ ~confirm
    BY <1>1
  <1>d. /\ cfg' = [host |-> cfg.host, wg |-> cfg.wg, socks |-> s]
        /\ cfg' = c /\ kern' = kern
    BY <1>1
  <1>a. /\ p.changed <=> RenderSocks(c.socks) # proxy.file
        /\ p.action = proxyAction(c.socks.on, proxy.running.on, RenderSocks(c.socks) # proxy.file)
    <2> HIDE DEF c
    <2> QED BY DEF BuildSocksPlan
  <1>b. c.socks = s /\ c.host = cfg.host
    BY <1>d
  <1> HIDE DEF c, p
  <1>c. /\ p.action = "none" => proxy'.running = proxy.running
        /\ ~EmptyPlan(p) /\ p.action # "none" => proxy'.running = RenderSocks(s)
    BY <1>1, <1>2, <1>b, AfterApply DEF IInv, Shaped
  <1>3. CASE g.kind = "wg"
    <2>0. DialAddress(cfg', cfg'.wg) = DialAddress(cfg, cfg.wg)
      BY <1>d, SameDial
    <2>1. Honoured(g)'
      BY <1>d, <1>3, <2>0 DEF Works, Honoured
    <2>2. Admitted(g)'
      BY <1>d, <1>3 DEF Works, Admitted
    <2> QED BY <2>1, <2>2 DEF Works
  <1>4. CASE g.kind # "wg"
    <2>1. /\ cfg.socks.on /\ g.pw = cfg.socks.pw /\ g.dial = DialAddress(cfg, cfg.socks)
          /\ g.dial # <<>> /\ cfg.socks.pw # 0
          /\ proxy.running = socksConf(cfg.socks)
      BY <1>4 DEF IInv, Dialled, Shaped, IsDocument, Works, Honoured, Admitted
    <2>2. SUFFICES s.on /\ g.pw = s.pw /\ g.dial = DialAddress(cfg', s)
                   /\ proxy'.running = socksConf(s)
      BY <1>d, <1>4 DEF Works, Honoured, Admitted
    <2>3. proxy.running.on
      BY <2>1 DEF socksConf
    <2>5. CASE RenderSocks(s) = proxy.file /\ p.action = "none"
      <3>1. RenderSocks(s) = socksConf(cfg.socks)
        <4>1. proxy.file = RenderSocks(cfg.socks)
          BY <1>d, <2>5 DEF FoundDone
        <4> QED BY <2>1, <2>5, <4>1 DEF RenderSocks
      <3>2. s.on /\ s.port = cfg.socks.port /\ s.pw = cfg.socks.pw
        BY <3>1 DEF RenderSocks, socksConf, NoFile
      <3>3. s.public = cfg.socks.public
        BY <1>d, <3>2 DEF OnlyOutside
      <3>4. DialAddress(cfg, cfg.socks) = DialAddress(cfg', s)
        BY <1>d, <3>2, <3>3, SameDial
      <3> QED BY <1>c, <2>1, <2>5, <3>2, <3>4 DEF socksConf
    <2>6. CASE ~(RenderSocks(s) = proxy.file /\ p.action = "none")
      <3>1. ~EmptyPlan(p)
        BY <1>a, <1>b, <2>6 DEF EmptyPlan
      <3>2. /\ s.pw = cfg.socks.pw /\ p.action # "stop"
            /\ SocksClientURL(cfg) = <<>> \/ SocksClientURL(c) = <<>>
                 \/ SocksClientURL(cfg) = SocksClientURL(c)
        BY <1>1, <1>2, <1>b, <2>1, <3>1 DEF classifySocks
      <3>3. s.on
        BY <1>a, <1>b, <2>3, <3>2 DEF proxyAction, IsProxy
      <3>4. g.dial = DialAddress(cfg', s)
        <4>1. SocksClientURL(cfg) = <<cfg.socks.pw, g.dial>>
          BY <2>1 DEF SocksClientURL
        <4>2. DialAddress(c, s) # <<>>
          BY <1>b, <2>1 DEF DialAddress
        <4>3. SocksClientURL(c) = <<s.pw, DialAddress(c, s)>>
          BY <1>b, <2>1, <3>2, <4>2 DEF SocksClientURL
        <4> QED BY <1>d, <3>2, <4>1, <4>3
      <3>5. p.action # "none"
        BY <1>a, <1>b, <2>3, <2>6, <3>3 DEF proxyAction
      <3> QED BY <1>c, <2>1, <3>1, <3>2, <3>3, <3>4, <3>5 DEF RenderSocks
    <2> QED BY <2>5, <2>6
  <1> QED BY <1>3, <1>4

(* The steps that are no edit: reading a link changes nothing, and the     *)
(* others are not unconfirmed requests.                                    *)
LEMMA OthersSpare ==
    ASSUME ~ask'.confirm, ask'.clean, NEW g, Works(g),
           \/ getSocksLink \/ Keep \/ Recover \/ UNCHANGED vars
           \/ \E b \in BOOLEAN : startRemote(b)
    PROVE  Works(g)'
  <1>1. ~Keep /\ ~Recover /\ ~\E b \in BOOLEAN : startRemote(b)
    <2>1. Keep \/ Recover => ask' = [confirm |-> TRUE, clean |-> TRUE]
      BY DEF Keep, Recover, Asked
    <2>2. ASSUME NEW b \in BOOLEAN, startRemote(b)
          PROVE  ask' = [confirm |-> FALSE, clean |-> FALSE]
      BY <2>2 DEF startRemote, Asked
    <2> QED BY <2>1, <2>2
  <1>2. UNCHANGED <<cfg, kern, proxy>>
    BY <1>1 DEF getSocksLink, vars
  <1> QED BY <1>2 DEF Works, Honoured, Admitted

LEMMA EachSpares ==
    ASSUME IInv, [Next]_vars, ~ask'.confirm, ask'.clean, ~OnlyOutside, ~FoundDone,
           NEW g \in given, Works(g)
    PROVE  Works(g)'
  <1>s. Shaped
    BY DEF IInv
  <1>1. ASSUME NEW n \in Names, NEW yes \in BOOLEAN, NEW f \in Faults,
               putPeer(n, yes, f) \/ rekeyPeer(n, yes, f) \/ reissuePeer(n, yes, f) \/ deletePeer(n, yes, f)
        PROVE  Works(g)'
    BY <1>1, <1>s, putPeerEdits, TunnelEditSpares
  <1>2. ASSUME NEW n \in Names, NEW to \in Names, patchPeer(n, to)
        PROVE  Works(g)'
    BY <1>2, <1>s, patchPeerEdits, TunnelEditSpares
  <1>3. ASSUME NEW b \in Bodies, NEW yes \in BOOLEAN, NEW f \in Faults, putWireGuardConfig(b, yes, f)
        PROVE  Works(g)'
    BY <1>3, <1>s, putConfigEdits, TunnelEditSpares
  <1>4. ASSUME NEW f \in Faults, postApply(f)
        PROVE  Works(g)'
    BY <1>4, <1>s, postApplyEdits, TunnelEditSpares
  <1>5. ASSUME NEW h, NEW yes, patchConfig(h, yes)
        PROVE  Works(g)'
    BY <1>5, patchConfigSpares
  <1>6. ASSUME NEW b \in SocksBodies, NEW yes \in BOOLEAN, NEW f, patchSocksConfig(b, yes, f)
        PROVE  Works(g)'
    BY <1>6, patchSocksEdits, mutateProxySpares
  <1>7. ASSUME NEW f, postSocksApply(f)
        PROVE  Works(g)'
    BY <1>7, <1>s, mutateProxySpares DEF postSocksApply, Shaped, IsDocument
  <1>8. CASE \/ getSocksLink \/ Keep \/ Recover \/ UNCHANGED vars
             \/ \E b \in BOOLEAN : startRemote(b)
    BY <1>8, OthersSpare
  <1> QED BY <1>1, <1>2, <1>3, <1>4, <1>5, <1>6, <1>7, <1>8 DEF Next

(* A request that nobody confirmed leaves every file and link that worked  *)
(* working, whatever failed before it: classify and classifySocks see      *)
(* every way to break one but a public port moving by itself and a change  *)
(* that a failed apply left done (wg_plan.go:256, socks_plan.go:77).       *)
THEOREM UnconfirmedSparesAll == Spec => NobodyLockedOut
  <1>1. IInv /\ [Next]_vars => [SparesAll]_vars
    BY EachSpares DEF SparesAll
  <1> QED BY <1>1, TunnelInStep, PTL DEF Spec, NobodyLockedOut

=============================================================================
