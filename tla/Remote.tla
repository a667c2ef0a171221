------------------------------- MODULE Remote -------------------------------
(***************************************************************************)
(* Remote access: the WireGuard tunnel and the SOCKS5 proxy, what an edit  *)
(* of them does to the box, and what it does to the configuration files    *)
(* and links that devices outside already hold.                            *)
(*                                                                         *)
(* The tunnel is kernel state, told apart by canonical lines; the proxy is *)
(* a file, a unit and what the running process has read.  Every handler    *)
(* holds the apply lock from its load to its last step, so it is one       *)
(* action here; what may happen inside it is a failure of one of its       *)
(* steps.  Keys, passwords and addresses are numbers; 0 is "none".         *)
(***************************************************************************)
EXTENDS Integers, FiniteSetsExt

CONSTANTS
    Names,      \* names a device may go by
    Hosts,      \* addresses the box may be dialled at; NoHost is not one
    Ports,      \* ports to listen on, or to be reached at from outside
    Ifaces,     \* names the tunnel's interface may have
    Taken,      \* those of them that are something other than WireGuard
    Tail,       \* the host addresses of the dial-in subnet are 1..Tail
    MaxKeys,    \* bound: keys and passwords generated in one behaviour
    MaxEdits,   \* bound: requests in one behaviour
    MaxFaults   \* bound: failed steps and reboots

(* The mark `behind' has for the proxy is no interface, and some name is   *)
(* free for the tunnel.                                                    *)
ASSUME InterfacesAssumption == "socks" \notin Ifaces /\ Ifaces \ Taken # {}

VARIABLES
    cfg,        \* the stored document: [host, wg, socks]
    kern,       \* interface -> its [lines, up]; no lines: it is absent
    proxy,      \* [file, running, boot]: what is on disk, what the process read
    trial,      \* the document a pending connectivity trial goes back to, or NoTrial
    given,      \* files and links that devices hold (ghost)
    ask,        \* the last step: [confirm, clean] (ghost)
    behind,     \* interfaces, and "socks", that the last apply did not finish with (ghost)
    keys, edits, faults

vars == <<cfg, kern, proxy, trial, given, ask, behind, keys, edits, faults>>

NoHost == "-"
NoTrial == [none |-> TRUE]
NoFile == [on |-> FALSE]

(***************************************************************************)
(* The document.                                                           *)
(***************************************************************************)
RouterAddr(w) == w.addr
Next1(w) == {a \in 1..Tail : a # RouterAddr(w) /\ \A n \in DOMAIN w.peers : w.peers[n].addr # a}
NextAddress(w) == IF Next1(w) = {} THEN 0 ELSE Min(Next1(w))

portOr(public, listen) == IF public # 0 THEN public ELSE listen
DialAddress(c, s) == IF c.host = NoHost THEN <<>> ELSE <<c.host, portOr(s.public, s.port)>>

SetPeer(w, n, p) == [w EXCEPT !.peers = [x \in DOMAIN @ \cup {n} |-> IF x = n THEN p ELSE @[x]]]
RemovePeer(w, n) == [w EXCEPT !.peers = [x \in DOMAIN @ \ {n} |-> @[x]]]
RenamePeer(w, n, to) == SetPeer(RemovePeer(w, n), to, w.peers[n])
CanRename(w, n, to) == n \in DOMAIN w.peers /\ to # "" /\ (to = n \/ to \notin DOMAIN w.peers)

(* A redacted key in a body stands for the stored one.                     *)
preserveKey(w, current) == IF w.key = -1 THEN [w EXCEPT !.key = current.key] ELSE w

(* The key the box gets when it needs one and has none.                    *)
GenerateFor(w, fresh) ==
    IF (w.on \/ DOMAIN w.peers # {}) /\ w.key = 0 THEN [w EXCEPT !.key = fresh] ELSE w
WithGeneratedPassword(s, fresh) == IF s.on /\ s.pw = 0 THEN [s EXCEPT !.pw = fresh] ELSE s

validatePeerAddress(w, n) ==
    LET p == w.peers[n] IN
    /\ p.addr \in 1..Tail /\ p.addr # RouterAddr(w)
    /\ \A m \in DOMAIN w.peers \ {n} : w.peers[m].addr # p.addr
validatePeers(w) ==
    \A n \in DOMAIN w.peers :
        /\ w.peers[n].key # 0
        /\ \A m \in DOMAIN w.peers \ {n} : w.peers[m].key # w.peers[n].key
        /\ validatePeerAddress(w, n)
ValidateWireGuard(w) == w.addr \in 1..Tail /\ (w.on => w.key # 0) /\ validatePeers(w)
ValidateSocks(s) == s.on => s.pw # 0

(***************************************************************************)
(* The tunnel: what a document renders to, and the plan.                   *)
(***************************************************************************)
Render(w) ==
    IF ~w.on THEN {}
    ELSE {<<"interface", w.iface>>, <<"listen-port", w.port>>, <<"public-key", w.key>>,
          <<"address", RouterAddr(w)>>}
         \cup {<<"peer", w.peers[n].key, w.peers[n].addr>> : n \in DOMAIN w.peers}

Absent == [lines |-> {}, up |-> FALSE]
Foreign(i) == i \in Taken
Present(i) == Foreign(i) \/ kern[i].lines # {}

Key(line) == <<line[1], line[2]>>
Peers(lines) == {l \in lines : l[1] = "peer"}

(* Mutant of diffLines: what the document no longer has is overlooked.     *)
OnlyAdded(before, after) == after \ before

diffLines(before, after) == (after \ before) \cup (before \ after)
changedLine(changes, kind) == \E l \in changes : l[1] = kind

(* Devices the kernel accepts that lose access, and devices that keep      *)
(* their key while their address moves.                                    *)
gonePeers(before, after) == {l \in Peers(before) : \A k \in Peers(after) : Key(k) # Key(l)}
movedPeers(before, after) == {l \in Peers(before) \ after : \E k \in Peers(after) : Key(k) = Key(l)}

(* Mutant of classify: a listen port that moves is only a restart.         *)
PortIsRestart(c, was, before, after) ==
    LET ch == diffLines(before, after) IN
    IF ch = {} THEN "none"
    ELSE IF \/ after = {} /\ before # {}
            \/ gonePeers(before, after) # {}
            \/ movedPeers(before, after) # {}
            \/ changedLine(ch, "public-key")
         THEN "disruptive"
    ELSE IF changedLine(ch, "address") \/ changedLine(ch, "listen-port") THEN "restart"
    ELSE "reload"

(* The impact of moving the kernel from one set of lines to another.       *)
classify(c, was, before, after) ==
    LET ch == diffLines(before, after)
        redial == /\ changedLine(ch, "listen-port") /\ Peers(after) # {}
                  /\ DialAddress(was, was.wg) # DialAddress(c, c.wg)
    IN  IF ch = {} THEN "none"
        ELSE IF \/ after = {} /\ before # {}
                \/ gonePeers(before, after) # {}
                \/ movedPeers(before, after) # {}
                \/ changedLine(ch, "public-key")
                \/ redial
             THEN "disruptive"
        ELSE IF changedLine(ch, "address") \/ changedLine(ch, "listen-port") THEN "restart"
        ELSE "reload"

(***************************************************************************)
(* The proxy: a file, a unit, and a process that reads the file once.      *)
(***************************************************************************)
socksConf(s) == [on |-> TRUE, port |-> s.port, pw |-> s.pw]
RenderSocks(s) == IF s.on THEN socksConf(s) ELSE NoFile

proxyAction(on, running, changed) ==
    IF on /\ ~running THEN "start"
    ELSE IF ~on /\ running THEN "stop"
    ELSE IF on /\ changed THEN "restart" ELSE "none"

SocksClientURL(c) ==
    IF c.socks.pw = 0 \/ DialAddress(c, c.socks) = <<>> THEN <<>>
    ELSE <<c.socks.pw, DialAddress(c, c.socks)>>

BuildSocksPlan(c) ==
    [changed |-> RenderSocks(c.socks) # proxy.file,
     action  |-> proxyAction(c.socks.on, proxy.running.on, RenderSocks(c.socks) # proxy.file),
     enable  |-> c.socks.on # proxy.boot]
EmptyPlan(p) == ~p.changed /\ p.action = "none" /\ ~p.enable

classifySocks(c, was, p) ==
    LET issued == was.socks.pw # 0 /\ was.socks.on
        old == SocksClientURL(was)  new == SocksClientURL(c)
    IN  IF EmptyPlan(p) THEN "none"
        ELSE IF \/ issued /\ was.socks.pw # c.socks.pw
                \/ issued /\ old # <<>> /\ new # <<>> /\ old # new
                \/ p.action = "stop"
             THEN "disruptive"
        ELSE IF p.changed THEN "restart" ELSE "none"

(* What has happened by the step that failed; "" is no failure.            *)
After(c, p, failed) ==
    LET want == RenderSocks(c.socks)
        wrote == [proxy EXCEPT !.file = want]
        booted == [wrote EXCEPT !.boot = c.socks.on]
    IN  IF EmptyPlan(p) THEN proxy
        ELSE CASE failed = "write" -> proxy
               [] failed \in {"check", "boot"} -> wrote
               [] failed = "act" -> booted
               [] OTHER -> IF p.action = "none" THEN booted
                           ELSE [booted EXCEPT !.running = want]

(***************************************************************************)
(* Requests.                                                               *)
(***************************************************************************)
Edited == edits < MaxEdits /\ edits' = edits + 1
Fault(yes) == /\ yes => faults < MaxFaults
              /\ faults' = IF yes THEN faults + 1 ELSE faults
Fresh == keys + 1
Drew(n) == keys + n <= MaxKeys /\ keys' = keys + n
Asked(confirm, clean) == ask' = [confirm |-> confirm, clean |-> clean]
Settled(which, yes) == behind' = IF yes THEN behind \ {which} ELSE behind \cup {which}
(* A tunnel that gets another name: the interface that had the old one is  *)
(* not looked at again.                                                    *)
Renamed(i) == {cfg.wg.iface} \ {i}

(* ApplyPlanned's last question before it touches the kernel: an interface *)
(* that has to be created must find its port free.                         *)
PortInUse(w) == w.on /\ ~Present(w.iface) /\ \E i \in Ifaces : <<"listen-port", w.port>> \in kern[i].lines

(* The kernel after Apply: addresses, then the peers, then up; each step   *)
(* runs whether or not the one before it failed.                           *)
Programmed(w, failed) ==
    LET old == kern[w.iface]
        new == Render(w)
        part(s) == {l \in s : l[1] = "address"}
        lines == (IF "addr" \in failed THEN part(old.lines) ELSE part(new))
                 \cup (IF "conf" \in failed THEN old.lines \ part(old.lines) ELSE new \ part(new))
                 \cup {<<"interface", w.iface>>}
    IN  IF "link" \in failed \/ Foreign(w.iface) THEN old
        ELSE IF ~w.on THEN Absent
        ELSE [lines |-> lines, up |-> old.up \/ "up" \notin failed]

(* mutateWith, from the edited tunnel on: what is held changes nothing.    *)
Mutate(w, confirm, files, failed) ==
    LET c == [cfg EXCEPT !.wg = w]
        changes == diffLines(kern[w.iface].lines, Render(w))
        impact == classify(c, cfg, kern[w.iface].lines, Render(w))
        refused == changes # {} /\ PortInUse(w)
    IN  /\ ValidateWireGuard(w)
        /\ ~(Foreign(w.iface) /\ w.on)
        /\ impact = "disruptive" => confirm
        /\ failed # {} => changes # {} /\ ~refused
        /\ Fault(failed # {})
        /\ cfg' = c
        /\ kern' = IF changes = {} \/ refused THEN kern ELSE [kern EXCEPT ![w.iface] = Programmed(w, failed)]
        /\ given' = given \cup files
        /\ trial' = IF impact = "disruptive" /\ trial = NoTrial THEN cfg ELSE trial
        /\ Asked(confirm, failed = {} /\ ~refused)
        /\ behind' = (behind \cup Renamed(w.iface) \cup {w.iface})
                     \ (IF failed = {} /\ ~refused THEN {w.iface} ELSE {})
        /\ UNCHANGED proxy

Faults == {{}, {"link"}, {"conf"}, {"up"}, {"addr", "conf"}}

(* The file a device is given: its own key and address, the box's key, and *)
(* where to dial.                                                          *)
ClientConfig(w, p) == [kind |-> "wg", key |-> p.key, addr |-> p.addr, server |-> w.key,
                       dial |-> DialAddress(cfg, w)]

(* putPeer, for a device there is none of: the next address, a fresh key,  *)
(* and the only sight of its file, which needs the box's key and address.  *)
putPeer(n, confirm, failed) ==
    LET p == [key |-> Fresh, addr |-> NextAddress(cfg.wg)]
        w == SetPeer(cfg.wg, n, p)
    IN  /\ Edited /\ Drew(1)
        /\ n \notin DOMAIN cfg.wg.peers /\ p.addr # 0
        /\ cfg.wg.key # 0 /\ cfg.host # NoHost
        /\ Mutate(w, confirm, {ClientConfig(w, p)}, failed)

(* putPeer, for a device there is one of: it may bring a key of its own.   *)
rekeyPeer(n, confirm, failed) ==
    /\ Edited /\ Drew(1) /\ n \in DOMAIN cfg.wg.peers
    /\ Mutate(SetPeer(cfg.wg, n, [cfg.wg.peers[n] EXCEPT !.key = Fresh]), confirm, {}, failed)

(* reissuePeer: the same device with another key, and its new file.        *)
reissuePeer(n, confirm, failed) ==
    LET p == [cfg.wg.peers[n] EXCEPT !.key = Fresh]
        w == SetPeer(cfg.wg, n, p)
    IN  /\ Edited /\ Drew(1)
        /\ n \in DOMAIN cfg.wg.peers /\ cfg.wg.key # 0 /\ cfg.host # NoHost
        /\ Mutate(w, confirm, {ClientConfig(w, p)}, failed)

deletePeer(n, confirm, failed) ==
    /\ Edited /\ Drew(0) /\ n \in DOMAIN cfg.wg.peers
    /\ Mutate(RemovePeer(cfg.wg, n), confirm, {}, failed)

patchPeer(n, to) ==
    /\ Edited /\ Drew(0) /\ CanRename(cfg.wg, n, to) /\ n # to
    /\ Mutate(RenamePeer(cfg.wg, n, to), FALSE, {}, {})

(* putWireGuardConfig and patchWireGuardConfig: the whole document or some *)
(* of its fields, with the key redacted (-1) or left out (0).              *)
putWireGuardConfig(body, confirm, failed) ==
    LET kept == preserveKey(body, cfg.wg)
        w == GenerateFor(kept, Fresh)
    IN  /\ Edited /\ Drew(IF w = kept THEN 0 ELSE 1)
        /\ Mutate(w, confirm, {}, failed)

(* POST /wireguard/apply: no edit, and confirmed by itself.                *)
postApply(failed) ==
    /\ Edited /\ Drew(0)
    /\ Mutate(cfg.wg, TRUE, {}, failed)

(* patchConfig: the address both ways in are dialled at.  Nothing else on  *)
(* the box changes, so the gate is all there is to it.                     *)
classifyEndpoint(was, c) ==
    IF was.host = c.host \/ was.host = NoHost THEN "none"
    ELSE IF DOMAIN was.wg.peers # {} \/ (was.socks.on /\ was.socks.pw # 0) THEN "disruptive" ELSE "none"
patchConfig(h, confirm) ==
    LET c == [cfg EXCEPT !.host = h] IN
    /\ Edited /\ Drew(0)
    /\ classifyEndpoint(cfg, c) = "disruptive" => confirm
    /\ cfg' = c
    /\ Asked(confirm, TRUE)
    /\ UNCHANGED <<kern, proxy, trial, given, behind, faults>>

(* mutateProxy: an edit of the proxy, or none for POST /socks5/apply.      *)
mutateProxy(s, confirm, failed) ==
    LET c == [cfg EXCEPT !.socks = s]
        p == BuildSocksPlan(c)
    IN  /\ ValidateSocks(s)
        /\ classifySocks(c, cfg, p) = "disruptive" => confirm
        /\ failed # "" => ~EmptyPlan(p)
        /\ Fault(failed # "")
        /\ cfg' = c
        /\ proxy' = After(c, p, failed)
        /\ Asked(confirm, failed = "")
        /\ Settled("socks", failed = "")
        /\ UNCHANGED <<kern, trial, given>>

patchSocksConfig(body, confirm, failed) ==
    LET kept == [body EXCEPT !.pw = IF @ = -1 THEN cfg.socks.pw ELSE @]
        s == WithGeneratedPassword(kept, Fresh)
    IN  /\ Edited /\ Drew(IF s = kept THEN 0 ELSE 1)
        /\ mutateProxy(s, confirm, failed)
postSocksApply(failed) == Edited /\ Drew(0) /\ mutateProxy(cfg.socks, TRUE, failed)

(* getSocksLink hands out the link.                                        *)
getSocksLink ==
    /\ Edited /\ Drew(0) /\ SocksClientURL(cfg) # <<>>
    /\ given' = given \cup {[kind |-> "socks", pw |-> cfg.socks.pw, dial |-> DialAddress(cfg, cfg.socks)]}
    /\ Asked(FALSE, TRUE)
    /\ UNCHANGED <<cfg, kern, proxy, trial, behind, faults>>

(***************************************************************************)
(* The daemon.                                                             *)
(***************************************************************************)
(* The operator keeps a trial, or the daemon undoes it: the document goes  *)
(* back, an interface under another name is removed, and both ways in are  *)
(* applied again.                                                          *)
Keep == /\ trial # NoTrial /\ trial' = NoTrial
        /\ Asked(TRUE, TRUE)
        /\ UNCHANGED <<cfg, kern, proxy, given, behind, keys, edits, faults>>

Cleared(was, w) == IF was.on /\ was.iface # w.iface /\ ~Foreign(was.iface)
                   THEN [kern EXCEPT ![was.iface] = Absent] ELSE kern
Recover ==
    LET w == trial.wg
        left == Cleared(cfg.wg, w)
        same == left[w.iface].lines = Render(w)
        idle == ~w.on /\ ~cfg.wg.on
    IN  /\ trial # NoTrial
        /\ cfg' = trial /\ trial' = NoTrial
        /\ kern' = IF idle \/ same \/ Foreign(w.iface) THEN left
                   ELSE [left EXCEPT ![w.iface] = Programmed(w, {})]
        /\ proxy' = After(trial, BuildSocksPlan(trial), "")
        /\ Asked(TRUE, TRUE)
        /\ behind' = behind \ ({"socks"} \cup IF idle THEN {} ELSE {w.iface})
        /\ UNCHANGED <<given, keys, edits, faults>>

(* The daemon starts, after a reboot or not.  The proxy's unit comes back  *)
(* by itself; startRemote puts the tunnel back.                            *)
Empty(c) == c.host = NoHost /\ ~c.wg.on /\ c.wg.key = 0 /\ ~c.socks.on /\ c.socks.pw = 0
startRemote(reboot) ==
    LET k == IF reboot THEN [i \in Ifaces |-> Absent] ELSE kern
        w == cfg.wg
    IN  /\ trial = NoTrial /\ Fault(TRUE)
        /\ kern' = IF Empty(cfg) \/ Foreign(w.iface) \/ k[w.iface].lines = Render(w) THEN k
                   ELSE [k EXCEPT ![w.iface] = IF w.on THEN [lines |-> Render(w), up |-> TRUE] ELSE Absent]
        /\ proxy' = IF ~reboot THEN proxy
                    ELSE [proxy EXCEPT !.running = IF proxy.boot THEN proxy.file ELSE NoFile]
        /\ Asked(FALSE, FALSE)
        /\ Settled(w.iface, ~Empty(cfg) \/ w.iface \notin behind)
        /\ UNCHANGED <<cfg, trial, given, keys, edits>>

Init ==
    /\ cfg = [host |-> CHOOSE h \in Hosts : TRUE,
              wg |-> [on |-> FALSE, iface |-> CHOOSE i \in Ifaces : i \notin Taken, port |-> Min(Ports),
                      public |-> 0, key |-> 0, addr |-> 1, peers |-> <<>>],
              socks |-> [on |-> FALSE, port |-> Min(Ports), public |-> 0, pw |-> 0]]
    /\ kern = [i \in Ifaces |-> Absent]
    /\ proxy = [file |-> NoFile, running |-> NoFile, boot |-> FALSE]
    /\ trial = NoTrial /\ given = {} /\ behind = {}
    /\ ask = [confirm |-> FALSE, clean |-> TRUE]
    /\ keys = 0 /\ edits = 0 /\ faults = 0

(* Bodies of PUT and PATCH: one field at a time, the key redacted or not   *)
(* sent, or the listen port with the old one kept outside.                 *)
Ported(x, ports) == [[x EXCEPT !.port = ports[1]] EXCEPT !.public = ports[2]]
Bodies ==
    LET w == [cfg.wg EXCEPT !.key = -1] IN
    {[w EXCEPT !.on = b] : b \in BOOLEAN} \cup {[w EXCEPT !.key = 0]}
    \cup {Ported(w, p) : p \in Ports \X (Ports \cup {0})}
    \cup {[w EXCEPT !.iface = i] : i \in Ifaces} \cup {[w EXCEPT !.addr = a] : a \in 1..Tail}
SocksBodies ==
    LET s == [cfg.socks EXCEPT !.pw = -1] IN
    {[s EXCEPT !.on = b] : b \in BOOLEAN} \cup {[s EXCEPT !.pw = 0]}
    \cup {Ported(s, p) : p \in Ports \X (Ports \cup {0})}

Next ==
    \/ \E n \in Names, yes \in BOOLEAN, f \in Faults :
          putPeer(n, yes, f) \/ rekeyPeer(n, yes, f) \/ reissuePeer(n, yes, f) \/ deletePeer(n, yes, f)
    \/ \E n, to \in Names : patchPeer(n, to)
    \/ \E b \in Bodies, yes \in BOOLEAN, f \in Faults : putWireGuardConfig(b, yes, f)
    \/ \E f \in Faults : postApply(f)
    \/ \E h \in Hosts \cup {NoHost}, yes \in BOOLEAN : patchConfig(h, yes)
    \/ \E s \in SocksBodies, yes \in BOOLEAN, f \in {"", "write", "check", "act"} : patchSocksConfig(s, yes, f)
    \/ \E f \in {"", "act"} : postSocksApply(f)
    \/ getSocksLink \/ Keep \/ Recover
    \/ \E b \in BOOLEAN : startRemote(b)

Spec == Init /\ [][Next]_vars

(***************************************************************************)
(* Properties.                                                             *)
(***************************************************************************)
(* What a device holds is still what the document says ...                 *)
Honoured(g) ==
    IF g.kind = "wg"
    THEN /\ cfg.wg.on /\ g.server = cfg.wg.key /\ g.dial = DialAddress(cfg, cfg.wg)
         /\ \E n \in DOMAIN cfg.wg.peers : cfg.wg.peers[n] = [key |-> g.key, addr |-> g.addr]
    ELSE cfg.socks.on /\ g.pw = cfg.socks.pw /\ g.dial = DialAddress(cfg, cfg.socks)
(* ... and the box lets it in with it.                                     *)
Admitted(g) ==
    IF g.kind = "wg"
    THEN /\ kern[cfg.wg.iface].up
         /\ {<<"public-key", g.server>>, <<"peer", g.key, g.addr>>, <<"listen-port", cfg.wg.port>>}
              \subseteq kern[cfg.wg.iface].lines
    ELSE proxy.running = socksConf(cfg.socks)
Works(g) == Honoured(g) /\ Admitted(g)

(* The port devices are told to dial moves, and the listening one does not. *)
OnlyOutside == \E x \in {"wg", "socks"} : cfg[x].public # cfg'[x].public /\ cfg[x].port = cfg'[x].port

(* The plan finds its work done: the proxy's file was written by an apply  *)
(* that failed afterwards, or the interface the tunnel is moved to was     *)
(* programmed by one that did not bring it up.                             *)
FoundDone ==
    \/ proxy.file = RenderSocks(cfg'.socks) /\ proxy.file # RenderSocks(cfg.socks)
    \/ /\ cfg'.wg.iface # cfg.wg.iface
       /\ kern[cfg'.wg.iface].lines = Render(cfg'.wg) /\ ~kern[cfg'.wg.iface].up

(* A request that was not confirmed and goes through breaks nothing.       *)
SparesAll ==
    (~ask'.confirm /\ ask'.clean /\ ~OnlyOutside /\ ~FoundDone) =>
        \A g \in given : Works(g) => Works(g)'

(* Nobody is locked out without a confirmation.  A request that was not    *)
(* confirmed and goes through leaves every file and link that worked       *)
(* working: the plan's "disruptive" (wg_plan.go:256, socks_plan.go:77)     *)
(* finds every way to break one, save for public_port moving by itself and *)
(* for what an earlier, failed apply left done: an empty plan is not       *)
(* classified.                                                             *)
NobodyLockedOut == [][SparesAll]_vars

(* The same of every unconfirmed request: "whether the address those files *)
(* name still works" (wg_plan.go:304) is what decides. TLC refutes it: an  *)
(* edit of public_port alone is not compared.                              *)
FilesKeepWorking ==
    [][(~ask'.confirm /\ ask'.clean) => \A g \in given : Works(g) => Works(g)']_vars

(* A device that was removed is out.  Once the last change of the tunnel   *)
(* went through, the interface the document names accepts the stored       *)
(* devices, each at its own address, and no other: whatever a failed       *)
(* apply, an undone trial or a reboot had left in it is gone.              *)
OnlyStoredDevices ==
    cfg.wg.iface \notin behind /\ ~Foreign(cfg.wg.iface) => kern[cfg.wg.iface].lines = Render(cfg.wg)

(* POST /socks5/apply "is the repair path for a half-applied change": once *)
(* an apply goes through, the proxy serves what is stored. TLC refutes it: *)
(* the plan compares files, so a file written before a failed restart      *)
(* plans nothing.                                                          *)
Repaired == "socks" \notin behind => proxy.running = RenderSocks(cfg.socks)
=============================================================================
