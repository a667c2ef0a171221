--------------------------- MODULE MCGoroutines -----------------------------
(***************************************************************************)
(* The goroutines that go on after a request was answered, checked in one  *)
(* run: dynamic DNS, the cleanup of an inspection, the queues of the       *)
(* traffic limits and the relay's late sockets. Each behaviour is one      *)
(* component's, and `which` says whose.                                    *)
(***************************************************************************)
EXTENDS Naturals, FiniteSets

CONSTANTS NoValue

VARIABLES
    which,  \* the component this behaviour is of
    doc, watch, cancels, running, states, loops, dns, addr, edits, moves,
    faults, up, session, armed, setting, proxy, record, table, opening,
    stopping, policies, place, present, kernel, explicit, phase, open,
    pending, held, flight, tee, entries, next, full, names, dropped, failed,
    logged, answered, queries, flaps

all == <<which,
    doc, watch, cancels, running, states, loops, dns, addr, edits, moves,
    faults, up, session, armed, setting, proxy, record, table, opening,
    stopping, policies, place, present, kernel, explicit, phase, open,
    pending, held, flight, tee, entries, next, full, names, dropped, failed,
    logged, answered, queries, flaps>>

Answer == {<<"q", "CNAME", "r">>, <<"r", "A", "x">>} \* what a resolver may say of "q"

(* The components and their instances. *)
TheDdns == INSTANCE Ddns WITH
    Names <- {"n"}, Places <- {"p", "q"}, Callbacks <- {"q"},
    Addrs <- {"a", "b"}, MaxBackoff <- 2, MaxPending <- 1, MaxEdits <- 2,
    MaxMoves <- 1, MaxFaults <- 1
TheInspection == INSTANCE Inspection WITH
    None <- NoValue, Devices <- {"a", "b"}, MaxEdits <- 5, MaxFaults <- 3
TheQos == INSTANCE Qos WITH
    Devices <- {"a", "b"}, Ifaces <- {"lan0", "lan1"}, Nowhere <- "nowhere",
    MaxEdits <- 3, MaxFaults <- 2
TheRelay == INSTANCE DnsRelay WITH
    Named <- {"n4", "n6"}, Wildcards <- {"n4", "n6"}, Optional <- {"o"},
    Clients <- {"c"}, Asked <- "q", Records <- Answer, MaxAnswer <- 2,
    TeeBuffer <- 1, Capacity <- 2, MaxNames <- 1, MaxQueries <- 3,
    MaxFlaps <- 1

(* The variables of the other components stay at NA. *)
NA == 0

TheDdnsInit ==
    /\ which = "ddns" /\ TheDdns!Init
    /\ up = NA /\ session = NA /\ armed = NA /\ setting = NA /\ proxy = NA
    /\ record = NA /\ table = NA /\ opening = NA /\ stopping = NA
    /\ policies = NA /\ place = NA /\ present = NA /\ kernel = NA
    /\ explicit = NA /\ phase = NA /\ open = NA /\ pending = NA
    /\ held = NA /\ flight = NA /\ tee = NA /\ entries = NA /\ next = NA
    /\ full = NA /\ names = NA /\ dropped = NA /\ failed = NA
    /\ logged = NA /\ answered = NA /\ queries = NA /\ flaps = NA
TheDdnsRest ==
    UNCHANGED <<which,
        up, session, armed, setting, proxy, record, table, opening,
        stopping, policies, place, present, kernel, explicit, phase, open,
        pending, held, flight, tee, entries, next, full, names, dropped,
        failed, logged, answered, queries, flaps>>
TheDdnsNext ==
    which = "ddns" /\ TheDdns!Next /\ TheDdnsRest

TheInspectionInit ==
    /\ which = "inspection" /\ TheInspection!Init
    /\ doc = NA /\ watch = NA /\ cancels = NA /\ running = NA
    /\ states = NA /\ loops = NA /\ dns = NA /\ addr = NA /\ moves = NA
    /\ policies = NA /\ place = NA /\ present = NA /\ kernel = NA
    /\ explicit = NA /\ phase = NA /\ open = NA /\ pending = NA
    /\ held = NA /\ flight = NA /\ tee = NA /\ entries = NA /\ next = NA
    /\ full = NA /\ names = NA /\ dropped = NA /\ failed = NA
    /\ logged = NA /\ answered = NA /\ queries = NA /\ flaps = NA
TheInspectionRest ==
    UNCHANGED <<which,
        doc, watch, cancels, running, states, loops, dns, addr, moves,
        policies, place, present, kernel, explicit, phase, open, pending,
        held, flight, tee, entries, next, full, names, dropped, failed,
        logged, answered, queries, flaps>>
TheInspectionNext ==
    which = "inspection" /\ TheInspection!Next /\ TheInspectionRest

TheQosInit ==
    /\ which = "qos" /\ TheQos!Init
    /\ doc = NA /\ watch = NA /\ cancels = NA /\ running = NA
    /\ states = NA /\ loops = NA /\ dns = NA /\ addr = NA /\ moves = NA
    /\ up = NA /\ session = NA /\ armed = NA /\ setting = NA /\ proxy = NA
    /\ table = NA /\ opening = NA /\ stopping = NA /\ explicit = NA
    /\ phase = NA /\ open = NA /\ pending = NA /\ held = NA /\ flight = NA
    /\ tee = NA /\ entries = NA /\ next = NA /\ full = NA /\ names = NA
    /\ dropped = NA /\ failed = NA /\ logged = NA /\ answered = NA
    /\ queries = NA /\ flaps = NA
TheQosRest ==
    UNCHANGED <<which,
        doc, watch, cancels, running, states, loops, dns, addr, moves, up,
        session, armed, setting, proxy, table, opening, stopping, explicit,
        phase, open, pending, held, flight, tee, entries, next, full, names,
        dropped, failed, logged, answered, queries, flaps>>
TheQosNext ==
    which = "qos" /\ TheQos!Next /\ TheQosRest

TheRelayInit ==
    /\ which = "relay" /\ TheRelay!Init
    /\ doc = NA /\ watch = NA /\ cancels = NA /\ running = NA
    /\ states = NA /\ loops = NA /\ dns = NA /\ addr = NA /\ edits = NA
    /\ moves = NA /\ faults = NA /\ session = NA /\ armed = NA
    /\ setting = NA /\ proxy = NA /\ record = NA /\ table = NA
    /\ opening = NA /\ stopping = NA /\ policies = NA /\ place = NA
    /\ present = NA /\ kernel = NA
TheRelayRest ==
    UNCHANGED <<which,
        doc, watch, cancels, running, states, loops, dns, addr, edits,
        moves, faults, session, armed, setting, proxy, record, table,
        opening, stopping, policies, place, present, kernel>>
TheRelayNext ==
    which = "relay" /\ TheRelay!Next /\ TheRelayRest

Init ==
    \/ TheDdnsInit \/ TheInspectionInit \/ TheQosInit \/ TheRelayInit
Next ==
    \/ TheDdnsNext \/ TheInspectionNext \/ TheQosNext \/ TheRelayNext


(* The fairness each component states, of its own behaviours. *)
ddnsVars == TheDdns!vars
inspectionVars == TheInspection!vars
qosVars == TheQos!vars
relayVars == TheRelay!vars

Fairness ==
    /\ WF_ddnsVars(which = "ddns" /\ TheDdns!WatchStep)
    /\ \A l \in TheDdns!LoopIds : WF_ddnsVars(which = "ddns" /\ l \in DOMAIN loops /\ TheDdns!Loop(l))
    /\ WF_inspectionVars(which = "inspection" /\ TheInspection!StartUnit)
    /\ WF_inspectionVars(which = "inspection" /\ TheInspection!WaitReady)
    /\ WF_inspectionVars(which = "inspection" /\ TheInspection!Install)
    /\ WF_inspectionVars(which = "inspection" /\ TheInspection!Ready)
    /\ WF_inspectionVars(which = "inspection" /\ TheInspection!abortManaged)
    /\ WF_inspectionVars(which = "inspection" /\ TheInspection!watch)
    /\ WF_inspectionVars(which = "inspection" /\ TheInspection!retryCleanup)
    /\ WF_inspectionVars(which = "inspection" /\ TheInspection!Resume)
    /\ WF_qosVars(which = "qos" /\ TheQos!Reconcile)
    /\ WF_relayVars(which = "relay" /\ TheRelay!bind)
    /\ WF_relayVars(which = "relay" /\ TheRelay!BindOptional)
    /\ WF_relayVars(which = "relay" /\ TheRelay!StartOptional)
    /\ WF_relayVars(which = "relay" /\ TheRelay!Stopped)

Spec == Init /\ [][Next]_all /\ Fairness

(***************************************************************************)
(* Properties.                                                             *)
(***************************************************************************)
(* Ddns: once the address stops moving and the provider stops refusing,    *)
(* the publisher comes to believe of every stored record that its place    *)
(* has been told the address (publisher.go:235).                           *)
Settles == <>[](which = "ddns" => TheDdns!Believed)

(* Inspection: a device that is cut off while the daemon has a session for *)
(* it is let go again (inspection.go:762, :805, managed.go:69).            *)
LetsGo ==
    (which = "inspection" /\ TheInspection!CutOff /\ session # NoValue)
        ~> (which = "inspection" => ~TheInspection!CutOff \/ ~up)

(* Qos: while every interface is there and none carries a foreign queue,   *)
(* the trees come to be the policies' and stay so (engine.go:319).         *)
Enforced == <>[](which = "qos" => (TheQos!Unhindered => TheQos!InPlace))

(* Relay: an address that comes up late and stays is answered on, unless   *)
(* the relay stops (serveOptional, server.go:151).                         *)
LateAddressServed ==
    (which = "relay" /\ phase = "serving" /\ [](which = "relay" => "o" \in up))
        ~> (which = "relay" => "o" \in open \/ phase # "serving")

(* Inspection: the traffic a session shows is its own device's             *)
(* (managed.go:241). Qos: a tree of ours is always written down, so that a *)
(* later apply removes it (engine.go:375). Relay: once it stopped or       *)
(* failed no socket is left (server.go:55), the log shows the last entries *)
(* added (log.go:90), an answer sent is in the log, waiting to be, or      *)
(* counted as dropped (relay.go:285), and a name is recorded for an        *)
(* address only if the answer's chain of CNAMEs leads there from the name  *)
(* asked (message.go:263).                                                 *)
NothingSlips ==
    /\ which = "inspection" => TheInspection!RightDevice
    /\ which = "qos" => TheQos!OwnedIsRecorded
    /\ which = "relay" => TheRelay!SocketsClosed /\ TheRelay!LogIsTail
                            /\ TheRelay!Accounted /\ TheRelay!NamesHonest
=============================================================================
