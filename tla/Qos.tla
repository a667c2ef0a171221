-------------------------------- MODULE Qos ---------------------------------
(***************************************************************************)
(* Device priorities and speed limits, kept as one traffic-control tree    *)
(* per interface.                                                          *)
(*                                                                         *)
(* Every ten seconds and after every edit the engine works out which       *)
(* devices are behind which interface and rebuilds the trees that differ.  *)
(* It writes down what it is about to own before it touches an interface,  *)
(* so that a tree an interrupted apply left is found and removed later,    *)
(* and refuses an interface that carries someone else's queue.             *)
(***************************************************************************)
EXTENDS Naturals, FiniteSets

CONSTANTS
    Devices, Ifaces,
    Nowhere,     \* a device that is behind no interface, or behind several
    MaxEdits,    \* bound: edits and moves of devices
    MaxFaults    \* bound: failed commands, crashes, reboots, foreign queues

VARIABLES
    policies,  \* devices with a priority or a limit (qos.Config)
    place,     \* device -> the interface it is behind, or Nowhere
    present,   \* interfaces that exist
    kernel,    \* interface -> [own, devs]
    record,    \* the runtime state of this boot: [queues, snap]
    edits, faults

vars == <<policies, place, present, kernel, record, edits, faults>>

Plain == [own |-> "none", devs |-> {}]
Foreign == [own |-> "foreign", devs |-> {}]
Tree(ds) == [own |-> "ours", devs |-> ds]
Half == [own |-> "ours", devs |-> {Nowhere}]      \* an unfinished tree
NoRecord == [queues |-> [i \in {} |-> {}], snap |-> [i \in {} |-> Plain]]

MayFail == faults < MaxFaults
Count(failed) == faults' = IF failed THEN faults + 1 ELSE faults

(***************************************************************************)
(* Apply.                                                                  *)
(***************************************************************************)
(* A device that is behind exactly one member interface is queued there;   *)
(* the others wait.                                                        *)
desired(pols) ==
    LET on(i) == {d \in pols : place[d] = i}
    IN  [i \in {j \in Ifaces : on(j) # {}} |-> on(i)]

snapshot(qs) == [i \in DOMAIN qs |-> kernel[i]]

(* Mutant of InForce: what was written down is believed.                   *)
InForceRecorded(qs) == qs = record.queues

InForce(qs) ==
    /\ qs = record.queues
    /\ DOMAIN qs \subseteq present
    /\ snapshot(qs) = record.snap

checkRoot(qs) == \A i \in DOMAIN qs : i \in present /\ kernel[i].own # "foreign"

(* The interfaces an apply touches: first the ones given up, then the ones *)
(* to build.  `upto` is how far it came; the interface it failed at may be *)
(* left half done.                                                         *)
Retired(qs) == DOMAIN record.queues \ DOMAIN qs

remove(k, i) == IF k[i].own = "ours" THEN [k EXCEPT ![i] = Plain] ELSE k

(* What is written down before anything is touched.                        *)
Owned(qs) == [i \in DOMAIN record.queues \cup DOMAIN qs |->
                IF i \in DOMAIN record.queues THEN record.queues[i] ELSE qs[i]]

Built(qs, done, half) == [i \in Ifaces |->
    IF i \in half /\ i \in DOMAIN qs THEN Half
    ELSE IF i \notin done THEN kernel[i]
    ELSE IF i \in DOMAIN qs THEN Tree(qs[i])
    ELSE remove(kernel, i)[i]]

(* Apply, with every point at which a command can fail or the daemon die.  *)
(* An interface that is gone cannot be inspected, so its removal fails.    *)
Apply(pols) ==
    LET qs == desired(pols)
        all == Retired(qs) \cup DOMAIN qs
    IN
    \/ /\ InForce(qs)
       /\ UNCHANGED <<kernel, record, faults>>
    \/ /\ ~InForce(qs) /\ ~checkRoot(qs)
       /\ UNCHANGED <<kernel, record, faults>>
    \/ /\ ~InForce(qs) /\ checkRoot(qs) /\ all \subseteq present
       /\ kernel' = Built(qs, all, {})
       /\ record' = [queues |-> qs, snap |-> [i \in DOMAIN qs |-> Tree(qs[i])]]
       /\ UNCHANGED faults
    \/ \E done \in SUBSET (all \cap present), half \in SUBSET (DOMAIN qs \cap present) :
       /\ ~InForce(qs) /\ checkRoot(qs)
       /\ Retired(qs) \subseteq present => MayFail
       /\ Cardinality(half) <= 1 /\ half \cap done = {}
       /\ ~(Retired(qs) \subseteq done) => done \subseteq Retired(qs) /\ half = {}
       /\ kernel' = Built(qs, done, half)
       /\ record' = [queues |-> Owned(qs), snap |-> [i \in {} |-> Plain]]
       /\ Count(Retired(qs) \subseteq present)

(* The edits save the policies and reconcile; so does the ten-second loop. *)
putDevice == \E d \in Devices \ policies :
    /\ edits < MaxEdits
    /\ edits' = edits + 1
    /\ policies' = policies \cup {d}
    /\ Apply(policies')
    /\ UNCHANGED <<place, present>>

deleteDevice == \E d \in policies :
    /\ edits < MaxEdits
    /\ edits' = edits + 1
    /\ policies' = policies \ {d}
    /\ Apply(policies')
    /\ UNCHANGED <<place, present>>

Reconcile ==
    /\ Apply(policies)
    /\ UNCHANGED <<policies, place, present, edits>>

(***************************************************************************)
(* The environment.                                                        *)
(***************************************************************************)
(* A device is seen on another interface, or on two at once.               *)
Move == \E d \in Devices, i \in Ifaces \cup {Nowhere} :
    /\ edits < MaxEdits /\ i # place[d]
    /\ edits' = edits + 1
    /\ place' = [place EXCEPT ![d] = i]
    /\ UNCHANGED <<policies, present, kernel, record, faults>>

ForeignQueue == \E i \in present :
    /\ MayFail
    /\ faults' = faults + 1
    /\ kernel' = [kernel EXCEPT ![i] = IF @.own = "foreign" THEN Plain ELSE Foreign]
    /\ UNCHANGED <<policies, place, present, record, edits>>

(* An interface goes, with its queues, and comes back.                     *)
Unplug == \E i \in present :
    /\ MayFail
    /\ faults' = faults + 1
    /\ present' = present \ {i}
    /\ kernel' = [kernel EXCEPT ![i] = Plain]
    /\ UNCHANGED <<policies, place, record, edits>>

Replug == \E i \in Ifaces \ present :
    /\ present' = present \cup {i}
    /\ UNCHANGED <<policies, place, kernel, record, edits, faults>>

(* The record is kept under the boot's identity.                           *)
Reboot ==
    /\ MayFail
    /\ faults' = faults + 1
    /\ kernel' = [i \in Ifaces |-> Plain]
    /\ record' = NoRecord
    /\ UNCHANGED <<policies, place, present, edits>>

Init ==
    /\ policies = {} /\ place \in [Devices -> Ifaces]
    /\ present = Ifaces /\ kernel = [i \in Ifaces |-> Plain]
    /\ record = NoRecord /\ edits = 0 /\ faults = 0

Next ==
    \/ putDevice \/ deleteDevice \/ Reconcile
    \/ Move \/ ForeignQueue \/ Unplug \/ Replug \/ Reboot

(* The loop runs for as long as the daemon does.                           *)
Spec == Init /\ [][Next]_vars /\ WF_vars(Reconcile)

(***************************************************************************)
(* Properties.                                                             *)
(***************************************************************************)
(* While every interface is there and none carries a foreign queue, the    *)
(* trees come to be the policies' and stay so: an apply that failed half   *)
(* way, a device that moved, a reboot and a tree someone removed are all   *)
(* put right by the loop (Apply, engine.go:319).                           *)
InPlace ==
    \A i \in Ifaces : kernel[i] = IF i \in DOMAIN desired(policies) THEN Tree(desired(policies)[i]) ELSE Plain
Unhindered == present = Ifaces /\ \A i \in Ifaces : kernel[i] # Foreign
Enforced == <>[](Unhindered => InPlace)

(* A tree of ours is always written down, so that a later apply removes it *)
(* when no device needs it any more, whatever interrupted the one that     *)
(* built it (engine.go:375).                                               *)
OwnedIsRecorded ==
    \A i \in Ifaces : kernel[i].own = "ours" => i \in DOMAIN record.queues

=============================================================================
