-------------------------------- MODULE Iptv --------------------------------
(***************************************************************************)
(* Routed IPTV multicast (internal/iptv): the document names an upstream   *)
(* and networks, Resolve turns them into interfaces by what the link       *)
(* module says now, and the unit olr-iptv runs igmpproxy with a file that  *)
(* names every interface, because igmpproxy enables the ones it does not   *)
(* find there.  The firewall's table opens the way for the stream and is   *)
(* applied again after every change, a failed one included.                *)
(***************************************************************************)
EXTENDS Naturals, Sequences, FiniteSets

CONSTANTS
    Ifaces, Networks,
    None,       \* no upstream, no member
    Reapplies,  \* requests for POST /apply
    MaxEdits,   \* bound: changes of the document
    MaxMoves,   \* bound: changes of the links
    MaxFaults   \* bound: failures, dying units

VARIABLES
    doc,      \* the stored section: [enabled, up, nets]
    links,    \* [usable, present, member]: adopted interfaces with IPv4,
              \* interfaces there are, network -> its one member or None
    file,     \* igmpproxy.conf: a rendering, or Blank
    unit,     \* [enabled, active, runs]
    loaded,   \* POST /apply requests that have read the document: r -> doc
    opened,   \* the interfaces the firewall's table lets the stream through
    settled,  \* the last change succeeded, was of the stored document, and the
              \* links have not moved since
    behind,   \* a change failed between the file and the process
    followed, \* the firewall was applied after the last change of either
    edits, moves, faults

vars == <<doc, links, file, unit, loaded, opened, settled, behind, followed,
          edits, moves, faults>>

Blank == [up |-> None, down |-> {}, off |-> {}]
Configs == [enabled : BOOLEAN, up : Ifaces \cup {None}, nets : SUBSET Networks]
Disabled == [enabled |-> FALSE, up |-> None, nets |-> {}]
State == [doc |-> doc, file |-> file, unit |-> unit]

(***************************************************************************)
(* Resolve.                                                                *)
(***************************************************************************)
Members(c) == {links.member[n] : n \in c.nets}

(* An upstream of its own, and networks with one member each, all there.   *)
Resolvable(c) ==
    c.enabled =>
        /\ c.up \in links.usable \cap links.present
        /\ c.nets # {}
        /\ Members(c) \subseteq links.present
        /\ Cardinality(Members(c)) = Cardinality(c.nets)
        /\ \A n \in Networks : links.member[n] # c.up

(* Mutant of Resolve: only the chosen interfaces are written.              *)
ResolveChosen(c) ==
    IF c.enabled THEN [up |-> c.up, down |-> Members(c), off |-> {}] ELSE Blank

Resolve(c) ==
    IF c.enabled
    THEN [up |-> c.up, down |-> Members(c),
          off |-> links.present \ (Members(c) \cup {c.up})]
    ELSE Blank

(***************************************************************************)
(* Plan, Apply and change.                                                 *)
(***************************************************************************)
Saved(s, c, store) == IF store THEN [s EXCEPT !.doc = c] ELSE s
Stopped(s) == [s EXCEPT !.unit.active = FALSE, !.unit.runs = Blank]
Launched(s) == [s EXCEPT !.unit.active = TRUE, !.unit.runs = s.file]

Apply(s, c, store) ==
    LET s1 == Saved(s, c, store)
        s2 == [s1 EXCEPT !.file = Resolve(c)]
        s3 == [s2 EXCEPT !.unit.enabled = TRUE]
    IN  IF ~c.enabled
        THEN <<s, s1, Stopped(s1), [Stopped(s1) EXCEPT !.unit.enabled = FALSE]>>
        ELSE <<s, s1, s2, s3,
               IF s.file # Resolve(c) \/ ~s.unit.active THEN Launched(s3) ELSE s3>>

Becomes(s) == doc' = s.doc /\ file' = s.file /\ unit' = s.unit

(* The firewall is applied for the document there is then; it fails if     *)
(* that does not resolve, and may fail otherwise.                          *)
Follow ==
    \/ /\ Resolvable(doc')
       /\ opened' = IF doc'.enabled THEN {doc'.up} \cup Members(doc') ELSE {}
       /\ followed' = TRUE
    \/ UNCHANGED opened /\ followed' = FALSE

Succeeds(c, store) ==
    LET ss == Apply(State, c, store) IN
    /\ Resolvable(c)
    /\ Becomes(ss[Len(ss)])
    /\ settled' = (c = doc')
    /\ behind' = (unit'.active /\ unit'.runs # file')
    /\ UNCHANGED faults

(* The plan is refused: the configuration does not resolve, or forwarding  *)
(* is off or igmpproxy not installed.                                      *)
Refused(c) ==
    /\ ~Resolvable(c) \/ c.enabled
    /\ UNCHANGED <<doc, file, unit, settled, behind, faults>>

(* A step fails and the rest is not done, or the new process ends at once. *)
Fails(c, store) ==
    LET ss == Apply(State, c, store) IN
    /\ Resolvable(c) /\ faults < MaxFaults
    /\ faults' = faults + 1
    /\ \E i \in 1 .. Len(ss) - 1 :
        Becomes(ss[i]) \/ (i = 4 /\ ss[5] # ss[4] /\ Becomes(Stopped(ss[i])))
    /\ settled' = FALSE
    /\ behind' = (unit'.active /\ unit'.runs # file')

putConfig == \E c \in Configs :
    /\ edits < MaxEdits /\ edits' = edits + 1
    /\ Succeeds(c, TRUE) \/ Refused(c) \/ Fails(c, TRUE)
    /\ Follow
    /\ UNCHANGED <<links, loaded, moves>>

(* The document is read outside the lock and applied under it.             *)
Load == \E r \in Reapplies \ DOMAIN loaded :
    /\ edits < MaxEdits /\ edits' = edits + 1
    /\ loaded' = [q \in DOMAIN loaded \cup {r} |-> IF q = r THEN doc ELSE loaded[q]]
    /\ UNCHANGED <<doc, links, file, unit, opened, settled, behind, followed,
                   moves, faults>>

reapply == \E r \in DOMAIN loaded :
    /\ \/ Succeeds(loaded[r], FALSE)
       \/ Refused(loaded[r])
       \/ Fails(loaded[r], FALSE)
    /\ Follow
    /\ loaded' = [q \in DOMAIN loaded \ {r} |-> loaded[q]]
    /\ UNCHANGED <<links, edits, moves>>

(* The start of the daemon: only what differs is applied, and the firewall *)
(* has its own start.                                                      *)
startIPTV ==
    /\ doc.enabled
    /\ Succeeds(doc, FALSE) \/ Fails(doc, FALSE)
    /\ loaded' = [r \in {} |-> doc]
    /\ UNCHANGED <<links, opened, followed, edits, moves>>

(***************************************************************************)
(* The environment: the link module, systemd.                              *)
(***************************************************************************)
LinkChange ==
    /\ moves < MaxMoves /\ moves' = moves + 1
    /\ \/ \E i \in Ifaces : links' = [links EXCEPT !.present =
                              IF i \in @ THEN @ \ {i} ELSE @ \cup {i}]
       \/ \E n \in Networks, i \in Ifaces \cup {None} :
              /\ \A o \in Networks \ {n} : links.member[o] # i \/ i = None
              /\ links' = [links EXCEPT !.member[n] = i]
    /\ settled' = FALSE /\ followed' = FALSE
    /\ UNCHANGED <<doc, file, unit, loaded, opened, behind, edits, faults>>

Die ==
    /\ unit.active /\ faults < MaxFaults
    /\ faults' = faults + 1
    /\ unit' = Stopped(State).unit
    /\ settled' = FALSE /\ behind' = FALSE
    /\ UNCHANGED <<doc, links, file, loaded, opened, followed, edits, moves>>

Init ==
    /\ doc = Disabled /\ file = Blank /\ opened = {}
    /\ loaded = [r \in {} |-> Disabled]
    /\ unit = [enabled |-> FALSE, active |-> FALSE, runs |-> Blank]
    /\ \E m \in [Networks -> Ifaces], p \in SUBSET Ifaces :
           links = [usable |-> Ifaces, present |-> p, member |-> m]
    /\ \A n, o \in Networks : links.member[n] = links.member[o] => n = o
    /\ settled = TRUE /\ behind = FALSE /\ followed = TRUE
    /\ edits = 0 /\ moves = 0 /\ faults = 0

Next == putConfig \/ reapply \/ startIPTV \/ LinkChange \/ Die

Spec == Init /\ [][Next]_vars

(***************************************************************************)
(* Property.                                                               *)
(***************************************************************************)
(* After a change that succeeds the proxy runs exactly when the document   *)
(* says so, forwards from the one upstream to the members the networks     *)
(* have now and to nothing else there is, unless an earlier change failed  *)
(* between the file and the process (iptv/apply.go:151).  And once the     *)
(* firewall followed, it lets the stream through for the stored document,  *)
(* though the change itself may have failed (iptv/http.go:64).             *)
Streaming ==
    /\ settled =>
        /\ unit.active = doc.enabled /\ unit.enabled = doc.enabled
        /\ doc.enabled /\ ~behind =>
            /\ unit.runs.up = doc.up /\ unit.runs.down = Members(doc)
            /\ links.present = {doc.up} \cup Members(doc) \cup unit.runs.off
            /\ doc.up \notin unit.runs.down \cup unit.runs.off
    /\ followed => opened = IF doc.enabled THEN {doc.up} \cup Members(doc) ELSE {}
=============================================================================
