------------------------------ MODULE Devices ------------------------------
(***************************************************************************)
(* The device inventory: what the operator says of each device, in which   *)
(* group of a tree of groups it sits, and what the router remembers of it  *)
(* (when it was last heard, the name it last announced).                   *)
(*                                                                         *)
(* Edits of the inventory hold the apply lock and are validated as a       *)
(* whole.  The memory is sampled and written to the runtime database by    *)
(* one loop, and lost back to the last write by a crash.                   *)
(***************************************************************************)
EXTENDS Integers, FiniteSets, FiniteSetsExt, SequencesExt, TLC

CONSTANTS
    Macs,     \* devices
    Groups,   \* names a group may have
    Names,    \* names a device may have or announce
    Depth,    \* MaxGroupDepth
    Forget,   \* how long an unheard device is remembered
    MaxTime,  \* bound: the clock
    MaxEdits, \* bound: edits
    MaxFaults \* bound: failed writes, crashes

Top == "top"      \* no parent, no group
NoName == "noname"
Never == -1000

VARIABLES
    doc,     \* [groups: name -> parent, devices: mac -> [name, group]]
    lan,     \* who is there now: mac -> [heard, announces]
    now,
    records, \* what the loop remembers: mac -> [heard, name, namedAt]
    dirty,
    db,      \* the records last saved
    known,   \* devices whose name a sample recorded, in memory and saved (ghost)
    saved,
    edits, faults

vars == <<doc, lan, now, records, dirty, db, known, saved, edits, faults>>
memory == <<records, dirty, db, known, saved>>

With(f, x, y) == (x :> y) @@ f
Without(f, x) == [y \in DOMAIN f \ {x} |-> f[y]]
Parent(c, g) == IF g \in DOMAIN c.groups THEN c.groups[g] ELSE Top

(***************************************************************************)
(* Groups.                                                                 *)
(***************************************************************************)
(* Upwards from a group, as far as a group is not met again. *)
Ancestors(c, g) ==
    LET Climb(chain, i) == LET p == Parent(c, IF chain = <<>> THEN g ELSE Last(chain)) IN
            IF p = Top \/ p = g \/ Contains(chain, p) THEN chain ELSE Append(chain, p)
    IN  FoldLeft(Climb, <<>>, [i \in 1..Cardinality(Groups) |-> i])

(* The chain from g ends at a group that still has a parent. *)
inCycle(c, g) ==
    LET chain == Ancestors(c, g)
        top == Parent(c, IF chain = <<>> THEN g ELSE Last(chain))
    IN  top # Top /\ top \in DOMAIN c.groups

validateGroups(c) == \A g \in {h \in DOMAIN c.groups : c.groups[h] # Top} :
    /\ c.groups[g] \in DOMAIN c.groups
    /\ ~inCycle(c, g)
    /\ Len(Ancestors(c, g)) + 1 <= Depth

Validate(c) ==
    /\ \A m \in DOMAIN c.devices : c.devices[m].group \in DOMAIN c.groups \cup {Top}
    /\ validateGroups(c)

RenameGroup(c, from, to) ==
    LET Moved(g) == IF g = from THEN to ELSE g IN
    [groups |-> [g \in {Moved(h) : h \in DOMAIN c.groups} |-> Moved(c.groups[IF g = to THEN from ELSE g])],
     devices |-> [m \in DOMAIN c.devices |-> [c.devices[m] EXCEPT !.group = Moved(@)]]]

(* Mutant: what the group held falls out of every group. *)
RemoveToTop(c, name) ==
    LET Up(g) == IF g = name THEN Top ELSE g IN
    [groups |-> [g \in DOMAIN c.groups \ {name} |-> Up(c.groups[g])],
     devices |-> [m \in DOMAIN c.devices |-> [c.devices[m] EXCEPT !.group = Up(@)]]]

(* Its devices and subgroups move up to its parent. *)
RemoveGroup(c, name) ==
    LET Up(g) == IF g = name THEN c.groups[name] ELSE g IN
    [groups |-> [g \in DOMAIN c.groups \ {name} |-> Up(c.groups[g])],
     devices |-> [m \in DOMAIN c.devices |-> [c.devices[m] EXCEPT !.group = Up(@)]]]

(***************************************************************************)
(* Edits.                                                                  *)
(***************************************************************************)
Devices == [name : Names \cup {NoName}, group : Groups \cup {Top}]

(* mutate: refused when invalid; the save may fail. *)
mutate(desired) ==
    /\ edits < MaxEdits /\ edits' = edits + 1
    /\ IF ~Validate(desired) THEN UNCHANGED <<doc, faults>>
       ELSE \E fails \in BOOLEAN :
              /\ fails => faults < MaxFaults
              /\ faults' = IF fails THEN faults + 1 ELSE faults
              /\ doc' = IF fails THEN doc ELSE desired
    /\ UNCHANGED <<lan, now, memory>>

putConfig == \E groups \in UNION {[D -> Groups \cup {Top}] : D \in SUBSET Groups} :
    mutate([doc EXCEPT !.groups = groups])

putDevice == \E m \in Macs, d \in Devices : mutate([doc EXCEPT !.devices = With(@, m, d)])

deleteDevice == \E m \in Macs : mutate([doc EXCEPT !.devices = Without(@, m)])

(* A device nobody described is described by its group alone. *)
putDeviceGroup == \E m \in Macs, g \in Groups \cup {Top} :
    mutate([doc EXCEPT !.devices = With(@, m,
        [name |-> IF m \in DOMAIN @ THEN @[m].name ELSE NoName, group |-> g])])

(* putGroup creates, then renames, then moves. *)
Reparent(c, g, parent) == IF parent = "keep" THEN c ELSE [c EXCEPT !.groups[g] = parent]

putGroup == \E name, to \in Groups, parent \in Groups \cup {Top, "keep"} :
    LET created == IF name \in DOMAIN doc.groups THEN doc
                   ELSE [doc EXCEPT !.groups = With(@, name, Top)] IN
    IF to = name THEN mutate(Reparent(created, name, parent))
    ELSE /\ name \in DOMAIN doc.groups /\ to \notin DOMAIN doc.groups
         /\ mutate(Reparent(RenameGroup(doc, name, to), to, parent))

deleteGroup == \E name \in DOMAIN doc.groups : mutate(RemoveGroup(doc, name))

(***************************************************************************)
(* Memory.                                                                 *)
(***************************************************************************)
Blank == [heard |-> Never, name |-> NoName, namedAt |-> Never]
Get(m) == IF m \in DOMAIN records THEN records[m] ELSE Blank

Heard == {m \in Macs : lan[m].heard}
Announced == {m \in Macs : lan[m].announces # NoName}

(* Sample: the neighbour table and the announced names, either of which    *)
(* may be unreadable.                                                      *)
Sample == \E hears, names \in BOOLEAN :
    LET Record(m) == IF hears /\ m \in Heard /\ now > Get(m).heard
                     THEN [Get(m) EXCEPT !.heard = now] ELSE Get(m)
        Remember(m) == IF names /\ m \in Announced /\ now > Get(m).namedAt
                       THEN [Record(m) EXCEPT !.name = lan[m].announces, !.namedAt = now] ELSE Record(m)
        touched == DOMAIN records \cup (IF hears THEN Heard ELSE {}) \cup (IF names THEN Announced ELSE {}) IN
    /\ records' = [m \in touched |-> Remember(m)]
    /\ dirty' = (dirty \/ records' # records)
    /\ known' = known \cup (IF names THEN Announced ELSE {})
    /\ UNCHANGED <<doc, lan, now, db, saved, edits, faults>>

Recent(at) == at # Never /\ now - at <= Forget

fresh(r) == Recent(r.heard) \/ Recent(r.namedAt)

(* Flush: forgets, then saves the whole record. *)
Flush == \E fails \in BOOLEAN :
    LET kept == [m \in {m \in DOMAIN records : fresh(records[m])} |-> records[m]]
        changed == dirty \/ kept # records IN
    /\ fails => (changed /\ faults < MaxFaults)
    /\ faults' = IF fails THEN faults + 1 ELSE faults
    /\ records' = kept
    /\ dirty' = fails
    /\ db' = IF changed /\ ~fails THEN kept ELSE db
    /\ saved' = IF fails THEN saved ELSE known
    /\ UNCHANGED <<doc, lan, now, known, edits>>

(* OpenSeenDB: a name with no time is not taken. *)
Restart ==
    /\ faults < MaxFaults /\ faults' = faults + 1
    /\ records' = [m \in DOMAIN db |-> IF db[m].namedAt = Never THEN [db[m] EXCEPT !.name = NoName] ELSE db[m]]
    /\ dirty' = FALSE /\ known' = saved
    /\ UNCHANGED <<doc, lan, now, db, saved, edits>>

(* Devices come and go and the clock moves; a ghost forgets those that     *)
(* were unheard and unnamed for longer than Forget.                        *)
Move == \E m \in Macs, h \in BOOLEAN, a \in Names \cup {NoName} :
    /\ now < MaxTime /\ now' = now + 1
    /\ lan' = [lan EXCEPT ![m] = [heard |-> h, announces |-> a]]
    /\ LET Lasts(x) == LET r == Get(x) IN
               (r.heard # Never /\ now' - r.heard <= Forget) \/ (r.namedAt # Never /\ now' - r.namedAt <= Forget)
           LastsIn(x) == x \in DOMAIN db /\ LET r == db[x] IN
               (r.heard # Never /\ now' - r.heard <= Forget) \/ (r.namedAt # Never /\ now' - r.namedAt <= Forget) IN
         known' = {x \in known : Lasts(x)} /\ saved' = {x \in saved : LastsIn(x)}
    /\ UNCHANGED <<doc, records, dirty, db, edits, faults>>

Init ==
    /\ doc = [groups |-> [g \in {} |-> Top], devices |-> [m \in {} |-> [name |-> NoName, group |-> Top]]]
    /\ lan = [m \in Macs |-> [heard |-> FALSE, announces |-> NoName]]
    /\ now = 0 /\ records = [m \in {} |-> Blank] /\ dirty = FALSE /\ db = records
    /\ known = {} /\ saved = {} /\ edits = 0 /\ faults = 0

Next == \/ putConfig \/ putDevice \/ deleteDevice \/ putDeviceGroup \/ putGroup \/ deleteGroup
        \/ Sample \/ Flush \/ Restart \/ Move

Spec == Init /\ [][Next]_vars

(***************************************************************************)
(* The list: what a device is called (resolve).                            *)
(***************************************************************************)
DisplayName(m) ==
    LET described == IF m \in DOMAIN doc.devices THEN doc.devices[m].name ELSE NoName
        names == SelectSeq(<<described, lan[m].announces, Get(m).name>>, LAMBDA n : n # NoName)
    IN  IF names = <<>> THEN NoName ELSE names[1]

(***************************************************************************)
(* What the inventory promises.                                            *)
(***************************************************************************)
(* Whatever edits were accepted, the groups form a tree: from every group  *)
(* the top is reached within Depth - 1 steps (validateGroups, inCycle).    *)
Steps(S) == {Parent(doc, g) : g \in S \ {Top}} \cup (S \cap {Top})
Tree == \A g \in DOMAIN doc.groups :
    Top \in FoldLeft(LAMBDA S, i : Steps(S), {g}, [i \in 1..Depth |-> i])

(* A group can always be removed or renamed, and then every device sits    *)
(* under exactly the groups it sat under, without it or with its new name  *)
(* (RemoveGroup, RenameGroup).                                             *)
Above(c, m) == LET g == c.devices[m].group IN
    IF g = Top THEN {} ELSE {g} \cup ToSet(Ancestors(c, g))
PlacesKept == \A g \in DOMAIN doc.groups :
    /\ LET c == RemoveGroup(doc, g) IN
         Validate(c) /\ \A m \in DOMAIN doc.devices : Above(c, m) = Above(doc, m) \ {g}
    /\ \A to \in Groups \ DOMAIN doc.groups :
         LET c == RenameGroup(doc, g, to) IN
         /\ Validate(c)
         /\ \A m \in DOMAIN doc.devices :
              Above(c, m) = {IF x = g THEN to ELSE x : x \in Above(doc, m)}

(* A device whose name was once recorded keeps a name for as long as it is *)
(* heard or named within Forget, through lapsed leases, failed writes and  *)
(* crashes (Record, Remember, Flush, OpenSeenDB).                          *)
NameLasts == \A m \in known : DisplayName(m) # NoName
=============================================================================
