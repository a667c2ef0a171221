------------------------------ MODULE Traffic ------------------------------
(***************************************************************************)
(* How much each device sent and received through each exit: counted by    *)
(* nftables rules into sets keyed by address and mark, read every ten      *)
(* seconds, and added up by half hour as differences of two readings.      *)
(*                                                                         *)
(* The kernel's counters start over when the table is rebuilt and when an  *)
(* element expires; the marks an operator's exits hold change; the history *)
(* has a limit and is saved only where it changed.                         *)
(***************************************************************************)
EXTENDS Naturals, FiniteSets, FiniteSetsExt, TLC

CONSTANTS
    Devices,
    Marks,     \* marks a packet may carry: 0, the direct mark, one per exit
    ExitMarks, \* marks an exit may hold; the others are read as no exit
    Sizes,     \* how packets are met: a burst of so many bytes
    BucketLen, \* readings in a half hour
    Retention, \* half hours kept
    Entries,   \* ActivityEntries
    MaxTime,   \* bound: readings
    MaxPackets,\* bound: packets
    MaxFaults  \* bound: failed saves, restarts, rebuilds, exits edited

Remote == "remote" \* any address outside
Box == "box"       \* the router itself
NoExit == "noexit" \* Usage.Exit = ""

VARIABLES
    on,       \* accounting is enabled and the table is there
    sets,     \* <<"up" or "down", address, mark>> -> bytes in that element
    exits,    \* marks the configuration gives an exit
    now,
    previous, \* the last reading: <<address, exit>> -> [up, down], or none
    last,     \* when it was taken
    buckets,  \* <<bucket, address>> -> [up, down]
    entries,  \* how many there are, kept by hand
    saved,    \* what the database was last known to hold
    db,
    truth,    \* address -> [up, down]: what the device really sent and got (ghost)
    counted,  \* <<up or down, address, mark>> -> the same, since the element began (ghost)
    packets, faults

history == <<previous, last, buckets, entries, saved, db>>
vars == <<on, sets, exits, now, history, truth, counted, packets, faults>>

Fault == faults < MaxFaults /\ faults' = faults + 1
With(f, x, y) == (x :> y) @@ f
Limit(f, S) == [x \in DOMAIN f \cap S |-> f[x]]
Get(f, x) == IF x \in DOMAIN f THEN f[x] ELSE 0
Zero == [up |-> 0, down |-> 0]
Empty == [x \in {} |-> 0]
Bucket(t) == t \div BucketLen
Kept(x) == x[1] + Retention >= Bucket(now)

(***************************************************************************)
(* The accounting table.                                                   *)
(***************************************************************************)
(* StatChains: on which hook a rule stands, the set it feeds, whether it   *)
(* takes translated connections.                                           *)
StatRules ==
    [hook : {"forward"}, set : {"up", "down"}, dnat : BOOLEAN]
      \cup {[hook |-> "input", set |-> "up", dnat |-> FALSE],
            [hook |-> "output", set |-> "down", dnat |-> FALSE]}

(* accountSetExprs: an ordinary connection is kept by its opener, a        *)
(* translated one by the endpoint it was translated to.                    *)
Matches(r, p) ==
    /\ r.hook = p.hook /\ r.dnat = p.dnat
    /\ p.dir = IF (r.set = "up") # r.dnat THEN "original" ELSE "reply"

Key(r, p) == <<r.set, IF r.set = "up" THEN p.src ELSE p.dst, p.mark>>

(* The packets that meet the table. *)
Packet(d, kind, out, mark) ==
    LET far == IF kind \in {"tobox", "frombox"} THEN Box ELSE Remote
        opener == kind \in {"opened", "tobox"} IN
    [src |-> IF out THEN d ELSE far, dst |-> IF out THEN far ELSE d, mark |-> mark,
     hook |-> IF far = Remote THEN "forward" ELSE IF out THEN "input" ELSE "output",
     dnat |-> kind = "published",
     dir |-> IF out = opener THEN "original" ELSE "reply"]
Kinds == {"opened", "published", "inbound", "tobox", "frombox"}

(* What a device is charged with: its own connections and the ones         *)
(* published to it, not what the outside or the router opened to it.       *)
Charged(kind) == kind \in {"opened", "published", "tobox"}

Send == \E d \in Devices, kind \in Kinds, out \in BOOLEAN, mark \in Marks, size \in Sizes :
    LET p == Packet(d, kind, out, mark)
        hit == {Key(r, p) : r \in {r \in StatRules : Matches(r, p)}}
        way == IF out THEN "up" ELSE "down"
        k == <<way, d, mark>> IN
    /\ packets < MaxPackets /\ packets' = packets + 1
    /\ truth' = IF Charged(kind) THEN [truth EXCEPT ![d][way] = @ + size] ELSE truth
    /\ sets' = IF ~on THEN sets
               ELSE [x \in DOMAIN sets \cup hit |-> Get(sets, x) +
                       size * Cardinality({r \in StatRules : Matches(r, p) /\ Key(r, p) = x})]
    /\ counted' = IF on /\ Charged(kind) THEN With(counted, k, Get(counted, k) + size) ELSE counted
    /\ UNCHANGED <<on, exits, now, history, faults>>

(* An idle element times out with its counter. *)
Expire == \E k \in DOMAIN sets :
    /\ Fault
    /\ sets' = Limit(sets, DOMAIN sets \ {k}) /\ counted' = Limit(counted, DOMAIN counted \ {k})
    /\ UNCHANGED <<on, exits, now, history, truth, packets>>

(* statTableMatches: the table there has exactly the chains and the rules  *)
(* this version writes; another version's (or a half-read one) does not.   *)
statTableMatches(ours) == on /\ ours

(* applyStat: the table is removed, built, left alone, or built again.     *)
applyStat == \E enabled, ours \in BOOLEAN :
    /\ Fault
    /\ on' = enabled
    /\ LET keep == enabled /\ statTableMatches(ours) IN
         /\ sets' = IF keep THEN sets ELSE Empty
         /\ counted' = IF keep THEN counted ELSE Empty
    /\ UNCHANGED <<exits, now, history, truth, packets>>

(* An exit is added or removed: its mark is read by name or as unknown. *)
EditExits == \E m \in ExitMarks :
    /\ Fault
    /\ exits' = IF m \in exits THEN exits \ {m} ELSE exits \cup {m}
    /\ UNCHANGED <<on, sets, now, history, truth, counted, packets>>

(***************************************************************************)
(* Readings.                                                               *)
(***************************************************************************)
ExitOf(m) == IF m \in exits THEN m ELSE NoExit

(* Traffic: one row per address and mark, with the exit's name. *)
Rows == {<<k[2], k[3]>> : k \in DOMAIN sets}
Usage(r) == [up |-> Get(sets, <<"up", r[1], r[2]>>), down |-> Get(sets, <<"down", r[1], r[2]>>)]
RowKey(r) == <<r[1], ExitOf(r[2])>>

(* A row adds its difference to what the last reading held under its key.  *)
Delta(r) ==
    LET k == RowKey(r) u == Usage(r) IN
    IF k \notin DOMAIN previous THEN Zero
    ELSE LET old == previous[k] IN
         IF ~(u.up >= old.up /\ u.down >= old.down) THEN Zero
         ELSE [up |-> u.up - old.up, down |-> u.down - old.down]
Differs(r) == LET k == RowKey(r) IN
    k \in DOMAIN previous /\ Usage(r).up >= previous[k].up /\ Usage(r).down >= previous[k].down

(* Rows come biggest first, so the last one under a key is the smallest. *)
Bytes(r) == Usage(r).up + Usage(r).down
NextReading == [k \in {RowKey(r) : r \in Rows} |->
    Usage(CHOOSE r \in {s \in Rows : RowKey(s) = k} :
             \A s \in Rows : RowKey(s) = k => Bytes(r) <= Bytes(s))]

Sum(a, b) == [up |-> a.up + b.up, down |-> a.down + b.down]

Freed(gone) == Cardinality(gone)

(* observe: expired buckets go; then each row's difference is added, a new *)
(* pair only while there is room.                                          *)
observe == \E gap \in 1..2, valid \in BOOLEAN :
    LET t == now + gap
        gone == {x \in DOMAIN buckets : ~(x[1] + Retention >= Bucket(t))}
        keep == Limit(buckets, DOMAIN buckets \ gone)
        held == entries - Freed(gone)
        continuous == last # 0 /\ gap = 1 /\ Bucket(last) = Bucket(t)
        adding == {r \in Rows : valid /\ on /\ continuous /\ Differs(r)}
        wanted == {<<Bucket(t), r[1]>> : r \in adding} \ DOMAIN keep
        room == IF held < Entries THEN Min({Entries - held, Cardinality(wanted)}) ELSE 0
        Added(x) == FoldSet(LAMBDA r, acc : Sum(acc, Delta(r)),
                            IF x \in DOMAIN keep THEN keep[x] ELSE Zero,
                            {r \in adding : <<Bucket(t), r[1]>> = x}) IN
    /\ t <= MaxTime /\ now' = t
    /\ \E new \in {S \in SUBSET wanted : Cardinality(S) = room} :
         /\ buckets' = [x \in DOMAIN keep \cup new |-> Added(x)]
         /\ entries' = held + Cardinality(new)
    /\ previous' = IF valid /\ on THEN NextReading ELSE Empty
    /\ last' = IF valid THEN t ELSE 0
    /\ UNCHANGED <<on, sets, exits, saved, db, truth, counted, packets, faults>>

(* Mutant of Changed: a pair that was saved once is not saved again. *)
ChangedOnce == {x \in DOMAIN buckets : x \notin DOMAIN saved}

Changed == {x \in DOMAIN buckets : ~(x \in DOMAIN saved /\ saved[x] = buckets[x])}

(* Save: only what changed is written. *)
Save == \E fails \in BOOLEAN :
    /\ (fails => faults < MaxFaults) /\ faults' = IF fails THEN faults + 1 ELSE faults
    /\ IF fails THEN UNCHANGED <<db, saved>>
       ELSE /\ db' = Limit(buckets, Changed) @@ Limit(db, {x \in DOMAIN db : Kept(x)})
            /\ saved' = LET all == Limit(buckets, Changed) @@ saved IN
                        Limit(all, {x \in DOMAIN all : \E y \in DOMAIN buckets : y[1] = x[1]})
    /\ UNCHANGED <<on, sets, exits, now, previous, last, buckets, entries, truth, counted, packets>>

(* OpenActivityDB. *)
Restart ==
    LET rows == Limit(db, {x \in DOMAIN db : Kept(x)}) IN
    /\ Fault
    /\ buckets' = rows /\ saved' = rows /\ entries' = Cardinality(DOMAIN rows)
    /\ previous' = Empty /\ last' = 0
    /\ UNCHANGED <<on, sets, exits, now, db, truth, counted, packets>>

Init ==
    /\ on = TRUE /\ sets = Empty /\ exits = ExitMarks /\ now = 0
    /\ previous = Empty /\ last = 0 /\ buckets = Empty /\ entries = 0 /\ saved = Empty /\ db = Empty
    /\ truth = [d \in Devices |-> Zero] /\ counted = Empty /\ packets = 0 /\ faults = 0

(* Run: a reading every ten seconds and a save every minute, in one loop. *)
Run == observe \/ Save

Next == Send \/ Expire \/ applyStat \/ EditExits \/ Run \/ Restart

Spec == Init /\ [][Next]_vars

(***************************************************************************)
(* What is promised of the numbers.                                        *)
(***************************************************************************)
(* The kernel charges every byte to one device, in the direction the       *)
(* device sees, for forwarded, published and local conversations alike:    *)
(* no packet matches both rules of a pair (accountSetExprs).               *)
ChargedOnce == \A w \in {"up", "down"}, d \in Devices, m \in Marks :
    Get(sets, <<w, d, m>>) = Get(counted, <<w, d, m>>)

(* What Save skips because it was saved already is in the database with    *)
(* that value, after failed saves and restarts and as buckets expire.      *)
SkippedIsSaved == \A x \in DOMAIN buckets \ Changed :
    Kept(x) => x \in DOMAIN db /\ db[x] = buckets[x]

(* The history stays within ActivityEntries, and the room of expired half  *)
(* hours can be used again: the count kept by hand never drifts (observe,  *)
(* OpenActivityDB).                                                        *)
WithinEntries == entries = Cardinality(DOMAIN buckets) /\ entries <= Entries

(* The history holds differences of counters: never more than the device   *)
(* sent and received.                                                      *)
Total(d, w) == MapThenSumSet(LAMBDA x : buckets[x][w], {x \in DOMAIN buckets : x[2] = d})
DifferencesOnly == \A d \in Devices, w \in {"up", "down"} : Total(d, w) <= truth[d][w]
=============================================================================
