-------------------------------- MODULE Ddns --------------------------------
(***************************************************************************)
(* The DDNS publisher: one loop per record keeps a public name at the      *)
(* address the internet sees, through a provider that may refuse, be slow  *)
(* or answer after the record it answers for has been edited.              *)
(*                                                                         *)
(* A request stores the document under the apply lock and calls Watch      *)
(* after the lock is released; Watch swaps the loops in three steps, and   *)
(* the loops go on in between.  Time is counted in intervals of a loop.    *)
(***************************************************************************)
EXTENDS Integers, Sequences, FiniteSets, FiniteSetsExt, TLC

CONSTANTS
    Names,       \* public names
    Places,      \* providers and zones a name may be kept at
    Callbacks,   \* those of them that are one blind request
    Addrs,       \* addresses the box may have
    MaxBackoff,  \* the longest pause after refusals, in intervals
    MaxPending,  \* bound: calls of Watch under way at a time
    MaxEdits,    \* bound: requests in one behaviour
    MaxMoves,    \* bound: changes of the box's address
    MaxFaults    \* bound: refusals, lost answers, failed reads, restarts

VARIABLES
    doc,       \* the stored records: name -> [place, key]
    watch,     \* calls of Watch under way
    cancels,   \* name -> the loop the publisher would cancel
    running,   \* name -> the record that loop was started for
    states,    \* name -> what the publisher remembers of it
    loops,     \* loop -> [name, rec, pc, addr, err, cancelled]
    dns,       \* place -> the A records it holds for the name
    addr,      \* the address the source of the records reports
    edits, moves, faults

vars == <<doc, watch, cancels, running, states, loops, dns, addr, edits, moves, faults>>

Redacted == "********"
Good == "key"
None == "none"
Empty == [published |-> None, err |-> FALSE, failures |-> 0, wait |-> 0]

Without(f, S) == [x \in DOMAIN f \ S |-> f[x]]
State(n) == IF n \in DOMAIN states THEN states[n] ELSE Empty
SetLoop(l, r) == loops' = [loops EXCEPT ![l] = r]
Exit(l) == loops' = Without(loops, {l})
Fresh == Min((1..(Cardinality(DOMAIN loops) + 1)) \ DOMAIN loops)
Fault == faults < MaxFaults /\ faults' = faults + 1

(***************************************************************************)
(* The document.                                                           *)
(***************************************************************************)
(* The mask a client was shown means "unchanged"; of a name nobody stored  *)
(* it is kept as it stands.                                                *)
preserveRecordSecrets(n, r) ==
    IF r.key = Redacted /\ n \in DOMAIN doc THEN [r EXCEPT !.key = doc[n].key] ELSE r

(* A request that changes nothing plans nothing, and calls no Watch.       *)
Store(next) ==
    /\ edits < MaxEdits /\ Cardinality(watch) < MaxPending
    /\ next # doc
    /\ doc' = next /\ edits' = edits + 1
    /\ watch' = watch \cup {[id |-> edits, want |-> next, pc |-> "lock", stop |-> {}, start |-> {}]}
    /\ UNCHANGED <<cancels, running, states, loops, dns, addr, moves, faults>>

putRecord == \E n \in Names, p \in Places, k \in {Good, Redacted} :
    Store((n :> preserveRecordSecrets(n, [place |-> p, key |-> k])) @@ doc)
deleteRecord == \E n \in DOMAIN doc : Store(Without(doc, {n}))

(***************************************************************************)
(* Watch.                                                                  *)
(***************************************************************************)
(* Mutant of Stale: a loop whose record changed is left running.           *)
OnlyRemoved(w) == {n \in DOMAIN cancels : n \notin DOMAIN w.want}

Stale(w) == {n \in DOMAIN cancels : n \notin DOMAIN w.want \/ w.want[n] # running[n]}

WatchLock(w) ==
    LET gone  == Stale(w)
        start == DOMAIN w.want \ (DOMAIN cancels \ gone)
    IN  /\ w.pc = "lock"
        /\ cancels' = Without(cancels, gone)
        /\ running' = [n \in start |-> w.want[n]] @@ Without(running, gone)
        /\ states' = [n \in start |-> Empty] @@ Without(states, gone)
        /\ watch' = (watch \ {w}) \cup
              {[w EXCEPT !.pc = "cancel", !.stop = {cancels[n] : n \in gone}, !.start = start]}
        /\ UNCHANGED <<doc, loops, dns, addr, edits, moves, faults>>

WatchCancel(w) ==
    /\ w.pc = "cancel"
    /\ loops' = [l \in DOMAIN loops |->
           IF l \in w.stop THEN [loops[l] EXCEPT !.cancelled = TRUE] ELSE loops[l]]
    /\ watch' = (watch \ {w}) \cup {[w EXCEPT !.pc = "start", !.stop = {}]}
    /\ UNCHANGED <<doc, cancels, running, states, dns, addr, edits, moves, faults>>

WatchStart(w) ==
    /\ w.pc = "start"
    /\ IF w.start = {} THEN /\ watch' = watch \ {w}
                            /\ UNCHANGED <<cancels, loops>>
       ELSE \E n \in w.start :
          /\ cancels' = (n :> Fresh) @@ cancels
          /\ loops' = (Fresh :> [name |-> n, rec |-> w.want[n], pc |-> "read", addr |-> None,
                                 err |-> FALSE, cancelled |-> FALSE]) @@ loops
          /\ watch' = (watch \ {w}) \cup {[w EXCEPT !.start = @ \ {n}]}
    /\ UNCHANGED <<doc, running, states, dns, addr, edits, moves, faults>>

(***************************************************************************)
(* A loop.                                                                 *)
(***************************************************************************)
backoff(k) == Min({MaxBackoff, 2 ^ (Max({k, 1}) - 1)})

Current(s, a) == s.published = a /\ ~s.err

(* Reading the address, and deciding whether to tell anybody.  A read that *)
(* fails changes nothing and sets no pause.                                *)
ReadAddress(l) ==
    LET c == loops[l]
        s == State(c.name)
        later == [s EXCEPT !.wait = Max({@ - 1, 0})]
    IN  /\ c.pc = "read"
        /\ UNCHANGED <<doc, watch, cancels, running, dns, addr, edits, moves>>
        /\ \/ c.cancelled /\ Exit(l) /\ UNCHANGED <<states, faults>>
           \/ /\ ~c.cancelled /\ Fault
              /\ states' = (c.name :> later) @@ states
              /\ SetLoop(l, [c EXCEPT !.pc = "sleep"])
           \/ /\ ~c.cancelled /\ UNCHANGED faults
              /\ states' = (c.name :> later) @@ states
              /\ SetLoop(l, IF Current(s, addr) \/ s.wait > 0
                            THEN [c EXCEPT !.pc = "sleep"]
                            ELSE [c EXCEPT !.pc = "look", !.addr = addr])

(* The provider is asked what it holds for the name: nothing, and the      *)
(* record is created; one, and it is changed unless it is right already;   *)
(* several, and nothing is touched.  A callback is not asked.              *)
Lookup(have, a) ==
    IF have = <<>> THEN "create"
    ELSE IF Len(have) > 1 THEN "refused"
    ELSE IF have[1] = a THEN "right" ELSE "modify"
Created(have, a) == Append(have, a)
Modified(have, a) == <<a>>

Update(l) ==
    LET c == loops[l]
        next == IF c.rec.key # Good THEN "refused"
                ELSE IF c.rec.place \in Callbacks THEN "modify"
                ELSE Lookup(dns[c.rec.place], c.addr)
    IN  /\ c.pc = "look"
        /\ UNCHANGED <<doc, watch, cancels, running, states, dns, addr, edits, moves>>
        /\ \/ c.cancelled /\ Exit(l) /\ UNCHANGED faults
           \/ ~c.cancelled /\ Fault /\ SetLoop(l, [c EXCEPT !.pc = "record", !.err = TRUE])
           \/ /\ ~c.cancelled /\ UNCHANGED faults
              /\ SetLoop(l, IF next \in {"create", "modify"} THEN [c EXCEPT !.pc = next]
                            ELSE [c EXCEPT !.pc = "record", !.err = next = "refused"])

(* The request that changes the zone: it happens or it does not, and the   *)
(* answer of one that happened may be lost.  A cancelled request may have  *)
(* been sent.                                                              *)
Write(l) ==
    LET c == loops[l]
        p == c.rec.place
        done == IF c.pc = "create" THEN Created(dns[p], c.addr) ELSE Modified(dns[p], c.addr)
    IN  /\ c.pc \in {"create", "modify"}
        /\ UNCHANGED <<doc, watch, cancels, running, states, addr, edits, moves>>
        /\ \/ c.cancelled /\ Exit(l) /\ UNCHANGED <<dns, faults>>
           \/ /\ dns' = [dns EXCEPT ![p] = done]
              /\ SetLoop(l, [c EXCEPT !.pc = "record", !.err = FALSE]) /\ UNCHANGED faults
           \/ /\ dns' \in {dns, [dns EXCEPT ![p] = done]}
              /\ SetLoop(l, [c EXCEPT !.pc = "record", !.err = TRUE]) /\ Fault

publishResult(s, a, err) ==
    IF ~err THEN [published |-> a, err |-> FALSE, failures |-> 0, wait |-> 0]
    ELSE [s EXCEPT !.err = TRUE, !.failures = Min({@ + 1, MaxBackoff + 1}),
                   !.wait = backoff(s.failures + 1)]

Record(l) ==
    LET c == loops[l] IN
    /\ c.pc = "record"
    /\ IF c.cancelled THEN Exit(l) /\ UNCHANGED states
       ELSE /\ states' = (c.name :> publishResult(State(c.name), c.addr, c.err)) @@ states
            /\ SetLoop(l, [c EXCEPT !.pc = "sleep", !.addr = None, !.err = FALSE])
    /\ UNCHANGED <<doc, watch, cancels, running, dns, addr, edits, moves, faults>>

Tick(l) ==
    /\ loops[l].pc = "sleep"
    /\ IF loops[l].cancelled THEN Exit(l) ELSE SetLoop(l, [loops[l] EXCEPT !.pc = "read"])
    /\ UNCHANGED <<doc, watch, cancels, running, states, dns, addr, edits, moves, faults>>

(***************************************************************************)
(* The world, and a restart of the daemon: what was published is forgotten *)
(* and the first check of every record asks the provider again.            *)
(***************************************************************************)
AddressMoves ==
    /\ moves < MaxMoves /\ moves' = moves + 1
    /\ addr' \in Addrs \ {addr}
    /\ UNCHANGED <<doc, watch, cancels, running, states, loops, dns, edits, faults>>

Restart ==
    /\ Fault
    /\ loops' = <<>> /\ cancels' = <<>> /\ running' = <<>> /\ states' = <<>>
    /\ watch' = {[id |-> -1, want |-> doc, pc |-> "lock", stop |-> {}, start |-> {}]}
    /\ UNCHANGED <<doc, dns, addr, edits, moves>>

Init ==
    /\ doc = <<>> /\ watch = {} /\ cancels = <<>> /\ running = <<>> /\ states = <<>>
    /\ loops = <<>> /\ addr \in Addrs
    /\ dns \in [Places -> {<<>>} \cup {<<a>> : a \in Addrs}]
    /\ edits = 0 /\ moves = 0 /\ faults = 0

WatchStep == \E w \in watch : WatchLock(w) \/ WatchCancel(w) \/ WatchStart(w)
Loop(l) == ReadAddress(l) \/ Update(l) \/ Write(l) \/ Record(l) \/ Tick(l)
LoopStep == \E l \in DOMAIN loops : Loop(l)

Next == putRecord \/ deleteRecord \/ WatchStep \/ LoopStep \/ AddressMoves \/ Restart

(* Watch never waits, and the ticker of every loop keeps firing; refusals  *)
(* and outages are bounded by MaxFaults, so they end.                      *)
LoopIds == 1..(2 * MaxPending + 2)
Fairness == WF_vars(WatchStep) /\ \A l \in LoopIds : WF_vars(l \in DOMAIN loops /\ Loop(l))

Spec == Init /\ [][Next]_vars /\ Fairness

(***************************************************************************)
(* Properties.                                                             *)
(***************************************************************************)
(* Once the address stops moving and the provider stops refusing, the      *)
(* publisher comes to believe of every stored record that its place has    *)
(* been told the address, with no refusal outstanding (Check,              *)
(* publisher.go:235): no pause is for ever and no refusal is forgotten.    *)
Publishable(n) == doc[n].key = Good /\ Len(dns[doc[n].place]) < 2
Believed == \A n \in DOMAIN doc : Publishable(n) => Current(State(n), addr)
Settles == <>[]Believed

(* A record that was pointed at a new place is told to the new place: its  *)
(* state is dropped with its loop so that what was published elsewhere     *)
(* does not "suppress the first update to the new place"                   *)
(* (publisher.go:172-174). TLC refutes it: an update of the old loop that  *)
(* returns after the edit is recorded for the new place.                   *)
NewPlaceHears == <>[](\A n \in DOMAIN doc : Publishable(n) => dns[doc[n].place] = <<addr>>)

=============================================================================
