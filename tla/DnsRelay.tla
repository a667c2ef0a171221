------------------------------ MODULE DnsRelay ------------------------------
(***************************************************************************)
(* The DNS relay process: the sockets it binds, the queries it answers,    *)
(* and the record it keeps of them off the answering path.                 *)
(*                                                                         *)
(* Addresses the operator named are bound together or not at all; others   *)
(* may come up late and are retried by a goroutine that races with the     *)
(* shutdown.  Answers pass through a bounded channel, which drops when it  *)
(* is full, to a ring of queries and a bounded map of names.  Which server *)
(* answers a query is module Dns.                                          *)
(***************************************************************************)
EXTENDS Naturals, FiniteSets, FiniteSetsExt, SequencesExt, TLC

CONSTANTS
    Named,      \* addresses the operator named, bound all or none
    Wildcards,  \* one address per family, bound as far as the kernel takes them
    Optional,   \* addresses that may come up late
    Clients,
    Asked,      \* the name a query asks for
    Records,    \* records of an answer: <<owner, "CNAME" or "A", value>>
    MaxAnswer,  \* bound: records in an answer
    TeeBuffer,  \* answers waiting to be recorded
    Capacity,   \* entries of the query log
    MaxNames,   \* entries of the name map
    MaxQueries, \* bound: queries
    MaxFlaps    \* bound: addresses coming and going

VARIABLES
    explicit, \* the operator named addresses
    phase,    \* "start" | "serving" | "stopping" | "stopped" | "failed"
    up,       \* addresses the kernel can bind
    open,     \* addresses with sockets
    pending,  \* optional addresses not bound yet
    held,     \* sockets bound by the retrying goroutine and not handed over yet
    flight,   \* queries being answered: [id, client]
    tee,      \* answers to record
    entries, next, full, \* the ring of the query log
    names,    \* <<client, address>> -> [seen, said: the answer it came from]
    dropped, failed,
    logged,   \* everything ever added to the log (ghost)
    answered, \* answers sent (ghost)
    queries, flaps

sockets == <<explicit, phase, up, open, pending, held, flaps>>
ring == <<entries, next, full, logged>>
vars == <<sockets, flight, tee, ring, names, dropped, failed, answered, queries>>

None == 0 \* an unused slot of the ring

(***************************************************************************)
(* Sockets.                                                                *)
(***************************************************************************)
Required == IF explicit THEN Named ELSE Wildcards

(* bindAll for named addresses, bindAny for the wildcard. *)
bind ==
    /\ phase = "start"
    /\ LET got == Required \cap up
           ok == IF explicit THEN got = Required ELSE got # {} IN
         /\ phase' = IF ok THEN "serving" ELSE "failed"
         /\ open' = IF ok THEN got ELSE {}
         /\ pending' = IF ok THEN Optional ELSE {}
    /\ UNCHANGED <<explicit, up, held, flaps, flight, tee, ring, names, dropped, failed, answered, queries>>

(* Mutant of BindOptional: only the first try binds. *)
BindFirst == \E a \in pending \cap up :
    /\ phase \in {"serving", "stopping"} /\ held = {} /\ flaps = 0
    /\ pending' = pending \ {a} /\ held' = {a}
    /\ UNCHANGED <<explicit, phase, up, open, flaps, flight, tee, ring, names, dropped, failed, answered, queries>>

(* serveOptional binds what is up, then hands it to start. *)
BindOptional == \E a \in pending \cap up :
    /\ phase \in {"serving", "stopping"} /\ held = {}
    /\ pending' = pending \ {a} /\ held' = {a}
    /\ UNCHANGED <<explicit, phase, up, open, flaps, flight, tee, ring, names, dropped, failed, answered, queries>>

(* Mutant of start: the shutdown is not looked at. *)
startAnyway == open' = open \cup held

start == open' = IF phase = "serving" THEN open \cup held ELSE open

StartOptional ==
    /\ held # {} /\ start /\ held' = {}
    /\ UNCHANGED <<explicit, phase, up, pending, flaps, flight, tee, ring, names, dropped, failed, answered, queries>>

(* closeListeners, under the mutex of start. *)
Shutdown ==
    /\ phase = "serving" /\ phase' = "stopping" /\ open' = {}
    /\ UNCHANGED <<explicit, up, pending, held, flaps, flight, tee, ring, names, dropped, failed, answered, queries>>

(* Run returns once the retrying goroutine has noticed. *)
Stopped ==
    /\ phase = "stopping" /\ held = {} /\ phase' = "stopped" /\ pending' = {}
    /\ UNCHANGED <<explicit, up, open, held, flaps, flight, tee, ring, names, dropped, failed, answered, queries>>

(* An interface comes up, or goes: a bound socket stays. *)
Flap == \E a \in Named \cup Wildcards \cup Optional :
    /\ flaps < MaxFlaps /\ flaps' = flaps + 1
    /\ up' = IF a \in up THEN up \ {a} ELSE up \cup {a}
    /\ UNCHANGED <<explicit, phase, open, pending, held, flight, tee, ring, names, dropped, failed, answered, queries>>

(***************************************************************************)
(* Queries.                                                                *)
(***************************************************************************)
Answers == UNION {[1..n -> Records] : n \in 0..MaxAnswer}

Receive == \E c \in Clients :
    /\ phase = "serving" /\ open # {} /\ queries < MaxQueries
    /\ queries' = queries + 1
    /\ flight' = flight \cup {[id |-> queries + 1, client |-> c]}
    /\ UNCHANGED <<sockets, tee, ring, names, dropped, failed, answered>>

(* Never waits for the recorder. *)
observe(o) == IF Len(tee) < TeeBuffer
              THEN tee' = Append(tee, o) /\ UNCHANGED dropped
              ELSE dropped' = dropped + 1 /\ UNCHANGED tee

(* resolve: made up here (blocked, or filtered), refused because the       *)
(* device cannot be told apart, forwarded, or not answered; what the       *)
(* client could not be sent is not recorded.                               *)
Reply == \E q \in flight, how \in {"local", "uncertain", "forwarded"}, said \in Answers :
    /\ how # "forwarded" => said = <<>>
    /\ flight' = flight \ {q}
    /\ failed' = IF how = "uncertain" THEN failed + 1 ELSE failed
    /\ answered' = answered + 1
    /\ observe([id |-> q.id, client |-> q.client, how |-> how, said |-> said])
    /\ UNCHANGED <<sockets, ring, names, queries>>

NoReply == \E q \in flight, upstream \in BOOLEAN :
    /\ flight' = flight \ {q}
    /\ failed' = IF upstream THEN failed + 1 ELSE failed
    /\ UNCHANGED <<sockets, tee, ring, names, dropped, answered, queries>>

(***************************************************************************)
(* The record.                                                             *)
(***************************************************************************)
Follow(acc, r) ==
    CASE r[1] # acc.target -> acc
      [] r[2] = "CNAME" -> [acc EXCEPT !.target = r[3]]
      [] OTHER -> [acc EXCEPT !.addrs = @ \cup {r[3]}]

(* Observe: the addresses at the end of the chain from the name asked. *)
Observe(said) == FoldLeft(Follow, [target |-> Asked, addrs |-> {}], said).addrs

Add(id) ==
    LET last == next + 1 = Capacity IN
    /\ entries' = [entries EXCEPT ![next] = id]
    /\ next' = IF last THEN 0 ELSE next + 1
    /\ full' = (full \/ last)

(* evictLocked: the oldest tenth, here one. *)
evict(map) == IF Cardinality(DOMAIN map) < MaxNames THEN map
    ELSE LET old == CHOOSE k \in DOMAIN map : \A l \in DOMAIN map : map[k].seen <= map[l].seen
         IN  [k \in DOMAIN map \ {old} |-> map[k]]

Record(map, o, addr) == (<<o.client, addr>> :> [seen |-> o.id, said |-> o.said]) @@ evict(map)

(* record: the log takes every answer, the names only forwarded ones. *)
record ==
    /\ phase = "serving" /\ tee # <<>>
    /\ LET o == Head(tee) IN
         /\ Add(o.id)
         /\ logged' = Append(logged, o.id)
         /\ names' = IF o.how = "local" THEN names
                     ELSE FoldSet(LAMBDA a, map : Record(map, o, a), names, Observe(o.said))
    /\ tee' = Tail(tee)
    /\ UNCHANGED <<sockets, flight, dropped, failed, answered, queries>>

(* An answer that cannot be parsed is logged by its question. *)
recordUnparsed ==
    /\ phase = "serving" /\ tee # <<>>
    /\ Add(Head(tee).id) /\ logged' = Append(logged, Head(tee).id)
    /\ tee' = Tail(tee)
    /\ UNCHANGED <<sockets, flight, names, dropped, failed, answered, queries>>

Held == IF full THEN Capacity ELSE next

(* Snapshot: newest first. *)
Queries(limit) ==
    LET n == Min({Held, limit})
        Slot(i) == IF next >= i THEN next - i ELSE next + Capacity - i
    IN  [i \in 1..n |-> entries[Slot(i)]]

Init ==
    /\ explicit \in BOOLEAN /\ phase = "start"
    /\ up \in SUBSET (Named \cup Wildcards) /\ open = {} /\ pending = {} /\ held = {}
    /\ flight = {} /\ tee = <<>>
    /\ entries = [i \in 0..Capacity - 1 |-> None] /\ next = 0 /\ full = FALSE /\ logged = <<>>
    /\ names = [k \in {} |-> [seen |-> 0, said |-> <<>>]]
    /\ dropped = 0 /\ failed = 0 /\ answered = 0 /\ queries = 0 /\ flaps = 0

Next == \/ bind \/ BindOptional \/ StartOptional \/ Shutdown \/ Stopped \/ Flap
        \/ Receive \/ Reply \/ NoReply \/ record \/ recordUnparsed

(* The goroutines run: the start, the retries and the shutdown. *)
Spec == Init /\ [][Next]_vars /\ WF_vars(bind) /\ WF_vars(BindOptional) /\ WF_vars(StartOptional) /\ WF_vars(Stopped)

(***************************************************************************)
(* What the relay promises.                                                *)
(***************************************************************************)
(* Once it stopped or failed, no socket is left: a late bind racing with   *)
(* the shutdown is closed (start), a partial bind is unwound (bindAll).    *)
SocketsClosed == phase \in {"stopping", "stopped", "failed"} => open = {}

(* An address that comes up late and stays is answered on, unless the      *)
(* relay stops (serveOptional).                                            *)
LateAddressServed == \A a \in Optional :
    (phase = "serving" /\ [](a \in up)) ~> (a \in open \/ phase # "serving")

(* What the log shows is the last entries added, newest first, however     *)
(* often the ring went round and whatever the limit (QueryLog).            *)
LogIsTail == /\ Held = Min({Len(logged), Capacity})
             /\ \A limit \in 0..Capacity : \A i \in DOMAIN Queries(limit) :
                  Queries(limit)[i] = logged[Len(logged) + 1 - i]

(* An answer sent is in the log, waiting to be, or counted as dropped: a   *)
(* full channel loses nothing unseen (observe).                            *)
Accounted == answered = Len(logged) + Len(tee) + dropped

(* A name is recorded for an address only if the answer's chain of CNAMEs  *)
(* leads there from the name asked, and the map keeps within its bound     *)
(* (Observe, NameMap).                                                     *)
Leads(said, owner) == \E chain \in SUBSET ToSet(said) :
    /\ \A r \in chain : r[2] = "CNAME"
    /\ {Asked} \cup {r[3] : r \in chain} = {owner} \cup {r[1] : r \in chain}
NamesHonest ==
    /\ Cardinality(DOMAIN names) <= MaxNames
    /\ \A k \in DOMAIN names : \E r \in ToSet(names[k].said) :
         r[2] = "A" /\ r[3] = k[2] /\ Leads(names[k].said, r[1])
=============================================================================
