----------------------------- MODULE StoreProofs -----------------------------
(***************************************************************************)
(* olr.json, for any interfaces, any sections of this and of other builds, *)
(* and any number of edits, failed saves, crashes and edits by hand:       *)
(* nothing written is forgotten and no document on disk is half converted. *)
(*                                                                         *)
(* Neither follows from itself.  While the daemon is down, or a document   *)
(* cannot be read, what the file would hold is what must be kept (Kept),   *)
(* and a rollback may put back the document of the journal at any time, so *)
(* the journal's document is one that what was then written accounts for,  *)
(* with its pools on networks (IsTrial).                                   *)
(***************************************************************************)
EXTENDS Store, TLAPS

(* What is on disk: the document, or what the per-module files make.       *)
Keys == IF file.state = "absent" THEN loadLegacy ELSE file.keys

(* Every section is one that may be there.                                 *)
Holds(keys, w) == \A m \in Sections : \E was \in w[m] : Same(m, was, keys)

(* Pools that are not on interfaces are on networks of the document.       *)
Paired(keys) == ~Pooled(keys) => Pools(keys) \subseteq DOMAIN Nets(keys)

IsMay(w) == w = [m \in Sections |-> w[m]]
IsFile ==
    /\ file = [state |-> file.state, keys |-> file.keys]
    /\ file.state \in {"absent", "corrupt", "doc"}
IsTrial ==
    /\ trial = [state |-> trial.state, before |-> trial.before, may |-> trial.may]
    /\ trial.state \in {"none", "pending", "failed"}
    /\ trial.state # "none" => /\ IsMay(trial.may)
                               /\ Holds(trial.before, trial.may)
                               /\ Paired(trial.before)
Kept == trial.state # "failed" => Holds(Keys, may)

Whole == IsFile /\ IsTrial /\ IsMay(may) /\ Paired(Keys) /\ Kept

(* A daemon that is recovering has a journal to recover from.              *)
Recovering == pc = "recover" => trial.state # "none"

IInv == Whole /\ Recovering

(***************************************************************************)
(* Documents.                                                              *)
(***************************************************************************)
LEMMA OneIsSome == \A s : <<s>> # <<>> /\ <<s>>[1] = s
  OBVIOUS

(* Two documents with the same sections are the same to every reader.      *)
LEMMA Alike ==
    ASSUME NEW a, NEW b, DOMAIN a = DOMAIN b, \A m \in DOMAIN a : a[m] = b[m]
    PROVE  /\ \A m : Raw(a, m) = Raw(b, m)
           /\ Nets(a) = Nets(b) /\ Pools(a) = Pools(b)
           /\ Pooled(a) <=> Pooled(b)
  BY DEF Raw, Nets, Pools, Pooled

LEMMA SameFor ==
    ASSUME NEW a, NEW b, \A m : Raw(a, m) = Raw(b, m), Nets(a) = Nets(b), Pools(a) = Pools(b),
           Pooled(a) <=> Pooled(b)
    PROVE  /\ \A w : Holds(a, w) <=> Holds(b, w)
           /\ Paired(a) <=> Paired(b)
  <1>1. \A m, was : Same(m, was, a) <=> Same(m, was, b)
    BY DEF Same
  <1> QED BY <1>1 DEF Holds, Paired

(* Saving loses no section.                                                *)
LEMMA Encoded ==
    ASSUME NEW keys
    PROVE  /\ \A w : Holds(encode(keys), w) <=> Holds(keys, w)
           /\ Paired(encode(keys)) <=> Paired(keys)
  <1>1. DOMAIN encode(keys) = DOMAIN keys /\ \A m \in DOMAIN keys : encode(keys)[m] = keys[m]
    BY DEF encode
  <1>2. /\ \A m : Raw(encode(keys), m) = Raw(keys, m)
        /\ Nets(encode(keys)) = Nets(keys) /\ Pools(encode(keys)) = Pools(keys)
        /\ Pooled(encode(keys)) <=> Pooled(keys)
    BY <1>1, Alike
  <1> QED BY <1>2, SameFor

(* One section replaced.                                                   *)
LEMMA PutIs ==
    ASSUME NEW keys, NEW m, NEW s
    PROVE  /\ \A n : Raw(Put(keys, m, s), n) = IF n = m THEN <<s>> ELSE Raw(keys, n)
           /\ Nets(Put(keys, m, s)) = IF m = "link" THEN s.nets ELSE Nets(keys)
           /\ Pools(Put(keys, m, s)) = IF m = "dhcp" THEN s.pools ELSE Pools(keys)
           /\ Pooled(Put(keys, m, s)) <=> IF m = "dhcp" THEN s.key = "interface" ELSE Pooled(keys)
  <1> DEFINE new == Put(keys, m, s)
  <1>1. DOMAIN new = DOMAIN keys \cup {m} /\ \A n \in DOMAIN new : new[n] = IF n = m THEN s ELSE keys[n]
    BY DEF Put
  <1> HIDE DEF new
  <1>2. \A n : Raw(new, n) = IF n = m THEN <<s>> ELSE Raw(keys, n)
    BY <1>1 DEF Raw
  <1>3. Nets(new) = IF m = "link" THEN s.nets ELSE Nets(keys)
    BY <1>1 DEF Nets
  <1>4. Pools(new) = IF m = "dhcp" THEN s.pools ELSE Pools(keys)
    BY <1>1 DEF Pools
  <1>5. Pooled(new) <=> IF m = "dhcp" THEN s.key = "interface" ELSE Pooled(keys)
    BY <1>1 DEF Pooled
  <1> QED BY <1>2, <1>3, <1>4, <1>5 DEF new

LEMMA HoldsPut ==
    ASSUME NEW keys, NEW w, Holds(keys, w), IsMay(w), NEW m, NEW s, NEW V, <<s>> \in V
    PROVE  Holds(Put(keys, m, s), [w EXCEPT ![m] = V]) /\ IsMay([w EXCEPT ![m] = V])
  <1> DEFINE new == Put(keys, m, s)
             u == [w EXCEPT ![m] = V]
  <1>1. /\ \A n : Raw(new, n) = IF n = m THEN <<s>> ELSE Raw(keys, n)
        /\ Nets(new) = IF m = "link" THEN s.nets ELSE Nets(keys)
        /\ Pools(new) = IF m = "dhcp" THEN s.pools ELSE Pools(keys)
    BY PutIs
  <1>2. DOMAIN w = Sections
    BY DEF IsMay
  <1>3. u = [n \in Sections |-> IF n = m THEN V ELSE w[n]]
    BY <1>2 DEF IsMay
  <1>4. IsMay(u)
    BY <1>3 DEF IsMay
  <1> HIDE DEF new, u
  <1>5. Same(m, <<s>>, new)
    BY <1>1, OneIsSome DEF Same, NetsOf
  <1>6. \A n, was : n # m /\ Same(n, was, keys) => Same(n, was, new)
    BY <1>1 DEF Same
  <1>7. ASSUME NEW n \in Sections PROVE \E was \in u[n] : Same(n, was, new)
    <2>1. CASE n = m
      BY <1>3, <1>5, <2>1
    <2>2. CASE n # m
      <3>1. u[n] = w[n]
        BY <1>3, <2>2
      <3>2. PICK was \in w[n] : Same(n, was, keys)
        BY DEF Holds
      <3> QED BY <1>6, <2>2, <3>1, <3>2
    <2> QED BY <2>1, <2>2
  <1> QED BY <1>4, <1>7 DEF Holds, new, u

LEMMA HoldsWrites == ASSUME NEW keys PROVE Holds(keys, Writes(keys)) /\ IsMay(Writes(keys))
  <1>1. \A m \in Sections : Raw(keys, m) \in Writes(keys)[m]
    BY DEF Writes
  <1>2. \A m : Same(m, Raw(keys, m), keys)
    BY OneIsSome DEF Same, Raw, NetsOf, Nets, Pools
  <1>3. IsMay(Writes(keys))
    BY DEF IsMay, Writes
  <1> QED BY <1>1, <1>2, <1>3 DEF Holds

(* The conversion.                                                         *)
LEMMA MigratedIs ==
    ASSUME NEW keys
    PROVE  /\ Nets(Migrated(keys)) = IF Pooled(keys) THEN migratePools(keys) ELSE Nets(keys)
           /\ Pools(Migrated(keys)) = Pools(keys)
           /\ ~Pooled(Migrated(keys))
           /\ \A m : m \notin {"link", "dhcp"} => Raw(Migrated(keys), m) = Raw(keys, m)
  <1> DEFINE dhcp == Pooled(keys) \/ hasLegacyKeys(keys, "dhcp")
             link == Pooled(keys) \/ hasLegacyKeys(keys, "link")
             nets == IF Pooled(keys) THEN migratePools(keys) ELSE Nets(keys)
             one == IF dhcp THEN Put(keys, "dhcp", DhcpSection(Pools(keys))) ELSE keys
  <1>1. Migrated(keys) = IF link THEN Put(one, "link", LinkSection(nets)) ELSE one
    BY DEF Migrated
  <1>2. /\ DhcpSection(Pools(keys)).pools = Pools(keys) /\ DhcpSection(Pools(keys)).key = "network"
        /\ LinkSection(nets).nets = nets
    BY DEF DhcpSection, LinkSection
  <1>3. /\ \A m : m # "dhcp" => Raw(one, m) = Raw(keys, m)
        /\ Nets(one) = Nets(keys) /\ Pools(one) = Pools(keys) /\ ~Pooled(one)
    <2>1. CASE dhcp
      <3>1. one = Put(keys, "dhcp", DhcpSection(Pools(keys)))
        BY <2>1
      <3> HIDE DEF one
      <3> QED BY <1>2, <3>1, PutIs
    <2>2. CASE ~dhcp
      BY <2>2
    <2> QED BY <2>1, <2>2
  <1>4. ~link => ~Pooled(keys)
    OBVIOUS
  <1> HIDE DEF one, nets, link
  <1>5. CASE link
    <2>1. Migrated(keys) = Put(one, "link", LinkSection(nets))
      BY <1>1, <1>5
    <2> QED BY <1>2, <1>3, <2>1, PutIs DEF nets
  <1>6. CASE ~link
    BY <1>1, <1>3, <1>4, <1>6
  <1> QED BY <1>5, <1>6

LEMMA MigratedPaired == ASSUME NEW keys, Paired(keys) PROVE Paired(Migrated(keys))
  <1>1. /\ Nets(Migrated(keys)) = IF Pooled(keys) THEN migratePools(keys) ELSE Nets(keys)
        /\ Pools(Migrated(keys)) = Pools(keys)
    BY MigratedIs
  <1>2. Pools(keys) \subseteq DOMAIN migratePools(keys)
    BY DEF migratePools
  <1> QED BY <1>1, <1>2 DEF Paired

(* The conversion adds networks and changes none.                          *)
LEMMA MigratedHolds ==
    ASSUME SectionsOK, NEW keys, NEW w, Holds(keys, w), IsMay(w), NEW u,
           u = IF Pooled(keys) THEN [w EXCEPT !["link"] = {Converted(was, Pools(keys)) : was \in @}] ELSE w
    PROVE  Holds(Migrated(keys), u)
  <1> DEFINE new == Migrated(keys)
  <1>1. /\ Nets(new) = IF Pooled(keys) THEN migratePools(keys) ELSE Nets(keys)
        /\ Pools(new) = Pools(keys)
        /\ \A m : m \notin {"link", "dhcp"} => Raw(new, m) = Raw(keys, m)
    BY MigratedIs
  <1> HIDE DEF new
  <1>2. \A m, was : m # "link" /\ Same(m, was, keys) => Same(m, was, new)
    BY <1>1 DEF Same
  <1>3. DOMAIN w = Sections /\ "link" \in Sections
    BY DEF IsMay, Sections, SectionsOK
  <1>4. CASE ~Pooled(keys)
    <2>1. \A m, was : Same(m, was, keys) => Same(m, was, new)
      BY <1>1, <1>4 DEF Same
    <2> QED BY <1>4, <2>1 DEF Holds, new
  <1>5. CASE Pooled(keys)
    <2>1. u = [w EXCEPT !["link"] = {Converted(was, Pools(keys)) : was \in @}]
      BY <1>5
    <2>2. u["link"] = {Converted(was, Pools(keys)) : was \in w["link"]}
      BY <1>3, <2>1
    <2>3. \A m \in Sections : m # "link" => u[m] = w[m]
      BY <1>3, <2>1
    <2>4. ASSUME NEW m \in Sections, m # "link" PROVE \E was \in u[m] : Same(m, was, new)
      BY <1>2, <2>3, <2>4 DEF Holds
    <2>5. PICK was \in w["link"] : Same("link", was, keys)
      BY <1>3 DEF Holds
    <2>6. NetsOf(was) = Nets(keys)
      BY <2>5 DEF Same
    <2> DEFINE c == [e \in DOMAIN NetsOf(was) \cup Pools(keys) |->
                        IF e \in DOMAIN NetsOf(was) THEN NetsOf(was)[e] ELSE addr[e]]
    <2>7. Converted(was, Pools(keys)) = <<LinkSection(c)>>
      BY DEF Converted
    <2>8. c = migratePools(keys)
      <3>1. PICK f : f = Nets(keys)
        OBVIOUS
      <3>2. PICK P : P = Pools(keys)
        OBVIOUS
      <3>3. c = [e \in DOMAIN f \cup P |-> IF e \in DOMAIN f THEN f[e] ELSE addr[e]]
        BY <2>6, <3>1, <3>2
      <3>4. migratePools(keys) = [e \in DOMAIN f \cup (P \ DOMAIN f) |->
                                    IF e \in P \ DOMAIN f THEN addr[e] ELSE f[e]]
        BY <3>1, <3>2 DEF migratePools
      <3>5. DOMAIN f \cup P = DOMAIN f \cup (P \ DOMAIN f)
        OBVIOUS
      <3> QED BY <3>3, <3>4, <3>5
    <2>9. NetsOf(<<LinkSection(c)>>) = c
      <3> HIDE DEF c
      <3>1. LinkSection(c).nets = c
        BY DEF LinkSection
      <3> QED BY <3>1, OneIsSome DEF NetsOf
    <2> HIDE DEF c
    <2>10. Same("link", Converted(was, Pools(keys)), new)
      BY <1>1, <1>5, <2>7, <2>8, <2>9 DEF Same
    <2>11. \E x \in u["link"] : Same("link", x, new)
      BY <2>2, <2>10
    <2> QED BY <2>4, <2>11 DEF Holds, new
  <1> QED BY <1>4, <1>5

(* A saved document, or what was there.                                    *)
LEMMA Saved ==
    ASSUME IsFile, NEW keys, NEW r, Save(keys, r)
    PROVE  IF r = "early" THEN file' = file
           ELSE /\ file' = [state |-> "doc", keys |-> encode(keys)]
  BY DEF Save

(* What is read is what is on disk.                                        *)
LEMMA LoadedIs == ASSUME IsFile, Load.ok PROVE Load.keys = Keys
  BY DEF IsFile, Load, Keys

LEMMA DocOnDisk ==
    ASSUME NEW keys, file' = [state |-> "doc", keys |-> encode(keys)], Paired(keys)
    PROVE  /\ IsFile' /\ Keys' = encode(keys) /\ Paired(Keys')
           /\ \A w : Holds(Keys', w) <=> Holds(keys, w)
  <1>1. PICK k : k = encode(keys)
    OBVIOUS
  <1>2. file' = [state |-> "doc", keys |-> k]
    BY <1>1
  <1>3. IsFile' /\ file'.state = "doc" /\ file'.keys = k
    BY <1>2 DEF IsFile
  <1>4. Keys' = k
    BY <1>3 DEF Keys
  <1>5. Paired(encode(keys)) /\ \A w : Holds(encode(keys), w) <=> Holds(keys, w)
    BY Encoded
  <1> QED BY <1>1, <1>3, <1>4, <1>5

LEMMA SameOnDisk ==
    ASSUME IsFile, Paired(Keys), file' = file, legacy' = legacy
    PROVE  IsFile' /\ Keys' = Keys /\ Paired(Keys')
  BY DEF IsFile, Keys, loadLegacy

(* The journal as it was.                                                  *)
LEMMA SameTrial == ASSUME IsTrial, trial' = trial PROVE IsTrial'
  BY DEF IsTrial

(***************************************************************************)
(* The actions.                                                            *)
(***************************************************************************)
(* The daemon starts, and converts an old document.                        *)
LEMMA StartKeeps == ASSUME SectionsOK, Whole, Start PROVE Whole'
  <1> DEFINE keys == Load.keys
  <1>1. IsFile /\ IsTrial /\ IsMay(may) /\ Paired(Keys) /\ Kept
    BY DEF Whole
  <1>2. PICK interfaces \in BOOLEAN, r \in Outcomes :
            /\ IF interfaces /\ Readable(keys, interfaces) /\ Migrates(keys) THEN Save(Migrated(keys), r)
               ELSE file' = file
            /\ may' = IF file' = file \/ ~Pooled(keys) THEN may
                      ELSE [may EXCEPT !["link"] = {Converted(was, Pools(keys)) : was \in @}]
            /\ legacy' = legacy /\ trial' = trial
    BY DEF Start
  <1>3. IsTrial'
    BY <1>1, <1>2, SameTrial
  <1>4. IsMay(may')
    <2>1. DOMAIN may = Sections
      BY <1>1 DEF IsMay
    <2> QED BY <1>1, <1>2, <2>1 DEF IsMay
  <1>5. CASE file' = file
    <2>1. may' = may
      BY <1>2, <1>5
    <2>2. IsFile' /\ Keys' = Keys /\ Paired(Keys')
      BY <1>1, <1>2, <1>5, SameOnDisk
    <2>3. Kept'
      BY <1>1, <1>2, <2>1, <2>2 DEF Kept
    <2> QED BY <1>3, <1>4, <2>2, <2>3 DEF Whole
  <1>6. CASE file' # file
    <2>1. Readable(keys, interfaces) /\ Save(Migrated(keys), r)
      BY <1>2, <1>6
    <2>2. Load.ok
      BY <2>1 DEF Readable
    <2>3. keys = Keys
      BY <1>1, <2>2, LoadedIs
    <2>4. file' = [state |-> "doc", keys |-> encode(Migrated(keys))]
      BY <1>6, <2>1 DEF Save
    <2>5. Paired(Migrated(keys))
      BY <1>1, <2>3, MigratedPaired
    <2> HIDE DEF keys
    <2>6. /\ IsFile' /\ Paired(Keys')
          /\ \A w : Holds(Keys', w) <=> Holds(Migrated(keys), w)
      BY <2>4, <2>5, DocOnDisk
    <2>7. may' = IF Pooled(keys) THEN [may EXCEPT !["link"] = {Converted(was, Pools(keys)) : was \in @}]
                 ELSE may
      BY <1>2, <1>6
    <2>8. Kept'
      <3> SUFFICES ASSUME trial'.state # "failed" PROVE Holds(Keys', may')
        BY DEF Kept
      <3>1. Holds(keys, may)
        BY <1>1, <1>2, <2>3 DEF Kept
      <3>2. Holds(Migrated(keys), may')
        BY <1>1, <2>7, <3>1, MigratedHolds
      <3> QED BY <2>6, <3>2
    <2> QED BY <1>3, <1>4, <2>6, <2>8 DEF Whole
  <1> QED BY <1>5, <1>6

(* A step that leaves the document, the journal and what was written.      *)
LEMMA RestKeeps ==
    ASSUME Whole, UNCHANGED <<file, legacy, may>>,
           trial' = trial \/ (trial' = NoTrial /\ trial.state # "failed")
    PROVE  Whole'
  <1>1. IsFile /\ IsTrial /\ IsMay(may) /\ Paired(Keys) /\ Kept
    BY DEF Whole
  <1>2. IsFile' /\ Keys' = Keys /\ Paired(Keys')
    BY <1>1, SameOnDisk
  <1>3. IsMay(may)'
    BY <1>1 DEF IsMay
  <1>4. CASE trial' = trial
    <2>1. IsTrial'
      BY <1>1, <1>4, SameTrial
    <2>2. Kept'
      BY <1>1, <1>2, <1>4 DEF Kept
    <2> QED BY <1>2, <1>3, <2>1, <2>2 DEF Whole
  <1>5. CASE trial' = NoTrial /\ trial.state # "failed"
    <2>1. IsTrial' /\ trial'.state = "none"
      BY <1>5 DEF NoTrial, IsTrial
    <2>2. Kept'
      BY <1>1, <1>2, <1>5 DEF Kept
    <2> QED BY <1>2, <1>3, <2>1, <2>2 DEF Whole
  <1> QED BY <1>4, <1>5

(* The journal when it is marked failed.                                   *)
LEMMA FailedTrial ==
    ASSUME IsTrial, trial.state # "none", trial' = [trial EXCEPT !.state = "failed"]
    PROVE  IsTrial' /\ trial'.state = "failed"
  <1>1. PICK t : t = trial
    OBVIOUS
  <1>2. /\ t = [state |-> t.state, before |-> t.before, may |-> t.may]
        /\ IsMay(t.may) /\ Holds(t.before, t.may) /\ Paired(t.before)
    BY <1>1 DEF IsTrial
  <1>3. trial' = [t EXCEPT !.state = "failed"]
    BY <1>1
  <1>4. trial' = [state |-> "failed", before |-> t.before, may |-> t.may]
    BY <1>2, <1>3
  <1>5. trial'.state = "failed" /\ trial'.before = t.before /\ trial'.may = t.may
    BY <1>4
  <1> QED BY <1>2, <1>4, <1>5 DEF IsTrial

LEMMA RevertKeeps == ASSUME Whole, Revert PROVE Whole'
  <1>1. IsFile /\ IsTrial /\ IsMay(may) /\ Paired(Keys) /\ Kept
    BY DEF Whole
  <1>2. PICK r \in Outcomes, applied \in BOOLEAN :
            /\ IF applied THEN Save(trial.before, r)
               ELSE file' = [state |-> "doc", keys |-> encode(trial.before)]
            /\ trial' = IF r = "ok" /\ applied THEN NoTrial ELSE [trial EXCEPT !.state = "failed"]
            /\ may' = IF r = "ok" /\ applied THEN trial.may ELSE may
    BY DEF Revert
  <1>3. trial.state # "none" /\ legacy' = legacy
    BY DEF Revert
  <1>4. /\ IsMay(trial.may)
        /\ Holds(trial.before, trial.may)
        /\ Paired(trial.before)
    BY <1>1, <1>3 DEF IsTrial
  <1>5. file' = file \/ file' = [state |-> "doc", keys |-> encode(trial.before)]
    BY <1>2 DEF Save
  <1>6. IsFile' /\ Paired(Keys')
    <2>1. CASE file' = file
      BY <1>1, <1>3, <2>1, SameOnDisk
    <2>2. CASE file' = [state |-> "doc", keys |-> encode(trial.before)]
      BY <1>4, <2>2, DocOnDisk
    <2> QED BY <1>5, <2>1, <2>2
  <1>7. CASE r = "ok" /\ applied
    <2>1. file' = [state |-> "doc", keys |-> encode(trial.before)]
      BY <1>2, <1>7 DEF Save
    <2>2. trial' = NoTrial /\ may' = trial.may
      BY <1>2, <1>7
    <2>3. IsTrial'
      BY <2>2 DEF NoTrial, IsTrial
    <2>4. Holds(Keys', may')
      BY <1>4, <2>1, <2>2, DocOnDisk
    <2>5. IsMay(may')
      BY <1>4, <2>2
    <2> QED BY <1>6, <2>3, <2>4, <2>5 DEF Whole, Kept
  <1>8. CASE ~(r = "ok" /\ applied)
    <2>1. trial' = [trial EXCEPT !.state = "failed"] /\ may' = may
      BY <1>2, <1>8
    <2>2. IsTrial' /\ trial'.state = "failed"
      BY <1>1, <1>3, <2>1, FailedTrial
    <2>3. Kept' /\ IsMay(may')
      BY <1>1, <2>1, <2>2 DEF Kept
    <2> QED BY <1>6, <2>2, <2>3 DEF Whole
  <1> QED BY <1>7, <1>8

LEMMA RecoverFailsKeeps == ASSUME Whole, RecoverFails, trial.state # "none" PROVE Whole'
  <1>1. IsFile /\ IsTrial /\ IsMay(may) /\ Paired(Keys) /\ Kept
    BY DEF Whole
  <1>2. UNCHANGED <<file, legacy, may>> /\ trial' = [trial EXCEPT !.state = "failed"]
    BY DEF RecoverFails
  <1>3. IsTrial' /\ trial'.state = "failed"
    BY <1>1, <1>2, FailedTrial
  <1>4. IsFile' /\ Paired(Keys')
    BY <1>1, <1>2, SameOnDisk
  <1> QED BY <1>1, <1>2, <1>3, <1>4 DEF Whole, Kept

(* The journal a request begins holds the document before it.              *)
LEMMA BegunTrial ==
    ASSUME IsMay(may), NEW keys, Holds(keys, may), Paired(keys), NEW st \in {"pending", "failed"},
           trial' = [state |-> st, before |-> keys, may |-> may]
    PROVE  IsTrial' /\ trial'.state = st
  <1>1. trial'.state = st /\ trial'.before = keys /\ trial'.may = may
    OBVIOUS
  <1>2. trial' = [state |-> trial'.state, before |-> trial'.before, may |-> trial'.may]
    BY <1>1
  <1> QED BY <1>1, <1>2 DEF IsTrial

(* One section edited, whether its save is reported or not.                *)
LEMMA EditedPaired ==
    ASSUME NEW keys, Paired(keys), NEW m, NEW s \in Edited(keys, m), m = "link" => ~Pooled(keys)
    PROVE  Paired(Put(keys, m, s))
  <1> DEFINE new == Put(keys, m, s)
  <1>1. /\ Nets(new) = IF m = "link" THEN s.nets ELSE Nets(keys)
        /\ Pools(new) = IF m = "dhcp" THEN s.pools ELSE Pools(keys)
        /\ Pooled(new) <=> IF m = "dhcp" THEN s.key = "interface" ELSE Pooled(keys)
    BY PutIs
  <1> HIDE DEF new
  <1>2. CASE m = "link"
    <2>1. s \in {LinkSection(f) : f \in
                    UNION {[d -> {Held}] : d \in {d \in SUBSET Ifaces : Pools(keys) \subseteq d}}}
      BY <1>2 DEF Edited
    <2>2. PICK d \in SUBSET Ifaces : Pools(keys) \subseteq d /\ \E f \in [d -> {Held}] : s = LinkSection(f)
      BY <2>1
    <2>3. PICK f \in [d -> {Held}] : s = LinkSection(f)
      BY <2>2
    <2>4. s.nets = f /\ DOMAIN f = d
      BY <2>3 DEF LinkSection
    <2> QED BY <1>1, <1>2, <2>2, <2>4 DEF Paired, new
  <1>3. CASE m = "dhcp"
    <2>1. PICK p \in SUBSET DOMAIN Nets(keys) : s = DhcpSection(p)
      BY <1>3 DEF Edited
    <2>2. s.pools = p
      BY <2>1 DEF DhcpSection
    <2> QED BY <1>1, <1>3, <2>1, <2>2 DEF Paired, new
  <1>4. CASE m \notin {"link", "dhcp"}
    BY <1>1, <1>4 DEF Paired, new
  <1> QED BY <1>2, <1>3, <1>4

LEMMA EditKeeps == ASSUME SectionsOK, Whole, Edit PROVE Whole'
  <1>1. IsFile /\ IsTrial /\ IsMay(may) /\ Paired(Keys) /\ Kept
    BY DEF Whole
  <1>2. trial.state # "failed" /\ Load.ok /\ legacy' = legacy
    BY DEF Edit
  <1>3. Load.keys = Keys /\ Holds(Keys, may)
    BY <1>1, <1>2, LoadedIs DEF Kept
  <1>4. PICK m \in Known, r \in Outcomes, disruptive \in BOOLEAN :
            /\ \E s \in Edited(Keys, m) :
                /\ (m = "link" => ~Pooled(Keys))
                /\ Save(Put(Keys, m, s), r)
                /\ may' = [may EXCEPT ![m] = IF r = "ok" THEN {<<s>>} ELSE @ \cup {<<s>>}]
            /\ trial' = IF disruptive /\ trial.state = "none" THEN Begun(Keys) ELSE trial
    BY <1>3 DEF Edit
  <1>5. PICK s \in Edited(Keys, m) :
            /\ (m = "link" => ~Pooled(Keys))
            /\ Save(Put(Keys, m, s), r)
            /\ may' = [may EXCEPT ![m] = IF r = "ok" THEN {<<s>>} ELSE @ \cup {<<s>>}]
    BY <1>4
  <1>6. m \in Sections /\ DOMAIN may = Sections
    BY <1>1 DEF Sections, IsMay
  <1>7. PICK V : V = IF r = "ok" THEN {<<s>>} ELSE may[m] \cup {<<s>>}
    OBVIOUS
  <1>8. may' = [may EXCEPT ![m] = V] /\ <<s>> \in V
    BY <1>5, <1>6, <1>7
  <1>9. IsMay(may') /\ Holds(Put(Keys, m, s), may')
    BY <1>1, <1>3, <1>8, HoldsPut
  <1>10. Paired(Put(Keys, m, s))
    BY <1>1, <1>5, EditedPaired
  <1>11. IsTrial' /\ trial'.state # "failed"
    <2>1. CASE trial' = trial
      BY <1>1, <1>2, <2>1, SameTrial
    <2>2. CASE trial' = Begun(Keys)
      <3>1. trial' = [state |-> "pending", before |-> Keys, may |-> may]
        BY <2>2 DEF Begun
      <3> QED BY <1>1, <1>3, <3>1, BegunTrial
    <2> QED BY <1>4, <2>1, <2>2
  <1>12. CASE r = "early"
    <2>1. file' = file
      BY <1>5, <1>12 DEF Save
    <2>2. IsFile' /\ Keys' = Keys /\ Paired(Keys')
      BY <1>1, <1>2, <2>1, SameOnDisk
    <2>3. \A n \in Sections : may[n] \subseteq may'[n]
      BY <1>6, <1>7, <1>8, <1>12
    <2>4. Holds(Keys, may')
      BY <1>3, <2>3 DEF Holds
    <2> QED BY <1>9, <1>11, <2>2, <2>4 DEF Whole, Kept
  <1>13. CASE r # "early"
    <2>1. file' = [state |-> "doc", keys |-> encode(Put(Keys, m, s))]
      BY <1>5, <1>13 DEF Save
    <2>2. PICK new : new = Put(Keys, m, s)
      OBVIOUS
    <2>3. IsFile' /\ Paired(Keys') /\ \A w : Holds(Keys', w) <=> Holds(new, w)
      BY <1>10, <2>1, <2>2, DocOnDisk
    <2>4. Holds(Keys', may')
      BY <1>9, <2>2, <2>3
    <2> QED BY <1>9, <1>11, <2>3, <2>4 DEF Whole, Kept
  <1> QED BY <1>12, <1>13

LEMMA RestoreKeeps == ASSUME Whole, restore PROVE Whole'
  <1>1. IsFile /\ IsTrial /\ IsMay(may) /\ Paired(Keys) /\ Kept
    BY DEF Whole
  <1>2. trial.state = "none" /\ Load.ok /\ legacy' = legacy
    BY DEF restore
  <1>3. Load.keys = Keys /\ Holds(Keys, may)
    BY <1>1, <1>2, LoadedIs DEF Kept
  <1>4. PICK keys : keys = backup[1]
    OBVIOUS
  <1>5. PICK r \in Outcomes, applied \in BOOLEAN :
            /\ validateBackup(keys)
            /\ IF applied THEN Save(keys, r) ELSE file' = [state |-> "doc", keys |-> encode(keys)]
            /\ trial' = [Begun(Keys) EXCEPT !.state = IF r = "ok" /\ applied THEN @ ELSE "failed"]
            /\ may' = IF r = "ok" /\ applied THEN Writes(keys) ELSE may
    BY <1>3, <1>4 DEF restore
  <1>6. Paired(keys)
    BY <1>5 DEF validateBackup, Paired
  <1>7. PICK st : st = IF r = "ok" /\ applied THEN "pending" ELSE "failed"
    OBVIOUS
  <1>8. trial' = [state |-> st, before |-> Keys, may |-> may]
    BY <1>5, <1>7 DEF Begun
  <1>9. IsTrial' /\ trial'.state = st
    BY <1>1, <1>3, <1>7, <1>8, BegunTrial
  <1>10. file' = file \/ file' = [state |-> "doc", keys |-> encode(keys)]
    BY <1>5 DEF Save
  <1>11. IsFile' /\ Paired(Keys')
    <2>1. CASE file' = file
      BY <1>1, <1>2, <2>1, SameOnDisk
    <2>2. CASE file' = [state |-> "doc", keys |-> encode(keys)]
      BY <1>6, <2>2, DocOnDisk
    <2> QED BY <1>10, <2>1, <2>2
  <1>12. CASE r = "ok" /\ applied
    <2>1. file' = [state |-> "doc", keys |-> encode(keys)] /\ may' = Writes(keys)
      BY <1>5, <1>12 DEF Save
    <2>2. Holds(keys, may') /\ IsMay(may')
      BY <2>1, HoldsWrites
    <2>3. Holds(Keys', may')
      BY <1>6, <2>1, <2>2, DocOnDisk
    <2> QED BY <1>9, <1>11, <2>2, <2>3 DEF Whole, Kept
  <1>13. CASE ~(r = "ok" /\ applied)
    <2>1. trial'.state = "failed" /\ may' = may
      BY <1>5, <1>7, <1>9, <1>13
    <2> QED BY <1>1, <1>9, <1>11, <2>1 DEF Whole, Kept
  <1> QED BY <1>12, <1>13

(* An edit by hand is what the section then holds, and respells nothing    *)
(* into pools on interfaces.                                               *)
LEMMA RespelledPaired ==
    ASSUME NEW old, Paired(old), ~Pooled(old), NEW keys \in Respelled(old)
    PROVE  Paired(keys)
  <1>1. CASE \E k \in {"groups", "both", "bad"} : keys = Put(old, "link", [key |-> k, nets |-> Nets(old)])
    <2>1. PICK k \in {"groups", "both", "bad"} : keys = Put(old, "link", [key |-> k, nets |-> Nets(old)])
      BY <1>1
    <2>2. PICK s : s = [key |-> k, nets |-> Nets(old)]
      OBVIOUS
    <2>3. s.nets = Nets(old)
      BY <2>2
    <2>4. keys = Put(old, "link", s)
      BY <2>1, <2>2
    <2>5. Nets(keys) = Nets(old) /\ Pools(keys) = Pools(old)
      BY <2>3, <2>4, PutIs
    <2> QED BY <2>5 DEF Paired
  <1>2. CASE \E k \in {"group", "both", "bad"} : keys = Put(old, "dhcp", [key |-> k, pools |-> Pools(old)])
    <2>1. PICK k \in {"group", "both", "bad"} : keys = Put(old, "dhcp", [key |-> k, pools |-> Pools(old)])
      BY <1>2
    <2>2. PICK s : s = [key |-> k, pools |-> Pools(old)]
      OBVIOUS
    <2>3. s.pools = Pools(old)
      BY <2>2
    <2>4. keys = Put(old, "dhcp", s)
      BY <2>1, <2>2
    <2>5. Nets(keys) = Nets(old) /\ Pools(keys) = Pools(old)
      BY <2>3, <2>4, PutIs
    <2> QED BY <2>5 DEF Paired
  <1> QED BY <1>1, <1>2 DEF Respelled

LEMMA HandEditKeeps == ASSUME Whole, HandEdit PROVE Whole'
  <1>1. IsFile /\ IsTrial /\ IsMay(may) /\ Paired(Keys) /\ Kept
    BY DEF Whole
  <1>2. file.state = "doc" /\ ~Pooled(file.keys) /\ legacy' = legacy /\ trial' = trial
    BY DEF HandEdit
  <1>3. IsTrial'
    BY <1>1, <1>2, SameTrial
  <1>4. Keys = file.keys
    BY <1>2 DEF Keys
  <1>5. CASE file' = [file EXCEPT !.state = "corrupt"] /\ may' = may
    <2>1. file' = [state |-> "corrupt", keys |-> file.keys]
      BY <1>1, <1>5 DEF IsFile
    <2>2. IsFile' /\ Keys' = file.keys
      BY <2>1 DEF IsFile, Keys
    <2> QED BY <1>1, <1>2, <1>3, <1>4, <1>5, <2>2 DEF Whole, Kept
  <1>6. CASE \E keys \in Respelled(file.keys) :
                file' = [state |-> "doc", keys |-> keys] /\ may' = Writes(keys)
    <2>1. PICK keys \in Respelled(file.keys) :
                file' = [state |-> "doc", keys |-> keys] /\ may' = Writes(keys)
      BY <1>6
    <2>2. IsFile' /\ Keys' = keys
      BY <2>1 DEF IsFile, Keys
    <2>3. Paired(keys)
      BY <1>1, <1>2, <1>4, RespelledPaired
    <2>4. Holds(keys, may') /\ IsMay(may')
      BY <2>1, HoldsWrites
    <2> QED BY <1>3, <2>2, <2>3, <2>4 DEF Whole, Kept
  <1> QED BY <1>5, <1>6 DEF HandEdit

LEMMA HandRepairKeeps == ASSUME Whole, HandRepair PROVE Whole'
  <1>1. IsFile /\ IsTrial /\ IsMay(may) /\ Paired(Keys) /\ Kept
    BY DEF Whole
  <1>2. /\ file.state = "corrupt" /\ file' = [file EXCEPT !.state = "doc"]
        /\ legacy' = legacy /\ trial' = trial /\ may' = may
    BY DEF HandRepair
  <1>3. IsTrial'
    BY <1>1, <1>2, SameTrial
  <1>4. Keys = file.keys
    BY <1>2 DEF Keys
  <1>5. file' = [state |-> "doc", keys |-> file.keys]
    BY <1>1, <1>2 DEF IsFile
  <1>6. IsFile' /\ Keys' = file.keys
    BY <1>5 DEF IsFile, Keys
  <1> QED BY <1>1, <1>2, <1>3, <1>4, <1>6 DEF Whole, Kept

(* The installations there are: of an older olr, with its pools on         *)
(* interfaces, or whole.                                                   *)
LEMMA InitWhole == ASSUME SectionsOK, Init PROVE IInv
  <1>1. /\ legacy \in LegacyFiles
        /\ file \in {[state |-> "absent", keys |-> NoSections]} \cup
                    {[state |-> "doc", keys |-> d] : d \in Documents}
        /\ pc = "down" /\ trial = NoTrial /\ may = Writes(Load.keys)
    BY DEF Init
  <1>2. IsFile /\ file.state # "corrupt"
    BY <1>1 DEF IsFile
  <1>3. Load.ok /\ Load.keys = Keys
    BY <1>2, LoadedIs DEF Load
  <1>4. IsTrial /\ Recovering
    BY <1>1 DEF IsTrial, NoTrial, Recovering
  <1>5. Holds(Keys, may) /\ IsMay(may)
    BY <1>1, <1>3, HoldsWrites
  <1>6. Paired(Keys)
    <2>0. "dhcp" \in Known /\ "link" \in Known /\ "dhcp" \notin Others /\ "link" \notin Others
      BY DEF SectionsOK
    <2>1. Pools(NoSections) = {} /\ Pools(OtherBuild) = {}
      BY <2>0 DEF Pools, NoSections, OtherBuild
    <2>2. OldPools.key = "interface"
      BY DEF OldPools
    <2>3. CASE file.state = "absent"
      <3>1. Keys = loadLegacy
        BY <2>3 DEF Keys
      <3>2. CASE legacy = NoSections
        <4>1. "dhcp" \notin DOMAIN loadLegacy
          BY <3>2 DEF loadLegacy, NoSections
        <4> QED BY <3>1, <4>1 DEF Paired, Pools
      <3>3. CASE legacy = Put(Put(NoSections, "dhcp", OldPools), "dns", [key |-> "v", v |-> 2])
        <4>1. PICK one : one = Put(NoSections, "dhcp", OldPools)
          OBVIOUS
        <4>2. PICK v2 : v2 = [key |-> "v", v |-> 2]
          OBVIOUS
        <4>3. legacy = Put(one, "dns", v2)
          BY <3>3, <4>1, <4>2
        <4>4. "dhcp" \in DOMAIN one /\ one["dhcp"] = OldPools
          BY <4>1 DEF Put
        <4>5. "dhcp" \in DOMAIN legacy /\ legacy["dhcp"] = OldPools
          BY <4>3, <4>4 DEF Put
        <4>6. "dhcp" \in DOMAIN loadLegacy /\ loadLegacy["dhcp"] = OldPools
          BY <2>0, <4>5 DEF loadLegacy
        <4>7. Pooled(loadLegacy)
          BY <2>2, <4>6 DEF Pooled
        <4> QED BY <3>1, <4>7 DEF Paired
      <3> QED BY <1>1, <3>2, <3>3 DEF LegacyFiles
    <2>4. CASE file.state # "absent"
      <3>1. PICK d \in Documents : file = [state |-> "doc", keys |-> d]
        BY <1>1, <2>4
      <3>2. Keys = d
        BY <3>1 DEF Keys
      <3>3. CASE d = Put(OtherBuild, "dhcp", OldPools)
        <4>1. Pooled(d)
          BY <2>2, <3>3, PutIs
        <4> QED BY <3>2, <4>1 DEF Paired
      <3>4. CASE d = Put(Put(NoSections, "link", [key |-> "groups", nets |-> OneNetwork]),
                         "dhcp", [key |-> "group", pools |-> {e1}])
        <4>1. PICK l : l = [key |-> "groups", nets |-> OneNetwork]
          OBVIOUS
        <4>2. PICK p : p = [key |-> "group", pools |-> {e1}]
          OBVIOUS
        <4>3. PICK one : one = Put(NoSections, "link", l)
          OBVIOUS
        <4>4. d = Put(one, "dhcp", p) /\ l.nets = OneNetwork /\ p.pools = {e1}
          BY <3>4, <4>1, <4>2, <4>3
        <4>5. Nets(one) = OneNetwork
          BY <4>3, <4>4, PutIs
        <4>6. Nets(d) = OneNetwork /\ Pools(d) = {e1}
          BY <4>4, <4>5, PutIs
        <4>7. DOMAIN OneNetwork = {e1}
          BY DEF OneNetwork
        <4> QED BY <3>2, <4>6, <4>7 DEF Paired
      <3>5. CASE d = Put(OtherBuild, "link", LinkSection(OneNetwork))
        <4>1. Pools(d) = {}
          BY <2>1, <3>5, PutIs
        <4> QED BY <3>2, <4>1 DEF Paired
      <3> QED BY <3>1, <3>3, <3>4, <3>5 DEF Documents
    <2> QED BY <2>3, <2>4
  <1> QED BY <1>2, <1>4, <1>5, <1>6 DEF IInv, Whole, Kept

LEMMA NextWhole == ASSUME SectionsOK, IInv, [Next]_vars PROVE Whole'
  <1>0. Whole /\ Recovering
    BY DEF IInv
  <1>1. CASE Start
    BY <1>0, <1>1, StartKeeps
  <1>2. CASE Restart \/ Crash \/ HostAddress \/ Export \/ Confirm
    <2>1. /\ UNCHANGED <<file, legacy, may>>
          /\ trial' = trial \/ (trial' = NoTrial /\ trial.state # "failed")
      BY <1>2 DEF Restart, Crash, HostAddress, Export, Confirm, bounds
    <2> QED BY <1>0, <2>1, RestKeeps
  <1>3. CASE Revert
    BY <1>0, <1>3, RevertKeeps
  <1>4. CASE RecoverFails
    <2>1. trial.state # "none"
      BY <1>0, <1>4 DEF RecoverFails, Recovering
    <2> QED BY <1>0, <1>4, <2>1, RecoverFailsKeeps
  <1>5. CASE Edit
    BY <1>0, <1>5, EditKeeps
  <1>6. CASE restore
    BY <1>0, <1>6, RestoreKeeps
  <1>7. CASE HandEdit
    BY <1>0, <1>7, HandEditKeeps
  <1>8. CASE HandRepair
    BY <1>0, <1>8, HandRepairKeeps
  <1>9. CASE UNCHANGED vars
    BY <1>0, <1>9, RestKeeps DEF vars
  <1> QED BY <1>1, <1>2, <1>3, <1>4, <1>5, <1>6, <1>7, <1>8, <1>9 DEF Next

LEMMA NextRecovering == ASSUME Recovering, [Next]_vars PROVE Recovering'
  <1>1. CASE Start
    <2>1. trial' = trial /\ (pc' = "recover" => trial.state # "none")
      BY <1>1 DEF Start
    <2> QED BY <2>1 DEF Recovering
  <1>2. CASE Restart \/ Crash \/ Revert \/ RecoverFails
    <2>1. pc' # "recover"
      BY <1>2 DEF Restart, Crash, Revert, RecoverFails
    <2> QED BY <2>1 DEF Recovering
  <1>3. CASE Edit \/ restore \/ Confirm
    <2>1. pc' # "recover"
      BY <1>3 DEF Edit, restore, Confirm
    <2> QED BY <2>1 DEF Recovering
  <1>4. CASE HostAddress \/ Export \/ HandEdit \/ HandRepair \/ UNCHANGED vars
    <2>1. UNCHANGED <<pc, trial>>
      BY <1>4 DEF HostAddress, Export, HandEdit, HandRepair, vars
    <2> QED BY <2>1 DEF Recovering
  <1> QED BY <1>1, <1>2, <1>3, <1>4 DEF Next

(***************************************************************************)
(* Theorems.                                                               *)
(***************************************************************************)
(* The inductive invariant of the document and its journal.                *)
LEMMA AlwaysWhole == ASSUME SectionsOK PROVE Spec => []IInv
  <1>1. Init => IInv
    BY InitWhole
  <1>2. IInv /\ [Next]_vars => IInv'
    BY NextWhole, NextRecovering DEF IInv
  <1> QED BY <1>1, <1>2, PTL DEF Spec

(* Whatever mix of conversions, failed saves, crashes, abandoned trials    *)
(* and failed restores came before, a document that reads holds in every   *)
(* section what was last written there, another build's included, and no   *)
(* document on disk has a pool keyed by a network it does not have         *)
(* (store.go:215, store.go:285, backup.go:159, migrate.go:111).            *)
THEOREM DocumentIsKept == ASSUME SectionsOK PROVE Spec => []DocumentKept
  <1>1. IInv => DocumentKept
    <2> SUFFICES ASSUME IInv PROVE DocumentKept
      OBVIOUS
    <2>1. IsFile /\ Paired(Keys) /\ Kept
      BY DEF IInv, Whole
    <2>2. NothingForgotten
      BY <2>1, LoadedIs DEF NothingForgotten, Kept, Holds
    <2>3. PoolsHaveNetworks
      BY <2>1 DEF PoolsHaveNetworks, Paired, Keys
    <2> QED BY <2>2, <2>3 DEF DocumentKept
  <1> QED BY <1>1, AlwaysWhole, PTL

(* The journal of a change under trial can always be rolled back to: the   *)
(* document in it is one that what was written before the change accounts  *)
(* for, section by section, and its pools are on its networks, however     *)
(* the change itself went (Recovery.Begin, recovery.go:86).                *)
THEOREM JournalIsWhole == ASSUME SectionsOK PROVE
    Spec => [](trial.state # "none" => Holds(trial.before, trial.may) /\ Paired(trial.before))
  <1>1. IInv => (trial.state # "none" => Holds(trial.before, trial.may) /\ Paired(trial.before))
    BY DEF IInv, Whole, IsTrial
  <1> QED BY <1>1, AlwaysWhole, PTL

==============================================================================
