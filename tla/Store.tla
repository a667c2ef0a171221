------------------------------- MODULE Store -------------------------------
(***************************************************************************)
(* olr.json over its life: the per-module files an upgrade folds in, the   *)
(* conversion of an old document at start, edits of one section, export    *)
(* and restore of the whole, the trial a restore begins, failed saves,     *)
(* crashes and edits by hand.                                              *)
(*                                                                         *)
(* A document is a function from the sections present to their content:    *)
(* link has its spelling and the networks with the address each holds,     *)
(* dhcp its spelling and the pools, other sections a version.              *)
(***************************************************************************)
EXTENDS Naturals, Sequences, FiniteSets

CONSTANTS
    Ifaces,    \* interfaces; a migrated network takes the name of one
    Known,     \* sections of this build, link and dhcp among them
    Others,    \* sections of another build
    MaxEdits,  \* bound: edits and restores
    MaxHand,   \* bound: edits by hand
    MaxFaults  \* bound: failed saves and applies, crashes

(* link and dhcp are sections of every build, and another build's are not  *)
(* this one's.                                                             *)
SectionsOK == {"link", "dhcp"} \subseteq Known /\ Known \cap Others = {}

Sections == Known \cup Others
NoAddress == 0 \* an interface without an IPv4 address
Held == 1      \* the address an interface has

VARIABLES
    file,    \* olr.json: [state, keys], state "absent", "corrupt" or "doc"
    legacy,  \* <module>.json, as a document
    pc,      \* olrd: "down", "recover", "serving" or "refused"
    addr,    \* interface -> address
    trial,   \* the journal: [state, before, may]; "none", "pending" or "failed"
    backup,  \* a document a client exported: <<>> or <<keys, revision>>
    may,     \* section -> what it may hold: the last write, and failed ones since (ghost)
    edits, hand, faults

bounds == <<edits, hand, faults>>
vars == <<file, legacy, pc, addr, trial, backup, may, bounds>>

Fault == faults < MaxFaults /\ faults' = faults + 1

(* A section of a document, when it has one. *)
Raw(keys, m) == IF m \in DOMAIN keys THEN <<keys[m]>> ELSE <<>>
Put(keys, m, s) == [n \in DOMAIN keys \cup {m} |-> IF n = m THEN s ELSE keys[n]]
Writes(keys) == [m \in Sections |-> {Raw(keys, m)}]
NoTrial == [state |-> "none", before |-> <<>>, may |-> <<>>]

(***************************************************************************)
(* Reading and writing.                                                    *)
(***************************************************************************)
(* Only this build's sections are folded in, and only without a document. *)
loadLegacy == [m \in DOMAIN legacy \cap Known |-> legacy[m]]

Load == [ok |-> file.state # "corrupt", keys |-> IF file.state = "doc" THEN file.keys ELSE loadLegacy]

(* Mutant of encode: only the sections this build has are written. *)
encodeKnown(keys) == [m \in DOMAIN keys \cap Known |-> keys[m]]

(* Sections this build does not have are written back as they were read. *)
encode(keys) == [m \in DOMAIN keys |-> keys[m]]

(* WriteFileAtomic: "early" fails before the rename, "late" after it, when *)
(* the directory cannot be synced: the document is there and the write is  *)
(* reported as failed.                                                     *)
Save(keys, r) ==
    /\ IF r = "ok" THEN faults' = faults ELSE Fault
    /\ file' = IF r = "early" THEN file ELSE [state |-> "doc", keys |-> encode(keys)]
Outcomes == {"ok", "early", "late"}

(* RenameKey: both spellings at once is an error, and so is an unknown key. *)
Parses(keys, m) == m \in DOMAIN keys => keys[m].key \notin {"both", "bad"}
hasLegacyKeys(keys, m) == m \in DOMAIN keys /\ keys[m].key = (IF m = "link" THEN "groups" ELSE "group")
Nets(keys) == IF "link" \in DOMAIN keys THEN keys["link"].nets ELSE [e \in {} |-> NoAddress]
Pools(keys) == IF "dhcp" \in DOMAIN keys THEN keys["dhcp"].pools ELSE {}
Pooled(keys) == "dhcp" \in DOMAIN keys /\ keys["dhcp"].key = "interface"
LinkSection(nets) == [key |-> "networks", nets |-> nets]
DhcpSection(pools) == [key |-> "network", pools |-> pools]

(***************************************************************************)
(* Start: checkStore, migrateDocument, Recovery.Load.                      *)
(***************************************************************************)
(* Every interface that had a pool gets a network of its name holding the  *)
(* address the interface has, unless there is one.                         *)
migratePools(keys) ==
    LET new == Pools(keys) \ DOMAIN Nets(keys) IN
    [e \in DOMAIN Nets(keys) \cup new |-> IF e \in new THEN addr[e] ELSE Nets(keys)[e]]

Migrates(keys) == Pooled(keys) \/ hasLegacyKeys(keys, "link") \/ hasLegacyKeys(keys, "dhcp")

(* Both sections in one write; one with nothing to convert is left as it is. *)
Migrated(keys) ==
    LET dhcp == Pooled(keys) \/ hasLegacyKeys(keys, "dhcp")
        link == Pooled(keys) \/ hasLegacyKeys(keys, "link")
        nets == IF Pooled(keys) THEN migratePools(keys) ELSE Nets(keys)
        one == IF dhcp THEN Put(keys, "dhcp", DhcpSection(Pools(keys))) ELSE keys IN
    IF link THEN Put(one, "link", LinkSection(nets)) ELSE one

(* What migrateDocument has to read before it writes; interfaces is        *)
(* whether they could be read.                                             *)
Readable(keys, interfaces) ==
    /\ Load.ok /\ Parses(keys, "dhcp")
    /\ Migrates(keys) => Parses(keys, "link")
    /\ Pooled(keys) => interfaces

(* What a conversion may do to link: add networks, and change none (ghost). *)
NetsOf(was) == IF was = <<>> THEN [e \in {} |-> NoAddress] ELSE was[1].nets
Converted(was, pools) ==
    <<LinkSection([e \in DOMAIN NetsOf(was) \cup pools |->
                    IF e \in DOMAIN NetsOf(was) THEN NetsOf(was)[e] ELSE addr[e]])>>

(* checkStore only reports; an error of migrateDocument ends the daemon. *)
Start == \E interfaces \in BOOLEAN, r \in Outcomes :
    LET keys == Load.keys
        ok == Readable(keys, interfaces) IN
    /\ pc = "down"
    /\ IF interfaces /\ ok /\ Migrates(keys) THEN Save(Migrated(keys), r)
       ELSE r = "ok" /\ file' = file /\ (IF interfaces THEN faults' = faults ELSE Fault)
    /\ pc' = IF ~ok \/ r # "ok" THEN "refused"
             ELSE IF trial.state # "none" THEN "recover" ELSE "serving"
    /\ may' = IF file' = file \/ ~Pooled(keys) THEN may
              ELSE [may EXCEPT !["link"] = {Converted(was, Pools(keys)) : was \in @}]
    /\ UNCHANGED <<legacy, addr, trial, backup, edits, hand>>

(* systemd starts a daemon that failed again. *)
Restart ==
    /\ pc = "refused" /\ pc' = "down"
    /\ UNCHANGED <<file, legacy, addr, trial, backup, may, bounds>>

Crash ==
    /\ pc \in {"recover", "serving"} /\ pc' = "down" /\ Fault
    /\ UNCHANGED <<file, legacy, addr, trial, backup, may, edits, hand>>

(* The host gives an interface its address, or takes it, while olrd is down. *)
HostAddress == \E e \in Ifaces :
    /\ pc = "down" /\ Fault
    /\ addr' = [addr EXCEPT ![e] = IF @ = Held THEN NoAddress ELSE Held]
    /\ UNCHANGED <<file, legacy, pc, trial, backup, may, edits, hand>>

(* revert: the document from before is saved and then applied; when either *)
(* fails the journal stays and the retry is due. A current document that   *)
(* cannot be read stops it.                                                *)
Revert == \E r \in Outcomes, applied \in BOOLEAN :
    /\ pc \in {"recover", "serving"} /\ trial.state # "none" /\ Load.ok
    /\ (r # "ok" => applied)
    /\ IF applied THEN Save(trial.before, r)
       ELSE Fault /\ file' = [state |-> "doc", keys |-> encode(trial.before)]
    /\ LET done == r = "ok" /\ applied IN
       /\ trial' = IF done THEN NoTrial ELSE [trial EXCEPT !.state = "failed"]
       /\ may' = IF done THEN trial.may ELSE may
    /\ pc' = "serving"
    /\ UNCHANGED <<legacy, addr, backup, edits, hand>>

(* A journal whose rollback cannot start does not keep olrd from serving. *)
RecoverFails ==
    /\ pc = "recover" /\ ~Load.ok
    /\ pc' = "serving" /\ trial' = [trial EXCEPT !.state = "failed"]
    /\ UNCHANGED <<file, legacy, addr, backup, may, bounds>>

(***************************************************************************)
(* Requests, one at a time under the apply lock.                           *)
(***************************************************************************)
Begun(keys) == [state |-> "pending", before |-> keys, may |-> may]

(* What an edit of a section may leave: pools on networks there are, and   *)
(* no network a pool is on removed.                                        *)
Edited(keys, m) ==
    CASE m = "link" -> {LinkSection(f) : f \in
                        UNION {[d -> {Held}] : d \in {d \in SUBSET Ifaces : Pools(keys) \subseteq d}}}
      [] m = "dhcp" -> {DhcpSection(p) : p \in SUBSET DOMAIN Nets(keys)}
      [] OTHER -> {[key |-> "v", v |-> 1], [key |-> "v", v |-> 2]}

(* MutateConfig: the document is loaded, one section replaced, and the     *)
(* whole saved. A change that may cut the operator off begins a trial.     *)
Edit == \E m \in Known, r \in Outcomes, disruptive \in BOOLEAN :
    LET keys == Load.keys IN
    /\ pc = "serving" /\ trial.state # "failed" /\ Load.ok /\ edits < MaxEdits
    /\ Parses(keys, m) /\ Parses(keys, "link") /\ Parses(keys, "dhcp")
    /\ \E s \in Edited(keys, m) :
        /\ Raw(keys, m) # <<s>>
        /\ (m = "link" => ~Pooled(keys)) \* such pools do not validate
        /\ Save(Put(keys, m, s), r)
        /\ may' = [may EXCEPT ![m] = IF r = "ok" THEN {<<s>>} ELSE @ \cup {<<s>>}]
    /\ trial' = IF disruptive /\ trial.state = "none" THEN Begun(keys) ELSE trial
    /\ edits' = edits + 1
    /\ UNCHANGED <<legacy, pc, addr, backup, hand>>

(* The export and its revision. *)
Export ==
    /\ pc = "serving" /\ Load.ok /\ backup = <<>>
    /\ backup' = <<encode(Load.keys)>>
    /\ UNCHANGED <<file, legacy, pc, addr, trial, may, bounds>>

(* A backup this build can restore: no other build's sections, and every   *)
(* section in the current spelling (DecodeStrict).                         *)
ParseBackup(keys) == DOMAIN keys \subseteq Known
validateBackup(keys) ==
    /\ "link" \in DOMAIN keys => keys["link"].key = "networks"
    /\ "dhcp" \in DOMAIN keys => keys["dhcp"].key = "network"
    /\ Pools(keys) \subseteq DOMAIN Nets(keys)

(* restore: validated, begun as a trial, saved and applied. One that fails *)
(* is reverted at once, within the same request: the next step is Revert,  *)
(* or a crash and the Revert of the start after it.                        *)
restore == \E r \in Outcomes, applied \in BOOLEAN :
    LET keys == backup[1] IN
    /\ pc = "serving" /\ backup # <<>> /\ edits < MaxEdits /\ Load.ok
    /\ ParseBackup(keys) /\ validateBackup(keys) /\ trial.state = "none"
    /\ (r # "ok" => applied)
    /\ IF applied THEN Save(keys, r) ELSE Fault /\ file' = [state |-> "doc", keys |-> encode(keys)]
    /\ LET ok == r = "ok" /\ applied IN
       /\ trial' = [Begun(Load.keys) EXCEPT !.state = IF ok THEN @ ELSE "failed"]
       /\ may' = IF ok THEN Writes(keys) ELSE may
    /\ edits' = edits + 1 /\ backup' = <<>>
    /\ UNCHANGED <<legacy, pc, addr, hand>>

Confirm ==
    /\ pc = "serving" /\ trial.state = "pending" /\ trial' = NoTrial
    /\ UNCHANGED <<file, legacy, pc, addr, backup, may, bounds>>

(***************************************************************************)
(* An operator's editor.                                                   *)
(***************************************************************************)
(* The old spelling, a key too many, a section with a typo. *)
Respelled(keys) ==
    {Put(keys, "link", [key |-> k, nets |-> Nets(keys)]) : k \in {"groups", "both", "bad"}} \cup
    {Put(keys, "dhcp", [key |-> k, pools |-> Pools(keys)]) : k \in {"group", "both", "bad"}}

HandEdit ==
    /\ hand < MaxHand /\ hand' = hand + 1 /\ file.state = "doc" /\ ~Pooled(file.keys)
    /\ \/ file' = [file EXCEPT !.state = "corrupt"] /\ may' = may
       \/ \E keys \in Respelled(file.keys) :
            file' = [state |-> "doc", keys |-> keys] /\ may' = Writes(keys)
    /\ UNCHANGED <<legacy, pc, addr, trial, backup, edits, faults>>

(* A corrupt document is mended by hand. *)
HandRepair ==
    /\ file.state = "corrupt" /\ file' = [file EXCEPT !.state = "doc"]
    /\ UNCHANGED <<legacy, pc, addr, trial, backup, may, bounds>>

(***************************************************************************)
(* The documents an installation starts from: one of an older olr, one     *)
(* with the old spelling, a current one another build has also written,    *)
(* and none at all beside the per-module files.                            *)
(***************************************************************************)
e1 == CHOOSE e \in Ifaces : TRUE
OldPools == [key |-> "interface", pools |-> Ifaces]
NoSections == [m \in {} |-> OldPools]
OtherBuild == [m \in Others |-> [key |-> "v", v |-> 1]]
OneNetwork == [e \in {e1} |-> Held]
Documents == {
    Put(OtherBuild, "dhcp", OldPools),
    Put(Put(NoSections, "link", [key |-> "groups", nets |-> OneNetwork]),
        "dhcp", [key |-> "group", pools |-> {e1}]),
    Put(OtherBuild, "link", LinkSection(OneNetwork))}
LegacyFiles == {NoSections, Put(Put(NoSections, "dhcp", OldPools), "dns", [key |-> "v", v |-> 2])}

Init ==
    /\ legacy \in LegacyFiles
    /\ file \in {[state |-> "absent", keys |-> NoSections]} \cup
                {[state |-> "doc", keys |-> d] : d \in Documents}
    /\ pc = "down" /\ addr = [e \in Ifaces |-> Held]
    /\ trial = NoTrial /\ backup = <<>>
    /\ may = Writes(Load.keys)
    /\ edits = 0 /\ hand = 0 /\ faults = 0

Next ==
    \/ Start \/ Restart \/ Crash \/ HostAddress \/ Revert \/ RecoverFails
    \/ Edit \/ Export \/ restore \/ Confirm \/ HandEdit \/ HandRepair

Spec == Init /\ [][Next]_vars

(***************************************************************************)
(* Properties.                                                             *)
(***************************************************************************)
(* A section in any spelling. *)
Same(m, was, keys) ==
    CASE m = "link" -> NetsOf(was) = Nets(keys)
      [] m = "dhcp" -> (IF was = <<>> THEN {} ELSE was[1].pools) = Pools(keys)
      [] OTHER -> was = Raw(keys, m)

(* Whatever mix of conversions, failed saves, crashes, abandoned trials    *)
(* and failed restores came before, a document that reads holds in every   *)
(* section what was last written there: another build's sections are not   *)
(* dropped by a save (store.go, encode), a stale per-module file does not  *)
(* come back beside a document (loadLegacy), and a restore that failed     *)
(* left what was there (backup.go, restore).                               *)
NothingForgotten ==
    Load.ok /\ pc = "serving" /\ trial.state # "failed" =>
        \A m \in Sections : \E was \in may[m] : Same(m, was, Load.keys)

(* No document on disk has a pool keyed by a network it does not have:     *)
(* migrateDocument writes both modules at once, so a crash or a failed     *)
(* save leaves either the old document or the new one.                     *)
PoolsHaveNetworks ==
    file.state = "doc" /\ ~Pooled(file.keys) => Pools(file.keys) \subseteq DOMAIN Nets(file.keys)

(* Both: nothing written is forgotten, and the document on disk is whole.  *)
DocumentKept == NothingForgotten /\ PoolsHaveNetworks

(* What checkStore's comment says: a document that cannot be read never    *)
(* keeps the API from coming up ("It never fails the start").              *)
ComesUp == faults = 0 => pc # "refused"
=============================================================================
