------------------------------ MODULE SocksOut ------------------------------
(***************************************************************************)
(* The outbound SOCKS5 connection (internal/socksout): a document, the     *)
(* file rendered from it and the unit olr-socks-out, whose process reads   *)
(* the file once, when it starts.                                          *)
(*                                                                         *)
(* Changes are applied under the apply lock, in steps any of which can     *)
(* fail.  POST /apply reads the stored document before it asks for the     *)
(* lock.  The gateway, which is applied again after a change, is           *)
(* GatewayPolicy's.                                                        *)
(***************************************************************************)
EXTENDS Naturals, Sequences

CONSTANTS
    Proxies,    \* proxy URLs
    Reapplies,  \* requests for POST /apply
    MaxEdits,   \* bound: changes and requests
    MaxFaults   \* bound: failures, dying units, reboots

VARIABLES
    doc,      \* the stored section: [enabled, proxy]
    file,     \* config.json, or Nothing
    unit,     \* [enabled, active, runs]: `runs` is what the process has read
    loaded,   \* POST /apply requests that have read the document: r -> doc
    settled,  \* the last change succeeded, and was of the stored document
    behind,   \* a change failed between the file and the process
    edits, faults

vars == <<doc, file, unit, loaded, settled, behind, edits, faults>>

Nothing == [enabled |-> FALSE, proxy |-> 0]
Off == [enabled |-> FALSE, active |-> FALSE, runs |-> Nothing]

(* Validate: an enabled connection has a proxy, a disabled one may.        *)
Configs == {Nothing} \cup [enabled : BOOLEAN, proxy : Proxies]

State == [doc |-> doc, file |-> file, unit |-> unit]

(***************************************************************************)
(* Plan and Apply.                                                         *)
(***************************************************************************)
(* Mutant of needsRestart: a running unit is left alone.                   *)
OnlyStarts(s, c) == ~s.unit.active

needsRestart(s, c) == ~s.unit.active \/ s.file # c

Saved(s, c, store) == IF store THEN [s EXCEPT !.doc = c] ELSE s
Stopped(s) == [s EXCEPT !.unit.active = FALSE, !.unit.runs = Nothing]
Disabled(s) == [s EXCEPT !.unit.enabled = FALSE]
Rendered(s, c) == [s EXCEPT !.file = c]
Enabled(s) == [s EXCEPT !.unit.enabled = TRUE]
Launched(s) == [s EXCEPT !.unit.active = TRUE, !.unit.runs = s.file]

(* What the router goes through while c is applied, step by step.  Whether *)
(* to restart was settled before the file was written.                     *)
Apply(s, c, store) ==
    LET s1 == Saved(s, c, store)
        s2 == Rendered(s1, c)
        s3 == Enabled(s2)
    IN  IF ~c.enabled THEN <<s, s1, Stopped(s1), Disabled(Stopped(s1))>>
        ELSE <<s, s1, s2, s3, IF needsRestart(s1, c) THEN Launched(s3) ELSE s3>>

Becomes(s) == doc' = s.doc /\ file' = s.file /\ unit' = s.unit

(* change: everything succeeds; or a step fails and the rest is not done,  *)
(* the failed step being a save whose sync was refused, say; or the new    *)
(* process ends at once.                                                   *)
Change(c, store) ==
    LET ss == Apply(State, c, store)
        end == ss[Len(ss)]
    IN
    \/ /\ Becomes(end)
       /\ settled' = (c = end.doc)
       /\ behind' = (behind /\ unit'.active /\ unit'.runs # file')
       /\ UNCHANGED faults
    \/ \E i \in 1 .. Len(ss) - 1 :
       /\ faults < MaxFaults /\ faults' = faults + 1
       /\ \/ Becomes(ss[i])
          \/ i = 4 /\ c.enabled /\ needsRestart(State, c) /\ Becomes(Stopped(ss[i]))
       /\ settled' = FALSE
       /\ behind' = (unit'.active /\ unit'.runs # file')

put == \E c \in Configs :
    /\ edits < MaxEdits /\ edits' = edits + 1
    /\ Change(c, TRUE)
    /\ UNCHANGED loaded

(* reapply: the document is read outside the lock and applied under it.    *)
Load == \E r \in Reapplies \ DOMAIN loaded :
    /\ edits < MaxEdits /\ edits' = edits + 1
    /\ loaded' = [q \in DOMAIN loaded \cup {r} |-> IF q = r THEN doc ELSE loaded[q]]
    /\ UNCHANGED <<doc, file, unit, settled, behind, faults>>

reapply == \E r \in DOMAIN loaded :
    /\ Change(loaded[r], FALSE)
    /\ loaded' = [q \in DOMAIN loaded \ {r} |-> loaded[q]]
    /\ UNCHANGED edits

(* The start of the daemon, and the repair of a rollback, apply what is    *)
(* stored then.                                                            *)
startSocksOut ==
    /\ Change(doc, FALSE)
    /\ UNCHANGED <<loaded, edits>>

(***************************************************************************)
(* The environment.                                                        *)
(***************************************************************************)
Die ==
    /\ unit.active /\ faults < MaxFaults
    /\ faults' = faults + 1
    /\ unit' = [unit EXCEPT !.active = FALSE, !.runs = Nothing]
    /\ settled' = FALSE /\ behind' = FALSE
    /\ UNCHANGED <<doc, file, loaded, edits>>

(* After a reboot systemd starts what is enabled, with the file there is;  *)
(* the daemon's own start is startSocksOut.                                *)
Reboot ==
    /\ faults < MaxFaults
    /\ faults' = faults + 1
    /\ unit' = IF unit.enabled THEN Launched(State).unit ELSE Stopped(State).unit
    /\ settled' = FALSE /\ behind' = FALSE
    /\ loaded' = [r \in {} |-> doc]
    /\ UNCHANGED <<doc, file, edits>>

Init ==
    /\ doc = Nothing /\ file = Nothing /\ unit = Off
    /\ loaded = [r \in {} |-> Nothing]
    /\ settled = TRUE /\ behind = FALSE /\ edits = 0 /\ faults = 0

Next == put \/ Load \/ reapply \/ startSocksOut \/ Die \/ Reboot

Spec == Init /\ [][Next]_vars

(***************************************************************************)
(* Property.                                                               *)
(***************************************************************************)
(* A change that succeeds leaves the process running exactly when the      *)
(* document says so, and with the proxy of the document, whatever failed   *)
(* before; only a change that failed after the file was written and left   *)
(* the earlier process running is not made up for, since the file no       *)
(* longer differs (apply.go:130, :141).                                    *)
Connected ==
    settled =>
        /\ unit.active = doc.enabled /\ unit.enabled = doc.enabled
        /\ doc.enabled => file = doc
        /\ doc.enabled /\ ~behind => unit.runs = doc
=============================================================================
