----------------------------- MODULE Inspection -----------------------------
(***************************************************************************)
(* Inspecting one device: the daemon's session, the proxy systemd runs for *)
(* it, and the nft table that sends the device's traffic to the proxy.     *)
(*                                                                         *)
(* The proxy outlives the daemon, which attaches to it again after a       *)
(* restart.  A redirect that outlives the proxy cuts the device off, so    *)
(* every way a proxy can end, or a start can fail half way, has to end     *)
(* with the table gone.                                                    *)
(***************************************************************************)
EXTENDS Naturals

CONSTANTS
    Devices,    \* the devices an operator may inspect
    None,       \* no value
    MaxEdits,   \* bound: requests, restarts of the daemon
    MaxFaults   \* bound: failed commands, proxies that die, crashes

Partial == "partial"      \* a table whose redirect rule was never added

VARIABLES
    up,        \* olrd runs and has resumed
    session,   \* None, or [dev, retrying]
    armed,     \* the switch: None or a device
    setting,   \* session.json
    proxy,     \* the device the running proxy was started for, or None
    record,    \* proxy.json: [dev, ready], or None
    table,     \* None, Partial, or the device whose traffic is redirected
    opening,   \* the open under way, which holds the lock: [at, dev, by], or None
    stopping,  \* a DELETE between its two critical sections: [at, q], or None
    edits, faults

vars == <<up, session, armed, setting, proxy, record, table, opening, stopping, edits, faults>>
world == <<proxy, record, table>>

Locked == opening # None
MayFail == faults < MaxFaults
Count(failed) == faults' = IF failed THEN faults + 1 ELSE faults

(***************************************************************************)
(* cleanup and stopManaged: each may fail, and the other is still tried    *)
(* unless the code returns between them.                                   *)
(***************************************************************************)
(* Stopping the unit runs ExecStopPost, which deletes the table as well.   *)
Both(noClean, noStop, silent) ==
    /\ noClean \/ noStop \/ silent => MayFail
    /\ Count(noClean \/ noStop \/ silent)
    /\ proxy' = IF noStop THEN proxy ELSE None
    /\ table' = IF noClean /\ (noStop \/ proxy = None) THEN table ELSE None

(***************************************************************************)
(* Opening.                                                                *)
(***************************************************************************)
Request == edits < MaxEdits /\ edits' = edits + 1

(* attachManaged: the record, the unit and the table agree on this device. *)
matches(dev) ==
    /\ record # None /\ record.ready /\ record.dev = dev
    /\ proxy # None /\ table # None

(* startLocked's refusals. *)
MayStart(dev) ==
    /\ up /\ ~Locked /\ session = None
    /\ armed \in {None, dev}

(* startLocked writes the setting last; Resume has it already.             *)
SaveSetting(dev, by, fails) ==
    IF by = "start" THEN IF fails THEN UNCHANGED <<setting, armed>>
                         ELSE setting' = dev /\ armed' = dev
    ELSE UNCHANGED setting /\ armed' = dev

(* attached: the daemon takes up a proxy that is running for this device.  *)
Attach(dev, by) ==
    /\ matches(dev)
    /\ session' = [dev |-> dev, retrying |-> FALSE]
    /\ \E fails \in BOOLEAN :
        /\ fails => MayFail /\ by = "start"
        /\ Count(fails)
        /\ SaveSetting(dev, by, fails)
    /\ UNCHANGED <<world, opening>>

(* rejectManaged: no exit for the device.  What runs is removed, as far as *)
(* that works, and the open fails.                                         *)
Reject(dev, by) == \E noClean, noStop \in BOOLEAN :
    /\ MayFail
    /\ faults' = faults + 1
    /\ proxy' = IF noStop THEN proxy ELSE None
    /\ table' = IF noClean /\ (noStop \/ proxy = None) THEN table ELSE None
    /\ armed' = IF by = "resume" THEN dev ELSE armed
    /\ UNCHANGED <<session, setting, record, opening>>

(* Nothing to attach to, or a proxy that does not answer: what runs is     *)
(* removed, and the new unit and its record are written.                   *)
Fresh(dev, by) == \E noClean, noStop \in BOOLEAN :
    /\ Both(noClean, noStop, matches(dev))
    /\ armed' = IF by = "resume" THEN dev ELSE armed
    /\ IF noClean \/ noStop THEN UNCHANGED <<record, opening>>
       ELSE /\ record' = [dev |-> dev, ready |-> FALSE]
            /\ opening' = [at |-> "unit", dev |-> dev, by |-> by]
    /\ UNCHANGED <<session, setting>>

open(dev, by) == Attach(dev, by) \/ Reject(dev, by) \/ Fresh(dev, by)

start == \E dev \in Devices :
    /\ MayStart(dev) /\ Request
    /\ open(dev, "start")
    /\ UNCHANGED <<up, stopping>>

(* The unit starts; a port in use or a failed start ends the open here.    *)
StartUnit ==
    /\ Locked /\ opening.at = "unit"
    /\ \E fails \in BOOLEAN :
        /\ fails => MayFail
        /\ Count(fails)
        /\ proxy' = IF fails THEN None ELSE opening.dev
        /\ opening' = IF fails THEN None ELSE [opening EXCEPT !.at = "wait"]
    /\ UNCHANGED <<up, session, armed, setting, record, table, stopping, edits>>

(* The proxy authenticates, or is given up and stopped, which may fail.    *)
WaitReady ==
    /\ Locked /\ opening.at = "wait"
    /\ \/ /\ proxy # None
          /\ opening' = [opening EXCEPT !.at = "install"]
          /\ UNCHANGED <<proxy, faults>>
       \/ /\ MayFail
          /\ faults' = faults + 1
          /\ opening' = None
          /\ \E noStop \in BOOLEAN : proxy' = IF noStop THEN proxy ELSE None
    /\ UNCHANGED <<up, session, armed, setting, record, table, stopping, edits>>

(* install: one command per object, the redirect rule last.                *)
Install ==
    /\ Locked /\ opening.at = "install"
    /\ \/ /\ table' = opening.dev
          /\ opening' = [opening EXCEPT !.at = "record"]
          /\ UNCHANGED faults
       \/ /\ MayFail
          /\ faults' = faults + 1
          /\ table' \in {table, Partial}
          /\ opening' = [opening EXCEPT !.at = "abort"]
    /\ UNCHANGED <<up, session, armed, setting, proxy, record, stopping, edits>>

(* abortManaged: what could not be removed is kept as a session to retry.  *)
(* The same holds when the record that marks the proxy ready is not saved. *)
abortManaged ==
    /\ Locked /\ opening.at = "abort"
    /\ \E noClean, noStop \in BOOLEAN :
        /\ Both(noClean, noStop, FALSE)
        /\ session' = IF noClean \/ noStop THEN [dev |-> opening.dev, retrying |-> TRUE] ELSE None
    /\ opening' = None
    /\ UNCHANGED <<up, armed, setting, record, stopping, edits>>

Ready ==
    /\ Locked /\ opening.at = "record"
    /\ \/ /\ MayFail
          /\ faults' = faults + 1
          /\ opening' = [opening EXCEPT !.at = "abort"]
          /\ UNCHANGED <<record, session, setting, armed>>
       \/ /\ record' = [dev |-> opening.dev, ready |-> TRUE]
          /\ session' = [dev |-> opening.dev, retrying |-> FALSE]
          /\ opening' = None
          /\ \E fails \in BOOLEAN :
                /\ fails => MayFail /\ opening.by = "start"
                /\ Count(fails)
                /\ SaveSetting(opening.dev, opening.by, fails)
    /\ UNCHANGED <<up, proxy, table, stopping, edits>>

(***************************************************************************)
(* Ending.  followManaged notices that the unit is not active; a session   *)
(* whose redirect or proxy could not be removed retries every second.      *)
(***************************************************************************)
(* Mutant of End: a failed clean-up gives the session up.                  *)
EndAnyway ==
    \E noClean, noStop \in BOOLEAN :
        /\ noClean => ~noStop
        /\ noClean \/ noStop => MayFail
        /\ Count(noClean \/ noStop)
        /\ table' = IF noClean THEN table ELSE None
        /\ proxy' = IF noStop \/ noClean THEN proxy ELSE None
        /\ session' = None
        /\ UNCHANGED record

End ==
    \E noClean, noStop \in BOOLEAN :
        /\ noClean => ~noStop
        /\ noClean \/ noStop => MayFail
        /\ Count(noClean \/ noStop)
        /\ table' = IF noClean THEN table ELSE None
        /\ proxy' = IF noStop \/ noClean THEN proxy ELSE None
        /\ session' = IF noClean \/ noStop THEN [session EXCEPT !.retrying = TRUE] ELSE None
        /\ UNCHANGED record

watch ==
    /\ up /\ ~Locked /\ session # None
    /\ ~session.retrying /\ proxy = None
    /\ End
    /\ UNCHANGED <<up, armed, setting, opening, stopping, edits>>

retryCleanup ==
    /\ up /\ ~Locked /\ session # None /\ session.retrying
    /\ End
    /\ UNCHANGED <<up, armed, setting, opening, stopping, edits>>

(* DELETE ends the session, and in a later critical section clears the     *)
(* switch; the file goes after the lock was released again.                *)
stop ==
    /\ up /\ ~Locked /\ stopping = None /\ Request
    /\ IF session = None THEN UNCHANGED <<session, world, faults>> ELSE End
    /\ stopping' = IF session' = None THEN "disarm" ELSE None
    /\ UNCHANGED <<up, armed, setting, opening>>

Disarm ==
    /\ up /\ ~Locked /\ stopping = "disarm"
    /\ armed' = None
    /\ stopping' = "clear"
    /\ UNCHANGED <<up, session, setting, world, opening, edits, faults>>

clearSetting ==
    /\ up /\ stopping = "clear"
    /\ \E fails \in BOOLEAN :
        /\ fails => MayFail
        /\ Count(fails)
        /\ setting' = IF fails THEN setting ELSE None
    /\ stopping' = None
    /\ UNCHANGED <<up, session, armed, world, opening, edits>>

(***************************************************************************)
(* The daemon stops and starts, the proxy dies, the machine is restarted.  *)
(***************************************************************************)
(* Close detaches from the proxy; a crash leaves the same behind.          *)
Close ==
    /\ up /\ Request
    /\ Locked => MayFail
    /\ Count(Locked)
    /\ up' = FALSE /\ session' = None /\ armed' = None /\ opening' = None /\ stopping' = None
    /\ UNCHANGED <<setting, world>>

(* Resume.  Without a setting nothing may be inspected: what is left of an *)
(* earlier session is removed, and a failure to do so is logged.           *)
Resume ==
    /\ ~up
    /\ up' = TRUE
    /\ IF setting = None
       THEN /\ \E noClean, noStop \in BOOLEAN : Both(noClean, noStop, FALSE)
            /\ UNCHANGED <<session, armed, setting, record, opening>>
       ELSE open(setting, "resume")
    /\ UNCHANGED <<stopping, edits>>

(* The unit's ExecStopPost deletes the table, if nft can.                  *)
ProxyDies ==
    /\ proxy # None /\ MayFail
    /\ faults' = faults + 1
    /\ proxy' = None
    /\ table' \in {None, table}
    /\ UNCHANGED <<up, session, armed, setting, record, opening, stopping, edits>>

(* A restart of the machine: the unit is not enabled, nft is empty.        *)
Reboot ==
    /\ MayFail /\ ~up
    /\ faults' = faults + 1
    /\ proxy' = None /\ table' = None
    /\ UNCHANGED <<up, session, armed, setting, record, opening, stopping, edits>>

Init ==
    /\ up = TRUE /\ session = None /\ armed = None /\ setting = None
    /\ proxy = None /\ record = None /\ table = None
    /\ opening = None /\ stopping = None
    /\ edits = 0 /\ faults = 0

Next ==
    \/ start \/ StartUnit \/ WaitReady \/ Install \/ Ready \/ abortManaged
    \/ watch \/ retryCleanup
    \/ stop \/ Disarm \/ clearSetting
    \/ Close \/ Resume \/ ProxyDies \/ Reboot

(* The goroutines run: an open goes on to its end, the follower polls the  *)
(* unit and the retry ticks; systemd starts olrd again.                    *)
Fairness ==
    /\ WF_vars(StartUnit) /\ WF_vars(WaitReady) /\ WF_vars(Install)
    /\ WF_vars(Ready) /\ WF_vars(abortManaged)
    /\ WF_vars(watch) /\ WF_vars(retryCleanup)
    /\ WF_vars(Resume)

Spec == Init /\ [][Next]_vars /\ Fairness

(***************************************************************************)
(* Properties.                                                             *)
(***************************************************************************)
(* A device whose traffic goes to a proxy that is not there.               *)
CutOff == table \in Devices /\ proxy = None

(* A device that is cut off while the daemon has a session for it is let   *)
(* go: whatever step the proxy died at and whichever clean-up failed, the  *)
(* follower and the retries remove the redirect (end, inspection.go:762;   *)
(* retryCleanup, :805; abortManaged, managed.go:69).                       *)
LetsGo == (CutOff /\ session # None) ~> (~CutOff \/ ~up)

(* The traffic a session shows is its own device's: a proxy left over from *)
(* another device is never attached to, and no second device is redirected *)
(* while one is inspected (attachManaged, managed.go:241).                 *)
RightDevice ==
    session # None /\ table \in Devices => table = session.dev

=============================================================================
