------------------------------ MODULE Ingress -------------------------------
(***************************************************************************)
(* Published services: the stored document, the Caddyfile and the          *)
(* environment file rendered from it, and what the proxy has read of them. *)
(*                                                                         *)
(* Every request holds the apply lock to its end, so it is one action; it  *)
(* may end early at any of its steps.  An address of a device is rendered  *)
(* into the file, so it is the address the device had then.                *)
(***************************************************************************)
EXTENDS Integers, Sequences, FiniteSets, TLC

CONSTANTS
    Names,      \* names a service may be published under
    Domains,    \* suffixes they may be published in
    Devices,    \* devices a service may point at
    Tokens,     \* credentials of the DNS provider
    MaxEdits,   \* bound: requests in one behaviour
    MaxFaults   \* bound: failed steps, reboots and devices that move

VARIABLES
    doc,      \* the stored document: [on, dom, token, svc]
    devs,     \* device -> [addr, fixed]
    files,    \* what is on disk: [conf, env]; None: no file
    proc,     \* what the proxy runs: [up, conf, env], and whether it boots
    boot,
    agreed,   \* names an operator agreed to lose (ghost)
    clean,    \* the last step was a request that reported success (ghost)
    behind,   \* files written that the proxy was not told of (ghost)
    edits, faults

vars == <<doc, devs, files, proc, boot, agreed, clean, behind, edits, faults>>

Redacted == "********"
None == <<>>
Disabled == [sites |-> <<>>]

Without(f, S) == [x \in DOMAIN f \ S |-> f[x]]

(***************************************************************************)
(* Validating: an enabled document needs a domain and a credential, and a  *)
(* service a device with a fixed address.                                  *)
(***************************************************************************)
validateDomain(d) == IF d.on /\ d.dom = "" THEN {<<"domain">>} ELSE {}
validateCertificate(d) == IF d.on /\ d.token = "" THEN {<<"token">>} ELSE {}
validateDeviceUpstream(d) ==
    {<<"service", n>> : n \in {m \in DOMAIN d.svc : ~devs[d.svc[m]].fixed}}
Validate(d) == validateDomain(d) \cup validateCertificate(d) \cup validateDeviceUpstream(d)

(* A document that is invalid already may be saved when the edit repairs   *)
(* one of its services and breaks nothing.                                 *)
canSaveRepair(before, after, n) ==
    /\ n \in DOMAIN before.svc
    /\ Cardinality(Validate(after)) < Cardinality(Validate(before))
    /\ Validate(after) \subseteq Validate(before)
    /\ <<"service", n>> \notin Validate(after)

preserveToken(t) == IF t = Redacted THEN doc.token ELSE t

(***************************************************************************)
(* Rendering and planning.                                                 *)
(***************************************************************************)
qualify(n, dom) == <<n, dom>>
caddyfile(d) ==
    IF ~d.on \/ d.dom = "" THEN Disabled
    ELSE [sites |-> [q \in {qualify(n, d.dom) : n \in DOMAIN d.svc} |-> devs[d.svc[q[1]]].addr]]
Render(d) == [conf |-> caddyfile(d), env |-> <<d.token>>]
servedNames(conf) == IF conf = None THEN {} ELSE DOMAIN conf.sites

(* Mutant of needsRestart: the process is expected to read its environment *)
(* again on a reload.                                                      *)
ReloadIsEnough(d) == files.conf = None

(* The credential is read when the process starts; the admin socket, which *)
(* a reload needs, is set by the first file written.                       *)
needsRestart(d) == Render(d).env # files.env \/ files.conf = None

serviceAction(d) ==
    IF d.on /\ ~proc.up THEN "start"
    ELSE IF ~d.on /\ proc.up THEN "stop"
    ELSE IF ~d.on \/ Render(d) = files THEN "none"
    ELSE IF needsRestart(d) THEN "restart" ELSE "reload"

(* Mutant of Losing: a name is looked for without its domain.              *)
LosingLabels(d) ==
    {q \in servedNames(files.conf) : ~(d.on /\ q[1] \in DOMAIN d.svc)}

(* Names the file on disk serves that the document no longer publishes.    *)
Losing(d) == servedNames(files.conf) \ (IF d.on THEN servedNames(caddyfile(d)) ELSE {})
Disruptive(d) == Losing(d) # {} \/ serviceAction(d) = "stop"
nothingToDo(d) == Render(d) = files /\ serviceAction(d) = "none" /\ boot = d.on

(***************************************************************************)
(* Applying: store, check, write the Caddyfile, write the environment,     *)
(* enable or disable at boot, then the service action and its check.       *)
(***************************************************************************)
Stages == <<"store", "check", "conf", "env", "enable", "act", "done">>
Reaches(stage, s) == \E i, j \in 1..Len(Stages) : Stages[i] = stage /\ Stages[j] = s /\ i > j

Run(d) == [up |-> TRUE, conf |-> caddyfile(d), env |-> Render(d).env]
Acted(d) ==
    CASE serviceAction(d) \in {"start", "restart"} -> Run(d)
      [] serviceAction(d) = "stop" -> [proc EXCEPT !.up = FALSE]
      [] serviceAction(d) = "reload" -> [proc EXCEPT !.conf = caddyfile(d)]
      [] serviceAction(d) = "none" -> proc

(* A start or a restart that fails leaves nothing running; a reload that   *)
(* is refused leaves what ran.                                             *)
Unacted(d) == IF serviceAction(d) = "restart" THEN [proc EXCEPT !.up = FALSE] ELSE proc

(* A reload reads the Caddyfile only.                                      *)
ReadBy(act) ==
    CASE act = "none" -> {} [] act = "reload" -> {"conf"} [] OTHER -> {"conf", "env"}

ApplyPlanned(d, stage) ==
    LET passed(s) == stage = "done" \/ Reaches(stage, s)
    IN  /\ doc' = d
        /\ IF nothingToDo(d)
           THEN stage = "done" /\ UNCHANGED <<files, boot, proc, behind>>
           ELSE /\ files' = [conf |-> IF passed("conf") THEN caddyfile(d) ELSE files.conf,
                             env  |-> IF passed("env") THEN Render(d).env ELSE files.env]
                /\ boot' = IF passed("enable") THEN d.on ELSE boot
                /\ proc' = IF passed("act") THEN Acted(d)
                           ELSE IF stage = "act" THEN Unacted(d) ELSE proc
                /\ behind' = IF passed("act") THEN behind \ ReadBy(serviceAction(d))
                             ELSE behind \cup {f \in DOMAIN files : files'[f] # files[f]}
        /\ clean' = (stage = "done")
        /\ faults' = IF stage = "done" THEN faults ELSE faults + 1
        /\ UNCHANGED devs

(* A request.  What stops answering needs confirmation.                    *)
mutate(d, ok) ==
    /\ edits < MaxEdits /\ edits' = edits + 1
    /\ \/ /\ Validate(d) = {}
          /\ ok \/ ~Disruptive(d)
          /\ agreed' = (agreed \cup (IF ok THEN Losing(d) \cup servedNames(proc.conf) ELSE {}))
                       \ servedNames(caddyfile(d))
          /\ \E stage \in {Stages[i] : i \in 2..Len(Stages)} :
                /\ stage # "done" => faults < MaxFaults
                /\ ApplyPlanned(d, stage)
       \/ /\ \E n \in DOMAIN d.svc : d.svc # doc.svc /\ canSaveRepair(doc, d, n)
          /\ Validate(d) # {}
          /\ doc' = d /\ clean' = FALSE
          /\ UNCHANGED <<devs, files, proc, boot, agreed, behind, faults>>

putService == \E n \in Names, v \in Devices, ok \in BOOLEAN :
    mutate([doc EXCEPT !.svc = (n :> v) @@ @], ok)
deleteService == \E n \in DOMAIN doc.svc, ok \in BOOLEAN :
    mutate([doc EXCEPT !.svc = Without(@, {n})], ok)
patchConfig == \E on \in BOOLEAN, m \in Domains, t \in Tokens \cup {Redacted}, ok \in BOOLEAN :
    mutate([doc EXCEPT !.on = on, !.dom = m, !.token = preserveToken(t)], ok)
postApply == mutate(doc, TRUE)

(***************************************************************************)
(* A device gets another address, or loses its reservation; the box        *)
(* reboots, and a proxy enabled at boot reads the files it finds.          *)
(***************************************************************************)
DeviceMoves ==
    /\ faults < MaxFaults /\ faults' = faults + 1
    /\ \E v \in Devices : devs' \in {[devs EXCEPT ![v].addr = 3 - @], [devs EXCEPT ![v].fixed = ~@]}
    /\ clean' = FALSE
    /\ UNCHANGED <<doc, files, proc, boot, agreed, behind, edits>>

Reboot ==
    /\ faults < MaxFaults /\ faults' = faults + 1
    /\ proc' = IF boot /\ files.conf # None
               THEN [up |-> TRUE, conf |-> files.conf, env |-> files.env]
               ELSE [proc EXCEPT !.up = FALSE]
    /\ behind' = {} /\ clean' = FALSE
    /\ UNCHANGED <<doc, devs, files, boot, agreed, edits>>

Init ==
    /\ doc = [on |-> FALSE, dom |-> "", token |-> "", svc |-> <<>>]
    /\ devs = [v \in Devices |-> [addr |-> 1, fixed |-> TRUE]]
    /\ files = [conf |-> None, env |-> None]
    /\ proc = [up |-> FALSE, conf |-> None, env |-> None] /\ boot = FALSE
    /\ agreed = {} /\ clean = FALSE /\ behind = {} /\ edits = 0 /\ faults = 0

Next == putService \/ deleteService \/ patchConfig \/ postApply \/ DeviceMoves \/ Reboot

Spec == Init /\ [][Next]_vars

(***************************************************************************)
(* Properties.                                                             *)
(***************************************************************************)
Answered(p) == IF p.up THEN servedNames(p.conf) ELSE {}

(* No request takes a published name away unless an operator was shown     *)
(* that name going and confirmed, in this request or in an earlier one     *)
(* that failed half way (classify, plan.go:363; the hold at http.go:446).  *)
LosesAgreed ==
    edits' # edits /\ (clean' \/ proc'.up) => Answered(proc) \ Answered(proc') \subseteq agreed'

(* A request that reports success leaves the proxy running the stored      *)
(* document with the credential and the addresses of that moment, unless   *)
(* an earlier request wrote a file and failed before telling the proxy     *)
(* (serviceAction, plan.go:338).                                           *)
Serves(d) == IF d.on THEN proc = Run(d) ELSE ~proc.up
Published == clean /\ behind = {} => Serves(doc)

(* "Intent is stored first ... so that a failed later step leaves a re-run *)
(* something to finish from" (apply.go:333): a request that reports        *)
(* success leaves the proxy running what is stored, whatever failed        *)
(* before. TLC refutes it: once the file is written a re-run plans no      *)
(* reload.                                                                 *)
Finishes == clean => Serves(doc)

=============================================================================
