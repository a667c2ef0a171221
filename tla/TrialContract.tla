--------------------------- MODULE TrialContract ---------------------------
(***************************************************************************)
(* What a connectivity trial promises, without locks, journals, retries or *)
(* failures: a configuration, the configuration to come back to while a    *)
(* trial is open, and whether the trial can still be kept.                 *)
(***************************************************************************)
CONSTANTS Docs, InitDoc, NoDoc

VARIABLES
  config,  \* the configuration in force
  base,    \* the configuration before the open trial, or NoDoc
  phase    \* "none", "open" (may be kept or undone), "doomed" (only undone)

vars == <<config, base, phase>>

Init == config = InitDoc /\ base = NoDoc /\ phase = "none"

\* An edit outside a trial takes effect at once.
Edit ==
  /\ phase = "none"
  /\ config' \in Docs
  /\ UNCHANGED <<base, phase>>

\* A trial opens on the configuration in force.
Open ==
  /\ phase = "none"
  /\ phase' = "open" /\ base' = config
  /\ UNCHANGED config

\* Edits within an open trial.
Try ==
  /\ phase = "open"
  /\ config' \in Docs
  /\ UNCHANGED <<base, phase>>

\* The operator keeps the configuration in force.
Keep ==
  /\ phase = "open"
  /\ phase' = "none" /\ base' = NoDoc
  /\ UNCHANGED config

\* Recovery is decided: from here on the trial cannot be kept or edited.  A
\* power loss that decides it may take the trial's last edit along.
Doom ==
  /\ phase = "open"
  /\ phase' = "doomed"
  /\ config' \in Docs
  /\ UNCHANGED base

\* The previous configuration is stored again -- or, until the store has made
\* that durable, a power loss takes it back.
PutBack ==
  /\ phase = "doomed"
  /\ config' \in Docs
  /\ config = base \/ config' = base
  /\ UNCHANGED <<base, phase>>

\* The trial ends with the previous configuration in force.
Undo ==
  /\ phase # "none"
  /\ config = base
  /\ phase' = "none" /\ base' = NoDoc
  /\ UNCHANGED config

Next == Edit \/ Open \/ Try \/ Keep \/ Doom \/ PutBack \/ Undo

Spec == Init /\ [][Next]_vars
=============================================================================
