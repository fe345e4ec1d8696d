----------------------------- MODULE SavedConfig -----------------------------
(***************************************************************************)
(* What saving promises: the stored configuration is one value.  A save    *)
(* that reports success has replaced it, one that reports an error has not *)
(* touched it, and a reader sees the old value or the new one.  A power    *)
(* loss may take back saves whose directory entry is not on disk yet, and  *)
(* nothing else.                                                           *)
(***************************************************************************)
CONSTANTS Processes, Configs, NoSave

VARIABLES
  stored,      \* the configuration a reader gets
  recoverable, \* the configurations a reader may get after a power loss
  saves,       \* each process's save, or NoSave
  outcome      \* what each process's last save reported

savedVars == <<stored, recoverable, saves, outcome>>

Begin(p, config) ==
  /\ saves[p] = NoSave
  /\ saves' = [saves EXCEPT ![p] = [config |-> config, applied |-> FALSE]]
  /\ outcome' = [outcome EXCEPT ![p] = "none"]
  /\ UNCHANGED <<stored, recoverable>>

Apply(p) ==
  /\ saves[p] # NoSave
  /\ ~saves[p].applied
  /\ stored' = saves[p].config
  /\ recoverable' = recoverable \union {saves[p].config}
  /\ saves' = [saves EXCEPT ![p].applied = TRUE]
  /\ UNCHANGED outcome

\* A save is applied or fails; either way its report is true.
Report(p) ==
  /\ saves[p] # NoSave
  /\ outcome' = [outcome EXCEPT ![p] = IF saves[p].applied THEN "ok" ELSE "err"]
  /\ saves' = [saves EXCEPT ![p] = NoSave]
  /\ recoverable' \in {recoverable, {stored}}
  /\ UNCHANGED stored

Crash(p) ==
  /\ saves' = [saves EXCEPT ![p] = NoSave]
  /\ outcome' = [outcome EXCEPT ![p] = "none"]
  /\ UNCHANGED <<stored, recoverable>>

PowerLoss ==
  /\ stored' \in recoverable
  /\ recoverable' = {stored'}
  /\ saves' = [p \in Processes |-> NoSave]
  /\ outcome' = [p \in Processes |-> "none"]

SavedInit ==
  /\ recoverable = {stored}
  /\ saves = [p \in Processes |-> NoSave]
  /\ outcome = [p \in Processes |-> "none"]

SavedNext ==
  \/ \E p \in Processes :
       \/ \E config \in Configs : Begin(p, config)
       \/ Apply(p)
       \/ Report(p)
       \/ Crash(p)
  \/ PowerLoss

SavedSpec == SavedInit /\ [][SavedNext]_savedVars
==============================================================================
