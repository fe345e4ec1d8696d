----------------------------- MODULE ConfigStore -----------------------------
(***************************************************************************)
(* The configuration file at run time: several OrsikTop processes load and *)
(* save it, any of them may be killed at any step, and the machine may     *)
(* lose power (src/config.rs, the start of src/main.rs, and the save of    *)
(* the settings dialog in src/app/loop_events.rs).                         *)
(*                                                                         *)
(* save_to_path writes a temporary sibling, syncs it, renames it over the  *)
(* configuration and syncs the directory; every step but the last may fail *)
(* and is then followed by the removal of the sibling.                     *)
(*                                                                         *)
(* The file system: a file's content reaches the disk when it is synced, a *)
(* rename when the directory is; before that a power loss may keep either  *)
(* the old or the new entry, and any prefix of an unsynced file.           *)
(***************************************************************************)
EXTENDS ConfigFile

CONSTANTS
  Processes,   \* running instances of the program
  Pids,        \* process ids
  Edits,       \* configurations the settings dialog may produce
  Overrides,   \* command line overrides: records [server, interval_ms,
               \* gpu, gpu_index]
  OldFiles,    \* files left by earlier versions of the program
  MaxAttempts, \* temporary names a save tries: 8 in the code
  MaxCounter,  \* bound on TEMP_FILE_COUNTER of a process
  MaxFailures, \* bound on kills and power losses
  Missing,     \* no configuration file
  NoSave,      \* no save is under way, in SavedConfig
  None         \* no pid, no temporary name

VARIABLES
  pid,        \* each process's id, None when it is not running
  settings,   \* the settings each process runs with
  counter,    \* TEMP_FILE_COUNTER of each process
  pc,         \* how far each process's save is
  draft,      \* the configuration being saved
  attempt,    \* temporary names tried so far
  tmp,        \* the temporary file the save has created, None before that
  result,     \* what the last save returned
  target,     \* the configuration file, or Missing
  temps,      \* temporary files by name
  disk,       \* what `target` may turn out to be after a power loss
  leftover,   \* temporary files nobody will remove (not in the code)
  failures    \* kills and power losses so far (not in the code)

saveVars == <<pc, draft, attempt, tmp, result>>
fileVars == <<target, temps, disk, leftover>>
storeVars == <<pid, settings, counter, saveVars, fileVars, failures>>

\* Where save_to_path is; "idle" when no save is under way.
SavePcs == {"idle", "create", "write", "sync", "rename",
            "sync_dir", "remove"}

File(lines, synced) == [lines |-> lines, synced |-> synced]

\* What may be left of a file after a power loss.
survivors(file) ==
  IF file.synced THEN {file}
  ELSE {File(lines, TRUE) : lines \in Prefixes(file.lines)}

ASSUME StoreAssumption ==
  /\ MaxAttempts \in Nat \ {0}
  /\ MaxCounter \in Nat
  /\ MaxFailures \in Nat
  /\ None \notin Pids \union [pid : Pids, n : Nat]
  /\ IsFiniteSet(Processes)

\* Every content the configuration file may have, whole or torn, and what
\* parse_config makes of it.
Contents == OldFiles \union UNION {Prefixes(render_config(config)) : config \in Edits}
parsed == [lines \in Contents |-> parse_config(lines)]

\* load_or_default
load(file) == IF file = Missing THEN sanitized(DefaultConfig) ELSE parsed[file.lines]

\* main: the command line overrides what was loaded; a server given there
\* turns auto-discovery off.
overridden(config, args) ==
  sanitized(
    [config EXCEPT
       !.server = IF args.server \in {NoUrl, Blank} THEN @ ELSE args.server,
       !.auto_discovery = IF args.server \in {NoUrl, Blank} THEN @ ELSE FALSE,
       !.refresh_ms = IF args.interval_ms = None THEN @ ELSE args.interval_ms,
       !.gpu_selector = IF args.gpu # None THEN parse_selector(args.gpu)
                        ELSE IF args.gpu_index # None THEN Index(args.gpu_index)
                        ELSE @])

StoreInit ==
  /\ pid = [p \in Processes |-> None]
  /\ settings = [p \in Processes |-> DefaultConfig]
  /\ counter = [p \in Processes |-> 0]
  /\ pc = [p \in Processes |-> "idle"]
  /\ draft = [p \in Processes |-> DefaultConfig]
  /\ attempt = [p \in Processes |-> 0]
  /\ tmp = [p \in Processes |-> None]
  /\ result = [p \in Processes |-> "none"]
  /\ target \in {Missing} \union {File(lines, TRUE) : lines \in OldFiles}
  /\ temps = [name \in {} |-> Missing]
  /\ disk = {target}
  /\ leftover = {}
  /\ failures = 0

\* A process starts under a free pid, loads the configuration and applies the
\* command line.
Start(p, id, args) ==
  /\ pid[p] = None
  /\ \A q \in Processes : pid[q] # id
  /\ pid' = [pid EXCEPT ![p] = id]
  /\ counter' = [counter EXCEPT ![p] = 0]
  /\ settings' = [settings EXCEPT ![p] = overridden(load(target), args)]
  /\ UNCHANGED <<saveVars, fileVars, failures>>

-----------------------------------------------------------------------------
\* Steps of a save.
Goto(p, next) == pc' = [pc EXCEPT ![p] = next]

\* save_to_path returns.
Returns(p, report) ==
  /\ pc' = [pc EXCEPT ![p] = "idle"]
  /\ draft' = [draft EXCEPT ![p] = DefaultConfig]
  /\ attempt' = [attempt EXCEPT ![p] = 0]
  /\ tmp' = [tmp EXCEPT ![p] = None]
  /\ result' = [result EXCEPT ![p] = report]

\* Enter in the settings dialog.
Save(p, config) ==
  /\ pid[p] # None
  /\ pc[p] = "idle"
  /\ Goto(p, "create")
  /\ draft' = [draft EXCEPT ![p] = config]
  /\ result' = [result EXCEPT ![p] = "none"]
  /\ UNCHANGED <<pid, settings, counter, attempt, tmp, fileVars, failures>>

\* Mutant: the counter is read and not advanced.
atomic_temp_path_fixed(p) ==
  /\ counter[p] < MaxCounter
  /\ UNCHANGED counter

\* atomic_temp_path: a name from the pid and the counter, which advances.
atomic_temp_path(p) ==
  /\ counter[p] < MaxCounter
  /\ counter' = [counter EXCEPT ![p] = @ + 1]

temp_name(p) == [pid |-> pid[p], n |-> counter[p]]

\* Mutant: an existing file is opened and truncated.
create_truncating(p) ==
  /\ temps' = [name \in DOMAIN temps \union {temp_name(p)} |->
                 IF name = temp_name(p) THEN File(<<>>, FALSE) ELSE temps[name]]
  /\ tmp' = [tmp EXCEPT ![p] = temp_name(p)]
  /\ Goto(p, "write")
  /\ UNCHANGED <<draft, attempt, result>>

\* create_private_temp: create_new refuses a name that exists; the save then
\* tries another one, and gives up after MaxAttempts.
create_private_temp(p) ==
  \/ /\ temp_name(p) \notin DOMAIN temps
     /\ temps' = [name \in DOMAIN temps \union {temp_name(p)} |->
                    IF name = temp_name(p) THEN File(<<>>, FALSE)
                    ELSE temps[name]]
     /\ tmp' = [tmp EXCEPT ![p] = temp_name(p)]
     /\ Goto(p, "write")
     /\ UNCHANGED <<draft, attempt, result>>
  \/ /\ temp_name(p) \in DOMAIN temps
     /\ IF attempt[p] + 1 < MaxAttempts
        THEN /\ attempt' = [attempt EXCEPT ![p] = @ + 1]
             /\ UNCHANGED <<pc, draft, tmp, result>>
        ELSE Returns(p, "exhausted")
     /\ UNCHANGED temps

Create(p) ==
  /\ pc[p] = "create"
  /\ atomic_temp_path(p)
  /\ create_private_temp(p)
  /\ UNCHANGED <<pid, settings, target, disk, leftover, failures>>

\* The link cannot be followed, or the directory or the file not be created.
CreateFails(p) ==
  /\ pc[p] = "create"
  /\ Returns(p, "err")
  /\ UNCHANGED <<pid, settings, counter, fileVars, failures>>

\* write_all and apply_target_permissions.
Write(p) ==
  /\ pc[p] = "write"
  /\ temps' = [temps EXCEPT ![tmp[p]] = File(render_config(draft[p]), FALSE)]
  /\ Goto(p, "sync")
  /\ UNCHANGED <<pid, settings, counter, draft, attempt, tmp, result, target,
                 disk, leftover, failures>>

\* Mutant: the rename does not wait for the content to reach the disk.
SyncSkipped(p) ==
  /\ pc[p] = "sync"
  /\ Goto(p, "rename")
  /\ UNCHANGED <<pid, settings, counter, draft, attempt, tmp, result, fileVars,
                 failures>>

\* file.sync_all()
Sync(p) ==
  /\ pc[p] = "sync"
  /\ temps' = [temps EXCEPT ![tmp[p]].synced = TRUE]
  /\ Goto(p, "rename")
  /\ UNCHANGED <<pid, settings, counter, draft, attempt, tmp, result, target,
                 disk, leftover, failures>>

Rename(p) ==
  /\ pc[p] = "rename"
  /\ target' = temps[tmp[p]]
  /\ disk' = disk \union survivors(target')
  /\ temps' = [name \in DOMAIN temps \ {tmp[p]} |-> temps[name]]
  /\ Goto(p, "sync_dir")
  /\ UNCHANGED <<pid, settings, counter, draft, attempt, tmp, result, leftover,
                 failures>>

\* sync_parent_dir: whether it works or not, the save has succeeded and the
\* process adopts the settings.
SyncDir(p) ==
  /\ pc[p] = "sync_dir"
  /\ disk' \in {disk, survivors(target)}
  /\ settings' = [settings EXCEPT ![p] = draft[p]]
  /\ Returns(p, "ok")
  /\ UNCHANGED <<pid, counter, target, temps, leftover, failures>>

\* write_all, apply_target_permissions, sync_all or rename fails.  How much was
\* written does not matter: nobody reads the file.
StepFails(p) ==
  /\ pc[p] \in {"write", "sync", "rename"}
  /\ Goto(p, "remove")
  /\ UNCHANGED <<pid, settings, counter, draft, attempt, tmp, result, fileVars,
                 failures>>

\* Mutant: a failed save leaves its temporary file.
RemoveSkipped(p) ==
  /\ pc[p] = "remove"
  /\ Returns(p, "err")
  /\ UNCHANGED <<pid, settings, counter, target, disk, failures, temps, leftover>>

\* remove_file, whose own failure is ignored.
RemoveTemp(p) ==
  /\ pc[p] = "remove"
  /\ \/ /\ temps' = [name \in DOMAIN temps \ {tmp[p]} |-> temps[name]]
        /\ UNCHANGED leftover
     \/ /\ leftover' = leftover \union {tmp[p]}
        /\ UNCHANGED temps
  /\ Returns(p, "err")
  /\ UNCHANGED <<pid, settings, counter, target, disk, failures>>

-----------------------------------------------------------------------------
\* A process is killed, or ends: whatever it has created stays.
Kill(p) ==
  /\ pid[p] # None
  /\ failures < MaxFailures
  /\ failures' = failures + 1
  /\ pid' = [pid EXCEPT ![p] = None]
  /\ settings' = [settings EXCEPT ![p] = DefaultConfig]
  /\ counter' = [counter EXCEPT ![p] = 0]
  /\ leftover' = leftover \union ({tmp[p]} \intersect DOMAIN temps)
  /\ Returns(p, "none")
  /\ UNCHANGED <<target, temps, disk>>

\* The power fails: every process ends; of the temporary files, and of those
\* being renamed, any may be there afterwards.
PowerLoss ==
  /\ failures < MaxFailures
  /\ failures' = failures + 1
  /\ target' \in disk
  /\ disk' = {target'}
  /\ \E found \in SUBSET (DOMAIN temps \union ({tmp[p] : p \in Processes} \ {None})) :
       /\ temps' = [name \in found |-> File(<<>>, TRUE)]
       /\ leftover' = found
  /\ pid' = [p \in Processes |-> None]
  /\ settings' = [p \in Processes |-> DefaultConfig]
  /\ counter' = [p \in Processes |-> 0]
  /\ pc' = [p \in Processes |-> "idle"]
  /\ draft' = [p \in Processes |-> DefaultConfig]
  /\ attempt' = [p \in Processes |-> 0]
  /\ tmp' = [p \in Processes |-> None]
  /\ result' = [p \in Processes |-> "none"]

StoreNext ==
  \/ \E p \in Processes :
       \/ \E id \in Pids, args \in Overrides : Start(p, id, args)
       \/ \E config \in Edits : Save(p, config)
       \/ Create(p) \/ CreateFails(p)
       \/ Write(p) \/ Sync(p) \/ Rename(p)
       \/ SyncDir(p) \/ StepFails(p) \/ RemoveTemp(p)
       \/ Kill(p)
  \/ PowerLoss

StoreSpec == StoreInit /\ [][StoreNext]_storeVars

-----------------------------------------------------------------------------
(***************************************************************************)
(* The stored configuration is what a process that starts now would load.  *)
(* A save takes effect with its rename.                                    *)
(***************************************************************************)
cleaned == [config \in Edits |-> sanitized(config)]

\* The values that stand for "nothing" are not what they stand in for.
ASSUME NothingAssumption ==
  \A config \in Edits :
    /\ Missing # File(render_config(config), TRUE)
    /\ \A applied \in BOOLEAN :
         NoSave # [config |-> cleaned[config], applied |-> applied]

\* What parse_config makes of a rendered configuration is that configuration,
\* sanitized.  It depends on the values that the dialog may produce: a selector
\* whose text reads as an index would come back as one.
ASSUME RoundTripAssumption ==
  \A config \in Edits : parse_config(render_config(config)) = sanitized(config)

Saved == INSTANCE SavedConfig WITH
  Configs <- {cleaned[config] : config \in Edits},
  stored <- load(target),
  recoverable <- {load(file) : file \in disk},
  saves <- [p \in Processes |->
              IF pc[p] = "idle" THEN NoSave
              ELSE [config |-> cleaned[draft[p]], applied |-> pc[p] = "sync_dir"]],
  outcome <- [p \in Processes |->
                IF result[p] = "exhausted" THEN "err" ELSE result[p]]

\* A reader, now or after a kill or a power loss, gets one complete configur-
\* ation that was saved, never a mixture, a prefix or an empty file; a save that
\* returned an error changed nothing and one that returned Ok was applied; what
\* is read back is what was saved.
SavesAreAtomic == Saved!SavedSpec

\* A temporary file is changed or removed only by the save that created it: a
\* file that an earlier process with the same pid left behind is never touched.
OnlyOwnTempChanges ==
  [][\A name \in DOMAIN temps :
       \/ name \in DOMAIN temps' /\ temps'[name] = temps[name]
       \/ \E p \in Processes : tmp[p] = name
       \/ failures' # failures]_storeVars

\* Every temporary file belongs to a save under way; the others are those of a
\* killed process, or could not be removed.
NothingLeftBehind ==
  DOMAIN temps \subseteq leftover \union {tmp[p] : p \in Processes}

\* A save runs out of names only when that many left-over files carry its pid:
\* one collision is survived by trying the next name.
ExhaustedByLeftovers ==
  \A p \in Processes :
    result[p] = "exhausted" =>
      Cardinality({name \in leftover : name.pid = pid[p]}) >= MaxAttempts

\* The GPU selector a process runs with is in canonical form, "so it resolves
\* against the normalized device enumeration".  The dialog's own selector is
\* normalised in the file only.
SelectorIsCanonical ==
  \A p \in Processes :
    pid[p] # None =>
      settings[p].gpu_selector = sanitized_selector(settings[p].gpu_selector)
==============================================================================
