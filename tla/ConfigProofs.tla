----------------------------- MODULE ConfigProofs ----------------------------
(***************************************************************************)
(* Proofs about ConfigStore, for any number of processes, pids, attempts,  *)
(* kills and power losses.                                                 *)
(*                                                                         *)
(* StoreInv is the inductive invariant.  Its heart is that a temporary     *)
(* file is either left over or held by the one running process whose pid   *)
(* and counter its name carries, so that a name a save finds taken is      *)
(* always a left-over one, and no save meets the file of another.          *)
(***************************************************************************)
EXTENDS ConfigStore, FiniteSetTheorems, TLAPS

\* Names of temporary files.
Names == [pid : Pids, n : Nat]

\* Where a save holds its temporary file.
Holding == {"write", "sync", "rename", "remove"}

StoreTyped ==
  /\ pid \in [Processes -> Pids \union {None}]
  /\ counter \in [Processes -> Nat]
  /\ attempt \in [Processes -> Nat]
  /\ pc \in [Processes -> SavePcs]
  /\ draft \in [Processes -> Edits \union {DefaultConfig}]
  /\ tmp \in [Processes -> Names \union {None}]
  /\ result \in [Processes -> {"none", "ok", "err", "exhausted"}]
  /\ failures \in Nat
  /\ DOMAIN temps \subseteq Names
  /\ IsFiniteSet(DOMAIN temps)

\* Running processes have different pids; one that does not run does not save.
RunningProcesses ==
  /\ \A p, q \in Processes : pid[p] # None /\ pid[p] = pid[q] => p = q
  /\ \A p \in Processes : pid[p] = None => pc[p] = "idle" /\ result[p] = "none"

\* The file a save holds carries its pid and a number drawn before, and is
\* nobody else's; every other file is left over.
OwnTemps ==
  /\ leftover \subseteq DOMAIN temps
  /\ DOMAIN temps \subseteq
       leftover \union {tmp[p] : p \in {q \in Processes : pc[q] \in Holding}}
  /\ \A p \in Processes :
       /\ pc[p] \in {"idle", "create"} => tmp[p] = None
       /\ pc[p] \in Holding => tmp[p] \in DOMAIN temps \ leftover
       /\ pc[p] \in Holding \union {"sync_dir"} =>
            tmp[p] \in Names /\ tmp[p].pid = pid[p] /\ tmp[p].n < counter[p]

\* n left-over files carry the pid of p and consecutive numbers from a on.
Taken(p, a, n) == \A i \in a .. a + n - 1 : [pid |-> pid[p], n |-> i] \in leftover

\* Every name tried and refused is that of a left-over file.
RefusedNames ==
  \A p \in Processes :
    /\ pc[p] = "idle" => attempt[p] = 0
    /\ pc[p] = "create" =>
         /\ attempt[p] < MaxAttempts
         /\ attempt[p] <= counter[p]
         /\ Taken(p, counter[p] - attempt[p], attempt[p])
    /\ result[p] = "exhausted" => \E a \in Nat : Taken(p, a, MaxAttempts)

\* What the temporary file of a save holds before and after its sync, and that
\* a rename brought a synced file.
SyncedFirst ==
  \A p \in Processes :
    /\ pc[p] # "idle" => draft[p] \in Edits
    /\ pc[p] = "sync" => temps[tmp[p]] = File(render_config(draft[p]), FALSE)
    /\ pc[p] = "rename" => temps[tmp[p]] = File(render_config(draft[p]), TRUE)
    /\ pc[p] = "sync_dir" => target.synced = TRUE

StoreInv ==
  /\ StoreTyped
  /\ RunningProcesses
  /\ OwnTemps
  /\ RefusedNames
  /\ SyncedFirst

-----------------------------------------------------------------------------
\* The parts of a file, and what a sync makes of it.
LEMMA SyncedFile ==
  ASSUME NEW lines, NEW old, NEW new
  PROVE  /\ [File(lines, old) EXCEPT !.synced = new] = File(lines, new)
         /\ File(lines, new).synced = new
         /\ File(lines, new).lines = lines
BY DEF File

\* A file that is synced keeps its lines.
LEMMA SyncedNow ==
  ASSUME NEW lines, NEW file, file = File(lines, FALSE)
  PROVE  [file EXCEPT !.synced = TRUE] = File(lines, TRUE)
<1>1. \A old, new : file = File(lines, old) => [file EXCEPT !.synced = new] = File(lines, new)
  BY DEF File
<1> QED
  BY <1>1, Zenon

\* Initially no process runs and there is no temporary file.
LEMMA StoreInvInit == StoreInit => StoreInv
<1> SUFFICES ASSUME StoreInit PROVE StoreInv
  OBVIOUS
<1>1. DOMAIN temps = {} /\ leftover = {}
  BY DEF StoreInit
<1>2. StoreTyped
  <2>1. IsFiniteSet(DOMAIN temps)
    BY <1>1, FS_EmptySet
  <2> QED
    BY <2>1, <1>1 DEF StoreInit, StoreTyped, SavePcs
<1>3. RunningProcesses
  BY DEF StoreInit, RunningProcesses
<1>4. OwnTemps
  BY <1>1 DEF StoreInit, OwnTemps, Holding
<1>5. RefusedNames
  BY DEF StoreInit, RefusedNames
<1>6. SyncedFirst
  BY DEF StoreInit, SyncedFirst
<1> QED
  BY <1>2, <1>3, <1>4, <1>5, <1>6 DEF StoreInv

\* Start, Save: nothing happens to a file.
LEMMA StartKeeps ==
  ASSUME StoreInv, NEW p \in Processes, NEW id \in Pids, NEW args \in Overrides,
         Start(p, id, args)
  PROVE  StoreInv'
<1> USE DEF Start, saveVars, fileVars
<1>1. StoreTyped'
  BY DEF StoreInv, StoreTyped
<1>2. pc[p] = "idle" /\ result[p] = "none"
  BY DEF StoreInv, RunningProcesses
<1>3. RunningProcesses'
  BY <1>2, StoreAssumption DEF StoreInv, StoreTyped, RunningProcesses
<1>4. OwnTemps'
  BY <1>2 DEF StoreInv, StoreTyped, OwnTemps, Holding
<1>5. RefusedNames'
  BY <1>2 DEF StoreInv, StoreTyped, RefusedNames, Taken
<1>6. SyncedFirst'
  BY DEF StoreInv, SyncedFirst
<1> QED
  BY <1>1, <1>3, <1>4, <1>5, <1>6 DEF StoreInv

\* A save begins without a temporary file and without an attempt.
LEMMA SaveKeeps ==
  ASSUME StoreInv, NEW p \in Processes, NEW config \in Edits, Save(p, config)
  PROVE  StoreInv'
<1> USE DEF Save, Goto, fileVars
<1>1. StoreTyped'
  BY DEF StoreInv, StoreTyped, SavePcs
<1>2. RunningProcesses'
  BY DEF StoreInv, StoreTyped, RunningProcesses
<1>3. OwnTemps'
  BY DEF StoreInv, StoreTyped, OwnTemps, Holding
<1>4. RefusedNames'
  <2>1. attempt[p] = 0
    BY DEF StoreInv, RefusedNames
  <2>2. Taken(p, counter[p] - attempt[p], attempt[p])'
    BY <2>1 DEF StoreInv, StoreTyped, Taken
  <2>3. attempt[p] < MaxAttempts /\ attempt[p] <= counter[p]
    BY <2>1, StoreAssumption DEF StoreInv, StoreTyped
  <2> QED
    BY <2>1, <2>2, <2>3 DEF StoreInv, StoreTyped, RefusedNames, Taken
<1>5. SyncedFirst'
  BY DEF StoreInv, StoreTyped, SyncedFirst
<1> QED
  BY <1>1, <1>2, <1>3, <1>4, <1>5 DEF StoreInv

\* A drawn number is not used again, and the name it makes is either nobody's
\* or that of a left-over file.
LEMMA DrawnName ==
  ASSUME StoreInv, NEW p \in Processes, Create(p)
  PROVE  /\ pid[p] \in Pids
         /\ counter'[p] = counter[p] + 1
         /\ temp_name(p) \in Names
         /\ \A q \in Processes : pc[q] \in Holding => tmp[q] # temp_name(p)
         /\ temp_name(p) \in DOMAIN temps => temp_name(p) \in leftover
<1>1. pid[p] \in Pids
  BY DEF StoreInv, StoreTyped, RunningProcesses, Create
<1>2. temp_name(p) \in Names /\ counter'[p] = counter[p] + 1
  BY <1>1 DEF StoreInv, StoreTyped, Create, atomic_temp_path, temp_name, Names
<1>3. ASSUME NEW q \in Processes, pc[q] \in Holding, tmp[q] = temp_name(p)
      PROVE  FALSE
  <2>1. pid[q] = pid[p] /\ tmp[q].n = counter[p] /\ tmp[q].n < counter[q]
    BY <1>3 DEF StoreInv, OwnTemps, temp_name
  <2>2. q = p
    BY <1>1, <2>1, StoreAssumption DEF StoreInv, RunningProcesses
  <2> QED
    BY <1>3, <2>2 DEF Create, Holding
<1> QED
  BY <1>1, <1>2, <1>3 DEF StoreInv, OwnTemps

\* A free name is created: the file is the save's own from here on.
LEMMA CreateNewKeeps ==
  ASSUME StoreInv, NEW p \in Processes, Create(p), temp_name(p) \notin DOMAIN temps
  PROVE  StoreInv'
<1> DEFINE name == temp_name(p)
<1>1. /\ pc[p] = "create"
      /\ pc' = [pc EXCEPT ![p] = "write"]
      /\ tmp' = [tmp EXCEPT ![p] = name]
      /\ counter' = [counter EXCEPT ![p] = @ + 1]
      /\ temps' = [n \in DOMAIN temps \union {name} |->
                     IF n = name THEN File(<<>>, FALSE) ELSE temps[n]]
      /\ UNCHANGED <<pid, draft, attempt, result, target, leftover, failures>>
  BY DEF Create, create_private_temp, Goto, atomic_temp_path
<1>2. DOMAIN temps' = DOMAIN temps \union {name}
  BY <1>1
<1>3. \A n \in DOMAIN temps : temps'[n] = temps[n]
  BY <1>1
<1>4. /\ name \in Names /\ name.pid = pid[p] /\ name.n = counter[p]
      /\ pid[p] # None
      /\ \A q \in Processes : pc[q] \in Holding => tmp[q] # name
  BY DrawnName, StoreAssumption DEF temp_name
<1>5. name \notin DOMAIN temps
  OBVIOUS
<1> HIDE DEF name
<1>6. StoreTyped'
  <2>1. IsFiniteSet(DOMAIN temps')
    BY <1>2, FS_AddElement DEF StoreInv, StoreTyped
  <2> QED
    BY <2>1, <1>1, <1>2, <1>4 DEF StoreInv, StoreTyped, SavePcs
<1>7. RunningProcesses'
  BY <1>1, <1>4 DEF StoreInv, StoreTyped, RunningProcesses
<1>8. OwnTemps'
  <2>1. (leftover \subseteq DOMAIN temps)'
    BY <1>1, <1>2 DEF StoreInv, OwnTemps
  <2>2. (DOMAIN temps \subseteq
           leftover \union {tmp[q] : q \in {r \in Processes : pc[r] \in Holding}})'
    <3> SUFFICES ASSUME NEW n \in DOMAIN temps', n \notin leftover'
                 PROVE  \E q \in Processes : pc'[q] \in Holding /\ tmp'[q] = n
      OBVIOUS
    <3>1. CASE n = name
      BY <3>1, <1>1 DEF StoreInv, StoreTyped, Holding
    <3>2. CASE n # name
      <4>1. PICK q \in Processes : pc[q] \in Holding /\ tmp[q] = n
        BY <3>2, <1>1, <1>2 DEF StoreInv, OwnTemps
      <4>2. q # p
        BY <4>1, <1>1 DEF Holding
      <4> QED
        BY <4>1, <4>2, <1>1 DEF StoreInv, StoreTyped
    <3> QED
      BY <3>1, <3>2
  <2>3. ASSUME NEW q \in Processes
        PROVE  /\ pc'[q] \in {"idle", "create"} => tmp'[q] = None
               /\ pc'[q] \in Holding => tmp'[q] \in DOMAIN temps' \ leftover'
               /\ pc'[q] \in Holding \union {"sync_dir"} =>
                    tmp'[q] \in Names /\ tmp'[q].pid = pid'[q] /\ tmp'[q].n < counter'[q]
    <3>1. CASE q = p
      BY <3>1, <1>1, <1>2, <1>4, <1>5 DEF StoreInv, StoreTyped, OwnTemps
    <3>2. CASE q # p
      BY <3>2, <1>1, <1>2 DEF StoreInv, StoreTyped, OwnTemps
    <3> QED
      BY <3>1, <3>2
  <2> QED
    BY <2>1, <2>2, <2>3 DEF OwnTemps
<1>9. RefusedNames'
  BY <1>1 DEF StoreInv, StoreTyped, RefusedNames, Taken
<1>10. SyncedFirst'
  <2> SUFFICES ASSUME NEW q \in Processes
               PROVE  (/\ pc[q] # "idle" => draft[q] \in Edits
                       /\ pc[q] = "sync" => temps[tmp[q]] = File(render_config(draft[q]), FALSE)
                       /\ pc[q] = "rename" => temps[tmp[q]] = File(render_config(draft[q]), TRUE)
                       /\ pc[q] = "sync_dir" => target.synced = TRUE)'
    BY DEF SyncedFirst
  <2>1. CASE q = p
    <3>1. pc'[q] = "write" /\ draft'[q] = draft[q]
      BY <2>1, <1>1 DEF StoreInv, StoreTyped
    <3> QED
      BY <2>1, <3>1, <1>1 DEF StoreInv, SyncedFirst
  <2>2. CASE q # p
    <3>1. pc'[q] = pc[q] /\ draft'[q] = draft[q] /\ tmp'[q] = tmp[q] /\ target' = target
      BY <2>2, <1>1 DEF StoreInv, StoreTyped
    <3>2. pc[q] \in Holding => temps'[tmp[q]] = temps[tmp[q]]
      BY <1>1, <1>3 DEF StoreInv, OwnTemps
    <3> QED
      BY <3>1, <3>2 DEF StoreInv, SyncedFirst, Holding
  <2> QED
    BY <2>1, <2>2
<1> QED
  BY <1>6, <1>7, <1>8, <1>9, <1>10 DEF StoreInv

\* A save that returns gives up its claim on a name; no file is touched here.
LEMMA ReturnsShape ==
  ASSUME StoreTyped, NEW p \in Processes, NEW report, Returns(p, report)
  PROVE  /\ pc'[p] = "idle" /\ tmp'[p] = None /\ attempt'[p] = 0 /\ result'[p] = report
         /\ \A q \in Processes \ {p} :
              /\ pc'[q] = pc[q] /\ draft'[q] = draft[q] /\ attempt'[q] = attempt[q]
              /\ tmp'[q] = tmp[q] /\ result'[q] = result[q]
         /\ pc' \in [Processes -> SavePcs]
         /\ draft' \in [Processes -> Edits \union {DefaultConfig}]
         /\ attempt' \in [Processes -> Nat]
         /\ tmp' \in [Processes -> Names \union {None}]
         /\ report \in {"none", "ok", "err", "exhausted"} =>
              result' \in [Processes -> {"none", "ok", "err", "exhausted"}]
BY DEF StoreTyped, Returns, SavePcs

\* A save that returns, with the files of the others as they were, leaves the
\* others' drafts and files in step.
LEMMA ReturnKeepsSynced ==
  ASSUME StoreTyped, SyncedFirst, NEW p \in Processes, NEW report, Returns(p, report),
         target' = target,
         \A q \in Processes \ {p} :
           pc[q] \in {"sync", "rename"} => temps'[tmp[q]] = temps[tmp[q]]
  PROVE  SyncedFirst'
<1> SUFFICES ASSUME NEW q \in Processes
             PROVE  (/\ pc[q] # "idle" => draft[q] \in Edits
                     /\ pc[q] = "sync" => temps[tmp[q]] = File(render_config(draft[q]), FALSE)
                     /\ pc[q] = "rename" => temps[tmp[q]] = File(render_config(draft[q]), TRUE)
                     /\ pc[q] = "sync_dir" => target.synced = TRUE)'
  BY DEF SyncedFirst
<1>1. CASE q = p
  BY <1>1, ReturnsShape
<1>2. CASE q # p
  <2>1. pc'[q] = pc[q] /\ draft'[q] = draft[q] /\ tmp'[q] = tmp[q]
    BY <1>2, ReturnsShape
  <2> QED
    BY <2>1, <1>2 DEF SyncedFirst
<1> QED
  BY <1>1, <1>2

\* A refused name is that of a left-over file; the save tries the next one, or
\* has met MaxAttempts of them.
LEMMA CreateRefusedKeeps ==
  ASSUME StoreInv, NEW p \in Processes, Create(p), temp_name(p) \in DOMAIN temps
  PROVE  StoreInv'
<1> USE StoreAssumption
<1>1. /\ pc[p] = "create"
      /\ counter' = [counter EXCEPT ![p] = @ + 1]
      /\ IF attempt[p] + 1 < MaxAttempts
         THEN /\ attempt' = [attempt EXCEPT ![p] = @ + 1]
              /\ UNCHANGED <<pc, draft, tmp, result>>
         ELSE Returns(p, "exhausted")
      /\ UNCHANGED <<pid, target, temps, leftover, failures>>
  BY DEF Create, create_private_temp, atomic_temp_path
<1>2. temp_name(p) \in leftover /\ pid[p] # None
  BY DrawnName
<1>3. Taken(p, counter[p] - attempt[p], attempt[p] + 1)
  <2>1. Taken(p, counter[p] - attempt[p], attempt[p])
    BY <1>1 DEF StoreInv, RefusedNames
  <2> SUFFICES ASSUME NEW i \in counter[p] - attempt[p] .. counter[p]
               PROVE  [pid |-> pid[p], n |-> i] \in leftover
    BY DEF Taken, StoreInv, StoreTyped
  <2>2. CASE i = counter[p]
    BY <2>2, <1>2 DEF temp_name
  <2>3. CASE i # counter[p]
    BY <2>1, <2>3 DEF Taken, StoreInv, StoreTyped
  <2> QED
    BY <2>2, <2>3
<1>4. attempt[p] < MaxAttempts /\ attempt[p] <= counter[p] /\ attempt[p] \in Nat
      /\ counter[p] \in Nat
  BY <1>1 DEF StoreInv, RefusedNames, StoreTyped
<1>5. CASE attempt[p] + 1 < MaxAttempts
  <2>1. StoreTyped'
    BY <1>1, <1>4, <1>5 DEF StoreInv, StoreTyped
  <2>2. RunningProcesses'
    BY <1>1, <1>5 DEF StoreInv, RunningProcesses
  <2>3. OwnTemps'
    BY <1>1, <1>5 DEF StoreInv, StoreTyped, OwnTemps, Holding
  <2>4. RefusedNames'
    <3>1. attempt'[p] = attempt[p] + 1 /\ counter'[p] = counter[p] + 1
      BY <1>1, <1>5 DEF StoreInv, StoreTyped
    <3>2. counter'[p] - attempt'[p] = counter[p] - attempt[p]
      BY <3>1, <1>4
    <3>3. Taken(p, counter[p] - attempt[p], attempt[p])'
      BY <3>1, <3>2, <1>3, <1>1 DEF Taken
    <3>4. ASSUME NEW q \in Processes, q # p
          PROVE  /\ counter'[q] = counter[q] /\ attempt'[q] = attempt[q]
                 /\ \A a, n : Taken(q, a, n)' <=> Taken(q, a, n)
      BY <3>4, <1>1, <1>5 DEF StoreInv, StoreTyped, Taken
    <3>5. \A a, n : Taken(p, a, n)' <=> Taken(p, a, n)
      BY <1>1 DEF Taken
    <3>6. pc' = pc /\ result' = result
      BY <1>1, <1>5
    <3>7. attempt'[p] < MaxAttempts /\ attempt'[p] <= counter'[p]
      BY <3>1, <1>4, <1>5
    <3> HIDE DEF Taken
    <3> QED
      BY <3>3, <3>4, <3>5, <3>6, <3>7, <1>1 DEF StoreInv, RefusedNames
  <2>5. SyncedFirst'
    BY <1>1, <1>5 DEF StoreInv, SyncedFirst
  <2> QED
    BY <2>1, <2>2, <2>3, <2>4, <2>5 DEF StoreInv
<1>6. CASE ~(attempt[p] + 1 < MaxAttempts)
  <2>0. Returns(p, "exhausted")
    BY <1>1, <1>6
  <2>1. StoreTyped'
    BY <1>1, <2>0, ReturnsShape DEF StoreInv, StoreTyped
  <2>2. RunningProcesses'
    BY <1>1, <1>2, <2>0, ReturnsShape DEF StoreInv, RunningProcesses
  <2>3. OwnTemps'
    BY <1>1, <2>0, ReturnsShape DEF StoreInv, StoreTyped, OwnTemps, Holding
  <2>4. RefusedNames'
    <3>1. attempt[p] + 1 = MaxAttempts
      BY <1>4, <1>6
    <3>2. \E a \in Nat : Taken(p, a, MaxAttempts)'
      <4>1. counter[p] - attempt[p] \in Nat
        BY <1>4
      <4> QED
        BY <4>1, <3>1, <1>3, <1>1 DEF Taken
    <3> QED
      BY <3>2, <1>1, <2>0, ReturnsShape DEF StoreInv, StoreTyped, RefusedNames, Taken
  <2>5. SyncedFirst'
    BY <1>1, <2>0, ReturnKeepsSynced DEF StoreInv
  <2> QED
    BY <2>1, <2>2, <2>3, <2>4, <2>5 DEF StoreInv
<1> QED
  BY <1>5, <1>6

\* Nothing was created: the save returns as if it had not begun.
LEMMA CreateFailsKeeps ==
  ASSUME StoreInv, NEW p \in Processes, CreateFails(p)
  PROVE  StoreInv'
<1>1. /\ pc[p] = "create" /\ pid[p] # None
      /\ Returns(p, "err")
      /\ UNCHANGED <<pid, counter, target, temps, leftover, failures>>
  BY DEF CreateFails, fileVars, StoreInv, RunningProcesses
<1>2. StoreTyped'
  BY <1>1, ReturnsShape DEF StoreInv, StoreTyped
<1>3. RunningProcesses'
  BY <1>1, ReturnsShape DEF StoreInv, RunningProcesses
<1>4. OwnTemps'
  BY <1>1, ReturnsShape DEF StoreInv, StoreTyped, OwnTemps, Holding
<1>5. RefusedNames'
  <2>1. /\ pc'[p] = "idle" /\ attempt'[p] = 0 /\ result'[p] = "err"
        /\ \A q \in Processes \ {p} :
             pc'[q] = pc[q] /\ attempt'[q] = attempt[q] /\ result'[q] = result[q]
    BY <1>1, ReturnsShape DEF StoreInv
  <2>2. \A q, a, n : Taken(q, a, n)' <=> Taken(q, a, n)
    BY <1>1 DEF Taken
  <2>3. UNCHANGED counter
    BY <1>1
  <2> HIDE DEF Taken
  <2> QED
    BY <2>1, <2>2, <2>3 DEF StoreInv, RefusedNames
<1>6. SyncedFirst'
  BY <1>1, ReturnKeepsSynced DEF StoreInv
<1> QED
  BY <1>2, <1>3, <1>4, <1>5, <1>6 DEF StoreInv

\* A step from one holding place to another, which rewrites no file but its own.
LEMMA HoldingKeeps ==
  ASSUME StoreInv, NEW p \in Processes, NEW next \in Holding,
         pc[p] \in Holding, Goto(p, next),
         UNCHANGED <<pid, counter, draft, attempt, tmp, result, target, leftover, failures>>,
         DOMAIN temps' = DOMAIN temps
  PROVE  /\ StoreTyped' /\ RunningProcesses' /\ OwnTemps' /\ RefusedNames'
         /\ \A q \in Processes \ {p} :
              pc[q] \in Holding => tmp[q] # tmp[p] /\ tmp[q] \in DOMAIN temps
<1>1. /\ pc'[p] = next
      /\ \A q \in Processes \ {p} : pc'[q] = pc[q]
      /\ pc' \in [Processes -> SavePcs]
  BY DEF StoreInv, StoreTyped, Goto, Holding, SavePcs
<1>2. StoreTyped'
  BY <1>1 DEF StoreInv, StoreTyped
<1>3. RunningProcesses'
  BY <1>1 DEF StoreInv, RunningProcesses, Holding
<1>4. OwnTemps'
  BY <1>1 DEF StoreInv, OwnTemps, Holding
<1>5. RefusedNames'
  BY <1>1 DEF StoreInv, RefusedNames, Taken, Holding
<1>6. ASSUME NEW q \in Processes \ {p}, pc[q] \in Holding
      PROVE  tmp[q] # tmp[p] /\ tmp[q] \in DOMAIN temps
  <2>1. pid[q] # None /\ tmp[q].pid = pid[q] /\ tmp[p].pid = pid[p]
    BY <1>6 DEF StoreInv, RunningProcesses, OwnTemps, Holding
  <2>2. pid[q] # pid[p]
    BY <2>1 DEF StoreInv, RunningProcesses
  <2> QED
    BY <1>6, <2>1, <2>2 DEF StoreInv, OwnTemps
<1> QED
  BY <1>2, <1>3, <1>4, <1>5, <1>6

\* The content is written.
LEMMA WriteKeeps ==
  ASSUME StoreInv, NEW p \in Processes, Write(p)
  PROVE  StoreInv'
<1>1. /\ pc[p] \in Holding /\ "sync" \in Holding /\ Goto(p, "sync")
      /\ UNCHANGED <<pid, counter, draft, attempt, tmp, result, target, leftover, failures>>
      /\ DOMAIN temps' = DOMAIN temps
  BY DEF Write, Holding
<1>2. \A q \in Processes \ {p} :
        pc[q] \in Holding => tmp[q] # tmp[p] /\ tmp[q] \in DOMAIN temps
  BY <1>1, HoldingKeeps
<1>3. SyncedFirst'
  <2> SUFFICES ASSUME NEW q \in Processes
               PROVE  (/\ pc[q] # "idle" => draft[q] \in Edits
                       /\ pc[q] = "sync" => temps[tmp[q]] = File(render_config(draft[q]), FALSE)
                       /\ pc[q] = "rename" => temps[tmp[q]] = File(render_config(draft[q]), TRUE)
                       /\ pc[q] = "sync_dir" => target.synced = TRUE)'
    BY DEF SyncedFirst
  <2>1. CASE q = p
    <3>1. tmp[p] \in DOMAIN temps
      BY <1>1 DEF StoreInv, OwnTemps
    <3> QED
      BY <2>1, <3>1, <1>1 DEF Write, Goto, StoreInv, StoreTyped, SyncedFirst
  <2>2. CASE q # p
    BY <2>2, <1>1, <1>2 DEF Write, Goto, StoreInv, StoreTyped, SyncedFirst, Holding
  <2> QED
    BY <2>1, <2>2
<1> QED
  BY <1>1, <1>3, HoldingKeeps DEF StoreInv

\* The content reaches the disk.
LEMMA SyncKeeps ==
  ASSUME StoreInv, NEW p \in Processes, Sync(p)
  PROVE  StoreInv'
<1>1. /\ pc[p] \in Holding /\ "rename" \in Holding /\ Goto(p, "rename")
      /\ UNCHANGED <<pid, counter, draft, attempt, tmp, result, target, leftover, failures>>
      /\ DOMAIN temps' = DOMAIN temps
  BY DEF Sync, Holding
<1>2. \A q \in Processes \ {p} :
        pc[q] \in Holding => tmp[q] # tmp[p] /\ tmp[q] \in DOMAIN temps
  BY <1>1, HoldingKeeps
<1>3. SyncedFirst'
  <2> SUFFICES ASSUME NEW q \in Processes
               PROVE  (/\ pc[q] # "idle" => draft[q] \in Edits
                       /\ pc[q] = "sync" => temps[tmp[q]] = File(render_config(draft[q]), FALSE)
                       /\ pc[q] = "rename" => temps[tmp[q]] = File(render_config(draft[q]), TRUE)
                       /\ pc[q] = "sync_dir" => target.synced = TRUE)'
    BY DEF SyncedFirst
  <2>1. CASE q = p
    <3>1. tmp[p] \in DOMAIN temps
      BY <1>1 DEF StoreInv, OwnTemps
    <3>2. temps[tmp[p]] = File(render_config(draft[p]), FALSE)
      BY DEF Sync, StoreInv, SyncedFirst
    <3>3. temps'[tmp[p]] = File(render_config(draft[p]), TRUE)
      <4>1. temps'[tmp[p]] = [temps[tmp[p]] EXCEPT !.synced = TRUE]
        BY <3>1 DEF Sync
      <4> QED
        BY <3>2, <4>1, SyncedNow
    <3>4. pc'[p] = "rename" /\ tmp'[p] = tmp[p] /\ draft'[p] = draft[p] /\ draft[p] \in Edits
      BY <1>1 DEF Sync, Goto, StoreInv, StoreTyped, SyncedFirst
    <3> QED
      BY <2>1, <3>3, <3>4
  <2>2. CASE q # p
    BY <2>2, <1>1, <1>2 DEF Sync, Goto, StoreInv, StoreTyped, SyncedFirst, Holding
  <2> QED
    BY <2>1, <2>2
<1> QED
  BY <1>1, <1>3, HoldingKeeps DEF StoreInv

\* A step fails; the file stays until it is removed.
LEMMA StepFailsKeeps ==
  ASSUME StoreInv, NEW p \in Processes, StepFails(p)
  PROVE  StoreInv'
<1>1. /\ pc[p] \in Holding /\ "remove" \in Holding /\ Goto(p, "remove")
      /\ UNCHANGED <<pid, counter, draft, attempt, tmp, result, target, temps, leftover, failures>>
  BY DEF StepFails, Holding, fileVars
<1>2. SyncedFirst'
  BY <1>1 DEF Goto, StoreInv, StoreTyped, SyncedFirst, Holding
<1> QED
  BY <1>1, <1>2, HoldingKeeps DEF StoreInv

\* A save gives its own file up: it is renamed or removed, and no other file is
\* touched.
LEMMA ReleaseKeeps ==
  ASSUME StoreInv, NEW p \in Processes, pc[p] \in Holding,
         \/ pc'[p] = "idle" /\ tmp'[p] = None
         \/ pc'[p] = "sync_dir" /\ tmp'[p] = tmp[p],
         \A q \in Processes \ {p} : pc'[q] = pc[q] /\ tmp'[q] = tmp[q],
         temps' = [name \in DOMAIN temps \ {tmp[p]} |-> temps[name]],
         UNCHANGED <<pid, counter, leftover>>
  PROVE  /\ DOMAIN temps' \subseteq Names /\ IsFiniteSet(DOMAIN temps')
         /\ OwnTemps'
         /\ \A q \in Processes \ {p} : pc[q] \in Holding => temps'[tmp[q]] = temps[tmp[q]]
<1>1. DOMAIN temps' = DOMAIN temps \ {tmp[p]}
  OBVIOUS
<1>2. ASSUME NEW q \in Processes \ {p}, pc[q] \in Holding
      PROVE  tmp[q] # tmp[p] /\ tmp[q] \in DOMAIN temps
  <2>1. pid[q] # None /\ tmp[q].pid = pid[q] /\ tmp[p].pid = pid[p]
    BY <1>2 DEF StoreInv, RunningProcesses, OwnTemps, Holding
  <2>2. pid[q] # pid[p]
    BY <2>1 DEF StoreInv, RunningProcesses
  <2> QED
    BY <1>2, <2>1, <2>2 DEF StoreInv, OwnTemps
<1>3. DOMAIN temps' \subseteq Names /\ IsFiniteSet(DOMAIN temps')
  BY <1>1, FS_RemoveElement DEF StoreInv, StoreTyped
<1>4. OwnTemps'
  <2>1. (leftover \subseteq DOMAIN temps)'
    BY <1>1 DEF StoreInv, OwnTemps
  <2>2. (DOMAIN temps \subseteq
           leftover \union {tmp[q] : q \in {r \in Processes : pc[r] \in Holding}})'
    <3> SUFFICES ASSUME NEW n \in DOMAIN temps', n \notin leftover
                 PROVE  \E q \in Processes : pc'[q] \in Holding /\ tmp'[q] = n
      OBVIOUS
    <3>1. PICK q \in Processes : pc[q] \in Holding /\ tmp[q] = n
      BY <1>1 DEF StoreInv, OwnTemps
    <3>2. q # p
      BY <3>1, <1>1
    <3> QED
      BY <3>1, <3>2
  <2>3. ASSUME NEW q \in Processes
        PROVE  /\ pc'[q] \in {"idle", "create"} => tmp'[q] = None
               /\ pc'[q] \in Holding => tmp'[q] \in DOMAIN temps' \ leftover'
               /\ pc'[q] \in Holding \union {"sync_dir"} =>
                    tmp'[q] \in Names /\ tmp'[q].pid = pid'[q] /\ tmp'[q].n < counter'[q]
    <3>1. CASE q = p
      BY <3>1 DEF StoreInv, OwnTemps, Holding
    <3>2. CASE q # p
      BY <3>2, <1>1, <1>2 DEF StoreInv, OwnTemps
    <3> QED
      BY <3>1, <3>2
  <2> QED
    BY <2>1, <2>2, <2>3 DEF OwnTemps
<1> QED
  BY <1>1, <1>2, <1>3, <1>4

\* The rename takes effect at once, with the synced content of the draft.
LEMMA RenameKeeps ==
  ASSUME StoreInv, NEW p \in Processes, Rename(p)
  PROVE  StoreInv'
<1>1. /\ pc[p] = "rename"
      /\ target' = temps[tmp[p]]
      /\ temps' = [name \in DOMAIN temps \ {tmp[p]} |-> temps[name]]
      /\ pc'[p] = "sync_dir"
      /\ \A q \in Processes \ {p} : pc'[q] = pc[q]
      /\ pc' \in [Processes -> SavePcs]
      /\ UNCHANGED <<pid, counter, draft, attempt, tmp, result, leftover, failures>>
  BY DEF Rename, Goto, StoreInv, StoreTyped, SavePcs
<1>2. /\ DOMAIN temps' \subseteq Names /\ IsFiniteSet(DOMAIN temps')
      /\ OwnTemps'
      /\ \A q \in Processes \ {p} : pc[q] \in Holding => temps'[tmp[q]] = temps[tmp[q]]
  BY <1>1, ReleaseKeeps DEF Holding
<1>3. StoreTyped'
  BY <1>1, <1>2 DEF StoreInv, StoreTyped
<1>4. RunningProcesses'
  BY <1>1 DEF StoreInv, RunningProcesses
<1>5. RefusedNames'
  BY <1>1 DEF StoreInv, RefusedNames, Taken
<1>6. SyncedFirst'
  <2>1. target'.synced = TRUE
    <3>1. target' = File(render_config(draft[p]), TRUE)
      BY <1>1 DEF StoreInv, SyncedFirst
    <3> QED
      BY <3>1, SyncedFile
  <2> SUFFICES ASSUME NEW q \in Processes
               PROVE  (/\ pc[q] # "idle" => draft[q] \in Edits
                       /\ pc[q] = "sync" => temps[tmp[q]] = File(render_config(draft[q]), FALSE)
                       /\ pc[q] = "rename" => temps[tmp[q]] = File(render_config(draft[q]), TRUE)
                       /\ pc[q] = "sync_dir" => target.synced = TRUE)'
    BY DEF SyncedFirst
  <2>2. CASE q = p
    BY <2>1, <2>2, <1>1 DEF StoreInv, SyncedFirst
  <2>3. CASE q # p
    BY <2>1, <2>3, <1>1, <1>2 DEF StoreInv, SyncedFirst, Holding
  <2> QED
    BY <2>2, <2>3
<1> QED
  BY <1>2, <1>3, <1>4, <1>5, <1>6 DEF StoreInv

\* The save has succeeded, and returns.
LEMMA SyncDirKeeps ==
  ASSUME StoreInv, NEW p \in Processes, SyncDir(p)
  PROVE  StoreInv'
<1>1. /\ pc[p] = "sync_dir" /\ pid[p] # None
      /\ Returns(p, "ok")
      /\ UNCHANGED <<pid, counter, target, temps, leftover, failures>>
  BY DEF SyncDir, StoreInv, RunningProcesses
<1>2. StoreTyped'
  BY <1>1, ReturnsShape DEF StoreInv, StoreTyped
<1>3. RunningProcesses'
  BY <1>1, ReturnsShape DEF StoreInv, RunningProcesses
<1>4. OwnTemps'
  BY <1>1, ReturnsShape DEF StoreInv, StoreTyped, OwnTemps, Holding
<1>5. RefusedNames'
  <2>1. /\ pc'[p] = "idle" /\ attempt'[p] = 0 /\ result'[p] = "ok"
        /\ \A q \in Processes \ {p} :
             pc'[q] = pc[q] /\ attempt'[q] = attempt[q] /\ result'[q] = result[q]
    BY <1>1, ReturnsShape DEF StoreInv
  <2>2. \A q, a, n : Taken(q, a, n)' <=> Taken(q, a, n)
    BY <1>1 DEF Taken
  <2>3. UNCHANGED counter
    BY <1>1
  <2> HIDE DEF Taken
  <2> QED
    BY <2>1, <2>2, <2>3 DEF StoreInv, RefusedNames
<1>6. SyncedFirst'
  BY <1>1, ReturnKeepsSynced DEF StoreInv
<1> QED
  BY <1>2, <1>3, <1>4, <1>5, <1>6 DEF StoreInv

\* A process abandons its own file: it stays, and is left over from here on.
LEMMA AbandonKeeps ==
  ASSUME StoreInv, NEW p \in Processes, pc'[p] = "idle", tmp'[p] = None,
         \A q \in Processes \ {p} :
           pc'[q] = pc[q] /\ tmp'[q] = tmp[q] /\ pid'[q] = pid[q] /\ counter'[q] = counter[q],
         leftover' = leftover \union ({tmp[p]} \intersect DOMAIN temps),
         UNCHANGED temps
  PROVE  OwnTemps'
<1>1. (leftover \subseteq DOMAIN temps)'
  BY DEF StoreInv, OwnTemps
<1>2. (DOMAIN temps \subseteq
         leftover \union {tmp[q] : q \in {r \in Processes : pc[r] \in Holding}})'
  <2> SUFFICES ASSUME NEW n \in DOMAIN temps, n \notin leftover'
               PROVE  \E q \in Processes : pc'[q] \in Holding /\ tmp'[q] = n
    OBVIOUS
  <2>1. PICK q \in Processes : pc[q] \in Holding /\ tmp[q] = n
    BY DEF StoreInv, OwnTemps
  <2>2. q # p
    BY <2>1
  <2> QED
    BY <2>1, <2>2
<1>3. ASSUME NEW q \in Processes
      PROVE  /\ pc'[q] \in {"idle", "create"} => tmp'[q] = None
             /\ pc'[q] \in Holding => tmp'[q] \in DOMAIN temps' \ leftover'
             /\ pc'[q] \in Holding \union {"sync_dir"} =>
                  tmp'[q] \in Names /\ tmp'[q].pid = pid'[q] /\ tmp'[q].n < counter'[q]
  <2>1. CASE q = p
    BY <2>1 DEF Holding
  <2>2. CASE q # p
    <3>1. ASSUME pc[q] \in Holding, tmp[p] \in DOMAIN temps
          PROVE  tmp[q] # tmp[p]
      <4>1. pid[q] # None /\ tmp[q].pid = pid[q] /\ tmp[q] \notin leftover
        BY <3>1 DEF StoreInv, RunningProcesses, OwnTemps, Holding
      <4>2. tmp[p] # None
        BY <3>1, StoreAssumption DEF StoreInv, StoreTyped, Names
      <4>3. tmp[p].pid = pid[p]
        BY <4>2 DEF StoreInv, StoreTyped, OwnTemps, SavePcs, Holding
      <4> QED
        BY <4>1, <4>3, <2>2 DEF StoreInv, RunningProcesses
    <3> QED
      BY <2>2, <3>1 DEF StoreInv, OwnTemps
  <2> QED
    BY <2>1, <2>2
<1> QED
  BY <1>1, <1>2, <1>3 DEF OwnTemps

\* The file of a failed save is removed, or left over.
LEMMA RemoveTempKeeps ==
  ASSUME StoreInv, NEW p \in Processes, RemoveTemp(p)
  PROVE  StoreInv'
<1>1. /\ pc[p] = "remove" /\ pid[p] # None
      /\ Returns(p, "err")
      /\ UNCHANGED <<pid, counter, target, failures>>
  BY DEF RemoveTemp, StoreInv, RunningProcesses
<1>2. pc[p] \in Holding /\ tmp[p] \in DOMAIN temps
  BY <1>1 DEF StoreInv, OwnTemps, Holding
<1>3. /\ DOMAIN temps' \subseteq Names /\ IsFiniteSet(DOMAIN temps')
      /\ OwnTemps'
      /\ leftover \subseteq leftover'
      /\ \A q \in Processes \ {p} : pc[q] \in Holding => temps'[tmp[q]] = temps[tmp[q]]
  <2>1. CASE /\ temps' = [name \in DOMAIN temps \ {tmp[p]} |-> temps[name]]
             /\ UNCHANGED leftover
    <3>1. /\ pc'[p] = "idle" /\ tmp'[p] = None
          /\ \A q \in Processes \ {p} : pc'[q] = pc[q] /\ tmp'[q] = tmp[q]
      BY <1>1, ReturnsShape DEF StoreInv
    <3> QED
      BY <1>1, <1>2, <2>1, <3>1, ReleaseKeeps
  <2>2. CASE leftover' = leftover \union {tmp[p]} /\ UNCHANGED temps
    <3>1. leftover' = leftover \union ({tmp[p]} \intersect DOMAIN temps)
      BY <1>2, <2>2
    <3>2. /\ pc'[p] = "idle" /\ tmp'[p] = None
          /\ \A q \in Processes \ {p} :
               pc'[q] = pc[q] /\ tmp'[q] = tmp[q] /\ pid'[q] = pid[q] /\ counter'[q] = counter[q]
      BY <1>1, ReturnsShape DEF StoreInv
    <3>3. OwnTemps'
      BY <2>2, <3>1, <3>2, AbandonKeeps
    <3> QED
      BY <2>2, <3>3 DEF StoreInv, StoreTyped
  <2> QED
    BY <2>1, <2>2 DEF RemoveTemp
<1>4. StoreTyped'
  BY <1>1, <1>3, ReturnsShape DEF StoreInv, StoreTyped
<1>5. RunningProcesses'
  BY <1>1, ReturnsShape DEF StoreInv, RunningProcesses
<1>6. RefusedNames'
  <2>1. \A q \in Processes : \A a, n : Taken(q, a, n) => Taken(q, a, n)'
    BY <1>1, <1>3 DEF Taken
  <2> QED
    BY <1>1, <2>1, ReturnsShape DEF StoreInv, RefusedNames
<1>7. SyncedFirst'
  BY <1>1, <1>3, ReturnKeepsSynced DEF StoreInv, Holding
<1> QED
  BY <1>3, <1>4, <1>5, <1>6, <1>7 DEF StoreInv

\* A killed process leaves what it has created.
LEMMA KillKeeps ==
  ASSUME StoreInv, NEW p \in Processes, Kill(p)
  PROVE  StoreInv'
<1>1. /\ Returns(p, "none")
      /\ leftover' = leftover \union ({tmp[p]} \intersect DOMAIN temps)
      /\ pid'[p] = None
      /\ \A q \in Processes \ {p} : pid'[q] = pid[q] /\ counter'[q] = counter[q]
      /\ pid' \in [Processes -> Pids \union {None}]
      /\ counter' \in [Processes -> Nat]
      /\ failures' \in Nat
      /\ UNCHANGED <<target, temps>>
  BY DEF Kill, StoreInv, StoreTyped
<1>2. StoreTyped'
  BY <1>1, ReturnsShape DEF StoreInv, StoreTyped
<1>3. RunningProcesses'
  BY <1>1, ReturnsShape DEF StoreInv, RunningProcesses
<1>4. OwnTemps'
  <2>1. /\ pc'[p] = "idle" /\ tmp'[p] = None
        /\ \A q \in Processes \ {p} :
             pc'[q] = pc[q] /\ tmp'[q] = tmp[q] /\ pid'[q] = pid[q] /\ counter'[q] = counter[q]
    BY <1>1, ReturnsShape DEF StoreInv
  <2> QED
    BY <1>1, <2>1, AbandonKeeps
<1>5. RefusedNames'
  <2>1. \A q \in Processes \ {p} : \A a, n : Taken(q, a, n) => Taken(q, a, n)'
    BY <1>1 DEF Taken
  <2> QED
    BY <1>1, <2>1, ReturnsShape DEF StoreInv, RefusedNames
<1>6. SyncedFirst'
  BY <1>1, ReturnKeepsSynced DEF StoreInv
<1> QED
  BY <1>2, <1>3, <1>4, <1>5, <1>6 DEF StoreInv

\* After a power loss every file there is is left over.
LEMMA PowerLossKeeps ==
  ASSUME StoreInv, PowerLoss
  PROVE  StoreInv'
<1> DEFINE claimed == {tmp[p] : p \in Processes}
<1>1. PICK found \in SUBSET (DOMAIN temps \union (claimed \ {None})) :
        /\ temps' = [name \in found |-> File(<<>>, TRUE)]
        /\ leftover' = found
  BY DEF PowerLoss
<1>2. DOMAIN temps' = found
  BY <1>1
<1>3. IsFiniteSet(claimed)
  <2>1. tmp \in Surjection(Processes, claimed)
    BY DEF Surjection, StoreInv, StoreTyped
  <2> QED
    BY <2>1, FS_Surjection, StoreAssumption
<1>4. IsFiniteSet(found) /\ found \subseteq Names
  <2>1. IsFiniteSet(DOMAIN temps \union (claimed \ {None}))
    BY <1>3, FS_RemoveElement, FS_Union DEF StoreInv, StoreTyped
  <2>2. claimed \ {None} \subseteq Names /\ DOMAIN temps \subseteq Names
    BY DEF StoreInv, StoreTyped
  <2> QED
    BY <2>1, <2>2, FS_Subset
<1>5. StoreTyped'
  BY <1>2, <1>4 DEF PowerLoss, StoreInv, StoreTyped, SavePcs
<1>6. RunningProcesses'
  BY DEF PowerLoss, RunningProcesses
<1>7. OwnTemps'
  BY <1>1, <1>2 DEF PowerLoss, OwnTemps, Holding
<1>8. RefusedNames'
  BY DEF PowerLoss, RefusedNames
<1>9. SyncedFirst'
  BY DEF PowerLoss, SyncedFirst
<1> QED
  BY <1>5, <1>6, <1>7, <1>8, <1>9 DEF StoreInv

\* StoreInv is inductive: every step of the store keeps it.
LEMMA StoreInvStep == StoreInv /\ [StoreNext]_storeVars => StoreInv'
<1> SUFFICES ASSUME StoreInv, [StoreNext]_storeVars PROVE StoreInv'
  OBVIOUS
<1>1. CASE UNCHANGED storeVars
  <2>1. UNCHANGED <<pid, counter, pc, draft, attempt, tmp, result, target, temps, leftover, failures>>
    BY <1>1 DEF storeVars, saveVars, fileVars
  <2>2. StoreTyped' /\ RunningProcesses' /\ OwnTemps'
    BY <2>1 DEF StoreInv, StoreTyped, RunningProcesses, OwnTemps
  <2>3. RefusedNames' /\ SyncedFirst'
    BY <2>1 DEF StoreInv, RefusedNames, Taken, SyncedFirst
  <2> QED
    BY <2>2, <2>3 DEF StoreInv
<1>2. ASSUME NEW p \in Processes, NEW id \in Pids, NEW args \in Overrides,
             Start(p, id, args)
      PROVE  StoreInv'
  BY <1>2, StartKeeps
<1>3. ASSUME NEW p \in Processes, NEW config \in Edits, Save(p, config)
      PROVE  StoreInv'
  BY <1>3, SaveKeeps
<1>4. ASSUME NEW p \in Processes,
             Create(p) \/ CreateFails(p) \/ Write(p) \/ Sync(p) \/ Rename(p)
             \/ SyncDir(p) \/ StepFails(p) \/ RemoveTemp(p) \/ Kill(p)
      PROVE  StoreInv'
  BY <1>4, CreateNewKeeps, CreateRefusedKeeps, CreateFailsKeeps, WriteKeeps, SyncKeeps,
     RenameKeeps, SyncDirKeeps, StepFailsKeeps, RemoveTempKeeps, KillKeeps
<1>5. CASE PowerLoss
  BY <1>5, PowerLossKeeps
<1> QED
  BY <1>1, <1>2, <1>3, <1>4, <1>5 DEF StoreNext

\* The invariant holds of every behaviour of the store.
THEOREM StoreInvariant == StoreSpec => []StoreInv
BY StoreInvInit, StoreInvStep, PTL DEF StoreSpec

\* Two saves never work on one temporary file, whatever pids were used before.
PrivateTemps ==
  \A p, q \in Processes :
    pc[p] \in Holding /\ pc[q] \in Holding /\ tmp[p] = tmp[q] => p = q

-----------------------------------------------------------------------------
\* A temporary file that no save works on is one that a killed process, a power
\* loss or a failed removal left.
THEOREM NothingLeftSafe == StoreSpec => []NothingLeftBehind
<1>1. StoreInv => NothingLeftBehind
  BY DEF StoreInv, OwnTemps, NothingLeftBehind
<1> QED
  BY <1>1, StoreInvariant, PTL

\* create_private_temp gives every save a file of its own.
THEOREM PrivateTempsSafe == StoreSpec => []PrivateTemps
<1>1. StoreInv => PrivateTemps
  BY DEF StoreInv, RunningProcesses, OwnTemps, PrivateTemps, Holding
<1> QED
  BY <1>1, StoreInvariant, PTL

\* Consecutive numbers make as many names.
LEMMA TakenCounts ==
  ASSUME StoreInv, NEW p \in Processes, NEW a \in Nat, Taken(p, a, MaxAttempts)
  PROVE  Cardinality({name \in leftover : name.pid = pid[p]}) >= MaxAttempts
<1> DEFINE own == {name \in leftover : name.pid = pid[p]}
           numbers == a .. a + MaxAttempts - 1
           f == [i \in numbers |-> [pid |-> pid[p], n |-> i]]
<1>1. IsFiniteSet(own)
  <2>1. own \in SUBSET DOMAIN temps
    BY DEF StoreInv, OwnTemps
  <2> QED
    BY <2>1, FS_Subset DEF StoreInv, StoreTyped
<1>2. IsFiniteSet(numbers) /\ Cardinality(numbers) = MaxAttempts
  BY FS_Interval, StoreAssumption
<1>3. f \in Injection(numbers, own)
  <2>1. \A i \in numbers : f[i] \in own
    BY DEF Taken
  <2>2. \A i, j \in numbers : f[i] = f[j] => i = j
    OBVIOUS
  <2> HIDE DEF own, numbers
  <2> QED
    BY <2>1, <2>2 DEF Injection, IsInjective
<1>4. Cardinality(numbers) <= Cardinality(own)
  <2> HIDE DEF own, numbers, f
  <2> QED
    BY <1>1, <1>3, FS_Injection
<1>5. Cardinality(own) \in Nat
  BY <1>1, FS_CardinalityType
<1> QED
  BY <1>2, <1>4, <1>5, StoreAssumption

\* A save reports that it ran out of names only against MaxAttempts left-over
\* files with its own pid; the files of running processes never refuse it one.
THEOREM ExhaustedSafe == StoreSpec => []ExhaustedByLeftovers
<1>1. StoreInv => ExhaustedByLeftovers
  BY TakenCounts DEF StoreInv, RefusedNames, ExhaustedByLeftovers
<1> QED
  BY <1>1, StoreInvariant, PTL

-----------------------------------------------------------------------------
\* Only the save that created a temporary file writes, renames or removes it.
THEOREM OnlyOwnSafe == StoreSpec => OnlyOwnTempChanges
<1> DEFINE Kept(name) == name \in DOMAIN temps' /\ temps'[name] = temps[name]
           Own == \A name \in DOMAIN temps :
                    \/ Kept(name)
                    \/ \E p \in Processes : tmp[p] = name
                    \/ failures' # failures
<1>1. StoreInv /\ StoreNext => Own
  <2> SUFFICES ASSUME StoreInv, StoreNext, NEW name \in DOMAIN temps,
                      \A p \in Processes : tmp[p] # name, failures' = failures
               PROVE  Kept(name)
    OBVIOUS
  <2>1. ASSUME NEW p \in Processes, NEW id \in Pids, NEW args \in Overrides,
               Start(p, id, args)
        PROVE  Kept(name)
    BY <2>1 DEF Start, fileVars
  <2>2. ASSUME NEW p \in Processes, NEW config \in Edits, Save(p, config)
        PROVE  Kept(name)
    BY <2>2 DEF Save, fileVars
  <2>3. ASSUME NEW p \in Processes, Create(p)
        PROVE  Kept(name)
    BY <2>3 DEF Create, create_private_temp
  <2>4. ASSUME NEW p \in Processes, CreateFails(p) \/ SyncDir(p) \/ StepFails(p)
        PROVE  Kept(name)
    BY <2>4 DEF CreateFails, SyncDir, StepFails, fileVars
  <2>5. ASSUME NEW p \in Processes, Write(p) \/ Sync(p)
        PROVE  Kept(name)
    BY <2>5 DEF Write, Sync
  <2>6. ASSUME NEW p \in Processes, Rename(p) \/ RemoveTemp(p)
        PROVE  Kept(name)
    BY <2>6 DEF Rename, RemoveTemp
  <2>7. ASSUME (\E p \in Processes : Kill(p)) \/ PowerLoss
        PROVE  FALSE
    <3>1. failures' = failures + 1
      BY <2>7 DEF Kill, PowerLoss
    <3> QED
      BY <3>1 DEF StoreInv, StoreTyped
  <2> QED
    BY <2>1, <2>2, <2>3, <2>4, <2>5, <2>6, <2>7 DEF StoreNext
<1>2. StoreInv /\ [StoreNext]_storeVars => [Own]_storeVars
  BY <1>1
<1>3. StoreSpec => [][Own]_storeVars
  BY <1>2, StoreInvariant, PTL DEF StoreSpec
<1> QED
  BY <1>3 DEF OnlyOwnTempChanges

-----------------------------------------------------------------------------
\* A sequence is one of its prefixes.
LEMMA WholeIsPrefix ==
  ASSUME NEW S, NEW s \in Seq(S)
  PROVE  s \in Prefixes(s)
<1>1. SubSeq(s, 1, Len(s)) = s
  OBVIOUS
<1>2. Len(s) \in 0 .. Len(s)
  OBVIOUS
<1> QED
  BY <1>1, <1>2 DEF Prefixes

\* render_config yields a sequence of lines.
LEMMA RenderedIsSequence ==
  ASSUME NEW raw
  PROVE  \E S : render_config(raw) \in Seq(S)
<1> DEFINE config == sanitized(raw)
           server == <<"server", config.server>>
           servers == <<"servers", config.servers>>
           gpu == <<"gpu", as_string(config.gpu_selector)>>
           refresh == <<"refresh_ms", config.refresh_ms>>
           discovery == <<"auto_discovery", config.auto_discovery>>
           S == {server, servers, gpu, refresh, discovery}
           l1 == IF config.server # NoUrl THEN <<server>> ELSE <<>>
           l2 == IF config.servers # <<>> THEN <<servers>> ELSE <<>>
           l3 == IF config.gpu_selector # AutoSelector THEN <<gpu>> ELSE <<>>
<1>1. render_config(raw) = l1 \o l2 \o l3 \o <<refresh>> \o <<discovery>>
  BY DEF render_config
<1>2. \A line \in S : <<line>> \in Seq(S)
  <2> HIDE DEF S
  <2> QED
    OBVIOUS
<1>3. <<>> \in Seq(S)
  OBVIOUS
<1>4. \A s, t \in Seq(S) : s \o t \in Seq(S)
  <2> HIDE DEF S
  <2> QED
    OBVIOUS
<1>5. /\ <<server>> \in Seq(S) /\ <<servers>> \in Seq(S) /\ <<gpu>> \in Seq(S)
      /\ <<refresh>> \in Seq(S) /\ <<discovery>> \in Seq(S)
  <2> HIDE DEF server, servers, gpu, refresh, discovery
  <2> QED
    BY <1>2
<1>6. l1 \in Seq(S) /\ l2 \in Seq(S) /\ l3 \in Seq(S)
  <2> HIDE DEF server, servers, gpu, S, config
  <2> QED
    BY <1>3, <1>5
<1> HIDE DEF l1, l2, l3, refresh, discovery, S
<1>7. render_config(raw) \in Seq(S)
  BY <1>1, <1>4, <1>5, <1>6
<1> QED
  BY <1>7

\* What a process that starts now would load, in the state after a rename of
\* the draft: the draft, sanitized.
LEMMA RenamedLoads ==
  ASSUME NEW config \in Edits
  PROVE  load(File(render_config(config), TRUE)) = cleaned[config]
<1> DEFINE lines == render_config(config)
<1>1. lines \in Contents
  <2>1. lines \in Prefixes(lines)
    BY RenderedIsSequence, WholeIsPrefix
  <2> QED
    BY <2>1 DEF Contents
<1>2. File(lines, TRUE) # Missing
  BY NothingAssumption
<1>3. File(lines, TRUE).lines = lines
  BY SyncedFile
<1>4. parsed[lines] = sanitized(config)
  BY <1>1, RoundTripAssumption DEF parsed
<1>5. cleaned[config] = sanitized(config)
  BY DEF cleaned
<1>6. load(File(lines, TRUE)) = parsed[File(lines, TRUE).lines]
  BY <1>2 DEF load
<1> QED
  BY <1>3, <1>4, <1>5, <1>6

-----------------------------------------------------------------------------
(***************************************************************************)
(* SavesAreAtomic: the store implements SavedConfig.  First the refinement *)
(* mapping under names, so that a step can be shown without unfolding it.  *)
(***************************************************************************)
SaveAt(place, config) ==
  IF place = "idle" THEN NoSave
  ELSE [config |-> cleaned[config], applied |-> place = "sync_dir"]

savesNow == [p \in Processes |-> SaveAt(pc[p], draft[p])]
reportOf(report) == IF report = "exhausted" THEN "err" ELSE report
outcomeNow == [p \in Processes |-> reportOf(result[p])]
storedNow == load(target)
recoverableNow == {load(file) : file \in disk}
mapped == <<storedNow, recoverableNow, savesNow, outcomeNow>>

\* The actions of SavedConfig in those names.
LEMMA Mapping ==
  /\ Saved!savedVars = mapped
  /\ Saved!savedVars' = mapped'
  /\ Saved!SavedInit <=> /\ recoverableNow = {storedNow}
                         /\ savesNow = [p \in Processes |-> NoSave]
                         /\ outcomeNow = [p \in Processes |-> "none"]
  /\ \A p, config :
       Saved!Begin(p, config) <=>
         /\ savesNow[p] = NoSave
         /\ savesNow' = [savesNow EXCEPT ![p] = [config |-> config, applied |-> FALSE]]
         /\ outcomeNow' = [outcomeNow EXCEPT ![p] = "none"]
         /\ UNCHANGED <<storedNow, recoverableNow>>
  /\ \A p :
       Saved!Apply(p) <=>
         /\ savesNow[p] # NoSave
         /\ ~savesNow[p].applied
         /\ storedNow' = savesNow[p].config
         /\ recoverableNow' = recoverableNow \union {savesNow[p].config}
         /\ savesNow' = [savesNow EXCEPT ![p].applied = TRUE]
         /\ UNCHANGED outcomeNow
  /\ \A p :
       Saved!Report(p) <=>
         /\ savesNow[p] # NoSave
         /\ outcomeNow' = [outcomeNow EXCEPT ![p] =
                             IF savesNow[p].applied THEN "ok" ELSE "err"]
         /\ savesNow' = [savesNow EXCEPT ![p] = NoSave]
         /\ recoverableNow' \in {recoverableNow, {storedNow}}
         /\ UNCHANGED storedNow
  /\ \A p :
       Saved!Crash(p) <=>
         /\ savesNow' = [savesNow EXCEPT ![p] = NoSave]
         /\ outcomeNow' = [outcomeNow EXCEPT ![p] = "none"]
         /\ UNCHANGED <<storedNow, recoverableNow>>
  /\ Saved!PowerLoss <=>
         /\ storedNow' \in recoverableNow
         /\ recoverableNow' = {storedNow'}
         /\ savesNow' = [p \in Processes |-> NoSave]
         /\ outcomeNow' = [p \in Processes |-> "none"]
<1> USE DEF savesNow, SaveAt, outcomeNow, reportOf, storedNow, recoverableNow, mapped
<1>1. Saved!savedVars = mapped /\ Saved!savedVars' = mapped'
  BY Zenon DEF Saved!savedVars
<1>2. Saved!SavedInit <=> /\ recoverableNow = {storedNow}
                          /\ savesNow = [p \in Processes |-> NoSave]
                          /\ outcomeNow = [p \in Processes |-> "none"]
  BY Zenon DEF Saved!SavedInit
<1>3. ASSUME NEW p, NEW config
      PROVE  Saved!Begin(p, config) <=>
               /\ savesNow[p] = NoSave
               /\ savesNow' = [savesNow EXCEPT ![p] = [config |-> config, applied |-> FALSE]]
               /\ outcomeNow' = [outcomeNow EXCEPT ![p] = "none"]
               /\ UNCHANGED <<storedNow, recoverableNow>>
  BY Zenon DEF Saved!Begin
<1>4. ASSUME NEW p
      PROVE  Saved!Apply(p) <=>
               /\ savesNow[p] # NoSave
               /\ ~savesNow[p].applied
               /\ storedNow' = savesNow[p].config
               /\ recoverableNow' = recoverableNow \union {savesNow[p].config}
               /\ savesNow' = [savesNow EXCEPT ![p].applied = TRUE]
               /\ UNCHANGED outcomeNow
  BY Zenon DEF Saved!Apply
<1>5. ASSUME NEW p
      PROVE  Saved!Report(p) <=>
               /\ savesNow[p] # NoSave
               /\ outcomeNow' = [outcomeNow EXCEPT ![p] =
                                   IF savesNow[p].applied THEN "ok" ELSE "err"]
               /\ savesNow' = [savesNow EXCEPT ![p] = NoSave]
               /\ recoverableNow' \in {recoverableNow, {storedNow}}
               /\ UNCHANGED storedNow
  BY Zenon DEF Saved!Report
<1>6. ASSUME NEW p
      PROVE  Saved!Crash(p) <=>
               /\ savesNow' = [savesNow EXCEPT ![p] = NoSave]
               /\ outcomeNow' = [outcomeNow EXCEPT ![p] = "none"]
               /\ UNCHANGED <<storedNow, recoverableNow>>
  BY Zenon DEF Saved!Crash
<1>7. Saved!PowerLoss <=>
        /\ storedNow' \in recoverableNow
        /\ recoverableNow' = {storedNow'}
        /\ savesNow' = [p \in Processes |-> NoSave]
        /\ outcomeNow' = [p \in Processes |-> "none"]
  BY Zenon DEF Saved!PowerLoss
<1> HIDE DEF savesNow, SaveAt, outcomeNow, reportOf, storedNow, recoverableNow, mapped
<1> QED
  BY <1>1, <1>2, <1>3, <1>4, <1>5, <1>6, <1>7, Zenon

\* What a save looks like at each place, as SavedConfig sees it.
LEMMA SaveShape ==
  ASSUME NEW config \in Edits
  PROVE  /\ \A any : SaveAt("idle", any) = NoSave
         /\ \A place \in SavePcs \ {"idle", "sync_dir"} :
              SaveAt(place, config) = [config |-> cleaned[config], applied |-> FALSE]
         /\ SaveAt("sync_dir", config) = [config |-> cleaned[config], applied |-> TRUE]
         /\ \A place \in SavePcs \ {"idle"} : SaveAt(place, config) # NoSave
<1>1. \A any : SaveAt("idle", any) = NoSave
  BY DEF SaveAt
<1>2. \A place \in SavePcs \ {"idle", "sync_dir"} :
        SaveAt(place, config) = [config |-> cleaned[config], applied |-> FALSE]
  BY DEF SaveAt
<1>3. SaveAt("sync_dir", config) = [config |-> cleaned[config], applied |-> TRUE]
  BY DEF SaveAt
<1>4. \A applied \in BOOLEAN : NoSave # [config |-> cleaned[config], applied |-> applied]
  BY NothingAssumption
<1> QED
  BY <1>1, <1>2, <1>3, <1>4, Zenon

\* A step of p that leaves the other saves and their results alone.
LEMMA MappedStep ==
  ASSUME NEW p \in Processes,
         \A q \in Processes \ {p} :
           pc'[q] = pc[q] /\ draft'[q] = draft[q] /\ result'[q] = result[q]
  PROVE  /\ savesNow' = [savesNow EXCEPT ![p] = SaveAt(pc'[p], draft'[p])]
         /\ outcomeNow' = [outcomeNow EXCEPT ![p] = reportOf(result'[p])]
         /\ savesNow[p] = SaveAt(pc[p], draft[p])
         /\ outcomeNow[p] = reportOf(result[p])
         /\ savesNow = [savesNow EXCEPT ![p] = savesNow[p]]
         /\ outcomeNow = [outcomeNow EXCEPT ![p] = outcomeNow[p]]
BY DEF savesNow, outcomeNow

\* The files unchanged, a reader gets what it got before.
LEMMA MappedFiles ==
  ASSUME target' = target
  PROVE  /\ storedNow' = storedNow
         /\ disk' = disk => recoverableNow' = recoverableNow
BY DEF storedNow, recoverableNow

\* Start, the steps up to the rename and its failure change nothing that a
\* reader or the caller sees.
LEMMA SilentSteps ==
  ASSUME StoreInv, NEW p \in Processes,
         \/ \E id \in Pids, args \in Overrides : Start(p, id, args)
         \/ Create(p) /\ pc'[p] # "idle"
         \/ Write(p) \/ Sync(p) \/ StepFails(p)
  PROVE  UNCHANGED mapped
<1>1. /\ target' = target /\ disk' = disk /\ draft' = draft /\ result' = result
      /\ \A q \in Processes \ {p} : pc'[q] = pc[q]
      /\ \/ pc'[p] = pc[p]
         \/ pc[p] \in SavePcs \ {"idle", "sync_dir"} /\ pc'[p] \in SavePcs \ {"idle", "sync_dir"}
  <2>1. ASSUME \E id \in Pids, args \in Overrides : Start(p, id, args)
        PROVE  pc' = pc /\ target' = target /\ disk' = disk /\ draft' = draft /\ result' = result
    BY <2>1 DEF Start, saveVars, fileVars
  <2>2. ASSUME Create(p), pc'[p] # "idle"
        PROVE  /\ target' = target /\ disk' = disk /\ draft' = draft /\ result' = result
               /\ pc' = pc \/ (pc[p] = "create" /\ pc' = [pc EXCEPT ![p] = "write"])
    <3>1. ~Returns(p, "exhausted")
      BY <2>2, ReturnsShape DEF StoreInv
    <3> QED
      BY <2>2, <3>1 DEF Create, create_private_temp, Goto
  <2>3. ASSUME Write(p) \/ Sync(p) \/ StepFails(p)
        PROVE  /\ target' = target /\ disk' = disk /\ draft' = draft /\ result' = result
               /\ pc[p] \in {"write", "sync", "rename"}
               /\ \E next \in {"sync", "rename", "remove"} : pc' = [pc EXCEPT ![p] = next]
    BY <2>3 DEF Write, Sync, StepFails, Goto, fileVars
  <2> QED
    BY <2>1, <2>2, <2>3 DEF StoreInv, StoreTyped, SavePcs
<1>2. SaveAt(pc'[p], draft'[p]) = SaveAt(pc[p], draft[p])
  <2>1. CASE pc'[p] = pc[p]
    BY <2>1, <1>1
  <2>2. CASE pc'[p] # pc[p]
    <3>1. draft[p] \in Edits
      BY <1>1, <2>2 DEF StoreInv, SyncedFirst
    <3> QED
      BY <1>1, <2>2, <3>1, SaveShape
  <2> QED
    BY <2>1, <2>2
<1>3. savesNow' = savesNow /\ outcomeNow' = outcomeNow
  BY <1>1, <1>2, MappedStep
<1> QED
  BY <1>1, <1>3, MappedFiles DEF mapped

\* Enter in the dialog begins a save of the sanitized configuration.
LEMMA SaveBegins ==
  ASSUME StoreInv, NEW p \in Processes, NEW config \in Edits, Save(p, config)
  PROVE  Saved!Begin(p, cleaned[config])
<1>1. /\ target' = target /\ disk' = disk
      /\ pc[p] = "idle" /\ pc'[p] = "create" /\ draft'[p] = config /\ result'[p] = "none"
      /\ \A q \in Processes \ {p} :
           pc'[q] = pc[q] /\ draft'[q] = draft[q] /\ result'[q] = result[q]
  BY DEF Save, Goto, fileVars, StoreInv, StoreTyped
<1>2. /\ SaveAt(pc'[p], draft'[p]) = [config |-> cleaned[config], applied |-> FALSE]
      /\ SaveAt(pc[p], draft[p]) = NoSave
      /\ reportOf(result'[p]) = "none"
  BY <1>1, SaveShape DEF SavePcs, reportOf
<1>3. /\ savesNow[p] = NoSave
      /\ savesNow' = [savesNow EXCEPT ![p] = [config |-> cleaned[config], applied |-> FALSE]]
      /\ outcomeNow' = [outcomeNow EXCEPT ![p] = "none"]
  BY <1>1, <1>2, MappedStep
<1>4. UNCHANGED <<storedNow, recoverableNow>>
  BY <1>1, MappedFiles
<1> QED
  BY <1>3, <1>4, Mapping, Zenon

\* The rename applies the save: from here on a reader gets the new value, and a
\* power loss may bring either.
LEMMA RenameApplies ==
  ASSUME StoreInv, NEW p \in Processes, Rename(p)
  PROVE  Saved!Apply(p)
<1>1. /\ pc[p] = "rename" /\ pc'[p] = "sync_dir" /\ draft' = draft /\ result' = result
      /\ \A q \in Processes \ {p} : pc'[q] = pc[q]
      /\ target' = temps[tmp[p]] /\ disk' = disk \union survivors(target')
  BY DEF Rename, Goto, StoreInv, StoreTyped
<1>2. draft[p] \in Edits /\ target' = File(render_config(draft[p]), TRUE)
  BY <1>1 DEF StoreInv, SyncedFirst
<1> DEFINE new == cleaned[draft[p]]
<1>3. load(target') = new
  BY <1>2, RenamedLoads
<1>4. survivors(target') = {target'}
  BY <1>2, SyncedFile, Zenon DEF survivors
<1>5. storedNow' = new /\ recoverableNow' = recoverableNow \union {new}
  BY <1>1, <1>3, <1>4 DEF storedNow, recoverableNow
<1>6. /\ SaveAt(pc[p], draft[p]) = [config |-> new, applied |-> FALSE]
      /\ SaveAt(pc'[p], draft'[p]) = [config |-> new, applied |-> TRUE]
      /\ SaveAt(pc[p], draft[p]) # NoSave
  BY <1>1, <1>2, SaveShape DEF SavePcs
<1> HIDE DEF new
<1>7. /\ savesNow[p] = [config |-> new, applied |-> FALSE]
      /\ savesNow[p] # NoSave
      /\ savesNow' = [savesNow EXCEPT ![p] = [config |-> new, applied |-> TRUE]]
      /\ outcomeNow' = outcomeNow
  BY <1>1, <1>6, MappedStep
<1>8. ASSUME NEW applied
      PROVE  /\ [config |-> new, applied |-> applied].applied = applied
             /\ [config |-> new, applied |-> applied].config = new
             /\ \A other : [[config |-> new, applied |-> applied] EXCEPT !.applied = other]
                             = [config |-> new, applied |-> other]
  OBVIOUS
<1>9. ~savesNow[p].applied /\ savesNow[p].config = new
  BY <1>7, <1>8, Zenon
<1>10. savesNow' = [savesNow EXCEPT ![p].applied = TRUE]
  <2>1. [[config |-> new, applied |-> FALSE] EXCEPT !.applied = TRUE]
          = [config |-> new, applied |-> TRUE]
    BY <1>8, Zenon
  <2>2. [savesNow[p] EXCEPT !.applied = TRUE] = [config |-> new, applied |-> TRUE]
    BY <1>7, <2>1, Zenon
  <2> QED
    BY <1>7, <2>2, Zenon
<1> QED
  BY <1>5, <1>7, <1>9, <1>10, Mapping, Zenon

\* What a save that returns reports: Ok after its rename, an error before, and
\* then it has changed nothing.
LEMMA ReturnReports ==
  ASSUME StoreInv, NEW p \in Processes, NEW report, Returns(p, report),
         target' = target, disk' = disk \/ recoverableNow' = {storedNow},
         \/ pc[p] = "sync_dir" /\ report = "ok"
         \/ pc[p] \in SavePcs \ {"idle", "sync_dir"} /\ report \in {"err", "exhausted"}
  PROVE  Saved!Report(p)
<1>1. /\ pc'[p] = "idle" /\ result'[p] = report
      /\ \A q \in Processes \ {p} :
           pc'[q] = pc[q] /\ draft'[q] = draft[q] /\ result'[q] = result[q]
  BY ReturnsShape DEF StoreInv
<1>2. draft[p] \in Edits
  BY DEF StoreInv, SyncedFirst
<1>3. /\ savesNow[p] = SaveAt(pc[p], draft[p])
      /\ savesNow' = [savesNow EXCEPT ![p] = NoSave]
      /\ outcomeNow' = [outcomeNow EXCEPT ![p] = reportOf(report)]
  BY <1>1, <1>2, MappedStep, SaveShape
<1>4. savesNow[p] # NoSave
  BY <1>2, <1>3, SaveShape DEF SavePcs
<1>5. reportOf(report) = IF savesNow[p].applied THEN "ok" ELSE "err"
  <2>0. ASSUME NEW applied
        PROVE  [config |-> cleaned[draft[p]], applied |-> applied].applied = applied
    OBVIOUS
  <2>1. CASE pc[p] = "sync_dir" /\ report = "ok"
    <3>1. savesNow[p] = [config |-> cleaned[draft[p]], applied |-> TRUE]
      BY <2>1, <1>2, <1>3, SaveShape
    <3>2. savesNow[p].applied = TRUE
      BY <2>0, <3>1, Zenon
    <3>3. reportOf(report) = "ok"
      BY <2>1 DEF reportOf
    <3> QED
      BY <3>2, <3>3, Zenon
  <2>2. CASE pc[p] \in SavePcs \ {"idle", "sync_dir"} /\ report \in {"err", "exhausted"}
    <3>1. savesNow[p] = [config |-> cleaned[draft[p]], applied |-> FALSE]
      BY <2>2, <1>2, <1>3, SaveShape
    <3>2. savesNow[p].applied = FALSE
      BY <2>0, <3>1, Zenon
    <3>3. reportOf(report) = "err"
      BY <2>2 DEF reportOf
    <3> QED
      BY <3>2, <3>3, Zenon
  <2> QED
    BY <2>1, <2>2
<1>6. storedNow' = storedNow /\ recoverableNow' \in {recoverableNow, {storedNow}}
  BY MappedFiles
<1>7. outcomeNow' = [outcomeNow EXCEPT ![p] = IF savesNow[p].applied THEN "ok" ELSE "err"]
  BY <1>3, <1>5, Zenon
<1> QED
  BY <1>3, <1>4, <1>6, <1>7, Mapping, Zenon

\* SyncDir, a failed creation, running out of names and the removal report.
LEMMA ReportingSteps ==
  ASSUME StoreInv, NEW p \in Processes,
         \/ Create(p) /\ pc'[p] = "idle"
         \/ CreateFails(p) \/ SyncDir(p) \/ RemoveTemp(p)
  PROVE  Saved!Report(p)
<1>1. ASSUME Create(p), pc'[p] = "idle"
      PROVE  Saved!Report(p)
  <2>1. /\ pc[p] = "create" /\ target' = target /\ disk' = disk
        /\ Returns(p, "exhausted")
    BY <1>1 DEF Create, create_private_temp, Goto, StoreInv, StoreTyped
  <2> QED
    BY <2>1, ReturnReports DEF SavePcs
<1>2. ASSUME CreateFails(p)
      PROVE  Saved!Report(p)
  BY <1>2, ReturnReports DEF CreateFails, fileVars, SavePcs
<1>3. ASSUME RemoveTemp(p)
      PROVE  Saved!Report(p)
  BY <1>3, ReturnReports DEF RemoveTemp, SavePcs
<1>4. ASSUME SyncDir(p)
      PROVE  Saved!Report(p)
  <2>1. /\ pc[p] = "sync_dir" /\ target' = target /\ Returns(p, "ok")
        /\ disk' = disk \/ disk' = survivors(target)
    BY <1>4 DEF SyncDir
  <2>2. survivors(target) = {target}
    <3>1. target.synced = TRUE
      BY <2>1 DEF StoreInv, SyncedFirst
    <3> QED
      BY <3>1, Zenon DEF survivors
  <2>3. disk' = disk \/ recoverableNow' = {storedNow}
    BY <2>1, <2>2 DEF recoverableNow, storedNow
  <2> QED
    BY <2>1, <2>3, ReturnReports
<1> QED
  BY <1>1, <1>2, <1>3, <1>4

\* A killed process's save is over; what was stored stays stored.
LEMMA KillCrashes ==
  ASSUME StoreInv, NEW p \in Processes, Kill(p)
  PROVE  Saved!Crash(p)
<1>1. /\ target' = target /\ disk' = disk
      /\ pc'[p] = "idle" /\ result'[p] = "none"
      /\ \A q \in Processes \ {p} :
           pc'[q] = pc[q] /\ draft'[q] = draft[q] /\ result'[q] = result[q]
  BY ReturnsShape DEF Kill, StoreInv
<1>2. SaveAt(pc'[p], draft'[p]) = NoSave /\ reportOf(result'[p]) = "none"
  BY <1>1 DEF SaveAt, reportOf
<1>3. /\ savesNow' = [savesNow EXCEPT ![p] = NoSave]
      /\ outcomeNow' = [outcomeNow EXCEPT ![p] = "none"]
  BY <1>1, <1>2, MappedStep
<1>4. UNCHANGED <<storedNow, recoverableNow>>
  BY <1>1, MappedFiles
<1> QED
  BY <1>3, <1>4, Mapping, Zenon

\* A power loss ends every save and keeps one recoverable value.
LEMMA PowerLossMapped ==
  ASSUME PowerLoss
  PROVE  Saved!PowerLoss
<1>1. storedNow' \in recoverableNow /\ recoverableNow' = {storedNow'}
  BY DEF PowerLoss, storedNow, recoverableNow
<1>2. /\ savesNow' = [p \in Processes |-> NoSave]
      /\ outcomeNow' = [p \in Processes |-> "none"]
  BY DEF PowerLoss, savesNow, SaveAt, outcomeNow, reportOf
<1> QED
  BY <1>1, <1>2, Mapping, Zenon

\* The store implements SavedConfig: whatever the interleaving of the saves of
\* several processes, wherever one is killed or the power fails, a reader gets
\* one whole configuration that was saved, and every report is true.
THEOREM SavesAtomicSafe == StoreSpec => SavesAreAtomic
<1>1. StoreInit => Saved!SavedInit
  <2> SUFFICES ASSUME StoreInit PROVE Saved!SavedInit
    OBVIOUS
  <2>1. recoverableNow = {storedNow}
    BY DEF StoreInit, recoverableNow, storedNow
  <2>2. /\ savesNow = [p \in Processes |-> NoSave]
        /\ outcomeNow = [p \in Processes |-> "none"]
    BY DEF StoreInit, savesNow, SaveAt, outcomeNow, reportOf
  <2> QED
    BY <2>1, <2>2, Mapping, Zenon
<1>2. StoreInv /\ [StoreNext]_storeVars => [Saved!SavedNext]_(Saved!savedVars)
  <2> SUFFICES ASSUME StoreInv, [StoreNext]_storeVars
               PROVE  Saved!SavedNext \/ UNCHANGED Saved!savedVars
    OBVIOUS
  <2>1. ASSUME UNCHANGED mapped
        PROVE  UNCHANGED Saved!savedVars
    BY <2>1, Mapping, Zenon
  <2>2. CASE UNCHANGED storeVars
    <3>1. UNCHANGED <<pc, draft, result, target, disk>>
      BY <2>2 DEF storeVars, saveVars, fileVars
    <3>2. UNCHANGED mapped
      BY <3>1 DEF mapped, savesNow, outcomeNow, storedNow, recoverableNow
    <3> QED
      BY <2>1, <3>2
  <2>3. CASE PowerLoss
    BY <2>3, PowerLossMapped DEF Saved!SavedNext
  <2>4. ASSUME NEW p \in Processes, NEW config \in Edits, Save(p, config)
        PROVE  Saved!SavedNext
    BY <2>4, SaveBegins DEF Saved!SavedNext
  <2>5. ASSUME NEW p \in Processes,
               \/ \E id \in Pids, args \in Overrides : Start(p, id, args)
               \/ Create(p) \/ Write(p) \/ Sync(p) \/ StepFails(p)
               \/ CreateFails(p) \/ SyncDir(p) \/ RemoveTemp(p)
        PROVE  Saved!Report(p) \/ UNCHANGED mapped
    BY <2>5, SilentSteps, ReportingSteps
  <2>6. ASSUME NEW p \in Processes, Rename(p) \/ Kill(p)
        PROVE  Saved!Apply(p) \/ Saved!Crash(p)
    BY <2>6, RenameApplies, KillCrashes
  <2> QED
    BY <2>1, <2>2, <2>3, <2>4, <2>5, <2>6 DEF StoreNext, Saved!SavedNext
<1> QED
  BY <1>1, <1>2, StoreInvariant, PTL DEF StoreSpec, SavesAreAtomic, Saved!SavedSpec
==============================================================================
