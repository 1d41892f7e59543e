------------------------------- MODULE DiskProofs -------------------------------
(***************************************************************************)
(* What a program that is interrupted leaves behind, for all contents of   *)
(* the files and any sequence of programs, menus and values.  The          *)
(* inductive invariant DiskInv says, for each place in a call, which files *)
(* can be trusted there: .config or .config.old, and auto.conf as the      *)
(* record of what things were compiled with.                               *)
(***************************************************************************)
EXTENDS Disk, TLAPS

(* Between two calls there is nothing to do.                               *)
LEMMA NoJobFields ==
  /\ DOMAIN NoJob = {"file", "at", "lines", "left"}
  /\ NoJob.file = "config" /\ NoJob.at = "none" /\ NoJob.left = <<>>
BY DEF NoJob

LEMMA InitInv == DiskInit => DiskInv
<1> SUFFICES ASSUME DiskInit PROVE DiskInv
  OBVIOUS
<1>1. job = NoJob /\ disk["auto"] = Absent
  BY DEF DiskInit, Files
<1>2. TypeOK
  <2>1. DOMAIN disk = Files
    BY DEF DiskInit
  <2>2. DOMAIN compiled = Names
    BY DEF DiskInit
  <2>3. writes \in 0 .. 2 /\ synced \in BOOLEAN /\ torn \in BOOLEAN
    <3>1. writes \in 0 .. 2
      BY DEF DiskInit
    <3>2. synced \in BOOLEAN /\ torn \in BOOLEAN
      BY Zenon DEF DiskInit
    <3> QED
      BY <3>1, <3>2
  <2>4. NoJob.left \in Seq(Names)
    BY NoJobFields
  <2> QED
    BY <1>1, <2>1, <2>2, <2>3, <2>4, NoJobFields DEF TypeOK, Locations
<1>3. JobOK /\ SavedOK /\ SyncedOK
  BY <1>1, NoJobFields DEF DiskInit, JobOK, SavedOK, SyncedOK
<1>4. CompiledOK
  <2>1. \A s : ValueIn(Absent, s) = None
    BY DEF ValueIn
  <2>2. \A s \in Names : compiled[s] = None
    BY DEF DiskInit
  <2> QED
    BY <1>1, <2>1, <2>2, NoJobFields DEF CompiledOK
<1> QED
  BY <1>2, <1>3, <1>4 DEF DiskInv

-------------------------------------------------------------------------------
(* No call is under way, and nothing happens to the files.                 *)
LEMMA StartKeeps == DiskInv /\ StartProgram(want') => DiskInv'
<1> SUFFICES ASSUME DiskInv, StartProgram(want') PROVE DiskInv'
  OBVIOUS
<1> USE DEF StartProgram, build, history
<1>1. TypeOK'
  BY DEF DiskInv, TypeOK
<1>2. JobOK' /\ SavedOK' /\ SyncedOK'
  BY NoJobFields DEF DiskInv, JobOK, SavedOK, SyncedOK
<1>3. CompiledOK'
  BY NoJobFields DEF DiskInv, JobOK, CompiledOK
<1> QED
  BY <1>1, <1>2, <1>3 DEF DiskInv

LEMMA NewValuesKeeps == DiskInv /\ NewValues(want') => DiskInv'
<1> SUFFICES ASSUME DiskInv, NewValues(want') PROVE DiskInv'
  OBVIOUS
<1> USE DEF NewValues, history
<1>1. TypeOK'
  BY DEF DiskInv, TypeOK
<1>2. JobOK' /\ SavedOK' /\ SyncedOK'
  BY NoJobFields DEF DiskInv, JobOK, SavedOK, SyncedOK, Idle
<1>3. CompiledOK'
  BY NoJobFields DEF DiskInv, CompiledOK, Idle
<1> QED
  BY <1>1, <1>2, <1>3 DEF DiskInv

(* A build compiles what was touched, with the values that auto.conf has.  *)
LEMMA CompileKeeps == DiskInv /\ Compile => DiskInv'
<1> SUFFICES ASSUME DiskInv, Compile PROVE DiskInv'
  OBVIOUS
<1> USE DEF Compile, history
<1>1. TypeOK'
  BY DEF DiskInv, TypeOK
<1>2. JobOK' /\ SavedOK' /\ SyncedOK'
  BY NoJobFields DEF DiskInv, JobOK, SavedOK, SyncedOK, Idle
<1>3. CompiledOK'
  <2>1. disk["auto"] = want /\ disk["header"] = want
    BY DEF DiskInv, SyncedOK
  <2>2. ASSUME ~torn', NEW s \in Names \ (touched' \cup missed')
        PROVE  compiled'[s] = ValueIn(disk'["auto"], s)
    BY <2>1, <2>2, NoJobFields DEF DiskInv, CompiledOK, Idle
  <2> QED
    BY <2>2, NoJobFields DEF CompiledOK, Idle
<1> QED
  BY <1>1, <1>2, <1>3 DEF DiskInv

-------------------------------------------------------------------------------
(* A call begins.                                                          *)
LEMMA SaveKeeps == DiskInv /\ Save(job'.lines) => DiskInv'
<1> SUFFICES ASSUME DiskInv, Save(job'.lines) PROVE DiskInv'
  OBVIOUS
<1> USE DEF Save, build, history
<1>1. job'.file = "config" /\ job'.at = "rename" /\ job'.left = <<>>
      /\ DOMAIN job' = {"file", "at", "lines", "left"}
  OBVIOUS
<1>2. TypeOK'
  <2>1. job'.left \in Seq(Names)
    BY <1>1
  <2> QED
    BY <1>1, <2>1 DEF DiskInv, TypeOK, Locations
<1>3. JobOK' /\ SavedOK' /\ SyncedOK'
  BY <1>1 DEF DiskInv, JobOK, SavedOK, SyncedOK, Idle
<1>4. CompiledOK'
  BY <1>1, NoJobFields DEF DiskInv, CompiledOK, Idle
<1> QED
  BY <1>2, <1>3, <1>4 DEF DiskInv

LEMMA WriteIfChangedKeeps ==
  ASSUME DiskInv, NEW file \in {"defconfig", "header"},
         WriteIfChanged(file, job'.lines)
  PROVE  DiskInv'
<1> USE DEF WriteIfChanged, build, history
<1>1. job'.file = file /\ job'.at = "truncate" /\ job'.left = <<>>
      /\ DOMAIN job' = {"file", "at", "lines", "left"}
  OBVIOUS
<1>2. TypeOK'
  <2>1. job'.left \in Seq(Names)
    BY <1>1
  <2> QED
    BY <1>1, <2>1 DEF DiskInv, TypeOK, Locations
<1>3. JobOK' /\ SavedOK' /\ SyncedOK'
  BY <1>1 DEF DiskInv, JobOK, SavedOK, SyncedOK, Idle
<1>4. CompiledOK'
  BY <1>1, NoJobFields DEF DiskInv, CompiledOK, Idle
<1> QED
  BY <1>2, <1>3, <1>4 DEF DiskInv

(* sync_deps finds all that changed: what it will not touch is up to date. *)
LEMMA SyncKeeps ==
  ASSUME DiskInv, Sync(job'.left, missed'), TellsAll(job'.left, missed')
  PROVE  DiskInv'
<1> USE DEF Sync, history
<1>1. job'.file = "auto" /\ job'.at = "touch" /\ job'.lines = want
      /\ DOMAIN job' = {"file", "at", "lines", "left"}
  OBVIOUS
<1>2. TypeOK'
  <2>1. job'.left \in Seq(Names)
    BY DEF TellsAll
  <2> QED
    BY <1>1, <2>1 DEF DiskInv, TypeOK, Locations
<1>3. JobOK' /\ SavedOK' /\ SyncedOK'
  BY <1>1 DEF DiskInv, JobOK, SavedOK, SyncedOK, Idle
<1>4. CompiledOK'
  <2>1. ASSUME ~torn', NEW s \in Names \ (touched' \cup missed')
        PROVE  compiled'[s] = ValueIn(disk'["auto"], s)
    BY <2>1, NoJobFields DEF DiskInv, CompiledOK, Idle
  <2>2. ASSUME ~torn', NEW s \in Names \ (touched' \cup missed' \cup Pending')
        PROVE  compiled'[s] = ValueIn(want', s)
    <3>1. \A i \in 1 .. Len(job'.left) : job'.left[i] # s
      BY <2>2 DEF Pending
    <3>2. ValueIn(disk["auto"], s) = ValueIn(want, s)
      BY <2>2, <3>1 DEF TellsAll
    <3> QED
      BY <2>1, <2>2, <3>2
  <2> QED
    BY <2>1, <2>2 DEF CompiledOK
<1> QED
  BY <1>2, <1>3, <1>4 DEF DiskInv

-------------------------------------------------------------------------------
(* A call goes on.                                                         *)
LEMMA JobFields ==
  ASSUME TypeOK, NEW step, Goto(step)
  PROVE  /\ job'.file = job.file /\ job'.at = step
         /\ job'.lines = job.lines /\ job'.left = job.left
         /\ DOMAIN job' = {"file", "at", "lines", "left"}
BY DEF TypeOK, Goto

LEMMA RenameKeeps == DiskInv /\ Rename => DiskInv'
<1> SUFFICES ASSUME DiskInv, Rename PROVE DiskInv'
  OBVIOUS
<1> USE DEF Rename, build
<1>0. TypeOK /\ JobOK
  BY DEF DiskInv
<1>1. /\ job'.file = job.file /\ job'.at = "truncate"
      /\ job'.lines = job.lines /\ job'.left = job.left
      /\ DOMAIN job' = {"file", "at", "lines", "left"}
  BY <1>0, JobFields
<1>2. job.at = "rename" /\ job.file = "config" /\ want # Absent
  BY <1>0, NoJobFields DEF JobOK
<1>3. /\ DOMAIN disk' = Files
      /\ disk'["auto"] = disk["auto"]
      /\ disk["config"] # Absent => disk'["old"] = disk["config"]
  BY <1>0 DEF TypeOK, Files
<1>4. TypeOK'
  BY <1>0, <1>1, <1>3 DEF TypeOK, Locations
<1>5. JobOK'
  <2>1. writes' # 0 \/ saved' = Absent
    BY <1>0 DEF DiskInv, SavedOK, TypeOK
  <2> QED
    BY <1>0, <1>1, <1>2, <2>1 DEF JobOK
<1>6. SavedOK'
  BY <1>0, <1>3 DEF DiskInv, SavedOK, TypeOK
<1>7. SyncedOK' /\ CompiledOK'
  BY <1>1, <1>2, <1>3 DEF DiskInv, SyncedOK, CompiledOK
<1> QED
  BY <1>4, <1>5, <1>6, <1>7 DEF DiskInv

(* A file that has been touched need not be touched any more.              *)
LEMMA TouchKeeps == DiskInv /\ Touch => DiskInv'
<1> SUFFICES ASSUME DiskInv, Touch PROVE DiskInv'
  OBVIOUS
<1> USE DEF Touch, history
<1>0. TypeOK /\ JobOK
  BY DEF DiskInv
<1>1. /\ job'.file = job.file /\ job'.at = job.at
      /\ job'.lines = job.lines /\ job'.left = Tail(job.left)
      /\ DOMAIN job' = {"file", "at", "lines", "left"}
  BY <1>0 DEF TypeOK
<1>2. job.left \in Seq(Names) /\ job.left # <<>> /\ job.at = "touch"
  BY <1>0 DEF TypeOK
<1>3. TypeOK'
  BY <1>0, <1>1, <1>2 DEF TypeOK
<1>4. JobOK' /\ SavedOK' /\ SyncedOK'
  <2>1. want # Absent
    BY <1>0, <1>2, NoJobFields DEF JobOK
  <2> QED
    BY <1>1, <2>1 DEF DiskInv, JobOK, SavedOK, SyncedOK
<1>5. Pending \subseteq Pending' \cup {Head(job.left)}
  <2> SUFFICES ASSUME NEW i \in 1 .. Len(job.left), i # 1
               PROVE  \E k \in 1 .. Len(Tail(job.left)) : Tail(job.left)[k] = job.left[i]
    BY <1>1, <1>2 DEF Pending
  <2>1. i - 1 \in 1 .. Len(Tail(job.left)) /\ Tail(job.left)[i - 1] = job.left[i]
    BY <1>2
  <2> QED
    BY <2>1
<1>6. CompiledOK'
  BY <1>1, <1>5 DEF DiskInv, CompiledOK
<1> QED
  BY <1>3, <1>4, <1>6 DEF DiskInv

LEMMA CompareKeeps == DiskInv /\ Compare => DiskInv'
<1> SUFFICES ASSUME DiskInv, Compare PROVE DiskInv'
  OBVIOUS
<1> USE DEF Compare, history
<1>0. TypeOK /\ JobOK
  BY DEF DiskInv
<1>1. job.file = "auto" /\ job.lines = want /\ want # Absent /\ Pending = {}
  BY <1>0, NoJobFields DEF JobOK, Pending
<1>2. CASE disk["auto"] = job.lines
  <2>1. job' = NoJob /\ synced'
    BY <1>2
  <2>2. TypeOK'
    BY <1>0, <2>1, NoJobFields DEF TypeOK, Locations
  <2>3. JobOK' /\ SavedOK' /\ SyncedOK'
    BY <1>1, <1>2, <2>1, NoJobFields DEF DiskInv, JobOK, SavedOK, SyncedOK
  <2>4. CompiledOK'
    BY <1>1, <2>1, NoJobFields DEF DiskInv, CompiledOK
  <2> QED
    BY <2>2, <2>3, <2>4 DEF DiskInv
<1>3. CASE disk["auto"] # job.lines
  <2>1. /\ job'.file = job.file /\ job'.at = "truncate"
        /\ job'.lines = job.lines /\ job'.left = job.left
        /\ DOMAIN job' = {"file", "at", "lines", "left"}
    BY <1>0, <1>3, JobFields
  <2>2. TypeOK'
    BY <1>0, <1>3, <2>1 DEF TypeOK, Locations
  <2>3. JobOK' /\ SavedOK' /\ SyncedOK'
    BY <1>1, <1>3, <2>1 DEF DiskInv, JobOK, SavedOK, SyncedOK
  <2>4. CompiledOK'
    BY <1>1, <1>3, <2>1 DEF DiskInv, CompiledOK, Pending
  <2> QED
    BY <2>2, <2>3, <2>4 DEF DiskInv
<1> QED
  BY <1>2, <1>3

-------------------------------------------------------------------------------
(* A file is emptied and written: .config when it has been moved away, and *)
(* auto.conf when all that changed has been touched.                       *)
LEMMA TruncateKeeps == DiskInv /\ Truncate => DiskInv'
<1> SUFFICES ASSUME DiskInv, Truncate PROVE DiskInv'
  OBVIOUS
<1> USE DEF Truncate, build, history
<1>0. TypeOK /\ JobOK
  BY DEF DiskInv
<1>1. /\ job'.file = job.file /\ job'.at = "write"
      /\ job'.lines = job.lines /\ job'.left = job.left
      /\ DOMAIN job' = {"file", "at", "lines", "left"}
  BY <1>0, JobFields
<1>2. /\ DOMAIN disk' = Files
      /\ \A f \in Files \ {job.file} : disk'[f] = disk[f]
  BY <1>0 DEF TypeOK
<1>3. TypeOK' /\ JobOK'
  <2>1. TypeOK'
    BY <1>0, <1>1, <1>2 DEF TypeOK, Locations
  <2>2. JobOK'
    <3>1. want # Absent
      BY <1>0, NoJobFields DEF JobOK
    <3> QED
      BY <1>0, <1>1, <3>1 DEF JobOK
  <2> QED
    BY <2>1, <2>2
<1>4. SavedOK'
  BY <1>0, <1>2 DEF DiskInv, SavedOK, TypeOK, JobOK, Files
<1>5. SyncedOK'
  BY <1>1, <1>2 DEF DiskInv, SyncedOK, Files
<1>6. CompiledOK'
  <2>1. Pending' = Pending
    BY <1>1 DEF Pending
  <2>2. job.file = "auto" \/ disk'["auto"] = disk["auto"]
    BY <1>2 DEF Files
  <2> QED
    BY <1>1, <2>1, <2>2 DEF DiskInv, CompiledOK
<1> QED
  BY <1>3, <1>4, <1>5, <1>6 DEF DiskInv

LEMMA WriteKeeps == DiskInv /\ Write => DiskInv'
<1> SUFFICES ASSUME DiskInv, Write PROVE DiskInv'
  OBVIOUS
<1> USE DEF Write
<1>0. TypeOK /\ JobOK /\ job' = NoJob
  BY DEF DiskInv
<1>1. /\ DOMAIN disk' = Files
      /\ \A f \in Files \ {job.file} : disk'[f] = disk[f]
      /\ disk'[job.file] = job.lines
  BY <1>0 DEF TypeOK, Files
<1>2. TypeOK'
  <2>1. synced' \in BOOLEAN
    BY Zenon
  <2>2. writes' \in 0 .. 2
    BY <1>0 DEF TypeOK
  <2> QED
    BY <1>0, <1>1, <2>1, <2>2, NoJobFields DEF TypeOK, Locations
<1>3. JobOK'
  BY <1>0, NoJobFields DEF JobOK
<1>4. SavedOK'
  <2>1. CASE job.file = "config"
    BY <1>1, <2>1 DEF SavedOK
  <2>2. CASE job.file # "config"
    <3>1. job.file # "old"
      BY <1>0 DEF TypeOK
    <3> QED
      BY <1>1, <2>2, <3>1 DEF DiskInv, SavedOK, Files
  <2> QED
    BY <2>1, <2>2
<1>5. SyncedOK'
  <2>1. want # Absent
    BY <1>0, NoJobFields DEF JobOK
  <2>2. job.file = "auto" => job.lines = want
    BY <1>0 DEF JobOK
  <2> QED
    BY <1>0, <1>1, <2>1, <2>2, NoJobFields DEF DiskInv, SyncedOK, Files
<1>6. CompiledOK'
  <2>1. CASE job.file = "auto"
    <3>1. disk'["auto"] = want
      BY <1>0, <1>1, <2>1 DEF JobOK
    <3> QED
      BY <1>0, <2>1, <3>1 DEF DiskInv, CompiledOK, JobOK, Pending
  <2>2. CASE job.file # "auto"
    BY <1>0, <1>1, <2>2, NoJobFields DEF DiskInv, CompiledOK, Files
  <2> QED
    BY <2>1, <2>2
<1> QED
  BY <1>2, <1>3, <1>4, <1>5, <1>6 DEF DiskInv

-------------------------------------------------------------------------------
(* The call ends early: what is left of .config does not matter, because   *)
(* it has been moved away, and a cut of auto.conf is remembered.           *)
LEMMA CutKeeps ==
  ASSUME DiskInv, Cut
  PROVE  /\ DOMAIN disk' = Files /\ job' = NoJob
         /\ torn' \in BOOLEAN
         /\ SavedOK'
         /\ disk'["auto"] = disk["auto"] \/ (job.file = "auto" /\ job.at = "write")
         /\ ~torn' => ~torn /\ disk'["auto"] = disk["auto"]
                            /\ ~(job.file = "auto" /\ job.at = "write")
<1>0. TypeOK /\ JobOK
  BY DEF DiskInv
<1>1. /\ DOMAIN disk' = Files
      /\ \A f \in Files : disk'[f] = disk[f] \/ (job.file = f /\ job.at = "write")
  <2>1. CASE job.at = "write"
    <3>1. PICK n \in 0 .. Len(job.lines) :
                 disk' = [disk EXCEPT ![job.file] = SubSeq(job.lines, 1, n)]
      BY <2>1 DEF Cut
    <3> QED
      BY <1>0, <2>1, <3>1 DEF TypeOK
  <2>2. CASE job.at # "write"
    BY <1>0, <2>2 DEF Cut, TypeOK
  <2> QED
    BY <2>1, <2>2
<1>2. job' = NoJob /\ saved' = saved /\ writes' = writes
  BY DEF Cut
<1>3. torn' \in BOOLEAN
  BY Zenon DEF Cut
<1>4. SavedOK'
  BY <1>0, <1>1, <1>2 DEF DiskInv, SavedOK, TypeOK, JobOK, Files
<1>5. ~torn' => ~torn /\ ~(job.file = "auto" /\ job.at = "write")
  BY Zenon DEF Cut
<1> QED
  BY <1>1, <1>2, <1>3, <1>4, <1>5 DEF Files

LEMMA AfterCut ==
  ASSUME DiskInv, Cut
  PROVE  CompiledOK'
<1>1. /\ compiled' = compiled /\ touched' = touched /\ missed' = missed
      /\ job' = NoJob
  BY DEF Cut
<1>2. ASSUME ~torn', NEW s \in Names \ (touched' \cup missed')
      PROVE  compiled'[s] = ValueIn(disk'["auto"], s)
  BY <1>1, <1>2, CutKeeps DEF DiskInv, CompiledOK
<1> QED
  BY <1>1, <1>2, NoJobFields DEF CompiledOK

LEMMA WriteFailsKeeps == DiskInv /\ WriteFails => DiskInv'
<1> SUFFICES ASSUME DiskInv, WriteFails PROVE DiskInv'
  OBVIOUS
<1>0. Cut /\ want' = want /\ synced' = synced
  BY DEF WriteFails
<1>1. TypeOK'
  <2>1. compiled' = compiled /\ writes' = writes /\ NoJob.left \in Seq(Names)
    BY <1>0, NoJobFields DEF Cut
  <2>2. DOMAIN disk' = Files /\ job' = NoJob /\ torn' \in BOOLEAN
    BY <1>0, CutKeeps
  <2> QED
    BY <1>0, <2>1, <2>2, NoJobFields DEF DiskInv, TypeOK, Locations
<1>2. JobOK'
  BY <1>0, CutKeeps, NoJobFields DEF JobOK
<1>3. SyncedOK'
  BY <1>0, CutKeeps, NoJobFields DEF DiskInv, SyncedOK
<1> QED
  BY <1>0, <1>1, <1>2, <1>3, CutKeeps, AfterCut DEF DiskInv

LEMMA EndProgramKeeps == DiskInv /\ EndProgram => DiskInv'
<1> SUFFICES ASSUME DiskInv, EndProgram PROVE DiskInv'
  OBVIOUS
<1>0. Cut /\ want' = Absent /\ synced' = FALSE
  BY DEF EndProgram
<1>1. TypeOK'
  <2>1. compiled' = compiled /\ writes' = writes /\ NoJob.left \in Seq(Names)
    BY <1>0, NoJobFields DEF Cut
  <2>2. DOMAIN disk' = Files /\ job' = NoJob /\ torn' \in BOOLEAN
    BY <1>0, CutKeeps
  <2>3. synced' \in BOOLEAN
    BY <1>0, Zenon
  <2> QED
    BY <2>1, <2>2, <2>3, NoJobFields DEF DiskInv, TypeOK, Locations
<1>2. JobOK' /\ SyncedOK'
  BY <1>0, CutKeeps, NoJobFields DEF JobOK, SyncedOK
<1> QED
  BY <1>0, <1>1, <1>2, CutKeeps, AfterCut DEF DiskInv

-------------------------------------------------------------------------------
LEMMA StepInv == DiskInv /\ [DiskNext]_diskVars => DiskInv'
<1> SUFFICES ASSUME DiskInv, [DiskNext]_diskVars PROVE DiskInv'
  OBVIOUS
<1>1. CASE StartProgram(want')
  BY <1>1, StartKeeps
<1>2. CASE NewValues(want')
  BY <1>2, NewValuesKeeps
<1>3. CASE Save(job'.lines)
  BY <1>3, SaveKeeps
<1>4. CASE \E file \in {"defconfig", "header"} : WriteIfChanged(file, job'.lines)
  BY <1>4, WriteIfChangedKeeps
<1>5. CASE Sync(job'.left, missed') /\ TellsAll(job'.left, missed')
  BY <1>5, SyncKeeps
<1>6. CASE Rename
  BY <1>6, RenameKeeps
<1>7. CASE Touch
  BY <1>7, TouchKeeps
<1>8. CASE Compare
  BY <1>8, CompareKeeps
<1>9. CASE Truncate
  BY <1>9, TruncateKeeps
<1>10. CASE Write
  BY <1>10, WriteKeeps
<1>11. CASE WriteFails
  BY <1>11, WriteFailsKeeps
<1>12. CASE EndProgram
  BY <1>12, EndProgramKeeps
<1>13. CASE Compile
  BY <1>13, CompileKeeps
<1>14. CASE UNCHANGED diskVars
  BY <1>14 DEF diskVars, build, history, DiskInv, TypeOK, JobOK, SavedOK,
               SyncedOK, CompiledOK, Pending
<1> QED
  BY <1>1, <1>2, <1>3, <1>4, <1>5, <1>6, <1>7, <1>8, <1>9, <1>10, <1>11, <1>12,
     <1>13, <1>14 DEF DiskNext, Steps

(* DiskInv holds in every reachable state.                                 *)
LEMMA AlwaysDiskInv == DiskSpec => []DiskInv
BY InitInv, StepInv, PTL DEF DiskSpec

(* The variables of the disk are what they should be: among them the step  *)
(* that a call of write_config, write_autoconf or sync_deps has reached.   *)
THEOREM TypeCorrect == DiskSpec => []TypeOK
<1>1. DiskInv => TypeOK
  BY DEF DiskInv
<1> QED
  BY <1>1, AlwaysDiskInv, PTL

(* The configuration that was saved last survives one interrupted save:    *)
(* write_config moves it to .config.old before it opens .config, so one of *)
(* the two has it, whatever fails or is interrupted, and whatever other    *)
(* files are written in between, until a second write begins.              *)
THEOREM SavedSurvives == DiskSpec => []NothingLost
<1>1. DiskInv => NothingLost
  BY DEF DiskInv, TypeOK, SavedOK, NothingLost
<1> QED
  BY <1>1, AlwaysDiskInv, PTL

(* After sync_deps has run to its end nothing is out of date but what it   *)
(* touched, through any number of earlier calls that were interrupted, new *)
(* values and new menus: because it writes auto.conf last, and compares    *)
(* with the auto.conf that is there.                                       *)
THEOREM ChangesReachBuilds == DiskSpec => []Rebuilt
<1>1. DiskInv => Rebuilt
  BY NoJobFields DEF DiskInv, SyncedOK, CompiledOK, Rebuilt, Idle
<1> QED
  BY <1>1, AlwaysDiskInv, PTL
===============================================================================
