---------------------------------- MODULE Disk ----------------------------------
(***************************************************************************)
(* What the programs that use a configuration do to its files, one step at *)
(* a time, whatever the menu and the values are: a program that runs wants *)
(* certain lines in auto.conf and autoconf.h, and that changes when values *)
(* change and when the next program starts.  A program may end, or be      *)
(* ended, between any two steps and in the middle of a write, and a write  *)
(* may fail.  Module ConfigFiles adds the menus and the values.            *)
(*                                                                         *)
(* Renaming .config succeeds when there is one, and a file that is cut     *)
(* ends with a whole line.                                                 *)
(***************************************************************************)
EXTENDS Lines

CONSTANT Names      \* the names of all symbols

(* config is .config, old is .config.old, auto is auto.conf, header is     *)
(* autoconf.h; defconfig is a minimal configuration.                       *)
Files == {"config", "old", "defconfig", "auto", "header"}

VARIABLES
  want,       \* the lines that auto.conf and autoconf.h should have; Absent
              \* while no program runs
  disk,       \* the files
  job,        \* the call under way: the file it is about, what it does next,
              \* the lines to be written, the symbols still to be touched
  touched,    \* the symbols whose files were touched since the last build
  synced,     \* sync_deps ran to its end, for the values as they are
  compiled,   \* history: what each symbol was when its users were compiled
  missed,     \* history: the symbols that sync_deps saw change without
              \* touching their files, until they are compiled again
  saved,      \* history: what the last complete write_config left in .config
  writes,     \* history: how often .config was moved away since then, up to 2
  torn        \* history: a write of auto.conf was cut

build == <<touched, synced, compiled, missed>>
history == <<saved, writes, torn>>
diskVars == <<want, disk, job, build, history>>

NoJob == [file |-> "config", at |-> "none", lines |-> <<>>, left |-> <<>>]
Idle == want # Absent /\ job = NoJob

Goto(step) == job' = [job EXCEPT !.at = step]

-------------------------------------------------------------------------------
(* Without files, except perhaps .config.                                  *)
DiskInit ==
  /\ want = Absent
  /\ disk = [f \in Files |-> IF f = "config" THEN disk[f] ELSE Absent]
  /\ job = NoJob
  /\ touched = {} /\ missed = {} /\ synced = FALSE
  /\ compiled = [s \in Names |-> None]
  /\ saved = Absent /\ writes = 0 /\ torn = FALSE

(* The next program starts, with a menu and values of its own.             *)
StartProgram(lines) ==
  /\ want = Absent /\ want' = lines
  /\ UNCHANGED <<disk, job, build, history>>

(* Values change.                                                          *)
NewValuesKeepSynced(lines) ==  \* mutant: what was synced counts for them too
  /\ Idle /\ want' = lines
  /\ UNCHANGED <<disk, job, build, history>>

NewValues(lines) ==
  /\ Idle /\ want' = lines
  /\ synced' = FALSE
  /\ UNCHANGED <<disk, job, touched, compiled, missed, history>>

(* write_config: nothing happens if the file has these lines.              *)
SaveDirectly(lines) ==  \* mutant: without _save_old
  /\ Idle /\ disk["config"] # lines
  /\ job' = [file |-> "config", at |-> "truncate", lines |-> lines, left |-> <<>>]
  /\ UNCHANGED <<want, disk, build, history>>

Save(lines) ==
  /\ Idle /\ disk["config"] # lines
  /\ job' = [file |-> "config", at |-> "rename", lines |-> lines, left |-> <<>>]
  /\ UNCHANGED <<want, disk, build, history>>

(* _save_old; errors, as when there is no file, are ignored.               *)
Rename ==
  /\ job.at = "rename"
  /\ IF disk["config"] = Absent THEN UNCHANGED <<disk, writes>>
     ELSE /\ disk' = [disk EXCEPT !["old"] = disk["config"], !["config"] = Absent]
          /\ writes' = IF writes = 0 THEN 1 ELSE 2
  /\ Goto("truncate")
  /\ UNCHANGED <<want, build, saved, torn>>

(* write_min_config, write_autoconf                                        *)
WriteIfChanged(file, lines) ==
  /\ Idle /\ disk[file] # lines
  /\ job' = [file |-> file, at |-> "truncate", lines |-> lines, left |-> <<>>]
  /\ UNCHANGED <<want, disk, build, history>>

(* sync_deps, which is to touch the files of these symbols and leaves out  *)
(* others.                                                                 *)
Sync(symbols, others) ==
  /\ Idle
  /\ job' = [file |-> "auto", at |-> "touch", lines |-> want, left |-> symbols]
  /\ missed' = missed \cup others
  /\ UNCHANGED <<want, disk, touched, synced, compiled, history>>

(* Between them they are all that changed.                                 *)
TellsAll(symbols, others) ==
  /\ symbols \in Seq(Names)
  /\ \A s \in Names \ others :
       ValueIn(disk["auto"], s) # ValueIn(want, s) =>
         \E i \in 1 .. Len(symbols) : symbols[i] = s

Touch ==
  /\ job.at = "touch" /\ job.left # <<>>
  /\ touched' = touched \cup {Head(job.left)}
  /\ job' = [job EXCEPT !.left = Tail(@)]
  /\ UNCHANGED <<want, disk, synced, compiled, missed, history>>

(* _write_old_vals: auto.conf is written if it changed.                    *)
Compare ==
  /\ job.at = "touch" /\ job.left = <<>>
  /\ IF disk["auto"] = job.lines THEN job' = NoJob /\ synced' = TRUE
     ELSE Goto("truncate") /\ UNCHANGED synced
  /\ UNCHANGED <<want, disk, touched, compiled, missed, history>>

-------------------------------------------------------------------------------
(* _contents_eq, _write_if_changed: a file that is opened is empty until   *)
(* it is written.                                                          *)
Truncate ==
  /\ job.at = "truncate"
  /\ disk' = [disk EXCEPT ![job.file] = <<>>]
  /\ Goto("write")
  /\ UNCHANGED <<want, build, history>>

Write ==
  /\ job.at = "write"
  /\ disk' = [disk EXCEPT ![job.file] = job.lines]
  /\ job' = NoJob
  /\ synced' = (synced \/ job.file = "auto")
  /\ saved' = IF job.file = "config" THEN job.lines ELSE saved
  /\ writes' = IF job.file = "config" THEN 0 ELSE writes
  /\ UNCHANGED <<want, touched, compiled, missed, torn>>

(* The call ends early: the file that is being written has some of its     *)
(* lines.                                                                  *)
Cut ==
  /\ job' = NoJob
  /\ IF job.at = "write"
     THEN \E n \in 0 .. Len(job.lines) :
            disk' = [disk EXCEPT ![job.file] = SubSeq(job.lines, 1, n)]
     ELSE UNCHANGED disk
  /\ torn' = (torn \/ (job.at = "write" /\ job.file = "auto"))
  /\ UNCHANGED <<touched, compiled, missed, saved, writes>>

(* A write fails with an exception, and the program goes on.               *)
WriteFails ==
  /\ \/ job.at \in {"truncate", "write"}
     \/ job.at = "touch" /\ job.left # <<>>
  /\ Cut
  /\ UNCHANGED <<want, synced>>

EndProgram ==
  /\ want # Absent
  /\ Cut
  /\ want' = Absent /\ synced' = FALSE

(* A build compiles what depends on a file that was touched.               *)
Compile ==
  /\ Idle /\ synced
  /\ disk["header"] = want
  /\ compiled' = [s \in Names |-> IF s \in touched THEN ValueIn(disk["header"], s)
                                                     ELSE compiled[s]]
  /\ touched' = {} /\ missed' = missed \ touched
  /\ UNCHANGED <<want, disk, job, synced, history>>

Steps == Rename \/ Touch \/ Compare \/ Truncate \/ Write

(* What is written, and what the values become, is arbitrary.              *)
DiskNext ==
  \/ StartProgram(want') \/ NewValues(want')
  \/ Save(job'.lines)
  \/ \E file \in {"defconfig", "header"} : WriteIfChanged(file, job'.lines)
  \/ Sync(job'.left, missed') /\ TellsAll(job'.left, missed')
  \/ Steps \/ WriteFails \/ EndProgram \/ Compile

DiskSpec == DiskInit /\ [][DiskNext]_diskVars

-------------------------------------------------------------------------------
(* The last configuration that was saved completely is in .config or in    *)
(* .config.old, whatever is cut, until a second .config is moved away.     *)
NothingLost ==
  saved # Absent /\ writes <= 1 => saved \in {disk["config"], disk["old"]}

(* What is compiled is up to date after sync_deps, but for what depends on *)
(* a file it has touched: also when earlier calls were interrupted, the    *)
(* values changed in between or the menu lost symbols.  Two things can     *)
(* make it miss a change: a write of auto.conf that is cut, and a symbol   *)
(* that sync_deps leaves out.                                              *)
Rebuilt == Idle /\ synced /\ ~torn =>
  \A s \in Names \ (touched \cup missed) : compiled[s] = ValueIn(want, s)

-------------------------------------------------------------------------------
(* How far a call has got, and what that says of the files.                *)
Locations == {"none", "rename", "touch", "truncate", "write"}

TypeOK ==
  /\ DOMAIN disk = Files /\ DOMAIN compiled = Names
  /\ DOMAIN job = {"file", "at", "lines", "left"}
  /\ job.file \in {"config", "defconfig", "auto", "header"}
  /\ job.at \in Locations /\ job.left \in Seq(Names)
  /\ writes \in 0 .. 2 /\ synced \in BOOLEAN /\ torn \in BOOLEAN

JobOK ==
  /\ want = Absent => job = NoJob
  /\ job.at = "rename" => job.file = "config"
  /\ IF job.at = "touch" THEN job.file = "auto" ELSE job.left = <<>>
  /\ job.file = "auto" => job.lines = want
  /\ job.file = "config" /\ job.at \in {"truncate", "write"} =>
       writes # 0 \/ saved = Absent

(* When it has been moved away since, the configuration is in .config.old. *)
SavedOK == saved # Absent =>
  /\ writes = 0 => disk["config"] = saved
  /\ writes = 1 => disk["old"] = saved

(* auto.conf is not written while it is as it should be.                   *)
SyncedOK == synced =>
  /\ want # Absent /\ disk["auto"] = want
  /\ ~(job.file = "auto" /\ job.at \in {"truncate", "write"})

(* auto.conf says what things were compiled with, except while it is empty *)
(* in the middle of sync_deps; until then all that will not be touched any *)
(* more is up to date.                                                     *)
Pending == {job.left[i] : i \in 1 .. Len(job.left)}

CompiledOK == ~torn =>
  /\ \/ job.file = "auto" /\ job.at = "write"
     \/ \A s \in Names \ (touched \cup missed) : compiled[s] = ValueIn(disk["auto"], s)
  /\ job.file = "auto" =>
       \A s \in Names \ (touched \cup missed \cup Pending) : compiled[s] = ValueIn(want, s)

DiskInv == TypeOK /\ JobOK /\ SavedOK /\ SyncedOK /\ CompiledOK
===============================================================================
