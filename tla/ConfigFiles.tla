------------------------------- MODULE ConfigFiles -------------------------------
(***************************************************************************)
(* The files of a configuration and the programs that use them             *)
(* (menuconfig, the tools of a build), with their menus and values: they   *)
(* load, merge and save configurations, keep auto.conf and autoconf.h and  *)
(* touch the files of the symbols that changed.  What they do to the files *)
(* is Disk; here is what they write, and what they make of what they read. *)
(* The menu may be another one when a program starts again.                *)
(***************************************************************************)
EXTENDS Disk, Loading

CONSTANTS
  Menus,      \* finalized menus: what Finalize makes of parsed ones
  Upgrades,   \* pairs of menus: the second may take the place of the first
  Numbers,    \* the values given to symbols that are not bool or tristate
  Given,      \* for each menu, what .config may be at the start
  Tools       \* bound: for each menu, the tools that are used with it

VARIABLES
  menu,       \* which menu it is
  K,          \* the menu: the part of the Kconfig object without values
  mem,        \* the part with values, or Absent: no program runs
  attrs       \* its attributes, which follow from mem (as Symbols shows)

values == <<menu, K, mem, attrs>>
vars == <<values, diskVars>>

W == [k |-> K, user |-> mem.user, cache |-> attrs]
Uses(tool) == tool \in Tools[menu]

AttrsFor(k, obj) == IF obj = Absent THEN Absent ELSE WorldOf(k, obj).cache
LinesFor(k, obj, cache) ==
  IF obj = Absent THEN Absent
  ELSE ChangesContents([k |-> k, user |-> obj.user, cache |-> cache])

-------------------------------------------------------------------------------
SetOfInputs(s) == IF IsTri(K, s) THEN 0 .. 2 ELSE Numbers

Init ==
  /\ menu \in {m \in DOMAIN Menus : \A n \in DOMAIN Menus : <<n, m>> \notin Upgrades}
  /\ K = Menus[menu]
  /\ mem = Absent /\ attrs = Absent
  /\ \E lines \in Given[menu] :
       disk = [f \in Files |-> IF f = "config" THEN lines ELSE Absent]
  /\ DiskInit

(* Calls that change user values.                                          *)
Change(new) ==
  /\ new # mem
  /\ mem' = IF new.raised THEN Absent ELSE new
  /\ attrs' = AttrsFor(K, mem')
  /\ NewValues(LinesFor(K, mem', attrs'))
  /\ UNCHANGED <<menu, K>>

SetValue(s, v) == Idle /\ Change(Assigned(K, mem, s, v))
SetMode(c, v)  == Idle /\ Change(ModeAssigned(K, mem, c, v))
UnsetValues    == Idle /\ Uses("unset") /\ Change(Unset(K, mem))

Load(file) ==
  /\ Idle /\ Uses("load") /\ disk[file] # Absent
  /\ Change(LoadConfig(K, mem, disk[file], TRUE))

Merge(file) ==
  /\ Idle /\ Uses("merge") /\ disk[file] # Absent
  /\ Change(LoadConfig(K, mem, disk[file], FALSE))

(* Calls that write.                                                       *)
WriteConfig == Uses("save") /\ Save(ConfigContents(W)) /\ UNCHANGED values

WriteMinConfig ==
  /\ Uses("min") /\ WriteIfChanged("defconfig", MinConfigContents(W))
  /\ UNCHANGED values

WriteAutoconf ==
  Uses("build") /\ WriteIfChanged("header", want) /\ UNCHANGED values

(* sync_deps: the symbols that the menu does not mention any more, and     *)
(* those with another value.                                               *)
OldLines == IF disk["auto"] = Absent THEN <<>> ELSE disk["auto"]

Gone == LET gone == SelectSeq(OldLines, LAMBDA l : l[1] \notin K.syms)
        IN  [n \in DOMAIN gone |-> gone[n][1]]

ChangedWritten(w) ==  \* mutant: symbols that lost their line are not compared
  SelectSeq(w.k.defined, LAMBDA s :
    /\ Written(w, s) /\ ValueOf(w, s) # ValueIn(disk["auto"], s)
    /\ ~(ValueIn(disk["auto"], s) = None /\ IsTri(w.k, s) /\ ValueOf(w, s) = 0))

Changed(w) ==
  LET IsChanged(s) ==
        LET old == ValueIn(disk["auto"], s)
        IN  IF Written(w, s)
            THEN /\ ~(old = None /\ IsTri(w.k, s) /\ ValueOf(w, s) = 0)
                 /\ ValueOf(w, s) # old
            ELSE old # None
  IN  SelectSeq(w.k.defined, IsChanged)

(* The symbols in auto.conf that the menu mentions but does not define.    *)
LeftOut == {OldLines[n][1] : n \in DOMAIN OldLines} \cap (K.syms \ DOMAIN K.sym)

SyncDeps ==
  Uses("build") /\ Sync(Gone \o Changed(W), LeftOut) /\ UNCHANGED values

Step == Steps /\ UNCHANGED values
Fail == WriteFails /\ UNCHANGED values

Stop == EndProgram /\ mem' = Absent /\ attrs' = Absent /\ UNCHANGED <<menu, K>>

(* The next program: load_config with the standard file, or the default    *)
(* configuration, or none.                                                 *)
Start ==
  /\ mem = Absent
  /\ \E m \in {menu} \cup {n \in DOMAIN Menus : <<menu, n>> \in Upgrades} :
       LET file == IF disk["config"] # Absent THEN "config" ELSE "defconfig"
       IN  /\ menu' = m
           /\ K' = Menus[m]
           /\ mem' = IF disk[file] = Absent THEN Fresh(K')
                     ELSE LoadConfig(K', Fresh(K'), disk[file], TRUE)
           /\ attrs' = AttrsFor(K', mem')
           /\ StartProgram(LinesFor(K', mem', attrs'))

Build == Uses("build") /\ Compile /\ UNCHANGED values

Next ==
  \/ \E s \in DOMAIN K.sym : \E v \in SetOfInputs(s) : SetValue(s, v)
  \/ \E c \in DOMAIN K.choice, v \in 0 .. 2 : SetMode(c, v)
  \/ UnsetValues
  \/ \E f \in {"config", "old", "defconfig"} : Load(f) \/ Merge(f)
  \/ WriteConfig \/ WriteMinConfig \/ WriteAutoconf \/ SyncDeps
  \/ Step \/ Fail \/ Stop \/ Start \/ Build

Spec == Init /\ [][Next]_vars

-------------------------------------------------------------------------------
(* What write_config writes gives the same values when it is loaded, by a  *)
(* program that just started, as long as no value is beyond its prompt.    *)
RoundTrip == Idle =>
  \/ BeyondPrompt(W)
  \/ ValuesOf(WorldOf(K, LoadConfig(K, Fresh(K), ConfigContents(W), TRUE))) = ValuesOf(W)

(* A tristate choice whose default selection is a bool symbol.             *)
BoolSelected(w) ==
  \E c \in DOMAIN w.k.choice :
    LET s == DefaultSelection(w, c, 1)
    IN  w.k.choice[c].type = "tristate" /\ s # NoSym /\ w.k.sym[s].type = "bool"

(* "a complete configuration can be derived from it by loading it": so it  *)
(* is with minimal configurations, but for the values beyond their prompts *)
(* and the choices of which the selection is left out with the mode.       *)
MinRoundTrip == Idle =>
  \/ BeyondPrompt(W) \/ BoolSelected(W)
  \/ ValuesOf(WorldOf(K, LoadConfig(K, Fresh(K), MinConfigContents(W), TRUE)))
       = ValuesOf(W)

Replaces(lines) ==
  LET new == LoadConfig(K, Fresh(K), lines, TRUE)
      got == LoadConfig(K, mem, lines, TRUE)
  IN  /\ [got EXCEPT !.user.pick = new.user.pick] = new
      /\ \A c \in DOMAIN K.choice :
           LoadsOnlyM(K, lines, c) \/ got.user.pick[c] = new.user.pick[c]

(* Loading a file leaves nothing of the values that were there, with one   *)
(* exception: the selection of a choice that the file only gives m.        *)
LoadReplaces == Idle =>
  \A f \in {"config", "old", "defconfig"} : disk[f] # Absent => Replaces(disk[f])

(* "Flag that the symbol no longer exists, in case something still depends *)
(* on it", says _load_old_vals.  It holds for the symbols without a        *)
(* mention in the menu, not for those without a definition.                *)
RemovedFlagged == Idle /\ synced /\ ~torn =>
  \A s \in Names \ (touched \cup DOMAIN K.sym) : compiled[s] = None
===============================================================================
