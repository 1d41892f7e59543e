# TLA+ models of jhalfs

jhalfs extracts the build commands of the (Beyond) Linux From Scratch books
and runs them. It is a set of shell scripts, generated Makefiles, XSLT
stylesheets, and a menu in Python in which the user says what to build. This
directory models the parts of it that have state and control worth checking.
Two are done: the *dependency resolver* of the BLFS tools
(`src/BLFS/libs/func_dependencies`), which turns a set of requested packages
into a build order, and the *menu* (`src/menu/kconfiglib.py`,
`src/menu/menuconfig.py`), on which every run of jhalfs and every use of the
BLFS tools depends.

Contents:

1. [Inventory](#1-inventory): the parts of jhalfs
2. [Modules](#2-modules): which module models what, and how it corresponds to the code
3. [Runs](#3-runs): what TLC checks, the bounds, the fairness
4. [Where the code departs from its documentation](#4-where-the-code-departs-from-its-documentation)
5. [Proofs](#5-proofs): what TLAPS proves, from what, and how
6. [What is not modelled](#6-what-is-not-modelled)
7. [Plan](#7-plan)

## 1. Inventory

How the parts hang together: the *driver* `jhalfs` reads the book and the
configuration made by the *menu*, checks the *host*, *downloads* the sources,
and lets `LFS/master.sh` *generate a Makefile* out of the scripts that the
stylesheets extract from the book. *Running* that Makefile builds the system,
with a *progress bar* beside each target; *iterative comparison* builds it again
and compares. The *BLFS tools* are installed in the new system. There,
`BLFS/Makefile` keeps a file that *tracks* what is installed and offers the rest
in the menu, `gen_pkg_book.sh` calls the *dependency resolver* and renders the
list as a linear book and scripts, and `gen-makefile.sh` writes a Makefile for
these, each target of which updates the tracking file.

| part | state | operations | what is hard | what makes it correct |
| --- | --- | --- | --- | --- |
| **Dependency resolver**: `BLFS/gen_pkg_book.sh`, `BLFS/libs/func_dependencies` | the files `<package>.dep` and `.tree`, the recursive calls and the global variables (`seen`, `parentNode`) they share | `generate_deps`, `generate_subgraph`, `path_to`, `clean_subgraph`, `generate_dependency_tree`, `tree_erase`, `tree_browse` | recursion over a graph with cycles that is changed while it is walked; subtrees erased and rebuilt; decisions made by grep on names and on numbers; `set +e` | the list holds what was asked for and nothing else, once each, in an order that serves the most important dependencies; the passes end |
| **Extraction of dependencies**: `BLFS/xsl/dependencies.xsl` | none | one package's lines, by comparing versions with those installed | a comparison of version strings written in XSLT | it is an order |
| **Tracking**: `BLFS/Makefile`, `BLFS/gen-makefile.sh`, `BLFS/xsl/bump.xsl` | the tracking file, one flag file per script, `packages.xml` | merge of the flag files, bump after each target, regeneration of `packages.xml` | `>` truncates the file before it is written; a flag is removed whether or not its merge worked; make is interrupted | what is installed is recorded, what is recorded is installed |
| **Download**: `common/libs/func_download_pkgs` | the sources, the archive, `MD5SUMS`, `MISSING_FILES.DMP`, `RUNMAKE` | `get_sources` for each URL: archive, cache, two servers, MD5, a second attempt in reverse order, storing in the archive | the early exits of the loop; a bad file that is stored and found first by the next run | the Makefile is not run when a file is missing or bad; the archive is not spoilt |
| **Generation of the Makefile**: `LFS/master.sh`, `common/libs/func_wrt_Makefile`, `func_custom_pkgs` | the chain `PREV` of targets, the lists of each phase, variables sourced from custom configurations | one function per chapter, custom packages, BLFS tools | variables that survive from one package to the next | every target is written once, after the one before |
| **Running it**: the generated Makefile, `common/makefile-functions` | one file per finished target, the user's home, `luser-id` | phases as root, as the build user, in chroot; `save-luser`, `restore-luser`; BREAKPOINT | interruption anywhere and `make` again; two levels of make; commands that move the home of the user | nothing is built twice or left out, the user's home survives |
| **Progress bar**: `common/progress_bar.sh` | the clock, the target's file, make's process | writes a character every .12 s until the target's file exists | two processes and two delays (.12 s and .25 s) writing to one terminal | it never writes after make's own message, and ends |
| **Iterative comparison**: `common/libs/func_compare.sh`, `extras/*` | the logs and copies of each iteration | targets added at the end of each iteration | a `mkdir` that fails when it is done again | an iteration can be completed after an interruption |
| **Driver**: `jhalfs`, `common/common-functions` and others | the build directory, `RUNMAKE` | a straight sequence, with `clean_builddir` and `run_make` | what an old build directory leaves behind | it runs the Makefile only when all before went well |
| **Host check**: `func_check_version.sh` | none | comparison of version numbers | letters, missing parts | it is an order |
| **CLFS, HLFS** | as LFS | variants of `LFS/master.sh` for books no longer maintained | as LFS | as LFS |
| **Stylesheets** of the books | none | translations of the book | | |
| **Package management, optimisation, custom templates, report** | none | texts for the generated scripts | | |
| **Menu, symbols and values**: `menu/kconfiglib.py` | the tree of the menu; the user values of symbols and choices; four cached attributes for each; `_dependents` and `_visited` | `_finalize_tree`, `_build_dep`, `_check_dep_loop_sym`; the properties `visibility`, `str_value`, `tri_value`, `assignable`, `selection`; `set_value`, `unset_value`, `_rec_invalidate` | values cached lazily and thrown away along dependencies, which are loops between a choice and its symbols; short circuits; MODULES changes the type of everything | no cached value is old; a menu that is accepted can be calculated, and one that is refused has a loop |
| **Menu, configuration files**: `menu/kconfiglib.py` | `.config`, `.config.old`, minimal configurations, `auto.conf`, `autoconf.h`, one file per symbol; `_was_set`, `missing_syms` | `load_config` (replacing or merging), `unset_values`, `write_config`, `write_min_config`, `write_autoconf`, `sync_deps` | the mode of a choice is not in the file; lines left out must follow from defaults; any write may be cut, and the program started again with another menu | what is written gives the same values when it is loaded; the last configuration survives; no change is missed by a build |
| **Menu, menuconfig**: `menu/menuconfig.py` | the current menu, the nodes shown, the cursor and the scroll, the rows remembered for the menus above, the dialogs open, `_conf_changed` | one handler per key, for the main display and the dialogs (value, load, save, quit, jump-to, info), and resizing | values change under the display; menus may be entered that their parent does not show; windows shrink while dialogs cover them | what is shown is current, the selected entry is in the window, changes are not lost, no exception ends the program |

`PROJECT.json` has the same list under "components", with the files, and under
"hazards" the places in the code where things can go wrong that a test would
hardly reach, each with the properties that cover it.

## 2. Modules

```
Resolver:
DepFiles                   lines, files, reachability        (operators)
 |-- Subgraph              pass 1: generate_deps, generate_subgraph
 |-- PathTo                path_to, which pass 2 calls
 |-- CleanSubgraph         pass 2: clean_subgraph (uses HasPath for path_to)
 |-- DepTree               pass 3: generate_dependency_tree, tree_erase, tree_browse
 `-- Resolver              the three passes composed: gen_pkg_book.sh

Menu:
Kconfig                    expressions, the tree and its finalization   (operators)
 `-- Values                attributes of symbols and choices            (operators)
      `-- Loading          configuration files, read and written        (operators)
Loops                      the search for dependency loops, in any menu
Invalidation               cached values of any items
 `-- Symbols               Values, Loops and Invalidation composed
Disk                       the files on disk, whatever is in them: crashes, failing writes
 `-- ConfigFiles           Disk composed with Loading: menus, values, programs
Display                    windows, lists, dialogs and fields, whatever they show
 `-- Menu                  Display composed with Loading: menuconfig
Lines, EditBox, Scrolling  arithmetic of files, fields and lists        (operators)

Proofs:
SubgraphProofs, PathToProofs, CleanProofs, DepTreeProofs, with lemmas in DepFilesProofs
SymbolsProofs (about Loops and Invalidation), DiskProofs, DisplayProofs

MC..., MCMenus             instances for TLC, and how they write menus
```

### The resolver

The resolver has three passes over a graph whose nodes are packages. Each edge
has a weight (1 required, 2 recommended, 3 optional, 4 external) and a
qualifier (`b` before, `a` after, `f` first). The modules follow the passes.

What these modules have in common:

* **Files.** A file `<n>.dep` is the sequence of its lines, a directory a
  function from the names that have a file to files; `dep` is that directory.
  The order of the lines is kept: the code depends on it.
* **The book is arbitrary.** What `dependencies.xsl` prints for a package is
  any function (CONSTANT `Book` or `Graph`) from packages to files.
* **Calls.** Each recursive call is a frame of `stack`: the file it reads
  (descriptor) and how many lines it has read. One turn of the `while read`
  loop is a step. The models have no concurrency, because the program has none:
  what is nondeterministic is the book, the request, the level and the order in
  which a glob lists files.
* **Names.** The code decides some questions with grep and sed on names. Names
  are model values; which of them contain (`PartOf`) or end with (`SuffixOf`)
  others is a CONSTANT, empty where the question is what the algorithm does when
  names do not interfere.
* **Groups and first passes.** The file `<n>groupxx.dep` is the node
  `<<n, "groupxx">>`, and `<n>-pass1.dep` is `<<n, "-pass1">>`.
* Messages on the terminal, indentation and colours are left out.

#### Subgraph

`generate_subgraph` opens the packages that `DEP_LEVEL` asks for, depth first,
and copies their lines. State: `dep`, `stack`, and the parameters `book`,
`target` and `level`. `SkipLine` is a line that is too heavy, or whose target
has a file already; `Leaf` one whose target has no dependencies (`touch`);
`Descend` the recursive call; `Return` the end of the file. `Seen` is the test
for an existing file with its exception: a requested package first met as a
dependency is processed again when root's own line for it comes up ("23", the
depth and the level). `DepLevel(d)` is the weight followed at depth d.

#### PathTo

`path_to` answers whether one node leads to another by edges not heavier than
a given weight. State: `seen`, `stack` and `answer`, with the parameters `dep`,
`start`, `seek` and `prio`. Since `seen` is global and only the outermost call
sets it, a node that one branch has abandoned is skipped by all others; that
this is right is what the runs and theorems are about. `Enter` is the outermost
call, `Skip` a line not followed, `Follow` a recursive call, `Hit` the return
of 0 through all levels, `GiveUp` a return of 1.

#### CleanSubgraph

`clean_subgraph` has three loops over files, and the order of the files in each
is nondeterministic (a glob sorts by name, and names are arbitrary). `Extracted`
(in `DepFiles`) is what it may start from, and what pass 1 is proved to leave.
`RemoveDangling` removes lines whose target is outside; `GroupAfter` turns the
"after" lines of a node into "before" lines of the parents, by way of a group,
leaving alone the parents that the "after" dependencies lead to; `FirstPass`
makes a dependency on a first pass, a copy without the lines that lead back.
Here `path_to` is one step, `HasPath`; that the two agree is the property
`AgreesWithHasPath` of the run `path_to` and a theorem of `PathToProofs`.
(`Closure`, in `DepFiles`, which `HasPath` rests on, and what goes through the
lines of a file are recursive *functions*, so that they can be proved about.)

#### DepTree

`generate_dependency_tree` walks the graph and cuts cycles. The file
`<n>.tree` begins with the node's *link*, the positions of the lines on the way
to it from root, and with the weights of those lines; `tree` keeps the three
parts of the file. A dependency is circular when its link is a beginning of the
current one. Then the heaviest edge of the cycle is cut: the current one
(`Prune`), or one further up, to which the calls return the weight (`BackUp`,
`KeepBackingUp`) until one finds it equal to that of the line it has read last,
erases the subtree and moves the dependency to the parent of the cycle (`Move`).
Otherwise a dependency was built elsewhere and is moved here
(`BuiltElsewhere`), has no dependencies (`Leaf`), or is entered (`Descend`).
`Return` removes the lines flagged meanwhile. `EmptyLink` is the message "This
should not happen" and its exit. Then `tree_browse` prints the list
(`BrowseDown`, `BrowseLeaf`, `BrowseUp`). The variable `moves` is a history
variable: the properties need it to say in which circumstances they hold.

#### Resolver

`gen_pkg_book.sh` from `generate_deps` to `LIST`: pass 1, then 2, then 3, on
the same files. `GenerateSubgraph` and `CleanStep`, `TreeStep` are the steps of
the passes (instances of their modules), `StartClean` and `StartTree` the lines
between; `root.tree` is made from the `root.dep` that pass 2 has left. Each
pass is a module instance with this module's variables, so nothing is restated.
The properties relate the list to the book.

### The menu

jhalfs runs `menuconfig.py` on a menu that it has (`src/Config.in`) or writes
itself (for BLFS), and reads the `.config` that is left. The models take *any*
finalized menu; the runs have small ones, each for something that is hard.

What these modules have in common:

* **Items.** Symbols and choices are named by strings, `""` is none. Menus are
  trees of records (`MCMenus` has operators to write them like a Kconfig
  file), and `Finalize` makes of them what Kconfiglib works with.
* **Values.** n, m and y are 0, 1 and 2. Other values are numbers: `int` is for
  int and hex, strings are numbered in their order, and `Empty` is the empty
  string. How a value is written is left out, which file lines there are and in
  which order is not.
* **The world.** The formulas of `Values` are about a record `w` of a menu, the
  user values and the attributes known. In `Symbols` these are what the caches
  hold at the time; in `ConfigFiles` and `Menu` they are what calculating
  everything anew gives (`World`): that these agree is `Fresh`, which `Symbols`
  checks.

#### Kconfig

Expressions; the tree of nodes as it is parsed; `Finalize`, which stands for
`_finalize_node`: conditions of parents added to the properties of children
(`Propagated`), implicit submenus and choices, the properties of each symbol
from all its locations, and the dependencies, `checked` before and `dependents`
after those between choices and their symbols are added (`_build_dep`,
`_add_choice_deps`).

#### Values

One operator for each property that Kconfiglib calculates: visibility, string
and tristate value, assignable values, mode and selection of a choice, and the
range of a number. What is not known yet is None, and so is what needs it, but a
short circuit does not ask: that is how the model knows what a calculation
reads. `WithValue` and its siblings are the effect of
`set_value` and `unset_value` on user values.

#### Loops

`Kconfig.__init__`'s calls of `_check_dep_loop_sym` and
`_check_dep_loop_choice`, for a menu of which only the dependencies, the choices
and the list of defined symbols matter. State: `visited` (`_visited` of each
item), the calls in progress (`calls`: the item, the dependents and the listed
items it has still to go to, the symbol a choice skips) and `phase`. The
dependents are a set in the code too, so they are gone through in any order.

#### Invalidation

The caches, without what is in them. Items are calculated from cached items that
know them as dependents (`CalculateFrom`), and `_rec_invalidate` goes round the
dependents, stopping where nothing is cached: `Call` is its entry, a turn of its
loop is `LoopTurn`, its end `CallReturns`. `cached` are the items with values,
`reads` is a history variable: from which items an item's values were
calculated. The theorems are about this module.

#### Symbols

What the two make together with values. State: the caches (`cache`) and the
user values, and the variables of `Loops` and `Invalidation`, whose actions it
uses. First the menu is checked for loops; then `Calculate` fills in one
attribute of one item once the attributes it reads are known: a call from
outside is a sequence of such steps, and any order of them is allowed.
`SetValue`, `UnsetValue`, `SetMode`, `UnsetMode` are the four calls of the
interface, with their early returns. That each step is one of `Invalidation`
(property `Invalidates`) is checked: what a calculation of values reads must be
cached and know the item.

#### Loading

The object that has the user values (`user`, the items with `_was_set`, and
`missing_syms`), and the operators for `_load_config`, `set_value` and
`unset_values`, and for what `_config_contents`, `_min_config_contents` and
`_old_vals_contents` write.

#### Disk, ConfigFiles

One program at a time works on the files, and ends or is ended at any point;
another may start, with the same menu or the next version of it. A call that
writes is a sequence of steps on the disk (`job`): moving `.config` away,
truncating a file, writing it, touching the file of a symbol. `Cut` ends it
between two steps or in the middle of a write; with `WriteFails` the program
goes on, with `EndProgram` it does not. `Compile` compiles what depends on the
files touched. The variables `saved`, `writes`, `compiled`, `missed` and `torn`
are history variables.

`Disk` has these steps for any lines and any values: `want` are the lines that
`auto.conf` should have now. What a call of `sync_deps` may leave out is
restricted by `TellsAll` only. `ConfigFiles` says, with the actions of `Disk`,
which lines the menu and the values give, what is loaded from the files, and
which symbols `sync_deps` finds changed; that its steps are steps of `Disk`
is the property `DiskSpec` of its run.

#### EditBox, Scrolling, Display

The arithmetic of a text field (`_edit_text`), of a list in a window
(`_select_next_menu_entry` and its siblings, `_resize_main`, the same again in
the jump-to dialog), and the windows of menuconfig, for lists of any length, any
matches and texts and all sizes of the terminal: the cursor of the main display
with `_parent_screen_rows`, and the stack of dialogs that are open (`screens`),
each with its field, its matches and its cursor. `Resize` may happen at any
time, and reaches only the window on top, as in the code. `Menu` implements
`Display` (property `DisplaySpec`).

#### Menu

`ui` is the record of the global variables of the display; each handler is an
operator on it, so that handlers call each other as in the program, and each
key is an action. What happens in dialogs is said with the actions of `Display`.
Exceptions (`ValueError` from `list.index`) end the program: `ui.raised` says
where. What a search finds is any of a few sets of nodes; the texts typed are
only as long as they are.

## 3. Runs

Eight runs check what holds:

| run | what it shows | bounds |
| --- | --- | --- |
| `subgraph` | the packages with a file are always in every closed set (`NothingExtra`: an optional dependency of a mere dependency is not selected at level 3) and in the end are closed (`NothingMissing`); no package is open twice (`OpenOnce`) | every book of three packages with up to two lines each and two different weights among 1–4; one or two requests; every level |
| `path_to` | it returns 1 exactly when a closed set separates the goal from the start (`NoneIsRight`, `FoundIsRight`), that is when `HasPath` is false (`AgreesWithHasPath`) | every graph of three nodes with up to two edges each of weights 1 and 2, one file possibly missing; every start, goal and weight |
| `clean` | no dangling and no "after" edge in any file, new ones included (`CleanOutput`); parents wait for the "after" dependencies of what they need (`AfterServesParents`); nothing becomes unreachable (`NothingLost`); no new cycle (`NoNewCycle`); first passes do not need their parent (`FirstBreaksCycle`); the last four under the conditions that section 4 gives the reasons for | the subgraphs of one to three packages with one line of any kind for each other package, third package without "first" lines, every order of the files |
| `tree` | complete unless a redirection was ambiguous or a file was wiped (`CompleteUnlessAmbiguous`), sorted unless a dependency was moved to a file that lists it (`SortedUnlessRelisted`), the strongest chain unless something was moved (`StrongestUnlessMoved`); a dependency is taken for circular when its call is in progress (`CircularIsOpen`); no package is listed twice (`BuiltOnce`); it ends (`Terminates`) | every graph of three packages with weights 1–3, 1–2 and 1–2, and four- and five-package shapes in which moves collide, with every choice of the weights |
| `resolver` | the requests and their dependencies are built (`RequestsBuilt`), dependencies first (`DependenciesFirst`), with what they run with (`RuntimeFirst`), and the program ends (`Terminates`) | every book of three packages with required and runtime lines, and first ones for the requested package; levels 1 and 3 |
| `symbols` | a cached attribute is what a calculation from the user values gives (`Fresh`); a menu without a reported loop can be calculated, but for the loops of one kind that section 4 describes (`Calculable`), a loop is reported only when there is one of dependencies, not just a choice and its symbol, and whenever there is one among the dependencies that the search goes through (`LoopsFound`); an invalidation enters no item twice (`EntersOnce`) and between two calls nothing cached was calculated from something uncached (`NoOrphans`); `Symbols` implements `Invalidation` (`Invalidates`) | nine menus: MODULES and tristates with an imply; select and a default; a choice in mode m or y; choices whose selection depends on a visibility, and whose symbol others depend on; ranges that depend on values; three with loops, one of which is not found. All orders of calculations and calls |
| `config_files` | loading what was written gives the same values (`RoundTrip`), from a minimal configuration too (`MinRoundTrip`); loading forgets what was there (`LoadReplaces`); the last complete configuration is on the disk (`NothingLost`); what is compiled is what the values say (`Rebuilt`); each with the exceptions that its definition names; `ConfigFiles` implements `Disk` (`DiskSpec`) | nine menus: choices in all modes, optional ones, ranges, select and imply, and a menu of which three next versions have lost a symbol, which two of them still mention, in a dependency or a select; four configuration files written by hand; every interruption |
| `menu` | the nodes shown are those that the values say (`ShownIsCurrent`), the selected one is in the window (`CursorInWindow`, also for the dialogs), which has the size of the terminal (`SizeIsCurrent`); a choice shows each visible symbol once (`ChoiceIsComplete`); quitting without being asked loses nothing (`NothingUnsaved`); exceptions are raised in three situations only (`RaisesOnlyIf`); `Menu` implements `Display` (`DisplaySpec`) | nine menus of up to eight nodes, each with the keys that matter for it (`MCKeys`); terminals of three heights, so that windows have one to four rows |

and four runs, `clean_at_end`, `tree_names`, `sync_removed` and `menu_leave`,
find disagreements of section 4.

*Why the bounds are enough.* In the resolver a decision depends on a node,
one of its edges, whether another node has been met or is open, and on the
weights along one cycle. Three packages give cycles of two and of three nodes,
diamonds, two cycles that share a node or an edge, a requested package met
first as a dependency, and a node reached by a light and a heavy edge. Two
weights suffice for a comparison; `subgraph` takes them from {1,2}, {2,3} and
{3,4} because `DEP_LEVEL` distinguishes neighbours. In `tree`, moves collide
only from four packages on, which is why the larger shapes are there
(`Relisting`, `TwoCycles`, `Nested`): they are the smallest we know for each of
the situations the properties name. Within them the weights vary freely.

In the menu, a value depends on few things at once: its prompt, one default, a
selecting symbol, its choice and MODULES; each is in a menu of its own, with
the two or three other items that can make it change, since all menus together
would have too many values. What must *not* be small is the sequence of calls,
and it is not bounded: the runs explore all that can be reached. The bounds
with a name are `Asked` (for which items the program asks for assignable
values), `Numbers` (the numbers given), `Tools` and `Keys` (which calls and
keys are used with which menu), `Given` (files written by hand), `Upgrades`
(which menu follows which), `Searches` (what a search finds: the empty set or
three nodes), `MaxText` (3 characters in a field of 3, so that it scrolls),
`MaxBlind` (the row in an empty list of matches, which the code does not limit:
-2 to 2) and `Terminals`. `_SCROLL_OFFSET` is 1 instead of 5, and the help
windows 1 and 2 rows high, so that windows are smaller, as high as, and higher
than twice the offset. `writes` counts to 2, since only "one" and "more" are
told apart; a `write_config` that finds no `.config` to move does not count.

*Fairness* is `WF_vars(Next)`, in `DepTree` and `Resolver` only: these are
sequential programs that wait for nothing, so they take a step when they can.
There is no other assumption, in particular none about which of several steps
is taken. The menu waits for its user, who need not do anything, so nothing is
promised to happen there. Deadlock is not checked, since the programs end (the
menu, also, with an exception).

*Type invariants* are stated where proofs rest on them (`Subgraph`, `PathTo`,
`CleanSubgraph`, `Loops`, `Invalidation`, `Disk`, `Display`), and proved; the
other modules leave them out.

*Mutants.* Each property of a passing run has a definition in the modules marked
`mutant`, a plausible error of the code (a dropped test, a reset forgotten,
lines swapped) that the property detects in the same run.

## 4. Where the code departs from its documentation

Each was found while modelling, and was reproduced with the code itself on the
counterexample.

| run | the documentation | the code | when |
| --- | --- | --- | --- |
| `clean_at_end` | func_dependencies:36: “after” edges are moved to “before” edges of the parents | line 279 finds parents by the end of a line, so `foo` also has the parents of `libfoo`; the group is then not put into root and the “after” dependencies are lost | a node with “after” dependencies whose name ends that of another, and all of whose true parents are led to by them |
| `tree_names` | func_dependencies:35: the nodes reachable from root are built; line 38: pass 3 removes cycles | line 419 (and 452) removes the lines that contain the name | a circular dependency whose name is a part of another dependency's, in a subtree that is built again |
| `sync_removed` | kconfiglib.py:1766: a symbol that no longer exists is flagged, in case something still depends on it | line 1756 looks for the name in `syms`, where symbols are that are only mentioned | a symbol is removed from the menu, and an expression still has it |
| `menu_leave` | menuconfig.py:1160: jumps to the parent menu | line 1174 looks for the menu among the nodes shown in its parent: ValueError | a menu is hidden by “visible if”, a comment in it was jumped to, and the menu is left |

Further ones are known from the same models, and need no run of their own. In
the passing runs the properties say how far the promise holds all the same
(`AfterServesParents`, `NothingLost`, `NoNewCycle`, `FirstBreaksCycle`,
`CompleteUnlessAmbiguous`, `SortedUnlessRelisted`, `StrongestUnlessMoved`,
`Calculable`, `RoundTrip`, `MinRoundTrip`, `LoadReplaces`, `NothingLost`,
`Rebuilt`, `RaisesOnlyIf`): the hypothesis is the situation in which it does
not, and most of the instances contain it.

*In the resolver* (`func_dependencies`):

* line 130 limits the weight to 3 at level 4, which is to give all dependencies
  (line 94): external ones, of weight 4, are not followed at any level.
* line 296 looks for a name anywhere in the group, the node's own name included,
  and then drops an “after” dependency whose name is a part of the node's.
* line 424 finds the parent's link also among the weights of other files;
  `parentNode` then holds several names, and the redirections of lines 453 and
  456 fail: a removed dependency is not moved and may become unreachable, against
  line 448 (`Ambiguous`).
* line 480 removes the last of several lines for a dependency where the first
  was flagged: when a dependency was moved to a file that lists it already, the
  list is not sorted.
* line 453 writes a moved dependency with the weight of one edge of its chain:
  a later cycle through it may be cut elsewhere than at its weakest edge, against
  README.BLFS:238.
* line 314 copies a file with “f” lines into a first pass, which the loop does
  not visit; for such a line, line 480 finds no number, `sed -i d` empties the
  file, and the message of line 405, “This should not happen”, follows. What only
  the other lines of that file led to is lost (`Wiped`): the proof that the list
  is complete needed this exception besides the first.

The conditions of the four properties of pass 2 were found by trying to prove
them without, and each has a counterexample of at most six packages:

* line 283 asks `path_to` to follow edges of weight 3 at most, at level 4 too:
  a parent that an external dependency leads back to gets the group all the
  same, which may close a cycle (`External` in `NoNewCycle` and others).
* `sed` changes every line that leads to a node, whatever its qualifier: in a
  file that lists a package as "before" and as "after", both are turned, or both
  removed (`OneRole`).
* a package to which only "first" lines lead is led to no more: they go to its
  first pass, which is without the lines that lead back, so that what only these
  lead to is not reached either (`NothingLost` asks that root reaches all packages
  without "first" lines).
* line 333 gives a line that was "first" the weight 1: it makes paths lighter
  than those `path_to` has found when an earlier first pass was made
  (`FirstUpTo` in `FirstBreaksCycle`).
* a package wanted first that itself wants one first: its first pass is made
  from its file as it was, so it leads on to what the file has been cut off from
  since. With six packages, a and b wanting c, c wanting d, e wanting h first,
  d needing e and h needing b, taken in the order a, c, e, b, the first pass of
  c leads back to b (`FirstOfFirst`).

*In the symbols and files* (`kconfiglib.py`):

* A tristate whose default is y and whose prompt allows m at most has a value
  that loading its own line changes: writing and loading is not the identity.
  (`BeyondPrompt`; in menuconfig, toggling it raises ValueError, line 1584.)
* A minimal configuration leaves out the y of a choice's default selection when
  that is a bool symbol, although the choice is a tristate: the mode y is lost
  (line 1614; line 1565 says that the complete configuration can be derived).
* After loading a file that gives the symbols of a choice m only, the user's
  selection of that choice is still the old one (“all existing user values will
  be cleared”, line 1144).
* `unset_values` leaves `_was_set` as it is (“as if load_config or set_value had
  never been called”, line 1878), so that merging a file after it looks up None
  in TRI_TO_STR: KeyError, line 1312.
* `write_config` moves `.config` to `.config.old` before it writes: when a write
  is cut after it has opened the file, the next one moves what is left of it to
  `.config.old`, and until that one is complete the last configuration is
  nowhere. When it is ended before, the next one finds nothing to move, and
  nothing is lost. A cut of `auto.conf` makes the next `sync_deps` miss a symbol
  that went back to n.
* The search for loops goes from a choice to its symbols only. What is in a
  menu inside the choice also depends on it, and when the choice's prompt
  depends on that, the loop is not found: calculating ends with RecursionError.
  (`LoopPastChoice`, and the menu `LoopPast` of the run.)
* `_found_dep_loop` prints `rev_dep` where it means `weak_rev_dep` (line 6521;
  no model).

*In menuconfig* (`menuconfig.py`):

* `_update_menu` (line 1667) looks for the selected node after a change that
  may have hidden it at this location: ValueError for a symbol with several
  locations, one of which is shown only for what is below it.
* `_needs_save` (line 717) does not see that a file has lines that would not be
  written any more, so that the file keeps them until something changes; the
  values are the same (`NothingUnsaved`).
* In the jump-to dialog without matches, the selected row is not limited; it
  is reset before anything looks at it.

## 5. Proofs

TLC checks the instances above; TLAPS proves the following for every set of
packages, book, request and level, for every graph, start, goal and weight, for
every menu as far as its dependencies and choices go, for every content of the
files, and for lists, windows, texts and fields of any size.

| module | theorem | says |
| --- | --- | --- |
| `SubgraphProofs` | `TypeCorrect` | the state is well typed |
| | `SearchOpensOnce` | no package is open in two calls |
| | `SearchIsSound` | what has been extracted belongs to every closed set |
| | `SearchIsComplete` | when the pass returns, what it has extracted is closed |
| | `ReadyToClean` | what is left then is what pass 2 is assumed to start from |
| `PathToProofs` | `TypeCorrect` | the state is well typed |
| | `ReturnOneIsRight` | after `return 1` a closed set around the start excludes the goal |
| | `ReturnZeroIsRight` | after `return 0` every closed set around the start contains it |
| | `AnswersLikeHasPath` | the answer is that of `HasPath`, which the other modules use for it |
| `CleanProofs` | `OutputIsClean` | in the end no line dangles and none is "after", in any file |
| | `TypeCorrect` | at any time the files are what pass 3 is assumed to start from |
| | `NoCycleAdded` | packages that depend on each other did so before, without "after" lines |
| | `CyclesBroken` | what a first pass needs does not lead back to the package it is made for |
| | `AfterIsServed` | a parent leads to the "after" dependencies of what it needs |
| | `NothingIsLost` | root leads to all packages, and to the first passes that are wanted |
| `DepTreeProofs` | `LinksTellOpenCalls` | a dependency is taken for circular exactly when its call is in progress |
| | `NoPackageBuiltTwice` | no package is twice in the list |
| | `BuildOrderIsComplete` | the list has what root leads to, and nothing else |
| `SymbolsProofs` | `TypeCorrect` | the search for loops is well typed |
| | `SearchFindsLoops` | it reports a loop exactly when there is one |
| | `NothingOrphaned` | between two calls, nothing cached was calculated from something that is not |
| | `EnteredOnce` | the recursion enters no item that it is at work on |
| `DiskProofs` | `TypeCorrect` | the files and the call under way are well typed |
| | `SavedSurvives` | the last configuration saved survives one interrupted save |
| | `ChangesReachBuilds` | after `sync_deps` nothing is out of date but what it touched |
| `DisplayProofs` | `TypeCorrect` | the display and the dialogs are well typed |
| | `AlwaysInWindow` | what is selected is in its window, the cursor of a text in its field |
| | `AlwaysRightSize` | the window on top has the size that the terminal allows |
| | `MatchesLikeEntries` | the movements of the jump-to dialog are those of the main display |
| | `EditShowsCursor` | a key leaves the cursor of a text within the text and the field |

**Assumptions.** `SubgraphAssumption`: root is not a package, a request is a
sequence of packages that is not empty, the book gives every package a sequence
of lines whose targets are packages, the level is 1 to 4. `PathToAssumption`:
the graph gives every node that has a file a sequence of lines whose targets
are nodes. `CleanAssumption` and `GraphAssumption`: no package, group or
first pass has the name of root, and no package that of a group or a first pass;
the graph is one that pass 1 leaves (`Extracted`), and by `ReadyToClean` it is.
`AfterIsServed` and `NothingIsLost` also assume that no name contains another
(`PartOf = {}`): with such names what they say is false, as the run `clean_at_end`
shows. So does `BuildOrderIsComplete`, for the reason that the run `tree_names`
shows: `sed` removes lines that lead to other packages. All other theorems hold
for any names. `DepTreeAssumption`: the graph has a file for root and no lines
to it, which is what pass 2 leaves (`TypeCorrect` of `CleanProofs`). `FiniteAssumption` (of `PathTo` and `DepTree`): there are finitely
many nodes. None assumes that there are no cycles. `MenusAssumption`: a symbol
is in a choice of the menu or in none, and choices consist of symbols.
`OffsetAssumption`: `_SCROLL_OFFSET` is a natural number, which may be greater
than the window. `SizesAssumption`, `TerminalsAssumption`: lists and windows
have at least one row (menus without entries are not entered; `_height` of the
window is at least 1). `WidthAssumption`: an input field is wider than
`_SCROLL_OFFSET` (its dialog is at least `_INPUT_DIALOG_MIN_WIDTH` wide).
About the items of `Invalidation` and the symbols of `Disk` nothing is assumed.

**Pass 1.** Completeness and soundness together say that pass 1 computes the
least closed set, without mention of the order in which it goes. Neither is
inductive. The invariant `IInv` adds: the files are those of root and the book
(`FilesInv`); each call was made for the line its caller has just read, and
only the outermost call is root's (`StackInv`); the lines a call has read and
that were light enough lead to packages with a file (`ReadInv`); a package
whose call has returned leads to packages with a file, up to the weight followed
at any depth (`BaseInv`); and a requested package with which root has dealt, up
to the weight followed at depth 2 (`TargetInv`). The last two are needed
because of the exception in the code: at level 3 a requested package met
deeper in the graph is closed for weight 2 only, and becomes closed for weight
3 when root's line for it comes up. That the package may then be opened
although it has a file is harmless, because at that moment only root's call is
in progress: this gives `OpenOnce`. When `stack` is empty, `TargetInv` and
`BaseInv` are `Closed` (`Completeness`). Each action has a lemma (`SkipStep`,
`LeafStep`, `DescendStep`, `ReturnStep`); what the last two have in common with
the others is in lemmas on reading one line (`ReadingFrames`, `ReadingStack`,
`ReadingRead`, `ReadingTarget`).

**path_to.** The danger is the shared list: a node can be marked while the call
that marked it is still at work, and other branches skip it. The invariant
says that a marked node is open or all its light edges lead to marked nodes
(`MarkedInv`), that the lines an open call has read do so (`CallsInv`), that the
goal is never marked (`EndsInv`), and that only nodes of every closed set are
(`InsideInv`). At `return 1` of the outermost call no call is open, so the
marked nodes are themselves the closed set that excludes the goal. That
this is what `HasPath` says (`AnswersLikeHasPath`) needs more: `Closure` is a
recursive function on sets. `DepFilesProofs` shows that it has a value, by
induction on the number of nodes left, and that this is the intersection of the
closed sets (`ReachableIsHull`); for finitely many nodes only, since the
recursion would not end otherwise.

**Pass 2.** Each loop achieves something that the next must not undo. The
invariant `IInv` says, for each loop, what holds of the files it has dealt with,
and of all files what the loops before have achieved. The first loop makes the
lines of each file lead to files. In the second, the node of an "after" line
gets a group, and what has to be shown is that the node's own file loses *all*
its "after" lines, although lines to it may have been redirected meanwhile: a
line is redirected in a file of a free parent only, and a node is not one of
itself, since an "after" dependency that it is for itself leads back to it
(`SelfPath`). The group's lines are "before" lines whatever grep finds, and the
files of the first passes are parts of files that are clean already, by
induction on the number of "first" lines. `TypeInv` goes with it: root has no
"after" lines, so only packages get groups; and what the third loop has still to
deal with has no first pass in it, so that no first pass of a first pass is made.

*No new cycles* (`NoCycleAdded`). A package, its group and their first passes
(`Names`) have lines that come from lines of the package, or lead to each other
(`EdgeInv`). So a cycle of the files is one of the graph, unless it goes by an
"after" line that has got into a group. What makes this impossible is that a
group's members, but for its node, do not lead back to it, now or ever:
`Apart` says that there is a set of nodes with the one and without the other
that no line leaves, which has first passes together with their nodes (`Shut`).
Such a set stays one when a turn of a loop adds to it the group, or the first
passes, of nodes in it (`GroupKeepsShut`, `FirstKeepsShut`); that a new group is
apart from its members is what `path_to` was asked (`GroupIsApart`).

*First passes* (`CyclesBroken`). When a first pass is made, what leads back is
left out; the danger is that a later turn makes a path that did not exist then.
A first pass needs no more than its node does (`Lesser`), and a line that is
turned to it gets no lighter as long as "first" lines weigh no more than the
path in question: so no turn makes a path, but for ones that begin at first
passes (`FirstMakesNoPath`), and what is broken stays broken (`Broken`).
`Lesser` fails when a package wanted first has "first" lines itself, which is
where the condition `FirstOfFirst` comes from.

*"After" dependencies* (`AfterIsServed`). Whoever needs x, and is not led to by
x's "after" dependencies, has a line to x until x gets its group, and is then a
free parent, because files lead nowhere where the graph did not (`PathBefore`);
from then on it has a line to the group or its first pass (`WaitInv`). The "after"
lines of x stay until then (`KeepInv`), its group gets them all, as does the
group's first pass, since they are apart from the group (`JoinInv`).

*Nothing lost* (`NothingIsLost`). That root leads to everything is not
inductive: when a node gets its group, some of its parents keep the line to the
node, and the "after" dependencies may then be reached through the others only.
Nor is it true between the loops that first passes do what their nodes do, since
they have lost lines. The invariant `ReachInv` speaks of all sets S with root
from which no line leads out but "first" lines, and no line of a group that is
wanted first (`Followed`): each node is in S, or is a group that one of S wants
first (`Attained`). When node gets its group and no node of S leads to it, then
the free parents are not in S; adding to S what the "after" dependencies lead to
gives a set followed *before* without a free parent, unless there are none, and
then root gets the group (`GroupReach`). In the third loop S is followed before
the turn when it is afterwards, since only "first" lines are turned
(`SameInv`, with `OneRole`) and the first pass of a group keeps all it adds to its
node (`CopyInv`). In the end, what root leads to is such a set.

**Pass 3.** The code never asks which calls are in progress: it compares links,
some of which were written long ago by calls that have ended, or for subtrees
that were erased since. `BuildInv` says why this is right. The links of the
calls in progress are root's, followed by the positions of the lines that they
are reading (`CallOK`, `OnWay`). Any other link is empty, or leaves this way at a
line that was read earlier, or follows it to the line read last (`ClosedOK`,
`LeavesAt`); so it is no beginning of the current one. It is inductive because
`tree_erase` erases only files with longer links (`ErasedAreLonger`), so that no
call in progress loses its file when a dependency is moved (`Moved`), and because
positions are counted as lines are read, not as they are in the file.

That no package is listed twice (`NoPackageBuiltTwice`) must hold although a file
may have several lines for a package, lines are flagged and removed later, and
dependencies are moved to files that list them already. `OnceInv` counts: of the
lines of a file to a package that have been read, all are flagged, or all but one
(`AtMostOnce`); the latter in one file only (`OneLister`), which is the file whose
link that of the package continues (`ListerAbove`). This is about the files that
can still be browsed, whose link continues the links of files (`Rooted`), not about
those that an erased file has left behind. It does not hold of the calls that are
left while a value is returned to the parent of a cycle: there it holds of the
calls as they were (`CutShort`), whose flags are lost together with their files. In
the end all files have been read, so the browsed ones are a forest (`Forest`): a
line leads to each package from one other at most. From there it is a depth-first
search (`BrowseInv`): what has been listed has a line that the search has passed.

That no package is lost (`BuildOrderIsComplete`) is in question whenever
`tree_erase` erases the files below a call and a line is cut, since the erased
packages may have been found already in other files, whose lines to them are
flagged and are not read again. The invariant `Full` compares the trees with the
files `<m>.dep`, of which only the line of the cycle is cut and moved. Every line
of a `.dep` file leads to a package that is built, or will be read (`Covered`).
Of the lines that will not be read, only the one that a call was made for leads
from outside into what is below that call (`Separate`): whoever else needs what
is erased has a line still to be read. When the dependency is moved, the parent
of the cycle gets a new line, which will be read; and since what is read is
named in the `.dep` file of a call in progress (`Fed`), the lines still lead from
root to all they led to before (`Leads`). In the end no line is left to be read, so
that all root leads to is built, and each package is listed in a file nearer to
root (`AllListed`, `TreeFull`), which makes the browsing print it (`BrowseFull`). The
invariant is stated as long as nothing has been lost by the two exceptions
(`Sure`), which do not go away by themselves (`SureBefore`).

**Loops.** That a loop which is reported is one follows from how calls are made
from one another (`Linked`, `From`). That none is missed is harder, since a call
for a choice skips the symbol it came from, and an item that is done is not
searched again. `LoopsInv` says that the items searched lead to each other only,
and that no set of them is closed in itself (`LoopFree`): here a symbol counts as
searched as soon as its dependents are, while the call for its choice is still
in progress (`Searched`). With that, what a call has gone through is searched
(`Gone`), also for the call that skips.

**Invalidation.** A comment in `_rec_invalidate` says why it may stop at an
item without cached values: nothing that depends on it has any. *During* an
invalidation that is false, and yet the recursion relies on it. The invariant
`InvalidationInv` says what is true instead: whoever has lost something that its values
were calculated from is still waited for, by a call on the stack for the item
lost, whose loop has not come to it (`Pending`). With it goes that values are
calculated from items that know it, MODULES excepted (`ReadsKnown`), that what
has no values was not calculated from anything (`UncachedReadsNothing`), and
that items with a call at work have no values (`StackUncached`), which is also
why no item is entered twice. With an empty stack, `Pending` is `NoOrphans`.
`Symbols` implements `Invalidation` (checked by TLC), and that nothing is
orphaned is what `Fresh` rests on there.

**Disk.** `DiskInv` adds what each call has achieved at each of its steps
(`JobOK`): `.config.old` has the last configuration once `.config` has been moved
(`SavedOK`); while `sync_deps` is touching files, `auto.conf` says what things
were compiled with, and while it writes `auto.conf`, all that it will not touch
any more is up to date (`CompiledOK`). A write of `auto.conf` that is cut is the
one thing that breaks this, which is what `torn` in `Rebuilt` says.

**Display.** `DisplayInv` is the type invariant and the two properties, with two
additions: dialogs that fill the terminal are only among themselves (`StackOK`),
so that the windows below, which a resize does not reach, are not on top before
they have been resized; and the cursor of the jump-to dialog is one in the list
of its matches (`MatchesOK`). There is one lemma per handler. `Left` is the case
to read: the row remembered may be outside of a smaller window.

**Only model-checked**: termination, which is liveness under fairness and out of
the prover's reach. Of pass 3, that the list is sorted and has the strongest
chains (`SortedUnlessRelisted`, `StrongestUnlessMoved`): these need an invariant
about the order of the calls, and about paths in files that are cut meanwhile;
and with it the composition in `Resolver`, whose properties rest on them. What is calculated in the
menu (`Fresh`, `Calculable`, `RoundTrip`, `MinRoundTrip`, `LoadReplaces`,
`ShownIsCurrent`, `ChoiceIsComplete`, `NothingUnsaved`, `RaisesOnlyIf`), because
expressions and trees need recursive operators, for which the prover has no SMT
backend; and with them the three refinements `Invalidates`, `DiskSpec` and
`DisplaySpec`, by which what is proved of the modules without values carries over
to those with them.

## 6. What is not modelled

In the resolver: the file descriptors 6, 7, ... by which nested loops read (a
frame of `stack` keeps its own position); the spacing and colours of the output;
`xsltproc` failing. The book is arbitrary, so the comparison of versions by which
`dependencies.xsl` leaves out what is installed is not there yet.

In the menu: the tokenizer, the parser and its preprocessor (macros, `source`,
environment variables), so that the models begin with a parsed tree; the
documentation and the warnings Kconfiglib prints; environment symbols (`option
env`), `allnoconfig_y`, and how `defconfig_list` is chosen; comments and
malformed lines in configuration files. In menuconfig: drawing, styles and the
width of the terminal; messages that only wait for a key; scrolling the text of
the info dialog; saving a minimal configuration (another file, no state here).

Outside of both: everything in section 1 from Tracking to the driver and the
host check. The parts with state are in the plan. The stylesheets are
translations without state, CLFS and HLFS are variants of `LFS/master.sh` for
books that are not maintained any more, and package management, optimisation
and the report are texts for generated scripts.

## 7. Plan

Done: the resolver (`Subgraph`, `PathTo`, `CleanSubgraph`, `DepTree`,
`Resolver`) and the menu (`Symbols`, `ConfigFiles`, `Menu`, and what they rest
on). What is left, in order of importance:

1. `GetSources`: the download loop for a few URLs whose servers, archive and
   cache may fail, be wrong or right, with the driver's `clean_builddir` and
   `run_make`. Abstract specification: `RUNMAKE` is y only if all files are
   present and right. Properties: that, over two runs of the driver; what gets
   into the archive.
2. `Tracking`: the tracking file, flags and targets of `BLFS/Makefile` and of
   the generated one, with interruption between and within commands.
   Properties: a package is never forgotten, `packages.xml` is regenerated when
   needed.
3. `BuildRun`: the phases of the LFS Makefile with BREAKPOINT, interruption and
   rerun, `save-luser` and `restore-luser`, and the targets of the iterative
   comparison. Abstract specification: the targets in order, each once;
   refinement mapping from the target files. Properties: the user's home is
   back at the end, the user is not deleted, every rerun can go on.
4. Proofs: `SortedUnlessRelisted` and `StrongestUnlessMoved` of `DepTree`, from
   `Full` and the order in which calls end; the safety properties of 1–3 as they are written,
   and the refinement of 3.
5. `VersionCompare`: `compare-versions` as a pure function against a
   reference order (recursive operators, so without proofs), and with it the
   part of `dependencies.xsl` that is only "partly" modelled.
6. `BuildMakefile`: the chain `PREV` and the lists of targets, with custom
   packages whose configuration files are sourced into the same variables.
7. `ProgressBar`: two processes with delays, in discrete time.

Bounds foreseen: two URLs and two runs of the driver for 1; two packages and
one interruption anywhere for 2; three targets per phase and two
interruptions for 3; versions of up to three parts over a small alphabet for 5;
three packages, of which two custom, for 6; ten ticks for 7.
