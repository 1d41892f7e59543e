---------------------------------- MODULE Menu ----------------------------------
(***************************************************************************)
(* The user interface, menu/menuconfig.py: the main display with the       *)
(* entries of a menu, and the dialogs above it.  Keys come in any order,   *)
(* and the terminal may change its size at any time.                       *)
(*                                                                         *)
(* The handlers change a record ui (the global variables of the display);  *)
(* they call each other as the functions of the program do, and one key is *)
(* one step.  An exception ends the program: ui.raised says where.         *)
(* Messages, which only wait for a key, and what is drawn are left out;    *)
(* the width of the terminal does not change.                              *)
(***************************************************************************)
EXTENDS Display, Loading

CONSTANTS
  Menus,      \* finalized menus: what Finalize makes of parsed ones
  Numbers,    \* the values given to symbols that are not bool or tristate
  Given,      \* for each menu, the configuration files there are
  Keys,       \* bound: for each menu, the groups of keys that are used
  MaxText,    \* bound: the length of what is typed
  MaxBlind,   \* bound: the row that is selected in an empty list of matches
  Searches    \* bound: the sets of nodes that a search may find

Top == 1

VARIABLES
  menu,       \* which menu it is
  K,          \* the menu: the part of the Kconfig object without values
  mem,        \* the part with values
  attrs,      \* its attributes, which follow from mem (as Symbols shows)
  seen,       \* the nodes that are visible, which follow from them
  file,       \* what is in the file named _conf_filename
  changed,    \* _conf_changed
  over        \* how the program ended

vars == <<menu, K, mem, attrs, seen, file, changed, ui, term, help, screens, over>>

W == [k |-> K, user |-> mem.user, cache |-> attrs]
NewW == [k |-> K, user |-> mem'.user, cache |-> attrs']
Uses(keys) == keys \in Keys[menu]
LongestText == IF Uses("text") THEN MaxText ELSE 1

-------------------------------------------------------------------------------
(* Nodes.                                                                  *)
Children(k, n) ==
  SelectSeq([i \in DOMAIN k.node |-> i], LAMBDA i : k.node[i].parent = n)

NodesOfItem(k, kind, i) ==
  SelectSeq([n \in DOMAIN k.node |-> n],
            LAMBDA n : k.node[n].kind = kind /\ k.node[n].item = i)

IsItem(node) == node.kind \in {"symbol", "choice"}

(* _visible *)
Prompted(w, n) ==
  w.k.node[n].prompt # NoPrompt /\ ExprValue(w, w.k.node[n].prompt) > 0

Visible(w, n) ==
  /\ Prompted(w, n)
  /\ ~(w.k.node[n].kind = "menu" /\ ExprValue(w, w.k.node[n].visible) = 0)

VisibleNodes(w) == {n \in DOMAIN w.k.node : Visible(w, n)}

(* _shown_nodes: the nodes below a node that are in its list, in the order *)
(* of the tree: those that show, and those in the implicit menus below     *)
(* them.  A symbol shows for what is below it; in show-all mode all do.    *)
Listed(visible, all, here) ==
  LET shows[n \in DOMAIN K.node] ==
        \/ n \in visible \/ all
        \/ /\ K.node[n].kind = "symbol"
           /\ \E i \in DOMAIN K.node : K.node[i].parent = n /\ shows[i]
      below[n \in DOMAIN K.node] ==
        LET p == K.node[n].parent
        IN  shows[n] /\ p # 0 /\ (p = here \/ (~K.node[p].menuconfig /\ below[p]))
  IN  {n \in DOMAIN K.node : below[n]}

InOrder(nodes) == SelectSeq([n \in DOMAIN K.node |-> n], LAMBDA n : n \in nodes)

(* In a choice with several locations, the symbols of all of them, but not *)
(* a symbol twice: here's location first.                                  *)
ShownNodesHere(visible, all, here) ==  \* mutant: only this location of a choice
  InOrder(Listed(visible, all, here))

ShownNodes(visible, all, here) ==
  LET its == Listed(visible, all, here)
      others == UNION {Listed(visible, all, n) : n \in
                  {i \in DOMAIN K.node : /\ i # here /\ K.node[i].kind = "choice"
                                         /\ K.node[i].item = K.node[here].item}}
      Repeats(n, o) == K.node[n].kind = "symbol" /\ K.node[o].item = K.node[n].item
  IN  IF K.node[here].kind # "choice" THEN InOrder(its)
      ELSE InOrder(its \cup {n \in others : /\ \A o \in its : ~Repeats(n, o)
                                            /\ \A o \in others : o < n => ~Repeats(n, o)})

RECURSIVE ParentMenu(_, _)
ParentMenu(k, n) ==
  LET p == k.node[n].parent
  IN  IF p = 0 \/ k.node[p].menuconfig THEN p ELSE ParentMenu(k, p)

(* Entries count from 0.                                                   *)
Entry(list, n) == (CHOOSE i \in DOMAIN list : list[i] = n) - 1
InList(list, n) == \E i \in DOMAIN list : list[i] = n
SelNode(u) == u.shown[u.cur.sel + 1]

-------------------------------------------------------------------------------
(* The display.                                                            *)

(* _update_menu *)
UpdateMenu(visible, u) ==
  LET shown == ShownNodes(visible, u.all, u.menu)
  IN  IF ~InList(shown, SelNode(u)) THEN [u EXCEPT !.raised = "update"]
      ELSE [u EXCEPT !.shown = shown,
                     !.cur = OnSameRow(@, Len(shown), Entry(shown, SelNode(u)))]

(* _select_selected_choice_sym: the first node of the selected symbol that *)
(* is shown.                                                               *)
SelectedNodes(here, shown) ==
  LET node == K.node[here]
      sel == IF node.kind = "choice" THEN attrs[node.item].selection ELSE NoSym
  IN  IF sel = NoSym THEN <<>>
      ELSE SelectSeq(NodesOfItem(K, "symbol", sel), LAMBDA n : InList(shown, n))

(* _enter_menu *)
EnterMenu(n, shown, selected) ==
  [ui EXCEPT
     !.rows = Append(@, ui.cur.sel - ui.cur.scroll),
     !.menu = n, !.shown = shown,
     !.cur = IF selected = <<>> THEN First(@, Len(shown))
             ELSE AtEntry(@, Len(shown), Entry(shown, Head(selected)))]

(* _leave_menu, to a parent in which these nodes are shown                 *)
LeaveMenuKeepRow(u, shown) ==  \* mutant: the row stays on the stack
  IF ~InList(shown, u.menu) THEN [u EXCEPT !.raised = "leave"]
  ELSE [u EXCEPT !.shown = shown, !.menu = ParentMenu(K, u.menu),
                 !.cur = Left(@, u.rows, Len(shown), Entry(shown, u.menu))]

LeaveMenu(u, shown) ==
  IF ~InList(shown, u.menu) THEN [u EXCEPT !.raised = "leave"]
  ELSE [u EXCEPT
          !.shown = shown, !.menu = ParentMenu(K, u.menu),
          !.cur = Left(@, u.rows, Len(shown), Entry(shown, u.menu)),
          !.rows = Popped(@)]

ShownInParent(visible, u) == ShownNodes(visible, u.all, ParentMenu(K, u.menu))

(* _toggle_show_all, to a mode in which these nodes are shown: to the      *)
(* closest entry before, or after, that still is; without one the mode     *)
(* stays.                                                                  *)
ToggleShowAll(u, shown) ==
  LET kept == {i \in DOMAIN u.shown : InList(shown, u.shown[i])}
      before == {i \in kept : i <= u.cur.sel + 1}
      to == u.shown[IF before # {} THEN Max(before) ELSE Min(kept)]
  IN  IF kept = {} THEN [u EXCEPT !.all = TRUE]
      ELSE [u EXCEPT !.all = ~@, !.shown = shown,
                     !.cur = OnSameRow(@, Len(shown), Entry(shown, to))]

(* _jump_to: into a menu or choice with entries, to its first one, and     *)
(* otherwise to the node.                                                  *)
JumpsInto(n) == K.node[n].kind \in {"choice", "menu"} /\ Children(K, n) # <<>>
JumpMenu(n)  == IF JumpsInto(n) THEN n ELSE ParentMenu(K, n)
JumpEntry(n) == IF JumpsInto(n) THEN Head(Children(K, n)) ELSE n

(* The menu with all nodes if that is what it takes, and where that mode   *)
(* was turned on for a menu that is entered, without it again.             *)
Jumped(n, all, shown) ==
  [ui EXCEPT !.rows = <<>>, !.menu = JumpMenu(n), !.all = all, !.shown = shown,
             !.cur.len = Len(shown), !.cur.sel = Entry(shown, JumpEntry(n))]

AllAgain(n, u) ==
  IF JumpsInto(n) /\ ~ui.all /\ u.all
  THEN ToggleShowAll(u, ShownNodes(seen, FALSE, u.menu)) ELSE u

CenteredAt(u, selected) ==
  [u EXCEPT !.cur = AtEntry(@, Len(u.shown),
     IF selected = <<>> THEN u.cur.sel ELSE Entry(u.shown, Head(selected)))]

-------------------------------------------------------------------------------
(* Values.                                                                 *)
Item(w, n) == w.k.node[n].item
IsStr(w, n) ==
  w.k.node[n].kind = "symbol" /\ w.k.sym[Item(w, n)].type \in {"int", "string"}

AssignableAt(w, n) == w.cache[Item(w, n)].assignable
CurrentAt(w, n) ==
  IF w.k.node[n].kind = "choice" THEN Mode(w, Item(w, n)) ELSE ValueOf(w, Item(w, n))

(* _is_y_mode_choice_sym *)
YModeChoiceSym(w, n) ==
  /\ w.k.node[n].kind = "symbol"
  /\ w.k.sym[Item(w, n)].choice # "" /\ w.cache[Item(w, n)].vis = 2

(* _changeable *)
Changeable(w, n) ==
  /\ IsItem(w.k.node[n]) /\ Prompted(w, n)
  /\ \/ IsStr(w, n) \/ Cardinality(AssignableAt(w, n)) > 1 \/ YModeChoiceSym(w, n)

(* The value after v in a set of values, with wrapping.                    *)
NextValue(values, v) ==
  LET above == {x \in values : x > v}
  IN  IF above = {} THEN Min(values) ELSE Min(above)

(* _set_val: the Kconfig object after it; without a change, it is as it was *)
NewValue(n, v) ==
  IF CurrentAt(W, n) = v THEN mem
  ELSE IF K.node[n].kind = "choice" THEN ModeAssigned(K, mem, Item(W, n), v)
       ELSE Assigned(K, mem, Item(W, n), v)

(* _set_val and, where the key was not n, m or y, what _change_node does   *)
(* after it: a selected choice symbol ends the choice.                     *)
SetVal(n, v, mayLeave) ==
  /\ mem' = NewValue(n, v)
  /\ attrs' = WorldOf(K, mem').cache
  /\ seen' = VisibleNodes(NewW)
  /\ changed' = (changed \/ CurrentAt(W, n) # v)
  /\ \E u \in {IF CurrentAt(W, n) = v THEN ui ELSE UpdateMenu(seen', ui)} :
       IF /\ u.raised = "" /\ mayLeave /\ u.menu # Top
          /\ YModeChoiceSym(NewW, n) /\ Children(K, n) = <<>>
       THEN ui' = LeaveMenu(u, ShownInParent(seen', u)) ELSE ui' = u

(* The value that _change_node chooses when it is not typed.               *)
ToggledTo(n) ==
  IF Cardinality(AssignableAt(W, n)) = 1 THEN Min(AssignableAt(W, n))
  ELSE NextValue(AssignableAt(W, n), CurrentAt(W, n))

(* _needs_save *)
NeedsSaveWithoutNew(w, obj) ==  \* mutant: a symbol without a line is forgotten
  \/ obj.missing # {}
  \/ \E s \in DOMAIN K.sym : obj.user.sym[s] \notin {None, ValueOf(w, s)}

NeedsSave(w, obj) ==
  \/ obj.missing # {}
  \/ \E s \in DOMAIN K.sym :
       IF obj.user.sym[s] = None THEN Written(w, s)
       ELSE ValueOf(w, s) # obj.user.sym[s]

-------------------------------------------------------------------------------
(* The program starts with the file, if there is one, in the top menu.     *)
Init ==
  /\ menu \in DOMAIN Menus
  /\ K = Menus[menu]
  /\ file \in {Absent} \cup Given[menu]
  /\ mem = IF file = Absent THEN Fresh(K) ELSE LoadConfig(K, Fresh(K), file, TRUE)
  /\ attrs = WorldOf(K, mem).cache
  /\ seen = VisibleNodes(W)
  /\ changed = (file = Absent \/ NeedsSave(W, mem))
  /\ term \in Terminals
  /\ \E all \in {ShownNodes(seen, FALSE, Top) = <<>>} :
     \E shown \in {ShownNodes(seen, all, Top)} :
         ui = [menu |-> Top, shown |-> shown, rows |-> <<>>, all |-> all, raised |-> "",
               cur |-> InitCursor(Len(shown), MainHeight(term, FALSE))]
  /\ help = FALSE
  /\ screens = <<>>
  /\ over = ""

Running == over = "" /\ ui.raised = ""
OnMain == Running /\ OnlyMain
OnTop(kind) == Running /\ TopIs(kind)

dialogs == <<screens, over>>
values == <<mem, attrs, seen, file, changed>>
ShowMain(u) == ui' = u /\ UNCHANGED <<menu, K, values, term, help, dialogs>>

(* Keys of dialogs, and those that open one, leave the rest alone.         *)
OnlyDialogs == Running /\ UNCHANGED <<menu, K, values, ui, over>>

(* _resize_main *)
ResizeMain(u) == [u EXCEPT !.cur = Resized(@, MainHeight(term, help))]

-------------------------------------------------------------------------------
(* Keys of the main display.  Page down and page up are _PG_JUMP steps of   *)
(* Select; so they are in the dialogs.                                     *)
Select ==
  /\ OnMain /\ Uses("move")
  /\ \E c \in {SelectNext(ui.cur), SelectPrev(ui.cur),
               SelectLast(ui.cur), SelectFirst(ui.cur)} :
       ShowMain([ui EXCEPT !.cur = c])

(* Space changes the node, or enters it if it cannot be changed; right and *)
(* return enter it, or change it if it cannot be entered.                  *)
Enter ==
  /\ OnMain /\ K.node[SelNode(ui)].menuconfig
  /\ \E shown \in {ShownNodes(seen, ui.all, SelNode(ui))} :
     \E selected \in {SelectedNodes(SelNode(ui), shown)} :
       /\ shown # <<>>
       /\ ShowMain(EnterMenu(SelNode(ui), shown, selected))

OnChangeable == OnMain /\ Changeable(W, SelNode(ui))

OpenValue ==
  /\ OnChangeable /\ IsStr(W, SelNode(ui))
  /\ \E m \in 0 .. LongestText :
       OnlyDialogs /\ Open([kind |-> "value", node |-> SelNode(ui), box |-> BoxOf(m, Width)])

Toggle ==
  /\ OnChangeable /\ ~IsStr(W, SelNode(ui))
  /\ IF /\ Cardinality(AssignableAt(W, SelNode(ui))) > 1
        /\ CurrentAt(W, SelNode(ui)) \notin AssignableAt(W, SelNode(ui))
     THEN ui' = [ui EXCEPT !.raised = "toggle"] /\ UNCHANGED <<mem, attrs, seen, changed>>
     ELSE SetVal(SelNode(ui), ToggledTo(SelNode(ui)), TRUE)
  /\ UNCHANGED <<menu, K, file, term, help, dialogs>>

(* n, m, y: _set_sel_node_tri_val                                          *)
SetTri(v) ==
  /\ OnMain
  /\ IsItem(K.node[SelNode(ui)]) /\ v \in AssignableAt(W, SelNode(ui))
  /\ SetVal(SelNode(ui), v, FALSE)
  /\ UNCHANGED <<menu, K, file, term, help, dialogs>>

Leave ==
  /\ OnMain /\ ui.menu # Top
  /\ \E shown \in {ShownInParent(seen, ui)} : ShowMain(LeaveMenu(ui, shown))

ToggleAll ==
  /\ OnMain /\ Uses("all")
  /\ \E shown \in {ShownNodes(seen, ~ui.all, ui.menu)} : ShowMain(ToggleShowAll(ui, shown))

ToggleHelp ==
  /\ OnMain /\ Uses("resize")
  /\ help' = ~help
  /\ ui' = [ui EXCEPT !.cur = Resized(@, MainHeight(term, help'))]
  /\ UNCHANGED <<menu, K, values, term, dialogs>>

-------------------------------------------------------------------------------
(* A resize, keys that edit, escape.                                      *)
Resize(h) ==
  /\ Running /\ Uses("resize") /\ h # term
  /\ ui' = [ui EXCEPT !.cur = MainResized(h)]
  /\ ResizeTo(h)
  /\ UNCHANGED <<menu, K, values, over>>

Type ==
  /\ OnlyDialogs /\ EditKey
  /\ Last(screens').box.len <= LongestText

Escape == OnlyDialogs /\ CloseDialog

(* What is typed is a value, checked by _check_valid: in the active range. *)
EnterValue(v) ==
  /\ OnTop("value")
  /\ LET n == Last(screens).node
         s == Item(W, n)
         range == ActiveRange(W, s)
     IN  /\ ValidFor(K.sym[s].type, v)
         /\ K.sym[s].type = "int" /\ range.on => v \in range.low .. range.high
         /\ SetVal(n, v, FALSE)
  /\ screens' = Front(screens)
  /\ UNCHANGED <<menu, K, file, term, help, over>>

(* _load_dialog.  A file that cannot be read leaves the dialog open.       *)
OpenLoad ==
  /\ OnMain /\ Uses("load")
  /\ OnlyDialogs /\ Open([kind |-> IF changed THEN "confirm" ELSE "load", box |-> BoxOf(0, Width)])

ConfirmLoad == OnlyDialogs /\ Confirm

LoadFileKeepsShown(lines) ==  \* mutant: the display is as it was
  /\ OnTop("load")
  /\ mem' = LoadConfig(K, mem, lines, TRUE)
  /\ attrs' = WorldOf(K, mem').cache
  /\ seen' = VisibleNodes(NewW)
  /\ file' = lines
  /\ changed' = NeedsSave(NewW, mem')
  /\ screens' = <<>>
  /\ UNCHANGED <<menu, K, ui, term, help, over>>

LoadFileHides(lines) ==  \* mutant: show-all mode is not turned on
  /\ OnTop("load")
  /\ mem' = LoadConfig(K, mem, lines, TRUE)
  /\ attrs' = WorldOf(K, mem').cache
  /\ seen' = VisibleNodes(NewW)
  /\ file' = lines
  /\ changed' = NeedsSave(NewW, mem')
  /\ ui' = UpdateMenu(seen', ui)
  /\ screens' = <<>>
  /\ UNCHANGED <<menu, K, term, help, over>>

LoadFile(lines) ==
  /\ OnTop("load")
  /\ mem' = LoadConfig(K, mem, lines, TRUE)
  /\ attrs' = WorldOf(K, mem').cache
  /\ seen' = VisibleNodes(NewW)
  /\ file' = lines
  /\ changed' = NeedsSave(NewW, mem')
  /\ \E hidden \in {~InList(ShownNodes(seen', ui.all, ui.menu), SelNode(ui))} :
     \E u \in {[ui EXCEPT !.all = @ \/ hidden]} : ui' = UpdateMenu(seen', u)
  /\ screens' = <<>>
  /\ UNCHANGED <<menu, K, term, help, over>>

(* _save_dialog for the configuration.  (A minimal configuration goes to   *)
(* another file and changes nothing here.)                                 *)
OpenSave ==
  /\ OnMain /\ Uses("load")
  /\ OnlyDialogs /\ Open([kind |-> "save", box |-> BoxOf(0, Width)])

SaveFile ==
  /\ OnTop("save")
  /\ file' = ConfigContents(W)
  /\ changed' = FALSE
  /\ screens' = <<>>
  /\ UNCHANGED <<menu, K, mem, attrs, seen, ui, term, help, over>>

(* _quit_dialog *)
Quit ==
  /\ OnMain
  /\ IF changed THEN OnlyDialogs /\ Open([kind |-> "quit"])
     ELSE /\ over' = "unchanged"
          /\ UNCHANGED <<menu, K, values, ui, term, help, screens>>

AnswerQuit(save) ==
  /\ OnTop("quit")
  /\ over' = IF save THEN "saved" ELSE "discarded"
  /\ file' = IF save THEN ConfigContents(W) ELSE file
  /\ UNCHANGED <<menu, K, mem, attrs, seen, changed, ui, term, help, screens>>

-------------------------------------------------------------------------------
(* _info_dialog; / opens the jump-to dialog, or goes back to it.  How far  *)
(* the text is scrolled is left out.                                       *)
OpenInfo == OnMain /\ Uses("jump") /\ OnlyDialogs /\ Open([kind |-> "info"])

FromJump == Len(screens) > 1 /\ screens[Len(screens) - 1].kind = "jump"

Close ==
  /\ ui' = [ui EXCEPT !.cur = MainRevealed]
  /\ CloseFullscreen
  /\ UNCHANGED <<menu, K, values, over>>

CloseInfo == OnTop("info") /\ Close

(* _jump_to_dialog.  An empty search finds all nodes: symbols, choices,    *)
(* menus, comments.                                                        *)
Searchable ==
  LET Kind(kind) == SelectSeq([n \in DOMAIN K.node |-> n],
                              LAMBDA n : n # Top /\ K.node[n].kind = kind)
  IN  Kind("symbol") \o Kind("choice") \o Kind("menu") \o Kind("comment")

Found(text, nodes) ==
  IF text = 0 THEN Searchable ELSE SelectSeq(Searchable, LAMBDA n : n \in nodes)

JumpScreen ==
  [kind |-> "jump", box |-> BoxOf(0, Width), matches |-> Found(0, {}),
   cur |-> MatchCursor(Found(0, {}))]

OpenJump ==
  /\ \/ OnMain /\ Uses("jump")
     \/ OnTop("info") /\ ~FromJump
  /\ OnlyDialogs /\ Open(JumpScreen)

InfoBackToJump == OnTop("info") /\ FromJump /\ Close

Search ==
  /\ OnTop("jump")
  /\ \E b \in EditText(Last(screens).box, Width), nodes \in Searches :
       b.len <= LongestText /\ OnlyDialogs /\ TypeSearch(b, Found(b.len, nodes))

MoveInMatches ==
  /\ OnlyDialogs /\ SelectMatch
  /\ Last(screens').matches = <<>> => Last(screens').cur.sel \in -MaxBlind .. MaxBlind

InfoOfMatch ==
  /\ OnTop("jump") /\ Last(screens).matches # <<>>
  /\ OnlyDialogs /\ Open([kind |-> "info"])

(* Return jumps to the match, and closes the dialogs below.                *)
Jump ==
  /\ OnTop("jump") /\ Last(screens).matches # <<>>
  /\ \E n \in {Last(screens).matches[Last(screens).cur.sel + 1]} :
     \E all \in {ui.all \/ ~InList(ShownNodes(seen, ui.all, JumpMenu(n)), JumpEntry(n))} :
     \E shown \in {ShownNodes(seen, all, JumpMenu(n))} :
     \E there \in {Jumped(n, all, shown)} :
     \E u \in {AllAgain(n, there)} :
     \E selected \in {IF JumpsInto(n) THEN SelectedNodes(n, u.shown) ELSE <<>>} :
     \E centered \in {CenteredAt(u, selected)} : ui' = ResizeMain(centered)
  /\ screens' = <<>>
  /\ UNCHANGED <<menu, K, values, term, help, over>>

CancelJump == OnTop("jump") /\ Close

-------------------------------------------------------------------------------
Next ==
  \/ Select \/ Enter \/ OpenValue \/ Toggle \/ Leave \/ ToggleAll \/ ToggleHelp
  \/ \E v \in 0 .. 2 : SetTri(v)
  \/ \E h \in Terminals : Resize(h)
  \/ Type \/ Escape
  \/ \E v \in Numbers : EnterValue(v)
  \/ OpenLoad \/ ConfirmLoad \/ OpenSave \/ SaveFile \/ Quit
  \/ \E lines \in Given[menu] : LoadFile(lines)
  \/ \E save \in BOOLEAN : AnswerQuit(save)
  \/ OpenInfo \/ CloseInfo
  \/ OpenJump \/ InfoBackToJump \/ Search \/ MoveInMatches \/ InfoOfMatch
  \/ Jump \/ CancelJump

Spec == Init /\ [][Next]_vars

-------------------------------------------------------------------------------
(* What is displayed is the current menu with the values as they are,      *)
(* whatever was changed, loaded, entered, left or jumped to.               *)
ShownIsCurrent == ui.raised = "" =>
  /\ ui.shown = ShownNodes(seen, ui.all, ui.menu)
  /\ ui.cur.len = Len(ui.shown)

(* A choice shows each of its symbols that is visible, and once, wherever  *)
(* it is entered, as far as one of its locations does not repeat it.       *)
ChoiceIsComplete == K.node[ui.menu].kind = "choice" /\ ui.raised = "" =>
  /\ \A i \in DOMAIN K.choice[K.node[ui.menu].item].syms :
       LET s == K.choice[K.node[ui.menu].item].syms[i]
       IN  ui.all \/ W.cache[s].vis > 0 =>
             \E j \in DOMAIN ui.shown : Item(W, ui.shown[j]) = s
  /\ \A i, j \in DOMAIN ui.shown :
       K.node[ui.shown[i]].kind = "symbol" /\ i # j
         /\ Item(W, ui.shown[i]) = Item(W, ui.shown[j]) =>
           ParentMenu(K, ui.shown[i]) = ParentMenu(K, ui.shown[j])

(* Without changes to save, the file has all that saving would write, and  *)
(* a program that starts with it gets the values as they are now: nobody   *)
(* has to be asked before quitting.                                        *)
NothingUnsaved == ~changed =>
  /\ \A s \in DOMAIN K.sym : Written(W, s) => ValueIn(file, s) = ValueOf(W, s)
  /\ \/ BeyondPrompt(W)
     \/ ValuesOf(WorldOf(K, LoadConfig(K, Fresh(K), file, TRUE))) = ValuesOf(W)

(* The exceptions there are: a value beyond its prompt that is toggled, a  *)
(* menu that is not visible itself but has an entry, which is left, and a  *)
(* symbol at several locations that vanishes at the one where it was set.  *)
RaisesOnlyIf ==
  /\ ui.raised = "toggle" => BeyondPrompt(W)
  /\ ui.raised = "leave" => ~Visible(W, ui.menu) /\ K.node[ui.menu].kind = "menu"
  /\ ui.raised = "update" =>
       Len(NodesOfItem(K, "symbol", Item(W, SelNode(ui)))) > 1

(* "Jumps to the parent menu of the current menu. Does nothing if we're in *)
(* the top menu", says _leave_menu: it fails in a menu that is hidden by   *)
(* "visible if", to whose comments the jump-to dialog goes all the same.   *)
LeaveWorks == ui.raised # "leave"
===============================================================================
