--------------------------------- MODULE Display ---------------------------------
(***************************************************************************)
(* The windows of menuconfig, whatever the menus and the values are: the   *)
(* list of the main display, the dialogs with their input fields, and the  *)
(* jump-to dialog with a list of its own; and what keys and a resize of    *)
(* the terminal may do with them, in any order.  Module Menu says which    *)
(* entries the lists have and when what happens, and implements this.      *)
(*                                                                         *)
(* The dialogs float above the main display, except the two that fill the  *)
(* terminal.  The width of the terminal does not change.                   *)
(***************************************************************************)
EXTENDS Scrolling, SequencesExt

CONSTANTS
  Terminals,  \* the heights of the terminal
  MainHelp, ShowHelp, JumpHelp,   \* the heights of help windows
  Width       \* the width of input fields

(* _resize_main, _resize_jump_to_dialog                                    *)
AtLeastOne(n) == IF n < 1 THEN 1 ELSE n
MainHeight(h, withHelp) ==
  AtLeastOne(h - 3 - IF withHelp THEN ShowHelp ELSE MainHelp)
JumpHeight(h) == AtLeastOne(h - 4 - JumpHelp)

ASSUME TerminalsAssumption ==
  \A h \in Terminals :
    /\ MainHeight(h, TRUE) \in Sizes /\ MainHeight(h, FALSE) \in Sizes
    /\ JumpHeight(h) \in Sizes

ASSUME WidthAssumption == Width \in Nat /\ Width > Offset

VARIABLES
  ui,         \* the main display; here only its cursor, ui.cur, and
              \* _parent_screen_rows, ui.rows
  term,       \* the height of the terminal
  help,       \* _show_help
  screens     \* the dialogs that are open, the last one on top

main == <<ui.cur, ui.rows>>
displayVars == <<main, term, help, screens>>

(* A value has a node; the matches are nodes.  Without matches the row     *)
(* that is selected in the jump-to dialog is anywhere: nothing limits it,  *)
(* and nothing looks at it.                                                *)
Inputs == {"value", "load", "save"}
MatchCursors == [len : Nat, sel : Int, scroll : Int, height : Sizes]
JumpScreens ==
  [kind : {"jump"}, box : Boxes, matches : Seq(Nat), cur : MatchCursors]
Screens ==
  [kind : {"value"}, node : Nat, box : Boxes]
  \cup [kind : {"load", "save", "confirm"}, box : Boxes]
  \cup [kind : {"quit", "info"}] \cup JumpScreens

Fullscreen(s) == s.kind \in {"jump", "info"}
TopIs(kind) == screens # <<>> /\ Last(screens).kind = kind
OnlyMain == screens = <<>>
WithTop(screen) == [screens EXCEPT ![Len(screens)] = screen]

MatchCursor(matches) == InitCursor(Len(matches), JumpHeight(term))
Matches(list) == list \in Seq(Nat) /\ Len(list) \in {0} \cup Sizes

DisplayInit ==
  /\ term \in Terminals /\ help = FALSE /\ screens = <<>>
  /\ \E n \in Sizes : ui.cur = InitCursor(n, MainHeight(term, FALSE))
  /\ ui.rows = <<>>

-------------------------------------------------------------------------------
(* The main display.                                                       *)
SelectEntry ==
  /\ OnlyMain
  /\ ui'.cur \in {SelectNext(ui.cur), SelectPrev(ui.cur),
                  SelectLast(ui.cur), SelectFirst(ui.cur)}
  /\ ui'.rows = ui.rows
  /\ UNCHANGED <<term, help, screens>>

(* The entries change: values were set, by a key or in a dialog, or the    *)
(* show-all mode was toggled.                                              *)
NewEntries ==
  /\ \/ OnlyMain /\ UNCHANGED screens
     \/ (TopIs("value") \/ TopIs("load")) /\ screens' = Front(screens)
  /\ \E n \in Sizes : \E s \in 0 .. n - 1 : ui'.cur = OnSameRow(ui.cur, n, s)
  /\ ui'.rows = ui.rows
  /\ UNCHANGED <<term, help>>

EnterList ==
  /\ OnlyMain
  /\ \E n \in Sizes : \E s \in 0 .. n - 1 :
       ui'.cur \in {First(ui.cur, n), AtEntry(ui.cur, n, s)}
  /\ ui'.rows = Append(ui.rows, ui.cur.sel - ui.cur.scroll)
  /\ UNCHANGED <<term, help, screens>>

LeaveList ==
  /\ OnlyMain
  /\ \E n \in Sizes : \E s \in 0 .. n - 1 : ui'.cur = Left(ui.cur, ui.rows, n, s)
  /\ ui'.rows = Popped(ui.rows)
  /\ UNCHANGED <<term, help, screens>>

SwitchHelp ==
  /\ OnlyMain
  /\ help' = ~help
  /\ ui'.cur = Resized(ui.cur, MainHeight(term, help'))
  /\ ui'.rows = ui.rows
  /\ UNCHANGED <<term, screens>>

-------------------------------------------------------------------------------
(* A resize is for the main display, unless a dialog fills the terminal.   *)
MainResized(h) ==
  IF screens # <<>> /\ Fullscreen(Last(screens)) THEN ui.cur
  ELSE Resized(ui.cur, MainHeight(h, help))

ResizeMainOnly(h) ==  \* mutant: the jump-to dialog stays as it was
  /\ term' = h
  /\ ui'.cur = MainResized(h) /\ ui'.rows = ui.rows
  /\ UNCHANGED <<help, screens>>

ResizeTo(h) ==
  /\ term' = h
  /\ ui'.cur = MainResized(h) /\ ui'.rows = ui.rows
  /\ screens' = IF ~TopIs("jump") THEN screens
                ELSE WithTop([Last(screens) EXCEPT !.cur = Resized(@, JumpHeight(h))])
  /\ UNCHANGED help

(* A dialog opens: above the main display, or a fullscreen one above       *)
(* another one.                                                            *)
IsNew(screen) ==
  /\ screen \in Screens
  /\ screen.kind \in Inputs => screen.box = BoxOf(screen.box.len, Width)
  /\ screen.kind = "jump" =>
       /\ screen.box = BoxOf(0, Width) /\ Matches(screen.matches)
       /\ screen.cur = MatchCursor(screen.matches)

Open(screen) ==
  /\ screens # <<>> => Fullscreen(screen) /\ Fullscreen(Last(screens))
  /\ screens' = Append(screens, screen)
  /\ UNCHANGED <<main, term, help>>

(* _input_dialog: keys that edit, escape.  So is a question escaped.       *)
EditKey ==
  /\ \E kind \in Inputs : TopIs(kind)
  /\ \E b \in EditText(Last(screens).box, Width) :
       screens' = WithTop([Last(screens) EXCEPT !.box = b])
  /\ UNCHANGED <<main, term, help>>

CloseDialog ==
  /\ screens # <<>> /\ ~Fullscreen(Last(screens))
  /\ screens' = Front(screens)
  /\ UNCHANGED <<main, term, help>>

(* _load_dialog, when it has asked *)
Confirm ==
  /\ TopIs("confirm")
  /\ screens' = <<[kind |-> "load", box |-> BoxOf(0, Width)]>>
  /\ UNCHANGED <<main, term, help>>

(* A fullscreen dialog is closed: the window below may have another size.  *)
MainRevealed ==
  IF Len(screens) = 1 THEN Resized(ui.cur, MainHeight(term, help)) ELSE ui.cur

CloseFullscreen ==
  LET n == Len(screens) - 1
  IN  /\ screens # <<>> /\ Fullscreen(Last(screens))
      /\ ui'.cur = MainRevealed /\ ui'.rows = ui.rows
      /\ screens' = IF n = 0 \/ screens[n].kind # "jump" THEN Front(screens)
                    ELSE [Front(screens) EXCEPT ![n].cur = Resized(@, JumpHeight(term))]
      /\ UNCHANGED <<term, help>>

-------------------------------------------------------------------------------
(* _jump_to_dialog.  Another text has other matches, from their first one  *)
(* on.                                                                     *)
TypeSearchKeepRow(b, found) ==  \* mutant: the selected row stays
  /\ TopIs("jump") /\ Matches(found)
  /\ \E top \in {Last(screens)} :
       screens' = WithTop(
         IF b.len = top.box.len THEN [top EXCEPT !.box = b]
         ELSE [top EXCEPT !.box = b, !.matches = found, !.cur.len = Len(found)])
  /\ UNCHANGED <<main, term, help>>

TypeSearch(b, found) ==
  /\ TopIs("jump") /\ Matches(found)
  /\ \E top \in {Last(screens)} :
       screens' = WithTop(
         IF b.len = top.box.len THEN [top EXCEPT !.box = b]
         ELSE [top EXCEPT !.box = b, !.matches = found,
                          !.cur = InitCursor(Len(found), @.height)])
  /\ UNCHANGED <<main, term, help>>

SelectMatch ==
  /\ TopIs("jump")
  /\ \E c \in {Last(screens).cur} :
     \E to \in {NextMatch(c), PrevMatch(c), SelectLast(c), SelectFirst(c)} :
       screens' = WithTop([Last(screens) EXCEPT !.cur = to])
  /\ UNCHANGED <<main, term, help>>

(* The entry is centered in the window as it was before the dialog filled  *)
(* the terminal, which may have another size now.                          *)
JumpTo ==
  /\ TopIs("jump") /\ Last(screens).matches # <<>>
  /\ \E n \in Sizes : \E s \in 0 .. n - 1 :
       ui'.cur = Resized(AtEntry(ui.cur, n, s), MainHeight(term, help))
  /\ ui'.rows = <<>>
  /\ screens' = <<>>
  /\ UNCHANGED <<term, help>>

(* Which dialog opens and what is found is arbitrary.                      *)
OpenAny == screens' # <<>> /\ IsNew(Last(screens')) /\ Open(Last(screens'))

SearchAny ==
  /\ TopIs("jump") /\ TopIs("jump")'
  /\ \E b \in EditText(Last(screens).box, Width) : TypeSearch(b, Last(screens').matches)

DisplayNext ==
  \/ SelectEntry \/ NewEntries \/ EnterList \/ LeaveList \/ SwitchHelp
  \/ \E h \in Terminals : ResizeTo(h)
  \/ OpenAny \/ EditKey \/ CloseDialog \/ Confirm \/ CloseFullscreen
  \/ SearchAny \/ SelectMatch \/ JumpTo

DisplaySpec == DisplayInit /\ [][DisplayNext]_displayVars

-------------------------------------------------------------------------------
TypeOK ==
  /\ term \in Terminals /\ help \in BOOLEAN /\ screens \in Seq(Screens)
  /\ ui.cur \in Cursors /\ ui.rows \in Seq(Nat)

(* The selected entry of the main display is in its window.  Return in the *)
(* jump-to dialog finds a match under the cursor, which is in its window,  *)
(* whatever was typed ("if matches" is enough).  The cursor of a text that *)
(* is edited is in its field.                                              *)
CursorShows(s) ==
  /\ s.kind = "jump" /\ s.matches # <<>> => InWindow(s.cur)
  /\ s.kind \in Inputs \cup {"jump"} => InBox(s.box, Width)

CursorInWindow ==
  InWindow(ui.cur) /\ \A i \in DOMAIN screens : CursorShows(screens[i])

(* The window on top has the size that the terminal allows, whichever      *)
(* dialog filled the terminal when it was resized.                         *)
SizeIsCurrent ==
  /\ (\A i \in DOMAIN screens : ~Fullscreen(screens[i])) =>
       ui.cur.height = MainHeight(term, help)
  /\ TopIs("jump") => Last(screens).cur.height = JumpHeight(term)

(* Fullscreen dialogs are only among themselves, and a cursor is one in    *)
(* the list of the matches.                                                *)
StackOK == \A i \in DOMAIN screens : Len(screens) = 1 \/ Fullscreen(screens[i])

MatchesOK ==
  \A i \in DOMAIN screens : screens[i].kind = "jump" =>
    /\ screens[i].cur.len = Len(screens[i].matches)
    /\ screens[i].matches # <<>> => screens[i].cur \in Cursors

DisplayInv == TypeOK /\ StackOK /\ MatchesOK /\ CursorInWindow /\ SizeIsCurrent
===============================================================================
