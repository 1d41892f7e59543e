------------------------------- MODULE Scrolling -------------------------------
(***************************************************************************)
(* A cursor in a list of menuconfig, in the main display and in the        *)
(* jump-to dialog: which entry is selected, and how far the list is        *)
(* scrolled, while the list and the window change.  The operators are the  *)
(* arithmetic of the handlers in menu/menuconfig.py.                       *)
(*                                                                         *)
(* A cursor c is a record: len entries, of which sel is selected and the   *)
(* entries from scroll on are shown in height rows.                        *)
(***************************************************************************)
EXTENDS EditBox, Sequences

CONSTANT Sizes  \* the lengths that lists, and the heights that windows may have

ASSUME SizesAssumption == Sizes \subseteq Nat \ {0}

(* A list has an entry: menus without one are not entered.                 *)
Cursors == [len : Sizes, sel : Nat, scroll : Nat, height : Sizes]

MaxScroll(c) == NotNeg(c.len - c.height)     \* _max_scroll

At(c, s, t) ==
  [len |-> c.len, sel |-> s, scroll |-> t, height |-> c.height]

WithLen(c, n) == [c EXCEPT !.len = n]

-------------------------------------------------------------------------------
(* _select_next_menu_entry and its siblings                                *)
SelectNext(c) ==
  IF c.sel >= c.len - 1 THEN c
  ELSE At(c, c.sel + 1,
          IF c.sel + 1 >= c.scroll + c.height - Offset /\ c.scroll < MaxScroll(c)
          THEN c.scroll + 1 ELSE c.scroll)

SelectPrev(c) ==
  IF c.sel <= 0 THEN c
  ELSE At(c, c.sel - 1,
          IF c.sel - 1 < c.scroll + Offset THEN NotNeg(c.scroll - 1) ELSE c.scroll)

SelectLast(c)  == At(c, c.len - 1, MaxScroll(c))
SelectFirst(c) == At(c, 0, 0)

(* The same in the jump-to dialog, where the list may be empty.            *)
NextMatch(c) ==
  IF c.sel = c.len - 1 THEN c
  ELSE At(c, c.sel + 1,
          IF c.sel + 1 >= c.scroll + c.height - Offset /\ c.scroll < MaxScroll(c)
          THEN c.scroll + 1 ELSE c.scroll)

PrevMatch(c) ==
  IF c.sel = 0 THEN c
  ELSE At(c, c.sel - 1,
          IF c.sel - 1 < c.scroll + Offset THEN NotNeg(c.scroll - 1) ELSE c.scroll)

(* _center_vertically *)
Centered(c) ==
  At(c, c.sel, Lower(NotNeg(c.sel - c.height \div 2), MaxScroll(c)))

(* Another list, with entry s selected, which is to stay on the same row.  *)
OnSameRow(c, n, s) ==
  At(WithLen(c, n), s, NotNeg(s - (c.sel - c.scroll)))

(* _resize_main, _resize_jump_to_dialog                                    *)
Resized(c, h) ==
  [At(c, c.sel, IF c.sel - c.scroll >= h THEN c.sel - h + 1 ELSE c.scroll)
     EXCEPT !.height = h]

(* _enter_menu: a list of n, at the first entry, or in a choice at its     *)
(* selected symbol, entry s (_select_selected_choice_sym).                 *)
First(c, n)      == At(WithLen(c, n), 0, 0)
AtEntry(c, n, s) == Centered(At(WithLen(c, n), s, 0))

(* _leave_menu: to entry s of n.  The row it had is on the stack, or it    *)
(* goes to the middle after a jump.  The window may have become smaller.   *)
LeftRowLost(c, rows, n, s) ==  \* mutant: the window is as large as it was
  IF rows = <<>> THEN AtEntry(c, n, s)
  ELSE At(WithLen(c, n), s, NotNeg(s - rows[Len(rows)]))

Left(c, rows, n, s) ==
  IF rows = <<>> THEN AtEntry(c, n, s)
  ELSE At(WithLen(c, n), s, NotNeg(s - Lower(rows[Len(rows)], c.height - 1)))

Popped(rows) == IF rows = <<>> THEN rows ELSE SubSeq(rows, 1, Len(rows) - 1)

InitCursor(n, h) == [len |-> n, sel |-> 0, scroll |-> 0, height |-> h]

(* The selected entry is an entry of the list and in the window.           *)
InWindow(c) ==
  c.scroll <= c.sel /\ c.sel < c.len /\ c.sel < c.scroll + c.height
===============================================================================
