--------------------------------- MODULE EditBox ---------------------------------
(***************************************************************************)
(* The input field of the dialogs of menuconfig (_edit_text): a text of    *)
(* len characters, the cursor before character i, and the first character  *)
(* that is shown, hscroll, in a field of width characters.                 *)
(***************************************************************************)
EXTENDS Integers

CONSTANT Offset     \* _SCROLL_OFFSET

ASSUME OffsetAssumption == Offset \in Nat

Boxes == [len : Nat, i : Nat, hscroll : Nat]

NotNeg(n) == IF n < 0 THEN 0 ELSE n
Lower(m, n) == IF m < n THEN m ELSE n

(* _input_dialog starts at the end of the text it is given.                *)
BoxOf(n, width) == [len |-> n, i |-> n, hscroll |-> NotNeg(n - width + 1)]

(* Length and cursor after a key: left, right, home, end, backspace,       *)
(* delete, Ctrl-K, Ctrl-U, a character, and Ctrl-W to the start of a word. *)
Edited(b) ==
  {<<b.len, NotNeg(b.i - 1)>>, <<b.len, Lower(b.i + 1, b.len)>>,
   <<b.len, 0>>, <<b.len, b.len>>,
   <<b.len - b.i + NotNeg(b.i - 1), NotNeg(b.i - 1)>>,
   <<IF b.i < b.len THEN b.len - 1 ELSE b.len, b.i>>,
   <<b.i, b.i>>, <<b.len - b.i, 0>>, <<b.len + 1, b.i + 1>>}
  \cup {<<b.len - b.i + j, j>> : j \in 0 .. NotNeg(b.i - 1)}

(* The scroll that keeps the cursor off the edges.                         *)
Scrolled(n, i, hscroll, width) ==
  IF i < hscroll + Offset THEN NotNeg(i - Offset)
  ELSE IF i >= hscroll + width - Offset
       THEN Lower(i - width + Offset + 1, NotNeg(n - width + 1)) ELSE hscroll

EditText(b, width) ==
  {[len |-> e[1], i |-> e[2], hscroll |-> Scrolled(e[1], e[2], b.hscroll, width)] :
     e \in Edited(b)}

(* The cursor is in the text, and in the field.                            *)
InText(b) == b.i <= b.len
InBox(b, width) == InText(b) /\ b.hscroll <= b.i /\ b.i < b.hscroll + width
===============================================================================
