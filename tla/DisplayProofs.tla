------------------------------ MODULE DisplayProofs ------------------------------
(***************************************************************************)
(* Every cursor of menuconfig is in its window, and the window on top has  *)
(* the size that the terminal allows, for lists, matches and texts of any  *)
(* length and whatever dialogs are open while the terminal changes.        *)
(* DisplayInv is inductive: with the two properties, that the fullscreen   *)
(* dialogs are only among themselves, and that the cursor of the jump-to   *)
(* dialog is one in its list of matches, when it has any.                  *)
(***************************************************************************)
EXTENDS Display, TLAPS

-------------------------------------------------------------------------------
(***************************************************************************)
(* What the operators of Scrolling and EditBox do, for lists, windows and  *)
(* texts of any size: each keeps the cursor of a list in its window, and a *)
(* key brings the cursor of an input field into view, for fields wider     *)
(* than the scroll offset, also when the field had become smaller.         *)
(***************************************************************************)
Good(c) == c \in Cursors /\ InWindow(c)

(* The fields of a cursor are numbers.                                     *)
LEMMA Fields ==
  ASSUME NEW c, Good(c)
  PROVE  /\ c \in Cursors /\ c.len \in Nat /\ c.sel \in Nat
         /\ c.scroll \in Nat /\ c.height \in Nat /\ c.height > 0
         /\ c.scroll <= c.sel /\ c.sel < c.len /\ c.sel < c.scroll + c.height
<1>1. c \in Cursors /\ c.len \in Sizes /\ c.height \in Sizes
      /\ c.sel \in Nat /\ c.scroll \in Nat
  BY DEF Good, Cursors
<1>2. \A n \in Sizes : n \in Nat /\ n > 0
  BY OffsetAssumption, SizesAssumption
<1>3. c.len \in Nat /\ c.height \in Nat /\ c.height > 0
  BY <1>1, <1>2
<1>4. c.scroll <= c.sel /\ c.sel < c.len /\ c.sel < c.scroll + c.height
  BY DEF Good, InWindow
<1> QED
  BY <1>1, <1>3, <1>4

(* When sel and scroll are set, only numbers are to be compared.           *)
LEMMA AtGood ==
  ASSUME NEW c \in Cursors, NEW s \in Nat, NEW t \in Nat,
         t <= s, s < c.len, s < t + c.height
  PROVE  Good(At(c, s, t))
BY DEF Good, Cursors, InWindow, At

LEMMA WithLenCursor ==
  ASSUME NEW c, Good(c), NEW n \in Sizes
  PROVE  /\ WithLen(c, n) \in Cursors /\ n \in Nat
         /\ WithLen(c, n).len = n /\ WithLen(c, n).height = c.height
BY OffsetAssumption, SizesAssumption DEF Good, Cursors, WithLen

(* The four movements keep the cursor in the window (_select_*_menu_entry) *)
LEMMA SelectKeeps ==
  ASSUME NEW c, Good(c),
         NEW d \in {SelectNext(c), SelectPrev(c), SelectLast(c), SelectFirst(c)}
  PROVE  Good(d)
<1>0. Offset \in Nat
  BY OffsetAssumption, SizesAssumption
<1>1. CASE d = SelectNext(c)
  BY <1>0, <1>1, Fields, AtGood DEF SelectNext, MaxScroll, NotNeg
<1>2. CASE d = SelectPrev(c)
  BY <1>0, <1>2, Fields, AtGood DEF SelectPrev, NotNeg
<1>3. CASE d = SelectLast(c)
  BY <1>3, Fields, AtGood DEF SelectLast, MaxScroll, NotNeg
<1>4. CASE d = SelectFirst(c)
  BY <1>4, Fields, AtGood DEF SelectFirst
<1> QED
  BY <1>1, <1>2, <1>3, <1>4

(* With an entry, the movements of the jump-to dialog are those of the     *)
(* main display ("Logic duplication", says the comment).                   *)
THEOREM MatchesLikeEntries ==
  ASSUME NEW c, Good(c)
  PROVE  NextMatch(c) = SelectNext(c) /\ PrevMatch(c) = SelectPrev(c)
BY Fields DEF NextMatch, PrevMatch, SelectNext, SelectPrev

(* _center_vertically brings any entry into the window.                    *)
LEMMA CenteredScroll ==
  ASSUME NEW n \in Nat, NEW h \in Nat, NEW s \in Nat, s < n, h > 0,
         NEW t, t = Lower(NotNeg(s - h \div 2), NotNeg(n - h))
  PROVE  t \in Nat /\ t <= s /\ s < t + h
<1>1. h \div 2 \in Nat /\ h \div 2 < h
  OBVIOUS
<1> QED
  BY <1>1 DEF Lower, NotNeg

LEMMA AtEntryKeeps ==
  ASSUME NEW c, Good(c), NEW n \in Sizes, NEW s \in 0 .. n - 1
  PROVE  Good(AtEntry(c, n, s))
<1> DEFINE at == At(WithLen(c, n), s, 0)
           t  == Lower(NotNeg(s - c.height \div 2), NotNeg(n - c.height))
<1>1. n \in Nat /\ s \in Nat /\ s < n /\ c.height \in Nat /\ c.height > 0
  BY Fields, WithLenCursor
<1>2. at \in Cursors /\ at.len = n /\ at.sel = s /\ at.height = c.height
  <2>1. at = [len |-> n, sel |-> s, scroll |-> 0, height |-> c.height]
    BY WithLenCursor DEF At
  <2>2. c.height \in Sizes
    BY Fields DEF Cursors
  <2> QED
    BY <1>1, <2>1, <2>2 DEF Cursors
<1>3. t \in Nat /\ t <= s /\ s < t + c.height
  BY <1>1, CenteredScroll
<1>4. AtEntry(c, n, s) = At(at, s, t)
  BY <1>2 DEF AtEntry, Centered, MaxScroll
<1> HIDE DEF at, t
<1>5. Good(At(at, s, t))
  BY <1>1, <1>2, <1>3, AtGood
<1> QED
  BY <1>4, <1>5

(* _resize_main *)
LEMMA ResizedKeeps ==
  ASSUME NEW c, Good(c), NEW h \in Sizes
  PROVE  Good(Resized(c, h))
<1> DEFINE t == IF c.sel - c.scroll >= h THEN c.sel - h + 1 ELSE c.scroll
<1>1. t \in Nat /\ t <= c.sel /\ c.sel < t + h /\ h \in Nat
  BY Fields, OffsetAssumption, SizesAssumption
<1>2. Resized(c, h) = [len |-> c.len, sel |-> c.sel, scroll |-> t, height |-> h]
  <2>1. At(c, c.sel, t) = [len |-> c.len, sel |-> c.sel, scroll |-> t, height |-> c.height]
    BY DEF At
  <2>2. Resized(c, h) = [At(c, c.sel, t) EXCEPT !.height = h]
    BY DEF Resized
  <2> HIDE DEF t
  <2> QED
    BY <2>1, <2>2
<1>3. c.len \in Sizes /\ c.sel \in Nat /\ c.sel < c.len
  BY Fields DEF Cursors
<1> HIDE DEF t
<1>4. Resized(c, h) \in Cursors
  BY <1>1, <1>2, <1>3 DEF Cursors
<1>5. InWindow(Resized(c, h))
  BY <1>1, <1>2, <1>3 DEF InWindow
<1> QED
  BY <1>4, <1>5 DEF Good

(* _update_menu, _toggle_show_all                                          *)
LEMMA OnSameRowKeeps ==
  ASSUME NEW c, Good(c), NEW n \in Sizes, NEW s \in 0 .. n - 1
  PROVE  Good(OnSameRow(c, n, s))
<1> DEFINE t == NotNeg(s - (c.sel - c.scroll))
<1>1. n \in Nat /\ s \in Nat /\ s < n
  BY WithLenCursor
<1>2. t \in Nat /\ t <= s /\ s < t + c.height
  BY <1>1, Fields DEF NotNeg
<1> HIDE DEF t
<1>3. Good(At(WithLen(c, n), s, t))
  BY <1>1, <1>2, WithLenCursor, AtGood
<1> QED
  BY <1>3 DEF OnSameRow, t

LEMMA FirstKeeps ==
  ASSUME NEW c, Good(c), NEW n \in Sizes
  PROVE  Good(First(c, n))
<1>1. n \in Nat /\ n > 0
  BY OffsetAssumption, SizesAssumption
<1> QED
  BY <1>1, Fields, WithLenCursor, AtGood DEF First

(* _leave_menu *)
LEMMA LeftKeeps ==
  ASSUME NEW c, Good(c), NEW r \in Seq(Nat), NEW n \in Sizes, NEW s \in 0 .. n - 1
  PROVE  Good(Left(c, r, n, s)) /\ Popped(r) \in Seq(Nat)
<1>1. CASE r = <<>>
  BY <1>1, AtEntryKeeps DEF Left, Popped
<1>2. CASE r # <<>>
  <2> DEFINE row == r[Len(r)]
             t == NotNeg(s - Lower(row, c.height - 1))
  <2>1. row \in Nat /\ Popped(r) \in Seq(Nat)
    BY <1>2 DEF Popped
  <2>2. n \in Nat /\ s \in Nat /\ s < n
    BY WithLenCursor
  <2> HIDE DEF row
  <2>3. t \in Nat /\ t <= s /\ s < t + c.height
    BY <2>1, <2>2, Fields DEF NotNeg, Lower
  <2> HIDE DEF t
  <2>4. Good(At(WithLen(c, n), s, t))
    BY <2>2, <2>3, WithLenCursor, AtGood
  <2> QED
    BY <1>2, <2>1, <2>4 DEF Left, t, row
<1> QED
  BY <1>1, <1>2

-------------------------------------------------------------------------------
(* A key leaves the cursor in the text.                                    *)
LEMMA EditedInText ==
  ASSUME NEW b \in Boxes, InText(b), NEW e \in Edited(b)
  PROVE  e[1] \in Nat /\ e[2] \in Nat /\ e[2] <= e[1]
<1> DEFINE n == b.len
           i == b.i
<1>1. n \in Nat /\ i \in Nat /\ i <= n
  BY DEF Boxes, InText
<1> HIDE DEF n, i
<1>2. CASE \E j \in 0 .. NotNeg(i - 1) : e = <<n - i + j, j>>
  BY <1>1, <1>2 DEF NotNeg
<1>3. CASE e \in {<<n, NotNeg(i - 1)>>, <<n, Lower(i + 1, n)>>, <<n, 0>>, <<n, n>>}
  BY <1>1, <1>3 DEF NotNeg, Lower
<1>4. CASE e \in {<<n - i + NotNeg(i - 1), NotNeg(i - 1)>>,
                  <<IF i < n THEN n - 1 ELSE n, i>>}
  BY <1>1, <1>4 DEF NotNeg
<1>5. CASE e \in {<<i, i>>, <<n - i, 0>>, <<n + 1, i + 1>>}
  BY <1>1, <1>5
<1> QED
  BY <1>2, <1>3, <1>4, <1>5 DEF Edited, n, i

(* The arithmetic of the scroll.                                           *)
LEMMA ScrollShows ==
  ASSUME NEW n \in Nat, NEW i \in Nat, NEW h \in Nat, NEW width \in Nat,
         i <= n, width > Offset,
         NEW t, t = Scrolled(n, i, h, width)
  PROVE  t \in Nat /\ t <= i /\ i < t + width
<1>0. Offset \in Nat
  BY OffsetAssumption
<1>1. CASE i < h + Offset
  BY <1>0, <1>1 DEF Scrolled, NotNeg
<1>2. CASE ~(i < h + Offset) /\ i >= h + width - Offset
  BY <1>0, <1>2 DEF Scrolled, NotNeg, Lower
<1>3. CASE ~(i < h + Offset) /\ ~(i >= h + width - Offset)
  BY <1>0, <1>3 DEF Scrolled
<1> QED
  BY <1>1, <1>2, <1>3

(* _edit_text: the cursor is in the text and in the field after every key. *)
THEOREM EditShowsCursor ==
  ASSUME NEW b \in Boxes, InText(b), NEW width \in Nat, width > Offset,
         NEW d \in EditText(b, width)
  PROVE  d \in Boxes /\ InBox(d, width)
<1>1. PICK e \in Edited(b) :
        d = [len |-> e[1], i |-> e[2],
             hscroll |-> Scrolled(e[1], e[2], b.hscroll, width)]
  BY DEF EditText
<1>2. e[1] \in Nat /\ e[2] \in Nat /\ e[2] <= e[1] /\ b.hscroll \in Nat
  BY EditedInText DEF Boxes
<1> DEFINE t == Scrolled(e[1], e[2], b.hscroll, width)
<1>3. t \in Nat /\ t <= e[2] /\ e[2] < t + width
  BY <1>2, ScrollShows
<1> HIDE DEF t
<1>4. d = [len |-> e[1], i |-> e[2], hscroll |-> t]
  BY <1>1 DEF t
<1> QED
  BY <1>2, <1>3, <1>4 DEF Boxes, InBox, InText

-------------------------------------------------------------------------------
(***************************************************************************)
(* The invariant of Display, action by action.                             *)
(***************************************************************************)
(* What holds of the main display and of one dialog.                       *)
MainOK ==
  /\ term \in Terminals /\ help \in BOOLEAN
  /\ Good(ui.cur) /\ ui.rows \in Seq(Nat)

DialogOK(s) ==
  /\ s \in Screens /\ CursorShows(s)
  /\ s.kind = "jump" => /\ s.cur.len = Len(s.matches)
                        /\ s.matches # <<>> => s.cur \in Cursors

Parts ==
  /\ MainOK /\ StackOK /\ SizeIsCurrent
  /\ screens \in Seq(Screens)
  /\ \A i \in DOMAIN screens : DialogOK(screens[i])

LEMMA InvParts == DisplayInv <=> Parts
<1>1. ASSUME screens \in Seq(Screens)
      PROVE  \A i \in DOMAIN screens : screens[i] \in Screens
  BY <1>1
<1> QED
  BY <1>1 DEF Parts, DisplayInv, TypeOK, MatchesOK, CursorInWindow, MainOK, DialogOK,
              Good

LEMMA InvPartsNext == DisplayInv' <=> Parts'
BY InvParts, PTL

LEMMA SizesNat == \A n \in Sizes : n \in Nat /\ n > 0
BY SizesAssumption

LEMMA HeightsInSizes ==
  ASSUME NEW h \in Terminals, NEW withHelp \in BOOLEAN
  PROVE  MainHeight(h, withHelp) \in Sizes /\ JumpHeight(h) \in Sizes
BY TerminalsAssumption

(* Only a resize changes the height of a cursor.                           *)
LEMMA SameHeight ==
  ASSUME NEW c, Good(c), NEW r, NEW n \in Sizes, NEW s
  PROVE  /\ \A d \in {SelectNext(c), SelectPrev(c), SelectLast(c), SelectFirst(c)} :
              d.height = c.height /\ d.len = c.len
         /\ OnSameRow(c, n, s).height = c.height
         /\ First(c, n).height = c.height
         /\ AtEntry(c, n, s).height = c.height
         /\ Left(c, r, n, s).height = c.height
<1>1. \A x, y : At(c, x, y).height = c.height /\ At(c, x, y).len = c.len
  BY DEF At
<1>2. \A x, y : At(WithLen(c, n), x, y).height = c.height
  BY WithLenCursor DEF At
<1>3. AtEntry(c, n, s).height = c.height
  BY <1>2 DEF AtEntry, Centered, At
<1> QED
  BY <1>1, <1>2, <1>3 DEF SelectNext, SelectPrev, SelectLast, SelectFirst, OnSameRow,
                          First, Left

LEMMA ResizedHeight ==
  ASSUME NEW c, NEW h
  PROVE  Resized(c, h).height = h /\ Resized(c, h).len = c.len
BY DEF Resized, At

-------------------------------------------------------------------------------
(* The main display alone changes, and has the height it should have.      *)
LEMMA MainChanges ==
  ASSUME DisplayInv, OnlyMain, screens' = screens, MainOK',
         ui'.cur.height = MainHeight(term', help')
  PROVE  DisplayInv'
BY InvParts, InvPartsNext DEF Parts, OnlyMain, StackOK, SizeIsCurrent, TopIs

LEMMA InitInv == DisplayInit => DisplayInv
<1> SUFFICES ASSUME DisplayInit PROVE DisplayInv
  OBVIOUS
<1>1. PICK n \in Sizes : ui.cur = InitCursor(n, MainHeight(term, FALSE))
  BY DEF DisplayInit
<1>2. MainHeight(term, FALSE) \in Sizes
  BY HeightsInSizes DEF DisplayInit
<1>3. MainOK
  <2>1. Good(ui.cur) /\ ui.rows \in Seq(Nat)
    <3> DEFINE h == MainHeight(term, FALSE)
    <3>1. n \in Nat /\ n > 0 /\ h \in Nat /\ h > 0
      BY <1>2, SizesNat
    <3>2. ui.cur = [len |-> n, sel |-> 0, scroll |-> 0, height |-> h] /\ h \in Sizes
      BY <1>1, <1>2 DEF InitCursor
    <3> HIDE DEF h
    <3>3. Good(ui.cur)
      BY <3>1, <3>2 DEF Good, Cursors, InWindow
    <3>4. ui.rows = <<>>
      BY DEF DisplayInit
    <3> QED
      BY <3>3, <3>4
  <2>2. help \in BOOLEAN
    BY Zenon DEF DisplayInit
  <2> QED
    BY <2>1, <2>2 DEF DisplayInit, MainOK
<1>4. StackOK /\ SizeIsCurrent /\ screens = <<>>
  <2>1. ui.cur.height = MainHeight(term, FALSE)
    BY <1>1 DEF InitCursor
  <2>2. ui.cur.height = MainHeight(term, help)
    BY <2>1, Zenon DEF DisplayInit
  <2>3. screens = <<>>
    BY DEF DisplayInit
  <2> QED
    BY <2>2, <2>3 DEF StackOK, SizeIsCurrent, TopIs
<1> QED
  BY <1>3, <1>4, InvParts DEF Parts

(* Without a fullscreen dialog the main display has its height.            *)
LEMMA OnlyMainHeight ==
  ASSUME DisplayInv, OnlyMain
  PROVE  ui.cur.height = MainHeight(term, help) /\ MainOK
BY InvParts DEF Parts, OnlyMain, SizeIsCurrent

LEMMA SelectEntryKeeps == DisplayInv /\ SelectEntry => DisplayInv'
<1> SUFFICES ASSUME DisplayInv, SelectEntry PROVE DisplayInv'
  OBVIOUS
<1>1. OnlyMain /\ Good(ui.cur) /\ MainOK
  BY InvParts DEF Parts, SelectEntry, MainOK
<1>2. Good(ui'.cur) /\ ui'.cur.height = ui.cur.height
  <2>1. PICK n : n \in Sizes
    BY <1>1 DEF Good, Cursors
  <2> QED
    BY <1>1, <2>1, SelectKeeps, SameHeight DEF SelectEntry
<1>3. MainOK'
  BY <1>1, <1>2 DEF MainOK, SelectEntry
<1> QED
  BY <1>1, <1>2, <1>3, MainChanges, OnlyMainHeight DEF SelectEntry

LEMMA EnterListKeeps == DisplayInv /\ EnterList => DisplayInv'
<1> SUFFICES ASSUME DisplayInv, EnterList PROVE DisplayInv'
  OBVIOUS
<1>1. OnlyMain /\ Good(ui.cur) /\ MainOK
  BY InvParts DEF Parts, EnterList, MainOK
<1>2. Good(ui'.cur) /\ ui'.cur.height = ui.cur.height
  <2>0. PICK n \in Sizes : \E s \in 0 .. n - 1 :
               ui'.cur \in {First(ui.cur, n), AtEntry(ui.cur, n, s)}
    BY DEF EnterList
  <2>1. PICK s \in 0 .. n - 1 : ui'.cur \in {First(ui.cur, n), AtEntry(ui.cur, n, s)}
    BY <2>0
  <2>2. Good(First(ui.cur, n)) /\ Good(AtEntry(ui.cur, n, s))
    BY <1>1, FirstKeeps, AtEntryKeeps
  <2>3. /\ First(ui.cur, n).height = ui.cur.height
        /\ AtEntry(ui.cur, n, s).height = ui.cur.height
    BY <1>1, SameHeight
  <2> QED
    BY <2>1, <2>2, <2>3
<1>3. ui'.rows \in Seq(Nat)
  <2>1. ui.cur.sel - ui.cur.scroll \in Nat
    BY <1>1, Fields
  <2> QED
    BY <1>1, <2>1 DEF MainOK, EnterList
<1>4. MainOK'
  BY <1>1, <1>2, <1>3 DEF MainOK, EnterList
<1> QED
  BY <1>1, <1>2, <1>4, MainChanges, OnlyMainHeight DEF EnterList

LEMMA LeaveListKeeps == DisplayInv /\ LeaveList => DisplayInv'
<1> SUFFICES ASSUME DisplayInv, LeaveList PROVE DisplayInv'
  OBVIOUS
<1>1. OnlyMain /\ Good(ui.cur) /\ MainOK /\ ui.rows \in Seq(Nat)
  BY InvParts DEF Parts, LeaveList, MainOK
<1>2. PICK n \in Sizes : \E s \in 0 .. n - 1 : ui'.cur = Left(ui.cur, ui.rows, n, s)
  BY DEF LeaveList
<1>3. Good(ui'.cur) /\ ui'.rows \in Seq(Nat) /\ ui'.cur.height = ui.cur.height
  BY <1>1, <1>2, LeftKeeps, SameHeight DEF LeaveList
<1>4. MainOK'
  BY <1>1, <1>3 DEF MainOK, LeaveList
<1> QED
  BY <1>1, <1>3, <1>4, MainChanges, OnlyMainHeight DEF LeaveList

LEMMA SwitchHelpKeeps == DisplayInv /\ SwitchHelp => DisplayInv'
<1> SUFFICES ASSUME DisplayInv, SwitchHelp PROVE DisplayInv'
  OBVIOUS
<1>1. OnlyMain /\ Good(ui.cur) /\ MainOK
  BY InvParts DEF Parts, SwitchHelp, MainOK
<1>2. help' \in BOOLEAN
  BY Zenon DEF SwitchHelp
<1>3. MainHeight(term, help') \in Sizes
  BY <1>1, <1>2, HeightsInSizes DEF MainOK
<1>4. Good(ui'.cur) /\ ui'.cur.height = MainHeight(term, help')
  BY <1>1, <1>3, ResizedKeeps, ResizedHeight DEF SwitchHelp
<1>5. MainOK'
  BY <1>1, <1>2, <1>4 DEF MainOK, SwitchHelp
<1> QED
  BY <1>1, <1>4, <1>5, MainChanges DEF SwitchHelp

-------------------------------------------------------------------------------
(* The dialogs.  One is on top.                                            *)
LEMMA OnTop ==
  ASSUME DisplayInv, screens # <<>>
  PROVE  /\ Len(screens) \in Nat \ {0} /\ Len(screens) \in DOMAIN screens
         /\ Last(screens) = screens[Len(screens)] /\ DialogOK(Last(screens))
BY InvParts DEF Parts, Last

(* What kind of a dialog it is tells what its fields are.                  *)
LEMMA JumpFields ==
  ASSUME NEW s \in Screens, s.kind = "jump"
  PROVE  /\ s \in JumpScreens /\ s.box \in Boxes /\ s.matches \in Seq(Nat)
         /\ s.cur \in MatchCursors /\ s.cur.height \in Sizes
BY DEF Screens, JumpScreens, MatchCursors

LEMMA InputFields ==
  ASSUME NEW s \in Screens, s.kind \in Inputs
  PROVE  s.box \in Boxes
BY DEF Screens, JumpScreens, Inputs

(* The dialog on top is replaced by one of its kind.                       *)
LEMMA TopChanges ==
  ASSUME DisplayInv, screens # <<>>, NEW d, DialogOK(d), d.kind = Last(screens).kind,
         screens' = WithTop(d), MainOK',
         \/ Fullscreen(d)
         \/ ui'.cur.height = MainHeight(term', help'),
         d.kind = "jump" => d.cur.height = JumpHeight(term')
  PROVE  DisplayInv'
<1>1. /\ screens' \in Seq(Screens) /\ Len(screens') = Len(screens)
      /\ screens'[Len(screens)] = d
      /\ \A i \in DOMAIN screens : i # Len(screens) => screens'[i] = screens[i]
      /\ DOMAIN screens' = DOMAIN screens
  BY OnTop, InvParts DEF Parts, WithTop, DialogOK
<1>2. \A i \in DOMAIN screens' : DialogOK(screens'[i])
  BY <1>1, InvParts DEF Parts
<1>3. \A i \in DOMAIN screens' : screens'[i].kind = screens[i].kind
  BY <1>1, OnTop
<1>4. StackOK'
  BY <1>1, <1>3, InvParts DEF Parts, StackOK, Fullscreen
<1>5. Last(screens') = d /\ screens' # <<>>
  BY <1>1, OnTop DEF Last
<1>6. SizeIsCurrent'
  <2>1. TopIs("jump")' => Last(screens').cur.height = JumpHeight(term')
    BY <1>5 DEF TopIs
  <2>2. (\A i \in DOMAIN screens' : ~Fullscreen(screens'[i])) =>
           ui'.cur.height = MainHeight(term', help')
    BY <1>1, OnTop
  <2> QED
    BY <2>1, <2>2 DEF SizeIsCurrent
<1> QED
  BY <1>1, <1>2, <1>4, <1>6, InvPartsNext DEF Parts

LEMMA FrontSeq ==
  ASSUME NEW S, NEW q \in Seq(S), q # <<>>
  PROVE  /\ Front(q) \in Seq(S) /\ Len(Front(q)) = Len(q) - 1
         /\ DOMAIN Front(q) \subseteq DOMAIN q
         /\ \A i \in DOMAIN Front(q) : Front(q)[i] = q[i]
<1>1. PICK n \in Nat : n = Len(q) - 1
  OBVIOUS
<1>2. Front(q) = SubSeq(q, 1, n)
  BY <1>1 DEF Front
<1>3. /\ SubSeq(q, 1, n) \in Seq(S) /\ Len(SubSeq(q, 1, n)) = n
      /\ \A i \in 1 .. n : SubSeq(q, 1, n)[i] = q[i]
  BY <1>1
<1> QED
  BY <1>1, <1>2, <1>3

(* Without the dialog on top, and with the one below in its right size.    *)
LEMMA FrontKeeps ==
  ASSUME DisplayInv, screens # <<>>, screens' = Front(screens), MainOK'
  PROVE  /\ screens' \in Seq(Screens) /\ StackOK'
         /\ \A i \in DOMAIN screens' : DialogOK(screens'[i])
         /\ Len(screens') = Len(screens) - 1
<1>1. /\ screens' \in Seq(Screens) /\ Len(screens') = Len(screens) - 1
      /\ \A i \in DOMAIN screens' : i \in DOMAIN screens /\ screens'[i] = screens[i]
  <2>1. screens \in Seq(Screens) /\ Len(screens) \in Nat \ {0}
    BY OnTop, InvParts DEF Parts
  <2> QED
    BY <2>1, FrontSeq
<1>2. \A i \in DOMAIN screens' : Len(screens) # 1
  BY <1>1, OnTop
<1>3. StackOK'
  BY <1>1, <1>2, InvParts DEF Parts, StackOK
<1> QED
  BY <1>1, <1>3, InvParts DEF Parts

(* An input dialog is the only one.                                        *)
LEMMA ClosesToMain ==
  ASSUME DisplayInv, screens # <<>>, ~Fullscreen(Last(screens)),
         screens' = Front(screens), MainOK', term' = term, help' = help,
         ui'.cur.height = ui.cur.height
  PROVE  DisplayInv'
<1>1. Len(screens) = 1 /\ DOMAIN screens = {1}
  BY OnTop, InvParts DEF Parts, StackOK
<1>2. Len(screens') = 0 /\ screens' = <<>>
  BY <1>1, FrontKeeps
<1>3. ui.cur.height = MainHeight(term, help)
  BY <1>1, OnTop, InvParts DEF Parts, SizeIsCurrent
<1>4. SizeIsCurrent'
  BY <1>2, <1>3 DEF SizeIsCurrent, TopIs
<1> QED
  BY <1>4, FrontKeeps, InvPartsNext DEF Parts

-------------------------------------------------------------------------------
LEMMA NewEntriesKeeps == DisplayInv /\ NewEntries => DisplayInv'
<1> SUFFICES ASSUME DisplayInv, NewEntries PROVE DisplayInv'
  OBVIOUS
<1>1. Good(ui.cur) /\ MainOK
  BY InvParts DEF Parts, MainOK
<1>2. Good(ui'.cur) /\ ui'.cur.height = ui.cur.height
  <2>1. PICK n \in Sizes : \E s \in 0 .. n - 1 : ui'.cur = OnSameRow(ui.cur, n, s)
    BY DEF NewEntries
  <2> QED
    BY <1>1, <2>1, OnSameRowKeeps, SameHeight
<1>3. MainOK' /\ term' = term /\ help' = help
  BY <1>1, <1>2 DEF MainOK, NewEntries
<1>4. CASE OnlyMain /\ screens' = screens
  BY <1>2, <1>3, <1>4, MainChanges, OnlyMainHeight
<1>5. CASE (TopIs("value") \/ TopIs("load")) /\ screens' = Front(screens)
  BY <1>2, <1>3, <1>5, ClosesToMain DEF TopIs, Fullscreen
<1> QED
  BY <1>4, <1>5 DEF NewEntries

LEMMA CloseDialogKeeps == DisplayInv /\ CloseDialog => DisplayInv'
<1> SUFFICES ASSUME DisplayInv, CloseDialog PROVE DisplayInv'
  OBVIOUS
<1>1. MainOK' /\ term' = term /\ help' = help /\ ui'.cur = ui.cur
  BY InvParts DEF Parts, MainOK, CloseDialog, main
<1> QED
  BY <1>1, ClosesToMain DEF CloseDialog

(* A text that is edited keeps its cursor in the field.                    *)
LEMMA EditKeyKeeps == DisplayInv /\ EditKey => DisplayInv'
<1> SUFFICES ASSUME DisplayInv, EditKey PROVE DisplayInv'
  OBVIOUS
<1>1. /\ MainOK' /\ term' = term /\ help' = help /\ ui'.cur = ui.cur
  BY InvParts DEF Parts, MainOK, EditKey, main
<1>2. screens # <<>> /\ Last(screens).kind \in Inputs
  BY DEF EditKey, TopIs
<1>3. PICK b \in EditText(Last(screens).box, Width) :
             screens' = WithTop([Last(screens) EXCEPT !.box = b])
  BY DEF EditKey
<1> DEFINE top == Last(screens)
           d   == [top EXCEPT !.box = b]
<1>4. top \in Screens /\ CursorShows(top) /\ top.box \in Boxes /\ InText(top.box)
  BY <1>2, OnTop, InputFields DEF DialogOK, CursorShows, InBox
<1>5. b \in Boxes /\ InBox(b, Width)
  BY <1>3, <1>4, EditShowsCursor, WidthAssumption
<1> HIDE DEF top
<1>6. d \in Screens /\ d.kind = top.kind /\ d.box = b
  BY <1>2, <1>4, <1>5 DEF Screens, JumpScreens, Inputs, top
<1>7. DialogOK(d)
  BY <1>2, <1>5, <1>6 DEF DialogOK, CursorShows, Inputs, top
<1>8. Len(screens) = 1 /\ ui.cur.height = MainHeight(term, help)
  BY <1>2, OnTop, InvParts DEF Parts, StackOK, SizeIsCurrent, Inputs, Fullscreen
<1>9. screens' = WithTop(d) /\ d.kind = Last(screens).kind /\ d.kind # "jump"
  BY <1>2, <1>3, <1>6 DEF top, Inputs
<1> HIDE DEF d
<1> QED
  BY <1>1, <1>2, <1>7, <1>8, <1>9, TopChanges

(* "load" takes the place of the question.                                 *)
LEMMA ConfirmKeeps == DisplayInv /\ Confirm => DisplayInv'
<1> SUFFICES ASSUME DisplayInv, Confirm PROVE DisplayInv'
  OBVIOUS
<1> DEFINE box == BoxOf(0, Width)
           d   == [kind |-> "load", box |-> box]
<1>1. /\ MainOK' /\ term' = term /\ help' = help /\ ui'.cur = ui.cur
  BY InvParts DEF Parts, MainOK, Confirm, main
<1>2. screens' = <<d>> /\ Last(screens).kind = "confirm" /\ screens # <<>>
  BY DEF Confirm, TopIs
<1>3. box \in Boxes /\ InBox(box, Width)
  BY WidthAssumption, OffsetAssumption DEF BoxOf, Boxes, InBox, InText, NotNeg
<1> HIDE DEF box
<1>4. DialogOK(d)
  BY <1>3 DEF DialogOK, CursorShows, Screens
<1>5. ui.cur.height = MainHeight(term, help)
  BY <1>2, OnTop, InvParts DEF Parts, StackOK, SizeIsCurrent, Fullscreen
<1>6. d.kind = "load"
  OBVIOUS
<1> HIDE DEF d
<1>7. screens' \in Seq(Screens) /\ Len(screens') = 1 /\ screens'[1] = d
      /\ DOMAIN screens' = {1} /\ Last(screens') = d
  BY <1>2, <1>4 DEF DialogOK, Last
<1>8. StackOK' /\ SizeIsCurrent'
  BY <1>1, <1>5, <1>6, <1>7 DEF StackOK, SizeIsCurrent, TopIs
<1> QED
  BY <1>1, <1>4, <1>7, <1>8, InvPartsNext DEF Parts

-------------------------------------------------------------------------------
(* The list of the jump-to dialog: with another cursor for its matches it  *)
(* is as it should be.                                                     *)
LEMMA OtherCursor ==
  ASSUME NEW s, DialogOK(s), s.kind = "jump",
         NEW c \in MatchCursors, c.len = s.cur.len, Good(s.cur) => Good(c)
  PROVE  /\ DialogOK([s EXCEPT !.cur = c])
         /\ [s EXCEPT !.cur = c].kind = "jump" /\ [s EXCEPT !.cur = c].cur = c
<1> DEFINE d == [s EXCEPT !.cur = c]
<1>1. s \in JumpScreens
  BY JumpFields DEF DialogOK
<1>2. /\ d \in JumpScreens /\ d.kind = "jump" /\ d.cur = c
      /\ d.box = s.box /\ d.matches = s.matches
  BY <1>1 DEF JumpScreens
<1>3. s.matches # <<>> => Good(s.cur)
  BY DEF DialogOK, CursorShows, Good
<1> HIDE DEF d
<1>4. DialogOK(d)
  BY <1>2, <1>3 DEF DialogOK, CursorShows, Good, Screens
<1> QED
  BY <1>2, <1>4 DEF d

LEMMA ResizedMatches ==
  ASSUME NEW c \in MatchCursors, NEW h \in Sizes
  PROVE  /\ Resized(c, h) \in MatchCursors
         /\ Resized(c, h).len = c.len /\ Resized(c, h).height = h
<1> DEFINE t == IF c.sel - c.scroll >= h THEN c.sel - h + 1 ELSE c.scroll
<1>1. t \in Int
  BY SizesNat DEF MatchCursors
<1>2. Resized(c, h) = [len |-> c.len, sel |-> c.sel, scroll |-> t, height |-> h]
  BY DEF Resized, At
<1> HIDE DEF t
<1> QED
  BY <1>1, <1>2 DEF MatchCursors

(* A jump-to dialog that is resized.                                       *)
LEMMA ResizedDialog ==
  ASSUME NEW s, DialogOK(s), s.kind = "jump", NEW h \in Sizes
  PROVE  LET d == [s EXCEPT !.cur = Resized(@, h)]
         IN  DialogOK(d) /\ d.kind = "jump" /\ d.cur.height = h
<1>1. s.cur \in MatchCursors
  BY JumpFields DEF DialogOK
<1>2. /\ Resized(s.cur, h) \in MatchCursors
      /\ Resized(s.cur, h).len = s.cur.len /\ Resized(s.cur, h).height = h
  BY <1>1, ResizedMatches
<1>3. Good(s.cur) => Good(Resized(s.cur, h))
  BY ResizedKeeps
<1> QED
  BY <1>2, <1>3, OtherCursor

LEMMA ResizeToKeeps ==
  ASSUME DisplayInv, NEW h \in Terminals, ResizeTo(h)
  PROVE  DisplayInv'
<1>1. MainOK /\ Good(ui.cur) /\ term' = h /\ help' = help
  BY InvParts DEF Parts, MainOK, ResizeTo
<1>2. MainHeight(h, help) \in Sizes /\ JumpHeight(h) \in Sizes
  BY <1>1, HeightsInSizes DEF MainOK
<1>3. MainOK'
  <2>1. Good(MainResized(h))
    BY <1>1, <1>2, ResizedKeeps DEF MainResized
  <2> QED
    BY <1>1, <2>1 DEF MainOK, ResizeTo
<1>4. CASE TopIs("jump")
  <2> DEFINE d == [Last(screens) EXCEPT !.cur = Resized(@, JumpHeight(h))]
  <2>1. screens # <<>> /\ Last(screens).kind = "jump"
    BY <1>4 DEF TopIs
  <2>2. DialogOK(d) /\ d.kind = "jump" /\ d.cur.height = JumpHeight(h)
    BY <1>2, <2>1, OnTop, ResizedDialog
  <2>3. screens' = WithTop(d)
    BY <1>4 DEF ResizeTo
  <2> HIDE DEF d
  <2> QED
    BY <1>1, <1>3, <2>1, <2>2, <2>3, TopChanges DEF Fullscreen
<1>5. CASE ~TopIs("jump")
  <2>1. screens' = screens
    BY <1>5 DEF ResizeTo
  <2>2. ASSUME \A i \in DOMAIN screens : ~Fullscreen(screens[i])
        PROVE  ui'.cur.height = MainHeight(h, help)
    <3>1. screens = <<>> \/ ~Fullscreen(Last(screens))
      BY <2>2, OnTop
    <3>2. ui'.cur = Resized(ui.cur, MainHeight(h, help))
      BY <3>1 DEF ResizeTo, MainResized
    <3> QED
      BY <3>2, ResizedHeight
  <2>3. SizeIsCurrent'
    BY <1>1, <1>5, <2>1, <2>2 DEF SizeIsCurrent, TopIs
  <2> QED
    BY <1>3, <2>1, <2>3, InvParts, InvPartsNext DEF Parts, StackOK
<1> QED
  BY <1>4, <1>5

LEMMA SelectMatchKeeps == DisplayInv /\ SelectMatch => DisplayInv'
<1> SUFFICES ASSUME DisplayInv, SelectMatch PROVE DisplayInv'
  OBVIOUS
<1> DEFINE c == Last(screens).cur
<1>1. /\ MainOK' /\ term' = term /\ help' = help /\ ui'.cur = ui.cur
  BY InvParts DEF Parts, MainOK, SelectMatch, main
<1>2. TopIs("jump") /\ screens # <<>> /\ Last(screens).kind = "jump"
  BY DEF SelectMatch, TopIs
<1>3. PICK to \in {NextMatch(c), PrevMatch(c), SelectLast(c), SelectFirst(c)} :
             screens' = WithTop([Last(screens) EXCEPT !.cur = to])
  BY DEF SelectMatch
<1>4. c \in MatchCursors /\ c.height = JumpHeight(term)
  BY <1>2, OnTop, JumpFields, InvParts DEF Parts, DialogOK, SizeIsCurrent
<1> HIDE DEF c
<1>5. to \in MatchCursors /\ to.len = c.len /\ to.height = c.height
  <2>1. /\ c.len \in Nat /\ c.sel \in Int /\ c.scroll \in Int /\ c.height \in Sizes
        /\ c.height \in Nat /\ Offset \in Nat
    BY <1>4, SizesNat, OffsetAssumption DEF MatchCursors
  <2>2. \A s, t \in Int : /\ At(c, s, t) \in MatchCursors
                          /\ At(c, s, t).len = c.len /\ At(c, s, t).height = c.height
    BY <2>1 DEF At, MatchCursors
  <2>3. NotNeg(c.scroll - 1) \in Int /\ MaxScroll(c) \in Int
    BY <2>1 DEF NotNeg, MaxScroll
  <2>4. to = c \/ \E s, t \in Int : to = At(c, s, t)
    <3>1. CASE to = NextMatch(c)
      BY <2>1, <3>1 DEF NextMatch
    <3>2. CASE to = PrevMatch(c)
      BY <2>1, <2>3, <3>2 DEF PrevMatch
    <3>3. CASE to = SelectLast(c)
      BY <2>1, <2>3, <3>3 DEF SelectLast
    <3>4. CASE to = SelectFirst(c)
      BY <3>4 DEF SelectFirst
    <3> QED
      BY <1>3, <3>1, <3>2, <3>3, <3>4
  <2> QED
    BY <1>4, <2>2, <2>4
<1>6. Good(c) => Good(to)
  BY <1>3, MatchesLikeEntries, SelectKeeps
<1> DEFINE d == [Last(screens) EXCEPT !.cur = to]
<1>7. DialogOK(d) /\ d.kind = "jump" /\ d.cur = to
  BY <1>2, <1>5, <1>6, OnTop, OtherCursor DEF c
<1>8. screens' = WithTop(d)
  BY <1>3
<1> HIDE DEF d
<1> QED
  BY <1>1, <1>2, <1>4, <1>5, <1>7, <1>8, TopChanges DEF Fullscreen

(* Other matches begin with their first one, in a window of the same size. *)
LEMMA SearchAnyKeeps == DisplayInv /\ SearchAny => DisplayInv'
<1> SUFFICES ASSUME DisplayInv, SearchAny PROVE DisplayInv'
  OBVIOUS
<1> DEFINE top == Last(screens)
<1>1. PICK b \in EditText(top.box, Width) : TypeSearch(b, Last(screens').matches)
  BY DEF SearchAny
<1> DEFINE found == Last(screens').matches
           d == [top EXCEPT !.box = b, !.matches = found,
                            !.cur = InitCursor(Len(found), @.height)]
           e == [top EXCEPT !.box = b]
<1>2. /\ screens # <<>> /\ top.kind = "jump" /\ Matches(found)
      /\ screens' = WithTop(d) \/ screens' = WithTop(e)
      /\ MainOK' /\ term' = term /\ help' = help /\ ui'.cur = ui.cur
  BY <1>1, InvParts DEF Parts, MainOK, TypeSearch, main, TopIs
<1>3. DialogOK(top) /\ top.cur.height = JumpHeight(term)
  BY <1>2, OnTop, InvParts DEF Parts, SizeIsCurrent, TopIs
<1> HIDE DEF top, found
<1>4. top \in JumpScreens /\ top.cur.height \in Sizes /\ top.box \in Boxes
  BY <1>2, <1>3, JumpFields DEF DialogOK
<1>5. b \in Boxes /\ InBox(b, Width)
  BY <1>1, <1>2, <1>3, <1>4, EditShowsCursor, WidthAssumption
     DEF DialogOK, CursorShows, InBox
<1>6. DialogOK(d) /\ d.kind = "jump" /\ d.cur.height = top.cur.height
  <2> DEFINE c == InitCursor(Len(found), top.cur.height)
  <2>1. c = [len |-> Len(found), sel |-> 0, scroll |-> 0, height |-> top.cur.height]
    BY DEF InitCursor
  <2>2. found \in Seq(Nat) /\ (found # <<>> => Len(found) \in Sizes)
    BY <1>2 DEF Matches
  <2>3. c \in MatchCursors /\ c.len = Len(found) /\ c.height = top.cur.height
    BY <1>4, <2>1, <2>2 DEF MatchCursors
  <2>4. found # <<>> => c \in Cursors /\ InWindow(c)
    BY <1>4, <2>1, <2>2, SizesNat DEF Cursors, InWindow
  <2>5. d = [top EXCEPT !.box = b, !.matches = found, !.cur = c]
    BY <1>4 DEF JumpScreens
  <2> HIDE DEF c
  <2>6. /\ d \in JumpScreens /\ d.kind = "jump" /\ d.box = b /\ d.matches = found
        /\ d.cur = c
    BY <1>4, <1>5, <2>2, <2>3, <2>5 DEF JumpScreens
  <2> HIDE DEF d
  <2> QED
    BY <1>5, <2>3, <2>4, <2>6 DEF DialogOK, CursorShows, Screens
<1>7. DialogOK(e) /\ e.kind = "jump" /\ e.cur.height = top.cur.height
  <2>1. /\ e \in JumpScreens /\ e.kind = "jump" /\ e.box = b
        /\ e.matches = top.matches /\ e.cur = top.cur
    BY <1>4, <1>5 DEF JumpScreens
  <2> HIDE DEF e
  <2> QED
    BY <1>2, <1>3, <1>5, <2>1 DEF DialogOK, CursorShows, Screens
<1> HIDE DEF d, e
<1>8. Fullscreen(d) /\ Fullscreen(e)
  BY <1>6, <1>7 DEF Fullscreen
<1> QED
  BY <1>2, <1>3, <1>6, <1>7, <1>8, TopChanges DEF top

(* The main display is centered, and gets the height of the terminal.      *)
LEMMA JumpToKeeps == DisplayInv /\ JumpTo => DisplayInv'
<1> SUFFICES ASSUME DisplayInv, JumpTo PROVE DisplayInv'
  OBVIOUS
<1> DEFINE h == MainHeight(term, help)
<1>1. Good(ui.cur) /\ MainOK /\ h \in Sizes
  BY InvParts, HeightsInSizes DEF Parts, MainOK
<1>2. PICK n \in Sizes : \E s \in 0 .. n - 1 :
             ui'.cur = Resized(AtEntry(ui.cur, n, s), h)
  BY DEF JumpTo
<1> HIDE DEF h
<1>3. Good(ui'.cur) /\ ui'.cur.height = h
  BY <1>1, <1>2, AtEntryKeeps, ResizedKeeps, ResizedHeight
<1>4. MainOK' /\ term' = term /\ help' = help /\ screens' = <<>>
  BY <1>1, <1>3 DEF MainOK, JumpTo
<1>5. StackOK' /\ SizeIsCurrent'
  BY <1>3, <1>4 DEF StackOK, SizeIsCurrent, TopIs, h
<1> QED
  BY <1>4, <1>5, InvPartsNext DEF Parts

(* What opens above the main display may be anything, and above a          *)
(* fullscreen dialog another one.                                          *)
LEMMA OpenAnyKeeps == DisplayInv /\ OpenAny => DisplayInv'
<1> SUFFICES ASSUME DisplayInv, OpenAny PROVE DisplayInv'
  OBVIOUS
<1> DEFINE d == Last(screens')
<1>1. /\ MainOK' /\ term' = term /\ help' = help /\ ui'.cur = ui.cur
  BY InvParts DEF Parts, MainOK, OpenAny, Open, main
<1>2. IsNew(d) /\ Open(d)
  BY DEF OpenAny
<1> HIDE DEF d
<1>3. DialogOK(d)
  <2>1. d \in Screens
    BY <1>2 DEF IsNew
  <2>2. \A m \in Nat : BoxOf(m, Width) \in Boxes /\ InBox(BoxOf(m, Width), Width)
    BY WidthAssumption, OffsetAssumption DEF BoxOf, Boxes, InBox, InText, NotNeg
  <2>3. d.kind \in Inputs => InBox(d.box, Width)
    BY <1>2, <2>1, <2>2, InputFields DEF IsNew, Boxes
  <2>4. ASSUME d.kind = "jump"
        PROVE  /\ InBox(d.box, Width) /\ d.cur.len = Len(d.matches)
               /\ d.matches # <<>> => Good(d.cur)
    <3>1. /\ d.box = BoxOf(0, Width) /\ Matches(d.matches)
          /\ d.cur = InitCursor(Len(d.matches), JumpHeight(term))
      BY <1>2, <2>4 DEF IsNew, MatchCursor
    <3>2. JumpHeight(term) \in Sizes
      BY InvParts, HeightsInSizes DEF Parts, MainOK
    <3>3. d.matches # <<>> => Len(d.matches) \in Sizes
      BY <3>1 DEF Matches
    <3>4. d.cur = [len |-> Len(d.matches), sel |-> 0, scroll |-> 0,
                   height |-> JumpHeight(term)]
      BY <3>1 DEF InitCursor
    <3>5. d.matches # <<>> => Good(d.cur)
      BY <3>2, <3>3, <3>4, SizesNat DEF Good, Cursors, InWindow
    <3> QED
      BY <2>2, <3>1, <3>4, <3>5
  <2> QED
    BY <2>1, <2>3, <2>4 DEF DialogOK, CursorShows, Good
<1>4. /\ screens' = Append(screens, d) /\ screens \in Seq(Screens) /\ d \in Screens
      /\ screens # <<>> => Fullscreen(d) /\ Fullscreen(Last(screens))
  BY <1>2, <1>3, InvParts DEF Parts, Open, DialogOK
<1>5. /\ screens' \in Seq(Screens) /\ Len(screens') = Len(screens) + 1
      /\ screens'[Len(screens')] = d /\ DOMAIN screens' = 1 .. Len(screens')
      /\ \A i \in DOMAIN screens : screens'[i] = screens[i]
  BY <1>4
<1>6. \A i \in DOMAIN screens' : i = Len(screens') \/ i \in DOMAIN screens
  BY <1>4, <1>5
<1>7. \A i \in DOMAIN screens' : DialogOK(screens'[i])
  BY <1>3, <1>5, <1>6, InvParts DEF Parts
<1>8. StackOK'
  <2>1. CASE screens = <<>>
    BY <1>5, <2>1 DEF StackOK
  <2>2. CASE screens # <<>>
    <3>1. Fullscreen(d) /\ \A i \in DOMAIN screens : Fullscreen(screens[i])
      BY <1>4, <2>2, OnTop, InvParts DEF Parts, StackOK
    <3> QED
      BY <1>5, <1>6, <3>1 DEF StackOK
  <2> QED
    BY <2>1, <2>2
<1>9. SizeIsCurrent'
  <2>1. ASSUME \A i \in DOMAIN screens' : ~Fullscreen(screens'[i])
        PROVE  ui'.cur.height = MainHeight(term', help')
    <3>1. \A i \in DOMAIN screens : ~Fullscreen(screens[i])
      BY <1>4, <1>5, <2>1
    <3> QED
      BY <1>1, <3>1, InvParts DEF Parts, SizeIsCurrent
  <2>2. ASSUME TopIs("jump")'
        PROVE  Last(screens').cur.height = JumpHeight(term')
    <3>1. d.kind = "jump"
      BY <2>2 DEF TopIs, d
    <3>2. d.cur.height = JumpHeight(term)
      BY <1>2, <3>1 DEF IsNew, MatchCursor, InitCursor
    <3> QED
      BY <1>1, <3>2 DEF d
  <2> QED
    BY <2>1, <2>2 DEF SizeIsCurrent
<1> QED
  BY <1>1, <1>5, <1>7, <1>8, <1>9, InvPartsNext DEF Parts

(* A fullscreen dialog is closed: the main display or the jump-to dialog   *)
(* below it gets the size it may have missed.                              *)
LEMMA CloseFullscreenKeeps == DisplayInv /\ CloseFullscreen => DisplayInv'
<1> SUFFICES ASSUME DisplayInv, CloseFullscreen PROVE DisplayInv'
  OBVIOUS
<1> DEFINE n == Len(screens) - 1
           h == MainHeight(term, help)
           q == Front(screens)
<1>1. /\ screens # <<>> /\ Fullscreen(Last(screens)) /\ term' = term /\ help' = help
      /\ ui'.cur = MainRevealed /\ ui'.rows = ui.rows
  BY DEF CloseFullscreen
<1>2. /\ Good(ui.cur) /\ MainOK /\ h \in Sizes /\ JumpHeight(term) \in Sizes
      /\ screens \in Seq(Screens)
  BY InvParts, HeightsInSizes DEF Parts, MainOK
<1>3. MainOK'
  <2>1. Good(MainRevealed)
    BY <1>2, ResizedKeeps DEF MainRevealed
  <2> QED
    BY <1>1, <1>2, <2>1 DEF MainOK
<1>4. n \in Nat /\ Len(screens) = n + 1
  BY <1>1, OnTop
<1>5. /\ q \in Seq(Screens) /\ Len(q) = n /\ DOMAIN q = 1 .. n
      /\ \A i \in DOMAIN q : q[i] = screens[i] /\ DialogOK(q[i])
  <2>1. /\ q \in Seq(Screens) /\ Len(q) = Len(screens) - 1
        /\ DOMAIN q \subseteq DOMAIN screens /\ \A i \in DOMAIN q : q[i] = screens[i]
    BY <1>1, <1>2, FrontSeq
  <2> HIDE DEF q
  <2>2. \A i \in DOMAIN screens : DialogOK(screens[i])
    BY InvParts DEF Parts
  <2>3. DOMAIN q = 1 .. Len(q)
    BY <2>1
  <2> QED
    BY <2>1, <2>2, <2>3
<1>6. screens' = IF n = 0 \/ screens[n].kind # "jump" THEN q
                ELSE [q EXCEPT ![n].cur = Resized(@, JumpHeight(term))]
  BY DEF CloseFullscreen
<1> HIDE DEF q, n
<1>7. CASE n = 0
  <2>1. screens' = q
    BY <1>7, <1>6
  <2>2. screens' = <<>>
    BY <1>5, <1>7, <2>1
  <2>3. ui'.cur = Resized(ui.cur, h)
    BY <1>1, <1>4, <1>7 DEF MainRevealed
  <2> HIDE DEF h
  <2>4. Resized(ui.cur, h).height = h
    BY ResizedHeight
  <2>5. StackOK' /\ SizeIsCurrent'
    BY <1>1, <2>2, <2>3, <2>4 DEF StackOK, SizeIsCurrent, TopIs, h
  <2> QED
    BY <1>3, <2>2, <2>5, InvPartsNext DEF Parts
<1>8. CASE n # 0
  <2>1. \A i \in DOMAIN screens : Fullscreen(screens[i])
    BY <1>4, <1>8, InvParts DEF Parts, StackOK
  <2>2. /\ screens' \in Seq(Screens) /\ DOMAIN screens' = 1 .. n /\ Len(screens') = n
        /\ \A i \in DOMAIN screens' : DialogOK(screens'[i]) /\ Fullscreen(screens'[i])
        /\ screens'[n].kind = "jump" => screens'[n].cur.height = JumpHeight(term)
    <3> DEFINE d == [screens[n] EXCEPT !.cur = Resized(@, JumpHeight(term))]
    <3>0. n \in DOMAIN q /\ n \in DOMAIN screens
      BY <1>4, <1>5, <1>8
    <3>1. CASE screens[n].kind # "jump"
      <4>1. screens' = q
        BY <1>6, <3>1
      <4> QED
        BY <1>4, <1>5, <2>1, <3>0, <3>1, <4>1
    <3>2. CASE screens[n].kind = "jump"
      <4>1. screens' = [q EXCEPT ![n] = d]
        BY <1>5, <1>8, <1>6, <3>0, <3>2
      <4>2. DialogOK(d) /\ d.kind = "jump" /\ d.cur.height = JumpHeight(term)
        BY <1>2, <1>5, <3>0, <3>2, ResizedDialog
      <4>3. d \in Screens /\ Fullscreen(d)
        BY <4>2 DEF DialogOK, Fullscreen
      <4> HIDE DEF d
      <4>4. /\ screens' \in Seq(Screens) /\ Len(screens') = n /\ DOMAIN screens' = 1 .. n
            /\ screens'[n] = d
            /\ \A i \in 1 .. n : i # n => screens'[i] = q[i]
        BY <1>4, <1>5, <3>0, <4>1, <4>3
      <4> QED
        BY <1>4, <1>5, <2>1, <3>0, <4>2, <4>3, <4>4
    <3> QED
      BY <3>1, <3>2
  <2>3. StackOK'
    BY <2>2 DEF StackOK
  <2>4. Last(screens') = screens'[n] /\ n \in DOMAIN screens'
    BY <1>4, <1>8, <2>2 DEF Last
  <2>5. SizeIsCurrent'
    BY <1>1, <2>2, <2>4 DEF SizeIsCurrent, TopIs
  <2> QED
    BY <1>3, <2>2, <2>3, <2>5, InvPartsNext DEF Parts
<1> QED
  BY <1>7, <1>8

-------------------------------------------------------------------------------
LEMMA StepInv == DisplayInv /\ [DisplayNext]_displayVars => DisplayInv'
<1> SUFFICES ASSUME DisplayInv, [DisplayNext]_displayVars PROVE DisplayInv'
  OBVIOUS
<1>1. CASE SelectEntry
  BY <1>1, SelectEntryKeeps
<1>2. CASE NewEntries
  BY <1>2, NewEntriesKeeps
<1>3. CASE EnterList
  BY <1>3, EnterListKeeps
<1>4. CASE LeaveList
  BY <1>4, LeaveListKeeps
<1>5. CASE SwitchHelp
  BY <1>5, SwitchHelpKeeps
<1>6. CASE \E h \in Terminals : ResizeTo(h)
  BY <1>6, ResizeToKeeps
<1>7. CASE OpenAny
  BY <1>7, OpenAnyKeeps
<1>8. CASE EditKey
  BY <1>8, EditKeyKeeps
<1>9. CASE CloseDialog
  BY <1>9, CloseDialogKeeps
<1>10. CASE Confirm
  BY <1>10, ConfirmKeeps
<1>11. CASE CloseFullscreen
  BY <1>11, CloseFullscreenKeeps
<1>12. CASE SearchAny
  BY <1>12, SearchAnyKeeps
<1>13. CASE SelectMatch
  BY <1>13, SelectMatchKeeps
<1>14. CASE JumpTo
  BY <1>14, JumpToKeeps
<1>15. CASE UNCHANGED displayVars
  <2>1. /\ ui'.cur = ui.cur /\ ui'.rows = ui.rows /\ term' = term /\ help' = help
        /\ screens' = screens
    BY <1>15 DEF displayVars, main
  <2> QED
    BY <2>1 DEF DisplayInv, TypeOK, StackOK, MatchesOK, CursorInWindow, SizeIsCurrent,
                TopIs
<1> QED
  BY <1>1, <1>2, <1>3, <1>4, <1>5, <1>6, <1>7, <1>8, <1>9, <1>10, <1>11, <1>12,
     <1>13, <1>14, <1>15 DEF DisplayNext

LEMMA AlwaysDisplayInv == DisplaySpec => []DisplayInv
BY InitInv, StepInv, PTL DEF DisplaySpec

(* The main display and the stack of dialogs are well typed: every dialog  *)
(* has the fields of its kind, every row on the stack is a number.         *)
THEOREM TypeCorrect == DisplaySpec => []TypeOK
<1>1. DisplayInv => TypeOK
  BY DEF DisplayInv
<1> QED
  BY <1>1, AlwaysDisplayInv, PTL

(* After any sequence of keys and resizes, the selected entry of the main  *)
(* display is in its window, so is the selected match of the jump-to       *)
(* dialog, and the cursor of each text that is edited is in its field.     *)
THEOREM AlwaysInWindow == DisplaySpec => []CursorInWindow
<1>1. DisplayInv => CursorInWindow
  BY DEF DisplayInv
<1> QED
  BY <1>1, AlwaysDisplayInv, PTL

(* A window that comes back on top, or gets a resize there, has the size   *)
(* that the terminal allows now, whichever dialogs covered it while the    *)
(* terminal changed.                                                       *)
THEOREM AlwaysRightSize == DisplaySpec => []SizeIsCurrent
<1>1. DisplayInv => SizeIsCurrent
  BY DEF DisplayInv
<1> QED
  BY <1>1, AlwaysDisplayInv, PTL
===============================================================================
