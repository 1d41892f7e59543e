--------------------------------- MODULE Values ---------------------------------
(***************************************************************************)
(* The values of symbols and choices (class Symbol, class Choice): how     *)
(* each cached attribute is calculated from the attributes of other items  *)
(* and from the user values, and how user values are set and unset.        *)
(*                                                                         *)
(* All formulas are about a "world" w:                                     *)
(*   w.k      the finalized menu (Kconfig!Finalize)                        *)
(*   w.user   the user values: [sym, mode, pick], where sym gives each     *)
(*            symbol's user_value, mode each choice's user_value, and      *)
(*            pick each choice's user_selection                            *)
(*   w.cache  the attributes known, for each item a record [vis, val,      *)
(*            assignable, selection]                                       *)
(* An attribute that is not known is None, and so is the result of every   *)
(* formula that reads it; what a short circuit skips is not read.          *)
(*                                                                         *)
(* The value of a bool or tristate is 0, 1 or 2.  Other values are         *)
(* numbers: int stands for int and hex, and strings are numbered in their  *)
(* order.  Empty is the empty string.                                      *)
(***************************************************************************)
EXTENDS Kconfig, Lines

Empty == -1
NoSym == ""       \* no selection, no user selection
MODULES == "MODULES"

BoolTristate == {"bool", "tristate"}

(* Read v first, then go on with F.                                        *)
Then(v, F(_)) ==
  CHOOSE r \in {IF x = None THEN None ELSE F(x) : x \in {v}} : TRUE

Greater(a, b) == Then(a, LAMBDA x : Then(b, LAMBDA y : Max({x, y})))
Lesser(a, b)  == Then(a, LAMBDA x : Then(b, LAMBDA y : Min({x, y})))

-------------------------------------------------------------------------------
(* Types.  "orig_type" is k.sym[s].type; "type" depends on the choice and  *)
(* on MODULES, which is n when it is not defined.                          *)
ModulesTri(w) ==
  IF MODULES \in DOMAIN w.k.sym
  THEN Then(w.cache[MODULES].val, LAMBDA v : v.val) ELSE 0

ChoiceIsBool(w, c) ==
  IF w.k.choice[c].type = "tristate"
  THEN Then(ModulesTri(w), LAMBDA m : m = 0) ELSE w.k.choice[c].type = "bool"

(* Choice.tri_value, the mode.                                             *)
Mode(w, c) ==
  LET least == IF w.k.choice[c].optional THEN 0 ELSE 1
      user  == w.user.mode[c]
  IN  Then(w.cache[c].vis, LAMBDA vis :
        LET v == Min({vis, IF user = None THEN least ELSE Max({least, user})})
        IN  IF v # 1 THEN v
            ELSE Then(ChoiceIsBool(w, c), LAMBDA b : IF b THEN 2 ELSE v))

(* Symbol.type is BOOL                                                     *)
IsBool(w, s) ==
  LET r == w.k.sym[s]
  IN  IF r.type # "tristate" THEN r.type = "bool"
      ELSE Then(IF r.choice = "" THEN 0 ELSE Mode(w, r.choice), LAMBDA mode :
             IF mode = 2 THEN TRUE ELSE Then(ModulesTri(w), LAMBDA m : m = 0))

-------------------------------------------------------------------------------
(* Values in expressions: tri_value, which is 0 for symbols that are not   *)
(* bool or tristate, defined or not, and str_value.                        *)
Tri(w, i) ==
  IF i \in DOMAIN w.k.choice THEN Mode(w, i)
  ELSE IF i \in DOMAIN w.k.sym /\ w.k.sym[i].type \in BoolTristate
       THEN Then(w.cache[i].val, LAMBDA v : v.val)
       ELSE 0

Str(w, e) ==
  IF e.op = "const" THEN e.val
  ELSE Then(w.cache[e.item].val, LAMBDA v : v.val)

RECURSIVE ExprValue(_, _)
ExprValue(w, e) ==
  CASE e.op = "const" -> e.val
    [] e.op = "item"  -> Tri(w, e.item)
    [] e.op = "not"   -> Then(ExprValue(w, e.arg), LAMBDA v : 2 - v)
    [] e.op = "and"   -> Then(ExprValue(w, e.left), LAMBDA v :
                           IF v = 0 THEN 0 ELSE Lesser(v, ExprValue(w, e.right)))
    [] e.op = "or"    -> Then(ExprValue(w, e.left), LAMBDA v :
                           IF v = 2 THEN 2 ELSE Greater(v, ExprValue(w, e.right)))
    [] e.op = "eq"    -> Then(Str(w, e.left), LAMBDA v :
                           Then(Str(w, e.right), LAMBDA x :
                             IF v = x THEN 2 ELSE 0))
    [] e.op = "ne"    -> Then(Str(w, e.left), LAMBDA v :
                           Then(Str(w, e.right), LAMBDA x :
                             IF v = x THEN 0 ELSE 2))

(* The first of a list of properties whose condition is met: its position  *)
(* and the value of the condition; position 0 if there is none.            *)
RECURSIVE FirstMet(_, _, _)
FirstMet(w, props, i) ==
  IF i > Len(props) THEN [pos |-> 0, cond |-> 0]
  ELSE Then(ExprValue(w, props[i][Len(props[i])]), LAMBDA v :
         IF v > 0 THEN [pos |-> i, cond |-> v] ELSE FirstMet(w, props, i + 1))

-------------------------------------------------------------------------------
(* _visibility: the upper bound of what the user can set.                  *)
PromptVisibility(w, prompts) ==
  FoldLeft(LAMBDA v, p : Greater(v, ExprValue(w, p)), 0, prompts)

Promoted(vis, isBool) ==
  IF vis # 1 THEN vis ELSE Then(isBool, LAMBDA b : IF b THEN 2 ELSE 1)

SymVisibility(w, s) ==
  LET r == w.k.sym[s]
      tristateChoice == r.choice # "" /\ w.k.choice[r.choice].type = "tristate"
  IN  Then(PromptVisibility(w, r.prompts), LAMBDA vis :
        IF tristateChoice /\ r.type # "tristate"
        THEN Then(Mode(w, r.choice), LAMBDA mode :
               IF mode # 2 THEN 0 ELSE Promoted(vis, TRUE))
        ELSE IF r.choice # "" /\ r.type = "tristate" /\ vis = 1
        THEN Then(Mode(w, r.choice), LAMBDA mode :
               IF mode = 2 THEN 0 ELSE Promoted(vis, IsBool(w, s)))
        ELSE Promoted(vis, r.type # "tristate" \/ IsBool(w, s)))

ChoiceVisibility(w, c) ==
  Then(PromptVisibility(w, w.k.choice[c].prompts), LAMBDA vis :
    Promoted(vis, ChoiceIsBool(w, c)))

-------------------------------------------------------------------------------
(* Symbol.tri_value.  The result has the value and _write_to_conf, whether *)
(* the symbol gets a line in the configuration file.                       *)
Result(val, write) == [val |-> val, write |-> write]

(* What defaults and imply give a symbol without (visible) user value.     *)
DefaultTri(w, s) ==
  LET r == w.k.sym[s]
  IN  Then(FirstMet(w, r.defaults, 1), LAMBDA d :
      Then(IF d.pos = 0 THEN 0
           ELSE Lesser(ExprValue(w, r.defaults[d.pos][1]), d.cond), LAMBDA val :
      Then(ExprValue(w, r.weak), LAMBDA weak :
      Then(IF weak = 0 THEN 0 ELSE ExprValue(w, r.dep), LAMBDA dep :
        IF dep > 0 THEN Result(Max({val, weak}), TRUE)
        ELSE Result(val, val > 0)))))

(* m is y for a bool symbol, and for one that is implied as y.             *)
PromotedTri(w, s, val) ==
  IF val # 1 THEN val
  ELSE Then(IsBool(w, s), LAMBDA b :
         IF b THEN 2
         ELSE Then(ExprValue(w, w.k.sym[s].weak), LAMBDA weak :
                IF weak = 2 THEN 2 ELSE 1))

ChoiceSymTri(w, s, vis) ==
  IF vis = 2
  THEN Then(w.cache[w.k.sym[s].choice].selection, LAMBDA sel :
         Result(IF sel = s THEN 2 ELSE 0, TRUE))
  ELSE Result(IF vis = 1 /\ w.user.sym[s] \in {1, 2} THEN 1 ELSE 0, vis > 0)

TriValue(w, s) ==
  LET r == w.k.sym[s]
  IN  Then(w.cache[s].vis, LAMBDA vis :
        IF r.choice # "" THEN ChoiceSymTri(w, s, vis)
        ELSE Then(IF vis > 0 /\ w.user.sym[s] # None
                  THEN Result(Min({w.user.sym[s], vis}), TRUE)
                  ELSE DefaultTri(w, s), LAMBDA d :
             Then(ExprValue(w, r.rev), LAMBDA rev :
             Then(IF rev = 0 THEN 0 ELSE ExprValue(w, r.dep), LAMBDA warning :
             Then(PromotedTri(w, s, Max({d.val, rev})), LAMBDA val :
               Result(val, vis > 0 \/ d.write \/ rev > 0))))))

(* Symbol.str_value of the other types: a range, a user value that is      *)
(* visible and inside it, or a default clamped to it.                      *)
Num(v) == IF v = Empty THEN 0 ELSE v

ActiveRange(w, s) ==
  LET ranges == w.k.sym[s].ranges
  IN  Then(FirstMet(w, ranges, 1), LAMBDA d :
        IF d.pos = 0 THEN [on |-> FALSE, low |-> 0, high |-> 0]
        ELSE Then(Str(w, ranges[d.pos][1]), LAMBDA low :
             Then(Str(w, ranges[d.pos][2]), LAMBDA high :
               [on |-> TRUE, low |-> Num(low), high |-> Num(high)])))

DefaultStr(w, s, vis) ==
  LET defaults == w.k.sym[s].defaults
  IN  Then(FirstMet(w, defaults, 1), LAMBDA d :
        IF d.pos = 0 THEN Result(Empty, vis > 0)
        ELSE Then(Str(w, defaults[d.pos][1]), LAMBDA val : Result(val, TRUE)))

Clamped(range, r) ==
  CASE range.on /\ Num(r.val) < range.low  -> [r EXCEPT !.val = range.low]
    [] range.on /\ Num(r.val) > range.high -> [r EXCEPT !.val = range.high]
    [] OTHER -> r

StrValue(w, s) ==
  LET user == w.user.sym[s]
  IN  Then(w.cache[s].vis, LAMBDA vis :
      Then(IF w.k.sym[s].type = "int" THEN ActiveRange(w, s)
           ELSE [on |-> FALSE, low |-> 0, high |-> 0], LAMBDA range :
        IF /\ vis > 0 /\ user # None
           /\ range.on => user \in range.low .. range.high
        THEN Result(user, TRUE)
        ELSE Then(DefaultStr(w, s, vis), LAMBDA r : Clamped(range, r))))

SymValue(w, s) ==
  LET r == w.k.sym[s]
  IN  CASE r.type = "unknown" -> Result(Empty, FALSE)
        [] r.type \in BoolTristate -> TriValue(w, s)
        [] OTHER -> Then(StrValue(w, s), LAMBDA v :
                      [v EXCEPT !.write = @ /\ ~r.auto])

-------------------------------------------------------------------------------
(* Symbol._assignable, Choice._assignable: the values a user can give.     *)
SymAssignable(w, s) ==
  LET r == w.k.sym[s]
      WeakY == Then(ExprValue(w, r.weak), LAMBDA weak : weak = 2)
      Yes == Then(IsBool(w, s), LAMBDA b : IF b THEN TRUE ELSE WeakY)
  IN  IF r.type \notin BoolTristate THEN {}
      ELSE Then(w.cache[s].vis, LAMBDA vis :
        IF vis = 0 THEN {}
        ELSE Then(ExprValue(w, r.rev), LAMBDA rev :
          CASE vis = 2 /\ r.choice # "" -> {2}
            [] rev = 2 /\ ~(vis = 2 /\ r.choice # "") -> {2}
            [] vis = 2 /\ r.choice = "" /\ rev < 2 ->
                 Then(Yes, LAMBDA b : IF b THEN {rev, 2} \ {1} ELSE rev .. 2)
            [] vis = 1 /\ rev = 0 ->
                 Then(WeakY, LAMBDA b : IF b THEN {0, 2} ELSE {0, 1})
            [] vis = 1 /\ rev = 1 -> {1}))

ChoiceAssignable(w, c) ==
  LET least == IF w.k.choice[c].optional THEN 0 ELSE 1
  IN  Then(w.cache[c].vis, LAMBDA vis :
        CASE vis = 0 -> {}
          [] vis = 1 -> least .. 1
          [] vis = 2 -> Then(ChoiceIsBool(w, c), LAMBDA b :
                          IF b THEN (least .. 2) \ {1} ELSE least .. 2))

(* Choice._selection and _get_selection_from_defaults.                     *)
RECURSIVE FirstVisible(_, _, _), DefaultSelection(_, _, _)
FirstVisible(w, syms, i) ==
  IF i > Len(syms) THEN NoSym
  ELSE Then(w.cache[syms[i]].vis, LAMBDA vis :
         IF vis > 0 THEN syms[i] ELSE FirstVisible(w, syms, i + 1))

DefaultSelection(w, c, i) ==
  LET r == w.k.choice[c]
  IN  IF i > Len(r.defaults) THEN FirstVisible(w, r.syms, 1)
      ELSE Then(ExprValue(w, r.defaults[i][2]), LAMBDA cond :
           Then(IF cond = 0 THEN 0 ELSE w.cache[r.defaults[i][1]].vis, LAMBDA vis :
             IF vis > 0 THEN r.defaults[i][1] ELSE DefaultSelection(w, c, i + 1)))

Selection(w, c) ==
  LET pick == w.user.pick[c]
  IN  Then(Mode(w, c), LAMBDA mode :
        IF mode # 2 THEN NoSym
        ELSE Then(IF pick = NoSym THEN 0 ELSE w.cache[pick].vis, LAMBDA vis :
               IF vis > 0 THEN pick ELSE DefaultSelection(w, c, 1)))

-------------------------------------------------------------------------------
(* The attributes with a cache, and their calculation.                     *)
Attributes == {"vis", "val", "assignable", "selection"}
Blank == [a \in Attributes |-> None]

AttrsOf(k, i) ==
  IF i \in DOMAIN k.sym THEN Attributes \ {"selection"}
                        ELSE Attributes \ {"val"}

Value(w, i, a) ==
  IF i \in DOMAIN w.k.sym
  THEN CASE a = "vis" -> SymVisibility(w, i)
         [] a = "val" -> SymValue(w, i)
         [] a = "assignable" -> SymAssignable(w, i)
         [] OTHER -> None
  ELSE CASE a = "vis" -> ChoiceVisibility(w, i)
         [] a = "selection" -> Selection(w, i)
         [] a = "assignable" -> ChoiceAssignable(w, i)
         [] OTHER -> None

(* All attributes, calculated from nothing.  What stays None cannot be     *)
(* calculated: the recursion of the properties does not end.               *)
RECURSIVE Settled(_)
Settled(w) ==
  LET more == [i \in DOMAIN w.cache |->
                 [a \in Attributes |->
                    IF w.cache[i][a] # None THEN w.cache[i][a] ELSE Value(w, i, a)]]
  IN  IF more = w.cache THEN w ELSE Settled([w EXCEPT !.cache = more])

World(k, user) ==
  Settled([k |-> k, user |-> user, cache |-> [i \in ItemsOf(k) |-> Blank]])

-------------------------------------------------------------------------------
(* User values.                                                            *)
NoUser(k) ==
  [sym  |-> [s \in DOMAIN k.sym |-> None],
   mode |-> [c \in DOMAIN k.choice |-> None],
   pick |-> [c \in DOMAIN k.choice |-> NoSym]]

(* The values that are valid for the type of a symbol or choice: another   *)
(* one is refused with a warning.                                          *)
ValidFor(type, v) ==
  CASE type = "bool" -> v \in {0, 2}
    [] type = "tristate" -> v \in 0 .. 2
    [] type = "int" -> v # Empty
    [] type = "string" -> TRUE
    [] OTHER -> FALSE

(* Symbol.set_value: a choice symbol set to y is picked.                   *)
WithValue(k, user, s, v) ==
  LET c == k.sym[s].choice
  IN  IF ~ValidFor(k.sym[s].type, v) THEN user
      ELSE IF c # "" /\ v = 2
      THEN [user EXCEPT !.sym[s] = v, !.pick[c] = s]
      ELSE [user EXCEPT !.sym[s] = v]

(* Choice.set_value                                                        *)
WithMode(k, user, c, v) ==
  IF ValidFor(k.choice[c].type, v) THEN [user EXCEPT !.mode[c] = v] ELSE user

(* Symbol.unset_value, Choice.unset_value                                  *)
WithoutValue(user, s) == [user EXCEPT !.sym[s] = None]
WithoutMode(user, c)  == [user EXCEPT !.mode[c] = None, !.pick[c] = NoSym]

(* Symbol.config_string: whether the symbol gets a line, and its value.    *)
Written(w, s) == w.cache[s].val.write
ValueOf(w, s) == w.cache[s].val.val
===============================================================================
