--------------------------------- MODULE Loading ---------------------------------
(***************************************************************************)
(* A Kconfig object with the user values it has, what loading a            *)
(* configuration file does to it, and what is written to such files.       *)
(*                                                                         *)
(* Quoting and malformed lines are left out.                               *)
(***************************************************************************)
EXTENDS Values

-------------------------------------------------------------------------------
(* A Kconfig object: the user values, the items with _was_set, and         *)
(* missing_syms.  "raised" says that an exception ended the last call.     *)
Fresh(k) == [user |-> NoUser(k), set |-> {}, missing |-> {}, raised |-> FALSE]

WorldOf(k, obj) == World(k, obj.user)

IsTri(k, s) == k.sym[s].type \in BoolTristate

(* set_value, from outside or for a line, and the change of _was_set.      *)
Assigned(k, obj, s, v) ==
  LET c == k.sym[s].choice
  IN  IF ~ValidFor(k.sym[s].type, v) THEN obj
      ELSE [obj EXCEPT !.user = WithValue(k, @, s, v),
              !.set = @ \cup {s} \cup (IF c # "" /\ v = 2 THEN {c} ELSE {})]

ModeAssigned(k, obj, c, v) ==
  IF ~ValidFor(k.choice[c].type, v) THEN obj
  ELSE [obj EXCEPT !.user = WithMode(k, @, c, v), !.set = @ \cup {c}]

(* A line of a file being loaded.  The mode of a choice follows from the   *)
(* values of its symbols.  An item that was set has its user value shown   *)
(* in a message; TRI_TO_STR knows no value None.                           *)
LoadLineNoMode(k, obj, line) ==  \* mutant: the mode is not inferred
  IF line[1] \notin DOMAIN k.sym
  THEN [obj EXCEPT !.missing = @ \cup {line}] ELSE Assigned(k, obj, line[1], line[2])

LoadLine(k, obj, line) ==
  LET s == line[1]
      v == line[2]
  IN  CASE obj.raised -> obj
        [] ~obj.raised /\ s \notin DOMAIN k.sym ->
             [obj EXCEPT !.missing = @ \cup {line}]
        [] ~obj.raised /\ s \in DOMAIN k.sym ->
             LET c == k.sym[s].choice
                 in == IF IsTri(k, s) /\ ValidFor(k.sym[s].type, v) /\ c # "" /\ v > 0
                       THEN ModeAssigned(k, obj, c, v) ELSE obj
             IN  IF /\ IsTri(k, s) /\ ValidFor(k.sym[s].type, v)
                    /\ s \in obj.set /\ obj.user.sym[s] = None
                 THEN [in EXCEPT !.raised = TRUE]
                 ELSE Assigned(k, in, s, v)

(* After the lines, what no line has set is unset.                         *)
UnsetRestSymsOnly(k, obj) ==  \* mutant: choices keep their mode and selection
  [obj EXCEPT !.user.sym = [s \in DOMAIN @ |-> IF s \in obj.set THEN @[s] ELSE None]]

UnsetRest(k, obj) ==
  LET kept(i) == i \in obj.set
  IN  [obj EXCEPT
         !.user.sym  = [s \in DOMAIN @ |-> IF kept(s) THEN @[s] ELSE None],
         !.user.mode = [c \in DOMAIN @ |-> IF kept(c) THEN @[c] ELSE None],
         !.user.pick = [c \in DOMAIN @ |-> IF kept(c) THEN @[c] ELSE NoSym]]

(* _load_config *)
LoadConfig(k, obj, lines, replace) ==
  LET from == IF replace THEN [obj EXCEPT !.set = {}, !.missing = {}] ELSE obj
      to   == FoldLeft(LAMBDA o, line : LoadLine(k, o, line), from, lines)
  IN  IF replace /\ ~to.raised THEN UnsetRest(k, to) ELSE to

(* unset_values: _was_set stays.                                           *)
Unset(k, obj) == [obj EXCEPT !.user = NoUser(k)]

-------------------------------------------------------------------------------
(* What is written.                                                        *)

(* _config_contents *)
ConfigContents(w) ==
  LET written == SelectSeq(w.k.defined, LAMBDA s : Written(w, s))
  IN  [n \in DOMAIN written |-> <<written[n], ValueOf(w, written[n])>>]

(* _old_vals_contents and _autoconf_contents: n is not written.            *)
ChangesContents(w) ==
  SelectSeq(ConfigContents(w), LAMBDA l : ~(IsTri(w.k, l[1]) /\ l[2] = 0))

(* Symbol._str_default *)
StrDefault(w, s) ==
  LET r == w.k.sym[s]
      first == FirstMet(w, r.defaults, 1)
      val == IF first.pos = 0 THEN 0
             ELSE Min({ExprValue(w, r.defaults[first.pos][1]), first.cond})
      max == Max({ExprValue(w, r.rev), ExprValue(w, r.weak), val})
  IN  CASE IsTri(w.k, s) /\ r.choice # "" -> 0
        [] IsTri(w.k, s) /\ r.choice = "" ->
             IF max = 1 /\ IsBool(w, s) THEN 2 ELSE max
        [] OTHER -> IF first.pos = 0 THEN Empty ELSE Str(w, r.defaults[first.pos][1])

(* _min_config_contents: the symbols that are left out.                    *)
MinOmitsSelected(w, s) ==  \* mutant: bool or tristate, optional choice or not
  LET r == w.k.sym[s]
  IN  \/ r.choice = "" /\ w.cache[s].vis <= ExprValue(w, r.rev)
      \/ ValueOf(w, s) = StrDefault(w, s)
      \/ r.choice # "" /\ DefaultSelection(w, r.choice, 1) = s

MinOmits(w, s) ==
  LET r == w.k.sym[s]
  IN  \/ r.choice = "" /\ w.cache[s].vis <= ExprValue(w, r.rev)
      \/ ValueOf(w, s) = StrDefault(w, s)
      \/ /\ r.choice # "" /\ ~w.k.choice[r.choice].optional
         /\ DefaultSelection(w, r.choice, 1) = s
         /\ r.type = "bool" /\ ValueOf(w, s) = 2

MinConfigContents(w) == SelectSeq(ConfigContents(w), LAMBDA l : ~MinOmits(w, l[1]))

-------------------------------------------------------------------------------
ValuesOf(w) == [s \in DOMAIN w.k.sym |-> ValueOf(w, s)]

(* A symbol has a value that the user could not have given: its default is *)
(* y although its prompt allows m at most.                                 *)
BeyondPrompt(w) ==
  \E s \in DOMAIN w.k.sym :
    /\ IsTri(w.k, s) /\ w.cache[s].assignable # {}
    /\ ValueOf(w, s) \notin w.cache[s].assignable
    /\ w.k.sym[s].choice = ""

(* A file gives the symbols of a choice m, and none of them y.             *)
LoadsOnlyM(k, lines, c) ==
  /\ \E n \in DOMAIN lines : Contains(k.choice[c].syms, lines[n][1]) /\ lines[n][2] > 0
  /\ \A n \in DOMAIN lines : Contains(k.choice[c].syms, lines[n][1]) => lines[n][2] < 2
===============================================================================
