--------------------------------- MODULE MCMenu ---------------------------------
(***************************************************************************)
(* Small menus for TLC, each for what is hard about one part of the        *)
(* display.                                                                *)
(***************************************************************************)
EXTENDS Menu, MCMenus

MenuConfig(node) == [node EXCEPT !.menuconfig = TRUE]

(* An implicit submenu, which moves what is below it, and a menu to enter  *)
Nested == Menu(<<
  Config("A", "bool"),
  DependsIf(Config("B", "bool"), Ref("A")),
  Menu(<<Comment, Comment>>)>>)

(* A choice at two locations, one of them with a symbol below a symbol     *)
Located == Menu(<<
  Menu(<<Choice("C", "bool", <<
    Config("X", "bool"), DependsIf(Config("B", "bool"), Ref("X"))>>)>>),
  Choice("C", "bool", <<Config("X", "bool"), Config("Z", "bool")>>)>>)

(* A menuconfig symbol, hidden itself, with something visible in it        *)
Hiding == Menu(<<
  Default(PromptIf(MenuConfig(Config("A", "bool")), Ref("B")), Y, Y),
  DependsIf(Config("D", "bool"), Ref("A")),
  Config("B", "bool")>>)

(* A menu that is visible with A only, and its comment always              *)
VisibleWith == Menu(<<
  Config("A", "bool"), VisibleIf(Menu(<<Comment, Config("B", "bool")>>), Ref("A"))>>)

(* A symbol at two locations, the first of which may be hidden             *)
Twice == Menu(<<
  PromptIf(Config("A", "bool"), Ref("D")),
  DependsIf(Config("B", "bool"), Ref("A")),
  Config("A", "bool"),
  Config("D", "bool")>>)

(* A tristate with a value beyond its prompt                               *)
Beyond == Menu(<<
  Config("MODULES", "bool"),
  Default(PromptIf(Config("T", "tristate"), Mod), Y, Y)>>)

(* A number in a range, and what depends on it                             *)
Number == Menu(<<
  InRange(Default(Config("I", "int"), Const(4), Y), Const(1), Const(5), Y),
  DependsIf(Config("B", "bool"), Eq(Ref("I"), Const(3)))>>)

(* What can be found: a menu whose first entry is hidden, a choice whose   *)
(* second symbol is selected                                               *)
Finding == Menu(<<
  Menu(<<PromptIf(Config("B", "bool"), N), Comment>>),
  Default(Choice("C", "bool", <<Config("X", "bool"), Config("Z", "bool")>>), "Z", Y)>>)

(* A choice in mode m or y, in a file too                                  *)
Modular == Menu(<<
  Default(Hidden("MODULES", "bool"), Y, Y),
  Choice("C", "tristate", <<Config("X", "tristate"), Config("Z", "tristate")>>)>>)

MCMenuList == FinalizeAll(
  <<Nested, Located, Hiding, VisibleWith, Twice, Beyond, Number, Finding, Modular>>)

MCKeys == <<
  {"move", "resize", "all"}, {"move"}, {"move", "all", "load"},
  {"move", "all", "jump"}, {"move", "all", "load"}, {"move", "load"},
  {"move", "text", "load"}, {"jump", "resize"},
  {"move", "load"}>>

MCGiven == <<
  {}, {}, {<<>>, <<<<"B", 2>>, <<"A", 0>>>>}, {<<<<"A", 2>>, <<"B", 2>>>>},
  {<<<<"D", 2>>, <<"A", 2>>>>}, {<<<<"MODULES", 2>>, <<"T", 2>>>>},
  {<<<<"I", 3>>, <<"B", 2>>>>, <<<<"I", 9>>, <<"GONE", 2>>>>}, {},
  {<<<<"X", 1>>, <<"Z", 1>>>>}>>

MCSearches == {{}, {3, 5, 7}}
=================================================================================
