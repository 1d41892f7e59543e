------------------------------ MODULE MCConfigFiles ------------------------------
(***************************************************************************)
(* Small menus for TLC, each with the tools that show what is hard about   *)
(* it: files of a choice, of defaults, and a menu that changes.            *)
(***************************************************************************)
EXTENDS ConfigFiles, MCMenus

Modules == Config("MODULES", "bool")

(* a choice whose symbols may be modules                                   *)
Modular == Menu(<<
  Modules,
  Choice("C", "tristate", <<
    Config("X", "tristate"), Config("Z", "tristate")>>)>>)

(* the same with a bool symbol first                                       *)
BoolFirst == Menu(<<
  Default(Hidden("MODULES", "bool"), Y, Y),
  Choice("C", "tristate", <<
    Config("X", "bool"), Config("Z", "tristate")>>)>>)

Optional == Menu(<<
  [Choice("C", "bool", <<Config("X", "bool"), Config("Z", "bool")>>)
     EXCEPT !.optional = TRUE],
  DependsIf(InRange(Default(Config("I", "int"), Const(1), Y), Const(1), Const(5), Y),
            Ref("Z"))>>)

(* select, imply and a default                                             *)
Defaults == Menu(<<
  Modules,
  Implies(Selects(Config("A", "tristate"), "B", Y), "D", Y),
  Config("B", "tristate"),
  Default(PromptIf(Config("D", "tristate"), Mod), Y, Ref("B"))>>)

(* a menu and the next version of it, without A                            *)
First == Menu(<<
  Config("A", "bool"),
  Default(DependsIf(Config("B", "bool"), Ref("A")), Y, Y),
  Default(Hidden("I", "int"), Const(1), Ref("B"))>>)

Second == Menu(<<Config("B", "bool")>>)

(* B still depends on A.                                                   *)
SecondMentions == Menu(<<DependsIf(Config("B", "bool"), Ref("A"))>>)

(* B selects it.                                                           *)
SecondSelects == Menu(<<Selects(Config("B", "bool"), "A", Y)>>)

MCMenuList == FinalizeAll(<<Modular, BoolFirst, Optional, Defaults, First, First, Second,
                SecondMentions, SecondSelects>>)
MCUpgrades == {<<6, 7>>, <<6, 8>>, <<6, 9>>}
MCNames == {"MODULES", "A", "B", "D", "I", "X", "Z"}
MCNumbers == {3}
MCTools == <<{"load"}, {"min"}, {"merge", "unset"}, {}, {"save", "load"}, {"build"},
             {"build"}, {"build"}, {"build"}>>

(* Files by hand: modules only, both, a symbol twice and an unknown one    *)
MCGiven == <<
  {Absent, <<<<"X", 1>>, <<"Z", 1>>>>, <<<<"X", 1>>, <<"Z", 2>>>>,
   <<<<"MODULES", 2>>, <<"Z", 2>>, <<"Z", 0>>, <<"GONE", 2>>>>},
  {Absent}, {<<<<"X", 0>>, <<"Z", 2>>, <<"I", 3>>>>}, {Absent}, {Absent}, {Absent},
  {Absent}, {Absent}, {Absent}>>
===============================================================================
