------------------------------- MODULE MCSymbols -------------------------------
(***************************************************************************)
(* Small menus for TLC: the ways in which values depend on each other, and *)
(* loops.  "Asked" has the items whose assignable values show other        *)
(* dependencies than the values themselves do.                             *)
(***************************************************************************)
EXTENDS Symbols, MCMenus

(* menus without loops                                                     *)
Tristates == Menu(<<
  Config("MODULES", "bool"),
  Implies(Config("A", "tristate"), "B", Y),
  Default(PromptIf(Config("B", "tristate"), Mod), Y, Ref("A")),
  Default(Hidden("D", "bool"), Y, Ref("B"))>>)

Selecting == Menu(<<
  Config("A", "bool"),
  Selects(DependsIf(Config("B", "bool"), Ref("A")), "D", Y),
  Default(DependsIf(Hidden("D", "bool"), Or(Ref("B"), Ref("A"))), Y, Ref("A"))>>)

Modes == Menu(<<
  Default(Hidden("MODULES", "bool"), Y, Y),
  Choice("C", "tristate", <<
    Config("X", "tristate"),
    Config("Z", "bool")>>)>>)

Picks == Menu(<<
  Config("A", "bool"),
  Default(Choice("C", "bool", <<
    DependsIf(Config("X", "bool"), Ref("A")),
    Config("Z", "bool")>>), "X", Y)>>)

Ranges == Menu(<<
  Config("A", "bool"),
  InRange(Default(Config("I", "int"), Const(1), Y), Const(3), Ref("J"), Ref("A")),
  Default(Hidden("J", "int"), Const(7), Ref("A")),
  Default(Hidden("B", "bool"), Y, Eq(Ref("I"), Const(7)))>>)

PickChain == Menu(<<
  Choice("P", "bool", <<Config("X", "bool"), Config("Z", "bool")>>),
  Default(Hidden("F", "bool"), Y, Ref("X"))>>)

(* menus with loops                                                        *)
Loop == Menu(<<
  DependsIf(Config("A", "bool"), Ref("B")),
  DependsIf(Config("B", "bool"), Ref("D")),
  Config("D", "bool"), Selects(Config("E", "bool"), "D", Ref("A"))>>)

LoopInChoice == Menu(<<
  Choice("C", "bool", <<
    Config("X", "bool"),
    DependsIf(Config("Z", "bool"), Ref("D"))>>),
  Default(Hidden("D", "bool"), Y, Ref("X"))>>)

(* B depends on the choice, and the choice on B, past its symbol.          *)
LoopPast == Menu(<<
  PromptIf(Choice("C", "bool", <<Config("X", "bool"), Menu(<<Config("B", "bool")>>)>>),
           Ref("B"))>>)

MCMenuSet ==
  {Finalize(m) : m \in {Tristates, Selecting, Modes, Picks, PickChain, Ranges,
                        Loop, LoopInChoice, LoopPast}}
MCNames == {"MODULES", "A", "B", "D", "E", "F", "I", "J", "X", "Z", "C", "P"}
MCNumbers == {5}
MCAsked == {"B", "D", "P"}
===============================================================================
