-------------------------------- MODULE MCMenus --------------------------------
(***************************************************************************)
(* How the instances for TLC write a parsed menu.                          *)
(***************************************************************************)
EXTENDS Kconfig

Plain(kind, item) ==
  [kind |-> kind, item |-> item, type |-> "unknown", prompt |-> NoPrompt,
   dep |-> Y, visible |-> Y, defaults |-> <<>>, ranges |-> <<>>,
   selects |-> <<>>, implies |-> <<>>, optional |-> FALSE, auto |-> FALSE,
   menuconfig |-> FALSE, list |-> <<>>]

(* "config s", its type with a prompt, and more of it                      *)
Hidden(s, type) == [Plain("symbol", s) EXCEPT !.type = type]
Config(s, type) == [Hidden(s, type) EXCEPT !.prompt = Y]

PromptIf(node, cond)   == [node EXCEPT !.prompt = cond]
DependsIf(node, cond)  == [node EXCEPT !.dep = cond]
Default(node, e, cond) == [node EXCEPT !.defaults = Append(@, <<e, cond>>)]
Selects(node, s, cond)  == [node EXCEPT !.selects = Append(@, <<s, cond>>)]
Implies(node, s, cond)   == [node EXCEPT !.implies = Append(@, <<s, cond>>)]
InRange(node, low, high, cond) ==
  [node EXCEPT !.ranges = Append(@, <<low, high, cond>>)]

Menu(list)   == [Plain("menu", "") EXCEPT
                   !.prompt = Y, !.menuconfig = TRUE, !.list = list]
VisibleIf(node, cond) == [node EXCEPT !.visible = cond]
If(cond, list) == [Plain("if", "") EXCEPT !.dep = cond, !.list = list]
Comment      == [Plain("comment", "") EXCEPT !.prompt = Y]
Choice(c, type, list) ==
  [Plain("choice", c) EXCEPT
     !.prompt = Y, !.type = type, !.menuconfig = TRUE, !.list = list]

(* m is written m && MODULES by the parser (_parse_factor).                *)
Mod == And(M, Ref("MODULES"))

FinalizeAll(menus) ==
  [i \in DOMAIN menus |-> CHOOSE k \in {Finalize(m) : m \in {menus[i]}} : TRUE]
===============================================================================
