---------------------------------- MODULE Lines ----------------------------------
(***************************************************************************)
(* A configuration file: a sequence of lines <<symbol, value>>, or Absent. *)
(* The value n of a bool or tristate is the line "# CONFIG_X is not set".  *)
(* Comments are left out.                                                  *)
(***************************************************************************)
EXTENDS Integers, SequencesExt

CONSTANTS
  None,       \* no value
  Absent      \* no such file

(* The value of a symbol in a file: its last line, None without one.       *)
ValueIn(lines, s) ==
  LET its == IF lines = Absent THEN <<>>
             ELSE SelectSeq(lines, LAMBDA l : l[1] = s)
  IN  IF its = <<>> THEN None ELSE Last(its)[2]
===============================================================================
