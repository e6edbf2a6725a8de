--------------------------- MODULE MCStateSnapshot ---------------------------
(* An instance of StateSnapshot for TLC.                                     *)
(*                                                                           *)
(* A menu or level shape chosen by `mode`.  `boss` and `hp` are read through *)
(* one managed static, `hp` depends on `boss`; `item` exists in the first    *)
(* shape and depends on `hp`, `score` exists in the second.                  *)
EXTENDS StateSnapshot

AllFields == {"mode", "boss", "hp", "item", "score"}

FieldOrder == <<"mode", "score", "boss", "hp", "item">>

FieldDependencies ==
  [f \in AllFields |-> CASE f = "hp" -> {"boss"} [] f = "item" -> {"mode", "hp"}
                         [] f = "score" -> {"mode"} [] OTHER -> {}]

OwnSlots == [f \in AllFields |-> f]

ShapeOf ==
  [f \in {"item", "score"} |->
     {[d \in {"mode"} |-> IF f = "item" THEN "menu" ELSE "level"]}]

Through == [f \in AllFields \ {"mode"} |-> IF f \in {"boss", "hp"} THEN "instance" ELSE "none"]
=============================================================================
