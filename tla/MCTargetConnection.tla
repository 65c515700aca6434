-------------------------- MODULE MCTargetConnection --------------------------
(***************************************************************************)
(* Instances of TargetConnection for TLC: a mapping with a file and a      *)
(* register, one with two symbols on one coil, and one that takes the same *)
(* file alone for a number.  A byte has one bit, a register two.           *)
(***************************************************************************)
EXTENDS TargetConnection

CONSTANTS both, points, fileOnly,    \* mapping texts
          lamp, level, valve, alias  \* symbols

Coil     == [unit_id |-> 1, area |-> "Coil", address |-> 0]
Holding  == [unit_id |-> 1, area |-> "HoldingRegister", address |-> 0]

MCMapping == {both, points, fileOnly}
MCFiles   == [m \in MCMapping |->
               CASE m = both     -> [s \in {lamp} |-> "Bool01"]
                 [] m = fileOnly -> [s \in {lamp} |-> "Decimal"]
                 [] m = points   -> <<>>]
MCPoints  == [m \in MCMapping |->
               CASE m = both    -> [s \in {level} |-> Holding]
                 [] m = points  -> [s \in {valve, alias} |-> Coil]
                 [] m = fileOnly -> <<>>]
MCPathOf  == [s \in {lamp} |-> "io/lamp"]

MCTyped == {Num(1), Num(5), Num(-1)}
MCParts == {{}, {"generated", "package"}}
=============================================================================
