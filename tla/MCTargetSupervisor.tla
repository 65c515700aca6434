------------------------- MODULE MCTargetSupervisor -------------------------
(***************************************************************************)
(* Instances of TargetSupervisor for TLC.                                  *)
(***************************************************************************)
EXTENDS TargetSupervisor

CONSTANTS count, label, twin, \* state targets
          f1, f2,             \* files; twin shares the file of count
          a, b, aNewline, empty,  \* texts; aNewline is a with a line end
          motor, scratch          \* I/O symbols

MCTarget == {count, label, twin}
MCFile   == {f1, f2}
MCFileOf == [t \in MCTarget |-> IF t = label THEN f2 ELSE f1]
MCText   == {a, b, aNewline, empty}
MCTrim   == [x \in MCText |-> IF x = aNewline THEN a ELSE x]

MCSymbol      == {motor, scratch}
MCDirectionOf == [s \in MCSymbol |-> IF s = motor THEN "Output" ELSE "Memory"]

AllFeatures == {"retain_store", "watchdog", "safety_gate"}
GateOnly    == {"watchdog", "safety_gate"}
StoreOnly   == {"retain_store"}

Bool(x)    == [kind |-> "BOOL", text |-> x]
Str(x)     == [kind |-> "STRING", text |-> x]

NoTargets   == {}
Unset       == [t \in MCTarget |-> None]
OnOff       == {Bool(a), Bool(b)}
On          == {Bool(a)}

\* The retain runs: label is alone in its file, count and twin share one.
RetainInitial   == [t \in MCTarget |-> IF t = twin THEN None ELSE Bool(a)]
RetainInput     == {Bool(b), Str(aNewline)}
ClashWritten    == {count, twin}
SingleRetained  == {count}

NoInputs  == {DefaultInputs}
RunInputs == {[DefaultInputs EXCEPT !.operator_enable = TRUE, !.reset = r] : r \in BOOLEAN}
=============================================================================
