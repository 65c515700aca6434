--------------------------- MODULE MCGeneratedScan ---------------------------
(***************************************************************************)
(* An instance of GeneratedScan: located inputs and outputs of three field *)
(* buses, a retained function block with an edge input, a temporary        *)
(* variable and access paths, with bytes of two bits.                      *)
(***************************************************************************)
EXTENDS GeneratedScan

CONSTANT None

Scalar(name, at, init) ==
  [kind |-> "scalar", name |-> name, location |-> at, init |-> init]
Field(name, edge, init) == [name |-> name, edge |-> edge, init |-> init]
Path(name, path, writable) == [name |-> name, path |-> path, writable |-> writable]
Block(kind, retain, list) == [kind |-> kind, retain |-> retain, vars |-> list]

MCBlocks ==
  <<Block("VAR", FALSE, <<Scalar("sensor", "%IX0", Flag(FALSE)),
                          Scalar("motor", "%QX0", Flag(FALSE)),
                          Scalar("speed", "%MB1", Num(1))>>),
    Block("VAR", TRUE, <<[kind |-> "user", name |-> "fb", location |-> None,
                          fields |-> <<Field("in", TRUE, Flag(FALSE)),
                                       Field("count", FALSE, Num(0))>>]>>),
    Block("TEMP", FALSE, <<Scalar("temp", None, Flag(TRUE))>>),
    Block("ACCESS", FALSE, <<Path("a", <<"fb", "count">>, TRUE),
                             Path("b", <<"fb">>, FALSE),
                             Path("c", <<"%QX1">>, FALSE),
                             Path("d", <<"speed", "none">>, TRUE)>>)>>

MCLocations == <<"%IX0", "%MB1", "%QX0", "%QX1">>
MCNamed == {"%QX1"}
MCArea == [at \in {"%IX0", "%QX0", "%MB1", "%QX1"} |->
             CASE at = "%IX0" -> "I" [] at = "%MB1" -> "M" [] OTHER -> "Q"]

Bools   == {Flag(FALSE), Flag(TRUE)}
Numbers == {Num(0), Num(3)}
MCRangeOf ==
  [leaf \in {<<"sensor">>, <<"motor">>, <<"temp">>, <<"%QX1">>,
             <<"fb", "in">>, <<"fb", "in", "edge">>} |-> Bools]
  @@ [leaf \in {<<"fb", "count">>} |-> Numbers] @@ [leaf \in {<<"speed">>} |-> {Num(1), Num(3)}]

Pdo(area, byte, bit, type) ==
  [bus |-> "ethercat", area |-> area, byte |-> byte, bit |-> bit, type |-> type]
Line(key, point) == [key |-> key, point |-> point]
MCLines ==
  <<Line("%IX0", Pdo("Input", 0, 1, "BOOL")),
    None,
    Line("motor", Pdo("Output", 0, 0, "BOOL")),
    Line("%QX0", Pdo("Output", 0, 0, "BOOL")),
    Line("%QX0", Pdo("Output", 0, 1, "BOOL")),
    Line("%MB1", Pdo("Output", 1, 0, "I8")),
    Line("%QX1", [bus |-> "ros", direction |-> "Publish", name |-> "topic"])>>

MCRival == {Pdo("Output", 0, 0, "BOOL"), Pdo("Output", 2, 1, "BOOL")}
MCInputs == {<<0>>, <<2>>}
Run(motor, speed, direct, count, in) ==
  <<"motor">> :> Flag(motor) @@ <<"speed">> :> Num(speed) @@ <<"%QX1">> :> Flag(direct)
  @@ <<"fb", "count">> :> Num(count) @@ <<"fb", "in">> :> Flag(in)
  @@ <<"fb", "in", "edge">> :> Flag(in)
MCResults == {<<>>, Run(TRUE, 3, TRUE, 3, TRUE), Run(FALSE, 1, TRUE, 0, TRUE),
              Run(TRUE, 1, FALSE, 3, FALSE), <<"motor">> :> Flag(TRUE), <<"%QX1">> :> Flag(FALSE)}
AllHooks == {"io_read", "io_write", "retain_load", "retain_save", "begin_scan", "watchdog_pet",
             "end_scan"}
MCHookTables == {AllHooks}
MCOutputs == <<0, 0, 0>>
=============================================================================
