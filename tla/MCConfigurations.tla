--------------------------- MODULE MCConfigurations ---------------------------
(***************************************************************************)
(* Two resources, three instances of two programs, and a second            *)
(* configuration that is only declared: every access path to every place,  *)
(* with variables, instances and resources of the same names, and tasks,   *)
(* bindings, parameters and initial values one by one.                     *)
(***************************************************************************)
EXTENDS Configurations

N(n) == Lit(Num(n))
B(b) == Lit(Flag(b))
V(name) == Var(name)
P(path) == [k |-> "var", path |-> path]

MCNamed ==
  LET all ==
  [Level |-> [kind |-> "subrange", low |-> 1, high |-> 3, base |-> "SINT"],
   Color |-> [kind |-> "enum", values |-> <<"RED", "GREEN">>],
   Row   |-> [kind |-> "array", low |-> 2, high |-> 3, of |-> "SINT"],
   Pair  |-> [kind |-> "struct", fields |-> <<[name |-> "n", type |-> "SINT", init |-> N(2)],
                                              [name |-> "on", type |-> "BOOL", init |-> None]>>]]
  IN  all
MCFunctions == <<>>
MCFunctionBlocks ==
  LET all ==
  [Latch |-> [fields |-> <<[name |-> "q", type |-> "BOOL", kind |-> "OUT", edge |-> None, init |-> None]>>,
              body |-> <<Assign(V("q"), B(TRUE))>>]]
  IN  all

Local(name, type, kind, init) ==
  [name |-> name, type |-> type, init |-> init, kind |-> kind, retain |-> FALSE, temp |-> kind = "TEMP",
   constant |-> FALSE]
\* Drive hands its input on and toggles; Watch reads a location and writes one.
MCProgramTypes ==
  LET all ==
  [Drive |-> [vars |-> <<Local("x", "SINT", "IN", None), Local("lvl", "Level", "OUT", N(1)),
                         Local("q", "BOOL", "OUT", None), Local("y", "SINT", "OUT", None),
                         Local("s", "Pair", "VAR", None), Local("f", "Latch", "VAR", None)>>,
              body |-> <<Assign(V("y"), V("x")), Assign(V("q"), Un("NOT", V("q"))), FbCall("f", <<>>)>>],
   Watch |-> [vars |-> <<Local("n", "SINT", "TEMP", N(4)), Local("o", "SINT", "OUT", None)>>,
              body |-> <<Assign(V("o"), Direct("%MB0")), Assign(Direct("%QB0"), V("n"))>>]]
  IN  all
MCLocations == {"%MB0", "%QB0"}

G(name, type, init) == [name |-> name, type |-> type, init |-> init, kind |-> "GLOBAL"]
Config(name, type)  == [name |-> name, type |-> type, init |-> None, kind |-> "CONFIG"]
Path(name, path, writable, type) == [name |-> name, path |-> path, writable |-> writable, type |-> type]
Task(single, interval, priority) ==
  [name |-> "t", single |-> single, interval |-> interval, priority |-> priority]
Inst(name, rank, program, task, args) ==
  [name |-> name, rank |-> rank, program |-> program, task |-> task, args |-> args]
Resource(name, variables, access, tasks, instances) ==
  [name |-> name, vars |-> variables, access |-> access, tasks |-> tasks, instances |-> instances]

Outer == <<[name |-> "D", vars |-> <<G("far", "BOOL", None)>>, access |-> <<>>, resources |-> <<>>]>>
\* The configuration C with the variables, access paths, tasks and arguments given
Source(cvars, rvars, caccess, raccess, task, inst, args) ==
  <<[name |-> "C", vars |-> cvars, access |-> caccess,
     resources |->
       <<Resource("r", rvars, raccess, <<task>>,
                  <<Inst(inst, 2, "Drive", "t", args), Inst("b", 1, "Watch", None, <<>>)>>),
         Resource("s", <<G("h", "SINT", N(3))>>, <<Path("a", <<"h">>, TRUE, "SINT")>>, <<>>,
                  <<Inst("b", 1, "Drive", None, <<>>)>>)>>]>> \o Outer

Plain == Task(None, N(2), N(1))
CVars == <<G("g", "SINT", N(1)), G("e", "BOOL", None), G("p", "Pair", None), G("row", "Row", None), G("l", "Latch", None)>>
RVars == <<G("k", "SINT", None), G("kb", "BOOL", None), G("u", "Level", N(2))>>
\* Variables of the resource that hide: those of the configuration, the resource and an instance
Hiding == {<<Config("g", "SINT")>>, <<G("r", "Pair", None)>>, <<G("d", "Pair", None)>>, <<Config("p", "SINT"), G("b", "Pair", None)>>}

Paths == {<<"g">>, <<"e">>, <<"p">>, <<"p", "n">>, <<"k">>, <<"u">>, <<"l", "q">>, <<"row">>, <<"r">>,
          <<"r", "k">>, <<"r", "n">>, <<"r", "g">>, <<"r", "r", "n">>, <<"r", "d", "x">>, <<"d", "x">>, <<"d", "n">>,
          <<"d", "lvl">>, <<"d", "s", "n">>, <<"d", "f", "q">>, <<"d">>, <<"b", "o">>, <<"b", "n">>,
          <<"s">>, <<"s", "h">>, <<"s", "b", "x">>, <<"nowhere">>, <<"%MB0">>}
Accesses == {Path("a", path, TRUE, type) : path \in Paths, type \in {"SINT", "BOOL", "Level", "Pair"}}
              \cup {Path("a", <<"g">>, FALSE, "SINT")}
Other == <<Path("z", <<"g">>, TRUE, "SINT"), Path("w", <<"d", "x">>, TRUE, "SINT")>>

AccessSources ==
  {Source(CVars, rvars, <<>>, <<a>> \o Other, Plain, "d", <<>>) : a \in Accesses, rvars \in {RVars} \cup Hiding}
  \cup {Source(CVars, RVars, <<a>>, <<>>, Plain, "d", <<>>) : a \in Accesses}
  \cup {Source(CVars, RVars, <<>>, <<a>> \o Other, Plain, "g", <<>>) : a \in Accesses}
  \cup {Source(CVars, RVars, <<>>, <<Path("a", <<"r", "x">>, TRUE, "SINT")>>, Plain, "r", <<>>)}

TaskSources ==
  {Source(CVars, RVars, <<>>, Other, Task(single, interval, priority), "d", <<Out("q", V("e"))>>) :
     single \in {None, V("e"), Un("NOT", V("e")), V("far"), V("h"), V("k"), V("kb"), P(<<"p", "on">>), P(<<"l", "q">>), V("nowhere")},
     interval \in {None, N(0), N(2), Lit(Time(1)), V("g"), B(TRUE)},
     priority \in {None, N(0), Bin("+", N(1), N(1)), Un("-", N(1)), V("g")}}

BindingSources ==
  {Source(CVars, RVars, <<>>, Other, Plain, "d", <<Out(formal, actual)>>) :
     formal \in {"x", "y", "q", "lvl"},
     actual \in {V("g"), V("k"), V("u"), V("e"), V("h"), V("far"), V("RED"), P(<<"p", "n">>), P(<<"l", "q">>), P(<<"s", "h">>),
                 Elem("row", N(2)), Elem("row", V("g")), Elem("row", V("k")), Direct("%MB0"), None}}
InputSources ==
  {Source(CVars, RVars, <<>>, Other, Plain, "d", <<In(formal, e)>>) :
     formal \in {"x", "lvl", "q", "s", None}, e \in {N(2), N(7), B(TRUE), V("g"), Bin("*", N(2), N(3)),
                                              Call(<<"ADD">>, <<In(None, N(1)), In(None, N(1))>>)}}

Initials == {None, N(2), N(3), B(TRUE), Un("-", N(1)), V("GREEN"), V("g"), Lit(Time(2)),
             Call(<<"SUB">>, <<In("IN2", N(1)), In("IN1", N(3))>>), Call(<<"SUB">>, <<In("IN2", N(1)), In(None, N(3))>>),
             Call(<<"ADD">>, <<In(None, N(1)), In(None, Bin("+", N(1), N(1)))>>)}
InitialSources ==
  {Source(CVars, <<G("k", type, init)>>, <<>>, Other, Plain, "d", <<>>) :
     type \in {"SINT", "BOOL", "TIME", "Level", "Color", "Row", "Pair", "Latch"}, init \in Initials}
  \cup {Source(CVars \o <<G("k", "SINT", None)>>, <<G("k", "BOOL", None)>>, <<>>, <<>>, Plain, "d", <<>>)}

MCSources ==
  LET all == {s \in AccessSources \cup TaskSources \cup BindingSources \cup InputSources \cup InitialSources : SourceFits(s)}
  IN  all
MCWriteNames  == {<<"a">>, <<"r", "a">>, <<"z">>, <<"nowhere">>}
MCWriteValues == {Num(2), Num(5), Flag(TRUE), Struct([n |-> Num(3), on |-> Flag(TRUE)])}
=============================================================================
