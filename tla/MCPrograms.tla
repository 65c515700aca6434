------------------------------ MODULE MCPrograms ------------------------------
(***************************************************************************)
(* Programs with two functions, three function blocks and a variable of    *)
(* every type: every assignment of an operation on two leaves to a         *)
(* variable, calls of the standard functions, and bodies with loops,       *)
(* jumps, calls and instruction lists.                                     *)
(***************************************************************************)
EXTENDS Programs

N(n) == Lit(Num(n))
B(b) == Lit(Flag(b))
V(name) == Var(name)

Declares(name, type, init) ==
  [name |-> name, type |-> type, init |-> init, retain |-> FALSE, temp |-> FALSE, constant |-> FALSE]
FieldAs(name, type, kind, edge) ==
  [name |-> name, type |-> type, kind |-> kind, edge |-> edge, init |-> None]

MCNamed ==
  LET all ==
  [Color |-> [kind |-> "enum", values |-> <<"RED", "GREEN", "BLUE">>],
   Level |-> [kind |-> "subrange", low |-> 1, high |-> 3, base |-> "DINT"],
   Row   |-> [kind |-> "array", low |-> 2, high |-> 3, of |-> "SINT"]]
  IN all

MCFunctions ==
  LET all ==
  [Big   |-> [inputs |-> <<Declares("x", "DINT", None)>>, locals |-> <<>>, returns |-> "BOOL",
              body |-> <<Assign(V("Big"), Bin(">", V("x"), N(1)))>>],
   Count |-> [inputs  |-> <<Declares("from", "DINT", None), Declares("to", "DINT", None)>>,
              locals  |-> <<Declares("i", "DINT", None)>>, returns |-> "DINT",
              body |-> <<For("i", V("from"), V("to"), None,
                             <<If(<<[c |-> Bin("=", V("i"), N(6)), body |-> <<Return>>]>>, <<>>),
                               Assign(V("Count"), Bin("+", V("Count"), N(1)))>>)>>]]
  IN all

MCFunctionBlocks ==
  LET all ==
  [Latch |-> [fields |-> <<FieldAs("set", "BOOL", "IN", "R"), FieldAs("clr", "BOOL", "IN", None),
                           FieldAs("q", "BOOL", "OUT", None), FieldAs("n", "DINT", "OUT", None)>>,
              body |-> <<If(<<[c |-> V("set"), body |-> <<Assign(V("q"), B(TRUE)),
                                                          Assign(V("n"), Bin("+", V("n"), N(1)))>>]>>, <<>>),
                         If(<<[c |-> V("clr"), body |-> <<Assign(V("q"), B(FALSE)), Return>>]>>, <<>>)>>],
   Swap  |-> [fields |-> <<FieldAs("x", "DINT", "INOUT", None), FieldAs("y", "DINT", "INOUT", None),
                           FieldAs("h", "DINT", "VAR", None)>>,
              body |-> <<Il("LD", V("x")), Il("ST", V("h")), Il("LD", V("y")), Il("ST", V("x")),
                         Il("LD", V("h")), Il("ST", V("y"))>>],
   Outer |-> [fields |-> <<FieldAs("go", "BOOL", "IN", None), FieldAs("on", "BOOL", "IN", None), FieldAs("in", "Latch", "VAR", None),
                           FieldAs("seen", "DINT", "OUT", None)>>,
              body |-> <<FbCall("in", <<In("set", V("on")), In("clr", V("go")), Out("n", V("seen"))>>)>>]]
  IN all

MCVars ==
  <<Declares("g", "BOOL", None), Declares("b", "BOOL", None), Declares("s", "SINT", Un("-", N(8))),
    [Declares("d", "DINT", N(2)) EXCEPT !.retain = TRUE], Declares("w", "BYTE", N(9)),
    Declares("t", "TIME", Lit(Time(4))), Declares("e", "Color", None), Declares("r", "Level", None),
    Declares("a", "Row", None), [Declares("k", "SINT", N(3)) EXCEPT !.constant = TRUE],
    [Declares("x", "DINT", N(1)) EXCEPT !.temp = TRUE], Declares("p", "Latch", None),
    Declares("z", "Swap", None), Declares("o", "Outer", None)>>

Small  == {V("g"), V("b"), V("s"), V("d"), V("w"), V("t"), V("e"), V("r"), V("k"), Elem("a", V("d")), Field("p", "q"),
           N(3), V("GREEN"), Lit(Time(6))}
Ops    == {"AND", "XOR", "=", "<", "+", "-", "*", "/", "MOD"}
Targets == {V("b"), V("s"), V("d"), V("w"), V("t"), V("e"), V("r"), Elem("a", N(3))}

\* The assignments of an expression the checker accepts to a variable it may be assigned to
One(s) == <<s>>
MCTypes == Declared(MCVars)
Assignments(targets, es) ==
  LET fit == {e \in es : ExprDepth(e) <= MaxExpressionDepth /\ ExprFits(MCTypes, e)} IN
  UNION {{One(Assign(to, e)) : e \in {x \in fit : Accepts(MCTypes, VariableType(MCTypes, to), x)}} : to \in targets}

Operations ==
  Assignments(Targets, {Bin(op, l, r) : op \in Ops, l \in Small, r \in Small}
    \cup {Un(op, x) : op \in {"-", "NOT"},
          x \in Small \cup {Bin("AND", V("g"), V("b")), Call(<<"Big">>, <<In(None, V("d"))>>)}}
    \cup Small \cup {N(7), N(8), N(200), V("a")})

Calls ==
  LET Args(xs) == [k \in DOMAIN xs |-> In(None, xs[k])]
      xs == {V("g"), V("s"), V("d"), V("w"), V("t"), V("e"), N(3)}
  IN  Assignments({V("b"), V("d"), V("w"), V("t")},
        {Call(<<f>>, Args(<<l, r>>)) : l \in xs, r \in xs,
          f \in {"ADD", "SUB", "DIV", "MIN", "AND", "XOR", "GT", "EQ", "SHL", "ROR", "ADD_TIME", "MUL_TIME", "DIV_TIME"}})
      \cup Assignments({V("d"), V("e"), V("t"), V("w")},
        {Call(<<f>>, Args(<<x, l, r>>)) : x \in xs \cup {V("x")}, l \in xs, r \in {V("d"), V("t"), V("GREEN")},
          f \in {"SEL", "MUX", "LIMIT", "MAX"}})
      \cup Assignments({V("b"), V("s"), V("d"), V("w"), V("t")},
        {Call(f, Args(<<x>>)) : x \in xs,
          f \in {<<"ABS">>, <<"MOVE">>, <<"NOT">>, <<"TO", "DINT", "BOOL">>, <<"TO", "DINT", "SINT">>,
                 <<"TO", "BYTE", "DINT">>, <<"TO", "DINT", "TIME">>, <<"BCD_TO", "BYTE", "DINT">>,
                 <<"TO_BCD", "DINT", "BYTE">>}})

\* Operations inside operations, and expressions of literals alone
Nested ==
  Assignments({V("d")}, {Bin(o1, l, Bin(o2, x, y)) :
      o1 \in {"+", "-", "/"}, o2 \in {"*", "-", "MOD"}, l \in {V("s"), N(7)}, x \in {V("s"), V("d")}, y \in {V("d"), N(3)}})
  \cup Assignments({V("b")}, {Bin(o1, l, Bin(o2, x, y)) :
      o1 \in {"AND", "OR", "XOR", "="}, o2 \in {"AND", "OR", "<>"}, l \in {V("g"), Bin("<", V("s"), V("d"))},
      x \in {V("b"), Un("NOT", V("g"))}, y \in {V("g"), B(TRUE)}})
Constants ==
  LET lits == {N(3), N(300), Un("-", N(8)), Un("-", N(511))} IN
  Assignments({V("b")}, {Bin("<", V("d"), e) : e \in
     {Bin(o1, Bin(o2, x, y), z) : o1 \in {"+", "*", "MOD"}, o2 \in {"-", "/"}, x \in lits, y \in lits, z \in lits}
     \cup {Call(<<f>>, <<In(None, x), In(None, y)>>) : f \in {"SUB", "DIV", "MOD", "MAX", "SHL", "XOR"}, x \in lits, y \in lits}
     \cup {Call(<<"SUB">>, <<In("IN2", x), In("IN1", y)>>) : x \in lits, y \in lits}
     \cup {Call(<<"SUB">>, <<In("EN", B(FALSE)), In("IN1", N(7)), In("IN2", N(3))>>)}})

When(c, body) == If(<<[c |-> c, body |-> body]>>, <<>>)
Bodies ==
  {<<For("d", N(1), N(3), None, <<Assign(V("w"), V("d"))>>)>>,
   <<For("x", N(3), N(1), Un("-", N(1)), <<Assign(V("d"), Bin("+", V("d"), V("x")))>>)>>,
   <<While(V("g"), <<Assign(V("s"), V("d"))>>)>>,
   <<Repeat(<<Assign(V("d"), Bin("+", V("d"), N(1))), When(Bin(">", V("d"), N(4)), <<Exit>>)>>, V("g"))>>,
   <<Case(V("d"), <<[labels |-> <<[low |-> N(1), high |-> N(2)]>>, body |-> <<Assign(V("d"), N(5))>>],
                    [labels |-> <<[low |-> N(5), high |-> None]>>, body |-> <<Assign(V("d"), N(7))>>]>>,
          <<Assign(V("d"), N(1))>>)>>,
   <<Case(V("e"), <<[labels |-> <<[low |-> V("RED"), high |-> None]>>, body |-> <<Assign(V("e"), V("BLUE"))>>]>>,
          <<Assign(V("e"), V("GREEN"))>>)>>,
   <<Assign(V("d"), Call(<<"Count">>, <<In("to", V("d")), In("from", N(1))>>)),
     Assign(V("b"), Call(<<"Big">>, <<In(None, V("d"))>>))>>,
   <<FbCall("p", <<In("set", V("g")), In("clr", V("b")), Out("q", V("b")), Out("n", V("d"))>>)>>,
   <<FbCall("z", <<In(None, V("d")), In(None, V("x"))>>), Assign(Elem("a", N(2)), V("d"))>>,
   <<FbCall("o", <<In("go", V("g")), Out("seen", V("d"))>>)>>,
   <<FbCall("p", <<In("EN", V("g")), In("set", B(TRUE)), Out("ENO", V("b"))>>)>>,
   <<Il("LD", V("d")), Il("GT", N(1)), Il("JMPCN", V("end")), Il("LD", N(1)), Il("ST", V("d")), Label("end")>>,
   <<Il("LD", V("g")), Il("CALC", Call(<<"p">>, <<In("set", V("g"))>>)), Il("LD", Field("p", "n")), Il("ST", V("d"))>>,
   <<Label("again"), Il("JMP", V("again"))>>,
   <<Il("LD", V("g")), Il("S", V("b")), Il("RETC", None), Il("LD", N(4)), Il("ST", V("d"))>>,
   <<Assign(V("b"), Call(<<"GT">>, <<In("EN", V("g")), In(None, V("d")), In(None, N(1)), Out("ENO", V("b"))>>))>>,
   <<Il("JMP", V("nowhere"))>>, <<Exit>>, <<Assign(V("q"), V("d"))>>, <<Assign(V("d"), V("q"))>>,
   <<FbCall("z", <<In("x", V("d")), In("y", N(1))>>)>>, <<FbCall("Swap", <<>>)>>, <<Il("CAL", V("d"))>>,
   <<Assign(V("p"), V("o"))>>, <<Assign(V("d"), V("p"))>>,
   <<For("s", N(6), N(8), None, <<>>)>>,
   <<For("k", N(1), N(2), None, <<>>)>>,
   <<Il("LD", V("d")), Il("ST", V("k"))>>,
   <<FbCall("p", <<In("set", V("g")), Out("n", V("k"))>>), Assign(V("s"), V("k"))>>,
   <<FbCall("p", <<In("set", B(TRUE))>>), Assign(V("b"), Un("NOT", Field("p", "q")))>>,
   <<FbCall("o", <<In("on", V("g")), Out("seen", V("d"))>>)>>,
   <<Il("AND", V("g")), Il("ST", V("b"))>>,
   <<Il("LD", V("g")), Il("AND", V("b")), Il("STN", V("b"))>>,
   <<Il("LD", V("g")), Il("ST", V("b")), Il("LDN", V("b")), Il("R", V("b"))>>,
   <<Il("LD", V("d")), Il("OR", N(4)), Il("ST", V("d"))>>,
   <<Il("LD", V("t")), Il("GT", Lit(Time(3))), Il("ST", V("b"))>>,
   <<Il("LD", V("d")), Il("SUB", V("x")), Il("GE", V("s")), Il("RETCN", None), Il("LD", V("w")), Il("ST", V("d"))>>,
   <<Assign(V("b"), Bin("=", Call(<<"GT">>, <<In(None, V("x")), In(None, V("d")), In(None, N(0))>>), V("g")))>>,
   <<Assign(V("b"), Call(<<"AND">>, <<In("EN", V("g")), In(None, V("g")), In(None, B(TRUE))>>)),
     Assign(V("b"), Un("NOT", V("b")))>>,
   <<Assign(V("d"), Call(<<"SEL">>, <<In("IN1", V("w")), In("G", V("g")), In("IN0", N(1))>>))>>,
   <<While(V("g"), <<Assign(V("d"), Bin("+", V("d"), N(1))), When(Bin(">", V("d"), N(9)), <<Exit>>)>>)>>,
   <<When(Bin("AND", V("g"), Bin("=", V("x"), N(1))), <<Assign(V("x"), N(2)), Return>>),
     Assign(V("d"), Bin("+", V("d"), V("x")))>>}

\* A program declares the variables its body mentions.
NamesIn(e) ==
  UNION {CASE IsVariable(x) -> {x.path[1]}
           [] x.k = "call"  -> {x.f[1]} \cup {a.var.path[1] : a \in {b \in Range(x.args) : b.var # None}}
           [] OTHER         -> {} : x \in PartsOf(e)}
Mentioned(body) ==
  UNION {UNION {NamesIn(e) : e \in ExpressionsOf(s)}
           \cup (CASE s.k = "assign" -> NamesIn(s.to)
                   [] s.k = "for"    -> {s.control}
                   [] s.k = "fb"     -> NamesIn(Call(<<s.inst>>, s.args))
                   [] OTHER          -> {}) : s \in StatementsOf(body)}
Written(bodies) ==
  {[vars |-> SelectSeq(MCVars, LAMBDA var : var.name \in Mentioned(body)), body |-> body] : body \in bodies}

\* Loops around an assignment, an exit, a return and a call, up and down to either end of a type
Loops ==
  {<<For(i, from, to, by, body)>> :
     i \in {"x", "s"}, from \in {N(0), Un("-", N(3))}, to \in {N(3), N(7), Un("-", N(8))}, by \in {None, N(2), Un("-", N(3))},
     body \in {<<Assign(V("d"), Bin("+", V("d"), V(i))), When(Bin(">", V("d"), N(9)), <<Exit>>)>>
                 : i \in {"x", "s"}}
           \cup {<<When(Bin("=", V("s"), N(3)), <<Return>>), FbCall("p", <<In("set", V("g")), Out("n", V("d"))>>)>>}}

MCSources ==
  LET all == Written(Operations \cup Calls \cup Nested \cup Constants) \cup Accepted(Written(Bodies \cup Loops)) IN all
\* Writes of the CONSTANT k, and the negations of BOOLs
MCConstantSources ==
  LET all == Written({<<For("k", N(1), N(2), None, <<>>)>>, <<Il("LD", V("d")), Il("ST", V("k"))>>,
                      <<FbCall("p", <<In("set", V("g")), Out("n", V("k"))>>)>>})
  IN  all
MCNegationSources ==
  LET all == Written({One(Assign(V("b"), Un("NOT", x))) : x \in {V("g"), V("b"), Bin("AND", V("g"), V("b")), Field("p", "q"),
                                                      Call(<<"Big">>, <<In(None, V("d"))>>)}})
  IN  all
MCInputs == {"g"}
MCInputValues == {Flag(FALSE), Flag(TRUE)}
=============================================================================
