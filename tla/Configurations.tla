---------------------------- MODULE Configurations ----------------------------
(***************************************************************************)
(* A configuration from the checker to its run: what ConfigurationCheck    *)
(* accepts is started and run cycle by cycle by ConfigurationRunner, with  *)
(* values written through its access paths before every cycle.             *)
(***************************************************************************)
EXTENDS ConfigurationRunner

CONSTANTS
  Sources,      \* the sources written
  WriteNames,   \* the names of access paths values are written to
  WriteValues,  \* the values written
  MaxWrites, MaxCycles

VARIABLES
  source,   \* the source that runs
  world,    \* its world
  cycle,    \* cycles completed
  turn,     \* the instance whose turn it is; 0: values are being written
  asked     \* the values written so far

vars == <<source, world, cycle, turn, asked>>

\* Only what the checker accepts runs.
ASSUME SourcesAssumption == \A s \in Sources : SourceFits(s)

Init ==
  /\ source \in Sources
  /\ world = Started(source)
  /\ cycle = 0 /\ turn = 0 /\ asked = <<>>

\* A write that is refused does not keep the next one from being made.
Write(name, x) ==
  /\ turn = 0 /\ cycle < MaxCycles /\ Len(asked) < MaxWrites
  /\ world' = Written(world, source[1], name, x)
  /\ asked' = Append(asked, [name |-> name, x |-> x])
  /\ UNCHANGED <<source, cycle, turn>>

\* The run ends with the first diagnostic.
Runs == world.diags = {} /\ cycle < MaxCycles
Begin ==
  /\ Runs /\ turn = 0
  /\ turn' = 1
  /\ UNCHANGED <<source, world, cycle, asked>>

Turn ==
  /\ Runs /\ turn \in DOMAIN world.progs
  /\ world' = TurnOf(world, turn, cycle * CycleTime)
  /\ turn' = turn + 1
  /\ UNCHANGED <<source, cycle, asked>>

EndCycle ==
  /\ Runs /\ turn = Len(world.progs) + 1
  /\ world' = Snapshot(world, source[1])
  /\ cycle' = cycle + 1 /\ turn' = 0
  /\ UNCHANGED <<source, asked>>

Next == (\E name \in WriteNames, x \in WriteValues : Write(name, x)) \/ Begin \/ Turn \/ EndCycle
Spec == Init /\ [][Next]_vars

-----------------------------------------------------------------------------
(***************************************************************************)
(* Where the checker and the run are known to differ; the README tells     *)
(* each one.                                                               *)
(***************************************************************************)
RECURSIVE VariablesOf(_)
\* The variables an expression reads
VariablesOf(e) ==
  CASE e.k = "var"  -> IF e.path[1] \in EnumNames THEN {} ELSE {e}
    [] e.k = "elem" -> {e} \cup VariablesOf(e.at)
    [] e.k = "un"   -> VariablesOf(e.e)
    [] e.k = "bin"  -> VariablesOf(e.l) \cup VariablesOf(e.r)
    [] e.k = "call" -> UNION {VariablesOf(a.e) : a \in Range(e.args)}
    [] OTHER        -> {}

\* The run finds them among the variables: their paths lead through structures only, not
\* through an instance of a function block.
ReachedIn(types, e) ==
  \A var \in VariablesOf(e) :
    var.path[1] \in DOMAIN types /\ TypeAt(types[var.path[1]], Tail(var.path)) # None

TargetOf(b) ==
  ConfigurationTarget(source[1], FindNamed(source[1].resources, b.resource), b.a.path)
IsLocation(b)   == b.a.path[1] \in Locations
TypesAt(owner)  == IF owner = <<>> THEN TypesOf(source[1].vars)
                   ELSE TypesOf(FindNamed(source[1].resources, owner[1]).vars)
AccessReached(b) == IsLocation(b) \/ Len(TargetOf(b).owner) = 2
                    \/ ReachedIn(TypesAt(TargetOf(b).owner), [k |-> "var", path |-> TargetOf(b).path])

\* Events and bindings may name what another resource or configuration declares, and
\* the fields of instances of function blocks.
OutOfReach ==
  LET c == source[1] IN
  \/ \E r \in Range(c.resources) :
       LET inner == TypesOf(r.vars)
           outer == TypesOf(c.vars)
       IN  \/ \E task \in Range(r.tasks) :
                task.single # None /\ ~ReachedIn(inner @@ outer, task.single)
           \/ \E inst \in Range(r.instances) : \E arg \in Range(OutputsOf(inst)) :
                ~ReachedIn(inner, arg.var) /\ ~ReachedIn(outer, arg.var)
  \/ \E b \in Range(Bindings(c)) : ~AccessReached(b)

\* Types are compared no finer than SimpleType, and a location has none.
Coarse(t1, t2) == t1 # t2 /\ Simple(t1) = Simple(t2)
LooseTypes ==
  LET c == source[1] IN
  \/ \E b \in Range(Bindings(c)) : IsLocation(b) \/ Coarse(b.a.type, TargetOf(b).type)
  \/ \E r \in Range(c.resources) : \E inst \in Range(r.instances) : \E arg \in Range(OutputsOf(inst)) :
       LET type == VariableType(TaskVariables(source, c, r), arg.var)
       IN  arg.var.k = "at" \/ type # FindNamed(ProgramTypes[inst.program].vars, arg.name).type

\* The shared state takes only literal initial values, and starts a subrange at 0.
Literal(var) ==
  LET spec == Resolved(var.type) IN
  \/ spec.kind \in {"array", "struct"}
  \/ IF var.init = None THEN spec.kind = "subrange" => spec.low <= 0 /\ 0 <= spec.high
     ELSE LiteralValue(var.init) # None \/ (spec.kind = "enum" /\ var.init.path[1] \in EnumNames)

-----------------------------------------------------------------------------
(* A run of a configuration the checker accepts meets no target, event,    *)
(* parameter or variable that is not there (configuration.rs:19-339,       *)
(* state.rs:201-313).                                                      *)
WentWrong == {"target", "single", "storage", "structure", "input", "path", "unsupported"}
AcceptedConfigurationsRun ==
  world.diags \cap WentWrong # {} => OutOfReach \/ (LooseTypes /\ world.diags \cap WentWrong = {"target"})

\* The value at a target of the checker, wherever it lies
ValueAtTarget(w, target) ==
  LET held == CASE target.owner = <<>>     -> w.conf
                [] Len(target.owner) = 1   -> w.res[target.owner[1]]
                [] Len(target.owner) = 2   -> w.progs[ProgramAt(w, target.owner[1], target.owner[2])].rt
  IN  IF Has(held, target.path) THEN held.env[target.path]
      ELSE ValueAt(held.env[<<target.path[1]>>], Tail(target.path))
Overlap(t1, t2) ==
  t1.owner = t2.owner /\ (IsPrefix(t1.path, t2.path) \/ IsPrefix(t2.path, t1.path))

(* A value written through an access path is at the target the checker     *)
(* resolved for it, is what the path shows, and nothing a path with        *)
(* another target shows changes (state.rs:84-155, 201-313,                 *)
(* configuration.rs:631-699).                                              *)
WritesReachTheirTarget ==
  [][Len(asked') > Len(asked) /\ world'.diags = {} =>
       LET c == source[1]
           x == Last(asked').x
           b == Meant(c, Last(asked').name)[1]
           Shown(w, d) == TargetRead(w, d.resource, d.a.path).v
       IN  /\ AccessReached(b) => /\ Shown(world', b) = x
                                  /\ ~IsLocation(b) => ValueAtTarget(world', TargetOf(b)) = x
           /\ \A d \in Range(Bindings(c)) :
                /\ AccessReached(b) /\ AccessReached(d)
                /\ IF IsLocation(b) \/ IsLocation(d) THEN b.a.path # d.a.path ELSE ~Overlap(TargetOf(b), TargetOf(d))
                => Shown(world', d) = Shown(world, d)]_vars

(* Shared variables and the variables of instances hold values that match  *)
(* their types, whatever is written to them and bound to them              *)
(* (state.rs:555-619, runtime.rs:490-552, types.rs:471-494).               *)
PlacesMatchTheirTypes ==
  LET Matching(rt) == \A name \in DOMAIN rt.types : ValueMatches(rt.env[<<name>>], rt.types[name]) IN
  ~(/\ Matching(world.conf)
    /\ \A name \in DOMAIN world.res : Matching(world.res[name])
    /\ \A k \in DOMAIN world.progs : world.progs[k].rt.diags = {} => Matching(world.progs[k].rt)) =>
  LooseTypes \/ OutOfReach \/ \E var \in Range(GlobalsIn(source[1])) : ~Literal(var)

(* Until something is written a global variable has the same value in the  *)
(* shared state and in the copies of the instances                         *)
(* (state.rs:315-383, runtime.rs:158-240).                                 *)
GlobalsStartAlike ==
  LET Alike(vars_, st) ==
        \A var \in Range(vars_) : \A k \in DOMAIN world.progs :
          var.kind = "GLOBAL" /\ Literal(var) /\ FindNamed(world.progs[k].vars, var.name) = None =>
            world.progs[k].rt.env[<<var.name>>] = st.env[<<var.name>>]
      c == source[1]
  IN  cycle = 0 /\ turn = 0 /\ asked = <<>> =>
        /\ Alike(c.vars, world.conf)
        /\ \A r \in Range(c.resources) : Alike(r.vars, world.res[r.name])
=============================================================================
