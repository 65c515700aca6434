-------------------------- MODULE ConfigurationCheck --------------------------
(***************************************************************************)
(* What crates/iec_semantics rejects of a configuration: its variables,    *)
(* access paths, tasks and program instances.                              *)
(*                                                                         *)
(* A source is a sequence of configurations; the first one is run.         *)
(*   configuration  [name, vars, access, resources]                        *)
(*   resource       [name, vars, access, tasks, instances]                 *)
(*   variable       [name, type, init, kind]: kind "GLOBAL" or "CONFIG"    *)
(*   access path    [name, path, writable, type]                           *)
(*   task           [name, single, interval, priority]                     *)
(*   instance       [name, rank, program, task, args]: the ranks order the *)
(*                  instances as their names do                            *)
(* VAR_EXTERNAL, VAR_ACCESS of a program and CONSTANT globals are left out.*)
(***************************************************************************)
EXTENDS ProgramCheck

CONSTANTS
  ProgramTypes,  \* the programs of the project, by name: [vars, body]
  Locations      \* locations of the process image

\* The types of variables by name, the first of a name
TypesOf(vars)  == FoldLeft(LAMBDA acc, var : acc @@ (var.name :> var.type), <<>>, vars)
NamesOf(xs)    == [k \in DOMAIN xs |-> xs[k].name]
FindNamed(xs, name) == IF name \in Range(NamesOf(xs)) THEN xs[CHOOSE k \in DOMAIN xs :
                         xs[k].name = name /\ \A j \in 1..k - 1 : xs[j].name # name] ELSE None

\* project_global_variables: those of every configuration and of its resources
GlobalsIn(c) == SelectSeq(c.vars \o FlattenSeq([k \in DOMAIN c.resources |-> c.resources[k].vars]),
                          LAMBDA var : var.kind = "GLOBAL")
GlobalsOf(source) == FlattenSeq([k \in DOMAIN source |-> GlobalsIn(source[k])])

\* configuration_task_variables
TaskVariables(source, c, r) == TypesOf(GlobalsOf(source)) @@ TypesOf(c.vars) @@ TypesOf(r.vars)

(***************************************************************************)
(* Access paths.  A target is [owner, path, type]: the configuration, a    *)
(* resource or an instance of one, and the path of a value in it.          *)
(***************************************************************************)
TargetAt(owner, path, type) ==
  IF type = None THEN None ELSE [owner |-> owner, path |-> path, type |-> type]
TargetAmong(owner, types, path) ==
  IF path[1] \in DOMAIN types THEN TargetAt(owner, path, MemberAt(types[path[1]], Tail(path))) ELSE None

\* resolve_resource_access_target: a variable of the resource, or one of an instance
ResourceTarget(r, path) ==
  LET variable == TargetAmong(<<r.name>>, TypesOf(r.vars), path)
      inst     == FindNamed(r.instances, path[1])
  IN  CASE path = <<>> -> None
        [] path # <<>> /\ variable # None -> variable
        [] OTHER -> IF inst = None \/ Len(path) = 1 \/ inst.program \notin DOMAIN ProgramTypes THEN None
                    ELSE TargetAmong(<<r.name, inst.name>>, TypesOf(ProgramTypes[inst.program].vars), Tail(path))

\* A mutant: the variables of the configuration hide those of the resource.
TargetOutside(c, r, path) ==
  LET here == TargetAmong(<<>>, TypesOf(c.vars), path) IN
  IF r # None /\ path[1] = r.name THEN ResourceTarget(r, Tail(path))
  ELSE IF here # None \/ r = None THEN here ELSE ResourceTarget(r, path)
\* resolve_configuration_access_target, as seen from the resource r or from none
ConfigurationTarget(c, r, path) ==
  LET own   == IF r = None THEN None ELSE ResourceTarget(r, path)
      here  == TargetAmong(<<>>, TypesOf(c.vars), path)
      other == FindNamed(c.resources, path[1])
  IN  CASE r # None /\ path[1] = r.name -> ResourceTarget(r, Tail(path))
        [] own # None  -> own
        [] here # None -> here
        [] OTHER -> IF other = None THEN None ELSE ResourceTarget(other, Tail(path))

\* A mutant: an access path has its own type.
AccessKnown(c, r, a) == a.path[1] \in Locations \/ ConfigurationTarget(c, r, a.path) # None
\* check_configuration_access_declaration
AccessFits(c, r, a) ==
  \/ a.path[1] \in Locations
  \/ LET target == ConfigurationTarget(c, r, a.path)
     IN  target # None /\ Simple(target.type) = Simple(a.type)

(***************************************************************************)
(* Declarations, tasks and instances                                       *)
(***************************************************************************)
Distinct(names) == \A j, k \in DOMAIN names : names[j] = names[k] => j = k

\* check_configuration_var_blocks, of the configuration (r = None) or of a resource
BlocksFit(source, c, r, vars, access) ==
  LET inner == IF r = None THEN <<>> ELSE TypesOf(r.vars)
      types == inner @@ TypesOf(c.vars) @@ TypesOf(GlobalsOf(source))
  IN  /\ Distinct(NamesOf(vars) \o NamesOf(access))
      /\ \A var \in Range(vars) :
           var.kind \in {"GLOBAL", "CONFIG"} /\ TypeFits(var.type) /\ InitialFits(types, var)
      /\ \A a \in Range(access) : AccessFits(c, r, a) /\ TypeFits(a.type)

Milliseconds(e) == e.k = "lit" /\ e.x.t \in {"int", "time"}
Bounded(types, e) == ExprDepth(e) <= MaxExpressionDepth /\ ExprFits(types, e)
TaskFits(types, task) ==
  LET every == TypeOf(types, task.interval)
      level == TypeOf(types, task.priority)
  IN  /\ task.single # None => Bounded(types, task.single) /\ Condition(types, task.single)
      /\ task.interval # None =>
           /\ Bounded(types, task.interval)
           /\ every \in {"time", "integer"} => Milliseconds(task.interval)
           /\ every \in {"time", "integer", "unknown"}
      /\ task.priority # None =>
           /\ Bounded(types, task.priority)
           /\ level = "integer" => Const(task.priority, TRUE) # None /\ Const(task.priority, TRUE) >= 0
           /\ level \in {"integer", "unknown"}

\* check_program_instance_args: an output binding
OutputFits(types, c, r, formal, actual) ==
  LET declared == VariableType(types, actual)
      target   == IF actual.k = "var" THEN ConfigurationTarget(c, r, actual.path) ELSE None
      type     == IF declared # None \/ target = None THEN declared ELSE target.type
  IN  /\ formal.kind = "OUT"
      /\ VariableFits(types, actual)
      /\ IF type = None THEN actual.k = "at" ELSE Takes(Simple(type), Simple(formal.type))

\* check_program_instance_args: an initial value
InputFits(types, formal, e) ==
  /\ formal.kind \notin {"ACCESS", "EXTERNAL", "INOUT", "TEMP"}
  /\ Bounded(types, e) /\ ConstValue(e) # None
  /\ Accepts(types, formal.type, e)

InstanceFits(types, c, r, inst) ==
  LET program == ProgramTypes[inst.program]
      Formal(arg) == FindNamed(program.vars, arg.name)
  IN  /\ inst.program \in DOMAIN ProgramTypes
      /\ inst.task # None => inst.task \in Range(NamesOf(r.tasks))
      /\ None \notin Range(NamesOf(inst.args)) /\ Distinct(NamesOf(inst.args))
      /\ \A arg \in Range(inst.args) :
           /\ Formal(arg) # None
           /\ IF arg.output THEN arg.var # None /\ OutputFits(types, c, r, Formal(arg), arg.var)
              ELSE arg.e # None /\ InputFits(types, Formal(arg), arg.e)

\* check_configuration
ResourceFits(source, c, r) ==
  LET types == TaskVariables(source, c, r) IN
  /\ BlocksFit(source, c, r, r.vars, r.access)
  /\ Distinct(NamesOf(r.tasks)) /\ Distinct(NamesOf(r.instances))
  /\ \A task \in Range(r.tasks) : TaskFits(types, task)
  /\ \A inst \in Range(r.instances) : InstanceFits(types, c, r, inst)
ConfigurationFits(source, c) ==
  /\ BlocksFit(source, c, None, c.vars, c.access)
  /\ \A k \in DOMAIN c.resources : ResourceFits(source, c, c.resources[k])

\* check, with check_global_variable_duplicates
SourceFits(source) ==
  /\ ProjectFits
  /\ Distinct(NamesOf(source)) /\ Distinct(NamesOf(GlobalsOf(source)))
  /\ \A name \in DOMAIN ProgramTypes :
       ProgramFits(TypesOf(GlobalsOf(source)), ProgramTypes[name].vars, ProgramTypes[name].body)
  /\ \A k \in DOMAIN source : ConfigurationFits(source, source[k])
=============================================================================
