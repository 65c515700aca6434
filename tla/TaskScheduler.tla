---------------------------- MODULE TaskScheduler ----------------------------
(***************************************************************************)
(* The configuration runner of crates/iec_runtime: in every cycle the      *)
(* writes through access paths are applied, then every program instance    *)
(* has its turn, by priority, and runs if its task is due: its INTERVAL    *)
(* divides the elapsed time, or its SINGLE event rose since its last turn. *)
(*                                                                         *)
(* What a body computes is left open: it may give the places it assigns    *)
(* any values.  A place holds a BOOL.                                      *)
(***************************************************************************)
EXTENDS Integers

CONSTANTS
  Instance,    \* the program instances of all resources
  Priority,    \* of the task of each instance
  Position,    \* of each instance by name, then by declaration
  Requested,   \* the INTERVAL of the task of each instance, or None
  Trigger,     \* the global the SINGLE of its task names, or None
  Location,    \* direct locations, %QX0.0
  Global,      \* configuration and resource globals
  Direct,      \* the locations the body of each instance assigns
  Binding,     \* the places its outputs are bound to
  External,    \* the globals it declares VAR_EXTERNAL
  Located,     \* the locations it declares a variable AT
  Writable,    \* the places with a READ_WRITE access path
  Cycle,       \* cycle_time_ms
  Hyper,       \* elapsed time is counted modulo this
  None

Place == Location \cup Global

AtLeast1(t) == IF t < 1 THEN 1 ELSE t

\* task_interval_ms: without INTERVAL and SINGLE a task is due in every cycle.
Interval(i) ==
  IF Requested[i] # None THEN AtLeast1(Requested[i])
  ELSE IF Trigger[i] = None THEN AtLeast1(Cycle)
  ELSE None

ASSUME TasksAssumption ==
  /\ Cycle \in Nat \ {0} /\ Hyper \in Nat \ {0} /\ Hyper % Cycle = 0
  /\ None \notin Int /\ None \notin Global
  /\ Priority \in [Instance -> Nat]
  /\ Position \in [Instance -> Nat]
  /\ \A i, j \in Instance : Position[i] = Position[j] => i = j
  /\ Requested \in [Instance -> Int \cup {None}]
  /\ \A i \in Instance : Interval(i) # None => Hyper % Interval(i) = 0

ASSUME PlacesAssumption ==
  /\ Location \cap Global = {}
  /\ Trigger \in [Instance -> Global \cup {None}]
  /\ Direct \in [Instance -> SUBSET Location]
  /\ Binding \in [Instance -> SUBSET Place]
  /\ External \in [Instance -> SUBSET Global]
  /\ Located \in [Instance -> SUBSET Location]
  /\ Writable \subseteq Place

VARIABLES
  elapsed,     \* elapsed_ms, modulo Hyper
  pending,     \* the instances whose turn is still to come in this cycle
  phase,       \* "writes", "programs" or "failed"
  shared,      \* direct_state
  globals,     \* configuration_state and resource_states
  image,       \* the direct locations in the environment of each instance
  private,     \* the globals in the environment of each instance
  located,     \* its located variables
  previous,    \* single_previous
  ran          \* the instances traced in this cycle

(* History variables: they guard nothing.                                  *)
VARIABLES
  published,   \* the value last given to each location
  seen,        \* the locations as each instance read them in its last run
  served,      \* runs of each instance since its trigger rose last, up to 2
  since        \* time since its last run by INTERVAL, up to 2 * Hyper, or None

runner  == <<elapsed, pending, phase, shared, globals, image, private, located, previous, ran>>
history == <<published, seen, served, since>>
vars    == <<runner, history>>

TypeOK ==
  /\ elapsed \in 0 .. Hyper - 1
  /\ pending \in SUBSET Instance
  /\ phase \in {"writes", "programs", "failed"}
  /\ shared \in [Location -> BOOLEAN]
  /\ globals \in [Global -> BOOLEAN]
  /\ image \in [Instance -> [Location -> BOOLEAN]]
  /\ private \in [Instance -> [Global -> BOOLEAN]]
  /\ located \in [Instance -> [Location -> BOOLEAN]]
  /\ previous \in [Instance -> BOOLEAN]
  /\ ran \in SUBSET Instance
  /\ published \in [Location -> BOOLEAN]
  /\ seen \in [Instance -> [Location -> BOOLEAN]]
  /\ served \in [Instance -> 0 .. 2]
  /\ since \in [Instance -> 0 .. 2 * Hyper \cup {None}]

Init ==
  /\ elapsed = 0
  /\ pending = {}
  /\ phase = "writes"
  /\ shared = [l \in Location |-> FALSE]
  /\ globals \in [Global -> BOOLEAN]
  /\ image = [i \in Instance |-> shared]
  /\ private = [i \in Instance |-> globals]
  /\ located = [i \in Instance |-> shared]
  /\ previous = [i \in Instance |-> FALSE]
  /\ ran = {}
  /\ published = shared
  /\ seen = image
  /\ served = [i \in Instance |-> 0]
  /\ since = [i \in Instance |-> None]
-----------------------------------------------------------------------------
\* A function with the values of w where w has one.
Updated(f, w) == [x \in DOMAIN f |-> IF x \in DOMAIN w THEN w[x] ELSE f[x]]

\* sort_by_key (priority, instance), and stable.
Before(i, j) ==
  \/ Priority[i] < Priority[j]
  \/ Priority[i] = Priority[j] /\ Position[i] < Position[j]

\* Mutant of Turns: the order of declaration alone.
TurnsUnsorted(i) == i \in pending /\ \A j \in pending \ {i} : Position[i] < Position[j]
Turns(i) == i \in pending /\ \A j \in pending \ {i} : Before(i, j)

\* The SINGLE expression sees the shared globals.
Current(i)   == Trigger[i] # None /\ globals[Trigger[i]]
SingleDue(i) == Current(i) /\ ~previous[i]

\* Mutants of IntervalDue: rounded to the cycle, or displaced by an event.
IntervalDueRounded(i) == Interval(i) # None /\ elapsed % Interval(i) < Cycle
IntervalDueUnlessEvent(i) ==
  Interval(i) # None /\ elapsed % Interval(i) = 0 /\ ~SingleDue(i)
IntervalDue(i) == Interval(i) # None /\ elapsed % Interval(i) = 0

\* Mutant of Sampled: the event is not looked at when the interval is due.
SampledLazily(i) == IF IntervalDue(i) THEN previous[i] ELSE Current(i)
Sampled(i) == Current(i)

\* Mutant of Synced: the instance keeps the locations of its last run.
SyncedNever(i) == image[i]
Synced(i) == shared

\* The history of the triggers, under new globals and the runs of a step.
Served(new, runs) ==
  [i \in Instance |->
     IF Trigger[i] = None \/ (~globals[Trigger[i]] /\ new[Trigger[i]]) THEN 0
     ELSE IF i \in runs THEN IF served[i] = 0 THEN 1 ELSE 2
     ELSE served[i]]

\* apply_configuration_access_writes, at the start of a cycle.
AccessWrites(w) ==
  /\ phase = "writes"
  /\ shared' = Updated(shared, w)
  /\ globals' = Updated(globals, w)
  /\ pending' = Instance
  /\ ran' = {}
  /\ phase' = "programs"
  /\ published' = Updated(published, w)
  /\ served' = Served(globals', {})
  /\ UNCHANGED <<elapsed, image, private, located, previous, seen, since>>

\* The turn of an instance whose task is not due.
Skip(i) ==
  /\ phase = "programs"
  /\ Turns(i)
  /\ ~IntervalDue(i) /\ ~SingleDue(i)
  /\ pending' = pending \ {i}
  /\ previous' = [previous EXCEPT ![i] = Sampled(i)]
  /\ UNCHANGED <<elapsed, phase, shared, globals, image, private, located, ran, history>>

(***************************************************************************)
(* The turn of an instance that is due: the shared locations come in, the  *)
(* body assigns d, e and a, all its locations go out, and then the outputs *)
(* o to the places they are bound to.                                      *)
(***************************************************************************)
Run(i, d, e, a, o) ==
  /\ phase = "programs"
  /\ Turns(i)
  /\ IntervalDue(i) \/ SingleDue(i)
  /\ pending' = pending \ {i}
  /\ previous' = [previous EXCEPT ![i] = Sampled(i)]
  /\ image' = [image EXCEPT ![i] = Updated(Synced(i), d)]
  /\ private' = [private EXCEPT ![i] = Updated(@, e)]
  /\ located' = [located EXCEPT ![i] = Updated(@, a)]
  /\ shared' = Updated(image'[i], o)
  /\ globals' = Updated(globals, o)
  /\ ran' = ran \cup {i}
  /\ published' = Updated(Updated(published, d), o)
  /\ seen' = [seen EXCEPT ![i] = Synced(i)]
  /\ served' = Served(globals', {i})
  /\ since' = IF IntervalDue(i) THEN [since EXCEPT ![i] = 0] ELSE since
  /\ UNCHANGED <<elapsed, phase>>

\* A write, a SINGLE expression, a body or an output binding reports a
\* diagnostic: the run returns it in place of the trace.
Fail ==
  /\ phase = "writes" \/ (phase = "programs" /\ pending # {})
  /\ phase' = "failed"
  /\ UNCHANGED <<elapsed, pending, shared, globals, image, private, located, previous,
                 ran, history>>

EndCycle ==
  /\ phase = "programs"
  /\ pending = {}
  /\ phase' = "writes"
  /\ elapsed' = (elapsed + Cycle) % Hyper
  /\ since' = [i \in Instance |->
                 IF since[i] = None THEN None
                 ELSE IF since[i] + Cycle > 2 * Hyper THEN 2 * Hyper
                 ELSE since[i] + Cycle]
  /\ UNCHANGED <<pending, shared, globals, image, private, located, previous, ran,
                 published, seen, served>>

Next ==
  \/ \E W \in SUBSET Writable : \E w \in [W -> BOOLEAN] : AccessWrites(w)
  \/ \E i \in Instance : Skip(i)
  \/ \E i \in Instance :
       \E d \in [Direct[i] -> BOOLEAN], e \in [External[i] -> BOOLEAN],
          a \in [Located[i] -> BOOLEAN], o \in [Binding[i] -> BOOLEAN] :
         Run(i, d, e, a, o)
  \/ EndCycle
  \/ Fail

Spec == Init /\ [][Next]_vars
-----------------------------------------------------------------------------
Runs(i) == i \in ran' \ ran

\* A program that runs reads at every direct location the value given to it
\* last, by an access path, a body or an output binding, of the same cycle or of
\* an earlier one: no copy in an environment is stale, and exporting all of them
\* overwrites no other program's value.
LocationsAreShared ==
  [][\A i \in Instance : Runs(i) => seen'[i] = published]_vars

\* One rise of its event runs a task at most once, and not at all if a periodic
\* run of the same task came first; whoever raises and lowers the event, at the
\* start of a cycle or between two turns.
OneRunPerRise ==
  [][\A i \in Instance :
       Runs(i) /\ Trigger[i] # None /\ ~IntervalDue(i) => served[i] = 0]_vars

CommonMultiple(i) == {t \in 1 .. Hyper : t % Cycle = 0 /\ t % Interval(i) = 0}

\* Between two periodic runs of a task passes the least common multiple of its
\* INTERVAL and the cycle, never more and never less, however many event runs
\* fall in between.
PeriodicRunsKeepTheirRate ==
  [][\A i \in Instance :
       Runs(i) /\ IntervalDue(i) /\ since[i] # None =>
         /\ since[i] \in CommonMultiple(i)
         /\ \A t \in CommonMultiple(i) : since[i] <= t]_vars

\* No periodic run is missed.
NoPeriodicRunIsMissed ==
  phase = "writes" =>
    \A i \in Instance :
      since[i] # None => \A t \in CommonMultiple(i) : since[i] <= t

\* Programs of one cycle run by priority, so that a program reads in the same
\* scan what a more urgent one published.
UrgentProgramsRunFirst ==
  [][\A i \in Instance : Runs(i) => \A j \in ran : Before(j, i)]_vars

\* What the documentation says of VAR_EXTERNAL: the globals of a configuration
\* are shared by its programs.
GlobalsAreShared ==
  [][\A i \in Instance : Runs(i) =>
       \A g \in External[i] : private[i][g] = globals[g]]_vars

\* What the documentation says of located outputs: a program publishes them.
LocatedOutputsArePublished ==
  [][\A i \in Instance : Runs(i) =>
       \A l \in Located[i] : shared'[l] = located'[i][l]]_vars
=============================================================================
