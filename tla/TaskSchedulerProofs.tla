------------------------- MODULE TaskSchedulerProofs -------------------------
(***************************************************************************)
(* The shared locations, the events and the order of the turns, for every  *)
(* set of program instances.                                               *)
(***************************************************************************)
EXTENDS TaskScheduler, TLAPS

\* An update keeps the domain and the values' type.
LEMMA UpdatedType ==
  ASSUME NEW S, NEW V, NEW f \in [S -> V], NEW D, NEW w \in [D -> V]
  PROVE  Updated(f, w) \in [S -> V]
BY DEF Updated

\* One step, as what it does to the parts the invariants speak of.
LEMMA UpdatedRun ==
  ASSUME TypeOK, NEW i \in Instance,
         NEW d \in [Direct[i] -> BOOLEAN], NEW e \in [External[i] -> BOOLEAN],
         NEW a \in [Located[i] -> BOOLEAN], NEW o \in [Binding[i] -> BOOLEAN],
         Run(i, d, e, a, o)
  PROVE  /\ image'[i] = Updated(shared, d)
         /\ shared' = Updated(Updated(shared, d), o)
BY DEF Run, TypeOK, Synced

\* The runner starts with all places FALSE.
LEMMA InitTypes == Init => TypeOK
<1> SUFFICES ASSUME Init PROVE TypeOK
  OBVIOUS
<1>1. elapsed \in 0 .. Hyper - 1
  BY TasksAssumption DEF Init
<1>2. QED
  BY <1>1 DEF Init, TypeOK

\* Every step of the runner keeps the types.
LEMMA StepTypes ==
  ASSUME TypeOK, [Next]_vars
  PROVE  TypeOK'
<1> USE DEF TypeOK
<1>0. ASSUME NEW new, NEW runs
      PROVE  Served(new, runs) \in [Instance -> 0 .. 2]
  BY DEF Served
<1>1. ASSUME NEW W \in SUBSET Writable, NEW w \in [W -> BOOLEAN], AccessWrites(w)
      PROVE  TypeOK'
  <2>1. shared' \in [Location -> BOOLEAN] /\ globals' \in [Global -> BOOLEAN]
        /\ published' \in [Location -> BOOLEAN]
    BY <1>1, UpdatedType, Zenon DEF AccessWrites
  <2>2. served' \in [Instance -> 0 .. 2]
    BY <1>0, <1>1 DEF AccessWrites
  <2>3. QED
    BY <1>1, <2>1, <2>2 DEF AccessWrites
<1>2. ASSUME NEW i \in Instance, Skip(i)
      PROVE  TypeOK'
  <2>1. Sampled(i) \in BOOLEAN
    BY DEF Sampled, Current
  <2>2. QED
    BY <1>2, <2>1 DEF Skip, history
<1>3. ASSUME NEW i \in Instance,
             NEW d \in [Direct[i] -> BOOLEAN], NEW e \in [External[i] -> BOOLEAN],
             NEW a \in [Located[i] -> BOOLEAN], NEW o \in [Binding[i] -> BOOLEAN],
             Run(i, d, e, a, o)
      PROVE  TypeOK'
  <2>1. image'[i] = Updated(shared, d) /\ shared' = Updated(Updated(shared, d), o)
    BY <1>3, UpdatedRun
  <2>2. Updated(shared, d) \in [Location -> BOOLEAN]
    BY UpdatedType, Zenon
  <2>3. shared' \in [Location -> BOOLEAN]
    BY <2>1, <2>2, UpdatedType, Zenon
  <2>4. image' \in [Instance -> [Location -> BOOLEAN]]
    BY <1>3, <2>2 DEF Run, Synced
  <2>5. private' \in [Instance -> [Global -> BOOLEAN]]
    <3>1. Updated(private[i], e) \in [Global -> BOOLEAN]
      BY UpdatedType, Zenon
    <3>2. QED
      BY <1>3, <3>1 DEF Run
  <2>6. located' \in [Instance -> [Location -> BOOLEAN]]
    <3>1. Updated(located[i], a) \in [Location -> BOOLEAN]
      BY UpdatedType, Zenon
    <3>2. QED
      BY <1>3, <3>1 DEF Run
  <2>7. globals' \in [Global -> BOOLEAN]
    BY <1>3, UpdatedType, Zenon DEF Run
  <2>8. published' \in [Location -> BOOLEAN]
    <3>1. Updated(published, d) \in [Location -> BOOLEAN]
      BY UpdatedType, Zenon
    <3>2. Updated(Updated(published, d), o) \in [Location -> BOOLEAN]
      BY <3>1, UpdatedType, Zenon
    <3>3. QED
      BY <1>3, <3>2 DEF Run
  <2>9. previous' \in [Instance -> BOOLEAN] /\ seen' \in [Instance -> [Location -> BOOLEAN]]
    <3>1. Sampled(i) \in BOOLEAN
      BY DEF Sampled, Current
    <3>2. QED
      BY <1>3, <3>1 DEF Run, Synced
  <2>10. served' \in [Instance -> 0 .. 2]
    BY <1>0, <1>3 DEF Run
  <2>11. since' \in [Instance -> 0 .. 2 * Hyper \cup {None}]
    BY <1>3, TasksAssumption DEF Run
  <2>12. QED
    BY <1>3, <2>3, <2>4, <2>5, <2>6, <2>7, <2>8, <2>9, <2>10, <2>11 DEF Run
<1>4. ASSUME EndCycle
      PROVE  TypeOK'
  <2>1. elapsed' \in 0 .. Hyper - 1
    BY <1>4, TasksAssumption DEF EndCycle
  <2>2. since' \in [Instance -> 0 .. 2 * Hyper \cup {None}]
    <3> DEFINE next(i) == IF since[i] = None THEN None
                          ELSE IF since[i] + Cycle > 2 * Hyper THEN 2 * Hyper
                          ELSE since[i] + Cycle
    <3>1. ASSUME NEW i \in Instance
          PROVE  next(i) \in 0 .. 2 * Hyper \cup {None}
      <4>1. since[i] \in 0 .. 2 * Hyper \cup {None}
        OBVIOUS
      <4>2. QED
        BY <4>1, TasksAssumption
    <3>2. QED
      BY <1>4, <3>1 DEF EndCycle
  <2>3. QED
    BY <1>4, <2>1, <2>2 DEF EndCycle
<1>5. ASSUME Fail
      PROVE  TypeOK'
  BY <1>5 DEF Fail, history
<1>6. ASSUME UNCHANGED vars
      PROVE  TypeOK'
  BY <1>6 DEF vars, runner, history
<1>7. QED
  BY <1>1, <1>2, <1>3, <1>4, <1>5, <1>6 DEF Next

\* The state of the configuration runner keeps its types.
THEOREM SchedulerTypes == Spec => []TypeOK
<1>1. TypeOK /\ [Next]_vars => TypeOK'
  BY StepTypes
<1>2. QED
  BY <1>1, InitTypes, PTL DEF Spec

-----------------------------------------------------------------------------
\* What is in direct_state is what was given to the locations last.
Published == shared = published

\* An event a task ran for since it rose last is remembered.
Remembered ==
  \A i \in Instance :
    Trigger[i] # None /\ globals[Trigger[i]] /\ served[i] # 0 => previous[i]

\* The turns still to come belong to less urgent programs.
Ordered ==
  phase = "programs" => \A j \in ran, k \in pending : Before(j, k)

SchedulerInv == Published /\ Remembered /\ Ordered

\* Only the turn of a due instance adds it, and it alone, to the trace.
LEMMA OnlyTurnsRun ==
  ASSUME [Next]_vars, NEW i \in Instance, Runs(i)
  PROVE  \E d \in [Direct[i] -> BOOLEAN], e \in [External[i] -> BOOLEAN],
            a \in [Located[i] -> BOOLEAN], o \in [Binding[i] -> BOOLEAN] :
           Run(i, d, e, a, o)
<1>1. ASSUME NEW W \in SUBSET Writable, NEW w \in [W -> BOOLEAN], AccessWrites(w)
      PROVE  FALSE
  BY <1>1 DEF AccessWrites, Runs
<1>2. ASSUME NEW j \in Instance, Skip(j)
      PROVE  FALSE
  BY <1>2 DEF Skip, Runs
<1>3. ASSUME EndCycle \/ Fail \/ UNCHANGED vars
      PROVE  FALSE
  BY <1>3 DEF EndCycle, Fail, Runs, vars, runner
<1>4. ASSUME NEW j \in Instance,
             NEW d \in [Direct[j] -> BOOLEAN], NEW e \in [External[j] -> BOOLEAN],
             NEW a \in [Located[j] -> BOOLEAN], NEW o \in [Binding[j] -> BOOLEAN],
             Run(j, d, e, a, o)
      PROVE  i = j
  BY <1>4 DEF Run, Runs
<1>5. QED
  BY <1>1, <1>2, <1>3, <1>4 DEF Next

\* A trigger that does not rise in a step keeps or raises its count of runs.
LEMMA ServedNone ==
  ASSUME NEW new, NEW runs, NEW i \in Instance, i \notin runs,
         Trigger[i] # None, new[Trigger[i]], Served(new, runs)[i] # 0
  PROVE  globals[Trigger[i]] /\ served[i] # 0
BY DEF Served

\* A run counts for a trigger that was TRUE before it.
LEMMA ServedRun ==
  ASSUME NEW new, NEW runs, NEW i \in Instance,
         Trigger[i] # None, new[Trigger[i]], Served(new, runs)[i] # 0
  PROVE  globals[Trigger[i]]
BY DEF Served

\* Initially nothing ran and every place is FALSE.
LEMMA InitSchedulerInv == Init => SchedulerInv
BY DEF Init, SchedulerInv, Published, Remembered, Ordered

\* Every step keeps the invariant.
LEMMA StepSchedulerInv ==
  ASSUME TypeOK, SchedulerInv, [Next]_vars
  PROVE  SchedulerInv'
<1> USE DEF SchedulerInv
<1>1. ASSUME NEW W \in SUBSET Writable, NEW w \in [W -> BOOLEAN], AccessWrites(w)
      PROVE  SchedulerInv'
  <2>1. Published'
    BY <1>1 DEF AccessWrites, Published
  <2>2. Remembered'
    <3> SUFFICES ASSUME NEW i \in Instance, Trigger[i] # None,
                        globals'[Trigger[i]], served'[i] # 0
                 PROVE  previous'[i]
      BY DEF Remembered
    <3>1. globals[Trigger[i]] /\ served[i] # 0
      BY <1>1, ServedNone DEF AccessWrites
    <3>2. QED
      BY <1>1, <3>1 DEF AccessWrites, Remembered
  <2>3. Ordered'
    BY <1>1 DEF AccessWrites, Ordered
  <2>4. QED
    BY <2>1, <2>2, <2>3
<1>2. ASSUME NEW i \in Instance, Skip(i)
      PROVE  SchedulerInv'
  <2>1. Published'
    BY <1>2 DEF Skip, history, Published
  <2>2. Remembered'
    <3> SUFFICES ASSUME NEW j \in Instance, Trigger[j] # None,
                        globals[Trigger[j]], served[j] # 0
                 PROVE  previous'[j]
      BY <1>2 DEF Skip, history, Remembered
    <3>1. CASE j = i
      BY <1>2, <3>1 DEF Skip, Sampled, Current, TypeOK
    <3>2. CASE j # i
      BY <1>2, <3>2 DEF Skip, Remembered, TypeOK
    <3>3. QED
      BY <3>1, <3>2
  <2>3. Ordered'
    BY <1>2 DEF Skip, Ordered
  <2>4. QED
    BY <2>1, <2>2, <2>3
<1>3. ASSUME NEW i \in Instance,
             NEW d \in [Direct[i] -> BOOLEAN], NEW e \in [External[i] -> BOOLEAN],
             NEW a \in [Located[i] -> BOOLEAN], NEW o \in [Binding[i] -> BOOLEAN],
             Run(i, d, e, a, o)
      PROVE  SchedulerInv'
  <2>1. Published'
    BY <1>3, UpdatedRun DEF Run, Published
  <2>2. Remembered'
    <3> SUFFICES ASSUME NEW j \in Instance, Trigger[j] # None,
                        globals'[Trigger[j]], served'[j] # 0
                 PROVE  previous'[j]
      BY DEF Remembered
    <3>1. CASE j = i
      <4>1. globals[Trigger[i]]
        BY <1>3, <3>1, ServedRun DEF Run
      <4>2. QED
        BY <1>3, <3>1, <4>1 DEF Run, Sampled, Current, TypeOK
    <3>2. CASE j # i
      <4>1. globals[Trigger[j]] /\ served[j] # 0
        BY <1>3, <3>2, ServedNone DEF Run
      <4>2. QED
        BY <1>3, <3>2, <4>1 DEF Run, Remembered, TypeOK
    <3>3. QED
      BY <3>1, <3>2
  <2>3. Ordered'
    BY <1>3 DEF Run, Turns, Ordered
  <2>4. QED
    BY <2>1, <2>2, <2>3
<1>4. ASSUME EndCycle
      PROVE  SchedulerInv'
  BY <1>4 DEF EndCycle, Published, Remembered, Ordered
<1>5. ASSUME Fail
      PROVE  SchedulerInv'
  BY <1>5 DEF Fail, history, Published, Remembered, Ordered
<1>6. ASSUME UNCHANGED vars
      PROVE  SchedulerInv'
  BY <1>6 DEF vars, runner, history, Published, Remembered, Ordered
<1>7. QED
  BY <1>1, <1>2, <1>3, <1>4, <1>5, <1>6 DEF Next

\* The invariant holds throughout, with the types.
LEMMA SchedulerInvariant == Spec => [](TypeOK /\ SchedulerInv)
<1>1. Init => TypeOK /\ SchedulerInv
  BY InitTypes, InitSchedulerInv
<1>2. TypeOK /\ SchedulerInv /\ [Next]_vars => TypeOK' /\ SchedulerInv'
  BY StepTypes, StepSchedulerInv
<1>3. QED
  BY <1>1, <1>2, PTL DEF Spec

\* A program reads at every direct location the value given to it last.
THEOREM NoStaleLocation == Spec => LocationsAreShared
<1>1. TypeOK /\ SchedulerInv /\ [Next]_vars
        => [\A i \in Instance : Runs(i) => seen'[i] = published]_vars
  <2> SUFFICES ASSUME SchedulerInv, TypeOK, [Next]_vars, NEW i \in Instance, Runs(i)
               PROVE  seen'[i] = published
    OBVIOUS
  <2>1. PICK d, e, a, o : Run(i, d, e, a, o)
    BY OnlyTurnsRun
  <2>2. seen' = [seen EXCEPT ![i] = shared]
    BY <2>1 DEF Run, Synced
  <2>3. QED
    BY <2>2 DEF TypeOK, SchedulerInv, Published
<1>2. QED
  BY <1>1, SchedulerInvariant, PTL DEF Spec, LocationsAreShared

\* One rise of its event runs a task at most once.
THEOREM EventsRunOnce == Spec => OneRunPerRise
<1>1. SchedulerInv /\ [Next]_vars
        => [\A i \in Instance :
              Runs(i) /\ Trigger[i] # None /\ ~IntervalDue(i) => served[i] = 0]_vars
  <2> SUFFICES ASSUME SchedulerInv, [Next]_vars, NEW i \in Instance,
                      Runs(i), Trigger[i] # None, ~IntervalDue(i)
               PROVE  served[i] = 0
    OBVIOUS
  <2>1. SingleDue(i)
    BY OnlyTurnsRun DEF Run
  <2>2. QED
    BY <2>1 DEF SingleDue, Current, SchedulerInv, Remembered
<1>2. QED
  BY <1>1, SchedulerInvariant, PTL DEF Spec, OneRunPerRise

\* In one cycle every program runs after all the more urgent ones that run.
THEOREM PriorityOrdersTurns == Spec => UrgentProgramsRunFirst
<1>1. SchedulerInv /\ [Next]_vars
        => [\A i \in Instance : Runs(i) => \A j \in ran : Before(j, i)]_vars
  <2> SUFFICES ASSUME SchedulerInv, [Next]_vars, NEW i \in Instance, Runs(i),
                      NEW j \in ran
               PROVE  Before(j, i)
    OBVIOUS
  <2>1. phase = "programs" /\ i \in pending
    BY OnlyTurnsRun DEF Run, Turns
  <2>2. QED
    BY <2>1 DEF SchedulerInv, Ordered
<1>2. QED
  BY <1>1, SchedulerInvariant, PTL DEF Spec, UrgentProgramsRunFirst

-----------------------------------------------------------------------------
(***************************************************************************)
(* Multiples, as `%' tells them.                                           *)
(***************************************************************************)
\* Division with remainder.
LEMMA Division ==
  ASSUME NEW n \in Int, NEW d \in Nat \ {0}
  PROVE  n = d * (n \div d) + (n % d) /\ n \div d \in Int
OBVIOUS

\* Without remainder a number is a multiple.
LEMMA IsMultiple ==
  ASSUME NEW n \in Int, NEW d \in Nat \ {0}, n % d = 0
  PROVE  \E k \in Int : n = d * k
<1>1. n = d * (n \div d) + 0 /\ n \div d \in Int
  BY Division
<1>2. n = d * (n \div d)
  BY <1>1
<1> QED
  BY <1>1, <1>2

\* A multiple has no remainder.
LEMMA MultipleDivides ==
  ASSUME NEW k \in Int, NEW d \in Nat \ {0}
  PROVE  (d * k) % d = 0
OBVIOUS

\* Sums and differences of multiples are multiples.
LEMMA SumsDivide ==
  ASSUME NEW a \in Int, NEW b \in Int, NEW d \in Nat \ {0}, a % d = 0, b % d = 0
  PROVE  (a + b) % d = 0 /\ (a - b) % d = 0
<1>1. PICK i \in Int : a = d * i
  BY IsMultiple
<1>2. PICK j \in Int : b = d * j
  BY IsMultiple
<1>3. a + b = d * (i + j) /\ a - b = d * (i - j)
  BY <1>1, <1>2
<1> QED
  BY <1>3, MultipleDivides

\* Between two multiples lies a whole interval.
LEMMA MultiplesAreApart ==
  ASSUME NEW a \in Int, NEW b \in Int, NEW d \in Nat \ {0}, a % d = 0, b % d = 0, a < b
  PROVE  a + d <= b
<1>1. PICK i \in Int : a = d * i
  BY IsMultiple
<1>2. PICK j \in Int : b = d * j
  BY IsMultiple
<1>3. i < j
  BY <1>1, <1>2
<1>4. d * (i + 1) <= d * j
  BY <1>3
<1> QED
  BY <1>1, <1>2, <1>4

(***************************************************************************)
(* The rate of periodic runs.                                              *)
(***************************************************************************)
Periodic(i) == since[i] # None

\* Elapsed time comes in cycles, also after it wrapped.
WholeCycles == elapsed % Cycle = 0

\* Time since a periodic run is the elapsed time since, up to intervals.
InPhase(i) ==
  /\ Interval(i) # None
  /\ since[i] % Cycle = 0
  /\ (elapsed - since[i]) % Interval(i) = 0

\* Before its turn an instance may be due, afterwards it is not.
BeforeTurn(i) == since[i] > 0 /\ \A t \in CommonMultiple(i) : since[i] <= t
AfterTurn(i)  == \A t \in CommonMultiple(i) : since[i] < t
OnTime(i) ==
  /\ phase = "writes" => BeforeTurn(i)
  /\ phase = "programs" /\ i \in pending => BeforeTurn(i)
  /\ phase = "programs" /\ i \notin pending => AfterTurn(i)

RateInv ==
  /\ WholeCycles
  /\ \A i \in Instance : Periodic(i) => InPhase(i) /\ OnTime(i)

\* Cycle and hyper-period are positive, and multiples of the cycle.
LEMMA TimesType ==
  Cycle \in Nat \ {0} /\ Hyper \in Nat \ {0} /\ Hyper % Cycle = 0 /\ Cycle % Cycle = 0
BY TasksAssumption

\* The interval of an instance is positive and divides the hyper-period.
LEMMA IntervalType ==
  ASSUME NEW i \in Instance, Interval(i) # None
  PROVE  Interval(i) \in Nat \ {0} /\ Hyper % Interval(i) = 0
BY TasksAssumption DEF Interval, AtLeast1

\* An interval and the cycle have a common multiple, the hyper-period.
LEMMA HyperIsCommon ==
  ASSUME NEW i \in Instance, Interval(i) # None
  PROVE  Hyper \in CommonMultiple(i)
BY IntervalType, TasksAssumption DEF CommonMultiple

\* A due instance has waited for a common multiple; one that is not due has not.
LEMMA DueAtMultiples ==
  ASSUME TypeOK, NEW i \in Instance, Periodic(i), InPhase(i)
  PROVE  IntervalDue(i) <=> since[i] % Interval(i) = 0
<1> DEFINE s == since[i]
           d == Interval(i)
<1>1. s \in Int /\ elapsed \in Int /\ d \in Nat \ {0}
  BY IntervalType, TasksAssumption DEF TypeOK, Periodic, InPhase
<1>2. (elapsed - s) % d = 0
  BY DEF InPhase
<1>3. ASSUME elapsed % d = 0 PROVE s % d = 0
  <2>1. (elapsed - (elapsed - s)) % d = 0
    BY <1>1, <1>2, <1>3, SumsDivide
  <2> QED
    BY <1>1, <2>1
<1>4. ASSUME s % d = 0 PROVE elapsed % d = 0
  <2>1. ((elapsed - s) + s) % d = 0
    BY <1>1, <1>2, <1>4, SumsDivide
  <2> QED
    BY <1>1, <2>1
<1> QED
  BY <1>3, <1>4 DEF IntervalDue, InPhase

\* An instance whose interval is not due stays short of every common multiple.
LEMMA NotDue ==
  ASSUME TypeOK, NEW i \in Instance, Periodic(i), InPhase(i), BeforeTurn(i), ~IntervalDue(i)
  PROVE  AfterTurn(i)
<1> SUFFICES ASSUME NEW t \in CommonMultiple(i)
             PROVE  since[i] < t
  BY DEF AfterTurn
<1>1. since[i] # t
  BY DueAtMultiples DEF CommonMultiple
<1>2. since[i] <= t /\ since[i] \in Int /\ t \in Int
  BY TasksAssumption DEF BeforeTurn, CommonMultiple, TypeOK, Periodic
<1> QED
  BY <1>1, <1>2

\* The runner starts with nothing run.
LEMMA InitRate == Init => RateInv
<1>1. 0 % Cycle = 0
  BY TasksAssumption
<1> QED
  BY <1>1 DEF Init, RateInv, WholeCycles, Periodic

\* A step that is no turn and leaves the time alone keeps the rate.
LEMMA EvenStep ==
  ASSUME RateInv, UNCHANGED <<elapsed, since>>,
         \/ UNCHANGED <<phase, pending>>
         \/ phase' = "failed"
         \/ phase = "writes" /\ phase' = "programs" /\ pending' = Instance
  PROVE  RateInv'
BY DEF RateInv, WholeCycles, Periodic, InPhase, OnTime, BeforeTurn, AfterTurn, CommonMultiple

\* The turn of an instance: it runs by its interval, or it was not due.
LEMMA TurnKeepsRate ==
  ASSUME TypeOK, RateInv, NEW i \in Instance, i \in pending,
         phase = "programs", UNCHANGED <<elapsed, phase>>, pending' = pending \ {i},
         since' = IF IntervalDue(i) THEN [since EXCEPT ![i] = 0] ELSE since
  PROVE  RateInv'
<1>1. WholeCycles'
  BY DEF RateInv, WholeCycles
<1>2. ASSUME NEW j \in Instance, Periodic(j)'
      PROVE  InPhase(j)' /\ OnTime(j)'
  <2>1. CASE j = i /\ IntervalDue(i)
    <3>1. since'[j] = 0
      BY <2>1 DEF TypeOK
    <3>2. Interval(i) # None /\ elapsed % Interval(i) = 0 /\ elapsed \in Int
      BY <2>1, TasksAssumption DEF IntervalDue, TypeOK
    <3>3. 0 % Cycle = 0 /\ elapsed - 0 = elapsed
      BY <3>2, TasksAssumption
    <3>4. InPhase(j)'
      BY <2>1, <3>1, <3>2, <3>3 DEF InPhase
    <3>5. AfterTurn(j)'
      BY <3>1, TasksAssumption DEF AfterTurn, CommonMultiple
    <3> QED
      BY <2>1, <3>4, <3>5 DEF OnTime
  <2>2. CASE j = i /\ ~IntervalDue(i)
    <3>1. Periodic(j) /\ InPhase(j) /\ BeforeTurn(j)
      BY <1>2, <2>2 DEF Periodic, RateInv, OnTime
    <3>2. AfterTurn(j)
      BY <2>2, <3>1, NotDue
    <3> QED
      BY <2>2, <3>1, <3>2 DEF InPhase, OnTime, AfterTurn, CommonMultiple
  <2>3. CASE j # i
    <3>1. since'[j] = since[j]
      BY <2>3 DEF TypeOK
    <3>2. Periodic(j) /\ InPhase(j) /\ OnTime(j)
      BY <1>2, <3>1 DEF Periodic, RateInv
    <3> QED
      BY <2>3, <3>1, <3>2 DEF InPhase, OnTime, BeforeTurn, AfterTurn, CommonMultiple
  <2> QED
    BY <2>1, <2>2, <2>3
<1> QED
  BY <1>1, <1>2 DEF RateInv

\* A cycle more of elapsed time, modulo the hyper-period, is a multiple if that time was.
LEMMA WrappedTime ==
  ASSUME NEW d \in Nat \ {0}, NEW n \in Int, NEW x \in Int, NEW y \in Int,
         Hyper % d = 0, x % d = 0, y = x \/ y = x - Hyper
  PROVE  y % d = 0
<1>1. Hyper \in Int
  BY TimesType
<1>2. (x - Hyper) % d = 0
  BY <1>1, SumsDivide
<1> QED
  BY <1>2

\* The end of a cycle: time goes on by a cycle, short of every common multiple.
LEMMA CycleKeepsRate ==
  ASSUME TypeOK, RateInv, EndCycle
  PROVE  RateInv'
<1>0. Cycle \in Nat \ {0} /\ Cycle \in Int /\ Hyper \in Int /\ Hyper > 0
      /\ Hyper % Cycle = 0 /\ Cycle % Cycle = 0
  BY TimesType
<1>1. elapsed \in Int /\ 0 <= elapsed /\ elapsed < Hyper /\ elapsed % Cycle = 0
  BY <1>0 DEF TypeOK, RateInv, WholeCycles
<1>2. elapsed + Cycle <= Hyper
  BY <1>0, <1>1, MultiplesAreApart
<1>3. elapsed' = elapsed + Cycle \/ elapsed' = (elapsed + Cycle) - Hyper
  <2>1. elapsed' = (elapsed + Cycle) % Hyper
    BY DEF EndCycle
  <2>2. CASE elapsed + Cycle < Hyper
    BY <1>0, <1>1, <2>1, <2>2
  <2>3. CASE elapsed + Cycle = Hyper
    BY <1>0, <1>1, <2>1, <2>3
  <2> QED
    BY <1>0, <1>1, <1>2, <2>2, <2>3
<1>4. elapsed' \in Int
  BY <1>0, <1>1, <1>3
<1>5. WholeCycles'
  <2>1. (elapsed + Cycle) % Cycle = 0 /\ elapsed + Cycle \in Int
    <3>1. (elapsed + Cycle) % Cycle = 0
      BY <1>0, <1>1, SumsDivide
    <3> QED
      BY <1>0, <1>1, <3>1
  <2>2. elapsed' % Cycle = 0
    <3> DEFINE x == elapsed + Cycle
    <3>1. x \in Int /\ x % Cycle = 0
      BY <2>1, Zenon
    <3>2. elapsed' = x \/ elapsed' = x - Hyper
      BY <1>3, Zenon
    <3> HIDE DEF x
    <3> QED
      BY <1>0, <1>4, <3>1, <3>2, WrappedTime
  <2> QED
    BY <2>2 DEF WholeCycles
<1>6. ASSUME NEW i \in Instance, Periodic(i)'
      PROVE  InPhase(i)' /\ OnTime(i)'
  <2>1. Periodic(i) /\ InPhase(i) /\ AfterTurn(i)
    BY <1>6 DEF EndCycle, Periodic, RateInv, OnTime
  <2>2. since[i] \in Int /\ 0 <= since[i] /\ since[i] < Hyper
    BY <1>0, <2>1, HyperIsCommon DEF TypeOK, Periodic, AfterTurn, InPhase
  <2>3. since[i] + Cycle <= Hyper
    <3>1. since[i] % Cycle = 0
      BY <2>1 DEF InPhase
    <3> QED
      BY <1>0, <2>2, <3>1, MultiplesAreApart
  <2>4. since'[i] = since[i] + Cycle
    BY <1>0, <2>1, <2>2, <2>3 DEF EndCycle, Periodic
  <2>5. InPhase(i)'
    <3>1. Interval(i) \in Nat \ {0} /\ Hyper % Interval(i) = 0
      BY <2>1, IntervalType DEF InPhase
    <3>2. since'[i] % Cycle = 0
      BY <1>0, <2>1, <2>2, <2>4, SumsDivide DEF InPhase
    <3>3. (elapsed - since[i]) % Interval(i) = 0
      BY <2>1 DEF InPhase
    <3>4. \/ elapsed' - since'[i] = elapsed - since[i]
          \/ elapsed' - since'[i] = (elapsed - since[i]) - Hyper
      BY <1>0, <1>1, <1>3, <2>2, <2>4
    <3>5. (elapsed' - since'[i]) % Interval(i) = 0
      <4>1. elapsed - since[i] \in Int /\ elapsed' - since'[i] \in Int
        BY <1>0, <1>1, <1>4, <2>2, <2>4
      <4> QED
        BY <3>1, <3>3, <3>4, <4>1, WrappedTime
    <3> QED
      BY <2>1, <3>2, <3>5 DEF InPhase
  <2>6. BeforeTurn(i)'
    <3> SUFFICES ASSUME NEW t \in CommonMultiple(i)
                 PROVE  since'[i] <= t
      BY <1>0, <2>2, <2>4 DEF BeforeTurn, CommonMultiple
    <3>1. t \in Int /\ t % Cycle = 0 /\ since[i] < t
      BY <1>0, <2>1 DEF CommonMultiple, AfterTurn
    <3> QED
      BY <1>0, <2>1, <2>2, <2>4, <3>1, MultiplesAreApart DEF InPhase
  <2> QED
    BY <2>5, <2>6 DEF EndCycle, OnTime
<1> QED
  BY <1>5, <1>6 DEF RateInv

\* Every step of the runner keeps the rate.
LEMMA StepRate ==
  ASSUME TypeOK, RateInv, [Next]_vars
  PROVE  RateInv'
<1>1. ASSUME NEW W \in SUBSET Writable, NEW w \in [W -> BOOLEAN], AccessWrites(w)
      PROVE  RateInv'
  BY <1>1, EvenStep DEF AccessWrites
<1>2. ASSUME NEW i \in Instance, Skip(i)
      PROVE  RateInv'
  BY <1>2, TurnKeepsRate DEF Skip, Turns, history
<1>3. ASSUME NEW i \in Instance,
             NEW d \in [Direct[i] -> BOOLEAN], NEW e \in [External[i] -> BOOLEAN],
             NEW a \in [Located[i] -> BOOLEAN], NEW o \in [Binding[i] -> BOOLEAN],
             Run(i, d, e, a, o)
      PROVE  RateInv'
  BY <1>3, TurnKeepsRate DEF Run, Turns
<1>4. ASSUME EndCycle
      PROVE  RateInv'
  BY <1>4, CycleKeepsRate
<1>5. ASSUME Fail
      PROVE  RateInv'
  BY <1>5, EvenStep DEF Fail, history
<1>6. ASSUME UNCHANGED vars
      PROVE  RateInv'
  BY <1>6, EvenStep DEF vars, runner, history
<1>7. QED
  BY <1>1, <1>2, <1>3, <1>4, <1>5, <1>6 DEF Next

\* The rate is kept throughout.
LEMMA RateInvariant == Spec => [](TypeOK /\ RateInv)
<1>1. Init => TypeOK /\ RateInv
  BY InitTypes, InitRate
<1>2. TypeOK /\ RateInv /\ [Next]_vars => TypeOK' /\ RateInv'
  BY StepTypes, StepRate
<1>3. QED
  BY <1>1, <1>2, PTL DEF Spec

\* No instance waits longer than the least common multiple of its INTERVAL and
\* the cycle, whatever its event does (iec_runtime/src/lib.rs:401-452).
THEOREM NoRunIsMissed == Spec => []NoPeriodicRunIsMissed
<1>1. RateInv => NoPeriodicRunIsMissed
  BY DEF RateInv, NoPeriodicRunIsMissed, Periodic, OnTime, BeforeTurn
<1>2. QED
  BY <1>1, RateInvariant, PTL

\* A periodic run comes exactly the least common multiple after the one before.
THEOREM RunsKeepTheirRate == Spec => PeriodicRunsKeepTheirRate
<1>1. TypeOK /\ RateInv /\ [Next]_vars
        => [\A i \in Instance :
              Runs(i) /\ IntervalDue(i) /\ since[i] # None =>
                /\ since[i] \in CommonMultiple(i)
                /\ \A t \in CommonMultiple(i) : since[i] <= t]_vars
  <2> SUFFICES ASSUME TypeOK, RateInv, [Next]_vars, NEW i \in Instance,
                      Runs(i), IntervalDue(i), since[i] # None
               PROVE  /\ since[i] \in CommonMultiple(i)
                      /\ \A t \in CommonMultiple(i) : since[i] <= t
    OBVIOUS
  <2>1. phase = "programs" /\ i \in pending
    BY OnlyTurnsRun DEF Run, Turns
  <2>2. Periodic(i) /\ InPhase(i) /\ BeforeTurn(i)
    BY <2>1 DEF RateInv, Periodic, OnTime
  <2>3. since[i] % Interval(i) = 0 /\ since[i] % Cycle = 0
    BY <2>2, DueAtMultiples DEF InPhase
  <2>4. Interval(i) # None
    BY <2>2 DEF InPhase
  <2>5. since[i] \in 1 .. Hyper
    <3>1. since[i] <= Hyper
      BY <2>2, <2>4, HyperIsCommon DEF BeforeTurn
    <3> QED
      BY <2>2, <3>1, TasksAssumption DEF TypeOK, BeforeTurn
  <2> QED
    BY <2>2, <2>3, <2>5 DEF CommonMultiple, BeforeTurn
<1>2. QED
  BY <1>1, RateInvariant, PTL DEF Spec, PeriodicRunsKeepTheirRate
=============================================================================
