----------------------- MODULE SfcActionControlProofs -----------------------
(***************************************************************************)
(* What the two deciders return: both keep the type of an action's         *)
(* control, and on ordinary inputs they are equal.                         *)
(***************************************************************************)
EXTENDS SfcActionControl, WellFoundedInduction, TLAPS

(***************************************************************************)
(* Inputs.                                                                 *)
(***************************************************************************)

\* The positions of a sequence are naturals, its elements in its range.
LEMMA Elements ==
  ASSUME NEW S, NEW s \in Seq(S)
  PROVE  \A i \in DOMAIN s : i \in Nat /\ s[i] \in S
OBVIOUS

\* A set of naturals that is not empty has a least element.
LEMMA LeastNatural ==
  ASSUME NEW T, T \subseteq Nat, T # {}
  PROVE  \E m \in T : \A k \in T : m <= k
<1>1. PICK m \in T : \A k \in T : ~ (<<k, m>> \in OpToRel(<, Nat))
  BY NatLessThanWellFounded, WFMin
<1>2. \A k \in T : ~ (k < m)
  BY <1>1 DEF OpToRel
<1>3. QED
  BY <1>2

\* Under one duration per qualifier it does not matter whose duration is taken.
LEMMA SameDuration ==
  ASSUME NEW inputs \in Seq(Input), Ordinary(inputs), NEW q, Active(inputs, q)
  PROVE  FirstDuration(inputs, q) = ActiveDuration(inputs, q)
<1> DEFINE T == {i \in DOMAIN inputs : inputs[i].qualifier = q}
<1>1. PICK a \in DOMAIN inputs : inputs[a].active /\ inputs[a].qualifier = q
  BY DEF Active
<1>2. T \subseteq Nat /\ T # {}
  BY <1>1
<1>3. PICK m \in T : \A k \in T : m <= k
  BY <1>2, LeastNatural
<1>4. FirstDuration(inputs, q) = inputs[a].duration
  <2> DEFINE F(i) == /\ inputs[i].qualifier = q
                     /\ \A j \in DOMAIN inputs : inputs[j].qualifier = q => i <= j
  <2>1. m \in DOMAIN inputs /\ F(m)
    BY <1>3
  <2>2. (CHOOSE i \in DOMAIN inputs : F(i)) \in DOMAIN inputs
        /\ F(CHOOSE i \in DOMAIN inputs : F(i))
    BY <2>1
  <2>3. Has(inputs, q)
    BY <1>1 DEF Has
  <2>4. FirstDuration(inputs, q) = inputs[CHOOSE i \in DOMAIN inputs : F(i)].duration
    BY <2>3 DEF FirstDuration
  <2>5. QED
    BY <1>1, <2>2, <2>4 DEF Ordinary
<1>5. ActiveDuration(inputs, q) = inputs[a].duration
  <2> DEFINE C == CHOOSE i \in DOMAIN inputs : inputs[i].active /\ inputs[i].qualifier = q
  <2>1. C \in DOMAIN inputs /\ inputs[C].qualifier = q
    BY <1>1
  <2>2. ActiveDuration(inputs, q) = inputs[C].duration
    BY DEF ActiveDuration
  <2>3. QED
    BY <1>1, <2>1, <2>2 DEF Ordinary
<1>6. QED
  BY <1>4, <1>5

\* Without contention at most one timed qualifier is active.
LEMMA OneTimer ==
  ASSUME NEW inputs, ~Contention(inputs)
  PROVE  \A q, r \in TimedQualifier :
           Active(inputs, q) /\ Active(inputs, r) => q = r
BY DEF Contention, ActiveTimed, Active

\* No timed input is active iff none is active by any timed qualifier.
LEMMA NoTimer ==
  ASSUME NEW inputs
  PROVE  ActiveTimed(inputs) = {} <=> \A q \in TimedQualifier : ~Active(inputs, q)
BY DEF ActiveTimed, Active

\* Without an SL association nothing sets the timer of a limited action.
LEMMA NoLimited ==
  ASSUME NEW inputs, ~Has(inputs, "SL")
  PROVE  /\ ~Active(inputs, "SL")
         /\ \A c : ~Relatches(inputs, c)
BY DEF Has, Active, Relatches, ActiveInputs

\* Active is a truth value, whatever the inputs.
LEMMA ActiveType == \A inputs, q : Active(inputs, q) \in BOOLEAN
BY DEF Active

(***************************************************************************)
(* The control of an action.                                               *)
(***************************************************************************)

\* A timer that advances stays within the horizon.
LEMMA AdvanceType ==
  \A e \in 0 .. Horizon : Advance(e) \in 0 .. Horizon
BY TimeAssumption, SMT DEF Advance

\* Resetting, remembering and setting keep the type of a control.
LEMMA PreparedType ==
  ASSUME NEW inputs, NEW c \in Control
  PROVE  Prepared(inputs, c) \in Control
<1>1. 0 \in 0 .. Horizon
  BY TimeAssumption
<1>2. Reset(inputs, c) \in Control
  BY <1>1 DEF Reset, Control
<1>3. \A d \in Control : Remember(inputs, d) \in Control
  BY ActiveType DEF Remember, Control
<1>4. \A d \in Control : Set(inputs, d) \in Control
  BY DEF Set, Control
<1>5. QED
  BY <1>2, <1>3, <1>4 DEF Prepared

\* sfc_action_should_execute keeps the type of a control.
LEMMA InterpreterType ==
  ASSUME NEW inputs, NEW c \in Control
  PROVE  InterpreterDecides(inputs, c).control \in Control
<1> DEFINE p == InterpreterTimer(inputs, Prepared(inputs, c))
<1>1. 0 \in 0 .. Horizon
  BY TimeAssumption
<1>2. Prepared(inputs, c) \in Control
  BY PreparedType
<1>3. p \in Control
  BY <1>1, <1>2, AdvanceType, ActiveType DEF InterpreterTimer, Control
<1>4. p.elapsed \in 0 .. Horizon
  BY <1>3 DEF Control
<1>5. (Advance(p.elapsed) <= ActiveDuration(inputs, "SL")) \in BOOLEAN
  OBVIOUS
<1>6. [p EXCEPT !.elapsed = Advance(p.elapsed),
                !.stored = Advance(p.elapsed) <= ActiveDuration(inputs, "SL")] \in Control
  BY <1>3, <1>4, <1>5, AdvanceType DEF Control
<1>7. QED
  BY <1>3, <1>6 DEF InterpreterDecides

\* The code printed by emit_sfc_action_execution keeps the type of a control.
LEMMA GeneratedType ==
  ASSUME NEW inputs, NEW c \in Control
  PROVE  GeneratedDecides(inputs, c).control \in Control
<1> DEFINE l  == Timed(inputs, "L", Prepared(inputs, c))
           d  == Timed(inputs, "D", l)
           sd == Delayed(inputs, "SD", d)
           ds == Delayed(inputs, "DS", sd)
           la == Latched(inputs, ds)
           li == Limited(inputs, la)
<1>1. 0 \in 0 .. Horizon
  BY TimeAssumption
<1>2. \A q : \A x \in Control : Timed(inputs, q, x) \in Control
  BY AdvanceType DEF Timed, Control
<1>3. \A q : \A x \in Control : Delayed(inputs, q, x) \in Control
  <2> SUFFICES ASSUME NEW q, NEW x \in Control PROVE Delayed(inputs, q, x) \in Control
    OBVIOUS
  <2> DEFINE t == Timed(inputs, q, x)
             reached == Active(inputs, q) /\ t.elapsed >= FirstDuration(inputs, q)
  <2>1. t \in Control
    BY <1>2
  <2>2. (t.stored \/ reached) \in BOOLEAN
    OBVIOUS
  <2>3. [t EXCEPT !.stored = t.stored \/ reached] \in Control
    BY <2>1, <2>2 DEF Control
  <2>4. QED
    BY <2>3 DEF Delayed
<1>4. Prepared(inputs, c) \in Control
  BY PreparedType
<1>5. ds \in Control
  BY <1>2, <1>3, <1>4
<1>6. la \in Control
  BY <1>1, <1>5 DEF Latched, Control
<1>7. li \in Control
  <2>1. la.elapsed \in 0 .. Horizon
    BY <1>6 DEF Control
  <2>2. Advance(la.elapsed) \in 0 .. Horizon
    BY <2>1, AdvanceType
  <2>3. (Advance(la.elapsed) <= FirstDuration(inputs, "SL")) \in BOOLEAN
    OBVIOUS
  <2>4. QED
    BY <1>6, <2>2, <2>3 DEF Limited, Control
<1>8. StopTimer(inputs, li) \in Control
  BY <1>1, <1>7 DEF StopTimer, Control
<1>9. QED
  BY <1>8 DEF GeneratedDecides

\* On ordinary inputs the two back ends decide alike.
THEOREM DecisionsAgree ==
  ASSUME NEW inputs \in Seq(Input), Ordinary(inputs), NEW c \in Control
  PROVE  InterpreterDecides(inputs, c) = GeneratedDecides(inputs, c)
<1> DEFINE P  == Prepared(inputs, c)
           a  == Advance(P.elapsed)
           ip == InterpreterTimer(inputs, P)
           l  == Timed(inputs, "L", P)
           d  == Timed(inputs, "D", l)
           sd == Delayed(inputs, "SD", d)
           ds == Delayed(inputs, "DS", sd)
           R  == \/ Untimed(inputs, c)
                 \/ Active(inputs, "L") /\ l.elapsed <= FirstDuration(inputs, "L")
                 \/ Active(inputs, "D") /\ d.elapsed >= FirstDuration(inputs, "D")
                 \/ ds.stored
<1> USE DEF TimedQualifier
<1>1. ~Contention(inputs) /\ ~Has(inputs, "SL")
  BY DEF Ordinary
<1>2. InterpreterDecides(inputs, c) =
        [control   |-> ip,
         execute   |-> (Untimed(inputs, c) \/ InterpreterRuns(inputs, ip))
                         /\ ~Active(inputs, "R"),
         diagnosed |-> FALSE]
  BY <1>1 DEF InterpreterDecides
<1>3. GeneratedDecides(inputs, c) =
        [control   |-> StopTimer(inputs, ds),
         execute   |-> R /\ ~Active(inputs, "R"),
         diagnosed |-> FALSE]
  BY <1>1, NoLimited DEF GeneratedDecides, Latched, Limited
<1>4. P \in Control /\ P = [P EXCEPT !.stored = @ \/ FALSE]
  BY PreparedType DEF Control
<1>5. SUFFICES ip = StopTimer(inputs, ds) /\ (Untimed(inputs, c) \/ InterpreterRuns(inputs, ip) <=> R)
  BY <1>2, <1>3
<1>6. ~Active(inputs, "SL")
  BY <1>1, NoLimited
<1>7. CASE Active(inputs, "L")
  <2>1. ~Active(inputs, "D") /\ ~Active(inputs, "SD") /\ ~Active(inputs, "DS")
        /\ ActiveTimed(inputs) # {}
    BY <1>1, <1>7, OneTimer, NoTimer
  <2>2. l = [P EXCEPT !.elapsed = a] /\ l.elapsed = a
    BY <1>4, <1>7 DEF Timed, Control
  <2>3. d = l
    BY <2>1 DEF Timed
  <2>4. ds = l
    BY <1>4, <2>1, <2>2, <2>3 DEF Delayed, Timed, Control
  <2>5. StopTimer(inputs, ds) = l
    BY <2>1, <2>4 DEF StopTimer
  <2>6. ip = l
    BY <1>7, <2>2 DEF InterpreterTimer
  <2>7. FirstDuration(inputs, "L") = ActiveDuration(inputs, "L")
    BY <1>7, SameDuration
  <2>8. QED
    BY <2>1, <2>3, <2>4, <2>5, <2>6, <2>7 DEF InterpreterRuns
<1>8. CASE Active(inputs, "D")
  <2>1. ~Active(inputs, "L") /\ ~Active(inputs, "SD") /\ ~Active(inputs, "DS")
        /\ ActiveTimed(inputs) # {}
    BY <1>1, <1>8, OneTimer, NoTimer
  <2>2. l = P
    BY <2>1 DEF Timed
  <2>3. d = [P EXCEPT !.elapsed = a] /\ d.elapsed = a
    BY <1>4, <1>8, <2>2 DEF Timed, Control
  <2>4. ds = d
    BY <1>4, <2>1, <2>3 DEF Delayed, Timed, Control
  <2>5. StopTimer(inputs, ds) = d
    BY <2>1, <2>4 DEF StopTimer
  <2>6. ip = d
    BY <1>8, <2>3 DEF InterpreterTimer
  <2>7. FirstDuration(inputs, "D") = ActiveDuration(inputs, "D")
    BY <1>8, SameDuration
  <2>8. QED
    BY <2>1, <2>4, <2>5, <2>6, <2>7 DEF InterpreterRuns
<1>9. CASE Active(inputs, "SD")
  <2>1. ~Active(inputs, "L") /\ ~Active(inputs, "D") /\ ~Active(inputs, "DS")
        /\ ActiveTimed(inputs) # {}
    BY <1>1, <1>9, OneTimer, NoTimer
  <2>2. d = P
    BY <2>1 DEF Timed
  <2>3. FirstDuration(inputs, "SD") = ActiveDuration(inputs, "SD")
    BY <1>9, SameDuration
  <2>4. sd = [P EXCEPT !.elapsed = a, !.stored = @ \/ a >= ActiveDuration(inputs, "SD")]
    BY <1>4, <1>9, <2>2, <2>3 DEF Delayed, Timed, Control
  <2>5. ds = sd
    BY <1>4, <2>1, <2>4 DEF Delayed, Timed, Control
  <2>6. ip = sd
    BY <1>4, <1>9, <2>1, <2>4 DEF InterpreterTimer, Control
  <2>7. StopTimer(inputs, ds) = sd
    BY <2>1, <2>5 DEF StopTimer
  <2>8. QED
    BY <2>1, <2>5, <2>6, <2>7 DEF InterpreterRuns
<1>10. CASE Active(inputs, "DS")
  <2>1. ~Active(inputs, "L") /\ ~Active(inputs, "D") /\ ~Active(inputs, "SD")
        /\ ActiveTimed(inputs) # {}
    BY <1>1, <1>10, OneTimer, NoTimer
  <2>2. d = P
    BY <2>1 DEF Timed
  <2>3. sd = P
    BY <1>4, <2>1, <2>2 DEF Delayed, Timed, Control
  <2>4. FirstDuration(inputs, "DS") = ActiveDuration(inputs, "DS")
    BY <1>10, SameDuration
  <2>5. ds = [P EXCEPT !.elapsed = a, !.stored = @ \/ a >= ActiveDuration(inputs, "DS")]
    BY <1>4, <1>10, <2>3, <2>4 DEF Delayed, Timed, Control
  <2>6. ip = ds
    BY <1>4, <1>10, <2>1, <2>5 DEF InterpreterTimer, Control
  <2>7. StopTimer(inputs, ds) = ds
    BY <2>1 DEF StopTimer
  <2>8. QED
    BY <2>1, <2>6, <2>7 DEF InterpreterRuns
<1>11. CASE \A q \in TimedQualifier : ~Active(inputs, q)
  <2>1. ActiveTimed(inputs) = {}
    BY <1>11, NoTimer
  <2>2. d = P
    BY <1>11 DEF Timed
  <2>3. ds = P
    BY <1>4, <1>11, <2>2 DEF Delayed, Timed, Control
  <2>4. ip = IF P.stored THEN P ELSE [P EXCEPT !.elapsed = 0]
    <3>1. ip = IF P.stored THEN P ELSE [P EXCEPT !.elapsed = 0, !.stored = FALSE]
      BY <1>6, <1>11, ActiveType DEF InterpreterTimer
    <3>2. ~P.stored => [P EXCEPT !.elapsed = 0, !.stored = FALSE] = [P EXCEPT !.elapsed = 0]
      BY <1>4 DEF Control
    <3>3. QED
      BY <3>1, <3>2
  <2>5. StopTimer(inputs, ds) = ip
    BY <2>1, <2>3, <2>4 DEF StopTimer
  <2>6. ip.stored = P.stored
    BY <1>4, <2>4 DEF Control
  <2>7. QED
    BY <1>11, <2>3, <2>5, <2>6 DEF InterpreterRuns
<1>12. QED
  BY <1>6, <1>7, <1>8, <1>9, <1>10, <1>11
-----------------------------------------------------------------------------
(***************************************************************************)
(* One association.  What sfc_action_should_execute makes of an action     *)
(* with a single association: `on' says whether its step is active.        *)
(***************************************************************************)
OneInput(inputs, q, on, duration) ==
  /\ \A r : Active(inputs, r) <=> r = q /\ on
  /\ \A r : Has(inputs, r) <=> r = q
  /\ ~Contention(inputs)
  /\ on => ActiveDuration(inputs, q) = duration

\* Without S and R, preparing a control only remembers the edge input.
LEMMA OnePrepared ==
  ASSUME NEW inputs, NEW q \in Qualifier \ {"S", "R"}, NEW on \in BOOLEAN, NEW duration,
         OneInput(inputs, q, on, duration), NEW c \in Control
  PROVE  Prepared(inputs, c) = [c EXCEPT !.previous = q \in {"P", "P0"} /\ on]
<1>1. ~Active(inputs, "S") /\ ~Active(inputs, "R")
  BY DEF OneInput
<1>2. (Active(inputs, "P") \/ Active(inputs, "P0")) = (q \in {"P", "P0"} /\ on)
  BY DEF OneInput
<1>3. QED
  BY <1>1, <1>2 DEF Prepared, Reset, Remember, Set

\* A P action runs when its step was not active before, a P0 action when it was
\* and is no more; both remember the step and store nothing.
LEMMA EdgeDecision ==
  ASSUME NEW inputs, NEW q \in {"P", "P0"}, NEW on \in BOOLEAN, NEW duration,
         OneInput(inputs, q, on, duration), NEW c \in Control, ~c.stored
  PROVE  LET d == InterpreterDecides(inputs, c)
         IN  /\ ~d.control.stored
             /\ d.control.previous <=> on
             /\ d.execute <=> IF q = "P" THEN on /\ ~c.previous ELSE ~on /\ c.previous
<1> DEFINE p == Prepared(inputs, c)
           t == InterpreterTimer(inputs, p)
<1>1. /\ ~Active(inputs, "N") /\ ~Active(inputs, "R")
      /\ \A r \in TimedQualifier : ~Active(inputs, r)
      /\ ~Has(inputs, "SL") /\ ~Contention(inputs)
  BY DEF OneInput, TimedQualifier
<1>2. p = [c EXCEPT !.previous = on]
  BY OnePrepared DEF Qualifier
<1>3. p \in Control /\ ~p.stored /\ p.previous = on
  BY <1>2 DEF Control
<1>4. t = [p EXCEPT !.elapsed = 0, !.stored = FALSE]
  BY <1>1, <1>3, ActiveType DEF InterpreterTimer, TimedQualifier
<1>5. ~t.stored /\ t.previous = on
  BY <1>3, <1>4 DEF Control
<1>6. Untimed(inputs, c) <=> IF q = "P" THEN on /\ ~c.previous ELSE ~on /\ c.previous
  BY <1>1 DEF Untimed, OneInput
<1>7. ~InterpreterRuns(inputs, t)
  BY <1>1, <1>5 DEF InterpreterRuns, TimedQualifier
<1>8. QED
  BY <1>1, <1>5, <1>6, <1>7 DEF InterpreterDecides

\* An L action runs while its timer is within the duration, a D action from the
\* duration on; the timer runs with the step and stores nothing.
LEMMA TimerDecision ==
  ASSUME NEW inputs, NEW q \in {"L", "D"}, NEW on \in BOOLEAN, NEW duration,
         OneInput(inputs, q, on, duration), NEW c \in Control, ~c.stored
  PROVE  LET d == InterpreterDecides(inputs, c)
             e == Advance(c.elapsed)
         IN  /\ ~d.control.stored
             /\ d.control.elapsed = IF on THEN e ELSE 0
             /\ d.execute <=> on /\ IF q = "L" THEN e <= duration ELSE e >= duration
<1> DEFINE p == Prepared(inputs, c)
           t == InterpreterTimer(inputs, p)
           e == Advance(c.elapsed)
<1>1. /\ ~Active(inputs, "N") /\ ~Active(inputs, "R") /\ ~Active(inputs, "P")
      /\ ~Has(inputs, "P0") /\ ~Has(inputs, "SL") /\ ~Contention(inputs)
      /\ \A r \in TimedQualifier \ {q} : ~Active(inputs, r)
  BY DEF OneInput, TimedQualifier
<1>2. p = [c EXCEPT !.previous = FALSE]
  <2>1. q \in Qualifier \ {"S", "R"} /\ q \notin {"P", "P0"}
    BY DEF Qualifier, TimedQualifier
  <2>2. (q \in {"P", "P0"} /\ on) = FALSE
    BY <2>1
  <2>3. Prepared(inputs, c) = [c EXCEPT !.previous = q \in {"P", "P0"} /\ on]
    BY <2>1, OnePrepared
  <2>4. QED
    BY <2>2, <2>3
<1>3. p \in Control /\ ~p.stored /\ p.elapsed = c.elapsed
  BY <1>2 DEF Control
<1>4. ~Untimed(inputs, c)
  BY <1>1 DEF Untimed
<1>5. t = IF on THEN [p EXCEPT !.elapsed = e] ELSE [p EXCEPT !.elapsed = 0, !.stored = FALSE]
  BY <1>1, <1>3, ActiveType DEF InterpreterTimer, TimedQualifier, OneInput
<1>6. ~t.stored /\ t.elapsed = IF on THEN e ELSE 0
  BY <1>3, <1>5 DEF Control
<1>7. InterpreterRuns(inputs, t) <=> on /\ IF q = "L" THEN e <= duration ELSE e >= duration
  BY <1>1, <1>6 DEF InterpreterRuns, TimedQualifier, OneInput
<1>8. QED
  BY <1>1, <1>4, <1>6, <1>7 DEF InterpreterDecides

\* An SD or DS action is stored when its timer reaches the duration, runs while
\* it is stored, and its timer stops with the step until then.
LEMMA DelayDecision ==
  ASSUME NEW inputs, NEW q \in {"SD", "DS"}, NEW on \in BOOLEAN, NEW duration,
         OneInput(inputs, q, on, duration), NEW c \in Control
  PROVE  LET d == InterpreterDecides(inputs, c)
             e == Advance(c.elapsed)
         IN  /\ d.control.stored <=> c.stored \/ (on /\ e >= duration)
             /\ ~d.control.stored => d.control.elapsed = IF on THEN e ELSE 0
             /\ d.execute <=> d.control.stored
<1> DEFINE p == Prepared(inputs, c)
           t == InterpreterTimer(inputs, p)
           e == Advance(c.elapsed)
<1>1. /\ ~Active(inputs, "N") /\ ~Active(inputs, "R") /\ ~Active(inputs, "P")
      /\ ~Has(inputs, "P0") /\ ~Has(inputs, "SL") /\ ~Contention(inputs)
      /\ \A r \in TimedQualifier \ {q} : ~Active(inputs, r)
  BY DEF OneInput, TimedQualifier
<1>2. p = [c EXCEPT !.previous = FALSE]
  <2>1. q \in Qualifier \ {"S", "R"} /\ q \notin {"P", "P0"}
    BY DEF Qualifier, TimedQualifier
  <2>2. (q \in {"P", "P0"} /\ on) = FALSE
    BY <2>1
  <2>3. Prepared(inputs, c) = [c EXCEPT !.previous = q \in {"P", "P0"} /\ on]
    BY <2>1, OnePrepared
  <2>4. QED
    BY <2>2, <2>3
<1>3. p \in Control /\ p.stored = c.stored /\ p.elapsed = c.elapsed
  BY <1>2 DEF Control
<1>4. ~Untimed(inputs, c)
  BY <1>1 DEF Untimed
<1>5. CASE on
  <2>1. t = [p EXCEPT !.elapsed = e, !.stored = p.stored \/ e >= duration]
    BY <1>1, <1>3, <1>5 DEF InterpreterTimer, TimedQualifier, OneInput
  <2>2. (t.stored <=> c.stored \/ e >= duration) /\ t.elapsed = e
    BY <1>3, <2>1 DEF Control
  <2>3. InterpreterRuns(inputs, t) <=> t.stored
    BY <1>1 DEF InterpreterRuns, TimedQualifier
  <2>4. QED
    BY <1>1, <1>4, <1>5, <2>2, <2>3 DEF InterpreterDecides
<1>6. CASE ~on
  <2>1. t = IF p.stored THEN p ELSE [p EXCEPT !.elapsed = 0, !.stored = FALSE]
    BY <1>1, <1>3, <1>6, ActiveType DEF InterpreterTimer, TimedQualifier, OneInput
  <2>2. (t.stored <=> c.stored) /\ (~t.stored => t.elapsed = 0)
    BY <1>3, <2>1 DEF Control
  <2>3. InterpreterRuns(inputs, t) <=> t.stored
    BY <1>1 DEF InterpreterRuns, TimedQualifier
  <2>4. QED
    BY <1>1, <1>4, <1>6, <2>2, <2>3 DEF InterpreterDecides
<1>7. QED
  BY <1>5, <1>6

\* Under N, S and R alone both back ends store what is set and not reset, and
\* run the action while it is stored or N is active, unless R is.
LEMMA PlainDecision ==
  ASSUME NEW inputs, \A i \in DOMAIN inputs : inputs[i].qualifier \in {"N", "S", "R"},
         NEW c \in Control
  PROVE  \A d \in {InterpreterDecides(inputs, c), GeneratedDecides(inputs, c)} :
           /\ d.control.stored <=> Active(inputs, "S") \/ (c.stored /\ ~Active(inputs, "R"))
           /\ d.execute <=> /\ Active(inputs, "N") \/ d.control.stored
                            /\ ~Active(inputs, "R")
<1> DEFINE p == Prepared(inputs, c)
           t == InterpreterTimer(inputs, p)
           s == Active(inputs, "S") \/ (c.stored /\ ~Active(inputs, "R"))
<1>1. /\ ~Active(inputs, "P") /\ ~Has(inputs, "P0") /\ ~Has(inputs, "SL")
      /\ \A r \in TimedQualifier : ~Active(inputs, r)
  BY DEF Active, Has, TimedQualifier
<1>2. ActiveTimed(inputs) = {}
  BY <1>1, NoTimer
<1>3. ~Contention(inputs)
  BY <1>2 DEF Contention
<1>4. p \in Control
  BY PreparedType
<1>5. p.stored <=> s
  BY DEF Prepared, Reset, Remember, Set, Control
<1>6. Untimed(inputs, c) <=> Active(inputs, "N")
  BY <1>1 DEF Untimed
<1>7. ASSUME NEW d, d = InterpreterDecides(inputs, c)
      PROVE  /\ d.control.stored <=> s
             /\ d.execute <=> (Active(inputs, "N") \/ d.control.stored) /\ ~Active(inputs, "R")
  <2>1. t = IF p.stored THEN p ELSE [p EXCEPT !.elapsed = 0, !.stored = FALSE]
    BY <1>1, ActiveType DEF InterpreterTimer, TimedQualifier
  <2>2. t.stored <=> p.stored
    BY <1>4, <2>1 DEF Control
  <2>3. InterpreterRuns(inputs, t) <=> t.stored
    BY <1>1 DEF InterpreterRuns, TimedQualifier
  <2>4. d = [control |-> t,
             execute |-> (Untimed(inputs, c) \/ InterpreterRuns(inputs, t)) /\ ~Active(inputs, "R"),
             diagnosed |-> FALSE]
    BY <1>1, <1>3, <1>7 DEF InterpreterDecides
  <2>5. QED
    BY <1>5, <1>6, <2>2, <2>3, <2>4
<1>8. ASSUME NEW d, d = GeneratedDecides(inputs, c)
      PROVE  /\ d.control.stored <=> s
             /\ d.execute <=> (Active(inputs, "N") \/ d.control.stored) /\ ~Active(inputs, "R")
  <2> DEFINE q == StopTimer(inputs, p)
  <2>1. \A x : Timed(inputs, "L", x) = x /\ Timed(inputs, "D", x) = x
              /\ Timed(inputs, "SD", x) = x /\ Timed(inputs, "DS", x) = x
    BY <1>1 DEF Timed, TimedQualifier
  <2>2. \A x \in Control : Delayed(inputs, "SD", x) = x /\ Delayed(inputs, "DS", x) = x
    BY <1>1, <2>1 DEF Delayed, TimedQualifier, Control
  <2>3. \A x : Limited(inputs, Latched(inputs, x)) = x
    BY <1>1, NoLimited DEF Limited, Latched
  <2>4. d = [control |-> q,
             execute |-> (Untimed(inputs, c) \/ p.stored) /\ ~Active(inputs, "R"),
             diagnosed |-> FALSE]
    <3>1. Timed(inputs, "L", p) = p /\ Timed(inputs, "D", p) = p
      BY <2>1
    <3>2. Delayed(inputs, "DS", Delayed(inputs, "SD", p)) = p
      BY <1>4, <2>2
    <3>3. Limited(inputs, Latched(inputs, p)) = p
      BY <2>3
    <3>4. ~Active(inputs, "L") /\ ~Active(inputs, "D")
      BY <1>1 DEF TimedQualifier
    <3> HIDE DEF p
    <3>5. d = [control |-> StopTimer(inputs, p),
               execute |-> (Untimed(inputs, c) \/ p.stored) /\ ~Active(inputs, "R"),
               diagnosed |-> FALSE]
      BY <1>8, <3>1, <3>2, <3>3, <3>4 DEF GeneratedDecides, p
    <3>6. QED
      BY <3>5
  <2>5. q.stored <=> p.stored
    BY <1>4 DEF StopTimer, Control
  <2>6. QED
    BY <1>5, <1>6, <2>4, <2>5
<1>9. QED
  BY <1>7, <1>8
=============================================================================
