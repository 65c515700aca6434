------------------------------- MODULE SfcNet -------------------------------
(***************************************************************************)
(* The evolution a chart promises, with neither actions nor candidates nor *)
(* an order of application in sight: a scan settles which conditions are   *)
(* true, looks at one marking, decides every conflict by priority, and     *)
(* fires the winners in a single step.                                     *)
(***************************************************************************)
EXTENDS Naturals

CONSTANTS
  InitialSteps,   \* the steps marked at first
  Transition,     \* the transitions: from, to and priority, in order
  Abandons        \* a scan may end before it comes to the transitions

VARIABLES
  marking,   \* the steps that hold a token
  truth,     \* the transitions whose condition is true in this scan
  scanning   \* a scan is under way

nvars == <<marking, truth, scanning>>

Precedes(i, j) ==
  \/ Transition[i].priority < Transition[j].priority
  \/ Transition[i].priority = Transition[j].priority /\ i < j

\* i and j need the same token.
InConflict(i, j) == Transition[i].from \cap Transition[j].from # {}

\* The true transitions that find all their tokens in the marking.
Able(M, T) == {i \in T : Transition[i].from \subseteq M}

\* F fires from the marking M when T is what is true: of the able transitions,
\* all and only those that lose no token to one of F that precedes them.
Fires(M, T, F) ==
  /\ F \subseteq Able(M, T)
  /\ \A i \in Able(M, T) :
       i \in F <=> ~ \E j \in F : Precedes(j, i) /\ InConflict(j, i)

\* What F takes out of a marking, and what it puts back: a token put into a
\* step is lost if a transition preceded by the one that puts it leaves the step.
Taken(F) == UNION {Transition[i].from : i \in F}
Put(F)   == {s \in UNION {Transition[i].to : i \in F} :
               \E i \in F : /\ s \in Transition[i].to
                            /\ \A j \in F : Precedes(i, j) => s \notin Transition[j].from}

After(M, F) == (M \ Taken(F)) \cup Put(F)

Init ==
  /\ marking = InitialSteps
  /\ truth = {}
  /\ scanning = FALSE

Scan ==
  /\ ~scanning
  /\ scanning' = TRUE
  /\ truth' \in SUBSET DOMAIN Transition
  /\ UNCHANGED marking

Fire ==
  /\ scanning
  /\ scanning' = FALSE
  /\ \E F \in SUBSET truth : Fires(marking, truth, F) /\ marking' = After(marking, F)
  /\ UNCHANGED truth

Abandon ==
  /\ Abandons
  /\ scanning
  /\ scanning' = FALSE
  /\ UNCHANGED <<marking, truth>>

Next == Scan \/ Fire \/ Abandon

Spec == Init /\ [][Next]_nvars
=============================================================================
