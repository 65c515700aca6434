------------------------------ MODULE SfcParity ------------------------------
(***************************************************************************)
(* One chart run twice, by the interpreter and as generated C, with the    *)
(* same conditions and returns in every scan: the comparison the           *)
(* differential validation makes of the two traces.                        *)
(***************************************************************************)
EXTENDS SfcActionControl, FiniteSets

CONSTANTS Step, InitialSteps, Action, Association, Transition, Returning

VARIABLES
  isteps, icontrol, iphase, icursor, icandidates, iconsumed, iran, idiagnosed,
  gsteps, gcontrol, gphase, gcursor, gcandidates, gconsumed, gran, gdiagnosed,
  truth, returning

I == INSTANCE SfcEngine
  WITH Engine <- "interpreter", steps <- isteps, control <- icontrol,
       phase <- iphase, cursor <- icursor, candidates <- icandidates,
       consumed <- iconsumed, ran <- iran, diagnosed <- idiagnosed

G == INSTANCE SfcEngine
  WITH Engine <- "generated", steps <- gsteps, control <- gcontrol,
       phase <- gphase, cursor <- gcursor, candidates <- gcandidates,
       consumed <- gconsumed, ran <- gran, diagnosed <- gdiagnosed

iengine == <<isteps, icontrol, iphase, icursor, icandidates, iconsumed, iran, idiagnosed>>
gengine == <<gsteps, gcontrol, gphase, gcursor, gcandidates, gconsumed, gran, gdiagnosed>>
vars    == <<iengine, gengine, truth, returning>>

ASSUME ParityAssumption == I!WellFormedChart /\ Returning \subseteq I!ActionName

Init == I!InitEngine /\ G!InitEngine /\ I!InitScan

Begin(T, R) ==
  /\ I!BeginScan
  /\ G!BeginScan
  /\ truth' = T
  /\ returning' = R

\* Both engines take their next step; one that is done waits for the other.
Advance2 ==
  /\ \/ I!Advances /\ G!Advances
     \/ I!Advances /\ gphase = "idle" /\ UNCHANGED gengine
     \/ iphase = "idle" /\ UNCHANGED iengine /\ G!Advances
  /\ UNCHANGED <<truth, returning>>

Next ==
  \/ \E T \in SUBSET DOMAIN Transition, R \in SUBSET Returning : Begin(T, R)
  \/ Advance2

Spec == Init /\ [][Next]_vars
-----------------------------------------------------------------------------
\* A scan runs the same actions in both back ends and leaves the same steps
\* active, as long as the interpreter has a trace to compare: a diagnosed run
\* returns none.
EnginesAgree ==
  iphase = "idle" /\ gphase = "idle" /\ ~idiagnosed
    => iran = gran /\ isteps = gsteps

\* The charts both back ends run alike: no body returns, no association is
\* stored and limited, and an action has one duration for each qualifier.
OrdinaryChart ==
  /\ Returning = {}
  /\ \A a \in I!ActionName : \A i, j \in DOMAIN Association[a] :
       /\ Association[a][i].qualifier # "SL"
       /\ Association[a][i].qualifier = Association[a][j].qualifier
            => Association[a][i].duration = Association[a][j].duration
=============================================================================
