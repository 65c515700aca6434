---------------------------- MODULE MCBlockCalls ----------------------------
(***************************************************************************)
(* An instance of BlockCalls for TLC: arguments that are constant, and     *)
(* arguments that read each of the outputs.                                *)
(***************************************************************************)
EXTENDS BlockCalls, TLC

MCCondition == {"never", "always", "not Q"}

MCTruth(e, o) == e = "always" \/ (e = "not Q" /\ ~o.q)

\* A constant, or one of two by an output: SEL(t.Q, 2, 5).
MCAmounts ==
  [reads : {{}}, usual : {0, 2, 5}, other : {0}]
    \cup [reads : {{"q"}, {"et"}, {"cv"}}, usual : {2}, other : {5}]

MCReads(e) == e.reads

MCValue(e, o) ==
  IF \/ "q" \in e.reads /\ o.q
     \/ "et" \in e.reads /\ o.et > 0
     \/ "cv" \in e.reads /\ o.cv > 0
  THEN e.other ELSE e.usual
=============================================================================
