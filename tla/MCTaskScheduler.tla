-------------------------- MODULE MCTaskScheduler --------------------------
(***************************************************************************)
(* Instances of TaskScheduler for TLC: a program that runs in every cycle, *)
(* one that runs on an event and one that does both; every one of them can *)
(* raise and lower the event.                                              *)
(***************************************************************************)
EXTENDS TaskScheduler, TLC

CONSTANTS always, onEvent, mixed,   \* instances
          lamp, valve, go, level    \* places

MCInstance == {always, onEvent, mixed}
Nothing    == [i \in MCInstance |-> {}]

MCPriority  == (always :> 2) @@ (onEvent :> 1) @@ (mixed :> 2)
MCPosition  == (always :> 1) @@ (onEvent :> 3) @@ (mixed :> 2)
MCTrigger   == (always :> None) @@ (onEvent :> go) @@ (mixed :> go)

\* mixed asks for 3 ms in cycles of 2 ms: it gets 6 ms.
MCRequested == (always :> None) @@ (onEvent :> None) @@ (mixed :> 3)

MCDirect   == (always :> {lamp}) @@ (onEvent :> {}) @@ (mixed :> {lamp})
MCBinding  == (always :> {go}) @@ (onEvent :> {lamp}) @@ (mixed :> {go})
MCExternal == (always :> {level}) @@ (onEvent :> {}) @@ (mixed :> {})
MCLocated  == (always :> {valve}) @@ (onEvent :> {}) @@ (mixed :> {})
=============================================================================
