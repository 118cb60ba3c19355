--------------------------- MODULE DescriptionExport ---------------------------
(***************************************************************************)
(* What the ATP library promises about the description file, whatever lock *)
(* file, streams and kills it takes: of all the processes that end their   *)
(* collection in an execution, at most one publishes its description, at   *)
(* once and entirely.  Until then there may be none to be had, and after   *)
(* that it stays as it is until the application is launched again.         *)
(* Whoever loads gets what is published.                                   *)
(*                                                                         *)
(* AtpLibrary implements this behind its barrier.                          *)
(***************************************************************************)
CONSTANTS
  Procs,            \* the processes of the application
  None,             \* no description
  Restores(_, _)    \* the first is what the second becomes when it is published

VARIABLES
  final,    \* per process: what it collected, once its collection has ended
  store,    \* what is published
  done,     \* whether a process of this execution has published
  seen      \* per process: what it has loaded

vars == <<final, store, done, seen>>

Init ==
  /\ final = [p \in Procs |-> None]
  /\ store = None
  /\ done = FALSE
  /\ seen = [p \in Procs |-> None]

\* p ends its collection with some description.
End(p) ==
  /\ final[p] = None
  /\ final'[p] # None
  /\ final' = [final EXCEPT ![p] = final'[p]]
  /\ UNCHANGED <<store, done, seen>>

\* What an earlier execution published is given up for what comes.
Withdraw ==
  /\ ~done
  /\ store' = None
  /\ UNCHANGED <<final, done, seen>>

Publish(p) ==
  /\ ~done
  /\ final[p] # None
  /\ store' # None
  /\ Restores(store', final[p])
  /\ done' = TRUE
  /\ UNCHANGED <<final, seen>>

Load(p) ==
  /\ store # None
  /\ seen[p] = None
  /\ seen' = [seen EXCEPT ![p] = store]
  /\ UNCHANGED <<final, store, done>>

\* However p ends.
Leave(p) ==
  /\ final' = [final EXCEPT ![p] = None]
  /\ seen' = [seen EXCEPT ![p] = None]
  /\ UNCHANGED <<store, done>>

Relaunch ==
  /\ \A p \in Procs : final[p] = None /\ seen[p] = None
  /\ done' = FALSE
  /\ UNCHANGED <<final, store, seen>>

Next ==
  \/ \E p \in Procs : End(p) \/ Publish(p) \/ Load(p) \/ Leave(p)
  \/ Withdraw
  \/ Relaunch

Spec == Init /\ [][Next]_vars
=============================================================================
