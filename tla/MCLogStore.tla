---------------------------- MODULE MCLogStore ----------------------------
(***************************************************************************)
(* Small instances of LogStore: log 0 has two banks, log 1 one bank, log 2 *)
(* is a ring.                                                              *)
(***************************************************************************)
EXTENDS LogStore, TLC

CONSTANTS a, b

\* Power cuts: one task writes all logs.
PowerSize    == 0 :> 2 @@ 1 :> 1 @@ 2 :> 2
PowerSectors == 0 :> 1 @@ 1 :> 2
PowerWriter  == [l \in Logs |-> a]
PowerRecords == 0 :> 5 @@ 1 :> 3 @@ 2 :> 3

\* Two tasks, each with logs of its own.
TasksSize    == 0 :> 2 @@ 1 :> 1 @@ 2 :> 2
TasksSectors == 0 :> 2 @@ 1 :> 1
TasksWriter  == 0 :> a @@ 1 :> b @@ 2 :> b
TasksRecords == 0 :> 6 @@ 1 :> 2 @@ 2 :> 1
=============================================================================
