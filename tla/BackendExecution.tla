---------------------------- MODULE BackendExecution ----------------------------
(***************************************************************************)
(* executeExecutable (src/backend/mlx_metal/execution_call.zig): an          *)
(* executable that has a Metal program runs it (MetalGraph); else, one that  *)
(* has a compiled MLX program runs that, or the captured program made from   *)
(* it (ArgumentCapture); else its schedule is walked operation by operation  *)
(* (ScheduleExecution).  What an executable has was settled when it was      *)
(* compiled.  A compiled program is traced by the same walk, once, in a      *)
(* table of its own: the walk of a trace is the schedule's, with `tracing'.  *)
(* The state of the ways that are not taken does not change.               *)
(***************************************************************************)
EXTENDS MetalGraph, ArgumentCapture, ScheduleExecution

(* Something to run in each way, though only one is taken.                 *)
ASSUME BackendAssumption == Requests # {} /\ CaptureExecutables # {} /\ SchedulePlans # {}

VARIABLE way   \* what the executable runs: "graph", "program" or "schedule"

backendVars == <<vars, captureVars, scheduleVars, way>>

(* The ways that are not taken are at rest, in one state.                  *)
RestingRequest == CHOOSE r \in Requests : TRUE
RestingExecutable == CHOOSE x \in CaptureExecutables : TRUE
RestingPlan == CHOOSE p \in SchedulePlans : TRUE

BackendInit ==
  /\ way \in {"graph", "program", "schedule"}
  /\ program \in IF way = "graph" THEN Requests ELSE {RestingRequest}
  /\ executable \in IF way = "program" THEN CaptureExecutables ELSE {RestingExecutable}
  /\ plan \in IF way = "schedule" THEN SchedulePlans ELSE {RestingPlan}
  /\ tracing \in IF way = "schedule" THEN BOOLEAN ELSE {FALSE}
  /\ Untouched /\ Uncalled /\ Unwalked

ExecuteGraph == way = "graph" /\ Next /\ UNCHANGED <<captureVars, scheduleVars, way>>
ExecuteProgram == way = "program" /\ CaptureNext /\ UNCHANGED <<vars, scheduleVars, way>>
ExecuteSchedule == way = "schedule" /\ ScheduleNext /\ UNCHANGED <<vars, captureVars, way>>

BackendNext == ExecuteGraph \/ ExecuteProgram \/ ExecuteSchedule

BackendSpec == BackendInit /\ [][BackendNext]_backendVars
----------------------------------------------------------------------------
(* The state of every way has its shape, taken or not.                     *)
BackendTypeOK ==
  /\ TypeOK
  /\ ScheduleTypeOK
  /\ executable \in CaptureExecutables
  /\ programs \subseteq ProgramIds
  /\ \A t \in Callers : DOMAIN caller[t].used \subseteq DOMAIN caller[t].arguments
================================================================================
