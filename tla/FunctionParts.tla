---------------------------- MODULE FunctionParts ----------------------------
(***************************************************************************)
(* What functions leave behind (FunctionStore) beside how one is deployed  *)
(* and run (FunctionExecution).  They have no state in common.  The        *)
(* requests of the second are the set of functions of the first, and its   *)
(* versions the set of requests: members of each are interchangeable in    *)
(* both.                                                                   *)
(***************************************************************************)
EXTENDS FunctionStore

CONSTANTS MaxRunning, MaxBuilds     \* FunctionExecution

VARIABLES
    row, execReq, slots, builds, containers, valid, replaced, issued, expired, dead, orphans

Execution == INSTANCE FunctionExecution WITH
    Requests <- Functions, Versions <- Requests, req <- execReq

ASSUME ExecutionAssumption == Execution!FunctionExecutionAssumption

executionVars == <<row, execReq, slots, builds, containers, valid, replaced, issued, expired,
                   dead, orphans>>

\* Slots are never lost or exceeded (functions/service.go:374), and only modules that
\* were validated are stored or run; no invocation runs a version that was overwritten, or
\* with a key that was dead, before it came in (functions/repository.go:57, key.go:53).
ExecutionInv == Execution!ExecutionInv
=============================================================================
