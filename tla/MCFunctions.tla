----------------------------- MODULE MCFunctions -----------------------------
(***************************************************************************)
(* What functions leave behind, how they are deployed and run              *)
(* (FunctionParts) and which SQL they may send to their databases          *)
(* (SqlScanner).  The three have no state in common here: one moves while  *)
(* the others rest in an initial state.                                    *)
(*                                                                         *)
(* The scanner has keywords of one or two letters: A reads, B writes, AA   *)
(* followed by A defines, AB is RETURNING and BA is refused.               *)
(***************************************************************************)
EXTENDS FunctionParts, TLC

CONSTANT MaxLength      \* SqlScanner

VARIABLE text

Sql == INSTANCE SqlScanner WITH
    Letters <- {"A", "B"}, Digits <- {"1"}, Others <- {},
    Reads <- {<<"A">>}, Writes <- {<<"B">>}, Definitions <- {<<<<"A", "A">>, <<"A">>>>},
    Returning <- <<"A", "B">>, Forbidden <- {<<"B", "A">>}

allVars == <<vars, executionVars, text>>

AllInit == Init /\ Execution!Init /\ Sql!Init

StoreMoves ==
    /\ Execution!Init /\ Sql!Init
    /\ Next
    /\ UNCHANGED <<executionVars, text>>

ExecutionMoves ==
    /\ Init /\ Sql!Init
    /\ Execution!Next
    /\ UNCHANGED <<vars, text>>

SqlMoves ==
    /\ Init /\ Execution!Init
    /\ Sql!Next
    /\ UNCHANGED <<vars, executionVars>>

AllNext == StoreMoves \/ ExecutionMoves \/ SqlMoves

AllSpec == AllInit /\ [][AllNext]_allVars

\* All identifiers are interchangeable.
Symmetry == Permutations(Functions) \cup Permutations(Databases)
               \cup Permutations(Keys) \cup Permutations(Requests)

-----------------------------------------------------------------------------

\* The scanner of SQL and a reader that knows quotes and comments agree on what is one
\* statement and on its kind (functions/sql_database.go:350).
ScannerAgrees == Sql!ScannerAgrees
=============================================================================
