---------------------------- MODULE ChunkStream ----------------------------
(***************************************************************************)
(* What LLMProvider.StreamStructured promises whoever reads its channel    *)
(* (internal/domain/ports.go, stream.go), as its adapters keep it: tokens  *)
(* that are the text of the tool call in order, at most one terminal       *)
(* chunk, after which nothing comes, and a channel that is closed without  *)
(* one only when the context is done.                                      *)
(***************************************************************************)
EXTENDS Naturals

CONSTANT Pieces     \* the text of a whole tool call, in pieces

VARIABLES
    tokens,         \* pieces of the text received as tokens
    terminal,       \* the terminal chunk received, if any
    closed,         \* the channel is closed
    ctxDone         \* the context is done

vars == <<tokens, terminal, closed, ctxDone>>

Init ==
    /\ tokens = 0
    /\ terminal = "none"
    /\ closed = FALSE
    /\ ctxDone = FALSE

Token ==
    /\ terminal = "none" /\ ~closed
    /\ tokens < Pieces
    /\ tokens' = tokens + 1
    /\ UNCHANGED <<terminal, closed, ctxDone>>

\* The variation comes only after every token of its text.
Complete ==
    /\ terminal = "none" /\ ~closed
    /\ tokens = Pieces
    /\ terminal' = "completed"
    /\ UNCHANGED <<tokens, closed, ctxDone>>

Fail ==
    /\ terminal = "none" /\ ~closed
    /\ terminal' = "error"
    /\ UNCHANGED <<tokens, closed, ctxDone>>

Close ==
    /\ ~closed
    /\ terminal # "none" \/ ctxDone
    /\ closed' = TRUE
    /\ UNCHANGED <<tokens, terminal, ctxDone>>

Cancel ==
    /\ ctxDone' = TRUE
    /\ UNCHANGED <<tokens, terminal, closed>>

Next == Token \/ Complete \/ Fail \/ Close \/ Cancel

Spec == Init /\ [][Next]_vars
=============================================================================
