--------------------------- MODULE ToolCallStream ---------------------------
(***************************************************************************)
(* StreamStructured of the two LLM adapters (internal/adapter/llm/groq.go, *)
(* anthropic.go): a goroutine that reads the provider's stream of events,  *)
(* assembles the tool call from the fragments they carry, relays each one  *)
(* as a token, and ends with the decoded variation or an error.  Next to   *)
(* it, what GenerateStructured makes of the same response.                 *)
(*                                                                         *)
(* The text of the tool call is the pieces 1 to Pieces, in order; it       *)
(* decodes when it is all of them.  A response has one call or none, and   *)
(* of the right tool: the choice of the tool is forced (newParams), which  *)
(* is what both adapters' streams rely on.                                 *)
(***************************************************************************)
EXTENDS Naturals, Sequences

CONSTANTS
    Pieces,         \* pieces of the text of a whole tool call
    PerEvent,       \* fragments an event may carry: 1 from Anthropic
    MaxIdle         \* bound: events that carry nothing

ASSUME PiecesAssumption == Pieces \in Nat \ {0}
ASSUME PerEventAssumption == PerEvent \in Nat \ {0}
ASSUME MaxIdleAssumption == MaxIdle \in Nat

VARIABLES
    upstream,       \* the provider's stream: "open", "ended" or its error
    emitted,        \* pieces the provider has sent
    idle,           \* events without a piece it has sent
    valid,          \* whether the whole call is a variation that validates
    pc,             \* where the adapter's goroutine is
    event,          \* fragments of the current event it has yet to handle
    text,           \* what it has assembled
    tokens,         \* pieces received as tokens
    terminal,       \* the terminal chunk received, if any
    closed,         \* the channel is closed
    ctxDone         \* the context is done

providerVars == <<upstream, emitted, idle, valid>>
adapterVars == <<pc, event, text>>
channelVars == <<tokens, terminal, closed>>
vars == <<providerVars, adapterVars, channelVars, ctxDone>>

Promise == INSTANCE ChunkStream

\* A fragment without text: toolCallDeltas and StreamStructured leave it out.
Empty == 0

Init ==
    /\ upstream = "open"
    /\ emitted = 0
    /\ idle = 0
    /\ valid \in BOOLEAN
    /\ pc = "reading"
    /\ event = <<>>
    /\ text = <<>>
    /\ tokens = 0
    /\ terminal = "none"
    /\ closed = FALSE
    /\ ctxDone = FALSE

----------------------------------------------------------------------------
(* The provider.                                                           *)

\* The next n pieces, one to a fragment.
Fragments(n) == [i \in 1..n |-> emitted + i]

\* stream.Next returns an event with fragments of the one forced call.
NextFragments ==
    /\ pc = "reading" /\ event = <<>>
    /\ upstream = "open"
    /\ \E n \in 1..PerEvent :
          /\ emitted + n <= Pieces
          /\ emitted' = emitted + n
          /\ event' = Fragments(n)
    /\ UNCHANGED <<upstream, idle, valid, pc, text, channelVars, ctxDone>>

\* Or one without: no choice, no call, a ping, or an empty fragment.
NextIdle ==
    /\ pc = "reading" /\ event = <<>>
    /\ upstream = "open"
    /\ idle < MaxIdle
    /\ idle' = idle + 1
    /\ event' \in {<<>>, <<Empty>>}
    /\ UNCHANGED <<upstream, emitted, valid, pc, text, channelVars, ctxDone>>

\* The response is over: whole, cut short by its limit of tokens, or without
\* a call; or the connection breaks, or the request's context is done.
NextFalse ==
    /\ pc = "reading" /\ event = <<>>
    /\ upstream = "open"
    /\ upstream' \in {"ended", "failed"}
    /\ pc' = "ended"
    /\ UNCHANGED <<emitted, idle, valid, event, text, channelVars, ctxDone>>

----------------------------------------------------------------------------
(* The adapter.                                                            *)

SkipEmpty ==
    /\ pc = "reading"
    /\ event # <<>>
    /\ Head(event) = Empty
    /\ event' = Tail(event)
    /\ UNCHANGED <<providerVars, pc, text, channelVars, ctxDone>>

\* As if a fragment were kept only once it was relayed.
TakeFragmentLate ==
    /\ pc = "reading"
    /\ event # <<>>
    /\ Head(event) # Empty
    /\ pc' = "sending"
    /\ UNCHANGED <<providerVars, event, text, channelVars, ctxDone>>

\* The fragment is kept first and relayed then.
TakeFragment ==
    /\ pc = "reading"
    /\ event # <<>>
    /\ Head(event) # Empty
    /\ text' = Append(text, Head(event))
    /\ pc' = "sending"
    /\ UNCHANGED <<providerVars, event, channelVars, ctxDone>>

\* sendChunk, and the reader takes it.
SendToken ==
    /\ pc = "sending"
    /\ tokens' = tokens + 1
    /\ event' = Tail(event)
    /\ pc' = "reading"
    /\ UNCHANGED <<providerVars, text, terminal, closed, ctxDone>>

\* sendChunk, and the context is done first: the goroutine returns.
GiveUpToken ==
    /\ pc = "sending"
    /\ ctxDone
    /\ pc' = "returning"
    /\ UNCHANGED <<providerVars, event, text, channelVars, ctxDone>>

Whole == [i \in 1..Pieces |-> i]

Decodes(t) == t = Whole /\ valid

\* As if what ended the stream were not asked.
VerdictIgnoresError == IF Decodes(text) THEN "completed" ELSE "error"

\* As if a call that does not decode were passed over in silence.
VerdictSilent ==
    IF upstream # "ended" THEN "error"
    ELSE IF Decodes(text) THEN "completed" ELSE "none"

\* stream.Err, then decodeStreamedVariation.
Verdict ==
    IF upstream = "ended" /\ Decodes(text) THEN "completed" ELSE "error"

SendTerminal ==
    /\ pc = "ended"
    /\ terminal' = Verdict
    /\ pc' = "returning"
    /\ UNCHANGED <<providerVars, event, text, tokens, closed, ctxDone>>

\* As if the last chunk were sent whether or not anyone reads it.
GiveUpNever ==
    /\ pc = "ended" /\ FALSE
    /\ UNCHANGED vars

GiveUpTerminal ==
    /\ pc = "ended"
    /\ ctxDone
    /\ pc' = "returning"
    /\ UNCHANGED <<providerVars, event, text, channelVars, ctxDone>>

CloseChannel ==
    /\ pc = "returning"
    /\ closed' = TRUE
    /\ pc' = "returned"
    /\ UNCHANGED <<providerVars, event, text, tokens, terminal, ctxDone>>

\* The client leaves, or its handler returns.
Cancel ==
    /\ ~ctxDone
    /\ ctxDone' = TRUE
    /\ UNCHANGED <<providerVars, adapterVars, channelVars>>

Adapter == \/ SkipEmpty \/ TakeFragment \/ SendToken \/ GiveUpToken
           \/ SendTerminal \/ GiveUpTerminal \/ CloseChannel

Rest == pc = "returned" /\ UNCHANGED vars

Next == NextFragments \/ NextIdle \/ NextFalse \/ Adapter \/ Cancel \/ Rest

Spec == Init /\ [][Next]_vars

\* The goroutine runs, and a done context ends the request for the stream.
\* Neither the provider nor the reader has to go on.
Fairness ==
    /\ WF_vars(ctxDone /\ NextFalse)
    /\ WF_vars(SkipEmpty \/ TakeFragment \/ GiveUpToken \/ GiveUpTerminal
               \/ CloseChannel)

FairSpec == Spec /\ Fairness

----------------------------------------------------------------------------
(* What GenerateStructured returns of the same response.                   *)

\* decodeGroqToolCall and decodeAnthropicToolUse: the text of the call in the
\* response, if there is one.
Called == [i \in 1..emitted |-> i]

\* An error of the request is mapped and returned before the response is
\* looked at; the call is then decoded and validated.
Structured ==
    IF upstream = "ended" /\ Decodes(Called) THEN "completed" ELSE "error"

----------------------------------------------------------------------------
(* Properties.                                                             *)

TypeOK ==
    /\ upstream \in {"open", "ended", "failed"}
    /\ emitted \in 0..Pieces
    /\ idle \in 0..MaxIdle
    /\ valid \in BOOLEAN
    /\ pc \in {"reading", "sending", "ended", "returning", "returned"}
    /\ event \in Seq(0..Pieces)
    /\ text \in Seq(1..Pieces)
    /\ tokens \in 0..Pieces
    /\ terminal \in {"none", "completed", "error"}
    /\ closed \in BOOLEAN
    /\ ctxDone \in BOOLEAN

\* StreamStructured keeps the promise of its channel.
KeepsPromise == Promise!Spec

\* toolCallDeltas and inputJSONDelta: whatever events the fragments come in,
\* none is lost, doubled or moved, and a reader that puts the tokens together
\* has the text the adapter decodes, but for the one being sent.
TokensAreTheText ==
    /\ text = [i \in 1..Len(text) |-> i]
    /\ tokens = IF pc = "sending"
                   \/ (pc \in {"returning", "returned"} /\ event # <<>>)
                  THEN Len(text) - 1 ELSE Len(text)

\* LLMProvider's "produces the same Variation as GenerateStructured": a stream
\* that ends does so as GenerateStructured returns of the response, whole, cut
\* short or broken off, even after its last piece.
SameAsStructured == terminal # "none" => terminal = Structured

\* A reader that has stopped does not keep the goroutine: its context is done.
CancelCloses == ctxDone ~> closed

\* LLMProvider, "the channel is closed after exactly one terminal chunk
\* (variation_completed or error)".
ClosedAfterTerminal == closed => terminal # "none"
=============================================================================
