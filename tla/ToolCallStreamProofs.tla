------------------------ MODULE ToolCallStreamProofs ------------------------
(***************************************************************************)
(* StreamStructured keeps the promise of its channel for every length of   *)
(* tool call and every way its text may be cut into events.                *)
(*                                                                         *)
(* The invariant is a ledger: the fragments of the current event are the   *)
(* pieces after the ones received, in order, and end where the provider    *)
(* has got to.  Where the goroutine is says whether the first of them is   *)
(* already in the assembled text.                                          *)
(***************************************************************************)
EXTENDS ToolCallStream, SequenceTheorems, TLAPS

\* A fragment is kept and not received.
Unsent ==
    \/ pc = "sending"
    \/ pc \in {"returning", "returned"} /\ event # <<>>

\* The assembled text is the pieces received, and the one being sent.
TextInv ==
    /\ \A i \in 1..Len(text) : text[i] = i
    /\ Len(text) = IF Unsent THEN tokens + 1 ELSE tokens

\* The rest of the event follows them.
EventInv ==
    \/ event = <<Empty>> /\ pc = "reading" /\ emitted = tokens
    \/ /\ \A i \in 1..Len(event) : event[i] = tokens + i
       /\ emitted = tokens + Len(event)

\* Where the goroutine is.
PcInv ==
    /\ pc \in {"reading", "sending"} => upstream = "open"
    /\ pc = "sending" => event # <<>>
    /\ pc = "ended" => event = <<>> /\ upstream # "open"
    /\ pc \notin {"returning", "returned"} => terminal = "none"
    /\ terminal # "none" => event = <<>> /\ terminal = Verdict
    /\ pc \in {"returning", "returned"} => terminal # "none" \/ ctxDone
    /\ closed <=> pc = "returned"

IInv == TypeOK /\ TextInv /\ EventInv /\ PcInv

----------------------------------------------------------------------------
(* Sequences of pieces.                                                    *)

LEMMA Fragment ==
    ASSUME NEW n \in Nat, NEW k \in Nat, k + n <= Pieces
    PROVE  /\ [i \in 1..n |-> k + i] \in Seq(0..Pieces)
           /\ Len([i \in 1..n |-> k + i]) = n
           /\ \A i \in 1..n : [j \in 1..n |-> k + j][i] = k + i
  BY PiecesAssumption

LEMMA HeadTail ==
    ASSUME NEW s \in Seq(0..Pieces), s # <<>>
    PROVE  /\ Head(s) = s[1] /\ Head(s) \in 0..Pieces
           /\ Tail(s) \in Seq(0..Pieces)
           /\ Len(s) \in Nat /\ Len(s) > 0 /\ Len(Tail(s)) = Len(s) - 1
           /\ \A i \in 1..Len(Tail(s)) : Tail(s)[i] = s[i + 1]
           /\ Tail(s) = <<>> <=> Len(s) = 1
<1>1. /\ Len(s) \in Nat /\ Len(s) > 0 /\ Head(s) = s[1]
      /\ Tail(s) \in Seq(0..Pieces) /\ Len(Tail(s)) = Len(s) - 1
      /\ \A i \in 1..Len(Tail(s)) : Tail(s)[i] = s[i + 1]
  BY HeadTailProperties, EmptySeq, LenProperties
<1>2. s[1] \in 0..Pieces
  BY <1>1, HeadTailProperties
<1>3. Tail(s) = <<>> <=> Len(Tail(s)) = 0
  BY <1>1, EmptySeq
<1> QED
  BY <1>1, <1>2, <1>3

LEMMA Extend ==
    ASSUME NEW s \in Seq(1..Pieces), NEW p \in 1..Pieces
    PROVE  /\ Append(s, p) \in Seq(1..Pieces)
           /\ Len(Append(s, p)) = Len(s) + 1
           /\ \A i \in 1..Len(s) : Append(s, p)[i] = s[i]
           /\ Append(s, p)[Len(s) + 1] = p
  BY PiecesAssumption

\* A sequence is its elements.
LEMMA Counting ==
    ASSUME NEW s \in Seq(1..Pieces), \A i \in 1..Len(s) : s[i] = i
    PROVE  s = [i \in 1..Len(s) |-> i]
  BY PiecesAssumption

\* The text that decodes has every piece.
LEMMA WholeLength ==
    ASSUME NEW s, s = Whole
    PROVE  Len(s) = Pieces
  BY PiecesAssumption DEF Whole

LEMMA VerdictType == Verdict \in {"completed", "error"}
  BY DEF Verdict

----------------------------------------------------------------------------
(* The ledger is an inductive invariant.                                   *)

LEMMA InitInv == Init => IInv
<1> SUFFICES ASSUME Init PROVE IInv
  OBVIOUS
<1>1. TypeOK
  <2>1. event \in Seq(0..Pieces) /\ text \in Seq(1..Pieces)
    BY DEF Init
  <2>2. 0 \in 0..Pieces /\ 0 \in 0..MaxIdle
    BY PiecesAssumption, MaxIdleAssumption
  <2> QED
    BY <2>1, <2>2 DEF Init, TypeOK
<1>2. EventInv
  <2>1. event = <<>> /\ emitted = 0 /\ tokens = 0
    BY DEF Init
  <2>2. Len(event) = 0
    BY <2>1
  <2> QED
    BY <2>1, <2>2 DEF EventInv
<1> QED
  BY <1>1, <1>2 DEF Init, IInv, TextInv, PcInv, Unsent

\* An event brings the next pieces, or none.
LEMMA EventStep ==
    ASSUME IInv, NextFragments \/ NextIdle
    PROVE  IInv'
<1> USE PiecesAssumption, PerEventAssumption, MaxIdleAssumption
<1>1. /\ pc = "reading" /\ pc' = pc /\ text' = text /\ tokens' = tokens
      /\ event = <<>> /\ upstream = "open" /\ upstream' = upstream
      /\ UNCHANGED <<valid, terminal, closed, ctxDone>>
  BY DEF NextFragments, NextIdle, channelVars
<1>2. emitted = tokens /\ tokens \in Nat /\ emitted \in 0..Pieces
  BY <1>1 DEF IInv, TypeOK, EventInv, Empty
<1>3. /\ emitted' \in 0..Pieces /\ idle' \in 0..MaxIdle
      /\ event' \in Seq(0..Pieces)
      /\ EventInv'
  <2>1. CASE NextFragments
    <3>1. PICK n \in 1..PerEvent : /\ emitted + n <= Pieces
                                   /\ emitted' = emitted + n
                                   /\ event' = Fragments(n)
      BY <2>1 DEF NextFragments
    <3>2. n \in Nat /\ emitted \in Nat
      BY <1>2
    <3>3. event' = [i \in 1..n |-> emitted + i]
      BY <3>1 DEF Fragments
    <3>4. /\ event' \in Seq(0..Pieces) /\ Len(event') = n
          /\ \A i \in 1..n : event'[i] = emitted + i
      BY <3>1, <3>2, <3>3, Fragment
    <3> QED
      BY <1>1, <1>2, <2>1, <3>1, <3>2, <3>4
         DEF NextFragments, IInv, TypeOK, EventInv
  <2>2. CASE NextIdle
    <3>1. CASE event' = <<>>
      <4>1. Len(event') = 0
        BY <3>1
      <4> QED
        BY <1>1, <1>2, <2>2, <3>1, <4>1 DEF NextIdle, IInv, TypeOK, EventInv
    <3>2. CASE event' = <<Empty>>
      <4>1. event' \in Seq(0..Pieces)
        BY <3>2 DEF Empty
      <4> QED
        BY <1>1, <1>2, <2>2, <3>2, <4>1 DEF NextIdle, IInv, TypeOK, EventInv
    <3> QED
      BY <2>2, <3>1, <3>2 DEF NextIdle
  <2> QED
    BY <2>1, <2>2
<1>4. TypeOK'
  BY <1>1, <1>3 DEF IInv, TypeOK
<1>5. TextInv'
  BY <1>1 DEF IInv, TextInv, Unsent
<1>6. PcInv'
  BY <1>1 DEF IInv, PcInv
<1> QED
  BY <1>3, <1>4, <1>5, <1>6 DEF IInv

\* A kept fragment is the next piece.
LEMMA TakeStep ==
    ASSUME IInv, TakeFragment
    PROVE  IInv'
<1> USE PiecesAssumption
<1>1. /\ pc = "reading" /\ pc' = "sending" /\ event # <<>> /\ event' = event
      /\ tokens' = tokens /\ emitted' = emitted
      /\ text' = Append(text, Head(event)) /\ Head(event) # Empty
      /\ UNCHANGED <<upstream, idle, valid, terminal, closed, ctxDone>>
  BY DEF TakeFragment, providerVars, channelVars
<1>2. /\ event \in Seq(0..Pieces) /\ text \in Seq(1..Pieces)
      /\ tokens \in Nat /\ Len(text) = tokens
      /\ \A i \in 1..Len(text) : text[i] = i
  BY <1>1 DEF IInv, TypeOK, TextInv, Unsent
<1>3. Head(event) = event[1] /\ Head(event) \in 1..Pieces /\ Len(event) > 0
      /\ Len(event) \in Nat
  BY <1>1, <1>2, HeadTail DEF Empty
<1>4. event # <<Empty>>
  BY <1>1, <1>3
<1>5. Head(event) = Len(text) + 1
  BY <1>2, <1>3, <1>4 DEF IInv, EventInv
<1>6. /\ text' \in Seq(1..Pieces) /\ Len(text') = tokens + 1
      /\ \A i \in 1..Len(text') : text'[i] = i
  BY <1>1, <1>2, <1>3, <1>5, Extend
<1>7. TypeOK'
  BY <1>1, <1>6 DEF IInv, TypeOK
<1>8. TextInv'
  BY <1>1, <1>6 DEF TextInv, Unsent
<1>9. EventInv' /\ PcInv'
  BY <1>1, <1>4 DEF IInv, EventInv, PcInv
<1> QED
  BY <1>7, <1>8, <1>9 DEF IInv

\* Dropping an empty fragment, or the one received, from the event.
LEMMA DropStep ==
    ASSUME IInv, SkipEmpty \/ SendToken
    PROVE  IInv'
<1> USE PiecesAssumption
<1>1. /\ event # <<>> /\ event' = Tail(event) /\ pc' = "reading"
      /\ text' = text /\ emitted' = emitted
      /\ UNCHANGED <<upstream, idle, valid, terminal, closed, ctxDone>>
  BY DEF SkipEmpty, SendToken, IInv, PcInv, providerVars, channelVars
<1>2. /\ event \in Seq(0..Pieces) /\ tokens \in Nat /\ emitted \in 0..Pieces
      /\ text \in Seq(1..Pieces)
  BY DEF IInv, TypeOK
<1>3. /\ Head(event) = event[1] /\ event' \in Seq(0..Pieces)
      /\ Len(event) \in Nat /\ Len(event) > 0 /\ Len(event') = Len(event) - 1
      /\ \A i \in 1..Len(event') : event'[i] = event[i + 1]
      /\ event' = <<>> <=> Len(event) = 1
  BY <1>1, <1>2, HeadTail
<1>4. CASE SkipEmpty
  <2>1. event = <<Empty>> /\ emitted = tokens
    BY <1>2, <1>3, <1>4 DEF IInv, EventInv, SkipEmpty, Empty
  <2>2. event' = <<>>
    BY <1>3, <2>1
  <2>3. tokens' = tokens /\ pc = "reading"
    BY <1>4 DEF SkipEmpty, channelVars
  <2> QED
    BY <1>1, <1>3, <2>1, <2>2, <2>3
       DEF IInv, TypeOK, TextInv, EventInv, PcInv, Unsent
<1>5. CASE SendToken
  <2>1. pc = "sending" /\ tokens' = tokens + 1
    BY <1>5 DEF SendToken
  <2>2. /\ \A i \in 1..Len(event) : event[i] = tokens + i
        /\ emitted = tokens + Len(event)
    BY <2>1 DEF IInv, EventInv
  <2>3. EventInv'
    BY <1>1, <1>2, <1>3, <2>1, <2>2 DEF EventInv
  <2>4. TypeOK'
    BY <1>1, <1>2, <1>3, <2>1, <2>2 DEF IInv, TypeOK
  <2>5. TextInv' /\ PcInv'
    BY <1>1, <1>2, <2>1 DEF IInv, TextInv, PcInv, Unsent
  <2> QED
    BY <2>3, <2>4, <2>5 DEF IInv
<1> QED
  BY <1>4, <1>5

\* The ends: of the stream, of the goroutine, of the context.
LEMMA EndStep ==
    ASSUME IInv,
           \/ NextFalse \/ GiveUpToken \/ SendTerminal \/ GiveUpTerminal
           \/ CloseChannel \/ Cancel \/ UNCHANGED vars
    PROVE  IInv'
<1> USE DEF vars, providerVars, adapterVars, channelVars
<1>1. UNCHANGED <<emitted, idle, valid, event, text, tokens>>
  BY DEF NextFalse, GiveUpToken, SendTerminal, GiveUpTerminal, CloseChannel,
         Cancel
<1>2. Unsent' <=> Unsent
  BY <1>1 DEF IInv, PcInv, Unsent, NextFalse, GiveUpToken, SendTerminal,
              GiveUpTerminal, CloseChannel, Cancel
<1>3. TextInv'
  BY <1>1, <1>2 DEF IInv, TextInv
<1>4. EventInv'
  <2>1. CASE event = <<Empty>> /\ pc = "reading"
    BY <1>1, <2>1 DEF IInv, EventInv, NextFalse, GiveUpToken, SendTerminal,
                      GiveUpTerminal, CloseChannel, Cancel
  <2>2. CASE ~(event = <<Empty>> /\ pc = "reading")
    BY <1>1, <2>2 DEF IInv, EventInv
  <2> QED
    BY <2>1, <2>2
<1>5. Verdict' = Verdict \/ NextFalse
  BY <1>1 DEF GiveUpToken, SendTerminal, GiveUpTerminal, CloseChannel, Cancel,
              Verdict, Decodes
<1>6. PcInv'
  BY <1>1, <1>5, VerdictType
     DEF IInv, PcInv, NextFalse, GiveUpToken, SendTerminal, GiveUpTerminal,
         CloseChannel, Cancel
<1>7. TypeOK'
  BY <1>1, VerdictType
     DEF IInv, TypeOK, NextFalse, GiveUpToken, SendTerminal, GiveUpTerminal,
         CloseChannel, Cancel
<1> QED
  BY <1>3, <1>4, <1>6, <1>7 DEF IInv

\* The ledger holds in every state of the goroutine, whatever the provider
\* sends and whenever the context is done.
THEOREM Invariance == Spec => []IInv
<1>1. IInv /\ [Next]_vars => IInv'
  BY EventStep, TakeStep, DropStep, EndStep DEF Next, Adapter, Rest
<1> QED
  BY <1>1, InitInv, PTL DEF Spec

\* Every variable keeps its type: no more pieces are kept or relayed than the
\* call has, and no empty fragment is.
THEOREM Typing == Spec => []TypeOK
<1>1. IInv => TypeOK
  BY DEF IInv
<1> QED
  BY <1>1, Invariance, PTL

\* The tokens put together are the text the adapter decodes, however long the
\* call and however many fragments an event carries.
THEOREM TokensAreTheTextHolds == Spec => []TokensAreTheText
<1>1. ASSUME IInv PROVE TokensAreTheText
  <2>1. text = [i \in 1..Len(text) |-> i]
    BY <1>1, Counting DEF IInv, TypeOK, TextInv
  <2>2. tokens = IF Unsent THEN Len(text) - 1 ELSE Len(text)
    BY <1>1, PiecesAssumption DEF IInv, TypeOK, TextInv
  <2> QED
    BY <2>1, <2>2 DEF TokensAreTheText, Unsent
<1> QED
  BY <1>1, Invariance, PTL

\* A stream that ends does so as GenerateStructured returns of the same
\* response, whatever has ended that.
THEOREM SameAsStructuredHolds == Spec => []SameAsStructured
<1>1. ASSUME IInv, terminal # "none"
      PROVE  terminal = Structured
  <2>1. event = <<>> /\ terminal = Verdict
    BY <1>1 DEF IInv, PcInv
  <2>2. ~Unsent
    BY <1>1, <2>1 DEF IInv, PcInv, Unsent
  <2>3. Len(text) = emitted
    <3>1. Len(event) = 0 /\ event # <<Empty>>
      BY <2>1
    <3> QED
      BY <1>1, <2>2, <3>1, PiecesAssumption
         DEF IInv, TypeOK, TextInv, EventInv
  <2>4. text = [i \in 1..Len(text) |-> i]
    BY <1>1, Counting DEF IInv, TypeOK, TextInv
  <2> QED
    BY <1>1, <2>1, <2>3, <2>4 DEF Verdict, Structured, Called
<1>2. IInv => SameAsStructured
  BY <1>1 DEF SameAsStructured
<1> QED
  BY <1>2, Invariance, PTL

----------------------------------------------------------------------------
(* The promise.                                                            *)

LEMMA PromiseStep ==
    ASSUME IInv, [Next]_vars
    PROVE  [Promise!Next]_(Promise!vars)
<1> USE PiecesAssumption
<1>1. CASE SendToken
  <2>1. pc = "sending" /\ event # <<>> /\ event \in Seq(0..Pieces)
    BY <1>1 DEF SendToken, IInv, PcInv, TypeOK
  <2>2. Len(event) \in Nat /\ Len(event) > 0
    BY <2>1, HeadTail
  <2>3. emitted = tokens + Len(event) /\ emitted \in 0..Pieces
        /\ tokens \in 0..Pieces
    BY <2>1 DEF IInv, EventInv, TypeOK
  <2>4. tokens < Pieces /\ terminal = "none" /\ ~closed
    BY <2>1, <2>2, <2>3 DEF IInv, PcInv, TypeOK
  <2> QED
    BY <1>1, <2>4 DEF SendToken, Promise!Next, Promise!Token
<1>2. CASE SendTerminal
  <2>1. pc = "ended" /\ event = <<>> /\ terminal = "none" /\ ~closed
    BY <1>2 DEF SendTerminal, IInv, PcInv, TypeOK
  <2>2. Len(text) = tokens
    BY <2>1 DEF IInv, TextInv, Unsent
  <2>3. ASSUME Verdict = "completed" PROVE tokens = Pieces
    <3>1. text = Whole
      BY <2>3 DEF Verdict, Decodes
    <3> QED
      BY <2>2, <3>1, WholeLength
  <2>4. UNCHANGED <<tokens, closed, ctxDone>> /\ terminal' = Verdict
    BY <1>2 DEF SendTerminal
  <2> QED
    BY <2>1, <2>3, <2>4, VerdictType
       DEF Promise!Next, Promise!Complete, Promise!Fail
<1>3. CASE CloseChannel
  BY <1>3 DEF CloseChannel, IInv, PcInv, TypeOK, Promise!Next, Promise!Close
<1>4. CASE Cancel
  BY <1>4 DEF Cancel, channelVars, Promise!Next, Promise!Cancel
<1>5. CASE UNCHANGED <<channelVars, ctxDone>>
  BY <1>5 DEF channelVars, Promise!vars
<1> QED
  BY <1>1, <1>2, <1>3, <1>4, <1>5
     DEF Next, Adapter, Rest, vars, NextFragments, NextIdle, NextFalse,
         SkipEmpty, TakeFragment, GiveUpToken, GiveUpTerminal

\* StreamStructured keeps the promise of its channel: the variation only
\* after every token of its text, nothing after a terminal chunk, and a close
\* without one only when the context is done.
THEOREM PromiseKept == Spec => KeepsPromise
<1>1. Init => Promise!Init
  BY DEF Init, Promise!Init
<1>2. IInv /\ [Next]_vars => [Promise!Next]_(Promise!vars)
  BY PromiseStep
<1> QED
  BY <1>1, <1>2, Invariance, PTL DEF Spec, KeepsPromise, Promise!Spec
=============================================================================
