------------------------ MODULE ContentKeyInvariant ------------------------
(***************************************************************************)
(* The inductive invariant of ContentKey: the client holds what its last   *)
(* analysis was answered with, and every key is that of a request whose    *)
(* generation it maps to.                                                  *)
(***************************************************************************)
EXTENDS ContentKey

\* The client holds what toAPISiteProfile made of its last analysis.
HeldInv == analyzed \in Profiles /\ held = toAPISiteProfile(analyzed)

\* Every request a client may have made, of any analysis.
EveryRequest ==
    [profile : UNION {Spellings(toAPISiteProfile(p)) : p \in Profiles},
     ask : Asks, header : {<<>>} \cup {<<h>> : h \in Headers}]

\* A key and what it is mapped to are one valid request's.
KeptFor(k, req) ==
    LET in == toGenerateVariationsInput(req)
    IN  /\ Valid(in)
        /\ k = KeyOf(req)
        /\ kept[k] = [generation |-> Generation(in), said |-> Said(req)]

KeptInv == \A k \in DOMAIN kept : \E req \in EveryRequest : KeptFor(k, req)

ContentInv ==
    /\ HeldInv
    /\ KeptInv
    /\ ReplayIsWhatWasAsked
    /\ AnalysisIsWhatIsPriced

\* What ContentTypeOK adds to it: the bound on the keys, and the kinds of
\* answers.
CountInv ==
    /\ IsFiniteSet(DOMAIN kept)
    /\ Cardinality(DOMAIN kept) <= MaxKept
    /\ answer.kind \in {"none", "replayed", "refused", "generated"}
=============================================================================
