----------------------------- MODULE ContentKey -----------------------------
(***************************************************************************)
(* A site profile on its way from POST /v1/analyze through the client to   *)
(* POST /v1/generate, the key a request has when its client sends none     *)
(* (internal/adapter/httpapi/analyze.go, generate.go), and the prompts the *)
(* generation is made of (internal/adapter/llm/prompt.go).                 *)
(*                                                                         *)
(* IdempotentGenerate has what requests with one key do to each other;     *)
(* here requests come one by one, and the question is which of them have   *)
(* one key.  A generation that fails leaves nothing to replay, and is      *)
(* left out.                                                               *)
(***************************************************************************)
EXTENDS Integers, Sequences, FiniteSets, SequencesExt

CONSTANTS
    Contents,       \* the fields of a profile that are carried as they are
    Words,          \* the keywords it may have
    Times,          \* when it was analyzed
    Asks,           \* the strategies and currency of a request, both optional
    Headers,        \* the Idempotency-Keys that are sent, the empty one or not
    MaxKept         \* bound: keys that Redis holds

Json(S) == {s \in Seq(S) : Len(s) <= 1}

ASSUME AsksAssumption == Asks \subseteq [strategies : Json(Seq(STRING)),
                                        currency : Json(STRING)]
ASSUME MaxKeptAssumption == MaxKept \in Nat

VARIABLES
    analyzed,       \* the domain.SiteProfile of the client's analysis
    held,           \* the profile it was answered
    kept,           \* the generation each key is mapped to, and as history
                    \* what the request for it said
    answer          \* the last answer of POST /v1/generate, and as history
                    \* the prompts the request for it asked for

contentVars == <<analyzed, held, kept, answer>>

----------------------------------------------------------------------------
(* Profiles.  An optional JSON field, and a slice that may be nil, is <<>> *)
(* or <<its value>>.                                                       *)

\* A profile whose url is empty.
NoURL == "no url"

Positions == {"", "premium"}

Profiles == [content : Contents, position : Positions,
             keywords : {<<>>, <<<<>>>>} \cup {<<<<w>>>> : w \in Words},
             analyzedAt : Times]

APIProfiles == [content : Contents \cup {NoURL},
                position : {<<p>> : p \in Positions} \cup {<<>>},
                keywords : {<<>>, <<<<>>>>} \cup {<<<<w>>>> : w \in Words},
                analyzedAt : Times]

IsEmpty(slice) == slice \in {<<>>, <<<<>>>>}

\* As if the keywords of an analysis were not answered.
toAPISiteProfileNoKeywords(p) ==
    [p EXCEPT !.position = IF p.position = "" THEN <<>> ELSE <<p.position>>,
              !.keywords = <<>>]

toAPISiteProfile(p) ==
    [p EXCEPT !.position = IF p.position = "" THEN <<>> ELSE <<p.position>>,
              !.keywords = IF IsEmpty(p.keywords) THEN <<>> ELSE p.keywords]

fromAPISiteProfile(p) ==
    [p EXCEPT !.position = IF p.position = <<>> THEN "" ELSE p.position[1]]

----------------------------------------------------------------------------
(* Requests and their keys.                                                *)

allStrategies == <<"anchor", "freemium", "value_based">>

Strategies == ToSet(allStrategies)

\* The profile as the client sends it back: as it is, with an empty value for
\* what is absent, or without its url.
Spellings(p) ==
    {p, [p EXCEPT !.content = NoURL]}
    \cup (IF p.position = <<>> THEN {[p EXCEPT !.position = <<"">>]} ELSE {})
    \cup (IF p.keywords = <<>> THEN {[p EXCEPT !.keywords = <<<<>>>>]} ELSE {})

GenerateRequests ==
    [profile : Spellings(held), ask : Asks,
     header : {<<>>} \cup {<<h>> : h \in Headers}]

toGenerateVariationsInput(req) ==
    [profile |-> fromAPISiteProfile(req.profile),
     strategies |-> IF IsEmpty(req.ask.strategies) THEN allStrategies
                                               ELSE req.ask.strategies[1],
     currency |-> IF req.ask.currency \in {<<>>, <<"">>} THEN "USD"
                                                     ELSE req.ask.currency[1]]

\* A sorted list tells what it has and how often, and no more.
Sorted(list) == ToBag(list)

\* As if the key did not cover the currency.
contentIdempotencyKeyNoCurrency(in) ==
    [profile |-> [in.profile EXCEPT !.analyzedAt = 0],
     strategies |-> Sorted(in.strategies), currency |-> ""]

\* As if the time of the analysis were not left out.
contentIdempotencyKeyTimed(in) == [in EXCEPT !.strategies = Sorted(@)]

\* The hash stands for what it is a hash of.
contentIdempotencyKey(in) ==
    [profile |-> [in.profile EXCEPT !.analyzedAt = 0],
     strategies |-> Sorted(in.strategies), currency |-> in.currency]

\* No Idempotency-Key of the client's own, or an empty one.  A client is not
\* taken to send what a content key reads as.
Implicit(req) == req.header \in {<<>>, <<"">>}

KeyOf(req) ==
    IF Implicit(req)
      THEN [content |-> contentIdempotencyKey(toGenerateVariationsInput(req))]
      ELSE [header |-> req.header[1]]

\* GenerateVariationsInput.Validate.
Valid(in) ==
    /\ in.profile.content # NoURL
    /\ Len(in.strategies) \in 1..3
    /\ ToSet(in.strategies) \subseteq Strategies
    /\ IsInjective(in.strategies)

\* systemPrompt and userPrompt.
Prompt(in, strategy) ==
    [strategy |-> strategy, currency |-> in.currency,
     content |-> in.profile.content, position |-> in.profile.position,
     keywords |-> IF IsEmpty(in.profile.keywords) THEN <<>>
                                                  ELSE in.profile.keywords]

\* A completed generation: the prompt of each of its variations, in order.
Generation(in) ==
    [i \in DOMAIN in.strategies |-> Prompt(in, in.strategies[i])]

\* What a request says, however it spells it: a default that is left out, and
\* the order of the strategies.
Said(req) ==
    [strategies |-> IF IsEmpty(req.ask.strategies) THEN Strategies
                                             ELSE ToSet(req.ask.strategies[1]),
     currency |-> IF req.ask.currency \in {<<>>, <<"">>} THEN <<"USD">>
                                                     ELSE req.ask.currency,
     content |-> req.profile.content, keywords |-> req.profile.keywords,
     position |-> IF req.profile.position = <<"">> THEN <<>>
                                                   ELSE req.profile.position]

NoAnswer == [kind |-> "none"]

ContentInit ==
    /\ analyzed \in Profiles
    /\ held = toAPISiteProfile(analyzed)
    /\ kept = <<>>
    /\ answer = NoAnswer

----------------------------------------------------------------------------
(* Steps.                                                                  *)

\* The client has a site analyzed, again or anew.
AnalyzeSite ==
    /\ analyzed' \in Profiles
    /\ held' = toAPISiteProfile(analyzed')
    /\ answer' = NoAnswer
    /\ UNCHANGED kept

Answer(kind, req, generation) ==
    /\ answer' = [kind |-> kind, implicit |-> Implicit(req),
                  asked |-> ToSet(Generation(toGenerateVariationsInput(req))),
                  generation |-> generation]
    /\ UNCHANGED <<analyzed, held>>

\* checkIdempotency comes before Execute: what is replayed is not validated.
Replay(req) ==
    /\ KeyOf(req) \in DOMAIN kept
    /\ Answer("replayed", req, kept[KeyOf(req)].generation)
    /\ UNCHANGED kept

\* Execute refuses the input, and the reservation is released.
Refuse(req) ==
    /\ KeyOf(req) \notin DOMAIN kept
    /\ ~Valid(toGenerateVariationsInput(req))
    /\ answer' = [kind |-> "refused"]
    /\ UNCHANGED <<analyzed, held, kept>>

Generate(req) ==
    LET in == toGenerateVariationsInput(req)
        key == KeyOf(req)
        mapping == [generation |-> Generation(in), said |-> Said(req)]
    IN  /\ key \notin DOMAIN kept
        /\ Valid(in)
        /\ Cardinality(DOMAIN kept) < MaxKept
        /\ kept' = [k \in DOMAIN kept \cup {key} |->
                       IF k = key THEN mapping ELSE kept[k]]
        /\ Answer("generated", req, Generation(in))

ExpireMapping ==
    /\ \E key \in DOMAIN kept :
          kept' = [k \in DOMAIN kept \ {key} |-> kept[k]]
    /\ answer' = NoAnswer
    /\ UNCHANGED <<analyzed, held>>

ContentNext ==
    \/ AnalyzeSite
    \/ \E req \in GenerateRequests : Replay(req) \/ Refuse(req) \/ Generate(req)
    \/ ExpireMapping

ContentSpec == ContentInit /\ [][ContentNext]_contentVars

----------------------------------------------------------------------------
(* Properties.                                                             *)

Currencies ==
    {"USD"} \cup ({ask.currency[1] : ask \in {a \in Asks : a.currency # <<>>}}
                 \ {""})

Prompts == [strategy : Strategies, currency : Currencies, content : Contents,
            position : Positions,
            keywords : {<<>>} \cup {<<<<w>>>> : w \in Words}]

ContentTypeOK ==
    /\ analyzed \in Profiles
    /\ held \in APIProfiles
    /\ \A k \in DOMAIN kept :
          /\ Len(kept[k].generation) \in 1..3
          /\ ToSet(kept[k].generation) \subseteq Prompts
    /\ Cardinality(DOMAIN kept) <= MaxKept
    /\ answer.kind \in {"none", "replayed", "refused", "generated"}

\* contentIdempotencyKey: two requests without a key of their own share a
\* generation only if each would have had the model asked the same, whatever
\* order it lists its strategies in.
ReplayIsWhatWasAsked ==
    answer.kind = "replayed" /\ answer.implicit =>
        ToSet(answer.generation) = answer.asked

\* contentIdempotencyKey, "excluding the volatile AnalyzedAt timestamp ...
\* the requested strategies (order-independent)": no two generations are kept
\* for what two requests without a key of their own both said, the same site
\* analyzed again without a change included.
ResendIsReplayed ==
    \A k, l \in DOMAIN kept :
        /\ DOMAIN k = {"content"}
        /\ DOMAIN l = {"content"}
        /\ kept[k].said = kept[l].said
        => k = l

\* toAPISiteProfile and fromAPISiteProfile are each other's reverse: what is
\* generated for the profile a client was answered is generated for what the
\* analysis had found, its keywords and price position included.
AnalysisIsWhatIsPriced ==
    answer.kind = "generated" =>
        \A i \in DOMAIN answer.generation :
            LET prompt == answer.generation[i]
            IN  /\ prompt.content = analyzed.content
                /\ prompt.position = analyzed.position
                /\ IF IsEmpty(analyzed.keywords) THEN prompt.keywords = <<>>
                   ELSE prompt.keywords = analyzed.keywords
=============================================================================
