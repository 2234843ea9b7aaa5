------------------------------- MODULE Offer -------------------------------
(***************************************************************************)
(* One variation, from the tool call it is decoded of to everything that   *)
(* is made of it: the SSE event and the answer of GET, both toAPIVariation *)
(* (internal/adapter/httpapi/generate.go), the row's JSONB column between  *)
(* them, and the three exports (internal/usecase/export_*.go).             *)
(*                                                                         *)
(* A nil slice and an absent or empty string field are told apart where    *)
(* the code does: an optional JSON field is <<>> or <<its value>>.         *)
(***************************************************************************)
EXTENDS Integers, Sequences

CONSTANTS
    Calls,      \* the tool calls the model may make
    Codes,      \* the currencies of three capital letters, ^[A-Z]{3}$
    Lower       \* strings.ToLower, on the currencies

Json(S) == {s \in Seq(S) : Len(s) <= 1}

ToolPrice == [amount : Int, currency : STRING, interval : STRING,
              label : STRING]

ToolTier == [name : STRING, price : ToolPrice, tagline : STRING,
             features : Json(Seq(STRING)), cta : STRING,
             highlighted : BOOLEAN, badge : STRING]

\* A call that does not decode is cut short, or has a fraction as an amount.
ToolCall == [decodes : BOOLEAN, headline : STRING, subheadline : STRING,
             rationale : STRING, tiers : Seq(ToolTier)]

ASSUME CallsAssumption == Calls \subseteq ToolCall

VARIABLES
    stage,      \* what has become of the call
    variation,  \* the domain.Variation it was decoded to
    column,     \* the row's variations column, which holds it
    shown       \* what each reader was given

vars == <<stage, variation, column, shown>>

Readers == {"stream", "get", "html", "jsx", "stripe"}

NotShown == [kind |-> "none"]

NoVariation == [headline |-> "", subheadline |-> "", rationale |-> "",
                tiers |-> <<>>]

NoColumn == <<>>

Init ==
    /\ stage = "called"
    /\ variation = NoVariation
    /\ column = NoColumn
    /\ shown = [r \in Readers |-> NotShown]

----------------------------------------------------------------------------
(* Decoding and validation.                                                *)

\* A slice of strings, as encoding/json reads and writes it.
Slice(json) == [isNil |-> json = <<>>,
                items |-> IF json = <<>> THEN <<>> ELSE json[1]]

Array(slice) == IF slice.isNil THEN <<>> ELSE <<slice.items>>

DecodedTier(t) == [t EXCEPT !.features = Slice(@)]

\* As if the badge were not a field of the column.
EncodedTierNoBadge(t) == [t EXCEPT !.features = Array(@), !.badge = ""]

EncodedTier(t) == [t EXCEPT !.features = Array(@)]

\* json.Unmarshal and toDomainVariation: the id and the strategy, which are
\* not the model's, are left out.
toDomainVariation(call) ==
    [headline |-> call.headline, subheadline |-> call.subheadline,
     rationale |-> call.rationale,
     tiers |-> [i \in DOMAIN call.tiers |-> DecodedTier(call.tiers[i])]]

minTiers == 1

maxTiers == 5

Intervals == {"one_time", "monthly", "yearly"}

ValidTier(t) ==
    /\ t.name # ""
    /\ t.price.label = "" =>
          /\ t.price.currency # ""
          /\ t.price.interval \in Intervals
          /\ t.price.amount >= 0

\* Variation.Validate.
Valid(v) ==
    /\ v.headline # ""
    /\ Len(v.tiers) \in minTiers..maxTiers
    /\ \A i \in DOMAIN v.tiers : ValidTier(v.tiers[i])

----------------------------------------------------------------------------
(* The column.                                                             *)

Marshal(v) ==
    <<[v EXCEPT !.tiers = [i \in DOMAIN v.tiers |-> EncodedTier(v.tiers[i])]]>>

Unmarshal(col) ==
    [col[1] EXCEPT !.tiers = [i \in DOMAIN @ |-> DecodedTier(@[i])]]

----------------------------------------------------------------------------
(* The answers of the API.                                                 *)

\* A field that is left out when it is empty.
Optional(s) == IF s = "" THEN <<>> ELSE <<s>>

toAPIPrice(p) ==
    [amount |-> p.amount, currency |-> p.currency, interval |-> p.interval,
     customLabel |-> Optional(p.label)]

\* As if a nil slice were marshaled as it is.
toAPIPricingTierNull(t) ==
    [name |-> t.name, features |-> Array(t.features),
     price |-> toAPIPrice(t.price), tagline |-> Optional(t.tagline),
     cta |-> Optional(t.cta), badge |-> Optional(t.badge),
     highlighted |-> t.highlighted]

\* A nil slice of features becomes an empty one: required, and never null.
toAPIPricingTier(t) ==
    [name |-> t.name, features |-> <<t.features.items>>,
     price |-> toAPIPrice(t.price), tagline |-> Optional(t.tagline),
     cta |-> Optional(t.cta), badge |-> Optional(t.badge),
     highlighted |-> t.highlighted]

toAPIVariation(v) ==
    [kind |-> "answer", headline |-> v.headline,
     subheadline |-> Optional(v.subheadline),
     rationale |-> Optional(v.rationale),
     tiers |-> [i \in DOMAIN v.tiers |-> toAPIPricingTier(v.tiers[i])]]

----------------------------------------------------------------------------
(* The exports.                                                            *)

currencySymbols == [USD |-> "$", EUR |-> "euro sign", GBP |-> "pound sign",
                    BRL |-> "R$"]

Symbol(currency) ==
    IF currency \in DOMAIN currencySymbols THEN <<currencySymbols[currency]>>
                                           ELSE <<currency, " ">>

\* Two decimals, as digits; none for a whole amount.
Minor(n) == IF n % 100 = 0 THEN <<>> ELSE <<(n % 100) \div 10, n % 10>>

Suffix(interval) ==
    IF interval = "monthly" THEN "/month"
    ELSE IF interval = "yearly" THEN "/year" ELSE ""

NoText == [label |-> "", symbol |-> <<>>, major |-> 0, minor |-> <<>>,
           suffix |-> ""]

\* The parts of the text a price is shown as.
formatPrice(p) ==
    IF p.label # "" THEN [NoText EXCEPT !.label = p.label]
    ELSE [label |-> "", symbol |-> Symbol(p.currency),
          major |-> p.amount \div 100, minor |-> Minor(p.amount),
          suffix |-> Suffix(p.interval)]

\* An element of a page: its text is a string, or a price's.
Element(tag, text) == [tag |-> tag, text |-> text, price |-> NoText]

PriceElement(p) == [tag |-> "p.price", text |-> "", price |-> formatPrice(p)]

\* An element that is left out when its text is empty.
IfText(tag, text) == IF text = "" THEN <<>> ELSE <<Element(tag, text)>>

List(slice) == [i \in DOMAIN slice.items |-> Element("li", slice.items[i])]

HTMLTier(t) ==
    [class |-> IF t.highlighted THEN <<"tier", "tier--highlighted">>
                                ELSE <<"tier">>,
     children |-> IfText("span.badge", t.badge)
                  \o <<Element("h3", t.name), PriceElement(t.price)>>
                  \o IfText("p.tagline", t.tagline)
                  \o List(t.features)
                  \o IfText("button", t.cta)]

renderHTML(v) ==
    [kind |-> "page",
     heading |-> <<Element("h2", v.headline)>>
                 \o IfText("p.subheadline", v.subheadline),
     tiers |-> [i \in DOMAIN v.tiers |-> HTMLTier(v.tiers[i])]]

\* As if the button were left out with the tagline.
writeJSXTierNoButton(t) ==
    [class |-> <<"tier">> \o IF t.highlighted THEN <<"tier--highlighted">>
                                              ELSE <<>>,
     children |-> IfText("span.badge", t.badge)
                  \o <<Element("h3", t.name)>>
                  \o <<PriceElement(t.price)>>
                  \o IfText("p.tagline", t.tagline)
                  \o List(t.features)
                  \o (IF t.tagline = "" THEN <<>> ELSE IfText("button", t.cta))]

writeJSXTier(t) ==
    [class |-> <<"tier">> \o IF t.highlighted THEN <<"tier--highlighted">>
                                              ELSE <<>>,
     children |-> IfText("span.badge", t.badge)
                  \o <<Element("h3", t.name)>>
                  \o <<PriceElement(t.price)>>
                  \o IfText("p.tagline", t.tagline)
                  \o List(t.features)
                  \o IfText("button", t.cta)]

renderJSX(v) ==
    [kind |-> "page",
     heading |-> <<Element("h2", v.headline)>>
                 \o IfText("p.subheadline", v.subheadline),
     tiers |-> [i \in DOMAIN v.tiers |-> writeJSXTier(v.tiers[i])]]

\* As if unit_amount were left out when it is zero.
stripePriceForOmitsZero(t) ==
    [name |-> t.name, description |-> Optional(t.tagline),
     marketing_features |-> t.features.items,
     unit_amount |-> IF t.price.label # "" \/ t.price.amount = 0
                       THEN <<>> ELSE <<t.price.amount>>,
     currency |-> IF t.price.label # "" THEN "" ELSE Lower[t.price.currency],
     recurring |-> IF t.price.label # "" THEN <<>>
                   ELSE IF t.price.interval = "monthly" THEN <<"month">>
                   ELSE IF t.price.interval = "yearly" THEN <<"year">>
                   ELSE <<>>,
     custom_label |-> t.price.label]

\* unit_amount is a pointer: a zero is written, and only nil left out.
stripePriceFor(t) ==
    [name |-> t.name, description |-> Optional(t.tagline),
     marketing_features |-> t.features.items,
     unit_amount |-> IF t.price.label # "" THEN <<>> ELSE <<t.price.amount>>,
     currency |-> IF t.price.label # "" THEN "" ELSE Lower[t.price.currency],
     recurring |-> IF t.price.label # "" THEN <<>>
                   ELSE IF t.price.interval = "monthly" THEN <<"month">>
                   ELSE IF t.price.interval = "yearly" THEN <<"year">>
                   ELSE <<>>,
     custom_label |-> t.price.label]

renderStripe(v) ==
    [kind |-> "table",
     prices |-> [i \in DOMAIN v.tiers |-> stripePriceFor(v.tiers[i])]]

----------------------------------------------------------------------------
(* The steps.                                                              *)

\* decodeStreamedVariation fails on a call that does not decode or that
\* Validate rejects.
Reject ==
    /\ stage = "called"
    /\ \E call \in Calls : ~call.decodes \/ ~Valid(toDomainVariation(call))
    /\ stage' = "rejected"
    /\ UNCHANGED <<variation, column, shown>>

Accept ==
    /\ stage = "called"
    /\ \E call \in Calls :
          /\ call.decodes
          /\ Valid(toDomainVariation(call))
          /\ variation' = toDomainVariation(call)
    /\ stage' = "accepted"
    /\ UNCHANGED <<column, shown>>

Show(r, view) ==
    /\ shown[r] = NotShown
    /\ shown' = [shown EXCEPT ![r] = view]
    /\ UNCHANGED <<stage, variation, column>>

\* The variation is an event as soon as it is there, saved or not.
Stream ==
    /\ stage \in {"accepted", "saved"}
    /\ Show("stream", toAPIVariation(variation))

\* The terminal Save.
Save ==
    /\ stage = "accepted"
    /\ stage' = "saved"
    /\ column' = Marshal(variation)
    /\ UNCHANGED <<variation, shown>>

\* The variation as GenerationRepo.Get reads it.
Loaded == Unmarshal(column)

Get == stage = "saved" /\ Show("get", toAPIVariation(Loaded))

Export ==
    /\ stage = "saved"
    /\ \/ Show("html", renderHTML(Loaded))
       \/ Show("jsx", renderJSX(Loaded))
       \/ Show("stripe", renderStripe(Loaded))

\* It is rejected, or everyone has been shown it.
Rest ==
    /\ \/ stage = "rejected"
       \/ \A r \in Readers : shown[r] # NotShown
    /\ UNCHANGED vars

Next == Reject \/ Accept \/ Stream \/ Save \/ Get \/ Export \/ Rest

Spec == Init /\ [][Next]_vars

----------------------------------------------------------------------------
(* Properties.                                                             *)

Items == Seq(STRING)

Slices == {s \in [isNil : BOOLEAN, items : Items] : s.isNil => s.items = <<>>}

Tiers == [name : STRING, price : ToolPrice, tagline : STRING,
          features : Slices, cta : STRING, highlighted : BOOLEAN,
          badge : STRING]

Variations == [headline : STRING, subheadline : STRING, rationale : STRING,
               tiers : Seq(Tiers)]

Columns == [headline : STRING, subheadline : STRING, rationale : STRING,
            tiers : Seq(ToolTier)]

TypeOK ==
    /\ stage \in {"called", "rejected", "accepted", "saved"}
    /\ variation \in Variations \cup {NoVariation}
    /\ column \in Json(Columns)
    /\ DOMAIN shown = Readers

Given(r) == shown[r] # NotShown

\* Decimals: the first counts tens of cents.
ReadMinor(minor) ==
    IF minor = <<>> THEN 0
    ELSE IF Len(minor) = 1 THEN 10 * minor[1] ELSE 10 * minor[1] + minor[2]

CurrencyOf(symbol) ==
    CHOOSE c \in DOMAIN currencySymbols : currencySymbols[c] = symbol

\* What someone who reads a price's text takes it to be.
ReadPrice(text) ==
    [label |-> text.label,
     amount |-> IF text.label # "" THEN <<>>
                ELSE <<100 * text.major + ReadMinor(text.minor)>>,
     currency |->
        IF text.label # "" THEN ""
        ELSE IF Len(text.symbol) = 2 THEN Lower[text.symbol[1]]
        ELSE Lower[CurrencyOf(text.symbol[1])],
     recurring |-> IF text.suffix = "/month" THEN <<"month">>
                   ELSE IF text.suffix = "/year" THEN <<"year">> ELSE <<>>]

\* What Stripe takes an entry of the table to be.
ReadEntry(entry) ==
    [label |-> entry.custom_label, amount |-> entry.unit_amount,
     currency |-> entry.currency, recurring |-> entry.recurring]

Elements(s) == {s[i] : i \in DOMAIN s}

\* formatPrice and stripePriceFor: the price a page shows for a tier is the
\* one the table for Stripe asks for it, to the cent and in its currency, a
\* free tier's included.
PricesAgree ==
    \A r \in {"html", "jsx"} : Given(r) /\ Given("stripe") =>
        /\ Len(shown[r].tiers) = Len(shown["stripe"].prices)
        /\ \A i \in DOMAIN shown[r].tiers :
              \A el \in Elements(shown[r].tiers[i].children) :
                  el.tag = "p.price" =>
                      ReadPrice(el.price) = ReadEntry(shown["stripe"].prices[i])

\* The elements of s with this tag have these texts, in this order.
Shows(s, tag, texts) ==
    \E at \in [1..Len(texts) -> 1..Len(s)] :
        /\ \A i, j \in 1..Len(texts) : i < j => at[i] < at[j]
        /\ \A n \in 1..Len(s) :
              s[n].tag = tag <=> \E i \in 1..Len(texts) : at[i] = n
        /\ \A i \in 1..Len(texts) : s[at[i]].text = texts[i]

\* htmlTemplate, writeJSXTier and toAPIPricingTier, each written by hand over
\* the same fields: a page shows what the API's answer has, where it has it,
\* and one price, whose text PricesAgree reads.
PagesShowTheAnswer ==
    \A r \in {"html", "jsx"} : Given(r) /\ Given("get") =>
        LET page == shown[r]
            answer == shown["get"]
        IN  /\ Shows(page.heading, "h2", <<answer.headline>>)
            /\ Shows(page.heading, "p.subheadline", answer.subheadline)
            /\ Len(page.tiers) = Len(answer.tiers)
            /\ \A i \in DOMAIN page.tiers :
                  LET tier == answer.tiers[i]
                      children == page.tiers[i].children
                  IN  /\ Shows(children, "h3", <<tier.name>>)
                      /\ Shows(children, "span.badge", tier.badge)
                      /\ Shows(children, "p.tagline", tier.tagline)
                      /\ Shows(children, "li", tier.features[1])
                      /\ Shows(children, "button", tier.cta)
                      /\ Shows(children, "p.price", <<"">>)
                      /\ tier.highlighted <=> Len(page.tiers[i].class) = 2

\* The column between them: GET answers the variation that the stream's event
\* announced before it was saved.
AnswersAgree == Given("stream") /\ Given("get") => shown["stream"] = shown["get"]

\* Where a price of an answer leaves openapi.yaml's Price.
PriceFaults(price) ==
    (IF price.amount >= 0 THEN {} ELSE {"amount"})
    \cup (IF price.currency \in Codes THEN {} ELSE {"currency"})
    \cup (IF price.interval \in Intervals THEN {} ELSE {"interval"})

\* openapi.yaml's Variation against what Validate lets through and
\* toAPIVariation makes of it: an answer leaves the schema in a price alone,
\* and in one without a label only by its currency, of which Validate asks no
\* more than that it is there.  No array is null or has a tier too many,
\* whichever way the variation came.
OnlyPricesLeaveTheSchema ==
    \A r \in {"stream", "get"} : Given(r) =>
        /\ Len(shown[r].tiers) \in 1..5
        /\ \A i \in DOMAIN shown[r].tiers :
              LET tier == shown[r].tiers[i]
              IN  /\ tier.features # <<>>
                  /\ tier.price.customLabel = <<>> =>
                        PriceFaults(tier.price) \subseteq {"currency"}

\* Variation.Validate, "instead of returning a variation the API contract
\* would reject anyway": openapi.yaml's Price, labelled or not.
ContractAccepts ==
    \A r \in {"stream", "get"} : Given(r) =>
        \A i \in DOMAIN shown[r].tiers :
            PriceFaults(shown[r].tiers[i].price) = {}

\* The same of prices without a label, which Validate looks at.
UnlabelledAccepted ==
    \A r \in {"stream", "get"} : Given(r) =>
        \A i \in DOMAIN shown[r].tiers :
            LET price == shown[r].tiers[i].price
            IN  price.customLabel = <<>> => PriceFaults(price) = {}
=============================================================================
