----------------------------- MODULE OfferProofs -----------------------------
(***************************************************************************)
(* The views of an offer agree, for any calls the model may make.          *)
(*                                                                         *)
(* Every view is a function of one variation: the row's column gives back  *)
(* the variation it was made of, and what each reader was shown is its     *)
(* view of it.                                                             *)
(***************************************************************************)
EXTENDS Offer, SequenceTheorems, TLAPS

\* What reader r is shown.
View(r) ==
    IF r = "html" THEN renderHTML(variation)
    ELSE IF r = "jsx" THEN renderJSX(variation)
    ELSE IF r = "stripe" THEN renderStripe(variation)
    ELSE toAPIVariation(variation)

ViewInv ==
    /\ stage \in {"accepted", "saved"} =>
          variation \in Variations /\ Valid(variation)
    /\ stage = "saved" => column = Marshal(variation)
    /\ \A r \in Readers :
          Given(r) => stage \in {"accepted", "saved"} /\ shown[r] = View(r)

IInv == TypeOK /\ ViewInv

----------------------------------------------------------------------------
(* The column gives back what it was made of.                              *)

LEMMA SliceRoundTrip ==
    ASSUME NEW s \in Slices
    PROVE  Slice(Array(s)) = s /\ Array(s) \in Json(Items)
<1>1. s = [isNil |-> s.isNil, items |-> s.items] /\ s.isNil \in BOOLEAN
      /\ s.items \in Seq(STRING) /\ (s.isNil => s.items = <<>>)
  BY DEF Slices, Items
<1>2. CASE s.isNil
  <2>1. Array(s) = <<>>
    BY <1>2 DEF Array
  <2>2. Slice(Array(s)) = [isNil |-> TRUE, items |-> <<>>]
    BY <2>1 DEF Slice
  <2>3. Array(s) \in Json(Items)
    BY <2>1, EmptySeq DEF Json
  <2>4. s.items = <<>> /\ s.isNil = TRUE
    BY <1>1, <1>2
  <2> QED
    BY <1>1, <2>2, <2>3, <2>4
<1>3. CASE ~s.isNil
  <2>1. Array(s) = <<s.items>>
    BY <1>3 DEF Array
  <2>2. Array(s) # <<>> /\ Array(s)[1] = s.items
    BY <2>1
  <2>3. Slice(Array(s)) = [isNil |-> FALSE, items |-> s.items]
    BY <2>2 DEF Slice
  <2>4. Array(s) \in Json(Items)
    BY <1>1, <2>1 DEF Json, Items
  <2> QED
    BY <1>1, <1>3, <2>3, <2>4
<1> QED
  BY <1>2, <1>3

LEMMA SliceType ==
    ASSUME NEW json \in Json(Items)
    PROVE  Slice(json) \in Slices
<1>1. CASE json = <<>>
  <2>1. Slice(json) = [isNil |-> TRUE, items |-> <<>>]
    BY <1>1 DEF Slice
  <2> QED
    BY <2>1 DEF Slices, Items
<1>2. CASE json # <<>>
  <2>1. Len(json) = 1 /\ json[1] \in Items
    <3>1. json \in Seq(Items) /\ Len(json) <= 1
      BY DEF Json
    <3>2. PICK n \in Nat : n = Len(json)
      BY <3>1, LenProperties
    <3>3. n # 0
      BY <1>2, <3>1, <3>2, EmptySeq
    <3>4. Len(json) = 1 /\ 1 \in 1..Len(json)
      BY <3>1, <3>2, <3>3
    <3> QED
      BY <3>1, <3>4, ElementOfSeq
  <2>2. Slice(json) = [isNil |-> FALSE, items |-> json[1]]
    BY <1>2 DEF Slice
  <2> QED
    BY <2>1, <2>2 DEF Slices
<1> QED
  BY <1>1, <1>2

LEMMA TierRoundTrip ==
    ASSUME NEW t \in Tiers
    PROVE  DecodedTier(EncodedTier(t)) = t /\ EncodedTier(t) \in ToolTier
<1>1. t.features \in Slices
  BY DEF Tiers
<1>2. Slice(Array(t.features)) = t.features /\ Array(t.features) \in Json(Items)
  BY <1>1, SliceRoundTrip
<1>3. EncodedTier(t) \in ToolTier /\ EncodedTier(t).features = Array(t.features)
  BY <1>2 DEF EncodedTier, Tiers, ToolTier, Items
<1>4. DecodedTier(EncodedTier(t)) =
        [[t EXCEPT !.features = Array(t.features)]
            EXCEPT !.features = Slice(Array(t.features))]
  BY <1>3 DEF DecodedTier, EncodedTier
<1>5. DecodedTier(EncodedTier(t)) = [t EXCEPT !.features = t.features]
  BY <1>2, <1>4 DEF Tiers
<1> QED
  BY <1>3, <1>5 DEF Tiers

LEMMA DecodedType ==
    ASSUME NEW t \in ToolTier
    PROVE  DecodedTier(t) \in Tiers
<1>1. t.features \in Json(Items)
  BY DEF ToolTier, Items
<1>2. Slice(t.features) \in Slices
  BY <1>1, SliceType
<1> QED
  BY <1>2 DEF DecodedTier, ToolTier, Tiers

\* What a Save of the variation writes, a Get reads back.
LEMMA RoundTrip ==
    ASSUME NEW v \in Variations
    PROVE  Unmarshal(Marshal(v)) = v /\ Marshal(v) \in Json(Columns)
<1> DEFINE e == [v EXCEPT !.tiers = [i \in DOMAIN v.tiers |->
                                        EncodedTier(v.tiers[i])]]
<1>1. v.tiers \in Seq(Tiers) /\ DOMAIN v.tiers = 1..Len(v.tiers)
      /\ Len(v.tiers) \in Nat
  BY LenProperties DEF Variations
<1>2. \A i \in DOMAIN v.tiers : v.tiers[i] \in Tiers
  BY <1>1, ElementOfSeq
<1>3. e.tiers = [i \in DOMAIN v.tiers |-> EncodedTier(v.tiers[i])]
  BY DEF Variations
<1>4. e.tiers \in Seq(ToolTier)
  BY <1>1, <1>2, <1>3, TierRoundTrip
<1>5. e \in Columns
  BY <1>3, <1>4 DEF Variations, Columns
<1>6. Marshal(v) = <<e>>
  BY DEF Marshal
<1>7. [i \in DOMAIN e.tiers |-> DecodedTier(e.tiers[i])] = v.tiers
  <2>1. DOMAIN e.tiers = DOMAIN v.tiers
    BY <1>3
  <2>2. \A i \in DOMAIN v.tiers : DecodedTier(e.tiers[i]) = v.tiers[i]
    BY <1>2, <1>3, TierRoundTrip
  <2>3. v.tiers = [i \in DOMAIN v.tiers |-> v.tiers[i]]
    BY <1>1
  <2> QED
    BY <2>1, <2>2, <2>3
<1>8. [e EXCEPT !.tiers = v.tiers] = v
  BY DEF Variations
<1> HIDE DEF e
<1>9. Unmarshal(<<e>>) = [e EXCEPT !.tiers =
                             [i \in DOMAIN e.tiers |-> DecodedTier(e.tiers[i])]]
  BY DEF Unmarshal
<1>10. <<e>> \in Json(Columns)
  BY <1>5 DEF Json
<1> QED
  BY <1>6, <1>7, <1>8, <1>9, <1>10

LEMMA DecodedVariation ==
    ASSUME NEW call \in ToolCall
    PROVE  toDomainVariation(call) \in Variations
<1>1. call.tiers \in Seq(ToolTier) /\ DOMAIN call.tiers = 1..Len(call.tiers)
      /\ Len(call.tiers) \in Nat
  BY LenProperties DEF ToolCall
<1>2. \A i \in DOMAIN call.tiers : DecodedTier(call.tiers[i]) \in Tiers
  BY <1>1, ElementOfSeq, DecodedType
<1>3. [i \in DOMAIN call.tiers |-> DecodedTier(call.tiers[i])] \in Seq(Tiers)
  BY <1>1, <1>2
<1> QED
  BY <1>3 DEF toDomainVariation, Variations, ToolCall
----------------------------------------------------------------------------
(* The steps.                                                              *)

LEMMA InitInv == Init => IInv
<1> SUFFICES ASSUME Init PROVE IInv
  OBVIOUS
<1>1. variation = NoVariation /\ stage = "called"
  BY DEF Init
<1>2. column \in Json(Columns)
  BY EmptySeq DEF Init, NoColumn, Json
<1> QED
  BY <1>1, <1>2 DEF Init, IInv, TypeOK, ViewInv, Given

\* What Get reads is what was accepted.
LEMMA LoadedIsVariation ==
    ASSUME IInv, stage = "saved"
    PROVE  Loaded = variation
  BY RoundTrip DEF IInv, TypeOK, ViewInv, Loaded

\* Showing r its view disturbs nothing else.
LEMMA ShowStep ==
    ASSUME IInv, NEW r \in Readers, stage \in {"accepted", "saved"},
           Show(r, View(r))
    PROVE  IInv'
<1>1. /\ shown' = [shown EXCEPT ![r] = View(r)]
      /\ UNCHANGED <<stage, variation, column>>
  BY DEF Show
<1>2. TypeOK'
  BY <1>1 DEF IInv, TypeOK
<1>3. \A q : View(q)' = View(q)
  BY <1>1 DEF View
<1>4. \A q \in Readers : shown'[q] = IF q = r THEN View(r) ELSE shown[q]
  BY <1>1 DEF IInv, TypeOK
<1>5. ViewInv'
  BY <1>1, <1>3, <1>4 DEF IInv, ViewInv, Given
<1> QED
  BY <1>2, <1>5 DEF IInv

LEMMA Step == IInv /\ [Next]_vars => IInv'
<1> SUFFICES ASSUME IInv, [Next]_vars PROVE IInv'
  OBVIOUS
<1>1. CASE Reject
  BY <1>1 DEF Reject, IInv, TypeOK, ViewInv, Given
<1>2. CASE Accept
  <2>1. PICK call \in Calls : /\ Valid(toDomainVariation(call))
                              /\ variation' = toDomainVariation(call)
    BY <1>2 DEF Accept
  <2>2. variation' \in Variations
    BY <2>1, CallsAssumption, DecodedVariation
  <2>3. Valid(variation)'
    BY <2>1 DEF Valid, ValidTier
  <2> QED
    BY <1>2, <2>2, <2>3 DEF Accept, IInv, TypeOK, ViewInv, Given
<1>3. CASE Stream
  <2>1. "stream" \in Readers /\ View("stream") = toAPIVariation(variation)
    BY DEF Readers, View
  <2> QED
    BY <1>3, <2>1, ShowStep DEF Stream
<1>4. CASE Save
  <2>1. /\ column' = Marshal(variation) /\ variation' = variation
        /\ shown' = shown /\ stage' = "saved" /\ stage = "accepted"
    BY <1>4 DEF Save
  <2>2. column' \in Json(Columns)
    BY <2>1, RoundTrip DEF IInv, ViewInv
  <2>3. column' = Marshal(variation)' /\ (Valid(variation)' <=> Valid(variation))
    BY <2>1
  <2>4. \A q : View(q)' = View(q)
    BY <2>1 DEF View
  <2> QED
    BY <2>1, <2>2, <2>3, <2>4 DEF IInv, TypeOK, ViewInv, Given
<1>5. CASE Get
  <2>1. "get" \in Readers /\ View("get") = toAPIVariation(variation)
    BY DEF Readers, View
  <2> QED
    BY <1>5, <2>1, LoadedIsVariation, ShowStep DEF Get
<1>6. CASE Export
  <2>1. /\ {"html", "jsx", "stripe"} \subseteq Readers
        /\ View("html") = renderHTML(variation)
        /\ View("jsx") = renderJSX(variation)
        /\ View("stripe") = renderStripe(variation)
    BY DEF Readers, View
  <2> QED
    BY <1>6, <2>1, LoadedIsVariation, ShowStep DEF Export
<1>7. CASE UNCHANGED vars
  <2>1. \A q : View(q)' = View(q)
    BY <1>7 DEF View, vars
  <2> QED
    BY <1>7, <2>1 DEF vars, IInv, TypeOK, ViewInv, Given, Valid
<1> QED
  BY <1>1, <1>2, <1>3, <1>4, <1>5, <1>6, <1>7 DEF Next, Rest

\* Every reader is shown a view of the one accepted variation.
THEOREM Invariance == Spec => []IInv
  BY InitInv, Step, PTL DEF Spec

\* Every variable keeps its type: what is decoded is a variation of Go's
\* types, and what is saved an array of JSON's.
THEOREM Typing == Spec => []TypeOK
<1>1. IInv => TypeOK
  BY DEF IInv
<1> QED
  BY <1>1, Invariance, PTL

\* GET answers what the stream announced, whatever the model called with.
THEOREM AnswersAgreeHolds == Spec => []AnswersAgree
<1>1. IInv => AnswersAgree
  <2>1. /\ {"stream", "get"} \subseteq Readers
        /\ View("stream") = toAPIVariation(variation)
        /\ View("get") = toAPIVariation(variation)
    BY DEF Readers, View
  <2> QED
    BY <2>1 DEF IInv, ViewInv, AnswersAgree
<1> QED
  BY <1>1, Invariance, PTL

\* Validate and toAPIVariation keep the schema but for prices: an answer has
\* one to five tiers and no null for features, and what is wrong with a price
\* that has no label is at most its currency.
THEOREM OnlyPricesLeaveTheSchemaHolds == Spec => []OnlyPricesLeaveTheSchema
<1>1. ASSUME IInv, NEW r \in {"stream", "get"}, Given(r)
      PROVE  /\ Len(shown[r].tiers) \in 1..5
             /\ \A i \in DOMAIN shown[r].tiers :
                   LET tier == shown[r].tiers[i]
                   IN  /\ tier.features # <<>>
                       /\ tier.price.customLabel = <<>> =>
                             PriceFaults(tier.price) \subseteq {"currency"}
  <2>1. r \in Readers /\ View(r) = toAPIVariation(variation)
    BY <1>1 DEF Readers, View
  <2>2. Valid(variation) /\ shown[r] = toAPIVariation(variation)
        /\ variation.tiers \in Seq(Tiers)
    BY <1>1, <2>1 DEF IInv, TypeOK, ViewInv, Variations
  <2>3. shown[r].tiers =
          [i \in DOMAIN variation.tiers |-> toAPIPricingTier(variation.tiers[i])]
    BY <2>2 DEF toAPIVariation
  <2>4. Len(shown[r].tiers) = Len(variation.tiers)
        /\ Len(variation.tiers) \in 1..5
    <3>1. Len(variation.tiers) \in 1..5
      BY <2>2 DEF Valid, minTiers, maxTiers
    <3>2. DOMAIN variation.tiers = 1..Len(variation.tiers)
          /\ Len(variation.tiers) \in Nat
      BY <2>2, LenProperties
    <3>3. shown[r].tiers = [i \in 1..Len(variation.tiers) |->
                               toAPIPricingTier(variation.tiers[i])]
      BY <2>3, <3>2
    <3> QED
      BY <3>1, <3>2, <3>3
  <2>5. ASSUME NEW i \in DOMAIN shown[r].tiers
        PROVE  LET tier == shown[r].tiers[i]
               IN  /\ tier.features # <<>>
                   /\ tier.price.customLabel = <<>> =>
                         PriceFaults(tier.price) \subseteq {"currency"}
    <3> DEFINE t == variation.tiers[i]
    <3>1. i \in DOMAIN variation.tiers
          /\ shown[r].tiers[i] = toAPIPricingTier(t)
      BY <2>3, <2>5
    <3>2. ValidTier(t)
      BY <2>2, <3>1 DEF Valid
    <3> HIDE DEF t
    <3>3. toAPIPricingTier(t).features = <<t.features.items>>
          /\ toAPIPricingTier(t).price = toAPIPrice(t.price)
      BY DEF toAPIPricingTier
    <3>4. toAPIPrice(t.price).customLabel = <<>> => t.price.label = ""
      BY DEF toAPIPrice, Optional
    <3>5. toAPIPrice(t.price).amount = t.price.amount
          /\ toAPIPrice(t.price).interval = t.price.interval
      BY DEF toAPIPrice
    <3>6. <<t.features.items>> # <<>>
      OBVIOUS
    <3> DEFINE a == toAPIPricingTier(t)
    <3>7. /\ a.features # <<>>
          /\ a.price.customLabel = <<>> =>
                PriceFaults(a.price) \subseteq {"currency"}
      BY <3>2, <3>3, <3>4, <3>5, <3>6 DEF ValidTier, PriceFaults
    <3> HIDE DEF a
    <3> QED
      BY <3>1, <3>7 DEF a
  <2> QED
    BY <2>4, <2>5
<1>2. IInv => OnlyPricesLeaveTheSchema
  BY <1>1 DEF OnlyPricesLeaveTheSchema
<1> QED
  BY <1>2, Invariance, PTL

----------------------------------------------------------------------------
(* Prices.                                                                 *)

\* The two digits of the cents give them back.
LEMMA CentsRoundTrip ==
    ASSUME NEW a \in Nat
    PROVE  100 * (a \div 100) + ReadMinor(Minor(a)) = a
<1>1. a % 100 \in 0..99 /\ a = 100 * (a \div 100) + (a % 100)
  OBVIOUS
<1>2. CASE a % 100 = 0
  BY <1>1, <1>2 DEF Minor, ReadMinor
<1>3. CASE a % 100 # 0
  <2> DEFINE m == <<(a % 100) \div 10, a % 10>>
  <2>1. Minor(a) = m
    BY <1>3 DEF Minor
  <2>2. m # <<>> /\ Len(m) = 2 /\ m[1] = (a % 100) \div 10 /\ m[2] = a % 10
    OBVIOUS
  <2>3. 10 * ((a % 100) \div 10) + (a % 10) = a % 100
    BY <1>1
  <2> HIDE DEF m
  <2>4. ReadMinor(m) = 10 * m[1] + m[2]
    BY <2>2 DEF ReadMinor
  <2> QED
    BY <1>1, <2>1, <2>2, <2>3, <2>4
<1> QED
  BY <1>2, <1>3

\* No two currencies share a symbol.
LEMMA SymbolRoundTrip ==
    ASSUME NEW c \in DOMAIN currencySymbols
    PROVE  CurrencyOf(currencySymbols[c]) = c
<1>1. DOMAIN currencySymbols = {"USD", "EUR", "GBP", "BRL"}
  BY DEF currencySymbols
<1>2. /\ currencySymbols["USD"] = "$"
      /\ currencySymbols["EUR"] = "euro sign"
      /\ currencySymbols["GBP"] = "pound sign"
      /\ currencySymbols["BRL"] = "R$"
  BY DEF currencySymbols
<1>3. \A d \in DOMAIN currencySymbols :
          currencySymbols[d] = currencySymbols[c] => d = c
  BY <1>1, <1>2
<1> QED
  BY <1>3 DEF CurrencyOf

LEMMA CurrencyRoundTrip ==
    ASSUME NEW c
    PROVE  (IF Len(Symbol(c)) = 2 THEN Lower[Symbol(c)[1]]
            ELSE Lower[CurrencyOf(Symbol(c)[1])]) = Lower[c]
<1>1. CASE c \in DOMAIN currencySymbols
  <2>1. Symbol(c) = <<currencySymbols[c]>>
    BY <1>1 DEF Symbol
  <2>2. Len(Symbol(c)) = 1 /\ Symbol(c)[1] = currencySymbols[c]
    BY <2>1
  <2> QED
    BY <1>1, <2>2, SymbolRoundTrip
<1>2. CASE c \notin DOMAIN currencySymbols
  <2>1. Symbol(c) = <<c, " ">>
    BY <1>2 DEF Symbol
  <2>2. Len(<<c, " ">>) = 2 /\ <<c, " ">>[1] = c
    OBVIOUS
  <2>3. Len(Symbol(c)) = 2 /\ Symbol(c)[1] = c
    BY <2>1, <2>2
  <2> QED
    BY <2>3
<1> QED
  BY <1>1, <1>2

\* The text of a valid price and its entry of the table read the same.
LEMMA PriceRoundTrip ==
    ASSUME NEW t \in Tiers, ValidTier(t)
    PROVE  ReadPrice(formatPrice(t.price)) = ReadEntry(stripePriceFor(t))
<1> DEFINE p == t.price
           f == formatPrice(t.price)
           e == stripePriceFor(t)
<1>1. p.amount \in Int
  BY DEF Tiers, ToolPrice
<1>2. CASE p.label # ""
  <2>1. f.label = p.label /\ f.suffix = ""
    BY <1>2 DEF formatPrice, NoText
  <2>2. /\ e.custom_label = p.label /\ e.unit_amount = <<>>
        /\ e.currency = "" /\ e.recurring = <<>>
    BY <1>2 DEF stripePriceFor
  <2> HIDE DEF f, e, p
  <2>3. ReadPrice(f) = [label |-> p.label, amount |-> <<>>, currency |-> "",
                        recurring |-> <<>>]
    BY <1>2, <2>1 DEF ReadPrice
  <2>4. ReadEntry(e) = [label |-> p.label, amount |-> <<>>, currency |-> "",
                        recurring |-> <<>>]
    BY <2>2 DEF ReadEntry
  <2> QED
    BY <2>3, <2>4 DEF f, e
<1>3. CASE p.label = ""
  <2>1. p.amount \in Nat /\ p.interval \in Intervals
    <3>1. p.amount >= 0 /\ p.interval \in Intervals
      BY <1>3 DEF ValidTier
    <3> HIDE DEF p
    <3> QED
      BY <1>1, <3>1
  <2>2. /\ f.label = "" /\ f.symbol = Symbol(p.currency)
        /\ f.major = p.amount \div 100 /\ f.minor = Minor(p.amount)
        /\ f.suffix = Suffix(p.interval)
    BY <1>3 DEF formatPrice
  <2>3. /\ e.custom_label = "" /\ e.unit_amount = <<p.amount>>
        /\ e.currency = Lower[p.currency]
        /\ e.recurring = IF p.interval = "monthly" THEN <<"month">>
                         ELSE IF p.interval = "yearly" THEN <<"year">>
                         ELSE <<>>
    BY <1>3 DEF stripePriceFor
  <2> HIDE DEF f, e, p
  <2>4. 100 * f.major + ReadMinor(f.minor) = p.amount
    BY <2>1, <2>2, CentsRoundTrip
  <2>5. (IF f.suffix = "/month" THEN <<"month">>
         ELSE IF f.suffix = "/year" THEN <<"year">> ELSE <<>>) = e.recurring
    BY <2>1, <2>2, <2>3 DEF Suffix, Intervals
  <2>6. (IF Len(f.symbol) = 2 THEN Lower[f.symbol[1]]
         ELSE Lower[CurrencyOf(f.symbol[1])]) = e.currency
    BY <2>2, <2>3, CurrencyRoundTrip
  <2>7. ReadPrice(f).label = "" /\ ReadPrice(f).amount = <<p.amount>>
    BY <2>2, <2>4 DEF ReadPrice
  <2>8. ReadPrice(f).currency = e.currency
    BY <2>2, <2>6 DEF ReadPrice
  <2>9. ReadPrice(f).recurring = e.recurring
    BY <2>5 DEF ReadPrice
  <2>10. ReadPrice(f) = [label |-> ReadPrice(f).label,
                         amount |-> ReadPrice(f).amount,
                         currency |-> ReadPrice(f).currency,
                         recurring |-> ReadPrice(f).recurring]
    BY DEF ReadPrice
  <2>11. ReadEntry(e) = [label |-> "", amount |-> <<p.amount>>,
                         currency |-> e.currency, recurring |-> e.recurring]
    BY <2>3 DEF ReadEntry
  <2> QED
    BY <2>7, <2>8, <2>9, <2>10, <2>11 DEF f, e
<1> QED
  BY <1>2, <1>3

----------------------------------------------------------------------------
(* Pages.                                                                  *)

\* The elements a tier of a page may have.
TierElements(t) ==
    {Element("span.badge", t.badge), Element("h3", t.name),
     PriceElement(t.price), Element("p.tagline", t.tagline),
     Element("button", t.cta)}
    \cup {Element("li", t.features.items[i]) : i \in DOMAIN t.features.items}

LEMMA IfTextType ==
    ASSUME NEW S, NEW tag, NEW text, Element(tag, text) \in S
    PROVE  IfText(tag, text) \in Seq(S)
<1>1. <<>> \in Seq(S) /\ <<Element(tag, text)>> \in Seq(S)
  OBVIOUS
<1> QED
  BY <1>1 DEF IfText

LEMMA ListType ==
    ASSUME NEW t \in Tiers
    PROVE  List(t.features) \in Seq(TierElements(t))
<1>1. t.features.items \in Seq(STRING)
  BY DEF Tiers, Slices, Items
<1>2. DOMAIN t.features.items = 1..Len(t.features.items)
      /\ Len(t.features.items) \in Nat
  BY <1>1, LenProperties
<1>3. \A i \in DOMAIN t.features.items :
          Element("li", t.features.items[i]) \in TierElements(t)
  BY DEF TierElements
<1> QED
  BY <1>2, <1>3 DEF List

LEMMA PageElements ==
    ASSUME NEW t \in Tiers
    PROVE  /\ HTMLTier(t).children \in Seq(TierElements(t))
           /\ writeJSXTier(t).children \in Seq(TierElements(t))
<1> DEFINE S == TierElements(t)
           badge == IfText("span.badge", t.badge)
           name == Element("h3", t.name)
           price == PriceElement(t.price)
           tagline == IfText("p.tagline", t.tagline)
           features == List(t.features)
           cta == IfText("button", t.cta)
<1>1. name \in S /\ price \in S
  BY DEF TierElements
<1>2. badge \in Seq(S) /\ tagline \in Seq(S) /\ cta \in Seq(S)
  BY IfTextType DEF TierElements
<1>3. features \in Seq(S)
  BY ListType
<1>4. HTMLTier(t).children =
        badge \o <<name, price>> \o tagline \o features \o cta
  BY DEF HTMLTier
<1>5. writeJSXTier(t).children =
        badge \o <<name>> \o <<price>> \o tagline \o features \o cta
  BY DEF writeJSXTier
<1> HIDE DEF S, badge, name, price, tagline, features, cta
<1>6. <<name, price>> \in Seq(S) /\ <<name>> \in Seq(S) /\ <<price>> \in Seq(S)
  BY <1>1
<1>7. badge \o <<name, price>> \o tagline \o features \o cta \in Seq(S)
  BY <1>2, <1>3, <1>6, ConcatProperties
<1>8. badge \o <<name>> \o <<price>> \o tagline \o features \o cta \in Seq(S)
  BY <1>2, <1>3, <1>6, ConcatProperties
<1> QED
  BY <1>4, <1>5, <1>7, <1>8 DEF S

\* The one element of a tier that is tagged as a price is its price.
LEMMA OnlyThePrice ==
    ASSUME NEW t, NEW s \in Seq(TierElements(t)), NEW el \in Elements(s),
           el.tag = "p.price"
    PROVE  el = PriceElement(t.price)
<1>1. el \in TierElements(t)
  BY LenProperties, ElementOfSeq DEF Elements
<1> QED
  BY <1>1 DEF TierElements, Element

\* What a page shows for a tier is what the table asks for it, whatever the
\* valid amount, currency and interval.
THEOREM PricesAgreeHolds == Spec => []PricesAgree
<1>1. ASSUME IInv, NEW r \in {"html", "jsx"}, Given(r), Given("stripe")
      PROVE  /\ Len(shown[r].tiers) = Len(shown["stripe"].prices)
             /\ \A i \in DOMAIN shown[r].tiers :
                   \A el \in Elements(shown[r].tiers[i].children) :
                      el.tag = "p.price" =>
                          ReadPrice(el.price)
                            = ReadEntry(shown["stripe"].prices[i])
  <2> DEFINE ts == variation.tiers
  <2>1. r \in Readers /\ "stripe" \in Readers
        /\ View("stripe") = renderStripe(variation)
        /\ View(r) = IF r = "html" THEN renderHTML(variation)
                                   ELSE renderJSX(variation)
    BY DEF Readers, View
  <2>2. /\ Valid(variation) /\ variation \in Variations
        /\ shown["stripe"] = renderStripe(variation)
        /\ shown[r] = IF r = "html" THEN renderHTML(variation)
                                    ELSE renderJSX(variation)
    BY <1>1, <2>1 DEF IInv, ViewInv
  <2>3. ts \in Seq(Tiers) /\ DOMAIN ts = 1..Len(ts) /\ Len(ts) \in Nat
    BY <2>2, LenProperties DEF Variations
  <2>4. /\ shown["stripe"].prices = [i \in 1..Len(ts) |-> stripePriceFor(ts[i])]
        /\ shown[r].tiers = IF r = "html"
                              THEN [i \in 1..Len(ts) |-> HTMLTier(ts[i])]
                              ELSE [i \in 1..Len(ts) |-> writeJSXTier(ts[i])]
    BY <2>2, <2>3 DEF renderStripe, renderHTML, renderJSX
  <2>5. Len(shown[r].tiers) = Len(shown["stripe"].prices)
    BY <2>3, <2>4
  <2>6. ASSUME NEW i \in DOMAIN shown[r].tiers,
               NEW el \in Elements(shown[r].tiers[i].children),
               el.tag = "p.price"
        PROVE  ReadPrice(el.price) = ReadEntry(shown["stripe"].prices[i])
    <3>1. i \in 1..Len(ts) /\ i \in DOMAIN ts
      BY <2>3, <2>4
    <3>2. ts[i] \in Tiers /\ ValidTier(ts[i])
      BY <2>2, <2>3, <3>1, ElementOfSeq DEF Valid
    <3>3. shown[r].tiers[i].children \in Seq(TierElements(ts[i]))
      BY <2>4, <3>1, <3>2, PageElements
    <3>4. el = PriceElement(ts[i].price)
      BY <2>6, <3>3, OnlyThePrice
    <3>5. el.price = formatPrice(ts[i].price)
      BY <3>4 DEF PriceElement
    <3> QED
      BY <2>4, <3>1, <3>2, <3>5, PriceRoundTrip
  <2> QED
    BY <2>5, <2>6
<1>2. IInv => PricesAgree
  BY <1>1 DEF PricesAgree
<1> QED
  BY <1>2, Invariance, PTL
----------------------------------------------------------------------------
(* What a page shows.  Every element comes from one part of the page, so   *)
(* what a page shows under a tag is what that part does.                   *)

\* The first k positions of f are in order.
Ascends(f, k) == \A i, j \in 1..k : i < j => f[i] < f[j]

\* Positions f in a part of m elements, then positions g in the next one.
Spliced(at, f, g, k, l, m) ==
    /\ \A i \in 1..k : at[i] = f[i]
    /\ \A i \in 1..l : at[k + i] = m + g[i]
    /\ Ascends(at, k + l)

\* Positions in two parts, put one after the other.
LEMMA Splice ==
    ASSUME NEW k \in Nat, NEW l \in Nat, NEW m \in Nat, NEW n \in Nat,
           NEW f \in [1..k -> 1..m], NEW g \in [1..l -> 1..n],
           Ascends(f, k), Ascends(g, l)
    PROVE  \E at \in [1..(k + l) -> 1..(m + n)] : Spliced(at, f, g, k, l, m)
<1> DEFINE at == [i \in 1..(k + l) |-> IF i <= k THEN f[i] ELSE m + g[i - k]]
<1>1. ASSUME NEW i \in 1..(k + l)
      PROVE  \/ i \in 1..k /\ at[i] = f[i] /\ f[i] \in 1..m
             \/ i - k \in 1..l /\ at[i] = m + g[i - k] /\ g[i - k] \in 1..n
  <2>1. CASE i <= k
    BY <2>1
  <2>2. CASE i > k
    <3>1. i - k \in 1..l
      BY <2>2
    <3> QED
      BY <2>2, <3>1
  <2> QED
    BY <2>1, <2>2
<1>2. ASSUME NEW i \in 1..(k + l) PROVE at[i] \in 1..(m + n)
  BY <1>1
<1>3. at \in [1..(k + l) -> 1..(m + n)]
  BY <1>2
<1>4. \A i \in 1..k : at[i] = f[i]
  OBVIOUS
<1>5. ASSUME NEW i \in 1..l PROVE at[k + i] = m + g[i]
  <2>1. k + i \in 1..(k + l) /\ ~(k + i <= k) /\ (k + i) - k = i
    OBVIOUS
  <2> QED
    BY <2>1
<1>6. ASSUME NEW i \in 1..(k + l), NEW j \in 1..(k + l), i < j
      PROVE  at[i] < at[j]
  <2>1. CASE j <= k
    BY <1>1, <1>6, <2>1 DEF Ascends
  <2>2. CASE i <= k /\ j > k
    BY <1>1, <2>2
  <2>3. CASE i > k
    <3>1. i - k \in 1..l /\ j - k \in 1..l /\ i - k < j - k
      BY <1>6, <2>3
    <3>2. g[i - k] < g[j - k]
      BY <3>1 DEF Ascends
    <3> QED
      BY <1>1, <1>6, <2>3, <3>2
  <2> QED
    BY <2>1, <2>2, <2>3
<1> HIDE DEF at
<1>7. Ascends(at, k + l)
  BY <1>6 DEF Ascends
<1> QED
  BY <1>3, <1>4, <1>5, <1>7 DEF Spliced

\* A page's parts are shown one after the other.
LEMMA ShowsConcat ==
    ASSUME NEW S, NEW T, NEW a \in Seq(S), NEW b \in Seq(S),
           NEW d \in Seq(T), NEW e \in Seq(T), NEW tag,
           Shows(a, tag, d), Shows(b, tag, e)
    PROVE  Shows(a \o b, tag, d \o e)
<1> DEFINE k == Len(d)
           l == Len(e)
           m == Len(a)
           n == Len(b)
           ab == a \o b
           de == d \o e
<1>1. PICK f \in [1..k -> 1..m] :
        /\ \A i, j \in 1..k : i < j => f[i] < f[j]
        /\ \A x \in 1..m : a[x].tag = tag <=> \E i \in 1..k : f[i] = x
        /\ \A i \in 1..k : a[f[i]].text = d[i]
  BY DEF Shows
<1>2. PICK g \in [1..l -> 1..n] :
        /\ \A i, j \in 1..l : i < j => g[i] < g[j]
        /\ \A x \in 1..n : b[x].tag = tag <=> \E i \in 1..l : g[i] = x
        /\ \A i \in 1..l : b[g[i]].text = e[i]
  BY DEF Shows
<1>3. k \in Nat /\ l \in Nat /\ m \in Nat /\ n \in Nat
  BY LenProperties
<1>4. /\ Len(ab) = m + n
      /\ \A x \in 1..(m + n) : ab[x] = IF x <= m THEN a[x] ELSE b[x - m]
      /\ Len(de) = k + l
      /\ \A i \in 1..(k + l) : de[i] = IF i <= k THEN d[i] ELSE e[i - k]
  BY ConcatProperties
<1> DEFINE Placed(x, y) ==
             \E at \in [1..x -> 1..y] :
               /\ \A i, j \in 1..x : i < j => at[i] < at[j]
               /\ \A z \in 1..y :
                     ab[z].tag = tag <=> \E i \in 1..x : at[i] = z
               /\ \A i \in 1..x : ab[at[i]].text = de[i]
<1>5. Shows(ab, tag, de) <=> Placed(Len(de), Len(ab))
  BY DEF Shows
<1> HIDE DEF k, l, m, n, ab, de
<1>6. PICK at \in [1..(k + l) -> 1..(m + n)] : Spliced(at, f, g, k, l, m)
  <2>1. Ascends(f, k) /\ Ascends(g, l)
    BY <1>1, <1>2 DEF Ascends
  <2> QED
    BY <1>1, <1>2, <1>3, <2>1, Splice
<1>6a. /\ \A i \in 1..k : at[i] = f[i]
       /\ \A i \in 1..l : at[k + i] = m + g[i]
       /\ \A i, j \in 1..(k + l) : i < j => at[i] < at[j]
  BY <1>6 DEF Spliced, Ascends
<1>7. ASSUME NEW i \in 1..(k + l)
      PROVE  i \in 1..k \/ \E h \in 1..l : i = k + h
  <2>1. CASE i > k
    <3>1. i - k \in 1..l /\ i = k + (i - k)
      BY <1>3, <2>1
    <3> QED
      BY <3>1
  <2> QED
    BY <1>3, <2>1
<1>8. \A i \in 1..l : k + i \in 1..(k + l) /\ ~(k + i <= k) /\ (k + i) - k = i
  BY <1>3
<1>9. \A i \in 1..n : m + i \in 1..(m + n) /\ ~(m + i <= m) /\ (m + i) - m = i
  BY <1>3
<1>10. \A i \in 1..k : i \in 1..(k + l) /\ i <= k
  BY <1>3
<1>11. \A x \in 1..m : x \in 1..(m + n) /\ x <= m
  BY <1>3
<1>12. ASSUME NEW x \in 1..(m + n)
       PROVE  ab[x].tag = tag <=> \E i \in 1..(k + l) : at[i] = x
  <2>1. CASE x <= m
    <3>1. x \in 1..m /\ ab[x] = a[x]
      BY <1>3, <1>4, <2>1
    <3>2. ASSUME NEW i \in 1..(k + l), at[i] = x
          PROVE  i \in 1..k /\ f[i] = x
      <4>1. ASSUME NEW h \in 1..l, i = k + h PROVE FALSE
        <5>1. at[i] = m + g[h] /\ g[h] \in 1..n
          BY <1>6a, <4>1
        <5> QED
          BY <1>3, <2>1, <3>2, <5>1
      <4> QED
        BY <1>6a, <1>7, <3>2, <4>1
    <3>3. ASSUME NEW i \in 1..k, f[i] = x
          PROVE  i \in 1..(k + l) /\ at[i] = x
      BY <1>6a, <1>10, <3>3
    <3>4. a[x].tag = tag <=> \E i \in 1..k : f[i] = x
      BY <1>1, <3>1
    <3> QED
      BY <3>1, <3>2, <3>3, <3>4
  <2>2. CASE x > m
    <3> DEFINE y == x - m
    <3>1. y \in 1..n /\ ab[x] = b[y] /\ x = m + y
      BY <1>3, <1>4, <2>2
    <3>2. ASSUME NEW i \in 1..(k + l), at[i] = x
          PROVE  \E h \in 1..l : g[h] = y
      <4>1. i \notin 1..k
        <5> SUFFICES ASSUME i \in 1..k PROVE FALSE
          OBVIOUS
        <5>1. at[i] = f[i] /\ f[i] \in 1..m
          BY <1>6a
        <5> QED
          BY <1>3, <2>2, <3>2, <5>1
      <4>2. PICK h \in 1..l : i = k + h
        BY <1>7, <4>1
      <4>3. at[i] = m + g[h] /\ g[h] \in 1..n
        BY <1>6a, <4>2
      <4>4. g[h] = y
        BY <1>3, <3>1, <3>2, <4>3
      <4> QED
        BY <4>4
    <3>3. ASSUME NEW h \in 1..l, g[h] = y
          PROVE  k + h \in 1..(k + l) /\ at[k + h] = x
      BY <1>6a, <1>8, <3>1, <3>3
    <3>4. b[y].tag = tag <=> \E h \in 1..l : g[h] = y
      BY <1>2, <3>1
    <3> QED
      BY <3>1, <3>2, <3>3, <3>4
  <2> QED
    BY <1>3, <2>1, <2>2
<1>13. ASSUME NEW i \in 1..(k + l) PROVE ab[at[i]].text = de[i]
  <2>1. CASE i \in 1..k
    <3>1. at[i] = f[i] /\ f[i] \in 1..m /\ de[i] = d[i]
      BY <1>4, <1>6a, <1>10, <2>1
    <3>2. ab[f[i]] = a[f[i]]
      BY <1>4, <1>11, <3>1
    <3> QED
      BY <1>1, <2>1, <3>1, <3>2
  <2>2. ASSUME NEW h \in 1..l, i = k + h PROVE ab[at[i]].text = de[i]
    <3>1. at[i] = m + g[h] /\ g[h] \in 1..n /\ de[i] = e[h]
      BY <1>4, <1>6a, <1>8, <2>2
    <3>2. ab[m + g[h]] = b[g[h]]
      BY <1>4, <1>9, <3>1
    <3> QED
      BY <1>2, <3>1, <3>2
  <2> QED
    BY <1>7, <2>1, <2>2
<1>14. Placed(k + l, m + n)
  <2> WITNESS at \in [1..(k + l) -> 1..(m + n)]
  <2> QED
    BY <1>6a, <1>12, <1>13
<1> HIDE DEF Placed
<1>15. Shows(ab, tag, de)
  BY <1>4, <1>5, <1>14
<1> QED
  BY <1>15 DEF ab, de

\* A part with other tags shows nothing under this one.
LEMMA ShowsNothing ==
    ASSUME NEW s, NEW tag, \A n \in 1..Len(s) : s[n].tag # tag
    PROVE  Shows(s, tag, <<>>)
<1>1. Len(<<>>) = 0 /\ 1..0 = {}
  OBVIOUS
<1> DEFINE at == [i \in 1..Len(<<>>) |-> 1]
<1>2. at \in [1..Len(<<>>) -> 1..Len(s)]
  BY <1>1
<1> QED
  BY <1>1, <1>2 DEF Shows

LEMMA ShowsOne ==
    ASSUME NEW tag, NEW el, el.tag = tag
    PROVE  Shows(<<el>>, tag, <<el.text>>)
<1> DEFINE at == [i \in 1..1 |-> 1]
<1>1. at \in [1..Len(<<el.text>>) -> 1..Len(<<el>>)]
  OBVIOUS
<1>2. /\ Len(<<el>>) = 1 /\ <<el>>[1] = el
      /\ Len(<<el.text>>) = 1 /\ <<el.text>>[1] = el.text
      /\ 1..1 = {1}
  OBVIOUS
<1> HIDE DEF at
<1>3. at[1] = 1
  BY DEF at
<1> QED
  BY <1>1, <1>2, <1>3 DEF Shows

\* One element shows nothing under another tag.
LEMMA ShowsOther ==
    ASSUME NEW el, NEW other, el.tag # other
    PROVE  Shows(<<el>>, other, <<>>)
<1>1. \A n \in 1..Len(<<el>>) : <<el>>[n] = el
  OBVIOUS
<1>2. \A n \in 1..Len(<<el>>) : <<el>>[n].tag # other
  BY <1>1
<1> QED
  BY <1>2, ShowsNothing

LEMMA IfTextShows ==
    ASSUME NEW tag, NEW text, NEW other
    PROVE  /\ Shows(IfText(tag, text), tag, Optional(text))
           /\ other # tag => Shows(IfText(tag, text), other, <<>>)
<1> DEFINE el == Element(tag, text)
<1>1. el.tag = tag /\ el.text = text
  BY DEF Element
<1>2. ASSUME NEW any PROVE Shows(<<>>, any, <<>>)
  <2>1. \A n \in 1..Len(<<>>) : <<>>[n].tag # any
    OBVIOUS
  <2> QED
    BY <2>1, ShowsNothing
<1>3. CASE text = ""
  BY <1>2, <1>3 DEF IfText, Optional
<1>4. CASE text # ""
  <2> HIDE DEF el
  <2>1. Shows(<<el>>, tag, <<text>>)
    BY <1>1, ShowsOne
  <2>2. other # tag => Shows(<<el>>, other, <<>>)
    BY <1>1, ShowsOther
  <2>3. IfText(tag, text) = <<el>> /\ Optional(text) = <<text>>
    BY <1>4 DEF IfText, Optional, el
  <2> QED
    BY <2>1, <2>2, <2>3
<1> QED
  BY <1>3, <1>4

LEMMA ListShows ==
    ASSUME NEW slice \in Slices, NEW other
    PROVE  /\ Shows(List(slice), "li", slice.items)
           /\ other # "li" => Shows(List(slice), other, <<>>)
<1> DEFINE items == slice.items
           s == List(slice)
           at == [i \in 1..Len(items) |-> i]
<1>1. items \in Seq(STRING) /\ DOMAIN items = 1..Len(items)
      /\ Len(items) \in Nat
  BY LenProperties DEF Slices, Items
<1>2. s = [i \in 1..Len(items) |-> Element("li", items[i])]
  BY <1>1 DEF List
<1>3. \A i \in 1..Len(items) : s[i].tag = "li" /\ s[i].text = items[i]
  BY <1>2 DEF Element
<1>4. Len(s) = Len(items)
  BY <1>1, <1>2
<1> HIDE DEF items, s
<1>5. at \in [1..Len(items) -> 1..Len(s)]
  BY <1>4
<1>6. Shows(s, "li", items)
  <2>1. \A i \in 1..Len(items) : at[i] = i
    OBVIOUS
  <2> HIDE DEF at
  <2> QED
    BY <1>3, <1>4, <1>5, <2>1 DEF Shows
<1>7. ASSUME other # "li" PROVE Shows(s, other, <<>>)
  <2>1. \A n \in 1..Len(s) : s[n].tag # other
    BY <1>3, <1>4, <1>7
  <2> QED
    BY <2>1, ShowsNothing
<1> QED
  BY <1>6, <1>7 DEF items, s

\* Six parts, only one of which shows anything.
LEMMA ShowsParts ==
    ASSUME NEW S, NEW T, NEW tag,
           NEW a, NEW d,
           \A i \in 1..6 : a[i] \in Seq(S) /\ d[i] \in Seq(T)
                           /\ Shows(a[i], tag, d[i])
    PROVE  Shows(a[1] \o a[2] \o a[3] \o a[4] \o a[5] \o a[6], tag,
                 d[1] \o d[2] \o d[3] \o d[4] \o d[5] \o d[6])
<1>1. ASSUME NEW x \in Seq(S), NEW y \in Seq(S),
             NEW p \in Seq(T), NEW q \in Seq(T),
             Shows(x, tag, p), Shows(y, tag, q)
      PROVE  x \o y \in Seq(S) /\ p \o q \in Seq(T)
             /\ Shows(x \o y, tag, p \o q)
  <2>1. Shows(x \o y, tag, p \o q)
    BY <1>1, ShowsConcat
  <2> QED
    BY <2>1
<1> DEFINE Both(x, p) == x \in Seq(S) /\ p \in Seq(T) /\ Shows(x, tag, p)
<1>2. \A i \in 1..6 : Both(a[i], d[i])
  OBVIOUS
<1>3. \A x, y, p, q : Both(x, p) /\ Both(y, q) => Both(x \o y, p \o q)
  BY <1>1
<1>4. (\A x, p : Both(x, p) => Shows(x, tag, p))
  OBVIOUS
<1> HIDE DEF Both
<1>5. Both(a[1] \o a[2], d[1] \o d[2])
  BY <1>2, <1>3
<1>6. Both(a[1] \o a[2] \o a[3], d[1] \o d[2] \o d[3])
  BY <1>2, <1>3, <1>5
<1>7. Both(a[1] \o a[2] \o a[3] \o a[4], d[1] \o d[2] \o d[3] \o d[4])
  BY <1>2, <1>3, <1>6
<1>8. Both(a[1] \o a[2] \o a[3] \o a[4] \o a[5],
           d[1] \o d[2] \o d[3] \o d[4] \o d[5])
  BY <1>2, <1>3, <1>7
<1>9. Both(a[1] \o a[2] \o a[3] \o a[4] \o a[5] \o a[6],
            d[1] \o d[2] \o d[3] \o d[4] \o d[5] \o d[6])
  BY <1>2, <1>3, <1>8
<1> QED
  BY <1>4, <1>9

\* What a page writes as text, "" included, which no prover knows to be a
\* string.
Written == STRING \cup {""}

\* The parts of a tier's children, in either page.
Parts(t) ==
    <<IfText("span.badge", t.badge), <<Element("h3", t.name)>>,
      <<PriceElement(t.price)>>, IfText("p.tagline", t.tagline),
      List(t.features), IfText("button", t.cta)>>

\* What each part has under a tag.
Under(t, tag) ==
    <<IF tag = "span.badge" THEN Optional(t.badge) ELSE <<>>,
      IF tag = "h3" THEN <<t.name>> ELSE <<>>,
      IF tag = "p.price" THEN <<"">> ELSE <<>>,
      IF tag = "p.tagline" THEN Optional(t.tagline) ELSE <<>>,
      IF tag = "li" THEN t.features.items ELSE <<>>,
      IF tag = "button" THEN Optional(t.cta) ELSE <<>> >>

LEMMA OneSeq ==
    ASSUME NEW T, NEW x \in T
    PROVE  <<x>> \in Seq(T) /\ <<>> \in Seq(T)
  OBVIOUS

LEMMA PairConcat ==
    ASSUME NEW x, NEW y
    PROVE  <<x, y>> = <<x>> \o <<y>>
<1> DEFINE T == {x, y}
           xs == <<x>>
           ys == <<y>>
           xy == <<x, y>>
<1>1. xs \in Seq(T) /\ ys \in Seq(T) /\ xy \in Seq(T)
  OBVIOUS
<1>2. /\ Len(xs) = 1 /\ Len(ys) = 1 /\ Len(xy) = 2
      /\ xs[1] = x /\ ys[1] = y /\ xy[1] = x /\ xy[2] = y
  OBVIOUS
<1> HIDE DEF T, xs, ys, xy
<1>3. xs \o ys \in Seq(T) /\ Len(xs \o ys) = 2
      /\ \A i \in 1..2 : (xs \o ys)[i] = IF i <= 1 THEN xs[i] ELSE ys[i - 1]
  BY <1>1, <1>2, ConcatProperties
<1>4. \A i \in 1..2 : (xs \o ys)[i] = xy[i]
  BY <1>2, <1>3
<1>5. xs \o ys = xy
  BY <1>1, <1>2, <1>3, <1>4, SeqEqual
<1> QED
  BY <1>5 DEF xs, ys, xy

\* The template and the JSX writer put the same parts in the same order.
LEMMA SameChildren ==
    ASSUME NEW t \in Tiers
    PROVE  LET p == Parts(t)
               c == p[1] \o p[2] \o p[3] \o p[4] \o p[5] \o p[6]
           IN  HTMLTier(t).children = c /\ writeJSXTier(t).children = c
<1> DEFINE S == TierElements(t)
           badge == IfText("span.badge", t.badge)
           name == Element("h3", t.name)
           price == PriceElement(t.price)
           tagline == IfText("p.tagline", t.tagline)
           features == List(t.features)
           cta == IfText("button", t.cta)
<1>1. /\ Parts(t)[1] = badge /\ Parts(t)[2] = <<name>>
      /\ Parts(t)[3] = <<price>> /\ Parts(t)[4] = tagline
      /\ Parts(t)[5] = features /\ Parts(t)[6] = cta
  BY DEF Parts
<1>2. HTMLTier(t).children =
        badge \o <<name, price>> \o tagline \o features \o cta
  BY DEF HTMLTier
<1>3. writeJSXTier(t).children =
        badge \o <<name>> \o <<price>> \o tagline \o features \o cta
  BY DEF writeJSXTier
<1>4. badge \in Seq(S)
  BY IfTextType DEF TierElements
<1>5. name \in S /\ price \in S
  BY DEF TierElements
<1> HIDE DEF S, badge, name, price, tagline, features, cta
<1>6. <<name>> \in Seq(S) /\ <<price>> \in Seq(S)
      /\ <<name, price>> = <<name>> \o <<price>>
  BY <1>5, OneSeq, PairConcat
<1>7. ASSUME NEW a \in Seq(S), NEW b \in Seq(S), NEW c \in Seq(S)
      PROVE  a \o (b \o c) = a \o b \o c
  BY ConcatAssociative
<1>8. badge \o (<<name>> \o <<price>>) = badge \o <<name>> \o <<price>>
  BY <1>4, <1>6, <1>7, Zenon
<1> QED
  BY <1>1, <1>2, <1>3, <1>6, <1>8

LEMMA PartsType ==
    ASSUME NEW t \in Tiers, NEW tag
    PROVE  \A i \in 1..6 : /\ Parts(t)[i] \in Seq(TierElements(t))
                           /\ Under(t, tag)[i] \in Seq(Written)
<1> DEFINE S == TierElements(t)
<1>1. /\ IfText("span.badge", t.badge) \in Seq(S)
      /\ IfText("p.tagline", t.tagline) \in Seq(S)
      /\ IfText("button", t.cta) \in Seq(S)
  BY IfTextType DEF TierElements
<1>2. List(t.features) \in Seq(S)
  BY ListType
<1>3. Element("h3", t.name) \in S /\ PriceElement(t.price) \in S
  BY DEF TierElements
<1> HIDE DEF S
<1>4. <<Element("h3", t.name)>> \in Seq(S)
      /\ <<PriceElement(t.price)>> \in Seq(S)
  BY <1>3
<1>5. \A i \in 1..6 : Parts(t)[i] \in Seq(S)
  <2>1. /\ Parts(t)[1] \in Seq(S) /\ Parts(t)[2] \in Seq(S)
        /\ Parts(t)[3] \in Seq(S) /\ Parts(t)[4] \in Seq(S)
        /\ Parts(t)[5] \in Seq(S) /\ Parts(t)[6] \in Seq(S)
    BY <1>1, <1>2, <1>4 DEF Parts
  <2> QED
    BY <2>1
<1>6. /\ t.badge \in Written /\ t.name \in Written
      /\ t.tagline \in Written /\ t.cta \in Written /\ "" \in Written
  BY DEF Tiers, Written
<1>7. t.features.items \in Seq(Written)
  <2>1. t.features \in Slices
    BY DEF Tiers
  <2>2. t.features.items \in Seq(STRING)
    BY <2>1 DEF Slices, Items
  <2>3. STRING \subseteq Written
    BY DEF Written
  <2> QED
    BY <2>2, <2>3, SeqMonotonic
<1> HIDE DEF Written
<1>8. \A text \in Written : Optional(text) \in Seq(Written)
  BY OneSeq, Zenon DEF Optional
<1>9. <<t.name>> \in Seq(Written) /\ <<"">> \in Seq(Written)
      /\ <<>> \in Seq(Written)
  BY <1>6, OneSeq, Zenon
<1>10. \A i \in 1..6 : Under(t, tag)[i] \in Seq(Written)
  <2> DEFINE T == Seq(Written)
  <2>1. /\ t.features.items \in T /\ <<t.name>> \in T /\ <<"">> \in T
        /\ <<>> \in T /\ Optional(t.badge) \in T
        /\ Optional(t.tagline) \in T /\ Optional(t.cta) \in T
    BY <1>6, <1>7, <1>8, <1>9, Zenon
  <2> HIDE DEF T
  <2>2. /\ Under(t, tag)[1] \in T /\ Under(t, tag)[2] \in T
        /\ Under(t, tag)[3] \in T /\ Under(t, tag)[4] \in T
        /\ Under(t, tag)[5] \in T /\ Under(t, tag)[6] \in T
    BY <2>1 DEF Under
  <2> QED
    BY <2>2 DEF T
<1> QED
  BY <1>5, <1>10 DEF S

LEMMA PartsShow ==
    ASSUME NEW t \in Tiers, NEW tag
    PROVE  \A i \in 1..6 : Shows(Parts(t)[i], tag, Under(t, tag)[i])
<1>1. Shows(Parts(t)[1], tag, Under(t, tag)[1])
  BY IfTextShows DEF Parts, Under
<1>2. Shows(Parts(t)[2], tag, Under(t, tag)[2])
  <2> DEFINE el == Element("h3", t.name)
  <2>1. el.tag = "h3" /\ el.text = t.name
    BY DEF Element
  <2> HIDE DEF el
  <2>2. tag = "h3" => Shows(<<el>>, tag, <<t.name>>)
    BY <2>1, ShowsOne
  <2>3. tag # "h3" => Shows(<<el>>, tag, <<>>)
    BY <2>1, ShowsOther
  <2> QED
    BY <2>2, <2>3 DEF Parts, Under, el
<1>3. Shows(Parts(t)[3], tag, Under(t, tag)[3])
  <2> DEFINE el == PriceElement(t.price)
  <2>1. el.tag = "p.price" /\ el.text = ""
    BY DEF PriceElement
  <2> HIDE DEF el
  <2>2. tag = "p.price" => Shows(<<el>>, tag, <<"">>)
    BY <2>1, ShowsOne
  <2>3. tag # "p.price" => Shows(<<el>>, tag, <<>>)
    BY <2>1, ShowsOther
  <2> QED
    BY <2>2, <2>3 DEF Parts, Under, el
<1>4. Shows(Parts(t)[4], tag, Under(t, tag)[4])
  BY IfTextShows DEF Parts, Under
<1>5. Shows(Parts(t)[5], tag, Under(t, tag)[5])
  <2>1. t.features \in Slices
    BY DEF Tiers
  <2> QED
    BY <2>1, ListShows DEF Parts, Under
<1>6. Shows(Parts(t)[6], tag, Under(t, tag)[6])
  BY IfTextShows DEF Parts, Under
<1> QED
  BY <1>1, <1>2, <1>3, <1>4, <1>5, <1>6

\* Where one part alone has something, that is all there is.
LEMMA OnlyPart ==
    ASSUME NEW T, NEW u, NEW h \in 1..6, u[h] \in Seq(T),
           \A i \in 1..6 : i # h => u[i] = <<>>
    PROVE  u[1] \o u[2] \o u[3] \o u[4] \o u[5] \o u[6] = u[h]
<1> DEFINE none == <<>>
           e == u[h]
<1>1. none \o e = e /\ e \o none = e /\ none \o none = none
  BY ConcatEmptySeq, EmptySeq
<1>2. \A i \in 1..6 : u[i] = IF i = h THEN e ELSE none
  OBVIOUS
<1> HIDE DEF none, e
<1>3. /\ u[1] = IF 1 = h THEN e ELSE none
      /\ u[2] = IF 2 = h THEN e ELSE none
      /\ u[3] = IF 3 = h THEN e ELSE none
      /\ u[4] = IF 4 = h THEN e ELSE none
      /\ u[5] = IF 5 = h THEN e ELSE none
      /\ u[6] = IF 6 = h THEN e ELSE none
  BY <1>2
<1>4. u[1] \o u[2] \o u[3] \o u[4] \o u[5] \o u[6] = e
  <2>1. CASE h = 1
    BY <1>1, <1>3, <2>1
  <2>2. CASE h = 2
    BY <1>1, <1>3, <2>2
  <2>3. CASE h = 3
    BY <1>1, <1>3, <2>3
  <2>4. CASE h = 4
    BY <1>1, <1>3, <2>4
  <2>5. CASE h = 5
    BY <1>1, <1>3, <2>5
  <2>6. CASE h = 6
    BY <1>1, <1>3, <2>6
  <2>7. h = 1 \/ h = 2 \/ h = 3 \/ h = 4 \/ h = 5 \/ h = 6
    OBVIOUS
  <2> QED
    BY <2>1, <2>2, <2>3, <2>4, <2>5, <2>6, <2>7, Zenon
<1> QED
  BY <1>4 DEF e

\* Under every tag, a tier of either page shows what the tier has there.
LEMMA TierShows ==
    ASSUME NEW t \in Tiers,
           NEW s \in {HTMLTier(t).children, writeJSXTier(t).children}
    PROVE  /\ Shows(s, "span.badge", Optional(t.badge))
           /\ Shows(s, "h3", <<t.name>>)
           /\ Shows(s, "p.price", <<"">>)
           /\ Shows(s, "p.tagline", Optional(t.tagline))
           /\ Shows(s, "li", t.features.items)
           /\ Shows(s, "button", Optional(t.cta))
<1>1. ASSUME NEW tag, NEW h \in 1..6,
             \A i \in 1..6 : i # h => Under(t, tag)[i] = <<>>
      PROVE  Shows(s, tag, Under(t, tag)[h])
  <2> DEFINE p == Parts(t)
             u == Under(t, tag)
  <2>1. \A i \in 1..6 : /\ p[i] \in Seq(TierElements(t))
                        /\ u[i] \in Seq(Written)
                        /\ Shows(p[i], tag, u[i])
    BY PartsType, PartsShow
  <2>2. s = p[1] \o p[2] \o p[3] \o p[4] \o p[5] \o p[6]
    BY SameChildren
  <2> HIDE DEF p, u
  <2>3. Shows(p[1] \o p[2] \o p[3] \o p[4] \o p[5] \o p[6], tag,
              u[1] \o u[2] \o u[3] \o u[4] \o u[5] \o u[6])
    BY <2>1, ShowsParts
  <2>4. u[1] \o u[2] \o u[3] \o u[4] \o u[5] \o u[6] = u[h]
    BY <1>1, <2>1, OnlyPart DEF u
  <2> QED
    BY <2>2, <2>3, <2>4 DEF u
<1>2. Shows(s, "span.badge", Optional(t.badge))
  <2>1. \A i \in 1..6 : i # 1 => Under(t, "span.badge")[i] = <<>>
    BY DEF Under
  <2>2. Under(t, "span.badge")[1] = Optional(t.badge)
    BY DEF Under
  <2> QED
    BY <1>1, <2>1, <2>2
<1>3. Shows(s, "h3", <<t.name>>)
  <2>1. \A i \in 1..6 : i # 2 => Under(t, "h3")[i] = <<>>
    BY DEF Under
  <2>2. Under(t, "h3")[2] = <<t.name>>
    BY DEF Under
  <2> QED
    BY <1>1, <2>1, <2>2
<1>4. Shows(s, "p.price", <<"">>)
  <2> DEFINE blank == <<"">>
  <2>1. Under(t, "p.price") = <<<<>>, <<>>, blank, <<>>, <<>>, <<>> >>
    BY DEF Under
  <2> HIDE DEF blank
  <2>2. \A i \in 1..6 : i # 3 => Under(t, "p.price")[i] = <<>>
    BY <2>1
  <2>3. Under(t, "p.price")[3] = blank
    BY <2>1
  <2>4. Shows(s, "p.price", Under(t, "p.price")[3])
    BY <1>1, <2>2
  <2> QED
    BY <2>3, <2>4 DEF blank
<1>5. Shows(s, "p.tagline", Optional(t.tagline))
  <2>1. \A i \in 1..6 : i # 4 => Under(t, "p.tagline")[i] = <<>>
    BY DEF Under
  <2>2. Under(t, "p.tagline")[4] = Optional(t.tagline)
    BY DEF Under
  <2> QED
    BY <1>1, <2>1, <2>2
<1>6. Shows(s, "li", t.features.items)
  <2>1. \A i \in 1..6 : i # 5 => Under(t, "li")[i] = <<>>
    BY DEF Under
  <2>2. Under(t, "li")[5] = t.features.items
    BY DEF Under
  <2> QED
    BY <1>1, <2>1, <2>2
<1>7. Shows(s, "button", Optional(t.cta))
  <2>1. \A i \in 1..6 : i # 6 => Under(t, "button")[i] = <<>>
    BY DEF Under
  <2>2. Under(t, "button")[6] = Optional(t.cta)
    BY DEF Under
  <2> QED
    BY <1>1, <2>1, <2>2
<1> QED
  BY <1>2, <1>3, <1>4, <1>5, <1>6, <1>7

LEMMA HeadingShows ==
    ASSUME NEW v \in Variations, NEW heading,
           heading = <<Element("h2", v.headline)>>
                     \o IfText("p.subheadline", v.subheadline)
    PROVE  /\ Shows(heading, "h2", <<v.headline>>)
           /\ Shows(heading, "p.subheadline", Optional(v.subheadline))
<1> DEFINE el == Element("h2", v.headline)
           sub == Element("p.subheadline", v.subheadline)
           rest == IfText("p.subheadline", v.subheadline)
           S == {el, sub}
           first == <<el>>
           none == <<>>
           h == <<v.headline>>
           o == Optional(v.subheadline)
<1>1. el.tag = "h2" /\ el.text = v.headline
  BY DEF Element
<1>2. Shows(rest, "p.subheadline", o) /\ Shows(rest, "h2", none)
  BY IfTextShows
<1>3. rest \in Seq(S)
  <2>1. Element("p.subheadline", v.subheadline) \in S
    OBVIOUS
  <2> HIDE DEF S
  <2> QED
    BY <2>1, IfTextType, Zenon DEF rest
<1>4. v.headline \in STRING /\ v.subheadline \in STRING
  BY DEF Variations
<1>5. h \in Seq(STRING) /\ o \in Seq(STRING) /\ none \in Seq(STRING)
  BY <1>4, OneSeq, Zenon DEF Optional
<1> HIDE DEF el, sub, rest, o
<1>6. first \in Seq(S) /\ Shows(first, "h2", h)
      /\ Shows(first, "p.subheadline", none)
  BY <1>1, OneSeq, ShowsOne, ShowsOther
<1>7. h \o none = h /\ none \o o = o
  BY <1>5, ConcatEmptySeq
<1>8. heading = first \o rest
  BY DEF el, rest
<1> HIDE DEF first, h, none, S
<1>9. Shows(first \o rest, "h2", h \o none)
  BY <1>2, <1>3, <1>5, <1>6, ShowsConcat
<1>10. Shows(first \o rest, "p.subheadline", none \o o)
  BY <1>2, <1>3, <1>5, <1>6, ShowsConcat
<1> QED
  BY <1>7, <1>8, <1>9, <1>10 DEF h, o

LEMMA TierClass ==
    ASSUME NEW t \in Tiers
    PROVE  /\ t.highlighted <=> Len(HTMLTier(t).class) = 2
           /\ t.highlighted <=> Len(writeJSXTier(t).class) = 2
<1>1. t.highlighted \in BOOLEAN
  BY DEF Tiers
<1>2. HTMLTier(t).class = IF t.highlighted THEN <<"tier", "tier--highlighted">>
                                           ELSE <<"tier">>
  BY DEF HTMLTier
<1>3. writeJSXTier(t).class =
        <<"tier">> \o IF t.highlighted THEN <<"tier--highlighted">> ELSE <<>>
  BY DEF writeJSXTier
<1>4. <<"tier">> \o <<>> = <<"tier">>
  BY OneSeq, ConcatEmptySeq
<1>5. <<"tier">> \o <<"tier--highlighted">> = <<"tier", "tier--highlighted">>
  BY PairConcat
<1>6. Len(<<"tier">>) = 1 /\ Len(<<"tier", "tier--highlighted">>) = 2
  OBVIOUS
<1> QED
  BY <1>1, <1>2, <1>3, <1>4, <1>5, <1>6

\* Whatever the model called with, both pages show under every tag what the
\* API's answer has, in its order, and highlight the same tiers.
THEOREM PagesShowTheAnswerHolds == Spec => []PagesShowTheAnswer
<1>1. ASSUME IInv, NEW r \in {"html", "jsx"}, Given(r), Given("get")
      PROVE  LET page == shown[r]
                 answer == shown["get"]
             IN  /\ Shows(page.heading, "h2", <<answer.headline>>)
                 /\ Shows(page.heading, "p.subheadline", answer.subheadline)
                 /\ Len(page.tiers) = Len(answer.tiers)
                 /\ \A i \in DOMAIN page.tiers :
                       LET tier == answer.tiers[i]
                           children == page.tiers[i].children
                       IN  /\ Shows(children, "h3", <<tier.name>>)
                           /\ Shows(children, "span.badge", tier.badge)
                           /\ Shows(children, "p.tagline", tier.tagline)
                           /\ Shows(children, "li", tier.features[1])
                           /\ Shows(children, "button", tier.cta)
                           /\ Shows(children, "p.price", <<"">>)
                           /\ tier.highlighted
                                <=> Len(page.tiers[i].class) = 2
  <2> DEFINE v == variation
             ts == variation.tiers
             page == shown[r]
             answer == shown["get"]
  <2>1. r \in Readers /\ "get" \in Readers
        /\ View("get") = toAPIVariation(variation)
        /\ View(r) = IF r = "html" THEN renderHTML(variation)
                                   ELSE renderJSX(variation)
    BY DEF Readers, View
  <2>2. /\ v \in Variations
        /\ answer = toAPIVariation(v)
        /\ page = IF r = "html" THEN renderHTML(v) ELSE renderJSX(v)
    BY <1>1, <2>1 DEF IInv, ViewInv
  <2>3. ts \in Seq(Tiers) /\ DOMAIN ts = 1..Len(ts) /\ Len(ts) \in Nat
    BY <2>2, LenProperties DEF Variations
  <2>4. /\ answer.headline = v.headline
        /\ answer.subheadline = Optional(v.subheadline)
        /\ answer.tiers = [i \in 1..Len(ts) |-> toAPIPricingTier(ts[i])]
    BY <2>2, <2>3 DEF toAPIVariation
  <2>5. /\ page.heading = <<Element("h2", v.headline)>>
                           \o IfText("p.subheadline", v.subheadline)
        /\ page.tiers = IF r = "html"
                          THEN [i \in 1..Len(ts) |-> HTMLTier(ts[i])]
                          ELSE [i \in 1..Len(ts) |-> writeJSXTier(ts[i])]
    BY <2>2, <2>3 DEF renderHTML, renderJSX
  <2> HIDE DEF v, ts, page, answer
  <2>6. /\ Shows(page.heading, "h2", <<answer.headline>>)
        /\ Shows(page.heading, "p.subheadline", answer.subheadline)
    BY <2>2, <2>4, <2>5, HeadingShows
  <2>7. Len(page.tiers) = Len(answer.tiers) /\ DOMAIN page.tiers = 1..Len(ts)
    BY <2>3, <2>4, <2>5
  <2>8. ASSUME NEW i \in DOMAIN page.tiers
        PROVE  LET tier == answer.tiers[i]
                   children == page.tiers[i].children
               IN  /\ Shows(children, "h3", <<tier.name>>)
                   /\ Shows(children, "span.badge", tier.badge)
                   /\ Shows(children, "p.tagline", tier.tagline)
                   /\ Shows(children, "li", tier.features[1])
                   /\ Shows(children, "button", tier.cta)
                   /\ Shows(children, "p.price", <<"">>)
                   /\ tier.highlighted <=> Len(page.tiers[i].class) = 2
    <3> DEFINE t == ts[i]
               tier == answer.tiers[i]
               drawn == page.tiers[i]
    <3>1. i \in 1..Len(ts)
      BY <2>7
    <3>2. t \in Tiers
      BY <2>3, <3>1, ElementOfSeq
    <3>3. tier = toAPIPricingTier(t)
      BY <2>4, <3>1
    <3>4. drawn = HTMLTier(t) \/ drawn = writeJSXTier(t)
      BY <2>5, <3>1
    <3> HIDE DEF t, tier, drawn
    <3>5. /\ tier.name = t.name /\ tier.badge = Optional(t.badge)
          /\ tier.tagline = Optional(t.tagline)
          /\ tier.cta = Optional(t.cta)
          /\ tier.features[1] = t.features.items
          /\ tier.highlighted = t.highlighted
      BY <3>3 DEF toAPIPricingTier
    <3>6. /\ Shows(drawn.children, "span.badge", Optional(t.badge))
          /\ Shows(drawn.children, "h3", <<t.name>>)
          /\ Shows(drawn.children, "p.price", <<"">>)
          /\ Shows(drawn.children, "p.tagline", Optional(t.tagline))
          /\ Shows(drawn.children, "li", t.features.items)
          /\ Shows(drawn.children, "button", Optional(t.cta))
      BY <3>2, <3>4, TierShows
    <3>7. t.highlighted <=> Len(drawn.class) = 2
      BY <3>2, <3>4, TierClass
    <3>8. /\ Shows(drawn.children, "h3", <<tier.name>>)
          /\ Shows(drawn.children, "span.badge", tier.badge)
          /\ Shows(drawn.children, "p.tagline", tier.tagline)
          /\ Shows(drawn.children, "li", tier.features[1])
          /\ Shows(drawn.children, "button", tier.cta)
          /\ Shows(drawn.children, "p.price", <<"">>)
          /\ tier.highlighted <=> Len(drawn.class) = 2
      BY <3>5, <3>6, <3>7, Zenon
    <3> QED
      BY <3>8 DEF tier, drawn
  <2> QED
    BY <2>6, <2>7, <2>8 DEF page, answer
<1>2. IInv => PagesShowTheAnswer
  BY <1>1 DEF PagesShowTheAnswer
<1> QED
  BY <1>2, Invariance, PTL
=============================================================================
