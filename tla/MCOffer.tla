------------------------------ MODULE MCOffer ------------------------------
(***************************************************************************)
(* Instances of Offer for TLC: calls of one tier that tell prices apart,   *)
(* calls of one tier that tell its other fields apart, and calls of none,  *)
(* two, five and six tiers.                                                *)
(***************************************************************************)
EXTENDS Offer

Fixed == [amount |-> 2900, currency |-> "USD", interval |-> "monthly",
          label |-> ""]

Prices ==
    [amount : {-1, 0, 5, 29, 100, 2905, 2990}, currency : {"USD", "BRL", "CHF"},
     interval : Intervals, label : {"", "Contact us"}]
    \cup [amount : {2900}, currency : {"", "usd"}, interval : {"monthly"},
          label : {"", "Contact us"}]
    \cup [amount : {2900}, currency : {"USD"}, interval : {"weekly"},
          label : {"", "Contact us"}]

Tier(name, price, tagline, features, cta, highlighted, badge) ==
    [name |-> name, price |-> price, tagline |-> tagline,
     features |-> features, cta |-> cta, highlighted |-> highlighted,
     badge |-> badge]

Plain(price) == Tier("Pro", price, "", <<<<"seats">>>>, "", FALSE, "")

Decorated ==
    {Tier(n, Fixed, t, f, c, h, b) :
        n \in {"", "Pro"}, t \in {"", "Pick me"},
        f \in {<<>>, <<<<>>>>, <<<<"seats", "support">>>>}, c \in {"", "Start"},
        h \in BOOLEAN, b \in {"", "Popular"}}

Saying(headline, subheadline, tiers, decodes) ==
    [decodes |-> decodes, headline |-> headline, subheadline |-> subheadline,
     rationale |-> "", tiers |-> tiers]

Repeat(n) == [i \in 1..n |-> Plain([Fixed EXCEPT !.amount = i])]

MCCalls ==
    {Saying("Plans", "", <<Plain(p)>>, TRUE) : p \in Prices}
    \cup {Saying("Plans", "", <<t>>, TRUE) : t \in Decorated}
    \cup {Saying("Plans", "Simple", Repeat(n), TRUE) : n \in {0, 2, 5, 6}}
    \cup {Saying("", "", Repeat(1), TRUE), Saying("Plans", "", Repeat(1), FALSE)}

MCCodes == {"USD", "EUR", "GBP", "BRL", "CHF"}

MCLower == [c \in {"USD", "EUR", "GBP", "BRL", "CHF", "usd", ""} |->
               CASE c = "USD" -> "usd" [] c = "EUR" -> "eur"
                 [] c = "GBP" -> "gbp" [] c = "BRL" -> "brl"
                 [] c = "CHF" -> "chf" [] OTHER -> c]
=============================================================================
