---------------------------- MODULE MCContentKey ----------------------------
(***************************************************************************)
(* An instance of ContentKey for TLC: strategies left out, empty, in either*)
(* order, twice the same and unknown; a currency left out, empty, the      *)
(* default and another.                                                    *)
(***************************************************************************)
EXTENDS ContentKey

Ask(strategies, currency) == [strategies |-> strategies, currency |-> currency]

MCAsks ==
    {Ask(<<>>, <<>>), Ask(<<<<>>>>, <<"">>), Ask(<<>>, <<"USD">>),
     Ask(<<<<"freemium", "anchor">>>>, <<"EUR">>),
     Ask(<<<<"anchor", "freemium">>>>, <<"EUR">>),
     Ask(<<<<"anchor", "freemium">>>>, <<"USD">>),
     Ask(<<<<"anchor", "anchor">>>>, <<"USD">>),
     Ask(<<<<"anchor", "decoy">>>>, <<"USD">>)}
=============================================================================
