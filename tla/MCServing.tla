------------------------------- MODULE MCServing -------------------------------
(* Connection 1 changes what it offers once: one tool is said to be          *)
(* destructive now, two are listed in another order, one is new.  Tools 1    *)
(* and 2 normalise to the same name.                                         *)
EXTENDS GatewayHandler, TLC

CONSTANTS a1, a2, r1

Tool(u, words, hints) ==
  [up |-> u, schema |-> u, words |-> words, readVerb |-> FALSE, hints |-> hints]

Edition(list, res, pro) == [tools |-> list, resources |-> res, prompts |-> pro]

MCOffer ==
  (1 :> << Edition(<<Tool(1, {"READ_ONLY"}, {}), Tool(2, {"WRITE"}, {"openWorld"})>>, {1}, {1}),
           Edition(<<Tool(2, {"WRITE"}, {"openWorld"}), Tool(3, {"DESTRUCTIVE"}, {"harmless"})>>, {2}, {}) >>) @@
  (2 :> << Edition(<<Tool(1, {}, {"openWorld"})>>, {1}, {}), Edition(<<>>, {}, {}),
           Edition(<<Tool(3, {}, {})>>, {}, {}) >>)

MCSegment == <<1, 1, 2>>
MCNewAlias == {<<3, 0>>}
MCFirstAlias == (1 :> <<1, 0>>) @@ (2 :> <<2, 0>>)

With(x, y, asked) == [does |-> (a1 :> x) @@ (a2 :> y), asks |-> (r1 :> asked)]

MCMix == {
  With({<<"sync", 1>>, <<"change", 1>>}, {}, {}),
  With({<<"sync", 1>>}, {<<"sync", 1>>, <<"crash", 1>>}, {}),
  With({<<"change", 1>>}, {<<"disable", 2>>, <<"enable", 2>>}, {"tools", "resources"}),
  With({<<"change", 1>>}, {<<"toggle", 1>>}, {"call"}),
  With({<<"change", 2>>}, {}, {}),
  With({<<"rename", 1>>}, {<<"rename", 2>>}, {}),
  With({<<"rename", 1>>}, {<<"toggle", 2>>}, {"tools"}),
  With({<<"change", 1>>, <<"disable", 2>>}, {<<"sync", 2>>}, {"read", "prompt"}),
  With({<<"rename", 1>>}, {<<"sync", 1>>}, {"read"}),
  With({<<"disable", 1>>, <<"enable", 1>>}, {<<"toggle", 2>>}, {"tools"}),
  With({<<"disconnect", 1>>}, {<<"sync", 1>>}, {"call", "prompts", "prompt"})
}
MCWorkloads == {m.does : m \in MCMix}

\* A server says of a tool it listed before that it is destructive.
Drop(hints) == Edition(<<Tool(1, {"READ_ONLY"}, hints)>>, {}, {})
OfferOfHints == (1 :> <<Drop({}), Drop({"destructive"})>>) @@ (2 :> <<Drop({})>>)
MixOfCall == {With({<<"sync", 1>>, <<"change", 1>>}, {}, {"call"})}
CallWorkloads == {m.does : m \in MixOfCall}
=============================================================================
