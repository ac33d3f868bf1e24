----------------------------- MODULE MCMetaTools -----------------------------
(* Small catalogs and queries for MetaTools and CatalogSearch.               *)
EXTENDS MetaTools

MCBrand == <<"cloud">>

\* Like cloudasset, run and vertex-generate, and one no query names.
MCIds == {<<"cloud", "a">>, <<"a">>, <<"v", "-", "a">>, <<"w">>}

Tool(words, camel, description, broken) ==
    [words |-> words, camel |-> camel, description |-> description, broken |-> broken]

a == Tool(<< <<"a">> >>, FALSE, <<"cloud", " ", "v">>, FALSE)
v_a == Tool(<< <<"v">>, <<"a">> >>, FALSE, <<"cloud">>, FALSE)
VaCloud == Tool(<< <<"v", "a">>, <<"cloud">> >>, TRUE, <<"v">>, TRUE)
b == Tool(<< <<"b">> >>, FALSE, <<>>, FALSE)
Leading == Tool(<< <<>>, <<"a">> >>, FALSE, <<>>, FALSE)
Doubled == Tool(<< <<"a">>, <<>>, <<"b">> >>, FALSE, <<>>, FALSE)

\* Pruned to nothing, a single broken tool, names with underscores where they
\* are in the way, and pairs of services.
MCCatalogs ==
    {<<>>, <<[id |-> <<"a">>, tools |-> <<VaCloud>>]>>,
     <<[id |-> <<"a">>, tools |-> <<Leading, Doubled>>]>>} \cup
    {<<[id |-> ids[1], tools |-> x], [id |-> ids[2], tools |-> y]>> :
        ids \in {ids \in MCIds \X MCIds : ids[1] # ids[2] /\ ids[1] # <<"w">>},
        x \in {<<a, v_a>>, <<b>>}, y \in {<<v_a, VaCloud>>, <<a, b>>}}

\* No separator, an empty half on either side, a service and a tool that are not
\* there.
MCStrays ==
    {<<"a">>, <<"_", "_", "a">>, <<"a", "_", "_">>, <<"x", "_", "_", "a">>,
     <<"a", "_", "_", "x">>}

MCTokens == {<<"cloud">>, <<"a">>, <<"v">>, <<"cloud", "a">>}

\* Up to three tokens, or an id typed with its separator.
MCQueries ==
    BoundedSeq(MCTokens, 3)
    \cup {<< <<"v", "-", "a">> >>, << <<"cloud">>, <<"v", "-", "a">> >>}
=============================================================================
