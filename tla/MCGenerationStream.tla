-------------------------- MODULE MCGenerationStream --------------------------
(* A small vocabulary and stop strings for GenerationStream.               *)
EXTENDS GenerationStream

\* Tokens of one and two characters, halves of a multi-byte character, and end
\* tokens: the text of one is a stop string, that of another ends like one begins.
MCTokens == {"a", "b", "bc", "ca", "h", "la", "eos", "end", "over"}
MCBytes == [a |-> <<"a">>, b |-> <<"b">>, bc |-> <<"b", "c">>, ca |-> <<"c", "a">>,
            h |-> <<"?">>, la |-> <<"L", "a">>,
            eos |-> <<"E">>, end |-> <<"Z">>, over |-> <<"Z", "a">>]
MCEnds == {"eos", "end", "over"}

\* Overlapping stop strings, one with a multi-byte character, and an eos text.
MCStops == << <<"a", "b", "b">>, <<"b", "a", "b">>, <<"U", "a", "a">>, <<"E">> >>
=============================================================================
