-------------------------- MODULE MCResponseStream --------------------------
(* Instances of ResponseStream for TLC. *)
EXTENDS ResponseStream

\* A chunk without a data line has no content.
MCContents == {<<>>, <<"a">>, <<"b">>, <<"a", "b">>}

MCResponses == UNION {[1 .. n -> MCContents] : n \in 0 .. 3}

Rule(pattern, action) == [pattern |-> pattern, action |-> action]

\* Rules that match within and across chunks, that block, that warn, and both.
MCRuleSets ==
  { {},
    {Rule(<<"a", "b">>, "block")},
    {Rule(<<"a">>, "warn"), Rule(<<"b", "a">>, "block")},
    {Rule(<<"b">>, "log")} }
=============================================================================
