-------------------------- MODULE MCProtocolState --------------------------
(* A vocabulary for checking ProtocolState: whole tags, tags in two or three *)
(* pieces, several tags in a token, and characters cut between tokens.       *)
EXTENDS ProtocolState

MCRefsOf == [l \in Lists |-> IF l = "chunks:1,2" THEN {1, 2} ELSE {2, 3}]

MCTokens == {
    <<"<">>, <<"<", "/">>, <<"focus">>, <<"local">>, <<">">>, <<"/">>,
    <<"chunks:1,2">>, <<"chunks:1,2", ">">>, <<"chunks:2,3", ">">>,
    <<"bad", ">">>, <<"other">>, <<"blank", "word">>, <<"text", "<">>,
    <<"<", "local", ">">>, <<"<", "global", ">", "<", "focus">>,
    <<"<", "/", "focus", ">">>, <<"answer", ">">>, <<"lead">>, <<"cont", ">">> }
=============================================================================
