---------------------------- MODULE MCSegmenter ----------------------------
(* Every short text of words, full stops, spaces and newlines, and longer    *)
(* ones of words and newlines, and some with commas.                         *)
EXTENDS Segmenter

Strings(S, n) == UNION {[1..k -> S] : k \in 0..n}

MCTexts == Strings({"word", "stop", "space", "newline"}, 5)
             \cup Strings({"word", "newline"}, 7)
             \cup {<<"word", "comma", "space">> \o s : s \in Strings({"word", "comma", "space"}, 3)}
=============================================================================
