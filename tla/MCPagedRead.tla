---------------------------- MODULE MCPagedRead ----------------------------
(* Layouts for checking PagedRead: spans that start and end inside blocks,   *)
(* touch, overlap the sink, leave gaps, are empty, or lack the window.       *)
EXTENDS PagedRead

MCLayouts == {
    [prompt |-> 6, sink |-> <<0, 1>>, window |-> <<5, 6>>,
     segments |-> << <<1, 2>>, <<3, 5>> >>],
    [prompt |-> 5, sink |-> <<0, 2>>, window |-> <<0, 0>>,
     segments |-> << <<1, 4>>, <<4, 4>> >>],
    [prompt |-> 4, sink |-> <<1, 1>>, window |-> <<3, 4>>,
     segments |-> << <<0, 3>>, <<2, 4>> >>] }

\* The loop of _merge, span by span, on the sets of at most four short spans.
MergeLoop(S) ==
    LET join(acc, s) ==
            IF acc # <<>> /\ s[1] <= Last(acc)[2]
            THEN Front(acc) \o << <<Last(acc)[1], Greater(Last(acc)[2], s[2])>> >>
            ELSE Append(acc, s)
        before(s, t) == s[1] < t[1] \/ (s[1] = t[1] /\ s[2] < t[2])
    IN  ToSet(FoldLeft(join, <<>>, SetToSortSeq(S, before)))

ShortSpans == {s \in (0..4) \X (1..5) : s[1] < s[2]}

ASSUME MergeIsTheLoop ==
    \A k \in 0..4 : \A S \in kSubset(k, ShortSpans) : Merge(S) = MergeLoop(S)
=============================================================================
