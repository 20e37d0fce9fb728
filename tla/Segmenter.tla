----------------------------- MODULE Segmenter -----------------------------
(***************************************************************************)
(* From a context to the layout of a prompt: segment_context splits the    *)
(* text at the coarsest boundaries where it is over the limit              *)
(* (segmenter.py), render_arm finds the segments again in the tokens of    *)
(* the rendered prompt (prompt.py).  Both count a token with whatever it   *)
(* overlaps; a token may span a cut.                                       *)
(*                                                                         *)
(* A character is known by its class.  Offsets start at 0, a span is       *)
(* <<start, end>>, end excluded, as in ReadView.                           *)
(***************************************************************************)
EXTENDS ReadView

CONSTANTS
    Texts,          \* contexts: sequences over CharClasses
    MaxTokenLen,    \* characters in a token
    TargetTokens, CapTokens,
    SinkTokens

CharClasses == {"word", "stop", "comma", "space", "newline"}

ASSUME SegmenterAssumption ==
    /\ \A text \in Texts : text \in Seq(CharClasses)
    /\ MaxTokenLen \in Nat \ {0} /\ SinkTokens \in Nat
    /\ TargetTokens \in Nat \ {0} /\ CapTokens \in Nat /\ TargetTokens <= CapTokens

VARIABLES
    text,
    starts,         \* where the tokens of the context begin
    todo,           \* spans still to be looked at, the leftmost first
    segments,       \* [span, uncuttable], the result so far
    cutFrom,        \* the span that was cut last, and where
    phase,          \* "split", "render", "done" or "refused"
    offsets,        \* where the tokens of the rendered prompt begin
    layout          \* of the rendered prompt

segmenterVars == <<text, starts, todo, segments, cutFrom, phase, offsets, layout>>

Size == Len(text)
Char(i) == text[i + 1]
Blank(i) == Char(i) \in {"space", "newline"}
AllBlank(s) == \A i \in s[1]..(s[2] - 1) : Blank(i)

NoCut == [span |-> <<0, 0>>, at |-> 0]
NoLayout == [prompt |-> 0, segments |-> <<>>, window |-> NoWindow, sink |-> NoWindow]

\* The context's tokens cover it; strip() of a blank one is empty, and it gets a
\* placeholder instead of segments.
SegmenterInit ==
    /\ text \in Texts
    /\ starts \in {S \in SUBSET (0..(Size - 1)) :
                     /\ Size > 0 => 0 \in S
                     /\ \A i \in S : i + MaxTokenLen >= Size
                                     \/ \E j \in (i + 1)..(i + MaxTokenLen) : j \in S}
    /\ todo = IF AllBlank(<<0, Size>>) THEN <<>> ELSE << <<0, Size>> >>
    /\ segments = IF AllBlank(<<0, Size>>)
                  THEN << [span |-> <<0, Size>>, uncuttable |-> FALSE] >> ELSE <<>>
    /\ cutFrom = NoCut /\ phase = "split"
    /\ offsets = {} /\ layout = NoLayout

-----------------------------------------------------------------------------
(* Counting.                                                               *)

EndOf(i) == IF \E j \in starts : j > i THEN Min({j \in starts : j > i}) ELSE Size

\* OffsetsIndex.count_overlapping
Overlap(s, e) ==
    Greater(0, Cardinality({i \in starts : i < e}) - Cardinality({i \in starts : EndOf(i) <= s}))

-----------------------------------------------------------------------------
(* The boundaries, from coarse to fine; a cut is where a match ends.       *)

\* Blank lines: a newline, blanks, a newline; matches do not overlap.
LineEnds(s, e) ==
    LET match(i) == {j \in (i + 1)..(e - 1) : Char(j) = "newline" /\ \A k \in (i + 1)..(j - 1) : Char(k) = "space"}
        from[i \in s..e] ==
            IF i = e THEN {}
            ELSE IF Char(i) = "newline" /\ match(i) # {}
                 THEN {Max(match(i)) + 1} \cup from[Max(match(i)) + 1]
                 ELSE from[i + 1]
    IN  from[s]

\* A mark that is followed by white space within the span.
MarkEnds(mark, s, e) == {i + 1 : i \in {j \in s..(e - 2) : Char(j) = mark /\ Blank(j + 1)}}

BlankEnds(s, e) == {i + 1 : i \in {j \in s..(e - 1) : Blank(j) /\ (j + 1 = e \/ ~Blank(j + 1))}}
BlankStarts(s, e) == {i \in s..(e - 1) : Blank(i) /\ (i = s \/ ~Blank(i - 1))}

\* Mutant: white space is cut behind only.
MatchesBehind(level, s, e) ==
    CASE level = 1 -> LineEnds(s, e) \X {0}
      [] level = 2 -> {i + 1 : i \in {j \in s..(e - 1) : Char(j) = "newline"}} \X {0}
      [] level = 3 -> MarkEnds("stop", s, e) \X {0}
      [] level = 4 -> MarkEnds("comma", s, e) \X {0}
      [] level = 5 -> BlankEnds(s, e) \X {0}

\* White space is cut behind, or else in front.
Matches(level, s, e) ==
    CASE level = 1 -> LineEnds(s, e) \X {0}
      [] level = 2 -> {i + 1 : i \in {j \in s..(e - 1) : Char(j) = "newline"}} \X {0}
      [] level = 3 -> MarkEnds("stop", s, e) \X {0}
      [] level = 4 -> MarkEnds("comma", s, e) \X {0}
      [] level = 5 -> (BlankEnds(s, e) \X {0}) \cup (BlankStarts(s, e) \X {1})

\* Mutant: a cut through a token is put off to a finer level.
UsableWhole(level, s, e) ==
    {c \in Matches(level, s, e) :
        /\ s < c[1] /\ c[1] < e /\ (level < 5 => c[1] \in starts)
        /\ Overlap(s, c[1]) > 0 /\ Overlap(c[1], e) > 0}

\* A cut leaves a token on either side.
Usable(level, s, e) ==
    {c \in Matches(level, s, e) : /\ s < c[1] /\ c[1] < e
                                  /\ Overlap(s, c[1]) > 0 /\ Overlap(c[1], e) > 0}

Levels == 1..5
UsableLevels(s, e) == {level \in Levels : Usable(level, s, e) # {}}

Distance(n) == IF n >= TargetTokens THEN n - TargetTokens ELSE TargetTokens - n

\* The left side should fit; if it cannot, the right side; or neither.  Then the
\* distance to the target decides, the side of the white space, the place.
BestCut(s, e) ==
    LET usable == Usable(Min(UsableLevels(s, e)), s, e)
        left   == {c \in usable : Overlap(s, c[1]) <= CapTokens}
        right  == {c \in usable : Overlap(c[1], e) <= CapTokens}
        pool   == IF left # {} THEN left ELSE IF right # {} THEN right ELSE usable
        size(c) == IF left = {} /\ right # {} THEN Overlap(c[1], e) ELSE Overlap(s, c[1])
        score(c) == <<Distance(size(c)), c[2], c[1]>>
        lower(x, y) == \E i \in 1..3 : x[i] < y[i] /\ \A j \in 1..(i - 1) : x[j] = y[j]
    IN  (CHOOSE c \in pool : \A d \in pool \ {c} : lower(score(c), score(d)))[1]

-----------------------------------------------------------------------------
(* _split_span, leftmost first, as its recursion appends to the result.    *)

Keep(uncuttable) ==
    /\ segments' = Append(segments, [span |-> Head(todo), uncuttable |-> uncuttable])
    /\ todo' = Tail(todo)
    /\ UNCHANGED <<text, starts, cutFrom, phase, offsets, layout>>

Fits == phase = "split" /\ todo # <<>> /\ Overlap(Head(todo)[1], Head(todo)[2]) <= CapTokens

KeepWhole == Fits /\ Keep(FALSE)

KeepAtomic ==
    /\ phase = "split" /\ todo # <<>> /\ ~Fits
    /\ UsableLevels(Head(todo)[1], Head(todo)[2]) = {}
    /\ Keep(TRUE)

Cut ==
    /\ phase = "split" /\ todo # <<>> /\ ~Fits
    /\ UsableLevels(Head(todo)[1], Head(todo)[2]) # {}
    /\ \E c \in {BestCut(Head(todo)[1], Head(todo)[2])} :
          /\ todo' = << <<Head(todo)[1], c>>, <<c, Head(todo)[2]>> >> \o Tail(todo)
          /\ cutFrom' = [span |-> Head(todo), at |-> c]
    /\ UNCHANGED <<text, starts, segments, phase, offsets, layout>>

\* _assert_cap_respected
CapRespected ==
    \A i \in DOMAIN segments :
        \/ Overlap(segments[i].span[1], segments[i].span[2]) <= CapTokens
        \/ segments[i].uncuttable

Split ==
    /\ phase = "split" /\ todo = <<>>
    /\ phase' = IF CapRespected \/ AllBlank(<<0, Size>>) THEN "render" ELSE "refused"
    /\ UNCHANGED <<text, starts, todo, segments, cutFrom, offsets, layout>>

-----------------------------------------------------------------------------
(* render_arm.  In the prompt, every character of a segment and every       *)
(* piece of the template around it is a token, except that the first and   *)
(* the last character may be one token with the template beside it.        *)

\* What the template leaves of a segment: rstrip(); a placeholder has a word.
Trimmed(i) ==
    LET s == segments[i].span
    IN  IF AllBlank(<<0, Size>>) THEN 1
        ELSE IF AllBlank(s) THEN 0
        ELSE Max({k \in s[1]..(s[2] - 1) : ~Blank(k)}) + 1 - s[1]

\* The blocks: system (SinkTokens pieces and its end) and the first turn; a call,
\* a header and an end for each segment; the question and the end.
FirstBlock == SinkTokens + 2
BlockLen(i) == Trimmed(i) + 3
TextStart(i) == FirstBlock + Total([j \in 1..(i - 1) |-> BlockLen(j)]) + 2
QuestionStart == TextStart(Len(segments) + 1) - 1
PromptChars == QuestionStart + 2

\* The tokens of the prompt, as the places where they begin.
PromptStarts(glued) == (0..(PromptChars - 1)) \ glued

Glues ==
    UNION {{TextStart(i), TextStart(i) + Trimmed(i)} : i \in DOMAIN segments}

\* Mutant: only tokens that lie inside.
TokenRangeInside(S, s, e) ==
    LET end(i) == IF \E j \in S : j > i THEN Min({j \in S : j > i}) ELSE PromptChars
        in == {i \in S : s <= i /\ end(i) <= e}
        rank(i) == Cardinality({j \in S : j < i})
    IN  IF in = {} THEN <<0, 0>> ELSE <<rank(Min(in)), rank(Max(in)) + 1>>

\* _char_range_to_token_range: every token that overlaps.
TokenRange(S, s, e) ==
    LET end(i) == IF \E j \in S : j > i THEN Min({j \in S : j > i}) ELSE PromptChars
        in == {i \in S : i < e /\ end(i) > s}
        rank(i) == Cardinality({j \in S : j < i})
    IN  <<rank(Min(in)), rank(Max(in)) + 1>>

SpanIn(S, i) == TokenRange(S, TextStart(i), TextStart(i) + Trimmed(i))

\* The window runs from the question to the end of the prompt.
LayoutOf(S) ==
    [prompt   |-> Cardinality(S),
     segments |-> [i \in DOMAIN segments |-> SpanIn(S, i)],
     window   |-> <<TokenRange(S, QuestionStart, QuestionStart + 1)[1], Cardinality(S)>>,
     sink     |-> <<0, Lesser(SinkTokens, Cardinality(S))>>]

Render ==
    /\ phase = "render"
    /\ \A i \in DOMAIN segments : Trimmed(i) > 0
    /\ \E glued \in SUBSET Glues : /\ offsets' = PromptStarts(glued)
                                  /\ layout' = LayoutOf(PromptStarts(glued))
    /\ phase' = "done"
    /\ UNCHANGED <<text, starts, todo, segments, cutFrom>>

\* A segment of which nothing is left has no place in the prompt.
RenderFails ==
    /\ phase = "render"
    /\ \E i \in DOMAIN segments : Trimmed(i) = 0
    /\ phase' = "refused"
    /\ UNCHANGED <<text, starts, todo, segments, cutFrom, offsets, layout>>

SegmenterNext == KeepWhole \/ KeepAtomic \/ Cut \/ Split \/ Render \/ RenderFails

SegmenterSpec == SegmenterInit /\ [][SegmenterNext]_segmenterVars
-----------------------------------------------------------------------------
\* Type invariant; the segments and what is still to be split are the text, in
\* order and without a gap (join_segments restores the context).
SegmenterTypeOK ==
    /\ text \in Texts /\ starts \subseteq 0..Size /\ phase \in {"split", "render", "done", "refused"}
    /\ LET spans == [i \in DOMAIN segments |-> segments[i].span] \o todo
       IN  /\ spans # <<>> /\ spans[1][1] = 0 /\ Last(spans)[2] = Size
           /\ \A i \in 1..(Len(spans) - 1) : spans[i][2] = spans[i + 1][1]
           /\ Size > 0 => \A i \in DOMAIN spans : spans[i][1] < spans[i][2]
    /\ \A i \in DOMAIN segments : segments[i].uncuttable \in BOOLEAN
    /\ offsets \subseteq Nat
    /\ layout # NoLayout => ValidLayout(layout)

\* The tokens that share a character with a span, from the words.
Covering(s, e) == {i \in starts : \E k \in i..(EndOf(i) - 1) : s <= k /\ k < e}

\* A segment is over the limit only if it holds no boundary at all: neither an
\* edge of white space nor a newline lies inside.
OverLimitIsAtomic ==
    \A i \in DOMAIN segments :
        LET s == segments[i].span[1]
            e == segments[i].span[2]
        IN  Cardinality(Covering(s, e)) > CapTokens =>
                \/ AllBlank(<<0, Size>>)
                \/ \A k \in (s + 1)..(e - 1) : Blank(k) = Blank(k - 1) /\ Char(k - 1) # "newline"

\* The segments are the text: they tile it in order, each is within the limit
\* or holds no boundary to cut at (_split_span, _assert_cap_respected).
WellSegmented == SegmenterTypeOK /\ OverLimitIsAtomic

\* Behind k ends a paragraph or a line, or a mark stands before white space.
EndsLine(k) == Char(k - 1) = "newline"
EndsParagraph(k, s) ==
    EndsLine(k) /\ \E i \in s..(k - 2) : Char(i) = "newline" /\ \A j \in (i + 1)..(k - 2) : Blank(j)
Marked(k, mark) == Char(k - 1) = mark /\ Blank(k)

\* A span is cut at the coarsest boundary it has, also where a token crosses it.
CoarsestBoundary ==
    cutFrom # NoCut =>
        LET s == cutFrom.span[1]
            c == cutFrom.at
            inside == (s + 1)..(cutFrom.span[2] - 1)
        IN  /\ (\E k \in inside : EndsParagraph(k, s)) => EndsParagraph(c, s)
            /\ (\E k \in inside : EndsLine(k)) => EndsLine(c)
            /\ (\E k \in inside : Marked(k, "stop")) => EndsLine(c) \/ Marked(c, "stop")
            /\ (\E k \in inside : Marked(k, "comma")) =>
                  EndsLine(c) \/ Marked(c, "stop") \/ Marked(c, "comma")

\* The number of the token over a character of the prompt, and those over the text
\* of a segment.
TokenOver(k) == Cardinality({j \in offsets : j <= k}) - 1
TokensOver(i) == {TokenOver(k) : k \in TextStart(i)..(TextStart(i) + Trimmed(i) - 1)}

\* The span of a segment in the rendered prompt is the tokens over its characters,
\* all of them and no other; focusing on it shows every character of its text and
\* no character of another segment's (before the read is widened to blocks).
FocusShowsTheSegment ==
    phase = "done" =>
        \A i \in DOMAIN segments :
            LET shown == Selected("focus", {i}, layout, layout.prompt)
            IN  /\ TokensOver(i) \subseteq shown
                /\ TokensOver(i) = layout.segments[i][1]..(layout.segments[i][2] - 1)
                /\ \A j \in DOMAIN segments \ {i} : TokensOver(j) \cap shown = {}

\* Every segment is one addressable piece of the context, says the type; the
\* prompt has no place for one that is blank.
EverySegmentIsAddressable == phase # "refused"
=============================================================================
