--------------------------- MODULE ProtocolState ---------------------------
(***************************************************************************)
(* The protocol state of one request: the tokens of its generated stream   *)
(* are decoded, their characters go through the tag parser one by one, and *)
(* each token leaves a step record with the view that the forward which    *)
(* consumes it will read through (state.py, parser.py, decode.py and       *)
(* AttnViewEngine.parse_outputs, _finish_and_release).                     *)
(*                                                                         *)
(* feed_generated_token is atomic in the code; here its loop over the      *)
(* characters is unrolled, the incremental UTF-8 decoder in front of it,   *)
(* and feeding says that it is under way.                                  *)
(***************************************************************************)
EXTENDS TagParser

CONSTANTS
    Tokens,         \* the vocabulary: byte sequences
    MaxTokens       \* bound: most tokens of a stream

ASSUME VocabularyAssumption ==
    /\ Tokens \subseteq Seq(Bytes)
    /\ MaxTokens \in Nat

VARIABLES
    view,           \* TagParser.mode and refs
    buf,            \* TagParser._buffer
    plain,          \* TagParser.plain_text
    anomalies,      \* TagParser.anomalies
    pending,        \* the incremental decoder holds a lead byte
    feeding,        \* inside feed_generated_token
    rest,           \* bytes of the token not fed yet
    events,         \* events of the token being fed
    steps,          \* RequestProtocolState.steps
    flushEvents,    \* RequestProtocolState.flush_events
    closed,         \* RequestProtocolState.closed
    leftover,       \* leftover_text of the frozen trace
    stream          \* history: the tokens sampled so far

parserVars == <<view, buf, plain, anomalies>>
vars == <<parserVars, pending, feeding, rest, events, steps, flushEvents, closed,
          leftover, stream>>

StepRecord == [view : View, events : Seq(Event)]

TypeOK ==
    /\ view \in View
    /\ buf \in Seq(Chars)
    /\ plain \in Seq(Chars)
    /\ anomalies \in Seq(Event)
    /\ pending \in BOOLEAN
    /\ feeding \in BOOLEAN
    /\ rest \in Seq(Bytes)
    /\ events \in Seq(Event)
    /\ steps \in Seq(StepRecord)
    /\ flushEvents \in Seq(Event)
    /\ closed \in BOOLEAN
    /\ leftover \in {<<>>, <<"text">>}
    /\ stream \in Seq(Tokens)

Init ==
    /\ view = GlobalView
    /\ buf = <<>>
    /\ plain = <<>>
    /\ anomalies = <<>>
    /\ pending = FALSE
    /\ feeding = FALSE
    /\ rest = <<>>
    /\ events = <<>>
    /\ steps = <<>>
    /\ flushEvents = <<>>
    /\ closed = FALSE
    /\ leftover = <<>>
    /\ stream = <<>>

-----------------------------------------------------------------------------
\* A token is sampled: its text goes to feed_generated_token.
Sample(tok) ==
    /\ ~closed
    /\ ~feeding
    /\ Len(steps) < MaxTokens
    /\ feeding' = TRUE
    /\ rest' = tok
    /\ stream' = Append(stream, tok)
    /\ UNCHANGED <<parserVars, pending, events, steps, flushEvents, closed, leftover>>

-----------------------------------------------------------------------------
(* The decoder: a lead byte waits for the byte after it; if that is not its  *)
(* continuation, a replacement character comes out and the byte is looked at *)
(* again.                                                                    *)

Multibyte(b) == b \in {"lead", "cont"}

HoldLead ==
    /\ feeding
    /\ rest # <<>>
    /\ Head(rest) = "lead" /\ ~pending
    /\ pending' = TRUE
    /\ rest' = Tail(rest)
    /\ UNCHANGED <<parserVars, feeding, events, steps, flushEvents, closed, leftover,
                   stream>>

\* The next character out of the decoder.
Char == IF pending \/ Multibyte(Head(rest)) THEN "text" ELSE Head(rest)

Consume ==
    /\ feeding
    /\ rest # <<>>
    /\ Head(rest) = "lead" => pending
    /\ pending' = (Head(rest) = "lead")
    /\ rest' = IF pending /\ ~Multibyte(Head(rest)) THEN rest ELSE Tail(rest)
    /\ UNCHANGED <<feeding, steps, flushEvents, closed, leftover, stream>>

-----------------------------------------------------------------------------
(* _feed_char, branch by branch. *)

Silent == UNCHANGED <<view, anomalies, events>>

Raise(e) ==
    /\ view' = e.after
    /\ events' = Append(events, e)
    /\ anomalies' = IF e.anomaly THEN Append(anomalies, e) ELSE anomalies

PlainChar ==
    /\ Consume
    /\ buf = <<>> /\ Char # "<"
    /\ plain' = Append(plain, Char)
    /\ UNCHANGED buf
    /\ Silent

OpenBuffer ==
    /\ Consume
    /\ buf = <<>> /\ Char = "<"
    /\ buf' = <<"<">>
    /\ UNCHANGED plain
    /\ Silent

\* The character after "<" decides whether it can be a tag.
StartTag ==
    /\ Consume
    /\ Len(buf) = 1 /\ Char \in Letters \cup {"/"}
    /\ buf' = Append(buf, Char)
    /\ UNCHANGED plain
    /\ Silent

\* Mutant: a second "<" is text like any other character.
NoRestart == <<>>

\* What stays in the buffer when a second "<" follows the first.
Restart == <<"<">>

NotATag ==
    /\ Consume
    /\ Len(buf) = 1 /\ Char \notin Letters \cup {"/"}
    /\ IF Char = "<"
       THEN /\ plain' = Append(plain, "<")
            /\ buf' = Restart
       ELSE /\ plain' = plain \o <<"<", Char>>
            /\ buf' = <<>>
    /\ Silent

\* Mutants: the limit is one too high; an overflowing buffer is thrown away.
OverflowsLate == Len(buf) > MaxTagBuffer
GivenUpLost(text) == text

\* One more character would not fit.
Overflows == Len(buf) >= MaxTagBuffer

\* An unclosed tag turns out to be text.
GivenUp(text) == text \o buf

Extend ==
    /\ Consume
    /\ Len(buf) > 1 /\ Char # ">" /\ ~Overflows
    /\ buf' = Append(buf, Char)
    /\ UNCHANGED plain
    /\ Silent

CloseTag ==
    /\ Consume
    /\ Len(buf) > 1 /\ Char = ">"
    /\ Raise(TagEvent(Tail(buf), view))
    /\ buf' = <<>>
    /\ UNCHANGED plain

Overflow ==
    /\ Consume
    /\ Len(buf) > 1 /\ Char # ">" /\ Overflows
    /\ Raise(UnclosedEvent(Append(Tail(buf), Char), view))
    /\ plain' = Append(GivenUp(plain), Char)
    /\ buf' = <<>>

FeedChar ==
    \/ PlainChar
    \/ OpenBuffer
    \/ StartTag
    \/ NotATag
    \/ Extend
    \/ CloseTag
    \/ Overflow

-----------------------------------------------------------------------------
\* Mutant: the record holds the view of the step before.
RecordedBefore == IF events = <<>> THEN view ELSE events[1].before

\* The view a step record keeps.
Recorded == view

\* feed_generated_token appends the step record.
EndToken ==
    /\ feeding
    /\ rest = <<>>
    /\ feeding' = FALSE
    /\ steps' = Append(steps, [view |-> Recorded, events |-> events])
    /\ events' = <<>>
    /\ UNCHANGED <<parserVars, pending, rest, flushEvents, closed, leftover, stream>>

\* The events of flush(): an incomplete tag is one.
Flushed == IF buf = <<>> THEN <<>> ELSE <<UnclosedEvent(Tail(buf), view)>>

\* The generation ends: the decoder is flushed into the trace, then the parser.
Finish ==
    /\ ~closed
    /\ ~feeding
    /\ closed' = TRUE
    /\ leftover' = IF pending THEN <<"text">> ELSE <<>>
    /\ pending' = FALSE
    /\ flushEvents' = Flushed
    /\ anomalies' = IF buf = <<>> THEN anomalies
                    ELSE Append(anomalies, UnclosedEvent(Tail(buf), view))
    /\ plain' = plain \o buf
    /\ buf' = <<>>
    /\ UNCHANGED <<view, feeding, rest, events, steps, stream>>

Next ==
    \/ \E tok \in Tokens : Sample(tok)
    \/ HoldLead
    \/ FeedChar
    \/ EndToken
    \/ Finish

Spec == Init /\ [][Next]_vars

-----------------------------------------------------------------------------
(* Properties. *)

\* What the first n tokens say, decoded as one piece.
TextOf(n) == Decode(FlattenSeq(SubSeq(stream, 1, n)))

\* Parse at t, effect at t+1: the record of each token holds the view that the
\* whole text up to and including that token declares, wherever the tokens cut
\* tags and characters (feed_generated_token, _feed_char, _close).
StepViewsFollowText ==
    \A t \in DOMAIN steps : steps[t].view = Meaning(TextOf(t))

\* No character is lost, repeated or moved: the plain text and the open tag are
\* the decoded text without its closed tags (_feed_char with its three ways of
\* giving a "<" back, flush).
TextConserved ==
    ~feeding => plain \o buf = Outside(TextOf(Len(stream)))

Attempts(evs) == {i \in DOMAIN evs : evs[i].attempt}
AllEvents == FlattenSeq([t \in DOMAIN steps |-> steps[t].events]) \o events \o flushEvents

\* focus_stats: each call of focus in the generated text is counted once, closed
\* or not, split or not, overflowing or not.
AttemptsCounted ==
    closed => Cardinality(Attempts(AllEvents))
                = Cardinality(FocusCalls(TextOf(Len(stream))))

TracedEvents ==
    (UNION {ToSet(steps[t].events) : t \in DOMAIN steps})
      \cup ToSet(events) \cup ToSet(flushEvents)

\* The anomalies the parser keeps are those in the trace, the one found at the
\* end of the generation included (finish, _all_events).
AnomaliesTraced == ToSet(anomalies) = {e \in TracedEvents : e.anomaly}

\* An anomaly keeps the view: no void declaration takes effect in part, and none
\* falls back to the global view (_anomaly).
AnomalyKeepsView == \A e \in TracedEvents : e.anomaly => e.before = e.after

WellFormed(v) == v.mode = "focus" <=> v.refs # {}

\* A view that a forward can be planned with has references exactly if it is a
\* focus view, and all of them to existing segments (_transition, _close).
FocusIsValid ==
    /\ WellFormed(view)
    /\ \A t \in DOMAIN steps : WellFormed(steps[t].view)

\* The buffer holds an open tag and never more than the limit.
BufferIsOpenTag ==
    /\ Len(buf) <= MaxTagBuffer
    /\ buf # <<>> => buf[1] = "<"
    /\ ">" \notin ToSet(buf)
    /\ closed => buf = <<>>

-----------------------------------------------------------------------------
(* The inductive invariant. *)

InvBetween ==
    /\ ~feeding => rest = <<>> /\ events = <<>>
    /\ closed => ~feeding
    /\ ~closed => flushEvents = <<>>

\* Parser and trace agree with each other.
TraceInv ==
    /\ TypeOK
    /\ InvBetween
    /\ BufferIsOpenTag
    /\ FocusIsValid
    /\ AnomalyKeepsView
    /\ AnomaliesTraced

\* The tags of a text that its end leaves open; the last character may open one;
\* the last of the tags is open.
Unended(text) == {k \in Openings(text) : EndOf(text, k) > Len(text)}

Fresh(text) ==
    /\ Len(text) >= 1 /\ text[Len(text)] = "<"
    /\ \A k \in Openings(text) : EndOf(text, k) < Len(text)

LastOpen(text, k) ==
    /\ k \in Unended(text)
    /\ \A i \in Openings(text) : i # k => EndOf(text, i) < k

\* b is what the parser has to hold back after the text.
OpenIn(text, b) ==
    /\ b = <<>> => Unended(text) = {} /\ ~Fresh(text)
    /\ Len(b) = 1 => b = <<"<">> /\ Fresh(text)
    /\ Len(b) > 1 => \E k \in Unended(text) :
                        LastOpen(text, k) /\ b = SubSeq(text, k, Len(text))

\* The parser after the text: b in its buffer, p outside the tags, the view v.
Reads(text, b, v, p) ==
    /\ b \in Seq(Chars) /\ p \in Seq(Chars)
    /\ v = Meaning(text)
    /\ p \o b = Outside(text)
    /\ OpenIn(text, b)

\* The bytes that the decoder has taken, and the characters it gave for them: a
\* lead byte that the next byte does not continue is out before that byte is taken.
Sampled == FlattenSeq(stream)
Fed == SubSeq(Sampled, 1, Len(Sampled) - Len(rest))
EndsInLead(bytes) == bytes # <<>> /\ bytes[Len(bytes)] = "lead"

Heard ==
    IF ~pending /\ rest # <<>> /\ EndsInLead(Fed) THEN Append(Decode(Fed), "text")
    ELSE Decode(Fed)

DecoderInv ==
    /\ Len(stream) = Len(steps) + (IF feeding THEN 1 ELSE 0)
    /\ Sampled = Fed \o rest
    /\ pending => EndsInLead(Fed)
    /\ ~pending /\ ~closed /\ EndsInLead(Fed) => rest # <<>> /\ ~Multibyte(Head(rest))

ParserInv ==
    /\ ~closed => Reads(Heard, buf, view, plain)
    /\ closed  => plain = Outside(Heard)

\* The calls of focus whose tag is closed or given up.
EndedCalls(text) == {k \in FocusCalls(text) : EndOf(text, k) <= Len(text)}

AttemptsInv ==
    Cardinality(Attempts(AllEvents))
      = Cardinality(IF closed THEN FocusCalls(Heard) ELSE EndedCalls(Heard))

\* Parser and trace agree with the text.
TextInv ==
    /\ DecoderInv
    /\ ParserInv
    /\ AttemptsInv
    /\ StepViewsFollowText

ProtocolInv == TraceInv /\ TextInv

-----------------------------------------------------------------------------
(* What the parser's comments say of tags it cannot read. *)

\* What counts as a call of focus while the tag is open still counts when it is
\* closed: names that can be recognised keep their anomaly (_close,
\* _name_of_incomplete).
AttemptNotLost ==
    [][CloseTag /\ IsFocusCall(Tail(buf)) => Last(events').attempt]_vars
=============================================================================
