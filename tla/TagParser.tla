----------------------------- MODULE TagParser -----------------------------
(***************************************************************************)
(* What a closed tag of a generated stream means to the tag parser         *)
(* (parser.py).  At the end, the independent definition of what a whole    *)
(* stream says.                                                            *)
(*                                                                         *)
(* A character of the model is a lexeme: a delimiter, the name of a tag, a *)
(* blank with a complete attribute, or any other text.  The parser never   *)
(* looks inside one before the tag that holds it is closed, overflows or   *)
(* is cut off by the end, so where a lexeme is split between two tokens    *)
(* makes no difference to it.                                              *)
(***************************************************************************)
EXTENDS Naturals, Sequences, FiniteSets, FiniteSetsExt, SequencesExt

CONSTANTS
    NumSegments,    \* segments a focus tag can refer to: 1..NumSegments
    MaxTagBuffer,   \* most lexemes a tag that is not closed yet can have
    Lists,          \* the well-formed magic_chunks attributes
    RefsOf          \* RefsOf[l]: the numbers the attribute l lists

Names   == {"focus", "local", "global", "answer"}     \* KNOWN_TAGS
Letters == Names \cup {"word"}
Attrs   == Lists \cup {"bad", "other"}                \* with the blank before them
Blanks  == {"blank"} \cup Attrs
Chars   == {"<", ">", "/", "text"} \cup Letters \cup Blanks

\* A character of two bytes is enough to have one split between tokens.
Bytes == Chars \cup {"lead", "cont"}

ASSUME ParserAssumption ==
    /\ NumSegments \in Nat
    /\ MaxTagBuffer \in Nat /\ MaxTagBuffer >= 2
    /\ Lists \cap ({"<", ">", "/", "text", "blank", "bad", "other", "lead", "cont"}
                     \cup Letters) = {}
    /\ RefsOf \in [Lists -> SUBSET Nat]
    /\ \A l \in Lists : RefsOf[l] # {}

GlobalView == [mode |-> "global", refs |-> {}]
LocalView  == [mode |-> "local", refs |-> {}]
FocusView(R) == [mode |-> "focus", refs |-> R]
View == [mode : {"global", "local", "focus"}, refs : SUBSET (1..NumSegments)]

-----------------------------------------------------------------------------
(* _close: the tag between "<" and ">". *)

Closing(inner) == inner # <<>> /\ inner[1] = "/"
Body(inner) == IF Closing(inner) THEN Tail(inner) ELSE inner

\* How many leading lexemes belong to the name: [a-z][a-z0-9_]*.
NameLen(body) ==
    LET ends == {i \in DOMAIN body : body[i] \notin Letters}
    IN  IF ends = {} THEN Len(body) ELSE Min(ends) - 1

\* The name, "word" for every name that is not known, "" for none.
NameOf(inner) ==
    LET body == Body(inner)
    IN  CASE NameLen(body) = 0 -> ""
          [] NameLen(body) = 1 -> body[1]
          [] OTHER -> "word"

AfterName(inner) ==
    LET body == Body(inner) IN SubSeq(body, NameLen(body) + 1, Len(body))

\* _TAG_RE and _LOOSE_TAG_RE, after the name.
Regular(rest) == ToSet(rest) \subseteq Blanks
Loose(rest)   == rest = <<>> \/ rest[1] \in Blanks

\* The attributes: where they are after the name, and which they are.
Pairs(inner) == {i \in DOMAIN AfterName(inner) : AfterName(inner)[i] \in Attrs}
Given(inner) == {AfterName(inner)[i] : i \in Pairs(inner)}
Refs(inner)  == UNION {RefsOf[a] : a \in Given(inner)}

\* _name_of_incomplete: would an unclosed tag count as a call of focus?
IsFocusCall(inner) == NameOf(inner) = "focus" /\ ~Closing(inner)

ValidRefs(inner) == Refs(inner) \subseteq 1..NumSegments

\* The attributes of a good focus tag: exactly one list of existing segments.
GoodFocus(inner) ==
    /\ Cardinality(Pairs(inner)) = 1
    /\ Given(inner) \subseteq Lists
    /\ ValidRefs(inner)

\* A closing tag must name the current mode; that of an answer always may come.
Mismatched(inner, v) ==
    Closing(inner) /\ NameOf(inner) \notin {"answer", v.mode}

\* unknown_tag: no name of the protocol, or something else glued to it.
Unknown(inner) == NameOf(inner) \notin Names \/ ~Loose(AfterName(inner))

\* The closed tag is an anomaly; which of the reasons it gets is left out.
Void(inner, v) ==
    \/ Unknown(inner)
    \/ ~Regular(AfterName(inner))
    \/ IsFocusCall(inner) /\ ~GoodFocus(inner)
    \/ ~IsFocusCall(inner) /\ (Pairs(inner) # {} \/ Mismatched(inner, v))

\* Mutant: </focus> and </local> leave the references behind.
DeclaredKeepsRefs(inner, v) ==
    CASE NameOf(inner) \in {"answer", "global"} -> v
      [] NameOf(inner) \in {"local", "focus"} /\ Closing(inner) ->
           [v EXCEPT !.mode = "global"]
      [] NameOf(inner) = "local" /\ ~Closing(inner) -> LocalView
      [] OTHER -> FocusView(Refs(inner))

\* The view after a tag without anomaly.
Declared(inner, v) ==
    CASE NameOf(inner) \in {"answer", "global"} -> v
      [] NameOf(inner) \in {"local", "focus"} /\ Closing(inner) -> GlobalView
      [] NameOf(inner) = "local" /\ ~Closing(inner) -> LocalView
      [] OTHER -> FocusView(Refs(inner))

AfterTag(inner, v) == IF Void(inner, v) THEN v ELSE Declared(inner, v)

Event == [anomaly : BOOLEAN, attempt : BOOLEAN, before : View, after : View]

TagEvent(inner, v) ==
    [anomaly |-> Void(inner, v),
     attempt |-> IsFocusCall(inner) /\ ~Unknown(inner),
     before  |-> v,
     after   |-> AfterTag(inner, v)]

\* tag_buffer_overflow and incomplete_tag: a tag that never got its ">".
UnclosedEvent(inner, v) ==
    [anomaly |-> TRUE, attempt |-> IsFocusCall(inner), before |-> v, after |-> v]

-----------------------------------------------------------------------------
(* What a whole stream means, without decoder and parser: its characters,    *)
(* where its tags are, and the declarations of the protocol among them.      *)

\* What a sequence holds at the positions K, in their order.
Kept(s, K) ==
    LET upTo[n \in 0..Len(s)] ==
            IF n = 0 THEN <<>>
            ELSE IF n \in K THEN Append(upTo[n - 1], s[n])
            ELSE upTo[n - 1]
    IN  upTo[Len(s)]

\* reference_decode: nothing comes out for a lead byte that its continuation
\* follows or may still follow; a byte that fits nowhere is replaced.
Held(bytes, i) == bytes[i] = "lead" /\ (i = Len(bytes) \/ bytes[i + 1] = "cont")

Decode(bytes) ==
    LET out == [i \in DOMAIN bytes |->
                  IF bytes[i] \in {"lead", "cont"} THEN "text" ELSE bytes[i]]
    IN  Kept(out, {i \in DOMAIN bytes : ~Held(bytes, i)})

\* Position where the tag that opens at k is closed or given up.
EndOf(text, k) ==
    Min({j \in (k + 1)..Len(text) : text[j] = ">"} \cup {k + MaxTagBuffer})

\* The positions where a tag opens: not inside an earlier one.
Openings(text) ==
    LET opens[k \in 1..Len(text)] ==
            /\ text[k] = "<"
            /\ k < Len(text) /\ text[k + 1] \in Letters \cup {"/"}
            /\ \A i \in 1..(k - 1) : opens[i] => EndOf(text, i) < k
    IN  {k \in 1..Len(text) : opens[k]}

\* The closed ones.
Tags(text) ==
    {k \in Openings(text) : EndOf(text, k) <= Len(text) /\ text[EndOf(text, k)] = ">"}

Inner(text, k) == SubSeq(text, k + 1, EndOf(text, k) - 1)

\* The legal declarations and what they do to a view; anything else does nothing.
Declaration(inner, v) ==
    LET words == Kept(inner, {i \in DOMAIN inner : inner[i] # "blank"})
    IN  CASE words = <<"local">> -> LocalView
          [] words = <<"/", v.mode>> /\ inner[2] = v.mode -> GlobalView
          [] \E l \in Lists : words = <<"focus", l>> /\ RefsOf[l] \subseteq 1..NumSegments
               -> FocusView(RefsOf[words[2]])
          [] OTHER -> v

Meaning(text) ==
    LET tags == Tags(text)
        at[n \in 0..Len(text)] ==
            IF n = 0 THEN GlobalView
            ELSE LET closed == {k \in tags : EndOf(text, k) = n}
                 IN  IF closed = {} THEN at[n - 1]
                     ELSE Declaration(Inner(text, Min(closed)), at[n - 1])
    IN  at[Len(text)]

\* The text with its closed tags cut out.
Outside(text) ==
    LET tags == Tags(text)
    IN  Kept(text, {i \in DOMAIN text : \A k \in tags : i < k \/ EndOf(text, k) < i})

\* The calls of focus in a finished text: an opening tag of that name, closed or
\* not; closed, its name must be followed by a blank or the end.
FocusCalls(text) ==
    {k \in Openings(text) :
        /\ text[k + 1] = "focus"
        /\ k + 2 <= Len(text) =>
              /\ text[k + 2] \notin Letters
              /\ k \in Tags(text) => text[k + 2] \in Blanks \cup {">"}}
=============================================================================
