------------------------ MODULE ClientStreamsProofs ------------------------
(***************************************************************************)
(* Proofs about ClientStreams, for streams of any length and a buffer of   *)
(* any size.                                                               *)
(***************************************************************************)
EXTENDS ClientStreams, Induction, FiniteSetTheorems, TLAPS

USE DEF Tools, NoTool, Spelled

-----------------------------------------------------------------------------
(* Sequences.                                                              *)

\* What is there on a condition.
LEMMA WhenIs ==
    /\ \A seq : When(TRUE, seq) = seq
    /\ \A seq : When(FALSE, seq) = <<>>
BY DEF When

\* One sequence after another, element by element.
LEMMA Joined ==
    ASSUME NEW S, NEW s \in Seq(S), NEW t \in Seq(S)
    PROVE  /\ s \o t \in Seq(S)
           /\ Len(s \o t) = Len(s) + Len(t)
           /\ \A i \in 1 .. Len(s) : (s \o t)[i] = s[i]
           /\ \A i \in 1 .. Len(t) : (s \o t)[Len(s) + i] = t[i]
OBVIOUS

\* Two sequences with the same elements are the same.
LEMMA SameSeq ==
    ASSUME NEW S, NEW s \in Seq(S), NEW t \in Seq(S), Len(s) = Len(t),
           \A i \in 1 .. Len(s) : s[i] = t[i]
    PROVE  s = t
OBVIOUS

LEMMA JoinedNone ==
    ASSUME NEW S, NEW s \in Seq(S)
    PROVE  s \o <<>> = s /\ <<>> \o s = s
OBVIOUS

LEMMA JoinedTwice ==
    ASSUME NEW S, NEW s \in Seq(S), NEW t \in Seq(S), NEW u \in Seq(S)
    PROVE  s \o (t \o u) = (s \o t) \o u
OBVIOUS

\* The same, as a fact about three sequences that one may quote.
InTurn(w, a, b) == w \o (a \o b) = (w \o a) \o b

LEMMA JoinedInTurn ==
    ASSUME NEW S, NEW w \in Seq(S), NEW a \in Seq(S), NEW b \in Seq(S)
    PROVE  InTurn(w, a, b)
<1>1. w \o (a \o b) = (w \o a) \o b
  OBVIOUS
<1> QED
  BY <1>1 DEF InTurn

LEMMA JoinedOne ==
    ASSUME NEW S, NEW s \in Seq(S), NEW e \in S
    PROVE  s \o <<e>> = Append(s, e)
OBVIOUS

LEMMA Pair ==
    ASSUME NEW S, NEW a \in S, NEW b \in S
    PROVE  /\ <<a, b>> = <<a>> \o <<b>>
           /\ <<a>> \in Seq(S) /\ <<b>> \in Seq(S)
<1> DEFINE s == <<a>> \o <<b>>
           t == <<a, b>>
<1>1. <<a>> \in Seq(S) /\ <<b>> \in Seq(S)
  OBVIOUS
<1>2. s \in Seq(S) /\ t \in Seq(S)
  OBVIOUS
<1>3. Len(s) = 2 /\ Len(t) = 2
  OBVIOUS
<1>4. s[1] = a
  OBVIOUS
<1>5. s[2] = b
  OBVIOUS
<1>6. t[1] = a /\ t[2] = b
  OBVIOUS
<1>7. \A i \in 1 .. 2 : i = 1 \/ i = 2
  OBVIOUS
<1> HIDE DEF s, t
<1>8. s = t
  BY <1>2, <1>3, <1>4, <1>5, <1>6, <1>7, SameSeq
<1> QED
  BY <1>1, <1>8 DEF s, t

\* A part of a sequence.
LEMMA Part ==
    ASSUME NEW S, NEW s \in Seq(S), NEW i \in 1 .. Len(s), NEW j \in 1 .. Len(s)
    PROVE  SubSeq(s, i, j) \in Seq(S)
OBVIOUS
-----------------------------------------------------------------------------
(* Chunks.                                                                 *)

\* A chunk is a piece of reasoning, text, a tool call, or nothing; reasoning is
\* not the last of a stream.
OneThing(c) ==
    /\ c \in Chunk
    /\ c.reasoning => ~c.content /\ c.tool = NoTool /\ ~c.done
    /\ c.content => c.tool = NoTool /\ c.text \in Seq(Texts)

\* A chunk of an upstream of its kind.  Without the tools its calls have no
\* number, and all it says is text.
OfKind(c, given) ==
    /\ OneThing(c)
    /\ given => c.tool # Spelled
    /\ ~given => c.tool \in {NoTool, Spelled} /\ c.text \in Seq(Texts)

\* What a step yields.
Yield(s, given) == s = <<>> \/ \E c : s = <<c>> /\ OfKind(c, given)

LEMMA YieldTyped ==
    ASSUME NEW s, NEW given, Yield(s, given)
    PROVE  s \in Seq(Chunk) /\ Len(s) <= 1
<1>1. CASE s = <<>>
  BY <1>1
<1>2. ASSUME NEW c \in Chunk, s = <<c>> PROVE s \in Seq(Chunk) /\ Len(s) <= 1
  <2> HIDE DEF Chunk
  <2> QED
    BY <1>2
<1> QED
  BY <1>1, <1>2 DEF Yield, OfKind, OneThing

\* A chunk by its fields.
Fields(c) ==
    /\ c = [reasoning |-> c.reasoning, content |-> c.content, tool |-> c.tool,
            text |-> c.text, done |-> c.done]
    /\ c.reasoning \in BOOLEAN /\ c.content \in BOOLEAN /\ c.done \in BOOLEAN
    /\ c.tool \in Tools \cup {NoTool, Spelled}
    /\ c.text \in Seq(Texts \cup {"args"})

LEMMA FieldsMake ==
    ASSUME NEW c, Fields(c)
    PROVE  c \in Chunk
<1> DEFINE T == Tools \cup {NoTool, Spelled}
           X == Seq(Texts \cup {"args"})
<1>1. Chunk = [reasoning : BOOLEAN, content : BOOLEAN, tool : T, text : X,
               done : BOOLEAN]
  BY DEF Chunk
<1>2. c.tool \in T /\ c.text \in X
  BY DEF Fields
<1> HIDE DEF T, X
<1> QED
  BY <1>1, <1>2 DEF Fields

\* The chunks the parser makes.
LEMMA ParsedKinds ==
    ASSUME SseParserAssumption, NEW given \in BOOLEAN
    PROVE  /\ \A done \in BOOLEAN : OfKind(Bare(done), given)
           /\ OfKind(ReasoningChunk, given)
           /\ \A text \in Seq(Texts), done \in BOOLEAN :
                OfKind(TextChunk(text, done), given)
<1>1. <<>> \in Seq(Texts \cup {"args"}) /\ <<>> \in Seq(Texts)
  OBVIOUS
<1>2. NoTool \in Tools \cup {NoTool, Spelled} /\ NoTool # Spelled
  BY DEF SseParserAssumption
<1>3. ASSUME NEW done \in BOOLEAN PROVE OfKind(Bare(done), given)
  <2> SUFFICES ASSUME NEW c, c = Bare(done) PROVE OfKind(c, given)
    OBVIOUS
  <2>1. c = [reasoning |-> FALSE, content |-> FALSE, tool |-> NoTool, text |-> <<>>,
             done |-> done]
    BY DEF Bare
  <2>2. /\ c.reasoning = FALSE /\ c.content = FALSE /\ c.tool = NoTool /\ c.text = <<>>
        /\ c.done = done
    BY <2>1
  <2>3. c \in Chunk
    BY <1>1, <1>2, <2>1, <2>2, FieldsMake DEF Fields
  <2> QED
    BY <1>1, <1>2, <2>2, <2>3 DEF OfKind, OneThing
<1>4. OfKind(ReasoningChunk, given)
  <2> SUFFICES ASSUME NEW c, c = ReasoningChunk PROVE OfKind(c, given)
    OBVIOUS
  <2>1. c = [reasoning |-> TRUE, content |-> FALSE, tool |-> NoTool, text |-> <<>>,
             done |-> FALSE]
    BY DEF Bare, ReasoningChunk
  <2>2. /\ c.reasoning = TRUE /\ c.content = FALSE /\ c.tool = NoTool /\ c.text = <<>>
        /\ c.done = FALSE
    BY <2>1
  <2>3. c \in Chunk
    BY <1>1, <1>2, <2>1, <2>2, FieldsMake DEF Fields
  <2> QED
    BY <1>1, <1>2, <2>2, <2>3 DEF OfKind, OneThing
<1>5. ASSUME NEW text \in Seq(Texts), NEW done \in BOOLEAN
      PROVE  OfKind(TextChunk(text, done), given)
  <2> SUFFICES ASSUME NEW c, c = TextChunk(text, done) PROVE OfKind(c, given)
    OBVIOUS
  <2>1. c = [reasoning |-> FALSE, content |-> TRUE, tool |-> NoTool, text |-> text,
             done |-> done]
    BY DEF Bare, TextChunk
  <2>2. text \in Seq(Texts \cup {"args"})
    OBVIOUS
  <2>3. /\ c.reasoning = FALSE /\ c.content = TRUE /\ c.tool = NoTool /\ c.text = text
        /\ c.done = done
    BY <2>1
  <2>4. c \in Chunk
    BY <1>2, <2>1, <2>2, <2>3, FieldsMake DEF Fields
  <2> QED
    BY <1>2, <2>3, <2>4 DEF OfKind, OneThing
<1> QED
  BY <1>3, <1>4, <1>5

\* A call, whoever spelled it.
Call(tool, text, done) == [Bare(done) EXCEPT !.tool = tool, !.text = text]

LEMMA CallKind ==
    ASSUME SseParserAssumption, NEW given \in BOOLEAN, NEW done \in BOOLEAN,
           NEW tool \in IF given THEN Tools \cup {NoTool} ELSE {NoTool, Spelled},
           NEW text \in Seq(Texts \cup {"args"}), ~given => text \in Seq(Texts)
    PROVE  OfKind(Call(tool, text, done), given)
<1> SUFFICES ASSUME NEW c, c = Call(tool, text, done) PROVE OfKind(c, given)
  OBVIOUS
<1>1. c = [reasoning |-> FALSE, content |-> FALSE, tool |-> tool, text |-> text,
           done |-> done]
  BY DEF Bare, Call
<1>2. /\ tool \in Tools \cup {NoTool, Spelled}
      /\ given => tool # Spelled
      /\ ~given => tool \in {NoTool, Spelled}
  BY DEF SseParserAssumption
<1>3. /\ c.reasoning = FALSE /\ c.content = FALSE /\ c.tool = tool /\ c.text = text
      /\ c.done = done
  BY <1>1
<1>4. c \in Chunk
  BY <1>1, <1>2, <1>3, FieldsMake DEF Fields
<1> QED
  BY <1>2, <1>3, <1>4 DEF OfKind, OneThing

-----------------------------------------------------------------------------
(* The parser.                                                             *)

\* The parser's variables but what the last step yielded; an upstream without
\* the tools calls none.
ParserInv ==
    /\ native \in BOOLEAN
    /\ upstream \in {"open", "ending", "done", "over", "closed"}
    /\ pieces \in Nat
    /\ tools \in 0 .. MaxTools
    /\ half \subseteq 1 .. tools
    /\ pending \in [tool : Tools \cup {NoTool}, args : {"half", "whole", "garbled"}]
    /\ said \in Seq(Uttered)
    /\ lost \subseteq 1 .. tools
    /\ spoilt \subseteq 1 .. tools
    /\ cut \in BOOLEAN
    /\ ~native => /\ pending = NoPending
                  /\ tools = 0 /\ half = {} /\ lost = {} /\ spoilt = {}

\* The call held back is of the upstream's kind.
LEMMA FlushedKind ==
    ASSUME SseParserAssumption, ParserInv, NEW done \in BOOLEAN
    PROVE  OfKind(Flushed(done), native)
<1>1. Flushed(done)
        = Call(pending.tool, IF pending.args = "whole" THEN <<"args">> ELSE <<>>, done)
  BY DEF Flushed, Call
<1>2. pending.tool \in IF native THEN Tools \cup {NoTool} ELSE {NoTool, Spelled}
  BY DEF ParserInv, NoPending
<1>3. ~native => pending.args # "whole"
  BY DEF ParserInv, NoPending
<1>4. <<>> \in Seq(Texts \cup {"args"}) /\ <<>> \in Seq(Texts)
  OBVIOUS
<1>5. <<"args">> \in Seq(Texts \cup {"args"})
  OBVIOUS
<1>6. native \in BOOLEAN
  BY DEF ParserInv
<1> QED
  BY <1>1, <1>2, <1>3, <1>4, <1>5, <1>6, CallKind

Reads == Parses \/ ReportsError \/ Breaks \/ Closes

\* A chunk of the parser's has at most one piece of text.
Short(s) == \A c : s = <<c>> => Len(c.text) <= 1

LEMMA ShortParsed ==
    ASSUME ParserInv, Reads
    PROVE  Short(parsed')
<1>1. parsed' \in {<<>>, <<ReasoningChunk>>, <<Bare(FALSE)>>}
      => Short(parsed')
  BY DEF Short, Bare, ReasoningChunk
<1>2. ASSUME NEW text PROVE Short(<<TextChunk(<<text>>, FALSE)>>)
  <2> SUFFICES ASSUME NEW c, c = TextChunk(<<text>>, FALSE) PROVE Len(c.text) <= 1
    BY DEF Short
  <2> DEFINE t == <<text>>
  <2>1. c.text = t
    BY DEF TextChunk, Bare
  <2>2. Len(t) <= 1
    OBVIOUS
  <2> HIDE DEF t
  <2> QED
    BY <2>1, <2>2
<1>3. ASSUME NEW done PROVE Short(<<Flushed(done)>>)
  <2> DEFINE args == IF pending.args = "whole" THEN <<"args">> ELSE <<>>
  <2> SUFFICES ASSUME NEW c, c = Flushed(done) PROVE Len(c.text) <= 1
    BY DEF Short
  <2>1. c = [Bare(done) EXCEPT !.tool = pending.tool, !.text = args]
    BY DEF Flushed
  <2>2. Len(args) <= 1
    OBVIOUS
  <2> HIDE DEF args
  <2>3. c.text = args
    BY <2>1 DEF Bare
  <2> QED
    BY <2>2, <2>3
<1> QED
  BY <1>1, <1>2, <1>3 DEF Reads, Parses, Reason, Write, ToolBegins,
    ToolGoesOn, Usage, Done, FlushAtEnd, ReportsError, Breaks, Closes, When

\* What a delta loses changes the calls as follows: a call more that was lost, or
\* a fragment less, whose call is spoilt.
LEMMA UnheardIs ==
    ASSUME NEW n \in Nat, NEW h \in SUBSET (1 .. n), NEW s \in SUBSET (1 .. n),
           lost \subseteq 1 .. n, Unheard(n, h, s)
    PROVE  /\ tools' \in Nat /\ n <= tools'
           /\ MaxTools \in Nat /\ n <= MaxTools => tools' <= MaxTools
           /\ half' \subseteq 1 .. tools' /\ spoilt' \subseteq 1 .. tools'
           /\ lost' \subseteq 1 .. tools' /\ lost \subseteq lost'
           /\ (1 .. tools') \ lost' = (1 .. n) \ lost
           /\ \A t \in 1 .. n : /\ t \in half' \cup spoilt' <=> t \in h \cup s
                                /\ t \in half' => t \in h /\ (t \in spoilt' <=> t \in s)
           /\ ~native => tools' = n /\ lost' = lost /\ (h = {} => half' = h /\ spoilt' = s)
<1>1. CASE tools' = n /\ half' = h /\ spoilt' = s /\ lost' = lost
  BY <1>1
<1>2. CASE /\ native /\ n < MaxTools /\ tools' = n + 1 /\ half' \in {h, h \cup {n + 1}}
           /\ spoilt' = s /\ lost' = lost \cup {n + 1}
  <2>1. 1 .. tools' = (1 .. n) \cup {n + 1} /\ n + 1 \notin 1 .. n
    BY <1>2
  <2>2. tools' \in Nat /\ n <= tools' /\ (MaxTools \in Nat /\ n <= MaxTools => tools' <= MaxTools)
    BY <1>2
  <2> QED
    BY <1>2, <2>1, <2>2
<1>3. ASSUME NEW t \in half \cap h, tools' = n, half' = h \ {t},
             spoilt' = s \cup {t}, lost' = lost
      PROVE  /\ tools' \in Nat /\ n <= tools'
             /\ MaxTools \in Nat /\ n <= MaxTools => tools' <= MaxTools
             /\ half' \subseteq 1 .. tools' /\ spoilt' \subseteq 1 .. tools'
             /\ lost' \subseteq 1 .. tools' /\ lost \subseteq lost'
             /\ (1 .. tools') \ lost' = (1 .. n) \ lost
             /\ \A u \in 1 .. n :
                  /\ u \in half' \cup spoilt' <=> u \in h \cup s
                  /\ u \in half' => u \in h /\ (u \in spoilt' <=> u \in s)
             /\ ~native =>
                  tools' = n /\ lost' = lost /\ (h = {} => half' = h /\ spoilt' = s)
  <2>1. t \in 1 .. n /\ t \in h /\ h # {}
    BY <1>3
  <2>2. half' \subseteq 1 .. n /\ spoilt' \subseteq 1 .. n
    BY <1>3, <2>1
  <2>3. ASSUME NEW u \in 1 .. n
        PROVE  /\ u \in half' \cup spoilt' <=> u \in h \cup s
               /\ u \in half' => u \in h /\ (u \in spoilt' <=> u \in s)
    BY <1>3, <2>1
  <2> QED
    BY <1>3, <2>1, <2>2, <2>3
<1> QED
  BY <1>1, <1>2, <1>3 DEF Unheard

\* The call whose beginning was the last to be heard is the greatest of them.
LEMMA LatestIs ==
    ASSUME tools \in Nat
    PROVE  /\ (1 .. tools) \subseteq lost => Latest = NoTool
           /\ ~((1 .. tools) \subseteq lost) =>
                /\ Latest \in (1 .. tools) \ lost
                /\ \A k \in (1 .. tools) \ lost : k <= Latest
<1> DEFINE heard == (1 .. tools) \ lost
           S == {tools - k : k \in heard}
<1>1. ASSUME heard # {}
      PROVE  \E t \in heard : \A k \in heard : k <= t
  <2>1. S \subseteq Nat /\ S # {}
    BY <1>1
  <2>2. PICK n \in S : \A m \in S : n <= m
    <3> HIDE DEF S
    <3> QED
      BY <2>1, Least
  <2>3. PICK t \in heard : n = tools - t
    BY <2>2
  <2>4. ASSUME NEW k \in heard PROVE k <= t
    <3>1. tools - k \in S
      OBVIOUS
    <3>2. n <= tools - k
      BY <2>2, <3>1
    <3> QED
      BY <2>3, <3>2
  <2> QED
    BY <2>4
<1> HIDE DEF heard
<1>2. Latest = IF heard = {} THEN NoTool ELSE CHOOSE t \in heard : \A k \in heard : k <= t
  BY DEF Latest, heard
<1>3. heard # {} => Latest \in heard /\ \A k \in heard : k <= Latest
  BY <1>1, <1>2, Zenon
<1>4. (1 .. tools) \subseteq lost <=> heard = {}
  BY DEF heard
<1>5. heard = {} => Latest = NoTool
  BY <1>2
<1>6. CASE heard = {}
  BY <1>4, <1>5, <1>6
<1>7. CASE heard # {}
  BY <1>3, <1>4, <1>7 DEF heard
<1> QED
  BY <1>6, <1>7

\* The calls a fragment spoils are calls.
LEMMA SpoilsAre ==
    ASSUME tools \in Nat, NEW t \in 1 .. tools
    PROVE  Spoils(t) \subseteq 1 .. tools
<1>1. Latest = NoTool \/ Latest \in 1 .. tools
  BY LatestIs
<1> QED
  BY <1>1 DEF Spoils

\* Whatever the upstream does, the parser's variables keep their types, and
\* what it yields is a chunk or nothing.
LEMMA ReadsTyped ==
    ASSUME SseParserAssumption, ParserInv, Reads
    PROVE  ParserInv' /\ Yield(parsed', native')
<1> USE DEF Yield
<1> HIDE DEF Texts
<1>0. native \in BOOLEAN
  BY DEF ParserInv
<1>U. /\ tools \in Nat /\ tools <= MaxTools /\ MaxTools \in Nat
      /\ half \in SUBSET (1 .. tools) /\ spoilt \in SUBSET (1 .. tools)
      /\ lost \subseteq 1 .. tools
      /\ ~native => tools = 0 /\ half = {} /\ lost = {} /\ spoilt = {}
  BY SseParserAssumption DEF ParserInv, SseParserAssumption
<1>V. ASSUME Unheard(tools, half, spoilt)
      PROVE  /\ tools' \in 0 .. MaxTools
             /\ half' \subseteq 1 .. tools' /\ spoilt' \subseteq 1 .. tools'
             /\ lost' \subseteq 1 .. tools'
             /\ ~native => tools' = 0 /\ half' = {} /\ lost' = {} /\ spoilt' = {}
  <2>0. /\ tools' \in Nat
        /\ MaxTools \in Nat /\ tools <= MaxTools => tools' <= MaxTools
        /\ half' \subseteq 1 .. tools' /\ spoilt' \subseteq 1 .. tools'
        /\ lost' \subseteq 1 .. tools'
    <3>1. /\ tools \in Nat /\ half \in SUBSET (1 .. tools)
          /\ spoilt \in SUBSET (1 .. tools) /\ lost \subseteq 1 .. tools
      BY <1>U
    <3> QED
      BY <1>V, <3>1, UnheardIs, Zenon
  <2>1. /\ tools' \in Nat /\ tools' <= MaxTools
        /\ half' \subseteq 1 .. tools' /\ spoilt' \subseteq 1 .. tools'
        /\ lost' \subseteq 1 .. tools'
    BY <1>U, <2>0
  <2>2. ~native => tools' = tools /\ lost' = lost /\ half' = half /\ spoilt' = spoilt
    <3>1. ~native => /\ tools' = tools /\ lost' = lost
                     /\ half = {} => half' = half /\ spoilt' = spoilt
      BY <1>U, <1>V, UnheardIs, Zenon
    <3> QED
      BY <1>U, <3>1
  <2> QED
    BY <1>U, <2>1, <2>2
<1>1. CASE Reason
  <2>1. /\ UNCHANGED <<native, upstream, pending, cut>> /\ pieces' \in Nat
        /\ Unheard(tools, half, spoilt)
    BY <1>1 DEF Reason, ParserInv
  <2>2. parsed' = <<ReasoningChunk>> /\ native' = native
    BY <1>1 DEF Reason
  <2>3. said' \in Seq(Uttered)
    <3> DEFINE e == [type |-> "drowned", text |-> <<"plain">>]
    <3>1. e \in Uttered
      BY DEF Uttered, Texts
    <3>2. said' = said \/ said' = Append(said, e)
      BY <1>1 DEF Reason
    <3> HIDE DEF e
    <3> QED
      BY <3>1, <3>2 DEF ParserInv
  <2>4. ParserInv'
    BY <1>V, <2>1, <2>3 DEF ParserInv
  <2> QED
    BY <1>0, <2>2, <2>4, ParsedKinds
<1>2. CASE Write
  <2>1. PICK text \in Texts :
          /\ said' = Append(said, [type |-> "content", text |-> <<text>>])
          /\ parsed' = <<TextChunk(<<text>>, FALSE)>>
    BY <1>2 DEF Write, Texts
  <2>2. /\ UNCHANGED <<native, upstream, pending, cut>> /\ pieces' \in Nat
        /\ Unheard(tools, half, spoilt)
    BY <1>2 DEF Write, ParserInv
  <2>3. <<text>> \in Seq(Texts)
    OBVIOUS
  <2>4. said' \in Seq(Uttered)
    <3> DEFINE e == [type |-> "content", text |-> <<text>>]
    <3>1. e \in Uttered
      BY <2>3 DEF Uttered
    <3>2. said' = Append(said, e)
      BY <2>1
    <3> HIDE DEF e
    <3> QED
      BY <3>1, <3>2 DEF ParserInv
  <2>5. ParserInv'
    BY <1>V, <2>2, <2>4 DEF ParserInv
  <2> QED
    BY <1>0, <2>1, <2>2, <2>3, <2>5, ParsedKinds
<1>3. CASE ToolBegins
  <2>1. PICK args \in {"half", "whole"} :
            /\ pending' = [tool |-> tools + 1, args |-> args]
            /\ Unheard(tools + 1,
                       IF args = "half" THEN half \cup {tools + 1} ELSE half, spoilt)
    BY <1>3 DEF ToolBegins
  <2>2. /\ UNCHANGED <<native, upstream, pieces, said, cut>>
        /\ native /\ tools < MaxTools
    BY <1>3 DEF ToolBegins
  <2>3. parsed' = <<>> \/ parsed' = <<Flushed(FALSE)>>
    BY <1>3 DEF ToolBegins, When
  <2> DEFINE h == IF args = "half" THEN half \cup {tools + 1} ELSE half
  <2>4. /\ tools + 1 \in Tools /\ tools + 1 \in Nat /\ tools + 1 <= MaxTools
        /\ h \in SUBSET (1 .. tools + 1) /\ spoilt \in SUBSET (1 .. tools + 1)
        /\ lost \subseteq 1 .. tools + 1
    BY <1>U, <2>2
  <2>5. Unheard(tools + 1, h, spoilt)
    BY <2>1
  <2> HIDE DEF h
  <2>6. /\ tools' \in Nat /\ tools' <= MaxTools
        /\ half' \subseteq 1 .. tools' /\ spoilt' \subseteq 1 .. tools'
        /\ lost' \subseteq 1 .. tools'
    BY <2>4, <2>5, UnheardIs
  <2>7. ParserInv'
    BY <2>1, <2>2, <2>4, <2>6 DEF ParserInv
  <2> QED
    BY <2>2, <2>3, <2>7, FlushedKind
<1>5. CASE ToolGoesOn
  <2>1. PICK t \in half :
          /\ pending' =
                IF pending = NoPending THEN pending
                ELSE [pending EXCEPT
                        !.args = IF @ = "half" /\ t = pending.tool
                                 THEN "whole" ELSE "garbled"]
          /\ Unheard(tools, half \ {t},
                     IF t = Latest THEN spoilt ELSE spoilt \cup Spoils(t))
    BY <1>5 DEF ToolGoesOn
  <2>2. UNCHANGED <<native, upstream, pieces, said, cut>> /\ parsed' = <<>>
    BY <1>5 DEF ToolGoesOn
  <2>3. native
    BY <1>U, <2>1
  <2> DEFINE h == half \ {t}
             s == IF t = Latest THEN spoilt ELSE spoilt \cup Spoils(t)
  <2>4. h \in SUBSET (1 .. tools) /\ s \in SUBSET (1 .. tools)
    BY <1>U, <2>1, SpoilsAre
  <2>5. Unheard(tools, h, s)
    BY <2>1
  <2> HIDE DEF h, s
  <2>6. /\ tools' \in Nat /\ tools' <= MaxTools
        /\ half' \subseteq 1 .. tools' /\ spoilt' \subseteq 1 .. tools'
        /\ lost' \subseteq 1 .. tools'
    BY <1>U, <2>4, <2>5, UnheardIs
  <2>7. ParserInv'
    BY <2>1, <2>2, <2>3, <2>6 DEF ParserInv
  <2> QED
    BY <2>2, <2>7
<1>6. CASE Usage
  <2>1. ParserInv'
    BY <1>6 DEF ParserInv, Usage, upstreamVars
  <2>2. parsed' = <<Bare(FALSE)>> /\ native' = native
    BY <1>6 DEF Usage
  <2> QED
    BY <1>0, <2>1, <2>2, ParsedKinds
<1>7. CASE Done
  <2>1. ParserInv'
    BY <1>7 DEF ParserInv, Done, NoPending, upstreamVars
  <2>2. parsed' = <<Flushed(TRUE)>> /\ native' = native
    BY <1>7 DEF Done
  <2> QED
    BY <2>1, <2>2, FlushedKind
<1>8. CASE FlushAtEnd
  <2>1. ParserInv'
    BY <1>8 DEF ParserInv, FlushAtEnd, NoPending, upstreamVars
  <2>2. parsed' = <<Flushed(TRUE)>> /\ native' = native
    BY <1>8 DEF FlushAtEnd
  <2> QED
    BY <2>1, <2>2, FlushedKind
<1>9. CASE ReportsError
  BY <1>9 DEF ParserInv, ReportsError, upstreamVars
<1>10. CASE Breaks
  BY <1>10 DEF ParserInv, Breaks, upstreamVars
<1>11. CASE Closes
  BY <1>11 DEF ParserInv, Closes, upstreamVars
<1> QED
  BY <1>1, <1>2, <1>3, <1>5, <1>6, <1>7, <1>8, <1>9, <1>10, <1>11
  DEF Reads, Parses

-----------------------------------------------------------------------------
(* Tool emulation.                                                         *)

EmulationInv ==
    /\ emu \in [buffering : BOOLEAN, buffer : Seq(Texts), flushed : BOOLEAN,
                outgrown : BOOLEAN, broken : BOOLEAN]
    /\ Len(emu.buffer) <= MaxBuffer \/ emu.flushed \/ emu.broken
    /\ ~emu.buffering => emu.buffer = <<>>
    /\ native => ~emu.buffering /\ ~emu.flushed /\ ~emu.broken /\ ~emu.outgrown

\* A call that is found is of two pieces of the buffer.
LEMMA CallInIs ==
    ASSUME NEW b \in Seq(Texts), CallIn(b) # {}
    PROVE  \E i \in 1 .. Len(b) :
              /\ i + 1 \in 1 .. Len(b)
              /\ <<i, i + 1>> \in CallIn(b)
              /\ (CHOOSE ij \in CallIn(b) : TRUE) = <<i, i + 1>>
<1> DEFINE ij == CHOOSE ij \in CallIn(b) : TRUE
<1>1. ij \in CallIn(b)
  OBVIOUS
<1> HIDE DEF ij
<1>2. PICK i \in 1 .. Len(b), j \in 1 .. Len(b) : ij = <<i, j>>
  BY <1>1 DEF CallIn, Openings, Closings, Inside
<1>3. j = i + 1
  BY <1>1, <1>2 DEF CallIn, IsObject
<1> QED
  BY <1>1, <1>2, <1>3 DEF ij

\* What a buffer becomes is a text or a call.
LEMMA UnbufferedKind ==
    ASSUME SseParserAssumption, NEW b \in Seq(Texts), NEW done \in BOOLEAN
    PROVE  OfKind(Unbuffered(b, done), FALSE)
<1>1. CASE CallIn(b) = {}
  BY <1>1, ParsedKinds DEF Unbuffered
<1>2. CASE CallIn(b) # {}
  <2>1. PICK i \in 1 .. Len(b) :
            /\ i + 1 \in 1 .. Len(b)
            /\ (CHOOSE ij \in CallIn(b) : TRUE) = <<i, i + 1>>
    BY <1>2, CallInIs
  <2> DEFINE s == SubSeq(b, i, i + 1)
  <2>2. s \in Seq(Texts)
    BY <2>1, Part
  <2>3. Unbuffered(b, done) = Call(Spelled, s, done)
    <3> DEFINE ij == CHOOSE ij \in CallIn(b) : TRUE
    <3>0. ij = <<i, i + 1>>
      BY <2>1
    <3>2. Unbuffered(b, done)
            = [Bare(done) EXCEPT !.tool = Spelled, !.text = SubSeq(b, ij[1], ij[2])]
      BY <1>2 DEF Unbuffered
    <3> HIDE DEF ij
    <3>1. ij[1] = i /\ ij[2] = i + 1
      BY <3>0
    <3> QED
      BY <3>1, <3>2 DEF Call
  <2> HIDE DEF s
  <2>4. s \in Seq(Texts \cup {"args"})
    BY <2>2
  <2> QED
    BY <2>2, <2>3, <2>4, CallKind
<1> QED
  BY <1>1, <1>2

\* Emptying the buffer.
LEMMA FlushTyped ==
    ASSUME SseParserAssumption, EmulationInv, native' = native,
           ~native, NEW b \in Seq(Texts), NEW done \in BOOLEAN, Flush(b, done),
           b = emu.buffer \/ ~Inverted(b) \/ Len(b) > MaxBuffer
    PROVE  EmulationInv' /\ Yield(out', FALSE)
<1>1. CASE Inverted(b)
  BY <1>1 DEF Flush, EmulationInv, Yield
<1>2. CASE ~Inverted(b)
  <2>1. out' = <<Unbuffered(b, done)>>
    BY <1>2 DEF Flush
  <2> DEFINE holds == CallIn(b) # {}
             e == [buffering |-> emu.buffering /\ holds, buffer |-> <<>>,
                   flushed |-> done, outgrown |-> emu.outgrown \/ ~done,
                   broken |-> emu.broken]
  <2>2. emu' = [emu EXCEPT !.flushed = done, !.outgrown = @ \/ ~done,
                           !.buffer = <<>>, !.buffering = @ /\ holds]
    BY <1>2 DEF Flush
  <2>3. holds \in BOOLEAN
    OBVIOUS
  <2> HIDE DEF holds
  <2>4. emu' = e
    BY <2>2 DEF EmulationInv
  <2>5. EmulationInv'
    BY <2>3, <2>4, ToolEmulationAssumption DEF EmulationInv
  <2> QED
    BY <2>1, <2>5, UnbufferedKind DEF Yield
<1> QED
  BY <1>1, <1>2

LEMMA TransformTyped ==
    ASSUME SseParserAssumption, EmulationInv, native \in BOOLEAN, native' = native,
           Yield(parsed', native), Short(parsed'), Transform
    PROVE  EmulationInv' /\ Yield(out', native)
<1>1. CASE native \/ parsed' = <<>>
  BY <1>1 DEF Transform, EmulationInv
<1>2. CASE ~native /\ parsed' # <<>>
  <2>1. PICK c : parsed' = <<c>> /\ OfKind(c, FALSE)
    BY <1>2 DEF Yield
  <2>2. parsed'[1] = c
    BY <2>1
  <2>3. c.content \in BOOLEAN /\ c.done \in BOOLEAN /\ c.text \in Seq(Texts)
        /\ Len(c.text) <= 1
    BY <1>2, <2>1 DEF OfKind, OneThing, Chunk, Short
  <2>4. CASE c.content
    <3>1. TakeText(c)
      BY <1>2, <2>2, <2>4 DEF Transform
    <3> DEFINE b == emu.buffer \o c.text
    <3>2. b \in Seq(Texts)
      BY <2>3 DEF EmulationInv
    <3>3. CASE emu.buffering /\ Len(b) > MaxBuffer
      BY <1>2, <3>1, <3>2, <3>3, FlushTyped DEF TakeText
    <3>4. CASE emu.buffering /\ ~(Len(b) > MaxBuffer)
      <4>1. emu' = [emu EXCEPT !.buffering = TRUE, !.buffer = b] /\ out' = <<>>
        BY <3>1, <3>4 DEF TakeText, Hold
      <4> HIDE DEF b
      <4>2. emu' = [buffering |-> TRUE, buffer |-> b, flushed |-> emu.flushed,
                    outgrown |-> emu.outgrown, broken |-> emu.broken]
        BY <4>1 DEF EmulationInv
      <4>3. Len(b) <= MaxBuffer
        BY <2>3, <3>2, <3>4, ToolEmulationAssumption DEF ToolEmulationAssumption
      <4>4. EmulationInv'
        BY <1>2, <2>3, <3>2, <4>2, <4>3 DEF EmulationInv
      <4> QED
        BY <4>1, <4>4 DEF Yield
    <3>5. CASE ~emu.buffering /\ LooksLikeCall(c.text)
      <4>1. emu' = [emu EXCEPT !.buffering = TRUE, !.buffer = c.text] /\ out' = <<>>
        BY <3>1, <3>5 DEF TakeText, Hold
      <4>2. emu' = [buffering |-> TRUE, buffer |-> c.text, flushed |-> emu.flushed,
                    outgrown |-> emu.outgrown, broken |-> emu.broken]
        BY <4>1 DEF EmulationInv
      <4>3. Len(c.text) <= MaxBuffer
        BY <2>3, ToolEmulationAssumption DEF ToolEmulationAssumption
      <4>4. EmulationInv'
        BY <1>2, <2>3, <3>2, <4>2, <4>3 DEF EmulationInv
      <4> QED
        BY <4>1, <4>4 DEF Yield
    <3>6. CASE ~emu.buffering /\ ~LooksLikeCall(c.text)
      BY <1>2, <2>1, <3>1, <3>6 DEF TakeText, EmulationInv, Yield
    <3> QED
      BY <3>3, <3>4, <3>5, <3>6 DEF EmulationInv
  <2>5. CASE ~c.content /\ c.done
    <3>1. TakeLast(c)
      BY <1>2, <2>2, <2>5 DEF Transform
    <3>2. CASE emu.buffering
      <4>1. Flush(emu.buffer, TRUE) /\ emu.buffer \in Seq(Texts)
        BY <3>1, <3>2 DEF TakeLast, EmulationInv
      <4> QED
        BY <1>2, <4>1, FlushTyped
    <3>3. CASE ~emu.buffering
      BY <1>2, <2>1, <3>1, <3>3 DEF TakeLast, EmulationInv, Yield
    <3> QED
      BY <3>2, <3>3
  <2>6. CASE ~c.content /\ ~c.done
    BY <1>2, <2>1, <2>2, <2>6 DEF Transform, EmulationInv, Yield
  <2> QED
    BY <2>3, <2>4, <2>5, <2>6
<1> QED
  BY <1>1, <1>2

LEMMA TransformEndTyped ==
    ASSUME SseParserAssumption, EmulationInv, native \in BOOLEAN, native' = native,
           TransformEnd
    PROVE  EmulationInv' /\ Yield(out', native)
<1>1. CASE ~emu.flushed /\ emu.buffer # <<>>
  <2>1. Flush(emu.buffer, TRUE) /\ ~native /\ emu.buffer \in Seq(Texts)
    BY <1>1 DEF TransformEnd, EmulationInv
  <2> QED
    BY <2>1, FlushTyped
<1>2. CASE ~(~emu.flushed /\ emu.buffer # <<>>)
  BY <1>2 DEF TransformEnd, EmulationInv, Yield
<1> QED
  BY <1>1, <1>2

-----------------------------------------------------------------------------
(* The events of an Anthropic client, one after the other.                 *)

\* The block that is open just before position i of w.
OpenIn(w, i) ==
    {j \in 1 .. Len(w) :
        /\ w[j].type = "start" /\ j < i
        /\ \A k \in 1 .. Len(w) :
              w[k].type = "stop" /\ j < k /\ k < i => w[k].index # w[j].index}

LEMMA Appended ==
    ASSUME NEW S, NEW s \in Seq(S), NEW e \in S
    PROVE  /\ Append(s, e) \in Seq(S)
           /\ Len(Append(s, e)) = Len(s) + 1
           /\ \A i \in 1 .. Len(s) : Append(s, e)[i] = s[i]
           /\ Append(s, e)[Len(s) + 1] = e
OBVIOUS

\* What comes later opens and stops nothing before it.
LEMMA OpenBefore ==
    ASSUME NEW w \in Seq(Events), NEW e \in Events, NEW i \in 1 .. Len(w) + 1
    PROVE  OpenIn(Append(w, e), i) = OpenIn(w, i)
<1> DEFINE v == Append(w, e)
<1>1. /\ Len(v) = Len(w) + 1 /\ Len(w) \in Nat
      /\ \A k \in 1 .. Len(w) : v[k] = w[k]
  BY Appended
<1> HIDE DEF v, Events
<1>2. \A j \in 1 .. Len(v) : j < i => j \in 1 .. Len(w)
  BY <1>1
<1>3. \A j \in 1 .. Len(w) : j \in 1 .. Len(v)
  BY <1>1
<1>4. ASSUME NEW j \in 1 .. Len(w), j < i
      PROVE  j \in OpenIn(v, i) <=> j \in OpenIn(w, i)
  <2>1. v[j] = w[j]
    BY <1>1
  <2> QED
    BY <1>1, <1>2, <1>3, <1>4, <2>1 DEF OpenIn
<1>5. \A j : j \in OpenIn(v, i) => j \in 1 .. Len(w) /\ j < i
  BY <1>2 DEF OpenIn
<1>6. \A j : j \in OpenIn(w, i) => j \in 1 .. Len(w) /\ j < i
  BY DEF OpenIn
<1> QED
  BY <1>4, <1>5, <1>6 DEF v

\* What is open at the end of w.
Now(w) == OpenIn(w, Len(w) + 1)

\* An event opens or stops a block, or does neither.
LEMMA NowAppended ==
    ASSUME NEW w \in Seq(Events), NEW e \in Events
    PROVE  Now(Append(w, e))
            = IF e.type = "start" THEN Now(w) \cup {Len(w) + 1}
              ELSE IF e.type = "stop" THEN {j \in Now(w) : w[j].index # e.index}
              ELSE Now(w)
<1> DEFINE v == Append(w, e)
           n == Len(w) + 1
<1>1. /\ Len(v) = n /\ Len(w) \in Nat
      /\ \A k \in 1 .. Len(w) : v[k] = w[k]
      /\ v[n] = e
  BY Appended
<1> HIDE DEF v, Events
<1>2. 1 .. Len(v) = 1 .. Len(w) \cup {n}
  BY <1>1
<1>3. \A j \in 1 .. Len(w) : j < n /\ j < n + 1 /\ j # n
  BY <1>1
<1>4. n < n + 1 /\ ~(n < n) /\ \A j \in 1 .. Len(w) : ~(n < j)
  BY <1>1
<1> HIDE DEF n
<1>5. Now(v) = OpenIn(v, n + 1) /\ Now(w) = OpenIn(w, n)
  BY <1>1 DEF Now, n
<1>6. ASSUME NEW j \in 1 .. Len(w)
      PROVE  j \in Now(v) <=> /\ j \in Now(w)
                              /\ e.type = "stop" => e.index # w[j].index
  <2> DEFINE Stops(u, k) == u[k].type = "stop" /\ u[k].index = w[j].index
  <2>1. v[j] = w[j] /\ \A k \in 1 .. Len(w) : Stops(v, k) <=> Stops(w, k)
    BY <1>1
  <2>2. j \in Now(v) <=> /\ w[j].type = "start"
                         /\ \A k \in 1 .. Len(w) : j < k => ~Stops(w, k)
                         /\ ~Stops(v, n)
    <3>1. j \in 1 .. Len(v) /\ j < n + 1
      BY <1>2, <1>3
    <3>2. j \in Now(v) <=> /\ w[j].type = "start"
                           /\ \A k \in 1 .. Len(v) : j < k /\ k < n + 1 => ~Stops(v, k)
      BY <1>5, <2>1, <3>1 DEF OpenIn
    <3> HIDE DEF Stops
    <3>3. (\A k \in 1 .. Len(v) : j < k /\ k < n + 1 => ~Stops(v, k))
            <=> (\A k \in 1 .. Len(w) : j < k => ~Stops(v, k)) /\ ~Stops(v, n)
      BY <1>2, <1>3, <1>4
    <3> QED
      BY <2>1, <3>2, <3>3
  <2>3. j \in Now(w) <=> /\ w[j].type = "start"
                         /\ \A k \in 1 .. Len(w) : j < k => ~Stops(w, k)
    BY <1>3, <1>5 DEF OpenIn
  <2> QED
    BY <1>1, <2>2, <2>3
<1>7. n \in Now(v) <=> e.type = "start"
  BY <1>1, <1>2, <1>3, <1>4, <1>5 DEF OpenIn
<1>8. Now(v) \subseteq 1 .. Len(w) \cup {n} /\ Now(w) \subseteq 1 .. Len(w)
  BY <1>2, <1>5 DEF OpenIn
<1>9. Now(v) = IF e.type = "start" THEN Now(w) \cup {n}
               ELSE IF e.type = "stop" THEN {j \in Now(w) : w[j].index # e.index}
               ELSE Now(w)
  BY <1>3, <1>6, <1>7, <1>8
<1> QED
  BY <1>9 DEF v, n

EventTypes ==
    {"start", "delta", "signature", "stop", "message_start", "message_delta",
     "message_stop", "error"}
Kinds == {"", "thinking", "text", "tool_use", "end_turn"}
AnyTool == Tools \cup {NoTool, Spelled}
AnyText == Seq(Texts \cup {"args"})

\* An event by its fields.
IsEvent(e, type, index, kind, tool, text) ==
    /\ e \in Events
    /\ e.type = type /\ e.index = index /\ e.kind = kind
    /\ e.tool = tool /\ e.text = text

LEMMA EventIs ==
    ASSUME NEW type \in EventTypes, NEW index \in Nat, NEW kind \in Kinds,
           NEW tool \in AnyTool, NEW text \in AnyText
    PROVE  IsEvent(Event(type, index, kind, tool, text), type, index, kind, tool, text)
<1> SUFFICES ASSUME NEW e, e = Event(type, index, kind, tool, text)
             PROVE  IsEvent(e, type, index, kind, tool, text)
  OBVIOUS
<1>1. Events = [type : EventTypes, index : Nat, kind : Kinds, tool : AnyTool,
                text : AnyText]
  BY DEF Events, EventTypes, Kinds, AnyTool, AnyText
<1> QED
  BY <1>1 DEF Event, IsEvent

LEMMA BlockEventIs ==
    ASSUME NEW type \in EventTypes, NEW index \in Nat
    PROVE  IsEvent(BlockEvent(type, index), type, index, "", NoTool, <<>>)
<1>1. "" \in Kinds /\ NoTool \in AnyTool /\ <<>> \in AnyText
  BY DEF Kinds, AnyTool, AnyText
<1>2. BlockEvent(type, index) = Event(type, index, "", NoTool, <<>>)
  BY DEF BlockEvent
<1> QED
  BY <1>1, <1>2, EventIs

-----------------------------------------------------------------------------
(* The block that is open, and what is signed.                             *)

\* Block o, the n-th, is the only one open at the end of w; none if o is 0.
Book(w, n, o) ==
    /\ w \in Seq(Events)
    /\ n \in Nat
    /\ o \in 0 .. Len(w)
    /\ Now(w) = IF o = 0 THEN {} ELSE {o}
    /\ o # 0 => w[o].type = "start" /\ w[o].index = n

\* The thinking blocks of w are signed.
Signed(w) ==
    \A i \in 1 .. Len(w) : w[i].type = "stop" =>
        \A j \in OpenIn(w, i) : w[j].kind = "thinking" =>
            w[i - 1] = BlockEvent("signature", w[j].index)

LEMMA BookStart ==
    ASSUME NEW w, NEW n, Book(w, n, 0), NEW e \in Events,
           e.type = "start", e.index = n
    PROVE  Book(Append(w, e), n, Len(w) + 1)
<1>1. w \in Seq(Events) /\ Now(w) = {} /\ n \in Nat
  BY DEF Book
<1> DEFINE v == Append(w, e)
<1>2. v \in Seq(Events) /\ Len(v) = Len(w) + 1 /\ v[Len(w) + 1] = e /\ Len(w) \in Nat
  BY <1>1, Appended
<1>3. Now(v) = {Len(w) + 1}
  BY <1>1, NowAppended
<1> HIDE DEF v, Events
<1>4. Book(v, n, Len(w) + 1)
  BY <1>1, <1>2, <1>3 DEF Book
<1> QED
  BY <1>4 DEF v

LEMMA BookGoesOn ==
    ASSUME NEW w, NEW n, NEW o, Book(w, n, o), NEW e \in Events,
           e.type # "start", e.type # "stop"
    PROVE  Book(Append(w, e), n, o)
<1>1. w \in Seq(Events) /\ o \in 0 .. Len(w)
  BY DEF Book
<1> DEFINE v == Append(w, e)
<1>2. /\ v \in Seq(Events) /\ Len(v) = Len(w) + 1 /\ Len(w) \in Nat
      /\ \A k \in 1 .. Len(w) : v[k] = w[k]
  BY <1>1, Appended
<1>3. Now(v) = Now(w)
  BY <1>1, NowAppended
<1> HIDE DEF v, Events
<1>4. Book(v, n, o)
  BY <1>1, <1>2, <1>3 DEF Book
<1> QED
  BY <1>4 DEF v

LEMMA BookStop ==
    ASSUME NEW w, NEW n, NEW o, Book(w, n, o), NEW e \in Events,
           e.type = "stop", e.index = n
    PROVE  Book(Append(w, e), n + 1, 0)
<1>1. w \in Seq(Events) /\ n \in Nat /\ o \in 0 .. Len(w)
  BY DEF Book
<1> DEFINE v == Append(w, e)
<1>2. v \in Seq(Events) /\ Len(v) = Len(w) + 1 /\ Len(w) \in Nat
  BY <1>1, Appended
<1>3. Now(v) = {j \in Now(w) : w[j].index # n}
  BY <1>1, NowAppended
<1>4. Now(v) = {}
  BY <1>3 DEF Book
<1> HIDE DEF v, Events
<1>5. Book(v, n + 1, 0)
  BY <1>1, <1>2, <1>4 DEF Book
<1> QED
  BY <1>5 DEF v

\* What is signed stays so, and so does a block that is stopped when signed.
LEMMA SignedAppended ==
    ASSUME NEW w, NEW n, NEW o, Book(w, n, o), Signed(w), NEW e \in Events,
           \/ e.type # "stop"
           \/ o # 0 /\ w[o].kind = "thinking"
                => w[Len(w)] = BlockEvent("signature", n)
    PROVE  Signed(Append(w, e))
<1>1. w \in Seq(Events) /\ o \in 0 .. Len(w)
  BY DEF Book
<1> DEFINE v == Append(w, e)
<1>2. /\ v \in Seq(Events) /\ Len(v) = Len(w) + 1 /\ Len(w) \in Nat
      /\ \A k \in 1 .. Len(w) : v[k] = w[k]
      /\ v[Len(w) + 1] = e
  BY <1>1, Appended
<1>3. \A i \in 1 .. Len(w) + 1 : OpenIn(v, i) = OpenIn(w, i)
  BY <1>1, OpenBefore
<1> HIDE DEF v, Events
<1> SUFFICES ASSUME NEW i \in 1 .. Len(v), v[i].type = "stop",
                    NEW j \in OpenIn(v, i), v[j].kind = "thinking"
             PROVE  v[i - 1] = BlockEvent("signature", v[j].index)
  BY DEF Signed, v
<1>4. j \in OpenIn(w, i) /\ j \in 1 .. Len(w) /\ j < i /\ v[j] = w[j]
  <2>1. i \in 1 .. Len(w) + 1
    BY <1>2
  <2>2. j \in OpenIn(w, i)
    BY <1>3, <2>1
  <2>3. j \in 1 .. Len(w) /\ j < i
    BY <2>2 DEF OpenIn
  <2> QED
    BY <1>2, <2>2, <2>3
<1>5. CASE i \in 1 .. Len(w)
  <2>1. v[i] = w[i] /\ i - 1 \in 1 .. Len(w) /\ v[i - 1] = w[i - 1]
    BY <1>2, <1>4, <1>5
  <2> QED
    BY <1>4, <1>5, <2>1 DEF Signed
<1>6. CASE i = Len(w) + 1
  <2>1. j \in Now(w) /\ v[i] = e /\ i - 1 = Len(w) /\ v[i - 1] = w[Len(w)]
    BY <1>2, <1>4, <1>6 DEF Now
  <2>2. o # 0 /\ j = o /\ w[o].index = n
    BY <2>1 DEF Book
  <2> QED
    BY <1>4, <2>1, <2>2
<1> QED
  BY <1>2, <1>5, <1>6

-----------------------------------------------------------------------------
(* Every event in its place.                                               *)

StartsBefore(w, i) == {j \in 1 .. Len(w) : w[j].type = "start" /\ j < i}

\* A start is numbered, and no block is open; what is of a block is of the one
\* that is open.
Placed(w, i) ==
    /\ w[i].type = "start" =>
          OpenIn(w, i) = {} /\ w[i].index = Cardinality(StartsBefore(w, i))
    /\ w[i].type = "delta" =>
          \E j \in OpenIn(w, i) :
              w[i] = [w[j] EXCEPT !.type = "delta", !.text = w[i].text]
    /\ w[i].type \in {"signature", "stop"} =>
          \E j \in OpenIn(w, i) : w[i].index = w[j].index

AllPlaced(w) == \A i \in 1 .. Len(w) : Placed(w, i)

\* Event e is in its place after w.
Fits(w, e) ==
    /\ e.type = "start" =>
          Now(w) = {} /\ e.index = Cardinality(StartsBefore(w, Len(w) + 1))
    /\ e.type = "delta" =>
          \E j \in Now(w) : e = [w[j] EXCEPT !.type = "delta", !.text = e.text]
    /\ e.type \in {"signature", "stop"} => \E j \in Now(w) : e.index = w[j].index

Tidy(w, n, o) ==
    /\ AllPlaced(w)
    /\ Cardinality(StartsBefore(w, Len(w) + 1)) = n + IF o = 0 THEN 0 ELSE 1

LEMMA StartsAppended ==
    ASSUME NEW w \in Seq(Events), NEW e \in Events
    PROVE  /\ \A i \in 1 .. Len(w) + 1 :
                StartsBefore(Append(w, e), i) = StartsBefore(w, i)
           /\ StartsBefore(Append(w, e), Len(Append(w, e)) + 1)
                = StartsBefore(w, Len(w) + 1)
                    \cup (IF e.type = "start" THEN {Len(w) + 1} ELSE {})
           /\ IsFiniteSet(StartsBefore(w, Len(w) + 1))
           /\ Len(w) + 1 \notin StartsBefore(w, Len(w) + 1)
<1> DEFINE v == Append(w, e)
<1>1. /\ Len(v) = Len(w) + 1 /\ Len(w) \in Nat
      /\ \A k \in 1 .. Len(w) : v[k] = w[k]
      /\ v[Len(w) + 1] = e
  BY Appended
<1> HIDE DEF v, Events
<1>2. ASSUME NEW i \in 1 .. Len(w) + 1
      PROVE  StartsBefore(v, i) = StartsBefore(w, i)
  <2>1. \A j \in 1 .. Len(v) : j < i => j \in 1 .. Len(w)
    BY <1>1
  <2>2. \A j \in 1 .. Len(w) : j \in 1 .. Len(v)
    BY <1>1
  <2> QED
    BY <1>1, <2>1, <2>2 DEF StartsBefore
<1>3. StartsBefore(v, Len(v) + 1)
        = StartsBefore(w, Len(w) + 1)
            \cup (IF e.type = "start" THEN {Len(w) + 1} ELSE {})
  <2>1. \A j : j \in 1 .. Len(v) <=> j \in 1 .. Len(w) \/ j = Len(w) + 1
    BY <1>1
  <2>2. \A j \in 1 .. Len(v) : j < Len(v) + 1
    BY <1>1
  <2>3. \A j \in 1 .. Len(w) : j < Len(w) + 1
    BY <1>1
  <2> QED
    BY <1>1, <2>1, <2>2, <2>3 DEF StartsBefore
<1>4. IsFiniteSet(StartsBefore(w, Len(w) + 1))
  <2>1. IsFiniteSet(1 .. Len(w))
    BY <1>1, FS_Interval
  <2>2. StartsBefore(w, Len(w) + 1) \subseteq 1 .. Len(w)
    BY DEF StartsBefore
  <2> QED
    BY <2>1, <2>2, FS_Subset
<1>5. Len(w) + 1 \notin StartsBefore(w, Len(w) + 1)
  BY <1>1 DEF StartsBefore
<1> QED
  BY <1>2, <1>3, <1>4, <1>5 DEF v

\* An event in its place keeps the others in theirs.
LEMMA PlacedAppended ==
    ASSUME NEW w \in Seq(Events), NEW e \in Events, AllPlaced(w), Fits(w, e)
    PROVE  AllPlaced(Append(w, e))
<1> DEFINE v == Append(w, e)
<1>1. /\ Len(v) = Len(w) + 1 /\ Len(w) \in Nat
      /\ \A k \in 1 .. Len(w) : v[k] = w[k]
      /\ v[Len(w) + 1] = e
  BY Appended
<1>2. \A i \in 1 .. Len(w) + 1 : /\ OpenIn(v, i) = OpenIn(w, i)
                                 /\ StartsBefore(v, i) = StartsBefore(w, i)
  BY OpenBefore, StartsAppended
<1> HIDE DEF v, Events
<1>3. \A i \in 1 .. Len(w) + 1 : \A j \in OpenIn(w, i) : v[j] = w[j]
  BY <1>1 DEF OpenIn
<1>4. ASSUME NEW i \in 1 .. Len(w) PROVE Placed(v, i)
  <2>1. i \in 1 .. Len(w) + 1 /\ v[i] = w[i]
    BY <1>1
  <2>2. Placed(w, i)
    BY DEF AllPlaced
  <2> QED
    BY <1>2, <1>3, <2>1, <2>2 DEF Placed
<1>5. Placed(v, Len(w) + 1)
  <2> DEFINE n == Len(w) + 1
  <2>1. n \in 1 .. Len(w) + 1 /\ v[n] = e /\ OpenIn(w, n) = Now(w)
    BY <1>1 DEF Now
  <2> HIDE DEF n
  <2>2. OpenIn(v, n) = Now(w) /\ StartsBefore(v, n) = StartsBefore(w, n)
        /\ \A j \in Now(w) : v[j] = w[j]
    BY <1>2, <1>3, <2>1
  <2>3. StartsBefore(w, n) = StartsBefore(w, Len(w) + 1)
    BY DEF n
  <2> QED
    BY <2>1, <2>2, <2>3 DEF Placed, Fits, n
<1>6. 1 .. Len(v) = 1 .. Len(w) \cup {Len(w) + 1}
  BY <1>1
<1> QED
  BY <1>4, <1>5, <1>6 DEF v, AllPlaced

LEMMA TidyStart ==
    ASSUME NEW w, NEW n, Book(w, n, 0), Tidy(w, n, 0), NEW e \in Events,
           e.type = "start", e.index = n
    PROVE  Tidy(Append(w, e), n, Len(w) + 1)
<1>1. w \in Seq(Events) /\ n \in Nat /\ Now(w) = {}
  BY DEF Book
<1> DEFINE S == StartsBefore(w, Len(w) + 1)
           v == Append(w, e)
<1>2. Cardinality(S) = n
  BY <1>1 DEF Tidy
<1>3. AllPlaced(v)
  BY <1>1, <1>2, PlacedAppended DEF Tidy, Fits
<1>4. /\ StartsBefore(v, Len(v) + 1) = S \cup {Len(w) + 1}
      /\ IsFiniteSet(S) /\ Len(w) + 1 \notin S
  BY <1>1, StartsAppended
<1> HIDE DEF S, v
<1>5. Cardinality(S \cup {Len(w) + 1}) = n + 1
  BY <1>2, <1>4, FS_AddElement
<1>6. Len(w) + 1 # 0
  BY <1>1
<1>7. Tidy(v, n, Len(w) + 1)
  BY <1>3, <1>4, <1>5, <1>6 DEF Tidy
<1> QED
  BY <1>7 DEF v

\* What is said of the open block.
LEMMA TidyGoesOn ==
    ASSUME NEW w, NEW n, NEW o, Book(w, n, o), Tidy(w, n, o), NEW e \in Events,
           e.type # "start", e.type # "stop",
           e.type = "delta" =>
              o # 0 /\ e = [w[o] EXCEPT !.type = "delta", !.text = e.text],
           e.type = "signature" => o # 0 /\ e.index = n
    PROVE  Tidy(Append(w, e), n, o)
<1>1. w \in Seq(Events) /\ n \in Nat
  BY DEF Book
<1>2. o # 0 => o \in Now(w) /\ w[o].index = n
  BY DEF Book
<1> DEFINE v == Append(w, e)
<1>3. AllPlaced(v)
  BY <1>1, <1>2, PlacedAppended DEF Tidy, Fits
<1>4. StartsBefore(v, Len(v) + 1) = StartsBefore(w, Len(w) + 1)
  BY <1>1, StartsAppended
<1> HIDE DEF v
<1>5. Tidy(v, n, o)
  BY <1>3, <1>4 DEF Tidy
<1> QED
  BY <1>5 DEF v

LEMMA TidyStop ==
    ASSUME NEW w, NEW n, NEW o, Book(w, n, o), Tidy(w, n, o), o # 0,
           NEW e \in Events, e.type = "stop", e.index = n
    PROVE  Tidy(Append(w, e), n + 1, 0)
<1>1. w \in Seq(Events) /\ n \in Nat
  BY DEF Book
<1>2. o \in Now(w) /\ w[o].index = n
  BY DEF Book
<1> DEFINE v == Append(w, e)
<1>3. AllPlaced(v)
  BY <1>1, <1>2, PlacedAppended DEF Tidy, Fits
<1>4. StartsBefore(v, Len(v) + 1) = StartsBefore(w, Len(w) + 1)
  BY <1>1, StartsAppended
<1> HIDE DEF v
<1>5. Tidy(v, n + 1, 0)
  BY <1>1, <1>3, <1>4 DEF Tidy
<1> QED
  BY <1>5 DEF v

-----------------------------------------------------------------------------
(* What else is told by the events: tool calls, and the message's end.     *)

\* Nothing ends the message.
NoEnd(w) == \A i \in 1 .. Len(w) : w[i].type \notin {"message_delta", "message_stop"}

\* There is a piece of a tool call.
HasCall(w) == \E i \in 1 .. Len(w) : w[i].type = "delta" /\ w[i].kind = "tool_use"

\* The blocks of tool call t, and whether it was given the arguments.
StartsOf(w, t) == {i \in 1 .. Len(w) : w[i].type = "start" /\ w[i].tool = t}

Argued(w, t, args) ==
    \E i \in 1 .. Len(w) : w[i].type = "delta" /\ w[i].tool = t /\ w[i].text = args

\* From w to v no tool call is told of, and nothing ends.
Quiet(w, v) ==
    /\ NoEnd(w) => NoEnd(v)
    /\ HasCall(v) <=> HasCall(w)
    /\ \A t : StartsOf(v, t) = StartsOf(w, t)
    /\ \A t, args : Argued(w, t, args) => Argued(v, t, args)

LEMMA QuietTwice ==
    ASSUME NEW u, NEW w, NEW v, Quiet(u, w), Quiet(w, v)
    PROVE  Quiet(u, v)
BY DEF Quiet

LEMMA QuietSelf == \A w : Quiet(w, w)
BY DEF Quiet

LEMMA TellsMore ==
    ASSUME NEW w \in Seq(Events), NEW e \in Events
    PROVE  LET v == Append(w, e)
           IN  /\ NoEnd(w) /\ e.type \notin {"message_delta", "message_stop"} => NoEnd(v)
               /\ HasCall(v) <=> HasCall(w) \/ (e.type = "delta" /\ e.kind = "tool_use")
               /\ \A t : StartsOf(v, t)
                            = StartsOf(w, t) \cup (IF e.type = "start" /\ e.tool = t
                                                   THEN {Len(w) + 1} ELSE {})
               /\ \A t, args : Argued(w, t, args) => Argued(v, t, args)
               /\ e.type = "delta" => Argued(v, e.tool, e.text)
<1> DEFINE v == Append(w, e)
<1>1. /\ Len(v) = Len(w) + 1 /\ Len(w) \in Nat
      /\ \A k \in 1 .. Len(w) : v[k] = w[k]
      /\ v[Len(w) + 1] = e
  BY Appended
<1> HIDE DEF v, Events
<1>2. 1 .. Len(v) = 1 .. Len(w) \cup {Len(w) + 1}
  BY <1>1
<1>3. NoEnd(w) /\ e.type \notin {"message_delta", "message_stop"} => NoEnd(v)
  BY <1>1, <1>2 DEF NoEnd
<1>4. HasCall(v) <=> HasCall(w) \/ (e.type = "delta" /\ e.kind = "tool_use")
  BY <1>1, <1>2 DEF HasCall
<1>5. ASSUME NEW t
      PROVE  StartsOf(v, t) = StartsOf(w, t) \cup (IF e.type = "start" /\ e.tool = t
                                                   THEN {Len(w) + 1} ELSE {})
  BY <1>1, <1>2 DEF StartsOf
<1>6. \A t, args : Argued(w, t, args) => Argued(v, t, args)
  BY <1>1, <1>2 DEF Argued
<1>7. e.type = "delta" => Argued(v, e.tool, e.text)
  BY <1>1, <1>2 DEF Argued
<1> QED
  BY <1>3, <1>4, <1>5, <1>6, <1>7 DEF v

LEMMA QuietEvent ==
    ASSUME NEW w \in Seq(Events), NEW e \in Events,
           e.type \notin {"start", "delta", "message_delta", "message_stop"}
    PROVE  Quiet(w, Append(w, e))
<1> DEFINE v == Append(w, e)
<1>1. /\ NoEnd(w) => NoEnd(v)
      /\ HasCall(v) <=> HasCall(w)
      /\ \A t : StartsOf(v, t) = StartsOf(w, t) \cup {}
      /\ \A t, args : Argued(w, t, args) => Argued(v, t, args)
  BY TellsMore
<1> HIDE DEF v
<1>2. Quiet(w, v)
  BY <1>1 DEF Quiet
<1> QED
  BY <1>2 DEF v

-----------------------------------------------------------------------------
(* What the serializer does, bit by bit.                                   *)

\* The state of the serializer: of the kinds of block at most one is open.
Single(s) ==
    /\ s \in [index : Nat, needStart : BOOLEAN, text : BOOLEAN,
              reasoning : BOOLEAN, tool : BOOLEAN, hasTools : BOOLEAN]
    /\ ~(s.text /\ s.reasoning) /\ ~(s.text /\ s.tool) /\ ~(s.reasoning /\ s.tool)
    /\ s.needStart <=> ~s.text /\ ~s.reasoning /\ ~s.tool

\* The open block is of the kind the state says.
Agrees(s, w, o) ==
    /\ o = 0 <=> s.needStart
    /\ o # 0 => /\ w[o].kind = "thinking" <=> s.reasoning
                /\ w[o].kind = "text" <=> s.text
                /\ w[o].kind = "tool_use" <=> s.tool
                /\ ~s.tool => w[o].tool = NoTool

\* State s and events w belong together, with block o open.
Writes(s, w, o) ==
    /\ Single(s)
    /\ Book(w, s.index, o)
    /\ Agrees(s, w, o)
    /\ Signed(w)
    /\ s.hasTools <=> HasCall(w)

LEMMA TwoAppended ==
    ASSUME NEW S, NEW s \in Seq(S), NEW e \in S, NEW f \in S
    PROVE  /\ s \o (<<e>> \o <<f>>) = Append(Append(s, e), f)
           /\ s \o (<<>> \o <<f>>) = Append(s, f)
OBVIOUS

\* Closing the open block.
LEMMA BlockCloses ==
    ASSUME NEW w, NEW n, NEW o, Book(w, n, o), Signed(w), NEW signs \in BOOLEAN,
           signs => o # 0,
           o # 0 /\ w[o].kind = "thinking" => signs
    PROVE  LET v == w \o (When(signs, <<BlockEvent("signature", n)>>)
                            \o <<BlockEvent("stop", n)>>)
           IN  /\ Book(v, n + 1, 0)
               /\ Signed(v)
               /\ Quiet(w, v)
               /\ o # 0 /\ Tidy(w, n, o) => Tidy(v, n + 1, 0)
<1> DEFINE sig == BlockEvent("signature", n)
           stop == BlockEvent("stop", n)
           u == IF signs THEN Append(w, sig) ELSE w
           v == w \o (When(signs, <<sig>>) \o <<stop>>)
<1>1. w \in Seq(Events) /\ n \in Nat /\ o \in 0 .. Len(w)
  BY DEF Book
<1>2. "signature" \in EventTypes /\ "stop" \in EventTypes
  BY DEF EventTypes
<1>3. /\ IsEvent(sig, "signature", n, "", NoTool, <<>>)
      /\ IsEvent(stop, "stop", n, "", NoTool, <<>>)
  BY <1>1, <1>2, BlockEventIs
<1>4. /\ sig \in Events /\ sig.type = "signature" /\ sig.index = n
      /\ stop \in Events /\ stop.type = "stop" /\ stop.index = n
  BY <1>3 DEF IsEvent
<1>5. sig = BlockEvent("signature", n)
  OBVIOUS
<1>6. v = Append(u, stop)
  <2> HIDE DEF sig, stop, Events
  <2> QED
    BY <1>1, <1>4, TwoAppended DEF When
<1> HIDE DEF sig, stop, v, Events
<1>7. Book(u, n, o) /\ Signed(u) /\ Quiet(w, u) /\ (Tidy(w, n, o) => Tidy(u, n, o))
      /\ (signs => u[Len(u)] = sig) /\ (o # 0 => u[o] = w[o])
  <2>1. CASE ~signs
    BY <2>1, QuietSelf
  <2>2. CASE signs
    <3>1. Book(u, n, o)
      BY <1>4, <2>2, BookGoesOn
    <3>2. Signed(u)
      BY <1>4, <2>2, SignedAppended
    <3>3. Quiet(w, u)
      BY <1>1, <1>4, <2>2, QuietEvent
    <3>4. Tidy(w, n, o) => Tidy(u, n, o)
      BY <1>4, <2>2, TidyGoesOn
    <3>5. u[Len(u)] = sig /\ (o # 0 => u[o] = w[o])
      BY <1>1, <1>4, <2>2, Appended
    <3> QED
      BY <3>1, <3>2, <3>3, <3>4, <3>5
  <2> QED
    BY <2>1, <2>2
<1> HIDE DEF u
<1>8. Book(v, n + 1, 0)
  BY <1>4, <1>6, <1>7, BookStop
<1>9. Signed(v)
  BY <1>4, <1>5, <1>6, <1>7, SignedAppended
<1>10. Quiet(u, v)
  <2>1. u \in Seq(Events)
    BY <1>7 DEF Book
  <2> QED
    BY <1>4, <1>6, <2>1, QuietEvent
<1>11. Quiet(w, v)
  BY <1>7, <1>10, QuietTwice
<1>12. o # 0 /\ Tidy(w, n, o) => Tidy(v, n + 1, 0)
  BY <1>4, <1>6, <1>7, TidyStop
<1> QED
  BY <1>8, <1>9, <1>11, <1>12 DEF v, sig, stop

\* A piece of a block, and its start if none is open.  Whoever reads it knows
\* the kind and the tool.
Pieced(w, v, n, o, p, kind, tool, text) ==
    /\ Book(v, n, p) /\ p # 0
    /\ Signed(v)
    /\ o # 0 => p = o /\ v[p] = w[p]
    /\ o = 0 => v[p].kind = kind /\ v[p].tool = tool
    /\ NoEnd(w) => NoEnd(v)
    /\ HasCall(v) <=> HasCall(w) \/ kind = "tool_use"
    /\ \A t : StartsOf(v, t)
                = StartsOf(w, t) \cup (IF o = 0 /\ tool = t THEN {Len(w) + 1} ELSE {})
    /\ \A t, args : Argued(w, t, args) => Argued(v, t, args)
    /\ Argued(v, tool, text)
    /\ (o # 0 => w[o].kind = kind /\ w[o].tool = tool) /\ Tidy(w, n, o)
         => Tidy(v, n, p)

\* A delta is what its block's start is, but for the type and the text.
LEMMA DeltaOf ==
    ASSUME NEW b \in Events, NEW e \in Events,
           e.type = "delta", e.index = b.index, e.kind = b.kind, e.tool = b.tool
    PROVE  e = [b EXCEPT !.type = "delta", !.text = e.text]
<1>1. Events = [type : EventTypes, index : Nat, kind : Kinds, tool : AnyTool,
                text : AnyText]
  BY DEF Events, EventTypes, Kinds, AnyTool, AnyText
<1> SUFFICES ASSUME NEW d, d = [b EXCEPT !.type = "delta", !.text = e.text]
             PROVE  e = d
  OBVIOUS
<1>2. "delta" \in EventTypes
  BY DEF EventTypes
<1> HIDE DEF EventTypes, Kinds, AnyTool, AnyText
<1>3. d \in Events
  BY <1>1, <1>2
<1>4. /\ d.type = e.type /\ d.index = e.index /\ d.kind = e.kind
      /\ d.tool = e.tool /\ d.text = e.text
  BY <1>1
<1> QED
  BY <1>1, <1>3, <1>4

LEMMA PieceWrites ==
    ASSUME NEW w, NEW n, NEW o, Book(w, n, o), Signed(w),
           NEW kind \in Kinds, NEW tool \in AnyTool, NEW text \in AnyText,
           NEW starts \in BOOLEAN, starts <=> o = 0
    PROVE  LET v == w \o (When(starts, <<Event("start", n, kind, tool, <<>>)>>)
                            \o <<Event("delta", n, kind, tool, text)>>)
               p == IF o = 0 THEN Len(w) + 1 ELSE o
           IN  Pieced(w, v, n, o, p, kind, tool, text)
<1> DEFINE start == Event("start", n, kind, tool, <<>>)
           delta == Event("delta", n, kind, tool, text)
           u == IF starts THEN Append(w, start) ELSE w
           v == w \o (When(starts, <<start>>) \o <<delta>>)
           p == IF o = 0 THEN Len(w) + 1 ELSE o
<1>1. w \in Seq(Events) /\ n \in Nat /\ o \in 0 .. Len(w) /\ Len(w) \in Nat
  BY DEF Book
<1>2. "start" \in EventTypes /\ "delta" \in EventTypes /\ <<>> \in AnyText
  BY DEF EventTypes, AnyText
<1>3. /\ IsEvent(start, "start", n, kind, tool, <<>>)
      /\ IsEvent(delta, "delta", n, kind, tool, text)
  BY <1>1, <1>2, EventIs
<1>4. /\ start \in Events /\ start.type = "start" /\ start.index = n
      /\ start.kind = kind /\ start.tool = tool
  BY <1>3 DEF IsEvent
<1>5. /\ delta \in Events /\ delta.type = "delta" /\ delta.index = n
      /\ delta.kind = kind /\ delta.tool = tool /\ delta.text = text
  BY <1>3 DEF IsEvent
<1>6. v = Append(u, delta)
  <2> HIDE DEF start, delta, Events
  <2> QED
    BY <1>1, <1>4, <1>5, TwoAppended DEF When
<1> HIDE DEF start, delta, v, Events
<1>7. p # 0
  BY <1>1
<1>8. /\ Book(u, n, p) /\ Signed(u) /\ (Tidy(w, n, o) => Tidy(u, n, p))
      /\ (NoEnd(w) => NoEnd(u)) /\ (HasCall(u) <=> HasCall(w))
      /\ (o # 0 => u[p] = w[p])
      /\ (o = 0 => u[p].kind = kind /\ u[p].tool = tool)
  <2>1. CASE ~starts
    BY <1>1, <2>1
  <2>2. CASE starts
    <3>1. Book(u, n, p)
      BY <1>4, <2>2, BookStart
    <3>2. Signed(u)
      BY <1>4, <2>2, SignedAppended
    <3>3. Tidy(w, n, o) => Tidy(u, n, p)
      BY <1>4, <2>2, TidyStart
    <3>4. (NoEnd(w) => NoEnd(u)) /\ (HasCall(u) <=> HasCall(w))
      BY <1>1, <1>4, <2>2, TellsMore
    <3>5. u[p] = start
      BY <1>1, <1>4, <2>2, Appended
    <3> QED
      BY <1>4, <2>2, <3>1, <3>2, <3>3, <3>4, <3>5
  <2> QED
    BY <2>1, <2>2
<1>9. ASSUME NEW t
      PROVE  StartsOf(u, t)
                = StartsOf(w, t) \cup (IF o = 0 /\ tool = t THEN {Len(w) + 1} ELSE {})
  <2>1. CASE ~starts
    BY <2>1
  <2>2. CASE starts
    BY <1>1, <1>4, <2>2, TellsMore
  <2> QED
    BY <2>1, <2>2
<1>10. \A t, args : Argued(w, t, args) => Argued(u, t, args)
  <2>1. CASE ~starts
    BY <2>1
  <2>2. CASE starts
    BY <1>1, <1>4, <2>2, TellsMore
  <2> QED
    BY <2>1, <2>2
<1> HIDE DEF u
<1>11. u \in Seq(Events) /\ p \in 0 .. Len(u)
  BY <1>8 DEF Book
<1> HIDE DEF p
<1>12. Book(v, n, p)
  BY <1>5, <1>6, <1>8, BookGoesOn
<1>13. Signed(v)
  BY <1>5, <1>6, <1>8, SignedAppended
<1>14. v[p] = u[p]
  BY <1>5, <1>6, <1>7, <1>11, Appended
<1>15. /\ NoEnd(u) => NoEnd(v)
       /\ HasCall(v) <=> HasCall(u) \/ kind = "tool_use"
       /\ \A t : StartsOf(v, t) = StartsOf(u, t) \cup {}
       /\ \A t, args : Argued(u, t, args) => Argued(v, t, args)
       /\ Argued(v, tool, text)
  BY <1>5, <1>6, <1>11, TellsMore
<1>16. ASSUME o # 0 => w[o].kind = kind /\ w[o].tool = tool, Tidy(w, n, o)
       PROVE  Tidy(v, n, p)
  <2>1. u[p].kind = kind /\ u[p].tool = tool /\ u[p].index = n /\ u[p] \in Events
    <3>1. u[p].kind = kind /\ u[p].tool = tool
      BY <1>8, <1>16 DEF p
    <3>2. u[p].index = n
      BY <1>7, <1>8 DEF Book
    <3>3. u[p] \in Events
      BY <1>7, <1>11
    <3> QED
      BY <3>1, <3>2, <3>3
  <2>2. delta = [u[p] EXCEPT !.type = "delta", !.text = delta.text]
    BY <1>5, <2>1, DeltaOf
  <2> QED
    BY <1>5, <1>6, <1>7, <1>8, <1>16, <2>2, TidyGoesOn
<1>17. Pieced(w, v, n, o, p, kind, tool, text)
  <2>1. o # 0 => p = o
    BY DEF p
  <2>2. \A t : StartsOf(v, t)
            = StartsOf(w, t) \cup (IF o = 0 /\ tool = t THEN {Len(w) + 1} ELSE {})
    BY <1>9, <1>15
  <2> QED
    BY <1>7, <1>8, <1>10, <1>12, <1>13, <1>14, <1>15, <1>16, <2>1, <2>2 DEF Pieced
<1> QED
  BY <1>17 DEF v, p, start, delta

\* The end of the message is told, and why.
Ended(v, reason) ==
    /\ Len(v) \in Nat \ {0}
    /\ v[Len(v)].type = "message_delta" /\ v[Len(v)].kind = reason
    /\ \A i \in 1 .. Len(v) - 1 : v[i].type \notin {"message_delta", "message_stop"}

\* The events of an end.
EndEvents(signs, n, reason) ==
    When(signs, <<BlockEvent("signature", n)>>)
        \o <<BlockEvent("stop", n), Event("message_delta", 0, reason, NoTool, <<>>)>>

\* From w to v the message ends, and with it block o, the n-th.
Concluded(w, v, n, o, reason) ==
    /\ Book(v, n + 1, 0)
    /\ Signed(v)
    /\ NoEnd(w) => Ended(v, reason)
    /\ HasCall(v) <=> HasCall(w)
    /\ \A t : StartsOf(v, t) = StartsOf(w, t)
    /\ \A t, args : Argued(w, t, args) => Argued(v, t, args)
    /\ o # 0 /\ Tidy(w, n, o) => Tidy(v, n + 1, 0)

LEMMA EndWrites ==
    ASSUME NEW w, NEW n, NEW o, Book(w, n, o), Signed(w), NEW signs \in BOOLEAN,
           signs => o # 0,
           o # 0 /\ w[o].kind = "thinking" => signs,
           NEW reason \in Kinds
    PROVE  Concluded(w, w \o EndEvents(signs, n, reason), n, o, reason)
<1> DEFINE sig == BlockEvent("signature", n)
           stop == BlockEvent("stop", n)
           last == Event("message_delta", 0, reason, NoTool, <<>>)
           closing == When(signs, <<sig>>) \o <<stop>>
           u == w \o closing
           v == w \o (When(signs, <<sig>>) \o <<stop, last>>)
<1>1. w \in Seq(Events) /\ n \in Nat
  BY DEF Book
<1>2. /\ "signature" \in EventTypes /\ "stop" \in EventTypes
      /\ "message_delta" \in EventTypes /\ <<>> \in AnyText /\ NoTool \in AnyTool
  BY DEF EventTypes, AnyText, AnyTool
<1>3. /\ IsEvent(sig, "signature", n, "", NoTool, <<>>)
      /\ IsEvent(stop, "stop", n, "", NoTool, <<>>)
  BY <1>1, <1>2, BlockEventIs
<1>4. IsEvent(last, "message_delta", 0, reason, NoTool, <<>>)
  BY <1>2, EventIs
<1>5. /\ sig \in Events /\ stop \in Events
      /\ last \in Events /\ last.type = "message_delta" /\ last.kind = reason
  BY <1>3, <1>4 DEF IsEvent
<1>6. /\ Book(u, n + 1, 0) /\ Signed(u) /\ Quiet(w, u)
      /\ (o # 0 /\ Tidy(w, n, o) => Tidy(u, n + 1, 0))
  BY BlockCloses
<1>7. v = Append(u, last)
  <2> HIDE DEF sig, stop, last, Events
  <2>1. closing \in Seq(Events) /\ When(signs, <<sig>>) \in Seq(Events)
    BY <1>5 DEF When
  <2>2. <<stop, last>> = <<stop>> \o <<last>> /\ <<stop>> \in Seq(Events)
        /\ <<last>> \in Seq(Events)
    BY <1>5, Pair
  <2>3. When(signs, <<sig>>) \o (<<stop>> \o <<last>>) = closing \o <<last>>
    BY <2>1, <2>2, JoinedTwice
  <2>4. w \o (closing \o <<last>>) = (w \o closing) \o <<last>>
    BY <1>1, <2>1, <2>2, JoinedTwice
  <2>5. u \in Seq(Events)
    BY <1>6 DEF Book
  <2>6. u \o <<last>> = Append(u, last)
    BY <1>5, <2>5, JoinedOne
  <2> QED
    BY <2>2, <2>3, <2>4, <2>6
<1> HIDE DEF sig, stop, last, closing, u, v, Events
<1>8. u \in Seq(Events)
  BY <1>6 DEF Book
<1>9. Book(v, n + 1, 0)
  BY <1>5, <1>6, <1>7, BookGoesOn
<1>10. Signed(v)
  BY <1>5, <1>6, <1>7, SignedAppended
<1>11. /\ HasCall(v) <=> HasCall(u)
       /\ \A t : StartsOf(v, t) = StartsOf(u, t) \cup {}
       /\ \A t, args : Argued(u, t, args) => Argued(v, t, args)
  BY <1>5, <1>7, <1>8, TellsMore
<1>12. NoEnd(u) => Ended(v, reason)
  <2>1. /\ Len(v) = Len(u) + 1 /\ Len(u) \in Nat
        /\ \A i \in 1 .. Len(u) : v[i] = u[i]
        /\ v[Len(u) + 1] = last
    BY <1>5, <1>7, <1>8, Appended
  <2>2. Len(v) - 1 = Len(u) /\ Len(v) \in Nat \ {0}
    BY <2>1
  <2> QED
    BY <1>5, <2>1, <2>2 DEF NoEnd, Ended
<1>13. o # 0 /\ Tidy(w, n, o) => Tidy(v, n + 1, 0)
  BY <1>5, <1>6, <1>7, TidyGoesOn
<1>14. Concluded(w, v, n, o, reason)
  BY <1>6, <1>9, <1>10, <1>11, <1>12, <1>13 DEF Quiet, Concluded
<1> QED
  BY <1>14 DEF v, sig, stop, last, EndEvents

-----------------------------------------------------------------------------
(* The states of the serializer.                                           *)

SerStates ==
    [index : Nat, needStart : BOOLEAN, text : BOOLEAN, reasoning : BOOLEAN,
     tool : BOOLEAN, hasTools : BOOLEAN]

LEMMA ClosedIs ==
    ASSUME NEW s \in SerStates
    PROVE  /\ Closed(s) \in SerStates
           /\ Closed(s).index = s.index + 1 /\ Closed(s).needStart
           /\ ~Closed(s).text /\ ~Closed(s).reasoning /\ ~Closed(s).tool
           /\ Closed(s).hasTools = s.hasTools
<1> SUFFICES ASSUME NEW r, r = Closed(s)
             PROVE  /\ r \in SerStates
                    /\ r.index = s.index + 1 /\ r.needStart
                    /\ ~r.text /\ ~r.reasoning /\ ~r.tool
                    /\ r.hasTools = s.hasTools
  OBVIOUS
<1>1. r = [index |-> s.index + 1, needStart |-> TRUE, text |-> FALSE,
           reasoning |-> FALSE, tool |-> FALSE, hasTools |-> s.hasTools]
  BY DEF Closed, SerStates
<1> QED
  BY <1>1 DEF SerStates

\* The flags after the events of chunk c.
Flags(s, c) ==
    [s EXCEPT
        !.needStart = @ /\ ~(c.reasoning \/ c.content \/ c.tool # NoTool),
        !.reasoning = (@ \/ c.reasoning) /\ c.tool = NoTool,
        !.text = (@ \/ c.content) /\ c.tool = NoTool,
        !.tool = @ \/ c.tool # NoTool,
        !.hasTools = @ \/ c.tool # NoTool]

LEMMA AfterIs ==
    \A s, c : After(s, c) = IF c.done THEN Closed(Flags(s, c)) ELSE Flags(s, c)
BY DEF After, Flags

LEMMA FlagsAre ==
    ASSUME NEW s \in SerStates, NEW c \in Chunk
    PROVE  LET f == Flags(s, c)
           IN  /\ f \in SerStates
               /\ f.index = s.index
               /\ f.needStart <=> /\ s.needStart
                                  /\ ~c.reasoning /\ ~c.content /\ c.tool = NoTool
               /\ f.reasoning <=> (s.reasoning \/ c.reasoning) /\ c.tool = NoTool
               /\ f.text <=> (s.text \/ c.content) /\ c.tool = NoTool
               /\ f.tool <=> s.tool \/ c.tool # NoTool
               /\ f.hasTools <=> s.hasTools \/ c.tool # NoTool
<1> DEFINE none == c.tool = NoTool
           f == Flags(s, c)
           r == c.reasoning
           w == c.content
<1>1. r \in BOOLEAN /\ w \in BOOLEAN /\ none \in BOOLEAN
  BY DEF Chunk
<1>2. f = [s EXCEPT !.needStart = @ /\ ~(r \/ w \/ ~none),
                    !.reasoning = (@ \/ r) /\ none,
                    !.text = (@ \/ w) /\ none,
                    !.tool = @ \/ ~none,
                    !.hasTools = @ \/ ~none]
  BY DEF Flags
<1> HIDE DEF none, r, w, f
<1>3. f = [index |-> s.index, needStart |-> s.needStart /\ ~(r \/ w \/ ~none),
           text |-> (s.text \/ w) /\ none, reasoning |-> (s.reasoning \/ r) /\ none,
           tool |-> s.tool \/ ~none, hasTools |-> s.hasTools \/ ~none]
  BY <1>2 DEF SerStates
<1>4. /\ f \in SerStates
      /\ f.index = s.index
      /\ f.needStart <=> s.needStart /\ ~(r \/ w \/ ~none)
      /\ f.reasoning <=> (s.reasoning \/ r) /\ none
      /\ f.text <=> (s.text \/ w) /\ none
      /\ f.tool <=> s.tool \/ ~none
      /\ f.hasTools <=> s.hasTools \/ ~none
  BY <1>1, <1>3 DEF SerStates
<1> QED
  BY <1>1, <1>4 DEF f, none, r, w

-----------------------------------------------------------------------------
(* A chunk: the block before it is closed, its piece is told, and the end.  *)

\* The piece of a chunk.
Body(s, c) ==
    IF c.reasoning THEN Block(s, "thinking", NoTool, <<>>)
    ELSE IF c.content THEN Block(s, "text", NoTool, c.text)
    ELSE IF c.tool # NoTool THEN Block(s, "tool_use", c.tool, c.text)
    ELSE <<>>

\* The end of the message, with the last chunk.
Last(s, c) ==
    When(s.reasoning, <<BlockEvent("signature", s.index)>>)
        \o <<BlockEvent("stop", s.index),
             Event("message_delta", 0, StopReason(s, c), NoTool, <<>>)>>

LEMMA Constants ==
    /\ {"thinking", "text", "tool_use", "end_turn", ""} \subseteq Kinds
    /\ NoTool \in AnyTool /\ <<>> \in AnyText
    /\ {"start", "delta", "signature", "stop", "message_delta", "message_stop",
        "error"} \subseteq EventTypes
BY DEF Kinds, AnyTool, AnyText, EventTypes

LEMMA ChunkFields ==
    ASSUME NEW c, OneThing(c)
    PROVE  /\ c.reasoning \in BOOLEAN /\ c.content \in BOOLEAN /\ c.done \in BOOLEAN
           /\ c.tool \in AnyTool /\ c.text \in AnyText
BY DEF OneThing, Chunk, AnyTool, AnyText

LEMMA BlockTyped ==
    ASSUME NEW s \in SerStates, NEW kind \in Kinds, NEW tool \in AnyTool,
           NEW text \in AnyText
    PROVE  Block(s, kind, tool, text) \in Seq(Events)
<1> DEFINE start == Event("start", s.index, kind, tool, <<>>)
           delta == Event("delta", s.index, kind, tool, text)
<1>1. s.index \in Nat /\ s.needStart \in BOOLEAN
  BY DEF SerStates
<1>2. "start" \in EventTypes /\ "delta" \in EventTypes /\ <<>> \in AnyText
  BY Constants
<1>3. /\ IsEvent(start, "start", s.index, kind, tool, <<>>)
      /\ IsEvent(delta, "delta", s.index, kind, tool, text)
  BY <1>1, <1>2, EventIs
<1>4. start \in Events /\ delta \in Events
  BY <1>3 DEF IsEvent
<1>5. Block(s, kind, tool, text) = When(s.needStart, <<start>>) \o <<delta>>
  BY DEF Block
<1> HIDE DEF start, delta, Events
<1> QED
  BY <1>1, <1>4, <1>5 DEF When

LEMMA EndTyped ==
    ASSUME NEW s \in SerStates, NEW c, OneThing(c)
    PROVE  /\ Closing(s) \in Seq(Events)
           /\ Last(s, c) \in Seq(Events)
           /\ Body(s, c) \in Seq(Events)
           /\ StopReason(s, c) \in Kinds
<1> DEFINE sig == BlockEvent("signature", s.index)
           stop == BlockEvent("stop", s.index)
           last == Event("message_delta", 0, StopReason(s, c), NoTool, <<>>)
<1>1. s.index \in Nat /\ s.reasoning \in BOOLEAN
  BY DEF SerStates
<1>2. StopReason(s, c) \in Kinds
  BY DEF StopReason, Kinds
<1>3. /\ "signature" \in EventTypes /\ "stop" \in EventTypes
      /\ "message_delta" \in EventTypes /\ NoTool \in AnyTool /\ <<>> \in AnyText
  BY Constants
<1>4. /\ IsEvent(sig, "signature", s.index, "", NoTool, <<>>)
      /\ IsEvent(stop, "stop", s.index, "", NoTool, <<>>)
  BY <1>1, <1>3, BlockEventIs
<1>5. IsEvent(last, "message_delta", 0, StopReason(s, c), NoTool, <<>>)
  BY <1>2, <1>3, EventIs
<1>6. sig \in Events /\ stop \in Events /\ last \in Events
  BY <1>4, <1>5 DEF IsEvent
<1>7. Closing(s) = When(s.reasoning, <<sig>>) \o <<stop>>
  BY DEF Closing
<1>8. Last(s, c) = When(s.reasoning, <<sig>>) \o <<stop, last>>
  BY DEF Last
<1> HIDE DEF sig, stop, last, Events
<1>9. Closing(s) \in Seq(Events)
  BY <1>1, <1>6, <1>7 DEF When
<1>10. Last(s, c) \in Seq(Events)
  BY <1>1, <1>6, <1>8 DEF When
<1>11. Body(s, c) \in Seq(Events)
  <2>1. "thinking" \in Kinds /\ "text" \in Kinds /\ "tool_use" \in Kinds
    BY Constants
  <2>2. c.tool \in AnyTool /\ c.text \in AnyText
    BY ChunkFields
  <2>3. /\ Block(s, "thinking", NoTool, <<>>) \in Seq(Events)
        /\ Block(s, "text", NoTool, c.text) \in Seq(Events)
        /\ Block(s, "tool_use", c.tool, c.text) \in Seq(Events)
    BY <1>3, <2>1, <2>2, BlockTyped
  <2>4. <<>> \in Seq(Events)
    OBVIOUS
  <2> QED
    BY <2>3, <2>4 DEF Body
<1> QED
  BY <1>2, <1>9, <1>10, <1>11

LEMMA EmittedIs ==
    ASSUME NEW s \in SerStates, NEW c, OneThing(c)
    PROVE  Emitted(s, c) = Body(s, c) \o When(c.done, Last(s, c))
<1> DEFINE thinking == Block(s, "thinking", NoTool, <<>>)
           text == Block(s, "text", NoTool, c.text)
           call == Block(s, "tool_use", c.tool, c.text)
           sig == <<BlockEvent("signature", s.index)>>
           end == <<BlockEvent("stop", s.index),
                    Event("message_delta", 0, StopReason(s, c), NoTool, <<>>)>>
           closes == c.done /\ (s.reasoning \/ c.reasoning)
           signs == closes /\ ~c.reasoning
<1>1. Emitted(s, c) = When(c.reasoning, thinking \o When(closes, sig))
                        \o When(c.content, text)
                        \o When(c.tool # NoTool, call)
                        \o When(c.done, When(signs, sig) \o end)
  BY DEF Emitted
<1>2. /\ Last(s, c) = When(s.reasoning, sig) \o end
      /\ Body(s, c) = IF c.reasoning THEN thinking
                      ELSE IF c.content THEN text
                      ELSE IF c.tool # NoTool THEN call ELSE <<>>
  BY DEF Last, Body
<1>3. /\ c.reasoning \in BOOLEAN /\ c.content \in BOOLEAN /\ c.done \in BOOLEAN
      /\ c.reasoning => ~c.content /\ c.tool = NoTool /\ ~c.done
      /\ c.content => c.tool = NoTool
      /\ s.reasoning \in BOOLEAN
  BY ChunkFields DEF OneThing, SerStates
<1>4. thinking \in Seq(Events) /\ text \in Seq(Events) /\ call \in Seq(Events)
  <2>1. "thinking" \in Kinds /\ "text" \in Kinds /\ "tool_use" \in Kinds
        /\ NoTool \in AnyTool /\ <<>> \in AnyText
    BY Constants
  <2>2. c.tool \in AnyTool /\ c.text \in AnyText
    BY ChunkFields
  <2> QED
    BY <2>1, <2>2, BlockTyped
<1>5. Last(s, c) \in Seq(Events)
  BY EndTyped
<1> DEFINE none == c.tool = NoTool
<1>6. none \in BOOLEAN
  OBVIOUS
<1> HIDE DEF thinking, text, call, sig, end, none, Events
<1>7. c.done => (When(signs, sig) \o end = Last(s, c))
  BY <1>2, <1>3 DEF When
<1>8. When(c.done, When(signs, sig) \o end) = When(c.done, Last(s, c))
  BY <1>3, <1>7 DEF When
<1> DEFINE z == When(c.done, Last(s, c))
<1>9. z \in Seq(Events) /\ (~c.done => z = <<>>)
  BY <1>3, <1>5 DEF When
<1>10. Emitted(s, c) = When(c.reasoning, thinking \o When(closes, sig))
                        \o When(c.content, text) \o When(~none, call) \o z
  BY <1>1, <1>8 DEF none
<1>11. /\ Body(s, c) = IF c.reasoning THEN thinking
                       ELSE IF c.content THEN text
                       ELSE IF ~none THEN call ELSE <<>>
       /\ c.reasoning => ~c.content /\ none /\ ~c.done
       /\ c.content => none
  BY <1>2, <1>3 DEF none
<1> HIDE DEF z
<1>12. CASE c.reasoning
  <2>1. Emitted(s, c) = (thinking \o <<>>) \o <<>> \o <<>> \o z
    BY <1>10, <1>11, <1>12 DEF When
  <2> QED
    BY <1>4, <1>9, <1>11, <1>12, <2>1, JoinedNone DEF z
<1>13. CASE c.content
  <2>1. Emitted(s, c) = <<>> \o text \o <<>> \o z
    BY <1>3, <1>10, <1>11, <1>13 DEF When
  <2> QED
    BY <1>4, <1>3, <1>9, <1>11, <1>13, <2>1, JoinedNone DEF z
<1>14. CASE ~c.reasoning /\ ~c.content /\ ~none
  <2>1. Emitted(s, c) = <<>> \o <<>> \o call \o z
    BY <1>3, <1>10, <1>11, <1>14 DEF When
  <2> QED
    BY <1>4, <1>3, <1>9, <1>11, <1>14, <2>1, JoinedNone DEF z
<1>15. CASE ~c.reasoning /\ ~c.content /\ none
  <2>1. Emitted(s, c) = <<>> \o <<>> \o <<>> \o z
    BY <1>3, <1>10, <1>11, <1>15 DEF When
  <2> QED
    BY <1>4, <1>3, <1>9, <1>11, <1>15, <2>1, JoinedNone DEF z
<1> QED
  BY <1>3, <1>6, <1>12, <1>13, <1>14, <1>15

\* The block of another kind is closed before chunk c.
LEMMA ReopenWrites ==
    ASSUME NEW s, NEW w, NEW o, Writes(s, w, o), NEW c, OneThing(c)
    PROVE  LET nc == NeedsClose(s, c)
               r == IF nc THEN Closed(s) ELSE s
               v == w \o When(nc, Closing(s))
               p == IF nc THEN 0 ELSE o
           IN  /\ Writes(r, v, p)
               /\ Quiet(w, v)
               /\ Tidy(w, s.index, o) => Tidy(v, r.index, p)
<1> DEFINE nc == NeedsClose(s, c)
           r == IF nc THEN Closed(s) ELSE s
           v == w \o When(nc, Closing(s))
           p == IF nc THEN 0 ELSE o
<1>1. /\ s \in SerStates /\ Single(s) /\ Book(w, s.index, o) /\ Agrees(s, w, o)
      /\ Signed(w) /\ (s.hasTools <=> HasCall(w)) /\ w \in Seq(Events)
  BY DEF Writes, Single, SerStates, Book
<1>2. CASE ~nc
  <2>1. v = w
    BY <1>1, <1>2, JoinedNone DEF When
  <2> QED
    BY <1>2, <2>1, QuietSelf
<1>3. CASE nc
  <2>1. ~s.needStart
    BY <1>1, <1>3 DEF NeedsClose, Single
  <2>2. o # 0 /\ s.reasoning \in BOOLEAN
        /\ (w[o].kind = "thinking" => s.reasoning)
    BY <1>1, <2>1 DEF Agrees, SerStates
  <2>3. v = w \o (When(s.reasoning, <<BlockEvent("signature", s.index)>>)
                    \o <<BlockEvent("stop", s.index)>>)
    BY <1>3 DEF When, Closing
  <2> HIDE DEF v
  <2>4. /\ Book(v, s.index + 1, 0)
        /\ Signed(v)
        /\ Quiet(w, v)
        /\ Tidy(w, s.index, o) => Tidy(v, s.index + 1, 0)
    BY <1>1, <2>2, <2>3, BlockCloses
  <2>5. /\ Closed(s) \in SerStates
        /\ Closed(s).index = s.index + 1 /\ Closed(s).needStart
        /\ ~Closed(s).text /\ ~Closed(s).reasoning /\ ~Closed(s).tool
        /\ Closed(s).hasTools = s.hasTools
    BY <1>1, ClosedIs
  <2>6. r = Closed(s) /\ p = 0
    BY <1>3
  <2> HIDE DEF r, p
  <2>7. Single(r)
    BY <2>5, <2>6 DEF Single, SerStates
  <2>8. Agrees(r, v, p)
    BY <2>5, <2>6 DEF Agrees
  <2>9. r.hasTools <=> HasCall(v)
    BY <1>1, <2>4, <2>5, <2>6 DEF Quiet
  <2>10. Writes(r, v, p)
    BY <2>4, <2>5, <2>6, <2>7, <2>8, <2>9 DEF Writes
  <2>11. Tidy(w, s.index, o) => Tidy(v, r.index, p)
    BY <2>4, <2>5, <2>6
  <2> QED
    BY <2>4, <2>10, <2>11 DEF nc, r, v, p
<1> HIDE DEF nc, r, v, p
<1>4. nc \in BOOLEAN
  BY DEF nc, NeedsClose
<1>5. nc => /\ Writes(r, v, p)
            /\ Quiet(w, v)
            /\ Tidy(w, s.index, o) => Tidy(v, r.index, p)
  BY <1>3 DEF nc, r, v, p
<1>6. ~nc => /\ Writes(r, v, p)
             /\ Quiet(w, v)
             /\ Tidy(w, s.index, o) => Tidy(v, r.index, p)
  BY <1>2 DEF nc, r, v, p
<1> QED
  BY <1>4, <1>5, <1>6 DEF nc, r, v, p

\* What may follow in a block that is open.
MayFollow(s, c) ==
    /\ c.reasoning => ~s.text /\ ~s.tool
    /\ c.content => ~s.reasoning /\ (s.tool => c.done)
    /\ c.tool # NoTool => ~s.reasoning /\ ~s.text /\ (s.tool => c.done)
    /\ s.tool => c.done

LEMMA ReopenedFollows ==
    ASSUME NEW s, Single(s), NEW c, OneThing(c)
    PROVE  LET r == IF NeedsClose(s, c) THEN Closed(s) ELSE s
           IN  /\ MayFollow(r, c)
               /\ r.tool => s.tool
               /\ ~c.reasoning /\ ~c.content /\ c.tool = NoTool /\ c.done => r = s
               /\ ~s.needStart /\ ~NeedsClose(s, c) => ~r.needStart
<1>1. s \in SerStates
  BY DEF Single, SerStates
<1>2. /\ ~Closed(s).text /\ ~Closed(s).reasoning /\ ~Closed(s).tool
  BY <1>1, ClosedIs
<1>3. NeedsClose(s, c) <=> \/ s.reasoning /\ (c.content \/ c.tool # NoTool)
                           \/ s.text /\ (c.tool # NoTool \/ c.reasoning)
                           \/ s.tool /\ ~c.done
  BY DEF NeedsClose
<1>4. /\ c.reasoning => ~c.content /\ c.tool = NoTool /\ ~c.done
      /\ c.content => c.tool = NoTool
      /\ s.reasoning \in BOOLEAN /\ s.text \in BOOLEAN /\ s.tool \in BOOLEAN
      /\ c.reasoning \in BOOLEAN /\ c.content \in BOOLEAN /\ c.done \in BOOLEAN
  BY <1>1, ChunkFields DEF OneThing, SerStates
<1>5. CASE NeedsClose(s, c)
  BY <1>2, <1>3, <1>4, <1>5 DEF MayFollow
<1>6. CASE ~NeedsClose(s, c)
  BY <1>3, <1>4, <1>6 DEF MayFollow
<1> QED
  BY <1>5, <1>6

\* How often tool call t has begun.
Begun(w, t) == Cardinality(StartsOf(w, t))

LEMMA BegunMore ==
    ASSUME NEW w \in Seq(Events), NEW v, NEW t, NEW starts \in BOOLEAN,
           StartsOf(v, t) = StartsOf(w, t) \cup (IF starts THEN {Len(w) + 1} ELSE {})
    PROVE  /\ Begun(w, t) \in Nat
           /\ Begun(v, t) = Begun(w, t) + (IF starts THEN 1 ELSE 0)
<1>1. Len(w) \in Nat
  OBVIOUS
<1>2. StartsOf(w, t) \subseteq 1 .. Len(w)
  BY DEF StartsOf
<1>3. IsFiniteSet(1 .. Len(w))
  BY <1>1, FS_Interval
<1>4. IsFiniteSet(StartsOf(w, t)) /\ Len(w) + 1 \notin StartsOf(w, t)
  <2>1. IsFiniteSet(StartsOf(w, t))
    BY <1>2, <1>3, FS_Subset
  <2>2. Len(w) + 1 \notin 1 .. Len(w)
    BY <1>1
  <2> QED
    BY <1>2, <2>1, <2>2
<1>5. Cardinality(StartsOf(w, t)) \in Nat
  BY <1>4, FS_CardinalityType
<1>6. CASE starts
  <2>1. StartsOf(v, t) = StartsOf(w, t) \cup {Len(w) + 1}
    BY <1>6
  <2>2. Cardinality(StartsOf(v, t)) = Cardinality(StartsOf(w, t)) + 1
    BY <1>4, <2>1, FS_AddElement
  <2> QED
    BY <1>5, <1>6, <2>2 DEF Begun
<1>7. CASE ~starts
  BY <1>5, <1>7 DEF Begun
<1> QED
  BY <1>6, <1>7

\* The piece of chunk c is told after w, and v is the result: the state's flags
\* say which block is open, and the histories have what is new.
Bodied(s, c, w, v, o, p) ==
    /\ Book(v, s.index, p)
    /\ Signed(v)
    /\ p = 0 <=> Flags(s, c).needStart
    /\ p # 0 => (v[p].kind = "thinking" <=> Flags(s, c).reasoning)
    /\ ~c.done => Agrees(Flags(s, c), v, p)
    /\ Flags(s, c).hasTools <=> HasCall(v)
    /\ NoEnd(w) => NoEnd(v)
    /\ \A t \in Tools : Begun(v, t) = Begun(w, t) + (IF s.needStart /\ c.tool = t
                                                     THEN 1 ELSE 0)
    /\ \A t, args : Argued(w, t, args) => Argued(v, t, args)
    /\ c.tool # NoTool => Argued(v, c.tool, c.text)
    /\ ~s.tool /\ Tidy(w, s.index, o) => Tidy(v, s.index, p)

\* A bit of a block told by whichever of the three kinds it is of.
LEMMA PieceBodied ==
    ASSUME NEW s, NEW w, NEW o, Writes(s, w, o), NEW c, OneThing(c), MayFollow(s, c),
           NEW kind, NEW tool, NEW text \in AnyText,
           \/ c.reasoning /\ kind = "thinking" /\ tool = NoTool
           \/ c.content /\ kind = "text" /\ tool = NoTool
           \/ c.tool # NoTool /\ kind = "tool_use" /\ tool = c.tool /\ text = c.text
    PROVE  Bodied(s, c, w, w \o Block(s, kind, tool, text), o,
                  IF o = 0 THEN Len(w) + 1 ELSE o)
<1> DEFINE v == w \o Block(s, kind, tool, text)
           p == IF o = 0 THEN Len(w) + 1 ELSE o
           f == Flags(s, c)
<1>1. /\ s \in SerStates /\ Single(s) /\ Book(w, s.index, o) /\ Agrees(s, w, o)
      /\ Signed(w) /\ (s.hasTools <=> HasCall(w)) /\ w \in Seq(Events)
  BY DEF Writes, Single, SerStates, Book
<1>2. /\ c.reasoning \in BOOLEAN /\ c.content \in BOOLEAN /\ c.done \in BOOLEAN
      /\ c.tool \in AnyTool /\ c \in Chunk
      /\ c.reasoning => ~c.content /\ c.tool = NoTool /\ ~c.done
      /\ c.content => c.tool = NoTool
  BY ChunkFields DEF OneThing
<1>3. kind \in Kinds /\ tool \in AnyTool
  BY <1>2, Constants
<1>4. s.needStart \in BOOLEAN /\ (s.needStart <=> o = 0)
  BY <1>1 DEF SerStates, Agrees
<1>5. Pieced(w, v, s.index, o, p, kind, tool, text)
  <2>1. v = w \o (When(s.needStart, <<Event("start", s.index, kind, tool, <<>>)>>)
                    \o <<Event("delta", s.index, kind, tool, text)>>)
    BY DEF Block
  <2> HIDE DEF v
  <2> QED
    BY <1>1, <1>3, <1>4, <2>1, PieceWrites
<1>6. /\ f \in SerStates
      /\ f.index = s.index
      /\ f.needStart <=> /\ s.needStart
                         /\ ~c.reasoning /\ ~c.content /\ c.tool = NoTool
      /\ f.reasoning <=> (s.reasoning \/ c.reasoning) /\ c.tool = NoTool
      /\ f.text <=> (s.text \/ c.content) /\ c.tool = NoTool
      /\ f.tool <=> s.tool \/ c.tool # NoTool
      /\ f.hasTools <=> s.hasTools \/ c.tool # NoTool
  BY <1>1, <1>2, FlagsAre
<1> HIDE DEF v, p, f
<1>7. /\ Book(v, s.index, p) /\ p # 0 /\ Signed(v)
      /\ o # 0 => p = o /\ v[p] = w[p]
      /\ o = 0 => v[p].kind = kind /\ v[p].tool = tool
      /\ NoEnd(w) => NoEnd(v)
      /\ HasCall(v) <=> HasCall(w) \/ kind = "tool_use"
      /\ \A t, args : Argued(w, t, args) => Argued(v, t, args)
      /\ Argued(v, tool, text)
      /\ (o # 0 => w[o].kind = kind /\ w[o].tool = tool) /\ Tidy(w, s.index, o)
           => Tidy(v, s.index, p)
  BY <1>5 DEF Pieced
<1>8. ~f.needStart
  BY <1>6
<1>9. /\ ~(s.text /\ s.reasoning) /\ ~(s.text /\ s.tool) /\ ~(s.reasoning /\ s.tool)
      /\ s.needStart <=> ~s.text /\ ~s.reasoning /\ ~s.tool
      /\ s.text \in BOOLEAN /\ s.reasoning \in BOOLEAN /\ s.tool \in BOOLEAN
  BY <1>1 DEF Single, SerStates
<1>10. /\ c.reasoning => ~s.text /\ ~s.tool
       /\ c.content => ~s.reasoning /\ (s.tool => c.done)
       /\ c.tool # NoTool => ~s.reasoning /\ ~s.text /\ (s.tool => c.done)
       /\ s.tool => c.done
  BY DEF MayFollow
<1>11. o # 0 => /\ w[o].kind = "thinking" <=> s.reasoning
                /\ w[o].kind = "text" <=> s.text
                /\ w[o].kind = "tool_use" <=> s.tool
                /\ ~s.tool => w[o].tool = NoTool
  BY <1>1 DEF Agrees
<1>12. v[p].kind = "thinking" <=> f.reasoning
  <2>1. CASE o = 0
    BY <1>2, <1>4, <1>6, <1>7, <1>9, <2>1
  <2>2. CASE o # 0
    BY <1>2, <1>4, <1>6, <1>7, <1>9, <1>10, <1>11, <2>2
  <2> QED
    BY <2>1, <2>2
<1>13. ~c.done => Agrees(f, v, p)
  <2> SUFFICES ASSUME ~c.done PROVE Agrees(f, v, p)
    OBVIOUS
  <2>1. CASE o = 0
    BY <1>2, <1>4, <1>6, <1>7, <1>8, <1>9, <1>10, <2>1 DEF Agrees
  <2>2. CASE o # 0
    BY <1>2, <1>4, <1>6, <1>7, <1>8, <1>9, <1>10, <1>11, <2>2 DEF Agrees
  <2> QED
    BY <2>1, <2>2
<1>14. f.hasTools <=> HasCall(v)
  BY <1>1, <1>2, <1>6, <1>7
<1>15. ASSUME NEW t \in Tools
       PROVE  Begun(v, t) = Begun(w, t) + (IF s.needStart /\ c.tool = t THEN 1 ELSE 0)
  <2> DEFINE starts == o = 0 /\ tool = t
  <2>1. starts \in BOOLEAN
    OBVIOUS
  <2>2. StartsOf(v, t) = StartsOf(w, t) \cup (IF starts THEN {Len(w) + 1} ELSE {})
    BY <1>5 DEF Pieced
  <2>3. starts <=> s.needStart /\ c.tool = t
    <3>1. t # NoTool
      OBVIOUS
    <3> QED
      BY <1>2, <1>4, <3>1
  <2> HIDE DEF starts
  <2> QED
    BY <1>1, <2>1, <2>2, <2>3, BegunMore
<1>16. c.tool # NoTool => Argued(v, c.tool, c.text)
  BY <1>2, <1>7
<1>17. ~s.tool /\ Tidy(w, s.index, o) => Tidy(v, s.index, p)
  BY <1>2, <1>4, <1>7, <1>9, <1>10, <1>11
<1>18. Bodied(s, c, w, v, o, p)
  BY <1>7, <1>8, <1>12, <1>13, <1>14, <1>15, <1>16, <1>17 DEF Bodied, f
<1> QED
  BY <1>18 DEF v, p

LEMMA BodyWrites ==
    ASSUME NEW s, NEW w, NEW o, Writes(s, w, o), NEW c, OneThing(c), MayFollow(s, c)
    PROVE  \E p : Bodied(s, c, w, w \o Body(s, c), o, p)
<1>1. c.text \in AnyText /\ <<>> \in AnyText
  BY ChunkFields, Constants
<1>2. CASE c.reasoning
  <2>1. Body(s, c) = Block(s, "thinking", NoTool, <<>>)
    BY <1>2 DEF Body
  <2> QED
    BY <1>1, <1>2, <2>1, PieceBodied
<1>3. CASE ~c.reasoning /\ c.content
  <2>1. Body(s, c) = Block(s, "text", NoTool, c.text)
    BY <1>3 DEF Body
  <2> QED
    BY <1>1, <1>3, <2>1, PieceBodied
<1>4. CASE ~c.reasoning /\ ~c.content /\ c.tool # NoTool
  <2>1. Body(s, c) = Block(s, "tool_use", c.tool, c.text)
    BY <1>4 DEF Body
  <2> QED
    BY <1>1, <1>4, <2>1, PieceBodied
<1>5. CASE ~c.reasoning /\ ~c.content /\ c.tool = NoTool
  <2>1. Body(s, c) = <<>>
    BY <1>5 DEF Body
  <2>2. /\ s \in SerStates /\ Single(s) /\ Book(w, s.index, o) /\ Agrees(s, w, o)
        /\ Signed(w) /\ (s.hasTools <=> HasCall(w)) /\ w \in Seq(Events)
    BY DEF Writes, Single, SerStates, Book
  <2>3. w \o Body(s, c) = w
    BY <2>1, <2>2, JoinedNone
  <2> DEFINE f == Flags(s, c)
  <2>4. /\ f.needStart <=> s.needStart
        /\ f.reasoning <=> s.reasoning
        /\ f.text <=> s.text
        /\ f.tool <=> s.tool
        /\ f.hasTools <=> s.hasTools
    BY <1>5, <2>2, FlagsAre DEF OneThing
  <2> HIDE DEF f
  <2>5. Agrees(f, w, o)
    BY <2>2, <2>4 DEF Agrees
  <2>6. \A t \in Tools : Begun(w, t) = Begun(w, t) + (IF s.needStart /\ c.tool = t
                                                      THEN 1 ELSE 0)
    <3> SUFFICES ASSUME NEW t \in Tools PROVE c.tool # t /\ Begun(w, t) \in Nat
      OBVIOUS
    <3>1. t # NoTool
      OBVIOUS
    <3> DEFINE starts == FALSE
    <3>2. StartsOf(w, t) = StartsOf(w, t) \cup (IF starts THEN {Len(w) + 1} ELSE {})
          /\ starts \in BOOLEAN
      OBVIOUS
    <3> HIDE DEF starts
    <3>3. Begun(w, t) \in Nat
      BY <2>2, <3>2, BegunMore
    <3> QED
      BY <1>5, <3>1, <3>3
  <2>7. /\ o = 0 <=> f.needStart
        /\ o # 0 => (w[o].kind = "thinking" <=> f.reasoning)
    BY <2>5 DEF Agrees
  <2>8. Bodied(s, c, w, w, o, o)
    BY <1>5, <2>2, <2>4, <2>5, <2>6, <2>7 DEF Bodied, f
  <2> QED
    BY <2>3, <2>8
<1> QED
  BY <1>2, <1>3, <1>4, <1>5

\* The state before the last chunk has a block to stop, or the chunk has one,
\* and none of a tool is open.
Ready(s, c) ==
    c.done => ~s.tool /\ (c.content \/ c.tool # NoTool \/ ~s.needStart)

\* The reason a message ends for.
Reason1(v) == IF HasCall(v) THEN "tool_use" ELSE "end_turn"

\* The flags of state r, after state s and a chunk that is not the last.
Turned(s, c, r) ==
    ~c.done =>
        /\ r.tool <=> c.tool # NoTool
        /\ r.needStart <=> /\ ~c.reasoning /\ ~c.content /\ c.tool = NoTool
                           /\ s.needStart \/ s.tool

\* Chunk c took state s and events w to state r and events v.
Wrote(s, w, c, r, v) ==
    /\ \E p : Writes(r, v, p)
    /\ Turned(s, c, r)
    /\ c.done => r.needStart
    /\ NoEnd(w) /\ ~c.done => NoEnd(v)
    /\ NoEnd(w) /\ c.done => Ended(v, Reason1(v))
    /\ Ready(s, c) \/ c.tool = NoTool =>
          \A t \in Tools : Begun(v, t) = Begun(w, t) + (IF c.tool = t THEN 1 ELSE 0)
    /\ \A t, args : Argued(w, t, args) => Argued(v, t, args)
    /\ c.tool # NoTool => Argued(v, c.tool, c.text)
    /\ \A o : Writes(s, w, o) /\ Ready(s, c) /\ Tidy(w, s.index, o)
            => \E p : Writes(r, v, p) /\ Tidy(v, r.index, p)

LEMMA WritesOne ==
    ASSUME NEW s, NEW w, NEW o, Writes(s, w, o), NEW p, Writes(s, w, p)
    PROVE  o = p
<1>1. /\ Now(w) = IF o = 0 THEN {} ELSE {o}
      /\ Now(w) = IF p = 0 THEN {} ELSE {p}
  BY DEF Writes, Book
<1> QED
  BY <1>1

\* The bits of a chunk's events.
LEMMA Bits ==
    ASSUME NEW s \in SerStates, NEW r \in SerStates, NEW w \in Seq(Events), NEW c,
           OneThing(c), NEW nc \in BOOLEAN
    PROVE  LET u == w \o When(nc, Closing(s))
               b == u \o Body(r, c)
               v == w \o (When(nc, Closing(s)) \o Emitted(r, c))
           IN  /\ ~c.done => v = b
               /\ c.done => v = b \o Last(r, c)
<1> DEFINE x == When(nc, Closing(s))
           y == Body(r, c)
           l == Last(r, c)
           z == When(c.done, l)
<1>1. x \in Seq(Events)
  <2>1. Closing(s) \in Seq(Events)
    BY EndTyped
  <2> QED
    BY <2>1 DEF When
<1>2. y \in Seq(Events) /\ l \in Seq(Events)
  BY EndTyped
<1>3. c.done \in BOOLEAN
  BY ChunkFields
<1> HIDE DEF x, y, l, Events
<1>4. z \in Seq(Events) /\ (c.done => z = l) /\ (~c.done => z = <<>>)
  BY <1>2, <1>3 DEF When
<1>5. Emitted(r, c) = y \o z
  BY EmittedIs DEF y, z, l
<1> HIDE DEF z
<1>6. /\ x \o (y \o z) = (x \o y) \o z
      /\ x \o y \in Seq(Events)
  <2>1. InTurn(x, y, z)
    BY <1>1, <1>2, <1>4, JoinedInTurn, Zenon
  <2>2. x \o y \in Seq(Events)
    BY <1>1, <1>2, Joined
  <2> QED
    BY <2>1, <2>2 DEF InTurn
<1>7. w \o ((x \o y) \o z) = (w \o (x \o y)) \o z
  <2> DEFINE xy == x \o y
  <2>1. xy \in Seq(Events)
    BY <1>6
  <2> HIDE DEF xy
  <2>2. InTurn(w, xy, z)
    BY <1>4, <2>1, JoinedInTurn, Zenon
  <2> QED
    BY <2>2 DEF xy, InTurn
<1>8. w \o (x \o y) = (w \o x) \o y
  BY <1>1, <1>2, JoinedTwice
<1>9. w \o (x \o Emitted(r, c)) = ((w \o x) \o y) \o z
  BY <1>5, <1>6, <1>7, <1>8
<1>10. (w \o x) \o y \in Seq(Events)
  BY <1>1, <1>2, Joined
<1>11. ((w \o x) \o y) \o <<>> = (w \o x) \o y
  BY <1>10, JoinedNone
<1> QED
  BY <1>4, <1>9, <1>11 DEF x, y, l

LEMMA ChunkTurns ==
    ASSUME NEW s, Single(s), NEW c, OneThing(c)
    PROVE  Turned(s, c, After(IF NeedsClose(s, c) THEN Closed(s) ELSE s, c))
<1> DEFINE r == IF NeedsClose(s, c) THEN Closed(s) ELSE s
           f == Flags(r, c)
<1> SUFFICES ASSUME ~c.done PROVE Turned(s, c, f)
  BY AfterIs DEF Turned
<1>1. s \in SerStates
  BY DEF Single, SerStates
<1>2. /\ Closed(s) \in SerStates /\ Closed(s).needStart
      /\ ~Closed(s).text /\ ~Closed(s).reasoning /\ ~Closed(s).tool
  BY <1>1, ClosedIs
<1>3. NeedsClose(s, c) <=> \/ s.reasoning /\ (c.content \/ c.tool # NoTool)
                           \/ s.text /\ (c.tool # NoTool \/ c.reasoning)
                           \/ s.tool
  BY DEF NeedsClose
<1>4. c \in Chunk /\ c.reasoning \in BOOLEAN /\ c.content \in BOOLEAN
  BY ChunkFields DEF OneThing
<1>5. r \in SerStates
  BY <1>1, <1>2
<1>6. /\ f.needStart <=> r.needStart /\ ~c.reasoning /\ ~c.content /\ c.tool = NoTool
      /\ f.tool <=> r.tool \/ c.tool # NoTool
      /\ f \in SerStates
  BY <1>4, <1>5, FlagsAre
<1>7. s.needStart <=> ~s.text /\ ~s.reasoning /\ ~s.tool
  BY DEF Single
<1>8. /\ s.needStart \in BOOLEAN /\ s.tool \in BOOLEAN
      /\ f.needStart \in BOOLEAN /\ f.tool \in BOOLEAN
  BY <1>1, <1>6 DEF SerStates
<1> HIDE DEF f
<1>9. CASE NeedsClose(s, c)
  BY <1>2, <1>3, <1>6, <1>7, <1>8, <1>9 DEF Turned
<1>10. CASE ~NeedsClose(s, c)
  BY <1>3, <1>6, <1>7, <1>8, <1>10 DEF Turned
<1> QED
  BY <1>9, <1>10 DEF f

LEMMA ChunkWrites ==
    ASSUME NEW s, NEW w, NEW o, Writes(s, w, o), NEW c, OneThing(c)
    PROVE  LET nc == NeedsClose(s, c)
               r == IF nc THEN Closed(s) ELSE s
           IN  Wrote(s, w, c, After(r, c), w \o (When(nc, Closing(s)) \o Emitted(r, c)))
<1> DEFINE nc == NeedsClose(s, c)
           r == IF nc THEN Closed(s) ELSE s
           u == w \o When(nc, Closing(s))
           q == IF nc THEN 0 ELSE o
           b == u \o Body(r, c)
           v == w \o (When(nc, Closing(s)) \o Emitted(r, c))
           f == Flags(r, c)
           a == After(r, c)
<1>1. /\ Writes(r, u, q)
      /\ Quiet(w, u)
      /\ Tidy(w, s.index, o) => Tidy(u, r.index, q)
  BY ReopenWrites
<1>2. /\ s \in SerStates /\ Single(s) /\ w \in Seq(Events)
  BY DEF Writes, Single, SerStates, Book
<1>3. /\ MayFollow(r, c)
      /\ r.tool => s.tool
      /\ ~c.reasoning /\ ~c.content /\ c.tool = NoTool /\ c.done => r = s
  BY <1>2, ReopenedFollows
<1>4. /\ ~c.done => v = b
      /\ c.done => v = b \o Last(r, c)
  <2>1. nc \in BOOLEAN
    BY DEF NeedsClose
  <2>2. r \in SerStates
    BY <1>1 DEF Writes, Single, SerStates
  <2> HIDE DEF r, nc
  <2> QED
    BY <1>2, <2>1, <2>2, Bits, SMTT(30)
<1>5. a = IF c.done THEN Closed(f) ELSE f
  BY AfterIs
<1>0. Turned(s, c, a)
  BY <1>2, ChunkTurns
<1> HIDE DEF nc, r, u, q, v, f, a
<1>6. PICK p : Bodied(r, c, u, b, q, p)
  BY <1>1, <1>3, BodyWrites
<1> HIDE DEF b
<1>7. /\ r \in SerStates /\ Single(r) /\ Book(u, r.index, q) /\ Agrees(r, u, q)
  BY <1>1 DEF Writes, Single, SerStates
<1>8. c \in Chunk /\ c.done \in BOOLEAN /\ c.reasoning \in BOOLEAN
      /\ c.content \in BOOLEAN
      /\ (c.reasoning => ~c.done) /\ (c.reasoning => ~c.content /\ c.tool = NoTool)
      /\ (c.content => c.tool = NoTool)
  BY ChunkFields DEF OneThing
<1>9. /\ f \in SerStates
      /\ f.index = r.index
      /\ f.needStart <=> /\ r.needStart
                         /\ ~c.reasoning /\ ~c.content /\ c.tool = NoTool
      /\ f.reasoning <=> (r.reasoning \/ c.reasoning) /\ c.tool = NoTool
      /\ f.text <=> (r.text \/ c.content) /\ c.tool = NoTool
      /\ f.tool <=> r.tool \/ c.tool # NoTool
      /\ f.hasTools <=> r.hasTools \/ c.tool # NoTool
  BY <1>7, <1>8, FlagsAre DEF f
<1>10. /\ Book(b, r.index, p)
       /\ Signed(b)
       /\ p = 0 <=> f.needStart
       /\ p # 0 => (b[p].kind = "thinking" <=> f.reasoning)
       /\ ~c.done => Agrees(f, b, p)
       /\ f.hasTools <=> HasCall(b)
       /\ NoEnd(u) => NoEnd(b)
  BY <1>6 DEF Bodied, f
<1>11. /\ \A t \in Tools : Begun(b, t) = Begun(u, t) + (IF r.needStart /\ c.tool = t
                                                        THEN 1 ELSE 0)
       /\ \A t, args : Argued(u, t, args) => Argued(b, t, args)
       /\ c.tool # NoTool => Argued(b, c.tool, c.text)
       /\ ~r.tool /\ Tidy(u, r.index, q) => Tidy(b, r.index, p)
  BY <1>6 DEF Bodied
<1>12. /\ NoEnd(w) => NoEnd(u)
       /\ \A t, args : Argued(w, t, args) => Argued(u, t, args)
       /\ \A t : Begun(u, t) = Begun(w, t)
  BY <1>1 DEF Quiet, Begun
<1>13. /\ c.reasoning => ~r.text /\ ~r.tool
       /\ c.content => ~r.reasoning /\ (r.tool => c.done)
       /\ c.tool # NoTool => ~r.reasoning /\ ~r.text /\ (r.tool => c.done)
       /\ r.tool => c.done
  BY <1>3 DEF MayFollow
<1>14. /\ ~(r.text /\ r.reasoning) /\ ~(r.text /\ r.tool) /\ ~(r.reasoning /\ r.tool)
       /\ r.needStart <=> ~r.text /\ ~r.reasoning /\ ~r.tool
       /\ r.text \in BOOLEAN /\ r.reasoning \in BOOLEAN /\ r.tool \in BOOLEAN
       /\ r.hasTools \in BOOLEAN /\ r.index \in Nat
  BY <1>7 DEF Single, SerStates
<1>15. Ready(s, c) => ~r.tool
  BY <1>3, <1>8, <1>13 DEF Ready
<1>16. ASSUME Ready(s, c) \/ c.tool = NoTool, NEW t \in Tools
       PROVE  Begun(b, t) = Begun(w, t) + (IF c.tool = t THEN 1 ELSE 0)
  <2>1. c.tool = t => r.needStart
    <3>1. t # NoTool
      OBVIOUS
    <3> QED
      BY <1>13, <1>14, <1>15, <1>16, <3>1
  <2> QED
    BY <1>11, <1>12, <2>1
<1>17. \A x : Writes(s, w, x) => x = o
  BY WritesOne
<1>18. CASE ~c.done
  <2>1. v = b /\ a = f
    BY <1>4, <1>5, <1>18
  <2>2. Single(f)
    BY <1>8, <1>9, <1>13, <1>14, <1>18 DEF Single, SerStates
  <2>3. Writes(f, b, p)
    BY <1>9, <1>10, <1>18, <2>2 DEF Writes
  <2>4. \A x : Writes(s, w, x) /\ Ready(s, c) /\ Tidy(w, s.index, x)
            => \E y : Writes(f, b, y) /\ Tidy(b, f.index, y)
    BY <1>1, <1>9, <1>11, <1>15, <1>17, <2>3
  <2>5. Wrote(s, w, c, f, b)
    BY <1>0, <1>10, <1>11, <1>12, <1>16, <1>18, <2>1, <2>3, <2>4 DEF Wrote
  <2> QED
    BY <2>1, <2>5 DEF v, a, r, nc
<1>19. CASE c.done
  <2> DEFINE reason == StopReason(r, c)
             l == Last(r, c)
  <2>1. v = b \o l /\ a = Closed(f)
    BY <1>4, <1>5, <1>19
  <2>2. reason \in Kinds
    BY <1>7, EndTyped
  <2>3. l = When(r.reasoning, <<BlockEvent("signature", r.index)>>)
              \o <<BlockEvent("stop", r.index),
                   Event("message_delta", 0, reason, NoTool, <<>>)>>
    BY DEF Last
  <2> HIDE DEF l, reason
  <2>4. r.reasoning => p # 0
    BY <1>9, <1>10, <1>14
  <2>5. p # 0 /\ b[p].kind = "thinking" => r.reasoning
    BY <1>8, <1>9, <1>10, <1>19
  <2>6. /\ Book(v, r.index + 1, 0)
        /\ Signed(v)
        /\ NoEnd(b) => Ended(v, reason)
        /\ HasCall(v) <=> HasCall(b)
        /\ \A t : StartsOf(v, t) = StartsOf(b, t)
        /\ \A t, args : Argued(b, t, args) => Argued(v, t, args)
        /\ p # 0 /\ Tidy(b, r.index, p) => Tidy(v, r.index + 1, 0)
    <3> DEFINE n == r.index
               signs == r.reasoning
    <3>1. /\ v = b \o EndEvents(signs, n, reason)
          /\ Book(b, n, p) /\ Signed(b) /\ signs \in BOOLEAN
          /\ signs => p # 0
          /\ p # 0 /\ b[p].kind = "thinking" => signs
      BY <1>10, <1>14, <2>1, <2>3, <2>4, <2>5 DEF EndEvents
    <3> HIDE DEF n, signs
    <3>2. Concluded(b, b \o EndEvents(signs, n, reason), n, p, reason)
      BY <2>2, <3>1, EndWrites
    <3> QED
      BY <3>1, <3>2 DEF n, Concluded
  <2>7. /\ a \in SerStates
        /\ a.index = r.index + 1 /\ a.needStart
        /\ ~a.text /\ ~a.reasoning /\ ~a.tool
        /\ a.hasTools = f.hasTools
    BY <1>9, <2>1, ClosedIs
  <2>8. Single(a)
    BY <2>7 DEF Single, SerStates
  <2>9. Agrees(a, v, 0)
    BY <2>7 DEF Agrees
  <2>10. Writes(a, v, 0)
    BY <1>10, <2>6, <2>7, <2>8, <2>9 DEF Writes
  <2>11. reason = Reason1(v)
    BY <1>9, <1>10, <2>6 DEF reason, StopReason, Reason1
  <2>12. \A t : Begun(v, t) = Begun(b, t)
    BY <2>6 DEF Begun
  <2>13. ASSUME Ready(s, c), Tidy(w, s.index, o) PROVE Tidy(v, a.index, 0)
    <3>1. p # 0
      BY <1>3, <1>8, <1>9, <1>10, <1>19, <2>13 DEF Ready
    <3> QED
      BY <1>1, <1>11, <1>15, <2>6, <2>7, <2>13, <3>1
  <2>14. \A x : Writes(s, w, x) /\ Ready(s, c) /\ Tidy(w, s.index, x)
            => \E y : Writes(a, v, y) /\ Tidy(v, a.index, y)
    BY <1>17, <2>10, <2>13
  <2>15. Wrote(s, w, c, a, v)
    BY <1>0, <1>10, <1>11, <1>12, <1>16, <1>19, <2>6, <2>7, <2>10, <2>11, <2>12, <2>14
    DEF Wrote
  <2> QED
    BY <2>15 DEF v, a, r, nc
<1> QED
  BY <1>8, <1>18, <1>19

-----------------------------------------------------------------------------
(* Steps of the streams.                                                   *)

Assumed == SseParserAssumption /\ ToolEmulationAssumption

LEMMA AssumedIs == Assumed
BY SseParserAssumption, ToolEmulationAssumption DEF Assumed

\* The parser, the transform and the Anthropic serializer.
Base ==
    /\ ParserInv
    /\ EmulationInv
    /\ Yield(parsed, native)
    /\ Yield(out, native)
    /\ \E o : Writes(ser, wire, o)

LEMMA BaseInit ==
    ASSUME Init
    PROVE  Base
<1> USE DEF Init
<1>1. ParserInv
  <2>1. SseParserAssumption
    BY SseParserAssumption
  <2> QED
    <3>1. /\ native \in BOOLEAN /\ upstream = "open" /\ pieces = 0 /\ tools = 0
          /\ half = {} /\ pending = NoPending /\ said = <<>> /\ lost = {} /\ cut = FALSE
          /\ spoilt = {}
      BY DEF ParserInit
    <3>2. pending \in [tool : Tools \cup {NoTool}, args : {"half", "whole", "garbled"}]
      BY <3>1 DEF NoPending
    <3>3. said \in Seq(Uttered)
      BY <3>1
    <3>4. 0 \in Nat /\ 0 \in 0 .. MaxTools
      BY <2>1 DEF SseParserAssumption
    <3> HIDE DEF Init, Texts
    <3> QED
      BY <3>1, <3>2, <3>3, <3>4 DEF ParserInv
<1>2. EmulationInv
  <2>1. MaxBuffer \in Nat
    BY ToolEmulationAssumption DEF ToolEmulationAssumption
  <2>2. emu.buffer = <<>> /\ Len(emu.buffer) = 0
    BY DEF EmulationInit
  <2>3. <<>> \in Seq(Texts)
    OBVIOUS
  <2>4. emu = [buffering |-> FALSE, buffer |-> <<>>, flushed |-> FALSE,
               outgrown |-> FALSE, broken |-> FALSE]
    BY DEF EmulationInit
  <2> HIDE DEF Texts
  <2> QED
    BY <2>1, <2>2, <2>3, <2>4 DEF EmulationInv
<1>3. Yield(parsed, native) /\ Yield(out, native)
  BY DEF ParserInit, EmulationInit, Yield
<1>4. Writes(ser, wire, 0)
  <2> DEFINE e == MessageEvent("message_start")
  <2>1. "message_start" \in EventTypes
    BY DEF EventTypes
  <2>2. IsEvent(e, "message_start", 0, "", NoTool, <<>>)
    BY <2>1, BlockEventIs DEF MessageEvent
  <2>3. e \in Events /\ e.type = "message_start"
    BY <2>2 DEF IsEvent
  <2>4. wire = <<e>>
    BY DEF AnthropicInit
  <2> HIDE DEF e, Events
  <2>5. wire \in Seq(Events) /\ Len(wire) = 1 /\ wire[1] = e
    BY <2>3, <2>4
  <2>6. 1 .. Len(wire) = {1}
    BY <2>5
  <2>7. ser = [index |-> 0, needStart |-> TRUE, text |-> FALSE,
               reasoning |-> FALSE, tool |-> FALSE, hasTools |-> FALSE]
    BY DEF AnthropicInit
  <2>8. Single(ser) /\ ser.index = 0 /\ ser.needStart /\ ~ser.hasTools
    BY <2>7 DEF Single
  <2>9. Now(wire) = {}
    BY <2>3, <2>5, <2>6 DEF Now, OpenIn
  <2>10. Book(wire, 0, 0)
    BY <2>5, <2>9 DEF Book
  <2>11. Agrees(ser, wire, 0)
    BY <2>8 DEF Agrees
  <2>12. Signed(wire) /\ ~HasCall(wire)
    BY <2>3, <2>5, <2>6 DEF Signed, HasCall
  <2> QED
    BY <2>8, <2>10, <2>11, <2>12 DEF Writes
<1> QED
  BY <1>1, <1>2, <1>3, <1>4 DEF Base

\* A step of the parser gives a chunk or nothing, and so does the transform.
LEMMA StepsYield ==
    ASSUME Base, Next
    PROVE  /\ ParserInv' /\ EmulationInv'
           /\ Yield(parsed', native) /\ Yield(out', native)
           /\ native \in BOOLEAN /\ native' = native
<1>1. SseParserAssumption
  BY SseParserAssumption
<1>2. Reads
  BY DEF Next, Reads
<1>3. ParserInv' /\ Yield(parsed', native') /\ Short(parsed')
  BY <1>1, <1>2, ReadsTyped, ShortParsed DEF Base
<1>4. native' = native
  BY <1>2 DEF Reads, Parses, Reason, Write, ToolBegins, ToolGoesOn,
    Usage, Done, FlushAtEnd, ReportsError, Breaks, Closes
<1>5. native \in BOOLEAN
  BY DEF Base, ParserInv
<1>6. EmulationInv' /\ Yield(out', native)
  <2>1. CASE Transform
    BY <1>1, <1>3, <1>4, <1>5, <2>1, TransformTyped DEF Base
  <2>2. CASE TransformEnd
    BY <1>1, <1>4, <1>5, <2>2, TransformEndTyped DEF Base
  <2> QED
    BY <2>1, <2>2 DEF Next
<1> QED
  BY <1>3, <1>4, <1>5, <1>6

\* What the Anthropic serializer makes of what is passed on.
WroteOut(w) ==
    \/ out' = <<>> /\ w = wire /\ ser' = ser
    \/ \E c : out' = <<c>> /\ OneThing(c) /\ Wrote(ser, wire, c, ser', w)

LEMMA SerializeWrites ==
    ASSUME Base, Yield(out', native), Serialize(out')
    PROVE  WroteOut(wire \o Serialized(out'))
<1>1. PICK o : Writes(ser, wire, o)
  BY DEF Base
<1>2. wire \in Seq(Events)
  BY <1>1 DEF Writes, Book
<1>3. CASE out' = <<>>
  <2>1. Serialized(out') = <<>> /\ ser' = ser
    BY <1>3 DEF Serialized, Serialize
  <2> QED
    BY <1>2, <1>3, <2>1, JoinedNone DEF WroteOut
<1>4. CASE out' # <<>>
  <2>1. PICK c : out' = <<c>> /\ OneThing(c)
    BY <1>4 DEF Yield, OfKind
  <2> DEFINE nc == NeedsClose(ser, c)
             r == IF nc THEN Closed(ser) ELSE ser
  <2>2. out' # <<>> /\ out'[1] = c
    BY <1>4, <2>1
  <2>3. Serialized(out') = When(nc, Closing(ser)) \o Emitted(r, c)
    BY <2>2 DEF Serialized, Reopened
  <2>4. ser' = After(r, c)
    BY <2>2 DEF Serialize, Reopened
  <2>5. Wrote(ser, wire, c, After(r, c), wire \o (When(nc, Closing(ser)) \o Emitted(r, c)))
    BY <1>1, <2>1, ChunkWrites
  <2> HIDE DEF nc, r
  <2> QED
    BY <2>1, <2>3, <2>4, <2>5 DEF WroteOut
<1> QED
  BY <1>3, <1>4

\* An event that is not of a block.
LEMMA OtherWrites ==
    ASSUME NEW s, NEW w, NEW o, Writes(s, w, o), NEW type \in {"error", "message_stop"}
    PROVE  LET v == Append(w, MessageEvent(type))
           IN  /\ Writes(s, v, o)
               /\ Tidy(w, s.index, o) => Tidy(v, s.index, o)
               /\ \A t : StartsOf(v, t) = StartsOf(w, t)
               /\ \A t, args : Argued(w, t, args) => Argued(v, t, args)
               /\ type = "error" /\ NoEnd(w) => NoEnd(v)
               /\ HasCall(v) <=> HasCall(w)
<1> DEFINE e == MessageEvent(type)
           v == Append(w, e)
<1>1. type \in EventTypes
  BY DEF EventTypes
<1>2. IsEvent(e, type, 0, "", NoTool, <<>>)
  BY <1>1, BlockEventIs DEF MessageEvent
<1>3. e \in Events /\ e.type = type
  BY <1>2 DEF IsEvent
<1>4. /\ Single(s) /\ Book(w, s.index, o) /\ Agrees(s, w, o) /\ Signed(w)
      /\ (s.hasTools <=> HasCall(w)) /\ w \in Seq(Events) /\ o \in 0 .. Len(w)
  BY DEF Writes, Book
<1> HIDE DEF e, v, Events
<1>5. Book(v, s.index, o)
  BY <1>3, <1>4, BookGoesOn DEF v
<1>6. Signed(v)
  BY <1>3, <1>4, SignedAppended DEF v
<1>7. Tidy(w, s.index, o) => Tidy(v, s.index, o)
  BY <1>3, <1>4, TidyGoesOn DEF v
<1>8. /\ NoEnd(w) /\ e.type \notin {"message_delta", "message_stop"} => NoEnd(v)
      /\ HasCall(v) <=> HasCall(w)
      /\ \A t : StartsOf(v, t) = StartsOf(w, t) \cup {}
      /\ \A t, args : Argued(w, t, args) => Argued(v, t, args)
  <2>1. e.type # "start" /\ e.type # "delta"
    BY <1>3
  <2>2. NoEnd(w) /\ e.type \notin {"message_delta", "message_stop"} => NoEnd(v)
    BY <1>3, <1>4, TellsMore DEF v
  <2>3. HasCall(v) <=> HasCall(w)
    BY <1>3, <1>4, <2>1, TellsMore DEF v
  <2>4. \A t : StartsOf(v, t) = StartsOf(w, t) \cup {}
    BY <1>3, <1>4, <2>1, TellsMore DEF v
  <2>5. \A t, args : Argued(w, t, args) => Argued(v, t, args)
    BY <1>3, <1>4, TellsMore DEF v
  <2> QED
    BY <2>2, <2>3, <2>4, <2>5
<1>9. o # 0 => v[o] = w[o]
  BY <1>3, <1>4, Appended DEF v
<1>10. Agrees(s, v, o)
  BY <1>4, <1>9 DEF Agrees
<1>11. Writes(s, v, o)
  BY <1>4, <1>5, <1>6, <1>8, <1>10 DEF Writes
<1> QED
  BY <1>3, <1>7, <1>8, <1>11 DEF v, e

\* The three kinds of step, as the Anthropic client sees them.
LEMMA WireSteps ==
    ASSUME Base, Next
    PROVE  \/ Parses /\ Transform /\ WroteOut(wire')
           \/ /\ ReportsError \/ Breaks
              /\ Transform
              /\ ser' = ser /\ wire' = Append(wire, MessageEvent("error"))
           \/ /\ Closes /\ TransformEnd
              /\ \E w : /\ WroteOut(w)
                        /\ wire' = IF emu'.broken THEN w
                                   ELSE Append(w, MessageEvent("message_stop"))
<1>1. Yield(out', native)
  BY StepsYield
<1>2. CASE Parses /\ Transform /\ AnthropicChunk
  BY <1>1, <1>2, SerializeWrites DEF AnthropicChunk
<1>3. CASE (ReportsError \/ Breaks) /\ Transform /\ AnthropicError
  BY <1>3 DEF AnthropicError
<1>4. CASE Closes /\ TransformEnd /\ AnthropicEnd
  <2> DEFINE w == wire \o Serialized(out')
             e == MessageEvent("message_stop")
             z == When(~emu'.broken, <<e>>)
  <2>1. WroteOut(w)
    BY <1>1, <1>4, SerializeWrites DEF AnthropicEnd
  <2>2. wire' = w \o z
    BY <1>4 DEF AnthropicEnd
  <2>3. w \in Seq(Events)
    <3>1. \E s, o : Writes(s, w, o)
      BY <2>1 DEF WroteOut, Wrote, Base
    <3> QED
      BY <3>1 DEF Writes, Book
  <2>4. e \in Events
    <3>1. "message_stop" \in EventTypes
      BY DEF EventTypes
    <3>2. IsEvent(e, "message_stop", 0, "", NoTool, <<>>)
      BY <3>1, BlockEventIs DEF MessageEvent
    <3> QED
      BY <3>2 DEF IsEvent
  <2> HIDE DEF w, e, Events
  <2>5. w \o <<>> = w /\ w \o <<e>> = Append(w, e)
    BY <2>3, <2>4, JoinedNone, JoinedOne
  <2>6. wire' = IF emu'.broken THEN w ELSE Append(w, e)
    BY <2>2, <2>5 DEF When
  <2> QED
    BY <1>4, <2>1, <2>6 DEF e
<1> QED
  BY <1>2, <1>3, <1>4 DEF Next

LEMMA BaseNext ==
    ASSUME Base, [Next]_vars
    PROVE  Base'
<1>1. CASE Next
  <2>1. /\ ParserInv' /\ EmulationInv'
        /\ Yield(parsed', native') /\ Yield(out', native')
    BY <1>1, StepsYield
  <2>2. \E o : Writes(ser', wire', o)
    <3>1. ASSUME NEW w, WroteOut(w) PROVE \E o : Writes(ser', w, o)
      BY <3>1 DEF WroteOut, Wrote, Base
    <3>2. CASE WroteOut(wire')
      BY <3>1, <3>2
    <3>3. CASE ser' = ser /\ wire' = Append(wire, MessageEvent("error"))
      BY <3>3, OtherWrites DEF Base
    <3>4. ASSUME NEW w, WroteOut(w),
                 wire' = IF emu'.broken THEN w
                         ELSE Append(w, MessageEvent("message_stop"))
          PROVE  \E o : Writes(ser', wire', o)
      <4>1. PICK o : Writes(ser', w, o)
        BY <3>1, <3>4
      <4>2. Writes(ser', Append(w, MessageEvent("message_stop")), o)
        BY <4>1, OtherWrites
      <4> QED
        BY <3>4, <4>1, <4>2
    <3> QED
      BY <1>1, <3>2, <3>3, <3>4, WireSteps
  <2> QED
    BY <2>1, <2>2 DEF Base
<1>2. CASE UNCHANGED vars
  BY <1>2 DEF Base, ParserInv, EmulationInv, vars, parserVars, upstreamVars,
    emulationVars, anthropicVars
<1> QED
  BY <1>1, <1>2

LEMMA AlwaysBase == Spec => []Base
BY BaseInit, BaseNext, PTL DEF Spec

-----------------------------------------------------------------------------
(* What the properties say of the events.                                  *)

LEMMA OpenAtIs ==
    ASSUME wire \in Seq(Events)
    PROVE  \A i : OpenAt(i) = OpenIn(wire, i)
<1>1. DOMAIN wire = 1 .. Len(wire)
  OBVIOUS
<1> QED
  BY <1>1 DEF OpenAt, OpenIn, Positions

\* A thinking block is signed before it is stopped, whatever the stream.
THEOREM ThinkingAlwaysSigned == Spec => []ThinkingSigned
<1>1. Base => ThinkingSigned
  <2> SUFFICES ASSUME Base PROVE ThinkingSigned
    OBVIOUS
  <2>1. wire \in Seq(Events) /\ Signed(wire)
    BY DEF Base, Writes, Book
  <2>2. DOMAIN wire = 1 .. Len(wire)
    BY <2>1
  <2> QED
    BY <2>1, <2>2, OpenAtIs DEF ThinkingSigned, Signed, Positions
<1> QED
  BY <1>1, AlwaysBase, PTL

-----------------------------------------------------------------------------
(* The last chunk.                                                         *)

\* What a buffer becomes is something, and the last chunk if that was asked for.
LEMMA UnbufferedIs ==
    ASSUME SseParserAssumption, NEW b \in Seq(Texts), NEW done \in BOOLEAN
    PROVE  LET c == Unbuffered(b, done)
           IN  /\ c.done = done
               /\ c.content \/ c.tool # NoTool
               /\ c.tool \in {NoTool, Spelled}
               /\ ~c.reasoning
               /\ CallIn(b) = {} => c.content /\ c.tool = NoTool
               /\ CallIn(b) # {} => ~c.content /\ c.tool = Spelled
<1>1. Spelled # NoTool
  BY DEF SseParserAssumption
<1>2. CASE CallIn(b) = {}
  <2> SUFFICES ASSUME NEW c, c = TextChunk(b, done)
               PROVE  c.done = done /\ c.content /\ c.tool = NoTool /\ ~c.reasoning
    BY <1>1, <1>2 DEF Unbuffered
  <2> QED
    BY DEF TextChunk, Bare
<1>3. CASE CallIn(b) # {}
  <2> DEFINE ij == CHOOSE ij \in CallIn(b) : TRUE
             text == SubSeq(b, ij[1], ij[2])
  <2>1. Unbuffered(b, done) = Call(Spelled, text, done)
    BY <1>3 DEF Unbuffered, Call
  <2> HIDE DEF text
  <2> SUFFICES ASSUME NEW c, c = Call(Spelled, text, done)
               PROVE  c.done = done /\ ~c.content /\ c.tool = Spelled /\ ~c.reasoning
    BY <1>1, <1>3, <2>1
  <2> QED
    BY DEF Call, Bare
<1> QED
  BY <1>2, <1>3

\* The chunks of the parser are not the last, but for those of its ends.
LEMMA ParsedDone ==
    ASSUME Reads, parsed' # <<>>
    PROVE  \E c : /\ parsed' = <<c>>
                  /\ c.content => ~c.done
                  /\ Done \/ FlushAtEnd => c = Flushed(TRUE) /\ c.done /\ ~c.content
                                           /\ c.tool = pending.tool
                  /\ ~Done /\ ~FlushAtEnd => ~c.done
<1> DEFINE P(c) == /\ c.content => ~c.done
                   /\ Done \/ FlushAtEnd => c = Flushed(TRUE) /\ c.done /\ ~c.content
                                            /\ c.tool = pending.tool
                   /\ ~Done /\ ~FlushAtEnd => ~c.done
<1>1. ASSUME NEW c, c = ReasoningChunk PROVE ~c.done
  BY <1>1 DEF ReasoningChunk, Bare
<1>2. ASSUME NEW c, c = Bare(FALSE) PROVE ~c.done
  BY <1>2 DEF Bare
<1>3. ASSUME NEW c, NEW text, c = TextChunk(text, FALSE) PROVE ~c.done
  BY <1>3 DEF TextChunk, Bare
<1>4. ASSUME NEW c, NEW done, c = Flushed(done)
      PROVE  c.done = done /\ ~c.content /\ c.tool = pending.tool
  <2> DEFINE args == IF pending.args = "whole" THEN <<"args">> ELSE <<>>
  <2>1. c = [Bare(done) EXCEPT !.tool = pending.tool, !.text = args]
    BY <1>4 DEF Flushed
  <2> HIDE DEF args
  <2> QED
    BY <2>1 DEF Bare
<1>5. CASE Done \/ FlushAtEnd
  <2>1. parsed' = <<Flushed(TRUE)>>
    BY <1>5 DEF Done, FlushAtEnd
  <2> QED
    BY <1>4, <1>5, <2>1
<1>6. CASE ~Done /\ ~FlushAtEnd
  <2>1. \E c : parsed' = <<c>> /\ ~c.done
    BY <1>1, <1>2, <1>3, <1>4, <1>6
    DEF Reads, Parses, Reason, Write, ToolBegins,
      ToolGoesOn, Usage, ReportsError, Breaks, Closes, When
  <2> QED
    BY <1>6, <2>1
<1> QED
  BY <1>5, <1>6

\* The transform passes the last chunk on as the last, or panics.
LEMMA LastPasses ==
    ASSUME Base, Done \/ FlushAtEnd, Transform
    PROVE  \/ ~native /\ emu'.broken /\ out' = <<>>
           \/ \E d : /\ out' = <<d>> /\ d.done
                     /\ ~emu'.broken
                     /\ native => d = Flushed(TRUE) /\ d.tool = pending.tool
                     /\ ~native => emu'.flushed /\ emu'.buffer = <<>>
                     /\ ~native /\ emu.buffering => d.content \/ d.tool # NoTool
<1>1. SseParserAssumption
  BY SseParserAssumption
<1>2. Reads
  BY DEF Reads, Parses
<1>3. PICK c : /\ parsed' # <<>> /\ parsed' = <<c>> /\ parsed'[1] = c
               /\ c = Flushed(TRUE) /\ c.done /\ ~c.content /\ c.tool = pending.tool
  <2>1. parsed' = <<Flushed(TRUE)>>
    BY DEF Done, FlushAtEnd
  <2>2. parsed' # <<>>
    BY <2>1
  <2>3. PICK c : parsed' = <<c>> /\ c = Flushed(TRUE) /\ c.done /\ ~c.content
                 /\ c.tool = pending.tool
    BY <1>2, <2>2, ParsedDone
  <2>4. parsed'[1] = c
    BY <2>3
  <2> QED
    BY <2>2, <2>3, <2>4
<1>4. emu \in [buffering : BOOLEAN, buffer : Seq(Texts), flushed : BOOLEAN,
               outgrown : BOOLEAN, broken : BOOLEAN]
      /\ (~emu.buffering => emu.buffer = <<>>)
      /\ (native => ~emu.broken)
  BY DEF Base, EmulationInv
<1>5. ~emu.broken
  BY DEF Transform
<1>6. CASE native
  BY <1>3, <1>4, <1>6 DEF Transform
<1>7. CASE ~native
  <2>1. TakeLast(c)
    BY <1>2, <1>3, <1>7 DEF Transform
  <2>2. CASE ~emu.buffering
    <3>1. emu' = [emu EXCEPT !.flushed = TRUE] /\ out' = <<c>>
      BY <2>1, <2>2 DEF TakeLast
    <3>2. emu'.flushed /\ emu'.buffer = <<>> /\ emu'.broken = emu.broken
      BY <1>4, <2>2, <3>1
    <3> QED
      BY <1>3, <1>5, <1>7, <2>2, <3>1, <3>2
  <2>3. CASE emu.buffering
    <3> DEFINE b == emu.buffer
    <3>1. Flush(b, TRUE)
      BY <2>1, <2>3 DEF TakeLast
    <3>2. b \in Seq(Texts)
      BY <1>4
    <3>3. CASE Inverted(b)
      BY <1>4, <1>7, <3>1, <3>3 DEF Flush
    <3>4. CASE ~Inverted(b)
      <4> DEFINE d == Unbuffered(b, TRUE)
      <4>1. d.done /\ (d.content \/ d.tool # NoTool)
        BY <1>1, <3>2, UnbufferedIs
      <4>2. out' = <<d>>
        BY <3>1, <3>4 DEF Flush
      <4>3. emu'.flushed /\ emu'.buffer = <<>> /\ emu'.broken = emu.broken
        BY <1>4, <3>1, <3>4 DEF Flush
      <4> HIDE DEF d, b
      <4> QED
        BY <1>5, <1>7, <4>1, <4>2, <4>3
    <3> QED
      BY <3>3, <3>4
  <2> QED
    BY <2>2, <2>3
<1> QED
  BY <1>6, <1>7

\* Before the end the transform passes on no last chunk.
LEMMA OthersPass ==
    ASSUME Base, Parses, ~Done, ~FlushAtEnd, Transform
    PROVE  out' = <<>> \/ \E d : out' = <<d>> /\ ~d.done
<1>1. SseParserAssumption
  BY SseParserAssumption
<1>2. Reads
  BY DEF Reads
<1>3. CASE parsed' = <<>>
  BY <1>3 DEF Transform
<1>4. CASE parsed' # <<>>
  <2>1. PICK c : parsed' = <<c>> /\ ~c.done
    BY <1>2, <1>4, ParsedDone
  <2>2. parsed'[1] = c
    BY <2>1
  <2>3. CASE native
    BY <2>1, <2>3 DEF Transform
  <2>4. CASE ~native /\ c.content
    <3>1. TakeText(c)
      BY <1>4, <2>2, <2>4 DEF Transform
    <3>2. Yield(parsed', native') /\ native' = native
      BY <1>1, <1>2, ReadsTyped DEF Base, Parses, Reason, Write, ToolBegins,
        ToolGoesOn, Usage, Done, FlushAtEnd
    <3>3. c.text \in Seq(Texts)
      BY <2>1, <2>4, <3>2 DEF Yield, OfKind
    <3> DEFINE b == emu.buffer \o c.text
    <3>4. b \in Seq(Texts)
      BY <3>3 DEF Base, EmulationInv
    <3>5. CASE Flush(b, FALSE)
      <4> HIDE DEF b
      <4>1. ~Unbuffered(b, FALSE).done
        BY <1>1, <3>4, UnbufferedIs
      <4> QED
        BY <3>5, <4>1 DEF Flush
    <3> QED
      BY <2>1, <3>1, <3>5 DEF TakeText, Hold
  <2>5. CASE ~native /\ ~c.content
    BY <1>4, <2>1, <2>2, <2>5 DEF Transform
  <2> QED
    BY <2>3, <2>4, <2>5
<1> QED
  BY <1>3, <1>4

-----------------------------------------------------------------------------
(* The end of a whole stream.                                              *)

\* What is passed on is written.
LEMMA PassedOn ==
    ASSUME NEW w, WroteOut(w), NEW d, out' = <<d>>
    PROVE  OneThing(d) /\ Wrote(ser, wire, d, ser', w)
<1>1. out' # <<>>
  OBVIOUS
<1>2. PICK c : out' = <<c>> /\ OneThing(c) /\ Wrote(ser, wire, c, ser', w)
  BY <1>1 DEF WroteOut
<1>3. c = d
  BY <1>2
<1> QED
  BY <1>2, <1>3

\* The message is all told but for its very end.
Told1(w) == w \in Seq(Events) /\ Now(w) = {} /\ Ended(w, Reason1(w))

\* As long as no error cuts the stream: nothing ends the message before
\* "[DONE]", then only its very end is left to tell, and in the end it is told.
EndInv ==
    /\ upstream = "over" => cut
    /\ ~cut /\ upstream \in {"open", "ending"} => NoEnd(wire)
    /\ ~cut /\ upstream = "done" /\ ~emu.broken => Told1(wire) /\ emu.buffer = <<>>
    /\ ~cut /\ upstream = "closed" /\ ~emu.broken =>
          \E w : Told1(w) /\ wire = Append(w, MessageEvent("message_stop"))

\* Where the upstream's steps lead.
LEMMA Leads ==
    ASSUME ParserInv, Reads
    PROVE  /\ upstream # "closed"
           /\ cut => cut'
           /\ Parses /\ ~Done /\ ~FlushAtEnd =>
                upstream \in {"open", "ending"} /\ upstream' \in {"open", "ending"}
           /\ Done => upstream \in {"open", "ending"} /\ upstream' = "done"
           /\ FlushAtEnd => upstream' = "over" /\ cut'
           /\ ReportsError \/ Breaks => cut'
           /\ Breaks => upstream' = "over"
           /\ ReportsError => upstream' = "open"
           /\ Closes => upstream' = "closed" /\ (~cut' => ~cut /\ upstream = "done")
BY DEF ParserInv, Reads, Parses, Reason, Write, ToolBegins, ToolGoesOn,
  Usage, Done, FlushAtEnd, ReportsError, Breaks, Closes, MaySayDone

LEMMA EndInit ==
    ASSUME Init
    PROVE  EndInv
<1>1. upstream = "open" /\ wire = <<MessageEvent("message_start")>>
  BY DEF Init, ParserInit, AnthropicInit
<1>2. Len(wire) = 1 /\ wire[1].type = "message_start"
  BY <1>1 DEF MessageEvent, BlockEvent, Event
<1> QED
  BY <1>1, <1>2 DEF EndInv, NoEnd

LEMMA EndNext ==
    ASSUME Base, Base', EndInv, [Next]_vars
    PROVE  EndInv'
<1>1. CASE UNCHANGED vars
  BY <1>1 DEF EndInv, vars, parserVars, upstreamVars,
    emulationVars, anthropicVars
<1>2. CASE Next
  <2>1. Reads /\ ParserInv
    BY <1>2 DEF Next, Reads, Base
  <2>2. CASE Parses /\ Transform /\ WroteOut(wire')
    <3>1. CASE Done \/ FlushAtEnd
      <4>1. upstream' \in {"done", "over"} /\ (upstream' = "over" => cut')
            /\ (~cut' => ~cut)
        BY <2>1, <3>1, Leads
      <4> SUFFICES ASSUME ~cut', upstream' = "done", ~emu'.broken
                   PROVE  Told1(wire') /\ emu'.buffer = <<>>
        BY <4>1 DEF EndInv
      <4>2. Done /\ upstream \in {"open", "ending"}
        BY <2>1, <3>1, Leads
      <4>3. NoEnd(wire)
        BY <4>1, <4>2 DEF EndInv
      <4>4. PICK d : /\ out' = <<d>> /\ d.done
                     /\ ~native => emu'.buffer = <<>>
        BY <2>2, <3>1, LastPasses
      <4>5. Wrote(ser, wire, d, ser', wire')
        BY <2>2, <4>4, PassedOn
      <4>6. Ended(wire', Reason1(wire')) /\ ser'.needStart
        BY <4>3, <4>4, <4>5 DEF Wrote
      <4>7. wire' \in Seq(Events) /\ Now(wire') = {}
        <5>1. PICK o : Writes(ser', wire', o)
          BY DEF Base
        <5> QED
          BY <4>6, <5>1 DEF Writes, Book, Agrees
      <4>8. emu'.buffer = <<>>
        <5>1. native' = native
          BY <1>2, StepsYield
        <5> QED
          BY <4>4, <5>1 DEF Base, EmulationInv
      <4> QED
        BY <4>6, <4>7, <4>8 DEF Told1
    <3>2. CASE ~Done /\ ~FlushAtEnd
      <4>1. upstream \in {"open", "ending"} /\ upstream' \in {"open", "ending"}
            /\ (~cut' => ~cut)
        BY <2>1, <2>2, <3>2, Leads
      <4> SUFFICES ASSUME ~cut', NoEnd(wire) PROVE NoEnd(wire')
        BY <4>1 DEF EndInv
      <4>2. out' = <<>> \/ \E d : out' = <<d>> /\ ~d.done
        BY <2>2, <3>2, OthersPass
      <4>3. CASE out' = <<>>
        BY <2>2, <4>3 DEF WroteOut
      <4>4. ASSUME NEW d, out' = <<d>>, ~d.done PROVE NoEnd(wire')
        <5>1. Wrote(ser, wire, d, ser', wire')
          BY <2>2, <4>4, PassedOn
        <5> QED
          BY <4>4, <5>1 DEF Wrote
      <4> QED
        BY <4>2, <4>3, <4>4
    <3> QED
      BY <3>1, <3>2
  <2>3. CASE ReportsError \/ Breaks
    BY <2>1, <2>3, Leads DEF EndInv
  <2>4. ASSUME Closes, TransformEnd, NEW w, WroteOut(w),
               wire' = IF emu'.broken THEN w
                       ELSE Append(w, MessageEvent("message_stop"))
        PROVE  EndInv'
    <3>1. upstream' = "closed" /\ (~cut' => ~cut /\ upstream = "done")
      BY <2>1, <2>4, Leads
    <3> SUFFICES ASSUME ~cut', ~emu'.broken
                 PROVE  Told1(w) /\ wire' = Append(w, MessageEvent("message_stop"))
      BY <3>1 DEF EndInv
    <3>2. ~emu.broken
      BY <2>4 DEF TransformEnd
    <3>3. Told1(wire) /\ emu.buffer = <<>>
      BY <3>1, <3>2 DEF EndInv
    <3>4. out' = <<>>
      BY <2>4, <3>3 DEF TransformEnd
    <3>5. w = wire
      BY <2>4, <3>4 DEF WroteOut
    <3> QED
      BY <2>4, <3>3, <3>5
  <2> QED
    BY <1>2, <2>2, <2>3, <2>4, WireSteps
<1> QED
  BY <1>1, <1>2

LEMMA AlwaysEnd == Spec => []EndInv
BY AlwaysBase, EndInit, EndNext, PTL DEF Spec

\* A whole stream ends as the protocol has it, with the reason it stopped for.
THEOREM AlwaysEndsProperly == Spec => []EndsProperly
<1>1. Base /\ EndInv => EndsProperly
  <2> SUFFICES ASSUME Base, EndInv, upstream = "closed", ~emu.broken, ~cut
               PROVE  LET n == Len(wire)
                          called == \E i \in Positions("delta") : wire[i].kind = "tool_use"
                      IN  /\ OpenAt(n) = {}
                          /\ Positions("message_stop") = {n}
                          /\ Positions("message_delta") = {n - 1}
                          /\ wire[n - 1].kind = IF called THEN "tool_use" ELSE "end_turn"
    BY DEF EndsProperly, Over
  <2> DEFINE e == MessageEvent("message_stop")
  <2>1. PICK w : Told1(w) /\ wire = Append(w, e)
    BY DEF EndInv
  <2>2. IsEvent(e, "message_stop", 0, "", NoTool, <<>>)
    <3>1. "message_stop" \in EventTypes
      BY DEF EventTypes
    <3> QED
      BY <3>1, BlockEventIs DEF MessageEvent
  <2>3. e \in Events /\ e.type = "message_stop"
    BY <2>2 DEF IsEvent
  <2>4. w \in Seq(Events) /\ Now(w) = {} /\ Ended(w, Reason1(w))
    BY <2>1 DEF Told1
  <2> HIDE DEF e, Events
  <2>5. /\ Len(wire) = Len(w) + 1 /\ Len(w) \in Nat /\ wire \in Seq(Events)
        /\ \A k \in 1 .. Len(w) : wire[k] = w[k]
        /\ wire[Len(w) + 1] = e
    BY <2>1, <2>3, <2>4, Appended
  <2>6. OpenAt(Len(wire)) = {}
    <3>1. OpenIn(wire, Len(w) + 1) = OpenIn(w, Len(w) + 1)
      BY <2>1, <2>3, <2>4, <2>5, OpenBefore
    <3> QED
      BY <2>4, <2>5, <3>1, OpenAtIs DEF Now
  <2>7. Len(w) \in Nat \ {0} /\ Len(wire) - 1 = Len(w)
        /\ w[Len(w)].type = "message_delta" /\ w[Len(w)].kind = Reason1(w)
        /\ \A i \in 1 .. Len(w) - 1 : w[i].type \notin {"message_delta", "message_stop"}
    BY <2>4, <2>5 DEF Ended
  <2> DEFINE n == Len(w)
  <2> HIDE DEF n
  <2>8. /\ DOMAIN wire = 1 .. n + 1
        /\ \A i \in 1 .. n + 1 : i \in 1 .. n - 1 \/ i = n \/ i = n + 1
        /\ n # n + 1 /\ n \in 1 .. n + 1 /\ n + 1 \in 1 .. n + 1
        /\ \A i \in 1 .. n - 1 : wire[i] = w[i]
        /\ wire[n] = w[n] /\ wire[n + 1] = e
    <3>1. n \in Nat \ {0} /\ n = Len(w)
      BY <2>7 DEF n
    <3>2. DOMAIN wire = 1 .. Len(wire)
      BY <2>5
    <3>3. \A i \in 1 .. n - 1 : i \in 1 .. n
      BY <3>1
    <3> QED
      BY <2>5, <3>1, <3>2, <3>3
  <2>n. /\ w[n].type = "message_delta" /\ w[n].kind = Reason1(w) /\ n = Len(w)
        /\ \A i \in 1 .. n - 1 : w[i].type \notin {"message_delta", "message_stop"}
    BY <2>7 DEF n
  <2>t. /\ wire[n + 1].type = "message_stop" /\ wire[n].type = "message_delta"
        /\ \A i \in 1 .. n - 1 : wire[i].type \notin {"message_delta", "message_stop"}
    BY <2>3, <2>8, <2>n
  <2>9. Positions("message_stop") = {Len(w) + 1}
    <3>1. \A i \in 1 .. n + 1 : wire[i].type = "message_stop" <=> i = n + 1
      BY <2>8, <2>t
    <3>2. {i \in 1 .. n + 1 : wire[i].type = "message_stop"} = {n + 1}
      BY <2>8, <3>1
    <3> QED
      BY <2>8, <2>n, <3>2 DEF Positions
  <2>10. Positions("message_delta") = {Len(w)}
    <3>1. \A i \in 1 .. n + 1 : wire[i].type = "message_delta" <=> i = n
      BY <2>8, <2>t
    <3>2. {i \in 1 .. n + 1 : wire[i].type = "message_delta"} = {n}
      BY <2>8, <3>1
    <3> QED
      BY <2>8, <2>n, <3>2 DEF Positions
  <2>11. (\E i \in Positions("delta") : wire[i].kind = "tool_use") <=> HasCall(w)
    <3>1. HasCall(wire) <=> HasCall(w)
      BY <2>1, <2>3, <2>4, TellsMore
    <3>2. DOMAIN wire = 1 .. Len(wire)
      BY <2>5
    <3> QED
      BY <3>1, <3>2 DEF HasCall, Positions
  <2>12. wire[Len(wire) - 1].kind
            = IF \E i \in Positions("delta") : wire[i].kind = "tool_use"
              THEN "tool_use" ELSE "end_turn"
    BY <2>5, <2>7, <2>8, <2>11 DEF Reason1, n
  <2> QED
    BY <2>5, <2>6, <2>7, <2>9, <2>10, <2>12
<1> QED
  BY <1>1, AlwaysBase, AlwaysEnd, PTL

-----------------------------------------------------------------------------
(* The blocks of a whole stream.                                           *)

\* Something is held back: text, or a tool call.
Holds == emu.buffering \/ pending.tool # NoTool

Nothing(c) == ~c.reasoning /\ ~c.content /\ c.tool = NoTool

\* What was held back is still so, and what is begun and not passed on is.
KeepsHold == (Holds => Holds') /\ (~Empty' => ~Empty \/ Holds')

\* What a step before the end passes on.
Passes ==
    \/ out' = <<>> /\ KeepsHold
    \/ \E d : /\ out' = <<d>> /\ ~d.done
              /\ d.tool # NoTool => Holds' /\ (native \/ emu'.outgrown)
              /\ Nothing(d) => KeepsHold

\* The fields of the parser's chunks.
LEMMA ChunksAre ==
    /\ ReasoningChunk.reasoning /\ ~ReasoningChunk.content
    /\ ReasoningChunk.tool = NoTool /\ ~ReasoningChunk.done
    /\ \A text, done : /\ TextChunk(text, done).content
                       /\ ~TextChunk(text, done).reasoning
                       /\ TextChunk(text, done).tool = NoTool
                       /\ TextChunk(text, done).text = text
                       /\ TextChunk(text, done).done = done
    /\ \A done : Nothing(Bare(done)) /\ Bare(done).done = done
<1>1. ASSUME NEW c, c = ReasoningChunk
      PROVE  c.reasoning /\ ~c.content /\ c.tool = NoTool /\ ~c.done
  BY <1>1 DEF ReasoningChunk, Bare
<1>2. ASSUME NEW text, NEW done, NEW c, c = TextChunk(text, done)
      PROVE  c.content /\ ~c.reasoning /\ c.tool = NoTool /\ c.text = text
             /\ c.done = done
  BY <1>2 DEF TextChunk, Bare
<1>3. ASSUME NEW done, NEW c, c = Bare(done) PROVE Nothing(c) /\ c.done = done
  BY <1>3 DEF Bare, Nothing
<1> QED
  BY <1>1, <1>2, <1>3

LEMMA NativePasses ==
    ASSUME Base, native, Parses, ~Done, ~FlushAtEnd, Transform
    PROVE  Passes
<1> USE ChunksAre
<1>1. out' = parsed' /\ emu' = emu
  BY DEF Transform
<1>2. pending.tool \in Tools \cup {NoTool} /\ tools \in Nat
      /\ pending \in [tool : Tools \cup {NoTool}, args : {"half", "whole", "garbled"}]
  BY SseParserAssumption DEF Base, ParserInv, SseParserAssumption
<1>3. CASE Reason
  BY <1>1, <1>3 DEF Reason, Passes, Nothing
<1>4. CASE Write
  <2>1. PICK text : parsed' = <<TextChunk(<<text>>, FALSE)>>
    BY <1>4, Zenon DEF Write
  <2>2. out' = <<TextChunk(<<text>>, FALSE)>>
    BY <1>1, <2>1
  <2> DEFINE d == TextChunk(<<text>>, FALSE)
  <2>3. d.content /\ d.tool = NoTool /\ ~d.done
    OBVIOUS
  <2> HIDE DEF d
  <2>4. out' = <<d>>
    BY <2>2 DEF d
  <2> QED
    BY <2>3, <2>4 DEF Passes, Nothing
<1>5. CASE ToolBegins
  <2>1. Holds'
    BY <1>2, <1>5 DEF ToolBegins, Holds
  <2>2. parsed' = <<>> \/ parsed' = <<Flushed(FALSE)>>
    BY <1>5 DEF ToolBegins, When
  <2>3. ASSUME NEW c, c = Flushed(FALSE) PROVE ~c.done
    BY <2>3 DEF Flushed, Bare
  <2>4. KeepsHold
    BY <2>1 DEF KeepsHold
  <2> QED
    BY <1>1, <2>1, <2>2, <2>3, <2>4 DEF Passes
<1>7. CASE ToolGoesOn
  <2>1. pending'.tool = pending.tool
    BY <1>2, <1>7 DEF ToolGoesOn, NoPending
  <2>2. ~Empty
    <3>1. PICK t \in half : TRUE
      BY <1>7 DEF ToolGoesOn
    <3>2. t \in 1 .. tools
      BY <3>1 DEF Base, ParserInv
    <3>3. tools # 0
      BY <1>2, <3>2
    <3> QED
      BY <3>3 DEF Empty
  <2>3. parsed' = <<>>
    BY <1>7 DEF ToolGoesOn
  <2> QED
    BY <1>1, <2>1, <2>2, <2>3 DEF Passes, KeepsHold, Holds
<1>8. CASE Usage
  <2>1. KeepsHold /\ out' = <<Bare(FALSE)>>
    BY <1>1, <1>8 DEF Usage, KeepsHold, Holds, Empty, upstreamVars
  <2> QED
    BY <2>1 DEF Passes, Nothing
<1> QED
  BY <1>3, <1>4, <1>5, <1>7, <1>8 DEF Parses

LEMMA EmulatedPasses ==
    ASSUME Base, ~native, Parses, ~Done, ~FlushAtEnd, Transform
    PROVE  Passes
<1> USE ChunksAre
<1>0. SseParserAssumption
  BY SseParserAssumption
<1>1. ~ToolBegins /\ ~ToolGoesOn /\ ~Usage
  BY DEF ToolBegins, ToolGoesOn, Usage, Base, ParserInv
<1>2. CASE Reason
  <2>1. parsed' = <<ReasoningChunk>> /\ parsed' # <<>> /\ parsed'[1] = ReasoningChunk
    BY <1>2 DEF Reason
  <2>2. out' = <<ReasoningChunk>>
    BY <2>1 DEF Transform
  <2> QED
    BY <2>2 DEF Passes, Nothing
<1>4. CASE Write
  <2>1. PICK text \in Texts : parsed' = <<TextChunk(<<text>>, FALSE)>>
    BY <1>4 DEF Write, Texts
  <2> DEFINE c == TextChunk(<<text>>, FALSE)
             b == emu.buffer \o c.text
  <2>2. parsed' # <<>> /\ parsed'[1] = c
    BY <2>1
  <2>9. /\ c.content /\ ~c.reasoning /\ c.tool = NoTool /\ ~c.done
        /\ c.text = <<text>>
    OBVIOUS
  <2> HIDE DEF c
  <2>3. TakeText(c)
    BY <2>2, <2>9 DEF Transform
  <2>4. emu \in [buffering : BOOLEAN, buffer : Seq(Texts), flushed : BOOLEAN,
                 outgrown : BOOLEAN, broken : BOOLEAN]
    BY DEF Base, EmulationInv
  <2>5. c.text \in Seq(Texts) /\ b \in Seq(Texts)
    <3> HIDE DEF Texts
    <3>1. c.text \in Seq(Texts)
      BY <2>9
    <3> QED
      BY <2>4, <3>1
  <2>6. CASE ~emu.buffering /\ ~LooksLikeCall(c.text)
    <3>1. out' = <<c>>
      BY <2>3, <2>6 DEF TakeText
    <3> QED
      BY <2>9, <3>1 DEF Passes, Nothing
  <2>7. ASSUME NEW text1, Hold(text1) PROVE Passes
    <3>1. emu'.buffering /\ out' = <<>>
      BY <2>4, <2>7 DEF Hold
    <3> QED
      BY <3>1 DEF Passes, KeepsHold, Holds
  <2>8. CASE emu.buffering /\ Flush(b, FALSE)
    <3> HIDE DEF b
    <3>1. CASE Inverted(b)
      <4>1. emu'.buffering /\ out' = <<>>
        BY <2>4, <2>8, <3>1 DEF Flush
      <4> QED
        BY <4>1 DEF Passes, KeepsHold, Holds
    <3>2. CASE ~Inverted(b)
      <4> DEFINE d == Unbuffered(b, FALSE)
      <4>1. out' = <<d>>
        BY <2>8, <3>2 DEF Flush
      <4>2. /\ d.done = FALSE
            /\ d.content \/ d.tool # NoTool
            /\ CallIn(b) = {} => d.tool = NoTool
        BY <1>0, <2>5, UnbufferedIs
      <4>3. CallIn(b) # {} => emu'.buffering
        BY <2>4, <2>8, <3>2 DEF Flush
      <4>4. emu'.outgrown
        BY <2>4, <2>8, <3>2 DEF Flush
      <4> HIDE DEF d
      <4> QED
        BY <4>1, <4>2, <4>3, <4>4 DEF Passes, Nothing, Holds
    <3> QED
      BY <3>1, <3>2
  <2> QED
    BY <2>3, <2>6, <2>7, <2>8 DEF TakeText
<1> QED
  BY <1>1, <1>2, <1>4 DEF Parses

\* The buffer stays outgrown.
LEMMA OutgrownStays ==
    ASSUME Base, Transform \/ TransformEnd, emu.outgrown
    PROVE  emu'.outgrown
<1>1. emu \in [buffering : BOOLEAN, buffer : Seq(Texts), flushed : BOOLEAN,
              outgrown : BOOLEAN, broken : BOOLEAN]
  BY DEF Base, EmulationInv
<1>2. ASSUME NEW b, NEW done, Flush(b, done) PROVE emu'.outgrown
  <2>1. CASE Inverted(b)
    BY <1>1, <1>2, <2>1 DEF Flush
  <2>2. CASE ~Inverted(b)
    BY <1>1, <1>2, <2>2 DEF Flush
  <2> QED
    BY <2>1, <2>2
<1>3. ASSUME NEW b, Hold(b) PROVE emu'.outgrown
  BY <1>1, <1>3 DEF Hold
<1>4. CASE emu' = emu
  BY <1>4
<1>5. ASSUME NEW c, TakeText(c) PROVE emu'.outgrown
  BY <1>2, <1>3, <1>4, <1>5 DEF TakeText
<1>6. ASSUME NEW c, TakeLast(c) PROVE emu'.outgrown
  <2>1. CASE emu' = [emu EXCEPT !.flushed = TRUE]
    BY <1>1, <2>1
  <2> QED
    BY <1>2, <1>6, <2>1 DEF TakeLast
<1>7. CASE Transform
  BY <1>4, <1>5, <1>6, <1>7 DEF Transform
<1>8. CASE TransformEnd
  BY <1>2, <1>4, <1>8 DEF TransformEnd
<1> QED
  BY <1>7, <1>8

\* The end is announced by a chunk with nothing in it.
LEMMA UsagePasses ==
    ASSUME Usage, Transform
    PROVE  \E d : out' = <<d>> /\ ~d.done /\ Nothing(d)
<1>1. parsed' = <<Bare(FALSE)>> /\ parsed' # <<>> /\ parsed'[1] = Bare(FALSE)
  BY DEF Usage
<1>2. out' = <<Bare(FALSE)>>
  BY <1>1, ChunksAre DEF Transform, Nothing
<1> QED
  BY <1>2, ChunksAre

\* As long as no error cuts the stream, and nothing but its end empties the
\* buffer, its blocks are in order.  A tool's block is open only while a call is
\* held back that will come after it, and none is when the usage has been told;
\* while nothing is open, nothing was sent or something is held back.
BlockInv ==
    ~cut /\ ~emu.outgrown =>
        /\ ~Empty \/ upstream \in {"open", "ending"} =>
              \E o : Writes(ser, wire, o) /\ Tidy(wire, ser.index, o)
        /\ upstream \in {"open", "ending"} =>
              /\ ser.tool => native /\ Holds /\ upstream # "ending"
              /\ ~Empty => ~ser.needStart \/ Holds

LEMMA BlockInit ==
    ASSUME Init
    PROVE  BlockInv
<1>1. Base
  BY BaseInit
<1>2. /\ wire = <<MessageEvent("message_start")>> /\ ser.index = 0 /\ ser.needStart
      /\ ~ser.tool /\ pieces = 0 /\ tools = 0
  BY DEF Init, ParserInit, AnthropicInit
<1>3. PICK o : Writes(ser, wire, o)
  BY <1>1 DEF Base
<1>4. o = 0
  BY <1>2, <1>3 DEF Writes, Agrees
<1>5. Len(wire) = 1 /\ wire[1].type = "message_start" /\ 1 .. Len(wire) = {1}
  <2>1. Len(wire) = 1 /\ wire[1].type = "message_start"
    BY <1>2 DEF MessageEvent, BlockEvent, Event
  <2> QED
    BY <2>1
<1>6. StartsBefore(wire, Len(wire) + 1) = {}
  BY <1>5 DEF StartsBefore
<1>7. Cardinality({}) = 0
  BY FS_EmptySet
<1>8. Tidy(wire, 0, 0)
  <2>1. AllPlaced(wire)
    BY <1>5 DEF AllPlaced, Placed
  <2>2. Cardinality(StartsBefore(wire, Len(wire) + 1)) = 0
    BY <1>6, <1>7, Zenon
  <2> QED
    BY <2>1, <2>2 DEF Tidy
<1> QED
  BY <1>2, <1>3, <1>4, <1>8 DEF BlockInv, Empty

LEMMA BlockNext ==
    ASSUME Base, Base', BlockInv, EndInv, UsageLine, [Next]_vars
    PROVE  BlockInv'
<1>1. CASE UNCHANGED vars
  BY <1>1 DEF BlockInv, Empty, Holds, vars, parserVars, upstreamVars,
    emulationVars, anthropicVars
<1>2. CASE Next
  <2>1. Reads /\ ParserInv
    BY <1>2 DEF Next, Reads, Base
  <2>2. \A o, d : /\ Writes(ser, wire, o) /\ Tidy(wire, ser.index, o)
                  /\ OneThing(d) /\ Wrote(ser, wire, d, ser', wire') /\ Ready(ser, d)
                  => \E p : Writes(ser', wire', p) /\ Tidy(wire', ser'.index, p)
    BY DEF Wrote
  <2>3. CASE Parses /\ Transform /\ WroteOut(wire') /\ ~Done /\ ~FlushAtEnd
    <3>1. upstream \in {"open", "ending"} /\ upstream' \in {"open", "ending"}
          /\ (~cut' => ~cut)
      BY <2>1, <2>3, Leads
    <3> SUFFICES ASSUME ~cut', ~emu'.outgrown
                 PROVE  /\ \E o : Writes(ser', wire', o) /\ Tidy(wire', ser'.index, o)
                        /\ ser'.tool => native' /\ Holds' /\ upstream' # "ending"
                        /\ ~Empty' => ~ser'.needStart \/ Holds'
      BY DEF BlockInv
    <3>0. ~emu.outgrown /\ native' = native
      BY <1>2, <2>3, OutgrownStays, StepsYield
    <3>2. PICK o : Writes(ser, wire, o) /\ Tidy(wire, ser.index, o)
      BY <3>0, <3>1 DEF BlockInv
    <3>3. /\ ser.tool => native /\ Holds
          /\ ~Empty => ~ser.needStart \/ Holds
      BY <3>0, <3>1 DEF BlockInv
    <3>4. Passes
      BY <2>3, NativePasses, EmulatedPasses
    <3>5. upstream' = "ending" => Usage
      BY <2>3 DEF Parses, Reason, Write, ToolBegins, ToolGoesOn
    <3>6. CASE out' = <<>>
      <4>1. wire' = wire /\ ser' = ser
        BY <2>3, <3>6 DEF WroteOut
      <4>2. KeepsHold
        BY <3>4, <3>6 DEF Passes
      <4>3. ~Usage
        BY <2>3, <3>6, UsagePasses
      <4> QED
        BY <3>0, <3>2, <3>3, <3>5, <4>1, <4>2, <4>3 DEF KeepsHold
    <3>7. CASE out' # <<>>
      <4>1. PICK d : /\ out' = <<d>> /\ ~d.done
                     /\ d.tool # NoTool => Holds' /\ native
                     /\ Nothing(d) => KeepsHold
        BY <3>4, <3>7 DEF Passes
      <4>2. OneThing(d) /\ Wrote(ser, wire, d, ser', wire')
        BY <2>3, <4>1, PassedOn
      <4>3. Ready(ser, d)
        BY <4>1 DEF Ready
      <4>4. \E p : Writes(ser', wire', p) /\ Tidy(wire', ser'.index, p)
        BY <2>2, <3>2, <4>2, <4>3
      <4>5. /\ ser'.tool <=> d.tool # NoTool
            /\ ser'.needStart <=> Nothing(d) /\ (ser.needStart \/ ser.tool)
        BY <4>1, <4>2 DEF Wrote, Turned, Nothing
      <4>6. Usage => d.tool = NoTool
        <5>1. Usage => \E e : out' = <<e>> /\ Nothing(e)
          BY <2>3, UsagePasses
        <5> QED
          BY <4>1, <5>1 DEF Nothing
      <4> QED
        BY <3>0, <3>3, <3>5, <4>1, <4>4, <4>5, <4>6 DEF KeepsHold
    <3> QED
      BY <3>6, <3>7
  <2>4. CASE Parses /\ Transform /\ WroteOut(wire') /\ (Done \/ FlushAtEnd)
    <3>1. upstream' \in {"done", "over"} /\ (upstream' = "over" => cut')
          /\ (~cut' => ~cut)
      BY <2>1, <2>4, Leads
    <3> SUFFICES ASSUME ~cut', ~emu'.outgrown, ~Empty'
                 PROVE  \E o : Writes(ser', wire', o) /\ Tidy(wire', ser'.index, o)
      BY <3>1 DEF BlockInv
    <3>0. ~emu.outgrown
      BY <2>4, OutgrownStays
    <3>2. /\ Done /\ (upstream = "ending" \/ ~native)
          /\ upstream \in {"open", "ending"}
      BY <2>1, <2>4, <3>1, Leads DEF Done, MaySayDone
    <3>3. ~Empty
      BY <3>2 DEF Done, Empty, upstreamVars
    <3>4. PICK o : Writes(ser, wire, o) /\ Tidy(wire, ser.index, o)
      BY <3>0, <3>1, <3>3 DEF BlockInv
    <3>5. ~ser.tool /\ (~ser.needStart \/ Holds)
      BY <3>0, <3>1, <3>2, <3>3 DEF BlockInv
    <3>6. CASE out' = <<>>
      BY <2>4, <3>4, <3>6 DEF WroteOut
    <3>7. CASE out' # <<>>
      <4>1. PICK d : /\ out' = <<d>> /\ d.done
                     /\ native => d.tool = pending.tool
                     /\ ~native /\ emu.buffering => d.content \/ d.tool # NoTool
        BY <2>4, <3>7, LastPasses
      <4>2. OneThing(d) /\ Wrote(ser, wire, d, ser', wire')
        BY <2>4, <4>1, PassedOn
      <4>3. Holds => d.content \/ d.tool # NoTool
        BY <4>1 DEF Holds, Base, EmulationInv, ParserInv, NoPending
      <4>4. Ready(ser, d)
        BY <3>5, <4>3 DEF Ready
      <4> QED
        BY <2>2, <3>4, <4>2, <4>4
    <3> QED
      BY <3>6, <3>7
  <2>5. CASE ReportsError \/ Breaks
    BY <2>1, <2>5, Leads DEF BlockInv
  <2>6. ASSUME Closes, TransformEnd, NEW w, WroteOut(w),
               wire' = IF emu'.broken THEN w
                       ELSE Append(w, MessageEvent("message_stop"))
        PROVE  BlockInv'
    <3>1. upstream' = "closed" /\ (~cut' => ~cut /\ upstream = "done")
      BY <2>1, <2>6, Leads
    <3> SUFFICES ASSUME ~cut', ~emu'.outgrown, ~Empty'
                 PROVE  \E o : Writes(ser', wire', o) /\ Tidy(wire', ser'.index, o)
      BY <3>1 DEF BlockInv
    <3>0. ~emu.outgrown
      BY <2>6, OutgrownStays
    <3>2. ~Empty
      BY <2>6 DEF Closes, Empty, upstreamVars
    <3>3. PICK o : Writes(ser, wire, o) /\ Tidy(wire, ser.index, o)
      BY <3>0, <3>1, <3>2 DEF BlockInv
    <3>4. ~emu.broken
      BY <2>6 DEF TransformEnd
    <3>5. emu.buffer = <<>>
      BY <3>1, <3>4 DEF EndInv
    <3>6. out' = <<>>
      BY <2>6, <3>5 DEF TransformEnd
    <3>7. w = wire /\ ser' = ser
      BY <2>6, <3>6 DEF WroteOut
    <3>8. LET v == Append(wire, MessageEvent("message_stop"))
          IN  Writes(ser, v, o) /\ Tidy(v, ser.index, o)
      BY <3>3, OtherWrites
    <3> QED
      BY <2>6, <3>3, <3>7, <3>8
  <2> QED
    BY <1>2, <2>3, <2>4, <2>5, <2>6, WireSteps
<1> QED
  BY <1>1, <1>2

LEMMA AlwaysBlock ==
    ASSUME UsageLine
    PROVE  Spec => []BlockInv
<1>1. Base /\ Base' /\ BlockInv /\ EndInv /\ [Next]_vars => BlockInv'
  BY BlockNext
<1> QED
  BY <1>1, AlwaysBase, AlwaysEnd, BlockInit, PTL DEF Spec

\* If the upstreams that were given the tools send their usage on a line of its
\* own, the blocks of a whole stream are well formed.  If not, a tool's block may
\* be open when the last chunk comes, and what the chunk holds is told in it.
THEOREM BlocksAlwaysWellFormed ==
    ASSUME UsageLine
    PROVE  Spec => []BlocksWellFormed
<1>1. Base /\ BlockInv => BlocksWellFormed
  <2> SUFFICES ASSUME Base, BlockInv, ~cut, ~Empty, ~emu.outgrown
               PROVE  BlocksWellFormed
    BY DEF BlocksWellFormed
  <2>1. PICK o : Writes(ser, wire, o) /\ Tidy(wire, ser.index, o)
    BY DEF BlockInv
  <2>2. wire \in Seq(Events) /\ AllPlaced(wire)
    BY <2>1 DEF Writes, Book, Tidy
  <2>3. DOMAIN wire = 1 .. Len(wire)
    BY <2>2
  <2>4. \A i \in Positions("start") :
            StartsBefore(wire, i) = {j \in Positions("start") : j < i}
    BY <2>3 DEF StartsBefore, Positions
  <2>5. ASSUME NEW i \in Positions("start")
        PROVE  /\ OpenAt(i) = {}
               /\ wire[i].index = Cardinality({j \in Positions("start") : j < i})
    BY <2>2, <2>3, <2>4, OpenAtIs DEF AllPlaced, Placed, Positions
  <2>6. ASSUME NEW i \in Positions("delta")
        PROVE  \E j \in OpenAt(i) :
                  wire[i] = [wire[j] EXCEPT !.type = "delta", !.text = wire[i].text]
    BY <2>2, <2>3, OpenAtIs DEF AllPlaced, Placed, Positions
  <2>7. ASSUME NEW i \in Positions("signature") \cup Positions("stop")
        PROVE  \E j \in OpenAt(i) : wire[i].index = wire[j].index
    BY <2>2, <2>3, OpenAtIs DEF AllPlaced, Placed, Positions
  <2> QED
    BY <2>5, <2>6, <2>7 DEF BlocksWellFormed
<1> QED
  BY <1>1, AlwaysBase, AlwaysBlock, PTL

-----------------------------------------------------------------------------
(* The tool calls of a whole stream.                                       *)

\* The call held back is one whose beginning was heard; none is after the end.
\* No call of a whole stream lacks a fragment in the end.
PendInv ==
    /\ pending.tool \in 0 .. tools
    /\ pending.tool = NoTool => pending = NoPending
    /\ lost \subseteq 1 .. tools
    /\ pending.tool \notin lost
    /\ upstream \in {"done", "closed"} => pending = NoPending
    /\ ~cut /\ upstream \in {"ending", "done", "closed"} => half = {}

\* As long as the upstream sends: the calls after the one held back were lost,
\* and the arguments held back are whole unless its fragments are lost or mixed.
HalfInv ==
    upstream \in {"open", "ending"} =>
        /\ \A t \in 1 .. tools : t > pending.tool => t \in lost
        /\ pending.tool \in half \ spoilt => pending.args = "half"
        /\ pending.tool \in half \cap spoilt => pending.args = "garbled"
        /\ pending.tool # NoTool /\ pending.tool \notin half =>
              (pending.args = "whole" <=> pending.tool \notin spoilt)

\* Call t is told: it was not lost, and is not held back any more.
Due(t) == t \in (1 .. tools) \ lost /\ t # pending.tool

\* The call held back is the one that began last.
LEMMA LatestHeld ==
    ASSUME tools \in Nat, PendInv, HalfInv, upstream = "open"
    PROVE  Latest = pending.tool
<1>1. /\ pending.tool \in 0 .. tools /\ pending.tool \notin lost
      /\ \A t \in 1 .. tools : t > pending.tool => t \in lost
  BY DEF PendInv, HalfInv
<1>2. CASE pending.tool = NoTool
  <2>1. (1 .. tools) \subseteq lost
    BY <1>1, <1>2
  <2> QED
    BY <1>2, <2>1, LatestIs
<1>3. CASE pending.tool # NoTool
  <2>1. pending.tool \in (1 .. tools) \ lost
    BY <1>1, <1>3
  <2>2. /\ Latest \in (1 .. tools) \ lost
        /\ \A k \in (1 .. tools) \ lost : k <= Latest
    BY <2>1, LatestIs
  <2>3. pending.tool <= Latest /\ ~(Latest > pending.tool)
    BY <1>1, <2>1, <2>2
  <2> QED
    BY <1>1, <2>2, <2>3
<1> QED
  BY <1>2, <1>3

LEMMA PendInit ==
    ASSUME Init
    PROVE  PendInv /\ HalfInv
BY DEF Init, ParserInit, PendInv, HalfInv, NoPending

\* What is lost with a delta leaves the call held back as it should be.
LEMMA UnheardKeeps ==
    ASSUME NEW n \in Nat, NEW h \in SUBSET (1 .. n), NEW s \in SUBSET (1 .. n),
           lost \subseteq 1 .. n, Unheard(n, h, s),
           pending'.tool \in (0 .. n) \ lost,
           pending'.tool = NoTool => pending' = NoPending,
           upstream' = "open",
           \A t \in 1 .. n : t > pending'.tool => t \in lost,
           pending'.tool \in h \ s => pending'.args = "half",
           pending'.tool \in h \cap s => pending'.args = "garbled",
           pending'.tool # NoTool /\ pending'.tool \notin h =>
              (pending'.args = "whole" <=> pending'.tool \notin s)
    PROVE  PendInv' /\ HalfInv'
<1> DEFINE q == pending'.tool
<1>1. /\ tools' \in Nat /\ n <= tools'
      /\ lost' \subseteq 1 .. tools' /\ half' \subseteq 1 .. tools'
      /\ (1 .. tools') \ lost' = (1 .. n) \ lost
      /\ \A t \in 1 .. n : /\ t \in half' \cup spoilt' <=> t \in h \cup s
                           /\ t \in half' => t \in h /\ (t \in spoilt' <=> t \in s)
  BY UnheardIs
<1>2. q \in 0 .. tools' /\ q \notin lost'
  <2>1. CASE q = 0
    BY <1>1, <2>1
  <2>2. CASE q # 0
    <3>1. q \in (1 .. n) \ lost
      BY <2>2
    <3>2. q \in (1 .. tools') \ lost'
      BY <1>1, <3>1
    <3> QED
      BY <3>2
  <2> QED
    BY <2>1, <2>2
<1>3. PendInv'
  BY <1>1, <1>2 DEF PendInv
<1>4. ASSUME NEW t \in 1 .. tools', t > q PROVE t \in lost'
  <2> SUFFICES ASSUME t \notin lost' PROVE FALSE
    OBVIOUS
  <2>1. t \in (1 .. n) \ lost
    BY <1>1
  <2> QED
    BY <1>4, <2>1
<1>5. q # NoTool => q \in 1 .. n
  OBVIOUS
<1>6. NoTool \notin half'
  BY <1>1
<1>7. CASE q = NoTool
  BY <1>3, <1>4, <1>6, <1>7 DEF HalfInv
<1>8. CASE q # NoTool
  <2>1. /\ q \in half' \cup spoilt' <=> q \in h \cup s
        /\ q \in half' => q \in h /\ (q \in spoilt' <=> q \in s)
    <3>1. q \in 1 .. n
      BY <1>5, <1>8
    <3>2. \A t \in 1 .. n : /\ t \in half' \cup spoilt' <=> t \in h \cup s
                            /\ t \in half' => t \in h /\ (t \in spoilt' <=> t \in s)
      BY <1>1
    <3> HIDE DEF q
    <3> QED
      BY <3>1, <3>2
  <2>2. /\ q \in h \ s => pending'.args = "half"
        /\ q \in h \cap s => pending'.args = "garbled"
        /\ q \notin h => (pending'.args = "whole" <=> q \notin s)
    BY <1>8
  <2>3. /\ q \in half' \ spoilt' => pending'.args = "half"
        /\ q \in half' \cap spoilt' => pending'.args = "garbled"
    BY <2>1, <2>2
  <2>4. q \notin half' => (pending'.args = "whole" <=> q \notin spoilt')
    BY <2>1, <2>2
  <2> QED
    BY <1>3, <1>4, <2>3, <2>4 DEF HalfInv
<1> QED
  BY <1>7, <1>8

LEMMA PendNext ==
    ASSUME ParserInv, PendInv, HalfInv, Reads
    PROVE  PendInv' /\ HalfInv'
<1>0. /\ tools \in Nat /\ lost \subseteq 1 .. tools
      /\ half \in SUBSET (1 .. tools) /\ spoilt \in SUBSET (1 .. tools)
      /\ pending.tool \in (0 .. tools) \ lost
      /\ pending \in [tool : Tools \cup {NoTool}, args : {"half", "whole", "garbled"}]
      /\ pending.tool = NoTool => pending = NoPending
  BY SseParserAssumption DEF ParserInv, PendInv, SseParserAssumption
<1>1. CASE Reason \/ Write
  <2>1. /\ pending' = pending /\ upstream = "open" /\ upstream' = "open"
        /\ Unheard(tools, half, spoilt)
    BY <1>1 DEF Reason, Write
  <2>2. /\ \A t \in 1 .. tools : t > pending.tool => t \in lost
        /\ pending.tool \in half \ spoilt => pending.args = "half"
        /\ pending.tool \in half \cap spoilt => pending.args = "garbled"
        /\ pending.tool # NoTool /\ pending.tool \notin half =>
              (pending.args = "whole" <=> pending.tool \notin spoilt)
    BY <2>1 DEF HalfInv
  <2> QED
    BY <1>0, <2>1, <2>2, UnheardKeeps
<1>2. CASE ToolBegins
  <2>1. PICK args \in {"half", "whole"} :
            /\ pending' = [tool |-> tools + 1, args |-> args]
            /\ Unheard(tools + 1,
                       IF args = "half" THEN half \cup {tools + 1} ELSE half, spoilt)
    BY <1>2 DEF ToolBegins
  <2> DEFINE h == IF args = "half" THEN half \cup {tools + 1} ELSE half
             n == tools + 1
  <2>2. /\ pending'.tool = n /\ pending'.args = args /\ n # NoTool
        /\ n \in Nat /\ n \in (0 .. n) \ lost /\ lost \subseteq 1 .. n
        /\ h \in SUBSET (1 .. n) /\ spoilt \in SUBSET (1 .. n)
        /\ \A t \in 1 .. n : ~(t > n)
        /\ n \notin half /\ n \notin spoilt
    BY <1>0, <2>1
  <2>3. n \in h <=> args = "half"
    BY <2>2
  <2>4. Unheard(n, h, spoilt) /\ upstream' = "open"
    BY <1>2, <2>1 DEF ToolBegins
  <2> HIDE DEF h, n
  <2> QED
    BY <2>2, <2>3, <2>4, UnheardKeeps
<1>4. CASE ToolGoesOn
  <2>1. PICK t \in half :
          /\ pending' =
                IF pending = NoPending THEN pending
                ELSE [pending EXCEPT
                        !.args = IF @ = "half" /\ t = pending.tool
                                 THEN "whole" ELSE "garbled"]
          /\ Unheard(tools, half \ {t},
                     IF t = Latest THEN spoilt ELSE spoilt \cup Spoils(t))
    BY <1>4 DEF ToolGoesOn
  <2>2. upstream = "open" /\ upstream' = "open"
    BY <1>4 DEF ToolGoesOn
  <2> DEFINE h == half \ {t}
             q == pending.tool
             s == IF t = q THEN spoilt ELSE spoilt \cup ({t, q} \ {NoTool})
             args == IF pending.args = "half" /\ t = q THEN "whole" ELSE "garbled"
  <2>3. Latest = q
    BY <1>0, <2>2, LatestHeld
  <2>4. Unheard(tools, h, s)
    BY <2>1, <2>3 DEF Spoils
  <2>5. t \in 1 .. tools /\ t # NoTool
    BY <1>0, <2>1
  <2>6. h \in SUBSET (1 .. tools) /\ s \in SUBSET (1 .. tools)
    <3>1. {t, q} \ {NoTool} \subseteq 1 .. tools
      BY <1>0, <2>5
    <3> QED
      BY <1>0, <3>1
  <2>7. /\ \A u \in 1 .. tools : u > q => u \in lost
        /\ q \in half \ spoilt => pending.args = "half"
        /\ q \in half \cap spoilt => pending.args = "garbled"
        /\ q # NoTool /\ q \notin half =>
              (pending.args = "whole" <=> q \notin spoilt)
    BY <2>2 DEF HalfInv
  <2>8. pending'.tool = q
    BY <1>0, <2>1 DEF NoPending
  <2>9. q = NoTool => pending' = NoPending
    BY <1>0, <2>1
  <2>10. q # NoTool => pending'.args = args
    BY <1>0, <2>1 DEF NoPending
  <2>11. CASE q = NoTool
    <3>1. q \notin h
      BY <2>6, <2>11
    <3> HIDE DEF h, s, q
    <3> QED
      BY <1>0, <2>2, <2>4, <2>6, <2>7, <2>8, <2>9, <2>11, <3>1, UnheardKeeps DEF q
  <2>12. CASE q # NoTool
    <3>1. /\ q \in h \ s => FALSE
          /\ q \in h \cap s => args = "garbled"
          /\ q \notin h => (args = "whole" <=> q \notin s)
      BY <2>1, <2>5, <2>7, <2>12
    <3> HIDE DEF h, s, q, args
    <3>2. q \in (0 .. tools) \ lost
      BY <1>0 DEF q
    <3> QED
      BY <1>0, <2>2, <2>4, <2>6, <2>7, <2>8, <2>10, <2>12, <3>1, <3>2, UnheardKeeps
  <2> QED
    BY <2>11, <2>12
<1>5. CASE Usage \/ ReportsError
  <2>1. /\ pending' = pending /\ tools' = tools /\ lost' = lost /\ half' = half
        /\ spoilt' = spoilt
        /\ upstream = "open" /\ upstream' \in {"open", "ending"}
        /\ upstream' = "ending" => half = {}
    BY <1>5 DEF Usage, ReportsError, upstreamVars
  <2>2. PendInv'
    BY <2>1 DEF PendInv
  <2>3. HalfInv'
    BY <2>1 DEF HalfInv
  <2> QED
    BY <2>2, <2>3
<1>6. CASE Done \/ FlushAtEnd \/ Breaks \/ Closes
  <2>1. /\ pending' = NoPending \/ pending' = pending
        /\ tools' = tools /\ lost' = lost /\ half' = half
        /\ upstream' \in {"done", "over", "closed"}
        /\ upstream' \in {"done", "closed"} => pending' = NoPending
    BY <1>6 DEF Done, FlushAtEnd, Breaks, Closes, upstreamVars
  <2>2. ~cut' /\ upstream' \in {"done", "closed"} => half = {}
    BY <1>6 DEF Done, MaySayDone, FlushAtEnd, Breaks, Closes, PendInv
  <2>3. NoPending.tool = NoTool /\ 0 \in 0 .. tools /\ NoTool \notin 1 .. tools
    BY <1>0 DEF NoPending
  <2>4. PendInv'
    BY <2>1, <2>2, <2>3 DEF PendInv
  <2>5. HalfInv'
    BY <2>1 DEF HalfInv
  <2> QED
    BY <2>4, <2>5
<1> QED
  BY <1>1, <1>2, <1>4, <1>5, <1>6 DEF Reads, Parses

LEMMA AlwaysPend == Spec => [](PendInv /\ HalfInv)
<1>1. Base /\ PendInv /\ HalfInv /\ [Next]_vars => (PendInv /\ HalfInv)'
  <2>1. CASE Next
    BY <2>1, PendNext DEF Next, Reads, Base
  <2>2. CASE UNCHANGED vars
    BY <2>2 DEF PendInv, HalfInv, vars, parserVars, upstreamVars
  <2> QED
    BY <2>1, <2>2
<1> QED
  BY <1>1, AlwaysBase, PendInit, PTL DEF Spec

\* The arguments a call has when it is passed on.
Args(args) == IF args = "whole" THEN <<"args">> ELSE <<>>

\* A step passes on the call held back if it makes it due, and no other.
LEMMA CallsPass ==
    ASSUME Base, PendInv, native, Parses, Transform
    PROVE  \/ out' = <<>> /\ \A t \in Tools : Due(t)' <=> Due(t)
           \/ \E d : /\ out' = <<d>>
                     /\ d.tool \in {NoTool, pending.tool}
                     /\ d.tool # NoTool => d.text = Args(pending.args)
                     /\ \A t \in Tools : /\ Due(t)' <=> Due(t) \/ d.tool = t
                                         /\ d.tool = t => ~Due(t)
<1>1. out' = parsed'
  BY DEF Transform
<1>2. /\ tools \in Nat /\ lost \subseteq 1 .. tools
      /\ half \in SUBSET (1 .. tools) /\ spoilt \in SUBSET (1 .. tools)
      /\ pending.tool \in 0 .. tools /\ pending.tool \notin lost
  BY SseParserAssumption DEF Base, ParserInv, PendInv, SseParserAssumption
<1>3. \A t \in Tools : t # NoTool
  OBVIOUS
<1>4. ASSUME NEW done, NEW c, c = Flushed(done)
      PROVE  c.tool = pending.tool /\ c.text = Args(pending.args)
  <2> DEFINE args == Args(pending.args)
  <2>1. c = [Bare(done) EXCEPT !.tool = pending.tool, !.text = args]
    BY <1>4 DEF Flushed, Args
  <2> HIDE DEF args
  <2>2. c.tool = pending.tool /\ c.text = args
    BY <2>1 DEF Bare
  <2> QED
    BY <2>2 DEF args
<1>5. CASE Reason \/ Write \/ Usage
  <2>1. \E d : parsed' = <<d>> /\ d.tool = NoTool
    <3>1. ReasoningChunk.tool = NoTool /\ Bare(FALSE).tool = NoTool
          /\ \A text : TextChunk(text, FALSE).tool = NoTool
      BY ChunksAre DEF Nothing
    <3>2. CASE Reason
      BY <3>1, <3>2 DEF Reason
    <3>3. CASE Write
      BY <3>1, <3>3 DEF Write
    <3>4. CASE Usage
      BY <3>1, <3>4 DEF Usage
    <3> QED
      BY <1>5, <3>2, <3>3, <3>4
  <2>2. (1 .. tools') \ lost' = (1 .. tools) \ lost /\ pending' = pending
    <3>1. CASE Reason \/ Write
      <4>1. Unheard(tools, half, spoilt) /\ pending' = pending
        BY <3>1 DEF Reason, Write
      <4> QED
        BY <1>2, <4>1, UnheardIs, Zenon
    <3>2. CASE Usage
      BY <3>2 DEF Usage, upstreamVars
    <3> QED
      BY <1>5, <3>1, <3>2
  <2>3. \A t \in Tools : Due(t)' <=> Due(t)
    BY <2>2 DEF Due
  <2> QED
    BY <1>1, <1>3, <2>1, <2>3
<1>6. CASE ToolBegins
  <2>1. PICK args \in {"half", "whole"} :
            /\ pending' = [tool |-> tools + 1, args |-> args]
            /\ Unheard(tools + 1,
                       IF args = "half" THEN half \cup {tools + 1} ELSE half, spoilt)
    BY <1>6 DEF ToolBegins
  <2> DEFINE h == IF args = "half" THEN half \cup {tools + 1} ELSE half
             n == tools + 1
  <2>2. /\ n \in Nat /\ lost \subseteq 1 .. n
        /\ h \in SUBSET (1 .. n) /\ spoilt \in SUBSET (1 .. n)
        /\ pending'.tool = n
    BY <1>2, <2>1
  <2>3. \A t \in Tools : Due(t)' <=> t \in 1 .. tools /\ t \notin lost
    <3>1. Unheard(n, h, spoilt)
      BY <2>1
    <3>2. \A t : t \in 1 .. n /\ t # n <=> t \in 1 .. tools
      BY <1>2
    <3> HIDE DEF n, h
    <3>3. (1 .. tools') \ lost' = (1 .. n) \ lost
      BY <2>2, <3>1, UnheardIs, Zenon
    <3> QED
      BY <2>2, <3>2, <3>3 DEF Due
  <2>4. CASE pending = NoPending
    <3>1. parsed' = <<>> /\ pending.tool = NoTool
      BY <1>6, <2>4 DEF ToolBegins, When, NoPending
    <3> QED
      BY <1>1, <1>3, <2>3, <3>1 DEF Due
  <2>5. CASE pending # NoPending
    <3>1. parsed' = <<Flushed(FALSE)>> /\ pending.tool # NoTool
      BY <1>6, <2>5 DEF ToolBegins, When, PendInv
    <3>2. PICK d : out' = <<d>> /\ d.tool = pending.tool /\ d.text = Args(pending.args)
      BY <1>1, <1>4, <3>1
    <3>3. pending.tool \in 1 .. tools
      BY <1>2, <3>1
    <3> QED
      BY <1>2, <2>1, <2>3, <3>2, <3>3 DEF Due
  <2> QED
    BY <2>4, <2>5
<1>8. CASE ToolGoesOn
  <2>1. pending \in [tool : Tools \cup {NoTool}, args : {"half", "whole", "garbled"}]
    BY DEF Base, ParserInv
  <2>2. pending'.tool = pending.tool /\ parsed' = <<>>
    BY <1>8, <2>1 DEF ToolGoesOn, NoPending
  <2>3. PICK t \in half :
            Unheard(tools, half \ {t},
                    IF t = Latest THEN spoilt ELSE spoilt \cup Spoils(t))
    BY <1>8 DEF ToolGoesOn
  <2> DEFINE h == half \ {t}
             s == IF t = Latest THEN spoilt ELSE spoilt \cup Spoils(t)
  <2>4. h \in SUBSET (1 .. tools) /\ s \in SUBSET (1 .. tools)
    <3>1. Latest = NoTool \/ Latest \in 1 .. tools
      BY <1>2, LatestIs
    <3> QED
      BY <1>2, <3>1 DEF Spoils
  <2>5. (1 .. tools') \ lost' = (1 .. tools) \ lost
    <3>1. Unheard(tools, h, s)
      BY <2>3
    <3> HIDE DEF h, s
    <3> QED
      BY <1>2, <2>4, <3>1, UnheardIs, Zenon
  <2> QED
    BY <1>1, <2>2, <2>5 DEF Due
<1>9. CASE Done \/ FlushAtEnd
  <2>1. /\ parsed' = <<Flushed(TRUE)>> /\ pending' = NoPending /\ tools' = tools
        /\ lost' = lost
    BY <1>9 DEF Done, FlushAtEnd, upstreamVars
  <2>2. PICK d : out' = <<d>> /\ d.tool = pending.tool /\ d.text = Args(pending.args)
    BY <1>1, <1>4, <2>1
  <2>3. pending'.tool = NoTool
    BY <2>1 DEF NoPending
  <2>4. pending.tool # NoTool => pending.tool \in 1 .. tools
    BY <1>2
  <2>5. \A t \in Tools : /\ Due(t)' <=> Due(t) \/ d.tool = t
                         /\ d.tool = t => ~Due(t)
    BY <1>2, <1>3, <2>1, <2>2, <2>3, <2>4 DEF Due
  <2> QED
    BY <2>2, <2>5
<1> QED
  BY <1>5, <1>6, <1>8, <1>9 DEF Parses

\* Of a stream that no error cuts, from an upstream that was given the tools, the
\* calls that are due are those a block was started for.
AnnouncedInv ==
    native /\ ~cut => \A t \in Tools : Begun(wire, t) = IF Due(t) THEN 1 ELSE 0

\* No tool's block is open when a call comes with the end.
LEMMA ReadyForCall ==
    ASSUME Base, BlockInv, UsageLine, native, Parses, Transform, ~cut',
           NEW d, out' = <<d>>
    PROVE  Ready(ser, d) \/ d.tool = NoTool
<1>1. ParserInv /\ Reads /\ out' # <<>>
  BY DEF Base, Reads
<1>2. CASE Done \/ FlushAtEnd
  <2>1. Done /\ upstream = "ending" /\ ~cut
    BY <1>1, <1>2, Leads DEF Done, MaySayDone
  <2>2. ~ser.tool
    BY <2>1 DEF BlockInv, Base, EmulationInv
  <2> QED
    BY <2>2 DEF Ready
<1>3. CASE ~Done /\ ~FlushAtEnd
  <2>1. PICK e : out' = <<e>> /\ ~e.done
    BY <1>1, <1>3, OthersPass
  <2>2. e = d
    BY <2>1
  <2> QED
    BY <2>1, <2>2 DEF Ready
<1> QED
  BY <1>2, <1>3

LEMMA AnnouncedNext ==
    ASSUME Base, Base', BlockInv, EndInv, PendInv, AnnouncedInv, UsageLine,
           [Next]_vars
    PROVE  AnnouncedInv'
<1>1. CASE UNCHANGED vars
  BY <1>1 DEF AnnouncedInv, Due, vars, parserVars, upstreamVars, anthropicVars
<1>2. CASE Next
  <2>1. Reads /\ ParserInv
    BY <1>2 DEF Next, Reads, Base
  <2>0. native' = native
    BY <1>2, StepsYield
  <2> SUFFICES ASSUME native, ~cut', NEW t \in Tools
               PROVE  Begun(wire', t) = IF Due(t)' THEN 1 ELSE 0
    BY <2>0 DEF AnnouncedInv, Due
  <2>2. ~cut
    BY <2>1, Leads
  <2>3. Begun(wire, t) = IF Due(t) THEN 1 ELSE 0
    BY <2>2 DEF AnnouncedInv
  <2>4. CASE Parses /\ Transform /\ WroteOut(wire')
    <3>1. CASE out' = <<>> /\ (Due(t)' <=> Due(t))
      <4>1. wire' = wire
        BY <2>4, <3>1 DEF WroteOut
      <4> QED
        BY <2>3, <3>1, <4>1
    <3>2. ASSUME NEW d, out' = <<d>>, Due(t)' <=> Due(t) \/ d.tool = t,
                 d.tool = t => ~Due(t)
          PROVE  Begun(wire', t) = IF Due(t)' THEN 1 ELSE 0
      <4>1. Wrote(ser, wire, d, ser', wire')
        BY <2>4, <3>2, PassedOn
      <4>2. Ready(ser, d) \/ d.tool = NoTool
        BY <2>4, <3>2, ReadyForCall
      <4>3. Begun(wire', t) = Begun(wire, t) + (IF d.tool = t THEN 1 ELSE 0)
        BY <4>1, <4>2 DEF Wrote
      <4> HIDE DEF Due
      <4> QED
        BY <2>3, <3>2, <4>3
    <3> QED
      BY <2>4, <3>1, <3>2, CallsPass
  <2>5. CASE ReportsError \/ Breaks
    BY <2>1, <2>5, Leads
  <2>6. ASSUME Closes, TransformEnd, NEW w, WroteOut(w),
               wire' = IF emu'.broken THEN w
                       ELSE Append(w, MessageEvent("message_stop"))
        PROVE  Begun(wire', t) = IF Due(t)' THEN 1 ELSE 0
    <3>1. upstream = "done"
      BY <2>1, <2>6, Leads
    <3>2. ~emu.broken
      BY <2>6 DEF TransformEnd
    <3>3. emu.buffer = <<>>
      BY <2>2, <3>1, <3>2 DEF EndInv
    <3>4. out' = <<>>
      BY <2>6, <3>3 DEF TransformEnd
    <3>5. w = wire
      BY <2>6, <3>4 DEF WroteOut
    <3>6. StartsOf(Append(wire, MessageEvent("message_stop")), t) = StartsOf(wire, t)
      BY OtherWrites DEF Base
    <3>7. Begun(wire', t) = Begun(wire, t)
      BY <2>6, <3>5, <3>6 DEF Begun
    <3>8. Due(t)' <=> Due(t)
      BY <2>6 DEF Closes, Due, upstreamVars
    <3> QED
      BY <2>3, <3>7, <3>8
  <2> QED
    BY <1>2, <2>4, <2>5, <2>6, WireSteps
<1> QED
  BY <1>1, <1>2

LEMMA AnnouncedInit ==
    ASSUME Init
    PROVE  AnnouncedInv
<1>1. tools = 0 /\ wire = <<MessageEvent("message_start")>>
  BY DEF Init, ParserInit, AnthropicInit
<1>2. Len(wire) = 1 /\ wire[1].type = "message_start"
  BY <1>1 DEF MessageEvent, BlockEvent, Event
<1>3. \A t : StartsOf(wire, t) = {}
  <2>1. 1 .. Len(wire) = {1}
    BY <1>2
  <2> QED
    BY <1>2, <2>1 DEF StartsOf
<1>4. Cardinality({}) = 0
  BY FS_EmptySet
<1>5. \A t : Begun(wire, t) = 0
  BY <1>3, <1>4, Zenon DEF Begun
<1>6. \A t \in Tools : ~Due(t)
  BY <1>1 DEF Due
<1> QED
  BY <1>5, <1>6 DEF AnnouncedInv

\* If the upstreams that are given the tools send their usage on a line of its
\* own, then when a whole stream is over every tool call its upstream began has a
\* block of its own, but for those whose beginning was lost with what it shared
\* its delta with.
THEOREM ToolsAlwaysAnnounced ==
    ASSUME UsageLine
    PROVE  Spec => []ToolsAnnounced
<1>1. Base /\ PendInv /\ AnnouncedInv => ToolsAnnounced
  <2> SUFFICES ASSUME Base, PendInv, AnnouncedInv, upstream = "closed", ~cut,
                      NEW t \in 1 .. tools
               PROVE  Cardinality({i \in Positions("start") : wire[i].tool = t})
                        = IF t \in lost THEN 0 ELSE 1
    BY DEF ToolsAnnounced, Over
  <2>1. t \in Tools /\ t # NoTool
    BY SseParserAssumption DEF Base, ParserInv, SseParserAssumption
  <2>2. Due(t) <=> t \notin lost
    BY <2>1 DEF PendInv, Due, NoPending
  <2>3. native
    BY DEF Base, ParserInv
  <2>5. Begun(wire, t) = IF Due(t) THEN 1 ELSE 0
    BY <2>1, <2>3 DEF AnnouncedInv
  <2>4. {i \in Positions("start") : wire[i].tool = t} = StartsOf(wire, t)
    <3>1. DOMAIN wire = 1 .. Len(wire)
      BY DEF Base, Writes, Book
    <3> QED
      BY <3>1 DEF Positions, StartsOf
  <2> QED
    BY <2>2, <2>4, <2>5 DEF Begun
<1>2. /\ Base /\ Base' /\ BlockInv /\ EndInv /\ PendInv /\ AnnouncedInv
      /\ [Next]_vars
      => AnnouncedInv'
  BY AnnouncedNext
<1> QED
  BY <1>1, <1>2, AlwaysBase, AlwaysEnd, AlwaysBlock, AlwaysPend, AnnouncedInit, PTL
  DEF Spec

-----------------------------------------------------------------------------
(* The lines of an OpenAI client.                                          *)

LineTypes == {"role", "content", "reasoning", "tool_call", "stop", "[DONE]", "error"}

LEMMA LineIs ==
    ASSUME NEW type \in LineTypes, NEW tool \in {NoTool, Spelled},
           NEW text \in Seq(Texts)
    PROVE  Line(type, tool, text) \in Lines /\ Line(type, tool, text).type = type
<1> DEFINE X == Seq(Texts)
<1>1. Lines = [type : LineTypes, tool : {NoTool, Spelled}, text : X]
  BY DEF Lines, LineTypes
<1>2. text \in X
  OBVIOUS
<1> HIDE DEF X, LineTypes
<1>3. Line(type, tool, text) = [type |-> type, tool |-> tool, text |-> text]
  BY DEF Line
<1> QED
  BY <1>1, <1>2, <1>3

LEMMA LineOfIs ==
    ASSUME NEW type \in LineTypes
    PROVE  LineOf(type) \in Lines /\ LineOf(type).type = type
<1>1. NoTool \in {NoTool, Spelled} /\ <<>> \in Seq(Texts)
  OBVIOUS
<1> QED
  BY <1>1, LineIs DEF LineOf

\* The role comes first, and only then.
Roled(l) ==
    l # <<>> => /\ l[1].type = "role"
                /\ \A i \in 2 .. Len(l) : l[i].type # "role"

NoStop(l) == \A i \in 1 .. Len(l) : l[i].type \notin {"stop", "[DONE]"}

\* The end is told last, and only then.
Finished(l) ==
    /\ Len(l) \in Nat /\ Len(l) >= 3
    /\ l[Len(l)].type = "[DONE]" /\ l[Len(l) - 1].type = "stop"
    /\ \A i \in 1 .. Len(l) - 2 : l[i].type \notin {"stop", "[DONE]"}

\* One more line.
LEMMA LineAppended ==
    ASSUME NEW l \in Seq(Lines), NEW e \in Lines, l # <<>>, Roled(l), e.type # "role"
    PROVE  LET v == Append(l, e)
           IN  /\ v \in Seq(Lines) /\ v # <<>>
               /\ Roled(v)
               /\ NoStop(l) /\ e.type \notin {"stop", "[DONE]"} => NoStop(v)
<1> DEFINE v == Append(l, e)
<1>1. /\ v \in Seq(Lines) /\ Len(v) = Len(l) + 1 /\ Len(l) \in Nat
      /\ \A k \in 1 .. Len(l) : v[k] = l[k]
      /\ v[Len(l) + 1] = e
  BY Appended
<1> HIDE DEF v, Lines
<1>2. Len(l) # 0 /\ v # <<>>
  BY <1>1
<1>3. 1 \in 1 .. Len(l) /\ v[1] = l[1]
  BY <1>1, <1>2
<1>4. \A i \in 1 .. Len(v) : i \in 1 .. Len(l) \/ i = Len(l) + 1
  BY <1>1
<1>5. \A i \in 2 .. Len(v) : (i \in 2 .. Len(l) /\ v[i] = l[i]) \/ i = Len(l) + 1
  BY <1>1
<1>6. Roled(v)
  BY <1>1, <1>2, <1>3, <1>5 DEF Roled
<1>7. NoStop(l) /\ e.type \notin {"stop", "[DONE]"} => NoStop(v)
  BY <1>1, <1>4 DEF NoStop
<1> QED
  BY <1>1, <1>2, <1>6, <1>7 DEF v

LEMMA MaybeLine ==
    ASSUME NEW l \in Seq(Lines), NEW e \in Lines, l # <<>>, Roled(l),
           e.type \notin {"role", "stop", "[DONE]"}, NEW there \in BOOLEAN
    PROVE  LET v == l \o When(there, <<e>>)
           IN  /\ v \in Seq(Lines) /\ v # <<>>
               /\ Roled(v)
               /\ NoStop(l) => NoStop(v)
<1>1. CASE there
  <2>1. l \o When(there, <<e>>) = Append(l, e)
    BY <1>1, JoinedOne DEF When
  <2> QED
    BY <2>1, LineAppended
<1>2. CASE ~there
  <2>1. l \o When(there, <<e>>) = l
    BY <1>2, JoinedNone DEF When
  <2> QED
    BY <2>1
<1> QED
  BY <1>1, <1>2

\* The end.
LEMMA LinesEnd ==
    ASSUME NEW l \in Seq(Lines), l # <<>>, Roled(l), NEW done \in BOOLEAN
    PROVE  LET v == l \o When(done, <<LineOf("stop"), LineOf("[DONE]")>>)
           IN  /\ v \in Seq(Lines) /\ v # <<>>
               /\ Roled(v)
               /\ NoStop(l) /\ ~done => NoStop(v)
               /\ NoStop(l) /\ done => Finished(v)
<1> DEFINE a == LineOf("stop")
           b == LineOf("[DONE]")
           v == l \o When(done, <<a, b>>)
<1>1. /\ a \in Lines /\ a.type = "stop"
      /\ b \in Lines /\ b.type = "[DONE]"
  <2>1. "stop" \in LineTypes /\ "[DONE]" \in LineTypes
    BY DEF LineTypes
  <2> QED
    BY <2>1, LineOfIs
<1> HIDE DEF a, b
<1>2. CASE done
  <2> DEFINE u == Append(l, a)
  <2>1. v = Append(u, b)
    <3> HIDE DEF Lines
    <3>1. <<a, b>> = <<a>> \o <<b>> /\ <<a>> \in Seq(Lines) /\ <<b>> \in Seq(Lines)
      BY <1>1, Pair
    <3> QED
      BY <1>1, <1>2, <3>1, TwoAppended DEF When
  <2>2. /\ u \in Seq(Lines) /\ u # <<>> /\ Roled(u)
        /\ Len(u) = Len(l) + 1 /\ Len(l) \in Nat
        /\ \A k \in 1 .. Len(l) : u[k] = l[k]
        /\ u[Len(l) + 1] = a
    BY <1>1, LineAppended, Appended
  <2> HIDE DEF u, v
  <2>3. /\ v \in Seq(Lines) /\ v # <<>> /\ Roled(v)
        /\ Len(v) = Len(u) + 1
        /\ \A k \in 1 .. Len(u) : v[k] = u[k]
        /\ v[Len(u) + 1] = b
    BY <1>1, <2>1, <2>2, LineAppended, Appended
  <2>4. Len(l) # 0
    BY DEF Lines
  <2>5. /\ Len(v) = Len(l) + 2 /\ Len(l) \in Nat /\ Len(l) >= 1
        /\ Len(v) - 1 = Len(l) + 1 /\ Len(v) - 2 = Len(l)
        /\ Len(l) + 1 \in 1 .. Len(u)
        /\ \A k \in 1 .. Len(l) : k \in 1 .. Len(u)
    BY <2>2, <2>3, <2>4
  <2>6. v[Len(v)] = b /\ v[Len(v) - 1] = a
    BY <2>2, <2>3, <2>5
  <2>7. \A k \in 1 .. Len(l) : v[k] = l[k]
    BY <2>2, <2>3, <2>5
  <2>8. NoStop(l) => Finished(v)
    <3>1. Len(v) \in Nat /\ Len(v) >= 3
      BY <2>5
    <3> QED
      BY <1>1, <2>5, <2>6, <2>7, <3>1 DEF NoStop, Finished
  <2> QED
    BY <1>2, <2>3, <2>8 DEF v, a, b
<1>3. CASE ~done
  <2>1. v = l
    BY <1>3, JoinedNone DEF When
  <2> QED
    BY <1>3, <2>1 DEF a, b
<1> QED
  BY <1>2, <1>3

\* Bits of a sequence, one by one.
FiveInTurn(S, w, a, b, c, d, e) ==
    /\ w \o ((((a \o b) \o c) \o d) \o e) = ((((w \o a) \o b) \o c) \o d) \o e
    /\ (((a \o b) \o c) \o d) \o e \in Seq(S)

LEMMA FiveJoined ==
    ASSUME NEW S, NEW w \in Seq(S), NEW a \in Seq(S), NEW b \in Seq(S),
           NEW c \in Seq(S), NEW d \in Seq(S), NEW e \in Seq(S)
    PROVE  FiveInTurn(S, w, a, b, c, d, e)
<1> DEFINE ab == a \o b
           abc == ab \o c
           abcd == abc \o d
<1>1. ab \in Seq(S)
  BY Joined
<1>2. InTurn(w, a, b)
  BY JoinedInTurn, Zenon
<1> HIDE DEF ab
<1>3. abc \in Seq(S)
  BY <1>1, Joined
<1>4. InTurn(w, ab, c)
  BY <1>1, JoinedInTurn, Zenon
<1> HIDE DEF abc
<1>5. abcd \in Seq(S)
  BY <1>3, Joined
<1>6. InTurn(w, abc, d)
  BY <1>3, JoinedInTurn, Zenon
<1> HIDE DEF abcd
<1>7. abcd \o e \in Seq(S)
  BY <1>5, Joined
<1>8. InTurn(w, abcd, e)
  BY <1>5, JoinedInTurn, Zenon
<1>9. w \o (abcd \o e) = ((((w \o a) \o b) \o c) \o d) \o e
  BY <1>2, <1>4, <1>6, <1>8 DEF ab, abc, abcd, InTurn
<1> QED
  BY <1>7, <1>9 DEF ab, abc, abcd, FiveInTurn

\* The lines of a chunk.
LEMMA ChunkLines ==
    ASSUME NEW c, OfKind(c, FALSE), sentRole \in BOOLEAN, lines \in Seq(Lines)
    PROVE  LET v == lines \o Written(c)
           IN  /\ v \in Seq(Lines)
               /\ (sentRole <=> lines # <<>>) /\ Roled(lines) =>
                    /\ v # <<>> /\ Roled(v)
                    /\ NoStop(lines) /\ ~c.done => NoStop(v)
                    /\ NoStop(lines) /\ c.done => Finished(v)
<1> DEFINE role == LineOf("role")
           content == Line("content", NoTool, c.text)
           reasoning == LineOf("reasoning")
           call == Line("tool_call", c.tool, c.text)
           end == <<LineOf("stop"), LineOf("[DONE]")>>
           speaks == c.content /\ c.text # <<>>
           calls == c.tool # NoTool
           a == When(~sentRole, <<role>>)
           b == When(speaks, <<content>>)
           r == When(c.reasoning, <<reasoning>>)
           d == When(calls, <<call>>)
           e == When(c.done, end)
           v == lines \o Written(c)
<1>1. /\ c.tool \in {NoTool, Spelled} /\ c.text \in Seq(Texts)
      /\ c.done \in BOOLEAN /\ c.reasoning \in BOOLEAN /\ speaks \in BOOLEAN
      /\ calls \in BOOLEAN
  BY ChunkFields DEF OfKind
<1>2. /\ role \in Lines /\ role.type = "role"
      /\ content \in Lines /\ content.type = "content"
      /\ reasoning \in Lines /\ reasoning.type = "reasoning"
      /\ call \in Lines /\ call.type = "tool_call"
      /\ LineOf("stop") \in Lines /\ LineOf("[DONE]") \in Lines
  <2>1. /\ "role" \in LineTypes /\ "content" \in LineTypes /\ "reasoning" \in LineTypes
        /\ "tool_call" \in LineTypes /\ "stop" \in LineTypes /\ "[DONE]" \in LineTypes
        /\ NoTool \in {NoTool, Spelled}
    BY DEF LineTypes
  <2> QED
    BY <1>1, <2>1, LineOfIs, LineIs
<1>3. Written(c) = a \o b \o r \o d \o e
  BY DEF Written
<1> HIDE DEF role, content, reasoning, call, speaks, calls, Lines
<1>4. end \in Seq(Lines)
  BY <1>2
<1> HIDE DEF end
<1>5. /\ a \in Seq(Lines) /\ b \in Seq(Lines) /\ r \in Seq(Lines)
      /\ d \in Seq(Lines) /\ e \in Seq(Lines)
  BY <1>1, <1>2, <1>4 DEF When
<1>6. /\ v = ((((lines \o a) \o b) \o r) \o d) \o e
      /\ Written(c) \in Seq(Lines)
  <2> HIDE DEF a, b, r, d, e
  <2>0. lines \in Seq(Lines) /\ FiveInTurn(Lines, lines, a, b, r, d, e)
    <3>1. lines \in Seq(Lines)
      OBVIOUS
    <3> QED
      BY <1>5, <3>1, FiveJoined, Zenon
  <2>1. /\ lines \o ((((a \o b) \o r) \o d) \o e)
            = ((((lines \o a) \o b) \o r) \o d) \o e
        /\ (((a \o b) \o r) \o d) \o e \in Seq(Lines)
    BY <2>0 DEF FiveInTurn
  <2>2. Written(c) = (((a \o b) \o r) \o d) \o e
    BY <1>3
  <2> DEFINE all == Written(c)
  <2> HIDE DEF all
  <2>3. lines \o all = ((((lines \o a) \o b) \o r) \o d) \o e /\ all \in Seq(Lines)
    BY <2>1, <2>2 DEF all
  <2> QED
    BY <2>3 DEF all
<1>7. v \in Seq(Lines)
  <2> DEFINE all == Written(c)
  <2>1. all \in Seq(Lines)
    BY <1>6
  <2> HIDE DEF all
  <2>2. lines \o all \in Seq(Lines)
    BY <2>1
  <2> QED
    BY <2>2 DEF all
<1> DEFINE l1 == lines \o a
           l2 == l1 \o b
           l3 == l2 \o r
           l4 == l3 \o d
<1>8. ASSUME sentRole <=> lines # <<>>, Roled(lines)
      PROVE  /\ v # <<>> /\ Roled(v)
             /\ NoStop(lines) /\ ~c.done => NoStop(v)
             /\ NoStop(lines) /\ c.done => Finished(v)
  <2>1. l1 \in Seq(Lines) /\ l1 # <<>> /\ Roled(l1) /\ (NoStop(lines) => NoStop(l1))
    <3>1. CASE sentRole
      <4>1. l1 = lines
        BY <3>1, JoinedNone DEF When
      <4> QED
        BY <1>8, <3>1, <4>1
    <3>2. CASE ~sentRole
      <4>1. l1 = <<role>>
        <5>1. lines = <<>> /\ a = <<role>>
          BY <1>8, <3>2 DEF When
        <5>2. <<role>> \in Seq(Lines)
          BY <1>2
        <5> QED
          BY <5>1, <5>2, JoinedNone
      <4> DEFINE l == <<role>>
      <4>2. l \in Seq(Lines) /\ Len(l) = 1 /\ l[1] = role /\ l # <<>>
        BY <1>2
      <4>3. 1 .. Len(l) = {1} /\ 2 .. Len(l) = {}
        BY <4>2
      <4> HIDE DEF l
      <4>4. Roled(l) /\ NoStop(l)
        BY <1>2, <4>2, <4>3 DEF Roled, NoStop
      <4> QED
        BY <4>1, <4>2, <4>4 DEF l
    <3> QED
      BY <3>1, <3>2
  <2> HIDE DEF l1
  <2>2. l2 \in Seq(Lines) /\ l2 # <<>> /\ Roled(l2) /\ (NoStop(l1) => NoStop(l2))
    BY <1>1, <1>2, <2>1, MaybeLine
  <2> HIDE DEF l2
  <2>3. l3 \in Seq(Lines) /\ l3 # <<>> /\ Roled(l3) /\ (NoStop(l2) => NoStop(l3))
    BY <1>1, <1>2, <2>2, MaybeLine
  <2> HIDE DEF l3
  <2>4. l4 \in Seq(Lines) /\ l4 # <<>> /\ Roled(l4) /\ (NoStop(l3) => NoStop(l4))
    BY <1>1, <1>2, <2>3, MaybeLine
  <2> HIDE DEF l4
  <2> DEFINE l5 == l4 \o e
  <2>5. /\ l5 # <<>> /\ Roled(l5)
        /\ NoStop(l4) /\ ~c.done => NoStop(l5)
        /\ NoStop(l4) /\ c.done => Finished(l5)
    BY <1>1, <2>4, LinesEnd DEF end
  <2>6. v = l5
    BY <1>6 DEF l1, l2, l3, l4
  <2> HIDE DEF l5, v
  <2> QED
    BY <2>1, <2>2, <2>3, <2>4, <2>5, <2>6
<1> QED
  BY <1>7, <1>8

\* Of an emulated stream that no error cuts: the role is told first, and the end
\* when the upstream said so.
LinesInv ==
    /\ sentRole \in BOOLEAN /\ lines \in Seq(Lines)
    /\ ~native /\ ~cut =>
          /\ sentRole <=> lines # <<>>
          /\ Roled(lines)
          /\ upstream \in {"open", "ending"} => NoStop(lines)
          /\ upstream \in {"done", "closed"} /\ ~emu.broken => Finished(lines)

LEMMA LinesInit ==
    ASSUME Init
    PROVE  LinesInv
<1>1. ~sentRole /\ lines = <<>> /\ upstream = "open" /\ sentRole \in BOOLEAN
  BY DEF Init, OpenAIInit, ParserInit
<1>2. 1 .. Len(<<>>) = {}
  OBVIOUS
<1> QED
  BY <1>1, <1>2 DEF LinesInv, Roled, NoStop

LEMMA LinesNext ==
    ASSUME Base, EndInv, LinesInv, [Next]_vars
    PROVE  LinesInv'
<1>1. CASE UNCHANGED vars
  BY <1>1 DEF LinesInv, vars, parserVars, upstreamVars, emulationVars, openaiVars
<1>2. CASE Next
  <2>1. Reads /\ ParserInv
    BY <1>2 DEF Next, Reads, Base
  <2>2. Yield(out', native) /\ native' = native /\ native \in BOOLEAN
    BY <1>2, StepsYield
  <2>3. CASE native
    <3>1. CASE OpenAIChunk
      BY <2>2, <2>3, <3>1 DEF OpenAIChunk, LinesInv, openaiVars
    <3>2. CASE OpenAIError
      BY <2>2, <2>3, <3>2 DEF OpenAIError, LinesInv
    <3> QED
      BY <1>2, <3>1, <3>2 DEF Next
  <2>4. CASE ~native /\ out' = <<>> /\ OpenAIChunk
    <3>1. lines' = lines /\ sentRole' = sentRole
      BY <2>4 DEF OpenAIChunk, openaiVars
    <3>2. ASSUME ~cut'
          PROVE  /\ ~cut
                 /\ upstream' \in {"open", "ending"} => upstream \in {"open", "ending"}
                 /\ upstream' \in {"done", "closed"} /\ ~emu'.broken
                        => upstream \in {"done", "closed"} /\ ~emu.broken
      <4>1. ~cut
        BY <2>1, <3>2, Leads
      <4>2. CASE Parses /\ Transform /\ (Done \/ FlushAtEnd)
        <5>1. emu'.broken
          <6>1. ~\E d : out' = <<d>>
            BY <2>4
          <6> QED
            BY <2>4, <4>2, <6>1, LastPasses
        <5>2. upstream' \in {"done", "over"}
          BY <2>1, <4>2, Leads
        <5> QED
          BY <4>1, <5>1, <5>2
      <4>3. CASE Parses /\ ~Done /\ ~FlushAtEnd
        BY <2>1, <4>1, <4>3, Leads
      <4>4. CASE Closes /\ TransformEnd
        BY <2>1, <3>2, <4>1, <4>4, Leads DEF TransformEnd
      <4>5. CASE ReportsError \/ Breaks
        BY <2>1, <3>2, <4>5, Leads
      <4> QED
        BY <1>2, <4>2, <4>3, <4>4, <4>5 DEF Next
    <3> QED
      BY <2>2, <3>1, <3>2 DEF LinesInv
  <2>5. CASE ~native /\ out' # <<>> /\ OpenAIChunk
    <3>1. PICK c : out' = <<c>> /\ OfKind(c, FALSE)
      BY <2>2, <2>5 DEF Yield
    <3>2. out'[1] = c
      BY <3>1
    <3>3. lines' = lines \o Written(c) /\ sentRole'
      BY <2>5, <3>2 DEF OpenAIChunk
    <3>4. /\ lines' \in Seq(Lines)
          /\ (sentRole <=> lines # <<>>) /\ Roled(lines) =>
                /\ lines' # <<>> /\ Roled(lines')
                /\ NoStop(lines) /\ ~c.done => NoStop(lines')
                /\ NoStop(lines) /\ c.done => Finished(lines')
      BY <3>1, <3>3, ChunkLines DEF LinesInv
    <3> SUFFICES ASSUME ~cut'
                 PROVE  /\ sentRole' <=> lines' # <<>>
                        /\ Roled(lines')
                        /\ upstream' \in {"open", "ending"} => NoStop(lines')
                        /\ upstream' \in {"done", "closed"} /\ ~emu'.broken
                              => Finished(lines')
      BY <3>3, <3>4 DEF LinesInv
    <3>5. ~cut
      BY <2>1, Leads
    <3>6. (sentRole <=> lines # <<>>) /\ Roled(lines)
      BY <2>5, <3>5 DEF LinesInv
    <3>7. CASE Parses /\ Transform /\ (Done \/ FlushAtEnd)
      <4>1. \E d : out' = <<d>> /\ d.done
        BY <2>5, <3>7, LastPasses
      <4>2. c.done
        BY <3>1, <4>1
      <4>3. upstream \in {"open", "ending"} /\ upstream' = "done"
        BY <2>1, <3>7, Leads
      <4>4. NoStop(lines)
        BY <2>5, <3>5, <4>3 DEF LinesInv
      <4> QED
        BY <3>3, <3>4, <3>6, <4>2, <4>3, <4>4
    <3>8. CASE Parses /\ Transform /\ ~Done /\ ~FlushAtEnd
      <4>1. \E d : out' = <<d>> /\ ~d.done
        BY <2>5, <3>8, OthersPass
      <4>2. ~c.done
        BY <3>1, <4>1
      <4>3. upstream \in {"open", "ending"} /\ upstream' \in {"open", "ending"}
        BY <2>1, <3>8, Leads
      <4>4. NoStop(lines)
        BY <2>5, <3>5, <4>3 DEF LinesInv
      <4> QED
        BY <3>3, <3>4, <3>6, <4>2, <4>3, <4>4
    <3>9. CASE Closes /\ TransformEnd
      <4>1. upstream = "done"
        BY <2>1, <3>9, Leads
      <4>2. emu.buffer = <<>>
        BY <3>5, <3>9, <4>1 DEF EndInv, TransformEnd
      <4>3. out' = <<>>
        BY <3>9, <4>2 DEF TransformEnd
      <4> QED
        BY <2>5, <4>3
    <3>10. CASE ReportsError \/ Breaks
      BY <2>1, <3>10, Leads
    <3> QED
      BY <1>2, <3>7, <3>8, <3>9, <3>10 DEF Next
  <2>6. CASE ~native /\ OpenAIError /\ (ReportsError \/ Breaks)
    <3>1. cut'
      BY <2>1, <2>6, Leads
    <3>2. lines' = Append(lines, LineOf("error")) /\ sentRole' = sentRole
      BY <2>6 DEF OpenAIError
    <3>3. LineOf("error") \in Lines
      <4>1. "error" \in LineTypes
        BY DEF LineTypes
      <4> QED
        BY <4>1, LineOfIs
    <3>4. lines' \in Seq(Lines)
      <4> HIDE DEF Lines
      <4> QED
        BY <3>2, <3>3, Appended DEF LinesInv
    <3> QED
      BY <3>1, <3>2, <3>4 DEF LinesInv
  <2> QED
    BY <1>2, <2>2, <2>3, <2>4, <2>5, <2>6 DEF Next
<1> QED
  BY <1>1, <1>2

LEMMA AlwaysLines == Spec => []LinesInv
BY AlwaysBase, AlwaysEnd, LinesInit, LinesNext, PTL DEF Spec

\* A client of an emulated stream that is whole is told the role once and first,
\* and the end once and last.
THEOREM LinesAlwaysWellFormed == Spec => []LinesWellFormed
<1>1. EndInv /\ LinesInv => LinesWellFormed
  <2> SUFFICES ASSUME LinesInv, upstream = "closed", ~emu.broken, ~cut, ~native
               PROVE  /\ lines[1].type = "role"
                      /\ \A i \in DOMAIN lines \ {1} : lines[i].type # "role"
                      /\ {i \in DOMAIN lines : lines[i].type = "[DONE]"} = {Len(lines)}
                      /\ {i \in DOMAIN lines : lines[i].type = "stop"} = {Len(lines) - 1}
    BY DEF LinesWellFormed, Over
  <2> DEFINE n == Len(lines)
  <2>1. Roled(lines) /\ Finished(lines) /\ DOMAIN lines = 1 .. n
    BY DEF LinesInv
  <2>2. n \in Nat /\ n >= 3 /\ lines[n].type = "[DONE]" /\ lines[n - 1].type = "stop"
        /\ \A i \in 1 .. n - 2 : lines[i].type \notin {"stop", "[DONE]"}
    BY <2>1 DEF Finished
  <2>3. lines # <<>>
    BY <2>2
  <2> HIDE DEF n
  <2>4. /\ lines[1].type = "role"
        /\ \A i \in 2 .. n : lines[i].type # "role"
    BY <2>1, <2>3 DEF Roled, n
  <2>5. /\ \A i \in 1 .. n : i \in 1 .. n - 2 \/ i = n - 1 \/ i = n
        /\ n - 1 \in 1 .. n /\ n \in 1 .. n /\ n # n - 1
        /\ \A i \in 1 .. n \ {1} : i \in 2 .. n
    BY <2>2
  <2>6. {i \in 1 .. n : lines[i].type = "[DONE]"} = {n}
    BY <2>2, <2>5
  <2>7. {i \in 1 .. n : lines[i].type = "stop"} = {n - 1}
    BY <2>2, <2>5
  <2> QED
    BY <2>1, <2>4, <2>5, <2>6, <2>7 DEF n
<1> QED
  BY <1>1, AlwaysEnd, AlwaysLines, PTL

-----------------------------------------------------------------------------
(* The items of a Responses client.                                        *)

StepTypes ==
    {"created", "added", "part", "delta", "part_done", "done", "completed", "error"}
ItemNames == {"", "rs_1", "msg_1", "call"}

\* An event by its fields.
IsStepOf(e, type, item, tool, text) ==
    /\ e \in Steps
    /\ e.type = type /\ e.item = item /\ e.tool = tool /\ e.text = text
    /\ e = Step(type, item, tool, text)

LEMMA StepIs ==
    ASSUME NEW type \in StepTypes, NEW item \in ItemNames, NEW tool \in AnyTool,
           NEW text \in AnyText
    PROVE  IsStepOf(Step(type, item, tool, text), type, item, tool, text)
<1> SUFFICES ASSUME NEW e, e = Step(type, item, tool, text)
             PROVE  IsStepOf(e, type, item, tool, text)
  OBVIOUS
<1>1. Steps = [type : StepTypes, item : ItemNames, tool : AnyTool, text : AnyText]
  BY DEF Steps, StepTypes, ItemNames, AnyTool, AnyText
<1> QED
  BY <1>1 DEF Step, IsStepOf

\* The items that are open just before position i of f.
FedOpen(f, i) ==
    {j \in 1 .. Len(f) :
        /\ f[j].type = "added" /\ j < i
        /\ \A k \in 1 .. Len(f) :
              f[k].type = "done" /\ j < k /\ k < i => f[k].item # f[j].item}

FedNow(f) == FedOpen(f, Len(f) + 1)

LEMMA FedBefore ==
    ASSUME NEW f \in Seq(Steps), NEW e \in Steps, NEW i \in 1 .. Len(f) + 1
    PROVE  FedOpen(Append(f, e), i) = FedOpen(f, i)
<1> DEFINE v == Append(f, e)
<1>1. /\ Len(v) = Len(f) + 1 /\ Len(f) \in Nat
      /\ \A k \in 1 .. Len(f) : v[k] = f[k]
  BY Appended
<1> HIDE DEF v, Steps
<1>2. \A j \in 1 .. Len(v) : j < i => j \in 1 .. Len(f)
  BY <1>1
<1>3. \A j \in 1 .. Len(f) : j \in 1 .. Len(v)
  BY <1>1
<1>4. ASSUME NEW j \in 1 .. Len(f), j < i
      PROVE  j \in FedOpen(v, i) <=> j \in FedOpen(f, i)
  <2>1. v[j] = f[j]
    BY <1>1
  <2> QED
    BY <1>1, <1>2, <1>3, <1>4, <2>1 DEF FedOpen
<1>5. \A j : j \in FedOpen(v, i) => j \in 1 .. Len(f) /\ j < i
  BY <1>2 DEF FedOpen
<1>6. \A j : j \in FedOpen(f, i) => j \in 1 .. Len(f) /\ j < i
  BY DEF FedOpen
<1> QED
  BY <1>4, <1>5, <1>6 DEF v

LEMMA FedAppended ==
    ASSUME NEW f \in Seq(Steps), NEW e \in Steps
    PROVE  FedNow(Append(f, e))
            = IF e.type = "added" THEN FedNow(f) \cup {Len(f) + 1}
              ELSE IF e.type = "done" THEN {j \in FedNow(f) : f[j].item # e.item}
              ELSE FedNow(f)
<1> DEFINE v == Append(f, e)
           n == Len(f) + 1
<1>1. /\ Len(v) = n /\ Len(f) \in Nat
      /\ \A k \in 1 .. Len(f) : v[k] = f[k]
      /\ v[n] = e
  BY Appended
<1> HIDE DEF v, Steps
<1>2. 1 .. Len(v) = 1 .. Len(f) \cup {n}
  BY <1>1
<1>3. \A j \in 1 .. Len(f) : j < n /\ j < n + 1 /\ j # n
  BY <1>1
<1>4. n < n + 1 /\ ~(n < n) /\ \A j \in 1 .. Len(f) : ~(n < j)
  BY <1>1
<1> HIDE DEF n
<1>5. FedNow(v) = FedOpen(v, n + 1) /\ FedNow(f) = FedOpen(f, n)
  BY <1>1 DEF FedNow, n
<1>6. ASSUME NEW j \in 1 .. Len(f)
      PROVE  j \in FedNow(v) <=> /\ j \in FedNow(f)
                                 /\ e.type = "done" => e.item # f[j].item
  BY <1>1, <1>2, <1>3, <1>4, <1>5 DEF FedOpen
<1>7. n \in FedNow(v) <=> e.type = "added"
  BY <1>1, <1>2, <1>3, <1>4, <1>5 DEF FedOpen
<1>8. FedNow(v) \subseteq 1 .. Len(f) \cup {n} /\ FedNow(f) \subseteq 1 .. Len(f)
  BY <1>2, <1>5 DEF FedOpen
<1>9. FedNow(v) = IF e.type = "added" THEN FedNow(f) \cup {n}
                  ELSE IF e.type = "done" THEN {j \in FedNow(f) : f[j].item # e.item}
                  ELSE FedNow(f)
  <2>1. CASE e.type = "added"
    BY <1>3, <1>6, <1>7, <1>8, <2>1
  <2>2. CASE e.type = "done"
    BY <1>3, <1>6, <1>7, <1>8, <2>2
  <2>3. CASE e.type # "added" /\ e.type # "done"
    <3>1. \A j : j \in FedNow(v) <=> j \in FedNow(f)
      BY <1>6, <1>7, <1>8, <2>3
    <3> QED
      BY <2>3, <3>1
  <2> QED
    BY <2>1, <2>2, <2>3
<1> QED
  BY <1>9 DEF v, n

\* The event at position i is in its place.
Fed(f, i) ==
    /\ f[i].type = "created" => \A k \in 1 .. i - 1 : f[k].type = "error"
    /\ f[i].type = "added" => FedOpen(f, i) = {}
    /\ f[i].type \in {"part", "delta", "part_done", "done"} =>
          \E j \in FedOpen(f, i) : f[i].item = f[j].item /\ f[i].tool = f[j].tool
    /\ f[i].type = "completed" => \A j \in FedOpen(f, i) : f[j].item = "rs_1"
    /\ f[i].type # "error" => \A k \in 1 .. i - 1 : f[k].type # "completed"

AllFed(f) == \A i \in 1 .. Len(f) : Fed(f, i)

Errors(f) == \A k \in 1 .. Len(f) : f[k].type = "error"

Incomplete(f) == \A k \in 1 .. Len(f) : f[k].type # "completed"

\* Event e is in its place after f.
Feeds(f, e) ==
    /\ e.type = "created" => Errors(f)
    /\ e.type = "added" => FedNow(f) = {}
    /\ e.type \in {"part", "delta", "part_done", "done"} =>
          \E j \in FedNow(f) : e.item = f[j].item /\ e.tool = f[j].tool
    /\ e.type = "completed" => \A j \in FedNow(f) : f[j].item = "rs_1"
    /\ e.type # "error" => Incomplete(f)

LEMMA AllFedAppended ==
    ASSUME NEW f \in Seq(Steps), NEW e \in Steps, AllFed(f), Feeds(f, e)
    PROVE  AllFed(Append(f, e))
<1> DEFINE v == Append(f, e)
<1>1. /\ Len(v) = Len(f) + 1 /\ Len(f) \in Nat
      /\ \A k \in 1 .. Len(f) : v[k] = f[k]
      /\ v[Len(f) + 1] = e
  BY Appended
<1>2. \A i \in 1 .. Len(f) + 1 : FedOpen(v, i) = FedOpen(f, i)
  BY FedBefore
<1> HIDE DEF v, Steps
<1>3. \A i \in 1 .. Len(f) + 1 : \A j \in FedOpen(f, i) : v[j] = f[j]
  BY <1>1 DEF FedOpen
<1>4. ASSUME NEW i \in 1 .. Len(f) PROVE Fed(v, i)
  <2>1. i \in 1 .. Len(f) + 1 /\ v[i] = f[i]
        /\ \A k \in 1 .. i - 1 : v[k] = f[k]
    BY <1>1
  <2>2. Fed(f, i)
    BY DEF AllFed
  <2> QED
    BY <1>2, <1>3, <2>1, <2>2 DEF Fed
<1>5. Fed(v, Len(f) + 1)
  <2> DEFINE n == Len(f) + 1
  <2>1. n \in 1 .. Len(f) + 1 /\ v[n] = e /\ FedOpen(f, n) = FedNow(f)
        /\ 1 .. n - 1 = 1 .. Len(f)
    BY <1>1 DEF FedNow
  <2> HIDE DEF n
  <2>2. FedOpen(v, n) = FedNow(f) /\ \A j \in FedNow(f) : v[j] = f[j]
    BY <1>2, <1>3, <2>1
  <2> QED
    BY <1>1, <2>1, <2>2 DEF Fed, Feeds, Errors, Incomplete, n
<1>6. 1 .. Len(v) = 1 .. Len(f) \cup {Len(f) + 1}
  BY <1>1
<1> QED
  BY <1>4, <1>5, <1>6 DEF v, AllFed

\* Tool call t is done, with its arguments.
FedArgued(f, t, args) == \E i \in 1 .. Len(f) : f[i] = Step("done", "call", t, args)

Remembers(f, v) == \A t, args : FedArgued(f, t, args) => FedArgued(v, t, args)

LEMMA FedRemembers ==
    ASSUME NEW f \in Seq(Steps), NEW e \in Steps
    PROVE  Remembers(f, Append(f, e))
<1> DEFINE v == Append(f, e)
<1>1. /\ Len(v) = Len(f) + 1 /\ Len(f) \in Nat
      /\ \A k \in 1 .. Len(f) : v[k] = f[k]
  BY Appended
<1> HIDE DEF v
<1>2. Remembers(f, v)
  BY <1>1 DEF Remembers, FedArgued
<1> QED
  BY <1>2 DEF v

\* After f, which is in order, item `item` is the one open, or none if it is "".
At(f, item, tool) ==
    /\ f \in Seq(Steps)
    /\ AllFed(f)
    /\ Incomplete(f)
    /\ item = "" => FedNow(f) = {}
    /\ item # "" => \E o \in 1 .. Len(f) : /\ FedNow(f) = {o}
                                           /\ f[o].item = item /\ f[o].tool = tool

\* v is f and then e.
Grows(f, e, v) ==
    /\ v \in Seq(Steps)
    /\ Len(f) \in Nat
    /\ Len(v) = Len(f) + 1
    /\ \A k \in 1 .. Len(f) : k \in 1 .. Len(v) /\ v[k] = f[k]
    /\ Len(f) + 1 \in 1 .. Len(v)
    /\ v[Len(f) + 1] = e
    /\ \A k \in 1 .. Len(v) : k \in 1 .. Len(f) \/ k = Len(f) + 1

LEMMA StepsAppended ==
    ASSUME NEW f \in Seq(Steps), NEW e \in Steps
    PROVE  Grows(f, e, Append(f, e))
<1> DEFINE v == Append(f, e)
<1>1. /\ v \in Seq(Steps)
      /\ Len(v) = Len(f) + 1 /\ Len(f) \in Nat
      /\ \A k \in 1 .. Len(f) : v[k] = f[k]
      /\ v[Len(f) + 1] = e
  BY Appended
<1> HIDE DEF v
<1>2. Grows(f, e, v)
  BY <1>1 DEF Grows
<1> QED
  BY <1>2 DEF v

LEMMA AtAdds ==
    ASSUME NEW f, At(f, "", NoTool), NEW e \in Steps,
           e.type = "added", e.item # ""
    PROVE  At(Append(f, e), e.item, e.tool) /\ Remembers(f, Append(f, e))
<1> DEFINE v == Append(f, e)
<1>1. f \in Seq(Steps) /\ AllFed(f) /\ Incomplete(f) /\ FedNow(f) = {}
  BY DEF At
<1>2. AllFed(v)
  BY <1>1, AllFedAppended DEF Feeds
<1>3. FedNow(v) = {Len(f) + 1}
  BY <1>1, FedAppended
<1>4. Grows(f, e, v)
  BY <1>1, StepsAppended
<1>5. Remembers(f, v)
  BY <1>1, FedRemembers
<1> HIDE DEF v
<1>7. Incomplete(v)
  BY <1>1, <1>4 DEF Incomplete, Grows
<1>8. At(v, e.item, e.tool)
  BY <1>2, <1>3, <1>4, <1>7 DEF At, Grows
<1> QED
  BY <1>5, <1>8 DEF v

LEMMA AtSays ==
    ASSUME NEW f, NEW item, NEW tool, At(f, item, tool), item # "", NEW e \in Steps,
           e.type \in {"part", "delta", "part_done"}, e.item = item, e.tool = tool
    PROVE  At(Append(f, e), item, tool) /\ Remembers(f, Append(f, e))
<1> DEFINE v == Append(f, e)
<1>1. f \in Seq(Steps) /\ AllFed(f) /\ Incomplete(f)
  BY DEF At
<1>2. PICK o \in 1 .. Len(f) : FedNow(f) = {o} /\ f[o].item = item /\ f[o].tool = tool
  BY DEF At
<1>3. AllFed(v)
  <2>1. Feeds(f, e)
    BY <1>1, <1>2 DEF Feeds
  <2> QED
    BY <1>1, <2>1, AllFedAppended
<1>4. FedNow(v) = {o}
  BY <1>1, <1>2, FedAppended
<1>5. Grows(f, e, v)
  BY <1>1, StepsAppended
<1>6. Remembers(f, v)
  BY <1>1, FedRemembers
<1> HIDE DEF v
<1>8. Incomplete(v)
  BY <1>1, <1>5 DEF Incomplete, Grows
<1>9. At(v, item, tool)
  BY <1>2, <1>3, <1>4, <1>5, <1>8 DEF At, Grows
<1> QED
  BY <1>6, <1>9 DEF v

LEMMA AtIsDone ==
    ASSUME NEW f, NEW item, NEW tool, At(f, item, tool), item # "", NEW e \in Steps,
           e.type = "done", e.item = item, e.tool = tool
    PROVE  LET v == Append(f, e)
           IN  /\ At(v, "", NoTool)
               /\ Remembers(f, v)
               /\ e = Step("done", "call", tool, e.text) => FedArgued(v, tool, e.text)
<1> DEFINE v == Append(f, e)
<1>1. f \in Seq(Steps) /\ AllFed(f) /\ Incomplete(f)
  BY DEF At
<1>2. PICK o \in 1 .. Len(f) : FedNow(f) = {o} /\ f[o].item = item /\ f[o].tool = tool
  BY DEF At
<1>3. AllFed(v)
  <2>1. Feeds(f, e)
    BY <1>1, <1>2 DEF Feeds
  <2> QED
    BY <1>1, <2>1, AllFedAppended
<1>4. FedNow(v) = {}
  BY <1>1, <1>2, FedAppended
<1>5. Grows(f, e, v)
  BY <1>1, StepsAppended
<1>6. Remembers(f, v)
  BY <1>1, FedRemembers
<1> HIDE DEF v
<1>8. Incomplete(v)
  BY <1>1, <1>5 DEF Incomplete, Grows
<1>9. At(v, "", NoTool)
  BY <1>3, <1>4, <1>5, <1>8 DEF At, Grows
<1>10. e = Step("done", "call", tool, e.text) => FedArgued(v, tool, e.text)
  BY <1>5 DEF FedArgued, Grows
<1> QED
  BY <1>6, <1>9, <1>10 DEF v

\* An error does not disturb what is open.
LEMMA AtErrors ==
    ASSUME NEW f \in Seq(Steps), NEW e \in Steps, e.type = "error"
    PROVE  LET v == Append(f, e)
           IN  /\ v \in Seq(Steps)
               /\ AllFed(f) => AllFed(v)
               /\ Incomplete(v) <=> Incomplete(f)
               /\ Errors(f) => Errors(v)
               /\ \A item, tool : At(f, item, tool) => At(v, item, tool)
               /\ Remembers(f, v)
<1> DEFINE v == Append(f, e)
<1>1. FedNow(v) = FedNow(f)
  BY FedAppended
<1>2. AllFed(f) => AllFed(v)
  <2>1. Feeds(f, e)
    BY DEF Feeds
  <2> QED
    BY <2>1, AllFedAppended
<1>3. Grows(f, e, v)
  BY StepsAppended
<1>4. Remembers(f, v)
  BY FedRemembers
<1> HIDE DEF v, Steps
<1>5. Incomplete(v) <=> Incomplete(f)
  BY <1>3 DEF Incomplete, Grows
<1>6. Errors(f) => Errors(v)
  BY <1>3 DEF Errors, Grows
<1>7. ASSUME NEW item, NEW tool, At(f, item, tool) PROVE At(v, item, tool)
  <2>1. \A o \in 1 .. Len(f) : o \in 1 .. Len(v) /\ v[o] = f[o]
    BY <1>3 DEF Grows
  <2> QED
    BY <1>1, <1>2, <1>3, <1>5, <1>7, <2>1 DEF At, Grows
<1> QED
  BY <1>2, <1>3, <1>4, <1>5, <1>6, <1>7 DEF v, Grows

\* The response is created, after nothing but errors.
LEMMA AtCreated ==
    ASSUME NEW f, NEW tool, At(f, "", tool), Errors(f), NEW e \in Steps, e.type = "created"
    PROVE  At(Append(f, e), "", tool) /\ Remembers(f, Append(f, e))
<1> DEFINE v == Append(f, e)
<1>1. f \in Seq(Steps) /\ AllFed(f) /\ Incomplete(f) /\ FedNow(f) = {}
  BY DEF At
<1>2. AllFed(v)
  <2>1. Feeds(f, e)
    BY <1>1 DEF Feeds
  <2> QED
    BY <1>1, <2>1, AllFedAppended
<1>3. FedNow(v) = {}
  BY <1>1, FedAppended
<1>4. Grows(f, e, v)
  BY <1>1, StepsAppended
<1>5. Remembers(f, v)
  BY <1>1, FedRemembers
<1> HIDE DEF v, Steps
<1>6. Incomplete(v)
  BY <1>1, <1>4 DEF Incomplete, Grows
<1> QED
  BY <1>2, <1>3, <1>4, <1>5, <1>6 DEF At, Grows, v

\* The response is completed, with nothing open but reasoning.
LEMMA AtCompleted ==
    ASSUME NEW f, NEW item \in {"", "rs_1"}, NEW tool, At(f, item, tool),
           NEW e \in Steps, e.type = "completed"
    PROVE  LET v == Append(f, e)
           IN  v \in Seq(Steps) /\ AllFed(v) /\ Remembers(f, v)
<1> DEFINE v == Append(f, e)
<1>1. f \in Seq(Steps) /\ AllFed(f) /\ Incomplete(f)
  BY DEF At
<1>2. \A j \in FedNow(f) : f[j].item = "rs_1"
  BY DEF At
<1>3. AllFed(v)
  <2>1. Feeds(f, e)
    BY <1>1, <1>2 DEF Feeds
  <2> QED
    BY <1>1, <2>1, AllFedAppended
<1>4. Grows(f, e, v)
  BY <1>1, StepsAppended
<1>5. Remembers(f, v)
  BY <1>1, FedRemembers
<1> QED
  BY <1>3, <1>4, <1>5 DEF Grows

\* The events es take a feed from item i being open to item j being so; if
\* `first`, the feed before them has nothing but errors in it.
Moves(es, i, j, first) ==
    /\ es \in Seq(Steps)
    /\ \A f : At(f, i, NoTool) /\ (first => Errors(f))
                => At(f \o es, j, NoTool) /\ Remembers(f, f \o es)

LEMMA MovesTwice ==
    ASSUME NEW a, NEW b, NEW i, NEW j, NEW k, NEW first,
           Moves(a, i, j, first), Moves(b, j, k, FALSE)
    PROVE  Moves(a \o b, i, k, first)
<1> HIDE DEF Steps
<1>1. a \in Seq(Steps) /\ b \in Seq(Steps)
  BY DEF Moves
<1>2. a \o b \in Seq(Steps)
  BY <1>1
<1>3. ASSUME NEW f, At(f, i, NoTool), first => Errors(f)
      PROVE  At(f \o (a \o b), k, NoTool) /\ Remembers(f, f \o (a \o b))
  <2>1. f \in Seq(Steps)
    BY <1>3 DEF At
  <2>2. f \o (a \o b) = (f \o a) \o b
    BY <1>1, <2>1, JoinedTwice
  <2>3. At(f \o a, j, NoTool) /\ Remembers(f, f \o a)
    BY <1>3 DEF Moves
  <2>4. At((f \o a) \o b, k, NoTool) /\ Remembers(f \o a, (f \o a) \o b)
    BY <2>3 DEF Moves
  <2> QED
    BY <2>2, <2>3, <2>4 DEF Remembers
<1> QED
  BY <1>2, <1>3 DEF Moves

LEMMA MovesNone ==
    ASSUME NEW i, NEW first
    PROVE  Moves(<<>>, i, i, first)
<1> HIDE DEF Steps
<1>1. ASSUME NEW f, At(f, i, NoTool)
      PROVE  At(f \o <<>>, i, NoTool) /\ Remembers(f, f \o <<>>)
  <2>1. f \in Seq(Steps)
    BY <1>1 DEF At
  <2>2. f \o <<>> = f
    BY <2>1, JoinedNone
  <2> QED
    BY <1>1, <2>2 DEF Remembers
<1>2. <<>> \in Seq(Steps)
  OBVIOUS
<1> QED
  BY <1>1, <1>2 DEF Moves

\* One event.
LEMMA MovesOne ==
    ASSUME NEW e \in Steps, NEW i, NEW j, NEW first,
           \A f : At(f, i, NoTool) /\ (first => Errors(f))
                => At(Append(f, e), j, NoTool) /\ Remembers(f, Append(f, e))
    PROVE  Moves(<<e>>, i, j, first)
<1> HIDE DEF Steps
<1>1. <<e>> \in Seq(Steps)
  OBVIOUS
<1>2. ASSUME NEW f, At(f, i, NoTool) PROVE f \o <<e>> = Append(f, e)
  <2>1. f \in Seq(Steps)
    BY <1>2 DEF At
  <2> QED
    BY <2>1, JoinedOne
<1> QED
  BY <1>1, <1>2 DEF Moves

\* The events of an item.
LEMMA MovesItem ==
    ASSUME NEW item \in {"rs_1", "msg_1"}
    PROVE  /\ Moves(<<StepOf("added", item)>>, "", item, FALSE)
           /\ \A type \in {"part", "delta", "part_done"}, text \in AnyText :
                 Moves(<<Step(type, item, NoTool, text)>>, item, item, FALSE)
           /\ Moves(<<StepOf("done", item)>>, item, "", FALSE)
<1>0. /\ item \in ItemNames /\ item # "" /\ NoTool \in AnyTool /\ <<>> \in AnyText
      /\ {"added", "part", "delta", "part_done", "done"} \subseteq StepTypes
  <2>1. <<>> \in AnyText
    BY DEF AnyText
  <2> QED
    BY <2>1 DEF ItemNames, AnyTool, StepTypes
<1>1. ASSUME NEW type \in {"added", "part", "delta", "part_done", "done"},
             NEW text \in AnyText
      PROVE  IsStepOf(Step(type, item, NoTool, text), type, item, NoTool, text)
  BY <1>0, StepIs
<1>2. StepOf("added", item) = Step("added", item, NoTool, <<>>)
      /\ StepOf("done", item) = Step("done", item, NoTool, <<>>)
  BY DEF StepOf
<1>3. Moves(<<StepOf("added", item)>>, "", item, FALSE)
  <2> SUFFICES ASSUME NEW e, IsStepOf(e, "added", item, NoTool, <<>>)
               PROVE  Moves(<<e>>, "", item, FALSE)
    BY <1>0, <1>1, <1>2
  <2> QED
    BY <1>0, AtAdds, MovesOne DEF IsStepOf
<1>4. ASSUME NEW type \in {"part", "delta", "part_done"}, NEW text \in AnyText
      PROVE  Moves(<<Step(type, item, NoTool, text)>>, item, item, FALSE)
  <2> SUFFICES ASSUME NEW e, IsStepOf(e, type, item, NoTool, text)
               PROVE  Moves(<<e>>, item, item, FALSE)
    BY <1>0, <1>1
  <2> QED
    BY <1>0, AtSays, MovesOne DEF IsStepOf
<1>5. Moves(<<StepOf("done", item)>>, item, "", FALSE)
  <2> SUFFICES ASSUME NEW e, IsStepOf(e, "done", item, NoTool, <<>>)
               PROVE  Moves(<<e>>, item, "", FALSE)
    BY <1>0, <1>1, <1>2
  <2> QED
    BY <1>0, AtIsDone, MovesOne DEF IsStepOf
<1> QED
  BY <1>3, <1>4, <1>5

-----------------------------------------------------------------------------
(* What a chunk makes of the feed.                                         *)

\* The item that is open in state r.
ItemOf(r) == IF r.message THEN "msg_1" ELSE IF r.reasoning THEN "rs_1" ELSE ""

ItemsTyped(r) ==
    /\ r \in [started : BOOLEAN, message : BOOLEAN, part : BOOLEAN, reasoning : BOOLEAN]
    /\ ~(r.reasoning /\ r.message)
    /\ r.part = r.message

\* An item is open only after the response was created.
Created(r) == r.message \/ r.reasoning => r.started

LEMMA MessageDoneMoves ==
    ASSUME NEW r, ItemsTyped(r)
    PROVE  Moves(MessageDone(r), ItemOf(r), IF r.message THEN "" ELSE ItemOf(r), FALSE)
<1> DEFINE a == <<StepOf("part_done", "msg_1")>>
           b == <<StepOf("done", "msg_1")>>
<1>1. Moves(a, "msg_1", "msg_1", FALSE)
  <2>1. <<>> \in AnyText
    BY DEF AnyText
  <2>2. Moves(<<Step("part_done", "msg_1", NoTool, <<>>)>>, "msg_1", "msg_1", FALSE)
    BY <2>1, MovesItem
  <2> QED
    BY <2>2 DEF StepOf
<1>2. Moves(b, "msg_1", "", FALSE)
  BY MovesItem
<1>3. MessageDone(r) = When(r.message, a) \o When(r.message, b)
  BY DEF MessageDone, ItemsTyped
<1> HIDE DEF a, b
<1>4. CASE r.message
  <2>1. MessageDone(r) = a \o b
    BY <1>3, <1>4 DEF When
  <2> QED
    BY <1>1, <1>2, <1>4, <2>1, MovesTwice DEF ItemOf
<1>5. CASE ~r.message
  <2>1. MessageDone(r) = <<>> \o <<>>
    BY <1>3, <1>5 DEF When
  <2>2. MessageDone(r) = <<>>
    BY <2>1
  <2> QED
    BY <1>5, <2>2, MovesNone
<1> QED
  BY <1>4, <1>5

LEMMA ReasoningDoneMoves ==
    ASSUME NEW r, ItemsTyped(r)
    PROVE  Moves(ReasoningDone(r), ItemOf(r), IF r.reasoning THEN "" ELSE ItemOf(r), FALSE)
<1>1. CASE r.reasoning
  <2>1. ItemOf(r) = "rs_1" /\ ReasoningDone(r) = <<StepOf("done", "rs_1")>>
    BY <1>1 DEF ItemOf, ItemsTyped, ReasoningDone, When
  <2> QED
    BY <1>1, <2>1, MovesItem
<1>2. CASE ~r.reasoning
  <2>1. ReasoningDone(r) = <<>>
    BY <1>2 DEF ReasoningDone, When
  <2> QED
    BY <1>2, <2>1, MovesNone
<1> QED
  BY <1>1, <1>2

\* What is there on a condition moves if it is there.
LEMMA MovesWhen ==
    ASSUME NEW c \in BOOLEAN, NEW a, NEW i, NEW j, c => Moves(a, i, j, FALSE),
           ~c => i = j
    PROVE  Moves(When(c, a), i, j, FALSE)
<1>1. CASE c
  <2>1. When(c, a) = a
    BY <1>1 DEF When
  <2> QED
    BY <1>1, <2>1
<1>2. CASE ~c
  <2>1. When(c, a) = <<>>
    BY <1>2 DEF When
  <2> QED
    BY <1>2, <2>1, MovesNone
<1> QED
  BY <1>1, <1>2

LEMMA ReasonedMoves ==
    ASSUME NEW r, ItemsTyped(r)
    PROVE  Moves(Reasoned(r), ItemOf(r), "rs_1", FALSE)
<1> DEFINE a == MessageDone(r)
           b == When(~r.reasoning, <<StepOf("added", "rs_1")>>)
           c == <<StepOf("delta", "rs_1")>>
           i == IF r.message THEN "" ELSE ItemOf(r)
<1>1. Moves(a, ItemOf(r), i, FALSE)
  BY MessageDoneMoves
<1>2. Moves(b, i, "rs_1", FALSE)
  <2>1. i = IF r.reasoning THEN "rs_1" ELSE ""
    BY DEF ItemsTyped, ItemOf
  <2>2. r.reasoning \in BOOLEAN
    BY DEF ItemsTyped
  <2> HIDE DEF i
  <2> QED
    BY <2>1, <2>2, MovesItem, MovesWhen
<1>3. Moves(c, "rs_1", "rs_1", FALSE)
  <2>1. <<>> \in AnyText
    BY DEF AnyText
  <2>2. Moves(<<Step("delta", "rs_1", NoTool, <<>>)>>, "rs_1", "rs_1", FALSE)
    BY <2>1, MovesItem
  <2> QED
    BY <2>2 DEF StepOf
<1>4. Reasoned(r) = (a \o b) \o c
  BY DEF Reasoned
<1> HIDE DEF a, b, c, i
<1>5. Moves(a \o b, ItemOf(r), "rs_1", FALSE)
  BY <1>1, <1>2, MovesTwice
<1> QED
  BY <1>3, <1>4, <1>5, MovesTwice

LEMMA TextedMoves ==
    ASSUME NEW r, ItemsTyped(r), NEW text \in AnyText
    PROVE  Moves(Texted(r, text), ItemOf(r), "msg_1", FALSE)
<1> DEFINE a == ReasoningDone(r)
           b == When(~r.message, <<StepOf("added", "msg_1")>>)
           c == When(~r.part, <<StepOf("part", "msg_1")>>)
           d == <<Step("delta", "msg_1", NoTool, text)>>
           i == IF r.reasoning THEN "" ELSE ItemOf(r)
<1>1. Moves(a, ItemOf(r), i, FALSE)
  BY ReasoningDoneMoves
<1>2. i = IF r.message THEN "msg_1" ELSE ""
  BY DEF ItemsTyped, ItemOf
<1>3. r.message \in BOOLEAN /\ r.part = r.message
  BY DEF ItemsTyped
<1>4. Moves(b, i, "msg_1", FALSE)
  <2> HIDE DEF i
  <2> QED
    BY <1>2, <1>3, MovesItem, MovesWhen
<1>5. Moves(c, "msg_1", "msg_1", FALSE)
  <2>1. <<>> \in AnyText
    BY DEF AnyText
  <2>2. Moves(<<Step("part", "msg_1", NoTool, <<>>)>>, "msg_1", "msg_1", FALSE)
    BY <2>1, MovesItem
  <2> QED
    BY <1>3, <2>2, MovesWhen DEF StepOf
<1>6. Moves(d, "msg_1", "msg_1", FALSE)
  BY MovesItem
<1>7. Texted(r, text) = ((a \o b) \o c) \o d
  BY DEF Texted
<1> HIDE DEF a, b, c, d, i
<1>8. Moves(a \o b, ItemOf(r), "msg_1", FALSE)
  BY <1>1, <1>4, MovesTwice
<1>9. Moves((a \o b) \o c, ItemOf(r), "msg_1", FALSE)
  BY <1>5, <1>8, MovesTwice
<1> QED
  BY <1>6, <1>7, <1>9, MovesTwice

\* What is open is done before a call.
LEMMA BothDone ==
    ASSUME NEW r, ItemsTyped(r)
    PROVE  Moves(MessageDone(r) \o ReasoningDone(r), ItemOf(r), "", FALSE)
<1> DEFINE a == MessageDone(r)
           b == ReasoningDone(r)
<1>1. CASE r.message
  <2>1. Moves(a, ItemOf(r), "", FALSE)
    BY <1>1, MessageDoneMoves
  <2>2. b = <<>>
    BY <1>1 DEF ReasoningDone, When, ItemsTyped
  <2>3. Moves(b, "", "", FALSE)
    BY <2>2, MovesNone
  <2> HIDE DEF a, b
  <2>4. Moves(a \o b, ItemOf(r), "", FALSE)
    BY <2>1, <2>3, MovesTwice
  <2> QED
    BY <2>4 DEF a, b
<1>2. CASE ~r.message
  <2>1. Moves(a, ItemOf(r), ItemOf(r), FALSE)
    BY <1>2, MessageDoneMoves
  <2>2. Moves(b, ItemOf(r), "", FALSE)
    <3>1. ~r.reasoning => ItemOf(r) = ""
      BY <1>2 DEF ItemOf
    <3> QED
      BY <3>1, ReasoningDoneMoves
  <2> HIDE DEF a, b
  <2>3. Moves(a \o b, ItemOf(r), "", FALSE)
    BY <2>1, <2>2, MovesTwice
  <2> QED
    BY <2>3 DEF a, b
<1> QED
  BY <1>1, <1>2

\* The events es take a feed from item i being open to none being so, and in
\* them call `tool` is done, with arguments `text`.
Calls(es, i, tool, text) ==
    /\ Moves(es, i, "", FALSE)
    /\ \A f : At(f, i, NoTool) => FedArgued(f \o es, tool, text)

LEMMA FourAppended ==
    ASSUME NEW S, NEW s \in Seq(S), NEW a \in S, NEW b \in S, NEW c \in S, NEW d \in S
    PROVE  /\ s \o <<a, b, c, d>> = Append(Append(Append(Append(s, a), b), c), d)
           /\ <<a, b, c, d>> \in Seq(S)
<1> DEFINE t == s \o <<a, b, c, d>>
           u == Append(Append(Append(Append(s, a), b), c), d)
<1>1. <<a, b, c, d>> \in Seq(S)
  OBVIOUS
<1>2. t \in Seq(S) /\ u \in Seq(S) /\ Len(t) = Len(u)
  OBVIOUS
<1>3. \A i \in 1 .. Len(t) : t[i] = u[i]
  OBVIOUS
<1> HIDE DEF t, u
<1>4. t = u
  BY <1>2, <1>3, SameSeq
<1> QED
  BY <1>1, <1>4 DEF t, u

LEMMA StepsJoined ==
    ASSUME NEW f \in Seq(Steps), NEW a \in Seq(Steps), NEW b \in Seq(Steps)
    PROVE  f \o (a \o b) = (f \o a) \o b
<1> HIDE DEF Steps
<1> QED
  OBVIOUS

LEMMA BothSteps ==
    ASSUME NEW a \in Seq(Steps), NEW b \in Seq(Steps)
    PROVE  a \o b \in Seq(Steps)
<1> HIDE DEF Steps
<1> QED
  OBVIOUS

LEMMA CallsAfter ==
    ASSUME NEW a, NEW b, NEW i, NEW tool, NEW text,
           Moves(a, i, "", FALSE), Calls(b, "", tool, text)
    PROVE  Calls(a \o b, i, tool, text)
<1> HIDE DEF Steps
<1>1. Moves(a \o b, i, "", FALSE)
  BY MovesTwice DEF Calls
<1>2. a \in Seq(Steps) /\ b \in Seq(Steps)
  BY DEF Calls, Moves
<1>3. ASSUME NEW f, At(f, i, NoTool) PROVE FedArgued(f \o (a \o b), tool, text)
  <2>1. f \in Seq(Steps)
    BY <1>3 DEF At
  <2>2. f \o (a \o b) = (f \o a) \o b
    BY <1>2, <2>1, StepsJoined, Zenon
  <2>3. At(f \o a, "", NoTool)
    BY <1>3 DEF Moves
  <2> QED
    BY <2>2, <2>3 DEF Calls
<1> QED
  BY <1>1, <1>3 DEF Calls

LEMMA CalledMoves ==
    ASSUME NEW r, ItemsTyped(r), NEW tool \in AnyTool, NEW text \in AnyText
    PROVE  Calls(Called(r, tool, text), ItemOf(r), tool, text)
<1> DEFINE a == MessageDone(r) \o ReasoningDone(r)
           e1 == Step("added", "call", tool, <<>>)
           e2 == Step("delta", "call", tool, text)
           e3 == Step("part_done", "call", tool, text)
           e4 == Step("done", "call", tool, text)
           b == <<e1, e2, e3, e4>>
<1>1. Moves(a, ItemOf(r), "", FALSE)
  BY BothDone
<1>2. /\ IsStepOf(e1, "added", "call", tool, <<>>)
      /\ IsStepOf(e2, "delta", "call", tool, text)
      /\ IsStepOf(e3, "part_done", "call", tool, text)
      /\ IsStepOf(e4, "done", "call", tool, text)
  <2>1. "call" \in ItemNames /\ {"added", "delta", "part_done", "done"} \subseteq StepTypes
    BY DEF ItemNames, StepTypes
  <2>2. <<>> \in AnyText
    BY DEF AnyText
  <2> QED
    BY <2>1, <2>2, StepIs
<1>3. Called(r, tool, text) = a \o b
  BY DEF Called
<1>4. e4 = Step("done", "call", tool, text)
  OBVIOUS
<1> HIDE DEF a, b, e1, e2, e3, e4, Steps
<1>5. e1 \in Steps /\ e2 \in Steps /\ e3 \in Steps /\ e4 \in Steps
  BY <1>2 DEF IsStepOf
<1>6. b \in Seq(Steps)
  BY <1>5 DEF b
<1>7. ASSUME NEW g, At(g, "", NoTool)
      PROVE  /\ At(g \o b, "", NoTool)
             /\ Remembers(g, g \o b)
             /\ FedArgued(g \o b, tool, text)
  <2> DEFINE g1 == Append(g, e1)
             g2 == Append(g1, e2)
             g3 == Append(g2, e3)
             g4 == Append(g3, e4)
  <2>1. g \o b = g4
    <3>1. g \in Seq(Steps)
      BY <1>7 DEF At
    <3> QED
      BY <1>5, <3>1, FourAppended DEF b
  <2>2. At(g1, "call", tool) /\ Remembers(g, g1)
    BY <1>2, <1>5, <1>7, AtAdds DEF IsStepOf
  <2> HIDE DEF g1
  <2>3. At(g2, "call", tool) /\ Remembers(g1, g2)
    BY <1>2, <1>5, <2>2, AtSays DEF IsStepOf
  <2> HIDE DEF g2
  <2>4. At(g3, "call", tool) /\ Remembers(g2, g3)
    BY <1>2, <1>5, <2>3, AtSays DEF IsStepOf
  <2> HIDE DEF g3
  <2>5. At(g4, "", NoTool) /\ Remembers(g3, g4) /\ FedArgued(g4, tool, text)
    BY <1>2, <1>4, <1>5, <2>4, AtIsDone DEF IsStepOf
  <2> HIDE DEF g4
  <2> QED
    BY <2>1, <2>2, <2>3, <2>4, <2>5 DEF Remembers
<1>8. Calls(b, "", tool, text)
  BY <1>6, <1>7 DEF Calls, Moves
<1>9. Calls(a \o b, ItemOf(r), tool, text)
  BY <1>1, <1>8, CallsAfter
<1> QED
  BY <1>3, <1>9

\* The state after a chunk, but for its end.
Moved(r, c) ==
    CASE c.reasoning -> Opened(r, FALSE, TRUE)
      [] c.content /\ c.text # <<>> -> Opened(r, TRUE, FALSE)
      [] c.tool # NoTool -> Opened(r, FALSE, FALSE)
      [] OTHER -> r

\* The events of a chunk, but for its end.
MovedBy(r, c) ==
    ((When(~r.started, <<StepOf("created", "")>>)
        \o When(c.reasoning, Reasoned(r)))
        \o When(c.content /\ c.text # <<>>, Texted(r, c.text)))
        \o When(c.tool # NoTool, Called(r, c.tool, c.text))

LEMMA OpenedIs ==
    ASSUME NEW r, ItemsTyped(r), NEW m \in BOOLEAN, NEW g \in BOOLEAN, ~(m /\ g)
    PROVE  LET s == Opened(r, m, g)
           IN  /\ ItemsTyped(s) /\ s.started = r.started
               /\ s.message = m /\ s.reasoning = g
<1> SUFFICES ASSUME NEW s, s = Opened(r, m, g)
             PROVE  ItemsTyped(s) /\ s.started = r.started /\ s.message = m
                    /\ s.reasoning = g
  OBVIOUS
<1> QED
  BY DEF Opened, ItemsTyped

LEMMA CreatedMoves ==
    ASSUME NEW r, ItemsTyped(r), Created(r)
    PROVE  Moves(When(~r.started, <<StepOf("created", "")>>), ItemOf(r), ItemOf(r),
                 ~r.started)
<1>1. CASE r.started
  <2>1. When(~r.started, <<StepOf("created", "")>>) = <<>>
    BY <1>1 DEF When
  <2> QED
    BY <2>1, MovesNone
<1>2. CASE ~r.started
  <2>1. ItemOf(r) = ""
    BY <1>2 DEF ItemOf, Created
  <2> SUFFICES ASSUME NEW e, e = StepOf("created", "")
               PROVE  Moves(<<e>>, "", "", TRUE)
    <3>1. When(~r.started, <<StepOf("created", "")>>) = <<StepOf("created", "")>>
      BY <1>2 DEF When
    <3>2. ~r.started = TRUE
      BY <1>2
    <3> QED
      BY <2>1, <3>1, <3>2
  <2>2. IsStepOf(e, "created", "", NoTool, <<>>)
    <3>1. "" \in ItemNames /\ "created" \in StepTypes
      BY DEF ItemNames, StepTypes
    <3> QED
      BY <3>1, Constants, StepIs DEF StepOf
  <2> QED
    BY <2>2, AtCreated, MovesOne DEF IsStepOf
<1> QED
  BY <1>1, <1>2

\* A chunk moves a feed from what is open in one state to what is in the next.
LEMMA ChunkMoves ==
    ASSUME NEW r, ItemsTyped(r), Created(r), NEW c, OneThing(c)
    PROVE  /\ ItemsTyped(Moved(r, c))
           /\ Moves(MovedBy(r, c), ItemOf(r), ItemOf(Moved(r, c)), ~r.started)
           /\ c.tool # NoTool =>
                 \A f : At(f, ItemOf(r), NoTool) /\ (~r.started => Errors(f))
                            => FedArgued(f \o MovedBy(r, c), c.tool, c.text)
<1> DEFINE speaks == c.content /\ c.text # <<>>
           C == When(~r.started, <<StepOf("created", "")>>)
           X == When(c.reasoning, Reasoned(r))
           Y == When(speaks, Texted(r, c.text))
           Z == When(c.tool # NoTool, Called(r, c.tool, c.text))
           s == Moved(r, c)
           i == ItemOf(r)
<1>1. /\ c.reasoning \in BOOLEAN /\ c.content \in BOOLEAN
      /\ c.tool \in AnyTool /\ c.text \in AnyText
      /\ c.reasoning => ~c.content /\ c.tool = NoTool
      /\ c.content => c.tool = NoTool
  BY DEF OneThing, Chunk, AnyTool, AnyText
<1>2. Moves(C, i, i, ~r.started)
  BY CreatedMoves
<1>3. Moves(Reasoned(r), i, "rs_1", FALSE)
  BY ReasonedMoves
<1>4. Moves(Texted(r, c.text), i, "msg_1", FALSE)
  BY <1>1, TextedMoves
<1>5. Calls(Called(r, c.tool, c.text), i, c.tool, c.text)
  BY <1>1, CalledMoves
<1>6. MovedBy(r, c) = ((C \o X) \o Y) \o Z
  BY DEF MovedBy
<1>7. ItemsTyped(s) /\ ItemOf(s) = IF c.reasoning THEN "rs_1"
                                   ELSE IF speaks THEN "msg_1"
                                   ELSE IF c.tool # NoTool THEN ""
                                   ELSE i
  <2>1. CASE c.reasoning
    <3>1. s = Opened(r, FALSE, TRUE)
      BY <1>1, <2>1 DEF Moved
    <3> QED
      BY <2>1, <3>1, OpenedIs DEF ItemOf
  <2>2. CASE ~c.reasoning /\ speaks
    <3>1. s = Opened(r, TRUE, FALSE)
      BY <1>1, <2>2 DEF Moved
    <3> QED
      BY <2>2, <3>1, OpenedIs DEF ItemOf
  <2>3. CASE ~c.reasoning /\ ~speaks /\ c.tool # NoTool
    <3>1. s = Opened(r, FALSE, FALSE)
      BY <2>3 DEF Moved
    <3> QED
      BY <2>3, <3>1, OpenedIs DEF ItemOf
  <2>4. CASE ~c.reasoning /\ ~speaks /\ c.tool = NoTool
    BY <2>4 DEF Moved
  <2> QED
    BY <2>1, <2>2, <2>3, <2>4
<1> HIDE DEF C, X, Y, Z, s, i
<1>8. \A es, j, k : Moves(es, j, k, FALSE) => es \in Seq(Steps)
  BY DEF Moves
<1>9. CASE c.reasoning
  <2>1. X = Reasoned(r) /\ Y = <<>> /\ Z = <<>>
    BY <1>1, <1>9 DEF X, Y, Z, When
  <2>2. Moves(C \o X, i, "rs_1", ~r.started)
    BY <1>2, <1>3, <2>1, MovesTwice
  <2>3. Moves(Y, "rs_1", "rs_1", FALSE) /\ Moves(Z, "rs_1", "rs_1", FALSE)
    BY <2>1, MovesNone
  <2>4. Moves((C \o X) \o Y, i, "rs_1", ~r.started)
    BY <2>2, <2>3, MovesTwice
  <2>5. Moves(((C \o X) \o Y) \o Z, i, "rs_1", ~r.started)
    BY <2>3, <2>4, MovesTwice
  <2> QED
    BY <1>1, <1>6, <1>7, <1>9, <2>5 DEF s, i
<1>10. CASE ~c.reasoning
  <2>1. X = <<>>
    BY <1>10 DEF X, When
  <2>2. Moves(C \o X, i, i, ~r.started)
    BY <1>2, <2>1, MovesNone, MovesTwice
  <2>3. CASE speaks
    <3>1. Y = Texted(r, c.text) /\ Z = <<>>
      BY <1>1, <2>3 DEF Y, Z, When
    <3>2. Moves((C \o X) \o Y, i, "msg_1", ~r.started)
      BY <1>4, <2>2, <3>1, MovesTwice
    <3>3. Moves(Z, "msg_1", "msg_1", FALSE)
      BY <3>1, MovesNone
    <3>4. Moves(((C \o X) \o Y) \o Z, i, "msg_1", ~r.started)
      BY <3>2, <3>3, MovesTwice
    <3> QED
      BY <1>1, <1>6, <1>7, <1>10, <2>3, <3>4 DEF s, i
  <2>4. CASE ~speaks
    <3>1. Y = <<>>
      BY <2>4 DEF Y, When
    <3>2. Moves((C \o X) \o Y, i, i, ~r.started)
      BY <2>2, <3>1, MovesNone, MovesTwice
    <3>3. CASE c.tool # NoTool
      <4>1. Z = Called(r, c.tool, c.text)
        BY <3>3 DEF Z, When
      <4>2. Moves(Z, i, "", FALSE)
        BY <1>5, <4>1 DEF Calls
      <4>3. Moves(((C \o X) \o Y) \o Z, i, "", ~r.started)
        BY <3>2, <4>2, MovesTwice
      <4>4. ASSUME NEW f, At(f, i, NoTool), ~r.started => Errors(f)
            PROVE  FedArgued(f \o (((C \o X) \o Y) \o Z), c.tool, c.text)
        <5> DEFINE a == (C \o X) \o Y
        <5>1. a \in Seq(Steps) /\ At(f \o a, i, NoTool)
          BY <3>2, <4>4 DEF Moves
        <5>2. f \in Seq(Steps)
          BY <4>4 DEF At
        <5>3. Z \in Seq(Steps)
          BY <4>2 DEF Moves
        <5> HIDE DEF a, Steps
        <5>4. f \o (a \o Z) = (f \o a) \o Z
          BY <5>1, <5>2, <5>3
        <5>5. FedArgued((f \o a) \o Z, c.tool, c.text)
          BY <1>5, <4>1, <5>1 DEF Calls
        <5>6. FedArgued(f \o (a \o Z), c.tool, c.text)
          BY <5>4, <5>5
        <5> QED
          BY <5>6 DEF a
      <4> QED
        BY <1>6, <1>7, <1>10, <2>4, <3>3, <4>3, <4>4 DEF s, i
    <3>4. CASE c.tool = NoTool
      <4>1. Z = <<>>
        BY <3>4 DEF Z, When
      <4>2. Moves(Z, i, i, FALSE)
        BY <4>1, MovesNone
      <4>3. Moves(((C \o X) \o Y) \o Z, i, i, ~r.started)
        BY <3>2, <4>2, MovesTwice
      <4> QED
        BY <1>6, <1>7, <1>10, <2>4, <3>4, <4>3 DEF s, i
    <3> QED
      BY <3>3, <3>4
  <2> QED
    BY <2>3, <2>4
<1> QED
  BY <1>1, <1>9, <1>10

\* A feed that is in order up to state r.
Good(r, f) ==
    /\ ItemsTyped(r) /\ Created(r)
    /\ At(f, ItemOf(r), NoTool)
    /\ ~r.started => Errors(f)

\* The state after a chunk: its end closes the message, and leaves reasoning.
LEMMA NextIs ==
    ASSUME NEW r, NEW c, ItemsTyped(Moved(r, c)), c.done \in BOOLEAN
    PROVE  LET s == Moved(r, c)
               n == Converted(r, c).next
           IN  /\ ItemsTyped(n) /\ Created(n) /\ n.started
               /\ ~c.done => ItemOf(n) = ItemOf(s)
<1> DEFINE s == Moved(r, c)
<1> SUFFICES ASSUME NEW n, n = Converted(r, c).next
             PROVE  /\ ItemsTyped(n) /\ Created(n) /\ n.started
                    /\ ~c.done => ItemOf(n) = ItemOf(s)
  OBVIOUS
<1>1. n = [s EXCEPT !.started = TRUE, !.message = @ /\ ~c.done, !.part = @ /\ ~c.done]
  BY DEF Converted, Moved
<1>2. ItemsTyped(s)
  OBVIOUS
<1> HIDE DEF s
<1>3. /\ n \in [started : BOOLEAN, message : BOOLEAN, part : BOOLEAN, reasoning : BOOLEAN]
      /\ n.started
      /\ n.message = (s.message /\ ~c.done) /\ n.part = (s.part /\ ~c.done)
      /\ n.reasoning = s.reasoning
  BY <1>1, <1>2 DEF ItemsTyped
<1>4. ItemsTyped(n) /\ Created(n)
  BY <1>2, <1>3 DEF ItemsTyped, Created
<1>5. ASSUME ~c.done PROVE ItemOf(n) = ItemOf(s)
  <2>1. n.message = s.message /\ n.reasoning = s.reasoning
    BY <1>2, <1>3, <1>5 DEF ItemsTyped
  <2> QED
    BY <2>1 DEF ItemOf
<1> QED
  BY <1>3, <1>4, <1>5

\* A chunk keeps a feed in order; after the last one it is complete.
LEMMA ChunkFeeds ==
    ASSUME NEW r, NEW f, Good(r, f), NEW c, OneThing(c)
    PROVE  LET v == f \o Converted(r, c).events
               n == Converted(r, c).next
           IN  /\ v \in Seq(Steps) /\ AllFed(v) /\ Remembers(f, v)
               /\ ItemsTyped(n) /\ Created(n)
               /\ ~c.done => Good(n, v)
               /\ c.tool # NoTool => FedArgued(v, c.tool, c.text)
<1> DEFINE s == Moved(r, c)
           n == Converted(r, c).next
           body == MovedBy(r, c)
           m == MessageDone(s)
           e == StepOf("completed", "")
           end == When(c.done, m \o <<e>>)
           g == f \o body
<1>1. /\ ItemsTyped(s)
      /\ Moves(body, ItemOf(r), ItemOf(s), ~r.started)
      /\ c.tool # NoTool => FedArgued(g, c.tool, c.text)
  BY ChunkMoves DEF Good
<1>2. c.done \in BOOLEAN
  BY DEF OneThing, Chunk
<1>3. /\ ItemsTyped(n) /\ Created(n) /\ n.started
      /\ ~c.done => ItemOf(n) = ItemOf(s)
  BY <1>1, <1>2, NextIs
<1>4. Converted(r, c).events = body \o end
  BY DEF Converted, MovedBy, Moved
<1>5. body \in Seq(Steps) /\ f \in Seq(Steps)
      /\ At(g, ItemOf(s), NoTool) /\ Remembers(f, g)
  BY <1>1 DEF Moves, Good, At
<1>6. Moves(m, ItemOf(s), IF s.message THEN "" ELSE ItemOf(s), FALSE)
  BY <1>1, MessageDoneMoves
<1>7. IsStepOf(e, "completed", "", NoTool, <<>>)
  <2>1. "" \in ItemNames /\ "completed" \in StepTypes
    BY DEF ItemNames, StepTypes
  <2> QED
    BY <2>1, Constants, StepIs DEF StepOf
<1> HIDE DEF s, n, body, m, e, end, Steps
<1>8. CASE ~c.done
  <2>1. end = <<>>
    BY <1>8 DEF end, When
  <2>2. body \o end = body
    BY <1>5, <2>1
  <2>3. Good(n, g)
    BY <1>3, <1>5, <1>8 DEF Good
  <2>4. AllFed(g) /\ g \in Seq(Steps)
    BY <1>5 DEF At
  <2> QED
    BY <1>1, <1>3, <1>4, <1>5, <1>8, <2>2, <2>3, <2>4 DEF n
<1>9. CASE c.done
  <2> DEFINE k == IF s.message THEN "" ELSE ItemOf(s)
             h == g \o m
             v == Append(h, e)
  <2>1. k \in {"", "rs_1"}
    BY DEF ItemOf
  <2>2. At(h, k, NoTool) /\ Remembers(g, h) /\ m \in Seq(Steps)
    BY <1>5, <1>6 DEF Moves
  <2>3. v \in Seq(Steps) /\ AllFed(v) /\ Remembers(h, v)
    <3> HIDE DEF h, k
    <3> QED
      BY <1>7, <2>1, <2>2, AtCompleted DEF IsStepOf
  <2>4. f \o (body \o end) = v
    <3>1. e \in Steps /\ <<e>> \in Seq(Steps)
      <4>1. e \in Steps
        BY <1>7 DEF IsStepOf
      <4> QED
        BY <4>1
    <3>2. end = m \o <<e>> /\ end \in Seq(Steps)
      <4>1. end = m \o <<e>>
        BY <1>9 DEF end, When
      <4>2. m \o <<e>> \in Seq(Steps)
        BY <2>2, <3>1, BothSteps, Zenon
      <4> QED
        BY <4>1, <4>2
    <3>3. f \o (body \o end) = g \o end
      BY <1>5, <3>2, StepsJoined, Zenon
    <3>4. g \in Seq(Steps)
      BY <1>5 DEF At
    <3> HIDE DEF g
    <3>5. g \o (m \o <<e>>) = h \o <<e>>
      BY <2>2, <3>1, <3>4, StepsJoined, Zenon
    <3>6. h \in Seq(Steps)
      BY <2>2 DEF At
    <3> HIDE DEF h
    <3>7. h \o <<e>> = v
      BY <3>1, <3>6, JoinedOne
    <3> QED
      BY <3>2, <3>3, <3>5, <3>7
  <2>5. Remembers(f, v)
    BY <1>5, <2>2, <2>3 DEF Remembers
  <2>6. c.tool # NoTool => FedArgued(v, c.tool, c.text)
    BY <1>1, <2>2, <2>3 DEF Remembers
  <2> HIDE DEF v
  <2> QED
    BY <1>3, <1>4, <1>9, <2>3, <2>4, <2>5, <2>6 DEF n
<1> QED
  BY <1>2, <1>8, <1>9

-----------------------------------------------------------------------------
(* The feed of a stream.                                                   *)

\* The feed is in order and the response goes on, or it was completed and the
\* streams have nothing left to tell.
FeedInv ==
    /\ ItemsTyped(items)
    /\ feed \in Seq(Steps)
    /\ AllFed(feed)
    /\ \/ Good(items, feed)
       \/ /\ upstream \in {"done", "over", "closed"}
          /\ pending = NoPending
          /\ native \/ emu.flushed

LEMMA FeedInit ==
    ASSUME Init
    PROVE  FeedInv
<1>1. /\ items = [started |-> FALSE, message |-> FALSE, part |-> FALSE,
                  reasoning |-> FALSE]
      /\ feed = <<>>
  BY DEF Init, ResponsesInit
<1>2. ItemsTyped(items) /\ Created(items) /\ ItemOf(items) = ""
  BY <1>1 DEF ItemsTyped, Created, ItemOf
<1>3. feed \in Seq(Steps) /\ 1 .. Len(feed) = {}
  <2> HIDE DEF Steps
  <2> QED
    BY <1>1
<1>4. AllFed(feed) /\ Incomplete(feed) /\ Errors(feed) /\ FedNow(feed) = {}
  BY <1>3 DEF AllFed, Incomplete, Errors, FedNow, FedOpen
<1> HIDE DEF Steps
<1>5. Good(items, feed)
  BY <1>2, <1>3, <1>4 DEF Good, At
<1> QED
  BY <1>2, <1>3, <1>4, <1>5 DEF FeedInv

\* Once the response was completed nothing more is passed on.
LEMMA NothingLeft ==
    ASSUME Base, Next, upstream \in {"done", "over", "closed"}, pending = NoPending,
           native \/ emu.flushed
    PROVE  /\ out' = <<>>
           /\ upstream' \in {"done", "over", "closed"}
           /\ pending' = NoPending
           /\ native' \/ emu'.flushed
<1>1. ParserInv /\ Reads
  BY DEF Base, Next, Reads
<1>2. native' = native
  BY StepsYield
<1>3. ~Parses
  BY DEF Parses, Reason, Write, ToolBegins, ToolGoesOn, Usage, Done,
    FlushAtEnd, MaySayDone, NoPending
<1>4. CASE ReportsError \/ Breaks
  <2>1. /\ parsed' = <<>> /\ pending' = pending
        /\ upstream' \in {"done", "over", "closed"}
    BY <1>4 DEF ReportsError, Breaks
  <2>2. emu' = emu /\ out' = <<>>
    BY <1>3, <1>4, <2>1 DEF Next, Transform, Closes, ReportsError, Breaks
  <2> QED
    BY <1>2, <2>1, <2>2
<1>5. CASE Closes /\ TransformEnd
  <2>1. pending' = pending /\ upstream' = "closed"
    BY <1>5 DEF Closes
  <2>2. native => emu.buffer = <<>>
    BY DEF Base, EmulationInv
  <2>3. emu' = emu /\ out' = <<>>
    BY <1>5, <2>2 DEF TransformEnd
  <2> QED
    BY <1>2, <2>1, <2>3
<1> QED
  BY <1>3, <1>4, <1>5 DEF Next

\* What the last chunk of a stream leaves behind.
LEMMA LastLeaves ==
    ASSUME Base, Next, NEW d, out' = <<d>>, d.done
    PROVE  /\ upstream' \in {"done", "over", "closed"}
           /\ pending' = NoPending
           /\ native' \/ emu'.flushed
<1>1. ParserInv /\ Reads /\ native' = native
  BY StepsYield DEF Base, Next, Reads
<1>2. out' # <<>> /\ out'[1] = d
  OBVIOUS
<1>3. CASE Parses /\ Transform
  <2>1. Done \/ FlushAtEnd
    <3>1. SUFFICES ASSUME ~Done, ~FlushAtEnd PROVE FALSE
      OBVIOUS
    <3>2. PICK e : out' = <<e>> /\ ~e.done
      BY <1>2, <1>3, <3>1, OthersPass
    <3>3. e = d
      BY <3>2
    <3> QED
      BY <3>2, <3>3
  <2>2. upstream' \in {"done", "over"} /\ pending' = NoPending
    BY <2>1 DEF Done, FlushAtEnd
  <2>3. native \/ emu'.flushed
    BY <1>2, <1>3, <2>1, LastPasses
  <2> QED
    BY <1>1, <2>2, <2>3
<1>4. CASE (ReportsError \/ Breaks) /\ Transform
  <2>1. parsed' = <<>>
    BY <1>4 DEF ReportsError, Breaks
  <2> QED
    BY <1>2, <1>4, <2>1 DEF Transform
<1>5. CASE Closes /\ TransformEnd
  <2>1. upstream' = "closed" /\ pending' = NoPending
    BY <1>5 DEF Closes
  <2>2. Flush(emu.buffer, TRUE) /\ ~Inverted(emu.buffer)
    BY <1>2, <1>5 DEF TransformEnd, Flush
  <2>3. emu'.flushed
    <3>1. emu \in [buffering : BOOLEAN, buffer : Seq(Texts), flushed : BOOLEAN,
                   outgrown : BOOLEAN, broken : BOOLEAN]
      BY DEF Base, EmulationInv
    <3> QED
      BY <2>2, <3>1 DEF Flush
  <2> QED
    BY <2>1, <2>3
<1> QED
  BY <1>3, <1>4, <1>5 DEF Next

\* What a step that does not stutter makes of the feed.
LEMMA FeedSteps ==
    ASSUME Next
    PROVE  \/ out' = <<>> /\ feed' = feed /\ items' = items
           \/ \E d : /\ out' # <<>> /\ out'[1] = d
                     /\ feed' = feed \o Converted(items, d).events
                     /\ items' = Converted(items, d).next
           \/ /\ ReportsError \/ Breaks
              /\ feed' = Append(feed, StepOf("error", "")) /\ items' = items
BY DEF Next, ResponsesChunk, ResponsesError, responsesVars

LEMMA FeedNext ==
    ASSUME Base, FeedInv, [Next]_vars
    PROVE  FeedInv' /\ Remembers(feed, feed')
<1>1. CASE UNCHANGED vars
  <2>1. feed' = feed /\ items' = items /\ pending' = pending /\ upstream' = upstream
        /\ native' = native /\ emu' = emu
    BY <1>1 DEF vars, parserVars, upstreamVars, emulationVars, responsesVars
  <2> QED
    BY <2>1 DEF FeedInv, Remembers
<1>2. CASE Next
  <2>1. Yield(out', native) /\ native' = native /\ Reads
    BY <1>2, StepsYield DEF Next, Reads
  <2>2. CASE out' = <<>> /\ feed' = feed /\ items' = items
    <3>1. Remembers(feed, feed')
      BY <2>2 DEF Remembers
    <3>2. CASE Good(items, feed)
      BY <2>2, <3>1, <3>2 DEF FeedInv
    <3>3. CASE ~Good(items, feed)
      BY <1>2, <2>2, <3>1, <3>3, NothingLeft DEF FeedInv
    <3> QED
      BY <3>2, <3>3
  <2>3. ASSUME NEW d, out' # <<>>, out'[1] = d,
               feed' = feed \o Converted(items, d).events,
               items' = Converted(items, d).next
        PROVE  FeedInv' /\ Remembers(feed, feed')
    <3>1. out' # <<>>
      BY <2>3
    <3>2. out' = <<d>> /\ OneThing(d)
      <4>1. PICK c : out' = <<c>> /\ OneThing(c)
        BY <2>1, <3>1 DEF Yield, OfKind
      <4>2. c = d
        BY <2>3, <4>1
      <4> QED
        BY <4>1, <4>2
    <3>3. Good(items, feed)
      BY <1>2, <3>1, NothingLeft DEF FeedInv
    <3>4. /\ feed' \in Seq(Steps) /\ AllFed(feed') /\ Remembers(feed, feed')
          /\ ItemsTyped(items')
          /\ ~d.done => Good(items', feed')
      BY <2>3, <3>2, <3>3, ChunkFeeds
    <3>5. CASE ~d.done
      BY <3>4, <3>5 DEF FeedInv
    <3>6. CASE d.done
      BY <1>2, <3>2, <3>4, <3>6, LastLeaves DEF FeedInv
    <3> QED
      BY <3>5, <3>6
  <2>4. CASE (ReportsError \/ Breaks) /\ feed' = Append(feed, StepOf("error", ""))
             /\ items' = items
    <3> DEFINE e == StepOf("error", "")
    <3>1. e \in Steps /\ e.type = "error"
      <4>1. "" \in ItemNames /\ "error" \in StepTypes
        BY DEF ItemNames, StepTypes
      <4>2. IsStepOf(e, "error", "", NoTool, <<>>)
        BY <4>1, Constants, StepIs DEF StepOf
      <4> QED
        BY <4>2 DEF IsStepOf
    <3> HIDE DEF e, Steps
    <3>2. feed \in Seq(Steps) /\ feed' = Append(feed, e)
      BY <2>4 DEF FeedInv, e
    <3>3. /\ feed' \in Seq(Steps) /\ Remembers(feed, feed')
          /\ AllFed(feed) => AllFed(feed')
          /\ Errors(feed) => Errors(feed')
          /\ \A item, tool : At(feed, item, tool) => At(feed', item, tool)
      BY <3>1, <3>2, AtErrors
    <3>4. CASE Good(items, feed)
      BY <2>4, <3>3, <3>4 DEF FeedInv, Good
    <3>5. CASE ~Good(items, feed)
      BY <1>2, <2>4, <3>3, <3>5, NothingLeft DEF FeedInv
    <3> QED
      BY <3>4, <3>5
  <2> QED
    BY <1>2, <2>2, <2>3, <2>4, FeedSteps
<1> QED
  BY <1>1, <1>2

LEMMA AlwaysFeed == Spec => []FeedInv
BY AlwaysBase, FeedInit, FeedNext, PTL DEF Spec

\* A Responses client gets items in order, one at a time, whatever the upstream
\* sends and however its stream ends.
THEOREM ItemsAlwaysWellFormed == Spec => []ItemsWellFormed
<1>1. FeedInv => ItemsWellFormed
  <2> SUFFICES ASSUME FeedInv PROVE ItemsWellFormed
    OBVIOUS
  <2> DEFINE n == Len(feed)
  <2>1. DOMAIN feed = 1 .. n /\ n \in Nat
    <3> HIDE DEF Steps
    <3> QED
      BY DEF FeedInv
  <2>2. \A i \in 1 .. n : Fed(feed, i)
    BY DEF FeedInv, AllFed
  <2> HIDE DEF n
  <2>3. \A i : ItemsOpenAt(i) = FedOpen(feed, i)
    BY <2>1 DEF ItemsOpenAt, FedOpen, FeedAt, n
  <2>4. \A i \in 1 .. n : \A k \in i + 1 .. n : k \in 1 .. n /\ i \in 1 .. k - 1
    BY <2>1
  <2>5. \A i \in FeedAt("completed") : \A k \in i + 1 .. n : feed[k].type = "error"
    BY <2>1, <2>2, <2>4 DEF Fed, FeedAt
  <2> QED
    BY <2>1, <2>2, <2>3, <2>5 DEF ItemsWellFormed, Fed, FeedAt, n
<1> QED
  BY <1>1, AlwaysFeed, PTL

-----------------------------------------------------------------------------
(* The arguments of tool calls.                                            *)

\* The arguments call t has when it is told: none if one of its fragments is
\* still to come, or was lost or mixed with those of another call.
Whole(t) == IF t \in half \cup spoilt THEN <<>> ELSE <<"args">>

\* Of a stream that no error cuts, every call that is due was told to both
\* clients with its arguments.
ArgsInv ==
    ~cut => \A t \in Tools : Due(t) => /\ Argued(wire, t, Whole(t))
                                       /\ FedArgued(feed, t, Whole(t))

\* A call that was told with all its arguments lacks none later, and one that was
\* not is not made whole.
LEMMA WholeKept ==
    ASSUME Base, PendInv, HalfInv, Reads, NEW t, t \in (1 .. tools) \ lost,
           t # pending.tool
    PROVE  Whole(t)' = Whole(t)
<1>1. /\ tools \in Nat /\ lost \subseteq 1 .. tools
      /\ half \in SUBSET (1 .. tools) /\ spoilt \in SUBSET (1 .. tools)
  BY SseParserAssumption DEF Base, ParserInv, SseParserAssumption
<1>2. SUFFICES t \in half' \cup spoilt' <=> t \in half \cup spoilt
  BY DEF Whole
<1>3. CASE Reason \/ Write
  <2>1. Unheard(tools, half, spoilt)
    BY <1>3 DEF Reason, Write
  <2> QED
    BY <1>1, <2>1, UnheardIs, Zenon
<1>4. CASE ToolBegins
  <2>1. PICK args \in {"half", "whole"} :
            Unheard(tools + 1,
                    IF args = "half" THEN half \cup {tools + 1} ELSE half, spoilt)
    BY <1>4 DEF ToolBegins
  <2> DEFINE h == IF args = "half" THEN half \cup {tools + 1} ELSE half
             n == tools + 1
  <2>2. /\ n \in Nat /\ lost \subseteq 1 .. n
        /\ h \in SUBSET (1 .. n) /\ spoilt \in SUBSET (1 .. n)
        /\ t \in 1 .. n /\ t # n
    BY <1>1
  <2>3. Unheard(n, h, spoilt)
    BY <2>1
  <2>4. t \in h \cup spoilt <=> t \in half \cup spoilt
    BY <2>2
  <2> HIDE DEF n, h
  <2>5. t \in half' \cup spoilt' <=> t \in h \cup spoilt
    BY <2>2, <2>3, UnheardIs, Zenon
  <2> QED
    BY <2>4, <2>5
<1>5. CASE ToolGoesOn
  <2>1. PICK u \in half :
            Unheard(tools, half \ {u},
                    IF u = Latest THEN spoilt ELSE spoilt \cup Spoils(u))
    BY <1>5 DEF ToolGoesOn
  <2> DEFINE h == half \ {u}
             s == IF u = Latest THEN spoilt ELSE spoilt \cup Spoils(u)
  <2>2. Latest = pending.tool
    BY <1>1, <1>5, LatestHeld DEF ToolGoesOn
  <2>3. h \in SUBSET (1 .. tools) /\ s \in SUBSET (1 .. tools)
    <3>1. Latest = NoTool \/ Latest \in 1 .. tools
      BY <1>1, LatestIs
    <3> QED
      BY <1>1, <3>1 DEF Spoils
  <2>4. t \in h \cup s <=> t \in half \cup spoilt
    <3>1. t # Latest /\ t # NoTool
      BY <1>1, <2>2
    <3> QED
      BY <3>1, <2>1 DEF Spoils
  <2>5. Unheard(tools, h, s)
    BY <2>1
  <2> HIDE DEF h, s
  <2>6. t \in half' \cup spoilt' <=> t \in h \cup s
    BY <1>1, <2>3, <2>5, UnheardIs, Zenon
  <2> QED
    BY <2>4, <2>6
<1>6. CASE Usage \/ Done \/ FlushAtEnd \/ ReportsError \/ Breaks \/ Closes
  BY <1>6 DEF Usage, Done, FlushAtEnd, ReportsError, Breaks, Closes, upstreamVars
<1> QED
  BY <1>3, <1>4, <1>5, <1>6 DEF Reads, Parses

\* The call held back is passed on with its arguments.
LEMMA WholePasses ==
    ASSUME Base, PendInv, HalfInv, native, Parses, Transform, ~cut',
           NEW d, out' = <<d>>, d.tool # NoTool, NEW t, t = d.tool, t = pending.tool
    PROVE  Args(pending.args) = Whole(t)'
<1>1. /\ tools \in Nat /\ lost \subseteq 1 .. tools /\ t \in (1 .. tools) \ lost
      /\ half \in SUBSET (1 .. tools) /\ spoilt \in SUBSET (1 .. tools)
  BY SseParserAssumption DEF Base, ParserInv, PendInv, SseParserAssumption
<1>2. parsed' = <<d>>
  BY DEF Transform
<1>3. ~FlushAtEnd /\ upstream \in {"open", "ending"}
  BY Leads DEF Base, Reads
<1>4. Args(pending.args) = Whole(t)
  BY <1>1, <1>3 DEF HalfInv, Args, Whole
<1>5. CASE ToolBegins
  <2>1. PICK args \in {"half", "whole"} :
            Unheard(tools + 1,
                    IF args = "half" THEN half \cup {tools + 1} ELSE half, spoilt)
    BY <1>5 DEF ToolBegins
  <2> DEFINE h == IF args = "half" THEN half \cup {tools + 1} ELSE half
             n == tools + 1
  <2>2. /\ n \in Nat /\ lost \subseteq 1 .. n
        /\ h \in SUBSET (1 .. n) /\ spoilt \in SUBSET (1 .. n)
        /\ t \in 1 .. n /\ t # n
    BY <1>1
  <2>3. Unheard(n, h, spoilt)
    BY <2>1
  <2>4. t \in h \cup spoilt <=> t \in half \cup spoilt
    BY <2>2
  <2> HIDE DEF n, h
  <2>5. t \in half' \cup spoilt' <=> t \in h \cup spoilt
    BY <2>2, <2>3, UnheardIs, Zenon
  <2> QED
    BY <1>4, <2>4, <2>5 DEF Whole
<1>6. CASE Done
  <2>1. half' = half /\ spoilt' = spoilt
    BY <1>6 DEF Done, upstreamVars
  <2> QED
    BY <1>4, <2>1 DEF Whole
<1>7. CASE Reason \/ Write \/ Usage
  <2>1. \E e : parsed' = <<e>> /\ e.tool = NoTool
    <3>1. ReasoningChunk.tool = NoTool /\ Bare(FALSE).tool = NoTool
          /\ \A text : TextChunk(text, FALSE).tool = NoTool
      BY ChunksAre DEF Nothing
    <3>2. CASE Reason
      BY <3>1, <3>2 DEF Reason
    <3>3. CASE Write
      BY <3>1, <3>3 DEF Write
    <3>4. CASE Usage
      BY <3>1, <3>4 DEF Usage
    <3> QED
      BY <1>7, <3>2, <3>3, <3>4
  <2>2. PICK e : parsed' = <<e>> /\ e.tool = NoTool
    BY <2>1
  <2>3. e = d
    BY <1>2, <2>2
  <2> QED
    BY <2>2, <2>3
<1>8. CASE ToolGoesOn
  BY <1>2, <1>8 DEF ToolGoesOn
<1> QED
  BY <1>3, <1>5, <1>6, <1>7, <1>8 DEF Parses

LEMMA ArgsInit ==
    ASSUME Init
    PROVE  ArgsInv
BY DEF Init, ParserInit, ArgsInv, Due

\* What a step before the end does to what is due.
LEMMA ArgsPass ==
    ASSUME Base, Base', PendInv, HalfInv, Next, Parses, Transform, ~cut',
           NEW t \in Tools, Due(t)'
    PROVE  \/ Due(t)
           \/ \E d : out' = <<d>> /\ d.tool = t /\ d.tool # NoTool /\ d.text = Whole(t)'
<1>1. CASE native
  <2>1. CASE out' = <<>> /\ (Due(t)' <=> Due(t))
    BY <2>1
  <2>2. ASSUME NEW d, out' = <<d>>, d.tool \in {NoTool, pending.tool},
               d.tool # NoTool => d.text = Args(pending.args),
               Due(t)' <=> Due(t) \/ d.tool = t
        PROVE  Due(t) \/ (out' = <<d>> /\ d.tool = t /\ d.tool # NoTool
                            /\ d.text = Whole(t)')
    <3>1. CASE d.tool = t
      <4>1. d.tool # NoTool /\ d.tool = pending.tool
        BY <2>2, <3>1
      <4>2. d.text = Whole(t)'
        BY <1>1, <2>2, <3>1, <4>1, WholePasses
      <4> QED
        BY <2>2, <3>1, <4>1, <4>2
    <3>2. CASE d.tool # t
      BY <2>2, <3>2
    <3> QED
      BY <3>1, <3>2
  <2> HIDE DEF Due, Whole
  <2> QED
    BY <1>1, <2>1, <2>2, CallsPass
<1>2. CASE ~native
  <2>1. ~native'
    BY <1>2, StepsYield
  <2> QED
    BY <2>1 DEF Base, ParserInv, Due
<1> QED
  BY <1>1, <1>2

LEMMA ArgsNext ==
    ASSUME Base, Base', EndInv, PendInv, HalfInv, FeedInv, ArgsInv, [Next]_vars
    PROVE  ArgsInv'
<1>1. CASE UNCHANGED vars
  BY <1>1 DEF ArgsInv, Due, Whole, vars, parserVars, upstreamVars, anthropicVars, responsesVars
<1>2. CASE Next
  <2> SUFFICES ASSUME ~cut', NEW t \in Tools, Due(t)'
               PROVE  Argued(wire', t, Whole(t)') /\ FedArgued(feed', t, Whole(t)')
    BY DEF ArgsInv, Due, Whole
  <2>1. Reads /\ ParserInv /\ ~cut
    BY <1>2, Leads DEF Next, Reads, Base
  <2>2. Remembers(feed, feed')
    BY FeedNext
  <2>3. ASSUME Due(t), \A args : Argued(wire, t, args) => Argued(wire', t, args)
        PROVE  Argued(wire', t, Whole(t)') /\ FedArgued(feed', t, Whole(t)')
    <3>1. Argued(wire, t, Whole(t)) /\ FedArgued(feed, t, Whole(t))
      BY <2>1, <2>3 DEF ArgsInv
    <3>2. Whole(t)' = Whole(t)
      BY <2>1, <2>3, WholeKept DEF Due
    <3>3. Argued(wire', t, Whole(t)) /\ FedArgued(feed', t, Whole(t))
      BY <2>2, <2>3, <3>1 DEF Remembers
    <3> QED
      BY <3>2, <3>3
  <2>4. CASE Parses /\ Transform /\ WroteOut(wire')
    <3>1. \A args : Argued(wire, t, args) => Argued(wire', t, args)
      BY <2>4 DEF WroteOut, Wrote
    <3>2. ASSUME NEW d, out' = <<d>>, d.tool = t, d.tool # NoTool, d.text = Whole(t)'
          PROVE  Argued(wire', t, Whole(t)') /\ FedArgued(feed', t, Whole(t)')
      <4>1. OneThing(d) /\ Wrote(ser, wire, d, ser', wire')
        BY <2>4, <3>2, PassedOn
      <4>2. Argued(wire', d.tool, d.text)
        BY <3>2, <4>1 DEF Wrote
      <4>3. out' # <<>> /\ out'[1] = d
        BY <3>2
      <4>4. Good(items, feed)
        BY <1>2, <4>3, NothingLeft DEF FeedInv
      <4>5. feed' = feed \o Converted(items, d).events
        <5>1. CASE OpenAIChunk /\ ResponsesChunk
          BY <4>3, <5>1 DEF ResponsesChunk
        <5>2. CASE ReportsError \/ Breaks
          <6>1. parsed' = <<>>
            BY <5>2 DEF ReportsError, Breaks
          <6> QED
            BY <2>4, <4>3, <6>1 DEF Transform
        <5> QED
          BY <1>2, <5>1, <5>2 DEF Next
      <4>6. FedArgued(feed', d.tool, d.text)
        BY <3>2, <4>1, <4>4, <4>5, ChunkFeeds
      <4> QED
        BY <3>2, <4>2, <4>6
    <3> QED
      BY <1>2, <2>3, <2>4, <3>1, <3>2, ArgsPass
  <2>5. CASE ReportsError \/ Breaks
    BY <2>1, <2>5, Leads
  <2>6. ASSUME Closes, TransformEnd, NEW w, WroteOut(w),
               wire' = IF emu'.broken THEN w
                       ELSE Append(w, MessageEvent("message_stop"))
        PROVE  Argued(wire', t, Whole(t)') /\ FedArgued(feed', t, Whole(t)')
    <3>1. upstream = "done" /\ ~emu.broken
      BY <2>1, <2>6, Leads DEF TransformEnd
    <3>2. emu.buffer = <<>>
      BY <2>1, <3>1 DEF EndInv
    <3>3. out' = <<>>
      BY <2>6, <3>2 DEF TransformEnd
    <3>4. w = wire
      BY <2>6, <3>3 DEF WroteOut
    <3>5. \A args : Argued(wire, t, args) => Argued(wire', t, args)
      BY <2>6, <3>4, OtherWrites DEF Base
    <3>6. Due(t)
      BY <2>6 DEF Closes, Due, upstreamVars
    <3> QED
      BY <2>3, <3>5, <3>6
  <2> QED
    BY <1>2, <2>4, <2>5, <2>6, WireSteps
<1> QED
  BY <1>1, <1>2

\* A tool call of a whole stream reaches both clients with its arguments, in
\* whichever order the upstream sends its calls and their fragments, unless a
\* fragment of it was lost with what it shared its delta with, or was mixed with
\* those of another call: then it reaches them with none.
THEOREM ArgumentsAlwaysWhole == Spec => []ArgumentsWhole
<1>1. Base /\ PendInv /\ FeedInv /\ ArgsInv => ArgumentsWhole
  <2> SUFFICES ASSUME Base, PendInv, FeedInv, ArgsInv, upstream = "closed", ~cut,
                      NEW t \in (1 .. tools) \ lost
               PROVE  LET args == IF t \in spoilt THEN <<>> ELSE <<"args">>
                      IN  /\ \E i \in Positions("delta") :
                                wire[i].tool = t /\ wire[i].text = args
                          /\ \E i \in DOMAIN feed :
                                feed[i] = Step("done", "call", t, args)
    BY DEF ArgumentsWhole, Over
  <2>1. t \in Tools /\ t # NoTool
    BY SseParserAssumption DEF Base, ParserInv, SseParserAssumption
  <2>2. Due(t)
    BY <2>1 DEF PendInv, Due, NoPending
  <2>3. Argued(wire, t, Whole(t)) /\ FedArgued(feed, t, Whole(t))
    BY <2>1, <2>2 DEF ArgsInv
  <2>6. Whole(t) = IF t \in spoilt THEN <<>> ELSE <<"args">>
    BY DEF PendInv, Whole
  <2>4. DOMAIN wire = 1 .. Len(wire)
    BY DEF Base, Writes, Book
  <2>5. DOMAIN feed = 1 .. Len(feed)
    <3> HIDE DEF Steps
    <3> QED
      BY DEF FeedInv
  <2> QED
    BY <2>3, <2>4, <2>5, <2>6 DEF Argued, FedArgued, Positions
<1>2. /\ Base /\ Base' /\ EndInv /\ PendInv /\ HalfInv /\ FeedInv /\ ArgsInv
      /\ [Next]_vars
      => ArgsInv'
  BY ArgsNext
<1> QED
  BY <1>1, <1>2, AlwaysBase, AlwaysEnd, AlwaysPend, AlwaysFeed, ArgsInit, PTL DEF Spec

-----------------------------------------------------------------------------
(* Types.                                                                  *)

\* Everything the parser, the transform and the serializers keep or send keeps
\* its type, and of the kinds of block at most one is open.
THEOREM TypeCorrect == Spec => []TypeOK
<1>1. Base /\ FeedInv /\ LinesInv => TypeOK
  <2> SUFFICES ASSUME Base, FeedInv, LinesInv PROVE TypeOK
    OBVIOUS
  <2>1. ParserTypeOK
    <3>1. parsed \in Seq(Chunk) /\ Len(parsed) <= 1
      BY YieldTyped DEF Base
    <3>2. half \subseteq Tools /\ lost \subseteq Tools /\ spoilt \subseteq Tools
      <4>1. tools \in 0 .. MaxTools /\ MaxTools \in Nat
        BY SseParserAssumption DEF Base, ParserInv, SseParserAssumption
      <4>2. 1 .. tools \subseteq Tools
        BY <4>1
      <4> QED
        BY <4>2 DEF Base, ParserInv
    <3> HIDE DEF Chunk, Texts, Tools, NoTool
    <3> QED
      BY <3>1, <3>2 DEF Base, ParserInv, ParserTypeOK
  <2>2. EmulationTypeOK
    <3>1. out \in Seq(Chunk) /\ Len(out) <= 1
      BY YieldTyped DEF Base
    <3> HIDE DEF Chunk, Texts
    <3> QED
      BY <3>1 DEF Base, EmulationInv, EmulationTypeOK
  <2>3. AnthropicTypeOK
    <3> DEFINE open == {k \in {"text", "reasoning", "tool"} : ser[k]}
    <3>1. PICK o : Writes(ser, wire, o)
      BY DEF Base
    <3>2. Single(ser) /\ wire \in Seq(Events)
      BY <3>1 DEF Writes, Book
    <3>3. Cardinality(open) <= 1
      <4>1. \A k, l \in open : k = l
        BY <3>2 DEF Single
      <4> HIDE DEF open
      <4>2. CASE open = {}
        BY <4>2, FS_EmptySet
      <4>3. CASE open # {}
        <5>1. PICK k : open = {k}
          BY <4>1, <4>3
        <5>2. Cardinality({k}) = 1
          BY FS_Singleton
        <5> QED
          BY <5>1, <5>2
      <4> QED
        BY <4>2, <4>3
    <3> HIDE DEF Events
    <3> QED
      BY <3>2, <3>3 DEF AnthropicTypeOK, Single
  <2>4. ResponsesTypeOK
    <3> HIDE DEF Steps
    <3> QED
      BY DEF FeedInv, ItemsTyped, ResponsesTypeOK
  <2>5. OpenAITypeOK
    <3> HIDE DEF Lines
    <3> QED
      BY DEF LinesInv, OpenAITypeOK
  <2> QED
    BY <2>1, <2>2, <2>3, <2>4, <2>5 DEF TypeOK
<1> QED
  BY <1>1, AlwaysBase, AlwaysFeed, AlwaysLines, PTL

-----------------------------------------------------------------------------
(* The text that events have.                                              *)

\* The elements of S have texts.
Textual(S) == \A e \in S : e.text \in AnyText

\* The text of one event.
Bit(e, types) == IF e.type \in types /\ e.text # <<"args">> THEN e.text ELSE <<>>

\* g is the text of the events s up to each of them.
Tells(s, types, g) ==
    /\ g \in [0 .. Len(s) -> AnyText]
    /\ g[0] = <<>>
    /\ \A i \in 1 .. Len(s) : g[i] = g[i - 1] \o Bit(s[i], types)

LEMMA ToldIs ==
    ASSUME NEW S, Textual(S), NEW s \in Seq(S), NEW types
    PROVE  \E g : Tells(s, types, g) /\ Told(s, types) = g[Len(s)]
<1> DEFINE n == Len(s)
           G == [z \in AnyText \X (1 .. n) |-> z[1] \o Bit(s[z[2]], types)]
           Is(g) == g = [i \in 0 .. n |->
                            IF i = 0 THEN <<>>
                            ELSE IF s[i].type \in types /\ s[i].text # <<"args">>
                                 THEN g[i - 1] \o s[i].text
                            ELSE g[i - 1]]
           told == CHOOSE g : Is(g)
<1>1. n \in Nat /\ <<>> \in AnyText
  BY DEF AnyText
<1>2. ASSUME NEW i \in 1 .. n PROVE Bit(s[i], types) \in AnyText
  <2>1. s[i] \in S
    OBVIOUS
  <2> QED
    BY <1>1, <2>1 DEF Textual, Bit
<1>3. IsStep(G, AnyText, n)
  <2>1. ASSUME NEW t \in AnyText, NEW i \in 1 .. n
        PROVE  t \o Bit(s[i], types) \in AnyText
    BY <1>2 DEF AnyText
  <2> QED
    BY <2>1 DEF IsStep
<1> HIDE DEF G
<1>4. PICK g : Follows(g, AnyText, <<>>, n, G)
  BY <1>1, <1>3, Recursion
<1>5. Tells(s, types, g)
  <2>1. ASSUME NEW i \in 1 .. n PROVE g[i] = g[i - 1] \o Bit(s[i], types)
    <3>1. i - 1 \in 0 .. n /\ g[i - 1] \in AnyText
      BY <1>1, <1>4 DEF Follows
    <3> QED
      BY <1>4, <3>1 DEF Follows, G
  <2> QED
    BY <1>4, <2>1 DEF Follows, Tells
<1>6. Is(g)
  <2>1. ASSUME NEW i \in 1 .. n
        PROVE  g[i] = IF s[i].type \in types /\ s[i].text # <<"args">>
                      THEN g[i - 1] \o s[i].text ELSE g[i - 1]
    <3>1. i - 1 \in 0 .. n /\ g[i - 1] \in AnyText
      BY <1>1, <1>5 DEF Tells
    <3>2. g[i - 1] \o <<>> = g[i - 1]
      BY <3>1 DEF AnyText
    <3> QED
      BY <1>5, <3>2 DEF Tells, Bit
  <2>2. \A i \in 0 .. n : i = 0 \/ (i \in 1 .. n /\ i # 0)
    BY <1>1
  <2>3. g = [i \in 0 .. n |-> g[i]] /\ g[0] = <<>>
    BY <1>4 DEF Follows
  <2> DEFINE h == [i \in 0 .. n |->
                      IF i = 0 THEN <<>>
                      ELSE IF s[i].type \in types /\ s[i].text # <<"args">>
                           THEN g[i - 1] \o s[i].text ELSE g[i - 1]]
  <2>4. ASSUME NEW i \in 0 .. n PROVE g[i] = h[i]
    <3>1. CASE i = 0
      BY <2>3, <3>1
    <3>2. CASE i \in 1 .. n /\ i # 0
      BY <2>1, <3>2
    <3> QED
      BY <2>2, <3>1, <3>2
  <2>5. h = [i \in 0 .. n |-> h[i]]
    OBVIOUS
  <2> HIDE DEF h
  <2>6. g = h
    BY <2>3, <2>4, <2>5
  <2> QED
    BY <2>6 DEF h
<1>7. Is(told)
  BY <1>6
<1>8. Told(s, types) = told[n]
  BY DEF Told
<1> HIDE DEF told
<1>9. Tells(s, types, told)
  <2>1. ASSUME NEW i \in 1 .. n
        PROVE  told[i] = IF s[i].type \in types /\ s[i].text # <<"args">>
                         THEN told[i - 1] \o s[i].text ELSE told[i - 1]
    <3>1. i \in 0 .. n /\ i # 0
      BY <1>1
    <3> QED
      BY <1>7, <3>1
  <2>2. told[0] = <<>>
    <3>1. 0 \in 0 .. n
      BY <1>1
    <3> QED
      BY <1>7, <3>1
  <2> DEFINE Same == {i \in 0 .. n : told[i] = g[i]}
  <2>3. 0 \in Same
    BY <1>1, <1>4, <2>2 DEF Follows
  <2>4. ASSUME NEW i \in 1 .. n, i - 1 \in Same PROVE i \in Same
    <3>1. i \in 0 .. n /\ i # 0
      BY <1>1
    <3>2. g[i] = IF s[i].type \in types /\ s[i].text # <<"args">>
                 THEN g[i - 1] \o s[i].text ELSE g[i - 1]
      BY <1>6, <3>1
    <3> QED
      BY <2>1, <2>4, <3>1, <3>2
  <2> HIDE DEF Same
  <2>5. \A i \in 0 .. n : i \in Same
    BY <1>1, <2>3, <2>4, InductionUpTo
  <2>6. \A i \in 0 .. n : told[i] = g[i]
    BY <2>5 DEF Same
  <2>7. told = [i \in 0 .. n |-> told[i]]
    BY <1>7
  <2>8. told = g
    BY <1>4, <2>6, <2>7 DEF Follows
  <2> QED
    BY <1>5, <2>8
<1> QED
  BY <1>8, <1>9

\* Nothing tells nothing, and one event more tells its text.
LEMMA ToldAppended ==
    ASSUME NEW S, Textual(S), NEW types
    PROVE  /\ Told(<<>>, types) = <<>>
           /\ \A s \in Seq(S) : Told(s, types) \in AnyText
           /\ \A s \in Seq(S), e \in S :
                 Told(Append(s, e), types) = Told(s, types) \o Bit(e, types)
<1>1. ASSUME NEW s \in Seq(S) PROVE Told(s, types) \in AnyText
  <2>1. PICK g : Tells(s, types, g) /\ Told(s, types) = g[Len(s)]
    BY ToldIs
  <2>2. Len(s) \in 0 .. Len(s)
    OBVIOUS
  <2> QED
    BY <2>1, <2>2 DEF Tells
<1>2. Told(<<>>, types) = <<>>
  <2>1. <<>> \in Seq(S) /\ Len(<<>>) = 0
    OBVIOUS
  <2>2. PICK g : Tells(<<>>, types, g) /\ Told(<<>>, types) = g[0]
    BY <2>1, ToldIs
  <2> QED
    BY <2>2 DEF Tells
<1>3. ASSUME NEW s \in Seq(S), NEW e \in S
      PROVE  Told(Append(s, e), types) = Told(s, types) \o Bit(e, types)
  <2> DEFINE v == Append(s, e)
             n == Len(s)
  <2>1. /\ v \in Seq(S) /\ n \in Nat /\ Len(v) = n + 1
        /\ \A i \in 1 .. n : v[i] = s[i]
        /\ v[n + 1] = e
    OBVIOUS
  <2> HIDE DEF v
  <2>2. PICK g : Tells(s, types, g) /\ Told(s, types) = g[n]
    BY ToldIs
  <2>3. PICK h : Tells(v, types, h) /\ Told(v, types) = h[n + 1]
    BY <2>1, ToldIs
  <2> DEFINE Same == {i \in 0 .. n : h[i] = g[i]}
  <2>4. 0 \in Same
    BY <2>1, <2>2, <2>3 DEF Tells
  <2>5. ASSUME NEW i \in 1 .. n, i - 1 \in Same PROVE i \in Same
    <3>1. i \in 0 .. n /\ i \in 1 .. n + 1
      BY <2>1
    <3>2. h[i] = h[i - 1] \o Bit(v[i], types) /\ g[i] = g[i - 1] \o Bit(s[i], types)
      BY <2>1, <2>2, <2>3, <3>1 DEF Tells
    <3> QED
      BY <2>1, <2>5, <3>1, <3>2
  <2> HIDE DEF Same
  <2>6. \A i \in 0 .. n : i \in Same
    BY <2>1, <2>4, <2>5, InductionUpTo
  <2>7. h[n] = g[n]
    BY <2>1, <2>6 DEF Same
  <2>8. h[n + 1] = h[n] \o Bit(e, types)
    <3>1. n + 1 \in 1 .. Len(v) /\ (n + 1) - 1 = n
      BY <2>1
    <3> QED
      BY <2>1, <2>3, <3>1 DEF Tells
  <2>9. Told(v, types) = Told(s, types) \o Bit(e, types)
    BY <2>2, <2>3, <2>7, <2>8
  <2> QED
    BY <2>9 DEF v
<1> QED
  BY <1>1, <1>2, <1>3

\* The same, as a fact about one sequence that one may quote.
TellsOn(s, e, types) ==
    /\ Told(s, types) \in AnyText
    /\ Told(Append(s, e), types) = Told(s, types) \o Bit(e, types)

LEMMA ToldOn ==
    ASSUME NEW S, Textual(S), NEW types, NEW s \in Seq(S), NEW e \in S
    PROVE  TellsOn(s, e, types)
BY ToldAppended DEF TellsOn

\* What two sequences tell, one after the other.
LEMMA ToldJoined ==
    ASSUME NEW S, Textual(S), NEW types, NEW s \in Seq(S), NEW t \in Seq(S)
    PROVE  Told(s \o t, types) = Told(s, types) \o Told(t, types)
<1> DEFINE P == {n \in Nat : \A u \in Seq(S) : Len(u) = n =>
                                 Told(s \o u, types) = Told(s, types) \o Told(u, types)}
<1>1. 0 \in P
  <2>1. ASSUME NEW u \in Seq(S), Len(u) = 0
        PROVE  Told(s \o u, types) = Told(s, types) \o Told(u, types)
    <3>1. u = <<>> /\ s \o <<>> = s
      BY <2>1
    <3>2. Told(s, types) \in AnyText /\ Told(<<>>, types) = <<>>
      BY ToldAppended
    <3>3. Told(s, types) \o <<>> = Told(s, types)
      BY <3>2 DEF AnyText
    <3> QED
      BY <3>1, <3>2, <3>3
  <2> QED
    BY <2>1
<1>2. ASSUME NEW n \in Nat \cap P PROVE n + 1 \in P
  <2>1. ASSUME NEW u \in Seq(S), Len(u) = n + 1
        PROVE  Told(s \o u, types) = Told(s, types) \o Told(u, types)
    <3>1. PICK a, e : a \in Seq(S) /\ e \in S /\ Len(a) = n /\ u = Append(a, e)
      <4>1. SubSeq(u, 1, n) \in Seq(S) /\ u[n + 1] \in S /\ Len(SubSeq(u, 1, n)) = n
        BY <2>1
      <4>2. u = Append(SubSeq(u, 1, n), u[n + 1])
        BY <2>1
      <4> QED
        BY <4>1, <4>2
    <3>2. s \o u = Append(s \o a, e) /\ s \o a \in Seq(S)
      <4>1. Append(a, e) = a \o <<e>> /\ <<e>> \in Seq(S)
        BY <3>1, JoinedOne
      <4> DEFINE one == <<e>>
      <4> HIDE DEF one
      <4>2. s \o (a \o one) = (s \o a) \o one
        BY <3>1, <4>1, JoinedTwice DEF one
      <4>3. s \o a \in Seq(S)
        BY <3>1, Joined
      <4>4. Append(s \o a, e) = (s \o a) \o <<e>>
        BY <3>1, <4>3, JoinedOne
      <4> QED
        BY <3>1, <4>1, <4>2, <4>3, <4>4 DEF one
    <3>3. Told(s \o a, types) = Told(s, types) \o Told(a, types)
      BY <1>2, <3>1
    <3> DEFINE su == s \o u
               sa == s \o a
    <3>4. /\ Told(su, types) = Told(sa, types) \o Bit(e, types)
          /\ Told(u, types) = Told(a, types) \o Bit(e, types)
      <4>1. su = Append(sa, e) /\ sa \in Seq(S)
        BY <3>2
      <4> HIDE DEF su, sa
      <4>2. TellsOn(sa, e, types)
        BY <3>1, <4>1, ToldOn, Zenon
      <4>3. TellsOn(a, e, types)
        BY <3>1, ToldOn, Zenon
      <4> QED
        BY <3>1, <4>1, <4>2, <4>3 DEF TellsOn
    <3>5. /\ Told(s, types) \in AnyText /\ Told(a, types) \in AnyText
          /\ Bit(e, types) \in AnyText
      <4>1. <<>> \in AnyText
        BY DEF AnyText
      <4>2. Told(s, types) \in AnyText /\ Told(a, types) \in AnyText
        <5>1. TellsOn(s, e, types) /\ TellsOn(a, e, types)
          BY <3>1, ToldOn, Zenon
        <5> QED
          BY <5>1 DEF TellsOn
      <4>3. Bit(e, types) \in AnyText
        BY <3>1, <4>1 DEF Bit, Textual
      <4> QED
        BY <4>2, <4>3
    <3>6. InTurn(Told(s, types), Told(a, types), Bit(e, types))
      <4>1. AnyText = Seq(Texts \cup {"args"})
        BY DEF AnyText
      <4> QED
        BY <3>5, <4>1, JoinedInTurn, Zenon
    <3> QED
      BY <3>3, <3>4, <3>6 DEF InTurn
  <2> QED
    BY <2>1
<1> HIDE DEF P
<1>3. Len(t) \in P
  <2>1. Len(t) \in Nat
    OBVIOUS
  <2> QED
    BY <1>1, <1>2, <2>1, InductionOnNat
<1> QED
  BY <1>3 DEF P

-----------------------------------------------------------------------------
(* What a chunk tells, and the blocks it starts.                           *)

\* The text a chunk has to tell.
Spoken(c) ==
    IF (c.content \/ c.tool # NoTool) /\ c.text # <<"args">> THEN c.text ELSE <<>>

Elements(s) == {s[i] : i \in 1 .. Len(s)}

LEMMA ElementsJoined ==
    ASSUME NEW S, NEW s \in Seq(S), NEW t \in Seq(S)
    PROVE  Elements(s \o t) = Elements(s) \cup Elements(t)
<1>1. /\ Len(s) \in Nat /\ Len(t) \in Nat /\ Len(s \o t) = Len(s) + Len(t)
      /\ \A i \in 1 .. Len(s) : (s \o t)[i] = s[i]
      /\ \A i \in 1 .. Len(t) : (s \o t)[Len(s) + i] = t[i]
  BY Joined
<1>2. ASSUME NEW e \in Elements(s \o t) PROVE e \in Elements(s) \cup Elements(t)
  <2>1. PICK i \in 1 .. Len(s) + Len(t) : e = (s \o t)[i]
    BY <1>1 DEF Elements
  <2>2. CASE i <= Len(s)
    BY <1>1, <2>1, <2>2 DEF Elements
  <2>3. CASE ~(i <= Len(s))
    <3>1. i - Len(s) \in 1 .. Len(t) /\ Len(s) + (i - Len(s)) = i
      BY <1>1, <2>3
    <3> QED
      BY <1>1, <2>1, <3>1 DEF Elements
  <2> QED
    BY <2>2, <2>3
<1>3. ASSUME NEW e \in Elements(s) PROVE e \in Elements(s \o t)
  <2>1. PICK i \in 1 .. Len(s) : e = s[i]
    BY DEF Elements
  <2>2. i \in 1 .. Len(s \o t) /\ (s \o t)[i] = e
    BY <1>1, <2>1
  <2> QED
    BY <2>2 DEF Elements
<1>4. ASSUME NEW e \in Elements(t) PROVE e \in Elements(s \o t)
  <2>1. PICK i \in 1 .. Len(t) : e = t[i]
    BY DEF Elements
  <2>2. Len(s) + i \in 1 .. Len(s \o t) /\ (s \o t)[Len(s) + i] = e
    BY <1>1, <2>1
  <2> QED
    BY <2>2 DEF Elements
<1> QED
  BY <1>2, <1>3, <1>4

\* ElementsJoined, as a fact about two sequences that one may quote.
Gathered(s, t) == Elements(s \o t) = Elements(s) \cup Elements(t)

LEMMA Gathering ==
    ASSUME NEW S, NEW s \in Seq(S), NEW t \in Seq(S)
    PROVE  Gathered(s, t)
BY ElementsJoined DEF Gathered

LEMMA OneElement ==
    /\ Elements(<<>>) = {}
    /\ \A e : Elements(<<e>>) = {e}
BY DEF Elements

\* Something of the events' own type.
LEMMA EventsTextual == Textual(Events)
BY DEF Textual, Events, AnyText

LEMMA StepsTextual == Textual(Steps)
BY DEF Textual, Steps, AnyText

LEMMA LinesTextual == Textual(Lines)
<1>1. Seq(Texts) \subseteq AnyText
  BY DEF AnyText
<1> QED
  BY <1>1 DEF Textual, Lines

\* The events es tell `text`, and what they start is in `starts`.
Tell(es, text, starts) ==
    /\ es \in Seq(Events)
    /\ Told(es, {"delta"}) = text
    /\ text \in AnyText
    /\ {e \in Elements(es) : e.type = "start"} = starts

LEMMA TellNothing == Tell(<<>>, <<>>, {})
<1>1. Told(<<>>, {"delta"}) = <<>>
  BY EventsTextual, ToldAppended
<1>2. <<>> \in AnyText
  BY DEF AnyText
<1> HIDE DEF Events
<1>3. <<>> \in Seq(Events)
  OBVIOUS
<1> QED
  BY <1>1, <1>2, <1>3, OneElement DEF Tell

LEMMA TellTwice ==
    ASSUME NEW a, NEW b, NEW t, NEW u, NEW A, NEW B, Tell(a, t, A), Tell(b, u, B)
    PROVE  Tell(a \o b, t \o u, A \cup B)
<1> HIDE DEF Events
<1>1. a \in Seq(Events) /\ b \in Seq(Events) /\ a \o b \in Seq(Events)
  BY DEF Tell
<1>2. Told(a \o b, {"delta"}) = t \o u
  BY <1>1, EventsTextual, ToldJoined DEF Tell
<1>3. Elements(a \o b) = Elements(a) \cup Elements(b)
  BY <1>1, ElementsJoined
<1>4. t \o u \in AnyText
  BY DEF Tell, AnyText
<1> QED
  BY <1>1, <1>2, <1>3, <1>4 DEF Tell

\* One event.
LEMMA TellOne ==
    ASSUME NEW e \in Events
    PROVE  Tell(<<e>>, Bit(e, {"delta"}), IF e.type = "start" THEN {e} ELSE {})
<1>1. Told(<<>>, {"delta"}) = <<>>
      /\ Told(Append(<<>>, e), {"delta"}) = Told(<<>>, {"delta"}) \o Bit(e, {"delta"})
  <2> HIDE DEF Events
  <2>1. <<>> \in Seq(Events)
    OBVIOUS
  <2> QED
    BY <2>1, EventsTextual, ToldAppended
<1>2. Bit(e, {"delta"}) \in AnyText
  <2>1. <<>> \in AnyText
    BY DEF AnyText
  <2> QED
    BY <2>1, EventsTextual DEF Bit, Textual
<1> HIDE DEF Events
<1>3. Append(<<>>, e) = <<e>> /\ <<e>> \in Seq(Events)
  OBVIOUS
<1>4. <<>> \o Bit(e, {"delta"}) = Bit(e, {"delta"})
  BY <1>2 DEF AnyText
<1>5. Elements(<<e>>) = {e}
  BY OneElement
<1>6. Told(<<e>>, {"delta"}) = Bit(e, {"delta"})
  BY <1>1, <1>3, <1>4
<1> QED
  BY <1>2, <1>3, <1>5, <1>6 DEF Tell

LEMMA TellSilent ==
    ASSUME NEW e \in Events, e.type \notin {"start", "delta"}
    PROVE  Tell(<<e>>, <<>>, {})
<1>1. Bit(e, {"delta"}) = <<>>
  BY DEF Bit
<1> HIDE DEF Events
<1> QED
  BY <1>1, TellOne

\* What is there on a condition.
LEMMA TellWhen ==
    ASSUME NEW c \in BOOLEAN, NEW a, NEW t, NEW A, c => Tell(a, t, A)
    PROVE  Tell(When(c, a), IF c THEN t ELSE <<>>, IF c THEN A ELSE {})
BY TellNothing, WhenIs

\* Closing a block tells nothing, nor does the end of the message.
LEMMA EndTells ==
    ASSUME NEW s \in SerStates, NEW c, OneThing(c)
    PROVE  Tell(Closing(s), <<>>, {}) /\ Tell(Last(s, c), <<>>, {})
<1> DEFINE sig == BlockEvent("signature", s.index)
           stop == BlockEvent("stop", s.index)
           last == Event("message_delta", 0, StopReason(s, c), NoTool, <<>>)
<1>1. s.index \in Nat /\ s.reasoning \in BOOLEAN
  BY DEF SerStates
<1>2. StopReason(s, c) \in Kinds
  BY EndTyped
<1>3. /\ "signature" \in EventTypes /\ "stop" \in EventTypes
      /\ "message_delta" \in EventTypes /\ NoTool \in AnyTool /\ <<>> \in AnyText
  BY Constants
<1>4. /\ IsEvent(sig, "signature", s.index, "", NoTool, <<>>)
      /\ IsEvent(stop, "stop", s.index, "", NoTool, <<>>)
  BY <1>1, <1>3, BlockEventIs
<1>5. IsEvent(last, "message_delta", 0, StopReason(s, c), NoTool, <<>>)
  BY <1>2, <1>3, EventIs
<1>6. Closing(s) = When(s.reasoning, <<sig>>) \o <<stop>>
  BY DEF Closing
<1>7. Last(s, c) = When(s.reasoning, <<sig>>) \o <<stop, last>>
  BY DEF Last
<1>8. sig \in Events /\ stop \in Events /\ last \in Events
      /\ sig.type = "signature" /\ stop.type = "stop" /\ last.type = "message_delta"
  BY <1>4, <1>5 DEF IsEvent
<1> HIDE DEF sig, stop, last, Events
<1>9. Tell(<<sig>>, <<>>, {}) /\ Tell(<<stop>>, <<>>, {}) /\ Tell(<<last>>, <<>>, {})
  BY <1>8, TellSilent
<1>10. Tell(When(s.reasoning, <<sig>>), <<>>, {})
  BY <1>1, <1>9, TellWhen
<1>11. <<>> \o <<>> = <<>> /\ {} \cup {} = {}
  OBVIOUS
<1>12. Tell(Closing(s), <<>>, {})
  BY <1>6, <1>9, <1>10, <1>11, TellTwice
<1>13. <<stop, last>> = <<stop>> \o <<last>>
  BY <1>8, Pair
<1>14. Tell(<<stop, last>>, <<>>, {})
  BY <1>9, <1>11, <1>13, TellTwice
<1>15. Tell(Last(s, c), <<>>, {})
  BY <1>7, <1>10, <1>11, <1>14, TellTwice
<1> QED
  BY <1>12, <1>15

\* A piece of a block, and its start if none is open.
LEMMA BlockTells ==
    ASSUME NEW s \in SerStates, NEW kind \in Kinds, NEW tool \in AnyTool,
           NEW text \in AnyText
    PROVE  Tell(Block(s, kind, tool, text), IF text # <<"args">> THEN text ELSE <<>>,
                IF s.needStart THEN {Event("start", s.index, kind, tool, <<>>)} ELSE {})
<1> DEFINE start == Event("start", s.index, kind, tool, <<>>)
           delta == Event("delta", s.index, kind, tool, text)
<1>1. s.index \in Nat /\ s.needStart \in BOOLEAN
  BY DEF SerStates
<1>2. "start" \in EventTypes /\ "delta" \in EventTypes /\ <<>> \in AnyText
  BY Constants
<1>3. /\ IsEvent(start, "start", s.index, kind, tool, <<>>)
      /\ IsEvent(delta, "delta", s.index, kind, tool, text)
  BY <1>1, <1>2, EventIs
<1>4. /\ start \in Events /\ start.type = "start"
      /\ delta \in Events /\ delta.type = "delta" /\ delta.text = text
  BY <1>3 DEF IsEvent
<1>5. Block(s, kind, tool, text) = When(s.needStart, <<start>>) \o <<delta>>
  BY DEF Block
<1> DEFINE said1 == IF text # <<"args">> THEN text ELSE <<>>
<1> HIDE DEF start, delta, Events
<1>6. Tell(<<start>>, <<>>, {start})
  <2>1. Bit(start, {"delta"}) = <<>>
    BY <1>4 DEF Bit
  <2> QED
    BY <1>4, <2>1, TellOne
<1>7. Tell(<<delta>>, said1, {})
  <2>1. Bit(delta, {"delta"}) = said1
    BY <1>4 DEF Bit
  <2> HIDE DEF said1
  <2> QED
    BY <1>4, <2>1, TellOne
<1>8. <<>> \o said1 = said1
  BY <1>2 DEF AnyText
<1> HIDE DEF said1
<1>9. CASE s.needStart
  <2>1. When(s.needStart, <<start>>) = <<start>>
    BY <1>9, WhenIs
  <2>2. Tell(<<start>> \o <<delta>>, <<>> \o said1, {start} \cup {})
    BY <1>6, <1>7, TellTwice
  <2>3. Tell(Block(s, kind, tool, text), said1, {start})
    BY <1>5, <1>8, <2>1, <2>2
  <2> QED
    BY <1>9, <2>3 DEF said1, start
<1>10. CASE ~s.needStart
  <2>1. When(s.needStart, <<start>>) = <<>>
    BY <1>1, <1>10, WhenIs
  <2>2. Tell(<<>> \o <<delta>>, <<>> \o said1, {} \cup {})
    BY <1>7, TellNothing, TellTwice
  <2>3. Tell(Block(s, kind, tool, text), said1, {})
    BY <1>5, <1>8, <2>1, <2>2
  <2> QED
    BY <1>10, <2>3 DEF said1, start
<1> QED
  BY <1>1, <1>9, <1>10

\* Start e is of chunk c.
StartOf(e, c) ==
    \/ c.reasoning /\ e.kind = "thinking" /\ e.tool = NoTool
    \/ c.content /\ e.kind = "text" /\ e.tool = NoTool
    \/ c.tool # NoTool /\ e.kind = "tool_use" /\ e.tool = c.tool

\* The blocks that chunk c starts in state r.
Started(r, c, starts) ==
    /\ \A e \in starts : StartOf(e, c)
    /\ r.needStart /\ (c.reasoning \/ c.content \/ c.tool # NoTool) => starts # {}

LEMMA BodyTells ==
    ASSUME NEW s \in SerStates, NEW c, OneThing(c)
    PROVE  \E starts : Tell(Body(s, c), Spoken(c), starts) /\ Started(s, c, starts)
<1>1. c.tool \in AnyTool /\ c.text \in AnyText /\ c.reasoning \in BOOLEAN
      /\ c.content \in BOOLEAN
  BY ChunkFields
<1>2. /\ "thinking" \in Kinds /\ "text" \in Kinds /\ "tool_use" \in Kinds
      /\ NoTool \in AnyTool /\ <<>> \in AnyText /\ "start" \in EventTypes
  BY Constants
<1>3. s.index \in Nat /\ s.needStart \in BOOLEAN
  BY DEF SerStates
<1> DEFINE starts(kind, tool) ==
              IF s.needStart THEN {Event("start", s.index, kind, tool, <<>>)} ELSE {}
<1>4. \A kind \in Kinds, tool \in AnyTool :
         /\ \A e \in starts(kind, tool) : e.kind = kind /\ e.tool = tool
         /\ s.needStart => starts(kind, tool) # {}
  BY <1>2, <1>3, EventIs DEF IsEvent
<1>5. /\ Tell(Block(s, "thinking", NoTool, <<>>), <<>>, starts("thinking", NoTool))
      /\ Tell(Block(s, "text", NoTool, c.text),
              IF c.text # <<"args">> THEN c.text ELSE <<>>, starts("text", NoTool))
      /\ Tell(Block(s, "tool_use", c.tool, c.text),
              IF c.text # <<"args">> THEN c.text ELSE <<>>, starts("tool_use", c.tool))
  <2>1. (IF <<>> # <<"args">> THEN <<>> ELSE <<>>) = <<>>
    OBVIOUS
  <2>2. Tell(Block(s, "thinking", NoTool, <<>>), IF <<>> # <<"args">> THEN <<>> ELSE <<>>,
             starts("thinking", NoTool))
    BY <1>1, <1>2, BlockTells
  <2>3. /\ Tell(Block(s, "text", NoTool, c.text),
                IF c.text # <<"args">> THEN c.text ELSE <<>>, starts("text", NoTool))
        /\ Tell(Block(s, "tool_use", c.tool, c.text),
                IF c.text # <<"args">> THEN c.text ELSE <<>>, starts("tool_use", c.tool))
    BY <1>1, <1>2, BlockTells
  <2> QED
    BY <2>1, <2>2, <2>3
<1> HIDE DEF starts
<1>6. CASE c.reasoning
  <2>1. ~c.content /\ c.tool = NoTool
    BY <1>6 DEF OneThing
  <2>2. Spoken(c) = <<>> /\ Body(s, c) = Block(s, "thinking", NoTool, <<>>)
    BY <1>6, <2>1 DEF Spoken, Body
  <2>3. Started(s, c, starts("thinking", NoTool))
    BY <1>2, <1>4, <1>6 DEF Started, StartOf
  <2> QED
    BY <1>5, <2>2, <2>3
<1>7. CASE ~c.reasoning /\ c.content
  <2>1. /\ Spoken(c) = IF c.text # <<"args">> THEN c.text ELSE <<>>
        /\ Body(s, c) = Block(s, "text", NoTool, c.text)
    BY <1>7 DEF Spoken, Body
  <2>2. Started(s, c, starts("text", NoTool))
    BY <1>2, <1>4, <1>7 DEF Started, StartOf
  <2> QED
    BY <1>5, <2>1, <2>2
<1>8. CASE ~c.reasoning /\ ~c.content /\ c.tool # NoTool
  <2>1. /\ Spoken(c) = IF c.text # <<"args">> THEN c.text ELSE <<>>
        /\ Body(s, c) = Block(s, "tool_use", c.tool, c.text)
    BY <1>8 DEF Spoken, Body
  <2>2. Started(s, c, starts("tool_use", c.tool))
    BY <1>1, <1>2, <1>4, <1>8 DEF Started, StartOf
  <2> QED
    BY <1>5, <2>1, <2>2
<1>9. CASE ~c.reasoning /\ ~c.content /\ c.tool = NoTool
  <2>1. Spoken(c) = <<>> /\ Body(s, c) = <<>>
    BY <1>9 DEF Spoken, Body
  <2>2. Started(s, c, {})
    BY <1>9 DEF Started
  <2> QED
    BY <2>1, <2>2, TellNothing
<1> QED
  BY <1>1, <1>6, <1>7, <1>8, <1>9

\* The events of a chunk tell its text.
LEMMA ChunkTells ==
    ASSUME NEW s \in SerStates, NEW c, OneThing(c)
    PROVE  LET nc == NeedsClose(s, c)
               r == IF nc THEN Closed(s) ELSE s
           IN  \E starts : /\ Tell(When(nc, Closing(s)) \o Emitted(r, c), Spoken(c), starts)
                           /\ Started(r, c, starts)
<1> DEFINE nc == NeedsClose(s, c)
           r == IF nc THEN Closed(s) ELSE s
<1>1. nc \in BOOLEAN
  BY DEF NeedsClose, SerStates
<1>2. r \in SerStates
  BY ClosedIs
<1>3. c.done \in BOOLEAN
  BY ChunkFields
<1> HIDE DEF nc, r
<1>4. Tell(When(nc, Closing(s)), <<>>, {})
  BY <1>1, EndTells, TellWhen
<1>5. Tell(When(c.done, Last(r, c)), <<>>, {})
  BY <1>2, <1>3, EndTells, TellWhen
<1>6. PICK starts : Tell(Body(r, c), Spoken(c), starts) /\ Started(r, c, starts)
  BY <1>2, BodyTells
<1>7. Emitted(r, c) = Body(r, c) \o When(c.done, Last(r, c))
  BY <1>2, EmittedIs
<1>8. Tell(Emitted(r, c), Spoken(c) \o <<>>, starts \cup {})
  BY <1>5, <1>6, <1>7, TellTwice
<1>9. Spoken(c) \o <<>> = Spoken(c) /\ <<>> \o Spoken(c) = Spoken(c)
  BY <1>6 DEF Tell, AnyText
<1>10. starts \cup {} = starts /\ {} \cup starts = starts
  OBVIOUS
<1>11. Tell(Emitted(r, c), Spoken(c), starts)
  BY <1>8, <1>9, <1>10
<1>12. Tell(When(nc, Closing(s)) \o Emitted(r, c), <<>> \o Spoken(c), {} \cup starts)
  BY <1>4, <1>11, TellTwice
<1>13. Tell(When(nc, Closing(s)) \o Emitted(r, c), Spoken(c), starts)
  BY <1>9, <1>10, <1>12
<1> QED
  BY <1>6, <1>13 DEF nc, r

-----------------------------------------------------------------------------
(* What a chunk tells the other two clients.                               *)

\* The elements of S that es is of tell `text`.
Speaks(S, types, es, text) ==
    /\ es \in Seq(S)
    /\ Told(es, types) = text
    /\ text \in AnyText

LEMMA SpeaksNone ==
    ASSUME NEW S, Textual(S), NEW types
    PROVE  Speaks(S, types, <<>>, <<>>)
<1>1. Told(<<>>, types) = <<>>
  BY ToldAppended
<1>2. <<>> \in AnyText /\ <<>> \in Seq(S)
  BY DEF AnyText
<1> QED
  BY <1>1, <1>2 DEF Speaks

LEMMA SpeaksTwice ==
    ASSUME NEW S, Textual(S), NEW types, NEW a, NEW b, NEW t, NEW u,
           Speaks(S, types, a, t), Speaks(S, types, b, u)
    PROVE  Speaks(S, types, a \o b, t \o u)
<1>1. a \in Seq(S) /\ b \in Seq(S) /\ a \o b \in Seq(S)
  BY DEF Speaks
<1>2. Told(a \o b, types) = t \o u
  BY <1>1, ToldJoined DEF Speaks
<1>3. t \o u \in AnyText
  BY DEF Speaks, AnyText
<1> QED
  BY <1>1, <1>2, <1>3 DEF Speaks

\* Nothing on one of the two sides.
LEMMA SpeaksBeside ==
    ASSUME NEW S, Textual(S), NEW types, NEW a, NEW b, NEW t,
           \/ Speaks(S, types, a, t) /\ Speaks(S, types, b, <<>>)
           \/ Speaks(S, types, a, <<>>) /\ Speaks(S, types, b, t)
    PROVE  Speaks(S, types, a \o b, t)
<1>1. t \in AnyText
  BY DEF Speaks
<1>2. t \o <<>> = t /\ <<>> \o t = t
  BY <1>1 DEF AnyText
<1>3. CASE Speaks(S, types, a, t) /\ Speaks(S, types, b, <<>>)
  <2>1. Speaks(S, types, a \o b, t \o <<>>)
    BY <1>3, SpeaksTwice
  <2> QED
    BY <1>2, <2>1
<1>4. CASE Speaks(S, types, a, <<>>) /\ Speaks(S, types, b, t)
  <2>1. Speaks(S, types, a \o b, <<>> \o t)
    BY <1>4, SpeaksTwice
  <2> QED
    BY <1>2, <2>1
<1> QED
  BY <1>3, <1>4

LEMMA SpeaksOne ==
    ASSUME NEW S, Textual(S), NEW types, NEW e \in S
    PROVE  Speaks(S, types, <<e>>, Bit(e, types))
<1>1. Told(<<>>, types) = <<>>
      /\ Told(Append(<<>>, e), types) = Told(<<>>, types) \o Bit(e, types)
  <2>1. <<>> \in Seq(S)
    OBVIOUS
  <2> QED
    BY <2>1, ToldAppended
<1>2. Bit(e, types) \in AnyText
  <2>1. <<>> \in AnyText
    BY DEF AnyText
  <2> QED
    BY <2>1 DEF Bit, Textual
<1>3. Append(<<>>, e) = <<e>> /\ <<e>> \in Seq(S)
  OBVIOUS
<1>4. <<>> \o Bit(e, types) = Bit(e, types)
  BY <1>2 DEF AnyText
<1> QED
  BY <1>1, <1>2, <1>3, <1>4 DEF Speaks

LEMMA SpeaksWhen ==
    ASSUME NEW S, Textual(S), NEW types, NEW c \in BOOLEAN, NEW a, NEW t,
           c => Speaks(S, types, a, t), ~c => t = <<>>
    PROVE  Speaks(S, types, When(c, a), t)
BY SpeaksNone, WhenIs

\* What the Responses client and the OpenAI client are told.
ToFeed(es, text) == Speaks(Steps, {"delta"}, es, text)
ToLines(es, text) == Speaks(Lines, {"content", "tool_call"}, es, text)

\* A step of an item that is no delta, and one that is.
LEMMA StepTells ==
    ASSUME NEW type \in StepTypes, NEW item \in ItemNames, NEW tool \in AnyTool,
           NEW text \in AnyText
    PROVE  ToFeed(<<Step(type, item, tool, text)>>,
                  IF type = "delta" /\ text # <<"args">> THEN text ELSE <<>>)
<1> DEFINE e == Step(type, item, tool, text)
<1>1. e \in Steps /\ e.type = type /\ e.text = text
  BY StepIs DEF IsStepOf
<1>2. Bit(e, {"delta"}) = IF type = "delta" /\ text # <<"args">> THEN text ELSE <<>>
  BY <1>1 DEF Bit
<1> HIDE DEF e, Steps
<1>3. Speaks(Steps, {"delta"}, <<e>>, Bit(e, {"delta"}))
  BY <1>1, StepsTextual, SpeaksOne
<1> QED
  BY <1>2, <1>3 DEF ToFeed, e

LEMMA SilentStep ==
    ASSUME NEW type \in StepTypes, NEW item \in ItemNames
    PROVE  ToFeed(<<StepOf(type, item)>>, <<>>)
<1>1. NoTool \in AnyTool /\ <<>> \in AnyText
  BY DEF AnyTool, AnyText
<1>2. ToFeed(<<Step(type, item, NoTool, <<>>)>>,
             IF type = "delta" /\ <<>> # <<"args">> THEN <<>> ELSE <<>>)
  BY <1>1, StepTells
<1> QED
  BY <1>2 DEF StepOf

LEMMA FeedBeside ==
    ASSUME NEW a, NEW b, NEW t,
           \/ ToFeed(a, t) /\ ToFeed(b, <<>>)
           \/ ToFeed(a, <<>>) /\ ToFeed(b, t)
    PROVE  ToFeed(a \o b, t)
BY StepsTextual, SpeaksBeside DEF ToFeed

LEMMA FeedWhen ==
    ASSUME NEW c \in BOOLEAN, NEW a, NEW t, c => ToFeed(a, t), ~c => t = <<>>
    PROVE  ToFeed(When(c, a), t)
BY StepsTextual, SpeaksWhen DEF ToFeed

LEMMA StepNames ==
    /\ {"created", "added", "part", "delta", "part_done", "done", "completed", "error"}
         \subseteq StepTypes
    /\ {"", "rs_1", "msg_1", "call"} \subseteq ItemNames
    /\ <<>> \in AnyText
BY DEF StepTypes, ItemNames, AnyText

\* What the ends of the items tell.
LEMMA DoneTells ==
    ASSUME NEW r, ItemsTyped(r)
    PROVE  ToFeed(MessageDone(r), <<>>) /\ ToFeed(ReasoningDone(r), <<>>)
<1>1. r.part \in BOOLEAN /\ r.message \in BOOLEAN /\ r.reasoning \in BOOLEAN
  BY DEF ItemsTyped
<1> DEFINE a == <<StepOf("part_done", "msg_1")>>
           b == <<StepOf("done", "msg_1")>>
           c == <<StepOf("done", "rs_1")>>
<1>2. ToFeed(a, <<>>) /\ ToFeed(b, <<>>) /\ ToFeed(c, <<>>)
  BY StepNames, SilentStep
<1>3. MessageDone(r) = When(r.part, a) \o When(r.message, b)
      /\ ReasoningDone(r) = When(r.reasoning, c)
  BY DEF MessageDone, ReasoningDone
<1> HIDE DEF a, b, c
<1>4. ToFeed(When(r.part, a), <<>>) /\ ToFeed(When(r.message, b), <<>>)
      /\ ToFeed(When(r.reasoning, c), <<>>)
  BY <1>1, <1>2, FeedWhen
<1> QED
  BY <1>3, <1>4, FeedBeside

LEMMA ReasonedTells ==
    ASSUME NEW r, ItemsTyped(r)
    PROVE  ToFeed(Reasoned(r), <<>>)
<1> DEFINE a == MessageDone(r)
           b == <<StepOf("added", "rs_1")>>
           c == <<StepOf("delta", "rs_1")>>
<1>1. (~r.reasoning) \in BOOLEAN
  BY DEF ItemsTyped
<1>2. ToFeed(a, <<>>) /\ ToFeed(b, <<>>) /\ ToFeed(c, <<>>)
  BY DoneTells, StepNames, SilentStep
<1>3. Reasoned(r) = (a \o When(~r.reasoning, b)) \o c
  BY DEF Reasoned
<1> HIDE DEF a, b, c
<1>4. ToFeed(When(~r.reasoning, b), <<>>)
  BY <1>1, <1>2, FeedWhen
<1>5. ToFeed(a \o When(~r.reasoning, b), <<>>)
  BY <1>2, <1>4, FeedBeside
<1> QED
  BY <1>2, <1>3, <1>5, FeedBeside

\* A text as it is told.
Plainly(text) == IF text # <<"args">> THEN text ELSE <<>>

LEMMA TextedTells ==
    ASSUME NEW r, ItemsTyped(r), NEW text \in AnyText
    PROVE  ToFeed(Texted(r, text), Plainly(text))
<1> DEFINE a == ReasoningDone(r)
           b == <<StepOf("added", "msg_1")>>
           c == <<StepOf("part", "msg_1")>>
           d == <<Step("delta", "msg_1", NoTool, text)>>
           t == Plainly(text)
<1>1. (~r.message) \in BOOLEAN /\ (~r.part) \in BOOLEAN
  BY DEF ItemsTyped
<1>2. ToFeed(a, <<>>) /\ ToFeed(b, <<>>) /\ ToFeed(c, <<>>)
  BY DoneTells, StepNames, SilentStep
<1>3. ToFeed(d, t)
  <2>1. NoTool \in AnyTool
    BY DEF AnyTool
  <2>2. ToFeed(d, IF "delta" = "delta" /\ text # <<"args">> THEN text ELSE <<>>)
    BY <2>1, StepNames, StepTells
  <2> QED
    BY <2>2 DEF Plainly
<1>4. Texted(r, text) = ((a \o When(~r.message, b)) \o When(~r.part, c)) \o d
  BY DEF Texted
<1> HIDE DEF a, b, c, d, t
<1>5. ToFeed(When(~r.message, b), <<>>) /\ ToFeed(When(~r.part, c), <<>>)
  BY <1>1, <1>2, FeedWhen
<1>6. ToFeed(a \o When(~r.message, b), <<>>)
  BY <1>2, <1>5, FeedBeside
<1>7. ToFeed((a \o When(~r.message, b)) \o When(~r.part, c), <<>>)
  BY <1>5, <1>6, FeedBeside
<1>8. ToFeed(Texted(r, text), t)
  BY <1>3, <1>4, <1>7, FeedBeside
<1> QED
  BY <1>8 DEF t

LEMMA FeedFour ==
    ASSUME NEW a \in Steps, NEW b \in Steps, NEW c \in Steps, NEW d \in Steps, NEW t,
           ToFeed(<<a>>, <<>>), ToFeed(<<b>>, t), ToFeed(<<c>>, <<>>), ToFeed(<<d>>, <<>>)
    PROVE  ToFeed(<<a, b, c, d>>, t)
<1>1. <<>> \in Seq(Steps) /\ <<a>> \in Seq(Steps)
  OBVIOUS
<1> DEFINE u == <<a>> \o <<b>>
           v == u \o <<c>>
           w == v \o <<d>>
<1>2. u = Append(<<a>>, b) /\ u \in Seq(Steps) /\ ToFeed(u, t)
  BY <1>1, JoinedOne, FeedBeside
<1> HIDE DEF u
<1>3. v = Append(u, c) /\ v \in Seq(Steps) /\ ToFeed(v, t)
  BY <1>2, JoinedOne, FeedBeside
<1> HIDE DEF v
<1>4. w = Append(v, d) /\ ToFeed(w, t)
  BY <1>3, JoinedOne, FeedBeside
<1> HIDE DEF w
<1>5. <<>> \o <<a>> = <<a>> /\ <<>> \o <<a>> = Append(<<>>, a)
  BY <1>1, JoinedOne, JoinedNone
<1>6. <<>> \o <<a, b, c, d>> = Append(Append(Append(Append(<<>>, a), b), c), d)
      /\ <<a, b, c, d>> \in Seq(Steps)
  BY <1>1, FourAppended
<1>7. <<>> \o <<a, b, c, d>> = <<a, b, c, d>>
  BY <1>6, JoinedNone
<1>8. w = <<a, b, c, d>>
  BY <1>2, <1>3, <1>4, <1>5, <1>6, <1>7
<1> QED
  BY <1>4, <1>8

LEMMA CalledTells ==
    ASSUME NEW r, ItemsTyped(r), NEW tool \in AnyTool, NEW text \in AnyText
    PROVE  ToFeed(Called(r, tool, text), Plainly(text))
<1> DEFINE w == Step("added", "call", tool, <<>>)
           x == Step("delta", "call", tool, text)
           y == Step("part_done", "call", tool, text)
           z == Step("done", "call", tool, text)
           t == Plainly(text)
           a == MessageDone(r) \o ReasoningDone(r)
<1>1. w \in Steps /\ x \in Steps /\ y \in Steps /\ z \in Steps
  BY StepNames, StepIs DEF IsStepOf
<1>2. ToFeed(<<w>>, <<>>) /\ ToFeed(<<y>>, <<>>) /\ ToFeed(<<z>>, <<>>)
  <2>1. /\ ToFeed(<<w>>, IF "added" = "delta" /\ <<>> # <<"args">> THEN <<>> ELSE <<>>)
        /\ ToFeed(<<y>>, IF "part_done" = "delta" /\ text # <<"args">> THEN text ELSE <<>>)
        /\ ToFeed(<<z>>, IF "done" = "delta" /\ text # <<"args">> THEN text ELSE <<>>)
    BY StepNames, StepTells
  <2> QED
    BY <2>1
<1>3. ToFeed(<<x>>, t)
  <2>1. ToFeed(<<x>>, IF "delta" = "delta" /\ text # <<"args">> THEN text ELSE <<>>)
    BY StepNames, StepTells
  <2> QED
    BY <2>1 DEF Plainly
<1>4. ToFeed(a, <<>>)
  BY DoneTells, FeedBeside
<1>5. Called(r, tool, text) = a \o <<w, x, y, z>>
  BY DEF Called
<1> HIDE DEF w, x, y, z, t, a, Steps
<1>9. ToFeed(<<w, x, y, z>>, t)
  BY <1>1, <1>2, <1>3, FeedFour
<1>10. ToFeed(Called(r, tool, text), t)
  BY <1>4, <1>5, <1>9, FeedBeside
<1> QED
  BY <1>10 DEF t

\* What a chunk tells, by its kind.
LEMMA SpokenIs ==
    ASSUME NEW c, OneThing(c)
    PROVE  /\ Spoken(c) \in AnyText
           /\ c.content => Spoken(c) = c.text /\ Plainly(c.text) = c.text
           /\ c.tool # NoTool => Spoken(c) = Plainly(c.text)
           /\ ~c.content /\ c.tool = NoTool => Spoken(c) = <<>>
<1>1. c.text \in AnyText /\ <<>> \in AnyText
  BY ChunkFields DEF AnyText
<1>2. Spoken(c) \in AnyText
  BY <1>1 DEF Spoken
<1>3. ASSUME c.content PROVE Spoken(c) = c.text /\ Plainly(c.text) = c.text
  <2>1. c.text \in Seq(Texts)
    BY <1>3 DEF OneThing
  <2>2. c.text # <<"args">>
    <3>1. ASSUME c.text = <<"args">> PROVE FALSE
      <4>1. c.text[1] = "args" /\ 1 \in 1 .. Len(c.text)
        BY <3>1
      <4>2. "args" \in Texts
        BY <2>1, <4>1
      <4> QED
        BY <4>2 DEF Texts
    <3> QED
      BY <3>1
  <2> QED
    BY <1>3, <2>2 DEF Spoken, Plainly
<1> QED
  BY <1>2, <1>3 DEF Spoken, Plainly

\* The Responses client is told the text of a chunk.
LEMMA FeedTells ==
    ASSUME NEW r, ItemsTyped(r), Created(r), NEW c, OneThing(c)
    PROVE  ToFeed(Converted(r, c).events, Spoken(c))
<1> DEFINE speaks == c.content /\ c.text # <<>>
           called == c.tool # NoTool
           s == Moved(r, c)
           new == <<StepOf("created", "")>>
           end == MessageDone(s) \o <<StepOf("completed", "")>>
           t == Spoken(c)
           u == IF c.content THEN t ELSE <<>>
           v == IF called THEN t ELSE <<>>
           thinks == Reasoned(r)
           texts == Texted(r, c.text)
           calls == Called(r, c.tool, c.text)
<1>1. Converted(r, c).events
        = (((When(~r.started, new) \o When(c.reasoning, thinks))
            \o When(speaks, texts)) \o When(called, calls)) \o When(c.done, end)
  BY DEF Converted, Moved
<1>2. /\ c.content \in BOOLEAN /\ c.reasoning \in BOOLEAN /\ c.done \in BOOLEAN
      /\ c.tool \in AnyTool /\ c.text \in AnyText
      /\ c.content => c.tool = NoTool
      /\ (~r.started) \in BOOLEAN
  BY ChunkFields DEF OneThing, ItemsTyped
<1>3. ItemsTyped(s)
  BY ChunkMoves
<1>4. ToFeed(new, <<>>) /\ ToFeed(thinks, <<>>)
  BY StepNames, SilentStep, ReasonedTells
<1>5. speaks => ToFeed(texts, u)
  BY <1>2, TextedTells, SpokenIs
<1>6. ~speaks => u = <<>>
  BY SpokenIs
<1>7. called => ToFeed(calls, v)
  BY <1>2, CalledTells, SpokenIs
<1>8. ToFeed(end, <<>>)
  <2>1. ToFeed(MessageDone(s), <<>>) /\ ToFeed(<<StepOf("completed", "")>>, <<>>)
    BY <1>3, StepNames, SilentStep, DoneTells
  <2> QED
    BY <2>1, FeedBeside
<1>9. called \in BOOLEAN /\ speaks \in BOOLEAN /\ (~called => v = <<>>)
  BY <1>2
<1>10. (u = t /\ v = <<>>) \/ (u = <<>> /\ v = t)
  BY <1>2, SpokenIs
<1> HIDE DEF speaks, called, new, end, t, u, v, thinks, texts, calls, s
<1>11. /\ ToFeed(When(~r.started, new), <<>>) /\ ToFeed(When(c.reasoning, thinks), <<>>)
       /\ ToFeed(When(c.done, end), <<>>)
  BY <1>2, <1>4, <1>8, FeedWhen
<1>12. ToFeed(When(speaks, texts), u)
  BY <1>5, <1>6, <1>9, FeedWhen
<1>13. ToFeed(When(called, calls), v)
  BY <1>7, <1>9, FeedWhen
<1> DEFINE a == When(~r.started, new) \o When(c.reasoning, thinks)
           b == a \o When(speaks, texts)
           d == b \o When(called, calls)
<1>14. ToFeed(a, <<>>)
  BY <1>11, FeedBeside
<1> HIDE DEF a
<1>15. ToFeed(b, u)
  BY <1>12, <1>14, FeedBeside
<1> HIDE DEF b
<1>16. ToFeed(d, t)
  BY <1>10, <1>13, <1>15, FeedBeside
<1> HIDE DEF d
<1>17. ToFeed(d \o When(c.done, end), t)
  BY <1>11, <1>16, FeedBeside
<1> QED
  BY <1>1, <1>17 DEF a, b, d, t

\* The client of an emulated stream is told the text of a chunk.
LEMMA LinesTell ==
    ASSUME NEW c, OfKind(c, FALSE), sentRole \in BOOLEAN
    PROVE  ToLines(Written(c), Spoken(c))
<1> DEFINE types == {"content", "tool_call"}
           one(type) == <<LineOf(type)>>
           writes == c.content /\ c.text # <<>>
           called == c.tool # NoTool
           text == <<Line("content", NoTool, c.text)>>
           call == <<Line("tool_call", c.tool, c.text)>>
           end == <<LineOf("stop"), LineOf("[DONE]")>>
           t == Spoken(c)
           u == IF c.content THEN t ELSE <<>>
           v == IF called THEN t ELSE <<>>
<1>1. /\ OneThing(c) /\ c.tool \in {NoTool, Spelled} /\ c.text \in Seq(Texts)
      /\ c.content \in BOOLEAN /\ c.reasoning \in BOOLEAN /\ c.done \in BOOLEAN
      /\ c.content => c.tool = NoTool
      /\ (~sentRole) \in BOOLEAN
  BY ChunkFields DEF OfKind, OneThing
<1>2. c.text # <<"args">>
  <2>1. ASSUME c.text = <<"args">> PROVE FALSE
    <3>1. c.text[1] = "args" /\ 1 \in 1 .. Len(c.text)
      BY <2>1
    <3>2. "args" \in Texts
      BY <1>1, <3>1
    <3> QED
      BY <3>2 DEF Texts
  <2> QED
    BY <2>1
<1>3. Written(c) = (((When(~sentRole, one("role")) \o When(writes, text))
                      \o When(c.reasoning, one("reasoning")))
                      \o When(called, call)) \o When(c.done, end)
  BY DEF Written
<1>4. ASSUME NEW type \in LineTypes \ types
      PROVE  LineOf(type) \in Lines /\ Bit(LineOf(type), types) = <<>>
  BY <1>4, LineOfIs DEF Bit
<1>5. {"role", "reasoning", "stop", "[DONE]"} \subseteq LineTypes \ types
      /\ "content" \in LineTypes /\ "tool_call" \in LineTypes
  BY DEF LineTypes
<1>6. /\ Line("content", NoTool, c.text) \in Lines
      /\ Line("tool_call", c.tool, c.text) \in Lines
      /\ Bit(Line("content", NoTool, c.text), types) = c.text
      /\ Bit(Line("tool_call", c.tool, c.text), types) = c.text
  <2>1. NoTool \in {NoTool, Spelled}
    OBVIOUS
  <2>2. /\ Line("content", NoTool, c.text) \in Lines
        /\ Line("tool_call", c.tool, c.text) \in Lines
    BY <1>1, <1>5, <2>1, LineIs
  <2> QED
    BY <1>2, <2>2 DEF Bit, Line
<1> HIDE DEF types
<1>7. \A type \in LineTypes \ types : Speaks(Lines, types, one(type), <<>>)
  <2>1. \A e \in Lines : Speaks(Lines, types, <<e>>, Bit(e, types))
    BY LinesTextual, SpeaksOne
  <2> QED
    BY <1>4, <2>1
<1>8. Speaks(Lines, types, text, c.text) /\ Speaks(Lines, types, call, c.text)
  <2>1. \A e \in Lines : Speaks(Lines, types, <<e>>, Bit(e, types))
    BY LinesTextual, SpeaksOne
  <2> QED
    BY <1>6, <2>1
<1>9. Speaks(Lines, types, end, <<>>)
  <2>1. LineOf("stop") \in Lines /\ LineOf("[DONE]") \in Lines
    BY <1>4, <1>5
  <2>2. end = one("stop") \o one("[DONE]")
    BY <2>1, Pair
  <2>3. Speaks(Lines, types, one("stop") \o one("[DONE]"), <<>>)
    <3>1. Speaks(Lines, types, one("stop"), <<>>) /\ Speaks(Lines, types, one("[DONE]"), <<>>)
      BY <1>5, <1>7
    <3> HIDE DEF one
    <3> QED
      BY <3>1, LinesTextual, SpeaksBeside
  <2> QED
    BY <2>2, <2>3
<1>10. /\ writes => u = c.text
       /\ ~writes => u = <<>>
       /\ called => v = c.text
       /\ ~called => v = <<>>
       /\ (u = t /\ v = <<>>) \/ (u = <<>> /\ v = t)
  BY <1>1, <1>2, SpokenIs DEF Plainly
<1>11. writes \in BOOLEAN /\ called \in BOOLEAN
  BY <1>1
<1>12. Speaks(Lines, types, one("role"), <<>>) /\ Speaks(Lines, types, one("reasoning"), <<>>)
  BY <1>5, <1>7
<1> DEFINE none == ~sentRole
<1>13. none \in BOOLEAN
  BY <1>1
<1> HIDE DEF one, writes, called, text, call, end, t, u, v, none
<1> DEFINE a1 == When(none, one("role"))
           a2 == When(writes, text)
           a3 == When(c.reasoning, one("reasoning"))
           a4 == When(called, call)
           a5 == When(c.done, end)
<1>14. /\ Speaks(Lines, types, a1, <<>>)
       /\ Speaks(Lines, types, a3, <<>>)
       /\ Speaks(Lines, types, a5, <<>>)
  BY <1>1, <1>9, <1>12, <1>13, LinesTextual, SpeaksWhen
<1>15. Speaks(Lines, types, a2, u)
  BY <1>8, <1>10, <1>11, LinesTextual, SpeaksWhen
<1>16. Speaks(Lines, types, a4, v)
  BY <1>8, <1>10, <1>11, LinesTextual, SpeaksWhen
<1>17. Written(c) = (((a1 \o a2) \o a3) \o a4) \o a5
  BY <1>3 DEF none
<1> HIDE DEF a1, a2, a3, a4, a5
<1>18. Speaks(Lines, types, a1 \o a2, u)
  BY <1>14, <1>15, LinesTextual, SpeaksBeside
<1>19. Speaks(Lines, types, (a1 \o a2) \o a3, u)
  BY <1>14, <1>18, LinesTextual, SpeaksBeside
<1>20. Speaks(Lines, types, ((a1 \o a2) \o a3) \o a4, t)
  BY <1>10, <1>16, <1>19, LinesTextual, SpeaksBeside
<1>21. Speaks(Lines, types, Written(c), t)
  BY <1>14, <1>17, <1>20, LinesTextual, SpeaksBeside
<1> QED
  BY <1>21 DEF ToLines, types, t

-----------------------------------------------------------------------------
(* What is left out.                                                       *)

\* Place p is left out beside the call told at i, or beyond others that are.
Beside(f, T, i, p) ==
    /\ T[i] = "call" /\ T[i + 1] = "tail" /\ f[i + 1] = f[i] + 1
    /\ \A k \in 1 .. Len(T) : /\ ~(p < f[k] /\ f[k] < f[i])
                              /\ ~(f[i + 1] < f[k] /\ f[k] < p)

\* T is what was said in S, at the places f, but for what stood around calls.
Cutting(f, T, S) ==
    /\ f \in [1 .. Len(T) -> 1 .. Len(S)]
    /\ \A i \in 1 .. Len(T) : T[i] = S[f[i]]
    /\ \A i, j \in 1 .. Len(T) : i < j => f[i] < f[j]
    /\ \A p \in 1 .. Len(S) : (\A i \in 1 .. Len(T) : f[i] # p) =>
          \E i \in 1 .. Len(T) - 1 : Beside(f, T, i, p)

CutOut(T, S) ==
    T \in Seq(Texts) /\ S \in Seq(Texts) /\ \E f : Cutting(f, T, S)

\* Nothing is left out.
LEMMA CutNothing ==
    ASSUME NEW S \in Seq(Texts)
    PROVE  CutOut(S, S)
<1> DEFINE f == [i \in 1 .. Len(S) |-> i]
<1>1. \A i \in 1 .. Len(S) : f[i] = i
  OBVIOUS
<1>2. f \in [1 .. Len(S) -> 1 .. Len(S)]
  OBVIOUS
<1> HIDE DEF f
<1>3. \A p \in 1 .. Len(S) : ~\A i \in 1 .. Len(S) : f[i] # p
  BY <1>1
<1>4. Cutting(f, S, S)
  BY <1>1, <1>2, <1>3 DEF Cutting
<1> QED
  BY <1>4 DEF CutOut

\* Everything is left out but a call.
LEMMA CutToCall ==
    ASSUME NEW S \in Seq(Texts), NEW n \in 1 .. Len(S), n + 1 \in 1 .. Len(S),
           S[n] = "call", S[n + 1] = "tail"
    PROVE  CutOut(<<"call", "tail">>, S)
<1> DEFINE T == <<"call", "tail">>
           f == [i \in 1 .. 2 |-> IF i = 1 THEN n ELSE n + 1]
<1>1. T \in Seq(Texts) /\ Len(T) = 2 /\ T[1] = "call" /\ T[2] = "tail"
  BY DEF Texts
<1>2. f \in [1 .. 2 -> 1 .. Len(S)] /\ f[1] = n /\ f[2] = n + 1
  OBVIOUS
<1>3. \A i \in 1 .. 2 : i = 1 \/ i = 2
  OBVIOUS
<1> HIDE DEF T, f
<1>4. ASSUME NEW p \in 1 .. Len(S)
      PROVE  Beside(f, T, 1, p)
  <2>1. \A k \in 1 .. 2 : /\ ~(p < f[k] /\ f[k] < f[1])
                          /\ ~(f[1 + 1] < f[k] /\ f[k] < p)
    BY <1>2, <1>3
  <2> QED
    BY <1>1, <1>2, <2>1 DEF Beside
<1>5. Cutting(f, T, S)
  <2>1. \A i \in 1 .. 2 : T[i] = S[f[i]]
    BY <1>1, <1>2, <1>3
  <2>2. \A i, j \in 1 .. 2 : i < j => f[i] < f[j]
    BY <1>2, <1>3
  <2>3. 1 \in 1 .. Len(T) - 1
    BY <1>1
  <2> QED
    BY <1>1, <1>2, <1>4, <2>1, <2>2, <2>3 DEF Cutting
<1> QED
  BY <1>1, <1>5 DEF CutOut, T

\* What is left out of two portions is left out of both together.
LEMMA CutTwice ==
    ASSUME NEW T, NEW S, NEW U, NEW R, CutOut(T, S), CutOut(U, R)
    PROVE  CutOut(T \o U, S \o R)
<1> DEFINE m == Len(T)
           n == Len(U)
           a == Len(S)
           b == Len(R)
           V == T \o U
           W == S \o R
<1>1. T \in Seq(Texts) /\ S \in Seq(Texts) /\ U \in Seq(Texts) /\ R \in Seq(Texts)
  BY DEF CutOut
<1>2. m \in Nat /\ n \in Nat /\ a \in Nat /\ b \in Nat
  BY <1>1
<1>3. /\ V \in Seq(Texts) /\ Len(V) = m + n
      /\ \A i \in 1 .. m : V[i] = T[i]
      /\ \A i \in 1 .. n : V[m + i] = U[i]
  BY <1>1, Joined
<1>4. /\ W \in Seq(Texts) /\ Len(W) = a + b
      /\ \A i \in 1 .. a : W[i] = S[i]
      /\ \A i \in 1 .. b : W[a + i] = R[i]
  BY <1>1, Joined
<1>5. PICK f : Cutting(f, T, S)
  BY DEF CutOut
<1>6. PICK g : Cutting(g, U, R)
  BY DEF CutOut
<1> HIDE DEF m, n, a, b, V, W
<1>7. /\ \A i \in 1 .. m : f[i] \in 1 .. a /\ T[i] = S[f[i]]
      /\ \A i, j \in 1 .. m : i < j => f[i] < f[j]
  BY <1>5 DEF Cutting, m, a
<1>8. /\ \A i \in 1 .. n : g[i] \in 1 .. b /\ U[i] = R[g[i]]
      /\ \A i, j \in 1 .. n : i < j => g[i] < g[j]
  BY <1>6 DEF Cutting, n, b
<1> DEFINE h == [i \in 1 .. m + n |-> IF i <= m THEN f[i] ELSE a + g[i - m]]
<1>9. ASSUME NEW i \in 1 .. m + n
      PROVE  \/ i \in 1 .. m /\ h[i] = f[i]
             \/ i - m \in 1 .. n /\ i = m + (i - m) /\ h[i] = a + g[i - m]
  BY <1>2
<1>10. /\ \A i \in 1 .. m : i \in 1 .. m + n /\ h[i] = f[i]
       /\ \A i \in 1 .. n : m + i \in 1 .. m + n /\ h[m + i] = a + g[i]
  <2>1. ASSUME NEW i \in 1 .. m PROVE i \in 1 .. m + n /\ h[i] = f[i]
    BY <1>2
  <2>2. ASSUME NEW i \in 1 .. n PROVE m + i \in 1 .. m + n /\ h[m + i] = a + g[i]
    <3>1. m + i \in 1 .. m + n /\ ~(m + i <= m) /\ (m + i) - m = i
      BY <1>2
    <3> QED
      BY <3>1
  <2> QED
    BY <2>1, <2>2
<1>11. h \in [1 .. m + n -> 1 .. a + b]
  <2>1. ASSUME NEW i \in 1 .. m + n PROVE h[i] \in 1 .. a + b
    <3>1. CASE i \in 1 .. m /\ h[i] = f[i]
      BY <1>2, <1>7, <3>1
    <3>2. CASE i - m \in 1 .. n /\ h[i] = a + g[i - m]
      <4>1. g[i - m] \in 1 .. b
        BY <1>8, <3>2
      <4> QED
        BY <1>2, <3>2, <4>1
    <3> QED
      BY <1>9, <3>1, <3>2
  <2>2. h = [i \in 1 .. m + n |-> h[i]]
    OBVIOUS
  <2> HIDE DEF h
  <2> QED
    BY <2>1, <2>2
<1> HIDE DEF h
<1>12. ASSUME NEW i \in 1 .. m + n PROVE V[i] = W[h[i]]
  <2>1. CASE i \in 1 .. m /\ h[i] = f[i]
    BY <1>3, <1>4, <1>7, <2>1
  <2>2. CASE i - m \in 1 .. n /\ i = m + (i - m) /\ h[i] = a + g[i - m]
    <3>1. V[i] = U[i - m] /\ U[i - m] = R[g[i - m]] /\ g[i - m] \in 1 .. b
      BY <1>3, <1>8, <2>2
    <3> QED
      BY <1>4, <2>2, <3>1
  <2> QED
    BY <1>9, <2>1, <2>2
<1>13. ASSUME NEW i \in 1 .. m + n, NEW j \in 1 .. m + n, i < j
       PROVE  h[i] < h[j]
  <2>1. CASE i \in 1 .. m /\ j \in 1 .. m
    BY <1>7, <1>10, <1>13, <2>1
  <2>2. CASE i \in 1 .. m /\ j - m \in 1 .. n
    <3>1. h[i] \in 1 .. a /\ h[j] = a + g[j - m] /\ g[j - m] \in 1 .. b
      <4>1. j = m + (j - m)
        BY <1>2
      <4>2. h[m + (j - m)] = a + g[j - m]
        BY <1>10, <2>2
      <4> QED
        BY <1>7, <1>8, <1>10, <2>2, <4>1, <4>2
    <3> QED
      BY <1>2, <3>1
  <2>3. CASE i - m \in 1 .. n /\ j - m \in 1 .. n
    <3>1. i = m + (i - m) /\ j = m + (j - m) /\ i - m < j - m
      BY <1>2, <1>13
    <3>2. h[m + (i - m)] = a + g[i - m] /\ h[m + (j - m)] = a + g[j - m]
      BY <1>10, <2>3
    <3>3. g[i - m] < g[j - m] /\ g[i - m] \in 1 .. b /\ g[j - m] \in 1 .. b
      BY <1>8, <2>3, <3>1
    <3> QED
      BY <1>2, <3>1, <3>2, <3>3
  <2>4. (i \in 1 .. m \/ i - m \in 1 .. n) /\ (j \in 1 .. m \/ j - m \in 1 .. n)
    BY <1>9
  <2>5. i - m \in 1 .. n /\ j \in 1 .. m => FALSE
    BY <1>2, <1>13
  <2> QED
    BY <2>1, <2>2, <2>3, <2>4, <2>5
<1>14. ASSUME NEW p \in 1 .. a + b, \A i \in 1 .. m + n : h[i] # p
       PROVE  \E i \in 1 .. (m + n) - 1 : Beside(h, V, i, p)
  <2>1. CASE p \in 1 .. a
    <3>1. \A i \in 1 .. m : f[i] # p
      BY <1>10, <1>14
    <3>2. PICK i \in 1 .. m - 1 : Beside(f, T, i, p)
      BY <1>5, <2>1, <3>1 DEF Cutting, m, a
    <3>3. i \in 1 .. (m + n) - 1 /\ i \in 1 .. m /\ i + 1 \in 1 .. m
      BY <1>2
    <3>4. h[i] = f[i] /\ h[i + 1] = f[i + 1] /\ V[i] = T[i] /\ V[i + 1] = T[i + 1]
      BY <1>3, <1>10, <3>3
    <3>5. ASSUME NEW k \in 1 .. m + n
          PROVE  ~(p < h[k] /\ h[k] < h[i]) /\ ~(h[i + 1] < h[k] /\ h[k] < p)
      <4>1. CASE k \in 1 .. m /\ h[k] = f[k]
        <5>1. ~(p < f[k] /\ f[k] < f[i]) /\ ~(f[i + 1] < f[k] /\ f[k] < p)
          BY <3>2, <4>1 DEF Beside, m
        <5> QED
          BY <3>4, <4>1, <5>1
      <4>2. CASE k - m \in 1 .. n /\ h[k] = a + g[k - m]
        <5>1. g[k - m] \in 1 .. b /\ h[i] \in 1 .. a
          BY <1>7, <1>8, <3>3, <3>4, <4>2
        <5> QED
          BY <1>2, <2>1, <4>2, <5>1
      <4> QED
        BY <1>9, <4>1, <4>2
    <3>6. V[i] = "call" /\ V[i + 1] = "tail" /\ h[i + 1] = h[i] + 1
      BY <3>2, <3>4 DEF Beside
    <3> QED
      BY <1>3, <3>3, <3>5, <3>6 DEF Beside
  <2>2. CASE p - a \in 1 .. b
    <3> DEFINE q == p - a
    <3>1. p = a + q /\ q \in 1 .. b
      BY <1>2, <2>2
    <3> HIDE DEF q
    <3>2. ASSUME NEW i \in 1 .. n PROVE g[i] # q
      <4>1. m + i \in 1 .. m + n /\ h[m + i] = a + g[i]
        BY <1>10
      <4> QED
        BY <1>14, <3>1, <4>1
    <3>3. PICK i \in 1 .. n - 1 : Beside(g, U, i, q)
      BY <1>6, <3>1, <3>2 DEF Cutting, n, b
    <3>4. /\ m + i \in 1 .. (m + n) - 1 /\ i \in 1 .. n /\ i + 1 \in 1 .. n
          /\ (m + i) + 1 = m + (i + 1)
      BY <1>2
    <3>5. h[m + i] = a + g[i] /\ h[(m + i) + 1] = a + g[i + 1]
      BY <1>10, <3>4
    <3>6. V[m + i] = U[i] /\ V[(m + i) + 1] = U[i + 1]
      BY <1>3, <3>4
    <3>7. g[i] \in 1 .. b /\ g[i + 1] \in 1 .. b
      BY <1>8, <3>4
    <3>8. ASSUME NEW k \in 1 .. m + n
          PROVE  ~(p < h[k] /\ h[k] < h[m + i]) /\ ~(h[(m + i) + 1] < h[k] /\ h[k] < p)
      <4>1. CASE k \in 1 .. m /\ h[k] = f[k]
        <5>1. f[k] \in 1 .. a
          BY <1>7, <4>1
        <5> QED
          BY <1>2, <3>1, <3>5, <3>7, <4>1, <5>1
      <4>2. CASE k - m \in 1 .. n /\ h[k] = a + g[k - m]
        <5>1. g[k - m] \in 1 .. b
          BY <1>8, <4>2
        <5>2. ~(q < g[k - m] /\ g[k - m] < g[i]) /\ ~(g[i + 1] < g[k - m] /\ g[k - m] < q)
          BY <3>3, <4>2 DEF Beside, n
        <5> QED
          BY <1>2, <3>1, <3>5, <3>7, <4>2, <5>1, <5>2
      <4> QED
        BY <1>9, <4>1, <4>2
    <3>9. U[i] = "call" /\ U[i + 1] = "tail" /\ g[i + 1] = g[i] + 1
      BY <3>3 DEF Beside
    <3>10. h[(m + i) + 1] = h[m + i] + 1
      BY <1>2, <3>5, <3>7, <3>9
    <3> QED
      BY <1>3, <3>4, <3>6, <3>8, <3>9, <3>10 DEF Beside
  <2> QED
    BY <1>2, <2>1, <2>2
<1>15. Cutting(h, V, W)
  BY <1>3, <1>4, <1>11, <1>12, <1>13, <1>14 DEF Cutting
<1> QED
  BY <1>3, <1>4, <1>15 DEF CutOut, V, W

\* The calls in what is told are those the property asks for.
LEMMA CutIsAround ==
    ASSUME NEW S \in Seq(Texts), NEW T, CutOut(T, S)
    PROVE  ButAround(T, S)
<1>1. T \in Seq(Texts) /\ DOMAIN T = 1 .. Len(T) /\ DOMAIN S = 1 .. Len(S)
  BY DEF CutOut
<1>2. PICK f : Cutting(f, T, S)
  BY DEF CutOut
<1>3. ASSUME NEW p \in DOMAIN S, \A i \in DOMAIN T : f[i] # p
      PROVE  \E i \in 1 .. Len(T) - 1 :
                  /\ T[i] = "call" /\ T[i + 1] = "tail" /\ f[i + 1] = f[i] + 1
                  /\ \A k \in DOMAIN T : /\ ~(p < f[k] /\ f[k] < f[i])
                                         /\ ~(f[i + 1] < f[k] /\ f[k] < p)
  BY <1>1, <1>2, <1>3 DEF Cutting, Beside
<1>4. /\ f \in [DOMAIN T -> DOMAIN S]
      /\ \A i \in DOMAIN T : T[i] = S[f[i]]
      /\ \A i, j \in DOMAIN T : i < j => f[i] < f[j]
  BY <1>1, <1>2 DEF Cutting
<1> QED
  BY <1>3, <1>4 DEF ButAround

-----------------------------------------------------------------------------
(* The blocks an Anthropic client was told of.                             *)

Starts(w) == {e \in Elements(w) : e.type = "start"}

\* A call that was spelled out has a block.
Spells(w) == \E e \in Starts(w) : e.tool = Spelled

LEMMA AnnouncedIs ==
    ASSUME wire \in Seq(Events)
    PROVE  Announced <=> Spells(wire)
<1> HIDE DEF Events
<1>1. DOMAIN wire = 1 .. Len(wire)
  OBVIOUS
<1>2. ASSUME Announced PROVE Spells(wire)
  <2>1. PICK i \in Positions("start") : wire[i].tool = Spelled
    BY <1>2 DEF Announced
  <2>2. wire[i] \in Starts(wire)
    BY <1>1, <2>1 DEF Positions, Starts, Elements
  <2> QED
    BY <2>1, <2>2 DEF Spells
<1>3. ASSUME Spells(wire) PROVE Announced
  <2>1. PICK i \in 1 .. Len(wire) : wire[i].type = "start" /\ wire[i].tool = Spelled
    BY <1>3 DEF Spells, Starts, Elements
  <2> QED
    BY <1>1, <2>1 DEF Announced, Positions
<1> QED
  BY <1>2, <1>3

LEMMA StartsMore ==
    ASSUME NEW w \in Seq(Events), NEW e \in Events
    PROVE  /\ e.type # "start" => Starts(Append(w, e)) = Starts(w)
           /\ Elements(Append(w, e)) = Elements(w) \cup {e}
<1> HIDE DEF Events
<1>1. Append(w, e) = w \o <<e>> /\ <<e>> \in Seq(Events)
  BY JoinedOne
<1>2. Gathered(w, <<e>>)
  BY <1>1, Gathering, Zenon
<1>3. Elements(<<e>>) = {e}
  BY OneElement, Zenon
<1>4. Elements(Append(w, e)) = Elements(w) \cup {e}
  BY <1>1, <1>2, <1>3 DEF Gathered
<1>5. e.type # "start" => Starts(Append(w, e)) = Starts(w)
  BY <1>4, Zenon DEF Starts
<1> QED
  BY <1>4, <1>5

\* What the Anthropic serializer makes of what is passed on.
Serializes(v) ==
    \/ out' = <<>> /\ v = wire
    \/ \E d, starts : /\ out' = <<d>> /\ OfKind(d, native)
                      /\ v \in Seq(Events)
                      /\ Told(v, {"delta"}) = Told(wire, {"delta"}) \o Spoken(d)
                      /\ Starts(v) = Starts(wire) \cup starts
                      /\ Started(Reopened(d), d, starts)

LEMMA WireTells ==
    ASSUME Base, Yield(out', native)
    PROVE  Serializes(wire \o Serialized(out'))
<1>1. ser \in SerStates /\ wire \in Seq(Events)
  BY DEF Base, Writes, Single, SerStates, Book
<1>2. CASE out' = <<>>
  <2>1. Serialized(out') = <<>>
    BY <1>2 DEF Serialized
  <2>2. wire \o <<>> = wire
    BY <1>1, JoinedNone
  <2> QED
    BY <1>2, <2>1, <2>2 DEF Serializes
<1>3. CASE out' # <<>>
  <2>1. PICK d : out' = <<d>> /\ OfKind(d, native)
    BY <1>3 DEF Yield
  <2> DEFINE nc == NeedsClose(ser, d)
             r == IF nc THEN Closed(ser) ELSE ser
             es == When(nc, Closing(ser)) \o Emitted(r, d)
  <2>2. Serialized(out') = es /\ r = Reopened(d)
    BY <1>3, <2>1 DEF Serialized, Reopened
  <2>3. OneThing(d)
    BY <2>1 DEF OfKind
  <2>4. PICK starts : Tell(es, Spoken(d), starts) /\ Started(r, d, starts)
    BY <1>1, <2>3, ChunkTells
  <2> HIDE DEF nc, r, es, Events
  <2>5. es \in Seq(Events) /\ Told(es, {"delta"}) = Spoken(d) /\ Starts(es) = starts
    BY <2>4 DEF Tell, Starts
  <2> DEFINE v == wire \o es
  <2>6. v \in Seq(Events)
    BY <1>1, <2>5, Joined
  <2>7. Told(v, {"delta"}) = Told(wire, {"delta"}) \o Spoken(d)
    <3>1. Told(v, {"delta"}) = Told(wire, {"delta"}) \o Told(es, {"delta"})
      BY <1>1, <2>5, EventsTextual, ToldJoined
    <3> QED
      BY <2>5, <3>1
  <2>8. Elements(v) = Elements(wire) \cup Elements(es)
    <3>1. Gathered(wire, es)
      BY <1>1, <2>5, Gathering, Zenon
    <3> QED
      BY <2>5, <3>1 DEF Gathered
  <2>9. Starts(v) = Starts(wire) \cup starts
    BY <2>5, <2>8 DEF Starts
  <2> HIDE DEF v
  <2>10. Serializes(v)
    BY <2>1, <2>2, <2>4, <2>6, <2>7, <2>9 DEF Serializes
  <2> QED
    BY <2>2, <2>10 DEF v
<1> QED
  BY <1>2, <1>3

\* A step, as the text and the blocks of an Anthropic client have it.
WireStep ==
    \/ Parses /\ Transform /\ Serializes(wire')
    \/ /\ ReportsError \/ Breaks
       /\ Transform
       /\ wire' = Append(wire, MessageEvent("error"))
    \/ /\ Closes /\ TransformEnd
       /\ \E v : /\ Serializes(v)
                 /\ wire' = IF emu'.broken THEN v
                            ELSE Append(v, MessageEvent("message_stop"))

LEMMA WireStepIs ==
    ASSUME Base, Next
    PROVE  WireStep
<1>1. Yield(out', native)
  BY StepsYield
<1>2. Serializes(wire \o Serialized(out'))
  BY <1>1, WireTells
<1>3. CASE Parses /\ Transform /\ AnthropicChunk
  BY <1>2, <1>3 DEF WireStep, AnthropicChunk
<1>4. CASE (ReportsError \/ Breaks) /\ Transform /\ AnthropicError
  BY <1>4 DEF WireStep, AnthropicError
<1>5. CASE Closes /\ TransformEnd /\ AnthropicEnd
  <2> DEFINE v == wire \o Serialized(out')
             e == MessageEvent("message_stop")
  <2>1. wire' = v \o When(~emu'.broken, <<e>>)
    BY <1>5 DEF AnthropicEnd
  <2>2. v \in Seq(Events)
    BY <1>2 DEF Serializes, Base, Writes, Book
  <2>3. e \in Events
    <3>1. 0 \in Nat /\ "message_stop" \in EventTypes
      BY DEF EventTypes
    <3> QED
      BY <3>1, BlockEventIs DEF IsEvent, MessageEvent
  <2>4. emu'.broken \in BOOLEAN
    <3>1. EmulationInv'
      BY StepsYield
    <3> QED
      BY <3>1 DEF EmulationInv
  <2>5. Serializes(v)
    BY <1>2
  <2> HIDE DEF v, e, Events
  <2>6. wire' = IF emu'.broken THEN v ELSE Append(v, e)
    <3>1. CASE emu'.broken
      <4>1. When(~emu'.broken, <<e>>) = <<>>
        BY <3>1 DEF When
      <4>2. v \o <<>> = v
        BY <2>2, JoinedNone
      <4> QED
        BY <2>1, <3>1, <4>1, <4>2
    <3>2. CASE ~emu'.broken
      <4>1. When(~emu'.broken, <<e>>) = <<e>>
        BY <3>2 DEF When
      <4>2. v \o <<e>> = Append(v, e)
        BY <2>2, <2>3, JoinedOne
      <4> QED
        BY <2>1, <3>2, <4>1, <4>2
    <3> QED
      BY <3>1, <3>2
  <2> QED
    BY <1>5, <2>5, <2>6 DEF WireStep, e
<1> QED
  BY <1>3, <1>4, <1>5 DEF Next

\* Without the tools, a call's block is of a call that was spelled out.
StartsInv == ~native => \A e \in Starts(wire) : e.kind = "tool_use" => e.tool = Spelled

LEMMA StartsInit ==
    ASSUME Init
    PROVE  StartsInv
<1>1. wire = <<MessageEvent("message_start")>>
  BY DEF Init, AnthropicInit
<1>2. Elements(wire) = {MessageEvent("message_start")}
  BY <1>1, OneElement
<1>3. MessageEvent("message_start").type = "message_start"
  BY DEF MessageEvent, BlockEvent, Event
<1> QED
  BY <1>2, <1>3 DEF StartsInv, Starts

\* A message's events start no block.
LEMMA MessageEventIs ==
    ASSUME NEW type \in {"message_start", "error", "message_stop"}
    PROVE  LET e == MessageEvent(type)
           IN  e \in Events /\ e.type = type /\ Bit(e, {"delta"}) = <<>>
<1>1. 0 \in Nat /\ type \in EventTypes
  BY DEF EventTypes
<1>2. IsEvent(MessageEvent(type), type, 0, "", NoTool, <<>>)
  BY <1>1, BlockEventIs DEF MessageEvent
<1> QED
  BY <1>2 DEF IsEvent, Bit

\* After a step the blocks are those before it and those of the chunk that was
\* passed on, and so is the text.
WireGrows ==
    \/ /\ out' = <<>>
       /\ Starts(wire') = Starts(wire)
       /\ Told(wire', {"delta"}) = Told(wire, {"delta"})
    \/ \E d, starts : /\ out' = <<d>> /\ OfKind(d, native)
                      /\ Told(wire', {"delta"}) = Told(wire, {"delta"}) \o Spoken(d)
                      /\ Starts(wire') = Starts(wire) \cup starts
                      /\ Started(Reopened(d), d, starts)

LEMMA WireGrowing ==
    ASSUME Base, Next
    PROVE  WireGrows
<1>1. WireStep
  BY WireStepIs
<1>2. wire \in Seq(Events)
  BY DEF Base, Writes, Book
<1>3. \A w \in Seq(Events) : Told(w, {"delta"}) \o <<>> = Told(w, {"delta"})
  <2>1. \A w \in Seq(Events) : Told(w, {"delta"}) \in AnyText
    BY EventsTextual, ToldAppended
  <2> QED
    BY <2>1 DEF AnyText
<1> HIDE DEF Events
<1>4. ASSUME NEW w \in Seq(Events), NEW type \in {"error", "message_stop"}
      PROVE  /\ Starts(Append(w, MessageEvent(type))) = Starts(w)
             /\ Told(Append(w, MessageEvent(type)), {"delta"}) = Told(w, {"delta"})
  <2> DEFINE e == MessageEvent(type)
  <2>1. e \in Events /\ e.type # "start" /\ Bit(e, {"delta"}) = <<>>
    BY MessageEventIs
  <2> HIDE DEF e
  <2>2. Told(Append(w, e), {"delta"}) = Told(w, {"delta"}) \o <<>>
    BY <2>1, EventsTextual, ToldAppended
  <2>3. Starts(Append(w, e)) = Starts(w)
    BY <2>1, StartsMore
  <2> QED
    BY <1>3, <2>2, <2>3 DEF e
<1>5. CASE Serializes(wire')
  BY <1>5 DEF Serializes, WireGrows
<1>6. CASE /\ ReportsError \/ Breaks
           /\ Transform
           /\ wire' = Append(wire, MessageEvent("error"))
  <2>1. out' = <<>>
    BY <1>6 DEF Transform, ReportsError, Breaks
  <2> QED
    BY <1>2, <1>4, <1>6, <2>1 DEF WireGrows
<1>7. CASE \E v : /\ Serializes(v)
                  /\ wire' = IF emu'.broken THEN v
                             ELSE Append(v, MessageEvent("message_stop"))
  <2>1. PICK v : /\ Serializes(v)
                 /\ wire' = IF emu'.broken THEN v
                            ELSE Append(v, MessageEvent("message_stop"))
    BY <1>7
  <2>2. v \in Seq(Events)
    BY <1>2, <2>1 DEF Serializes
  <2>3. Starts(wire') = Starts(v) /\ Told(wire', {"delta"}) = Told(v, {"delta"})
    BY <1>4, <2>1, <2>2
  <2> QED
    BY <2>1, <2>3 DEF Serializes, WireGrows
<1> QED
  BY <1>1, <1>5, <1>6, <1>7 DEF WireStep

LEMMA StartsNext ==
    ASSUME Base, StartsInv, [Next]_vars
    PROVE  StartsInv'
<1>1. CASE UNCHANGED vars
  <2>1. wire' = wire /\ native' = native
    BY <1>1 DEF vars, anthropicVars, parserVars, upstreamVars
  <2> QED
    BY <2>1 DEF StartsInv, Starts, Elements
<1>2. CASE Next
  <2>1. WireGrows /\ native' = native /\ native \in BOOLEAN
    BY <1>2, WireGrowing, StepsYield
  <2> SUFFICES ASSUME ~native, NEW e \in Starts(wire'), e.kind = "tool_use"
               PROVE  e.tool = Spelled
    BY <2>1 DEF StartsInv
  <2>2. CASE e \in Starts(wire)
    BY <2>2 DEF StartsInv
  <2>3. CASE e \notin Starts(wire)
    <3>1. PICK d : OfKind(d, native) /\ StartOf(e, d)
      BY <2>1, <2>3 DEF WireGrows, Started
    <3> QED
      BY <3>1 DEF OfKind, StartOf
  <2> QED
    BY <2>2, <2>3
<1> QED
  BY <1>1, <1>2

\* A chunk with a call that was spelled out has a block in the end, of its own
\* or of another before it.
LEMMA CallSpells ==
    ASSUME Base, StartsInv, ~native, NEW d, NEW starts, OfKind(d, native),
           d.tool = Spelled, Started(Reopened(d), d, starts),
           Starts(wire') = Starts(wire) \cup starts
    PROVE  Spells(wire')
<1>1. Spelled # NoTool
  BY AssumedIs DEF Assumed, SseParserAssumption, Spelled, NoTool
<1>2. PICK o : Writes(ser, wire, o)
  BY DEF Base
<1>3. OneThing(d) /\ ~d.reasoning /\ ~d.content
  BY <1>1 DEF OfKind, OneThing
<1>4. CASE Reopened(d).needStart
  <2>1. starts # {} /\ \A e \in starts : StartOf(e, d)
    BY <1>1, <1>4 DEF Started
  <2> QED
    BY <1>1, <1>3, <2>1 DEF StartOf, Spells
<1>5. CASE ~Reopened(d).needStart
  <2>1. Single(ser) /\ ser \in SerStates
    BY <1>2 DEF Writes, Single, SerStates
  <2>2. ~NeedsClose(ser, d) /\ Reopened(d) = ser
    BY <1>5, <2>1, ClosedIs DEF Reopened
  <2>3. ser.tool /\ ~ser.needStart
    BY <1>1, <1>5, <2>1, <2>2 DEF NeedsClose, Single
  <2>4. /\ o # 0 /\ wire[o].kind = "tool_use" /\ wire[o].type = "start"
        /\ o \in 1 .. Len(wire)
    BY <1>2, <2>3 DEF Writes, Agrees, Book
  <2>5. wire[o] \in Starts(wire)
    BY <2>4 DEF Starts, Elements
  <2> QED
    BY <2>4, <2>5 DEF StartsInv, Spells
<1> QED
  BY <1>4, <1>5

-----------------------------------------------------------------------------
(* What the parser and the transform make of what is said.                 *)

\* The text that a step yields.
SpokenIn(s) == IF s = <<>> THEN <<>> ELSE Spoken(s[1])

\* What the upstream says has texts.
LEMMA UtteredTexts ==
    /\ Textual(Uttered)
    /\ \A e \in Uttered : /\ e.type \in {"content", "drowned"} /\ e.text \in Seq(Texts)
                          /\ e.text # <<"args">>
<1>1. "args" \notin Texts
  BY DEF Texts
<1> HIDE DEF Texts
<1>2. ASSUME NEW e \in Uttered
      PROVE  /\ e.type \in {"content", "drowned"} /\ e.text \in Seq(Texts)
             /\ e.text # <<"args">> /\ e.text \in AnyText
  <2>1. e.type \in {"content", "drowned"} /\ e.text \in Seq(Texts)
    BY DEF Uttered
  <2>2. ASSUME e.text = <<"args">> PROVE FALSE
    <3>1. Len(e.text) = 1 /\ e.text[1] = "args"
      BY <2>2
    <3>2. e.text[1] \in Texts
      BY <2>1, <3>1
    <3> QED
      BY <1>1, <3>1, <3>2
  <2>3. e.text \in Seq(Texts \cup {"args"})
    BY <2>1
  <2> QED
    BY <2>1, <2>2, <2>3 DEF AnyText
<1> QED
  BY <1>2 DEF Textual

\* What is said without reasoning is heard, and nothing else.
LEMMA HeardOn ==
    ASSUME NEW s \in Seq(Uttered), NEW e \in Uttered
    PROVE  Told(Append(s, e), {"content"})
             = Told(s, {"content"}) \o (IF e.type = "content" THEN e.text ELSE <<>>)
<1>1. Textual(Uttered) /\ e.text # <<"args">>
  BY UtteredTexts
<1>2. TellsOn(s, e, {"content"})
  BY <1>1, ToldOn, Zenon
<1>3. Bit(e, {"content"}) = IF e.type = "content" THEN e.text ELSE <<>>
  BY <1>1 DEF Bit
<1> QED
  BY <1>2, <1>3 DEF TellsOn

LEMMA HeardTyped ==
    ASSUME said \in Seq(Uttered)
    PROVE  Heard \in Seq(Texts)
<1> DEFINE told(u) == Told(u, {"content"})
           P == {n \in Nat : \A u \in Seq(Uttered) : Len(u) = n => told(u) \in Seq(Texts)}
<1> HIDE DEF Texts
<1>1. told(<<>>) = <<>>
  BY UtteredTexts, ToldAppended
<1>2. 0 \in P
  <2>1. ASSUME NEW u \in Seq(Uttered), Len(u) = 0 PROVE told(u) \in Seq(Texts)
    <3>1. u = <<>>
      BY <2>1
    <3>2. <<>> \in Seq(Texts)
      OBVIOUS
    <3> QED
      BY <1>1, <3>1, <3>2
  <2> QED
    BY <2>1
<1>3. ASSUME NEW n \in Nat \cap P PROVE n + 1 \in P
  <2>1. ASSUME NEW u \in Seq(Uttered), Len(u) = n + 1 PROVE told(u) \in Seq(Texts)
    <3>1. PICK s, e : s \in Seq(Uttered) /\ e \in Uttered /\ Len(s) = n /\ u = Append(s, e)
      <4>1. SubSeq(u, 1, n) \in Seq(Uttered) /\ u[n + 1] \in Uttered
            /\ Len(SubSeq(u, 1, n)) = n
        BY <2>1
      <4>2. u = Append(SubSeq(u, 1, n), u[n + 1])
        BY <2>1
      <4> QED
        BY <4>1, <4>2
    <3> DEFINE t == IF e.type = "content" THEN e.text ELSE <<>>
               T == told(s)
    <3>2. t \in Seq(Texts)
      BY <3>1, UtteredTexts
    <3>3. T \in Seq(Texts)
      BY <1>3, <3>1
    <3>4. told(u) = T \o t
      BY <3>1, HeardOn, Zenon
    <3> HIDE DEF t, T
    <3>5. T \o t \in Seq(Texts)
      BY <3>2, <3>3
    <3> QED
      BY <3>4, <3>5
  <2> QED
    BY <2>1
<1> HIDE DEF P
<1>4. Len(said) \in P
  <2>1. Len(said) \in Nat
    OBVIOUS
  <2> QED
    BY <1>2, <1>3, <2>1, InductionOnNat
<1> QED
  BY <1>4 DEF P, Heard

\* The text that was heard after a step.
LEMMA HeardNext ==
    ASSUME said \in Seq(Uttered)
    PROVE  /\ said = <<>> => Heard = <<>>
           /\ UNCHANGED said => Heard' = Heard
           /\ \A e \in Uttered : said' = Append(said, e) =>
                 Heard' = Heard \o (IF e.type = "content" THEN e.text ELSE <<>>)
<1>1. said = <<>> => Heard = <<>>
  BY UtteredTexts, ToldAppended DEF Heard
<1>2. UNCHANGED said => Heard' = Heard
  BY DEF Heard
<1>3. ASSUME NEW e \in Uttered, said' = Append(said, e)
      PROVE  Heard' = Heard \o (IF e.type = "content" THEN e.text ELSE <<>>)
  BY <1>3, HeardOn, Zenon DEF Heard
<1> QED
  BY <1>1, <1>2, <1>3

\* The parser's chunks have the text that was heard with them, and those without
\* text have none.
LEMMA ParsedSays ==
    ASSUME ParserInv, Parses
    PROVE  /\ Heard' = Heard \o SpokenIn(parsed')
           /\ SpokenIn(parsed') \in Seq(Texts)
           /\ parsed' # <<>> /\ parsed'[1].content => SpokenIn(parsed') = parsed'[1].text
           /\ parsed' # <<>> /\ ~parsed'[1].content => SpokenIn(parsed') = <<>>
<1> DEFINE Fine(c) == ~c.content /\ Spoken(c) = <<>>
<1>0. said \in Seq(Uttered)
  BY DEF ParserInv
<1>1. Heard \in Seq(Texts)
  BY <1>0, HeardTyped
<1>2. /\ Fine(ReasoningChunk)
      /\ \A done : Fine(Bare(done)) /\ Fine(Flushed(done))
  <2>1. Fine(ReasoningChunk)
    <3> SUFFICES ASSUME NEW c, c = ReasoningChunk PROVE Fine(c)
      OBVIOUS
    <3> QED
      BY DEF ReasoningChunk, Bare, Spoken
  <2>2. ASSUME NEW done PROVE Fine(Bare(done))
    <3> SUFFICES ASSUME NEW c, c = Bare(done) PROVE Fine(c)
      OBVIOUS
    <3> QED
      BY DEF Bare, Spoken
  <2>3. ASSUME NEW done PROVE Fine(Flushed(done))
    <3> SUFFICES ASSUME NEW c, c = Flushed(done) PROVE Fine(c)
      OBVIOUS
    <3>1. ~c.content /\ (c.text = <<"args">> \/ c.text = <<>>)
      BY DEF Flushed, Bare
    <3> QED
      BY <3>1 DEF Spoken
  <2> QED
    BY <2>1, <2>2, <2>3
<1> HIDE DEF Fine
<1>3. ASSUME Heard' = Heard, parsed' = <<>> \/ \E c : parsed' = <<c>> /\ Fine(c)
      PROVE  /\ Heard' = Heard \o SpokenIn(parsed')
             /\ SpokenIn(parsed') = <<>>
             /\ parsed' # <<>> => ~parsed'[1].content
  <2>1. Heard \o <<>> = Heard
    BY <1>1
  <2>2. parsed' # <<>> => ~parsed'[1].content /\ Spoken(parsed'[1]) = <<>>
    BY <1>3 DEF Fine
  <2> QED
    BY <1>3, <2>1, <2>2 DEF SpokenIn
<1>4. ASSUME NEW text \in Texts, Heard' = Heard \o <<text>>,
             parsed' = <<TextChunk(<<text>>, FALSE)>>
      PROVE  /\ Heard' = Heard \o SpokenIn(parsed')
             /\ SpokenIn(parsed') \in Seq(Texts)
             /\ parsed'[1].content /\ SpokenIn(parsed') = parsed'[1].text
  <2>1. ASSUME NEW c, c = TextChunk(<<text>>, FALSE)
        PROVE  c.content /\ c.text = <<text>>
    <3>1. \A any : TextChunk(any, FALSE).content /\ TextChunk(any, FALSE).text = any
      BY ChunksAre
    <3> QED
      BY <2>1, <3>1
  <2>2. parsed'[1] = TextChunk(<<text>>, FALSE) /\ parsed' # <<>>
    BY <1>4
  <2>3. parsed'[1].content /\ parsed'[1].text = <<text>>
    BY <2>1, <2>2
  <2>4. <<text>> # <<"args">>
    <3>1. ASSUME <<text>> = <<"args">> PROVE FALSE
      <4>1. text = "args"
        BY <3>1
      <4> QED
        BY <4>1 DEF Texts
    <3> QED
      BY <3>1
  <2>5. SpokenIn(parsed') = <<text>>
    BY <2>2, <2>3, <2>4 DEF SpokenIn, Spoken
  <2>6. <<text>> \in Seq(Texts)
    BY <1>4
  <2> QED
    BY <1>4, <2>3, <2>5, <2>6
<1>5. <<>> \in Seq(Texts)
  OBVIOUS
<1>6. CASE Reason
  <2> DEFINE e == [type |-> "drowned", text |-> <<"plain">>]
  <2>1. e \in Uttered /\ e.type # "content"
    BY DEF Uttered, Texts
  <2>2. UNCHANGED said \/ said' = Append(said, e)
    BY <1>6 DEF Reason
  <2>3. Heard \o <<>> = Heard
    BY <1>1
  <2> HIDE DEF e
  <2>4. Heard' = Heard
    BY <1>0, <2>1, <2>2, <2>3, HeardNext
  <2> QED
    BY <1>2, <1>3, <1>5, <1>6, <2>4 DEF Reason
<1>7. CASE Write
  <2>1. PICK text \in Texts :
            /\ said' = Append(said, [type |-> "content", text |-> <<text>>])
            /\ parsed' = <<TextChunk(<<text>>, FALSE)>>
    BY <1>7 DEF Write, Texts
  <2> DEFINE e == [type |-> "content", text |-> <<text>>]
  <2>2. e \in Uttered /\ e.type = "content" /\ e.text = <<text>>
    BY DEF Uttered
  <2>3. said' = Append(said, e)
    BY <2>1
  <2> HIDE DEF e
  <2>4. Heard' = Heard \o (IF e.type = "content" THEN e.text ELSE <<>>)
    BY <1>0, <2>2, <2>3, HeardNext
  <2>5. Heard' = Heard \o <<text>>
    BY <2>2, <2>4
  <2> QED
    BY <1>4, <2>1, <2>5
<1>9. UNCHANGED said => Heard' = Heard
  BY <1>0, HeardNext
<1>8. CASE ToolBegins
  <2>1. parsed' = <<>> \/ parsed' = <<Flushed(FALSE)>>
    BY <1>8 DEF ToolBegins, When
  <2>2. Heard' = Heard
    BY <1>8, <1>9 DEF ToolBegins
  <2> QED
    BY <1>2, <1>3, <1>5, <2>1, <2>2
<1>10. CASE ToolGoesOn
  BY <1>3, <1>5, <1>10, <1>9 DEF ToolGoesOn
<1>11. CASE Usage
  BY <1>2, <1>3, <1>5, <1>11, <1>9 DEF Usage
<1>12. CASE Done
  BY <1>2, <1>3, <1>5, <1>12, <1>9 DEF Done
<1>13. CASE FlushAtEnd
  BY <1>2, <1>3, <1>5, <1>13, <1>9 DEF FlushAtEnd
<1> QED
  BY <1>6, <1>7, <1>8, <1>9, <1>10, <1>11, <1>12, <1>13 DEF Parses

\* Of the portion R of what was said, chunk d has everything, or is a call that
\* stands in it.
Passed(d, R) ==
    \/ Spoken(d) = R
    \/ /\ d.tool = Spelled /\ Spoken(d) = <<"call", "tail">>
       /\ \E n \in 1 .. Len(R) : n + 1 \in 1 .. Len(R) /\ R[n] = "call" /\ R[n + 1] = "tail"

\* What a buffer becomes.
LEMMA UnbufferedSays ==
    ASSUME SseParserAssumption, NEW b \in Seq(Texts), NEW done \in BOOLEAN
    PROVE  Passed(Unbuffered(b, done), b)
<1>1. OneThing(Unbuffered(b, done))
  BY UnbufferedKind DEF OfKind
<1>2. CASE CallIn(b) = {}
  <2> SUFFICES ASSUME NEW c, c = TextChunk(b, done), OneThing(c) PROVE Spoken(c) = b
    BY <1>1, <1>2 DEF Unbuffered, Passed
  <2>1. c.content /\ c.text = b
    BY ChunksAre
  <2> QED
    BY <2>1, SpokenIs
<1>3. CASE CallIn(b) # {}
  <2>1. PICK i \in 1 .. Len(b) :
            /\ i + 1 \in 1 .. Len(b)
            /\ <<i, i + 1>> \in CallIn(b)
            /\ (CHOOSE ij \in CallIn(b) : TRUE) = <<i, i + 1>>
    BY <1>3, CallInIs
  <2>2. b[i] = "call" /\ b[i + 1] = "tail"
    BY <2>1 DEF CallIn, Closings
  <2> DEFINE s == SubSeq(b, i, i + 1)
             ij == CHOOSE ij \in CallIn(b) : TRUE
  <2>3. s = <<"call", "tail">>
    <3>1. s \in Seq(Texts) /\ Len(s) = 2 /\ s[1] = b[i] /\ s[2] = b[i + 1]
      BY <2>1
    <3>2. <<"call", "tail">> \in Seq(Texts) /\ Len(<<"call", "tail">>) = 2
      BY DEF Texts
    <3>3. \A k \in 1 .. 2 : k = 1 \/ k = 2
      OBVIOUS
    <3> HIDE DEF s
    <3>4. \A k \in 1 .. 2 : s[k] = <<"call", "tail">>[k]
      BY <2>2, <3>1, <3>3
    <3> QED
      BY <3>1, <3>2, <3>4, SameSeq
  <2>4. Unbuffered(b, done) = Call(Spelled, SubSeq(b, ij[1], ij[2]), done)
    BY <1>3 DEF Unbuffered, Call
  <2>5. ij[1] = i /\ ij[2] = i + 1
    <3>1. ij = <<i, i + 1>>
      BY <2>1
    <3> HIDE DEF ij
    <3> QED
      BY <3>1
  <2> HIDE DEF s, ij
  <2>6. Unbuffered(b, done) = Call(Spelled, <<"call", "tail">>, done)
    BY <2>3, <2>4, <2>5 DEF s
  <2> SUFFICES ASSUME NEW c, c = Call(Spelled, <<"call", "tail">>, done)
               PROVE  c.tool = Spelled /\ Spoken(c) = <<"call", "tail">>
    BY <2>1, <2>2, <2>6 DEF Passed
  <2>7. c.tool = Spelled /\ c.text = <<"call", "tail">> /\ Spelled # NoTool
    BY DEF Call, Bare, SseParserAssumption, Spelled, NoTool
  <2>8. <<"call", "tail">> # <<"args">>
    OBVIOUS
  <2> QED
    BY <2>7, <2>8 DEF Spoken
<1> QED
  BY <1>2, <1>3

\* The buffer is emptied into a chunk that has what was in it.
LEMMA FlushSays ==
    ASSUME SseParserAssumption, EmulationInv, NEW b \in Seq(Texts), NEW done \in BOOLEAN,
           Flush(b, done), ~emu'.broken
    PROVE  /\ emu'.buffer = <<>>
           /\ \E d : out' = <<d>> /\ d = Unbuffered(b, done) /\ Passed(d, b)
<1>1. emu \in [buffering : BOOLEAN, buffer : Seq(Texts), flushed : BOOLEAN,
               outgrown : BOOLEAN, broken : BOOLEAN]
  BY DEF EmulationInv
<1>2. ~Inverted(b)
  BY <1>1 DEF Flush
<1>3. emu'.buffer = <<>> /\ out' = <<Unbuffered(b, done)>>
  BY <1>1, <1>2 DEF Flush
<1> QED
  BY <1>3, UnbufferedSays

\* A step passes on the portion R of what was said.
Portion(R) ==
    /\ R \in Seq(Texts)
    /\ \/ out' = <<>> /\ R = <<>>
       \/ \E d : out' = <<d>> /\ Passed(d, R)

\* What is said is passed on or held back.
LEMMA TransformSays ==
    ASSUME Base, Parses, Transform, ~emu'.broken,
           NEW S \in Seq(Texts), Heard = S \o emu.buffer
    PROVE  \E R : Portion(R) /\ Heard' = (S \o R) \o emu'.buffer
<1>1. ParserInv /\ EmulationInv /\ SseParserAssumption
  BY AssumedIs DEF Base, Assumed
<1> DEFINE B == emu.buffer
           t == SpokenIn(parsed')
<1>2. B \in Seq(Texts) /\ (~emu.buffering => B = <<>>)
  BY <1>1 DEF EmulationInv
<1>3. Heard' = Heard \o t /\ t \in Seq(Texts)
  BY <1>1, ParsedSays
<1>4. parsed' = <<>> \/ \E c : parsed' = <<c>>
  <2>1. Yield(parsed', native')
    BY <1>1, ReadsTyped DEF Reads
  <2> QED
    BY <2>1 DEF Yield
<1>5. Heard' = S \o (B \o t) /\ B \o t \in Seq(Texts)
  <2> HIDE DEF B, t
  <2>1. Heard' = (S \o B) \o t
    BY <1>3 DEF B
  <2> QED
    BY <1>2, <1>3, <2>1, JoinedTwice
\* Nothing is passed on and b is held back, or everything is passed on.
<1>6. ASSUME NEW b, Heard' = S \o b, b \in Seq(Texts), emu'.buffer = b, out' = <<>>
      PROVE  \E R : Portion(R) /\ Heard' = (S \o R) \o emu'.buffer
  <2>1. S \o <<>> = S /\ <<>> \in Seq(Texts)
    OBVIOUS
  <2>2. Portion(<<>>) /\ Heard' = (S \o <<>>) \o emu'.buffer
    BY <1>6, <2>1 DEF Portion
  <2> QED
    BY <2>2
<1>7. ASSUME NEW R \in Seq(Texts), Heard' = S \o R, emu'.buffer = <<>>,
             NEW d, out' = <<d>>, Passed(d, R)
      PROVE  \E Q : Portion(Q) /\ Heard' = (S \o Q) \o emu'.buffer
  <2>1. (S \o R) \o <<>> = S \o R
    BY JoinedNone
  <2>2. Portion(R) /\ Heard' = (S \o R) \o emu'.buffer
    BY <1>7, <2>1 DEF Portion
  <2> QED
    BY <2>2
\* What has no text is passed on ahead of what is held back.
<1>8. ASSUME t = <<>>, emu'.buffer = B, out' = parsed'
      PROVE  \E R : Portion(R) /\ Heard' = (S \o R) \o emu'.buffer
  <2>1. B \o <<>> = B /\ S \o <<>> = S /\ <<>> \in Seq(Texts)
    BY <1>2
  <2>2. Heard' = (S \o <<>>) \o emu'.buffer
    <3> HIDE DEF B, t
    <3> QED
      BY <1>5, <1>8, <2>1
  <2>3. Portion(<<>>)
    <3>1. CASE parsed' = <<>>
      BY <1>8, <2>1, <3>1 DEF Portion
    <3>2. CASE parsed' # <<>>
      <4>1. PICK c : parsed' = <<c>> /\ parsed'[1] = c
        BY <1>4, <3>2
      <4>2. Spoken(c) = <<>>
        BY <1>8, <3>2, <4>1 DEF SpokenIn
      <4> QED
        BY <1>8, <2>1, <4>1, <4>2 DEF Portion, Passed
    <3> QED
      BY <3>1, <3>2
  <2> QED
    BY <2>2, <2>3
<1>9. CASE parsed' = <<>>
  <2>1. t = <<>> /\ emu' = emu /\ out' = parsed'
    BY <1>9 DEF SpokenIn, Transform
  <2> QED
    BY <1>8, <2>1
<1>10. CASE native /\ parsed' # <<>>
  <2>1. PICK c : parsed' = <<c>>
    BY <1>4, <1>10
  <2>2. emu' = emu /\ out' = <<c>> /\ B = <<>>
    BY <1>1, <1>2, <1>10, <2>1 DEF Transform, EmulationInv
  <2>3. B \o t = t
    <3> HIDE DEF t
    <3> QED
      BY <1>3, <2>2
  <2>4. Passed(c, t)
    BY <2>1 DEF Passed, SpokenIn
  <2> HIDE DEF t
  <2> QED
    BY <1>3, <1>5, <1>7, <2>2, <2>3, <2>4
<1>11. CASE ~native /\ parsed' # <<>>
  <2>1. PICK c : parsed' = <<c>> /\ parsed'[1] = c
    BY <1>4, <1>11
  <2>2. /\ c.content => t = c.text
        /\ ~c.content => t = <<>>
    BY <1>1, <1>11, <2>1, ParsedSays
  <2>3. CASE c.content
    <3>1. TakeText(c) /\ t = c.text
      BY <1>11, <2>1, <2>2, <2>3 DEF Transform
    <3>2. CASE emu.buffering
      <4> DEFINE b == B \o t
      <4>1. IF Len(b) > MaxBuffer THEN Flush(b, FALSE) ELSE Hold(b)
        BY <3>1, <3>2 DEF TakeText
      <4> HIDE DEF b
      <4>2. b \in Seq(Texts) /\ Heard' = S \o b
        BY <1>5 DEF b
      <4>3. CASE Len(b) > MaxBuffer
        <5>1. PICK d : out' = <<d>> /\ Passed(d, b) /\ emu'.buffer = <<>>
          BY <1>1, <4>1, <4>2, <4>3, FlushSays
        <5> QED
          BY <1>7, <4>2, <5>1
      <4>4. CASE ~(Len(b) > MaxBuffer)
        <5>1. emu'.buffer = b /\ out' = <<>>
          BY <1>1, <4>1, <4>4 DEF Hold, EmulationInv
        <5> QED
          BY <1>6, <4>2, <5>1
      <4> QED
        BY <4>3, <4>4
    <3>3. CASE ~emu.buffering
      <4>1. B \o t = t
        <5>1. B = <<>>
          BY <1>2, <3>3
        <5> HIDE DEF B, t
        <5> QED
          BY <1>3, <5>1
      <4>2. Heard' = S \o t
        BY <1>5, <4>1
      <4>3. CASE LooksLikeCall(c.text)
        <5>1. emu'.buffer = t /\ out' = <<>>
          BY <1>1, <3>1, <3>3, <4>3 DEF TakeText, Hold, EmulationInv
        <5> HIDE DEF t
        <5> QED
          BY <1>3, <1>6, <4>2, <5>1
      <4>4. CASE ~LooksLikeCall(c.text)
        <5>1. emu' = emu /\ out' = <<c>>
          BY <3>1, <3>3, <4>4 DEF TakeText
        <5>2. emu'.buffer = <<>>
          BY <1>2, <3>3, <5>1
        <5>3. Passed(c, t)
          BY <2>1 DEF Passed, SpokenIn
        <5> HIDE DEF t
        <5> QED
          BY <1>3, <1>7, <4>2, <5>1, <5>2, <5>3
      <4> QED
        BY <4>3, <4>4
    <3> QED
      BY <3>2, <3>3
  <2>4. CASE ~c.content /\ c.done
    <3>1. TakeLast(c) /\ t = <<>>
      BY <1>11, <2>1, <2>2, <2>4 DEF Transform
    <3>2. CASE emu.buffering
      <4>1. Flush(B, TRUE)
        BY <3>1, <3>2 DEF TakeLast
      <4>2. Heard' = S \o B
        <5> HIDE DEF B, t
        <5>1. B \o <<>> = B
          BY <1>2
        <5> QED
          BY <1>5, <3>1, <5>1
      <4> HIDE DEF B, t
      <4>3. PICK d : out' = <<d>> /\ Passed(d, B) /\ emu'.buffer = <<>>
        BY <1>1, <1>2, <4>1, FlushSays
      <4> QED
        BY <1>2, <1>7, <4>2, <4>3
    <3>3. CASE ~emu.buffering
      <4>1. out' = parsed' /\ emu'.buffer = B
        BY <1>1, <2>1, <3>1, <3>3 DEF TakeLast, EmulationInv
      <4> QED
        BY <1>8, <3>1, <4>1
    <3> QED
      BY <3>2, <3>3
  <2>5. CASE ~c.content /\ ~c.done
    <3>1. out' = parsed' /\ emu' = emu /\ t = <<>>
      BY <1>11, <2>1, <2>2, <2>5 DEF Transform
    <3> QED
      BY <1>8, <3>1
  <2> QED
    BY <2>3, <2>4, <2>5
<1> QED
  BY <1>9, <1>10, <1>11

\* At the end nothing is held back.
LEMMA EndSays ==
    ASSUME Base, Closes, TransformEnd, ~emu'.broken,
           NEW S \in Seq(Texts), Heard = S \o emu.buffer, emu.flushed => emu.buffer = <<>>
    PROVE  /\ \E R : Portion(R) /\ Heard' = (S \o R) \o emu'.buffer
           /\ emu'.buffer = <<>>
<1>1. EmulationInv /\ SseParserAssumption
  BY AssumedIs DEF Base, Assumed
<1>2. emu.buffer \in Seq(Texts) /\ Heard' = Heard
  BY <1>1 DEF EmulationInv, Closes, Heard
<1>3. CASE ~emu.flushed /\ emu.buffer # <<>>
  <2>1. Flush(emu.buffer, TRUE)
    BY <1>3 DEF TransformEnd
  <2>2. PICK d : out' = <<d>> /\ Passed(d, emu.buffer) /\ emu'.buffer = <<>>
    BY <1>1, <1>2, <2>1, FlushSays
  <2>3. (S \o emu.buffer) \o <<>> = S \o emu.buffer
    BY <1>2, JoinedNone
  <2>4. Portion(emu.buffer)
    BY <1>2, <2>2 DEF Portion
  <2> QED
    BY <1>2, <2>2, <2>3, <2>4
<1>4. CASE emu.flushed \/ emu.buffer = <<>>
  <2>1. emu' = emu /\ out' = <<>> /\ emu.buffer = <<>>
    BY <1>4 DEF TransformEnd
  <2>2. S \o <<>> = S /\ <<>> \in Seq(Texts)
    OBVIOUS
  <2>3. Portion(<<>>) /\ Heard' = (S \o <<>>) \o emu'.buffer
    BY <1>2, <2>1, <2>2 DEF Portion
  <2> QED
    BY <2>1, <2>3
<1> QED
  BY <1>3, <1>4


-----------------------------------------------------------------------------
(* What is said is told.                                                   *)

\* What the Anthropic client is told in a step.
LEMMA WireTold ==
    ASSUME Base, Next
    PROVE  /\ Told(wire', {"delta"}) = Told(wire, {"delta"}) \o SpokenIn(out')
           /\ Starts(wire) \subseteq Starts(wire')
<1>1. WireGrows
  BY WireGrowing
<1>2. CASE /\ out' = <<>>
           /\ Starts(wire') = Starts(wire)
           /\ Told(wire', {"delta"}) = Told(wire, {"delta"})
  <2>1. wire \in Seq(Events)
    BY DEF Base, Writes, Book
  <2>2. Told(wire, {"delta"}) \in AnyText
    <3> HIDE DEF Events
    <3> QED
      BY <2>1, EventsTextual, ToldAppended
  <2>3. Told(wire, {"delta"}) \o <<>> = Told(wire, {"delta"})
    BY <2>2 DEF AnyText
  <2> QED
    BY <1>2, <2>3 DEF SpokenIn
<1>3. ASSUME NEW d, NEW starts, out' = <<d>>,
             Told(wire', {"delta"}) = Told(wire, {"delta"}) \o Spoken(d),
             Starts(wire') = Starts(wire) \cup starts
      PROVE  /\ Told(wire', {"delta"}) = Told(wire, {"delta"}) \o SpokenIn(out')
             /\ Starts(wire) \subseteq Starts(wire')
  <2>1. SpokenIn(out') = Spoken(d)
    BY <1>3 DEF SpokenIn
  <2> QED
    BY <1>3, <2>1
<1> QED
  BY <1>1, <1>2, <1>3 DEF WireGrows

\* What the Responses client is told in a step.
LEMMA FeedTold ==
    ASSUME Base, FeedInv, Next
    PROVE  Told(feed', {"delta"}) = Told(feed, {"delta"}) \o SpokenIn(out')
<1>1. feed \in Seq(Steps) /\ Yield(out', native)
  BY StepsYield DEF FeedInv
<1> HIDE DEF Steps
<1>2. Told(feed, {"delta"}) \in AnyText
  BY <1>1, StepsTextual, ToldAppended
<1>3. Told(feed, {"delta"}) \o <<>> = Told(feed, {"delta"})
  BY <1>2 DEF AnyText
<1>4. CASE out' = <<>> /\ feed' = feed
  BY <1>3, <1>4 DEF SpokenIn
<1>5. ASSUME NEW d, out' # <<>>, out'[1] = d,
             feed' = feed \o Converted(items, d).events
      PROVE  Told(feed', {"delta"}) = Told(feed, {"delta"}) \o SpokenIn(out')
  <2>1. OneThing(d)
    BY <1>1, <1>5 DEF Yield, OfKind
  <2>2. Good(items, feed)
    BY <1>5, NothingLeft DEF FeedInv
  <2>3. ToFeed(Converted(items, d).events, Spoken(d))
    BY <2>1, <2>2, FeedTells DEF Good
  <2>4. SpokenIn(out') = Spoken(d)
    BY <1>5 DEF SpokenIn
  <2> DEFINE es == Converted(items, d).events
  <2>5. es \in Seq(Steps) /\ Told(es, {"delta"}) = Spoken(d)
    BY <2>3 DEF ToFeed, Speaks
  <2>6. feed' = feed \o es
    BY <1>5
  <2> HIDE DEF es
  <2>7. Told(feed \o es, {"delta"}) = Told(feed, {"delta"}) \o Told(es, {"delta"})
    BY <1>1, <2>5, StepsTextual, ToldJoined
  <2> QED
    BY <2>4, <2>5, <2>6, <2>7
<1>6. CASE (ReportsError \/ Breaks) /\ feed' = Append(feed, StepOf("error", ""))
  <2>1. out' = <<>>
    BY <1>6 DEF Next, Transform, Parses, ReportsError, Breaks, TransformEnd, Closes,
      Reason, Write, ToolBegins, ToolGoesOn, Usage, Done, FlushAtEnd
  <2> DEFINE e == StepOf("error", "")
  <2>2. e \in Steps /\ e.type = "error"
    <3>1. "error" \in StepTypes /\ "" \in ItemNames /\ <<>> \in AnyText /\ NoTool \in AnyTool
      BY StepNames, Constants
    <3>2. IsStepOf(e, "error", "", NoTool, <<>>)
      BY <3>1, StepIs DEF StepOf
    <3> QED
      BY <3>2 DEF IsStepOf
  <2>3. Bit(e, {"delta"}) = <<>>
    BY <2>2 DEF Bit
  <2> HIDE DEF e
  <2>4. Told(Append(feed, e), {"delta"}) = Told(feed, {"delta"}) \o Bit(e, {"delta"})
    BY <1>1, <2>2, StepsTextual, ToldAppended
  <2> QED
    BY <1>6, <2>1, <2>3, <2>4 DEF e, SpokenIn
<1> QED
  BY <1>4, <1>5, <1>6, FeedSteps

\* What the client of an emulated stream is told in a step.
LEMMA LinesTold ==
    ASSUME Base, LinesInv, Next, ~native
    PROVE  Told(lines', {"content", "tool_call"})
             = Told(lines, {"content", "tool_call"}) \o SpokenIn(out')
<1> DEFINE types == {"content", "tool_call"}
<1>1. lines \in Seq(Lines) /\ Yield(out', native) /\ sentRole \in BOOLEAN
  BY StepsYield DEF LinesInv
<1>7. native = FALSE
  BY StepsYield
<1> HIDE DEF Lines
<1>2. Told(lines, types) \in AnyText
  BY <1>1, LinesTextual, ToldAppended
<1>3. Told(lines, types) \o <<>> = Told(lines, types)
  BY <1>2 DEF AnyText
<1>4. CASE OpenAIChunk /\ out' = <<>>
  <2>1. lines' = lines
    BY <1>4 DEF OpenAIChunk, openaiVars
  <2> QED
    BY <1>3, <1>4, <2>1 DEF SpokenIn
<1>5. CASE OpenAIChunk /\ out' # <<>>
  <2>1. PICK d : out' = <<d>> /\ OfKind(d, FALSE)
    BY <1>1, <1>5, <1>7 DEF Yield
  <2> DEFINE es == Written(d)
  <2>2. lines' = lines \o es
    BY <1>5, <2>1 DEF OpenAIChunk
  <2>3. ToLines(es, Spoken(d))
    BY <1>1, <2>1, LinesTell
  <2>4. es \in Seq(Lines) /\ Told(es, types) = Spoken(d)
    BY <2>3 DEF ToLines, Speaks
  <2>5. SpokenIn(out') = Spoken(d)
    BY <2>1 DEF SpokenIn
  <2> HIDE DEF es, types
  <2>6. Told(lines \o es, types) = Told(lines, types) \o Told(es, types)
    BY <1>1, <2>4, LinesTextual, ToldJoined
  <2> QED
    BY <2>2, <2>4, <2>5, <2>6 DEF types
<1>6. CASE OpenAIError /\ (ReportsError \/ Breaks) /\ Transform
  <2>1. out' = <<>>
    BY <1>6 DEF Transform, ReportsError, Breaks
  <2> DEFINE e == LineOf("error")
  <2>2. e \in Lines /\ e.type = "error"
    <3>1. "error" \in LineTypes
      BY DEF LineTypes
    <3> QED
      BY <3>1, LineOfIs
  <2>3. Bit(e, types) = <<>>
    BY <2>2 DEF Bit
  <2>4. lines' = Append(lines, e)
    BY <1>6 DEF OpenAIError
  <2> HIDE DEF e, types
  <2>5. Told(Append(lines, e), types) = Told(lines, types) \o Bit(e, types)
    BY <1>1, <2>2, LinesTextual, ToldAppended
  <2> QED
    BY <2>1, <2>3, <2>4, <2>5 DEF types, SpokenIn
<1> QED
  BY <1>4, <1>5, <1>6 DEF Next

\* What was said in S is told as T, and the rest is held back.
TextIs(S, T) ==
    /\ CutOut(T, S)
    /\ Heard = S \o emu.buffer
    /\ Told(wire, {"delta"}) = T
    /\ Told(feed, {"delta"}) = T
    /\ ~native => Told(lines, {"content", "tool_call"}) = T
    /\ ~Spells(wire) => T = S

\* Every client was told what was said but is not held back, or what of it stood
\* around calls is left out; and in the end nothing is held back.
TextInv ==
    ~emu.broken =>
        /\ emu.flushed => emu.buffer = <<>>
        /\ upstream = "closed" => emu.buffer = <<>>
        /\ \E S, T : TextIs(S, T)

LEMMA TextInit ==
    ASSUME Init
    PROVE  TextInv
<1>1. emu.buffer = <<>> /\ Heard = <<>> /\ feed = <<>> /\ lines = <<>>
  <2>1. said = <<>> /\ emu.buffer = <<>>
    BY DEF Init, ParserInit, EmulationInit
  <2>2. Heard = <<>>
    <3>1. said \in Seq(Uttered)
      BY <2>1
    <3> QED
      BY <2>1, <3>1, HeardNext
  <2>3. feed = <<>>
    BY DEF Init, ResponsesInit
  <2>4. lines = <<>>
    BY DEF Init, OpenAIInit
  <2> QED
    BY <2>1, <2>2, <2>3, <2>4
<1>2. CutOut(<<>>, <<>>)
  <2>1. <<>> \in Seq(Texts)
    OBVIOUS
  <2> QED
    BY <2>1, CutNothing
<1>3. /\ Told(<<>>, {"delta"}) = <<>>
      /\ Told(<<>>, {"content", "tool_call"}) = <<>>
  BY EventsTextual, ToldAppended
<1>4. <<>> \o <<>> = <<>>
  OBVIOUS
<1>6. Told(wire, {"delta"}) = <<>>
  <2> DEFINE e == MessageEvent("message_start")
  <2>1. e \in Events /\ Bit(e, {"delta"}) = <<>>
    BY MessageEventIs
  <2>2. wire = <<e>>
    BY DEF Init, AnthropicInit
  <2> HIDE DEF e, Events
  <2>3. <<>> \in Seq(Events) /\ <<e>> = Append(<<>>, e)
    OBVIOUS
  <2>4. Told(Append(<<>>, e), {"delta"}) = Told(<<>>, {"delta"}) \o Bit(e, {"delta"})
    BY <2>1, <2>3, EventsTextual, ToldAppended
  <2> QED
    BY <1>3, <1>4, <2>1, <2>2, <2>3, <2>4
<1>5. TextIs(<<>>, <<>>)
  BY <1>1, <1>2, <1>3, <1>4, <1>6 DEF TextIs
<1> QED
  BY <1>1, <1>5 DEF TextInv

\* The three kinds of step, as the parser and the transform have them.
LEMMA TextSteps ==
    ASSUME Next
    PROVE  \/ Parses /\ Transform
           \/ /\ Transform
              /\ Heard' = Heard /\ emu' = emu /\ out' = <<>> /\ upstream' # "closed"
           \/ Closes /\ TransformEnd
BY DEF Next, ReportsError, Breaks, Transform, Heard

\* A step tells a portion of what is said, and holds back the rest.
LEMMA TextPasses ==
    ASSUME Base, Next, ~emu'.broken, TextInv, NEW S \in Seq(Texts),
           Heard = S \o emu.buffer
    PROVE  /\ ~emu.broken
           /\ emu'.flushed => emu'.buffer = <<>>
           /\ upstream' = "closed" => emu'.buffer = <<>>
           /\ \E R : Portion(R) /\ Heard' = (S \o R) \o emu'.buffer
<1>1. ~emu.broken /\ EmulationInv /\ SseParserAssumption
  BY AssumedIs, TextSteps DEF Base, Transform, TransformEnd, Assumed
<1>2. emu.flushed => emu.buffer = <<>>
  BY <1>1 DEF TextInv
<1>3. CASE Parses /\ Transform
  <2>1. \E R : Portion(R) /\ Heard' = (S \o R) \o emu'.buffer
    BY <1>3, TransformSays
  <2>2. upstream' # "closed"
    BY <1>3 DEF Parses, Reason, Write, ToolBegins, ToolGoesOn, Usage,
      Done, FlushAtEnd, Base, ParserInv
  <2>3. emu'.flushed => emu'.buffer = <<>>
    <3>1. CASE UNCHANGED emu
      BY <1>3, <3>1 DEF Transform
    <3>2. ASSUME NEW b, Hold(b)
          PROVE  ~emu'.flushed
      BY <1>1, <1>3, <3>2 DEF Hold, EmulationInv, Transform
    <3>3. ASSUME NEW b, NEW done, Flush(b, done)
          PROVE  emu'.buffer = <<>>
      <4>1. ~Inverted(b)
        BY <1>1, <3>3 DEF Flush, EmulationInv
      <4> QED
        BY <1>1, <3>3, <4>1 DEF Flush, EmulationInv
    <3>4. ASSUME NEW c, TakeText(c)
          PROVE  emu'.flushed => emu'.buffer = <<>>
      BY <3>1, <3>2, <3>3, <3>4 DEF TakeText
    <3>5. ASSUME NEW c, TakeLast(c)
          PROVE  emu'.buffer = <<>>
      <4>1. CASE emu.buffering
        BY <3>3, <3>5, <4>1 DEF TakeLast
      <4>2. CASE ~emu.buffering
        BY <1>1, <3>5, <4>2 DEF TakeLast, EmulationInv
      <4> QED
        BY <4>1, <4>2
    <3> QED
      BY <1>3, <3>1, <3>4, <3>5 DEF Transform
  <2> QED
    BY <1>1, <2>1, <2>2, <2>3
<1>4. CASE Heard' = Heard /\ emu' = emu /\ out' = <<>> /\ upstream' # "closed"
  <2>1. S \o <<>> = S /\ <<>> \in Seq(Texts)
    OBVIOUS
  <2>2. Portion(<<>>) /\ Heard' = (S \o <<>>) \o emu'.buffer
    BY <1>4, <2>1 DEF Portion
  <2> QED
    BY <1>1, <1>2, <1>4, <2>2
<1>5. CASE Closes /\ TransformEnd
  BY <1>1, <1>2, <1>5, EndSays
<1> QED
  BY <1>3, <1>4, <1>5, TextSteps

\* What is told of a portion.
LEMMA PortionTold ==
    ASSUME NEW R, Portion(R)
    PROVE  /\ CutOut(SpokenIn(out'), R)
           /\ SpokenIn(out') = R \/ \E d : out' = <<d>> /\ d.tool = Spelled
<1>1. R \in Seq(Texts) /\ CutOut(R, R)
  BY CutNothing DEF Portion
<1>2. CASE out' = <<>> /\ R = <<>>
  BY <1>1, <1>2 DEF SpokenIn
<1>3. ASSUME NEW d, out' = <<d>>, Passed(d, R)
      PROVE  /\ CutOut(SpokenIn(out'), R)
             /\ SpokenIn(out') = R \/ \E c : out' = <<c>> /\ c.tool = Spelled
  <2>1. SpokenIn(out') = Spoken(d)
    BY <1>3 DEF SpokenIn
  <2>2. CASE Spoken(d) = R
    BY <1>1, <2>1, <2>2
  <2>3. CASE Spoken(d) # R
    <3>1. /\ d.tool = Spelled /\ Spoken(d) = <<"call", "tail">>
          /\ \E n \in 1 .. Len(R) : n + 1 \in 1 .. Len(R) /\ R[n] = "call" /\ R[n + 1] = "tail"
      BY <1>3, <2>3 DEF Passed
    <3>2. CutOut(<<"call", "tail">>, R)
      BY <1>1, <3>1, CutToCall
    <3> QED
      BY <1>3, <2>1, <3>1, <3>2
  <2> QED
    BY <2>2, <2>3
<1> QED
  BY <1>2, <1>3 DEF Portion

\* If the portion of a step is cut, a call was spelled out.
LEMMA CutSpells ==
    ASSUME Base, StartsInv, Next, NEW d, out' = <<d>>, d.tool = Spelled
    PROVE  Spells(wire')
<1>1. WireGrows
  BY WireGrowing
<1>2. PICK c, starts : /\ out' = <<c>> /\ OfKind(c, native)
                       /\ Starts(wire') = Starts(wire) \cup starts
                       /\ Started(Reopened(c), c, starts)
  BY <1>1 DEF WireGrows
<1>3. c = d
  BY <1>2
<1>4. ~native
  BY <1>2, <1>3 DEF OfKind
<1> QED
  BY <1>2, <1>3, <1>4, CallSpells

LEMMA TextNext ==
    ASSUME Base, FeedInv, LinesInv, StartsInv, TextInv, [Next]_vars
    PROVE  TextInv'
<1>1. CASE UNCHANGED vars
  BY <1>1 DEF TextInv, TextIs, Heard, Spells, Starts, Elements, vars, parserVars, upstreamVars, emulationVars,
    anthropicVars, responsesVars, openaiVars
<1>2. CASE Next
  <2> SUFFICES ASSUME ~emu'.broken PROVE TextInv'
    BY DEF TextInv
  <2>1. ~emu.broken
    BY <1>2, TextSteps DEF Transform, TransformEnd
  <2>2. PICK S, T : TextIs(S, T)
    BY <2>1 DEF TextInv
  <2>3. /\ T \in Seq(Texts) /\ S \in Seq(Texts) /\ Heard = S \o emu.buffer
        /\ CutOut(T, S)
    BY <2>2 DEF TextIs, CutOut
  <2>4. /\ emu'.flushed => emu'.buffer = <<>>
        /\ upstream' = "closed" => emu'.buffer = <<>>
        /\ \E R : Portion(R) /\ Heard' = (S \o R) \o emu'.buffer
    BY <1>2, <2>3, TextPasses
  <2>5. PICK R : Portion(R) /\ Heard' = (S \o R) \o emu'.buffer
    BY <2>4
  <2> DEFINE u == SpokenIn(out')
  <2> PICK t : t = u
    OBVIOUS
  <2>6. CutOut(t, R) /\ (t = R \/ \E d : out' = <<d>> /\ d.tool = Spelled)
    BY <2>5, PortionTold
  <2>7. /\ Told(wire', {"delta"}) = T \o t
        /\ Told(feed', {"delta"}) = T \o t
        /\ ~native => Told(lines', {"content", "tool_call"}) = T \o t
        /\ Starts(wire) \subseteq Starts(wire')
    BY <1>2, <2>2, WireTold, FeedTold, LinesTold DEF TextIs
  <2>8. native' = native
    BY <1>2, StepsYield
  <2>9. (\E d : out' = <<d>> /\ d.tool = Spelled) => Spells(wire')
    BY <1>2, CutSpells
  <2> HIDE DEF u
  <2>10. CutOut(T \o t, S \o R)
    BY <2>3, <2>6, CutTwice
  <2>11. ~Spells(wire') => T \o t = S \o R
    <3> SUFFICES ASSUME ~Spells(wire') PROVE T \o t = S \o R
      OBVIOUS
    <3>1. ~Spells(wire)
      BY <2>7 DEF Spells
    <3>2. T = S /\ t = R
      BY <2>2, <2>6, <2>9, <3>1 DEF TextIs
    <3> QED
      BY <3>2
  <2>12. TextIs(S \o R, T \o t)'
    BY <2>5, <2>7, <2>8, <2>10, <2>11 DEF TextIs
  <2> QED
    BY <2>4, <2>12 DEF TextInv
<1> QED
  BY <1>1, <1>2

LEMMA AlwaysStarts == Spec => []StartsInv
BY AlwaysBase, StartsInit, StartsNext, PTL DEF Spec

LEMMA AlwaysText == Spec => []TextInv
BY AlwaysBase, AlwaysFeed, AlwaysLines, AlwaysStarts, TextInit, TextNext, PTL DEF Spec

\* However a stream ends, every client was told the text the upstream said, once
\* and in order; missing is only what shared its delta with reasoning, and what
\* stands around calls that were spelled out.
THEOREM EverythingTold == Spec => []ToldAsSaid
<1>1. Base /\ TextInv => ToldAsSaid
  <2> SUFFICES ASSUME Base, TextInv, Over,
                      NEW told \in {Told(wire, {"delta"}), Told(feed, {"delta"})}
                                   \cup (IF native THEN {}
                                         ELSE {Told(lines, {"content", "tool_call"})})
               PROVE  IF Announced THEN ButAround(told, Heard) ELSE told = Heard
    BY DEF ToldAsSaid
  <2>1. PICK S, T : TextIs(S, T)
    BY DEF TextInv, Over
  <2>2. emu.buffer = <<>>
    BY DEF TextInv, Over
  <2>3. CutOut(T, S) /\ S \in Seq(Texts) /\ Heard = S \o <<>>
    BY <2>1, <2>2 DEF TextIs, CutOut
  <2>4. Heard = S /\ Heard \in Seq(Texts)
    BY <2>3
  <2>5. told = T
    BY <2>1 DEF TextIs
  <2>6. Announced <=> Spells(wire)
    <3>1. wire \in Seq(Events)
      BY DEF Base, Writes, Book
    <3> QED
      BY <3>1, AnnouncedIs
  <2>7. ButAround(told, Heard)
    BY <2>3, <2>4, <2>5, CutIsAround
  <2>8. ~Spells(wire) => told = Heard
    BY <2>1, <2>4, <2>5 DEF TextIs
  <2> QED
    BY <2>6, <2>7, <2>8
<1> QED
  BY <1>1, AlwaysBase, AlwaysText, PTL

-----------------------------------------------------------------------------
(* Calls that are spelled out.                                             *)

\* The transform finds a call in the text where there is one.
LEMMA HasCallIs ==
    ASSUME NEW b \in Seq(Texts)
    PROVE  HasCallIn(b) <=> CallIn(b) # {}
<1> DEFINE n == Len(b)
<1>1. n \in Nat /\ DOMAIN b = 1 .. n /\ Inside(b) \subseteq 1 .. n
  BY DEF Inside
<1>2. ASSUME CallIn(b) # {} PROVE HasCallIn(b)
  <2>1. PICK i \in 1 .. n : i + 1 \in 1 .. n /\ <<i, i + 1>> \in CallIn(b)
    BY <1>2, CallInIs
  <2>2. /\ b[i] = "call" /\ b[i + 1] = "tail"
        /\ i \in Inside(b) /\ i + 1 \in Inside(b)
        /\ Openings(b) \cap (1 .. i + 1) = {i}
        /\ Closings(b) \cap (i .. n) = {i + 1}
    BY <2>1 DEF CallIn, IsObject, Openings, Closings
  <2>3. SubSeq(b, i, i + 1) = <<"call", "tail">>
    <3> DEFINE s == SubSeq(b, i, i + 1)
    <3>1. s \in Seq(Texts) /\ Len(s) = 2 /\ s[1] = b[i] /\ s[2] = b[i + 1]
      BY <2>1
    <3>2. <<"call", "tail">> \in Seq(Texts) /\ Len(<<"call", "tail">>) = 2
      BY DEF Texts
    <3>3. \A k \in 1 .. 2 : k = 1 \/ k = 2
      OBVIOUS
    <3> HIDE DEF s
    <3>4. \A k \in 1 .. 2 : s[k] = <<"call", "tail">>[k]
      BY <2>2, <3>1, <3>3
    <3>5. s = <<"call", "tail">>
      BY <3>1, <3>2, <3>4, SameSeq
    <3> QED
      BY <3>5 DEF s
  <2>4. ASSUME NEW k \in Inside(b), k < i PROVE b[k] \notin {"call", "json"}
    <3>1. k \in 1 .. i + 1 /\ k # i
      BY <1>1, <2>1, <2>4
    <3> HIDE DEF n
    <3> QED
      BY <2>2, <3>1 DEF Openings
  <2>5. ASSUME NEW k \in Inside(b), k > i + 1 PROVE b[k] # "tail"
    <3>1. k \in i .. n /\ k # i + 1
      BY <1>1, <2>1, <2>5
    <3> HIDE DEF n
    <3> QED
      BY <2>2, <3>1 DEF Closings
  <2>6. i \in 1 .. n - 1
    BY <1>1, <2>1
  <2> QED
    BY <2>2, <2>3, <2>4, <2>5, <2>6 DEF HasCallIn
<1>3. ASSUME HasCallIn(b) PROVE CallIn(b) # {}
  <2>1. PICK i \in 1 .. n - 1 :
            /\ {i, i + 1} \subseteq Inside(b)
            /\ SubSeq(b, i, i + 1) = <<"call", "tail">>
            /\ \A k \in Inside(b) : k < i => b[k] \notin {"call", "json"}
            /\ \A k \in Inside(b) : k > i + 1 => b[k] # "tail"
    BY <1>3 DEF HasCallIn
  <2>2. i \in 1 .. n /\ i + 1 \in 1 .. n
    BY <1>1
  <2>3. b[i] = "call" /\ b[i + 1] = "tail"
    <3> DEFINE s == SubSeq(b, i, i + 1)
    <3>1. s[1] = b[i] /\ s[2] = b[i + 1]
      BY <2>2
    <3>2. s = <<"call", "tail">>
      BY <2>1
    <3> HIDE DEF s
    <3> QED
      BY <3>1, <3>2
  <2> HIDE DEF n
  <2>4. i \in Openings(b) /\ i + 1 \in Closings(b)
    BY <2>1, <2>3 DEF Openings, Closings
  <2>5. ASSUME NEW k \in Openings(b) \cap (1 .. i + 1) PROVE k = i
    <3>1. k \in Inside(b) /\ b[k] \in {"call", "json"} /\ k # i + 1
      BY <2>3 DEF Openings
    <3>2. ~(k < i)
      BY <2>1, <3>1
    <3> QED
      BY <1>1, <2>2, <3>1, <3>2
  <2>6. ASSUME NEW k \in Closings(b) \cap (i .. n) PROVE k = i + 1
    <3>1. k \in Inside(b) /\ b[k] = "tail" /\ k # i
      BY <2>3 DEF Closings
    <3>2. ~(k > i + 1)
      BY <2>1, <3>1
    <3> QED
      BY <1>1, <2>2, <3>1, <3>2
  <2>7. /\ Openings(b) \cap (1 .. i + 1) = {i}
        /\ Closings(b) \cap (i .. n) = {i + 1}
    <3>1. i \in 1 .. i + 1 /\ i + 1 \in i .. n
      BY <1>1, <2>2
    <3> QED
      BY <2>4, <2>5, <2>6, <3>1
  <2>8. IsObject(b, i, i + 1)
    BY <2>7 DEF IsObject, n
  <2>9. <<i, i + 1>> \in CallIn(b)
    BY <2>3, <2>4, <2>8 DEF CallIn
  <2> QED
    BY <2>9
<1> QED
  BY <1>2, <1>3

\* The parser finds no calls in the stream of an upstream without the tools.
LEMMA NoneParsed ==
    ASSUME ParserInv, ~native, Parses, NEW c, parsed' = <<c>>
    PROVE  c.tool = NoTool
<1>1. pending = NoPending /\ NoPending.tool = NoTool
  BY DEF ParserInv, NoPending
<1>2. \A done : Bare(done).tool = NoTool
  BY DEF Bare
<1>3. ReasoningChunk.tool = NoTool
  BY DEF ReasoningChunk, Bare
<1>4. \A text, done : TextChunk(text, done).tool = NoTool
  BY ChunksAre
<1>5. \A done : Flushed(done).tool = NoTool
  BY <1>1 DEF Flushed, Bare
<1>6. \A d, e : <<d>> = <<e>> => d = e
  OBVIOUS
<1> HIDE DEF NoTool
<1>7. CASE Reason \/ Usage
  BY <1>2, <1>3, <1>6, <1>7 DEF Reason, Usage
<1>8. CASE Write
  BY <1>4, <1>6, <1>8 DEF Write
<1>9. CASE Done \/ FlushAtEnd
  BY <1>5, <1>6, <1>9 DEF Done, FlushAtEnd
<1>10. CASE ToolBegins
  BY <1>10 DEF ToolBegins
<1>11. CASE ToolGoesOn
  BY <1>11 DEF ToolGoesOn
<1> QED
  BY <1>7, <1>8, <1>9, <1>10, <1>11 DEF Parses

\* A chunk of text has some.
LEMMA ParsedSome ==
    ASSUME ParserInv, Parses, NEW c, parsed' = <<c>>, c.content
    PROVE  c.text # <<>>
<1>1. \A done : ~Bare(done).content
  BY DEF Bare
<1>2. ~ReasoningChunk.content
  BY DEF ReasoningChunk, Bare
<1>3. \A text : TextChunk(<<text>>, FALSE).text = <<text>> /\ <<text>> # <<>>
  BY ChunksAre
<1>4. \A done : ~Flushed(done).content
  BY DEF Flushed, Bare
<1>5. \A e : parsed' = <<e>> => c = e
  OBVIOUS
<1>6. CASE Reason \/ Usage
  BY <1>1, <1>2, <1>5, <1>6 DEF Reason, Usage
<1>7. CASE Write
  <2>1. PICK text : parsed' = <<TextChunk(<<text>>, FALSE)>>
    BY <1>7 DEF Write
  <2>2. c = TextChunk(<<text>>, FALSE)
    BY <1>5, <2>1
  <2>3. c.text = <<text>>
    BY <1>3, <2>2
  <2>4. <<text>> # <<>>
    OBVIOUS
  <2> QED
    BY <2>3, <2>4
<1>8. CASE Done \/ FlushAtEnd
  BY <1>4, <1>5, <1>8 DEF Done, FlushAtEnd
<1>9. CASE ToolBegins
  <2>1. parsed' = <<Flushed(FALSE)>>
    <3>1. parsed' # <<>>
      OBVIOUS
    <3>2. parsed' = IF pending # NoPending THEN <<Flushed(FALSE)>> ELSE <<>>
      BY <1>9 DEF ToolBegins, When
    <3> QED
      BY <3>1, <3>2
  <2>2. c = Flushed(FALSE)
    BY <1>5, <2>1
  <2> QED
    BY <1>4, <2>2
<1>10. CASE ToolGoesOn
  BY <1>10 DEF ToolGoesOn
<1> QED
  BY <1>6, <1>7, <1>8, <1>9, <1>10 DEF Parses

\* No text and no call was begun.
Unsaid(w) == \A e \in Starts(w) : e.kind # "text" /\ e.tool # Spelled

\* Text that begins like a call, and fits the buffer, is held back as long as it
\* comes; then it is a call if there is one in it, and nothing else is begun.
CallInv ==
    ~native /\ ~emu.broken /\ ~emu.outgrown /\ (Heard # <<>> => LooksLikeCall(Heard)) =>
        /\ ~emu.flushed => /\ emu.buffer = Heard
                           /\ emu.buffering <=> Heard # <<>>
                           /\ Unsaid(wire)
        /\ emu.flushed => /\ Spells(wire) <=> CallIn(Heard) # {}
                          /\ Spells(wire) => \A e \in Starts(wire) : e.kind # "text"
        /\ upstream = "closed" => emu.flushed \/ Heard = <<>>

LEMMA CallInit ==
    ASSUME Init
    PROVE  CallInv
<1>1. /\ emu.buffer = <<>> /\ Heard = <<>> /\ ~emu.buffering /\ ~emu.flushed
      /\ upstream = "open"
  <2>1. said = <<>> /\ said \in Seq(Uttered)
    BY DEF Init, ParserInit
  <2>2. Heard = <<>>
    BY <2>1, HeardNext
  <2> QED
    BY <2>2 DEF Init, ParserInit, EmulationInit
<1>2. Unsaid(wire)
  <2> DEFINE e == MessageEvent("message_start")
  <2>1. e \in Events /\ e.type # "start"
    BY MessageEventIs
  <2>2. wire = <<e>>
    BY DEF Init, AnthropicInit
  <2> HIDE DEF e
  <2>3. Elements(wire) = {e}
    BY <2>2, OneElement
  <2> QED
    BY <2>1, <2>3 DEF Unsaid, Starts
<1> QED
  BY <1>1, <1>2 DEF CallInv

\* What is passed on without text or a call begins neither.
LEMMA UnsaidGoesOn ==
    ASSUME Base, Next, Unsaid(wire),
           \A d : out' = <<d>> => ~d.content /\ d.tool = NoTool
    PROVE  Unsaid(wire')
<1>1. Spelled # NoTool
  BY AssumedIs DEF Assumed, SseParserAssumption, Spelled, NoTool
<1>2. WireGrows
  BY WireGrowing
<1>3. CASE Starts(wire') = Starts(wire)
  BY <1>3 DEF Unsaid
<1>4. ASSUME NEW d, NEW starts, out' = <<d>>,
             Starts(wire') = Starts(wire) \cup starts, \A e \in starts : StartOf(e, d)
      PROVE  Unsaid(wire')
  BY <1>1, <1>4 DEF Unsaid, StartOf
<1> QED
  BY <1>2, <1>3, <1>4 DEF WireGrows, Started

\* What was held back is begun as a call if there is one in it, and as text if
\* not.
LEMMA HeldIsBegun ==
    ASSUME Base, StartsInv, Next, ~native, Heard \in Seq(Texts), Heard' = Heard,
           Unsaid(wire), out' = <<Unbuffered(Heard, TRUE)>>
    PROVE  /\ Spells(wire') <=> CallIn(Heard) # {}
           /\ Spells(wire') => \A e \in Starts(wire') : e.kind # "text"
<1>1. Spelled # NoTool
  BY AssumedIs DEF Assumed, SseParserAssumption, Spelled, NoTool
<1>2. PICK d, starts : /\ out' = <<d>> /\ OfKind(d, native)
                       /\ Starts(wire') = Starts(wire) \cup starts
                       /\ Started(Reopened(d), d, starts)
  BY WireGrowing DEF WireGrows
<1>3. d = Unbuffered(Heard, TRUE)
  <2>1. \A x, y : <<x>> = <<y>> => x = y
    OBVIOUS
  <2>2. <<d>> = <<Unbuffered(Heard, TRUE)>>
    BY <1>2
  <2> QED
    BY <2>1, <2>2
<1>4. CASE CallIn(Heard) = {}
  <2>1. d.tool = NoTool
    BY <1>3, <1>4, ChunksAre DEF Unbuffered
  <2>2. \A e \in starts : e.tool = NoTool
    BY <1>2, <2>1 DEF Started, StartOf
  <2>3. ~Spells(wire')
    BY <1>1, <1>2, <2>2 DEF Spells, Unsaid
  <2> QED
    BY <1>4, <2>3
<1>5. CASE CallIn(Heard) # {}
  <2>1. d.tool = Spelled
    <3> SUFFICES ASSUME NEW text, NEW c, c = [Bare(TRUE) EXCEPT !.tool = Spelled, !.text = text]
                 PROVE  c.tool = Spelled
      BY <1>3, <1>5 DEF Unbuffered
    <3> QED
      BY DEF Bare
  <2>2. Spells(wire')
    BY <1>2, <2>1, CallSpells
  <2>3. ~d.content /\ ~d.reasoning
    BY <1>1, <1>2, <2>1 DEF OfKind, OneThing
  <2>4. \A e \in starts : e.kind # "text"
    BY <1>2, <2>3 DEF Started, StartOf
  <2> QED
    BY <1>2, <1>5, <2>2, <2>4 DEF Unsaid
<1> QED
  BY <1>4, <1>5

\* What a step makes of text that begins like a call.
LEMMA CallPasses ==
    ASSUME Base, Parses, Transform, ~native, ~emu'.broken, ~emu'.outgrown,
           Heard' # <<>> => LooksLikeCall(Heard'),
           emu.buffer = Heard, emu.buffering <=> Heard # <<>>
    PROVE  \/ /\ ~emu'.flushed
              /\ emu'.buffer = Heard' /\ (emu'.buffering <=> Heard' # <<>>)
              /\ \A d : out' = <<d>> => ~d.content /\ d.tool = NoTool
           \/ /\ emu'.flushed /\ Heard' = Heard
              /\ \/ out' = <<Unbuffered(Heard, TRUE)>>
                 \/ Heard = <<>> /\ \A d : out' = <<d>> => ~d.content /\ d.tool = NoTool
<1>1. ParserInv /\ EmulationInv /\ ~emu.flushed
  BY DEF Base, Transform
<1>2. emu \in [buffering : BOOLEAN, buffer : Seq(Texts), flushed : BOOLEAN,
               outgrown : BOOLEAN, broken : BOOLEAN]
  BY <1>1 DEF EmulationInv
<1> DEFINE t == SpokenIn(parsed')
<1>3. Heard' = Heard \o t /\ t \in Seq(Texts) /\ Heard \in Seq(Texts)
  BY <1>1, ParsedSays, HeardTyped DEF ParserInv
<1>4. t = <<>> => Heard' = Heard
  <2>1. Heard \o <<>> = Heard
    BY <1>3
  <2> QED
    BY <1>3, <2>1
<1>5. parsed' = <<>> \/ \E c : parsed' = <<c>> /\ parsed'[1] = c
  <2>1. Yield(parsed', native')
    BY <1>1, AssumedIs, ReadsTyped DEF Reads, Assumed
  <2> QED
    BY <2>1 DEF Yield
<1> HIDE DEF t
<1>6. CASE parsed' = <<>>
  <2>1. t = <<>> /\ emu' = emu /\ out' = <<>>
    BY <1>6 DEF SpokenIn, Transform, t
  <2> QED
    BY <1>1, <1>4, <2>1
<1>7. ASSUME NEW c, parsed' = <<c>>, parsed'[1] = c
      PROVE  \/ /\ ~emu'.flushed
                /\ emu'.buffer = Heard' /\ (emu'.buffering <=> Heard' # <<>>)
                /\ \A d : out' = <<d>> => ~d.content /\ d.tool = NoTool
             \/ /\ emu'.flushed /\ Heard' = Heard
                /\ \/ out' = <<Unbuffered(Heard, TRUE)>>
                   \/ Heard = <<>> /\ \A d : out' = <<d>> => ~d.content /\ d.tool = NoTool
  <2>1. c.tool = NoTool
    BY <1>1, <1>7, NoneParsed
  <2>2. /\ c.content => t = c.text
        /\ ~c.content => t = <<>>
    BY <1>1, <1>7, ParsedSays DEF t
  <2>3. IF c.content THEN TakeText(c)
        ELSE IF c.done THEN TakeLast(c)
        ELSE UNCHANGED emu /\ out' = <<c>>
    BY <1>7 DEF Transform
  <2>4. ASSUME out' = <<c>>, ~c.content
        PROVE  \A d : out' = <<d>> => ~d.content /\ d.tool = NoTool
    <3>1. \A x, y : <<x>> = <<y>> => x = y
      OBVIOUS
    <3> QED
      BY <2>1, <2>4, <3>1
  <2>5. ASSUME NEW b, Hold(b)
        PROVE  emu'.buffer = b /\ emu'.buffering /\ ~emu'.flushed /\ out' = <<>>
    BY <1>1, <1>2, <2>5 DEF Hold
  <2>6. ASSUME NEW b, NEW done, Flush(b, done)
        PROVE  done /\ emu'.flushed /\ out' = <<Unbuffered(b, done)>>
    <3>1. ~Inverted(b)
      BY <1>2, <2>6 DEF Flush
    <3> QED
      BY <1>2, <2>6, <3>1 DEF Flush
  <2>7. CASE c.content
    <3>1. TakeText(c) /\ t = c.text
      BY <2>2, <2>3, <2>7
    <3>2. ASSUME NEW b, Hold(b), b = Heard', Heard' # <<>>
          PROVE  /\ ~emu'.flushed
                 /\ emu'.buffer = Heard' /\ (emu'.buffering <=> Heard' # <<>>)
                 /\ \A d : out' = <<d>> => ~d.content /\ d.tool = NoTool
      BY <2>5, <3>2
    <3>3. t # <<>>
      BY <1>1, <1>7, <2>7, <3>1, ParsedSome
    <3>4. Heard' # <<>>
      <4>1. Len(Heard \o t) = Len(Heard) + Len(t) /\ Len(t) \in Nat \ {0} /\ Len(Heard) \in Nat
        BY <1>3, <3>3
      <4> QED
        BY <1>3, <4>1
    <3>5. CASE emu.buffering
      <4>1. Hold(Heard')
        BY <1>3, <2>6, <3>1, <3>5 DEF TakeText
      <4> QED
        BY <3>2, <3>4, <4>1
    <3>6. CASE ~emu.buffering
      <4>1. Heard = <<>>
        BY <3>6
      <4>2. Heard' = t
        BY <1>3, <4>1
      <4>3. LooksLikeCall(t)
        BY <3>4, <4>2
      <4>4. Hold(t)
        BY <3>1, <3>6, <4>3 DEF TakeText
      <4> QED
        BY <3>2, <3>4, <4>2, <4>4
    <3> QED
      BY <3>5, <3>6
  <2>8. CASE ~c.content /\ c.done
    <3>1. TakeLast(c) /\ Heard' = Heard
      BY <1>4, <2>2, <2>3, <2>8
    <3>2. CASE emu.buffering
      <4>1. Flush(Heard, TRUE)
        BY <3>1, <3>2 DEF TakeLast
      <4> QED
        BY <2>6, <3>1, <4>1
    <3>3. CASE ~emu.buffering
      <4>1. emu'.flushed /\ out' = <<c>> /\ Heard = <<>>
        BY <1>2, <3>1, <3>3 DEF TakeLast
      <4> QED
        BY <2>4, <2>8, <3>1, <4>1
    <3> QED
      BY <3>2, <3>3
  <2>9. CASE ~c.content /\ ~c.done
    <3>1. emu' = emu /\ out' = <<c>> /\ Heard' = Heard
      BY <1>4, <2>2, <2>3, <2>9
    <3> QED
      BY <1>1, <2>4, <2>9, <3>1
  <2> QED
    BY <2>7, <2>8, <2>9
<1> QED
  BY <1>5, <1>6, <1>7

LEMMA CallNext ==
    ASSUME Base, StartsInv, CallInv, [Next]_vars
    PROVE  CallInv'
<1>1. CASE UNCHANGED vars
  <2>1. /\ Heard' = Heard /\ emu' = emu /\ native' = native /\ upstream' = upstream
        /\ wire' = wire
    BY <1>1 DEF vars, parserVars, upstreamVars, emulationVars, anthropicVars, Heard
  <2> QED
    BY <2>1 DEF CallInv, Unsaid, Spells, Starts, Elements
<1>2. CASE Next
  <2> SUFFICES ASSUME ~native', ~emu'.broken, ~emu'.outgrown,
                      Heard' # <<>> => LooksLikeCall(Heard')
               PROVE  /\ ~emu'.flushed => /\ emu'.buffer = Heard'
                                          /\ emu'.buffering <=> Heard' # <<>>
                                          /\ Unsaid(wire')
                      /\ emu'.flushed =>
                            /\ Spells(wire') <=> CallIn(Heard') # {}
                            /\ Spells(wire') => \A e \in Starts(wire') : e.kind # "text"
                      /\ upstream' = "closed" => emu'.flushed \/ Heard' = <<>>
    BY DEF CallInv, Unsaid, Spells, Starts, Elements
  <2>1. ParserInv /\ EmulationInv /\ ParserInv' /\ EmulationInv' /\ ~native
    BY <1>2, StepsYield DEF Base
  <2>2. ~emu.broken /\ ~emu.outgrown
    <3>1. ~emu.broken
      BY <1>2, TextSteps DEF Transform, TransformEnd
    <3>2. ASSUME NEW b, NEW done, Flush(b, done) PROVE ~emu.outgrown
      <4>1. ~Inverted(b)
        BY <2>1, <3>2 DEF Flush, EmulationInv
      <4> QED
        BY <2>1, <3>2, <4>1 DEF Flush, EmulationInv
    <3>3. ASSUME NEW b, Hold(b) PROVE ~emu.outgrown
      BY <2>1, <3>3 DEF Hold, EmulationInv
    <3>4. ASSUME NEW c, TakeText(c) PROVE ~emu.outgrown
      BY <3>2, <3>3, <3>4 DEF TakeText
    <3>5. ASSUME NEW c, TakeLast(c) PROVE ~emu.outgrown
      BY <2>1, <3>2, <3>5 DEF TakeLast, EmulationInv
    <3>6. Transform => ~emu.outgrown
      BY <3>4, <3>5 DEF Transform
    <3>7. TransformEnd => ~emu.outgrown
      BY <3>2 DEF TransformEnd
    <3> QED
      BY <1>2, <3>1, <3>6, <3>7, TextSteps
  <2>3. Heard # <<>> => LooksLikeCall(Heard)
    <3> SUFFICES ASSUME Heard # <<>> PROVE LooksLikeCall(Heard)
      OBVIOUS
    <3>1. CASE Parses
      <4> DEFINE t == SpokenIn(parsed')
      <4>1. Heard' = Heard \o t /\ t \in Seq(Texts) /\ Heard \in Seq(Texts)
        BY <2>1, <3>1, ParsedSays, HeardTyped DEF ParserInv
      <4> HIDE DEF t
      <4>2. 1 \in 1 .. Len(Heard)
        BY <4>1
      <4>3. /\ Len(Heard \o t) = Len(Heard) + Len(t)
            /\ \A i \in 1 .. Len(Heard) : (Heard \o t)[i] = Heard[i]
        BY <4>1, Joined
      <4>4. Heard'[1] = Heard[1]
        BY <4>1, <4>2, <4>3
      <4>5. Heard' # <<>>
        BY <2>1, <4>1, <4>2, <4>3
      <4> QED
        BY <4>4, <4>5 DEF LooksLikeCall
    <3>2. CASE Heard' = Heard
      BY <3>2 DEF LooksLikeCall
    <3> QED
      BY <1>2, <3>1, <3>2, TextSteps DEF Closes, Heard
  <2>4. CASE emu.flushed
    <3>1. Closes /\ TransformEnd
      BY <1>2, <2>4, TextSteps DEF Transform
    <3>2. emu' = emu /\ out' = <<>> /\ Heard' = Heard
      BY <2>4, <3>1 DEF TransformEnd, Closes, Heard
    <3>3. Starts(wire') = Starts(wire)
      BY <1>2, <3>2, WireGrowing DEF WireGrows
    <3>4. Spells(wire') <=> Spells(wire)
      BY <3>3 DEF Spells
    <3>5. CallIn(Heard') = CallIn(Heard)
      BY <3>2
    <3> QED
      BY <2>1, <2>2, <2>3, <2>4, <3>2, <3>3, <3>4, <3>5 DEF CallInv
  <2>5. CASE ~emu.flushed
    <3>1. emu.buffer = Heard /\ (emu.buffering <=> Heard # <<>>) /\ Unsaid(wire)
      BY <2>1, <2>2, <2>3, <2>5 DEF CallInv
    <3>2. CASE Heard' = Heard /\ emu' = emu /\ out' = <<>> /\ upstream' # "closed"
      <4>1. Unsaid(wire')
        BY <1>2, <3>1, <3>2, UnsaidGoesOn
      <4> QED
        BY <2>5, <3>1, <3>2, <4>1
    <3>3. ASSUME emu'.flushed, Heard' = Heard,
                 \/ out' = <<Unbuffered(Heard, TRUE)>>
                 \/ Heard = <<>> /\ \A d : out' = <<d>> => ~d.content /\ d.tool = NoTool
          PROVE  /\ Spells(wire') <=> CallIn(Heard') # {}
                 /\ Spells(wire') => \A e \in Starts(wire') : e.kind # "text"
      <4>1. CASE out' = <<Unbuffered(Heard, TRUE)>>
        <5>1. Heard \in Seq(Texts)
          BY <2>1, HeardTyped DEF ParserInv
        <5>2. CallIn(Heard') = CallIn(Heard)
          BY <3>3
        <5> QED
          BY <1>2, <2>1, <3>1, <3>3, <4>1, <5>1, <5>2, HeldIsBegun
      <4>2. CASE Heard = <<>> /\ \A d : out' = <<d>> => ~d.content /\ d.tool = NoTool
        <5>1. Unsaid(wire')
          BY <1>2, <3>1, <4>2, UnsaidGoesOn
        <5>2. ~Spells(wire')
          BY <5>1 DEF Unsaid, Spells
        <5>3. CallIn(<<>>) = {}
          BY DEF CallIn, Openings, Inside
        <5> QED
          BY <3>3, <4>2, <5>2, <5>3
      <4> QED
        BY <3>3, <4>1, <4>2
    <3>4. CASE Parses /\ Transform
      <4>1. upstream' # "closed"
        BY <2>1, <3>4 DEF Parses, Reason, Write, ToolBegins, ToolGoesOn,
          Usage, Done, FlushAtEnd, ParserInv
      <4>2. CASE /\ ~emu'.flushed
                 /\ emu'.buffer = Heard' /\ (emu'.buffering <=> Heard' # <<>>)
                 /\ \A d : out' = <<d>> => ~d.content /\ d.tool = NoTool
        <5>1. Unsaid(wire')
          BY <1>2, <3>1, <4>2, UnsaidGoesOn
        <5> QED
          BY <4>1, <4>2, <5>1
      <4>3. CASE /\ emu'.flushed /\ Heard' = Heard
                 /\ \/ out' = <<Unbuffered(Heard, TRUE)>>
                    \/ Heard = <<>> /\ \A d : out' = <<d>> => ~d.content /\ d.tool = NoTool
        BY <3>3, <4>1, <4>3
      <4> QED
        BY <2>1, <3>1, <3>4, <4>2, <4>3, CallPasses
    <3>5. CASE Closes /\ TransformEnd
      <4>1. Heard' = Heard
        BY <3>5 DEF Closes, Heard
      <4>2. CASE Heard # <<>>
        <5>1. Flush(Heard, TRUE)
          BY <2>5, <3>1, <3>5, <4>2 DEF TransformEnd
        <5>2. ~Inverted(Heard)
          BY <2>1, <5>1 DEF Flush, EmulationInv
        <5>3. emu'.flushed /\ out' = <<Unbuffered(Heard, TRUE)>>
          BY <2>1, <5>1, <5>2 DEF Flush, EmulationInv
        <5> QED
          BY <3>3, <4>1, <5>3
      <4>3. CASE Heard = <<>>
        <5>1. emu' = emu /\ out' = <<>>
          BY <3>1, <3>5, <4>3 DEF TransformEnd
        <5>2. Unsaid(wire')
          BY <1>2, <3>1, <5>1, UnsaidGoesOn
        <5> QED
          BY <2>5, <3>1, <4>1, <4>3, <5>1, <5>2
      <4> QED
        BY <4>2, <4>3
    <3> QED
      BY <1>2, <3>2, <3>4, <3>5, TextSteps
  <2> QED
    BY <2>4, <2>5
<1> QED
  BY <1>1, <1>2

LEMMA AlwaysCall == Spec => []CallInv
BY AlwaysBase, AlwaysStarts, CallInit, CallNext, PTL DEF Spec

\* Text that begins like a call and fits the buffer becomes a tool call if there
\* is one where calls are looked for, and text if not, and never both.
THEOREM CallsAlwaysFound == Spec => []CallsFound
<1>1. Base /\ CallInv => CallsFound
  <2> SUFFICES ASSUME Base, CallInv, Over, ~native, ~emu.outgrown, Heard # <<>>,
                      LooksLikeCall(Heard)
               PROVE  /\ Announced <=> HasCallIn(Heard)
                      /\ Announced => ~\E i \in Positions("start") : wire[i].kind = "text"
    BY DEF CallsFound
  <2>1. Heard \in Seq(Texts) /\ wire \in Seq(Events)
    BY HeardTyped DEF Base, ParserInv, Writes, Book
  <2>2. Announced <=> Spells(wire)
    BY <2>1, AnnouncedIs
  <2>3. HasCallIn(Heard) <=> CallIn(Heard) # {}
    BY <2>1, HasCallIs
  <2>4. emu.flushed
    BY DEF CallInv, Over
  <2>5. /\ Spells(wire) <=> CallIn(Heard) # {}
        /\ Spells(wire) => \A e \in Starts(wire) : e.kind # "text"
    BY <2>4 DEF CallInv, Over
  <2>6. ASSUME NEW i \in Positions("start")
        PROVE  wire[i] \in Starts(wire)
    <3>1. i \in 1 .. Len(wire) /\ wire[i].type = "start"
      <4> HIDE DEF Events
      <4> QED
        BY <2>1 DEF Positions
    <3> QED
      BY <3>1 DEF Starts, Elements
  <2> QED
    BY <2>2, <2>3, <2>5, <2>6
<1> QED
  BY <1>1, AlwaysBase, AlwaysCall, PTL
=============================================================================
