----------------------------- MODULE SseParser -----------------------------
(***************************************************************************)
(* The upstream's event stream and the gateway's parser of it              *)
(* (src/src/provider/cloud/sse_parser.rs).                                 *)
(*                                                                         *)
(* An upstream that speaks the OpenAI dialect sends lines.  Most of them   *)
(* carry a delta, with reasoning, text and entries of tool calls in any    *)
(* mixture; then comes, if it was asked for (stream_options), its usage,   *)
(* and "[DONE]", and then the connection closes.  The upstream may report  *)
(* an error, and the connection may end early.  The parser makes of each   *)
(* line at most one chunk or one error.                                    *)
(*                                                                         *)
(* Of a delta it takes one thing: its reasoning, or else its text, or else *)
(* the first of its tool_calls.  The rest is lost.  It holds a tool call   *)
(* back until the next one begins or the stream ends, and takes every      *)
(* entry without a name for more of the arguments of the call held back,   *)
(* whatever the entry's `index` says.                                      *)
(*                                                                         *)
(* An upstream that was not given the tools, because the gateway describes *)
(* them in the prompt instead (ToolEmulation), spells its calls out as     *)
(* text.                                                                   *)
(*                                                                         *)
(* Abstracted: the bytes and how they are cut into lines; the text of the  *)
(* pieces but for the braces and tags in it.  A call's arguments come with *)
(* its name, or in one more fragment; fragments of several calls may be    *)
(* interleaved.  Of the entries a delta loses one stands for all.          *)
(***************************************************************************)
EXTENDS Naturals, Sequences, FiniteSets

CONSTANTS
    MaxPieces,      \* bound: deltas with reasoning or text, and tool calls
    MaxTools,       \* bound: tool calls
    MaxSpelled,     \* bound: deltas of an upstream that spells calls out
    UsageLine       \* whether usage comes before "[DONE]", on a line of its own

ASSUME SseParserAssumption ==
    /\ MaxPieces \in Nat /\ MaxTools \in Nat /\ MaxSpelled \in Nat
    /\ UsageLine \in BOOLEAN

VARIABLES
    native,     \* whether the upstream was given the tools
    upstream,   \* how far the upstream is
    pieces,     \* the deltas with reasoning or text sent so far
    tools,      \* the tool calls begun so far, numbered from 1
    half,       \* those of them that lack the second fragment
    pending,    \* SseParseState.pending_tool
    parsed,     \* the chunk the last step yielded, if it did
    said,       \* history: the text sent so far
    lost,       \* history: the calls whose beginning was lost
    spoilt,     \* history: the calls that lost or were given a fragment
    cut         \* history: an error, or an end without "[DONE]"

upstreamVars == <<tools, half, lost, spoilt>>

parserVars ==
    <<native, upstream, pieces, upstreamVars, pending, parsed, said, cut>>

Tools == 1 .. MaxTools

NoTool == 0

\* The number of a call spelled out in text: it has no id.
Spelled == MaxTools + 1

\* A piece of text.  "call" opens an object with a name in it and "json" one
\* without a name, "tail" is the brace that closes one and a space, "tag" is
\* <tool_use>, "untag" is </tool_use>, and "plain" is a word.
Texts == {"plain", "call", "json", "tail", "tag", "untag"}

\* A piece of text the upstream sent, by itself ("content") or in a delta with
\* reasoning ("drowned").
Uttered == [type : {"content", "drowned"}, text : Seq(Texts)]

\* The arguments of a tool call held back: the first fragment of its own, all
\* of them, or anything else.
NoPending == [tool |-> NoTool, args |-> "half"]

\* LLMChunk.  `text` is the content or a call's arguments, in pieces.  A call of
\* the upstream's own has <<"args">> for the arguments the upstream gave it, and
\* <<>> for any others.
Chunk ==
    [reasoning : BOOLEAN, content : BOOLEAN, tool : Tools \cup {NoTool, Spelled},
     text : Seq(Texts \cup {"args"}), done : BOOLEAN]

ParserTypeOK ==
    /\ native \in BOOLEAN
    /\ upstream \in {"open", "ending", "done", "over", "closed"}
    /\ pieces \in Nat
    /\ tools \in 0 .. MaxTools
    /\ half \subseteq Tools
    /\ pending \in [tool : Tools \cup {NoTool}, args : {"half", "whole", "garbled"}]
    /\ parsed \in Seq(Chunk) /\ Len(parsed) <= 1
    /\ said \in Seq(Uttered)
    /\ lost \subseteq Tools
    /\ spoilt \subseteq Tools
    /\ cut \in BOOLEAN

ParserInit ==
    /\ native \in BOOLEAN
    /\ upstream = "open"
    /\ pieces = 0
    /\ tools = 0
    /\ half = {}
    /\ pending = NoPending
    /\ parsed = <<>>
    /\ said = <<>>
    /\ lost = {}
    /\ spoilt = {}
    /\ cut = FALSE

-----------------------------------------------------------------------------
(* What the parser makes of a line.                                        *)

\* A chunk with no field set: the chunk of a usage line.
Bare(done) ==
    [reasoning |-> FALSE, content |-> FALSE, tool |-> NoTool, text |-> <<>>,
     done |-> done]

ReasoningChunk == [Bare(FALSE) EXCEPT !.reasoning = TRUE]

TextChunk(text, done) == [Bare(done) EXCEPT !.content = TRUE, !.text = text]

\* A sequence that is there on a condition.
When(condition, seq) == IF condition THEN seq ELSE <<>>

\* The tool call held back, or none, as a chunk that may be the last.
\* (Arguments that are not a JSON value become {}.)
Flushed(done) ==
    [Bare(done) EXCEPT
        !.tool = pending.tool,
        !.text = IF pending.args = "whole" THEN <<"args">> ELSE <<>>]

-----------------------------------------------------------------------------
(* The lines.                                                              *)

Room == IF native THEN pieces + tools < MaxPieces ELSE pieces < MaxSpelled

\* The call whose beginning was the last to be heard.
Latest ==
    LET heard == (1 .. tools) \ lost
    IN  IF heard = {} THEN NoTool ELSE CHOOSE t \in heard : \A k \in heard : k <= t

\* The calls as a delta leaves them whose entries but the first, or all, are
\* lost: `n`, `h` and `s` are tools, half and spoilt after what is not lost.
\* What is lost is the beginning of a call, or a fragment.
Unheard(n, h, s) ==
    \/ /\ tools' = n
       /\ half' = h
       /\ spoilt' = s
       /\ UNCHANGED lost
    \/ /\ native
       /\ n < MaxTools
       /\ tools' = n + 1
       /\ half' \in {h, h \cup {n + 1}}
       /\ spoilt' = s
       /\ lost' = lost \cup {n + 1}
    \/ \E t \in half \cap h :
          /\ tools' = n
          /\ half' = h \ {t}
          /\ spoilt' = s \cup {t}
          /\ UNCHANGED lost

\* A delta with reasoning, whatever else is in it.
Reason ==
    /\ upstream = "open"
    /\ Room
    /\ pieces' = pieces + 1
    /\ \/ UNCHANGED said
       \/ said' = Append(said, [type |-> "drowned", text |-> <<"plain">>])
    /\ Unheard(tools, half, spoilt)
    /\ parsed' = <<ReasoningChunk>>
    /\ UNCHANGED <<native, upstream, pending, cut>>

\* A delta with text and no reasoning.
Write ==
    /\ upstream = "open"
    /\ Room
    /\ pieces' = pieces + 1
    /\ \E text \in IF native THEN {"plain"} ELSE Texts :
          /\ said' = Append(said, [type |-> "content", text |-> <<text>>])
          /\ parsed' = <<TextChunk(<<text>>, FALSE)>>
    /\ Unheard(tools, half, spoilt)
    /\ UNCHANGED <<native, upstream, pending, cut>>

\* Variant of ToolBegins that puts the new tool call in the place of the one
\* held back.
ToolBegins_Overwrites ==
    /\ upstream = "open"
    /\ native
    /\ Room /\ tools < MaxTools
    /\ \E args \in {"half", "whole"} :
          /\ pending' = [tool |-> tools + 1, args |-> args]
          /\ Unheard(tools + 1,
                     IF args = "half" THEN half \cup {tools + 1} ELSE half, spoilt)
    /\ parsed' = <<>>
    /\ UNCHANGED <<native, upstream, pieces, said, cut>>

\* A delta whose first tool call has a name: the one held back is complete.
ToolBegins ==
    /\ upstream = "open"
    /\ native
    /\ Room /\ tools < MaxTools
    /\ \E args \in {"half", "whole"} :
          /\ pending' = [tool |-> tools + 1, args |-> args]
          /\ Unheard(tools + 1,
                     IF args = "half" THEN half \cup {tools + 1} ELSE half, spoilt)
    /\ parsed' = When(pending # NoPending, <<Flushed(FALSE)>>)
    /\ UNCHANGED <<native, upstream, pieces, said, cut>>

\* The calls a fragment of t spoils: t and the call it is given to.
Spoils(t) == {t, Latest} \ {NoTool}

\* Variant of ToolGoesOn that lets the fragment go.
ToolGoesOn_Ignored ==
    /\ upstream = "open"
    /\ \E t \in half :
          Unheard(tools, half \ {t},
                  IF t = Latest THEN spoilt ELSE spoilt \cup Spoils(t))
    /\ parsed' = <<>>
    /\ UNCHANGED <<native, upstream, pieces, pending, said, cut>>

\* A delta whose first tool call has no name: a fragment of any call, and it is
\* appended to the arguments of the call held back.
ToolGoesOn ==
    /\ upstream = "open"
    /\ \E t \in half :
          /\ pending' =
                IF pending = NoPending THEN pending
                ELSE [pending EXCEPT
                        !.args = IF @ = "half" /\ t = pending.tool
                                 THEN "whole" ELSE "garbled"]
          /\ Unheard(tools, half \ {t},
                     IF t = Latest THEN spoilt ELSE spoilt \cup Spoils(t))
    /\ parsed' = <<>>
    /\ UNCHANGED <<native, upstream, pieces, said, cut>>

\* Usage on a line of its own.  On a line with choices it yields no chunk.
Usage ==
    /\ UsageLine /\ native
    /\ upstream = "open" /\ half = {}
    /\ upstream' = "ending"
    /\ parsed' = <<Bare(FALSE)>>
    /\ UNCHANGED <<native, pieces, upstreamVars, pending, said, cut>>

\* No provider that is told the tools in the prompt is asked for its usage.
MaySayDone ==
    \/ upstream = "ending"
    \/ upstream = "open" /\ half = {} /\ ~(UsageLine /\ native)
    \/ upstream = "open" /\ cut

\* "[DONE]": the tool call held back, or a bare last chunk.
Done ==
    /\ MaySayDone
    /\ upstream' = "done"
    /\ pending' = NoPending
    /\ parsed' = <<Flushed(TRUE)>>
    /\ UNCHANGED <<native, pieces, upstreamVars, said, cut>>

\* The end of the connection flushes the tool call held back, once.
FlushAtEnd ==
    /\ upstream \in {"open", "ending", "over"}
    /\ pending # NoPending
    /\ upstream' = "over"
    /\ pending' = NoPending
    /\ cut' = TRUE
    /\ parsed' = <<Flushed(TRUE)>>
    /\ UNCHANGED <<native, pieces, upstreamVars, said>>

\* A finish_reason that is an error; the upstream may still send "[DONE]".
ReportsError ==
    /\ upstream = "open"
    /\ ~cut
    /\ cut' = TRUE
    /\ parsed' = <<>>
    /\ UNCHANGED <<native, upstream, pieces, upstreamVars, pending, said>>

\* The connection breaks; the next poll of the byte stream is its end.
Breaks ==
    /\ upstream \in {"open", "ending", "done"}
    /\ upstream' = "over"
    /\ cut' = TRUE
    /\ parsed' = <<>>
    /\ UNCHANGED <<native, pieces, upstreamVars, pending, said>>

\* The connection ends and nothing is held back: so does the chunk stream.
Closes ==
    /\ upstream # "closed"
    /\ pending = NoPending
    /\ upstream' = "closed"
    /\ cut' = (cut \/ upstream # "done")
    /\ parsed' = <<>>
    /\ UNCHANGED <<native, pieces, upstreamVars, pending, said>>
=============================================================================
