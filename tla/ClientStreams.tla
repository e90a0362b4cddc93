--------------------------- MODULE ClientStreams ---------------------------
(***************************************************************************)
(* Streams from an upstream to clients of the three protocols: the         *)
(* parser, tool emulation if the upstream was not given the tools, and the *)
(* three serializers, each fed the same chunks.                            *)
(*                                                                         *)
(* The properties are about what the clients receive.                      *)
(***************************************************************************)
EXTENDS AnthropicStream, ResponsesStream, OpenAIStream

vars == <<parserVars, emulationVars, anthropicVars, responsesVars, openaiVars>>

TypeOK ==
    /\ ParserTypeOK
    /\ EmulationTypeOK
    /\ AnthropicTypeOK
    /\ ResponsesTypeOK
    /\ OpenAITypeOK

Init ==
    /\ ParserInit
    /\ EmulationInit
    /\ AnthropicInit
    /\ ResponsesInit
    /\ OpenAIInit

\* A line of the upstream, or the end of its bytes, that may give a chunk.
Parses ==
    \/ Reason
    \/ Write
    \/ ToolBegins
    \/ ToolGoesOn
    \/ Usage
    \/ Done
    \/ FlushAtEnd

Next ==
    \/ Parses /\ Transform /\ AnthropicChunk /\ ResponsesChunk /\ OpenAIChunk
    \* An error overtakes what the transform holds back.
    \/ /\ ReportsError \/ Breaks
       /\ Transform
       /\ AnthropicError /\ ResponsesError /\ OpenAIError
    \/ Closes /\ TransformEnd /\ AnthropicEnd /\ ResponsesChunk /\ OpenAIChunk

Spec == Init /\ [][Next]_vars
-----------------------------------------------------------------------------
(* An Anthropic client takes the events as a sequence of content blocks,   *)
(* numbered from 0 and one at a time.                                      *)

Positions(type) == {i \in DOMAIN wire : wire[i].type = type}

\* The block that is open just before position i: the positions of the starts
\* that no stop with their index follows.
OpenAt(i) ==
    {j \in Positions("start") :
        /\ j < i
        /\ \A k \in Positions("stop") :
              j < k /\ k < i => wire[k].index # wire[j].index}

\* The upstream sent neither a piece nor a tool call: then the last chunk
\* stops a block that was never started.
Empty == pieces = 0 /\ tools = 0

\* "tracks which blocks are open so they can be closed correctly"
\* (serializer.rs): at most one block is open; the blocks are numbered from 0;
\* what is said of a block is said while it is open, and what is said in a
\* block is of the block's kind, and of its tool.  It holds as long as nothing
\* but the end of the stream empties the buffer of calls spelled out: text that
\* comes with the end goes into the block of a call found before.
BlocksWellFormed ==
    ~cut /\ ~Empty /\ ~emu.outgrown =>
        /\ \A i \in Positions("start") :
              /\ OpenAt(i) = {}
              /\ wire[i].index = Cardinality({j \in Positions("start") : j < i})
        /\ \A i \in Positions("delta") :
              \E j \in OpenAt(i) :
                  wire[i] = [wire[j] EXCEPT !.type = "delta", !.text = wire[i].text]
        /\ \A i \in Positions("signature") \cup Positions("stop") :
              \E j \in OpenAt(i) : wire[i].index = wire[j].index

\* Clients keep a thinking block only if it is signed: the event before the
\* block's stop is its signature, also when the stream was cut.
ThinkingSigned ==
    \A i \in Positions("stop") : \A j \in OpenAt(i) :
        wire[j].kind = "thinking" =>
            wire[i - 1] = BlockEvent("signature", wire[j].index)

\* The chunk stream is over, and not by a panic.
Over == upstream = "closed" /\ ~emu.broken

\* "consecutive tool calls each receive proper content_block_stop and
\* content_block_start boundaries" (CHANGELOG): when the stream is over, every
\* tool call the upstream began has a block of its own, but for those whose
\* beginning shared its delta with reasoning, text or a call ahead of it: the
\* parser loses them, and they have none.
ToolsAnnounced ==
    Over /\ ~cut =>
        \A t \in 1 .. tools :
            Cardinality({i \in Positions("start") : wire[i].tool = t})
                = IF t \in lost THEN 0 ELSE 1

\* A tool call of a whole stream has the arguments the upstream gave it, for
\* both clients, unless a fragment of them was lost, or was given to another
\* call, or a fragment of another call was given to it: then it has not.  The
\* parser goes by the order of the fragments and not by their `index`.
ArgumentsWhole ==
    Over /\ ~cut =>
        \A t \in (1 .. tools) \ lost :
            LET args == IF t \in spoilt THEN <<>> ELSE <<"args">>
            IN  /\ \E i \in Positions("delta") :
                      wire[i].tool = t /\ wire[i].text = args
                /\ \E i \in DOMAIN feed :
                      feed[i] = Step("done", "call", t, args)

\* A whole stream ends as the Anthropic protocol has it: every block stopped,
\* then why the message stopped ("tool_use" if there were tool calls in it,
\* however much came after them), then its end.
EndsProperly ==
    Over /\ ~cut =>
        LET n == Len(wire)
            called == \E i \in Positions("delta") : wire[i].kind = "tool_use"
        IN  /\ OpenAt(n) = {}
            /\ Positions("message_stop") = {n}
            /\ Positions("message_delta") = {n - 1}
            /\ wire[n - 1].kind = IF called THEN "tool_use" ELSE "end_turn"

-----------------------------------------------------------------------------
(* A client of the Responses protocol takes the events as a sequence of    *)
(* output items, one at a time.                                            *)

FeedAt(type) == {i \in DOMAIN feed : feed[i].type = type}

ItemsOpenAt(i) ==
    {j \in FeedAt("added") :
        /\ j < i
        /\ \A k \in FeedAt("done") : j < k /\ k < i => feed[k].item # feed[j].item}

\* "tracks which items/parts are open so they are closed in the correct order
\* when transitioning between block types or when the stream terminates"
\* (serializer.rs): the response is created first; an item is added while none
\* is open; what is said of an item is said while it is open; nothing but an
\* error follows the completion.  The comment's last words the code does not
\* keep: reasoning that nothing came after is open when the response is
\* completed.  No other item is.
ItemsWellFormed ==
    /\ \A i \in FeedAt("created") : \A k \in 1 .. i - 1 : feed[k].type = "error"
    /\ \A i \in FeedAt("added") : ItemsOpenAt(i) = {}
    /\ \A i \in DOMAIN feed :
          feed[i].type \in {"part", "delta", "part_done", "done"} =>
              \E j \in ItemsOpenAt(i) :
                  feed[i].item = feed[j].item /\ feed[i].tool = feed[j].tool
    /\ \A i \in FeedAt("completed") :
          /\ \A k \in i + 1 .. Len(feed) : feed[k].type = "error"
          /\ \A j \in ItemsOpenAt(i) : feed[j].item = "rs_1"

\* An OpenAI client of an emulated stream is told the role once and first, and
\* that the answer is at its end once and last.
LinesWellFormed ==
    Over /\ ~cut /\ ~native =>
        /\ lines[1].type = "role"
        /\ \A i \in DOMAIN lines \ {1} : lines[i].type # "role"
        /\ {i \in DOMAIN lines : lines[i].type = "[DONE]"} = {Len(lines)}
        /\ {i \in DOMAIN lines : lines[i].type = "stop"} = {Len(lines) - 1}

-----------------------------------------------------------------------------
(* What is said is told.                                                   *)

\* The text the events of a wire have, one after the other.
Told(events, types) ==
    LET told[i \in 0 .. Len(events)] ==
            IF i = 0 THEN <<>>
            ELSE IF events[i].type \in types /\ events[i].text # <<"args">>
                 THEN told[i - 1] \o events[i].text
            ELSE told[i - 1]
    IN  told[Len(events)]

\* What the parser heard: the text that did not share its delta with reasoning.
Heard == Told(said, {"content"})

Announced == \E i \in Positions("start") : wire[i].tool = Spelled

\* The text is what was heard but for what stood around calls in the buffer: its
\* pieces are those at the places f of what was heard, in order, and a piece left
\* out has a call beside it, or others that were left out up to the call.
ButAround(told, heard) ==
    \E f \in [DOMAIN told -> DOMAIN heard] :
        /\ \A i \in DOMAIN told : told[i] = heard[f[i]]
        /\ \A i, j \in DOMAIN told : i < j => f[i] < f[j]
        /\ \A p \in DOMAIN heard : (\A i \in DOMAIN told : f[i] # p) =>
              \E i \in 1 .. Len(told) - 1 :
                  /\ told[i] = "call" /\ told[i + 1] = "tail" /\ f[i + 1] = f[i] + 1
                  /\ \A k \in DOMAIN told : /\ ~(p < f[k] /\ f[k] < f[i])
                                            /\ ~(f[i + 1] < f[k] /\ f[k] < p)

\* When the stream is over, whatever ended it, every client was told the text
\* the upstream said, once and in its order, held back or not.  Only two kinds
\* of text are missing: what shared its delta with reasoning, which no client
\* is told, and what stands around calls that were spelled out.
ToldAsSaid ==
    Over =>
        \A told \in {Told(wire, {"delta"}), Told(feed, {"delta"})}
                    \cup (IF native THEN {}
                          ELSE {Told(lines, {"content", "tool_call"})}) :
            IF Announced THEN ButAround(told, Heard) ELSE told = Heard

\* A text has a call in it: where calls are looked for, which is between the tags
\* if it has both, the first brace opens a call, and the last one closes it.
HasCallIn(text) ==
    \E i \in 1 .. Len(text) - 1 :
        /\ {i, i + 1} \subseteq Inside(text)
        /\ SubSeq(text, i, i + 1) = <<"call", "tail">>
        /\ \A k \in Inside(text) : k < i => text[k] \notin {"call", "json"}
        /\ \A k \in Inside(text) : k > i + 1 => text[k] # "tail"

\* Text that begins like a call and fits the buffer reaches the clients as a
\* tool call if there is one call in it, and as text if not, whatever ended the
\* stream; and not as both.
CallsFound ==
    Over /\ ~native /\ ~emu.outgrown /\ Heard # <<>> /\ LooksLikeCall(Heard) =>
        /\ Announced <=> HasCallIn(Heard)
        /\ Announced => ~\E i \in Positions("start") : wire[i].kind = "text"
=============================================================================
