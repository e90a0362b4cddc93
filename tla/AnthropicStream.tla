-------------------------- MODULE AnthropicStream --------------------------
(***************************************************************************)
(* A chunk stream on its way to an Anthropic client: AnthropicStreamState  *)
(* (src/src/protocol/serializer.rs), which keeps track of content blocks,  *)
(* and the wrapper that adds the message's beginning and end               *)
(* (src/src/protocol/stream_dispatch.rs).                                  *)
(***************************************************************************)
EXTENDS ToolEmulation

VARIABLES
    ser,        \* AnthropicStreamState
    wire        \* the events sent to the client so far

anthropicVars == <<ser, wire>>

\* A content block's kind is "thinking", "text" or "tool_use".
Event(type, index, kind, tool, text) ==
    [type |-> type, index |-> index, kind |-> kind, tool |-> tool, text |-> text]

BlockEvent(type, index) == Event(type, index, "", NoTool, <<>>)

MessageEvent(type) == BlockEvent(type, 0)

Events ==
    [type : {"start", "delta", "signature", "stop", "message_start",
             "message_delta", "message_stop", "error"},
     index : Nat,
     kind : {"", "thinking", "text", "tool_use", "end_turn"},
     tool : Tools \cup {NoTool, Spelled},
     text : Seq(Texts \cup {"args"})]

AnthropicTypeOK ==
    /\ ser \in [index : Nat, needStart : BOOLEAN, text : BOOLEAN,
                reasoning : BOOLEAN, tool : BOOLEAN, hasTools : BOOLEAN]
    /\ Cardinality({k \in {"text", "reasoning", "tool"} : ser[k]}) <= 1
    /\ wire \in Seq(Events)

AnthropicInit ==
    /\ ser = [index |-> 0, needStart |-> TRUE, text |-> FALSE,
              reasoning |-> FALSE, tool |-> FALSE, hasTools |-> FALSE]
    /\ wire = <<MessageEvent("message_start")>>

-----------------------------------------------------------------------------
(* serialize_chunk: the events for chunk c in state s, and the next state. *)

\* Variant of NeedsClose from before "Anthropic Stream Tool Call Separation".
NeedsClose_NotTools(s, c) ==
    \/ s.reasoning /\ (c.content \/ c.tool # NoTool)
    \/ s.text /\ (c.tool # NoTool \/ c.reasoning)

\* An open block is closed before a block of another type, and a tool's block
\* before anything but the last chunk.
NeedsClose(s, c) ==
    \/ s.reasoning /\ (c.content \/ c.tool # NoTool)
    \/ s.text /\ (c.tool # NoTool \/ c.reasoning)
    \/ s.tool /\ ~c.done

\* Variant of Closing that leaves thinking unsigned.
Closing_Unsigned(s) == <<BlockEvent("stop", s.index)>>

Closing(s) ==
    When(s.reasoning, <<BlockEvent("signature", s.index)>>)
        \o <<BlockEvent("stop", s.index)>>

\* Variant of Closed that numbers the next block like the last.
Closed_SameIndex(s) ==
    [s EXCEPT !.needStart = TRUE, !.text = FALSE,
              !.reasoning = FALSE, !.tool = FALSE]

Closed(s) ==
    [s EXCEPT !.index = @ + 1, !.needStart = TRUE, !.text = FALSE,
              !.reasoning = FALSE, !.tool = FALSE]

\* A piece of a block, ahead of it the block's start if none is open.
Block(s, kind, tool, text) ==
    When(s.needStart, <<Event("start", s.index, kind, tool, <<>>)>>)
        \o <<Event("delta", s.index, kind, tool, text)>>

\* Variant of StopReason that asks for a tool call in the last chunk.
StopReason_LastChunk(s, c) ==
    IF c.tool # NoTool THEN "tool_use" ELSE "end_turn"

StopReason(s, c) ==
    IF s.hasTools \/ c.tool # NoTool THEN "tool_use" ELSE "end_turn"

\* emit_chunk_event.
Emitted(s, c) ==
    LET signature == <<BlockEvent("signature", s.index)>>
        closeReasoning == c.done /\ (s.reasoning \/ c.reasoning)
    IN  When(c.reasoning,
             Block(s, "thinking", NoTool, <<>>) \o When(closeReasoning, signature))
        \o When(c.content, Block(s, "text", NoTool, c.text))
        \o When(c.tool # NoTool, Block(s, "tool_use", c.tool, c.text))
        \o When(c.done,
                When(closeReasoning /\ ~c.reasoning, signature)
                \o <<BlockEvent("stop", s.index),
                     Event("message_delta", 0, StopReason(s, c), NoTool, <<>>)>>)

\* The flags after the events are emitted.
After(s, c) ==
    LET some == c.reasoning \/ c.content \/ c.tool # NoTool
        t == [s EXCEPT
                !.needStart = @ /\ ~some,
                !.reasoning = (@ \/ c.reasoning) /\ c.tool = NoTool,
                !.text = (@ \/ c.content) /\ c.tool = NoTool,
                !.tool = @ \/ c.tool # NoTool,
                !.hasTools = @ \/ c.tool # NoTool]
    IN  IF c.done THEN Closed(t) ELSE t

\* serialize_chunk for the chunk passed on, if there is one.
Reopened(c) == IF NeedsClose(ser, c) THEN Closed(ser) ELSE ser

Serialized(chunks) ==
    IF chunks = <<>>
    THEN <<>>
    ELSE LET c == chunks[1]
         IN  When(NeedsClose(ser, c), Closing(ser)) \o Emitted(Reopened(c), c)

Serialize(chunks) ==
    ser' = IF chunks = <<>> THEN ser ELSE After(Reopened(chunks[1]), chunks[1])

-----------------------------------------------------------------------------

AnthropicChunk ==
    /\ wire' = wire \o Serialized(out')
    /\ Serialize(out')

\* An error is an event of its own, past the serializer.
AnthropicError ==
    /\ wire' = Append(wire, MessageEvent("error"))
    /\ UNCHANGED ser

\* wrap_anthropic adds the message's end, whatever came before but a panic.
AnthropicEnd ==
    /\ wire' = wire \o Serialized(out')
                    \o When(~emu'.broken, <<MessageEvent("message_stop")>>)
    /\ Serialize(out')
=============================================================================
