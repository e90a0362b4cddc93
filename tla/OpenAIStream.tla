---------------------------- MODULE OpenAIStream ----------------------------
(***************************************************************************)
(* A chunk stream on its way to an OpenAI client: serialize_openai_chunk   *)
(* (src/src/protocol/serializer.rs) and what keeps its `sent_role`         *)
(* (src/src/protocol/stream_dispatch.rs).  Only emulated tool calls bring  *)
(* a stream here; any other one is passed through byte for byte.           *)
(***************************************************************************)
EXTENDS ToolEmulation

VARIABLES
    sentRole,   \* whether the role was sent
    lines       \* the lines sent to the client so far

openaiVars == <<sentRole, lines>>

Line(type, tool, text) == [type |-> type, tool |-> tool, text |-> text]

Lines ==
    [type : {"role", "content", "reasoning", "tool_call", "stop", "[DONE]", "error"},
     tool : {NoTool, Spelled},
     text : Seq(Texts)]

OpenAITypeOK ==
    /\ sentRole \in BOOLEAN
    /\ lines \in Seq(Lines)

OpenAIInit ==
    /\ sentRole = FALSE
    /\ lines = <<>>

LineOf(type) == Line(type, NoTool, <<>>)

\* Variant of Written that sends the role with every chunk.
Written_RoleAgain(c) ==
    <<LineOf("role")>>
        \o When(c.content /\ c.text # <<>>, <<Line("content", NoTool, c.text)>>)
        \o When(c.reasoning, <<LineOf("reasoning")>>)
        \o When(c.tool # NoTool, <<Line("tool_call", c.tool, c.text)>>)
        \o When(c.done, <<LineOf("stop"), LineOf("[DONE]")>>)

\* serialize_openai_chunk.  The finish reason is always "stop".
Written(c) ==
    When(~sentRole, <<LineOf("role")>>)
        \o When(c.content /\ c.text # <<>>, <<Line("content", NoTool, c.text)>>)
        \o When(c.reasoning, <<LineOf("reasoning")>>)
        \o When(c.tool # NoTool, <<Line("tool_call", c.tool, c.text)>>)
        \o When(c.done, <<LineOf("stop"), LineOf("[DONE]")>>)

-----------------------------------------------------------------------------

OpenAIChunk ==
    IF native \/ out' = <<>>
    THEN UNCHANGED openaiVars
    ELSE /\ lines' = lines \o Written(out'[1])
         /\ sentRole' = TRUE

OpenAIError ==
    /\ lines' = IF native THEN lines ELSE Append(lines, LineOf("error"))
    /\ UNCHANGED sentRole
=============================================================================
