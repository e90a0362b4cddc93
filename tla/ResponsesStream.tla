-------------------------- MODULE ResponsesStream --------------------------
(***************************************************************************)
(* A chunk stream on its way to a client of the Responses protocol whose   *)
(* provider does not speak it: ResponsesStreamState                        *)
(* (src/src/protocol/serializer.rs) keeps track of output items, and       *)
(* responses_conversion_sse (src/src/protocol/mod.rs) sends its events.    *)
(*                                                                         *)
(* Of an item's life this module has: its addition, for a message also     *)
(* that of its text part, its deltas, the part's end and the item's.       *)
(***************************************************************************)
EXTENDS ToolEmulation

VARIABLES
    items,      \* ResponsesStreamState
    feed        \* the events sent to the client so far

responsesVars == <<items, feed>>

\* An item is "rs_1", "msg_1", or a function call, which has a tool.
Step(type, item, tool, text) ==
    [type |-> type, item |-> item, tool |-> tool, text |-> text]

Steps ==
    [type : {"created", "added", "part", "delta", "part_done", "done",
             "completed", "error"},
     item : {"", "rs_1", "msg_1", "call"},
     tool : Tools \cup {NoTool, Spelled},
     text : Seq(Texts \cup {"args"})]

ResponsesTypeOK ==
    /\ items \in [started : BOOLEAN, message : BOOLEAN, part : BOOLEAN,
                  reasoning : BOOLEAN]
    /\ ~(items.reasoning /\ items.message)
    /\ items.part = items.message
    /\ feed \in Seq(Steps)

ResponsesInit ==
    /\ items = [started |-> FALSE, message |-> FALSE, part |-> FALSE,
                reasoning |-> FALSE]
    /\ feed = <<>>

-----------------------------------------------------------------------------
(* serialize_chunk: the events for chunk c in state r, and the next state. *)

StepOf(type, item) == Step(type, item, NoTool, <<>>)

\* close_text_and_message.
MessageDone(r) ==
    When(r.part, <<StepOf("part_done", "msg_1")>>)
        \o When(r.message, <<StepOf("done", "msg_1")>>)

ReasoningDone(r) == When(r.reasoning, <<StepOf("done", "rs_1")>>)

\* Variant of Reasoned that leaves the message open.
Reasoned_InMessage(r) ==
    When(~r.reasoning, <<StepOf("added", "rs_1")>>) \o <<StepOf("delta", "rs_1")>>

Reasoned(r) ==
    MessageDone(r)
        \o When(~r.reasoning, <<StepOf("added", "rs_1")>>)
        \o <<StepOf("delta", "rs_1")>>

Texted(r, text) ==
    ReasoningDone(r)
        \o When(~r.message, <<StepOf("added", "msg_1")>>)
        \o When(~r.part, <<StepOf("part", "msg_1")>>)
        \o <<Step("delta", "msg_1", NoTool, text)>>

\* A function call is an item that is added and done at once.
Called(r, tool, text) ==
    MessageDone(r) \o ReasoningDone(r)
        \o <<Step("added", "call", tool, <<>>), Step("delta", "call", tool, text),
             Step("part_done", "call", tool, text), Step("done", "call", tool, text)>>

Opened(r, message, reasoning) ==
    [r EXCEPT !.message = message, !.part = message, !.reasoning = reasoning]

\* Empty text is left out.  A chunk has text, reasoning or a call, or none, and
\* reasoning stays open at the end.
Converted(r, c) ==
    LET speaks == c.content /\ c.text # <<>>
        s == CASE c.reasoning -> Opened(r, FALSE, TRUE)
               [] speaks -> Opened(r, TRUE, FALSE)
               [] c.tool # NoTool -> Opened(r, FALSE, FALSE)
               [] OTHER -> r
    IN  [events |->
            When(~r.started, <<StepOf("created", "")>>)
                \o When(c.reasoning, Reasoned(r))
                \o When(speaks, Texted(r, c.text))
                \o When(c.tool # NoTool, Called(r, c.tool, c.text))
                \o When(c.done, MessageDone(s) \o <<StepOf("completed", "")>>),
         next |->
            [s EXCEPT !.started = TRUE, !.message = @ /\ ~c.done,
                      !.part = @ /\ ~c.done]]

-----------------------------------------------------------------------------

ResponsesChunk ==
    IF out' = <<>>
    THEN UNCHANGED responsesVars
    ELSE /\ feed' = feed \o Converted(items, out'[1]).events
         /\ items' = Converted(items, out'[1]).next

ResponsesError ==
    /\ feed' = Append(feed, StepOf("error", ""))
    /\ UNCHANGED items
=============================================================================
