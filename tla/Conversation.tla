---------------------------- MODULE Conversation ----------------------------
(***************************************************************************)
(* A conversation of several rounds between a client of one of the three   *)
(* protocols and an upstream that speaks the OpenAI dialect.  Neither the  *)
(* gateway nor the upstream remembers it: the client keeps its history in  *)
(* its protocol's form and sends all of it every time.  The gateway parses *)
(* it (src/src/protocol/openai.rs, anthropic.rs, responses.rs), describes  *)
(* the tools in the prompt if the upstream knows none                      *)
(* (src/src/capability), builds the upstream's body                        *)
(* (src/src/provider/cloud/openai.rs) and turns the answer into the        *)
(* client's form, whole or as a stream.  What an OpenAI client sends to    *)
(* have its answer whole goes to the upstream as it is, whatever the       *)
(* upstream knows (src/src/protocol/mod.rs).                               *)
(*                                                                         *)
(* Abstracted: the texts; what a stream goes through, which ClientStreams  *)
(* has; tools but for whether they are told; parameters such as the        *)
(* temperature.                                                            *)
(***************************************************************************)
EXTENDS Naturals, Sequences

CONSTANTS
    MaxRounds,  \* bound: answers in a conversation
    MaxCalls    \* bound: tool calls in an answer

ASSUME ConversationAssumption == MaxRounds \in Nat /\ MaxCalls \in Nat

VARIABLES
    client,     \* [protocol, streams, prompted]: what does not change
    upstream,   \* [emulated, ids]: whether it lacks tools, and gives calls ids
    history,    \* the client's history
    request,    \* [messages, tools]: what the upstream received last
    answers,    \* history: what the upstream answered, as it said it
    turn        \* whose turn it is

vars == <<client, upstream, history, request, answers, turn>>

\* Something said: its kind, the round, and its number in it.
Atom(kind, round, i) == <<kind, round, i>>

\* An entry of the client's history is a message, or an item without a role; it
\* has parts: "text", "image" (its data), "link" (to an image), "thinking",
\* "tool_use" and "tool_result".
Entry(role, parts) == [role |-> role, parts |-> parts]

NoId == <<"none", 0, 0>>

Part(kind, what, id) == [kind |-> kind, what |-> what, id |-> id]

Call(id, what) == [id |-> id, what |-> what]

\* provider::Message, and a message of the upstream's body.
Message(role, text, images, calls, of, reasoning) ==
    [role |-> role, text |-> text, images |-> images, calls |-> calls,
     of |-> of, reasoning |-> reasoning]

Says(role, text) == Message(role, text, <<>>, <<>>, NoId, <<>>)

\* The first n sequences, one after another.
Flat(seqs, n) ==
    LET flat[i \in 0 .. n] == IF i = 0 THEN <<>> ELSE flat[i - 1] \o seqs[i]
    IN  flat[n]

\* f of each element, all of them in one sequence, and the elements that pass.
Each(f(_), seq) == [i \in DOMAIN seq |-> f(seq[i])]

All(f(_), seq) == Flat(Each(f, seq), Len(seq))

Only(test(_), seq) == All(LAMBDA x : IF test(x) THEN <<x>> ELSE <<>>, seq)

Kinds(parts, kinds) == Only(LAMBDA p : p.kind \in kinds, parts)

Whats(parts, kinds) == Each(LAMBDA p : p.what, Kinds(parts, kinds))

Calls(parts) == Each(LAMBDA p : Call(p.id, p.what), Kinds(parts, {"tool_use"}))

-----------------------------------------------------------------------------
(* From the client's history to the upstream's body.                       *)

\* parse_openai_message.
ParseOpenAI(e) ==
    <<Message(e.role,
              Whats(e.parts, {"text", "tool_result"}),
              Kinds(e.parts, {"image", "link"}),
              Calls(e.parts),
              IF e.role = "tool" THEN e.parts[1].id ELSE NoId,
              Whats(e.parts, {"thinking"}))>>

\* Variant of ParseAnthropic that puts tool results behind the rest.
ParseAnthropic_ResultsLast(e) ==
    LET results == Kinds(e.parts, {"tool_result"})
        rest == Kinds(e.parts, {"text", "image", "thinking", "tool_use"})
    IN  (IF rest = <<>> /\ results # <<>>
         THEN <<>>
         ELSE <<Message(e.role, Whats(rest, {"text"}), Kinds(rest, {"image"}),
                        Calls(rest), NoId, Whats(rest, {"thinking"}))>>)
        \o Each(LAMBDA p : [Says("tool", <<p.what>>) EXCEPT !.of = p.id], results)

\* parse_anthropic_messages: each tool result is a message of its own, ahead of
\* what else there is.  An image by link has no data and is left out.
ParseAnthropic(e) ==
    LET results == Kinds(e.parts, {"tool_result"})
        rest == Kinds(e.parts, {"text", "image", "thinking", "tool_use"})
    IN  Each(LAMBDA p : [Says("tool", <<p.what>>) EXCEPT !.of = p.id], results)
        \o (IF rest = <<>> /\ results # <<>>
            THEN <<>>
            ELSE <<Message(e.role, Whats(rest, {"text"}), Kinds(rest, {"image"}),
                           Calls(rest), NoId, Whats(rest, {"thinking"}))>>)

\* parse_input_item: an item without a role is dropped, and of the others all
\* but the text.
ParseResponses(e) ==
    IF e.role = "" THEN <<>> ELSE <<Says(e.role, Whats(e.parts, {"text"}))>>

IsSystem(m) == m.role = "system"

\* Variant of SystemFirst that leaves the messages where they are.
SystemFirst_Not(messages) == messages

\* parse_messages_request moves the system messages to the front.
SystemFirst(messages) ==
    Only(IsSystem, messages) \o Only(LAMBDA m : ~IsSystem(m), messages)

\* The client's own prompt: its first message, `system` or `instructions`.
Prompt ==
    IF client.prompted THEN <<Says("system", <<Atom("prompt", 0, 0)>>)>> ELSE <<>>

Parsed(entries) ==
    CASE client.protocol = "openai" -> Prompt \o All(ParseOpenAI, entries)
      [] client.protocol = "anthropic" ->
            SystemFirst(Prompt \o All(ParseAnthropic, entries))
      [] client.protocol = "responses" -> Prompt \o All(ParseResponses, entries)

ToolsTold == Atom("tools", 0, 0)

\* chat_stream describes the tools in the first system message, or in a new one.
Described(messages) ==
    LET systems == {i \in DOMAIN messages : IsSystem(messages[i])}
        first == CHOOSE i \in systems : \A j \in systems : i <= j
    IN  CASE ~upstream.emulated -> messages
          [] upstream.emulated /\ systems = {} ->
                <<Says("system", <<Atom("default", 0, 0), ToolsTold>>)>> \o messages
          [] OTHER -> [messages EXCEPT ![first].text = Append(@, ToolsTold)]

\* A link is sent as if it were an image's data.
ImageUrl(p) == IF p.kind = "image" THEN p.what ELSE <<"garbled", p.what[2], p.what[3]>>

\* Variant of Built that sends images only if there is no text.
Built_ImagesOrText(m) ==
    LET urls == Each(ImageUrl, m.images)
        alone == urls # <<>> /\ m.text = <<>>
    IN  [m EXCEPT
            !.text = IF alone THEN urls ELSE @,
            !.images = <<>>]

\* build_request_body, for a message: a single image without text becomes the
\* content as if it were text.  Calls without an id get one.
Built(m) ==
    LET urls == Each(ImageUrl, m.images)
        alone == Len(urls) = 1 /\ m.text = <<>>
    IN  [m EXCEPT
            !.text = IF alone THEN urls ELSE @,
            !.images = IF alone THEN <<>> ELSE urls,
            !.calls = [i \in DOMAIN @ |->
                          IF @[i].id = NoId
                          THEN [@[i] EXCEPT !.id = Atom("call", 0, i)]
                          ELSE @[i]]]

\* openai_handler passes on the body of a request that does not stream.
Raw == client.protocol = "openai" /\ ~client.streams

\* collect_non_streaming_raw, for a message: it goes out as it came in.
Written(m) == [m EXCEPT !.images = Each(LAMBDA p : p.what, @)]

\* The upstream's body: the messages, and whether the tools are in it.
Sent(entries) ==
    IF Raw
    THEN [messages |-> Each(Written, Parsed(entries)), tools |-> TRUE]
    ELSE [messages |-> Each(Built, Described(Parsed(entries))),
          tools |-> ~upstream.emulated]

-----------------------------------------------------------------------------
(* From the upstream's answer to the client's history.                     *)

\* The answer of the chunk stream: under emulation text that is a call is one.
Streamed(a) ==
    IF upstream.emulated /\ a.text # <<>> /\ a.text[1][1] = "call"
    THEN [a EXCEPT !.text = <<>>, !.calls = <<Call(NoId, a.text[1])>>]
    ELSE a

\* The id the client sees of the i-th call of answer a.
IdFor(a, i) ==
    LET blocks == Len(a.reasoning) + Len(a.text) + i - 1
    IN  IF a.calls[i].id # NoId THEN a.calls[i].id
        ELSE CASE client.protocol = "openai" -> Atom("call_emulated", 0, 0)
               [] client.protocol = "anthropic" ->
                    Atom("toolu", 0, IF client.streams THEN blocks ELSE i - 1)
               [] client.protocol = "responses" ->
                    Atom(IF client.streams THEN "call_gw" ELSE "", 0, 0)

PartsOf(kind, atoms) == Each(LAMBDA w : Part(kind, w, NoId), atoms)

\* Variant of Received that leaves the reasoning out.
Received_Unreasoned(answer) ==
    LET a == IF client.streams THEN Streamed(answer) ELSE answer
        calls == [i \in DOMAIN a.calls |->
                     Part("tool_use", a.calls[i].what, IdFor(a, i))]
    IN  IF client.protocol # "responses"
        THEN <<Entry("assistant", PartsOf("text", a.text) \o calls)>>
        ELSE Each(LAMBDA p : Entry(IF p.kind = "text" THEN "assistant" ELSE "", <<p>>),
                  PartsOf("text", a.text) \o calls)

\* What the client makes of an answer, whole or streamed: one message, or for
\* the Responses protocol one item each.
Received(answer) ==
    LET a == IF client.streams THEN Streamed(answer) ELSE answer
        calls == [i \in DOMAIN a.calls |->
                     Part("tool_use", a.calls[i].what, IdFor(a, i))]
        parts == PartsOf("thinking", a.reasoning) \o PartsOf("text", a.text) \o calls
    IN  IF client.protocol # "responses"
        THEN <<Entry("assistant", parts)>>
        ELSE Each(LAMBDA p : Entry(IF p.kind = "text" THEN "assistant" ELSE "", <<p>>),
                  parts)

-----------------------------------------------------------------------------
(* The conversation.                                                       *)

Init ==
    /\ client \in [protocol : {"openai", "anthropic", "responses"},
                   streams : BOOLEAN, prompted : BOOLEAN]
    /\ upstream \in [emulated : BOOLEAN, ids : BOOLEAN]
    \* An OpenAI client is given calls as the upstream made them.
    /\ client.protocol = "openai" => upstream.ids
    /\ history = <<>>
    /\ request = [messages |-> <<>>, tools |-> FALSE]
    /\ answers = <<>>
    /\ turn = "client"

Round == Len(answers)

\* The calls of the last answer, which the client has yet to answer.
OpenCalls ==
    Only(LAMBDA p : p.kind = "tool_use" /\ p.what[2] = Round,
         All(LAMBDA e : e.parts, history))

Send(entries) ==
    /\ history' = history \o entries
    /\ request' = Sent(history')
    /\ turn' = "upstream"
    /\ UNCHANGED <<client, upstream, answers>>

UserText(i) == Part("text", Atom("text", Round, i), NoId)

UserImage(kind, i) == Part(kind, Atom("image", Round, i), NoId)

SystemEntry ==
    Entry("system", <<Part("text", Atom("system", Round, 0), NoId)>>)

\* The client asks: text, images with or without it, or a link to an image.  It
\* may put a system message before a text.
Ask ==
    /\ turn = "client"
    /\ OpenCalls = <<>>
    /\ \E parts \in {<<UserText(0)>>,
                     <<UserImage("image", 0)>>,
                     <<UserImage("image", 0), UserText(0), UserImage("link", 1)>>,
                     <<UserImage("image", 0), UserImage("image", 1)>>},
          system \in {<<>>, <<SystemEntry>>} :
          /\ system = <<>> \/ parts = <<UserText(0)>>
          /\ Send(system \o <<Entry("user", parts)>>)

Result(p) == Part("tool_result", Atom("result", p.what[2], p.what[3]), p.id)

\* The client runs the tools and sends their results.  An Anthropic client may
\* send text with them, and a system message before them.
AnswerCalls ==
    /\ turn = "client"
    /\ OpenCalls # <<>>
    /\ LET results == Each(Result, OpenCalls)
       IN  CASE client.protocol = "anthropic" ->
                  \E text \in {<<>>, <<UserText(0)>>}, system \in {<<>>, <<SystemEntry>>} :
                      Send(system \o <<Entry("user", text \o results)>>)
             [] client.protocol = "openai" ->
                  Send(Each(LAMBDA p : Entry("tool", <<p>>), results))
             [] client.protocol = "responses" ->
                  Send(Each(LAMBDA p : Entry("", <<p>>), results))

\* The upstream answers: reasoning, text and calls, any of them or none.  If it
\* was not given the tools, it spells a call out.
Answer ==
    /\ turn = "upstream"
    /\ Round < MaxRounds
    /\ \E reasons \in BOOLEAN, kind \in {"", "text", "call"}, n \in 0 .. MaxCalls :
          /\ ~request.tools => n = 0
          /\ kind = "call" => ~request.tools
          /\ LET r == Round + 1
                 a == [reasoning |-> IF reasons THEN <<Atom("reasoning", r, 0)>> ELSE <<>>,
                       text |-> IF kind = "" THEN <<>> ELSE <<Atom(kind, r, 0)>>,
                       calls |-> [i \in 1 .. n |->
                                     Call(IF upstream.ids THEN Atom("id", r, i) ELSE NoId,
                                          Atom("call", r, i))]]
             IN  /\ answers' = Append(answers, a)
                 /\ history' = history \o Received(a)
    /\ turn' = "client"
    /\ UNCHANGED <<client, upstream, request>>

Next == Ask \/ AnswerCalls \/ Answer

Spec == Init /\ [][Next]_vars
-----------------------------------------------------------------------------
(* Properties of what the upstream receives.                               *)

Of(role) == Only(LAMBDA m : m.role = role, request.messages)

CallWhats(calls) == Each(LAMBDA c : c.what, calls)

OfKind(kind, atoms) == Only(LAMBDA w : w[1] = kind, atoms)

\* "preserve reasoning_content across multi-turn conversations" (anthropic.rs):
\* with every request the upstream gets back its answers, each once and in
\* order: the reasoning, the text and the calls with the ids it gave them.  Of
\* its answers to a Responses client it gets back only the text.
AnswersComeBack ==
    turn = "upstream" =>
        LET back == Of("assistant")
        IN  IF client.protocol = "responses"
            THEN All(LAMBDA m : OfKind("text", m.text), back)
                    = All(LAMBDA a : OfKind("text", a.text), answers)
            ELSE /\ Len(back) = Len(answers)
                 /\ \A i \in DOMAIN back :
                       LET m == back[i]
                           a == answers[i]
                       IN  /\ m.reasoning = a.reasoning
                           /\ m.text \o CallWhats(m.calls) = a.text \o CallWhats(a.calls)
                           /\ upstream.ids /\ request.tools => m.calls = a.calls

\* The positions of the results that follow position i.
After(messages, i) ==
    {k \in DOMAIN messages :
        k > i /\ \A j \in i + 1 .. k : messages[j].role = "tool"}

\* m is the result of call c.
Matches(m, c) == m.of = c.id /\ m.text = <<Atom("result", c.what[2], c.what[3])>>

\* The results that follow position i are those of calls of its own, each named
\* by its id alone, and every call has one.
Answered(messages, i) ==
    LET calls == messages[i].calls
    IN  /\ \A k \in After(messages, i) : \E c \in DOMAIN calls :
              /\ Matches(messages[k], calls[c])
              /\ \A d \in DOMAIN calls : calls[d].id = calls[c].id => d = c
        /\ \A c \in DOMAIN calls :
              \E k \in After(messages, i) : Matches(messages[k], calls[c])

Paired(messages) ==
    /\ \A k \in DOMAIN messages : messages[k].role = "tool" =>
          \E i \in DOMAIN messages :
              messages[i].role = "assistant" /\ k \in After(messages, i)
    /\ \A i \in DOMAIN messages :
          messages[i].role = "assistant" => Answered(messages, i)

\* "OpenAI-compatible backends require one tool message per tool_call_id"
\* (anthropic.rs): a tool's result follows the calls of the assistant that made
\* the call, with nothing but results in between, and names just that call; and
\* every call has its result there.
ResultsPaired == turn = "upstream" => Paired(request.messages)

\* What the user said reaches the upstream in order, every time: all of the text,
\* and the images.  user-manual.md:334-337 and design.md:231-241 say that images
\* are passed through, or refused with a clear error.  So they are on the raw
\* path, with links too.  Where a body is built the code does less, and three
\* kinds of image are left out here: one that is a message of its own, which
\* arrives as text (provider/cloud/openai.rs:135); one by link, which an OpenAI
\* client's arrives as if the link were its data (:126) and an Anthropic client's
\* not at all; and those of a Responses client, which are dropped.
QuestionsKept ==
    LET asked == Only(LAMBDA e : e.role = "user", history)
        Images(e) == IF Raw THEN Whats(e.parts, {"image", "link"})
                     ELSE IF Len(e.parts) = 1 THEN <<>>
                     ELSE Whats(e.parts, {"image"})
    IN  turn = "upstream" =>
            /\ All(LAMBDA m : OfKind("text", m.text), Of("user"))
                  = All(LAMBDA e : Whats(e.parts, {"text"}), asked)
            /\ client.protocol # "responses" =>
                  All(LAMBDA m : OfKind("image", m.images), Of("user"))
                      = All(Images, asked)

\* "some /v1 backends require all system messages at the very beginning"
\* (anthropic.rs): so they are for an Anthropic client; and whatever the
\* history, the tools are told once, in one place: in the body's own field, or
\* in the first system message.  That an upstream without tools is always told
\* in the second way (user-manual.md:327) is not said: what an OpenAI client
\* sends to have its answer whole carries its tools as they are.
PromptFirst ==
    LET messages == request.messages
        systems == {i \in DOMAIN messages : IsSystem(messages[i])}
        told == All(LAMBDA m : OfKind("tools", m.text), messages)
    IN  turn = "upstream" =>
            /\ client.protocol = "anthropic" => systems = 1 .. Len(Of("system"))
            /\ Len(told) = IF request.tools THEN 0 ELSE 1
            /\ ~request.tools =>
                  \E i \in systems :
                      /\ \A j \in systems : i <= j
                      /\ OfKind("tools", messages[i].text) = told
=============================================================================
