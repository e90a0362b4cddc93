--------------------------- MODULE ToolEmulation ---------------------------
(***************************************************************************)
(* Tool calls for upstreams that know none (src/src/capability): the tools *)
(* are described in the prompt, and a transform of the chunk stream looks  *)
(* for calls spelled out in the text (ToolEmulationStream).                *)
(*                                                                         *)
(* Text that begins like a call is held back: until the end, or until it   *)
(* outgrows the buffer.  Then it becomes a call if it parses as one, and   *)
(* is passed on as text if not.                                            *)
(***************************************************************************)
EXTENDS SseParser

CONSTANT
    MaxBuffer   \* the 32 KiB after which the buffer is emptied, in pieces

\* A piece fits the buffer.
ASSUME ToolEmulationAssumption == MaxBuffer \in Nat \ {0}

VARIABLES
    emu,        \* ToolEmulationStream
    out         \* the chunk the last step passed on, if it did

emulationVars == <<emu, out>>

\* `broken`: the parser of calls has panicked, and with it the stream.
\* `outgrown`: history, the buffer was emptied before the end.
EmulationTypeOK ==
    /\ emu \in [buffering : BOOLEAN, buffer : Seq(Texts), flushed : BOOLEAN,
                outgrown : BOOLEAN, broken : BOOLEAN]
    /\ Len(emu.buffer) <= MaxBuffer \/ emu.flushed \/ emu.broken
    /\ out \in Seq(Chunk) /\ Len(out) <= 1

EmulationInit ==
    /\ emu = [buffering |-> FALSE, buffer |-> <<>>, flushed |-> FALSE,
              outgrown |-> FALSE, broken |-> FALSE]
    /\ out = <<>>

-----------------------------------------------------------------------------
(* parse_tool_call_from_text.                                              *)

Places(b, piece) == {i \in DOMAIN b : b[i] = piece}

\* There is a <tool_use> and a </tool_use> in the text.
Tagged(b) == Places(b, "tag") # {} /\ Places(b, "untag") # {}

\* Where a call is looked for: between the first <tool_use> and the last
\* </tool_use>, or else in all of the text.
Inside(b) ==
    {i \in DOMAIN b :
        Tagged(b) => /\ \E k \in Places(b, "tag") : k < i
                     /\ \E k \in Places(b, "untag") : i < k}

Openings(b) == {i \in Inside(b) : b[i] \in {"call", "json"}}

Closings(b) == {i \in Inside(b) : b[i] = "tail"}

\* From its first opening brace to its last closing one, what is inside is an
\* object, of the pieces i and j.
IsObject(b, i, j) ==
    /\ j = i + 1
    /\ Openings(b) \cap (1 .. j) = {i}
    /\ Closings(b) \cap (i .. Len(b)) = {j}

\* Variant of CallIn that does not look for tags.
CallIn_Untagged(b) ==
    {ij \in Places(b, "call") \X Places(b, "tail") :
        /\ ij[2] = ij[1] + 1
        /\ \A k \in 1 .. ij[1] - 1 : b[k] \notin {"call", "json"}
        /\ \A k \in ij[2] + 1 .. Len(b) : b[k] # "tail"}

\* Where in the text the call is: what is around it is not part of it.
CallIn(b) ==
    {ij \in Openings(b) \X Closings(b) :
        b[ij[1]] = "call" /\ IsObject(b, ij[1], ij[2])}

\* S and T are not empty, and T ends before S begins: a slice from the first of
\* S to the last of T has its end before its start.
Crossed(S, T) == S # {} /\ T # {} /\ \A i \in S, j \in T : j < i

\* The tags are crossed, or the braces inside them: the parser panics.
Inverted(b) ==
    \/ Crossed(Places(b, "tag"), Places(b, "untag"))
    \/ Crossed(Openings(b), Closings(b))

\* What a buffer becomes in the end.
Unbuffered(b, done) ==
    IF CallIn(b) = {}
    THEN TextChunk(b, done)
    ELSE LET ij == CHOOSE ij \in CallIn(b) : TRUE
         IN  [Bare(done) EXCEPT !.tool = Spelled, !.text = SubSeq(b, ij[1], ij[2])]

LooksLikeCall(text) == text[1] \in {"call", "json", "tag"}

-----------------------------------------------------------------------------
(* poll_next, for a chunk c of the parser.                                 *)

\* Variant of Flush that goes on buffering after text.
Flush_KeepsText(b, done) ==
    IF Inverted(b)
    THEN /\ emu' = [emu EXCEPT !.broken = TRUE]
         /\ out' = <<>>
    ELSE /\ emu' = [emu EXCEPT !.flushed = done, !.outgrown = @ \/ ~done]
         /\ out' = <<Unbuffered(b, done)>>

\* The buffer is emptied: at the end, or when it has outgrown its bound.
Flush(b, done) ==
    IF Inverted(b)
    THEN /\ emu' = [emu EXCEPT !.broken = TRUE]
         /\ out' = <<>>
    ELSE /\ emu' = [emu EXCEPT !.flushed = done, !.outgrown = @ \/ ~done,
                               !.buffer = <<>>,
                               !.buffering = @ /\ CallIn(b) # {}]
         /\ out' = <<Unbuffered(b, done)>>

Hold(b) ==
    /\ emu' = [emu EXCEPT !.buffering = TRUE, !.buffer = b]
    /\ out' = <<>>

TakeText(c) ==
    LET b == emu.buffer \o c.text
    IN  IF emu.buffering
        THEN IF Len(b) > MaxBuffer THEN Flush(b, FALSE) ELSE Hold(b)
        ELSE IF LooksLikeCall(c.text)
             THEN Hold(c.text)
             ELSE UNCHANGED emu /\ out' = <<c>>

TakeLast(c) ==
    IF emu.buffering
    THEN Flush(emu.buffer, TRUE)
    ELSE /\ emu' = [emu EXCEPT !.flushed = TRUE]
         /\ out' = <<c>>

\* The transform is there if the upstream was not given the tools.
Transform ==
    /\ ~emu.broken /\ ~emu.flushed
    /\ IF native \/ parsed' = <<>>
       THEN UNCHANGED emu /\ out' = parsed'
       ELSE LET c == parsed'[1]
            IN  IF c.content THEN TakeText(c)
                ELSE IF c.done THEN TakeLast(c)
                ELSE UNCHANGED emu /\ out' = <<c>>

\* The parser's stream ends: what is still held back is passed on as the last
\* chunk.
TransformEnd ==
    /\ ~emu.broken
    /\ IF ~emu.flushed /\ emu.buffer # <<>>
       THEN Flush(emu.buffer, TRUE)
       ELSE UNCHANGED emu /\ out' = <<>>
=============================================================================
