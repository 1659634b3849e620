-------------------------- MODULE AnthropicToOpenAI --------------------------
(* PipeAnthropicToOpenAI: an Anthropic event stream becomes Chat chunks.    *)
(* The upstream sends message_start, content blocks one after the other,    *)
(* message_delta events and message_stop, and may stop, fail or send        *)
(* something else anywhere.                                                 *)
EXTENDS StreamPipe, Integers

NoTool == -1

InitAnthropicToOpenAI ==
  InitPipe("anthropicToOpenAI", "loop",
    [fate |-> "open", stage |-> "start", calls |-> <<>>, early |-> FALSE],
    [toolCount |-> 0, currentTool |-> NoTool, argsSeen |-> FALSE, stopReason |-> "",
     sawTool |-> FALSE, input |-> 0, output |-> 0])

Event(stage) == Read("anthropicToOpenAI") /\ up.stage = stage
Moves(stage) == up' = [up EXCEPT !.stage = stage]

(* A chunk for the tool call with a given index. *)
ToolChunk(type, index, value) == Chunk(type, 0, index, value)

(* A count that a usage block lacks is read as zero. *)
Count(u, f) == IF f \in DOMAIN u THEN u[f] ELSE 0

(* message_start: its usage may lack any count, or all of them.  up.early   *)
(* remembers whether it had a count of the input side.                      *)
MessageStart ==
  /\ Event("start")
  /\ \E u \in BlocksOf({"input", "output", "read"}, MaxCount) :
       /\ acc' = ApplyAnthropic(acc, u, TRUE)
       /\ local' = [local EXCEPT !.input = Count(u, "input"), !.output = Count(u, "output")]
       /\ up' = [up EXCEPT !.stage = "idle", !.early = DOMAIN u \ {"output"} # {}]
  /\ Write(<<Plain("role")>>)

(* content_block_start and the deltas of a block of text or thinking. *)
TextStart ==
  /\ Event("idle") /\ Moves("text")
  /\ acc' = MarkObserved(acc)
  /\ Write(<<>>) /\ UNCHANGED local

TextDelta ==
  /\ Event("text") /\ UNCHANGED <<up, local>>
  /\ acc' = MarkObserved(acc)
  /\ Write(<<Plain("content")>>)

ToolStart ==
  /\ Event("idle")
  /\ up' = [up EXCEPT !.stage = "tool", !.calls = Append(@, [choice |-> 0, parts |-> 0])]
  /\ local' = [local EXCEPT !.sawTool = TRUE, !.currentTool = local.toolCount,
                            !.toolCount = @ + 1, !.argsSeen = FALSE]
  /\ acc' = MarkObserved(acc)
  /\ Write(<<ToolChunk("tool", local.toolCount, 0)>>)

ToolDelta ==
  /\ Event("tool")
  /\ up' = [up EXCEPT !.calls[Len(up.calls)].parts = @ + 1]
  /\ local' = [local EXCEPT !.argsSeen = TRUE]
  /\ acc' = MarkObserved(acc)
  /\ Write(<<ToolChunk("args", local.currentTool, "part")>>)

(* A call that came without arguments gets an empty object. *)
BlockStop ==
  /\ Event("text") \/ Event("tool")
  /\ Moves("idle")
  /\ local' = [local EXCEPT !.currentTool = NoTool]
  /\ acc' = MarkObserved(acc)
  /\ Write(IF local.currentTool # NoTool /\ ~local.argsSeen
           THEN <<ToolChunk("args", local.currentTool, "empty")>> ELSE <<>>)

(* message_delta: some upstreams repeat the input count in it, or send it   *)
(* there only.  The accumulator may take it, the pipe does not read it.     *)
MessageDelta ==
  /\ Event("idle") \/ Event("tail")
  /\ Moves("tail")
  /\ \E u \in BlocksOf({"input", "output"}, MaxCount),
        reason \in {"tool_use", "end_turn", "max_tokens"} :
       /\ acc' = ApplyAnthropic(acc, u, FALSE)
       /\ local' = [local EXCEPT
                      !.stopReason = reason,
                      !.output = IF "output" \in DOMAIN u THEN Larger(@, u["output"]) ELSE @]
  /\ Write(<<>>)

openAIFinishReason ==
  CASE local.stopReason = "max_tokens" -> "length"
    [] local.stopReason = "tool_use"   -> "tool_calls"
    [] local.stopReason = "end_turn"   -> "stop"
    [] OTHER -> IF local.sawTool THEN "tool_calls" ELSE "stop"

(* The usage chunk, which the client asked for. *)
UsageChunk(input, output) ==
  IF includeUsage
  THEN <<Chunk("usage", 0, 0, [input |-> input, output |-> output])>> ELSE <<>>

(* Some upstreams omit message_delta. *)
MessageStop ==
  /\ Event("idle") \/ Event("tail")
  /\ Sends("complete") /\ UNCHANGED local
  /\ acc' = MarkObserved(acc)
  /\ Reply(<<Chunk("finish", 0, 0, openAIFinishReason)>>
             \o UsageChunk(local.input, local.output) \o <<Plain("done")>>, TRUE, FALSE)

(* An error event, by its type or by the name of the event alone. *)
AnthropicError ==
  /\ Read("anthropicToOpenAI") /\ UNCHANGED local
  /\ \/ Sends("failed") /\ Fail(NoteStreamError(acc))
     \/ Sends("named") /\ Fail(MarkObserved(acc))

AnthropicGarbage ==
  /\ Read("anthropicToOpenAI") /\ UNCHANGED local
  /\ Sends("garbled") /\ Fail(acc)

StepAnthropicToOpenAI ==
  \/ MessageStart \/ TextStart \/ TextDelta \/ ToolStart \/ ToolDelta \/ BlockStop
  \/ MessageDelta \/ MessageStop \/ AnthropicError \/ AnthropicGarbage
  \/ pipe = "anthropicToOpenAI" /\ EndUnlessTerminal
=============================================================================
