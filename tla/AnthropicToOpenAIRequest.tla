---------------------- MODULE AnthropicToOpenAIRequest ----------------------
(* /anthropic/v1/messages for a model that is not Claude: the request as a  *)
(* Chat Completions request, and the answer back.                           *)
EXTENDS OpenAIToAnthropic

Unmark(p) == IF p.type = "text" THEN [p EXCEPT !.marked = FALSE] ELSE p
RemoveField(content) ==
  IF content.form = "array" THEN Parts(Apply(Unmark, content.parts)) ELSE content

(* cache_control means nothing to the OpenAI endpoints. *)
StripCacheControl(request) ==
  [request EXCEPT !.system = RemoveField(@),
                  !.messages = Apply(LAMBDA m : [m EXCEPT !.content = RemoveField(@)], @)]

AnthropicOnly == {"tool_use", "tool_result", "image", "thinking"}
HasAnthropicOnlyBlocks(parts) == OfType(parts, AnthropicOnly) # <<>>

(* Texts and calls of an assistant turn; thinking has no counterpart. *)
AnthropicAssistantToOpenAI(msg) ==
  LET texts == OfType(msg.content.parts, {"text"})
      uses == OfType(msg.content.parts, {"tool_use"})
  IN  Calling(IF texts # <<>> THEN Str(Joined(texts))
              ELSE IF uses # <<>> THEN Null ELSE Str(<<>>),
              Apply(LAMBDA u : Call(u.id, u.name), uses))

ToolResultToText(content) == Str(TextOf(content))

(* Tool results first, each a message of its own; then what else the user   *)
(* said, as a string unless there are images.                               *)
ImageToOpenAI(p) == IF p.type = "image" THEN ImageUrl(IF p.source = "url" THEN "remote" ELSE "data") ELSE Unmark(p)
AnthropicUserToOpenAI(parts) ==
  LET results == OfType(parts, {"tool_result"})
      rest == Apply(ImageToOpenAI,
                Select(parts, LAMBDA p : p.type = "text"
                                            \/ (p.type = "image" /\ p.source \in {"base64", "url"})))
  IN  Apply(LAMBDA r : ToolMessage(r.id, ToolResultToText(r.content)), results)
      \o (IF rest = <<>> THEN <<>>
          ELSE <<Message("user", IF OfType(rest, {"image_url"}) # <<>> THEN Parts(rest)
                                 ELSE Str(Joined(rest)))>>)

ConvertTurn(msg) ==
  IF ~HasAnthropicOnlyBlocks(PartsOf(msg.content)) THEN <<msg>>
  ELSE CASE msg.role = "assistant" -> <<AnthropicAssistantToOpenAI(msg)>>
         [] msg.role = "user" -> AnthropicUserToOpenAI(msg.content.parts)
         [] OTHER -> <<msg>>

ConvertAnthropicToolMessagesToOpenAI(messages) == FlattenSeq(Apply(ConvertTurn, messages))

ConvertToolDeclarationsToOpenAI(tools) ==
  Apply(LAMBDA t : IF t.shape = "anthropic" /\ t.name # "" THEN Tool("openai", t.name) ELSE t, tools)

(* choice is an Anthropic one: [type, name, disabled]; unknown types are    *)
(* dropped, and so is a choice among no tools.                              *)
ConvertToolChoiceToOpenAI(choice) ==
  CASE choice.type = "auto" -> Choice("auto")
    [] choice.type = "any" -> Choice("required")
    [] choice.type = "tool" -> IF choice.name = "" THEN Choice("auto") ELSE Named("function", choice.name)
    [] OTHER -> NoChoice

ConvertAnthropicToolsToOpenAI(tools, choice) ==
  IF tools = Null THEN [tools |-> Null, choice |-> NoChoice, parallel |-> "absent"]
  ELSE [tools |-> Parts(ConvertToolDeclarationsToOpenAI(tools.parts)),
        choice |-> ConvertToolChoiceToOpenAI(choice),
        parallel |-> IF ConvertToolChoiceToOpenAI(choice) # NoChoice /\ choice.disabled
                     THEN "false" ELSE "absent"]

(* The system prompt goes before the messages, if it can be made a string. *)
PrependSystemMessage(system, messages) ==
  LET flat == FlattenSystem(system)
  IN  IF flat.form # "string" \/ flat.text = <<>> THEN messages
      ELSE <<Message("system", flat)>> \o messages

AnthropicToOpenAIBody(request) ==
  LET plain == StripCacheControl(request)
      tools == ConvertAnthropicToolsToOpenAI(plain.tools, plain.choice)
  IN  [messages |-> PrependSystemMessage(plain.system,
                      ConvertAnthropicToolMessagesToOpenAI(plain.messages)),
       system |-> Null, limit |-> plain.limit, effort |-> "",
       tools |-> tools.tools, choice |-> tools.choice, parallel |-> tools.parallel]

(* A chat.completion, [finish, content, calls], as an Anthropic message. *)
OpenAIToAnthropicResponse(answer) ==
  LET text == TextOf(answer.content)
      blocks == (IF text # <<>> THEN <<Text(text)>> ELSE <<>>)
                \o Apply(LAMBDA c : ToolUse(c.id, c.name), answer.calls)
  IN  [error |-> FALSE, id |-> "msg",
       stop |-> CASE answer.finish = "length" -> "max_tokens"
                  [] answer.finish = "tool_calls" -> "tool_use"
                  [] OTHER -> IF answer.calls # <<>> THEN "tool_use" ELSE "end_turn",
       content |-> IF blocks = <<>> THEN <<Text(<<>>)>> ELSE blocks]
=============================================================================
