-------------------------- MODULE ChatToResponses --------------------------
(* The bridge of GPT models that take function tools on /responses only: a  *)
(* chat request as a Responses request, and the answer back.                *)
EXTENDS AnthropicToOpenAIRequest

(* Items of a Responses input or output. *)
Said(role, content) == [type |-> "message", role |-> role, content |-> content]
FunctionCall(id, name) == [type |-> "function_call", id |-> id, name |-> name]
FunctionOutput(id, text) == [type |-> "function_call_output", id |-> id, text |-> text]

(* Requests whose options or content the bridge cannot carry are refused. *)
ValidResponsesBridge(request) ==
  /\ request.effort # "none"
  /\ \A k \in DOMAIN PartsOf(request.tools) : request.tools.parts[k].shape = "openai"
  /\ \A m \in DOMAIN request.messages : \A k \in DOMAIN PartsOf(request.messages[m].content) :
       request.messages[m].content.parts[k].type \in {"text", "image_url"}

(* Content without text or image makes no item. *)
ResponsesContent(content) ==
  CASE content.form = "null" -> <<>>
    [] content.form = "string" -> IF content.text = <<>> THEN <<>> ELSE <<content>>
    [] content.form = "array" ->
         LET kept == Select(content.parts, LAMBDA p :
                       p.type = "text" \/ (p.type = "image_url" /\ p.url # "none"))
         IN  IF kept = <<>> THEN <<>> ELSE <<Parts(kept)>>

(* The items of a message; the calls of a turn follow what it said. *)
Items(msg) ==
  CASE Instructs(msg) -> <<>>
    [] msg.role = "tool" -> <<FunctionOutput(msg.id, TextOf(msg.content))>>
    [] OTHER -> Apply(LAMBDA c : Said(msg.role, c), ResponsesContent(msg.content))
                \o Apply(LAMBDA c : FunctionCall(c.id, c.name), msg.calls)

(* Every declaration is made a function of its name. *)
ResponsesTools(tools) == Apply(LAMBDA t : Tool("responses", t.name), tools)
ResponsesToolChoice(choice) ==
  CASE choice.type \in {"auto", "none", "required"} -> choice
    [] choice.type \in {"function", "tool"} /\ choice.name # "" -> Named("function", choice.name)
    [] OTHER -> NoChoice

ChatToResponsesBody(request) ==
  [instructions |-> FlattenSeq(Apply(LAMBDA m : TextOf(m.content),
                                     Select(request.messages, Instructs))),
   input |-> FlattenSeq(Apply(Items, request.messages)),
   tools |-> IF request.tools = Null THEN Null ELSE Parts(ResponsesTools(request.tools.parts)),
   choice |-> ResponsesToolChoice(request.choice),
   parallel |-> request.parallel,
   limit |-> request.limit,
   effort |-> IF request.effort = "none" THEN "" ELSE request.effort,
   store |-> FALSE]

(* Mutant: an answer with calls is a tool turn, complete or not. *)
CallsDecide(answer) ==
  LET said == OfType(answer.output, {"message"})
      calls == Apply(LAMBDA i : Call(i.id, i.name), OfType(answer.output, {"function_call"}))
  IN  IF answer.error \/ answer.status \notin {"completed", "incomplete"} THEN [error |-> TRUE]
      ELSE [error |-> FALSE,
            finish |-> IF calls # <<>> THEN "tool_calls"
                       ELSE IF answer.status = "completed" THEN "stop"
                       ELSE IF answer.reason = "content_filter" THEN "content_filter" ELSE "length",
            content |-> Str(FlattenSeq(Apply(LAMBDA i : TextOf(i.content), said))),
            calls |-> calls]

(* An answer is [error, status, reason, output]; output has messages, with  *)
(* the text and refusal they hold, and function calls.                      *)
ResponsesToChatCompletion(answer) ==
  LET said == OfType(answer.output, {"message"})
      text == FlattenSeq(Apply(LAMBDA i : TextOf(i.content), said))
      calls == Apply(LAMBDA i : Call(i.id, i.name), OfType(answer.output, {"function_call"}))
  IN  IF answer.error \/ answer.status \notin {"completed", "incomplete"} THEN [error |-> TRUE]
      ELSE [error |-> FALSE,
            finish |-> IF answer.status = "incomplete"
                       THEN IF answer.reason = "content_filter" THEN "content_filter" ELSE "length"
                       ELSE IF calls # <<>> THEN "tool_calls" ELSE "stop",
            content |-> IF text = <<>> /\ calls # <<>> THEN Null ELSE Str(text),
            calls |-> calls]
=============================================================================
