---------------------------- MODULE ChatToGemini ----------------------------
(* The bridge of Gemini models: a chat request as generateContent, or the   *)
(* reason it is refused, and the answer back.                               *)
EXTENDS ChatToResponses

(* Parts of a Gemini content. *)
GeminiText(text) == [type |-> "text", text |-> text, thought |-> FALSE]
InlineData == [type |-> "inlineData"]
GeminiCall(id, name) == [type |-> "functionCall", id |-> id, name |-> name]
GeminiResponse(id, name, text) == [type |-> "functionResponse", id |-> id, name |-> name, text |-> text]

Representable(content) ==
  \A k \in DOMAIN PartsOf(content) :
    LET p == content.parts[k]
    IN  p.type = "text" \/ (p.type = "image_url" /\ p.url = "data")

GeminiPart(p) == IF p.type = "text" THEN GeminiText(p.text) ELSE InlineData
GeminiMessageParts(content) ==
  CASE content.form = "null" -> <<>>
    [] content.form = "string" -> IF content.text = <<>> THEN <<>> ELSE <<GeminiText(content.text)>>
    [] content.form = "array" -> Apply(GeminiPart, content.parts)

(* The conversion goes through the messages with the contents so far, the   *)
(* system parts, the names of the calls by id, and whether it has failed.   *)
Refuse(st) == [st EXCEPT !.refused = TRUE]

(* A result joins the last content when that is the user's; its response is *)
(* the message's content, of which the text is followed.                    *)
WithResponse(contents, part) ==
  IF contents # <<>> /\ Last(contents).role = "user"
  THEN [contents EXCEPT ![Len(contents)].parts = Append(@, part)]
  ELSE Append(contents, [role |-> "user", parts |-> <<part>>])
GeminiResult(st, msg) ==
  IF msg.id \notin DOMAIN st.names THEN Refuse(st)
  ELSE [st EXCEPT !.contents =
          WithResponse(@, GeminiResponse(msg.id, st.names[msg.id], TextOf(msg.content)))]

CallsUsable(st, calls) ==
  \A i \in DOMAIN calls :
    /\ calls[i].id # "" /\ calls[i].name # ""
    /\ calls[i].id \notin DOMAIN st.names
    /\ \A j \in 1..(i - 1) : calls[j].id # calls[i].id

GeminiTurn(st, msg) ==
  LET parts == GeminiMessageParts(msg.content)
               \o Apply(LAMBDA c : GeminiCall(c.id, c.name), msg.calls)
      ids == {msg.calls[i].id : i \in DOMAIN msg.calls}
      name(id) == msg.calls[CHOOSE i \in DOMAIN msg.calls : msg.calls[i].id = id].name
  IN  IF ~CallsUsable(st, msg.calls) THEN Refuse(st)
      ELSE [st EXCEPT !.names = [id \in ids \cup DOMAIN @ |-> IF id \in ids THEN name(id) ELSE @[id]],
                      !.contents = IF parts = <<>> THEN @
                                   ELSE Append(@, [role |-> IF msg.role = "assistant" THEN "model" ELSE "user",
                                                   parts |-> parts])]

GeminiMessage(st, msg) ==
  IF st.refused THEN st
  ELSE CASE msg.role = "tool" -> GeminiResult(st, msg)
         [] msg.role # "tool" /\ ~Representable(msg.content) -> Refuse(st)
         [] Instructs(msg) /\ Representable(msg.content) ->
              [st EXCEPT !.system = @ \o GeminiMessageParts(msg.content)]
         [] msg.role \in {"user", "assistant"} /\ Representable(msg.content) -> GeminiTurn(st, msg)
         [] OTHER -> Refuse(st)

(* The tool configuration, and what of it cannot be enforced. *)
GeminiToolChoice(choice) ==
  CASE choice.type = "absent" -> NoChoice
    [] choice.type = "auto" -> Choice("AUTO")
    [] choice.type = "none" -> Choice("NONE")
    [] choice.type = "required" -> Choice("ANY")
    [] choice.type \in {"function", "tool"} /\ choice.name # "" -> Named("ANY", choice.name)
    [] OTHER -> Choice("invalid")

OpenAIToGeminiBody(request) ==
  LET st == FoldLeft(GeminiMessage,
              [contents |-> <<>>, system |-> <<>>, names |-> <<>>, refused |-> FALSE],
              request.messages)
      choice == GeminiToolChoice(request.choice)
  IN  [refused |-> \/ st.refused \/ request.messages = <<>>
                   \/ Thinks(request)
                   \/ \E k \in DOMAIN PartsOf(request.tools) :
                        request.tools.parts[k].shape # "openai" \/ request.tools.parts[k].name = ""
                   \/ request.parallel = "false" /\ request.tools # Null
                   \/ choice = Choice("invalid"),
       contents |-> st.contents, system |-> st.system, limit |-> request.limit,
       tools |-> PartsOf(request.tools), choice |-> choice]

GeminiFinishReason(reason, tools) ==
  CASE reason = "MAX_TOKENS" -> "length"
    [] reason = "SAFETY" -> "content_filter"
    [] OTHER -> IF tools THEN "tool_calls" ELSE "stop"

(* A candidate, [parts, reason], as a choice. *)
GeminiChoice(candidate) ==
  LET calls == OfType(candidate.parts, {"functionCall"})
      text == FlattenSeq(Apply(LAMBDA p : p.text,
                Select(candidate.parts, LAMBDA p : p.type = "text" /\ ~p.thought)))
  IN  [error |-> FALSE, finish |-> GeminiFinishReason(candidate.reason, calls # <<>>),
       content |-> IF text = <<>> /\ calls # <<>> THEN Null ELSE Str(text),
       calls |-> Apply(LAMBDA c : Call(c.id, c.name), calls)]

(* An answer is [error, candidates]. *)
GeminiToOpenAIResponse(answer) ==
  IF answer.error \/ answer.candidates = <<>> THEN <<[error |-> TRUE]>>
  ELSE Apply(GeminiChoice, answer.candidates)
=============================================================================
