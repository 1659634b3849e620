-------------------------- MODULE OpenAIToAnthropic --------------------------
(* A Chat Completions request for a Claude model, rewritten for Bedrock:    *)
(* tool messages, tool declarations, system prompt, images, cache marker,   *)
(* thinking budget.  The last four are shared with /anthropic/v1/messages.  *)
EXTENDS ChatShapes

CONSTANTS Functions,   \* names of functions
          Autogen,     \* Autogen[i] is the id made up for the i-th call of a turn
          Budget,      \* Budget[effort], the thinking budgets
          DefaultLimit, Headroom   \* 8192 and 1024 tokens

ASSUME FunctionsAssumption == "" \notin Functions

(* Every effort that asks for thinking has a budget, and none of the others.*)
ASSUME BudgetAssumption ==
  /\ \A e \in DOMAIN Budget : Budget[e] \in Nat \ {0}
  /\ DOMAIN Budget \cap {"", "none"} = {}
  /\ DefaultLimit \in Nat /\ Headroom \in Nat \ {0}

-----------------------------------------------------------------------------
(* Tool messages. *)
ContentBlocks(content) ==
  CASE content.form = "null" -> <<>>
    [] content.form = "string" -> IF content.text = <<>> THEN <<>> ELSE <<Text(content.text)>>
    [] content.form = "array" -> content.parts

(* Of an array only texts and inline images are kept. *)
Inline(p) == p.type = "text" \/ (p.type = "image_url" /\ p.url = "data")
ResultPart(p) == IF p.type = "text" THEN Text(p.text) ELSE Image("base64")
ToolResultContent(content) ==
  LET kept == Apply(ResultPart, Select(PartsOf(content), Inline))
  IN  IF content.form = "string" THEN content
      ELSE IF kept = <<>> THEN Str(<<>>) ELSE Parts(kept)

CallId(calls, i) == IF calls[i].id = "" THEN Autogen[i] ELSE calls[i].id

(* The ids of a turn by function name: a map, where a later call of the     *)
(* same function takes the place of an earlier one.                         *)
Ids(calls) ==
  LET Last_(name) == CHOOSE i \in DOMAIN calls :
        calls[i].name = name /\ \A j \in DOMAIN calls : calls[j].name = name => j <= i
  IN  [name \in {calls[i].name : i \in DOMAIN calls} \ {""} |-> CallId(calls, Last_(name))]

AssistantWithToolUse(msg) ==
  [msg EXCEPT !.calls = <<>>,
              !.content = Parts(ContentBlocks(msg.content)
                \o [i \in DOMAIN msg.calls |-> ToolUse(CallId(msg.calls, i), msg.calls[i].name)])]

(* The tool_use a tool message answers: by id, or else the oldest one       *)
(* pending under its name.                                                  *)
AnsweredId(st, msg) ==
  IF msg.id # "" THEN msg.id
  ELSE IF msg.name \in Functions /\ st.pending[msg.name] # <<>> THEN Head(st.pending[msg.name]) ELSE ""

Consumed(st, msg) ==
  IF msg.id = "" /\ msg.name \in Functions /\ st.pending[msg.name] # <<>>
  THEN [st EXCEPT !.pending[msg.name] = Tail(@)] ELSE st

(* Mutant: every result is a message of its own. *)
AppendAlways(out, block) == Append(out, Message("user", Parts(<<block>>)))

(* A result joins the last message when that is a user message of results   *)
(* alone, and is a user message of its own otherwise.                       *)
OnlyResults(msg) ==
  /\ msg.role = "user" /\ PartsOf(msg.content) # <<>>
  /\ \A k \in DOMAIN msg.content.parts : msg.content.parts[k].type = "tool_result"
AppendToolResult(out, block) ==
  IF out # <<>> /\ OnlyResults(Last(out))
  THEN [out EXCEPT ![Len(out)].content.parts = Append(@, block)]
  ELSE Append(out, Message("user", Parts(<<block>>)))

ConvertMessage(st, msg) ==
  IF msg.role = "assistant" /\ msg.calls # <<>>
  THEN LET ids == Ids(msg.calls)
       IN  [out |-> Append(st.out, AssistantWithToolUse(msg)),
            pending |-> [f \in Functions |-> IF f \in DOMAIN ids THEN Append(st.pending[f], ids[f])
                                             ELSE st.pending[f]],
            known |-> st.known \cup {ids[f] : f \in DOMAIN ids}]
  ELSE IF msg.role \in {"tool", "function"}
  THEN LET id == AnsweredId(st, msg)
           used == Consumed(st, msg)
       IN  IF id \notin st.known THEN used
           ELSE [used EXCEPT !.out = AppendToolResult(@, ToolResult(id, ToolResultContent(msg.content)))]
  ELSE [st EXCEPT !.out = Append(@, msg)]

ConvertOpenAIToolMessagesToAnthropic(messages) ==
  FoldLeft(ConvertMessage,
           [out |-> <<>>, pending |-> [f \in Functions |-> <<>>], known |-> {}], messages).out

-----------------------------------------------------------------------------
(* Tool declarations and tool_choice.  A declaration without a usable       *)
(* function is left as it is.                                               *)
ConvertToolDeclarations(tools) ==
  Apply(LAMBDA t : IF t.shape = "openai" /\ t.name # "" THEN Tool("anthropic", t.name) ELSE t, tools)

BuildToolChoice(type, name, disabled) ==
  [type |-> type, name |-> IF type = "tool" THEN name ELSE "", disabled |-> disabled]

(* Mutant: parallel calls are switched off in a choice only. *)
ForgetsParallel(choice, disabled) ==
  CASE choice.type \in {"auto", "objectAuto"} -> BuildToolChoice("auto", "", disabled)
    [] choice.type \in {"required", "objectAny"} -> BuildToolChoice("any", "", disabled)
    [] choice.type \in {"function", "tool"} -> BuildToolChoice("tool", choice.name, disabled)
    [] OTHER -> NoChoice

ConvertToolChoice(choice, disabled) ==
  CASE choice.type \in {"auto", "objectAuto"} -> BuildToolChoice("auto", "", disabled)
    [] choice.type \in {"required", "objectAny"} -> BuildToolChoice("any", "", disabled)
    [] choice.type \in {"function", "tool"} ->
         BuildToolChoice(IF choice.name = "" THEN "auto" ELSE "tool", choice.name, disabled)
    [] OTHER -> IF disabled THEN BuildToolChoice("auto", "", TRUE) ELSE NoChoice

(* tools is Null where the field is absent, otherwise [form, parts]. *)
ConvertOpenAIToolsToAnthropic(tools, choice, parallel) ==
  IF choice.type = "none" THEN [tools |-> Null, choice |-> NoChoice]
  ELSE IF tools = Null THEN [tools |-> Null, choice |-> NoChoice]
  ELSE [tools |-> Parts(ConvertToolDeclarations(tools.parts)),
        choice |-> ConvertToolChoice(choice, parallel = "false")]

-----------------------------------------------------------------------------
(* System and developer messages become the system field, behind what is    *)
(* there already, unless they carry no text at all.                         *)
SystemTexts(messages) ==
  Select(Apply(LAMBDA m : TextOf(m.content), Select(messages, Instructs)),
            LAMBDA t : t # <<>>)

(* Mutant: the promoted text goes in front. *)
PrependSystemText(system, texts) ==
  IF system.form = "array" THEN Parts(Apply(Text, texts) \o system.parts)
  ELSE Str(FlattenSeq(texts) \o TextOf(system))

AppendSystemText(system, texts) ==
  IF system.form = "array" THEN Parts(system.parts \o Apply(Text, texts))
  ELSE Str(TextOf(system) \o FlattenSeq(texts))

(* A message whose content is neither string nor text blocks (null counts   *)
(* as the empty string) stays where it is.                                  *)
PromoteSystemMessages(body) ==
  LET texts == SystemTexts(body.messages)
  IN  IF texts = <<>> THEN body
      ELSE [body EXCEPT !.system = AppendSystemText(@, texts),
                        !.messages = Apply(LAMBDA m : Message(m.role, m.content),
                                           Select(@, LAMBDA m : ~Instructs(m)))]

(* Inline images become Anthropic images; remote ones are dropped. *)
Anthropic(p) == IF p.type = "image_url" THEN Image("base64") ELSE p
ConvertImageParts(msg) ==
  IF msg.content.form = "array"
  THEN [msg EXCEPT !.content.parts =
          Apply(Anthropic, Select(@, LAMBDA p : p.type = "image_url" => p.url = "data"))]
  ELSE msg
ConvertImagePartsToAnthropic(body) == [body EXCEPT !.messages = Apply(ConvertImageParts, @)]

(* Mutant: marks do not keep the array. *)
FlattenAlways(system) ==
  IF system.form # "array" \/ Joined(system.parts) = <<>>
  THEN system ELSE Str(Joined(system.parts))

(* A system array is kept when a block is marked, and when it has no text. *)
FlattenSystem(system) ==
  IF \/ system.form # "array"
     \/ \E k \in DOMAIN system.parts : system.parts[k].marked
     \/ Joined(system.parts) = <<>>
  THEN system ELSE Str(Joined(system.parts))

(* The last tool is marked, unless the client placed a mark anywhere. *)
ApplyAnthropicToolCacheMarker(body, enabled, clientMarked) ==
  IF ~enabled THEN [body |-> body, result |-> ""]
  ELSE IF clientMarked THEN [body |-> body, result |-> "skipped_client_marker"]
  ELSE IF PartsOf(body.tools) = <<>> THEN [body |-> body, result |-> "skipped_no_tools"]
  ELSE [body |-> [body EXCEPT !.tools.parts[Len(body.tools.parts)].marked = TRUE],
        result |-> "added"]

(* A mark the client placed: on a system block, on a part or on a tool. *)
Marked(s) == \E k \in DOMAIN s : s[k].type = "text" /\ s[k].marked
HasCacheControl(request) ==
  \/ Marked(PartsOf(request.system))
  \/ \E k \in DOMAIN request.messages : Marked(PartsOf(request.messages[k].content))
  \/ \E k \in DOMAIN PartsOf(request.tools) : request.tools.parts[k].marked

-----------------------------------------------------------------------------
(* A request for the bridge has limit, its token limit (0: none), effort    *)
(* ("", "none", one of Budget's, or one nobody knows) and the fields above. *)
Efforts == DOMAIN Budget
Thinks(request) == request.effort \notin {"", "none"}
BudgetFor(effort) == IF effort \in Efforts THEN Budget[effort] ELSE Budget["medium"]

(* validateClaudeChat, for a deployment known or not to refuse thinking. *)
ValidClaudeChat(request, unsupported) ==
  \/ unsupported
  \/ ~Thinks(request)
  \/ /\ request.effort \in Efforts
     /\ request.limit # 0 => request.limit > Budget[request.effort]

(* Mutant: the limit is raised only when it is below the budget. *)
RaisesTooLate(request, unsupported) ==
  LET limit == IF request.limit = 0 THEN DefaultLimit ELSE request.limit
      budget == IF unsupported \/ ~Thinks(request) THEN 0 ELSE BudgetFor(request.effort)
  IN  [budget |-> budget,
       limit |-> IF budget # 0 /\ limit < budget /\ request.limit = 0
                 THEN budget + Headroom ELSE limit]

(* The limit that is sent and the budget of the thinking block, 0 without   *)
(* one: the default limit makes room for the budget, the client's does not. *)
Reasoning(request, unsupported) ==
  LET limit == IF request.limit = 0 THEN DefaultLimit ELSE request.limit
      budget == IF unsupported \/ ~Thinks(request) THEN 0 ELSE BudgetFor(request.effort)
  IN  [budget |-> budget,
       limit |-> IF budget # 0 /\ limit <= budget /\ request.limit = 0
                 THEN budget + Headroom ELSE limit]

OpenAIToBedrockBody(request, unsupported, autoCache) ==
  LET tools == ConvertOpenAIToolsToAnthropic(request.tools, request.choice, request.parallel)
      messages == ConvertOpenAIToolMessagesToAnthropic(request.messages)
      body == PromoteSystemMessages(
                [messages |-> messages, system |-> request.system,
                 tools |-> tools.tools, choice |-> tools.choice,
                 reasoning |-> Reasoning(request, unsupported)])
      images == ConvertImagePartsToAnthropic(body)
  IN  ApplyAnthropicToolCacheMarker([images EXCEPT !.system = FlattenSystem(@)],
                                    autoCache, HasCacheControl(request))

(* The body /anthropic/v1/messages sends for a Claude model. *)
BedrockBody(request, unsupported, autoCache) ==
  LET promoted == PromoteSystemMessages(
        [messages |-> request.messages, system |-> request.system, tools |-> request.tools,
         choice |-> request.choice, thinking |-> request.thinking /\ ~unsupported])
      images == ConvertImagePartsToAnthropic(promoted)
  IN  ApplyAnthropicToolCacheMarker([images EXCEPT !.system = FlattenSystem(@)],
                                    autoCache, HasCacheControl(request))

(* An answer of Bedrock, [error, id, content, stop], as a chat.completion.  *)
BedrockToOpenAI(answer) ==
  LET uses == OfType(answer.content, {"tool_use"})
      told == CASE answer.stop = "max_tokens" -> "length"
                [] answer.stop = "tool_use" -> "tool_calls"
                [] OTHER -> IF uses # <<>> THEN "tool_calls" ELSE "stop"
      text == Joined(answer.content)
  IN  IF answer.error \/ (answer.id = "" /\ answer.content = <<>>) THEN [error |-> TRUE]
      ELSE [error |-> FALSE, finish |-> told,
            content |-> IF text = <<>> /\ uses # <<>> THEN Null ELSE Str(text),
            reasoning |-> OfType(answer.content, {"thinking"}) # <<>>,
            calls |-> Apply(LAMBDA u : Call(u.id, u.name), uses)]
=============================================================================
