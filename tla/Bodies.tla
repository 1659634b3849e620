------------------------------- MODULE Bodies -------------------------------
(* What the bridges are given: conversations of either protocol, which grow *)
(* by one legal message at a time, requests with every combination of       *)
(* options, answers that grow by one item, and tool output that grows by    *)
(* one line.  The properties say what the converted request or answer and   *)
(* the compressed output have to be.                                        *)
EXTENDS ChatToGemini, LogCompressor, TLC

CONSTANTS MaxMessages, MaxItems,
          CallIds,    \* CallIds[n] is the id of the n-th call of a conversation
          CallLists,  \* the lists of functions a turn may call
          Limits,     \* token limits of a client, 0 for none
          MaxLines, Dialects   \* sets of lines a tool's output is made of

ASSUME CallIdsAssumption ==
  CallIds \in Seq(Range(CallIds)) /\ IsInjective(CallIds) /\ "" \notin Range(CallIds)
ASSUME LimitsAssumption == Limits \subseteq Nat
ASSUME CallListsAssumption == CallLists \subseteq Seq(Functions)
ASSUME DialectsAssumption == \A d \in Dialects : \A l \in d : l.size \in Nat /\ l.indented \in BOOLEAN

VARIABLES kind,     \* "chat", "anthropic", "options", "answer" or "log"
          talk,     \* the messages
          open,     \* the calls of the last turn that have no result yet
          system,   \* the system field of an Anthropic request
          options,  \* tools, tool choice, reasoning
          answer,   \* what the upstream says: items, and how it ended
          dialect, output   \* the output of a tool

bodiesVars == <<kind, talk, open, system, options, answer, dialect, output>>

DefaultOptions == [tools |-> Null, choice |-> NoChoice, parallel |-> "absent", effort |-> "",
                   limit |-> 0, unsupported |-> FALSE]

(* Passages are numbered by the message they are in, so that none is said   *)
(* twice; those of the system field are 1 and 2.                            *)
Passage(part) == <<10 * (Len(talk) + 1) + part>>
MarkedText(text) == [Text(text) EXCEPT !.marked = TRUE]

SystemFields ==
  {Null, Str(<<1>>), Parts(<<Text(<<1>>), Text(<<2>>)>>), Parts(<<MarkedText(<<1>>), Text(<<2>>)>>)}

MarkTool(tool) == [tool EXCEPT !.marked = TRUE]
Declared == {Null, Parts(<<>>)} \cup
  {Parts(<<Tool("openai", f)>>) : f \in Functions} \cup
  {Parts(<<Tool("openai", f), Tool("openai", g)>>) : f, g \in Functions} \cup
  {Parts(<<MarkTool(Tool("openai", f)), Tool("openai", f)>>) : f \in Functions}
ToolChoices == {NoChoice, Choice("auto"), Choice("none"), Choice("required")}
             \cup {Named("function", f) : f \in Functions}
PlainTool == Tool("anthropic", CHOOSE f \in Functions : TRUE)
MarkedTool == MarkTool(PlainTool)
ToolFields == {Null, Parts(<<PlainTool>>), Parts(<<MarkedTool, PlainTool>>)}

(* Every combination of the options of a request. *)
Options == [tools : Declared, choice : ToolChoices, parallel : {"absent", "true", "false"},
            effort : {"", "none", "unknown"} \cup Efforts, limit : Limits, unsupported : BOOLEAN]

BodiesInit ==
  /\ open = <<>> /\ answer = [items |-> <<>>, ended |-> "open"] /\ output = <<>>
  /\ \/ kind \in {"chat", "answer", "log"} /\ talk = <<>> /\ system = Null /\ options = DefaultOptions
     \/ kind = "anthropic" /\ talk = <<>>
        /\ \E t \in ToolFields : options = [DefaultOptions EXCEPT !.tools = t]
        /\ system \in IF options.tools = Parts(<<PlainTool>>) THEN SystemFields ELSE {Null}
     \/ kind = "options" /\ talk = <<Message("user", Str(<<11>>))>> /\ system = Null
        /\ options \in Options
  /\ dialect \in IF kind = "log" THEN Dialects ELSE {{}}

Says(m) == talk' = Append(talk, m) /\ UNCHANGED <<kind, system, options, answer, dialect, output>>
Free(k) == kind = k /\ Len(talk) < MaxMessages /\ open = <<>> /\ UNCHANGED open
Rest(calls, i) == SubSeq(calls, 1, i - 1) \o SubSeq(calls, i + 1, Len(calls))

(* The calls of a turn have ids nobody used. *)
IdsIn(m) == {m.calls[i].id : i \in DOMAIN m.calls}
            \cup {u.id : u \in Range(OfType(PartsOf(m.content), {"tool_use"}))}
UsedIds == (UNION {IdsIn(m) : m \in Range(talk)}) \ {""}
Used == Cardinality(UsedIds)
Calls(names) == [i \in DOMAIN names |-> Call(CallIds[Used + i], names[i])]

-----------------------------------------------------------------------------
(* A conversation in the OpenAI protocol. *)
SystemSays ==
  /\ Free("chat")
  /\ \/ Says(Message("developer", Str(Passage(1))))
     \/ \E c \in {Str(<<>>), Parts(<<MarkedText(Passage(1)), Text(Passage(2))>>)} :
          Says(Message("system", c))

UserSays ==
  /\ Free("chat")
  /\ \E c \in {Str(Passage(1)), Parts(<<MarkedText(Passage(1))>>),
               Parts(<<ImageUrl("data"), Text(Passage(1))>>),
               Parts(<<Text(Passage(1)), ImageUrl("remote")>>)} :
       Says(Message("user", c))

AssistantSays == Free("chat") /\ Says(Message("assistant", Str(Passage(1))))

AssistantCalls ==
  /\ kind = "chat" /\ Len(talk) < MaxMessages /\ open = <<>>
  /\ \E names \in CallLists, content \in {Null, Str(Passage(1))}, given \in BOOLEAN :
       LET calls == IF given THEN Calls(names) ELSE Apply(LAMBDA f : Call("", f), names)
       IN  /\ Used + Len(names) <= Len(CallIds)
           /\ Says(Calling(content, calls))
           /\ open' = calls

(* Results come in any order, by id or, from an old client that may give    *)
(* its calls no ids, by name.                                               *)
ToolReturns ==
  /\ kind = "chat" /\ Len(talk) < MaxMessages
  /\ \E i \in {j \in DOMAIN open : open[j].id # ""},
        content \in {Str(Passage(1)), Parts(<<MarkedText(Passage(1)), ImageUrl("data")>>), Null} :
       /\ Says(ToolMessage(open[i].id, content))
       /\ open' = Rest(open, i)

FunctionReturns ==
  /\ kind = "chat" /\ Len(talk) < MaxMessages
  /\ \E i \in DOMAIN open :
       /\ Says([Message("function", Str(Passage(1))) EXCEPT !.name = open[i].name])
       /\ open' = Rest(open, i)

-----------------------------------------------------------------------------
(* A conversation in the Anthropic protocol: the results of a turn are all  *)
(* in the next user message.                                                *)
AnthropicUserSays ==
  /\ Free("anthropic")
  /\ \E c \in {Str(Passage(1)), Parts(<<MarkedText(Passage(1)), Text(Passage(2))>>),
               Parts(<<Image("url"), Text(Passage(1))>>), Parts(<<Text(Passage(1)), Image("base64")>>)} :
       Says(Message("user", c))

AnthropicSystemSays ==
  /\ Free("anthropic")
  /\ \E c \in {Str(Passage(1)), Parts(<<MarkedText(Passage(1))>>)} : Says(Message("system", c))

AnthropicAssistantSays ==
  /\ Free("anthropic")
  /\ \E c \in {Str(Passage(1)), Parts(<<Thinking, Text(Passage(1))>>)} :
       Says(Message("assistant", c))

AnthropicAssistantCalls ==
  /\ kind = "anthropic" /\ Len(talk) < MaxMessages /\ open = <<>>
  /\ \E names \in CallLists, before \in {<<>>, <<Thinking, Text(Passage(1))>>} :
       /\ Used + Len(names) <= Len(CallIds)
       /\ Says(Message("assistant", Parts(before \o Apply(LAMBDA c : ToolUse(c.id, c.name), Calls(names)))))
       /\ open' = Calls(names)

AnthropicResults ==
  /\ kind = "anthropic" /\ Len(talk) < MaxMessages /\ open # <<>> /\ open' = <<>>
  /\ \E reversed \in BOOLEAN, first \in {Str(Passage(1)), Parts(<<Text(Passage(1)), Image("base64")>>)},
        after \in {<<>>, <<MarkedText(Passage(2))>>, <<Image("base64"), Text(Passage(2))>>} :
       LET calls == IF reversed THEN Reverse(open) ELSE open
       IN  Says(Message("user", Parts(
             [i \in DOMAIN calls |-> ToolResult(calls[i].id, IF i = 1 THEN first ELSE Null)] \o after)))

-----------------------------------------------------------------------------
(* An answer: what the model said, and how it ended. *)
AnswerGrows ==
  /\ kind = "answer" /\ answer.ended = "open" /\ Len(answer.items) < MaxItems
  /\ \E type \in {"text", "thinking", "call"} :
       answer' = [answer EXCEPT !.items = Append(@, [type |-> type, n |-> Len(@) + 1])]
  /\ UNCHANGED <<kind, talk, open, system, options, dialect, output>>

AnswerEnds ==
  /\ kind = "answer" /\ answer.ended = "open"
  /\ \E ended \in {"done", "cut", "filtered", "failed"} : answer' = [answer EXCEPT !.ended = ended]
  /\ UNCHANGED <<kind, talk, open, system, options, dialect, output>>

LineWritten ==
  /\ kind = "log" /\ Len(output) < MaxLines
  /\ \E l \in dialect : output' = Append(output, l)
  /\ UNCHANGED <<kind, talk, open, system, options, answer, dialect>>

BodiesNext ==
  \/ SystemSays \/ UserSays \/ AssistantSays \/ AssistantCalls \/ ToolReturns \/ FunctionReturns
  \/ AnthropicUserSays \/ AnthropicSystemSays \/ AnthropicAssistantSays
  \/ AnthropicAssistantCalls \/ AnthropicResults
  \/ AnswerGrows \/ AnswerEnds \/ LineWritten

BodiesSpec == BodiesInit /\ [][BodiesNext]_bodiesVars

-----------------------------------------------------------------------------
(* The request a client sends, once no call of its last turn is open.       *)
Sent == kind \in {"chat", "anthropic"} /\ talk # <<>> /\ open = <<>>
Request == [messages |-> talk, system |-> system, tools |-> options.tools,
            choice |-> options.choice, parallel |-> options.parallel, thinking |-> FALSE,
            effort |-> options.effort, limit |-> options.limit]

ToBedrock == IF kind = "anthropic" THEN BedrockBody(Request, FALSE, TRUE).body
             ELSE OpenAIToBedrockBody(Request, FALSE, TRUE).body
ToChat == IF kind = "anthropic" THEN AnthropicToOpenAIBody(Request) ELSE Request
ToResponses == ChatToResponsesBody(ToChat)
ToGemini == OpenAIToGeminiBody(ToChat)

ByName == \E k \in DOMAIN talk : talk[k].role = "function"
Mixed == ByName /\ \E k \in DOMAIN talk : talk[k].role = "tool"
NameOf(c) == c.name
DistinctNames == \A k \in DOMAIN talk : IsInjective(Apply(NameOf, talk[k].calls))

(* The ids a list of items refers to, in order. *)
IdsOf(items) == Apply(LAMBDA i : i.id, items)
SameIds(s, t) == Range(s) = Range(t) /\ IsInjective(s) /\ IsInjective(t)

(* What Anthropic accepts: only users and assistants speak, and the tool    *)
(* uses of a turn are answered, all of them and each once, by the results   *)
(* that lead the very next message; there are no other results.  That ids   *)
(* of different turns differ is not asked: those the proxy makes up repeat. *)
UsesOf(m) == IF m.role = "assistant" THEN OfType(PartsOf(m.content), {"tool_use"}) ELSE <<>>
ResultsOf(m) == OfType(PartsOf(m.content), {"tool_result"})
AnthropicAccepts(messages) ==
  \A k \in DOMAIN messages :
    LET m == messages[k]
        results == ResultsOf(m)
        uses == UsesOf(m)
    IN  /\ m.role \in {"user", "assistant"} /\ m.calls = <<>>
        /\ SubSeq(PartsOf(m.content), 1, Len(results)) = results
        /\ results # <<>> =>
             m.role = "user" /\ k > 1 /\ UsesOf(messages[k - 1]) # <<>>
        /\ uses # <<>> =>
             k < Len(messages) /\ SameIds(IdsOf(uses), IdsOf(ResultsOf(messages[k + 1])))

(* What the OpenAI protocol asks: a turn's calls are followed by as many    *)
(* tool messages, one for each; there are no others, and no blocks of the   *)
(* other protocol.                                                          *)
OpenAIAccepts(messages) ==
  \A k \in DOMAIN messages :
    LET m == messages[k]
        n == Len(m.calls)
    IN  /\ OfType(PartsOf(m.content), AnthropicOnly) = <<>> /\ ~Marked(PartsOf(m.content))
        /\ n > 0 => /\ k + n <= Len(messages)
                    /\ \A j \in (k + 1)..(k + n) : messages[j].role = "tool"
                    /\ SameIds(IdsOf(m.calls), IdsOf(SubSeq(messages, k + 1, k + n)))
        /\ m.role = "tool" =>
             \E j \in 1..(k - 1) : j + Len(messages[j].calls) >= k

(* Calls and outputs of a Responses or Gemini conversation, by their types. *)
Paired(items, calls, outputs) ==
  LET used == OfType(items, {calls, outputs})
  IN  /\ SameIds(IdsOf(OfType(used, {calls})), IdsOf(OfType(used, {outputs})))
      /\ \A i \in DOMAIN used : used[i].type = outputs =>
           \E j \in 1..(i - 1) : used[j].type = calls /\ used[j].id = used[i].id
GeminiParts(contents) == FlattenSeq(Apply(LAMBDA c : c.parts, contents))

(* Every tool turn of a legal conversation reaches every upstream as a tool *)
(* turn its protocol accepts: no result dropped, answered twice, given to   *)
(* another call or separated from its turn, no role the upstream rejects.   *)
(* Left out are turns that call a function twice, and results by name after *)
(* results by id, which lose track of a call on the way to Bedrock (see     *)
(* ResultsTogether), and conversations whose only instructions are empty,   *)
(* which keep their system role.                                            *)
Instructions == FlattenSeq(Apply(LAMBDA m : TextOf(m.content), Select(talk, Instructs)))
Silent == Instructions = <<>> /\ Select(talk, Instructs) # <<>>
ToolTurnsWhole ==
  Sent =>
    \A chat \in {ToChat} :
      LET responses == ChatToResponsesBody(chat)
          gemini == OpenAIToGeminiBody(chat)
      IN  /\ ~Silent /\ DistinctNames /\ ~Mixed => AnthropicAccepts(ToBedrock.messages)
          /\ kind = "anthropic" => OpenAIAccepts(chat.messages)
          /\ ~ByName => Paired(responses.input, "function_call", "function_call_output")
          /\ ~ByName /\ ~gemini.refused =>
               Paired(GeminiParts(gemini.contents), "functionCall", "functionResponse")

(* What is said: the passages of messages, results included, in order. *)
SaidBy(p) ==
  CASE p.type = "text" -> p.text
    [] p.type = "tool_result" -> TextOf(p.content)
    [] OTHER -> <<>>
Speech(messages) ==
  FlattenSeq(Apply(LAMBDA m : IF m.content.form = "array"
                              THEN FlattenSeq(Apply(SaidBy, m.content.parts))
                              ELSE TextOf(m.content), messages))
Spoken(messages) == Select(messages, LAMBDA m : ~Instructs(m))
SystemText == TextOf(system) \o Instructions

(* What is said in the items of a Responses input and in the parts of       *)
(* Gemini contents.                                                         *)
SaidByItem(i) ==
  CASE i.type = "message" -> TextOf(i.content)
    [] i.type = "function_call_output" -> i.text
    [] OTHER -> <<>>
SaidByPart(p) == IF p.type \in {"text", "functionResponse"} THEN p.text ELSE <<>>

(* Nothing a client says, and no text of a tool's result, is lost, repeated *)
(* or reordered on the way to Bedrock, into a chat request and from there   *)
(* to Responses or, unless it refuses, to Gemini; and the client's          *)
(* instructions arrive as instructions, the system field before the         *)
(* messages promoted into it.  Left out are the results that lose their     *)
(* call on the way to Bedrock, as above.                                    *)
NothingLost ==
  Sent =>
    \A chat \in {ToChat} :
      LET bedrock == ToBedrock
          gemini == OpenAIToGeminiBody(chat)
          said == Speech(Spoken(talk))
      IN  /\ DistinctNames /\ ~Mixed => Speech(Spoken(bedrock.messages)) = said
          /\ TextOf(bedrock.system) = SystemText
          /\ ChatToResponsesBody(chat).instructions = SystemText
          /\ kind = "anthropic" => Speech(Spoken(chat.messages)) = said
          /\ FlattenSeq(Apply(SaidByItem, ChatToResponsesBody(chat).input)) = said
          /\ ~gemini.refused =>
               /\ FlattenSeq(Apply(LAMBDA p : p.text, gemini.system)) = SystemText
               /\ FlattenSeq(Apply(SaidByPart, GeminiParts(gemini.contents))) = said
          /\ kind = "chat" /\ ~ByName =>
               ~gemini.refused <=> \A k \in DOMAIN talk : talk[k].role # "tool" => Representable(talk[k].content)

(* Cache breakpoints on the way to Bedrock.  The blocks of a marked system  *)
(* field come first and unchanged, a marked part of a user or assistant     *)
(* message stays marked, and so does a marked Anthropic tool; the proxy     *)
(* marks a tool of its own, the last, only when the client placed no mark   *)
(* at all.  Marks on instructions among the messages, on the content of     *)
(* tool messages and on OpenAI tool declarations do not arrive: these are   *)
(* written anew, without them.  They still keep the proxy from marking.     *)
(* Of the blocks of a message only texts are marked here.                   *)
MarksIn(m) ==
  IF m.role \in {"user", "assistant"}
  THEN Apply(LAMBDA p : p.text, Select(PartsOf(m.content), LAMBDA p : p.type = "text" /\ p.marked))
  ELSE <<>>
MarksOf(messages) == FlattenSeq(Apply(MarksIn, messages))
MarkedTools(tools) == {k \in DOMAIN tools : tools[k].marked}
BreakpointsKept ==
  Sent \/ kind = "options" =>
    /\ Marked(PartsOf(system)) => IsPrefix(system.parts, PartsOf(ToBedrock.system))
    /\ MarksOf(ToBedrock.messages) = MarksOf(talk)
    /\ MarkedTools(PartsOf(ToBedrock.tools)) =
         IF ~HasCacheControl(Request) THEN {Len(PartsOf(ToBedrock.tools))} \ {0}
         ELSE IF kind = "anthropic" THEN MarkedTools(PartsOf(options.tools)) ELSE {}

(* The tools on offer and the choice among them survive the way into the    *)
(* Anthropic protocol and back: nothing is forced that was free or free     *)
(* that was forced, parallel calls stay off when they were, and "none"      *)
(* offers no tool at all.  Responses and, unless it refuses, Gemini are     *)
(* told the same choice, whichever it is.                                   *)
WithoutMarks(tools) == Parts(Apply(LAMBDA t : [t EXCEPT !.marked = FALSE], tools.parts))
ReadGemini(choice) ==
  CASE choice = Choice("AUTO") -> Choice("auto")
    [] choice = Choice("NONE") -> Choice("none")
    [] choice = Choice("ANY") -> Choice("required")
    [] choice.type = "ANY" /\ choice # Choice("ANY") -> Named("function", choice.name)
    [] OTHER -> choice
ChoiceSurvives ==
  kind = "options" /\ options.tools # Null =>
    LET there == ConvertOpenAIToolsToAnthropic(options.tools, options.choice, options.parallel)
        back == ConvertAnthropicToolsToOpenAI(there.tools, there.choice)
        off == options.parallel = "false"
    IN  /\ IF options.choice.type = "none" THEN PartsOf(there.tools) = <<>> /\ there.choice = NoChoice
           ELSE /\ back.tools = WithoutMarks(options.tools)
                /\ back.choice = IF options.choice = NoChoice /\ off THEN Choice("auto") ELSE options.choice
                /\ back.parallel = "false" <=> off
        /\ ToResponses.choice = options.choice
        /\ ~ToGemini.refused => ~off /\ ReadGemini(ToGemini.choice) = options.choice

(* A thinking budget is always below the token limit that goes with it, for *)
(* a deployment known to refuse thinking both or neither of the times it is *)
(* looked up, and a limit the client set is never changed.                  *)
ThinkingFits ==
  kind = "options" /\ ValidClaudeChat(Request, options.unsupported) =>
    LET r == Reasoning(Request, options.unsupported)
    IN  /\ r.budget # 0 => r.budget < r.limit
        /\ options.limit # 0 => r.limit = options.limit
        /\ options.effort \in Efforts /\ ~options.unsupported => r.budget = Budget[options.effort]

-----------------------------------------------------------------------------
(* The answer as each upstream would put it. *)
Spoke(type) == Select(answer.items, LAMBDA i : i.type = type)
CallsMade == Apply(LAMBDA i : Call(CallIds[i.n], CHOOSE f \in Functions : TRUE), Spoke("call"))
TextSaid == Apply(LAMBDA i : i.n, Spoke("text"))
AsBlock(i) ==
  CASE i.type = "text" -> Text(<<i.n>>)
    [] i.type = "thinking" -> Thinking
    [] i.type = "call" -> ToolUse(CallIds[i.n], CHOOSE f \in Functions : TRUE)
AsItem(i) ==
  CASE i.type = "text" -> Said("assistant", Str(<<i.n>>))
    [] i.type = "thinking" -> [type |-> "reasoning"]
    [] i.type = "call" -> FunctionCall(CallIds[i.n], CHOOSE f \in Functions : TRUE)
AsPart(i) ==
  CASE i.type = "text" -> GeminiText(<<i.n>>)
    [] i.type = "thinking" -> [GeminiText(<<i.n>>) EXCEPT !.thought = TRUE]
    [] i.type = "call" -> GeminiCall(CallIds[i.n], CHOOSE f \in Functions : TRUE)

Failed == answer.ended = "failed"
FromBedrock == BedrockToOpenAI(
  [error |-> Failed, id |-> "msg", content |-> Apply(AsBlock, answer.items),
   stop |-> IF answer.ended = "cut" THEN "max_tokens" ELSE IF CallsMade # <<>> THEN "tool_use" ELSE "end_turn"])
FromResponses == ResponsesToChatCompletion(
  [error |-> FALSE, output |-> Apply(AsItem, answer.items),
   status |-> CASE answer.ended = "done" -> "completed" [] Failed -> "failed" [] OTHER -> "incomplete",
   reason |-> IF answer.ended = "filtered" THEN "content_filter" ELSE "max_output_tokens"])
FromGemini == GeminiToOpenAIResponse(
  [error |-> Failed,
   candidates |-> <<[parts |-> Apply(AsPart, answer.items),
                     reason |-> CASE answer.ended = "cut" -> "MAX_TOKENS"
                                  [] answer.ended = "filtered" -> "SAFETY" [] OTHER -> "STOP"]>>])[1]

(* A chat.completion tells how the answer ended (Bedrock has no reason for  *)
(* filtered ones), and an error is told as one.                             *)
FinishTold == CASE answer.ended = "cut" -> "length"
                [] answer.ended = "filtered" -> "content_filter"
                [] OTHER -> IF CallsMade # <<>> THEN "tool_calls" ELSE "stop"
ToldBy(completion) ==
  /\ completion.error = Failed
  /\ ~Failed => /\ completion.finish = FinishTold /\ completion.calls = CallsMade
                /\ TextOf(completion.content) = TextSaid

(* Whatever the upstream, the client gets the text and the calls of the     *)
(* answer, all and in order, and is never told of a cut or failed answer    *)
(* that it was whole; nor is the client of /anthropic/v1/messages, which    *)
(* gets the chat.completion converted once more.                            *)
AnswersTold ==
  kind = "answer" /\ answer.ended # "open" =>
    /\ answer.ended # "filtered" => ToldBy(FromBedrock)
    /\ ToldBy(FromResponses)
    /\ ToldBy(FromGemini)
    /\ ~Failed =>
         LET message == OpenAIToAnthropicResponse(FromResponses)
         IN  /\ Joined(message.content) = TextSaid
             /\ Apply(LAMBDA u : Call(u.id, u.name), OfType(message.content, {"tool_use"})) = CallsMade
             /\ message.stop = "max_tokens" <=> answer.ended = "cut"
             /\ answer.ended = "done" => message.stop = IF CallsMade # <<>> THEN "tool_use" ELSE "end_turn"

(* The frames of a traceback from its header to the exception; a header     *)
(* that is indented itself goes on with the traceback it is found in.       *)
Frames(first, last) ==
  /\ output[first].class = "header" /\ output[last + 1].class = "exception"
  /\ ~output[first].indented
  /\ \A i \in (first + 1)..last : output[i].indented /\ output[i].class # "blank"
  /\ ~output[last + 1].indented
Telling == {i \in DOMAIN output : output[i].class \in {"error", "exception", "fail", "summary"}}
Faithful(result) ==
  /\ ResultBytes(output, result) <= Bytes(output, DOMAIN output)
  /\ Cardinality(result.shown) + MapThenSumSet(LAMBDA m : m.counts, result.markers) = Len(output)
  /\ \A m \in result.markers : (m.at..(m.at + m.counts - 1)) \cap result.shown = {}
  /\ WithContext(output, Telling) \subseteq result.shown
  /\ \A first, last \in DOMAIN output : last + 1 \in DOMAIN output /\ Frames(first, last) =>
       {i \in first..last : \/ last - first < MaxStack
                           \/ i < first + MaxStack \div 2 \/ i > last - MaxStack \div 2}
         \subseteq result.shown
  /\ Cardinality({i \in DOMAIN output : output[i].class # "other" \/ output[i].indented}) <= AdaptiveBudget(Len(output)) =>
       \A i \in DOMAIN output : output[i].class = "warn" =>
         \E j \in result.shown : output[j].class = "warn" /\ output[j].key = output[i].key

(* Compressed output is never longer and says how much of it is missing and *)
(* where; no error, failure or summary is missing, nor a neighbour of one;  *)
(* of the frames before an exception the first and the last are there, all  *)
(* of them when they are few; and when there is room for them every warning *)
(* is there once.  Output whose every line is unremarkable is not taken for *)
(* a log.                                                                   *)
LogFaithful ==
  kind = "log" /\ output # <<>> =>
    /\ Faithful(CompressLog(output))
    /\ LooksLikeLog(output) => \E i \in DOMAIN output : LogSignal(output[i])

(* What the comments say of tool results: those of one assistant turn       *)
(* arrive together, in the user message that follows it.                    *)
ResultsTogether ==
  kind = "chat" /\ Sent /\ ~ByName =>
    \A k \in DOMAIN ToBedrock.messages :
      LET m == ToBedrock.messages[k]
      IN  UsesOf(m) # <<>> =>
            SameIds(IdsOf(UsesOf(m)), IdsOf(ResultsOf(ToBedrock.messages[k + 1])))
=============================================================================
