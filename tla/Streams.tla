------------------------------- MODULE Streams -------------------------------
(* One streaming request: the pipe it uses, and the middleware that commits *)
(* what the pipe observed.                                                  *)
EXTENDS AnthropicToOpenAI, ResponsesToOpenAI, OrchestrationToOpenAI,
        GeminiToOpenAI, NativePipes

InitStream == \/ InitAnthropicToOpenAI \/ InitResponsesToOpenAI
              \/ InitOrchestrationToOpenAI \/ InitGeminiToOpenAI \/ InitNative

Init == InitStream /\ pipe \in Pipes

Next == \/ StepAnthropicToOpenAI \/ StepResponsesToOpenAI
        \/ StepOrchestrationToOpenAI \/ StepGeminiToOpenAI \/ StepNative
        \/ ScannerEnds \/ Commit

Spec == Init /\ [][Next]_vars

-----------------------------------------------------------------------------
(* The upstream has said all it had to say. *)
UpstreamComplete ==
  IF pipe = "geminiToOpenAI"
  THEN /\ up.fate = "open" /\ up.begun # {} /\ up.begun = up.over
       /\ IF up.array THEN cut = "closed" ELSE cut = "eof"
  ELSE up.fate = "complete"

Ended == phase = "counted"
Positions(types) == {k \in DOMAIN out : out[k].type \in types}
LastIs(types) == out # <<>> /\ Last(out).type \in types

(* A client that stayed gets exactly one end of stream, after which nothing *)
(* comes, and it is that of a success just when the upstream's answer was   *)
(* whole: a stream that was cut, failed or is unreadable never looks        *)
(* finished, and one that is whole never looks broken.  (The native Gemini  *)
(* protocol has no end to tell.)                                            *)
EndTold ==
  Ended /\ ~gone /\ pipe \notin NativeGemini =>
    /\ IF pipe \in OpenAIPipes
       THEN Cardinality(Positions({"done"})) = 1 /\ LastIs({"done"})
       ELSE Cardinality(Positions({"stop", "error"})) = 1 /\ LastIs({"stop", "error"})
    /\ Positions({"error"}) = {} <=> UpstreamComplete

(* A request whose stream did not complete is counted as a failure, though  *)
(* the client was sent 200; one that completed is not, even if the client   *)
(* left.  Left out are the failures the accumulator does not see: an error   *)
(* element of a Gemini array, and an Anthropic error by SSE name alone.     *)
FailureCounted ==
  Ended =>
    /\ counted = "failure" => ~UpstreamComplete
    /\ ~gone /\ ~UpstreamComplete /\ pipe \notin NativeGemini /\ up.fate # "named"
         => counted = "failure"
    /\ ~gone /\ pipe = "geminiSSE" /\ (up.fate = "failed" \/ cut = "error")
         => counted = "failure"
    /\ ~gone /\ pipe = "geminiArray" /\ cut = "error" => counted = "failure"

(* The calls of choice c among those the upstream sent, the chunks of a     *)
(* stream that announce calls of a choice, and those with arguments of a    *)
(* call.                                                                    *)
CallsOf(c) == {k \in DOMAIN up.calls : up.calls[k].choice = c}
Tools(s, c) == {k \in DOMAIN s : s[k].type = "tool" /\ s[k].choice = c}
Arguments(s, i) == {k \in DOMAIN s : s[k].type = "args" /\ s[k].index = i}

(* A stream announces n calls of choice c, numbered from zero.              *)
Numbered(s, c, n) ==
  /\ Cardinality(Tools(s, c)) = n
  /\ \A k \in Tools(s, c) : s[k].index = Cardinality({j \in Tools(s, c) : j < k})

(* It has n fragments of call i, all of them v, and each after the call.    *)
Filled(s, i, n, v) ==
  /\ Cardinality(Arguments(s, i)) = n
  /\ \A a \in Arguments(s, i) :
       /\ s[a].value = v
       /\ \E t \in Tools(s, 0) : t < a /\ s[t].index = i

(* When a converted stream ends well, the calls of each choice are numbered *)
(* from zero in the order the upstream began them, every fragment of their  *)
(* arguments arrived after and under the number of its call and none twice, *)
(* and an Anthropic call without fragments has an empty object.             *)
ToolCallsWhole ==
  Ended /\ ~gone /\ UpstreamComplete =>
    /\ \A c \in {0} \cup Candidates : Numbered(out, c, Cardinality(CallsOf(c)))
    /\ pipe # "geminiToOpenAI" =>
         \A k \in DOMAIN up.calls :
           IF up.calls[k].parts = 0 /\ pipe = "anthropicToOpenAI"
           THEN Filled(out, k - 1, 1, "empty")
           ELSE Filled(out, k - 1, up.calls[k].parts, "part")

(* An Anthropic message_start had no count of the input side: what a        *)
(* message_delta says of the input is accounted for and not told.           *)
LateInput == pipe = "anthropicToOpenAI" /\ ~up.early

(* What a client is to be told: what is accounted for, without late input. *)
Tellable == IF LateInput THEN [acc.tokens EXCEPT !["input"] = 0] ELSE acc.tokens

(* A client that asked for usage is told the numbers the proxy accounts     *)
(* for, with two exceptions.  Of Gemini counts that a later packet leaves   *)
(* out the client is told the sum of the largest counts, the accumulator    *)
(* keeps the largest sum.  When an Anthropic message_start had no count of  *)
(* the input side, the accumulator takes the first of a message_delta, but  *)
(* the client is told an input of zero.                                     *)
UsageToldIsRecorded ==
  Ended /\ ~gone /\ UpstreamComplete /\ Positions({"usage"}) # {}
    /\ (pipe = "geminiToOpenAI" => up.steady) =>
      LET told == out[Max(Positions({"usage"}))].value
      IN  \A f \in DOMAIN told : told[f] = Tellable[f]
=============================================================================
