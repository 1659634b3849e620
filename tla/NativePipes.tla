----------------------------- MODULE NativePipes -----------------------------
(* PipeOpenAI, PipeAnthropic, PipeResponses and PipeGemini forward the      *)
(* frames of their own protocol and watch for its end, errors and usage.    *)
(* A Gemini stream that is no SSE is forwarded as bytes and read only once  *)
(* it has ended, from a capture of limited size.                            *)
EXTENDS StreamPipe

NativeGemini == {"geminiSSE", "geminiArray"}
Natives == {"openai", "anthropic", "responses"} \cup NativeGemini

(* up.array: the closing bracket of the array was sent. *)
InitNative ==
  \E p \in Natives :
    InitPipe(p, "loop", [fate |-> "open", array |-> FALSE, calls |-> <<>>],
             [capture |-> <<>>, truncated |-> FALSE])

Blocks == BlocksOf({"input", "output"}, MaxCount)
GeminiBlocks == BlocksOf({"prompt", "candidates"}, MaxCount)

(* What each observer makes of the usage in a frame. *)
ObservedIn(p) ==
  CASE p = "openai"    -> {ApplyOpenAI(acc, u) : u \in Blocks}
    [] p = "anthropic" -> {ApplyAnthropic(acc, u, start) : u \in Blocks, start \in BOOLEAN}
    [] p = "responses" -> {acc, MarkObserved(acc)}
    [] OTHER           -> {ApplyGemini(acc, u) : u \in GeminiBlocks}

(* An event that is neither the last nor an error.  PipeResponses also lets *)
(* [DONE] and errors without a type pass like this, and a Gemini pipe what  *)
(* is no event at all (its observer then only marks the request).           *)
NativeEvent(p) ==
  /\ p # "geminiArray" /\ Read(p) /\ UNCHANGED <<up, local>>
  /\ acc' \in ObservedIn(p)
  /\ Write(<<Plain("content")>>)

(* [DONE], message_stop, and response.completed or response.incomplete,     *)
(* whose response holds the usage.                                          *)
NativeEnd(p) ==
  /\ p \notin NativeGemini /\ Read(p) /\ UNCHANGED local
  /\ Sends("complete")
  /\ acc' \in CASE p = "openai"    -> {acc}
                [] p = "anthropic" -> {MarkObserved(acc)}
                [] OTHER           -> {ApplyAnthropic(acc, u, TRUE) : u \in Blocks}
  /\ Reply(<<Plain(IF p = "openai" THEN "done" ELSE "stop")>>, TRUE, FALSE)

(* Mutant: the failure of a response is passed on and not counted. *)
ForwardsFailure(p) ==
  /\ p \notin NativeGemini /\ Read(p) /\ UNCHANGED local
  /\ Sends("failed")
  /\ acc' = IF p = "responses" THEN acc ELSE NoteStreamError(acc)
  /\ Reply(ErrorChunks, TRUE, FALSE)

(* The upstream's error is forwarded, followed by [DONE] for OpenAI.  The   *)
(* observers of OpenAI and Anthropic chunks note the failure themselves.    *)
NativeError(p) ==
  /\ p \notin NativeGemini /\ Read(p) /\ UNCHANGED local
  /\ Sends("failed")
  /\ acc' = IF p = "responses" THEN MarkUpstreamStatus(acc, 502) ELSE NoteStreamError(acc)
  /\ Reply(ErrorChunks, TRUE, FALSE)

(* An Anthropic error event that says so in its name only: the pipe takes   *)
(* it for an error and the accumulator does not.                            *)
NamedError ==
  /\ Read("anthropic") /\ UNCHANGED local
  /\ Sends("named")
  /\ acc' = MarkObserved(acc)
  /\ Reply(ErrorChunks, TRUE, FALSE)

NativeGarbage(p) ==
  /\ p \notin NativeGemini /\ Read(p) /\ UNCHANGED local
  /\ Sends("garbled") /\ Fail(acc)

(* Gemini: an error is noted and does not end the stream. *)
GeminiEventError ==
  /\ Read("geminiSSE") /\ UNCHANGED local
  /\ Sends("failed")
  /\ acc' = NoteStreamError(acc)
  /\ Write(<<Plain("error")>>)

EndGeminiSSE ==
  /\ pipe = "geminiSSE" /\ phase = "after"
  /\ IF cut = "error" /\ ~writeFailed
     THEN Close(ErrorChunks) /\ acc' = NoteStreamError(acc)
     ELSE Close(<<>>) /\ UNCHANGED acc

(* The bytes of an element of the array, which has usage or is an error, are *)
(* forwarded; then they are added to the capture or, above 512 KiB, end it.  *)
ArrayBytes ==
  /\ Read("geminiArray") /\ ~up.array
  /\ \E u \in GeminiBlocks, failed \in BOOLEAN, last \in BOOLEAN :
       /\ failed => DOMAIN u = {}
       /\ up' = [up EXCEPT !.array = last, !.fate = IF failed THEN "failed" ELSE @]
       /\ Write(<<Plain("content")>>)
       /\ \/ /\ ~writeFailed' /\ ~local.truncated
             /\ local' = [local EXCEPT !.capture = Append(@, u)]
             /\ UNCHANGED acc
          \/ /\ ~writeFailed' /\ ~local.truncated
             /\ local' = [capture |-> <<>>, truncated |-> TRUE]
             /\ acc' = MarkCaptureDropped(acc)
          \/ /\ writeFailed' \/ local.truncated
             /\ UNCHANGED <<local, acc>>

(* observeGeminiStream: only a whole array can be parsed.  The errors in it *)
(* are not looked for.                                                      *)
ObserveCapture(a) ==
  IF local.truncated \/ local.capture = <<>> THEN a
  ELSE IF up.array THEN FoldLeft(ApplyGemini, MarkObserved(a), local.capture)
  ELSE MarkObserved(a)

EndGeminiArray ==
  /\ pipe = "geminiArray" /\ phase = "after"
  /\ Close(<<>>)
  /\ acc' = IF writeFailed THEN acc
            ELSE ObserveCapture(IF cut = "error" THEN MarkUpstreamStatus(acc, 502) ELSE acc)

StepNative ==
  \/ \E p \in Natives : NativeEvent(p) \/ NativeEnd(p) \/ NativeError(p) \/ NativeGarbage(p)
  \/ NamedError \/ GeminiEventError \/ ArrayBytes
  \/ EndGeminiSSE \/ EndGeminiArray
  \/ pipe \in {"openai", "anthropic", "responses"} /\ EndUnlessTerminal
=============================================================================
