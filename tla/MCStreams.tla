----------------------------- MODULE MCStreams -----------------------------
(* Two tool-call items, two choices, two candidates; frames enough for two  *)
(* tool calls in each of the protocols.                                     *)
EXTENDS Streams

Both == {0, 1}
AllPipes == OpenAIPipes \cup Natives

Frames ==
  [p \in Pipes |->
     CASE p = "anthropicToOpenAI" -> 8
       [] p = "responsesToOpenAI" -> 6
       [] p = "geminiToOpenAI" -> 2
       [] OTHER -> 3]
=============================================================================
