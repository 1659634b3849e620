------------------------ MODULE OrchestrationToOpenAI ------------------------
(* PipeOrchestrationToOpenAI: the final_result of every frame is itself a   *)
(* Chat chunk; [DONE] ends the stream if every choice has finished.         *)
EXTENDS StreamPipe

CONSTANT ChoiceIndexes  \* indices of the choices a client may ask for

(* up.open and up.over are the choices upstream has begun and finished,      *)
(* up.usage the last value it sent of every count.                           *)
InitOrchestrationToOpenAI ==
  InitPipe("orchestrationToOpenAI", "loop",
    [fate |-> "open", open |-> {}, over |-> {}, calls |-> <<>>, usage |-> <<>>],
    [finished |-> <<>>])

OrchestrationFrame == Read("orchestrationToOpenAI")

(* A frame without final_result, and the placeholder before the first chunk. *)
NoFinalResult ==
  /\ OrchestrationFrame /\ UNCHANGED <<up, local, acc>>
  /\ Write(<<>>)

(* Mutant: a choice that goes on after its finish reason is open again. *)
FinishedNow(choices, over) ==
  [c \in DOMAIN local.finished \cup choices |->
     IF c \in choices THEN c \in over ELSE local.finished[c]]

(* A finish reason is final; other chunks only note that a choice exists. *)
Finished(choices, over) ==
  [c \in DOMAIN local.finished \cup choices |->
     c \in over \/ (c \in DOMAIN local.finished /\ local.finished[c])]

(* The choices of a chunk, some of which it finishes; usage goes out as a   *)
(* chunk of its own and only to a client that asked.  A chunk that follows  *)
(* the finish reason of its choice carries its logprobs or other remainders. *)
OrchestrationChunk ==
  /\ OrchestrationFrame
  /\ \E choices \in SUBSET ChoiceIndexes, over \in SUBSET ChoiceIndexes,
        u \in Running(BlocksOf({"input", "output"}, MaxCount)) :
       /\ over \subseteq choices
       /\ up' = [up EXCEPT !.open = @ \cup choices, !.over = @ \cup over, !.usage = Latest(u)]
       /\ local' = [local EXCEPT !.finished = Finished(choices, over)]
       /\ acc' = ApplyOpenAI(acc, u)
       /\ Write((IF choices # {} THEN <<Chunk("content", 0, 0, 0)>> ELSE <<>>)
                \o (IF includeUsage /\ DOMAIN u # {}
                    THEN <<Chunk("usage", 0, 0, u)>> ELSE <<>>))

(* [DONE] is believed when there was a choice and all have finished. *)
OrchestrationDone ==
  /\ OrchestrationFrame /\ UNCHANGED local
  /\ Sends(IF up.open = up.over /\ up.open # {} THEN "complete" ELSE "garbled")
  /\ IF DOMAIN local.finished # {} /\ \A c \in DOMAIN local.finished : local.finished[c]
     THEN Reply(<<Plain("done")>>, TRUE, FALSE) /\ UNCHANGED acc
     ELSE Fail(acc)

(* The errors of one or several modules become one error. *)
OrchestrationError ==
  /\ OrchestrationFrame /\ UNCHANGED local
  /\ Sends("failed") /\ Fail(acc)

(* Every frame that is not as the protocol has it ends the stream. *)
OrchestrationGarbage ==
  /\ OrchestrationFrame /\ UNCHANGED local
  /\ Sends("garbled") /\ Fail(acc)

StepOrchestrationToOpenAI ==
  \/ NoFinalResult \/ OrchestrationChunk \/ OrchestrationDone
  \/ OrchestrationError \/ OrchestrationGarbage
  \/ pipe = "orchestrationToOpenAI" /\ EndUnlessTerminal
=============================================================================
