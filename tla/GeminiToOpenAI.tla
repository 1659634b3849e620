--------------------------- MODULE GeminiToOpenAI ---------------------------
(* PipeGeminiToOpenAI: packets of a Gemini stream, framed as SSE or as the  *)
(* elements of a JSON array, become Chat chunks.  There is no terminal      *)
(* event: the answer is whole when every candidate that was announced has   *)
(* finished and, in an array, the closing bracket has arrived.              *)
EXTENDS StreamPipe

CONSTANT Candidates   \* indices of the candidates, 0 the first

(* An answer has finitely many candidates. *)
ASSUME CandidateAssumption == IsFiniteSet(Candidates)

GeminiFields == {"prompt", "candidates", "thoughts"}

(* up.usage is the last value sent of every count, up.steady whether every  *)
(* block had all the counts of the blocks before it.                        *)
InitGeminiToOpenAI ==
  \E array \in BOOLEAN :
    InitPipe("geminiToOpenAI", "loop",
      [fate |-> "open", array |-> array, begun |-> {}, over |-> {}, calls |-> <<>>,
       usage |-> <<>>, steady |-> TRUE],
      [announced |-> {}, finished |-> {}, toolCounts |-> [c \in Candidates |-> 0],
       last |-> [f \in GeminiFields |-> 0]])

GeminiPacketRead == Read("geminiToOpenAI")

(* What one candidate of a packet adds: its role when it is new, its part,  *)
(* and its finish reason.                                                   *)
CandidateChunks(c, part, over) ==
  (IF c \notin local.announced THEN <<Chunk("role", c, 0, 0)>> ELSE <<>>)
  \o (IF part = "call" THEN <<Chunk("tool", c, local.toolCounts[c], 0)>>
      ELSE IF part = "text" THEN <<Chunk("content", c, 0, 0)>> ELSE <<>>)
  \o (IF over THEN <<Chunk("finish", c, 0, 0)>> ELSE <<>>)

CountsTools(present, part) ==
  [c \in Candidates |-> IF part = "call" /\ c \in present THEN local.toolCounts[c] + 1
                        ELSE local.toolCounts[c]]

(* The candidates of a packet are gone through in the order in which it has *)
(* them.  What the client will be told of the usage is the largest of each  *)
(* count.                                                                   *)
Packet(present, order, part, over, u) ==
  /\ present = {} => part = "none" /\ ~over
  /\ part = "none" => over \/ present = {}
  /\ up' = [up EXCEPT
              !.begun = @ \cup present,
              !.over = IF over THEN @ \cup present ELSE @,
              !.calls = IF part = "call"
                        THEN @ \o [k \in 1..Cardinality(present) |->
                                     [choice |-> order[k], parts |-> 0]]
                        ELSE @,
              !.usage = Latest(u),
              !.steady = @ /\ (DOMAIN u = {} \/ DOMAIN up.usage \subseteq DOMAIN u)]
  /\ local' = [local EXCEPT
                 !.announced = @ \cup present,
                 !.finished = IF over THEN @ \cup present ELSE @,
                 !.toolCounts = CountsTools(present, part),
                 !.last = [f \in GeminiFields |->
                             IF f \in DOMAIN u THEN Larger(@[f], u[f]) ELSE @[f]]]
  /\ acc' = ApplyGemini(acc, u)
  /\ Write(FlattenSeq([k \in 1..Cardinality(present) |->
             CandidateChunks(order[k], part, over)]))

GeminiPacket ==
  /\ GeminiPacketRead
  /\ \E present \in SUBSET (Candidates \ up.over), part \in {"none", "text", "call"},
        over \in BOOLEAN, u \in Running(BlocksOf(GeminiFields, MaxCount)) :
       \E order \in SetToSeqs(present) : Packet(present, order, part, over, u)

(* An error, or a prompt that was blocked before there was a candidate. *)
GeminiError ==
  /\ GeminiPacketRead /\ UNCHANGED local
  /\ Sends("failed") /\ Fail(MarkObserved(acc))

GeminiGarbage ==
  /\ GeminiPacketRead /\ UNCHANGED local
  /\ Sends("garbled") /\ Fail(acc)

(* The closing bracket of the array. *)
ArrayCloses ==
  /\ pipe = "geminiToOpenAI" /\ phase = "loop" /\ up.array
  /\ cut' = "closed"
  /\ phase' = "after"
  /\ UNCHANGED <<pipe, includeUsage, up, frames, local, acc, counted,
                 terminal, writeFailed, gone, out>>

(* The decoder reports an array that just ends. *)
Unreadable == cut = "error" \/ (up.array /\ cut # "closed")

AllFinished ==
  local.announced # {} /\ Cardinality(local.finished) = Cardinality(local.announced)

ToldGemini ==
  IF includeUsage
  THEN <<Chunk("usage", 0, 0,
          [input |-> local.last["prompt"],
           output |-> local.last["candidates"] + local.last["thoughts"]])>>
  ELSE <<>>

EndGemini ==
  /\ pipe = "geminiToOpenAI" /\ phase = "after"
  /\ \/ (terminal \/ writeFailed) /\ Close(<<>>) /\ UNCHANGED acc
     \/ /\ ~terminal /\ ~writeFailed
        /\ IF ~Unreadable /\ AllFinished
           THEN Close(ToldGemini \o <<Plain("done")>>) /\ UNCHANGED acc
           ELSE Close(ErrorChunks) /\ acc' = NoteStreamError(acc)

StepGeminiToOpenAI ==
  GeminiPacket \/ GeminiError \/ GeminiGarbage \/ ArrayCloses \/ EndGemini
=============================================================================
