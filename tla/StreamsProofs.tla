--------------------------- MODULE StreamsProofs ---------------------------
(* Proofs about the stream converters: for every pipe, every bound and      *)
(* every set of items, choices and candidates, a client that stays is told  *)
(* the end of its stream exactly once and truthfully (EndTold), the         *)
(* middleware counts as failures just the requests it should                *)
(* (FailureCounted), the usage the client is told is the usage the proxy    *)
(* accounts for (UsageToldIsRecorded), and the calls of a whole answer      *)
(* reach the client whole (ToolCallsWhole).  The last part is about the     *)
(* token every request is signed with: exchanges are shared, and the cache  *)
(* hands out neither a token whose stated lifetime is over nor one it saw   *)
(* rejected (TokenCache).                                                   *)
EXTENDS Streams, TokenCache, SequenceTheorems, FiniteSetTheorems, WellFoundedInduction, TLAPS

-----------------------------------------------------------------------------
(* Sequences of chunks.  Nothing is assumed about the values they carry.    *)

IsSequence(s) == s \in Seq(Range(s))

Ends == {"done", "stop", "error"}
Quiet(s) == \A k \in DOMAIN s : s[k].type \notin Ends

(* The end of a stream, as the pipes of the two families write it. *)
Endings == IF pipe \in OpenAIPipes
           THEN {<<Plain("done")>>, <<Plain("error"), Plain("done")>>}
           ELSE {<<Plain("stop")>>, <<Plain("error")>>}

(* s is a quiet stream and then its end, which tells of an error or not. *)
EndsWith(s, e) ==
  LET n == Len(s) - Len(e)
  IN  /\ n \in Nat /\ Quiet(SubSeq(s, 1, n))
      /\ s = SubSeq(s, 1, n) \o e
EndedOnce(s) == \E e \in Endings : EndsWith(s, e)
TellsError(s) == \E k \in DOMAIN s : s[k].type = "error"

-----------------------------------------------------------------------------
(* The inductive invariant.                                                 *)

AllPipes == OpenAIPipes \cup Natives
AccFields == {"tokens", "hasUsage", "inputSet", "status", "failed", "observed", "dropped"}

(* What is a failure for the collector. *)
Bad == acc.failed \/ acc.status >= 400

TypeOK ==
  /\ pipe \in AllPipes
  /\ phase \in {"open", "loop", "after", "closed", "counted"}
  /\ cut \in {"none", "eof", "error", "closed"}
  /\ terminal \in BOOLEAN /\ writeFailed \in BOOLEAN /\ gone \in BOOLEAN
  /\ IsSequence(out)
  /\ "fate" \in DOMAIN up /\ up.fate \in Fates
  /\ DOMAIN acc = AccFields /\ acc.failed \in BOOLEAN /\ acc.status \in {200, 502}

(* The callback runs only for a client that is there. *)
Present ==
  /\ phase \in {"open", "loop"} => ~terminal /\ ~writeFailed /\ ~gone /\ cut = "none"
  /\ phase = "after" => (gone <=> writeFailed)
  /\ writeFailed => gone

(* Until the pipe has seen or made an end, the client knows of none and     *)
(* nothing is counted against the request.                                  *)
Undecided ==
  pipe \notin NativeGemini /\ (phase \in {"open", "loop"} \/ (phase = "after" /\ ~terminal)) =>
    /\ up.fate = "open" /\ ~Bad
    /\ ~gone => Quiet(out)

(* From then on the end that was told and what is counted agree with what   *)
(* the upstream has sent.                                                   *)
Decided ==
  pipe \notin NativeGemini /\ (phase \in {"closed", "counted"} \/ (phase = "after" /\ terminal)) =>
    /\ Bad => ~UpstreamComplete
    /\ ~gone => /\ EndedOnce(out) 
                /\ TellsError(out) <=> ~UpstreamComplete
                /\ ~UpstreamComplete /\ up.fate # "named" => Bad

(* A native Gemini stream is never complete for the pipe: its failures are  *)
(* noted when they are read, or when the pipe returns.                      *)
GeminiNoted ==
  pipe \in NativeGemini =>
    /\ up.fate \in {"open", "failed"} 
    /\ pipe = "geminiSSE" /\ up.fate = "failed" => Bad
    /\ phase \in {"closed", "counted"} /\ ~gone /\ cut = "error" => Bad

Counted == phase = "counted" => (counted = "failure" <=> Bad)

(* What the closures of the two pipes that judge the end themselves know of *)
(* the upstream.                                                            *)
ChoicesKnown ==
  pipe = "orchestrationToOpenAI" =>
    /\ {"open", "over"} \subseteq DOMAIN up /\ "finished" \in DOMAIN local
    /\ up.over \subseteq up.open /\ up.open = DOMAIN local.finished
    /\ \A c \in up.open : local.finished[c] = (c \in up.over)

CandidatesKnown ==
  pipe = "geminiToOpenAI" =>
    /\ {"array", "begun", "over"} \subseteq DOMAIN up
    /\ {"announced", "finished"} \subseteq DOMAIN local
    /\ local.announced = up.begun /\ local.finished = up.over
    /\ up.over \subseteq up.begun /\ up.begun \subseteq Candidates
    /\ up.array \in BOOLEAN
    /\ cut = "closed" => up.array
    /\ phase = "after" /\ ~terminal /\ ~writeFailed => cut # "none"

Core == TypeOK /\ Present /\ Undecided /\ Decided /\ GeminiNoted /\ Counted

(* The capture of the bytes of an array, as far as its elements matter.     *)
CaptureKnown ==
  pipe = "geminiArray" => "capture" \in DOMAIN local /\ IsSequence(local.capture)

IInv == Core /\ ChoicesKnown /\ CandidatesKnown /\ CaptureKnown

-----------------------------------------------------------------------------
(* Lemmas about sequences of chunks.                                        *)

(* A sequence over any set is one over its range. *)
LEMMA SequenceOver ==
  ASSUME NEW S, NEW s \in Seq(S)
  PROVE  IsSequence(s)
<1>1. s \in [1..Len(s) -> Range(s)]
  BY DEF Range
<1> QED BY <1>1 DEF IsSequence

LEMMA SequenceFacts ==
  ASSUME NEW s, IsSequence(s)
  PROVE  Len(s) \in Nat /\ DOMAIN s = 1..Len(s) /\ SubSeq(s, 1, Len(s)) = s
BY DEF IsSequence

LEMMA ConcatSequences ==
  ASSUME NEW s, NEW t, IsSequence(s), IsSequence(t)
  PROVE  /\ IsSequence(s \o t) /\ Len(s \o t) = Len(s) + Len(t)
         /\ \A k \in 1..Len(s) : (s \o t)[k] = s[k]
         /\ \A k \in 1..Len(t) : (s \o t)[Len(s) + k] = t[k]
<1> DEFINE S == Range(s) \cup Range(t)
<1>1. s \in Seq(S) /\ t \in Seq(S)
  BY DEF IsSequence
<1>2. s \o t \in Seq(S)
  BY <1>1
<1>3. \A i \in 1..(Len(s) + Len(t)) :
        (s \o t)[i] = IF i <= Len(s) THEN s[i] ELSE t[i - Len(s)]
  BY <1>1, ConcatProperties
<1>4. Len(s \o t) = Len(s) + Len(t) /\ Len(s) \in Nat /\ Len(t) \in Nat
  BY <1>1
<1>5. \A k \in 1..Len(s) : (s \o t)[k] = s[k]
  BY <1>3, <1>4
<1>6. ASSUME NEW k \in 1..Len(t) PROVE (s \o t)[Len(s) + k] = t[k]
  <2>1. /\ Len(s) + k \in 1..(Len(s) + Len(t)) /\ ~(Len(s) + k <= Len(s))
        /\ (Len(s) + k) - Len(s) = k
    BY <1>4
  <2> QED BY <2>1, <1>3
<1>7. IsSequence(s \o t)
  BY <1>2, SequenceOver
<1> QED BY <1>4, <1>5, <1>6, <1>7

LEMMA PrefixSequence ==
  ASSUME NEW s, IsSequence(s), NEW n \in 0..Len(s)
  PROVE  /\ IsSequence(SubSeq(s, 1, n)) /\ Len(SubSeq(s, 1, n)) = n
         /\ \A k \in 1..n : SubSeq(s, 1, n)[k] = s[k]
<1>1. s \in Seq(Range(s)) /\ Len(s) \in Nat
  BY DEF IsSequence
<1>2. \A k \in 1..n : s[k] \in Range(s)
  BY <1>1 DEF Range
<1>3. /\ SubSeq(s, 1, n) \in Seq(Range(s))
      /\ Len(SubSeq(s, 1, n)) = IF 1 <= n THEN n - 1 + 1 ELSE 0
      /\ \A k \in 1..(n - 1 + 1) : SubSeq(s, 1, n)[k] = s[1 + k - 1]
  BY <1>1, <1>2, SubSeqProperties
<1>4. Len(SubSeq(s, 1, n)) = n
  BY <1>1, <1>3
<1>5. ASSUME NEW k \in 1..n PROVE SubSeq(s, 1, n)[k] = s[k]
  <2>1. k \in 1..(n - 1 + 1) /\ 1 + k - 1 = k
    BY <1>1
  <2> QED BY <1>3, <2>1
<1>6. IsSequence(SubSeq(s, 1, n))
  BY <1>3, SequenceOver
<1> QED BY <1>4, <1>5, <1>6

LEMMA QuietConcat ==
  ASSUME NEW s, NEW t, IsSequence(s), IsSequence(t), Quiet(s), Quiet(t)
  PROVE  Quiet(s \o t)
<1>1. ASSUME NEW k \in DOMAIN (s \o t) PROVE (s \o t)[k].type \notin Ends
  <2>1. k \in 1..(Len(s) + Len(t))
    BY ConcatSequences, SequenceFacts
  <2>2. CASE k \in 1..Len(s)
    BY <2>2, ConcatSequences, SequenceFacts DEF Quiet
  <2>3. CASE k \notin 1..Len(s)
    <3>1. k - Len(s) \in 1..Len(t) /\ k = Len(s) + (k - Len(s))
      BY <2>1, <2>3, SequenceFacts
    <3> QED BY <3>1, ConcatSequences, SequenceFacts DEF Quiet
  <2> QED BY <2>2, <2>3
<1> QED BY <1>1 DEF Quiet

(* What a callback writes before the end: a sequence of chunks that tell    *)
(* no end.                                                                  *)
Saying(s) == IsSequence(s) /\ Quiet(s)

LEMMA SayingNothing == Saying(<<>>)
<1>1. <<>> \in Seq({}) /\ DOMAIN <<>> = {}
  BY EmptySeq
<1> QED BY <1>1, SequenceOver DEF Saying, Quiet

LEMMA SayingOne ==
  ASSUME NEW t, t \notin Ends, NEW c, NEW i, NEW v
  PROVE  Saying(<<Chunk(t, c, i, v)>>)
<1> DEFINE e == Chunk(t, c, i, v)
<1>1. <<e>> \in Seq({e})
  OBVIOUS
<1>2. Quiet(<<e>>)
  BY DEF Quiet, Chunk
<1> QED BY <1>1, <1>2, SequenceOver DEF Saying

LEMMA SayingMore ==
  ASSUME NEW s, NEW t, Saying(s), Saying(t)
  PROVE  Saying(s \o t)
BY ConcatSequences, QuietConcat DEF Saying

(* Each end of a stream is a sequence; it tells of an error just when it    *)
(* has an error chunk.                                                      *)
LEMMA EndingFacts ==
  ASSUME NEW e \in Endings
  PROVE  /\ IsSequence(e) /\ Len(e) \in {1, 2}
         /\ \A k \in 1..Len(e) : e[k].type \in Ends
<1>1. ASSUME NEW a, NEW b
      PROVE  /\ <<a>> \in Seq({a}) /\ Len(<<a>>) = 1 /\ <<a>>[1] = a
             /\ <<a, b>> \in Seq({a, b}) /\ Len(<<a, b>>) = 2
             /\ <<a, b>>[1] = a /\ <<a, b>>[2] = b
  OBVIOUS
<1>2. Plain("done").type = "done" /\ Plain("stop").type = "stop" /\ Plain("error").type = "error"
  BY DEF Plain, Chunk
<1>3. CASE e = <<Plain("done")>>
  <2>1. e \in Seq({Plain("done")}) /\ Len(e) = 1 /\ e[1] = Plain("done")
    BY <1>1, <1>3
  <2>2. IsSequence(e)
    BY <2>1, SequenceOver
  <2> QED BY <1>2, <2>1, <2>2 DEF Ends
<1>4. CASE e = <<Plain("stop")>>
  <2>1. e \in Seq({Plain("stop")}) /\ Len(e) = 1 /\ e[1] = Plain("stop")
    BY <1>1, <1>4
  <2>2. IsSequence(e)
    BY <2>1, SequenceOver
  <2> QED BY <1>2, <2>1, <2>2 DEF Ends
<1>5. CASE e = <<Plain("error")>>
  <2>1. e \in Seq({Plain("error")}) /\ Len(e) = 1 /\ e[1] = Plain("error")
    BY <1>1, <1>5
  <2>2. IsSequence(e)
    BY <2>1, SequenceOver
  <2> QED BY <1>2, <2>1, <2>2 DEF Ends
<1>6. CASE e = <<Plain("error"), Plain("done")>>
  <2>1. /\ e \in Seq({Plain("error"), Plain("done")}) /\ Len(e) = 2
        /\ e[1] = Plain("error") /\ e[2] = Plain("done")
    BY <1>1, <1>6
  <2>2. IsSequence(e)
    BY <2>1, SequenceOver
  <2> QED BY <1>2, <2>1, <2>2 DEF Ends
<1> QED BY <1>3, <1>4, <1>5, <1>6 DEF Endings

(* A quiet stream and an end make a stream that ended once, and that tells  *)
(* of an error if the end does.                                             *)
LEMMA EndsOnce ==
  ASSUME NEW s, Saying(s), NEW e \in Endings
  PROVE  IsSequence(s \o e) /\ EndedOnce(s \o e) /\ (TellsError(s \o e) <=> TellsError(e))
<1>1. IsSequence(s) /\ IsSequence(e) /\ Quiet(s) /\ Len(e) \in {1, 2}
  BY EndingFacts DEF Saying
<1>2. /\ IsSequence(s \o e) /\ Len(s \o e) = Len(s) + Len(e) /\ Len(s) \in Nat /\ Len(e) \in Nat
      /\ \A k \in 1..Len(s) : (s \o e)[k] = s[k]
      /\ \A k \in 1..Len(e) : (s \o e)[Len(s) + k] = e[k]
  BY <1>1, ConcatSequences, SequenceFacts
<1>3. SubSeq(s \o e, 1, Len(s)) = s
  <2> DEFINE p == SubSeq(s \o e, 1, Len(s))
  <2>0. Len(s) \in 0..Len(s \o e)
    BY <1>2
  <2>1. IsSequence(p) /\ Len(p) = Len(s) /\ \A k \in 1..Len(s) : p[k] = (s \o e)[k]
    BY <1>2, <2>0, PrefixSequence
  <2>2. \A k \in 1..Len(p) : p[k] = s[k]
    BY <1>2, <2>1
  <2> DEFINE S == Range(p) \cup Range(s)
  <2>3. p \in Seq(S) /\ s \in Seq(S)
    BY <1>1, <2>1 DEF IsSequence
  <2> HIDE DEF p, S
  <2>4. p = s
    BY <2>1, <2>2, <2>3, SeqEqual
  <2> QED BY <2>4 DEF p
<1>4. Len(s \o e) - Len(e) = Len(s)
  BY <1>2
<1>5. EndedOnce(s \o e)
  BY <1>1, <1>2, <1>3, <1>4 DEF EndedOnce, EndsWith
<1>6. ASSUME TellsError(s \o e) PROVE TellsError(e)
  <2>1. PICK k \in DOMAIN (s \o e) : (s \o e)[k].type = "error"
    BY <1>6 DEF TellsError
  <2>2. k \in 1..(Len(s) + Len(e))
    BY <1>2, <2>1, SequenceFacts
  <2>3. k \notin 1..Len(s)
    BY <1>1, <1>2, <2>1, SequenceFacts DEF Quiet, Ends
  <2>4. k - Len(s) \in 1..Len(e) /\ Len(s) + (k - Len(s)) = k
    BY <1>2, <2>2, <2>3
  <2> QED BY <1>1, <1>2, <2>1, <2>4, SequenceFacts DEF TellsError
<1>7. ASSUME TellsError(e) PROVE TellsError(s \o e)
  <2>1. PICK k \in 1..Len(e) : e[k].type = "error"
    BY <1>1, <1>7, SequenceFacts DEF TellsError
  <2>2. Len(s) + k \in DOMAIN (s \o e)
    BY <1>2, SequenceFacts
  <2> QED BY <1>2, <2>1, <2>2 DEF TellsError
<1> QED BY <1>2, <1>5, <1>6, <1>7

(* In a stream that ended once there is one end, and it is the last chunk.  *)
LEMMA OneEnd ==
  ASSUME IsSequence(out), EndedOnce(out)
  PROVE  IF pipe \in OpenAIPipes
         THEN Cardinality(Positions({"done"})) = 1 /\ LastIs({"done"})
         ELSE Cardinality(Positions({"stop", "error"})) = 1 /\ LastIs({"stop", "error"})
<1> DEFINE last == IF pipe \in OpenAIPipes THEN {"done"} ELSE {"stop", "error"}
           L == Len(out)
<1>1. PICK e \in Endings : EndsWith(out, e)
  BY DEF EndedOnce
<1> DEFINE n == L - Len(e)
           p == SubSeq(out, 1, n)
<1>2. n \in Nat /\ Quiet(p) /\ out = p \o e
  BY <1>1 DEF EndsWith
<1>3. L \in Nat /\ DOMAIN out = 1..L /\ IsSequence(e) /\ Len(e) \in {1, 2}
  BY SequenceFacts, EndingFacts
<1>4. n \in 0..L
  BY <1>2, <1>3
<1>5. IsSequence(p) /\ Len(p) = n
  BY <1>4, PrefixSequence
<1> HIDE DEF p
<1>6. /\ \A k \in 1..n : (p \o e)[k] = p[k]
      /\ \A k \in 1..Len(e) : (p \o e)[n + k] = e[k]
  BY <1>3, <1>5, ConcatSequences
<1>7. \A k \in 1..n : out[k].type \notin Ends
  BY <1>2, <1>5, <1>6, SequenceFacts DEF Quiet
<1>8. \A k \in 1..Len(e) : out[n + k] = e[k]
  BY <1>2, <1>6
<1>9. e[Len(e)].type \in last /\ \A k \in 1..Len(e) : k # Len(e) => e[k].type \notin last
  <2>1. Plain("done").type = "done" /\ Plain("stop").type = "stop" /\ Plain("error").type = "error"
    BY DEF Plain, Chunk
  <2>2. CASE pipe \in OpenAIPipes
    <3>1. \/ Len(e) = 1 /\ e[1] = Plain("done")
          \/ Len(e) = 2 /\ e[1] = Plain("error") /\ e[2] = Plain("done")
      BY <2>2 DEF Endings
    <3>2. last = {"done"}
      BY <2>2
    <3>3. CASE Len(e) = 1 /\ e[1] = Plain("done")
      BY ONLY <2>1, <3>2, <3>3
    <3>4. CASE Len(e) = 2 /\ e[1] = Plain("error") /\ e[2] = Plain("done")
      <4>1. \A k \in 1..2 : k # 2 => k = 1
        OBVIOUS
      <4> QED BY ONLY <2>1, <3>2, <3>4, <4>1
    <3> HIDE DEF last
    <3> QED BY <3>1, <3>3, <3>4
  <2>3. CASE pipe \notin OpenAIPipes
    BY <2>1, <2>3 DEF Endings
  <2> QED BY <2>2, <2>3
<1>10. Positions(last) = {L}
  <2>1. L \in Positions(last)
    <3>1. L \in 1..L /\ n + Len(e) = L /\ Len(e) \in 1..Len(e)
      BY <1>3, <1>4
    <3>2. out[L] = e[Len(e)]
      BY <1>8, <3>1
    <3> QED BY <1>3, <1>9, <3>1, <3>2 DEF Positions
  <2>2. ASSUME NEW k \in Positions(last) PROVE k = L
    <3>1. k \in 1..L /\ out[k].type \in last
      BY <1>3 DEF Positions
    <3>2. k \notin 1..n
      BY <1>7, <3>1 DEF Ends
    <3>3. k - n \in 1..Len(e) /\ n + (k - n) = k
      BY <1>3, <1>4, <3>1, <3>2
    <3>4. k - n = Len(e)
      BY <1>8, <1>9, <3>1, <3>3
    <3>5. k = n + Len(e)
      BY <3>3, <3>4
    <3> QED BY <1>3, <3>5
  <2> QED BY <2>1, <2>2
<1>11. Cardinality(Positions(last)) = 1
  BY <1>10, FS_Singleton
<1>12. LastIs(last)
  BY <1>3, <1>4, <1>8, <1>9 DEF LastIs, Last
<1> QED BY <1>11, <1>12

-----------------------------------------------------------------------------
(* What one callback does.                                                  *)

LEMMA AllWritten == \A m \in Nat : \A n \in 0..m : ~(n < m) => n = m
OBVIOUS

(* A client that is still there has received everything that was written.   *)
LEMMA ReplyFacts ==
  ASSUME TypeOK, NEW ws, IsSequence(ws), NEW term \in BOOLEAN, NEW goOn \in BOOLEAN,
         Reply(ws, term, goOn)
  PROVE  /\ IsSequence(out') /\ writeFailed' \in BOOLEAN /\ gone' \in BOOLEAN
         /\ terminal' = term /\ (gone' <=> gone \/ writeFailed')
         /\ phase' = IF goOn /\ ~writeFailed' THEN "loop" ELSE "after"
         /\ ~gone' => ~gone /\ out' = out \o ws
<1>1. PICK n \in IF gone THEN {0} ELSE 0..Len(ws) :
        /\ out' = out \o SubSeq(ws, 1, n)
        /\ writeFailed' = (n < Len(ws))
        /\ gone' = (gone \/ writeFailed')
        /\ terminal' = term
        /\ phase' = IF goOn /\ ~writeFailed' THEN "loop" ELSE "after"
  BY DEF Reply
<1>2. Len(ws) \in Nat /\ n \in 0..Len(ws) /\ SubSeq(ws, 1, Len(ws)) = ws
  BY <1>1, SequenceFacts
<1>3. IsSequence(out')
  BY <1>1, <1>2, PrefixSequence, ConcatSequences DEF TypeOK
<1>4. ASSUME ~gone' PROVE ~gone /\ out' = out \o ws
  <2>0. ~gone /\ ~(n < Len(ws))
    BY <1>1, <1>4
  <2>1. n = Len(ws)
    BY <1>2, <2>0, AllWritten
  <2> QED BY <1>1, <1>2, <2>0, <2>1
<1>5. writeFailed' \in BOOLEAN /\ gone' \in BOOLEAN /\ (gone' <=> gone \/ writeFailed')
  BY <1>1 DEF TypeOK
<1> QED BY <1>1, <1>3, <1>4, <1>5

LEMMA WriteFacts ==
  ASSUME TypeOK, NEW ws, IsSequence(ws), Write(ws)
  PROVE  /\ IsSequence(out') /\ writeFailed' \in BOOLEAN /\ gone' \in BOOLEAN
         /\ terminal' = FALSE /\ (gone' <=> gone \/ writeFailed')
         /\ phase' = IF ~writeFailed' THEN "loop" ELSE "after"
         /\ ~gone' => ~gone /\ out' = out \o ws
<1>1. Reply(ws, FALSE, TRUE)
  BY DEF Write
<1> QED BY <1>1, ReplyFacts

LEMMA CloseFacts ==
  ASSUME TypeOK, NEW ws, IsSequence(ws), Close(ws)
  PROVE  /\ IsSequence(out') /\ gone' \in BOOLEAN /\ phase' = "closed"
         /\ UNCHANGED <<pipe, up, local, cut, terminal, writeFailed, counted>>
         /\ gone => gone'
         /\ ~gone' => ~gone /\ out' = out \o ws
<1>1. PICK n \in IF gone THEN {0} ELSE 0..Len(ws) :
        /\ out' = out \o SubSeq(ws, 1, n)
        /\ gone' = (gone \/ n < Len(ws))
        /\ phase' = "closed"
        /\ UNCHANGED <<pipe, up, local, cut, terminal, writeFailed, counted>>
  BY DEF Close
<1>2. Len(ws) \in Nat /\ n \in 0..Len(ws) /\ SubSeq(ws, 1, Len(ws)) = ws
  BY <1>1, SequenceFacts
<1>3. IsSequence(out')
  BY <1>1, <1>2, PrefixSequence, ConcatSequences DEF TypeOK
<1>4. ASSUME ~gone' PROVE ~gone /\ out' = out \o ws
  <2>0. ~gone /\ ~(n < Len(ws))
    BY <1>1, <1>4
  <2>1. ~gone /\ n = Len(ws)
    BY <1>2, <2>0, AllWritten
  <2> QED BY <1>1, <1>2, <2>1
<1>5. gone' \in BOOLEAN /\ (gone => gone')
  BY <1>1 DEF TypeOK
<1> QED BY <1>1, <1>3, <1>4, <1>5

(* The accumulator still knows of no more failures than before. *)
Steady == /\ DOMAIN acc' = AccFields
          /\ acc'.failed = acc.failed /\ acc'.status = acc.status

(* A callback that writes some of the stream, and no end of it. *)
LEMMA GoesOn ==
  ASSUME Core, pipe \notin NativeGemini, phase \in {"open", "loop"},
         UNCHANGED <<pipe, cut, counted>>,
         "fate" \in DOMAIN up', up'.fate = up.fate, Steady,
         NEW ws, Saying(ws), Write(ws)
  PROVE  Core'
<1> USE DEF Core
<1>1. /\ IsSequence(out') /\ writeFailed' \in BOOLEAN /\ gone' \in BOOLEAN
      /\ terminal' = FALSE /\ (gone' <=> gone \/ writeFailed')
      /\ phase' = IF ~writeFailed' THEN "loop" ELSE "after"
      /\ ~gone' => ~gone /\ out' = out \o ws
  BY WriteFacts DEF Saying
<1>2. TypeOK'
  <2>1. phase' \in {"loop", "after"} /\ terminal' \in BOOLEAN
    BY <1>1
  <2>2. "fate" \in DOMAIN up' /\ up'.fate \in Fates
    BY DEF TypeOK
  <2>3. DOMAIN acc' = AccFields /\ acc'.failed \in BOOLEAN /\ acc'.status \in {200, 502}
    BY DEF TypeOK, Steady
  <2> QED BY <1>1, <2>1, <2>2, <2>3 DEF TypeOK
<1>3. Present'
  BY <1>1 DEF Present
<1>4. Undecided'
  <2>1. up.fate = "open" /\ ~Bad /\ Quiet(out)
    BY DEF Undecided, Present
  <2>2. up'.fate = "open" /\ ~Bad'
    BY <2>1 DEF Bad, Steady
  <2>3. ~gone' => Quiet(out')
    <3>1. Quiet(out \o ws)
      BY <2>1, QuietConcat DEF TypeOK, Saying
    <3> QED BY <1>1, <3>1
  <2> QED BY <2>2, <2>3 DEF Undecided
<1>5. Decided'
  BY <1>1 DEF Decided
<1>6. GeminiNoted' /\ Counted'
  BY <1>1 DEF GeminiNoted, Counted
<1> QED BY <1>2, <1>3, <1>4, <1>5, <1>6

(* A callback that writes the end of the stream and decides its fate. *)
LEMMA Finishes ==
  ASSUME Core, pipe \notin NativeGemini, phase \in {"open", "loop"},
         UNCHANGED <<pipe, cut, counted>>,
         "fate" \in DOMAIN up', up'.fate \in Fates \ {"open"},
         pipe = "geminiToOpenAI" => up'.fate # "complete",
         DOMAIN acc' = AccFields, acc'.failed \in BOOLEAN, acc'.status \in {200, 502},
         NEW ws, Saying(ws), NEW e \in Endings, Reply(ws \o e, TRUE, FALSE),
         TellsError(e) <=> up'.fate # "complete",
         Bad' => up'.fate # "complete",
         up'.fate \notin {"complete", "named"} => Bad'
  PROVE  Core'
<1> USE DEF Core
<1>1. IsSequence(ws) /\ IsSequence(e) /\ IsSequence(ws \o e)
  BY EndingFacts, ConcatSequences DEF Saying
<1>2. /\ IsSequence(out') /\ writeFailed' \in BOOLEAN /\ gone' \in BOOLEAN
      /\ terminal' = TRUE /\ (gone' <=> gone \/ writeFailed')
      /\ phase' = IF FALSE /\ ~writeFailed' THEN "loop" ELSE "after"
      /\ ~gone' => ~gone /\ out' = out \o (ws \o e)
  <2> DEFINE w == ws \o e
  <2>1. IsSequence(w) /\ Reply(w, TRUE, FALSE)
    BY <1>1
  <2> HIDE DEF w
  <2>2. /\ IsSequence(out') /\ writeFailed' \in BOOLEAN /\ gone' \in BOOLEAN
        /\ terminal' = TRUE /\ (gone' <=> gone \/ writeFailed')
        /\ phase' = IF FALSE /\ ~writeFailed' THEN "loop" ELSE "after"
        /\ ~gone' => ~gone /\ out' = out \o w
    BY <2>1, ReplyFacts
  <2> QED BY <2>2 DEF w
<1>3. TypeOK'
  BY <1>2 DEF TypeOK
<1>4. Present'
  BY <1>2 DEF Present
<1>5. Undecided'
  BY <1>2 DEF Undecided
<1>6. UpstreamComplete' <=> up'.fate = "complete"
  BY DEF UpstreamComplete
<1>7. ASSUME ~gone' PROVE EndedOnce(out)' /\ (TellsError(out)' <=> TellsError(e))
  <2>1. Saying(out) /\ Saying(ws) /\ out' = out \o (ws \o e)
    BY <1>2, <1>7 DEF Undecided, Present, TypeOK, Saying
  <2>2. out' = (out \o ws) \o e
    <3> DEFINE S == (Range(out) \cup Range(ws)) \cup Range(e)
    <3>1. out \in Seq(S) /\ ws \in Seq(S) /\ e \in Seq(S)
      BY <1>1, <2>1, SeqMonotonic DEF IsSequence, Saying
    <3> HIDE DEF S
    <3> QED BY <2>1, <3>1, ConcatAssociative
  <2>3. Saying(out \o ws)
    BY <2>1, SayingMore
  <2>4. Endings' = Endings
    BY DEF Endings
  <2>5. EndedOnce(out') /\ (TellsError(out') <=> TellsError(e))
    BY <2>2, <2>3, EndsOnce
  <2> QED BY <2>4, <2>5 DEF EndedOnce, TellsError
<1>8. Decided'
  BY <1>2, <1>6, <1>7 DEF Decided
<1>9. GeminiNoted' /\ Counted'
  BY <1>2 DEF GeminiNoted, Counted
<1> QED BY <1>3, <1>4, <1>5, <1>8, <1>9

LEMMA ErrorChunksEnd == ErrorChunks \in Endings /\ TellsError(ErrorChunks)
<1>1. Plain("error").type = "error"
  BY DEF Plain, Chunk
<1>2. ASSUME NEW a, NEW b
      PROVE  /\ 1 \in DOMAIN <<a>> /\ <<a>>[1] = a
             /\ 1 \in DOMAIN <<a, b>> /\ <<a, b>>[1] = a
  OBVIOUS
<1>3. TellsError(<<Plain("error")>>)
  BY <1>1, <1>2 DEF TellsError
<1>4. TellsError(<<Plain("error"), Plain("done")>>)
  BY <1>1, <1>2 DEF TellsError
<1> QED BY <1>3, <1>4 DEF ErrorChunks, Endings

(* The ends of a success tell of no error. *)
LEMMA GoodEnds ==
  /\ ~TellsError(<<Plain("done")>>) /\ ~TellsError(<<Plain("stop")>>)
  /\ pipe \in OpenAIPipes => <<Plain("done")>> \in Endings
  /\ pipe \notin OpenAIPipes => <<Plain("stop")>> \in Endings
<1>1. Plain("done").type = "done" /\ Plain("stop").type = "stop"
  BY DEF Plain, Chunk
<1>2. ASSUME NEW a PROVE \A k \in DOMAIN <<a>> : <<a>>[k] = a
  OBVIOUS
<1>3. ~TellsError(<<Plain("done")>>)
  BY <1>1, <1>2 DEF TellsError
<1>4. ~TellsError(<<Plain("stop")>>)
  BY <1>1, <1>2 DEF TellsError
<1> QED BY <1>3, <1>4 DEF Endings

(* A pipe that has decided, or cannot write, returns without a word. *)
LEMMA ClosesSilently ==
  ASSUME Core, pipe \notin NativeGemini, phase = "after",
         terminal \/ writeFailed, Close(<<>>), acc' = acc
  PROVE  Core'
<1> USE DEF Core
<1>1. /\ IsSequence(out') /\ gone' \in BOOLEAN /\ phase' = "closed"
      /\ UNCHANGED <<pipe, up, local, cut, terminal, writeFailed, counted>>
      /\ gone => gone'
      /\ ~gone' => ~gone /\ out' = out \o <<>>
  BY CloseFacts, SayingNothing DEF Saying
<1>2. ~gone' => ~gone /\ out' = out
  <2>1. out \o <<>> = out
    BY ConcatEmptySeq DEF TypeOK, IsSequence
  <2> QED BY <1>1, <2>1
<1>3. TypeOK'
  BY <1>1 DEF TypeOK
<1>4. Present' /\ Undecided' /\ GeminiNoted' /\ Counted'
  BY <1>1 DEF Present, Undecided, GeminiNoted, Counted
<1>5. UpstreamComplete' <=> UpstreamComplete
  BY <1>1 DEF UpstreamComplete
<1>6. Bad' <=> Bad
  BY DEF Bad
<1>7. CASE terminal
  <2>1. Decided /\ phase = "after" /\ terminal
    BY <1>7
  <2>2. ~gone' => EndedOnce(out)' /\ TellsError(out)' = TellsError(out)
    BY <1>1, <1>2, <2>1 DEF Decided, EndedOnce, Endings, TellsError
  <2>3. Decided'
    BY <1>1, <1>2, <1>5, <1>6, <2>1, <2>2 DEF Decided
  <2> QED BY <1>3, <1>4, <2>3
<1>8. CASE ~terminal
  <2>1. writeFailed /\ gone /\ gone' /\ ~Bad
    BY <1>1, <1>8 DEF Present, Undecided
  <2>2. Decided'
    BY <1>6, <2>1 DEF Decided
  <2> QED BY <1>3, <1>4, <2>2
<1> QED BY <1>7, <1>8

(* A pipe that reached the end of the upstream's stream undecided tells the *)
(* client what it makes of that.                                            *)
LEMMA ClosesWith ==
  ASSUME Core, pipe \notin NativeGemini, phase = "after", ~terminal, ~writeFailed,
         NEW ws, Saying(ws), NEW e \in Endings, Close(ws \o e),
         TellsError(e) <=> ~UpstreamComplete,
         DOMAIN acc' = AccFields, acc'.failed \in BOOLEAN, acc'.status \in {200, 502},
         Bad' <=> ~UpstreamComplete
  PROVE  Core'
<1> USE DEF Core
<1>1. IsSequence(ws \o e) /\ IsSequence(ws) /\ IsSequence(e)
  BY EndingFacts, ConcatSequences DEF Saying
<1>2. /\ IsSequence(out') /\ gone' \in BOOLEAN /\ phase' = "closed"
      /\ UNCHANGED <<pipe, up, local, cut, terminal, writeFailed, counted>>
      /\ gone => gone'
      /\ ~gone' => ~gone /\ out' = out \o (ws \o e)
  BY <1>1, CloseFacts
<1>3. TypeOK'
  BY <1>2 DEF TypeOK
<1>4. Present' /\ Undecided' /\ GeminiNoted' /\ Counted'
  BY <1>2 DEF Present, Undecided, GeminiNoted, Counted
<1>5. UpstreamComplete' <=> UpstreamComplete
  BY <1>2 DEF UpstreamComplete
<1>6. ASSUME ~gone' PROVE EndedOnce(out)' /\ (TellsError(out)' <=> TellsError(e))
  <2>1. Saying(out) /\ Saying(ws) /\ out' = out \o (ws \o e)
    BY <1>2, <1>6 DEF Undecided, Present, TypeOK, Saying
  <2>2. out' = (out \o ws) \o e
    <3> DEFINE S == (Range(out) \cup Range(ws)) \cup Range(e)
    <3>1. out \in Seq(S) /\ ws \in Seq(S) /\ e \in Seq(S)
      BY <1>1, <2>1, SeqMonotonic DEF IsSequence, Saying
    <3> HIDE DEF S
    <3> QED BY <2>1, <3>1, ConcatAssociative
  <2>3. Saying(out \o ws)
    BY <2>1, SayingMore
  <2>4. Endings' = Endings
    BY <1>2 DEF Endings
  <2>5. EndedOnce(out') /\ (TellsError(out') <=> TellsError(e))
    BY <2>2, <2>3, EndsOnce
  <2> QED BY <2>4, <2>5 DEF EndedOnce, TellsError
<1>7. Decided'
  BY <1>2, <1>5, <1>6 DEF Decided
<1> QED BY <1>3, <1>4, <1>7

LEMMA NoteFacts ==
  ASSUME TypeOK
  PROVE  /\ DOMAIN NoteStreamError(acc) = AccFields
         /\ NoteStreamError(acc).failed = TRUE /\ NoteStreamError(acc).status = acc.status
         /\ DOMAIN MarkObserved(acc) = AccFields
         /\ MarkObserved(acc).failed = acc.failed /\ MarkObserved(acc).status = acc.status
BY DEF TypeOK, AccFields, NoteStreamError, MarkObserved

(* EndUnlessTerminal, for the pipes that wait for a terminal event. *)
LEMMA EndUnlessTerminalOK ==
  ASSUME Core, pipe \notin NativeGemini \cup {"geminiToOpenAI"}, EndUnlessTerminal
  PROVE  Core'
<1> USE DEF Core
<1>1. phase = "after"
  BY DEF EndUnlessTerminal
<1>2. CASE terminal \/ writeFailed
  BY <1>1, <1>2, ClosesSilently DEF EndUnlessTerminal
<1>3. CASE ~(terminal \/ writeFailed)
  <2>1. Close(ErrorChunks) /\ acc' = NoteStreamError(acc)
    BY <1>3 DEF EndUnlessTerminal
  <2>2. Close(<<>> \o ErrorChunks)
    <3>1. <<>> \o ErrorChunks = ErrorChunks
      BY ErrorChunksEnd, EndingFacts, ConcatEmptySeq DEF IsSequence
    <3> QED BY <2>1, <3>1
  <2>3. ~UpstreamComplete
    BY <1>1, <1>3 DEF UpstreamComplete, Undecided
  <2>4. /\ DOMAIN acc' = AccFields /\ acc'.failed = TRUE /\ acc'.status \in {200, 502}
    BY <2>1, NoteFacts DEF TypeOK
  <2>5. Bad'
    BY <2>4 DEF Bad
  <2> QED BY <1>1, <1>3, <2>2, <2>3, <2>4, <2>5, ErrorChunksEnd, SayingNothing, ClosesWith
<1> QED BY <1>2, <1>3

-----------------------------------------------------------------------------
(* The observers of usage note no failure.                                  *)

AccLike(a) == DOMAIN a = AccFields /\ a.failed = acc.failed /\ a.status = acc.status

LEMMA ObserversSteady ==
  ASSUME TypeOK, NEW u, NEW o
  PROVE  /\ AccLike(acc) /\ AccLike(MarkObserved(acc)) /\ AccLike(ApplyAnthropic(acc, u, o))
         /\ AccLike(ApplyOpenAI(acc, u)) /\ AccLike(ApplyGemini(acc, u))
<1>1. AccLike(acc)
  BY DEF TypeOK, AccLike
<1>2. AccLike(MarkObserved(acc))
  BY NoteFacts DEF AccLike
<1>3. AccLike(ApplyAnthropic(acc, u, o))
  BY <1>1, <1>2 DEF AccLike, AccFields, ApplyAnthropic
<1>4. AccLike(ApplyOpenAI(acc, u))
  BY <1>1, <1>2 DEF AccLike, AccFields, ApplyOpenAI
<1>5. AccLike(ApplyGemini(acc, u))
  BY <1>1, <1>2 DEF AccLike, AccFields, ApplyGemini
<1> QED BY <1>1, <1>2, <1>3, <1>4, <1>5

LEMMA LikeIsSteady ==
  ASSUME AccLike(acc')
  PROVE  Steady
BY DEF AccLike, Steady

-----------------------------------------------------------------------------
(* The end of a Gemini stream, which the pipe has to judge itself.          *)

(* The candidates the pipe knows of are those the upstream announced, so    *)
(* that counting them tells whether all have finished.                      *)
LEMMA AllFinishedIff ==
  ASSUME pipe = "geminiToOpenAI", CandidatesKnown
  PROVE  AllFinished <=> up.begun # {} /\ up.begun = up.over
<1>1. IsFiniteSet(up.begun) /\ IsFiniteSet(up.over)
  BY CandidateAssumption, FS_Subset DEF CandidatesKnown
<1>2. Cardinality(up.over) = Cardinality(up.begun) <=> up.over = up.begun
  BY <1>1, FS_Subset DEF CandidatesKnown
<1> QED BY <1>2 DEF AllFinished, CandidatesKnown

LEMMA EndGeminiOK ==
  ASSUME Core, CandidatesKnown, EndGemini
  PROVE  Core'
<1> USE DEF Core
<1>1. pipe = "geminiToOpenAI" /\ phase = "after" /\ pipe \notin NativeGemini /\ pipe \in OpenAIPipes
  BY DEF EndGemini, NativeGemini, OpenAIPipes
<1>2. CASE terminal \/ writeFailed
  <2>1. Close(<<>>) /\ acc' = acc
    BY <1>2 DEF EndGemini
  <2> QED BY <1>1, <1>2, <2>1, ClosesSilently
<1>3. CASE ~terminal /\ ~writeFailed
  <2>1. IF ~Unreadable /\ AllFinished
        THEN Close(ToldGemini \o <<Plain("done")>>) /\ acc' = acc
        ELSE Close(ErrorChunks) /\ acc' = NoteStreamError(acc)
    BY <1>3 DEF EndGemini
  <2>2. up.fate = "open" /\ ~Bad /\ cut # "none" /\ up.array \in BOOLEAN
        /\ (cut = "closed" => up.array) /\ cut \in {"none", "eof", "error", "closed"}
    BY <1>1, <1>3 DEF Undecided, CandidatesKnown, TypeOK
  <2>3. UpstreamComplete <=> ~Unreadable /\ AllFinished
    BY <1>1, <2>2, AllFinishedIff DEF UpstreamComplete, Unreadable
  <2>4. CASE ~Unreadable /\ AllFinished
    <3>1. Close(ToldGemini \o <<Plain("done")>>) /\ acc' = acc
      BY <2>1, <2>4
    <3>2. Saying(ToldGemini)
      BY SayingNothing, SayingOne DEF ToldGemini, Ends
    <3>3. ~Bad' /\ DOMAIN acc' = AccFields /\ acc'.failed \in BOOLEAN /\ acc'.status \in {200, 502}
      BY <2>2, <3>1 DEF Bad, TypeOK
    <3>4. <<Plain("done")>> \in Endings /\ ~TellsError(<<Plain("done")>>)
      BY <1>1, GoodEnds
    <3> QED BY <1>1, <1>3, <2>3, <2>4, <3>1, <3>2, <3>3, <3>4, ClosesWith
  <2>5. CASE ~(~Unreadable /\ AllFinished)
    <3>1. Close(ErrorChunks) /\ acc' = NoteStreamError(acc)
      BY <2>1, <2>5
    <3>2. Close(<<>> \o ErrorChunks)
      <4>1. <<>> \o ErrorChunks = ErrorChunks
        BY ErrorChunksEnd, EndingFacts, ConcatEmptySeq DEF IsSequence
      <4> QED BY <3>1, <4>1
    <3>3. /\ DOMAIN acc' = AccFields /\ acc'.failed = TRUE /\ acc'.status \in {200, 502}
      BY <3>1, NoteFacts DEF TypeOK
    <3>4. Bad'
      BY <3>3 DEF Bad
    <3> QED BY <1>1, <1>3, <2>3, <2>5, <3>2, <3>3, <3>4, ErrorChunksEnd, SayingNothing, ClosesWith
  <2> QED BY <2>4, <2>5
<1> QED BY <1>2, <1>3

-----------------------------------------------------------------------------
(* The steps that all pipes share.                                          *)

LEMMA ScannerEndsOK ==
  ASSUME Core, ScannerEnds
  PROVE  Core'
<1> USE DEF Core
<1>1. /\ phase = "loop" /\ cut' \in {"eof", "error"} /\ phase' = "after"
      /\ UNCHANGED <<pipe, up, local, acc, counted, terminal, writeFailed, gone, out>>
  BY DEF ScannerEnds
<1>2. TypeOK'
  BY <1>1 DEF TypeOK
<1>3. Present'
  BY <1>1 DEF Present
<1>4. Undecided'
  BY <1>1 DEF Undecided, Bad
<1>5. Decided' /\ GeminiNoted' /\ Counted'
  BY <1>1 DEF Decided, GeminiNoted, Counted, Bad, Present
<1> QED BY <1>2, <1>3, <1>4, <1>5

(* The status 502 that some failures set, and a failure inside the stream,  *)
(* make a failure of the request: nothing else does.                        *)
LEMMA CountedIffBad ==
  ASSUME TypeOK
  PROVE  CountedAs(acc, 200) = "failure" <=> Bad
<1>1. CASE acc.status = 502
  <2>1. Report(acc, 200) = 502
    BY <1>1 DEF Report
  <2> QED BY <1>1, <2>1 DEF CountedAs, Bad
<1>2. CASE acc.status = 200 /\ acc.failed
  <2>1. Report(acc, 200) = 502
    BY <1>2 DEF Report
  <2> QED BY <1>2, <2>1 DEF CountedAs, Bad
<1>3. CASE acc.status = 200 /\ ~acc.failed
  <2>1. Report(acc, 200) = 200
    BY <1>3 DEF Report
  <2>2. CountedAs(acc, 200) # "failure"
    BY <2>1 DEF CountedAs
  <2> QED BY <1>3, <2>2 DEF Bad
<1> QED BY <1>1, <1>2, <1>3 DEF TypeOK

LEMMA CommitOK ==
  ASSUME Core, Commit
  PROVE  Core'
<1> USE DEF Core
<1>1. /\ phase = "closed" /\ counted' = CountedAs(acc, 200) /\ phase' = "counted"
      /\ UNCHANGED <<pipe, up, local, cut, acc, terminal, writeFailed, gone, out>>
  BY DEF Commit
<1>2. TypeOK'
  BY <1>1 DEF TypeOK
<1>3. Present' /\ Undecided'
  BY <1>1 DEF Present, Undecided
<1>4. Decided'
  BY <1>1 DEF Decided, UpstreamComplete, Bad, EndedOnce, Endings, TellsError
<1>5. GeminiNoted' /\ Counted'
  BY <1>1, CountedIffBad DEF GeminiNoted, Counted, Bad
<1> QED BY <1>2, <1>3, <1>4, <1>5

-----------------------------------------------------------------------------
(* Callbacks that fail: the client is told, and the failure is counted.     *)

LEMMA FailsOK ==
  ASSUME Core, pipe \notin NativeGemini, phase \in {"open", "loop"},
         UNCHANGED <<pipe, cut, counted>>,
         NEW fate \in {"failed", "named", "garbled"}, Sends(fate),
         NEW a, AccLike(a) \/ AccLike([a EXCEPT !.failed = acc.failed]), DOMAIN a = AccFields,
         NEW ws, Saying(ws), FailAfter(ws, a)
  PROVE  Core'
<1> USE DEF Core
<1>1. "fate" \in DOMAIN up' /\ up'.fate = fate
  BY DEF Sends, TypeOK
<1>2. DOMAIN acc' = AccFields /\ acc'.failed = TRUE /\ acc'.status \in {200, 502}
  BY DEF FailAfter, NoteStreamError, AccFields, AccLike, TypeOK
<1>3. Bad'
  BY <1>2 DEF Bad
<1>4. Reply(ws \o ErrorChunks, TRUE, FALSE)
  BY DEF FailAfter
<1> QED BY <1>1, <1>2, <1>3, <1>4, ErrorChunksEnd, Finishes DEF Fates

(* A callback that has seen the upstream finish its answer.                 *)
LEMMA SucceedsOK ==
  ASSUME Core, pipe \notin NativeGemini \cup {"geminiToOpenAI"}, phase \in {"open", "loop"},
         UNCHANGED <<pipe, cut, counted>>,
         Sends("complete"), AccLike(acc'),
         NEW ws, Saying(ws),
         NEW e \in {<<Plain("done")>>, <<Plain("stop")>>}, e \in Endings,
         Reply(ws \o e, TRUE, FALSE)
  PROVE  Core'
<1>1. "fate" \in DOMAIN up' /\ up'.fate = "complete" /\ up'.fate \in Fates \ {"open"}
  BY DEF Core, TypeOK, Sends, Fates
<1>2. ~Bad' /\ DOMAIN acc' = AccFields /\ acc'.failed \in BOOLEAN /\ acc'.status \in {200, 502}
  BY DEF Core, AccLike, TypeOK, Bad, Undecided
<1>3. ~TellsError(e)
  BY GoodEnds
<1>4. /\ TellsError(e) <=> up'.fate # "complete"
      /\ Bad' => up'.fate # "complete"
      /\ up'.fate \notin {"complete", "named"} => Bad'
  BY <1>1, <1>2, <1>3
<1> QED BY <1>1, <1>2, <1>4, Finishes

(* A callback that fails with what it has observed so far.                  *)
LEMMA FailsNow ==
  ASSUME Core, pipe \notin NativeGemini, phase \in {"open", "loop"},
         UNCHANGED <<pipe, cut, counted>>,
         NEW fate \in {"failed", "garbled"}, Sends(fate), Fail(acc) \/ Fail(MarkObserved(acc))
  PROVE  Core'
<1>1. /\ AccLike(acc) /\ DOMAIN acc = AccFields
      /\ AccLike(MarkObserved(acc)) /\ DOMAIN MarkObserved(acc) = AccFields
  BY ObserversSteady DEF AccLike, Core
<1>2. FailAfter(<<>>, acc) \/ FailAfter(<<>>, MarkObserved(acc))
  BY DEF Fail
<1> QED BY <1>1, <1>2, SayingNothing, FailsOK

-----------------------------------------------------------------------------
(* PipeAnthropicToOpenAI.                                                   *)

LEMMA AnthropicToOpenAIOK ==
  ASSUME Core, StepAnthropicToOpenAI
  PROVE  Core' /\ pipe' = "anthropicToOpenAI"
<1>0. USE DEF Core
<1>1. pipe = "anthropicToOpenAI" /\ pipe' = pipe /\ pipe \notin NativeGemini /\ pipe \in OpenAIPipes
  BY DEF StepAnthropicToOpenAI, MessageStart, TextStart, TextDelta, ToolStart, ToolDelta, BlockStop,
         MessageDelta, MessageStop, AnthropicError, AnthropicGarbage, Event, Read,
         EndUnlessTerminal, Close, NativeGemini, OpenAIPipes
<1>2. ASSUME NEW stage, Event(stage)
      PROVE  phase = "loop" /\ UNCHANGED <<pipe, cut, counted>>
  BY <1>2 DEF Event, Read
<1>3. "fate" \in DOMAIN up
  BY DEF TypeOK
<1>4. ASSUME NEW stage, Moves(stage) PROVE "fate" \in DOMAIN up' /\ up'.fate = up.fate
  BY <1>3, <1>4 DEF Moves
<1>5. CASE MessageStart
  <2>1. PICK u : acc' = ApplyAnthropic(acc, u, TRUE)
    BY <1>5 DEF MessageStart
  <2>2. Saying(<<Plain("role")>>)
    BY SayingOne DEF Plain, Ends
  <2>3. Steady
    BY <2>1, ObserversSteady, LikeIsSteady
  <2>4. "fate" \in DOMAIN up' /\ up'.fate = up.fate
    BY <1>3, <1>5 DEF MessageStart
  <2> QED BY <1>1, <1>2, <1>5, <2>2, <2>3, <2>4, GoesOn DEF MessageStart
<1>6. CASE TextStart
  <2>1. Steady
    BY <1>6, ObserversSteady, LikeIsSteady DEF TextStart
  <2> QED BY <1>1, <1>2, <1>4, <1>6, <2>1, SayingNothing, GoesOn DEF TextStart
<1>7. CASE TextDelta
  <2>1. Steady
    BY <1>7, ObserversSteady, LikeIsSteady DEF TextDelta
  <2>2. Saying(<<Plain("content")>>)
    BY SayingOne DEF Plain, Ends
  <2> QED BY <1>1, <1>2, <1>3, <1>7, <2>1, <2>2, GoesOn DEF TextDelta
<1>8. CASE ToolStart
  <2>1. Steady
    BY <1>8, ObserversSteady, LikeIsSteady DEF ToolStart
  <2>2. Saying(<<ToolChunk("tool", local.toolCount, 0)>>)
    BY SayingOne DEF ToolChunk, Ends
  <2>3. "fate" \in DOMAIN up' /\ up'.fate = up.fate
    BY <1>3, <1>8 DEF ToolStart
  <2> QED BY <1>1, <1>2, <1>8, <2>1, <2>2, <2>3, GoesOn DEF ToolStart
<1>9. CASE ToolDelta
  <2>1. Steady
    BY <1>9, ObserversSteady, LikeIsSteady DEF ToolDelta
  <2>2. Saying(<<ToolChunk("args", local.currentTool, "part")>>)
    BY SayingOne DEF ToolChunk, Ends
  <2>3. "fate" \in DOMAIN up' /\ up'.fate = up.fate
    BY <1>3, <1>9 DEF ToolDelta
  <2> QED BY <1>1, <1>2, <1>9, <2>1, <2>2, <2>3, GoesOn DEF ToolDelta
<1>10. CASE BlockStop
  <2> DEFINE ws == IF local.currentTool # NoTool /\ ~local.argsSeen
                   THEN <<ToolChunk("args", local.currentTool, "empty")>> ELSE <<>>
  <2>1. Steady
    BY <1>10, ObserversSteady, LikeIsSteady DEF BlockStop
  <2>2. Saying(ws)
    BY SayingOne, SayingNothing DEF ToolChunk, Ends
  <2>3. Write(ws) /\ Moves("idle") /\ (Event("text") \/ Event("tool"))
    BY <1>10 DEF BlockStop
  <2> HIDE DEF ws
  <2> QED BY <1>1, <1>2, <1>4, <2>1, <2>2, <2>3, GoesOn
<1>11. CASE MessageDelta
  <2>1. PICK u : acc' = ApplyAnthropic(acc, u, FALSE)
    BY <1>11 DEF MessageDelta
  <2>2. Steady
    BY <2>1, ObserversSteady, LikeIsSteady
  <2> QED BY <1>1, <1>2, <1>4, <1>11, <2>2, SayingNothing, GoesOn DEF MessageDelta
<1>12. CASE MessageStop
  <2> DEFINE ws == <<Chunk("finish", 0, 0, openAIFinishReason)>> \o UsageChunk(local.input, local.output)
  <2>1. Saying(<<Chunk("finish", 0, 0, openAIFinishReason)>>)
    BY SayingOne DEF Ends
  <2>2. Saying(UsageChunk(local.input, local.output))
    BY SayingOne, SayingNothing DEF UsageChunk, Ends
  <2>3. Saying(ws)
    BY <2>1, <2>2, SayingMore
  <2>4. Reply(ws \o <<Plain("done")>>, TRUE, FALSE) /\ Sends("complete")
    BY <1>12 DEF MessageStop
  <2>5. phase = "loop" /\ UNCHANGED <<pipe, cut, counted>>
    BY <1>2, <1>12 DEF MessageStop
  <2>6. AccLike(acc')
    BY <1>12, ObserversSteady DEF MessageStop
  <2> DEFINE e == <<Plain("done")>>
  <2>7. e \in {<<Plain("done")>>, <<Plain("stop")>>} /\ e \in Endings /\ Reply(ws \o e, TRUE, FALSE)
    BY <1>1, <2>4, GoodEnds
  <2>8. pipe \notin NativeGemini \cup {"geminiToOpenAI"}
    BY <1>1
  <2> HIDE DEF ws, e, Core
  <2> QED BY <1>1, <2>3, <2>4, <2>5, <2>6, <2>7, <2>8, SucceedsOK
<1>13. CASE AnthropicError
  <2>1. phase = "loop" /\ UNCHANGED <<cut, counted>>
    BY <1>13 DEF AnthropicError, Read
  <2>2. CASE Sends("failed") /\ Fail(NoteStreamError(acc))
    <3> DEFINE a == NoteStreamError(acc)
    <3>1. DOMAIN a = AccFields /\ AccLike([a EXCEPT !.failed = acc.failed])
      BY NoteFacts DEF AccLike, AccFields
    <3>2. FailAfter(<<>>, a)
      BY <2>2 DEF Fail
    <3> HIDE DEF a
    <3> QED BY <1>1, <2>1, <2>2, <3>1, <3>2, SayingNothing, FailsOK
  <2>3. CASE Sends("named") /\ Fail(MarkObserved(acc))
    <3>1. AccLike(MarkObserved(acc)) /\ DOMAIN MarkObserved(acc) = AccFields
      BY ObserversSteady DEF AccLike
    <3>2. FailAfter(<<>>, MarkObserved(acc))
      BY <2>3 DEF Fail
    <3> QED BY <1>1, <2>1, <2>3, <3>1, <3>2, SayingNothing, FailsOK
  <2> QED BY <1>13, <2>2, <2>3 DEF AnthropicError
<1>14. CASE AnthropicGarbage
  <2>1. phase = "loop" /\ UNCHANGED <<cut, counted>> /\ Sends("garbled") /\ FailAfter(<<>>, acc)
    BY <1>14 DEF AnthropicGarbage, Read, Fail
  <2>2. AccLike(acc) /\ DOMAIN acc = AccFields
    BY ObserversSteady DEF AccLike
  <2> QED BY <1>1, <2>1, <2>2, SayingNothing, FailsOK
<1>15. CASE EndUnlessTerminal
  BY <1>1, <1>15, EndUnlessTerminalOK
<1> QED BY <1>1, <1>5, <1>6, <1>7, <1>8, <1>9, <1>10, <1>11, <1>12, <1>13, <1>14, <1>15
        DEF StepAnthropicToOpenAI

-----------------------------------------------------------------------------
(* PipeResponsesToOpenAI.                                                   *)

LEMMA ResponsesToOpenAIOK ==
  ASSUME Core, StepResponsesToOpenAI
  PROVE  Core' /\ pipe' = "responsesToOpenAI"
<1>0. USE DEF Core
<1>1. pipe = "responsesToOpenAI" /\ pipe' = pipe /\ pipe \notin NativeGemini /\ pipe \in OpenAIPipes
  BY DEF StepResponsesToOpenAI, OpenTurn, OutputDelta, ItemRepeated, ArgumentsUnknown, ItemAdded,
         ArgumentsDelta, ArgumentsTooLong, ItemDone, Completed, ResponseFailed, ResponsesGarbage,
         ResponsesEvent, Read, EndUnlessTerminal, Close, NativeGemini, OpenAIPipes
<1>2. ASSUME ResponsesEvent
      PROVE  phase = "loop" /\ UNCHANGED <<pipe, cut, counted>>
  BY <1>2 DEF ResponsesEvent, Read
<1>3. "fate" \in DOMAIN up
  BY DEF TypeOK
<1>4. ASSUME acc' = acc PROVE Steady
  BY <1>4, ObserversSteady, LikeIsSteady
<1>5. CASE OpenTurn
  <2>1. Saying(<<Plain("role")>>)
    BY SayingOne DEF Plain, Ends
  <2> QED BY <1>1, <1>3, <1>4, <1>5, <2>1, GoesOn DEF OpenTurn
<1>6. CASE OutputDelta
  <2>1. Saying(<<Plain("content")>>)
    BY SayingOne DEF Plain, Ends
  <2> QED BY <1>1, <1>2, <1>3, <1>4, <1>6, <2>1, GoesOn DEF OutputDelta
<1>7. CASE ItemRepeated
  BY <1>1, <1>2, <1>3, <1>4, <1>7, SayingNothing, GoesOn DEF ItemRepeated
<1>8. CASE ArgumentsUnknown
  BY <1>1, <1>2, <1>8, FailsNow DEF ArgumentsUnknown
<1>9. ASSUME NEW i \in Items, ItemAdded(i) PROVE Core'
  <2>1. Saying(<<Chunk("tool", 0, Cardinality(DOMAIN local.toolIndex), 0)>>)
    BY SayingOne DEF Ends
  <2>2. "fate" \in DOMAIN up' /\ up'.fate = up.fate
    BY <1>3, <1>9 DEF ItemAdded
  <2> QED BY <1>1, <1>2, <1>4, <1>9, <2>1, <2>2, GoesOn DEF ItemAdded
<1>10. ASSUME NEW i \in Items, ArgumentsDelta(i) PROVE Core'
  <2>1. Saying(<<Chunk("args", 0, local.toolIndex[i], "part")>>)
    BY SayingOne DEF Ends
  <2>2. "fate" \in DOMAIN up' /\ up'.fate = up.fate
    BY <1>3, <1>10 DEF ArgumentsDelta
  <2> QED BY <1>1, <1>2, <1>4, <1>10, <2>1, <2>2, GoesOn DEF ArgumentsDelta
<1>11. ASSUME NEW i \in Items, ArgumentsTooLong(i) PROVE Core'
  <2>1. Saying(<<Chunk("args", 0, local.toolIndex[i], "part")>>)
    BY SayingOne DEF Ends
  <2>2. AccLike(acc) /\ DOMAIN acc = AccFields
    BY ObserversSteady DEF AccLike
  <2> QED BY <1>1, <1>2, <1>11, <2>1, <2>2, FailsOK DEF ArgumentsTooLong
<1>12. ASSUME NEW i \in Items, ItemDone(i) PROVE Core'
  <2>1. ResponsesEvent
    BY <1>12 DEF ItemDone
  <2>2. PICK parts :
          IF i \in DOMAIN local.arguments /\ local.arguments[i] = parts
          THEN /\ up' = [up EXCEPT !.done = @ \cup {i}, !.calls[Place(i)].parts = parts]
               /\ Write(<<>>) /\ UNCHANGED acc
          ELSE Sends("garbled") /\ Fail(acc)
    BY <1>12 DEF ItemDone
  <2>3. CASE Sends("garbled") /\ Fail(acc)
    BY <1>1, <1>2, <2>1, <2>3, FailsNow
  <2>4. CASE /\ up' = [up EXCEPT !.done = @ \cup {i}, !.calls[Place(i)].parts = parts]
             /\ Write(<<>>) /\ UNCHANGED acc
    <3>1. "fate" \in DOMAIN up' /\ up'.fate = up.fate
      BY <1>3, <2>4
    <3> QED BY <1>1, <1>2, <1>4, <2>1, <2>4, <3>1, SayingNothing, GoesOn
  <2> QED BY <2>2, <2>3, <2>4
<1>13. CASE Completed
  <2>1. ResponsesEvent /\ Sends("complete")
    BY <1>13 DEF Completed
  <2>2. PICK ending, u :
          /\ Reply(<<Chunk("finish", 0, 0, responsesFinishReason(ending))>>
                     \o (IF includeUsage THEN <<Chunk("usage", 0, 0, u)>> ELSE <<>>)
                     \o <<Plain("done")>>, TRUE, FALSE)
          /\ acc' = IF gone' /\ Len(out') = Len(out) THEN acc ELSE ApplyOpenAI(acc, u)
    BY <1>13 DEF Completed
  <2> DEFINE ws == <<Chunk("finish", 0, 0, responsesFinishReason(ending))>>
                     \o (IF includeUsage THEN <<Chunk("usage", 0, 0, u)>> ELSE <<>>)
  <2>3. Saying(<<Chunk("finish", 0, 0, responsesFinishReason(ending))>>)
    BY SayingOne DEF Ends
  <2>4. Saying(IF includeUsage THEN <<Chunk("usage", 0, 0, u)>> ELSE <<>>)
    BY SayingOne, SayingNothing DEF Ends
  <2>5. Saying(ws)
    BY <2>3, <2>4, SayingMore
  <2>6. Reply(ws \o <<Plain("done")>>, TRUE, FALSE)
    BY <2>2
  <2>7. AccLike(acc')
    BY <2>2, ObserversSteady
  <2> DEFINE e == <<Plain("done")>>
  <2>8. e \in {<<Plain("done")>>, <<Plain("stop")>>} /\ e \in Endings /\ Reply(ws \o e, TRUE, FALSE)
    BY <1>1, <2>6, GoodEnds
  <2>9. phase = "loop" /\ UNCHANGED <<pipe, cut, counted>>
    BY <1>2, <2>1
  <2>10. pipe \notin NativeGemini \cup {"geminiToOpenAI"}
    BY <1>1
  <2> HIDE DEF ws, e, Core
  <2> QED BY <1>1, <2>1, <2>5, <2>7, <2>8, <2>9, <2>10, SucceedsOK
<1>14. CASE ResponseFailed
  BY <1>1, <1>2, <1>14, FailsNow DEF ResponseFailed
<1>15. CASE ResponsesGarbage
  BY <1>1, <1>2, <1>15, FailsNow DEF ResponsesGarbage
<1>16. CASE EndUnlessTerminal
  BY <1>1, <1>16, EndUnlessTerminalOK
<1> QED BY <1>1, <1>5, <1>6, <1>7, <1>8, <1>9, <1>10, <1>11, <1>12, <1>13, <1>14, <1>15, <1>16
        DEF StepResponsesToOpenAI

-----------------------------------------------------------------------------
(* PipeOrchestrationToOpenAI.                                               *)

LEMMA OrchestrationToOpenAIOK ==
  ASSUME Core, ChoicesKnown, StepOrchestrationToOpenAI
  PROVE  Core' /\ ChoicesKnown' /\ pipe' = "orchestrationToOpenAI"
<1>0. USE DEF Core
<1>1. pipe = "orchestrationToOpenAI" /\ pipe' = pipe /\ pipe \notin NativeGemini /\ pipe \in OpenAIPipes
  BY DEF StepOrchestrationToOpenAI, NoFinalResult, OrchestrationChunk, OrchestrationDone,
         OrchestrationError, OrchestrationGarbage, OrchestrationFrame, Read,
         EndUnlessTerminal, Close, NativeGemini, OpenAIPipes
<1>2. ASSUME OrchestrationFrame
      PROVE  phase = "loop" /\ UNCHANGED <<pipe, cut, counted>>
  BY <1>2 DEF OrchestrationFrame, Read
<1>3. "fate" \in DOMAIN up /\ {"open", "over"} \subseteq DOMAIN up /\ "finished" \in DOMAIN local
  BY <1>1 DEF TypeOK, ChoicesKnown
<1>4. ASSUME NEW fate, Sends(fate), local' = local PROVE ChoicesKnown'
  BY <1>1, <1>3, <1>4 DEF Sends, ChoicesKnown
<1>5. CASE NoFinalResult
  <2>1. Steady
    BY <1>5, ObserversSteady, LikeIsSteady DEF NoFinalResult
  <2>2. ChoicesKnown'
    BY <1>1, <1>5 DEF NoFinalResult, ChoicesKnown
  <2> QED BY <1>1, <1>2, <1>3, <1>5, <2>1, <2>2, SayingNothing, GoesOn DEF NoFinalResult
<1>6. CASE OrchestrationChunk
  <2>1. PICK choices \in SUBSET ChoiceIndexes, over \in SUBSET ChoiceIndexes,
             u \in Running(BlocksOf({"input", "output"}, MaxCount)) :
          /\ over \subseteq choices
          /\ up' = [up EXCEPT !.open = @ \cup choices, !.over = @ \cup over, !.usage = Latest(u)]
          /\ local' = [local EXCEPT !.finished = Finished(choices, over)]
          /\ acc' = ApplyOpenAI(acc, u)
          /\ Write((IF choices # {} THEN <<Chunk("content", 0, 0, 0)>> ELSE <<>>)
                   \o (IF includeUsage /\ DOMAIN u # {}
                       THEN <<Chunk("usage", 0, 0, u)>> ELSE <<>>))
    BY <1>6 DEF OrchestrationChunk
  <2>2. Saying(IF choices # {} THEN <<Chunk("content", 0, 0, 0)>> ELSE <<>>)
    BY SayingOne, SayingNothing DEF Ends
  <2>3. Saying(IF includeUsage /\ DOMAIN u # {} THEN <<Chunk("usage", 0, 0, u)>> ELSE <<>>)
    BY SayingOne, SayingNothing DEF Ends
  <2>4. PICK ws : Saying(ws) /\ Write(ws)
    BY <2>1, <2>2, <2>3, SayingMore
  <2>5. Steady
    BY <2>1, ObserversSteady, LikeIsSteady
  <2>6. /\ DOMAIN up' = DOMAIN up /\ up'.fate = up.fate
        /\ up'.open = up.open \cup choices /\ up'.over = up.over \cup over
        /\ DOMAIN local' = DOMAIN local /\ local'.finished = Finished(choices, over)
    BY <1>3, <2>1
  <2>7. ChoicesKnown'
    <3>1. /\ DOMAIN local'.finished = up'.open
          /\ \A c \in up'.open :
               local'.finished[c] = (c \in over \/ (c \in up.open /\ local.finished[c]))
      BY <1>1, <2>6 DEF Finished, ChoicesKnown
    <3>2. ASSUME NEW c \in up'.open PROVE local'.finished[c] = (c \in up'.over)
      <4>1. CASE c \in up.open
        <5>1. local.finished[c] = (c \in up.over)
          BY <1>1, <4>1 DEF ChoicesKnown
        <5>2. local'.finished[c] = (c \in over \/ (c \in up.open /\ c \in up.over))
          BY <3>1, <5>1
        <5>3. c \in over \/ (c \in up.open /\ c \in up.over) <=> c \in up'.over
          BY <2>6, <4>1
        <5> QED BY <5>2, <5>3
      <4>2. CASE c \notin up.open
        BY <1>1, <2>6, <3>1, <4>2 DEF ChoicesKnown
      <4> QED BY <4>1, <4>2
    <3>3. up'.over \subseteq up'.open
      BY <1>1, <2>1, <2>6 DEF ChoicesKnown
    <3> QED BY <1>3, <2>6, <3>1, <3>2, <3>3 DEF ChoicesKnown
  <2>8. OrchestrationFrame
    BY <1>6 DEF OrchestrationChunk
  <2> QED BY <1>1, <1>2, <1>3, <2>4, <2>5, <2>6, <2>7, <2>8, GoesOn
<1>7. CASE OrchestrationDone
  <2> DEFINE whole == DOMAIN local.finished # {} /\ \A c \in DOMAIN local.finished : local.finished[c]
  <2>1. OrchestrationFrame /\ local' = local
    BY <1>7 DEF OrchestrationDone
  <2>2. whole <=> up.open = up.over /\ up.open # {}
    BY <1>1 DEF ChoicesKnown
  <2>3. CASE whole
    <3>1. Sends("complete") /\ Reply(<<Plain("done")>>, TRUE, FALSE) /\ acc' = acc
      BY <1>7, <2>2, <2>3 DEF OrchestrationDone
    <3>2. <<Plain("done")>> \in Endings /\ pipe \notin NativeGemini \cup {"geminiToOpenAI"}
      BY <1>1, GoodEnds
    <3>3. <<>> \o <<Plain("done")>> = <<Plain("done")>>
      BY <3>2, EndingFacts, ConcatEmptySeq DEF IsSequence
    <3>4. Reply(<<>> \o <<Plain("done")>>, TRUE, FALSE)
      BY <3>1, <3>3
    <3>5. AccLike(acc')
      BY <3>1, ObserversSteady
    <3>6. Core'
      BY <1>2, <2>1, <3>1, <3>2, <3>4, <3>5, SayingNothing, SucceedsOK
    <3> QED BY <1>1, <1>4, <2>1, <3>1, <3>6
  <2>4. CASE ~whole
    <3>1. Sends("garbled") /\ Fail(acc)
      BY <1>7, <2>2, <2>4 DEF OrchestrationDone
    <3> QED BY <1>1, <1>2, <1>4, <2>1, <3>1, FailsNow
  <2> QED BY <2>3, <2>4
<1>8. CASE OrchestrationError
  BY <1>1, <1>2, <1>4, <1>8, FailsNow DEF OrchestrationError
<1>9. CASE OrchestrationGarbage
  BY <1>1, <1>2, <1>4, <1>9, FailsNow DEF OrchestrationGarbage
<1>10. CASE EndUnlessTerminal
  <2>1. up' = up /\ local' = local
    BY <1>10 DEF EndUnlessTerminal, Close
  <2>2. ChoicesKnown'
    BY <1>1, <2>1 DEF ChoicesKnown
  <2> QED BY <1>1, <1>10, <2>2, EndUnlessTerminalOK
<1> QED BY <1>1, <1>5, <1>6, <1>7, <1>8, <1>9, <1>10 DEF StepOrchestrationToOpenAI

-----------------------------------------------------------------------------
(* Induction over the natural numbers, for a set of them, from the theorem  *)
(* that a well-founded relation has minimal elements; and with it that      *)
(* FlattenSeq is what its recursive definition says.                        *)

LEMMA NatSetInduction ==
  ASSUME NEW S, 0 \in S, \A n \in Nat : n \in S => n + 1 \in S
  PROVE  Nat \subseteq S
<1>1. SUFFICES ASSUME Nat \ S # {} PROVE FALSE
  OBVIOUS
<1>2. PICK x \in Nat \ S : \A y \in Nat \ S : ~(<<y, x>> \in OpToRel(<, Nat))
  BY <1>1, NatLessThanWellFounded, WFMin
<1>3. x # 0
  OBVIOUS
<1>4. x - 1 \in Nat /\ <<x - 1, x>> \in OpToRel(<, Nat)
  BY <1>3 DEF OpToRel
<1>5. x - 1 \in S
  BY <1>2, <1>4
<1>6. (x - 1) + 1 \in S
  BY <1>4, <1>5
<1>7. (x - 1) + 1 = x
  OBVIOUS
<1> QED BY <1>6, <1>7

(* f holds the concatenations of the first sequences of ss. *)
Flattens(ss, n, f) == f = [i \in 1..n |-> IF i = 1 THEN ss[i] ELSE f[i - 1] \o ss[i]]

LEMMA FlattensExists ==
  ASSUME NEW ss, NEW n \in Nat
  PROVE  \E f : Flattens(ss, n, f)
<1> DEFINE S == {m \in Nat : \E f : Flattens(ss, m, f)}
<1>1. 0 \in S
  <2>1. Flattens(ss, 0, [i \in 1..0 |-> 0])
    BY DEF Flattens
  <2> QED BY <2>1
<1>2. ASSUME NEW m \in Nat, m \in S PROVE m + 1 \in S
  <2>1. PICK f : Flattens(ss, m, f)
    BY <1>2
  <2> DEFINE g == [i \in 1..(m + 1) |->
                     IF i \in 1..m THEN f[i] ELSE IF i = 1 THEN ss[i] ELSE f[i - 1] \o ss[i]]
  <2>2. ASSUME NEW i \in 1..(m + 1)
        PROVE  g[i] = IF i = 1 THEN ss[i] ELSE g[i - 1] \o ss[i]
    <3>1. CASE i = 1
      BY <2>1, <3>1 DEF Flattens
    <3>2. CASE i # 1
      <4>1. i - 1 \in 1..m /\ i - 1 \in 1..(m + 1)
        BY <3>2
      <4>2. g[i - 1] = f[i - 1]
        BY <4>1
      <4>3. CASE i \in 1..m
        BY <2>1, <3>2, <4>2, <4>3 DEF Flattens
      <4>4. CASE i \notin 1..m
        BY <3>2, <4>2, <4>4
      <4> QED BY <4>3, <4>4
    <3> QED BY <3>1, <3>2
  <2>3. g = [i \in 1..(m + 1) |-> IF i = 1 THEN ss[i] ELSE g[i - 1] \o ss[i]]
    BY <2>2
  <2> HIDE DEF g
  <2>4. Flattens(ss, m + 1, g)
    BY <2>3 DEF Flattens
  <2> QED BY <2>4
<1> HIDE DEF S
<1>3. Nat \subseteq S
  BY <1>1, <1>2, NatSetInduction
<1> QED BY <1>3 DEF S

LEMMA FlattenSeqFlattens ==
  ASSUME NEW ss, Len(ss) \in Nat, Len(ss) # 0
  PROVE  \E f : Flattens(ss, Len(ss), f) /\ FlattenSeq(ss) = f[Len(ss)]
<1> DEFINE f == CHOOSE f : f = [i \in 1..Len(ss) |-> IF i = 1 THEN ss[i] ELSE f[i - 1] \o ss[i]]
<1>1. \E g : g = [i \in 1..Len(ss) |-> IF i = 1 THEN ss[i] ELSE g[i - 1] \o ss[i]]
  BY FlattensExists DEF Flattens
<1>2. f = [i \in 1..Len(ss) |-> IF i = 1 THEN ss[i] ELSE f[i - 1] \o ss[i]]
  BY <1>1
<1>3. FlattenSeq(ss) = f[Len(ss)]
  BY DEF FlattenSeq
<1> QED BY <1>2, <1>3 DEF Flattens

(* Where the elements of a concatenation come from. *)
LEMMA ConcatPlaces ==
  ASSUME NEW s, NEW t, IsSequence(s), IsSequence(t), NEW k \in DOMAIN (s \o t)
  PROVE  \/ k \in DOMAIN s /\ (s \o t)[k] = s[k]
         \/ /\ k \notin DOMAIN s /\ k - Len(s) \in DOMAIN t /\ k = Len(s) + (k - Len(s))
            /\ (s \o t)[k] = t[k - Len(s)]
<1>1. k \in 1..(Len(s) + Len(t))
  BY ConcatSequences, SequenceFacts
<1>2. CASE k \in 1..Len(s)
  BY <1>2, ConcatSequences, SequenceFacts
<1>3. CASE k \notin 1..Len(s)
  <2>1. k - Len(s) \in 1..Len(t) /\ k = Len(s) + (k - Len(s))
    BY <1>1, <1>3, SequenceFacts
  <2>2. (s \o t)[Len(s) + (k - Len(s))] = t[k - Len(s)]
    BY <2>1, ConcatSequences
  <2> QED BY <1>3, <2>1, <2>2, SequenceFacts
<1> QED BY <1>2, <1>3

(* A sequence of chunks without those of the types T, and what is made of  *)
(* such sequences.                                                          *)
Avoids(s, T) == IsSequence(s) /\ \A k \in DOMAIN s : s[k].type \notin T

LEMMA BothAvoid ==
  ASSUME NEW s, NEW t, NEW T, Avoids(s, T), Avoids(t, T)
  PROVE  Avoids(s \o t, T)
<1>1. ASSUME NEW k \in DOMAIN (s \o t) PROVE (s \o t)[k].type \notin T
  BY ConcatPlaces DEF Avoids
<1> QED BY <1>1, ConcatSequences DEF Avoids

LEMMA FlattenAvoids ==
  ASSUME NEW n \in Nat, NEW ss, IsSequence(ss), Len(ss) = n, NEW T, \A k \in 1..n : Avoids(ss[k], T)
  PROVE  Avoids(FlattenSeq(ss), T)
<1>1. CASE n = 0
  <2>1. FlattenSeq(ss) = ss
    BY <1>1 DEF FlattenSeq
  <2>2. DOMAIN ss = {}
    BY <1>1, SequenceFacts
  <2> QED BY <2>1, <2>2 DEF Avoids
<1>2. CASE n # 0
  <2>1. PICK f : Flattens(ss, n, f) /\ FlattenSeq(ss) = f[n]
    BY <1>2, FlattenSeqFlattens
  <2> DEFINE S == {i \in Nat : i \in 1..n => Avoids(f[i], T)}
  <2>2. 0 \in S
    OBVIOUS
  <2>3. ASSUME NEW i \in Nat, i \in S PROVE i + 1 \in S
    <3>1. SUFFICES ASSUME i + 1 \in 1..n PROVE Avoids(f[i + 1], T)
      OBVIOUS
    <3>2. f[i + 1] = IF i + 1 = 1 THEN ss[i + 1] ELSE f[(i + 1) - 1] \o ss[i + 1]
      BY <2>1, <3>1 DEF Flattens
    <3>3. CASE i = 0
      BY <3>1, <3>2, <3>3
    <3>4. CASE i # 0
      <4>1. (i + 1) - 1 = i /\ i + 1 # 1 /\ i \in 1..n
        BY <3>1, <3>4
      <4>2. f[i + 1] = f[i] \o ss[i + 1]
        BY <3>2, <4>1
      <4> QED BY <2>3, <3>1, <4>1, <4>2, BothAvoid
    <3> QED BY <3>3, <3>4
  <2> HIDE DEF S
  <2>4. Nat \subseteq S
    BY <2>2, <2>3, NatSetInduction
  <2>5. Avoids(f[n], T)
    BY <1>2, <2>4 DEF S
  <2> QED BY <2>1, <2>5
<1> QED BY <1>1, <1>2

-----------------------------------------------------------------------------
(* PipeGeminiToOpenAI.                                                      *)

(* A candidate adds its role, its part and its finish reason, and nothing else. *)
Adds == {"role", "tool", "content", "finish"}

LEMMA CandidateAvoids ==
  ASSUME NEW c, NEW part, NEW over, NEW T, T \cap Adds = {}
  PROVE  Avoids(CandidateChunks(c, part, over), T)
<1>1. ASSUME NEW t \in Adds, NEW i PROVE Avoids(<<Chunk(t, c, i, 0)>>, T)
  <2>1. <<Chunk(t, c, i, 0)>> \in Seq({Chunk(t, c, i, 0)})
    OBVIOUS
  <2>2. \A k \in DOMAIN <<Chunk(t, c, i, 0)>> : <<Chunk(t, c, i, 0)>>[k].type \notin T
    BY <1>1 DEF Chunk
  <2> QED BY <2>1, <2>2, SequenceOver DEF Avoids
<1>2. Avoids(<<>>, T)
  BY SayingNothing DEF Saying, Avoids
<1>3. Avoids(IF c \notin local.announced THEN <<Chunk("role", c, 0, 0)>> ELSE <<>>, T)
  BY <1>1, <1>2 DEF Adds
<1>4. Avoids(IF part = "call" THEN <<Chunk("tool", c, local.toolCounts[c], 0)>>
             ELSE IF part = "text" THEN <<Chunk("content", c, 0, 0)>> ELSE <<>>, T)
  BY <1>1, <1>2 DEF Adds
<1>5. Avoids(IF over THEN <<Chunk("finish", c, 0, 0)>> ELSE <<>>, T)
  BY <1>1, <1>2 DEF Adds
<1> QED BY <1>3, <1>4, <1>5, BothAvoid DEF CandidateChunks

LEMMA PacketAvoids ==
  ASSUME NEW n \in Nat, NEW order, NEW part, NEW over, NEW T, T \cap Adds = {}
  PROVE  Avoids(FlattenSeq([k \in 1..n |-> CandidateChunks(order[k], part, over)]), T)
<1> DEFINE ss == [k \in 1..n |-> CandidateChunks(order[k], part, over)]
<1>1. ss \in [1..n -> Range(ss)]
  BY DEF Range
<1>2. ss \in Seq(Range(ss))
  BY <1>1, SeqDef
<1>3. Len(ss) = n
  <2>1. Len(ss) \in Nat /\ DOMAIN ss = 1..Len(ss)
    BY <1>2, LenProperties
  <2> QED BY <2>1
<1>4. \A k \in 1..n : Avoids(ss[k], T)
  BY CandidateAvoids
<1> HIDE DEF ss
<1>5. Avoids(FlattenSeq(ss), T)
  BY <1>2, <1>3, <1>4, FlattenAvoids DEF IsSequence
<1> QED BY <1>5 DEF ss

LEMMA PacketSays ==
  ASSUME NEW n \in Nat, NEW order, NEW part, NEW over
  PROVE  Saying(FlattenSeq([k \in 1..n |-> CandidateChunks(order[k], part, over)]))
<1> DEFINE ws == FlattenSeq([k \in 1..n |-> CandidateChunks(order[k], part, over)])
<1>1. Ends \cap Adds = {}
  BY DEF Ends, Adds
<1>2. Avoids(ws, Ends)
  BY <1>1, PacketAvoids
<1> HIDE DEF ws
<1>3. Saying(ws)
  BY <1>2 DEF Avoids, Saying, Quiet
<1> QED BY <1>3 DEF ws

LEMMA GeminiToOpenAIOK ==
  ASSUME Core, CandidatesKnown, StepGeminiToOpenAI
  PROVE  Core' /\ CandidatesKnown' /\ pipe' = "geminiToOpenAI"
<1>0. USE DEF Core
<1>1. pipe = "geminiToOpenAI" /\ pipe' = pipe /\ pipe \notin NativeGemini /\ pipe \in OpenAIPipes
  BY DEF StepGeminiToOpenAI, GeminiPacket, GeminiError, GeminiGarbage, GeminiPacketRead, Read,
         ArrayCloses, EndGemini, Close, NativeGemini, OpenAIPipes
<1>2. ASSUME GeminiPacketRead
      PROVE  phase = "loop" /\ UNCHANGED <<pipe, cut, counted>> /\ cut = "none"
  BY <1>2 DEF GeminiPacketRead, Read, Present
<1>3. /\ "fate" \in DOMAIN up /\ {"array", "begun", "over"} \subseteq DOMAIN up
      /\ {"announced", "finished"} \subseteq DOMAIN local
      /\ local.announced = up.begun /\ local.finished = up.over
      /\ up.over \subseteq up.begun /\ up.begun \subseteq Candidates /\ up.array \in BOOLEAN
      /\ cut = "closed" => up.array
      /\ phase = "after" /\ ~terminal /\ ~writeFailed => cut # "none"
  BY <1>1 DEF TypeOK, CandidatesKnown
<1>4. CASE GeminiPacket
  <2>0. PICK present \in SUBSET (Candidates \ up.over), part \in {"none", "text", "call"},
             over \in BOOLEAN, u \in Running(BlocksOf(GeminiFields, MaxCount)) :
          \E order \in SetToSeqs(present) : Packet(present, order, part, over, u)
    BY <1>4 DEF GeminiPacket
  <2> PICK order \in SetToSeqs(present) : Packet(present, order, part, over, u)
    BY <2>0
  <2>1. /\ present = {} => part = "none" /\ ~over
        /\ part = "none" => over \/ present = {}
        /\ up' = [up EXCEPT
                    !.begun = @ \cup present,
                    !.over = IF over THEN @ \cup present ELSE @,
                    !.calls = IF part = "call"
                              THEN @ \o [k \in 1..Cardinality(present) |->
                                           [choice |-> order[k], parts |-> 0]]
                              ELSE @,
                    !.usage = Latest(u),
                    !.steady = @ /\ (DOMAIN u = {} \/ DOMAIN up.usage \subseteq DOMAIN u)]
        /\ local' = [local EXCEPT
                       !.announced = @ \cup present,
                       !.finished = IF over THEN @ \cup present ELSE @,
                       !.toolCounts = CountsTools(present, part),
                       !.last = [f \in GeminiFields |->
                                   IF f \in DOMAIN u THEN Larger(@[f], u[f]) ELSE @[f]]]
        /\ acc' = ApplyGemini(acc, u)
        /\ Write(FlattenSeq([k \in 1..Cardinality(present) |->
                   CandidateChunks(order[k], part, over)]))
    BY DEF Packet
  <2>2. /\ DOMAIN up' = DOMAIN up /\ DOMAIN local' = DOMAIN local
        /\ up'.fate = up.fate /\ up'.array = up.array
        /\ up'.begun = up.begun \cup present /\ local'.announced = local.announced \cup present
        /\ up'.over = IF over THEN up.over \cup present ELSE up.over
        /\ local'.finished = IF over THEN local.finished \cup present ELSE local.finished
    BY <1>3, <2>1
  <2>3. Cardinality(present) \in Nat
    BY CandidateAssumption, FS_Subset, FS_CardinalityType
  <2> DEFINE ws == FlattenSeq([k \in 1..Cardinality(present) |->
                     CandidateChunks(order[k], part, over)])
  <2>4. Saying(ws)
    BY <2>3, PacketSays
  <2>5. Write(ws)
    BY <2>1
  <2>6. Steady
    BY <2>1, ObserversSteady, LikeIsSteady
  <2>7. phase = "loop" /\ UNCHANGED <<pipe, cut, counted>> /\ cut = "none"
    BY <1>2, <1>4 DEF GeminiPacket
  <2> HIDE DEF ws
  <2>8. Core'
    BY <1>1, <1>3, <2>2, <2>4, <2>5, <2>6, <2>7, GoesOn
  <2>9. phase' = "after" => writeFailed'
    <3>1. IsSequence(ws)
      BY <2>4 DEF Saying
    <3>2. phase' = IF TRUE /\ ~writeFailed' THEN "loop" ELSE "after"
      BY <2>5, <3>1, WriteFacts
    <3> QED BY <3>2
  <2>10. CandidatesKnown'
    <3>1. cut' = "closed" => up'.array
      BY <2>7
    <3>2. up'.over \subseteq up'.begun /\ up'.begun \subseteq Candidates
      BY <1>3, <2>2
    <3>3. local'.announced = up'.begun /\ local'.finished = up'.over
      BY <1>3, <2>2
    <3> QED BY <1>3, <2>2, <2>9, <3>1, <3>2, <3>3 DEF CandidatesKnown
  <2> QED BY <1>1, <2>8, <2>10
<1>5. ASSUME NEW fate \in {"failed", "garbled"}, GeminiPacketRead, local' = local,
             Sends(fate), Fail(acc) \/ Fail(MarkObserved(acc))
      PROVE  Core' /\ CandidatesKnown'
  <2>1. Core'
    BY <1>1, <1>2, <1>5, FailsNow
  <2>2. cut' = "none" /\ terminal'
    <3>1. terminal' = TRUE
      BY <1>5 DEF Fail, FailAfter, Reply
    <3> QED BY <1>2, <1>5, <3>1
  <2>3. DOMAIN up' = DOMAIN up /\ up'.begun = up.begun /\ up'.over = up.over /\ up'.array = up.array
    BY <1>3, <1>5 DEF Sends
  <2>4. CandidatesKnown'
    BY <1>3, <1>5, <2>2, <2>3 DEF CandidatesKnown
  <2> QED BY <2>1, <2>4
<1>6. CASE GeminiError
  BY <1>1, <1>5, <1>6 DEF GeminiError
<1>7. CASE GeminiGarbage
  BY <1>1, <1>5, <1>7 DEF GeminiGarbage
<1>8. CASE ArrayCloses
  <2>1. /\ phase = "loop" /\ up.array /\ cut' = "closed" /\ phase' = "after"
        /\ UNCHANGED <<pipe, up, local, acc, counted, terminal, writeFailed, gone, out>>
    BY <1>8 DEF ArrayCloses
  <2>2. TypeOK' /\ Present'
    BY <2>1 DEF TypeOK, Present
  <2>3. Undecided' /\ Decided'
    BY <1>1, <2>1 DEF Undecided, Decided, Bad, Present
  <2>4. GeminiNoted' /\ Counted'
    BY <1>1, <2>1 DEF GeminiNoted, Counted
  <2>5. CandidatesKnown'
    BY <1>3, <2>1 DEF CandidatesKnown
  <2> QED BY <1>1, <2>2, <2>3, <2>4, <2>5
<1>9. CASE EndGemini
  <2>1. Core'
    BY <1>9, EndGeminiOK
  <2>2. phase' = "closed" /\ UNCHANGED <<up, local, cut>>
    BY <1>9 DEF EndGemini, Close
  <2>3. CandidatesKnown'
    BY <1>3, <2>2 DEF CandidatesKnown
  <2> QED BY <1>1, <2>1, <2>3
<1> QED BY <1>4, <1>6, <1>7, <1>8, <1>9 DEF StepGeminiToOpenAI

-----------------------------------------------------------------------------
(* The capture of a Gemini array is observed by a fold over its elements,   *)
(* which keeps the status and the failures noted before.                    *)

Kept(a, b) == DOMAIN b = AccFields /\ b.failed = a.failed /\ b.status = a.status

LEMMA GeminiKeeps ==
  ASSUME NEW a, NEW b, Kept(a, b), NEW u
  PROVE  Kept(a, ApplyGemini(b, u)) /\ Kept(a, MarkObserved(b))
<1>1. Kept(a, MarkObserved(b))
  BY DEF Kept, AccFields, MarkObserved
<1>2. Kept(a, ApplyGemini(b, u))
  BY <1>1 DEF Kept, AccFields, ApplyGemini
<1> QED BY <1>1, <1>2

(* g holds what the elements at each set of places make of base. *)
FoldsGemini(base, blocks, D, g) ==
  g = [s \in SUBSET D |->
         IF s = {} THEN base ELSE ApplyGemini(g[s \ {Max(s)}], blocks[Max(s)])]

LEMMA MaxOfUpto ==
  ASSUME NEW m \in Nat, NEW s \in SUBSET (1..(m + 1)), m + 1 \in s
  PROVE  Max(s) = m + 1
<1>1. \A y \in s : m + 1 >= y
  OBVIOUS
<1>2. Max(s) \in s /\ \A y \in s : Max(s) >= y
  BY <1>1 DEF Max
<1>3. Max(s) \in 1..(m + 1) /\ Max(s) >= m + 1
  BY <1>2
<1> HIDE DEF Max
<1> QED BY <1>3

LEMMA FoldsGeminiExists ==
  ASSUME NEW base, NEW blocks, NEW n \in Nat
  PROVE  \E g : FoldsGemini(base, blocks, 1..n, g)
<1> DEFINE S == {m \in Nat : \E g : FoldsGemini(base, blocks, 1..m, g)}
<1>1. 0 \in S
  <2>1. FoldsGemini(base, blocks, 1..0, [s \in SUBSET (1..0) |-> base])
    <3>1. \A s \in SUBSET (1..0) : s = {}
      OBVIOUS
    <3> QED BY <3>1 DEF FoldsGemini
  <2> QED BY <2>1
<1>2. ASSUME NEW m \in Nat, m \in S PROVE m + 1 \in S
  <2>1. PICK g : FoldsGemini(base, blocks, 1..m, g)
    BY <1>2
  <2> DEFINE h == [s \in SUBSET (1..(m + 1)) |->
                     IF s \in SUBSET (1..m) THEN g[s]
                     ELSE ApplyGemini(g[s \ {m + 1}], blocks[m + 1])]
  <2>2. ASSUME NEW s \in SUBSET (1..(m + 1))
        PROVE  h[s] = IF s = {} THEN base ELSE ApplyGemini(h[s \ {Max(s)}], blocks[Max(s)])
    <3>1. CASE s \in SUBSET (1..m)
      <4>1. h[s] = g[s]
        BY <3>1
      <4>2. s \ {Max(s)} \in SUBSET (1..m) /\ s \ {Max(s)} \in SUBSET (1..(m + 1))
        BY <3>1
      <4>3. h[s \ {Max(s)}] = g[s \ {Max(s)}]
        BY <4>2
      <4> HIDE DEF h
      <4> QED BY <2>1, <3>1, <4>1, <4>3 DEF FoldsGemini
    <3>2. CASE s \notin SUBSET (1..m)
      <4>1. m + 1 \in s
        BY <3>2
      <4>2. Max(s) = m + 1
        BY <4>1, MaxOfUpto
      <4>3. s \ {m + 1} \in SUBSET (1..m) /\ s \ {m + 1} \in SUBSET (1..(m + 1)) /\ s # {}
        BY <4>1
      <4>4. h[s \ {m + 1}] = g[s \ {m + 1}]
        BY <4>3
      <4>5. h[s] = ApplyGemini(g[s \ {m + 1}], blocks[m + 1])
        BY <3>2
      <4> HIDE DEF h
      <4> QED BY <4>2, <4>3, <4>4, <4>5
    <3> QED BY <3>1, <3>2
  <2>3. h = [s \in SUBSET (1..(m + 1)) |->
               IF s = {} THEN base ELSE ApplyGemini(h[s \ {Max(s)}], blocks[Max(s)])]
    BY <2>2
  <2> HIDE DEF h
  <2>4. FoldsGemini(base, blocks, 1..(m + 1), h)
    BY <2>3 DEF FoldsGemini
  <2> QED BY <2>4
<1> HIDE DEF S
<1>3. Nat \subseteq S
  BY <1>1, <1>2, NatSetInduction
<1> QED BY <1>3 DEF S

LEMMA FoldLeftGemini ==
  ASSUME NEW base, NEW blocks, NEW n \in Nat, DOMAIN blocks = 1..n
  PROVE  \E g : FoldsGemini(base, blocks, 1..n, g) /\ FoldLeft(ApplyGemini, base, blocks) = g[1..n]
<1> DEFINE g == CHOOSE g : g = [s \in SUBSET (1..n) |->
                    IF s = {} THEN base ELSE ApplyGemini(g[s \ {Max(s)}], blocks[Max(s)])]
<1>1. \E h : h = [s \in SUBSET (1..n) |->
                    IF s = {} THEN base ELSE ApplyGemini(h[s \ {Max(s)}], blocks[Max(s)])]
  <2>1. PICK h : FoldsGemini(base, blocks, 1..n, h)
    BY FoldsGeminiExists
  <2>2. h = [s \in SUBSET (1..n) |->
               IF s = {} THEN base ELSE ApplyGemini(h[s \ {Max(s)}], blocks[Max(s)])]
    BY <2>1 DEF FoldsGemini
  <2> QED BY <2>2, Zenon
<1>2. g = [s \in SUBSET (1..n) |->
             IF s = {} THEN base ELSE ApplyGemini(g[s \ {Max(s)}], blocks[Max(s)])]
  BY <1>1
<1>3. FoldLeft(ApplyGemini, base, blocks) = g[1..n]
  BY DEF FoldLeft, MapThenFoldSet
<1> QED BY <1>2, <1>3 DEF FoldsGemini

LEMMA FoldKeeps ==
  ASSUME NEW a, NEW base, Kept(a, base), NEW blocks, IsSequence(blocks)
  PROVE  Kept(a, FoldLeft(ApplyGemini, base, blocks))
<1> DEFINE n == Len(blocks)
<1>1. n \in Nat /\ DOMAIN blocks = 1..n
  BY SequenceFacts
<1>2. PICK g : FoldsGemini(base, blocks, 1..n, g) /\ FoldLeft(ApplyGemini, base, blocks) = g[1..n]
  BY <1>1, FoldLeftGemini
<1> HIDE DEF n
<1> DEFINE S == {i \in Nat : i <= n => \A s \in SUBSET (1..i) : Kept(a, g[s])}
<1>3. 0 \in S
  <2>1. ASSUME NEW s \in SUBSET (1..0) PROVE Kept(a, g[s])
    <3>1. s = {} /\ s \in SUBSET (1..n)
      OBVIOUS
    <3>2. g[s] = base
      BY <1>2, <3>1 DEF FoldsGemini
    <3> QED BY <3>2
  <2> QED BY <2>1
<1>4. ASSUME NEW i \in Nat, i \in S PROVE i + 1 \in S
  <2>1. SUFFICES ASSUME i + 1 <= n, NEW s \in SUBSET (1..(i + 1)) PROVE Kept(a, g[s])
    OBVIOUS
  <2>2. i <= n /\ s \in SUBSET (1..n)
    BY <1>1, <2>1
  <2>3. CASE i + 1 \in s
    <3>1. Max(s) = i + 1 /\ s # {}
      BY <2>3, MaxOfUpto
    <3>2. s \ {i + 1} \in SUBSET (1..i)
      OBVIOUS
    <3>3. Kept(a, g[s \ {i + 1}])
      BY <1>4, <2>2, <3>2
    <3>4. g[s] = ApplyGemini(g[s \ {i + 1}], blocks[i + 1])
      BY <1>2, <2>2, <3>1 DEF FoldsGemini
    <3> QED BY <3>3, <3>4, GeminiKeeps
  <2>4. CASE i + 1 \notin s
    <3>1. s \in SUBSET (1..i)
      BY <2>4
    <3> QED BY <1>4, <2>2, <3>1
  <2> QED BY <2>3, <2>4
<1> HIDE DEF S
<1>5. Nat \subseteq S
  BY <1>3, <1>4, NatSetInduction
<1> QED BY <1>1, <1>2, <1>5 DEF S

-----------------------------------------------------------------------------
(* The native pipes.                                                        *)

(* A native Gemini pipe forwards a frame. *)
LEMMA GeminiGoesOn ==
  ASSUME Core, pipe \in NativeGemini, phase = "loop", UNCHANGED <<pipe, cut, counted>>,
         "fate" \in DOMAIN up', up'.fate \in {"open", "failed"},
         DOMAIN acc' = AccFields, acc'.failed \in BOOLEAN, acc'.status \in {200, 502},
         pipe = "geminiSSE" /\ up'.fate = "failed" => Bad',
         NEW ws, Saying(ws) \/ ws = <<Plain("error")>>, Write(ws)
  PROVE  Core'
<1> USE DEF Core
<1>1. IsSequence(ws)
  <2>1. <<Plain("error")>> \in Seq({Plain("error")})
    OBVIOUS
  <2> QED BY <2>1, SequenceOver DEF Saying
<1>2. /\ IsSequence(out') /\ writeFailed' \in BOOLEAN /\ gone' \in BOOLEAN
      /\ terminal' = FALSE /\ (gone' <=> gone \/ writeFailed')
      /\ phase' = IF ~writeFailed' THEN "loop" ELSE "after"
      /\ ~gone' => ~gone /\ out' = out \o ws
  <2>1. TypeOK /\ Write(ws)
    OBVIOUS
  <2> HIDE DEF Core
  <2> QED BY <1>1, <2>1, WriteFacts, Zenon
<1>3. TypeOK'
  <2>1. phase' \in {"loop", "after"} /\ terminal' \in BOOLEAN
    BY <1>2
  <2>2. up'.fate \in Fates
    BY DEF Fates
  <2> QED BY <1>2, <2>1, <2>2 DEF TypeOK
<1>4. Present'
  BY <1>2 DEF Present
<1>5. Undecided' /\ Decided'
  BY DEF Undecided, Decided
<1>6. GeminiNoted' /\ Counted'
  BY <1>2 DEF GeminiNoted, Counted
<1> QED BY <1>3, <1>4, <1>5, <1>6

(* A native Gemini pipe returns. *)
LEMMA GeminiCloses ==
  ASSUME Core, pipe \in NativeGemini, phase = "after",
         NEW ws, IsSequence(ws), Close(ws),
         DOMAIN acc' = AccFields, acc'.failed \in BOOLEAN, acc'.status \in {200, 502},
         Bad => Bad', cut = "error" /\ ~writeFailed => Bad'
  PROVE  Core'
<1> USE DEF Core
<1>1. /\ IsSequence(out') /\ gone' \in BOOLEAN /\ phase' = "closed"
      /\ UNCHANGED <<pipe, up, local, cut, terminal, writeFailed, counted>>
      /\ gone => gone' /\ (~gone' => ~gone)
  BY CloseFacts
<1>2. TypeOK' /\ Present'
  BY <1>1 DEF TypeOK, Present
<1>3. Undecided' /\ Decided' /\ Counted'
  BY <1>1 DEF Undecided, Decided, Counted
<1>4. GeminiNoted'
  BY <1>1 DEF GeminiNoted, Present
<1> QED BY <1>2, <1>3, <1>4

(* What the observers of the native pipes make of a frame. *)
LEMMA ObservedSteady ==
  ASSUME TypeOK, NEW p, NEW a \in ObservedIn(p)
  PROVE  AccLike(a)
<1>1. \/ a \in {ApplyOpenAI(acc, u) : u \in Blocks}
      \/ a \in {ApplyAnthropic(acc, u, start) : u \in Blocks, start \in BOOLEAN}
      \/ a \in {acc, MarkObserved(acc)}
      \/ a \in {ApplyGemini(acc, u) : u \in GeminiBlocks}
  BY DEF ObservedIn
<1> QED BY <1>1, ObserversSteady

LEMMA NativeEventOK ==
  ASSUME Core, NEW p \in Natives, NativeEvent(p)
  PROVE  Core'
<1> USE DEF Core
<1>1. pipe = p /\ phase = "loop" /\ UNCHANGED <<pipe, cut, counted, up, local>>
  BY DEF NativeEvent, Read
<1>2. AccLike(acc')
  BY ObservedSteady DEF NativeEvent
<1>3. Steady /\ DOMAIN acc' = AccFields /\ acc'.failed \in BOOLEAN /\ acc'.status \in {200, 502}
  BY <1>2, LikeIsSteady DEF Steady, TypeOK
<1>4. Saying(<<Plain("content")>>)
  BY SayingOne DEF Plain, Ends
<1>5. "fate" \in DOMAIN up' /\ up'.fate = up.fate
  BY <1>1 DEF TypeOK
<1>6. Write(<<Plain("content")>>)
  BY DEF NativeEvent
<1>7. CASE p \in NativeGemini
  <2>1. up'.fate \in {"open", "failed"} /\ (pipe = "geminiSSE" /\ up'.fate = "failed" => Bad')
    BY <1>1, <1>3, <1>5, <1>7 DEF GeminiNoted, Bad, Steady
  <2> HIDE DEF Core
  <2> QED BY <1>1, <1>3, <1>4, <1>5, <1>6, <1>7, <2>1, GeminiGoesOn
<1>8. CASE p \notin NativeGemini
  BY <1>1, <1>3, <1>4, <1>5, <1>6, <1>8, GoesOn
<1> QED BY <1>7, <1>8

LEMMA NativeEndOK ==
  ASSUME Core, NEW p \in Natives, NativeEnd(p)
  PROVE  Core'
<1> DEFINE e == IF p = "openai" THEN <<Plain("done")>> ELSE <<Plain("stop")>>
<1>1. /\ pipe = p /\ phase = "loop" /\ UNCHANGED <<pipe, cut, counted>>
      /\ p \in {"openai", "anthropic", "responses"} /\ Sends("complete")
  BY DEF NativeEnd, Read, Natives
<1>2. Reply(e, TRUE, FALSE)
  BY <1>1 DEF NativeEnd
<1>3. AccLike(acc')
  <2>1. \/ acc' \in {acc} \/ acc' \in {MarkObserved(acc)}
        \/ acc' \in {ApplyAnthropic(acc, u, TRUE) : u \in Blocks}
    BY DEF NativeEnd
  <2> QED BY <2>1, ObserversSteady DEF Core
<1>4. e \in {<<Plain("done")>>, <<Plain("stop")>>} /\ e \in Endings
  BY <1>1, GoodEnds DEF OpenAIPipes
<1>5. pipe \notin NativeGemini \cup {"geminiToOpenAI"}
  BY <1>1 DEF NativeGemini
<1> HIDE DEF e
<1>6. <<>> \o e = e
  BY <1>4, EndingFacts, ConcatEmptySeq DEF IsSequence
<1>7. Reply(<<>> \o e, TRUE, FALSE)
  BY <1>2, <1>6
<1> QED BY <1>1, <1>3, <1>4, <1>5, <1>7, SayingNothing, SucceedsOK

(* The upstream's own error is passed on. *)
LEMMA ErrorForwarded ==
  ASSUME Core, pipe \notin NativeGemini, phase = "loop", UNCHANGED <<pipe, cut, counted>>,
         NEW fate \in {"failed", "named"}, Sends(fate),
         DOMAIN acc' = AccFields, acc'.failed \in BOOLEAN, acc'.status \in {200, 502},
         fate = "failed" => Bad', Reply(ErrorChunks, TRUE, FALSE)
  PROVE  Core'
<1>1. "fate" \in DOMAIN up' /\ up'.fate = fate /\ up'.fate \in Fates \ {"open"}
  BY DEF Sends, Core, TypeOK, Fates
<1>2. <<>> \o ErrorChunks = ErrorChunks
  BY ErrorChunksEnd, EndingFacts, ConcatEmptySeq DEF IsSequence
<1>3. Reply(<<>> \o ErrorChunks, TRUE, FALSE)
  BY <1>2
<1>4. /\ TellsError(ErrorChunks) <=> up'.fate # "complete"
      /\ Bad' => up'.fate # "complete"
      /\ up'.fate \notin {"complete", "named"} => Bad'
      /\ up'.fate # "complete"
  BY <1>1, ErrorChunksEnd
<1> QED BY <1>1, <1>3, <1>4, ErrorChunksEnd, SayingNothing, Finishes

LEMMA NativeErrorOK ==
  ASSUME Core, (\E p \in Natives : NativeError(p)) \/ NamedError
  PROVE  Core'
<1>1. CASE NamedError
  <2>1. /\ pipe = "anthropic" /\ pipe \notin NativeGemini /\ phase = "loop"
        /\ UNCHANGED <<pipe, cut, counted>> /\ Sends("named") /\ Reply(ErrorChunks, TRUE, FALSE)
    BY <1>1 DEF NamedError, Read, NativeGemini
  <2>2. AccLike(acc')
    BY <1>1, ObserversSteady DEF NamedError, Core
  <2>3. DOMAIN acc' = AccFields /\ acc'.failed \in BOOLEAN /\ acc'.status \in {200, 502}
    BY <2>2 DEF AccLike, Core, TypeOK
  <2> QED BY <2>1, <2>3, ErrorForwarded
<1>2. ASSUME NEW p \in Natives, NativeError(p) PROVE Core'
  <2>1. /\ pipe \notin NativeGemini /\ phase = "loop"
        /\ UNCHANGED <<pipe, cut, counted>> /\ Sends("failed") /\ Reply(ErrorChunks, TRUE, FALSE)
    BY <1>2 DEF NativeError, Read
  <2>2. acc' = MarkUpstreamStatus(acc, 502) \/ acc' = NoteStreamError(acc)
    BY <1>2 DEF NativeError
  <2>3. DOMAIN acc' = AccFields /\ acc'.failed \in BOOLEAN /\ acc'.status \in {200, 502} /\ Bad'
    <3>1. CASE acc' = NoteStreamError(acc)
      BY <3>1, NoteFacts DEF Core, TypeOK, Bad
    <3>2. CASE acc' = MarkUpstreamStatus(acc, 502)
      <4>1. DOMAIN acc' = AccFields /\ acc'.failed = acc.failed /\ acc'.status = 502
        BY <3>2 DEF MarkUpstreamStatus, Core, TypeOK, AccFields
      <4> QED BY <4>1 DEF Core, TypeOK, Bad
    <3> QED BY <2>2, <3>1, <3>2
  <2> QED BY <2>1, <2>3, ErrorForwarded
<1> QED BY <1>1, <1>2

LEMMA GeminiEventErrorOK ==
  ASSUME Core, GeminiEventError
  PROVE  Core'
<1>1. /\ pipe = "geminiSSE" /\ pipe \in NativeGemini /\ phase = "loop"
      /\ UNCHANGED <<pipe, cut, counted>> /\ Sends("failed") /\ Write(<<Plain("error")>>)
  BY DEF GeminiEventError, Read, NativeGemini
<1>2. "fate" \in DOMAIN up' /\ up'.fate = "failed"
  BY <1>1 DEF Sends, Core, TypeOK
<1>3. DOMAIN acc' = AccFields /\ acc'.failed \in BOOLEAN /\ acc'.status \in {200, 502} /\ Bad'
  BY NoteFacts DEF GeminiEventError, Core, TypeOK, Bad
<1> QED BY <1>1, <1>2, <1>3, GeminiGoesOn

LEMMA EndGeminiSSEOK ==
  ASSUME Core, EndGeminiSSE
  PROVE  Core'
<1>1. pipe \in NativeGemini /\ phase = "after"
  BY DEF EndGeminiSSE, NativeGemini
<1>2. CASE cut = "error" /\ ~writeFailed
  <2>1. Close(ErrorChunks) /\ acc' = NoteStreamError(acc)
    BY <1>2 DEF EndGeminiSSE
  <2>2. DOMAIN acc' = AccFields /\ acc'.failed \in BOOLEAN /\ acc'.status \in {200, 502} /\ Bad'
    BY <2>1, NoteFacts DEF Core, TypeOK, Bad
  <2>3. IsSequence(ErrorChunks)
    BY ErrorChunksEnd, EndingFacts
  <2> QED BY <1>1, <2>1, <2>2, <2>3, GeminiCloses
<1>3. CASE ~(cut = "error" /\ ~writeFailed)
  <2>1. Close(<<>>) /\ acc' = acc
    BY <1>3 DEF EndGeminiSSE
  <2>2. /\ DOMAIN acc' = AccFields /\ acc'.failed \in BOOLEAN /\ acc'.status \in {200, 502}
        /\ Bad => Bad'
    BY <2>1 DEF Core, TypeOK, Bad
  <2>3. IsSequence(<<>>)
    BY SayingNothing DEF Saying
  <2> QED BY <1>1, <1>3, <2>1, <2>2, <2>3, GeminiCloses
<1> QED BY <1>2, <1>3

LEMMA ArrayBytesOK ==
  ASSUME Core, CaptureKnown, ArrayBytes
  PROVE  Core' /\ CaptureKnown'
<1>1. /\ pipe = "geminiArray" /\ pipe \in NativeGemini /\ phase = "loop"
      /\ UNCHANGED <<pipe, cut, counted>>
  BY DEF ArrayBytes, Read, NativeGemini
<1>2. PICK u \in GeminiBlocks, failed \in BOOLEAN, last \in BOOLEAN :
        /\ failed => DOMAIN u = {}
        /\ up' = [up EXCEPT !.array = last, !.fate = IF failed THEN "failed" ELSE @]
        /\ Write(<<Plain("content")>>)
        /\ \/ /\ ~writeFailed' /\ ~local.truncated
              /\ local' = [local EXCEPT !.capture = Append(@, u)]
              /\ UNCHANGED acc
           \/ /\ ~writeFailed' /\ ~local.truncated
              /\ local' = [capture |-> <<>>, truncated |-> TRUE]
              /\ acc' = MarkCaptureDropped(acc)
           \/ /\ writeFailed' \/ local.truncated
              /\ UNCHANGED <<local, acc>>
  BY DEF ArrayBytes
<1>3. "fate" \in DOMAIN up' /\ up'.fate \in {"open", "failed"}
  <2>1. "fate" \in DOMAIN up /\ up.fate \in {"open", "failed"}
    BY <1>1 DEF Core, TypeOK, GeminiNoted
  <2>2. up'.fate = IF failed THEN "failed" ELSE up.fate
    BY <1>2, <2>1
  <2>3. DOMAIN up' = DOMAIN up
    BY <1>2
  <2> QED BY <2>1, <2>2, <2>3
<1>4. DOMAIN acc' = AccFields /\ acc'.failed \in BOOLEAN /\ acc'.status \in {200, 502}
  <2>1. acc' = acc \/ acc' = MarkCaptureDropped(acc)
    BY <1>2
  <2>2. CASE acc' = acc
    BY <2>2 DEF Core, TypeOK
  <2>3. CASE acc' = MarkCaptureDropped(acc)
    <3>1. DOMAIN acc' = AccFields /\ acc'.failed = acc.failed /\ acc'.status = acc.status
      BY <2>3 DEF MarkCaptureDropped, Core, TypeOK, AccFields
    <3> QED BY <3>1 DEF Core, TypeOK
  <2> QED BY <2>1, <2>2, <2>3
<1>5. Saying(<<Plain("content")>>)
  BY SayingOne DEF Plain, Ends
<1>6. Core'
  BY <1>1, <1>2, <1>3, <1>4, <1>5, GeminiGoesOn
<1>7. CaptureKnown'
  <2>1. "capture" \in DOMAIN local /\ IsSequence(local.capture)
    BY <1>1 DEF CaptureKnown
  <2>2. CASE local' = [local EXCEPT !.capture = Append(@, u)]
    <3>1. local'.capture = Append(local.capture, u) /\ "capture" \in DOMAIN local'
      BY <2>1, <2>2
    <3> DEFINE S == Range(local.capture) \cup {u}
    <3>2. local.capture \in Seq(S) /\ u \in S
      BY <2>1, SeqMonotonic DEF IsSequence
    <3> HIDE DEF S
    <3>3. Append(local.capture, u) \in Seq(S)
      BY <3>2, AppendProperties
    <3> QED BY <3>1, <3>3, SequenceOver DEF CaptureKnown
  <2>3. CASE local' = [capture |-> <<>>, truncated |-> TRUE]
    <3>1. local'.capture = <<>> /\ "capture" \in DOMAIN local'
      BY <2>3
    <3> QED BY <3>1, SayingNothing DEF CaptureKnown, Saying
  <2>4. CASE local' = local
    BY <2>1, <2>4 DEF CaptureKnown
  <2> QED BY <1>2, <2>2, <2>3, <2>4
<1> QED BY <1>6, <1>7

LEMMA EndGeminiArrayOK ==
  ASSUME Core, CaptureKnown, EndGeminiArray
  PROVE  Core' /\ CaptureKnown'
<1>1. /\ pipe = "geminiArray" /\ pipe \in NativeGemini /\ phase = "after" /\ Close(<<>>)
      /\ UNCHANGED <<pipe, local>>
  BY DEF EndGeminiArray, NativeGemini, Close
<1>2. CaptureKnown'
  BY <1>1 DEF CaptureKnown
<1>3. IsSequence(<<>>)
  BY SayingNothing DEF Saying
<1>4. DOMAIN acc = AccFields /\ acc.failed \in BOOLEAN /\ acc.status \in {200, 502}
  BY DEF Core, TypeOK
<1>5. CASE writeFailed
  <2>1. acc' = acc
    BY <1>5 DEF EndGeminiArray
  <2>2. Bad => Bad'
    BY <2>1 DEF Bad
  <2> QED BY <1>1, <1>2, <1>3, <1>4, <1>5, <2>1, <2>2, GeminiCloses
<1>6. CASE ~writeFailed
  <2> DEFINE a == IF cut = "error" THEN MarkUpstreamStatus(acc, 502) ELSE acc
  <2>1. acc' = ObserveCapture(a)
    BY <1>6 DEF EndGeminiArray
  <2>2. /\ DOMAIN a = AccFields /\ a.failed = acc.failed
        /\ a.status = IF cut = "error" THEN 502 ELSE acc.status
    BY <1>4 DEF MarkUpstreamStatus, AccFields
  <2> HIDE DEF a
  <2>3. Kept(a, a)
    BY <2>2 DEF Kept
  <2>4. Kept(a, MarkObserved(a))
    BY <2>3, GeminiKeeps
  <2>5. Kept(a, FoldLeft(ApplyGemini, MarkObserved(a), local.capture))
    BY <1>1, <2>4, FoldKeeps DEF CaptureKnown
  <2>6. Kept(a, acc')
    BY <2>1, <2>3, <2>4, <2>5 DEF ObserveCapture
  <2>7. /\ DOMAIN acc' = AccFields /\ acc'.failed = acc.failed
        /\ acc'.status = IF cut = "error" THEN 502 ELSE acc.status
    BY <2>2, <2>6 DEF Kept
  <2>8. /\ acc'.failed \in BOOLEAN /\ acc'.status \in {200, 502}
        /\ Bad => Bad'
        /\ cut = "error" => Bad'
    BY <1>4, <2>7 DEF Bad
  <2>9. DOMAIN acc' = AccFields /\ (cut = "error" /\ ~writeFailed => Bad')
    BY <2>7, <2>8
  <2>10. Core'
    BY <1>1, <1>3, <2>8, <2>9, GeminiCloses
  <2> QED BY <1>2, <2>10
<1> QED BY <1>5, <1>6

LEMMA NativeOK ==
  ASSUME Core, CaptureKnown, StepNative
  PROVE  Core' /\ CaptureKnown' /\ pipe' = pipe /\ pipe \in Natives
<1>1. ASSUME NEW p \in Natives, NativeEvent(p) \/ NativeEnd(p) \/ NativeError(p) \/ NativeGarbage(p)
      PROVE  Core' /\ CaptureKnown' /\ pipe' = pipe /\ pipe \in Natives
  <2>1. pipe = p /\ phase = "loop" /\ UNCHANGED <<pipe, cut, counted, local>>
    BY <1>1 DEF NativeEvent, NativeEnd, NativeError, NativeGarbage, Read
  <2>2. CaptureKnown'
    BY <2>1 DEF CaptureKnown
  <2>3. CASE NativeGarbage(p)
    <3>1. pipe \notin NativeGemini /\ Sends("garbled") /\ Fail(acc)
      BY <2>1, <2>3 DEF NativeGarbage
    <3> QED BY <2>1, <2>2, <3>1, FailsNow
  <2> QED BY <1>1, <2>1, <2>2, <2>3, NativeEventOK, NativeEndOK, NativeErrorOK
<1>2. CASE NamedError
  <2>1. pipe = "anthropic" /\ UNCHANGED <<pipe, local>>
    BY <1>2 DEF NamedError, Read
  <2> QED BY <1>2, <2>1, NativeErrorOK DEF CaptureKnown, Natives
<1>3. CASE GeminiEventError
  <2>1. pipe = "geminiSSE" /\ UNCHANGED <<pipe, local>>
    BY <1>3 DEF GeminiEventError, Read
  <2> QED BY <1>3, <2>1, GeminiEventErrorOK DEF CaptureKnown, Natives, NativeGemini
<1>4. CASE ArrayBytes
  <2>1. pipe = "geminiArray" /\ UNCHANGED pipe
    BY <1>4 DEF ArrayBytes, Read
  <2> QED BY <1>4, <2>1, ArrayBytesOK DEF Natives, NativeGemini
<1>5. CASE EndGeminiSSE
  <2>1. pipe = "geminiSSE" /\ UNCHANGED <<pipe, local>>
    BY <1>5 DEF EndGeminiSSE, Close
  <2> QED BY <1>5, <2>1, EndGeminiSSEOK DEF CaptureKnown, Natives, NativeGemini
<1>6. CASE EndGeminiArray
  <2>1. pipe = "geminiArray" /\ UNCHANGED pipe
    BY <1>6 DEF EndGeminiArray, Close
  <2> QED BY <1>6, <2>1, EndGeminiArrayOK DEF Natives, NativeGemini
<1>7. CASE pipe \in {"openai", "anthropic", "responses"} /\ EndUnlessTerminal
  <2>1. UNCHANGED <<pipe, local>>
    BY <1>7 DEF EndUnlessTerminal, Close
  <2>2. pipe \notin NativeGemini \cup {"geminiToOpenAI"} /\ pipe \in Natives
    BY <1>7 DEF Natives, NativeGemini
  <2>3. Core'
    BY <1>7, <2>2, EndUnlessTerminalOK
  <2> QED BY <2>1, <2>2, <2>3 DEF CaptureKnown
<1> QED BY <1>1, <1>2, <1>3, <1>4, <1>5, <1>6, <1>7 DEF StepNative

-----------------------------------------------------------------------------
(* The specification.                                                       *)

LEMMA InitPipeOK ==
  ASSUME NEW p \in AllPipes, NEW at \in {"open", "loop"}, NEW upstream, NEW closure,
         InitPipe(p, at, upstream, closure),
         "fate" \in DOMAIN upstream, upstream.fate = "open"
  PROVE  Core
<1>1. /\ pipe = p /\ phase = at /\ up = upstream /\ cut = "none"
      /\ terminal = FALSE /\ writeFailed = FALSE /\ gone = FALSE
      /\ out = <<>> /\ acc = Fresh(200)
  BY DEF InitPipe
<1>2. DOMAIN acc = AccFields /\ acc.failed = FALSE /\ acc.status = 200 /\ ~Bad
  BY <1>1 DEF Fresh, AccFields, Bad
<1>3. Saying(out)
  BY <1>1, SayingNothing
<1>4. TypeOK
  BY <1>1, <1>2, <1>3 DEF TypeOK, Saying, Fates
<1>5. Present /\ Undecided /\ Decided /\ GeminiNoted /\ Counted
  BY <1>1, <1>2, <1>3 DEF Present, Undecided, Decided, GeminiNoted, Counted, Saying
<1> QED BY <1>4, <1>5 DEF Core

LEMMA InitOK == Init => IInv
<1> SUFFICES ASSUME Init PROVE IInv
  OBVIOUS
<1>1. InitStream
  BY DEF Init
<1>2. CASE InitAnthropicToOpenAI
  <2>1. pipe = "anthropicToOpenAI"
    BY <1>2 DEF InitAnthropicToOpenAI, InitPipe
  <2> DEFINE upstream == [fate |-> "open", stage |-> "start", calls |-> <<>>, early |-> FALSE]
             closure == [toolCount |-> 0, currentTool |-> NoTool, argsSeen |-> FALSE,
                         stopReason |-> "", sawTool |-> FALSE, input |-> 0, output |-> 0]
  <2>2. InitPipe("anthropicToOpenAI", "loop", upstream, closure)
    BY <1>2 DEF InitAnthropicToOpenAI
  <2>3. "fate" \in DOMAIN upstream /\ upstream.fate = "open" /\ "anthropicToOpenAI" \in AllPipes
    BY DEF AllPipes, OpenAIPipes
  <2> HIDE DEF upstream, closure
  <2>4. Core
    BY <2>2, <2>3, InitPipeOK
  <2> QED BY <2>1, <2>4 DEF IInv, ChoicesKnown, CandidatesKnown, CaptureKnown
<1>3. CASE InitResponsesToOpenAI
  <2>1. pipe = "responsesToOpenAI"
    BY <1>3 DEF InitResponsesToOpenAI, InitPipe
  <2>2. Core
    BY <1>3, InitPipeOK DEF InitResponsesToOpenAI, AllPipes, OpenAIPipes
  <2> QED BY <2>1, <2>2 DEF IInv, ChoicesKnown, CandidatesKnown, CaptureKnown
<1>4. CASE InitOrchestrationToOpenAI
  <2>1. /\ pipe = "orchestrationToOpenAI" /\ local = [finished |-> <<>>]
        /\ up = [fate |-> "open", open |-> {}, over |-> {}, calls |-> <<>>, usage |-> <<>>]
    BY <1>4 DEF InitOrchestrationToOpenAI, InitPipe
  <2>2. Core
    BY <1>4, InitPipeOK DEF InitOrchestrationToOpenAI, AllPipes, OpenAIPipes
  <2>3. ChoicesKnown
    BY <2>1 DEF ChoicesKnown
  <2> QED BY <2>1, <2>2, <2>3 DEF IInv, CandidatesKnown, CaptureKnown
<1>5. CASE InitGeminiToOpenAI
  <2>1. PICK array \in BOOLEAN :
          InitPipe("geminiToOpenAI", "loop",
            [fate |-> "open", array |-> array, begun |-> {}, over |-> {}, calls |-> <<>>,
             usage |-> <<>>, steady |-> TRUE],
            [announced |-> {}, finished |-> {}, toolCounts |-> [c \in Candidates |-> 0],
             last |-> [f \in GeminiFields |-> 0]])
    BY <1>5 DEF InitGeminiToOpenAI
  <2>2. Core
    BY <2>1, InitPipeOK DEF AllPipes, OpenAIPipes
  <2>3. pipe = "geminiToOpenAI" /\ CandidatesKnown
    BY <2>1 DEF InitPipe, CandidatesKnown
  <2> QED BY <2>2, <2>3 DEF IInv, ChoicesKnown, CaptureKnown
<1>6. CASE InitNative
  <2>1. PICK p \in Natives :
          InitPipe(p, "loop", [fate |-> "open", array |-> FALSE, calls |-> <<>>],
                   [capture |-> <<>>, truncated |-> FALSE])
    BY <1>6 DEF InitNative
  <2>2. Core
    BY <2>1, InitPipeOK DEF AllPipes
  <2>3. pipe \in Natives /\ CaptureKnown
    BY <2>1, SayingNothing DEF InitPipe, CaptureKnown, Saying
  <2>4. pipe # "orchestrationToOpenAI" /\ pipe # "geminiToOpenAI"
    BY <2>3 DEF Natives, NativeGemini
  <2> QED BY <2>2, <2>3, <2>4 DEF IInv, ChoicesKnown, CandidatesKnown
<1> QED BY <1>1, <1>2, <1>3, <1>4, <1>5, <1>6 DEF InitStream

LEMMA StepOK == IInv /\ [Next]_vars => IInv'
<1> SUFFICES ASSUME IInv, [Next]_vars PROVE IInv'
  OBVIOUS
<1>1. Core /\ ChoicesKnown /\ CandidatesKnown /\ CaptureKnown
  BY DEF IInv
<1>2. CASE StepAnthropicToOpenAI
  BY <1>1, <1>2, AnthropicToOpenAIOK DEF IInv, ChoicesKnown, CandidatesKnown, CaptureKnown
<1>3. CASE StepResponsesToOpenAI
  BY <1>1, <1>3, ResponsesToOpenAIOK DEF IInv, ChoicesKnown, CandidatesKnown, CaptureKnown
<1>4. CASE StepOrchestrationToOpenAI
  BY <1>1, <1>4, OrchestrationToOpenAIOK DEF IInv, CandidatesKnown, CaptureKnown
<1>5. CASE StepGeminiToOpenAI
  BY <1>1, <1>5, GeminiToOpenAIOK DEF IInv, ChoicesKnown, CaptureKnown
<1>6. CASE StepNative
  <2>1. Core' /\ CaptureKnown' /\ pipe' = pipe /\ pipe \in Natives
    BY <1>1, <1>6, NativeOK
  <2>2. pipe' # "orchestrationToOpenAI" /\ pipe' # "geminiToOpenAI"
    BY <2>1 DEF Natives, NativeGemini
  <2> QED BY <2>1, <2>2 DEF IInv, ChoicesKnown, CandidatesKnown
<1>7. CASE ScannerEnds
  <2>1. Core'
    BY <1>1, <1>7, ScannerEndsOK
  <2>2. /\ cut' \in {"eof", "error"}
        /\ UNCHANGED <<pipe, up, local, terminal, writeFailed>>
    BY <1>7 DEF ScannerEnds
  <2>3. ChoicesKnown' /\ CaptureKnown'
    BY <1>1, <2>2 DEF ChoicesKnown, CaptureKnown
  <2>4. CandidatesKnown'
    BY <1>1, <2>2 DEF CandidatesKnown
  <2> QED BY <2>1, <2>3, <2>4 DEF IInv
<1>8. CASE Commit
  <2>1. Core'
    BY <1>1, <1>8, CommitOK
  <2>2. phase' = "counted" /\ UNCHANGED <<pipe, up, local, cut, terminal, writeFailed>>
    BY <1>8 DEF Commit
  <2>3. ChoicesKnown' /\ CaptureKnown'
    BY <1>1, <2>2 DEF ChoicesKnown, CaptureKnown
  <2>4. CandidatesKnown'
    BY <1>1, <2>2 DEF CandidatesKnown
  <2> QED BY <2>1, <2>3, <2>4 DEF IInv
<1>9. CASE UNCHANGED vars
  BY <1>9 DEF vars, loopVars, IInv, Core, TypeOK, Present, Undecided, Decided, GeminiNoted, Counted,
     ChoicesKnown, CandidatesKnown, CaptureKnown, Bad, UpstreamComplete, EndedOnce, Endings, TellsError
<1> QED BY <1>2, <1>3, <1>4, <1>5, <1>6, <1>7, <1>8, <1>9 DEF Next

(* The types, and what the closures of the pipes know, at every step.       *)
THEOREM Invariance == Spec => []IInv
<1> QED BY InitOK, StepOK, PTL DEF Spec

(* The client of every pipe that has an end to tell is told one, last, and  *)
(* truthfully: the converters and the native pipes of stream/.              *)
THEOREM EndIsTold == Spec => []EndTold
<1>1. IInv => EndTold
  <2> SUFFICES ASSUME IInv, Ended, ~gone, pipe \notin NativeGemini
               PROVE  /\ IF pipe \in OpenAIPipes
                         THEN Cardinality(Positions({"done"})) = 1 /\ LastIs({"done"})
                         ELSE Cardinality(Positions({"stop", "error"})) = 1 /\ LastIs({"stop", "error"})
                      /\ Positions({"error"}) = {} <=> UpstreamComplete
    BY DEF EndTold
  <2>1. EndedOnce(out) /\ (TellsError(out) <=> ~UpstreamComplete) /\ IsSequence(out)
    BY DEF IInv, Core, Decided, Ended, TypeOK
  <2>2. Positions({"error"}) = {} <=> ~TellsError(out)
    BY DEF Positions, TellsError
  <2> QED BY <2>1, <2>2, OneEnd
<1> QED BY <1>1, Invariance, PTL

(* The collector counts as failures the requests whose stream failed, and   *)
(* no other, whatever the pipe and whenever the client leaves.              *)
THEOREM FailureIsCounted == Spec => []FailureCounted
<1>1. IInv => FailureCounted
  <2> SUFFICES ASSUME IInv, Ended
               PROVE  /\ counted = "failure" => ~UpstreamComplete
                      /\ ~gone /\ ~UpstreamComplete /\ pipe \notin NativeGemini /\ up.fate # "named"
                           => counted = "failure"
                      /\ ~gone /\ pipe = "geminiSSE" /\ (up.fate = "failed" \/ cut = "error")
                           => counted = "failure"
                      /\ ~gone /\ pipe = "geminiArray" /\ cut = "error" => counted = "failure"
    BY DEF FailureCounted
  <2>1. phase = "counted" /\ (counted = "failure" <=> Bad)
    BY DEF IInv, Core, Counted, Ended
  <2>2. CASE pipe \notin NativeGemini
    <3>1. Bad => ~UpstreamComplete
      BY <2>1, <2>2 DEF IInv, Core, Decided
    <3>2. ~gone /\ ~UpstreamComplete /\ up.fate # "named" => Bad
      BY <2>1, <2>2 DEF IInv, Core, Decided
    <3> QED BY <2>1, <2>2, <3>1, <3>2 DEF NativeGemini
  <2>3. CASE pipe \in NativeGemini
    <3>1. ~UpstreamComplete
      BY <2>3 DEF IInv, Core, GeminiNoted, UpstreamComplete, NativeGemini
    <3>2. /\ pipe = "geminiSSE" /\ up.fate = "failed" => Bad
          /\ ~gone /\ cut = "error" => Bad
      BY <2>1, <2>3 DEF IInv, Core, GeminiNoted
    <3> QED BY <2>1, <2>3, <3>1, <3>2
  <2> QED BY <2>2, <2>3
<1> QED BY <1>1, Invariance, PTL

-----------------------------------------------------------------------------
(* What the client is told of the usage (UsageToldIsRecorded): the          *)
(* inductive invariant beside IInv.                                         *)

(* The pipes that convert to Chat chunks, and so tell the usage themselves. *)
Converters == OpenAIPipes \ {"openai"}

NoUsage(s) == \A k \in DOMAIN s : s[k].type # "usage"

(* What the last usage chunk of s says is what is counted in tokens.        *)
Agrees(s, tokens) ==
  \A k \in DOMAIN s :
    s[k].type = "usage" /\ (\A j \in DOMAIN s : j > k => s[j].type # "usage") =>
      \A f \in DOMAIN s[k].value : s[k].value[f] = tokens[f]

TokensCounted ==
  pipe \in Converters => /\ {"tokens", "inputSet"} \subseteq DOMAIN acc
                         /\ DOMAIN acc.tokens = Fields
                         /\ \A f \in Fields : acc.tokens[f] \in Nat

(* From message_start on, the closure of the Anthropic converter has the    *)
(* counts that the accumulator has, except for late input.                  *)
StartKnown ==
  pipe = "anthropicToOpenAI" =>
    /\ {"stage", "early"} \subseteq DOMAIN up /\ {"input", "output"} \subseteq DOMAIN local
    /\ IF up.stage = "start"
       THEN acc.tokens["input"] = 0 /\ acc.tokens["output"] = 0
       ELSE /\ up.early => acc.inputSet
            /\ local.input = Tellable["input"] /\ local.output = acc.tokens["output"]

(* A Responses stream has its usage in its last event. *)
NothingCounted ==
  pipe = "responsesToOpenAI" /\ phase \in {"open", "loop"} =>
    \A f \in Fields : acc.tokens[f] = 0

(* The running total of an orchestration stream is counted as it was sent.  *)
SentOr0(f) == IF f \in DOMAIN up.usage THEN up.usage[f] ELSE 0

TotalsKnown ==
  pipe = "orchestrationToOpenAI" =>
    /\ "usage" \in DOMAIN up
    /\ \A f \in Fields : acc.tokens[f] = SentOr0(f)

(* The Gemini converter keeps the largest of each count, the accumulator    *)
(* the largest sum: while no packet leaves out a count that was there       *)
(* before, both are what was sent last.                                     *)
CountsKnown ==
  pipe = "geminiToOpenAI" =>
    /\ {"usage", "steady"} \subseteq DOMAIN up /\ "last" \in DOMAIN local
    /\ DOMAIN local.last = GeminiFields /\ DOMAIN up.usage \subseteq GeminiFields
    /\ \A f \in GeminiFields : local.last[f] \in Nat
    /\ up.steady =>
         /\ \A f \in GeminiFields : local.last[f] = SentOr0(f)
         /\ acc.tokens["input"] = local.last["prompt"]
         /\ acc.tokens["output"] = local.last["candidates"] + local.last["thoughts"]

(* The client has been told nothing of the usage: a native pipe and one     *)
(* that was not asked for it never tell, and the others only at the end.    *)
Silent ==
  \/ pipe \in Natives
  \/ pipe = "orchestrationToOpenAI" /\ ~includeUsage
  \/ pipe # "orchestrationToOpenAI" /\ (phase \in {"open", "loop"} \/ (phase = "after" /\ ~terminal))

(* What it was told last is what is counted now. *)
UsageTold ==
  ~gone => /\ Silent => NoUsage(out)
           /\ (pipe = "geminiToOpenAI" => up.steady) => Agrees(out, Tellable)

UsageInv == TokensCounted /\ StartKnown /\ NothingCounted /\ TotalsKnown /\ CountsKnown /\ UsageTold

-----------------------------------------------------------------------------
(* Chunks of usage, in a stream that has none and at the end of one.        *)

WithoutUsage(s) == IsSequence(s) /\ NoUsage(s)

LEMMA NoneAtAll == WithoutUsage(<<>>)
<1>1. <<>> \in Seq({}) /\ DOMAIN <<>> = {}
  BY EmptySeq
<1> QED BY <1>1, SequenceOver DEF WithoutUsage, NoUsage

LEMMA NoneInOne ==
  ASSUME NEW t, t # "usage", NEW c, NEW i, NEW v
  PROVE  WithoutUsage(<<Chunk(t, c, i, v)>>)
<1> DEFINE e == Chunk(t, c, i, v)
<1>1. <<e>> \in Seq({e})
  OBVIOUS
<1>2. NoUsage(<<e>>)
  BY DEF NoUsage, Chunk
<1> QED BY <1>1, <1>2, SequenceOver DEF WithoutUsage

LEMMA NoneInBoth ==
  ASSUME NEW s, NEW t, WithoutUsage(s), WithoutUsage(t)
  PROVE  WithoutUsage(s \o t)
<1>1. ASSUME NEW k \in DOMAIN (s \o t) PROVE (s \o t)[k].type # "usage"
  BY ConcatPlaces DEF WithoutUsage, NoUsage
<1> QED BY <1>1, ConcatSequences DEF WithoutUsage, NoUsage

LEMMA NoneAgrees ==
  ASSUME NEW s, NEW tokens, NoUsage(s)
  PROVE  Agrees(s, tokens)
BY DEF NoUsage, Agrees

(* Late input is a matter of the Anthropic converter alone. *)
LEMMA OthersTellable ==
  ASSUME pipe # "anthropicToOpenAI", UNCHANGED pipe
  PROVE  Tellable = acc.tokens /\ Tellable' = acc'.tokens
BY DEF Tellable, LateInput

LEMMA TellableStays ==
  ASSUME UNCHANGED pipe, acc'.tokens = acc.tokens,
         pipe = "anthropicToOpenAI" => up'.early = up.early
  PROVE  Tellable' = Tellable
BY DEF Tellable, LateInput

(* More chunks that are no usage change nothing. *)
LEMMA AgreesOn ==
  ASSUME NEW s, NEW w, NEW tokens, IsSequence(s), Agrees(s, tokens), WithoutUsage(w)
  PROVE  Agrees(s \o w, tokens)
<1> SUFFICES ASSUME NEW k \in DOMAIN (s \o w), (s \o w)[k].type = "usage",
                    \A j \in DOMAIN (s \o w) : j > k => (s \o w)[j].type # "usage",
                    NEW f \in DOMAIN (s \o w)[k].value
             PROVE  (s \o w)[k].value[f] = tokens[f]
  BY DEF Agrees
<1>0. IsSequence(w) /\ NoUsage(w)
  BY DEF WithoutUsage
<1>1. k \in DOMAIN s /\ (s \o w)[k] = s[k]
  BY <1>0, ConcatPlaces DEF NoUsage
<1>2. ASSUME NEW j \in DOMAIN s, j > k PROVE s[j].type # "usage"
  <2>1. j \in DOMAIN (s \o w) /\ (s \o w)[j] = s[j]
    BY <1>0, ConcatSequences, SequenceFacts
  <2> QED BY <1>2, <2>1
<1> QED BY <1>1, <1>2 DEF Agrees

(* A usage chunk that tells the tokens makes the stream agree with them.    *)
LEMMA AgreesNow ==
  ASSUME NEW s, NEW v, NEW tokens, IsSequence(s), \A f \in DOMAIN v : v[f] = tokens[f]
  PROVE  /\ IsSequence(s \o <<Chunk("usage", 0, 0, v)>>)
         /\ Agrees(s \o <<Chunk("usage", 0, 0, v)>>, tokens)
<1> DEFINE e == Chunk("usage", 0, 0, v)
           w == <<e>>
<1>1. w \in Seq({e}) /\ Len(w) = 1 /\ w[1] = e /\ e.type = "usage" /\ e.value = v
  BY DEF Chunk
<1>2. IsSequence(w) /\ DOMAIN w = 1..1
  BY <1>1, SequenceOver, SequenceFacts
<1> HIDE DEF e, w
<1>3. ASSUME NEW k \in DOMAIN (s \o w), (s \o w)[k].type = "usage",
             \A j \in DOMAIN (s \o w) : j > k => (s \o w)[j].type # "usage",
             NEW f \in DOMAIN (s \o w)[k].value
      PROVE  (s \o w)[k].value[f] = tokens[f]
  <2>0. /\ Len(s) \in Nat /\ IsSequence(s \o w) /\ Len(s \o w) = Len(s) + Len(w)
        /\ \A j \in 1..Len(w) : (s \o w)[Len(s) + j] = w[j]
    BY <1>2, ConcatSequences, SequenceFacts
  <2>1. /\ DOMAIN (s \o w) = 1..(Len(s) + 1) /\ Len(s) + 1 \in DOMAIN (s \o w)
        /\ (s \o w)[Len(s) + 1] = e
    <3>1. DOMAIN (s \o w) = 1..Len(s \o w)
      BY <2>0, SequenceFacts
    <3> QED BY <1>1, <2>0, <3>1
  <2>2. ~(Len(s) + 1 > k)
    BY <1>1, <1>3, <2>1
  <2>3. k \in 1..(Len(s) + 1)
    BY <1>3, <2>1
  <2>4. k = Len(s) + 1
    BY <2>0, <2>2, <2>3
  <2> QED BY <1>1, <1>3, <2>1, <2>4
<1>4. Agrees(s \o w, tokens) /\ IsSequence(s \o w)
  BY <1>2, <1>3, ConcatSequences DEF Agrees
<1> QED BY <1>4 DEF e, w

LEMMA ErrorsHaveNone == WithoutUsage(ErrorChunks) /\ WithoutUsage(<<>> \o ErrorChunks)
<1>1. /\ "error" # "usage" /\ "done" # "usage"
      /\ <<Plain("error"), Plain("done")>> = <<Plain("error")>> \o <<Plain("done")>>
  OBVIOUS
<1>2. WithoutUsage(<<Plain("error")>>) /\ WithoutUsage(<<Plain("done")>>)
  BY <1>1, NoneInOne DEF Plain
<1>3. WithoutUsage(ErrorChunks)
  BY <1>1, <1>2, NoneInBoth DEF ErrorChunks
<1> QED BY <1>3, NoneAtAll, NoneInBoth

-----------------------------------------------------------------------------
(* Callbacks that write no usage.                                           *)

(* What the client was told still agrees, as long as what is counted stays  *)
(* or nothing has been told.                                                *)
TokensStay ==
  /\ Tellable' = Tellable \/ Silent
  /\ pipe = "geminiToOpenAI" => (up'.steady => up.steady)

LEMMA SaysNoUsage ==
  ASSUME IsSequence(out), UsageTold, UNCHANGED pipe, Silent' => Silent, TokensStay,
         NEW ws, WithoutUsage(ws), ~gone' => ~gone /\ out' = out \o ws
  PROVE  UsageTold'
<1> SUFFICES ASSUME ~gone'
             PROVE  /\ Silent' => NoUsage(out')
                    /\ (pipe' = "geminiToOpenAI" => up'.steady) => Agrees(out', Tellable')
  BY DEF UsageTold
<1>1. ~gone /\ out' = out \o ws
  OBVIOUS
<1>2. ASSUME Silent PROVE NoUsage(out')
  BY <1>1, <1>2, NoneInBoth DEF UsageTold, WithoutUsage
<1>3. ASSUME ~Silent, pipe = "geminiToOpenAI" => up'.steady
      PROVE  Agrees(out', Tellable')
  <2>1. Agrees(out, Tellable) /\ Tellable' = Tellable
    BY <1>1, <1>3 DEF UsageTold, TokensStay
  <2> QED BY <1>1, <2>1, AgreesOn
<1> QED BY <1>2, <1>3, NoneAgrees

LEMMA RepliesNoUsage ==
  ASSUME TypeOK, UsageTold, UNCHANGED <<pipe, includeUsage>>, phase \in {"open", "loop"}, TokensStay,
         NEW ws, WithoutUsage(ws), NEW term \in BOOLEAN, NEW goOn \in BOOLEAN,
         Reply(ws, term, goOn)
  PROVE  UsageTold'
<1>1. ~gone' => ~gone /\ out' = out \o ws
  BY ReplyFacts DEF WithoutUsage
<1>2. IsSequence(out) /\ (Silent' => Silent)
  BY DEF TypeOK, Silent
<1> QED BY <1>1, <1>2, SaysNoUsage

LEMMA ClosesNoUsage ==
  ASSUME TypeOK, UsageTold, phase = "after", acc'.tokens = acc.tokens,
         NEW ws, WithoutUsage(ws), Close(ws)
  PROVE  UsageTold'
<1>1. /\ ~gone' => ~gone /\ out' = out \o ws
      /\ phase' = "closed" /\ UNCHANGED <<pipe, up>>
  BY CloseFacts DEF WithoutUsage
<1>2. UNCHANGED includeUsage
  BY DEF Close
<1>3. IsSequence(out) /\ (Silent' => Silent)
  BY <1>1, <1>2 DEF TypeOK, Silent
<1>4. TokensStay
  BY <1>1, TellableStays DEF TokensStay
<1> QED BY <1>1, <1>3, <1>4, SaysNoUsage

-----------------------------------------------------------------------------
(* Usage through PipeAnthropicToOpenAI: the closure and the accumulator     *)
(* read the same blocks and keep the same counts.                           *)

LEMMA TokensOfNote ==
  ASSUME NEW a, DOMAIN a = AccFields
  PROVE  /\ NoteStreamError(a).tokens = a.tokens /\ NoteStreamError(a).inputSet = a.inputSet
         /\ MarkObserved(a).tokens = a.tokens /\ MarkObserved(a).inputSet = a.inputSet
         /\ DOMAIN NoteStreamError(a) = AccFields /\ DOMAIN MarkObserved(a) = AccFields
BY DEF NoteStreamError, MarkObserved, AccFields

LEMMA LargerFacts ==
  ASSUME NEW m \in Nat, NEW n \in Nat
  PROVE  Larger(m, n) \in Nat /\ (n >= m => Larger(m, n) = n)
BY DEF Larger

(* What is kept when no count changes. *)
LEMMA CountsStay ==
  ASSUME UsageInv, UNCHANGED <<pipe, local>>, DOMAIN acc' = AccFields,
         acc'.tokens = acc.tokens, acc'.inputSet = acc.inputSet,
         phase' \in {"open", "loop"} => phase \in {"open", "loop"},
         NEW fate, up' = up \/ Sends(fate)
  PROVE  TokensCounted' /\ StartKnown' /\ NothingCounted' /\ TotalsKnown' /\ CountsKnown'
<1>1. /\ TokensCounted' /\ NothingCounted'
  BY DEF UsageInv, TokensCounted, NothingCounted, AccFields
<1>2. /\ DOMAIN up' = DOMAIN up
      /\ \A x \in DOMAIN up \ {"fate"} : up'[x] = up[x]
  BY DEF Sends
<1>3. StartKnown'
  <2> SUFFICES ASSUME pipe = "anthropicToOpenAI"
               PROVE  StartKnown'
    BY DEF StartKnown
  <2>1. StartKnown /\ {"stage", "early"} \subseteq DOMAIN up
    BY DEF UsageInv, StartKnown
  <2>2. up'.stage = up.stage /\ up'.early = up.early
    BY <1>2, <2>1
  <2>3. Tellable' = Tellable
    BY <2>2, TellableStays
  <2> QED BY <1>2, <2>1, <2>2, <2>3 DEF StartKnown
<1>4. TotalsKnown'
  <2> SUFFICES ASSUME pipe = "orchestrationToOpenAI"
               PROVE  TotalsKnown'
    BY DEF TotalsKnown
  <2>1. TotalsKnown /\ "usage" \in DOMAIN up
    BY DEF UsageInv, TotalsKnown
  <2>2. up'.usage = up.usage
    BY <1>2, <2>1
  <2> QED BY <1>2, <2>1, <2>2 DEF TotalsKnown, SentOr0
<1>5. CountsKnown'
  <2> SUFFICES ASSUME pipe = "geminiToOpenAI"
               PROVE  CountsKnown'
    BY DEF CountsKnown
  <2>1. CountsKnown /\ "usage" \in DOMAIN up /\ "steady" \in DOMAIN up
    BY DEF UsageInv, CountsKnown
  <2>2. up'.usage = up.usage /\ up'.steady = up.steady
    BY <1>2, <2>1
  <2> QED BY <1>2, <2>1, <2>2 DEF CountsKnown, SentOr0
<1> QED BY <1>1, <1>3, <1>4, <1>5

(* A frame that ends the stream with an error. *)
LEMMA FailKeepsUsage ==
  ASSUME Core, UsageInv, UNCHANGED <<pipe, local, includeUsage>>, phase \in {"open", "loop"},
         NEW fate, Sends(fate), NEW a, DOMAIN a = AccFields,
         a.tokens = acc.tokens, a.inputSet = acc.inputSet,
         NEW ws, WithoutUsage(ws), FailAfter(ws, a)
  PROVE  UsageInv'
<1>1. /\ acc'.tokens = acc.tokens /\ acc'.inputSet = acc.inputSet /\ DOMAIN acc' = AccFields
      /\ Reply(ws \o ErrorChunks, TRUE, FALSE)
  BY TokensOfNote DEF FailAfter
<1>2. TokensCounted' /\ StartKnown' /\ NothingCounted' /\ TotalsKnown' /\ CountsKnown'
  BY <1>1, CountsStay
<1>3. TokensStay
  <2>1. ASSUME pipe = "geminiToOpenAI" PROVE up'.steady = up.steady
    BY <2>1 DEF UsageInv, CountsKnown, Sends
  <2>2. ASSUME pipe = "anthropicToOpenAI" PROVE up'.early = up.early
    BY <2>2 DEF UsageInv, StartKnown, Sends
  <2> QED BY <1>1, <2>1, <2>2, TellableStays DEF TokensStay
<1>4. WithoutUsage(ws \o ErrorChunks)
  BY ErrorsHaveNone, NoneInBoth
<1>5. UsageTold'
  BY <1>1, <1>3, <1>4, RepliesNoUsage DEF Core, UsageInv
<1> QED BY <1>2, <1>5 DEF UsageInv

(* A way out of the pipe without usage. *)
LEMMA CloseKeepsUsage ==
  ASSUME Core, UsageInv, phase = "after",
         \/ Close(<<>>) /\ UNCHANGED acc
         \/ Close(ErrorChunks) /\ acc' = NoteStreamError(acc)
  PROVE  UsageInv'
<1>1. PICK ws \in {<<>>, ErrorChunks} : Close(ws)
  OBVIOUS
<1>2. WithoutUsage(ws)
  BY <1>1, NoneAtAll, ErrorsHaveNone
<1>3. /\ UNCHANGED <<pipe, local, up>> /\ phase' = "closed"
      /\ DOMAIN acc = AccFields /\ DOMAIN acc' = AccFields
      /\ acc'.tokens = acc.tokens /\ acc'.inputSet = acc.inputSet
  <2>1. DOMAIN acc = AccFields
    BY DEF Core, TypeOK
  <2> QED BY <1>1, <2>1, TokensOfNote DEF Close
<1>4. TokensCounted' /\ StartKnown' /\ NothingCounted' /\ TotalsKnown' /\ CountsKnown'
  BY <1>3, CountsStay
<1>5. UsageTold'
  BY <1>1, <1>2, <1>3, ClosesNoUsage DEF Core, UsageInv
<1> QED BY <1>4, <1>5 DEF UsageInv

LEMMA EndKeepsUsage ==
  ASSUME Core, UsageInv, EndUnlessTerminal
  PROVE  UsageInv'
BY CloseKeepsUsage DEF EndUnlessTerminal

(* A frame that writes no usage and changes no count. *)
LEMMA WriteKeepsUsage ==
  ASSUME Core, UsageInv, UNCHANGED <<pipe, includeUsage>>, phase \in {"open", "loop"},
         Tellable' = Tellable, pipe # "geminiToOpenAI", NEW ws, WithoutUsage(ws), Write(ws)
  PROVE  UsageTold'
BY RepliesNoUsage DEF Core, UsageInv, TokensStay, Write

(* An accumulator with all its counts, and a block of some.                 *)
Counts(a) == /\ DOMAIN a = AccFields /\ DOMAIN a.tokens = Fields
             /\ \A f \in Fields : a.tokens[f] \in Nat
IsBlock(u) == DOMAIN u \subseteq Fields /\ \A f \in DOMAIN u : u[f] \in Nat

LEMMA FirstBlock ==
  ASSUME NEW a, Counts(a), a.tokens["input"] = 0, a.tokens["output"] = 0, NEW u, IsBlock(u)
  PROVE  LET b == ApplyAnthropic(a, u, TRUE)
         IN  /\ Counts(b) /\ (DOMAIN u \ {"output"} # {} => b.inputSet)
             /\ b.tokens["input"] = Count(u, "input")
             /\ b.tokens["output"] = Count(u, "output")
<1> DEFINE parts == DOMAIN u \ {"output"}
           T == [f \in Fields |-> IF f \in parts THEN u[f]
                                  ELSE IF f = "output" /\ f \in DOMAIN u
                                       THEN Larger(a.tokens[f], u[f])
                                  ELSE a.tokens[f]]
           b == ApplyAnthropic(a, u, TRUE)
<1>1. CASE DOMAIN u = {}
  <2>1. b = MarkObserved(a)
    BY <1>1 DEF ApplyAnthropic
  <2>2. Counts(b) /\ b.tokens = a.tokens
    BY <2>1, TokensOfNote DEF Counts
  <2> QED BY <1>1, <2>2 DEF Count
<1>2. CASE DOMAIN u # {}
  <2>1. b = [a EXCEPT !.tokens = T, !.inputSet = @ \/ parts # {}, !.hasUsage = TRUE, !.observed = TRUE]
    BY <1>2 DEF ApplyAnthropic
  <2>2. DOMAIN b = AccFields /\ b.tokens = T /\ (parts # {} => b.inputSet)
    <3> HIDE DEF parts, T
    <3> QED BY <2>1 DEF AccFields, Counts
  <2>3. DOMAIN T = Fields /\ \A f \in Fields : T[f] \in Nat
    BY LargerFacts DEF Fields, Counts, IsBlock
  <2>4. T["input"] = Count(u, "input")
    BY DEF Fields, Count
  <2>5. T["output"] = Count(u, "output")
    <3>1. CASE "output" \in DOMAIN u
      <4>1. T["output"] = Larger(a.tokens["output"], u["output"]) /\ u["output"] \in Nat
        BY <3>1 DEF Fields, IsBlock
      <4> QED BY <3>1, <4>1, LargerFacts DEF Count
    <3>2. CASE "output" \notin DOMAIN u
      BY <3>2 DEF Fields, Count
    <3> QED BY <3>1, <3>2
  <2> HIDE DEF T
  <2> QED BY <2>2, <2>3, <2>4, <2>5 DEF Counts
<1> QED BY <1>1, <1>2

LEMMA LaterBlock ==
  ASSUME NEW a, Counts(a), NEW u, IsBlock(u)
  PROVE  LET b == ApplyAnthropic(a, u, FALSE)
         IN  /\ Counts(b)
             /\ a.inputSet => b.inputSet /\ b.tokens["input"] = a.tokens["input"]
             /\ b.tokens["output"] = IF "output" \in DOMAIN u
                                     THEN Larger(a.tokens["output"], u["output"])
                                     ELSE a.tokens["output"]
<1> DEFINE parts == IF ~a.inputSet THEN DOMAIN u \ {"output"} ELSE {}
           T == [f \in Fields |-> IF f \in parts THEN u[f]
                                  ELSE IF f = "output" /\ f \in DOMAIN u
                                       THEN Larger(a.tokens[f], u[f])
                                  ELSE a.tokens[f]]
           b == ApplyAnthropic(a, u, FALSE)
<1>1. CASE DOMAIN u = {}
  <2>1. b = MarkObserved(a)
    BY <1>1 DEF ApplyAnthropic
  <2> QED BY <1>1, <2>1, TokensOfNote DEF Counts
<1>2. CASE DOMAIN u # {}
  <2>1. b = [a EXCEPT !.tokens = T, !.inputSet = @ \/ parts # {}, !.hasUsage = TRUE, !.observed = TRUE]
    BY <1>2 DEF ApplyAnthropic
  <2>2. DOMAIN b = AccFields /\ b.tokens = T /\ (a.inputSet => b.inputSet)
    <3> HIDE DEF parts, T
    <3> QED BY <2>1 DEF AccFields, Counts
  <2>3. DOMAIN T = Fields /\ \A f \in Fields : T[f] \in Nat
    BY LargerFacts DEF Fields, Counts, IsBlock
  <2>4. /\ a.inputSet => T["input"] = a.tokens["input"]
        /\ T["output"] = IF "output" \in DOMAIN u
                         THEN Larger(a.tokens["output"], u["output"])
                         ELSE a.tokens["output"]
    BY DEF Fields
  <2> HIDE DEF T, parts
  <2> QED BY <2>2, <2>3, <2>4 DEF Counts
<1> QED BY <1>1, <1>2

LEMMA ConcatAssociates ==
  ASSUME NEW r, NEW s, NEW t, IsSequence(r), IsSequence(s), IsSequence(t)
  PROVE  r \o (s \o t) = (r \o s) \o t
<1> DEFINE S == Range(r) \cup Range(s) \cup Range(t)
<1>1. r \in Seq(S) /\ s \in Seq(S) /\ t \in Seq(S)
  BY DEF IsSequence
<1> HIDE DEF S
<1> QED BY <1>1, ConcatAssociative

(* The end of a stream, with what is counted by then in it. *)
LEMMA EndsTold ==
  ASSUME IsSequence(out), pipe \notin Natives, UNCHANGED pipe,
         ~Silent', NEW before, WithoutUsage(before), NEW end, WithoutUsage(end),
         NEW v, \A f \in DOMAIN v : v[f] = Tellable'[f],
         NEW told, told = <<Chunk("usage", 0, 0, v)>>,
         ~gone' => out' = out \o ((before \o told) \o end)
  PROVE  UsageTold'
<1>1. IsSequence(before) /\ IsSequence(end) /\ IsSequence(told)
  <2>1. told \in Seq({Chunk("usage", 0, 0, v)})
    OBVIOUS
  <2> QED BY <2>1, SequenceOver DEF WithoutUsage
<1>2. IsSequence(out \o before) /\ IsSequence(before \o told)
  BY <1>1, ConcatSequences
<1>3. out \o ((before \o told) \o end) = ((out \o before) \o told) \o end
  <2>1. out \o ((before \o told) \o end) = (out \o (before \o told)) \o end
    BY <1>1, <1>2, ConcatAssociates
  <2>2. out \o (before \o told) = (out \o before) \o told
    BY <1>1, ConcatAssociates
  <2> QED BY <2>1, <2>2
<1>4. IsSequence((out \o before) \o told) /\ Agrees((out \o before) \o told, Tellable')
  BY <1>2, AgreesNow
<1>5. Agrees(((out \o before) \o told) \o end, Tellable')
  BY <1>4, AgreesOn
<1> QED BY <1>3, <1>5 DEF UsageTold

LEMMA RepliesUsage ==
  ASSUME TypeOK, UNCHANGED pipe, pipe \notin Natives \cup {"orchestrationToOpenAI"},
         NEW before, WithoutUsage(before), NEW v, NEW end, WithoutUsage(end),
         \A f \in DOMAIN v : v[f] = Tellable'[f],
         Reply((before \o <<Chunk("usage", 0, 0, v)>>) \o end, TRUE, FALSE)
  PROVE  UsageTold'
<1> DEFINE told == <<Chunk("usage", 0, 0, v)>>
<1>1. IsSequence((before \o told) \o end)
  <2>1. told \in Seq({Chunk("usage", 0, 0, v)})
    OBVIOUS
  <2> QED BY <2>1, SequenceOver, ConcatSequences DEF WithoutUsage
<1>2. terminal' = TRUE /\ phase' = "after" /\ (~gone' => out' = out \o ((before \o told) \o end))
  BY <1>1, ReplyFacts
<1>3. ~Silent' /\ IsSequence(out) /\ pipe \notin Natives
  BY <1>2 DEF Silent, TypeOK
<1>4. told = <<Chunk("usage", 0, 0, v)>>
  OBVIOUS
<1> HIDE DEF told
<1> QED BY <1>2, <1>3, <1>4, EndsTold

LEMMA AnthropicUsageKept ==
  ASSUME Core, UsageInv, StepAnthropicToOpenAI
  PROVE  UsageInv'
<1>1. /\ pipe = "anthropicToOpenAI" /\ UNCHANGED <<pipe, includeUsage>>
      /\ pipe \in Converters /\ pipe \notin Natives
  BY DEF StepAnthropicToOpenAI, MessageStart, TextStart, TextDelta, ToolStart, ToolDelta, BlockStop,
         MessageDelta, MessageStop, AnthropicError, AnthropicGarbage, Event, Read,
         EndUnlessTerminal, Close, NativeGemini, Natives, OpenAIPipes, Converters
<1>2. ASSUME NEW stage, Event(stage)
      PROVE  phase = "loop" /\ up.stage = stage
  BY <1>2 DEF Event, Read
<1>3. /\ Counts(acc) /\ DOMAIN acc = AccFields
      /\ {"stage", "early"} \subseteq DOMAIN up /\ {"input", "output"} \subseteq DOMAIN local
      /\ up.stage = "start" => acc.tokens["input"] = 0 /\ acc.tokens["output"] = 0
      /\ up.stage # "start" => /\ up.early => acc.inputSet
                               /\ local.input = Tellable["input"]
                               /\ local.output = acc.tokens["output"]
      /\ UsageTold
  BY <1>1 DEF Core, TypeOK, UsageInv, TokensCounted, StartKnown, Counts
<1>4. NothingCounted' /\ TotalsKnown' /\ CountsKnown'
  BY <1>1 DEF NothingCounted, TotalsKnown, CountsKnown
(* Blocks of content keep the counts. *)
<1>5. ASSUME NEW stage, stage # "start", Event(stage), acc' = MarkObserved(acc),
             {"stage", "early"} \subseteq DOMAIN up', up'.stage # "start", up'.early = up.early,
             {"input", "output"} \subseteq DOMAIN local',
             local'.input = local.input, local'.output = local.output,
             NEW ws, WithoutUsage(ws), Write(ws)
      PROVE  UsageInv'
  <2>1. acc'.tokens = acc.tokens /\ acc'.inputSet = acc.inputSet /\ DOMAIN acc' = AccFields
    BY <1>3, <1>5, TokensOfNote
  <2>2. Tellable' = Tellable
    BY <1>1, <1>5, <2>1, TellableStays
  <2>3. UsageTold'
    BY <1>1, <1>2, <1>5, <2>2, WriteKeepsUsage
  <2>4. TokensCounted' /\ StartKnown'
    BY <1>2, <1>3, <1>5, <2>1, <2>2 DEF TokensCounted, StartKnown, AccFields, Counts
  <2> QED BY <1>4, <2>3, <2>4 DEF UsageInv
<1>6. CASE MessageStart
  <2>1. PICK u \in BlocksOf({"input", "output", "read"}, MaxCount) :
          /\ acc' = ApplyAnthropic(acc, u, TRUE)
          /\ local' = [local EXCEPT !.input = Count(u, "input"), !.output = Count(u, "output")]
          /\ up' = [up EXCEPT !.stage = "idle", !.early = DOMAIN u \ {"output"} # {}]
    BY <1>6 DEF MessageStart
  <2>2. IsBlock(u)
    <3>1. PICK S \in SUBSET {"input", "output", "read"} : u \in [S -> 0..MaxCount]
      BY <2>1 DEF BlocksOf
    <3> QED BY <3>1, PipeAssumption DEF Fields, IsBlock
  <2>3. phase = "loop" /\ up.stage = "start" /\ Write(<<Plain("role")>>)
    BY <1>2, <1>6 DEF MessageStart
  <2>4. /\ Counts(acc') /\ (DOMAIN u \ {"output"} # {} => acc'.inputSet)
        /\ acc'.tokens["input"] = Count(u, "input") /\ acc'.tokens["output"] = Count(u, "output")
    <3>1. acc' = ApplyAnthropic(acc, u, TRUE)
      BY <2>1
    <3>2. LET b == ApplyAnthropic(acc, u, TRUE)
          IN  /\ Counts(b) /\ (DOMAIN u \ {"output"} # {} => b.inputSet)
              /\ b.tokens["input"] = Count(u, "input") /\ b.tokens["output"] = Count(u, "output")
      <4>1. Counts(acc) /\ acc.tokens["input"] = 0 /\ acc.tokens["output"] = 0 /\ IsBlock(u)
        BY <1>3, <2>2, <2>3
      <4> HIDE <1>3, <2>2
      <4> QED BY <4>1, FirstBlock
    <3> QED BY <3>1, <3>2, Zenon
  <2>5. DOMAIN local' = DOMAIN local /\ local'.input = Count(u, "input") /\ local'.output = Count(u, "output")
    BY <1>3, <2>1
  <2>6. DOMAIN up' = DOMAIN up /\ up'.stage = "idle" /\ up'.early = (DOMAIN u \ {"output"} # {})
    BY <1>3, <2>1
  <2>7. Tellable'["input"] = Count(u, "input")
    <3>1. CASE up'.early
      BY <2>4, <3>1 DEF Tellable, LateInput
    <3>2. CASE ~up'.early
      <4>1. Count(u, "input") = 0
        <5>1. DOMAIN u \ {"output"} = {}
          BY ONLY <2>6, <3>2, Zenon
        <5> QED BY <5>1 DEF Count
      <4>2. Tellable' = [acc'.tokens EXCEPT !["input"] = 0] /\ "input" \in DOMAIN acc'.tokens
        BY <1>1, <2>4, <3>2 DEF Tellable, LateInput, Counts, Fields
      <4> QED BY <4>1, <4>2
    <3> QED BY <3>1, <3>2
  <2>8. TokensCounted' /\ StartKnown'
    BY <1>3, <2>4, <2>5, <2>6, <2>7 DEF TokensCounted, StartKnown, AccFields, Counts
  <2>9. UsageTold'
    <3>1. Silent /\ TokensStay
      BY <1>1, <2>3 DEF Silent, TokensStay
    <3>2. WithoutUsage(<<Plain("role")>>)
      BY NoneInOne DEF Plain
    <3> QED BY <1>1, <1>3, <2>3, <3>1, <3>2, RepliesNoUsage DEF Write, Core
  <2> QED BY <1>4, <2>8, <2>9 DEF UsageInv
<1>7. CASE TextStart
  <2>1. DOMAIN up' = DOMAIN up /\ up'.stage = "text" /\ up'.early = up.early
    BY <1>3, <1>7 DEF TextStart, Moves
  <2> QED BY <1>3, <1>5, <1>7, <2>1, NoneAtAll DEF TextStart
<1>8. CASE TextDelta
  <2>1. WithoutUsage(<<Plain("content")>>)
    BY NoneInOne DEF Plain
  <2>2. up' = up /\ up.stage = "text"
    BY <1>2, <1>8 DEF TextDelta
  <2> QED BY <1>3, <1>5, <1>8, <2>1, <2>2 DEF TextDelta
<1>9. CASE ToolStart
  <2>1. WithoutUsage(<<ToolChunk("tool", local.toolCount, 0)>>)
    BY NoneInOne DEF ToolChunk
  <2>2. DOMAIN up' = DOMAIN up /\ up'.stage = "tool" /\ up'.early = up.early
    BY <1>3, <1>9 DEF ToolStart
  <2>3. DOMAIN local' = DOMAIN local /\ local'.input = local.input /\ local'.output = local.output
    BY <1>9 DEF ToolStart
  <2> QED BY <1>3, <1>5, <1>9, <2>1, <2>2, <2>3 DEF ToolStart
<1>10. CASE ToolDelta
  <2>1. WithoutUsage(<<ToolChunk("args", local.currentTool, "part")>>)
    BY NoneInOne DEF ToolChunk
  <2>2. DOMAIN up' = DOMAIN up /\ up'.stage = "tool" /\ up'.early = up.early
    BY <1>2, <1>3, <1>10 DEF ToolDelta
  <2>3. DOMAIN local' = DOMAIN local /\ local'.input = local.input /\ local'.output = local.output
    BY <1>10 DEF ToolDelta
  <2> QED BY <1>3, <1>5, <1>10, <2>1, <2>2, <2>3 DEF ToolDelta
<1>11. CASE BlockStop
  <2> DEFINE ws == IF local.currentTool # NoTool /\ ~local.argsSeen
                   THEN <<ToolChunk("args", local.currentTool, "empty")>> ELSE <<>>
  <2>1. WithoutUsage(ws)
    BY NoneInOne, NoneAtAll DEF ToolChunk
  <2>2. DOMAIN up' = DOMAIN up /\ up'.stage = "idle" /\ up'.early = up.early
    BY <1>3, <1>11 DEF BlockStop, Moves
  <2>3. DOMAIN local' = DOMAIN local /\ local'.input = local.input /\ local'.output = local.output
    <3>1. local' = [local EXCEPT !.currentTool = NoTool]
      BY <1>11 DEF BlockStop
    <3> QED BY <3>1
  <2>4. Write(ws) /\ acc' = MarkObserved(acc)
    BY <1>11 DEF BlockStop
  <2>5. Event("text") \/ Event("tool")
    BY <1>11 DEF BlockStop
  <2> HIDE DEF ws
  <2> QED BY <1>3, <1>5, <2>1, <2>2, <2>3, <2>4, <2>5
<1>12. CASE MessageDelta
  <2>1. PICK u \in BlocksOf({"input", "output"}, MaxCount), reason \in {"tool_use", "end_turn", "max_tokens"} :
          /\ acc' = ApplyAnthropic(acc, u, FALSE)
          /\ local' = [local EXCEPT
                         !.stopReason = reason,
                         !.output = IF "output" \in DOMAIN u THEN Larger(@, u["output"]) ELSE @]
    BY <1>12 DEF MessageDelta
  <2>2. IsBlock(u)
    <3>1. PICK S \in SUBSET {"input", "output"} : u \in [S -> 0..MaxCount]
      BY <2>1 DEF BlocksOf
    <3> QED BY <3>1, PipeAssumption DEF Fields, IsBlock
  <2>3. phase = "loop" /\ up.stage # "start" /\ Moves("tail") /\ Write(<<>>)
    BY <1>2, <1>12 DEF MessageDelta
  <2>4. /\ Counts(acc')
        /\ acc.inputSet => acc'.inputSet /\ acc'.tokens["input"] = acc.tokens["input"]
        /\ acc'.tokens["output"] = IF "output" \in DOMAIN u
                                   THEN Larger(acc.tokens["output"], u["output"])
                                   ELSE acc.tokens["output"]
    BY <1>3, <2>1, <2>2, LaterBlock
  <2>5. /\ DOMAIN local' = DOMAIN local /\ local'.input = local.input
        /\ local'.output = acc'.tokens["output"]
    BY <1>3, <2>1, <2>3, <2>4
  <2>6. DOMAIN up' = DOMAIN up /\ up'.stage = "tail" /\ up'.early = up.early
    BY <1>3, <2>3 DEF Moves
  <2>7. Tellable'["input"] = Tellable["input"]
    <3>1. CASE up.early
      BY <1>3, <2>3, <2>4, <2>6, <3>1 DEF Tellable, LateInput
    <3>2. CASE ~up.early
      <4>1. "input" \in DOMAIN acc.tokens /\ "input" \in DOMAIN acc'.tokens
        BY <1>3, <2>4 DEF Counts, Fields
      <4> QED BY <1>1, <2>6, <3>2, <4>1 DEF Tellable, LateInput
    <3> QED BY <3>1, <3>2
  <2>9. TokensCounted' /\ StartKnown'
    BY <1>3, <2>3, <2>4, <2>5, <2>6, <2>7 DEF TokensCounted, StartKnown, AccFields, Counts
  <2>8. UsageTold'
    <3>1. Silent /\ TokensStay
      BY <1>1, <2>3 DEF Silent, TokensStay
    <3> QED BY <1>1, <1>3, <2>3, <3>1, NoneAtAll, RepliesNoUsage DEF Write, Core
  <2> QED BY <1>4, <2>8, <2>9 DEF UsageInv
<1>13. CASE MessageStop
  <2> DEFINE v == [input |-> local.input, output |-> local.output]
             finish == <<Chunk("finish", 0, 0, openAIFinishReason)>>
             done == <<Plain("done")>>
             ws == finish \o UsageChunk(local.input, local.output) \o done
  <2>1. /\ phase = "loop" /\ up.stage # "start" /\ Sends("complete") /\ local' = local
        /\ acc' = MarkObserved(acc) /\ Reply(ws, TRUE, FALSE)
    <3>1. Event("idle") \/ Event("tail")
      BY <1>13 DEF MessageStop
    <3>2. Sends("complete") /\ local' = local /\ acc' = MarkObserved(acc)
      BY <1>13 DEF MessageStop
    <3>3. Reply(ws, TRUE, FALSE)
      BY <1>13 DEF MessageStop
    <3>4. phase = "loop" /\ up.stage # "start"
      BY <1>2, <3>1
    <3> QED BY <3>2, <3>3, <3>4
  <2>2. acc'.tokens = acc.tokens /\ acc'.inputSet = acc.inputSet /\ DOMAIN acc' = AccFields
    BY <1>3, <2>1, TokensOfNote
  <2>3. phase' \in {"open", "loop"} => phase \in {"open", "loop"}
    BY <2>1
  <2>4. TokensCounted' /\ StartKnown'
    BY <1>1, <2>1, <2>2, <2>3, CountsStay
  <2>8. Tellable' = Tellable
    <3>1. up'.early = up.early
      BY <1>3, <2>1 DEF Sends
    <3> QED BY <1>1, <2>2, <3>1, TellableStays
  <2>5. WithoutUsage(finish) /\ WithoutUsage(done)
    BY NoneInOne DEF Plain
  <2>6. CASE ~includeUsage
    <3>1. UsageChunk(local.input, local.output) = <<>>
      BY <2>6 DEF UsageChunk
    <3>2. WithoutUsage(ws)
      BY <2>5, <3>1, NoneAtAll, NoneInBoth
    <3>3. TokensStay
      BY <1>1, <2>8 DEF TokensStay
    <3>4. UsageTold'
      BY <1>1, <1>3, <2>1, <3>2, <3>3, RepliesNoUsage DEF Core
    <3> QED BY <1>4, <2>4, <3>4 DEF UsageInv
  <2>7. CASE includeUsage
    <3>1. UsageChunk(local.input, local.output) = <<Chunk("usage", 0, 0, v)>>
      BY <2>7 DEF UsageChunk
    <3>2. \A f \in DOMAIN v : v[f] = Tellable'[f]
      <4>1. Tellable["output"] = acc.tokens["output"]
        BY <1>3 DEF Tellable, Counts, Fields
      <4> QED BY <1>3, <2>1, <2>8, <4>1
    <3>3. UsageTold'
      <4>1. Reply((finish \o <<Chunk("usage", 0, 0, v)>>) \o done, TRUE, FALSE)
        BY <2>1, <3>1
      <4> HIDE DEF v, finish, done
      <4> QED BY <1>1, <1>3, <2>1, <2>5, <3>2, <4>1, RepliesUsage DEF Core
    <3> QED BY <1>4, <2>4, <3>3 DEF UsageInv
  <2> QED BY <2>6, <2>7
<1>14. CASE AnthropicError
  <2>1. phase = "loop" /\ local' = local
    BY <1>14 DEF AnthropicError, Read
  <2>2. CASE Sends("failed") /\ Fail(NoteStreamError(acc))
    BY <1>1, <1>3, <2>1, <2>2, TokensOfNote, NoneAtAll, FailKeepsUsage DEF Fail
  <2>3. CASE Sends("named") /\ Fail(MarkObserved(acc))
    BY <1>1, <1>3, <2>1, <2>3, TokensOfNote, NoneAtAll, FailKeepsUsage DEF Fail
  <2> QED BY <1>14, <2>2, <2>3 DEF AnthropicError
<1>15. CASE AnthropicGarbage
  <2>1. phase = "loop" /\ local' = local /\ Sends("garbled") /\ FailAfter(<<>>, acc)
    BY <1>15 DEF AnthropicGarbage, Read, Fail
  <2> QED BY <1>1, <1>3, <2>1, NoneAtAll, FailKeepsUsage
<1>16. CASE EndUnlessTerminal
  BY <1>16, EndKeepsUsage
<1> QED BY <1>6, <1>7, <1>8, <1>9, <1>10, <1>11, <1>12, <1>13, <1>14, <1>15, <1>16
        DEF StepAnthropicToOpenAI

-----------------------------------------------------------------------------
(* Usage through PipeResponsesToOpenAI: nothing is counted before the last  *)
(* event, whose block is both told and counted.                             *)

LEMMA OpenAIUsage ==
  ASSUME NEW a, Counts(a), NEW u, IsBlock(u)
  PROVE  LET b == ApplyOpenAI(a, u)
         IN  /\ Counts(b)
             /\ DOMAIN u \cap {"input", "output"} # {} =>
                  \A f \in Fields : b.tokens[f] = IF f \in DOMAIN u THEN Larger(a.tokens[f], u[f])
                                                  ELSE a.tokens[f]
             /\ DOMAIN u = {} => b.tokens = a.tokens
<1> DEFINE b == ApplyOpenAI(a, u)
           T == [f \in Fields |-> IF f \in DOMAIN u THEN Larger(a.tokens[f], u[f]) ELSE a.tokens[f]]
<1>1. CASE DOMAIN u \subseteq {"write"}
  <2>1. b = MarkObserved(a)
    BY <1>1 DEF ApplyOpenAI
  <2> QED BY <1>1, <2>1, TokensOfNote DEF Counts
<1>2. CASE ~(DOMAIN u \subseteq {"write"})
  <2>1. b = [a EXCEPT !.tokens = T, !.hasUsage = TRUE, !.observed = TRUE]
    BY <1>2 DEF ApplyOpenAI, Counts
  <2>2. DOMAIN b = AccFields /\ b.tokens = T
    BY <2>1 DEF AccFields, Counts
  <2>3. DOMAIN T = Fields /\ \A f \in Fields : T[f] \in Nat
    BY LargerFacts DEF Counts, IsBlock
  <2> QED BY <1>2, <2>2, <2>3 DEF Counts
<1> QED BY <1>1, <1>2

LEMMA ResponsesUsageKept ==
  ASSUME Core, UsageInv, StepResponsesToOpenAI
  PROVE  UsageInv'
<1>1. /\ pipe = "responsesToOpenAI" /\ UNCHANGED <<pipe, includeUsage>>
      /\ pipe \in Converters /\ pipe \notin Natives
  BY DEF StepResponsesToOpenAI, OpenTurn, OutputDelta, ItemRepeated, ArgumentsUnknown, ItemAdded,
         ArgumentsDelta, ArgumentsTooLong, ItemDone, Completed, ResponseFailed, ResponsesGarbage,
         ResponsesEvent, Read, EndUnlessTerminal, Close, NativeGemini, Natives, OpenAIPipes, Converters
<1>20. Tellable = acc.tokens /\ Tellable' = acc'.tokens
  BY <1>1, OthersTellable
<1>2. ASSUME ResponsesEvent PROVE phase = "loop"
  BY <1>2 DEF ResponsesEvent, Read
<1>3. Counts(acc) /\ DOMAIN acc = AccFields /\ UsageTold
  BY <1>1 DEF Core, TypeOK, UsageInv, TokensCounted, Counts
<1>4. phase \in {"open", "loop"} => \A f \in Fields : acc.tokens[f] = 0
  BY <1>1 DEF UsageInv, NothingCounted
<1>5. StartKnown' /\ TotalsKnown' /\ CountsKnown'
  BY <1>1 DEF StartKnown, TotalsKnown, CountsKnown
<1>6. ASSUME phase \in {"open", "loop"}, acc' = acc, NEW ws, WithoutUsage(ws), Write(ws)
      PROVE  UsageInv'
  <2>1. UsageTold'
    BY <1>1, <1>6, <1>20, WriteKeepsUsage
  <2>2. TokensCounted' /\ NothingCounted'
    BY <1>1, <1>4, <1>6 DEF TokensCounted, NothingCounted, UsageInv
  <2> QED BY <1>5, <2>1, <2>2 DEF UsageInv
<1>7. ASSUME ResponsesEvent, NEW fate, Sends(fate),
             Fail(acc) \/ \E i \in Items : FailAfter(<<Chunk("args", 0, local.toolIndex[i], "part")>>, acc)
      PROVE  UsageInv'
  <2>1. PICK ws : WithoutUsage(ws) /\ FailAfter(ws, acc)
    BY <1>7, NoneInOne, NoneAtAll DEF Fail
  <2>2. Reply(ws \o ErrorChunks, TRUE, FALSE) /\ acc' = NoteStreamError(acc)
    BY <2>1 DEF FailAfter
  <2>3. WithoutUsage(ws \o ErrorChunks) /\ TokensStay /\ acc'.tokens = acc.tokens /\ DOMAIN acc' = AccFields
    BY <1>1, <1>3, <2>1, <2>2, ErrorsHaveNone, NoneInBoth, TokensOfNote, <1>20 DEF TokensStay
  <2>4. UsageTold'
    BY <1>1, <1>2, <1>3, <1>7, <2>2, <2>3, RepliesNoUsage DEF Core
  <2>5. TokensCounted' /\ NothingCounted'
    BY <1>2, <1>3, <1>4, <1>7, <2>3 DEF TokensCounted, NothingCounted, Counts, AccFields
  <2> QED BY <1>5, <2>4, <2>5 DEF UsageInv
<1>8. CASE OpenTurn
  BY <1>6, <1>8, NoneInOne DEF OpenTurn, Plain
<1>9. CASE OutputDelta
  BY <1>2, <1>6, <1>9, NoneInOne DEF OutputDelta, Plain
<1>10. CASE ItemRepeated
  BY <1>2, <1>6, <1>10, NoneAtAll DEF ItemRepeated
<1>11. CASE ArgumentsUnknown
  BY <1>7, <1>11 DEF ArgumentsUnknown
<1>12. ASSUME NEW i \in Items, ItemAdded(i) PROVE UsageInv'
  BY <1>2, <1>6, <1>12, NoneInOne DEF ItemAdded
<1>13. ASSUME NEW i \in Items, ArgumentsDelta(i) PROVE UsageInv'
  BY <1>2, <1>6, <1>13, NoneInOne DEF ArgumentsDelta
<1>14. ASSUME NEW i \in Items, ArgumentsTooLong(i) PROVE UsageInv'
  BY <1>7, <1>14 DEF ArgumentsTooLong
<1>15. ASSUME NEW i \in Items, ItemDone(i) PROVE UsageInv'
  <2>1. ResponsesEvent
    BY <1>15 DEF ItemDone
  <2>2. (Write(<<>>) /\ acc' = acc) \/ (Sends("garbled") /\ Fail(acc))
    BY <1>15 DEF ItemDone
  <2> QED BY <1>2, <1>6, <1>7, <2>1, <2>2, NoneAtAll
<1>16. CASE Completed
  <2>1. ResponsesEvent /\ phase = "loop"
    BY <1>2, <1>16 DEF Completed
  <2>2. PICK ending \in {"completed", "incomplete"}, u \in [{"input", "output"} -> 0..MaxCount] :
          /\ Reply(<<Chunk("finish", 0, 0, responsesFinishReason(ending))>>
                     \o (IF includeUsage THEN <<Chunk("usage", 0, 0, u)>> ELSE <<>>)
                     \o <<Plain("done")>>, TRUE, FALSE)
          /\ acc' = IF gone' /\ Len(out') = Len(out) THEN acc ELSE ApplyOpenAI(acc, u)
    BY <1>16 DEF Completed
  <2>3. IsBlock(u) /\ DOMAIN u = {"input", "output"}
    BY PipeAssumption DEF IsBlock, Fields
  <2> DEFINE b == ApplyOpenAI(acc, u)
  <2>4. /\ Counts(b)
        /\ \A f \in Fields : b.tokens[f] = IF f \in DOMAIN u THEN Larger(acc.tokens[f], u[f])
                                           ELSE acc.tokens[f]
    BY <1>3, <2>3, OpenAIUsage
  <2>5. \A f \in DOMAIN u : b.tokens[f] = u[f]
    <3> SUFFICES ASSUME NEW f \in DOMAIN u PROVE b.tokens[f] = u[f]
      OBVIOUS
    <3>1. f \in Fields /\ u[f] \in Nat /\ acc.tokens[f] = 0
      BY <1>4, <2>1, <2>3 DEF IsBlock
    <3> HIDE DEF b
    <3>2. b.tokens[f] = Larger(0, u[f])
      BY <2>4, <3>1
    <3>3. 0 \in Nat /\ u[f] >= 0
      BY <3>1
    <3> QED BY ONLY <3>1, <3>2, <3>3, LargerFacts
  <2> HIDE DEF b
  <2>6. acc' = acc \/ acc' = b
    BY <2>2 DEF b
  <2>7. ~gone' => acc' = b
    BY <2>2 DEF b
  <2>8. TokensCounted'
    BY <1>3, <2>4, <2>6 DEF TokensCounted, Counts, AccFields
  <2> DEFINE finish == <<Chunk("finish", 0, 0, responsesFinishReason(ending))>>
             told == <<Chunk("usage", 0, 0, u)>>
             done == <<Plain("done")>>
             ws == finish \o (IF includeUsage THEN told ELSE <<>>) \o done
  <2>9. WithoutUsage(finish) /\ WithoutUsage(done)
    BY NoneInOne DEF Plain
  <2>10. IsSequence(told)
    <3>1. told \in Seq({Chunk("usage", 0, 0, u)})
      OBVIOUS
    <3> QED BY <3>1, SequenceOver
  <2>11. Reply(ws, TRUE, FALSE)
    BY <2>2
  <2>12. told = <<Chunk("usage", 0, 0, u)>>
    OBVIOUS
  <2> HIDE DEF finish, told, done
  <2>13. IsSequence(ws)
    BY <2>9, <2>10, NoneAtAll, ConcatSequences DEF WithoutUsage
  <2>14. phase' = "after" /\ terminal' = TRUE /\ (~gone' => ~gone /\ out' = out \o ws)
    BY <2>11, <2>13, ReplyFacts DEF Core
  <2>15. NothingCounted'
    BY <2>14 DEF NothingCounted
  <2>16. UsageTold'
    <3>1. ~Silent' /\ IsSequence(out)
      BY <1>1, <2>14 DEF Silent, Core, TypeOK
    <3>2. CASE gone'
      BY <3>2 DEF UsageTold
    <3>3. CASE ~gone' /\ includeUsage
      BY <1>1, <2>5, <2>7, <2>9, <2>12, <2>14, <3>1, <3>3, <1>20, EndsTold
    <3>4. CASE ~gone' /\ ~includeUsage
      <4>1. WithoutUsage(ws)
        BY <2>9, <3>4, NoneAtAll, NoneInBoth
      <4>2. NoUsage(out)
        BY <1>1, <1>3, <2>1, <2>14, <3>4 DEF UsageTold, Silent
      <4>3. NoUsage(out')
        BY <2>14, <3>1, <3>4, <4>1, <4>2, NoneInBoth DEF WithoutUsage
      <4> QED BY <3>1, <4>3, NoneAgrees DEF UsageTold
    <3> QED BY <3>2, <3>3, <3>4
  <2> QED BY <1>5, <2>8, <2>15, <2>16 DEF UsageInv
<1>17. CASE ResponseFailed
  BY <1>7, <1>17 DEF ResponseFailed
<1>18. CASE ResponsesGarbage
  BY <1>7, <1>18 DEF ResponsesGarbage
<1>19. CASE EndUnlessTerminal
  BY <1>19, EndKeepsUsage
<1> QED BY <1>8, <1>9, <1>10, <1>11, <1>12, <1>13, <1>14, <1>15, <1>16, <1>17, <1>18, <1>19
        DEF StepResponsesToOpenAI

-----------------------------------------------------------------------------
(* Usage through PipeOrchestrationToOpenAI: what is counted is the last     *)
(* value the upstream sent of each count, and so is what is told.           *)

LEMMA BlockFacts ==
  ASSUME NEW F, NEW u \in Running(BlocksOf(F, MaxCount))
  PROVE  /\ DOMAIN u \subseteq F /\ \A f \in DOMAIN u : u[f] \in Nat
         /\ \A f \in DOMAIN u : f \in DOMAIN up.usage => u[f] >= up.usage[f]
<1>1. PICK S \in SUBSET F : u \in [S -> 0..MaxCount]
  BY DEF Running, BlocksOf
<1>2. DOMAIN u \subseteq F /\ \A f \in DOMAIN u : u[f] \in Nat
  BY <1>1, PipeAssumption
<1>3. \A f \in DOMAIN u : f \in DOMAIN up.usage => u[f] >= up.usage[f]
  BY DEF Running
<1> QED BY <1>2, <1>3

LEMMA OrchestrationUsageKept ==
  ASSUME Core, UsageInv, StepOrchestrationToOpenAI
  PROVE  UsageInv'
<1>1. /\ pipe = "orchestrationToOpenAI" /\ UNCHANGED <<pipe, includeUsage>>
      /\ pipe \in Converters /\ pipe \notin Natives
  BY DEF StepOrchestrationToOpenAI, NoFinalResult, OrchestrationChunk, OrchestrationDone,
         OrchestrationError, OrchestrationGarbage, OrchestrationFrame, Read,
         EndUnlessTerminal, Close, NativeGemini, Natives, OpenAIPipes, Converters
<1>20. Tellable = acc.tokens /\ Tellable' = acc'.tokens
  BY <1>1, OthersTellable
<1>2. ASSUME OrchestrationFrame PROVE phase = "loop" /\ ~gone
  BY <1>2 DEF OrchestrationFrame, Read, Core, Present
<1>3. /\ Counts(acc) /\ DOMAIN acc = AccFields /\ UsageTold /\ IsSequence(out)
      /\ "usage" \in DOMAIN up /\ \A f \in Fields : acc.tokens[f] = SentOr0(f)
  BY <1>1 DEF Core, TypeOK, UsageInv, TokensCounted, TotalsKnown, Counts
<1>4. StartKnown' /\ NothingCounted' /\ CountsKnown'
  BY <1>1 DEF StartKnown, NothingCounted, CountsKnown
<1>5. ASSUME OrchestrationFrame, local' = local, NEW fate, Sends(fate), Fail(acc)
      PROVE  UsageInv'
  BY <1>1, <1>2, <1>3, <1>5, NoneAtAll, FailKeepsUsage DEF Fail
<1>6. CASE NoFinalResult
  <2>1. OrchestrationFrame /\ UNCHANGED <<up, local, acc>> /\ Write(<<>>)
    BY <1>6 DEF NoFinalResult
  <2>2. UsageTold'
    BY <1>1, <1>2, <1>20, <2>1, NoneAtAll, WriteKeepsUsage
  <2>3. TokensCounted' /\ TotalsKnown'
    BY <1>1, <2>1 DEF TokensCounted, TotalsKnown, SentOr0, UsageInv
  <2> QED BY <1>4, <2>2, <2>3 DEF UsageInv
<1>7. CASE OrchestrationChunk
  <2> DEFINE content(choices) == IF choices # {} THEN <<Chunk("content", 0, 0, 0)>> ELSE <<>>
             told(u) == IF includeUsage /\ DOMAIN u # {} THEN <<Chunk("usage", 0, 0, u)>> ELSE <<>>
  <2>1. PICK choices \in SUBSET ChoiceIndexes, over \in SUBSET ChoiceIndexes,
             u \in Running(BlocksOf({"input", "output"}, MaxCount)) :
          /\ up' = [up EXCEPT !.open = @ \cup choices, !.over = @ \cup over, !.usage = Latest(u)]
          /\ acc' = ApplyOpenAI(acc, u)
          /\ Write(content(choices) \o told(u))
    BY <1>7 DEF OrchestrationChunk
  <2>2. phase = "loop" /\ ~gone
    BY <1>2, <1>7 DEF OrchestrationChunk
  <2>3. /\ DOMAIN u \subseteq {"input", "output"} /\ \A f \in DOMAIN u : u[f] \in Nat
        /\ \A f \in DOMAIN u : f \in DOMAIN up.usage => u[f] >= up.usage[f]
    BY BlockFacts
  <2>4. IsBlock(u)
    BY <2>3 DEF IsBlock, Fields
  <2>5. Counts(acc')
    BY <1>3, <2>1, <2>4, OpenAIUsage
  <2>6. \A f \in Fields : acc'.tokens[f] = IF f \in DOMAIN u THEN u[f] ELSE acc.tokens[f]
    <3>1. CASE DOMAIN u = {}
      <4>1. ApplyOpenAI(acc, u).tokens = acc.tokens
        BY <1>3, <2>4, <3>1, OpenAIUsage
      <4> QED BY <2>1, <3>1, <4>1
    <3>2. CASE DOMAIN u # {}
      <4>1. DOMAIN u \cap {"input", "output"} # {}
        BY <2>3, <3>2
      <4>2. \A f \in Fields : ApplyOpenAI(acc, u).tokens[f]
                                = IF f \in DOMAIN u THEN Larger(acc.tokens[f], u[f]) ELSE acc.tokens[f]
        BY <1>3, <2>4, <4>1, OpenAIUsage
      <4>3. ASSUME NEW f \in Fields, f \in DOMAIN u PROVE Larger(acc.tokens[f], u[f]) = u[f]
        <5>1. u[f] \in Nat /\ acc.tokens[f] \in Nat /\ acc.tokens[f] = SentOr0(f)
          BY <1>3, <2>3, <4>3 DEF Counts
        <5>2. u[f] >= acc.tokens[f]
          BY <2>3, <4>3, <5>1 DEF SentOr0
        <5> QED BY <5>1, <5>2, LargerFacts
      <4> QED BY <2>1, <4>2, <4>3
    <3> QED BY <3>1, <3>2
  <2>7. TokensCounted'
    BY <2>5 DEF TokensCounted, Counts, AccFields
  <2>8. TotalsKnown'
    <3>1. "usage" \in DOMAIN up' /\ up'.usage = Latest(u)
      BY <1>3, <2>1
    <3>2. ASSUME NEW f \in Fields PROVE acc'.tokens[f] = SentOr0(f)'
      BY <1>3, <2>6, <3>1 DEF SentOr0, Latest
    <3> QED BY <3>1, <3>2 DEF TotalsKnown
  <2>9. WithoutUsage(content(choices)) /\ IsSequence(told(u))
    <3>1. <<Chunk("usage", 0, 0, u)>> \in Seq({Chunk("usage", 0, 0, u)})
      OBVIOUS
    <3> QED BY <3>1, NoneInOne, NoneAtAll, SequenceOver DEF WithoutUsage
  <2>10. told(u) = IF includeUsage /\ DOMAIN u # {} THEN <<Chunk("usage", 0, 0, u)>> ELSE <<>>
    OBVIOUS
  <2> HIDE DEF content, told
  <2>11. ~gone' => ~gone /\ out' = out \o (content(choices) \o told(u))
    <3>1. IsSequence(content(choices) \o told(u))
      BY <2>9, ConcatSequences DEF WithoutUsage
    <3> QED BY <2>1, <3>1, WriteFacts DEF Core
  <2>12. UsageTold'
    <3>1. CASE gone'
      BY <3>1 DEF UsageTold
    <3>2. CASE ~gone' /\ includeUsage /\ DOMAIN u # {}
      <4>1. \A f \in DOMAIN u : u[f] = acc'.tokens[f]
        BY <2>3, <2>6 DEF Fields
      <4>2. WithoutUsage(<<>>)
        BY NoneAtAll
      <4>3. (content(choices) \o told(u)) \o <<>> = content(choices) \o told(u)
        <5>1. IsSequence(content(choices) \o told(u))
          BY <2>9, ConcatSequences DEF WithoutUsage
        <5> QED BY <5>1, ConcatEmptySeq DEF IsSequence
      <4>4. ~Silent'
        BY <1>1, <3>2 DEF Silent
      <4>5. out' = out \o ((content(choices) \o told(u)) \o <<>>)
        BY <2>11, <3>2, <4>3
      <4>6. told(u) = <<Chunk("usage", 0, 0, u)>>
        BY <2>10, <3>2
      <4> QED BY <1>1, <1>3, <2>9, <4>1, <4>2, <4>4, <4>5, <4>6, <1>20, EndsTold
    <3>3. CASE ~gone' /\ includeUsage /\ DOMAIN u = {}
      <4>1. WithoutUsage(content(choices) \o told(u))
        BY <2>9, <2>10, <3>3, NoneAtAll, NoneInBoth
      <4>2. acc'.tokens = acc.tokens
        <5>1. DOMAIN acc'.tokens = Fields /\ DOMAIN acc.tokens = Fields
          BY <1>3, <2>5 DEF Counts
        <5>2. ApplyOpenAI(acc, u).tokens = acc.tokens
          BY <1>3, <2>4, <3>3, OpenAIUsage
        <5> QED BY <2>1, <5>2
      <4>3. (Silent' => Silent) /\ TokensStay
        BY <1>1, <1>20, <4>2 DEF Silent, TokensStay
      <4> QED BY <1>1, <1>3, <2>11, <4>1, <4>3, SaysNoUsage
    <3>4. CASE ~gone' /\ ~includeUsage
      <4>1. WithoutUsage(content(choices) \o told(u))
        BY <2>9, <2>10, <3>4, NoneAtAll, NoneInBoth
      <4>2. (Silent' => Silent) /\ TokensStay
        BY <1>1, <3>4 DEF Silent, TokensStay
      <4> QED BY <1>1, <1>3, <2>11, <4>1, <4>2, SaysNoUsage
    <3> QED BY <3>1, <3>2, <3>3, <3>4
  <2> QED BY <1>4, <2>7, <2>8, <2>12 DEF UsageInv
<1>8. CASE OrchestrationDone
  <2>1. OrchestrationFrame /\ local' = local
    BY <1>8 DEF OrchestrationDone
  <2>2. PICK fate : Sends(fate)
    BY <1>8 DEF OrchestrationDone
  <2>3. CASE Fail(acc)
    BY <1>5, <2>1, <2>2, <2>3
  <2>4. CASE Reply(<<Plain("done")>>, TRUE, FALSE) /\ acc' = acc
    <3>1. phase' \in {"open", "loop"} => phase \in {"open", "loop"}
      BY <1>2, <2>1
    <3>2. TokensCounted' /\ TotalsKnown'
      BY <1>1, <1>3, <2>1, <2>2, <2>4, <3>1, CountsStay
    <3>3. WithoutUsage(<<Plain("done")>>) /\ TokensStay
      BY <1>1, <2>4, <1>20, NoneInOne DEF Plain, TokensStay
    <3>4. UsageTold'
      BY <1>1, <1>2, <1>3, <2>1, <2>4, <3>3, RepliesNoUsage DEF Core
    <3> QED BY <1>4, <3>2, <3>4 DEF UsageInv
  <2> QED BY <1>8, <2>3, <2>4 DEF OrchestrationDone
<1>9. CASE OrchestrationError
  BY <1>5, <1>9 DEF OrchestrationError
<1>10. CASE OrchestrationGarbage
  BY <1>5, <1>10 DEF OrchestrationGarbage
<1>11. CASE EndUnlessTerminal
  BY <1>11, EndKeepsUsage
<1> QED BY <1>6, <1>7, <1>8, <1>9, <1>10, <1>11 DEF StepOrchestrationToOpenAI

-----------------------------------------------------------------------------
(* Usage through PipeGeminiToOpenAI: while every block has all the counts   *)
(* of those before it, the largest of each count is its last one, and what  *)
(* the accumulator keeps as output is the sum of the last two.              *)

LEMMA PacketHasNone ==
  ASSUME NEW n \in Nat, NEW order, NEW part, NEW over
  PROVE  WithoutUsage(FlattenSeq([k \in 1..n |-> CandidateChunks(order[k], part, over)]))
<1>1. {"usage"} \cap Adds = {}
  BY DEF Adds
<1> DEFINE ws == FlattenSeq([k \in 1..n |-> CandidateChunks(order[k], part, over)])
<1>2. Avoids(ws, {"usage"})
  BY <1>1, PacketAvoids
<1> HIDE DEF ws
<1>3. WithoutUsage(ws)
  BY <1>2 DEF Avoids, WithoutUsage, NoUsage
<1> QED BY <1>3 DEF ws

LEMMA GeminiUsage ==
  ASSUME NEW a, Counts(a), NEW u, DOMAIN u \subseteq GeminiFields, \A f \in DOMAIN u : u[f] \in Nat
  PROVE  LET b == ApplyGemini(a, u)
         IN  /\ Counts(b)
             /\ DOMAIN u = {} => b.tokens = a.tokens
             /\ DOMAIN u # {} =>
                  /\ b.tokens["input"] = IF "prompt" \in DOMAIN u
                                         THEN Larger(a.tokens["input"], u["prompt"])
                                         ELSE a.tokens["input"]
                  /\ b.tokens["output"] = Larger(a.tokens["output"], GeminiOutput(u))
<1> DEFINE b == ApplyGemini(a, u)
<1>1. CASE DOMAIN u = {}
  <2>1. b = MarkObserved(a)
    BY <1>1 DEF ApplyGemini
  <2> QED BY <1>1, <2>1, TokensOfNote DEF Counts
<1>2. CASE DOMAIN u # {}
  <2> DEFINE input == IF "prompt" \in DOMAIN u THEN Larger(a.tokens["input"], u["prompt"])
                      ELSE a.tokens["input"]
             output == Larger(a.tokens["output"], GeminiOutput(u))
             read == IF "cached" \in DOMAIN u THEN Larger(a.tokens["read"], u["cached"])
                     ELSE a.tokens["read"]
             T == [a.tokens EXCEPT !["input"] = input, !["output"] = output, !["read"] = read]
  <2>1. b.tokens = T /\ DOMAIN b = DOMAIN a
    <3>1. b = [a EXCEPT
                 !.tokens["input"] = IF "prompt" \in DOMAIN u THEN Larger(@, u["prompt"]) ELSE @,
                 !.tokens["output"] = Larger(@, GeminiOutput(u)),
                 !.tokens["read"] = IF "cached" \in DOMAIN u THEN Larger(@, u["cached"]) ELSE @,
                 !.hasUsage = TRUE, !.observed = TRUE]
      BY <1>2, Zenon DEF ApplyGemini
    <3> HIDE DEF b
    <3>2. DOMAIN a = AccFields /\ "tokens" \in AccFields /\ DOMAIN a.tokens = Fields
          /\ "input" \in Fields /\ "output" \in Fields /\ "read" \in Fields
      BY DEF Counts, AccFields, Fields
    <3>3. b.tokens = T
      BY <3>1, <3>2 DEF AccFields, Fields
    <3> QED BY <3>1, <3>3
  <2>2. input \in Nat /\ output \in Nat /\ read \in Nat
    <3>1. a.tokens["input"] \in Nat /\ a.tokens["output"] \in Nat /\ a.tokens["read"] \in Nat
      BY DEF Counts, Fields
    <3>2. GeminiOutput(u) \in Nat
      BY DEF GeminiOutput
    <3> QED BY <3>1, <3>2, LargerFacts
  <2> HIDE DEF input, output, read, b
  <2>3. /\ DOMAIN T = Fields /\ T["input"] = input /\ T["output"] = output
        /\ \A f \in Fields : T[f] \in Nat
    BY <2>2 DEF Counts, Fields
  <2> HIDE DEF T
  <2>4. Counts(b) /\ b.tokens["input"] = input /\ b.tokens["output"] = output
    BY <2>1, <2>3 DEF Counts
  <2> QED BY <1>2, <2>4 DEF b, input, output
<1> QED BY <1>1, <1>2

(* No block, or one with all counts that were sent before. *)
LEMMA SteadyCounts ==
  ASSUME CountsKnown, pipe = "geminiToOpenAI", Counts(acc), Counts(acc'),
         NEW u \in Running(BlocksOf(GeminiFields, MaxCount)),
         acc' = ApplyGemini(acc, u), UNCHANGED pipe,
         "usage" \in DOMAIN up', "steady" \in DOMAIN up', "last" \in DOMAIN local',
         up'.usage = Latest(u),
         up'.steady = (up.steady /\ (DOMAIN u = {} \/ DOMAIN up.usage \subseteq DOMAIN u)),
         local'.last = [f \in GeminiFields |->
                          IF f \in DOMAIN u THEN Larger(local.last[f], u[f]) ELSE local.last[f]]
  PROVE  CountsKnown'
<1>1. /\ DOMAIN local.last = GeminiFields /\ DOMAIN up.usage \subseteq GeminiFields
      /\ \A f \in GeminiFields : local.last[f] \in Nat
      /\ up.steady =>
           /\ \A f \in GeminiFields : local.last[f] = SentOr0(f)
           /\ acc.tokens["input"] = local.last["prompt"]
           /\ acc.tokens["output"] = local.last["candidates"] + local.last["thoughts"]
  BY DEF CountsKnown
<1>2. /\ DOMAIN u \subseteq GeminiFields /\ \A f \in DOMAIN u : u[f] \in Nat
      /\ \A f \in DOMAIN u : f \in DOMAIN up.usage => u[f] >= up.usage[f]
  BY BlockFacts
<1>3. /\ DOMAIN u = {} => acc'.tokens = acc.tokens
      /\ DOMAIN u # {} =>
           /\ acc'.tokens["input"] = IF "prompt" \in DOMAIN u
                                     THEN Larger(acc.tokens["input"], u["prompt"])
                                     ELSE acc.tokens["input"]
           /\ acc'.tokens["output"] = Larger(acc.tokens["output"], GeminiOutput(u))
  BY <1>2, GeminiUsage
<1>4. /\ DOMAIN local'.last = GeminiFields /\ DOMAIN up'.usage \subseteq GeminiFields
      /\ \A f \in GeminiFields : local'.last[f] \in Nat
  <2>1. DOMAIN local'.last = GeminiFields
    OBVIOUS
  <2>2. DOMAIN up'.usage \subseteq GeminiFields
    BY <1>1, <1>2 DEF Latest
  <2>3. ASSUME NEW f \in GeminiFields PROVE local'.last[f] \in Nat
    <3>1. local.last[f] \in Nat
      BY <1>1
    <3>2. CASE f \in DOMAIN u
      <4>1. u[f] \in Nat
        BY <1>2, <3>2
      <4> QED BY <3>1, <3>2, <4>1, LargerFacts
    <3>3. CASE f \notin DOMAIN u
      BY <3>1, <3>3
    <3> QED BY <3>2, <3>3
  <2> QED BY <2>1, <2>2, <2>3
<1>5. ASSUME up'.steady
      PROVE  /\ \A f \in GeminiFields : local'.last[f] = SentOr0(f)'
             /\ acc'.tokens["input"] = local'.last["prompt"]
             /\ acc'.tokens["output"] = local'.last["candidates"] + local'.last["thoughts"]
  <2>1. up.steady /\ (DOMAIN u = {} \/ DOMAIN up.usage \subseteq DOMAIN u)
    BY <1>5
  <2>2. CASE DOMAIN u = {}
    <3>1. \A f \in GeminiFields : local'.last[f] = local.last[f] /\ SentOr0(f)' = SentOr0(f)
      BY <2>2 DEF SentOr0, Latest
    <3>2. "prompt" \in GeminiFields /\ "candidates" \in GeminiFields /\ "thoughts" \in GeminiFields
      BY DEF GeminiFields
    <3> QED BY <1>1, <1>3, <2>1, <2>2, <3>1, <3>2
  <2>3. CASE DOMAIN u # {} /\ DOMAIN up.usage \subseteq DOMAIN u
    <3>1. ASSUME NEW f \in GeminiFields
          PROVE  /\ local'.last[f] = SentOr0(f)' /\ local'.last[f] >= local.last[f]
                 /\ local'.last[f] = IF f \in DOMAIN u THEN u[f] ELSE 0
      <4>1. local.last[f] = SentOr0(f) /\ local.last[f] \in Nat
        BY <1>1, <2>1
      <4>2. CASE f \in DOMAIN u
        <5>1. u[f] \in Nat /\ u[f] >= local.last[f]
          BY <1>2, <4>1, <4>2 DEF SentOr0
        <5>2. Larger(local.last[f], u[f]) = u[f]
          BY <4>1, <5>1, LargerFacts
        <5>3. SentOr0(f)' = u[f]
          BY <4>2 DEF SentOr0, Latest
        <5> QED BY <4>2, <5>1, <5>2, <5>3
      <4>3. CASE f \notin DOMAIN u
        <5>1. f \notin DOMAIN up.usage /\ local.last[f] = 0
          BY <2>3, <4>1, <4>3 DEF SentOr0
        <5>2. SentOr0(f)' = 0
          BY <4>3, <5>1 DEF SentOr0, Latest
        <5> QED BY <4>3, <5>1, <5>2
      <4> QED BY <4>2, <4>3
    <3>2. "prompt" \in GeminiFields /\ "candidates" \in GeminiFields /\ "thoughts" \in GeminiFields
      BY DEF GeminiFields
    <3>3. acc'.tokens["input"] = local'.last["prompt"]
      BY <1>1, <1>3, <2>1, <2>3, <3>2
    <3>4. GeminiOutput(u) = local'.last["candidates"] + local'.last["thoughts"]
      BY <3>1, <3>2 DEF GeminiOutput
    <3>5. acc.tokens["output"] \in Nat /\ GeminiOutput(u) \in Nat /\ GeminiOutput(u) >= acc.tokens["output"]
      <4>1. acc.tokens["output"] = local.last["candidates"] + local.last["thoughts"]
        BY <1>1, <2>1
      <4>2. /\ local.last["candidates"] \in Nat /\ local.last["thoughts"] \in Nat
            /\ local'.last["candidates"] \in Nat /\ local'.last["thoughts"] \in Nat
            /\ local'.last["candidates"] >= local.last["candidates"]
            /\ local'.last["thoughts"] >= local.last["thoughts"]
        BY <1>1, <1>4, <3>1, <3>2
      <4> QED BY <3>4, <4>1, <4>2
    <3>6. acc'.tokens["output"] = GeminiOutput(u)
      BY <1>3, <2>3, <3>5, LargerFacts
    <3> QED BY <3>1, <3>3, <3>4, <3>6
  <2> QED BY <2>1, <2>2, <2>3
<1> QED BY <1>4, <1>5 DEF CountsKnown

(* A step that neither writes nor observes. *)
LEMMA NothingSaid ==
  ASSUME UsageInv, UNCHANGED <<pipe, includeUsage, up, local, acc, gone, out, terminal>>,
         \/ phase = "loop" /\ phase' = "after"
         \/ phase = "closed" /\ phase' = "counted"
         \/ phase' = phase
  PROVE  UsageInv'
<1>1. Silent' => Silent
  BY DEF Silent
<1>2. UsageTold'
  BY <1>1, TellableStays DEF UsageInv, UsageTold
<1> QED BY <1>2, TellableStays DEF UsageInv, TokensCounted, StartKnown, NothingCounted, TotalsKnown, CountsKnown, SentOr0

LEMMA GeminiUsageKept ==
  ASSUME Core, UsageInv, StepGeminiToOpenAI
  PROVE  UsageInv'
<1>1. /\ pipe = "geminiToOpenAI" /\ UNCHANGED <<pipe, includeUsage>>
      /\ pipe \in Converters /\ pipe \notin Natives
  BY DEF StepGeminiToOpenAI, GeminiPacket, GeminiError, GeminiGarbage, GeminiPacketRead, Read,
         ArrayCloses, EndGemini, Close, NativeGemini, Natives, OpenAIPipes, Converters
<1>20. Tellable = acc.tokens /\ Tellable' = acc'.tokens
  BY <1>1, OthersTellable
<1>2. ASSUME GeminiPacketRead PROVE phase = "loop"
  BY <1>2 DEF GeminiPacketRead, Read
<1>3. /\ Counts(acc) /\ DOMAIN acc = AccFields /\ UsageTold /\ IsSequence(out) /\ CountsKnown
      /\ {"usage", "steady"} \subseteq DOMAIN up /\ "last" \in DOMAIN local
  BY <1>1 DEF Core, TypeOK, UsageInv, TokensCounted, CountsKnown, Counts
<1>4. StartKnown' /\ NothingCounted' /\ TotalsKnown'
  BY <1>1 DEF StartKnown, NothingCounted, TotalsKnown
<1>5. CASE GeminiPacket
  <2>0. PICK present \in SUBSET (Candidates \ up.over), part \in {"none", "text", "call"},
             over \in BOOLEAN, u \in Running(BlocksOf(GeminiFields, MaxCount)) :
          \E order \in SetToSeqs(present) : Packet(present, order, part, over, u)
    BY <1>5 DEF GeminiPacket
  <2> PICK order \in SetToSeqs(present) : Packet(present, order, part, over, u)
    BY <2>0
  <2>1. /\ present = {} => part = "none" /\ ~over
        /\ part = "none" => over \/ present = {}
        /\ up' = [up EXCEPT
                    !.begun = @ \cup present,
                    !.over = IF over THEN @ \cup present ELSE @,
                    !.calls = IF part = "call"
                              THEN @ \o [k \in 1..Cardinality(present) |->
                                           [choice |-> order[k], parts |-> 0]]
                              ELSE @,
                    !.usage = Latest(u),
                    !.steady = @ /\ (DOMAIN u = {} \/ DOMAIN up.usage \subseteq DOMAIN u)]
        /\ local' = [local EXCEPT
                       !.announced = @ \cup present,
                       !.finished = IF over THEN @ \cup present ELSE @,
                       !.toolCounts = CountsTools(present, part),
                       !.last = [f \in GeminiFields |->
                                   IF f \in DOMAIN u THEN Larger(@[f], u[f]) ELSE @[f]]]
        /\ acc' = ApplyGemini(acc, u)
        /\ Write(FlattenSeq([k \in 1..Cardinality(present) |->
                   CandidateChunks(order[k], part, over)]))
    BY DEF Packet
  <2>2. /\ DOMAIN up' = DOMAIN up /\ up'.usage = Latest(u)
        /\ up'.steady = (up.steady /\ (DOMAIN u = {} \/ DOMAIN up.usage \subseteq DOMAIN u))
    BY <1>3, <2>1
  <2>3. /\ DOMAIN local' = DOMAIN local
        /\ local'.last = [f \in GeminiFields |->
                            IF f \in DOMAIN u THEN Larger(local.last[f], u[f]) ELSE local.last[f]]
    BY <1>3, <2>1
  <2>4. Counts(acc')
    <3>1. DOMAIN u \subseteq GeminiFields /\ \A f \in DOMAIN u : u[f] \in Nat
      BY BlockFacts
    <3> QED BY <1>3, <2>1, <3>1, GeminiUsage
  <2>5. acc' = ApplyGemini(acc, u)
    BY <2>1
  <2>6. CountsKnown'
    BY <1>1, <1>3, <2>2, <2>3, <2>4, <2>5, SteadyCounts
  <2>7. TokensCounted'
    BY <2>4 DEF TokensCounted, Counts, AccFields
  <2>8. UsageTold'
    <3> DEFINE ws == FlattenSeq([k \in 1..Cardinality(present) |->
                       CandidateChunks(order[k], part, over)])
    <3>1. Cardinality(present) \in Nat
      BY CandidateAssumption, FS_Subset, FS_CardinalityType
    <3>2. WithoutUsage(ws)
      BY <3>1, PacketHasNone
    <3>3. Write(ws)
      BY <2>1
    <3> HIDE DEF ws
    <3>4. phase = "loop"
      BY <1>2, <1>5 DEF GeminiPacket
    <3>5. TokensStay
      BY <1>1, <2>2, <3>4 DEF TokensStay, Silent
    <3> QED BY <1>1, <1>3, <3>2, <3>3, <3>4, <3>5, RepliesNoUsage DEF Write, Core
  <2> QED BY <1>4, <2>6, <2>7, <2>8 DEF UsageInv
<1>6. CASE GeminiError
  <2>1. GeminiPacketRead /\ local' = local /\ Sends("failed") /\ FailAfter(<<>>, MarkObserved(acc))
    BY <1>6 DEF GeminiError, Fail
  <2> QED BY <1>1, <1>2, <1>3, <2>1, TokensOfNote, NoneAtAll, FailKeepsUsage
<1>7. CASE GeminiGarbage
  <2>1. GeminiPacketRead /\ local' = local /\ Sends("garbled") /\ FailAfter(<<>>, acc)
    BY <1>7 DEF GeminiGarbage, Fail
  <2> QED BY <1>1, <1>2, <1>3, <2>1, NoneAtAll, FailKeepsUsage
<1>8. CASE ArrayCloses
  BY <1>8, NothingSaid DEF ArrayCloses
<1>9. CASE EndGemini
  <2>1. phase = "after"
    BY <1>9 DEF EndGemini
  <2>2. CASE (Close(<<>>) /\ acc' = acc) \/ (Close(ErrorChunks) /\ acc' = NoteStreamError(acc))
    BY <2>1, <2>2, CloseKeepsUsage
  <2>3. CASE ~terminal /\ Close(ToldGemini \o <<Plain("done")>>) /\ acc' = acc
    <3> DEFINE v == [input |-> local.last["prompt"],
                     output |-> local.last["candidates"] + local.last["thoughts"]]
               done == <<Plain("done")>>
               told == <<Chunk("usage", 0, 0, v)>>
    <3>1. ToldGemini = IF includeUsage THEN told ELSE <<>>
      BY DEF ToldGemini
    <3>2. WithoutUsage(done)
      BY NoneInOne DEF Plain
    <3>3. IsSequence(told)
      <4>1. told \in Seq({Chunk("usage", 0, 0, v)})
        OBVIOUS
      <4> QED BY <4>1, SequenceOver
    <3>4. DOMAIN v = {"input", "output"} /\ v["input"] = local.last["prompt"]
          /\ v["output"] = local.last["candidates"] + local.last["thoughts"]
      OBVIOUS
    <3>5. told = <<Chunk("usage", 0, 0, v)>> /\ Close(ToldGemini \o done)
      BY <2>3
    <3> HIDE DEF v, done, told
    <3>6. IsSequence(ToldGemini) /\ IsSequence(ToldGemini \o done)
      BY <3>1, <3>2, <3>3, NoneAtAll, ConcatSequences DEF WithoutUsage
    <3>7. /\ ~gone' => ~gone /\ out' = out \o (ToldGemini \o done)
          /\ phase' = "closed" /\ UNCHANGED <<up, local>>
      BY <3>5, <3>6, CloseFacts DEF Core
    <3>8. TokensCounted' /\ CountsKnown'
      BY <1>1, <1>3, <2>3, <3>7 DEF TokensCounted, CountsKnown, SentOr0, UsageInv
    <3>9. UsageTold'
      <4>1. ~Silent'
        BY <1>1, <3>7 DEF Silent
      <4>2. CASE gone' \/ ~up.steady
        BY <1>1, <3>7, <4>1, <4>2 DEF UsageTold
      <4>3. CASE ~gone' /\ ~includeUsage
        <5>1. WithoutUsage(ToldGemini \o done)
          BY <3>1, <3>2, <4>3, NoneAtAll, NoneInBoth
        <5>2. NoUsage(out)
          BY <1>1, <1>3, <2>1, <2>3, <3>7, <4>3 DEF UsageTold, Silent
        <5>3. NoUsage(out')
          BY <1>3, <3>7, <4>3, <5>1, <5>2, NoneInBoth DEF WithoutUsage
        <5> QED BY <4>1, <5>3, NoneAgrees DEF UsageTold
      <4>4. CASE ~gone' /\ includeUsage /\ up.steady
        <5>1. \A f \in DOMAIN v : v[f] = acc'.tokens[f]
          BY <1>1, <1>3, <2>3, <3>4, <4>4 DEF CountsKnown
        <5>2. out' = out \o ((<<>> \o told) \o done)
          <6>1. <<>> \o told = told
            BY <3>3, ConcatEmptySeq DEF IsSequence
          <6> QED BY <3>1, <3>7, <4>4, <6>1
        <5> QED BY <1>1, <1>3, <3>2, <3>5, <4>1, <5>1, <5>2, <1>20, NoneAtAll, EndsTold
      <4> QED BY <4>2, <4>3, <4>4
    <3> QED BY <1>4, <3>8, <3>9 DEF UsageInv
  <2> QED BY <1>9, <2>2, <2>3 DEF EndGemini
<1> QED BY <1>5, <1>6, <1>7, <1>8, <1>9 DEF StepGeminiToOpenAI

-----------------------------------------------------------------------------
(* Usage through the native pipes: they tell none of their own.             *)

LEMMA NativeReplies ==
  ASSUME StepNative
  PROVE  \/ Write(<<Plain("content")>>) \/ Write(<<Plain("error")>>)
         \/ Reply(<<Plain("done")>>, TRUE, FALSE) \/ Reply(<<Plain("stop")>>, TRUE, FALSE)
         \/ Reply(ErrorChunks, TRUE, FALSE) \/ Reply(<<>> \o ErrorChunks, TRUE, FALSE)
         \/ Close(<<>>) \/ Close(ErrorChunks)
<1>1. CASE \E p \in Natives : NativeEvent(p) \/ NativeEnd(p) \/ NativeError(p) \/ NativeGarbage(p)
  BY <1>1 DEF NativeEvent, NativeEnd, NativeError, NativeGarbage, Fail, FailAfter
<1>2. CASE NamedError \/ GeminiEventError
  BY <1>2 DEF NamedError, GeminiEventError
<1>3. CASE ArrayBytes
  BY <1>3 DEF ArrayBytes
<1>4. CASE EndGeminiSSE \/ EndGeminiArray \/ EndUnlessTerminal
  BY <1>4 DEF EndGeminiSSE, EndGeminiArray, EndUnlessTerminal
<1> QED BY <1>1, <1>2, <1>3, <1>4 DEF StepNative

LEMMA NativeWrites ==
  ASSUME Core, StepNative
  PROVE  \E ws : WithoutUsage(ws) /\ (~gone' => ~gone /\ out' = out \o ws)
<1>1. WithoutUsage(<<Plain("content")>>) /\ WithoutUsage(<<Plain("error")>>)
  BY NoneInOne DEF Plain
<1>2. WithoutUsage(<<Plain("done")>>) /\ WithoutUsage(<<Plain("stop")>>)
  BY NoneInOne DEF Plain
<1>3. ASSUME NEW ws, WithoutUsage(ws), NEW term \in BOOLEAN, NEW goOn \in BOOLEAN,
             Reply(ws, term, goOn)
      PROVE  \E w : WithoutUsage(w) /\ (~gone' => ~gone /\ out' = out \o w)
  BY <1>3, ReplyFacts DEF Core, WithoutUsage
<1>4. ASSUME NEW ws, WithoutUsage(ws), Write(ws) \/ Reply(ws, TRUE, FALSE) \/ Close(ws)
      PROVE  \E w : WithoutUsage(w) /\ (~gone' => ~gone /\ out' = out \o w)
  <2>1. CASE Close(ws)
    BY <1>4, <2>1, CloseFacts DEF Core, WithoutUsage
  <2> QED BY <1>3, <1>4, <2>1 DEF Write
<1>5. \/ Write(<<Plain("content")>>) \/ Write(<<Plain("error")>>)
      \/ Reply(<<Plain("done")>>, TRUE, FALSE) \/ Reply(<<Plain("stop")>>, TRUE, FALSE)
      \/ Reply(ErrorChunks, TRUE, FALSE) \/ Reply(<<>> \o ErrorChunks, TRUE, FALSE)
      \/ Close(<<>>) \/ Close(ErrorChunks)
  BY NativeReplies
<1> QED BY <1>1, <1>2, <1>4, <1>5, NoneAtAll, ErrorsHaveNone

LEMMA NativeUsageKept ==
  ASSUME Core, CaptureKnown, UsageInv, StepNative
  PROVE  UsageInv'
<1>1. pipe \in Natives /\ pipe' = pipe
  BY NativeOK
<1>2. /\ pipe \notin Converters
      /\ pipe \notin {"anthropicToOpenAI", "responsesToOpenAI", "orchestrationToOpenAI", "geminiToOpenAI"}
  BY <1>1 DEF Natives, NativeGemini, Converters, OpenAIPipes
<1>3. TokensCounted' /\ StartKnown' /\ NothingCounted' /\ TotalsKnown' /\ CountsKnown'
  BY <1>1, <1>2 DEF TokensCounted, StartKnown, NothingCounted, TotalsKnown, CountsKnown
<1>4. Silent /\ TokensStay
  BY <1>1, <1>2 DEF Silent, TokensStay
<1>5. PICK ws : WithoutUsage(ws) /\ (~gone' => ~gone /\ out' = out \o ws)
  BY NativeWrites
<1>6. IsSequence(out) /\ UsageTold
  BY DEF Core, TypeOK, UsageInv
<1>7. UsageTold'
  BY <1>1, <1>4, <1>5, <1>6, SaysNoUsage
<1> QED BY <1>3, <1>7 DEF UsageInv

-----------------------------------------------------------------------------

LEMMA InitPipeUsage ==
  ASSUME NEW p, NEW at, NEW upstream, NEW closure, InitPipe(p, at, upstream, closure)
  PROVE  /\ pipe = p /\ up = upstream /\ local = closure
         /\ TokensCounted /\ NothingCounted /\ UsageTold
         /\ \A f \in Fields : acc.tokens[f] = 0
<1>1. /\ pipe = p /\ up = upstream /\ local = closure
      /\ out = <<>> /\ acc = Fresh(200)
  BY DEF InitPipe
<1>2. /\ DOMAIN acc = AccFields /\ acc.tokens = [f \in Fields |-> 0]
  BY <1>1 DEF Fresh, AccFields
<1>3. NoUsage(out)
  BY <1>1, NoneAtAll DEF WithoutUsage
<1>4. TokensCounted /\ NothingCounted
  BY <1>2 DEF TokensCounted, NothingCounted, AccFields
<1> QED BY <1>1, <1>2, <1>3, <1>4, NoneAgrees DEF UsageTold

LEMMA InitUsage == Init => UsageInv
<1> SUFFICES ASSUME InitStream PROVE UsageInv
  BY DEF Init
<1> DEFINE start == [fate |-> "open", stage |-> "start", calls |-> <<>>, early |-> FALSE]
           closure == [toolCount |-> 0, currentTool |-> NoTool, argsSeen |-> FALSE,
                       stopReason |-> "", sawTool |-> FALSE, input |-> 0, output |-> 0]
<1>1. CASE InitAnthropicToOpenAI
  <2>1. InitPipe("anthropicToOpenAI", "loop", start, closure)
    BY <1>1 DEF InitAnthropicToOpenAI
  <2>2. /\ pipe = "anthropicToOpenAI" /\ up = start /\ local = closure
        /\ TokensCounted /\ NothingCounted /\ UsageTold
        /\ acc.tokens["input"] = 0 /\ acc.tokens["output"] = 0
    BY <2>1, InitPipeUsage DEF Fields
  <2> QED BY <2>2 DEF UsageInv, StartKnown, TotalsKnown, CountsKnown
<1>2. CASE InitResponsesToOpenAI
  <2>1. pipe = "responsesToOpenAI" /\ TokensCounted /\ NothingCounted /\ UsageTold
    BY <1>2, InitPipeUsage DEF InitResponsesToOpenAI
  <2> QED BY <2>1 DEF UsageInv, StartKnown, TotalsKnown, CountsKnown
<1>3. CASE InitOrchestrationToOpenAI
  <2>1. /\ pipe = "orchestrationToOpenAI" /\ TokensCounted /\ NothingCounted /\ UsageTold
        /\ up = [fate |-> "open", open |-> {}, over |-> {}, calls |-> <<>>, usage |-> <<>>]
        /\ \A f \in Fields : acc.tokens[f] = 0
    BY <1>3, InitPipeUsage DEF InitOrchestrationToOpenAI
  <2>2. TotalsKnown
    BY <2>1, EmptySeq DEF TotalsKnown, SentOr0
  <2> QED BY <2>1, <2>2 DEF UsageInv, StartKnown, CountsKnown
<1>4. CASE InitGeminiToOpenAI
  <2>1. PICK array \in BOOLEAN :
          InitPipe("geminiToOpenAI", "loop",
            [fate |-> "open", array |-> array, begun |-> {}, over |-> {}, calls |-> <<>>,
             usage |-> <<>>, steady |-> TRUE],
            [announced |-> {}, finished |-> {}, toolCounts |-> [c \in Candidates |-> 0],
             last |-> [f \in GeminiFields |-> 0]])
    BY <1>4 DEF InitGeminiToOpenAI
  <2>2. /\ pipe = "geminiToOpenAI" /\ TokensCounted /\ NothingCounted /\ UsageTold
        /\ {"usage", "steady"} \subseteq DOMAIN up /\ up.usage = <<>>
        /\ "last" \in DOMAIN local /\ local.last = [f \in GeminiFields |-> 0]
        /\ acc.tokens["input"] = 0 /\ acc.tokens["output"] = 0
    BY <2>1, InitPipeUsage DEF Fields
  <2>3. DOMAIN up.usage = {}
    BY <2>2, EmptySeq
  <2>4. "prompt" \in GeminiFields /\ "candidates" \in GeminiFields /\ "thoughts" \in GeminiFields
    BY DEF GeminiFields
  <2>5. CountsKnown
    BY <2>2, <2>3, <2>4 DEF CountsKnown, SentOr0
  <2> QED BY <2>2, <2>5 DEF UsageInv, StartKnown, TotalsKnown
<1>5. CASE InitNative
  <2>1. pipe \in Natives /\ TokensCounted /\ NothingCounted /\ UsageTold
    BY <1>5, InitPipeUsage DEF InitNative
  <2>2. pipe \notin {"anthropicToOpenAI", "responsesToOpenAI", "orchestrationToOpenAI", "geminiToOpenAI"}
    BY <2>1 DEF Natives, NativeGemini
  <2> QED BY <2>1, <2>2 DEF UsageInv, StartKnown, TotalsKnown, CountsKnown
<1> QED BY <1>1, <1>2, <1>3, <1>4, <1>5 DEF InitStream

LEMMA StepUsage == IInv /\ UsageInv /\ [Next]_vars => UsageInv'
<1> SUFFICES ASSUME IInv, UsageInv, [Next]_vars PROVE UsageInv'
  OBVIOUS
<1>1. Core /\ CaptureKnown
  BY DEF IInv
<1>2. CASE StepAnthropicToOpenAI
  BY <1>1, <1>2, AnthropicUsageKept
<1>3. CASE StepResponsesToOpenAI
  BY <1>1, <1>3, ResponsesUsageKept
<1>4. CASE StepOrchestrationToOpenAI
  BY <1>1, <1>4, OrchestrationUsageKept
<1>5. CASE StepGeminiToOpenAI
  BY <1>1, <1>5, GeminiUsageKept
<1>6. CASE StepNative
  BY <1>1, <1>6, NativeUsageKept
<1>7. CASE ScannerEnds
  BY <1>7, NothingSaid DEF ScannerEnds
<1>8. CASE Commit
  BY <1>8, NothingSaid DEF Commit
<1>9. CASE UNCHANGED vars
  BY <1>9, NothingSaid DEF vars, loopVars
<1> QED BY <1>2, <1>3, <1>4, <1>5, <1>6, <1>7, <1>8, <1>9 DEF Next

LEMMA LargestPlace ==
  ASSUME NEW n \in Nat, NEW P \in SUBSET (1..n), P # {}
  PROVE  Max(P) \in P /\ \A j \in P : j <= Max(P)
<1> DEFINE S == {i \in Nat : \A Q \in SUBSET (1..i) :
                               Q # {} => \E m \in Q : \A j \in Q : m >= j}
<1>1. 0 \in S
  <2>1. ASSUME NEW Q \in SUBSET (1..0) PROVE Q = {}
    OBVIOUS
  <2> QED BY <2>1
<1>2. ASSUME NEW i \in Nat, i \in S PROVE i + 1 \in S
  <2>1. SUFFICES ASSUME NEW Q \in SUBSET (1..(i + 1)), Q # {}
                 PROVE  \E m \in Q : \A j \in Q : m >= j
    OBVIOUS
  <2>2. CASE i + 1 \in Q
    BY <2>2
  <2>3. CASE i + 1 \notin Q
    <3>1. Q \in SUBSET (1..i)
      BY <2>3
    <3> QED BY <1>2, <2>1, <3>1
  <2> QED BY <2>2, <2>3
<1> HIDE DEF S
<1>3. Nat \subseteq S
  BY <1>1, <1>2, NatSetInduction
<1>4. \E m \in P : \A j \in P : m >= j
  BY <1>3 DEF S
<1>5. Max(P) \in P /\ \A j \in P : Max(P) >= j
  BY <1>4 DEF Max
<1> QED BY <1>5

(* What a client is told of the usage is what the collector accounts for,   *)
(* whatever protocol it was converted from and whatever counts a block may  *)
(* lack, except for an input count that an Anthropic stream sends only      *)
(* after message_start, and for Gemini counts that a later packet leaves    *)
(* out.                                                                     *)
THEOREM UsageIsTold == Spec => []UsageToldIsRecorded
<1>1. IInv /\ UsageInv => UsageToldIsRecorded
  <2> SUFFICES ASSUME IInv, UsageInv, Ended, ~gone, Positions({"usage"}) # {},
                      pipe = "geminiToOpenAI" => up.steady
               PROVE  LET told == out[Max(Positions({"usage"}))].value
                      IN  \A f \in DOMAIN told : told[f] = Tellable[f]
    BY DEF UsageToldIsRecorded
  <2> DEFINE P == Positions({"usage"})
             k == Max(P)
  <2>1. IsSequence(out) /\ Agrees(out, Tellable)
    BY DEF IInv, Core, TypeOK, UsageInv, UsageTold
  <2>2. Len(out) \in Nat /\ DOMAIN out = 1..Len(out)
    BY <2>1, SequenceFacts
  <2>3. \A j \in DOMAIN out : j \in P <=> out[j].type = "usage"
    BY DEF Positions
  <2>4. P \in SUBSET (1..Len(out)) /\ P # {}
    BY <2>2 DEF Positions
  <2> HIDE DEF P
  <2>5. k \in P /\ \A j \in P : j <= k
    BY <2>2, <2>4, LargestPlace
  <2> HIDE DEF k
  <2>6. out[k].type = "usage" /\ k \in DOMAIN out
    BY <2>2, <2>3, <2>4, <2>5
  <2>7. \A j \in DOMAIN out : j > k => out[j].type # "usage"
    BY <2>2, <2>3, <2>4, <2>5
  <2>8. \A f \in DOMAIN out[k].value : out[k].value[f] = Tellable[f]
    BY <2>1, <2>6, <2>7 DEF Agrees
  <2> QED BY <2>8 DEF k, P
<1> QED BY <1>1, Invariance, InitUsage, StepUsage, PTL DEF Spec

-----------------------------------------------------------------------------
(* The calls that the client is told of (ToolCallsWhole): positions of      *)
(* announcements and of arguments in a stream that goes on.                 *)

Plainly == {"tool", "args"}

LEMMA PositionsFinite ==
  ASSUME NEW s, IsSequence(s), NEW S \in SUBSET (DOMAIN s)
  PROVE  IsFiniteSet(S) /\ Cardinality(S) \in Nat
<1>1. DOMAIN s = 1..Len(s) /\ Len(s) \in Nat
  BY SequenceFacts
<1>2. IsFiniteSet(1..Len(s))
  BY <1>1, FS_Interval
<1>3. IsFiniteSet(S)
  BY <1>1, <1>2, FS_Subset
<1> QED BY <1>3, FS_CardinalityType

(* Where a chunk of s \o t is: in s, or in t behind s.                      *)
LEMMA PlacesOfBoth ==
  ASSUME NEW s, NEW t, IsSequence(s), IsSequence(t)
  PROVE  /\ \A k \in DOMAIN s : k \in DOMAIN (s \o t) /\ (s \o t)[k] = s[k] /\ k < Len(s) + 1
         /\ \A k \in DOMAIN t : /\ Len(s) + k \in DOMAIN (s \o t)
                                /\ (s \o t)[Len(s) + k] = t[k]
                                /\ Len(s) + k \notin DOMAIN s
         /\ \A k \in DOMAIN (s \o t) : k \in DOMAIN s \/ k - Len(s) \in DOMAIN t
<1>1. /\ DOMAIN s = 1..Len(s) /\ DOMAIN t = 1..Len(t) /\ Len(s) \in Nat /\ Len(t) \in Nat
      /\ DOMAIN (s \o t) = 1..(Len(s) + Len(t))
  BY ConcatSequences, SequenceFacts
<1>2. ASSUME NEW k \in DOMAIN s
      PROVE  k \in DOMAIN (s \o t) /\ (s \o t)[k] = s[k] /\ k < Len(s) + 1
  BY <1>1, ConcatSequences
<1>3. ASSUME NEW k \in DOMAIN t
      PROVE  /\ Len(s) + k \in DOMAIN (s \o t) /\ (s \o t)[Len(s) + k] = t[k]
             /\ Len(s) + k \notin DOMAIN s
  <2>1. k \in 1..Len(t)
    BY <1>1
  <2>2. Len(s) + k \in 1..(Len(s) + Len(t)) /\ Len(s) + k \notin 1..Len(s)
    BY <1>1, <2>1
  <2>3. (s \o t)[Len(s) + k] = t[k]
    BY <2>1, ConcatSequences
  <2> QED BY <1>1, <2>2, <2>3
<1>4. ASSUME NEW k \in DOMAIN (s \o t) PROVE k \in DOMAIN s \/ k - Len(s) \in DOMAIN t
  BY <1>1
<1> QED BY <1>2, <1>3, <1>4

LEMMA ToolsOfBoth ==
  ASSUME NEW s, NEW t, IsSequence(s), IsSequence(t), NEW c
  PROVE  \A k : k \in Tools(s \o t, c) <=>
               k \in Tools(s, c) \/ \E j \in Tools(t, c) : k = Len(s) + j
<1>1. ASSUME NEW k \in Tools(s \o t, c), k \notin Tools(s, c)
      PROVE  \E j \in Tools(t, c) : k = Len(s) + j
  <2>1. k \in DOMAIN (s \o t) /\ (s \o t)[k].type = "tool" /\ (s \o t)[k].choice = c
    BY <1>1 DEF Tools
  <2>2. k \notin DOMAIN s
    BY <1>1, <2>1, PlacesOfBoth DEF Tools
  <2>3. k - Len(s) \in DOMAIN t /\ k = Len(s) + (k - Len(s)) /\ (s \o t)[k] = t[k - Len(s)]
    BY <2>1, <2>2, ConcatPlaces
  <2> QED BY <2>1, <2>3 DEF Tools
<1>2. ASSUME NEW k \in Tools(s, c) PROVE k \in Tools(s \o t, c)
  BY <1>2, PlacesOfBoth DEF Tools
<1>3. ASSUME NEW k \in Tools(t, c) PROVE Len(s) + k \in Tools(s \o t, c)
  BY <1>3, PlacesOfBoth DEF Tools
<1> QED BY <1>1, <1>2, <1>3

LEMMA ArgumentsOfBoth ==
  ASSUME NEW s, NEW t, IsSequence(s), IsSequence(t), NEW i
  PROVE  \A k : k \in Arguments(s \o t, i) <=>
               k \in Arguments(s, i) \/ \E j \in Arguments(t, i) : k = Len(s) + j
<1>1. ASSUME NEW k \in Arguments(s \o t, i), k \notin Arguments(s, i)
      PROVE  \E j \in Arguments(t, i) : k = Len(s) + j
  <2>1. k \in DOMAIN (s \o t) /\ (s \o t)[k].type = "args" /\ (s \o t)[k].index = i
    BY <1>1 DEF Arguments
  <2>2. k \notin DOMAIN s
    BY <1>1, <2>1, PlacesOfBoth DEF Arguments
  <2>3. k - Len(s) \in DOMAIN t /\ k = Len(s) + (k - Len(s)) /\ (s \o t)[k] = t[k - Len(s)]
    BY <2>1, <2>2, ConcatPlaces
  <2> QED BY <2>1, <2>3 DEF Arguments
<1>2. ASSUME NEW k \in Arguments(s, i) PROVE k \in Arguments(s \o t, i)
  BY <1>2, PlacesOfBoth DEF Arguments
<1>3. ASSUME NEW k \in Arguments(t, i) PROVE Len(s) + k \in Arguments(s \o t, i)
  BY <1>3, PlacesOfBoth DEF Arguments
<1> QED BY <1>1, <1>2, <1>3

(* What one chunk adds. *)
LEMMA OneChunk ==
  ASSUME NEW type, NEW c, NEW i, NEW v
  PROVE  LET t == <<Chunk(type, c, i, v)>>
         IN  /\ IsSequence(t) /\ DOMAIN t = {1} /\ t[1] = Chunk(type, c, i, v)
             /\ \A d : Tools(t, d) = IF type = "tool" /\ c = d THEN {1} ELSE {}
             /\ \A j : Arguments(t, j) = IF type = "args" /\ i = j THEN {1} ELSE {}
<1> DEFINE e == Chunk(type, c, i, v)
           t == <<e>>
<1>1. t \in Seq({e}) /\ DOMAIN t = {1} /\ t[1] = e
  OBVIOUS
<1>2. e.type = type /\ e.choice = c /\ e.index = i
  BY DEF Chunk
<1> HIDE DEF e
<1>3. \A d : Tools(t, d) = IF type = "tool" /\ c = d THEN {1} ELSE {}
  BY <1>1, <1>2 DEF Tools
<1>4. \A j : Arguments(t, j) = IF type = "args" /\ i = j THEN {1} ELSE {}
  BY <1>1, <1>2 DEF Arguments
<1> QED BY <1>1, <1>3, <1>4, SequenceOver DEF e

LEMMA AvoidsNone ==
  ASSUME NEW s, Avoids(s, Plainly)
  PROVE  /\ IsSequence(s)
         /\ \A c : Tools(s, c) = {}
         /\ \A i : Arguments(s, i) = {}
BY DEF Avoids, Plainly, Tools, Arguments

(* Numbering goes on: nothing of the choice, or its next call.              *)
LEMMA NumberedStays ==
  ASSUME NEW s, NEW t, IsSequence(s), IsSequence(t), NEW c, NEW n, Numbered(s, c, n),
         Tools(t, c) = {}
  PROVE  Numbered(s \o t, c, n)
<1>1. Tools(s \o t, c) = Tools(s, c)
  <2>1. \A k : k \in Tools(s \o t, c) <=> k \in Tools(s, c)
    BY ToolsOfBoth
  <2> QED BY <2>1
<1>2. \A k \in Tools(s, c) : (s \o t)[k] = s[k]
  BY PlacesOfBoth DEF Tools
<1> QED BY <1>1, <1>2 DEF Numbered

LEMMA NumberedGrows ==
  ASSUME NEW s, NEW t, IsSequence(s), IsSequence(t), NEW c, NEW n, Numbered(s, c, n),
         NEW p, Tools(t, c) = {p}, t[p].index = n
  PROVE  Numbered(s \o t, c, n + 1)
<1> DEFINE T == Tools(s, c)
           q == Len(s) + p
           U == Tools(s \o t, c)
<1>1. U = T \cup {q}
  <2>1. \A k : k \in U <=> k \in T \/ k = q
    BY ToolsOfBoth
  <2> QED BY <2>1
<1>2. p \in DOMAIN t /\ T \in SUBSET (DOMAIN s)
  BY DEF Tools
<1>3. /\ q \notin T /\ (s \o t)[q] = t[p] /\ q \in Nat
      /\ \A k \in T : k \in Nat /\ k < q /\ (s \o t)[k] = s[k]
  <2>1. DOMAIN s = 1..Len(s) /\ DOMAIN t = 1..Len(t) /\ Len(s) \in Nat /\ Len(t) \in Nat
    BY SequenceFacts
  <2> QED BY <1>2, <2>1, PlacesOfBoth
<1>4. IsFiniteSet(T) /\ Cardinality(T) = n /\ n \in Nat
  BY <1>2, PositionsFinite DEF Numbered
<1> HIDE DEF T, U, q
<1>5. Cardinality(U) = n + 1
  BY <1>1, <1>3, <1>4, FS_AddElement
<1>6. ASSUME NEW k \in U PROVE (s \o t)[k].index = Cardinality({j \in U : j < k})
  <2>1. CASE k = q
    <3>1. {j \in U : j < k} = T
      <4>1. ~(q < q) /\ \A j \in T : j < q
        BY <1>3
      <4> QED BY <1>1, <2>1, <4>1
    <3> QED BY <1>3, <1>4, <2>1, <3>1
  <2>2. CASE k # q
    <3>1. k \in T /\ ~(q < k)
      BY <1>1, <1>3, <2>2
    <3>2. {j \in U : j < k} = {j \in T : j < k}
      BY <1>1, <3>1
    <3> QED BY <1>3, <3>1, <3>2 DEF Numbered, T
  <2> QED BY <2>1, <2>2
<1> QED BY <1>5, <1>6 DEF Numbered, U

(* So do the fragments of a call.                                           *)
Announces(s, i) == \E t \in Tools(s, 0) : s[t].index = i

LEMMA AnnouncesStays ==
  ASSUME NEW s, NEW t, IsSequence(s), IsSequence(t), NEW i, Announces(s, i)
  PROVE  Announces(s \o t, i)
<1>1. PICK k \in Tools(s, 0) : s[k].index = i
  BY DEF Announces
<1>2. k \in Tools(s \o t, 0)
  BY <1>1, ToolsOfBoth
<1>3. (s \o t)[k] = s[k]
  BY <1>1, PlacesOfBoth DEF Tools
<1> QED BY <1>1, <1>2, <1>3 DEF Announces

LEMMA FilledStays ==
  ASSUME NEW s, NEW t, IsSequence(s), IsSequence(t), NEW i, NEW n, NEW v, Filled(s, i, n, v),
         Arguments(t, i) = {}
  PROVE  Filled(s \o t, i, n, v)
<1>1. Arguments(s \o t, i) = Arguments(s, i)
  <2>1. \A k : k \in Arguments(s \o t, i) <=> k \in Arguments(s, i)
    BY ArgumentsOfBoth
  <2> QED BY <2>1
<1>2. \A k \in Arguments(s, i) : (s \o t)[k] = s[k]
  BY PlacesOfBoth DEF Arguments
<1>3. \A k \in Tools(s, 0) : (s \o t)[k] = s[k] /\ k \in Tools(s \o t, 0)
  BY PlacesOfBoth, ToolsOfBoth DEF Tools
<1> QED BY <1>1, <1>2, <1>3 DEF Filled

LEMMA FilledGrows ==
  ASSUME NEW s, NEW t, IsSequence(s), IsSequence(t), NEW i, NEW n, NEW v, Filled(s, i, n, v),
         Announces(s, i), NEW p, Arguments(t, i) = {p}, t[p].value = v
  PROVE  Filled(s \o t, i, n + 1, v)
<1> DEFINE A == Arguments(s, i)
           q == Len(s) + p
           B == Arguments(s \o t, i)
<1>1. B = A \cup {q}
  <2>1. \A k : k \in B <=> k \in A \/ k = q
    BY ArgumentsOfBoth
  <2> QED BY <2>1
<1>2. p \in DOMAIN t /\ A \in SUBSET (DOMAIN s)
  BY DEF Arguments
<1>3. /\ q \notin A /\ (s \o t)[q] = t[p]
      /\ \A k \in A : (s \o t)[k] = s[k]
  <2>1. q \notin DOMAIN s /\ (s \o t)[q] = t[p]
    BY <1>2, PlacesOfBoth
  <2> QED BY <1>2, <2>1, PlacesOfBoth
<1>4. IsFiniteSet(A) /\ Cardinality(A) = n /\ n \in Nat
  BY <1>2, PositionsFinite DEF Filled
<1>5. \A k \in Tools(s, 0) : (s \o t)[k] = s[k] /\ k \in Tools(s \o t, 0) /\ k < q
  <2>1. DOMAIN s = 1..Len(s) /\ DOMAIN t = 1..Len(t) /\ Len(s) \in Nat /\ Len(t) \in Nat
    BY SequenceFacts
  <2>2. \A k \in DOMAIN s : k < q
    BY <1>2, <2>1
  <2>3. \A k \in Tools(s, 0) : k \in DOMAIN s
    BY DEF Tools
  <2>4. Tools(s, 0) \subseteq Tools(s \o t, 0)
    BY ToolsOfBoth
  <2> QED BY <2>2, <2>3, <2>4, PlacesOfBoth
<1> HIDE DEF A, B, q
<1>6. Cardinality(B) = n + 1
  BY <1>1, <1>3, <1>4, FS_AddElement
<1>7. ASSUME NEW k \in B
      PROVE  /\ (s \o t)[k].value = v
             /\ \E j \in Tools(s \o t, 0) : j < k /\ (s \o t)[j].index = i
  <2>1. CASE k = q
    <3>1. PICK j \in Tools(s, 0) : s[j].index = i
      BY DEF Announces
    <3> QED BY <1>3, <1>5, <2>1, <3>1
  <2>2. CASE k # q
    <3>1. k \in A
      BY <1>1, <2>2
    <3>2. s[k].value = v /\ \E j \in Tools(s, 0) : j < k /\ s[j].index = i
      BY <3>1 DEF Filled, A
    <3> QED BY <1>3, <1>5, <3>1, <3>2
  <2> QED BY <2>1, <2>2
<1> QED BY <1>6, <1>7 DEF Filled, B

-----------------------------------------------------------------------------
(* The inductive invariant beside IInv.                                     *)

(* The calls that the upstream has sent.                                    *)
SingleCalls == Seq([choice : {0}, parts : Nat])

CallsKnown ==
  /\ "calls" \in DOMAIN up
  /\ IF pipe = "geminiToOpenAI" THEN up.calls \in Seq([choice : Candidates, parts : {0}])
                                ELSE up.calls \in SingleCalls

(* What the closures of the pipes know of them.                             *)
BlocksKnown ==
  pipe = "anthropicToOpenAI" =>
    /\ "stage" \in DOMAIN up /\ {"toolCount", "currentTool", "argsSeen"} \subseteq DOMAIN local
    /\ local.toolCount = Len(up.calls)
    /\ IF up.stage = "tool"
       THEN /\ Len(up.calls) # 0 /\ local.currentTool = Len(up.calls) - 1
            /\ local.argsSeen \in BOOLEAN /\ (local.argsSeen <=> up.calls[Len(up.calls)].parts # 0)
       ELSE local.currentTool = NoTool
    /\ up.fate = "complete" => up.stage # "tool"

ItemsKnown ==
  pipe = "responsesToOpenAI" =>
    /\ {"order", "done"} \subseteq DOMAIN up /\ {"toolIndex", "arguments"} \subseteq DOMAIN local
    /\ up.order \in Seq(Items) /\ Len(up.order) = Len(up.calls)
    /\ \A j, k \in DOMAIN up.order : up.order[j] = up.order[k] => j = k
    /\ DOMAIN local.toolIndex = Announced /\ DOMAIN local.arguments = Announced
    /\ IsFiniteSet(Announced) /\ Cardinality(Announced) = Len(up.order)
    /\ \A k \in DOMAIN up.order : /\ local.toolIndex[up.order[k]] = k - 1
                                  /\ local.arguments[up.order[k]] = up.calls[k].parts

ToolCountsKnown ==
  pipe = "geminiToOpenAI" =>
    /\ "toolCounts" \in DOMAIN local
    /\ \A c \in Candidates : local.toolCounts[c] = Cardinality(CallsOf(c))

(* What the client was told of calls: of all of them, and of their          *)
(* fragments, except that an Anthropic call that is still open has no empty *)
(* object yet.                                                              *)
StillOpen == IF pipe = "anthropicToOpenAI" /\ up.stage = "tool" THEN Len(up.calls) ELSE 0

CallTold(p, s, calls, open, k) ==
  /\ Announces(s, k - 1)
  /\ IF p = "anthropicToOpenAI" /\ calls[k].parts = 0 /\ k # open
     THEN Filled(s, k - 1, 1, "empty")
     ELSE Filled(s, k - 1, calls[k].parts, "part")

CallsTold(p, s, calls, open) ==
  /\ Numbered(s, 0, Len(calls))
  /\ \A c \in Candidates \ {0} : Numbered(s, c, 0)
  /\ \A k \in DOMAIN calls : CallTold(p, s, calls, open, k)
  /\ \A i \in Nat : i >= Len(calls) => Arguments(s, i) = {}

GoingWell == up.fate \in {"open", "complete"}

ToolsTold ==
  ~gone /\ GoingWell =>
    IF pipe = "geminiToOpenAI"
    THEN \A c \in {0} \cup Candidates : Numbered(out, c, Cardinality(CallsOf(c)))
    ELSE CallsTold(pipe, out, up.calls, StillOpen)

ToolsInv == CallsKnown /\ BlocksKnown /\ ItemsKnown /\ ToolCountsKnown /\ ToolsTold

-----------------------------------------------------------------------------
(* What the writes of a callback make of it.                                *)

LEMMA SingleCallFacts ==
  ASSUME NEW calls \in SingleCalls
  PROVE  /\ Len(calls) \in Nat /\ DOMAIN calls = 1..Len(calls)
         /\ \A k \in DOMAIN calls : /\ calls[k] \in [choice : {0}, parts : Nat]
                                    /\ calls[k].choice = 0 /\ calls[k].parts \in Nat
<1>1. calls \in Seq([choice : {0}, parts : Nat])
  BY DEF SingleCalls
<1>2. Len(calls) \in Nat /\ DOMAIN calls = 1..Len(calls)
  BY <1>1
<1>3. ASSUME NEW k \in DOMAIN calls PROVE calls[k] \in [choice : {0}, parts : Nat]
  <2>1. k \in 1..Len(calls)
    BY <1>2
  <2> QED BY <1>1, <2>1, ElementOfSeq
<1>4. \A call \in [choice : {0}, parts : Nat] : call.choice = 0 /\ call.parts \in Nat
  OBVIOUS
<1> QED BY <1>2, <1>3, <1>4

LEMMA CallsStillTold ==
  ASSUME NEW p, NEW s, IsSequence(s), NEW calls \in SingleCalls, NEW open,
         CallsTold(p, s, calls, open), NEW t, Avoids(t, Plainly)
  PROVE  CallsTold(p, s \o t, calls, open)
<1>1. IsSequence(t) /\ (\A c : Tools(t, c) = {}) /\ (\A i : Arguments(t, i) = {})
  BY AvoidsNone
<1>2. Numbered(s \o t, 0, Len(calls)) /\ \A c \in Candidates \ {0} : Numbered(s \o t, c, 0)
  BY <1>1, NumberedStays DEF CallsTold
<1>3. ASSUME NEW k \in DOMAIN calls PROVE CallTold(p, s \o t, calls, open, k)
  <2>1. CallTold(p, s, calls, open, k)
    BY DEF CallsTold
  <2>2. Announces(s \o t, k - 1)
    BY <1>1, <2>1, AnnouncesStays DEF CallTold
  <2>3. \A v, n : Filled(s, k - 1, n, v) => Filled(s \o t, k - 1, n, v)
    BY <1>1, FilledStays
  <2> QED BY <2>1, <2>2, <2>3 DEF CallTold
<1>4. ASSUME NEW i \in Nat, i >= Len(calls) PROVE Arguments(s \o t, i) = {}
  <2>1. Arguments(s, i) = {}
    BY <1>4 DEF CallsTold
  <2> QED BY <1>1, <2>1, ArgumentsOfBoth
<1> QED BY <1>2, <1>3, <1>4 DEF CallsTold

(* A new call.                                                              *)
LEMMA CallAnnounced ==
  ASSUME NEW p, NEW s, IsSequence(s), NEW calls \in SingleCalls, NEW open, NEW next,
         CallsTold(p, s, calls, open),
         p = "anthropicToOpenAI" => open = 0 /\ next = Len(calls) + 1
  PROVE  CallsTold(p, s \o <<Chunk("tool", 0, Len(calls), 0)>>,
                   Append(calls, [choice |-> 0, parts |-> 0]), next)
<1> DEFINE n == Len(calls)
           t == <<Chunk("tool", 0, n, 0)>>
           call == [choice |-> 0, parts |-> 0]
           new == Append(calls, call)
<1>1. /\ IsSequence(t) /\ DOMAIN t = {1} /\ t[1] = Chunk("tool", 0, n, 0)
      /\ Tools(t, 0) = {1} /\ (\A c : c # 0 => Tools(t, c) = {}) /\ (\A i : Arguments(t, i) = {})
  BY OneChunk
<1>2. /\ n \in Nat /\ DOMAIN calls = 1..n
      /\ DOMAIN new = 1..(n + 1) /\ Len(new) = n + 1
      /\ new[n + 1] = call /\ \A k \in 1..n : new[k] = calls[k]
  <2>1. calls \in Seq([choice : {0}, parts : Nat]) /\ call \in [choice : {0}, parts : Nat]
    BY DEF SingleCalls
  <2> HIDE DEF call
  <2> QED BY <2>1
<1>3. t[1].index = n
  BY <1>1 DEF Chunk
<1> HIDE DEF t, new
<1>4. Numbered(s \o t, 0, n + 1)
  BY <1>1, <1>3, NumberedGrows DEF CallsTold
<1>5. \A c \in Candidates \ {0} : Numbered(s \o t, c, 0)
  BY <1>1, NumberedStays DEF CallsTold
<1>6. ASSUME NEW k \in 1..n PROVE CallTold(p, s \o t, new, next, k)
  <2>1. CallTold(p, s, calls, open, k)
    BY <1>2 DEF CallsTold
  <2>2. Announces(s \o t, k - 1)
    BY <1>1, <2>1, AnnouncesStays DEF CallTold
  <2>3. \A v, m : Filled(s, k - 1, m, v) => Filled(s \o t, k - 1, m, v)
    BY <1>1, FilledStays
  <2>4. new[k] = calls[k] /\ (p = "anthropicToOpenAI" => k # open /\ k # next)
    BY <1>2
  <2> QED BY <2>1, <2>2, <2>3, <2>4 DEF CallTold
<1>7. Arguments(s \o t, n) = {}
  <2>1. Arguments(s, n) = {}
    BY <1>2 DEF CallsTold
  <2> QED BY <1>1, <2>1, ArgumentsOfBoth
<1>8. CallTold(p, s \o t, new, next, n + 1)
  <2>1. (n + 1) - 1 = n /\ new[n + 1].parts = 0
    BY <1>2
  <2>2. Announces(s \o t, n)
    <3>1. Len(s) + 1 \in Tools(s \o t, 0)
      BY <1>1, ToolsOfBoth
    <3>2. (s \o t)[Len(s) + 1] = t[1]
      BY <1>1, PlacesOfBoth
    <3> QED BY <1>3, <3>1, <3>2 DEF Announces
  <2>3. Filled(s \o t, n, 0, "part")
    BY <1>7, FS_EmptySet DEF Filled
  <2>4. ~(p = "anthropicToOpenAI" /\ new[n + 1].parts = 0 /\ n + 1 # next)
    OBVIOUS
  <2> QED BY <2>1, <2>2, <2>3, <2>4 DEF CallTold
<1>9. ASSUME NEW i \in Nat, i >= n + 1 PROVE Arguments(s \o t, i) = {}
  <2>1. Arguments(s, i) = {}
    BY <1>2, <1>9 DEF CallsTold
  <2> QED BY <1>1, <2>1, ArgumentsOfBoth
<1>10. \A k \in DOMAIN new : CallTold(p, s \o t, new, next, k)
  <2>1. \A k \in DOMAIN new : k \in 1..n \/ k = n + 1
    BY <1>2
  <2> QED BY <1>6, <1>8, <2>1
<1>11. CallsTold(p, s \o t, new, next)
  BY <1>2, <1>4, <1>5, <1>9, <1>10 DEF CallsTold
<1> QED BY <1>11 DEF t, new

(* A fragment for call k.                                                   *)
LEMMA FragmentTold ==
  ASSUME NEW p, NEW s, IsSequence(s), NEW calls \in SingleCalls, NEW open,
         CallsTold(p, s, calls, open), NEW k \in DOMAIN calls,
         p = "anthropicToOpenAI" => k = open
  PROVE  LET new == [calls EXCEPT ![k].parts = @ + 1]
         IN  /\ new \in SingleCalls /\ Len(new) = Len(calls)
             /\ CallsTold(p, s \o <<Chunk("args", 0, k - 1, "part")>>, new, open)
<1> DEFINE t == <<Chunk("args", 0, k - 1, "part")>>
           new == [calls EXCEPT ![k].parts = @ + 1]
<1>1. /\ IsSequence(t) /\ DOMAIN t = {1} /\ t[1] = Chunk("args", 0, k - 1, "part")
      /\ (\A c : Tools(t, c) = {})
      /\ Arguments(t, k - 1) = {1} /\ (\A i : i # k - 1 => Arguments(t, i) = {})
  BY OneChunk
<1>2. /\ Len(calls) \in Nat /\ DOMAIN calls = 1..Len(calls)
      /\ \A j \in DOMAIN calls : calls[j] \in [choice : {0}, parts : Nat] /\ calls[j].parts \in Nat
  BY SingleCallFacts
<1>3. /\ DOMAIN new = DOMAIN calls /\ new[k].parts = calls[k].parts + 1
      /\ \A j \in DOMAIN calls : j # k => new[j] = calls[j]
      /\ new \in SingleCalls /\ Len(new) = Len(calls)
  <2>1. /\ DOMAIN new = 1..Len(calls) /\ new[k].parts = calls[k].parts + 1
        /\ \A j \in DOMAIN calls : j # k => new[j] = calls[j]
        /\ new[k] \in [choice : {0}, parts : Nat]
    BY <1>2
  <2>2. new \in [1..Len(calls) -> [choice : {0}, parts : Nat]]
    BY <1>2, <2>1
  <2>3. new \in SingleCalls
    BY <1>2, <2>2, SeqDef DEF SingleCalls
  <2>4. Len(new) = Len(calls)
    BY <1>2, <2>1, <2>3, SingleCallFacts
  <2> QED BY <1>2, <2>1, <2>3, <2>4
<1>4. t[1].value = "part"
  BY <1>1 DEF Chunk
<1> HIDE DEF t, new
<1>5. Numbered(s \o t, 0, Len(new)) /\ \A c \in Candidates \ {0} : Numbered(s \o t, c, 0)
  BY <1>1, <1>3, NumberedStays DEF CallsTold
<1>6. ASSUME NEW j \in DOMAIN calls PROVE CallTold(p, s \o t, new, open, j)
  <2>1. CallTold(p, s, calls, open, j)
    BY DEF CallsTold
  <2>2. Announces(s \o t, j - 1)
    BY <1>1, <2>1, AnnouncesStays DEF CallTold
  <2>3. CASE j # k
    <3>1. j - 1 # k - 1
      BY <1>2, <2>3
    <3>2. Arguments(t, j - 1) = {}
      BY <1>1, <3>1
    <3>3. \A v, m : Filled(s, j - 1, m, v) => Filled(s \o t, j - 1, m, v)
      BY <1>1, <3>2, FilledStays
    <3>4. new[j] = calls[j]
      BY <1>3, <2>3
    <3> QED BY <2>1, <2>2, <3>3, <3>4 DEF CallTold
  <2>4. CASE j = k
    <3>1. Filled(s, k - 1, calls[k].parts, "part") /\ Announces(s, k - 1)
      BY <2>1, <2>4 DEF CallTold
    <3>2. Filled(s \o t, k - 1, calls[k].parts + 1, "part")
      BY <1>1, <1>4, <3>1, FilledGrows
    <3>3. ~(p = "anthropicToOpenAI" /\ new[j].parts = 0 /\ j # open)
      BY <2>4
    <3> QED BY <1>3, <2>2, <2>4, <3>2, <3>3 DEF CallTold
  <2> QED BY <2>3, <2>4
<1>7. ASSUME NEW i \in Nat, i >= Len(new) PROVE Arguments(s \o t, i) = {}
  <2>1. Arguments(s, i) = {} /\ i # k - 1
    BY <1>2, <1>3, <1>7 DEF CallsTold
  <2> QED BY <1>1, <2>1, ArgumentsOfBoth
<1>8. CallsTold(p, s \o t, new, open)
  BY <1>3, <1>5, <1>6, <1>7 DEF CallsTold
<1> QED BY <1>3, <1>8 DEF t, new

(* The open call is complete, with an empty object when it had no fragment. *)
LEMMA CallCompleted ==
  ASSUME NEW s, IsSequence(s), NEW calls \in SingleCalls, NEW n \in Nat, n = Len(calls), n # 0,
         CallsTold("anthropicToOpenAI", s, calls, n), NEW t, IsSequence(t),
         \A c : Tools(t, c) = {}, \A i \in Nat : i # n - 1 => Arguments(t, i) = {},
         Arguments(t, n - 1) = IF calls[n].parts = 0 THEN {1} ELSE {},
         calls[n].parts = 0 => t[1].value = "empty"
  PROVE  CallsTold("anthropicToOpenAI", s \o t, calls, 0)
<1> DEFINE p == "anthropicToOpenAI"
<1>1. /\ n \in Nat /\ DOMAIN calls = 1..n /\ n \in 1..n /\ calls[n].parts \in Nat
  BY SingleCallFacts
<1>3. Numbered(s \o t, 0, Len(calls)) /\ \A c \in Candidates \ {0} : Numbered(s \o t, c, 0)
  BY NumberedStays DEF CallsTold
<1>4. ASSUME NEW k \in DOMAIN calls PROVE CallTold(p, s \o t, calls, 0, k)
  <2>1. CallTold(p, s, calls, n, k)
    BY DEF CallsTold
  <2>2. Announces(s, k - 1) /\ Announces(s \o t, k - 1)
    BY <2>1, AnnouncesStays DEF CallTold
  <2>3. k # 0
    BY <1>1
  <2>4. CASE k # n \/ calls[n].parts # 0
    <3>1. Arguments(t, k - 1) = {}
      BY <1>1, <2>4
    <3>2. \A v, m : Filled(s, k - 1, m, v) => Filled(s \o t, k - 1, m, v)
      BY <3>1, FilledStays
    <3> QED BY <2>1, <2>2, <2>3, <2>4, <3>2 DEF CallTold
  <2>5. CASE k = n /\ calls[n].parts = 0
    <3>1. Filled(s, k - 1, 0, "part")
      BY <2>1, <2>5 DEF CallTold
    <3>2. Arguments(s, k - 1) = {}
      <4>1. Arguments(s, k - 1) \in SUBSET (DOMAIN s)
        BY DEF Arguments
      <4>2. IsFiniteSet(Arguments(s, k - 1)) /\ Cardinality(Arguments(s, k - 1)) = 0
        BY <3>1, <4>1, PositionsFinite DEF Filled
      <4> QED BY <4>2, FS_EmptySet
    <3>3. Filled(s, k - 1, 0, "empty")
      BY <3>2, FS_EmptySet DEF Filled
    <3>4. t[1].value = "empty" /\ Arguments(t, k - 1) = {1}
      BY <2>5
    <3>5. Filled(s \o t, k - 1, 0 + 1, "empty")
      BY <2>2, <3>3, <3>4, FilledGrows
    <3> QED BY <2>2, <2>3, <2>5, <3>5 DEF CallTold
  <2> QED BY <2>4, <2>5
<1>5. ASSUME NEW i \in Nat, i >= Len(calls) PROVE Arguments(s \o t, i) = {}
  <2>1. Arguments(s, i) = {} /\ i # n - 1
    BY <1>1, <1>5 DEF CallsTold
  <2> QED BY <2>1, ArgumentsOfBoth
<1> QED BY <1>3, <1>4, <1>5 DEF CallsTold

-----------------------------------------------------------------------------
(* Steps that tell of no call.                                              *)

LEMMA OneAvoids ==
  ASSUME NEW t, t \notin Plainly, NEW c, NEW i, NEW v
  PROVE  Avoids(<<Chunk(t, c, i, v)>>, Plainly)
<1> DEFINE e == Chunk(t, c, i, v)
<1>1. <<e>> \in Seq({e}) /\ e.type = t
  BY DEF Chunk
<1>2. \A k \in DOMAIN <<e>> : <<e>>[k].type \notin Plainly
  BY <1>1
<1> QED BY <1>1, <1>2, SequenceOver DEF Avoids

LEMMA NothingAvoids == Avoids(<<>>, Plainly)
<1>1. <<>> \in Seq({}) /\ DOMAIN <<>> = {}
  BY EmptySeq
<1> QED BY <1>1, SequenceOver DEF Avoids

LEMMA ErrorsAvoid == Avoids(ErrorChunks, Plainly)
<1>1. Avoids(<<Plain("error")>>, Plainly) /\ Avoids(<<Plain("done")>>, Plainly)
  BY OneAvoids DEF Plain, Plainly
<1>2. <<Plain("error"), Plain("done")>> = <<Plain("error")>> \o <<Plain("done")>>
  OBVIOUS
<1> QED BY <1>1, <1>2, BothAvoid DEF ErrorChunks

LEMMA ToldOn ==
  ASSUME IsSequence(out), CallsKnown, ToolsTold, UNCHANGED pipe, GoingWell' => GoingWell,
         up'.calls = up.calls, StillOpen' = StillOpen,
         NEW ws, Avoids(ws, Plainly), ~gone' => ~gone /\ out' = out \o ws
  PROVE  ToolsTold'
<1> SUFFICES ASSUME ~gone', GoingWell'
             PROVE  ToolsTold'
  BY DEF ToolsTold
<1>1. ~gone /\ GoingWell /\ out' = out \o ws
  OBVIOUS
<1>2. CASE pipe = "geminiToOpenAI"
  <2>1. ASSUME NEW c \in {0} \cup Candidates PROVE Numbered(out', c, Cardinality(CallsOf(c)'))
    <3>1. CallsOf(c)' = CallsOf(c)
      BY DEF CallsOf
    <3>2. Numbered(out, c, Cardinality(CallsOf(c)))
      BY <1>1, <1>2 DEF ToolsTold
    <3>3. Numbered(out \o ws, c, Cardinality(CallsOf(c)))
      BY <3>2, AvoidsNone, NumberedStays
    <3> QED BY <1>1, <3>1, <3>3
  <2> QED BY <1>2, <2>1 DEF ToolsTold
<1>3. CASE pipe # "geminiToOpenAI"
  <2>1. CallsTold(pipe, out, up.calls, StillOpen) /\ up.calls \in SingleCalls
    BY <1>1, <1>3 DEF ToolsTold, CallsKnown
  <2>2. CallsTold(pipe, out \o ws, up.calls, StillOpen)
    BY <2>1, CallsStillTold
  <2> QED BY <1>1, <1>3, <2>2 DEF ToolsTold
<1> QED BY <1>2, <1>3

(* Neither the upstream's calls nor the closure's have changed.             *)
LEMMA NoCallsNoted ==
  ASSUME ToolsInv, UNCHANGED <<pipe, local>>,
         DOMAIN up' = DOMAIN up, \A x \in DOMAIN up \ {"fate"} : up'[x] = up[x],
         pipe = "anthropicToOpenAI" /\ up'.fate = "complete" => up.stage # "tool"
  PROVE  CallsKnown' /\ BlocksKnown' /\ ItemsKnown' /\ ToolCountsKnown' /\ StillOpen' = StillOpen
<1>1. up'.calls = up.calls /\ CallsKnown'
  BY DEF ToolsInv, CallsKnown
<1>2. BlocksKnown' /\ StillOpen' = StillOpen
  <2>1. CASE pipe = "anthropicToOpenAI"
    <3>1. up'.stage = up.stage
      BY <2>1 DEF ToolsInv, BlocksKnown
    <3> QED BY <1>1, <2>1, <3>1 DEF ToolsInv, BlocksKnown, StillOpen
  <2>2. CASE pipe # "anthropicToOpenAI"
    BY <2>2 DEF BlocksKnown, StillOpen
  <2> QED BY <2>1, <2>2
<1>3. ItemsKnown'
  <2> SUFFICES ASSUME pipe = "responsesToOpenAI"
               PROVE  ItemsKnown'
    BY DEF ItemsKnown
  <2>1. up'.order = up.order
    BY DEF ToolsInv, ItemsKnown
  <2> QED BY <1>1, <2>1 DEF ToolsInv, ItemsKnown, Announced
<1>4. ToolCountsKnown'
  <2>1. \A c : CallsOf(c)' = CallsOf(c)
    BY <1>1 DEF CallsOf
  <2> QED BY <2>1 DEF ToolsInv, ToolCountsKnown
<1> QED BY <1>1, <1>2, <1>3, <1>4

(* A stream that fails promises nothing of its calls.                       *)
LEMMA FailKeepsTools ==
  ASSUME ToolsInv, UNCHANGED <<pipe, local>>, "fate" \in DOMAIN up,
         NEW fate \in {"failed", "named", "garbled"}, Sends(fate)
  PROVE  ToolsInv'
<1>1. /\ DOMAIN up' = DOMAIN up /\ up'.fate = fate
      /\ \A x \in DOMAIN up \ {"fate"} : up'[x] = up[x]
  BY DEF Sends
<1>2. CallsKnown' /\ BlocksKnown' /\ ItemsKnown' /\ ToolCountsKnown'
  BY <1>1, NoCallsNoted
<1>3. ToolsTold'
  BY <1>1 DEF ToolsTold, GoingWell
<1> QED BY <1>2, <1>3 DEF ToolsInv

LEMMA SaysNoTool ==
  ASSUME IsSequence(out), ToolsInv, UNCHANGED <<pipe, local, up>>,
         NEW ws, Avoids(ws, Plainly), ~gone' => ~gone /\ out' = out \o ws
  PROVE  ToolsInv'
<1>1. CallsKnown' /\ BlocksKnown' /\ ItemsKnown' /\ ToolCountsKnown' /\ StillOpen' = StillOpen
  <2>1. pipe = "anthropicToOpenAI" /\ up'.fate = "complete" => up.stage # "tool"
    BY DEF ToolsInv, BlocksKnown
  <2> QED BY <2>1, NoCallsNoted
<1>2. ToolsTold'
  BY <1>1, ToldOn DEF ToolsInv, GoingWell
<1> QED BY <1>1, <1>2 DEF ToolsInv

LEMMA WritesNoTool ==
  ASSUME TypeOK, ToolsInv, UNCHANGED <<pipe, local, up>>, NEW ws, Avoids(ws, Plainly), Write(ws)
  PROVE  ToolsInv'
<1>1. IsSequence(ws) /\ IsSequence(out)
  BY DEF Avoids, TypeOK
<1>2. ~gone' => ~gone /\ out' = out \o ws
  BY <1>1, WriteFacts
<1> QED BY <1>1, <1>2, SaysNoTool

(* The stream ends well.                                                    *)
LEMMA FinishKeepsTools ==
  ASSUME TypeOK, ToolsInv, UNCHANGED <<pipe, local>>, Sends("complete"), up.fate = "open",
         pipe = "anthropicToOpenAI" => up.stage # "tool",
         NEW ws, Avoids(ws, Plainly), Reply(ws, TRUE, FALSE)
  PROVE  ToolsInv'
<1>1. /\ DOMAIN up' = DOMAIN up /\ \A x \in DOMAIN up \ {"fate"} : up'[x] = up[x]
  BY DEF Sends
<1>2. /\ CallsKnown' /\ BlocksKnown' /\ ItemsKnown' /\ ToolCountsKnown' /\ StillOpen' = StillOpen
  BY <1>1, NoCallsNoted
<1>3. up'.calls = up.calls /\ GoingWell
  BY <1>1 DEF ToolsInv, CallsKnown, GoingWell
<1>4. IsSequence(ws) /\ IsSequence(out)
  BY DEF Avoids, TypeOK
<1>5. ~gone' => ~gone /\ out' = out \o ws
  BY <1>4, ReplyFacts
<1>6. ToolsTold'
  BY <1>2, <1>3, <1>4, <1>5, ToldOn DEF ToolsInv
<1> QED BY <1>2, <1>6 DEF ToolsInv

LEMMA CloseKeepsTools ==
  ASSUME TypeOK, ToolsInv, NEW ws, Avoids(ws, Plainly), Close(ws)
  PROVE  ToolsInv'
<1>1. IsSequence(ws) /\ IsSequence(out)
  BY DEF Avoids, TypeOK
<1>2. UNCHANGED <<pipe, local, up>> /\ (~gone' => ~gone /\ out' = out \o ws)
  BY <1>1, CloseFacts
<1> QED BY <1>1, <1>2, SaysNoTool

LEMMA EndKeepsTools ==
  ASSUME TypeOK, ToolsInv, EndUnlessTerminal
  PROVE  ToolsInv'
BY CloseKeepsTools, NothingAvoids, ErrorsAvoid DEF EndUnlessTerminal

-----------------------------------------------------------------------------
(* Calls through PipeAnthropicToOpenAI: blocks come one after the other, so *)
(* that the current call is the last one.                                   *)

LEMMA AnthropicToolsKept ==
  ASSUME Core, ToolsInv, StepAnthropicToOpenAI
  PROVE  ToolsInv'
<1>1. pipe = "anthropicToOpenAI" /\ UNCHANGED pipe /\ pipe \notin NativeGemini
  BY DEF StepAnthropicToOpenAI, MessageStart, TextStart, TextDelta, ToolStart, ToolDelta, BlockStop,
         MessageDelta, MessageStop, AnthropicError, AnthropicGarbage, Event, Read,
         EndUnlessTerminal, Close, NativeGemini
<1>2. ASSUME NEW stage, Event(stage)
      PROVE  phase = "loop" /\ up.stage = stage /\ up.fate = "open" /\ ~gone
  BY <1>1, <1>2 DEF Event, Read, Core, Undecided, Present
<1>3. /\ TypeOK /\ IsSequence(out) /\ "fate" \in DOMAIN up /\ "calls" \in DOMAIN up
      /\ up.calls \in SingleCalls
      /\ "stage" \in DOMAIN up /\ {"toolCount", "currentTool", "argsSeen"} \subseteq DOMAIN local
      /\ local.toolCount = Len(up.calls)
      /\ up.stage # "tool" => local.currentTool = NoTool
  BY <1>1 DEF Core, TypeOK, ToolsInv, CallsKnown, BlocksKnown
<1>4. ItemsKnown' /\ ToolCountsKnown'
  BY <1>1 DEF ItemsKnown, ToolCountsKnown
(* What does not belong to a call. *)
<1>5. ASSUME up.stage # "tool", DOMAIN up' = DOMAIN up, up'.calls = up.calls, up'.fate = up.fate,
             up'.stage # "tool", DOMAIN local' = DOMAIN local,
             local'.toolCount = local.toolCount, local'.currentTool = local.currentTool,
             NEW ws, Avoids(ws, Plainly), Write(ws)
      PROVE  ToolsInv'
  <2>1. StillOpen' = StillOpen /\ GoingWell' = GoingWell
    BY <1>5 DEF StillOpen, GoingWell
  <2>2. CallsKnown' /\ BlocksKnown'
    BY <1>1, <1>3, <1>5 DEF CallsKnown, BlocksKnown
  <2>3. IsSequence(ws)
    BY <1>5 DEF Avoids
  <2>4. ~gone' => ~gone /\ out' = out \o ws
    BY <1>3, <1>5, <2>3, WriteFacts
  <2>5. ToolsTold'
    BY <1>1, <1>3, <1>5, <2>1, <2>4, ToldOn DEF ToolsInv
  <2> QED BY <1>4, <2>2, <2>5 DEF ToolsInv
<1>6. CASE MessageStart
  <2>1. PICK u \in BlocksOf({"input", "output", "read"}, MaxCount) :
          /\ local' = [local EXCEPT !.input = Count(u, "input"), !.output = Count(u, "output")]
          /\ up' = [up EXCEPT !.stage = "idle", !.early = DOMAIN u \ {"output"} # {}]
    BY <1>6 DEF MessageStart
  <2>2. /\ DOMAIN local' = DOMAIN local /\ local'.toolCount = local.toolCount
        /\ local'.currentTool = local.currentTool
    BY <1>3, <2>1
  <2>3. /\ DOMAIN up' = DOMAIN up /\ up'.calls = up.calls /\ up'.fate = up.fate
        /\ up'.stage = "idle" /\ up.stage # "tool"
    BY <1>2, <1>3, <1>6, <2>1 DEF MessageStart
  <2>4. Avoids(<<Plain("role")>>, Plainly)
    BY OneAvoids DEF Plain, Plainly
  <2>5. Write(<<Plain("role")>>)
    BY <1>6 DEF MessageStart
  <2> QED BY <1>5, <2>2, <2>3, <2>4, <2>5
<1>7. CASE TextStart
  <2>1. /\ DOMAIN up' = DOMAIN up /\ up'.calls = up.calls /\ up'.fate = up.fate
        /\ up'.stage = "text" /\ up.stage # "tool"
    BY <1>2, <1>3, <1>7 DEF TextStart, Moves
  <2>2. Write(<<>>) /\ local' = local
    BY <1>7 DEF TextStart
  <2> QED BY <1>5, <2>1, <2>2, NothingAvoids
<1>8. CASE TextDelta
  <2>1. Avoids(<<Plain("content")>>, Plainly)
    BY OneAvoids DEF Plain, Plainly
  <2> QED BY <1>1, <1>3, <1>8, <2>1, WritesNoTool DEF TextDelta
<1>9. CASE ToolStart
  <2> DEFINE n == Len(up.calls)
             ws == <<Chunk("tool", 0, n, 0)>>
             call == [choice |-> 0, parts |-> 0]
  <2>1. /\ up' = [up EXCEPT !.stage = "tool", !.calls = Append(@, call)]
        /\ local' = [local EXCEPT !.sawTool = TRUE, !.currentTool = local.toolCount,
                                  !.toolCount = @ + 1, !.argsSeen = FALSE]
        /\ Write(ws)
    BY <1>3, <1>9 DEF ToolStart, ToolChunk
  <2>2. up.stage = "idle" /\ up.fate = "open" /\ ~gone
    BY <1>2, <1>9 DEF ToolStart
  <2>3. /\ DOMAIN up' = DOMAIN up /\ up'.calls = Append(up.calls, call)
        /\ up'.fate = up.fate /\ up'.stage = "tool"
    BY <1>3, <2>1
  <2>4. /\ DOMAIN local' = DOMAIN local /\ local'.toolCount = local.toolCount + 1
        /\ local'.currentTool = local.toolCount /\ local'.argsSeen = FALSE
    BY <1>3, <2>1
  <2>5. /\ n \in Nat /\ up'.calls \in SingleCalls /\ Len(up'.calls) = n + 1
        /\ up'.calls[n + 1] = call
    <3>1. up.calls \in Seq([choice : {0}, parts : Nat]) /\ call \in [choice : {0}, parts : Nat]
      BY <1>3 DEF SingleCalls
    <3> HIDE DEF call
    <3> QED BY <2>3, <3>1 DEF SingleCalls
  <2>6. CallsKnown' /\ BlocksKnown'
    <3>1. (n + 1) - 1 = n /\ n + 1 # 0 /\ up'.calls[n + 1].parts = 0
      BY <2>5
    <3> HIDE DEF n, ws, call
    <3> QED BY <1>1, <1>3, <2>2, <2>3, <2>4, <2>5, <3>1 DEF n, CallsKnown, BlocksKnown
  <2>7. IsSequence(ws)
    BY OneChunk
  <2>8. ~gone' => out' = out \o ws
    BY <1>3, <2>1, <2>7, WriteFacts
  <2>9. CallsTold(pipe, out, up.calls, 0)
    BY <1>1, <2>2 DEF ToolsInv, ToolsTold, GoingWell, StillOpen
  <2>10. CallsTold(pipe, out \o ws, Append(up.calls, call), n + 1)
    BY <1>3, <2>9, CallAnnounced
  <2>11. StillOpen' = n + 1
    BY <1>1, <2>3, <2>5 DEF StillOpen
  <2>12. ToolsTold'
    <3> HIDE DEF n, ws, call
    <3> QED BY <1>1, <2>3, <2>8, <2>10, <2>11 DEF ToolsTold
  <2> QED BY <1>4, <2>6, <2>12 DEF ToolsInv
<1>10. CASE ToolDelta
  <2> DEFINE n == Len(up.calls)
             ws == <<Chunk("args", 0, n - 1, "part")>>
             new == [up.calls EXCEPT ![n].parts = @ + 1]
  <2>1. up.stage = "tool" /\ up.fate = "open" /\ ~gone
    BY <1>2, <1>10 DEF ToolDelta
  <2>2. /\ n # 0 /\ local.currentTool = n - 1
        /\ n \in Nat /\ DOMAIN up.calls = 1..n
        /\ \A k \in DOMAIN up.calls : up.calls[k].parts \in Nat
    BY <1>1, <1>3, <2>1, SingleCallFacts DEF ToolsInv, BlocksKnown
  <2>3. /\ up' = [up EXCEPT !.calls[n].parts = @ + 1]
        /\ local' = [local EXCEPT !.argsSeen = TRUE] /\ Write(ws)
    BY <1>10, <2>2 DEF ToolDelta, ToolChunk
  <2>4. /\ DOMAIN up' = DOMAIN up /\ up'.calls = new
        /\ up'.fate = up.fate /\ up'.stage = "tool"
    BY <1>3, <2>1, <2>3
  <2>5. /\ DOMAIN local' = DOMAIN local /\ local'.toolCount = local.toolCount
        /\ local'.currentTool = local.currentTool /\ local'.argsSeen = TRUE
    BY <1>3, <2>3
  <2>6. CallsTold(pipe, out, up.calls, n)
    BY <1>1, <2>1 DEF ToolsInv, ToolsTold, GoingWell, StillOpen
  <2>7. n \in DOMAIN up.calls
    BY <2>2
  <2>8. /\ new \in SingleCalls /\ Len(new) = n
        /\ CallsTold(pipe, out \o ws, new, n)
    BY <1>3, <2>6, <2>7, FragmentTold
  <2>9. new[n].parts # 0
    BY <2>2, <2>7
  <2> HIDE DEF new
  <2>10. CallsKnown' /\ BlocksKnown'
    <3> HIDE DEF n, ws
    <3> QED BY <1>1, <1>3, <2>1, <2>2, <2>4, <2>5, <2>8, <2>9 DEF n, CallsKnown, BlocksKnown
  <2>11. IsSequence(ws)
    BY OneChunk
  <2>12. ~gone' => out' = out \o ws
    BY <1>3, <2>3, <2>11, WriteFacts
  <2>13. StillOpen' = n
    BY <1>1, <2>4, <2>8 DEF StillOpen
  <2>14. ToolsTold'
    <3> HIDE DEF n, ws
    <3> QED BY <1>1, <2>4, <2>8, <2>12, <2>13 DEF ToolsTold
  <2> QED BY <1>4, <2>10, <2>14 DEF ToolsInv
<1>11. CASE BlockStop
  <2> DEFINE ws == IF local.currentTool # NoTool /\ ~local.argsSeen
                   THEN <<ToolChunk("args", local.currentTool, "empty")>> ELSE <<>>
  <2>1. /\ Moves("idle") /\ local' = [local EXCEPT !.currentTool = NoTool] /\ Write(ws)
    BY <1>11 DEF BlockStop
  <2>2. up.fate = "open" /\ ~gone /\ up.stage \in {"text", "tool"}
    BY <1>2, <1>11 DEF BlockStop
  <2>3. /\ DOMAIN up' = DOMAIN up /\ up'.calls = up.calls /\ up'.fate = up.fate
        /\ up'.stage = "idle"
    BY <1>3, <2>1 DEF Moves
  <2>4. /\ DOMAIN local' = DOMAIN local /\ local'.toolCount = local.toolCount
        /\ local'.currentTool = NoTool
    BY <1>3, <2>1
  <2>5. CASE up.stage = "text"
    <3>1. Write(<<>>) /\ local'.currentTool = local.currentTool
      BY <1>3, <2>1, <2>4, <2>5
    <3> QED BY <1>5, <2>3, <2>4, <2>5, <3>1, NothingAvoids
  <2>6. CASE up.stage = "tool"
    <3> DEFINE n == Len(up.calls)
    <3>1. /\ n # 0 /\ local.currentTool = n - 1 /\ local.argsSeen \in BOOLEAN
          /\ (local.argsSeen <=> up.calls[n].parts # 0) /\ n \in Nat
      BY <1>1, <1>3, <2>6, SingleCallFacts DEF ToolsInv, BlocksKnown
    <3>2. local.currentTool # NoTool
      BY <3>1 DEF NoTool
    <3>3. /\ IsSequence(ws) /\ (\A c : Tools(ws, c) = {})
          /\ (\A i \in Nat : i # n - 1 => Arguments(ws, i) = {})
          /\ Arguments(ws, n - 1) = IF up.calls[n].parts = 0 THEN {1} ELSE {}
          /\ up.calls[n].parts = 0 => ws[1].value = "empty"
      <4>1. CASE local.argsSeen
        <5>1. ws = <<>> /\ up.calls[n].parts # 0
          BY <3>1, <4>1
        <5> HIDE DEF ws
        <5> QED BY <5>1, NothingAvoids, AvoidsNone
      <4>2. CASE ~local.argsSeen
        <5>1. ws = <<Chunk("args", 0, n - 1, "empty")>> /\ up.calls[n].parts = 0
          BY <3>1, <3>2, <4>2 DEF ToolChunk
        <5> HIDE DEF ws
        <5>2. Chunk("args", 0, n - 1, "empty").value = "empty"
          BY DEF Chunk
        <5> QED BY <5>1, <5>2, OneChunk
      <4> QED BY <3>1, <4>1, <4>2
    <3> HIDE DEF ws
    <3>4. CallsTold("anthropicToOpenAI", out, up.calls, n)
      BY <1>1, <2>2, <2>6 DEF ToolsInv, ToolsTold, GoingWell, StillOpen
    <3>5. CallsTold("anthropicToOpenAI", out \o ws, up.calls, 0)
      BY <1>3, <3>1, <3>3, <3>4, CallCompleted
    <3>6. ~gone' => out' = out \o ws
      BY <1>3, <2>1, <3>3, WriteFacts
    <3>7. StillOpen' = 0
      BY <1>1, <2>3 DEF StillOpen
    <3>8. ToolsTold'
      BY <1>1, <2>3, <3>5, <3>6, <3>7 DEF ToolsTold
    <3>9. CallsKnown' /\ BlocksKnown'
      BY <1>1, <1>3, <2>3, <2>4 DEF CallsKnown, BlocksKnown
    <3> QED BY <1>4, <3>8, <3>9 DEF ToolsInv
  <2> QED BY <2>2, <2>5, <2>6
<1>12. CASE MessageDelta
  <2>1. PICK u \in BlocksOf({"input", "output"}, MaxCount), reason \in {"tool_use", "end_turn", "max_tokens"} :
          local' = [local EXCEPT
                      !.stopReason = reason,
                      !.output = IF "output" \in DOMAIN u THEN Larger(@, u["output"]) ELSE @]
    BY <1>12 DEF MessageDelta
  <2>2. /\ DOMAIN local' = DOMAIN local /\ local'.toolCount = local.toolCount
        /\ local'.currentTool = local.currentTool
    BY <1>3, <2>1
  <2>3. up.stage \in {"idle", "tail"} /\ Moves("tail") /\ Write(<<>>)
    BY <1>2, <1>12 DEF MessageDelta
  <2>4. /\ DOMAIN up' = DOMAIN up /\ up'.calls = up.calls /\ up'.fate = up.fate
        /\ up'.stage = "tail" /\ up.stage # "tool"
    BY <1>3, <2>3 DEF Moves
  <2> QED BY <1>5, <2>2, <2>3, <2>4, NothingAvoids
<1>13. CASE MessageStop
  <2> DEFINE finish == <<Chunk("finish", 0, 0, openAIFinishReason)>>
             told == UsageChunk(local.input, local.output)
             done == <<Plain("done")>>
             ws == finish \o told \o done
  <2>1. /\ up.stage # "tool" /\ up.fate = "open" /\ Sends("complete") /\ local' = local
        /\ Reply(ws, TRUE, FALSE)
    <3>1. Event("idle") \/ Event("tail")
      BY <1>13 DEF MessageStop
    <3>2. Sends("complete") /\ local' = local
      BY <1>13 DEF MessageStop
    <3>3. Reply(ws, TRUE, FALSE)
      BY <1>13 DEF MessageStop
    <3>4. up.fate = "open" /\ up.stage # "tool"
      BY <1>2, <3>1
    <3> QED BY <3>2, <3>3, <3>4
  <2>2. Avoids(finish, Plainly) /\ Avoids(done, Plainly)
    BY OneAvoids DEF Plain, Plainly
  <2>3. Avoids(told, Plainly)
    <3>1. Avoids(<<Chunk("usage", 0, 0, [input |-> local.input, output |-> local.output])>>, Plainly)
      BY OneAvoids DEF Plainly
    <3> QED BY <3>1, NothingAvoids DEF UsageChunk
  <2> HIDE DEF finish, told, done
  <2>4. Avoids(ws, Plainly)
    BY <2>2, <2>3, BothAvoid
  <2> HIDE DEF ws
  <2> QED BY <1>1, <1>3, <2>1, <2>4, FinishKeepsTools
<1>14. CASE AnthropicError
  <2>1. local' = local /\ (Sends("failed") \/ Sends("named"))
    BY <1>14 DEF AnthropicError
  <2> QED BY <1>1, <1>3, <2>1, FailKeepsTools
<1>15. CASE AnthropicGarbage
  BY <1>1, <1>3, <1>15, FailKeepsTools DEF AnthropicGarbage
<1>16. CASE EndUnlessTerminal
  BY <1>3, <1>16, EndKeepsTools
<1> QED BY <1>6, <1>7, <1>8, <1>9, <1>10, <1>11, <1>12, <1>13, <1>14, <1>15, <1>16
        DEF StepAnthropicToOpenAI

-----------------------------------------------------------------------------
(* Calls through PipeResponsesToOpenAI: the items are numbered in the order *)
(* of their announcement, and each is filled under its own number.          *)

LEMMA ResponsesToolsKept ==
  ASSUME Core, ToolsInv, StepResponsesToOpenAI
  PROVE  ToolsInv'
<1>1. pipe = "responsesToOpenAI" /\ UNCHANGED pipe /\ pipe \notin NativeGemini
  BY DEF StepResponsesToOpenAI, OpenTurn, OutputDelta, ItemRepeated, ArgumentsUnknown, ItemAdded,
         ArgumentsDelta, ArgumentsTooLong, ItemDone, Completed, ResponseFailed, ResponsesGarbage,
         ResponsesEvent, Read, EndUnlessTerminal, Close, NativeGemini
<1>2. ASSUME ResponsesEvent
      PROVE  up.fate = "open" /\ ~gone
  BY <1>1, <1>2 DEF ResponsesEvent, Read, Core, Undecided, Present
<1>3. /\ TypeOK /\ IsSequence(out) /\ "fate" \in DOMAIN up /\ "calls" \in DOMAIN up
      /\ up.calls \in SingleCalls
      /\ {"order", "done"} \subseteq DOMAIN up /\ {"toolIndex", "arguments"} \subseteq DOMAIN local
      /\ up.order \in Seq(Items) /\ Len(up.order) = Len(up.calls)
      /\ \A j, k \in DOMAIN up.order : up.order[j] = up.order[k] => j = k
      /\ DOMAIN local.toolIndex = Announced /\ DOMAIN local.arguments = Announced
      /\ IsFiniteSet(Announced) /\ Cardinality(Announced) = Len(up.order)
      /\ \A k \in DOMAIN up.order : /\ local.toolIndex[up.order[k]] = k - 1
                                    /\ local.arguments[up.order[k]] = up.calls[k].parts
  BY <1>1 DEF Core, TypeOK, ToolsInv, CallsKnown, ItemsKnown
<1>4. BlocksKnown' /\ ToolCountsKnown'
  BY <1>1 DEF BlocksKnown, ToolCountsKnown
<1> DEFINE n == Len(up.calls)
<1>5. n \in Nat /\ DOMAIN up.calls = 1..n /\ DOMAIN up.order = 1..n
  BY <1>3, SingleCallFacts
<1>6. ASSUME ResponsesEvent PROVE CallsTold(pipe, out, up.calls, 0)
  BY <1>1, <1>2, <1>6 DEF ToolsInv, ToolsTold, GoingWell, StillOpen
<1>7. StillOpen' = 0
  BY <1>1 DEF StillOpen
<1>8. CASE OpenTurn
  <2>1. Avoids(<<Plain("role")>>, Plainly)
    BY OneAvoids DEF Plain, Plainly
  <2> QED BY <1>1, <1>3, <1>8, <2>1, WritesNoTool DEF OpenTurn
<1>9. CASE OutputDelta
  <2>1. Avoids(<<Plain("content")>>, Plainly)
    BY OneAvoids DEF Plain, Plainly
  <2> QED BY <1>1, <1>3, <1>9, <2>1, WritesNoTool DEF OutputDelta
<1>10. CASE ItemRepeated
  BY <1>1, <1>3, <1>10, NothingAvoids, WritesNoTool DEF ItemRepeated
<1>11. CASE ArgumentsUnknown
  BY <1>1, <1>3, <1>11, FailKeepsTools DEF ArgumentsUnknown
<1>12. ASSUME NEW i \in Items, ItemAdded(i) PROVE ToolsInv'
  <2> DEFINE ws == <<Chunk("tool", 0, n, 0)>>
             call == [choice |-> 0, parts |-> 0]
  <2>1. ResponsesEvent /\ i \notin Announced
    BY <1>12 DEF ItemAdded
  <2>2. /\ up' = [up EXCEPT !.order = Append(@, i), !.calls = Append(@, call)]
        /\ local' = [local EXCEPT !.toolIndex = With(@, i, Cardinality(DOMAIN @)),
                                  !.arguments = With(@, i, 0)]
        /\ Write(<<Chunk("tool", 0, Cardinality(DOMAIN local.toolIndex), 0)>>)
    BY <1>12 DEF ItemAdded
  <2>3. Cardinality(DOMAIN local.toolIndex) = n
    BY <1>3
  <2>4. /\ DOMAIN up' = DOMAIN up /\ up'.calls = Append(up.calls, call)
        /\ up'.order = Append(up.order, i) /\ up'.fate = up.fate
    BY <1>3, <2>2
  <2>5. /\ DOMAIN local' = DOMAIN local
        /\ local'.toolIndex = With(local.toolIndex, i, n)
        /\ local'.arguments = With(local.arguments, i, 0)
    BY <1>3, <2>2, <2>3
  <2>6. /\ up'.calls \in SingleCalls /\ Len(up'.calls) = n + 1
        /\ up'.calls[n + 1] = call /\ \A k \in 1..n : up'.calls[k] = up.calls[k]
    <3>1. up.calls \in Seq([choice : {0}, parts : Nat]) /\ call \in [choice : {0}, parts : Nat]
      BY <1>3 DEF SingleCalls
    <3> HIDE DEF call
    <3> QED BY <2>4, <3>1 DEF SingleCalls
  <2>7. /\ up'.order \in Seq(Items) /\ Len(up'.order) = n + 1 /\ DOMAIN up'.order = 1..(n + 1)
        /\ up'.order[n + 1] = i /\ \A k \in 1..n : up'.order[k] = up.order[k]
    BY <1>3, <2>4
  <2>8. \A k \in 1..n : up.order[k] \in Announced /\ up.order[k] # i
    BY <1>5, <2>1 DEF Announced, Range
  <2>9. Announced' = Announced \cup {i}
    <3>1. Announced' = {up'.order[k] : k \in 1..(n + 1)}
      BY <2>7 DEF Announced, Range
    <3>2. Announced = {up.order[k] : k \in 1..n}
      BY <1>5 DEF Announced, Range
    <3>3. \A k \in 1..(n + 1) : k \in 1..n \/ k = n + 1
      BY <1>5
    <3>4. \A k \in 1..n : k \in 1..(n + 1)
      BY <1>5
    <3>5. n + 1 \in 1..(n + 1)
      BY <1>5
    <3> HIDE DEF n
    <3> QED BY <2>7, <3>1, <3>2, <3>3, <3>4, <3>5
  <2>10. IsFiniteSet(Announced') /\ Cardinality(Announced') = n + 1
    BY <1>3, <2>1, <2>9, FS_AddElement
  <2>11. /\ DOMAIN local'.toolIndex = Announced' /\ DOMAIN local'.arguments = Announced'
         /\ local'.toolIndex[i] = n /\ local'.arguments[i] = 0
         /\ \A j \in Announced : j # i => /\ local'.toolIndex[j] = local.toolIndex[j]
                                          /\ local'.arguments[j] = local.arguments[j]
    BY <1>3, <2>5, <2>9 DEF With
  <2>12. ASSUME NEW k \in 1..(n + 1)
         PROVE  /\ local'.toolIndex[up'.order[k]] = k - 1
                /\ local'.arguments[up'.order[k]] = up'.calls[k].parts
    <3>1. CASE k = n + 1
      BY <1>5, <2>6, <2>7, <2>11, <3>1
    <3>2. CASE k # n + 1
      <4>1. k \in 1..n
        BY <1>5, <3>2
      <4>2. up'.order[k] = up.order[k] /\ up.order[k] \in Announced /\ up.order[k] # i
        BY <2>7, <2>8, <4>1
      <4>3. /\ local'.toolIndex[up.order[k]] = k - 1
            /\ local'.arguments[up.order[k]] = up.calls[k].parts
        BY <1>3, <1>5, <2>11, <4>1, <4>2
      <4> QED BY <2>6, <4>1, <4>2, <4>3
    <3> QED BY <3>1, <3>2
  <2>13. ASSUME NEW j \in 1..(n + 1), NEW k \in 1..(n + 1), up'.order[j] = up'.order[k] PROVE j = k
    BY <1>5, <2>12, <2>13
  <2>14. CallsKnown' /\ ItemsKnown'
    <3>1. {"order", "done"} \subseteq DOMAIN up' /\ {"toolIndex", "arguments"} \subseteq DOMAIN local'
      BY <1>3, <2>4, <2>5
    <3>2. \A j, k \in DOMAIN up'.order : up'.order[j] = up'.order[k] => j = k
      BY <2>7, <2>13
    <3> HIDE DEF n
    <3> QED BY <1>1, <1>3, <2>4, <2>6, <2>7, <2>10, <2>11, <2>12, <3>1, <3>2 DEF CallsKnown, ItemsKnown
  <2>15. CallsTold(pipe, out \o ws, Append(up.calls, call), 0)
    BY <1>1, <1>3, <1>6, <2>1, CallAnnounced
  <2>16. ~gone' => out' = out \o ws
    BY <1>3, <2>2, <2>3, OneChunk, WriteFacts
  <2>17. ToolsTold'
    <3> HIDE DEF n, ws, call
    <3> QED BY <1>1, <1>7, <2>4, <2>15, <2>16 DEF ToolsTold
  <2> QED BY <1>4, <2>14, <2>17 DEF ToolsInv
<1>13. ASSUME NEW i \in Announced
       PROVE  Place(i) \in 1..n /\ up.order[Place(i)] = i /\ local.toolIndex[i] = Place(i) - 1
  <2>1. \E k \in DOMAIN up.order : up.order[k] = i
    BY DEF Announced, Range
  <2>2. Place(i) \in DOMAIN up.order /\ up.order[Place(i)] = i
    BY <2>1 DEF Place
  <2> QED BY <1>3, <1>5, <2>2
<1>14. ASSUME NEW i \in Items, ArgumentsDelta(i) PROVE ToolsInv'
  <2> DEFINE p == Place(i)
             ws == <<Chunk("args", 0, p - 1, "part")>>
             new == [up.calls EXCEPT ![p].parts = @ + 1]
  <2>1. ResponsesEvent /\ i \in Announced
    BY <1>14 DEF ArgumentsDelta
  <2>2. p \in 1..n /\ up.order[p] = i /\ local.toolIndex[i] = p - 1 /\ p \in DOMAIN up.calls
    BY <1>5, <1>13, <2>1
  <2>3. /\ up' = [up EXCEPT !.calls[p].parts = @ + 1]
        /\ local' = [local EXCEPT !.arguments[i] = @ + 1] /\ Write(ws)
    BY <1>14, <2>2 DEF ArgumentsDelta
  <2>4. /\ DOMAIN up' = DOMAIN up /\ up'.calls = new /\ up'.order = up.order /\ up'.fate = up.fate
    BY <1>3, <2>3
  <2>5. /\ DOMAIN local' = DOMAIN local /\ local'.toolIndex = local.toolIndex
        /\ local'.arguments = [local.arguments EXCEPT ![i] = @ + 1]
    BY <1>3, <2>3
  <2>6. CallsTold(pipe, out, up.calls, 0)
    BY <1>6, <2>1
  <2>7. /\ new \in SingleCalls /\ Len(new) = n
        /\ CallsTold(pipe, out \o ws, new, 0)
    <3>1. p \in DOMAIN up.calls /\ pipe # "anthropicToOpenAI"
      BY <1>1, <2>2
    <3> HIDE DEF p, n
    <3> QED BY <1>3, <2>6, <3>1, FragmentTold DEF n
  <2>8. new[p].parts = up.calls[p].parts + 1 /\ \A k \in 1..n : k # p => new[k] = up.calls[k]
    <3>1. \A k \in DOMAIN up.calls : up.calls[k] \in [choice : {0}, parts : Nat]
      BY <1>3, SingleCallFacts
    <3> HIDE DEF p
    <3> QED BY <1>5, <2>2, <3>1
  <2> HIDE DEF new
  <2>9. ASSUME NEW k \in DOMAIN up.order
        PROVE  /\ local'.toolIndex[up.order[k]] = k - 1
               /\ local'.arguments[up.order[k]] = new[k].parts
    <3>1. local.toolIndex[up.order[k]] = k - 1 /\ local.arguments[up.order[k]] = up.calls[k].parts
      BY <1>3
    <3>2. up.order[k] \in Announced
      BY DEF Announced, Range
    <3>3. k # p => up.order[k] # i
      BY <1>3, <1>5, <2>2
    <3> HIDE DEF p
    <3> QED BY <1>3, <1>5, <2>1, <2>2, <2>5, <2>8, <3>1, <3>2, <3>3
  <2>10. CallsKnown' /\ ItemsKnown'
    <3>1. Announced' = Announced
      BY <2>4 DEF Announced
    <3>2. DOMAIN local'.toolIndex = Announced /\ DOMAIN local'.arguments = Announced
      BY <1>3, <2>5
    <3> HIDE DEF p, n
    <3> QED BY <1>1, <1>3, <2>4, <2>5, <2>7, <2>9, <3>1, <3>2 DEF n, CallsKnown, ItemsKnown
  <2>11. ~gone' => out' = out \o ws
    BY <1>3, <2>3, OneChunk, WriteFacts
  <2>12. ToolsTold'
    <3> HIDE DEF n, p, ws
    <3> QED BY <1>1, <1>7, <2>4, <2>7, <2>11 DEF ToolsTold
  <2> QED BY <1>4, <2>10, <2>12 DEF ToolsInv
<1>15. ASSUME NEW i \in Items, ArgumentsTooLong(i) PROVE ToolsInv'
  BY <1>1, <1>3, <1>15, FailKeepsTools DEF ArgumentsTooLong
<1>16. ASSUME NEW i \in Items, ItemDone(i) PROVE ToolsInv'
  <2>1. ResponsesEvent /\ local' = local
    BY <1>16 DEF ItemDone
  <2>2. CASE Sends("garbled")
    BY <1>1, <1>3, <2>1, <2>2, FailKeepsTools
  <2>3. ASSUME NEW parts, i \in DOMAIN local.arguments, local.arguments[i] = parts,
               up' = [up EXCEPT !.done = @ \cup {i}, !.calls[Place(i)].parts = parts], Write(<<>>)
        PROVE  ToolsInv'
    <3> DEFINE p == Place(i)
               new == [up.calls EXCEPT ![p].parts = parts]
    <3>1. p \in 1..n /\ up.order[p] = i /\ p \in DOMAIN up.order
      BY <1>3, <1>5, <1>13, <2>3
    <3>2. up.calls[p].parts = parts
      BY <1>3, <2>3, <3>1
    <3>3. /\ DOMAIN up' = DOMAIN up /\ up'.calls = new /\ up'.order = up.order /\ up'.fate = up.fate
      BY <1>3, <2>3
    <3>4. new = up.calls
      <4> HIDE DEF p
      <4>1. /\ up.calls \in [1..n -> [choice : {0}, parts : Nat]]
            /\ up.calls[p] \in [choice : {0}, parts : Nat]
        BY <1>3, <1>5, <3>1, SingleCallFacts DEF SingleCalls
      <4>2. [up.calls[p] EXCEPT !.parts = parts] = up.calls[p]
        BY <3>2, <4>1
      <4>3. new = [up.calls EXCEPT ![p] = [up.calls[p] EXCEPT !.parts = parts]]
        OBVIOUS
      <4> QED BY <3>1, <4>1, <4>2, <4>3
    <3> HIDE DEF new
    <3>5. CallsKnown' /\ ItemsKnown'
      <4>1. Announced' = Announced
        BY <3>3 DEF Announced
      <4> HIDE DEF p
      <4> QED BY <1>1, <1>3, <2>1, <3>3, <3>4, <4>1 DEF CallsKnown, ItemsKnown
    <3>6. ~gone' => ~gone /\ out' = out \o <<>>
      BY <1>3, <2>3, NothingAvoids, WriteFacts DEF Avoids
    <3>7. StillOpen' = StillOpen /\ GoingWell' = GoingWell
      BY <1>1, <3>3 DEF StillOpen, GoingWell
    <3>8. ToolsTold'
      BY <1>1, <1>3, <3>3, <3>4, <3>6, <3>7, NothingAvoids, ToldOn DEF ToolsInv
    <3> QED BY <1>4, <3>5, <3>8 DEF ToolsInv
  <2> QED BY <1>16, <2>2, <2>3 DEF ItemDone
<1>17. CASE Completed
  <2>1. PICK ending \in {"completed", "incomplete"}, u \in [{"input", "output"} -> 0..MaxCount] :
          Reply(<<Chunk("finish", 0, 0, responsesFinishReason(ending))>>
                  \o (IF includeUsage THEN <<Chunk("usage", 0, 0, u)>> ELSE <<>>)
                  \o <<Plain("done")>>, TRUE, FALSE)
    BY <1>17 DEF Completed
  <2> DEFINE finish == <<Chunk("finish", 0, 0, responsesFinishReason(ending))>>
             told == IF includeUsage THEN <<Chunk("usage", 0, 0, u)>> ELSE <<>>
             done == <<Plain("done")>>
  <2>2. Reply(finish \o told \o done, TRUE, FALSE)
    BY <2>1
  <2>3. Avoids(finish, Plainly) /\ Avoids(done, Plainly)
    BY OneAvoids DEF Plain, Plainly
  <2>4. Avoids(told, Plainly)
    <3>1. Avoids(<<Chunk("usage", 0, 0, u)>>, Plainly)
      BY OneAvoids DEF Plainly
    <3> QED BY <3>1, NothingAvoids
  <2> HIDE DEF finish, told, done
  <2>5. Avoids(finish \o told \o done, Plainly)
    BY <2>3, <2>4, BothAvoid
  <2>6. Sends("complete") /\ local' = local /\ up.fate = "open"
    BY <1>2, <1>17 DEF Completed
  <2> QED BY <1>1, <1>3, <2>2, <2>5, <2>6, FinishKeepsTools
<1>18. CASE ResponseFailed
  BY <1>1, <1>3, <1>18, FailKeepsTools DEF ResponseFailed
<1>19. CASE ResponsesGarbage
  BY <1>1, <1>3, <1>19, FailKeepsTools DEF ResponsesGarbage
<1>20. CASE EndUnlessTerminal
  BY <1>3, <1>20, EndKeepsTools
<1> QED BY <1>8, <1>9, <1>10, <1>11, <1>12, <1>14, <1>15, <1>16, <1>17, <1>18, <1>19, <1>20
        DEF StepResponsesToOpenAI

-----------------------------------------------------------------------------
(* Calls through PipeGeminiToOpenAI: a packet has a call for each of its    *)
(* candidates or for none, and the candidates count on their own.           *)

(* s has one call of each choice of C, under the next number of that choice.*)
TellsNext(s, C) ==
  /\ IsSequence(s)
  /\ \A c \in C : \E p : Tools(s, c) = {p} /\ s[p].index = local.toolCounts[c]
  /\ \A c : c \notin C => Tools(s, c) = {}

LEMMA NextOfBoth ==
  ASSUME NEW s, NEW t, NEW C, NEW D, TellsNext(s, C), TellsNext(t, D), C \cap D = {}
  PROVE  TellsNext(s \o t, C \cup D)
<1>1. IsSequence(s) /\ IsSequence(t) /\ IsSequence(s \o t)
  BY ConcatSequences DEF TellsNext
<1>2. ASSUME NEW c \in C
      PROVE  \E p : Tools(s \o t, c) = {p} /\ (s \o t)[p].index = local.toolCounts[c]
  <2>1. PICK p : Tools(s, c) = {p} /\ s[p].index = local.toolCounts[c]
    BY DEF TellsNext
  <2>2. Tools(t, c) = {}
    BY DEF TellsNext
  <2>3. \A k : k \in Tools(s \o t, c) <=> k = p
    BY <1>1, <2>1, <2>2, ToolsOfBoth
  <2>4. (s \o t)[p] = s[p]
    <3>1. p \in DOMAIN s
      BY <2>1 DEF Tools
    <3> QED BY <1>1, <3>1, PlacesOfBoth
  <2> QED BY <2>1, <2>3, <2>4
<1>3. ASSUME NEW c \in D
      PROVE  \E p : Tools(s \o t, c) = {p} /\ (s \o t)[p].index = local.toolCounts[c]
  <2>1. PICK p : Tools(t, c) = {p} /\ t[p].index = local.toolCounts[c]
    BY DEF TellsNext
  <2>2. Tools(s, c) = {}
    BY DEF TellsNext
  <2>3. \A k : k \in Tools(s \o t, c) <=> k = Len(s) + p
    BY <1>1, <2>1, <2>2, ToolsOfBoth
  <2>4. (s \o t)[Len(s) + p] = t[p]
    <3>1. p \in DOMAIN t
      BY <2>1 DEF Tools
    <3> QED BY <1>1, <3>1, PlacesOfBoth
  <2>5. Tools(s \o t, c) = {Len(s) + p}
    BY <2>3
  <2> QED BY <2>1, <2>4, <2>5
<1>4. ASSUME NEW c, c \notin C \cup D PROVE Tools(s \o t, c) = {}
  <2>1. Tools(s, c) = {} /\ Tools(t, c) = {}
    BY <1>4 DEF TellsNext
  <2> QED BY <1>1, <2>1, ToolsOfBoth
<1> QED BY <1>1, <1>2, <1>3, <1>4 DEF TellsNext

LEMMA AvoidsNext ==
  ASSUME NEW s, Avoids(s, Plainly)
  PROVE  TellsNext(s, {})
BY AvoidsNone DEF TellsNext

LEMMA CandidateTellsNext ==
  ASSUME NEW c, NEW part, NEW over
  PROVE  TellsNext(CandidateChunks(c, part, over), IF part = "call" THEN {c} ELSE {})
<1> DEFINE A == IF c \notin local.announced THEN <<Chunk("role", c, 0, 0)>> ELSE <<>>
           B == IF part = "call" THEN <<Chunk("tool", c, local.toolCounts[c], 0)>>
                ELSE IF part = "text" THEN <<Chunk("content", c, 0, 0)>> ELSE <<>>
           E == IF over THEN <<Chunk("finish", c, 0, 0)>> ELSE <<>>
           C == IF part = "call" THEN {c} ELSE {}
<1>1. Avoids(A, Plainly)
  <2>1. Avoids(<<Chunk("role", c, 0, 0)>>, Plainly)
    BY OneAvoids DEF Plainly
  <2> QED BY <2>1, NothingAvoids
<1>2. Avoids(E, Plainly)
  <2>1. Avoids(<<Chunk("finish", c, 0, 0)>>, Plainly)
    BY OneAvoids DEF Plainly
  <2> QED BY <2>1, NothingAvoids
<1>3. TellsNext(B, C)
  <2>1. CASE part = "call"
    <3> DEFINE t == <<Chunk("tool", c, local.toolCounts[c], 0)>>
    <3>1. /\ IsSequence(t) /\ t[1] = Chunk("tool", c, local.toolCounts[c], 0)
          /\ Tools(t, c) = {1} /\ \A d : d # c => Tools(t, d) = {}
      BY OneChunk
    <3>2. t[1].index = local.toolCounts[c]
      BY <3>1 DEF Chunk
    <3> HIDE DEF t
    <3>3. TellsNext(t, {c})
      BY <3>1, <3>2 DEF TellsNext
    <3> QED BY <2>1, <3>3 DEF t
  <2>2. CASE part # "call"
    <3>1. Avoids(<<Chunk("content", c, 0, 0)>>, Plainly)
      BY OneAvoids DEF Plainly
    <3>2. Avoids(B, Plainly)
      BY <2>2, <3>1, NothingAvoids
    <3> HIDE DEF B
    <3> QED BY <2>2, <3>2, AvoidsNext
  <2> QED BY <2>1, <2>2
<1>4. CandidateChunks(c, part, over) = (A \o B) \o E
  BY DEF CandidateChunks
<1> HIDE DEF A, B, E, C
<1>5. TellsNext(A \o B, {} \cup C)
  BY <1>1, <1>3, AvoidsNext, NextOfBoth
<1>6. TellsNext(A \o B, C)
  <2>1. {} \cup C = C
    OBVIOUS
  <2> QED BY <1>5, <2>1
<1>7. TellsNext((A \o B) \o E, C \cup {})
  <2>1. C \cap {} = {}
    OBVIOUS
  <2> QED BY <1>2, <1>6, <2>1, AvoidsNext, NextOfBoth
<1>8. TellsNext((A \o B) \o E, C)
  <2>1. C \cup {} = C
    OBVIOUS
  <2> QED BY <1>7, <2>1
<1> QED BY <1>4, <1>8 DEF C

LEMMA FunctionIsSequence ==
  ASSUME NEW n \in Nat, NEW S, NEW f \in [1..n -> S]
  PROVE  f \in Seq(S) /\ IsSequence(f) /\ Len(f) = n /\ DOMAIN f = 1..n
<1>1. f \in Seq(S) /\ DOMAIN f = 1..n
  BY SeqDef
<1>2. Len(f) \in Nat /\ DOMAIN f = 1..Len(f)
  BY <1>1, LenProperties
<1>3. Len(f) = n
  BY <1>1, <1>2
<1> QED BY <1>1, <1>3, SequenceOver

(* What candidates that differ tell, one after the other. *)
LEMMA PacketTellsNext ==
  ASSUME NEW n \in Nat, NEW ss, IsSequence(ss), Len(ss) = n,
         NEW each, \A k \in 1..n : TellsNext(ss[k], each[k]),
         \A j, k \in 1..n : j # k => each[j] \cap each[k] = {},
         NEW all, \A c : c \in all <=> \E k \in 1..n : c \in each[k]
  PROVE  TellsNext(FlattenSeq(ss), all)
<1> DEFINE C(i) == UNION {each[k] : k \in 1..i}
<1>1. IsSequence(ss) /\ Len(ss) = n
  OBVIOUS
<1>3. ASSUME n = 0 PROVE TellsNext(FlattenSeq(ss), C(n))
  <2>1. FlattenSeq(ss) = ss
    BY <1>1, <1>3 DEF FlattenSeq
  <2>2. DOMAIN ss = {}
    BY <1>1, <1>3, SequenceFacts
  <2>3. TellsNext(ss, {})
    BY <1>1, <2>2 DEF TellsNext, Tools
  <2>4. C(n) = {}
    BY <1>3
  <2> HIDE DEF C
  <2> QED BY <2>1, <2>3, <2>4
<1>4. ASSUME n # 0 PROVE TellsNext(FlattenSeq(ss), C(n))
  <2>1. PICK f : Flattens(ss, n, f) /\ FlattenSeq(ss) = f[n]
    BY <1>1, <1>4, FlattenSeqFlattens
  <2> DEFINE S == {i \in Nat : i \in 1..n => TellsNext(f[i], C(i))}
  <2>2. 0 \in S
    OBVIOUS
  <2>3. ASSUME NEW i \in Nat, i \in S PROVE i + 1 \in S
    <3>1. SUFFICES ASSUME i + 1 \in 1..n PROVE TellsNext(f[i + 1], C(i + 1))
      OBVIOUS
    <3>2. f[i + 1] = IF i + 1 = 1 THEN ss[i + 1] ELSE f[(i + 1) - 1] \o ss[i + 1]
      BY <2>1, <3>1 DEF Flattens
    <3>3. TellsNext(ss[i + 1], each[i + 1])
      BY <3>1
    <3>4. CASE i = 0
      <4>1. C(i + 1) = each[i + 1]
        BY <3>4
      <4>2. f[i + 1] = ss[i + 1]
        BY <3>2, <3>4
      <4> HIDE DEF C
      <4> QED BY <3>3, <4>1, <4>2
    <3>5. CASE i # 0
      <4>1. (i + 1) - 1 = i /\ i + 1 # 1 /\ i \in 1..n
        BY <3>1, <3>5
      <4>2. f[i + 1] = f[i] \o ss[i + 1]
        BY <3>2, <4>1
      <4>3. TellsNext(f[i], C(i))
        BY <2>3, <4>1
      <4>4. C(i) \cap each[i + 1] = {}
        <5>1. \A k \in 1..i : k \in 1..n /\ k # i + 1
          BY <3>1
        <5> QED BY <3>1, <5>1
      <4>5. C(i + 1) = C(i) \cup each[i + 1]
        <5>1. \A k : k \in 1..(i + 1) <=> k \in 1..i \/ k = i + 1
          OBVIOUS
        <5> QED BY <5>1
      <4> HIDE DEF C
      <4>6. TellsNext(f[i] \o ss[i + 1], C(i) \cup each[i + 1])
        BY <3>3, <4>3, <4>4, NextOfBoth
      <4> QED BY <4>2, <4>5, <4>6
    <3> QED BY <3>4, <3>5
  <2> HIDE DEF S
  <2>4. Nat \subseteq S
    BY <2>2, <2>3, NatSetInduction
  <2>5. n \in S /\ n \in 1..n
    BY <1>4, <2>4
  <2>6. TellsNext(f[n], C(n))
    <3> HIDE DEF C
    <3> QED BY <2>5 DEF S
  <2> HIDE DEF C
  <2> QED BY <2>1, <2>6
<1>5. all = C(n)
  <2>1. \A c : c \in all <=> c \in C(n)
    OBVIOUS
  <2> HIDE DEF C
  <2> QED BY <2>1
<1> HIDE DEF C
<1> QED BY <1>3, <1>4, <1>5

(* The calls of the packet are added to those of their choices.             *)
CandidateCalls == [choice : Candidates, parts : {0}]
CallPlaces(calls, c) == {k \in DOMAIN calls : calls[k].choice = c}

LEMMA CallsAdded ==
  ASSUME NEW calls \in Seq(CandidateCalls), NEW t \in Seq(CandidateCalls),
         \A j, k \in DOMAIN t : t[j].choice = t[k].choice => j = k,
         NEW c
  PROVE  /\ calls \o t \in Seq(CandidateCalls)
         /\ CallPlaces(t, c) # {} =>
              Cardinality(CallPlaces(calls \o t, c)) = Cardinality(CallPlaces(calls, c)) + 1
         /\ CallPlaces(t, c) = {} =>
              Cardinality(CallPlaces(calls \o t, c)) = Cardinality(CallPlaces(calls, c))
<1> DEFINE new == calls \o t
           n == Len(t)
           P == CallPlaces(calls, c)
           Q == CallPlaces(new, c)
<1>1. n \in Nat /\ DOMAIN t = 1..n /\ \A k \in 1..n : (k \in CallPlaces(t, c) <=> t[k].choice = c)
  BY DEF CallPlaces
<1> HIDE DEF n
<1>2. new \in Seq(CandidateCalls)
  BY <1>1
<1>3. IsSequence(calls) /\ IsSequence(t)
  BY <1>1, SequenceOver
<1>4. IsFiniteSet(P) /\ Cardinality(P) \in Nat
  <2>1. P \in SUBSET (DOMAIN calls)
    BY DEF CallPlaces
  <2> QED BY <1>3, <2>1, PositionsFinite
<1>5. ASSUME NEW k
      PROVE  k \in Q <=> k \in P \/ \E j \in 1..n : k = Len(calls) + j /\ t[j].choice = c
  <2>1. ASSUME k \in Q, k \notin P PROVE \E j \in 1..n : k = Len(calls) + j /\ t[j].choice = c
    <3>1. k \in DOMAIN new /\ new[k].choice = c
      BY <2>1 DEF CallPlaces
    <3>2. k \notin DOMAIN calls
      BY <1>3, <2>1, <3>1, PlacesOfBoth DEF CallPlaces
    <3>3. k - Len(calls) \in 1..n /\ k = Len(calls) + (k - Len(calls)) /\ new[k] = t[k - Len(calls)]
      BY <1>1, <1>3, <3>1, <3>2, ConcatPlaces
    <3> QED BY <1>1, <3>1, <3>3
  <2>2. ASSUME k \in P PROVE k \in Q
    BY <1>3, <2>2, PlacesOfBoth DEF CallPlaces
  <2>3. ASSUME NEW j \in 1..n, k = Len(calls) + j, t[j].choice = c PROVE k \in Q
    BY <1>1, <1>3, <2>3, PlacesOfBoth DEF CallPlaces
  <2> QED BY <2>1, <2>2, <2>3
<1>6. CASE CallPlaces(t, c) # {}
  <2>1. PICK j \in 1..n : t[j].choice = c
    BY <1>1, <1>6 DEF CallPlaces
  <2> DEFINE q == Len(calls) + j
  <2>2. Q = P \cup {q}
    <3>1. \A i \in 1..n : t[i].choice = c => i = j
      BY <1>1, <2>1
    <3>2. \A k : k \in Q <=> k \in P \/ k = q
      BY <1>5, <2>1, <3>1
    <3> HIDE DEF P, Q
    <3> QED BY <3>2
  <2>3. q \notin P
    BY <1>1, <1>3, PlacesOfBoth DEF CallPlaces
  <2> HIDE DEF P, Q, q
  <2>4. Cardinality(Q) = Cardinality(P) + 1
    BY <1>4, <2>2, <2>3, FS_AddElement
  <2> QED BY <1>2, <1>6, <2>4 DEF P, Q
<1>7. CASE CallPlaces(t, c) = {}
  <2>1. \A k : k \in Q <=> k \in P
    BY <1>1, <1>5, <1>7
  <2> HIDE DEF P, Q
  <2>2. Q = P
    BY <2>1
  <2> QED BY <1>2, <1>7, <2>2 DEF P, Q
<1> QED BY <1>6, <1>7

LEMMA GeminiToolsKept ==
  ASSUME Core, ToolsInv, StepGeminiToOpenAI
  PROVE  ToolsInv'
<1>1. pipe = "geminiToOpenAI" /\ UNCHANGED pipe /\ pipe \notin NativeGemini
  BY DEF StepGeminiToOpenAI, GeminiPacket, GeminiError, GeminiGarbage, GeminiPacketRead, Read,
         ArrayCloses, EndGemini, Close, NativeGemini
<1>2. ASSUME GeminiPacketRead
      PROVE  up.fate = "open" /\ ~gone
  BY <1>1, <1>2 DEF GeminiPacketRead, Read, Core, Undecided, Present
<1>3. /\ TypeOK /\ IsSequence(out) /\ "fate" \in DOMAIN up /\ "calls" \in DOMAIN up
      /\ up.calls \in Seq([choice : Candidates, parts : {0}])
      /\ "toolCounts" \in DOMAIN local
      /\ \A c \in Candidates : local.toolCounts[c] = Cardinality(CallsOf(c))
      /\ \A c : CallsOf(c) = CallPlaces(up.calls, c)
  BY <1>1 DEF Core, TypeOK, ToolsInv, CallsKnown, ToolCountsKnown, CallsOf, CallPlaces
<1>4. BlocksKnown' /\ ItemsKnown'
  BY <1>1 DEF BlocksKnown, ItemsKnown
<1>5. CASE GeminiPacket
  <2>1. PICK present \in SUBSET (Candidates \ up.over), part \in {"none", "text", "call"},
             over \in BOOLEAN, u \in Running(BlocksOf(GeminiFields, MaxCount)) :
          \E order \in SetToSeqs(present) : Packet(present, order, part, over, u)
    BY <1>5 DEF GeminiPacket
  <2>2. PICK order \in SetToSeqs(present) : Packet(present, order, part, over, u)
    BY <2>1
  <2> DEFINE n == Cardinality(present)
             ws == FlattenSeq([k \in 1..n |-> CandidateChunks(order[k], part, over)])
             sent == [k \in 1..n |-> [choice |-> order[k], parts |-> 0]]
             C == IF part = "call" THEN present ELSE {}
  <2>3. IsFiniteSet(present) /\ n \in Nat
    BY CandidateAssumption, FS_Subset, FS_CardinalityType
  <2>4. /\ order \in [1..n -> present] /\ \A j, k \in 1..n : order[j] = order[k] => j = k
        /\ order \in [1..n -> Candidates]
    BY DEF SetToSeqs
  <2>5. {order[k] : k \in 1..n} = present
    <3>1. order \in Injection(1..n, present)
      BY <2>4 DEF Injection, IsInjective
    <3>2. IsFiniteSet(1..n) /\ Cardinality(1..n) = n
      <4>1. \A m \in Nat : IsFiniteSet(1..m) /\ Cardinality(1..m) = m
        BY ONLY FS_Interval
      <4> HIDE DEF n
      <4> QED BY ONLY <2>3, <4>1
    <3>3. order \in Surjection(1..n, present)
      BY <2>3, <3>1, <3>2, FS_Injection
    <3> QED BY <3>3 DEF Surjection
  <2>6. /\ up' = [up EXCEPT
                    !.begun = @ \cup present,
                    !.over = IF over THEN @ \cup present ELSE @,
                    !.calls = IF part = "call" THEN @ \o sent ELSE @,
                    !.usage = Latest(u),
                    !.steady = @ /\ (DOMAIN u = {} \/ DOMAIN up.usage \subseteq DOMAIN u)]
        /\ local' = [local EXCEPT
                       !.announced = @ \cup present,
                       !.finished = IF over THEN @ \cup present ELSE @,
                       !.toolCounts = CountsTools(present, part),
                       !.last = [f \in GeminiFields |->
                                   IF f \in DOMAIN u THEN Larger(@[f], u[f]) ELSE @[f]]]
        /\ Write(ws)
    BY <2>2 DEF Packet
  <2>7. /\ DOMAIN up' = DOMAIN up /\ up'.fate = up.fate
        /\ up'.calls = IF part = "call" THEN up.calls \o sent ELSE up.calls
    BY <1>3, <2>6
  <2>8. DOMAIN local' = DOMAIN local /\ local'.toolCounts = CountsTools(present, part)
    BY <1>3, <2>6
  <2>9. up.fate = "open" /\ ~gone
    BY <1>2, <1>5 DEF GeminiPacket
  <2>10. TellsNext(ws, C)
    <3> DEFINE ss == [k \in 1..n |-> CandidateChunks(order[k], part, over)]
               each == [k \in 1..n |-> IF part = "call" THEN {order[k]} ELSE {}]
    <3>1. IsSequence(ss) /\ Len(ss) = n
      <4>1. ss \in [1..n -> Range(ss)]
        BY DEF Range
      <4> HIDE DEF n, ss
      <4> QED BY <2>3, <4>1, FunctionIsSequence
    <3>2. ASSUME NEW k \in 1..n PROVE TellsNext(ss[k], each[k])
      BY CandidateTellsNext
    <3>3. \A j, k \in 1..n : j # k => each[j] \cap each[k] = {}
      BY <2>4
    <3>4. \A c : c \in C <=> \E k \in 1..n : c \in each[k]
      BY <2>5
    <3> HIDE DEF n, C, ss, each
    <3>5. TellsNext(FlattenSeq(ss), C)
      BY <2>3, <3>1, <3>2, <3>3, <3>4, PacketTellsNext
    <3> QED BY <3>5 DEF ss
  <2>11. /\ up'.calls \in Seq([choice : Candidates, parts : {0}])
         /\ \A c : Cardinality(CallPlaces(up'.calls, c)) =
                     IF c \in C THEN Cardinality(CallPlaces(up.calls, c)) + 1
                     ELSE Cardinality(CallPlaces(up.calls, c))
    <3>1. CASE part = "call"
      <4>1. /\ up.calls \o sent \in Seq([choice : Candidates, parts : {0}])
            /\ \A c : Cardinality(CallPlaces(up.calls \o sent, c)) =
                        IF c \in present THEN Cardinality(CallPlaces(up.calls, c)) + 1
                        ELSE Cardinality(CallPlaces(up.calls, c))
        <5>1. sent \in [1..n -> CandidateCalls]
          BY <2>4 DEF CandidateCalls
        <5>2. /\ sent \in Seq(CandidateCalls) /\ up.calls \in Seq(CandidateCalls)
              /\ DOMAIN sent = 1..n
          <6> HIDE DEF sent, n
          <6> QED BY <1>3, <2>3, <5>1, FunctionIsSequence DEF CandidateCalls
        <5>3. \A k \in 1..n : sent[k].choice = order[k]
          OBVIOUS
        <5> HIDE DEF sent, n
        <5>4. \A j, k \in DOMAIN sent : sent[j].choice = sent[k].choice => j = k
          BY <2>4, <5>2, <5>3
        <5>5. \A c : CallPlaces(sent, c) # {} <=> c \in present
          BY <2>5, <5>2, <5>3 DEF CallPlaces
        <5>6. up.calls \o sent \in Seq(CandidateCalls)
          BY <5>2
        <5> QED BY <5>2, <5>4, <5>5, <5>6, CallsAdded DEF CandidateCalls
      <4> HIDE DEF sent, n
      <4> QED BY <2>7, <3>1, <4>1
    <3>2. CASE part # "call"
      BY <1>3, <2>7, <3>2
    <3> QED BY <3>1, <3>2
  <2>12. \A c \in C : part = "call" /\ c \in present
    BY <2>5
  <2>13. \A c \in Candidates : c \in C <=> part = "call" /\ c \in present
    BY <2>5
  <2> HIDE DEF ws, sent, C, n
  <2>14. \A c : CallsOf(c)' = CallPlaces(up'.calls, c)
    BY DEF CallsOf, CallPlaces
  <2>15. CallsKnown' /\ ToolCountsKnown'
    <3>1. ASSUME NEW c \in Candidates
          PROVE  local'.toolCounts[c] = Cardinality(CallsOf(c)')
      <4>1. local'.toolCounts[c] = IF part = "call" /\ c \in present THEN local.toolCounts[c] + 1
                                   ELSE local.toolCounts[c]
        BY <2>8 DEF CountsTools
      <4> QED BY <1>3, <2>11, <2>13, <2>14, <4>1
    <3> QED BY <1>1, <1>3, <2>7, <2>8, <2>11, <3>1 DEF CallsKnown, ToolCountsKnown
  <2>16. ~gone' => out' = out \o ws
    BY <1>3, <2>6, <2>10, WriteFacts DEF TellsNext
  <2>17. ASSUME NEW c \in {0} \cup Candidates
         PROVE  Numbered(out \o ws, c, Cardinality(CallsOf(c)'))
    <3>1. Numbered(out, c, Cardinality(CallPlaces(up.calls, c)))
      BY <1>1, <1>3, <2>9 DEF ToolsInv, ToolsTold, GoingWell
    <3>2. IsSequence(ws) /\ IsSequence(out)
      BY <1>3, <2>10 DEF TellsNext
    <3>3. CASE c \in C
      <4>1. c \in Candidates
        BY <2>12, <3>3
      <4>2. PICK p : Tools(ws, c) = {p} /\ ws[p].index = local.toolCounts[c]
        BY <2>10, <3>3 DEF TellsNext
      <4>3. ws[p].index = Cardinality(CallPlaces(up.calls, c))
        BY <1>3, <4>1, <4>2
      <4>4. Numbered(out \o ws, c, Cardinality(CallPlaces(up.calls, c)) + 1)
        BY <3>1, <3>2, <4>2, <4>3, NumberedGrows
      <4> QED BY <2>11, <2>14, <3>3, <4>4
    <3>4. CASE c \notin C
      <4>1. Tools(ws, c) = {}
        BY <2>10, <3>4 DEF TellsNext
      <4>2. Numbered(out \o ws, c, Cardinality(CallPlaces(up.calls, c)))
        BY <3>1, <3>2, <4>1, NumberedStays
      <4> QED BY <2>11, <2>14, <3>4, <4>2
    <3> QED BY <3>3, <3>4
  <2>18. ToolsTold'
    BY <1>1, <2>16, <2>17 DEF ToolsTold
  <2> QED BY <1>4, <2>15, <2>18 DEF ToolsInv
<1>6. CASE GeminiError
  BY <1>1, <1>3, <1>6, FailKeepsTools DEF GeminiError
<1>7. CASE GeminiGarbage
  BY <1>1, <1>3, <1>7, FailKeepsTools DEF GeminiGarbage
<1>8. CASE ArrayCloses
  <2>1. UNCHANGED <<pipe, local, up, out, gone>>
    BY <1>8 DEF ArrayCloses
  <2>2. out' = out \o <<>>
    <3>1. out \in Seq(Range(out))
      BY <1>3 DEF IsSequence
    <3> QED BY <2>1, <3>1
  <2> QED BY <1>3, <2>1, <2>2, NothingAvoids, SaysNoTool
<1>9. CASE EndGemini
  <2>1. CASE Close(<<>>) \/ Close(ErrorChunks)
    BY <1>3, <2>1, NothingAvoids, ErrorsAvoid, CloseKeepsTools
  <2>2. CASE Close(ToldGemini \o <<Plain("done")>>)
    <3>1. Avoids(<<Plain("done")>>, Plainly)
      BY OneAvoids DEF Plain, Plainly
    <3>2. Avoids(ToldGemini, Plainly)
      <4>1. Avoids(<<Chunk("usage", 0, 0, [input |-> local.last["prompt"],
               output |-> local.last["candidates"] + local.last["thoughts"]])>>, Plainly)
        BY OneAvoids DEF Plainly
      <4> QED BY <4>1, NothingAvoids DEF ToldGemini
    <3>3. Avoids(ToldGemini \o <<Plain("done")>>, Plainly)
      BY <3>1, <3>2, BothAvoid
    <3> QED BY <1>3, <2>2, <3>3, CloseKeepsTools
  <2> QED BY <1>9, <2>1, <2>2 DEF EndGemini
<1> QED BY <1>5, <1>6, <1>7, <1>8, <1>9 DEF StepGeminiToOpenAI

-----------------------------------------------------------------------------
(* Calls through the other pipes: chunks of the Orchestration service pass  *)
(* as content, and the native pipes convert nothing.                        *)

LEMMA OthersKeepTools ==
  ASSUME Core, ToolsInv, UNCHANGED pipe,
         pipe \notin {"anthropicToOpenAI", "responsesToOpenAI", "geminiToOpenAI"},
         "calls" \in DOMAIN up', up'.calls = up.calls, GoingWell' => GoingWell,
         NEW ws, Avoids(ws, Plainly), ~gone' => ~gone /\ out' = out \o ws
  PROVE  ToolsInv'
<1>1. CallsKnown' /\ BlocksKnown' /\ ItemsKnown' /\ ToolCountsKnown'
  BY DEF ToolsInv, CallsKnown, BlocksKnown, ItemsKnown, ToolCountsKnown
<1>2. StillOpen' = StillOpen
  BY DEF StillOpen
<1>3. ToolsTold'
  BY <1>2, ToldOn DEF Core, TypeOK, ToolsInv
<1> QED BY <1>1, <1>3 DEF ToolsInv

LEMMA OrchestrationToolsKept ==
  ASSUME Core, ToolsInv, StepOrchestrationToOpenAI
  PROVE  ToolsInv'
<1>1. pipe = "orchestrationToOpenAI" /\ UNCHANGED pipe /\ pipe \notin NativeGemini
  BY DEF StepOrchestrationToOpenAI, NoFinalResult, OrchestrationChunk, OrchestrationDone,
         OrchestrationError, OrchestrationGarbage, OrchestrationFrame, Read,
         EndUnlessTerminal, Close, NativeGemini
<1>2. ASSUME OrchestrationFrame PROVE up.fate = "open"
  BY <1>1, <1>2 DEF OrchestrationFrame, Read, Core, Undecided
<1>3. TypeOK /\ IsSequence(out) /\ {"fate", "calls"} \subseteq DOMAIN up
  BY DEF Core, TypeOK, ToolsInv, CallsKnown
<1>4. CASE NoFinalResult
  BY <1>1, <1>3, <1>4, NothingAvoids, WritesNoTool DEF NoFinalResult
<1>5. CASE OrchestrationChunk
  <2> DEFINE content(choices) == IF choices # {} THEN <<Chunk("content", 0, 0, 0)>> ELSE <<>>
             told(u) == IF includeUsage /\ DOMAIN u # {} THEN <<Chunk("usage", 0, 0, u)>> ELSE <<>>
  <2>1. PICK choices \in SUBSET ChoiceIndexes, over \in SUBSET ChoiceIndexes,
             u \in Running(BlocksOf({"input", "output"}, MaxCount)) :
          /\ up' = [up EXCEPT !.open = @ \cup choices, !.over = @ \cup over, !.usage = Latest(u)]
          /\ Write(content(choices) \o told(u))
    BY <1>5 DEF OrchestrationChunk
  <2>2. "calls" \in DOMAIN up' /\ up'.calls = up.calls /\ up'.fate = up.fate
    BY <1>3, <2>1
  <2>3. Avoids(content(choices), Plainly)
    <3>1. Avoids(<<Chunk("content", 0, 0, 0)>>, Plainly)
      BY OneAvoids DEF Plainly
    <3> QED BY <3>1, NothingAvoids
  <2>4. Avoids(told(u), Plainly)
    <3>1. Avoids(<<Chunk("usage", 0, 0, u)>>, Plainly)
      BY OneAvoids DEF Plainly
    <3> QED BY <3>1, NothingAvoids
  <2> HIDE DEF content, told
  <2>5. Avoids(content(choices) \o told(u), Plainly)
    BY <2>3, <2>4, BothAvoid
  <2>6. ~gone' => ~gone /\ out' = out \o (content(choices) \o told(u))
    BY <1>3, <2>1, <2>5, WriteFacts DEF Avoids
  <2> QED BY <1>1, <2>2, <2>5, <2>6, OthersKeepTools DEF GoingWell
<1>6. CASE OrchestrationDone
  <2>1. /\ up.fate = "open" /\ UNCHANGED local
        /\ Sends("complete") \/ Sends("garbled")
    BY <1>2, <1>6 DEF OrchestrationDone
  <2>2. PICK ws : Avoids(ws, Plainly) /\ Reply(ws, TRUE, FALSE)
    <3>1. CASE Reply(<<Plain("done")>>, TRUE, FALSE)
      <4>1. Avoids(<<Plain("done")>>, Plainly)
        BY OneAvoids DEF Plain, Plainly
      <4> QED BY <3>1, <4>1
    <3>2. CASE Fail(acc)
      BY <3>2, NothingAvoids, ErrorsAvoid, BothAvoid DEF Fail, FailAfter
    <3> QED BY <1>6, <3>1, <3>2 DEF OrchestrationDone
  <2>3. CASE Sends("complete")
    BY <1>1, <1>3, <2>1, <2>2, <2>3, FinishKeepsTools
  <2>4. CASE Sends("garbled")
    BY <1>1, <1>3, <2>1, <2>4, FailKeepsTools
  <2> QED BY <2>1, <2>3, <2>4
<1>7. CASE OrchestrationError
  BY <1>1, <1>3, <1>7, FailKeepsTools DEF OrchestrationError
<1>8. CASE OrchestrationGarbage
  BY <1>1, <1>3, <1>8, FailKeepsTools DEF OrchestrationGarbage
<1>9. CASE EndUnlessTerminal
  BY <1>3, <1>9, EndKeepsTools
<1> QED BY <1>4, <1>5, <1>6, <1>7, <1>8, <1>9 DEF StepOrchestrationToOpenAI

LEMMA NativeAvoids ==
  ASSUME Core, StepNative
  PROVE  \E ws : Avoids(ws, Plainly) /\ (~gone' => ~gone /\ out' = out \o ws)
<1>1. Avoids(<<Plain("content")>>, Plainly) /\ Avoids(<<Plain("error")>>, Plainly)
  BY OneAvoids DEF Plain, Plainly
<1>2. Avoids(<<Plain("done")>>, Plainly) /\ Avoids(<<Plain("stop")>>, Plainly)
  BY OneAvoids DEF Plain, Plainly
<1>3. Avoids(<<>> \o ErrorChunks, Plainly)
  BY NothingAvoids, ErrorsAvoid, BothAvoid
<1>4. ASSUME NEW ws, Avoids(ws, Plainly), Write(ws) \/ Reply(ws, TRUE, FALSE) \/ Close(ws)
      PROVE  \E w : Avoids(w, Plainly) /\ (~gone' => ~gone /\ out' = out \o w)
  <2>1. CASE Close(ws)
    BY <1>4, <2>1, CloseFacts DEF Core, Avoids
  <2>2. CASE Write(ws)
    BY <1>4, <2>2, WriteFacts DEF Core, Avoids
  <2>3. CASE Reply(ws, TRUE, FALSE)
    BY <1>4, <2>3, ReplyFacts DEF Core, Avoids
  <2> QED BY <1>4, <2>1, <2>2, <2>3
<1>5. \/ Write(<<Plain("content")>>) \/ Write(<<Plain("error")>>)
      \/ Reply(<<Plain("done")>>, TRUE, FALSE) \/ Reply(<<Plain("stop")>>, TRUE, FALSE)
      \/ Reply(ErrorChunks, TRUE, FALSE) \/ Reply(<<>> \o ErrorChunks, TRUE, FALSE)
      \/ Close(<<>>) \/ Close(ErrorChunks)
  BY NativeReplies
<1> QED BY <1>1, <1>2, <1>3, <1>4, <1>5, NothingAvoids, ErrorsAvoid

(* A stream that goes well goes on, and its calls are not looked at.        *)
LEMMA NativeFates ==
  ASSUME Core, CallsKnown, StepNative
  PROVE  "calls" \in DOMAIN up' /\ up'.calls = up.calls /\ (GoingWell' => GoingWell)
<1>1. {"calls", "fate"} \subseteq DOMAIN up
  BY DEF Core, TypeOK, CallsKnown
<1>2. ASSUME NEW fate, Sends(fate), fate \in {"failed", "named", "garbled"} \/ up.fate = "open"
      PROVE  "calls" \in DOMAIN up' /\ up'.calls = up.calls /\ (GoingWell' => GoingWell)
  BY <1>1, <1>2 DEF Sends, GoingWell
<1>3. CASE UNCHANGED up
  BY <1>1, <1>3 DEF GoingWell
<1>4. ASSUME NEW p \in Natives, NativeEvent(p) \/ NativeEnd(p) \/ NativeError(p) \/ NativeGarbage(p)
      PROVE  "calls" \in DOMAIN up' /\ up'.calls = up.calls /\ (GoingWell' => GoingWell)
  <2>1. CASE NativeEvent(p)
    BY <1>3, <2>1 DEF NativeEvent
  <2>2. CASE NativeEnd(p)
    <3>1. Sends("complete") /\ up.fate = "open"
      BY <2>2 DEF NativeEnd, Read, Core, Undecided
    <3> QED BY <1>2, <3>1
  <2>3. CASE NativeError(p) \/ NativeGarbage(p)
    BY <1>2, <2>3 DEF NativeError, NativeGarbage
  <2> QED BY <1>4, <2>1, <2>2, <2>3
<1>5. CASE NamedError \/ GeminiEventError
  BY <1>2, <1>5 DEF NamedError, GeminiEventError
<1>6. CASE ArrayBytes
  <2>1. PICK failed \in BOOLEAN, last \in BOOLEAN :
          up' = [up EXCEPT !.array = last, !.fate = IF failed THEN "failed" ELSE @]
    BY <1>6 DEF ArrayBytes
  <2> QED BY <1>1, <2>1 DEF GoingWell
<1>7. CASE EndGeminiSSE \/ EndGeminiArray \/ EndUnlessTerminal
  BY <1>3, <1>7 DEF EndGeminiSSE, EndGeminiArray, EndUnlessTerminal, Close
<1> QED BY <1>4, <1>5, <1>6, <1>7 DEF StepNative

LEMMA NativeToolsKept ==
  ASSUME Core, CaptureKnown, ToolsInv, StepNative
  PROVE  ToolsInv'
<1>1. UNCHANGED pipe /\ pipe \notin {"anthropicToOpenAI", "responsesToOpenAI", "geminiToOpenAI"}
  BY NativeOK DEF Natives, NativeGemini
<1>2. "calls" \in DOMAIN up' /\ up'.calls = up.calls /\ (GoingWell' => GoingWell)
  BY NativeFates DEF ToolsInv
<1>3. PICK ws : Avoids(ws, Plainly) /\ (~gone' => ~gone /\ out' = out \o ws)
  BY NativeAvoids
<1> QED BY <1>1, <1>2, <1>3, OthersKeepTools

-----------------------------------------------------------------------------

LEMMA NothingTold ==
  ASSUME out = <<>>, "calls" \in DOMAIN up, up.calls = <<>>
  PROVE  CallsKnown /\ (StillOpen = 0 => ToolsTold) /\ \A c : CallsOf(c) = {}
<1>1. (\A c : Tools(out, c) = {}) /\ (\A i : Arguments(out, i) = {})
  BY NothingAvoids, AvoidsNone
<1>2. DOMAIN up.calls = {} /\ Len(up.calls) = 0 /\ \A S : up.calls \in Seq(S)
  BY EmptySeq
<1>3. \A c : CallsOf(c) = {}
  BY <1>2 DEF CallsOf
<1>4. \A c : Numbered(out, c, 0)
  BY <1>1, FS_EmptySet DEF Numbered
<1>5. CallsTold(pipe, out, up.calls, 0)
  BY <1>1, <1>2, <1>4 DEF CallsTold
<1>6. StillOpen = 0 => ToolsTold
  BY <1>3, <1>4, <1>5, FS_EmptySet DEF ToolsTold
<1> QED BY <1>2, <1>3, <1>6 DEF CallsKnown, SingleCalls

LEMMA InitTools == Init => ToolsInv
<1> SUFFICES ASSUME InitStream PROVE ToolsInv
  BY DEF Init
<1> DEFINE start == [fate |-> "open", stage |-> "start", calls |-> <<>>, early |-> FALSE]
           closure == [toolCount |-> 0, currentTool |-> NoTool, argsSeen |-> FALSE,
                       stopReason |-> "", sawTool |-> FALSE, input |-> 0, output |-> 0]
<1>1. CASE InitAnthropicToOpenAI
  <2>1. pipe = "anthropicToOpenAI" /\ up = start /\ local = closure /\ out = <<>>
    BY <1>1 DEF InitAnthropicToOpenAI, InitPipe
  <2>2. CallsKnown /\ ToolsTold
    BY <2>1, NothingTold DEF StillOpen
  <2>3. Len(up.calls) = 0
    BY <2>1, EmptySeq
  <2> QED BY <2>1, <2>2, <2>3 DEF ToolsInv, BlocksKnown, ItemsKnown, ToolCountsKnown
<1>2. CASE InitResponsesToOpenAI
  <2>1. /\ pipe = "responsesToOpenAI" /\ out = <<>> /\ {"calls", "order", "done"} \subseteq DOMAIN up
        /\ up.calls = <<>> /\ up.order = <<>>
        /\ {"toolIndex", "arguments"} \subseteq DOMAIN local
        /\ local.toolIndex = <<>> /\ local.arguments = <<>>
    BY <1>2 DEF InitResponsesToOpenAI, InitPipe
  <2>2. CallsKnown /\ ToolsTold
    BY <2>1, NothingTold DEF StillOpen
  <2>3. /\ Len(up.calls) = 0 /\ Len(up.order) = 0 /\ up.order \in Seq(Items)
        /\ DOMAIN up.order = {} /\ DOMAIN local.toolIndex = {} /\ DOMAIN local.arguments = {}
    BY <2>1, EmptySeq
  <2>4. Announced = {}
    BY <2>3 DEF Announced, Range
  <2>5. ItemsKnown
    BY <2>1, <2>3, <2>4, FS_EmptySet DEF ItemsKnown
  <2> QED BY <2>1, <2>2, <2>5 DEF ToolsInv, BlocksKnown, ToolCountsKnown
<1>3. CASE InitOrchestrationToOpenAI
  <2>1. pipe = "orchestrationToOpenAI" /\ out = <<>> /\ "calls" \in DOMAIN up /\ up.calls = <<>>
    BY <1>3 DEF InitOrchestrationToOpenAI, InitPipe
  <2>2. CallsKnown /\ ToolsTold
    BY <2>1, NothingTold DEF StillOpen
  <2> QED BY <2>1, <2>2 DEF ToolsInv, BlocksKnown, ItemsKnown, ToolCountsKnown
<1>4. CASE InitGeminiToOpenAI
  <2>0. PICK array \in BOOLEAN :
          InitPipe("geminiToOpenAI", "loop",
            [fate |-> "open", array |-> array, begun |-> {}, over |-> {}, calls |-> <<>>,
             usage |-> <<>>, steady |-> TRUE],
            [announced |-> {}, finished |-> {}, toolCounts |-> [c \in Candidates |-> 0],
             last |-> [f \in GeminiFields |-> 0]])
    BY <1>4 DEF InitGeminiToOpenAI
  <2>1. /\ pipe = "geminiToOpenAI" /\ out = <<>> /\ "calls" \in DOMAIN up /\ up.calls = <<>>
        /\ "toolCounts" \in DOMAIN local /\ local.toolCounts = [c \in Candidates |-> 0]
    BY <2>0 DEF InitPipe
  <2>2. CallsKnown /\ ToolsTold /\ \A c : CallsOf(c) = {}
    BY <2>1, NothingTold DEF StillOpen
  <2>3. ToolCountsKnown
    BY <2>1, <2>2, FS_EmptySet DEF ToolCountsKnown
  <2> QED BY <2>1, <2>2, <2>3 DEF ToolsInv, BlocksKnown, ItemsKnown
<1>5. CASE InitNative
  <2>0. PICK p \in Natives :
          InitPipe(p, "loop", [fate |-> "open", array |-> FALSE, calls |-> <<>>],
                   [capture |-> <<>>, truncated |-> FALSE])
    BY <1>5 DEF InitNative
  <2>1. pipe \in Natives /\ out = <<>> /\ "calls" \in DOMAIN up /\ up.calls = <<>>
    BY <2>0 DEF InitPipe
  <2>2. pipe \notin {"anthropicToOpenAI", "responsesToOpenAI", "geminiToOpenAI"}
    BY <2>1 DEF Natives, NativeGemini
  <2>3. CallsKnown /\ ToolsTold
    BY <2>1, <2>2, NothingTold DEF StillOpen
  <2> QED BY <2>2, <2>3 DEF ToolsInv, BlocksKnown, ItemsKnown, ToolCountsKnown
<1> QED BY <1>1, <1>2, <1>3, <1>4, <1>5 DEF InitStream

LEMMA StepTools == IInv /\ ToolsInv /\ [Next]_vars => ToolsInv'
<1> SUFFICES ASSUME IInv, ToolsInv, [Next]_vars PROVE ToolsInv'
  OBVIOUS
<1>1. Core /\ CaptureKnown /\ IsSequence(out)
  BY DEF IInv, Core, TypeOK
<1>2. CASE StepAnthropicToOpenAI
  BY <1>1, <1>2, AnthropicToolsKept
<1>3. CASE StepResponsesToOpenAI
  BY <1>1, <1>3, ResponsesToolsKept
<1>4. CASE StepOrchestrationToOpenAI
  BY <1>1, <1>4, OrchestrationToolsKept
<1>5. CASE StepGeminiToOpenAI
  BY <1>1, <1>5, GeminiToolsKept
<1>6. CASE StepNative
  BY <1>1, <1>6, NativeToolsKept
<1>7. CASE UNCHANGED <<pipe, local, up, gone, out>>
  <2>1. out' = out \o <<>>
    BY <1>1, <1>7, ConcatEmptySeq DEF IsSequence
  <2> QED BY <1>1, <1>7, <2>1, NothingAvoids, SaysNoTool
<1>8. CASE ScannerEnds \/ Commit \/ UNCHANGED vars
  BY <1>7, <1>8 DEF ScannerEnds, Commit, vars, loopVars
<1> QED BY <1>2, <1>3, <1>4, <1>5, <1>6, <1>8 DEF Next

(* The calls of an answer reach the client whole, in order and under        *)
(* numbers that their fragments carry, whichever protocol they came in.     *)
THEOREM ToolCallsAreWhole == Spec => []ToolCallsWhole
<1>1. IInv /\ ToolsInv => ToolCallsWhole
  <2> SUFFICES ASSUME IInv, ToolsInv, Ended, ~gone, UpstreamComplete
               PROVE  /\ \A c \in {0} \cup Candidates : Numbered(out, c, Cardinality(CallsOf(c)))
                      /\ pipe # "geminiToOpenAI" =>
                           \A k \in DOMAIN up.calls :
                             IF up.calls[k].parts = 0 /\ pipe = "anthropicToOpenAI"
                             THEN Filled(out, k - 1, 1, "empty")
                             ELSE Filled(out, k - 1, up.calls[k].parts, "part")
    BY DEF ToolCallsWhole
  <2>1. CASE pipe = "geminiToOpenAI"
    BY <2>1 DEF ToolsInv, ToolsTold, GoingWell, UpstreamComplete
  <2>2. CASE pipe # "geminiToOpenAI"
    <3>1. up.fate = "complete" /\ up.calls \in SingleCalls
      BY <2>2 DEF UpstreamComplete, ToolsInv, CallsKnown
    <3>2. StillOpen = 0
      BY <3>1 DEF StillOpen, ToolsInv, BlocksKnown
    <3>3. CallsTold(pipe, out, up.calls, 0)
      BY <2>2, <3>1, <3>2 DEF ToolsInv, ToolsTold, GoingWell
    <3>4. /\ Len(up.calls) \in Nat /\ DOMAIN up.calls = 1..Len(up.calls)
          /\ \A k \in DOMAIN up.calls : up.calls[k].choice = 0
      BY <3>1, SingleCallFacts
    <3>5. CallsOf(0) = 1..Len(up.calls) /\ \A c : c # 0 => CallsOf(c) = {}
      BY <3>4 DEF CallsOf
    <3>6. Cardinality(CallsOf(0)) = Len(up.calls)
      <4>1. Cardinality(1..Len(up.calls)) = Len(up.calls)
        BY <3>4, FS_Interval
      <4> QED BY <3>5, <4>1
    <3>7. \A c \in {0} \cup Candidates : Numbered(out, c, Cardinality(CallsOf(c)))
      BY <3>3, <3>5, <3>6, FS_EmptySet DEF CallsTold
    <3>8. ASSUME NEW k \in DOMAIN up.calls
          PROVE  IF up.calls[k].parts = 0 /\ pipe = "anthropicToOpenAI"
                 THEN Filled(out, k - 1, 1, "empty")
                 ELSE Filled(out, k - 1, up.calls[k].parts, "part")
      <4>1. CallTold(pipe, out, up.calls, 0, k) /\ k # 0
        BY <3>3, <3>4 DEF CallsTold
      <4> QED BY <4>1 DEF CallTold
    <3> QED BY <3>7, <3>8
  <2> QED BY <2>1, <2>2
<1> QED BY <1>1, Invariance, InitTools, StepTools, PTL DEF Spec
-----------------------------------------------------------------------------
(* The bearer token: never a rejected one, nor one whose stated lifetime is *)
(* over, for any number of requests and any lifetimes, as long as an        *)
(* exchange takes less time than the margin.                                *)

(* The leader, and nobody else, runs an exchange. *)
LeaderInv == \A r \in Requests : Exchanging(r) <=> leader = r

(* Tokens are handed out after they were issued, and one that is in flight  *)
(* has been seen by nobody.                                                 *)
IssueInv ==
  /\ token <= issued
  /\ \A r \in Requests : used[r] <= issued /\ rejected[r] <= issued
  /\ \A s \in Requests : pc[s] \in {"reply", "stored"} => issued \in Tokens
  /\ \A s \in Requests : pc[s] = "reply" =>
       /\ token < issued
       /\ \A r \in Requests : used[r] < issued /\ rejected[r] < issued

(* The client believes in a token with a stated lifetime at most one        *)
(* exchange longer than the endpoint does.                                  *)
Lives(t, time, late) == stated[t] > 0 => time <= serverLeft[t] + late

ExpiryInv ==
  /\ \A s \in Requests : pc[s] = "reply" /\ latency <= FetchTimeout
                           => Lives(issued, stated[issued], latency)
  /\ token # NoToken => Lives(token, left, FetchTimeout)

(* A request that retries does not find its rejected token in the cache. *)
RejectedInv ==
  \A r \in Requests : pc[r] = "get" /\ rejected[r] # NoToken => token # rejected[r]

TokenInv == TokenTypeOK /\ LeaderInv /\ IssueInv /\ ExpiryInv /\ RejectedInv

-----------------------------------------------------------------------------
LEMMA NextTyped ==
  ASSUME TokenTypeOK, IssueInv, [TokenNext]_tokenVars
  PROVE  TokenTypeOK'
<1> USE TokenAssumption DEF TokenTypeOK, Tokens, NoToken, cacheVars, exchangeVars, requestVars
<1>1. ASSUME NEW r \in Requests, Step(r)
      PROVE  TokenTypeOK'
  <2>1. CASE CacheHit(r)
    BY <2>1 DEF CacheHit
  <2>2. CASE CacheMiss(r)
    BY <2>2 DEF CacheMiss
  <2>3. CASE Lead(r)
    BY <2>3 DEF Lead
  <2>4. CASE Join(r)
    BY <2>4 DEF Join
  <2>5. CASE Issue(r)
    BY <2>5, SMTT(20) DEF Issue
  <2>6. CASE Store(r)
    <3>1. issued \in Tokens /\ stated[issued] \in Nat
      BY <2>6 DEF Store, IssueInv
    <3>2. left' \in Nat /\ token' \in 0..MaxTokens
      BY <2>6, <3>1 DEF Store
    <3>3. UNCHANGED <<exchangeVars, requestVars>> /\ pc' = [pc EXCEPT ![r] = "stored"]
      BY <2>6 DEF Store
    <3>4. QED
      BY <3>2, <3>3
  <2>7. CASE Deliver(r)
    BY <2>7 DEF Deliver, IssueInv
  <2>8. CASE FetchFails(r)
    BY <2>8 DEF FetchFails
  <2>9. CASE Answered(r)
    BY <2>9 DEF Answered, Finish
  <2>10. CASE TransientError(r)
    BY <2>10, SMTT(20) DEF TransientError
  <2>11. CASE Unauthorized(r)
    BY <2>11 DEF Unauthorized
  <2>12. CASE Invalidate(r)
    BY <2>12, SMTT(20) DEF Invalidate
  <2>13. QED
    BY <1>1, <2>1, <2>2, <2>3, <2>4, <2>5, <2>6, <2>7, <2>8, <2>9, <2>10,
       <2>11, <2>12 DEF Step
<1>2. CASE Tick
  BY <1>2 DEF Tick, Less
<1>3. CASE UNCHANGED tokenVars
  BY <1>3 DEF tokenVars
<1>4. QED
  BY <1>1, <1>2, <1>3 DEF TokenNext

LEMMA LeaderPreserved ==
  ASSUME TokenTypeOK, LeaderInv, [TokenNext]_tokenVars
  PROVE  LeaderInv'
<1> USE TokenAssumption
    DEF LeaderInv, Exchanging, TokenTypeOK, cacheVars, exchangeVars, requestVars
<1>1. ASSUME NEW r \in Requests, Step(r)
      PROVE  LeaderInv'
  <2>1. CASE CacheHit(r) \/ CacheMiss(r) \/ Lead(r) \/ Join(r)
    BY <2>1 DEF CacheHit, CacheMiss, Lead, Join
  <2>2. CASE Issue(r) \/ Store(r)
    BY <2>2 DEF Issue, Store
  <2>3. CASE Deliver(r)
    BY <2>3 DEF Deliver, Shares
  <2>4. CASE FetchFails(r)
    BY <2>4 DEF FetchFails, Shares
  <2>5. CASE Answered(r) \/ TransientError(r) \/ Unauthorized(r) \/ Invalidate(r)
    BY <2>5 DEF Answered, TransientError, Unauthorized, Invalidate, Finish
  <2>6. QED
    BY <1>1, <2>1, <2>2, <2>3, <2>4, <2>5 DEF Step
<1>2. CASE Tick
  BY <1>2 DEF Tick
<1>3. CASE UNCHANGED tokenVars
  BY <1>3 DEF tokenVars
<1>4. QED
  BY <1>1, <1>2, <1>3 DEF TokenNext

(* While one request runs an exchange, no other does. *)
LEMMA Alone ==
  ASSUME LeaderInv, NEW r \in Requests, pc[r] \in {"ask", "reply", "stored"},
         NEW s \in Requests, s # r
  PROVE  pc[s] \notin {"ask", "reply", "stored"}
  BY DEF LeaderInv, Exchanging

LEMMA IssuePreserved ==
  ASSUME TokenTypeOK, LeaderInv, IssueInv, [TokenNext]_tokenVars
  PROVE  IssueInv'
<1> USE TokenAssumption
    DEF LeaderInv, Exchanging, IssueInv, TokenTypeOK, Tokens, NoToken,
        cacheVars, exchangeVars, requestVars
<1>1. ASSUME NEW r \in Requests, Step(r)
      PROVE  IssueInv'
  <2>1. CASE CacheHit(r)
    BY <2>1 DEF CacheHit
  <2>2. CASE CacheMiss(r) \/ Lead(r) \/ Join(r)
    <3>1. UNCHANGED <<token, used, rejected, issued>>
      BY <2>2 DEF CacheMiss, Lead, Join
    <3>2. \A s \in Requests : pc'[s] \in {"reply", "stored"} => pc'[s] = pc[s]
      BY <2>2 DEF CacheMiss, Lead, Join
    <3>3. QED
      BY <3>1, <3>2
  <2>3. CASE Issue(r)
    <3>1. \A s \in Requests : pc'[s] \in {"reply", "stored"} => s = r
      BY <2>3, Alone DEF Issue
    <3>2. issued' = issued + 1 /\ issued' \in Tokens
      BY <2>3 DEF Issue
    <3>3. UNCHANGED <<token, used, rejected>>
      BY <2>3 DEF Issue
    <3>4. QED
      BY <3>1, <3>2, <3>3, SMTT(20)
  <2>4. CASE Store(r)
    <3>1. \A s \in Requests : pc'[s] # "reply"
      BY <2>4, Alone DEF Store
    <3>2. QED
      BY <2>4, <3>1 DEF Store
  <2>5. CASE Deliver(r)
    BY <2>5 DEF Deliver, Shares
  <2>6. CASE FetchFails(r)
    BY <2>6 DEF FetchFails, Shares
  <2>7. CASE Answered(r) \/ TransientError(r)
    <3>1. UNCHANGED <<token, issued, used, rejected>>
      BY <2>7 DEF Answered, TransientError, Finish
    <3>2. \A s \in Requests : pc'[s] \in {"reply", "stored"} => pc'[s] = pc[s]
      BY <2>7 DEF Answered, TransientError, Finish
    <3>3. QED
      BY <3>1, <3>2
  <2>8. CASE Unauthorized(r)
    BY <2>8 DEF Unauthorized
  <2>9. CASE Invalidate(r)
    BY <2>9 DEF Invalidate
  <2>10. QED
    BY <1>1, <2>1, <2>2, <2>3, <2>4, <2>5, <2>6, <2>7, <2>8, <2>9 DEF Step
<1>2. CASE Tick
  BY <1>2 DEF Tick
<1>3. CASE UNCHANGED tokenVars
  BY <1>3 DEF tokenVars
<1>4. QED
  BY <1>1, <1>2, <1>3 DEF TokenNext

LEMMA ExpiryPreserved ==
  ASSUME TokenTypeOK, LeaderInv, IssueInv, ExpiryInv, [TokenNext]_tokenVars
  PROVE  ExpiryInv'
<1> USE TokenAssumption
    DEF LeaderInv, Exchanging, IssueInv, ExpiryInv, Lives, TokenTypeOK, Tokens, NoToken,
        cacheVars, exchangeVars, requestVars
<1>1. ASSUME NEW r \in Requests, Step(r)
      PROVE  ExpiryInv'
  <2>1. CASE CacheHit(r) \/ CacheMiss(r) \/ Lead(r) \/ Join(r)
    BY <2>1 DEF CacheHit, CacheMiss, Lead, Join
  <2>2. CASE Issue(r)
    <3>1. PICK ttl, life \in Lifetimes :
            /\ ttl > 0 => life = ttl
            /\ stated' = [stated EXCEPT ![issued + 1] = ttl]
            /\ serverLeft' = [serverLeft EXCEPT ![issued + 1] = life]
      BY <2>2 DEF Issue
    <3>2. issued' = issued + 1 /\ issued + 1 \in Tokens /\ latency' = 0
          /\ UNCHANGED <<token, left>>
      BY <2>2 DEF Issue
    <3>3. stated'[issued'] = ttl /\ serverLeft'[issued'] = life /\ ttl \in Nat /\ life \in Nat
      BY <3>1, <3>2
    <3>4. token # NoToken => /\ serverLeft'[token] = serverLeft[token]
                             /\ stated'[token] = stated[token]
      BY ONLY <3>1, <3>2, IssueInv, TokenTypeOK DEF IssueInv, TokenTypeOK, Tokens, NoToken
    <3>5. QED
      BY <3>1, <3>2, <3>3, <3>4, SMTT(20)
  <2>3. CASE Store(r)
    BY <2>3 DEF Store
  <2>4. CASE Deliver(r)
    BY <2>4 DEF Deliver, Shares
  <2>5. CASE FetchFails(r)
    BY <2>5 DEF FetchFails, Shares
  <2>6. CASE Answered(r) \/ TransientError(r) \/ Unauthorized(r)
    BY <2>6 DEF Answered, TransientError, Unauthorized, Finish
  <2>7. CASE Invalidate(r)
    BY <2>7 DEF Invalidate
  <2>8. QED
    BY <1>1, <2>1, <2>2, <2>3, <2>4, <2>5, <2>6, <2>7 DEF Step
<1>2. CASE Tick
  <2>1. \A t \in Tokens : serverLeft'[t] \in Nat /\ serverLeft'[t] >= serverLeft[t] - 1
    <3>1. serverLeft' = [t \in Tokens |-> Less(serverLeft[t])] /\ serverLeft \in [Tokens -> Nat]
      BY <1>2 DEF Tick
    <3>2. QED
      BY ONLY <3>1 DEF Less
  <2>2. left' \in Nat /\ (left' = 0 \/ left' = left - 1)
    BY <1>2 DEF Tick, Less
  <2>3. UNCHANGED <<token, issued, stated, pc>>
    BY <1>2 DEF Tick
  <2>4. token # NoToken /\ stated[token] > 0 => left' <= serverLeft'[token] + FetchTimeout
    <3> SUFFICES ASSUME token # NoToken, stated[token] > 0
                 PROVE  left' <= serverLeft'[token] + FetchTimeout
      OBVIOUS
    <3>1. token \in Tokens /\ token' = token
      BY <2>3
    <3>2. left <= serverLeft[token] + FetchTimeout /\ serverLeft[token] \in Nat
      BY <3>1
    <3>3. serverLeft'[token] \in Nat /\ serverLeft'[token] >= serverLeft[token] - 1
      BY <2>1, <3>1
    <3>4. QED
      BY <2>2, <3>2, <3>3
  <2>5. ASSUME NEW s \in Requests, pc[s] = "reply", latency' <= FetchTimeout,
               stated[issued] > 0
        PROVE  stated[issued] <= serverLeft'[issued] + latency'
    <3>1. latency' = latency + 1 /\ latency <= FetchTimeout
      BY <1>2, <2>5 DEF Tick
    <3>2. issued \in Tokens /\ stated[issued] <= serverLeft[issued] + latency
      BY <2>5, <3>1
    <3>3. serverLeft'[issued] \in Nat /\ serverLeft'[issued] >= serverLeft[issued] - 1
      BY <2>1, <3>2
    <3>4. stated[issued] \in Nat /\ latency \in Nat /\ serverLeft[issued] \in Nat
      BY <3>2
    <3>5. QED
      BY ONLY <3>1, <3>2, <3>3, <3>4
  <2>6. QED
    BY <2>3, <2>4, <2>5
<1>3. CASE UNCHANGED tokenVars
  BY <1>3 DEF tokenVars
<1>4. QED
  BY <1>1, <1>2, <1>3 DEF TokenNext

LEMMA RejectedPreserved ==
  ASSUME TokenTypeOK, LeaderInv, IssueInv, RejectedInv, [TokenNext]_tokenVars
  PROVE  RejectedInv'
<1> USE TokenAssumption
    DEF RejectedInv, IssueInv, TokenTypeOK, NoToken, cacheVars, exchangeVars, requestVars
<1>1. ASSUME NEW r \in Requests, Step(r)
      PROVE  RejectedInv'
  <2>1. CASE CacheHit(r) \/ CacheMiss(r) \/ Lead(r) \/ Join(r) \/ Issue(r)
    BY <2>1 DEF CacheHit, CacheMiss, Lead, Join, Issue
  <2>2. CASE Store(r)
    BY <2>2 DEF Store
  <2>3. CASE Deliver(r)
    BY <2>3 DEF Deliver, Shares
  <2>4. CASE FetchFails(r)
    BY <2>4 DEF FetchFails, Shares
  <2>5. CASE Answered(r) \/ TransientError(r) \/ Unauthorized(r)
    BY <2>5 DEF Answered, TransientError, Unauthorized, Finish
  <2>6. CASE Invalidate(r)
    BY <2>6 DEF Invalidate
  <2>7. QED
    BY <1>1, <2>1, <2>2, <2>3, <2>4, <2>5, <2>6 DEF Step
<1>2. CASE Tick
  BY <1>2 DEF Tick
<1>3. CASE UNCHANGED tokenVars
  BY <1>3 DEF tokenVars
<1>4. QED
  BY <1>1, <1>2, <1>3 DEF TokenNext

-----------------------------------------------------------------------------
LEMMA TokenInitially == TokenInit => TokenInv
  BY TokenAssumption DEF TokenInit, TokenInv, TokenTypeOK, LeaderInv, Exchanging, IssueInv,
                         ExpiryInv, Lives, RejectedInv, Tokens, NoToken

LEMMA TokenInvariant == TokenSpec => []TokenInv
<1>1. TokenInv /\ [TokenNext]_tokenVars => TokenInv'
  BY NextTyped, LeaderPreserved, IssuePreserved, ExpiryPreserved, RejectedPreserved
     DEF TokenInv
<1>2. QED
  BY <1>1, TokenInitially, PTL DEF TokenSpec

(* Type correctness of TokenCache. *)
THEOREM TokenTypeCorrect == TokenSpec => []TokenTypeOK
<1>1. TokenInv => TokenTypeOK
  BY DEF TokenInv
<1>2. QED
  BY <1>1, TokenInvariant, PTL

(* Two requests never talk to the token endpoint at the same time. *)
THEOREM SharedExchange == TokenSpec => []OneExchange
<1>1. TokenInv => OneExchange
  BY DEF TokenInv, LeaderInv, OneExchange
<1>2. QED
  BY <1>1, TokenInvariant, PTL

(* A step from GetToken to the call is a cache hit. *)
LEMMA HitIsCached ==
  ASSUME TokenTypeOK, [TokenNext]_tokenVars, NEW r \in Requests, pc[r] = "get", pc'[r] = "send"
  PROVE  Usable /\ used'[r] = token /\ UNCHANGED <<stated, serverLeft, rejected>>
<1>1. PICK s \in Requests : Step(s)
  BY DEF TokenNext, Tick, tokenVars
<1>2. CacheHit(s) /\ s = r
  BY <1>1 DEF TokenTypeOK, Step, CacheHit, CacheMiss, Lead, Join, Issue, Store,
              Deliver, Shares, FetchFails, Answered, TransientError,
              Unauthorized, Invalidate, Finish
<1>3. QED
  BY <1>2 DEF CacheHit, exchangeVars, TokenTypeOK

(* The 60 s margin covers the 30 s an exchange may take: a token whose      *)
(* lifetime the endpoint stated is still accepted when the cache hands it   *)
(* out, for every set of lifetimes and any default for a missing one.       *)
THEOREM HitsAreUnexpired == TokenSpec => CacheHitUnexpired
<1>1. TokenInv /\ [TokenNext]_tokenVars =>
        [\A r \in Requests : pc[r] = "get" /\ pc'[r] = "send" /\ stated[used'[r]] > 0
                               => serverLeft[used'[r]] > 0]_tokenVars
  <2> SUFFICES ASSUME TokenInv, [TokenNext]_tokenVars, NEW r \in Requests,
                      pc[r] = "get", pc'[r] = "send", stated[used'[r]] > 0
               PROVE  serverLeft[used'[r]] > 0
    OBVIOUS
  <2>1. token # NoToken /\ left > Margin /\ used'[r] = token
    BY HitIsCached DEF TokenInv, Usable
  <2>2. left <= serverLeft[token] + FetchTimeout
    BY <2>1 DEF TokenInv, ExpiryInv, Lives
  <2>3. left \in Nat /\ serverLeft[token] \in Nat
    BY <2>1 DEF TokenInv, TokenTypeOK, Tokens, NoToken
  <2>4. QED
    BY <2>1, <2>2, <2>3, TokenAssumption
<1>2. QED
  BY <1>1, TokenInvariant, PTL DEF TokenSpec, CacheHitUnexpired

(* After a 401, GetToken does not find the rejected token in the cache. *)
THEOREM RejectedGone == TokenSpec => RejectedLeavesCache
<1>1. TokenInv /\ [TokenNext]_tokenVars => [\A r \in Requests : pc[r] = "get" /\ pc'[r] = "send"
                                => used'[r] # rejected[r]]_tokenVars
  <2> SUFFICES ASSUME TokenInv, [TokenNext]_tokenVars, NEW r \in Requests,
                      pc[r] = "get", pc'[r] = "send"
               PROVE  used'[r] # rejected[r]
    OBVIOUS
  <2>1. token # NoToken /\ used'[r] = token
    BY HitIsCached DEF TokenInv, Usable
  <2>2. QED
    BY <2>1 DEF TokenInv, RejectedInv
<1>2. QED
  BY <1>1, TokenInvariant, PTL DEF TokenSpec, RejectedLeavesCache
=============================================================================
