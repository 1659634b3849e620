----------------------------- MODULE ChatShapes -----------------------------
(* The shapes of chat requests and answers that the bridges translate       *)
(* between.  A text is the sequence of the passages it was put together     *)
(* from: joining texts is concatenation, and a passage can be followed from *)
(* the client's request to the upstream's.                                  *)
EXTENDS Naturals, Sequences, FiniteSets, SequencesExt

(* A content field: absent or null, a string, or an array of parts. *)
Null == [form |-> "null"]
Str(text) == [form |-> "string", text |-> text]
Parts(parts) == [form |-> "array", parts |-> parts]

(* Content parts.  marked: the part carries cache_control. *)
Text(text) == [type |-> "text", text |-> text, marked |-> FALSE]
ImageUrl(url) == [type |-> "image_url", url |-> url]    \* "data", "remote" or "none"
Image(source) == [type |-> "image", source |-> source]  \* "base64", "url" or "other"
Thinking == [type |-> "thinking"]
ToolUse(id, name) == [type |-> "tool_use", id |-> id, name |-> name]
ToolResult(id, content) == [type |-> "tool_result", id |-> id, content |-> content]

(* A message; calls, id and name are empty where the field is absent. *)
Call(id, name) == [id |-> id, name |-> name]
Message(role, content) ==
  [role |-> role, content |-> content, calls |-> <<>>, id |-> "", name |-> ""]
Calling(content, calls) == [Message("assistant", content) EXCEPT !.calls = calls]
ToolMessage(id, content) == [Message("tool", content) EXCEPT !.id = id]

(* The elements that pass a test, in their order: SelectSeq, written as a   *)
(* concatenation of sequences of one element or none, so that theorems can  *)
(* follow an element through it.                                            *)
Select(s, Test(_)) == FlattenSeq([k \in DOMAIN s |-> IF Test(s[k]) THEN <<s[k]>> ELSE <<>>])

OfType(parts, types) == Select(parts, LAMBDA p : p.type \in types)
Apply(Op(_), s) == [k \in DOMAIN s |-> Op(s[k])]
Joined(parts) == FlattenSeq(Apply(LAMBDA p : p.text, OfType(parts, {"text"})))

(* The text of a content field, its images and other parts left aside. *)
TextOf(content) ==
  CASE content.form = "null" -> <<>>
    [] content.form = "string" -> content.text
    [] content.form = "array" -> Joined(content.parts)

PartsOf(content) == IF content.form = "array" THEN content.parts ELSE <<>>
Instructs(msg) == msg.role \in {"system", "developer"}

(* Tool declarations, whose shape tells the protocol, and the choice the    *)
(* client made among them.                                                  *)
Tool(shape, name) == [shape |-> shape, name |-> name, marked |-> FALSE]
NoChoice == [type |-> "absent"]
Choice(type) == [type |-> type]
Named(type, name) == [type |-> type, name |-> name]
=============================================================================
