---------------------------- MODULE ConfigFiles ----------------------------
(***************************************************************************)
(* The editors of internal/agentconfig: what a run of "configure" makes of *)
(* the file it found.  A file is Missing (or empty: both are read as no    *)
(* bytes), Broken (no parse), or a document of its own kind:               *)
(*   settings.json and auth.json   a function from keys to values and      *)
(*                                 whether the text is laid out by the     *)
(*                                 encoder or by the user                  *)
(*   config.toml                   a sequence of lines                     *)
(*   opencode.jsonc                a sequence of tokens: members, commas   *)
(*                                 and comments up to the end of a line,   *)
(*                                 or a bare {} that ends the file, with   *)
(*                                 the comments before it                  *)
(* A line of TOML is one the editor reads as the agent does: it compares   *)
(* whole lines with a header and bare keys, so that a header with a        *)
(* comment behind it or a quoted key is no line here.                      *)
(* An editor yields a document, or Broken for the error that ends the run. *)
(***************************************************************************)
EXTENDS Naturals, Sequences, SequencesExt

Missing == [kind |-> "missing"]
Broken == [kind |-> "broken"]

CONSTANTS Catalog,  \* [family -> Seq(model)], the curated models
          Tier      \* [model -> "opus", "haiku" or "sonnet"]

(***************************************************************************)
(* Models.  Available is the set a running proxy told, or Unasked.         *)
(***************************************************************************)
Unasked == {"unasked"}

ModelsFor(options, family) ==
  LET chosen == options.models[family]
  IN SelectSeq(IF chosen # <<>> THEN chosen ELSE Catalog[family],
               LAMBDA id : options.available = Unasked \/ id \in options.available)

DefaultModel(options, family) ==
  LET models == ModelsFor(options, family)
  IN IF models = <<>> THEN "" ELSE Head(models)

(* What is in both functions is read from the new one.                     *)
Over(new, old) ==
  [k \in DOMAIN new \cup DOMAIN old |-> IF k \in DOMAIN new THEN new[k] ELSE old[k]]

(* The last model of a tier takes its slot, a tier without one keeps the   *)
(* first model of all.                                                     *)
Slot(models, tier) ==
  LET of == SelectSeq(models, LAMBDA id : Tier[id] = tier)
  IN IF of = <<>> THEN Head(models) ELSE Last(of)

ClaudeValues(options) ==
  LET models == ModelsFor(options, "claude")
      proxy == [k \in {"BASE_URL", "AUTH_TOKEN"} |->
                  IF k = "BASE_URL" THEN options.port ELSE "placeholder"]
      slots == [k \in {"MODEL", "opus", "sonnet", "haiku"} |->
                  IF k = "MODEL" THEN Head(models) ELSE Slot(models, k)]
  IN IF models = <<>> THEN proxy ELSE Over(slots, proxy)

(***************************************************************************)
(* Strict JSON: decoded, merged and encoded again.                         *)
(***************************************************************************)
Object(values, layout) == [kind |-> "json", values |-> values, layout |-> layout]

MergeJSON(old, values) ==
  IF old = Broken THEN Broken
  ELSE IF old = Missing THEN Object(values, "encoded")
  ELSE Object(Over(values, old.values), "encoded")

(***************************************************************************)
(* TOML, line by line.                                                     *)
(***************************************************************************)
Blank == [line |-> "blank"]
Remark == [line |-> "comment"]
Header(name) == [line |-> "header", name |-> name]
Pair(key, value) == [line |-> "pair", key |-> key, value |-> value]
Toml(lines) == [kind |-> "toml", lines |-> lines]

Managed == "aicoreproxy"

FirstOf(S) == CHOOSE i \in S : \A j \in S : i <= j
LastOf(S) == CHOOSE i \in S : \A j \in S : j <= i

(* The index of the first line of a kind at or after i, or one past the    *)
(* end.                                                                    *)
FirstFrom(lines, i, Is(_)) ==
  LET found == {j \in i .. Len(lines) : Is(lines[j])}
  IN IF found = {} THEN Len(lines) + 1 ELSE FirstOf(found)

(* Mutant: the old section ends with the file.                             *)
PatchSectionToEnd(lines, header, body) ==
  LET start == FirstFrom(lines, 1, LAMBDA l : l = header)
  IN SubSeq(lines, 1, start - 1) \o body

PatchSection(lines, header, body) ==
  LET start == FirstFrom(lines, 1, LAMBDA l : l = header)
      end == FirstFrom(lines, start + 1, LAMBDA l : l.line = "header")
  IN IF start > Len(lines)
       THEN IF lines # <<>> /\ Last(lines) # Blank
              THEN lines \o <<Blank>> \o body
              ELSE lines \o body
       ELSE SubSeq(lines, 1, start - 1) \o body \o SubSeq(lines, end, Len(lines))

(* Mutant: a key of a table is taken for the root key of its name.         *)
PatchRootAnywhere(lines, top) ==
  LET At(key) == FirstFrom(lines, 1, LAMBDA l : l.line = "pair" /\ l.key = key)
      replaced == [i \in DOMAIN lines |->
                     IF \E n \in DOMAIN top : At(top[n].key) = i
                       THEN CHOOSE p \in {top[n] : n \in DOMAIN top} : At(p.key) = i
                       ELSE lines[i]]
  IN SelectSeq(top, LAMBDA p : At(p.key) > Len(lines)) \o replaced

(* Root keys come before the first table: of the two, in the order of      *)
(* their names, one that is there is replaced and the other is put in      *)
(* front of it.                                                            *)
PatchRoot(lines, top) ==
  LET table == FirstFrom(lines, 1, LAMBDA l : l.line = "header")
      At(key) == FirstFrom(SubSeq(lines, 1, table - 1), 1,
                           LAMBDA l : l.line = "pair" /\ l.key = key)
      replaced == [i \in DOMAIN lines |->
                     IF \E n \in DOMAIN top : i < table /\ At(top[n].key) = i
                       THEN CHOOSE p \in {top[n] : n \in DOMAIN top} : At(p.key) = i
                       ELSE lines[i]]
      Unless(p) == IF At(p.key) < table THEN <<>> ELSE <<p>>
      pending == Unless(top[1]) \o Unless(top[2])
      gap == IF pending # <<>> /\ table <= Len(lines) THEN <<Blank>> ELSE <<>>
  IN SubSeq(replaced, 1, table - 1) \o pending \o gap \o SubSeq(replaced, table, Len(lines))

CodexSection(options) ==
  <<Header(Managed), Pair("base_url", options.port), Pair("wire_api", "responses")>>
CodexRoot(options) ==
  <<Pair("model", DefaultModel(options, "gpt")), Pair("model_provider", Managed)>>

PatchTOML(old, top, header, body) ==
  IF old = Broken THEN Broken
  ELSE Toml(PatchRoot(PatchSection(IF old = Missing THEN <<>> ELSE old.lines, header, body),
                      top))

(***************************************************************************)
(* JSONC, spliced at the tokens.                                           *)
(***************************************************************************)
Comma == [token |-> "comma"]
Note(text) == [token |-> "note", text |-> text]
Member(key, value) == [token |-> "member", key |-> key, value |-> value]
Rule(effect, resource) == [token |-> "rule", effect |-> effect, resource |-> resource]
Jsonc(tokens) == [kind |-> "jsonc", tokens |-> tokens]
Bare(notes) == [kind |-> "bare", notes |-> notes]

Members(tokens) == {i \in DOMAIN tokens : tokens[i].token = "member"}

(* A value is a text, an object or a list of tokens, or a provider.        *)
Plain(text) == [is |-> "text", text |-> text]
Nested(tokens) == [is |-> "nested", tokens |-> tokens]
Provider(port, models) == [is |-> "provider", port |-> port, models |-> models]

(* The first member of a name, 0 when there is none.                       *)
Named(tokens, key) ==
  LET at == {i \in Members(tokens) : tokens[i].key = key}
  IN IF at = {} THEN 0 ELSE FirstOf(at)

SetMember(tokens, key, value) ==
  LET mine == Named(tokens, key)
      last == LastOf(Members(tokens))
      comma == FirstFrom(tokens, last + 1, LAMBDA t : t.token # "note")
      Insert(at, new) == SubSeq(tokens, 1, at) \o new \o SubSeq(tokens, at + 1, Len(tokens))
  IN IF mine # 0 THEN [tokens EXCEPT ![mine].value = value]
     ELSE IF Members(tokens) = {} THEN Insert(0, <<Member(key, value)>>)
     ELSE IF comma <= Len(tokens) THEN Insert(comma, <<Member(key, value), Comma>>)
     ELSE Insert(last, <<Comma, Member(key, value)>>)

(* The providers: a member of the root that is an object, made when absent.*)
SetProvider(tokens, id, value) ==
  LET i == Named(tokens, "providers")
  IN IF i = 0 THEN SetMember(tokens, "providers", Nested(<<Member(id, value)>>))
     ELSE [tokens EXCEPT ![i].value.tokens = SetMember(@, id, value)]

(* addPolicyAllows rewrites a list of rules that denies a provider.  The   *)
(* comma that separates the list from what is added is put after the text  *)
(* of the list, so that behind a comment it becomes part of the comment;   *)
(* a comma that is there already stays on its own line.                    *)
AllowIn(rules, ids) ==
  LET told == {t \in Range(rules) : t.token = "rule"}
      Allowed(id) == (\E r \in told : r.resource = id) /\ (\E r \in told : r.effect = "allow")
      Unless(id) == IF Allowed(id) THEN <<>> ELSE <<Rule("allow", id)>>
      both == IF Allowed(ids[1]) \/ Allowed(ids[2]) THEN <<>> ELSE <<Comma>>
      new == Unless(ids[1]) \o both \o Unless(ids[2])
      content == IF rules # <<>> /\ Last(rules) = Comma THEN Front(rules) ELSE rules
      gap == IF content = <<>> \/ Last(rules).token = "note" THEN <<>> ELSE <<Comma>>
  IN IF new = <<>> \/ ~ \E r \in told : r.effect = "deny" THEN rules
     ELSE content \o gap \o new

AddPolicyAllows(tokens, ids) ==
  LET i == Named(tokens, "policies")
  IN IF i = 0 \/ tokens[i].value.is # "nested" THEN tokens
     ELSE [tokens EXCEPT ![i].value.tokens = AllowIn(@, ids)]

Providers == <<"aicore-openai", "aicore-anthropic">>

(* An object that is written {} and ends the file makes the whole text {}, *)
(* without the comments before it.                                         *)
PatchJSONC(old, options) ==
  LET gpt == ModelsFor(options, "gpt")
      found == IF old = Missing \/ old.kind = "bare" THEN <<>> ELSE old.tokens
      schema == SetMember(found, "$schema", Plain("opencode"))
      model == IF gpt = <<>> THEN schema ELSE SetMember(schema, "model", Plain(Head(gpt)))
      providers == Named(model, "providers")
      openai == SetProvider(model, Providers[1], Provider(options.port, gpt))
      both == SetProvider(openai, Providers[2],
                          Provider(options.port, ModelsFor(options, "claude")))
  IN IF old = Broken THEN Broken
     ELSE IF providers # 0 /\ model[providers].value.is # "nested" THEN Broken
     ELSE Jsonc(AddPolicyAllows(both, Providers))

(***************************************************************************)
(* The plans of the agents: the files they keep, with the file of opencode *)
(* that is there already, and the new content of each.                     *)
(***************************************************************************)
Files == {"settings.json", "config.toml", "auth.json", "opencode.jsonc", "opencode.json"}

OpenCodeFile(disk) ==
  IF disk["opencode.jsonc"] = Missing /\ disk["opencode.json"] # Missing
    THEN "opencode.json" ELSE "opencode.jsonc"

AgentFiles(agent, disk) ==
  CASE agent = "claude-code" -> <<"settings.json">>
    [] agent = "codex" -> <<"config.toml", "auth.json">>
    [] agent = "opencode" -> <<OpenCodeFile(disk)>>

AuthValues == [k \in {"OPENAI_API_KEY", "auth_mode"} |->
                 IF k = "auth_mode" THEN "apikey" ELSE "placeholder"]

Planned(file, old, options) ==
  CASE file = "settings.json" -> MergeJSON(old, ClaudeValues(options))
    [] file = "config.toml" ->
         PatchTOML(old, CodexRoot(options), Header(Managed), CodexSection(options))
    [] file = "auth.json" -> MergeJSON(old, AuthValues)
    [] OTHER -> PatchJSONC(old, options)

(***************************************************************************)
(* How the agents read their files, for the properties.                    *)
(***************************************************************************)
(* The table a line of TOML is in, "" for the root.                        *)
TableOf(lines, i) ==
  LET heads == {j \in 1 .. i : lines[j].line = "header"}
  IN IF heads = {} THEN "" ELSE lines[LastOf(heads)].name

Pairs(lines) == {i \in DOMAIN lines : lines[i].line = "pair"}
Entries(lines) ==
  {<<TableOf(lines, i), lines[i].key, lines[i].value>> : i \in Pairs(lines)}

ValidToml(lines) ==
  \A i, j \in DOMAIN lines : i < j =>
    /\ lines[i].line = "header" /\ lines[j].line = "header" => lines[i] # lines[j]
    /\ {i, j} \subseteq Pairs(lines) /\ TableOf(lines, i) = TableOf(lines, j)
         => lines[i].key # lines[j].key

(* One comma between two members or rules, at most one behind the last: a  *)
(* token is a comma when the one before it is there and none.              *)
Said(tokens) == {i \in DOMAIN tokens : tokens[i].token # "note"}
After(tokens, i, j) == j < i /\ \A k \in Said(tokens) : k < i => k <= j
Alternates(tokens) ==
  \A i \in Said(tokens) :
    tokens[i] = Comma <=> \E j \in Said(tokens) : After(tokens, i, j) /\ tokens[j] # Comma

ValidJsonc(tokens) ==
  /\ Alternates(tokens)
  /\ \A i, j \in Members(tokens) : tokens[i].key = tokens[j].key => i = j
  /\ \A i \in Members(tokens) :
       tokens[i].value.is = "nested" => Alternates(tokens[i].value.tokens)

(* What there is to edit: a line of TOML, a token of an object or a list.  *)
(* A list where an object belongs is plain: the editors refuse both.       *)
IsLine(l) ==
  \/ l \in {Blank, Remark}
  \/ l.line = "header" /\ l = Header(l.name) /\ l.name # ""
  \/ l.line = "pair" /\ l = Pair(l.key, l.value)

AreLines(lines) == lines \in Seq(Range(lines)) /\ \A i \in DOMAIN lines : IsLine(lines[i])

AreTokens(tokens, said) ==
  /\ tokens \in Seq(Range(tokens))
  /\ \A i \in DOMAIN tokens :
       LET t == tokens[i]
       IN \/ t.token = "comma" /\ t = Comma
          \/ t.token = "note" /\ t = Note(t.text)
          \/ said = "member" /\ t.token = "member" /\ t = Member(t.key, t.value)
          \/ said = "rule" /\ t.token = "rule" /\ t = Rule(t.effect, t.resource)

AreMembers(tokens) ==
  /\ AreTokens(tokens, "member")
  /\ \A i \in Members(tokens) :
       LET value == tokens[i].value
       IN value.is = "nested" =>
            /\ value = Nested(value.tokens)
            /\ \/ AreTokens(value.tokens, "member")
               \/ AreTokens(value.tokens, "rule") /\ tokens[i].key # "providers"

IsDocument(file, doc) ==
  \/ doc \in {Missing, Broken}
  \/ file \in {"settings.json", "auth.json"} /\ doc.kind = "json"
  \/ file = "config.toml" /\ doc.kind = "toml" /\ doc = Toml(doc.lines) /\ AreLines(doc.lines)
  \/ /\ file \in {"opencode.jsonc", "opencode.json"}
     /\ \/ doc.kind = "jsonc" /\ doc = Jsonc(doc.tokens) /\ AreMembers(doc.tokens)
        \/ doc.kind = "bare" /\ doc = Bare(doc.notes)

Valid(doc) == CASE doc.kind = "toml" -> ValidToml(doc.lines)
                [] doc.kind = "jsonc" -> ValidJsonc(doc.tokens)
                [] OTHER -> TRUE
=============================================================================
