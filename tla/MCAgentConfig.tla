--------------------------- MODULE MCAgentConfig ---------------------------
(***************************************************************************)
(* Short config.toml and opencode.jsonc files that parse, with what the     *)
(* editors look for in every order, and a disk with every file, met by up   *)
(* to two runs and one edit; any rename may be refused.                     *)
(***************************************************************************)
EXTENDS AgentConfig

Models == [f \in {"claude", "gpt"} |->
             IF f = "claude" THEN <<"sonnet-4", "opus-4", "opus-5">> ELSE <<"gpt-6", "gpt-5">>]
Tiers == [m \in {"sonnet-4", "opus-4", "opus-5"} |->
            IF m = "sonnet-4" THEN "sonnet" ELSE "opus"]

NoModels == [f \in {"claude", "gpt"} |-> <<>>]
Ways == {[port |-> "3001", models |-> NoModels, available |-> Unasked],
         [port |-> "6655", models |-> [NoModels EXCEPT !["claude"] = <<"opus-4">>],
          available |-> {"opus-4"}]}

Lines == {Pair("model", "mine"), Pair("model_provider", "openai"),
          Header("profile"), Header(Managed)}
Longer == {<<Remark>>, <<Remark, Header(Managed)>>, <<Pair("model", "mine"), Remark>>,
           <<Pair("model", "mine"), Header("profile"), Pair("model", "mine")>>,
           <<Header(Managed), Pair("base_url", "mine"), Header("profile")>>,
           <<Pair("x", "1"), Blank, Header("profile")>>,
           <<Header("profile"), Pair("model_provider", "openai"), Header(Managed)>>}
Tomls == {Toml(l) : l \in {m \in UNION {[1 .. n -> Lines] : n \in 1 .. 2} \cup Longer : ValidToml(m)}}

Deny == Rule("deny", "*")
Mind == Note("mind")
Rules == {<<Deny>>, <<Deny, Mind>>, <<Deny, Mind, Comma>>,
          <<Deny, Comma, Rule("allow", Providers[1])>>}
Mine == Member("aicore-openai", Plain("mine"))
Theirs == Member("other", Plain("theirs"))
Tokens == {Comma, Mind, Member("model", Plain("mine")), Member("theme", Plain("dark")),
           Member("providers", Nested(<<Mind, Theirs>>)),
           Member("providers", Nested(<<Mine, Comma, Theirs, Mind, Comma>>)),
           Member("providers", Plain("none"))}
          \cup {Member("policies", Nested(r)) : r \in Rules}
Twice == {<<a, Comma, b>> : a \in {Member("theme", Plain("dark"))},
                           b \in Tokens}
Jsoncs == {Jsonc(t) : t \in {u \in UNION {[1 .. n -> Tokens] : n \in 1 .. 2} \cup Twice :
             /\ Alternates(u)
             /\ \A i, j \in Members(u) : u[i].key = u[j].key => i = j}}

Settings == Object([k \in {"BASE_URL", "EDITOR"} |-> "mine"], "own")
Auth == Object([k \in {"auth_mode", "token"} |-> "mine"], "own")
Nothing == [f \in Files |-> Missing]
Everything == [Nothing EXCEPT !["settings.json"] = Settings, !["auth.json"] = Auth,
  !["config.toml"] = Toml(<<Pair("model", "mine"), Header("profile")>>),
  !["opencode.json"] = Jsonc(<<Member("theme", Plain("dark"))>>)]

Disks == {Nothing, Everything, [Everything EXCEPT !["auth.json"] = Broken]}
  \cup {[Nothing EXCEPT !["config.toml"] = t] : t \in Tomls}
  \cup {[Nothing EXCEPT !["opencode.jsonc"] = t] : t \in Jsoncs \cup {Bare(<<Mind>>)}}

Picked == {<<"codex", "claude-code">>, <<"opencode">>}

Changes(file, doc) ==
  CASE doc.kind = "json" -> {Object(("EDITOR" :> "new") @@ doc.values, "own")}
    [] doc.kind = "toml" -> {Toml(Append(doc.lines, Header("tools")))}
    [] doc.kind = "jsonc" -> {Jsonc(<<Note("new")>> \o doc.tokens)}
    [] doc = Missing /\ file = "settings.json" -> {Settings}
    [] OTHER -> {}
=============================================================================
