---------------------------- MODULE AgentConfig ----------------------------
(***************************************************************************)
(* "aicoreproxy configure": a run reads the files of the chosen agents and *)
(* plans their new contents, shows the differences, waits for a word of    *)
(* the user and replaces the files one by one, each after a backup         *)
(* (agentconfig/run.go, backup.go).  Meanwhile the user and the agents     *)
(* edit the same files, a rename may be refused, and the run may stop      *)
(* anywhere: by an error, or because it is killed.                         *)
(***************************************************************************)
EXTENDS ConfigFiles, FiniteSets, TLC

CONSTANTS
  Found,         \* contents of the disk a first run may meet
  Selections,       \* sequences of agents that are chosen
  OptionChoices, \* options of a run
  Edited(_, _),  \* what the user or an agent makes of a file's content
  MaxRuns,       \* bound: runs
  MaxEdits,      \* bound: edits
  MaxSeconds     \* bound: the clock, whose seconds name the backups

Agents == {"claude-code", "codex", "opencode"}

ASSUME FoundAssumption ==
  \A d \in Found : d = [file \in Files |-> d[file]] /\ \A file \in Files : IsDocument(file, d[file])
ASSUME SelectionsAssumption == \A chosen \in Selections : chosen \in Seq(Agents)

VARIABLES
  disk,      \* [Files -> document]
  backups,   \* <<file, second>> -> document, partial
  clock,     \* the second it is
  pc,        \* where the run is
  options,   \* the options of the run
  plan,      \* its changes, in the order they are applied
  at,        \* the change that is being applied
  stamp,     \* the second in the name of the backup being written
  runs,      \* runs so far, for the bound
  edits,     \* edits so far, for the bound
  settled,   \* files the last run left as planned, not edited since
  replaced,  \* what the runs replaced, a history
  reused     \* names of backups that were written twice, a history

run == <<pc, options, plan, at, stamp>>
vars == <<disk, backups, clock, run, runs, edits, settled, replaced, reused>>

Change == plan[at]
Changed(change) == change.old # change.new

(* A file that is being written holds a part of its content: no JSON, but  *)
(* a shorter TOML.                                                         *)
Part(doc) == IF doc.kind = "toml" THEN Toml(SubSeq(doc.lines, 1, 1)) ELSE Broken

Init ==
  /\ disk \in Found
  /\ backups = <<>>
  /\ clock = 0
  /\ pc = "idle"
  /\ options = CHOOSE o \in OptionChoices : TRUE
  /\ plan = <<>>
  /\ at = 1
  /\ stamp = 0
  /\ runs = 0
  /\ edits = 0
  /\ settled = {}
  /\ replaced = {}
  /\ reused = {}

(* Every file is read once, here; a plan that fails for one of them ends   *)
(* the run before anything is written.                                     *)
Plan(chosen, o) ==
  LET files == FlattenSeq([i \in DOMAIN chosen |-> AgentFiles(chosen[i], disk)])
  IN [i \in DOMAIN files |-> [file |-> files[i], old |-> disk[files[i]],
                              new |-> Planned(files[i], disk[files[i]], o)]]

Begin(chosen, o) ==
  /\ pc = "idle"
  /\ runs < MaxRuns
  /\ runs' = runs + 1
  /\ \A i \in DOMAIN Plan(chosen, o) : Plan(chosen, o)[i].new # Broken
  /\ plan' = Plan(chosen, o)
  /\ pc' = "review"
  /\ options' = o
  /\ at' = 1
  /\ settled' = {}
  /\ UNCHANGED <<disk, backups, clock, stamp, edits, replaced, reused>>

Ended == pc' = "idle" /\ plan' = <<>> /\ at' = 1 /\ stamp' = 0

(* A dry run, or an answer that is not yes.                                *)
Decline ==
  /\ pc = "review"
  /\ Ended
  /\ UNCHANGED <<disk, backups, clock, options, runs, edits, settled, replaced, reused>>

Confirm ==
  /\ pc = "review"
  /\ pc' = "apply"
  /\ UNCHANGED <<disk, backups, clock, options, plan, at, stamp, runs, edits,
                 settled, replaced, reused>>

(* A file that would not change is left alone.                             *)
Skip ==
  /\ pc = "apply"
  /\ at <= Len(plan)
  /\ ~ Changed(Change)
  /\ at' = at + 1
  /\ settled' = IF disk[Change.file] = Change.old THEN settled \cup {Change.file}
                                                  ELSE settled
  /\ UNCHANGED <<disk, backups, clock, pc, options, plan, stamp, runs, edits,
                 replaced, reused>>

(* Mutant: only the first file of a run is saved.                          *)
SavesFirst(change) == change.old # Missing /\ at = 1

(* A new file has nothing to save.                                         *)
Saves(change) == change.old # Missing

(* The backup is named after the second and is not written at once.        *)
Begun(name, content) ==
  [n \in DOMAIN backups \cup {name} |-> IF n = name THEN content ELSE backups[n]]

StartBackup ==
  /\ pc = "apply"
  /\ at <= Len(plan)
  /\ Changed(Change)
  /\ Saves(Change)
  /\ pc' = "saving"
  /\ stamp' = clock
  /\ backups' = Begun(<<Change.file, clock>>, Part(Change.old))
  /\ reused' = IF <<Change.file, clock>> \in DOMAIN backups
                 THEN reused \cup {<<Change.file, clock>>} ELSE reused
  /\ UNCHANGED <<disk, clock, options, plan, at, runs, edits, settled, replaced>>

EndBackup ==
  /\ pc = "saving"
  /\ pc' = "replace"
  /\ backups' = [backups EXCEPT ![<<Change.file, stamp>>] = Change.old]
  /\ UNCHANGED <<disk, clock, options, plan, at, stamp, runs, edits, settled,
                 replaced, reused>>

NoBackup ==
  /\ pc = "apply"
  /\ at <= Len(plan)
  /\ Changed(Change)
  /\ ~ Saves(Change)
  /\ pc' = "replace"
  /\ UNCHANGED <<disk, backups, clock, options, plan, at, stamp, runs, edits,
                 settled, replaced, reused>>

Recorded ==
  replaced' = replaced \cup {[file |-> Change.file, doc |-> disk[Change.file], stamp |-> stamp,
                              planned |-> disk[Change.file] = Change.old]}

(* The temporary file is complete before it is renamed.                    *)
Rename ==
  /\ pc = "replace"
  /\ disk' = [disk EXCEPT ![Change.file] = Change.new]
  /\ settled' = settled \cup {Change.file}
  /\ Recorded
  /\ pc' = "apply"
  /\ at' = at + 1
  /\ UNCHANGED <<backups, clock, options, plan, stamp, runs, edits, reused>>

(* Some filesystems refuse to rename over a file: it is written in place.  *)
RenameRefused ==
  /\ pc = "replace"
  /\ disk' = [disk EXCEPT ![Change.file] = Part(Change.new)]
  /\ Recorded
  /\ pc' = "writing"
  /\ settled' = settled \ {Change.file}
  /\ UNCHANGED <<backups, clock, options, plan, at, stamp, runs, edits, reused>>

EndWrite ==
  /\ pc = "writing"
  /\ disk' = [disk EXCEPT ![Change.file] = Change.new]
  /\ settled' = settled \cup {Change.file}
  /\ pc' = "apply"
  /\ at' = at + 1
  /\ UNCHANGED <<backups, clock, options, plan, stamp, runs, edits, replaced, reused>>

Finish ==
  /\ pc = "apply"
  /\ at > Len(plan)
  /\ Ended
  /\ UNCHANGED <<disk, backups, clock, options, runs, edits, settled, replaced, reused>>

(* Any error ends the run where it is, and so does a kill.                 *)
Stop ==
  /\ pc \in {"apply", "saving", "replace", "writing"}
  /\ Ended
  /\ UNCHANGED <<disk, backups, clock, options, runs, edits, settled, replaced, reused>>

(* Other programs write the files, too, also while a run waits for the     *)
(* user; not in the middle of a write of its own.                          *)
Edit(file) ==
  /\ edits < MaxEdits
  /\ pc # "writing"
  /\ edits' = edits + 1
  /\ \E doc \in Edited(file, disk[file]) :
       IsDocument(file, doc) /\ disk' = [disk EXCEPT ![file] = doc]
  /\ settled' = settled \ {file}
  /\ UNCHANGED <<backups, clock, run, runs, replaced, reused>>

Tick ==
  /\ clock < MaxSeconds
  /\ clock' = clock + 1
  /\ UNCHANGED <<disk, backups, run, runs, edits, settled, replaced, reused>>

Next ==
  \/ \E chosen \in Selections, o \in OptionChoices : Begin(chosen, o)
  \/ Decline \/ Confirm
  \/ Skip \/ StartBackup \/ EndBackup \/ NoBackup
  \/ Rename \/ RenameRefused \/ EndWrite
  \/ Finish \/ Stop
  \/ \E file \in Files : Edit(file)
  \/ Tick

Spec == Init /\ [][Next]_vars

(***************************************************************************)
(* Properties.                                                             *)
(***************************************************************************)
(* What a run replaced, or began to write over, is whole in the backup it  *)
(* made before, wherever the run stopped and although a refused rename     *)
(* leaves half a file (backup.go 10 to 12, 59 to 61).  Not so for content  *)
(* that came after the plan was made, and when two runs in one second      *)
(* shared the backup's name.                                               *)
SavedFirst ==
  \A r \in replaced :
    r.planned /\ r.doc # Missing /\ <<r.file, r.stamp>> \notin reused =>
      <<r.file, r.stamp>> \in DOMAIN backups /\ backups[<<r.file, r.stamp>>] = r.doc

(* A plan keeps what is the user's: a file that parses parses again, all   *)
(* other keys, tables and members read the same, those among the providers *)
(* and the policies, too, and the comments of a JSONC file are there.      *)
(* Three exceptions are the code's, against edit_jsonc.go 10 to 13: the    *)
(* comments before a bare {} that ends the file are dropped (325), a list  *)
(* of rules that ends in a comment may no longer parse (290 to 298), and a *)
(* TOML header with a comment behind it or a quoted key, which the editor  *)
(* does not find, gets a second one (no line here is spelt so).  The       *)
(* comments of a TOML file are not asked for: the old section's go.        *)
EndsInNote(tokens) ==
  \E i \in Members(tokens) :
    LET value == tokens[i].value
    IN /\ tokens[i].key = "policies" /\ value.is = "nested"
       /\ value.tokens # <<>> /\ Last(value.tokens).token = "note"

Others(doc) ==
  CASE doc.kind = "toml" ->
         {e \in Entries(doc.lines) :
            e[1] # Managed /\ ~ (e[1] = "" /\ e[2] \in {"model", "model_provider"})}
           \cup {<<h>> : h \in {l \in Range(doc.lines) : l.line = "header" /\ l.name # Managed}}
    [] doc.kind = "jsonc" ->
         {t \in Range(doc.tokens) :
            /\ t.token # "comma"
            /\ t.token = "member" => t.key \notin {"$schema", "model", "providers", "policies"}}
    [] OTHER -> {}

(* The tokens of the object or list with a name. *)
Inside(doc, key) ==
  LET named == {i \in Members(doc.tokens) :
                  doc.tokens[i].key = key /\ doc.tokens[i].value.is = "nested"}
  IN (UNION {Range(doc.tokens[i].value.tokens) : i \in named}) \ {Comma}

Ours(t) == t.token = "member" /\ t.key \in {Providers[1], Providers[2]}

UserKept ==
  \A i \in DOMAIN plan :
    LET old == plan[i].old
        new == plan[i].new
    IN old \notin {Missing, Broken} /\ old.kind # "bare" /\ Valid(old)
         /\ (old.kind = "jsonc" => ~ EndsInNote(old.tokens)) =>
       /\ new.kind = old.kind
       /\ Valid(new)
       /\ Others(new) = Others(old)
       /\ old.kind = "jsonc" =>
            /\ {t \in Inside(new, "providers") : ~ Ours(t)}
                 = {t \in Inside(old, "providers") : ~ Ours(t)}
            /\ Inside(old, "policies") \subseteq Inside(new, "policies")
       /\ old.kind = "json" =>
            LET managed == DOMAIN Planned(plan[i].file, Missing, options).values
            IN \A k \in DOMAIN old.values \ managed :
                 k \in DOMAIN new.values /\ new.values[k] = old.values[k]

(* A file a run has been through reads as pointing to the proxy of this    *)
(* run, and the same run once more would find nothing to change (run.go    *)
(* 127 to 131; edit_jsonc.go 266 to 268).                                  *)
PointsToProxy(file) ==
  LET doc == disk[file]
  IN CASE doc.kind = "toml" ->
            /\ {<<"", "model_provider", Managed>>, <<Managed, "base_url", options.port>>}
                 \subseteq Entries(doc.lines)
       [] doc.kind = "jsonc" ->
            LET i == Named(doc.tokens, "providers")
            IN i # 0 /\ \A id \in {Providers[1], Providers[2]} :
                 LET j == Named(doc.tokens[i].value.tokens, id)
                 IN j # 0 /\ doc.tokens[i].value.tokens[j].value.port = options.port
       [] file = "settings.json" -> doc.values["BASE_URL"] = options.port
       [] OTHER -> doc.values["auth_mode"] = "apikey"

Settled ==
  \A file \in settled :
    PointsToProxy(file) /\ Planned(file, disk[file], options) = disk[file]
=============================================================================
