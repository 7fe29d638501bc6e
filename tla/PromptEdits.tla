---------------------------- MODULE PromptEdits ----------------------------
(* The prompts of a project: the current value of each, the versions it had,  *)
(* and the edits operators have armed in the bot, whose next message becomes  *)
(* the new value. Requests are served by threads of the api, and a read and   *)
(* the transaction that follows it are separate steps.                        *)
EXTENDS Integers, FiniteSets

CONSTANTS Editor,      \* usernames
          Prompt,      \* names of prompts
          Save,        \* requests that may be in flight
          Text,        \* values; "invalid" is refused by validate_value
          MaxVersion   \* bound: versions of a prompt

ASSUME PromptBounds == MaxVersion \in Nat \ {0}
ASSUME PromptTexts == "none" \notin Text

VARIABLES prompt,      \* project_prompts: version 0 stands for no row
          versions,    \* project_prompt_versions
          armed,       \* pending_prompt_edits: the prompt of each editor
          saving,
          promptLog    \* ghost: what editors were told is saved

promptVars == <<prompt, versions, armed, saving, promptLog>>

Version == 1..MaxVersion
NoSave == [pc |-> "idle", editor |-> "none", prompt |-> "none",
           text |-> "none", version |-> 0]

PromptInit ==
  /\ prompt = [p \in Prompt |-> [version |-> 0, text |-> "default"]]
  /\ versions = [p \in Prompt |-> [v \in Version |-> "none"]]
  /\ armed = [e \in Editor |-> "none"]
  /\ saving = [s \in Save |-> NoSave]
  /\ promptLog = {}

Moves(s, pc) == saving' = [saving EXCEPT ![s].pc = pc]
Opens(s, record) == saving[s].pc = "idle" /\ saving' = [saving EXCEPT ![s] = record]
Closes(s) == saving' = [saving EXCEPT ![s] = NoSave]

\* "/prompt_set": the last one armed counts.
arm_pending(e, p) ==
  /\ armed' = [armed EXCEPT ![e] = p]
  /\ UNCHANGED <<prompt, versions, saving, promptLog>>

\* "/prompt_cancel", and an armed edit past its lifetime, which any look at it
\* deletes.
cancel_pending(e) ==
  /\ armed[e] # "none"
  /\ armed' = [armed EXCEPT ![e] = "none"]
  /\ UNCHANGED <<prompt, versions, saving, promptLog>>

\* A message of an editor with an armed edit is sent on as its value. The api
\* looks the edit up, deletes what there is by then, and only then validates:
\* a value that is refused loses the armed edit.
dispatch_pending_prompt_edit(s, e, text) ==
  /\ armed[e] # "none"
  /\ Opens(s, [NoSave EXCEPT !.pc = "forget", !.editor = e,
                             !.prompt = armed[e], !.text = text])
  /\ UNCHANGED <<prompt, versions, armed, promptLog>>

consume_pending(s) ==
  /\ saving[s].pc = "forget"
  /\ armed' = [armed EXCEPT ![saving[s].editor] = "none"]
  /\ IF saving[s].text = "invalid" THEN Closes(s) ELSE Moves(s, "read")
  /\ UNCHANGED <<prompt, versions, promptLog>>

\* The web form names prompt and value; "invalid" is refused at once.
put_project_prompt(s, e, p, text) ==
  /\ text # "invalid"
  /\ Opens(s, [NoSave EXCEPT !.pc = "read", !.editor = e, !.prompt = p, !.text = text])
  /\ UNCHANGED <<prompt, versions, armed, promptLog>>

\* Restoring saves the text of an old version as a new one.
restore(s, e, p, v) ==
  /\ versions[p][v] # "none"
  /\ Opens(s, [NoSave EXCEPT !.pc = "read", !.editor = e, !.prompt = p,
                             !.text = versions[p][v]])
  /\ UNCHANGED <<prompt, versions, armed, promptLog>>

ReadVersion(s) ==
  /\ saving[s].pc = "read"
  /\ prompt[saving[s].prompt].version < MaxVersion
  /\ saving' = [saving EXCEPT ![s].pc = "write",
                              ![s].version = prompt[saving[s].prompt].version + 1]
  /\ UNCHANGED <<prompt, versions, armed, promptLog>>

Saved(s) ==
  /\ prompt' = [prompt EXCEPT ![saving[s].prompt] =
                  [version |-> saving[s].version, text |-> saving[s].text]]
  /\ versions' = [versions EXCEPT ![saving[s].prompt][saving[s].version] = saving[s].text]
  /\ promptLog' = promptLog \cup
       {[prompt |-> saving[s].prompt, version |-> saving[s].version, text |-> saving[s].text]}

(* Mutant: a version number that is taken is written over. *)
set_replacing(s) ==
  /\ saving[s].pc = "write"
  /\ Saved(s)
  /\ Closes(s)
  /\ UNCHANGED armed

\* One transaction for both tables: a version number that another save has
\* taken since the read violates the index, and neither table changes.
set(s) ==
  /\ saving[s].pc = "write"
  /\ IF versions[saving[s].prompt][saving[s].version] = "none"
       THEN Saved(s) ELSE UNCHANGED <<prompt, versions, promptLog>>
  /\ Closes(s)
  /\ UNCHANGED armed

PromptNext ==
  \/ \E e \in Editor : cancel_pending(e) \/ \E p \in Prompt : arm_pending(e, p)
  \/ \E s \in Save, e \in Editor, text \in Text :
       \/ dispatch_pending_prompt_edit(s, e, text)
       \/ \E p \in Prompt : put_project_prompt(s, e, p, text)
  \/ \E s \in Save, e \in Editor, p \in Prompt, v \in Version : restore(s, e, p, v)
  \/ \E s \in Save : consume_pending(s) \/ ReadVersion(s) \/ set(s)

PromptSpec == PromptInit /\ [][PromptNext]_promptVars

-----------------------------------------------------------------------------
\* Whatever saves and restorations overlap, the current value of a prompt is the
\* last of a history without gaps, and a text that an editor was told is saved as
\* version v is what restoring v brings back.
PromptsHaveTheirHistory ==
  /\ \A p \in Prompt :
       /\ {v \in Version : versions[p][v] # "none"} = 1..prompt[p].version
       /\ prompt[p].version > 0 => versions[p][prompt[p].version] = prompt[p].text
  /\ \A t \in promptLog : versions[t.prompt][t.version] = t.text
=============================================================================
