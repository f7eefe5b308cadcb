---------------------------- MODULE LLMSettings ----------------------------
(* What the model client is told (app/llm/router.py, api/routers/settings.py,   *)
(* llm/credentials/store.py): the environment, a preset, and over both one       *)
(* app_settings row that administrators edit; and keys stored by provider name.  *)
EXTENDS Integers, FiniteSets

CONSTANTS
    Editors,        \* PUT and DELETE requests served at once
    Presets,        \* PRESETS, without `fake`
    BareOf,         \* those of them that name no models
    Edits           \* bound: edits committed

ASSUME LLMSettingsAssumption == BareOf \subseteq Presets /\ Edits \in Nat

VARIABLES
    envPreset,      \* LLM_PRESET, or "none"
    saved,          \* the value of the app_settings row, or NoRowYet
    editor,         \* each request: the row it read and what it changes
    keys,           \* stored api_key rows: the provider names they are under
    askedFor,          \* history: the value last committed for each field
    racedEdits,          \* history: an edit was committed between another's read and write
    edits

settingsVars == <<envPreset, saved, editor, keys, askedFor, racedEdits, edits>>

Fields == {"provider", "base_url", "models"}
Unset == "unset"
NoOverride == [f \in Fields |-> Unset]
NoRowYet == << >>
Waiting == [read |-> NoRowYet, change |-> NoOverride]

SettingsInit ==
    /\ envPreset \in Presets \cup {"none"}
    /\ saved = NoRowYet
    /\ editor = [e \in Editors |-> Waiting]
    /\ keys = {}
    /\ askedFor = NoOverride
    /\ racedEdits = FALSE
    /\ edits = 0

\* put_llm_settings spells a preset out: its provider and address always, its
\* models where it has them. A field is here the preset its value is of.
Spelled(p) == [f \in Fields |-> IF f = "models" /\ p \in BareOf THEN Unset ELSE p]
OwnModels == [f \in Fields |-> IF f = "models" THEN "own" ELSE Unset]
Changes == {Spelled(p) : p \in Presets} \cup {OwnModels}

Keeps(value, change) == [f \in Fields |-> IF value[f] = Unset THEN change[f] ELSE value[f]]
\* {**read, **values}
Merges(value, change) == [f \in Fields |-> IF change[f] = Unset THEN value[f] ELSE change[f]]

Overrides(row) == IF row = NoRowYet THEN NoOverride ELSE row

PutSettings(e, change) ==
    /\ editor[e] = Waiting /\ edits < Edits
    /\ editor' = [editor EXCEPT ![e] = [read |-> saved, change |-> change]]
    /\ UNCHANGED <<envPreset, saved, keys, askedFor, racedEdits, edits>>

Committed(e) ==
    /\ edits' = edits + 1
    /\ racedEdits' = (racedEdits \/ \E o \in Editors \ {e} : editor[o] # Waiting)

\* A second insert meets the primary key and an update of a row that went matches
\* nothing: both answer 500. A row that would stay as it was read is not written.
CommitPut(e) ==
    /\ editor[e] # Waiting
    /\ LET read == editor[e].read
           value == Merges(Overrides(read), editor[e].change)
           fails == (read = NoRowYet) # (saved = NoRowYet)
       IN  IF fails \/ value = read
           THEN UNCHANGED <<saved, askedFor, racedEdits, edits>>
           ELSE /\ saved' = value
                /\ askedFor' = [f \in Fields |->
                       IF editor[e].change[f] # Unset THEN editor[e].change[f] ELSE askedFor[f]]
                /\ Committed(e)
    /\ editor' = [editor EXCEPT ![e] = Waiting]
    /\ UNCHANGED <<envPreset, keys>>

\* delete_llm_settings
ClearSettings(e) ==
    /\ editor[e] = Waiting /\ saved # NoRowYet /\ edits < Edits
    /\ saved' = NoRowYet
    /\ askedFor' = NoOverride
    /\ Committed(e)
    /\ UNCHANGED <<envPreset, editor, keys>>

\* effective_llm_settings: the row over the preset over the environment.
Effective(field) ==
    IF Overrides(saved)[field] # Unset THEN Overrides(saved)[field]
    ELSE IF envPreset # "none" THEN Spelled(envPreset)[field] ELSE Unset

\* A key goes under the preset of the environment; a call looks under that too,
\* and without one under the name of the provider the row says.
StoredUnder == IF envPreset # "none" THEN envPreset ELSE "custom"
LookedUpUnder ==
    IF envPreset # "none" THEN envPreset
    ELSE IF Overrides(saved)["provider"] # Unset THEN Overrides(saved)["provider"] ELSE "custom"

SaveKeyUnder(name) == keys' = keys \cup {name}
PostCredentials ==
    /\ SaveKeyUnder(StoredUnder)
    /\ UNCHANGED <<envPreset, saved, editor, askedFor, racedEdits, edits>>

DeleteCredentials ==
    /\ keys' = keys \ {StoredUnder}
    /\ UNCHANGED <<envPreset, saved, editor, askedFor, racedEdits, edits>>

SettingsNext ==
    \/ \E e \in Editors :
        \/ \E change \in Changes : PutSettings(e, change)
        \/ CommitPut(e) \/ ClearSettings(e)
    \/ PostCredentials \/ DeleteCredentials

SettingsSpec == SettingsInit /\ [][SettingsNext]_settingsVars

-----------------------------------------------------------------------------
\* The row holds the last value committed for every field, whoever edited which,
\* unless two edits overlapped: then the later write undoes the earlier one.
EditsAddUp == racedEdits \/ Overrides(saved) = askedFor

\* Provider and address are of one preset whatever overlaps: a write is of a whole
\* row, and the merge changes both or neither. (The models need not be: a preset
\* without any leaves those of the one before.)
OnePreset == Effective("provider") = Effective("base_url")

\* A stored key is looked for where it was put, unless the environment names no
\* preset and the row names a provider.
KeyIsFound ==
    keys # {} => LookedUpUnder \in keys \/ (envPreset = "none" /\ Overrides(saved) # NoOverride)

SettingsTell == EditsAddUp /\ OnePreset /\ KeyIsFound
=============================================================================
