--------------------------- MODULE SettingsPanel ---------------------------
(***************************************************************************)
(* The settings panel: SettingsPanel.tsx over the settings routes of       *)
(* settings.rs, for a server that does not take its credentials from IAM.  *)
(* The user may save again, or close the panel and open it anew, while a   *)
(* save is under way.                                                      *)
(***************************************************************************)
EXTENDS Naturals, Sequences

CONSTANTS
    Keys, NoKey,    \* API keys; no key, or an empty field
    MaxSaves,       \* bound: saves
    MaxOpens        \* bound: times the panel is opened

ASSUME KeysAssumption == NoKey \notin Keys

VARIABLES
    serverKey,      \* the key in the VM's settings.json
    open,           \* showSettings of App: the panel is mounted
    settings, loadFailed, settingsLoading,      \* what the panel knows
    apiKey, saving, saveResult,         \* the field, and its save
    loads, saves,   \* requests under way; a load has the number of its save, or 0
    opened,         \* how often the panel was opened
    sentKeys,       \* the keys sent so far
    crossed         \* history: a key was sent with another under way

knownVars == <<settings, loadFailed, settingsLoading>>
fieldVars == <<apiKey, saving, saveResult>>
settingsVars == <<serverKey, open, knownVars, fieldVars, loads, saves, opened, sentKeys, crossed>>

SettingsTypeOK ==
    /\ serverKey \in Keys \cup {NoKey} /\ apiKey \in Keys \cup {NoKey}
    /\ open \in BOOLEAN /\ loadFailed \in BOOLEAN /\ settingsLoading \in BOOLEAN
    /\ saving \in BOOLEAN /\ crossed \in BOOLEAN
    /\ settings \in {"unknown", "none", "set"}
    /\ saveResult \in {"none", "success", "error"}
    /\ opened \in Nat /\ sentKeys \in Seq(Keys)
    /\ loads \subseteq [n : 0..Len(sentKeys), answer : {"asked", "none", "set"}]
    /\ saves \subseteq [n : 1..Len(sentKeys), stored : BOOLEAN, panel : 1..opened]

SettingsInit ==
    /\ serverKey = NoKey /\ open = FALSE
    /\ settings = "unknown" /\ loadFailed = FALSE /\ settingsLoading = TRUE
    /\ apiKey = NoKey /\ saving = FALSE /\ saveResult = "none"
    /\ loads = {} /\ saves = {}
    /\ opened = 0 /\ sentKeys = <<>> /\ crossed = FALSE

\* A fresh component, and the load of its effect.
OpenPanel ==
    /\ ~open /\ opened < MaxOpens
    /\ open' = TRUE /\ opened' = opened + 1
    /\ settings' = "unknown" /\ loadFailed' = FALSE /\ settingsLoading' = TRUE
    /\ apiKey' = NoKey /\ saving' = FALSE /\ saveResult' = "none"
    /\ loads' = {[n |-> 0, answer |-> "asked"]}
    /\ UNCHANGED <<serverKey, saves, sentKeys, crossed>>

\* Its loads are aborted or ignored; a save goes on.
ClosePanel ==
    /\ open
    /\ open' = FALSE /\ loads' = {}
    /\ UNCHANGED <<serverKey, knownVars, fieldVars, saves, opened, sentKeys, crossed>>

\* The field and its button are there.
FieldShown == open /\ ~settingsLoading /\ ~loadFailed /\ settings # "unknown"

Type ==
    /\ FieldShown
    /\ apiKey' \in (Keys \cup {NoKey}) \ {apiKey}
    /\ UNCHANGED <<serverKey, open, knownVars, saving, saveResult, loads, saves, opened, sentKeys, crossed>>

\* handleSave, up to its await: by the button, or by Enter, which is not
\* disabled while a save is under way.
Save ==
    /\ FieldShown /\ apiKey # NoKey /\ Len(sentKeys) < MaxSaves
    /\ saving' = TRUE /\ saveResult' = "none"
    /\ sentKeys' = Append(sentKeys, apiKey)
    /\ saves' = saves \cup {[n |-> Len(sentKeys) + 1, stored |-> FALSE, panel |-> opened]}
    /\ crossed' = (crossed \/ saves # {})
    /\ UNCHANGED <<serverKey, open, knownVars, apiKey, loads, opened>>

StoreKey(s) ==
    /\ s \in saves /\ ~s.stored
    /\ serverKey' = sentKeys[s.n]
    /\ saves' = (saves \ {s}) \cup {[s EXCEPT !.stored = TRUE]}
    /\ UNCHANGED <<open, knownVars, fieldVars, loads, opened, sentKeys, crossed>>

\* Bug: the settings are not loaded again.
SaveAnswered_NoLoad(s) ==
    /\ s \in saves /\ s.stored
    /\ saves' = saves \ {s}
    /\ IF open /\ s.panel = opened
       THEN /\ saveResult' = "success" /\ apiKey' = NoKey
            /\ saving' = FALSE
            /\ UNCHANGED <<loads, knownVars>>
       ELSE UNCHANGED <<loads, knownVars, fieldVars>>
    /\ UNCHANGED <<serverKey, open, opened, sentKeys, crossed>>

\* The field is emptied, whatever was typed meanwhile, and the settings load.
SaveAnswered(s) ==
    /\ s \in saves /\ s.stored
    /\ saves' = saves \ {s}
    /\ IF open /\ s.panel = opened
       THEN /\ saveResult' = "success" /\ apiKey' = NoKey
            /\ settingsLoading' = TRUE /\ loadFailed' = FALSE
            /\ loads' = loads \cup {[n |-> s.n, answer |-> "asked"]}
            /\ UNCHANGED <<settings, saving>>
       ELSE UNCHANGED <<loads, knownVars, fieldVars>>
    /\ UNCHANGED <<serverKey, open, opened, sentKeys, crossed>>

\* An error answer, or none: the key may have been stored all the same.
SaveFails(s) ==
    /\ s \in saves
    /\ saves' = saves \ {s}
    /\ IF open /\ s.panel = opened
       THEN saveResult' = "error" /\ saving' = FALSE
       ELSE UNCHANGED <<saving, saveResult>>
    /\ UNCHANGED <<serverKey, open, knownVars, apiKey, loads, opened, sentKeys, crossed>>

ServeLoad(l) ==
    /\ l \in loads /\ l.answer = "asked"
    /\ loads' = (loads \ {l}) \cup
            {[l EXCEPT !.answer = IF serverKey = NoKey THEN "none" ELSE "set"]}
    /\ UNCHANGED <<serverKey, open, knownVars, fieldVars, saves, opened, sentKeys, crossed>>

\* loadSettings after its await, and handleSave after loadSettings.
LoadEnds(l) ==
    /\ l \in loads
    /\ \/ l.answer # "asked" /\ settings' = l.answer /\ UNCHANGED loadFailed
       \/ loadFailed' = TRUE /\ UNCHANGED settings
    /\ settingsLoading' = FALSE
    /\ saving' = (saving /\ l.n = 0)
    /\ loads' = loads \ {l}
    /\ UNCHANGED <<serverKey, open, apiKey, saveResult, saves, opened, sentKeys, crossed>>

SettingsNext ==
    \/ OpenPanel \/ ClosePanel \/ Type \/ Save
    \/ \E s \in saves : StoreKey(s) \/ SaveAnswered(s) \/ SaveFails(s)
    \/ \E l \in loads : ServeLoad(l) \/ LoadEnds(l)

SettingsSpec == SettingsInit /\ [][SettingsNext]_settingsVars

-----------------------------------------------------------------------------
\* "API key saved successfully" is true and the panel shows the key as set: the
\* last key the user sent is the one the VM keeps, unless it was sent with
\* another under way, from this panel or from one closed before.
SuccessIsSaved ==
    open /\ saveResult = "success" =>
        /\ FieldShown => settings = "set"
        /\ saves = {} /\ ~crossed => serverKey = sentKeys[Len(sentKeys)]
=============================================================================
