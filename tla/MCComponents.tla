---------------------------- MODULE MCComponents ----------------------------
(* Small instances of components that share no state, so that each is       *)
(* explored alone: `component` says which one, and the others stay in one   *)
(* of their initial states.                                                 *)
EXTENDS ToolDiff, FileManager, SettingsPanel, ChatInput, Conversations, Mmds, TLC

CONSTANTS Inner, Deep, Brief, Long

\* Contents of up to three lines, and longer ones that exceed MaxLines.
MCContents ==
    {<<Blank>>} \cup UNION {[1..n -> Lines] : n \in 1..3}
        \cup {<<p, q, p, r>> : p, q, r \in Lines}

MCDirs == {<<>>, <<Inner>>, <<Inner, Deep>>}

\* A request with one question, a single choice, and one with two.
MCQuestions == Brief :> <<FALSE>> @@ Long :> <<FALSE, TRUE>>

\* Two commands begin with "/c".
MCMatching == "/c" :> <<"/clear", "/cost">>

\* Without tool calls and commands, where only the panel is of interest.
MCEmpty == {<<Blank>>}
MCNone == [d \in {} |-> <<>>]

VARIABLE component

DiffAlone == component = "diff" /\ DiffNext
FilesAlone == component = "files" /\ FileNext
SettingsAlone == component = "settings" /\ SettingsNext
InputAlone == component = "input" /\ InputNext
ListAlone == component = "list" /\ ListNext
MmdsAlone == component = "mmds" /\ MmdsNext

Init ==
    /\ component \in {"diff", "files", "settings", "input", "list", "mmds"}
    /\ DiffInit /\ (component # "diff" => old = Empty /\ new = Empty)
    /\ FileInit /\ SettingsInit /\ InputInit
    /\ ListInit /\ (component # "list" => history = {})
    /\ MmdsInit

Next ==
    /\ UNCHANGED component
    /\ \/ DiffAlone /\ UNCHANGED <<fileVars, settingsVars, inputVars, listVars, mmdsVars>>
       \/ FilesAlone /\ UNCHANGED <<diffVars, settingsVars, inputVars, listVars, mmdsVars>>
       \/ SettingsAlone /\ UNCHANGED <<diffVars, fileVars, inputVars, listVars, mmdsVars>>
       \/ InputAlone /\ UNCHANGED <<diffVars, fileVars, settingsVars, listVars, mmdsVars>>
       \/ ListAlone /\ UNCHANGED <<diffVars, fileVars, settingsVars, inputVars, mmdsVars>>
       \/ MmdsAlone /\ UNCHANGED <<diffVars, fileVars, settingsVars, inputVars, listVars>>

Spec ==
    Init /\ [][Next]_<<component, diffVars, fileVars, settingsVars, inputVars, listVars, mmdsVars>>

Symmetry == Permutations(Options) \cup Permutations(Files) \cup Permutations(Uploads)

\* What happens once two queries run at a time is ChatClient's exception too.
\* Of the ways in which ChatInput comes to that, leaving the tab and an error
\* are not combined, and the menu of commands is opened on a fresh page only.
\* What is filled in on a panel and which files are attached do not meet in
\* any action, so they are not varied together. Two messages of the list's
\* three are under way at a time.
Bounded ==
    /\ ~overlap /\ ~(left /\ raised)
    /\ slashMenuOpen => sent = <<>> /\ picked = {} /\ stored = {} /\ mounted
    /\ left \/ raised => Cardinality(picked) <= 1
    /\ Cardinality(queries \cup waiting) <= 2 /\ Cardinality(lookups) <= 1
    /\ \/ picked = {}
       \/ /\ panelState = <<1, Nothing, Off, Off>>
          /\ Long \notin answered \cup {q[1] : q \in stored}
=============================================================================
