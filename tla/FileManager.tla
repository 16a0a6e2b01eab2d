---------------------------- MODULE FileManager ----------------------------
(***************************************************************************)
(* The Files tab: FileManager.tsx over the ls and upload routes of         *)
(* files.rs and upload.rs.                                                 *)
(*                                                                         *)
(* The component stays mounted (App.tsx hides it), so its requests overlap *)
(* freely: each one is answered by the server at one step and handled by   *)
(* the page at a later one, in any order. A path is the sequence of the    *)
(* names below the upload directory; of the files the model keeps those    *)
(* that this page uploads.                                                 *)
(***************************************************************************)
EXTENDS Naturals, Sequences

CONSTANTS
    Dirs,       \* the directories of the VM: paths, with their parents
    Uploads,    \* files the user may upload, each once
    MaxAsked     \* bound: listings the user asks for

Root == <<>>
Parent(p) == SubSeq(p, 1, Len(p) - 1)
Names == UNION {{p[k] : k \in 1..Len(p)} : p \in Dirs}

ASSUME DirsAssumption ==
    /\ Root \in Dirs /\ Dirs \subseteq Seq(Names)
    /\ \A p \in Dirs : \A k \in 0..Len(p) : SubSeq(p, 1, k) \in Dirs

VARIABLES
    serverFiles,    \* the server's files: a set of uploads for each directory
    currentPath, entries, loading, error, uploadStatus,   \* the component's state
    timers,         \* timeouts that will clear the status
    listings,       \* requests of loadDir under way
    uploads,        \* what became of each upload, and the directory it goes to
    asked,          \* listings asked for so far
    applied,        \* history: the latest of them whose entries were shown
    overtaken       \* history: entries were shown after those of a later one

paneVars == <<currentPath, entries, loading, error>>
statusVars == <<uploadStatus, timers>>
listingVars == <<listings, asked, applied, overtaken>>
fileVars == <<serverFiles, paneVars, statusVars, listingVars, uploads>>

Pending == {u \in Uploads : uploads[u].state \in {"sent", "stored"}}

\* What ls answers for a directory: the names below it and its files.
Listing(p) == [dirs  |-> {name \in Names : Append(p, name) \in Dirs},
               files |-> serverFiles[p]]
NoAnswer == [dirs |-> {}, files |-> {}]

DirContents == [dirs : SUBSET Names, files : SUBSET Uploads]

FileTypeOK ==
    /\ serverFiles \in [Dirs -> SUBSET Uploads]
    /\ currentPath \in Dirs
    /\ entries \in DirContents
    /\ loading \in BOOLEAN /\ error \in BOOLEAN /\ overtaken \in BOOLEAN
    /\ uploadStatus \in {"none", "uploading", "uploaded", "failed"}
    /\ timers \in Nat /\ asked \in Nat /\ applied \in 0..asked
    /\ listings \subseteq [n : 1..asked, path : Dirs, served : BOOLEAN, answer : DirContents]
    /\ uploads \in [Uploads -> [state : {"no", "sent", "stored", "done", "lost"}, dir : Dirs]]

\* loadDir, up to its await.
LoadDir(p) ==
    /\ loading' = TRUE /\ error' = FALSE
    /\ asked' = asked + 1
    /\ listings' = listings \cup
            {[n |-> asked + 1, path |-> p, served |-> FALSE, answer |-> NoAnswer]}
    /\ UNCHANGED <<currentPath, entries, applied, overtaken>>

FileInit ==
    /\ serverFiles = [p \in Dirs |-> {}]
    /\ currentPath = Root /\ entries = NoAnswer
    /\ loading = TRUE /\ error = FALSE
    /\ uploadStatus = "none" /\ timers = 0
    /\ listings = {[n |-> 1, path |-> Root, served |-> FALSE, answer |-> NoAnswer]}
    /\ uploads = [u \in Uploads |-> [state |-> "no", dir |-> Root]]
    /\ asked = 1 /\ applied = 0 /\ overtaken = FALSE

-----------------------------------------------------------------------------
(* The user.                                                               *)

Rows ==
    IF loading \/ error THEN {}
    ELSE {Append(currentPath, name) : name \in entries.dirs}
            \cup (IF currentPath = Root THEN {} ELSE {Parent(currentPath)})

\* buildBreadcrumb: the directories above the one shown.
Breadcrumb == {SubSeq(currentPath, 1, k) : k \in 0..(Len(currentPath) - 1)}

\* A row is clicked, ".." among them, or a part of the breadcrumb.
Open ==
    /\ asked < MaxAsked
    /\ \E p \in Rows \cup Breadcrumb : LoadDir(p)
    /\ UNCHANGED <<serverFiles, statusVars, uploads>>

\* handleUpload, up to its await: the file goes to the directory shown now.
StartUpload(u) ==
    /\ uploads[u].state = "no"
    /\ uploadStatus' = "uploading"
    /\ uploads' = [uploads EXCEPT ![u] = [state |-> "sent", dir |-> currentPath]]
    /\ UNCHANGED <<serverFiles, paneVars, timers, listingVars>>

-----------------------------------------------------------------------------
(* The server, and its answers.                                            *)

ServeListing(r) ==
    /\ r \in listings /\ ~r.served
    /\ listings' = (listings \ {r}) \cup
            {[r EXCEPT !.served = TRUE, !.answer = Listing(r.path)]}
    /\ UNCHANGED <<serverFiles, paneVars, statusVars, asked, applied, overtaken, uploads>>

Store(u) ==
    /\ uploads[u].state = "sent"
    /\ uploads' = [uploads EXCEPT ![u].state = "stored"]
    /\ serverFiles' = [serverFiles EXCEPT ![uploads[u].dir] = @ \cup {u}]
    /\ UNCHANGED <<paneVars, statusVars, listingVars>>

\* The entries come: path and entries change together.
ShowListing(r) ==
    /\ r \in listings /\ r.served
    /\ listings' = listings \ {r}
    /\ currentPath' = r.path /\ entries' = r.answer
    /\ loading' = FALSE
    /\ applied' = IF r.n > applied THEN r.n ELSE applied
    /\ overtaken' = (overtaken \/ r.n < applied)
    /\ UNCHANGED <<serverFiles, error, statusVars, asked, uploads>>

ListingFails(r) ==
    /\ r \in listings
    /\ listings' = listings \ {r}
    /\ error' = TRUE /\ loading' = FALSE
    /\ UNCHANGED <<serverFiles, currentPath, entries, statusVars, asked, applied, overtaken, uploads>>

\* Bug: the list is left as it was.
UploadAnswered_NoReload(u) ==
    /\ uploads[u].state = "stored"
    /\ uploads' = [uploads EXCEPT ![u].state = "done"]
    /\ uploadStatus' = "uploaded" /\ timers' = timers + 1
    /\ UNCHANGED <<serverFiles, paneVars, listingVars>>

\* The directory of the upload is loaded again, wherever the user is by now.
UploadAnswered(u) ==
    /\ uploads[u].state = "stored"
    /\ uploads' = [uploads EXCEPT ![u].state = "done"]
    /\ LoadDir(uploads[u].dir)
    /\ uploadStatus' = "uploaded" /\ timers' = timers + 1
    /\ UNCHANGED serverFiles

\* An error answer, or none: the file may have been stored all the same.
UploadFails(u) ==
    /\ u \in Pending
    /\ uploads' = [uploads EXCEPT ![u].state = "lost"]
    /\ uploadStatus' = "failed" /\ timers' = timers + 1
    /\ UNCHANGED <<serverFiles, paneVars, listingVars>>

\* Three seconds later: whatever the status is about by then.
ClearStatus ==
    /\ timers > 0
    /\ timers' = timers - 1 /\ uploadStatus' = "none"
    /\ UNCHANGED <<serverFiles, paneVars, listingVars, uploads>>

-----------------------------------------------------------------------------
Answers ==
    \/ \E r \in listings : ServeListing(r) \/ ShowListing(r) \/ ListingFails(r)
    \/ \E u \in Uploads : Store(u) \/ UploadAnswered(u) \/ UploadFails(u)

FileNext == Open \/ (\E u \in Uploads : StartUpload(u)) \/ Answers \/ ClearStatus

FileSpec == FileInit /\ [][FileNext]_fileVars

-----------------------------------------------------------------------------
\* No listing under way and no error shown: the list is what the directory holds,
\* with every upload the page heard of, unless an answer was overtaken by that
\* of a later request.
ListIsCurrent ==
    listings = {} /\ ~error /\ ~overtaken =>
        /\ ~loading
        /\ entries.dirs = Listing(currentPath).dirs
        /\ entries.files \subseteq serverFiles[currentPath]
        /\ \A u \in serverFiles[currentPath] : uploads[u].state = "done" => u \in entries.files
=============================================================================
