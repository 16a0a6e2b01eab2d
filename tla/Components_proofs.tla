--------------------------- MODULE Components_proofs ---------------------------
(***************************************************************************)
(* Proofs about the components that a run checks side by side: the Files   *)
(* tab, the settings panel, the question panel with the composer, the      *)
(* refresh of the VMs' credentials, and the list of conversations. They    *)
(* share no state with each other; each has a section of its own.          *)
(***************************************************************************)
EXTENDS FileManager, SettingsPanel, ChatInput, Mmds, Conversations,
        FiniteSetTheorems, FunctionTheorems, TLAPS

-----------------------------------------------------------------------------
(* About FileManager, for any directories, uploads and number of listings: *)
(* its type invariant, and that the list is current.                       *)
(*                                                                         *)
(* The latest request is under way, or was shown, or an error is shown.    *)
(* Every upload that the page heard of asks for a listing when it does, so *)
(* that the latest request is younger than all of them.                    *)

\* The entries, and every answer on its way, are of a directory as it was.
Answered(dir, answer) ==
    /\ answer.dirs = Listing(dir).dirs
    /\ answer.files \subseteq serverFiles[dir]

EntriesOfPath ==
    /\ entries.dirs \subseteq Listing(currentPath).dirs
    /\ applied > 0 => Answered(currentPath, entries)
    /\ \A r \in listings : r.served => Answered(r.path, r.answer)

\* The uploads the page heard of that an answer for a directory must have.
HasUploads(dir, answer) ==
    \A u \in serverFiles[dir] : uploads[u].state = "done" => u \in answer.files

\* The latest request is younger than the uploads the page heard of.
LatestHasUploads ==
    /\ \A r \in listings : r.served /\ r.n = asked => HasUploads(r.path, r.answer)
    /\ applied = asked /\ ~overtaken => HasUploads(currentPath, entries)

\* Requests have numbers of their own.
Numbered ==
    /\ asked > 0
    /\ \A r \in listings : r.n # applied /\ \A q \in listings : q.n = r.n => q = r

\* The latest request is not lost.
LatestKnown == error \/ applied = asked \/ \E r \in listings : r.n = asked
LoadingEnds == loading => listings # {}

FileInv ==
    /\ FileTypeOK /\ EntriesOfPath /\ LatestHasUploads
    /\ Numbered /\ LatestKnown /\ LoadingEnds

\* A request there may be.
ListRequest == [n : 1..asked, path : Dirs, served : BOOLEAN, answer : DirContents]
NewRequest(p) == [n |-> asked + 1, path |-> p, served |-> FALSE, answer |-> NoAnswer]
Upload == [state : {"no", "sent", "stored", "done", "lost"}, dir : Dirs]

\* The parts of the type invariant.
PaneType ==
    /\ serverFiles \in [Dirs -> SUBSET Uploads]
    /\ currentPath \in Dirs /\ entries \in DirContents
    /\ loading \in BOOLEAN /\ error \in BOOLEAN /\ overtaken \in BOOLEAN
    /\ uploadStatus \in {"none", "uploading", "uploaded", "failed"}
    /\ timers \in Nat
CountType == asked \in Nat /\ applied \in 0..asked
RequestType == listings \subseteq ListRequest /\ uploads \in [Uploads -> Upload]

\* The type invariant is its parts.
LEMMA FileTypeParts == FileTypeOK <=> PaneType /\ CountType /\ RequestType
BY DEF FileTypeOK, PaneType, CountType, RequestType, ListRequest, Upload

\* What ls answers is a listing.
LEMMA ListingType ==
    ASSUME FileTypeOK, NEW p \in Dirs
    PROVE  Listing(p) \in DirContents /\ Listing(p).files = serverFiles[p]
           /\ Listing(p).dirs = {name \in Names : Append(p, name) \in Dirs}
BY DEF FileTypeOK, Listing, DirContents

\* What can be opened is a directory: a row of the list, or one above it.
LEMMA OpensDirs ==
    ASSUME FileTypeOK, EntriesOfPath
    PROVE  Rows \subseteq Dirs /\ Breadcrumb \subseteq Dirs
<1>1. currentPath \in Dirs /\ currentPath \in Seq(Names)
  BY DirsAssumption DEF FileTypeOK
<1>2. ASSUME NEW name \in entries.dirs PROVE Append(currentPath, name) \in Dirs
  BY <1>1, ListingType DEF EntriesOfPath
<1>3. ASSUME currentPath # Root PROVE Parent(currentPath) \in Dirs
  <2>1. Len(currentPath) \in Nat /\ Len(currentPath) # 0  BY <1>1, <1>3 DEF Root
  <2>2. Len(currentPath) - 1 \in 0..Len(currentPath)  BY <2>1
  <2> QED  BY <1>1, <2>2, DirsAssumption DEF Parent
<1>4. Breadcrumb \subseteq Dirs
  <2>1. Len(currentPath) \in Nat  BY <1>1
  <2>2. \A k \in 0..(Len(currentPath) - 1) : k \in 0..Len(currentPath)  BY <2>1
  <2> QED  BY <1>1, <2>2, DirsAssumption DEF Breadcrumb
<1> QED  BY <1>2, <1>3, <1>4 DEF Rows

\* The initial state satisfies the invariant.
LEMMA FileInitInv == FileInit => FileInv
<1> SUFFICES ASSUME FileInit PROVE FileInv
  OBVIOUS
<1> USE DirsAssumption DEF FileInit
<1>1. NoAnswer \in DirContents  BY DEF NoAnswer, DirContents
<1>2. listings \subseteq ListRequest  BY <1>1 DEF ListRequest
<1>3. uploads \in [Uploads -> Upload]  BY DEF Upload
<1>4. FileTypeOK
  <2>1. PaneType  BY <1>1 DEF PaneType
  <2>2. CountType  BY DEF CountType
  <2> QED  BY <2>1, <2>2, <1>2, <1>3, FileTypeParts DEF RequestType
<1>5. EntriesOfPath  BY DEF EntriesOfPath, NoAnswer
<1>6. LatestHasUploads  BY DEF LatestHasUploads
<1>7. Numbered /\ LatestKnown /\ LoadingEnds  BY DEF Numbered, LatestKnown, LoadingEnds
<1> QED  BY <1>4, <1>5, <1>6, <1>7 DEF FileInv

\* What LoadDir asks for.
LEMMA LoadDirEffect ==
    ASSUME FileTypeOK, NEW p \in Dirs, LoadDir(p)
    PROVE  /\ asked' = asked + 1 /\ asked' \in Nat /\ listings' = listings \cup {NewRequest(p)}
           /\ NewRequest(p) \in ListRequest' /\ ListRequest \subseteq ListRequest'
           /\ NewRequest(p).n = asked' /\ ~NewRequest(p).served
<1>1. asked' = asked + 1 /\ asked \in Nat /\ listings' = listings \cup {NewRequest(p)}
  BY DEF FileTypeOK, LoadDir, NewRequest
<1>2. NoAnswer \in DirContents  BY DEF NoAnswer, DirContents
<1>3. NewRequest(p) \in ListRequest'  BY <1>1, <1>2 DEF NewRequest, ListRequest, DirContents
<1>4. ListRequest \subseteq ListRequest'  BY <1>1 DEF ListRequest, DirContents
<1> QED  BY <1>1, <1>3, <1>4 DEF NewRequest

\* What a request is once it is served: the same, with the listing.
LEMMA ServedEffect ==
    ASSUME FileTypeOK, NEW r \in listings, NEW q,
           q = [r EXCEPT !.served = TRUE, !.answer = Listing(r.path)]
    PROVE  /\ q \in ListRequest /\ q.n = r.n /\ q.path = r.path /\ q.path \in Dirs
           /\ q.answer = Listing(r.path) /\ q.served
<1>1. r \in ListRequest /\ r.path \in Dirs  BY FileTypeParts DEF RequestType, ListRequest
<1>2. Listing(r.path) \in DirContents  BY <1>1, ListingType
<1> HIDE DEF Listing
<1>3. q = [n |-> r.n, path |-> r.path, served |-> TRUE, answer |-> Listing(r.path)]
  BY <1>1 DEF ListRequest
<1> QED  BY <1>1, <1>2, <1>3 DEF ListRequest

\* What an action does to the state of an upload.
LEMMA UploadEffect ==
    ASSUME FileTypeOK, NEW u \in Uploads, NEW k \in {"stored", "done", "lost"},
           uploads' = [uploads EXCEPT ![u].state = k]
    PROVE  /\ uploads' \in [Uploads -> Upload]
           /\ uploads'[u].state = k
           /\ \A w \in Uploads : w # u => uploads'[w] = uploads[w]
<1>1. uploads \in [Uploads -> Upload]  BY FileTypeParts DEF RequestType
<1> QED  BY <1>1 DEF Upload

\* Every step preserves the type invariant.
LEMMA FileTypeStep == FileInv /\ [FileNext]_fileVars => FileTypeOK'
<1> SUFFICES ASSUME FileInv, [FileNext]_fileVars
             PROVE  PaneType' /\ CountType' /\ RequestType'
  BY FileTypeParts, PTL
<1>a. FileTypeOK /\ PaneType /\ CountType /\ RequestType /\ EntriesOfPath
  BY FileTypeParts DEF FileInv
<1> USE <1>a DEF paneVars, statusVars, listingVars
<1>1. CASE Open
  <2>1. PICK p \in Rows \cup Breadcrumb : LoadDir(p)  BY <1>1 DEF Open
  <2>2. p \in Dirs  BY <2>1, OpensDirs
  <2>3. PaneType'  BY <1>1, <2>1 DEF Open, LoadDir, PaneType
  <2>4. CountType'  BY <2>1 DEF LoadDir, CountType
  <2>5. RequestType'  BY <1>1, <2>1, <2>2, LoadDirEffect DEF Open, RequestType
  <2> QED  BY <2>3, <2>4, <2>5
<1>2. ASSUME NEW u \in Uploads, StartUpload(u) PROVE PaneType' /\ CountType' /\ RequestType'
  <2>1. [state |-> "sent", dir |-> currentPath] \in Upload  BY DEF PaneType, Upload
  <2>2. uploads' \in [Uploads -> Upload]  BY <1>2, <2>1 DEF StartUpload, RequestType
  <2>3. ListRequest' = ListRequest  BY <1>2 DEF StartUpload, ListRequest, DirContents
  <2>4. PaneType' /\ CountType'  BY <1>2 DEF StartUpload, PaneType, CountType
  <2> QED  BY <1>2, <2>2, <2>3, <2>4 DEF StartUpload, RequestType
<1>3. ASSUME NEW r \in listings, ServeListing(r) PROVE PaneType' /\ CountType' /\ RequestType'
  <2>1. [r EXCEPT !.served = TRUE, !.answer = Listing(r.path)] \in ListRequest
    BY ServedEffect
  <2>2. ListRequest' = ListRequest  BY <1>3 DEF ServeListing, ListRequest, DirContents
  <2>3. RequestType'  BY <1>3, <2>1, <2>2 DEF ServeListing, RequestType
  <2> QED  BY <1>3, <2>3 DEF ServeListing, PaneType, CountType
<1>4. ASSUME NEW u \in Uploads, Store(u) PROVE PaneType' /\ CountType' /\ RequestType'
  <2>1. ListRequest' = ListRequest  BY <1>4 DEF Store, ListRequest, DirContents
  <2>2. RequestType'  BY <1>4, <2>1, UploadEffect DEF Store, RequestType
  <2>3. PaneType'  BY <1>4 DEF Store, PaneType
  <2> QED  BY <1>4, <2>2, <2>3 DEF Store, CountType
<1>5. ASSUME NEW r \in listings, ShowListing(r) PROVE PaneType' /\ CountType' /\ RequestType'
  <2>1. r.n \in 1..asked /\ r.path \in Dirs /\ r.answer \in DirContents
    BY DEF RequestType, ListRequest
  <2>2. PaneType'  BY <1>5, <2>1 DEF ShowListing, PaneType
  <2>3. CountType'  BY <1>5, <2>1 DEF ShowListing, CountType
  <2>4. RequestType'  BY <1>5 DEF ShowListing, RequestType, ListRequest, DirContents
  <2> QED  BY <2>2, <2>3, <2>4
<1>6. ASSUME NEW r \in listings, ListingFails(r) PROVE PaneType' /\ CountType' /\ RequestType'
  BY <1>6 DEF ListingFails, PaneType, CountType, RequestType, ListRequest, DirContents
<1>7. ASSUME NEW u \in Uploads, UploadAnswered(u) PROVE PaneType' /\ CountType' /\ RequestType'
  <2>1. uploads[u].dir \in Dirs  BY DEF RequestType, Upload
  <2>2. PaneType'
    <3>1. UNCHANGED <<serverFiles, currentPath, entries, overtaken>>
          /\ loading' = TRUE /\ error' = FALSE
          /\ uploadStatus' = "uploaded" /\ timers' = timers + 1
      BY <1>7 DEF UploadAnswered, LoadDir
    <3>2. timers' \in Nat  BY <3>1 DEF PaneType
    <3>3. currentPath' \in Dirs /\ entries' \in DirContents /\ overtaken' \in BOOLEAN
      BY <3>1 DEF PaneType
    <3>4. serverFiles' \in [Dirs -> SUBSET Uploads]  BY <3>1 DEF PaneType
    <3> QED  BY <3>1, <3>2, <3>3, <3>4 DEF PaneType, DirContents
  <2>3. CountType'  BY <1>7 DEF UploadAnswered, LoadDir, CountType
  <2>4. uploads' \in [Uploads -> Upload]  BY <1>7, UploadEffect DEF UploadAnswered
  <2>5. listings' \subseteq ListRequest'
    BY <1>7, <2>1, LoadDirEffect DEF UploadAnswered, RequestType
  <2> QED  BY <2>2, <2>3, <2>4, <2>5 DEF RequestType, Upload
<1>8. ASSUME NEW u \in Uploads, UploadFails(u) PROVE PaneType' /\ CountType' /\ RequestType'
  <2>1. ListRequest' = ListRequest  BY <1>8 DEF UploadFails, ListRequest, DirContents
  <2>2. RequestType'  BY <1>8, <2>1, UploadEffect DEF UploadFails, RequestType
  <2> QED  BY <1>8, <2>2 DEF UploadFails, PaneType, CountType
<1>9. CASE ClearStatus
  BY <1>9 DEF ClearStatus, PaneType, CountType, RequestType, ListRequest, DirContents
<1>10. CASE UNCHANGED fileVars
  BY <1>10 DEF fileVars, PaneType, CountType, RequestType, ListRequest, DirContents
<1> QED
  BY <1>1, <1>2, <1>3, <1>4, <1>5, <1>6, <1>7, <1>8, <1>9, <1>10 DEF FileNext, Answers

\* What the page shows and waits for, in the actions that ask for nothing.
pageVars == <<currentPath, entries, error, loading, listingVars>>

\* An upload that the page did not hear of yet, stored or not, and files that
\* are only added, do not change what an answer must have.
Heard == {u \in Uploads : uploads[u].state = "done"}
Grows == serverFiles' = serverFiles \/ \E u \in Uploads :
    /\ uploads[u].state = "sent" /\ uploads[u].dir \in Dirs
    /\ serverFiles' = [serverFiles EXCEPT ![uploads[u].dir] = @ \cup {u}]

\* Every action is one of five, as far as the list is concerned.
LEMMA Cases ==
    ASSUME FileInv, [FileNext]_fileVars
    PROVE  \/ Heard' = Heard /\ Grows /\ UNCHANGED pageVars
           \/ \E p \in Dirs : LoadDir(p) /\ UNCHANGED serverFiles
           \/ \E r \in listings : ServeListing(r)
           \/ \E r \in listings : ShowListing(r)
           \/ \E r \in listings : ListingFails(r)
<1>a. FileTypeOK /\ EntriesOfPath /\ uploads \in [Uploads -> Upload]
  BY FileTypeParts DEF FileInv, RequestType
<1> USE <1>a DEF paneVars, statusVars, listingVars, pageVars
<1>1. CASE Open
  <2>1. PICK p \in Rows \cup Breadcrumb : LoadDir(p)  BY <1>1 DEF Open
  <2>2. p \in Dirs  BY <2>1, OpensDirs
  <2> QED  BY <1>1, <2>1, <2>2 DEF Open
<1>2. ASSUME NEW u \in Uploads, StartUpload(u) PROVE Heard' = Heard /\ Grows /\ UNCHANGED pageVars
  <2>1. \A w \in Uploads : uploads'[w].state = "done" <=> uploads[w].state = "done"
    BY <1>2 DEF StartUpload, Upload
  <2> QED  BY <1>2, <2>1 DEF StartUpload, Heard, Grows
<1>3. ASSUME NEW u \in Uploads, Store(u) PROVE Heard' = Heard /\ Grows /\ UNCHANGED pageVars
  <2>1. \A w \in Uploads : uploads'[w].state = "done" <=> uploads[w].state = "done"
    BY <1>3, UploadEffect DEF Store
  <2>2. uploads[u].dir \in Dirs  BY DEF Upload
  <2> QED  BY <1>3, <2>1, <2>2 DEF Store, Heard, Grows
<1>4. ASSUME NEW u \in Uploads, UploadAnswered(u)
      PROVE  \E p \in Dirs : LoadDir(p) /\ UNCHANGED serverFiles
  <2>1. uploads[u].dir \in Dirs  BY DEF Upload
  <2> QED  BY <1>4, <2>1 DEF UploadAnswered
<1>5. ASSUME NEW u \in Uploads, UploadFails(u) PROVE Heard' = Heard /\ Grows /\ UNCHANGED pageVars
  <2>1. \A w \in Uploads : uploads'[w].state = "done" <=> uploads[w].state = "done"
    BY <1>5, UploadEffect DEF UploadFails, Pending
  <2> QED  BY <1>5, <2>1 DEF UploadFails, Heard, Grows
<1>6. CASE ClearStatus  BY <1>6 DEF ClearStatus, Heard, Grows
<1>7. CASE UNCHANGED fileVars  BY <1>7 DEF fileVars, Heard, Grows
<1> QED
  BY <1>1, <1>2, <1>3, <1>4, <1>5, <1>6, <1>7 DEF FileNext, Answers

\* Requests keep numbers of their own, the latest is not lost, and the page
\* does not load without one.
LEMMA NumberStep ==
    ASSUME FileInv, [FileNext]_fileVars
    PROVE  Numbered' /\ LatestKnown' /\ LoadingEnds'
<1>a. /\ FileTypeOK /\ Numbered /\ LatestKnown /\ LoadingEnds
      /\ asked \in Nat /\ applied \in 0..asked
      /\ \A r \in listings : r.n \in 1..asked
  BY FileTypeParts DEF FileInv, CountType, RequestType, ListRequest
<1> USE <1>a DEF Numbered, LatestKnown, LoadingEnds
<1>1. CASE Heard' = Heard /\ Grows /\ UNCHANGED pageVars
  BY <1>1 DEF pageVars, listingVars
<1>2. ASSUME NEW p \in Dirs, LoadDir(p) PROVE Numbered' /\ LatestKnown' /\ LoadingEnds'
  <2>1. /\ asked' = asked + 1 /\ listings' = listings \cup {NewRequest(p)}
        /\ NewRequest(p).n = asked + 1 /\ applied' = applied
    BY <1>2, LoadDirEffect DEF LoadDir
  <2> QED  BY <2>1
<1>3. ASSUME NEW r \in listings, ServeListing(r) PROVE Numbered' /\ LatestKnown' /\ LoadingEnds'
  <2> DEFINE q == [r EXCEPT !.served = TRUE, !.answer = Listing(r.path)]
  <2>1. q.n = r.n  BY ServedEffect
  <2>2. /\ listings' = (listings \ {r}) \cup {q}
        /\ UNCHANGED <<asked, applied, error, loading>>
    BY <1>3 DEF ServeListing, paneVars
  <2> HIDE DEF q
  <2> QED  BY <2>1, <2>2
<1>4. ASSUME NEW r \in listings, ShowListing(r) PROVE Numbered' /\ LatestKnown' /\ LoadingEnds'
  BY <1>4 DEF ShowListing
<1>5. ASSUME NEW r \in listings, ListingFails(r) PROVE Numbered' /\ LatestKnown' /\ LoadingEnds'
  BY <1>5 DEF ListingFails
<1> QED  BY <1>1, <1>2, <1>3, <1>4, <1>5, Cases

\* The server's files are only added to.
LEMMA Grown ==
    ASSUME FileTypeOK, Grows
    PROVE  \A p \in Dirs : serverFiles[p] \subseteq serverFiles'[p]
BY DEF FileTypeOK, Grows

\* What is shown, and what is on its way, is of a directory as it was.
LEMMA EntriesStep == ASSUME FileInv, [FileNext]_fileVars PROVE EntriesOfPath'
<1>a. /\ FileTypeOK /\ EntriesOfPath /\ applied \in Nat /\ currentPath \in Dirs
      /\ \A r \in listings : r.path \in Dirs /\ r.n > 0
  BY FileTypeParts DEF FileInv, CountType, RequestType, ListRequest, PaneType
<1>b. \A p \in Dirs : Listing(p).files = serverFiles[p]
  BY <1>a, ListingType
<1>c. \A p : (Listing(p).dirs)' = Listing(p).dirs  BY DEF Listing
<1> USE <1>a, <1>b, <1>c DEF EntriesOfPath, Answered
<1> HIDE DEF Listing
<1>1. CASE Heard' = Heard /\ Grows /\ UNCHANGED pageVars
  <2>1. \A p \in Dirs : serverFiles[p] \subseteq serverFiles'[p]  BY <1>1, Grown
  <2> QED  BY <1>1, <2>1 DEF pageVars, listingVars
<1>2. ASSUME NEW p \in Dirs, LoadDir(p), UNCHANGED serverFiles PROVE EntriesOfPath'
  <2>1. /\ listings' = listings \cup {NewRequest(p)} /\ ~NewRequest(p).served
        /\ UNCHANGED <<currentPath, entries, applied>>
    BY <1>2, LoadDirEffect DEF LoadDir
  <2> QED  BY <1>2, <2>1
<1>3. ASSUME NEW r \in listings, ServeListing(r) PROVE EntriesOfPath'
  <2> DEFINE q == [r EXCEPT !.served = TRUE, !.answer = Listing(r.path)]
  <2>1. q.path = r.path /\ q.answer = Listing(r.path)  BY ServedEffect
  <2>2. /\ listings' = (listings \ {r}) \cup {q}
        /\ UNCHANGED <<serverFiles, currentPath, entries, applied>>
    BY <1>3 DEF ServeListing, paneVars
  <2> HIDE DEF q
  <2> QED  BY <2>1, <2>2
<1>4. ASSUME NEW r \in listings, ShowListing(r) PROVE EntriesOfPath'
  BY <1>4 DEF ShowListing
<1>5. ASSUME NEW r \in listings, ListingFails(r) PROVE EntriesOfPath'
  BY <1>5 DEF ListingFails
<1> QED  BY <1>1, <1>2, <1>3, <1>4, <1>5, Cases

\* The answer to the latest request has every upload the page heard of.
LEMMA LatestStep == ASSUME FileInv, [FileNext]_fileVars PROVE LatestHasUploads'
<1>a. /\ FileTypeOK /\ LatestHasUploads /\ Numbered
      /\ asked \in Nat /\ applied \in 0..asked /\ currentPath \in Dirs
      /\ \A r \in listings : r.path \in Dirs /\ r.n \in 1..asked
      /\ \A p \in Dirs : serverFiles[p] \subseteq Uploads
  BY FileTypeParts DEF FileInv, CountType, RequestType, ListRequest, PaneType
<1>b. \A p \in Dirs : Listing(p).files = serverFiles[p]
  BY <1>a, ListingType
<1> USE <1>a DEF LatestHasUploads, HasUploads
<1>1. CASE Heard' = Heard /\ Grows /\ UNCHANGED pageVars
  <2>1. \A u \in Uploads : uploads'[u].state = "done" <=> uploads[u].state = "done"
    BY <1>1 DEF Heard
  <2>2. \A p \in Dirs : \A u \in serverFiles'[p] :
            u \in Uploads /\ (uploads[u].state = "done" => u \in serverFiles[p])
    BY <1>1 DEF Grows, FileTypeOK
  <2> QED  BY <1>1, <2>1, <2>2 DEF pageVars, listingVars
<1>2. ASSUME NEW p \in Dirs, LoadDir(p), UNCHANGED serverFiles PROVE LatestHasUploads'
  <2>1. /\ listings' = listings \cup {NewRequest(p)} /\ ~NewRequest(p).served
        /\ asked' = asked + 1 /\ applied' = applied
    BY <1>2, LoadDirEffect DEF LoadDir
  <2> QED  BY <1>2, <2>1
<1>3. ASSUME NEW r \in listings, ServeListing(r) PROVE LatestHasUploads'
  <2> DEFINE q == [r EXCEPT !.served = TRUE, !.answer = Listing(r.path)]
  <2>1. q.path = r.path /\ q.answer.files = serverFiles[r.path]  BY <1>b, ServedEffect
  <2>2. /\ listings' = (listings \ {r}) \cup {q}
        /\ UNCHANGED <<serverFiles, currentPath, entries, asked, applied, overtaken, uploads>>
    BY <1>3 DEF ServeListing, paneVars
  <2> HIDE DEF q
  <2> QED  BY <2>1, <2>2
<1>4. ASSUME NEW r \in listings, ShowListing(r) PROVE LatestHasUploads'
  <2>1. r.n # applied /\ r.n \in 1..asked  BY DEF Numbered
  <2>2. /\ listings' = listings \ {r} /\ currentPath' = r.path /\ entries' = r.answer
        /\ applied' = (IF r.n > applied THEN r.n ELSE applied)
        /\ overtaken' = (overtaken \/ r.n < applied) /\ r.served
        /\ UNCHANGED <<serverFiles, asked, uploads>>
    BY <1>4 DEF ShowListing
  <2>3. (\A q \in listings : q.served /\ q.n = asked => HasUploads(q.path, q.answer))'
    BY <2>2
  <2>4. ~overtaken' => ~(r.n < applied)  BY <2>2, Zenon
  <2>5. applied' = asked' /\ ~overtaken' => r.n = asked  BY <2>1, <2>2, <2>4
  <2>6. applied' = asked' /\ ~overtaken' => HasUploads(r.path, r.answer)  BY <2>2, <2>5
  <2> QED  BY <2>2, <2>3, <2>6
<1>5. ASSUME NEW r \in listings, ListingFails(r) PROVE LatestHasUploads'
  BY <1>5 DEF ListingFails
<1> QED  BY <1>1, <1>2, <1>3, <1>4, <1>5, Cases

\* Every reachable state satisfies the invariant.
LEMMA FileInvHolds == FileSpec => []FileInv
<1>1. FileInv /\ [FileNext]_fileVars => FileInv'
  BY FileTypeStep, NumberStep, EntriesStep, LatestStep DEF FileInv
<1> QED  BY FileInitInv, <1>1, PTL DEF FileSpec

\* The type invariant, for all directories, uploads and listings.
THEOREM FileTypeCorrect == FileSpec => []FileTypeOK
<1>1. FileInv => FileTypeOK  BY DEF FileInv
<1> QED  BY FileInvHolds, <1>1, PTL

\* What FileManager.tsx shows once nothing is loading is what the directory
\* holds, however requests and uploads overlap, unless an answer was overtaken.
THEOREM ListIsCurrentHolds == FileSpec => []ListIsCurrent
<1>1. ASSUME FileInv PROVE ListIsCurrent
  <2>a. FileTypeOK /\ asked > 0 /\ currentPath \in Dirs /\ entries \in DirContents
    BY <1>1, FileTypeParts DEF FileInv, Numbered, PaneType
  <2> SUFFICES ASSUME listings = {}, ~error, ~overtaken
               PROVE  /\ ~loading /\ Answered(currentPath, entries)
                      /\ HasUploads(currentPath, entries)
    BY DEF ListIsCurrent, Answered, HasUploads
  <2>1. applied = asked  BY <1>1 DEF FileInv, LatestKnown
  <2>2. ~loading  BY <1>1 DEF FileInv, LoadingEnds
  <2> QED  BY <1>1, <2>a, <2>1, <2>2 DEF FileInv, EntriesOfPath, LatestHasUploads
<1>2. FileInv => ListIsCurrent  BY <1>1
<1> QED  BY FileInvHolds, <1>2, PTL

-----------------------------------------------------------------------------
(* About SettingsPanel, for any keys and any number of saves and           *)
(* visits: its type invariant, and that what the panel says of a save is   *)
(* true.                                                                   *)
(*                                                                         *)
(* A load that follows a save is served after a key was stored, so that it *)
(* answers "set"; the load that a panel opens with ends before anything    *)
(* can be saved from it, and no other load is under way until then. Saves  *)
(* that were never under way together come one by one, each the last sent. *)

\* The parts of the type invariant: the requests there can be, and the rest.
Scalars ==
    /\ serverKey \in Keys \cup {NoKey} /\ apiKey \in Keys \cup {NoKey}
    /\ open \in BOOLEAN /\ loadFailed \in BOOLEAN /\ settingsLoading \in BOOLEAN
    /\ saving \in BOOLEAN /\ crossed \in BOOLEAN
    /\ settings \in {"unknown", "none", "set"}
    /\ saveResult \in {"none", "success", "error"}
    /\ opened \in Nat /\ sentKeys \in Seq(Keys)
Load == [n : 0..Len(sentKeys), answer : {"asked", "none", "set"}]
Put == [n : 1..Len(sentKeys), stored : BOOLEAN, panel : 1..opened]

\* The load of a fresh panel: nothing has been saved from it.
FirstLoad ==
    \A l \in loads : l.n = 0 =>
        /\ settingsLoading /\ saveResult = "none"
        /\ loads = {l} /\ \A s \in saves : s.panel # opened

\* Where a save was stored, the VM has a key, and later loads say so.
KeyIsThere ==
    /\ \A s \in saves : s.stored => serverKey # NoKey
    /\ saveResult = "success" => serverKey # NoKey
    /\ \A l \in loads : l.n # 0 => serverKey # NoKey /\ l.answer # "none"

\* A success is followed by a load, after which the key shows as set.
ShownAsSet ==
    saveResult = "success" /\ ~settingsLoading /\ ~loadFailed => settings = "set"

\* One save at a time: it is the last, and once stored it is the VM's.
OneByOne ==
    ~crossed =>
        /\ \A s \in saves :
            /\ saves = {s} /\ s.n = Len(sentKeys)
            /\ s.stored => serverKey = sentKeys[Len(sentKeys)]
        /\ saveResult = "success" =>
            /\ saves = {}
            /\ serverKey = sentKeys[Len(sentKeys)]

\* A panel that is open was opened.
Opened == open => opened > 0

SettingsInv == SettingsTypeOK /\ Opened /\ FirstLoad /\ KeyIsThere /\ ShownAsSet /\ OneByOne

\* The type invariant is its parts.
LEMMA SettingsTypeParts == SettingsTypeOK <=> Scalars /\ loads \subseteq Load /\ saves \subseteq Put
BY DEF SettingsTypeOK, Scalars, Load, Put

\* The number of keys that were sent is a number.
LEMMA SentLength == Scalars => Len(sentKeys) \in Nat
BY DEF Scalars

\* The initial state satisfies the invariant.
LEMMA SettingsInitInv == SettingsInit => SettingsInv
<1> SUFFICES ASSUME SettingsInit PROVE SettingsInv
  OBVIOUS
<1> USE DEF SettingsInit
<1>1. Scalars
  <2>1. sentKeys \in Seq(Keys)  OBVIOUS
  <2> QED  BY <2>1 DEF Scalars
<1>2. loads \subseteq Load /\ saves \subseteq Put  OBVIOUS
<1>3. FirstLoad /\ KeyIsThere /\ ShownAsSet /\ Opened
  BY DEF FirstLoad, KeyIsThere, ShownAsSet, Opened
<1>4. OneByOne  BY DEF OneByOne
<1> QED  BY <1>1, <1>2, <1>3, <1>4, SettingsTypeParts DEF SettingsInv

\* What Save does to the keys that were sent.
LEMMA Sending ==
    ASSUME SettingsTypeOK, Save
    PROVE  /\ apiKey \in Keys /\ sentKeys' \in Seq(Keys) /\ Len(sentKeys) \in Nat
           /\ Len(sentKeys') = Len(sentKeys) + 1 /\ sentKeys'[Len(sentKeys')] = apiKey
           /\ open /\ opened \in Nat
<1>1. apiKey \in Keys /\ sentKeys \in Seq(Keys) /\ opened \in Nat /\ open
      /\ sentKeys' = Append(sentKeys, apiKey)
  BY DEF SettingsTypeOK, Save, FieldShown
<1>2. Len(sentKeys) \in Nat  BY <1>1
<1>3. sentKeys' \in Seq(Keys) /\ Len(sentKeys') = Len(sentKeys) + 1
  BY <1>1
<1>4. sentKeys'[Len(sentKeys) + 1] = apiKey  BY <1>1, <1>2
<1> QED  BY <1>1, <1>2, <1>3, <1>4

\* Every step preserves the type invariant.
LEMMA SettingsTypeStep == SettingsInv /\ [SettingsNext]_settingsVars => SettingsTypeOK'
<1> SUFFICES ASSUME SettingsInv, [SettingsNext]_settingsVars
             PROVE  Scalars' /\ (loads \subseteq Load)' /\ (saves \subseteq Put)'
  BY SettingsTypeParts, PTL
<1>a. Scalars /\ loads \subseteq Load /\ saves \subseteq Put /\ Opened
  BY SettingsTypeParts DEF SettingsInv
<1>b. Len(sentKeys) \in Nat /\ opened \in Nat  BY <1>a, SentLength DEF Scalars
<1> USE <1>a, <1>b DEF knownVars, fieldVars
<1>1. CASE OpenPanel
  <2>1. Scalars'
    <3>1. opened' \in Nat /\ sentKeys' = sentKeys /\ serverKey' = serverKey /\ crossed' = crossed
      BY <1>1 DEF OpenPanel
    <3>2. open' = TRUE /\ settings' = "unknown" /\ loadFailed' = FALSE /\ settingsLoading' = TRUE
          /\ apiKey' = NoKey /\ saving' = FALSE /\ saveResult' = "none"
      BY <1>1 DEF OpenPanel
    <3> QED  BY <3>1, <3>2 DEF Scalars
  <2>2. (loads \subseteq Load)'  BY <1>1 DEF OpenPanel, Load
  <2>3. (saves \subseteq Put)'  BY <1>1 DEF OpenPanel, Put
  <2> QED  BY <2>1, <2>2, <2>3
<1>2. CASE ClosePanel  BY <1>2 DEF ClosePanel, Scalars, Load, Put
<1>3. CASE Type
  <2>1. Scalars'
    <3>1. apiKey' \in Keys \cup {NoKey}  BY <1>3 DEF Type
    <3> QED  BY <1>3, <3>1 DEF Type, Scalars
  <2> QED  BY <1>3, <2>1 DEF Type, Load, Put
<1>4. CASE Save
  <2>1. sentKeys' \in Seq(Keys) /\ Len(sentKeys') = Len(sentKeys) + 1 /\ opened \in 1..opened
    BY <1>4, Sending, SettingsTypeParts DEF Opened
  <2>2. Scalars'  BY <1>4, <2>1 DEF Save, Scalars
  <2>3. (loads \subseteq Load)'  BY <1>4, <2>1 DEF Save, Load
  <2>4. (saves \subseteq Put)'
    <3>1. saves' = saves \cup {[n |-> Len(sentKeys) + 1, stored |-> FALSE, panel |-> opened]}
          /\ opened' = opened
      BY <1>4 DEF Save
    <3>2. [n |-> Len(sentKeys) + 1, stored |-> FALSE, panel |-> opened] \in Put'
      BY <2>1, <3>1 DEF Put
    <3>3. Put \subseteq Put'  BY <2>1, <3>1 DEF Put
    <3> QED  BY <3>1, <3>2, <3>3
  <2> QED  BY <2>2, <2>3, <2>4
<1>5. ASSUME NEW s \in saves, StoreKey(s)
      PROVE  Scalars' /\ (loads \subseteq Load)' /\ (saves \subseteq Put)'
  <2>1. s.n \in 1..Len(sentKeys) /\ sentKeys \in Seq(Keys)  BY DEF Put, Scalars
  <2>2. serverKey' \in Keys  BY <1>5, <2>1 DEF StoreKey
  <2>3. Scalars'  BY <1>5, <2>2 DEF StoreKey, Scalars
  <2>4. [s EXCEPT !.stored = TRUE] \in Put  BY DEF Put
  <2>5. Load' = Load /\ Put' = Put  BY <1>5 DEF StoreKey, Load, Put
  <2> QED  BY <1>5, <2>3, <2>4, <2>5 DEF StoreKey
<1>6. ASSUME NEW s \in saves, SaveAnswered(s)
      PROVE  Scalars' /\ (loads \subseteq Load)' /\ (saves \subseteq Put)'
  <2>1. Scalars'  BY <1>6 DEF SaveAnswered, Scalars
  <2>2. s.n \in 1..Len(sentKeys)  BY DEF Put
  <2>3. [n |-> s.n, answer |-> "asked"] \in Load  BY <2>2 DEF Load
  <2>4. Load' = Load /\ Put' = Put  BY <1>6 DEF SaveAnswered, Load, Put
  <2> QED  BY <1>6, <2>1, <2>3, <2>4 DEF SaveAnswered
<1>7. ASSUME NEW s \in saves, SaveFails(s)
      PROVE  Scalars' /\ (loads \subseteq Load)' /\ (saves \subseteq Put)'
  <2>1. Scalars'  BY <1>7 DEF SaveFails, Scalars
  <2>2. Load' = Load /\ Put' = Put  BY <1>7 DEF SaveFails, Load, Put
  <2> QED  BY <1>7, <2>1, <2>2 DEF SaveFails
<1>8. ASSUME NEW l \in loads, ServeLoad(l)
      PROVE  Scalars' /\ (loads \subseteq Load)' /\ (saves \subseteq Put)'
  <2>1. Scalars'  BY <1>8 DEF ServeLoad, Scalars
  <2>2. Load' = Load /\ Put' = Put  BY <1>8 DEF ServeLoad, Load, Put
  <2>3. [l EXCEPT !.answer = IF serverKey = NoKey THEN "none" ELSE "set"] \in Load
    BY DEF Load
  <2> QED  BY <1>8, <2>1, <2>2, <2>3 DEF ServeLoad
<1>9. ASSUME NEW l \in loads, LoadEnds(l)
      PROVE  Scalars' /\ (loads \subseteq Load)' /\ (saves \subseteq Put)'
  <2>1. l.answer \in {"asked", "none", "set"}  BY DEF Load
  <2>2. Scalars'  BY <1>9, <2>1 DEF LoadEnds, Scalars
  <2>3. Load' = Load /\ Put' = Put  BY <1>9 DEF LoadEnds, Load, Put
  <2> QED  BY <1>9, <2>2, <2>3 DEF LoadEnds
<1>10. CASE UNCHANGED settingsVars  BY <1>10 DEF settingsVars, Scalars, Load, Put
<1> QED
  BY <1>1, <1>2, <1>3, <1>4, <1>5, <1>6, <1>7, <1>8, <1>9, <1>10 DEF SettingsNext

\* What the state says of requests and keys follows from the types.
LEMMA Facts ==
    ASSUME SettingsTypeOK
    PROVE  /\ Len(sentKeys) \in Nat /\ opened \in Nat /\ sentKeys \in Seq(Keys)
           /\ \A s \in saves : s.n \in 1..Len(sentKeys) /\ s.panel \in 1..opened
                               /\ sentKeys[s.n] \in Keys /\ s.stored \in BOOLEAN
           /\ \A l \in loads : l.n \in Nat /\ l.answer \in {"asked", "none", "set"}
<1>1. Scalars /\ loads \subseteq Load /\ saves \subseteq Put  BY SettingsTypeParts
<1>2. Len(sentKeys) \in Nat /\ opened \in Nat /\ sentKeys \in Seq(Keys)
  BY <1>1 DEF Scalars
<1>3. ASSUME NEW s \in saves
      PROVE  s.n \in 1..Len(sentKeys) /\ s.panel \in 1..opened
             /\ sentKeys[s.n] \in Keys /\ s.stored \in BOOLEAN
  BY <1>1, <1>2 DEF Put
<1>4. ASSUME NEW l \in loads PROVE l.n \in Nat /\ l.answer \in {"asked", "none", "set"}
  BY <1>1, <1>2 DEF Load
<1> QED  BY <1>2, <1>3, <1>4

\* A save that is stored, or a load that is served, is otherwise the same.
LEMMA Served ==
    ASSUME SettingsTypeOK, NEW k
    PROVE  /\ \A s \in saves :
                /\ [s EXCEPT !.stored = TRUE].n = s.n
                /\ [s EXCEPT !.stored = TRUE].panel = s.panel
                /\ [s EXCEPT !.stored = TRUE].stored
           /\ \A l \in loads :
                [l EXCEPT !.answer = k].n = l.n /\ [l EXCEPT !.answer = k].answer = k
<1>1. loads \subseteq Load /\ saves \subseteq Put  BY SettingsTypeParts
<1> QED  BY <1>1 DEF Load, Put

\* The load of a panel that opens stays alone until it ends.
LEMMA FirstLoadStep == SettingsInv /\ [SettingsNext]_settingsVars => FirstLoad'
<1> SUFFICES ASSUME SettingsInv, [SettingsNext]_settingsVars PROVE FirstLoad'
  OBVIOUS
<1>a. /\ Len(sentKeys) \in Nat /\ opened \in Nat
      /\ \A s \in saves : s.n \in 1..Len(sentKeys) /\ s.panel \in 1..opened
      /\ \A l \in loads : l.n \in Nat
      /\ FirstLoad
  BY Facts DEF SettingsInv
<1> USE <1>a DEF FirstLoad, knownVars, fieldVars
<1>1. CASE OpenPanel  BY <1>1 DEF OpenPanel
<1>2. CASE ClosePanel  BY <1>2 DEF ClosePanel
<1>3. CASE Type  BY <1>3 DEF Type
<1>4. CASE Save  BY <1>4 DEF Save, FieldShown
<1>5. ASSUME NEW s \in saves, StoreKey(s) PROVE FirstLoad'
  <2>1. [s EXCEPT !.stored = TRUE].panel = s.panel  BY Served DEF SettingsInv
  <2> QED  BY <1>5, <2>1 DEF StoreKey
<1>6. ASSUME NEW s \in saves, SaveAnswered(s) PROVE FirstLoad'  BY <1>6 DEF SaveAnswered
<1>7. ASSUME NEW s \in saves, SaveFails(s) PROVE FirstLoad'  BY <1>7 DEF SaveFails
<1>8. ASSUME NEW l \in loads, ServeLoad(l) PROVE FirstLoad'
  <2> DEFINE m == [l EXCEPT !.answer = IF serverKey = NoKey THEN "none" ELSE "set"]
  <2>1. m.n = l.n  BY Served DEF SettingsInv
  <2>2. loads' = (loads \ {l}) \cup {m}
        /\ UNCHANGED <<settingsLoading, saveResult, saves, opened>>
    BY <1>8 DEF ServeLoad
  <2> HIDE DEF m
  <2> QED  BY <2>1, <2>2
<1>9. ASSUME NEW l \in loads, LoadEnds(l) PROVE FirstLoad'  BY <1>9 DEF LoadEnds
<1>10. CASE UNCHANGED settingsVars  BY <1>10 DEF settingsVars
<1> QED
  BY <1>1, <1>2, <1>3, <1>4, <1>5, <1>6, <1>7, <1>8, <1>9, <1>10 DEF SettingsNext

\* Once a key is stored the VM has one, and loads say so.
LEMMA KeyStep == SettingsInv /\ [SettingsNext]_settingsVars => KeyIsThere'
<1> SUFFICES ASSUME SettingsInv, [SettingsNext]_settingsVars PROVE KeyIsThere'
  OBVIOUS
<1>a. /\ \A s \in saves : s.n \in 1..Len(sentKeys) /\ sentKeys[s.n] \in Keys
      /\ KeyIsThere
  BY Facts DEF SettingsInv
<1> USE <1>a, KeysAssumption DEF KeyIsThere, knownVars, fieldVars
<1>1. CASE OpenPanel  BY <1>1 DEF OpenPanel
<1>2. CASE ClosePanel  BY <1>2 DEF ClosePanel
<1>3. CASE Type  BY <1>3 DEF Type
<1>4. CASE Save  BY <1>4 DEF Save
<1>5. ASSUME NEW s \in saves, StoreKey(s) PROVE KeyIsThere'
  <2>1. serverKey' # NoKey  BY <1>5 DEF StoreKey
  <2> QED  BY <1>5, <2>1 DEF StoreKey
<1>6. ASSUME NEW s \in saves, SaveAnswered(s) PROVE KeyIsThere'  BY <1>6 DEF SaveAnswered
<1>7. ASSUME NEW s \in saves, SaveFails(s) PROVE KeyIsThere'  BY <1>7 DEF SaveFails
<1>8. ASSUME NEW l \in loads, ServeLoad(l) PROVE KeyIsThere'
  <2> DEFINE m == [l EXCEPT !.answer = IF serverKey = NoKey THEN "none" ELSE "set"]
  <2>1. m.n = l.n /\ m.answer = (IF serverKey = NoKey THEN "none" ELSE "set")
    BY Served DEF SettingsInv
  <2>2. loads' = (loads \ {l}) \cup {m} /\ UNCHANGED <<saves, saveResult, serverKey>>
    BY <1>8 DEF ServeLoad
  <2> HIDE DEF m
  <2> QED  BY <2>1, <2>2
<1>9. ASSUME NEW l \in loads, LoadEnds(l) PROVE KeyIsThere'  BY <1>9 DEF LoadEnds
<1>10. CASE UNCHANGED settingsVars  BY <1>10 DEF settingsVars
<1> QED
  BY <1>1, <1>2, <1>3, <1>4, <1>5, <1>6, <1>7, <1>8, <1>9, <1>10 DEF SettingsNext

\* The loads after a success show the key as set, or fail visibly.
LEMMA ShownStep == SettingsInv /\ [SettingsNext]_settingsVars => ShownAsSet' /\ Opened'
<1> SUFFICES ASSUME SettingsInv, [SettingsNext]_settingsVars PROVE ShownAsSet' /\ Opened'
  OBVIOUS
<1>a. /\ opened \in Nat /\ \A l \in loads : l.answer \in {"asked", "none", "set"}
      /\ FirstLoad /\ KeyIsThere /\ ShownAsSet /\ Opened
  BY Facts DEF SettingsInv
<1> USE <1>a DEF FirstLoad, KeyIsThere, ShownAsSet, Opened, knownVars, fieldVars
<1>1. CASE OpenPanel  BY <1>1 DEF OpenPanel
<1>2. CASE ClosePanel  BY <1>2 DEF ClosePanel
<1>3. CASE Type  BY <1>3 DEF Type
<1>4. CASE Save  BY <1>4 DEF Save
<1>5. ASSUME NEW s \in saves, StoreKey(s) PROVE ShownAsSet' /\ Opened'
  BY <1>5 DEF StoreKey
<1>6. ASSUME NEW s \in saves, SaveAnswered(s) PROVE ShownAsSet' /\ Opened'
  BY <1>6 DEF SaveAnswered
<1>7. ASSUME NEW s \in saves, SaveFails(s) PROVE ShownAsSet' /\ Opened'
  BY <1>7 DEF SaveFails
<1>8. ASSUME NEW l \in loads, ServeLoad(l) PROVE ShownAsSet' /\ Opened'
  BY <1>8 DEF ServeLoad
<1>9. ASSUME NEW l \in loads, LoadEnds(l) PROVE ShownAsSet' /\ Opened'
  BY <1>9 DEF LoadEnds
<1>10. CASE UNCHANGED settingsVars  BY <1>10 DEF settingsVars
<1> QED
  BY <1>1, <1>2, <1>3, <1>4, <1>5, <1>6, <1>7, <1>8, <1>9, <1>10 DEF SettingsNext

\* Saves that do not cross come one by one.
LEMMA OneByOneStep == SettingsInv /\ [SettingsNext]_settingsVars => OneByOne'
<1> SUFFICES ASSUME SettingsInv, [SettingsNext]_settingsVars PROVE OneByOne'
  OBVIOUS
<1>a. /\ Len(sentKeys) \in Nat
      /\ \A s \in saves : s.n \in 1..Len(sentKeys) /\ s.stored \in BOOLEAN
      /\ OneByOne
  BY Facts DEF SettingsInv
<1> USE <1>a DEF OneByOne, knownVars, fieldVars
<1>1. CASE OpenPanel  BY <1>1 DEF OpenPanel
<1>2. CASE ClosePanel  BY <1>2 DEF ClosePanel
<1>3. CASE Type  BY <1>3 DEF Type
<1>4. CASE Save
  <2> DEFINE t == [n |-> Len(sentKeys) + 1, stored |-> FALSE, panel |-> opened]
  <2>1. Len(sentKeys') = Len(sentKeys) + 1  BY <1>4, Sending DEF SettingsInv
  <2>2. saves' = saves \cup {t} /\ saveResult' = "none" /\ crossed' = (crossed \/ saves # {})
    BY <1>4 DEF Save
  <2>3. t.n = Len(sentKeys') /\ ~t.stored  BY <2>1
  <2> HIDE DEF t
  <2> QED  BY <2>2, <2>3
<1>5. ASSUME NEW s \in saves, StoreKey(s) PROVE OneByOne'
  <2> DEFINE t == [s EXCEPT !.stored = TRUE]
  <2>1. t.n = s.n /\ t.stored  BY Served DEF SettingsInv
  <2>2. /\ serverKey' = sentKeys[s.n] /\ saves' = (saves \ {s}) \cup {t}
        /\ UNCHANGED <<saveResult, sentKeys, crossed>>
    BY <1>5 DEF StoreKey
  <2> HIDE DEF t
  <2>3. ~crossed => saves' = {t} /\ saveResult # "success"  BY <2>2
  <2> QED  BY <2>1, <2>2, <2>3
<1>6. ASSUME NEW s \in saves, SaveAnswered(s) PROVE OneByOne'  BY <1>6 DEF SaveAnswered
<1>7. ASSUME NEW s \in saves, SaveFails(s) PROVE OneByOne'  BY <1>7 DEF SaveFails
<1>8. ASSUME NEW l \in loads, ServeLoad(l) PROVE OneByOne'  BY <1>8 DEF ServeLoad
<1>9. ASSUME NEW l \in loads, LoadEnds(l) PROVE OneByOne'  BY <1>9 DEF LoadEnds
<1>10. CASE UNCHANGED settingsVars  BY <1>10 DEF settingsVars
<1> QED
  BY <1>1, <1>2, <1>3, <1>4, <1>5, <1>6, <1>7, <1>8, <1>9, <1>10 DEF SettingsNext

\* Every reachable state satisfies the invariant.
LEMMA SettingsInvHolds == SettingsSpec => []SettingsInv
<1>1. SettingsInv /\ [SettingsNext]_settingsVars => SettingsInv'
  BY SettingsTypeStep, FirstLoadStep, KeyStep, ShownStep, OneByOneStep DEF SettingsInv
<1> QED  BY SettingsInitInv, <1>1, PTL DEF SettingsSpec

\* The type invariant, for all keys and however often the panel is opened.
THEOREM SettingsTypeCorrect == SettingsSpec => []SettingsTypeOK
<1>1. SettingsInv => SettingsTypeOK  BY DEF SettingsInv
<1> QED  BY SettingsInvHolds, <1>1, PTL

\* What SettingsPanel.tsx says of a save is true: the key it calls saved is
\* shown as set, and the VM keeps the last key sent, but for saves that were
\* under way together.
THEOREM SuccessIsSavedHolds == SettingsSpec => []SuccessIsSaved
<1>1. SettingsInv => SuccessIsSaved
  BY DEF SettingsInv, SuccessIsSaved, ShownAsSet, OneByOne, FieldShown
<1> QED  BY SettingsInvHolds, <1>1, PTL

-----------------------------------------------------------------------------
(* About QuestionPanel and ChatInput, for any conversations, requests,     *)
(* files and number of messages: their type invariant, that the panel fits *)
(* the request and gives one answer to a single choice, that messages are  *)
(* sent one at a time, and each file once.                                 *)
(*                                                                         *)
(* A panel that still shows the request it opened with stands in it, and   *)
(* what is chosen for a single choice is one option or "Other...". Of the  *)
(* handleSend calls at their await one at most has a composer to come back *)
(* to, and keeps it blocked. Until a message is sent by another call, the  *)
(* tab is left while a query runs, or a query raises an error before its   *)
(* done, one query runs at most, which the composer knows of, and no call  *)
(* with a composer waits meanwhile. Each call has files of its own.        *)

\* A single choice that is answered by one option, or by "Other...".
Single(k) ==
    /\ otherActive[k] => selections[k] = {}
    /\ selections[k] = {} \/ \E o \in Options : selections[k] = {o}

\* The panel stands in the request that it opened with.
InRequest ==
    Shown # NoRequest /\ ~carried =>
        step \in 1..Last /\ \A k \in 1..Last : Questions[Shown][k] \/ Single(k)

PanelInv == PanelTypeOK /\ InRequest

\* What handleSend keeps, and the messages.
JobRecord == [text : Slash \cup {NoText, Text}, from : Convs \cup {NoConv},
              todo : Seq(Files), done : SUBSET Files, orphan : BOOLEAN, gone : BOOLEAN]
Message == [conv : Convs, from : Convs \cup {NoConv}, files : SUBSET Files]
SendingOK == jobs \subseteq JobRecord /\ sent \in Seq(Message)

\* One call at most has a composer, which it keeps from sending. The composer of
\* a ChatInterface that is gone is gone too.
OneWaits ==
    /\ \A j, k \in jobs : j.orphan \/ k.orphan \/ j = k
    /\ \A j \in jobs : j.orphan \/ (uploading /\ ~j.gone)

\* One query runs, and the composer knows of it.
OneRuns ==
    /\ \A m, n \in running : m = n
    /\ running = {} \/ (streaming # NoConv /\ \A j \in jobs : j.orphan)
    /\ ~overlap

\* What SendsOneAtATime excepts.
Unlocked == orphaned \/ left \/ raised
OneAtATime == Unlocked \/ OneRuns

\* The files in a sequence, with a call, and in the messages sent.
Held(s) == {s[k] : k \in 1..Len(s)}
FilesOf(j) == Held(j.todo) \cup j.done
SentFiles == UNION {sent[m].files : m \in 1..Len(sent)}

\* A file is attached, or with one call, or in one message.
FilesApart ==
    /\ Held(pendingFiles) \cup SentFiles \subseteq picked
    /\ \A j \in jobs : FilesOf(j) \subseteq picked
    /\ Held(pendingFiles) \cap SentFiles = {}
    /\ \A j \in jobs : FilesOf(j) \cap SentFiles = {}
    /\ \A j \in jobs : ~j.orphan \/ FilesOf(j) \cap Held(pendingFiles) = {}
    /\ \A j, k \in jobs : j = k \/ FilesOf(j) \cap FilesOf(k) = {}
    /\ \A m \in 1..Len(sent) : \A n \in 1..(m - 1) : sent[n].files \cap sent[m].files = {}

InputInv == PanelInv /\ InputTypeOK /\ SendingOK /\ OneWaits /\ OneAtATime /\ FilesApart

-----------------------------------------------------------------------------
(* The panel.                                                              *)

\* Every request fits into the steps there are.
LEMMA StepsFit ==
    /\ MaxQuestions \in Nat \ {0}
    /\ \A r \in Requests : Len(Questions[r]) \in 1..MaxQuestions
    /\ \A r \in Requests : 1..Len(Questions[r]) \subseteq Steps
<1>1. \A r \in Requests : Len(Questions[r]) \in Nat \ {0}
  BY PanelAssumption
<1>2. PICK r \in Requests : \A q \in Requests : Len(Questions[q]) <= Len(Questions[r])
  BY PanelAssumption
<1>3. \E n \in {Len(Questions[q]) : q \in Requests} : \A q \in Requests : Len(Questions[q]) <= n
  BY <1>2
<1>4. /\ MaxQuestions \in {Len(Questions[q]) : q \in Requests}
      /\ \A q \in Requests : Len(Questions[q]) <= MaxQuestions
  BY <1>3 DEF MaxQuestions
<1> QED  BY <1>1, <1>4, SMTT(30) DEF Steps

\* A request shown is a request, of the conversation in view.
LEMMA ShownRequest ==
    ASSUME PanelTypeOK, Shown # NoRequest
    PROVE  /\ Shown \in Requests /\ view \in Convs /\ pending[view] = Shown
           /\ Last \in Nat \ {0} /\ 1..Last \subseteq Steps
<1>1. /\ Shown \in Requests /\ view \in Convs /\ pending[view] = Shown
  BY DEF PanelTypeOK, Shown, ShownAt
<1> QED  BY <1>1, StepsFit DEF Last

\* A render keeps the panel's invariant, whatever is pending and in view.
LEMMA RenderKeeps ==
    ASSUME PanelInv, Render,
           view' \in Convs \cup {NoConv}, pending' \in [Convs -> Requests \cup {NoRequest}],
           stored' \subseteq Requests \X Convs, answered' \subseteq Requests
    PROVE  PanelInv'
<1> DEFINE now == ShownAt(view', pending')
<1>0. Shown' = now  BY DEF Shown
<1>1. CASE Shown # NoRequest /\ now # NoRequest
  <2>1. UNCHANGED panelState /\ carried' = (carried \/ now # Shown)
    BY <1>1 DEF Render
  <2>2. PanelTypeOK'  BY <2>1 DEF PanelInv, PanelTypeOK, panelState
  <2>3. carried' \/ (Shown' = Shown /\ ~carried)  BY <1>0, <2>1, Zenon DEF PanelInv, PanelTypeOK
  <2>4. InRequest'  BY <1>1, <2>1, <2>3 DEF PanelInv, InRequest, panelState, Last, Single
  <2> QED  BY <2>2, <2>4 DEF PanelInv
<1>2. CASE ~(Shown # NoRequest /\ now # NoRequest)
  <2>1. /\ step' = 1 /\ selections' = Nothing /\ otherActive' = Off /\ otherTexts' = Off
        /\ carried' = FALSE
    BY <1>2 DEF Render
  <2>2. 1 \in Steps  BY StepsFit DEF Steps
  <2>3. Nothing \in [Steps -> SUBSET Options] /\ Off \in [Steps -> BOOLEAN]
    BY DEF Nothing, Off
  <2>4. PanelTypeOK'  BY <2>1, <2>2, <2>3, Zenon DEF PanelTypeOK
  <2>5. ASSUME now # NoRequest  PROVE 1 \in 1..Last' /\ \A k \in 1..Last' : Single(k)'
    <3>1. now \in Requests  BY <2>5, <2>4 DEF PanelTypeOK, ShownAt
    <3>2. Last' = Len(Questions[now])  BY <1>0 DEF Last
    <3>3. 1 \in 1..Last' /\ 1..Last' \subseteq Steps  BY <3>1, <3>2, StepsFit
    <3>4. ASSUME NEW k \in Steps PROVE Single(k)'
      BY <2>1 DEF Single, Nothing, Off
    <3> QED  BY <3>3, <3>4
  <2>6. InRequest'  BY <1>0, <2>1, <2>5 DEF InRequest
  <2> QED  BY <2>4, <2>6 DEF PanelInv
<1> QED  BY <1>1, <1>2

\* The initial state satisfies the panel's invariant.
LEMMA PanelInitInv == PanelInit => PanelInv
<1> SUFFICES ASSUME PanelInit PROVE PanelInv  OBVIOUS
<1>1. 1 \in Steps  BY StepsFit DEF Steps
<1>2. Nothing \in [Steps -> SUBSET Options] /\ Off \in [Steps -> BOOLEAN]
  BY DEF Nothing, Off
<1>3. PanelTypeOK  BY <1>1, <1>2 DEF PanelInit, PanelTypeOK
<1>4. Shown = NoRequest  BY DEF PanelInit, Shown, ShownAt
<1> QED  BY <1>3, <1>4 DEF PanelInv, InRequest

\* What the user does on the panel keeps its invariant.
LEMMA UsePanelKeeps == PanelInv /\ UsePanel => PanelInv'
<1> SUFFICES ASSUME PanelInv, OnPanel, UsePanel PROVE PanelInv'
  BY DEF UsePanel, ToggleOption, ToggleOther, TypeOther, Move, Answer
<1>0. /\ PanelTypeOK /\ Shown # NoRequest /\ step \in 1..Last
      /\ Shown \in Requests /\ view \in Convs /\ 1..Last \subseteq Steps
  <2>1. PanelTypeOK /\ Shown # NoRequest  BY DEF OnPanel, PanelInv
  <2>2. /\ Last \in Nat \ {0} /\ Shown \in Requests /\ view \in Convs
        /\ 1..Last \subseteq Steps
    BY <2>1, ShownRequest
  <2>3. step \in Nat \ {0}  BY <2>1, StepsFit DEF PanelTypeOK, Steps
  <2>4. step <= Last  BY <2>1, <2>2, <2>3 DEF OnPanel, Crashed, Last
  <2> QED  BY <2>1, <2>2, <2>3, <2>4
<1>1. ASSUME UNCHANGED elsewhere
      PROVE  /\ Shown' = Shown /\ Last' = Last /\ carried' = carried
             /\ view' = view /\ pending' = pending /\ stored' = stored /\ answered' = answered
  BY <1>1 DEF elsewhere, Shown, Last
<1>2. ASSUME NEW o \in Options, ToggleOption(o) PROVE PanelInv'
  <2> DEFINE new == IF ~Multi THEN {o} ELSE IF o \in selections[step] THEN selections[step] \ {o}
                                            ELSE selections[step] \cup {o}
             on == Multi /\ otherActive[step]
  <2>1. /\ selections' = [selections EXCEPT ![step] = new]
        /\ otherActive' = [otherActive EXCEPT ![step] = on]
        /\ step' = step /\ otherTexts' = otherTexts /\ UNCHANGED elsewhere
    BY <1>2 DEF ToggleOption
  <2>2. new \in SUBSET Options  BY <1>0 DEF PanelTypeOK
  <2>3. on \in BOOLEAN  OBVIOUS
  <2>4. Multi = Questions[Shown][step]  BY DEF Multi
  <2>5. ~Multi => new = {o} /\ ~on  OBVIOUS
  <2> HIDE DEF new, on
  <2>6. PanelTypeOK'
    BY <2>1, <2>2, <2>3, <1>0, <1>1, Zenon DEF PanelTypeOK
  <2>7. ASSUME NEW k \in 1..Last, ~carried PROVE Questions[Shown][k] \/ Single(k)'
    <3>1. Questions[Shown][k] \/ Single(k)
      BY <2>7, <1>0 DEF PanelInv, InRequest
    <3>2. CASE k = step
      <4>1. selections'[k] = new /\ otherActive'[k] = on
        BY <3>2, <2>1, <1>0 DEF PanelTypeOK
      <4> QED  BY <4>1, <2>4, <2>5, <3>2 DEF Single
    <3>3. CASE k # step
      <4>1. selections'[k] = selections[k] /\ otherActive'[k] = otherActive[k]
        BY <3>3, <2>1, <1>0 DEF PanelTypeOK
      <4> QED  BY <4>1, <3>1 DEF Single
    <3> QED  BY <3>2, <3>3
  <2>8. InRequest'  BY <2>1, <2>7, <1>0, <1>1 DEF InRequest
  <2> QED  BY <2>6, <2>8 DEF PanelInv
<1>3. CASE ToggleOther
  <2> DEFINE on == ~otherActive[step]
             new == IF ~Multi /\ ~otherActive[step] THEN {} ELSE selections[step]
  <2>1. /\ selections' = [selections EXCEPT ![step] = new]
        /\ otherActive' = [otherActive EXCEPT ![step] = on]
        /\ step' = step /\ otherTexts' = otherTexts /\ UNCHANGED elsewhere
    BY <1>3 DEF ToggleOther
  <2>2. new \in SUBSET Options  BY <1>0 DEF PanelTypeOK
  <2>3. on \in BOOLEAN  OBVIOUS
  <2>4. Multi = Questions[Shown][step]  BY DEF Multi
  <2>5. /\ ~Multi /\ on => new = {}
        /\ new = {} \/ new = selections[step]
    OBVIOUS
  <2> HIDE DEF new, on
  <2>6. PanelTypeOK'
    BY <2>1, <2>2, <2>3, <1>0, <1>1, Zenon DEF PanelTypeOK
  <2>7. ASSUME NEW k \in 1..Last, ~carried PROVE Questions[Shown][k] \/ Single(k)'
    <3>1. Questions[Shown][k] \/ Single(k)
      BY <2>7, <1>0 DEF PanelInv, InRequest
    <3>2. CASE k = step
      <4>1. selections'[k] = new /\ otherActive'[k] = on
        BY <3>2, <2>1, <1>0 DEF PanelTypeOK
      <4> QED  BY <4>1, <2>4, <2>5, <3>1, <3>2 DEF Single
    <3>3. CASE k # step
      <4>1. selections'[k] = selections[k] /\ otherActive'[k] = otherActive[k]
        BY <3>3, <2>1, <1>0 DEF PanelTypeOK
      <4> QED  BY <4>1, <3>1 DEF Single
    <3> QED  BY <3>2, <3>3
  <2>8. InRequest'  BY <2>1, <2>7, <1>0, <1>1 DEF InRequest
  <2> QED  BY <2>6, <2>8 DEF PanelInv
<1>4. CASE TypeOther
  <2> DEFINE text == ~otherTexts[step]
  <2>1. /\ otherTexts' = [otherTexts EXCEPT ![step] = text]
        /\ step' = step /\ selections' = selections /\ otherActive' = otherActive
        /\ UNCHANGED elsewhere
    BY <1>4 DEF TypeOther
  <2>2. text \in BOOLEAN  OBVIOUS
  <2> HIDE DEF text
  <2>3. PanelTypeOK'  BY <2>1, <2>2, <1>0, <1>1, Zenon DEF PanelTypeOK
  <2>4. InRequest'  BY <2>1, <1>1 DEF PanelInv, InRequest, Single
  <2> QED  BY <2>3, <2>4 DEF PanelInv
<1>5. CASE Move
  <2>1. /\ step' \in 1..Last
        /\ selections' = selections /\ otherActive' = otherActive /\ otherTexts' = otherTexts
        /\ UNCHANGED elsewhere
    BY <1>5 DEF Move
  <2>2. step' \in Steps  BY <2>1, <1>0
  <2>3. PanelTypeOK'  BY <2>1, <2>2, <1>0, <1>1, Zenon DEF PanelTypeOK
  <2>4. InRequest'  BY <2>1, <1>1, <1>0 DEF PanelInv, InRequest, Single
  <2> QED  BY <2>3, <2>4 DEF PanelInv
<1>6. CASE Answer
  <2>1. Render  BY <1>6 DEF Answer
  <2>2. view' \in Convs \cup {NoConv}  BY <1>6, <1>0 DEF Answer, PanelTypeOK
  <2>3. pending' \in [Convs -> Requests \cup {NoRequest}]
    BY <1>6, <1>0 DEF Answer, PanelTypeOK
  <2>4. stored' \subseteq Requests \X Convs /\ answered' \subseteq Requests
    BY <1>6, <1>0 DEF Answer, PanelTypeOK
  <2> QED  BY <2>1, <2>2, <2>3, <2>4, RenderKeeps
<1> QED  BY <1>2, <1>3, <1>4, <1>5, <1>6 DEF UsePanel

\* What a message does to the panel.
LEMMA OnSendPanel ==
    ASSUME PanelInv, NEW from, NEW files, NEW orphan, NEW lost, OnSend(from, files, orphan, lost)
    PROVE  PanelInv'
<1>1. PICK c \in Convs : /\ view' \in {view, c}
                         /\ UNCHANGED <<pending, stored, answered>> /\ Render
  BY DEF OnSend
<1> QED  BY <1>1, RenderKeeps DEF PanelInv, PanelTypeOK

\* The conversations there are.
LEMMA CreatedConvs == SendingOK => Created \subseteq Convs
<1> SUFFICES ASSUME SendingOK, NEW m \in 1..Len(sent) PROVE sent[m].conv \in Convs
  BY ComposerAssumption DEF Created
<1>1. sent[m] \in Message  BY DEF SendingOK
<1> QED  BY <1>1 DEF Message

\* The query that runs is one of the messages.
LEMMA RunningConv ==
    ASSUME SendingOK, InputTypeOK, NEW m \in running
    PROVE  sent[m].conv \in Convs
<1>1. sent[m] \in Message  BY DEF SendingOK, InputTypeOK
<1> QED  BY <1>1 DEF Message

\* What the agent, the list and the tabs do to the panel.
LEMMA AroundPanel ==
    ASSUME PanelInv, InputTypeOK, SendingOK
    PROVE  /\ \A r \in Requests : Ask(r) => PanelInv'
           /\ \A m \in running : QueryEnds(m) \/ QueryRaises(m) => PanelInv'
           /\ SelectConv \/ ClickNewChat \/ LeaveTab => PanelInv'
<1>0. /\ PanelTypeOK /\ streaming \in Convs \cup {NoConv} /\ Created \subseteq Convs
  BY CreatedConvs DEF PanelInv, InputTypeOK
<1>1. ASSUME NEW r \in Requests, Ask(r) PROVE PanelInv'
  <2>1. PICK m \in running : AskUser(sent[m].conv, r)  BY <1>1 DEF Ask
  <2>2. sent[m].conv \in Convs  BY RunningConv
  <2> QED  BY <1>0, <2>1, <2>2, RenderKeeps DEF AskUser, PanelTypeOK
<1>2. ASSUME NEW m \in running, QueryEnds(m) PROVE PanelInv'
  <2>1. EndOfQuery(sent[m].conv)  BY <1>2 DEF QueryEnds
  <2>2. stored' \subseteq stored  BY <2>1 DEF EndOfQuery
  <2> QED  BY <1>0, <2>1, <2>2, RenderKeeps DEF EndOfQuery, PanelTypeOK
<1>3. ASSUME NEW m \in running, QueryRaises(m) PROVE PanelInv'
  <2>1. pending' \in [Convs -> Requests \cup {NoRequest}]
    BY <1>0, <1>3 DEF QueryRaises, PanelTypeOK
  <2> QED  BY <1>0, <1>3, <2>1, RenderKeeps DEF QueryRaises, PanelTypeOK
<1>4. CASE SelectConv
  <2>1. PICK c \in Created : Select(c)  BY <1>4 DEF SelectConv
  <2>2. pending' \in [Convs -> Requests \cup {NoRequest}]
    BY <1>0, <2>1 DEF Select, PanelTypeOK
  <2> QED  BY <1>0, <2>1, <2>2, RenderKeeps DEF Select, PanelTypeOK
<1>5. CASE ClickNewChat
  <2>1. NewChat  BY <1>5 DEF ClickNewChat
  <2> QED  BY <1>0, <2>1, RenderKeeps DEF NewChat, PanelTypeOK
<1>6. CASE LeaveTab
  <2>1. /\ view' = NoConv /\ pending' = [c \in Convs |-> NoRequest]
        /\ stored' = stored /\ answered' = answered /\ Render
    BY <1>6 DEF LeaveTab
  <2> QED  BY <1>0, <2>1, RenderKeeps DEF PanelTypeOK
<1> QED  BY <1>1, <1>2, <1>3, <1>4, <1>5, <1>6

\* The chat tab is shown again, with the conversation that is selected.
LEMMA ReturnPanel ==
    ASSUME PanelInv, InputTypeOK, ReturnTab, ~UNCHANGED panelVars
    PROVE  PanelInv'
<1>0. PanelTypeOK /\ selected \in Convs  BY DEF PanelInv, InputTypeOK, ReturnTab
<1>1. Select(selected)  BY DEF ReturnTab
<1>2. pending' \in [Convs -> Requests \cup {NoRequest}]
  BY <1>0, <1>1 DEF Select, PanelTypeOK
<1> QED  BY <1>0, <1>1, <1>2, RenderKeeps DEF Select, PanelTypeOK

\* Every step keeps the panel's invariant.
LEMMA PanelStep == ASSUME InputInv, [InputNext]_inputVars PROVE PanelInv'
<1>0. PanelInv /\ InputTypeOK /\ SendingOK  BY DEF InputInv
<1>1. ASSUME UNCHANGED panelVars PROVE PanelInv'
  BY <1>0, <1>1 DEF PanelInv, PanelTypeOK, InRequest, panelVars, panelState, Shown, Last, Single
<1>2. ASSUME NEW d, HandleInput(d) PROVE PanelInv'  BY <1>1, <1>2 DEF HandleInput
<1>3. CASE MoveChoice \/ SelectCommand \/ CloseMenu
  BY <1>1, <1>3 DEF MoveChoice, SelectCommand, CloseMenu
<1>4. ASSUME NEW f, HandleFileSelect(f) PROVE PanelInv'  BY <1>1, <1>4 DEF HandleFileSelect
<1>5. ASSUME NEW k, RemoveFile(k) PROVE PanelInv'  BY <1>1, <1>5 DEF RemoveFile
<1>6. CASE SendText  BY <1>0, <1>6, OnSendPanel DEF SendText
<1>7. CASE SendFiles  BY <1>1, <1>7 DEF SendFiles
<1>8. ASSUME NEW j, UploadNext(j) PROVE PanelInv'  BY <1>1, <1>8 DEF UploadNext
<1>9. ASSUME NEW j, UploadsEnd(j) PROVE PanelInv'
  BY <1>0, <1>1, <1>9, OnSendPanel DEF UploadsEnd
<1>10. CASE \/ SelectConv \/ ClickNewChat \/ LeaveTab
            \/ \E m \in running : QueryEnds(m) \/ QueryRaises(m)
            \/ \E r \in Requests : Ask(r)
  BY <1>0, <1>10, AroundPanel
<1>11. CASE OnAnswer  BY <1>0, <1>11, UsePanelKeeps DEF OnAnswer
<1>12. CASE ReturnTab  BY <1>0, <1>1, <1>12, ReturnPanel
<1>13. CASE UNCHANGED inputVars  BY <1>1, <1>13 DEF inputVars
<1> QED
  BY <1>2, <1>3, <1>4, <1>5, <1>6, <1>7, <1>8, <1>9, <1>10, <1>11, <1>12, <1>13 DEF InputNext

-----------------------------------------------------------------------------
(* The files of sequences, calls and messages.                             *)

\* One more file is attached.
LEMMA HeldAppend ==
    ASSUME NEW s \in Seq(Files), NEW f \in Files
    PROVE  Append(s, f) \in Seq(Files) /\ Held(Append(s, f)) \subseteq Held(s) \cup {f}
<1>1. \A k \in 1..Len(Append(s, f)) : Append(s, f)[k] \in Held(s) \cup {f}
  BY DEF Held
<1> QED  BY <1>1 DEF Held

\* One of the files is removed.
LEMMA HeldRemove ==
    ASSUME NEW s \in Seq(Files), NEW k \in 1..Len(s)
    PROVE  LET t == SubSeq(s, 1, k - 1) \o SubSeq(s, k + 1, Len(s))
           IN  t \in Seq(Files) /\ Held(t) \subseteq Held(s)
<1> DEFINE a == SubSeq(s, 1, k - 1)
           b == SubSeq(s, k + 1, Len(s))
           t == a \o b
<1>1. a \in Seq(Files) /\ Len(a) = k - 1 /\ \A i \in 1..Len(a) : a[i] = s[i]
  OBVIOUS
<1>2. b \in Seq(Files) /\ Len(b) = Len(s) - k /\ \A i \in 1..Len(b) : b[i] = s[k + i]
  OBVIOUS
<1> HIDE DEF a, b
<1>3. /\ t \in Seq(Files) /\ Len(t) = Len(a) + Len(b)
      /\ \A i \in 1..Len(t) : i <= Len(a) => t[i] = a[i]
      /\ \A i \in 1..Len(t) : i > Len(a) => t[i] = b[i - Len(a)]
  <2>1. a \in Seq(Files) /\ b \in Seq(Files)  BY <1>1, <1>2
  <2> QED  BY <2>1
<1> HIDE DEF t
<1>4. ASSUME NEW i \in 1..Len(t) PROVE t[i] \in Held(s)
  <2>1. CASE i <= Len(a)
    <3>1. t[i] = s[i] /\ i \in 1..Len(s)  BY <1>1, <1>3, <2>1
    <3> QED  BY <3>1 DEF Held
  <2>2. CASE i > Len(a)
    <3>1. t[i] = s[i + 1] /\ i + 1 \in 1..Len(s)  BY <1>1, <1>2, <1>3, <2>2
    <3> QED  BY <3>1 DEF Held
  <2> QED  BY <1>1, <2>1, <2>2
<1> QED  BY <1>3, <1>4 DEF Held, t, a, b

\* The next file of a call: what is left of it, and of the call's files.
LEMMA JobNext ==
    ASSUME NEW j \in JobRecord, j.todo # <<>>,
           NEW done, done \in {j.done, j.done \cup {Head(j.todo)}}
    PROVE  LET next == [j EXCEPT !.todo = Tail(@), !.done = done]
           IN  /\ next \in JobRecord /\ next.orphan = j.orphan /\ next.gone = j.gone
               /\ FilesOf(next) \subseteq FilesOf(j)
<1> DEFINE next == [j EXCEPT !.todo = Tail(@), !.done = done]
<1>1. j.todo \in Seq(Files) /\ j.done \subseteq Files /\ j.orphan \in BOOLEAN
  BY DEF JobRecord
<1>2. Tail(j.todo) \in Seq(Files) /\ Head(j.todo) \in Files  BY <1>1
<1>3. next \in JobRecord  BY <1>1, <1>2 DEF JobRecord
<1>4. /\ next.todo = Tail(j.todo) /\ next.done = done
      /\ next.orphan = j.orphan /\ next.gone = j.gone
  BY DEF JobRecord
<1> HIDE DEF next
<1>5. Head(j.todo) \in Held(j.todo)
  <2>1. Head(j.todo) = j.todo[1] /\ 1 \in 1..Len(j.todo)  BY <1>1
  <2> QED  BY <2>1 DEF Held
<1>6. Held(Tail(j.todo)) \subseteq Held(j.todo)
  <2>1. ASSUME NEW i \in 1..Len(Tail(j.todo))
        PROVE  Tail(j.todo)[i] = j.todo[i + 1] /\ i + 1 \in 1..Len(j.todo)
    BY <1>1
  <2> QED  BY <2>1 DEF Held
<1> QED  BY <1>3, <1>4, <1>5, <1>6 DEF FilesOf, next

\* A call whose composer is gone has the files it had.
LEMMA JobOrphan ==
    ASSUME NEW j \in JobRecord, NEW lost \in BOOLEAN
    PROVE  LET alone == [j EXCEPT !.orphan = TRUE, !.gone = @ \/ lost]
           IN  alone \in JobRecord /\ alone.orphan /\ FilesOf(alone) = FilesOf(j)
BY DEF JobRecord, FilesOf

\* One more message.
LEMMA SentAppend ==
    ASSUME sent \in Seq(Message), NEW c \in Convs, NEW from \in Convs \cup {NoConv},
           NEW files \in SUBSET Files,
           sent' = Append(sent, [conv |-> c, from |-> from, files |-> files])
    PROVE  /\ sent' \in Seq(Message) /\ SentFiles' = SentFiles \cup files
           /\ Len(sent') = Len(sent) + 1 /\ sent'[Len(sent')].files = files
           /\ \A m \in 1..Len(sent) : sent'[m] = sent[m]
<1> DEFINE new == [conv |-> c, from |-> from, files |-> files]
<1>1. new \in Message /\ new.files = files  BY DEF Message
<1> HIDE DEF new
<1>2. /\ sent' \in Seq(Message) /\ Len(sent) \in Nat /\ Len(sent') = Len(sent) + 1
      /\ \A m \in 1..Len(sent) : sent'[m] = sent[m]
      /\ sent'[Len(sent')] = new
  BY <1>1 DEF new
<1>3. 1..Len(sent') = 1..Len(sent) \cup {Len(sent')}  BY <1>2
<1>4. SentFiles' = UNION {sent'[m].files : m \in 1..Len(sent')}  BY DEF SentFiles
<1>5. SentFiles' = SentFiles \cup files
  <2>1. \A m \in 1..Len(sent) : sent'[m].files = sent[m].files  BY <1>2
  <2>2. sent'[Len(sent')].files = files  BY <1>1, <1>2
  <2> QED  BY <1>3, <1>4, <2>1, <2>2 DEF SentFiles
<1> QED  BY <1>1, <1>2, <1>5

-----------------------------------------------------------------------------
(* The composer and its calls.                                             *)

\* What the steps other than the panel's must keep.
SendInv == InputTypeOK /\ SendingOK /\ OneWaits /\ OneAtATime /\ FilesApart

\* The parts of a state that the invariant of the calls is about.
callVars == <<uploading, picked, jobs, mounted, selected,
              streaming, sent, running, orphaned, left, raised, overlap>>

\* A step of the draft or the menu, or one that takes files away from the
\* composer and nothing else.
LEMMA DraftKeeps ==
    ASSUME InputInv, PanelTypeOK', UNCHANGED callVars,
           input' \in Slash \cup {NoText, Text},
           slashMenuOpen' \in BOOLEAN, slashMenuIndex' \in Nat,
           pendingFiles' \in Seq(Files), Held(pendingFiles)' \subseteq Held(pendingFiles)
    PROVE  SendInv'
<1>1. InputTypeOK'  BY DEF InputInv, InputTypeOK, callVars
<1>2. SendingOK'  BY DEF InputInv, SendingOK, callVars
<1>3. OneWaits'  BY DEF InputInv, OneWaits, callVars
<1>4. OneAtATime'  BY DEF InputInv, OneAtATime, Unlocked, OneRuns, callVars
<1>5. SentFiles' = SentFiles  BY DEF SentFiles, callVars
<1>6. FilesApart'  BY <1>5 DEF InputInv, FilesApart, callVars
<1> QED  BY <1>1, <1>2, <1>3, <1>4, <1>6 DEF SendInv

\* An item of the menu is chosen modulo its length.
LEMMA MenuIndex ==
    ASSUME NEW i \in Nat, NEW n \in Nat \ {0}
    PROVE  (i % n) + 1 \in Nat /\ ((i + n - 2) % n) + 1 \in Nat
<1>1. \A x \in Int : x % n \in 0..(n - 1)  OBVIOUS
<1> QED  BY <1>1

\* The draft and the menu.
LEMMA DraftSteps ==
    ASSUME InputInv, PanelTypeOK'
    PROVE  /\ \A d \in Slash \cup {NoText, Text} : HandleInput(d) => SendInv'
           /\ MoveChoice \/ SelectCommand \/ CloseMenu => SendInv'
           /\ OnAnswer => SendInv'
<1>0. /\ input \in Slash \cup {NoText, Text} /\ slashMenuOpen \in BOOLEAN
      /\ slashMenuIndex \in Nat /\ pendingFiles \in Seq(Files)
  BY DEF InputInv, InputTypeOK
<1>1. ASSUME NEW d \in Slash \cup {NoText, Text}, HandleInput(d) PROVE SendInv'
  <2>1. /\ UNCHANGED callVars /\ pendingFiles' = pendingFiles
        /\ input' = d /\ slashMenuOpen' = (d \in Slash) /\ slashMenuIndex' = 1
    BY <1>1 DEF HandleInput, callVars, tabVars, sentVars
  <2>2. slashMenuOpen' \in BOOLEAN  BY <2>1
  <2> QED  BY <1>0, <2>1, <2>2, DraftKeeps DEF Held
<1>2. CASE MoveChoice
  <2>1. /\ UNCHANGED callVars /\ pendingFiles' = pendingFiles
        /\ input' = input /\ slashMenuOpen' = slashMenuOpen
    BY <1>2 DEF MoveChoice, callVars, tabVars, sentVars
  <2>2. input \in Slash /\ MenuItems = Matching[input] /\ MenuItems # <<>>
    BY <1>2 DEF MoveChoice, MenuItems
  <2>3. Len(MenuItems) \in Nat \ {0}  BY <2>2, ComposerAssumption
  <2>4. slashMenuIndex' \in Nat
    BY <1>0, <1>2, <2>3, MenuIndex DEF MoveChoice
  <2> QED  BY <1>0, <2>1, <2>4, DraftKeeps DEF Held
<1>3. CASE SelectCommand
  BY <1>0, <1>3, DraftKeeps DEF SelectCommand, callVars, tabVars, sentVars, Held
<1>4. CASE CloseMenu
  BY <1>0, <1>4, DraftKeeps DEF CloseMenu, callVars, tabVars, sentVars, Held
<1>5. CASE OnAnswer
  BY <1>0, <1>5, DraftKeeps DEF OnAnswer, callVars, composer, tabVars, sentVars, Held
<1> QED  BY <1>1, <1>2, <1>3, <1>4, <1>5

\* A file is attached, and one is removed.
LEMMA FileSteps ==
    ASSUME InputInv, PanelTypeOK'
    PROVE  /\ \A f \in Files : HandleFileSelect(f) => SendInv'
           /\ \A k \in 1..Len(pendingFiles) : RemoveFile(k) => SendInv'
<1>0. /\ input \in Slash \cup {NoText, Text} /\ slashMenuOpen \in BOOLEAN
      /\ slashMenuIndex \in Nat /\ pendingFiles \in Seq(Files) /\ picked \subseteq Files
  BY DEF InputInv, InputTypeOK
<1>1. ASSUME NEW f \in Files, HandleFileSelect(f) PROVE SendInv'
  <2>1. /\ UNCHANGED <<input, menuVars, uploading, jobs, tabVars, sentVars>>
        /\ f \notin picked /\ picked' = picked \cup {f}
        /\ pendingFiles' = Append(pendingFiles, f)
    BY <1>1 DEF HandleFileSelect
  <2>2. /\ pendingFiles' \in Seq(Files)
        /\ Held(pendingFiles') \subseteq Held(pendingFiles) \cup {f}
    BY <1>0, <2>1, HeldAppend
  <2>3. Enabled  BY <1>1 DEF HandleFileSelect
  <2>4. InputTypeOK'
    BY <1>0, <2>1, <2>2 DEF InputInv, InputTypeOK, menuVars, tabVars, sentVars
  <2>5. SendingOK'  BY <2>1 DEF InputInv, SendingOK, sentVars
  <2>6. OneWaits' /\ OneAtATime'
    BY <2>1 DEF InputInv, OneWaits, OneAtATime, Unlocked, OneRuns, sentVars
  <2>7. SentFiles' = SentFiles  BY <2>1 DEF SentFiles, sentVars
  <2>8. f \notin SentFiles /\ \A j \in jobs : f \notin FilesOf(j)
    BY <2>1 DEF InputInv, FilesApart
  <2>9. FilesApart'
    BY <2>1, <2>2, <2>7, <2>8 DEF InputInv, FilesApart, sentVars
  <2> QED  BY <2>4, <2>5, <2>6, <2>9 DEF SendInv
<1>2. ASSUME NEW k \in 1..Len(pendingFiles), RemoveFile(k) PROVE SendInv'
  <2>1. /\ UNCHANGED callVars
        /\ input' = input /\ slashMenuOpen' = slashMenuOpen /\ slashMenuIndex' = slashMenuIndex
        /\ pendingFiles' = SubSeq(pendingFiles, 1, k - 1)
                                \o SubSeq(pendingFiles, k + 1, Len(pendingFiles))
    BY <1>2 DEF RemoveFile, callVars, tabVars, sentVars, menuVars
  <2>2. pendingFiles' \in Seq(Files) /\ Held(pendingFiles') \subseteq Held(pendingFiles)
    BY <1>0, <2>1, HeldRemove
  <2> QED  BY <1>0, <2>1, <2>2, DraftKeeps
<1> QED  BY <1>1, <1>2

\* The files of the messages stay apart when one is sent with files that are in
\* none.
LEMMA SentApart ==
    ASSUME InputInv, NEW files, files \cap SentFiles = {},
           Len(sent') = Len(sent) + 1, sent'[Len(sent')].files = files,
           \A m \in 1..Len(sent) : sent'[m] = sent[m]
    PROVE  \A m \in 1..Len(sent') : \A n \in 1..(m - 1) :
                sent'[n].files \cap sent'[m].files = {}
<1>0. Len(sent) \in Nat  BY DEF InputInv, SendingOK
<1>1. \A n \in 1..Len(sent) : sent[n].files \subseteq SentFiles  BY DEF SentFiles
<1> SUFFICES ASSUME NEW m \in 1..Len(sent'), NEW n \in 1..(m - 1)
             PROVE  sent'[n].files \cap sent'[m].files = {}
  OBVIOUS
<1>2. n \in 1..Len(sent)  BY <1>0
<1>3. CASE m \in 1..Len(sent)
  BY <1>2, <1>3 DEF InputInv, FilesApart
<1>4. CASE m = Len(sent')
  BY <1>1, <1>2, <1>4
<1> QED  BY <1>0, <1>3, <1>4

\* What is sent, and by whom.
LEMMA OnSendKeeps ==
    ASSUME InputTypeOK, SendingOK, NEW from \in Convs \cup {NoConv}, NEW files \in SUBSET Files,
           NEW orphan \in BOOLEAN, NEW lost \in BOOLEAN, OnSend(from, files, orphan, lost)
    PROVE  /\ sent' \in Seq(Message) /\ SentFiles' = SentFiles \cup files
           /\ Len(sent') = Len(sent) + 1 /\ sent'[Len(sent')].files = files
           /\ \A m \in 1..Len(sent) : sent'[m] = sent[m]
           /\ streaming' \in Convs \cup {NoConv} /\ (lost \/ streaming' \in Convs)
           /\ selected' \in Convs \cup {NoConv} /\ mounted' \in BOOLEAN
           /\ running' = running \cup {Len(sent')} /\ running' \subseteq 1..Len(sent')
           /\ overlap' = (overlap \/ running # {}) /\ overlap' \in BOOLEAN
           /\ orphaned' = (orphaned \/ orphan) /\ orphaned' \in BOOLEAN
           /\ left' = left /\ raised' = raised
<1>1. PICK c \in Convs :
        /\ streaming' = IF lost THEN streaming ELSE c
        /\ sent' = Append(sent, [conv |-> c, from |-> from, files |-> files])
        /\ running' = running \cup {Len(sent) + 1}
        /\ overlap' = (overlap \/ running # {})
        /\ orphaned' = (orphaned \/ orphan)
        /\ UNCHANGED <<mounted, left, raised>>
        /\ selected' = selected \/ selected' = c
  BY Zenon DEF OnSend
<1>2. /\ sent \in Seq(Message) /\ running \subseteq 1..Len(sent)
      /\ streaming \in Convs \cup {NoConv} /\ selected \in Convs \cup {NoConv}
      /\ mounted \in BOOLEAN /\ overlap \in BOOLEAN /\ orphaned \in BOOLEAN
  BY DEF SendingOK, InputTypeOK
<1>3. /\ sent' \in Seq(Message) /\ SentFiles' = SentFiles \cup files
      /\ Len(sent') = Len(sent) + 1 /\ sent'[Len(sent')].files = files
      /\ \A m \in 1..Len(sent) : sent'[m] = sent[m]
  BY <1>1, <1>2, SentAppend, Zenon
<1>4. /\ streaming' \in Convs \cup {NoConv} /\ (lost \/ streaming' \in Convs)
      /\ selected' \in Convs \cup {NoConv} /\ mounted' \in BOOLEAN
  BY <1>1, <1>2, Zenon
<1>5. running' = running \cup {Len(sent')} /\ running' \subseteq 1..Len(sent')
  <2>1. Len(sent) \in Nat  BY <1>2
  <2>2. running' = running \cup {Len(sent')}  BY <1>1, <1>3
  <2>3. 1..Len(sent) \subseteq 1..Len(sent') /\ Len(sent') \in 1..Len(sent')  BY <1>3, <2>1
  <2> QED  BY <1>2, <2>2, <2>3
<1>6. overlap' \in BOOLEAN /\ orphaned' \in BOOLEAN  BY <1>1, <1>2, Zenon
<1> QED  BY <1>1, <1>3, <1>4, <1>5, <1>6, Zenon

\* A message without attachments: the composer is not blocked, so that no call
\* waits for it and no query runs.
LEMMA SendTextKeeps == ASSUME InputInv, PanelTypeOK', SendText PROVE SendInv'
<1>0. /\ slashMenuIndex \in Nat /\ pendingFiles \in Seq(Files) /\ uploading \in BOOLEAN
      /\ picked \subseteq Files /\ view \in Convs \cup {NoConv} /\ {} \in SUBSET Files
      /\ overlap \in BOOLEAN /\ left \in BOOLEAN /\ raised \in BOOLEAN
      /\ InputTypeOK /\ SendingOK
  BY DEF InputInv, InputTypeOK, PanelTypeOK
<1>1. /\ ~uploading /\ streaming = NoConv /\ OnSend(view, {}, FALSE, FALSE)
      /\ input' = NoText /\ slashMenuOpen' = FALSE
      /\ UNCHANGED <<slashMenuIndex, pendingFiles, uploading, picked, jobs>>
  BY DEF SendText, Enabled, Blocked
<1>2. /\ sent' \in Seq(Message) /\ SentFiles' = SentFiles \cup {}
      /\ Len(sent') = Len(sent) + 1 /\ sent'[Len(sent')].files = {}
      /\ \A m \in 1..Len(sent) : sent'[m] = sent[m]
      /\ streaming' \in Convs /\ selected' \in Convs \cup {NoConv} /\ mounted' \in BOOLEAN
      /\ running' = running \cup {Len(sent')} /\ running' \subseteq 1..Len(sent')
      /\ overlap' = (overlap \/ running # {}) /\ overlap' \in BOOLEAN
      /\ orphaned' = (orphaned \/ FALSE) /\ orphaned' \in BOOLEAN
      /\ left' = left /\ raised' = raised
  BY <1>0, <1>1, OnSendKeeps
<1>3. InputTypeOK'
  <2>1. streaming' \in Convs \cup {NoConv} /\ left' \in BOOLEAN /\ raised' \in BOOLEAN
    BY <1>0, <1>2
  <2>2. input' \in Slash \cup {NoText, Text} /\ slashMenuOpen' \in BOOLEAN  BY <1>1
  <2> QED  BY <1>0, <1>1, <1>2, <2>1, <2>2 DEF InputTypeOK
<1>4. SendingOK'  BY <1>1, <1>2 DEF InputInv, SendingOK
<1>5. OneWaits'  BY <1>1 DEF InputInv, OneWaits
<1>6. OneAtATime'
  <2>1. CASE Unlocked
    <3>1. Unlocked'  BY <1>2, <2>1, Zenon DEF Unlocked
    <3> QED  BY <3>1 DEF OneAtATime
  <2>2. CASE OneRuns
    <3>1. running = {} /\ ~overlap  BY <1>1, <2>2 DEF OneRuns
    <3>2. running' = {Len(sent')} /\ ~overlap'  BY <1>2, <3>1
    <3>3. streaming' # NoConv  BY <1>2, PanelAssumption
    <3>4. \A j \in jobs' : j.orphan  BY <1>1 DEF InputInv, OneWaits
    <3>5. OneRuns'  BY <3>2, <3>3, <3>4 DEF OneRuns
    <3> QED  BY <3>5 DEF OneAtATime
  <2> QED  BY <2>1, <2>2 DEF InputInv, OneAtATime
<1>7. \A m \in 1..Len(sent') : \A n \in 1..(m - 1) : sent'[n].files \cap sent'[m].files = {}
  BY <1>2, SentApart
<1>8. SentFiles' = SentFiles  BY <1>2
<1>9. FilesApart'  BY <1>1, <1>7, <1>8 DEF InputInv, FilesApart, Held
<1> QED  BY <1>3, <1>4, <1>5, <1>6, <1>9 DEF SendInv

\* handleSend up to its first await: the call has the files that are attached,
\* and every call there was lost its composer.
LEMMA SendFilesKeeps == ASSUME InputInv, PanelTypeOK', SendFiles PROVE SendInv'
<1> DEFINE job == [text |-> input, from |-> view, todo |-> pendingFiles,
                   done |-> {}, orphan |-> FALSE, gone |-> FALSE]
<1>0. /\ input \in Slash \cup {NoText, Text} /\ slashMenuOpen \in BOOLEAN
      /\ slashMenuIndex \in Nat /\ pendingFiles \in Seq(Files) /\ picked \subseteq Files
      /\ view \in Convs \cup {NoConv} /\ streaming \in Convs \cup {NoConv}
      /\ overlap \in BOOLEAN /\ orphaned \in BOOLEAN
  BY DEF InputInv, InputTypeOK, PanelTypeOK
<1>1. /\ ~uploading /\ streaming = NoConv /\ uploading' = TRUE /\ jobs' = jobs \cup {job}
      /\ UNCHANGED <<input, menuVars, pendingFiles, picked, tabVars, sentVars>>
  BY DEF SendFiles, Enabled, Blocked
<1>2. job \in JobRecord  BY <1>0 DEF JobRecord
<1>3. ~job.orphan /\ ~job.gone /\ FilesOf(job) = Held(pendingFiles)  BY DEF FilesOf
<1>4. \A j \in jobs : j.orphan  BY <1>1 DEF InputInv, OneWaits
<1> HIDE DEF job
<1>5. InputTypeOK'
  <2>1. uploading' \in BOOLEAN  BY <1>1
  <2> QED  BY <1>1, <2>1 DEF InputInv, InputTypeOK, menuVars, tabVars, sentVars
<1>6. SendingOK'  BY <1>1, <1>2 DEF InputInv, SendingOK, sentVars
<1>7. OneWaits' /\ OneAtATime'
  <2>1. OneWaits'  BY <1>1, <1>3, <1>4 DEF InputInv, OneWaits
  <2>2. Unlocked \/ (running = {} /\ ~overlap)
    BY <1>1 DEF InputInv, OneAtATime, OneRuns
  <2>3. OneAtATime'  BY <1>1, <2>2 DEF OneAtATime, Unlocked, OneRuns, sentVars
  <2> QED  BY <2>1, <2>3
<1>8. SentFiles' = SentFiles /\ sent' = sent /\ Held(pendingFiles)' = Held(pendingFiles)
  BY <1>1 DEF SentFiles, sentVars, Held
<1>9. \A j \in jobs : FilesOf(j) \cap FilesOf(job) = {}
  BY <1>3, <1>4 DEF InputInv, FilesApart
<1>10. FilesApart'
  <2>1. /\ Held(pendingFiles) \cup SentFiles \subseteq picked
        /\ Held(pendingFiles) \cap SentFiles = {}
        /\ \A m \in 1..Len(sent) : \A n \in 1..(m - 1) : sent[n].files \cap sent[m].files = {}
    BY DEF InputInv, FilesApart
  <2>2. \A j \in jobs' : FilesOf(j) \subseteq picked /\ FilesOf(j) \cap SentFiles = {}
    BY <1>1, <1>3, <2>1 DEF InputInv, FilesApart
  <2>3. \A j \in jobs' : ~j.orphan \/ FilesOf(j) \cap Held(pendingFiles) = {}
    BY <1>1, <1>3 DEF InputInv, FilesApart
  <2>4. \A j, k \in jobs' : j = k \/ FilesOf(j) \cap FilesOf(k) = {}
    BY <1>1, <1>9 DEF InputInv, FilesApart
  <2>5. picked' = picked  BY <1>1
  <2> QED  BY <1>8, <2>1, <2>2, <2>3, <2>4, <2>5 DEF FilesApart
<1> QED  BY <1>5, <1>6, <1>7, <1>10 DEF SendInv

\* A file of a call is uploaded, or fails.
LEMMA UploadNextKeeps ==
    ASSUME InputInv, PanelTypeOK', NEW j \in jobs, UploadNext(j) PROVE SendInv'
<1>1. PICK done \in {j.done, j.done \cup {Head(j.todo)}} :
        jobs' = (jobs \ {j}) \cup {[j EXCEPT !.todo = Tail(@), !.done = done]}
  BY DEF UploadNext
<1> DEFINE next == [j EXCEPT !.todo = Tail(@), !.done = done]
<1>2. j \in JobRecord /\ j.todo # <<>>  BY DEF InputInv, SendingOK, UploadNext
<1>3. /\ next \in JobRecord /\ next.orphan = j.orphan /\ next.gone = j.gone
      /\ FilesOf(next) \subseteq FilesOf(j)
  BY <1>2, JobNext
<1>4. jobs' = (jobs \ {j}) \cup {next}  BY <1>1
<1>5. UNCHANGED <<composer, picked, tabVars, sentVars>>  BY DEF UploadNext
<1> HIDE DEF next
<1>6. InputTypeOK'  BY <1>5 DEF InputInv, InputTypeOK, composer, tabVars, sentVars
<1>7. SendingOK'  BY <1>3, <1>4, <1>5 DEF InputInv, SendingOK, sentVars
<1>8. OneWaits' /\ OneAtATime'
  <2>1. OneWaits'  BY <1>3, <1>4, <1>5 DEF InputInv, OneWaits, composer
  <2>2. OneAtATime'
    BY <1>3, <1>4, <1>5 DEF InputInv, OneAtATime, Unlocked, OneRuns, sentVars
  <2> QED  BY <2>1, <2>2
<1>9. SentFiles' = SentFiles /\ sent' = sent /\ Held(pendingFiles)' = Held(pendingFiles)
      /\ picked' = picked
  BY <1>5 DEF SentFiles, sentVars, composer, Held
<1>10. FilesApart'
  <2>1. \A k \in jobs' : FilesOf(k) \subseteq picked /\ FilesOf(k) \cap SentFiles = {}
    BY <1>3, <1>4 DEF InputInv, FilesApart
  <2>2. \A k \in jobs' : ~k.orphan \/ FilesOf(k) \cap Held(pendingFiles) = {}
    BY <1>3, <1>4 DEF InputInv, FilesApart
  <2>3. \A k \in jobs \ {j} : FilesOf(k) \cap FilesOf(next) = {}
    BY <1>3 DEF InputInv, FilesApart
  <2>4. \A k, l \in jobs' : k = l \/ FilesOf(k) \cap FilesOf(l) = {}
    BY <1>4, <2>3 DEF InputInv, FilesApart
  <2> QED  BY <1>9, <2>1, <2>2, <2>4 DEF InputInv, FilesApart
<1> QED  BY <1>6, <1>7, <1>8, <1>10 DEF SendInv

\* The end of a call: its message has the files it uploaded, and a composer that
\* is still there lets go of them.
LEMMA UploadsEndKeeps ==
    ASSUME InputInv, PanelTypeOK', NEW j \in jobs, UploadsEnd(j) PROVE SendInv'
<1>0. /\ input \in Slash \cup {NoText, Text} /\ slashMenuOpen \in BOOLEAN
      /\ slashMenuIndex \in Nat /\ pendingFiles \in Seq(Files) /\ uploading \in BOOLEAN
      /\ picked \subseteq Files /\ streaming \in Convs \cup {NoConv}
      /\ left \in BOOLEAN /\ raised \in BOOLEAN
      /\ InputTypeOK /\ SendingOK
  BY DEF InputInv, InputTypeOK
<1>1. /\ j \in JobRecord /\ j.orphan \in BOOLEAN /\ j.gone \in BOOLEAN
      /\ j.from \in Convs \cup {NoConv} /\ j.done \in SUBSET Files
  BY DEF InputInv, SendingOK, JobRecord
<1>2. /\ jobs' = jobs \ {j} /\ uploading' = (uploading /\ j.orphan)
      /\ pendingFiles' = IF j.orphan THEN pendingFiles ELSE <<>>
      /\ slashMenuIndex' = slashMenuIndex /\ picked' = picked
  BY DEF UploadsEnd
<1>3. uploading' \in BOOLEAN  BY <1>0, <1>2
<1>4. Held(pendingFiles)' \subseteq Held(pendingFiles) /\ pendingFiles' \in Seq(Files)
  BY <1>0, <1>2 DEF Held
<1>5. ~j.orphan => Held(pendingFiles)' = {}  BY <1>2 DEF Held
<1>6. CASE UNCHANGED <<input, slashMenuOpen, tabVars, sentVars>>
  <2>1. InputTypeOK'  BY <1>0, <1>2, <1>3, <1>4, <1>6 DEF InputTypeOK, tabVars, sentVars
  <2>2. SendingOK'  BY <1>2, <1>6 DEF InputInv, SendingOK, sentVars
  <2>3. OneWaits' /\ OneAtATime'
    <3>1. OneWaits'  BY <1>2 DEF InputInv, OneWaits
    <3>2. OneAtATime'
      BY <1>2, <1>6 DEF InputInv, OneAtATime, Unlocked, OneRuns, sentVars
    <3> QED  BY <3>1, <3>2
  <2>4. SentFiles' = SentFiles  BY <1>6 DEF SentFiles, sentVars
  <2>5. FilesApart'
    BY <1>2, <1>4, <1>6, <2>4 DEF InputInv, FilesApart, sentVars
  <2> QED  BY <2>1, <2>2, <2>3, <2>5 DEF SendInv
<1>7. CASE /\ input' = IF j.orphan THEN input ELSE NoText
           /\ slashMenuOpen' = (slashMenuOpen /\ j.orphan)
           /\ OnSend(j.from, j.done, j.orphan, j.gone)
  <2>0. InputTypeOK /\ SendingOK /\ OnSend(j.from, j.done, j.orphan, j.gone)  BY <1>0, <1>7
  <2>1. /\ sent' \in Seq(Message) /\ SentFiles' = SentFiles \cup j.done
        /\ Len(sent') = Len(sent) + 1 /\ sent'[Len(sent')].files = j.done
        /\ \A m \in 1..Len(sent) : sent'[m] = sent[m]
        /\ streaming' \in Convs \cup {NoConv} /\ (j.gone \/ streaming' \in Convs)
        /\ selected' \in Convs \cup {NoConv} /\ mounted' \in BOOLEAN
        /\ running' = running \cup {Len(sent')} /\ running' \subseteq 1..Len(sent')
        /\ overlap' = (overlap \/ running # {}) /\ overlap' \in BOOLEAN
        /\ orphaned' = (orphaned \/ j.orphan) /\ orphaned' \in BOOLEAN
        /\ left' = left /\ raised' = raised
    BY ZenonT(60), <1>1, <2>0, OnSendKeeps
  <2>2. left' \in BOOLEAN /\ raised' \in BOOLEAN /\ slashMenuOpen' \in BOOLEAN
    BY <1>0, <1>1, <1>7, <2>1
  <2>3. input' \in Slash \cup {NoText, Text}  BY <1>0, <1>7
  <2>4. InputTypeOK'
    BY <1>0, <1>2, <1>3, <1>4, <2>1, <2>2, <2>3 DEF InputTypeOK
  <2>5. SendingOK'  BY <1>2, <2>1 DEF InputInv, SendingOK
  <2>6. j.done \subseteq FilesOf(j)  BY DEF FilesOf
  <2>7. OneWaits' /\ OneAtATime'
    <3>1. \A k, l \in jobs' : k.orphan \/ l.orphan \/ k = l
      BY <1>2 DEF InputInv, OneWaits
    <3>2. j.orphan \/ \A k \in jobs' : k.orphan  BY <1>2 DEF InputInv, OneWaits
    <3>3. \A k \in jobs' : k.orphan \/ (uploading' /\ ~k.gone)
      BY <1>2, <3>2 DEF InputInv, OneWaits
    <3>4. CASE j.orphan \/ Unlocked
      <4>1. Unlocked'  BY <2>1, <3>4, Zenon DEF Unlocked
      <4> QED  BY <3>1, <3>3, <4>1 DEF OneWaits, OneAtATime
    <3>5. CASE ~j.orphan /\ OneRuns
      <4>1. running = {} /\ ~overlap  BY <3>5 DEF OneRuns
      <4>2. running' = {Len(sent')} /\ ~overlap'  BY <2>1, <4>1
      <4>3. ~j.gone  BY <3>5 DEF InputInv, OneWaits
      <4>4. streaming' # NoConv  BY <2>1, <4>3, PanelAssumption
      <4>5. OneRuns'  BY <3>2, <3>5, <4>2, <4>4 DEF OneRuns
      <4> QED  BY <3>1, <3>3, <4>5 DEF OneWaits, OneAtATime
    <3> QED  BY <3>4, <3>5 DEF InputInv, OneAtATime
  <2>8. FilesApart'
    <3>1. j.done \cap SentFiles = {} /\ j.done \subseteq picked
      BY <2>6 DEF InputInv, FilesApart
    <3>2. \A m \in 1..Len(sent') : \A n \in 1..(m - 1) :
            sent'[n].files \cap sent'[m].files = {}
      BY <2>1, <3>1, SentApart
    <3>3. Held(pendingFiles)' \cap SentFiles' = {}
      BY <1>4, <1>5, <2>1, <2>6 DEF InputInv, FilesApart
    <3>4. Held(pendingFiles)' \cup SentFiles' \subseteq picked'
      BY <1>2, <1>4, <2>1, <3>1 DEF InputInv, FilesApart
    <3>5. \A k \in jobs' : FilesOf(k) \subseteq picked' /\ FilesOf(k) \cap SentFiles' = {}
      BY <1>2, <2>1, <2>6 DEF InputInv, FilesApart
    <3>6. \A k \in jobs' : ~k.orphan \/ FilesOf(k) \cap Held(pendingFiles)' = {}
      BY <1>2, <1>4 DEF InputInv, FilesApart
    <3>7. \A k, l \in jobs' : k = l \/ FilesOf(k) \cap FilesOf(l) = {}
      BY <1>2 DEF InputInv, FilesApart
    <3> QED  BY <3>2, <3>3, <3>4, <3>5, <3>6, <3>7 DEF FilesApart
  <2> QED  BY <2>4, <2>5, <2>7, <2>8 DEF SendInv
<1> QED  BY <1>6, <1>7 DEF UploadsEnd

\* The composer goes, and with it what it had: its calls are on their own.
LEMMA UnmountedKeeps ==
    ASSUME InputInv, NEW lost \in BOOLEAN, Unmounted(lost), UNCHANGED <<picked, sent>>
    PROVE  /\ input' \in Slash \cup {NoText, Text} /\ slashMenuIndex' \in Nat
           /\ slashMenuOpen' \in BOOLEAN /\ uploading' \in BOOLEAN
           /\ pendingFiles' \in Seq(Files) /\ \A k \in jobs' : k.orphan
           /\ SendingOK' /\ OneWaits' /\ FilesApart'
<1>1. /\ input' = NoText /\ slashMenuOpen' = FALSE /\ slashMenuIndex' = 1
      /\ pendingFiles' = <<>> /\ uploading' = FALSE
      /\ jobs' = {[j EXCEPT !.orphan = TRUE, !.gone = @ \/ lost] : j \in jobs}
  BY DEF Unmounted
<1>2. /\ input' \in Slash \cup {NoText, Text} /\ slashMenuIndex' \in Nat
      /\ slashMenuOpen' \in BOOLEAN /\ uploading' \in BOOLEAN
  BY <1>1
<1>3. pendingFiles' = <<>> /\ pendingFiles' \in Seq(Files)
  <2>1. pendingFiles' = <<>>  BY <1>1
  <2> QED  BY <2>1
<1>4. \A k \in jobs' : \E j \in jobs :
          /\ k = [j EXCEPT !.orphan = TRUE, !.gone = @ \/ lost]
          /\ k \in JobRecord /\ k.orphan /\ FilesOf(k) = FilesOf(j)
  <2> DEFINE Alone(j) == [j EXCEPT !.orphan = TRUE, !.gone = @ \/ lost]
  <2>1. \A j \in jobs : j \in JobRecord  BY DEF InputInv, SendingOK
  <2>2. \A j \in jobs : Alone(j) \in JobRecord /\ Alone(j).orphan /\ FilesOf(Alone(j)) = FilesOf(j)
    BY <2>1, JobOrphan
  <2>3. jobs' = {Alone(j) : j \in jobs}  BY <1>1
  <2>4. \A k \in jobs' : \E j \in jobs :
            k = Alone(j) /\ k \in JobRecord /\ k.orphan /\ FilesOf(k) = FilesOf(j)
    <3> HIDE DEF Alone
    <3> QED  BY <2>2, <2>3
  <2> QED  BY <2>4
<1>5. SendingOK'  BY <1>4 DEF InputInv, SendingOK
<1>6. OneWaits' /\ \A k \in jobs' : k.orphan  BY <1>4 DEF OneWaits
<1>7. Held(pendingFiles)' = {} /\ SentFiles' = SentFiles
  <2>1. Held(pendingFiles)' = {}  BY <1>3 DEF Held
  <2>2. sent' = sent  OBVIOUS
  <2> QED  BY <2>1, <2>2 DEF SentFiles
<1>8. \A k \in jobs' : FilesOf(k) \subseteq picked /\ FilesOf(k) \cap SentFiles = {}
  BY <1>4 DEF InputInv, FilesApart
<1>9. ASSUME NEW k \in jobs', NEW l \in jobs', k # l
      PROVE  FilesOf(k) \cap FilesOf(l) = {}
  <2>1. PICK i \in jobs : /\ k = [i EXCEPT !.orphan = TRUE, !.gone = @ \/ lost]
                          /\ FilesOf(k) = FilesOf(i)
    BY <1>4
  <2>2. PICK j \in jobs : /\ l = [j EXCEPT !.orphan = TRUE, !.gone = @ \/ lost]
                          /\ FilesOf(l) = FilesOf(j)
    BY <1>4
  <2>3. i # j  BY <1>9, <2>1, <2>2
  <2> QED  BY <2>1, <2>2, <2>3 DEF InputInv, FilesApart
<1>10. FilesApart'  BY <1>7, <1>8, <1>9 DEF InputInv, FilesApart
<1> QED  BY <1>2, <1>3, <1>5, <1>6, <1>10

\* A panel takes the composer's place, or none does.
LEMMA ReplacedKeeps ==
    ASSUME InputInv, PanelTypeOK', Replaced, Around,
           mounted' \in BOOLEAN, selected' \in Convs \cup {NoConv},
           streaming' \in Convs \cup {NoConv}, running' \subseteq running,
           left' \in BOOLEAN, raised' \in BOOLEAN,
           Unlocked' \/ (OneRuns => running' = {} \/ streaming' = streaming),
           left => left', raised => raised'
    PROVE  SendInv'
<1>0. picked' = picked /\ sent' = sent /\ orphaned' = orphaned /\ overlap' = overlap
  BY DEF Around
<1>1. /\ input' \in Slash \cup {NoText, Text} /\ slashMenuIndex' \in Nat
      /\ slashMenuOpen' \in BOOLEAN /\ uploading' \in BOOLEAN /\ pendingFiles' \in Seq(Files)
      /\ (jobs' = jobs \/ \A k \in jobs' : k.orphan)
      /\ SendingOK' /\ OneWaits' /\ FilesApart'
  <2>1. CASE Unmounted(FALSE)  BY <1>0, <2>1, UnmountedKeeps
  <2>2. CASE UNCHANGED <<composer, jobs>>
    <3>1. SentFiles' = SentFiles  BY <1>0 DEF SentFiles
    <3>2. SendingOK' /\ OneWaits'
      BY <1>0, <2>2 DEF InputInv, SendingOK, OneWaits, composer
    <3>3. FilesApart'
      BY <1>0, <2>2, <3>1 DEF InputInv, FilesApart, composer, Held
    <3>4. /\ input' \in Slash \cup {NoText, Text} /\ slashMenuIndex' \in Nat
          /\ slashMenuOpen' \in BOOLEAN /\ uploading' \in BOOLEAN /\ pendingFiles' \in Seq(Files)
      BY <2>2 DEF InputInv, InputTypeOK, composer
    <3> QED  BY <2>2, <3>2, <3>3, <3>4
  <2> QED  BY <2>1, <2>2 DEF Replaced
<1>2. InputTypeOK'
  <2>1. /\ running' \subseteq 1..Len(sent') /\ orphaned' \in BOOLEAN /\ overlap' \in BOOLEAN
        /\ picked' \subseteq Files
    BY <1>0 DEF InputInv, InputTypeOK
  <2> QED  BY <1>1, <2>1 DEF InputTypeOK
<1>3. OneAtATime'
  <2>1. Unlocked => Unlocked'  BY <1>0, Zenon DEF Unlocked
  <2>2. ASSUME OneRuns, running' = {} \/ streaming' = streaming PROVE OneRuns'
    <3>1. (\A m, n \in running' : m = n) /\ ~overlap'  BY <1>0, <2>2 DEF OneRuns
    <3>2. running' = {} \/ (streaming' # NoConv /\ \A k \in jobs' : k.orphan)
      BY <1>1, <2>2 DEF OneRuns
    <3> QED  BY <3>1, <3>2 DEF OneRuns
  <2> QED  BY <2>1, <2>2 DEF InputInv, OneAtATime
<1> QED  BY <1>1, <1>2, <1>3 DEF SendInv

\* What the agent and the list do to the composer.
LEMMA AroundKeeps ==
    ASSUME InputInv, PanelTypeOK'
    PROVE  /\ \A r \in Requests : Ask(r) => SendInv'
           /\ \A m \in running : QueryEnds(m) \/ QueryRaises(m) => SendInv'
           /\ SelectConv \/ ClickNewChat => SendInv'
<1>0. /\ mounted \in BOOLEAN /\ selected \in Convs \cup {NoConv}
      /\ streaming \in Convs \cup {NoConv} /\ left \in BOOLEAN /\ raised \in BOOLEAN
      /\ NoConv \in Convs \cup {NoConv} /\ view' \in Convs \cup {NoConv}
  BY DEF InputInv, InputTypeOK, PanelTypeOK
<1>1. ASSUME NEW r \in Requests, Ask(r) PROVE SendInv'
  BY <1>0, <1>1, ReplacedKeeps DEF Ask, tabVars
<1>2. ASSUME NEW m \in running, QueryEnds(m) PROVE SendInv'
  <2>1. OneRuns => running' = {}  BY <1>2 DEF QueryEnds, OneRuns
  <2> QED  BY <1>0, <1>2, <2>1, ReplacedKeeps DEF QueryEnds, tabVars
<1>3. ASSUME NEW m \in running, QueryRaises(m) PROVE SendInv'
  <2>1. raised' = (raised \/ m \in running')  BY <1>3 DEF QueryRaises
  <2>2. raised' \in BOOLEAN /\ (raised => raised')  BY <1>0, <2>1, Zenon
  <2>3. Unlocked' \/ (OneRuns => running' = {})
    <3>1. CASE running' = running
      <4>1. raised'  BY <2>1, <3>1
      <4> QED  BY <4>1 DEF Unlocked
    <3>2. CASE running' = running \ {m}  BY <3>2 DEF OneRuns
    <3> QED  BY <1>3, <3>1, <3>2 DEF QueryRaises
  <2>4. running' \subseteq running  BY <1>3 DEF QueryRaises
  <2>5. Replaced /\ Around /\ streaming' = NoConv /\ left' = left /\ UNCHANGED tabVars
    BY <1>3 DEF QueryRaises
  <2> QED  BY <1>0, <2>2, <2>3, <2>4, <2>5, ReplacedKeeps DEF tabVars
<1>4. CASE SelectConv  BY <1>0, <1>4, ReplacedKeeps DEF SelectConv
<1>5. CASE ClickNewChat  BY <1>0, <1>5, ReplacedKeeps DEF ClickNewChat
<1> QED  BY <1>1, <1>2, <1>3, <1>4, <1>5

\* The chat tab is left, with a query that runs or without, and shown again.
LEMMA TabKeeps == ASSUME InputInv, PanelTypeOK', LeaveTab \/ ReturnTab PROVE SendInv'
<1>1. CASE LeaveTab
  <2>1. /\ mounted' = FALSE /\ streaming' = NoConv /\ left' = (left \/ running # {})
        /\ Unmounted(TRUE) /\ UNCHANGED <<selected, running, raised>>
        /\ UNCHANGED <<picked, sent, orphaned, overlap>>
    BY <1>1 DEF LeaveTab, Around
  <2>2. /\ input' \in Slash \cup {NoText, Text} /\ slashMenuIndex' \in Nat
        /\ slashMenuOpen' \in BOOLEAN /\ uploading' \in BOOLEAN
        /\ pendingFiles' \in Seq(Files) /\ \A k \in jobs' : k.orphan
        /\ SendingOK' /\ OneWaits' /\ FilesApart'
    BY <2>1, UnmountedKeeps
  <2>3. InputTypeOK'
    <3>1. mounted' \in BOOLEAN /\ left' \in BOOLEAN /\ streaming' \in Convs \cup {NoConv}
      BY <2>1 DEF InputInv, InputTypeOK
    <3>2. /\ selected' \in Convs \cup {NoConv} /\ running' \subseteq 1..Len(sent')
          /\ raised' \in BOOLEAN /\ orphaned' \in BOOLEAN /\ overlap' \in BOOLEAN
          /\ picked' \subseteq Files
      BY <2>1 DEF InputInv, InputTypeOK
    <3> QED  BY <2>2, <3>1, <3>2 DEF InputTypeOK
  <2>4. OneAtATime'
    <3>1. CASE Unlocked \/ running # {}
      <4>1. Unlocked'  BY <2>1, <3>1, Zenon DEF Unlocked
      <4> QED  BY <4>1 DEF OneAtATime
    <3>2. CASE OneRuns /\ running = {}
      <4>1. OneRuns'  BY <2>1, <3>2 DEF OneRuns
      <4> QED  BY <4>1 DEF OneAtATime
    <3> QED  BY <3>1, <3>2 DEF InputInv, OneAtATime
  <2> QED  BY <2>2, <2>3, <2>4 DEF SendInv
<1>2. CASE ReturnTab
  <2>1. /\ mounted' = TRUE /\ UNCHANGED <<composer, jobs, selected, streaming, running, left, raised>>
        /\ UNCHANGED <<picked, sent, orphaned, overlap>>
    BY <1>2 DEF ReturnTab, Around
  <2>2. InputTypeOK'
    <3>1. mounted' \in BOOLEAN  BY <2>1
    <3> QED  BY <2>1, <3>1 DEF InputInv, InputTypeOK, composer
  <2>3. SendingOK' /\ OneWaits'  BY <2>1 DEF InputInv, SendingOK, OneWaits, composer
  <2>4. OneAtATime'  BY <2>1 DEF InputInv, OneAtATime, Unlocked, OneRuns
  <2>5. SentFiles' = SentFiles  BY <2>1 DEF SentFiles
  <2>6. FilesApart'  BY <2>1, <2>5 DEF InputInv, FilesApart, composer, Held
  <2> QED  BY <2>2, <2>3, <2>4, <2>6 DEF SendInv
<1> QED  BY <1>1, <1>2

\* Every step keeps the invariant.
LEMMA InputStep == InputInv /\ [InputNext]_inputVars => InputInv'
<1> SUFFICES ASSUME InputInv, [InputNext]_inputVars PROVE InputInv'  OBVIOUS
<1>0. PanelInv' /\ PanelTypeOK'  BY PanelStep DEF PanelInv
<1>1. ASSUME NEW d \in Slash \cup {NoText, Text}, HandleInput(d) PROVE SendInv'
  BY <1>0, <1>1, DraftSteps
<1>2. ASSUME MoveChoice \/ SelectCommand \/ CloseMenu \/ OnAnswer PROVE SendInv'
  BY <1>0, <1>2, DraftSteps
<1>3. ASSUME NEW f \in Files, HandleFileSelect(f) PROVE SendInv'
  BY <1>0, <1>3, FileSteps
<1>4. ASSUME NEW k \in 1..Len(pendingFiles), RemoveFile(k) PROVE SendInv'
  BY <1>0, <1>4, FileSteps
<1>5. ASSUME SendText PROVE SendInv'  BY <1>0, <1>5, SendTextKeeps
<1>6. ASSUME SendFiles PROVE SendInv'  BY <1>0, <1>6, SendFilesKeeps
<1>7. ASSUME NEW j \in jobs, UploadNext(j) \/ UploadsEnd(j) PROVE SendInv'
  BY <1>0, <1>7, UploadNextKeeps, UploadsEndKeeps
<1>8. ASSUME \/ SelectConv \/ ClickNewChat \/ \E r \in Requests : Ask(r)
             \/ \E m \in running : QueryEnds(m) \/ QueryRaises(m)
      PROVE  SendInv'
  BY <1>0, <1>8, AroundKeeps
<1>9. ASSUME LeaveTab \/ ReturnTab PROVE SendInv'  BY <1>0, <1>9, TabKeeps
<1>10. ASSUME UNCHANGED inputVars PROVE SendInv'
  <2>1. /\ UNCHANGED callVars /\ pendingFiles' = pendingFiles /\ input' = input
        /\ slashMenuOpen' = slashMenuOpen /\ slashMenuIndex' = slashMenuIndex
    BY <1>10 DEF inputVars, callVars, composer, tabVars, sentVars
  <2> QED  BY <1>0, <2>1, DraftKeeps DEF InputInv, InputTypeOK, Held
<1>11. SendInv'
  BY <1>1, <1>2, <1>3, <1>4, <1>5, <1>6, <1>7, <1>8, <1>9, <1>10 DEF InputNext
<1> QED  BY <1>0, <1>11 DEF InputInv, SendInv

\* The initial state satisfies the invariant.
LEMMA InputInitInv == InputInit => InputInv
<1> SUFFICES ASSUME InputInit PROVE InputInv  OBVIOUS
<1>1. PanelInv  BY PanelInitInv DEF InputInit
<1>2. InputTypeOK
  <2>1. /\ input \in Slash \cup {NoText, Text} /\ slashMenuIndex \in Nat
        /\ slashMenuOpen \in BOOLEAN /\ uploading \in BOOLEAN
        /\ orphaned \in BOOLEAN /\ overlap \in BOOLEAN /\ left \in BOOLEAN
        /\ raised \in BOOLEAN /\ mounted \in BOOLEAN
    BY DEF InputInit
  <2>2. /\ pendingFiles \in Seq(Files) /\ picked \subseteq Files
        /\ streaming \in Convs \cup {NoConv} /\ selected \in Convs \cup {NoConv}
        /\ running \subseteq 1..Len(sent)
    BY DEF InputInit
  <2> QED  BY <1>1, <2>1, <2>2, Zenon DEF PanelInv, InputTypeOK
<1>3. SendingOK /\ OneWaits /\ OneAtATime
  BY DEF InputInit, SendingOK, OneWaits, OneAtATime, OneRuns
<1>4. Held(pendingFiles) = {} /\ SentFiles = {}  BY DEF InputInit, Held, SentFiles
<1>5. FilesApart  BY <1>4 DEF InputInit, FilesApart
<1> QED  BY <1>1, <1>2, <1>3, <1>5 DEF InputInv

\* Every reachable state satisfies the invariant.
LEMMA InputInvHolds == InputSpec => []InputInv
BY InputInitInv, InputStep, PTL DEF InputSpec

\* The type invariant, for any conversations, requests, files and drafts.
THEOREM InputTypeCorrect == InputSpec => []InputTypeOK
<1>1. InputInv => InputTypeOK  BY DEF InputInv
<1> QED  BY InputInvHolds, <1>1, PTL

\* AskUserQuestionPanel.tsx never renders a question that its request has not,
\* which would replace the page by the error screen, but where one request took
\* another's place in it.
THEOREM PanelFitsHolds == InputSpec => []PanelFits
<1>1. ASSUME InputInv PROVE PanelFits
  <2>1. PanelTypeOK /\ InRequest  BY <1>1 DEF InputInv, PanelInv
  <2>2. SUFFICES ASSUME Crashed, ~carried PROVE FALSE  BY DEF PanelFits
  <2>3. Shown # NoRequest /\ step > Last  BY <2>2 DEF Crashed, Last
  <2>4. Last \in Nat /\ step \in 1..Last
    BY <2>1, <2>2, <2>3, ShownRequest DEF InRequest
  <2> QED  BY <2>3, <2>4
<1> QED  BY InputInvHolds, <1>1, PTL

\* What the panel would post answers a question with a single choice by one
\* option or one text at most, whatever the user toggles, unless one request
\* took another's place in it.
THEOREM OneChoiceHolds == InputSpec => []OneChoice
<1>1. ASSUME InputInv PROVE OneChoice
  <2> SUFFICES ASSUME OnPanel, ~carried, NEW k \in 1..Last, ~Questions[Shown][k]
               PROVE  Cardinality(BuildAnswers[k]) <= 1
    BY DEF OneChoice
  <2>1. Single(k)
    BY <1>1 DEF InputInv, PanelInv, InRequest, OnPanel
  <2>2. BuildAnswers[k] =
            selections[k] \cup (IF otherActive[k] /\ otherTexts[k] THEN {Other} ELSE {})
    BY DEF BuildAnswers
  <2>3. BuildAnswers[k] = {} \/ \E a : BuildAnswers[k] = {a}
    BY <2>1, <2>2 DEF Single
  <2>4. Cardinality({}) = 0  BY FS_EmptySet
  <2>5. \A a : Cardinality({a}) = 1  BY FS_Singleton
  <2>6. Cardinality(BuildAnswers[k]) \in {0, 1}  BY <2>3, <2>4, <2>5, Zenon
  <2> QED  BY <2>6
<1> QED  BY InputInvHolds, <1>1, PTL

\* A message is sent into a running query only after one was sent by a composer
\* that was gone, the tab was left while a query ran, or a query raised an error
\* before its done, for any number of messages, visits to other tabs and panels.
THEOREM SendsOneAtATimeHolds == InputSpec => []SendsOneAtATime
<1>1. InputInv => SendsOneAtATime
  BY DEF InputInv, OneAtATime, OneRuns, Unlocked, SendsOneAtATime
<1> QED  BY InputInvHolds, <1>1, PTL

\* No file goes into two messages, or stays attached once it is in one, for any
\* number of files and messages.
THEOREM FilesSentOnceHolds == InputSpec => []FilesSentOnce
<1>1. ASSUME InputInv PROVE FilesSentOnce
  <2> SUFFICES ASSUME NEW m \in 1..Len(sent)
               PROVE  /\ \A n \in 1..(m - 1) : sent[n].files \cap sent[m].files = {}
                      /\ \A k \in 1..Len(pendingFiles) : pendingFiles[k] \notin sent[m].files
    BY DEF FilesSentOnce
  <2>1. \A n \in 1..(m - 1) : sent[n].files \cap sent[m].files = {}
    BY <1>1 DEF InputInv, FilesApart
  <2>2. \A k \in 1..Len(pendingFiles) : pendingFiles[k] \in Held(pendingFiles)  BY DEF Held
  <2>3. sent[m].files \subseteq SentFiles  BY DEF SentFiles
  <2>4. Held(pendingFiles) \cap SentFiles = {}  BY <1>1 DEF InputInv, FilesApart
  <2> QED  BY <2>1, <2>2, <2>3, <2>4
<1> QED  BY InputInvHolds, <1>1, PTL

-----------------------------------------------------------------------------
(* About Mmds, for any VMs and any number of credentials: its type         *)
(* invariant, and that a pass reaches every VM it could write to.          *)
(*                                                                         *)
(* A VM leaves `sockets` only written to or failed, and nobody else writes *)
(* to a VM that stays in the registry: it keeps what the pass wrote until  *)
(* the next one.                                                           *)

\* What a VM collected by the pass has, once it was written to.
Reached ==
    \A v \in collected \ failed :
        v \notin sockets /\ entry[v] = "registered" => creds[v] >= fresh

\* Between two passes nothing is left to write to, and a pass begins anew.
Emptied ==
    /\ pass \in {"waiting", "fetching"} => sockets = {}
    /\ pass = "fetching" => collected = {} /\ failed = {}

\* No VM goes back to the registry, and none is provisioned again.
Settled == \A v \in collected : entry[v] \in {"registered", "removed"}

MmdsInv == MmdsTypeOK /\ Reached /\ Emptied /\ Settled

\* The initial state satisfies the invariant.
LEMMA MmdsInitInv == MmdsInit => MmdsInv
BY IssuedAssumption DEF MmdsInit, MmdsInv, MmdsTypeOK, Issued, Reached, Emptied, Settled

\* Every step preserves the type invariant: `sockets` stays within `collected`
\* because it is empty when a pass begins.
LEMMA MmdsTypeStep == MmdsTypeOK /\ Emptied /\ [MmdsNext]_mmdsVars => MmdsTypeOK'
<1> SUFFICES ASSUME MmdsTypeOK, Emptied, [MmdsNext]_mmdsVars PROVE MmdsTypeOK'
  OBVIOUS
<1> USE IssuedAssumption DEF MmdsTypeOK, Issued, passVars
<1>1. CASE HostRotates  BY <1>1 DEF HostRotates
<1>2. ASSUME NEW v \in Vms, FetchForVm(v) PROVE MmdsTypeOK'  BY <1>2 DEF FetchForVm
<1>3. ASSUME NEW v \in Vms, Register(v) PROVE MmdsTypeOK'  BY <1>3 DEF Register
<1>4. ASSUME NEW v \in Vms, Remove(v) PROVE MmdsTypeOK'  BY <1>4 DEF Remove
<1>5. CASE Fetch  BY <1>5 DEF Fetch, Emptied
<1>6. CASE FetchFails  BY <1>6 DEF FetchFails
<1>7. CASE Collect
  <2>1. collected' \subseteq Vms /\ sockets' = collected'  BY <1>7 DEF Collect
  <2>2. failed' = {}  BY <1>7 DEF Collect, Emptied
  <2> QED  BY <1>7, <2>1, <2>2 DEF Collect
<1>8. ASSUME NEW v \in Vms, Write(v) PROVE MmdsTypeOK'  BY <1>8 DEF Write
<1>9. ASSUME NEW v \in Vms, WriteFails(v) PROVE MmdsTypeOK'  BY <1>9 DEF WriteFails
<1>10. CASE PassEnds  BY <1>10 DEF PassEnds
<1>11. CASE Abort  BY <1>11 DEF Abort
<1>12. CASE UNCHANGED mmdsVars  BY <1>12 DEF mmdsVars
<1> QED
  BY <1>1, <1>2, <1>3, <1>4, <1>5, <1>6, <1>7, <1>8, <1>9, <1>10, <1>11, <1>12 DEF MmdsNext

\* No action brings a VM back that the pass collected.
LEMMA SettledStep == MmdsInv /\ [MmdsNext]_mmdsVars => Settled'
<1> SUFFICES ASSUME MmdsInv, [MmdsNext]_mmdsVars PROVE Settled'
  OBVIOUS
<1> USE DEF MmdsInv, MmdsTypeOK, Settled, passVars
<1>1. ASSUME NEW v \in Vms, FetchForVm(v) PROVE Settled'  BY <1>1 DEF FetchForVm
<1>2. ASSUME NEW v \in Vms, Register(v) PROVE Settled'  BY <1>2 DEF Register
<1>3. ASSUME NEW v \in Vms, Remove(v) PROVE Settled'  BY <1>3 DEF Remove
<1>4. CASE Fetch  BY <1>4 DEF Fetch
<1>5. CASE Collect  BY <1>5 DEF Collect
<1> QED
  BY <1>1, <1>2, <1>3, <1>4, <1>5
     DEF MmdsNext, HostRotates, FetchFails, Write, WriteFails, PassEnds, Abort, mmdsVars

\* `sockets` is empty between the passes.
LEMMA EmptiedStep == MmdsInv /\ [MmdsNext]_mmdsVars => Emptied'
BY DEF MmdsInv, Emptied, MmdsNext, HostRotates, FetchForVm, Register, Remove, Fetch, FetchFails,
       Collect, Write, WriteFails, PassEnds, Abort, mmdsVars, passVars

\* A VM leaves `sockets` with the credentials of the pass, or failed, and while
\* it stays in the registry nothing else writes to it.
LEMMA ReachedStep == MmdsInv /\ [MmdsNext]_mmdsVars => Reached'
<1> SUFFICES ASSUME MmdsInv, [MmdsNext]_mmdsVars PROVE Reached'
  OBVIOUS
<1> USE DEF MmdsInv, MmdsTypeOK, Reached, passVars
<1>1. ASSUME NEW v \in Vms, FetchForVm(v) PROVE Reached'  BY <1>1 DEF FetchForVm, Settled
<1>2. ASSUME NEW v \in Vms, Register(v) PROVE Reached'  BY <1>2 DEF Register, Settled
<1>3. ASSUME NEW v \in Vms, Remove(v) PROVE Reached'  BY <1>3 DEF Remove
<1>4. CASE Fetch  BY <1>4 DEF Fetch
<1>5. CASE FetchFails  BY <1>5 DEF FetchFails
<1>6. CASE Collect  BY <1>6 DEF Collect
<1>7. ASSUME NEW v \in Vms, Write(v) PROVE Reached'  BY <1>7 DEF Write
<1>8. ASSUME NEW v \in Vms, WriteFails(v) PROVE Reached'  BY <1>8 DEF WriteFails
<1>9. CASE PassEnds  BY <1>9 DEF PassEnds
<1>10. CASE Abort  BY <1>10 DEF Abort
<1>11. CASE HostRotates \/ UNCHANGED mmdsVars  BY <1>11 DEF HostRotates, mmdsVars
<1> QED
  BY <1>1, <1>2, <1>3, <1>4, <1>5, <1>6, <1>7, <1>8, <1>9, <1>10, <1>11 DEF MmdsNext

\* Every reachable state satisfies the invariant.
LEMMA MmdsInvHolds == MmdsSpec => []MmdsInv
<1>1. MmdsInv /\ [MmdsNext]_mmdsVars => MmdsInv'
  BY MmdsTypeStep, SettledStep, EmptiedStep, ReachedStep DEF MmdsInv
<1> QED  BY MmdsInitInv, <1>1, PTL DEF MmdsSpec

\* The type invariant, for all VMs and however often credentials are issued.
THEOREM MmdsTypeCorrect == MmdsSpec => []MmdsTypeOK
<1>1. MmdsInv => MmdsTypeOK  BY DEF MmdsInv
<1> QED  BY MmdsInvHolds, <1>1, PTL

\* A pass of refresh_all_vm_mmds reaches every VM it collected and could write
\* to: nobody's failure, and no removal, keeps the others from the credentials.
THEOREM RefreshReachesAllHolds == MmdsSpec => []RefreshReachesAll
<1>1. MmdsInv => RefreshReachesAll
  BY DEF MmdsInv, MmdsTypeOK, Reached, Emptied, RefreshReachesAll
<1> QED  BY MmdsInvHolds, <1>1, PTL

-----------------------------------------------------------------------------
(* About Conversations, what useConversations.ts and its callers promise   *)
(* of the list, for any number of sessions, queries, uploads, loads and    *)
(* deletions: a session has one entry, a deleted one stays away, a query   *)
(* continues its conversation's session.                                   *)
(*                                                                         *)
(* Whoever uses a session, a query or a call that waits for its uploads,   *)
(* uses it for the one conversation that has it (SessionInv). A call that  *)
(* waits has the session of its conversation's last done, or one came      *)
(* meanwhile (WaitingKnown). A session whose deletion was served, and that *)
(* nothing under way could bring back, is in nothing the list is still     *)
(* built from (DeadInv).                                                   *)

Ids == 1..(nextId - 1)
Sessions == 1..(nextSession - 1)
Entries == [id : Ids, session : Sessions \cup {0}, dir : BOOLEAN, last : Sessions \cup {0}]
Queries == [n : Nat, id : Ids, session : Sessions, begun : BOOLEAN]
Waiting == [n : Nat, id : Ids \cup {0}, session : Sessions \cup {0}]
Deletions == [id : Ids, session : Sessions, selected : Ids \cup {0}, done : BOOLEAN]

NumbersOK == nextId \in Nat \ {0} /\ nextSession \in Nat \ {0} /\ asks \in 0..MaxAsks
EntriesOK ==
    /\ \A e \in conversations : e \in Entries /\ e.last = e.session
    /\ \A e, f \in conversations : e.id = f.id => e = f
PageOK == selectedId \in Ids \cup {0} /\ history \subseteq Sessions /\ gone \subseteq Sessions
AsksOK ==
    /\ \A q \in queries : q \in Queries
    /\ \A w \in waiting : w \in Waiting /\ (w.id = 0 => w.session = 0)
RequestsOK ==
    /\ \A y \in syncs : /\ y \in [n : Nat, answer : SUBSET Nat]
                        /\ y.answer = Unserved \/ y.answer \subseteq Sessions
    /\ \A l \in lookups : l \in [id : Ids, session : Sessions]
    /\ \A d \in deletions : d \in Deletions
EntryInv == NumbersOK /\ EntriesOK /\ PageOK /\ AsksOK /\ RequestsOK

\* A session that is in use is in no entry but its user's, and has one user.
Users == queries \cup waiting
InUse(s) == s # 0 /\ s \notin early
UsersAgree ==
    /\ \A u \in Users, e \in conversations : InUse(u.session) /\ e.session = u.session => e.id = u.id
    /\ \A u, v \in Users : InUse(u.session) /\ v.session = u.session => v.id = u.id
SessionInv == UsersAgree /\ OneEntryPerSession

\* What a call captured is what its conversation continues, or it missed a done.
WaitingKnown ==
    \A w \in waiting, e \in conversations :
        e.id = w.id /\ e.last # 0 => w.session = e.last \/ w.n \in missed

\* The sessions whose deletion the server has served.
Dead == gone \cup {d.session : d \in {x \in deletions : x.done}}
DeadUnreachable ==
    \A s \in Dead \ exposed :
        /\ s \notin history /\ \A y \in syncs : s \notin y.answer
        /\ \A q \in queries : q.session = s => ~q.begun
\* It is in no entry but the one that goes when the answer is handled.
DeadAlone ==
    \A d \in deletions, e \in conversations :
        d.done /\ e.session = d.session => e.id = d.id \/ e.session \in exposed \cup early
DeadInv == DeadUnreachable /\ DeadAlone /\ DeletedStaysAway

-----------------------------------------------------------------------------
(* Operators.                                                              *)

\* A finite set of sessions can be numbered from any number on.
LEMMA Numbering ==
  ASSUME NEW S, IsFiniteSet(S), NEW m \in Nat
  PROVE  /\ Cardinality(S) \in Nat
         /\ \E f \in [S -> m..(m + Cardinality(S) - 1)] : \A s, t \in S : f[s] = f[t] => s = t
<1> DEFINE n == Cardinality(S)
<1>1. n \in Nat /\ ExistsBijection(1..n, S)
  BY FS_CardinalityType
<1>2. ExistsBijection(S, 1..n)
  BY <1>1, Fun_ExistsBijSymmetric
<1>3. PICK g \in Bijection(S, 1..n) : TRUE
  BY <1>2, Fun_ExistsBij
<1> HIDE DEF n
<1>4. g \in [S -> 1..n] /\ \A s, t \in S : g[s] = g[t] => s = t
  BY <1>3, Fun_BijectionProperties, Zenon
<1> USE DEF n
<1> DEFINE f == [s \in S |-> m + g[s] - 1]
<1>5. f \in [S -> m..(m + n - 1)] /\ \A s, t \in S : f[s] = f[t] => s = t
  <2>1. \A s \in S : g[s] \in 1..n
    BY <1>4
  <2> HIDE DEF n
  <2>2. ASSUME NEW s \in S
        PROVE  m + g[s] - 1 \in m..(m + n - 1)
    BY <2>1, <1>1
  <2>3. ASSUME NEW s \in S, NEW t \in S, f[s] = f[t]
        PROVE  s = t
    BY <2>1, <2>3, <1>4, <1>1
  <2> QED
    BY <2>2, <2>3
<1> QED
  BY <1>1, <1>5

\* NewSessions: sessions of the answer, not in the list, and finitely many.
LEMMA NewSessionsFinite ==
  ASSUME EntryInv, NEW y \in syncs, y.answer # Unserved
  PROVE  /\ NewSessions(y.answer) \subseteq Sessions
         /\ IsFiniteSet(NewSessions(y.answer))
         /\ \A e \in conversations : e.session \notin NewSessions(y.answer)
<1>1. NewSessions(y.answer) \subseteq Sessions
  BY DEF EntryInv, RequestsOK, NewSessions
<1>2. IsFiniteSet(Sessions)
  BY FS_Interval DEF Sessions, EntryInv, NumbersOK
<1>3. IsFiniteSet(NewSessions(y.answer))
  BY <1>1, <1>2, FS_Subset
<1>4. \A e \in conversations : e.session \notin NewSessions(y.answer)
  BY DEF NewSessions
<1> QED
  BY <1>1, <1>3, <1>4

\* mergeConversations: one entry with an id of its own for each new session.
LEMMA MergeAdds ==
  ASSUME EntryInv, NEW y \in syncs, Merge(y)
  PROVE  /\ nextId' \in Nat /\ nextId' >= nextId
         /\ \E f \in [NewSessions(y.answer) -> nextId..(nextId' - 1)] :
              /\ \A s, t \in NewSessions(y.answer) : f[s] = f[t] => s = t
              /\ conversations' = conversations \cup
                                    {Entry(f[s], s, TRUE, s) : s \in NewSessions(y.answer)}
<1> DEFINE S == NewSessions(y.answer)
           F == [S -> nextId..(nextId + Cardinality(S) - 1)]
           Numbers(f) == \A s, t \in S : f[s] = f[t] => s = t
           number == CHOOSE f \in F : Numbers(f)
<1>1. y.answer # Unserved /\ nextId \in Nat
  BY DEF Merge, EntryInv, NumbersOK
<1>2. IsFiniteSet(S)
  BY <1>1, NewSessionsFinite
<1>3. Cardinality(S) \in Nat /\ \E f \in F : Numbers(f)
  BY <1>1, <1>2, Numbering
<1>4. number \in F /\ Numbers(number)
  BY <1>3
<1>5. nextId' = nextId + Cardinality(S)
      /\ conversations' = conversations \cup {Entry(number[s], s, TRUE, s) : s \in S}
  BY DEF Merge
<1> HIDE DEF number, S
<1>6. nextId' \in Nat /\ nextId' >= nextId
  BY <1>1, <1>3, <1>5
<1>7. nextId' - 1 = nextId + Cardinality(S) - 1
  BY <1>1, <1>3, <1>5
<1>8. number \in [S -> nextId..(nextId' - 1)]
  BY <1>4, <1>7, Zenon
<1> QED
  BY <1>4, <1>5, <1>6, <1>8 DEF S

\* done: an entry keeps its id and its projectDir, and the query's gets its session.
LEMMA DoneEntries ==
  ASSUME NEW q \in queries, Done(q)
  PROVE  \A x \in conversations' : \E e \in conversations :
            /\ x.id = e.id
            /\ \/ e.id = q.id /\ x = Entry(e.id, q.session, e.dir, q.session)
               \/ e.id # q.id /\ x = e
<1> DEFINE New(e) == IF e.id = q.id THEN Entry(e.id, q.session, e.dir, q.session) ELSE e
<1>1. conversations' = {New(e) : e \in conversations}
  BY DEF Done
<1>2. \A e \in conversations :
        /\ New(e).id = e.id
        /\ \/ e.id = q.id /\ New(e) = Entry(e.id, q.session, e.dir, q.session)
           \/ e.id # q.id /\ New(e) = e
  BY DEF Entry
<1> HIDE DEF New
<1> QED
  BY <1>1, <1>2

\* A lookup changes no entry but in its projectDir.
LEMMA LookupEntries ==
  ASSUME EntryInv, NEW l \in lookups, LookupEnds(l)
  PROVE  \A x \in conversations' : \E e \in conversations :
            /\ x \in Entries /\ x.id = e.id /\ x.session = e.session /\ x.last = e.last
            /\ x = IF e.id = l.id /\ x # e THEN [e EXCEPT !.dir = TRUE] ELSE e
<1> DEFINE New(e) == IF e.id = l.id THEN [e EXCEPT !.dir = TRUE] ELSE e
<1>1. \A e \in conversations : e \in Entries
  BY DEF EntryInv, EntriesOK
<1>2. \A e \in conversations :
        /\ New(e) \in Entries /\ New(e).id = e.id /\ New(e).session = e.session /\ New(e).last = e.last
        /\ New(e) = IF e.id = l.id /\ New(e) # e THEN [e EXCEPT !.dir = TRUE] ELSE e
  BY <1>1 DEF Entries
<1>3. conversations' = {New(e) : e \in conversations} \/ conversations' = conversations
  BY DEF LookupEnds
<1>4. CASE conversations' = {New(e) : e \in conversations}
  <2> HIDE DEF New
  <2> QED
    BY <1>2, <1>4
<1>5. CASE conversations' = conversations
  BY <1>1, <1>5
<1> QED
  BY <1>3, <1>4, <1>5

\* The session that a conversation is known by.
LEMMA SessionOfView ==
  ASSUME EntryInv, NEW c \in Ids \cup {0}
  PROVE  /\ SessionOf(c) \in Sessions \cup {0} /\ (c = 0 => SessionOf(c) = 0)
         /\ \A e \in conversations : e.id = c => e.session = SessionOf(c)
         /\ SessionOf(c) # 0 => \E e \in conversations : e.id = c
<1>1. \A e \in conversations : e.id # 0 /\ e.session \in Sessions \cup {0}
  BY DEF EntryInv, EntriesOK, Entries, Ids, NumbersOK
<1>2. CASE c \in IdsOf(conversations)
  <2>1. PICK e \in conversations : e.id = c
    BY <1>2 DEF IdsOf
  <2>2. \A f \in conversations : f.id = c => f = e
    BY <2>1 DEF EntryInv, EntriesOK
  <2>3. (CHOOSE f \in conversations : f.id = c) = e
    BY <2>1, <2>2
  <2>4. SessionOf(c) = e.session
    BY <1>2, <2>3 DEF SessionOf
  <2> QED
    BY <1>1, <2>1, <2>2, <2>4
<1>3. CASE c \notin IdsOf(conversations)
  BY <1>3 DEF SessionOf, IdsOf
<1> QED
  BY <1>2, <1>3

\* The query n that is sent in conversation c with session s.
IsSent(q, n, c, s) ==
    /\ queries' = queries \cup {q} /\ q.n = n
    /\ q.id = c \/ q.id = nextId
    /\ IF s = 0 THEN q.session = nextSession ELSE q.session = s /\ q.id = c
    /\ q.begun => q.session \in history \cup {nextSession}

\* handleSend: a query of its own for the conversation it was called in, or for
\* a new one, with the session it was called with, or with a new one.
LEMMA SendsEffect ==
  ASSUME EntryInv, NEW n \in Nat, NEW c \in Ids \cup {0}, NEW s \in Sessions \cup {0},
         c = 0 => s = 0, Sends(n, c, s)
  PROVE  /\ nextId' \in {nextId, nextId + 1} /\ nextSession' \in {nextSession, nextSession + 1}
         /\ \/ conversations' = conversations
            \/ conversations' = conversations \cup {Entry(nextId, 0, FALSE, 0)} /\ nextId' = nextId + 1
         /\ selectedId' = selectedId \/ (selectedId' = nextId /\ nextId' = nextId + 1)
         /\ \E q : q \in Queries' /\ IsSent(q, n, c, s)
         /\ UNCHANGED <<history, syncs, lookups, deletions, early, exposed, missed, gone>>
<1> DEFINE sender == IF c = 0 THEN nextId ELSE c
           known == s \in history
           started == [n |-> n, id |-> sender, session |-> nextSession, begun |-> TRUE]
           older == [n |-> n, id |-> sender, session |-> s, begun |-> known]
<1>0. nextId \in Nat \ {0} /\ nextSession \in Nat \ {0}
  BY DEF EntryInv, NumbersOK
<1>1. /\ \/ /\ c = 0 /\ conversations' = conversations \cup {Entry(nextId, 0, FALSE, 0)}
            /\ nextId' = nextId + 1 /\ selectedId' = nextId
         \/ c # 0 /\ UNCHANGED <<conversations, nextId, selectedId>>
      /\ UNCHANGED <<history, syncs, lookups, deletions, early, exposed, missed, gone>>
  BY DEF Sends, requestVars, pastVars
<1>2. \/ s = 0 /\ queries' = queries \cup {started} /\ nextSession' = nextSession + 1
      \/ s # 0 /\ queries' = queries \cup {older} /\ nextSession' = nextSession
  BY DEF Sends
<1>3. sender \in 1..(nextId' - 1)
  <2>1. CASE c = 0
    <3>1. sender = nextId /\ nextId' = nextId + 1
      BY <1>1, <2>1
    <3> QED
      BY <1>0, <3>1
  <2>2. CASE c # 0
    <3>1. sender = c /\ nextId' = nextId
      BY <1>1, <2>2
    <3> QED
      BY <2>2, <3>1 DEF Ids
  <2> QED
    BY <2>1, <2>2
<1>4. CASE s = 0
  <2>1. queries' = queries \cup {started} /\ nextSession' = nextSession + 1
    BY <1>2, <1>4
  <2>2. nextSession \in 1..(nextSession' - 1)
    BY <1>0, <2>1
  <2>3. started \in Queries'
    BY <1>3, <2>2 DEF Queries, Ids, Sessions
  <2>4. started.n = n /\ started.id = sender /\ started.session = nextSession
    OBVIOUS
  <2>5. sender = c \/ sender = nextId
    OBVIOUS
  <2> HIDE DEF started, sender
  <2> QED
    BY <1>1, <1>4, <2>1, <2>3, <2>4, <2>5 DEF IsSent
<1>5. CASE s # 0
  <2>1. queries' = queries \cup {older} /\ nextSession' = nextSession
    BY <1>2, <1>5
  <2>2. s \in 1..(nextSession' - 1) /\ known \in BOOLEAN /\ sender = c
    BY <1>5, <2>1 DEF Sessions
  <2>3. older.n = n /\ older.id = sender /\ older.session = s /\ older.begun = known
    OBVIOUS
  <2> HIDE DEF sender, known
  <2>4. older \in Queries'
    BY <1>3, <2>2 DEF Queries, Ids, Sessions
  <2>5. older.begun => older.session \in history
    BY <2>3 DEF known
  <2> HIDE DEF older
  <2> QED
    BY <1>1, <1>5, <2>1, <2>2, <2>3, <2>4, <2>5 DEF IsSent
<1> QED
  BY <1>4, <1>5

\* SendQuery and UploadsDone send, the one as the page is and the other as it
\* was when the uploads began.
LEMMA WhoSends ==
  ASSUME EntryInv
  PROVE  /\ SendQuery =>
                /\ asks' = asks + 1 /\ asks' \in 0..MaxAsks /\ asks + 1 \in Nat /\ waiting' = waiting
                /\ selectedId \in Ids \cup {0} /\ SessionOf(selectedId) \in Sessions \cup {0}
                /\ (selectedId = 0 => SessionOf(selectedId) = 0)
                /\ Sends(asks + 1, selectedId, SessionOf(selectedId))
         /\ \A w \in waiting : UploadsDone(w) =>
                /\ asks' = asks /\ waiting' = waiting \ {w}
                /\ w.n \in Nat /\ w.id \in Ids \cup {0} /\ w.session \in Sessions \cup {0}
                /\ (w.id = 0 => w.session = 0)
                /\ \/ Sends(w.n, w.id, w.session)
                   \/ UNCHANGED <<conversations, selectedId, history, queries, requestVars, nextId,
                                  nextSession, pastVars>>
<1>1. asks \in Nat /\ selectedId \in Ids \cup {0}
  BY DEF EntryInv, NumbersOK, PageOK
<1>2. ASSUME SendQuery PROVE asks' = asks + 1 /\ asks' \in 0..MaxAsks
  BY <1>1, <1>2, ListAssumption DEF SendQuery
<1>3. \A w \in waiting : /\ w.n \in Nat /\ w.id \in Ids \cup {0} /\ w.session \in Sessions \cup {0}
                         /\ (w.id = 0 => w.session = 0)
  BY DEF EntryInv, AsksOK, Waiting
<1> QED
  BY <1>1, <1>2, <1>3, SessionOfView DEF SendQuery, UploadsDone

-----------------------------------------------------------------------------
(* Types: ids and sessions are below the counters, an entry's id is its    *)
(* own, and what an entry continues is the session it shows.               *)

LEMMA EntryInit ==
  ASSUME ListInit
  PROVE  EntryInv
<1>1. PICK k \in 0..MaxHistory : history = 1..k /\ nextSession = k + 1
  BY DEF ListInit
<1>2. NumbersOK /\ history \subseteq Sessions
  BY <1>1, ListAssumption DEF ListInit, NumbersOK, Sessions
<1> QED
  BY <1>2 DEF ListInit, EntryInv, EntriesOK, PageOK, AsksOK, RequestsOK, Unserved

\* What is typed stays typed as the counters grow.
LEMMA EntriesGrow ==
  ASSUME EntryInv, nextId' \in Nat, nextId' >= nextId, nextSession' \in Nat,
         nextSession' >= nextSession
  PROVE  /\ Ids \subseteq Ids' /\ Sessions \subseteq Sessions'
         /\ nextId' \in Nat \ {0} /\ nextSession' \in Nat \ {0}
         /\ Entries \subseteq Entries' /\ Queries \subseteq Queries'
         /\ Waiting \subseteq Waiting' /\ Deletions \subseteq Deletions'
<1>1. /\ nextId \in Nat \ {0} /\ nextSession \in Nat \ {0}
      /\ nextId' \in Nat \ {0} /\ nextSession' \in Nat \ {0}
  BY DEF EntryInv, NumbersOK
<1> HIDE DEF EntryInv
<1>0. ASSUME NEW m \in Nat, NEW n \in Nat, n >= m, NEW i \in 1..(m - 1)
      PROVE  i \in 1..(n - 1)
  BY <1>0
<1>2. Ids \subseteq Ids'
  BY <1>0, <1>1 DEF Ids
<1>3. Sessions \subseteq Sessions'
  BY <1>0, <1>1 DEF Sessions
<1> QED
  BY <1>1, <1>2, <1>3 DEF Entries, Queries, Waiting, Deletions

\* A message that is sent is typed, and so is its conversation.
LEMMA SendsTypes ==
  ASSUME EntryInv, NEW n \in Nat, NEW c \in Ids \cup {0}, NEW s \in Sessions \cup {0},
         c = 0 => s = 0, Sends(n, c, s), waiting' \subseteq waiting, asks' \in 0..MaxAsks
  PROVE  EntryInv'
<1>1. /\ nextId' \in {nextId, nextId + 1} /\ nextSession' \in {nextSession, nextSession + 1}
      /\ \/ conversations' = conversations
         \/ conversations' = conversations \cup {Entry(nextId, 0, FALSE, 0)} /\ nextId' = nextId + 1
      /\ selectedId' = selectedId \/ (selectedId' = nextId /\ nextId' = nextId + 1)
      /\ \E q : q \in Queries' /\ IsSent(q, n, c, s)
      /\ UNCHANGED <<history, syncs, lookups, deletions, gone>>
  BY SendsEffect
<1>2. nextId \in Nat \ {0} /\ nextSession \in Nat \ {0}
  BY DEF EntryInv, NumbersOK
<1>3. /\ Ids \subseteq Ids' /\ Sessions \subseteq Sessions'
      /\ nextId' \in Nat \ {0} /\ nextSession' \in Nat \ {0}
      /\ Entries \subseteq Entries' /\ Queries \subseteq Queries'
      /\ Waiting \subseteq Waiting' /\ Deletions \subseteq Deletions'
  BY <1>1, <1>2, EntriesGrow
<1>4. nextId \notin Ids /\ (nextId' = nextId + 1 => nextId \in Ids')
  BY <1>2 DEF Ids
<1>5. EntriesOK'
  <2> DEFINE new == Entry(nextId, 0, FALSE, 0)
  <2>1. /\ new.id = nextId /\ new.last = new.session
        /\ nextId' = nextId + 1 => new \in Entries'
    BY <1>4 DEF Entry, Entries
  <2>2. \A e \in conversations : e.id # nextId
    BY <1>4 DEF EntryInv, EntriesOK, Entries
  <2> HIDE DEF new
  <2>3. \A x \in conversations' : \/ x \in conversations
                                  \/ x = new /\ nextId' = nextId + 1
    BY <1>1 DEF new
  <2>4. \A x \in conversations' : x \in Entries' /\ x.last = x.session
    BY <1>3, <2>1, <2>3 DEF EntryInv, EntriesOK
  <2>5. \A x, z \in conversations' : x.id = z.id => x = z
    BY <2>1, <2>2, <2>3 DEF EntryInv, EntriesOK
  <2> QED
    BY <2>4, <2>5 DEF EntriesOK
<1>6. AsksOK'
  BY <1>1, <1>3 DEF EntryInv, AsksOK, IsSent
<1>7. NumbersOK' /\ PageOK'
  BY <1>1, <1>3, <1>4 DEF EntryInv, NumbersOK, PageOK
<1>8. RequestsOK'
  BY <1>1, <1>3 DEF EntryInv, RequestsOK
<1> QED
  BY <1>5, <1>6, <1>7, <1>8 DEF EntryInv

\* Every step keeps the types.
LEMMA EntryStep ==
  ASSUME EntryInv, [ListNext]_listVars
  PROVE  EntryInv'
<1>1. CASE SendQuery
  BY <1>1, WhoSends, SendsTypes
<1>2. UNCHANGED <<nextId, nextSession>> =>
        UNCHANGED <<Ids, Sessions, Entries, Queries, Waiting, Deletions>>
  BY DEF Ids, Sessions, Entries, Queries, Waiting, Deletions
<1>16. CASE BeginUploads
  <2> DEFINE w == [n |-> asks + 1, id |-> selectedId, session |-> SessionOf(selectedId)]
  <2>1. /\ UNCHANGED <<conversations, selectedId, history, queries, requestVars, nextId, nextSession, pastVars>>
        /\ waiting' = waiting \cup {w} /\ asks < MaxAsks /\ asks' = asks + 1
    BY <1>16 DEF BeginUploads
  <2>2. asks \in Nat /\ selectedId \in Ids \cup {0} /\ asks' \in 0..MaxAsks
    BY <2>1, ListAssumption DEF EntryInv, NumbersOK, PageOK
  <2>3. w \in Waiting /\ (w.id = 0 => w.session = 0)
    BY <2>2, SessionOfView DEF Waiting
  <2> HIDE DEF w
  <2>4. AsksOK'
    BY <1>2, <2>1, <2>3 DEF EntryInv, AsksOK
  <2> QED
    BY <1>2, <2>1, <2>2, <2>4 DEF EntryInv, NumbersOK, EntriesOK, PageOK, RequestsOK,
        requestVars, pastVars
<1>17. ASSUME NEW w \in waiting, UploadsDone(w)
       PROVE  EntryInv'
  <2>1. /\ asks' \in 0..MaxAsks /\ waiting' \subseteq waiting
        /\ w.n \in Nat /\ w.id \in Ids \cup {0} /\ w.session \in Sessions \cup {0}
        /\ (w.id = 0 => w.session = 0)
    BY <1>17, WhoSends DEF EntryInv, NumbersOK
  <2>2. CASE Sends(w.n, w.id, w.session)
    BY <2>1, <2>2, SendsTypes
  <2>3. CASE UNCHANGED <<conversations, selectedId, history, queries, requestVars, nextId,
                         nextSession, pastVars>>
    BY <1>2, <2>1, <2>3 DEF EntryInv, NumbersOK, EntriesOK, PageOK, AsksOK, RequestsOK,
        requestVars, pastVars
  <2> QED
    BY <1>17, <2>2, <2>3 DEF UploadsDone
<1>3. ASSUME NEW y \in syncs, Merge(y)
      PROVE  EntryInv'
  <2> DEFINE S == NewSessions(y.answer)
  <2>1. /\ UNCHANGED <<selectedId, history, queries, waiting, lookups, deletions, nextSession, asks, gone>>
        /\ syncs' = syncs \ {y} /\ y.answer # Unserved
    BY <1>3 DEF Merge, askVars
  <2>2. nextId' \in Nat /\ nextId' >= nextId
    BY <1>3, MergeAdds
  <2>3. PICK f \in [S -> nextId..(nextId' - 1)] :
          /\ \A s, t \in S : f[s] = f[t] => s = t
          /\ conversations' = conversations \cup {Entry(f[s], s, TRUE, s) : s \in S}
    BY <1>3, MergeAdds
  <2>4. S \subseteq Sessions
    BY <2>1, NewSessionsFinite
  <2> HIDE DEF S
  <2>5. /\ Ids \subseteq Ids' /\ Sessions' = Sessions
        /\ nextId' \in Nat \ {0} /\ nextSession' \in Nat \ {0}
        /\ Entries \subseteq Entries' /\ Queries \subseteq Queries'
        /\ Waiting \subseteq Waiting' /\ Deletions \subseteq Deletions'
    BY <2>1, <2>2, EntriesGrow DEF EntryInv, NumbersOK, Sessions
  <2>6. \A s \in S : f[s] \in Ids' \ Ids /\ s \in Sessions
    BY <2>2, <2>3, <2>4 DEF Ids, EntryInv, NumbersOK
  <2>7. \A s \in S : LET x == Entry(f[s], s, TRUE, s)
                     IN  x \in Entries' /\ x.last = x.session /\ x.id = f[s]
    BY <2>5, <2>6 DEF Entry, Entries
  <2>8. \A x \in conversations' : \/ x \in conversations
                                  \/ \E s \in S : x = Entry(f[s], s, TRUE, s)
    BY <2>3
  <2>9. \A x \in conversations' : x \in Entries' /\ x.last = x.session
    <3> TAKE x \in conversations'
    <3>1. CASE x \in conversations
      BY <3>1, <2>5 DEF EntryInv, EntriesOK
    <3>2. CASE \E s \in S : x = Entry(f[s], s, TRUE, s)
      BY <3>2, <2>7
    <3> QED
      BY <3>1, <3>2, <2>8
  <2>10. ASSUME NEW x \in conversations', NEW z \in conversations', x.id = z.id
         PROVE  x = z
    <3>1. \A e \in conversations : e.id \in Ids
      BY DEF EntryInv, EntriesOK, Entries
    <3>2. CASE x \in conversations /\ z \in conversations
      BY <2>10, <3>2 DEF EntryInv, EntriesOK
    <3>3. \A s \in S : Entry(f[s], s, TRUE, s).id = f[s] /\ f[s] \notin Ids
      BY <2>6, <2>7
    <3>4. CASE x \in conversations /\ z \notin conversations
      BY <2>10, <2>8, <3>1, <3>3, <3>4
    <3>5. CASE x \notin conversations /\ z \in conversations
      BY <2>10, <2>8, <3>1, <3>3, <3>5
    <3>6. CASE x \notin conversations /\ z \notin conversations
      <4>1. PICK s \in S : x = Entry(f[s], s, TRUE, s)
        BY <2>8, <2>10, <3>6
      <4>2. PICK r \in S : z = Entry(f[r], r, TRUE, r)
        BY <2>8, <2>10, <3>6
      <4>3. s = r
        BY <4>1, <4>2, <3>3, <2>10, <2>3
      <4> QED
        BY <4>1, <4>2, <4>3
    <3> QED
      BY <3>2, <3>4, <3>5, <3>6
  <2>11. EntriesOK'
    BY <2>9, <2>10 DEF EntriesOK
  <2>12. NumbersOK' /\ PageOK' /\ AsksOK' /\ RequestsOK'
    BY <2>1, <2>5 DEF EntryInv, NumbersOK, PageOK, AsksOK, RequestsOK
  <2> QED
    BY <2>11, <2>12 DEF EntryInv
<1>4. ASSUME NEW q \in queries, Recorded(q)
      PROVE  EntryInv'
  <2>1. q.session \in Sessions
    BY DEF EntryInv, AsksOK, Queries
  <2> QED
    BY <1>2, <1>4, <2>1 DEF Recorded, EntryInv, NumbersOK, EntriesOK, PageOK, AsksOK, RequestsOK,
        askVars, requestVars, counters, pastVars
<1>5. ASSUME NEW q \in queries, Done(q)
      PROVE  EntryInv'
  <2>1. q.id \in Ids /\ q.session \in Sessions
    BY DEF EntryInv, AsksOK, Queries
  <2>2. /\ UNCHANGED <<selectedId, history, waiting, syncs, deletions, nextId, nextSession, asks, gone>>
        /\ queries' \subseteq queries
        /\ lookups' = lookups \cup {[id |-> q.id, session |-> q.session]}
    BY <1>5 DEF Done, counters
  <2>3. \A x \in conversations' : \E e \in conversations :
            /\ x.id = e.id
            /\ \/ e.id = q.id /\ x = Entry(e.id, q.session, e.dir, q.session)
               \/ e.id # q.id /\ x = e
    BY <1>5, DoneEntries
  <2>4. \A x \in conversations' : x \in Entries /\ x.last = x.session
    <3>1. ASSUME NEW e \in conversations
          PROVE  LET x == Entry(e.id, q.session, e.dir, q.session)
                 IN  x \in Entries /\ x.last = x.session
      BY <2>1 DEF EntryInv, EntriesOK, Entries, Entry
    <3> QED
      BY <2>3, <3>1 DEF EntryInv, EntriesOK
  <2>5. \A x, z \in conversations' : x.id = z.id => x = z
    BY <2>3 DEF EntryInv, EntriesOK
  <2>6. EntriesOK'
    BY <1>2, <2>2, <2>4, <2>5 DEF EntriesOK
  <2>7. RequestsOK'
    BY <1>2, <2>1, <2>2 DEF EntryInv, RequestsOK
  <2> QED
    BY <1>2, <2>2, <2>6, <2>7 DEF EntryInv, NumbersOK, PageOK, AsksOK
<1>6. ASSUME NEW q \in queries, QueryFails(q)
      PROVE  EntryInv'
  BY <1>2, <1>6 DEF QueryFails, EntryInv, NumbersOK, EntriesOK, PageOK, AsksOK, RequestsOK,
      requestVars, counters, pastVars
<1>7. ASSUME NEW l \in lookups, LookupEnds(l)
      PROVE  EntryInv'
  <2>1. /\ UNCHANGED <<selectedId, history, queries, waiting, syncs, deletions, nextId, nextSession, asks, gone>>
        /\ lookups' \subseteq lookups
    BY <1>7 DEF LookupEnds, askVars, counters, pastVars
  <2>2. \A x \in conversations' : \E e \in conversations :
            /\ x \in Entries /\ x.id = e.id /\ x.session = e.session /\ x.last = e.last
            /\ x = IF e.id = l.id /\ x # e THEN [e EXCEPT !.dir = TRUE] ELSE e
    BY <1>7, LookupEntries
  <2>3. \A x \in conversations' : x \in Entries /\ x.last = x.session
    BY <2>2 DEF EntryInv, EntriesOK
  <2>4. \A x, z \in conversations' : x.id = z.id => x = z
    <3>1. CASE conversations' = {IF e.id = l.id THEN [e EXCEPT !.dir = TRUE] ELSE e : e \in conversations}
      <4> DEFINE New(e) == IF e.id = l.id THEN [e EXCEPT !.dir = TRUE] ELSE e
      <4>1. conversations' = {New(e) : e \in conversations}
        BY <3>1
      <4>2. \A e \in conversations : New(e).id = e.id
        BY DEF EntryInv, EntriesOK, Entries
      <4> HIDE DEF New
      <4> QED
        BY <4>1, <4>2 DEF EntryInv, EntriesOK
    <3>2. CASE conversations' = conversations
      BY <3>2 DEF EntryInv, EntriesOK
    <3> QED
      BY <1>7, <3>1, <3>2 DEF LookupEnds
  <2>5. EntriesOK'
    BY <1>2, <2>1, <2>3, <2>4 DEF EntriesOK
  <2> QED
    BY <1>2, <2>1, <2>5 DEF EntryInv, NumbersOK, PageOK, AsksOK, RequestsOK
<1>8. CASE Refresh
  <2>1. /\ UNCHANGED <<conversations, selectedId, history, queries, waiting, lookups, deletions, nextId,
                       nextSession, gone>>
        /\ asks < MaxAsks /\ asks' = asks + 1
        /\ syncs' = syncs \cup {[n |-> asks + 1, answer |-> Unserved]}
    BY <1>8 DEF Refresh, askVars, pastVars
  <2>2. NumbersOK' /\ asks \in Nat
    BY <2>1, ListAssumption DEF EntryInv, NumbersOK
  <2>3. [n |-> asks + 1, answer |-> Unserved] \in [n : Nat, answer : SUBSET Nat]
    BY <2>2 DEF Unserved
  <2>4. RequestsOK'
    BY <1>2, <2>1, <2>3 DEF EntryInv, RequestsOK
  <2> QED
    BY <1>2, <2>1, <2>2, <2>4 DEF EntryInv, EntriesOK, PageOK, AsksOK
<1>9. ASSUME NEW y \in syncs, ServeSync(y)
      PROVE  EntryInv'
  <2>1. /\ [y EXCEPT !.answer = history] \in [n : Nat, answer : SUBSET Nat]
        /\ [y EXCEPT !.answer = history].answer = history
    BY DEF EntryInv, RequestsOK, PageOK, Sessions
  <2>2. RequestsOK'
    BY <1>2, <1>9, <2>1 DEF ServeSync, EntryInv, PageOK, RequestsOK, counters
  <2> QED
    BY <1>2, <1>9, <2>2 DEF ServeSync, EntryInv, NumbersOK, EntriesOK, PageOK, AsksOK,
        askVars, counters, pastVars
<1>10. ASSUME NEW y \in syncs, SyncFails(y)
      PROVE  EntryInv'
  BY <1>2, <1>10 DEF SyncFails, EntryInv, NumbersOK, EntriesOK, PageOK, AsksOK, RequestsOK,
      askVars, counters, pastVars
<1>11. CASE SelectEntry \/ HandleNewChat
  BY <1>2, <1>11 DEF SelectEntry, HandleNewChat, EntryInv, NumbersOK, EntriesOK, Entries, PageOK,
      AsksOK, RequestsOK, askVars, requestVars, counters, pastVars
<1>12. ASSUME NEW e \in conversations, DeleteClicked(e)
       PROVE  EntryInv'
  <2>1. e \in Entries /\ e.session \in Sessions \cup {0} /\ e.id \in Ids
    BY DEF EntryInv, EntriesOK, Entries
  <2>2. NumbersOK' /\ UNCHANGED <<history, queries, waiting, syncs, lookups, nextId, nextSession, gone>>
    BY <1>12, ListAssumption DEF DeleteClicked, EntryInv, NumbersOK, askVars, pastVars
  <2>3. EntriesOK' /\ PageOK'
    BY <1>12, <1>2, <2>2 DEF DeleteClicked, Drop, EntryInv, EntriesOK, PageOK
  <2>4. RequestsOK'
    <3>1. CASE e.session # 0 /\ e.dir
      <4> DEFINE d == [id |-> e.id, session |-> e.session, selected |-> selectedId, done |-> FALSE]
      <4>1. d \in Deletions
        BY <2>1, <3>1 DEF Deletions, EntryInv, PageOK
      <4>2. deletions' = deletions \cup {d}
        BY <1>12, <3>1 DEF DeleteClicked
      <4> QED
        BY <1>2, <2>2, <4>1, <4>2 DEF EntryInv, RequestsOK
    <3>2. CASE ~(e.session # 0 /\ e.dir)
      BY <1>12, <1>2, <2>2, <3>2 DEF DeleteClicked, EntryInv, RequestsOK
    <3> QED
      BY <3>1, <3>2
  <2>5. AsksOK'
    BY <1>2, <2>2 DEF EntryInv, AsksOK
  <2> QED
    BY <2>2, <2>3, <2>4, <2>5 DEF EntryInv
<1>13. ASSUME NEW d \in deletions, ServeDeletion(d)
       PROVE  EntryInv'
  <2>1. [d EXCEPT !.done = TRUE] \in Deletions
    BY DEF EntryInv, RequestsOK, Deletions
  <2> QED
    BY <1>2, <1>13, <2>1 DEF ServeDeletion, EntryInv, NumbersOK, EntriesOK, PageOK, AsksOK,
        RequestsOK, askVars, counters
<1>14. ASSUME NEW d \in deletions, DeletionFails(d) \/ Deleted(d)
       PROVE  EntryInv'
  <2>1. d \in Deletions
    BY DEF EntryInv, RequestsOK
  <2> QED
    BY <1>2, <1>14, <2>1 DEF DeletionFails, Deleted, Drop, EntryInv, NumbersOK, EntriesOK,
        PageOK, AsksOK, RequestsOK, Deletions, askVars, counters, pastVars
<1>15. CASE UNCHANGED listVars
  BY <1>2, <1>15 DEF listVars, EntryInv, NumbersOK, EntriesOK, PageOK, AsksOK, RequestsOK,
      askVars, requestVars, counters, pastVars
<1> QED
  BY <1>1, <1>3, <1>4, <1>5, <1>6, <1>7, <1>8, <1>9, <1>10, <1>11, <1>12, <1>13, <1>14, <1>15,
     <1>16, <1>17 DEF ListNext

-----------------------------------------------------------------------------
(* Sessions: in the list once, and used for the conversation that has them.*)

LEMMA SessionInit ==
  ASSUME ListInit
  PROVE  SessionInv /\ WaitingKnown
BY DEF ListInit, SessionInv, UsersAgree, Users, OneEntryPerSession, WaitingKnown

\* A step that neither adds an entry nor gives one another session, and after
\* which no other session is used, keeps the agreement.
LEMMA SessionKept ==
  ASSUME EntryInv', SessionInv,
         \A x \in conversations' : \E e \in conversations : x.id = e.id /\ x.session = e.session,
         \A u \in Users' : \E v \in Users : u.id = v.id /\ u.session = v.session,
         early \subseteq early'
  PROVE  SessionInv'
<1>1. \A x, z \in conversations' : x.id = z.id => x = z
  BY DEF EntryInv, EntriesOK
<1>2. UsersAgree'
  BY DEF SessionInv, UsersAgree, InUse
<1>3. OneEntryPerSession'
  <2>1. SUFFICES ASSUME NEW x \in conversations', NEW z \in conversations',
                        x.session = z.session, x.session # 0, x # z
                 PROVE  x.session \in early'
    BY DEF OneEntryPerSession
  <2>2. PICK e \in conversations : x.id = e.id /\ x.session = e.session
    BY <2>1
  <2>3. PICK f \in conversations : z.id = f.id /\ z.session = f.session
    BY <2>1
  <2>4. e # f
    BY <2>1, <2>2, <2>3, <1>1
  <2>5. e.session \in early
    BY <2>1, <2>2, <2>3, <2>4 DEF SessionInv, OneEntryPerSession
  <2> QED
    BY <2>2, <2>5
<1> QED
  BY <1>2, <1>3 DEF SessionInv

\* A new query, or a call that begins to wait, keeps the agreement: it uses
\* what its conversation has, what another of the conversation uses, or what
\* nobody has.
LEMMA UserJoins ==
  ASSUME EntryInv, SessionInv, NEW u,
         \A x \in conversations' : x \in conversations \/ x.session = 0,
         Users' \subseteq Users \cup {u}, early' = early,
         \/ u.session \in {0, nextSession}
         \/ \E e \in conversations : e.id = u.id /\ e.session = u.session
         \/ \E v \in Users : v.id = u.id /\ v.session = u.session
  PROVE  SessionInv'
<1>1. nextSession # 0 /\ nextSession \notin Sessions
  BY DEF EntryInv, NumbersOK, Sessions
<1>2. \A e \in conversations : e.session # nextSession
  BY <1>1 DEF EntryInv, EntriesOK, Entries
<1>3. \A v \in Users : v.session # nextSession
  BY <1>1 DEF EntryInv, AsksOK, Queries, Waiting, Users
<1> DEFINE Fits(s) == /\ \A e \in conversations : e.session = s => e.id = u.id
                      /\ \A v \in Users : v.session = s => v.id = u.id
<1>4. InUse(u.session) => Fits(u.session)
  <2>1. CASE u.session \in {0, nextSession}
    BY <2>1, <1>2, <1>3 DEF InUse
  <2>2. CASE \E e \in conversations : e.id = u.id /\ e.session = u.session
    <3>1. PICK e \in conversations : e.id = u.id /\ e.session = u.session
      BY <2>2
    <3>2. InUse(u.session) => \A f \in conversations : f.session = u.session => f.id = u.id
      BY <3>1 DEF SessionInv, OneEntryPerSession, InUse
    <3>3. InUse(u.session) => \A v \in Users : v.session = u.session => v.id = u.id
      BY <3>1 DEF SessionInv, UsersAgree
    <3> QED
      BY <3>2, <3>3
  <2>3. CASE \E v \in Users : v.id = u.id /\ v.session = u.session
    BY <2>3 DEF SessionInv, UsersAgree
  <2> QED
    BY <2>1, <2>2, <2>3
<1>5. UsersAgree'
  <2>1. ASSUME NEW v \in Users', NEW x \in conversations', InUse(v.session)', x.session = v.session
        PROVE  x.id = v.id
    <3>1. x \in conversations /\ InUse(v.session)
      BY <2>1 DEF InUse
    <3>2. CASE v \in Users
      BY <2>1, <3>1, <3>2 DEF SessionInv, UsersAgree
    <3>3. CASE v = u
      BY <2>1, <3>1, <3>3, <1>4
    <3> QED
      BY <3>2, <3>3
  <2>2. ASSUME NEW v \in Users', NEW w \in Users', InUse(v.session)', w.session = v.session
        PROVE  w.id = v.id
    <3>1. InUse(v.session)
      BY <2>2 DEF InUse
    <3>2. CASE v \in Users /\ w \in Users
      BY <2>2, <3>1, <3>2 DEF SessionInv, UsersAgree
    <3>3. CASE v = u \/ w = u
      BY <2>2, <3>1, <3>3, <1>4
    <3> QED
      BY <3>2, <3>3
  <2> QED
    BY <2>1, <2>2 DEF UsersAgree
<1>6. OneEntryPerSession'
  BY DEF SessionInv, OneEntryPerSession
<1> QED
  BY <1>5, <1>6 DEF SessionInv

\* Every step keeps the agreement.
LEMMA SessionStep ==
  ASSUME EntryInv, EntryInv', SessionInv, [ListNext]_listVars
  PROVE  SessionInv'
<1>1. \A x \in conversations : \E e \in conversations : x.id = e.id /\ x.session = e.session
  OBVIOUS
<1>2. \A u \in Users : \E v \in Users : u.id = v.id /\ u.session = v.session
  OBVIOUS
<1>3. ASSUME NEW n \in Nat, NEW c \in Ids \cup {0}, NEW s \in Sessions \cup {0},
             c = 0 => s = 0, Sends(n, c, s), waiting' \subseteq waiting,
             \/ s = 0
             \/ \E e \in conversations : e.id = c /\ e.session = s
             \/ \E v \in Users : v.id = c /\ v.session = s
      PROVE  SessionInv'
  <2>1. /\ \/ conversations' = conversations
           \/ conversations' = conversations \cup {Entry(nextId, 0, FALSE, 0)}
        /\ early' = early
    BY <1>3, SendsEffect
  <2>2. PICK q : IsSent(q, n, c, s)
    BY <1>3, SendsEffect
  <2>3. \A x \in conversations' : x \in conversations \/ x.session = 0
    BY <2>1 DEF Entry
  <2>4. Users' \subseteq Users \cup {q}
    BY <1>3, <2>2 DEF Users, IsSent
  <2>5. \/ q.session \in {0, nextSession}
        \/ \E e \in conversations : e.id = q.id /\ e.session = q.session
        \/ \E v \in Users : v.id = q.id /\ v.session = q.session
    BY <1>3, <2>2 DEF IsSent
  <2> QED
    BY <2>1, <2>3, <2>4, <2>5, UserJoins
<1>4. CASE SendQuery
  <2>1. /\ SessionOf(selectedId) \in Sessions \cup {0} /\ selectedId \in Ids \cup {0}
        /\ (selectedId = 0 => SessionOf(selectedId) = 0)
        /\ asks + 1 \in Nat /\ waiting' = waiting
        /\ Sends(asks + 1, selectedId, SessionOf(selectedId))
    BY <1>4, WhoSends
  <2>2. \/ SessionOf(selectedId) = 0
        \/ \E e \in conversations : e.id = selectedId /\ e.session = SessionOf(selectedId)
    BY <2>1, SessionOfView
  <2> QED
    BY <2>1, <2>2, <1>3
<1>5. CASE BeginUploads
  <2> DEFINE w == [n |-> asks + 1, id |-> selectedId, session |-> SessionOf(selectedId)]
  <2>1. /\ UNCHANGED <<conversations, queries, early>> /\ waiting' = waiting \cup {w}
    BY <1>5 DEF BeginUploads, pastVars
  <2>2. w.session = 0 \/ \E e \in conversations : e.id = w.id /\ e.session = w.session
    BY SessionOfView DEF EntryInv, PageOK
  <2> HIDE DEF w
  <2>3. Users' \subseteq Users \cup {w}
    BY <2>1 DEF Users
  <2> QED
    BY <2>1, <2>2, <2>3, UserJoins
<1>6. ASSUME NEW w \in waiting, UploadsDone(w)
      PROVE  SessionInv'
  <2>1. /\ waiting' \subseteq waiting
        /\ w.n \in Nat /\ w.id \in Ids \cup {0} /\ w.session \in Sessions \cup {0}
        /\ (w.id = 0 => w.session = 0)
    BY <1>6, WhoSends
  <2>2. CASE Sends(w.n, w.id, w.session)
    <3>1. w \in Users
      BY DEF Users
    <3> QED
      BY <2>1, <2>2, <3>1, <1>3
  <2>3. CASE UNCHANGED <<conversations, selectedId, history, queries, requestVars, nextId,
                         nextSession, pastVars>>
    <3>1. Users' \subseteq Users /\ early' = early /\ conversations' = conversations
      BY <2>1, <2>3 DEF Users, pastVars
    <3> QED
      BY <1>1, <3>1, SessionKept
  <2> QED
    BY <1>6, <2>2, <2>3 DEF UploadsDone
<1>7. ASSUME NEW q \in queries, Recorded(q)
      PROVE  SessionInv'
  <2>1. UNCHANGED <<conversations, queries, waiting, early>>
    BY <1>7 DEF Recorded, askVars, pastVars
  <2> QED
    BY <1>1, <2>1, SessionKept DEF Users
<1>8. ASSUME NEW q \in queries, Done(q)
      PROVE  SessionInv'
  <2>1. /\ queries' \subseteq queries /\ waiting' = waiting /\ early' = early /\ q \in Users
    BY <1>8 DEF Done, Users
  <2>2. \A x \in conversations' : \E e \in conversations :
            /\ x.id = e.id
            /\ x.session = IF e.id = q.id THEN q.session ELSE e.session
    BY <1>8, DoneEntries DEF Entry
  <2>3. Users' \subseteq Users
    BY <2>1 DEF Users
  <2>4. UsersAgree'
    <3>1. ASSUME NEW u \in Users', NEW x \in conversations', InUse(u.session)', x.session = u.session
          PROVE  x.id = u.id
      <4>1. PICK e \in conversations :
              x.id = e.id /\ x.session = IF e.id = q.id THEN q.session ELSE e.session
        BY <2>2
      <4>2. u \in Users /\ InUse(u.session)
        BY <2>1, <2>3, <3>1 DEF InUse
      <4>3. CASE e.id = q.id
        BY <2>1, <3>1, <4>1, <4>2, <4>3 DEF SessionInv, UsersAgree
      <4>4. CASE e.id # q.id
        BY <3>1, <4>1, <4>2, <4>4 DEF SessionInv, UsersAgree
      <4> QED
        BY <4>3, <4>4
    <3>2. ASSUME NEW u \in Users', NEW v \in Users', InUse(u.session)', v.session = u.session
          PROVE  v.id = u.id
      BY <2>1, <2>3, <3>2 DEF SessionInv, UsersAgree, InUse
    <3> QED
      BY <3>1, <3>2 DEF UsersAgree
  <2>5. OneEntryPerSession'
    <3>1. SUFFICES ASSUME NEW x \in conversations', NEW z \in conversations',
                          x.session = z.session, x.session # 0, x # z, x.session \notin early
                   PROVE  FALSE
      BY <2>1 DEF OneEntryPerSession
    <3>2. PICK e \in conversations :
            x.id = e.id /\ x.session = IF e.id = q.id THEN q.session ELSE e.session
      BY <2>2
    <3>3. PICK f \in conversations :
            z.id = f.id /\ z.session = IF f.id = q.id THEN q.session ELSE f.session
      BY <2>2
    <3>4. e # f /\ e.id # f.id
      BY <3>1, <3>2, <3>3 DEF EntryInv, EntriesOK
    <3>5. \A g \in conversations : InUse(q.session) /\ g.session = q.session => g.id = q.id
      BY <2>1 DEF SessionInv, UsersAgree
    <3>6. CASE e.id = q.id
      BY <3>1, <3>2, <3>3, <3>4, <3>5, <3>6 DEF InUse
    <3>7. CASE f.id = q.id
      BY <3>1, <3>2, <3>3, <3>4, <3>5, <3>7 DEF InUse
    <3>8. CASE e.id # q.id /\ f.id # q.id
      BY <3>1, <3>2, <3>3, <3>4, <3>8 DEF SessionInv, OneEntryPerSession
    <3> QED
      BY <3>6, <3>7, <3>8
  <2> QED
    BY <2>4, <2>5 DEF SessionInv
<1>9. ASSUME NEW q \in queries, QueryFails(q)
      PROVE  SessionInv'
  <2>1. /\ UNCHANGED <<conversations, waiting, early>> /\ queries' \subseteq queries
    BY <1>9 DEF QueryFails, pastVars
  <2>2. Users' \subseteq Users
    BY <2>1 DEF Users
  <2> QED
    BY <1>1, <2>1, <2>2, SessionKept
<1>10. ASSUME NEW l \in lookups, LookupEnds(l)
       PROVE  SessionInv'
  <2>1. UNCHANGED <<queries, waiting, early>>
    BY <1>10 DEF LookupEnds, askVars, pastVars
  <2>2. \A x \in conversations' : \E e \in conversations : x.id = e.id /\ x.session = e.session
    BY <1>10, LookupEntries
  <2> QED
    BY <1>2, <2>1, <2>2, SessionKept DEF Users
<1>11. ASSUME NEW y \in syncs, Merge(y)
       PROVE  SessionInv'
  <2> DEFINE S == NewSessions(y.answer)
  <2>1. /\ UNCHANGED <<queries, waiting>> /\ y.answer # Unserved
        /\ early' = early \cup (S \cap SessionsOf(Users))
    BY <1>11 DEF Merge, askVars, Users
  <2>2. PICK f \in [S -> nextId..(nextId' - 1)] :
          /\ \A s, t \in S : f[s] = f[t] => s = t
          /\ conversations' = conversations \cup {Entry(f[s], s, TRUE, s) : s \in S}
    BY <1>11, MergeAdds
  <2>3. S \subseteq Sessions /\ \A e \in conversations : e.session \notin S
    BY <2>1, NewSessionsFinite
  <2> HIDE DEF S
  <2>4. \A x \in conversations' : \/ x \in conversations
                                  \/ x.session \in S /\ x.id = f[x.session]
    <3>1. ASSUME NEW x \in conversations', x \notin conversations
          PROVE  x.session \in S /\ x.id = f[x.session]
      <4>1. PICK s \in S : x = Entry(f[s], s, TRUE, s)
        BY <2>2, <3>1
      <4> QED
        BY <4>1 DEF Entry
    <3> QED
      BY <3>1
  <2>5. Users' = Users /\ \A u \in Users : u.session \in SessionsOf(Users)
    BY <2>1 DEF Users, SessionsOf
  <2>6. UsersAgree'
    BY <2>1, <2>4, <2>5 DEF SessionInv, UsersAgree, InUse
  <2>7. OneEntryPerSession'
    <3>1. SUFFICES ASSUME NEW x \in conversations', NEW z \in conversations',
                          x.session = z.session, x.session # 0, x # z
                   PROVE  x.session \in early'
      BY DEF OneEntryPerSession
    <3>2. x.id # z.id
      BY <3>1 DEF EntryInv, EntriesOK
    <3>3. x \in conversations /\ z \in conversations
      BY <2>3, <2>4, <3>1, <3>2
    <3> QED
      BY <2>1, <3>1, <3>3 DEF SessionInv, OneEntryPerSession
  <2> QED
    BY <2>6, <2>7 DEF SessionInv
<1>12. ASSUME UNCHANGED <<queries, waiting, early>>, conversations' \subseteq conversations
       PROVE  SessionInv'
  BY <1>12, SessionKept DEF Users
<1>13. CASE Refresh \/ SelectEntry \/ HandleNewChat \/ UNCHANGED listVars
  BY <1>12, <1>13 DEF Refresh, SelectEntry, HandleNewChat, listVars, askVars, pastVars
<1>14. ASSUME NEW y \in syncs, ServeSync(y) \/ SyncFails(y)
       PROVE  SessionInv'
  BY <1>12, <1>14 DEF ServeSync, SyncFails, askVars, pastVars
<1>15. ASSUME NEW e \in conversations, DeleteClicked(e)
       PROVE  SessionInv'
  BY <1>12, <1>15 DEF DeleteClicked, Drop, askVars, pastVars
<1>16. ASSUME NEW d \in deletions, ServeDeletion(d) \/ DeletionFails(d) \/ Deleted(d)
       PROVE  SessionInv'
  BY <1>12, <1>16 DEF ServeDeletion, DeletionFails, Deleted, Drop, askVars, pastVars
<1> QED
  BY <1>4, <1>5, <1>6, <1>7, <1>8, <1>9, <1>10, <1>11, <1>13, <1>14, <1>15, <1>16 DEF ListNext

\* Every step keeps what a call that waits knows.
LEMMA WaitingStep ==
  ASSUME EntryInv, WaitingKnown, [ListNext]_listVars
  PROVE  WaitingKnown'
<1>1. ASSUME waiting' \subseteq waiting, missed \subseteq missed',
             \A x \in conversations' : \/ x.last = 0
                                       \/ \E e \in conversations : x.id = e.id /\ x.last = e.last
      PROVE  WaitingKnown'
  BY <1>1 DEF WaitingKnown
<1>2. \A e \in conversations : e.last = e.session /\ e.id \in Ids
  BY DEF EntryInv, EntriesOK, Entries
<1>3. ASSUME NEW n \in Nat, NEW c \in Ids \cup {0}, NEW s \in Sessions \cup {0},
             c = 0 => s = 0, Sends(n, c, s), waiting' \subseteq waiting
      PROVE  WaitingKnown'
  <2>1. /\ \/ conversations' = conversations
           \/ conversations' = conversations \cup {Entry(nextId, 0, FALSE, 0)}
        /\ missed' = missed
    BY <1>3, SendsEffect
  <2>2. \A x \in conversations' : x \in conversations \/ x.last = 0
    BY <2>1 DEF Entry
  <2> QED
    BY <1>1, <1>3, <2>1, <2>2
<1>4. CASE SendQuery
  BY <1>3, <1>4, WhoSends
<1>5. CASE BeginUploads
  <2> DEFINE w == [n |-> asks + 1, id |-> selectedId, session |-> SessionOf(selectedId)]
  <2>1. UNCHANGED <<conversations, missed>> /\ waiting' = waiting \cup {w}
    BY <1>5 DEF BeginUploads, pastVars
  <2>2. \A e \in conversations : e.id = w.id => e.last = w.session
    BY <1>2, SessionOfView DEF EntryInv, PageOK
  <2> HIDE DEF w
  <2> QED
    BY <2>1, <2>2 DEF WaitingKnown
<1>6. ASSUME NEW w \in waiting, UploadsDone(w)
      PROVE  WaitingKnown'
  <2>1. /\ waiting' \subseteq waiting
        /\ w.n \in Nat /\ w.id \in Ids \cup {0} /\ w.session \in Sessions \cup {0}
        /\ (w.id = 0 => w.session = 0)
    BY <1>6, WhoSends
  <2>2. CASE Sends(w.n, w.id, w.session)
    BY <1>3, <2>1, <2>2
  <2>3. CASE UNCHANGED <<conversations, selectedId, history, queries, requestVars, nextId,
                         nextSession, pastVars>>
    BY <1>1, <2>1, <2>3 DEF pastVars
  <2> QED
    BY <1>6, <2>2, <2>3 DEF UploadsDone
<1>7. ASSUME NEW q \in queries, Done(q)
      PROVE  WaitingKnown'
  <2>1. /\ waiting' = waiting
        /\ missed' = missed \cup {w.n : w \in {v \in waiting : v.id = q.id}}
    BY <1>7 DEF Done
  <2>2. \A x \in conversations' : x.id = q.id \/ x \in conversations
    BY <1>7, DoneEntries
  <2>3. \A w \in waiting : w.id = q.id => w.n \in missed'
    BY <2>1
  <2> QED
    BY <2>1, <2>2, <2>3 DEF WaitingKnown
<1>8. ASSUME NEW l \in lookups, LookupEnds(l)
      PROVE  WaitingKnown'
  <2>1. \A x \in conversations' : \E e \in conversations : x.id = e.id /\ x.last = e.last
    BY <1>8, LookupEntries
  <2> QED
    BY <1>1, <1>8, <2>1 DEF LookupEnds, askVars, pastVars
<1>9. ASSUME NEW y \in syncs, Merge(y)
      PROVE  WaitingKnown'
  <2> DEFINE S == NewSessions(y.answer)
  <2>1. UNCHANGED <<waiting, missed>>
    BY <1>9 DEF Merge, askVars
  <2>2. PICK f \in [S -> nextId..(nextId' - 1)] :
          conversations' = conversations \cup {Entry(f[s], s, TRUE, s) : s \in S}
    BY <1>9, MergeAdds
  <2> HIDE DEF S
  <2>3. \A s \in S : f[s] \notin Ids \cup {0}
    BY <2>2 DEF EntryInv, NumbersOK, Ids
  <2>4. \A x \in conversations' : x \in conversations \/ x.id \notin Ids \cup {0}
    BY <2>2, <2>3 DEF Entry
  <2>5. \A w \in waiting : w.id \in Ids \cup {0}
    BY DEF EntryInv, AsksOK, Waiting
  <2> QED
    BY <2>1, <2>4, <2>5 DEF WaitingKnown
<1>10. ASSUME UNCHANGED <<waiting, missed>>, conversations' \subseteq conversations
       PROVE  WaitingKnown'
  BY <1>10 DEF WaitingKnown
<1>11. CASE Refresh \/ SelectEntry \/ HandleNewChat \/ UNCHANGED listVars
  BY <1>10, <1>11 DEF Refresh, SelectEntry, HandleNewChat, listVars, askVars, pastVars
<1>12. ASSUME NEW q \in queries, Recorded(q) \/ QueryFails(q)
       PROVE  WaitingKnown'
  BY <1>10, <1>12 DEF Recorded, QueryFails, askVars, pastVars
<1>13. ASSUME NEW y \in syncs, ServeSync(y) \/ SyncFails(y)
       PROVE  WaitingKnown'
  BY <1>10, <1>13 DEF ServeSync, SyncFails, askVars, pastVars
<1>14. ASSUME NEW e \in conversations, DeleteClicked(e)
       PROVE  WaitingKnown'
  BY <1>10, <1>14 DEF DeleteClicked, Drop, askVars, pastVars
<1>15. ASSUME NEW d \in deletions, ServeDeletion(d) \/ DeletionFails(d) \/ Deleted(d)
       PROVE  WaitingKnown'
  BY <1>10, <1>15 DEF ServeDeletion, DeletionFails, Deleted, Drop, askVars, pastVars
<1> QED
  BY <1>4, <1>5, <1>6, <1>7, <1>8, <1>9, <1>11, <1>12, <1>13, <1>14, <1>15 DEF ListNext

-----------------------------------------------------------------------------
(* Deletions: what the list, the loads and the queries can still bring     *)
(* back.                                                                   *)

\* What a step does that brings no session back: what it adds to the list,
\* to the history, to an answer or to the queries was in one of them.
Source(s) ==
    \/ s = 0
    \/ \E y \in syncs : s \in y.answer
    \/ \E q \in queries : q.begun /\ s = q.session
NothingRevived ==
    /\ \A x \in conversations' : \/ \E e \in conversations : x.id = e.id /\ x.session = e.session
                                 \/ Source(x.session)
    /\ \A s \in history' : s \in history \/ Source(s)
    /\ \A y \in syncs' : \A s \in y.answer : s \in history \/ Source(s)
    /\ \A q \in queries' : q.begun => q.session \in history \cup {nextSession} \/ Source(q.session)
    /\ \A d \in deletions' : d.done => d \in deletions
    /\ gone' = gone /\ exposed \subseteq exposed' /\ early \subseteq early'

LEMMA DeadInit ==
  ASSUME ListInit
  PROVE  DeadInv
BY DEF ListInit, DeadInv, DeadUnreachable, DeadAlone, DeletedStaysAway, Dead

\* A dead session is one there was, and out of reach unless it is exposed.
LEMMA DeadSessions ==
  ASSUME EntryInv, DeadInv, NEW s \in Dead
  PROVE  /\ s # 0 /\ s # nextSession
         /\ s \notin exposed => s \notin history /\ ~Source(s)
<1>1. s \in Sessions
  BY DEF EntryInv, PageOK, RequestsOK, Deletions, Dead
<1>2. s # 0 /\ s # nextSession
  BY <1>1 DEF EntryInv, NumbersOK, Sessions
<1>3. s \notin exposed => s \notin history /\ ~Source(s)
  BY <1>2 DEF DeadInv, DeadUnreachable, Source
<1> QED
  BY <1>2, <1>3

\* A step that brings nothing back leaves the dead where they are.
LEMMA DeadKept ==
  ASSUME EntryInv, DeadInv, NothingRevived
  PROVE  DeadInv'
<1>1. Dead' \subseteq Dead
  BY DEF NothingRevived, Dead
<1>2. exposed \subseteq exposed' /\ early \subseteq early' /\ gone' = gone
  BY DEF NothingRevived
<1>3. DeadUnreachable'
  <2>1. SUFFICES ASSUME NEW s \in Dead', s \notin exposed'
                 PROVE  /\ s \notin history' /\ \A y \in syncs' : s \notin y.answer
                        /\ \A q \in queries' : q.session = s => ~q.begun
    BY DEF DeadUnreachable
  <2>2. s \notin history /\ ~Source(s) /\ s # nextSession
    BY <1>1, <1>2, <2>1, DeadSessions
  <2> QED
    BY <2>2 DEF NothingRevived
<1>4. ASSUME NEW x \in conversations', x.session \in Dead, x.session \notin exposed
      PROVE  \E e \in conversations : x.id = e.id /\ x.session = e.session
  BY <1>4, DeadSessions DEF NothingRevived
<1>5. DeadAlone'
  <2>1. SUFFICES ASSUME NEW d \in deletions', NEW x \in conversations', d.done,
                        x.session = d.session, x.session \notin exposed' \cup early'
                 PROVE  x.id = d.id
    BY DEF DeadAlone
  <2>2. d \in deletions /\ x.session \in Dead
    BY <2>1 DEF NothingRevived, Dead
  <2>3. PICK e \in conversations : x.id = e.id /\ x.session = e.session
    BY <1>2, <1>4, <2>1, <2>2
  <2> QED
    BY <1>2, <2>1, <2>2, <2>3 DEF DeadInv, DeadAlone
<1>6. DeletedStaysAway'
  <2>1. SUFFICES ASSUME NEW x \in conversations', x.session \in gone,
                        x.session \notin exposed' \cup early'
                 PROVE  FALSE
    BY <1>2 DEF DeletedStaysAway
  <2>2. x.session \in Dead
    BY <2>1 DEF Dead
  <2>3. PICK e \in conversations : x.session = e.session
    BY <1>2, <1>4, <2>1, <2>2
  <2> QED
    BY <1>2, <2>1, <2>3 DEF DeadInv, DeletedStaysAway
<1> QED
  BY <1>3, <1>5, <1>6 DEF DeadInv

\* Every step keeps what is dead out of reach.
LEMMA DeadStep ==
  ASSUME EntryInv, EntryInv', DeadInv, [ListNext]_listVars
  PROVE  DeadInv'
<1>1. ASSUME conversations' \subseteq conversations, history' = history, syncs' \subseteq syncs,
             queries' \subseteq queries, \A d \in deletions' : d.done => d \in deletions,
             UNCHANGED <<exposed, early, gone>>
      PROVE  DeadInv'
  <2>1. NothingRevived
    BY <1>1 DEF NothingRevived, Source
  <2> QED
    BY <2>1, DeadKept
<1>2. ASSUME NEW n \in Nat, NEW c \in Ids \cup {0}, NEW s \in Sessions \cup {0},
             c = 0 => s = 0, Sends(n, c, s)
      PROVE  DeadInv'
  <2>1. /\ \/ conversations' = conversations
           \/ conversations' = conversations \cup {Entry(nextId, 0, FALSE, 0)}
        /\ UNCHANGED <<history, syncs, deletions, early, exposed, gone>>
    BY <1>2, SendsEffect
  <2>2. PICK q : IsSent(q, n, c, s)
    BY <1>2, SendsEffect
  <2>3. \A x \in conversations' : x \in conversations \/ x.session = 0
    BY <2>1 DEF Entry
  <2>4. \A p \in queries' : p.begun => p.session \in history \cup {nextSession} \/ Source(p.session)
    BY <2>2 DEF IsSent, Source
  <2>5. NothingRevived
    BY <2>1, <2>3, <2>4 DEF NothingRevived, Source
  <2> QED
    BY <2>5, DeadKept
<1>3. CASE SendQuery
  BY <1>2, <1>3, WhoSends
<1>4. CASE BeginUploads
  BY <1>1, <1>4 DEF BeginUploads, requestVars, pastVars
<1>5. ASSUME NEW w \in waiting, UploadsDone(w)
      PROVE  DeadInv'
  <2>1. CASE Sends(w.n, w.id, w.session)
    BY <1>2, <1>5, <2>1, WhoSends
  <2>2. CASE UNCHANGED <<conversations, selectedId, history, queries, requestVars, nextId,
                         nextSession, pastVars>>
    BY <1>1, <2>2 DEF requestVars, pastVars
  <2> QED
    BY <1>5, <2>1, <2>2 DEF UploadsDone
<1>6. ASSUME NEW q \in queries, Recorded(q)
      PROVE  DeadInv'
  <2>1. /\ UNCHANGED <<conversations, queries, syncs, deletions, early, exposed, gone>>
        /\ q.begun /\ history' = history \cup {q.session}
    BY <1>6 DEF Recorded, askVars, requestVars, pastVars
  <2>2. NothingRevived
    BY <2>1 DEF NothingRevived, Source
  <2> QED
    BY <2>2, DeadKept
<1>7. ASSUME NEW q \in queries, Done(q)
      PROVE  DeadInv'
  <2>1. /\ UNCHANGED <<history, syncs, deletions, early, exposed, gone>>
        /\ q.begun /\ queries' \subseteq queries
    BY <1>7 DEF Done
  <2>2. \A x \in conversations' : x \in conversations \/ x.session = q.session
    BY <1>7, DoneEntries DEF Entry
  <2>3. NothingRevived
    BY <2>1, <2>2 DEF NothingRevived, Source
  <2> QED
    BY <2>3, DeadKept
<1>8. ASSUME NEW l \in lookups, LookupEnds(l)
      PROVE  DeadInv'
  <2>1. UNCHANGED <<history, queries, syncs, deletions, early, exposed, gone>>
    BY <1>8 DEF LookupEnds, askVars, pastVars
  <2>2. \A x \in conversations' : \E e \in conversations : x.id = e.id /\ x.session = e.session
    BY <1>8, LookupEntries
  <2>3. NothingRevived
    BY <2>1, <2>2 DEF NothingRevived, Source
  <2> QED
    BY <2>3, DeadKept
<1>9. CASE Refresh
  <2>1. /\ UNCHANGED <<conversations, history, queries, deletions, early, exposed, gone>>
        /\ syncs' = syncs \cup {[n |-> asks + 1, answer |-> {0}]}
    BY <1>9 DEF Refresh, Unserved, askVars, pastVars
  <2>2. NothingRevived
    BY <2>1 DEF NothingRevived, Source
  <2> QED
    BY <2>2, DeadKept
<1>10. ASSUME NEW y \in syncs, ServeSync(y)
       PROVE  DeadInv'
  <2>1. /\ UNCHANGED <<conversations, history, queries, deletions, early, exposed, gone>>
        /\ syncs' = (syncs \ {y}) \cup {[y EXCEPT !.answer = history]}
    BY <1>10 DEF ServeSync, askVars, pastVars
  <2>2. [y EXCEPT !.answer = history].answer = history
    BY DEF EntryInv, RequestsOK
  <2>3. NothingRevived
    BY <2>1, <2>2 DEF NothingRevived, Source
  <2> QED
    BY <2>3, DeadKept
<1>11. ASSUME NEW y \in syncs, Merge(y)
       PROVE  DeadInv'
  <2> DEFINE S == NewSessions(y.answer)
  <2>1. /\ UNCHANGED <<history, queries, deletions, exposed, gone>>
        /\ early \subseteq early' /\ syncs' = syncs \ {y}
    BY <1>11 DEF Merge, askVars
  <2>2. PICK f \in [S -> nextId..(nextId' - 1)] :
          conversations' = conversations \cup {Entry(f[s], s, TRUE, s) : s \in S}
    BY <1>11, MergeAdds
  <2>3. S \subseteq y.answer
    BY DEF NewSessions
  <2> HIDE DEF S
  <2>4. \A x \in conversations' : x \in conversations \/ x.session \in y.answer
    BY <2>2, <2>3 DEF Entry
  <2>5. NothingRevived
    BY <2>1, <2>4 DEF NothingRevived, Source
  <2> QED
    BY <2>5, DeadKept
<1>12. CASE SelectEntry \/ HandleNewChat \/ UNCHANGED listVars
  BY <1>1, <1>12 DEF SelectEntry, HandleNewChat, listVars, askVars, requestVars, pastVars
<1>13. ASSUME NEW q \in queries, QueryFails(q)
       PROVE  DeadInv'
  BY <1>1, <1>13 DEF QueryFails, requestVars, pastVars
<1>14. ASSUME NEW y \in syncs, SyncFails(y)
       PROVE  DeadInv'
  BY <1>1, <1>14 DEF SyncFails, askVars, pastVars
<1>15. ASSUME NEW e \in conversations, DeleteClicked(e)
       PROVE  DeadInv'
  <2>1. UNCHANGED <<history, queries, syncs, early, exposed, gone>>
    BY <1>15 DEF DeleteClicked, askVars, pastVars
  <2>2. conversations' \subseteq conversations /\ \A d \in deletions' : d.done => d \in deletions
    <3>1. CASE e.session # 0 /\ e.dir
      BY <1>15, <3>1 DEF DeleteClicked
    <3>2. CASE ~(e.session # 0 /\ e.dir)
      BY <1>15, <3>2 DEF DeleteClicked, Drop
    <3> QED
      BY <3>1, <3>2
  <2> QED
    BY <1>1, <2>1, <2>2
<1>16. ASSUME NEW d \in deletions, ServeDeletion(d)
       PROVE  DeadInv'
  <2> DEFINE served == [d EXCEPT !.done = TRUE]
  <2>1. /\ UNCHANGED <<conversations, queries, syncs, early, gone>>
        /\ deletions' = (deletions \ {d}) \cup {served}
        /\ history' = history \ {d.session} /\ exposed \subseteq exposed'
        /\ d.session \notin exposed' =>
              /\ d.session \notin SessionsOf(queries)
              /\ \A y \in syncs : d.session \notin y.answer
              /\ \A e \in conversations : e.session = d.session => e.id = d.id
    BY <1>16 DEF ServeDeletion, askVars
  <2>2. served.id = d.id /\ served.session = d.session
    BY DEF EntryInv, RequestsOK, Deletions
  <2> HIDE DEF served
  <2>3. Dead' \subseteq Dead \cup {d.session}
    BY <2>1, <2>2 DEF Dead
  <2>4. DeadUnreachable'
    <3>1. SUFFICES ASSUME NEW s \in Dead', s \notin exposed'
                   PROVE  /\ s \notin history' /\ \A y \in syncs' : s \notin y.answer
                          /\ \A q \in queries' : q.session = s => ~q.begun
      BY DEF DeadUnreachable
    <3>2. CASE s = d.session
      BY <2>1, <3>1, <3>2 DEF SessionsOf
    <3>3. CASE s # d.session
      BY <2>1, <2>3, <3>1, <3>3 DEF DeadInv, DeadUnreachable
    <3> QED
      BY <3>2, <3>3
  <2>5. DeadAlone'
    <3>1. SUFFICES ASSUME NEW c \in deletions', NEW e \in conversations', c.done,
                          e.session = c.session, e.session \notin exposed' \cup early'
                   PROVE  e.id = c.id
      BY DEF DeadAlone
    <3>2. CASE c \in deletions
      BY <2>1, <3>1, <3>2 DEF DeadInv, DeadAlone
    <3>3. CASE c = served
      BY <2>1, <2>2, <3>1, <3>3
    <3> QED
      BY <2>1, <3>2, <3>3
  <2>6. DeletedStaysAway'
    BY <2>1 DEF DeadInv, DeletedStaysAway
  <2> QED
    BY <2>4, <2>5, <2>6 DEF DeadInv
<1>17. ASSUME NEW d \in deletions, DeletionFails(d)
       PROVE  DeadInv'
  BY <1>1, <1>17 DEF DeletionFails, askVars, pastVars
<1>18. ASSUME NEW d \in deletions, Deleted(d)
       PROVE  DeadInv'
  <2>1. /\ UNCHANGED <<history, queries, syncs, early, exposed>> /\ d.done
        /\ deletions' = deletions \ {d} /\ gone' = gone \cup {d.session}
        /\ conversations' = {e \in conversations : e.id # d.id}
    BY <1>18 DEF Deleted, Drop, askVars
  <2>2. Dead' \subseteq Dead
    BY <2>1 DEF Dead
  <2>3. DeadUnreachable'
    BY <2>1, <2>2 DEF DeadInv, DeadUnreachable
  <2>4. DeadAlone'
    BY <2>1 DEF DeadInv, DeadAlone
  <2>5. DeletedStaysAway'
    BY <2>1 DEF DeadInv, DeadAlone, DeletedStaysAway
  <2> QED
    BY <2>3, <2>4, <2>5 DEF DeadInv
<1> QED
  BY <1>3, <1>4, <1>5, <1>6, <1>7, <1>8, <1>9, <1>10, <1>11, <1>12, <1>13, <1>14, <1>15,
     <1>16, <1>17, <1>18 DEF ListNext

-----------------------------------------------------------------------------
\* The four hold together in every state of the list.
ListInv == EntryInv /\ SessionInv /\ WaitingKnown /\ DeadInv
LEMMA ListInvariant == ListSpec => []ListInv
<1>1. ListInit => ListInv
  BY EntryInit, SessionInit, DeadInit DEF ListInv
<1>2. ListInv /\ [ListNext]_listVars => ListInv'
  BY EntryStep, SessionStep, WaitingStep, DeadStep DEF ListInv
<1> QED
  BY <1>1, <1>2, PTL DEF ListSpec

\* Entries have ids of their own and sessions the server gave out, and the
\* user asks no more than MaxAsks times.
THEOREM ListTypeCorrect == ListSpec => []ListTypeOK
<1>1. ListInv => ListTypeOK
  <2> SUFFICES ASSUME EntryInv PROVE ListTypeOK
    BY DEF ListInv
  <2>1. \A e \in conversations : e.id \in Ids /\ e.session \in Sessions \cup {0}
    BY DEF EntryInv, EntriesOK, Entries
  <2>2. \A i \in Sessions \cup {0} : i \in 0..(nextSession - 1)
    BY DEF EntryInv, NumbersOK, Sessions
  <2>3. \A i \in Ids \cup {0} : i \in 0..(nextId - 1)
    BY DEF EntryInv, NumbersOK, Ids
  <2> QED
    BY <2>1, <2>2, <2>3 DEF EntryInv, NumbersOK, EntriesOK, PageOK, Ids, Sessions, ListTypeOK
<1> QED
  BY <1>1, ListInvariant, PTL

\* A session has one entry, but for one that a load of the history brought
\* while a query or a call that waited for its uploads used the session.
THEOREM OneEntryPerSessionHolds == ListSpec => []OneEntryPerSession
<1>1. ListInv => OneEntryPerSession
  BY DEF ListInv, SessionInv
<1> QED
  BY <1>1, ListInvariant, PTL

\* A deleted session does not come back to the list, unless a query of its
\* own or an older load was under way, or it had two entries.
THEOREM DeletedStaysAwayHolds == ListSpec => []DeletedStaysAway
<1>1. ListInv => DeletedStaysAway
  BY DEF ListInv, DeadInv
<1> QED
  BY <1>1, ListInvariant, PTL

\* A query sent at once, or after its uploads, continues the session of its
\* conversation's last answer, or that answer came during the uploads.
THEOREM FollowUpsContinueHolds == ListSpec => FollowUpsContinue
<1> DEFINE Continues(q) == \A e \in conversations :
              e.id = q.id /\ e.last # 0 => q.session = e.last \/ q.n \in missed
<1>1. ASSUME EntryInv, NEW n \in Nat, NEW c \in Ids \cup {0}, NEW s \in Sessions \cup {0},
             c = 0 => s = 0, Sends(n, c, s), NEW q \in queries' \ queries,
             \A e \in conversations : e.id = c /\ e.last # 0 => s = e.last \/ n \in missed
      PROVE  Continues(q)
  <2>1. PICK p : IsSent(p, n, c, s)
    BY <1>1, SendsEffect
  <2>2. q = p
    BY <1>1, <2>1 DEF IsSent
  <2>3. \A e \in conversations : e.id # nextId /\ e.last \in Sessions \cup {0}
    BY <1>1 DEF EntryInv, EntriesOK, Entries, Ids, NumbersOK
  <2>4. CASE s # 0
    BY <1>1, <2>1, <2>2, <2>4 DEF IsSent
  <2>5. CASE s = 0
    BY <1>1, <2>1, <2>2, <2>3, <2>5 DEF IsSent
  <2> QED
    BY <2>4, <2>5
<1>2. ASSUME ListInv, [ListNext]_listVars, NEW q \in queries' \ queries
      PROVE  Continues(q)
  <2>1. \/ SendQuery
        \/ \E w \in waiting : UploadsDone(w)
    BY <1>2 DEF ListNext, BeginUploads, Recorded, Done, QueryFails, LookupEnds, Refresh, ServeSync,
        Merge, SyncFails, SelectEntry, HandleNewChat, DeleteClicked, ServeDeletion, DeletionFails,
        Deleted, listVars, askVars
  <2>2. CASE SendQuery
    <3>1. \A e \in conversations : e.id = selectedId => SessionOf(selectedId) = e.last
      BY <1>2, SessionOfView DEF ListInv, EntryInv, EntriesOK, PageOK
    <3> HIDE DEF Continues
    <3> QED
      BY <1>1, <1>2, <2>2, <3>1, WhoSends DEF ListInv
  <2>3. CASE \E w \in waiting : UploadsDone(w)
    <3>1. PICK w \in waiting : UploadsDone(w)
      BY <2>3
    <3>2. Sends(w.n, w.id, w.session)
      BY <1>2, <3>1 DEF UploadsDone
    <3>3. \A e \in conversations : e.id = w.id /\ e.last # 0 => w.session = e.last \/ w.n \in missed
      BY <1>2 DEF ListInv, WaitingKnown
    <3> HIDE DEF Continues
    <3> QED
      BY <1>1, <1>2, <3>1, <3>2, <3>3, WhoSends DEF ListInv
  <2> QED
    BY <2>1, <2>2, <2>3
<1>3. ListInv /\ [ListNext]_listVars =>
        [\A q \in queries' \ queries : \A e \in conversations :
            e.id = q.id /\ e.last # 0 => q.session = e.last \/ q.n \in missed]_listVars
  BY <1>2
<1> QED
  BY <1>3, ListInvariant, PTL DEF ListSpec, FollowUpsContinue
================================================================================
