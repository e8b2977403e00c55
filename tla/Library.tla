-------------------------------- MODULE Library ---------------------------------
(***************************************************************************)
(* The library page (frontend/src/components/library/LibraryWorkspace.tsx) *)
(* over the Next.js routes that hold the admin key                         *)
(* (frontend/src/app/api/documents): batches of files that are uploaded    *)
(* one after the other, each followed by a reload of the list, deletions   *)
(* that patch the list in place, and reloads that answer late.             *)
(*                                                                         *)
(* A file has the number of the document it becomes.  `dragging`, the      *)
(* filter and the expanded card are the browser's own and touch none of    *)
(* this.                                                                   *)
(***************************************************************************)
EXTENDS Integers, Sequences, FiniteSets

CONSTANTS
    Batches,    \* Batches[b]: the files of the b-th drop or selection
    Contents,   \* Contents[d]: the content of document d; equal ones are duplicates
    TooLarge,   \* files over the upload limit
    Initially   \* the documents there are before

Documents == DOMAIN Contents
BatchIds == DOMAIN Batches
\* Who calls `load`: the page when it opens (0), and each batch.
Loaders == {0} \cup BatchIds

VARIABLES
    \* the component's state
    known,       \* whether `library` is set
    listing,     \* library.documents
    totalShown,  \* library.total_documents
    loading, unreachable,
    job,         \* job[b][n]: the line of a file; "none" when there is none
    readTimers,  \* pending timers that clear the finished lines
    \* its calls
    ingest,      \* [at, file]: where the loop of a batch is
    list,        \* a loader's GET: "no", "asked", or the documents it answers
    removal,     \* removal[d]: "no", "asked", "gone" once the server did it
    \* the server
    indexed,
    overtaken    \* history: the list on the screen came without a document
                 \* whose deletion was still to be answered

libraryVars == <<known, listing, totalShown, loading, unreachable, job, readTimers,
                 ingest, list, removal, indexed, overtaken>>
viewVars == <<known, listing, totalShown, loading, unreachable, overtaken>>

JobStates == {"none", "uploading", "done", "error"}
FileSlots == UNION {DOMAIN Batches[b] : b \in BatchIds}

LibraryTypeOK ==
    /\ {known, loading, unreachable, overtaken} \subseteq BOOLEAN
    /\ {listing, indexed} \subseteq SUBSET Documents
    /\ totalShown \in -Cardinality(Documents)..Cardinality(Documents)
    /\ job \in [BatchIds -> [FileSlots -> JobStates]]
    /\ readTimers \in 0..Len(Batches)
    /\ \A b \in BatchIds : /\ ingest[b].at \in {"off", "sent", "stored", "list", "over"}
                           /\ ingest[b].file \in 0..(Len(Batches[b]) + 1)
    /\ \A o \in Loaders :
           list[o] \in {[at |-> a, docs |-> {}] : a \in {"no", "asked"}}
                       \cup [at : {"read"}, docs : SUBSET Documents]
    /\ removal \in [Documents -> {"no", "asked", "gone"}]

NotAsked == [at |-> "no", docs |-> {}]
Asked == [at |-> "asked", docs |-> {}]

LibraryInit ==
    /\ known = FALSE
    /\ listing = {}
    /\ totalShown = 0
    /\ loading = TRUE
    /\ unreachable = FALSE
    /\ job = [b \in BatchIds |-> [n \in FileSlots |-> "none"]]
    /\ readTimers = 0
    /\ ingest = [b \in BatchIds |-> [at |-> "off", file |-> 0]]
    /\ list = [o \in Loaders |-> IF o = 0 THEN Asked ELSE NotAsked]
    /\ removal = [d \in Documents |-> "no"]
    /\ indexed = Initially
    /\ overtaken = FALSE

-----------------------------------------------------------------------------
\* What the page draws.

\* The tile "Documents", and the count beside the filter.
DocumentsTile == totalShown
CountLine == Cardinality(listing)

\* The list: skeletons, cards, or "The knowledge base is empty", which is
\* also what a list that could not be read looks like.
DocumentList == IF loading THEN "skeletons" ELSE IF listing = {} THEN "empty" ELSE "cards"

\* The line of a file: spinner, tick or cross.
JobLine(b, n) ==
    CASE job[b][n] = "uploading" -> "spinner"
      [] job[b][n] = "done" -> "tick"
      [] job[b][n] = "error" -> "cross"
      [] OTHER -> "nothing"

-----------------------------------------------------------------------------
\* load.

Ask(o) == list' = [list EXCEPT ![o] = Asked]

\* GET /api/documents
ServeList(o) ==
    /\ list[o].at = "asked"
    /\ list' = [list EXCEPT ![o] = [at |-> "read", docs |-> indexed]]
    /\ UNCHANGED <<viewVars, job, readTimers, ingest, removal, indexed>>

\* `setLibrary(await listDocuments())`, or its catch clause, and finally.
ListShown(o) ==
    /\ list[o].at = "read"
    /\ known' = TRUE
    /\ listing' = list[o].docs
    /\ totalShown' = Cardinality(list[o].docs)
    /\ overtaken' = (\E d \in Documents : removal[d] # "no" /\ d \notin list[o].docs)
    /\ unreachable' = FALSE

ListFails(o) ==
    /\ list[o].at # "no"
    /\ unreachable' \in {unreachable, TRUE}
    /\ UNCHANGED <<known, listing, totalShown, overtaken>>

LoadEnds(o) ==
    /\ ListShown(o) \/ ListFails(o)
    /\ loading' = FALSE

FirstLoadEnds ==
    /\ LoadEnds(0)
    /\ list' = [list EXCEPT ![0] = NotAsked]
    /\ UNCHANGED <<job, readTimers, ingest, removal, indexed>>

-----------------------------------------------------------------------------
\* ingest.

\* The next file that is small enough, from file n of the batch on.
NextFile(b, n) ==
    LET fits == {k \in n..Len(Batches[b]) : Batches[b][k] \notin TooLarge}
    IN  IF fits = {} THEN Len(Batches[b]) + 1 ELSE CHOOSE k \in fits : \A j \in fits : k <= j

\* The loop goes on from file n: files over the limit fail on the spot, the
\* next one is sent, and after the last one the timer is set.
GoOn(b, n, lines) ==
    LET next == NextFile(b, n)
        ended == next > Len(Batches[b])
    IN  /\ job' = [job EXCEPT ![b] = [k \in FileSlots |->
                       CASE k \in n..(next - 1) -> "error"
                         [] k = next /\ ~ended -> "uploading"
                         [] OTHER -> lines[k]]]
        /\ ingest' = [ingest EXCEPT ![b] = [at |-> IF ended THEN "over" ELSE "sent", file |-> next]]
        /\ readTimers' = IF ended THEN readTimers + 1 ELSE readTimers

\* Files are dropped or selected, while an earlier batch may still run.
DropFiles(b) ==
    /\ ingest[b].at = "off"
    /\ GoOn(b, 1, job[b])
    /\ UNCHANGED <<viewVars, list, removal, indexed>>

\* POST /api/documents: the API keeps one document of each content.
ServeUpload(b) ==
    /\ ingest[b].at = "sent"
    /\ LET d == Batches[b][ingest[b].file]
       IN  indexed' = IF \E e \in indexed : Contents[e] = Contents[d]
                      THEN indexed ELSE indexed \cup {d}
    /\ ingest' = [ingest EXCEPT ![b].at = "stored"]
    /\ UNCHANGED <<viewVars, job, readTimers, list, removal>>

\* The answer: the line is ticked, and the list is loaded before the loop
\* goes on.
UploadLands(b) ==
    /\ ingest[b].at = "stored"
    /\ job' = [job EXCEPT ![b][ingest[b].file] = "done"]
    /\ ingest' = [ingest EXCEPT ![b].at = "list"]
    /\ Ask(b)
    /\ UNCHANGED <<viewVars, readTimers, removal, indexed>>

\* Refused, or its answer was lost, also after the document was stored.
UploadFails(b) ==
    /\ ingest[b].at \in {"sent", "stored"}
    /\ GoOn(b, ingest[b].file + 1, [job[b] EXCEPT ![ingest[b].file] = "error"])
    /\ UNCHANGED <<viewVars, list, removal, indexed>>

BatchLoadEnds(b) ==
    /\ ingest[b].at = "list"
    /\ LoadEnds(b)
    /\ list' = [list EXCEPT ![b] = NotAsked]
    /\ GoOn(b, ingest[b].file + 1, job[b])
    /\ UNCHANGED <<removal, indexed>>

\* The timer of one batch clears the finished lines of every batch.
ReadTimer ==
    /\ readTimers > 0
    /\ readTimers' = readTimers - 1
    /\ job' = [b \in BatchIds |-> [n \in FileSlots |->
                  IF job[b][n] = "uploading" THEN "uploading" ELSE "none"]]
    /\ UNCHANGED <<viewVars, ingest, list, removal, indexed>>

-----------------------------------------------------------------------------
\* remove.

ClickDelete(d) ==
    /\ DocumentList = "cards"
    /\ d \in listing
    /\ removal[d] = "no"
    /\ removal' = [removal EXCEPT ![d] = "asked"]
    /\ UNCHANGED <<viewVars, job, readTimers, ingest, list, indexed>>

\* DELETE /api/documents/{id}
ServeDelete(d) ==
    /\ removal[d] = "asked"
    /\ d \in indexed
    /\ indexed' = indexed \ {d}
    /\ removal' = [removal EXCEPT ![d] = "gone"]
    /\ UNCHANGED <<viewVars, job, readTimers, ingest, list>>

\* Slip: the list is patched and the total is not.
DeleteLandsUncounted(d) ==
    /\ removal[d] = "gone"
    /\ removal' = [removal EXCEPT ![d] = "no"]
    /\ listing' = listing \ {d}
    /\ UNCHANGED <<known, totalShown, loading, unreachable, overtaken, job, readTimers, ingest,
                   list, indexed>>

\* The list is patched: one document less, whether it was still there or not.
DeleteLands(d) ==
    /\ removal[d] = "gone"
    /\ removal' = [removal EXCEPT ![d] = "no"]
    /\ IF known
       THEN listing' = listing \ {d} /\ totalShown' = totalShown - 1
       ELSE UNCHANGED <<listing, totalShown>>
    /\ UNCHANGED <<known, loading, unreachable, overtaken, job, readTimers, ingest, list,
                   indexed>>

DeleteFails(d) ==
    /\ removal[d] # "no"
    /\ removal' = [removal EXCEPT ![d] = "no"]
    /\ UNCHANGED <<viewVars, job, readTimers, ingest, list, indexed>>

LibraryNext ==
    \/ FirstLoadEnds
    \/ \E o \in Loaders : ServeList(o)
    \/ \E b \in BatchIds :
           DropFiles(b) \/ ServeUpload(b) \/ UploadLands(b) \/ UploadFails(b) \/ BatchLoadEnds(b)
    \/ ReadTimer
    \/ \E d \in Documents : ClickDelete(d) \/ ServeDelete(d) \/ DeleteLands(d) \/ DeleteFails(d)

LibrarySpec == LibraryInit /\ [][LibraryNext]_libraryVars

-----------------------------------------------------------------------------
(* The tile counts the list under it: however uploads, deletions and       *)
(* reloads overlap, the two figures of the page agree, except after a      *)
(* reload that came without a document whose deletion was still to be      *)
(* answered, which then counts it off a second time; the next reload       *)
(* mends that.                                                             *)
TileCountsTheList == ~overtaken => DocumentsTile = CountLine

(* A line that spins is the upload of that very file, and a file that is   *)
(* being uploaded has its spinner: neither a failed upload, nor one file   *)
(* that is too large, nor the timer of another batch loses it.             *)
SpinnersAreUploads ==
    \A b \in BatchIds, n \in FileSlots :
        JobLine(b, n) = "spinner"
            <=> ingest[b].at \in {"sent", "stored"} /\ ingest[b].file = n

-----------------------------------------------------------------------------
(* Why they hold.  A document whose deletion is under way is in the list   *)
(* unless a reload came without it, so that taking it off the list takes   *)
(* one off the count; and a list with a document in it was loaded.         *)
ViewInv ==
    /\ totalShown \in Int /\ IsFiniteSet(listing) /\ IsFiniteSet(indexed)
    /\ DOMAIN list = Loaders /\ \A o \in Loaders : IsFiniteSet(list[o].docs)
    /\ removal \in [Documents -> {"no", "asked", "gone"}]
    /\ listing # {} => known
    /\ ~overtaken => /\ totalShown = Cardinality(listing)
                     /\ \A d \in Documents : removal[d] # "no" => d \in listing

JobsInv ==
    /\ job \in [BatchIds -> [FileSlots -> JobStates]]
    /\ ingest \in [BatchIds -> [at : {"off", "sent", "stored", "list", "over"}, file : Int]]
    /\ SpinnersAreUploads

LibraryInv == ViewInv /\ JobsInv
=============================================================================
