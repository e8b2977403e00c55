---------------------------- MODULE CorpusProofs -----------------------------
(***************************************************************************)
(* The knowledge base for any documents, uploads, questions and number of  *)
(* concurrent calls, any size of the cache and any number of restarts: the *)
(* two stores agree up to the calls in flight and the crashes, and the     *)
(* cache serves nothing stale unless a question overlapped with a change.  *)
(***************************************************************************)
EXTENDS Corpus, FiniteSetTheorems, TLAPS

USE DEF In

-----------------------------------------------------------------------------
\* The dictionary of answers.

\* Restriction to some keys keeps the entries and the bound.
LEMMA PurgedIsCache ==
    ASSUME TypeOK, NEW kept \in SUBSET DOMAIN cache
    PROVE  LET purged == Restrict(cache, kept)
           IN  /\ DOMAIN purged = kept /\ kept \subseteq Questions
               /\ purged \in [kept -> Entry]
               /\ IsFiniteSet(kept) /\ Cardinality(kept) <= MaxEntries
<1>1. IsFiniteSet(kept) /\ Cardinality(kept) <= Cardinality(DOMAIN cache)
  BY FS_Subset DEF TypeOK
<1>2. Cardinality(kept) \in Nat /\ Cardinality(DOMAIN cache) \in Nat
  BY <1>1, FS_CardinalityType DEF TypeOK
<1>3. Restrict(cache, kept) = [q \in kept |-> cache[q]]
  BY DEF Restrict
<1> QED
  BY <1>1, <1>2, <1>3, CorpusAssumption DEF TypeOK

\* At most one key comes, and one goes when there would be too many.
LEMMA StoredFits ==
    ASSUME TypeOK, NEW j \in Jobs, question[j] \in Questions,
           NEW gone,
           \/ Cardinality(KeysWith(j)) <= MaxEntries /\ gone = {}
           \/ \E oldest \in KeysWith(j) : gone = {oldest}
    PROVE  /\ KeysWith(j) \ gone \subseteq Questions
           /\ IsFiniteSet(KeysWith(j) \ gone)
           /\ Cardinality(KeysWith(j) \ gone) <= MaxEntries
<1>1. /\ IsFiniteSet(KeysWith(j))
      /\ Cardinality(KeysWith(j)) \in Nat
      /\ Cardinality(KeysWith(j)) <= MaxEntries + 1
  <2>1. /\ IsFiniteSet(DOMAIN cache) /\ Cardinality(DOMAIN cache) <= MaxEntries
        /\ Cardinality(DOMAIN cache) \in Nat
    BY FS_CardinalityType DEF TypeOK
  <2>2. /\ IsFiniteSet(KeysWith(j))
        /\ Cardinality(KeysWith(j)) = IF question[j] \in DOMAIN cache
                                      THEN Cardinality(DOMAIN cache)
                                      ELSE Cardinality(DOMAIN cache) + 1
    BY <2>1, FS_AddElement DEF KeysWith
  <2> QED
    BY <2>1, <2>2, CorpusAssumption
<1>2. KeysWith(j) \subseteq Questions
  BY DEF KeysWith, TypeOK
<1>3. CASE gone = {} /\ Cardinality(KeysWith(j)) <= MaxEntries
  <2>1. KeysWith(j) \ gone = KeysWith(j)
    BY <1>3
  <2> QED
    BY <1>1, <1>2, <1>3, <2>1
<1>4. ASSUME NEW oldest \in KeysWith(j), gone = {oldest}
      PROVE  /\ IsFiniteSet(KeysWith(j) \ gone)
             /\ Cardinality(KeysWith(j) \ gone) <= MaxEntries
  <2>1. /\ IsFiniteSet(KeysWith(j) \ {oldest})
        /\ Cardinality(KeysWith(j) \ {oldest}) = Cardinality(KeysWith(j)) - 1
    BY <1>1, <1>4, FS_RemoveElement
  <2> QED
    BY <1>1, <1>4, <2>1, CorpusAssumption
<1> QED
  BY <1>2, <1>3, <1>4

\* The entry that is being stored is not the one that is evicted.
LEMMA NewestStays ==
    ASSUME NEW j \in Jobs, NEW oldest \in KeysWith(j),
           ~(Cardinality(KeysWith(j)) <= MaxEntries),
           \A q \in KeysWith(j) : <<q, oldest>> \notin UsedLast(KeysWith(j), question[j])
    PROVE  question[j] # oldest
<1> SUFFICES ASSUME question[j] = oldest PROVE FALSE
  OBVIOUS
<1>1. KeysWith(j) = {oldest}
  BY DEF UsedLast, KeysWith
<1>2. Cardinality(KeysWith(j)) = 1
  BY <1>1, FS_Singleton
<1> QED
  BY <1>2, CorpusAssumption

-----------------------------------------------------------------------------
\* Types.

CacheTypes ==
    /\ DOMAIN cache \subseteq Questions /\ cache \in [DOMAIN cache -> Entry]
    /\ IsFiniteSet(DOMAIN cache) /\ Cardinality(DOMAIN cache) <= MaxEntries
    /\ older \subseteq (DOMAIN cache) \X (DOMAIN cache)

Labels == {"new"} \cup Asking \cup Changing \cup Outcomes

StoreTypes ==
    /\ minted \subseteq Docs /\ vectors \subseteq minted
    /\ row \in [Docs -> Files \cup {Nobody}]
    /\ snapshot \in {NoCopy} \cup SUBSET Docs

JobTypes ==
    /\ pc \in [Jobs -> Labels]
    /\ file \in [Jobs -> Files \cup {Nobody}]
    /\ doc \in [Jobs -> Docs \cup {Nobody}]
    /\ question \in [Jobs -> Questions \cup {Nobody}]
    /\ seen \in [Jobs -> SUBSET Docs]
    /\ copy \in [Jobs -> {NoCopy} \cup SUBSET Docs]
    /\ searched \in [Jobs -> SUBSET Docs]

LEMMA TypeParts ==
    TypeOK <=> /\ CacheTypes /\ StoreTypes /\ JobTypes
               /\ crashes \in 0..MaxCrashes /\ raced \in BOOLEAN
BY DEF TypeOK, CacheTypes, StoreTypes, JobTypes, Labels

LEMMA GetCorpusLabels ==
    /\ DOMAIN AfterCorpus = {"lookup_corpus", "lexical", "candidates", "remember_corpus"}
    /\ AfterCorpus["lookup_corpus"] = "lookup" /\ AfterCorpus["lexical"] = "candidates"
    /\ AfterCorpus["candidates"] = "generate" /\ AfterCorpus["remember_corpus"] = "store"
BY DEF AfterCorpus

LEMMA ChangeLabels ==
    /\ DOMAIN AfterChange = {"indexed", "unindexed"}
    /\ AfterChange["indexed"] = "insert" /\ AfterChange["unindexed"] = "drop_row"
BY DEF AfterChange

LEMMA LabelSets ==
    /\ Asking = {"lookup_corpus", "lexical", "candidates", "remember_corpus",
                 "lookup", "dense", "generate", "store"}
    /\ Changing = {"index", "indexed", "insert", "unindex", "unindexed", "drop_row",
                   "invalidate"}
    /\ Labels = {"new"} \cup Asking \cup Changing
                    \cup {"answered", "cached", "failed", "conflict", "lost"}
BY GetCorpusLabels DEF Asking, Changing, Uploading, Deleting, Labels, Outcomes

\* What the steps other than a client's first ones leave alone.
LEMMA CacheKept ==
    ASSUME NEW j \in Jobs,
           \/ Index(j) \/ InsertRow(j) \/ Unindex(j) \/ DropRow(j) \/ DropSnapshot(j)
           \/ ReadSnapshot(j) \/ ReadCollection(j) \/ FillSnapshot(j)
           \/ Dense(j) \/ Generate(j)
           \/ (\E f \in Files : Upload(j, f)) \/ (\E d \in Docs : Delete(j, d))
           \/ \E q \in Questions : Ask(j, q)
    PROVE  UNCHANGED cacheVars
BY DEF Index, InsertRow, Unindex, DropRow, DropSnapshot, ReadSnapshot, ReadCollection,
       FillSnapshot, Dense, Generate, Upload, Delete, Ask, memoryVars

\* Only a crash is counted.
LEMMA CrashesCount == [Next]_vars => Crash \/ UNCHANGED crashes
BY DEF Next, Step, Index, InsertRow, Unindex, DropRow, DropSnapshot, ReadSnapshot,
       ReadCollection, FillSnapshot, Dense, Generate, Upload, Delete, Ask, Invalidate,
       Lookup, Store, Expire, vars

LEMMA EmptyCache ==
    ASSUME cache' = NoEntries, older' = {}
    PROVE  CacheTypes' /\ DOMAIN cache' = {}
<1>1. DOMAIN cache' = {} /\ cache' \in [{} -> Entry]
  BY DEF NoEntries
<1> QED
  BY <1>1, FS_EmptySet, CorpusAssumption DEF CacheTypes

LEMMA CacheTypesNext ==
    ASSUME TypeOK, JobsHaveTheirInput, [Next]_vars
    PROVE  CacheTypes'
<1>1. ASSUME UNCHANGED cacheVars PROVE CacheTypes'
  BY <1>1, TypeParts DEF CacheTypes, cacheVars
<1>2. ASSUME NEW j \in Jobs, Invalidate(j) PROVE CacheTypes'
  BY <1>2, EmptyCache DEF Invalidate
<1>3. ASSUME NEW j \in Jobs, Lookup(j) PROVE CacheTypes'
  <2>1. PICK kept \in SUBSET DOMAIN cache :
            /\ cache' = Restrict(cache, kept)
            /\ \/ \E q \in kept : older' = UsedLast(kept, q)
               \/ older' = {pair \in older : pair \in kept \X kept}
    BY <1>3 DEF Lookup
  <2>2. older' \subseteq kept \X kept
    BY <2>1 DEF UsedLast
  <2> QED
    BY <2>1, <2>2, PurgedIsCache DEF CacheTypes
<1>4. ASSUME NEW j \in Jobs, Store(j) PROVE CacheTypes'
  <2>1. question[j] \in Questions
    BY <1>4, LabelSets DEF Store, JobsHaveTheirInput
  <2>2. PICK gone : /\ StoreWithout(j, gone)
                    /\ \/ Cardinality(KeysWith(j)) <= MaxEntries /\ gone = {}
                       \/ \E oldest \in KeysWith(j) : gone = {oldest}
                    /\ question[j] \notin gone
    BY <1>4, NewestStays DEF Store
  <2> DEFINE keys == KeysWith(j) \ gone
  <2>3. keys \subseteq Questions /\ IsFiniteSet(keys) /\ Cardinality(keys) <= MaxEntries
    BY <2>1, <2>2, StoredFits
  <2>4. /\ DOMAIN cache' = keys /\ cache' \in [keys -> Entry]
    <3>1. NewEntry(j) \in Entry
      BY TypeParts DEF NewEntry, Entry, JobTypes
    <3>2. \A q \in keys : q # question[j] => cache[q] \in Entry
      BY TypeParts DEF CacheTypes, KeysWith
    <3> QED
      BY <2>2, <3>1, <3>2 DEF StoreWithout
  <2>5. older' \subseteq keys \X keys
    BY <2>2 DEF StoreWithout, UsedLast, KeysWith
  <2> QED
    BY <2>3, <2>4, <2>5 DEF CacheTypes
<1>5. ASSUME NEW q \in DOMAIN cache, Expire(q) PROVE CacheTypes'
  <2>1. DOMAIN cache' = DOMAIN cache /\ older' = older
    BY <1>5, TypeParts DEF Expire, CacheTypes
  <2>2. cache' \in [DOMAIN cache -> Entry]
    BY <1>5, TypeParts DEF Expire, CacheTypes, Entry
  <2> QED
    BY <2>1, <2>2, TypeParts DEF CacheTypes
<1>6. CASE Crash
  BY <1>6, EmptyCache DEF Crash
<1>7. CASE UNCHANGED vars
  BY <1>1, <1>7 DEF vars, cacheVars
<1> QED
  BY <1>1, <1>2, <1>3, <1>4, <1>5, <1>6, <1>7, CacheKept DEF Next, Step

-----------------------------------------------------------------------------
LEMMA TypesNext ==
    ASSUME TypeOK, JobsHaveTheirInput, [Next]_vars
    PROVE  TypeOK'
<1> USE TypeParts DEF Goto, Finish, storeVars, inputVars, localVars, memoryVars
<1>1. CacheTypes'
  BY CacheTypesNext
<1>2. crashes' \in 0..MaxCrashes
  <2>1. CASE UNCHANGED crashes
    BY <2>1
  <2>2. CASE Crash
    BY <2>2, CorpusAssumption DEF Crash
  <2> QED
    BY <2>1, <2>2, CrashesCount
<1>3. StoreTypes' /\ raced' \in BOOLEAN
  <2>1. ASSUME UNCHANGED <<storeVars, snapshot>> PROVE StoreTypes'
    BY <2>1 DEF StoreTypes
  <2>2. ASSUME NEW j \in Jobs, Step(j) PROVE StoreTypes' /\ raced' = raced
    <3>1. CASE Index(j) \/ Unindex(j) \/ DropRow(j)
      BY <3>1 DEF Index, Unindex, DropRow, StoreTypes
    <3>2. CASE InsertRow(j)
      BY <3>2, LabelSets DEF InsertRow, StoreTypes, JobsHaveTheirInput, Uploading
    <3>3. CASE DropSnapshot(j) \/ FillSnapshot(j)
      BY <3>3 DEF DropSnapshot, FillSnapshot, StoreTypes, JobTypes
    <3>4. CASE Invalidate(j) \/ ReadSnapshot(j) \/ ReadCollection(j)
      BY <2>1, <3>4 DEF Invalidate, ReadSnapshot, ReadCollection
    <3>5. CASE Lookup(j) \/ Dense(j) \/ Generate(j) \/ Store(j)
      BY <2>1, <3>5 DEF Lookup, Dense, Generate, Store
    <3> QED
      BY <2>2, <3>1, <3>2, <3>3, <3>4, <3>5 DEF Step
  <2>3. ASSUME NEW j \in Jobs, \/ \E f \in Files : Upload(j, f)
                               \/ \E d \in Docs : Delete(j, d)
                               \/ \E q \in Questions : Ask(j, q)
        PROVE  StoreTypes' /\ raced' \in BOOLEAN
    BY <2>1, <2>3 DEF Upload, Delete, Ask
  <2>4. CASE Crash
    BY <2>4 DEF Crash, StoreTypes
  <2>5. CASE UNCHANGED vars \/ \E q \in DOMAIN cache : Expire(q)
    BY <2>1, <2>5 DEF Expire, vars
  <2> QED
    BY <2>2, <2>3, <2>4, <2>5 DEF Next
<1>4. JobTypes'
  <2> USE LabelSets, GetCorpusLabels, ChangeLabels
  <2>1. ASSUME NEW j \in Jobs, Step(j) PROVE JobTypes'
    <3>1. CASE Index(j) \/ InsertRow(j) \/ Unindex(j) \/ DropRow(j)
      BY <3>1 DEF Index, InsertRow, Unindex, DropRow, JobTypes, StoreTypes
    <3>2. CASE DropSnapshot(j) \/ Invalidate(j)
      BY <3>2 DEF DropSnapshot, Invalidate, JobTypes
    <3>3. CASE ReadSnapshot(j)
      BY <3>3 DEF ReadSnapshot, Returns, JobTypes, StoreTypes
    <3>4. CASE ReadCollection(j)
      BY <3>4 DEF ReadCollection, JobTypes, StoreTypes
    <3>5. CASE FillSnapshot(j)
      BY <3>5 DEF FillSnapshot, Returns, JobTypes, JobsHaveTheirInput
    <3>6. CASE Lookup(j) \/ Dense(j) \/ Generate(j) \/ Store(j)
      BY <3>6 DEF Lookup, Dense, Generate, Store, JobTypes, StoreTypes
    <3> QED
      BY <2>1, <3>1, <3>2, <3>3, <3>4, <3>5, <3>6 DEF Step
  <2>2. ASSUME NEW j \in Jobs, NEW f \in Files, Upload(j, f) PROVE JobTypes'
    BY <2>2 DEF Upload, JobTypes
  <2>3. ASSUME NEW j \in Jobs, NEW d \in Docs, Delete(j, d) PROVE JobTypes'
    BY <2>3 DEF Delete, JobTypes
  <2>4. ASSUME NEW j \in Jobs, NEW q \in Questions, Ask(j, q) PROVE JobTypes'
    BY <2>4 DEF Ask, JobTypes
  <2>5. CASE Crash
    BY <2>5 DEF Crash, JobTypes
  <2>6. CASE UNCHANGED vars \/ \E q \in DOMAIN cache : Expire(q)
    BY <2>6 DEF Expire, vars, JobTypes
  <2> QED
    BY <2>1, <2>2, <2>3, <2>4, <2>5, <2>6 DEF Next
<1> QED
  BY <1>1, <1>2, <1>3, <1>4 DEF TypeOK, CacheTypes, StoreTypes, JobTypes, Labels

-----------------------------------------------------------------------------
\* Who works on what.

\* A step moves one job and the others keep their place, their document and
\* their file.
LEMMA OthersStay ==
    ASSUME TypeOK, NEW j \in Jobs,
           \/ Step(j) \/ (\E f \in Files : Upload(j, f)) \/ (\E d \in Docs : Delete(j, d))
           \/ \E q \in Questions : Ask(j, q)
    PROVE  \A k \in Jobs \ {j} :
               /\ pc'[k] = pc[k] /\ file'[k] = file[k] /\ doc'[k] = doc[k]
               /\ question'[k] = question[k] /\ seen'[k] = seen[k] /\ copy'[k] = copy[k]
               /\ searched'[k] = searched[k]
<1> USE DEF Goto, Finish, storeVars, inputVars, localVars, memoryVars, TypeOK
<1>1. CASE Index(j) \/ InsertRow(j) \/ Unindex(j) \/ DropRow(j) \/ DropSnapshot(j)
           \/ Invalidate(j)
  BY <1>1 DEF Index, InsertRow, Unindex, DropRow, DropSnapshot, Invalidate
<1>2. CASE ReadSnapshot(j) \/ ReadCollection(j) \/ FillSnapshot(j)
  BY <1>2 DEF ReadSnapshot, ReadCollection, FillSnapshot, Returns
<1>3. CASE Lookup(j) \/ Dense(j)
  BY <1>3 DEF Lookup, Dense
<1>4. CASE Generate(j) \/ Store(j)
  BY <1>4 DEF Generate, Store
<1>5. CASE \E f \in Files : Upload(j, f)
  BY <1>5 DEF Upload
<1>6. CASE \E d \in Docs : Delete(j, d)
  BY <1>6 DEF Delete
<1>7. CASE \E q \in Questions : Ask(j, q)
  BY <1>7 DEF Ask
<1> QED
  BY <1>1, <1>2, <1>3, <1>4, <1>5, <1>6, <1>7 DEF Step

LEMMA CrashEndsJobs ==
    ASSUME TypeOK, Crash
    PROVE  /\ \A j \in Jobs : pc'[j] \notin Asking \cup Changing /\ copy'[j] = NoCopy
           /\ crashes' > 0
<1>1. crashes' > 0
  BY DEF Crash, TypeOK
<1>2. ASSUME NEW j \in Jobs PROVE pc'[j] \notin Asking \cup Changing /\ copy'[j] = NoCopy
  BY LabelSets DEF Crash
<1> QED
  BY <1>1, <1>2

\* The steps that move no job.
LEMMA JobsStay ==
    ASSUME UNCHANGED vars \/ \E q \in DOMAIN cache : Expire(q)
    PROVE  UNCHANGED <<storeVars, snapshot, pc, inputVars, localVars, crashes, raced>>
BY DEF vars, Expire, storeVars, inputVars, localVars

LEMMA InputNext ==
    ASSUME TypeOK, JobsHaveTheirInput, [Next]_vars
    PROVE  JobsHaveTheirInput'
<1> USE LabelSets, GetCorpusLabels DEF Goto, Finish, JobsHaveTheirInput, TypeOK, Uploading
<1>1. ASSUME NEW j \in Jobs,
             \/ Step(j) \/ (\E f \in Files : Upload(j, f))
             \/ (\E d \in Docs : Delete(j, d)) \/ \E q \in Questions : Ask(j, q)
      PROVE  JobsHaveTheirInput'
  <2>1. /\ pc'[j] \in Uploading => file'[j] \in Files
        /\ pc'[j] \in Asking => question'[j] \in Questions
        /\ copy'[j] # NoCopy => pc'[j] \in DOMAIN AfterCorpus
    <3> USE DEF storeVars, inputVars, localVars, memoryVars
    <3>1. CASE Index(j) \/ InsertRow(j) \/ Unindex(j) \/ DropRow(j)
      BY <3>1 DEF Index, InsertRow, Unindex, DropRow
    <3>2. CASE DropSnapshot(j) \/ Invalidate(j)
      BY <3>2, ChangeLabels DEF DropSnapshot, Invalidate
    <3>3. CASE ReadSnapshot(j) \/ ReadCollection(j) \/ FillSnapshot(j)
      BY <3>3 DEF ReadSnapshot, ReadCollection, FillSnapshot, Returns
    <3>4. CASE Lookup(j) \/ Dense(j)
      BY <3>4 DEF Lookup, Dense
    <3>5. CASE Generate(j) \/ Store(j)
      BY <3>5 DEF Generate, Store
    <3>6. CASE \E f \in Files : Upload(j, f)
      BY <3>6 DEF Upload
    <3>7. CASE \E d \in Docs : Delete(j, d)
      BY <3>7 DEF Delete
    <3>8. CASE \E q \in Questions : Ask(j, q)
      BY <3>8 DEF Ask
    <3> QED
      BY <1>1, <3>1, <3>2, <3>3, <3>4, <3>5, <3>6, <3>7, <3>8 DEF Step
  <2> QED
    BY <1>1, <2>1, OthersStay
<1>2. CASE Crash
  BY <1>2, CrashEndsJobs
<1>3. CASE UNCHANGED vars \/ \E q \in DOMAIN cache : Expire(q)
  BY <1>3, JobsStay DEF inputVars, localVars
<1> QED
  BY <1>1, <1>2, <1>3 DEF Next

-----------------------------------------------------------------------------
\* The two stores.

StoresAgree == /\ UploadsOwnTheirDocument /\ DeletionsRemove
               /\ ListedIsSearchable /\ OrphansAreExplained

\* What the steps on neither store do to their jobs: nothing, or from one stage
\* of the work on a document to the next.
LEMMA StoresKept ==
    ASSUME TypeOK, StoresAgree, NEW j \in Jobs,
           UNCHANGED <<storeVars, doc, crashes>>,
           \A k \in Jobs \ {j} : pc'[k] = pc[k],
           \/ pc[j] = "indexed" /\ pc'[j] = "insert"
           \/ pc[j] = "unindexed" /\ pc'[j] = "drop_row"
           \/ pc[j] \notin {"indexed", "insert", "conflict"} \cup Deleting
                /\ pc'[j] \notin {"indexed", "insert"} \cup Deleting
    PROVE  StoresAgree'
<1> USE DEF storeVars, Deleting, StoresAgree
<1>1. \A k \in Jobs : /\ pc'[k] \in {"indexed", "insert"} => pc[k] \in {"indexed", "insert"}
                      /\ pc'[k] \in Deleting => pc[k] \in Deleting
                      /\ pc'[k] \in {"unindexed", "drop_row"}
                            <=> pc[k] \in {"unindexed", "drop_row"}
                      /\ pc[k] \in {"indexed", "insert", "conflict"}
                            => pc'[k] \in {"indexed", "insert", "conflict"}
  OBVIOUS
<1>2. UploadsOwnTheirDocument'
  BY <1>1 DEF UploadsOwnTheirDocument
<1>3. DeletionsRemove'
  BY <1>1 DEF DeletionsRemove
<1>4. ListedIsSearchable'
  BY <1>1 DEF ListedIsSearchable
<1>5. OrphansAreExplained'
  BY <1>1 DEF OrphansAreExplained
<1> QED
  BY <1>2, <1>3, <1>4, <1>5

LEMMA StoresNext ==
    ASSUME TypeOK, JobsHaveTheirInput, StoresAgree, [Next]_vars
    PROVE  StoresAgree'
<1> USE CorpusAssumption DEF Goto, TypeOK, storeVars, inputVars, Deleting, StoresAgree
<1>1. ASSUME NEW j \in Jobs, Index(j) PROVE StoresAgree'
  <2> USE <1>1
  <2>1. CASE pc'[j] = "failed" /\ UNCHANGED <<minted, vectors, doc>>
    BY <2>1, OthersStay, StoresKept DEF Index, Step
  <2>2. ASSUME NEW d \in Docs \ minted,
               minted' = minted \cup {d}, vectors' = vectors \cup {d},
               doc' = [doc EXCEPT ![j] = d], pc' = [pc EXCEPT ![j] = "indexed"],
               UNCHANGED <<row, crashes>>
        PROVE  StoresAgree'
    <3> USE <2>2
    <3>1. row[d] = Nobody /\ pc[j] = "index"
      BY DEF DeletionsRemove, Index
    <3>2. UploadsOwnTheirDocument'
      BY <3>1 DEF UploadsOwnTheirDocument, DeletionsRemove
    <3>3. DeletionsRemove'
      BY <3>1 DEF DeletionsRemove
    <3>4. ListedIsSearchable'
      BY <3>1 DEF ListedIsSearchable
    <3>5. OrphansAreExplained'
      BY <3>1 DEF OrphansAreExplained
    <3> QED
      BY <3>2, <3>3, <3>4, <3>5
  <2> QED
    BY <2>1, <2>2 DEF Index
<1>2. ASSUME NEW j \in Jobs, InsertRow(j) PROVE StoresAgree'
  <2> USE <1>2
  <2>1. /\ pc[j] = "insert" /\ doc[j] \in vectors /\ row[doc[j]] = Nobody
        /\ \A k \in Jobs \ {j} : doc[k] = doc[j] =>
               pc[k] \notin {"indexed", "insert"} \cup Deleting
    BY DEF InsertRow, UploadsOwnTheirDocument
  <2>2. /\ UNCHANGED <<vectors, minted, doc, crashes>>
        /\ \/ pc' = [pc EXCEPT ![j] = "conflict"] /\ row' = row
           \/ /\ pc' = [pc EXCEPT ![j] = "invalidate"]
              /\ row' = [row EXCEPT ![doc[j]] = file[j]] /\ file[j] # Nobody
    BY <2>1 DEF InsertRow, JobsHaveTheirInput, Uploading
  <2>3. UploadsOwnTheirDocument'
    BY <2>1, <2>2 DEF UploadsOwnTheirDocument
  <2>4. DeletionsRemove'
    BY <2>1, <2>2 DEF DeletionsRemove
  <2>5. ListedIsSearchable'
    BY <2>1, <2>2 DEF ListedIsSearchable
  <2>6. OrphansAreExplained'
    BY <2>1, <2>2 DEF OrphansAreExplained
  <2> QED
    BY <2>3, <2>4, <2>5, <2>6
<1>3. ASSUME NEW j \in Jobs, NEW d \in Docs, Delete(j, d) PROVE StoresAgree'
  <2> USE <1>3
  <2>1. /\ pc[j] = "new" /\ d \in minted /\ UNCHANGED <<vectors, row, minted, crashes>>
        /\ doc' = [doc EXCEPT ![j] = d]
        /\ \/ pc' = [pc EXCEPT ![j] = "failed"]
           \/ pc' = [pc EXCEPT ![j] = "unindex"] /\ row[d] # Nobody
    BY DEF Delete
  <2>2. UploadsOwnTheirDocument'
    BY <2>1 DEF UploadsOwnTheirDocument
  <2>3. DeletionsRemove'
    BY <2>1 DEF DeletionsRemove
  <2>4. ListedIsSearchable'
    BY <2>1 DEF ListedIsSearchable
  <2>5. OrphansAreExplained'
    BY <2>1 DEF OrphansAreExplained
  <2> QED
    BY <2>2, <2>3, <2>4, <2>5
<1>4. ASSUME NEW j \in Jobs, Unindex(j) PROVE StoresAgree'
  <2> USE <1>4
  <2>1. /\ pc[j] = "unindex" /\ UNCHANGED <<row, minted, doc, crashes>>
        /\ vectors' = vectors \ {doc[j]} /\ pc' = [pc EXCEPT ![j] = "unindexed"]
    BY DEF Unindex
  <2>2. UploadsOwnTheirDocument'
    BY <2>1 DEF UploadsOwnTheirDocument
  <2>3. DeletionsRemove'
    BY <2>1 DEF DeletionsRemove
  <2>4. ListedIsSearchable'
    BY <2>1 DEF ListedIsSearchable
  <2>5. OrphansAreExplained'
    BY <2>1 DEF OrphansAreExplained
  <2> QED
    BY <2>2, <2>3, <2>4, <2>5
<1>5. ASSUME NEW j \in Jobs, DropRow(j) PROVE StoresAgree'
  <2> USE <1>5
  <2>1. /\ pc[j] = "drop_row" /\ UNCHANGED <<vectors, minted, doc, crashes>>
        /\ row' = [row EXCEPT ![doc[j]] = Nobody] /\ pc' = [pc EXCEPT ![j] = "invalidate"]
        /\ doc[j] \notin vectors
    BY DEF DropRow, DeletionsRemove
  <2>2. UploadsOwnTheirDocument'
    BY <2>1 DEF UploadsOwnTheirDocument
  <2>3. DeletionsRemove'
    BY <2>1 DEF DeletionsRemove
  <2>4. ListedIsSearchable'
    BY <2>1 DEF ListedIsSearchable
  <2>5. OrphansAreExplained'
    BY <2>1 DEF OrphansAreExplained
  <2> QED
    BY <2>2, <2>3, <2>4, <2>5
<1>6. ASSUME NEW j \in Jobs,
             \/ DropSnapshot(j) \/ Invalidate(j) \/ ReadSnapshot(j) \/ FillSnapshot(j)
             \/ Lookup(j) \/ Dense(j) \/ Generate(j) \/ Store(j)
             \/ (\E f \in Files : Upload(j, f)) \/ \E q \in Questions : Ask(j, q)
      PROVE  StoresAgree'
  <2>1. /\ UNCHANGED <<storeVars, doc, crashes>>
        /\ \/ pc[j] = "indexed" /\ pc'[j] = "insert"
           \/ pc[j] = "unindexed" /\ pc'[j] = "drop_row"
           \/ pc[j] \notin {"indexed", "insert", "conflict"} \cup Deleting
                /\ pc'[j] \notin {"indexed", "insert"} \cup Deleting
    <3> USE LabelSets, GetCorpusLabels, ChangeLabels DEF Finish
    <3>1. CASE DropSnapshot(j) \/ Invalidate(j)
      BY <3>1 DEF DropSnapshot, Invalidate
    <3>2. CASE ReadSnapshot(j)
      BY <3>2 DEF ReadSnapshot, Returns
    <3>3. CASE FillSnapshot(j)
      BY <3>3 DEF FillSnapshot, Returns, JobsHaveTheirInput
    <3>4. CASE Lookup(j) \/ Dense(j)
      BY <3>4 DEF Lookup, Dense
    <3>5. CASE Generate(j) \/ Store(j)
      BY <3>5 DEF Generate, Store
    <3>6. CASE \E f \in Files : Upload(j, f)
      BY <3>6 DEF Upload
    <3>7. CASE \E q \in Questions : Ask(j, q)
      BY <3>7 DEF Ask
    <3> QED
      BY <1>6, <3>1, <3>2, <3>3, <3>4, <3>5, <3>6, <3>7
  <2>2. \A k \in Jobs \ {j} : pc'[k] = pc[k]
    BY <1>6, OthersStay DEF Step
  <2> QED
    BY <2>1, <2>2, StoresKept
<1>7. CASE Crash
  <2>1. /\ \A j \in Jobs : pc'[j] \notin Asking \cup Changing
        /\ crashes' > 0 /\ UNCHANGED <<vectors, row, minted, doc>>
    BY <1>7, CrashEndsJobs DEF Crash
  <2>2. UploadsOwnTheirDocument'
    BY <2>1, LabelSets DEF UploadsOwnTheirDocument
  <2>3. DeletionsRemove'
    BY <2>1, LabelSets DEF DeletionsRemove
  <2> QED
    BY <2>1, <2>2, <2>3 DEF ListedIsSearchable, OrphansAreExplained
<1>8. ASSUME UNCHANGED <<storeVars, pc, doc, crashes>> PROVE StoresAgree'
  BY <1>8 DEF UploadsOwnTheirDocument, DeletionsRemove, ListedIsSearchable,
              OrphansAreExplained
<1>9. ASSUME NEW j \in Jobs, ReadCollection(j) PROVE StoresAgree'
  BY <1>8, <1>9 DEF ReadCollection
<1>10. CASE UNCHANGED vars \/ \E q \in DOMAIN cache : Expire(q)
  BY <1>8, <1>10, JobsStay
<1> QED
  BY <1>1, <1>2, <1>3, <1>4, <1>5, <1>6, <1>7, <1>9, <1>10 DEF Next, Step

-----------------------------------------------------------------------------
\* Questions and the corpus.

\* What retrieval has found is complete at these labels.
Searched == {"lexical", "candidates", "generate", "remember_corpus", "store"}

LEMMA AskingKept ==
    ASSUME TypeOK, JobsHaveTheirInput, ~raced, QuestionsReadThePresent, NEW j \in Jobs,
           pc[j] \in Asking, pc'[j] \in Asking \cup Outcomes,
           \A k \in Jobs \ {j} : /\ pc'[k] = pc[k] /\ seen'[k] = seen[k]
                                 /\ copy'[k] = copy[k] /\ searched'[k] = searched[k],
           UNCHANGED vectors,
           snapshot' \in {snapshot, copy[j]},
           copy'[j] \in {NoCopy, vectors},
           pc'[j] \in Searched => searched'[j] = vectors,
           pc'[j] = "store" => seen'[j] = vectors,
           \A q \in DOMAIN cache' : cache'[q].searched = cache'[q].revision
    PROVE  QuestionsReadThePresent'
<1> USE LabelSets DEF QuestionsReadThePresent, AtRest, Outcomes, Searched
<1>1. /\ In(Changing) = {} /\ In(Changing)' = {}
      /\ In({"indexed", "unindexed"}) = {}
  OBVIOUS
<1>2. snapshot' \in {NoCopy, vectors}
  BY <1>1
<1> QED
  BY <1>1, <1>2

LEMMA PresentNext ==
    ASSUME CorpusInv, [Next]_vars, ~raced'
    PROVE  QuestionsReadThePresent'
<1> USE CorpusAssumption
    DEF Goto, Finish, storeVars, inputVars, localVars, memoryVars, cacheVars
<1>0. TypeOK /\ JobsHaveTheirInput
  BY DEF CorpusInv
<1>a. ASSUME ~raced PROVE QuestionsReadThePresent
  BY <1>a DEF CorpusInv
<1>1. ASSUME NEW j \in Jobs,
             \/ ReadSnapshot(j) \/ ReadCollection(j) \/ FillSnapshot(j) \/ Lookup(j)
             \/ Dense(j) \/ Generate(j) \/ Store(j)
      PROVE  QuestionsReadThePresent'
  <2> USE LabelSets, GetCorpusLabels DEF Outcomes, Searched
  <2>1. ~raced /\ UNCHANGED vectors /\ pc[j] \in Asking
    BY <1>0, <1>1
    DEF ReadSnapshot, ReadCollection, FillSnapshot, Lookup, Dense, Generate, Store,
        JobsHaveTheirInput
  <2>2. /\ QuestionsReadThePresent /\ snapshot \in {NoCopy, vectors}
        /\ copy[j] \in {NoCopy, vectors}
        /\ pc[j] \in Searched => searched[j] = vectors
    BY <1>a, <2>1 DEF QuestionsReadThePresent, AtRest
  <2>3. ASSUME UNCHANGED cacheVars
        PROVE  \A q \in DOMAIN cache' : cache'[q].searched = cache'[q].revision
    BY <2>2, <2>3 DEF QuestionsReadThePresent
  <2> DEFINE Kept ==
        /\ pc'[j] \in Asking \cup Outcomes
        /\ snapshot' \in {snapshot, copy[j]} /\ copy'[j] \in {NoCopy, vectors}
        /\ pc'[j] \in Searched => searched'[j] = vectors
        /\ pc'[j] = "store" => seen'[j] = vectors
  <2>4. CASE ReadSnapshot(j) \/ FillSnapshot(j)
    <3>1. PICK corpus : corpus = vectors /\ Returns(j, corpus) /\ UNCHANGED cacheVars
                        /\ snapshot' \in {snapshot, copy[j]} /\ copy'[j] = NoCopy
      BY <1>0, <2>2, <2>4 DEF ReadSnapshot, FillSnapshot, TypeOK
    <3>2. pc[j] \in DOMAIN AfterCorpus /\ pc'[j] = AfterCorpus[pc[j]] /\ seen'[j] = vectors
      BY <1>0, <2>4, <3>1 DEF Returns, ReadSnapshot, FillSnapshot, TypeOK, JobsHaveTheirInput
    <3>3. pc[j] \in Searched => searched'[j] = vectors
      BY <1>0, <2>2, <3>1 DEF Returns, TypeOK
    <3>4. Kept
      BY <3>1, <3>2, <3>3
    <3> QED
      BY <1>0, <1>1, <2>1, <2>2, <2>3, <3>1, <3>4, AskingKept, OthersStay DEF Step
  <2>5. CASE ReadCollection(j) \/ Dense(j) \/ Generate(j)
    <3>1. Kept /\ UNCHANGED cacheVars
      BY <1>0, <2>2, <2>5 DEF ReadCollection, Dense, Generate, TypeOK
    <3> QED
      BY <1>0, <1>1, <2>1, <2>2, <2>3, <3>1, AskingKept, OthersStay DEF Step
  <2>6. CASE Lookup(j)
    <3>1. Kept
      BY <1>0, <2>2, <2>6 DEF Lookup, TypeOK
    <3>2. \A q \in DOMAIN cache' : cache'[q].searched = cache'[q].revision
      BY <2>2, <2>6 DEF Lookup, Restrict, QuestionsReadThePresent
    <3> QED
      BY <1>0, <1>1, <2>1, <2>2, <3>1, <3>2, AskingKept, OthersStay DEF Step
  <2>7. CASE Store(j)
    <3>1. Kept
      BY <1>0, <2>2, <2>7 DEF Store, TypeOK
    <3>2. PICK gone : StoreWithout(j, gone)
      BY <2>7 DEF Store
    <3>3. NewEntry(j).searched = NewEntry(j).revision
      BY <2>2, <2>7 DEF Store, NewEntry, QuestionsReadThePresent
    <3>4. \A q \in DOMAIN cache' : cache'[q].searched = cache'[q].revision
      BY <2>2, <3>2, <3>3 DEF StoreWithout, KeysWith, QuestionsReadThePresent
    <3> QED
      BY <1>0, <1>1, <2>1, <2>2, <3>1, <3>4, AskingKept, OthersStay DEF Step
  <2> QED
    BY <1>1, <2>4, <2>5, <2>6, <2>7
<1>2. ASSUME NEW j \in Jobs,
             \/ Index(j) \/ InsertRow(j) \/ Unindex(j) \/ DropRow(j) \/ DropSnapshot(j)
             \/ Invalidate(j)
      PROVE  QuestionsReadThePresent'
  <2> USE LabelSets, ChangeLabels DEF Outcomes
  <2>1. /\ ~raced /\ pc[j] \in Changing /\ pc'[j] \in Changing \cup Outcomes
        /\ UNCHANGED localVars
    BY <1>0, <1>2
    DEF Index, InsertRow, Unindex, DropRow, DropSnapshot, Invalidate, TypeOK
  <2>2. QuestionsReadThePresent /\ In(Asking) = {}
    BY <1>a, <2>1 DEF QuestionsReadThePresent, AtRest
  <2>3. \A k \in Jobs \ {j} : pc'[k] = pc[k]
    BY <1>0, <1>2, OthersStay DEF Step
  <2>4. /\ In(Asking)' = {}
        /\ \A k \in Jobs : copy'[k] = NoCopy
    BY <1>0, <2>1, <2>2, <2>3, GetCorpusLabels DEF JobsHaveTheirInput
  <2>5. snapshot' \in {NoCopy, vectors'} \/ In({"indexed", "unindexed"})' # {}
    <3>1. CASE Index(j) \/ Unindex(j)
      BY <1>0, <2>2, <2>3, <3>1 DEF Index, Unindex, TypeOK, QuestionsReadThePresent
    <3>2. CASE InsertRow(j) \/ DropRow(j) \/ Invalidate(j)
      BY <1>0, <2>2, <2>3, <3>2 DEF InsertRow, DropRow, Invalidate, QuestionsReadThePresent
    <3>3. CASE DropSnapshot(j)
      BY <3>3 DEF DropSnapshot
    <3> QED
      BY <1>2, <3>1, <3>2, <3>3
  <2>6. \A q \in DOMAIN cache' : cache'[q].searched = cache'[q].revision
    <3>1. CASE Invalidate(j)
      BY <3>1, EmptyCache DEF Invalidate
    <3>2. CASE ~Invalidate(j)
      BY <1>2, <2>2, <3>2, CacheKept DEF QuestionsReadThePresent
    <3> QED
      BY <3>1, <3>2
  <2> QED
    BY <2>4, <2>5, <2>6 DEF QuestionsReadThePresent
<1>3. ASSUME NEW j \in Jobs, \/ \E f \in Files : Upload(j, f)
                             \/ \E d \in Docs : Delete(j, d)
      PROVE  QuestionsReadThePresent'
  <2>1. ~raced /\ In(Asking) = {} /\ pc[j] = "new" /\ pc'[j] \in Changing \cup Outcomes
        /\ UNCHANGED <<vectors, memoryVars, localVars>>
    BY <1>0, <1>3, LabelSets DEF Upload, Delete, Outcomes, TypeOK
  <2>2. \A k \in Jobs \ {j} : pc'[k] = pc[k]
    BY <1>0, <1>3, OthersStay
  <2>3. /\ In(Asking)' = {}
        /\ In({"indexed", "unindexed"}) \subseteq In({"indexed", "unindexed"})'
    BY <2>1, <2>2, LabelSets DEF Outcomes
  <2> QED
    BY <2>1, <2>2, <2>3, <1>a, LabelSets DEF QuestionsReadThePresent
<1>4. ASSUME NEW j \in Jobs, NEW q \in Questions, Ask(j, q) PROVE QuestionsReadThePresent'
  <2>1. ~raced /\ In(Changing) = {} /\ pc[j] = "new" /\ pc'[j] \in {"dense", "lookup_corpus"}
        /\ UNCHANGED <<vectors, memoryVars, localVars>>
    BY <1>0, <1>4, LabelSets DEF Ask, TypeOK
  <2>2. \A k \in Jobs \ {j} : pc'[k] = pc[k]
    BY <1>0, <1>4, OthersStay
  <2>3. In(Changing)' = {} /\ In({"indexed", "unindexed"}) = {}
    BY <2>1, <2>2, LabelSets
  <2> QED
    BY <2>1, <2>2, <2>3, <1>a, LabelSets DEF QuestionsReadThePresent, AtRest
<1>5. CASE Crash
  <2>1. /\ snapshot' = NoCopy /\ DOMAIN cache' = {}
        /\ \A j \in Jobs : pc'[j] \notin Asking \cup Changing /\ copy'[j] = NoCopy
    BY <1>0, <1>5, CrashEndsJobs, EmptyCache DEF Crash
  <2> QED
    BY <2>1, LabelSets DEF QuestionsReadThePresent
<1>6. CASE UNCHANGED vars \/ \E q \in DOMAIN cache : Expire(q)
  <2>1. ~raced /\ UNCHANGED <<vectors, snapshot, pc, localVars>>
    BY <1>6, JobsStay
  <2>2. \A q \in DOMAIN cache' : cache'[q].searched = cache'[q].revision
    BY <1>0, <1>6, <1>a, <2>1 DEF QuestionsReadThePresent, vars, Expire, TypeOK, Entry
  <2> QED
    BY <2>1, <2>2, <1>a DEF QuestionsReadThePresent, AtRest
<1> QED
  BY <1>1, <1>2, <1>3, <1>4, <1>5, <1>6 DEF Next, Step

-----------------------------------------------------------------------------
LEMMA CorpusInit == Init => CorpusInv
<1> SUFFICES ASSUME Init PROVE CorpusInv
  OBVIOUS
<1> USE CorpusAssumption DEF Init
<1>1. TypeOK
  <2>1. DOMAIN cache = {} /\ cache \in [{} -> Entry]
    BY DEF NoEntries
  <2>2. CacheTypes
    BY <2>1, FS_EmptySet DEF CacheTypes
  <2>3. StoreTypes
    BY DEF StoreTypes
  <2>4. JobTypes
    BY DEF JobTypes, Labels
  <2>5. crashes \in 0..MaxCrashes
    OBVIOUS
  <2>6. raced \in BOOLEAN
    OBVIOUS
  <2> HIDE DEF Init
  <2> QED
    BY <2>2, <2>3, <2>4, <2>5, <2>6, TypeParts
<1>2. \A labels : "new" \notin labels => In(labels) = {}
  OBVIOUS
<1>3. UploadsOwnTheirDocument /\ DeletionsRemove /\ JobsHaveTheirInput
  BY <1>2, LabelSets DEF UploadsOwnTheirDocument, DeletionsRemove, JobsHaveTheirInput,
                         Uploading, Deleting
<1>4. ListedIsSearchable /\ OrphansAreExplained
  BY DEF ListedIsSearchable, OrphansAreExplained
<1>5. QuestionsReadThePresent
  BY LabelSets DEF QuestionsReadThePresent, NoEntries
<1> QED
  BY <1>1, <1>3, <1>4, <1>5 DEF CorpusInv

LEMMA CorpusNext == CorpusInv /\ [Next]_vars => CorpusInv'
<1> SUFFICES ASSUME CorpusInv, [Next]_vars PROVE CorpusInv'
  OBVIOUS
<1>1. TypeOK /\ JobsHaveTheirInput /\ StoresAgree
  BY DEF CorpusInv, StoresAgree
<1>2. TypeOK'
  BY <1>1, TypesNext
<1>3. JobsHaveTheirInput'
  BY <1>1, InputNext
<1>4. StoresAgree'
  BY <1>1, StoresNext
<1>5. ~raced' => QuestionsReadThePresent'
  BY PresentNext
<1> QED
  BY <1>2, <1>3, <1>4, <1>5 DEF CorpusInv, StoresAgree

\* The inductive invariant of the knowledge base.
THEOREM CorpusInvariance == Spec => []CorpusInv
BY CorpusInit, CorpusNext, PTL DEF Spec

(* The stores, the snapshot, the cache and every call keep their types; in *)
(* particular the cache never outgrows MAX_ENTRIES (answer_cache.py).      *)
THEOREM CorpusTypes == Spec => []TypeOK
<1>1. CorpusInv => TypeOK
  BY DEF CorpusInv
<1> QED
  BY <1>1, CorpusInvariance, PTL

(* A document that is listed has its chunks in the collection unless its   *)
(* deletion is under way or a crash cut one short, however uploads and     *)
(* deletions of the same files and documents interleave.                   *)
THEOREM ListedAlwaysSearchable == Spec => []ListedIsSearchable
<1>1. CorpusInv => ListedIsSearchable
  BY DEF CorpusInv
<1> QED
  BY <1>1, CorpusInvariance, PTL

(* Chunks that no call can delete any more come only from an upload in     *)
(* flight, one that lost the race for its checksum, or a crash.            *)
THEOREM OrphansAlwaysExplained == Spec => []OrphansAreExplained
<1>1. CorpusInv => OrphansAreExplained
  BY DEF CorpusInv
<1> QED
  BY <1>1, CorpusInvariance, PTL

(* "a document upload can never leave a stale answer behind"               *)
(* (vector_store.py), for any number of questions and changes, as long as  *)
(* none of the questions was in flight during a change.                    *)
THEOREM UnracedAnswersAreFresh == Spec => []NoStaleAnswersUnraced
<1>1. CorpusInv => NoStaleAnswersUnraced
  <2> SUFFICES ASSUME CorpusInv, ~raced, AtRest,
                      NEW q \in DOMAIN cache, Servable(cache[q])
               PROVE  cache[q].searched = vectors
    BY DEF NoStaleAnswersUnraced, NoStaleAnswers
  <2>1. QuestionsReadThePresent /\ In({"indexed", "unindexed"}) = {}
    BY LabelSets DEF CorpusInv, AtRest
  <2>2. PresentRevision = vectors
    BY <2>1 DEF QuestionsReadThePresent, PresentRevision
  <2> QED
    BY <2>1, <2>2 DEF QuestionsReadThePresent, Servable
<1> QED
  BY <1>1, CorpusInvariance, PTL
=============================================================================
