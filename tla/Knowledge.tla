------------------------------ MODULE Knowledge ------------------------------
(***************************************************************************)
(* The knowledge base (src/ai/knowledge/rag): a document is recorded,      *)
(* processed, cut into chunks, embedded, and its chunks go to the vector   *)
(* store and to the chunk repository; it is deleted, or the index of its   *)
(* organisation is; and questions search the one store and resolve what    *)
(* they find in the other.  The stores are called one after the other,     *)
(* and a step here is what happens between two calls.  A text is a         *)
(* sequence of sections; its words, to the strategy of fixed size, are     *)
(* its positions.                                                          *)
(***************************************************************************)
EXTENDS Naturals, Sequences, SequencesExt

CONSTANTS
    Documents, Owners,
    DocumentTexts,      \* sequences of "heading", "short", "fit", "long"
    ChunkSize, Overlap,
    Questions           \* bound: queries, each asked once

\* splitByHeadings() makes one section of what is between two headings; and
\* the words that chunks share are fewer than those of a chunk.
ASSUME TextAssumption ==
    /\ \A text \in DocumentTexts :
         /\ text \in Seq({"heading", "short", "fit", "long"})
         /\ \A i \in 2 .. Len(text) : text[i] = "heading" \/ text[i - 1] = "heading"
    /\ ChunkSize \in Nat /\ Overlap \in Nat /\ Overlap < ChunkSize

VARIABLES
    document,       \* the record: its organisation and status
    versions,       \* the documents with a version record
    ingest,         \* how far its ingestion is, with the chunks of it
    vectors, chunks,
    deletion,       \* how far a deletion of the document is
    question,
    disturbed,      \* history: documents of whose index something was deleted
    cleaned         \* history: documents deleted after their ingestion, by their organisation

knowledgeVars == <<document, versions, ingest, vectors, chunks, deletion, question, disturbed, cleaned>>

NoDocument == [org |-> "none", status |-> "none"]
NoDeletion == <<>>
NotAsked == [at |-> "none"]
Exists(d) == document[d].status \notin {"none", "deleted"}
Of(d, n) == {d} \X (1 .. n)
Updated(d, status) == [document EXCEPT ![d].status = IF Exists(d) THEN status ELSE @]

-----------------------------------------------------------------------------
(* The chunks of a text: each the set of the positions it has *)
FixedSizeChunks(text) ==
    LET step == ChunkSize - Overlap
    IN [k \in 1 .. (Len(text) + step - 1) \div step |->
          {i \in DOMAIN text : i > (k - 1) * step /\ i <= (k - 1) * step + ChunkSize}]

Added(pieces, content) == [pieces EXCEPT ![Len(pieces)] = @ \cup content]
\* What was collected under a heading becomes a chunk if it is large enough,
\* and is added to the last chunk if there is one.
Close(text, acc) ==
    IF \E i \in acc.content : text[i] = "fit"
    THEN Append(acc.pieces, acc.heading \cup acc.content)
    ELSE IF acc.pieces # <<>> THEN Added(acc.pieces, acc.content) ELSE acc.pieces
Section(text, acc, i) ==
    CASE text[i] = "heading" -> [pieces |-> Close(text, acc), heading |-> {i}, content |-> {}]
      [] text[i] = "long" -> [acc EXCEPT !.pieces = Append(@, acc.heading \cup {i})]
      [] OTHER -> [acc EXCEPT !.content = {i}]
HeadingAwareChunks(text) ==
    LET start == [pieces |-> <<>>, heading |-> {}, content |-> {}]
        last == FoldLeft(LAMBDA acc, i : Section(text, acc, i), start, [i \in DOMAIN text |-> i])
    IN IF last.content # {} /\ last.pieces = <<>> THEN <<last.heading \cup last.content>>
       ELSE IF last.content # {} THEN Close(text, last) ELSE last.pieces

Strategies == {"fixed-size", "heading-aware"}
ChunksOf(text, strategy) ==
    IF strategy = "heading-aware" THEN HeadingAwareChunks(text) ELSE FixedSizeChunks(text)

-----------------------------------------------------------------------------
(* ingestDocument(): whatever step of it throws, the document has failed *)
CreateRecord(d) ==
    /\ document[d] = NoDocument
    /\ \E org \in Owners : document' = [document EXCEPT ![d] = [org |-> org, status |-> "pending"]]
    /\ ingest' = [ingest EXCEPT ![d] = [at |-> "start", n |-> 0]]
    /\ UNCHANGED <<versions, vectors, chunks, deletion, question, disturbed, cleaned>>

StartProcessing(d) ==
    /\ ingest[d].at = "start"
    /\ document' = Updated(d, "processing")
    /\ ingest' = [ingest EXCEPT ![d].at = "process"]
    /\ UNCHANGED <<versions, vectors, chunks, deletion, question, disturbed, cleaned>>

Process(d) ==
    /\ ingest[d].at = "process"
    /\ \E text \in DocumentTexts, strategy \in Strategies :
         ingest' = [ingest EXCEPT ![d] = [at |-> "version", text |-> text, strategy |-> strategy,
                                          n |-> Len(ChunksOf(text, strategy))]]
    /\ UNCHANGED <<document, versions, vectors, chunks, deletion, question, disturbed, cleaned>>

CreateVersion(d) ==
    /\ ingest[d].at = "version"
    /\ versions' = versions \cup {d}
    /\ ingest' = [ingest EXCEPT ![d] = [at |-> IF ingest[d].n = 0 THEN "finish" ELSE "embed",
                                        n |-> ingest[d].n]]
    /\ UNCHANGED <<document, vectors, chunks, deletion, question, disturbed, cleaned>>

Embed(d) ==
    /\ ingest[d].at = "embed"
    /\ ingest' = [ingest EXCEPT ![d].at = "upsert"]
    /\ UNCHANGED <<document, versions, vectors, chunks, deletion, question, disturbed, cleaned>>

Upsert(d) ==
    /\ ingest[d].at = "upsert"
    /\ vectors' = vectors \cup Of(d, ingest[d].n)
    /\ ingest' = [ingest EXCEPT ![d].at = "save"]
    /\ UNCHANGED <<document, versions, chunks, deletion, question, disturbed, cleaned>>

SaveChunks(d) ==
    /\ ingest[d].at = "save"
    /\ chunks' = chunks \cup Of(d, ingest[d].n)
    /\ ingest' = [ingest EXCEPT ![d].at = "finish"]
    /\ UNCHANGED <<document, versions, vectors, deletion, question, disturbed, cleaned>>

Indexed(d) ==
    /\ ingest[d].at = "finish"
    /\ document' = Updated(d, "indexed")
    /\ ingest' = [ingest EXCEPT ![d].at = "over"]
    /\ UNCHANGED <<versions, vectors, chunks, deletion, question, disturbed, cleaned>>

\* The file is refused or cannot be read, or the embedding provider fails.
Fails(d) ==
    /\ ingest[d].at \in {"process", "embed"}
    /\ ingest' = [ingest EXCEPT ![d].at = "failing"]
    /\ UNCHANGED <<document, versions, vectors, chunks, deletion, question, disturbed, cleaned>>
SetFailed(d) ==
    /\ ingest[d].at = "failing"
    /\ document' = Updated(d, "failed")
    /\ ingest' = [ingest EXCEPT ![d].at = "over"]
    /\ UNCHANGED <<versions, vectors, chunks, deletion, question, disturbed, cleaned>>

-----------------------------------------------------------------------------
(* deleteDocument() and deleteOrganizationIndex() *)
Delete(d, org) ==
    /\ document[d] # NoDocument /\ deletion[d] = NoDeletion
    /\ deletion' = [deletion EXCEPT ![d] = [at |-> "vectors", org |-> org,
                                            after |-> ingest[d].at = "over"]]
    /\ UNCHANGED <<document, versions, ingest, vectors, chunks, question, disturbed, cleaned>>

\* What the organisation that deletes has in a store for the document.
Owned(d, org, store) == {c \in store : c[1] = d /\ document[d].org = org}
DeleteVectors(d) ==
    /\ deletion[d] # NoDeletion /\ deletion[d].at = "vectors"
    /\ vectors' = vectors \ Owned(d, deletion[d].org, vectors)
    /\ disturbed' = disturbed \cup {c[1] : c \in vectors \ vectors'}
    /\ deletion' = [deletion EXCEPT ![d].at = "chunks"]
    /\ UNCHANGED <<document, versions, ingest, chunks, question, cleaned>>
DeleteChunks(d) ==
    /\ deletion[d] # NoDeletion /\ deletion[d].at = "chunks"
    /\ chunks' = chunks \ Owned(d, deletion[d].org, chunks)
    /\ disturbed' = disturbed \cup {c[1] : c \in chunks \ chunks'}
    /\ deletion' = [deletion EXCEPT ![d].at = "record"]
    /\ UNCHANGED <<document, versions, ingest, vectors, question, cleaned>>
\* The record goes whoever asks.
DeleteRecord(d) ==
    /\ deletion[d] # NoDeletion /\ deletion[d].at = "record"
    /\ document' = [document EXCEPT ![d].status = "deleted"]
    /\ versions' = versions \ {d}
    /\ cleaned' = IF deletion[d].after /\ deletion[d].org = document[d].org THEN cleaned \cup {d} ELSE cleaned
    /\ deletion' = [deletion EXCEPT ![d] = NoDeletion]
    /\ UNCHANGED <<ingest, vectors, chunks, question, disturbed>>

\* Of the organisation's documents the vectors go; the chunks stay.
DeleteOrganizationIndex(org) ==
    /\ \E c \in vectors : document[c[1]].org = org
    /\ vectors' = {c \in vectors : document[c[1]].org # org}
    /\ disturbed' = disturbed \cup {c[1] : c \in vectors \ vectors'}
    /\ UNCHANGED <<document, versions, ingest, chunks, deletion, question, cleaned>>

-----------------------------------------------------------------------------
(* RagService.query(): search, resolve, cite *)
Search(q, org) ==
    /\ question[q] = NotAsked
    /\ \E found \in SUBSET {c \in vectors : document[c[1]].org = org} :
         question' = [question EXCEPT ![q] = [at |-> "resolve", org |-> org, found |-> found,
                                              results |-> {}, unknown |-> {}]]
    /\ UNCHANGED <<document, versions, ingest, vectors, chunks, deletion, disturbed, cleaned>>
Resolve(q) ==
    /\ question[q].at = "resolve"
    /\ LET found == question[q].found
           c == CHOOSE c \in found : TRUE
       IN question' = IF found = {}
                      THEN [question EXCEPT ![q].at = "cite", ![q].found = question[q].results]
                      ELSE [question EXCEPT ![q].found = found \ {c}, ![q].results = @ \cup ({c} \cap chunks)]
    /\ UNCHANGED <<document, versions, ingest, vectors, chunks, deletion, disturbed, cleaned>>
Cite(q) ==
    /\ question[q].at = "cite"
    /\ LET found == question[q].found
           c == CHOOSE c \in found : TRUE
       IN question' = IF found = {} THEN [question EXCEPT ![q].at = "answered"]
                      ELSE [question EXCEPT ![q].found = found \ {c},
                                            ![q].unknown = @ \cup IF Exists(c[1]) THEN {} ELSE {c}]
    /\ UNCHANGED <<document, versions, ingest, vectors, chunks, deletion, disturbed, cleaned>>

KnowledgeInit ==
    /\ document = [d \in Documents |-> NoDocument] /\ versions = {}
    /\ ingest = [d \in Documents |-> [at |-> "none", n |-> 0]]
    /\ vectors = {} /\ chunks = {}
    /\ deletion = [d \in Documents |-> NoDeletion]
    /\ question = [q \in Questions |-> NotAsked]
    /\ disturbed = {} /\ cleaned = {}

KnowledgeNext ==
    \/ \E d \in Documents :
         \/ CreateRecord(d) \/ StartProcessing(d) \/ Process(d) \/ CreateVersion(d) \/ Embed(d)
         \/ Upsert(d) \/ SaveChunks(d) \/ Indexed(d) \/ Fails(d) \/ SetFailed(d)
         \/ \E org \in Owners : Delete(d, org)
         \/ DeleteVectors(d) \/ DeleteChunks(d) \/ DeleteRecord(d)
    \/ \E org \in Owners : DeleteOrganizationIndex(org)
    \/ \E q \in Questions : Resolve(q) \/ Cite(q) \/ \E org \in Owners : Search(q, org)

-----------------------------------------------------------------------------
\* No word is lost by the strategy of fixed size; of the heading-aware one, a
\* section with text is in exactly one chunk, but those that are too short
\* and come before the first chunk, which are in none (HeadingAwareChunkStrategy).
ChunksCover ==
    \A d \in Documents : ingest[d].at = "version" =>
        LET text == ingest[d].text
            pieces == ChunksOf(text, ingest[d].strategy)
            covered == UNION {pieces[k] : k \in DOMAIN pieces}
        IN IF ingest[d].strategy = "fixed-size" THEN covered = DOMAIN text
           ELSE /\ \A k, l \in DOMAIN pieces : k = l \/ pieces[k] \cap pieces[l] = {}
                /\ \A i \in DOMAIN text \ covered :
                     text[i] = "heading" \/ (text[i] = "short" /\ \A j \in covered : j > i)

\* A document that is indexed is in both stores with all its chunks, unless
\* its index was deleted since; one that failed has left nothing; and nothing
\* is left of one that its organisation deleted after its ingestion was over
\* (KnowledgeManagerService, IndexingService).
IndexAgrees ==
    \A d \in Documents :
        LET inStores == {c \in vectors \cup chunks : c[1] = d}
        IN /\ document[d].status = "indexed" /\ d \notin disturbed
              => Of(d, ingest[d].n) = inStores /\ inStores \subseteq vectors \cap chunks
           /\ document[d].status = "failed" => inStores = {}
           /\ d \in cleaned => inStores = {} /\ d \notin versions

\* An answer is of chunks of the organisation that asked, and only those of a
\* document that was deleted meanwhile are cited without its name (RagService).
AnswersOwn ==
    \A q \in Questions : question[q] # NotAsked =>
        /\ \A c \in question[q].results : document[c[1]].org = question[q].org
        /\ \A c \in question[q].unknown : document[c[1]].status = "deleted"
==============================================================================
