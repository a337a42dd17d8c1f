----------------------------- MODULE Documents -----------------------------
(***************************************************************************)
(* Documents and their chunks: chunk_text of core/memory/chunking.py and   *)
(* the tables documents and memory_chunks as register_document,            *)
(* store_chunks and delete_document of core/memory/hub.py change them.     *)
(* The caller, which registers a document and then stores its chunks under *)
(* ids made from the document's and the chunk's number, is external.       *)
(*                                                                         *)
(* A text is the sequence of the lengths of its sentences, a chunk is a    *)
(* text and the first and last of the sentences joined in it.              *)
(***************************************************************************)
EXTENDS Naturals, Sequences, FiniteSets, Functions

CONSTANTS
    Docs,      \* document_ids
    Texts,     \* what the documents may contain
    MaxChars,  \* max_chunk_tokens, in characters
    Overlap,   \* overlap_tokens, in characters
    Clients,   \* calls that may be under way at the same time
    None,
    MaxCalls,  \* bound on calls
    MaxFaults  \* bound on statements and replies that fail

DocumentsAssumption ==
    /\ Texts \subseteq Seq(Nat \ {0})
    /\ None \notin Texts \cup Docs \cup [of : Texts, from : Nat, to : Nat]
    /\ {MaxChars, Overlap, MaxCalls, MaxFaults} \subseteq Nat

VARIABLES
    catalog,  \* the table documents: the text each was registered with
    rows,     \* the table memory_chunks: the chunks of each document by their number
    call,     \* what each caller does
    count,    \* calls and faults so far
    dirty     \* history: documents whose last calls failed or overlapped

vars == <<catalog, rows, call, count, dirty>>

-----------------------------------------------------------------------------
(* chunk_text.                                                             *)

\* len(" ".join(sentences)) of the sentences i .. j.
Joined(text, i, j) ==
    SumFunctionOnSet(text, i .. j) + (IF i <= j THEN j - i ELSE 0)

Fits(text, i, j, size) == Joined(text, i, j) <= size

\* Where the overlap of a chunk i .. j begins: its last sentence is always carried over.
Carry(text, i, j) ==
    IF Overlap = 0 THEN j + 1
    ELSE CHOOSE k \in i .. j : /\ k = j \/ Fits(text, k, j, Overlap)
                               /\ \A l \in i .. k - 1 : ~Fits(text, l, j, Overlap)

\* The sentences i .. j of a text.
Chunk(text, i, j) == [of |-> text, from |-> i, to |-> j]

\* One more sentence: a chunk ends before it when it does not fit.
AddSentence(text, acc, j) ==
    IF acc.first < j /\ ~Fits(text, acc.first, j, MaxChars)
    THEN [chunks |-> Append(acc.chunks, Chunk(text, acc.first, j - 1)),
          first |-> Carry(text, acc.first, j - 1)]
    ELSE acc

\* The chunks that are complete after j sentences, and where the current one begins.
Scanned(text) ==
    LET after[j \in 0 .. Len(text)] ==
            IF j = 0 THEN [chunks |-> <<>>, first |-> 1] ELSE AddSentence(text, after[j - 1], j)
    IN  after

ChunkText(text) ==
    LET end == Scanned(text)[Len(text)]
    IN  IF text = <<>> THEN <<>> ELSE Append(end.chunks, Chunk(text, end.first, Len(text)))

\* A text has no more chunks than sentences.
Numbers == UNION {DOMAIN text : text \in Texts}

-----------------------------------------------------------------------------
Idle == [at |-> "idle", doc |-> None, text |-> None, alone |-> FALSE]

Limits == [calls |-> MaxCalls, faults |-> MaxFaults]

TypeOK ==
    /\ catalog \in [Docs -> Texts \cup {None}]
    /\ \A d \in Docs, k \in Numbers : rows[d][k] = None \/ rows[d][k].of \in Texts
    /\ call \in [Clients -> [at : {"idle", "register", "store", "delete", "forget"},
                            doc : Docs \cup {None}, text : Texts \cup {None},
                            alone : BOOLEAN]]
    /\ count \in [DOMAIN Limits -> Nat]
    /\ dirty \subseteq Docs

NoRows == [k \in Numbers |-> None]

Init ==
    /\ catalog = [d \in Docs |-> None]
    /\ rows = [d \in Docs |-> NoRows]
    /\ call = [c \in Clients |-> Idle]
    /\ count = [b \in DOMAIN Limits |-> 0]
    /\ dirty = {}

Spend(b) == count[b] < Limits[b] /\ count' = [count EXCEPT ![b] = @ + 1]

Goto(c, at) == call' = [call EXCEPT ![c].at = at]

\* A call on document d begins; those on the same document are no longer alone.
Begin(c, at, d, text) ==
    /\ call[c] = Idle
    /\ Spend("calls")
    /\ LET others == {e \in Clients \ {c} : call[e].doc = d}
       IN  /\ call' = [e \in Clients |->
                IF e = c THEN [at |-> at, doc |-> d, text |-> text, alone |-> others = {}]
                ELSE IF e \in others THEN [call[e] EXCEPT !.alone = FALSE] ELSE call[e]]
           /\ dirty' = IF others = {} THEN dirty ELSE dirty \cup {d}
    /\ UNCHANGED <<catalog, rows>>

\* A call ends; the document is as it left it unless another call was under way.
End(c) ==
    /\ call' = [call EXCEPT ![c] = Idle]
    /\ dirty' = IF call[c].alone THEN dirty \ {call[c].doc} ELSE dirty

\* A call ends with an error.
Raise(c) ==
    /\ call' = [call EXCEPT ![c] = Idle]
    /\ dirty' = dirty \cup {call[c].doc}

-----------------------------------------------------------------------------
(* The operations.                                                         *)

Ingest(c, d, text) == Begin(c, "register", d, text)

Registered(c) == [catalog EXCEPT ![call[c].doc] = call[c].text]

RegisterDocument(c) ==
    /\ call[c].at = "register"
    /\ catalog' = Registered(c)
    /\ Goto(c, "store")
    /\ UNCHANGED <<rows, count, dirty>>

\* Faulty variant: ON CONFLICT (chunk_id) DO NOTHING.
StoreMissing(c) ==
    /\ call[c].at = "store"
    /\ LET chunks == ChunkText(call[c].text)
       IN  rows' = [rows EXCEPT ![call[c].doc] =
                     [k \in Numbers |-> IF @[k] = None /\ k \in DOMAIN chunks THEN chunks[k]
                                        ELSE @[k]]]
    /\ End(c)
    /\ UNCHANGED <<catalog, count>>

\* store_chunks: one transaction, each chunk inserted or put in the place of the one with
\* its id.  What the document had beyond them stays.
Stored(c) ==
    LET chunks == ChunkText(call[c].text)
    IN  [rows EXCEPT ![call[c].doc] =
            [k \in Numbers |-> IF k \in DOMAIN chunks THEN chunks[k] ELSE @[k]]]

StoreChunks(c) ==
    /\ call[c].at = "store"
    /\ catalog[call[c].doc] # None
    /\ rows' = Stored(c)
    /\ End(c)
    /\ UNCHANGED <<catalog, count>>

\* The document was deleted meanwhile: its foreign key refuses the chunks.
StoreRefused(c) ==
    /\ call[c].at = "store"
    /\ catalog[call[c].doc] = None
    /\ Raise(c)
    /\ UNCHANGED <<catalog, rows, count>>

\* delete_document: the chunks, and in a statement of its own the document, with what
\* chunks it has by then.
DeleteDocument(c, d) == Begin(c, "delete", d, None)

DeleteChunks(c) ==
    /\ call[c].at = "delete"
    /\ rows' = [rows EXCEPT ![call[c].doc] = NoRows]
    /\ Goto(c, "forget")
    /\ UNCHANGED <<catalog, count, dirty>>

DeleteRow(c) ==
    /\ call[c].at = "forget"
    /\ catalog' = [catalog EXCEPT ![call[c].doc] = None]
    /\ rows' = [rows EXCEPT ![call[c].doc] = NoRows]
    /\ End(c)
    /\ UNCHANGED count

\* A statement fails, or is done and its reply is lost, or the caller dies.
CallFails(c) ==
    /\ call[c] # Idle
    /\ Spend("faults")
    /\ Raise(c)
    /\ UNCHANGED <<catalog, rows>>

RegisterLost(c) ==
    /\ call[c].at = "register"
    /\ Spend("faults")
    /\ catalog' = Registered(c)
    /\ Raise(c)
    /\ UNCHANGED rows

StoreLost(c) ==
    /\ call[c].at = "store"
    /\ catalog[call[c].doc] # None
    /\ Spend("faults")
    /\ rows' = Stored(c)
    /\ Raise(c)
    /\ UNCHANGED catalog

-----------------------------------------------------------------------------
Next ==
    \E c \in Clients :
      \/ \E d \in Docs, text \in Texts : Ingest(c, d, text)
      \/ \E d \in Docs : DeleteDocument(c, d)
      \/ RegisterDocument(c) \/ StoreChunks(c) \/ StoreRefused(c)
      \/ DeleteChunks(c) \/ DeleteRow(c)
      \/ CallFails(c) \/ RegisterLost(c) \/ StoreLost(c)

Spec == Init /\ [][Next]_vars

-----------------------------------------------------------------------------
(* Properties.                                                             *)

\* Chunks c of a text, in order, have every sentence, each a new one and none out of order;
\* one that is too long has one new sentence only.
Cover(text, c) ==
    /\ c[1].from = 1 /\ c[Len(c)].to = Len(text)
    /\ \A k \in 2 .. Len(c) : c[k].from <= c[k - 1].to + 1 /\ c[k - 1].to < c[k].to
    /\ \A k \in DOMAIN c : \/ Fits(text, c[k].from, c[k].to, MaxChars)
                            \/ c[k].to = (IF k = 1 THEN 1 ELSE c[k - 1].to + 1)

\* What chunk_text does with the texts, and that there are numbers for their chunks.
ChunksCover ==
    \A text \in Texts :
        /\ DOMAIN ChunkText(text) = 1 .. Len(ChunkText(text))
        /\ DOMAIN ChunkText(text) \subseteq Numbers
        /\ \A k \in DOMAIN ChunkText(text) :
               ChunkText(text)[k] # None /\ ChunkText(text)[k].of = text
        /\ text = <<>> \/ Cover(text, ChunkText(text))

\* A document in the catalog whose last call was alone and succeeded has all the text it
\* was registered with in its first chunks, which cover it, whatever it had before (but
\* it keeps the last chunks of a text that had more of them); and there are no chunks of
\* documents that are not in the catalog.
CatalogIsWhole ==
    \A d \in Docs :
      LET text == catalog[d]
      IN  IF text = None THEN rows[d] = NoRows
          ELSE d \in dirty \/ (\E c \in Clients : call[c].doc = d) \/ text = <<>> \/
               LET n == Len(ChunkText(text))
                   first == [k \in 1 .. n |-> rows[d][k]]
               IN  /\ \A k \in 1 .. n : first[k] # None /\ first[k].of = text
                   /\ Cover(text, first)
=============================================================================
