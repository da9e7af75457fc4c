------------------------------ MODULE Backfill ------------------------------
(***************************************************************************)
(* The embedding backfill (services/jobs/embeddings.py): the night's run   *)
(* and one started by hand, over tables whose null vectors are the queue.  *)
(* A run reads each table once, cuts every column's pending texts into     *)
(* chunks, and pays one call and one commit a chunk.  Between the read and *)
(* the commit rows are created and deleted, Gemini fails, answers short or *)
(* refuses a text for good, the process dies, and the other run works on   *)
(* the same rows.                                                          *)
(*                                                                         *)
(* A table is the sequence of its rows, oldest first; a cell is a row and  *)
(* one of its columns; the vector in a cell is written as the cell whose   *)
(* text it embeds.                                                         *)
(***************************************************************************)
EXTENDS Integers, FiniteSets, FiniteSetsExt, SequencesExt, SeqTools

CONSTANTS Tables,        \* SOURCES: a sequence of [rows, columns]
          Texts,         \* the texts a run may meet: [cell -> {"good", "blank", "refused"}]
          Late,          \* the rows that are created while the model runs
          Null,          \* a null vector
          Jobs,          \* the nightly process and the runs started by hand
          Nightly,       \* the one of Jobs that starts again every night
          Cap,           \* ROWS_PER_TABLE
          BatchSize,     \* EMBEDDING_BATCH_SIZE
          MaxFailures    \* bound: failed or short calls, dead processes, deleted rows

SOURCES == Tables

AllRows == UNION {ToSet(SOURCES[t].rows) : t \in DOMAIN SOURCES}

Cells == UNION {ToSet(SOURCES[t].rows) \X ToSet(SOURCES[t].columns) : t \in DOMAIN SOURCES}

AllColumns == UNION {ToSet(SOURCES[t].columns) : t \in DOMAIN SOURCES}

\* A table has each of its rows and each of its columns once.
ASSUME TablesAssumption ==
    /\ SOURCES \in Seq([rows : Seq(AllRows), columns : Seq(AllColumns)])
    /\ SOURCES # << >>
    /\ \A t \in DOMAIN SOURCES : Distinct(SOURCES[t].rows) /\ Distinct(SOURCES[t].columns)

ASSUME BackfillAssumption ==
    /\ Texts \subseteq [Cells -> {"good", "blank", "refused"}]
    /\ Late \subseteq AllRows /\ Nightly \in Jobs
    /\ Cap \in Nat \ {0} /\ BatchSize \in Nat \ {0} /\ MaxFailures \in Nat

VARIABLES text,      \* what each cell's text is worth to Gemini; it never changes
          stored,    \* the rows that exist
          gone,      \* the rows deleted
          vec,       \* the database's vectors
          run,       \* what each job is doing
          failures   \* how many of what MaxFailures bounds happened

backfill == << text, stored, gone, vec, run, failures >>

\* A run: the table it is at, the chunks of that table still to do, whether it
\* is waiting for Gemini or holds an answer, and whether another ran beside it.
NotRunning == [pc |-> "idle", table |-> 0, chunks |-> << >>, met |-> FALSE]

Active(j) == run[j].pc # "idle"

BackfillTypeOK ==
    /\ text \in Texts /\ stored \subseteq AllRows /\ gone \subseteq AllRows
    /\ vec \in [Cells -> {Null} \cup Cells]
    /\ \A j \in Jobs : /\ run[j].pc \in {"idle", "read", "call", "write"}
                       /\ run[j].table \in 0..Len(SOURCES) /\ run[j].met \in BOOLEAN
                       /\ \A i \in DOMAIN run[j].chunks : ToSet(run[j].chunks[i]) \subseteq Cells
    /\ failures \in 0..MaxFailures

BackfillInit ==
    /\ text \in Texts
    /\ stored = AllRows \ Late
    /\ gone = {}
    /\ vec = [c \in Cells |-> Null]
    /\ run = [j \in Jobs |-> NotRunning]
    /\ failures = 0

Fault == failures < MaxFailures /\ failures' = failures + 1

\* run_embeddings. A run by hand is started once, the night's again and again.
Begin(j) ==
    /\ ~ Active(j)
    /\ j = Nightly \/ run[j].table = 0
    /\ run' = [i \in Jobs |->
                  IF i = j THEN [NotRunning EXCEPT !.pc = "read", !.table = 1,
                                             !.met = \E o \in Jobs \ {j} : Active(o)]
                  ELSE [run[i] EXCEPT !.met = @ \/ Active(i)]]
    /\ UNCHANGED << text, stored, gone, vec, failures >>

\* FAULT: the oldest rows are read, whether or not a vector is missing.
MissingAny(t) ==
    LET rows == Kept(SOURCES[t].rows, stored)
    IN  SubSeq(rows, 1, IF Len(rows) < Cap THEN Len(rows) ELSE Cap)

\* list_missing_embeddings: the oldest rows with a null in any column.
Missing(t) ==
    LET null == Kept(SOURCES[t].rows, {r \in stored \cap ToSet(SOURCES[t].rows) :
                    \E c \in ToSet(SOURCES[t].columns) : vec[<< r, c >>] = Null})
    IN  SubSeq(null, 1, IF Len(null) < Cap THEN Len(null) ELSE Cap)

\* FAULT: every text of a row that lacks a vector is sent, whichever one it lacks.
PendingAll(rows, c) ==
    Kept([i \in DOMAIN rows |-> << rows[i], c >>], {cell \in Cells : text[cell] # "blank"})

\* One column's pass over the rows already read: null here, and a text to send.
Pending(rows, c) ==
    LET cells == [i \in DOMAIN rows |-> << rows[i], c >>]
    IN  Kept(cells, {cell \in ToSet(cells) : vec[cell] = Null /\ text[cell] # "blank"})

Chunks(work) ==
    [k \in 1..((Len(work) + BatchSize - 1) \div BatchSize) |->
        SubSeq(work, (k - 1) * BatchSize + 1,
               IF k * BatchSize < Len(work) THEN k * BatchSize ELSE Len(work))]

\* Each column's pass over the rows, one after the other.
Passes(rows, columns) ==
    FoldLeft(LAMBDA chunks, c : chunks \o Chunks(Pending(rows, c)), << >>, columns)

\* The run at table t, its chunks still to do: the next table when none is left.
Onwards(j, t, chunks) ==
    IF chunks # << >> THEN [run[j] EXCEPT !.pc = "call", !.chunks = chunks]
    ELSE IF t < Len(SOURCES)
         THEN [run[j] EXCEPT !.pc = "read", !.table = t + 1, !.chunks = << >>]
         ELSE [run[j] EXCEPT !.pc = "idle", !.table = 1, !.chunks = << >>]

\* _fill_table: its rows are read once, then each column's pass goes over them.
\* The two bindings have TLC compute each value once.
ReadTable(j) ==
    /\ run[j].pc = "read"
    /\ \E rows \in {Missing(run[j].table)} :
       \E all \in {Passes(rows, SOURCES[run[j].table].columns)} :
          run' = [run EXCEPT ![j] = Onwards(j, run[j].table, all)]
    /\ UNCHANGED << text, stored, gone, vec, failures >>

Refused(chunk) == \E c \in ToSet(chunk) : text[c] = "refused"

\* FAULT: the first chunk that fails ends its table.
NextChunkNone(j) == Onwards(j, run[j].table, << >>)

\* A failed chunk is logged and the run carries on with the next one.
NextChunk(j) == Onwards(j, run[j].table, Tail(run[j].chunks))

\* The call failed with its budget spent, or answered fewer vectors than texts.
CallFails(j) ==
    /\ run[j].pc = "call"
    /\ \/ Refused(Head(run[j].chunks)) /\ UNCHANGED failures
       \/ Fault
    /\ run' = [run EXCEPT ![j] = NextChunk(j)]
    /\ UNCHANGED << text, stored, gone, vec >>

CallAnswers(j) ==
    /\ run[j].pc = "call"
    /\ ~ Refused(Head(run[j].chunks))
    /\ run' = [run EXCEPT ![j].pc = "write"]
    /\ UNCHANGED << text, stored, gone, vec, failures >>

\* FAULT: an answer that leaves the first text out is matched up by position.
WrittenShort(chunk) ==
    [c \in Cells |-> IF \E i \in 1..(Len(chunk) - 1) : chunk[i] = c
                     THEN chunk[(CHOOSE i \in 1..(Len(chunk) - 1) : chunk[i] = c) + 1]
                     ELSE vec[c]]

\* Each text's own vector, whatever the column holds by now.
Written(chunk) == [c \in Cells |-> IF c \in ToSet(chunk) THEN c ELSE vec[c]]

\* Every row of the chunk is flushed, then one commit.
WriteChunk(j) ==
    /\ run[j].pc = "write"
    /\ \A c \in ToSet(Head(run[j].chunks)) : c[1] \in stored
    /\ vec' = Written(Head(run[j].chunks))
    /\ run' = [run EXCEPT ![j] = Onwards(j, run[j].table, Tail(run[j].chunks))]
    /\ UNCHANGED << text, stored, gone, failures >>

\* A row deleted since the table was read: its UPDATE matches nothing, the
\* flush raises outside the try, and the run ends with the chunk rolled back.
WriteRaises(j) ==
    /\ run[j].pc = "write"
    /\ \E c \in ToSet(Head(run[j].chunks)) : c[1] \notin stored
    /\ run' = [run EXCEPT ![j] = [NotRunning EXCEPT !.table = 1]]
    /\ UNCHANGED << text, stored, gone, vec, failures >>

\* The process is killed or restarted.
Dies(j) ==
    /\ Active(j)
    /\ Fault
    /\ run' = [run EXCEPT ![j] = [NotRunning EXCEPT !.table = 1]]
    /\ UNCHANGED << text, stored, gone, vec >>

CreateRow(r) ==
    /\ r \in Late \ (stored \cup gone)
    /\ stored' = stored \cup {r}
    /\ UNCHANGED << text, gone, vec, run, failures >>

\* A goal deleted with everything under it.
DeleteRow(r) ==
    /\ r \in stored
    /\ Fault
    /\ stored' = stored \ {r}
    /\ gone' = gone \cup {r}
    /\ UNCHANGED << text, vec, run >>

RunStep(j) == ReadTable(j) \/ CallFails(j) \/ CallAnswers(j) \/ WriteChunk(j) \/ WriteRaises(j)

BackfillNext ==
    \/ \E j \in Jobs : Begin(j) \/ RunStep(j) \/ Dies(j)
    \/ \E r \in AllRows : CreateRow(r) \/ DeleteRow(r)

BackfillSpec == BackfillInit /\ [][BackfillNext]_backfill

\* Every night comes, a run that is going goes on, and a row of a conversation
\* or a batch being written is written.
FairBackfill ==
    /\ BackfillSpec
    /\ WF_backfill(Begin(Nightly))
    /\ \A j \in Jobs : WF_backfill(RunStep(j))
    /\ \A r \in AllRows : WF_backfill(CreateRow(r))

-----------------------------------------------------------------------------
(* What is promised.                                                       *)

\* A vector is its own row's and its own column's (embeddings.py:160-172),
\* whatever was short, deleted or written by the other run meanwhile, and an
\* empty text has none.
OwnVector ==
    \A c \in Cells : vec[c] # Null => vec[c] = c /\ text[c] = "good"

\* A text is paid for again only when two runs were going at once: "it can only
\* ever do work nobody has done" (embeddings.py:6-7) holds of runs that do not
\* overlap, and nothing keeps a run by hand from overlapping the night's.
PaidTwiceOnlyByOverlap ==
    [][ \A j \in Jobs :
          run[j].pc = "call" /\ run'[j].pc = "write" =>
             run[j].met \/ \A c \in ToSet(Head(run[j].chunks)) : vec[c] = Null ]_backfill

InTable(t, kind) ==
    {r \in ToSet(SOURCES[t].rows) :
        r \in stored /\ \E c \in ToSet(SOURCES[t].columns) : text[<< r, c >>] = kind}

\* A table no text of which is refused, and which holds fewer rows with an
\* empty text than one run reads, is embedded whole: a failure, a death or a
\* deletion only delays it, "a row that failed is still null" (embeddings.py:4-6).
EmbeddedInTheEnd ==
    \A t \in DOMAIN SOURCES : \A cell \in ToSet(SOURCES[t].rows) \X ToSet(SOURCES[t].columns) :
       (cell[1] \in stored /\ text[cell] = "good") ~>
          \/ vec[cell] # Null \/ cell[1] \in gone
          \/ InTable(t, "refused") # {}
          \/ Cardinality(InTable(t, "blank")) >= Cap

\* A refused text costs its own chunk and not the queue (embeddings.py:19-25):
\* in the end, in a table one run reads whole, each column has at most its
\* chunk's other texts missing for every refused one.
LosesOneChunk ==
    \A t \in DOMAIN SOURCES : \A c \in ToSet(SOURCES[t].columns) :
       <>[]( LET rows == {r \in ToSet(SOURCES[t].rows) : r \in stored}
                 bad  == {r \in rows : text[<< r, c >>] = "refused"}
                 null == {r \in rows : text[<< r, c >>] = "good" /\ vec[<< r, c >>] = Null}
             IN  Cardinality(rows) <= Cap
                    => Cardinality(null) <= (BatchSize - 1) * Cardinality(bad) )
=============================================================================
