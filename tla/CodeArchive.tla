---------------------------- MODULE CodeArchive ----------------------------
(***************************************************************************)
(* The index of projects in the memory database: fs_index and oracle_index *)
(* (internal/skills/rag/indexer.go), which clear a project and add the     *)
(* chunks of its files one insert after another, and the search of         *)
(* ask_codebase and ask_oracle (internal/memory/sqlite_store.go).          *)
(***************************************************************************)
EXTENDS Integers, FiniteSets

CONSTANTS
  Indexers,     \* bound: calls of the index tools
  Projects,     \* project names
  Chunks,       \* bound: chunks of the files that are found and can be read
  NameContains  \* <<p, q>>: the words of p stand in the name q, side by side

ASSUME ArchiveAssumption ==
  /\ IsFiniteSet(Indexers)
  /\ NameContains \subseteq Projects \X Projects
  /\ \A p \in Projects : <<p, p>> \in NameContains

VARIABLES
  codeIndex, \* per project and chunk, the number of rows of code_index
  indexing   \* the calls of the index tools

archiveVars == <<codeIndex, indexing>>

\* alone: no other call for the project ran at the same time or began since;
\* kept: every insert was done.
Idle == [pc |-> "new", project |-> CHOOSE p \in Projects : TRUE, left |-> {},
         cleared |-> FALSE, alone |-> TRUE, kept |-> TRUE]

ArchiveInit ==
  /\ codeIndex = [p \in Projects |-> [c \in Chunks |-> 0]]
  /\ indexing = [i \in Indexers |-> Idle]

Indexes(i, p) == indexing[i].pc \in {"clear", "walk"} /\ indexing[i].project = p

\* fs_index; clear_memory is TRUE unless the call says otherwise.
CallIndex(i) ==
  /\ indexing[i].pc = "new"
  /\ \E p \in Projects, clear \in BOOLEAN :
       indexing' = [j \in Indexers |->
         IF j = i
         THEN [Idle EXCEPT !.pc = IF clear THEN "clear" ELSE "walk",
                 !.project = p, !.left = Chunks, !.cleared = clear,
                 !.alone = ~ \E o \in Indexers : Indexes(o, p)]
         ELSE [indexing[j] EXCEPT !.alone = @ /\ indexing[j].project # p]]
  /\ UNCHANGED codeIndex

\* Mutant: the rows of every project go.
ClearProjectIndexAll(i) ==
  /\ indexing[i].pc = "clear"
  /\ codeIndex' = [p \in Projects |-> [c \in Chunks |-> 0]]
  /\ indexing' = [indexing EXCEPT ![i].pc = "walk"]

\* One DELETE; its error ends the call.
ClearProjectIndex(i) ==
  /\ indexing[i].pc = "clear"
  /\ codeIndex' = [codeIndex EXCEPT ![indexing[i].project] = [c \in Chunks |-> 0]]
  /\ indexing' = [indexing EXCEPT ![i].pc = "walk"]

ClearFails(i) ==
  /\ indexing[i].pc = "clear"
  /\ indexing' = [indexing EXCEPT ![i].pc = "failed"]
  /\ UNCHANGED codeIndex

\* The next chunk; the walk does not look at the error of an insert.
AddCodeChunk(i) ==
  /\ indexing[i].pc = "walk"
  /\ \E c \in indexing[i].left :
       \/ /\ codeIndex' = [codeIndex EXCEPT ![indexing[i].project][c] = @ + 1]
          /\ indexing' = [indexing EXCEPT ![i].left = @ \ {c}]
       \/ /\ indexing' = [indexing EXCEPT ![i].left = @ \ {c}, ![i].kept = FALSE]
          /\ UNCHANGED codeIndex

\* "BASARILI", whatever has been kept.
ReportIndexed(i) ==
  /\ indexing[i].pc = "walk" /\ indexing[i].left = {}
  /\ indexing' = [indexing EXCEPT ![i].pc = "indexed"]
  /\ UNCHANGED codeIndex

\* The rows a search can return.  FTS5 takes the project as a phrase that
\* stands in the name; the fallback, after an error of FTS5, compares names.
SearchCode(p, fts) ==
  {row \in Projects \X Chunks :
     /\ codeIndex[row[1]][row[2]] > 0
     /\ IF fts THEN <<p, row[1]>> \in NameContains ELSE p = row[1]}

ArchiveNext ==
  \E i \in Indexers :
    \/ CallIndex(i) \/ ClearProjectIndex(i) \/ ClearFails(i) \/ AddCodeChunk(i)
    \/ ReportIndexed(i)

ArchiveSpec == ArchiveInit /\ [][ArchiveNext]_archiveVars

\* The type invariant of the index.
ArchiveTypeOK ==
  /\ codeIndex \in [Projects -> [Chunks -> 0..Cardinality(Indexers)]]
  /\ \A i \in Indexers : indexing[i].left \subseteq Chunks

\* A call that reports success, cleared its project, lost no insert and met
\* no other call for the same project has left each chunk once, however often
\* the project was indexed before, and either search finds it; calls for
\* other projects may run meanwhile.
IndexedAsReported ==
  \A i \in Indexers :
    LET p == indexing[i].project
    IN  indexing[i].pc = "indexed" /\ indexing[i].cleared /\ indexing[i].alone
          /\ indexing[i].kept
        => \A c \in Chunks :
             /\ codeIndex[p][c] = 1
             /\ \A fts \in BOOLEAN : <<p, c>> \in SearchCode(p, fts)
=============================================================================
