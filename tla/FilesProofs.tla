---------------------------- MODULE FilesProofs ----------------------------
(***************************************************************************)
(* Proofs about what the agent's tools do to files, for any number of      *)
(* their callers.  Of the Python tools: an edit that fails is undone, and  *)
(* a daemon that is up can run the tools it offers.  Of the file tools:    *)
(* what was in a file stays in it or in a copy of it.                      *)
(***************************************************************************)
EXTENDS PythonTools, FileChanges, TLAPS

USE DEF toolVars, placeVars, importVars

\* An answer stands in the record of a call only between the end of the edit
\* and its return; a write meanwhile marks the record.
AnswersAreReturned ==
  \A c \in ToolCallers : toolCall[c].answer # "none" => toolCall[c].pc = "returned"

\* A start gets as far as loading the tools only with an interpreter and uv.
VenvBeforeTools == daemon \in {"load", "up"} => venv.python # "none" /\ venv.uv

\* What is to be shown of script and records after each step.
RecordsRight ==
  /\ script \in Scripts /\ toolCall \in [ToolCallers -> ToolCall]
  /\ AnswersAreReturned /\ FailedEditUndone

ScriptsIInv == ScriptsTypeOK /\ RecordsRight /\ VenvBeforeTools

\* The start: no call, no answer, a daemon that is down.
LEMMA ScriptsInitial == ToolsInit => ScriptsIInv
BY DEF ToolsInit, ScriptsIInv, RecordsRight, ScriptsTypeOK, AnswersAreReturned, FailedEditUndone,
       VenvBeforeTools, Scripts, Settings, ToolCall, ToolPcs, NoToolCall

\* A record that others have marked is still one of a call, and has lost nothing.
LEMMA TouchedRecord ==
  ASSUME ScriptsIInv, NEW d \in ToolCallers
  PROVE  /\ Touched(d) \in ToolCall
         /\ Touched(d).pc = toolCall[d].pc
         /\ Touched(d).answer = toolCall[d].answer
         /\ toolCall[d].answer # "none" => Touched(d).touched
BY DEF ScriptsIInv, RecordsRight, ToolCall, Touched, Editing, AnswersAreReturned

\* Whoever writes the script marks the records of all others whose edit is under
\* way or has been answered; its own must agree with what it has written.
LEMMA RewriteKeeps ==
  ASSUME ScriptsIInv, NEW c \in ToolCallers, NEW s \in Scripts, NEW r \in ToolCall,
         Rewrite(c, s, r),
         r.answer # "none" => r.pc = "returned",
         r.answer = "failed" /\ ~r.touched /\ r.rollback # "failed" => s = r.backup
  PROVE  RecordsRight'
<1>1. /\ script' = s
      /\ toolCall' = [d \in ToolCallers |-> IF d = c THEN r ELSE Touched(d)]
  BY DEF Rewrite
<1>2. toolCall' \in [ToolCallers -> ToolCall]
  BY <1>1, TouchedRecord
<1>3. AnswersAreReturned'
  BY <1>1, TouchedRecord DEF AnswersAreReturned, ScriptsIInv, RecordsRight
<1>4. ASSUME NEW d \in ToolCallers,
             toolCall'[d].answer = "failed", ~toolCall'[d].touched,
             toolCall'[d].rollback # "failed"
      PROVE  script' = toolCall'[d].backup
  <2>1. CASE d = c
    BY <1>1, <1>4, <2>1
  <2>2. CASE d # c
    BY <1>1, <1>4, <2>2, TouchedRecord
  <2> QED
    BY <2>1, <2>2
<1> QED
  BY <1>1, <1>2, <1>3, <1>4 DEF FailedEditUndone, RecordsRight

\* A step that leaves the script alone and changes one call's record, keeping
\* its answer or taking it away.
LEMMA RecordKeeps ==
  ASSUME ScriptsIInv, NEW c \in ToolCallers, NEW r \in ToolCall,
         toolCall' = [toolCall EXCEPT ![c] = r], script' = script,
         r.answer # "failed", r.answer # "none" => r.pc = "returned"
  PROVE  RecordsRight'
BY DEF ScriptsIInv, RecordsRight, AnswersAreReturned, FailedEditUndone

\* Every way out of an edit that has failed writes back what was there.
LEMMA RollBackKeeps ==
  ASSUME ScriptsIInv, NEW c \in ToolCallers, RollBack(c)
  PROVE  ScriptsIInv'
<1> DEFINE failed(how) == [toolCall[c] EXCEPT !.pc = "returned", !.answer = "failed",
                                              !.rollback = how]
<1>1. toolCall[c] \in ToolCall /\ script \in Scripts
  BY DEF ScriptsIInv, RecordsRight
<1>2. /\ failed("done") \in ToolCall /\ failed("failed") \in ToolCall
      /\ toolCall[c].backup \in Scripts /\ Torn \in Scripts
  BY <1>1 DEF ToolCall, ToolPcs, Scripts
<1>3. /\ failed("done").pc = "returned" /\ failed("failed").pc = "returned"
      /\ failed("done").backup = toolCall[c].backup
      /\ failed("failed").rollback = "failed"
  BY <1>1 DEF ToolCall
<1>4. RecordsRight'
  <2>1. CASE Rewrite(c, toolCall[c].backup, failed("done"))
    BY <1>2, <1>3, <2>1, RewriteKeeps
  <2>2. ASSUME NEW s \in {script, Torn}, Rewrite(c, s, failed("failed"))
        PROVE  RecordsRight'
    BY <1>1, <1>2, <1>3, <2>2, RewriteKeeps
  <2> QED
    BY <2>1, <2>2 DEF RollBack
<1> QED
  BY <1>4 DEF RollBack, ScriptsIInv, RecordsRight, ScriptsTypeOK, VenvBeforeTools

\* Every step of the daemon, the tools and the import keeps the invariant.
LEMMA ScriptsInductive ==
  ScriptsIInv /\ [ToolsNext]_toolVars => ScriptsIInv'
<1> SUFFICES ASSUME ScriptsIInv, [ToolsNext]_toolVars PROVE ScriptsIInv'
  OBVIOUS
<1>a. /\ ScriptsTypeOK /\ VenvBeforeTools /\ RecordsRight
      /\ AnswersAreReturned /\ FailedEditUndone
  BY DEF ScriptsIInv, RecordsRight
<1>b. NoToolCall \in ToolCall /\ NoToolCall.answer = "none" /\ NoToolCall.pc = "idle"
  BY DEF NoToolCall, ToolCall, ToolPcs, Scripts
\* Steps that write neither the script nor a record.
<1>1. ASSUME UNCHANGED <<script, toolCall>>,
             Launch \/ SetupVenv \/ InstallUv \/ LoadAll \/ DropSkill \/ ImportRow \/ ImportTool
      PROVE  ScriptsIInv'
  <2>1. RecordsRight'
    BY <1>1, <1>a DEF RecordsRight, AnswersAreReturned, FailedEditUndone
  <2>t. /\ daemon \in {"down", "venv", "load", "up"}
        /\ venv \in [python : {"none", "partial", "whole"}, uv : BOOLEAN]
        /\ row \in Settings /\ active \in Settings
        /\ skillFile \in {"none", "dropped"} /\ import \in {"idle", "row", "move"}
    BY <1>a DEF ScriptsTypeOK
  <2>s. ASSUME /\ daemon' \in {"down", "venv", "load", "up"}
               /\ venv' \in [python : {"none", "partial", "whole"}, uv : BOOLEAN]
               /\ row' \in Settings /\ active' \in Settings
               /\ skillFile' \in {"none", "dropped"} /\ import' \in {"idle", "row", "move"}
        PROVE  ScriptsTypeOK'
    BY <1>1, <1>a, <2>s DEF ScriptsTypeOK
  <2>2. CASE Launch
    <3>1. VenvBeforeTools'
      BY <2>2 DEF Launch, VenvBeforeTools
    <3> QED
      BY <2>1, <2>2, <2>s, <2>t, <3>1 DEF Launch, ScriptsIInv
  <2>3. CASE SetupVenv
    <3>1. /\ daemon' \in {"down", "venv", "load"}
          /\ UNCHANGED <<row, active, skillFile, import>>
      BY <2>3 DEF SetupVenv
    <3>2. venv' \in [python : {"none", "partial", "whole"}, uv : BOOLEAN]
      BY <2>3, <2>t DEF SetupVenv
    <3>3. VenvBeforeTools'
      BY <2>3 DEF SetupVenv, VenvBeforeTools
    <3> QED
      BY <2>1, <2>s, <2>t, <3>1, <3>2, <3>3 DEF ScriptsIInv
  <2>4. CASE InstallUv
    <3>1. /\ daemon' \in {"down", "load"} /\ UNCHANGED <<row, active, skillFile, import>>
      BY <2>4 DEF InstallUv
    <3>2. venv' \in [python : {"none", "partial", "whole"}, uv : BOOLEAN]
      BY <2>4, <2>t DEF InstallUv
    <3>3. VenvBeforeTools'
      BY <2>4, <2>t DEF InstallUv, VenvBeforeTools
    <3> QED
      BY <2>1, <2>s, <2>t, <3>1, <3>2, <3>3 DEF ScriptsIInv
  <2>5. CASE LoadAll
    <3>1. VenvBeforeTools'
      BY <1>a, <2>5 DEF LoadAll, VenvBeforeTools
    <3>2. active' \in Settings
      BY <2>5, <2>t DEF LoadAll, Settings
    <3> QED
      BY <2>1, <2>5, <2>s, <2>t, <3>1, <3>2 DEF LoadAll, ScriptsIInv
  <2>6. CASE DropSkill \/ ImportRow \/ ImportTool
    <3>1. VenvBeforeTools'
      BY <1>a, <2>6 DEF DropSkill, ImportRow, ImportTool, VenvBeforeTools
    <3>2. /\ UNCHANGED <<daemon, venv>>
          /\ row' \in Settings /\ active' \in Settings
          /\ skillFile' \in {"none", "dropped"} /\ import' \in {"idle", "row", "move"}
      BY <2>6, <2>t DEF DropSkill, ImportRow, ImportTool, Settings
    <3> QED
      BY <2>1, <2>s, <2>t, <3>1, <3>2 DEF ScriptsIInv
  <2> QED
    BY <1>1, <2>2, <2>3, <2>4, <2>5, <2>6
<1>2. CASE Halt
  <2>1. RecordsRight'
    BY <1>2, <1>a, <1>b DEF Halt, RecordsRight, AnswersAreReturned, FailedEditUndone
  <2> QED
    BY <1>2, <1>a, <2>1 DEF Halt, ScriptsIInv, RecordsRight, ScriptsTypeOK, VenvBeforeTools,
       Settings
<1>3. CASE ImportScript
  <2>1. script' \in Scripts
    BY <1>3, <1>a DEF ImportScript, RecordsRight, Scripts
  <2>2. toolCall' \in [ToolCallers -> ToolCall] /\ AnswersAreReturned'
    BY <1>3, <1>a, TouchedRecord DEF ImportScript, AnswersAreReturned
  <2>3. FailedEditUndone'
    BY <1>3, TouchedRecord DEF ImportScript, FailedEditUndone
  <2> QED
    BY <1>3, <1>a, <2>1, <2>2, <2>3
    DEF ImportScript, ScriptsIInv, RecordsRight, ScriptsTypeOK, VenvBeforeTools
<1>4. ASSUME NEW c \in ToolCallers, ToolStep(c)
      PROVE  ScriptsIInv'
  <2> USE DEF ToolAt
  <2>a. toolCall[c] \in ToolCall /\ c \in Scripts /\ Torn \in Scripts /\ Gone \in Scripts
    BY <1>a DEF RecordsRight, Scripts
  <2>b. toolCall[c].answer # "none" => toolCall[c].pc = "returned"
    BY <1>a DEF AnswersAreReturned
  \* Writes of the script, but for the rollback.
  <2>1. ASSUME NEW s \in Scripts, NEW r \in ToolCall, Rewrite(c, s, r),
               r.answer = "none", UNCHANGED <<daemon, venv, row, active, importVars>>
        PROVE  ScriptsIInv'
    BY <1>a, <2>1, RewriteKeeps DEF ScriptsIInv, RecordsRight, ScriptsTypeOK, VenvBeforeTools
  \* Steps that change the record alone, or the record and the row.
  <2>2. ASSUME NEW r \in ToolCall, toolCall' = [toolCall EXCEPT ![c] = r],
               r.answer # "failed", r.answer # "none" => r.pc = "returned",
               UNCHANGED <<daemon, venv, script, active, importVars>>, row' \in Settings
        PROVE  ScriptsIInv'
    BY <1>a, <2>2, RecordKeeps DEF ScriptsIInv, RecordsRight, ScriptsTypeOK, VenvBeforeTools
  <2>c. row \in Settings /\ "none" \in Settings /\ RowOf(c) \in Settings
    BY <1>a DEF ScriptsTypeOK, RowOf, Settings
  <2>3. CASE StartEdit(c)
    <3>1. [NoToolCall EXCEPT !.pc = "edit", !.backup = script] \in ToolCall
      BY <1>a DEF NoToolCall, ToolCall, ToolPcs, RecordsRight
    <3> QED
      BY <2>2, <2>3, <2>c, <3>1 DEF StartEdit, NoToolCall
  <2>4. CASE WriteCode(c)
    BY <2>1, <2>4, <2>a, <2>b, RollBackKeeps DEF WriteCode
  <2>5. CASE TakePackages(c)
    <3>1. [toolCall[c] EXCEPT !.packages = TRUE] \in ToolCall
      BY <2>a DEF ToolCall
    <3>2. CASE RollBack(c)
      BY <3>2, RollBackKeeps
    <3>3. CASE toolCall' = [toolCall EXCEPT ![c] = [toolCall[c] EXCEPT !.packages = TRUE]]
               /\ UNCHANGED <<daemon, venv, placeVars, importVars>>
      <4>1. [toolCall[c] EXCEPT !.packages = TRUE].answer = "none"
        BY <2>5, <2>a, <2>b DEF ToolCall, TakePackages
      <4> QED
        BY <2>2, <2>c, <3>1, <3>3, <4>1
    <3> QED
      BY <2>5, <3>2, <3>3 DEF TakePackages
  <2>6. CASE RunFails(c)
    BY <2>6, RollBackKeeps DEF RunFails
  <2>7. ASSUME NEW pc \in ToolPcs, toolCall[c].pc # "returned", ToolGoto(c, pc),
               UNCHANGED <<daemon, venv, script, active, importVars>>, row' \in Settings
        PROVE  ScriptsIInv'
    <3>1. [toolCall[c] EXCEPT !.pc = pc] \in ToolCall
      BY <2>a DEF ToolCall
    <3>2. [toolCall[c] EXCEPT !.pc = pc].answer = "none"
      BY <2>7, <2>a, <2>b DEF ToolCall
    <3> QED
      BY <2>2, <2>7, <3>1, <3>2 DEF ToolGoto
  <2>8. ASSUME ToolReturns(c), UNCHANGED <<daemon, venv, script, active, importVars>>,
               row' \in Settings
        PROVE  ScriptsIInv'
    BY <1>b, <2>2, <2>8 DEF ToolReturns
  <2>9. CASE RunPasses(c) \/ RegisterEdit(c) \/ UseTool(c)
    BY <2>7, <2>9, <2>c DEF RunPasses, RegisterEdit, UseTool, ToolPcs
  <2>10. CASE FinishEdit(c)
    <3>1. [toolCall[c] EXCEPT !.pc = "returned", !.answer = "ok"] \in ToolCall
      BY <2>a DEF ToolCall, ToolPcs
    <3>2. LET r == [toolCall[c] EXCEPT !.pc = "returned", !.answer = "ok"]
          IN  r.answer = "ok" /\ r.pc = "returned"
      BY <2>a DEF ToolCall
    <3> QED
      BY <2>2, <2>10, <2>c, <3>1, <3>2 DEF FinishEdit
  <2>11. CASE Answered(c) \/ UseEnds(c) \/ DeleteRow(c) \/ StudioRegisters(c)
    BY <2>8, <2>11, <2>c DEF Answered, UseEnds, DeleteRow, StudioRegisters
  <2>12. CASE StudioWrites(c)
    <3>1. /\ [toolCall[c] EXCEPT !.pc = "preparing"] \in ToolCall
          /\ [toolCall[c] EXCEPT !.pc = "preparing"].answer = "none"
      BY <2>12, <2>a, <2>b DEF ToolCall, ToolPcs, StudioWrites
    <3>2. \A s \in {script, Torn} : s \in Scripts
      BY <1>a, <2>a DEF RecordsRight
    <3> QED
      BY <1>b, <2>1, <2>12, <2>a, <3>1, <3>2 DEF StudioWrites
  <2>13. CASE StudioPrepares(c)
    <3>1. ASSUME NEW said \in BOOLEAN,
                 toolCall' = [toolCall EXCEPT ![c].pc = "testing", ![c].packages = said],
                 UNCHANGED <<daemon, venv, placeVars, importVars>>
          PROVE  ScriptsIInv'
      <4> DEFINE r == [toolCall[c] EXCEPT !.pc = "testing", !.packages = said]
      <4>1. r \in ToolCall /\ r.answer = "none"
        BY <2>13, <2>a, <2>b DEF ToolCall, ToolPcs, StudioPrepares
      <4>2. toolCall' = [toolCall EXCEPT ![c] = r]
        BY <3>1, <1>a DEF RecordsRight
      <4> QED
        BY <2>2, <2>c, <3>1, <4>1, <4>2
    <3> QED
      BY <2>8, <2>13, <2>c, <3>1 DEF StudioPrepares
  <2>14. CASE StudioRuns(c)
    BY <2>7, <2>8, <2>14, <2>c DEF StudioRuns, ToolPcs
  <2>15. CASE DeleteScript(c)
    <3>1. /\ [toolCall[c] EXCEPT !.pc = "unlisting"] \in ToolCall
          /\ [toolCall[c] EXCEPT !.pc = "unlisting"].answer = "none"
      BY <2>15, <2>a, <2>b DEF ToolCall, ToolPcs, DeleteScript
    <3> QED
      BY <2>1, <2>15, <2>a, <3>1 DEF DeleteScript
  <2> QED
    BY <1>4, <2>3, <2>4, <2>5, <2>6, <2>9, <2>10, <2>11, <2>12, <2>13, <2>14, <2>15
    DEF ToolStep
<1>5. CASE UNCHANGED toolVars
  BY <1>5, <1>a DEF ScriptsIInv, RecordsRight, ScriptsTypeOK, AnswersAreReturned,
     FailedEditUndone, VenvBeforeTools
<1> QED
  BY <1>1, <1>2, <1>3, <1>4, <1>5
  DEF ToolsNext, Launch, SetupVenv, InstallUv, LoadAll, DropSkill, ImportRow, ImportTool

\* A tool that can be run is offered by a daemon that is up.
LEMMA ScriptsIInvSuffices == ScriptsIInv => FailedEditUndone /\ ActiveToolsRun
BY DEF ScriptsIInv, RecordsRight, VenvBeforeTools, ActiveToolsRun, CanRun

\* The type invariant of the Python tools: script, row and entry keep their
\* kinds and every call its record, whatever starts and imports fail.
THEOREM ScriptsTyped == ToolsSpec => []ScriptsTypeOK
<1>1. ScriptsIInv => ScriptsTypeOK
  BY DEF ScriptsIInv
<1> QED
  BY <1>1, ScriptsInitial, ScriptsInductive, PTL DEF ToolsSpec

\* edit_python_tool undoes an edit that fails at whichever of its steps, for
\* any number of callers that edit, write and delete the tool meanwhile.
THEOREM FailedEditsUndone == ToolsSpec => []FailedEditUndone
<1> QED
  BY ScriptsInitial, ScriptsInductive, ScriptsIInvSuffices, PTL DEF ToolsSpec

\* validatePaths: a daemon that is up, after whichever starts that failed
\* half-way, can run each tool it offers whose script is there.
THEOREM OfferedToolsRun == ToolsSpec => []ActiveToolsRun
<1> QED
  BY ScriptsInitial, ScriptsInductive, ScriptsIInvSuffices, PTL DEF ToolsSpec

-----------------------------------------------------------------------------
(* The file tools                                                          *)

\* Two calls that are under way know of each other.
OverlapsMarked ==
  \A c, d \in FileCallers : c # d /\ Unfinished(c) /\ Unfinished(d) => fileCall[c].overlapped

\* What a call is about to do is of its kind, and a copy is not the path itself.
CoursesKept ==
  \A c \in FileCallers :
    /\ fileCall[c].pc = "remove" => fileCall[c].mode = "remove"
    /\ fileCall[c].pc = "insert" => fileCall[c].mode = "insert"
    /\ fileCall[c].pc = "rename" => fileCall[c].copy \in {Bak} \cup {BakAt(s) : s \in Seconds}

\* The call c may change the path: its content is in the copy.
Saved(c) ==
  Exists(Itself) =>
    LET copy == fileCall[c].copy
    IN  copy # Itself /\ Exists(copy) /\ disk[copy] = disk[Itself]

\* A call that had the path to itself takes no name that is in use for its first
\* copy, and it writes only when the content is saved.
SavedBeforeWrite ==
  \A c \in FileCallers : ~fileCall[c].overlapped =>
    /\ fileCall[c].pc = "rename" /\ fileCall[c].copy = Bak => ~Exists(Bak)
    /\ fileCall[c].pc \in {"write", "replace"} =>
         God \/ fileCall[c].unsaved \/ fileCall[c].mode = "insert" \/ Saved(c)

FileIInv == FileTypeOK /\ OverlapsMarked /\ CoursesKept /\ SavedBeforeWrite

\* No two of the names are the same, and an absent file has no content.
LEMMA NamesDiffer ==
  /\ Itself \in Names /\ Bak \in Names /\ Itself # Bak
  /\ \A s \in Seconds :
       /\ BakAt(s) \in Names /\ EditAt(s) \in Names /\ TrashAt(s) \in Names
       /\ BakAt(s) \notin {Itself, Bak} /\ EditAt(s) \notin {Itself, Bak}
       /\ TrashAt(s) \notin {Itself, Bak}
  /\ Absent \notin SUBSET Pieces
BY FileAssumption DEF Names, Itself, Bak, BakAt, EditAt, TrashAt, Pieces

\* A call's record when it begins and when it is done.
LEMMA NoFileCallTyped == NoFileCall \in FileCall /\ NoFileCall.pc = "idle"
BY NamesDiffer DEF NoFileCall, FileCall, FilePcs, FileModes

LEMMA FileInitial == FileInit => FileIInv
<1> SUFFICES ASSUME FileInit
             PROVE  FileIInv
  OBVIOUS
<1>1. FileTypeOK
  BY NamesDiffer, NoFileCallTyped, FileAssumption DEF FileInit, FileTypeOK, Seconds, Pieces
<1>2. OverlapsMarked /\ CoursesKept /\ SavedBeforeWrite
  BY DEF FileInit, OverlapsMarked, CoursesKept, SavedBeforeWrite, Unfinished, NoFileCall
<1> QED
  BY <1>1, <1>2 DEF FileIInv

\* The other calls keep the invariant when one of them takes a step: those that
\* share the path with it are marked.
LEMMA OthersKept ==
  ASSUME FileIInv, NEW c \in FileCallers, NEW r \in FileCall,
         fileCall' = [fileCall EXCEPT ![c] = r],
         Unfinished(c), UNCHANGED <<securityLevel, place, clock, fileCalls>>,
         r.pc # "idle" => r.overlapped = fileCall[c].overlapped,
         disk' \in [Names -> (SUBSET Pieces) \cup {Absent}],
         r.pc = "remove" => r.mode = "remove",
         r.pc = "insert" => r.mode = "insert",
         r.pc = "rename" => r.copy \in {Bak} \cup {BakAt(s) : s \in Seconds},
         r.pc = "rename" /\ r.copy = Bak /\ ~r.overlapped => ~Exists(Bak)',
         r.pc \in {"write", "replace"} /\ ~r.overlapped =>
           God \/ r.unsaved \/ r.mode = "insert" \/ Saved(c)'
  PROVE  FileIInv'
<1> USE DEF FileIInv
<1>1. fileCall' \in [FileCallers -> FileCall] /\ fileCall'[c] = r
      /\ \A d \in FileCallers : d # c => fileCall'[d] = fileCall[d]
  BY DEF FileTypeOK
<1>2. FileTypeOK'
  BY <1>1 DEF FileTypeOK
<1>3. OverlapsMarked'
  BY <1>1 DEF OverlapsMarked, Unfinished
<1>4. CoursesKept'
  BY <1>1 DEF CoursesKept, Seconds
<1>5. ASSUME NEW d \in FileCallers, ~fileCall'[d].overlapped
      PROVE  /\ fileCall'[d].pc = "rename" /\ fileCall'[d].copy = Bak => ~Exists(Bak)'
             /\ fileCall'[d].pc \in {"write", "replace"} =>
                  God' \/ fileCall'[d].unsaved \/ fileCall'[d].mode = "insert" \/ Saved(d)'
  <2>1. CASE d = c
    BY <1>1, <1>5, <2>1 DEF God
  <2>2. CASE d # c
    <3>1. fileCall[d].pc = "idle" /\ fileCall'[d] = fileCall[d]
      BY <1>1, <1>5, <2>2 DEF OverlapsMarked, Unfinished
    <3> QED
      BY <3>1
  <2> QED
    BY <2>1, <2>2
<1> QED
  BY <1>2, <1>3, <1>4, <1>5 DEF SavedBeforeWrite

\* A call that begins marks those under way, and is marked if there are any.
LEMMA BeginKept ==
  ASSUME FileIInv, NEW c \in FileCallers, InFile(c, "idle"),
         NEW mode \in FileModes, NEW pc \in {"stat", "edit"}, Enters(c, mode, pc),
         UNCHANGED <<securityLevel, place, disk, clock>>
  PROVE  FileIInv'
<1> USE DEF FileIInv
<1> DEFINE others == {d \in FileCallers : Unfinished(d)}
           r == [NoFileCall EXCEPT !.pc = pc, !.mode = mode, !.overlapped = others # {}]
<1>1. r \in FileCall /\ r.pc = pc /\ r.overlapped = (others # {}) /\ pc \in FilePcs
  BY NoFileCallTyped, NamesDiffer DEF NoFileCall, FileCall, FilePcs
<1>2. \A d \in FileCallers \ {c} :
        fileCall'[d] = [fileCall[d] EXCEPT !.overlapped = @ \/ d \in others]
  BY DEF Enters
<1>3. fileCall'[c] = r /\ fileCall' = [d \in FileCallers |-> fileCall'[d]]
  BY DEF Enters
<1> HIDE DEF r, others
<1>4. \A d \in FileCallers \ {c} :
        /\ fileCall'[d] \in FileCall
        /\ fileCall'[d].pc = fileCall[d].pc /\ fileCall'[d].mode = fileCall[d].mode
        /\ fileCall'[d].copy = fileCall[d].copy /\ fileCall'[d].unsaved = fileCall[d].unsaved
        /\ fileCall'[d].overlapped = (fileCall[d].overlapped \/ d \in others)
  <2> SUFFICES ASSUME NEW d \in FileCallers \ {c}
               PROVE  LET s == fileCall'[d] IN
                        /\ s \in FileCall
                        /\ s.pc = fileCall[d].pc /\ s.mode = fileCall[d].mode
                        /\ s.copy = fileCall[d].copy /\ s.unsaved = fileCall[d].unsaved
                        /\ s.overlapped = (fileCall[d].overlapped \/ d \in others)
    OBVIOUS
  <2>1. fileCall[d] \in FileCall
    BY DEF FileTypeOK
  <2>2. (fileCall[d].overlapped \/ d \in others) \in BOOLEAN
    OBVIOUS
  <2>3. fileCall'[d] = [fileCall[d] EXCEPT !.overlapped = fileCall[d].overlapped \/ d \in others]
    BY <1>2
  <2> QED
    BY <2>1, <2>2, <2>3 DEF FileCall
<1>5. FileTypeOK'
  <2>1. fileCalls' \in 0..FileCallLimit
    <3>1. fileCalls \in 0..FileCallLimit /\ fileCalls < FileCallLimit /\ fileCalls' = fileCalls + 1
      BY DEF FileTypeOK, Enters
    <3> QED
      BY <3>1, FileAssumption
  <2>2. fileCall' \in [FileCallers -> FileCall]
    BY <1>1, <1>3, <1>4
  <2> QED
    BY <2>1, <2>2 DEF FileTypeOK
<1>6. OverlapsMarked'
  BY <1>1, <1>3, <1>4 DEF OverlapsMarked, Unfinished, others
<1>7. CoursesKept'
  BY <1>1, <1>3, <1>4 DEF CoursesKept
<1>8. SavedBeforeWrite'
  BY <1>1, <1>3, <1>4 DEF SavedBeforeWrite, Saved, Exists, God
<1> QED
  BY <1>5, <1>6, <1>7, <1>8

\* A call that ends leaves nothing to say of it.
LEMMA EndKept ==
  ASSUME FileIInv, NEW c \in FileCallers, Unfinished(c), Finish(c),
         UNCHANGED <<securityLevel, place, clock, fileCalls>>,
         disk' \in [Names -> (SUBSET Pieces) \cup {Absent}]
  PROVE  FileIInv'
BY NoFileCallTyped, OthersKept DEF Finish

\* What each step that ends a call may leave on the disk.
LEMMA DiskTyped ==
  ASSUME FileTypeOK
  PROVE  /\ \A n \in Names, x \in (SUBSET Pieces) \cup {Absent} :
              [disk EXCEPT ![n] = x] \in [Names -> (SUBSET Pieces) \cup {Absent}]
         /\ \A n \in Names :
              Move(Itself, n) => disk' \in [Names -> (SUBSET Pieces) \cup {Absent}]
         /\ \A n \in Names : Exists(n) => disk[n] \in SUBSET Pieces
BY NamesDiffer DEF FileTypeOK, Move, Exists

\* Every step of fs_write keeps the invariant.
LEMMA WritesKept ==
  ASSUME FileIInv, NEW c \in FileCallers,
         CallWrite(c) \/ StatWrite(c) \/ AppendFile(c) \/ InsertFile(c)
         \/ OverwriteFile(c) \/ BackupByRename(c) \/ WriteOut(c)
  PROVE  FileIInv'
<1> USE DEF FileIInv
<1> DEFINE call == fileCall[c]
<1>0. /\ call \in FileCall /\ disk \in [Names -> (SUBSET Pieces) \cup {Absent}]
      /\ clock \in Seconds /\ c \in Pieces
  BY DEF FileTypeOK, Pieces
<1>1. CASE CallWrite(c)
  BY <1>1, BeginKept DEF CallWrite, FileModes
<1>2. CASE StatWrite(c)
  <2>1. CASE Finish(c)
    BY <1>0, <1>2, <2>1, EndKept DEF StatWrite, InFile, Unfinished
  <2>2. ASSUME NEW pc \in {call.mode, "overwrite"}, FileGoto(c, pc)
        PROVE  FileIInv'
    <3> DEFINE r == [call EXCEPT !.pc = pc]
    <3>1. /\ r \in FileCall /\ r.pc = pc /\ r.mode = call.mode
          /\ r.overlapped = call.overlapped /\ pc \in {"overwrite", "append", "insert"}
          /\ fileCall' = [fileCall EXCEPT ![c] = r]
      BY <1>0, <1>2, <2>2 DEF StatWrite, FileCall, FilePcs, FileGoto, FileTypeOK
    <3> HIDE DEF r
    <3> QED
      BY <1>0, <1>2, <3>1, OthersKept DEF StatWrite, InFile, Unfinished
  <2> QED
    BY <1>2, <2>1, <2>2 DEF StatWrite
<1>3. CASE AppendFile(c)
  <2>1. disk' \in [Names -> (SUBSET Pieces) \cup {Absent}]
    BY <1>0, <1>3, DiskTyped, NamesDiffer DEF AppendFile, Put
  <2> QED
    BY <1>3, <2>1, EndKept DEF AppendFile, InFile, Unfinished
<1>4. CASE InsertFile(c)
  <2>1. CASE Finish(c)
    BY <1>0, <1>4, <2>1, EndKept DEF InsertFile, InFile, Unfinished
  <2>2. CASE ~Finish(c)
    <3> DEFINE r == [call EXCEPT !.pc = "write", !.read = disk[Itself]]
    <3>1. /\ r \in FileCall /\ r.pc = "write" /\ r.mode = "insert"
          /\ r.overlapped = call.overlapped
      BY <1>0, <1>4, <2>2, DiskTyped, NamesDiffer
      DEF InsertFile, FileCall, FilePcs, InFile, CoursesKept
    <3>2. fileCall' = [fileCall EXCEPT ![c] = r]
      BY <1>4, <2>2 DEF InsertFile, FileTypeOK
    <3> HIDE DEF r
    <3> QED
      BY <1>0, <1>4, <3>1, <3>2, OthersKept DEF InsertFile, InFile, Unfinished
  <2> QED
    BY <2>1, <2>2
<1>5. CASE OverwriteFile(c)
  <2>1. CASE (God \/ ~Exists(Itself)) /\ FileGoto(c, "write")
    <3> DEFINE r == [call EXCEPT !.pc = "write"]
    <3>1. /\ r \in FileCall /\ r.pc = "write" /\ r.overlapped = call.overlapped
          /\ fileCall' = [fileCall EXCEPT ![c] = r]
      BY <1>0, <2>1 DEF FileCall, FilePcs, FileGoto, FileTypeOK
    <3> HIDE DEF r
    <3>2. God \/ Saved(c)'
      BY <1>5, <2>1 DEF OverwriteFile, Saved, Exists
    <3> QED
      BY <1>0, <1>5, <3>1, <3>2, OthersKept DEF OverwriteFile, InFile, Unfinished
  <2>2. CASE ~God /\ Exists(Itself)
    <3> DEFINE copy == IF Exists(Bak) THEN BakAt(clock) ELSE Bak
               r == [call EXCEPT !.pc = "rename", !.copy = copy]
    <3>1. copy \in Names
      BY <1>0, NamesDiffer
    <3>2. fileCall' = [fileCall EXCEPT ![c] = r]
      BY <1>5, <2>2 DEF OverwriteFile, FileTypeOK
    <3>3. copy \in {Bak} \cup {BakAt(s) : s \in Seconds} /\ (copy = Bak => ~Exists(Bak))
      BY <1>0, NamesDiffer
    <3> HIDE DEF copy
    <3>4. /\ r \in FileCall /\ r.pc = "rename" /\ r.overlapped = call.overlapped
          /\ r.copy = copy
      BY <1>0, <3>1 DEF FileCall, FilePcs
    <3> HIDE DEF r
    <3>5. r.pc = "rename" /\ r.copy = Bak /\ ~r.overlapped => ~Exists(Bak)'
      BY <1>5, <3>3, <3>4 DEF OverwriteFile, Exists
    <3>6. /\ UNCHANGED <<securityLevel, place, clock, fileCalls>> /\ Unfinished(c)
          /\ disk' \in [Names -> (SUBSET Pieces) \cup {Absent}]
      BY <1>0, <1>5 DEF OverwriteFile, InFile, Unfinished
    <3> QED
      BY <3>2, <3>3, <3>4, <3>5, <3>6, OthersKept
  <2> QED
    BY <1>5, <2>1, <2>2 DEF OverwriteFile
<1>6. CASE BackupByRename(c)
  <2>1. /\ call.pc = "rename" /\ call.copy \in Names /\ call.copy # Itself
        /\ UNCHANGED <<securityLevel, place, clock, fileCalls>> /\ Unfinished(c)
    BY <1>0, <1>6, NamesDiffer DEF BackupByRename, InFile, CoursesKept, Unfinished
  <2>2. disk' \in [Names -> (SUBSET Pieces) \cup {Absent}]
    BY <1>0, <1>6, <2>1, DiskTyped, NamesDiffer DEF BackupByRename, Put
  <2>3. CASE /\ FileGoto(c, "write") /\ Exists(Itself)
             /\ Move(Itself, call.copy) \/ Put(call.copy, disk[Itself])
    <3> DEFINE r == [call EXCEPT !.pc = "write"]
    <3>1. /\ r \in FileCall /\ r.pc = "write" /\ r.overlapped = call.overlapped
          /\ r.copy = call.copy /\ fileCall' = [fileCall EXCEPT ![c] = r]
      BY <1>0, <2>3 DEF FileCall, FilePcs, FileGoto, FileTypeOK
    <3>2. fileCall'[c].copy = call.copy
      BY <3>1 DEF FileTypeOK
    <3> HIDE DEF r
    <3>3. Saved(c)'
      <4>1. CASE Move(Itself, call.copy)
        BY <1>0, <2>1, <4>1, NamesDiffer DEF Move, Saved, Exists
      <4>2. CASE Exists(Itself) /\ Put(call.copy, disk[Itself])
        BY <1>0, <2>1, <3>2, <4>2, NamesDiffer DEF Put, Saved, Exists
      <4> QED
        BY <2>3, <4>1, <4>2
    <3> QED
      BY <2>1, <2>2, <3>1, <3>3, OthersKept
  <2>4. CASE fileCall' = [fileCall EXCEPT ![c].pc = "write", ![c].unsaved = TRUE]
    <3> DEFINE r == [call EXCEPT !.pc = "write", !.unsaved = TRUE]
    <3>1. /\ r \in FileCall /\ r.pc = "write" /\ r.overlapped = call.overlapped /\ r.unsaved
          /\ fileCall' = [fileCall EXCEPT ![c] = r]
      BY <1>0, <2>4 DEF FileCall, FilePcs, FileTypeOK
    <3> HIDE DEF r
    <3> QED
      BY <2>1, <2>2, <3>1, OthersKept
  <2> QED
    BY <1>6, <2>3, <2>4 DEF BackupByRename
<1>7. CASE WriteOut(c)
  <2>1. call.read \cup {c} \in SUBSET Pieces
    BY <1>0 DEF FileCall
  <2>2. disk' \in [Names -> (SUBSET Pieces) \cup {Absent}]
    BY <1>0, <1>7, <2>1, DiskTyped, NamesDiffer DEF WriteOut, Put
  <2> QED
    BY <1>7, <2>2, EndKept DEF WriteOut, InFile, Unfinished
<1> QED
  BY <1>1, <1>2, <1>3, <1>4, <1>5, <1>6, <1>7

\* Every step of fs_delete keeps the invariant.
LEMMA DeletesKept ==
  ASSUME FileIInv, NEW c \in FileCallers,
         CallDelete(c) \/ StatDelete(c) \/ MoveToTrash(c) \/ RemovePath(c)
  PROVE  FileIInv'
<1> USE DEF FileIInv
<1> DEFINE call == fileCall[c]
<1>0. /\ call \in FileCall /\ disk \in [Names -> (SUBSET Pieces) \cup {Absent}]
      /\ clock \in Seconds
  BY DEF FileTypeOK
<1>1. CASE CallDelete(c)
  BY <1>1, BeginKept DEF CallDelete, FileModes
<1>2. CASE StatDelete(c)
  <2>1. CASE Finish(c)
    BY <1>0, <1>2, <2>1, EndKept DEF StatDelete, InFile, Unfinished
  <2>2. CASE FileGoto(c, call.mode)
    <3> DEFINE r == [call EXCEPT !.pc = call.mode]
    <3>1. /\ r \in FileCall /\ r.pc = call.mode /\ r.mode = call.mode
          /\ r.overlapped = call.overlapped /\ call.mode \in {"trash", "remove"}
          /\ fileCall' = [fileCall EXCEPT ![c] = r]
      BY <1>0, <1>2, <2>2 DEF StatDelete, FileCall, FilePcs, FileGoto, FileTypeOK
    <3> HIDE DEF r
    <3> QED
      BY <1>0, <1>2, <3>1, OthersKept DEF StatDelete, InFile, Unfinished
  <2> QED
    BY <1>2, <2>1, <2>2 DEF StatDelete
<1>3. CASE MoveToTrash(c) \/ RemovePath(c)
  <2>1. disk' \in [Names -> (SUBSET Pieces) \cup {Absent}]
    BY <1>0, <1>3, DiskTyped, NamesDiffer DEF MoveToTrash, RemovePath, Put
  <2> QED
    BY <1>3, <2>1, EndKept DEF MoveToTrash, RemovePath, InFile, Unfinished
<1> QED
  BY <1>1, <1>2, <1>3

\* Every step of ai_code_editor keeps the invariant.
LEMMA EditsKept ==
  ASSUME FileIInv, NEW c \in FileCallers,
         CallEdit(c) \/ ReadForEdit(c) \/ BackupByCopy(c) \/ ReplaceText(c)
  PROVE  FileIInv'
<1> USE DEF FileIInv
<1> DEFINE call == fileCall[c]
<1>0. /\ call \in FileCall /\ disk \in [Names -> (SUBSET Pieces) \cup {Absent}]
      /\ clock \in Seconds /\ c \in Pieces
  BY DEF FileTypeOK, Pieces
<1>1. CASE CallEdit(c)
  BY <1>1, BeginKept DEF CallEdit, FileModes
<1>2. CASE ReadForEdit(c)
  <2>1. CASE Finish(c)
    BY <1>0, <1>2, <2>1, EndKept DEF ReadForEdit, InFile, Unfinished
  <2>2. CASE ~Finish(c)
    <3> DEFINE r == [call EXCEPT !.pc = "backup", !.read = disk[Itself]]
    <3>1. /\ r \in FileCall /\ r.pc = "backup" /\ r.overlapped = call.overlapped
      BY <1>0, <1>2, <2>2, DiskTyped, NamesDiffer DEF ReadForEdit, FileCall, FilePcs
    <3>2. fileCall' = [fileCall EXCEPT ![c] = r]
      BY <1>2, <2>2 DEF ReadForEdit, FileTypeOK
    <3> HIDE DEF r
    <3> QED
      BY <1>0, <1>2, <3>1, <3>2, OthersKept DEF ReadForEdit, InFile, Unfinished
  <2> QED
    BY <2>1, <2>2
<1>3. CASE BackupByCopy(c)
  <2>1. /\ UNCHANGED <<securityLevel, place, clock, fileCalls>> /\ Unfinished(c)
        /\ EditAt(clock) \in Names /\ EditAt(clock) # Itself
    BY <1>0, <1>3, NamesDiffer DEF BackupByCopy, InFile, Unfinished
  <2>2. disk' \in [Names -> (SUBSET Pieces) \cup {Absent}]
    BY <1>0, <1>3, <2>1, DiskTyped, NamesDiffer DEF BackupByCopy, Put
  <2>3. CASE /\ Exists(Itself) /\ Put(EditAt(clock), disk[Itself])
             /\ fileCall' = [fileCall EXCEPT ![c].pc = "replace", ![c].copy = EditAt(clock)]
    <3> DEFINE r == [call EXCEPT !.pc = "replace", !.copy = EditAt(clock)]
    <3>1. /\ r \in FileCall /\ r.pc = "replace" /\ r.overlapped = call.overlapped
          /\ r.copy = EditAt(clock)
      BY <1>0, <2>1 DEF FileCall, FilePcs
    <3>2. fileCall' = [fileCall EXCEPT ![c] = r] /\ fileCall'[c] = r
      BY <2>3 DEF FileTypeOK
    <3> HIDE DEF r
    <3>3. Saved(c)'
      BY <1>0, <2>1, <2>3, <3>1, <3>2, NamesDiffer DEF Put, Saved, Exists
    <3> QED
      BY <2>1, <2>2, <3>1, <3>2, <3>3, OthersKept
  <2>4. CASE fileCall' = [fileCall EXCEPT ![c].pc = "replace", ![c].unsaved = TRUE]
    <3> DEFINE r == [call EXCEPT !.pc = "replace", !.unsaved = TRUE]
    <3>1. /\ r \in FileCall /\ r.pc = "replace" /\ r.overlapped = call.overlapped /\ r.unsaved
          /\ fileCall' = [fileCall EXCEPT ![c] = r]
      BY <1>0, <2>4 DEF FileCall, FilePcs, FileTypeOK
    <3> HIDE DEF r
    <3> QED
      BY <2>1, <2>2, <3>1, OthersKept
  <2> QED
    BY <1>3, <2>3, <2>4 DEF BackupByCopy
<1>4. CASE ReplaceText(c)
  <2>1. call.read \cup {c} \in SUBSET Pieces /\ call.copy \in Names
    BY <1>0 DEF FileCall
  <2>2. disk' \in [Names -> (SUBSET Pieces) \cup {Absent}]
    BY <1>0, <1>4, <2>1, DiskTyped, NamesDiffer DEF ReplaceText, Put
  <2> QED
    BY <1>4, <2>2, EndKept DEF ReplaceText, InFile, Unfinished, Finish
<1> QED
  BY <1>1, <1>2, <1>3, <1>4

LEMMA FileInductive == FileIInv /\ [FileNext]_fileVars => FileIInv'
<1> SUFFICES ASSUME FileIInv, [FileNext]_fileVars
             PROVE  FileIInv'
  OBVIOUS
<1>1. CASE SecondPasses
  <2>1. clock \in Seconds /\ clock < LastSecond /\ clock' = clock + 1
    BY <1>1 DEF SecondPasses, FileIInv, FileTypeOK
  <2>2. clock' \in Seconds
    BY <2>1, FileAssumption DEF Seconds
  <2> QED
    BY <1>1, <2>2 DEF SecondPasses, FileIInv, FileTypeOK, OverlapsMarked, CoursesKept,
                      SavedBeforeWrite, Unfinished, Saved, Exists, God
<1>2. CASE UNCHANGED fileVars
  BY <1>2 DEF fileVars, FileIInv, FileTypeOK, OverlapsMarked, CoursesKept,
              SavedBeforeWrite, Unfinished, Saved, Exists, God
<1> QED
  BY <1>1, <1>2, WritesKept, DeletesKept, EditsKept DEF FileNext, FileStep

-----------------------------------------------------------------------------

\* A step that leaves a piece nowhere: the names it has written to had it.
LEMMA StillKept ==
  ASSUME NEW p \in Pieces, Kept(p), ~Kept(p)'
  PROVE  /\ \A n \in Names : ~(Exists(n)' /\ p \in disk'[n])
         /\ \E n \in Names : Exists(n) /\ p \in disk[n] /\ disk'[n] # disk[n]
BY DEF Kept, Exists

\* What the step of one call can lose, and how.
LEMMA LossExplained ==
  ASSUME FileIInv, NEW c \in FileCallers, FileStep(c),
         NEW p \in Pieces, Kept(p), ~Kept(p)'
  PROVE  \/ SameSecond
         \/ fileCall'[c] # fileCall[c] /\ Unprotected(c)
<1> USE DEF FileIInv
<1> DEFINE call == fileCall[c]
<1>0. /\ call \in FileCall /\ disk \in [Names -> (SUBSET Pieces) \cup {Absent}]
      /\ clock \in Seconds /\ c \in Pieces
  BY DEF FileTypeOK, Pieces
<1>1. PICK n \in Names : Exists(n) /\ p \in disk[n] /\ disk'[n] # disk[n]
  BY StillKept
<1>2. \A m \in Names : ~(Exists(m)' /\ p \in disk'[m])
  BY StillKept
<1>3. ASSUME n \notin {Itself, Bak}
      PROVE  SameSecond
  BY <1>1, <1>3 DEF SameSecond
<1>4. ASSUME NEW pc, fileCall' = [fileCall EXCEPT ![c].pc = pc], call.pc # pc
      PROVE  fileCall'[c] # fileCall[c]
  <2>1. fileCall'[c].pc = pc
    BY <1>0, <1>4 DEF FileTypeOK, FileCall
  <2> QED
    BY <1>4, <2>1
<1>5. ASSUME Finish(c), Unfinished(c)
      PROVE  fileCall'[c] # fileCall[c]
  BY <1>5, NoFileCallTyped DEF Finish, Unfinished, FileTypeOK
<1>6. CASE AppendFile(c)
  <2>1. n = Itself /\ Put(Itself, disk[Itself] \cup {c})
    BY <1>0, <1>1, <1>6 DEF AppendFile, Put
  <2>2. disk'[Itself] = disk[Itself] \cup {c} /\ disk[Itself] \cup {c} \in SUBSET Pieces
    BY <1>0, <1>1, <2>1, NamesDiffer, DiskTyped DEF Put
  <2> QED
    BY <1>1, <1>2, <2>1, <2>2, NamesDiffer DEF Exists
<1>7. CASE BackupByRename(c)
  <2>1. call.copy \in {Bak} \cup {BakAt(s) : s \in Seconds} /\ call.pc = "rename"
    BY <1>7 DEF BackupByRename, InFile, CoursesKept
  <2>2. call.copy \in Names /\ call.copy # Itself
    BY <2>1, NamesDiffer
  <2>3. /\ Exists(Itself) /\ disk'[call.copy] = disk[Itself]
        /\ \A m \in Names \ {Itself, call.copy} : disk'[m] = disk[m]
    BY <1>0, <1>1, <1>7, <2>2, NamesDiffer DEF BackupByRename, Move, Put
  <2>4. n = call.copy
    BY <1>1, <1>2, <2>2, <2>3 DEF Exists
  <2>5. CASE n = Bak
    <3>1. call.overlapped
      BY <1>1, <2>1, <2>4, <2>5 DEF SavedBeforeWrite
    <3>2. fileCall'[c] # fileCall[c]
      <4>1. CASE FileGoto(c, "write")
        BY <1>4, <2>1, <4>1 DEF FileGoto
      <4>2. CASE UNCHANGED disk
        BY <1>1, <4>2
      <4> QED
        BY <1>7, <4>1, <4>2 DEF BackupByRename
    <3> QED
      BY <3>1, <3>2 DEF Unprotected
  <2> QED
    BY <1>3, <2>2, <2>4, <2>5
<1>8. CASE WriteOut(c)
  <2>1. /\ n = Itself /\ Finish(c) /\ Unfinished(c) /\ call.pc = "write"
        /\ \A m \in Names \ {Itself} : disk'[m] = disk[m]
    BY <1>0, <1>1, <1>8, NamesDiffer DEF WriteOut, Put, InFile, Unfinished
  <2>2. ~Saved(c)
    BY <1>0, <1>1, <1>2, <2>1 DEF Saved, Exists, FileCall
  <2> QED
    BY <1>5, <2>1, <2>2 DEF SavedBeforeWrite, Unprotected
<1>9. CASE MoveToTrash(c)
  <2>1. TrashAt(clock) \in Names /\ TrashAt(clock) \notin {Itself, Bak}
    BY <1>0, NamesDiffer
  <2>2. /\ Exists(Itself) /\ disk'[TrashAt(clock)] = disk[Itself]
        /\ \A m \in Names \ {Itself, TrashAt(clock)} : disk'[m] = disk[m]
    BY <1>0, <1>1, <1>9, <2>1, NamesDiffer DEF MoveToTrash, Move
  <2> QED
    BY <1>1, <1>2, <1>3, <2>1, <2>2 DEF Exists
<1>10. CASE RemovePath(c)
  <2>1. Finish(c) /\ Unfinished(c) /\ call.mode = "remove"
    BY <1>10 DEF RemovePath, InFile, Unfinished, CoursesKept
  <2> QED
    BY <1>5, <2>1 DEF Unprotected
<1>11. CASE BackupByCopy(c)
  <2>1. n = EditAt(clock)
    BY <1>0, <1>1, <1>11 DEF BackupByCopy, Put
  <2> QED
    BY <1>0, <1>3, <2>1, NamesDiffer
<1>12. CASE ReplaceText(c)
  <2>1. /\ n = Itself /\ Finish(c) /\ Unfinished(c) /\ call.pc = "replace"
        /\ \A m \in Names \ {Itself} : disk'[m] = disk[m]
    BY <1>0, <1>1, <1>12, NamesDiffer DEF ReplaceText, Put, InFile, Unfinished
  <2>2. ~Saved(c)
    BY <1>0, <1>1, <1>2, <2>1 DEF Saved, Exists, FileCall
  <2> QED
    BY <1>5, <2>1, <2>2 DEF SavedBeforeWrite, Unprotected
<1>13. CASE UNCHANGED disk
  BY <1>1, <1>13
<1> QED
  BY <1>6, <1>7, <1>8, <1>9, <1>10, <1>11, <1>12, <1>13
  DEF FileStep, CallWrite, StatWrite, InsertFile, OverwriteFile, CallDelete, StatDelete,
      CallEdit, ReadForEdit

\* The type invariant of the file tools: the copies of a path have their names,
\* whatever is written, moved and lost meanwhile.
THEOREM FilesTyped == FileSpec => []FileTypeOK
<1>1. FileIInv => FileTypeOK
  BY DEF FileIInv
<1> QED
  BY <1>1, FileInitial, FileInductive, PTL DEF FileSpec

\* overwriteFile, backup and the trash of fs_delete: what was in a path is in it or
\* in a copy, unless the loss is one the tools do not promise to prevent, for any
\* number of calls and however long the clock runs.
THEOREM PiecesStayKept == FileSpec => PiecesKept
<1> DEFINE Explained(p) == Kept(p) /\ ~Kept(p)' =>
             \/ SameSecond
             \/ \E c \in FileCallers : fileCall'[c] # fileCall[c] /\ Unprotected(c)
<1>1. FileIInv /\ [FileNext]_fileVars => [\A p \in Pieces : Explained(p)]_fileVars
  <2> SUFFICES ASSUME FileIInv, FileNext, NEW p \in Pieces, Kept(p), ~Kept(p)'
               PROVE  \/ SameSecond
                      \/ \E c \in FileCallers : fileCall'[c] # fileCall[c] /\ Unprotected(c)
    OBVIOUS
  <2>1. CASE SecondPasses
    BY <2>1 DEF SecondPasses, Kept, Exists
  <2> QED
    BY <2>1, LossExplained DEF FileNext
<1> QED
  BY <1>1, FileInitial, FileInductive, PTL DEF FileSpec, PiecesKept
=============================================================================
