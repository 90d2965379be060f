---------------------------- MODULE PythonTools ----------------------------
(***************************************************************************)
(* One Python tool of the agent, in its three places: the script in tools/,*)
(* the row in pars_tools.db and the entry in the skill manager; the tools  *)
(* that write, edit and delete it (internal/skills/coding), the import of  *)
(* user skills (internal/core/skills/md_loader.go), and what a start of    *)
(* the daemon makes of it (internal/skills: venv.go, loader.go, adapter.go,*)
(* manager.go).                                                            *)
(*                                                                         *)
(* A script is told apart by who has written it.  A write of a file may    *)
(* fail before or after it has truncated it.                               *)
(***************************************************************************)
EXTENDS Naturals

CONSTANTS
  ToolCallers,
  FirstVersion, UserVersion,   \* the script before, and that of a user skill
  Gone, Torn                   \* no script, and a truncated one

ASSUME ScriptAssumption ==
  {FirstVersion, UserVersion, Gone, Torn} \cap ToolCallers = {}

Scripts == ToolCallers \cup {FirstVersion, UserVersion, Gone, Torn}

\* What a row of source 'pars' or 'user' says of its tool, and the manager's
\* PythonTool with it: whether it needs packages, and for them uv, stands for all.
Settings == {"none", "plain", "packages"}

VARIABLES
  daemon,       \* "down", "venv", "load" or "up"
  venv,         \* pars_venv: its interpreter and its uv
  script, row,
  active,       \* Manager.tools
  toolCall,
  skillFile,    \* the user's .md in user_skills
  import        \* LoadAllUserSkills: the step it is at

toolVars == <<daemon, venv, script, row, active, toolCall, skillFile, import>>
placeVars == <<script, row, active>>
importVars == <<skillFile, import>>

ToolPcs == {"idle", "edit", "registering", "preparing", "testing", "recording",
            "unlisting", "using", "returned"}

ToolCall ==
  [pc         : ToolPcs,
   backup     : Scripts,                       \* backupCode
   packages   : BOOLEAN,                       \* what the call has said of them
   answer     : {"none", "ok", "failed"},      \* of edit_python_tool
   rollback   : {"none", "done", "failed"},    \* ghost: how it went
   touched    : BOOLEAN]                       \* ghost: somebody else wrote the script

NoToolCall ==
  [pc |-> "idle", backup |-> Gone, packages |-> FALSE, answer |-> "none",
   rollback |-> "none", touched |-> FALSE]

ToolsInit ==
  /\ daemon = "down"
  /\ venv = [python |-> "none", uv |-> FALSE]
  /\ \/ script = Gone /\ row = "none"
     \/ script = FirstVersion /\ row \in {"plain", "packages"}
  /\ active = "none"
  /\ toolCall = [c \in ToolCallers |-> NoToolCall]
  /\ skillFile \in {"none", "dropped"}
  /\ import = "idle"

ToolAt(c, pc) == daemon = "up" /\ toolCall[c].pc = pc
ToolGoto(c, pc) == toolCall' = [toolCall EXCEPT ![c].pc = pc]
ToolReturns(c)  == toolCall' = [toolCall EXCEPT ![c] = NoToolCall]

Editing(c) == toolCall[c].pc \in {"edit", "registering", "returned"}
Touched(c) == [toolCall[c] EXCEPT !.touched = @ \/ Editing(c)]

\* The script becomes s by the hand of c, whose record becomes r.
Rewrite(c, s, r) ==
  /\ script' = s
  /\ toolCall' = [d \in ToolCallers |-> IF d = c THEN r ELSE Touched(d)]

-----------------------------------------------------------------------------
(* The start and the end of the daemon                                     *)

\* venv.go: the interpreter counts as there when its file is, whole or not.  Any
\* failure ends the start.
SetupVenv ==
  /\ daemon = "venv"
  /\ \/ /\ venv.python = "none"
        /\ \E made \in {"none", "partial"} : venv' = [venv EXCEPT !.python = made]
        /\ daemon' = "down"
     \/ /\ venv.python = "none"
        /\ venv' = [venv EXCEPT !.python = "whole"] /\ UNCHANGED daemon
     \/ venv.python # "none" /\ venv.uv /\ daemon' = "load" /\ UNCHANGED venv
  /\ UNCHANGED <<placeVars, toolCall, importVars>>

\* Mutant: a start goes on without uv.
InstallUvOrNot ==
  /\ daemon = "venv" /\ venv.python # "none" /\ ~venv.uv
  /\ daemon' = "load"
  /\ \E there \in BOOLEAN : venv' = [venv EXCEPT !.uv = there]
  /\ UNCHANGED <<placeVars, toolCall, importVars>>

\* uv is copied from the system or, with pip, of which a partial environment has
\* none, installed.
InstallUv ==
  /\ daemon = "venv" /\ venv.python # "none" /\ ~venv.uv
  /\ \/ venv' = [venv EXCEPT !.uv = TRUE] /\ daemon' = "load"
     \/ daemon' = "down" /\ UNCHANGED venv
  /\ UNCHANGED <<placeVars, toolCall, importVars>>

\* LoadAll leaves a row whose script is gone.
LoadsRow == row # "none" /\ script # Gone

\* An error of the database, or of the time limit, leaves tools out.
LoadAll ==
  /\ daemon = "load"
  /\ daemon' = "up"
  /\ active' \in IF LoadsRow THEN {"none", row} ELSE {"none"}
  /\ UNCHANGED <<venv, script, row, toolCall, importVars>>

Launch == daemon = "down" /\ daemon' = "venv"
          /\ UNCHANGED <<venv, placeVars, toolCall, importVars>>

\* The daemon ends, orderly or not; what is in memory is gone.
Halt ==
  /\ daemon = "up"
  /\ daemon' = "down"
  /\ active' = "none"
  /\ toolCall' = [c \in ToolCallers |-> NoToolCall]
  /\ import' = "idle"
  /\ UNCHANGED <<venv, script, row, skillFile>>

-----------------------------------------------------------------------------
(* edit_python_tool                                                        *)

StartEdit(c) ==
  /\ ToolAt(c, "idle") /\ script # Gone
  /\ toolCall' = [toolCall EXCEPT ![c] = [NoToolCall EXCEPT !.pc = "edit", !.backup = script]]
  /\ UNCHANGED <<daemon, venv, placeVars, importVars>>

\* rollback does not look at the error of its write.
RollBack(c) ==
  LET failed(how) == [toolCall[c] EXCEPT !.pc = "returned", !.answer = "failed",
                                         !.rollback = how]
  IN  /\ \/ Rewrite(c, toolCall[c].backup, failed("done"))
         \/ \E s \in {script, Torn} : Rewrite(c, s, failed("failed"))
      /\ UNCHANGED <<daemon, venv, row, active, importVars>>

\* Mutant: a run that fails leaves the script as it is.
RunFailsKeeping(c) ==
  /\ ToolAt(c, "edit")
  /\ toolCall' = [toolCall EXCEPT ![c].pc = "returned", ![c].answer = "failed"]
  /\ UNCHANGED <<daemon, venv, placeVars, importVars>>

\* replace and write: a text that is not found, no code, the check by secureCheckPython
\* or the write itself may end the edit.
WriteCode(c) ==
  /\ ToolAt(c, "edit")
  /\ \/ /\ Rewrite(c, c, toolCall[c])
        /\ UNCHANGED <<daemon, venv, row, active, importVars>>
     \/ RollBack(c)

\* install refuses the names of the agent's own tools.
TakePackages(c) ==
  /\ ToolAt(c, "edit")
  /\ \/ /\ toolCall' = [toolCall EXCEPT ![c].packages = TRUE]
        /\ UNCHANGED <<daemon, venv, placeVars, importVars>>
     \/ RollBack(c)

RunFails(c) == ToolAt(c, "edit") /\ RollBack(c)

RunPasses(c) ==
  /\ ToolAt(c, "edit")
  /\ ToolGoto(c, "registering")
  /\ UNCHANGED <<daemon, venv, placeVars, importVars>>

\* RegisterToolToDB writes all of the row, also what the call has not said; its
\* error is logged.
RowOf(c) == IF toolCall[c].packages THEN "packages" ELSE "plain"

RegisterEdit(c) ==
  /\ ToolAt(c, "registering")
  /\ row' \in {row, RowOf(c)}
  /\ ToolGoto(c, "edit")
  /\ UNCHANGED <<daemon, venv, script, active, importVars>>

FinishEdit(c) ==
  /\ ToolAt(c, "edit")
  /\ toolCall' = [toolCall EXCEPT ![c].pc = "returned", ![c].answer = "ok"]
  /\ UNCHANGED <<daemon, venv, placeVars, importVars>>

Answered(c) ==
  /\ ToolAt(c, "returned")
  /\ ToolReturns(c)
  /\ UNCHANGED <<daemon, venv, placeVars, importVars>>

-----------------------------------------------------------------------------
(* dev_studio and delete_python_tool, which undo nothing                   *)

\* The check of the code or the write may fail.
StudioWrites(c) ==
  /\ ToolAt(c, "idle")
  /\ \/ Rewrite(c, c, [toolCall[c] EXCEPT !.pc = "preparing"])
     \/ \E s \in {script, Torn} : Rewrite(c, s, NoToolCall)
  /\ UNCHANGED <<daemon, venv, row, active, importVars>>

\* A package that is refused, or no command to run, ends the call.
StudioPrepares(c) ==
  /\ ToolAt(c, "preparing")
  /\ \/ \E said \in BOOLEAN :
          toolCall' = [toolCall EXCEPT ![c].pc = "testing", ![c].packages = said]
     \/ ToolReturns(c)
  /\ UNCHANGED <<daemon, venv, placeVars, importVars>>

StudioRuns(c) ==
  /\ ToolAt(c, "testing")
  /\ ToolGoto(c, "recording") \/ ToolReturns(c)
  /\ UNCHANGED <<daemon, venv, placeVars, importVars>>

StudioRegisters(c) ==
  /\ ToolAt(c, "recording")
  /\ row' \in {row, RowOf(c)}
  /\ ToolReturns(c)
  /\ UNCHANGED <<daemon, venv, script, active, importVars>>

\* A script that is not there does not stop the deletion, any other error does.
DeleteScript(c) ==
  /\ ToolAt(c, "idle")
  /\ Rewrite(c, Gone, [toolCall[c] EXCEPT !.pc = "unlisting"])
  /\ UNCHANGED <<daemon, venv, row, active, importVars>>

\* An error of the database is a warning.
DeleteRow(c) ==
  /\ ToolAt(c, "unlisting")
  /\ row' \in {row, "none"}
  /\ ToolReturns(c)
  /\ UNCHANGED <<daemon, venv, script, active, importVars>>

-----------------------------------------------------------------------------
(* The manager's tool, and the import of user skills every ten seconds     *)

\* validatePaths.
CanRun ==
  /\ script # Gone /\ venv.python # "none"
  /\ active = "packages" => venv.uv

\* Execute of the PythonTool the manager has, in the call or in the background.
UseTool(c) ==
  /\ ToolAt(c, "idle") /\ active # "none" /\ CanRun
  /\ ToolGoto(c, "using")
  /\ UNCHANGED <<daemon, venv, placeVars, importVars>>

UseEnds(c) ==
  /\ ToolAt(c, "using")
  /\ ToolReturns(c)
  /\ UNCHANGED <<daemon, venv, placeVars, importVars>>

DropSkill ==
  /\ skillFile = "none"
  /\ skillFile' = "dropped"
  /\ UNCHANGED <<daemon, venv, placeVars, toolCall, import>>

\* parseMD accepts the file.
ImportScript ==
  /\ daemon = "up" /\ import = "idle" /\ skillFile = "dropped"
  /\ \/ script' = UserVersion /\ import' = "row"
     \/ script' \in {script, Torn} /\ UNCHANGED import
  /\ toolCall' = [c \in ToolCallers |-> Touched(c)]
  /\ UNCHANGED <<daemon, venv, row, active, skillFile>>

ImportRow ==
  /\ daemon = "up" /\ import = "row"
  /\ \/ import' = "idle" /\ UNCHANGED row
     \/ /\ row' \in {"plain", "packages"}
        /\ import' = "move"
  /\ UNCHANGED <<daemon, venv, script, active, toolCall, skillFile>>

\* The error of the rename is not looked at; a file that stays is imported again.
\* The tool is made from the file, as its row was.
ImportTool ==
  /\ daemon = "up" /\ import = "move"
  /\ import' = "idle"
  /\ skillFile' \in {"none", "dropped"}
  /\ active' \in {"plain", "packages"}
  /\ UNCHANGED <<daemon, venv, script, row, toolCall>>

-----------------------------------------------------------------------------

ToolStep(c) ==
  \/ StartEdit(c) \/ WriteCode(c) \/ TakePackages(c) \/ RunFails(c) \/ RunPasses(c) \/ RegisterEdit(c) \/ FinishEdit(c) \/ Answered(c)
  \/ StudioWrites(c) \/ StudioPrepares(c) \/ StudioRuns(c)
  \/ StudioRegisters(c) \/ DeleteScript(c) \/ DeleteRow(c) \/ UseTool(c) \/ UseEnds(c)

ToolsNext ==
  \/ Launch \/ SetupVenv \/ InstallUv \/ LoadAll \/ Halt
  \/ \E c \in ToolCallers : ToolStep(c)
  \/ DropSkill \/ ImportScript \/ ImportRow \/ ImportTool

ToolsSpec == ToolsInit /\ [][ToolsNext]_toolVars

-----------------------------------------------------------------------------
(* Properties                                                              *)

ScriptsTypeOK ==
  /\ daemon \in {"down", "venv", "load", "up"}
  /\ venv \in [python : {"none", "partial", "whole"}, uv : BOOLEAN]
  /\ script \in Scripts /\ row \in Settings /\ active \in Settings
  /\ toolCall \in [ToolCallers -> ToolCall]
  /\ skillFile \in {"none", "dropped"} /\ import \in {"idle", "row", "move"}

\* edit.go:129-130: whichever step of an edit fails, the script that was there
\* before it is there again, also after several steps that had succeeded and been
\* registered, unless somebody else wrote the script or the rollback itself failed.
FailedEditUndone ==
  \A c \in ToolCallers :
    /\ toolCall[c].answer = "failed" /\ ~toolCall[c].touched
    /\ toolCall[c].rollback # "failed"
    => script = toolCall[c].backup

\* adapter.go:144-160 (validatePaths): a daemon that is up, after whichever failed
\* starts, can run every tool the manager has, but one whose script was deleted.
ActiveToolsRun ==
  daemon = "up" /\ active # "none" /\ script # Gone => CanRun
=============================================================================
