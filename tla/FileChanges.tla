---------------------------- MODULE FileChanges ----------------------------
(***************************************************************************)
(* Calls of fs_write, fs_delete and ai_code_editor on one path, and the    *)
(* copies they keep of what was there (internal/skills/filesystem/write.go *)
(* and delete.go, internal/skills/coding/vscode_tools.go).                 *)
(*                                                                         *)
(* The content of a file is the set of the pieces in it: the original one  *)
(* and what each call has written.  os.WriteFile is one step that may fail *)
(* before or after it has truncated the file.  Every call runs on its own: *)
(* the agent starts the tools of an answer together, and the goroutine of  *)
(* a call that gives up on it, having waited 30 seconds, goes on: here a   *)
(* call lasts until its goroutine is done.                                 *)
(***************************************************************************)
EXTENDS Integers, FiniteSets

CONSTANTS
  FileCallers,
  Original,
  Absent,
  LastSecond,    \* bound of the clock whose seconds name the copies
  FileCallLimit  \* bound: calls made

ASSUME FileAssumption ==
  /\ Original \notin FileCallers
  /\ \A content \in SUBSET (FileCallers \cup {Original}) : Absent # content
  /\ LastSecond \in Nat /\ FileCallLimit \in Nat

VARIABLES
  securityLevel, \* of the tools, as the daemon configured them
  place,         \* where in the machine the path is
  disk,          \* the path's content and the copies'
  clock,         \* time.Now().Unix()
  fileCall,
  fileCalls      \* calls made so far

fileVars == <<securityLevel, place, disk, clock, fileCall, fileCalls>>

\* The installation's directory, its own code, one of the directories in it for the
\* agent's files, the root of the file system, or elsewhere, be it in the
\* installation, in a system directory or in any other.
Located == {"project", "core", "allowed", "root", "elsewhere"}

Pieces  == FileCallers \cup {Original}
Seconds == 0..LastSecond

Names   == [kind : {"itself", "bak"}, at : {0}]
           \cup [kind : {"bak_at", "edit_at", "trash"}, at : Seconds]
Itself      == [kind |-> "itself", at |-> 0]
Bak         == [kind |-> "bak", at |-> 0]          \* path.bak
BakAt(s)    == [kind |-> "bak_at", at |-> s]       \* path.bak.<second>
EditAt(s)   == [kind |-> "edit_at", at |-> s]      \* path.bak_<second>
TrashAt(s)  == [kind |-> "trash", at |-> s]        \* .pars_trash/<second>_base

Exists(name) == disk[name] # Absent

\* The project's directory, until a call has put a file in its place.
IsDirectory == \/ place = "root"
               \/ place = "project" /\ disk[Itself] \in {{}, {Original}}

God == securityLevel = "god_mode"

\* The filters of the three tools; a call they refuse changes nothing.
MayWrite  == place # "core" /\ (God \/ place \in {"allowed", "project"})
MayDelete == place # "root" /\ (God \/ place \in {"allowed", "project"})
MayEdit   == place = "allowed"

FileModes == {"overwrite", "append", "insert", "trash", "remove", "edit"}
FilePcs   == {"idle", "stat", "overwrite", "rename", "append", "insert", "write",
              "trash", "remove", "edit", "backup", "replace"}

FileCall ==
  [pc         : FilePcs,
   mode       : FileModes,
   read       : SUBSET Pieces,              \* what the call keeps of the file
   copy       : Names,                      \* backupPath, or the path itself: none
   unsaved    : BOOLEAN,                    \* ghost: its backup has failed
   overlapped : BOOLEAN]                    \* ghost: another call ran meanwhile

NoFileCall ==
  [pc |-> "idle", mode |-> "edit", read |-> {}, copy |-> Itself, unsaved |-> FALSE,
   overlapped |-> FALSE]

FileInit ==
  /\ securityLevel \in {"standard", "god_mode"}
  /\ place \in Located
  /\ \E content \in {Absent, {Original}} :
       /\ place \in {"project", "core", "root"} => content # Absent
       /\ disk = [name \in Names |-> IF name = Itself THEN content ELSE Absent]
  /\ clock = 0
  /\ fileCall = [c \in FileCallers |-> NoFileCall]
  /\ fileCalls = 0

InFile(c, pc) == fileCall[c].pc = pc
Unfinished(c) == fileCall[c].pc # "idle"

FileGoto(c, pc) == fileCall' = [fileCall EXCEPT ![c].pc = pc]
Finish(c)       == fileCall' = [fileCall EXCEPT ![c] = NoFileCall]
Put(name, content) == disk' = [disk EXCEPT ![name] = content]
Move(from, to)     == disk' = [disk EXCEPT ![to] = disk[from], ![from] = Absent]

\* The call c begins in the state pc.
Enters(c, mode, pc) ==
  LET others == {d \in FileCallers : Unfinished(d)}
  IN  /\ fileCalls < FileCallLimit /\ fileCalls' = fileCalls + 1
      /\ fileCall' = [d \in FileCallers |->
           IF d = c THEN [NoFileCall EXCEPT !.pc = pc, !.mode = mode,
                                            !.overlapped = others # {}]
           ELSE [fileCall[d] EXCEPT !.overlapped = @ \/ d \in others]]

-----------------------------------------------------------------------------
(* fs_write                                                                *)

CallWrite(c) ==
  /\ InFile(c, "idle") /\ MayWrite
  /\ \E mode \in {"overwrite", "append", "insert"} : Enters(c, mode, "stat")
  /\ UNCHANGED <<securityLevel, place, disk, clock>>

\* MkdirAll may fail.  Nothing can be added to a file that is not there.
StatWrite(c) ==
  /\ InFile(c, "stat") /\ fileCall[c].mode \in {"overwrite", "append", "insert"}
  /\ \/ Finish(c)
     \/ FileGoto(c, IF Exists(Itself) THEN fileCall[c].mode ELSE "overwrite")
  /\ UNCHANGED <<securityLevel, place, disk, clock, fileCalls>>

\* appendFile makes the file again if it is gone by now.
AppendFile(c) ==
  /\ InFile(c, "append")
  /\ \/ /\ ~IsDirectory
        /\ Put(Itself, (IF Exists(Itself) THEN disk[Itself] ELSE {}) \cup {c})
        /\ Finish(c)
     \/ UNCHANGED disk /\ Finish(c)
  /\ UNCHANGED <<securityLevel, place, clock, fileCalls>>

InsertFile(c) ==
  /\ InFile(c, "insert")
  /\ \/ /\ Exists(Itself) /\ ~IsDirectory
        /\ fileCall' = [fileCall EXCEPT ![c].pc = "write", ![c].read = disk[Itself]]
     \/ Finish(c)
  /\ UNCHANGED <<securityLevel, place, disk, clock, fileCalls>>

\* Mutant: the copy has one name.
OverwriteFileTwice(c) ==
  /\ InFile(c, "overwrite")
  /\ fileCall' = [fileCall EXCEPT
       ![c].pc = IF God \/ ~Exists(Itself) THEN "write" ELSE "rename",
       ![c].copy = IF God \/ ~Exists(Itself) THEN Itself ELSE Bak]
  /\ UNCHANGED <<securityLevel, place, disk, clock, fileCalls>>

\* overwriteFile chooses the name of the copy: below god mode, for a file that exists.
OverwriteFile(c) ==
  /\ InFile(c, "overwrite")
  /\ \/ /\ God \/ ~Exists(Itself)
        /\ FileGoto(c, "write")
     \/ /\ ~God /\ Exists(Itself)
        /\ fileCall' = [fileCall EXCEPT ![c].pc = "rename",
             ![c].copy = IF Exists(Bak) THEN BakAt(clock) ELSE Bak]
  /\ UNCHANGED <<securityLevel, place, disk, clock, fileCalls>>

\* The path is renamed; if that fails it is copied; if that fails too it is
\* overwritten nevertheless.
BackupByRename(c) ==
  /\ InFile(c, "rename")
  /\ \/ /\ Exists(Itself) /\ Move(Itself, fileCall[c].copy)
        /\ FileGoto(c, "write")
     \/ /\ Exists(Itself) /\ ~IsDirectory /\ Put(fileCall[c].copy, disk[Itself])
        /\ FileGoto(c, "write")
     \/ /\ UNCHANGED disk
        /\ fileCall' = [fileCall EXCEPT ![c].pc = "write", ![c].unsaved = TRUE]
  /\ UNCHANGED <<securityLevel, place, clock, fileCalls>>

\* os.WriteFile, at the end of overwriteFile and of insertFile.
WriteOut(c) ==
  /\ InFile(c, "write")
  /\ \/ ~IsDirectory /\ Put(Itself, fileCall[c].read \cup {c}) /\ Finish(c)
     \/ ~IsDirectory /\ place # "project" /\ Put(Itself, {}) /\ Finish(c)
     \/ UNCHANGED disk /\ Finish(c)
  /\ UNCHANGED <<securityLevel, place, clock, fileCalls>>

-----------------------------------------------------------------------------
(* fs_delete                                                               *)

CallDelete(c) ==
  /\ InFile(c, "idle") /\ MayDelete
  /\ \E mode \in {"trash", "remove"} : Enters(c, mode, "stat")
  /\ UNCHANGED <<securityLevel, place, disk, clock>>

StatDelete(c) ==
  /\ InFile(c, "stat") /\ fileCall[c].mode \in {"trash", "remove"}
  /\ \/ Exists(Itself) /\ FileGoto(c, fileCall[c].mode)
     \/ Finish(c)
  /\ UNCHANGED <<securityLevel, place, disk, clock, fileCalls>>

\* A directory cannot be moved into one of its own.
MoveToTrash(c) ==
  /\ InFile(c, "trash")
  /\ \/ /\ Exists(Itself) /\ place # "project"
        /\ Move(Itself, TrashAt(clock))
        /\ Finish(c)
     \/ UNCHANGED disk /\ Finish(c)
  /\ UNCHANGED <<securityLevel, place, clock, fileCalls>>

\* RemoveAll may fail half-way through a directory.
RemovePath(c) ==
  /\ InFile(c, "remove")
  /\ \/ Put(Itself, Absent) /\ Finish(c)
     \/ UNCHANGED disk /\ Finish(c)
     \/ Exists(Itself) /\ IsDirectory /\ Put(Itself, {}) /\ Finish(c)
  /\ UNCHANGED <<securityLevel, place, clock, fileCalls>>

-----------------------------------------------------------------------------
(* ai_code_editor, search_replace and line_edit; its other modes change    *)
(* nothing                                                                 *)

CallEdit(c) ==
  /\ InFile(c, "idle") /\ MayEdit
  /\ Enters(c, "edit", "edit")
  /\ UNCHANGED <<securityLevel, place, disk, clock>>

\* The file is not there, or the text or the lines are not in it.
ReadForEdit(c) ==
  /\ InFile(c, "edit")
  /\ \/ /\ Exists(Itself)
        /\ fileCall' = [fileCall EXCEPT ![c].pc = "backup", ![c].read = disk[Itself]]
     \/ Finish(c)
  /\ UNCHANGED <<securityLevel, place, disk, clock, fileCalls>>

\* backup reads the file once more; the edit goes on without one.
BackupByCopy(c) ==
  /\ InFile(c, "backup")
  /\ \/ /\ Exists(Itself) /\ Put(EditAt(clock), disk[Itself])
        /\ fileCall' = [fileCall EXCEPT ![c].pc = "replace", ![c].copy = EditAt(clock)]
     \/ /\ UNCHANGED disk
        /\ fileCall' = [fileCall EXCEPT ![c].pc = "replace", ![c].unsaved = TRUE]
  /\ UNCHANGED <<securityLevel, place, clock, fileCalls>>

\* A write that fails is undone from the copy, where there is one.
ReplaceText(c) ==
  LET copy == fileCall[c].copy
  IN  /\ InFile(c, "replace")
      /\ \/ Put(Itself, fileCall[c].read \cup {c}) /\ Finish(c)
         \/ /\ \/ UNCHANGED disk
               \/ Put(Itself, {})
               \/ copy # Itself /\ Exists(copy) /\ Put(Itself, disk[copy])
            /\ Finish(c)
      /\ UNCHANGED <<securityLevel, place, clock, fileCalls>>

-----------------------------------------------------------------------------

SecondPasses ==
  /\ clock < LastSecond
  /\ clock' = clock + 1
  /\ UNCHANGED <<securityLevel, place, disk, fileCall, fileCalls>>

FileStep(c) ==
  \/ CallWrite(c) \/ StatWrite(c) \/ AppendFile(c)
  \/ InsertFile(c) \/ OverwriteFile(c) \/ BackupByRename(c) \/ WriteOut(c)
  \/ CallDelete(c) \/ StatDelete(c) \/ MoveToTrash(c) \/ RemovePath(c)
  \/ CallEdit(c) \/ ReadForEdit(c) \/ BackupByCopy(c) \/ ReplaceText(c)

FileNext == SecondPasses \/ \E c \in FileCallers : FileStep(c)

FileSpec == FileInit /\ [][FileNext]_fileVars

-----------------------------------------------------------------------------
(* Properties                                                              *)

FileTypeOK ==
  /\ securityLevel \in {"standard", "god_mode"}
  /\ place \in Located
  /\ disk \in [Names -> (SUBSET Pieces) \cup {Absent}]
  /\ clock \in Seconds
  /\ fileCall \in [FileCallers -> FileCall]
  /\ fileCalls \in 0..FileCallLimit

Kept(p) == \E name \in Names : Exists(name) /\ p \in disk[name]

\* What the tools do not promise to keep: they are told to remove it for good, or
\* are in god mode; insert_file and appendFile make no copy; another call was
\* at the same path meanwhile; the copy could not be made.
Unprotected(c) ==
  \/ fileCall[c].mode \in {"remove", "insert"} \/ God
  \/ fileCall[c].overlapped \/ fileCall[c].unsaved

\* Two copies named in one second have one name.
SameSecond == \E name \in Names \ {Itself, Bak} :
                Exists(name) /\ disk'[name] # disk[name]

\* However many times a path is written, edited and moved to the trash, and
\* whatever fails in the middle, all that was ever in it is still in it or in
\* one of the copies, unless one of the above explains the loss.
PiecesKept ==
  [][\A p \in Pieces :
       Kept(p) /\ ~Kept(p)' =>
         \/ SameSecond
         \/ \E c \in FileCallers : fileCall'[c] # fileCall[c] /\ Unprotected(c)]_fileVars
=============================================================================
