------------------------------ MODULE MCTools ------------------------------
(***************************************************************************)
(* What a run of the agent works with, one part at a time, chosen at the   *)
(* start while the others rest: its SSH sessions, the databases of the     *)
(* daemon, the files, the Python tools, the history, the question to the   *)
(* brain, the index of projects, and the listener it answers through.      *)
(* They share no state.                                                    *)
(***************************************************************************)
EXTENDS SshSessions, Daemon, FileChanges, PythonTools, Conversation, BrainCalls,
        CodeArchive, WhatsApp

VARIABLE focus

tools == <<focus, sshVars, lifeVars, fileVars, toolVars, talkVars, brainVars,
           archiveVars, waVars>>

MC_NameContains ==
  {<<"omni", "omni">>, <<"omni_erp", "omni_erp">>, <<"omni", "omni_erp">>}

MCInit ==
  /\ focus \in {"ssh", "daemon", "files", "python", "talk", "brain", "archive",
               "whatsapp"}
  /\ SshInit /\ DaemonInit /\ FileInit /\ ToolsInit /\ TalkInit /\ BrainInit
  /\ ArchiveInit /\ WhatsAppInit
  /\ focus # "files" => /\ securityLevel = "standard" /\ place = "project"
                        /\ disk[Itself] = {Original}
  /\ focus # "python" => script = Gone /\ skillFile = "none"
  /\ focus # "whatsapp" => ~paired /\ ~adminPhone

restButSsh     == <<lifeVars, fileVars, toolVars, talkVars, brainVars, archiveVars, waVars>>
restButDaemon  == <<sshVars, fileVars, toolVars, talkVars, brainVars, archiveVars, waVars>>
restButFiles   == <<sshVars, lifeVars, toolVars, talkVars, brainVars, archiveVars, waVars>>
restButPython  == <<sshVars, lifeVars, fileVars, talkVars, brainVars, archiveVars, waVars>>
restButTalk    == <<sshVars, lifeVars, fileVars, toolVars, brainVars, archiveVars, waVars>>
restButBrain   == <<sshVars, lifeVars, fileVars, toolVars, talkVars, archiveVars, waVars>>
restButArchive == <<sshVars, lifeVars, fileVars, toolVars, talkVars, brainVars, waVars>>

restButWhatsApp ==
  <<sshVars, lifeVars, fileVars, toolVars, talkVars, brainVars, archiveVars>>

MCNext ==
  /\ UNCHANGED focus
  /\ \/ focus = "ssh" /\ SshNext /\ UNCHANGED restButSsh
     \/ focus = "daemon" /\ DaemonNext /\ UNCHANGED restButDaemon
     \/ focus = "files" /\ FileNext /\ UNCHANGED restButFiles
     \/ focus = "python" /\ ToolsNext /\ UNCHANGED restButPython
     \/ focus = "talk" /\ TalkNext /\ UNCHANGED restButTalk
     \/ focus = "brain" /\ BrainNext /\ UNCHANGED restButBrain
     \/ focus = "archive" /\ ArchiveNext /\ UNCHANGED restButArchive
     \/ focus = "whatsapp" /\ WhatsAppNext /\ UNCHANGED restButWhatsApp

\* The callers of the Python tools differ in nothing but their name.
MC_Symmetry == Permutations(ToolCallers)

MCSpec == MCInit /\ [][MCNext]_tools

\* The type invariants of the parts.
ToolsTypeOK ==
  /\ SshTypeOK /\ DaemonTypeOK /\ FileTypeOK /\ ScriptsTypeOK /\ TalkTypeOK
  /\ BrainTypeOK /\ ArchiveTypeOK /\ WhatsAppTypeOK
=============================================================================
