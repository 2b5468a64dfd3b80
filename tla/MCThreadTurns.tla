---------------------------- MODULE MCThreadTurns ----------------------------
(***************************************************************************)
(* Instances of ThreadTurns for TLC.                                       *)
(***************************************************************************)
EXTENDS ThreadTurns

MCCommands == {"Clear", "Compact", "SetModel", "SetPreserveThinking"}

\* A stop, a remark and another, a session command, a compaction, an odd reply, a
\* checkpoint, a log that cannot be written, a client that leaves, a resume, a
\* resume that waits in vain, a death of the process.
MCMishaps ==
    {"interrupt", "interjection", "another", "command", "compaction", "reply", "checkpoint",
     "append", "disconnect", "resume", "timeout", "crash"}
=============================================================================
