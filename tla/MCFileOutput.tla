---------------------------- MODULE MCFileOutput ----------------------------
(* Instances of FileOutput for TLC: the constants' values. *)
EXTENDS FileOutput

(* Every system call may fail, or every one but those that clean up. *)
AllCalls == Calls
WritingCalls == {"mkdir", "create", "open", "write", "rename", "chmod"}
NoCalls == {}
=============================================================================
