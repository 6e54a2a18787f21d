------------------------------- MODULE Config -------------------------------
(***************************************************************************)
(* Where a configuration comes from: the command line and the environment, *)
(* fixed while the process lives, and the configuration file, read again   *)
(* at every reload (loadConfig and disableResourceRenamingInConfig in      *)
(* main.go, and the vendored config package that they use).  The command   *)
(* line package, external, is modelled by what it tells its caller: that a *)
(* flag is set by an option or a variable, and its value, the option's     *)
(* before the variable's before the default.                               *)
(***************************************************************************)
EXTENDS Naturals

CONSTANTS Flags,      \* the settings that are flags and fields of the file
          Values,     \* their values
          Default,    \* the default of each
          Unset,      \* a flag that is not given, a field that is left out
          Resources,  \* names of resources
          Unlisted,   \* a resource that sharing.timeSlicing does not list
          Broken,     \* a file that is missing, malformed or of another version
          NoConfig    \* nothing loaded yet

(* A resource is renamed in the file to nothing, to its default shared     *)
(* name, or to another name; replicas below 2 are refused.                 *)
Renames == {"", "shared", "custom"}
Replicated == [rename: Renames, devices: {"all", "some"}, replicas: 1..2]
File == [flags: [Flags -> Values \cup {Unset}],
         renameByDefault: BOOLEAN,
         resources: [Resources -> Replicated \cup {Unlisted}]]
Given == [Flags -> Values \cup {Unset}]

ASSUME ConstantsAssumption ==
  /\ Default \in [Flags -> Values]
  /\ Unset \notin Values
  /\ Unlisted \notin Replicated
  /\ Broken \notin File
  /\ NoConfig \notin File

VARIABLES options,  \* flags on the command line
          env,      \* flags in the environment
          useFile,  \* --config-file is given
          file,     \* the file on disk
          pc,
          config,   \* the configuration of the current run
          read      \* history: the file as it was when it was loaded

vars == <<options, env, useFile, file, pc, config, read>>
input == <<options, env, useFile>>

TypeOK == /\ options \in Given /\ env \in Given /\ useFile \in BOOLEAN
          /\ file \in File \cup {Broken}
          /\ pc \in {"load", "run", "exited"}
          /\ config \in File \cup {NoConfig}
          /\ pc = "run" => config \in File /\ \A f \in Flags: config.flags[f] \in Values
          /\ read \in File \cup {Broken}

Init == /\ options \in Given /\ env \in Given /\ useFile \in BOOLEAN
        /\ file \in File \cup {Broken}
        /\ pc = "load" /\ config = NoConfig /\ read = file

-----------------------------------------------------------------------------
(* The command line package. *)
IsSet(f) == options[f] # Unset \/ env[f] # Unset
CLIValue(f) == IF options[f] # Unset THEN options[f]
               ELSE IF env[f] # Unset THEN env[f] ELSE Default[f]

(* Mutant: a field that nobody sets is left nil. *)
UpdateIfSet(f, field) == IF IsSet(f) THEN CLIValue(f) ELSE field

updateFromCLIFlag(f, field) ==
  IF IsSet(f) \/ field = Unset THEN CLIValue(f) ELSE field

(* What the unmarshalers make of the file: renameByDefault fills the names *)
(* in that were left out.                                                  *)
Acceptable(content) ==
  /\ content # Broken
  /\ \A r \in Resources: content.resources[r] # Unlisted =>
                           content.resources[r].replicas >= 2
Parsed(content) ==
  [content EXCEPT !.resources =
     [r \in Resources |->
        IF @[r] # Unlisted /\ content.renameByDefault /\ @[r].rename = ""
        THEN [@[r] EXCEPT !.rename = "shared"] ELSE @[r]]]
EmptyConfig == [flags |-> [f \in Flags |-> Unset], renameByDefault |-> FALSE,
                resources |-> [r \in Resources |-> Unlisted]]

(* Mutant: renaming left on for the names given in the file. *)
RenamingOnlyFilled(c) ==
  [c EXCEPT !.resources =
     [r \in Resources |-> IF @[r] = Unlisted THEN Unlisted
                          ELSE [@[r] EXCEPT !.devices = "all"]]]

(* Names of one's own and selections of devices are put back to defaults. *)
disableResourceRenamingInConfig(c) ==
  [c EXCEPT !.resources =
     [r \in Resources |->
        IF @[r] = Unlisted THEN Unlisted
        ELSE [@[r] EXCEPT !.devices = "all",
                          !.rename = IF c.renameByDefault THEN "shared" ELSE ""]]]

(* Mutant: the file unmarshaled over the configuration of the run before. *)
LoadOver ==
  /\ pc = "load"
  /\ useFile => Acceptable(file)
  /\ LET parsed == IF useFile THEN Parsed(file) ELSE EmptyConfig
         over == IF config = NoConfig THEN parsed
                 ELSE [parsed EXCEPT !.flags =
                         [f \in Flags |-> IF @[f] = Unset THEN config.flags[f] ELSE @[f]]]
         updated == [over EXCEPT !.flags =
                       [f \in Flags |-> updateFromCLIFlag(f, @[f])]]
     IN config' = disableResourceRenamingInConfig(updated)
  /\ pc' = "run"
  /\ read' = file
  /\ UNCHANGED <<input, file>>

Load ==
  /\ pc = "load"
  /\ useFile => Acceptable(file)
  /\ LET parsed == IF useFile THEN Parsed(file) ELSE EmptyConfig
         updated == [parsed EXCEPT !.flags =
                       [f \in Flags |-> updateFromCLIFlag(f, @[f])]]
     IN config' = disableResourceRenamingInConfig(updated)
  /\ pc' = "run"
  /\ read' = file
  /\ UNCHANGED <<input, file>>

(* A file that cannot be used ends the program, on a reload as well. *)
LoadFails == /\ pc = "load"
             /\ useFile /\ ~Acceptable(file)
             /\ pc' = "exited"
             /\ UNCHANGED <<input, file, config, read>>

(* The run ends, with a SIGHUP or for good. *)
RunEnds == /\ pc = "run"
           /\ pc' \in {"load", "exited"}
           /\ UNCHANGED <<input, file, config, read>>

(* The file is edited, and cannot be used meanwhile. *)
Edit == /\ file' \in File \cup {Broken}
        /\ pc # "exited"
        /\ UNCHANGED <<input, pc, config, read>>

Next == Load \/ LoadFails \/ RunEnds \/ Edit
Spec == Init /\ [][Next]_vars

-----------------------------------------------------------------------------
(* "populated in order of precedence from (1) command line, (2)            *)
(* environment variable, (3) config file" (config.go:41), at every load    *)
(* from what the file says at that moment: nothing of an earlier load is   *)
(* left when a field is taken out of the file.                             *)
Precedence ==
  pc = "run" =>
    \A f \in Flags:
      LET given == <<options[f], env[f], IF useFile THEN read.flags[f] ELSE Unset,
                     Default[f]>>
      IN \E i \in 1..4: /\ config.flags[f] = given[i]
                        /\ given[i] # Unset
                        /\ \A j \in 1..(i - 1): given[j] = Unset

(* The labelers need not look at names and devices: a listed resource has  *)
(* at least two replicas, of all its devices, and is renamed exactly when  *)
(* renameByDefault is on, to its default name (what ResourceLabels takes a *)
(* configuration for).                                                     *)
SharingUniform ==
  pc = "run" =>
    \A r \in Resources:
      LET says == config.resources[r]
      IN /\ says = Unlisted <=> ~useFile \/ read.resources[r] = Unlisted
         /\ says # Unlisted =>
              /\ says.replicas = read.resources[r].replicas /\ says.replicas >= 2
              /\ says.devices = "all"
              /\ says.rename = IF read.renameByDefault THEN "shared" ELSE ""
=============================================================================
