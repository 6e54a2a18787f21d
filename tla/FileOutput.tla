----------------------------- MODULE FileOutput -----------------------------
(***************************************************************************)
(* The output file of gpu-feature-discovery and the directory "gfd-tmp"    *)
(* beside it, as the program instances that share them (the daemon set's   *)
(* pod, its successor during a rolling update, a one-shot job) use them.   *)
(* Each system call of writeFileAtomically (labels.go) and of              *)
(* removeOutputFile (main.go) is one step, so that the calls of several    *)
(* instances, failures of a call, and crashes interleave as they do on a   *)
(* real node.  A label set is one opaque value: what is in it is the       *)
(* business of ResourceLabels.                                             *)
(*                                                                         *)
(* os.CreateTemp draws a random name and retries when the file exists; two *)
(* instances drawing the same name while both use it is assumed away.      *)
(***************************************************************************)
EXTENDS Naturals, FiniteSets

CONSTANTS Procs,       \* program instances sharing the output directory
          Oneshot,     \* those started with --oneshot
          LabelSets,   \* complete label sets a pass can generate
          Names,       \* names of temporary files
          NoFile,      \* no file of that name
          NoName,      \* no temporary file in use
          Partial,     \* content of a file that is not completely written
          Faults,      \* system calls the environment may make fail
          MayCrash     \* instances that may be killed (SIGKILL, node reset)

Calls == {"mkdir", "create", "open", "write", "rename", "chmod",
          "unlink", "sweep", "remove"}
Modes == {"0600", "0644"}
File == [content: LabelSets \cup {Partial}, mode: Modes]

ASSUME ConstantsAssumption ==
  /\ Oneshot \subseteq Procs
  /\ MayCrash \subseteq Procs
  /\ Faults \subseteq Calls
  /\ NoFile \notin File \cup LabelSets \cup {Partial}
  /\ NoName \notin Names
  /\ Partial \notin LabelSets

VARIABLES pc,          \* where each instance is
          labels,      \* the label set of its current pass, or NoFile
          name,        \* the temporary file it uses, or NoName
          todo,        \* entries its RemoveAll has listed and not unlinked
          after,       \* where removeOutputFile returns to
          out,         \* the output file
          tmpDir,      \* whether the directory gfd-tmp exists
          tmp          \* the files in it

vars == <<pc, labels, name, todo, after, out, tmpDir, tmp>>

Stopped == {"off", "done", "failed"}
Targets == {"load", "done", "failed"}
PC == Stopped \cup Calls \cup
      {"load", "label", "sleep", "purgeErr", "sweepErr", "purgeOut", "sweepOut"}

TypeOK == /\ pc \in [Procs -> PC]
          /\ labels \in [Procs -> LabelSets \cup {NoFile}]
          /\ name \in [Procs -> Names \cup {NoName}]
          /\ todo \in [Procs -> SUBSET Names]
          /\ after \in [Procs -> Targets]
          /\ out \in File \cup {NoFile}
          /\ tmpDir \in BOOLEAN
          /\ tmp \in [Names -> File \cup {NoFile}]

Init == /\ pc = [p \in Procs |-> "off"]
        /\ labels = [p \in Procs |-> NoFile]
        /\ name = [p \in Procs |-> NoName]
        /\ todo = [p \in Procs |-> {}]
        /\ after = [p \in Procs |-> "done"]
        /\ out = NoFile
        /\ tmpDir = FALSE
        /\ tmp = [n \in Names |-> NoFile]

Present == {n \in Names: tmp[n] # NoFile}
Goto(p, l) == pc' = [pc EXCEPT ![p] = l]
MayFail(call) == call \in Faults

(* Mutants: the deferred removal forgotten on the error returns, and made   *)
(* for a one-shot program too.                                             *)
ReturnKeepingOnError(p, to) ==
  IF p \in Oneshot \/ to = "failed"
  THEN Goto(p, to) /\ UNCHANGED after
  ELSE Goto(p, "purgeOut") /\ after' = [after EXCEPT ![p] = to]
ReturnAlwaysRemoving(p, to) ==
  Goto(p, "purgeOut") /\ after' = [after EXCEPT ![p] = to]

(* run() returns: its deferred function removes the output unless the      *)
(* program is one-shot.  `to` is what follows: reload, exit 0 or exit 1.   *)
Return(p, to) ==
  IF p \in Oneshot THEN Goto(p, to) /\ UNCHANGED after
                   ELSE Goto(p, "purgeOut") /\ after' = [after EXCEPT ![p] = to]

-----------------------------------------------------------------------------
(* Process life.                                                           *)

(* The pod's container is started, or started again after it ended.        *)
Start(p) == /\ pc[p] \in Stopped
            /\ Goto(p, "load")
            /\ labels' = [labels EXCEPT ![p] = NoFile]
            /\ UNCHANGED <<name, todo, after, out, tmpDir, tmp>>

(* start() loads the configuration; when that fails it returns at once,    *)
(* outside run(), so nothing is removed.                                   *)
Load(p) == /\ pc[p] = "load"
           /\ \/ Goto(p, "label")
              \/ Goto(p, "failed")
           /\ UNCHANGED <<labels, name, todo, after, out, tmpDir, tmp>>

(* Mutant: the error of the labelers ignored, their nil result written. *)
GenerateIgnoringError(p) ==
  /\ pc[p] = "label"
  /\ \E l \in LabelSets \cup {NoFile}: labels' = [labels EXCEPT ![p] = l]
  /\ Goto(p, "mkdir")
  /\ UNCHANGED <<name, todo, after, out, tmpDir, tmp>>

(* One pass of the labelers, or its error. *)
GenerateLabels(p) ==
  /\ pc[p] = "label"
  /\ \/ /\ \E l \in LabelSets: labels' = [labels EXCEPT ![p] = l]
        /\ Goto(p, "mkdir")
        /\ UNCHANGED after
     \/ /\ Return(p, "failed")
        /\ UNCHANGED labels
  /\ UNCHANGED <<name, todo, out, tmpDir, tmp>>

(* Mutant: the timer only sleeps again, without the goto. *)
TimerNoRerun(p) == pc[p] = "sleep" /\ UNCHANGED vars

(* The select of run(): the timer starts another pass, SIGHUP reloads, any *)
(* other signal ends the program.                                          *)
Timer(p) == /\ pc[p] = "sleep"
            /\ Goto(p, "label")
            /\ UNCHANGED <<labels, name, todo, after, out, tmpDir, tmp>>

(* Mutant: os.Exit in the signal's case, which runs no deferred function. *)
SignalExits(p) == /\ pc[p] = "sleep"
                  /\ \/ Return(p, "load")
                     \/ Goto(p, "done") /\ UNCHANGED after
                  /\ UNCHANGED <<labels, name, todo, out, tmpDir, tmp>>

Signal(p) == /\ pc[p] = "sleep"
             /\ \/ Return(p, "load")
                \/ Return(p, "done")
             /\ UNCHANGED <<labels, name, todo, out, tmpDir, tmp>>

(* The instance is killed: its files stay as they are. *)
Crash(p) == /\ p \in MayCrash
            /\ pc[p] \notin Stopped
            /\ Goto(p, "off")
            /\ name' = [name EXCEPT ![p] = NoName]
            /\ todo' = [todo EXCEPT ![p] = {}]
            /\ UNCHANGED <<labels, after, out, tmpDir, tmp>>

-----------------------------------------------------------------------------
(* writeFileAtomically.                                                    *)

(* os.MkdirAll; on failure nothing has been deferred yet. *)
Mkdir(p) == /\ pc[p] = "mkdir"
            /\ \/ tmpDir' = TRUE /\ Goto(p, "create") /\ UNCHANGED after
               \/ MayFail("mkdir") /\ Return(p, "failed") /\ UNCHANGED tmpDir
            /\ UNCHANGED <<labels, name, todo, out, tmp>>

(* os.CreateTemp makes an empty 0600 file; it fails when another instance  *)
(* has removed gfd-tmp, and the directory is then removed with all it      *)
(* holds.                                                                  *)
Create(p) ==
  /\ pc[p] = "create"
  /\ \/ /\ tmpDir
        /\ \E n \in Names \ (Present \cup {name[q]: q \in Procs}):
             /\ name' = [name EXCEPT ![p] = n]
             /\ tmp' = [tmp EXCEPT ![n] = [content |-> Partial, mode |-> "0600"]]
        /\ Goto(p, "open")
     \/ /\ ~tmpDir \/ MayFail("create")
        /\ Goto(p, "purgeErr")
        /\ UNCHANGED <<name, tmp>>
  /\ UNCHANGED <<labels, todo, after, out, tmpDir>>

(* os.WriteFile opens the name again with O_CREATE|O_TRUNC: a file another *)
(* instance has unlinked is made anew, with the mode asked for.            *)
Open(p) ==
  /\ pc[p] = "open"
  /\ \/ /\ tmpDir
        /\ tmp' = [tmp EXCEPT ![name[p]] =
                     [content |-> Partial,
                      mode |-> IF @ = NoFile THEN "0644" ELSE @.mode]]
        /\ Goto(p, "write")
     \/ /\ ~tmpDir \/ MayFail("open")
        /\ Goto(p, "unlink")
        /\ UNCHANGED tmp
  /\ UNCHANGED <<labels, name, todo, after, out, tmpDir>>

(* Mutant: the error of os.WriteFile not checked. *)
WriteIgnoringError(p) ==
  /\ pc[p] = "write"
  /\ Goto(p, "rename")
  /\ \/ tmp' = IF tmp[name[p]] = NoFile THEN tmp
               ELSE [tmp EXCEPT ![name[p]].content = labels[p]]
     \/ MayFail("write") /\ UNCHANGED tmp
  /\ UNCHANGED <<labels, name, todo, after, out, tmpDir>>

(* os.WriteFile writes through the descriptor, so it succeeds even when    *)
(* the name is gone; a failed write leaves a partial file.                 *)
Write(p) ==
  /\ pc[p] = "write"
  /\ \/ /\ tmp' = IF tmp[name[p]] = NoFile THEN tmp
                  ELSE [tmp EXCEPT ![name[p]].content = labels[p]]
        /\ Goto(p, "rename")
     \/ /\ MayFail("write")
        /\ Goto(p, "unlink")
        /\ UNCHANGED tmp
  /\ UNCHANGED <<labels, name, todo, after, out, tmpDir>>

(* os.Rename replaces the output in one step. *)
Rename(p) ==
  /\ pc[p] = "rename"
  /\ \/ /\ tmp[name[p]] # NoFile
        /\ out' = tmp[name[p]]
        /\ tmp' = [tmp EXCEPT ![name[p]] = NoFile]
        /\ Goto(p, "chmod")
     \/ /\ tmp[name[p]] = NoFile \/ MayFail("rename")
        /\ Goto(p, "unlink")
        /\ UNCHANGED <<out, tmp>>
  /\ UNCHANGED <<labels, name, todo, after, tmpDir>>

(* Mutant: no os.Chmod after the rename. *)
ChmodMissing(p) ==
  /\ pc[p] = "chmod"
  /\ name' = [name EXCEPT ![p] = NoName]
  /\ Goto(p, IF p \in Oneshot THEN "done" ELSE "sleep")
  /\ UNCHANGED <<labels, todo, after, out, tmpDir, tmp>>

(* os.Chmod names the output by its path: the file may by now be another   *)
(* instance's, or gone.  Then run() sleeps, or a one-shot program ends.    *)
Chmod(p) ==
  /\ pc[p] = "chmod"
  /\ \/ /\ out # NoFile
        /\ out' = [out EXCEPT !.mode = "0644"]
        /\ name' = [name EXCEPT ![p] = NoName]
        /\ Goto(p, IF p \in Oneshot THEN "done" ELSE "sleep")
     \/ /\ out = NoFile \/ MayFail("chmod")
        /\ Goto(p, "unlink")
        /\ UNCHANGED <<out, name>>
  /\ UNCHANGED <<labels, todo, after, tmpDir, tmp>>

(* Mutant: the deferred function only closes the temporary file. *)
UnlinkMissing(p) ==
  /\ pc[p] = "unlink"
  /\ name' = [name EXCEPT ![p] = NoName]
  /\ Goto(p, "purgeErr")
  /\ UNCHANGED <<labels, todo, after, out, tmpDir, tmp>>

(* The deferred os.Remove of the temporary file; its error is ignored. *)
Unlink(p) ==
  /\ pc[p] = "unlink"
  /\ \/ tmp' = [tmp EXCEPT ![name[p]] = NoFile]
     \/ MayFail("unlink") /\ UNCHANGED tmp
  /\ name' = [name EXCEPT ![p] = NoName]
  /\ Goto(p, "purgeErr")
  /\ UNCHANGED <<labels, todo, after, out, tmpDir>>

-----------------------------------------------------------------------------
(* os.RemoveAll(gfd-tmp), called by the failed write (Err, result ignored) *)
(* and by removeOutputFile (Out).                                          *)

(* What follows RemoveAll.  removeOutputFile gives up when it failed, and  *)
(* then leaves the output file in place.                                   *)
PurgeReturns(p, ok) ==
  IF pc[p] \in {"purgeErr", "sweepErr"} THEN Return(p, "failed")
  ELSE /\ Goto(p, IF ok THEN "remove" ELSE after[p])
       /\ UNCHANGED after

(* RemoveAll first tries to remove the directory as an empty one; when it  *)
(* has entries it lists them.                                              *)
Purge(p) ==
  /\ pc[p] \in {"purgeErr", "purgeOut"}
  /\ \/ /\ Present = {}
        /\ tmpDir' = FALSE
        /\ PurgeReturns(p, TRUE)
        /\ UNCHANGED todo
     \/ /\ Present # {} \/ MayFail("sweep")
        /\ todo' = [todo EXCEPT ![p] = Present]
        /\ Goto(p, IF pc[p] = "purgeErr" THEN "sweepErr" ELSE "sweepOut")
        /\ UNCHANGED <<after, tmpDir>>
  /\ UNCHANGED <<labels, name, out, tmp>>

(* It unlinks what it has listed, then removes the directory, which fails  *)
(* when another instance has created a file in it meanwhile.               *)
SweepEntry(p) ==
  /\ pc[p] \in {"sweepErr", "sweepOut"}
  /\ \E n \in todo[p]:
       /\ \/ tmp' = [tmp EXCEPT ![n] = NoFile]
          \/ MayFail("sweep") /\ UNCHANGED tmp
       /\ todo' = [todo EXCEPT ![p] = @ \ {n}]
  /\ UNCHANGED <<pc, labels, name, after, out, tmpDir>>

SweepDir(p) ==
  /\ pc[p] \in {"sweepErr", "sweepOut"}
  /\ todo[p] = {}
  /\ \/ Present = {} /\ tmpDir' = FALSE /\ PurgeReturns(p, TRUE)
     \/ /\ Present # {} \/ MayFail("sweep")
        /\ PurgeReturns(p, FALSE)
        /\ UNCHANGED tmpDir
  /\ UNCHANGED <<labels, name, todo, out, tmp>>

(* os.Remove of the output file; its error is only logged. *)
Remove(p) ==
  /\ pc[p] = "remove"
  /\ \/ out' = NoFile
     \/ MayFail("remove") /\ UNCHANGED out
  /\ Goto(p, after[p])
  /\ UNCHANGED <<labels, name, todo, after, tmpDir, tmp>>

-----------------------------------------------------------------------------
Step(p) == \/ Load(p) \/ GenerateLabels(p) \/ Timer(p)
           \/ Mkdir(p) \/ Create(p) \/ Open(p) \/ Write(p)
           \/ Rename(p) \/ Chmod(p) \/ Unlink(p)
           \/ Purge(p) \/ SweepEntry(p) \/ SweepDir(p) \/ Remove(p)

Next == \E p \in Procs: Start(p) \/ Crash(p) \/ Signal(p) \/ Step(p)

Spec == Init /\ [][Next]_vars

(* A running instance is scheduled and its timer fires.  Nothing makes a   *)
(* container start again, a signal arrive, or a call fail.                 *)
Fairness == \A p \in Procs: WF_vars(Step(p))
FairSpec == Spec /\ Fairness

-----------------------------------------------------------------------------
(* Properties.                                                             *)

(* Where an instance uses a temporary file, and where it removes things.   *)
Using == {"open", "write", "rename", "chmod", "unlink"}
Removing == {"purgeErr", "sweepErr", "purgeOut", "sweepOut", "remove"}

(* The reader of the output file never sees a partially written label set, *)
(* whoever crashes or fails and however writers interleave: the file only  *)
(* ever arrives by the rename that ends writeFileAtomically.               *)
OutputWhole == out # NoFile => out.content \in LabelSets

(* The only temporary files are those of writes in progress: every error   *)
(* path of writeFileAtomically takes its own file away, even when other    *)
(* instances remove the directory under it.  (Crashes, and failures of the *)
(* removal itself, do leave files.)                                        *)
NoLeakedTemp == \A n \in Present: \E p \in Procs: name[p] = n

(* When every daemon that shared the directory has ended by itself, by a   *)
(* signal or by an error, no stale label and no temporary directory is     *)
(* left, although each one's removeOutputFile may have given up because of *)
(* a file another was writing.                                             *)
AllStoppedClean == (\A p \in Procs: pc[p] \in Stopped) => out = NoFile /\ ~tmpDir

(* While a daemon that is alone sleeps, the output is exactly the label    *)
(* set of its last pass, readable by all, whatever earlier runs of it that *)
(* crashed or failed had left behind.                                      *)
SleepPublished == \A p \in Procs: pc[p] = "sleep" =>
                    out = [content |-> labels[p], mode |-> "0644"]

(* A daemon that is alone and ends on a signal leaves nothing, not even    *)
(* what an earlier run that crashed had left.                              *)
ExitClean == \A p \in Procs \ Oneshot: pc[p] = "done" => out = NoFile /\ ~tmpDir

(* The mode writeFileAtomically is asked for is the mode of the file it    *)
(* publishes: "The file is written atomocally" (labels.go:58).             *)
OutputReadable == out # NoFile => out.mode = "0644"

(* An output that others cannot read is not left like that by daemons that *)
(* are not killed: whoever's chmod failed or found another's file, some    *)
(* instance is still in its write, and will publish a new output or fail,  *)
(* or in the removal that follows a failure.                               *)
UnreadableInPassing ==
  out # NoFile /\ out.mode # "0644" => \E p \in Procs: pc[p] \in Using \cup Removing

(* A daemon that stays up after the others have gone publishes its labels  *)
(* again and again, although the others may have removed its file or made  *)
(* its writes fail while they shut down.                                   *)
Restored ==
  \A p \in Procs \ Oneshot:
    <>[](pc[p] \notin Stopped /\ \A q \in Procs \ {p}: pc[q] \in Stopped)
      => []<>(pc[p] = "sleep" /\ out # NoFile /\ out.content = labels[p])

(* The file and the instances implement the abstract store: a pass's label *)
(* set is published whole and at most once, and one-shot instances never   *)
(* withdraw anything.                                                      *)
Writing == {"mkdir", "create", "open", "write", "rename"}
Visible == IF out = NoFile THEN NoFile ELSE out.content
Pending == [p \in Procs |-> IF pc[p] \in Writing THEN labels[p] ELSE NoFile]
Store == INSTANCE LabelStore WITH
           Writers <- Procs,
           Retainers <- Oneshot,
           Absent <- NoFile,
           store <- Visible,
           pending <- Pending
StoreSpec == Store!Spec

-----------------------------------------------------------------------------
(* Inductive invariants: why OutputWhole and AllStoppedClean hold.         *)

(* The instances that use a temporary file are those that hold a name of   *)
(* one, and each holds its own: nobody else writes or renames it.          *)
NamesOwned == /\ \A p \in Procs: pc[p] \in Using <=> name[p] # NoName
              /\ \A p, q \in Procs: name[p] = name[q] /\ name[p] # NoName => p = q

(* A write has a label set from the pass before it, and what is about to   *)
(* be renamed, if nobody removed it, is that label set, complete.          *)
ReadyWhole ==
  \A p \in Procs:
    /\ pc[p] \in Writing => labels[p] \in LabelSets
    /\ pc[p] = "rename" /\ tmp[name[p]] # NoFile => tmp[name[p]].content = labels[p]

IInv == TypeOK /\ NamesOwned /\ ReadyWhole /\ OutputWhole

(* A one-shot instance is never on its way to remove the output. *)
OneshotKeeps == \A p \in Oneshot: pc[p] \notin {"purgeOut", "sweepOut", "remove"}

(* An instance between the start of run() and the end of its RemoveAll     *)
(* answers for what is in the directory; in "remove" for the output only.  *)
InRun == PC \ (Stopped \cup {"load", "remove"})
RenamedAway == \A p \in Procs: pc[p] = "chmod" => tmp[name[p]] = NoFile
CleanInv == /\ NoLeakedTemp
            /\ RenamedAway
            /\ tmpDir => \E p \in Procs: pc[p] \in InRun
            /\ out # NoFile => \E p \in Procs: pc[p] \in InRun \cup {"remove"}
=============================================================================
