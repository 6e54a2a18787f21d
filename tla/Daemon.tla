------------------------------- MODULE Daemon -------------------------------
(***************************************************************************)
(* The life of one gpu-feature-discovery process (start() and run() in     *)
(* main.go): configuration loads and reloads, the signal channel of        *)
(* capacity one, the device library and its fallback manager, the pass     *)
(* that labels and publishes, the timer, and the deferred removal of the   *)
(* output.  Publishing and removing are single steps here: FileOutput has  *)
(* their system calls, and ResourceLabels what the labels say.             *)
(***************************************************************************)
EXTENDS Naturals, Sequences

CONSTANTS Paths,           \* output files a configuration can name
          Stdout,          \* the empty path: labels go to standard output
          CR,              \* the NodeFeature object, with --use-node-feature-api
          Nothing,         \* nothing is published there
          NodeFeatureAPI,  \* the flag; read from the command line only
          Configs,         \* configurations the config file can hold
          RemovalFails,    \* whether removing the output may fail
          MaxHups          \* bound: SIGHUPs ever sent

Drivers == {"absent", "broken", "nodevices", "up"}
Managers == {"real", "null"}
Classes == {"bare", "gpu"}
Signals == {"HUP", "TERM"}
SigCap == 1

ASSUME ConstantsAssumption ==
  /\ Configs \subseteq [path: Paths \cup {Stdout}, oneshot: BOOLEAN, failOnInit: BOOLEAN]
  /\ Stdout \notin Paths
  /\ CR \notin Paths \cup {Stdout}
  /\ Nothing \notin Classes
  /\ NodeFeatureAPI \in BOOLEAN
  /\ RemovalFails \in BOOLEAN
  /\ MaxHups \in Nat

VARIABLES pc,         \* where the process is
          next,       \* where it goes after the removal of the output
          cfgFile,    \* the configuration on disk
          cfg,        \* the configuration loaded
          driver,     \* state of the GPU driver on the node
          detected,   \* the manager getManager chose at the last load
          manager,    \* the manager in use: the fallback replaces it by null
          handles,    \* open handles of the driver's library
          labels,     \* what the pass generated
          published,  \* what is published where
          pending,    \* signals the process has not been given yet
          sigs,       \* the channel of newOSWatcher
          hups,       \* SIGHUPs sent
          loads,      \* configurations loaded
          lost        \* a terminating signal was dropped behind a SIGHUP

process == <<pc, next, cfg, detected, manager, handles, labels, published, loads>>
signals == <<pending, sigs, hups, lost>>
node == <<cfgFile, driver>>
vars == <<process, signals, node>>

PCs == {"start", "load", "init", "query", "output", "select", "cleanup", "exited"}

TypeOK == /\ pc \in PCs
          /\ next \in {"load", "exited"}
          /\ cfgFile \in Configs /\ cfg \in Configs
          /\ driver \in Drivers
          /\ detected \in Managers /\ manager \in Managers
          /\ handles \in Nat
          /\ labels \in Classes
          /\ published \in [Paths \cup {Stdout, CR} -> Classes \cup {Nothing}]
          /\ pending \subseteq Signals
          /\ sigs \in Seq(Signals) /\ Len(sigs) <= SigCap
          /\ hups \in 0..MaxHups
          /\ loads \in Nat
          /\ lost \in BOOLEAN

Init == /\ pc = "start" /\ next = "exited"
        /\ cfgFile \in Configs /\ cfg = cfgFile
        /\ driver \in Drivers
        /\ detected = "null" /\ manager = "null"
        /\ handles = 0
        /\ labels = "bare"
        /\ published = [t \in Paths \cup {Stdout, CR} |-> Nothing]
        /\ pending = {} /\ sigs = <<>> /\ hups = 0 /\ lost = FALSE
        /\ loads = 0

-----------------------------------------------------------------------------
(* The node around the process.                                            *)

EditConfig == /\ cfgFile' \in Configs
              /\ UNCHANGED <<process, signals, driver>>

ChangeDriver == /\ driver' \in Drivers
                /\ UNCHANGED <<process, signals, cfgFile>>

(* A signal is sent.  Signals of one kind that are not yet delivered       *)
(* coalesce; INT, QUIT and TERM are one kind for this program.             *)
Send(s) == /\ s = "HUP" => hups < MaxHups
           /\ hups' = IF s = "HUP" THEN hups + 1 ELSE hups
           /\ pending' = pending \cup {s}
           /\ UNCHANGED <<process, node, sigs, lost>>

(* Mutants: a channel that grows, and one with no buffer. *)
DeliverUnbounded(s) ==
  /\ s \in pending
  /\ pending' = pending \ {s}
  /\ sigs' = Append(sigs, s)
  /\ UNCHANGED <<process, node, hups, lost>>
DeliverUnbuffered(s) ==
  /\ s \in pending
  /\ pending' = pending \ {s}
  /\ sigs' = IF pc = "select" /\ sigs = <<>> THEN <<s>> ELSE sigs
  /\ lost' = (lost \/ (s = "TERM" /\ sigs = <<"HUP">>))
  /\ UNCHANGED <<process, node, hups>>

(* signal.Notify sends on the channel without blocking: with the channel   *)
(* full the signal is dropped.  Before newOSWatcher a signal has its       *)
(* default action, which ends the process.                                 *)
Deliver(s) ==
  /\ s \in pending
  /\ pending' = pending \ {s}
  /\ \/ /\ pc = "start"
        /\ pc' = "exited"
        /\ UNCHANGED <<sigs, lost>>
     \/ /\ pc # "start"
        /\ sigs' = IF Len(sigs) < SigCap THEN Append(sigs, s) ELSE sigs
        /\ lost' = (lost \/ (s = "TERM" /\ sigs = <<"HUP">>))
        /\ UNCHANGED pc
  /\ UNCHANGED <<next, cfg, detected, manager, handles, labels, published, loads,
                 node, hups>>

-----------------------------------------------------------------------------
(* start().                                                                *)

Watch == /\ pc = "start"
         /\ pc' = "load"
         /\ UNCHANGED <<next, cfg, detected, manager, handles, labels, published,
                        loads, signals, node>>

(* getManager: a driver library that can be found selects its manager,     *)
(* whether or not it will initialise.                                      *)
GetManager == IF driver = "absent" THEN "null" ELSE "real"

(* Mutant: the manager made once, before the loop of start(). *)
LoadKeepingManager ==
  /\ pc = "load"
  /\ \/ /\ pc' = "init"
        /\ cfg' = cfgFile
        /\ IF loads = 0 THEN detected' = GetManager /\ manager' = GetManager
                        ELSE UNCHANGED <<detected, manager>>
        /\ loads' = loads + 1
     \/ /\ pc' = "exited"
        /\ UNCHANGED <<cfg, detected, manager, loads>>
  /\ UNCHANGED <<next, handles, labels, published, signals, node>>

Load == /\ pc = "load"
        /\ \/ /\ pc' = "init"
              /\ cfg' = cfgFile
              /\ detected' = GetManager
              /\ manager' = GetManager
              /\ loads' = loads + 1
           \/ /\ pc' = "exited"
              /\ UNCHANGED <<cfg, detected, manager, loads>>
        /\ UNCHANGED <<next, handles, labels, published, signals, node>>

(* run() returns through its deferred function, which removes the output   *)
(* file unless there is none or the program is one-shot.                   *)
Return(to) == IF NodeFeatureAPI \/ cfg.oneshot \/ cfg.path = Stdout
              THEN pc' = to /\ UNCHANGED next
              ELSE pc' = "cleanup" /\ next' = to

(* Mutant: the path taken from the configuration as it is now on disk. *)
CleanupNewPath == /\ pc = "cleanup"
                  /\ published' = [published EXCEPT ![cfgFile.path] = Nothing]
                  /\ pc' = next
                  /\ UNCHANGED <<next, cfg, detected, manager, handles, labels, loads,
                                 signals, node>>

(* removeOutputFile; start() then loads again or the process ends. *)
Cleanup == /\ pc = "cleanup"
           /\ \/ published' = [published EXCEPT ![cfg.path] = Nothing]
              \/ RemovalFails /\ UNCHANGED published
           /\ pc' = next
           /\ UNCHANGED <<next, cfg, detected, manager, handles, labels, loads,
                          signals, node>>

-----------------------------------------------------------------------------
(* A pass of run().                                                        *)

(* Mutant: the fallback lasts for one pass and keeps what it wraps. *)
InitLibraryNoFallback ==
  /\ pc = "init"
  /\ handles' = IF manager = "real" /\ driver # "absent" THEN handles + 1 ELSE handles
  /\ IF manager = "real" /\ driver \in {"absent", "broken"}
     THEN \/ cfg.failOnInit /\ Return("exited") /\ UNCHANGED labels
          \/ ~cfg.failOnInit /\ pc' = "output" /\ labels' = "bare" /\ UNCHANGED next
     ELSE pc' = "query" /\ UNCHANGED <<next, labels>>
  /\ UNCHANGED <<cfg, detected, manager, published, loads, signals, node>>

(* manager.Init.  The library is opened before it is initialised, and is   *)
(* not closed again when that fails.  With failOnInitError the pass fails; *)
(* without, the manager is replaced by the null manager for good.          *)
InitLibrary ==
  /\ pc = "init"
  /\ \/ /\ manager = "null"
        /\ pc' = "query"
        /\ UNCHANGED <<next, manager, handles>>
     \/ /\ manager = "real" /\ driver \in {"nodevices", "up"}
        /\ pc' = "query"
        /\ handles' = handles + 1
        /\ UNCHANGED <<next, manager>>
     \/ /\ manager = "real" /\ driver \in {"absent", "broken"}
        /\ handles' = IF driver = "broken" THEN handles + 1 ELSE handles
        /\ \/ cfg.failOnInit /\ Return("exited") /\ UNCHANGED manager
           \/ ~cfg.failOnInit /\ pc' = "query" /\ manager' = "null" /\ UNCHANGED next
  /\ UNCHANGED <<cfg, detected, labels, published, loads, signals, node>>

(* All device queries of NewNVMLLabeler, the deferred Shutdown, and then   *)
(* the vGPU labels.  A query can fail, and does when the driver went away. *)
Query ==
  /\ pc = "query"
  /\ handles' = IF manager = "real" THEN handles - 1 ELSE handles
  /\ \/ /\ manager = "null" \/ driver = "nodevices"
        /\ labels' = "bare" /\ pc' = "output" /\ UNCHANGED next
     \/ /\ manager = "real" /\ driver = "up"
        /\ labels' = "gpu" /\ pc' = "output" /\ UNCHANGED next
     \/ Return("exited") /\ UNCHANGED labels
  /\ UNCHANGED <<cfg, detected, manager, published, loads, signals, node>>

(* labels.Output, then the end of a one-shot program or the select. *)
Target == IF NodeFeatureAPI THEN CR ELSE cfg.path
Output ==
  /\ pc = "output"
  /\ \/ /\ published' = [published EXCEPT ![Target] = labels]
        /\ IF cfg.oneshot THEN Return("exited") ELSE pc' = "select" /\ UNCHANGED next
     \/ /\ Return("exited")
        /\ UNCHANGED published
  /\ UNCHANGED <<cfg, detected, manager, handles, labels, loads, signals, node>>

Timer == /\ pc = "select"
         /\ pc' = "init"
         /\ UNCHANGED <<next, cfg, detected, manager, handles, labels, published,
                        loads, signals, node>>

(* Mutant: SIGHUP starts another pass with the configuration in memory. *)
TakeSignalRerun ==
  /\ pc = "select"
  /\ sigs # <<>>
  /\ sigs' = Tail(sigs)
  /\ IF Head(sigs) = "HUP" THEN pc' = "init" /\ UNCHANGED next ELSE Return("exited")
  /\ UNCHANGED <<cfg, detected, manager, handles, labels, published, loads,
                 pending, hups, lost, node>>

TakeSignal ==
  /\ pc = "select"
  /\ sigs # <<>>
  /\ sigs' = Tail(sigs)
  /\ Return(IF Head(sigs) = "HUP" THEN "load" ELSE "exited")
  /\ UNCHANGED <<cfg, detected, manager, handles, labels, published, loads,
                 pending, hups, lost, node>>

-----------------------------------------------------------------------------
Run == Watch \/ Load \/ InitLibrary \/ Query \/ Output \/ Cleanup
Environment == EditConfig \/ ChangeDriver \/ \E s \in Signals: Send(s)

Next == \/ Run \/ Timer \/ TakeSignal
        \/ \E s \in Signals: Deliver(s)
        \/ Environment

Spec == Init /\ [][Next]_vars

(* The process is scheduled, its timer fires, and the runtime hands over   *)
(* the signals it was given.  The select chooses among its ready cases at  *)
(* random and arms the timer only after a pass, so a signal that waits is  *)
(* taken unless the process selects finitely often: strong fairness.       *)
(* Nothing is assumed of the environment.                                  *)
Fairness == /\ WF_vars(Run)
            /\ WF_vars(Timer)
            /\ SF_vars(TakeSignal)
            /\ \A s \in Signals: WF_vars(Deliver(s))
FairSpec == Spec /\ Fairness

-----------------------------------------------------------------------------
(* Properties.                                                             *)

(* A label file exists only where the configuration in use says, while     *)
(* run() is under way, or after a one-shot program: a reload that changes  *)
(* the output path, a failed pass, and a signal all remove the file of the *)
(* run they end (main.go:157-164).                                         *)
InRun == {"init", "query", "output", "select", "cleanup"}
NoStaleOutput ==
  \A p \in Paths: published[p] # Nothing =>
    cfg.path = p /\ (pc \in InRun \/ (pc = "exited" /\ cfg.oneshot))

(* The process never has more handles of the driver's library open than it *)
(* has loaded configurations, however many passes it makes: a pass closes  *)
(* what it opened on every path, except when the initialization fails, and *)
(* after that the fallback manager never tries again in the same run.      *)
LeakPerLoad == handles <= loads

(* A terminating signal ends the program, whenever it arrives, unless it   *)
(* found a SIGHUP waiting in the channel (watchers.go:27).                 *)
TermEnds == "TERM" \in pending ~> (pc = "exited" \/ lost)

(* A SIGHUP in the channel is answered by a reload or the program ends. *)
HupReloads == sigs = <<"HUP">> ~> pc \in {"load", "exited"}

(* A reload makes up for an earlier fallback: with the driver up for good, *)
(* its labels are published again, for good, whatever earlier runs lost.     *)
ReloadRecovers ==
  [](pc = "load" /\ [](driver = "up" /\ pc # "exited")
       => <>[](published[Target] = "gpu"))

(* "On all other signals, exit the loop and exit the program"              *)
(* (main.go:206): every terminating signal that is sent ends the program.  *)
TermAlwaysEnds == "TERM" \in pending ~> pc = "exited"
=============================================================================
