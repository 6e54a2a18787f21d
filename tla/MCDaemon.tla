------------------------------ MODULE MCDaemon ------------------------------
(* Instances of Daemon for TLC: the configurations. *)
EXTENDS Daemon

CONSTANTS f1, f2   \* two output paths

Conf(p, o, f) == [path |-> p, oneshot |-> o, failOnInit |-> f]

(* Files, standard output, one-shot or not, failing or falling back. *)
MixedConfigs == {Conf(f1, FALSE, TRUE), Conf(f2, FALSE, FALSE),
                 Conf(f2, TRUE, FALSE), Conf(Stdout, FALSE, FALSE)}
FallbackConfigs == {Conf(f1, FALSE, FALSE)}
TwoFileConfigs == {Conf(f1, FALSE, FALSE), Conf(f2, FALSE, TRUE)}
=============================================================================
