---------------------------- MODULE MCDiscovery ----------------------------
(* GPUs of two models and two MIG profiles, with every strategy, and       *)
(* sharing off, on and renamed; a Tegra system; and hosts with less.       *)
EXTENDS Discovery
CONSTANTS A, B, T

Sizes == [m \in Models |-> CASE m = A -> 40 * MiB [] m = B -> 80 * MiB + 1
                             [] m = T -> MiB - 1]
Capabilities == [m \in Models |-> CASE m = A -> <<8, 0>> [] m = B -> <<10, 0>>
                                    [] m = T -> <<7, 2>>]
MigSizes == [q \in Profiles |-> IF q = "1g" THEN 5 ELSE 10]

Server == [nvml |-> TRUE, tegra |-> FALSE, gpus |-> <<A, B, A>>,
           driver |-> <<"535", "104", "05">>, cuda |-> 12020,
           machine |-> "DGX", vgpu |-> "none"]
Board == [nvml |-> FALSE, tegra |-> TRUE, gpus |-> <<T>>,
          driver |-> <<"535", "104", "05">>, cuda |-> 11080,
          machine |-> Nothing, vgpu |-> "none"]
Guest == [Server EXCEPT !.gpus = <<A>>, !.driver = <<"470", "82">>,
                        !.cuda = 12110, !.vgpu = "present"]
Small == {Board, Guest,
          [Board EXCEPT !.cuda = 12110],
          [Guest EXCEPT !.tegra = TRUE],
          [Guest EXCEPT !.driver = <<"470">>],
          [Guest EXCEPT !.vgpu = "error"],
          [Guest EXCEPT !.gpus = <<>>],
          [Server EXCEPT !.nvml = FALSE, !.gpus = <<>>]}
Every == Small \cup {Server}

Unshared == [r \in Resources |-> 1]
Shared == [r \in Resources |-> IF r = "2g" THEN 1 ELSE 2]
Sharing == {<<Unshared, FALSE>>, <<Shared, FALSE>>, <<Shared, TRUE>>}
EveryStrategy == {[strategy |-> s, replicas |-> r[1], renamed |-> r[2],
                   noTimestamp |-> r[2], failOnInitError |-> ~r[2]]:
                     s \in {"none", "single", "mixed"}, r \in Sharing}

(* The hypothesis of the theorems of PassProofs. *)
ASSUME SuchHosts == ModelsAlike
=============================================================================
