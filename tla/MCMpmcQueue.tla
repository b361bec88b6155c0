---------------------------- MODULE MCMpmcQueue ----------------------------
(* Small instances of MpmcQueue for TLC: its threads and values are          *)
(* interchangeable.                                                        *)
EXTENDS MpmcQueue, TLC

ThreadSymmetry == Permutations(Producers) \cup Permutations(Consumers)
                    \cup Permutations(Values)
=============================================================================
