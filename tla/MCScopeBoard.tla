---------------------------- MODULE MCScopeBoard ----------------------------
(* A memory of eight words; no holdoff, one within the memory and one past it; *)
(* a signal that changes with every sample, two that hold, and one that is flat. *)
EXTENDS ScopeBoard
Arm(h) == [stb |-> TRUE, we |-> TRUE, addr |-> 0, reset |-> TRUE, holdoff |-> h,
           manual |-> FALSE, disable |-> FALSE]
MCWrites == {Arm(6), Arm(8),
             [Arm(0) EXCEPT !.reset = FALSE, !.manual = TRUE],
             [Arm(0) EXCEPT !.reset = FALSE, !.disable = TRUE]}
MCSettings == {[sync |-> TRUE, gaps |-> TRUE], [sync |-> FALSE, gaps |-> FALSE]}
MCSignals == {[w \in Labels |-> w \div hold] : hold \in {1, 2, 3, 2 * N}}
=============================================================================
