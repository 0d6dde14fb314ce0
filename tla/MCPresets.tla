------------------------------ MODULE MCPresets ------------------------------
(* One thread lists twice, one changes the folder once: every name is free *)
(* as "c" only, "a" is a preset of the program, "b" one of the user.       *)
EXTENDS Presets

MCCallsOf ==
    [t \in StoreThreads |-> IF t = 1 THEN {"list"} ELSE {"create", "update", "rename", "delete"}]
MCMaxCalls == [t \in StoreThreads |-> IF t = 1 THEN 2 ELSE 1]
MCVariants == [n \in Names |-> <<n, "c">>]
MCBuiltin == [n \in Names |-> IF n = "a" THEN "y" ELSE Absent]
MCUserAtStart == {[n \in Names |-> IF n = "b" THEN "x" ELSE Absent]}
=============================================================================
