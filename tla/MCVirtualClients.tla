--------------------------- MODULE MCVirtualClients ---------------------------
(***************************************************************************)
(* TLC instance of VirtualClients: two emulators, two groups, six plans.  *)
(***************************************************************************)
EXTENDS VirtualClients

Plan(ops, authors, groups, max, emulations, crash_bound) ==
    [ops |-> ops, authors |-> authors, groups |-> groups, max |-> max,
     emulation |-> emulations, crashes |-> crash_bound]

MCPlans ==
    { \* one emulator works in two groups, the other follows in any order
      Plan({"external", "commit", "drop"}, {0}, {"g", "h"}, 5, 1, 0),
      \* two emulation epochs, commits of the other members
      Plan({"external", "commit", "other"}, {0}, {"g"}, 4, 2, 0),
      \* both emulators commit and are removed, with a crash
      Plan({"external", "commit", "other", "remove"}, {0, 1}, {"g"}, 3, 1, 1),
      \* batches of key packages and Welcomes
      Plan({"batch", "drop"}, {0}, {"g", "h"}, 4, 1, 1),
      Plan({"batch", "commit", "remove"}, {0, 1}, {"g"}, 4, 1, 0),
      \* created groups next to batches
      Plan({"create", "batch", "commit", "other"}, {0}, {"g", "h"}, 3, 1, 1) }

=============================================================================
