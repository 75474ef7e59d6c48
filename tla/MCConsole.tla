------------------------------ MODULE MCConsole ------------------------------
(* Scenes: a provider that two polls race over; one under a single load at  *)
(* a time, with the buttons of the browser; a task from its start under one *)
(* load; a task that has run, with two loads; and both kinds of row.        *)
EXTENDS Console

CONSTANTS l1, l2
MCLoads == {l1, l2}

Scene(together, configured, ran, does, writes, faults) ==
  [loads |-> together, provider |-> configured, task |-> ran, does |-> does, writes |-> writes, faults |-> faults]

MCScenes ==
  {
   \* two polls race over a provider
   Scene({l1, l2}, TRUE,  "none", {"poll"}, 2, 0),
   \* every button but one
   Scene({l1},     TRUE,  "none", Browsing \ {"mark"}, 2, 1),
   \* incidents marked read and unread
   Scene({l1},     TRUE,  "none", {"poll", "mark"}, 2, 0),
   \* an incident that ends and comes back
   Scene({l1},     TRUE,  "none", {"poll"}, 3, 0),
   \* a task from its start
   Scene({l1},     FALSE, "new",  {"poll"}, 5, 0),
   \* a channel that is finalized, to the last row
   Scene({l1},     FALSE, "run",  {"poll"}, 5, 0),
   \* a task that has run
   Scene({l1, l2}, FALSE, "run",  {"poll"}, 2, 0),
   \* both: more incidents than a page holds
   Scene({l1},     TRUE,  "run",  {"poll"}, 2, 0),
   Scene({l1},     TRUE,  "run",  {"poll", "page"}, 1, 1)
  }
=============================================================================
