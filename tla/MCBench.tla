-------------------------------- MODULE MCBench --------------------------------
(* Jobs on one bench, in the combinations that press may order.            *)
EXTENDS Bench

AllJobs ==
    {"new_bench", "new_site", "from_backup", "archive_site", "update", "update again",
     "recover", "config", "limits", "code_server", "archive_bench", "cleanup", "push",
     "restore_site", "reinstall", "migrate_site", "after_migrate", "rename", "rename again"}

AllOrders ==
    {{"new_site", "from_backup", "archive_bench"}, {"archive_site", "config", "new_site"},
     {"update", "cleanup", "recover"}, {"update", "update again", "recover"},
     {"update", "config", "limits"}, {"update", "push", "cleanup"},
     {"archive_bench", "new_bench", "archive_site"}, {"new_site", "code_server", "recover"},
     {"restore_site", "reinstall", "archive_site"}, {"restore_site", "migrate_site"},
     {"rename", "rename again"}, {"rename", "from_backup"}, {"rename", "after_migrate"},
     {"rename", "new_site", "archive_site"}}

\* Two updates, and the recovery of the second to what the first made.
PruneJobs == {"update", "second update", "cleanup", "recover"}
PruneOrders == {PruneJobs}

Kinds  == [j \in Jobs |-> CASE j \in {"update again", "second update"} -> "update"
                            [] j = "rename again" -> "rename"
                            [] OTHER -> j]
Made   == [j \in Jobs |-> IF j \in {"update", "update again", "push"} THEN 2 ELSE 1]
Chosen == [j \in Jobs |-> IF j = "from_backup" THEN "b" ELSE "a"]

Named  == [j \in Jobs |-> IF j \in {"from_backup", "rename", "rename again"} THEN "b" ELSE "a"]

PruneMade == [j \in Jobs |-> IF j = "second update" THEN 3 ELSE 2]
=============================================================================
