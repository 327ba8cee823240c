---------------------------- MODULE MCObservers ----------------------------
(***************************************************************************)
(* Instances of Observers for TLC: two web pods for one reported issue,    *)
(* two tables with a TTL, two nodes.                                       *)
(***************************************************************************)
EXTENDS Observers

MCPods == [c \in {"web", "worker", "migration"} |->
              IF c = "web" THEN {"web-0", "web-1"} ELSE {c}]

\* The names of the pods in alphabetical order.
MCRank == [p \in {"migration", "web-0", "web-1", "worker"} |->
              CASE p = "migration" -> 1 [] p = "web-0" -> 2 [] p = "web-1" -> 3 [] OTHER -> 4]

NoTables == <<>>
MCTables == <<"traces", "scores">>

Base == [valid |-> TRUE, retention |-> TRUE, pressure |-> TRUE, drift |-> TRUE,
         warn |-> 50, critical |-> 90, ttl |-> [t \in {"traces", "scores"} |-> 1]]
Longer == [Base EXCEPT !.ttl = [t \in {"traces", "scores"} |-> 2]]
Unlimited == [Base EXCEPT !.ttl = [t \in {"traces", "scores"} |-> 0],
                          !.drift = FALSE, !.pressure = FALSE]
Refusable == [Base EXCEPT !.valid = FALSE, !.retention = FALSE]

Plain == [Base EXCEPT !.retention = FALSE]

Scenario(start, first, others, strikes, spent) ==
    [start |-> start, first |-> first, specs |-> {first} \cup others,
     strikes |-> strikes, spent |-> spent]

\* A new instance, that the operator sets up undisturbed; an instance that has been running,
\* with trouble in its workload, in ClickHouse or between the two; and an upgrade with one
\* more disturbance.
MCScenarios ==
    {Scenario("new", Plain, {}, {}, 2),
     Scenario("running", Plain, {Refusable}, {"workload", "datastores"}, 0),
     Scenario("running", Base, {Longer, Unlimited, Plain}, {"clickhouse"}, 0),
     Scenario("running", Base, {Longer}, {"datastores", "clickhouse"}, 1),
     Scenario("upgraded", Plain, {}, {"workload", "datastores"}, 1),
     Scenario("upgraded", Base, {}, {"clickhouse"}, 1)}

Upgrade == {Scenario("upgraded", Plain, {}, {"workload"}, 1)}

\* Nearly empty, at the warning level, short of the critical level by less than a percent,
\* at the critical level, and without capacity.
Disk(used, total) == [used |-> used, total |-> total]
Empty == Disk(1, 10)
MCDisks == {Empty, Disk(5, 10), Disk(899, 1000), Disk(9, 10), Disk(0, 0)}
OneDisk == {Empty}
=============================================================================
