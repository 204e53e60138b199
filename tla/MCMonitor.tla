----------------------------- MODULE MCMonitor -----------------------------
(* Instances of MonitorCron: windows and what the others may do. *)
EXTENDS MonitorCron, TLC

Acting(stop, url, ingested, touch) ==
    [who \in Others |-> CASE who = "stop"     -> stop
                          [] who = "url"      -> url
                          [] who = "ingested" -> ingested
                          [] OTHER            -> touch]

Stopping == Acting(1, 0, 1, 0)
Paging   == Acting(0, 1, 0, 1)
Alone    == Acting(0, 0, 0, 0)

Closing  == [p \in Purchases |-> 4]
Lasting  == [p \in Purchases |-> 7]

SweepSymmetry == Permutations(Sweeps)
=============================================================================
