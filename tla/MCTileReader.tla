---------------------------- MODULE MCTileReader ----------------------------
EXTENDS TileReader

Service(calls, modes, onlines, negatives, breakers, asked, faults) ==
    [call : calls, mode : modes, online : onlines, negative : negatives,
     breaker : breakers, asked : {asked}, bounds : {faults}]

Yes == {TRUE}
No == {FALSE}
Calm == [f \in Faults |-> 0]

\* Every mode, the knobs turned off one by one, and two tiles that share the one
\* slot of the HTTP client.  Two outages: the provider goes and comes back.
AllServices ==
    Service({"tile"}, Modes, Yes, Yes, Yes, {1}, [Calm EXCEPT !.outage = 2])
      \cup Service({"tile"}, {"backup_and_prefetch"}, Yes, Yes, Yes, {1},
                   [Calm EXCEPT !.outage = 1, !.s3 = 1])
      \cup Service({"tile"}, {"backup_and_cache_on_read"}, Yes, Yes, Yes, {1},
                   [Calm EXCEPT !.outage = 1, !.redis = 1])
      \cup Service({"tile"}, {"backup_only"}, Yes, Yes, Yes, {1},
                   [Calm EXCEPT !.outage = 2, !.deadline = 1])
      \cup Service({"tile"}, {"backup_and_prefetch"}, Yes, Yes, Yes, {1},
                   [Calm EXCEPT !.restart = 1])
      \cup Service({"tile"}, {"backup_and_prefetch"}, No, {TRUE, FALSE}, No, {1},
                   [Calm EXCEPT !.s3 = 1])
      \cup Service({"tile"}, {"relay_only"}, Yes, Yes, Yes, {1, 2},
                   [Calm EXCEPT !.outage = 1])
      \cup Service({"providers"}, Modes, Yes, No, No, {1}, [Calm EXCEPT !.outage = 2])
      \cup Service({"providers"}, {"backup_only", "relay_only"}, {TRUE, FALSE}, No, No, {1},
                   [Calm EXCEPT !.redis = 1, !.s3 = 1])
=============================================================================
