--------------------------- MODULE MCEventStream ---------------------------
(* The router and an agent publish; the agent's event may come at any time. *)
EXTENDS EventStream

CONSTANTS router, agent

MCPublishers == {router, agent}
MCScript == [p \in MCPublishers |->
    IF p = router THEN <<"completed", "end">> ELSE <<"note">>]
MCFilters == {Types, {"note"}}

=============================================================================
