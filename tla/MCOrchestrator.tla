--------------------------- MODULE MCOrchestrator ---------------------------
(***************************************************************************)
(* A small instance of Orchestrator: two sources, one of them with two     *)
(* emitters; scenarios like those of mock_data/scenarios, and some that    *)
(* the parser refuses or the generator cannot finish; two versions and a   *)
(* third whose catalog is not that of its environment.                     *)
(***************************************************************************)
EXTENDS Orchestrator

CONSTANTS v1, v2, stray

MCSources == <<"customers", "order_events">>
MCEmitters == [customers |-> <<>>, order_events |-> <<"north", "south">>]

Scenario(name, clock, batches) ==
    [scenario |-> name, logical_clock |-> clock, description |-> "", proves |-> <<"it">>,
     batches |-> batches]

Replay(name, clock, replay_of) ==
    [scenario |-> name, logical_clock |-> clock, description |-> "", proves |-> <<"it">>,
     replay_of |-> replay_of]

Batch(n, injected) == [rows |-> n, faults |-> injected]

MCDocuments ==
    [day1    |-> Scenario("day1", 1, [customers |-> Batch(1, <<>>), order_events |-> Batch(3, <<>>)]),
     replay1 |-> Replay("replay1", 2, "day1"),
     poison  |-> Scenario("poison", 3, [order_events |->
                     Batch(2, <<"duplicate_event_id", "negative_quantity",
                                "out_of_order_within_batch", "cancelled_before_placed">>)]),
     silence |-> [scenario |-> "silence", logical_clock |-> 4, description |-> "",
                  proves |-> <<"it">>, expected_absent |-> {<<"order_events", "north">>},
                  batches |-> [order_events |-> [rows |-> 1, emitters |-> <<"north", "south">>]]],
     typo    |-> Scenario("typo", 5, [order_events |-> Batch(1, <<"nul_key">>)]),
     short   |-> Scenario("short", 6, [customers |-> Batch(1, <<"row_duplicate">>)]),
     there   |-> Replay("there", 7, "back"),
     back    |-> Replay("back", 8, "there")]

Values(catalog, environment_tag, sha) ==
    [catalog |-> catalog, environment_tag |-> environment_tag, git_sha |-> sha,
     lateness_window_days |-> 7]

Right(sha) ==
    [dev |-> Values("retail_dev", "dev", sha), prod |-> Values("retail_prod", "prod", sha)]

Wrong(sha) ==
    [dev |-> Values("retail_prod", "dev", sha), prod |-> Values("retail_dev", "prod", sha)]

MCParamsOf == v1 :> Right("sha1") @@ v2 :> Right("sha2") @@ stray :> Wrong("sha3")

DeliveredFile(clock, faults) ==
    [path |-> [emitter |-> Null, file |-> [source |-> "customers", clock |-> clock, seq |-> 1]],
     records |-> <<[clock |-> clock, number |-> 1, faults |-> faults, converted |-> FALSE]>>]

MCDeliveries == {DeliveredFile(1, {}), DeliveredFile(2, {"null_key"})}
=============================================================================
