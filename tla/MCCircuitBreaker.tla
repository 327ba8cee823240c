-------------------------- MODULE MCCircuitBreaker --------------------------
(* Small instances of CircuitBreaker for TLC.                              *)
EXTENDS CircuitBreaker

On == [enabled |-> TRUE, replicas |-> 2]
Off == [enabled |-> FALSE, replicas |-> 2]

OnlyOn == {On}
OnAndOff == {On, Off}
One == <<"clickhouse">>
Two == <<"clickhouse", "redis">>
=============================================================================
