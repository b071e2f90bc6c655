------------------------------ MODULE MCReadyQueue ------------------------------
(* Two workers; a session with two payloads and another with one.              *)
EXTENDS RedisReadyQueue, TLC
CONSTANTS v1, v2, p1, p2, q1, k1, k2
SessionOf == p1 :> k1 @@ p2 :> k1 @@ q1 :> k2
Waiting == k1 :> <<p1>> @@ k2 :> <<q1>>
=============================================================================
