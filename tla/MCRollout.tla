------------------------------ MODULE MCRollout ------------------------------
(* A fleet in the middle of a deployment: w1 still serves v1, w2 serves v2   *)
(* and migrates v1, and w3 was built with another v2.  v1 sends mail and v2  *)
(* sets deadlines.                                                           *)
EXTENDS Dispatcher, TLC
CONSTANTS w1, w2, w3, v1, v2, c1, c2
MCServes == w1 :> <<v1>> @@ w2 :> <<v2>> @@ w3 :> <<v2>>
MCSupersedes == w1 :> <<>> @@ w2 :> <<v1>> @@ w3 :> <<>>
MCTarget == w1 :> <<>> @@ w2 :> (v1 :> v2) @@ w3 :> <<>>
MCBuild == w1 :> (v1 :> c1 @@ v2 :> c1) @@ w2 :> (v1 :> c1 @@ v2 :> c1)
             @@ w3 :> (v1 :> c1 @@ v2 :> c2)
=============================================================================
