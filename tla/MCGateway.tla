----------------------------- MODULE MCGateway ------------------------------
EXTENDS Gateway, TLC

CONSTANTS a, x, y, t, r1, r2

(* Requests, and assets, differ in nothing but their state.                *)
GatewaySymmetry == Permutations(Requests) \cup Permutations(Assets)
=============================================================================
