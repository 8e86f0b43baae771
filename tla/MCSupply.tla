------------------------------ MODULE MCSupply ------------------------------
(* Instances of Supply: any two of the coordinator's run, a read-back of   *)
(* the webhook hydration and a window of the backfill.                     *)
EXTENDS Supply, TLC

CONSTANTS r1, r2, s1

MCRequests ==
    {[scope |-> "LIVE", domains |-> <<"details">>],
     [scope |-> "LIVE", domains |-> <<"advice">>],
     [scope |-> "LIVE", domains |-> <<"inventory">>],
     [scope |-> "LIVE", domains |-> <<"orders", "deliveries">>],
     [scope |-> "BACKFILL", domains |-> <<"orders">>]}
Symmetry == Permutations(Runs)
=============================================================================
