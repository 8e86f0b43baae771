--------------------------- MODULE MCCoordinator ---------------------------
(* The plans of the coordinator as an instance for TLC.                    *)
EXTENDS Coordinator, TLC

CONSTANTS home, sales, supply,
    renewal, recovery, finalRenewal, finalRecovery, validation

(* realtime-cockpit runs home and sales in parallel; supply-daily has one  *)
(* stage; session-maintenance runs two rounds of renewal and recovery and  *)
(* a final validation, in order.                                           *)
Realtime == {home, sales}
Supply == {supply}
Session == {renewal, recovery, finalRenewal, finalRecovery, validation}

StageKind ==
    home :> "home" @@ sales :> "sales" @@ supply :> "supply"
    @@ renewal :> "renewal" @@ recovery :> "recovery"
    @@ finalRenewal :> "renewal" @@ finalRecovery :> "recovery"
    @@ validation :> "validation"
StageEarlier ==
    home :> {} @@ sales :> {} @@ supply :> {}
    @@ renewal :> {} @@ recovery :> {renewal}
    @@ finalRenewal :> {renewal, recovery}
    @@ finalRecovery :> {renewal, recovery, finalRenewal}
    @@ validation :> Session \ {validation}
StageAfter ==
    [s \in Realtime \cup Supply \cup Session |->
        CASE s = recovery -> renewal
          [] s = finalRecovery -> finalRenewal
          [] OTHER -> NoStage]

ThreePlans == {Realtime, Supply, Session}
RealtimePlan == {Realtime}
SupplyPlan == {Supply}
=============================================================================
