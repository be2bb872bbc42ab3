-------------------------- MODULE MCBrokerRequest --------------------------
(* Instances of BrokerRequest: a worker and a background job of one        *)
(* account, whose adapters have its name, and a dashboard's request of     *)
(* another account, whose adapter has none.                                *)
EXTENDS BrokerRequest, TLC

CONSTANTS worker, sync, dashboard

TwoAccounts == worker :> "a" @@ sync :> "a" @@ dashboard :> "b"
OneAccount == [c \in Clients |-> "a"]
Names == worker :> "A" @@ sync :> "A" @@ dashboard :> ""
=============================================================================
