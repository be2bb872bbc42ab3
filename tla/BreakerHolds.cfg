SPECIFICATION FairSpec
CONSTANTS
  worker = worker
  sync = sync
  dashboard = dashboard
  Clients = {worker, sync, dashboard}
  AccountOf <- TwoAccounts
  NameOf <- Names
  Asking = {worker, sync}
  MaxRetries = 2
  MaxDisconnect = 1
  Faults = {"timeout", "limited", "disconnected", "server", "redis"}
INVARIANT Isolated
INVARIANT NothingLate
INVARIANT NoSilentFailure
PROPERTY Retried
CHECK_DEADLOCK FALSE
