CONSTANTS
  Clients = {"guest"}
  Limits = {0, 2}
  Minute = 3
  MaxTime = 7
  MaxCount = 3
  Configs <- MCConfigs
  Labels = {"eu", "api", "other", "com"}
  Spellings <- MCSpellings
  Ports = {22, 80, 443}
  Secrets = {"key", "token"}
  Tunnels = {"t1", "t2"}
SPECIFICATION Spec
INVARIANTS TwiceAtMost PolicyHolds SecretsGoHome SecretHostsIntercepted
CHECK_DEADLOCK FALSE
