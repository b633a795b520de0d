SPECIFICATION AuthSpec
CONSTANTS
  Clients = {c}
  TokenTtl = 30
  RefreshBuffer = 2
  HttpTimeout = 1
  Writes = 1
  Reads = 1
  RetryAfterMax = 1
  BackoffMax = 0
  Retries = 1
CHECK_DEADLOCK FALSE
INVARIANT NoExpiryMidRequest
