SPECIFICATION FairSpec
CONSTANTS
  a = a
  b = b
  c = c
  tpu = tpu
  dsp = dsp
  Fence = {1}
  Total <- MCTotal
  Cmd = {a, b, c}
  In <- MCIn
  Out <- MCOut
  Ips = {tpu, dsp}
  IpOf <- MCIpOf
  Async = {}
  Watched = {1}
  FwErrors = FALSE
  Aborts = {a, c}
  WakelockFails = TRUE
INVARIANTS
  TypeOK
  WakelocksBalanced
  WaiterPowered
  UsersCounted
  SignaledIsSeen
PROPERTIES
  SleeperWoken
  WakelocksReturned
CHECK_DEADLOCK FALSE
