SPECIFICATION Spec
CONSTANTS
  a = a
  b = b
  c = c
  tpu = tpu
  dsp = dsp
  Fence = {1}
  Total <- MCTotal
  Cmd = {a, b, c}
  In <- MCIn
  Out <- MCOut
  Ips = {tpu, dsp}
  IpOf <- MCIpOf
  Async = {tpu}
  Watched = {}
  Aborts = {b}
  FwErrors = FALSE
  WakelockFails = FALSE
INVARIANT UnblockedMeansDone
CHECK_DEADLOCK FALSE
