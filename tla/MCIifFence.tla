----------------------------- MODULE MCIifFence -----------------------------
\* Instances of IifFence for TLC: a and b, of the one IP that signals fence 1,
\* and c of another IP, which waits for it and signals the other fences, if any.
EXTENDS IifFence

CONSTANTS a, b, c, tpu, dsp

MCTotal == [f \in Fence |-> IF f = 1 THEN 2 ELSE 1]
MCIn == [d \in Cmd |-> IF d = c THEN {1} ELSE {}]
MCOut == [d \in Cmd |-> IF d = c THEN Fence \ {1} ELSE {1}]
MCIpOf == [d \in Cmd |-> IF d = c THEN dsp ELSE tpu]
=============================================================================
