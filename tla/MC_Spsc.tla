------------------------------ MODULE MC_Spsc ------------------------------
(* SpscRingQueue with two values, two slots and 3-bit counters: the ring is  *)
(* gone round four times before the counters themselves wrap around.         *)
EXTENDS SpscRingQueue

CONSTANTS v1, v2
MCValues == {v1, v2}

=============================================================================
