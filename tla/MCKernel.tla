------------------------------ MODULE MCKernel ------------------------------
EXTENDS KernelInvariant

\* Bound for the search for a sleeper woken away from home: only the task in
\* slot 0 makes blocking system calls.
OneSleeper == \A t \in Slots : saved_rsp[t] \in {"wait", "sleep"} => t = 0
=============================================================================
