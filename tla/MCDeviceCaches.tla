--------------------------- MODULE MCDeviceCaches ---------------------------
(* Three INT4 weights, a and b of one shape, and one of each 16-bit kind, for *)
(* two threads.  b is loaded where another weight lay.                      *)
EXTENDS DeviceCaches, TLC
CONSTANTS a, b, c, m, v, t1, t2, p, q, r, s
MCShape == [w \in Weights |-> IF w \in {a, b} THEN "ab" ELSE IF w = c THEN "c" ELSE "mv"]
MCBytes == [w \in Weights |->
              IF w = c THEN [q |-> 2, f |-> 3, h |-> 0]
              ELSE IF w \in Int4 THEN [q |-> 1, f |-> 3, h |-> 0]
              ELSE [q |-> 0, f |-> 3, h |-> 2]]
MCMulti == {<<a, c>>}
MCFfn == {<<c, a>>}
Symm == Permutations({t1, t2})
MCHost0 == [x \in Addrs |-> CASE x = p -> a [] x = q -> c [] x = r -> m [] OTHER -> v]

(* What no caller will read is left out of a state's fingerprint: buffers of  *)
(* products that are over or disturbed, and how the pointers of a disturbed  *)
(* product fared.                                                          *)
Watched(d) == Busy(d) /\ ~job[d].disturbed
MCView ==
  <<host, jit, device, batch, budget, reserve, enabled, allocs, over, wrong, reused, faults, loads,
    [d \in Callers |-> IF Watched(d) THEN job[d]
                       ELSE [Idle EXCEPT !.pc = job[d].pc, !.kind = job[d].kind, !.rest = job[d].rest,
                                         !.ws = IF loads < MaxLoads \/ job[d].rest # <<>>
                                                THEN job[d].ws ELSE {},
                                         !.disturbed = job[d].disturbed]],
    [x \in Buffers |->
       LET d == buf[x].by
       IN  IF d \in Callers /\ Watched(d) /\ x = (CASE job[d].pc = "launch" -> From(job[d].kind)
                                                  [] job[d].pc \in {"fold", "copy"} -> To(job[d].kind)
                                                  [] OTHER -> "none")
           THEN buf[x] ELSE Empty[x]]>>
=============================================================================
