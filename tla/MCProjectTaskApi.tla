--------------------------- MODULE MCProjectTaskApi ---------------------------
EXTENDS ApiProperties, TLC

CONSTANTS u1, u2, p1, p2, t1, t2, r1, r2, i1, i2

\* One instance serves every slot, or each slot has its own.
OneInstance == [r \in Reqs |-> i1]
TwoInstances == (r1 :> i1) @@ (r2 :> i2)

\* Slots of one instance are interchangeable, and so are two instances with
\* the slot each serves.
Symmetry == Permutations(Reqs)
InstanceSymmetry == {(r1 :> r2) @@ (r2 :> r1) @@ (i1 :> i2) @@ (i2 :> i1)}

\* The part of a state that decides which steps follow: no guard reads the
\* history, the events or the replies.  States that agree on it go through the
\* same labels, so the liveness of requests is checked up to it.
Control == <<dbVars, redisVars, queueUp, pc, call, local>>
=============================================================================
