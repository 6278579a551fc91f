---------------------------- MODULE AccountMutex ----------------------------
(***************************************************************************)
(* What the per-address build lock promises: callers line up in the order  *)
(* they came, and only the one with nobody ahead works.                    *)
(***************************************************************************)
CONSTANT Caller

VARIABLES
    line,     \* the callers in line
    ahead,    \* the pairs <<c, d>> of which c came before d
    working   \* the callers that work

mutexVars == <<line, ahead, working>>

Init == line = {} /\ ahead = {} /\ working = {}

Arrive(c) ==
    /\ c \notin line
    /\ line' = line \cup {c}
    /\ ahead' = ahead \cup (line \X {c})
    /\ UNCHANGED working

Begin(c) ==
    /\ c \in line
    /\ working = {}
    /\ \A d \in line : <<d, c>> \notin ahead
    /\ working' = {c}
    /\ UNCHANGED <<line, ahead>>

Finish(c) ==
    /\ working = {c}
    /\ working' = {}
    /\ line' = line \ {c}
    /\ ahead' = {p \in ahead : p[1] # c /\ p[2] # c}

Next == \E c \in Caller : Arrive(c) \/ Begin(c) \/ Finish(c)

Spec == Init /\ [][Next]_mutexVars
=============================================================================
