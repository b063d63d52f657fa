-------------------------- MODULE MCSessionRuntime --------------------------
(* Instance values for model checking SessionRuntime. *)
EXTENDS SessionRuntime

CONSTANTS r1, r2, r3, k1, k2, k3

\* Two requests of one key or of two, one request, and three.
Asks(a, b, c) == r1 :> a @@ r2 :> b @@ r3 :> c
Same(H)  == [key |-> Asks(k1, k1, None), hazards |-> H]
Both(H)  == [key |-> Asks(k1, k2, None), hazards |-> H]
One(H)   == [key |-> Asks(k1, None, None), hazards |-> H]
Three(H) == [key |-> Asks(k1, k2, k3), hazards |-> H]

\* The worlds of the safety run: each hazard, the pairs that meet in the code,
\* and three executions of which a later one may get an earlier one's answer.
SafetyWorlds ==
    {Both(H) : H \in {{"gone"}, {"idle"}, {"stream"}, {"fail", "gone"}, {"timeout", "gone"},
                      {"restart", "gone"}, {"restart", "idle"}, {"restart", "drop"},
                      {"restart", "clock"}, {"restart", "error"}}}
    \cup {Same(H) : H \in {{"fail"}, {"gone", "steer"}, {"restart", "overlap", "timeout"}, {"restart", "overlap", "error"},
                           {"restart", "overlap", "busy", "drop"}}}
    \cup {Three({"restart", "drop"})}

\* The worlds of the liveness run: timers run out, as they do; no caller disconnects
\* in mid-request; nothing else goes wrong while the one adoption there is runs.
LivenessWorlds ==
    {One({"timeout", "gone", "idle"}), Same({"timeout", "gone"}), Same({"timeout", "fail"}),
     Both({"timeout"}), Same({"timeout", "restart"}), Both({"timeout", "restart"})}
=============================================================================
