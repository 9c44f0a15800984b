------------------------- MODULE MC_TrafficLedger -------------------------
(* Instances of TrafficLedger for TLC.                                     *)
EXTENDS TrafficLedger

CONSTANTS s1, s2

MCStreams == {s1, s2}
MCSubjectsOf == s1 :> {"guest"} @@ s2 :> {"user", "admin"}
MCLimits == "total" :> 2 @@ "guest" :> 0 @@ "users" :> 1

=============================================================================
