---------------------------- MODULE SampleWindow ----------------------------
(***************************************************************************)
(* What a per-PVC sample store promises its users, with none of the        *)
(* indices of the circular buffer that implements it: the newest samples,  *)
(* oldest first, never more of them than the retention.                    *)
(***************************************************************************)
EXTENDS Windows

CONSTANT Sample

VARIABLES window, retention

swVars == <<window, retention>>

Init ==
    /\ window = <<>>
    /\ retention \in Nat \ {0}

Record(s) ==
    /\ window' = RecordIn(window, retention, s)
    /\ UNCHANGED retention

Forget ==
    /\ window' = <<>>
    /\ UNCHANGED retention

ChangeRetention ==
    /\ retention' \in Nat \ {0}
    /\ window' = Newest(window, retention')

Next == (\E s \in Sample : Record(s)) \/ Forget \/ ChangeRetention

Spec == Init /\ [][Next]_swVars
=============================================================================
