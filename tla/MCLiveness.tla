------------------------------ MODULE MCLiveness ------------------------------
(* What the servers must bring to an end: deliveries and the slots of calls.  A *)
(* behaviour explores one of the two under the fairness its module states; the  *)
(* other rests at its initial state.                                            *)
EXTENDS MCMessageIntake, VoiceCalls

VARIABLE focus   \* the component whose steps are explored

LivenessInit == focus \in {"intake", "calls"} /\ Init /\ VoiceInit

LivenessNext ==
    \/ /\ focus = "intake" /\ Next
       /\ UNCHANGED <<focus, voiceVars>>
    \/ /\ focus = "calls" /\ VoiceNext
       /\ UNCHANGED <<focus, vars>>

LivenessFairness ==
    \/ focus = "intake" /\ Fairness
    \/ focus = "calls" /\ VoiceFairness

LivenessSpec == LivenessInit /\ [][LivenessNext]_<<focus, vars, voiceVars>> /\ LivenessFairness
=============================================================================
