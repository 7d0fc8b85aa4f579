-------------------------- MODULE MCMessageIntake --------------------------
(* Two text messages of one conversation, one certain to escalate, one that
   may, with a rating and an entry of a disconnected page behind the second. *)
EXTENDS MessageIntake, TLC

HandlerSymmetry == Permutations(Handlers)

MCItems == [b \in {"b1", "b2"} |-> IF b = "b1" THEN <<"refund">> ELSE <<"ask", "rate", "stray">>]
MCConvOf == [m \in {"refund", "ask", "rate", "stray"} |-> "c1"]
MCKind == [m \in {"refund", "ask", "rate", "stray"} |-> CASE m = "rate" -> "csat" [] m = "stray" -> "unroutable" [] OTHER -> "text"]
MCOutcomes == [m \in {"refund", "ask", "rate", "stray"} |->
  CASE m = "refund" -> {"P1"}
    [] m = "ask" -> {"answer", "P2"}
    [] OTHER -> {"answer"}]

\* A payload of a disconnected page, and one whose good item comes first.
PoisonItems == [b \in {"b1", "b2"} |-> IF b = "b1" THEN <<"refund", "stray">> ELSE <<"ask">>]
PoisonConvOf == [m \in {"refund", "ask", "stray"} |-> "c1"]
PoisonKind == [m \in {"refund", "ask", "stray"} |-> IF m = "stray" THEN "unroutable" ELSE "text"]
PoisonOutcomes == [m \in {"refund", "ask", "stray"} |-> IF m = "refund" THEN {"P1"} ELSE {"answer", "P2"}]
=============================================================================
