------------------------- MODULE MCOutboundActions -------------------------
(* Three scenarios of one gate.  "queue": a refund that needs approval, a     *)
(* booking and its retry under one key, two replays at once and a crash, under *)
(* the policy that is set at first.  "spend": two financial actions, one of   *)
(* them of unknown size, two approvers, an answer that gets lost, and a policy *)
(* that is raised and lowered at any time.  "stray": a lookup, and a lookup   *)
(* and a refund that name no connector.                                       *)
EXTENDS OutboundActions, TLC

VARIABLE scenario

OutboundSymmetry == Permutations(Approvers) \union Permutations(Replayers)

Of == [queue |-> {"refund", "book", "rebook"}, spend |-> {"refund", "credit"},
       stray |-> {"lookup", "glance", "astray"}]
MCActions == Of.queue \union Of.spend \union Of.stray
MCClass == [a \in MCActions |->
  CASE a \in {"book", "rebook"} -> "reversible_write"
    [] a \in {"lookup", "glance"} -> "read"
    [] OTHER -> "irreversible_financial"]
MCAmount == [a \in MCActions |-> IF a \in {"refund", "astray"} THEN 2 ELSE Unknown]
MCNamed == MCActions \ {"glance", "astray"}
MCKey == [a \in MCActions |-> IF a \in {"book", "rebook"} THEN "k1" ELSE NoKey]

\* What a scenario leaves out of a step: the other's actions, and some of the company and of the faults.
Within ==
  /\ \A a \in MCActions \ Of[scenario] : agent'[a].pc = "ready"
  /\ \/ scenario = "stray"
     \/ /\ scenario = "queue"
        /\ timeouts' = 0
        /\ threshold' # threshold => threshold = 0 /\ \A a \in MCActions : agent[a].pc = "ready"
        /\ Cardinality({p \in Approvers : decision'[p].pc # "idle"}) <= 1
     \/ /\ scenario = "spend"
        /\ failures' = 0
        /\ Cardinality({w \in Replayers : replay'[w].pc # "idle"}) <= 1

OutboundInit == Init /\ scenario \in DOMAIN Of
OutboundNext == Next /\ Within /\ UNCHANGED scenario
OutboundSpec == OutboundInit /\ [][OutboundNext]_<<vars, scenario>>
=============================================================================
