------------------------------ MODULE MCClient ------------------------------
(***************************************************************************)
(* Instance for TLC of what one customer's devices do with the server.     *)
(* The modules share no state, so each behaviour moves one of them, chosen *)
(* at its start, and the others rest in one of their initial states.       *)
(***************************************************************************)
EXTENDS ClientSession, Instructions, Subscriptions, Limiters, TLC

CONSTANTS d1, d2

\* The two goroutines, the two devices or the two machines of the module that moves.
Two         == {d1, d2}
FewFailures == [email |-> 2, ip |-> 3]
LockTimes   == [email |-> 1, ip |-> 2]
Symmetry    == Permutations(Two)

OneLogsIn   == \E m \in Machines : login[m].at = "idle"

VARIABLE part       \* the module that moves

MCInit ==
    /\ SessionInit /\ InstructionsInit /\ SubscriptionsInit /\ LimitersInit
    /\ part \in {"session", "instructions", "subscriptions", "administrators", "limiters"}
    /\ part # "instructions" => instruction.target = All
    /\ part # "subscriptions" => besides = "nothing"

MCNext ==
    /\ UNCHANGED part
    /\ \/ /\ part = "session" /\ SessionNext
          /\ UNCHANGED <<instructionVars, subscriptionVars, limiterVars>>
       \/ /\ part = "instructions" /\ InstructionsNext
          /\ UNCHANGED <<sessionVars, subscriptionVars, limiterVars>>
       \/ /\ part \in {"subscriptions", "administrators"} /\ SubscriptionsNext
          /\ IF part = "subscriptions"
             THEN /\ \E a \in Admins : admin'[a].op = "idle"
                  /\ besides # "nothing" => OneLogsIn'
             ELSE UNCHANGED <<login, report, account>>
          /\ UNCHANGED <<sessionVars, instructionVars, limiterVars>>
       \/ /\ part = "limiters" /\ LimitersNext
          /\ UNCHANGED <<sessionVars, instructionVars, subscriptionVars>>

MCSpec ==
    MCInit /\ [][MCNext]_<<part, sessionVars, instructionVars, subscriptionVars, limiterVars>>
=============================================================================
