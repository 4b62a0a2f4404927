----------------------------- MODULE MCGateway ------------------------------
(***************************************************************************)
(* Instance for TLC of what administrators set up: channels, client models *)
(* and routes with the requests they serve, formulas of prices, and the    *)
(* members of the team; and of the queue of tasks, with stuck ones that    *)
(* fill its batches.  The modules share no state, so each behaviour moves  *)
(* one of them, chosen at its start.                                       *)
(***************************************************************************)
EXTENDS Channels, Formula, Team, PollQueue, TLC

CONSTANTS c1, c2, r1, r2, a1, a2, t1, t2, t3

TwoCredentials == {c1, c2}
TwoRoutes      == {r1, r2}
Two            == {a1, a2}       \* administrators, members or requests of members
WideShape      == [aspect_ratio |-> {"16:9"}, resolution |-> {}, duration_seconds |-> {"5"}]
TallShape      == [aspect_ratio |-> {"9:16"}, resolution |-> {}, duration_seconds |-> {}]
TwoShapes      == {WideShape, TallShape}
SevenOfN       == [n |-> 7]
ThreeTasks     == {t1, t2, t3}
TwoStuck       == {t1, t2}
Symmetry       == Permutations(TwoCredentials) \cup Permutations(TwoRoutes)
                     \cup Permutations(Two) \cup Permutations(TwoStuck)

VARIABLE part       \* the module that moves

Resting == occasion = "serving" /\ model = Unused
              /\ \A c \in Credentials : creds[c] # Unused => creds[c].provider = "veo"

MCInit ==
    /\ part \in {"channels", "formula", "team", "queue"}
    /\ ChannelsInit /\ (part # "channels" => Resting)
    /\ FormulaInit
    /\ TeamInit
    /\ Init

MCNext ==
    /\ UNCHANGED part
    /\ \/ part = "channels" /\ ChannelsNext /\ UNCHANGED <<formula, teamVars, queueVars>>
       \/ part = "formula"  /\ FormulaNext  /\ UNCHANGED <<channelVars, teamVars, queueVars>>
       \/ part = "team"     /\ TeamNext     /\ UNCHANGED <<channelVars, formula, queueVars>>
       \/ part = "queue"    /\ Next         /\ UNCHANGED <<channelVars, formula, teamVars>>

MCSpec == MCInit /\ [][MCNext]_<<part, channelVars, formula, teamVars, queueVars>>
=============================================================================
