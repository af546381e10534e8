---------------------------- MODULE MiddlewareMC ----------------------------
(* Small devices for model-checking Middleware: a pump with one timed flow, *)
(* and a lift whose bound depends on a gripper.                             *)
EXTENDS Middleware, TLC

(* Requests are interchangeable.                                            *)
SameRequests == Permutations(Requests)

Act(datatype, mode, gated, feedback) ==
    [datatype |-> datatype, write_mode |-> mode, default |-> 0,
     requires_confirmation |-> gated, feedback |-> feedback]

Numeric(low, high, rate, duration, conditions, mode) ==
    [min |-> low, max |-> high, allowed |-> None, max_rate |-> rate,
     max_duration |-> duration, conditions |-> conditions, on_violation |-> mode]

States(duration, mode) ==
    [min |-> None, max |-> None, allowed |-> {0, 1}, max_rate |-> None,
     max_duration |-> duration, conditions |-> << >>, on_violation |-> mode]

Closed == [when_target |-> "grip", equals |-> [kind |-> "string", of |-> 1],
           min |-> None, max |-> 1]

(* The pump: one actuator.                                                  *)
Flow == {"flow"}
FlowAct == [t \in Flow |-> Act("number", "absolute", FALSE, TRUE)]
FlowRelative == [t \in Flow |-> Act("number", "relative", FALSE, FALSE)]
FlowTimed == [t \in Flow |-> Numeric(0, 2, None, 1, << >>, "reject")]
FlowRated == [t \in Flow |-> Numeric(0, 2, 1, 1, << >>, "reject")]
FlowStops == [t \in Flow |-> Numeric(0, 2, None, 1, << >>, "estop")]
FlowPlain == [t \in Flow |-> Numeric(-4, 4, None, None, << >>, "reject")]
FlowSafe == [t \in Flow |-> 0]
FlowOrder == <<"flow">>
FlowStart == [t \in Flow |-> 0]

(* The lift over its gripper.                     *)
Cell == {"lift", "grip"}
CellAct == [lift |-> Act("number", "absolute", FALSE, TRUE),
            grip |-> Act("string", "absolute", TRUE, FALSE)]
CellTimed == [lift |-> Numeric(0, 2, None, 1, <<Closed>>, "estop"),
              grip |-> States(None, "reject")]
CellSafe == [lift |-> -1, grip |-> 0]
CellOrder == <<"lift", "grip">>
CellStart == [t \in Cell |-> 0]
=============================================================================
