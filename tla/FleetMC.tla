------------------------------ MODULE FleetMC -------------------------------
(* A lamp and a pump for model-checking Fleet.  The pump's driver has no    *)
(* timer and stops the pump when it refuses a value; the pump may be        *)
(* announced under a wider tag with a timer and another default.            *)
EXTENDS Fleet

Pump == [low |-> 0, high |-> 1, default |-> 0, safe |-> -1,
         duration |-> 0, stops |-> TRUE, mode |-> "estop"]
Wide == [low |-> 0, high |-> 2, default |-> 1, safe |-> 2,
         duration |-> 1, stops |-> TRUE, mode |-> "reject"]
Lamp == [low |-> 0, high |-> 1, default |-> 0, safe |-> 0,
         duration |-> 0, stops |-> FALSE, mode |-> "reject"]

pump == 1
lamp == 2
Two == {pump, lamp}
TwoOwn == <<Pump, Lamp>>
TwoTags == {Pump, Wide, Lamp}
TwoAnnounced == <<{Wide}, {}>>

Ask(op, dev, value, id) == [op |-> op, dev |-> dev, value |-> value, id |-> id]

(* One client writes what arms the pump's timer, the other asks for the     *)
(* rest: a write the pump's driver refuses, stops, and calls that move      *)
(* nothing.                                                                 *)
TwoClients == {"c1", "c2"}
TwoBatches ==
    [c1 |->
        {<<Ask("malformed", pump, 0, FALSE), Ask("write", pump, 2, FALSE),
           Ask("stop", pump, 0, TRUE)>>,
         <<Ask("stop_all", lamp, 0, TRUE)>>,
         <<Ask("check", lamp, 0, TRUE), Ask("write", pump, 3, FALSE),
           Ask("read", pump, 0, FALSE), Ask("snapshot", lamp, 0, TRUE)>>},
     c2 |-> {<<Ask("write", pump, 0, TRUE)>>}]
=============================================================================
