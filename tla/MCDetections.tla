--------------------------- MODULE MCDetections ---------------------------
(* Instances of Detections for TLC.                                        *)
EXTENDS Detections

AnyRule == [kind |-> "SigmaInspired", enabled |-> TRUE, selection |-> None,
            field |-> "device_id", threshold |-> 2, kinds |-> {}]
Disabled   == [AnyRule EXCEPT !.enabled = FALSE, !.selection = [event_kind |-> {"login"}]]
Repeated   == [AnyRule EXCEPT !.kind = "Behavioral"]
Correlated == [AnyRule EXCEPT !.kind = "Correlation", !.kinds = {"login", "dns"}]
Scheduled  == [AnyRule EXCEPT !.kind = "Scheduled",
                              !.selection = [event_kind |-> {"login", "dns"}]]

(* An event that names its device and one that does not.                   *)
Login  == [event_kind |-> "login", device_id |-> "dev"]
Lookup == [event_kind |-> "dns"]

MCValues == {"login", "dns", "dev", ""}
MCEvents == {Login, Lookup}
MCRules  == {Repeated, Correlated, Scheduled, Disabled}
===========================================================================
