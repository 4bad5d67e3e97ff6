-------------------------- MODULE MagnaDelayedValue --------------------------
(* Aztec's DelayedPublicMutable, as the issuer uses it for its gateways and *)
(* its sponsored credential types: a change is announced at least a delay   *)
(* before it takes effect, so that a private call that reads the value at   *)
(* its anchor can bound its inclusion by the last moment the value is sure. *)
EXTENDS Integers

(* A value with a change: pre before time at, post from then on. *)
Unscheduled(value) == [pre |-> value, post |-> value, at |-> 0]

CurrentAt(v, t) == IF t < v.at THEN v.pre ELSE v.post

(* schedule_value_change: a pending change is overwritten, not queued. *)
Schedule(v, value, t, delay) ==
    [pre |-> CurrentAt(v, t), post |-> value, at |-> t + delay]

(* The last time at which the value read at the anchor is still current. *)
Horizon(v, anchor, delay) ==
    IF anchor < v.at /\ v.at - 1 < anchor + delay - 1
    THEN v.at - 1
    ELSE anchor + delay - 1
=============================================================================
