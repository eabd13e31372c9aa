------------------------------- MODULE OneShot -------------------------------
(***************************************************************************)
(* What a durable mutation fence promises.  For every key, a request is     *)
(* sent only under an issue that was made durable before, at most once per  *)
(* issue, and there is no new issue until the outcome of the request sent   *)
(* under the old one is settled.  An issue may be taken back only while     *)
(* nothing was sent.                                                        *)
(***************************************************************************)
EXTENDS Naturals

CONSTANT Keys

VARIABLES stage,    \* stage[k]: "idle", "armed", "sent" or "settled"
          sends     \* sends[k]: requests sent under the present issue

Init == /\ stage \in [Keys -> {"idle", "settled"}]
        /\ sends \in [Keys -> {0, 1}]
        /\ \A k \in Keys : stage[k] = "idle" => sends[k] = 0

Arm(k) == /\ stage[k] = "idle"
          /\ stage' = [stage EXCEPT ![k] = "armed"]
          /\ UNCHANGED sends

Disarm(k) == /\ stage[k] = "armed"
             /\ stage' = [stage EXCEPT ![k] = "idle"]
             /\ UNCHANGED sends

Send(k) == /\ stage[k] = "armed"
           /\ stage' = [stage EXCEPT ![k] = "sent"]
           /\ sends' = [sends EXCEPT ![k] = 1]

(* The outcome is known, or the object was found without sending anything. *)
Settle(k) == /\ stage[k] \in {"idle", "armed", "sent"}
             /\ stage' = [stage EXCEPT ![k] = "settled"]
             /\ UNCHANGED sends

(* Issues that are settled, or under which nothing was sent, are given up. *)
Renew == /\ stage' \in [Keys -> {"idle", "armed", "sent", "settled"}]
         /\ sends' \in [Keys -> {0, 1}]
         /\ \A k \in Keys : \/ stage'[k] = stage[k] /\ sends'[k] = sends[k]
                            \/ stage[k] # "sent" /\ stage'[k] = "idle" /\ sends'[k] = 0

Next == \/ \E k \in Keys : Arm(k) \/ Disarm(k) \/ Send(k) \/ Settle(k)
        \/ Renew

Spec == Init /\ [][Next]_<<stage, sends>>
=============================================================================
