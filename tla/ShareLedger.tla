---------------------------- MODULE ShareLedger ----------------------------
(***************************************************************************)
(* What the share accounting of pool_connection.rs promises, without       *)
(* streams, threads or sessions: a found share is handed in, is either     *)
(* never sent or awaits a reply, and ends in exactly one counter, once.    *)
(***************************************************************************)
CONSTANT Shares

VARIABLE place

Places == {"unfound", "in_hand", "waiting",
           "accepted", "rejected", "lost", "unsent"}

Init == place = [s \in Shares |-> "unfound"]

Move(s, from, to) == place[s] = from /\ place' = [place EXCEPT ![s] = to]

Find(s) == Move(s, "unfound", "in_hand")

Send(s) == Move(s, "in_hand", "waiting")

GiveUp(s) == Move(s, "in_hand", "unsent")

Answer(s) == \E verdict \in {"accepted", "rejected"} :
                 Move(s, "waiting", verdict)

Lose(s) == Move(s, "waiting", "lost")

Next == \E s \in Shares : Find(s) \/ Send(s) \/ GiveUp(s) \/ Answer(s) \/ Lose(s)

Spec == Init /\ [][Next]_place
=============================================================================
