----------------------------- MODULE TicketLife -----------------------------
(***************************************************************************)
(* What the ticket queue promises for every ticket asked for: it gets one  *)
(* ticket on DeskPro at most, it is settled once, and it is closed or      *)
(* dropped only after its object was withdrawn, dropped only if DeskPro    *)
(* has no ticket of it.  Nothing is promised any more for a ticket that is *)
(* lost: requeued by hand, or in the hands of a publisher that dies.       *)
(***************************************************************************)
CONSTANTS Tickets, Ids

VARIABLES
    stage,      \* where each ticket is in its life
    withdrawn,  \* the tickets whose object was deleted
    desk        \* the tickets DeskPro has for each

Stages == {"none", "waiting", "settled", "closed", "dropped", "lost"}

Init ==
    /\ stage = [t \in Tickets |-> "none"]
    /\ withdrawn = {}
    /\ desk = [t \in Tickets |-> {}]

Moves(t, from, to) ==
    /\ stage[t] \in from
    /\ stage' = [stage EXCEPT ![t] = to]

Ask(t) ==
    /\ Moves(t, {"none"}, "waiting")
    /\ UNCHANGED <<withdrawn, desk>>

Withdraw(t) ==
    /\ stage[t] # "none" /\ t \notin withdrawn
    /\ withdrawn' = withdrawn \cup {t}
    /\ UNCHANGED <<stage, desk>>

MakeTicket(t) ==
    /\ stage[t] = "waiting" /\ desk[t] = {}
    /\ \E i \in Ids : desk' = [desk EXCEPT ![t] = {i}]
    /\ UNCHANGED <<stage, withdrawn>>

\* Published or refused, with a ticket or without.
Settle(t) ==
    /\ Moves(t, {"waiting"}, "settled")
    /\ UNCHANGED <<withdrawn, desk>>

CloseTicket(t) ==
    /\ t \in withdrawn /\ desk[t] # {}
    /\ Moves(t, {"settled"}, "closed")
    /\ UNCHANGED <<withdrawn, desk>>

DropTicket(t) ==
    /\ t \in withdrawn /\ desk[t] = {}
    /\ Moves(t, {"waiting", "settled"}, "dropped")
    /\ UNCHANGED <<withdrawn, desk>>

Lose(t) ==
    /\ Moves(t, {"waiting", "settled", "closed"}, "lost")
    /\ desk' = [desk EXCEPT ![t] = {}]
    /\ UNCHANGED withdrawn

Next ==
    \E t \in Tickets : \/ Ask(t) \/ Withdraw(t) \/ MakeTicket(t) \/ Settle(t)
                       \/ CloseTicket(t) \/ DropTicket(t) \/ Lose(t)

Spec == Init /\ [][Next]_<<stage, withdrawn, desk>>
=============================================================================
