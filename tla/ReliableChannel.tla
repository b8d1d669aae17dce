--------------------------- MODULE ReliableChannel ---------------------------
(***************************************************************************)
(* What PersistentProtocol promises to the two parties that talk through   *)
(* it, whatever happens to the sockets below: "it will actually track      *)
(* messages and acks" so that each party hands over, in order and exactly  *)
(* once, the messages the other one has sent.                              *)
(*                                                                         *)
(* A message is the number of the call of send that it stems from.         *)
(***************************************************************************)
EXTENDS Naturals, Sequences

CONSTANTS Peers, Other(_)

VARIABLES
    sent,       \* sent[p]: how many messages p has sent
    delivered   \* delivered[p]: the messages that p's onMessage has reported

vars == <<sent, delivered>>

Init ==
    /\ sent = [p \in Peers |-> 0]
    /\ delivered = [p \in Peers |-> <<>>]

Send(p) ==
    /\ sent' = [sent EXCEPT ![p] = @ + 1]
    /\ UNCHANGED delivered

Deliver(p) ==
    /\ Len(delivered[p]) < sent[Other(p)]
    /\ delivered' = [delivered EXCEPT ![p] = Append(@, Len(@) + 1)]
    /\ UNCHANGED sent

Next == \E p \in Peers : Send(p) \/ Deliver(p)

Safety == Init /\ [][Next]_vars

\* Nothing is withheld for ever.
Fairness == \A p \in Peers : WF_vars(Deliver(p))

Spec == Safety /\ Fairness

=============================================================================
