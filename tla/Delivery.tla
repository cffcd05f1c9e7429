------------------------------ MODULE Delivery ------------------------------
(***************************************************************************)
(* What a subscriber of the WebSocket hub may count on: publications are   *)
(* taken one after the other, and a peer whose link is open may be sent    *)
(* the one that was taken last, never an earlier one, and nothing at all   *)
(* once its link is shut. Which peers are subscribed, and what becomes of  *)
(* slow ones, is left open: a peer may miss any publication.               *)
(***************************************************************************)
EXTENDS Naturals, Sequences

CONSTANTS
  Peers,   \* the connections
  Max      \* how many publications there may be

VARIABLES
  head,    \* publications taken so far
  link,    \* the life of every peer's link
  inbox    \* the publications every peer has been sent

vars == <<head, link, inbox>>

Init ==
  /\ head = 0
  /\ link = [p \in Peers |-> "absent"]
  /\ inbox = [p \in Peers |-> <<>>]

(* The next publication is taken.                                          *)
Take ==
  /\ head < Max
  /\ head' = head + 1
  /\ UNCHANGED <<link, inbox>>

Open(p) ==
  /\ link[p] = "absent"
  /\ link' = [link EXCEPT ![p] = "open"]
  /\ UNCHANGED <<head, inbox>>

Send(p) ==
  /\ head > 0
  /\ link[p] = "open"
  /\ inbox' = [inbox EXCEPT ![p] = Append(@, head)]
  /\ UNCHANGED <<head, link>>

Shut(p) ==
  /\ link[p] = "open"
  /\ link' = [link EXCEPT ![p] = "shut"]
  /\ UNCHANGED <<head, inbox>>

Next == Take \/ \E p \in Peers : Open(p) \/ Send(p) \/ Shut(p)

Spec == Init /\ [][Next]_vars

-----------------------------------------------------------------------------
TypeOK ==
  /\ head \in 0 .. Max
  /\ link \in [Peers -> {"absent", "open", "shut"}]
  /\ inbox \in [Peers -> Seq(1 .. Max)]

(* No peer is sent a publication later than head, or goes back to one that *)
(* is earlier than the last it was sent.                                   *)
InOrder ==
  \A p \in Peers :
    /\ \A i \in DOMAIN inbox[p] : inbox[p][i] <= head
    /\ \A i, j \in DOMAIN inbox[p] : i < j => inbox[p][i] <= inbox[p][j]

=============================================================================
