---------------------------- MODULE MCNodeBackend ----------------------------
\* Instance of NodeBackend: the seeded account and room for three more, a seeded
\* complaint and room for two more, a bus of two seats.
EXTENDS NodeBackend

Nothing == [email |-> None, password |-> None, active |-> None]
Seed == [email |-> "e1", password |-> "p1", active |-> TRUE]
Bodies == {[Nothing EXCEPT !.active = FALSE], [Nothing EXCEPT !.active = TRUE],
           [Nothing EXCEPT !.password = "p2"], [Nothing EXCEPT !.email = "e1"]}
=============================================================================
