------------------------------ MODULE MCOutbox ------------------------------
(* Instances of Outbox for TLC. *)
EXTENDS Outbox

CONSTANTS g1, g2

TwoSessions == {g1, g2}
TwoThenOne == (g1 :> 2) @@ (g2 :> 1)
OneConversation == (g1 :> 1) @@ (g2 :> 1)
ReplayOfFirst == (g1 :> 1) @@ (g2 :> 2)
TwoConversations == (g1 :> 1) @@ (g2 :> 2)
TwiceFirst == (g1 :> 2) @@ (g2 :> 1)
OnceEach == (g1 :> 1) @@ (g2 :> 1)
=============================================================================
