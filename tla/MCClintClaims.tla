----------------------------- MODULE MCClintClaims ----------------------------
(* One hart and the few requests the claim is about.                       *)
EXTENDS ClintClaims

Idle        == [valid |-> FALSE, addr |-> 0, wstrb |-> 0, wdata |-> 0]
Read(a)     == [valid |-> TRUE, addr |-> a, wstrb |-> 0, wdata |-> 0]
Store(a, v) == [valid |-> TRUE, addr |-> a, wstrb |-> 15, wdata |-> v]

AnyRequest == {Idle} \cup {Read(a) : a \in {0, 49144}}
                     \cup {Store(a, v) : a \in {0, 16384, 16388, 49144, 49148}, v \in Word}
===============================================================================
