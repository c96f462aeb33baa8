----------------------------- MODULE MCFragments -----------------------------
\* TLC instance of Fragments.
EXTENDS Fragments

\* A packet of three fragments, one of a single fragment, and two that share an Id,
\* whose fragments fit together, also behind the last of the shorter one.
Packets == {"a", "b", "c", "e"}
PacketEnds == [p \in Packets |-> CASE p = "a" -> <<2, 4, 5>> [] p = "b" -> <<1, 2>>
                                   [] p = "c" -> <<2>> [] p = "e" -> <<2, 3, 4>>]
Ids == [p \in Packets |-> CASE p = "a" -> 1 [] p \in {"b", "e"} -> 2 [] p = "c" -> 3]
=============================================================================
