---------------------------- MODULE MCSenderPage ----------------------------
(* SenderPage.tla with one sender and one link; a clean and a harassing     *)
(* text.                                                                    *)
EXTENDS SenderPage

CONSTANTS clean, rude, o1, f1, l1

MCOwnerOf == [l \in Links |-> o1]
MCTextOf == [b \in Bodies |-> [words |-> IF b = rude THEN {"harassment"} ELSE {}, shapes |-> 0]]
MCPrintAt == [t \in Tabs |-> f1]
MCLinkAt == [t \in Tabs |-> l1]
=============================================================================
