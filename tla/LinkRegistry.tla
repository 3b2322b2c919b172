---------------------------- MODULE LinkRegistry ----------------------------
(***************************************************************************)
(* What the personal-link service promises, with no calls, sessions or     *)
(* races in it: every owner has at most one current link; a link is issued *)
(* once, to one owner, and once retired it is never current again.         *)
(* Links.tla is shown to implement this module.                            *)
(***************************************************************************)
CONSTANTS Owners, LinkIds, None

VARIABLES
  current,   \* [Owners -> LinkIds \cup {None}]: the link that accepts messages
  retired    \* links that were current once and never will be again

rvars == <<current, retired>>

Issued == {current[o] : o \in Owners} \cup retired

RInit ==
  /\ current = [o \in Owners |-> None]
  /\ retired = {}

\* An owner without a current link gets one that nobody ever had.
Issue(o, l) ==
  /\ current[o] = None
  /\ l \notin Issued
  /\ current' = [current EXCEPT ![o] = l]
  /\ UNCHANGED retired

\* "The old link stops working, a new one is created" - in one step, so that
\* the owner is never without a link and never has two.
Replace(o, l) ==
  /\ current[o] # None
  /\ l \notin Issued
  /\ current' = [current EXCEPT ![o] = l]
  /\ retired' = retired \cup {current[o]}

\* Moderation (or the report threshold) takes the link away.
Retire(o) ==
  /\ current[o] # None
  /\ current' = [current EXCEPT ![o] = None]
  /\ retired' = retired \cup {current[o]}

RNext ==
  \E o \in Owners :
    \/ \E l \in LinkIds : Issue(o, l) \/ Replace(o, l)
    \/ Retire(o)

RSpec == RInit /\ [][RNext]_rvars
=============================================================================
