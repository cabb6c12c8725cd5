----------------------------- MODULE MCLiveFeed -----------------------------
(***************************************************************************)
(* One question, a second agent that did not ask it, a finding, an event.  *)
(***************************************************************************)
EXTENDS LiveFeed

MCAskerOf == [q \in Questions |-> "quality"]
MCDomainOf == [e \in Events |-> "DHR"]

\* The lists share nothing but the connection: explore each on its own.
Separately ==
    LET asked == \E q \in Questions : asking[q] # "no"
        found == findings # {}
        sent == \E e \in Events : published[e] # 0
    IN  ~(asked /\ found) /\ ~(asked /\ sent) /\ ~(found /\ sent)
=============================================================================
