---------------------------- MODULE MCAgentMandates ----------------------------
(***************************************************************************)
(* A small instance of AgentMandates for TLC.                              *)
(***************************************************************************)
EXTENDS AgentMandates

CONSTANT s1

Offer(daily, cap, least, pace, limit) ==
    [dailyLimit |-> daily, lifetimeCap |-> cap, minPullAmount |-> least,
     minPullInterval |-> pace, listed |-> {s1}, limits |-> [s \in {s1} |-> limit]]

\* Limits that two pulls exhaust, and limits lower than what one pull spends.
MCOffers == {Offer(3, 4, 1, 2, 2), Offer(1, 3, 0, 0, 1)}
=============================================================================
