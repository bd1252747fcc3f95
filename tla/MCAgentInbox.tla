---------------------------- MODULE MCAgentInbox ----------------------------
(***************************************************************************)
(* TLC's instances of AgentInbox.                                          *)
(***************************************************************************)
EXTENDS AgentInbox, TLC

\* Messages are interchangeable, and so are leads.
InboxSymmetry == Permutations(Events) \cup Permutations(Leads)
=============================================================================
