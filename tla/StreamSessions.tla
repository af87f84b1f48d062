------------------------------ MODULE StreamSessions ------------------------------
(***************************************************************************)
(* What the Data Stream server promises of its sessions: the controller is *)
(* offered a session once, takes it up with at most one connection while   *)
(* the offer stands, and an offer that is taken up or withdrawn does not   *)
(* come back.                                                              *)
(***************************************************************************)
EXTENDS FiniteSets

CONSTANTS Sessions, Connections

VARIABLES
  fresh,    \* sessions that were not offered yet
  offered,  \* sessions a connection may take up
  users     \* session -> the connections that took it up

StreamVars == <<fresh, offered, users>>

StreamInit ==
  /\ fresh = Sessions
  /\ offered = {}
  /\ users = [s \in Sessions |-> {}]

Offer(s) ==
  /\ s \in fresh
  /\ fresh' = fresh \ {s}
  /\ offered' = offered \cup {s}
  /\ UNCHANGED users

TakeUp(s, c) ==
  /\ s \in offered
  /\ offered' = offered \ {s}
  /\ users' = [users EXCEPT ![s] = {c}]
  /\ UNCHANGED fresh

Withdraw(s) ==
  /\ s \in offered
  /\ offered' = offered \ {s}
  /\ UNCHANGED <<fresh, users>>

StreamNext ==
  \E s \in Sessions : Offer(s) \/ Withdraw(s) \/ \E c \in Connections : TakeUp(s, c)

StreamSpec == StreamInit /\ [][StreamNext]_StreamVars

=============================================================================
