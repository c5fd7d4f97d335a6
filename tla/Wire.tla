-------------------------------- MODULE Wire --------------------------------
(***************************************************************************)
(* What a network of switches promises to its hosts: from the moment it is *)
(* ready, every packet comes to everybody it is for, once.  A packet sent  *)
(* earlier may get lost, and comes once at most.                           *)
(***************************************************************************)
EXTENDS Naturals

CONSTANTS Packet,  \* packets, each sent once at most
          To       \* To[p]: the hosts that packet p is for

VARIABLES ready,   \* the network is ready
          sent,    \* packets sent
          owed,    \* arrivals there have to be, <<packet, host>> each
          arrived  \* arrived[p][h]: how often p came to host h

wireVars == <<ready, sent, owed, arrived>>

Init ==
  /\ ready = FALSE /\ sent = {} /\ owed = {}
  /\ arrived = [p \in Packet |-> [h \in To[p] |-> 0]]

Open == ready' = TRUE /\ UNCHANGED <<sent, owed, arrived>>

Send(p) ==
  /\ p \notin sent
  /\ sent' = sent \union {p}
  /\ owed' = IF ready THEN owed \union ({p} \X To[p]) ELSE owed
  /\ UNCHANGED <<ready, arrived>>

\* Hosts at one place get a packet at once.
Arrive(p, some) ==
  /\ p \in sent /\ some # {} /\ \A h \in some : arrived[p][h] = 0
  /\ arrived' = [arrived EXCEPT ![p] = [h \in To[p] |-> IF h \in some THEN 1 ELSE @[h]]]
  /\ UNCHANGED <<ready, sent, owed>>
ArriveOwed(p, h) == <<p, h>> \in owed /\ \E some \in SUBSET To[p] : h \in some /\ Arrive(p, some)

Next == Open \/ \E p \in Packet : Send(p) \/ \E some \in SUBSET To[p] : Arrive(p, some)

Safety == Init /\ [][Next]_wireVars
Spec ==
  /\ Safety
  /\ \A p \in Packet : \A h \in To[p] : WF_wireVars(ArriveOwed(p, h))
=============================================================================
