------------------------------ MODULE Presence ------------------------------
(***************************************************************************)
(* Who sees whom: the presence protocol of src/src/Presence.ts between the *)
(* RoundTables that Startup brings up, over the servers it brings up.      *)
(*                                                                         *)
(* Clients do not listen for connections: they meet through the servers of *)
(* their own node's configuration, which is that of the call that created  *)
(* the node, and a server passes on only the channels of the table it read *)
(* when it started.                                                        *)
(***************************************************************************)
EXTENDS Startup

CONSTANTS
  PresenceChannel,
  UserOf  \* the user's public key a RoundTable is made with

VARIABLE peerMap  \* peerMap[c]: the users c has had an announcement of

sessionVars == <<vars, peerMap>>

-----------------------------------------------------------------------------
(* External: what libp2p makes of the configurations.  Servers also dial   *)
(* one another; the longer ways this opens are left out.                   *)

Relays(s) == Up(s) /\ PresenceChannel \in config[s].channels

(* Nothing comes back to the node that published it, not even for another  *)
(* RoundTable of the same page.                                            *)
Linked(c, d) ==
  /\ Up(c) /\ Up(d) /\ node[c] # node[d]
  /\ \E s \in config[node[c]].servers \cap config[node[d]].servers : Relays(s)

-----------------------------------------------------------------------------

(* (slip: a client that has heard somebody is silent)                      *)
Due_Alone(c) == peerMap[c] = {}

(* The constructor announces, and then every interval of 10 s.             *)
Due(c) == TRUE

Observed(c, d) == [peerMap EXCEPT ![d] = @ \cup {UserOf[c]}]

(* One announcement, handled by d.  Whether it takes its time makes no     *)
(* difference to a map that only grows; the others may lose it, and each   *)
(* of them may have it from a later one.                                   *)
Announce(c, d) ==
  /\ Due(c)
  /\ Linked(c, d)
  /\ peerMap' = Observed(c, d)
  /\ UNCHANGED vars

(* A page that goes takes its map along; the others are not told, and go   *)
(* on listing its user.                                                    *)
SessionStep ==
  /\ Next
  /\ peerMap' = [c \in Calls |-> IF stage'[c] = "none" THEN {} ELSE peerMap[c]]

SessionInit == Init /\ peerMap = [c \in Calls |-> {}]

SessionNext == SessionStep \/ \E c, d \in Calls : Announce(c, d)

(* The interval fires, and of announcements made again and again to the    *)
(* same client some arrive.  Nothing else has to happen.                   *)
Pairs == {p \in Calls \X Calls : UserOf[p[1]] # UserOf[p[2]]}

Fairness == \A p \in Pairs : SF_sessionVars(Announce(p[1], p[2]))

SessionSpec == SessionInit /\ [][SessionNext]_sessionVars /\ Fairness

-----------------------------------------------------------------------------
(* Properties *)

(* The clients and a server that came up from the same contents of the     *)
(* table, with the channel of presence among its channels.                 *)
ShareTable(c, d) ==
  /\ Up(c) /\ Up(d) /\ node[c] # node[d]
  /\ config[node[c]] = config[node[d]]
  /\ PresenceChannel \in config[node[c]].channels
  /\ \E s \in config[node[c]].servers : Up(s) /\ config[s] = config[node[c]]

(* Two clients whose nodes were configured from the same table, and go on  *)
(* running together with one of its servers, come to list each other, in   *)
(* whatever order they came up and whatever is lost: a client that came    *)
(* last hears the others although nobody answers its announcement          *)
(* (_startPresencePolling, getTableData, init).  A RoundTable that shares  *)
(* another call's node meets those of that call's table instead.           *)
ClientsOfATableMeet ==
  \A p \in Pairs :
    <>[]ShareTable(p[1], p[2]) => <>(UserOf[p[1]] \in peerMap[p[2]])

=============================================================================
