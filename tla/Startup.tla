------------------------------ MODULE Startup ------------------------------
(***************************************************************************)
(* How the clients and servers of a deployment come up, over the table on  *)
(* the chain.  A page calls initRoundTable or setupRoundTable, once or     *)
(* several times (src/src/RoundTable.ts, Util.ts), which end in getP2PNode *)
(* and its singleton (p2p.js); a server calls RoundTableServer.init        *)
(* (server/Server.ts, ServerP2P.js).  Each of these awaits several times,  *)
(* and anything may happen at an await: other calls go on, the owner edits *)
(* the table, the awaited promise is rejected, a page is reloaded or a     *)
(* server restarted.                                                       *)
(*                                                                         *)
(* A libp2p node is named after the call that created it.                  *)
(***************************************************************************)
EXTENDS Naturals, FiniteSets

CONSTANTS
  Calls,     \* calls of initRoundTable and setupRoundTable
  Setups,    \* those that are calls of setupRoundTable
  Servers,
  PageOf,    \* the page a call is made on
  Tables,    \* what the owner may write: sets of servers and of channels
  Default,   \* the configuration of getDefaultConfig, without a table
  None,      \* no table, no node
  MaxUpsets  \* bound: edits of the table, pages reloaded, servers restarted

Starts == Calls \cup Servers
Pages == {PageOf[c] : c \in Calls}

ASSUME StartupAssumption ==
  /\ Calls \cap Servers = {} /\ Setups \subseteq Calls
  /\ DOMAIN PageOf = Calls
  /\ None \notin Starts \cup Tables \cup {Default}
  /\ MaxUpsets \in Nat

VARIABLES
  table,        \* what getTableData finds, or None
  stage,        \* what each call awaits, or how it ended
  config,       \* the table it read, or None
  nodeInstance, \* the singleton of each page
  node,         \* the node that a RoundTable or server was made with
  started,      \* the nodes that have started
  late,         \* history: calls made when their page had a RoundTable
  upsets

startVars == <<stage, config, nodeInstance, node, started, late>>
vars == <<table, startVars, upsets>>

-----------------------------------------------------------------------------

Up(x) == stage[x] = "up"

Moves(x, from, to) == stage[x] = from /\ stage' = [stage EXCEPT ![x] = to]

On(p) == {c \in Calls : PageOf[c] = p}

Call(x) ==
  /\ IF x \in Setups
     THEN Moves(x, "none", "key") /\ config' = [config EXCEPT ![x] = Default]
     ELSE Moves(x, "none", "fetch") /\ UNCHANGED config
  /\ late' = IF x \in Calls /\ \E c \in On(PageOf[x]) : Up(c)
             THEN late \cup {x} ELSE late
  /\ UNCHANGED <<nodeInstance, node, started>>

(* Without a table chainData is null, and reading its servers throws.      *)
Fetched(x) ==
  /\ table # None
  /\ Moves(x, "fetch", "key")
  /\ config' = [config EXCEPT ![x] = table]
  /\ UNCHANGED <<nodeInstance, node, started, late>>

(* (slip: getP2PNode does not look whether there is a node)                *)
Reuses_Never(x) == FALSE

(* getP2PNode, up to its first await: it tests the singleton.              *)
Reuses(x) == x \in Calls /\ nodeInstance[PageOf[x]] # None

KeyMade(x) ==
  /\ \/ /\ Reuses(x)
        /\ Moves(x, "key", "up")
        /\ node' = [node EXCEPT ![x] = nodeInstance[PageOf[x]]]
     \/ /\ ~Reuses(x)
        /\ Moves(x, "key", "create")
        /\ UNCHANGED node
  /\ UNCHANGED <<config, nodeInstance, started, late>>

Stored(x) ==
  nodeInstance' = IF x \in Calls THEN [nodeInstance EXCEPT ![PageOf[x]] = x]
                                 ELSE nodeInstance

(* (slip: the node is stored when it is created, to keep others from       *)
(* creating one)                                                           *)
Created_Stores(x) ==
  /\ Moves(x, "create", "start")
  /\ Stored(x)
  /\ UNCHANGED <<config, node, started, late>>

Created(x) ==
  /\ Moves(x, "create", "start")
  /\ UNCHANGED <<config, nodeInstance, node, started, late>>

(* The node is stored over whatever another call stored in the meantime,   *)
(* and returned to this caller.                                            *)
Started(x) ==
  /\ Moves(x, "start", "up")
  /\ started' = started \cup {x}
  /\ Stored(x)
  /\ node' = [node EXCEPT ![x] = x]
  /\ UNCHANGED <<config, late>>

(* Any of the promises may be rejected; nothing is stored or undone.       *)
Rejected(x) ==
  /\ \E await \in {"fetch", "key", "create", "start"} :
       Moves(x, await, "failed")
  /\ UNCHANGED <<config, nodeInstance, node, started, late>>

Settles(x) == Fetched(x) \/ KeyMade(x) \/ Created(x) \/ Started(x)

(* What a reload or a restart takes away: everything is in memory.         *)
Forget(gone) ==
  /\ stage' = [x \in Starts |-> IF x \in gone THEN "none" ELSE stage[x]]
  /\ config' = [x \in Starts |-> IF x \in gone THEN None ELSE config[x]]
  /\ node' = [x \in Starts |-> IF x \in gone THEN None ELSE node[x]]
  /\ started' = started \ gone
  /\ late' = late \ gone

Reload(p) ==
  /\ \E c \in On(p) : stage[c] # "none"
  /\ Forget(On(p))
  /\ nodeInstance' = [nodeInstance EXCEPT ![p] = None]

Restart(s) ==
  /\ stage[s] # "none"
  /\ Forget({s})
  /\ UNCHANGED nodeInstance

Upset == upsets < MaxUpsets /\ upsets' = upsets + 1

Crash ==
  /\ Upset
  /\ (\E p \in Pages : Reload(p)) \/ (\E s \in Servers : Restart(s))
  /\ UNCHANGED table

(* The owner's transactions, as the readers see them: see Table.           *)
Edit ==
  /\ Upset
  /\ table' \in Tables \ {table}
  /\ UNCHANGED startVars

Init ==
  /\ table \in Tables \cup {None}
  /\ stage = [x \in Starts |-> "none"]
  /\ config = [x \in Starts |-> None]
  /\ nodeInstance = [p \in Pages |-> None]
  /\ node = [x \in Starts |-> None]
  /\ started = {} /\ late = {}
  /\ upsets = 0

Next ==
  \/ \E x \in Starts : /\ Call(x) \/ Settles(x) \/ Rejected(x)
                       /\ UNCHANGED <<table, upsets>>
  \/ Crash
  \/ Edit

Spec == Init /\ [][Next]_vars

-----------------------------------------------------------------------------
(* Properties *)

(* Whoever gets a RoundTable or a server gets it with a node that has      *)
(* started, however the calls of a page cross and fail (getP2PNode stores  *)
(* the node after its last await).                                         *)
BoundToStarted == \A x \in Starts : Up(x) => node[x] \in started

(* Only calls that overlap create several nodes on a page: a call made     *)
(* when the page already has a RoundTable creates none, and ends with a    *)
(* node that an earlier call created.                                      *)
LateCallersShare ==
  \A c \in late : stage[c] \notin {"create", "start"} /\ node[c] # c

=============================================================================
