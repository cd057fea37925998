---------------------------- MODULE StartupProofs ----------------------------
(***************************************************************************)
(* The safety of Startup, proved for every set of pages, calls, servers    *)
(* and contents of the table, and any number of reloads and restarts.      *)
(***************************************************************************)
EXTENDS Startup, TLAPS

Stages == {"none", "fetch", "key", "create", "start", "up", "failed"}

Types ==
  /\ stage \in [Starts -> Stages]
  /\ nodeInstance \in [Pages -> Calls \cup {None}]
  /\ node \in [Starts -> Starts \cup {None}]
  /\ late \subseteq Calls

(* Only who is up has a node, and it has started on the same page.         *)
NodesAreLocal ==
  /\ \A x \in Starts : ~Up(x) => node[x] = None
  /\ \A c \in Calls : Up(c) => node[c] \in On(PageOf[c])
  /\ \A s \in Servers : Up(s) => node[s] = s

(* The singleton is a started node of the page, of a call that is up.      *)
SingletonIsUp ==
  \A p \in Pages : nodeInstance[p] # None =>
    nodeInstance[p] \in On(p) \cap started /\ Up(nodeInstance[p])

(* Once a page has a RoundTable it has a singleton.                        *)
SingletonIsSet ==
  \A c \in Calls : Up(c) \/ c \in late => nodeInstance[PageOf[c]] # None

StartupInv ==
  /\ Types
  /\ NodesAreLocal
  /\ SingletonIsUp
  /\ SingletonIsSet
  /\ BoundToStarted
  /\ LateCallersShare

(* Calls and servers are different attempts to start a node.               *)
LEMMA StartsFacts ==
  /\ Calls \subseteq Starts /\ Servers \subseteq Starts
  /\ Calls \cap Servers = {}
  /\ None \notin Starts
  /\ \A c \in Calls : PageOf[c] \in Pages
BY StartupAssumption DEF Starts, Pages

(* At first there is no node.                                              *)
LEMMA InitInv == Init => StartupInv
BY StartsFacts
DEF Init, StartupInv, Types, Stages, NodesAreLocal, SingletonIsUp,
    SingletonIsSet, BoundToStarted, LateCallersShare, Up

(* A call that is made is late only if its page has a singleton.           *)
LEMMA CallInv ==
  ASSUME StartupInv, NEW x \in Starts, Call(x)
  PROVE  StartupInv'
<1>1. /\ stage[x] = "none"
      /\ \E to \in {"key", "fetch"} : stage' = [stage EXCEPT ![x] = to]
  BY DEF Call, Moves
<1>2. UNCHANGED <<nodeInstance, node, started>>
  BY DEF Call
<1>3. /\ late' \subseteq Calls
      /\ \A c \in late' \ late : c = x /\ nodeInstance[PageOf[c]] # None
  BY DEF Call, StartupInv, Types, On, SingletonIsSet
<1>4. Types'
  BY <1>1, <1>2, <1>3 DEF StartupInv, Types, Stages
<1>5. \A y \in Starts : Up(y)' <=> Up(y)
  BY <1>1 DEF StartupInv, Types, Stages, Up
<1>6. NodesAreLocal' /\ SingletonIsUp' /\ BoundToStarted'
  BY <1>2, <1>5, StartsFacts
  DEF StartupInv, Types, NodesAreLocal, SingletonIsUp, BoundToStarted, On
<1>7. SingletonIsSet'
  BY <1>2, <1>3, <1>5, StartsFacts DEF StartupInv, SingletonIsSet
<1>8. LateCallersShare'
  BY <1>1, <1>2, <1>3, StartsFacts
  DEF StartupInv, Types, Stages, LateCallersShare, NodesAreLocal, Up
<1> QED BY <1>4, <1>6, <1>7, <1>8 DEF StartupInv

(* A step in which nobody comes up and no call that is late makes a node.  *)
LEMMA WaitInv ==
  ASSUME StartupInv, NEW x \in Starts,
         ~Up(x),
         NEW to \in Stages \ {"up"},
         to \in {"create", "start"} => x \notin late,
         stage' = [stage EXCEPT ![x] = to],
         UNCHANGED <<nodeInstance, node, started, late>>
  PROVE  StartupInv'
<1>1. Types'
  BY DEF StartupInv, Types
<1>2. \A y \in Starts : Up(y)' <=> Up(y)
  BY DEF StartupInv, Types, Up
<1>3. NodesAreLocal' /\ SingletonIsUp' /\ BoundToStarted' /\ SingletonIsSet'
  BY <1>2, StartsFacts
  DEF StartupInv, Types, NodesAreLocal, SingletonIsUp, SingletonIsSet,
      BoundToStarted, On
<1>4. LateCallersShare'
  BY StartsFacts DEF StartupInv, Types, LateCallersShare
<1> QED BY <1>1, <1>3, <1>4 DEF StartupInv

(* A late call finds the singleton; what it finds is not its own node.     *)
LEMMA KeyMadeInv ==
  ASSUME StartupInv, NEW x \in Starts, KeyMade(x)
  PROVE  StartupInv'
<1>1. stage[x] = "key" /\ UNCHANGED <<nodeInstance, started, late>>
  BY DEF KeyMade, Moves
<1>2. CASE Reuses(x)
  <2> DEFINE n == nodeInstance[PageOf[x]]
  <2>1. /\ x \in Calls /\ n \in On(PageOf[x]) \cap started /\ Up(n)
        /\ n # None
    BY <1>2, StartsFacts DEF Reuses, StartupInv, SingletonIsUp
  <2>2. /\ stage' = [stage EXCEPT ![x] = "up"]
        /\ node' = [node EXCEPT ![x] = n]
    BY <1>2 DEF KeyMade, Moves
  <2>3. n \in Starts /\ n # x
    BY <1>1, <2>1, StartsFacts DEF On, Up
  <2> HIDE DEF n
  <2>4. Types'
    BY <1>1, <2>2, <2>3 DEF StartupInv, Types, Stages
  <2>5. \A y \in Starts : Up(y)' <=> Up(y) \/ y = x
    BY <2>2 DEF StartupInv, Types, Up
  <2>6. NodesAreLocal'
    BY <2>1, <2>2, <2>5, StartsFacts
    DEF StartupInv, Types, NodesAreLocal, On
  <2>7. SingletonIsUp'
    BY <1>1, <2>5, StartsFacts DEF StartupInv, Types, SingletonIsUp, On
  <2>8. SingletonIsSet'
    BY <1>1, <2>1, <2>5, StartsFacts DEF n, StartupInv, SingletonIsSet
  <2>9. BoundToStarted'
    BY <1>1, <2>1, <2>2, <2>5 DEF StartupInv, Types, BoundToStarted
  <2>10. LateCallersShare'
    BY <1>1, <2>2, <2>3, StartsFacts DEF StartupInv, Types, LateCallersShare
  <2> QED BY <2>4, <2>6, <2>7, <2>8, <2>9, <2>10 DEF StartupInv
<1>3. CASE ~Reuses(x)
  <2>1. stage' = [stage EXCEPT ![x] = "create"] /\ UNCHANGED node
    BY <1>3 DEF KeyMade, Moves
  <2>2. x \notin late
    BY <1>3 DEF Reuses, StartupInv, Types, SingletonIsSet
  <2>3. ~Up(x) /\ "create" \in Stages \ {"up"}
    BY <1>1 DEF Up, Stages
  <2> QED BY <1>1, <2>1, <2>2, <2>3, WaitInv
<1> QED BY <1>2, <1>3

(* The node has started when it is stored, and its call is not late.       *)
LEMMA StartedInv ==
  ASSUME StartupInv, NEW x \in Starts, Started(x)
  PROVE  StartupInv'
<1>1. /\ stage[x] = "start" /\ stage' = [stage EXCEPT ![x] = "up"]
      /\ started' = started \cup {x}
      /\ node' = [node EXCEPT ![x] = x]
      /\ Stored(x)
      /\ UNCHANGED late
  BY DEF Started, Moves
<1>2. x \notin late
  BY <1>1 DEF StartupInv, LateCallersShare
<1>3. \A p \in Pages :
        nodeInstance'[p] = IF x \in Calls /\ p = PageOf[x]
                           THEN x ELSE nodeInstance[p]
  BY <1>1, StartsFacts DEF Stored, StartupInv, Types
<1>4. Types'
  BY <1>1, StartsFacts DEF Stored, StartupInv, Types, Stages
<1>5. \A y \in Starts : Up(y)' <=> Up(y) \/ y = x
  BY <1>1 DEF StartupInv, Types, Up
<1>6. NodesAreLocal'
  BY <1>1, <1>5, StartsFacts DEF StartupInv, Types, NodesAreLocal, On
<1>7. SingletonIsUp'
  BY <1>1, <1>3, <1>5, StartsFacts
  DEF StartupInv, Types, SingletonIsUp, On
<1>8. SingletonIsSet'
  BY <1>1, <1>3, <1>5, StartsFacts DEF StartupInv, SingletonIsSet
<1>9. BoundToStarted'
  BY <1>1, <1>5 DEF StartupInv, Types, BoundToStarted
<1>10. LateCallersShare'
  BY <1>1, <1>2, StartsFacts DEF StartupInv, Types, LateCallersShare
<1> QED BY <1>4, <1>6, <1>7, <1>8, <1>9, <1>10 DEF StartupInv

(* What forgets a whole page, or a server, leaves nothing that refers to   *)
(* the nodes it takes away.                                                *)
LEMMA ForgetInv ==
  ASSUME StartupInv, NEW gone \in SUBSET Starts, Forget(gone),
         \A c \in Calls : node[c] \in gone => c \in gone,
         nodeInstance' \in [Pages -> Calls \cup {None}],
         \A p \in Pages :
           nodeInstance'[p] = IF On(p) \subseteq gone
                              THEN None ELSE nodeInstance[p],
         \A p \in Pages : On(p) \subseteq gone \/ On(p) \cap gone = {}
  PROVE  StartupInv'
<1>1. /\ \A y \in Starts :
           /\ stage'[y] = IF y \in gone THEN "none" ELSE stage[y]
           /\ node'[y] = IF y \in gone THEN None ELSE node[y]
      /\ started' = started \ gone
      /\ late' = late \ gone
  BY DEF Forget
<1>2. Types'
  BY DEF Forget, StartupInv, Types, Stages
<1>3. \A y \in Starts : Up(y)' <=> Up(y) /\ y \notin gone
  BY <1>1 DEF Up
<1>4. NodesAreLocal'
  BY <1>1, <1>3, StartsFacts DEF StartupInv, NodesAreLocal, On
<1>5. SingletonIsUp'
  BY <1>1, <1>3, StartsFacts DEF StartupInv, SingletonIsUp, On
<1>6. \A c \in Calls : c \notin gone =>
        nodeInstance'[PageOf[c]] = nodeInstance[PageOf[c]]
  BY StartsFacts DEF On
<1>7. SingletonIsSet'
  BY <1>1, <1>3, <1>6, StartsFacts DEF StartupInv, SingletonIsSet
<1>8. BoundToStarted'
  <2> SUFFICES ASSUME NEW y \in Starts, Up(y)'
               PROVE  node'[y] \in started'
    BY DEF BoundToStarted
  <2>1. Up(y) /\ y \notin gone /\ node'[y] = node[y]
    BY <1>1, <1>3
  <2>2. node[y] \notin gone
    BY <2>1 DEF StartupInv, NodesAreLocal, Starts
  <2> QED BY <1>1, <2>1, <2>2 DEF StartupInv, BoundToStarted
<1>9. LateCallersShare'
  BY <1>1, StartsFacts DEF StartupInv, Types, LateCallersShare
<1> QED BY <1>2, <1>4, <1>5, <1>7, <1>8, <1>9 DEF StartupInv

(* A reload or a restart forgets the nodes of its page or server.          *)
LEMMA CrashInv ==
  ASSUME StartupInv, Crash
  PROVE  StartupInv'
<1>1. ASSUME NEW p \in Pages, Reload(p)
      PROVE  StartupInv'
  <2>1. On(p) \in SUBSET Starts /\ Forget(On(p))
    BY <1>1, StartsFacts DEF On, Reload
  <2>2. \A c \in Calls : node[c] \in On(p) => c \in On(p)
    BY StartsFacts DEF On, StartupInv, NodesAreLocal
  <2>3. nodeInstance' = [nodeInstance EXCEPT ![p] = None]
    BY <1>1 DEF Reload
  <2>4. \A q \in Pages : /\ q = p <=> On(q) \subseteq On(p)
                         /\ q = p \/ On(q) \cap On(p) = {}
    BY DEF On, Pages
  <2>5. nodeInstance' \in [Pages -> Calls \cup {None}]
    BY <2>3 DEF StartupInv, Types
  <2>6. \A q \in Pages :
          nodeInstance'[q] = IF On(q) \subseteq On(p)
                             THEN None ELSE nodeInstance[q]
    BY <2>3, <2>4 DEF StartupInv, Types
  <2>7. \A q \in Pages : On(q) \subseteq On(p) \/ On(q) \cap On(p) = {}
    BY <2>4
  <2> QED BY <2>1, <2>2, <2>5, <2>6, <2>7, ForgetInv
<1>2. ASSUME NEW s \in Servers, Restart(s)
      PROVE  StartupInv'
  <2>1. {s} \in SUBSET Starts /\ Forget({s}) /\ UNCHANGED nodeInstance
    BY <1>2, StartsFacts DEF Restart
  <2>2. \A c \in Calls : node[c] # s
    BY StartsFacts DEF On, StartupInv, NodesAreLocal
  <2>3. \A p \in Pages : On(p) \cap {s} = {} /\ ~(On(p) \subseteq {s})
    BY StartsFacts DEF On, Pages
  <2>4. nodeInstance' \in [Pages -> Calls \cup {None}]
    BY <2>1 DEF StartupInv, Types
  <2> QED BY <2>1, <2>2, <2>3, <2>4, ForgetInv
<1> QED BY <1>1, <1>2 DEF Crash

(* Every step keeps nodes, singletons and calls together.                  *)
LEMMA StepInv ==
  ASSUME StartupInv, [Next]_vars
  PROVE  StartupInv'
<1>1. ASSUME NEW x \in Starts, Fetched(x)
      PROVE  StartupInv'
  <2>1. /\ ~Up(x) /\ stage' = [stage EXCEPT ![x] = "key"]
        /\ "key" \in Stages \ {"up"}
        /\ UNCHANGED <<nodeInstance, node, started, late>>
    BY <1>1 DEF Fetched, Moves, Up, Stages
  <2> QED BY <2>1, WaitInv
<1>2. ASSUME NEW x \in Starts, Created(x)
      PROVE  StartupInv'
  <2>1. /\ stage[x] = "create" /\ stage' = [stage EXCEPT ![x] = "start"]
        /\ "start" \in Stages \ {"up"}
        /\ UNCHANGED <<nodeInstance, node, started, late>>
    BY <1>2 DEF Created, Moves, Stages
  <2>2. ~Up(x) /\ x \notin late
    BY <2>1 DEF Up, StartupInv, LateCallersShare
  <2> QED BY <2>1, <2>2, WaitInv
<1>3. ASSUME NEW x \in Starts, Rejected(x)
      PROVE  StartupInv'
  <2>1. /\ ~Up(x) /\ stage' = [stage EXCEPT ![x] = "failed"]
        /\ "failed" \in Stages \ {"up"}
        /\ UNCHANGED <<nodeInstance, node, started, late>>
    BY <1>3 DEF Rejected, Moves, Up, Stages
  <2> QED BY <2>1, WaitInv
<1>4. ASSUME Edit \/ UNCHANGED vars
      PROVE  StartupInv'
  BY <1>4
  DEF Edit, vars, startVars, StartupInv, Types, NodesAreLocal, SingletonIsUp,
      SingletonIsSet, BoundToStarted, LateCallersShare, Up
<1> QED
  BY <1>1, <1>2, <1>3, <1>4, CallInv, KeyMadeInv, StartedInv, CrashInv
  DEF Next, Settles

(* Every step of the start-up keeps what is known about nodes, singletons  *)
(* and the calls that share them.                                          *)
THEOREM StartupInvariance == Spec => []StartupInv
BY InitInv, StepInv, PTL DEF Spec

(* Nobody gets a RoundTable or a server whose node has not started, for    *)
(* any number of pages, calls and servers (getP2PNode).                    *)
THEOREM NodesStartFirst == Spec => []BoundToStarted
<1>1. StartupInv => BoundToStarted BY DEF StartupInv
<1> QED BY <1>1, StartupInvariance, PTL

(* A call made when its page has a RoundTable never creates a second node. *)
THEOREM LateCallersReuse == Spec => []LateCallersShare
<1>1. StartupInv => LateCallersShare BY DEF StartupInv
<1> QED BY <1>1, StartupInvariance, PTL

=============================================================================
