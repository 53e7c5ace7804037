---------------------------- MODULE Membership ------------------------------
(***************************************************************************)
(* The failure detector (node/membership_crud.go, node/node.go): every     *)
(* node keeps a member list, spreads it over UDP and detects failures by   *)
(* pinging its members in turn or by missing heart beats, with or without  *)
(* a suspicion phase in which the suspect may refute with a higher         *)
(* incarnation.                                                            *)
(*                                                                         *)
(* There is no clock: LastUpdateTime is left out and a timeout may expire  *)
(* whenever the code waits for it, since datagrams are delayed and         *)
(* processes pause without bound.  A node that starts again has a new id,  *)
(* so a crashed id never returns.                                          *)
(***************************************************************************)
EXTENDS Integers, FiniteSets

CONSTANTS
  Node,         \* ids of the nodes
  Introducer,   \* the node that the others join through
  Modes,        \* <<protocol, suspicion>> pairs that are switched to
  MaxInc,       \* bound: incarnations
  MaxHB,        \* bound: heart beats
  MaxMsgs,      \* bound: datagrams in flight; any datagram may be lost
  Leavers,      \* nodes whose user gives the command leave
  MaxCrashes    \* bound: nodes that crash

Protocols == {"gossip", "ping"}
Suspicions == {"suspect", "nosuspect"}

ASSUME MembershipAssumption ==
  /\ Introducer \in Node /\ Leavers \subseteq Node
  /\ Modes \subseteq Protocols \X Suspicions
  /\ MaxInc \in Nat /\ MaxHB \in Nat /\ MaxMsgs \in Nat /\ MaxCrashes \in Nat

VARIABLES
  list,             \* Node -> memberlist, [Node -> Member]
  mode,             \* Node -> <<protocol, suspicion>>
  roundRobin,       \* Node -> members in its shuffled roundRobinList
  ackchan,          \* Node -> Node -> the ping of that target under way
  status,           \* Node -> the process
  msgs              \* datagrams in flight

vars == <<list, mode, roundRobin, ackchan, status, msgs>>

Member == [hb: 0 .. MaxHB, inc: 0 .. MaxInc,
           state: {"Alive", "Suspected", "Failed", "Leave", "none"}]
Absent == [hb |-> 0, inc |-> 0, state |-> "none"]
Message == [type: {"ping", "ack", "gossip", "join"}, src: Node, dst: Node,
            list: [Node -> Member]]
Waiting == Suspicions \cup {"none"}      \* the nowSuspicion of a waiting ping

Present(n) == {m \in Node : list[n][m].state # "none"}
Only(l, S) == [m \in Node |-> IF m \in S THEN l[m] ELSE Absent]

(* NewNode: the node knows itself only; ping without suspicion.            *)
Init ==
  /\ list = [n \in Node |->
       [m \in Node |-> IF m = n THEN [Absent EXCEPT !.state = "Alive"] ELSE Absent]]
  /\ mode = [n \in Node |-> <<"ping", "nosuspect">>]
  /\ roundRobin = [n \in Node |-> {}]
  /\ ackchan = [n \in Node |-> [m \in Node |-> "none"]]
  /\ status = [n \in Node |-> IF n = Introducer THEN "on" ELSE "off"]
  /\ msgs = {}

-----------------------------------------------------------------------------
(* Sending.                                                                *)

Datagram(type, src, dst, l) == [type |-> type, src |-> src, dst |-> dst, list |-> l]

(* Some of the new datagrams get into the network, the others are lost.    *)
Send(rest, new) ==
  \E S \in SUBSET new :
    /\ Cardinality(rest \cup S) <= MaxMsgs
    /\ msgs' = rest \cup S

(* permutation: the members of list l that have not failed are shuffled.   *)
Permutation(n, l) == {m \in Node \ {n} : l[m].state \notin {"none", "Failed"}}

(* roundRobinK: the shuffled list stays in use, with members that have     *)
(* failed or were deleted since, until it is used up and shuffled afresh.  *)
RoundRobin(n, l) ==
  \E L \in {roundRobin[n], Permutation(n, l)} :
    roundRobin' = [roundRobin EXCEPT ![n] = L]

(* sendGossipMessage: nothing is sent when there is nothing to tell; a     *)
(* round may take the end of the old list and the beginning of the new.    *)
Gossip(n, l) ==
  IF \A m \in Node : l[m].state = "none"
    THEN UNCHANGED <<msgs, roundRobin>>
    ELSE /\ RoundRobin(n, list'[n])
         /\ Send(msgs, {Datagram("gossip", n, m, l) :
                           m \in roundRobin[n] \cup roundRobin'[n]})

(* joinMemberList.                                                         *)
Join(n) ==
  /\ status[n] = "off"
  /\ status' = [status EXCEPT ![n] = "on"]
  /\ Send(msgs, {Datagram("join", n, Introducer, Only(list[n], {n}))})
  /\ UNCHANGED <<list, mode, roundRobin, ackchan>>

-----------------------------------------------------------------------------
(* UpdateMemberlist.                                                       *)

(* Mutant: a newer heart beat clears a suspicion.                          *)
UpdateOtherClears(cur, next) ==
  IF cur.state = "none" THEN next
  ELSE IF next.state # "none" /\ next.inc = cur.inc /\ next.hb > cur.hb THEN next
  ELSE cur

(* The entry of another node.                                              *)
UpdateOther(cur, next) ==
  IF next.state = "none" THEN cur
  ELSE IF cur.state = "none" THEN IF next.state = "Failed" THEN cur ELSE next
  ELSE IF next.inc > cur.inc THEN next
  ELSE IF cur.state = "Failed" THEN cur
  ELSE IF next.state \in {"Failed", "Leave"} THEN [cur EXCEPT !.state = "Failed"]
  ELSE IF next.inc = cur.inc /\ cur.state = "Alive"
    THEN IF next.state = "Suspected" THEN [cur EXCEPT !.state = "Suspected"]
         ELSE IF next.hb > cur.hb THEN [cur EXCEPT !.hb = next.hb]
         ELSE cur
  ELSE cur

(* Mutant: the own entry is treated like the others.                       *)
UpdateSelfAsOther(own, next) == UpdateOther(own, next)

(* The node's own entry: a suspicion of its incarnation is refuted.        *)
UpdateSelf(own, next) ==
  IF next.state = "Suspected" /\ own.state = "Alive" /\ next.inc >= own.inc
    THEN [own EXCEPT !.inc = @ + 1]
    ELSE own

(* The list of node n after the message.  A node that is no longer in its  *)
(* own list stops at its entry: only the entries before it, any subset S   *)
(* since maps are iterated in random order, are taken.                     *)
Updated(n, l, S) ==
  [m \in Node |->
     IF m = n THEN UpdateSelf(list[n][n], l[n])
     ELSE IF m \in S THEN UpdateOther(list[n][m], l[m])
     ELSE list[n][m]]

(* handleMessage: update the list, then answer a ping and a join with the  *)
(* whole list, or hand an ack to the goroutine that waits for it, which is *)
(* done unless its timer has fired as well and its select takes the timer. *)
HandleMessage(d) ==
  LET n == d.dst IN
  /\ status[n] = "on"
  /\ \E S \in SUBSET Node :
       /\ S = Node \/ (d.list[n].state # "none" /\ list[n][n].state = "none")
       /\ list' = [list EXCEPT ![n] = Updated(n, d.list, S)]
  /\ list'[n][n].inc <= MaxInc
  /\ Send(msgs \ {d},
       CASE d.type = "ping" -> {Datagram("ack", n, d.src, list'[n])}
         [] d.type = "join" -> {Datagram("gossip", n, d.src, list'[n])}
         [] OTHER -> {})
  /\ \/ UNCHANGED ackchan
     \/ d.type = "ack" /\ ackchan' = [ackchan EXCEPT ![n][d.src] = "none"]
  /\ UNCHANGED <<mode, roundRobin, status>>

-----------------------------------------------------------------------------
(* Detection.                                                              *)

(* addHeartBeat.                                                           *)
WithHeartBeat(n) ==
  IF list[n][n].state = "none" THEN list
                               ELSE [list EXCEPT ![n][n].hb = @ + 1]

(* HeartBeatRoutine in gossip mode.                                        *)
HeartBeat(n) ==
  /\ status[n] = "on" /\ mode[n][1] = "gossip"
  /\ list[n][n].hb < MaxHB
  /\ list' = WithHeartBeat(n)
  /\ Gossip(n, list'[n])
  /\ UNCHANGED <<mode, ackchan, status>>

(* HeartBeatRoutine in ping mode, pingMember up to the select.             *)
Ping(n, m) ==
  /\ status[n] = "on" /\ mode[n][1] = "ping"
  /\ ackchan[n][m] = "none"
  /\ RoundRobin(n, list[n])
  /\ m \in roundRobin'[n]
  /\ ackchan' = [ackchan EXCEPT ![n][m] = mode[n][2]]
  /\ Send(msgs, {Datagram("ping", n, m, list[n])})
  /\ UNCHANGED <<list, mode, status>>

(* Mutant: the comparison with the previous state is inverted.             *)
ChangeStateInverted(n, m, prev, new) ==
  IF list[n][m].state # prev THEN [list EXCEPT ![n][m].state = new] ELSE list

(* changeState: the verdict is given only if the member is still Alive.    *)
ChangeState(n, m, prev, new) ==
  IF list[n][m].state = prev THEN [list EXCEPT ![n][m].state = new] ELSE list

(* PingTimeout: the target is suspected or failed, and that is gossiped.   *)
PingTimeout(n, m) ==
  /\ status[n] = "on" /\ ackchan[n][m] \in Suspicions
  /\ ackchan' = [ackchan EXCEPT ![n][m] = "none"]
  /\ list' = ChangeState(n, m, "Alive",
                         IF ackchan[n][m] = "suspect" THEN "Suspected" ELSE "Failed")
  /\ Gossip(n, IF list' = list THEN Only(list'[n], {}) ELSE Only(list'[n], {m}))
  /\ UNCHANGED <<mode, status>>

(* Mutant: the one who suspects raises the incarnation.                    *)
ExpireRaises(r, md) ==
  CASE r.state = "Alive" /\ md = <<"gossip", "suspect">> ->
         [r EXCEPT !.state = "Suspected", !.inc = @ + 1]
    [] OTHER -> r

(* What TimeOutCheck makes of an entry whose time has expired.             *)
Expire(r, md) ==
  CASE r.state = "Failed" -> Absent
    [] r.state = "Alive" /\ md = <<"gossip", "suspect">> -> [r EXCEPT !.state = "Suspected"]
    [] r.state = "Alive" /\ md = <<"gossip", "nosuspect">> -> [r EXCEPT !.state = "Failed"]
    [] r.state = "Suspected" /\ md[2] = "suspect" -> [r EXCEPT !.state = "Failed"]
    [] OTHER -> r

(* TimeOutCheck, the entries in E having expired (the own one included);   *)
(* the members that failed now are gossiped.                               *)
TimeOutCheck(n, E) ==
  LET failed == {m \in E : list'[n][m].state = "Failed" /\ list[n][m].state # "Failed"} IN
  /\ status[n] = "on"
  /\ E \subseteq Present(n)
  /\ list' = [list EXCEPT ![n] =
       [m \in Node |-> IF m \in E THEN Expire(list[n][m], mode[n]) ELSE list[n][m]]]
  /\ Gossip(n, Only(list'[n], failed))
  /\ UNCHANGED <<mode, ackchan, status>>

(* Mutant: protocol and suspicion are swapped.                             *)
SwitchSwapped(n, md) ==
  /\ status[n] = "on"
  /\ mode' = [mode EXCEPT ![n] = <<md[2], md[1]>>]
  /\ UNCHANGED <<list, roundRobin, ackchan, status, msgs>>

(* Switch, by a command at the node, the introducer's broadcast or the     *)
(* mode fetched while joining.                                             *)
Switch(n, md) ==
  /\ status[n] = "on" /\ mode[n] # md
  /\ mode' = [mode EXCEPT ![n] = md]
  /\ \/ /\ md[1] = "gossip"
        /\ list[n][n].hb < MaxHB
        /\ list' = WithHeartBeat(n)
        /\ Gossip(n, list'[n])
     \/ /\ md[1] = "ping"
        /\ UNCHANGED <<list, roundRobin, msgs>>
  /\ UNCHANGED <<ackchan, status>>

(* The command leave: TurnLeave; the node goes on running.                 *)
Leave(n) ==
  /\ n \in Leavers /\ status[n] = "on"
  /\ list[n][n].state \notin {"none", "Leave"}
  /\ list' = [list EXCEPT ![n][n].state = "Leave"]
  /\ UNCHANGED <<mode, roundRobin, ackchan, status, msgs>>

Crash(n) ==
  /\ status[n] = "on"
  /\ Cardinality({m \in Node : status[m] = "crashed"}) < MaxCrashes
  /\ status' = [status EXCEPT ![n] = "crashed"]
  /\ UNCHANGED <<list, mode, roundRobin, ackchan, msgs>>

Next ==
  \/ \E n \in Node : Join(n) \/ HeartBeat(n) \/ Leave(n) \/ Crash(n)
  \/ \E n, m \in Node : Ping(n, m) \/ PingTimeout(n, m)
  \/ \E n \in Node, E \in SUBSET Node : TimeOutCheck(n, E)
  \/ \E n \in Node, md \in Modes : Switch(n, md)
  \/ \E d \in msgs : HandleMessage(d)

Spec == Init /\ [][Next]_vars

(* The routines of a running node go on: in turn every member is pinged, a *)
(* ping ends, and an entry that keeps expiring is found expired.           *)
Fairness ==
  \A n, m \in Node :
    /\ WF_vars(Ping(n, m))
    /\ WF_vars(PingTimeout(n, m))
    /\ WF_vars(TimeOutCheck(n, {m}) /\ list' # list)

FairSpec == Spec /\ Fairness

-----------------------------------------------------------------------------
(* Properties.                                                             *)

(* Lists, messages and modes keep their shapes.                            *)
TypeOK ==
  /\ list \in [Node -> [Node -> Member]]
  /\ mode \in [Node -> Protocols \X Suspicions]
  /\ roundRobin \in [Node -> SUBSET Node]
  /\ ackchan \in [Node -> [Node -> Waiting]]
  /\ status \in [Node -> {"off", "on", "crashed"}]
  /\ msgs \subseteq Message

(* r is no newer than the entry own that the member has of itself.         *)
NoNewer(r, own) == r.inc <= own.inc /\ r.hb <= own.hb

(* Nobody, and no datagram, knows more of a node than the node itself:     *)
(* incarnation and heart beat are only raised by their owner, so that a    *)
(* refutation beats every suspicion that is still on its way.              *)
OwnerAhead ==
  \A m \in Node : list[m][m].state # "none" =>
    /\ \A n \in Node : NoNewer(list[n][m], list[m][m])
    /\ \A d \in msgs : NoNewer(d.list[m], list[m][m])

(* In ping mode a running node never takes itself for suspected or failed, *)
(* whatever the others say of it.                                          *)
SelfAlive ==
  \A n \in Node : list[n][n].state \in {"Alive", "Leave"}

Rank(s) == CASE s = "Alive" -> 0 [] s \in {"Suspected", "Leave"} -> 1 [] OTHER -> 2

(* cur stands in new, unless the member came back with more incarnations.  *)
Stands(cur, new) ==
  \/ new.inc > cur.inc
  \/ new.inc = cur.inc /\ Rank(new.state) >= Rank(cur.state)

VerdictStep ==
  \A n, m \in Node :
    n # m /\ list[n][m].state # "none" /\ list'[n][m].state # "none" =>
      Stands(list[n][m], list'[n][m])

(* A node does not take back what it holds against a member unless the     *)
(* member has a higher incarnation or its entry was deleted: stale gossip  *)
(* revives nobody that is still listed.                                    *)
VerdictsStand == [][VerdictStep]_vars

(* Completeness: a crashed member does not stay Alive for a running node.  *)
Detected ==
  \A n, m \in Node :
    (status[n] = "on" /\ status[m] = "crashed")
      ~> (status[n] # "on" \/ list[n][m].state # "Alive")
=============================================================================
