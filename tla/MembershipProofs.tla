-------------------------- MODULE MembershipProofs --------------------------
(***************************************************************************)
(* Proofs about Membership, for any set of nodes and any bounds.  The      *)
(* invariant OwnerAhead is inductive together with the types; the argument *)
(* is made once, for any step that keeps to the discipline of StepShape.   *)
(***************************************************************************)
EXTENDS Membership, TLAPS

(* What one entry becomes is an entry again.                               *)
LEMMA UpdateOtherType ==
  ASSUME NEW c \in Member, NEW x \in Member
  PROVE  UpdateOther(c, x) \in Member
BY DEF UpdateOther, Member

(* It is no newer than the owner's entry if its two sources are not.       *)
LEMMA UpdateOtherNoNewer ==
  ASSUME NEW c \in Member, NEW x \in Member, NEW own \in Member,
         NoNewer(c, own), NoNewer(x, own)
  PROVE  NoNewer(UpdateOther(c, x), own)
BY DEF UpdateOther, Member, NoNewer

(* A timeout changes the state of an entry or deletes it, nothing else.    *)
LEMMA ExpireNoNewer ==
  ASSUME NEW r \in Member, NEW md
  PROVE  /\ Expire(r, md) \in Member
         /\ \A own \in Member : NoNewer(r, own) => NoNewer(Expire(r, md), own)
         /\ Expire(r, md).state # "none" =>
              r.state # "none" /\ Expire(r, md).inc = r.inc /\ Expire(r, md).hb = r.hb
<1> USE MembershipAssumption DEF Member, Absent, NoNewer
<1> DEFINE e == Expire(r, md)
<1>1. e = Absent \/ e = r \/ e = [r EXCEPT !.state = "Suspected"]
        \/ e = [r EXCEPT !.state = "Failed"]
  BY DEF Expire
<1>2. e # Absent /\ e # r => r.state # "none"
  BY DEF Expire
<1>3. QED BY <1>1, <1>2

(* The own entry only changes by a refutation.                             *)
LEMMA UpdateSelfNewer ==
  ASSUME NEW own \in Member, NEW x \in Member
  PROVE  LET r == UpdateSelf(own, x) IN
         /\ r.inc \in Nat /\ (r.inc <= MaxInc => r \in Member)
         /\ NoNewer(own, r)
         /\ r.state = own.state
BY MembershipAssumption DEF UpdateSelf, Member, NoNewer

-----------------------------------------------------------------------------
(* What every action does to the lists and the datagrams.                  *)

(* The entry of another node is no newer than its sources were.            *)
OthersFollow ==
  \A n, m \in Node : n # m => \A own \in Member :
    NoNewer(list[n][m], own) /\ (\A d \in msgs : NoNewer(d.list[m], own))
      => NoNewer(list'[n][m], own)

(* The own entry only grows, and never comes back once it is deleted.      *)
SelfGrows ==
  \A m \in Node : list'[m][m].state # "none" =>
    list[m][m].state # "none" /\ NoNewer(list[m][m], list'[m][m])

(* A new datagram carries entries that its sender has now.                 *)
SentKnown ==
  \A d \in msgs', m \in Node :
    d \in msgs \/ d.list[m] = Absent \/ \E n \in Node : d.list[m] = list'[n][m]

StepShape == OthersFollow /\ SelfGrows /\ SentKnown

ListsOK == list \in [Node -> [Node -> Member]] /\ msgs \subseteq Message

(* A step of that shape preserves OwnerAhead.                              *)
LEMMA ShapePreserves ==
  ASSUME ListsOK, ListsOK', OwnerAhead, StepShape
  PROVE  OwnerAhead'
<1> SUFFICES ASSUME NEW m \in Node, list'[m][m].state # "none"
             PROVE  /\ \A n \in Node : NoNewer(list'[n][m], list'[m][m])
                    /\ \A d \in msgs' : NoNewer(d.list[m], list'[m][m])
  BY DEF OwnerAhead, NoNewer
<1> DEFINE old == list[m][m]
           own == list'[m][m]
<1>0. old \in Member /\ own \in Member
  BY DEF ListsOK
<1>1. old.state # "none" /\ NoNewer(old, own)
  BY DEF StepShape, SelfGrows
<1>2. ASSUME NEW x \in Member, NoNewer(x, old)
      PROVE  NoNewer(x, own)
  BY <1>0, <1>1, <1>2, MembershipAssumption DEF NoNewer, Member
<1>3. \A d \in msgs : d.list[m] \in Member /\ NoNewer(d.list[m], own)
  <2> SUFFICES ASSUME NEW d \in msgs
               PROVE  d.list[m] \in Member /\ NoNewer(d.list[m], own)
    OBVIOUS
  <2>1. d.list[m] \in Member
    BY DEF ListsOK, Message
  <2>2. NoNewer(d.list[m], old)
    BY <1>1 DEF OwnerAhead
  <2>3. QED BY <1>2, <2>1, <2>2
<1>4. ASSUME NEW n \in Node
      PROVE  NoNewer(list'[n][m], own)
  <2>1. CASE n = m
    BY <2>1, <1>0, MembershipAssumption DEF NoNewer, Member
  <2>2. CASE n # m
    <3>1. list[n][m] \in Member
      BY DEF ListsOK
    <3>2. NoNewer(list[n][m], old)
      BY <1>1 DEF OwnerAhead
    <3>3. NoNewer(list[n][m], own)
      BY <1>2, <3>1, <3>2
    <3>4. QED BY <1>0, <1>3, <2>2, <3>3 DEF StepShape, OthersFollow
  <2>3. QED BY <2>1, <2>2
<1>5. NoNewer(Absent, own)
  BY <1>0, MembershipAssumption DEF NoNewer, Absent, Member
<1>6. \A d \in msgs' : NoNewer(d.list[m], own)
  BY <1>3, <1>4, <1>5 DEF StepShape, SentKnown
<1>7. QED BY <1>4, <1>6

-----------------------------------------------------------------------------
(* The pieces that the actions are made of.                                *)

(* Sending adds nothing but the given datagrams.                           *)
LEMMA SendAdds ==
  ASSUME NEW rest, NEW new, Send(rest, new)
  PROVE  msgs' \subseteq rest \cup new
BY DEF Send

(* A part of a list is a list, and its entries are the node's or absent.   *)
LEMMA OnlyType ==
  ASSUME NEW l \in [Node -> Member], NEW S
  PROVE  /\ Only(l, S) \in [Node -> Member]
         /\ \A m \in Node : Only(l, S)[m] = l[m] \/ Only(l, S)[m] = Absent
BY MembershipAssumption DEF Only, Absent, Member

(* What a node sends about its own list has the shape that is asked for.   *)
LEMMA DatagramsOK ==
  ASSUME ListsOK, list' \in [Node -> [Node -> Member]],
         NEW n \in Node, NEW l \in [Node -> Member],
         \A m \in Node : l[m] = list'[n][m] \/ l[m] = Absent,
         NEW new, \A d \in new : d \in Message /\ d.list = l,
         msgs' \subseteq msgs \cup new
  PROVE  ListsOK' /\ SentKnown
BY DEF ListsOK, SentKnown

(* The round robin lists hold nodes.                                       *)
RobinOK == roundRobin \in [Node -> SUBSET Node]

(* Neither a new shuffle nor the old list brings in anything else.         *)
LEMMA RobinKept ==
  ASSUME RobinOK, NEW n \in Node, NEW l, RoundRobin(n, l)
  PROVE  RobinOK'
BY DEF RobinOK, RoundRobin, Permutation

(* The same for gossip.                                                    *)
LEMMA GossipOK ==
  ASSUME ListsOK, RobinOK, list' \in [Node -> [Node -> Member]],
         NEW n \in Node, NEW l \in [Node -> Member],
         \A m \in Node : l[m] = list'[n][m] \/ l[m] = Absent,
         Gossip(n, l)
  PROVE  ListsOK' /\ SentKnown /\ RobinOK'
<1> DEFINE T == roundRobin[n] \cup roundRobin'[n]
           new == {Datagram("gossip", n, m, l) : m \in T}
<1>1. CASE UNCHANGED <<msgs, roundRobin>>
  BY <1>1 DEF ListsOK, SentKnown, RobinOK
<1>2. CASE RoundRobin(n, list'[n]) /\ Send(msgs, new)
  <2>1. msgs' \subseteq msgs \cup new
    BY <1>2, SendAdds
  <2>2. RobinOK'
    BY <1>2, RobinKept
  <2>3. T \subseteq Node
    BY <2>2 DEF RobinOK
  <2>4. \A d \in new : d \in Message /\ d.list = l
    BY <2>3 DEF Datagram, Message
  <2> HIDE DEF new
  <2>5. ListsOK' /\ SentKnown
    BY <2>1, <2>4, DatagramsOK
  <2>6. QED BY <2>2, <2>5
<1>3. QED BY <1>1, <1>2 DEF Gossip

(* A step that changes one entry list[n][m], in another node's list by the *)
(* state only, in the own list by growing.                                 *)
LEMMA OneEntry ==
  ASSUME ListsOK, NEW n \in Node, NEW m \in Node, NEW r \in Member,
         list' = [list EXCEPT ![n][m] = r],
         r.inc = list[n][m].inc,
         r.hb >= list[n][m].hb, list[n][m].state # "none",
         n # m => r.hb = list[n][m].hb
  PROVE  /\ list' \in [Node -> [Node -> Member]]
         /\ OthersFollow /\ SelfGrows
<1>1. list \in [Node -> [Node -> Member]]
  BY DEF ListsOK
<1>2. list' \in [Node -> [Node -> Member]]
  BY <1>1
<1>3. \A a, b \in Node : list'[a][b] = IF a = n /\ b = m THEN r ELSE list[a][b]
  BY <1>1
<1>4. \A a, b \in Node : list[a][b] \in Member
  BY <1>1
<1>5. OthersFollow
  BY <1>3, <1>4 DEF OthersFollow, NoNewer
<1>6. SelfGrows
  BY <1>3, <1>4, MembershipAssumption DEF SelfGrows, NoNewer, Member
<1>7. QED BY <1>2, <1>5, <1>6

(* A step that leaves the lists alone.                                     *)
LEMMA SameLists ==
  ASSUME ListsOK, list' = list
  PROVE  OthersFollow /\ SelfGrows /\ list' \in [Node -> [Node -> Member]]
<1>1. \A a, b \in Node : list[a][b] \in Member
  BY DEF ListsOK
<1>2. OthersFollow
  BY DEF OthersFollow
<1>3. SelfGrows
  BY <1>1, MembershipAssumption DEF SelfGrows, NoNewer, Member
<1>4. QED BY <1>2, <1>3 DEF ListsOK

(* The heart beat of a node: one entry, or none when it is not listed.     *)
LEMMA HeartBeatEntry ==
  ASSUME ListsOK, NEW n \in Node, list[n][n].hb < MaxHB, list' = WithHeartBeat(n)
  PROVE  OthersFollow /\ SelfGrows /\ list' \in [Node -> [Node -> Member]]
<1> DEFINE e == list[n][n]
           r == [hb |-> e.hb + 1, inc |-> e.inc, state |-> e.state]
<1>1. e \in Member
  BY DEF ListsOK
<1>2. CASE e.state = "none"
  BY <1>2, SameLists DEF WithHeartBeat
<1>3. CASE e.state # "none"
  <2>1. r \in Member /\ r = [e EXCEPT !.hb = @ + 1]
    BY <1>1, MembershipAssumption DEF Member
  <2>2. list' = [list EXCEPT ![n][n] = r]
    BY <1>3, <2>1 DEF WithHeartBeat, ListsOK
  <2>3. r.inc = e.inc /\ r.hb >= e.hb
    BY <1>1, MembershipAssumption DEF Member
  <2> HIDE DEF r
  <2>4. QED BY <1>3, <2>1, <2>2, <2>3, OneEntry
<1>4. QED BY <1>2, <1>3

-----------------------------------------------------------------------------
(* One lemma per action that changes a list.                               *)

ControlOK ==
  /\ mode \in [Node -> Protocols \X Suspicions]
  /\ ackchan \in [Node -> [Node -> Waiting]]
  /\ status \in [Node -> {"off", "on", "crashed"}]
  /\ RobinOK

(* A received list: UpdateMemberlist and the answer.                       *)
LEMMA HandleShape ==
  ASSUME ListsOK, NEW d \in msgs, HandleMessage(d)
  PROVE  ListsOK' /\ StepShape
<1> DEFINE n == d.dst
           l == d.list
<1>1. n \in Node /\ d.src \in Node /\ l \in [Node -> Member] /\ d \in Message
  BY DEF ListsOK, Message
<1>2. PICK S \in SUBSET Node : list' = [list EXCEPT ![n] = Updated(n, l, S)]
  BY DEF HandleMessage
<1>3. \A a, b \in Node : list[a][b] \in Member /\ l[b] \in Member
  BY <1>1 DEF ListsOK
<1>4. \A a, b \in Node : a # n => list'[a][b] = list[a][b]
  BY <1>1, <1>2 DEF ListsOK
<1>5. list'[n] = Updated(n, l, S)
  BY <1>1, <1>2 DEF ListsOK
<1>6. list'[n][n] = UpdateSelf(list[n][n], l[n])
  BY <1>1, <1>5 DEF Updated
<1>7. ASSUME NEW b \in Node, b # n
      PROVE  \/ list'[n][b] = list[n][b]
             \/ list'[n][b] = UpdateOther(list[n][b], l[b])
  BY <1>5, <1>7 DEF Updated
<1>8. list'[n][n] \in Member /\ NoNewer(list[n][n], list'[n][n])
        /\ list'[n][n].state = list[n][n].state
  BY <1>1, <1>3, <1>6, UpdateSelfNewer DEF HandleMessage
<1>9. \A b \in Node : b # n => list'[n][b] \in Member
  BY <1>1, <1>3, <1>7, UpdateOtherType
<1>10. list' \in [Node -> [Node -> Member]]
  <2>1. list'[n] \in [Node -> Member]
    <3>1. \A b \in Node : Updated(n, l, S)[b] \in Member
      BY <1>5, <1>8, <1>9
    <3>2. QED BY <1>5, <3>1 DEF Updated
  <2>2. QED BY <1>1, <1>2, <1>5, <2>1 DEF ListsOK
<1>11. OthersFollow
  <2> SUFFICES ASSUME NEW a \in Node, NEW b \in Node, a # b, NEW own \in Member,
                      NoNewer(list[a][b], own), \A x \in msgs : NoNewer(x.list[b], own)
               PROVE  NoNewer(list'[a][b], own)
    BY DEF OthersFollow
  <2>1. CASE a # n
    BY <1>4, <2>1
  <2>2. CASE a = n
    <3>1. NoNewer(l[b], own) /\ NoNewer(list[n][b], own)
      BY <2>2
    <3>2. NoNewer(UpdateOther(list[n][b], l[b]), own)
      BY <1>1, <1>3, <3>1, UpdateOtherNoNewer
    <3>3. QED BY <1>7, <2>2, <3>1, <3>2
  <2>3. QED BY <2>1, <2>2
<1>12. SelfGrows
  <2>1. \A m \in Node : NoNewer(list[m][m], list[m][m])
    BY <1>3, MembershipAssumption DEF NoNewer, Member
  <2>2. QED BY <1>4, <1>8, <2>1 DEF SelfGrows
<1>13. \A x \in msgs' : x \in msgs \/ (x \in Message /\ x.list = list'[n])
  <2> DEFINE new == CASE d.type = "ping" -> {Datagram("ack", n, d.src, list'[n])}
                      [] d.type = "join" -> {Datagram("gossip", n, d.src, list'[n])}
                      [] OTHER -> {}
  <2>1. msgs' \subseteq (msgs \ {d}) \cup new
    BY SendAdds DEF HandleMessage
  <2>2. \A x \in new : x \in Message /\ x.list = list'[n]
    BY <1>1, <1>10 DEF Datagram, Message
  <2> HIDE DEF new
  <2>3. QED BY <2>1, <2>2
<1>14. ListsOK' /\ SentKnown
  BY <1>1, <1>10, <1>13 DEF ListsOK, SentKnown
<1>15. QED BY <1>11, <1>12, <1>14 DEF StepShape

(* TimeOutCheck.                                                           *)
LEMMA TimeOutShape ==
  ASSUME ListsOK, RobinOK, NEW n \in Node, NEW E \in SUBSET Node, TimeOutCheck(n, E)
  PROVE  ListsOK' /\ StepShape /\ RobinOK'
<1> DEFINE failed == {m \in E : list'[n][m].state = "Failed" /\ list[n][m].state # "Failed"}
           new(m) == IF m \in E THEN Expire(list[n][m], mode[n]) ELSE list[n][m]
<1>1. \A a, b \in Node : list[a][b] \in Member
  BY DEF ListsOK
<1>2. list' = [list EXCEPT ![n] = [m \in Node |-> new(m)]]
  BY DEF TimeOutCheck
<1>3. \A a, b \in Node : list'[a][b] = IF a = n THEN new(b) ELSE list[a][b]
  BY <1>2 DEF ListsOK
<1>4. \A b \in Node :
        /\ new(b) \in Member
        /\ \A own \in Member : NoNewer(list[n][b], own) => NoNewer(new(b), own)
        /\ new(b).state # "none" => /\ list[n][b].state # "none"
                                    /\ new(b).inc = list[n][b].inc
                                    /\ new(b).hb = list[n][b].hb
  BY <1>1, ExpireNoNewer
<1> HIDE DEF new
<1>5. list' \in [Node -> [Node -> Member]]
  BY <1>2, <1>4 DEF ListsOK
<1>6. OthersFollow
  BY <1>3, <1>4 DEF OthersFollow
<1>7. SelfGrows
  BY <1>1, <1>3, <1>4, MembershipAssumption DEF SelfGrows, NoNewer, Member
<1>8. Gossip(n, Only(list'[n], failed))
  BY DEF TimeOutCheck
<1>9. ListsOK' /\ SentKnown /\ RobinOK'
  BY <1>5, <1>8, OnlyType, GossipOK
<1>10. QED BY <1>6, <1>7, <1>9 DEF StepShape

(* pingMember's verdict after a timeout.                                   *)
LEMMA PingTimeoutShape ==
  ASSUME ListsOK, RobinOK, NEW n \in Node, NEW m \in Node, PingTimeout(n, m)
  PROVE  ListsOK' /\ StepShape /\ RobinOK'
<1> DEFINE new == IF ackchan[n][m] = "suspect" THEN "Suspected" ELSE "Failed"
           e == list[n][m]
           r == [hb |-> e.hb, inc |-> e.inc, state |-> new]
<1>1. e \in Member
  BY DEF ListsOK
<1>2. list' = IF e.state = "Alive" THEN [list EXCEPT ![n][m].state = new] ELSE list
  BY DEF PingTimeout, ChangeState
<1>3. r \in Member /\ r = [e EXCEPT !.state = new] /\ r.inc = e.inc /\ r.hb = e.hb
        /\ r.hb >= e.hb
  BY <1>1, MembershipAssumption DEF Member
<1>4. OthersFollow /\ SelfGrows /\ list' \in [Node -> [Node -> Member]]
  <2>1. CASE e.state # "Alive"
    BY <1>2, <2>1, SameLists
  <2>2. CASE e.state = "Alive"
    <3>1. list' = [list EXCEPT ![n][m] = r]
      BY <1>2, <1>3, <2>2 DEF ListsOK
    <3> HIDE DEF r
    <3>2. QED BY <1>3, <2>2, <3>1, OneEntry
  <2>3. QED BY <2>1, <2>2
<1>5. PICK S : Gossip(n, Only(list'[n], S))
  <2>1. Gossip(n, IF list' = list THEN Only(list'[n], {}) ELSE Only(list'[n], {m}))
    BY DEF PingTimeout
  <2>2. QED BY <2>1
<1>6. ListsOK' /\ SentKnown /\ RobinOK'
  BY <1>4, <1>5, OnlyType, GossipOK
<1>7. QED BY <1>4, <1>6 DEF StepShape

(* Heart beats, also those of a switch to gossip.                          *)
LEMMA HeartBeatShape ==
  ASSUME ListsOK, RobinOK, NEW n \in Node, list[n][n].hb < MaxHB,
         list' = WithHeartBeat(n), Gossip(n, list'[n])
  PROVE  ListsOK' /\ StepShape /\ RobinOK'
<1>1. OthersFollow /\ SelfGrows /\ list' \in [Node -> [Node -> Member]]
  BY HeartBeatEntry
<1>2. list'[n] \in [Node -> Member]
  BY <1>1
<1>3. ListsOK' /\ SentKnown /\ RobinOK'
  BY <1>1, <1>2, GossipOK
<1>4. QED BY <1>1, <1>3 DEF StepShape

(* TurnLeave.                                                              *)
LEMMA LeaveShape ==
  ASSUME ListsOK, NEW n \in Node, Leave(n)
  PROVE  ListsOK' /\ StepShape
<1> DEFINE e == list[n][n]
           r == [hb |-> e.hb, inc |-> e.inc, state |-> "Leave"]
<1>1. e \in Member /\ e.state # "none"
  BY DEF ListsOK, Leave
<1>2. r \in Member /\ r = [e EXCEPT !.state = "Leave"] /\ r.inc = e.inc
        /\ r.hb = e.hb /\ r.hb >= e.hb
  BY <1>1, MembershipAssumption DEF Member
<1>3. list' = [list EXCEPT ![n][n] = r]
  BY <1>2 DEF Leave, ListsOK
<1> HIDE DEF r
<1>4. OthersFollow /\ SelfGrows /\ list' \in [Node -> [Node -> Member]]
  BY <1>1, <1>2, <1>3, OneEntry
<1>5. QED BY <1>4 DEF StepShape, SentKnown, ListsOK, Leave

(* The sends that leave the lists alone.                                   *)
LEMMA SendShape ==
  ASSUME ListsOK, NEW n \in Node, list' = list,
         \/ Send(msgs, {Datagram("join", n, Introducer, Only(list[n], {n}))})
         \/ \E m \in Node : Send(msgs, {Datagram("ping", n, m, list[n])})
  PROVE  ListsOK' /\ StepShape
<1>1. OthersFollow /\ SelfGrows /\ list' \in [Node -> [Node -> Member]]
  BY SameLists
<1>2. list[n] \in [Node -> Member] /\ Only(list[n], {n}) \in [Node -> Member]
        /\ \A m \in Node : Only(list[n], {n})[m] = list'[n][m]
                            \/ Only(list[n], {n})[m] = Absent
  BY OnlyType DEF ListsOK
<1>3. CASE Send(msgs, {Datagram("join", n, Introducer, Only(list[n], {n}))})
  <2> DEFINE new == {Datagram("join", n, Introducer, Only(list[n], {n}))}
  <2>1. msgs' \subseteq msgs \cup new
    BY <1>3, SendAdds
  <2>2. \A d \in new : d \in Message /\ d.list = Only(list[n], {n})
    BY <1>2, MembershipAssumption DEF Datagram, Message
  <2> HIDE DEF new
  <2>3. ListsOK' /\ SentKnown
    BY <1>1, <1>2, <2>1, <2>2, DatagramsOK
  <2>4. QED BY <1>1, <2>3 DEF StepShape
<1>4. ASSUME NEW m \in Node, Send(msgs, {Datagram("ping", n, m, list[n])})
      PROVE  ListsOK' /\ StepShape
  <2> DEFINE new == {Datagram("ping", n, m, list[n])}
  <2>1. msgs' \subseteq msgs \cup new
    BY <1>4, SendAdds
  <2>2. \A d \in new : d \in Message /\ d.list = list[n]
    BY <1>2 DEF Datagram, Message
  <2> HIDE DEF new
  <2>3. ListsOK' /\ SentKnown
    BY <1>1, <1>2, <2>1, <2>2, DatagramsOK
  <2>4. QED BY <1>1, <2>3 DEF StepShape
<1>5. QED BY <1>3, <1>4

-----------------------------------------------------------------------------
(* The invariants.                                                         *)

(* Every step keeps the types and has the shape.                           *)
LEMMA NextShape ==
  ASSUME TypeOK, Next
  PROVE  TypeOK' /\ StepShape
<1>1. ListsOK /\ ControlOK
  BY DEF TypeOK, ListsOK, ControlOK, RobinOK
<1>2. SUFFICES ListsOK' /\ StepShape /\ ControlOK'
  BY DEF TypeOK, ListsOK, ControlOK, RobinOK
<1> USE DEF ControlOK
<1>3. ASSUME NEW n \in Node, Join(n)
      PROVE  ListsOK' /\ StepShape /\ ControlOK'
  BY <1>1, <1>3, SendShape DEF Join, RobinOK
<1>4. ASSUME NEW n \in Node, HeartBeat(n)
      PROVE  ListsOK' /\ StepShape /\ ControlOK'
  BY <1>1, <1>4, HeartBeatShape DEF HeartBeat
<1>5. ASSUME NEW n \in Node, Leave(n)
      PROVE  ListsOK' /\ StepShape /\ ControlOK'
  <2>1. ListsOK' /\ StepShape
    BY <1>1, <1>5, LeaveShape
  <2>2. QED BY <1>1, <1>5, <2>1 DEF Leave, RobinOK
<1>6. ASSUME NEW n \in Node, Crash(n)
      PROVE  ListsOK' /\ StepShape /\ ControlOK'
  <2>1. UNCHANGED <<list, msgs>> /\ ControlOK'
    BY <1>1, <1>6 DEF Crash, RobinOK
  <2>2. QED BY <1>1, <2>1, SameLists DEF ListsOK, StepShape, SentKnown
<1>7. ASSUME NEW n \in Node, NEW m \in Node, Ping(n, m)
      PROVE  ListsOK' /\ StepShape /\ ControlOK'
  <2>1. ListsOK' /\ StepShape
    BY <1>1, <1>7, SendShape DEF Ping
  <2>2. mode[n][2] \in Waiting
    BY <1>1 DEF Waiting
  <2>3. RobinOK'
    BY <1>1, <1>7, RobinKept DEF Ping
  <2>4. ControlOK'
    BY <1>1, <1>7, <2>2, <2>3 DEF Ping
  <2>5. QED BY <2>1, <2>4
<1>8. ASSUME NEW n \in Node, NEW m \in Node, PingTimeout(n, m)
      PROVE  ListsOK' /\ StepShape /\ ControlOK'
  <2>1. ListsOK' /\ StepShape /\ RobinOK'
    BY <1>1, <1>8, PingTimeoutShape
  <2>2. ControlOK'
    BY <1>1, <1>8, <2>1 DEF PingTimeout, Waiting
  <2>3. QED BY <2>1, <2>2
<1>9. ASSUME NEW n \in Node, NEW E \in SUBSET Node, TimeOutCheck(n, E)
      PROVE  ListsOK' /\ StepShape /\ ControlOK'
  <2>1. ListsOK' /\ StepShape /\ RobinOK'
    BY <1>1, <1>9, TimeOutShape
  <2>2. QED BY <1>1, <1>9, <2>1 DEF TimeOutCheck
<1>10. ASSUME NEW n \in Node, NEW md \in Modes, Switch(n, md)
       PROVE  ListsOK' /\ StepShape /\ ControlOK'
  <2>1. ListsOK' /\ StepShape /\ RobinOK'
    <3>1. CASE md[1] = "gossip" /\ list[n][n].hb < MaxHB
               /\ list' = WithHeartBeat(n) /\ Gossip(n, list'[n])
      BY <1>1, <3>1, HeartBeatShape
    <3>2. CASE UNCHANGED <<list, roundRobin, msgs>>
      BY <1>1, <3>2, SameLists DEF ListsOK, StepShape, SentKnown, RobinOK
    <3>3. QED BY <1>10, <3>1, <3>2 DEF Switch
  <2>2. ControlOK'
    BY <1>1, <1>10, <2>1, MembershipAssumption DEF Switch
  <2>3. QED BY <2>1, <2>2
<1>11. ASSUME NEW d \in msgs, HandleMessage(d)
       PROVE  ListsOK' /\ StepShape /\ ControlOK'
  <2>1. ListsOK' /\ StepShape
    BY <1>1, <1>11, HandleShape
  <2> DEFINE a == d.dst
             b == d.src
  <2>2. a \in Node /\ b \in Node
    BY <1>1 DEF ListsOK, Message
  <2>3. UNCHANGED <<mode, roundRobin, status>>
    BY <1>11 DEF HandleMessage
  <2>4. ackchan' = ackchan \/ ackchan' = [ackchan EXCEPT ![a][b] = "none"]
    BY <1>11 DEF HandleMessage
  <2> HIDE DEF a, b
  <2>5. ackchan' \in [Node -> [Node -> Waiting]]
    <3>1. CASE ackchan' = ackchan
      BY <1>1, <3>1
    <3>2. CASE ackchan' = [ackchan EXCEPT ![a][b] = "none"]
      BY <1>1, <2>2, <3>2 DEF Waiting
    <3>3. QED BY <2>4, <3>1, <3>2
  <2>6. QED BY <1>1, <2>1, <2>3, <2>5 DEF RobinOK
<1>12. QED
  BY <1>3, <1>4, <1>5, <1>6, <1>7, <1>8, <1>9, <1>10, <1>11 DEF Next

(* The initial lists, where every node knows only itself.                  *)
LEMMA InitOK == Init => TypeOK /\ OwnerAhead
<1> SUFFICES ASSUME Init PROVE TypeOK /\ OwnerAhead
  OBVIOUS
<1>1. TypeOK
  <2>1. list \in [Node -> [Node -> Member]]
    <3> DEFINE self == [Absent EXCEPT !.state = "Alive"]
    <3>1. Absent \in Member /\ self \in Member
      BY MembershipAssumption DEF Absent, Member
    <3> HIDE DEF self
    <3>2. list = [n \in Node |-> [m \in Node |-> IF m = n THEN self ELSE Absent]]
      BY DEF Init, self
    <3>3. QED BY <3>1, <3>2
  <2>2. roundRobin \in [Node -> SUBSET Node]
    BY DEF Init
  <2>3. QED BY <2>1, <2>2 DEF Init, TypeOK, Protocols, Suspicions, Waiting
<1>2. OwnerAhead
  <2>1. \A n, m \in Node : list[n][m].inc = 0 /\ list[n][m].hb = 0
    BY DEF Init, Absent
  <2>2. msgs = {}
    BY DEF Init
  <2>3. QED BY <2>1, <2>2 DEF OwnerAhead, NoNewer
<1>3. QED BY <1>1, <1>2

(* Member lists, datagrams, modes and waiting pings keep their types.      *)
THEOREM MembershipTyped == Spec => []TypeOK
<1>1. TypeOK /\ [Next]_vars => TypeOK'
  <2> SUFFICES ASSUME TypeOK, [Next]_vars PROVE TypeOK'
    OBVIOUS
  <2>1. CASE Next
    BY <2>1, NextShape
  <2>2. CASE UNCHANGED vars
    BY <2>2 DEF vars, TypeOK
  <2>3. QED BY <2>1, <2>2
<1>2. QED BY <1>1, InitOK, PTL DEF Spec

(* Nobody ever holds, and no datagram ever carries, an incarnation or a    *)
(* heart beat of a node that the node itself has not reached.              *)
THEOREM OwnerIsAhead == Spec => []OwnerAhead
<1>1. TypeOK /\ TypeOK' /\ OwnerAhead /\ [Next]_vars => OwnerAhead'
  <2> SUFFICES ASSUME TypeOK, TypeOK', OwnerAhead, [Next]_vars PROVE OwnerAhead'
    OBVIOUS
  <2>1. CASE Next
    <3>1. ListsOK /\ ListsOK'
      BY DEF TypeOK, ListsOK
    <3>2. QED BY <2>1, <3>1, NextShape, ShapePreserves
  <2>2. CASE UNCHANGED vars
    BY <2>2 DEF vars, OwnerAhead
  <2>3. QED BY <2>1, <2>2
<1>2. QED BY <1>1, InitOK, MembershipTyped, PTL DEF Spec

-----------------------------------------------------------------------------
(* Verdicts.                                                               *)

(* An entry that is not touched stands.                                    *)
LEMMA SameStands ==
  ASSUME NEW c \in Member
  PROVE  Stands(c, c)
BY MembershipAssumption DEF Stands, Member, Rank

(* UpdateMemberlist takes no verdict back.                                 *)
LEMMA UpdateOtherStands ==
  ASSUME NEW c \in Member, NEW x \in Member, c.state # "none"
  PROVE  Stands(c, UpdateOther(c, x))
BY MembershipAssumption DEF UpdateOther, Stands, Member, Rank

(* Neither does an expired timeout.                                        *)
LEMMA ExpireStands ==
  ASSUME NEW r \in Member, NEW md, Expire(r, md).state # "none"
  PROVE  Stands(r, Expire(r, md))
<1>1. \/ Expire(r, md) = r
      \/ r.state = "Alive" /\ Expire(r, md) = [r EXCEPT !.state = "Suspected"]
      \/ Expire(r, md) = [r EXCEPT !.state = "Failed"]
  BY DEF Expire, Absent
<1>2. QED BY <1>1, SameStands, MembershipAssumption DEF Stands, Rank, Member

(* A step that changes no other node's entry, except perhaps an Alive one. *)
LEMMA UntouchedStands ==
  ASSUME ListsOK, ListsOK',
         \A n, m \in Node : n # m =>
           \/ list'[n][m] = list[n][m]
           \/ list[n][m].state = "Alive" /\ list'[n][m].inc = list[n][m].inc
  PROVE  VerdictStep
<1>1. \A n, m \in Node : list[n][m] \in Member /\ list'[n][m] \in Member
  BY DEF ListsOK
<1>2. QED BY <1>1, SameStands, MembershipAssumption DEF VerdictStep, Stands, Rank, Member

(* One step per action that touches an entry of another node.              *)
LEMMA NextVerdict ==
  ASSUME TypeOK, TypeOK', Next
  PROVE  VerdictStep
<1>1. ListsOK /\ ListsOK'
  BY DEF TypeOK, ListsOK
<1>2. \A n, m \in Node : list[n][m] \in Member
  BY <1>1 DEF ListsOK
<1>3. ASSUME NEW n \in Node,
             \/ Join(n) \/ HeartBeat(n) \/ Leave(n) \/ Crash(n)
             \/ (\E m \in Node : Ping(n, m)) \/ (\E md \in Modes : Switch(n, md))
      PROVE  VerdictStep
  <2>1. \/ list' = list
        \/ list' = [list EXCEPT ![n][n].hb = @ + 1]
        \/ list' = [list EXCEPT ![n][n].state = "Leave"]
    BY <1>3 DEF Join, HeartBeat, Leave, Crash, Ping, Switch, WithHeartBeat
  <2>2. \A a, b \in Node : a # b => list'[a][b] = list[a][b]
    BY <1>1, <2>1 DEF ListsOK
  <2>3. QED BY <1>1, <2>2, UntouchedStands
<1>4. ASSUME NEW n \in Node, NEW m \in Node, PingTimeout(n, m)
      PROVE  VerdictStep
  <2> DEFINE new == IF ackchan[n][m] = "suspect" THEN "Suspected" ELSE "Failed"
  <2>1. \/ list' = list
        \/ list[n][m].state = "Alive" /\ list' = [list EXCEPT ![n][m].state = new]
    BY <1>4 DEF PingTimeout, ChangeState
  <2> HIDE DEF new
  <2>2. \A a, b \in Node : a # b =>
           \/ list'[a][b] = list[a][b]
           \/ list[a][b].state = "Alive" /\ list'[a][b].inc = list[a][b].inc
    <3> DEFINE e == list[n][m]
               r == [e EXCEPT !.state = new]
    <3>1. r.inc = e.inc
      BY <1>2 DEF Member
    <3>2. \/ list' = list
          \/ e.state = "Alive" /\ list' = [list EXCEPT ![n][m] = r]
      BY <2>1
    <3> HIDE DEF r
    <3>3. QED BY <1>1, <3>1, <3>2 DEF ListsOK
  <2>3. QED BY <1>1, <2>2, UntouchedStands
<1>5. ASSUME NEW n \in Node, NEW E \in SUBSET Node, TimeOutCheck(n, E)
      PROVE  VerdictStep
  <2>1. \A a, b \in Node : \/ list'[a][b] = list[a][b]
                            \/ list'[a][b] = Expire(list[a][b], mode[a])
    BY <1>1, <1>5 DEF TimeOutCheck, ListsOK
  <2>2. QED BY <1>2, <2>1, SameStands, ExpireStands DEF VerdictStep
<1>6. ASSUME NEW d \in msgs, HandleMessage(d)
      PROVE  VerdictStep
  <2> DEFINE n == d.dst
             l == d.list
  <2>1. n \in Node /\ l \in [Node -> Member]
    BY <1>1 DEF ListsOK, Message
  <2>2. PICK S \in SUBSET Node : list' = [list EXCEPT ![n] = Updated(n, l, S)]
    BY <1>6 DEF HandleMessage
  <2>3. \A a, b \in Node : a # b => \/ list'[a][b] = list[a][b]
                                     \/ list'[a][b] = UpdateOther(list[a][b], l[b])
    <3>1. \A a, b \in Node : a # n => list'[a][b] = list[a][b]
      BY <1>1, <2>1, <2>2 DEF ListsOK
    <3>2. list'[n] = Updated(n, l, S)
      BY <1>1, <2>1, <2>2 DEF ListsOK
    <3>3. \A b \in Node : b # n => \/ Updated(n, l, S)[b] = list[n][b]
                                   \/ Updated(n, l, S)[b] = UpdateOther(list[n][b], l[b])
      BY DEF Updated
    <3>4. QED BY <3>1, <3>2, <3>3
  <2>4. QED BY <1>2, <2>1, <2>3, SameStands, UpdateOtherStands DEF VerdictStep
<1>7. QED BY <1>3, <1>4, <1>5, <1>6 DEF Next

(* No message and no timeout makes a node take back a suspicion, a failure *)
(* or a departure that it holds against a listed member, unless the member *)
(* shows a higher incarnation.                                             *)
THEOREM VerdictsAreFinal == Spec => VerdictsStand
<1>1. TypeOK /\ TypeOK' /\ [Next]_vars => [VerdictStep]_vars
  BY NextVerdict
<1>2. QED BY <1>1, MembershipTyped, PTL DEF Spec, VerdictsStand

-----------------------------------------------------------------------------
(* No self-doubt in ping mode.  Inductive together with: no one pings      *)
(* itself, because permutation leaves the node out of its own round.       *)

PingModes == \A md \in Modes : md[1] = "ping"

SelfInv ==
  /\ SelfAlive
  /\ \A n \in Node : mode[n][1] = "ping"
  /\ \A n \in Node : n \notin roundRobin[n]
  /\ \A n \in Node : ackchan[n][n] = "none"

(* A round never contains the node itself.                                 *)
LEMMA RobinWithoutSelf ==
  ASSUME TypeOK, SelfInv, NEW n \in Node, NEW l, RoundRobin(n, l)
  PROVE  \A a \in Node : a \notin roundRobin'[a]
BY DEF RoundRobin, Permutation, TypeOK, SelfInv

(* A gossip round that refills the round-robin list leaves the node itself *)
(* out.                                                                    *)
LEMMA GossipWithoutSelf ==
  ASSUME TypeOK, SelfInv, NEW n \in Node, NEW l, Gossip(n, l)
  PROVE  \A a \in Node : a \notin roundRobin'[a]
<1>1. CASE UNCHANGED roundRobin
  BY <1>1 DEF SelfInv
<1>2. CASE RoundRobin(n, list'[n])
  BY <1>2, RobinWithoutSelf
<1>3. QED BY <1>1, <1>2 DEF Gossip

(* A step that leaves the own entries' states and the modes alone, and     *)
(* lets no one ping itself, preserves the invariant.                       *)
LEMMA SelfKept ==
  ASSUME SelfInv,
         \A n \in Node : list'[n][n].state \in {list[n][n].state, "Leave"},
         \A n \in Node : mode'[n][1] = "ping",
         \A n \in Node : n \notin roundRobin'[n],
         \A n \in Node : ackchan'[n][n] = "none"
  PROVE  SelfInv'
BY DEF SelfInv, SelfAlive

(* Every step keeps SelfInv.                                               *)
LEMMA NextSelf ==
  ASSUME PingModes, TypeOK, SelfInv, [Next]_vars
  PROVE  SelfInv'
<1>1. CASE UNCHANGED vars
  BY <1>1 DEF vars, SelfInv, SelfAlive
<1>2. ASSUME NEW n \in Node, Join(n) \/ Crash(n) \/ Leave(n)
      PROVE  SelfInv'
  <2>1. UNCHANGED <<mode, roundRobin, ackchan>>
    BY <1>2 DEF Join, Crash, Leave
  <2>2. \A a \in Node : list'[a][a].state \in {list[a][a].state, "Leave"}
    <3>1. CASE UNCHANGED list
      BY <3>1
    <3>2. CASE list' = [list EXCEPT ![n][n].state = "Leave"]
      <4> DEFINE r == [list[n][n] EXCEPT !.state = "Leave"]
      <4>1. r.state = "Leave"
        BY DEF TypeOK, Member
      <4>2. list' = [list EXCEPT ![n][n] = r]
        BY <3>2
      <4> HIDE DEF r
      <4>3. QED BY <4>1, <4>2 DEF TypeOK
    <3>3. QED BY <1>2, <3>1, <3>2 DEF Join, Crash, Leave
  <2>3. QED BY <2>1, <2>2, SelfKept DEF SelfInv
<1>3. ASSUME NEW n \in Node, HeartBeat(n)
      PROVE  SelfInv'
  BY <1>3 DEF HeartBeat, SelfInv
<1>4. ASSUME NEW n \in Node, NEW m \in Node, Ping(n, m)
      PROVE  SelfInv'
  <2>1. \A a \in Node : a \notin roundRobin'[a]
    BY <1>4, RobinWithoutSelf DEF Ping
  <2>2. m # n
    BY <1>4, <2>1 DEF Ping
  <2>3. ackchan' = [ackchan EXCEPT ![n][m] = mode[n][2]] /\ UNCHANGED <<list, mode>>
    BY <1>4 DEF Ping
  <2>4. \A a \in Node : ackchan'[a][a] = "none"
    BY <2>2, <2>3 DEF SelfInv, TypeOK
  <2>5. QED BY <2>1, <2>3, <2>4, SelfKept DEF SelfInv
<1>5. ASSUME NEW n \in Node, NEW m \in Node, PingTimeout(n, m)
      PROVE  SelfInv'
  <2>1. m # n
    BY <1>5 DEF PingTimeout, SelfInv, Suspicions
  <2>2. \A a \in Node : a \notin roundRobin'[a]
    BY <1>5, GossipWithoutSelf DEF PingTimeout
  <2>3. \A a \in Node : list'[a][a] = list[a][a]
    <3> DEFINE new == IF ackchan[n][m] = "suspect" THEN "Suspected" ELSE "Failed"
    <3>1. list' = list \/ list' = [list EXCEPT ![n][m].state = new]
      BY <1>5 DEF PingTimeout, ChangeState
    <3> HIDE DEF new
    <3> DEFINE r == [list[n][m] EXCEPT !.state = new]
    <3>2. list' = list \/ list' = [list EXCEPT ![n][m] = r]
      BY <3>1
    <3> HIDE DEF r
    <3>3. \A a \in Node : a # n => list'[a] = list[a]
      BY <3>2 DEF TypeOK
    <3>4. list'[n][n] = list[n][n]
      BY <2>1, <3>2 DEF TypeOK
    <3>5. QED BY <3>3, <3>4
  <2>4. UNCHANGED mode /\ ackchan' = [ackchan EXCEPT ![n][m] = "none"]
    BY <1>5 DEF PingTimeout
  <2>5. \A a \in Node : ackchan'[a][a] = "none"
    BY <2>4 DEF SelfInv, TypeOK
  <2>6. QED BY <2>2, <2>3, <2>4, <2>5, SelfKept DEF SelfInv
<1>6. ASSUME NEW n \in Node, NEW E \in SUBSET Node, TimeOutCheck(n, E)
      PROVE  SelfInv'
  <2>1. \A a \in Node : a \notin roundRobin'[a]
    BY <1>6, GossipWithoutSelf DEF TimeOutCheck
  <2>2. \A a \in Node : Expire(list[a][a], mode[a]) = list[a][a]
    BY DEF Expire, SelfInv, SelfAlive
  <2>3. \A a \in Node : list'[a][a] = list[a][a]
    BY <1>6, <2>2 DEF TimeOutCheck, TypeOK
  <2>4. UNCHANGED <<mode, ackchan>>
    BY <1>6 DEF TimeOutCheck
  <2>5. QED BY <2>1, <2>3, <2>4, SelfKept DEF SelfInv
<1>7. ASSUME NEW n \in Node, NEW md \in Modes, Switch(n, md)
      PROVE  SelfInv'
  <2>1. md[1] = "ping" /\ md[1] # "gossip"
    BY DEF PingModes
  <2>2. mode' = [mode EXCEPT ![n] = md] /\ UNCHANGED <<list, roundRobin, ackchan>>
    BY <1>7, <2>1 DEF Switch
  <2>3. \A a \in Node : mode'[a][1] = "ping"
    BY <2>1, <2>2 DEF SelfInv, TypeOK
  <2>4. QED BY <2>2, <2>3, SelfKept DEF SelfInv
<1>8. ASSUME NEW d \in msgs, HandleMessage(d)
      PROVE  SelfInv'
  <2> DEFINE n == d.dst
  <2>1. n \in Node /\ d.src \in Node /\ d.list \in [Node -> Member]
    BY DEF TypeOK, Message
  <2>2. PICK S \in SUBSET Node : list' = [list EXCEPT ![n] = Updated(n, d.list, S)]
    BY <1>8 DEF HandleMessage
  <2>3. UpdateSelf(list[n][n], d.list[n]).state = list[n][n].state
    BY <2>1, UpdateSelfNewer DEF TypeOK
  <2>4. \A a \in Node : list'[a][a].state = list[a][a].state
    <3>1. list'[n][n] = UpdateSelf(list[n][n], d.list[n])
      BY <2>1, <2>2 DEF Updated, TypeOK
    <3>2. \A a \in Node : a # n => list'[a] = list[a]
      BY <2>1, <2>2 DEF TypeOK
    <3>3. QED BY <2>3, <3>1, <3>2
  <2>5. \A a \in Node : ackchan'[a][a] = "none"
    <3>1. UNCHANGED ackchan \/ ackchan' = [ackchan EXCEPT ![n][d.src] = "none"]
      BY <1>8 DEF HandleMessage
    <3>2. ASSUME NEW a \in Node, NEW b \in Node,
                 ackchan' = [ackchan EXCEPT ![a][b] = "none"]
          PROVE  \A c \in Node : ackchan'[c][c] = "none"
      BY <3>2 DEF SelfInv, TypeOK
    <3>3. UNCHANGED ackchan => \A c \in Node : ackchan'[c][c] = "none"
      BY DEF SelfInv
    <3> HIDE DEF n
    <3>4. QED BY <2>1, <3>1, <3>2, <3>3
  <2>6. UNCHANGED <<mode, roundRobin>>
    BY <1>8 DEF HandleMessage
  <2>7. QED BY <2>4, <2>5, <2>6, SelfKept DEF SelfInv
<1>9. QED BY <1>1, <1>2, <1>3, <1>4, <1>5, <1>6, <1>7, <1>8 DEF Next

(* SelfInv holds initially.                                                *)
LEMMA InitSelf == Init => SelfInv
<1> SUFFICES ASSUME Init PROVE SelfInv
  OBVIOUS
<1>1. \A n \in Node : list[n][n].state = "Alive"
  BY DEF Init, Absent
<1>2. QED BY <1>1 DEF Init, SelfInv, SelfAlive

(* As long as only ping modes are switched to, no rumour, verdict or       *)
(* timeout makes a node doubt itself: its own entry says Alive, or Leave   *)
(* after its user's command.                                               *)
THEOREM NoSelfDoubt ==
  ASSUME PingModes
  PROVE  Spec => []SelfAlive
<1>1. Init => SelfInv
  BY InitSelf
<1>2. TypeOK /\ SelfInv /\ [Next]_vars => SelfInv'
  BY PingModes, NextSelf
<1>3. SelfInv => SelfAlive
  BY DEF SelfInv
<1>4. QED BY <1>1, <1>2, <1>3, MembershipTyped, PTL DEF Spec
=============================================================================
