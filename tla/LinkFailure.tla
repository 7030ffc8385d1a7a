----------------------------- MODULE LinkFailure -----------------------------
(***************************************************************************)
(* Simulated failures of links and nodes (RoutingConfigurator.cc,          *)
(* RoutingBase.cc, Vrr.cc, Vlr.cc), over the interfaces of L2Queue.        *)
(*                                                                         *)
(* The configurator assigns each line of a failure file to one end of the  *)
(* link.  That node stops taking messages from the other end, and answers  *)
(* a unicast message with NotifyLinkFailure(down); the other end then stops *)
(* sending.  NotifyLinkFailure(up) ends both.                              *)
(*                                                                         *)
(* A gate of a node is named by the neighbour behind it.  Times of the     *)
(* failure file are the numbers of its batches; they are seconds apart, so *)
(* that all messages have arrived between them.                            *)
(***************************************************************************)
EXTENDS L2Queue, FiniteSets, FiniteSetsExt, SequencesExt, Functions

CONSTANTS Nodes,
          Files,    \* the failure files to start from, see IsFile
          MaxData   \* how many unicast messages the nodes send

Nbrs(n) == {m \in Nodes : <<n, m>> \in Lines}

(* A failure file: batches of an operation and either links, as pairs in the *)
(* order of the file, or nodes.                                             *)
IsFile(file) == \A i \in DOMAIN file :
  /\ file[i].op \in {"stop", "start"}
  /\ Range(file[i].links) \subseteq Lines /\ Range(file[i].nodes) \subseteq Nodes
  /\ file[i].links = <<>> \/ \A j \in DOMAIN file : file[j].nodes = <<>>

ASSUME FailureAssumption ==
  /\ Lines \subseteq Nodes \X Nodes /\ \A l \in Lines : l[1] # l[2] /\ <<l[2], l[1]>> \in Lines
  /\ \A file \in Files : IsFile(file)
  /\ MaxData \in Nat

VARIABLES
  file,    \* the failure file
  plan,    \* failureSimulationMap
  clock,   \* the number of the last batch whose time has come
  due,     \* of each node: which entry of its plan failureSimulationTimer waits for
  node,    \* of each node: its records of failures and its psetTable
  sent     \* unicast messages sent

vars == <<l2, file, plan, clock, due, node, sent>>

-----------------------------------------------------------------------------
(* RoutingConfigurator::initializeFailureSimulationMap                     *)
Entry(t, op, pneis) == [time |-> t, op |-> op, pneis |-> pneis]

\* add pnei m to the entry of node n for time t
AddPnei(map, n, t, op, m) ==
  [map EXCEPT ![n] = IF Last(@).time < t THEN Append(@, Entry(t, op, {m}))
                     ELSE [@ EXCEPT ![Len(@)].pneis = @ \cup {m}]]

\* one line of a link failure file: the end that has entries already takes it
AddLink(map, t, op, l) ==
  IF l[1] \in DOMAIN map THEN AddPnei(map, l[1], t, op, l[2])
  ELSE IF l[2] \in DOMAIN map THEN AddPnei(map, l[2], t, op, l[1])
  ELSE (l[1] :> <<Entry(t, op, {l[2]})>>) @@ map

\* ... and of a node failure file
AddNode(map, t, op, n) ==
  IF n \in DOMAIN map THEN [map EXCEPT ![n] = Append(@, Entry(t, op, {}))]
  ELSE (n :> <<Entry(t, op, {})>>) @@ map

AddBatch(map, t, batch) ==
  FoldLeft(LAMBDA mp, n : AddNode(mp, t, batch.op, n),
           FoldLeft(LAMBDA mp, l : AddLink(mp, t, batch.op, l), map, batch.links),
           batch.nodes)

FailureSimulationMap(fl) ==
  FoldLeft(LAMBDA mp, t : AddBatch(mp, t, fl[t]), <<>>, [i \in DOMAIN fl |-> i])

PlanOf(n) == IF n \in DOMAIN plan THEN plan[n] ELSE <<>>

-----------------------------------------------------------------------------
(* The records of a node.                                                  *)
NodeInit ==
  [stopped |-> FALSE,  \* selfNodeFailure
   gates   |-> {},     \* failureSimulationPneiGates
   vids    |-> {},     \* failureSimulationPneiVidMap, pnei -> gate
   unadded |-> {},     \* failureSimulationUnaddedPneiVids
   failed  |-> {},     \* failureGateToPacketMap: gates with a FailedPacketDelayTimer
   pset    |-> {},     \* the pneis in psetTable
   linked  |-> {}]     \* those that are LINKED

Init ==
  /\ InitQueues
  /\ file \in Files
  /\ plan  = FailureSimulationMap(file)
  /\ clock = 0
  /\ due   = [n \in Nodes |-> 1]
  /\ node  = [n \in Nodes |-> NodeInit]
  /\ sent  = 0

Beacon(lists) == [type |-> "Beacon", lists |-> lists]
Unicast       == [type |-> "Unicast"]
NotifyLinkFailure(linkUp) == [type |-> "NotifyLinkFailure", simLinkUp |-> linkUp]

\* mutant: only a pnei whose gate is known is failed
FailKnown(s, ms, gateKnown) ==
  LET known == {m \in ms \ s.vids : m \in s.pset \/ gateKnown}
  IN  [s EXCEPT !.gates = @ \cup known, !.vids = @ \cup known]

\* handleFailureLinkSimulation: a pnei whose gate is not known is noted until
\* it sends something
FailLinks(s, ms, gateKnown) ==
  LET new   == ms \ s.vids
      known == {m \in new : m \in s.pset \/ gateKnown}
  IN  [s EXCEPT !.gates = @ \cup known, !.vids = @ \cup known,
                !.unadded = (@ \cup new) \ known]

\* processNotifyLinkFailure
NotifiedDown(s, m) ==
  IF m \in s.vids THEN s
  ELSE [s EXCEPT !.gates = @ \cup {m}, !.vids = @ \cup {m}, !.unadded = @ \ {m}]

\* mutant: the gate stays failed
NotifiedUpVids(s, m) == [s EXCEPT !.vids = @ \ {m}, !.unadded = @ \ {m}]

NotifiedUp(s, m) == [s EXCEPT !.gates = @ \ {m}, !.vids = @ \ {m}, !.unadded = @ \ {m}]

\* mutant: a pnei noted without a gate stays noted
RestartKnown(s, ms) == [s EXCEPT !.gates = @ \ ms, !.vids = @ \ ms]

\* handleFailureLinkRestart; those in vids are notified
RestartLinks(s, ms) ==
  [s EXCEPT !.gates = @ \ ms, !.vids = @ \ ms, !.unadded = @ \ (ms \ s.vids)]

\* handleStopOperation, clearState: the records of failures stay
StopOperation(s) == [s EXCEPT !.stopped = TRUE, !.pset = {}, !.linked = {}]

\* processBeacon, for what the other end must know of me
HearBeacon(s, m, lists) ==
  [s EXCEPT !.pset = @ \cup {m}, !.linked = IF lists THEN @ \cup {m} ELSE @ \ {m}]

\* processFailedPacket: a LINKED pnei is lost
LoseFailed(s, m) ==
  [s EXCEPT !.failed = @ \ {m},
            !.pset = IF m \in s.linked THEN @ \ {m} ELSE @, !.linked = @ \ {m}]

-----------------------------------------------------------------------------
(* Actions.                                                                *)

\* the queues q after node n has sent x(m) to each m in ms
Send(q, n, ms, x(_)) ==
  [l \in Lines |-> IF l[1] = n /\ l[2] \in ms THEN Put(q[l], x(l[2])) ELSE q[l]]

Taken(l) == [l2 EXCEPT ![l] = PassUp(@)]

Becomes(n, s) == node' = [node EXCEPT ![n] = s]

EndTx(l) == EndTransmission(l) /\ UNCHANGED <<file, plan, clock, due, node, sent>>

\* processBeaconTimer; a line carries one beacon at a time here
SendBeacon(n) ==
  /\ ~node[n].stopped
  /\ \A m \in Nbrs(n) : \A x \in Range(AsFifo(l2[<<n, m>>]).flow) : x.type # "Beacon"
  /\ l2' = Send(l2, n, Nbrs(n) \ node[n].gates, LAMBDA m : Beacon(m \in node[n].pset))
  /\ UNCHANGED <<file, plan, clock, due, node, sent>>

\* any handler that sends a unicast message (sendCreatedPacket): into a failed
\* gate, the first one is kept for an event of its own and later ones are deleted
SendUnicast(n, m) ==
  /\ ~node[n].stopped /\ m \in node[n].linked /\ sent < MaxData
  /\ sent' = sent + 1
  /\ IF m \in node[n].gates
     THEN Becomes(n, [node[n] EXCEPT !.failed = @ \cup {m}]) /\ UNCHANGED l2
     ELSE l2' = Send(l2, n, {m}, LAMBDA x : Unicast) /\ UNCHANGED node
  /\ UNCHANGED <<file, plan, clock, due>>

\* processFailedPacketDelayTimer
FailedPacketDelayTimer(n, m) ==
  /\ m \in node[n].failed
  /\ Becomes(n, LoseFailed(node[n], m))
  /\ UNCHANGED <<l2, file, plan, clock, due, sent>>

\* a pnei noted without a gate is failed by its first message
Noticed(s, m, msg) ==
  IF msg.type # "NotifyLinkFailure" /\ m \in s.unadded THEN FailLinks(s, {m}, TRUE) ELSE s

Refuses(s, m) == s.stopped \/ m \in s.gates

\* processMessage
ProcessMessage(n, m) ==
  /\ Arriving(l2[<<m, n>>])
  /\ LET msg == Head(l2[<<m, n>>].wire)
         s   == Noticed(node[n], m, msg)
     IN  \/ /\ msg.type = "NotifyLinkFailure"
            /\ Becomes(n, IF msg.simLinkUp THEN NotifiedUp(s, m) ELSE NotifiedDown(s, m))
            /\ l2' = Taken(<<m, n>>)
         \/ /\ msg.type = "Unicast"
            /\ Becomes(n, s)
            /\ l2' = IF Refuses(s, m)
                     THEN Send(Taken(<<m, n>>), n, {m}, LAMBDA x : NotifyLinkFailure(FALSE))
                     ELSE Taken(<<m, n>>)
         \/ /\ msg.type = "Beacon"
            /\ Becomes(n, IF Refuses(s, m) THEN s ELSE HearBeacon(s, m, msg.lists))
            /\ l2' = Taken(<<m, n>>)
  /\ UNCHANGED <<file, plan, clock, due, sent>>

\* purgeNeighbors: the beacons of m do not reach n for neighborValidityInterval
Purge(n, m) ==
  /\ m \in node[n].pset
  /\ node[m].stopped \/ Refuses(node[n], m) \/ n \in node[m].gates
  /\ Becomes(n, [node[n] EXCEPT !.pset = @ \ {m}, !.linked = @ \ {m}])
  /\ UNCHANGED <<l2, file, plan, clock, due, sent>>

\* the entry of n's plan whose time has come
DueNow(n) == due[n] <= Len(PlanOf(n)) /\ PlanOf(n)[due[n]].time <= clock

\* processFailureSimulationTimer: carry out the last entry whose time has come
FailureSimulationTimer(n) ==
  /\ DueNow(n)
  /\ LET i == Max({j \in DOMAIN PlanOf(n) : PlanOf(n)[j].time <= clock})
         e == PlanOf(n)[i]
         s == node[n]
     IN  /\ due' = [due EXCEPT ![n] = i + 1]
         /\ \/ /\ e.op = "stop"
               /\ Becomes(n, IF e.pneis = {} THEN StopOperation(s) ELSE FailLinks(s, e.pneis, FALSE))
               /\ UNCHANGED l2
            \/ /\ e.op = "start"
               /\ Becomes(n, IF e.pneis = {} THEN [s EXCEPT !.stopped = FALSE] ELSE RestartLinks(s, e.pneis))
               /\ l2' = Send(l2, n, IF e.pneis = {} THEN Nbrs(n) ELSE e.pneis \cap s.vids,
                             LAMBDA m : NotifyLinkFailure(TRUE))
  /\ UNCHANGED <<file, plan, clock, sent>>

\* no message is on its way and no failure operation or failed packet waits
Settled ==
  /\ \A l \in Lines : l2[l].wire = <<>> /\ l2[l].queue = <<>>
  /\ \A n \in Nodes : ~DueNow(n) /\ node[n].failed = {}

\* seconds pass, until the next batch of the file
Wait ==
  /\ Settled /\ clock < Len(file)
  /\ clock' = clock + 1
  /\ UNCHANGED <<l2, file, plan, due, node, sent>>

Next ==
  \/ \E l \in Lines : EndTx(l)
  \/ \E n \in Nodes : SendBeacon(n)
  \/ \E l \in Lines : SendUnicast(l[1], l[2])
  \/ \E l \in Lines : FailedPacketDelayTimer(l[1], l[2])
  \/ \E l \in Lines : ProcessMessage(l[2], l[1])
  \/ \E l \in Lines : Purge(l[1], l[2])
  \/ \E n \in Nodes : FailureSimulationTimer(n)
  \/ Wait

Spec == Init /\ [][Next]_vars

\* Beacons are sent for ever, messages arrive, timers fire, and so does the
\* simulation clock, in whatever pause there is between messages.
Fairness ==
  /\ \A l \in Lines : /\ WF_vars(EndTx(l))
                      /\ WF_vars(ProcessMessage(l[2], l[1]))
                      /\ WF_vars(FailedPacketDelayTimer(l[1], l[2]))
                      /\ WF_vars(Purge(l[1], l[2]))
  /\ \A n \in Nodes : WF_vars(SendBeacon(n)) /\ WF_vars(FailureSimulationTimer(n))
  /\ SF_vars(Wait)

FairSpec == Spec /\ Fairness

-----------------------------------------------------------------------------
(* Properties.                                                             *)

\* has the failure file stopped the link, or an end of it, and not started it again?
StoppedInFile(l) ==
  LET Stopped(is) == is # {} /\ file[Max(is)].op = "stop"
      Lists(n) == {i \in 1 .. clock : n \in Range(file[i].nodes)}
  IN  \/ Stopped({i \in 1 .. clock : {l, <<l[2], l[1]>>} \cap Range(file[i].links) # {}})
      \/ Stopped(Lists(l[1])) \/ Stopped(Lists(l[2]))

\* When all messages of an operation have arrived, a node refuses the messages
\* of a pnei only if the failure file has stopped the link or one of the nodes: no
\* NotifyLinkFailure(down) outlives the restart (Vlr.cc: "send
\* NotifyLinkFailure(linkUp) to affected pneis to remove my vid").
OnlyStoppedRefused ==
  Settled => \A l \in Lines : LET s == node[l[1]] IN
    l[2] \in s.gates \cup s.vids \cup s.unadded => StoppedInFile(l)

\* the entries of its plan that n has carried out and that are about m
Carried(n, m) == {i \in 1 .. due[n] - 1 : PlanOf(n)[i].pneis = {} \/ m \in PlanOf(n)[i].pneis}
CutAt(n, m)   == Carried(n, m) # {} /\ PlanOf(n)[Max(Carried(n, m))].op = "stop"

\* Once a node has carried out the failure of a link it takes nothing from that
\* pnei, which it may not even have known, until the restart
\* (RoutingConfigurator.h: "node1 stops processing messages from node2").
CutLinksSilent ==
  [][\A l \in Lines : CutAt(l[1], l[2]) /\ CutAt(l[1], l[2])' =>
        node'[l[1]].pset \cap {l[2]} \subseteq node[l[1]].pset]_vars

\* The ends of every link that the file leaves working become and stay LINKED.
AllLinked   == \A l \in Lines : StoppedInFile(l) \/ l[2] \in node[l[1]].linked
LinksRecover == <>[]AllLinked
=============================================================================
