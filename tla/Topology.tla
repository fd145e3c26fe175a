------------------------------- MODULE Topology -------------------------------
(***************************************************************************)
(* What the operator computes about one shard of a cluster, as functions   *)
(* of what it has read.                                                    *)
(*                                                                         *)
(*  - nodes is the shard's h.stsNodes: a sequence of records with the pod's*)
(*    ip, its ordinal idx, and id, role, master and failover;              *)
(*  - topo is the shard's Status.Topo: a sequence of records with ip, id,  *)
(*    role, master and failover;                                           *)
(*  - roles is what kvrocks-controller knows: the role of each of its nodes*)
(*                                                                         *)
(* Node ids are assigned by kvrocks-controller when a node is added; an ip *)
(* is never reused, so the ip under which a node was added stands for its  *)
(* id, and 0 for the empty id.  Positions count from 1.                    *)
(***************************************************************************)
EXTENDS Naturals, Sequences

\* The ips kvrocks-controller has as masters.
MastersIn(roles) == {ip \in DOMAIN roles : roles[ip] = "master"}

-----------------------------------------------------------------------------
(* Reading and writing Status.Topo *)

NewNode(ip, idx) == [ip |-> ip, idx |-> idx, id |-> 0, role |-> "none",
                     master |-> 0, failover |-> FALSE]

\* Mutant: the failover mark is not copied.
FixNodesWithoutMark(nodes, topo) ==
  [j \in 1..Len(nodes) |->
     IF j > Len(topo) THEN nodes[j]
     ELSE [nodes[j] EXCEPT !.id = topo[j].id, !.role = topo[j].role,
                           !.master = topo[j].master]]

\* Mutant: what is copied is the next position's.
FixNodesOffByOne(nodes, topo) ==
  [j \in 1..Len(nodes) |->
     IF j >= Len(topo) THEN nodes[j]
     ELSE [nodes[j] EXCEPT !.id = topo[j + 1].id, !.role = topo[j + 1].role,
                           !.master = topo[j + 1].master,
                           !.failover = topo[j + 1].failover]]

\* The end of ensureKubernetes: copy what the status says, position by position.
FixNodes(nodes, topo) ==
  [j \in 1..Len(nodes) |->
     IF j > Len(topo) THEN nodes[j]
     ELSE [nodes[j] EXCEPT !.id = topo[j].id, !.role = topo[j].role,
                           !.master = topo[j].master,
                           !.failover = topo[j].failover]]

\* The topology ensureStatusTopoMsg builds; it does not carry the failover mark.
TopoOf(nodes) ==
  [j \in 1..Len(nodes) |->
     [ip |-> nodes[j].ip, id |-> nodes[j].id, role |-> nodes[j].role,
      master |-> nodes[j].master, failover |-> FALSE]]

\* Mutant: a change of roles does not count.
MovedSince(topo, nodes) ==
  \/ Len(topo) # Len(nodes)
  \/ \E j \in 1..Len(topo) : topo[j].ip # nodes[j].ip

\* ensureVersion, for one shard: an ip or a role is not as it was published.
ChangedSince(topo, nodes) ==
  \/ Len(topo) # Len(nodes)
  \/ \E j \in 1..Len(topo) : \/ topo[j].ip # nodes[j].ip
                             \/ topo[j].role # nodes[j].role

-----------------------------------------------------------------------------
(* Roles *)

\* initCluster: the first node of a shard is its master.
InitRoles(nodes) ==
  [j \in 1..Len(nodes) |->
     [nodes[j] EXCEPT !.role = IF j = 1 THEN "master" ELSE "slave"]]

\* ensureReplication: the first master recorded in the status stays, if its id is
\* known, and every other node that does not follow it becomes its slave.
Replicated(nodes) ==
  LET known == {j \in 1..Len(nodes) : /\ nodes[j].role = "master" /\ nodes[j].id # 0
                                      /\ \A k \in 1..j - 1 : nodes[k].role # "master"}
      id == IF known # {} THEN nodes[CHOOSE j \in known : TRUE].id ELSE nodes[1].id
      fixed == IF known # {} THEN nodes ELSE [nodes EXCEPT ![1].role = "master"]
  IN [j \in 1..Len(nodes) |->
        IF fixed[j].id # id /\ fixed[j].master # id
        THEN [fixed[j] EXCEPT !.master = id, !.role = "slave"]
        ELSE fixed[j]]

\* ensureSetNodeID: take id, role and master from kvrocks-controller.
Identified(nodes, roles) ==
  [j \in 1..Len(nodes) |->
     LET ip == nodes[j].ip IN
     IF ip \notin DOMAIN roles THEN nodes[j]
     ELSE [nodes[j] EXCEPT
             !.id = ip,
             !.role = roles[ip],
             !.master = IF roles[ip] = "master" THEN 0
                        ELSE CHOOSE m \in MastersIn(roles) : TRUE]]

-----------------------------------------------------------------------------
(* updateCluster *)

IPsOf(nodes) == {nodes[j].ip : j \in 1..Len(nodes)}

\* The first loop deletes the nodes that have no pod.
Kept(roles, nodes) == [ip \in DOMAIN roles \cap IPsOf(nodes) |-> roles[ip]]

\* The positions the second loop adds: kvrocks-controller refuses a second
\* master of a shard, and the first refusal ends the loop.
Missing(roles, nodes) == {j \in 1..Len(nodes) : nodes[j].ip \notin DOMAIN roles}

Refused(roles, nodes) ==
  LET claims == {j \in Missing(roles, nodes) : nodes[j].role = "master"}
  IN {j \in claims : MastersIn(roles) # {} \/ \E k \in claims : k < j}

Accepted(roles, nodes) ==
  {j \in Missing(roles, nodes) : \A k \in Refused(roles, nodes) : j < k}

\* A node that is not announced as a master is a slave.
Extended(roles, nodes) ==
  LET new == Accepted(roles, nodes)
      isMaster(ip) == \E j \in new : nodes[j].ip = ip /\ nodes[j].role = "master"
  IN [ip \in DOMAIN roles \cup {nodes[j].ip : j \in new} |->
        IF ip \in DOMAIN roles THEN roles[ip]
        ELSE IF isMaster(ip) THEN "master" ELSE "slave"]

-----------------------------------------------------------------------------
(* handleFailover *)

\* The message is about a master that is not marked yet.
IsMasterFailover(topo, ip) ==
  \E j \in 1..Len(topo) : /\ topo[j].ip = ip
                          /\ topo[j].role = "master"
                          /\ ~topo[j].failover

\* FailoverShard has promoted new.
Promoted(roles, new) ==
  [ip \in DOMAIN roles |-> IF ip = new THEN "master" ELSE "slave"]

\* The topology after the failover of ip, given kvrocks-controller's roles.
AfterFailover(topo, ip, roles, master) ==
  [j \in 1..Len(topo) |->
     LET t == topo[j]
         known == t.id \in DOMAIN roles
     IN [t EXCEPT !.role = IF known THEN roles[t.id] ELSE @,
                  !.master = IF known /\ roles[t.id] = "slave" THEN master ELSE @,
                  !.failover = IF t.ip = ip THEN TRUE
                               ELSE IF known THEN FALSE ELSE @]]
=============================================================================
