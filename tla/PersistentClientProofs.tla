----------------------- MODULE PersistentClientProofs -----------------------
(***************************************************************************)
(* What connect leaves behind, for any number of clients and interrupts.   *)
(***************************************************************************)
EXTENDS PersistentClient, TLAPS

USE ClientAssumption

(* The cluster of c's credentials has published a topology of the size c's *)
(* manifest says.                                                          *)
Verified(c) ==
    /\ marker[call[c].credentials] = JobNodes[call[c].credentials]
    /\ JobNodes[call[c].credentials] = JobNodes[Manifest(c)]

(* What a client has at each point of connect.                             *)
ClientInv(c) ==
    /\ pc[c] \in {"wait", "spawn"} <=> ssh[c] = "none" /\ pc[c] # "out"
    /\ ssh[c] = "reaped" => pc[c] \in {"reap", "out"}
    /\ pc[c] \in {"wait", "spawn", "spawned", "poll", "port", "security", "client"} => link[c] = Nobody
    /\ pc[c] \in {"wait", "spawn", "spawned", "poll", "port", "security"} => ~keys[c]
    /\ pc[c] \in {"reap", "term", "kill", "out"} =>
        /\ ~keys[c] \/ "keys" \in cut[c]
        /\ link[c] = Nobody \/ "client" \in cut[c]
    /\ pc[c] = "out" => ssh[c] \in {"none", "reaped"} \/ "tunnel" \in cut[c]
    /\ link[c] # Nobody => Reached(c) = call[c].credentials
    /\ pc[c] = "body" => Verified(c)

(* Only a coordinator writes a marker, and only once.                      *)
MarkerInv == \A k \in Clusters : marker[k] \in {0, JobNodes[k]}

ConnectInv == TypeOK /\ MarkerInv /\ \A c \in Clients : ClientInv(c)

(* What the arguments of a call are.                                       *)
LEMMA CallTyped ==
    ASSUME TypeOK, NEW c \in Clients
    PROVE  Manifest(c) \in Clusters /\ call[c].credentials \in Clusters
  BY DEF TypeOK, Manifest

(* A step of one client, or of its ssh, changes variables within their     *)
(* types.                                                                  *)
LEMMA TypeStep ==
  ASSUME TypeOK, NEW c \in Clients,
         \/ ConnectNext(c) \/ BodyEnds(c) \/ DaskReconnects(c)
         \/ SetupFails(c) \/ WriteKeysFails(c) \/ DaskFails(c) \/ MarkerFails(c)
         \/ Interrupt(c) \/ DeadlinePasses(c) \/ SSHOpens(c) \/ SSHExits(c)
  PROVE  TypeOK'
  <1>0. TypeOK
    OBVIOUS
  <1>1. CASE InspectRunning(c)
    BY <1>1, <1>0 DEF InspectRunning, Goto, world, TypeOK
  <1>2. CASE InspectEnded(c)
    BY <1>2, <1>0 DEF InspectEnded, Goto, world, TypeOK
  <1>3. CASE InspectExpires(c)
    BY <1>3, <1>0 DEF InspectExpires, Goto, world, TypeOK
  <1>4. CASE SpawnSSH(c)
    BY <1>4, <1>0 DEF SpawnSSH, Goto, world, TypeOK
  <1>5. CASE EnterTunnel(c)
    BY <1>5, <1>0 DEF EnterTunnel, Goto, SetLate, world, TypeOK
  <1>6. CASE PollExited(c)
    BY <1>6, <1>0 DEF PollExited, Goto, world, TypeOK
  <1>7. CASE PollRunning(c)
    BY <1>7, <1>0 DEF PollRunning, Goto, world, TypeOK
  <1>8. CASE PortOpen(c)
    BY <1>8, <1>0 DEF PortOpen, Goto, world, TypeOK
  <1>9. CASE PortClosed(c)
    BY <1>9, <1>0 DEF PortClosed, Goto, world, TypeOK
  <1>10. CASE DaskConnects(c)
    BY <1>10, <1>0 DEF DaskConnects, Authenticates, Goto, SetLate, world, TypeOK
  <1>30. CASE DaskReconnects(c)
    BY <1>30, <1>0 DEF DaskReconnects, Authenticates, world, TypeOK
  <1>11. CASE DaskExpires(c)
    BY <1>11, <1>0 DEF DaskExpires, DaskFails, Goto, world, TypeOK
  <1>12. CASE MarkerRead(c)
    BY <1>12, <1>0 DEF MarkerRead, Goto, world, TypeOK
  <1>13. CASE MarkerExpires(c)
    BY <1>13, <1>0 DEF MarkerExpires, Goto, world, TypeOK
  <1>14. CASE MarkerLost(c)
    BY <1>14, <1>0 DEF MarkerLost, MarkerFails, Goto, world, TypeOK
  <1>15. CASE Leave(c)
    BY <1>15, <1>0 DEF Leave, Goto, world, TypeOK
  <1>16. CASE ReapDead(c)
    BY <1>16, <1>0 DEF ReapDead, Goto, world, TypeOK
  <1>17. CASE Terminate(c)
    BY <1>17, <1>0 DEF Terminate, Goto, SetLate, world, TypeOK
  <1>18. CASE WaitReturns(c)
    BY <1>18, <1>0 DEF WaitReturns, Goto, world, TypeOK
  <1>19. CASE KillSSH(c)
    BY <1>19, <1>0 DEF KillSSH, Goto, TunnelGone, world, TypeOK
  <1>20. CASE BodyEnds(c)
    BY <1>20, <1>0 DEF BodyEnds, Goto, world, TypeOK
  <1>21. CASE SetupFails(c)
    BY <1>21, <1>0 DEF SetupFails, Goto, world, TypeOK
  <1>22. CASE DaskFails(c)
    BY <1>22, <1>0 DEF DaskFails, Goto, world, TypeOK
  <1>23. CASE MarkerFails(c)
    BY <1>23, <1>0 DEF MarkerFails, Goto, world, TypeOK
  <1>24. CASE Interrupt(c)
    <2>0. interrupts' \in 0..MaxInterrupts
      BY <1>24, <1>0 DEF Interrupt, TypeOK
    <2>1. CASE Unwind(c)
      BY <1>24, <1>0, <2>0, <2>1 DEF Interrupt, Unwind, Goto, world, TypeOK
    <2>2. CASE InterruptTunnel(c)
      BY <1>24, <1>0, <2>0, <2>2 DEF Interrupt, InterruptTunnel, Goto, CutShort, world, TypeOK
    <2>3. CASE InterruptLeave(c)
      <3>1. ASSUME NEW cleanup \in {"client", "keys"}, CutShort(c, cleanup)
            PROVE  cut' \in [Clients -> SUBSET {"client", "keys", "tunnel"}]
        BY <1>0, <3>1 DEF CutShort, TypeOK
      <3>2. cut' \in [Clients -> SUBSET {"client", "keys", "tunnel"}]
        BY <2>3, <3>1 DEF InterruptLeave
      <3>3. keys' \in [Clients -> BOOLEAN] /\ link' \in [Clients -> Clients \cup {Nobody}]
        BY <1>0, <2>3 DEF InterruptLeave, TypeOK
      <3> QED
        BY <1>24, <1>0, <2>0, <2>3, <3>2, <3>3 DEF Interrupt, InterruptLeave, Goto, world, TypeOK
    <2> QED
      BY <1>24, <2>1, <2>2, <2>3 DEF Interrupt
  <1>25. CASE DeadlinePasses(c)
    BY <1>25, <1>0 DEF DeadlinePasses, SetLate, world, TypeOK
  <1>26. CASE SSHOpens(c)
    BY <1>26, <1>0 DEF SSHOpens, world, TypeOK
  <1>27. CASE SSHExits(c)
    BY <1>27, <1>0 DEF SSHExits, TunnelGone, world, TypeOK
  <1>28. CASE WriteKeys(c)
    BY <1>28, <1>0 DEF WriteKeys, Goto, SetLate, world, TypeOK
  <1>29. CASE WriteKeysFails(c)
    BY <1>29, <1>0 DEF WriteKeysFails, Goto, world, TypeOK
  <1> QED
    BY <1>1, <1>2, <1>3, <1>4, <1>5, <1>6, <1>7, <1>8, <1>9, <1>10, <1>11, <1>12, <1>13, <1>14,
       <1>15, <1>16, <1>17, <1>18, <1>19, <1>20, <1>21, <1>22, <1>23, <1>24, <1>25, <1>26, <1>27, <1>28, <1>29, <1>30 DEF ConnectNext

(* Such a step keeps what every client has: of the others it takes at most *)
(* the connection.                                                         *)
LEMMA ClientStep ==
  ASSUME TypeOK, MarkerInv, NEW c \in Clients, NEW d \in Clients, ClientInv(d),
         \/ ConnectNext(c) \/ BodyEnds(c) \/ DaskReconnects(c)
         \/ SetupFails(c) \/ WriteKeysFails(c) \/ DaskFails(c) \/ MarkerFails(c)
         \/ Interrupt(c) \/ DeadlinePasses(c) \/ SSHOpens(c) \/ SSHExits(c)
  PROVE  ClientInv(d)'
  <1>0. TypeOK /\ ClientInv(d)
    OBVIOUS
  <1>1. CASE InspectRunning(c)
    BY <1>1, <1>0 DEF InspectRunning, Goto, world, TypeOK, ClientInv, Reached, Manifest, Verified
  <1>2. CASE InspectEnded(c)
    BY <1>2, <1>0 DEF InspectEnded, Goto, world, TypeOK, ClientInv, Reached, Manifest, Verified
  <1>3. CASE InspectExpires(c)
    BY <1>3, <1>0 DEF InspectExpires, Goto, world, TypeOK, ClientInv, Reached, Manifest, Verified
  <1>4. CASE SpawnSSH(c)
    BY <1>4, <1>0 DEF SpawnSSH, Goto, world, TypeOK, ClientInv, Reached, Manifest, Verified
  <1>5. CASE EnterTunnel(c)
    BY <1>5, <1>0 DEF EnterTunnel, Goto, SetLate, world, TypeOK, ClientInv, Reached, Manifest, Verified
  <1>6. CASE PollExited(c)
    BY <1>6, <1>0 DEF PollExited, Goto, world, TypeOK, ClientInv, Reached, Manifest, Verified
  <1>7. CASE PollRunning(c)
    BY <1>7, <1>0 DEF PollRunning, Goto, world, TypeOK, ClientInv, Reached, Manifest, Verified
  <1>8. CASE PortOpen(c)
    BY <1>8, <1>0 DEF PortOpen, Goto, world, TypeOK, ClientInv, Reached, Manifest, Verified
  <1>9. CASE PortClosed(c)
    BY <1>9, <1>0 DEF PortClosed, Goto, world, TypeOK, ClientInv, Reached, Manifest, Verified
  <1>10. CASE DaskConnects(c)
    BY <1>10, <1>0 DEF DaskConnects, Authenticates, Goto, SetLate, world, TypeOK, ClientInv, Reached, Manifest, Verified
  <1>30. CASE DaskReconnects(c)
    BY <1>30, <1>0 DEF DaskReconnects, Authenticates, world, TypeOK, ClientInv, Reached, Manifest, Verified
  <1>11. CASE DaskExpires(c)
    BY <1>11, <1>0 DEF DaskExpires, DaskFails, Goto, world, TypeOK, ClientInv, Reached, Manifest, Verified
  <1>12. CASE MarkerRead(c)
    <2>1. /\ link[c] # Nobody /\ marker[Reached(c)] = JobNodes[Manifest(c)]
          /\ pc' = [pc EXCEPT ![c] = "body"]
          /\ UNCHANGED <<call, marker, ssh, link, keys, cut>>
      BY <1>12 DEF MarkerRead, MarkerFits, Goto, world
    <2>2. c = d => Verified(d)
      <3> SUFFICES ASSUME c = d PROVE Verified(d)
        OBVIOUS
      <3>1. Reached(d) = call[d].credentials
        BY <1>0, <2>1 DEF ClientInv
      <3>2. call[d].credentials \in Clusters /\ JobNodes[Manifest(d)] # 0
        BY CallTyped
      <3>3. marker[call[d].credentials] = JobNodes[call[d].credentials]
        BY <2>1, <3>1, <3>2 DEF MarkerInv
      <3> QED
        BY <2>1, <3>1, <3>3 DEF Verified
    <2>3. pc'[d] = IF c = d THEN "body" ELSE pc[d]
      BY <1>0, <2>1 DEF TypeOK
    <2>4. pc'[d] = "body" => Verified(d)'
      BY <1>0, <2>1, <2>2, <2>3 DEF ClientInv, Verified, Manifest
    <2>5. link'[d] # Nobody => Reached(d)' = call'[d].credentials
      BY <1>0, <2>1 DEF ClientInv, Reached, Manifest
    <2>6. c = d => pc[d] = "marker" /\ ssh[d] = ssh'[d]
      BY <1>12, <2>1 DEF MarkerRead
    <2> QED
      BY <1>0, <2>1, <2>3, <2>4, <2>5, <2>6 DEF ClientInv
  <1>13. CASE MarkerExpires(c)
    BY <1>13, <1>0 DEF MarkerExpires, Goto, world, TypeOK, ClientInv, Reached, Manifest, Verified
  <1>14. CASE MarkerLost(c)
    BY <1>14, <1>0 DEF MarkerLost, MarkerFails, Goto, world, TypeOK, ClientInv, Reached, Manifest, Verified
  <1>15. CASE Leave(c)
    BY <1>15, <1>0 DEF Leave, Goto, world, TypeOK, ClientInv, Reached, Manifest, Verified
  <1>16. CASE ReapDead(c)
    BY <1>16, <1>0 DEF ReapDead, Goto, world, TypeOK, ClientInv, Reached, Manifest, Verified
  <1>17. CASE Terminate(c)
    BY <1>17, <1>0 DEF Terminate, Goto, SetLate, world, TypeOK, ClientInv, Reached, Manifest, Verified
  <1>18. CASE WaitReturns(c)
    BY <1>18, <1>0 DEF WaitReturns, Goto, world, TypeOK, ClientInv, Reached, Manifest, Verified
  <1>19. CASE KillSSH(c)
    BY <1>19, <1>0 DEF KillSSH, Goto, TunnelGone, world, TypeOK, ClientInv, Reached, Manifest, Verified
  <1>20. CASE BodyEnds(c)
    BY <1>20, <1>0 DEF BodyEnds, Goto, world, TypeOK, ClientInv, Reached, Manifest, Verified
  <1>21. CASE SetupFails(c)
    BY <1>21, <1>0 DEF SetupFails, Goto, world, TypeOK, ClientInv, Reached, Manifest, Verified
  <1>22. CASE DaskFails(c)
    BY <1>22, <1>0 DEF DaskFails, Goto, world, TypeOK, ClientInv, Reached, Manifest, Verified
  <1>23. CASE MarkerFails(c)
    BY <1>23, <1>0 DEF MarkerFails, Goto, world, TypeOK, ClientInv, Reached, Manifest, Verified
  <1>24. CASE Interrupt(c)
    <2>0. interrupts' \in 0..MaxInterrupts
      BY <1>24, <1>0 DEF Interrupt, TypeOK
    <2>1. CASE Unwind(c)
      BY <1>24, <1>0, <2>0, <2>1 DEF Interrupt, Unwind, Goto, world, TypeOK, ClientInv, Reached, Manifest, Verified
    <2>2. CASE InterruptTunnel(c)
      BY <1>24, <1>0, <2>0, <2>2 DEF Interrupt, InterruptTunnel, Goto, CutShort, world, TypeOK, ClientInv, Reached, Manifest, Verified
    <2>3. CASE InterruptLeave(c)
      BY <1>24, <1>0, <2>0, <2>3 DEF Interrupt, InterruptLeave, Goto, CutShort, world, TypeOK, ClientInv, Reached, Manifest, Verified
    <2> QED
      BY <1>24, <2>1, <2>2, <2>3 DEF Interrupt
  <1>25. CASE DeadlinePasses(c)
    BY <1>25, <1>0 DEF DeadlinePasses, SetLate, world, TypeOK, ClientInv, Reached, Manifest, Verified
  <1>26. CASE SSHOpens(c)
    BY <1>26, <1>0 DEF SSHOpens, world, TypeOK, ClientInv, Reached, Manifest, Verified
  <1>27. CASE SSHExits(c)
    BY <1>27, <1>0 DEF SSHExits, TunnelGone, world, TypeOK, ClientInv, Reached, Manifest, Verified
  <1>28. CASE WriteKeys(c)
    BY <1>28, <1>0 DEF WriteKeys, Goto, SetLate, world, TypeOK, ClientInv, Reached, Manifest, Verified
  <1>29. CASE WriteKeysFails(c)
    BY <1>29, <1>0 DEF WriteKeysFails, Goto, world, TypeOK, ClientInv, Reached, Manifest, Verified
  <1> QED
    BY <1>1, <1>2, <1>3, <1>4, <1>5, <1>6, <1>7, <1>8, <1>9, <1>10, <1>11, <1>12, <1>13, <1>14,
       <1>15, <1>16, <1>17, <1>18, <1>19, <1>20, <1>21, <1>22, <1>23, <1>24, <1>25, <1>26, <1>27, <1>28, <1>29, <1>30 DEF ConnectNext

(* Nothing is open when connect is called.                                 *)
LEMMA InitConnectInv == Init => ConnectInv
  <1> SUFFICES ASSUME Init PROVE ConnectInv
    OBVIOUS
  <1>1. marker \in [Clusters -> Nat]
    <2>1. {0} \cup {JobNodes[k] : k \in Clusters} \subseteq Nat
      OBVIOUS
    <2> QED
      BY <2>1 DEF Init
  <1> QED
    BY <1>1 DEF Init, ConnectInv, TypeOK, MarkerInv, ClientInv

(* No step of a client changes a marker or the arguments of a call.        *)
LEMMA WorldStep ==
  ASSUME NEW c \in Clients,
         \/ ConnectNext(c) \/ BodyEnds(c) \/ DaskReconnects(c)
         \/ SetupFails(c) \/ WriteKeysFails(c) \/ DaskFails(c) \/ MarkerFails(c)
         \/ Interrupt(c) \/ DeadlinePasses(c) \/ SSHOpens(c) \/ SSHExits(c)
  PROVE  UNCHANGED <<call, marker>>
  <1>1. UNCHANGED world
    BY DEF ConnectNext, InspectRunning, InspectEnded, InspectExpires, SpawnSSH, EnterTunnel,
           PollExited, PollRunning, PortOpen, PortClosed, WriteKeys, DaskConnects, DaskExpires,
           MarkerRead, MarkerExpires, MarkerLost, Leave, ReapDead, Terminate, WaitReturns, KillSSH,
           BodyEnds, DaskReconnects, SetupFails, WriteKeysFails, DaskFails, MarkerFails,
           Interrupt, DeadlinePasses, SSHOpens, SSHExits
  <1> QED
    BY <1>1 DEF world

(* Every step preserves the invariant.                                     *)
LEMMA ConnectInvStep == ConnectInv /\ [Next]_vars => ConnectInv'
  <1> SUFFICES ASSUME ConnectInv, [Next]_vars PROVE ConnectInv'
    OBVIOUS
  <1>0. TypeOK /\ MarkerInv /\ \A d \in Clients : ClientInv(d)
    BY DEF ConnectInv
  <1>1. ASSUME NEW c \in Clients,
               \/ ConnectNext(c) \/ BodyEnds(c) \/ DaskReconnects(c)
               \/ SetupFails(c) \/ WriteKeysFails(c) \/ DaskFails(c) \/ MarkerFails(c)
               \/ Interrupt(c) \/ DeadlinePasses(c) \/ SSHOpens(c) \/ SSHExits(c)
        PROVE  ConnectInv'
    <2>1. TypeOK'
      BY <1>0, <1>1, TypeStep
    <2>2. \A d \in Clients : ClientInv(d)'
      BY <1>0, <1>1, ClientStep
    <2>3. MarkerInv'
      BY <1>0, <1>1, WorldStep DEF MarkerInv
    <2> QED
      BY <2>1, <2>2, <2>3 DEF ConnectInv
  <1>2. ASSUME NEW k \in Clusters, JobChanges(k) PROVE ConnectInv'
    <2>1. TypeOK' /\ MarkerInv'
      BY <1>0, <1>2 DEF JobChanges, TypeOK, MarkerInv
    <2>2. ASSUME NEW d \in Clients PROVE ClientInv(d)'
      <3>1. /\ link'[d] \in {link[d], Nobody}
            /\ UNCHANGED <<call, marker, ssh, pc, keys, cut>>
        BY <1>0, <1>2 DEF JobChanges, TypeOK
      <3> QED
        BY <1>0, <3>1 DEF ClientInv, Reached, Manifest, Verified
    <2> QED
      BY <2>1, <2>2 DEF ConnectInv
  <1>3. ASSUME NEW k \in Clusters, CoordinatorPublishes(k) PROVE ConnectInv'
    <2>1. TypeOK' /\ MarkerInv'
      BY <1>0, <1>3 DEF CoordinatorPublishes, TypeOK, MarkerInv
    <2>2. ASSUME NEW d \in Clients PROVE ClientInv(d)'
      <3>1. UNCHANGED <<call, ssh, pc, link, keys, cut>>
        BY <1>3 DEF CoordinatorPublishes
      <3>2. Verified(d) => Verified(d)'
        <4> SUFFICES ASSUME Verified(d) PROVE Verified(d)'
          OBVIOUS
        <4>1. call[d].credentials \in Clusters
          BY <1>0, CallTyped
        <4>2. marker[call[d].credentials] # 0
          BY <4>1 DEF Verified
        <4>3. marker'[call[d].credentials] = marker[call[d].credentials]
          BY <1>0, <1>3, <4>1, <4>2 DEF CoordinatorPublishes, TypeOK
        <4> QED
          BY <3>1, <4>3 DEF Verified, Manifest
      <3> QED
        BY <1>0, <3>1, <3>2 DEF ClientInv, Reached, Manifest
    <2> QED
      BY <2>1, <2>2 DEF ConnectInv
  <1>4. CASE UNCHANGED vars
    BY <1>0, <1>4 DEF vars, world, ConnectInv, MarkerInv, TypeOK, ClientInv, Reached, Manifest, Verified
  <1> QED
    BY <1>1, <1>2, <1>3, <1>4 DEF Next

(* The invariant holds in every reachable state.                           *)
THEOREM ConnectInvariance == Spec => []ConnectInv
  BY InitConnectInv, ConnectInvStep, PTL DEF Spec

(* Processes, port and connections keep their types; a connection goes     *)
(* through some client's tunnel or is closed.                              *)
THEOREM ClientTypeCorrect == Spec => []TypeOK
  <1>1. ConnectInv => TypeOK
    BY DEF ConnectInv
  <1> QED
    BY <1>1, ConnectInvariance, PTL

(* Whatever connect opened is closed when it has been left, except for the *)
(* cleanup an interrupt hit (client.py, the finally clause of _ssh_tunnel, *)
(* TLSCredentials.security and the Dask client).                           *)
THEOREM NothingIsLeftBehind == Spec => []NothingOutlivesConnect
  <1>1. ConnectInv => NothingOutlivesConnect
    BY DEF ConnectInv, ClientInv, NothingOutlivesConnect
  <1> QED
    BY <1>1, ConnectInvariance, PTL

(* Whoever's tunnel has the port, a yielded client works on the cluster of *)
(* its credentials, and on a complete topology of the size its manifest    *)
(* says (client.py, connect and wait_published_topology).                  *)
THEOREM YieldedOnOwnTopology == Spec => []YieldsOwnTopology
  <1>1. ConnectInv => YieldsOwnTopology
    BY DEF ConnectInv, ClientInv, Verified, YieldsOwnTopology
  <1> QED
    BY <1>1, ConnectInvariance, PTL
=============================================================================
