-------------------------- MODULE PersistentClient --------------------------
(***************************************************************************)
(* src/hfdask/client.py: connect, by processes of one machine that use the *)
(* same local port, to persistent clusters.  connect waits for the         *)
(* scheduler's Job, opens an ssh tunnel, connects a Dask client through it,*)
(* reads the topology marker and yields the client; whatever happens, the  *)
(* context managers are left in reverse order.                             *)
(*                                                                         *)
(* A call gets a manifest, which names the cluster and counts its Jobs,    *)
(* and credentials, which are some cluster's: issue_credentials makes a CA *)
(* for each.  ssh is a process of its own: it opens the port late or never,*)
(* exits when it likes (at once if the port is taken:                      *)
(* ExitOnForwardFailure), and may ignore SIGTERM but not SIGKILL.          *)
(***************************************************************************)
EXTENDS Naturals

CONSTANTS
    Clients,       \* the processes that call connect, with one local_port
    Clusters,      \* the persistent clusters there are
    JobNodes,      \* how many Jobs each has: job_nodes in its manifest
    Calls,         \* the arguments the clients may have been given
    MaxInterrupts  \* bound: KeyboardInterrupts, over all of them

Nobody == "nobody"

ASSUME ClientAssumption ==
    /\ Nobody \notin Clients
    /\ JobNodes \in [Clusters -> Nat \ {0}]
    /\ Calls \subseteq [Clients -> [manifest : Clusters, credentials : Clusters]]
    /\ MaxInterrupts \in Nat

VARIABLES
    call,       \* each client's arguments: whose manifest, whose credentials
    job,        \* each scheduler Job's stage: "SCHEDULING", "RUNNING" or "ended"
    marker,     \* the length of its TOPOLOGY_METADATA; 0: not set
    port,       \* whose ssh listens on the local port
    ssh,        \* each client's ssh process
    pc,         \* where each client is in connect
    late,       \* whether the deadline of the loop it is in has passed
    link,       \* whose tunnel its Dask connection goes through
    keys,       \* whether its TLS files are on disk
    cut,        \* the cleanups of connect that an interrupt cut short
    interrupts

world == <<call, job, marker>>
vars == <<world, port, ssh, pc, late, link, keys, cut, interrupts>>

TypeOK ==
    /\ call \in Calls
    /\ job \in [Clusters -> {"SCHEDULING", "RUNNING", "ended"}]
    /\ marker \in [Clusters -> Nat]
    /\ port \in Clients \cup {Nobody}
    /\ ssh \in [Clients -> {"none", "starting", "open", "exited", "reaped"}]
    /\ pc \in [Clients -> {"wait", "spawn", "spawned", "poll", "port", "security", "client",
                           "marker", "body", "leave", "reap", "term", "kill", "out"}]
    /\ late \in [Clients -> BOOLEAN]
    /\ link \in [Clients -> Clients \cup {Nobody}]
    /\ keys \in [Clients -> BOOLEAN]
    /\ cut \in [Clients -> SUBSET {"client", "keys", "tunnel"}]
    /\ interrupts \in 0..MaxInterrupts

(* The cluster a tunnel of d leads to, and the one a connection of c does. *)
Manifest(d) == call[d].manifest
Reached(c) == Manifest(link[c])

(* A cluster that nobody's manifest names is as good as ended.             *)
Init ==
    /\ call \in Calls
    /\ job \in [Clusters -> {"SCHEDULING", "RUNNING", "ended"}]
    /\ marker \in [Clusters -> {0} \cup {JobNodes[k] : k \in Clusters}]
    /\ \A k \in Clusters :
        /\ marker[k] # 0 => marker[k] = JobNodes[k] /\ job[k] # "SCHEDULING"
        /\ k \in {Manifest(c) : c \in Clients} \/ (job[k] = "ended" /\ marker[k] = 0)
    /\ port = Nobody
    /\ ssh = [c \in Clients |-> "none"]
    /\ pc = [c \in Clients |-> "wait"]
    /\ late = [c \in Clients |-> FALSE]
    /\ link = [c \in Clients |-> Nobody]
    /\ keys = [c \in Clients |-> FALSE] /\ cut = [c \in Clients |-> {}]
    /\ interrupts = 0

Goto(c, label) == pc' = [pc EXCEPT ![c] = label]
SetLate(c, passed) == late' = [late EXCEPT ![c] = passed]

-----------------------------------------------------------------------------
(* _wait_for_running: one inspect_job, and what follows from its answer.   *)

InspectRunning(c) ==
    /\ pc[c] = "wait" /\ job[Manifest(c)] = "RUNNING"
    /\ Goto(c, "spawn")
    /\ UNCHANGED <<world, port, ssh, late, link, keys, cut, interrupts>>

InspectEnded(c) ==
    /\ pc[c] = "wait" /\ job[Manifest(c)] = "ended"
    /\ Goto(c, "out")
    /\ UNCHANGED <<world, port, ssh, late, link, keys, cut, interrupts>>

InspectExpires(c) ==
    /\ pc[c] = "wait" /\ job[Manifest(c)] = "SCHEDULING" /\ late[c]
    /\ Goto(c, "out")
    /\ UNCHANGED <<world, port, ssh, late, link, keys, cut, interrupts>>

(* The request fails, or there is no ssh to run.                           *)
SetupFails(c) ==
    /\ pc[c] \in {"wait", "spawn"}
    /\ Goto(c, "out")
    /\ UNCHANGED <<world, port, ssh, late, link, keys, cut, interrupts>>

-----------------------------------------------------------------------------
(* _ssh_tunnel: Popen, then poll and try the port in turns.                *)

SpawnSSH(c) ==
    /\ pc[c] = "spawn"
    /\ ssh' = [ssh EXCEPT ![c] = "starting"]
    /\ Goto(c, "spawned")
    /\ UNCHANGED <<world, port, late, link, keys, cut, interrupts>>

EnterTunnel(c) ==
    /\ pc[c] = "spawned"
    /\ Goto(c, "poll") /\ SetLate(c, FALSE)
    /\ UNCHANGED <<world, port, ssh, link, keys, cut, interrupts>>

PollExited(c) ==
    /\ pc[c] = "poll" /\ ssh[c] = "exited"
    /\ ssh' = [ssh EXCEPT ![c] = "reaped"]
    /\ Goto(c, "reap")
    /\ UNCHANGED <<world, port, late, link, keys, cut, interrupts>>

PollRunning(c) ==
    /\ pc[c] = "poll" /\ ssh[c] \in {"starting", "open"}
    /\ Goto(c, "port")
    /\ UNCHANGED <<world, port, ssh, late, link, keys, cut, interrupts>>

(* create_connection does not know whose port it is.                       *)
PortOpen(c) ==
    /\ pc[c] = "port" /\ port # Nobody
    /\ Goto(c, "security")
    /\ UNCHANGED <<world, port, ssh, late, link, keys, cut, interrupts>>

(* Fault: no deadline while ssh runs.                                      *)
PortClosedForever(c) ==
    /\ pc[c] = "port" /\ port = Nobody
    /\ Goto(c, "poll")
    /\ UNCHANGED <<world, port, ssh, late, link, keys, cut, interrupts>>

PortClosed(c) ==
    /\ pc[c] = "port" /\ port = Nobody
    /\ Goto(c, IF late[c] THEN "reap" ELSE "poll")
    /\ UNCHANGED <<world, port, ssh, late, link, keys, cut, interrupts>>

-----------------------------------------------------------------------------
(* The TLS files, Client(...) and wait_published_topology.                 *)

WriteKeys(c) ==
    /\ pc[c] = "security"
    /\ keys' = [keys EXCEPT ![c] = TRUE]
    /\ Goto(c, "client") /\ SetLate(c, FALSE)
    /\ UNCHANGED <<world, port, ssh, link, cut, interrupts>>

(* The temporary directory goes with what was written.                     *)
WriteKeysFails(c) ==
    /\ pc[c] = "security"
    /\ Goto(c, "reap")
    /\ UNCHANGED <<world, port, ssh, late, link, keys, cut, interrupts>>

(* Fault: the scheduler's alias instead of the forwarded port.             *)
DaskConnectsDirectly(c) ==
    /\ pc[c] = "client" /\ job[Manifest(c)] = "RUNNING"
    /\ link' = [link EXCEPT ![c] = "scheduler"]
    /\ Goto(c, "marker") /\ SetLate(c, FALSE)
    /\ UNCHANGED <<world, port, ssh, keys, cut, interrupts>>

(* Fault: one CA for all clusters.                                         *)
AuthenticatesAnywhere(c) == port # Nobody /\ job[Manifest(port)] = "RUNNING"

(* The scheduler and the client verify each other: both certificates are   *)
(* of one cluster's CA.                                                    *)
Authenticates(c) ==
    /\ port # Nobody /\ job[Manifest(port)] = "RUNNING"
    /\ call[c].credentials = Manifest(port)

DaskConnects(c) ==
    /\ pc[c] = "client" /\ Authenticates(c)
    /\ link' = [link EXCEPT ![c] = port]
    /\ Goto(c, "marker") /\ SetLate(c, FALSE)
    /\ UNCHANGED <<world, port, ssh, keys, cut, interrupts>>

(* A Dask client that has lost its connection opens it again by itself,    *)
(* through whatever tunnel has the port by then.                           *)
DaskReconnects(c) ==
    /\ pc[c] \in {"marker", "body"} /\ link[c] = Nobody /\ Authenticates(c)
    /\ link' = [link EXCEPT ![c] = port]
    /\ UNCHANGED <<world, port, ssh, pc, late, keys, cut, interrupts>>

DaskFails(c) ==
    /\ pc[c] = "client"
    /\ Goto(c, "leave")
    /\ UNCHANGED <<world, port, ssh, late, link, keys, cut, interrupts>>

DaskExpires(c) == late[c] /\ DaskFails(c)

(* Fault: any answer of get_metadata will do.                              *)
MarkerReadUnchecked(c) ==
    /\ pc[c] = "marker" /\ link[c] # Nobody
    /\ Goto(c, "body")
    /\ UNCHANGED <<world, port, ssh, late, link, keys, cut, interrupts>>

(* wait_published_topology takes a list of job_nodes counts, and its one   *)
(* writer writes nothing else: what can differ is the length, when the     *)
(* connection does not lead to the manifest's cluster.                     *)
MarkerFits(c) == marker[Reached(c)] = JobNodes[Manifest(c)]

MarkerRead(c) ==
    /\ pc[c] = "marker" /\ link[c] # Nobody
    /\ MarkerFits(c)
    /\ Goto(c, "body")
    /\ UNCHANGED <<world, port, ssh, late, link, keys, cut, interrupts>>

MarkerExpires(c) ==
    /\ pc[c] = "marker" /\ link[c] # Nobody
    /\ ~MarkerFits(c) /\ late[c]
    /\ Goto(c, "leave")
    /\ UNCHANGED <<world, port, ssh, late, link, keys, cut, interrupts>>

(* get_metadata raises: it must while the connection is lost.              *)
MarkerFails(c) ==
    /\ pc[c] = "marker"
    /\ Goto(c, "leave")
    /\ UNCHANGED <<world, port, ssh, late, link, keys, cut, interrupts>>

MarkerLost(c) == link[c] = Nobody /\ MarkerFails(c)

BodyEnds(c) ==
    /\ pc[c] = "body"
    /\ Goto(c, "leave")
    /\ UNCHANGED <<world, port, ssh, late, link, keys, cut, interrupts>>

-----------------------------------------------------------------------------
(* The way out: the Dask client, the TLS files, then the finally clause.   *)

Leave(c) ==
    /\ pc[c] = "leave"
    /\ link' = [link EXCEPT ![c] = Nobody]
    /\ keys' = [keys EXCEPT ![c] = FALSE]
    /\ Goto(c, "reap")
    /\ UNCHANGED <<world, port, ssh, late, cut, interrupts>>

(* What an exit of c's ssh means for those who use its port.               *)
TunnelGone(c, how) ==
    /\ ssh' = [ssh EXCEPT ![c] = how]
    /\ port' = IF port = c THEN Nobody ELSE port
    /\ link' = [d \in Clients |-> IF link[d] = c THEN Nobody ELSE link[d]]

ReapDead(c) ==
    /\ pc[c] = "reap" /\ ssh[c] \in {"exited", "reaped"}
    /\ ssh' = [ssh EXCEPT ![c] = "reaped"]
    /\ Goto(c, "out")
    /\ UNCHANGED <<world, port, late, link, keys, cut, interrupts>>

(* Fault: terminate without waiting.                                       *)
TerminateOnly(c) ==
    /\ pc[c] = "reap" /\ ssh[c] \in {"starting", "open"}
    /\ Goto(c, "out")
    /\ UNCHANGED <<world, port, ssh, late, link, keys, cut, interrupts>>

Terminate(c) ==
    /\ pc[c] = "reap" /\ ssh[c] \in {"starting", "open"}
    /\ Goto(c, "term") /\ SetLate(c, FALSE)
    /\ UNCHANGED <<world, port, ssh, link, keys, cut, interrupts>>

WaitReturns(c) ==
    /\ pc[c] \in {"term", "kill"} /\ ssh[c] = "exited"
    /\ ssh' = [ssh EXCEPT ![c] = "reaped"]
    /\ Goto(c, "out")
    /\ UNCHANGED <<world, port, late, link, keys, cut, interrupts>>

KillSSH(c) ==
    /\ pc[c] = "term" /\ ssh[c] # "exited" /\ late[c]
    /\ Goto(c, "kill")
    /\ TunnelGone(c, "exited")
    /\ UNCHANGED <<world, late, keys, cut, interrupts>>

-----------------------------------------------------------------------------
(* A KeyboardInterrupt unwinds what has been entered.  One that arrives in *)
(* a cleanup cuts that cleanup short; between Popen and the try statement  *)
(* no cleanup of the tunnel has been entered yet.                          *)
CutShort(c, cleanup) == cut' = [cut EXCEPT ![c] = @ \cup {cleanup}]

Unwind(c) ==
    /\ \/ pc[c] \in {"wait", "spawn"} /\ Goto(c, "out")
       \/ pc[c] \in {"poll", "port", "security"} /\ Goto(c, "reap")
       \/ pc[c] \in {"client", "marker", "body"} /\ Goto(c, "leave")
    /\ UNCHANGED <<link, keys, cut>>

InterruptTunnel(c) ==
    /\ pc[c] \in {"spawned", "reap", "term", "kill"}
    /\ Goto(c, "out") /\ CutShort(c, "tunnel")
    /\ UNCHANGED <<link, keys>>

InterruptLeave(c) ==
    /\ pc[c] = "leave" /\ Goto(c, "reap")
    /\ \/ /\ CutShort(c, "client")
          /\ keys' = [keys EXCEPT ![c] = FALSE] /\ UNCHANGED link
       \/ /\ CutShort(c, "keys")
          /\ link' = [link EXCEPT ![c] = Nobody] /\ UNCHANGED keys

Interrupt(c) ==
    /\ interrupts < MaxInterrupts /\ interrupts' = interrupts + 1
    /\ Unwind(c) \/ InterruptTunnel(c) \/ InterruptLeave(c)
    /\ UNCHANGED <<world, port, ssh, late>>

DeadlinePasses(c) ==
    /\ pc[c] \in {"wait", "poll", "port", "client", "marker", "term"} /\ ~late[c]
    /\ SetLate(c, TRUE)
    /\ UNCHANGED <<world, port, ssh, pc, link, keys, cut, interrupts>>

(* ssh binds the port when it has logged in; if it cannot, it exits.       *)
SSHOpens(c) ==
    /\ ssh[c] = "starting" /\ port = Nobody /\ job[Manifest(c)] = "RUNNING"
    /\ ssh' = [ssh EXCEPT ![c] = "open"] /\ port' = c
    /\ UNCHANGED <<world, pc, late, link, keys, cut, interrupts>>

SSHExits(c) ==
    /\ ssh[c] \in {"starting", "open"}
    /\ TunnelGone(c, "exited")
    /\ UNCHANGED <<world, pc, late, keys, cut, interrupts>>

JobChanges(k) ==
    /\ \E after \in {"RUNNING", "ended"} :
        /\ job[k] = "SCHEDULING" \/ (job[k] = "RUNNING" /\ after = "ended")
        /\ job' = [job EXCEPT ![k] = after]
        /\ link' = [c \in Clients |-> IF after = "ended" /\ link[c] # Nobody /\ Reached(c) = k
                                     THEN Nobody ELSE link[c]]
    /\ UNCHANGED <<call, marker, port, ssh, pc, late, keys, cut, interrupts>>

(* Runner: the coordinator publishes what it verified, one count per Job.  *)
CoordinatorPublishes(k) ==
    /\ job[k] = "RUNNING" /\ marker[k] = 0
    /\ marker' = [marker EXCEPT ![k] = JobNodes[k]]
    /\ UNCHANGED <<call, job, port, ssh, pc, late, link, keys, cut, interrupts>>

(* What connect does as soon as it can.                                    *)
ConnectNext(c) ==
    \/ InspectRunning(c) \/ InspectEnded(c) \/ InspectExpires(c)
    \/ SpawnSSH(c) \/ EnterTunnel(c) \/ PollExited(c) \/ PollRunning(c)
    \/ PortOpen(c) \/ PortClosed(c) \/ WriteKeys(c)
    \/ DaskConnects(c) \/ DaskExpires(c)
    \/ MarkerRead(c) \/ MarkerExpires(c) \/ MarkerLost(c)
    \/ Leave(c) \/ ReapDead(c) \/ Terminate(c) \/ WaitReturns(c) \/ KillSSH(c)

Next ==
    \/ \E c \in Clients :
        \/ ConnectNext(c) \/ BodyEnds(c) \/ DaskReconnects(c)
        \/ SetupFails(c) \/ WriteKeysFails(c) \/ DaskFails(c) \/ MarkerFails(c)
        \/ Interrupt(c) \/ DeadlinePasses(c) \/ SSHOpens(c) \/ SSHExits(c)
    \/ \E k \in Clusters : JobChanges(k) \/ CoordinatorPublishes(k)

Spec == Init /\ [][Next]_vars

(* The process runs and its deadlines pass.  Nothing is expected of ssh,   *)
(* of the Job, of the coordinator or of the body.                          *)
FairSpec ==
    Spec /\ \A c \in Clients : WF_vars(ConnectNext(c)) /\ WF_vars(DeadlinePasses(c))

-----------------------------------------------------------------------------
(* "Closing it stops [...] the local client and tunnel": once connect is   *)
(* left, however it was, its ssh has ended and was waited for, its private *)
(* key is off the disk and its connection is closed, except for a cleanup  *)
(* that an interrupt cut short, which does not keep the others from theirs.*)
NothingOutlivesConnect ==
    \A c \in Clients : pc[c] = "out" =>
        /\ ssh[c] \in {"none", "reaped"} \/ "tunnel" \in cut[c]
        /\ ~keys[c] \/ "keys" \in cut[c]
        /\ link[c] = Nobody \/ "client" \in cut[c]

(* connect "authenticates to Dask with the separately retained client      *)
(* certificate, and verifies the coordinator's published worker topology": *)
(* whoever's tunnel has the port, and however often the connection is lost *)
(* and opened again, the body works on the cluster of its credentials, and *)
(* one with a complete topology of the size the manifest says.  So a body  *)
(* never works on a cluster its manifest does not name, unless it was given*)
(* that cluster's credentials and the two clusters have the same size.     *)
YieldsOwnTopology ==
    \A c \in Clients : pc[c] = "body" /\ link[c] # Nobody =>
        /\ Reached(c) = call[c].credentials
        /\ marker[Reached(c)] = JobNodes[Reached(c)]
        /\ JobNodes[Reached(c)] = JobNodes[Manifest(c)]

(* Every wait of connect has a deadline, and so has the way out: it yields *)
(* or raises, and once left it is left, whatever ssh, the Job and the      *)
(* coordinator do or fail to do.                                           *)
ConnectDecides ==
    \A c \in Clients : pc[c] \notin {"body", "out"} ~> pc[c] \in {"body", "out"}

(* "Closing it stops only the local client and tunnel": the tunnel's end   *)
(* takes no client from the body of another connect.                       *)
StopsOnlyItsOwn ==
    \A c, d \in Clients :
        c # d /\ pc[c] = "term" /\ ssh[c] = "open" /\ ssh'[c] # "open" /\ pc[d] = "body"
            => link'[d] = link[d]

ClosingStopsOnlyItsOwn == [][StopsOnlyItsOwn]_vars
=============================================================================
