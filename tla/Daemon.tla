------------------------------- MODULE Daemon -------------------------------
(***************************************************************************)
(* The temniond process (apps/temniond): a server object that opens the    *)
(* store, starts an accept and a maintenance thread, serves every client   *)
(* in a thread of its own, and is shut down and dropped.                   *)
(***************************************************************************)
EXTENDS Integers, Sequences, FiniteSets

CONSTANTS
    Peers,          \* clients that connect
    MaxStarts       \* bound: servers made in one process

VARIABLES
    main,           \* what the thread that owns the server is doing
    starts,         \* servers made so far
    running,        \* DaemonServer::running
    listening,      \* the TNP listener is bound
    portTaken,      \* another process has the port
    backlog,        \* connections not accepted yet
    accepting,      \* the accept thread
    maintaining,    \* the maintenance thread
    serving,        \* the client threads: peer -> where it is
    storeLock       \* who holds the mutex of the store

daemonVars ==
    <<main, starts, running, listening, portTaken, backlog, accepting, maintaining, serving, storeLock>>

Nobody == "nobody"

DaemonInit ==
    /\ main = "none" /\ starts = 0
    /\ running = FALSE /\ listening = FALSE /\ portTaken \in BOOLEAN
    /\ backlog = <<>>
    /\ accepting = "off" /\ maintaining = "off"
    /\ serving = [p \in Peers |-> "off"]
    /\ storeLock = Nobody

(* Every thread that handles a client keeps the TnpServer, its store and   *)
(* the lock file of the store alive.                                       *)
StoreOpen == main # "none" \/ \E p \in Peers : serving[p] \notin {"off", "calling"}

(* new.  Store::open fails while another handle in the process has it.     *)
NewServer ==
    /\ main = "none" /\ starts < MaxStarts /\ ~StoreOpen
    /\ main' = "idle" /\ starts' = starts + 1 /\ running' = FALSE
    /\ UNCHANGED <<listening, portTaken, backlog, accepting, maintaining, serving, storeLock>>

(* start.  The flag is set before the bind, and a bind that fails leaves   *)
(* it set, with no thread behind it; a second start then answers Ok.       *)
Start ==
    /\ main = "idle" /\ ~running
    /\ running' = TRUE
    /\ IF portTaken THEN UNCHANGED <<listening, accepting, maintaining>>
       ELSE listening' = TRUE /\ accepting' = "check" /\ maintaining' = "check"
    /\ UNCHANGED <<main, starts, portTaken, backlog, serving, storeLock>>

-----------------------------------------------------------------------------
(* The accept thread: the flag, then a blocking accept.  Its end closes    *)
(* the listener.                                                           *)
AcceptCheck ==
    /\ accepting = "check"
    /\ accepting' = IF running THEN "accept" ELSE "gone"
    /\ listening' = running
    /\ backlog' = IF running THEN backlog ELSE <<>>
    /\ UNCHANGED <<main, starts, running, portTaken, maintaining, serving, storeLock>>

Accept ==
    /\ accepting = "accept" /\ backlog # <<>>
    /\ accepting' = "check"
    /\ backlog' = Tail(backlog)
    /\ serving' = IF Head(backlog) \in Peers THEN [serving EXCEPT ![Head(backlog)] = "hello"]
                  ELSE serving
    /\ UNCHANGED <<main, starts, running, listening, portTaken, maintaining, storeLock>>

(* A failed accept sleeps and looks at the flag again.                     *)
AcceptFails ==
    /\ accepting = "accept"
    /\ accepting' = "check"
    /\ UNCHANGED <<main, starts, running, listening, portTaken, backlog, maintaining, serving, storeLock>>

(* The maintenance thread polls the flag between its naps, then holds the  *)
(* store's mutex for a moment.                                             *)
Maintain ==
    \/ /\ maintaining = "check"
       /\ maintaining' \in IF running THEN {"check", "lock"} ELSE {"gone"}
       /\ UNCHANGED storeLock
    \/ /\ maintaining = "lock" /\ storeLock = Nobody
       /\ maintaining' = "locked" /\ storeLock' = "maintenance"
    \/ /\ maintaining = "locked"
       /\ maintaining' = "check" /\ storeLock' = Nobody

MaintenanceStep ==
    /\ Maintain
    /\ UNCHANGED <<main, starts, running, listening, portTaken, backlog, accepting, serving>>

-----------------------------------------------------------------------------
(* A client connects; handle_client waits 50 ms for its handshake, and     *)
(* then serves requests, each with the store locked, until it leaves.      *)
Dial(p) ==
    /\ listening /\ serving[p] = "off"
    /\ serving' = [serving EXCEPT ![p] = "calling"]
    /\ backlog' = Append(backlog, p)
    /\ UNCHANGED <<main, starts, running, listening, portTaken, accepting, maintaining, storeLock>>

Serving(p) ==
    \/ /\ serving[p] = "hello"
       /\ serving' = [serving EXCEPT ![p] = "loop"]
       /\ UNCHANGED storeLock
    \/ /\ serving[p] = "loop" /\ storeLock = Nobody
       /\ serving' = [serving EXCEPT ![p] = "request"] /\ storeLock' = p
    \/ /\ serving[p] = "request"
       /\ serving' = [serving EXCEPT ![p] = "loop"] /\ storeLock' = Nobody

ServeStep(p) ==
    /\ Serving(p)
    /\ UNCHANGED <<main, starts, running, listening, portTaken, backlog, accepting, maintaining>>

(* The handshake was late, or the client hung up, or the listener closed   *)
(* before its connection was accepted.                                     *)
Leave(p) ==
    /\ \/ serving[p] \in {"hello", "loop"}
       \/ serving[p] = "calling" /\ p \notin {backlog[i] : i \in DOMAIN backlog}
    /\ serving' = [serving EXCEPT ![p] = "off"]
    /\ UNCHANGED <<main, starts, running, listening, portTaken, backlog, accepting, maintaining, storeLock>>

-----------------------------------------------------------------------------
(* shutdown clears the flag, connects a probe, then joins both threads.    *)
StopFlag ==
    /\ main = "idle" /\ running
    /\ running' = FALSE
    /\ main' = "probe"
    /\ UNCHANGED <<starts, listening, portTaken, backlog, accepting, maintaining, serving, storeLock>>

(* Mutant: shutdown goes straight to the joins.                            *)
Probe_Skipped ==
    /\ main = "probe"
    /\ main' = "join"
    /\ UNCHANGED <<starts, running, listening, portTaken, backlog, accepting, maintaining, serving, storeLock>>

(* Nobody looks at the connect's result: it fails when the configured      *)
(* address is one to listen on only (port 0, or the wildcard on Windows).  *)
Probe ==
    /\ main = "probe"
    /\ \/ /\ main' = "join"
          /\ backlog' = IF listening THEN Append(backlog, "probe") ELSE backlog
       \/ listening /\ main' = "unprobed" /\ UNCHANGED backlog
    /\ UNCHANGED <<starts, running, listening, portTaken, accepting, maintaining, serving, storeLock>>

Join ==
    /\ main \in {"join", "unprobed"}
    /\ {accepting, maintaining} \subseteq {"off", "gone"}
    /\ accepting' = "off" /\ maintaining' = "off"
    /\ main' = "idle"
    /\ UNCHANGED <<starts, running, listening, portTaken, backlog, serving, storeLock>>

(* Drop calls shutdown, which returns at once when the flag is clear.      *)
DropServer ==
    /\ main = "idle" /\ ~running
    /\ main' = "none"
    /\ UNCHANGED <<starts, running, listening, portTaken, backlog, accepting, maintaining, serving, storeLock>>

PortChanges ==
    /\ ~listening
    /\ portTaken' = ~portTaken
    /\ UNCHANGED <<main, starts, running, listening, backlog, accepting, maintaining, serving, storeLock>>

DaemonNext ==
    \/ NewServer \/ Start \/ StopFlag \/ Probe \/ Join \/ DropServer
    \/ AcceptCheck \/ Accept \/ AcceptFails \/ MaintenanceStep
    \/ \E p \in Peers : Dial(p) \/ ServeStep(p) \/ Leave(p)
    \/ PortChanges

(* Threads are scheduled.  A waiter on the store's mutex gets it in the    *)
(* end, whatever the clients do; an accept need not fail.                  *)
DaemonFairness ==
    /\ WF_daemonVars(Probe) /\ WF_daemonVars(Join)
    /\ WF_daemonVars(AcceptCheck) /\ WF_daemonVars(Accept)
    /\ SF_daemonVars(MaintenanceStep /\ maintaining' # maintaining)
    /\ \A p \in Peers : WF_daemonVars(ServeStep(p) /\ serving[p] = "request")

-----------------------------------------------------------------------------
Stopped ==
    /\ main = "idle" /\ ~running /\ ~listening
    /\ accepting = "off" /\ maintaining = "off"

(* The probe failed and nobody else connects: the joined thread sits in    *)
(* accept.                                                                 *)
StuckInAccept == main = "unprobed" /\ accepting = "accept" /\ backlog = <<>>

(* shutdown returns, whatever its threads and clients are doing when it is *)
(* called, even after a start that failed; and by then no thread of its    *)
(* own is left and the port is free for the next server.  One thing only   *)
(* keeps it for ever: a probe that failed, with no connection after it.    *)
(* The threads of clients are not waited for.                              *)
ShutdownReturns == (main = "probe" ~> Stopped) \/ <>[]StuckInAccept
=============================================================================
