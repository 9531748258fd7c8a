---------------------------- MODULE ServerThreads ----------------------------
(***************************************************************************)
(* The threads of the server and their states: the watchdog loop of main(),*)
(* the listening and the miniSEED scanning threads (server threads, which  *)
(* the watchdog restarts), the client threads the listeners start, the     *)
(* connection limits, and the shutdown of all of them.                     *)
(*                                                                         *)
(* A section under cthreads_lock is one step; every read and every write   *)
(* of a td_state, of clientcount or of shutdownsig outside it is a step of *)
(* its own.  sthreads_lock is taken by the watchdog alone (and by INFO     *)
(* requests, which only read), so it orders nothing here.                  *)
(***************************************************************************)
EXTENDS Integers, FiniteSets

CONSTANTS
  Listeners,          \* LISTEN_THREAD entries of param.sthreads
  Scanners,           \* MSEEDSCAN_THREAD entries of param.sthreads
  Clients,            \* connections, in any order; each is made once
  NoClient,           \* a listener that is not admitting a connection
  Addresses,          \* IP addresses
  Addr,               \* Addr[c]: the address of connection c
  WriteIPs,           \* config.writeips
  MaxClients,         \* config.maxclients, 0 for no limit
  RESERVECONNECTIONS, \* 10 in the code
  MaxClientsPerIP,    \* config.maxclientsperip, 0 for no limit
  MaxSignals          \* bound: termination signals received

ASSUME ServerAssumption ==
  /\ IsFiniteSet(Listeners) /\ IsFiniteSet(Scanners) /\ IsFiniteSet(Clients)
  /\ Listeners \cap Scanners = {}
  /\ NoClient \notin Clients
  /\ Addr \in [Clients -> Addresses] /\ WriteIPs \subseteq Addresses
  /\ MaxClients \in Nat /\ RESERVECONNECTIONS \in Nat /\ MaxClientsPerIP \in Nat
  /\ MaxSignals \in Nat

ServerThreadSet == Listeners \cup Scanners

VARIABLES
  shutdownsig,         \* param.shutdownsig; 2 stands for 2 .. 99
  signals,             \* termination signals received
  wpc,                 \* the watchdog's next step
  wtodo,               \* server threads its current loop has yet to visit
  wsel,                \* scanning threads it found running, to be told to close
  server_thread_count, \* local variable of main(), 0 outside the monitoring loop
  forced,              \* history: main() left the loop by the safety valve
  std,                 \* td_state of each server thread, "none" for a NULL td
  spc,                 \* each server thread's next step
  socketopen,          \* lpp->socket of each listener is open
  conn,                \* the connection a listener is admitting
  ctd,                 \* td_state of each client thread
  cpc,                 \* each client thread's next step
  cthreads,            \* param.cthreads, the list of client threads
  clientcount          \* param.clientcount

wvars == <<wpc, wtodo, wsel, server_thread_count, forced>>
svars == <<std, spc, socketopen, conn>>
cvars == <<ctd, cpc, cthreads, clientcount>>
vars  == <<shutdownsig, signals, wvars, svars, cvars>>

ThreadState == {"SPAWNING", "ACTIVE", "CLOSE", "CLOSING", "CLOSED"}

SetState(t, state, label) ==
  /\ std' = [std EXCEPT ![t] = state]
  /\ spc' = [spc EXCEPT ![t] = label]

ServerGoto(t, label) == spc' = [spc EXCEPT ![t] = label] /\ UNCHANGED std
ClientGoto(c, label) == cpc' = [cpc EXCEPT ![c] = label] /\ UNCHANGED ctd

SetClient(c, state, label) ==
  /\ ctd' = [ctd EXCEPT ![c] = state]
  /\ cpc' = [cpc EXCEPT ![c] = label]

-----------------------------------------------------------------------------
(* SignalThread(): SIGINT or SIGTERM, also during a shutdown.              *)

Terminate ==
  /\ signals < MaxSignals
  /\ signals' = signals + 1
  /\ shutdownsig' = 1
  /\ UNCHANGED <<wvars, svars, cvars>>

-----------------------------------------------------------------------------
(* ListenThread()                                                          *)

LActive(l) ==
  /\ spc[l] = "start"
  /\ SetState(l, "ACTIVE", "loop")
  /\ UNCHANGED <<shutdownsig, signals, wvars, socketopen, conn, cvars>>

\* while (!param.shutdownsig)
LLoop(l) ==
  /\ spc[l] = "loop" /\ shutdownsig = 0
  /\ ServerGoto(l, "accept")
  /\ UNCHANGED <<shutdownsig, signals, wvars, socketopen, conn, cvars>>

\* accept() fails: for lack of resources or a broken connection it is tried
\* again, any other error ends the thread.
LAcceptError(l) ==
  /\ spc[l] = "accept" /\ socketopen[l]
  /\ ServerGoto(l, "loop") \/ SetState(l, "CLOSED", "ended")
  /\ UNCHANGED <<shutdownsig, signals, wvars, socketopen, conn, cvars>>

\* The server shuts down: the loop ends, or accept() fails because its socket
\* is closed, also while it waits.
LClosed(l) ==
  /\ \/ spc[l] = "loop" /\ shutdownsig # 0
     \/ spc[l] = "accept" /\ ~socketopen[l]
  /\ SetState(l, "CLOSED", "ended")
  /\ UNCHANGED <<shutdownsig, signals, wvars, socketopen, conn, cvars>>

LAccept(l, c) ==
  /\ spc[l] = "accept" /\ socketopen[l]
  /\ cpc[c] = "new"
  /\ conn' = [conn EXCEPT ![l] = c]
  /\ cpc' = [cpc EXCEPT ![c] = "accepted"]
  /\ ServerGoto(l, "perip")
  /\ UNCHANGED <<shutdownsig, signals, wvars, socketopen, ctd, cthreads, clientcount>>

\* The connection is closed and the listener takes the next one.
TurnAway(l) ==
  /\ conn' = [conn EXCEPT ![l] = NoClient]
  /\ cpc' = [cpc EXCEPT ![conn[l]] = "gone"]
  /\ ServerGoto(l, "loop")

\* The clients at an address, as ClientIPCount() counts them.
ClientIPCount(a) == Cardinality({c \in cthreads : ctd[c] = "ACTIVE" /\ Addr[c] = a})

MayWrite(c) == Addr[c] \in WriteIPs

\* The accept and deny lists, the PROXY header and the per-address limit.
LPerIP(l) ==
  /\ spc[l] = "perip"
  /\ \/ TurnAway(l)
     \/ /\ \/ MaxClientsPerIP = 0
           \/ MayWrite(conn[l])
           \/ ClientIPCount(Addr[conn[l]]) < MaxClientsPerIP
        /\ ServerGoto(l, "limit")
        /\ UNCHANGED <<conn, cpc>>
  /\ UNCHANGED <<shutdownsig, signals, wvars, socketopen, ctd, cthreads, clientcount>>

\* A mistake for AtLimit: one more client than the maximum is let in.
AtLimitExceeded == MaxClients # 0 /\ clientcount > MaxClients

AtLimit == MaxClients # 0 /\ clientcount >= MaxClients

\* config.maxclients: at the limit there is a reserve for writers.
LLimit(l) ==
  /\ spc[l] = "limit"
  /\ IF AtLimit
       THEN IF MayWrite(conn[l])
              THEN ServerGoto(l, "reserve") /\ UNCHANGED <<conn, cpc>>
              ELSE TurnAway(l)
       ELSE ServerGoto(l, "create") /\ UNCHANGED <<conn, cpc>>
  /\ UNCHANGED <<shutdownsig, signals, wvars, socketopen, ctd, cthreads, clientcount>>

LReserve(l) ==
  /\ spc[l] = "reserve"
  /\ IF clientcount <= MaxClients + RESERVECONNECTIONS
       THEN ServerGoto(l, "create") /\ UNCHANGED <<conn, cpc>>
       ELSE TurnAway(l)
  /\ UNCHANGED <<shutdownsig, signals, wvars, socketopen, ctd, cthreads, clientcount>>

\* pthread_create() of the client thread, or no memory for it.
LCreate(l) ==
  /\ spc[l] = "create"
  /\ \/ TurnAway(l) /\ UNCHANGED ctd
     \/ /\ SetClient(conn[l], "SPAWNING", "setup")
        /\ ServerGoto(l, "insert")
        /\ UNCHANGED conn
  /\ UNCHANGED <<shutdownsig, signals, wvars, socketopen, cthreads, clientcount>>

\* Under cthreads_lock.
LInsert(l) ==
  /\ spc[l] = "insert"
  /\ cthreads' = cthreads \cup {conn[l]}
  /\ clientcount' = clientcount + 1
  /\ conn' = [conn EXCEPT ![l] = NoClient]
  /\ ServerGoto(l, "loop")
  /\ UNCHANGED <<shutdownsig, signals, wvars, socketopen, ctd, cpc>>

\* What a listener does of its own accord, and what the network makes it do.
ListenStep(l) ==
  \/ LActive(l) \/ LLoop(l) \/ LClosed(l)
  \/ LPerIP(l) \/ LLimit(l) \/ LReserve(l) \/ LCreate(l) \/ LInsert(l)

ListenThread(l) ==
  ListenStep(l) \/ LAcceptError(l) \/ \E c \in Clients : LAccept(l, c)

-----------------------------------------------------------------------------
(* MS_ScanThread()                                                         *)

\* Initialize() fails.
SInitError(s) ==
  /\ spc[s] = "start"
  /\ SetState(s, "CLOSED", "ended")
  /\ UNCHANGED <<shutdownsig, signals, wvars, socketopen, conn, cvars>>

\* if (mytdp->td_state == TDS_SPAWNING)
SSpawned(s) ==
  /\ spc[s] = "start"
  /\ ServerGoto(s, IF std[s] = "SPAWNING" THEN "activate" ELSE "loop")
  /\ UNCHANGED <<shutdownsig, signals, wvars, socketopen, conn, cvars>>

SActive(s) ==
  /\ spc[s] = "activate"
  /\ SetState(s, "ACTIVE", "loop")
  /\ UNCHANGED <<shutdownsig, signals, wvars, socketopen, conn, cvars>>

\* while (mytdp->td_state == TDS_ACTIVE && scanerror == 0)
SLoop(s) ==
  /\ spc[s] = "loop" /\ std[s] = "ACTIVE"
  /\ ServerGoto(s, "scan")
  /\ UNCHANGED <<shutdownsig, signals, wvars, socketopen, conn, cvars>>

\* A scan goes well, or finds the ring corrupt, which ends the server.
SScan(s) ==
  /\ spc[s] = "scan"
  /\ \/ shutdownsig' = shutdownsig /\ ServerGoto(s, "loop")
     \/ shutdownsig' = 1 /\ ServerGoto(s, "leave")
  /\ UNCHANGED <<signals, wvars, socketopen, conn, cvars>>

\* The thread is told to close, or a scan fails.
SClosing(s) ==
  /\ \/ spc[s] \in {"scan", "leave"}
     \/ spc[s] = "loop" /\ std[s] # "ACTIVE"
  /\ SetState(s, "CLOSING", "cleanup")
  /\ UNCHANGED <<shutdownsig, signals, wvars, socketopen, conn, cvars>>

SClosed(s) ==
  /\ spc[s] = "cleanup"
  /\ SetState(s, "CLOSED", "ended")
  /\ UNCHANGED <<shutdownsig, signals, wvars, socketopen, conn, cvars>>

MS_ScanThread(s) ==
  SInitError(s) \/ SSpawned(s) \/ SActive(s) \/ SLoop(s) \/ SScan(s) \/ SClosing(s) \/ SClosed(s)

-----------------------------------------------------------------------------
(* ClientThread()                                                          *)

\* A mistake for StateOnActivation: a plain store of TDS_ACTIVE.
ActivateBlindly(c) == "ACTIVE"

\* atomic_compare_exchange_strong (&td_state, TDS_SPAWNING, TDS_ACTIVE)
StateOnActivation(c) == IF ctd[c] = "SPAWNING" THEN "ACTIVE" ELSE ctd[c]

CActive(c) ==
  /\ cpc[c] = "setup"
  /\ SetClient(c, StateOnActivation(c), "loop")
  /\ UNCHANGED <<shutdownsig, signals, wvars, svars, cthreads, clientcount>>

\* while (mytdp->td_state != TDS_CLOSE)
CLoop(c) ==
  /\ cpc[c] = "loop" /\ ctd[c] # "CLOSE"
  /\ ClientGoto(c, "serve")
  /\ UNCHANGED <<shutdownsig, signals, wvars, svars, cthreads, clientcount>>

\* One round of receiving, handling commands and streaming.  A WRITE that
\* finds the ring corrupt ends the server.
CServe(c) ==
  /\ cpc[c] = "serve"
  /\ \/ shutdownsig' = shutdownsig /\ ClientGoto(c, "loop")
     \/ shutdownsig' = 1 /\ ClientGoto(c, "leave")
  /\ UNCHANGED <<signals, wvars, svars, cthreads, clientcount>>

\* The setup failed, a round ended with an error, a timeout or the peer's
\* goodbye, or the thread is told to close.
Leaving(c) ==
  \/ cpc[c] \in {"setup", "serve", "leave"}
  \/ cpc[c] = "loop" /\ ctd[c] = "CLOSE"

\* A mistake for CClosing: the client frees its ClientInfo while ACTIVE.
CClosingLate(c) ==
  /\ Leaving(c)
  /\ ClientGoto(c, "cleanup")
  /\ UNCHANGED <<shutdownsig, signals, wvars, svars, cthreads, clientcount>>

\* Under cthreads_lock; what follows frees the members of ClientInfo.
CClosing(c) ==
  /\ Leaving(c)
  /\ SetClient(c, "CLOSING", "cleanup")
  /\ UNCHANGED <<shutdownsig, signals, wvars, svars, cthreads, clientcount>>

\* Under cthreads_lock, after the cleanup; the thread returns.
CClosed(c) ==
  /\ cpc[c] = "cleanup"
  /\ SetClient(c, "CLOSED", "ended")
  /\ UNCHANGED <<shutdownsig, signals, wvars, svars, cthreads, clientcount>>

ClientThread(c) ==
  CActive(c) \/ CLoop(c) \/ CServe(c) \/ CClosing(c) \/ CClosed(c)

-----------------------------------------------------------------------------
(* The watchdog loop of main()                                             *)

\* One-time transition into the shutdown sequence.
WTop ==
  /\ wpc = "top"
  /\ shutdownsig' = IF shutdownsig = 1 THEN 2 ELSE shutdownsig
  /\ wpc' = "request"
  /\ UNCHANGED <<signals, wtodo, wsel, server_thread_count, forced, svars, cvars>>

\* The monitoring loop over the server threads begins.
BeginMonitor ==
  /\ wpc' = "monitor"
  /\ wtodo' = ServerThreadSet

WRequest ==
  /\ wpc = "request"
  /\ IF shutdownsig >= 1
       THEN wpc' = "rserver" /\ wtodo' = ServerThreadSet
       ELSE BeginMonitor
  /\ UNCHANGED <<shutdownsig, signals, wsel, server_thread_count, forced, svars, cvars>>

\* A mistake for WCloseListener: the socket is left open.
WSkipListener(l) ==
  /\ wpc = "rserver" /\ wsel = {} /\ l \in wtodo
  /\ wtodo' = wtodo \ {l}
  /\ UNCHANGED <<shutdownsig, signals, wpc, wsel, server_thread_count, forced, svars, cvars>>

\* Close a listener's socket.
WCloseListener(l) ==
  /\ wpc = "rserver" /\ wsel = {} /\ l \in wtodo
  /\ socketopen' = [socketopen EXCEPT ![l] = FALSE]
  /\ wtodo' = wtodo \ {l}
  /\ UNCHANGED <<shutdownsig, signals, wpc, wsel, server_thread_count, forced, std, spc, conn, cvars>>

\* Look at the state of a scanning thread ...
WTestScanner(s) ==
  /\ wpc = "rserver" /\ wsel = {} /\ s \in wtodo
  /\ wsel' = IF std[s] \in {"SPAWNING", "ACTIVE"} THEN {s} ELSE {}
  /\ wtodo' = wtodo \ {s}
  /\ UNCHANGED <<shutdownsig, signals, wpc, server_thread_count, forced, svars, cvars>>

\* ... and tell it to close.
WCloseScanner(s) ==
  /\ wpc = "rserver" /\ s \in wsel
  /\ std' = [std EXCEPT ![s] = "CLOSE"]
  /\ wsel' = {}
  /\ UNCHANGED <<shutdownsig, signals, wpc, wtodo, server_thread_count, forced, spc, socketopen, conn, cvars>>

ToldToClose == {c \in cthreads : ctd[c] \in {"SPAWNING", "ACTIVE"}}

\* Under cthreads_lock: tell every client to close.
WCloseClients ==
  /\ wpc = "rserver" /\ wtodo = {} /\ wsel = {}
  /\ ctd' = [c \in Clients |-> IF c \in ToldToClose THEN "CLOSE" ELSE ctd[c]]
  /\ wpc' = "valve"
  /\ UNCHANGED <<shutdownsig, signals, wtodo, wsel, server_thread_count, forced, svars, cpc, cthreads, clientcount>>

WContinue ==
  /\ wpc = "valve"
  /\ BeginMonitor
  /\ UNCHANGED <<shutdownsig, signals, wsel, server_thread_count, forced, svars, cvars>>

\* The safety valve: shutdownsig has counted 100 rounds of the shutdown.
WValve ==
  /\ wpc = "valve" /\ shutdownsig = 2
  /\ wpc' = "done" /\ forced' = TRUE
  /\ UNCHANGED <<shutdownsig, signals, wtodo, wsel, server_thread_count, svars, cvars>>

\* Count a server thread, join it when it has CLOSED and start it when it is
\* not running and the server is not shutting down (which may fail).
WMonitor(t) ==
  /\ wpc = "monitor" /\ t \in wtodo
  /\ wtodo' = wtodo \ {t}
  /\ server_thread_count' = server_thread_count + (IF std[t] = "none" THEN 0 ELSE 1)
  /\ IF std[t] \in {"none", "CLOSED"}
       THEN \/ shutdownsig = 0 /\ SetState(t, "SPAWNING", "start")
            \/ SetState(t, "none", "none")
       ELSE UNCHANGED <<std, spc>>
  /\ UNCHANGED <<shutdownsig, signals, wpc, wsel, forced, socketopen, conn, cvars>>

\* Under cthreads_lock: reap the CLOSED client threads and close idle ones.
WReap ==
  /\ wpc = "monitor" /\ wtodo = {}
  /\ LET closed == {c \in cthreads : ctd[c] = "CLOSED"}
         active == {c \in cthreads : ctd[c] = "ACTIVE"}
     IN  /\ cthreads' = cthreads \ closed
         /\ clientcount' = IF clientcount > Cardinality(closed)
                              THEN clientcount - Cardinality(closed) ELSE 0
         /\ cpc' = [c \in Clients |-> IF c \in closed THEN "gone" ELSE cpc[c]]
         /\ \E idle \in SUBSET active :
              ctd' = [c \in Clients |-> IF c \in closed THEN "none"
                                        ELSE IF c \in idle THEN "CLOSE" ELSE ctd[c]]
  /\ wpc' = "exit"
  /\ UNCHANGED <<shutdownsig, signals, wtodo, wsel, server_thread_count, forced, svars>>

\* A mistake for AllDone: the server threads are not waited for.
AllClientsDone == shutdownsig >= 2 /\ clientcount = 0

AllDone == shutdownsig >= 2 /\ clientcount = 0 /\ server_thread_count = 0

\* A mistake for WExit: the next round goes on with the old count.
WExitNoReset ==
  /\ wpc = "exit"
  /\ wpc' = IF AllDone THEN "done" ELSE "top"
  /\ UNCHANGED <<shutdownsig, signals, wtodo, wsel, server_thread_count, forced, svars, cvars>>

\* The count of server threads starts again from 0 in the next round.
WExit ==
  /\ wpc = "exit"
  /\ wpc' = IF AllDone THEN "done" ELSE "top"
  /\ server_thread_count' = 0
  /\ UNCHANGED <<shutdownsig, signals, wtodo, wsel, forced, svars, cvars>>

Watchdog ==
  \/ WTop \/ WRequest
  \/ \E l \in Listeners : WCloseListener(l)
  \/ \E s \in Scanners : WTestScanner(s) \/ WCloseScanner(s)
  \/ WCloseClients \/ WContinue
  \/ \E t \in ServerThreadSet : WMonitor(t)
  \/ WReap \/ WExit

-----------------------------------------------------------------------------
Init ==
  /\ shutdownsig = 0 /\ signals = 0
  /\ wpc = "top" /\ wtodo = {} /\ wsel = {} /\ server_thread_count = 0 /\ forced = FALSE
  /\ std = [t \in ServerThreadSet |-> "none"]
  /\ spc = [t \in ServerThreadSet |-> "none"]
  /\ socketopen = [l \in Listeners |-> TRUE]
  /\ conn = [l \in Listeners |-> NoClient]
  /\ ctd = [c \in Clients |-> "none"]
  /\ cpc = [c \in Clients |-> "new"]
  /\ cthreads = {}
  /\ clientcount = 0

\* The process ends with main(), whatever its threads are doing.
Next ==
  /\ wpc # "done"
  /\ \/ Terminate
     \/ Watchdog \/ WValve
     \/ \E l \in Listeners : ListenThread(l)
     \/ \E s \in Scanners : MS_ScanThread(s)
     \/ \E c \in Clients : ClientThread(c)

Spec == Init /\ [][Next]_vars

(* Every thread is scheduled and its steps end: waits for the network are  *)
(* bounded by poll() timeouts (clients.c, SendDataMB(), RecvData()).  Only *)
(* accept() may wait for ever, until its socket is closed.  Nothing makes  *)
(* the valve fire.                                                         *)
FairSpec ==
  /\ Spec
  /\ WF_vars(wpc # "done" /\ Watchdog)
  /\ \A l \in Listeners : WF_vars(wpc # "done" /\ ListenStep(l))
  /\ \A s \in Scanners : WF_vars(wpc # "done" /\ MS_ScanThread(s))
  /\ \A c \in Clients : WF_vars(wpc # "done" /\ ClientThread(c))

-----------------------------------------------------------------------------
TypeOK ==
  /\ shutdownsig \in {0, 1, 2} /\ signals \in Nat
  /\ wpc \in {"top", "request", "rserver", "valve", "monitor", "exit", "done"}
  /\ wtodo \subseteq ServerThreadSet /\ wsel \subseteq Scanners
  /\ server_thread_count \in 0 .. Cardinality(ServerThreadSet)
  /\ forced \in BOOLEAN
  /\ std \in [ServerThreadSet -> ThreadState \cup {"none"}]
  /\ spc \in [ServerThreadSet ->
               {"none", "start", "loop", "accept", "perip", "limit", "reserve", "create",
                "insert", "activate", "scan", "leave", "cleanup", "ended"}]
  /\ socketopen \in [Listeners -> BOOLEAN]
  /\ conn \in [Listeners -> Clients \cup {NoClient}]
  /\ ctd \in [Clients -> ThreadState \cup {"none"}]
  /\ cpc \in [Clients -> {"new", "accepted", "setup", "loop", "serve",
                          "leave", "cleanup", "ended", "gone"}]
  /\ cthreads \subseteq Clients
  /\ clientcount \in 0 .. Cardinality(Clients)

\* The client thread runs: it may use the ring.
Running(c) == cpc[c] \in {"setup", "loop", "serve", "leave", "cleanup"}

(* When main() leaves the watchdog loop in order and shuts the ring down,  *)
(* no server thread and no client thread is left that could use the ring:  *)
(* also not one a listener had accepted but not listed yet (ringserver.c,  *)
(* exit test of the watchdog loop).                                        *)
NothingOutlivesServer ==
  wpc = "done" /\ ~forced =>
    /\ \A t \in ServerThreadSet : spc[t] \in {"none", "ended"}
    /\ \A c \in Clients : ~Running(c)

(* Whoever walks the client list under cthreads_lock may look into the     *)
(* ClientInfo of a thread that is TDS_ACTIVE: its cleanup has not begun    *)
(* (clients.c, the discipline stated at ClientThread()).                   *)
ActiveMeansAlive ==
  \A c \in cthreads : ctd[c] = "ACTIVE" => cpc[c] \in {"loop", "serve", "leave"}

(* A request to close a client, by the idle timeout or by the shutdown, is *)
(* never lost: the thread answers it by closing (clients.c, the atomic     *)
(* transition to TDS_ACTIVE).                                              *)
CloseIsFinal ==
  [][\A c \in Clients : ctd[c] = "CLOSE" => ctd'[c] \in {"CLOSE", "CLOSING"}]_vars

\* The clients in the list that have no write permission.
Unprivileged == {c \in cthreads : ~MayWrite(c)}

(* A single listener never admits a client without write permission beyond *)
(* MaxClients, though the count it checks is not the one it increments; of *)
(* several, each that checks at the same time may add one, and writers do  *)
(* not help such clients in: never are more than MaxClients of them listed *)
(* plus one for each further listener (ringserver.c, ConfigClient() and    *)
(* ListenThread()).  What the reserve for writers amounts to is left open. *)
AdmissionBound ==
  [][\A c \in cthreads' \ cthreads :
       MaxClients # 0 /\ ~MayWrite(c) =>
         /\ Cardinality(Listeners) = 1 => clientcount' <= MaxClients
         /\ Cardinality(Unprivileged') < MaxClients + Cardinality(Listeners)]_vars

\* The watchdog overwrote the TDS_CLOSED of a scanning thread that ended.
Lost(s) == spc[s] = "ended" /\ std[s] # "CLOSED"

(* A shutdown comes to its end without the safety valve, unless a scanning *)
(* thread's last state was overwritten (ringserver.c, "should never get    *)
(* here").                                                                 *)
ShutdownCompletes ==
  shutdownsig > 0 ~> (wpc = "done" \/ \E s \in Scanners : Lost(s))

(* A server thread that has ended says so, and will be joined: the passes  *)
(* that request its shutdown "skip threads already CLOSING/CLOSED"         *)
(* (ringserver.c, shutdown requests of the watchdog).                      *)
EndedIsClosed == \A s \in Scanners : ~Lost(s)

(* No more than MaxClientsPerIP clients of an address without write        *)
(* permission are served at a time (doc/ring.conf, MaxClientsPerIP).       *)
PerAddressLimit ==
  MaxClientsPerIP # 0 =>
    \A a \in Addresses \ WriteIPs :
      Cardinality({c \in Clients : ctd[c] = "ACTIVE" /\ Addr[c] = a}) <= MaxClientsPerIP

=============================================================================
