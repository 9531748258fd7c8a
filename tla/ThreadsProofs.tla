---------------------------- MODULE ThreadsProofs ----------------------------
(***************************************************************************)
(* The life of the server's threads, for any number of listeners, scanning *)
(* threads and connections: when main() leaves the watchdog loop in order  *)
(* nothing is left that could use the ring, a client in the list that is   *)
(* ACTIVE has all its resources, a request to close is never lost, and the *)
(* connection limits hold at the moment a client is listed.                *)
(***************************************************************************)
EXTENDS ServerThreads, FiniteSetTheorems, TLAPS

\* The thread of the client exists, joined or not.
Lives == {"setup", "loop", "serve", "leave", "cleanup", "ended"}

\* The listener has a connection in hand; before the thread is created; and
\* after the limits are checked, with a client that may not write.
Screening == {"perip", "limit", "reserve", "create"}
Admitting == Screening \cup {"insert"}
Approved  == {l \in Listeners : spc[l] \in {"create", "insert"} /\ ~MayWrite(conn[l])}

\* What a client thread's td_state says of what it does.
ClientStates ==
  \A c \in Clients :
    /\ cpc[c] \in {"new", "accepted", "gone"} => ctd[c] = "none"
    /\ cpc[c] = "setup" => ctd[c] \in {"SPAWNING", "CLOSE"}
    /\ cpc[c] \in {"loop", "serve", "leave"} => ctd[c] \in {"ACTIVE", "CLOSE"}
    /\ cpc[c] = "cleanup" => ctd[c] = "CLOSING"
    /\ cpc[c] = "ended" => ctd[c] = "CLOSED"

\* A listener holds at most one connection, and no two hold the same.
Admissions ==
  /\ \A l \in Listeners :
       /\ spc[l] \in Admitting <=> conn[l] # NoClient
       /\ spc[l] \in Screening => cpc[conn[l]] = "accepted"
       /\ spc[l] = "insert" => cpc[conn[l]] \in Lives /\ conn[l] \notin cthreads
  /\ \A k, l \in Listeners : k # l /\ conn[k] # NoClient => conn[k] # conn[l]

\* Every client thread is in the list, or its listener is about to put it there.
Listed ==
  /\ \A c \in cthreads : cpc[c] \in Lives
  /\ \A c \in Clients : cpc[c] \in Lives =>
       c \in cthreads \/ \E l \in Listeners : spc[l] = "insert" /\ conn[l] = c

CountAgrees == clientcount = Cardinality(cthreads)

\* What a server thread's td_state says of what it does.
ServerStates ==
  /\ \A t \in ServerThreadSet :
       /\ std[t] = "none" <=> spc[t] = "none"
       /\ std[t] = "CLOSED" => spc[t] = "ended"
  /\ \A s \in wsel : std[s] # "none"
  /\ wsel # {} => wpc = "rserver"

Counting == wpc \in {"monitor", "exit"}

\* The watchdog counts each server thread at most once a round, and outside
\* the monitoring loop the count is 0.
RoundCount ==
  /\ server_thread_count <= Cardinality(ServerThreadSet \ wtodo)
  /\ ~Counting => server_thread_count = 0
  /\ wpc = "exit" => wtodo = {}

\* In a round that began under shutdownsig 2, a thread that was visited and
\* not counted is not there, and stays away.
Quiet ==
  /\ Counting /\ shutdownsig = 2 /\ server_thread_count = 0 =>
       \A t \in ServerThreadSet \ wtodo : std[t] = "none"
  /\ wpc = "done" /\ ~forced =>
       cthreads = {} /\ \A t \in ServerThreadSet : std[t] = "none"

\* Each listener that has checked the limits may still add one client.
RoomLeft ==
  MaxClients # 0 =>
    Cardinality(Unprivileged) + Cardinality(Approved) < MaxClients + Cardinality(Listeners)

\* Only a writer is let into the reserve, and what a single listener found when
\* it checked the limits still holds when it lists the client.
Screened ==
  MaxClients # 0 =>
    \A l \in Listeners :
      /\ spc[l] = "reserve" => MayWrite(conn[l])
      /\ spc[l] \in {"create", "insert"} /\ Cardinality(Listeners) <= 1 /\ ~MayWrite(conn[l]) =>
           clientcount < MaxClients

IInv ==
  /\ TypeOK /\ ClientStates /\ Admissions /\ Listed /\ CountAgrees
  /\ ServerStates /\ RoundCount /\ Quiet /\ RoomLeft /\ Screened

-----------------------------------------------------------------------------
(* Counting listeners, threads and clients                                 *)

\* The sets whose members the code counts are finite.
LEMMA Finiteness ==
  /\ IsFiniteSet(ServerThreadSet) /\ Cardinality(ServerThreadSet) \in Nat
  /\ Cardinality(Listeners) \in Nat /\ Cardinality(Clients) \in Nat
  /\ IsFiniteSet(Approved) /\ Cardinality(Approved) \in 0 .. Cardinality(Listeners)
  /\ \A S \in SUBSET ServerThreadSet :
       IsFiniteSet(S) /\ Cardinality(S) \in 0 .. Cardinality(ServerThreadSet)
  /\ \A S \in SUBSET Clients : IsFiniteSet(S) /\ Cardinality(S) \in 0 .. Cardinality(Clients)
  /\ TypeOK => IsFiniteSet(Unprivileged) /\ Cardinality(Unprivileged) \in 0 .. Cardinality(cthreads)
<1>1. IsFiniteSet(ServerThreadSet)
  BY ServerAssumption, FS_Union DEF ServerThreadSet
<1>2. Approved \in SUBSET Listeners
  BY DEF Approved
<1>3. ASSUME TypeOK
      PROVE  IsFiniteSet(Unprivileged) /\ Cardinality(Unprivileged) \in 0 .. Cardinality(cthreads)
  <2>1. Unprivileged \in SUBSET cthreads /\ IsFiniteSet(cthreads)
    BY <1>3, ServerAssumption, FS_Subset DEF Unprivileged, TypeOK
  <2> QED
    BY <2>1, FS_CardinalityType, FS_Subset
<1> QED
  BY <1>1, <1>2, <1>3, ServerAssumption, FS_CardinalityType, FS_Subset

\* The same in the next state.
LEMMA FinitenessNext ==
  IsFiniteSet(Approved') /\ Cardinality(Approved') \in 0 .. Cardinality(Listeners)
<1>1. Approved' \in SUBSET Listeners
  BY DEF Approved
<1> QED
  BY <1>1, ServerAssumption, FS_CardinalityType, FS_Subset

\* A server with one listener has no other.
LEMMA OneListener ==
  ASSUME Cardinality(Listeners) <= 1, NEW k \in Listeners, NEW l \in Listeners
  PROVE  k = l
<1>1. Cardinality({k}) = 1 /\ IsFiniteSet({k})
  BY FS_Singleton
<1>2. Cardinality(Listeners) = Cardinality({k})
  BY <1>1, Finiteness, ServerAssumption, FS_Subset
<1> QED
  BY <1>2, ServerAssumption, FS_Subset

\* A step after which no more listeners are past the limits, and no more
\* clients are in the list, leaves as much room as before.
LEMMA KeepsRoom ==
  ASSUME TypeOK, cthreads' \subseteq cthreads, Approved' \subseteq Approved, RoomLeft
  PROVE  RoomLeft'
<1>1. Cardinality(Approved') <= Cardinality(Approved)
  BY Finiteness, FS_Subset
<1>2. Unprivileged' \subseteq Unprivileged
  BY DEF Unprivileged, MayWrite
<1>3. Cardinality(Unprivileged') \in Nat /\ Cardinality(Unprivileged') <= Cardinality(Unprivileged)
  BY <1>2, Finiteness, FS_Subset, FS_CardinalityType
<1>4. Cardinality(Unprivileged) \in Nat
  BY Finiteness, FS_CardinalityType
<1> QED
  BY <1>1, <1>3, <1>4, Finiteness, FinitenessNext, ServerAssumption DEF RoomLeft, TypeOK

-----------------------------------------------------------------------------
(* The steps of a client thread                                            *)

\* Nothing but the client's own state changes, and the thread stays one that
\* is in the list or about to be.
LEMMA ClientPreserves ==
  ASSUME IInv, NEW c \in Clients, ClientThread(c)
  PROVE  IInv'
<1> USE DEF IInv
<1>1. /\ cpc[c] \in Lives
      /\ cpc' \in [Clients -> Lives \cup {"new", "accepted", "gone"}] /\ cpc'[c] \in Lives
      /\ \A d \in Clients \ {c} : cpc'[d] = cpc[d] /\ ctd'[d] = ctd[d]
      /\ ctd' \in [Clients -> ThreadState \cup {"none"}]
      /\ shutdownsig' \in {shutdownsig, 1}
      /\ UNCHANGED <<signals, wvars, svars, cthreads, clientcount>>
  BY DEF ClientThread, CActive, CLoop, CServe, CClosing, CClosed, Leaving, SetClient, ClientGoto,
         StateOnActivation, TypeOK, ThreadState, Lives, ClientStates
<1>2. TypeOK'
  BY <1>1 DEF TypeOK, Lives, wvars, svars
<1>3. ClientStates'
  BY DEF ClientThread, CActive, CLoop, CServe, CClosing, CClosed, Leaving, SetClient, ClientGoto,
         StateOnActivation, TypeOK, ClientStates
<1>4. Admissions'
  BY <1>1 DEF Admissions, Admitting, Screening, TypeOK, Lives, svars
<1>7. Listed'
  BY <1>1 DEF Listed, TypeOK, svars
<1>5. ServerStates' /\ RoundCount' /\ Quiet' /\ CountAgrees'
  BY <1>1 DEF ServerStates, RoundCount, Quiet, CountAgrees, Counting, wvars, svars
<1>6. RoomLeft' /\ Screened'
  BY <1>1 DEF RoomLeft, Screened, Approved, Unprivileged, MayWrite, wvars, svars
<1> QED
  BY <1>2, <1>3, <1>4, <1>5, <1>6, <1>7

-----------------------------------------------------------------------------
(* The steps of a server thread                                            *)

\* A step of a server thread that runs, which leaves the watchdog alone.
ThreadSteps(t) ==
  /\ spc[t] # "none" /\ spc'[t] # "none" /\ std'[t] # "none"
  /\ std'[t] = "CLOSED" => spc'[t] = "ended"
  /\ std' \in [ServerThreadSet -> ThreadState \cup {"none"}]
  /\ \A u \in ServerThreadSet \ {t} : std'[u] = std[u] /\ spc'[u] = spc[u]
  /\ shutdownsig' \in {shutdownsig, 1}
  /\ UNCHANGED <<wvars, socketopen>>

\* Such a step keeps what the watchdog has found out so far.
LEMMA ThreadKeepsRound ==
  ASSUME IInv, wpc # "done", NEW t \in ServerThreadSet, ThreadSteps(t)
  PROVE  ServerStates' /\ RoundCount' /\ Quiet'
<1> USE DEF IInv
<1>1. ServerStates'
  BY DEF ServerStates, ThreadSteps, TypeOK, wvars, ServerThreadSet
<1>2. RoundCount'
  BY DEF RoundCount, Counting, ThreadSteps, wvars
<1>3. Quiet'
  BY DEF Quiet, Counting, ServerStates, ThreadSteps, wvars
<1> QED
  BY <1>1, <1>2, <1>3

\* A scanning thread changes its own state, and ends the server at most.
LEMMA ScannerPreserves ==
  ASSUME IInv, wpc # "done", NEW s \in Scanners, MS_ScanThread(s)
  PROVE  IInv'
<1> USE DEF IInv
<1>1. s \in ServerThreadSet /\ s \notin Listeners
  BY ServerAssumption DEF ServerThreadSet
<1>2. ThreadSteps(s)
  BY <1>1 DEF MS_ScanThread, SInitError, SSpawned, SActive, SLoop, SScan, SClosing, SClosed,
              SetState, ServerGoto, ThreadSteps, ServerStates, TypeOK, ThreadState, wvars
<1>3. UNCHANGED <<signals, socketopen, conn, cvars>>
  BY DEF MS_ScanThread, SInitError, SSpawned, SActive, SLoop, SScan, SClosing, SClosed
<1>4. spc' \in [ServerThreadSet -> {"none", "start", "loop", "accept", "perip", "limit", "reserve",
                  "create", "insert", "activate", "scan", "leave", "cleanup", "ended"}]
  BY <1>1 DEF MS_ScanThread, SInitError, SSpawned, SActive, SLoop, SScan, SClosing, SClosed,
              SetState, ServerGoto, TypeOK
<1>5. \A l \in Listeners : spc'[l] = spc[l]
  BY <1>1, <1>2 DEF ThreadSteps, ServerThreadSet
<1>6. TypeOK'
  BY <1>2, <1>3, <1>4 DEF ThreadSteps, TypeOK, wvars, cvars
<1>7. ClientStates' /\ Listed' /\ CountAgrees'
  BY <1>3, <1>5 DEF ClientStates, Listed, CountAgrees, cvars
<1>8. Admissions'
  BY <1>3, <1>5 DEF Admissions, cvars
<1>9. RoomLeft' /\ Screened'
  BY <1>3, <1>5 DEF RoomLeft, Screened, Approved, Unprivileged, MayWrite, cvars
<1> QED
  BY <1>1, <1>2, <1>6, <1>7, <1>8, <1>9, ThreadKeepsRound

\* What is common to the steps of a listening thread.
LEMMA ListenerSteps ==
  ASSUME IInv, NEW l \in Listeners, ListenThread(l)
  PROVE  /\ ThreadSteps(l) /\ l \in ServerThreadSet
         /\ spc' \in [ServerThreadSet -> {"none", "start", "loop", "accept", "perip", "limit",
                       "reserve", "create", "insert", "activate", "scan", "leave", "cleanup", "ended"}]
         /\ UNCHANGED <<shutdownsig, signals, wvars, socketopen>>
         /\ \A k \in Listeners \ {l} : spc'[k] = spc[k]
<1> USE DEF IInv
<1>1. l \in ServerThreadSet
  BY DEF ServerThreadSet
<1>2. UNCHANGED <<shutdownsig, signals, wvars, socketopen>>
  BY DEF ListenThread, ListenStep, LActive, LLoop, LClosed, LPerIP, LLimit, LReserve, LCreate, LInsert,
         LAcceptError, LAccept
<1>3. \E label \in {"loop", "accept", "perip", "limit", "reserve", "create", "insert", "ended"} :
        /\ spc' = [spc EXCEPT ![l] = label]
        /\ \/ UNCHANGED std
           \/ std' = [std EXCEPT ![l] = "ACTIVE"]
           \/ std' = [std EXCEPT ![l] = "CLOSED"] /\ label = "ended"
  BY DEF ListenThread, ListenStep, LActive, LLoop, LClosed, LPerIP, LLimit, LReserve, LCreate, LInsert,
         LAcceptError, LAccept, TurnAway, SetState, ServerGoto
<1>4. spc[l] \notin {"none", "ended"}
  BY DEF ListenThread, ListenStep, LActive, LLoop, LClosed, LPerIP, LLimit, LReserve, LCreate, LInsert,
         LAcceptError, LAccept
<1>5. ThreadSteps(l)
  BY <1>1, <1>2, <1>3, <1>4 DEF ThreadSteps, ServerStates, TypeOK, ThreadState
<1> QED
  BY <1>1, <1>2, <1>3, <1>5 DEF TypeOK, ThreadSteps, ServerThreadSet

\* What a listener may change besides its own state.
ClientTypes ==
  /\ conn \in [Listeners -> Clients \cup {NoClient}]
  /\ ctd \in [Clients -> ThreadState \cup {"none"}]
  /\ cpc \in [Clients -> Lives \cup {"new", "accepted", "gone"}]
  /\ cthreads \subseteq Clients
  /\ clientcount \in 0 .. Cardinality(Clients)

\* What a listener's step must keep.
ClientInv ==
  /\ ClientTypes /\ ClientStates /\ Admissions /\ Listed
  /\ CountAgrees /\ RoomLeft /\ Screened

\* The listener has no connection in hand, before and after.
LEMMA IdlePreserves ==
  ASSUME IInv, NEW l \in Listeners, ListenThread(l),
         spc[l] \notin Admitting, spc'[l] \notin Admitting,
         UNCHANGED <<conn, ctd, cpc, cthreads, clientcount>>
  PROVE  ClientInv'
<1> USE DEF IInv
<1>1. ClientTypes' /\ ClientStates' /\ CountAgrees'
  BY DEF TypeOK, ClientTypes, ClientStates, CountAgrees, Lives
<1>2. Admissions' /\ Listed'
  BY ListenerSteps DEF Admissions, Listed, Admitting, Screening
<1>3. Approved' \subseteq Approved
  BY ListenerSteps DEF Approved, MayWrite, Admitting, Screening
<1>4. RoomLeft'
  BY <1>3, KeepsRoom DEF TypeOK
<1>5. Screened'
  BY ListenerSteps DEF Screened, Admitting, Screening, MayWrite
<1> QED
  BY <1>1, <1>2, <1>4, <1>5 DEF ClientInv

\* The listener accepts a connection.
LEMMA AcceptPreserves ==
  ASSUME IInv, NEW l \in Listeners, NEW c \in Clients, LAccept(l, c)
  PROVE  ClientInv'
<1> USE DEF IInv
<1>1. /\ ListenThread(l) /\ spc[l] = "accept" /\ spc'[l] = "perip" /\ cpc[c] = "new"
      /\ conn' = [conn EXCEPT ![l] = c] /\ cpc' = [cpc EXCEPT ![c] = "accepted"]
      /\ UNCHANGED <<ctd, cthreads, clientcount>>
  BY DEF ListenThread, LAccept, ServerGoto, TypeOK, ServerThreadSet
<1>2. \A k \in Listeners \ {l} : spc'[k] = spc[k] /\ conn'[k] = conn[k] /\ conn[k] # c
  BY <1>1, ListenerSteps, ServerAssumption DEF Admissions, TypeOK, Admitting, Screening, Lives
<1>3. ClientTypes' /\ ClientStates' /\ CountAgrees'
  BY <1>1 DEF TypeOK, ClientTypes, ClientStates, CountAgrees, Lives
<1>4. Admissions'
  BY <1>1, <1>2, ServerAssumption DEF Admissions, Admitting, Screening, Lives, TypeOK
<1>5. Listed'
  BY <1>1, <1>2 DEF Listed, Lives, TypeOK
<1>6. Approved' \subseteq Approved
  BY <1>1, <1>2 DEF Approved, MayWrite
<1>7. RoomLeft'
  BY <1>1, <1>6, KeepsRoom DEF TypeOK
<1>8. Screened'
  BY <1>1, <1>2 DEF Screened, MayWrite
<1> QED
  BY <1>3, <1>4, <1>5, <1>7, <1>8 DEF ClientInv

\* The listener turns a connection away.
LEMMA TurnAwayPreserves ==
  ASSUME IInv, NEW l \in Listeners, ListenThread(l), spc[l] \in Screening,
         TurnAway(l), UNCHANGED <<ctd, cthreads, clientcount>>
  PROVE  ClientInv'
<1> USE DEF IInv
<1> DEFINE c == conn[l]
<1>1. /\ spc'[l] = "loop" /\ c \in Clients /\ cpc[c] = "accepted"
      /\ conn' = [conn EXCEPT ![l] = NoClient] /\ cpc' = [cpc EXCEPT ![c] = "gone"]
  BY DEF TurnAway, ServerGoto, TypeOK, ServerThreadSet, Admissions, Admitting
<1>2. \A k \in Listeners \ {l} : spc'[k] = spc[k] /\ conn'[k] = conn[k] /\ conn[k] # c
  BY <1>1, ListenerSteps, ServerAssumption DEF Admissions, TypeOK
<1> HIDE DEF c
<1>3. ClientTypes' /\ ClientStates' /\ CountAgrees'
  BY <1>1 DEF TypeOK, ClientTypes, ClientStates, CountAgrees, Lives
<1>4. Admissions'
  BY <1>1, <1>2, ServerAssumption DEF Admissions, Admitting, Screening, Lives, TypeOK
<1>5. Listed'
  BY <1>1, <1>2 DEF Listed, Lives, TypeOK, Screening
<1>6. Approved' \subseteq Approved
  BY <1>1, <1>2 DEF Approved, MayWrite
<1>7. RoomLeft'
  BY <1>1, <1>6, KeepsRoom DEF TypeOK
<1>8. Screened'
  BY <1>1, <1>2 DEF Screened, MayWrite
<1> QED
  BY <1>3, <1>4, <1>5, <1>7, <1>8 DEF ClientInv

\* The listener goes on to the next check, or past the last one: then there is
\* room for one client more, or a writer takes a place of the reserve.
LEMMA ScreenPreserves ==
  ASSUME IInv, NEW l \in Listeners, ListenThread(l), spc[l] \in Screening,
         spc'[l] \in {"limit", "reserve", "create"},
         UNCHANGED <<conn, ctd, cpc, cthreads, clientcount>>,
         spc'[l] = "reserve" => MayWrite(conn[l]),
         spc'[l] = "create" /\ MaxClients # 0 =>
           \/ clientcount < MaxClients
           \/ MayWrite(conn[l]) /\ clientcount <= MaxClients + RESERVECONNECTIONS
  PROVE  ClientInv'
<1> USE DEF IInv
<1>1. ClientTypes' /\ ClientStates' /\ CountAgrees'
  BY DEF TypeOK, ClientTypes, ClientStates, CountAgrees, Lives
<1>2. Admissions' /\ Listed'
  BY ListenerSteps DEF Admissions, Listed, Admitting, Screening
<1>3. RoomLeft'
  <2>1. CASE spc'[l] = "create" /\ ~MayWrite(conn[l])
    <3>1. MaxClients # 0 => Cardinality(Unprivileged) < MaxClients
      BY <2>1, Finiteness, ServerAssumption DEF CountAgrees, TypeOK
    <3>2. Unprivileged' = Unprivileged
      BY DEF Unprivileged, MayWrite
    <3>3. Cardinality(Unprivileged) \in Nat
      BY Finiteness, FS_CardinalityType
    <3> QED
      BY <3>1, <3>2, <3>3, FinitenessNext, Finiteness, ServerAssumption DEF RoomLeft
  <2>2. CASE spc'[l] # "create" \/ MayWrite(conn[l])
    <3>1. Approved' \subseteq Approved
      BY <2>2, ListenerSteps DEF Approved, MayWrite
    <3> QED
      BY <3>1, KeepsRoom DEF TypeOK
  <2> QED
    BY <2>1, <2>2
<1>4. Screened'
  BY ListenerSteps DEF Screened, MayWrite
<1> QED
  BY <1>1, <1>2, <1>3, <1>4 DEF ClientInv

\* The listener starts the client's thread.
LEMMA CreatePreserves ==
  ASSUME IInv, NEW l \in Listeners, ListenThread(l), spc[l] = "create", spc'[l] = "insert",
         SetClient(conn[l], "SPAWNING", "setup"), UNCHANGED <<conn, cthreads, clientcount>>
  PROVE  ClientInv'
<1> USE DEF IInv
<1> DEFINE c == conn[l]
<1>1. /\ c \in Clients /\ cpc[c] = "accepted" /\ c \notin cthreads
      /\ ctd' = [ctd EXCEPT ![c] = "SPAWNING"] /\ cpc' = [cpc EXCEPT ![c] = "setup"]
  BY DEF SetClient, TypeOK, ServerThreadSet, Admissions, Admitting, Screening, Listed, Lives
<1>2. \A k \in Listeners \ {l} : spc'[k] = spc[k] /\ conn[k] # c
  BY <1>1, ListenerSteps, ServerAssumption DEF Admissions, TypeOK
<1>3. conn[l] = c
  OBVIOUS
<1> HIDE DEF c
<1>4. ClientTypes' /\ ClientStates' /\ CountAgrees'
  BY <1>1 DEF TypeOK, ClientTypes, ClientStates, CountAgrees, Lives, ThreadState
<1>5. Admissions'
  BY <1>1, <1>2, <1>3, ServerAssumption DEF Admissions, Admitting, Screening, Lives, TypeOK
<1>6. Listed'
  BY <1>1, <1>2, <1>3 DEF Listed, Lives, TypeOK
<1>7. Approved' \subseteq Approved
  BY <1>2 DEF Approved, MayWrite
<1>8. RoomLeft'
  BY <1>7, KeepsRoom DEF TypeOK
<1>9. Screened'
  BY <1>2 DEF Screened, MayWrite
<1> QED
  BY <1>4, <1>5, <1>6, <1>8, <1>9 DEF ClientInv

\* The listener lists the client: the count grows by one, and there is one
\* listener less that may add to it.
LEMMA InsertPreserves ==
  ASSUME IInv, NEW l \in Listeners, LInsert(l)
  PROVE  ClientInv'
<1> USE DEF IInv
<1> DEFINE c == conn[l]
<1>1. /\ ListenThread(l) /\ spc[l] = "insert" /\ spc'[l] = "loop"
      /\ c \in Clients /\ cpc[c] \in Lives /\ c \notin cthreads
      /\ conn' = [conn EXCEPT ![l] = NoClient]
      /\ cthreads' = cthreads \cup {c} /\ clientcount' = clientcount + 1
      /\ UNCHANGED <<ctd, cpc>>
  BY DEF LInsert, ListenThread, ListenStep, ServerGoto, TypeOK, ServerThreadSet, Admissions, Admitting
<1>2. \A k \in Listeners \ {l} : spc'[k] = spc[k] /\ conn'[k] = conn[k] /\ conn[k] # c
  BY <1>1, ListenerSteps, ServerAssumption DEF Admissions, TypeOK
<1>3. conn[l] = c
  OBVIOUS
<1> HIDE DEF c
<1>4. CountAgrees'
  BY <1>1, Finiteness, FS_AddElement DEF CountAgrees, TypeOK
<1>5. clientcount' \in 0 .. Cardinality(Clients)
  <2>1. cthreads' \in SUBSET Clients
    BY <1>1 DEF TypeOK
  <2> QED
    BY <2>1, <1>4, Finiteness DEF CountAgrees
<1>6. ClientTypes' /\ ClientStates'
  BY <1>1, <1>5 DEF TypeOK, ClientTypes, ClientStates, Lives
<1>7. Admissions'
  BY <1>1, <1>2, ServerAssumption DEF Admissions, Admitting, Screening, Lives, TypeOK
<1>8. Listed'
  BY <1>1, <1>2, <1>3 DEF Listed, TypeOK
<1>9. RoomLeft'
  <2>0. Cardinality(Unprivileged) \in Nat /\ Cardinality(Approved) \in Nat
    BY Finiteness, FS_CardinalityType
  <2>1. CASE MayWrite(c)
    <3>1. Approved' = Approved /\ Unprivileged' = Unprivileged
      BY <1>1, <1>2, <1>3, <2>1 DEF Approved, Unprivileged, MayWrite
    <3> QED
      BY <3>1 DEF RoomLeft
  <2>2. CASE ~MayWrite(c)
    <3>1. Approved' = Approved \ {l} /\ l \in Approved
      BY <1>1, <1>2, <1>3, <2>2 DEF Approved, MayWrite
    <3>2. Cardinality(Approved') = Cardinality(Approved) - 1
      BY <3>1, Finiteness, FS_RemoveElement
    <3>3. Unprivileged' = Unprivileged \cup {c} /\ c \notin Unprivileged
      BY <1>1, <2>2 DEF Unprivileged, MayWrite
    <3>4. Cardinality(Unprivileged') = Cardinality(Unprivileged) + 1
      BY <3>3, Finiteness, FS_AddElement
    <3> QED
      BY <2>0, <3>2, <3>4, Finiteness, ServerAssumption DEF RoomLeft
  <2> QED
    BY <2>1, <2>2
<1>10. Screened'
  BY <1>1, <1>2, OneListener DEF Screened, MayWrite
<1> QED
  BY <1>4, <1>6, <1>7, <1>8, <1>9, <1>10 DEF ClientInv

\* The steps of a listening thread, one by one.
LEMMA ListenerPreserves ==
  ASSUME IInv, wpc # "done", NEW l \in Listeners, ListenThread(l)
  PROVE  IInv'
<1> USE DEF IInv
<1>0. l \in ServerThreadSet /\ l \in DOMAIN spc
  BY DEF ServerThreadSet, TypeOK
<1>1. ASSUME LActive(l) \/ LLoop(l) \/ LClosed(l) \/ LAcceptError(l) PROVE ClientInv'
  <2>1. /\ spc[l] \notin Admitting /\ spc'[l] \notin Admitting
        /\ UNCHANGED <<conn, ctd, cpc, cthreads, clientcount>>
    BY <1>0, <1>1 DEF LActive, LLoop, LClosed, LAcceptError, SetState, ServerGoto, cvars, Admitting, Screening
  <2> QED
    BY <2>1, IdlePreserves
<1>2. ASSUME NEW c \in Clients, LAccept(l, c) PROVE ClientInv'
  BY <1>2, AcceptPreserves
<1>3. ASSUME LPerIP(l) PROVE ClientInv'
  <2>1. CASE TurnAway(l)
    BY <1>3, <2>1, TurnAwayPreserves DEF LPerIP, Screening
  <2>2. CASE ServerGoto(l, "limit") /\ UNCHANGED <<conn, cpc>>
    BY <1>0, <1>3, <2>2, ScreenPreserves DEF LPerIP, ServerGoto, Screening
  <2> QED
    BY <1>3, <2>1, <2>2 DEF LPerIP
<1>4. ASSUME LLimit(l) PROVE ClientInv'
  <2>1. CASE TurnAway(l)
    BY <1>4, <2>1, TurnAwayPreserves DEF LLimit, Screening
  <2>2. CASE AtLimit /\ MayWrite(conn[l]) /\ ServerGoto(l, "reserve") /\ UNCHANGED <<conn, cpc>>
    BY <1>0, <1>4, <2>2, ScreenPreserves DEF LLimit, ServerGoto, Screening
  <2>3. CASE ~AtLimit /\ ServerGoto(l, "create") /\ UNCHANGED <<conn, cpc>>
    <3>1. MaxClients # 0 => clientcount < MaxClients
      BY <2>3, ServerAssumption, Finiteness DEF AtLimit, TypeOK
    <3> QED
      BY <3>1, <1>0, <1>4, <2>3, ScreenPreserves DEF LLimit, ServerGoto, Screening
  <2> QED
    BY <1>4, <2>1, <2>2, <2>3 DEF LLimit
<1>5. ASSUME LReserve(l) PROVE ClientInv'
  <2>1. CASE TurnAway(l)
    BY <1>5, <2>1, TurnAwayPreserves DEF LReserve, Screening
  <2>2. CASE /\ clientcount <= MaxClients + RESERVECONNECTIONS
             /\ ServerGoto(l, "create") /\ UNCHANGED <<conn, cpc>>
    <3>1. MaxClients # 0 => MayWrite(conn[l])
      BY <1>5 DEF LReserve, Screened
    <3> QED
      BY <3>1, <1>0, <1>5, <2>2, ScreenPreserves DEF LReserve, ServerGoto, Screening
  <2> QED
    BY <1>5, <2>1, <2>2 DEF LReserve
<1>6. ASSUME LCreate(l) PROVE ClientInv'
  <2>1. CASE TurnAway(l) /\ UNCHANGED ctd
    BY <1>6, <2>1, TurnAwayPreserves DEF LCreate, Screening
  <2>2. CASE SetClient(conn[l], "SPAWNING", "setup") /\ ServerGoto(l, "insert") /\ UNCHANGED conn
    BY <1>0, <1>6, <2>2, CreatePreserves DEF LCreate, ServerGoto
  <2> QED
    BY <1>6, <2>1, <2>2 DEF LCreate
<1>7. ASSUME LInsert(l) PROVE ClientInv'
  BY <1>7, InsertPreserves
<1>8. ClientInv'
  BY <1>1, <1>2, <1>3, <1>4, <1>5, <1>6, <1>7 DEF ListenThread, ListenStep
<1>9. TypeOK'
  BY <1>8, ListenerSteps DEF ClientInv, ClientTypes, TypeOK, ThreadSteps, wvars, Lives
<1> QED
  BY <1>8, <1>9, ListenerSteps, ThreadKeepsRound DEF ClientInv

-----------------------------------------------------------------------------
(* The steps of the watchdog                                               *)

\* The listeners and clients are left alone.
LEMMA KeepsClients ==
  ASSUME IInv, \A l \in Listeners : spc[l] \in Admitting \/ spc'[l] \in Admitting => spc'[l] = spc[l],
         UNCHANGED <<conn, cvars>>
  PROVE  ClientInv'
<1> USE DEF IInv
<1>1. ClientTypes' /\ ClientStates' /\ CountAgrees'
  BY DEF TypeOK, ClientTypes, ClientStates, CountAgrees, Lives, cvars
<1>2. Admissions' /\ Listed'
  BY DEF Admissions, Listed, Admitting, cvars
<1>3. RoomLeft' /\ Screened'
  <2>1. Approved' = Approved /\ Unprivileged' = Unprivileged
    BY DEF Approved, Unprivileged, MayWrite, Admitting, Screening, cvars
  <2>2. \A l \in Listeners : spc'[l] \in {"reserve", "create", "insert"} => spc[l] = spc'[l]
    BY DEF Admitting, Screening
  <2> QED
    BY <2>1, <2>2 DEF RoomLeft, Screened, MayWrite, cvars
<1> QED
  BY <1>1, <1>2, <1>3 DEF ClientInv

\* The watchdog starts on its way round the server threads.
LEMMA BeginRound ==
  ASSUME TypeOK, RoundCount, ~Counting, wtodo' = ServerThreadSet,
         wpc' \in {"rserver", "monitor"}, server_thread_count' = server_thread_count
  PROVE  RoundCount' /\ Quiet'
<1>1. ServerThreadSet \ wtodo' = {}
  OBVIOUS
<1>2. Cardinality(ServerThreadSet \ wtodo') = 0
  BY <1>1, FS_EmptySet
<1> QED
  BY <1>1, <1>2 DEF RoundCount, Quiet, Counting, TypeOK

\* What the watchdog has yet to visit never bounds its count below 0.
LEMMA UncountedRound ==
  ASSUME TypeOK, RoundCount, ~Counting, wtodo' \subseteq wtodo, wpc' = wpc,
         server_thread_count' = server_thread_count
  PROVE  RoundCount'
<1>1. ServerThreadSet \ wtodo' \in SUBSET ServerThreadSet
  OBVIOUS
<1> QED
  BY <1>1, Finiteness DEF RoundCount, Counting, TypeOK

\* The shutdown begins; a request to close; the safety valve; a termination
\* signal: nothing is counted.
LEMMA RequestPreserves ==
  ASSUME IInv, wpc # "done",
         \/ Terminate \/ WTop \/ WRequest \/ WContinue \/ WValve \/ WExit
         \/ \E l \in Listeners : WCloseListener(l)
         \/ \E s \in Scanners : WTestScanner(s) \/ WCloseScanner(s)
  PROVE  IInv'
<1> USE DEF IInv
<1>1. UNCHANGED <<spc, conn, cvars>>
  BY DEF Terminate, WTop, WRequest, WContinue, WValve, WExit, WCloseListener, WTestScanner,
         WCloseScanner, svars
<1>2. ClientInv'
  BY <1>1, KeepsClients
<1>3. TypeOK' /\ ServerStates' /\ RoundCount' /\ Quiet'
  <2>1. CASE Terminate
    BY <2>1 DEF Terminate, TypeOK, ServerStates, RoundCount, Quiet, Counting, wvars, svars, cvars
  <2>2. CASE WTop
    BY <2>2 DEF WTop, TypeOK, ServerStates, RoundCount, Quiet, Counting, svars, cvars
  <2>3. CASE WRequest
    <3>1. RoundCount' /\ Quiet'
      BY <2>3, BeginRound DEF WRequest, BeginMonitor, Counting
    <3>2. TypeOK' /\ ServerStates'
      BY <2>3 DEF WRequest, BeginMonitor, TypeOK, ServerStates, svars, cvars
    <3> QED
      BY <3>1, <3>2
  <2>4. CASE WContinue
    <3>1. RoundCount' /\ Quiet'
      BY <2>4, BeginRound DEF WContinue, BeginMonitor, Counting
    <3>2. TypeOK' /\ ServerStates'
      BY <2>4 DEF WContinue, BeginMonitor, TypeOK, ServerStates, svars, cvars
    <3> QED
      BY <3>1, <3>2
  <2>5. CASE WValve
    BY <2>5 DEF WValve, TypeOK, ServerStates, RoundCount, Quiet, Counting, svars, cvars
  <2>6. ASSUME NEW l \in Listeners, WCloseListener(l) PROVE TypeOK' /\ ServerStates' /\ RoundCount' /\ Quiet'
    <3>1. RoundCount'
      BY <2>6, UncountedRound DEF WCloseListener, Counting
    <3>2. TypeOK' /\ ServerStates' /\ Quiet'
      BY <2>6 DEF WCloseListener, TypeOK, ServerStates, Quiet, Counting, cvars
    <3> QED
      BY <3>1, <3>2
  <2>7. ASSUME NEW s \in Scanners, WTestScanner(s) PROVE TypeOK' /\ ServerStates' /\ RoundCount' /\ Quiet'
    <3>1. RoundCount'
      BY <2>7, UncountedRound DEF WTestScanner, Counting
    <3>2. TypeOK' /\ ServerStates' /\ Quiet'
      BY <2>7 DEF WTestScanner, TypeOK, ServerStates, Quiet, Counting, svars, cvars
    <3> QED
      BY <3>1, <3>2
  <2>8. ASSUME NEW s \in Scanners, WCloseScanner(s) PROVE TypeOK' /\ ServerStates' /\ RoundCount' /\ Quiet'
    <3>1. RoundCount'
      BY <2>8, UncountedRound DEF WCloseScanner, Counting
    <3>2. TypeOK' /\ ServerStates' /\ Quiet'
      BY <2>8 DEF WCloseScanner, TypeOK, ServerStates, Quiet, Counting, ThreadState, ServerThreadSet, cvars
    <3> QED
      BY <3>1, <3>2
  <2>9. CASE WExit
    <3>1. cthreads \in SUBSET Clients
      BY DEF TypeOK
    <3>2. AllDone => cthreads = {} /\ shutdownsig = 2
      <4>1. IsFiniteSet(cthreads) /\ (Cardinality(cthreads) = 0 => cthreads = {})
        BY <3>1, Finiteness, FS_EmptySet
      <4> QED
        BY <4>1 DEF AllDone, CountAgrees, TypeOK
    <3>3. RoundCount'
      BY <2>9, Finiteness DEF WExit, RoundCount, Counting, TypeOK
    <3>4. Quiet'
      BY <2>9, <3>2 DEF WExit, AllDone, Quiet, RoundCount, Counting, svars, cvars
    <3>5. TypeOK' /\ ServerStates'
      BY <2>9, Finiteness DEF WExit, TypeOK, ServerStates, svars, cvars
    <3> QED
      BY <3>3, <3>4, <3>5
  <2> QED
    BY <2>1, <2>2, <2>3, <2>4, <2>5, <2>6, <2>7, <2>8, <2>9
<1> QED
  BY <1>2, <1>3 DEF ClientInv

\* The watchdog tells the clients to close.
LEMMA CloseClientsPreserves ==
  ASSUME IInv, WCloseClients
  PROVE  IInv'
<1> USE DEF IInv
<1>1. TypeOK'
  BY DEF WCloseClients, TypeOK, ThreadState, svars
<1>2. ClientStates'
  BY DEF WCloseClients, ToldToClose, ClientStates, TypeOK
<1>3. Admissions' /\ Listed' /\ CountAgrees'
  BY DEF WCloseClients, Admissions, Listed, CountAgrees, svars
<1>4. ServerStates' /\ RoundCount' /\ Quiet'
  BY DEF WCloseClients, ServerStates, RoundCount, Quiet, Counting, svars
<1>5. RoomLeft' /\ Screened'
  BY DEF WCloseClients, RoomLeft, Screened, Approved, Unprivileged, MayWrite, svars
<1> QED
  BY <1>1, <1>2, <1>3, <1>4, <1>5

\* The watchdog counts a server thread and joins or starts it.
LEMMA MonitorPreserves ==
  ASSUME IInv, NEW t \in ServerThreadSet, WMonitor(t)
  PROVE  IInv'
<1> USE DEF IInv
<1>1. /\ std' \in [ServerThreadSet -> ThreadState \cup {"none"}]
      /\ \A u \in ServerThreadSet \ {t} : std'[u] = std[u] /\ spc'[u] = spc[u]
      /\ spc[t] # spc'[t] => spc[t] \in {"none", "ended"} /\ spc'[t] \in {"none", "start"}
      /\ std'[t] = "none" <=> spc'[t] = "none"
      /\ std'[t] = "CLOSED" => spc'[t] = "ended"
      /\ std[t] = "none" /\ shutdownsig = 2 => std'[t] = "none"
      /\ spc' \in [ServerThreadSet -> {"none", "start", "loop", "accept", "perip", "limit", "reserve",
                    "create", "insert", "activate", "scan", "leave", "cleanup", "ended"}]
  BY DEF WMonitor, SetState, TypeOK, ServerStates, ThreadState
<1>2. /\ wpc = "monitor" /\ t \in wtodo /\ wtodo' = wtodo \ {t}
      /\ server_thread_count' \in {server_thread_count, server_thread_count + 1}
      /\ server_thread_count' = server_thread_count => std[t] = "none"
      /\ UNCHANGED <<shutdownsig, signals, wpc, wsel, forced, socketopen, conn, cvars>>
  BY DEF WMonitor, TypeOK
<1>3. server_thread_count' <= Cardinality(ServerThreadSet \ wtodo')
  <2>1. ServerThreadSet \ wtodo' = (ServerThreadSet \ wtodo) \cup {t}
    BY <1>2
  <2>2. /\ IsFiniteSet(ServerThreadSet \ wtodo) /\ t \notin ServerThreadSet \ wtodo
        /\ Cardinality(ServerThreadSet \ wtodo) \in Nat
    <3>1. ServerThreadSet \ wtodo \in SUBSET ServerThreadSet
      OBVIOUS
    <3> QED
      BY <1>2, <3>1, Finiteness
  <2>3. Cardinality(ServerThreadSet \ wtodo') = Cardinality(ServerThreadSet \ wtodo) + 1
    BY <2>1, <2>2, FS_AddElement
  <2> QED
    BY <1>2, <2>2, <2>3 DEF RoundCount, TypeOK
<1>4. RoundCount'
  BY <1>2, <1>3 DEF RoundCount, Counting
<1>5. server_thread_count' \in 0 .. Cardinality(ServerThreadSet)
  <2>1. ServerThreadSet \ wtodo' \in SUBSET ServerThreadSet
    OBVIOUS
  <2> QED
    BY <1>2, <1>3, <2>1, Finiteness DEF TypeOK
<1>6. TypeOK'
  BY <1>1, <1>2, <1>5 DEF TypeOK, cvars
<1>7. ServerStates'
  BY <1>1, <1>2 DEF ServerStates, TypeOK
<1>8. Quiet'
  <2>1. CASE server_thread_count' = server_thread_count
    BY <1>1, <1>2, <2>1 DEF Quiet, Counting, TypeOK
  <2>2. CASE server_thread_count' # server_thread_count
    BY <1>2, <2>2 DEF Quiet, TypeOK
  <2> QED
    BY <2>1, <2>2
<1>9. ClientInv'
  <2>1. \A l \in Listeners : spc[l] \in Admitting \/ spc'[l] \in Admitting => spc'[l] = spc[l]
    BY <1>1 DEF Admitting, Screening, ServerThreadSet
  <2> QED
    BY <1>2, <2>1, KeepsClients
<1> QED
  BY <1>4, <1>6, <1>7, <1>8, <1>9 DEF ClientInv

\* The watchdog takes the CLOSED client threads off the list.
LEMMA ReapPreserves ==
  ASSUME IInv, WReap
  PROVE  IInv'
<1> USE DEF IInv
<1> DEFINE closed == {c \in cthreads : ctd[c] = "CLOSED"}
           active == {c \in cthreads : ctd[c] = "ACTIVE"}
<1>1. PICK idle \in SUBSET active :
        ctd' = [c \in Clients |-> IF c \in closed THEN "none"
                                  ELSE IF c \in idle THEN "CLOSE" ELSE ctd[c]]
  BY DEF WReap
<1>2. /\ wpc = "monitor" /\ wtodo = {} /\ wpc' = "exit"
      /\ cthreads' = cthreads \ closed
      /\ clientcount' = IF clientcount > Cardinality(closed)
                          THEN clientcount - Cardinality(closed) ELSE 0
      /\ cpc' = [c \in Clients |-> IF c \in closed THEN "gone" ELSE cpc[c]]
      /\ UNCHANGED <<shutdownsig, signals, wtodo, wsel, server_thread_count, forced, svars>>
  BY DEF WReap
<1>3. closed \subseteq cthreads /\ \A c \in closed : cpc[c] = "ended"
  BY DEF ClientStates, Listed, Lives, TypeOK
<1>4. idle \subseteq cthreads /\ \A c \in idle : ctd[c] = "ACTIVE"
  OBVIOUS
<1>5. \A c \in Clients : ctd[c] = "CLOSED" /\ c \in cthreads => c \in closed
  OBVIOUS
<1> HIDE DEF closed, active
<1>6. CountAgrees' /\ clientcount' \in Nat /\ clientcount' <= clientcount
  <2>1. /\ IsFiniteSet(cthreads) /\ Cardinality(cthreads) \in Nat
        /\ IsFiniteSet(closed) /\ Cardinality(closed) \in Nat
    BY <1>3, Finiteness DEF TypeOK
  <2>2. Cardinality(cthreads \ closed) = Cardinality(cthreads) - Cardinality(closed)
    BY <1>3, <2>1, FS_Difference, cthreads \cap closed = closed
  <2>3. Cardinality(closed) <= Cardinality(cthreads)
    BY <1>3, <2>1, FS_Subset
  <2> QED
    BY <1>2, <2>1, <2>2, <2>3 DEF CountAgrees
<1>7. TypeOK'
  BY <1>1, <1>2, <1>6, Finiteness DEF TypeOK, ThreadState, svars
<1>8. ClientStates'
  BY <1>1, <1>2, <1>3, <1>4 DEF ClientStates, Listed, Lives, TypeOK
<1>9. Admissions'
  BY <1>2, <1>3, ServerAssumption DEF Admissions, Admitting, Screening, Lives, svars, TypeOK
<1>10. Listed'
  BY <1>2, <1>3 DEF Listed, Lives, svars, TypeOK
<1>11. ServerStates' /\ RoundCount' /\ Quiet'
  BY <1>2 DEF ServerStates, RoundCount, Quiet, Counting, svars
<1>12. Approved' \subseteq Approved
  BY <1>2 DEF Approved, MayWrite, svars
<1>13. RoomLeft'
  BY <1>2, <1>12, KeepsRoom
<1>14. Screened'
  BY <1>2, <1>6, ServerAssumption DEF Screened, MayWrite, svars, TypeOK
<1> QED
  BY <1>6, <1>7, <1>8, <1>9, <1>10, <1>11, <1>13, <1>14

-----------------------------------------------------------------------------
(* The specification                                                       *)

\* The server has not started a thread.
LEMMA InitSatisfies ==
  Init => IInv
<1> SUFFICES ASSUME Init PROVE IInv
  OBVIOUS
<1> USE DEF Init
<1>1. Cardinality({}) = 0 /\ Cardinality(Clients) \in Nat
  BY FS_EmptySet, Finiteness
<1>2. TypeOK
  <2>1. 0 \in 0 .. Cardinality(Clients) /\ 0 \in 0 .. Cardinality(ServerThreadSet)
    BY Finiteness
  <2> QED
    BY <2>1 DEF TypeOK
<1>3. ClientStates /\ Admissions /\ Listed /\ CountAgrees
  BY <1>1, ServerAssumption
     DEF ClientStates, Admissions, Listed, CountAgrees, Admitting, Screening, Lives, ServerThreadSet
<1>4. RoundCount
  <2>1. ServerThreadSet \ wtodo \in SUBSET ServerThreadSet
    OBVIOUS
  <2> QED
    BY <2>1, Finiteness DEF RoundCount
<1>5. ServerStates /\ Quiet
  BY DEF ServerStates, Quiet, Counting
<1>6. RoomLeft
  <2>1. Unprivileged = {} /\ Approved = {}
    BY DEF Unprivileged, Approved, ServerThreadSet
  <2> QED
    BY <1>1, <2>1, Finiteness, ServerAssumption DEF RoomLeft
<1>7. Screened
  BY DEF Screened, ServerThreadSet
<1> QED
  BY <1>2, <1>3, <1>4, <1>5, <1>6, <1>7 DEF IInv

\* Every step of the server keeps the invariant.
LEMMA NextPreserves ==
  IInv /\ [Next]_vars => IInv'
<1> SUFFICES ASSUME IInv, [Next]_vars PROVE IInv'
  OBVIOUS
<1>1. CASE Next
  <2>1. wpc # "done"
    BY <1>1 DEF Next
  <2>2. ASSUME NEW t \in ServerThreadSet, WMonitor(t) PROVE IInv'
    BY <2>2, MonitorPreserves
  <2>3. ASSUME NEW l \in Listeners, ListenThread(l) PROVE IInv'
    BY <2>1, <2>3, ListenerPreserves
  <2>4. ASSUME NEW s \in Scanners, MS_ScanThread(s) PROVE IInv'
    BY <2>1, <2>4, ScannerPreserves
  <2>5. ASSUME NEW c \in Clients, ClientThread(c) PROVE IInv'
    BY <2>5, ClientPreserves
  <2> QED
    BY <1>1, <2>1, <2>2, <2>3, <2>4, <2>5, RequestPreserves, CloseClientsPreserves, ReapPreserves
       DEF Next, Watchdog
<1>2. CASE UNCHANGED vars
  BY <1>2 DEF IInv, TypeOK, ClientStates, Admissions, Listed, CountAgrees, ServerStates, RoundCount,
              Quiet, Counting, RoomLeft, Screened, Approved, Unprivileged, MayWrite,
              vars, wvars, svars, cvars
<1> QED
  BY <1>1, <1>2

\* The inductive invariant holds of the server's threads (ringserver.c and
\* clients.c).
THEOREM ThreadsInvariant == Spec => []IInv
<1> QED
  BY InitSatisfies, NextPreserves, PTL DEF Spec

\* The states and counters of the threads have their types: the count of
\* clients is that of the list, and the count of server threads one per thread
\* and round (ringserver.c).
THEOREM TypeCorrect == Spec => []TypeOK
<1>1. IInv => TypeOK
  BY DEF IInv
<1> QED
  BY <1>1, ThreadsInvariant, PTL

\* When main() leaves the watchdog loop in order and shuts the ring down, no
\* thread is left that could use it, the client a listener was about to list
\* included (ringserver.c, exit test of the watchdog loop).
THEOREM NothingLeftBehind == Spec => []NothingOutlivesServer
<1>1. IInv => NothingOutlivesServer
  <2> SUFFICES ASSUME IInv, wpc = "done", ~forced
               PROVE  /\ \A t \in ServerThreadSet : spc[t] \in {"none", "ended"}
                      /\ \A c \in Clients : ~Running(c)
    BY DEF NothingOutlivesServer
  <2>1. cthreads = {} /\ \A t \in ServerThreadSet : spc[t] = "none"
    BY DEF IInv, Quiet, ServerStates
  <2> QED
    BY <2>1 DEF IInv, Listed, Running, Lives, ServerThreadSet
<1> QED
  BY <1>1, ThreadsInvariant, PTL

\* A client in the list whose state is TDS_ACTIVE has not begun to free its
\* resources, so a walk of the list under cthreads_lock may use them
\* (clients.c, ClientThread()).
THEOREM ActiveClientsAlive == Spec => []ActiveMeansAlive
<1>1. IInv => ActiveMeansAlive
  BY DEF IInv, ActiveMeansAlive, ClientStates, Listed, Lives, TypeOK
<1> QED
  BY <1>1, ThreadsInvariant, PTL

\* A client told to close, by the idle timeout or by the shutdown, closes: no
\* other thread and not its own activation overwrites the request (clients.c,
\* the atomic transition to TDS_ACTIVE).
THEOREM CloseRequestsKept == Spec => CloseIsFinal
<1>1. IInv /\ [Next]_vars => [\A c \in Clients : ctd[c] = "CLOSE" => ctd'[c] \in {"CLOSE", "CLOSING"}]_vars
  <2> SUFFICES ASSUME IInv, Next, NEW c \in Clients, ctd[c] = "CLOSE"
               PROVE  ctd'[c] \in {"CLOSE", "CLOSING"}
    OBVIOUS
  <2>0. cpc[c] \in {"setup", "loop", "serve", "leave"} /\ ctd \in [Clients -> ThreadState \cup {"none"}]
    BY DEF IInv, ClientStates, TypeOK
  <2>1. CASE Terminate \/ (Watchdog /\ ~WCloseClients /\ ~WReap) \/ WValve
    BY <2>1 DEF Terminate, Watchdog, WTop, WRequest, WContinue, WValve, WExit, WCloseListener,
                WTestScanner, WCloseScanner, WMonitor, cvars
  <2>2. CASE WCloseClients
    BY <2>0, <2>2 DEF WCloseClients
  <2>3. CASE WReap
    BY <2>0, <2>3 DEF WReap
  <2>4. ASSUME NEW l \in Listeners, ListenThread(l) PROVE ctd'[c] \in {"CLOSE", "CLOSING"}
    <3>1. CASE UNCHANGED ctd
      BY <3>1
    <3>2. CASE LCreate(l) /\ SetClient(conn[l], "SPAWNING", "setup")
      BY <2>0, <3>2 DEF LCreate, SetClient, IInv, Admissions, Screening
    <3> QED
      BY <2>4, <3>1, <3>2 DEF ListenThread, ListenStep, LActive, LLoop, LClosed, LPerIP, LLimit, LReserve,
                              LCreate, LInsert, LAcceptError, LAccept, cvars
  <2>5. ASSUME NEW s \in Scanners, MS_ScanThread(s) PROVE ctd'[c] \in {"CLOSE", "CLOSING"}
    BY <2>5 DEF MS_ScanThread, SInitError, SSpawned, SActive, SLoop, SScan, SClosing, SClosed, cvars
  <2>6. ASSUME NEW d \in Clients, ClientThread(d) PROVE ctd'[c] \in {"CLOSE", "CLOSING"}
    BY <2>0, <2>6 DEF ClientThread, CActive, CLoop, CServe, CClosing, CClosed, SetClient, ClientGoto,
                      StateOnActivation
  <2> QED
    BY <2>1, <2>2, <2>3, <2>4, <2>5, <2>6 DEF Next, Watchdog
<1> QED
  BY <1>1, ThreadsInvariant, PTL DEF Spec, CloseIsFinal

\* A single listener lists no client without write permission beyond
\* MaxClients, and any number of them never have more such clients listed than
\* MaxClients and one for each further listener, though the limit is checked on
\* a count that other listeners may increment before the client is listed
\* (ringserver.c, ConfigClient() and ListenThread()).
THEOREM AdmissionBounded == Spec => AdmissionBound
<1> DEFINE Bounded(c) ==
      MaxClients # 0 /\ ~MayWrite(c) =>
        /\ Cardinality(Listeners) = 1 => clientcount' <= MaxClients
        /\ Cardinality(Unprivileged') < MaxClients + Cardinality(Listeners)
<1>1. IInv /\ [Next]_vars => [\A c \in cthreads' \ cthreads : Bounded(c)]_vars
  <2> SUFFICES ASSUME IInv, Next, NEW c \in cthreads' \ cthreads, MaxClients # 0, ~MayWrite(c)
               PROVE  /\ Cardinality(Listeners) = 1 => clientcount' <= MaxClients
                      /\ Cardinality(Unprivileged') < MaxClients + Cardinality(Listeners)
    OBVIOUS
  <2>1. PICK l \in Listeners : LInsert(l)
    BY DEF Next, Terminate, Watchdog, WTop, WRequest, WContinue, WValve, WExit, WCloseListener,
           WTestScanner, WCloseScanner, WMonitor, WCloseClients, WReap, ListenThread, ListenStep,
           LActive, LLoop, LClosed, LPerIP, LLimit, LReserve, LCreate, LAcceptError, LAccept,
           MS_ScanThread, SInitError, SSpawned, SActive, SLoop, SScan, SClosing, SClosed,
           ClientThread, CActive, CLoop, CServe, CClosing, CClosed, cvars
  <2>2. c = conn[l] /\ spc[l] = "insert" /\ clientcount' = clientcount + 1
    BY <2>1 DEF LInsert
  <2>3. Cardinality(Unprivileged') < MaxClients + Cardinality(Listeners)
    <3>1. RoomLeft' /\ cthreads' \in SUBSET Clients
      BY <2>1, InsertPreserves DEF ClientInv, ClientTypes
    <3>2. Unprivileged' \in SUBSET Clients
      BY <3>1 DEF Unprivileged
    <3> QED
      BY <3>1, <3>2, Finiteness, FinitenessNext, ServerAssumption DEF RoomLeft
  <2>4. Cardinality(Listeners) = 1 => clientcount < MaxClients
    BY <2>2 DEF IInv, Screened
  <2> QED
    BY <2>2, <2>3, <2>4, Finiteness, ServerAssumption DEF IInv, TypeOK
<1> QED
  BY <1>1, ThreadsInvariant, PTL DEF Spec, AdmissionBound

=============================================================================
