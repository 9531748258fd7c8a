----------------------------- MODULE Connection -----------------------------
(***************************************************************************)
(* A client's connection as ClientThread() serves it: one client that      *)
(* connects, sends commands, leaves or is disconnected, and returns.  The  *)
(* thread handles a command, then sends at most one packet, and starts     *)
(* over; commands and packets come in any order here.  What other clients  *)
(* do to the ring is Submit.  Authentication (auth.c) is here because both *)
(* protocols use it; what its program answers is up to the configuration.  *)
(***************************************************************************)
EXTENDS RingSearch

CONSTANTS
  Clients,                \* clients and how the server is configured for them
  Patterns,               \* stream expressions, as the set of streams matched
  MAX_CONSECUTIVE_ERRORS  \* client errors in a row that end the connection

\* What the authentication program returns: the lists of stream expressions
\* are left out or of length 0 ({}), or they replace the former ones.  A list
\* of empty strings is compiled to no expression at all, which allows every
\* stream ({Streams}) or forbids none ({{}}).
Answer == [write : BOOLEAN, allowed : SUBSET SUBSET Streams, forbidden : SUBSET SUBSET Streams]

ASSUME ConnectionAssumption ==
  /\ Clients \subseteq
       [protocol : {"reader", "writer", "seedlink3", "seedlink4"},
        limit    : PktLimits,         \* config.timewinlimit, in packets
        data     : DataTimes,         \* the data times of the packets it meets
        required : BOOLEAN,           \* config.auth.required
        write    : BOOLEAN,           \* the address may write
        allowed  : SUBSET Streams,    \* the streams the address is limited to
        answers  : SUBSET Answer,     \* of the authentication program
        wanted   : SUBSET Streams]    \* stations of a SeedLink client
  /\ Patterns \subseteq SUBSET Streams
  /\ MAX_CONSECUTIVE_ERRORS \in Nat \ {0}

VARIABLES
  client, \* the client of this behaviour
  state,  \* ClientInfo.state, "closed" without a connection
  perms,  \* ClientInfo.permissions: AUTHENTICATED, WRITE_PERMISSION
  errors, \* consecutive_errors
  sent    \* the stream of the packet sent in the last step, or NoStream

connvars == <<client, state, perms, errors, sent>>

ConnectionInit ==
  /\ SearchInit
  /\ client \in Clients /\ pktlimit = client.limit /\ datatime = client.data
  /\ state = "closed"
  /\ perms = {}
  /\ errors = 0
  /\ sent = NoStream

Connected == state # "closed"

\* ClientInfo is set up: what the address may do comes from the
\* configuration, the reader has no position and no match or reject.
Connect ==
  /\ ~Connected
  /\ state' = "COMMAND"
  /\ perms' = IF client.write THEN {"WRITE"} ELSE {}
  /\ sel' = [NoSelection EXCEPT !.allowed = client.allowed]
  /\ sent' = NoStream
  /\ UNCHANGED <<ringvars, datatime, pktlimit, reader, search, client, errors>>

\* The thread leaves its loop and frees what it has.
Closed ==
  /\ state' = "closed"
  /\ perms' = {}
  /\ errors' = 0
  /\ reader' = NewReader
  /\ sel' = NoSelection
  /\ search' = NoSearch
  /\ UNCHANGED <<datatime, pktlimit, client>>

\* The client closes the connection, or asks for it with BYE, or sending to
\* it fails.  A search in progress is not interrupted.
Leave ==
  /\ Connected /\ search.pc = "idle"
  /\ Closed
  /\ sent' = NoStream
  /\ UNCHANGED ringvars

\* What a command that is carried out leaves alone, beside its effect.
Handled ==
  /\ errors' = 0
  /\ sent' = NoStream
  /\ UNCHANGED <<ringvars, datatime, pktlimit, client>>

\* A command that counts as a client error: unrecognized, or not allowed in
\* this state.
ClientError(newstate) ==
  IF errors + 1 >= MAX_CONSECUTIVE_ERRORS
    THEN Closed /\ sent' = NoStream /\ UNCHANGED ringvars
    ELSE /\ errors' = errors + 1
         /\ state' = newstate
         /\ sent' = NoStream
         /\ UNCHANGED <<ringvars, rsvars, client, perms>>

\* ApplyPermissionsJSON(): permissions are replaced as a whole, the stream
\* expressions only by a list with an element; a list of length 0 is ignored.
AuthSucceeds(newstate) ==
  /\ \E r \in client.answers :
       /\ perms' = {"AUTHENTICATED"} \cup (IF r.write THEN {"WRITE"} ELSE {})
       /\ sel' = [sel EXCEPT !.allowed = IF r.allowed = {} THEN @ ELSE UNION r.allowed,
                             !.forbidden = IF r.forbidden = {} THEN @ ELSE UNION r.forbidden]
  /\ state' = newstate
  /\ Handled
  /\ UNCHANGED <<reader, search>>

\* PerformAuth(): success; a denial, which disconnects; an error of the
\* program, its answer or an expression in it, which changes nothing.
Auth(newstate) ==
  \/ AuthSucceeds(newstate)
  \/ Closed /\ sent' = NoStream /\ UNCHANGED ringvars
  \/ ClientError(newstate)

\* config.auth.required holds the client back.
AuthMissing == client.required /\ "AUTHENTICATED" \notin perms

\* Another client's packet is added to the ring.
Submit(s) ==
  /\ RingWrite(s, 0, RINGID_NONE)
  /\ sent' = NoStream
  /\ UNCHANGED <<rsvars, client, state, perms, errors>>

(* Whatever the order of authentication, selection, positioning and        *)
(* reading commands, a packet is sent only if its stream is among those    *)
(* the client is allowed and not forbidden at that time, and only to an    *)
(* authenticated client when authentication is required (dlclient.c,       *)
(* DLHandleCmd() and HandleRead(); slclient.c, SLHandleCmd(); ring.c,      *)
(* RingReadNext(); auth.c, ApplyPermissionsJSON()).                        *)
ReadsPermitted ==
  sent # NoStream =>
    /\ sent \in sel.allowed /\ sent \notin sel.forbidden
    /\ client.required => "AUTHENTICATED" \in perms

=============================================================================
