-------------------------- MODULE ProvisionerClient --------------------------
(***************************************************************************)
(* The provisioner's per-peer connection state (src/src/provisioner/       *)
(* provisioner_client.c): one prov_client_t per collector or mediator, its *)
(* main socket event (commev), its SSL object, its socket state (buffers,  *)
(* halted, trusted) and its two timers (auth and idle).                    *)
(*                                                                         *)
(* The functions of provisioner_client.c are the actions.  Their caller,   *)
(* the provisioner's epoll loop, is not in the tree: the environment calls *)
(* any of the public functions at any time (halt_provisioner_client_      *)
(* mainfd and the timer starts on their own included), in the one         *)
(* situation the code itself assumes (continue_provisioner_client_        *)
(* handshake only for a commev registered with the "waiting" fd type),    *)
(* and never after destroy_provisioner_client.  The only caller step      *)
(* modelled beyond that is a successful authentication (trusted set, auth *)
(* timer halted).                                                          *)
(*                                                                         *)
(* Pointers are abstracted to presence: commev is NoEv or the fd type it   *)
(* was registered with; socket state is "none", "live" or "freed".         *)
(***************************************************************************)
CONSTANTS
  Clients,   \* the provisioner's peers (collectors and mediators)
  NoEv       \* client->commev == NULL

VARIABLES
  client,    \* client -> the prov_client_t and its prov_sock_state_t
  gone       \* ghost: destroy_provisioner_client has run for the client

vars == <<client, gone>>

\* What listen_ssl_socket reports.
SslResults == {"FAILED", "WAITING", "SUCCESS", "NOSSL"}

\* What SSL_accept / SSL_get_error report to a pending handshake.
HandshakeResults == {"ACCEPTED", "WANT_IO", "ERROR"}

-----------------------------------------------------------------------------
(* The functions of provisioner_client.c, on one client record.            *)

\* init_provisioner_client (state is left to the caller, which starts NULL).
InitClient == [commev |-> NoEv, authev |-> FALSE, idletimer |-> FALSE,
               ssl |-> FALSE, state |-> "none", bufs |-> FALSE,
               halted |-> FALSE, trusted |-> FALSE]

\* destroy_client_state: the buffers and the prov_sock_state_t are freed.
DestroyClientState(c) ==
  IF c.state = "none" THEN c ELSE [c EXCEPT !.state = "freed", !.bufs = FALSE]

\* Mutant: halting the main fd leaves the peer trusted.
HaltMainfdKeepTrust(c) ==
  IF c.state = "none" THEN c
  ELSE [c EXCEPT !.commev = NoEv, !.bufs = FALSE, !.halted = TRUE]

\* halt_provisioner_client_mainfd: nothing without socket state; otherwise
\* the commev is closed and freed, the buffers destroyed, halted set and
\* trusted cleared.
HaltMainfd(c) ==
  IF c.state = "none" THEN c
  ELSE [c EXCEPT !.commev = NoEv, !.bufs = FALSE, !.halted = TRUE, !.trusted = FALSE]

\* halt_provisioner_client_idletimer / _authtimer (no-ops when not set).
HaltIdletimer(c) == [c EXCEPT !.idletimer = FALSE]
HaltAuthtimer(c) == [c EXCEPT !.authev = FALSE]

\* start_provisioner_client_authtimer / _idletimer (no-ops when set).
StartAuthtimer(c) == [c EXCEPT !.authev = TRUE]
StartIdletimer(c) == [c EXCEPT !.idletimer = TRUE]

\* disconnect_provisioner_client: auth timer, main fd, idle timer, SSL.
Disconnect(c) == [StartIdletimer(HaltMainfd(HaltAuthtimer(c))) EXCEPT !.ssl = FALSE]

\* Mutant: the idle timer halted before disconnect, which starts it again.
DestroyHaltIdleFirst(c) == DestroyClientState(Disconnect(HaltIdletimer(c)))

\* destroy_provisioner_client.
Destroy(c) == DestroyClientState(HaltIdletimer(Disconnect(c)))

\* create_prov_socket_state: fresh buffers, not trusted, not halted.
CreateProvSocketState(c) ==
  [c EXCEPT !.state = "live", !.bufs = TRUE, !.halted = FALSE, !.trusted = FALSE]

\* Mutant: a re-accept reuses the socket state without new buffers.
AcceptStateKeepBuffers(c) == IF c.state = "none" THEN CreateProvSocketState(c) ELSE c

\* The socket state after accept_provisioner_client's lines 176-184: new
\* state, or new buffers in the existing one (halted and trusted kept).
AcceptState(c) ==
  IF c.state = "none" THEN CreateProvSocketState(c) ELSE [c EXCEPT !.bufs = TRUE]

\* Mutant: the commev's fd type taken from the SSL result.
AcceptFdtypeFromSsl(c, r, ok) ==
  IF c.commev # NoEv THEN c
  ELSE LET s  == [AcceptState(c) EXCEPT !.ssl = (r # "NOSSL")]
           ev == [s EXCEPT !.commev = r]
       IN  IF r = "FAILED" THEN Disconnect([s EXCEPT !.ssl = FALSE])
           ELSE IF ~ok THEN Disconnect(ev)
           ELSE IF r = "WAITING" THEN ev
           ELSE StartAuthtimer(ev)

\* accept_provisioner_client with SSL result r and epoll_ctl success ok.
Accept(c, r, ok) ==
  IF c.commev # NoEv THEN c
  ELSE LET s  == [AcceptState(c) EXCEPT !.ssl = (r # "NOSSL")]
           ev == [s EXCEPT !.commev = IF r = "WAITING" THEN "wait" ELSE "main"]
       IN  IF r = "FAILED" THEN Disconnect([s EXCEPT !.ssl = FALSE])
           ELSE IF ~ok THEN Disconnect(ev)
           ELSE IF r = "WAITING" THEN ev
           ELSE StartAuthtimer(ev)

\* continue_provisioner_client_handshake with SSL_accept's outcome h.
ContinueHandshake(c, h) ==
  CASE h = "ACCEPTED" -> [StartAuthtimer(c) EXCEPT !.commev = "main"]
    [] h = "WANT_IO"  -> c
    [] h = "ERROR"    -> StartIdletimer(c)

-----------------------------------------------------------------------------
(* Actions: the caller invoking one function for one client.               *)

Init ==
  /\ client = [k \in Clients |-> InitClient]
  /\ gone = [k \in Clients |-> FALSE]

\* A call for client k replacing its record by c2.
Call(k, c2) ==
  /\ ~gone[k]
  /\ client' = [client EXCEPT ![k] = c2]
  /\ UNCHANGED gone

\* A new TCP connection from k's address handed to accept_provisioner_client.
AcceptClient(k) ==
  \E r \in SslResults, ok \in BOOLEAN :
    Call(k, Accept(client[k], r, ok))

\* An event on a commev registered with the waiting fd type.
ContinueClientHandshake(k) ==
  /\ client[k].commev = "wait"
  /\ \E h \in HandshakeResults : Call(k, ContinueHandshake(client[k], h))

DisconnectClient(k) == Call(k, Disconnect(client[k]))

HaltClientMainfd(k) == Call(k, HaltMainfd(client[k]))

HaltClientIdletimer(k) == Call(k, HaltIdletimer(client[k]))

HaltClientAuthtimer(k) == Call(k, HaltAuthtimer(client[k]))

StartClientAuthtimer(k) == Call(k, StartAuthtimer(client[k]))

StartClientIdletimer(k) == Call(k, StartIdletimer(client[k]))

\* The caller's successful authentication of k's first message: the socket
\* state is marked trusted and the auth timer halted.
Authenticate(k) ==
  /\ client[k].commev = "main" /\ client[k].state = "live"
  /\ Call(k, HaltAuthtimer([client[k] EXCEPT !.trusted = TRUE]))

\* destroy_provisioner_client; the caller then forgets the client.
DestroyClient(k) ==
  /\ ~gone[k]
  /\ client' = [client EXCEPT ![k] = Destroy(@)]
  /\ gone' = [gone EXCEPT ![k] = TRUE]

Next ==
  \E k \in Clients :
    \/ AcceptClient(k)
    \/ ContinueClientHandshake(k)
    \/ DisconnectClient(k)
    \/ HaltClientMainfd(k)
    \/ HaltClientIdletimer(k)
    \/ HaltClientAuthtimer(k)
    \/ StartClientAuthtimer(k)
    \/ StartClientIdletimer(k)
    \/ Authenticate(k)
    \/ DestroyClient(k)

Spec == Init /\ [][Next]_vars

-----------------------------------------------------------------------------
(* Properties.                                                             *)

Client == [commev : {NoEv, "wait", "main"}, authev : BOOLEAN, idletimer : BOOLEAN,
           ssl : BOOLEAN, state : {"none", "live", "freed"}, bufs : BOOLEAN,
           halted : BOOLEAN, trusted : BOOLEAN]

TypeOK ==
  /\ client \in [Clients -> Client]
  /\ gone \in [Clients -> BOOLEAN]

\* Trust ends with the connection (halt_provisioner_client_mainfd clearing
\* trusted, on every disconnect path of accept and of the caller): a peer
\* is trusted only while the connection it authenticated on is up, so a
\* reconnect must authenticate again.
TrustedOnlyConnected ==
  \A k \in Clients : client[k].trusted => client[k].commev = "main"

\* A registered connection can be served (accept_provisioner_client's new
\* or re-created net buffers, halt_provisioner_client_mainfd destroying
\* them): whenever a commev exists the socket state is live with buffers.
ConnectionHasBuffers ==
  \A k \in Clients : client[k].commev # NoEv => client[k].state = "live" /\ client[k].bufs

\* Destroy releases everything (destroy_provisioner_client: disconnect,
\* which starts the idle timer, then halting that timer): a destroyed
\* client holds no socket, timer or SSL object.
DestroyReleasesAll ==
  \A k \in Clients : gone[k] =>
    /\ client[k].commev = NoEv /\ ~client[k].ssl
    /\ ~client[k].authev /\ ~client[k].idletimer

====
