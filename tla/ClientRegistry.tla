--------------------------- MODULE ClientRegistry ---------------------------
(***************************************************************************)
(* The client registry of the TCP server: the accept loop of               *)
(* server/server.py, the per-connection reader threads, remove_client, the *)
(* threads that classify an unexpected disconnect, the last three in       *)
(* server/server_components/server_lib.py.                                 *)
(*                                                                         *)
(* A connection is a number, allotted in the order in which clients        *)
(* connect, and is never reused.  A registry entry is the dict of the      *)
(* code, named after the connection that created it; a reconnecting        *)
(* client keeps its dict and gets a new socket put into it, so an entry    *)
(* has a connection of its own in `entry'.                                 *)
(*                                                                         *)
(* A step is the code between two points where another thread can get in:  *)
(* a whole `with clients_lock' block, a receive, a send, or the work that  *)
(* follows the lock.                                                       *)
(***************************************************************************)
EXTENDS Naturals

CONSTANTS
  Macs,       (* devices, by the MAC address that keys both registries     *)
  MaxConns,   (* connections in the life of the model (bound)              *)
  Roles       (* the agent roles that occur                                *)

Service     == "service"
Interactive == "interactive"
Combined    == "combined"

ASSUME MacsAssumption  == Macs # {}
ASSUME ConnsAssumption == MaxConns \in Nat
ASSUME RolesAssumption == Roles \subseteq {Service, Interactive, Combined}
                          /\ Roles # {}

Conns   == 1 .. MaxConns
NoConn  == 0
AnyConn == Conns \cup {NoConn}

VARIABLES
  (* the clients and the network *)
  peer,       (* the client's end: none, connected, lost, gone             *)
  mac, role,  (* what the client of a connection registers as              *)
  (* the server *)
  sock,       (* the server's end: none, open, closed                      *)
  accept,     (* the accept loop: its step and the connection it serves    *)
  clients,    (* clients[mac]: a service or combined entry, or NoConn      *)
  interactiveClients,
  entry,      (* the fields of an entry that steps depend on               *)
  reader,     (* the reader thread of a connection: none, running, done    *)
  removals,   (* remove_client calls that are past the lock                *)
  pending,    (* pending_disconnect_checks: the token, or NoConn           *)
  verifier,   (* the thread of a token: none, sleep, ping, alerted, quiet  *)
  (* history, read only by the properties *)
  loss,       (* of a token: none, lost, registered (since)                *)
  told        (* the last connection of a device that was sent DISCONNECT  *)

network  == <<peer, mac, role>>
registry == <<clients, interactiveClients, entry>>
checks   == <<removals, pending, loss>>
vars     == <<network, sock, accept, registry, reader, checks, verifier, told>>

Managed(r)     == r # Interactive
Record(c)      == [conn |-> c, expected |-> FALSE]
Idle           == [step |-> "accept", conn |-> NoConn]
ConnectionOf(m) == IF clients[m] = NoConn THEN NoConn ELSE entry[clients[m]].conn

Gone(c)     == peer[c] = "gone"                \* recv sees EOF or a reset
Unusable(c) == sock[c] = "closed" \/ Gone(c)   \* sendall may raise OSError

(* The entry a registry holds for a device, by the role asked for.          *)
RegistryOf_IgnoresRole(r) == clients               \* mutant
RegistryOf(r) == IF r = Interactive THEN interactiveClients ELSE clients

Init ==
  /\ peer   = [c \in Conns |-> "none"]
  /\ mac    = [c \in Conns |-> CHOOSE m \in Macs : TRUE]
  /\ role   = [c \in Conns |-> CHOOSE r \in Roles : TRUE]
  /\ sock   = [c \in Conns |-> "none"]
  /\ accept = Idle
  /\ clients = [m \in Macs |-> NoConn]
  /\ interactiveClients = [m \in Macs |-> NoConn]
  /\ entry   = [c \in Conns |-> Record(c)]
  /\ reader  = [c \in Conns |-> "none"]
  /\ removals = {}
  /\ pending  = [m \in Macs |-> NoConn]
  /\ verifier = [c \in Conns |-> "none"]
  /\ loss = [c \in Conns |-> "none"]
  /\ told = [m \in Macs |-> NoConn]

-----------------------------------------------------------------------------
(* The clients.  One agent of a device and role runs at a time, and a       *)
(* combined agent is not run beside the others.                             *)

Excludes(r, s) == r = s \/ r = Combined \/ s = Combined

Connect(c, m, r) ==
  /\ peer[c] = "none"
  /\ \A d \in Conns : d < c => peer[d] # "none"
  /\ \A d \in Conns : peer[d] = "connected" /\ mac[d] = m => ~ Excludes(role[d], r)
  /\ peer' = [peer EXCEPT ![c] = "connected"]
  /\ mac'  = [mac EXCEPT ![c] = m]
  /\ role' = [role EXCEPT ![c] = r]
  /\ UNCHANGED <<sock, accept, registry, reader, checks, verifier, told>>

(* The client stops or is killed, and the server can see it; or its machine *)
(* drops off the network, and nothing is seen until the transport gives up. *)
(* A client sees the server close.  What happens to a client before the     *)
(* server accepts it looks the same as if it happened just after.           *)
PeerEnds(c) ==
  /\ sock[c] # "none"
  /\ \/ peer[c] \in {"connected", "lost"} /\ peer' = [peer EXCEPT ![c] = "gone"]
     \/ peer[c] = "connected" /\ sock[c] = "open" /\ peer' = [peer EXCEPT ![c] = "lost"]
  /\ UNCHANGED <<mac, role, sock, accept, registry, reader, checks, verifier, told>>

-----------------------------------------------------------------------------
(* accept_clients: one loop, one connection at a time.  The frames are not  *)
(* kept: a receive takes the frame the client sent, before it went if it is *)
(* gone, or finds EOF or an error.                                          *)

Accept(c) ==
  /\ accept = Idle
  /\ peer[c] # "none" /\ sock[c] = "none"
  /\ \A d \in Conns : d < c => sock[d] # "none"
  /\ accept' = [step |-> "receive", conn |-> c]
  /\ sock' = [sock EXCEPT ![c] = "open"]
  /\ UNCHANGED <<network, registry, reader, checks, verifier, told>>

(* After an error the loop goes on to the next client. *)
AfterError_StopsLoop == [step |-> "stopped", conn |-> NoConn]   \* mutant
AfterError == Idle

(* EOF, an error, or a first frame that is not REGISTER (the process        *)
(* monitor of a client starts before its connect, and may send an alert     *)
(* ahead of it): the socket is closed.                                      *)
RejectConnection(c) ==
  /\ accept = [step |-> "receive", conn |-> c]
  /\ accept' = AfterError
  /\ sock' = [sock EXCEPT ![c] = "closed"]
  /\ UNCHANGED <<network, registry, reader, checks, verifier, told>>

(* register_client, the branch of an interactive agent. *)
RegisterInteractive(c) ==
  /\ role[c] = Interactive
  /\ interactiveClients' = [interactiveClients EXCEPT ![mac[c]] = c]
  /\ accept' = [step |-> "greet", conn |-> c]
  /\ UNCHANGED <<clients, entry, sock, checks>>

CancelVerification_KeepsToken(m) ==                \* mutant
  /\ loss' = [c \in Conns |-> IF mac[c] = m /\ loss[c] = "lost"
                              THEN "registered" ELSE loss[c]]
  /\ UNCHANGED <<removals, pending>>

(* Every registration of a managed agent cancels the verification of the    *)
(* previous connection, before the database is asked.                       *)
CancelVerification(m) ==
  /\ pending' = [pending EXCEPT ![m] = NoConn]
  /\ loss' = [c \in Conns |-> IF mac[c] = m /\ loss[c] = "lost"
                              THEN "registered" ELSE loss[c]]
  /\ UNCHANGED removals

RegisterManaged(c) ==
  LET m == mac[c]
      e == IF clients[m] = NoConn THEN c ELSE clients[m]
  IN
  /\ Managed(role[c])
  /\ CancelVerification(m)
  /\ \/ /\ entry' = [entry EXCEPT ![e].conn = c]
        /\ clients' = [clients EXCEPT ![m] = e]
        /\ interactiveClients' =
             IF role[c] = Combined
             THEN [interactiveClients EXCEPT ![m] = e] ELSE interactiveClients
        /\ accept' = [step |-> "greet", conn |-> c]
        /\ UNCHANGED sock
     \/ /\ sock' = [sock EXCEPT ![c] = "closed"]   \* the database refused it
        /\ accept' = Idle
        /\ UNCHANGED registry

Register(c) ==
  /\ accept = [step |-> "receive", conn |-> c]
  /\ RegisterInteractive(c) \/ RegisterManaged(c)
  /\ UNCHANGED <<network, reader, verifier, told>>

(* REGISTERED is sent. *)
Greet(c) ==
  /\ accept = [step |-> "greet", conn |-> c] /\ sock[c] = "open"
  /\ accept' = [step |-> "first", conn |-> c]
  /\ UNCHANGED <<network, sock, registry, reader, checks, verifier, told>>

(* The accept loop reads one more frame itself, or EOF, which it leaves to  *)
(* the reader to find again, and starts the reader.                         *)
StartReader(c) ==
  /\ accept = [step |-> "first", conn |-> c] /\ sock[c] = "open"
  /\ reader' = [reader EXCEPT ![c] = "running"]
  /\ accept' = Idle
  /\ UNCHANGED <<network, sock, registry, checks, verifier, told>>

(* A send or receive of the handshake raises: the socket is closed, and the *)
(* registration stays.                                                      *)
HandshakeFails(c) ==
  /\ accept \in {[step |-> s, conn |-> c] : s \in {"greet", "first"}}
  /\ Unusable(c)
  /\ accept' = AfterError
  /\ sock' = [sock EXCEPT ![c] = "closed"]
  /\ UNCHANGED <<network, registry, reader, checks, verifier, told>>

-----------------------------------------------------------------------------
(* remove_client(m, c, r): the part under clients_lock.  A call without a   *)
(* connection removes whatever is registered.                               *)

RemoveEntry(m, e, r) ==
  /\ clients' = IF Managed(r) THEN [clients EXCEPT ![m] = NoConn] ELSE clients
  /\ interactiveClients' =
       IF r = Interactive \/ (r = Combined /\ interactiveClients[m] = e)
       THEN [interactiveClients EXCEPT ![m] = NoConn] ELSE interactiveClients
  /\ IF Managed(r) /\ ~ entry[e].expected
     THEN /\ pending' = [pending EXCEPT ![m] = entry[e].conn]
          /\ loss' = [loss EXCEPT ![entry[e].conn] = "lost"]
     ELSE UNCHANGED <<pending, loss>>
  /\ removals' = removals \cup
       {[mac |-> m, conn |-> entry[e].conn, role |-> r,
         expected |-> entry[e].expected]}
  /\ UNCHANGED entry

IsOwn(e, c) == c = NoConn \/ entry[e].conn = c

RemoveClient(m, c, r) ==
  LET e == RegistryOf(r)[m] IN
  IF e # NoConn /\ IsOwn(e, c)
  THEN RemoveEntry(m, e, r)
  ELSE UNCHANGED <<registry, checks>>

StartsCheck_ServiceOnly(w) == w.role = Service /\ ~ w.expected   \* mutant
StartsCheck(w) == Managed(w.role) /\ ~ w.expected

(* After the lock: wake a waiting command, close the socket, record the     *)
(* disconnect, and start the thread that verifies it.                       *)
FinishRemoval(w) ==
  /\ removals' = removals \ {w}
  /\ sock' = [sock EXCEPT ![w.conn] = "closed"]
  /\ verifier' = IF StartsCheck(w)
                 THEN [verifier EXCEPT ![w.conn] = "sleep"] ELSE verifier
  /\ UNCHANGED <<network, accept, registry, reader, pending, loss, told>>

-----------------------------------------------------------------------------
(* receive_client_messages: the only reader of a registered connection.     *)

ReaderEnds(c) ==
  /\ reader[c] = "running"
  /\ Unusable(c)
  /\ reader' = [reader EXCEPT ![c] = "done"]
  /\ RemoveClient(mac[c], c, role[c])
  /\ UNCHANGED <<network, sock, accept, verifier, told>>

(* execute_client_command, its effects on the registry: DISCONNECT marks    *)
(* the entry before the frame is sent, and a send that raises removes the   *)
(* client, under the role the command was asked for.                        *)

DisconnectCommand(m) ==
  /\ clients[m] # NoConn
  /\ entry' = [entry EXCEPT ![clients[m]].expected = TRUE]
  /\ told' = [told EXCEPT ![m] = ConnectionOf(m)]
  /\ UNCHANGED <<network, sock, accept, clients, interactiveClients, reader, checks, verifier>>

Serves(c, r) == role[c] = r \/ role[c] = Combined

CommandFails(c, r) ==
  /\ Serves(c, r) /\ Unusable(c)
  /\ LET e == RegistryOf(r)[mac[c]] IN e # NoConn /\ entry[e].conn = c
  /\ RemoveClient(mac[c], c, r)
  /\ UNCHANGED <<network, sock, accept, reader, verifier, told>>

(* client_menu removes the client after its DISCONNECT, with no connection. *)
MenuRemoves(m) ==
  /\ told[m] # NoConn
  /\ clients[m] # NoConn
  /\ RemoveClient(m, NoConn, Service)
  /\ UNCHANGED <<network, sock, accept, reader, verifier, told>>

-----------------------------------------------------------------------------
(* verify_client_disconnect: the thread of token c.                         *)

StillLost_AnyToken(c) == clients[mac[c]] = NoConn  \* mutant
StillLost(c) == pending[mac[c]] = c /\ clients[mac[c]] = NoConn

VerifyAfterGrace(c) ==
  LET m == mac[c] IN
  /\ verifier[c] = "sleep"
  /\ IF StillLost(c)
     THEN /\ verifier' = [verifier EXCEPT ![c] = "ping"]
          /\ UNCHANGED pending
     ELSE /\ verifier' = [verifier EXCEPT ![c] = "quiet"]
          /\ pending' = IF pending[m] = c THEN [pending EXCEPT ![m] = NoConn] ELSE pending
  /\ UNCHANGED <<network, sock, accept, registry, reader, removals, loss, told>>

(* The ping has answered; whether the host is reachable is not ours to say. *)
(* create_agent_stopped_alert follows the lock.                             *)
VerifyAfterPing(c, reachable) ==
  LET m == mac[c] IN
  /\ verifier[c] = "ping"
  /\ IF StillLost(c)
     THEN /\ pending' = [pending EXCEPT ![m] = NoConn]
          /\ verifier' = [verifier EXCEPT ![c] = IF reachable THEN "alerted" ELSE "quiet"]
     ELSE /\ verifier' = [verifier EXCEPT ![c] = "quiet"]
          /\ UNCHANGED pending
  /\ UNCHANGED <<network, sock, accept, registry, reader, removals, loss, told>>

-----------------------------------------------------------------------------
Client(c) == (\E m \in Macs, r \in Roles : Connect(c, m, r)) \/ PeerEnds(c)

AcceptLoop == \E c \in Conns :
  Accept(c) \/ RejectConnection(c) \/ Register(c) \/ Greet(c)
  \/ StartReader(c) \/ HandshakeFails(c)

Removal == \E w \in removals : FinishRemoval(w)

Verifier(c) == VerifyAfterGrace(c) \/ (\E b \in BOOLEAN : VerifyAfterPing(c, b))

Command(m) ==
  DisconnectCommand(m) \/ MenuRemoves(m)

Next ==
  \/ \E c \in Conns : Client(c) \/ ReaderEnds(c) \/ Verifier(c)
  \/ AcceptLoop \/ Removal
  \/ \E m \in Macs : Command(m)
  \/ \E c \in Conns, r \in {Service, Interactive} : CommandFails(c, r)

(* The loop waits for a frame that a client has yet to send. *)
Silent(c) ==
  accept.conn = c /\ accept.step \in {"receive", "first"} /\ ~ Unusable(c)

(* Every server thread is scheduled.  Nothing is assumed of administrators, *)
(* of clients, who may stay silent, or of a recv on a socket that only this *)
(* side has closed.                                                         *)
Fairness ==
  /\ WF_vars(AcceptLoop /\ ~ \E c \in Conns : Silent(c))
  /\ \A c \in Conns : WF_vars(Gone(c) /\ ReaderEnds(c)) /\ WF_vars(Verifier(c))
  /\ WF_vars(Removal)

Spec == Init /\ [][Next]_vars /\ Fairness

-----------------------------------------------------------------------------
(* Type invariant: every variable stays in its domain.                      *)
TypeOK ==
  /\ peer   \in [Conns -> {"none", "connected", "lost", "gone"}]
  /\ mac \in [Conns -> Macs] /\ role \in [Conns -> Roles]
  /\ sock \in [Conns -> {"none", "open", "closed"}]
  /\ accept \in [step : {"accept", "receive", "greet", "first"}, conn : AnyConn]
  /\ clients \in [Macs -> AnyConn] /\ interactiveClients \in [Macs -> AnyConn]
  /\ entry \in [Conns -> [conn : Conns, expected : BOOLEAN]]
  /\ reader \in [Conns -> {"none", "running", "done"}]
  /\ removals \subseteq [mac : Macs, conn : Conns, role : {Service, Interactive, Combined},
                         expected : BOOLEAN]
  /\ pending \in [Macs -> AnyConn]
  /\ verifier \in [Conns -> {"none", "sleep", "ping", "alerted", "quiet"}]
  /\ loss \in [Conns -> {"none", "lost", "registered"}]
  /\ told \in [Macs -> AnyConn]

(* A connection whose reader has ended is never what a registry offers for  *)
(* its device, whichever of the reader, a failing command or a reconnect    *)
(* came first.                                                              *)
NoDeadEntries ==
  \A m \in Macs :
    /\ clients[m] # NoConn => reader[ConnectionOf(m)] # "done"
    /\ interactiveClients[m] # NoConn =>
         LET c == entry[interactiveClients[m]].conn
         IN role[c] = Interactive => reader[c] # "done"

(* A device is removed from the registry because its current connection     *)
(* ended, or by the administrator's menu: the end of an older connection    *)
(* never evicts the client that has reconnected since.                      *)
StaleEndIgnored ==
  [][\A m \in Macs :
       clients[m] # NoConn /\ clients'[m] = NoConn =>
         \/ Unusable(ConnectionOf(m))
         \/ told[m] # NoConn]_vars

(* An unanswered disconnect check belongs to a device that is absent, and   *)
(* has a thread, running or about to be started, that will answer it.       *)
PendingCheckIsAnswerable ==
  \A m \in Macs : pending[m] # NoConn =>
    /\ clients[m] = NoConn
    /\ \/ verifier[pending[m]] \in {"sleep", "ping"}
       \/ \E w \in removals : w.conn = pending[m] /\ StartsCheck(w)

(* The agent of a device that has tried to register again since its loss is *)
(* never declared stopped for that loss, even if it was lost once more.     *)
NoFalseAgentStopped ==
  [][\A c \in Conns :
       verifier[c] = "ping" /\ verifier'[c] = "alerted" => loss[c] = "lost"]_vars

(* Every unexpected loss is classified, unless the device registers first.  *)
LossIsClassified ==
  \A c \in Conns :
    loss[c] = "lost" ~> (verifier[c] \in {"alerted", "quiet"} \/ loss[c] = "registered")

(* As long as no accepted client stays silent in its handshake for ever,    *)
(* every client that connects is accepted: no error path stops the loop.    *)
AcceptLoopServes ==
  (\A c \in Conns : []<> ~ Silent(c)) =>
    \A c \in Conns : peer[c] # "none" ~> sock[c] # "none"

-----------------------------------------------------------------------------
(* What documents and comments of the repository say and the code does not. *)

(* docs/functionalities/completed/server-runtime.md: a failed connection is *)
(* removed from the registry.  Past the handshake only a reader removes it. *)
NoGhostEntry ==
  \A m \in Macs : clients[m] # NoConn =>
    reader[ConnectionOf(m)] = "running" \/ accept.conn = ConnectionOf(m)

(* docs/archive/alerts/implementation-plan.md: when a client that was not   *)
(* asked to leave disconnects, the server checks whether it is reachable.   *)
UnaskedLossIsChecked ==
  [][\A c \in Conns :
       LET m == mac[c] IN
       /\ reader[c] = "running" /\ reader'[c] = "done"
       /\ ConnectionOf(m) = c /\ told[m] # c
       => pending'[m] = c]_vars

(* A comment in remove_client: a combined agent is removed from both        *)
(* registries when its one socket closes.                                   *)
CombinedRemovedFromBoth ==
  \A m \in Macs : interactiveClients[m] # NoConn =>
    LET c == entry[interactiveClients[m]].conn
    IN role[c] = Combined => reader[c] # "done"
=============================================================================
