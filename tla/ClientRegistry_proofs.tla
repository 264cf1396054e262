------------------------ MODULE ClientRegistry_proofs ------------------------
(***************************************************************************)
(* Proofs, for any devices, roles and number of connections, that the      *)
(* registry and the disconnect checks of ClientRegistry keep their         *)
(* invariants.                                                             *)
(***************************************************************************)
EXTENDS ClientRegistry, TLAPS

(* Accepted connections have a client; the accept loop serves a connection  *)
(* that has no reader yet; only managed entries are given a new connection. *)
Handshakes ==
  /\ \A c \in Conns : sock[c] # "none" => peer[c] # "none"
  /\ \A c \in Conns : sock[c] = "none" => reader[c] = "none"
  /\ accept.conn # NoConn => sock[accept.conn] # "none" /\ reader[accept.conn] = "none"
  /\ \A c \in Conns : sock[c] = "none" \/ ~ Managed(role[c]) => entry[c].conn = c

(* An entry, and the connection it offers now, belong to the device they    *)
(* are registered for, and are of the kind the registry holds.              *)
ManagedEntries ==
  \A m \in Macs : clients[m] # NoConn =>
    LET e == clients[m]  c == entry[e].conn IN
    /\ mac[e] = m /\ sock[e] # "none" /\ Managed(role[e])
    /\ mac[c] = m /\ sock[c] # "none" /\ Managed(role[c])
    /\ reader[c] # "done"

InteractiveEntries ==
  \A m \in Macs : interactiveClients[m] # NoConn =>
    LET e == interactiveClients[m]  c == entry[e].conn IN
    /\ mac[e] = m /\ sock[e] # "none"
    /\ mac[c] = m /\ sock[c] # "none"
    /\ Managed(role[e]) = Managed(role[c])
    /\ role[c] = Interactive => e = c /\ reader[c] # "done"

RemovedWereAccepted == \A w \in removals : sock[w.conn] # "none"

(* A token names the lost connection of its device, and its thread is alive *)
(* or still to be started.                                                  *)
Tokens ==
  \A m \in Macs : pending[m] # NoConn =>
    LET c == pending[m] IN
    /\ mac[c] = m /\ sock[c] # "none" /\ clients[m] = NoConn /\ loss[c] = "lost"
    /\ \/ verifier[c] \in {"sleep", "ping"}
       \/ \E w \in removals : w.conn = c /\ StartsCheck(w)

Inv == /\ TypeOK /\ Handshakes /\ ManagedEntries /\ InteractiveEntries
       /\ RemovedWereAccepted /\ Tokens

(* What may still be lost has not been checked: a connection that is not    *)
(* accepted or not registered yet, or that the registry offers.             *)
Offered(c)   == \E m \in Macs : clients[m] # NoConn /\ ConnectionOf(m) = c
Receiving(c) == accept.step = "receive" /\ accept.conn = c
Fresh(c)     == sock[c] = "none" \/ Receiving(c) \/ Offered(c)
Unchecked(c) == verifier[c] = "none" /\ \A w \in removals : w.conn = c => ~ StartsCheck(w)

(* A connection is checked once: of its removals one at most starts a       *)
(* verifier, and it has none before.                                        *)
Checked ==
  /\ \A c \in Conns : Receiving(c) => ~ Offered(c)
  /\ \A c \in Conns : Fresh(c) => Unchecked(c)
  /\ \A w \in removals : StartsCheck(w) => verifier[w.conn] = "none"
  /\ \A v, w \in removals : StartsCheck(v) /\ StartsCheck(w) /\ v.conn = w.conn => v = w

(* The loss of a connection is classified once: no second thread verifies   *)
(* it, and its verdict, with the alert that may follow it, stands           *)
(* (remove_client and verify_client_disconnect of server_lib.py).           *)
ClassifiedOnce ==
  [][\A c \in Conns :
       /\ verifier[c] \in {"alerted", "quiet"} => verifier'[c] = verifier[c]
       /\ verifier'[c] = "sleep" => verifier[c] \in {"none", "sleep"}]_vars

-----------------------------------------------------------------------------
LEMMA InitInv == Init => Inv
<1> SUFFICES ASSUME Init PROVE Inv
  OBVIOUS
<1>1. \A c \in Conns : c # NoConn
  BY ConnsAssumption DEF Conns, NoConn
<1>2. (CHOOSE m \in Macs : TRUE) \in Macs
  BY MacsAssumption
<1>3. (CHOOSE r \in Roles : TRUE) \in Roles
  BY RolesAssumption
<1>4. TypeOK
  BY <1>2, <1>3 DEF Init, TypeOK, Record, Idle, AnyConn
<1> QED
  BY <1>4 DEF Init, Inv, Handshakes, ManagedEntries, InteractiveEntries,
              RemovedWereAccepted, Tokens, Idle, Record

LEMMA ConnectInv ==
  ASSUME Inv, NEW c \in Conns, NEW m \in Macs, NEW r \in Roles, Connect(c, m, r)
  PROVE  Inv'
<1>1. TypeOK'
  BY DEF Inv, TypeOK, Connect, registry, checks
<1>2. sock[c] = "none"
  BY DEF Inv, Handshakes, Connect
<1>3. Handshakes'
  BY DEF Inv, TypeOK, Handshakes, Connect, registry
<1>4. ManagedEntries'
  BY <1>2 DEF Inv, TypeOK, ManagedEntries, Connect, registry, AnyConn
<1>5. InteractiveEntries'
  BY <1>2 DEF Inv, TypeOK, InteractiveEntries, Connect, registry, AnyConn
<1>6. RemovedWereAccepted' /\ Tokens'
  BY <1>2 DEF Inv, TypeOK, RemovedWereAccepted, Tokens, Connect, registry, checks,
              AnyConn, StartsCheck
<1> QED
  BY <1>1, <1>3, <1>4, <1>5, <1>6 DEF Inv

LEMMA PeerEndsInv ==
  ASSUME Inv, NEW c \in Conns, PeerEnds(c)
  PROVE  Inv'
<1>1. TypeOK'
  BY DEF Inv, TypeOK, PeerEnds, registry, checks
<1> QED
  BY <1>1 DEF Inv, Handshakes, ManagedEntries, InteractiveEntries, RemovedWereAccepted,
              Tokens, PeerEnds, registry, checks, TypeOK, StartsCheck

(* The steps of the accept loop that leave the registry alone.              *)
LEMMA HandshakeInv ==
  ASSUME Inv, NEW c \in Conns,
         Accept(c) \/ RejectConnection(c) \/ Greet(c) \/ StartReader(c) \/ HandshakeFails(c)
  PROVE  Inv'
<1> USE DEF network, registry, checks, Idle, AfterError
<1>0. c # NoConn /\ NoConn \in AnyConn /\ c \in AnyConn
  BY ConnsAssumption DEF Conns, NoConn, AnyConn
<1>1. TypeOK'
  BY <1>0 DEF Inv, TypeOK, Accept, RejectConnection, Greet, StartReader, HandshakeFails
<1>2. Handshakes'
  BY <1>0 DEF Inv, TypeOK, Handshakes, Accept, RejectConnection, Greet, StartReader, HandshakeFails
<1>3. reader' = reader \/ reader' = [reader EXCEPT ![c] = "running"]
  BY DEF Accept, RejectConnection, Greet, StartReader, HandshakeFails
<1>4. UNCHANGED <<network, registry, checks, verifier>>
  BY DEF Accept, RejectConnection, Greet, StartReader, HandshakeFails
<1>5. \A d \in Conns : sock[d] # "none" => sock'[d] # "none"
  BY DEF Inv, TypeOK, Accept, RejectConnection, Greet, StartReader, HandshakeFails
<1>6. ManagedEntries' /\ InteractiveEntries'
  BY <1>3, <1>4, <1>5 DEF Inv, TypeOK, ManagedEntries, InteractiveEntries, AnyConn
<1>7. RemovedWereAccepted' /\ Tokens'
  BY <1>4, <1>5 DEF Inv, TypeOK, RemovedWereAccepted, Tokens, AnyConn, StartsCheck
<1> QED
  BY <1>1, <1>2, <1>6, <1>7 DEF Inv

LEMMA RegisterInteractiveInv ==
  ASSUME Inv, NEW c \in Conns, Register(c), RegisterInteractive(c)
  PROVE  Inv'
<1> USE DEF network, registry, checks
<1>0. c # NoConn /\ NoConn \in AnyConn /\ c \in AnyConn
  BY ConnsAssumption DEF Conns, NoConn, AnyConn
<1>1. sock[c] # "none" /\ reader[c] = "none" /\ role[c] = Interactive /\ mac[c] \in Macs
  BY <1>0 DEF Inv, TypeOK, Handshakes, Register, RegisterInteractive
<1>2. TypeOK'
  BY <1>0, <1>1 DEF Inv, TypeOK, Register, RegisterInteractive
<1>3. Handshakes'
  BY <1>0, <1>1 DEF Inv, TypeOK, Handshakes, Register, RegisterInteractive
<1>5. ManagedEntries'
  BY DEF Inv, ManagedEntries, Register, RegisterInteractive, Managed
<1>6. RemovedWereAccepted' /\ Tokens'
  BY DEF Inv, RemovedWereAccepted, Tokens, Register, RegisterInteractive, StartsCheck
<1>4. InteractiveEntries'
  <2>1. entry[c].conn = c
    BY <1>1 DEF Inv, Handshakes, Managed
  <2>2. \A n \in Macs : interactiveClients'[n] =
                        IF n = mac[c] THEN c ELSE interactiveClients[n]
    BY DEF Inv, TypeOK, RegisterInteractive
  <2>3. UNCHANGED <<mac, role, entry, sock, reader>>
    BY DEF Register, RegisterInteractive
  <2> QED
    BY <1>1, <2>1, <2>2, <2>3 DEF Inv, InteractiveEntries, Managed
<1> QED
  BY <1>2, <1>3, <1>4, <1>5, <1>6 DEF Inv

LEMMA RegisterManagedInv ==
  ASSUME Inv, NEW c \in Conns, Register(c), RegisterManaged(c)
  PROVE  Inv'
<1> USE DEF network, registry, checks
<1>0. c # NoConn /\ NoConn \in AnyConn /\ c \in AnyConn
  BY ConnsAssumption DEF Conns, NoConn, AnyConn
<1>1. sock[c] # "none" /\ reader[c] = "none" /\ Managed(role[c]) /\ mac[c] \in Macs
  BY <1>0 DEF Inv, TypeOK, Handshakes, Register, RegisterManaged
<1> DEFINE m == mac[c]
           e == IF clients[m] = NoConn THEN c ELSE clients[m]
<1>2. Tokens'
  <2>1. pending' = [pending EXCEPT ![m] = NoConn] /\ removals' = removals
    BY DEF RegisterManaged, CancelVerification
  <2>2. \A n \in Macs : pending'[n] # NoConn => n # m /\ pending'[n] = pending[n]
    BY <2>1 DEF Inv, TypeOK
  <2>3. \A n \in Macs : n # m => clients'[n] = clients[n]
    BY <1>1 DEF Inv, TypeOK, RegisterManaged
  <2>4. \A d \in Conns : mac[d] # m => loss'[d] = loss[d]
    BY DEF RegisterManaged, CancelVerification
  <2>5. \A d \in Conns : sock[d] # "none" => sock'[d] # "none"
    BY DEF Inv, TypeOK, RegisterManaged
  <2>6. UNCHANGED <<mac, verifier>>
    BY DEF Register
  <2> QED
    BY <2>1, <2>2, <2>3, <2>4, <2>5, <2>6 DEF Inv, TypeOK, Tokens, StartsCheck, AnyConn
<1>3. CASE UNCHANGED registry
  <2>1. accept' \in {Idle, [step |-> "greet", conn |-> c]} /\ TypeOK'
    BY <1>0, <1>1, <1>3 DEF Inv, TypeOK, Register, RegisterManaged, CancelVerification, Idle
  <2>2. \A d \in Conns : sock[d] # "none" => sock'[d] # "none"
    BY DEF Inv, TypeOK, Register, RegisterManaged
  <2>3. Handshakes'
    <3>1. UNCHANGED <<peer, mac, role, reader>>
      BY DEF Register
    <3>2. /\ \A d \in Conns : sock'[d] = "none" => sock[d] = "none"
          /\ \A d \in Conns : d # c => sock'[d] = sock[d]
      BY <1>1 DEF Inv, TypeOK, RegisterManaged
    <3>3. accept'.conn # NoConn => sock'[accept'.conn] # "none" /\ reader[accept'.conn] = "none"
      BY <1>1, <2>1, <2>2 DEF Idle
    <3> QED
      BY <1>1, <1>3, <3>1, <3>2, <3>3 DEF Inv, Handshakes, Managed
  <2>4. ManagedEntries' /\ InteractiveEntries'
    <3>1. UNCHANGED <<mac, role, reader>>
      BY DEF Register
    <3>2. ManagedEntries'
      BY <1>3, <2>2, <3>1 DEF Inv, TypeOK, ManagedEntries, AnyConn
    <3>3. InteractiveEntries'
      BY <1>3, <2>2, <3>1 DEF Inv, TypeOK, InteractiveEntries, AnyConn
    <3> QED
      BY <3>2, <3>3
  <2>5. RemovedWereAccepted'
    BY <1>3, <2>2 DEF Inv, TypeOK, RemovedWereAccepted, Register, RegisterManaged,
                      CancelVerification
  <2> QED
    BY <1>2, <2>1, <2>3, <2>4, <2>5 DEF Inv
<1>4. CASE /\ entry' = [entry EXCEPT ![e].conn = c]
           /\ clients' = [clients EXCEPT ![m] = e]
           /\ interactiveClients' = IF role[c] = Combined
                THEN [interactiveClients EXCEPT ![m] = e] ELSE interactiveClients
           /\ accept' = [step |-> "greet", conn |-> c]
           /\ UNCHANGED sock
  <2>1. e \in Conns /\ e # NoConn /\ mac[e] = m /\ sock[e] # "none" /\ Managed(role[e])
    BY <1>0, <1>1 DEF Inv, TypeOK, ManagedEntries, AnyConn
  <2>2. TypeOK'
    <3>0. entry[e] \in [conn : Conns, expected : BOOLEAN] /\ e \in AnyConn
      BY <2>1 DEF Inv, TypeOK, AnyConn
    <3>4. [entry[e] EXCEPT !.conn = c] \in [conn : Conns, expected : BOOLEAN]
      BY <3>0
    <3>5. entry' = [entry EXCEPT ![e] = [entry[e] EXCEPT !.conn = c]]
      BY <1>4, <2>1 DEF Inv, TypeOK
    <3>6. entry' \in [Conns -> [conn : Conns, expected : BOOLEAN]]
      BY <2>1, <3>4, <3>5 DEF Inv, TypeOK
    <3>7. clients' \in [Macs -> AnyConn] /\ interactiveClients' \in [Macs -> AnyConn]
      BY <1>4, <3>0 DEF Inv, TypeOK
    <3>1. /\ entry' \in [Conns -> [conn : Conns, expected : BOOLEAN]]
          /\ clients' \in [Macs -> AnyConn] /\ interactiveClients' \in [Macs -> AnyConn]
      BY <3>6, <3>7
    <3>2. accept' \in [step : {"accept", "receive", "greet", "first"}, conn : AnyConn]
      BY <1>0, <1>4
    <3>3. /\ pending' \in [Macs -> AnyConn] /\ loss' \in [Conns -> {"none", "lost", "registered"}]
          /\ removals' = removals
      BY <1>0 DEF Inv, TypeOK, RegisterManaged, CancelVerification
    <3> QED
      BY <1>4, <3>1, <3>2, <3>3 DEF Inv, TypeOK, Register
  <2>4. entry'[e].conn = c /\ \A d \in Conns : d # e => entry'[d] = entry[d]
    BY <1>4, <2>1 DEF Inv, TypeOK
  <2>5. UNCHANGED <<mac, role, reader, sock>>
    BY <1>4 DEF Register
  <2>3. Handshakes' /\ RemovedWereAccepted'
    <3>1. \A d \in Conns : sock[d] = "none" \/ ~ Managed(role[d]) => entry'[d].conn = d
      BY <2>1, <2>4 DEF Inv, Handshakes
    <3>2. Handshakes'
      BY <1>0, <1>1, <1>4, <2>5, <3>1 DEF Inv, TypeOK, Handshakes, Register, Managed
    <3>3. removals' = removals
      BY DEF RegisterManaged, CancelVerification
    <3>4. RemovedWereAccepted'
      BY <1>4, <3>3 DEF Inv, RemovedWereAccepted
    <3> QED
      BY <3>2, <3>4
  <2>6. ManagedEntries'
    <3> SUFFICES ASSUME NEW n \in Macs, clients'[n] # NoConn
                 PROVE  LET f == clients'[n]  d == entry'[f].conn IN
                        /\ mac[f] = n /\ sock[f] # "none" /\ Managed(role[f])
                        /\ mac[d] = n /\ sock[d] # "none" /\ Managed(role[d])
                        /\ reader[d] # "done"
      BY <2>5 DEF ManagedEntries, Managed
    <3>1. clients'[n] = IF n = m THEN e ELSE clients[n]
      BY <1>4 DEF Inv, TypeOK
    <3>2. CASE n = m
      BY <1>1, <2>1, <2>4, <3>1, <3>2
    <3>3. CASE n # m
      <4>1. clients[n] \in Conns /\ mac[clients[n]] = n
        BY <3>1, <3>3 DEF Inv, TypeOK, ManagedEntries, AnyConn
      <4>2. clients'[n] = clients[n] /\ entry'[clients[n]] = entry[clients[n]]
        BY <2>1, <2>4, <3>1, <3>3, <4>1
      <4> QED
        BY <3>1, <3>3, <4>2 DEF Inv, ManagedEntries
    <3> QED
      BY <3>2, <3>3
  <2>7. \A n \in Macs : interactiveClients'[n] # NoConn =>
          \/ interactiveClients'[n] = e /\ n = m
          \/ interactiveClients'[n] = interactiveClients[n]
    BY <1>4 DEF Inv, TypeOK
  <2>8. InteractiveEntries'
    <3> SUFFICES ASSUME NEW n \in Macs, interactiveClients'[n] # NoConn
                 PROVE  LET f == interactiveClients'[n]  d == entry'[f].conn IN
                        /\ mac[f] = n /\ sock[f] # "none"
                        /\ mac[d] = n /\ sock[d] # "none"
                        /\ Managed(role[f]) = Managed(role[d])
                        /\ role[d] = Interactive => f = d /\ reader[d] # "done"
      BY <2>5 DEF InteractiveEntries, Managed
    <3>1. CASE interactiveClients'[n] = e /\ n = m
      BY <1>1, <2>1, <2>4, <3>1 DEF Managed
    <3>2. CASE interactiveClients'[n] = interactiveClients[n] /\ interactiveClients[n] = e
      BY <1>1, <2>1, <2>4, <3>2 DEF Inv, InteractiveEntries, Managed
    <3>3. CASE interactiveClients'[n] = interactiveClients[n] /\ interactiveClients[n] # e
      BY <2>4, <3>3 DEF Inv, TypeOK, InteractiveEntries, AnyConn
    <3> QED
      BY <2>7, <3>1, <3>2, <3>3
  <2> QED
    BY <1>2, <2>2, <2>3, <2>6, <2>8 DEF Inv
<1> QED
  BY <1>3, <1>4 DEF Register, RegisterManaged

(* Any caller of remove_client: the entry, if one is removed, leaves the    *)
(* registry of the role asked for, and a token is issued for its connection.*)
LEMMA RemoveClientInv ==
  ASSUME Inv, NEW m \in Macs, NEW c \in AnyConn, NEW r \in {Service, Interactive, Combined},
         RemoveClient(m, c, r), UNCHANGED <<network, sock, accept, verifier, told, entry>>,
         \A d \in Conns : reader'[d] # reader[d] =>
           reader'[d] = "done" /\ c = d /\ m = mac[d] /\ r = role[d] /\ sock[d] # "none",
         reader' \in [Conns -> {"none", "running", "done"}],
         accept.conn # NoConn => reader'[accept.conn] = "none"
  PROVE  Inv'
<1> USE DEF network, registry, checks
<1> DEFINE e == RegistryOf(r)[m]
<1>0. NoConn \notin Conns
  BY ConnsAssumption DEF Conns, NoConn
<1>1. Handshakes'
  BY DEF Inv, Handshakes, TypeOK
<1>2. CASE ~ (e # NoConn /\ IsOwn(e, c))
  <2>1. UNCHANGED <<registry, checks>>
    BY <1>2 DEF RemoveClient
  <2>2. TypeOK'
    BY <2>1 DEF Inv, TypeOK
  <2>3. ManagedEntries'
    BY <1>0, <1>2, <2>1 DEF Inv, TypeOK, ManagedEntries, RegistryOf, IsOwn, Managed, AnyConn,
                       Service, Interactive, Combined
  <2>4. InteractiveEntries'
    BY <1>0, <1>2, <2>1 DEF Inv, TypeOK, InteractiveEntries, RegistryOf, IsOwn, Managed, AnyConn,
                       Service, Interactive, Combined
  <2>5. RemovedWereAccepted' /\ Tokens'
    BY <2>1 DEF Inv, RemovedWereAccepted, Tokens, StartsCheck
  <2> QED
    BY <1>1, <2>2, <2>3, <2>4, <2>5 DEF Inv
<1>3. CASE e # NoConn /\ IsOwn(e, c)
  <2>1. RemoveEntry(m, e, r)
    BY <1>3 DEF RemoveClient
  <2> DEFINE k == entry[e].conn
  <2>2. e \in Conns /\ k \in Conns /\ mac[k] = m /\ sock[k] # "none"
    BY <1>3 DEF Inv, TypeOK, ManagedEntries, InteractiveEntries, RegistryOf, AnyConn
  <2>3. TypeOK'
    BY <2>1, <2>2 DEF Inv, TypeOK, RemoveEntry, AnyConn
  <2>4. ManagedEntries'
    BY <1>0, <1>3, <2>1, <2>2 DEF Inv, TypeOK, ManagedEntries, RemoveEntry, RegistryOf, IsOwn,
                  Managed, AnyConn, Service, Interactive, Combined
  <2>5. InteractiveEntries'
    <3> SUFFICES ASSUME NEW n \in Macs, interactiveClients'[n] # NoConn
                 PROVE  LET f == interactiveClients[n]  d == entry[f].conn IN
                        /\ interactiveClients'[n] = f /\ f # NoConn
                        /\ role[d] = Interactive => reader'[d] # "done"
      BY DEF Inv, InteractiveEntries, Managed
    <3> DEFINE f == interactiveClients[n]  d == entry[f].conn
    <3>1. interactiveClients'[n] = f /\ f # NoConn
      BY <2>1 DEF Inv, TypeOK, RemoveEntry
    <3>2. d \in Conns /\ mac[d] = n /\ (role[d] = Interactive => reader[d] # "done")
      BY <1>0, <3>1 DEF Inv, TypeOK, InteractiveEntries, AnyConn
    <3>3. ASSUME role[d] = Interactive, reader'[d] # reader[d] PROVE FALSE
      <4>1. c = d /\ m = n /\ r = Interactive
        BY <3>2, <3>3
      <4>2. e = f /\ r = Interactive
        BY <4>1 DEF RegistryOf
      <4>3. interactiveClients'[n] = NoConn
        BY <2>1, <4>1 DEF Inv, TypeOK, RemoveEntry
      <4> QED
        BY <4>3
    <3> QED
      BY <3>1, <3>2, <3>3
  <2>6. RemovedWereAccepted'
    BY <2>1, <2>2 DEF Inv, TypeOK, RemovedWereAccepted, RemoveEntry
  <2>7. Tokens'
    <3>1. CASE Managed(r) /\ ~ entry[e].expected
      <4> DEFINE w == [mac |-> m, conn |-> k, role |-> r, expected |-> entry[e].expected]
      <4>1. w \in removals' /\ w.conn = k /\ StartsCheck(w) /\ removals \subseteq removals'
        BY <2>1, <3>1 DEF RemoveEntry, StartsCheck
      <4>2. /\ pending' = [pending EXCEPT ![m] = k] /\ loss' = [loss EXCEPT ![k] = "lost"]
            /\ clients' = [clients EXCEPT ![m] = NoConn]
        BY <2>1, <3>1 DEF RemoveEntry
      <4>3. \A n \in Macs : pending'[n] = IF n = m THEN k ELSE pending[n]
        BY <4>2 DEF Inv, TypeOK
      <4>4. loss'[k] = "lost" /\ \A d \in Conns : loss[d] = "lost" => loss'[d] = "lost"
        BY <2>2, <4>2 DEF Inv, TypeOK
      <4>5. \A n \in Macs : clients[n] = NoConn => clients'[n] = NoConn
        BY <4>2 DEF Inv, TypeOK
      <4>6. clients'[m] = NoConn
        BY <4>2 DEF Inv, TypeOK
      <4> QED
        BY <2>2, <4>1, <4>3, <4>4, <4>5, <4>6 DEF Inv, TypeOK, Tokens, AnyConn, StartsCheck
    <3>2. CASE ~ (Managed(r) /\ ~ entry[e].expected)
      BY <1>0, <2>1, <2>2, <3>2 DEF Inv, TypeOK, Tokens, RemoveEntry, StartsCheck, AnyConn
    <3> QED
      BY <3>1, <3>2
  <2> QED
    BY <1>1, <2>3, <2>4, <2>5, <2>6, <2>7 DEF Inv
<1> QED
  BY <1>2, <1>3

LEMMA FinishRemovalInv ==
  ASSUME Inv, NEW w \in removals, FinishRemoval(w)
  PROVE  Inv'
<1> USE DEF network, registry
<1>1. w.conn \in Conns /\ sock[w.conn] # "none"
  BY DEF Inv, TypeOK, RemovedWereAccepted
<1>2. TypeOK'
  BY <1>1 DEF Inv, TypeOK, FinishRemoval
<1>3. sock' = [sock EXCEPT ![w.conn] = "closed"]
  BY DEF FinishRemoval
<1>4. \A d \in Conns : sock'[d] = "none" <=> sock[d] = "none"
  BY <1>1, <1>3 DEF Inv, TypeOK
<1>5. UNCHANGED <<peer, mac, role, accept, clients, interactiveClients, entry, reader, pending, loss>>
  BY DEF FinishRemoval
<1>6. Handshakes'
  BY <1>4, <1>5 DEF Inv, TypeOK, Handshakes, Managed, AnyConn, NoConn
<1>7. ManagedEntries' /\ InteractiveEntries'
  BY <1>4, <1>5 DEF Inv, TypeOK, ManagedEntries, InteractiveEntries, Managed, AnyConn
<1>8. RemovedWereAccepted'
  BY <1>4 DEF Inv, TypeOK, RemovedWereAccepted, FinishRemoval
<1>9. Tokens'
  <2> SUFFICES ASSUME NEW m \in Macs, pending[m] # NoConn
               PROVE  \/ verifier'[pending[m]] \in {"sleep", "ping"}
                      \/ \E v \in removals' : v.conn = pending[m] /\ StartsCheck(v)
    BY <1>4, <1>5 DEF Inv, TypeOK, Tokens, StartsCheck, AnyConn
  <2> DEFINE c == pending[m]
  <2>1. c \in Conns
    BY DEF Inv, TypeOK, AnyConn
  <2>2. CASE verifier[c] \in {"sleep", "ping"}
    BY <2>1, <2>2 DEF Inv, TypeOK, FinishRemoval
  <2>3. CASE w.conn = c /\ StartsCheck(w)
    BY <2>1, <2>3 DEF Inv, TypeOK, FinishRemoval
  <2>4. ASSUME NEW v \in removals, v # w, v.conn = c, StartsCheck(v)
        PROVE  \E u \in removals' : u.conn = c /\ StartsCheck(u)
    BY <2>4 DEF FinishRemoval
  <2> QED
    BY <2>2, <2>3, <2>4 DEF Inv, Tokens
<1> QED
  BY <1>2, <1>6, <1>7, <1>8, <1>9 DEF Inv

LEMMA ReaderEndsInv ==
  ASSUME Inv, NEW c \in Conns, ReaderEnds(c)
  PROVE  Inv'
<1>1. mac[c] \in Macs /\ role[c] \in {Service, Interactive, Combined} /\ c \in AnyConn
  BY RolesAssumption DEF Inv, TypeOK, AnyConn
<1>2. reader' = [reader EXCEPT ![c] = "done"] /\ reader[c] = "running" /\ sock[c] # "none"
  BY DEF ReaderEnds, Inv, Handshakes
<1>3. RemoveClient(mac[c], c, role[c]) /\ UNCHANGED <<network, sock, accept, verifier, told>>
  BY DEF ReaderEnds
<1>4. UNCHANGED entry
  BY <1>3 DEF RemoveClient, RemoveEntry, registry
<1>5. /\ reader' \in [Conns -> {"none", "running", "done"}]
      /\ accept.conn # NoConn => reader'[accept.conn] = "none"
      /\ \A d \in Conns : reader'[d] # reader[d] =>
           reader'[d] = "done" /\ c = d /\ mac[c] = mac[d] /\ role[c] = role[d] /\ sock[d] # "none"
  BY <1>2 DEF Inv, TypeOK, Handshakes, AnyConn
<1> QED
  BY <1>1, <1>3, <1>4, <1>5, RemoveClientInv

LEMMA CommandInv ==
  ASSUME Inv,
         \/ \E m \in Macs : MenuRemoves(m)
         \/ \E c \in Conns, r \in {Service, Interactive} : CommandFails(c, r)
  PROVE  Inv'
<1>1. PICK m \in Macs, c \in AnyConn, r \in {Service, Interactive, Combined} :
        RemoveClient(m, c, r) /\ UNCHANGED <<network, sock, accept, reader, verifier, told>>
  BY DEF MenuRemoves, CommandFails, Inv, TypeOK, AnyConn
<1>2. UNCHANGED entry
  BY <1>1 DEF RemoveClient, RemoveEntry, registry
<1>3. /\ reader' \in [Conns -> {"none", "running", "done"}]
      /\ accept.conn # NoConn => reader'[accept.conn] = "none"
  BY <1>1 DEF Inv, TypeOK, Handshakes
<1> QED
  BY <1>1, <1>2, <1>3, RemoveClientInv

LEMMA DisconnectCommandInv ==
  ASSUME Inv, NEW m \in Macs, DisconnectCommand(m)
  PROVE  Inv'
<1> USE DEF network, checks
<1> DEFINE e == clients[m]
<1>1. e \in Conns /\ entry[e] \in [conn : Conns, expected : BOOLEAN]
  BY DEF DisconnectCommand, Inv, TypeOK, AnyConn
<1>2. entry' = [entry EXCEPT ![e] = [entry[e] EXCEPT !.expected = TRUE]]
  BY DEF DisconnectCommand
<1>3. entry' \in [Conns -> [conn : Conns, expected : BOOLEAN]]
  BY <1>1, <1>2 DEF Inv, TypeOK
<1>4. \A d \in Conns : entry'[d].conn = entry[d].conn
  BY <1>1, <1>2 DEF Inv, TypeOK
<1>5. TypeOK'
  BY <1>1, <1>3 DEF Inv, TypeOK, DisconnectCommand, ConnectionOf, AnyConn
<1>6. UNCHANGED <<network, sock, accept, clients, interactiveClients, reader, checks, verifier>>
  BY DEF DisconnectCommand
<1>7. Handshakes' /\ ManagedEntries' /\ InteractiveEntries'
  BY <1>4, <1>6 DEF Inv, TypeOK, Handshakes, ManagedEntries, InteractiveEntries, AnyConn, Managed
<1>8. RemovedWereAccepted' /\ Tokens'
  BY <1>6 DEF Inv, RemovedWereAccepted, Tokens, StartsCheck
<1> QED
  BY <1>5, <1>7, <1>8 DEF Inv

(* A verifier that gives up on its token takes the token away with it.      *)
LEMMA VerifierInv ==
  ASSUME Inv, NEW c \in Conns, Verifier(c)
  PROVE  Inv'
<1> USE DEF network, registry, Verifier
<1>0. UNCHANGED <<network, sock, accept, registry, reader, removals, loss, told>>
  BY DEF VerifyAfterGrace, VerifyAfterPing
<1>1. mac[c] \in Macs /\ NoConn \in AnyConn
  BY DEF Inv, TypeOK, AnyConn
<1>2. TypeOK'
  <2>1. pending' = pending \/ pending' = [pending EXCEPT ![mac[c]] = NoConn]
    BY DEF VerifyAfterGrace, VerifyAfterPing
  <2>2. \E v \in {"ping", "alerted", "quiet"} : verifier' = [verifier EXCEPT ![c] = v]
    BY DEF VerifyAfterGrace, VerifyAfterPing
  <2>3. pending' \in [Macs -> AnyConn]
    BY <1>1, <2>1 DEF Inv, TypeOK
  <2>4. verifier' \in [Conns -> {"none", "sleep", "ping", "alerted", "quiet"}]
    BY <2>2 DEF Inv, TypeOK
  <2> QED
    BY <1>0, <2>3, <2>4 DEF Inv, TypeOK
<1>3. Handshakes' /\ ManagedEntries' /\ InteractiveEntries' /\ RemovedWereAccepted'
  BY <1>0 DEF Inv, Handshakes, ManagedEntries, InteractiveEntries, RemovedWereAccepted, Managed
<1>4. \A n \in Macs : pending'[n] # NoConn => pending'[n] = pending[n]
  BY <1>1 DEF Inv, TypeOK, VerifyAfterGrace, VerifyAfterPing
<1>5. \A d \in Conns : d # c => verifier'[d] = verifier[d]
  BY DEF Inv, TypeOK, VerifyAfterGrace, VerifyAfterPing
<1>6. pending[mac[c]] = c => pending'[mac[c]] = NoConn \/ verifier'[c] = "ping"
  BY <1>1, ConnsAssumption DEF Inv, TypeOK, Tokens, StillLost, VerifyAfterGrace, VerifyAfterPing,
                               NoConn, Conns
<1>7. Tokens'
  BY <1>0, <1>4, <1>5, <1>6 DEF Inv, TypeOK, Tokens, StartsCheck, AnyConn
<1> QED
  BY <1>2, <1>3, <1>7 DEF Inv

LEMMA NextInv == Inv /\ [Next]_vars => Inv'
<1> SUFFICES ASSUME Inv, [Next]_vars PROVE Inv'
  OBVIOUS
<1>1. CASE UNCHANGED vars
  BY <1>1 DEF vars, network, registry, checks, Inv, TypeOK, Handshakes, ManagedEntries,
              InteractiveEntries, RemovedWereAccepted, Tokens, StartsCheck, Managed
<1>2. ASSUME NEW c \in Conns, Client(c) PROVE Inv'
  BY <1>2, ConnectInv, PeerEndsInv DEF Client
<1>3. ASSUME NEW c \in Conns, Register(c) PROVE Inv'
  BY <1>3, RegisterInteractiveInv, RegisterManagedInv DEF Register
<1>4. CASE AcceptLoop
  BY <1>3, <1>4, HandshakeInv DEF AcceptLoop
<1>5. CASE Removal
  BY <1>5, FinishRemovalInv DEF Removal
<1>6. ASSUME NEW m \in Macs, Command(m) PROVE Inv'
  BY <1>6, CommandInv, DisconnectCommandInv DEF Command
<1> QED
  BY <1>1, <1>2, <1>4, <1>5, <1>6, ReaderEndsInv, VerifierInv, CommandInv DEF Next

LEMMA Invariance == Spec => []Inv
  BY InitInv, NextInv, PTL DEF Spec

-----------------------------------------------------------------------------
(* Every variable stays in its domain. *)
THEOREM TypeCorrect == Spec => []TypeOK
<1>1. Inv => TypeOK
  BY DEF Inv
<1> QED
  BY <1>1, Invariance, PTL

(* No registry offers a connection whose reader has ended (remove_client    *)
(* and register_client of server_lib.py).                                   *)
THEOREM DeadEntriesNeverOffered == Spec => []NoDeadEntries
<1>1. Inv => NoDeadEntries
  BY DEF Inv, NoDeadEntries, ManagedEntries, InteractiveEntries, ConnectionOf
<1> QED
  BY <1>1, Invariance, PTL

(* An unanswered disconnect check belongs to an absent device and has a     *)
(* thread that will answer it.                                              *)
THEOREM ChecksAreAnswerable == Spec => []PendingCheckIsAnswerable
<1>1. Inv => PendingCheckIsAnswerable
  BY DEF Inv, PendingCheckIsAnswerable, Tokens
<1> QED
  BY <1>1, Invariance, PTL

(* No device that tried to register again is declared stopped for the loss  *)
(* before it (verify_client_disconnect compares its token).                 *)
THEOREM AgentStoppedIsTrue == Spec => NoFalseAgentStopped
<1> DEFINE Honest == \A c \in Conns :
             verifier[c] = "ping" /\ verifier'[c] = "alerted" => loss[c] = "lost"
<1>1. Inv /\ [Next]_vars => [Honest]_vars
  <2> SUFFICES ASSUME Inv, Next, NEW c \in Conns,
                      verifier[c] = "ping", verifier'[c] = "alerted"
               PROVE  loss[c] = "lost"
    OBVIOUS
  <2>1. mac[c] \in Macs /\ c # NoConn
    BY ConnsAssumption DEF Inv, TypeOK, Conns, NoConn
  <2>2. CASE \E d \in Conns : Verifier(d)
    <3>1. PICK d \in Conns : Verifier(d)
      BY <2>2
    <3>2. d = c
      BY <3>1 DEF Verifier, VerifyAfterGrace, VerifyAfterPing, Inv, TypeOK
    <3>3. StillLost(c)
      BY <3>1, <3>2 DEF Verifier, VerifyAfterGrace, VerifyAfterPing, Inv, TypeOK
    <3> QED
      BY <2>1, <3>3 DEF StillLost, Inv, Tokens
  <2>3. CASE Removal
    BY <2>3 DEF Removal, FinishRemoval, Inv, TypeOK
  <2>4. CASE UNCHANGED verifier
    BY <2>4
  <2> QED
    BY <2>2, <2>3, <2>4 DEF Next, Client, Connect, PeerEnds, ReaderEnds, AcceptLoop, Accept,
       RejectConnection, Register, Greet, StartReader, HandshakeFails, Command,
       DisconnectCommand, MenuRemoves, CommandFails
<1> QED
  BY <1>1, Invariance, PTL DEF Spec, NoFalseAgentStopped

(* The end of an older connection never takes the device's current one out  *)
(* of the registry: remove_client compares the connection it was called     *)
(* for, however late the reader of the old one ends.                        *)
THEOREM StaleEndsAreIgnored == Spec => StaleEndIgnored
<1> DEFINE Own == \A m \in Macs :
             clients[m] # NoConn /\ clients'[m] = NoConn =>
               \/ Unusable(ConnectionOf(m))
               \/ told[m] # NoConn
<1>1. Inv /\ [Next]_vars => [Own]_vars
  <2> SUFFICES ASSUME Inv, Next, NEW m \in Macs, clients[m] # NoConn, clients'[m] = NoConn
               PROVE  Unusable(ConnectionOf(m)) \/ told[m] # NoConn
    OBVIOUS
  <2>1. ASSUME NEW n \in Macs, NEW c \in AnyConn, NEW r \in {Service, Interactive, Combined},
               RemoveClient(n, c, r)
        PROVE  n = m /\ (c = NoConn \/ c = ConnectionOf(m))
    <3>1. RegistryOf(r)[n] # NoConn /\ IsOwn(RegistryOf(r)[n], c) /\ RemoveEntry(n, RegistryOf(r)[n], r)
      BY <2>1 DEF RemoveClient, registry
    <3>2. Managed(r) /\ clients' = [clients EXCEPT ![n] = NoConn]
      BY <3>1 DEF RemoveEntry
    <3>3. n = m
      BY <3>2 DEF Inv, TypeOK
    <3>4. RegistryOf(r)[n] = clients[m]
      BY <3>2, <3>3 DEF RegistryOf, Managed
    <3> QED
      BY <3>1, <3>3, <3>4 DEF IsOwn, ConnectionOf
  <2>2. ASSUME NEW c \in Conns, ReaderEnds(c) PROVE Unusable(ConnectionOf(m))
    <3>1. mac[c] \in Macs /\ role[c] \in {Service, Interactive, Combined} /\ c \in AnyConn /\ c # NoConn
      BY RolesAssumption, ConnsAssumption DEF Inv, TypeOK, AnyConn, Conns, NoConn
    <3>2. c = ConnectionOf(m)
      BY <2>1, <2>2, <3>1 DEF ReaderEnds
    <3> QED
      BY <2>2, <3>2 DEF ReaderEnds
  <2>3. ASSUME NEW c \in Conns, NEW r \in {Service, Interactive}, CommandFails(c, r)
        PROVE  Unusable(ConnectionOf(m))
    <3>1. mac[c] \in Macs /\ r \in {Service, Interactive, Combined} /\ c \in AnyConn /\ c # NoConn
      BY ConnsAssumption DEF Inv, TypeOK, AnyConn, Conns, NoConn
    <3>2. c = ConnectionOf(m)
      BY <2>1, <2>3, <3>1 DEF CommandFails
    <3> QED
      BY <2>3, <3>2 DEF CommandFails
  <2>4. ASSUME NEW n \in Macs, MenuRemoves(n) PROVE told[m] # NoConn
    <3>1. n = m
      BY <2>1, <2>4 DEF MenuRemoves, AnyConn
    <3> QED
      BY <2>4, <3>1 DEF MenuRemoves
  <2>5. ASSUME NEW c \in Conns, Register(c) PROVE FALSE
    <3>1. c # NoConn /\ mac[c] \in Macs
      BY ConnsAssumption DEF Conns, NoConn, Inv, TypeOK
    <3>2. CASE RegisterInteractive(c)
      BY <3>2 DEF RegisterInteractive
    <3>3. CASE RegisterManaged(c)
      <4>1. \/ clients' = clients
            \/ clients' = [clients EXCEPT ![mac[c]] = IF clients[mac[c]] = NoConn THEN c ELSE clients[mac[c]]]
        BY <3>3 DEF RegisterManaged, registry
      <4> QED
        BY <3>1, <4>1 DEF Inv, TypeOK
    <3> QED
      BY <2>5, <3>2, <3>3 DEF Register
  <2>6. clients' # clients
    OBVIOUS
  <2> QED
    BY <2>2, <2>3, <2>4, <2>5, <2>6 DEF Next, Client, Connect, PeerEnds, Verifier, VerifyAfterGrace,
       VerifyAfterPing, AcceptLoop, Accept, RejectConnection, Greet, StartReader, HandshakeFails,
       Removal, FinishRemoval, Command, DisconnectCommand, registry
<1> QED
  BY <1>1, Invariance, PTL DEF Spec, StaleEndIgnored

-----------------------------------------------------------------------------
(* One check for each loss. *)

(* Steps that start no check, and make nothing fresh.                       *)
LEMMA CheckedKept ==
  ASSUME Inv, Checked, removals' \subseteq removals,
         \A c \in Conns : verifier[c] = "none" => verifier'[c] = "none",
         \A c \in Conns : Fresh(c)' => Fresh(c),
         \A c \in Conns : Receiving(c)' => ~ Offered(c)'
  PROVE  Checked'
<1>1. \A c \in Conns : Fresh(c)' => Unchecked(c)'
  BY DEF Checked, Unchecked, StartsCheck
<1>2. \A w \in removals : w.conn \in Conns
  BY DEF Inv, TypeOK
<1>3. \A w \in removals' : StartsCheck(w)' => verifier'[w.conn] = "none"
  BY <1>2 DEF Checked, StartsCheck
<1>4. \A v, w \in removals' : StartsCheck(v)' /\ StartsCheck(w)' /\ v.conn = w.conn => v = w
  BY DEF Checked, StartsCheck
<1> QED
  BY <1>1, <1>3, <1>4 DEF Checked

LEMMA OfferedStays ==
  ASSUME UNCHANGED clients, \A d \in Conns : entry'[d].conn = entry[d].conn, Inv, NEW c
  PROVE  Offered(c)' <=> Offered(c)
<1>1. \A m \in Macs : clients[m] # NoConn => clients[m] \in Conns
  BY DEF Inv, TypeOK, AnyConn
<1>2. \A m \in Macs : clients[m] # NoConn => ConnectionOf(m)' = ConnectionOf(m)
  BY <1>1 DEF ConnectionOf
<1> QED
  BY <1>2 DEF Offered

(* What is offered has been accepted.                                       *)
LEMMA OfferedIsAccepted ==
  ASSUME Inv, NEW c \in Conns, Offered(c)
  PROVE  sock[c] # "none"
  BY DEF Inv, Offered, ManagedEntries, ConnectionOf

LEMMA HandshakeChecked ==
  ASSUME Inv, Checked, NEW c \in Conns,
         Accept(c) \/ RejectConnection(c) \/ Greet(c) \/ StartReader(c) \/ HandshakeFails(c)
  PROVE  Checked'
<1> USE DEF network, registry, checks
<1>1. UNCHANGED <<clients, entry, removals, verifier>>
  BY DEF Accept, RejectConnection, Greet, StartReader, HandshakeFails
<1>2. \A d \in Conns : Offered(d)' <=> Offered(d)
  BY <1>1, OfferedStays
<1>3. \A d \in Conns : sock'[d] = "none" => sock[d] = "none"
  BY DEF Inv, TypeOK, Accept, RejectConnection, Greet, StartReader, HandshakeFails
<1>4. \A d \in Conns : Receiving(d)' => d = c /\ sock[c] = "none"
  BY DEF Receiving, Accept, RejectConnection, Greet, StartReader, HandshakeFails, Idle, AfterError
<1>5. \A d \in Conns : Receiving(d)' => ~ Offered(d)'
  BY <1>2, <1>4, OfferedIsAccepted
<1>6. \A d \in Conns : Fresh(d)' => Fresh(d)
  BY <1>2, <1>3, <1>4 DEF Fresh
<1> QED
  BY <1>1, <1>5, <1>6, CheckedKept

LEMMA RegisterChecked ==
  ASSUME Inv, Checked, NEW c \in Conns, Register(c)
  PROVE  Checked'
<1> USE DEF network, registry
<1>1. Receiving(c) /\ c # NoConn /\ mac[c] \in Macs
  BY ConnsAssumption DEF Register, Receiving, Conns, NoConn, Inv, TypeOK
<1>2. removals' = removals /\ verifier' = verifier
  BY DEF Register, RegisterInteractive, RegisterManaged, CancelVerification, checks
<1>3. \A d \in Conns : ~ Receiving(d)'
  BY DEF Register, RegisterInteractive, RegisterManaged, Receiving, Idle
<1>4. \A d \in Conns : sock'[d] = "none" => sock[d] = "none"
  BY DEF Inv, TypeOK, Register, RegisterInteractive, RegisterManaged
<1>5. \A d \in Conns : Offered(d)' => Offered(d) \/ d = c
  <2>1. CASE UNCHANGED <<clients, entry>>
    BY <2>1, OfferedStays
  <2> DEFINE m == mac[c]
             e == IF clients[m] = NoConn THEN c ELSE clients[m]
  <2>2. CASE clients' = [clients EXCEPT ![m] = e] /\ entry' = [entry EXCEPT ![e].conn = c]
    <3>1. e \in Conns
      BY DEF Inv, TypeOK, AnyConn
    <3>2. entry'[e].conn = c /\ \A d \in Conns : d # e => entry'[d] = entry[d]
      BY <2>2, <3>1 DEF Inv, TypeOK
    <3>3. clients'[m] = e /\ \A n \in Macs : n # m => clients'[n] = clients[n]
      BY <1>1, <2>2 DEF Inv, TypeOK
    <3> HIDE DEF e, m
    <3> SUFFICES ASSUME NEW d \in Conns, NEW n \in Macs, clients'[n] # NoConn, entry'[clients'[n]].conn = d
                 PROVE  Offered(d) \/ d = c
      BY DEF Offered, ConnectionOf
    <3>4. CASE n = m \/ clients[n] = e
      BY <3>2, <3>3, <3>4
    <3>5. CASE n # m /\ clients[n] # e
      <4>1. clients[n] # NoConn /\ clients[n] \in Conns /\ clients'[n] = clients[n]
        BY <3>3, <3>5 DEF Inv, TypeOK, AnyConn
      <4>2. entry[clients[n]].conn = d
        BY <3>2, <3>5, <4>1
      <4> QED
        BY <4>1, <4>2 DEF Offered, ConnectionOf
    <3> QED
      BY <3>4, <3>5
  <2> QED
    BY <2>1, <2>2 DEF Register, RegisterInteractive, RegisterManaged
<1>6. \A d \in Conns : Fresh(d)' => Fresh(d)
  BY <1>1, <1>3, <1>4, <1>5 DEF Fresh
<1> QED
  BY <1>2, <1>3, <1>6, CheckedKept

LEMMA RemoveClientChecked ==
  ASSUME Inv, Checked, NEW m \in Macs, NEW c \in AnyConn, NEW r \in {Service, Interactive, Combined},
         RemoveClient(m, c, r), UNCHANGED <<network, sock, accept, verifier>>
  PROVE  Checked'
<1> USE DEF network, registry, checks
<1>1. \A d : Receiving(d)' <=> Receiving(d)
  BY DEF Receiving
<1>2. CASE UNCHANGED <<registry, checks>>
  <2>1. \A d \in Conns : Offered(d)' <=> Offered(d)
    BY <1>2, OfferedStays
  <2>2. \A d \in Conns : Fresh(d)' => Fresh(d)
    BY <1>1, <2>1 DEF Fresh
  <2>3. \A d \in Conns : Receiving(d)' => ~ Offered(d)'
    BY <1>1, <2>1 DEF Checked
  <2> QED
    BY <1>2, <2>2, <2>3, CheckedKept
<1> DEFINE e == RegistryOf(r)[m]
           k == entry[e].conn
           w == [mac |-> m, conn |-> k, role |-> r, expected |-> entry[e].expected]
<1>3. CASE e # NoConn /\ RemoveEntry(m, e, r)
  <2>1. /\ clients' = IF Managed(r) THEN [clients EXCEPT ![m] = NoConn] ELSE clients
        /\ removals' = removals \cup {w} /\ entry' = entry
    BY <1>3 DEF RemoveEntry
  <2>2. \A n \in Macs : clients'[n] # NoConn => clients'[n] = clients[n] /\ (Managed(r) => n # m)
    BY <2>1 DEF Inv, TypeOK
  <2>3. \A n \in Macs : clients'[n] # NoConn => ConnectionOf(n)' = ConnectionOf(n)
    BY <2>1, <2>2 DEF ConnectionOf
  <2>4. \A d : Offered(d)' => \E n \in Macs : clients[n] # NoConn /\ ConnectionOf(n) = d /\ (Managed(r) => n # m)
    BY <2>2, <2>3 DEF Offered
  <2>5. \A d : Offered(d)' => Offered(d)
    BY <2>4 DEF Offered
  <2>6. \A d \in Conns : Fresh(d)' => Fresh(d)
    BY <1>1, <2>5 DEF Fresh
  <2>7. \A d \in Conns : Receiving(d)' => ~ Offered(d)'
    BY <1>1, <2>5 DEF Checked
  <2>8. ASSUME StartsCheck(w)
        PROVE  /\ verifier[k] = "none"
               /\ \A v \in removals : v.conn = k => ~ StartsCheck(v)
               /\ \A d \in Conns : Fresh(d)' => d # k
    <3>1. Managed(r)
      BY <2>8 DEF StartsCheck
    <3>2. e = clients[m] /\ e # NoConn /\ e \in Conns /\ k \in Conns /\ k = ConnectionOf(m)
      BY <1>3, <3>1 DEF RegistryOf, Managed, ConnectionOf, Inv, TypeOK, AnyConn
    <3> HIDE DEF e, k, w
    <3>3. Offered(k)
      BY <3>2 DEF Offered
    <3>4. Unchecked(k) /\ ~ Receiving(k) /\ sock[k] # "none"
      BY <3>2, <3>3, OfferedIsAccepted DEF Checked, Fresh
    <3>5. PICK j : j = k
      OBVIOUS
    <3>6. ~ Offered(j)'
      <4> SUFFICES ASSUME NEW n \in Macs, clients[n] # NoConn, ConnectionOf(n) = k, n # m PROVE FALSE
        BY <2>4, <3>1, <3>5
      <4>1. mac[k] = n
        BY DEF Inv, ManagedEntries, ConnectionOf
      <4>2. mac[k] = m
        BY <3>2 DEF Inv, ManagedEntries, ConnectionOf
      <4> QED
        BY <4>1, <4>2
    <3>7. \A d \in Conns : Fresh(d)' => d # k
      BY <1>1, <3>4, <3>5, <3>6 DEF Fresh
    <3> QED
      BY <3>4, <3>7 DEF Unchecked
  <2>9. w.conn = k
    OBVIOUS
  <2> HIDE DEF e, k, w
  <2>10. \A d \in Conns : Fresh(d)' => Unchecked(d)'
    <3> SUFFICES ASSUME NEW d \in Conns, Fresh(d)' PROVE Unchecked(d)'
      OBVIOUS
    <3>1. Unchecked(d)
      BY <2>6 DEF Checked
    <3>2. w.conn = d => ~ StartsCheck(w)
      BY <2>8, <2>9
    <3> QED
      BY <2>1, <3>1, <3>2 DEF Unchecked, StartsCheck
  <2>11. \A v \in removals' : StartsCheck(v)' => verifier'[v.conn] = "none"
    BY <2>1, <2>8, <2>9 DEF Checked, StartsCheck
  <2>12. \A u, v \in removals' : StartsCheck(u)' /\ StartsCheck(v)' /\ u.conn = v.conn => u = v
    BY <2>1, <2>8, <2>9 DEF Checked, StartsCheck
  <2> QED
    BY <2>7, <2>10, <2>11, <2>12 DEF Checked
<1> QED
  BY <1>2, <1>3 DEF RemoveClient

LEMMA FinishRemovalChecked ==
  ASSUME Inv, Checked, NEW w \in removals, FinishRemoval(w)
  PROVE  Checked'
<1> USE DEF network, registry
<1>1. w.conn \in Conns /\ sock[w.conn] # "none"
  BY DEF Inv, TypeOK, RemovedWereAccepted
<1>2. UNCHANGED <<accept, clients, entry>> /\ removals' = removals \ {w}
  BY DEF FinishRemoval
<1>3. \A d \in Conns : sock'[d] = "none" => sock[d] = "none"
  BY <1>1 DEF FinishRemoval, Inv, TypeOK
<1>4. \A d \in Conns : (Offered(d)' <=> Offered(d)) /\ (Receiving(d)' <=> Receiving(d))
  BY <1>2, OfferedStays DEF Receiving
<1>5. \A d \in Conns : Fresh(d)' => Fresh(d)
  BY <1>3, <1>4 DEF Fresh
<1>6. \A d \in Conns : Receiving(d)' => ~ Offered(d)'
  BY <1>4 DEF Checked
<1>7. CASE ~ StartsCheck(w)
  <2>1. verifier' = verifier
    BY <1>7 DEF FinishRemoval
  <2> QED
    BY <1>2, <1>5, <1>6, <2>1, CheckedKept
<1>8. CASE StartsCheck(w)
  <2>1. \A d \in Conns : d # w.conn => verifier'[d] = verifier[d]
    BY <1>8 DEF FinishRemoval, Inv, TypeOK
  <2>2. \A d \in Conns : Fresh(d)' => d # w.conn /\ Unchecked(d)
    BY <1>1, <1>5, <1>8 DEF Checked, Unchecked
  <2>3. \A d \in Conns : Fresh(d)' => Unchecked(d)'
    BY <1>2, <2>1, <2>2 DEF Unchecked, StartsCheck
  <2>4. \A v \in removals' : StartsCheck(v)' =>
           v.conn \in Conns /\ v.conn # w.conn /\ verifier[v.conn] = "none"
    BY <1>2, <1>8 DEF Checked, StartsCheck, Inv, TypeOK
  <2>5. \A v \in removals' : StartsCheck(v)' => verifier'[v.conn] = "none"
    BY <2>1, <2>4
  <2>6. \A u, v \in removals' : StartsCheck(u)' /\ StartsCheck(v)' /\ u.conn = v.conn => u = v
    BY <1>2 DEF Checked, StartsCheck
  <2> QED
    BY <1>6, <2>3, <2>5, <2>6 DEF Checked
<1> QED
  BY <1>7, <1>8

LEMMA NextChecked == Inv /\ Checked /\ [Next]_vars => Checked'
<1> USE DEF network, registry, checks
<1> SUFFICES ASSUME Inv, Checked, [Next]_vars PROVE Checked'
  OBVIOUS
<1>1. ASSUME UNCHANGED <<sock, accept, clients, removals>>,
             \A d \in Conns : entry'[d].conn = entry[d].conn,
             \A d \in Conns : verifier[d] = "none" => verifier'[d] = "none"
      PROVE  Checked'
  <2>1. \A d \in Conns : (Offered(d)' <=> Offered(d)) /\ (Receiving(d)' <=> Receiving(d))
    BY <1>1, OfferedStays DEF Receiving
  <2>2. \A d \in Conns : Fresh(d)' => Fresh(d)
    BY <1>1, <2>1 DEF Fresh
  <2>3. \A d \in Conns : Receiving(d)' => ~ Offered(d)'
    BY <2>1 DEF Checked
  <2> QED
    BY <1>1, <2>2, <2>3, CheckedKept
<1>2. CASE UNCHANGED vars
  BY <1>1, <1>2 DEF vars
<1>3. ASSUME NEW c \in Conns, Client(c) PROVE Checked'
  BY <1>1, <1>3 DEF Client, Connect, PeerEnds
<1>4. ASSUME NEW c \in Conns, Verifier(c) PROVE Checked'
  <2>1. UNCHANGED <<sock, accept, clients, entry, removals>>
    BY <1>4 DEF Verifier, VerifyAfterGrace, VerifyAfterPing
  <2>2. verifier[c] # "none" /\ \E v : verifier' = [verifier EXCEPT ![c] = v]
    BY <1>4 DEF Verifier, VerifyAfterGrace, VerifyAfterPing
  <2>3. \A d \in Conns : verifier[d] = "none" => verifier'[d] = "none"
    BY <2>2 DEF Inv, TypeOK
  <2> QED
    BY <1>1, <2>1, <2>3
<1>5. CASE AcceptLoop
  BY <1>5, HandshakeChecked, RegisterChecked DEF AcceptLoop
<1>6. CASE Removal
  BY <1>6, FinishRemovalChecked DEF Removal
<1>7. ASSUME NEW c \in Conns, ReaderEnds(c) PROVE Checked'
  <2>1. mac[c] \in Macs /\ role[c] \in {Service, Interactive, Combined} /\ c \in AnyConn
    BY RolesAssumption DEF Inv, TypeOK, AnyConn
  <2> QED
    BY <1>7, <2>1, RemoveClientChecked DEF ReaderEnds
<1>8. ASSUME NEW c \in Conns, NEW r \in {Service, Interactive}, CommandFails(c, r) PROVE Checked'
  <2>1. mac[c] \in Macs /\ r \in {Service, Interactive, Combined} /\ c \in AnyConn
    BY DEF Inv, TypeOK, AnyConn
  <2> QED
    BY <1>8, <2>1, RemoveClientChecked DEF CommandFails
<1>9. ASSUME NEW m \in Macs, MenuRemoves(m) PROVE Checked'
  BY <1>9, RemoveClientChecked DEF MenuRemoves, AnyConn
<1>10. ASSUME NEW m \in Macs, DisconnectCommand(m) PROVE Checked'
  <2>1. clients[m] \in Conns
    BY <1>10 DEF DisconnectCommand, Inv, TypeOK, AnyConn
  <2>2. entry' = [entry EXCEPT ![clients[m]] = [entry[clients[m]] EXCEPT !.expected = TRUE]]
    BY <1>10 DEF DisconnectCommand
  <2>3. entry[clients[m]] \in [conn : Conns, expected : BOOLEAN]
    BY <2>1 DEF Inv, TypeOK
  <2>4. \A d \in Conns : entry'[d].conn = entry[d].conn
    BY <2>1, <2>2, <2>3 DEF Inv, TypeOK
  <2>5. UNCHANGED <<sock, accept, clients, removals, verifier>>
    BY <1>10 DEF DisconnectCommand
  <2> QED
    BY <1>1, <2>4, <2>5
<1> QED
  BY <1>2, <1>3, <1>4, <1>5, <1>6, <1>7, <1>8, <1>9, <1>10 DEF Next, Command

LEMMA InitChecked == Init => Checked
<1> SUFFICES ASSUME Init PROVE Checked
  OBVIOUS
<1>1. \A c : ~ Offered(c) /\ ~ Receiving(c)
  BY DEF Init, Offered, Receiving, Idle
<1> QED
  BY <1>1 DEF Init, Checked, Unchecked

(* A loss is classified once, and the verdict stands: a second removal of   *)
(* the connection, by a command that fails while its reader ends, starts no *)
(* second thread and gives no second alert.                                 *)
THEOREM LossesAreClassifiedOnce == Spec => ClassifiedOnce
<1> DEFINE Once == \A c \in Conns :
             /\ verifier[c] \in {"alerted", "quiet"} => verifier'[c] = verifier[c]
             /\ verifier'[c] = "sleep" => verifier[c] \in {"none", "sleep"}
<1>1. Inv /\ Checked /\ [Next]_vars => [Once]_vars
  <2> SUFFICES ASSUME Inv, Checked, Next, NEW c \in Conns
               PROVE  /\ verifier[c] \in {"alerted", "quiet"} => verifier'[c] = verifier[c]
                      /\ verifier'[c] = "sleep" => verifier[c] \in {"none", "sleep"}
    OBVIOUS
  <2>1. ASSUME NEW d \in Conns, Verifier(d)
        PROVE  verifier[d] \in {"sleep", "ping"} /\
               \E v \in {"ping", "alerted", "quiet"} : verifier' = [verifier EXCEPT ![d] = v]
    BY <2>1 DEF Verifier, VerifyAfterGrace, VerifyAfterPing
  <2>2. CASE \E d \in Conns : Verifier(d)
    <3>1. PICK d \in Conns, v \in {"ping", "alerted", "quiet"} :
            verifier[d] \in {"sleep", "ping"} /\ verifier' = [verifier EXCEPT ![d] = v]
      BY <2>1, <2>2
    <3> QED
      BY <3>1 DEF Inv, TypeOK
  <2>3. CASE Removal
    <3>1. PICK w \in removals : FinishRemoval(w)
      BY <2>3 DEF Removal
    <3>2. CASE StartsCheck(w)
      <4>1. verifier[w.conn] = "none" /\ verifier' = [verifier EXCEPT ![w.conn] = "sleep"]
        BY <3>1, <3>2 DEF FinishRemoval, Checked
      <4> QED
        BY <4>1 DEF Inv, TypeOK
    <3>3. CASE ~ StartsCheck(w)
      BY <3>1, <3>3 DEF FinishRemoval
    <3> QED
      BY <3>2, <3>3
  <2>4. CASE UNCHANGED verifier
    BY <2>4
  <2> QED
    BY <2>2, <2>3, <2>4 DEF Next, Client, Connect, PeerEnds, ReaderEnds, AcceptLoop, Accept,
       RejectConnection, Register, Greet, StartReader, HandshakeFails, Command,
       DisconnectCommand, MenuRemoves, CommandFails
<1> QED
  BY <1>1, InitChecked, NextChecked, Invariance, PTL DEF Spec, ClassifiedOnce
=============================================================================
