----------------------------- MODULE Telemetry ------------------------------
(***************************************************************************)
(* The UDP telemetry plane: leases on the server (core/src/server.rs,      *)
(* register_telemetry and the relay) and the clients that take and renew   *)
(* them (client/src/telemetry.rs).  A registration is a datagram that may  *)
(* be lost; one client loses at most MaxLost in a row.  One unit of time   *)
(* is a second.                                                            *)
(***************************************************************************)
EXTENDS Integers, FiniteSets

CONSTANTS
  Client,                     \* clients, one telemetry address each
  Channel,                    \* channels
  Hash,                       \* topic_hash: the hash of each channel
  MaxTelemetryChannels,       \* MAX_TELEMETRY_CHANNELS
  MaxTelemetrySubscribers,    \* MAX_TELEMETRY_SUBSCRIBERS
  Ttl,                        \* TELEMETRY_TTL
  Keepalive,                  \* TELEMETRY_KEEPALIVE
  MaxLost,                    \* registrations of a client lost in a row
  NoChannel                   \* no channel

ASSUME TelemetryAssumption ==
  /\ Hash \in [Channel -> {Hash[ch] : ch \in Channel}]
  /\ {MaxTelemetryChannels, MaxTelemetrySubscribers, Ttl, Keepalive} \subseteq Nat \ {0}
  /\ MaxLost \in Nat /\ (MaxLost + 1) * Keepalive < Ttl
  /\ IsFiniteSet(Client) /\ IsFiniteSet(Channel) /\ NoChannel \notin Channel

VARIABLES
  leases,      \* telemetry_registry: the age of each lease, NoLease for none
  routes,      \* telemetry_subscribers: the snapshot the relay reads
  listeners,   \* telemetry_listeners: the channel a client has on each hash
  running,     \* not stop: the client's threads may run
  due,         \* seconds until the keepalive thread renews, -1 without one
  renewing,    \* hashes the keepalive thread has yet to renew
  lost,        \* registrations of a channel lost in a row
  heard        \* history: subscriptions the server has accepted, kept alive since

telemetryVars ==
  <<leases, routes, listeners, running, due, renewing, lost, heard>>

Hashes == {Hash[ch] : ch \in Channel}
NoLease == -1

TelemetryInit ==
  /\ leases = [h \in Hashes |-> [c \in Client |-> NoLease]]
  /\ routes = {}
  /\ listeners = [c \in Client |-> [h \in Hashes |-> NoChannel]]
  /\ running = [c \in Client |-> TRUE]
  /\ due = [c \in Client |-> -1]
  /\ renewing = [c \in Client |-> {}]
  /\ lost = [c \in Client |-> [h \in Hashes |-> 0]]
  /\ heard = {}

-----------------------------------------------------------------------------
(***************************************************************************)
(* The server.                                                             *)
(***************************************************************************)
Leased(table, h) == {c \in Client : table[h][c] # NoLease}

\* mutant: a lease goes a second early
SweepEarly(table) ==
  [h \in Hashes |-> [c \in Client |->
     IF table[h][c] < Ttl - 1 THEN table[h][c] ELSE NoLease]]

\* Leases that are not younger than the TTL go.
Sweep(table) ==
  [h \in Hashes |-> [c \in Client |->
     IF table[h][c] < Ttl THEN table[h][c] ELSE NoLease]]

\* Whether a swept registry turns c's registration of h away: a new channel,
\* or a new address of a channel, can be one too many; a renewal never is.
Full(table, h, c) ==
  LET known == {k \in Hashes : Leased(table, k) # {}}
  IN \/ h \notin known /\ Cardinality(known) >= MaxTelemetryChannels
     \/ c \notin Leased(table, h) /\ Cardinality(Leased(table, h)) >= MaxTelemetrySubscribers

\* register_telemetry.  The snapshot the relay reads is replaced when the
\* address is registered, and only then.
RegisterTelemetry(h, c) ==
  LET swept == Sweep(leases)
      full == Full(swept, h, c)
      table == [swept EXCEPT ![h][c] = 0]
  IN /\ leases' = IF full THEN swept ELSE table
     /\ routes' = IF full THEN routes
                  ELSE {pair \in Hashes \X Client : table[pair[1]][pair[2]] # NoLease}

\* The relay loop: clients a datagram on h is copied to and whose receiver
\* finds listeners for it.
Relayed(h) == {c \in Client : <<h, c>> \in routes /\ listeners[c][h] # NoChannel}

\* A registration c sends for h reaches the relay, or is lost on the way.
SendRegistration(h, c) ==
  \/ /\ RegisterTelemetry(h, c)
     /\ lost' = [lost EXCEPT ![c][h] = 0]
     /\ heard' = IF running[c] /\ leases'[h][c] = 0 THEN heard \cup {<<h, c>>} ELSE heard
  \/ /\ lost[c][h] < MaxLost
     /\ lost' = [lost EXCEPT ![c][h] = @ + 1]
     /\ UNCHANGED <<leases, routes, heard>>

-----------------------------------------------------------------------------
(***************************************************************************)
(* The clients.                                                            *)
(***************************************************************************)
\* start_telemetry_keepalive does nothing on a stopped client or with a
\* keepalive thread already there.
Keepalives(c) ==
  IF running[c] /\ due[c] = -1 THEN [due EXCEPT ![c] = Keepalive] ELSE due

\* register_telemetry_listener: a name whose hash another holds is refused.
MayListen(c, ch) == listeners[c][Hash[ch]] \in {NoChannel, ch}

\* subscribe_telemetry_timestamped.
SubscribeTelemetry(c, ch) ==
  /\ MayListen(c, ch)
  /\ listeners' = [listeners EXCEPT ![c][Hash[ch]] = ch]
  /\ SendRegistration(Hash[ch], c)
  /\ due' = Keepalives(c)
  /\ UNCHANGED <<running, renewing>>

\* The closure subscribe_telemetry_timestamped returns, for a hash's last
\* listener.  The server is not told; the lease runs out.
UnsubscribeTelemetry(c, h) ==
  /\ listeners[c][h] # NoChannel
  /\ listeners' = [listeners EXCEPT ![c][h] = NoChannel]
  /\ lost' = [lost EXCEPT ![c][h] = 0]
  /\ heard' = heard \ {<<h, c>>}
  /\ UNCHANGED <<leases, routes, running, due, renewing>>

\* The keepalive thread wakes up and takes the hashes that have listeners.
WakeKeepalive(c) ==
  /\ due[c] = 0
  /\ due' = [due EXCEPT ![c] = Keepalive]
  /\ renewing' = [renewing EXCEPT ![c] = {h \in Hashes : listeners[c][h] # NoChannel}]
  /\ UNCHANGED <<leases, routes, listeners, running, lost, heard>>

\* It renews one of them, even if its listeners have gone meanwhile.
Renew(c, h) ==
  /\ h \in renewing[c]
  /\ renewing' = [renewing EXCEPT ![c] = @ \ {h}]
  /\ \/ listeners[c][h] # NoChannel /\ SendRegistration(h, c)
     \/ /\ listeners[c][h] = NoChannel
        /\ RegisterTelemetry(h, c) \/ UNCHANGED <<leases, routes>>
        /\ UNCHANGED <<lost, heard>>
  /\ UNCHANGED <<listeners, running, due>>

\* Client::stop, as far as telemetry goes: the threads end.
StopClient(c) ==
  /\ running[c]
  /\ running' = [running EXCEPT ![c] = FALSE]
  /\ due' = [due EXCEPT ![c] = -1]
  /\ renewing' = [renewing EXCEPT ![c] = {}]
  /\ lost' = [lost EXCEPT ![c] = [h \in Hashes |-> 0]]
  /\ heard' = {pair \in heard : pair[2] # c}
  /\ UNCHANGED <<leases, routes, listeners>>

\* Client::start: the threads come back if there are listeners.
StartClient(c) ==
  /\ ~ running[c]
  /\ running' = [running EXCEPT ![c] = TRUE]
  /\ due' = IF \E h \in Hashes : listeners[c][h] # NoChannel
            THEN [due EXCEPT ![c] = Keepalive] ELSE due
  /\ UNCHANGED <<leases, routes, listeners, renewing, lost, heard>>

\* A second passes, after the renewals that are due.
Second ==
  /\ \A c \in Client : due[c] # 0 /\ renewing[c] = {}
  /\ due' = [c \in Client |-> IF due[c] > 0 THEN due[c] - 1 ELSE due[c]]
  /\ leases' = [h \in Hashes |-> [c \in Client |->
       IF leases[h][c] \in 0 .. Ttl - 1 THEN leases[h][c] + 1 ELSE leases[h][c]]]
  /\ UNCHANGED <<routes, listeners, running, renewing, lost, heard>>

TelemetryNext ==
  \/ Second
  \/ \E c \in Client :
       \/ \E ch \in Channel : SubscribeTelemetry(c, ch)
       \/ \E h \in Hashes : UnsubscribeTelemetry(c, h) \/ Renew(c, h)
       \/ WakeKeepalive(c) \/ StopClient(c) \/ StartClient(c)

TelemetrySpec == TelemetryInit /\ [][TelemetryNext]_telemetryVars

-----------------------------------------------------------------------------
\* Type and limits: the registry never holds more channels, nor a channel
\* more addresses, than register_telemetry allows (server.rs 544-553), in the
\* snapshot the relay reads included.
TelemetryBounded ==
  /\ leases \in [Hashes -> [Client -> NoLease .. Ttl]]
  /\ listeners \in [Client -> [Hashes -> Channel \cup {NoChannel}]]
  /\ due \in [Client -> -1 .. Keepalive]
  /\ Cardinality({pair[1] : pair \in routes}) <= MaxTelemetryChannels
  /\ \A h \in Hashes :
       Cardinality({pair \in routes : pair[1] = h}) <= MaxTelemetrySubscribers

\* "Renews every telemetry registration before the server's lease expires, or
\* the subscriber goes silent at the next sweep" (client/telemetry.rs:203): a
\* running client whose registration the server accepted keeps getting the
\* channel's datagrams for as long as it listens, whatever the others register
\* and although up to MaxLost of its renewals in a row are lost.
AcceptedStaysRouted == \A pair \in heard : pair[2] \in Relayed(pair[1])

\* The two sides of register_telemetry: the tables keep to their limits, and
\* keeping to them never costs a client the lease it was given.
LeasesHold == TelemetryBounded /\ AcceptedStaysRouted
=============================================================================
