--------------------------- MODULE TelemetryProofs --------------------------
(***************************************************************************)
(* Proofs about Telemetry: for any clients, channels and limits, the       *)
(* tables keep to their limits and a client that renews never loses the    *)
(* lease it was given, as long as its lost datagrams in a row are few      *)
(* enough for the TTL.                                                     *)
(***************************************************************************)
EXTENDS Telemetry, FiniteSetTheorems, TLAPS

\* How old a lease of a listening client may be when its next renewal is due.
Budget(l) == (l + 1) * Keepalive

LeaseTables == [Hashes -> [Client -> NoLease .. Ttl]]
Known(table) == {h \in Hashes : Leased(table, h) # {}}

TelemetryType ==
  /\ leases \in LeaseTables
  /\ listeners \in [Client -> [Hashes -> Channel \cup {NoChannel}]]
  /\ running \in [Client -> BOOLEAN]
  /\ due \in [Client -> -1 .. Keepalive]
  /\ renewing \in [Client -> SUBSET Hashes]
  /\ \A c \in Client : renewing[c] # {} => due[c] >= 0
  /\ lost \in [Client -> [Hashes -> 0 .. MaxLost]]
  /\ routes \subseteq Hashes \X Client /\ heard \subseteq Hashes \X Client

\* The age of an accepted lease and the wait for its next renewal are within
\* what the datagrams lost so far leave of the TTL.
Fresh(h, c) ==
  /\ leases[h][c] >= 0
  /\ leases[h][c] <= Budget(lost[c][h])
  /\ h \notin renewing[c] => leases[h][c] + due[c] <= Budget(lost[c][h])

KeptInv ==
  \A h \in Hashes, c \in Client : <<h, c>> \in heard =>
    /\ running[c] /\ due[c] >= 0
    /\ listeners[c][h] # NoChannel
    /\ <<h, c>> \in routes
    /\ Fresh(h, c)

\* The limits, of a table of leases and of the snapshot the relay reads.
Limited(table) ==
  /\ Cardinality(Known(table)) <= MaxTelemetryChannels
  /\ \A h \in Hashes : Cardinality(Leased(table, h)) <= MaxTelemetrySubscribers

RoutesLimited(pairs) ==
  /\ Cardinality({pair[1] : pair \in pairs}) <= MaxTelemetryChannels
  /\ \A h \in Hashes : Cardinality({pair \in pairs : pair[1] = h}) <= MaxTelemetrySubscribers

TelemetryInv == TelemetryType /\ KeptInv /\ Limited(leases) /\ RoutesLimited(routes)

LEMMA TelemetryConstants ==
  /\ Keepalive \in Nat /\ Keepalive > 0 /\ Ttl \in Nat /\ MaxLost \in Nat
  /\ MaxTelemetryChannels \in Nat /\ MaxTelemetrySubscribers \in Nat
  /\ MaxTelemetryChannels > 0 /\ MaxTelemetrySubscribers > 0
  /\ IsFiniteSet(Client) /\ NoChannel \notin Channel
  /\ \A ch \in Channel : Hash[ch] \in Hashes
BY TelemetryAssumption DEF Hashes

LEMMA HashesFinite == IsFiniteSet(Hashes)
<1> DEFINE f == [ch \in Channel |-> Hash[ch]]
<1>1. f \in Surjection(Channel, Hashes)
  BY DEF Hashes, Surjection
<1>. QED  BY <1>1, FS_Surjection, TelemetryAssumption

\* What a lost datagram more allows, and that the limit of all stays below the
\* TTL.
LEMMA BudgetFacts ==
  /\ Budget(0) = Keepalive
  /\ \A l \in 0 .. MaxLost : /\ Budget(l) \in Nat /\ Budget(l) < Ttl
                             /\ Budget(l) >= Keepalive
                             /\ Budget(l + 1) = Budget(l) + Keepalive
<1>1. Budget(0) = Keepalive
  BY TelemetryConstants DEF Budget
<1>2. ASSUME NEW l \in 0 .. MaxLost
      PROVE  /\ Budget(l) \in Nat /\ Budget(l) < Ttl /\ Budget(l) >= Keepalive
             /\ Budget(l + 1) = Budget(l) + Keepalive
  <2>1. l \in Nat /\ MaxLost - l \in Nat /\ Keepalive \in Nat /\ Ttl \in Nat /\ MaxLost \in Nat
    BY TelemetryConstants
  <2>2. l * Keepalive \in Nat /\ (MaxLost - l) * Keepalive \in Nat
    BY <2>1
  <2>3. (MaxLost + 1) * Keepalive = (MaxLost - l) * Keepalive + (l + 1) * Keepalive
    BY <2>1
  <2>4. (l + 1) * Keepalive = l * Keepalive + Keepalive
        /\ (l + 1 + 1) * Keepalive = (l + 1) * Keepalive + Keepalive
    BY <2>1
  <2>. QED  BY <2>1, <2>2, <2>3, <2>4, TelemetryAssumption DEF Budget
<1>. QED  BY <1>1, <1>2

LEMMA TablesFinite ==
  ASSUME NEW table
  PROVE  /\ IsFiniteSet(Known(table)) /\ Cardinality(Known(table)) \in Nat
         /\ \A h : IsFiniteSet(Leased(table, h)) /\ Cardinality(Leased(table, h)) \in Nat
<1>1. Known(table) \in SUBSET Hashes /\ \A h : Leased(table, h) \in SUBSET Client
  BY DEF Known, Leased
<1>. QED  BY <1>1, HashesFinite, TelemetryConstants, FS_Subset, FS_CardinalityType

\* A sweep removes expired leases and no other.
LEMMA SweepFacts ==
  ASSUME NEW table \in LeaseTables, Limited(table)
  PROVE  /\ Sweep(table) \in LeaseTables /\ Limited(Sweep(table))
         /\ \A h \in Hashes, c \in Client :
              table[h][c] < Ttl => Sweep(table)[h][c] = table[h][c]
<1>1. \A h \in Hashes, c \in Client :
        Sweep(table)[h][c] = IF table[h][c] < Ttl THEN table[h][c] ELSE NoLease
  BY DEF Sweep
<1>2. Sweep(table) \in LeaseTables
  BY TelemetryConstants DEF Sweep, LeaseTables, NoLease
<1>3. \A h \in Hashes : Leased(Sweep(table), h) \in SUBSET Leased(table, h)
  BY <1>1 DEF Leased
<1>4. Known(Sweep(table)) \in SUBSET Known(table)
  BY <1>3 DEF Known
<1>5. Cardinality(Known(Sweep(table))) <= Cardinality(Known(table))
  BY <1>4, TablesFinite, FS_Subset
<1>6. \A h \in Hashes : Cardinality(Leased(Sweep(table), h)) <= Cardinality(Leased(table, h))
  BY <1>3, TablesFinite, FS_Subset
<1>7. Limited(Sweep(table))
  BY <1>5, <1>6, TablesFinite, TelemetryConstants DEF Limited
<1>. QED  BY <1>1, <1>2, <1>7

\* A registration that is not turned away keeps to the limits.
LEMMA AddFacts ==
  ASSUME NEW table \in LeaseTables, Limited(table), NEW h \in Hashes, NEW c \in Client,
         ~ Full(table, h, c)
  PROVE  /\ [table EXCEPT ![h][c] = 0] \in LeaseTables
         /\ Limited([table EXCEPT ![h][c] = 0])
<1> DEFINE T == [table EXCEPT ![h][c] = 0]
<1>1. T \in LeaseTables
  BY TelemetryConstants DEF LeaseTables, NoLease
<1>2. \A k \in Hashes, d \in Client :
        T[k][d] = IF k = h /\ d = c THEN 0 ELSE table[k][d]
  BY DEF LeaseTables
<1> HIDE DEF T
<1>3. \A k \in Hashes :
        Leased(T, k) = IF k = h THEN Leased(table, h) \cup {c} ELSE Leased(table, k)
  BY <1>2 DEF Leased, NoLease
<1>4. Known(T) = Known(table) \cup {h}
  BY <1>3 DEF Known
<1>5. Cardinality(Known(T)) <= MaxTelemetryChannels
  <2>1. h \in Known(table) \/ Cardinality(Known(table)) < MaxTelemetryChannels
    BY TablesFinite, TelemetryConstants DEF Full, Known
  <2>2. IsFiniteSet(Known(table)) /\ Cardinality(Known(table)) \in Nat
    BY TablesFinite
  <2>3. Cardinality(Known(T)) = IF h \in Known(table) THEN Cardinality(Known(table))
                                ELSE Cardinality(Known(table)) + 1
    BY <1>4, <2>2, FS_AddElement
  <2>. QED  BY <2>1, <2>2, <2>3, TelemetryConstants DEF Limited
<1>6. ASSUME NEW k \in Hashes PROVE Cardinality(Leased(T, k)) <= MaxTelemetrySubscribers
  <2>1. CASE k # h
    BY <2>1, <1>3 DEF Limited
  <2>2. CASE k = h
    <3>1. \/ c \in Leased(table, h)
          \/ Cardinality(Leased(table, h)) < MaxTelemetrySubscribers
      BY TablesFinite, TelemetryConstants DEF Full
    <3>2. IsFiniteSet(Leased(table, h)) /\ Cardinality(Leased(table, h)) \in Nat
      BY TablesFinite
    <3>3. Leased(T, h) = Leased(table, h) \cup {c}
      BY <1>3
    <3>4. Cardinality(Leased(T, h)) =
            IF c \in Leased(table, h) THEN Cardinality(Leased(table, h))
            ELSE Cardinality(Leased(table, h)) + 1
      BY <3>2, <3>3, FS_AddElement
    <3>. QED  BY <2>2, <3>1, <3>2, <3>4, TelemetryConstants DEF Limited
  <2>. QED  BY <2>1, <2>2
<1>. QED  BY <1>1, <1>5, <1>6 DEF Limited, T

\* So does the snapshot made of the table.
LEMMA RouteFacts ==
  ASSUME NEW table \in LeaseTables, Limited(table), NEW pairs,
         pairs = {pair \in Hashes \X Client : table[pair[1]][pair[2]] # NoLease}
  PROVE  RoutesLimited(pairs)
<1>1. {pair[1] : pair \in pairs} \in SUBSET Known(table)
  BY DEF Known, Leased
<1>2. Cardinality({pair[1] : pair \in pairs}) <= MaxTelemetryChannels
  <2>1. /\ Cardinality({pair[1] : pair \in pairs}) <= Cardinality(Known(table))
        /\ IsFiniteSet({pair[1] : pair \in pairs})
    BY <1>1, TablesFinite, FS_Subset
  <2>. QED  BY <2>1, TablesFinite, FS_CardinalityType, TelemetryConstants DEF Limited
<1>3. ASSUME NEW h \in Hashes
      PROVE  Cardinality({pair \in pairs : pair[1] = h}) <= MaxTelemetrySubscribers
  <2> DEFINE S == {pair \in pairs : pair[1] = h}
             f == [c \in Leased(table, h) |-> <<h, c>>]
  <2>1. f \in Surjection(Leased(table, h), S)
    BY DEF Surjection, Leased
  <2>2. IsFiniteSet(S) /\ Cardinality(S) <= Cardinality(Leased(table, h))
    BY <2>1, TablesFinite, FS_Surjection
  <2>. QED  BY <2>2, TablesFinite, FS_CardinalityType, TelemetryConstants DEF Limited
<1>. QED  BY <1>2, <1>3 DEF RoutesLimited

\* An accepted lease is young enough to survive the sweep, so its renewal is
\* never one too many, and the new snapshot has all accepted leases.
LEMMA RegisterFacts ==
  ASSUME TelemetryInv, NEW h \in Hashes, NEW c \in Client, RegisterTelemetry(h, c)
  PROVE  /\ leases' \in LeaseTables /\ Limited(leases')
         /\ routes' \subseteq Hashes \X Client /\ RoutesLimited(routes')
         /\ leases'[h][c] = 0 => <<h, c>> \in routes'
         /\ <<h, c>> \in heard => leases'[h][c] = 0
         /\ \A k \in Hashes, d \in Client : <<k, d>> \in heard =>
              /\ <<k, d>> \in routes'
              /\ k # h \/ d # c => leases'[k][d] = leases[k][d]
<1> DEFINE swept == Sweep(leases)
           full == Full(swept, h, c)
           table == [swept EXCEPT ![h][c] = 0]
           all == {pair \in Hashes \X Client : table[pair[1]][pair[2]] # NoLease}
<1>1. /\ leases' = IF full THEN swept ELSE table
      /\ routes' = IF full THEN routes ELSE all
  BY DEF RegisterTelemetry
<1>2. swept \in LeaseTables /\ Limited(swept)
  BY SweepFacts DEF TelemetryInv, TelemetryType
<1>3. ASSUME NEW k \in Hashes, NEW d \in Client, <<k, d>> \in heard
      PROVE  swept[k][d] = leases[k][d] /\ leases[k][d] \in Nat /\ <<k, d>> \in routes
  <2>1. /\ leases[k][d] \in NoLease .. Ttl /\ lost[d][k] \in 0 .. MaxLost
        /\ leases \in LeaseTables
    BY DEF TelemetryInv, TelemetryType, LeaseTables
  <2>2. leases[k][d] >= 0 /\ leases[k][d] <= Budget(lost[d][k]) /\ <<k, d>> \in routes
    BY <1>3 DEF TelemetryInv, KeptInv, Fresh
  <2>3. Budget(lost[d][k]) \in Nat /\ Budget(lost[d][k]) < Ttl
    BY <2>1, BudgetFacts
  <2>4. leases[k][d] < Ttl /\ leases[k][d] \in Nat
    BY <2>1, <2>2, <2>3, TelemetryConstants DEF NoLease
  <2>. QED  BY <2>1, <2>2, <2>4, SweepFacts DEF TelemetryInv
<1>4. swept[h][c] \in Nat => ~ full
  BY DEF Full, Leased, NoLease
<1>5. \A k \in Hashes, d \in Client :
        table[k][d] = IF k = h /\ d = c THEN 0 ELSE swept[k][d]
  BY <1>2 DEF LeaseTables
<1>6. ~ full => table \in LeaseTables /\ Limited(table)
  BY <1>2, AddFacts
<1>7. ~ full => RoutesLimited(all)
  BY <1>6, RouteFacts
<1> HIDE DEF swept, full, table
<1>8. \A k \in Hashes, d \in Client : <<k, d>> \in all <=> table[k][d] # NoLease
  OBVIOUS
<1> HIDE DEF all
<1>9. all \subseteq Hashes \X Client
  BY DEF all
<1>10. full => swept[h][c] # 0
  BY <1>4
<1>11. leases'[h][c] = 0 => <<h, c>> \in routes'
  BY <1>1, <1>5, <1>8, <1>10 DEF NoLease
<1>12. <<h, c>> \in heard => leases'[h][c] = 0
  BY <1>1, <1>3, <1>4, <1>5
<1>13. ASSUME NEW k \in Hashes, NEW d \in Client, <<k, d>> \in heard
       PROVE  <<k, d>> \in routes' /\ (k # h \/ d # c => leases'[k][d] = leases[k][d])
  <2>1. swept[k][d] = leases[k][d] /\ leases[k][d] \in Nat /\ <<k, d>> \in routes
    BY <1>3, <1>13
  <2>. QED  BY <2>1, <1>1, <1>5, <1>8 DEF NoLease
<1>. QED  BY <1>1, <1>2, <1>6, <1>7, <1>9, <1>11, <1>12, <1>13 DEF TelemetryInv, TelemetryType

\* A registration sent: accepted leases are as they were, renewed, or one lost
\* datagram further.
LEMMA SendFacts ==
  ASSUME TelemetryInv, NEW h \in Hashes, NEW c \in Client, SendRegistration(h, c)
  PROVE  /\ leases' \in LeaseTables /\ Limited(leases')
         /\ routes' \subseteq Hashes \X Client /\ RoutesLimited(routes')
         /\ lost' \in [Client -> [Hashes -> 0 .. MaxLost]]
         /\ heard' \subseteq Hashes \X Client
         /\ \A k \in Hashes, d \in Client : <<k, d>> \in heard' =>
              /\ <<k, d>> \in routes'
              /\ k # h \/ d # c => /\ <<k, d>> \in heard
                                   /\ leases'[k][d] = leases[k][d]
                                   /\ lost'[d][k] = lost[d][k]
         /\ <<h, c>> \in heard' =>
              \/ running[c] /\ leases'[h][c] = 0 /\ lost'[c][h] = 0
              \/ /\ <<h, c>> \in heard /\ leases'[h][c] = leases[h][c]
                 /\ lost[c][h] < MaxLost /\ lost'[c][h] = lost[c][h] + 1
<1>1. /\ lost \in [Client -> [Hashes -> 0 .. MaxLost]] /\ MaxLost \in Nat
      /\ leases \in LeaseTables /\ Limited(leases) /\ RoutesLimited(routes)
      /\ routes \subseteq Hashes \X Client /\ heard \subseteq Hashes \X Client
      /\ \A k \in Hashes, d \in Client : <<k, d>> \in heard => running[d] /\ <<k, d>> \in routes
  BY TelemetryConstants DEF TelemetryInv, TelemetryType, KeptInv
<1>2. CASE /\ RegisterTelemetry(h, c)
           /\ lost' = [lost EXCEPT ![c][h] = 0]
           /\ heard' = IF running[c] /\ leases'[h][c] = 0 THEN heard \cup {<<h, c>>} ELSE heard
  <2>1. \A k \in Hashes, d \in Client :
          lost'[d][k] = IF k = h /\ d = c THEN 0 ELSE lost[d][k]
    BY <1>1, <1>2
  <2>2. lost' \in [Client -> [Hashes -> 0 .. MaxLost]]
    BY <1>1, <1>2
  <2>3. heard \subseteq heard' /\ heard' \subseteq heard \cup {<<h, c>>}
    BY <1>2
  <2>4. <<h, c>> \in heard' => running[c] /\ leases'[h][c] = 0
    BY <1>1, <1>2, RegisterFacts
  <2>5. /\ leases' \in LeaseTables /\ Limited(leases')
        /\ routes' \subseteq Hashes \X Client /\ RoutesLimited(routes')
    BY <1>2, RegisterFacts
  <2>6. heard' \subseteq Hashes \X Client
    BY <1>1, <2>3
  <2>7. ASSUME NEW k \in Hashes, NEW d \in Client, <<k, d>> \in heard'
        PROVE  /\ <<k, d>> \in routes'
               /\ k # h \/ d # c => /\ <<k, d>> \in heard
                                    /\ leases'[k][d] = leases[k][d]
                                    /\ lost'[d][k] = lost[d][k]
    <3>1. CASE k = h /\ d = c
      BY <3>1, <2>4, <2>7, <1>2, RegisterFacts
    <3>2. CASE k # h \/ d # c
      <4>1. <<k, d>> \in heard
        BY <3>2, <2>3, <2>7
      <4>2. <<k, d>> \in routes' /\ leases'[k][d] = leases[k][d]
        <5>1. \A p \in Hashes, q \in Client : <<p, q>> \in heard =>
                 <<p, q>> \in routes' /\ (p # h \/ q # c => leases'[p][q] = leases[p][q])
          BY <1>2, RegisterFacts
        <5>. QED  BY <3>2, <4>1, <5>1
      <4>3. lost'[d][k] = lost[d][k]
        BY <3>2, <2>1
      <4>. QED  BY <4>1, <4>2, <4>3
    <3>. QED  BY <3>1, <3>2
  <2>8. <<h, c>> \in heard' => running[c] /\ leases'[h][c] = 0 /\ lost'[c][h] = 0
    BY <2>1, <2>4
  <2>. QED  BY <2>2, <2>5, <2>6, <2>7, <2>8
<1>3. CASE /\ lost[c][h] < MaxLost
           /\ lost' = [lost EXCEPT ![c][h] = @ + 1]
           /\ UNCHANGED <<leases, routes, heard>>
  <2>1. \A k \in Hashes, d \in Client :
          lost'[d][k] = IF k = h /\ d = c THEN lost[c][h] + 1 ELSE lost[d][k]
    BY <1>1, <1>3
  <2>2. lost[c][h] + 1 \in 0 .. MaxLost
    BY <1>1, <1>3
  <2>3. lost' \in [Client -> [Hashes -> 0 .. MaxLost]]
    BY <1>1, <1>3, <2>2
  <2>. QED  BY <1>1, <1>3, <2>1, <2>3
<1>. QED  BY <1>2, <1>3 DEF SendRegistration

LEMMA SubscribeKeeps ==
  ASSUME TelemetryInv, NEW c \in Client, NEW ch \in Channel, SubscribeTelemetry(c, ch)
  PROVE  TelemetryInv'
<1> DEFINE h == Hash[ch]
<1>1. /\ listeners' = [listeners EXCEPT ![c][h] = ch]
      /\ SendRegistration(h, c)
      /\ due' = Keepalives(c)
      /\ UNCHANGED <<running, renewing>>
  BY DEF SubscribeTelemetry
<1>2. h \in Hashes /\ ch # NoChannel
  BY TelemetryConstants
<1> HIDE DEF h
<1>3. /\ due' \in [Client -> -1 .. Keepalive]
      /\ \A d \in Client : due[d] >= 0 => due'[d] = due[d]
      /\ running[c] => due'[c] >= 0
  BY <1>1, TelemetryConstants DEF Keepalives, TelemetryInv, TelemetryType
<1>4. /\ listeners' \in [Client -> [Hashes -> Channel \cup {NoChannel}]]
      /\ \A k \in Hashes, d \in Client :
           listeners'[d][k] = IF k = h /\ d = c THEN ch ELSE listeners[d][k]
  BY <1>1, <1>2 DEF TelemetryInv, TelemetryType
<1>5. TelemetryType' /\ Limited(leases)' /\ RoutesLimited(routes)'
  BY <1>1, <1>2, <1>3, <1>4, SendFacts
     DEF TelemetryInv, TelemetryType, Limited, RoutesLimited, Known, Leased
<1>6. ASSUME NEW k \in Hashes, NEW d \in Client, <<k, d>> \in heard'
      PROVE  /\ running'[d] /\ due'[d] >= 0 /\ listeners'[d][k] # NoChannel
             /\ <<k, d>> \in routes' /\ Fresh(k, d)'
  <2>1. <<k, d>> \in routes'
    BY <1>1, <1>2, <1>6, SendFacts
  <2>2. CASE k # h \/ d # c
    <3>1. <<k, d>> \in heard /\ leases'[k][d] = leases[k][d] /\ lost'[d][k] = lost[d][k]
      <4>1. \A p \in Hashes, q \in Client : <<p, q>> \in heard' =>
              /\ <<p, q>> \in routes'
              /\ p # h \/ q # c => /\ <<p, q>> \in heard
                                   /\ leases'[p][q] = leases[p][q]
                                   /\ lost'[q][p] = lost[q][p]
        BY <1>1, <1>2, SendFacts, Zenon
      <4>. QED  BY <1>6, <2>2, <4>1
    <3>2. running[d] /\ due[d] >= 0 /\ listeners[d][k] # NoChannel /\ Fresh(k, d)
      BY <3>1 DEF TelemetryInv, KeptInv
    <3>. QED  BY <1>1, <1>3, <1>4, <2>1, <2>2, <3>1, <3>2 DEF Fresh
  <2>3. CASE k = h /\ d = c /\ running[c] /\ leases'[h][c] = 0 /\ lost'[c][h] = 0
    <3>1. due'[c] \in 0 .. Keepalive /\ running'[c] /\ listeners'[c][h] # NoChannel
      BY <1>1, <1>2, <1>3, <1>4, <2>3, TelemetryConstants
    <3>2. Fresh(h, c)'
      BY <2>3, <3>1, BudgetFacts, TelemetryConstants DEF Fresh
    <3>. QED  BY <2>1, <2>3, <3>1, <3>2
  <2>4. CASE /\ k = h /\ d = c /\ <<h, c>> \in heard /\ leases'[h][c] = leases[h][c]
             /\ lost[c][h] < MaxLost /\ lost'[c][h] = lost[c][h] + 1
    <3>1. running[c] /\ due[c] >= 0 /\ Fresh(h, c)
      BY <1>2, <2>4 DEF TelemetryInv, KeptInv
    <3>2. lost[c][h] \in 0 .. MaxLost /\ leases[h][c] \in NoLease .. Ttl /\ due[c] \in -1 .. Keepalive
      BY <1>2 DEF TelemetryInv, TelemetryType, LeaseTables
    <3>3. Budget(lost[c][h] + 1) = Budget(lost[c][h]) + Keepalive /\ Budget(lost[c][h]) \in Nat
      BY <3>2, BudgetFacts
    <3>4. /\ leases[h][c] >= 0 /\ leases[h][c] <= Budget(lost[c][h])
          /\ h \notin renewing[c] => leases[h][c] + due[c] <= Budget(lost[c][h])
      BY <3>1 DEF Fresh
    <3>5. due'[c] = due[c] /\ running'[c] /\ listeners'[c][h] # NoChannel /\ renewing' = renewing
      BY <1>1, <1>2, <1>3, <1>4, <3>1
    <3>6. Fresh(h, c)'
      BY <2>4, <3>2, <3>3, <3>4, <3>5, TelemetryConstants DEF Fresh, NoLease
    <3>. QED  BY <2>1, <2>4, <3>1, <3>5, <3>6
  <2>. QED  BY <1>1, <1>2, <1>6, <2>2, <2>3, <2>4, SendFacts
<1>7. KeptInv'
  BY <1>6 DEF KeptInv
<1>. QED  BY <1>5, <1>7 DEF TelemetryInv

LEMMA UnsubscribeKeeps ==
  ASSUME TelemetryInv, NEW c \in Client, NEW h \in Hashes, UnsubscribeTelemetry(c, h)
  PROVE  TelemetryInv'
<1>1. /\ listeners' = [listeners EXCEPT ![c][h] = NoChannel]
      /\ lost' = [lost EXCEPT ![c][h] = 0]
      /\ heard' = heard \ {<<h, c>>}
      /\ UNCHANGED <<leases, routes, running, due, renewing>>
  BY DEF UnsubscribeTelemetry
<1>2. \A k \in Hashes, d \in Client : k # h \/ d # c =>
        lost'[d][k] = lost[d][k] /\ listeners'[d][k] = listeners[d][k]
  BY <1>1 DEF TelemetryInv, TelemetryType
<1>3. TelemetryType'
  BY <1>1, TelemetryConstants DEF TelemetryInv, TelemetryType
<1>4. Limited(leases)' /\ RoutesLimited(routes)'
  BY <1>1 DEF TelemetryInv, Limited, RoutesLimited, Known, Leased
<1>5. KeptInv'
  BY <1>1, <1>2 DEF TelemetryInv, KeptInv, Fresh
<1>. QED  BY <1>3, <1>4, <1>5 DEF TelemetryInv

LEMMA WakeKeeps ==
  ASSUME TelemetryInv, NEW c \in Client, WakeKeepalive(c)
  PROVE  TelemetryInv'
<1>1. /\ due[c] = 0 /\ due' = [due EXCEPT ![c] = Keepalive]
      /\ renewing' = [renewing EXCEPT ![c] = {h \in Hashes : listeners[c][h] # NoChannel}]
      /\ UNCHANGED <<leases, routes, listeners, running, lost, heard>>
  BY DEF WakeKeepalive
<1>2. TelemetryType'
  BY <1>1, TelemetryConstants DEF TelemetryInv, TelemetryType
<1>3. Limited(leases)' /\ RoutesLimited(routes)'
  BY <1>1 DEF TelemetryInv, Limited, RoutesLimited, Known, Leased
<1>4. /\ \A d \in Client : d # c => due'[d] = due[d] /\ renewing'[d] = renewing[d]
      /\ due'[c] = Keepalive
      /\ \A h \in Hashes : listeners[c][h] # NoChannel => h \in renewing'[c]
  BY <1>1 DEF TelemetryInv, TelemetryType
<1>5. KeptInv'
  BY <1>1, <1>4, TelemetryConstants DEF TelemetryInv, KeptInv, Fresh
<1>. QED  BY <1>2, <1>3, <1>5 DEF TelemetryInv

LEMMA StopKeeps ==
  ASSUME TelemetryInv, NEW c \in Client, StopClient(c)
  PROVE  TelemetryInv'
<1>1. /\ running' = [running EXCEPT ![c] = FALSE]
      /\ due' = [due EXCEPT ![c] = -1]
      /\ renewing' = [renewing EXCEPT ![c] = {}]
      /\ lost' = [lost EXCEPT ![c] = [h \in Hashes |-> 0]]
      /\ heard' = {pair \in heard : pair[2] # c}
      /\ UNCHANGED <<leases, routes, listeners>>
  BY DEF StopClient
<1>2. TelemetryType'
  BY <1>1, TelemetryConstants DEF TelemetryInv, TelemetryType
<1>3. Limited(leases)' /\ RoutesLimited(routes)'
  BY <1>1 DEF TelemetryInv, Limited, RoutesLimited, Known, Leased
<1>4. \A d \in Client : d # c =>
        /\ due'[d] = due[d] /\ renewing'[d] = renewing[d]
        /\ running'[d] = running[d] /\ lost'[d] = lost[d]
  BY <1>1 DEF TelemetryInv, TelemetryType
<1>5. KeptInv'
  BY <1>1, <1>4 DEF TelemetryInv, KeptInv, Fresh
<1>. QED  BY <1>2, <1>3, <1>5 DEF TelemetryInv

LEMMA StartKeeps ==
  ASSUME TelemetryInv, NEW c \in Client, StartClient(c)
  PROVE  TelemetryInv'
<1>1. /\ ~ running[c] /\ running' = [running EXCEPT ![c] = TRUE]
      /\ due' \in {due, [due EXCEPT ![c] = Keepalive]}
      /\ UNCHANGED <<leases, routes, listeners, renewing, lost, heard>>
  BY DEF StartClient
<1>2. TelemetryType'
  BY <1>1, TelemetryConstants DEF TelemetryInv, TelemetryType
<1>3. Limited(leases)' /\ RoutesLimited(routes)'
  BY <1>1 DEF TelemetryInv, Limited, RoutesLimited, Known, Leased
<1>4. \A d \in Client : d # c => due'[d] = due[d] /\ running'[d] = running[d]
  BY <1>1 DEF TelemetryInv, TelemetryType
<1>5. KeptInv'
  BY <1>1, <1>4 DEF TelemetryInv, KeptInv, Fresh
<1>. QED  BY <1>2, <1>3, <1>5 DEF TelemetryInv

\* A renewal of a hash the client still listens to.
LEMMA RenewKeeps ==
  ASSUME TelemetryInv, NEW c \in Client, NEW h \in Hashes,
         h \in renewing[c], renewing' = [renewing EXCEPT ![c] = @ \ {h}],
         listeners[c][h] # NoChannel, SendRegistration(h, c),
         UNCHANGED <<listeners, running, due>>
  PROVE  TelemetryInv'
<1>1. /\ renewing' \in [Client -> SUBSET Hashes]
      /\ \A k \in Hashes, d \in Client : k # h \/ d # c =>
           (k \in renewing'[d] <=> k \in renewing[d])
      /\ \A d \in Client : renewing'[d] \subseteq renewing[d]
  BY DEF TelemetryInv, TelemetryType
<1>2. TelemetryType' /\ Limited(leases)' /\ RoutesLimited(routes)'
  BY <1>1, SendFacts DEF TelemetryInv, TelemetryType, Limited, RoutesLimited, Known, Leased
<1>3. ASSUME NEW k \in Hashes, NEW d \in Client, <<k, d>> \in heard'
      PROVE  /\ running'[d] /\ due'[d] >= 0 /\ listeners'[d][k] # NoChannel
             /\ <<k, d>> \in routes' /\ Fresh(k, d)'
  <2>1. <<k, d>> \in routes'
    BY <1>3, SendFacts
  <2>2. CASE k # h \/ d # c
    <3>1. <<k, d>> \in heard /\ leases'[k][d] = leases[k][d] /\ lost'[d][k] = lost[d][k]
      <4>1. \A p \in Hashes, q \in Client : <<p, q>> \in heard' =>
              /\ <<p, q>> \in routes'
              /\ p # h \/ q # c => /\ <<p, q>> \in heard
                                   /\ leases'[p][q] = leases[p][q]
                                   /\ lost'[q][p] = lost[q][p]
        BY SendFacts, Zenon
      <4>. QED  BY <1>3, <2>2, <4>1
    <3>2. running[d] /\ due[d] >= 0 /\ listeners[d][k] # NoChannel /\ Fresh(k, d)
      BY <3>1 DEF TelemetryInv, KeptInv
    <3>. QED  BY <1>1, <2>1, <2>2, <3>1, <3>2 DEF Fresh
  <2>3. due[c] \in -1 .. Keepalive
    BY DEF TelemetryInv, TelemetryType
  <2>4. CASE k = h /\ d = c /\ running[c] /\ leases'[h][c] = 0 /\ lost'[c][h] = 0
    <3>1. due[c] >= 0
      BY DEF TelemetryInv, TelemetryType
    <3>2. Fresh(h, c)'
      BY <2>3, <2>4, <3>1, BudgetFacts, TelemetryConstants DEF Fresh
    <3>. QED  BY <2>1, <2>4, <3>1, <3>2
  <2>5. CASE /\ k = h /\ d = c /\ <<h, c>> \in heard /\ leases'[h][c] = leases[h][c]
             /\ lost[c][h] < MaxLost /\ lost'[c][h] = lost[c][h] + 1
    <3>1. running[c] /\ due[c] >= 0 /\ Fresh(h, c)
      BY <2>5 DEF TelemetryInv, KeptInv
    <3>2. lost[c][h] \in 0 .. MaxLost /\ leases[h][c] \in NoLease .. Ttl
      BY DEF TelemetryInv, TelemetryType, LeaseTables
    <3>3. Budget(lost[c][h] + 1) = Budget(lost[c][h]) + Keepalive /\ Budget(lost[c][h]) \in Nat
      BY <3>2, BudgetFacts
    <3>4. leases[h][c] >= 0 /\ leases[h][c] <= Budget(lost[c][h])
      BY <3>1 DEF Fresh
    <3>5. Fresh(h, c)'
      BY <2>3, <2>5, <3>2, <3>3, <3>4, TelemetryConstants DEF Fresh, NoLease
    <3>. QED  BY <2>1, <2>5, <3>1, <3>5
  <2>. QED  BY <1>3, <2>2, <2>4, <2>5, SendFacts
<1>4. KeptInv'
  BY <1>3 DEF KeptInv
<1>. QED  BY <1>2, <1>4 DEF TelemetryInv

\* A renewal that comes after the last listener has gone.
LEMMA LateRenewKeeps ==
  ASSUME TelemetryInv, NEW c \in Client, NEW h \in Hashes,
         renewing' = [renewing EXCEPT ![c] = @ \ {h}],
         listeners[c][h] = NoChannel,
         RegisterTelemetry(h, c) \/ UNCHANGED <<leases, routes>>,
         UNCHANGED <<listeners, running, due, lost, heard>>
  PROVE  TelemetryInv'
<1>1. /\ renewing' \in [Client -> SUBSET Hashes]
      /\ \A k \in Hashes, d \in Client : k # h \/ d # c =>
           (k \in renewing'[d] <=> k \in renewing[d])
      /\ \A d \in Client : renewing'[d] \subseteq renewing[d]
  BY DEF TelemetryInv, TelemetryType
<1>2. <<h, c>> \notin heard
  BY DEF TelemetryInv, KeptInv
<1>3. /\ leases' \in LeaseTables /\ Limited(leases')
      /\ routes' \subseteq Hashes \X Client /\ RoutesLimited(routes')
  <2>1. CASE RegisterTelemetry(h, c)
    BY <2>1, RegisterFacts
  <2>2. CASE UNCHANGED <<leases, routes>>
    BY <2>2 DEF TelemetryInv, TelemetryType
  <2>. QED  BY <2>1, <2>2
<1>4. \A k \in Hashes, d \in Client : <<k, d>> \in heard =>
        <<k, d>> \in routes' /\ leases'[k][d] = leases[k][d]
  <2>1. CASE RegisterTelemetry(h, c)
    <3>1. \A k \in Hashes, d \in Client : <<k, d>> \in heard =>
            /\ <<k, d>> \in routes'
            /\ k # h \/ d # c => leases'[k][d] = leases[k][d]
      BY <2>1, RegisterFacts, Zenon
    <3>. QED  BY <1>2, <3>1
  <2>2. CASE UNCHANGED <<leases, routes>>
    BY <2>2 DEF TelemetryInv, KeptInv
  <2>. QED  BY <2>1, <2>2
<1>5. TelemetryType' /\ Limited(leases)' /\ RoutesLimited(routes)'
  BY <1>1, <1>3 DEF TelemetryInv, TelemetryType, Limited, RoutesLimited, Known, Leased
<1>6. KeptInv'
  BY <1>1, <1>2, <1>4 DEF TelemetryInv, KeptInv, Fresh
<1>. QED  BY <1>5, <1>6 DEF TelemetryInv

\* A second passes: every lease ages by what the wait for its renewal shrinks.
LEMMA SecondKeeps == TelemetryInv /\ Second => TelemetryInv'
<1>. SUFFICES ASSUME TelemetryInv, Second PROVE TelemetryInv'
  OBVIOUS
<1>1. /\ \A c \in Client : due[c] # 0 /\ renewing[c] = {}
      /\ due' = [c \in Client |-> IF due[c] > 0 THEN due[c] - 1 ELSE due[c]]
      /\ leases' = [h \in Hashes |-> [c \in Client |->
           IF leases[h][c] \in 0 .. Ttl - 1 THEN leases[h][c] + 1 ELSE leases[h][c]]]
      /\ UNCHANGED <<routes, listeners, running, renewing, lost, heard>>
  BY DEF Second
<1>2. /\ leases \in LeaseTables /\ due \in [Client -> -1 .. Keepalive]
      /\ lost \in [Client -> [Hashes -> 0 .. MaxLost]]
  BY DEF TelemetryInv, TelemetryType
<1>3. ASSUME NEW h \in Hashes, NEW c \in Client
      PROVE  /\ leases'[h][c] \in NoLease .. Ttl
             /\ leases'[h][c] = NoLease <=> leases[h][c] = NoLease
             /\ leases'[h][c] <= leases[h][c] + 1 /\ leases'[h][c] >= leases[h][c]
  BY <1>1, <1>2, TelemetryConstants DEF LeaseTables, NoLease
<1>4. leases' \in LeaseTables
  BY <1>1, <1>3 DEF LeaseTables
<1>5. \A c \in Client : due'[c] \in -1 .. Keepalive /\ (due[c] >= 0 => due'[c] = due[c] - 1 /\ due[c] > 0)
  BY <1>1, <1>2, TelemetryConstants
<1>6. TelemetryType'
  BY <1>1, <1>4, <1>5 DEF TelemetryInv, TelemetryType
<1>7. /\ \A h \in Hashes : Leased(leases', h) = Leased(leases, h)
      /\ Known(leases') = Known(leases)
  BY <1>3 DEF Leased, Known
<1>8. Limited(leases') /\ RoutesLimited(routes')
  BY <1>1, <1>7 DEF TelemetryInv, Limited
<1>9. KeptInv'
  <2>. SUFFICES ASSUME NEW h \in Hashes, NEW c \in Client, <<h, c>> \in heard
                PROVE  /\ running'[c] /\ due'[c] >= 0 /\ listeners'[c][h] # NoChannel
                       /\ <<h, c>> \in routes' /\ Fresh(h, c)'
    BY <1>1 DEF KeptInv
  <2>1. /\ running[c] /\ due[c] >= 0 /\ listeners[c][h] # NoChannel
        /\ <<h, c>> \in routes /\ Fresh(h, c)
    BY DEF TelemetryInv, KeptInv
  <2>2. lost[c][h] \in 0 .. MaxLost /\ Budget(lost[c][h]) \in Nat
    BY <1>2, BudgetFacts
  <2>3. leases[h][c] \in NoLease .. Ttl /\ due[c] \in -1 .. Keepalive
    BY <1>2 DEF LeaseTables
  <2>4. leases[h][c] >= 0 /\ leases[h][c] + due[c] <= Budget(lost[c][h])
    BY <1>1, <2>1 DEF Fresh
  <2>5. /\ leases'[h][c] \in NoLease .. Ttl /\ leases'[h][c] <= leases[h][c] + 1
        /\ leases'[h][c] >= leases[h][c] /\ due'[c] = due[c] - 1 /\ due[c] > 0
    BY <1>3, <1>5, <2>1
  <2>6. Fresh(h, c)'
    BY <1>1, <2>2, <2>3, <2>4, <2>5, TelemetryConstants DEF Fresh, NoLease
  <2>. QED  BY <1>1, <2>1, <2>3, <2>5, <2>6, TelemetryConstants
<1>10. Limited(leases)' /\ RoutesLimited(routes)'
  BY <1>8 DEF Limited, RoutesLimited, Known, Leased
<1>. QED  BY <1>6, <1>9, <1>10 DEF TelemetryInv

LEMMA TelemetryStart == TelemetryInit => TelemetryInv
<1>. SUFFICES ASSUME TelemetryInit PROVE TelemetryInv
  OBVIOUS
<1>1. TelemetryType /\ KeptInv
  BY TelemetryConstants DEF TelemetryInit, TelemetryType, KeptInv, LeaseTables, NoLease
<1>2. /\ \A h \in Hashes : Leased(leases, h) = {}
      /\ Known(leases) = {} /\ {pair[1] : pair \in routes} = {}
      /\ \A h \in Hashes : {pair \in routes : pair[1] = h} = {}
  BY DEF TelemetryInit, Leased, Known
<1>3. Limited(leases) /\ RoutesLimited(routes)
  <2>1. Cardinality({}) = 0
    BY FS_EmptySet
  <2>2. 0 <= MaxTelemetryChannels /\ 0 <= MaxTelemetrySubscribers
    BY TelemetryConstants
  <2>. QED  BY <1>2, <2>1, <2>2 DEF Limited, RoutesLimited
<1>. QED  BY <1>1, <1>3 DEF TelemetryInv

LEMMA TelemetryStep == TelemetryInv /\ [TelemetryNext]_telemetryVars => TelemetryInv'
<1>. SUFFICES ASSUME TelemetryInv, [TelemetryNext]_telemetryVars PROVE TelemetryInv'
  OBVIOUS
<1>1. CASE UNCHANGED telemetryVars
  BY <1>1 DEF TelemetryInv, TelemetryType, KeptInv, Fresh, Limited, RoutesLimited, Known,
              Leased, telemetryVars
<1>2. ASSUME NEW c \in Client, NEW h \in Hashes, Renew(c, h) PROVE TelemetryInv'
  BY <1>2, RenewKeeps, LateRenewKeeps DEF Renew
<1>. QED  BY <1>1, <1>2, SecondKeeps, SubscribeKeeps, UnsubscribeKeeps, WakeKeeps,
             StopKeeps, StartKeeps DEF TelemetryNext

\* register_telemetry and the keepalive thread, for any clients, channels and
\* limits: the tables keep to their limits, and a running client whose
\* registration was accepted is relayed to for as long as it listens.
THEOREM LeasesAlwaysHold == TelemetrySpec => []LeasesHold
<1>1. TelemetryInv => LeasesHold
  <2>. SUFFICES ASSUME TelemetryInv PROVE LeasesHold
    OBVIOUS
  <2>1. TelemetryBounded
    BY DEF TelemetryInv, TelemetryType, LeaseTables, RoutesLimited, TelemetryBounded
  <2>2. AcceptedStaysRouted
    <3>. SUFFICES ASSUME NEW pair \in heard PROVE pair[2] \in Relayed(pair[1])
      BY DEF AcceptedStaysRouted
    <3>1. PICK h \in Hashes, c \in Client : pair = <<h, c>>
      BY DEF TelemetryInv, TelemetryType
    <3>2. <<h, c>> \in routes /\ listeners[c][h] # NoChannel
      BY <3>1 DEF TelemetryInv, KeptInv
    <3>. QED  BY <3>1, <3>2 DEF Relayed
  <2>. QED  BY <2>1, <2>2 DEF LeasesHold
<1>. QED  BY <1>1, TelemetryStart, TelemetryStep, PTL DEF TelemetrySpec
=============================================================================
