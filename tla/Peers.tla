-------------------------------- MODULE Peers --------------------------------
(***************************************************************************)
(* The peers of a node (tcpip): the accepted connections of each topic,    *)
(* the trust in each address, the bans, and the goroutines that dial a     *)
(* peer to listen to it.  A node sends on the connections it accepted and  *)
(* receives on the ones it dialled; only accepted ones are in the maps.    *)
(*                                                                         *)
(* Every section under PeersMutex is one step.  What the code does outside *)
(* it is a step of its own: the ban check before RegisterPeer locks, and   *)
(* BanIP, whose TryLock fails when anybody holds the mutex, the caller     *)
(* included.                                                               *)
(***************************************************************************)
EXTENDS Integers, FiniteSets

CONSTANTS
  Ips, MyIP,            \* addresses, the node's own one among them
  WhiteListIPs,
  Topics,               \* in the order BanIP tries them: a sequence
  SelfNonceTopic,       \* the topic BanIP does not look at
  Callers,              \* <<topic, ip>>: who connects on which topic (bound)
  Dialers,              \* goroutines of StartNewConnection (bound)
  ConnectionMaxTries,
  MaxAccepting          \* bound: accepts under way at once

TopicSet == {Topics[i] : i \in DOMAIN Topics} \cup {SelfNonceTopic}
Idle == [ip |-> MyIP, at |-> "idle"]
Nobody == [ip |-> MyIP, on |-> FALSE]

VARIABLES
  tcpConnections,       \* <<topic, ip>> of the accepted connections
  peersConnected,       \* the same, as the services are told
  validPeersConnected,  \* trust of each address, 0 when it has no entry
  nodePeersConnected,   \* addresses a nonce message came from
  oldPeers,             \* what LookUpForNewPeersToConnect handed over
  bannedIP,             \* addresses whose ban has not run out
  accepting,            \* per topic, the address that passed the ban check
  dialer                \* state of each dialling goroutine

vars == <<tcpConnections, peersConnected, validPeersConnected, nodePeersConnected, oldPeers,
          bannedIP, accepting, dialer>>

IsIPBanned(ip) == ip \notin WhiteListIPs /\ ip \in bannedIP

Init ==
  /\ tcpConnections = {} /\ peersConnected = {} /\ oldPeers = {}
  /\ validPeersConnected = [ip \in Ips |-> IF ip = MyIP THEN 100 ELSE 0]
  /\ nodePeersConnected = {}
  /\ bannedIP = {}
  /\ accepting = [t \in TopicSet |-> Nobody]
  /\ dialer = [d \in Dialers |-> Idle]

-----------------------------------------------------------------------------
CloseAndRemoveConnection_KeepListed(cs) ==
  /\ tcpConnections' = tcpConnections \ cs
  /\ UNCHANGED peersConnected
  /\ validPeersConnected' = [ip \in Ips |-> IF \E c \in cs : c[2] = ip THEN 0 ELSE validPeersConnected[ip]]
  /\ nodePeersConnected' = nodePeersConnected \ {c[2] : c \in cs}

\* CloseAndRemoveConnection of accepted connections cs: the address loses its
\* trust on every topic.
CloseAndRemoveConnection(cs) ==
  /\ tcpConnections' = tcpConnections \ cs
  /\ peersConnected' = peersConnected \ cs
  /\ validPeersConnected' = [ip \in Ips |-> IF \E c \in cs : c[2] = ip THEN 0 ELSE validPeersConnected[ip]]
  /\ nodePeersConnected' = nodePeersConnected \ {c[2] : c \in cs}

ReduceTrustRegisterPeer(trust, ip) ==
  IF ip # MyIP /\ trust[ip] > 0 THEN [trust EXCEPT ![ip] = @ - 1] ELSE trust

SetBan(ip) == bannedIP' = bannedIP \cup {ip}

\* BanIP with PeersMutex free: the trust goes, and the first connection found.
BanIP(ip) ==
  LET found == {i \in DOMAIN Topics : <<Topics[i], ip>> \in tcpConnections}
      first == {i \in found : \A j \in found : i <= j}
  IN IF ip \in WhiteListIPs
     THEN UNCHANGED <<bannedIP, tcpConnections, peersConnected, validPeersConnected, nodePeersConnected>>
     ELSE /\ SetBan(ip)
          /\ IF found = {}
             THEN /\ validPeersConnected' = [validPeersConnected EXCEPT ![ip] = 0]
                  /\ nodePeersConnected' = nodePeersConnected \ {ip}
                  /\ UNCHANGED <<tcpConnections, peersConnected>>
             ELSE CloseAndRemoveConnection({<<Topics[i], ip>> : i \in first})

\* BanIP with PeersMutex held: only the ban itself.
BanIPLocked(ip) == IF ip \in WhiteListIPs THEN UNCHANGED bannedIP ELSE SetBan(ip)

-----------------------------------------------------------------------------
\* Accept and RegisterPeer up to the lock.
Accept(t, ip) ==
  /\ <<t, ip>> \in Callers /\ ~accepting[t].on /\ ~IsIPBanned(ip)
  /\ Cardinality({u \in TopicSet : accepting[u].on}) < MaxAccepting
  /\ accepting' = [accepting EXCEPT ![t] = [ip |-> ip, on |-> TRUE]]
  /\ UNCHANGED <<tcpConnections, peersConnected, validPeersConnected, nodePeersConnected, oldPeers,
                 bannedIP, dialer>>

\* RegisterPeer under the lock.  A connection that is there is kept when its
\* keep-alive period can be set, and replaced otherwise.
RegisterPeer(t) ==
  LET ip == accepting[t].ip
  IN /\ accepting[t].on
     /\ accepting' = [accepting EXCEPT ![t] = Nobody]
     /\ IF <<t, ip>> \in tcpConnections
        THEN UNCHANGED <<tcpConnections, peersConnected, validPeersConnected>>
        ELSE /\ tcpConnections' = tcpConnections \cup {<<t, ip>>}
             /\ peersConnected' = peersConnected \cup {<<t, ip>>}
             /\ validPeersConnected' = [validPeersConnected EXCEPT ![ip] = ConnectionMaxTries]
     /\ UNCHANGED <<nodePeersConnected, oldPeers, bannedIP, dialer>>

\* LoopSend sends to all but itself, or to one address; only the trusted are
\* sent to, and the connections whose write fails are closed.
Reached(t, to) ==
  {c \in tcpConnections : c[1] = t /\ validPeersConnected[c[2]] > 0
                          /\ IF to = "all" THEN c[2] # MyIP ELSE c[2] = to}

LoopSend(t, to) ==
  \E broken \in SUBSET Reached(t, to) :
    /\ broken # {}
    /\ CloseAndRemoveConnection(broken)
    /\ UNCHANGED <<oldPeers, bannedIP, accepting, dialer>>

-----------------------------------------------------------------------------
\* ReduceAndCheckIfBanIP, after a message that does not pass the checks.
ReduceAndCheckIfBanIP(ip) ==
  LET trust == ReduceTrustRegisterPeer(validPeersConnected, ip)
  IN /\ validPeersConnected' = trust
     /\ IF trust[ip] = 0 THEN BanIPLocked(ip) ELSE UNCHANGED bannedIP
     /\ UNCHANGED <<tcpConnections, peersConnected, nodePeersConnected, oldPeers, accepting, dialer>>

\* ValidRegisterPeer, after a message that does.
ValidRegisterPeer(ip) ==
  /\ validPeersConnected' =
       [validPeersConnected EXCEPT ![ip] = IF @ = 0 THEN ConnectionMaxTries ELSE IF @ < 3 THEN @ + 1 ELSE @]
  /\ UNCHANGED <<tcpConnections, peersConnected, nodePeersConnected, oldPeers, bannedIP, accepting, dialer>>

NodeRegisterPeer(ip) ==
  /\ nodePeersConnected' = nodePeersConnected \cup {ip}
  /\ validPeersConnected' = IF ip \in nodePeersConnected
                            THEN [validPeersConnected EXCEPT ![ip] = ConnectionMaxTries] ELSE validPeersConnected
  /\ UNCHANGED <<tcpConnections, peersConnected, oldPeers, bannedIP, accepting, dialer>>

-----------------------------------------------------------------------------
\* go StartSubscribing...Msg(ip) for the pairs in new, each by an idle goroutine.
Dial(new) ==
  \E f \in [new -> {d \in Dialers : dialer[d].at = "idle"}] :
    /\ \A a, b \in new : f[a] = f[b] => a = b
    /\ dialer' = [d \in Dialers |->
         IF \E c \in new : f[c] = d
         THEN LET c == CHOOSE c \in new : f[c] = d IN [ip |-> c[2], at |-> "try1"]
         ELSE dialer[d]]

\* One pass of LookUpForNewPeersToConnect; main starts the subscriptions.
LookUpForNewPeersToConnect ==
  /\ peersConnected # oldPeers
  /\ oldPeers' = peersConnected
  /\ Dial(peersConnected \ oldPeers)
  /\ UNCHANGED <<tcpConnections, peersConnected, validPeersConnected, nodePeersConnected, bannedIP, accepting>>

\* The peers named in a "hi" message, on the topics they are not connected on.
DialNamed(ip) ==
  /\ ~IsIPBanned(ip)
  /\ Dial({<<Topics[i], ip>> : i \in DOMAIN Topics} \ peersConnected)
  /\ UNCHANGED <<tcpConnections, peersConnected, validPeersConnected, nodePeersConnected, oldPeers,
                 bannedIP, accepting>>

NextTry(at) == CASE at = "try1" -> "try2" [] at = "try2" -> "try3" [] at = "try3" -> "ban"

\* StartNewConnection: DialTCP fails and the trust goes down, DialTCP succeeds,
\* and after the third failure the address is banned.
DialFails(d) ==
  /\ dialer[d].at \in {"try1", "try2", "try3"}
  /\ validPeersConnected' = ReduceTrustRegisterPeer(validPeersConnected, dialer[d].ip)
  /\ dialer' = [dialer EXCEPT ![d].at = NextTry(@)]
  /\ UNCHANGED <<tcpConnections, peersConnected, nodePeersConnected, oldPeers, bannedIP, accepting>>

DialSucceeds(d) ==
  /\ dialer[d].at \in {"try1", "try2", "try3"}
  /\ dialer' = [dialer EXCEPT ![d].at = "open"]
  /\ UNCHANGED <<tcpConnections, peersConnected, validPeersConnected, nodePeersConnected, oldPeers,
                 bannedIP, accepting>>

DialBans(d) ==
  /\ dialer[d].at = "ban"
  /\ dialer' = [dialer EXCEPT ![d] = Idle]
  /\ \/ BanIP(dialer[d].ip)
     \/ /\ BanIPLocked(dialer[d].ip)
        /\ UNCHANGED <<tcpConnections, peersConnected, validPeersConnected, nodePeersConnected>>
  /\ UNCHANGED <<oldPeers, accepting>>

\* A message that is too long or has a wrong start lowers the trust.  The entry
\* is deleted when it reaches 0, so the test that follows never sees trust <= 0
\* and the address is not banned.
BadFrame(d) ==
  /\ dialer[d].at = "open"
  /\ validPeersConnected' = ReduceTrustRegisterPeer(validPeersConnected, dialer[d].ip)
  /\ UNCHANGED <<tcpConnections, peersConnected, nodePeersConnected, oldPeers, bannedIP, accepting, dialer>>

\* The connection ends or the goroutine panics: EXIT.  The remote port of a
\* dialled connection is that of no accepted one, so CloseAndRemoveConnection
\* finds nothing to remove.
Exit(d) ==
  /\ dialer[d].at = "open"
  /\ dialer' = [dialer EXCEPT ![d] = Idle]
  /\ UNCHANGED <<tcpConnections, peersConnected, validPeersConnected, nodePeersConnected, oldPeers,
                 bannedIP, accepting>>

\* BannedTimeSeconds have passed.
BanEnds(ip) ==
  /\ ip \in bannedIP /\ bannedIP' = bannedIP \ {ip}
  /\ UNCHANGED <<tcpConnections, peersConnected, validPeersConnected, nodePeersConnected, oldPeers,
                 accepting, dialer>>

Next ==
  \/ \E t \in TopicSet, ip \in Ips : Accept(t, ip)
  \/ \E t \in TopicSet : RegisterPeer(t)
  \/ \E t \in TopicSet, to \in Ips \cup {"all"} : LoopSend(t, to)
  \/ \E ip \in Ips : ReduceAndCheckIfBanIP(ip) \/ ValidRegisterPeer(ip) \/ NodeRegisterPeer(ip) \/ DialNamed(ip) \/ BanEnds(ip)
  \/ LookUpForNewPeersToConnect
  \/ \E d \in Dialers : DialFails(d) \/ DialSucceeds(d) \/ DialBans(d) \/ BadFrame(d) \/ Exit(d)

Spec == Init /\ [][Next]_vars

-----------------------------------------------------------------------------
(***************************************************************************)
(* What GetPeersConnected tells the services is what the node can send on: *)
(* peersConnected and tcpConnections list the same pairs, however          *)
(* registrations, failed writes, bans and look-ups interleave.             *)
(***************************************************************************)
PeersAgree == peersConnected = tcpConnections
=============================================================================
