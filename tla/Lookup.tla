------------------------------- MODULE Lookup -------------------------------
(***************************************************************************)
(* Address resolution in drivers/net/net.c: the ARP cache with             *)
(* net_arp_resolve, and dns_resolve with its single reply buffer.  Both    *)
(* run in the caller, poll the card and send again when nothing comes.     *)
(* Answers may be lost, late and repeated: an ARP packet of any host       *)
(* arrives at any time, and every DNS answer to a query once sent may      *)
(* arrive at any later time.  Packets are handled only while a call polls. *)
(***************************************************************************)
EXTENDS Integers, FiniteSets

CONSTANTS
  Gateway, Hosts,      \* IP addresses of the local network
  Macs,                \* hardware addresses a host may announce
  ARP_CACHE_SIZE,
  ArpAttempts,         \* requests net_arp_resolve sends (5)
  HostNames,           \* names looked up
  DnsAttempts,         \* queries dns_resolve sends (3)
  TxidSpan,            \* transaction ids wrap here (2^16)
  MaxLookups           \* calls of dns_resolve

ASSUME LookupAssumption ==
  /\ Gateway \notin Hosts
  /\ {ARP_CACHE_SIZE, ArpAttempts, DnsAttempts, TxidSpan} \subseteq Nat \ {0}
  /\ MaxLookups <= TxidSpan

VARIABLES
  arp_cache,  \* the slots: <<ip, mac>>, or <<>> when not valid
  heard,      \* history: the last hardware address each IP announced
  dns,        \* dns_rx_txid, dns_rx_ready, dns_rx_buf and txid_counter
  asked,      \* queries sent: <<txid, name>>
  polling,    \* the call in progress
  result      \* history: what the last call returned

lookupVars == <<arp_cache, heard, dns, asked, polling, result>>

Ips     == Hosts \cup {Gateway}
Unheard == "unheard"
Nothing == <<>>
ArpSlots == 1..ARP_CACHE_SIZE
Lowest(S) == CHOOSE i \in S : \A j \in S : i <= j

(***************************************************************************)
(* The cache.                                                              *)
(***************************************************************************)
SlotsOf(cache, ip) == {i \in ArpSlots : cache[i] # <<>> /\ cache[i][1] = ip}
Unused(cache)      == {i \in ArpSlots : cache[i] = <<>>}

\* Mutant: the slot that already has the address is not looked for.
arp_cache_put_new(cache, ip, mac) ==
  IF Unused(cache) # {} THEN [cache EXCEPT ![Lowest(Unused(cache))] = <<ip, mac>>]
  ELSE cache

arp_cache_put(cache, ip, mac) ==
  LET held == SlotsOf(cache, ip)
  IN CASE held # {}                        -> [cache EXCEPT ![Lowest(held)] = <<ip, mac>>]
       [] held = {} /\ Unused(cache) # {}  -> [cache EXCEPT ![Lowest(Unused(cache))] = <<ip, mac>>]
       [] OTHER                            -> cache

arp_cache_get(ip) ==
  LET held == SlotsOf(arp_cache, ip)
  IN IF held = {} THEN Nothing ELSE arp_cache[Lowest(held)][2]

\* net_init seeds the gateway.
GatewayMac == CHOOSE mac \in Macs : TRUE

LookupInit ==
  /\ arp_cache = arp_cache_put([i \in ArpSlots |-> <<>>], Gateway, GatewayMac)
  /\ heard = [ip \in Ips |-> IF ip = Gateway THEN GatewayMac ELSE Unheard]
  /\ dns = [txid |-> 0, ready |-> FALSE, buf |-> Nothing, counter |-> 0]
  /\ asked = {}
  /\ polling = Nothing
  /\ result = Nothing

(***************************************************************************)
(* net_poll: one received packet.  arp_handle learns from requests and     *)
(* replies alike; udp_dns_handle keeps the answer to the current query.    *)
(***************************************************************************)
arp_handle ==
  /\ polling # Nothing
  /\ \E ip \in Ips, mac \in Macs :
       /\ arp_cache' = arp_cache_put(arp_cache, ip, mac)
       /\ heard' = [heard EXCEPT ![ip] = mac]
  /\ UNCHANGED <<dns, asked, polling, result>>

\* Mutant: any answer is kept.
KeepsAny(q) == TRUE

Keeps(q) == q[1] = dns.txid

udp_dns_handle ==
  /\ polling # Nothing
  /\ \E q \in asked :
       /\ Keeps(q)
       /\ \E answer \in {q[2], Nothing} :   \* an A record of the name, or none
            dns' = [dns EXCEPT !.buf = answer, !.ready = TRUE]
  /\ UNCHANGED <<arp_cache, heard, asked, polling, result>>

(***************************************************************************)
(* net_arp_resolve.                                                        *)
(***************************************************************************)
net_arp_resolve ==
  /\ polling = Nothing
  /\ \E ip \in Ips :
       IF arp_cache_get(ip) # Nothing
       THEN result' = <<"arp", ip, arp_cache_get(ip)>> /\ UNCHANGED polling
       ELSE polling' = <<"arp", ip, 1>> /\ UNCHANGED result
  /\ UNCHANGED <<arp_cache, heard, dns, asked>>

ArpReturns ==
  /\ polling # Nothing /\ polling[1] = "arp"
  /\ arp_cache_get(polling[2]) # Nothing
  /\ result' = <<"arp", polling[2], arp_cache_get(polling[2])>>
  /\ polling' = Nothing
  /\ UNCHANGED <<arp_cache, heard, dns, asked>>

\* 10000 polls without an entry: ask again, or fail after the last attempt.
ArpTimesOut ==
  /\ polling # Nothing /\ polling[1] = "arp"
  /\ arp_cache_get(polling[2]) = Nothing
  /\ IF polling[3] < ArpAttempts
     THEN polling' = [polling EXCEPT ![3] = @ + 1] /\ UNCHANGED result
     ELSE polling' = Nothing /\ result' = <<"arp", polling[2], Nothing>>
  /\ UNCHANGED <<arp_cache, heard, dns, asked>>

(***************************************************************************)
(* dns_resolve: the same transaction id for every attempt.                 *)
(***************************************************************************)
FreshTxid(txid) ==
  [dns EXCEPT !.txid = txid, !.ready = FALSE, !.counter = (txid + 1) % TxidSpan]

dns_resolve ==
  /\ polling = Nothing
  /\ Cardinality(asked) < MaxLookups
  /\ \E name \in HostNames :
       /\ dns' = FreshTxid(dns.counter)
       /\ asked' = asked \cup {<<dns.counter, name>>}
       /\ polling' = <<"dns", name, 1>>
  /\ UNCHANGED <<arp_cache, heard, result>>

DnsReturns ==
  /\ polling # Nothing /\ polling[1] = "dns"
  /\ dns.ready
  /\ result' = <<"dns", polling[2], dns.buf>>
  /\ polling' = Nothing
  /\ UNCHANGED <<arp_cache, heard, dns, asked>>

DnsTimesOut ==
  /\ polling # Nothing /\ polling[1] = "dns"
  /\ ~dns.ready
  /\ IF polling[3] < DnsAttempts
     THEN polling' = [polling EXCEPT ![3] = @ + 1] /\ UNCHANGED result
     ELSE polling' = Nothing /\ result' = <<"dns", polling[2], Nothing>>
  /\ UNCHANGED <<arp_cache, heard, dns, asked>>

LookupNext ==
  \/ arp_handle
  \/ udp_dns_handle
  \/ net_arp_resolve
  \/ ArpReturns
  \/ ArpTimesOut
  \/ dns_resolve
  \/ DnsReturns
  \/ DnsTimesOut

LookupSpec == LookupInit /\ [][LookupNext]_lookupVars

(***************************************************************************)
(* Properties.                                                             *)
(***************************************************************************)
\* arp_cache_put keeps one entry per address, with the hardware address that
\* address announced last; an address that was heard is missing only when
\* every slot belongs to another one (then net_arp_resolve can only fail).
\* The gateway that net_init seeds is never missing, so a send beyond the
\* local network finds its next hop without polling.
CacheFollowsHosts ==
  \A ip \in Ips :
    /\ Cardinality(SlotsOf(arp_cache, ip)) <= 1
    /\ arp_cache_get(ip) # Nothing => arp_cache_get(ip) = heard[ip]
    /\ (heard[ip] # Unheard /\ arp_cache_get(ip) = Nothing) =>
         ip # Gateway /\ Unused(arp_cache) = {}

\* An address returned by dns_resolve is the answer for the name it was asked
\* for: a late or repeated answer to an earlier query, also one that arrives
\* during a later call, is not taken for it.
DnsAnswerOwn ==
  (result # Nothing /\ result[1] = "dns") => result[3] \in {result[2], Nothing}
=============================================================================
