-------------------------------- MODULE Dhcp --------------------------------
(***************************************************************************)
(* The DHCP server (servers/dhcp.py, extra/dhcp_s.py) over a pool of       *)
(* addresses (common/dhcp.py), whose leases end by themselves: a heap of   *)
(* times and addresses, from which what is out of date is only removed     *)
(* when it comes first.  Datagrams may be lost, come twice and in any      *)
(* order; the time is in seconds.                                          *)
(***************************************************************************)
EXTENDS Integers, FiniteSets

CONSTANTS
    Macs,           \* the clients
    Pool,           \* the addresses, in the order of the pool
    Lease,          \* how long an address is leased for
    MaxClock,       \* bound: how far the clock goes
    MaxSaid         \* bound: how many datagrams the clients send

ASSUME DhcpAssumption ==
    /\ Pool \subseteq Nat \ {0} /\ Lease \in Nat \ {0}
    /\ MaxClock \in Nat \ {0} /\ MaxSaid \in Nat

VARIABLES
    clock,
    late,       \* if a second may pass inside the handler of a request
    target,     \* map: when the lease of each address ends
    owner,      \* owners: who had the address last
    address,    \* owners_i: the address of each client, 0 for none
    heap,       \* addrs: the <<target, address>> pairs
    handling,   \* the request between get_type() and get_yiaddr()
    datagrams,  \* what is on its way
    station     \* each client: the address it holds, from the request it sent

dhcpVars == <<clock, late, target, owner, address, heap, handling, datagrams, station>>
poolVars == <<target, owner, address, heap>>

Nobody == "nobody"
Idle == [kind |-> "none"]
NoLease == [address |-> 0, until |-> 0]

\* _populate()
DhcpInit ==
    /\ clock = 1 /\ late \in BOOLEAN
    /\ target = [a \in Pool |-> 0]
    /\ owner = [a \in Pool |-> Nobody]
    /\ address = [m \in Macs |-> 0]
    /\ heap = {0} \X Pool
    /\ handling = Idle /\ datagrams = {}
    /\ station = [m \in Macs |-> NoLease]

-----------------------------------------------------------------------------
(* The pool.                                                               *)

IsValid(a) == a \in Pool /\ target[a] > clock
IsOwner(m, a) == IsValid(a) /\ owner[a] = m

Before(e, f) == e[1] < f[1] \/ (e[1] = f[1] /\ e[2] < f[2])

\* the pairs that are not out of date, the first of them, and what is left when it
\* comes first
Live == {e \in heap : target[e[2]] = e[1]}
Peek == CHOOSE e \in Live : \A f \in Live \ {e} : Before(e, f)
FromPeek == {e \in heap : ~Before(e, Peek)}

\* reserve(), and the error when the first lease has not ended
Available == Live # {} /\ Peek[1] <= clock
Reserve(m) ==
    LET a == Peek[2]
    IN  /\ target' = [target EXCEPT ![a] = clock + Lease]
        /\ owner' = [owner EXCEPT ![a] = m]
        /\ address' = [address EXCEPT ![m] = a]
        /\ heap' = (FromPeek \ {Peek}) \cup {<<clock + Lease, a>>}

\* mutant of Touch: the pair of the new time is not pushed
TouchOnly(a) ==
    /\ target' = [target EXCEPT ![a] = clock + Lease]
    /\ UNCHANGED <<owner, address, heap>>

\* touch()
Touch(a) ==
    /\ target' = [target EXCEPT ![a] = clock + Lease]
    /\ heap' = heap \cup {<<clock + Lease, a>>}
    /\ UNCHANGED <<owner, address>>

-----------------------------------------------------------------------------
(* The server.                                                             *)

\* response() and send_dhcp(): everyone hears it, and one takes it
Reply(kind, d, a) ==
    datagrams' = datagrams \cup
        {[kind |-> kind, mac |-> d.mac, address |-> a, sent |-> d.sent]}

\* on_data_dhcp() of a discover: there may be no address, and no answer
OnDiscover(d) ==
    /\ d.kind = "discover"
    /\ \/ Available /\ Reserve(d.mac) /\ Reply("offer", d, Peek[2])
       \/ /\ ~Available /\ heap' = FromPeek
          /\ UNCHANGED <<target, owner, address, datagrams>>
    /\ UNCHANGED handling

\* get_type() of a request: assigned(), or what is asked for
Current(d) == IF address[d.mac] # 0 THEN address[d.mac] ELSE d.address
OnRequest(d) ==
    /\ d.kind = "request"
    /\ handling' = [kind |-> IF IsOwner(d.mac, Current(d)) THEN "ack" ELSE "nak", of |-> d]
    /\ UNCHANGED <<poolVars, datagrams>>

\* _confirm(), of whoever the owner is
Confirm ==
    /\ handling # Idle
    /\ LET a == Current(handling.of)
       IN  /\ IF IsValid(a) THEN Touch(a) ELSE UNCHANGED poolVars
           /\ Reply(handling.kind, handling.of, a)
    /\ handling' = Idle
    /\ UNCHANGED <<clock, late, station>>

\* a datagram stays: it may come again
OnDataDhcp(d) ==
    /\ handling = Idle /\ d \in datagrams
    /\ OnDiscover(d) \/ OnRequest(d)
    /\ UNCHANGED <<clock, late, station>>

ClockTicks ==
    /\ clock < MaxClock /\ (handling # Idle => late)
    /\ clock' = clock + 1
    /\ UNCHANGED <<late, poolVars, handling, datagrams, station>>

-----------------------------------------------------------------------------
(* The clients, which count their lease from when they asked for it.       *)

Holds(m, a) == station[m].address = a /\ station[m].until > clock

FromClients == {d \in datagrams : d.kind \in {"discover", "request"}}

SaysDhcp(d) ==
    /\ d \notin datagrams /\ Cardinality(FromClients) < MaxSaid
    /\ datagrams' = datagrams \cup {d}
    /\ UNCHANGED <<clock, late, poolVars, handling, station>>

Discover(m) ==
    SaysDhcp([kind |-> "discover", mac |-> m, address |-> 0, sent |-> clock])

\* an offer is taken up, or a lease is asked for again
RequestLease(m) ==
    \E a \in Pool :
        /\ \/ \E d \in datagrams : d.kind = "offer" /\ d.mac = m /\ d.address = a
           \/ Holds(m, a)
        /\ SaysDhcp([kind |-> "request", mac |-> m, address |-> a, sent |-> clock])

\* a nak of the last request ends the lease
Hears(m) ==
    /\ \E d \in datagrams :
           /\ d.mac = m
           /\ \/ /\ d.kind = "ack"
                 /\ station' = [station EXCEPT ![m] =
                        [address |-> d.address, until |-> d.sent + Lease]]
              \/ d.kind = "nak" /\ station' = [station EXCEPT ![m] = NoLease]
    /\ UNCHANGED <<clock, late, poolVars, handling, datagrams>>

DhcpNext ==
    \/ ClockTicks \/ Confirm
    \/ \E d \in datagrams : OnDataDhcp(d)
    \/ \E m \in Macs : Discover(m) \/ RequestLease(m) \/ Hears(m)

DhcpSpec == DhcpInit /\ [][DhcpNext]_dhcpVars

-----------------------------------------------------------------------------
(* Properties.                                                             *)

\* no address is held by two clients, unless a lease ended inside the handler of
\* the request that was to prolong it
OneHolder ==
    ~late => \A m, n \in Macs : \A a \in Pool : Holds(m, a) /\ Holds(n, a) => m = n

\* every address is in the heap under the time its lease ends, so it is given
\* again after that, and to nobody before
InHeap == \A a \in Pool : <<target[a], a>> \in heap

\* who is told an address is its owner as long as the lease it is told of
Owned ==
    ~late => \A m \in Macs : \A a \in Pool :
        Holds(m, a) => owner[a] = m /\ target[a] >= station[m].until

\* an address is given if and only if there is one whose lease has ended
Reusable == Available <=> \E a \in Pool : target[a] <= clock

\* An address is one client's as long as its lease, whatever the heap holds
\* (common/dhcp.py).
DhcpSafety ==
    /\ clock \in 1 .. MaxClock
    /\ OneHolder /\ InHeap /\ Owned /\ Reusable
=============================================================================
