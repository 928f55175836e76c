----------------------------- MODULE UdpSocket ------------------------------
(***************************************************************************)
(* UDP sockets (executor/udp.rs): the chain of system calls that makes     *)
(* one, with the descriptor closed when any of them fails, and datagrams   *)
(* sent and received with addresses converted to and from the layout the   *)
(* kernel uses.  Threads share the descriptor table, in which a closed     *)
(* number is at once free for another thread.                              *)
(*                                                                         *)
(* A byte counts up to ByteBase - 1 instead of 255.  An address has a      *)
(* family, the bytes of its ip, a port of two bytes and `extra`, the flow  *)
(* information and scope of an IPv6 address.  The build is little-endian.  *)
(***************************************************************************)
EXTENDS Integers, Sequences, FiniteSets, Functions

CONSTANTS
    UdpThreads,
    ByteBase,
    UdpAddrs,       \* addresses sockets are bound to and datagrams are sent to
    Localhost,      \* 127.0.0.1:0
    Ephemeral,      \* ports the kernel gives to sockets bound to port 0
    MaxFds,         \* size of the descriptor table
    MaxSends,       \* bound on the datagrams sent
    MaxBinds,       \* bound on the binds and pairs called
    NoName          \* of a socket that is not bound

VARIABLES
    fds,            \* open descriptors: who opened each, its bound name
    binding,        \* per thread, the bind or udp_pair it is inside of, and a pair's first socket
    sockets,        \* per thread, the UdpSocket values it owns
    net,            \* datagrams on their way
    binds,          \* binds called
    sent, heard     \* history: what send_to was given, what recv_from returned

udpVars == <<fds, binding, sockets, net, binds, sent, heard>>

ASSUME UdpAssumption == MaxFds \in Nat /\ MaxBinds \in Nat

NotBinding == [at |-> "none", addr |-> Localhost, fd |-> 0, pair |-> FALSE, first |-> {}]

UdpInit(most) ==
    /\ fds = <<>>
    /\ binding = [t \in UdpThreads |-> NotBinding]
    /\ sockets = [t \in UdpThreads |-> {}]
    /\ net = {}
    /\ binds = MaxBinds - most
    /\ sent = {}
    /\ heard = {}

-----------------------------------------------------------------------------
(* Addresses *)

\* the integer with these bytes in memory, and the bytes of an integer
from_ne_bytes(bytes) == SumFunction([i \in DOMAIN bytes |-> bytes[i] * ByteBase ^ (i - 1)])
InMemory(n, width) == [i \in 1 .. width |-> (n \div ByteBase ^ (i - 1)) % ByteBase]

Backwards(bytes) == [i \in DOMAIN bytes |-> bytes[Len(bytes) + 1 - i]]

\* to_be and from_be
SwapBytes(n, width) == from_ne_bytes(Backwards(InMemory(n, width)))

\* fault: the port is stored as it is
BindSockAddrPort(addr) ==
    [family |-> addr.family, port |-> InMemory(addr.port, 2), ip |-> addr.ip,
     extra |-> addr.extra]

\* BindSockAddr::new, as the kernel finds it in memory
BindSockAddr(addr) ==
    [family |-> addr.family,
     port |-> InMemory(SwapBytes(addr.port, 2), 2),
     ip |-> IF addr.family = "v4" THEN InMemory(from_ne_bytes(addr.ip), Len(addr.ip)) ELSE addr.ip,
     extra |-> addr.extra]

\* an IPv4 address out of a SockAddrIn: Ipv4Addr::from takes the high byte first
DecodeV4(name) ==
    LET w == Len(name.ip)
    IN [family |-> "v4",
        port |-> SwapBytes(from_ne_bytes(name.port), 2),
        ip |-> Backwards(InMemory(SwapBytes(from_ne_bytes(name.ip), w), w)),
        extra |-> 0]

\* an IPv6 address out of a SockAddrIn6
DecodeV6(name) ==
    [family |-> "v6", port |-> SwapBytes(from_ne_bytes(name.port), 2), ip |-> name.ip,
     extra |-> name.extra]

decode_sockaddr_storage(name) == IF name.family = "v4" THEN DecodeV4(name) ELSE DecodeV6(name)

\* what getsockname wrote, read as the family that was asked for
get_sock_name(name, addr) == IF addr.family = "v4" THEN DecodeV4(name) ELSE DecodeV6(name)

-----------------------------------------------------------------------------
(* The kernel, from how udp.rs uses it *)

Lowest == CHOOSE f \in 1 .. MaxFds :
            f \notin DOMAIN fds /\ \A x \in 1 .. f - 1 : x \in DOMAIN fds

Open(f, t) == [x \in DOMAIN fds \cup {f} |-> IF x = f THEN [by |-> t, name |-> NoName] ELSE fds[x]]

\* close takes the number out of the table, whoever it belongs to by now
Closed(gone) == [x \in DOMAIN fds \ gone |-> fds[x]]

PortBytes(p) == <<p \div ByteBase, p % ByteBase>>

\* the names bind may give a socket asked to be at `name`
BoundNames(name) ==
    IF name.port # <<0, 0>> THEN {name}
    ELSE {n \in {[name EXCEPT !.port = PortBytes(p)] : p \in Ephemeral} :
            \A f \in DOMAIN fds : fds[f].name # n}

-----------------------------------------------------------------------------
(* UdpSocket::bind and udp_pair *)

bind(t, addr) ==
    /\ binding[t].at = "none" /\ binds < MaxBinds
    /\ binds' = binds + 1
    /\ binding' = [binding EXCEPT ![t] = [NotBinding EXCEPT !.at = "socket", !.addr = addr]]
    /\ UNCHANGED <<fds, sockets, net, sent, heard>>

udp_pair(t) ==
    /\ binding[t].at = "none" /\ binds < MaxBinds
    /\ binds' = binds + 1
    /\ binding' = [binding EXCEPT ![t] = [NotBinding EXCEPT !.at = "socket", !.pair = TRUE]]
    /\ UNCHANGED <<fds, sockets, net, sent, heard>>

\* socket(2) gives a descriptor
SocketCall(t) ==
    /\ binding[t].at = "socket" /\ DOMAIN fds # 1 .. MaxFds
    /\ fds' = Open(Lowest, t)
    /\ binding' = [binding EXCEPT ![t].at = "getfl", ![t].fd = Lowest]
    /\ UNCHANGED <<sockets, net, binds, sent, heard>>

\* F_GETFL, F_SETFL with O_NONBLOCK
SetNonblocking(t) ==
    /\ binding[t].at \in {"getfl", "setfl"}
    /\ binding' = [binding EXCEPT ![t].at = IF @ = "getfl" THEN "setfl" ELSE "reuse"]
    /\ UNCHANGED <<fds, sockets, net, binds, sent, heard>>

\* SO_REUSEADDR
SetReuseAddr(t) ==
    /\ binding[t].at = "reuse"
    /\ binding' = [binding EXCEPT ![t].at = "bind"]
    /\ UNCHANGED <<fds, sockets, net, binds, sent, heard>>

BindCall(t) ==
    /\ binding[t].at = "bind"
    /\ \E n \in BoundNames(BindSockAddr(binding[t].addr)) :
         fds' = [fds EXCEPT ![binding[t].fd].name = n]
    /\ binding' = [binding EXCEPT ![t].at = "name"]
    /\ UNCHANGED <<sockets, net, binds, sent, heard>>

\* the name is read, the descriptor becomes the socket's; a pair starts its second
Own(t) ==
    LET x == binding[t]
        s == [fd |-> x.fd, local |-> get_sock_name(fds[x.fd].name, x.addr)]
        again == x.pair /\ x.first = {}
    IN /\ x.at = "name"
       /\ binding' = [binding EXCEPT ![t] =
                        IF again THEN [x EXCEPT !.at = "socket", !.first = {s}, !.fd = 0]
                        ELSE NotBinding]
       /\ sockets' = [sockets EXCEPT ![t] =
                        IF again THEN @ ELSE @ \cup {s} \cup x.first]
       /\ UNCHANGED <<fds, net, binds, sent, heard>>

\* fault: the error returns without closing the descriptor
BindFailsOpen(t) ==
    /\ binding[t].at # "none"
    /\ binding' = [binding EXCEPT ![t] = NotBinding]
    /\ UNCHANGED <<fds, sockets, net, binds, sent, heard>>

\* a call of the chain fails: close_owned_fd, and a pair drops its first socket
BindFails(t) ==
    LET x == binding[t]
    IN /\ x.at # "none"
       /\ fds' = Closed({x.fd} \cup {s.fd : s \in x.first})
       /\ binding' = [binding EXCEPT ![t] = NotBinding]
       /\ UNCHANGED <<sockets, net, binds, sent, heard>>

-----------------------------------------------------------------------------
(* Use *)

\* OwnedFd closes the descriptor, of the socket or out of into_owned_fd
DropSocket(t) ==
    \E s \in sockets[t] :
      /\ sockets' = [sockets EXCEPT ![t] = @ \ {s}]
      /\ fds' = Closed({s.fd})
      /\ UNCHANGED <<binding, net, binds, sent, heard>>

\* the datagram leaves, or the kernel refuses it and nothing is sent
send_to(t, addr, len) ==
    \E s \in sockets[t] :
      /\ Cardinality(sent) < MaxSends
      /\ net' = net \cup {[from |-> fds[s.fd].name, to |-> BindSockAddr(addr), len |-> len]}
      /\ sent' = sent \cup {[from |-> s.local, to |-> addr, len |-> len]}
      /\ UNCHANGED <<fds, binding, sockets, binds, heard>>

\* a datagram, cut to the buffer, and its sender; others of the same name may take it
recv_from(t, room) ==
    \E s \in sockets[t], d \in net :
      /\ d.to = fds[s.fd].name
      /\ net' = net \ {d}
      /\ heard' = heard \cup {[at |-> s.local, from |-> decode_sockaddr_storage(d.from),
                               len |-> IF d.len < room THEN d.len ELSE room]}
      /\ UNCHANGED <<fds, binding, sockets, binds, sent>>

\* a datagram is lost
LoseDatagram ==
    /\ \E d \in net : net' = net \ {d}
    /\ UNCHANGED <<fds, binding, sockets, binds, sent, heard>>

UdpStep(t) ==
    \/ \E addr \in UdpAddrs : bind(t, addr) \/ send_to(t, addr, 2)
    \/ udp_pair(t) \/ SocketCall(t) \/ SetNonblocking(t) \/ SetReuseAddr(t)
    \/ BindCall(t) \/ Own(t) \/ BindFails(t) \/ DropSocket(t)
    \/ \E room \in 1 .. 2 : recv_from(t, room)

UdpNext == (\E t \in UdpThreads : UdpStep(t)) \/ LoseDatagram

UdpSpec == UdpInit(MaxBinds) /\ [][UdpNext]_udpVars

-----------------------------------------------------------------------------

\* the descriptors a thread answers for
Holds(t) ==
    {s.fd : s \in sockets[t] \cup binding[t].first} \cup ({binding[t].fd} \ {0})

(* bind closes the descriptor on each of its error paths, once, and udp_pair does not   *)
(* keep the first socket when the second fails: at every moment the open descriptors    *)
(* are those of live sockets and of binds under way, each still the one its thread      *)
(* opened, though numbers are reused by other threads as soon as they are closed.       *)
DescriptorsOwned ==
    /\ DOMAIN fds = UNION {Holds(t) : t \in UdpThreads}
    /\ \A t \in UdpThreads : \A f \in Holds(t) : fds[f].by = t

(* What recv_from reports can be answered: the address it returns is the local_addr of  *)
(* a socket that sent to this socket's local_addr, through every conversion between     *)
(* SocketAddr and the kernel's layout, and no more bytes than were sent.                *)
SenderKnown ==
    \A h \in heard : \E s \in sent : s.from = h.from /\ s.to = h.at /\ h.len <= s.len
=============================================================================
