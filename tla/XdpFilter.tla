----------------------------- MODULE XdpFilter -----------------------------
(***************************************************************************)
(* The two XDP programs that choose the packets of the AF_XDP socket:      *)
(* bpf/xdp_fix_redirect.c (FIX over UDP) and ebpf/redirect.bpf.c (FIX over *)
(* TCP).  A packet is abstracted to what they read: its length, the two    *)
(* header fields that say what follows, the length of the IP header in     *)
(* words, the ports as they stand in the transport header, the 16-bit      *)
(* words an IP option puts where the ports of a packet without options     *)
(* would be, and the receive queue.  Fields hold the values sent, that is  *)
(* the big-endian reading of their bytes.                                  *)
(***************************************************************************)
EXTENDS Integers

ETH_P_IP == 2048
IPPROTO_TCP == 6
IPPROTO_UDP == 17

\* sizeof ethhdr, iphdr, udphdr and tcphdr
EthLen == 14
IpLen == 20
UdpLen == 8
TcpLen == 20

\* FIX_PORT of xdp_fix_redirect.c and of redirect.bpf.c
UdpFixPort == 9876
TcpFixPort == 9878

Swap16(x) == (x % 256) * 256 + x \div 256

\* A little-endian processor loads the bytes of a field the other way round;
\* bpf_ntohs undoes that.
Load16(field) == Swap16(field)
bpf_ntohs(x) == Swap16(x)

\* The 16-bit field at byte `offset' of the packet, for offsets of ports.  When ihl
\* is less than 5 the "ports" lie inside the IP header: source and dest are then
\* whatever that header has there.
FieldAt(p, offset) ==
    LET transport == EthLen + 4 * p.ihl IN
    IF offset = transport THEN p.source
    ELSE IF offset = transport + 2 THEN p.dest ELSE p.option

-----------------------------------------------------------------------------
(* A verdict: XDP_PASS, or a redirect with the key looked up in the socket *)
(* map and the action taken when the map has no socket there.              *)

XDP_PASS == [action |-> "PASS", key |-> 0, otherwise |-> "PASS"]
RedirectMap(key, otherwise) == [action |-> "REDIRECT", key |-> key, otherwise |-> otherwise]

\* The comparison with ETH_P_IP is of the field as loaded.
xdp_fix_redirect(p) ==
    LET udp == EthLen + IpLen IN
    IF /\ EthLen <= p.len
       /\ Load16(p.h_proto) = ETH_P_IP
       /\ EthLen + IpLen <= p.len
       /\ p.protocol = IPPROTO_UDP
       /\ udp + UdpLen <= p.len
       /\ bpf_ntohs(Load16(FieldAt(p, udp + 2))) = UdpFixPort
    THEN RedirectMap(0, "DROP")
    ELSE XDP_PASS

\* Faulty variant: the TCP header is taken to follow an IP header without options.
TcpOffsetFixed(p) == EthLen + IpLen

\* (void *)ip + (ip->ihl * 4)
TcpOffset(p) == EthLen + 4 * p.ihl

\* Faulty variant: a packet that finds no socket is dropped.
RedirectTcpOrDrop(p) == RedirectMap(p.queue, "DROP")

RedirectTcp(p) == RedirectMap(p.queue, "PASS")

xdp_redirect_fix(p) ==
    IF /\ EthLen <= p.len
       /\ bpf_ntohs(Load16(p.h_proto)) = ETH_P_IP
       /\ EthLen + IpLen <= p.len
       /\ p.protocol = IPPROTO_TCP
       /\ TcpOffset(p) + TcpLen <= p.len
       /\ \/ bpf_ntohs(Load16(FieldAt(p, TcpOffset(p) + 2))) = TcpFixPort
          \/ bpf_ntohs(Load16(FieldAt(p, TcpOffset(p)))) = TcpFixPort
    THEN RedirectTcp(p)
    ELSE XDP_PASS

-----------------------------------------------------------------------------
(* Which packets the programs are for, said of the packet as sent.         *)

\* An IP header has five words at least.
WholeIpHeader(p) == p.h_proto = ETH_P_IP => p.ihl >= 5

IsIPv4(p, protocol) ==
    /\ p.h_proto = ETH_P_IP
    /\ p.protocol = protocol
    /\ WholeIpHeader(p)

\* A whole UDP datagram to the FIX port.
UdpFix(p) ==
    /\ IsIPv4(p, IPPROTO_UDP)
    /\ EthLen + 4 * p.ihl + UdpLen <= p.len
    /\ p.dest = UdpFixPort

\* A whole TCP segment of a FIX session, in either direction.
TcpFix(p) ==
    /\ IsIPv4(p, IPPROTO_TCP)
    /\ EthLen + 4 * p.ihl + TcpLen <= p.len
    /\ TcpFixPort \in {p.source, p.dest}
=============================================================================
