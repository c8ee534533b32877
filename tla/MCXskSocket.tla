---------------------------- MODULE MCXskSocket ----------------------------
(* XskSocket for TLC: a few packets of each kind the programs tell apart.  *)
EXTENDS XskSocket

Port(source, dest) == [source |-> source, dest |-> dest]
Pkt(h_proto, protocol, port, ihl, option, len, queue) ==
    [h_proto |-> h_proto, protocol |-> protocol, source |-> port.source, dest |-> port.dest,
     ihl |-> ihl, option |-> option, len |-> len, queue |-> queue]

\* To and from the FIX port, the latter with an IP option; on a queue without a
\* socket; cut short; to the SSH port, with an option word that reads like the
\* FIX port; not IPv4; and with an IP header of one word, behind which the header
\* has a word that reads like the FIX port.
TcpPackets ==
    { Pkt(ETH_P_IP, IPPROTO_TCP, Port(40000, TcpFixPort), 5, 0, 60, 0),
      Pkt(ETH_P_IP, IPPROTO_TCP, Port(TcpFixPort, 40000), 6, 0, 64, 0),
      Pkt(ETH_P_IP, IPPROTO_TCP, Port(40000, TcpFixPort), 5, 0, 60, 1),
      Pkt(ETH_P_IP, IPPROTO_TCP, Port(40000, TcpFixPort), 5, 0, 53, 0),
      Pkt(ETH_P_IP, IPPROTO_TCP, Port(40000, 22), 6, TcpFixPort, 64, 0),
      Pkt(34525, IPPROTO_TCP, Port(40000, TcpFixPort), 5, 0, 60, 0),
      Pkt(ETH_P_IP, IPPROTO_TCP, Port(TcpFixPort, 0), 1, 0, 60, 0) }

UdpPackets ==
    { Pkt(ETH_P_IP, IPPROTO_UDP, Port(40000, UdpFixPort), 5, 0, 60, 0),
      Pkt(ETH_P_IP, IPPROTO_UDP, Port(40000, 53), 5, 0, 60, 0),
      Pkt(34525, IPPROTO_UDP, Port(40000, UdpFixPort), 5, 0, 60, 0) }
=============================================================================
