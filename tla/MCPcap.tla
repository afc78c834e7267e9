------------------------------- MODULE MCPcap -------------------------------
(* TLC instances of Pcap. *)
EXTENDS Pcap

\* Addresses and sockets
X == <<"x", 1>>
Y == <<"y", 2>>

Block(type, len) == [type |-> type, len |-> len]
Iface(mask, offset) == [type |-> "interface", len |-> 3, mask |-> mask, offset |-> offset]
Packet(ifno, time, proto, src, dst) ==
  [type |-> "packet", len |-> 4, caplen |-> 2, ifno |-> ifno, time |-> time, proto |-> proto, src |-> src, dst |-> dst]
\* A packet without bytes, and one longer than a peeker's buffer and than the
\* snap length of a legacy file
Empty == [Packet(0, <<1, 0>>, "none", X, X) EXCEPT !.caplen = 0, !.len = 2]
Long == [Packet(0, <<1, 1>>, "tcp", Y, X) EXCEPT !.caplen = 15, !.len = 17]

Headers == {[type |-> "header", len |-> 2, factor |-> 2, snaplen |-> 3]}
Sections == {Block("section", 3)}
\* An interface that counts half seconds and one that counts eighths of a second
Clocks == {Iface(2, 0), Iface(8, 1)}
Statistics == {Block("statistics", 3)}
Ordinary == {Packet(0, <<0, 2>>, "tcp", X, Y), Packet(0, <<1, 1>>, "tcp", Y, X), Packet(1, <<2, 1>>, "icmp", X, Y)}
\* The statistics do not fit the largest buffer.
Odd == {Empty, Long, Block("statistics", 19)}
MCBlocks == UNION {Headers, Sections, Clocks, Statistics, Ordinary, Odd}

\* An odd block is in captures of one section and one interface, without
\* other odd blocks and statistics; four packets are in one section, without
\* statistics.
AtMost(n, blocks) == [blocks |-> blocks, most |-> n]
MCLimits ==
  {AtMost(1, Headers), AtMost(2, Sections \cup Odd), AtMost(2, Clocks \cup Odd), AtMost(1, Statistics \cup Odd),
   AtMost(4, Ordinary \cup Odd \cup Statistics), AtMost(5, Sections \cup Ordinary \cup Odd)}

Request(first, last, proto, src, dst) == [span |-> <<first, last>>, proto |-> proto, src |-> src, dst |-> dst]
MCRequests == {Request(4, 5, "tcp", X, Y), Request(9, 12, "tcp", X, Y), Request(1, 20, "icmp", Y, X)}
=============================================================================
