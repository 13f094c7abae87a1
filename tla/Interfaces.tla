----------------------------- MODULE Interfaces -----------------------------
(***************************************************************************)
(* bacip/client.go: the addresses of the machine, and the one among their  *)
(* broadcast addresses that a new client sends WhoIs to.  An address is a  *)
(* sequence of octets, 4 for IPv4 and 16 for IPv6; a net has the address   *)
(* of the machine in it, and the length of its prefix in bits.             *)
(***************************************************************************)
EXTENDS Integers, SequencesExt

DefaultUDPPort == 47808
NoAddress      == <<>>

IsIPv4(ip) == Len(ip) = 4

(* The bits of octet k that belong to the prefix; the others number hosts. *)
PrefixBits(net, k) == Max({0, Min({8, net.ones - 8 * (k - 1)})})
Hosts(net, k) == 2^(8 - PrefixBits(net, k))

(* net.IPNet.Contains *)
InNet(net, ip) ==
  /\ Len(ip) = Len(net.ip)
  /\ \A k \in DOMAIN ip : ip[k] \div Hosts(net, k) = net.ip[k] \div Hosts(net, k)

(* As if the mask were added to the address, and not its complement. *)
BroadcastAddrOfMask(net) ==
  IF IsIPv4(net.ip) THEN [k \in 1..4 |-> 256 - Hosts(net, k) + (net.ip[k] % Hosts(net, k))]
  ELSE NoAddress

(* All ones in the bits that number hosts. *)
BroadcastAddr(net) ==
  IF IsIPv4(net.ip)
  THEN [k \in 1..4 |-> net.ip[k] - (net.ip[k] % Hosts(net, k)) + Hosts(net, k) - 1]
  ELSE NoAddress

(* The client at an address of the configuration: the first net that has   *)
(* it.  There is no client if none has.                                    *)
NewClientByIp(nets, ip) ==
  LET i == SelectInSeq(nets, LAMBDA net : InNet(net, ip))
  IN [ip |-> ip, broadcast |-> IF i = 0 THEN NoAddress ELSE BroadcastAddr(nets[i])]

(* The client at an interface: its first IPv4 address. *)
NewClient(nets) ==
  LET i == SelectInSeq(nets, LAMBDA net : IsIPv4(net.ip))
  IN IF i = 0 THEN [ip |-> NoAddress, broadcast |-> NoAddress]
     ELSE [ip |-> nets[i].ip, broadcast |-> BroadcastAddr(nets[i])]
=============================================================================
