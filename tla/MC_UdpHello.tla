----------------------------- MODULE MC_UdpHello -----------------------------
(***************************************************************************)
(* Instances of UdpHello for TLC.                                          *)
(***************************************************************************)
EXTENDS UdpHello

CONSTANT Other   (* Any host but 192.1.1.115.                              *)

(* Senders with a port of their own: the peer of "hello!" from the port it *)
(* is sent to and from another one, and another host.                      *)
PortSources ==
  {[ip |-> Peer, port |-> HelloPort], [ip |-> Peer, port |-> 1024],
   [ip |-> Other, port |-> HelloPort]}

(* UDP's source port is optional: a sender that expects no answer leaves 0.*)
AllSources == PortSources \cup {[ip |-> Other, port |-> 0]}
=============================================================================
