----------------------------- MODULE MCGateway ------------------------------
(***************************************************************************)
(* Instances of Gateway for TLC: which datagrams reach the gateway.        *)
(***************************************************************************)
EXTENDS Gateway

(* A datagram that names no other peer: registration, exit, id request.     *)
Plain(types) == [type : types, from : Peer, who : {NoPeer}]

(* A report of a lost peer: its sender, still running, reports another one.  *)
Reports == {m \in [type : {"loss"}, from : Peer, who : Peer] : m.from # m.who}

AllDatagrams == Plain({"join", "exit", "id"}) \cup Reports
JoinsExits   == Plain({"join", "exit"})
JoinsReports == Plain({"join"}) \cup Reports
Joins        == Plain({"join"})
=============================================================================
