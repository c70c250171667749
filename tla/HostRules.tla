------------------------------ MODULE HostRules -----------------------------
(***************************************************************************)
(* The names a run answers to (security/access.py): which Host a request   *)
(* may carry, from which Origin it may come, which address a reader of     *)
(* pins.md is given, and whether a request came through a proxy.           *)
(*                                                                         *)
(* A header that may be missing is a set of at most one [name, port]; an   *)
(* origin has a scheme too.  NoName is the name of a malformed one.        *)
(***************************************************************************)
EXTENDS Integers, Sequences

CONSTANTS LoopbackNames,  \* 127.0.0.1, localhost, ::1
          TsNetNames,     \* the names that end in .ts.net
          ThisMachine,    \* 127.0.0.1
          NoName

NoPort == -1
Ports  == 1 .. 65535
PortOr(port, default) == IF port \in {NoPort, 0} THEN default ELSE port
DefaultPort(scheme)   == IF scheme = "https" THEN 443 ELSE 80

(* parse_public_hosts: the entries of --public-host, as a start takes them *)
(* or not, and what it makes of them: of two for one name the first.       *)
UsableHosts(entries) ==
  \A k \in DOMAIN entries : /\ entries[k].name \notin LoopbackNames \cup {NoName}
                            /\ entries[k].port \in Ports \cup {NoPort}
PublicHosts(entries) ==
  {entries[k] : k \in {k \in DOMAIN entries : \A j \in 1..(k - 1) : entries[j].name # entries[k].name}}

PublicHost(name, hosts) == {h \in hosts : h.name = name}

(* split_host of a Host header: no header reads like a malformed one.      *)
HostName(host) == IF \E h \in host : TRUE THEN (CHOOSE h \in host : TRUE).name ELSE NoName
HostPort(host) == IF \E h \in host : TRUE THEN (CHOOSE h \in host : TRUE).port ELSE NoPort

HostOk(host, hosts) ==
  HostName(host) \in LoopbackNames \cup TsNetNames \/ PublicHost(HostName(host), hosts) # {}

(* origin_ok: on the side of the Host the request arrived on; no Host at   *)
(* all is the loopback side, whose ports are not compared (a tunnel may    *)
(* change them).                                                           *)
LoopbackSide(host) == HostName(host) \in LoopbackNames \cup {NoName}
TsNetSide(host)    == ~LoopbackSide(host) /\ HostName(host) \in TsNetNames
SamePort(p, q, default) == PortOr(p, default) = PortOr(q, default)

OriginOk(origin, host, hosts) ==
  /\ origin.scheme \in {"http", "https"} /\ origin.name # NoName
  /\ LoopbackSide(host) => origin.name \in LoopbackNames
  /\ TsNetSide(host) => /\ origin.name = HostName(host)
                        /\ SamePort(origin.port, HostPort(host), DefaultPort(origin.scheme))
  /\ ~(LoopbackSide(host) \/ TsNetSide(host)) =>
       \E h \in PublicHost(HostName(host), hosts) :
          origin.scheme = "https" /\ origin.name = h.name /\ SamePort(origin.port, h.port, 443)

(* remote_base_for: the address of this run, as the asker reached it.      *)
Address(scheme, name, port) == [scheme |-> scheme, name |-> name, port |-> port]
PublicBase(h) == Address("https", h.name, IF h.port \in {0, 443} THEN NoPort ELSE h.port)
RemoteBase(host, hosts, port) ==
  IF HostName(host) \in TsNetNames THEN Address("https", HostName(host), HostPort(host))
  ELSE IF PublicHost(HostName(host), hosts) # {} THEN PublicBase(CHOOSE h \in PublicHost(HostName(host), hosts) : TRUE)
  ELSE Address("http", ThisMachine, port)

(* came_through_proxy: a forwarding header, or a Host that is not this     *)
(* machine's.                                                              *)
HostIsLoopback(host) == host = {} \/ HostName(host) \in LoopbackNames
CameThroughProxy(forwarding, host) == forwarding \/ ~HostIsLoopback(host)
=============================================================================
