------------------------------ MODULE NetworkBinding ------------------------------
(***************************************************************************)
(* Which addresses an accessory listens on, announces and names to its     *)
(* controllers: Accessory.parseBindOption, the interface HAPConnection     *)
(* picks for a socket, and the loopback address of its HTTP server.        *)
(*                                                                         *)
(* An address is a record: family, subnet, number in it, scoped (a link    *)
(* local one) and internal.  The operating system's interfaces change      *)
(* while the accessory runs; an interface without an address is not        *)
(* listed at all.                                                          *)
(***************************************************************************)
EXTENDS Naturals, Sequences, FiniteSetsExt, Functions

CONSTANTS
  NameOrder,         \* the interfaces in the order the operating system lists them
  HostAddresses,     \* what each of them may carry, as sequences of addresses
  BindOptions,       \* what the plugin passes as info.bind: unspecified, names, addresses
  Advertisers        \* the advertisers it may ask for

Names == Range(NameOrder)
Addresses == UNION {Range(s) : s \in UNION {HostAddresses[n] : n \in Names}}

ASSUME NetworkAssumption ==
  /\ Advertisers \subseteq {"ciao", "bonjour", "avahi", "resolved"}
  /\ NameOrder \in Seq(STRING)
  /\ \A n \in Names : HostAddresses[n] \subseteq Seq(Addresses)
  /\ \A a \in Addresses : a.family \in {4, 6}
  /\ BindOptions \subseteq [unspecified : SUBSET {"::", "0.0.0.0"}, names : SUBSET Names,
                            addresses : SUBSET Addresses]

NotConnected == [networkInterface |-> "none"]

VARIABLES
  host,              \* os.networkInterfaces()
  server,            \* the address the server listens on, "none" before publish
  advertiser,
  restriction,       \* the names and addresses the announcement is restricted to, if any
  disabledIpv6,
  connection,        \* the last accepted one: its local address, networkInterface, HTTP server
  loopback           \* the loopback address once it was found: at most one

networkVars == <<host, server, advertiser, restriction, disabledIpv6, connection, loopback>>

AllOf(n) == Range(host[n])
NoRestriction == [unspecified |-> {}, names |-> {}, addresses |-> {}]

NetworkInit ==
  /\ host \in [Names -> UNION {HostAddresses[n] : n \in Names}]
  /\ \A n \in Names : host[n] \in HostAddresses[n]
  /\ server = "none"
  /\ advertiser \in Advertisers
  /\ restriction = NoRestriction
  /\ disabledIpv6 = FALSE
  /\ connection = NotConnected
  /\ loopback = {}

-----------------------------------------------------------------------------
(* The bind option.                                                        *)

\* Mutant of ServerAddress: an interface name alone is served over IPv4.
ServerAddressOfLiterals(bind) ==
  CASE "::" \in bind.unspecified -> "::"
    [] bind.unspecified = {"0.0.0.0"} -> "0.0.0.0"
    [] OTHER -> IF \E a \in bind.addresses : a.family = 6 THEN "::" ELSE "0.0.0.0"

\* An interface name may stand for addresses of either family.
ServerAddress(bind) ==
  CASE "::" \in bind.unspecified -> "::"
    [] bind.unspecified = {"0.0.0.0"} -> "0.0.0.0"
    [] OTHER -> IF bind.names # {} \/ \E a \in bind.addresses : a.family = 6 THEN "::" ELSE "0.0.0.0"

\* publish() without a bind option listens on the unspecified address.
Publish(bind) ==
  /\ server = "none"
  /\ server' = IF bind = NoRestriction THEN "::" ELSE ServerAddress(bind)
  /\ restriction' = [bind EXCEPT !.unspecified = @ \ {server'}]
  /\ disabledIpv6' = (bind.unspecified = {"0.0.0.0"})
  /\ UNCHANGED <<host, advertiser, connection, loopback>>

Carried(names) == UNION {AllOf(n) : n \in names}

\* What the announcement is restricted to, if it is.
Restricted ==
  IF restriction = NoRestriction THEN Carried(Names)
  ELSE Carried(restriction.names) \cup (Carried(Names) \cap restriction.addresses)

\* The address records the advertiser publishes.  avahi and systemd-resolved announce the host.
Announced ==
  IF advertiser \in {"avahi", "resolved"} THEN Carried(Names)
  ELSE {a \in Restricted : disabledIpv6 => a.family = 4}

-----------------------------------------------------------------------------
(* The interface of a connection.                                          *)

\* An IPv4 address of a socket that listens on "::" is written as an IPv6 one.
Written(form, address) == [form |-> form, address |-> address]
FamilyOf(local) == IF local.form = "plain" THEN local.address.family ELSE 6

Unmapped(local) == [local EXCEPT !.form = "plain"]

\* The element of S that comes first in a sequence.
FirstOf(sequence, S) == sequence[Min({i \in DOMAIN sequence : sequence[i] \in S})]

DefaultInterface ==
  LET external == {n \in Names : \E a \in AllOf(n) : ~a.internal}
  IN IF external = {} THEN "unknown" ELSE FirstOf(NameOrder, external)

LocalNetworkInterface(local) ==
  LET l     == Unmapped(local)
      exact == {n \in Names : \E a \in AllOf(n) : Written("plain", a) = l}
      near  == {n \in Names : \E a \in AllOf(n) : a.family = FamilyOf(l) /\ a.subnet = l.address.subnet}
  IN IF exact # {} THEN FirstOf(NameOrder, exact)
     ELSE IF near # {} THEN FirstOf(NameOrder, near) ELSE DefaultInterface

\* The address a connection names to its controller, {} where the code throws.
LocalAddress(name, family) ==
  LET all    == {a \in IF name \in Names THEN AllOf(name) ELSE {} : a.family = family}
      global == {a \in all : family = 6 /\ ~a.scoped}
  IN {FirstOf(host[name], S) : S \in {IF global # {} THEN global ELSE all} \ {{}}}

\* Only the first interface with an internal address is looked at.
FindLoopback ==
  LET name     == FirstOf(NameOrder, {n \in Names : \E a \in AllOf(n) : a.internal})
      internal == {a \in AllOf(name) : a.internal}
      ipv4     == {a \in internal : a.family = 4}
      ipv6     == {a \in internal : a.family = 6 /\ ~a.scoped}
  IN IF \A n \in Names : \A a \in AllOf(n) : ~a.internal THEN {}
     ELSE {FirstOf(host[name], IF ipv4 # {} THEN ipv4 ELSE IF ipv6 # {} THEN ipv6 ELSE internal)}

\* getOSLoopbackAddress: what was found first is kept.
OSLoopbackAddress == IF loopback = {} THEN FindLoopback ELSE loopback

\* A controller connects; the HTTP server of its connection listens on the loopback address.
Connect(local) ==
  /\ server # "none"
  /\ local.form = IF server = "::" /\ local.address.family = 4 THEN "mapped" ELSE "plain"
  /\ server = "0.0.0.0" => local.address.family = 4
  /\ loopback' = OSLoopbackAddress
  /\ connection' = [local |-> local.address, networkInterface |-> LocalNetworkInterface(local),
                    server |-> loopback', host |-> host]
  /\ UNCHANGED <<host, server, advertiser, restriction, disabledIpv6>>

\* An interface goes down, comes up, or changes its addresses.
Readdress(n, addresses) ==
  /\ host[n] # addresses
  /\ host' = [host EXCEPT ![n] = addresses]
  /\ UNCHANGED <<server, advertiser, restriction, disabledIpv6, connection, loopback>>

NetworkNext ==
  \/ \E bind \in BindOptions : Publish(bind)
  \/ \E form \in {"plain", "mapped"}, a \in Addresses : Connect(Written(form, a))
  \/ \E n \in Names : \E s \in HostAddresses[n] : Readdress(n, s)

NetworkSpec == NetworkInit /\ [][NetworkNext]_networkVars

-----------------------------------------------------------------------------
(* Properties.                                                             *)

NetworkTypeOK ==
  /\ \A n \in Names : host[n] \in HostAddresses[n]
  /\ server \in {"none", "::", "0.0.0.0"}
  /\ restriction.names \subseteq Names /\ restriction.addresses \subseteq Addresses
  /\ disabledIpv6 \in BOOLEAN
  /\ loopback \subseteq Addresses

\* No address is announced that the server does not listen on, whatever mixture of names and
\* addresses the plugin asks for and however the interfaces change afterwards (parseBindOption).
AnnouncedIsServed ==
  server = "0.0.0.0" => \A a \in Announced : a.family = 4

\* As long as the host keeps its addresses, a connection that came in on one of them names an
\* address of the interface it came in on, in the family it came in with, so that a camera
\* stream can be sent back where the request came from (getLocalNetworkInterface, getLocalAddress).
StreamLeavesWhereItCameIn ==
  connection # NotConnected /\ connection.host = host
     /\ (\E n \in Names : connection.local \in AllOf(n))
    => /\ connection.local \in AllOf(connection.networkInterface)
       /\ LocalAddress(connection.networkInterface, connection.local.family) # {}

\* What is announced is served, and a stream goes back the way its request came.
HostAddressed == NetworkTypeOK /\ AnnouncedIsServed /\ StreamLeavesWhereItCameIn
=============================================================================
