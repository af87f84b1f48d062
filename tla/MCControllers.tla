---------------------------- MODULE MCControllers ----------------------------
(***************************************************************************)
(* Controllers and services around an accessory: adaptive lighting, remote, TV *)
(* access control, mDNS advertiser, network interfaces.                    *)
(* Side by side: a behaviour is one of the component "subject", and the others *)
(* rest.  Nothing relates them here; one instance of TLC checks them all.  *)
(***************************************************************************)
EXTENDS AdaptiveLighting, RemoteController, AccessControl, Advertiser, NetworkBinding, TLC

CONSTANTS
  Subjects,        \* the components this instance looks at
  t1, t2, c1, s1, s2, none

VARIABLE subject

ASSUME SubjectsAssumption == Subjects \subseteq {"lighting", "remote", "access", "advertiser", "network"}

P(t, tr, d) == [temperature |-> t, transitionTime |-> tr, duration |-> d]
ThreeEntries ==
  {<<P(3, 0, 1), P(5, 2, 0), P(2, 1, 0)>>, <<P(4, 1, 0), P(1, 1, 2), P(3, 2, 0)>>,
   <<P(4, 0, 0), P(1, 1, 2), P(3, 2, 0)>>}
AnyLength == ThreeEntries \cup {<<P(3, 0, 0), P(4, 3, 0)>>}

TwoTargets == {t1, t2}
OneConnection == {c1}
TwoStreams == {s1, s2}
OverOneConnection == [s \in {s1, s2} |-> c1]
RemoteSymmetry == Permutations(TwoTargets) \cup Permutations(TwoStreams)

Address(family, subnet, number, scoped, internal) ==
  [family |-> family, subnet |-> subnet, number |-> number, scoped |-> scoped, internal |-> internal]
Lo4  == Address(4, "loop", 1, FALSE, TRUE)
Lo6  == Address(6, "loop", 1, FALSE, TRUE)
Home1 == Address(4, "home", 1, FALSE, FALSE)
Home2 == Address(4, "home", 2, FALSE, FALSE)
Link == Address(6, "link", 1, TRUE, FALSE)
Wide == Address(6, "wide", 1, FALSE, FALSE)

Interfaces == <<"lo", "en0", "en1">>
MayCarry ==
  [lo  |-> {<<Lo6, Lo4>>},
   en0 |-> {<<>>, <<Home1>>, <<Link, Home1>>, <<Link, Wide>>},
   en1 |-> {<<>>, <<Home2>>, <<Link, Wide, Home2>>}]
Bind(unspecified, names, addresses) ==
  [unspecified |-> unspecified, names |-> names, addresses |-> addresses]
Options ==
  {Bind(u, n, a) : u \in SUBSET {"::", "0.0.0.0"}, n \in {{}, {"en0"}}, a \in {{}, {Home1}, {Wide}, {Home1, Wide}}}

\* One initial state is enough for a component that rests.
GroupInit ==
  /\ subject \in Subjects
  /\ LightingInit
  /\ subject # "lighting" => mode = CHOOSE m \in Modes : TRUE
  /\ RemoteInit
  /\ AccessInit
  /\ subject # "access" => ~passwordSetting
  /\ AdvertiserInit
  /\ subject # "advertiser" => backend = CHOOSE b \in Backends : TRUE
  /\ NetworkInit
  /\ subject # "network" => host["en0"] = <<>> /\ host["en1"] = <<>> /\ advertiser = CHOOSE a \in Advertisers : TRUE

\* The component under consideration takes a step, the others rest.
GroupNext ==
  \/ subject = "lighting" /\ LightingNext
       /\ UNCHANGED <<subject, remoteVars, accessVars, advertiserVars, networkVars>>
  \/ subject = "remote" /\ RemoteNext
       /\ UNCHANGED <<subject, lightingVars, accessVars, advertiserVars, networkVars>>
  \/ subject = "access" /\ AccessNext
       /\ UNCHANGED <<subject, lightingVars, remoteVars, advertiserVars, networkVars>>
  \/ subject = "advertiser" /\ AdvertiserNext
       /\ UNCHANGED <<subject, lightingVars, remoteVars, accessVars, networkVars>>
  \/ subject = "network" /\ NetworkNext
       /\ UNCHANGED <<subject, lightingVars, remoteVars, accessVars, advertiserVars>>

groupVars == <<subject, lightingVars, remoteVars, accessVars, advertiserVars, networkVars>>

GroupSpec == GroupInit /\ [][GroupNext]_groupVars
=============================================================================
