------------------------------ MODULE Subnets -------------------------------
(***************************************************************************)
(* The hosts of a subnet, in the order in which discovery visits them: all *)
(* addresses of a subnet of one or two, and all but the first (network)    *)
(* and the last (broadcast) of a larger one.  An address is a number of    *)
(* Width bits; a subnet is its first address and the bits of its prefix.   *)
(* A /0 has no address outside it: its walk goes on past the last address, *)
(* over the first, and round again for ever.                               *)
(***************************************************************************)
EXTENDS Integers, FiniteSetsExt

CONSTANT Width

ASSUME WidthAssumption == Width \in Nat \ {0}

PowerOf2[n \in 0 .. Width] == IF n = 0 THEN 1 ELSE 2 * PowerOf2[n - 1]

Addresses == 0 .. PowerOf2[Width] - 1
Size(cidr) == PowerOf2[Width - cidr.bits]
Cidrs == {c \in [first : Addresses, bits : 0 .. Width] : c.first % Size(c) = 0}

Contains(cidr, ip) == ip \div Size(cidr) = cidr.first \div Size(cidr)

\* The carry of the last byte goes on to the first, and beyond it is lost.
incIP(ip) == (ip + 1) % PowerOf2[Width]

NoHost == -1
SmallSubnet(cidr) == ~Contains(cidr, incIP(cidr.first)) \/ ~Contains(cidr, incIP(incIP(cidr.first)))

FirstHost(cidr) == IF SmallSubnet(cidr) THEN cidr.first ELSE incIP(cidr.first)

(* A faulty form of NextHost: the broadcast address is visited. *)
NextAddress(cidr, host) == IF Contains(cidr, incIP(host)) THEN incIP(host) ELSE NoHost

NextHost(cidr, host) ==
  LET next == incIP(host)
  IN  IF ~Contains(cidr, next) THEN NoHost
      ELSE IF SmallSubnet(cidr) THEN next
      ELSE IF Contains(cidr, incIP(next)) THEN next ELSE NoHost

(***************************************************************************)
(* The reference the walk is compared with.                                *)
(***************************************************************************)
AssignableHosts(cidr) ==
  LET all == {ip \in Addresses : cidr.first <= ip /\ ip < cidr.first + Size(cidr)}
  IN  IF Cardinality(all) <= 2 THEN all ELSE all \ {Min(all), Max(all)}

Endless(cidr) == cidr.bits = 0
VisitedHosts(cidr) == IF Endless(cidr) THEN Addresses ELSE AssignableHosts(cidr)
=============================================================================
