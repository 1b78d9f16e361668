----------------------------- MODULE MCDnsProbe -----------------------------
(* Instances of DnsProbe for TLC. *)
EXTENDS DnsProbe, TLC

CONSTANTS c1, c2

TwoCPUs == {c1, c2}
OneCPU == {c1}
CPUSymmetry == Permutations(TwoCPUs)

\* 0x0101 reads the same in both byte orders; 0x9C40 and 0x409C read as each
\* other.
EqualBytes == 257
Ephemeral == 40000
Swapped == 16540

MixedPorts == {EqualBytes, Ephemeral, Swapped}
OnePort == {Ephemeral}
=============================================================================
