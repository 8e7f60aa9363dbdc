--------------------------- MODULE MCUdpPlatform ---------------------------
(***************************************************************************)
(* An instance of UdpPlatform with one remote sender.                      *)
(***************************************************************************)
EXTENDS UdpPlatform

MCLocalPort == [n \in Nodes |-> n]

\* The remote publishes on a stateful subject and on a stateless one; what Self
\* publishes comes back to it.
MCTraffic == {<<32, 1>>, <<32, 9>>, <<16, 9>>}
=============================================================================
