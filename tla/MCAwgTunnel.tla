------------------------------ MODULE MCAwgTunnel ------------------------------
(* Two nodes that may share the address b; the second moves to an address of the    *)
(* other family, where the endpoint of the first configuration may be too.  The     *)
(* second configuration routes less, has no DNS server, and its endpoint moves to   *)
(* the address of a node.                                                          *)
EXTENDS AwgTunnel, TLC
CONSTANTS c1, c2, h1, h2, a, b, d, six

MCPolicy == c1 :> [allowed |-> {a, b, d, six}, dns |-> d] @@ c2 :> [allowed |-> {a, b}, dns |-> None]
MCAnnounce == h1 :> {{}, {a}, {a, b}} @@ h2 :> {{}, {b}, {six}}
MCEndpoints == c1 :> {{}, {six}} @@ c2 :> {{a}, {}}
=============================================================================
