------------------------------- MODULE AwgNames -------------------------------
(* What the agent and those who send it requests both speak of. *)
CONSTANTS
    Hosts,     \* nodes that are to be reached through the tunnel
    Confs,     \* configurations
    None
=============================================================================
