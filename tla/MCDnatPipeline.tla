---------------------------- MODULE MCDnatPipeline ----------------------------
(* A small instance of DnatPipeline for TLC. *)
EXTENDS DnatPipeline, TLC

CONSTANTS c1, c2, ipA, ipB

\* c2 has network_mode container:<c1>: it owns udp/1 at c1's address.
MCWrapTarget == c2 :> c1

MCRules ==
    [c \in {c1, c2} |->
        [r \in Protos \X Ports |->
            IF r = <<IF c = c1 THEN "tcp" ELSE "udp", 1>> THEN 1 ELSE None]]
=============================================================================
