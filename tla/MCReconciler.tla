---------------------------- MODULE MCReconciler ----------------------------
(* Small instances of Reconciler for TLC. *)
EXTENDS Reconciler, TLC

CONSTANTS c1, c2, ipA, ipB, ip6A

\* c1 exposes udp/1 untranslated; c2 is an alternative backend for udp/1 that
\* listens on another port (anchord.expose=udp/1:2) and exposes tcp/1 as well.
MCRules ==
    [c \in {c1, c2} |->
        [r \in Protos \X Ports |->
            CASE c = c1 /\ r = <<"udp", 1>> -> 1
              [] c = c2 /\ r = <<"udp", 1>> -> 2
              [] c = c2 /\ r = <<"tcp", 1>> -> 1
              [] OTHER -> None]]

Sym == Permutations({ipA, ipB})
=============================================================================
