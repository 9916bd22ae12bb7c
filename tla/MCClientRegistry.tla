------------------------- MODULE MCClientRegistry -------------------------
(* ClientRegistry on a small instance: a compose service that is listed    *)
(* twice, around an entry with a limit of zero. The network before it must *)
(* win over it, and it over the network behind it.                         *)
EXTENDS ClientRegistry, TLC

CONSTANTS t1, t2, a1, a2, frontend, lan, vpn, broken

FrontendTwice ==
    <<[name |-> lan, limit |-> Absent, hosts |-> {a2}],
      [name |-> frontend, limit |-> 2, hosts |-> {}],
      [name |-> broken, limit |-> 0, hosts |-> {a1, a2}],
      [name |-> frontend, limit |-> 3, hosts |-> {}],
      [name |-> vpn, limit |-> 4, hosts |-> {a1}]>>

Symmetry == Permutations(Threads)
=============================================================================
