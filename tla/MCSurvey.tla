------------------------------ MODULE MCSurvey ------------------------------
(***************************************************************************)
(* Two runs in a directory.  The offers are those of the clients the       *)
(* surveys met: configured (C1, C2, C3), classical only, with GREASE       *)
(* values; one of a client that shares a hybrid the code has no name for,  *)
(* and the offer of a browser, with GREASE before its hybrid.              *)
(***************************************************************************)
EXTENDS Survey

Offer(groups, shares) == [groups |-> groups, shares |-> shares]

SecP256r1MLKEM768 == 4587
GreaseA == 2570
GreaseB == 47802

GreaseOffers ==
    {Offer(<<g, X25519MLKEM768>>, <<g, X25519MLKEM768>>) : g \in {GreaseA, GreaseB}}
UnnamedOffer == Offer(<<SecP256r1MLKEM768, X25519MLKEM768>>, <<SecP256r1MLKEM768>>)

MCOffers ==
    [f \in FaultTypes |->
     CASE f \in {"negotiation-function", "server-software"} -> {CLIENTS.C1, CLIENTS.C2}
       [] f = "default-direct" -> {CLIENTS.C1}
       [] f = "client-default" -> GreaseOffers \cup {CLIENTS.C1}
       [] f = "client-default-v18" ->
              {CLIENTS.C2, UnnamedOffer, Offer(<<X25519>>, <<X25519>>),
               Offer(<<GreaseA, X25519MLKEM768>>, <<X25519MLKEM768>>)}]

\* C3 was labelled C2, a hybrid share out of order C1; C1 as now, but without
\* the server's selection type.
MCOlder == {CLIENTS.C1, CLIENTS.C3, Offer(<<X25519, X25519MLKEM768>>, <<X25519MLKEM768>>)}

MCSlots == 1 .. 2
=============================================================================
