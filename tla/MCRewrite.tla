------------------------------ MODULE MCRewrite -----------------------------
(***************************************************************************)
(* Every order of up to three groups of which two are hybrids, key shares  *)
(* for any of the groups, of full length or short, the two extensions in   *)
(* either order, beside others or missing.                                 *)
(***************************************************************************)
EXTENDS Rewrite

OfferedGroups == {X25519, X25519MLKEM768, X25519Kyber768Draft00}
GroupLists == {s \in UNION {[1 .. n -> OfferedGroups] : n \in 1 .. 3} : IsInjective(s)}
Share(g) == [group |-> g, size |-> IF g = X25519 THEN 32 ELSE 1216, key |-> g]
Short(g) == [group |-> g, size |-> 1183, key |-> g]
\* Clients send at most two key shares, in the order of their groups.
ShareLists(groups) ==
    {<<>>} \cup {<<Share(groups[i])>> : i \in DOMAIN groups}
    \cup {<<Share(groups[i]), Share(groups[j])>> :
            i, j \in DOMAIN groups}
SharesOf(groups) == {s \in ShareLists(groups) : IsInjective(s)}
                    \cup {<<Share(X25519), Short(X25519MLKEM768)>>, <<Short(X25519Kyber768Draft00)>>}
Orders == {<<TLS_SUPPORTED_GROUPS, TLS_KEY_SHARE>>, <<0, TLS_KEY_SHARE, 0, TLS_SUPPORTED_GROUPS>>,
           <<0, TLS_SUPPORTED_GROUPS>>, <<TLS_KEY_SHARE, 0>>}

\* The session id of middlebox compatibility, or none.
MCClientHellos ==
    UNION {UNION {[groups : {g}, shares : SharesOf(g), order : {o}, sid : {IF Head(o) = 0 THEN 0 ELSE 32}]
                    : o \in Orders} : g \in GroupLists}
MCServerHellos ==
    [hrr : BOOLEAN, group : OfferedGroups, order : {<<0, TLS_KEY_SHARE>>, <<TLS_KEY_SHARE, 0>>, <<0>>},
     sid : {0, 32}]
MCKexLists == {s \in UNION {[1 .. n -> 1 .. 4] : n \in 1 .. 4} : IsInjective(s)}
MCBlobs == {32, SNTRUP761_PUBLICKEY_BYTES, SNTRUP761_PUBLICKEY_BYTES + X25519_BYTES}

\* Kept, which picks positions, is the comprehension of the code: a filter of
\* the elements.
ASSUME KeptIsFilter ==
    \A s \in GroupLists \cup {<<>>}, g \in OfferedGroups :
       Kept(s, {k \in DOMAIN s : s[k] # g}) = SelectSeq(s, LAMBDA x : x # g)
=============================================================================
