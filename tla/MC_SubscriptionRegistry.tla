---------------------- MODULE MC_SubscriptionRegistry ----------------------
(* Filters, events and channel spellings for TLC. *)
EXTENDS SubscriptionRegistry, TLC

CONSTANTS k1, k2, p1, p2, r1, r2, c1, c2, m1, m2

MCHValues   == {"r1", "R1", "r2", "junk"}
MCParseRoom == ("r1" :> r1) @@ ("R1" :> r1) @@ ("r2" :> r2) @@ ("junk" :> Global)
MCShowRoom  == (r1 :> "r1") @@ (r2 :> "r2")

OneCommunity == (c1 :> m1) @@ (c2 :> m1)

F(ks, ps, hs) == [kinds |-> ks, authors |-> Absent, ps |-> ps, hs |-> hs]
E(k, ps, hs, r) == [kind |-> k, author |-> p1, ps |-> ps, hs |-> hs, room |-> r]

Interchangeable == Permutations(Workers) \cup Permutations(SubIds)

\* Enough for two calls to meet in one index key, or in one id with two scopes.
FewRequests == {{F({k1, k2}, Absent, {"r1"})}, {F({k1}, Absent, Absent)}}
FewEvents   == {E(k1, {}, {"r1"}, r1), E(k1, {}, {}, Global)}
=============================================================================
