-------------------------- MODULE MC_FanOutHistory --------------------------
(* The requests and events of the run with two threads. *)
EXTENDS MC_SubscriptionRegistry, FanOutHistory

\* One filter set for every index: by kind and wildcard in a channel, in two
\* spellings, and #p with kinds, kinds and wildcard outside channels.
EveryIndex == {
    {F({k1, k2}, Absent, {"r1"})}, {F(Absent, Absent, {"R1"})},
    {F({k1}, {p1}, Absent)}, {F({k1}, Absent, Absent)}, {F(Absent, {p1}, Absent)}}

EveryScope == {E(k1, {}, {"r1"}, r1), E(k1, {p1}, {}, Global)}
=============================================================================
