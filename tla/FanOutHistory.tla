--------------------------- MODULE FanOutHistory ---------------------------
(***************************************************************************)
(* The registry with a record of what each fan-out owes: the subscriptions *)
(* that were registered, filed and matched its event when it began and     *)
(* have stayed so ever since.  The record is bookkeeping for a property    *)
(* and constrains no step of the registry.                                 *)
(***************************************************************************)
EXTENDS SubscriptionRegistry

VARIABLE due  \* worker -> what the fan-out it is in the middle of owes

histVars == <<regVars, due>>

\* Fan-out w ought to reach x, as the registry is now.
Wanted(w, x) ==
    LET entry == subs[x[1]][x[2]]
    IN /\ entry # NoEntry
       /\ InScope(entry, work[w].community, work[w].event)
       /\ FiltersMatch(entry.filters, work[w].event)
       /\ \A k \in Keys(x[1], x[2]) : x \in Filed(k)

\* Everything wanted is due when a fan-out begins, and as long as it is wanted
\* and nobody replaced it.
Due(w) ==
    {x \in Pairs : /\ Wanted(w, x)'
                   /\ Fanning(w) => x \in due[w] /\ subs'[x[1]][x[2]] = subs[x[1]][x[2]]}

HistInit == RegInit /\ due = [w \in Workers |-> {}]

HistNext ==
    /\ RegNext
    /\ due' = [w \in Workers |-> IF Fanning(w)' THEN Due(w) ELSE {}]

HistSpec == HistInit /\ [][HistNext]_histVars

-----------------------------------------------------------------------------
\* fan_out_scoped reads the indexes key by key while other threads register and
\* remove: it still finds every subscription that was registered, filed and
\* matching from its first lookup to its last, whichever of the five indexes
\* holds it.
DueIsFound ==
    \A w \in Workers : FannedOut(w) => due[w] \subseteq work[w].found

=============================================================================
