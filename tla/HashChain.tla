------------------------------ MODULE HashChain ------------------------------
(***************************************************************************)
(* What the audit ledger promises its callers, with no transactions, locks *)
(* or sequence numbers: one chain with one end, that only grows, by one    *)
(* entry at a time, each entry linked to the end it found.                 *)
(***************************************************************************)
CONSTANTS Event,           \* what an entry's hash covers
          Genesis,         \* the end of the empty chain
          DigestOf(_, _)   \* the hash of a previous digest and an event

VARIABLES entries,  \* the entries of the chain
          end       \* the hash that the next entry will link to

chainVars == <<entries, end>>

Entry(prev, event) ==
    [event |-> event, previous_hash |-> prev, entry_hash |-> DigestOf(prev, event)]

Init == entries = {} /\ end = Genesis

Extend(event) ==
    /\ entries' = entries \cup {Entry(end, event)}
    /\ end' = DigestOf(end, event)

Next == \E event \in Event : Extend(event)

Spec == Init /\ [][Next]_chainVars
=============================================================================
