---------------------------- MODULE AuditIntegrity ----------------------------
(***************************************************************************)
(* The integrity job of the back office over a ledger that somebody edits  *)
(* behind the services' backs: a migration, a repair script, an operator   *)
(* with database access.  The ledger's documentation promises that any     *)
(* retroactive edit is caught by verify; what the hash covers decides it.  *)
(***************************************************************************)
EXTENDS AuditLedger

VARIABLES edited  \* somebody changed one field of one committed row

integrityVars == <<auditVars, edited>>

EditField(row, changed) == (table \ {row}) \cup {changed}

\* One UPDATE of a column the hash covers, or of one it does not.
EditHashed(row, event) ==
    /\ event # row.event
    /\ table' = EditField(row, [row EXCEPT !.event = event])

EditUnhashed(row, label) ==
    /\ label # row.label
    /\ table' = EditField(row, [row EXCEPT !.label = label])

Edit ==
    /\ ~edited
    /\ \E row \in Committed :
          \/ \E event \in Event : EditHashed(row, event)
          \/ \E label \in Label : EditUnhashed(row, label)
    /\ edited' = TRUE
    /\ UNCHANGED <<nextSeq, lock, txState, previous>>

IntegrityInit == AuditInit /\ edited = FALSE

IntegrityNext ==
    \/ \E t \in Tx : AuditStep(t) /\ UNCHANGED edited
    \/ Edit

IntegritySpec == IntegrityInit /\ [][IntegrityNext]_integrityVars

\* run_integrity: the report's audit_chain_intact (integrity.py:61).
AuditChainIntact == VerifyChain(Committed)

\* "Any retroactive edit breaks the chain and is caught by verify" (ledger.py:3).
RetroactiveEditCaught == edited => ~AuditChainIntact
=============================================================================
