------------------------------- MODULE RowLog -------------------------------
(***************************************************************************)
(* What the archiver promises about every row it accepts: the row becomes  *)
(* durable and stays durable, and until then it can be lost in two ways    *)
(* only: the process goes away, or an attempt to open a new session        *)
(* discards what the previous one has not persisted.                       *)
(***************************************************************************)
CONSTANT Row

VARIABLES session,    \* "recovering", "closed" or "open"
          volatile,   \* rows accepted and only in memory
          durable,    \* rows on disk
          lost        \* rows accepted and gone

logVars == <<session, volatile, durable, lost>>

LogTypeOK ==
    /\ session \in {"recovering", "closed", "open"}
    /\ volatile \subseteq Row /\ durable \subseteq Row /\ lost \subseteq Row

LogInit ==
    /\ session = "recovering"
    /\ volatile = {} /\ durable = {} /\ lost = {}

Recover ==
    /\ session = "recovering"
    /\ session' = "closed"
    /\ UNCHANGED <<volatile, durable, lost>>

Discard ==
    /\ \E discarded \in SUBSET volatile :
         /\ volatile' = volatile \ discarded
         /\ lost' = lost \cup discarded
    /\ UNCHANGED durable

Open == session = "closed" /\ session' = "open" /\ Discard

(* A new session that cannot be opened ends the old one too. *)
Refuse == session # "recovering" /\ session' = "closed" /\ Discard

Accept ==
    /\ session = "open"
    /\ \E r \in Row \ (volatile \cup durable \cup lost) :
         volatile' = volatile \cup {r}
    /\ UNCHANGED <<session, durable, lost>>

Persist ==
    /\ \E rows \in (SUBSET volatile) \ {{}} :
         /\ volatile' = volatile \ rows
         /\ durable' = durable \cup rows
    /\ UNCHANGED <<session, lost>>

Close ==
    /\ session = "open"
    /\ session' = "closed"
    /\ UNCHANGED <<volatile, durable, lost>>

(* The process goes away; what it was writing may have reached the disk. *)
Die ==
    /\ session' = "recovering"
    /\ volatile' = {}
    /\ \E saved \in SUBSET volatile :
         /\ durable' = durable \cup saved
         /\ lost' = lost \cup (volatile \ saved)

LogNext == Recover \/ Open \/ Refuse \/ Accept \/ Persist \/ Close \/ Die

LogSpec == LogInit /\ [][LogNext]_logVars
=============================================================================
