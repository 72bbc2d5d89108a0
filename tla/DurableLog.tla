----------------------------- MODULE DurableLog -----------------------------
(***************************************************************************)
(* What the recorder promises to whoever hands it a record: it refuses the *)
(* record at once or owes it to the store, a record leaves the debt only by*)
(* being stored, and a session is declared complete only when nothing is   *)
(* owed and nothing was refused.  A session that is not declared complete  *)
(* promises nothing about the debt it ends with.                           *)
(***************************************************************************)
CONSTANT Record

VARIABLES owed,      \* accepted, and not yet known to be stored
          log,       \* stored
          refused,
          verdict    \* "open", then "complete" or "incomplete"

logVars == <<owed, log, refused, verdict>>

Init == owed = {} /\ log = {} /\ refused = {} /\ verdict = "open"

Fresh(r) == r \notin owed \cup log \cup refused

Accept(r) ==
  /\ verdict = "open" /\ Fresh(r)
  /\ owed' = owed \cup {r}
  /\ UNCHANGED <<log, refused, verdict>>

Refuse(r) ==
  /\ verdict = "open" /\ Fresh(r)
  /\ refused' = refused \cup {r}
  /\ UNCHANGED <<owed, log, verdict>>

\* A batch is written; the recorder need not have learned that yet.
Persist(batch) ==
  /\ verdict = "open"
  /\ log' = log \cup batch
  /\ \E settled \in SUBSET batch : owed' = owed \ settled
  /\ UNCHANGED <<refused, verdict>>

Complete ==
  /\ verdict = "open" /\ owed = {} /\ refused = {}
  /\ verdict' = "complete"
  /\ UNCHANGED <<owed, log, refused>>

Abandon ==
  /\ verdict = "open"
  /\ verdict' = "incomplete" /\ owed' = {}
  /\ UNCHANGED <<log, refused>>

Next ==
  \/ \E r \in Record : Accept(r) \/ Refuse(r)
  \/ \E batch \in SUBSET owed : Persist(batch)
  \/ Complete
  \/ Abandon

Spec == Init /\ [][Next]_logVars
=============================================================================
