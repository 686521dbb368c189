----------------------------- MODULE JobLedger -----------------------------
(***************************************************************************)
(* What a sender may rely on about its accepted writes, whatever happens   *)
(* inside: the abstract specification that the door and the object         *)
(* implement (module Ingest shows it).  A write is open under a repair     *)
(* generation, its messages are finalized one after the other, it ends in  *)
(* one verdict, and only a failed write is ever opened again: with every   *)
(* message outstanding, under a later generation, a bounded number of      *)
(* times.                                                                  *)
(***************************************************************************)
EXTENDS Integers

CONSTANTS
  Writes,      \* accepted writes
  Content,     \* the messages of a write
  MaxReopens   \* repair generations

VARIABLES
  state,        \* of a write: absent, open, enriched or failed
  generation,   \* the repair generation it runs under
  outstanding   \* its messages that no generation has finalized yet

ledger == <<state, generation, outstanding>>

LedgerInit ==
  /\ state = [w \in Writes |-> "absent"]
  /\ generation = [w \in Writes |-> 0]
  /\ outstanding = [w \in Writes |-> {}]

Accept(w) ==
  /\ state[w] = "absent"
  /\ state' = [state EXCEPT ![w] = "open"]
  /\ outstanding' = [outstanding EXCEPT ![w] = Content[w]]
  /\ UNCHANGED generation

(* Some messages are finalized, but not all. *)
Progress(w, done) ==
  /\ state[w] = "open"
  /\ outstanding[w] \ done # {}
  /\ outstanding' = [outstanding EXCEPT ![w] = @ \ done]
  /\ UNCHANGED <<state, generation>>

(* The write is enriched exactly when its last messages are finalized. *)
Enrich(w) ==
  /\ state[w] = "open"
  /\ state' = [state EXCEPT ![w] = "enriched"]
  /\ outstanding' = [outstanding EXCEPT ![w] = {}]
  /\ UNCHANGED generation

Fail(w) ==
  /\ state[w] = "open"
  /\ state' = [state EXCEPT ![w] = "failed"]
  /\ outstanding' = [outstanding EXCEPT ![w] = {}]
  /\ UNCHANGED generation

Repair(w, g) ==
  /\ state[w] = "failed"
  /\ generation[w] < g /\ g <= MaxReopens
  /\ state' = [state EXCEPT ![w] = "open"]
  /\ generation' = [generation EXCEPT ![w] = g]
  /\ outstanding' = [outstanding EXCEPT ![w] = Content[w]]

LedgerNext ==
  \E w \in Writes :
    \/ Accept(w) \/ Enrich(w) \/ Fail(w)
    \/ \E done \in SUBSET Content[w] : Progress(w, done)
    \/ \E g \in 1 .. MaxReopens : Repair(w, g)

LedgerSpec == LedgerInit /\ [][LedgerNext]_ledger
=============================================================================
