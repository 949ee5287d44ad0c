------------------------------- MODULE RowLedger -------------------------------
(***************************************************************************)
(* What a write-behind sink promises about each row it accepts: a row is   *)
(* held in memory until it is stored; it leaves memory without having been *)
(* stored only when more rows are held than the capacity allows, or while  *)
(* the sink is closing; and it never comes back once it has left.          *)
(***************************************************************************)
EXTENDS Naturals, FiniteSets

CONSTANTS
  Kinds,     \* the row kinds, each with a ledger of its own
  Capacity   \* rows of one kind that are never given up while the sink is open

VARIABLES
  accepted,  \* number of rows accepted
  held,      \* rows the sink still has in memory
  stored,    \* rows in the database
  closing    \* has the sink begun to close?

vars == <<accepted, held, stored, closing>>

Init ==
  /\ accepted = [k \in Kinds |-> 0]
  /\ held = [k \in Kinds |-> {}]
  /\ stored = [k \in Kinds |-> {}]
  /\ closing = FALSE

\* A row is accepted; a full sink may give up one older row for it.
Accept(k) ==
  \E gone \in SUBSET held[k] :
    /\ gone # {} => /\ Cardinality(gone) = 1
                    /\ Cardinality(held[k]) >= Capacity
    /\ accepted' = [accepted EXCEPT ![k] = @ + 1]
    /\ held' = [held EXCEPT ![k] = (@ \ gone) \cup {accepted[k] + 1}]
    /\ UNCHANGED <<stored, closing>>

\* The database takes rows the sink holds.
Store(k) ==
  \E rows \in SUBSET held[k] :
    /\ stored' = [stored EXCEPT ![k] = @ \cup rows]
    /\ UNCHANGED <<accepted, held, closing>>

\* The sink learns that rows are stored and lets go of them.
Release(k) ==
  \E rows \in SUBSET (held[k] \cap stored[k]) :
    /\ held' = [held EXCEPT ![k] = @ \ rows]
    /\ UNCHANGED <<accepted, stored, closing>>

\* A sink over its capacity gives up rows, but never below the capacity.
Overflow(k) ==
  \E rows \in SUBSET held[k] :
    /\ Cardinality(held[k] \ rows) >= Capacity
    /\ held' = [held EXCEPT ![k] = @ \ rows]
    /\ UNCHANGED <<accepted, stored, closing>>

BeginClosing ==
  /\ closing' = TRUE
  /\ UNCHANGED <<accepted, held, stored>>

\* A closing sink may abandon any row it holds.
Abandon(k) ==
  /\ closing
  /\ \E rows \in SUBSET held[k] : held' = [held EXCEPT ![k] = @ \ rows]
  /\ UNCHANGED <<accepted, stored, closing>>

Next ==
  \/ \E k \in Kinds : \/ Accept(k)
                      \/ Store(k)
                      \/ Release(k)
                      \/ Overflow(k)
                      \/ Abandon(k)
  \/ BeginClosing

Spec == Init /\ [][Next]_vars

=============================================================================
