----------------------------- MODULE MCBackfill -----------------------------
EXTENDS Backfill, TLC

\* A table with two columns and one with one.
MCTables == << [rows |-> << "m1", "m2", "m3" >>, columns |-> << "prompt", "reply" >>],
               [rows |-> << "q1", "q2", "q3", "q4" >>, columns |-> << "text" >>] >>

Good == [c \in Cells |-> "good"]

\* Everything is accepted but an empty reply; one text refused in each table.
MCTexts ==
    { (<< "m1", "reply" >> :> "blank") @@ Good,
      (<< "m2", "reply" >> :> "refused") @@ (<< "q2", "text" >> :> "refused") @@ Good }

MCLate == {"q4"}
=============================================================================
