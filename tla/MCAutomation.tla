---------------------------- MODULE MCAutomation ----------------------------
(* PageAutomation with small sets for TLC. *)
EXTENDS PageAutomation

CONSTANTS f1, f2, u1, u2

\* Fields of every kind of control, with labels that contain each other.
Layout(c1, c2) == [f \in {f1, f2} |-> IF f = f1 THEN c1 ELSE c2]
MCLayouts == {Layout("combobox", "select"), Layout("lookup", "toggle"), Layout("text", "select")}
MCSimilar == [f \in {f1, f2} |-> {f1, f2}]
MCRequired == {f1, Primary}
\* The name of u1 is part of the name of u2.
MCAlike == [u \in {u1, u2} |-> {u, u2}]
=============================================================================
