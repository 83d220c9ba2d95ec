------------------------------- MODULE MCWebStore -------------------------------
(***************************************************************************)
(* WebStore for TLC: the default runtime has a host that can be deleted or *)
(* made and used, and the other runtime has one that only runs.            *)
(***************************************************************************)
EXTENDS WebStore

CONSTANTS def, other, h1, h2

MCHome == [h \in {h1, h2} |-> IF h = h1 THEN def ELSE other]
MCOperations == {"create", "delete", "env"} \X {h1}
MCStarts == {[storage |-> {}, running |-> {h1, h2}, groups |-> {}],
             [storage |-> {def}, running |-> {h2}, groups |-> {}],
             [storage |-> {def, other}, running |-> {h1}, groups |-> {h1}]}

=============================================================================
