---------------------------- MODULE MCGridLayout ----------------------------
(* Instances of GridLayout: a first release and one that renames an         *)
(* attribute and adds two columns, one of them visible.                     *)
EXTENDS GridLayout

CONSTANTS name, firm, city

First == [attrs |-> <<name, firm>>, meta |-> [a \in Attr |-> 1],
          visible |-> {name, firm}, pinned |-> {name}]

Second == [attrs |-> <<name, firm, city>>,
           meta |-> [a \in Attr |-> IF a = firm THEN 2 ELSE 1],
           visible |-> {name, city}, pinned |-> {name}]

Plain == [attrs |-> <<name, firm, city>>, meta |-> [a \in Attr |-> 1],
          visible |-> {name, firm, city}, pinned |-> {}]

Both == {First, Second}
OnlyPlain == {Plain}
=============================================================================
