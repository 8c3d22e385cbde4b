------------------------------ MODULE MCService ------------------------------
(***************************************************************************)
(* Small instances of Service: two facts in two spaces.                    *)
(***************************************************************************)
EXTENDS Service, TLC

MCInitialFacts ==
    [id \in {"f1", "f2"} |->
        [space |-> IF id = "f1" THEN "default" ELSE "team",
         status |-> "active", by |-> None, successor |-> None]]

Op(kind, target, new, outer, inner) ==
    [kind |-> kind, target |-> target, new |-> new, outer |-> outer, inner |-> inner]

\* Two clients may race for f1; f2 is asked for in its space, in the wrong one,
\* and in two at once.
MCOperations ==
    {Op("supersede", "f1", None, None, None), Op("supersede", "f1", "n1", "default", None),
     Op("supersede", "f2", "n1", "team", "default"), Op("retract", "f2", None, None, None),
     Op("retract", "f1", None, None, None), Op("supersede", "f2", "n1", None, "team"),
     Op("assert", None, "n1", None, "team"), Op("get", "f1", None, None, None)}
=============================================================================
