----------------------------- MODULE StatusMC -----------------------------
(***************************************************************************)
(* Every operation with small groups: an empty one, groups of which        *)
(* resources are new or changed, and more removed resources than are left. *)
(***************************************************************************)
EXTENDS StatusSettings

CONSTANT MaxRemoved

Sizes == {0, 1, 2, 4}

Counts ==
  {[latest |-> n, added |-> a, changed |-> c, removed |-> r, patches |-> p,
    files |-> f] :
     n \in Sizes, a \in 0..1, c \in 0..1, r \in 0..MaxRemoved, p \in 0..1,
     f \in {<<>>, <<FALSE, FALSE>>, <<TRUE, FALSE>>, <<FALSE, TRUE>>}}

\* Numbers that fit together, and that the operation depends on.
Sensible(operation, c) ==
  /\ c.added + c.changed <= c.latest
  /\ c.patches <= c.changed
  /\ operation # "CreateFromDirectory" => c.files = <<>>
  /\ operation = "CreateFromDirectory" =>
       c.latest = 0 /\ c.removed = 0
  /\ operation \notin {"CreatePatch", "DiffChangesAsLists", "Apply"} => c.added + c.changed = 0
  /\ operation \notin {"CreatePatch", "DiffChangesAsLists", "Apply", "RemoveResources", "Merge"}
       => c.removed = 0
  /\ operation = "Merge" => c.latest + c.removed \in Sizes

MCCalls ==
  {[operation |-> o, counts |-> c, verbosity |-> v, listening |-> l] :
     <<o, c, v, l>> \in
       {x \in Operations \X Counts \X (-1..4) \X BOOLEAN :
          Sensible(x[1], x[2]) /\ (x[4] \/ x[3] = 1)}}
===========================================================================
