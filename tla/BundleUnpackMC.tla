-------------------------- MODULE BundleUnpackMC --------------------------
(* Bundles of up to MaxFiles files, MaxChunks chunks and MaxLength bytes.  *)
EXTENDS BundleUnpack, Integers

CONSTANTS MaxFiles, MaxChunks, MaxLength, ChunkSizes

\* Where n pieces of a stream end that are side by side.
Ends(n, total) ==
  {e \in [1..n -> 0..total] : \A i \in 1..(n - 1) : e[i] <= e[i + 1]}

Start(e, f) == IF f = 1 THEN 0 ELSE e[f - 1]

\* Files that end at the places e, as the group records them.
FileList(e) ==
  [f \in 1..Len(e) |->
    [located |-> TRUE, from |-> Start(e, f), to |-> e[f], faithful |-> TRUE,
     size |-> e[f] - Start(e, f)]]

\* One of them was changed after the group was made, and is as long as it was
\* or a byte longer or shorter.
Changed(e) ==
  UNION {{[FileList(e) EXCEPT ![f].faithful = FALSE, ![f].size = n] :
            n \in {FileList(e)[f].size + d : d \in {-1, 0, 1}} \cap Nat} :
         f \in 1..Len(e)}

\* One of them is a resource without a file.
Missing(e) ==
  {[FileList(e) EXCEPT ![f].located = FALSE, ![f].faithful = FALSE, ![f].size = 1] :
     f \in {g \in 1..Len(e) : e[g] = Start(e, g)}}

FileLists ==
  UNION {{FileList(e)} \cup Changed(e) \cup Missing(e) :
         e \in UNION {Ends(n, MaxLength) : n \in 1..MaxFiles}}

Cuts == UNION {Ends(n, MaxLength) : n \in 1..MaxChunks}

\* The stream is whole, or the last chunk is short of it.
MCBundles ==
  {b \in [files : FileLists, ends : Cuts, chunkSize : ChunkSizes] :
     /\ WellCut(b)
     /\ LET end == Boundary(b, Len(b.files) + 1)
        IN  \/ ChunkEnd(b, Len(b.ends)) = end
            \/ /\ ChunkEnd(b, Len(b.ends)) < end
               /\ \A f \in DOMAIN b.files : b.files[f].faithful}
==========================================================================
