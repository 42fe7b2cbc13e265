------------------------------ MODULE Bundle ------------------------------
(***************************************************************************)
(* A bundle from its making to its use: one program calls CreateBundle,    *)
(* another imports the document and calls Unpack, as often as it likes.    *)
(***************************************************************************)
EXTENDS BundleCreate, BundleUnpack

NoBundle == [chunkSize |-> 1, ends |-> <<>>, files |-> <<>>]

\* There is no bundle before one is imported.
ASSUME NothingAssumption == Bundles = {NoBundle}

BundleInit == CreateInit /\ Init

Create == CreateNext /\ UNCHANGED vars

\* ImportFromFile of the document.
Import ==
  /\ disk.document
  /\ bundle = NoBundle
  /\ bundle' = Created
  /\ output' = [f \in DOMAIN group |-> "absent"]
  /\ UNCHANGED <<createVars, pc, source, index, from, reading, faulted, result>>

Unpack == bundle # NoBundle /\ Next /\ UNCHANGED createVars

BundleNext == Create \/ Import \/ Unpack

BundleSpec == BundleInit /\ [][BundleNext]_<<createVars, vars>>
--------------------------------------------------------------------------
\* Both halves keep their types; the bundle Unpack is given is WellCut, which
\* is what BundleUnpack assumes of a bundle.
BundleTypeOK == CreateTypeOK /\ TypeOK

\* What CreateBundle made from the files a group describes, on a disk that
\* opened its streams and lost no write, Unpack turns into these files: its
\* calls fail only for reasons outside the bundle.  SUCCESS means that all
\* files are there, whatever the disk did.
RoundTrip ==
  /\ UnpackRestores
  /\ /\ bundle # NoBundle
     /\ ~stream.lost /\ stream.opened = "yes"
     /\ \A f \in DOMAIN group : group[f].located => group[f].faithful
     /\ pc = "idle"
     /\ ~faulted
     => result \in {"none", "SUCCESS"}
==========================================================================
