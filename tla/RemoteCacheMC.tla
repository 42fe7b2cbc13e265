------------------------ MODULE RemoteCacheMC ------------------------
(***************************************************************************)
(* Small instances of RemoteCache, and of its refinement of Fetch.         *)
(***************************************************************************)
EXTENDS RemoteCacheFetch

CONSTANT none

\* The genuine content has two blocks, so that a prefix of it and a prefix
\* followed by the whole can be told from it.
MCGood == [l \in Locations |-> <<"a", "b">>]

\* A server has the genuine content, another one, or nothing.
MCContents == {<<"a", "b">>, <<"x">>, none}
==========================================================================
