---------------------------- MODULE MCSyncClient ----------------------------
(* Small instances of SyncClient.                                            *)
EXTENDS SyncClient, TLC

CONSTANTS m1, m2, f, fp, a, b

TwoMachines == {m1, m2}
OneMachine == {m1}
Files == {f, fp}
FileAndPart == f :> fp

\* One block and two blocks, so that a download of one can go on with the other.
ShortAndLong == {<<a>>, <<b, b>>}
\* Two chunks of one block each.
TwoLong == {<<a, a>>, <<b, b>>}

Everything == [m \in TwoMachines |-> {"push", "pull"}]
PushAlone == [m \in OneMachine |-> {"push"}]
PushAndBoth == [m \in TwoMachines |-> IF m = m1 THEN {"push"} ELSE {"push", "pull"}]
=============================================================================
