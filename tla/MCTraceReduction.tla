---------------------------- MODULE MCTraceReduction ----------------------------
EXTENDS DecodeEvidence

\* decodeInput, an instance inside it whose exit is in the extent of the first,
\* writeSuccess and writeFailure; an exit of the first is inside its own extent,
\* and after a failure the program may go back to the entry of decodeInput.
MCInstances ==
  <<[entry |-> 1, extent |-> {1, 2, 3}, exits |-> {3, 4, 5}],
    [entry |-> 2, extent |-> {2}, exits |-> {3}],
    [entry |-> 4, extent |-> {4}, exits |-> {4, 5}],
    [entry |-> 5, extent |-> {5}, exits |-> {1, 5}]>>
MCPcs == 1 .. 5
MCWriters == {2}
MCSnapshotPcs == {1 .. 5, 1 .. 3, 2 .. 5}
MCCapturePcs == {4, 3}
===============================================================================
