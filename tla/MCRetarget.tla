------------------------------ MODULE MCRetarget ------------------------------
EXTENDS Retarget

\* Shorter than the buffer, as long as it, and longer; no byte is 0, which is
\* what the buffer holds before.
MCInputs == {<<>>, <<1>>, <<1, 2, 3>>, <<3, 2, 1>>, <<3, 2, 1, 2>>}
\* All pieces of at most two bytes.
MCPieces == {<<>>} \cup {<<x>> : x \in {1, 2}} \cup {<<x, y>> : x, y \in {1, 2}}
MCCodes == {0, 1}
===============================================================================
