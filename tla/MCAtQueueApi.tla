----------------------------- MODULE MCAtQueueApi -----------------------------
(***************************************************************************)
(* Four slots, three commands: enough for a queue that is full, drained,   *)
(* and gone round the end of its array several times.                      *)
(***************************************************************************)
EXTENDS AtQueueApi

CONSTANTS a, b, c, default

MCCmd == {a, b, c}
MCRspFunc == {default}
C(cmd, status) == [atCmd |-> cmd, rspFunc |-> NoFunc, repCount |-> 1, rspDelay |-> 1,
                   successStatus |-> status]
MCOffered == {C(a, 1), C(b, 1), C(c, 2)}
MCLists == {<<C(a, 1), C(b, 1)>>, <<C(c, 2)>>}
===============================================================================
