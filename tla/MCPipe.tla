------------------------------- MODULE MCPipe -------------------------------
(***************************************************************************)
(* A pipe whose queues are full at two blocks.                              *)
(***************************************************************************)
EXTENDS PipeStream

CONSTANTS p1, p2, p3

MCProc2 == {p1, p2}
MCProc3 == {p1, p2, p3}
MCRid == {Rr(i) : i \in End} \cup {Wr(i) : i \in End}
MCQlk == {Rlock(i) : i \in End} \cup {Wlock(i) : i \in End}
MCInherited2 == [p \in MCProc2 |-> IF p = p1 THEN {0} ELSE {1}]
MCInherited3 == [p \in MCProc3 |->
                    IF p = p1 THEN {0} ELSE IF p = p2 THEN {1} ELSE {0, 1}]
=============================================================================
