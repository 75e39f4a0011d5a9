--------------------------- MODULE MCToolInstall ---------------------------
(* Bounded instance of ToolInstall: every dependency relation over three   *)
(* tools beside an independent one, and larger shapes over four.           *)
EXTENDS ToolInstall

CONSTANTS t1, t2, t3, t4

Tools == {t1, t2, t3, t4}

AllOverThree == SUBSET {e \in {t1, t2, t3} \X {t1, t2, t3} : e[1] # e[2]}

Diamond == {<<t4, t2>>, <<t4, t3>>, <<t2, t1>>, <<t3, t1>>}
CycleWithTail == {<<t1, t2>>, <<t2, t1>>, <<t3, t2>>, <<t3, t4>>}
Chain == {<<t4, t3>>, <<t3, t2>>, <<t2, t1>>}
SelfEdge == {<<t1, t1>>, <<t2, t1>>}

MCGraphs == AllOverThree \cup {Diamond, CycleWithTail, Chain, SelfEdge}
=============================================================================
