---------------------------- MODULE ExtractorTasksMC ----------------------------
(* Instances of ExtractorTasks for TLC.                                      *)
EXTENDS ExtractorTasks

CONSTANTS a, b, c, w1, w2, x1

\* The hub creates and cancels b, the browsers what else there is.
OneCaller == [t \in Task |-> IF t = b THEN {None} ELSE Watcher]

\* Bound: the socket of a browser for which an event was dropped is not followed
\* any further. Nothing is promised to that browser, and what its socket does
\* concerns nobody else but for the clean-up, which Read does as well. Its calls
\* and their answers go on.
FollowedNext ==
  \/ Call
  \/ \E w \in Worker : Run(w)
  \/ \E x \in Watcher \ missed : Watch(x)
  \/ \E x \in missed : \E i \in 1..Len(answers[x]) : Answered(x, i)

FollowedSpec == Init /\ [][FollowedNext]_vars /\ \A w \in Worker : WF_vars(Run(w))
================================================================================
