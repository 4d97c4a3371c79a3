------------------------ MODULE MCCollectorScheduler ------------------------
(***************************************************************************)
(* Two versions of one task, a1 and a2, with different intervals, run by   *)
(* an executor whose limit is raised from one to two.                      *)
(***************************************************************************)
EXTENDS CollectorScheduler

CONSTANTS a1, a2, c

MCVersions == {a1, a2}
MCName == {"a"}
MCConfig == {c}
MCConfigOf == [n \in MCName |-> c]
MCNameOf == [t \in Task |-> "a"]
MCIntervalOf == [t \in Task |-> IF t = a1 THEN 60 ELSE 300]
=============================================================================
