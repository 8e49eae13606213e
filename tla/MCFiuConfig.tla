---------------------------- MODULE MCFiuConfig ----------------------------
(* Messages for model-checking FiuConfig: a few commands of every kind, at  *)
(* the boundaries of the pin, type, load, frequency and time ranges.        *)
EXTENDS FiuConfig

Fault(c, p, t, l) == [cmd |-> c, pin |-> p, type |-> t, load |-> l]
Loose(s, f, d, r, v) == [sw |-> s, freq |-> f, duty |-> d, rsw |-> r, res |-> v]

MCFaultMsgs ==
  { Fault(0, 0, 0, 0), Fault(0, 63, 1, 1), Fault(0, 72, 4, 2), Fault(0, 73, 1, 0),
    Fault(1, 64, 1, 0), Fault(1, 72, 1, 0), Fault(1, 5, 9, 0),
    Fault(2, 0, 0, 0), Fault(2, 64, 0, 0), Fault(2, 71, 0, 0),
    Fault(2, 0, 5, 1), Fault(2, 64, 5, 1),
    Fault(3, 64, 2, 0), Fault(3, 65, 2, 0), Fault(3, 1, 3, 1) }

MCLooseMsgs == { Loose(1, 2, 30, 1, 32000), Loose(0, 0, 0, 1, 0), Loose(1, 2, 51, 1, 32000) }

(* The commands staged between two P_init, as many as the largest quota of  *)
(* a session; one more is still tried and checked, and not continued from.  *)
MaxStaged == 2
StagedBound == Cardinality(staged) <= MaxStaged

MCTimeBytes == { <<1, 1>>, <<255, 255>> }
=============================================================================
