------------------------------ MODULE MCPower ------------------------------
(* Instances of Power for TLC. *)
EXTENDS Power

Part(managed, hasUlp, wakes, running) ==
  [me |-> managed, ulp |-> hasUlp, phyWake |-> wakes, open |-> running]

\* With and without an ME, a part that has no ULP, one that wakes from the MAC.
MCAdapters == {Part(FALSE, TRUE, TRUE, TRUE), Part(FALSE, TRUE, TRUE, FALSE), Part(TRUE, TRUE, TRUE, TRUE),
               Part(FALSE, FALSE, TRUE, TRUE), Part(TRUE, FALSE, FALSE, TRUE)}

MCWols == {{}, {"EX"}, {"MAG", "LNKC"}}
=============================================================================
