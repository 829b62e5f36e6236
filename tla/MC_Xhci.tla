------------------------------ MODULE MC_Xhci ------------------------------
EXTENDS Xhci

M(a, slow, faulty, early) ==
    [attached |-> a, slow |-> slow, faulty |-> faulty, early |-> early]

Kinds == {"kbd", "mouse", "other"}

\* Devices are used once all are enumerated and any request may fail.
QuietMachines ==
    {M(<<a, "none", b>>, FALSE, TRUE, FALSE) : a, b \in Kinds}

\* Every port taken, more of them than the table has entries.
CrowdedMachines ==
    {M(<<a, b, c>>, FALSE, FALSE, FALSE) : a, b, c \in Kinds}

\* Late answers, faults and use during bring-up together.
HarshMachines ==
    {M(<<"kbd", b, "none">>, TRUE, TRUE, TRUE) : b \in {"mouse", "other"}}

AllMachines == QuietMachines \cup CrowdedMachines \cup HarshMachines

============================================================================
