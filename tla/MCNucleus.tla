----------------------------- MODULE MCNucleus -----------------------------
(* Values of the constants of Nucleus for TLC. *)
EXTENDS NucleusProperties, TLC

CONSTANTS a, b  \* PCBs that main() leaves free

Create(s)     == [service |-> "CREATEPROCESS", support |-> s]
Terminate(t)  == [service |-> "TERMPROCESS", target |-> t]
Io(d)         == [service |-> "DOIO", dev |-> d]
ProcessId(p)  == [service |-> "GETPROCESSID", parent |-> p]
Plain(s)      == [service |-> s]

OneLineEach == [d \in Dev |-> d]
OneLine     == [d \in Dev |-> 3]

\* Families: creation and termination, of oneself, of others and for an unknown
\* service, and the queries.
FamilyRequests == {Create(FALSE), Terminate(a), Terminate(b), ProcessId(TRUE),
                   ProcessId(FALSE), Plain("GETTIME"), Plain("OTHER")}

\* Waits, for the clock and for devices, and their interruption.
WaitRequests == {Create(TRUE), Terminate(a), Plain("CLOCKWAIT")} \cup {Io(d) : d \in Dev}

\* The three ways to an answer, with the devices on one interrupt line, and no
\* termination but that of test.
DeviceRequests == {Create(TRUE), Plain("CLOCKWAIT")} \cup {Io(d) : d \in Dev}

FreePcbs == Permutations({a, b})
=============================================================================
