--------------------------- MODULE MCAcquisition ---------------------------
(* Configurations of the modules for the runs of Acquisition. *)
EXTENDS Acquisition

On(port, id) == [com |-> port, id |-> id]

\* Two modules on one RS-485 line.
SharedLine == <<On("ttyS2", 1), On("ttyS2", 2)>>

\* Modules on different lines.
TwoLines == <<On("ttyS2", 1), On("ttyS4", 1)>>

\* A module on the second RS-485 line alone.
SecondLine == <<On("ttyS4", 1)>>
=============================================================================
