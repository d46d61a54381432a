------------------------------ MODULE MC_HostSys ------------------------------
EXTENDS HostSys

CONSTANTS ee, vu

MCThreads == {ee, vu}
\* PageAccess_NoAccess, _ReadOnly, _ReadWrite and _Any.
MCModes == {{}, {"r"}, {"r", "w"}, {"r", "w", "x"}}
=============================================================================
