------------------------ MODULE MCSettingsViewModel ------------------------
EXTENDS SettingsViewModel

CONSTANTS a1, a2, a3, q1

\* Two addresses the wallet accepts and one it rejects.
MCAddrs == {a1, a2, a3}
MCValid == {a1, a2}

\* One peer address.
MCPeers == {q1}

=============================================================================
