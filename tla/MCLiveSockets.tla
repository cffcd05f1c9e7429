---------------------------- MODULE MCLiveSockets ----------------------------
\* Instance of LiveSockets: the three clients and one bus.
EXTENDS LiveSockets

AllClients == {"phone", "web", "native"}
JustWeb == {"web"}
===============================================================================
