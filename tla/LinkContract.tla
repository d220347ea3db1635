---------------------------- MODULE LinkContract ----------------------------
(***************************************************************************)
(* What the MQTT link promises to the rest of the gateway.                 *)
(*                                                                         *)
(* The store-and-forward half of the program (DataOperator) never looks at *)
(* the socket: it is driven by the two slots MainWindow::mqttConnectted    *)
(* and MainWindow::mqttDisConnectted and it reads the shared flag          *)
(* MqttOperator::isOnline.  This module is that interface: the phase of    *)
(* the connection as the slots see it, and every change of the flag that   *)
(* the rest of the program has to expect.  MqttLink implements it; Resend  *)
(* takes it as its environment.                                            *)
(***************************************************************************)

VARIABLES
    \* "down":    no established socket
    \* "tcp":     socket established, no CONNACK yet
    \* "ready":   CONNACK received, mqttConnectted has run
    \* "closing": the client has asked the socket to close
    phase,
    isOnline    \* MqttOperator::isOnline

linkVars == <<phase, isOnline>>

Established == phase \in {"tcp", "ready"}

LinkTypeOK ==
    /\ phase \in {"down", "tcp", "ready", "closing"}
    /\ isOnline \in BOOLEAN

\* The state Helper's constructor leaves behind: a first connection attempt
\* is under way and nothing has been heard from the broker.
LinkInit ==
    /\ phase = "down"
    /\ isOnline = FALSE

-----------------------------------------------------------------------------

\* The socket becomes established; a connection that was given up while it
\* was being set up goes straight to closing, and is then not online.
TcpUp ==
    /\ phase = "down"
    /\ \/ phase' = "tcp"
       \/ phase' = "closing" /\ ~isOnline
    /\ UNCHANGED isOnline

\* The one CONNACK of a connection: mqttConnectted runs.
LinkReady ==
    /\ phase = "tcp"
    /\ phase' = "ready"
    /\ isOnline' = TRUE

\* The dog closes a connection it has not heard from.
LinkClosing ==
    /\ Established
    /\ phase' = "closing"
    /\ isOnline' = FALSE

\* The socket is gone: mqttDisConnectted runs.
LinkLost ==
    /\ phase # "down"
    /\ phase' = "down"
    /\ isOnline' = FALSE

\* The flag alone changes: the dog, a PINGRESP, a notification that finds no
\* connection, an offline report of the operating system.  It may become TRUE
\* with the socket down, never while the client itself is closing it.
FlagChange ==
    /\ isOnline' \in BOOLEAN
    /\ phase = "closing" => ~isOnline'
    /\ UNCHANGED phase

LinkNext == TcpUp \/ LinkReady \/ LinkClosing \/ LinkLost \/ FlagChange

LinkSpec == LinkInit /\ [][LinkNext]_linkVars
=============================================================================
