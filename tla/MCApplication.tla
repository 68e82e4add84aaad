----------------------------- MODULE MCApplication -----------------------------
(***************************************************************************)
(* Application with room for two Analyzer objects at a time, the old and   *)
(* the new one of a setMode(), and files with none or one device.          *)
(***************************************************************************)
EXTENDS Application

CONSTANTS a1, a2

MCAnalyzer == {a1, a2}

Lights(type) == <<[name |-> "Living Room", type |-> type, filename |-> "/dev/ttyUSB0"]>>

Server(port) == [address |-> "127.0.0.1", port |-> port]

Camera == [capture |-> [type |-> "opencv"], mappings |-> [top |-> <<>>]]

(* config/example.yml as it is; a device with both sections, with one of    *)
(* them and with none; a port that is no number, an unknown capture type, a *)
(* DotStar without channels.                                                *)
MCFiles ==
  { [devices |-> <<>>, control |-> Server(22222)],
    [devices |-> Lights("karatelight"), control |-> Server(22222), analyzer |-> Camera],
    [devices |-> Lights("atmolight"), analyzer |-> Camera],
    [devices |-> Lights("atmolight")],
    [devices |-> Lights("atmolight"), control |-> Server(Unreadable)],
    [devices |-> <<>>, control |-> Server(22222),
     analyzer |-> [capture |-> [type |-> "v4l"], mappings |-> [top |-> <<>>]]],
    [devices |-> Lights("dotstar"), control |-> Server(22222)] }

===============================================================================
