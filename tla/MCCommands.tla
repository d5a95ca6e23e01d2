------------------------------ MODULE MCCommands ------------------------------
(* Commands with and without a parameter, for either side; a word that is no *)
(* command, one that is not ASCII; a byte, -1 and what is no byte.           *)
EXTENDS Commands, TLC

MCWord == {"reset", "read_pid", "read_log", "delete_log", "available_logs",
           "help", "nonsense", "umlaut", "10", "-1", "300"}

MCNumber == "10" :> 10 @@ "-1" :> -1 @@ "300" :> 300
=============================================================================
