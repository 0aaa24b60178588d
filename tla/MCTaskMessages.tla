--------------------------- MODULE MCTaskMessages ---------------------------
(* One message of the main agent and one input of a client, sent twice.     *)
EXTENDS TaskMessages, TLC

MCEchoOf == "r1" :> "e1" @@ "r2" :> "e1"
MCTextOf == "r1" :> "x" @@ "r2" :> "x"
MCCasts  == {{"m1", "r1", TheCancel}, {"r1", "r2", TheCancel}, {"m1", "r1", "r2"}}
=============================================================================
