--------------------------- MODULE MCSessionLife ---------------------------
(* Two connections and three requests; a scenario says which of them take   *)
(* part, for which client and with which request.                            *)
EXTENDS SessionLife, TLC

MCConns    == {"c1", "c2"}
MCRequests == {"r1", "r2", "r3"}

Story(client, kind, creates) == [client |-> client, kind |-> kind, creates |-> creates]

MCScenarios == {
    \* a client that reconnects, and its run
    Story("c1" :> "C" @@ "c2" :> "C" @@ "r1" :> "C", "r1" :> "run", FALSE),
    \* the thread is created while a client connects to it
    Story("c1" :> "C" @@ "r1" :> "C", "r1" :> "run", TRUE),
    \* a pause answered by the connected client and by another
    Story("c1" :> "C" @@ "r1" :> "C" @@ "r2" :> "C" @@ "r3" :> "D",
          "r1" :> "run" @@ "r2" :> "answer" @@ "r3" :> "answer", FALSE),
    \* two clients, one of which takes over or gives the control away
    Story("c1" :> "C" @@ "c2" :> "D" @@ "r1" :> "D", "r1" :> "takeover", FALSE),
    Story("c1" :> "C" @@ "c2" :> "D" @@ "r1" :> "C", "r1" :> "release", FALSE),
    \* a client that gives the control away and claims it
    Story("c1" :> "C" @@ "r1" :> "C" @@ "r2" :> "C", "r1" :> "claim" @@ "r2" :> "release", FALSE)}
=============================================================================
