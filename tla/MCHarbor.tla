------------------------------ MODULE MCHarbor ------------------------------
EXTENDS Harbor, TLC

NothingDone == [c \in {"start", "send", "name", "register", "query", "link", "connect", "crash"} |-> 0]

\* Three processes join while a message is sent; two with a name; two with
\* messages, a crash and a service that waits for it; two with both waits.
MCWorkloads ==
    { "start" :> 3 @@ "send" :> 1 @@ NothingDone,
      "start" :> 2 @@ "name" :> 1 @@ "register" :> 1 @@ "query" :> 1 @@ NothingDone,
      "start" :> 2 @@ "send" :> 2 @@ "link" :> 1 @@ "crash" :> 1 @@ NothingDone,
      "start" :> 2 @@ "link" :> 1 @@ "connect" :> 1 @@ "crash" :> 1 @@ NothingDone }
=============================================================================
