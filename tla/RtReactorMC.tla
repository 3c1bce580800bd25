----------------------------- MODULE RtReactorMC -----------------------------
EXTENDS RtReactor, TLC
CONSTANTS a, b, g
(* Rust tasks hand the reactor their own sockets; a .g task passes the id  *)
(* of the socket table, which counts from 1 and so names another file.     *)
MCRustTasks == {a, b}
MCGTasks == {g}
OwnFd == a :> 5 @@ b :> 6 @@ g :> 7
SocketId == a :> 5 @@ b :> 6 @@ g :> 1
=============================================================================
