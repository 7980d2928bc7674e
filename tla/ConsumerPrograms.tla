-------------------------- MODULE ConsumerPrograms --------------------------
(***************************************************************************)
(* The consumer programs beyond the stream itself: the main loops of       *)
(* etg-probe, etg-record and etg-cadence, the monitor of etg-cadence, the  *)
(* return of echoes, and the two threads of etg-view, its page server and  *)
(* its frame loop.  They share no state but the mutex-protected page data, *)
(* whose critical sections LiveView has as single steps, so a behaviour is *)
(* that of one of the five.                                                *)
(***************************************************************************)
EXTENDS Cadence, HttpServer, LiveView, ConsumerLoops, EchoReturn

VARIABLE part

vars == <<part, cadenceVars, httpVars, viewVars, loopVars, echoVars>>

Init ==
    /\ part \in {"cadence", "server", "view", "loops", "echo"}
    /\ CadenceInit /\ HttpInit /\ ViewInit /\ LoopsInit /\ EchoInit
    /\ part # "cadence" => punctual /\ due = [x \in Ids |-> 1]
    /\ part # "loops" => program = "probe" /\ ~reconnect /\ ~cross

Monitor ==
    /\ part = "cadence" /\ CadenceNext
    /\ UNCHANGED <<part, httpVars, viewVars, loopVars, echoVars>>

OtherParts == <<part, cadenceVars, viewVars, loopVars, echoVars>>

ServerThread == part = "server" /\ HttpRun /\ UNCHANGED OtherParts

Surroundings ==
    /\ part = "server"
    /\ ClientStep \/ Stop \/ (pc = "exited" /\ UNCHANGED httpVars)
    /\ UNCHANGED OtherParts

View ==
    /\ part = "view" /\ ViewNext
    /\ UNCHANGED <<part, cadenceVars, httpVars, loopVars, echoVars>>

MainLoop ==
    /\ part = "loops"
    /\ LoopsNext \/ (lpc \in {"returned", "gave up"} /\ UNCHANGED loopVars)
    /\ UNCHANGED <<part, cadenceVars, httpVars, viewVars, echoVars>>

Echo ==
    /\ part = "echo" /\ EchoNext
    /\ UNCHANGED <<part, cadenceVars, httpVars, viewVars, loopVars>>

Next ==
    \/ Monitor \/ ServerThread \/ Surroundings \/ View \/ MainLoop \/ Echo

Spec == Init /\ [][Next]_vars

\* The operating system runs the page server's thread, and its timeouts
\* expire.  Nothing is assumed of the clients.
FairSpec == Spec /\ WF_vars(ServerThread)

=============================================================================
