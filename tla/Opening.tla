------------------------------ MODULE Opening ------------------------------
(***************************************************************************)
(* How the programs acquire their descriptors.  Each function that opens   *)
(* something is the sequence of its system calls; every call may fail, and *)
(* a failure closes what the function closes on that path and returns      *)
(* nothing.  A function that succeeds leaves its descriptors to an object, *)
(* whose destructor closes them.                                           *)
(*                                                                         *)
(* A step acquires a descriptor ("open"), tries to without giving up when  *)
(* that fails ("try"), requires one ("need"), or only has to succeed       *)
(* ("call"); "closes" is what is closed when it fails.                     *)
(***************************************************************************)
EXTENDS Integers, Sequences

CONSTANT Addresses    \* addresses getaddrinfo finds for a host name

ASSUME OpeningAssumption == Addresses \in Nat

Open(fd) == [op |-> "open", fd |-> fd, closes |-> {}]
Call == [op |-> "call", fd |-> "", closes |-> {}]

\* These steps are taken while the caller holds fds, and closes them when one
\* of the steps fails.
Holding(fds, steps) ==
    [k \in DOMAIN steps |-> [steps[k] EXCEPT !.closes = @ \cup fds]]

----------------------------------------------------------------------------
(* src/src/tcp.cpp                                                         *)

set_nonblocking == <<Call>>
set_nodelay == <<Call>>

\* SO_REUSEADDR, bind, listen
listen_on ==
    <<Open("listen")>> \o
    Holding({"listen"}, <<Call, Call, Call>> \o set_nonblocking)

accept_nonblocking ==
    <<Open("client")>> \o
    Holding({"client"}, set_nonblocking \o set_nodelay)

\* A socket that cannot be connected is closed, and the next address tried.
connect_to ==
    <<Call>> \o
    [k \in 1 .. Addresses |-> [op |-> "try", fd |-> "peer", closes |-> {}]] \o
    <<[op |-> "need", fd |-> "peer", closes |-> {}]>> \o
    Holding({"peer"}, set_nodelay)

----------------------------------------------------------------------------
(* The objects                                                             *)

\* The name, the socket, then SIOCGIFINDEX, bind and four options.
CanSourceOpen ==
    <<Call, Open("can")>> \o
    Holding({"can"}, <<Call, Call, Call, Call, Call, Call>>)

\* The configuration, the timer, and its setting.
SyntheticSourceOpen == <<Call, Open("timer")>> \o Holding({"timer"}, <<Call>>)

\* FanOut::create and RingIngest::create: the arguments, the stop event.
IngestCreate == <<Call, Open("stop")>>

\* mutant: the listening socket is forgotten when there is no event for stop
ServerCreateForgets == listen_on \o <<Open("stop")>>

\* The http server.
ServerCreate == listen_on \o Holding({"listen"}, <<Open("stop")>>)

EgressCreate == <<Call>> \o listen_on \o Holding({"listen"}, <<Open("stop")>>)

FrameStreamConnect == connect_to \o Holding({"peer"}, set_nonblocking)

\* etg-gen's main: open_can_writer, the timer, its setting.
GenOpen ==
    <<Call, Open("can")>> \o Holding({"can"}, <<Call, Call>>) \o
    Holding({"can"}, <<Open("timer")>>) \o Holding({"can", "timer"}, <<Call>>)

Steps ==
    [CanSource |-> CanSourceOpen, SyntheticSource |-> SyntheticSourceOpen,
     Ingest |-> IngestCreate, Server |-> ServerCreate, Egress |-> EgressCreate,
     FrameStream |-> FrameStreamConnect, Gen |-> GenOpen,
     Client |-> accept_nonblocking]

\* What the destructor closes (for Gen, the end of main; for an accepted
\* client, drop_client).
Closed ==
    [CanSource |-> {"can"}, SyntheticSource |-> {"timer"}, Ingest |-> {"stop"},
     Server |-> {"listen", "stop"}, Egress |-> {"listen", "stop"},
     FrameStream |-> {"peer"}, Gen |-> {"can", "timer"}, Client |-> {"client"}]

----------------------------------------------------------------------------
VARIABLES
    object, step,
    held,       \* descriptors open
    opened,     \* "not yet", "failed", "made" or "destroyed"
    bad_close   \* history: something was closed that was not open

openingVars == <<object, step, held, opened, bad_close>>

OpeningInit ==
    /\ object \in DOMAIN Steps /\ step = 1
    /\ held = {} /\ opened = "not yet" /\ bad_close = FALSE

This == Steps[object][step]

close(fds) ==
    /\ held' = held \ fds
    /\ bad_close' = (bad_close \/ ~(fds \subseteq held))

\* One address is enough.
Skips == This.op = "try" /\ This.fd \in held

Succeed ==
    /\ opened = "not yet" /\ step \in DOMAIN Steps[object]
    /\ This.op = "need" => This.fd \in held
    /\ held' = IF This.op \in {"open", "try"} THEN held \cup {This.fd} ELSE held
    /\ step' = step + 1
    /\ UNCHANGED <<object, opened, bad_close>>

Fail ==
    /\ opened = "not yet" /\ step \in DOMAIN Steps[object]
    /\ This.op = "need" => This.fd \notin held
    /\ ~Skips
    /\ IF This.op = "try"
       THEN step' = step + 1 /\ UNCHANGED <<held, opened, bad_close>>
       ELSE /\ close(This.closes)
            /\ opened' = "failed"
            /\ UNCHANGED step
    /\ UNCHANGED object

Made ==
    /\ opened = "not yet" /\ step \notin DOMAIN Steps[object]
    /\ opened' = "made"
    /\ UNCHANGED <<object, step, held, bad_close>>

Destruct ==
    /\ opened = "made"
    /\ close(Closed[object])
    /\ opened' = "destroyed"
    /\ UNCHANGED <<object, step>>

OpeningNext == Succeed \/ Fail \/ Made \/ Destruct

OpeningSpec == OpeningInit /\ [][OpeningNext]_openingVars

OpeningDone == opened \in {"failed", "destroyed"}

----------------------------------------------------------------------------
(* Properties                                                              *)

\* Whichever call of whichever opening function fails, and also when an object
\* was made and destroyed, no descriptor stays open; and nothing is closed
\* twice, which could close a descriptor that another thread has got since.
NoLeak == ~bad_close /\ (OpeningDone => held = {})

=============================================================================
