----------------------------- MODULE HttpServer -----------------------------
(***************************************************************************)
(* The page server of etg-view (src/src/http.cpp): one thread that accepts *)
(* a connection, reads the request, answers it and closes, one client at a *)
(* time.  Neither the reads nor the writes of serve_one watch the stop     *)
(* event; what bounds them is the client timeout, the cap on the request   *)
(* and the length of the answer.  Sizes are counted in pieces: what one    *)
(* recv or send moves.                                                     *)
(***************************************************************************)
EXTENDS Integers, Sequences, SequencesExt

CONSTANTS
    Clients,
    MaxRequest,    \* pieces of a request, at most, before it is refused
    Response       \* pieces of an answer

ASSUME HttpAssumption == {MaxRequest, Response} \subseteq Nat \ {0}

None == "none"

VARIABLES
    queue,       \* connections waiting to be accepted, in order
    client,      \* new, open, done (it sent a whole request) or left
    inbox,       \* what the next recv finds: nothing, part or end
    room,        \* whether the client's receive window has room
    got,         \* pieces of the answer each client received
    closed,      \* connections the server has closed
    stop, pc, fd, request, whole, status, answered

clients == <<client, inbox, room>>
httpVars ==
    <<queue, clients, got, closed, stop, pc, fd, request, whole, status,
      answered>>

HttpInit ==
    /\ queue = <<>> /\ client = [c \in Clients |-> "new"]
    /\ inbox = [c \in Clients |-> "nothing"] /\ room = [c \in Clients |-> TRUE]
    /\ got = [c \in Clients |-> 0] /\ closed = {}
    /\ stop = FALSE /\ pc = "poll" /\ fd = None
    /\ request = 0 /\ whole = FALSE /\ status = 0 /\ answered = 0

----------------------------------------------------------------------------
(* Clients: they connect, send their request in pieces or never finish it, *)
(* stop reading, and leave, as they please.                                *)

server == <<got, closed, stop, pc, fd, request, whole, status, answered>>

ClientConnects(c) ==
    /\ client[c] = "new"
    /\ client' = [client EXCEPT ![c] = "open"]
    /\ queue' = Append(queue, c)
    /\ UNCHANGED <<inbox, room, server>>

\* A piece that is (last) or is not the end of the headers.
SendPiece(c, last) ==
    /\ client[c] = "open" /\ inbox[c] = "nothing"
    /\ inbox' = [inbox EXCEPT ![c] = IF last THEN "end" ELSE "part"]
    /\ client' = [client EXCEPT ![c] = IF last THEN "done" ELSE "open"]
    /\ UNCHANGED <<queue, room, server>>

ToggleRoom(c) ==
    /\ client[c] \in {"open", "done"}
    /\ room' = [room EXCEPT ![c] = ~@]
    /\ UNCHANGED <<queue, client, inbox, server>>

GoAway(c) ==
    /\ client[c] \in {"open", "done"}
    /\ client' = [client EXCEPT ![c] = "left"]
    /\ UNCHANGED <<queue, inbox, room, server>>

Stop ==
    /\ ~stop
    /\ stop' = TRUE
    /\ UNCHANGED <<queue, clients, got, closed, pc, fd, request, whole, status,
                   answered>>

----------------------------------------------------------------------------
(* The thread                                                              *)

\* run: the stop is honoured before a connection is accepted.
ExitRun ==
    /\ pc = "poll" /\ stop
    /\ pc' = "exited"
    /\ UNCHANGED <<queue, clients, got, closed, stop, fd, request, whole, status,
                   answered>>

Accept ==
    /\ pc = "poll" /\ ~stop /\ queue # <<>>
    /\ fd' = Head(queue) /\ queue' = Tail(queue)
    /\ pc' = "read" /\ request' = 0 /\ whole' = FALSE
    /\ answered' = 0 /\ status' = 0
    /\ UNCHANGED <<clients, got, closed, stop>>

\* serve_one returns and run closes the connection.
CloseFd ==
    /\ closed' = closed \cup {fd}
    /\ fd' = None
    /\ pc' = "poll"

\* mutant: a request may be of any size
NeverTooLarge == FALSE

TooLarge == request > MaxRequest

\* The 413 is sent once, for what it is worth.
Refuse ==
    /\ pc = "read" /\ ~whole /\ TooLarge
    /\ status' = 413
    /\ CloseFd
    /\ UNCHANGED <<queue, clients, got, stop, request, whole, answered>>

Recv ==
    /\ pc = "read" /\ ~whole /\ ~TooLarge /\ inbox[fd] # "nothing"
    /\ inbox' = [inbox EXCEPT ![fd] = "nothing"]
    /\ request' = IF request > MaxRequest THEN request ELSE request + 1
    /\ whole' = (inbox[fd] = "end")
    /\ UNCHANGED <<queue, client, room, got, closed, stop, pc, fd, status,
                   answered>>

\* mutant: an idle client is waited for
WaitForClient == client[fd] = "left"

\* recv returned 0, or the client timeout expired.
GivesUp == TRUE

ReadEnds ==
    /\ pc = "read" /\ ~whole /\ ~TooLarge /\ inbox[fd] = "nothing"
    /\ GivesUp
    /\ CloseFd
    /\ UNCHANGED <<queue, clients, got, stop, request, whole, status, answered>>

\* request_path and the handler: 200, 400 or 404.
Handle(answer) ==
    /\ pc = "read" /\ whole
    /\ status' = answer
    /\ pc' = "send"
    /\ UNCHANGED <<queue, clients, got, closed, stop, fd, request, whole,
                   answered>>

Send ==
    /\ pc = "send" /\ answered < Response
    /\ client[fd] # "left" /\ room[fd]
    /\ answered' = answered + 1
    /\ got' = [got EXCEPT ![fd] = @ + 1]
    /\ UNCHANGED <<queue, clients, closed, stop, pc, fd, request, whole,
                   status>>

SendFails ==
    /\ pc = "send" /\ answered < Response
    /\ client[fd] = "left" \/ ~room[fd]
    /\ CloseFd
    /\ UNCHANGED <<queue, clients, got, stop, request, whole, status, answered>>

SendDone ==
    /\ pc = "send" /\ answered = Response
    /\ CloseFd
    /\ UNCHANGED <<queue, clients, got, stop, request, whole, status, answered>>

----------------------------------------------------------------------------
ServeOne ==
    \/ Refuse \/ Recv \/ ReadEnds
    \/ \E answer \in {200, 400, 404} : Handle(answer)
    \/ Send \/ SendFails \/ SendDone

HttpRun == ExitRun \/ Accept \/ ServeOne

ClientStep ==
    \E c \in Clients :
        \/ ClientConnects(c) \/ ToggleRoom(c) \/ GoAway(c)
        \/ \E last \in BOOLEAN : SendPiece(c, last)

----------------------------------------------------------------------------
(* Properties                                                              *)

\* Server::stop's join returns, whatever the client being served does: one
\* that sends its request a byte at a time, or stops reading its answer, is
\* cut off by the cap or by the timeout.
ServerStops == stop ~> pc = "exited"

\* A client that has sent its request and reads its answer gets all of it,
\* although the clients before it in the queue may be silent or slow.
EveryoneServed ==
    \A c \in Clients :
        (client[c] = "done" /\ c \in Range(queue))
            ~> (got[c] = Response \/ client[c] = "left" \/ ~room[c] \/ stop)

=============================================================================
