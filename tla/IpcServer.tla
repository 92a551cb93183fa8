------------------------------ MODULE IpcServer ------------------------------
(***************************************************************************)
(* The daemon as its Unix socket shows it (netfusion-daemon/src/main.rs    *)
(* and src/ipc/server.rs): the interface list that the rescan replaces and *)
(* one connection, whose task reads a request frame, decodes it, processes *)
(* it under the list's read lock and writes the reply.  A request that     *)
(* does not decode is dropped without a reply; a reply that does not       *)
(* encode ends the connection.  Replies already written can still be read  *)
(* after the connection is closed.                                         *)
(***************************************************************************)
EXTENDS Integers, Sequences

CONSTANTS
    MaxIfaces,      \* bound on the interfaces a scan finds
    CodecResults    \* what a bincode call can return here, "ok" or "fail"

ASSUME IpcServerAssumption ==
    /\ MaxIfaces \in Nat
    /\ CodecResults \subseteq {"ok", "fail"}
    /\ CodecResults # {}

VARIABLES
    up,         \* the daemon process is running
    ifaces,     \* length of the list behind Arc<RwLock<Vec<InterfaceInfo>>>
    conn,       \* the client's connection: "none", "open" or "closed"
    req,        \* the request frame on its way to the daemon, or "none"
    resp        \* the reply frame on its way to the client, or NoReply

serverVars == <<up, ifaces, conn, req, resp>>

\* The requests the terminal interface sends, in the order it sends them.
Requests == <<"status", "interfaces", "bonds", "tunnels">>
Kinds == {Requests[i] : i \in DOMAIN Requests}

\* A reply names what it answers; only the interface list has contents here.
Reply(kind) == [kind |-> kind, list |-> IF kind = "interfaces" THEN ifaces ELSE 0]
Replies ==
    [kind : Kinds \ {"interfaces"}, list : {0}] \cup [kind : {"interfaces"}, list : 0..MaxIfaces]
NoReply == [kind |-> "none", list |-> 0]

ServerTypeOK ==
    /\ up \in BOOLEAN
    /\ ifaces \in 0..MaxIfaces
    /\ conn \in {"none", "open", "closed"}
    /\ req \in Kinds \cup {"none"}
    /\ resp \in Replies \cup {NoReply}

\* The client's process starts: it is connected if the daemon listens.
ServerInit ==
    /\ up \in BOOLEAN
    /\ ifaces \in 0..MaxIfaces
    /\ conn = IF up THEN "open" ELSE "none"
    /\ req = "none"
    /\ resp = NoReply

------------------------------------------------------------------------------

\* The rescan replaces the whole list; a failed one leaves it.
Rescan ==
    /\ up
    /\ ifaces' \in 0..MaxIfaces
    /\ UNCHANGED <<up, conn, req, resp>>

RequestArrived == up /\ conn = "open" /\ req # "none"

\* "Failed to decode IPC request": the loop continues with the next frame.
Undecodable ==
    /\ RequestArrived
    /\ "fail" \in CodecResults
    /\ req' = "none"
    /\ UNCHANGED <<up, ifaces, conn, resp>>

Answer ==
    /\ RequestArrived
    /\ "ok" \in CodecResults
    /\ req' = "none"
    /\ resp' = Reply(req)
    /\ UNCHANGED <<up, ifaces, conn>>

\* The reply cannot be encoded: handle_connection returns and drops the stream.
Unencodable ==
    /\ RequestArrived
    /\ {"ok", "fail"} \subseteq CodecResults
    /\ req' = "none"
    /\ conn' = "closed"
    /\ UNCHANGED <<up, ifaces, resp>>

\* Ctrl-C or a crash: the stream is closed under the client.
DaemonExits ==
    /\ up
    /\ up' = FALSE
    /\ conn' = IF conn = "open" THEN "closed" ELSE conn
    /\ req' = "none"
    /\ UNCHANGED <<ifaces, resp>>

HandleRequest == Undecodable \/ Answer \/ Unencodable

ServerNext ==
    \/ Rescan
    \/ Undecodable
    \/ Answer
    \/ Unencodable
    \/ DaemonExits
==============================================================================
